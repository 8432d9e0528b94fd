----------------------------- MODULE TriAdapter -----------------------------
(***************************************************************************)
(* The Java side of a Titan test run: the connections of the test executor  *)
(* (trimapper/TitanItsTriMapper, TitanPortHandler), the test adapter        *)
(* (TestAdapter, ComponentMgr) and the threads that receive from the system *)
(* under test (the capture thread of PcapMultiplexer and the UDP thread of  *)
(* every UpperTesterPort).                                                  *)
(*                                                                         *)
(* A map request makes a TSI port id and a port object; one number stands   *)
(* for both.  Threads are: a handler per connection, the capture thread,    *)
(* and the UDP thread of a port object, named by its number.  The accept    *)
(* loop and the monitor of dead handlers are actions of their own.          *)
(* The codecs and the content of messages are left out, and sending by UDP,  *)
(* which changes nothing; the configuration is assumed to be valid, so that *)
(* createPort finds its port.                                               *)
(***************************************************************************)
EXTENDS PcapMultiplexer, ComponentMgr

CONSTANTS Handler,     \* the connections of the test executor
          KeyOf,       \* the component and port of each
          UtName,      \* the port names that are upper tester ports
          Sender,      \* bound: the connections whose test component sends packets
          MaxPackets,  \* bound: frames and datagrams received
          MaxCuts      \* bound: connections cut by the test executor

ASSUME PortAssumption == IsFiniteSet(Port) /\ Port = 1..Cardinality(Port)
ASSUME KeyAssumption == KeyOf \in [Handler -> Key] /\ Key # {} /\ UtName \subseteq PortName
ASSUME SenderAssumption == Sender \subseteq Handler

ASSUME ThreadAssumption ==
  /\ NoThread \notin Handler \cup {Capture} \cup Port
  /\ Capture \notin Handler \cup Port /\ Handler \cap Port = {}

VARIABLES
  hPc,         \* what the handler of each connection is doing
  hId,         \* its tsiPortId, 0 before its first map request
  lost,        \* connections whose other end is gone
  announced,   \* handlers the accept loop has put in its table
  registered,  \* keys of portHandlerToTsiPortHandler
  dbTsi,       \* ... and its values, 0 for the null port id
  tsiOf,       \* tsiPortIdToPortHandler
  owner,       \* the handler that made each port object
  lastId,
  ut,          \* what the UDP thread of each port object is doing
  running,     \* UpperTesterPort.running
  task,        \* the call each thread executes
  arg,         \* its argument
  tPort,       \* the port object or port id it works on
  todo,        \* components its reset has still to empty
  names,       \* ports of the present one it has still to remove
  packets,
  cuts,        \* connections that ended, or were lost, before their port was unmapped
  resetter     \* the first thread that reset the test adapter

handlers == <<hPc, hId, lost, announced>>
mapper == <<registered, dbTsi, tsiOf>>
ports == <<owner, lastId>>
uts == <<ut, running>>
calls == <<task, arg, tPort, todo, names>>
ghosts == <<cuts, resetter>>
vars == <<muxVars, mgrVars, handlers, mapper, ports, uts, calls, packets, ghosts>>

Thread == Handler \cup {Capture} \cup Port
IsUt(i) == KeyOf[owner[i]].name \in UtName
Idle == {"unmapped", "mapped"}
Busy == {"create", "addComp", "addPort", "unmapping"}

\* What a handler does with a packet to send.
Sending == {"check", "compose", "transmit"}

\* The handler takes the next request from its queue.
TakesRequest(h) == hPc[h] \in Idle /\ task[h] = "none"

Init ==
  /\ MuxInit /\ MgrInit
  /\ hPc = [h \in Handler |-> "new"] /\ hId = [h \in Handler |-> 0]
  /\ lost = {} /\ announced = {}
  /\ registered = {} /\ dbTsi = [h \in Handler |-> 0] /\ tsiOf = [i \in Port |-> NoThread]
  /\ owner = [i \in Port |-> NoThread] /\ lastId = 0
  /\ ut = [i \in Port |-> "none"] /\ running = [i \in Port |-> FALSE]
  /\ task = [t \in Thread |-> "none"]
  /\ arg = [t \in Thread |-> IF t \in Handler THEN KeyOf[t] ELSE CHOOSE k \in Key : TRUE]
  /\ tPort = [t \in Thread |-> 0] /\ todo = [t \in Thread |-> {}]
  /\ names = [t \in Thread |-> {}]
  /\ packets = 0 /\ cuts = 0 /\ resetter = NoThread

-----------------------------------------------------------------------------
(* Connections.                                                            *)

\* The accept loop starts a handler.  The same port of the same component only
\* connects again when its last connection is gone.
Connect(h) ==
  /\ hPc[h] = "new"
  /\ \A g \in Handler : hPc[g] # "new" => g \in announced
  /\ \A g \in Handler \ {h} : KeyOf[g] = KeyOf[h] => hPc[g] \in {"new", "dead"} \/ g \in lost
  /\ hPc' = [hPc EXCEPT ![h] = "unmapped"]
  /\ UNCHANGED <<muxVars, mgrVars, hId, lost, announced, mapper, ports, uts, calls,
                 packets, ghosts>>

\* ... and then puts it in its table, whatever the handler has done since.
Announce(h) ==
  /\ hPc[h] # "new" /\ h \notin announced
  /\ announced' = announced \cup {h}
  /\ registered' = registered \cup {h}
  /\ dbTsi' = [dbTsi EXCEPT ![h] = 0]
  /\ UNCHANGED <<muxVars, mgrVars, hPc, hId, lost, tsiOf, ports, uts, calls, packets, ghosts>>

\* The test executor dies or closes its end.
Lose(h) ==
  /\ hPc[h] \notin {"new", "dead"} /\ h \notin lost
  /\ cuts < MaxCuts
  /\ lost' = lost \cup {h}
  /\ cuts' = IF hPc[h] = "unmapped" THEN cuts ELSE cuts + 1
  /\ UNCHANGED <<muxVars, mgrVars, hPc, hId, announced, mapper, ports, uts, calls,
                 packets, resetter>>

\* unregisterPortHandler
Forget(h) ==
  /\ registered' = registered \ {h}
  /\ tsiOf' = IF h \in registered /\ dbTsi[h] # 0
              THEN [tsiOf EXCEPT ![dbTsi[h]] = NoThread] ELSE tsiOf
  /\ UNCHANGED dbTsi

\* The request "unregister" of the test executor, or the QUIT that follows an error
\* of the socket: it does not unmap the port.
EndConnection(h) ==
  /\ TakesRequest(h)
  /\ hPc[h] = "mapped" => cuts < MaxCuts
  /\ hPc' = [hPc EXCEPT ![h] = "dead"]
  /\ Forget(h)
  /\ cuts' = IF hPc[h] = "mapped" THEN cuts + 1 ELSE cuts
  /\ UNCHANGED <<muxVars, mgrVars, hId, lost, announced, ports, uts, calls, packets, resetter>>

\* At the end of the stream the socket handler makes messages that do not decode:
\* the handler ends.
StreamEnds(h) ==
  /\ TakesRequest(h) /\ h \in lost
  /\ hPc' = [hPc EXCEPT ![h] = "dead"]
  /\ UNCHANGED <<muxVars, mgrVars, hId, lost, announced, mapper, ports, uts, calls,
                 packets, ghosts>>

\* HandlerMonitor, every second
Reap(h) ==
  /\ hPc[h] = "dead" /\ h \in registered
  /\ Forget(h)
  /\ UNCHANGED <<muxVars, mgrVars, handlers, ports, uts, calls, packets, ghosts>>

-----------------------------------------------------------------------------
(* The map request.                                                        *)

\* A component of the test executor waits for the answer to a map or unmap request
\* (TRI_map, TRI_unmap) before it makes one for another of its ports.
MayRequest(h) ==
  /\ h \notin lost
  /\ \A g \in Handler \ lost : KeyOf[g].comp = KeyOf[h].comp => hPc[g] \notin Busy

\* handleMap up to registerPortHandler
Map(h) ==
  LET i == lastId + 1 IN
  /\ hPc[h] = "unmapped" /\ MayRequest(h)
  /\ i \in Port
  /\ hPc' = [hPc EXCEPT ![h] = "create"]
  /\ hId' = [hId EXCEPT ![h] = i]
  /\ lastId' = i /\ owner' = [owner EXCEPT ![i] = h]
  /\ registered' = registered \cup {h}
  /\ dbTsi' = [dbTsi EXCEPT ![h] = i]
  /\ tsiOf' = [tsiOf EXCEPT ![i] = h]
  /\ UNCHANGED <<muxVars, mgrVars, lost, announced, uts, calls, packets, ghosts>>

\* triMap makes the port object, which starts to receive.
CreatePort(h) ==
  LET i == hId[h] IN
  /\ hPc[h] = "create"
  /\ hPc' = [hPc EXCEPT ![h] = "addComp"]
  /\ \/ /\ IsUt(i)
        /\ ut' = [ut EXCEPT ![i] = "wait"]
        /\ running' = [running EXCEPT ![i] = TRUE]
        /\ UNCHANGED muxVars
     \/ /\ ~IsUt(i)
        /\ Register(i)
        /\ UNCHANGED uts
  /\ UNCHANGED <<mgrVars, hId, lost, announced, mapper, ports, calls, packets, ghosts>>

MapAddsComponent(h) ==
  /\ hPc[h] = "addComp"
  /\ hPc' = [hPc EXCEPT ![h] = "addPort"]
  /\ AddComponent(KeyOf[h].comp)
  /\ UNCHANGED <<muxVars, hId, lost, announced, mapper, ports, uts, calls, packets, ghosts>>

MapAddsPort(h) ==
  /\ hPc[h] = "addPort"
  /\ hPc' = [hPc EXCEPT ![h] = "mapped"]
  /\ AddPort(KeyOf[h], hId[h])
  /\ UNCHANGED <<muxVars, hId, lost, announced, mapper, ports, uts, calls, packets, ghosts>>

-----------------------------------------------------------------------------
(* removePort, called by the unmap request and by the reset.                *)

Return(t) == task' = [task EXCEPT ![t] = IF t \in Handler THEN "none" ELSE "reset"]

\* An exception ends thread t: the handler catches it outside of its loop, the
\* receiving threads do not catch it.
Dies(t) ==
  /\ task' = [task EXCEPT ![t] = "none"]
  /\ tPort' = [tPort EXCEPT ![t] = 0]
  /\ todo' = [todo EXCEPT ![t] = {}]
  /\ names' = [names EXCEPT ![t] = {}]
  /\ IF t = Capture THEN CallbackThrows ELSE UNCHANGED muxVars
  /\ ut' = IF t \in Port THEN [ut EXCEPT ![t] = "ended"] ELSE ut
  /\ hPc' = IF t \in Handler THEN [hPc EXCEPT ![t] = "dead"] ELSE hPc
  /\ cuts' = IF t \in Handler THEN cuts + 1 ELSE cuts
  /\ UNCHANGED <<mgrVars, hId, lost, announced, mapper, ports, running, arg, packets, resetter>>

\* The lookup, and deleteObservers.
RemoveChecks(t) ==
  LET i == portAt[arg[t]] IN
  /\ task[t] = "remove"
  /\ IF Known(arg[t])
     THEN /\ task' = [task EXCEPT ![t] = "dispose"]
          /\ tPort' = [tPort EXCEPT ![t] = i]
          /\ StopObserving(i)
     ELSE Return(t) /\ UNCHANGED <<tPort, mgrVars>>
  /\ UNCHANGED <<muxVars, handlers, mapper, ports, uts, arg, todo, names, packets, ghosts>>

\* The table is read again for dispose: another thread has removed the port.
RemoveFails(t) ==
  /\ task[t] = "dispose"
  /\ portAt[arg[t]] # tPort[t]
  /\ Dies(t)

\* Mutated: the UDP thread is not stopped, and not waited for.
NoDispose(t, i) ==
  /\ task' = [task EXCEPT ![t] = "drop"]
  /\ UNCHANGED <<muxVars, uts>>

\* dispose of port object i, up to the wait for a receiving thread.
Dispose(t, i) ==
  IF IsUt(i)
  THEN /\ task' = [task EXCEPT ![t] = IF running[i] THEN "join" ELSE "drop"]
       /\ running' = [running EXCEPT ![i] = FALSE]
       /\ UNCHANGED <<ut, muxVars>>
  ELSE /\ Unregister(t, i)
       /\ task' = [task EXCEPT ![t] = IF clients = {i} THEN "join" ELSE "drop"]
       /\ UNCHANGED uts

RemoveDisposes(t) ==
  LET i == portAt[arg[t]] IN
  /\ task[t] = "dispose" /\ i # 0
  /\ Dispose(t, i)
  /\ tPort' = [tPort EXCEPT ![t] = i]
  /\ UNCHANGED <<mgrVars, handlers, mapper, ports, arg, todo, names, packets, ghosts>>

\* The receiving thread has ended.
RemoveJoins(t) ==
  /\ task[t] = "join"
  /\ IF IsUt(tPort[t])
     THEN ut[tPort[t]] = "ended" /\ UNCHANGED muxVars
     ELSE CaptureJoined(t)
  /\ task' = [task EXCEPT ![t] = "drop"]
  /\ UNCHANGED <<mgrVars, handlers, mapper, ports, uts, arg, tPort, todo, names, packets, ghosts>>

RemoveDrops(t) ==
  /\ task[t] = "drop"
  /\ DropPort(arg[t])
  /\ Return(t)
  /\ tPort' = [tPort EXCEPT ![t] = 0]
  /\ UNCHANGED <<muxVars, handlers, mapper, ports, uts, arg, todo, names, packets, ghosts>>

-----------------------------------------------------------------------------
(* The unmap request.                                                      *)

\* unregisterTsiPortId(tsiPortId, false)
ForgetTsi(h) ==
  /\ tsiOf' = [tsiOf EXCEPT ![hId[h]] = NoThread]
  /\ IF tsiOf[hId[h]] = h
     THEN registered' = registered \cup {h} /\ dbTsi' = [dbTsi EXCEPT ![h] = 0]
     ELSE UNCHANGED <<registered, dbTsi>>

\* Mutated: the port id is taken from the mapper before the adapter unmaps the port.
UnmapForgetsFirst(h) ==
  /\ hPc[h] = "mapped" /\ TakesRequest(h) /\ MayRequest(h)
  /\ hPc' = [hPc EXCEPT ![h] = "unmapping"]
  /\ task' = [task EXCEPT ![h] = "remove"]
  /\ ForgetTsi(h)
  /\ UNCHANGED <<muxVars, mgrVars, hId, lost, announced, ports, uts,
                 arg, tPort, todo, names, packets, ghosts>>

\* handleUnmap calls triUnmap ...
Unmap(h) ==
  /\ hPc[h] = "mapped" /\ TakesRequest(h) /\ MayRequest(h)
  /\ hPc' = [hPc EXCEPT ![h] = "unmapping"]
  /\ task' = [task EXCEPT ![h] = "remove"]
  /\ UNCHANGED <<muxVars, mgrVars, hId, lost, announced, mapper, ports, uts,
                 arg, tPort, todo, names, packets, ghosts>>

\* Mutated: the request is over before the adapter has removed the port.
UnmappedTooSoon(h) ==
  /\ hPc[h] = "unmapping"
  /\ hPc' = [hPc EXCEPT ![h] = "unmapped"]
  /\ ForgetTsi(h)
  /\ UNCHANGED <<muxVars, mgrVars, hId, lost, announced, ports, uts, calls, packets, ghosts>>

\* ... and then unregisters the port id.
Unmapped(h) ==
  /\ hPc[h] = "unmapping" /\ task[h] = "none"
  /\ hPc' = [hPc EXCEPT ![h] = "unmapped"]
  /\ ForgetTsi(h)
  /\ UNCHANGED <<muxVars, mgrVars, hId, lost, announced, ports, uts, calls, packets, ghosts>>

-----------------------------------------------------------------------------
(* The request to send: triSend finds the port object, whose layers call    *)
(* sendPacket of the multiplexer.                                           *)

Send(h) ==
  LET i == portAt[KeyOf[h]] IN
  /\ h \in Sender /\ hPc[h] = "mapped" /\ TakesRequest(h)
  /\ Known(KeyOf[h]) /\ ~IsUt(i)
  /\ task' = [task EXCEPT ![h] = "check"]
  /\ tPort' = [tPort EXCEPT ![h] = i]
  /\ UNCHANGED <<muxVars, mgrVars, handlers, mapper, ports, uts, arg, todo, names, packets, ghosts>>

Proceed(h, next) ==
  /\ task' = [task EXCEPT ![h] = next]
  /\ tPort' = IF next = "none" THEN [tPort EXCEPT ![h] = 0] ELSE tPort
  /\ UNCHANGED <<muxVars, mgrVars, handlers, mapper, ports, uts, arg, todo, names, packets, ghosts>>

\* Mutated: a port that is not registered sends like any other.
SendUnchecked(h) ==
  /\ task[h] = "check"
  /\ Proceed(h, "transmit")

\* Nothing is sent for a port that is not registered.
SendChecks(h) ==
  /\ task[h] = "check"
  /\ Proceed(h, IF tPort[h] \in clients THEN "compose" ELSE "none")

\* The address and the frame type are read; the client may be gone since the check.
SendComposes(h) ==
  /\ task[h] = "compose"
  /\ IF tPort[h] \in clients THEN Proceed(h, "transmit") ELSE Dies(h)

\* The native call returns.
SendEnds(h) ==
  /\ task[h] = "transmit"
  /\ Proceed(h, "none")

-----------------------------------------------------------------------------
(* The receiving threads.                                                  *)

FrameArrives ==
  /\ packets < MaxPackets
  /\ Dispatch
  /\ packets' = packets + 1
  /\ UNCHANGED <<mgrVars, handlers, mapper, ports, uts, calls, ghosts>>

FrameIsDelivered ==
  /\ \E i \in pending :
       /\ Deliver(i)
       /\ tPort' = [tPort EXCEPT ![Capture] = i]
  /\ task' = [task EXCEPT ![Capture] = "notify"]
  /\ UNCHANGED <<mgrVars, handlers, mapper, ports, uts, arg, todo, names, packets, ghosts>>

CaptureLoops ==
  /\ DispatchEnds \/ DispatchFails \/ LoopEnds
  /\ UNCHANGED <<mgrVars, handlers, mapper, ports, uts, calls, packets, ghosts>>

DatagramArrives(i) ==
  /\ packets < MaxPackets
  /\ ut[i] = "wait" /\ running[i]
  /\ ut' = [ut EXCEPT ![i] = "callback"]
  /\ task' = [task EXCEPT ![i] = "notify"]
  /\ tPort' = [tPort EXCEPT ![i] = i]
  /\ packets' = packets + 1
  /\ UNCHANGED <<muxVars, mgrVars, handlers, mapper, ports, running, arg, todo, names, ghosts>>

\* receive fails because the socket was closed.
SocketIsClosed(i) ==
  /\ ut[i] = "wait" /\ ~running[i]
  /\ ut' = [ut EXCEPT ![i] = "ended"]
  /\ UNCHANGED <<muxVars, mgrVars, handlers, mapper, ports, running, calls, packets, ghosts>>

CallbackEnds(t) ==
  /\ task' = [task EXCEPT ![t] = "none"]
  /\ tPort' = [tPort EXCEPT ![t] = 0]
  /\ IF t = Capture
     THEN CallbackReturns /\ UNCHANGED ut
     ELSE /\ ut' = [ut EXCEPT ![t] = IF running[t] THEN "wait" ELSE "ended"]
          /\ UNCHANGED muxVars

\* notifyObservers
Notify(t) ==
  /\ task[t] = "notify"
  /\ IF tPort[t] \in observed
     THEN task' = [task EXCEPT ![t] = "update"] /\ UNCHANGED <<muxVars, ut, tPort>>
     ELSE CallbackEnds(t)
  /\ UNCHANGED <<mgrVars, handlers, mapper, ports, running, arg, todo, names, packets, ghosts>>

\* update looks up the port id under the names of the port object.
Update(t) ==
  LET k == KeyOf[owner[tPort[t]]] IN
  /\ task[t] = "update"
  /\ IF Known(k)
     THEN /\ task' = [task EXCEPT ![t] = "enqueue"]
          /\ tPort' = [tPort EXCEPT ![t] = portAt[k]]
          /\ UNCHANGED <<muxVars, ut>>
     ELSE CallbackEnds(t)
  /\ UNCHANGED <<mgrVars, handlers, mapper, ports, running, arg, todo, names, packets, ghosts>>

\* sendNorthboundMessage: without a handler for the port id, the adapter is reset.
Enqueue(t) ==
  /\ task[t] = "enqueue"
  /\ IF tsiOf[tPort[t]] # NoThread
     THEN CallbackEnds(t) /\ UNCHANGED <<todo, resetter>>
     ELSE /\ task' = [task EXCEPT ![t] = "reset"]
          /\ todo' = [todo EXCEPT ![t] = lists]
          /\ resetter' = IF resetter = NoThread THEN t ELSE resetter
          /\ UNCHANGED <<muxVars, ut, tPort>>
  /\ UNCHANGED <<mgrVars, handlers, mapper, ports, running, arg, names, packets, cuts>>

-----------------------------------------------------------------------------
(* removeAllPorts.                                                         *)

ResetComponent(t) ==
  /\ task[t] = "reset" /\ names[t] = {}
  /\ \E c \in todo[t] :
       IF c \in lists
       THEN /\ todo' = [todo EXCEPT ![t] = @ \ {c}]
            /\ names' = [names EXCEPT ![t] = NamesOf(c)]
            /\ arg' = [arg EXCEPT ![t] = [@ EXCEPT !.comp = c]]
            /\ UNCHANGED <<muxVars, mgrVars, handlers, mapper, ports, uts, task, tPort,
                           packets, ghosts>>
       ELSE Dies(t)

ResetPort(t) ==
  /\ task[t] = "reset"
  /\ \E n \in names[t] :
       /\ names' = [names EXCEPT ![t] = @ \ {n}]
       /\ arg' = [arg EXCEPT ![t] = [@ EXCEPT !.name = n]]
  /\ task' = [task EXCEPT ![t] = "remove"]
  /\ UNCHANGED <<muxVars, mgrVars, handlers, mapper, ports, uts, tPort, todo, packets, ghosts>>

ResetEnds(t) ==
  /\ task[t] = "reset" /\ names[t] = {} /\ todo[t] = {}
  /\ ClearComponents
  /\ CallbackEnds(t)
  /\ UNCHANGED <<handlers, mapper, ports, running, arg, todo, names, packets, ghosts>>

-----------------------------------------------------------------------------
\* What the handler of a connection does on its own once it has a request.
HandlerStep(h) ==
  \/ CreatePort(h) \/ MapAddsComponent(h) \/ MapAddsPort(h) \/ Unmapped(h)
  \/ SendChecks(h) \/ SendComposes(h) \/ SendEnds(h)

Removes(t) ==
  RemoveChecks(t) \/ RemoveFails(t) \/ RemoveDisposes(t) \/ RemoveJoins(t) \/ RemoveDrops(t)

Receives(t) ==
  Notify(t) \/ Update(t) \/ Enqueue(t) \/ ResetComponent(t) \/ ResetPort(t) \/ ResetEnds(t)

Next ==
  \/ \E h \in Handler :
       \/ Connect(h) \/ Announce(h) \/ Lose(h) \/ EndConnection(h) \/ StreamEnds(h) \/ Reap(h)
       \/ Map(h) \/ HandlerStep(h) \/ Unmap(h) \/ Send(h)
  \/ \E t \in Thread : Removes(t)
  \/ \E t \in {Capture} \cup Port : Receives(t)
  \/ \E i \in Port : DatagramArrives(i) \/ SocketIsClosed(i)
  \/ FrameArrives \/ FrameIsDelivered \/ CaptureLoops

Spec == Init /\ [][Next]_vars

\* Every thread is scheduled; nobody has to send a request or a packet.
FairSpec ==
  /\ Spec
  /\ \A h \in Handler : WF_vars(HandlerStep(h))
  /\ \A t \in Thread : WF_vars(Removes(t))
  /\ \A t \in {Capture} \cup Port : WF_vars(Receives(t))
  /\ \A i \in Port : WF_vars(SocketIsClosed(i))
  /\ WF_vars(FrameIsDelivered) /\ WF_vars(CaptureLoops)

-----------------------------------------------------------------------------
(* Properties.                                                             *)

\* Every variable has its type; a handler sends only while its port is mapped and
\* removes it only while it handles the unmap request, and a receiving thread calls the
\* adapter only in its callback.
TypeOK ==
  /\ MuxTypeOK /\ MgrTypeOK
  /\ hPc \in [Handler -> {"new", "unmapped", "create", "addComp", "addPort", "mapped",
                          "unmapping", "dead"}]
  /\ hId \in [Handler -> 0..lastId] /\ dbTsi \in [Handler -> 0..lastId]
  /\ lost \subseteq Handler /\ announced \subseteq Handler /\ registered \subseteq Handler
  /\ tsiOf \in [Port -> Handler \cup {NoThread}]
  /\ owner \in [Port -> Handler \cup {NoThread}]
  /\ ut \in [Port -> {"none", "wait", "callback", "ended"}] /\ running \in [Port -> BOOLEAN]
  /\ arg \in [Thread -> Key]
  /\ \A h \in Handler :
       /\ task[h] \in Sending => hPc[h] = "mapped" /\ tPort[h] \in Port
       /\ task[h] \notin Sending \cup {"none"} => hPc[h] = "unmapping"
  /\ \A i \in Port : task[i] # "none" <=> ut[i] = "callback"
  /\ task[Capture] # "none" <=> capture = "callback"

\* As long as no connection was cut and the adapter was not reset, a port whose map
\* request was answered can receive: the adapter finds it under its names and
\* observes it, and the mapper finds its handler; requests for the other ports of the
\* component do not disturb it (TitanPortHandler.handleMap, ComponentMgr).
MappedIsRegistered ==
  (cuts = 0 /\ resetter = NoThread) =>
    \A h \in Handler : hPc[h] = "mapped" =>
      /\ tsiOf[hId[h]] = h
      /\ Known(KeyOf[h]) /\ portAt[KeyOf[h]] = hId[h]
      /\ hId[h] \in observed

\* Under the same conditions no port object goes on receiving after it was unmapped:
\* its UDP thread has ended, or its layers left the multiplexer (removePort, dispose).
NoLeak ==
  (cuts = 0 /\ resetter = NoThread) =>
    \A i \in Port : ut[i] \in {"wait", "callback"} \/ i \in clients =>
      hId[owner[i]] = i /\ hPc[owner[i]] \in {"addComp", "addPort", "mapped", "unmapping"}

\* A datagram of the upper tester resets the adapter only when a connection was cut:
\* the unmap request forgets the port id after the UDP thread has ended, so that no
\* answer in flight finds its port without a handler (handleUnmap, dispose).
LateAnswerNeverResets == resetter \in Port => cuts > 0

\* Under the same conditions a packet leaves through an open handle, and its port is
\* registered until it has left, although sendPacket does not take the monitor and the
\* other connections register and unregister their ports meanwhile; a port that could
\* not be registered sends nothing (sendPacket).
SendIsSafe ==
  (cuts = 0 /\ resetter = NoThread) =>
    \A h \in Handler : task[h] \in {"compose", "transmit"} => open /\ tPort[h] \in clients

\* A thread waits for the monitor of the multiplexer, or in dispose for the end of a
\* receiving thread.
NeedsMonitor(s) ==
  \/ s \in Handler /\ hPc[s] = "create" /\ ~IsUt(hId[s])
  \/ task[s] = "dispose" /\ portAt[arg[s]] # 0 /\ ~IsUt(portAt[arg[s]])

Waits(s) == task[s] = "join" \/ NeedsMonitor(s)
Joined(s) == IF IsUt(tPort[s]) THEN tPort[s] ELSE Capture

\* A receiving thread was told to end, and does not wait itself.
Ends(t) ==
  /\ ~Waits(t)
  /\ IF t = Capture THEN Capturing => breakReq ELSE ut[t] # "none" /\ ~running[t]

\* As long as the adapter is not reset no threads wait for each other, also when
\* connections are cut: a thread that is waited for was told to end and waits for nobody,
\* and who needs the monitor of the multiplexer finds it free or held by a thread that
\* waits for the capture thread (dispose, PcapMultiplexer.register, unregister).
NoCircularWait ==
  resetter = NoThread =>
    \A s \in Thread :
      /\ task[s] = "join" => s \in Handler /\ Ends(Joined(s))
      /\ NeedsMonitor(s) /\ monitor # NoThread =>
           task[monitor] = "join" /\ Joined(monitor) = Capture

\* As long as the adapter is not reset every map and unmap request comes to an end:
\* the waits of dispose for the receiving threads, the second one inside the monitor
\* of the multiplexer, never wait for each other.
RequestsEnd ==
  \A h \in Handler :
    hPc[h] \in Busy
      ~> (hPc[h] \in Idle \cup {"dead"} \/ resetter # NoThread)

\* TitanItsTriMapper.sendNorthboundMessage: "If there's no handler registered at all
\* reset TA": the adapter is only reset when no connection has a port mapped.
ResetOnlyWhenNoHandler ==
  [][resetter = NoThread /\ resetter' # NoThread => \A i \in Port : tsiOf[i] = NoThread]_vars

\* TestAdapter.triSAReset: "This method will force port unmapping": a reset that was
\* begun comes to its end.
ResetCompletes == \A t \in Thread : task[t] = "reset" ~> task[t] = "none"
=============================================================================
