-------------------------- MODULE TriAdapterProof ---------------------------
(***************************************************************************)
(* Three proofs about every interleaving of connections, frames, datagrams  *)
(* and resets, for every set of them.                                       *)
(*                                                                         *)
(* The shared pcap handle is safe; this is inductive by itself.             *)
(*                                                                         *)
(* Every variable keeps its type, a handler sends and removes ports only in *)
(* the states that allow it, and a receiving thread has a call exactly      *)
(* while it is in its callback.  The types alone are not inductive: a port  *)
(* object must be new when its thread is started (Fresh), and that the      *)
(* capture thread is not started again inside its own callback follows from *)
(* the safety of the handle.                                                *)
(*                                                                         *)
(* Until the adapter is reset nobody waits in a circle.  Who waits for a    *)
(* thread has told it to end, and who keeps the monitor waits for the       *)
(* capture thread (JoinInv); receiving threads remove no ports until then.  *)
(***************************************************************************)
EXTENDS TriAdapter, TLAPS

-----------------------------------------------------------------------------
(* The pcap handle.                                                         *)

USE DEF Capturing

\* Initially nothing is captured and no handle is in use.
LEMMA InitIsSafe == Init => HandleIsSafe
  BY DEF Init, MuxInit, HandleIsSafe

\* register opens the handle before it starts the capture thread, and only when the
\* last one has ended.
LEMMA RegisterIsSafe ==
  ASSUME NEW i, HandleIsSafe, Register(i)
  PROVE  HandleIsSafe'
  BY DEF HandleIsSafe, Register, muxVars

\* unregister keeps the monitor when it removes the last client.
LEMMA UnregisterIsSafe ==
  ASSUME NEW t \in Thread, NEW i, HandleIsSafe, Unregister(t, i)
  PROVE  HandleIsSafe'
<1>1. t # NoThread
  BY ThreadAssumption DEF Thread
<1>2. (Capturing => open)'
  BY DEF HandleIsSafe, Unregister
<1>3. ASSUME clients' = {}, monitor' = NoThread
      PROVE  ~Capturing'
  <2>1. clients # {i}
    BY <1>1, <1>3 DEF Unregister
  <2>2. clients = {}
    BY <2>1, <1>3 DEF Unregister
  <2> QED
    BY <2>2 DEF HandleIsSafe, Unregister
<1> QED
  BY <1>2, <1>3 DEF HandleIsSafe

\* The handle is closed when the capture thread has ended.
LEMMA JoinIsSafe ==
  ASSUME NEW t, HandleIsSafe, CaptureJoined(t)
  PROVE  HandleIsSafe'
  BY DEF HandleIsSafe, CaptureJoined

\* The capture thread's own steps: it never begins to capture again on its own.
CaptureStep ==
  \/ Dispatch \/ CallbackReturns \/ CallbackThrows \/ DispatchEnds \/ DispatchFails \/ LoopEnds

LEMMA CaptureStepIsSafe ==
  ASSUME HandleIsSafe, CaptureStep
  PROVE  HandleIsSafe'
<1>1. UNCHANGED <<clients, monitor, open>>
  BY DEF CaptureStep, Dispatch, CallbackReturns, CallbackThrows,
         DispatchEnds, DispatchFails, LoopEnds
<1>2. Capturing
  BY DEF CaptureStep, Dispatch, CallbackReturns, CallbackThrows,
         DispatchEnds, DispatchFails, LoopEnds
<1> QED
  BY <1>1, <1>2 DEF HandleIsSafe

LEMMA StutterIsSafe ==
  ASSUME HandleIsSafe, UNCHANGED muxVars
  PROVE  HandleIsSafe'
  BY DEF HandleIsSafe, muxVars

-----------------------------------------------------------------------------
\* The steps of a thread that removes a port.
LEMMA RemovesIsSafe ==
  ASSUME NEW t \in Thread, HandleIsSafe, Removes(t)
  PROVE  HandleIsSafe'
<1>1. CASE RemoveChecks(t)
  BY <1>1, StutterIsSafe DEF RemoveChecks
<1>2. CASE RemoveFails(t)
  BY <1>2, StutterIsSafe, CaptureStepIsSafe DEF RemoveFails, Dies, CaptureStep
<1>3. CASE RemoveDisposes(t)
  BY <1>3, StutterIsSafe, UnregisterIsSafe DEF RemoveDisposes, Dispose
<1>4. CASE RemoveJoins(t)
  BY <1>4, StutterIsSafe, JoinIsSafe DEF RemoveJoins
<1>5. CASE RemoveDrops(t)
  BY <1>5, StutterIsSafe DEF RemoveDrops
<1> QED
  BY <1>1, <1>2, <1>3, <1>4, <1>5 DEF Removes

\* The steps of a receiving thread in its callback.
LEMMA ReceivesIsSafe ==
  ASSUME NEW t \in {Capture} \cup Port, HandleIsSafe, Receives(t)
  PROVE  HandleIsSafe'
<1>0. ASSUME CallbackEnds(t)
      PROVE  HandleIsSafe'
  BY <1>0, StutterIsSafe, CaptureStepIsSafe DEF CallbackEnds, CaptureStep
<1>1. CASE Notify(t) \/ Update(t)
  BY <1>0, <1>1, StutterIsSafe DEF Notify, Update
<1>2. CASE Enqueue(t)
  BY <1>0, <1>2, StutterIsSafe DEF Enqueue
<1>3. CASE ResetComponent(t)
  BY <1>3, StutterIsSafe, CaptureStepIsSafe DEF ResetComponent, Dies, CaptureStep
<1>4. CASE ResetPort(t)
  BY <1>4, StutterIsSafe DEF ResetPort
<1>5. CASE ResetEnds(t)
  BY <1>0, <1>5 DEF ResetEnds
<1> QED
  BY <1>1, <1>2, <1>3, <1>4, <1>5 DEF Receives

\* The steps of a connection and its handler.
LEMMA HandlerIsSafe ==
  ASSUME NEW h \in Handler, HandleIsSafe,
         \/ Connect(h) \/ Announce(h) \/ Lose(h) \/ EndConnection(h) \/ StreamEnds(h)
         \/ Reap(h) \/ Map(h) \/ HandlerStep(h) \/ Unmap(h) \/ Send(h)
  PROVE  HandleIsSafe'
<1>1. CASE CreatePort(h)
  BY <1>1, StutterIsSafe, RegisterIsSafe DEF CreatePort
<1>2. CASE ~CreatePort(h)
  <2>1. UNCHANGED muxVars
    <3>1. h # Capture
      BY ThreadAssumption
    <3> QED
      BY <1>2, <3>1 DEF Connect, Announce, Lose, EndConnection, StreamEnds, Reap, Map, Unmap, Send,
                        HandlerStep, MapAddsComponent, MapAddsPort, Unmapped, SendChecks,
                        SendComposes, SendEnds, Proceed, Dies
  <2> QED
    BY <2>1, StutterIsSafe
<1> QED
  BY <1>1, <1>2

\* The pcap handle is open while the capture thread runs, and the interface is idle
\* when nobody uses it (PcapMultiplexer.register, unregister), whatever the
\* connections, the callbacks and the resets do.
THEOREM HandleSafe == Spec => []HandleIsSafe
<1>1. ASSUME HandleIsSafe, [Next]_vars
      PROVE  HandleIsSafe'
  <2>1. CASE UNCHANGED vars
    BY <1>1, <2>1, StutterIsSafe DEF vars
  <2>2. CASE \E h \in Handler :
               \/ Connect(h) \/ Announce(h) \/ Lose(h) \/ EndConnection(h) \/ StreamEnds(h)
               \/ Reap(h) \/ Map(h) \/ HandlerStep(h) \/ Unmap(h) \/ Send(h)
    BY <1>1, <2>2, HandlerIsSafe
  <2>3. CASE \E t \in Thread : Removes(t)
    BY <1>1, <2>3, RemovesIsSafe
  <2>4. CASE \E t \in {Capture} \cup Port : Receives(t)
    BY <1>1, <2>4, ReceivesIsSafe
  <2>5. CASE \E i \in Port : DatagramArrives(i) \/ SocketIsClosed(i)
    BY <1>1, <2>5, StutterIsSafe DEF DatagramArrives, SocketIsClosed
  <2>6. CASE FrameArrives
    BY <1>1, <2>6, CaptureStepIsSafe DEF FrameArrives, CaptureStep
  <2>7. CASE FrameIsDelivered
    <3>1. PICK i \in pending : Deliver(i)
      BY <2>7 DEF FrameIsDelivered
    <3>2. UNCHANGED <<clients, monitor, open>> /\ Capturing
      BY <3>1 DEF Deliver
    <3> QED
      BY <1>1, <3>2 DEF HandleIsSafe
  <2>8. CASE CaptureLoops
    BY <1>1, <2>8, CaptureStepIsSafe DEF CaptureLoops, CaptureStep
  <2> QED
    BY <1>1, <2>1, <2>2, <2>3, <2>4, <2>5, <2>6, <2>7, <2>8 DEF Next
<1> QED
  BY InitIsSafe, <1>1, PTL DEF Spec

-----------------------------------------------------------------------------
(* The types.                                                               *)

HIDE DEF Capturing

HandlerState ==
  {"new", "unmapped", "create", "addComp", "addPort", "mapped", "unmapping", "dead"}

ConnTypes ==
  /\ lastId \in Nat /\ 1..lastId \subseteq Port
  /\ hPc \in [Handler -> HandlerState]
  /\ hId \in [Handler -> 0..lastId] /\ dbTsi \in [Handler -> 0..lastId]
  /\ lost \subseteq Handler /\ announced \subseteq Handler /\ registered \subseteq Handler
  /\ tsiOf \in [Port -> Handler \cup {NoThread}]
  /\ owner \in [Port -> Handler \cup {NoThread}]

MgrTypes == MgrTypeOK /\ portAt \in [Key -> Port \cup {0}]

UtTypes ==
  /\ ut \in [Port -> {"none", "wait", "callback", "ended"}]
  /\ running \in [Port -> BOOLEAN]

ArgTypes == arg \in [Thread -> Key] /\ names \in [Thread -> SUBSET PortName]

\* task and tPort are functions; their values are in Calls.
Functions == task = [t \in Thread |-> task[t]] /\ tPort = [t \in Thread |-> tPort[t]]

Calls ==
  /\ \A h \in Handler :
       /\ task[h] \in Sending => hPc[h] = "mapped" /\ tPort[h] \in Port
       /\ task[h] \notin Sending \cup {"none"} => hPc[h] = "unmapping"
  /\ \A i \in Port : task[i] # "none" <=> ut[i] = "callback"
  /\ task[Capture] # "none" <=> capture = "callback"

\* The thread of a port object is started once, by the handler that made it.
Fresh ==
  /\ \A h \in Handler :
       hPc[h] = "create" => hId[h] \in Port /\ owner[hId[h]] = h /\ ut[hId[h]] = "none"
  /\ \A i \in Port : i > lastId => ut[i] = "none"

TInv ==
  /\ MuxTypeOK /\ HandleIsSafe /\ ConnTypes /\ MgrTypes /\ UtTypes /\ ArgTypes
  /\ Functions /\ Calls /\ Fresh

-----------------------------------------------------------------------------
(* Constants, and the start.                                                *)

\* Port objects are numbered from 1; 0 is no port.
LEMMA PortNumbers == Port \subseteq Nat \ {0}
<1>1. Port = 1..Cardinality(Port)
  BY PortAssumption
<1> DEFINE n == Cardinality(Port)
<1> HIDE DEF n
<1>2. \A i \in 1..n : i \in Nat \ {0}
  BY SMT
<1> QED BY <1>1, <1>2 DEF n

\* The handlers, the capture thread and the threads of the ports are all different.
LEMMA Threads ==
  /\ Thread = Handler \cup {Capture} \cup Port
  /\ Handler \cap Port = {} /\ Capture \notin Handler \cup Port
BY ThreadAssumption DEF Thread

\* Nothing runs at the start.
LEMMA TypesInit == Init => TInv
<1> SUFFICES ASSUME Init PROVE TInv
  OBVIOUS
<1>1. MuxTypeOK /\ HandleIsSafe
  BY InitIsSafe DEF Init, MuxInit, MuxTypeOK, CaptureState
<1>2. ConnTypes
  <2>1. lastId = 0 /\ 1..0 \subseteq Port
    BY DEF Init
  <2> QED BY <2>1 DEF Init, ConnTypes, HandlerState
<1>3. MgrTypes
  BY DEF Init, MgrInit, MgrTypes, MgrTypeOK
<1>4. UtTypes /\ Functions
  BY DEF Init, UtTypes, Functions
<1>5. ArgTypes
  <2>1. \A t \in Handler : KeyOf[t] \in Key
    BY KeyAssumption
  <2>2. (CHOOSE k \in Key : TRUE) \in Key
    BY KeyAssumption
  <2> QED BY <2>1, <2>2 DEF Init, ArgTypes
<1>6. \A t \in Thread : task[t] = "none"
  BY DEF Init
<1>7. Calls
  BY <1>6, Threads DEF Init, MuxInit, Calls, Sending
<1>8. Fresh
  BY DEF Init, Fresh
<1> QED BY <1>1, <1>2, <1>3, <1>4, <1>5, <1>7, <1>8 DEF TInv

-----------------------------------------------------------------------------
(* The calls of the threads.                                                *)

\* A step of one thread, which may end its call, begin another or go on with it.
LEMMA CallActs ==
  ASSUME Functions, Calls, NEW t \in Thread, NEW x, NEW y,
         task' = [task EXCEPT ![t] = x], tPort' = [tPort EXCEPT ![t] = y],
         \A g \in Handler \ {t} : hPc'[g] = hPc[g],
         t \in Handler => \/ x = "none"
                          \/ x \in Sending /\ hPc'[t] = "mapped" /\ y \in Port
                          \/ x \notin Sending /\ hPc'[t] = "unmapping",
         \A i \in Port \ {t} : ut'[i] = "callback" <=> ut[i] = "callback",
         t \in Port => (x # "none" <=> ut'[t] = "callback"),
         t # Capture => (capture' = "callback" <=> capture = "callback"),
         t = Capture => (x # "none" <=> capture' = "callback")
  PROVE  Functions' /\ Calls'
<1>1. Functions' /\ task'[t] = x /\ tPort'[t] = y
  BY DEF Functions
<1>2. \A s \in Thread \ {t} : task'[s] = task[s] /\ tPort'[s] = tPort[s]
  BY DEF Functions
<1>3. "none" \notin Sending
  BY DEF Sending
<1>4. ASSUME NEW h \in Handler
      PROVE  /\ task'[h] \in Sending => hPc'[h] = "mapped" /\ tPort'[h] \in Port
             /\ task'[h] \notin Sending \cup {"none"} => hPc'[h] = "unmapping"
  <2>1. CASE h = t
    BY <1>1, <1>3, <2>1
  <2>2. CASE h # t
    BY <1>2, <2>2, Threads DEF Calls
  <2> QED BY <2>1, <2>2
<1>5. ASSUME NEW i \in Port PROVE task'[i] # "none" <=> ut'[i] = "callback"
  <2>1. CASE i = t
    BY <1>1, <2>1
  <2>2. CASE i # t
    BY <1>2, <2>2, Threads DEF Calls
  <2> QED BY <2>1, <2>2
<1>6. task'[Capture] # "none" <=> capture' = "callback"
  <2>1. CASE Capture = t
    BY <1>1, <2>1
  <2>2. CASE Capture # t
    BY <1>2, <2>2, Threads DEF Calls
  <2> QED BY <2>1, <2>2
<1> QED BY <1>1, <1>4, <1>5, <1>6 DEF Calls

\* A step that leaves all calls as they are.
LEMMA NoCallActs ==
  ASSUME Functions, Calls, task' = task, tPort' = tPort,
         \A h \in Handler : task[h] = "none" \/ hPc'[h] = hPc[h],
         \A i \in Port : ut'[i] = "callback" <=> ut[i] = "callback",
         capture' = "callback" <=> capture = "callback"
  PROVE  Functions' /\ Calls'
<1>1. "none" \notin Sending
  BY DEF Sending
<1> QED BY <1>1 DEF Functions, Calls

\* A handler that has a call is in the state that allows it.
LEMMA Callers ==
  ASSUME Calls, NEW h \in Handler
  PROVE  /\ hPc[h] \notin {"mapped", "unmapping"} => task[h] = "none"
         /\ hPc[h] = "mapped" /\ task[h] # "none" => task[h] \in Sending /\ tPort[h] \in Port
BY DEF Calls

-----------------------------------------------------------------------------
(* The multiplexer and the tables of the adapter.                           *)

MuxStep ==
  \/ \E i \in Port : Register(i) \/ Deliver(i)
  \/ \E t \in Thread, i \in Port \cup {0} : Unregister(t, i)
  \/ \E t \in Thread : CaptureJoined(t)
  \/ CaptureStep
  \/ UNCHANGED muxVars

\* The operations of the multiplexer keep its types.
LEMMA MuxActs == ASSUME MuxTypeOK, MuxStep PROVE MuxTypeOK'
<1> USE DEF MuxTypeOK, CaptureState
<1>1. ASSUME NEW i \in Port, Register(i) PROVE MuxTypeOK'
  BY <1>1 DEF Register, muxVars
<1>2. ASSUME NEW i \in Port, Deliver(i) PROVE MuxTypeOK'
  BY <1>2 DEF Deliver
<1>3. ASSUME NEW t, NEW i, Unregister(t, i) PROVE MuxTypeOK'
  BY <1>3 DEF Unregister
<1>4. ASSUME NEW t, CaptureJoined(t) PROVE MuxTypeOK'
  BY <1>4 DEF CaptureJoined
<1>5. CASE Dispatch
  BY <1>5 DEF Dispatch
<1>6. CASE CallbackReturns \/ CallbackThrows \/ DispatchEnds \/ DispatchFails \/ LoopEnds
  BY <1>6 DEF CallbackReturns, CallbackThrows, DispatchEnds, DispatchFails, LoopEnds
<1>7. CASE UNCHANGED muxVars
  BY <1>7 DEF muxVars
<1> QED BY <1>1, <1>2, <1>3, <1>4, <1>5, <1>6, <1>7 DEF MuxStep, CaptureStep

\* The operations of ComponentMgr keep the types of its tables.
LEMMA MgrActs ==
  ASSUME MgrTypes,
         \/ \E c \in Component : AddComponent(c)
         \/ \E k \in Key, i \in Port \cup {0} : AddPort(k, i)
         \/ \E i : StopObserving(i)
         \/ \E k : DropPort(k)
         \/ ClearComponents
         \/ UNCHANGED mgrVars
  PROVE  MgrTypes'
<1> USE DEF MgrTypes, MgrTypeOK
<1>0. Port \cup {0} \subseteq Nat
  BY PortNumbers
<1>1. ASSUME NEW c \in Component, AddComponent(c) PROVE MgrTypes'
  BY <1>1 DEF AddComponent
<1>2. ASSUME NEW k \in Key, NEW i \in Port \cup {0}, AddPort(k, i) PROVE MgrTypes'
  <2>1. k.comp \in Component
    BY DEF Key
  <2>2. portAt' \in [Key -> Port \cup {0}] /\ observed' \subseteq Nat
    <3>1. CASE portAt' = [portAt EXCEPT ![k] = i] /\ observed' = observed \cup {i}
      <4>1. portAt' \in [Key -> Port \cup {0}]
        BY <3>1
      <4>2. observed' \subseteq Nat
        BY <1>0, <3>1
      <4> QED BY <4>1, <4>2
    <3>2. CASE UNCHANGED <<portAt, observed>>
      BY <3>2
    <3> QED BY <1>2, <3>1, <3>2 DEF AddPort
  <2>3. comps' \subseteq Component /\ lists' \subseteq Component
    BY <1>2, <2>1 DEF AddPort
  <2>4. portAt' \in [Key -> Nat]
    BY <1>0, <2>2
  <2> QED BY <2>2, <2>3, <2>4
<1>3. ASSUME NEW i, StopObserving(i) PROVE MgrTypes'
  BY <1>3 DEF StopObserving
<1>4. ASSUME NEW k, DropPort(k) PROVE MgrTypes'
  <2>1. portAt' = [portAt EXCEPT ![k] = 0] /\ observed' = observed
    BY <1>4 DEF DropPort
  <2>2. comps' \subseteq comps /\ lists' \subseteq lists
    BY <1>4 DEF DropPort
  <2>3. portAt' \in [Key -> Port \cup {0}]
    BY <2>1
  <2>4. portAt' \in [Key -> Nat]
    BY <1>0, <2>3
  <2> QED BY <2>1, <2>2, <2>3, <2>4
<1>5. CASE ClearComponents \/ UNCHANGED mgrVars
  BY <1>5 DEF ClearComponents, mgrVars
<1> QED BY <1>1, <1>2, <1>3, <1>4, <1>5

-----------------------------------------------------------------------------
(* The connections and the tables of the mapper.                            *)

\* Where a handler goes, and what the mapper forgets, keeps the types.
LEMMA ConnActs ==
  ASSUME ConnTypes, UNCHANGED <<hId, owner, lastId>>,
         hPc' = hPc \/ \E h \in Handler, p \in HandlerState : hPc' = [hPc EXCEPT ![h] = p],
         lost' \subseteq Handler, announced' \subseteq Handler, registered' \subseteq Handler,
         dbTsi' = dbTsi \/ \E h \in Handler : dbTsi' = [dbTsi EXCEPT ![h] = 0],
         tsiOf' = tsiOf \/ \E i : tsiOf' = [tsiOf EXCEPT ![i] = NoThread]
  PROVE  ConnTypes'
<1>1. /\ hPc \in [Handler -> HandlerState] /\ lastId \in Nat
      /\ dbTsi \in [Handler -> 0..lastId] /\ tsiOf \in [Port -> Handler \cup {NoThread}]
  BY DEF ConnTypes
<1>2. hPc' \in [Handler -> HandlerState]
  BY <1>1
<1>3. 0 \in 0..lastId
  BY <1>1
<1>4. dbTsi' \in [Handler -> 0..lastId]
  BY <1>1, <1>3
<1>5. tsiOf' \in [Port -> Handler \cup {NoThread}]
  BY <1>1
<1> QED BY <1>2, <1>4, <1>5 DEF ConnTypes

\* A map request takes the next port id.
LEMMA MapTypes == ASSUME ConnTypes, NEW h \in Handler, Map(h) PROVE ConnTypes'
<1> DEFINE i == lastId + 1
<1>1. /\ i \in Port /\ hPc' = [hPc EXCEPT ![h] = "create"] /\ hId' = [hId EXCEPT ![h] = i]
      /\ lastId' = i /\ owner' = [owner EXCEPT ![i] = h]
      /\ registered' = registered \cup {h} /\ dbTsi' = [dbTsi EXCEPT ![h] = i]
      /\ tsiOf' = [tsiOf EXCEPT ![i] = h] /\ lost' = lost /\ announced' = announced
  BY DEF Map
<1>2. lastId \in Nat /\ 1..lastId \subseteq Port
  BY DEF ConnTypes
<1>3. i \in Nat /\ i \in 0..i /\ 0..lastId \subseteq 0..i /\ 1..i \subseteq 1..lastId \cup {i}
  BY <1>2
<1> HIDE DEF i
<1>4. lastId' \in Nat /\ 1..lastId' \subseteq Port
  BY <1>1, <1>2, <1>3
<1>5. hId \in [Handler -> 0..i] /\ dbTsi \in [Handler -> 0..i]
  BY <1>3 DEF ConnTypes
<1>6. hId' \in [Handler -> 0..lastId'] /\ dbTsi' \in [Handler -> 0..lastId']
  BY <1>1, <1>3, <1>5
<1>7. hPc' \in [Handler -> HandlerState]
  BY <1>1 DEF ConnTypes, HandlerState
<1>8. /\ tsiOf' \in [Port -> Handler \cup {NoThread}]
      /\ owner' \in [Port -> Handler \cup {NoThread}]
      /\ lost' \subseteq Handler /\ announced' \subseteq Handler /\ registered' \subseteq Handler
  BY <1>1 DEF ConnTypes
<1> QED BY <1>4, <1>6, <1>7, <1>8 DEF ConnTypes

HStep(h) ==
  \/ Connect(h) \/ Announce(h) \/ Lose(h) \/ EndConnection(h) \/ StreamEnds(h) \/ Reap(h)
  \/ Map(h) \/ HandlerStep(h) \/ Unmap(h) \/ Send(h)

\* Every step of a connection keeps the types of the connections.
LEMMA HandlerConnTypes == ASSUME ConnTypes, NEW h \in Handler, HStep(h) PROVE ConnTypes'
<1>0. lost \subseteq Handler /\ announced \subseteq Handler /\ registered \subseteq Handler
  BY DEF ConnTypes
<1>1. CASE Map(h)
  BY <1>1, MapTypes
<1>2. CASE Forget(h) /\ UNCHANGED <<hId, owner, lastId, lost, announced>>
           /\ (hPc' = hPc \/ hPc' = [hPc EXCEPT ![h] = "dead"])
  <2>1. registered' \subseteq Handler /\ dbTsi' = dbTsi
    BY <1>0, <1>2 DEF Forget
  <2>2. tsiOf' = tsiOf \/ \E i : tsiOf' = [tsiOf EXCEPT ![i] = NoThread]
    BY <1>2 DEF Forget
  <2>3. "dead" \in HandlerState
    BY DEF HandlerState
  <2> QED BY <1>0, <1>2, <2>1, <2>2, <2>3, ConnActs
<1>3. CASE EndConnection(h) \/ Reap(h)
  <2>1. Forget(h) /\ UNCHANGED <<hId, owner, lastId, lost, announced>>
        /\ (hPc' = hPc \/ hPc' = [hPc EXCEPT ![h] = "dead"])
    BY <1>3 DEF EndConnection, Reap, handlers, ports
  <2> QED BY <1>2, <2>1
<1>4. CASE Unmapped(h)
  <2>1. hPc' = [hPc EXCEPT ![h] = "unmapped"] /\ ForgetTsi(h)
        /\ UNCHANGED <<hId, owner, lastId, lost, announced>>
    BY <1>4 DEF Unmapped, ports
  <2>2. /\ tsiOf' = [tsiOf EXCEPT ![hId[h]] = NoThread] /\ registered' \subseteq Handler
        /\ dbTsi' = dbTsi \/ dbTsi' = [dbTsi EXCEPT ![h] = 0]
    BY <1>0, <2>1 DEF ForgetTsi
  <2>3. "unmapped" \in HandlerState
    BY DEF HandlerState
  <2> QED BY <1>0, <2>1, <2>2, <2>3, ConnActs
<1>5. CASE Announce(h)
  <2>1. /\ announced' = announced \cup {h} /\ registered' = registered \cup {h}
        /\ dbTsi' = [dbTsi EXCEPT ![h] = 0]
        /\ UNCHANGED <<hId, owner, lastId, lost, hPc, tsiOf>>
    BY <1>5 DEF Announce, ports
  <2>2. announced' \subseteq Handler /\ registered' \subseteq Handler
    BY <1>0, <2>1
  <2> QED BY <1>0, <2>1, <2>2, ConnActs
<1>6. CASE Lose(h)
  <2>1. lost' = lost \cup {h} /\ UNCHANGED <<hId, owner, lastId, hPc, announced, mapper>>
    BY <1>6 DEF Lose, ports
  <2>2. lost' \subseteq Handler /\ UNCHANGED <<registered, dbTsi, tsiOf>>
    BY <1>0, <2>1 DEF mapper
  <2> QED BY <1>0, <2>1, <2>2, ConnActs
<1>7. CASE ~(EndConnection(h) \/ Reap(h) \/ Map(h) \/ Unmapped(h) \/ Announce(h) \/ Lose(h))
  <2>1. UNCHANGED <<hId, owner, lastId, lost, announced, registered, dbTsi, tsiOf>>
    BY <1>7 DEF HStep, HandlerStep, Connect, StreamEnds, CreatePort, MapAddsComponent, MapAddsPort,
                SendChecks, SendComposes, SendEnds, Proceed, Dies, Unmap, Send, handlers, mapper,
                ports
  <2>2. hPc' = hPc \/ \E p \in {"unmapped", "dead", "addComp", "addPort", "mapped", "unmapping"} :
                        hPc' = [hPc EXCEPT ![h] = p]
    BY <1>7 DEF HStep, HandlerStep, Connect, StreamEnds, CreatePort, MapAddsComponent, MapAddsPort,
                SendChecks, SendComposes, SendEnds, Proceed, Dies, Unmap, Send, handlers
  <2>3. \E p \in HandlerState : hPc' = hPc \/ hPc' = [hPc EXCEPT ![h] = p]
    BY <2>2 DEF HandlerState
  <2> QED BY <1>0, <2>1, <2>3, ConnActs
<1> QED BY <1>1, <1>3, <1>4, <1>5, <1>6, <1>7

-----------------------------------------------------------------------------
(* The receiving threads, and what their calls work on.                     *)

\* Steps that start no thread of a port leave what is not yet started alone.
LEMMA FreshActs ==
  ASSUME Fresh, UNCHANGED <<hId, owner, lastId>>,
         \A h \in Handler : hPc'[h] = "create" => hPc[h] = "create",
         \A i \in Port : ut[i] = "none" => ut'[i] = "none"
  PROVE  Fresh'
BY DEF Fresh

\* Only a map request goes to createPort.
LEMMA NoCreate ==
  ASSUME ConnTypes,
         \/ hPc' = hPc
         \/ \E h \in Handler : \E p : p # "create" /\ hPc' = [hPc EXCEPT ![h] = p]
  PROVE  \A h \in Handler : hPc'[h] = "create" => hPc[h] = "create"
BY DEF ConnTypes

\* A port object is new when its port id is.
LEMMA MapFresh == ASSUME ConnTypes, Fresh, NEW h \in Handler, Map(h) PROVE Fresh'
<1> DEFINE i == lastId + 1
<1>1. /\ i \in Port /\ hPc' = [hPc EXCEPT ![h] = "create"] /\ hId' = [hId EXCEPT ![h] = i]
      /\ lastId' = i /\ owner' = [owner EXCEPT ![i] = h] /\ ut' = ut
  BY DEF Map, uts
<1>2. lastId \in Nat /\ Port \subseteq Nat
  BY PortNumbers DEF ConnTypes
<1>3. i > lastId /\ (\A j \in Port : j > i => j > lastId) /\ \A j \in 0..lastId : j # i
  BY <1>2
<1> HIDE DEF i
<1>4. hId'[h] = i /\ owner'[i] = h /\ ut'[i] = "none"
  BY <1>1, <1>3 DEF ConnTypes, Fresh
<1>5. ASSUME NEW g \in Handler \ {h}, hPc'[g] = "create"
      PROVE  hId'[g] \in Port /\ owner'[hId'[g]] = g /\ ut'[hId'[g]] = "none"
  <2>1. hPc[g] = "create" /\ hId'[g] = hId[g] /\ hId[g] \in 0..lastId
    BY <1>1, <1>5 DEF ConnTypes
  <2>2. hId[g] \in Port /\ owner[hId[g]] = g /\ ut[hId[g]] = "none" /\ hId[g] # i
    BY <1>3, <2>1 DEF Fresh
  <2> QED BY <1>1, <2>1, <2>2 DEF ConnTypes
<1>6. \A j \in Port : j > lastId' => ut'[j] = "none"
  BY <1>1, <1>3 DEF Fresh
<1> QED BY <1>1, <1>4, <1>5, <1>6 DEF Fresh

\* ... and its thread is started once.
LEMMA CreateFresh ==
  ASSUME ConnTypes, UtTypes, Fresh, NEW h \in Handler, CreatePort(h)
  PROVE  /\ Fresh' /\ UtTypes' /\ hId[h] \in Port
         /\ \A i \in Port : ut'[i] = "callback" <=> ut[i] = "callback"
<1> DEFINE i == hId[h]
<1>1. /\ hPc[h] = "create" /\ hPc' = [hPc EXCEPT ![h] = "addComp"]
      /\ UNCHANGED <<hId, owner, lastId>>
      /\ \/ ut' = [ut EXCEPT ![i] = "wait"] /\ running' = [running EXCEPT ![i] = TRUE]
         \/ ut' = ut /\ running' = running
  BY DEF CreatePort, ports, uts
<1>2. i \in Port /\ owner[i] = h /\ ut[i] = "none"
  BY <1>1 DEF Fresh
<1>3. \A j \in Port : j > lastId => j # i
  <2>1. i \in 0..lastId /\ lastId \in Nat
    BY DEF ConnTypes
  <2> QED BY <2>1
<1> HIDE DEF i
<1>4. UtTypes'
  BY <1>1 DEF UtTypes
<1>5. \A j \in Port \ {i} : ut'[j] = ut[j]
  BY <1>1 DEF UtTypes
<1>6. ut'[i] # "callback"
  BY <1>1, <1>2 DEF UtTypes
<1>7. ASSUME NEW g \in Handler, hPc'[g] = "create"
      PROVE  hId'[g] \in Port /\ owner'[hId'[g]] = g /\ ut'[hId'[g]] = "none"
  <2>1. g # h /\ hPc[g] = "create"
    BY <1>1, <1>7 DEF ConnTypes
  <2>2. hId[g] \in Port /\ owner[hId[g]] = g /\ ut[hId[g]] = "none"
    BY <2>1 DEF Fresh
  <2>3. hId[g] # i
    BY <1>2, <2>1, <2>2
  <2> QED BY <1>1, <1>5, <2>2, <2>3
<1>8. \A j \in Port : j > lastId' => ut'[j] = "none"
  BY <1>1, <1>3, <1>5 DEF Fresh
<1>9. \A j \in Port : ut'[j] = "callback" <=> ut[j] = "callback"
  BY <1>2, <1>5, <1>6
<1> QED BY <1>2, <1>4, <1>7, <1>8, <1>9 DEF Fresh, i

\* A thread that throws ends.
LEMMA DiesTypes ==
  ASSUME TInv, NEW t \in Thread, Dies(t), task[t] # "none"
  PROVE  TInv'
<1>1. /\ task' = [task EXCEPT ![t] = "none"] /\ tPort' = [tPort EXCEPT ![t] = 0]
      /\ names' = [names EXCEPT ![t] = {}]
      /\ UNCHANGED <<mgrVars, hId, lost, announced, mapper, ports, running, arg>>
      /\ IF t = Capture THEN CallbackThrows ELSE UNCHANGED muxVars
      /\ ut' = IF t \in Port THEN [ut EXCEPT ![t] = "ended"] ELSE ut
      /\ hPc' = IF t \in Handler THEN [hPc EXCEPT ![t] = "dead"] ELSE hPc
  BY DEF Dies
<1>2. MuxStep
  BY <1>1 DEF MuxStep, CaptureStep
<1>3. MuxTypeOK'
  BY <1>2, MuxActs DEF TInv
<1>4. HandleIsSafe'
  BY <1>1, StutterIsSafe, CaptureStepIsSafe DEF TInv, CaptureStep
<1>5. ConnTypes'
  <2>1. hPc' = hPc \/ \E h \in Handler, p \in HandlerState : hPc' = [hPc EXCEPT ![h] = p]
    BY <1>1 DEF HandlerState
  <2>2. /\ UNCHANGED <<hId, owner, lastId, lost, announced, registered, dbTsi, tsiOf>>
        /\ lost \subseteq Handler /\ announced \subseteq Handler /\ registered \subseteq Handler
    BY <1>1 DEF mapper, ports, TInv, ConnTypes
  <2> QED BY <2>1, <2>2, ConnActs DEF TInv
<1>6. MgrTypes'
  BY <1>1, MgrActs DEF TInv
<1>7. UtTypes' /\ \A i \in Port : i # t => ut'[i] = ut[i]
  BY <1>1 DEF TInv, UtTypes
<1>8. ArgTypes'
  BY <1>1 DEF TInv, ArgTypes
<1>9. t \in Port => ut[t] = "callback" /\ ut'[t] = "ended"
  BY <1>1 DEF TInv, Calls, UtTypes
<1>10. t = Capture => capture = "callback" /\ capture' = "died"
  BY <1>1 DEF CallbackThrows
<1>11. t # Capture => capture' = capture
  BY <1>1 DEF muxVars
<1>12. \A g \in Handler \ {t} : hPc'[g] = hPc[g]
  BY <1>1 DEF TInv, ConnTypes
<1>13. Functions' /\ Calls'
  BY <1>1, <1>7, <1>9, <1>10, <1>11, <1>12, CallActs DEF TInv
<1>14. Fresh'
  <2>1. \A h \in Handler : hPc'[h] = "create" => hPc[h] = "create"
    BY <1>1, NoCreate DEF TInv
  <2>2. \A i \in Port : ut[i] = "none" => ut'[i] = "none"
    BY <1>7, <1>9
  <2> QED BY <1>1, <2>1, <2>2, FreshActs DEF TInv, ports
<1> QED BY <1>3, <1>4, <1>5, <1>6, <1>7, <1>8, <1>13, <1>14 DEF TInv

-----------------------------------------------------------------------------
(* The steps of a connection.                                               *)

\* The capture thread is not in a callback when the first client starts it.
LEMMA RegisterKeepsCalls ==
  ASSUME HandleIsSafe, NEW i, Register(i)
  PROVE  capture' = "callback" <=> capture = "callback"
BY DEF Register, HandleIsSafe, Capturing, muxVars

\* A handler that sends does so for a mapped port.
LEMMA SendTypes ==
  ASSUME TInv, NEW h \in Handler, NEW x \in {"none"} \cup Sending, NEW y,
         hPc[h] = "mapped", x # "none" => y \in Port,
         task' = [task EXCEPT ![h] = x], tPort' = [tPort EXCEPT ![h] = y],
         UNCHANGED <<muxVars, mgrVars, handlers, mapper, ports, uts, arg, names>>
  PROVE  TInv'
<1>1. MuxTypeOK' /\ HandleIsSafe'
  BY MuxActs, StutterIsSafe DEF TInv, MuxStep
<1>2. UNCHANGED <<hPc, hId, lost, announced, registered, dbTsi, tsiOf, owner, lastId, ut, running,
                  capture>>
  BY DEF handlers, mapper, ports, uts, muxVars
<1>3. ConnTypes' /\ UtTypes' /\ ArgTypes' /\ Fresh'
  BY <1>2 DEF TInv, ConnTypes, UtTypes, ArgTypes, Fresh
<1>4. MgrTypes'
  BY MgrActs DEF TInv
<1>5. h \in Thread /\ h # Capture /\ h \notin Port
  BY Threads
<1>6. Functions' /\ Calls'
  BY <1>2, <1>5, CallActs DEF TInv
<1> QED BY <1>1, <1>3, <1>4, <1>6 DEF TInv

\* Sending keeps the types; triSend finds a port object in the table.
LEMMA SendsTypes ==
  ASSUME TInv, NEW h \in Handler, Send(h) \/ SendChecks(h) \/ SendComposes(h) \/ SendEnds(h)
  PROVE  TInv'
<1> USE DEF Sending
<1>1. CASE Send(h)
  <2> DEFINE y == portAt[KeyOf[h]]
  <2>1. /\ hPc[h] = "mapped"
        /\ task' = [task EXCEPT ![h] = "check"] /\ tPort' = [tPort EXCEPT ![h] = y]
        /\ UNCHANGED <<muxVars, mgrVars, handlers, mapper, ports, uts, arg, names>>
        /\ y # 0
    BY <1>1 DEF Send, Known
  <2>2. y \in Port
    BY <2>1, KeyAssumption DEF TInv, MgrTypes
  <2> HIDE DEF y
  <2> QED BY <2>1, <2>2, SendTypes
<1>2. ASSUME NEW x \in {"none"} \cup Sending, Proceed(h, x), task[h] \in Sending PROVE TInv'
  <2>1. /\ task' = [task EXCEPT ![h] = x]
        /\ UNCHANGED <<muxVars, mgrVars, handlers, mapper, ports, uts, arg, names>>
        /\ tPort' = IF x = "none" THEN [tPort EXCEPT ![h] = 0] ELSE tPort
    BY <1>2 DEF Proceed
  <2>2. hPc[h] = "mapped" /\ tPort[h] \in Port
    BY <1>2 DEF TInv, Calls
  <2>3. CASE x = "none"
    BY <2>1, <2>2, <2>3, SendTypes
  <2>4. CASE x # "none"
    <3> DEFINE y == tPort[h]
    <3>1. tPort' = [tPort EXCEPT ![h] = y] /\ y \in Port
      BY <2>1, <2>2, <2>4, Threads DEF TInv, Functions
    <3> HIDE DEF y
    <3> QED BY <2>1, <2>2, <3>1, SendTypes
  <2> QED BY <2>3, <2>4
<1>3. CASE SendChecks(h) \/ SendEnds(h)
  <2>1. \E x \in {"none"} \cup Sending : Proceed(h, x) /\ task[h] \in Sending
    BY <1>3 DEF SendChecks, SendEnds
  <2> QED BY <1>2, <2>1
<1>4. CASE SendComposes(h)
  <2>1. task[h] = "compose" /\ (Proceed(h, "transmit") \/ Dies(h))
    BY <1>4 DEF SendComposes
  <2>2. h \in Thread
    BY Threads
  <2> QED BY <1>2, <2>1, <2>2, DiesTypes
<1> QED BY <1>1, <1>3, <1>4

\* Requests and connections that start no thread and send nothing.
LEMMA ConnectionTypes ==
  ASSUME TInv, NEW h \in Handler,
         \/ Connect(h) \/ Announce(h) \/ Lose(h) \/ EndConnection(h) \/ StreamEnds(h) \/ Reap(h)
         \/ Map(h) \/ MapAddsComponent(h) \/ MapAddsPort(h) \/ Unmapped(h)
  PROVE  TInv'
<1>1. UNCHANGED <<muxVars, uts, calls>>
  BY DEF Connect, Announce, Lose, EndConnection, StreamEnds, Reap, Map, MapAddsComponent,
         MapAddsPort, Unmapped
<1>2. /\ ut' = ut /\ running' = running /\ capture' = capture
      /\ task' = task /\ tPort' = tPort /\ arg' = arg /\ names' = names
  BY <1>1 DEF muxVars, uts, calls
<1>3. MuxTypeOK' /\ HandleIsSafe'
  BY <1>1, MuxActs, StutterIsSafe DEF TInv, MuxStep
<1>4. ConnTypes'
  BY HandlerConnTypes DEF TInv, HStep, HandlerStep
<1>5. MgrTypes'
  <2>0. KeyOf[h] \in Key /\ KeyOf[h].comp \in Component
    BY KeyAssumption DEF Key
  <2>1. CASE MapAddsComponent(h)
    BY <2>0, <2>1, MgrActs DEF TInv, MapAddsComponent
  <2>2. CASE MapAddsPort(h)
    <3>1. hId[h] \in Port \cup {0}
      <4>1. hId[h] \in 0..lastId /\ 1..lastId \subseteq Port /\ lastId \in Nat
        BY DEF TInv, ConnTypes
      <4>2. hId[h] = 0 \/ hId[h] \in 1..lastId
        BY <4>1
      <4> QED BY <4>1, <4>2
    <3>2. AddPort(KeyOf[h], hId[h])
      BY <2>2 DEF MapAddsPort
    <3> QED BY <2>0, <3>1, <3>2, MgrActs DEF TInv
  <2>3. CASE ~MapAddsComponent(h) /\ ~MapAddsPort(h)
    <3>1. UNCHANGED mgrVars
      BY <2>3 DEF Connect, Announce, Lose, EndConnection, StreamEnds, Reap, Map, Unmapped
    <3> QED BY <3>1, MgrActs DEF TInv
  <2> QED BY <2>1, <2>2, <2>3
<1>6. UtTypes' /\ ArgTypes'
  BY <1>2 DEF TInv, UtTypes, ArgTypes
<1>7. /\ \A g \in Handler \ {h} : hPc'[g] = hPc[g]
      /\ task[h] = "none" \/ hPc'[h] = hPc[h]
  <2>1. hPc' = hPc \/ \E p : hPc' = [hPc EXCEPT ![h] = p]
    BY DEF Connect, Announce, Lose, EndConnection, StreamEnds, Reap, Map, MapAddsComponent,
           MapAddsPort, Unmapped, handlers
  <2>2. hPc' = hPc \/ hPc[h] \notin {"mapped", "unmapping"} \/ task[h] = "none"
    BY DEF Connect, Announce, Lose, EndConnection, StreamEnds, Reap, Map, MapAddsComponent,
           MapAddsPort, Unmapped, handlers, TakesRequest
  <2>3. hPc' = hPc \/ task[h] = "none"
    BY <2>2, Callers DEF TInv
  <2> QED BY <2>1, <2>3 DEF TInv, ConnTypes
<1>8. Functions' /\ Calls'
  <2>1. \A g \in Handler : task[g] = "none" \/ hPc'[g] = hPc[g]
    BY <1>7
  <2> QED BY <1>2, <2>1, NoCallActs DEF TInv
<1>9. Fresh'
  <2>1. CASE Map(h)
    BY <2>1, MapFresh DEF TInv
  <2>2. CASE ~Map(h)
    <3>1. UNCHANGED <<hId, owner, lastId>>
      BY <2>2 DEF Connect, Announce, Lose, EndConnection, StreamEnds, Reap, MapAddsComponent,
                  MapAddsPort, Unmapped, handlers, ports
    <3>2. \/ hPc' = hPc
          \/ \E p \in {"unmapped", "dead", "addPort", "mapped"} : hPc' = [hPc EXCEPT ![h] = p]
      BY <2>2 DEF Connect, Announce, Lose, EndConnection, StreamEnds, Reap, MapAddsComponent,
                  MapAddsPort, Unmapped, handlers
    <3>3. \A g \in Handler : hPc'[g] = "create" => hPc[g] = "create"
      BY <3>2, NoCreate DEF TInv
    <3> QED BY <1>2, <3>1, <3>3, FreshActs DEF TInv
  <2> QED BY <2>1, <2>2
<1> QED BY <1>3, <1>4, <1>5, <1>6, <1>8, <1>9 DEF TInv

\* createPort starts the thread of the port or the one that captures.
LEMMA CreateTypes == ASSUME TInv, NEW h \in Handler, CreatePort(h) PROVE TInv'
<1>1. /\ hPc[h] = "create" /\ hPc' = [hPc EXCEPT ![h] = "addComp"]
      /\ Register(hId[h]) \/ UNCHANGED muxVars
      /\ UNCHANGED <<mgrVars, calls>>
  BY DEF CreatePort
<1>2. task' = task /\ tPort' = tPort /\ arg' = arg /\ names' = names
  BY <1>1 DEF calls
<1>3. /\ Fresh' /\ UtTypes' /\ hId[h] \in Port
      /\ \A i \in Port : ut'[i] = "callback" <=> ut[i] = "callback"
  BY CreateFresh DEF TInv
<1>4. MuxTypeOK' /\ HandleIsSafe'
  BY <1>1, <1>3, MuxActs, StutterIsSafe, RegisterIsSafe DEF TInv, MuxStep
<1>5. ConnTypes'
  BY HandlerConnTypes DEF TInv, HStep, HandlerStep
<1>6. MgrTypes' /\ ArgTypes'
  BY <1>1, <1>2, MgrActs DEF TInv, ArgTypes
<1>7. capture' = "callback" <=> capture = "callback"
  BY <1>1, RegisterKeepsCalls DEF TInv, muxVars
<1>8. \A g \in Handler : task[g] = "none" \/ hPc'[g] = hPc[g]
  BY <1>1, Callers DEF TInv, ConnTypes
<1>9. Functions' /\ Calls'
  BY <1>2, <1>3, <1>7, <1>8, NoCallActs DEF TInv
<1> QED BY <1>3, <1>4, <1>5, <1>6, <1>9 DEF TInv

\* The unmap request begins to remove the port.
LEMMA UnmapTypes == ASSUME TInv, NEW h \in Handler, Unmap(h) PROVE TInv'
<1>1. /\ hPc' = [hPc EXCEPT ![h] = "unmapping"] /\ task' = [task EXCEPT ![h] = "remove"]
      /\ UNCHANGED <<muxVars, mgrVars, hId, ports, uts, arg, names, tPort>>
  BY DEF Unmap
<1>2. MuxTypeOK' /\ HandleIsSafe'
  BY <1>1, MuxActs, StutterIsSafe DEF TInv, MuxStep
<1>3. ConnTypes' /\ MgrTypes'
  BY <1>1, HandlerConnTypes, MgrActs DEF TInv, HStep
<1>4. UtTypes' /\ ArgTypes'
  BY <1>1 DEF TInv, UtTypes, ArgTypes, uts
<1>5. hPc'[h] = "unmapping" /\ \A g \in Handler \ {h} : hPc'[g] = hPc[g]
  BY <1>1 DEF TInv, ConnTypes
<1> DEFINE y == tPort[h]
<1>6. tPort' = [tPort EXCEPT ![h] = y] /\ h \in Thread /\ h # Capture /\ h \notin Port
  BY <1>1, Threads DEF TInv, Functions
<1> HIDE DEF y
<1>7. Functions' /\ Calls'
  <2>1. "remove" \notin Sending /\ capture' = capture /\ ut' = ut
    BY <1>1 DEF Sending, muxVars, uts
  <2> QED BY <1>1, <1>5, <1>6, <2>1, CallActs DEF TInv
<1>8. Fresh'
  BY <1>1, NoCreate, FreshActs DEF TInv, ports, uts
<1> QED BY <1>2, <1>3, <1>4, <1>7, <1>8 DEF TInv

\* Every step of a connection and its handler.
LEMMA HandlerTypes == ASSUME TInv, NEW h \in Handler, HStep(h) PROVE TInv'
BY ConnectionTypes, CreateTypes, UnmapTypes, SendsTypes DEF HStep, HandlerStep

-----------------------------------------------------------------------------
(* The other threads.                                                       *)

\* A step of a thread in its call, or at its end, that leaves the connections alone.
LEMMA ThreadActs ==
  ASSUME TInv, NEW t \in Thread, NEW x, NEW y,
         task' = [task EXCEPT ![t] = x], tPort' = [tPort EXCEPT ![t] = y],
         UNCHANGED <<handlers, mapper, ports>>,
         t \in Handler => x = "none" \/ (x \notin Sending /\ hPc[t] = "unmapping"),
         \A i \in Port \ {t} : ut'[i] = ut[i],
         t \in Port => (x # "none" <=> ut'[t] = "callback") /\ (ut[t] = "none" => ut'[t] = "none"),
         t # Capture => (capture' = "callback" <=> capture = "callback"),
         t = Capture => (x # "none" <=> capture' = "callback"),
         MuxTypeOK', HandleIsSafe', MgrTypes', UtTypes', ArgTypes'
  PROVE  TInv'
<1>1. hPc' = hPc /\ UNCHANGED <<hId, owner, lastId, lost, announced, registered, dbTsi, tsiOf>>
  BY DEF handlers, mapper, ports
<1>2. ConnTypes'
  BY <1>1 DEF TInv, ConnTypes
<1>3. Functions' /\ Calls'
  BY <1>1, CallActs DEF TInv
<1>4. Fresh'
  BY <1>1, FreshActs DEF TInv
<1> QED BY <1>2, <1>3, <1>4 DEF TInv

\* A step within a call: who had one still has one, except for a handler.
LEMMA WithinCall ==
  ASSUME TInv, NEW t \in Thread, NEW x, NEW y, task[t] \notin Sending \cup {"none"},
         task' = [task EXCEPT ![t] = x], tPort' = [tPort EXCEPT ![t] = y],
         UNCHANGED <<handlers, mapper, ports, ut>>,
         x \notin Sending, t \notin Handler => x # "none",
         capture' = capture,
         MuxTypeOK', HandleIsSafe', MgrTypes', UtTypes', ArgTypes'
  PROVE  TInv'
<1>1. t \in Handler => x = "none" \/ (x \notin Sending /\ hPc[t] = "unmapping")
  BY DEF TInv, Calls
<1>2. t \in Port => x # "none" /\ ut[t] = "callback" /\ ut' = ut
  BY Threads DEF TInv, Calls
<1>3. t = Capture => x # "none" /\ capture = "callback"
  BY Threads DEF TInv, Calls
<1> QED BY <1>1, <1>2, <1>3, ThreadActs

\* A callback returns.
LEMMA CallbackEndsTypes ==
  ASSUME TInv, NEW t \in {Capture} \cup Port, CallbackEnds(t), task[t] # "none",
         UNCHANGED <<handlers, mapper, ports, running>>, MgrTypes', ArgTypes'
  PROVE  TInv'
<1>1. /\ task' = [task EXCEPT ![t] = "none"] /\ tPort' = [tPort EXCEPT ![t] = 0]
      /\ IF t = Capture
         THEN CallbackReturns /\ UNCHANGED ut
         ELSE /\ ut' = [ut EXCEPT ![t] = IF running[t] THEN "wait" ELSE "ended"]
              /\ UNCHANGED muxVars
  BY DEF CallbackEnds
<1>2. MuxTypeOK' /\ HandleIsSafe'
  <2>1. MuxStep
    BY <1>1 DEF MuxStep, CaptureStep
  <2> QED BY <1>1, <2>1, MuxActs, StutterIsSafe, CaptureStepIsSafe DEF TInv, CaptureStep
<1>3. t \in Thread /\ t \notin Handler
  BY Threads
<1> DEFINE u == IF running[t] THEN "wait" ELSE "ended"
<1>4. u \in {"wait", "ended"} /\ (t # Capture => ut' = [ut EXCEPT ![t] = u])
  BY <1>1
<1> HIDE DEF u
<1>5. UtTypes' /\ \A i \in Port \ {t} : ut'[i] = ut[i]
  BY <1>1, <1>4 DEF TInv, UtTypes
<1>6. t \in Port => ut'[t] # "callback" /\ ut[t] # "none"
  <2> SUFFICES ASSUME t \in Port PROVE ut'[t] # "callback" /\ ut[t] # "none"
    OBVIOUS
  <2>1. ut[t] = "callback" /\ ut'[t] = u
    BY <1>4, Threads DEF TInv, Calls, UtTypes
  <2> QED BY <1>4, <2>1
<1>7. /\ t # Capture => capture' = capture
      /\ t = Capture => capture' # "callback"
  BY <1>1 DEF muxVars, CallbackReturns
<1> QED BY <1>1, <1>2, <1>3, <1>5, <1>6, <1>7, ThreadActs

\* The steps of removePort.
LEMMA RemovesTypes == ASSUME TInv, NEW t \in Thread, Removes(t) PROVE TInv'
<1> USE DEF Sending
<1>0. ArgTypes /\ UtTypes /\ MgrTypes /\ MuxTypeOK /\ HandleIsSafe
  BY DEF TInv
<1>1. CASE RemoveFails(t)
  BY <1>1, DiesTypes DEF RemoveFails
<1> DEFINE r == IF t \in Handler THEN "none" ELSE "reset"
<1>2. r \notin Sending /\ (t \notin Handler => r # "none")
  OBVIOUS
<1>3. [tPort EXCEPT ![t] = tPort[t]] = tPort
  BY DEF TInv, Functions
<1> HIDE DEF r
<1>4. CASE RemoveChecks(t)
  <2>1. /\ task[t] = "remove" /\ UNCHANGED <<muxVars, handlers, mapper, ports, uts, arg, names>>
        /\ \/ /\ task' = [task EXCEPT ![t] = "dispose"]
              /\ tPort' = [tPort EXCEPT ![t] = portAt[arg[t]]]
              /\ StopObserving(portAt[arg[t]])
           \/ task' = [task EXCEPT ![t] = r] /\ tPort' = tPort /\ UNCHANGED mgrVars
    BY <1>4 DEF RemoveChecks, Return, r
  <2>2. PICK x, y : /\ task' = [task EXCEPT ![t] = x] /\ tPort' = [tPort EXCEPT ![t] = y]
                    /\ x \in {"dispose", r}
    <3>1. CASE tPort' = tPort
      BY <1>3, <2>1, <3>1
    <3>2. CASE tPort' # tPort
      BY <2>1, <3>2
    <3> QED BY <3>1, <3>2
  <2>3. MgrTypes'
    BY <1>0, <2>1, MgrActs
  <2>4. MuxTypeOK' /\ HandleIsSafe' /\ capture' = capture /\ ut' = ut
    BY <1>0, <2>1, MuxActs, StutterIsSafe DEF MuxStep, muxVars, uts
  <2>5. UtTypes' /\ ArgTypes'
    BY <1>0, <2>1 DEF UtTypes, ArgTypes, uts
  <2> QED BY <1>2, <2>1, <2>2, <2>3, <2>4, <2>5, WithinCall
<1>5. CASE RemoveDisposes(t)
  <2> DEFINE i == portAt[arg[t]]
  <2>1. /\ task[t] = "dispose" /\ Dispose(t, i) /\ tPort' = [tPort EXCEPT ![t] = i]
        /\ UNCHANGED <<mgrVars, handlers, mapper, ports, arg, names>>
    BY <1>5 DEF RemoveDisposes
  <2>2. i \in Port \cup {0}
    BY <1>0 DEF ArgTypes, MgrTypes
  <2> HIDE DEF i
  <2>3. PICK x \in {"join", "drop"} : task' = [task EXCEPT ![t] = x]
    BY <2>1 DEF Dispose
  <2>4. /\ ut' = ut /\ (Unregister(t, i) \/ UNCHANGED muxVars)
        /\ running' = running \/ running' = [running EXCEPT ![i] = FALSE]
    BY <2>1 DEF Dispose, uts
  <2>5. MuxTypeOK' /\ HandleIsSafe'
    BY <1>0, <2>2, <2>4, MuxActs, StutterIsSafe, UnregisterIsSafe DEF MuxStep
  <2>6. capture' = capture
    BY <2>4 DEF Unregister, muxVars
  <2>7. UtTypes' /\ ArgTypes' /\ MgrTypes'
    BY <1>0, <2>1, <2>4, MgrActs DEF UtTypes, ArgTypes
  <2> QED BY <2>1, <2>3, <2>4, <2>5, <2>6, <2>7, WithinCall
<1>6. CASE RemoveJoins(t)
  <2>1. /\ task[t] = "join" /\ task' = [task EXCEPT ![t] = "drop"]
        /\ tPort' = [tPort EXCEPT ![t] = tPort[t]]
        /\ CaptureJoined(t) \/ UNCHANGED muxVars
        /\ UNCHANGED <<mgrVars, handlers, mapper, ports, uts, arg, names>>
    BY <1>3, <1>6 DEF RemoveJoins
  <2>2. MuxTypeOK' /\ HandleIsSafe' /\ capture' = capture
    BY <1>0, <2>1, MuxActs, StutterIsSafe, JoinIsSafe DEF MuxStep, CaptureJoined, muxVars
  <2>3. UtTypes' /\ ArgTypes' /\ MgrTypes' /\ ut' = ut
    BY <1>0, <2>1, MgrActs DEF UtTypes, ArgTypes, uts
  <2> DEFINE y == tPort[t]
  <2>4. tPort' = [tPort EXCEPT ![t] = y]
    BY <2>1
  <2> HIDE DEF y
  <2> QED BY <2>1, <2>2, <2>3, <2>4, WithinCall
<1>7. CASE RemoveDrops(t)
  <2>1. /\ task[t] = "drop" /\ task' = [task EXCEPT ![t] = r] /\ tPort' = [tPort EXCEPT ![t] = 0]
        /\ DropPort(arg[t])
        /\ UNCHANGED <<muxVars, handlers, mapper, ports, uts, arg, names>>
    BY <1>7 DEF RemoveDrops, Return, r
  <2>2. MuxTypeOK' /\ HandleIsSafe' /\ capture' = capture
    BY <1>0, <2>1, MuxActs, StutterIsSafe DEF MuxStep, muxVars
  <2>3. UtTypes' /\ ArgTypes' /\ MgrTypes' /\ ut' = ut
    BY <1>0, <2>1, MgrActs DEF UtTypes, ArgTypes, uts
  <2> QED BY <1>2, <2>1, <2>2, <2>3, WithinCall
<1> QED BY <1>1, <1>4, <1>5, <1>6, <1>7 DEF Removes

\* A step from one call to the next.
LEMMA NextCall ==
  ASSUME TInv, NEW t \in Thread, t \notin Handler, NEW x, NEW y,
         x \notin Sending \cup {"none"}, task[t] \notin Sending \cup {"none"},
         task' = [task EXCEPT ![t] = x], tPort' = [tPort EXCEPT ![t] = y],
         UNCHANGED <<muxVars, mgrVars, handlers, mapper, ports, uts>>, ArgTypes'
  PROVE  TInv'
<1>0. UtTypes /\ MgrTypes /\ MuxTypeOK /\ HandleIsSafe
  BY DEF TInv
<1>1. MuxTypeOK' /\ HandleIsSafe' /\ capture' = capture
  BY <1>0, MuxActs, StutterIsSafe DEF MuxStep, muxVars
<1>2. UtTypes' /\ MgrTypes' /\ ut' = ut
  BY <1>0, MgrActs DEF UtTypes, uts
<1> QED BY <1>0, <1>1, <1>2, WithinCall

\* The steps of a callback.
LEMMA ReceivesTypes == ASSUME TInv, NEW t \in {Capture} \cup Port, Receives(t) PROVE TInv'
<1>0. /\ ArgTypes /\ UtTypes /\ MgrTypes /\ MuxTypeOK /\ HandleIsSafe
      /\ t \in Thread /\ t \notin Handler
  BY Threads DEF TInv
<1>1. [tPort EXCEPT ![t] = tPort[t]] = tPort /\ [task EXCEPT ![t] = task[t]] = task
  BY <1>0 DEF TInv, Functions
<1>2. \A x \in {"notify", "update", "enqueue", "remove", "reset"} : x \notin Sending \cup {"none"}
  BY DEF Sending
<1>3. CASE Notify(t) \/ Update(t) \/ Enqueue(t)
  <2>1. /\ task[t] \in {"notify", "update", "enqueue"}
        /\ UNCHANGED <<mgrVars, handlers, mapper, ports, running, arg, names>>
    BY <1>3 DEF Notify, Update, Enqueue
  <2>2. MgrTypes' /\ ArgTypes'
    BY <1>0, <2>1, MgrActs DEF ArgTypes
  <2>3. CASE CallbackEnds(t)
    BY <2>1, <2>2, <2>3, CallbackEndsTypes
  <2>4. CASE ~CallbackEnds(t)
    <3>1. /\ \E x \in {"update", "enqueue", "reset"} : task' = [task EXCEPT ![t] = x]
          /\ tPort' = tPort \/ \E y : tPort' = [tPort EXCEPT ![t] = y]
          /\ UNCHANGED <<muxVars, ut>>
      BY <1>3, <2>4 DEF Notify, Update, Enqueue
    <3>2. PICK x \in {"update", "enqueue", "reset"} : task' = [task EXCEPT ![t] = x]
      BY <3>1
    <3>3. PICK y : tPort' = [tPort EXCEPT ![t] = y]
      BY <1>1, <3>1
    <3>4. UNCHANGED uts
      BY <2>1, <3>1 DEF uts
    <3>5. x \notin Sending \cup {"none"} /\ task[t] \notin Sending \cup {"none"}
      BY <1>2, <2>1
    <3>6. UNCHANGED <<muxVars, mgrVars, handlers, mapper, ports, uts>>
      BY <2>1, <3>1, <3>4
    <3> QED BY <1>0, <2>2, <3>2, <3>3, <3>5, <3>6, NextCall
  <2> QED BY <2>3, <2>4
<1>4. CASE ResetComponent(t)
  <2>1. CASE Dies(t)
    BY <1>0, <1>4, <2>1, DiesTypes DEF ResetComponent
  <2>2. CASE ~Dies(t)
    <3>1. PICK c \in lists :
            /\ names' = [names EXCEPT ![t] = NamesOf(c)]
            /\ arg' = [arg EXCEPT ![t] = [arg[t] EXCEPT !.comp = c]]
            /\ UNCHANGED <<muxVars, mgrVars, handlers, mapper, ports, uts, task, tPort>>
      BY <1>4, <2>2 DEF ResetComponent
    <3>2. c \in Component /\ NamesOf(c) \subseteq PortName /\ arg[t] \in Key
      BY <1>0 DEF MgrTypes, MgrTypeOK, NamesOf, ArgTypes
    <3> DEFINE k == [arg[t] EXCEPT !.comp = c]
               n == NamesOf(c)
    <3>3. k \in Key /\ n \in SUBSET PortName
      BY <3>2 DEF Key
    <3>4. names' = [names EXCEPT ![t] = n] /\ arg' = [arg EXCEPT ![t] = k]
      BY <3>1
    <3> HIDE DEF k, n
    <3>5. ArgTypes'
      BY <1>0, <3>3, <3>4 DEF ArgTypes
    <3>6. task[t] = "reset"
      BY <1>4 DEF ResetComponent
    <3> DEFINE x == task[t]
               y == tPort[t]
    <3>7. task' = [task EXCEPT ![t] = x] /\ tPort' = [tPort EXCEPT ![t] = y] /\ x = "reset"
      BY <1>1, <3>1, <3>6
    <3> HIDE DEF x, y
    <3>8. x \notin Sending \cup {"none"} /\ task[t] \notin Sending \cup {"none"}
      BY <1>2, <3>6, <3>7
    <3> QED BY <1>0, <3>1, <3>5, <3>7, <3>8, NextCall
  <2> QED BY <2>1, <2>2
<1>5. CASE ResetPort(t)
  <2>1. PICK n \in names[t] : /\ names' = [names EXCEPT ![t] = names[t] \ {n}]
                              /\ arg' = [arg EXCEPT ![t] = [arg[t] EXCEPT !.name = n]]
    BY <1>5 DEF ResetPort
  <2>2. n \in PortName /\ names[t] \subseteq PortName /\ arg[t] \in Key
    BY <1>0 DEF ArgTypes
  <2> DEFINE k == [arg[t] EXCEPT !.name = n]
             m == names[t] \ {n}
  <2>3. k \in Key /\ m \in SUBSET PortName
    BY <2>2 DEF Key
  <2>4. names' = [names EXCEPT ![t] = m] /\ arg' = [arg EXCEPT ![t] = k]
    BY <2>1
  <2> HIDE DEF k, m
  <2>5. ArgTypes'
    BY <1>0, <2>3, <2>4 DEF ArgTypes
  <2>6. /\ task[t] = "reset" /\ task' = [task EXCEPT ![t] = "remove"] /\ tPort' = tPort
        /\ UNCHANGED <<muxVars, mgrVars, handlers, mapper, ports, uts>>
    BY <1>5 DEF ResetPort
  <2> DEFINE y == tPort[t]
  <2>7. tPort' = [tPort EXCEPT ![t] = y]
    BY <1>1, <2>6
  <2> HIDE DEF y
  <2>8. "remove" \notin Sending \cup {"none"} /\ task[t] \notin Sending \cup {"none"}
    BY <1>2, <2>6
  <2> QED BY <1>0, <2>5, <2>6, <2>7, <2>8, NextCall
<1>6. CASE ResetEnds(t)
  <2>1. /\ task[t] = "reset" /\ CallbackEnds(t) /\ ClearComponents
        /\ UNCHANGED <<handlers, mapper, ports, running, arg, names>>
    BY <1>6 DEF ResetEnds
  <2>2. MgrTypes' /\ ArgTypes'
    BY <1>0, <2>1, MgrActs DEF ArgTypes
  <2> QED BY <2>1, <2>2, CallbackEndsTypes
<1> QED BY <1>3, <1>4, <1>5, <1>6 DEF Receives

\* Frames and datagrams come.
LEMMA ArrivalTypes ==
  ASSUME TInv,
         \/ \E i \in Port : DatagramArrives(i) \/ SocketIsClosed(i)
         \/ FrameArrives \/ FrameIsDelivered \/ CaptureLoops
  PROVE  TInv'
<1>0. /\ ArgTypes /\ UtTypes /\ MgrTypes /\ MuxTypeOK /\ HandleIsSafe /\ Functions /\ Calls
      /\ Capture \in Thread /\ Capture \notin Handler /\ Capture \notin Port
  BY Threads DEF TInv
<1>1. UNCHANGED <<mgrVars, handlers, mapper, ports, running, arg, names>>
  BY DEF DatagramArrives, SocketIsClosed, FrameArrives, FrameIsDelivered, CaptureLoops, uts, calls
<1>2. MgrTypes' /\ ArgTypes'
  BY <1>0, <1>1, MgrActs DEF ArgTypes
<1>3. ASSUME NEW i \in Port, DatagramArrives(i) PROVE TInv'
  <2>1. /\ ut[i] = "wait" /\ ut' = [ut EXCEPT ![i] = "callback"] /\ UNCHANGED muxVars
        /\ task' = [task EXCEPT ![i] = "notify"] /\ tPort' = [tPort EXCEPT ![i] = i]
    BY <1>3 DEF DatagramArrives
  <2>2. MuxTypeOK' /\ HandleIsSafe' /\ capture' = capture
    BY <1>0, <2>1, MuxActs, StutterIsSafe DEF MuxStep, muxVars
  <2>3. UtTypes' /\ ut'[i] = "callback" /\ \A j \in Port \ {i} : ut'[j] = ut[j]
    BY <1>0, <1>1, <2>1 DEF UtTypes
  <2>4. i \in Thread /\ i # Capture /\ i \notin Handler
    BY Threads
  <2> QED BY <1>1, <1>2, <2>1, <2>2, <2>3, <2>4, ThreadActs
<1>4. ASSUME NEW i \in Port, SocketIsClosed(i) PROVE TInv'
  <2>1. /\ ut[i] = "wait" /\ ut' = [ut EXCEPT ![i] = "ended"] /\ UNCHANGED muxVars
        /\ task' = task /\ tPort' = tPort
    BY <1>4 DEF SocketIsClosed, calls
  <2>2. MuxTypeOK' /\ HandleIsSafe' /\ capture' = capture
    BY <1>0, <2>1, MuxActs, StutterIsSafe DEF MuxStep, muxVars
  <2>3. UtTypes' /\ ut'[i] = "ended" /\ \A j \in Port \ {i} : ut'[j] = ut[j]
    BY <1>0, <1>1, <2>1 DEF UtTypes
  <2>4. hPc' = hPc /\ UNCHANGED <<hId, owner, lastId, lost, announced, registered, dbTsi, tsiOf>>
    BY <1>1 DEF handlers, mapper, ports
  <2>5. \A j \in Port : ut'[j] = "callback" <=> ut[j] = "callback"
    BY <2>1, <2>3
  <2>6. Functions' /\ Calls'
    BY <1>0, <2>1, <2>2, <2>4, <2>5, NoCallActs
  <2>7. Fresh'
    BY <2>1, <2>3, <2>4, FreshActs DEF TInv
  <2>8. ConnTypes'
    BY <2>4 DEF TInv, ConnTypes
  <2> QED BY <1>2, <2>2, <2>3, <2>6, <2>7, <2>8 DEF TInv
<1>5. CASE FrameIsDelivered
  <2>1. PICK i \in pending : Deliver(i) /\ tPort' = [tPort EXCEPT ![Capture] = i]
    BY <1>5 DEF FrameIsDelivered
  <2>2. task' = [task EXCEPT ![Capture] = "notify"] /\ ut' = ut
    BY <1>5 DEF FrameIsDelivered, uts
  <2>3. /\ i \in Port /\ capture' = "callback" /\ capture = "dispatch"
        /\ UNCHANGED <<clients, monitor, open>>
    BY <1>0, <2>1 DEF Deliver, MuxTypeOK
  <2>4. MuxTypeOK' /\ HandleIsSafe'
    <3>1. MuxStep
      BY <2>1, <2>3 DEF MuxStep
    <3>2. MuxTypeOK'
      BY <1>0, <3>1, MuxActs
    <3> QED BY <1>0, <2>3, <3>2 DEF HandleIsSafe, Capturing
  <2>5. UtTypes'
    BY <1>0, <1>1, <2>2 DEF UtTypes
  <2> QED BY <1>0, <1>1, <1>2, <2>1, <2>2, <2>3, <2>4, <2>5, ThreadActs
<1>6. CASE FrameArrives \/ CaptureLoops
  <2>1. CaptureStep /\ task' = task /\ tPort' = tPort /\ ut' = ut
    BY <1>6 DEF FrameArrives, CaptureLoops, CaptureStep, calls, uts
  <2>2. capture \in {"loop", "dispatch"} /\ capture' # "callback"
    BY <1>6 DEF FrameArrives, CaptureLoops, Dispatch, DispatchEnds, DispatchFails, LoopEnds
  <2>3. MuxTypeOK' /\ HandleIsSafe'
    BY <1>0, <2>1, MuxActs, CaptureStepIsSafe DEF MuxStep
  <2>4. UtTypes'
    BY <1>0, <1>1, <2>1 DEF UtTypes
  <2>5. task[Capture] = "none"
    BY <1>0, <2>2 DEF Calls
  <2> DEFINE x == task[Capture]
             y == tPort[Capture]
  <2>6. task' = [task EXCEPT ![Capture] = x] /\ tPort' = [tPort EXCEPT ![Capture] = y] /\ x = "none"
    BY <1>0, <2>1, <2>5 DEF Functions
  <2> HIDE DEF x, y
  <2> QED BY <1>0, <1>1, <1>2, <2>1, <2>2, <2>3, <2>4, <2>6, ThreadActs
<1> QED BY <1>3, <1>4, <1>5, <1>6

-----------------------------------------------------------------------------
\* Nothing changes.
LEMMA StutterTypes == ASSUME TInv, UNCHANGED vars PROVE TInv'
<1>1. UNCHANGED <<muxVars, mgrVars, handlers, mapper, ports, uts, calls>>
  BY DEF vars
<1>2. MuxTypeOK' /\ HandleIsSafe' /\ MgrTypes' /\ capture' = capture
  BY <1>1, MuxActs, MgrActs, StutterIsSafe DEF TInv, MuxStep, muxVars
<1>3. ConnTypes' /\ UtTypes' /\ ArgTypes' /\ Functions' /\ Calls' /\ Fresh'
  BY <1>1, <1>2 DEF TInv, ConnTypes, UtTypes, ArgTypes, Functions, Calls, Fresh,
                    handlers, mapper, ports, uts, calls
<1> QED BY <1>2, <1>3 DEF TInv

\* What the invariant says of the variables is their type.
LEMMA TypesFollow == TInv => TypeOK
<1> SUFFICES ASSUME TInv PROVE TypeOK
  OBVIOUS
<1>1. MuxTypeOK /\ MgrTypeOK
  BY DEF TInv, MgrTypes
<1> QED BY <1>1 DEF TInv, TypeOK, ConnTypes, HandlerState, UtTypes, ArgTypes, Calls

\* Every variable keeps its type; a handler sends only while its port is mapped and removes
\* it only in the unmap request, and a receiving thread is in a call of the adapter exactly
\* while it is in its callback (TitanPortHandler, TestAdapter, PcapMultiplexer).
THEOREM TriTypes == Spec => []TypeOK
<1>1. ASSUME TInv, [Next]_vars PROVE TInv'
  BY <1>1, StutterTypes, HandlerTypes, RemovesTypes, ReceivesTypes, ArrivalTypes DEF Next, HStep
<1> QED BY TypesInit, <1>1, TypesFollow, PTL DEF Spec

-----------------------------------------------------------------------------
(* Who waits for whom.                                                      *)

\* A thread that waits in dispose has told the thread of a port object, which was started,
\* to end; or it holds the monitor of the multiplexer.
Joining(s) ==
  task[s] = "join" =>
    /\ tPort[s] \in 1..lastId
    /\ IF IsUt(tPort[s]) THEN ut[tPort[s]] # "none" /\ ~running[tPort[s]] ELSE monitor = s

\* The monitor is kept only by a thread that waits for the capture thread, which was told
\* to end.
Holding ==
  monitor # NoThread =>
    /\ monitor \in Thread /\ task[monitor] = "join" /\ ~IsUt(tPort[monitor])
    /\ Capturing => breakReq

\* Only a started thread runs.
RunsStarted == \A i \in Port : running[i] => ut[i] # "none"

\* The tables hold ports that were made.
TablesMade == \A k \in Key : portAt[k] \in 0..lastId

\* Before the first reset a receiving thread removes no port.
ReceiversNotify ==
  resetter = NoThread =>
    \A t \in {Capture} \cup Port : task[t] \in {"none", "notify", "update", "enqueue"}

JoinInv ==
  /\ \A s \in Thread : Joining(s)
  /\ Holding /\ RunsStarted /\ TablesMade /\ ReceiversNotify

\* Nobody waits at the start.
LEMMA JoinInit == Init => JoinInv
<1> SUFFICES ASSUME Init PROVE JoinInv
  OBVIOUS
<1>1. \A s \in Thread : task[s] = "none"
  BY DEF Init
<1>2. ReceiversNotify
  BY <1>1, Threads DEF ReceiversNotify
<1>3. TablesMade
  BY DEF Init, MgrInit, TablesMade
<1> QED BY <1>1, <1>2, <1>3 DEF Init, MuxInit, JoinInv, Joining, Holding, RunsStarted

\* What a waiting thread relies on: ports stay with who made them, and a started thread is
\* not made new and not told to go on.
OwnersKept == 1..lastId \subseteq 1..lastId' /\ \A i \in 1..lastId : owner'[i] = owner[i]
UtsKept == \A i \in Port : ut[i] # "none" => ut'[i] # "none" /\ (running'[i] => running[i])
BreakKept == Capturing' => Capturing /\ (breakReq => breakReq')

\* Then who waits goes on waiting for the same thread.
LEMMA JoiningKept ==
  ASSUME ConnTypes, NEW s \in Thread, Joining(s), OwnersKept, UtsKept,
         task'[s] = task[s], tPort'[s] = tPort[s],
         monitor = s /\ ~IsUt(tPort[s]) => monitor' = s
  PROVE  Joining(s)'
<1> SUFFICES ASSUME task'[s] = "join" PROVE Joining(s)'
  BY DEF Joining
<1> DEFINE p == tPort[s]
<1>1. p \in 1..lastId /\ p \in Port /\ tPort'[s] = p
  BY DEF Joining, ConnTypes
<1>2. p \in 1..lastId' /\ (IsUt(p)' <=> IsUt(p))
  BY <1>1 DEF OwnersKept, IsUt
<1>3. IsUt(p) => ut'[p] # "none" /\ ~running'[p]
  BY <1>1 DEF Joining, UtsKept
<1> QED BY <1>1, <1>2, <1>3 DEF Joining

\* ... and who holds the monitor keeps it.
LEMMA HoldingKept ==
  ASSUME ConnTypes, Holding, \A s \in Thread : Joining(s), OwnersKept, BreakKept,
         monitor' = monitor,
         monitor # NoThread => task'[monitor] = task[monitor] /\ tPort'[monitor] = tPort[monitor]
  PROVE  Holding'
<1> SUFFICES ASSUME monitor # NoThread PROVE Holding'
  BY DEF Holding
<1> DEFINE p == tPort[monitor]
<1>1. monitor \in Thread /\ p \in 1..lastId /\ tPort'[monitor] = p
  BY DEF Holding, Joining
<1>2. ~IsUt(p)'
  BY <1>1 DEF Holding, OwnersKept, IsUt
<1> QED BY <1>1, <1>2 DEF Holding, BreakKept

\* A step of a thread that does not wait and does not begin to.
LEMMA JoinKept ==
  ASSUME ConnTypes, Functions, JoinInv, OwnersKept, UtsKept, BreakKept, monitor' = monitor,
         NEW t \in Thread, task[t] # "join", task'[t] # "join",
         \A s \in Thread \ {t} : task'[s] = task[s] /\ tPort'[s] = tPort[s]
  PROVE  Holding' /\ \A s \in Thread : Joining(s)'
<1>1. ASSUME NEW s \in Thread PROVE Joining(s)'
  <2>1. CASE s = t
    BY <2>1 DEF Joining
  <2>2. CASE s # t
    BY <2>2, JoiningKept DEF JoinInv
  <2> QED BY <2>1, <2>2
<1>2. monitor # NoThread => monitor \in Thread /\ monitor # t
  BY DEF JoinInv, Holding
<1> QED BY <1>1, <1>2, HoldingKept DEF JoinInv

\* A step of nobody who waits.
LEMMA JoinStill ==
  ASSUME ConnTypes, JoinInv, OwnersKept, UtsKept, BreakKept, monitor' = monitor,
         task' = task, tPort' = tPort
  PROVE  Holding' /\ \A s \in Thread : Joining(s)'
<1>1. \A s \in Thread : Joining(s)'
  BY JoiningKept DEF JoinInv
<1> QED BY <1>1, HoldingKept DEF JoinInv

\* The capture thread changes neither the monitor nor what it was told.
LEMMA CaptureKeeps ==
  ASSUME CaptureStep \/ (\E i : Deliver(i)) \/ UNCHANGED muxVars
  PROVE  BreakKept /\ monitor' = monitor
BY DEF CaptureStep, Dispatch, Deliver, CallbackReturns, CallbackThrows, DispatchEnds,
       DispatchFails, LoopEnds, muxVars, BreakKept, Capturing

\* A step of thread t from a call that does not wait to one that does not.
LEMMA CallJoins ==
  ASSUME TInv, JoinInv, NEW t \in Thread, NEW x, task[t] # "join", x # "join",
         task' = [task EXCEPT ![t] = x],
         tPort' = tPort \/ \E y : tPort' = [tPort EXCEPT ![t] = y],
         UNCHANGED <<owner, lastId, running, monitor>>, BreakKept,
         \A i \in Port : ut[i] # "none" => ut'[i] # "none",
         resetter' = NoThread =>
           resetter = NoThread /\ (t \in Handler \/ x \in {"none", "notify", "update", "enqueue"})
  PROVE  Holding' /\ (\A s \in Thread : Joining(s)') /\ RunsStarted' /\ ReceiversNotify'
<1>1. OwnersKept /\ UtsKept
  BY DEF OwnersKept, UtsKept
<1>2. /\ task'[t] = x
      /\ \A s \in Thread \ {t} : task'[s] = task[s] /\ tPort'[s] = tPort[s]
  BY DEF TInv, Functions
<1>3. Holding' /\ \A s \in Thread : Joining(s)'
  BY <1>1, <1>2, JoinKept DEF TInv
<1>4. RunsStarted'
  BY DEF JoinInv, RunsStarted
<1>5. ReceiversNotify'
  BY <1>2, Threads DEF JoinInv, ReceiversNotify
<1> QED BY <1>3, <1>4, <1>5

\* The start of a port: a new thread, or a client of the multiplexer, which is free.
LEMMA CreateJoins ==
  ASSUME TInv, JoinInv, NEW h \in Handler, CreatePort(h)
  PROVE  Holding' /\ (\A s \in Thread : Joining(s)') /\ RunsStarted' /\ ReceiversNotify'
<1> DEFINE i == hId[h]
<1>1. /\ i \in Port /\ ut[i] = "none"
      /\ \/ ut' = [ut EXCEPT ![i] = "wait"] /\ running' = [running EXCEPT ![i] = TRUE]
            /\ UNCHANGED muxVars
         \/ ut' = ut /\ running' = running /\ Register(i)
      /\ UNCHANGED <<owner, lastId, task, tPort, resetter>>
  BY DEF CreatePort, uts, ports, calls, ghosts, TInv, Fresh
<1> HIDE DEF i
<1>2. OwnersKept
  BY <1>1 DEF OwnersKept
<1>3. UtsKept /\ RunsStarted'
  BY <1>1 DEF UtsKept, JoinInv, RunsStarted, TInv, UtTypes
<1>4. monitor' = monitor /\ (monitor # NoThread => UNCHANGED muxVars)
  BY <1>1 DEF Register, muxVars
<1>5. \A s \in Thread : Joining(s)'
  BY <1>1, <1>2, <1>3, <1>4, JoiningKept DEF JoinInv, TInv
<1>6. Holding'
  <2>1. CASE monitor = NoThread
    BY <1>4, <2>1 DEF Holding
  <2>2. CASE monitor # NoThread
    BY <1>1, <1>2, <1>4, <2>2, CaptureKeeps, HoldingKept DEF JoinInv, TInv
  <2> QED BY <2>1, <2>2
<1>7. ReceiversNotify'
  BY <1>1 DEF JoinInv, ReceiversNotify
<1> QED BY <1>3, <1>5, <1>6, <1>7

\* Requests and connections that make no call.
LEMMA ConnectionJoins ==
  ASSUME TInv, JoinInv, NEW h \in Handler,
         \/ Connect(h) \/ Announce(h) \/ Lose(h) \/ EndConnection(h) \/ StreamEnds(h) \/ Reap(h)
         \/ Map(h) \/ MapAddsComponent(h) \/ MapAddsPort(h) \/ Unmapped(h)
  PROVE  Holding' /\ (\A s \in Thread : Joining(s)') /\ RunsStarted' /\ ReceiversNotify'
<1>1. /\ UNCHANGED muxVars
      /\ UNCHANGED <<ut, running, task, tPort, resetter>>
  BY DEF Connect, Announce, Lose, EndConnection, StreamEnds, Reap, Map, MapAddsComponent,
         MapAddsPort, Unmapped, uts, calls, ghosts
<1>2. OwnersKept
  <2>1. CASE Map(h)
    <3>1. lastId' = lastId + 1 /\ owner' = [owner EXCEPT ![lastId + 1] = h] /\ lastId \in Nat
      BY <2>1 DEF Map, TInv, ConnTypes
    <3>2. \A i \in 1..lastId : i \in 1..lastId' /\ i # lastId + 1 /\ i \in Port
      BY <3>1 DEF TInv, ConnTypes
    <3> QED BY <3>1, <3>2 DEF OwnersKept, TInv, ConnTypes
  <2>2. CASE ~Map(h)
    <3>1. UNCHANGED <<owner, lastId>>
      BY <2>2 DEF Connect, Announce, Lose, EndConnection, StreamEnds, Reap, MapAddsComponent,
                  MapAddsPort, Unmapped, ports
    <3> QED BY <3>1 DEF OwnersKept
  <2> QED BY <2>1, <2>2
<1>3. UtsKept /\ BreakKept /\ monitor' = monitor
  BY <1>1, CaptureKeeps DEF UtsKept
<1>4. Holding' /\ \A s \in Thread : Joining(s)'
  BY <1>1, <1>2, <1>3, JoinStill DEF TInv
<1> QED BY <1>1, <1>4 DEF JoinInv, RunsStarted, ReceiversNotify

\* The unmap request and the request to send.
LEMMA RequestJoins ==
  ASSUME TInv, JoinInv, NEW h \in Handler,
         Unmap(h) \/ Send(h) \/ SendChecks(h) \/ SendComposes(h) \/ SendEnds(h)
  PROVE  Holding' /\ (\A s \in Thread : Joining(s)') /\ RunsStarted' /\ ReceiversNotify'
<1>1. /\ task[h] # "join" /\ UNCHANGED <<owner, lastId, running, resetter>>
      /\ \E x \in {"none", "remove", "check", "compose", "transmit"} :
           task' = [task EXCEPT ![h] = x]
      /\ tPort' = tPort \/ \E y : tPort' = [tPort EXCEPT ![h] = y]
  BY DEF Unmap, Send, SendChecks, SendComposes, SendEnds, Proceed, Dies, TakesRequest, ports, uts,
         ghosts
<1>2. UNCHANGED muxVars /\ ut' = ut
  <2>1. h # Capture /\ h \notin Port
    BY Threads
  <2> QED BY <2>1 DEF Unmap, Send, SendChecks, SendComposes, SendEnds, Proceed, Dies, uts
<1>3. BreakKept /\ monitor' = monitor
  BY <1>2, CaptureKeeps
<1>4. h \in Thread
  BY Threads
<1> QED BY <1>1, <1>2, <1>3, <1>4, CallJoins

\* Every step of a connection and its handler.
LEMMA HandlerJoins ==
  ASSUME TInv, JoinInv, NEW h \in Handler, HStep(h)
  PROVE  Holding' /\ (\A s \in Thread : Joining(s)') /\ RunsStarted' /\ ReceiversNotify'
BY ConnectionJoins, CreateJoins, RequestJoins DEF HStep, HandlerStep

\* dispose tells the thread of the port object to end, or takes the monitor if the capture
\* thread has to end.
LEMMA DisposeJoins ==
  ASSUME TInv, JoinInv, NEW t \in Thread, RemoveDisposes(t)
  PROVE  Holding' /\ (\A s \in Thread : Joining(s)') /\ RunsStarted' /\ ReceiversNotify'
<1>0. PICK i : i = portAt[arg[t]]
  OBVIOUS
<1>1. /\ task[t] = "dispose" /\ i # 0 /\ Dispose(t, i) /\ tPort' = [tPort EXCEPT ![t] = i]
      /\ UNCHANGED <<owner, lastId, resetter>>
  BY <1>0 DEF RemoveDisposes, ports, ghosts
<1>2. i \in 1..lastId /\ i \in Port
  <2>1. arg[t] \in Key /\ i \in 0..lastId /\ lastId \in Nat /\ 1..lastId \subseteq Port
    BY <1>0 DEF TInv, ArgTypes, ConnTypes, JoinInv, TablesMade
  <2> QED BY <1>1, <2>1
<1>3. OwnersKept /\ (IsUt(i)' <=> IsUt(i))
  BY <1>1 DEF OwnersKept, IsUt
<1>4. t # NoThread
  BY ThreadAssumption DEF Thread
<1>5. \A s \in Thread \ {t} : task'[s] = task[s] /\ tPort'[s] = tPort[s]
  BY <1>1 DEF Dispose, TInv, Functions
<1>6. tPort'[t] = i
  BY <1>1 DEF TInv, Functions
<1>7. ReceiversNotify'
  BY <1>1, <1>5, Threads DEF JoinInv, ReceiversNotify
<1>8. CASE IsUt(i)
  <2>1. /\ task' = [task EXCEPT ![t] = IF running[i] THEN "join" ELSE "drop"]
        /\ running' = [running EXCEPT ![i] = FALSE] /\ ut' = ut /\ UNCHANGED muxVars
    BY <1>1, <1>8 DEF Dispose
  <2>2. UtsKept /\ RunsStarted' /\ ~running'[i]
    BY <1>2, <2>1 DEF UtsKept, JoinInv, RunsStarted, TInv, UtTypes
  <2>3. BreakKept /\ monitor' = monitor
    BY <2>1, CaptureKeeps
  <2>4. task'[t] = IF running[i] THEN "join" ELSE "drop"
    BY <2>1 DEF TInv, Functions
  <2>5. Joining(t)'
    <3>1. task'[t] = "join" => ut'[i] # "none"
      BY <1>2, <2>1, <2>4 DEF JoinInv, RunsStarted
    <3> QED BY <1>1, <1>2, <1>3, <1>6, <1>8, <2>2, <3>1 DEF Joining
  <2>6. \A s \in Thread \ {t} : Joining(s)'
    BY <1>3, <1>5, <2>2, <2>3, JoiningKept DEF JoinInv, TInv
  <2>7. Holding'
    <3>1. monitor # NoThread => monitor \in Thread \ {t}
      BY <1>1 DEF JoinInv, Holding
    <3> QED BY <1>3, <1>5, <2>3, <3>1, HoldingKept DEF JoinInv, TInv
  <2> QED BY <1>7, <2>2, <2>5, <2>6, <2>7
<1>9. CASE ~IsUt(i)
  <2>1. /\ task' = [task EXCEPT ![t] = IF clients = {i} THEN "join" ELSE "drop"]
        /\ ut' = ut /\ running' = running /\ Unregister(t, i)
    BY <1>1, <1>9 DEF Dispose, uts
  <2>2. /\ monitor = NoThread
        /\ monitor' = IF clients = {i} THEN t ELSE NoThread
        /\ clients = {i} => breakReq'
    BY <2>1 DEF Unregister, TInv, MuxTypeOK
  <2>3. UtsKept /\ RunsStarted'
    BY <2>1 DEF UtsKept, JoinInv, RunsStarted
  <2>4. task'[t] = IF clients = {i} THEN "join" ELSE "drop"
    BY <2>1 DEF TInv, Functions
  <2>5. Joining(t)'
    BY <1>1, <1>2, <1>3, <1>6, <1>9, <2>2, <2>4 DEF Joining
  <2>6. ASSUME NEW s \in Thread \ {t} PROVE Joining(s)'
    <3>1. s # NoThread /\ Joining(s)
      BY ThreadAssumption DEF Thread, JoinInv
    <3> QED BY <1>3, <1>5, <2>2, <2>3, <2>6, <3>1, JoiningKept DEF TInv
  <2>7. Holding'
    BY <1>3, <1>4, <1>6, <1>9, <2>2, <2>4 DEF Holding
  <2> QED BY <1>7, <2>3, <2>5, <2>6, <2>7
<1> QED BY <1>8, <1>9

\* The end of a wait gives the monitor back.
LEMMA EndOfJoin ==
  ASSUME TInv, JoinInv, NEW t \in Thread, RemoveJoins(t)
  PROVE  Holding' /\ (\A s \in Thread : Joining(s)') /\ RunsStarted' /\ ReceiversNotify'
<1>1. /\ task[t] = "join" /\ task' = [task EXCEPT ![t] = "drop"]
      /\ UNCHANGED <<owner, lastId, ut, running, tPort, resetter>>
      /\ IF IsUt(tPort[t]) THEN UNCHANGED muxVars ELSE CaptureJoined(t)
  BY DEF RemoveJoins, ports, uts, ghosts
<1>2. task'[t] = "drop" /\ \A s \in Thread \ {t} : task'[s] = task[s] /\ tPort'[s] = tPort[s]
  BY <1>1 DEF TInv, Functions
<1>3. OwnersKept /\ UtsKept /\ RunsStarted'
  BY <1>1 DEF OwnersKept, UtsKept, JoinInv, RunsStarted
<1>4. monitor' = monitor \/ (monitor = t /\ monitor' = NoThread)
  BY <1>1 DEF muxVars, CaptureJoined
<1>5. ASSUME NEW s \in Thread PROVE Joining(s)'
  <2>1. CASE s = t
    BY <1>2, <2>1 DEF Joining
  <2>2. CASE s # t
    BY <1>2, <1>3, <1>4, <2>2, JoiningKept DEF JoinInv, TInv
  <2> QED BY <2>1, <2>2
<1>6. Holding'
  <2>1. CASE IsUt(tPort[t])
    <3>1. monitor' = monitor /\ BreakKept
      BY <1>1, <2>1, CaptureKeeps DEF muxVars
    <3>2. monitor # NoThread => monitor \in Thread \ {t}
      BY <2>1 DEF JoinInv, Holding
    <3> QED BY <1>2, <1>3, <3>1, <3>2, HoldingKept DEF JoinInv, TInv
  <2>2. CASE ~IsUt(tPort[t])
    BY <1>1, <2>2 DEF CaptureJoined, Holding
  <2> QED BY <2>1, <2>2
<1>7. ReceiversNotify'
  BY <1>1, <1>2, Threads DEF JoinInv, ReceiversNotify
<1> QED BY <1>3, <1>5, <1>6, <1>7

\* The other steps of removePort: before the first reset only handlers take them.
LEMMA RemovesJoins ==
  ASSUME TInv, JoinInv, NEW t \in Thread, Removes(t)
  PROVE  Holding' /\ (\A s \in Thread : Joining(s)') /\ RunsStarted' /\ ReceiversNotify'
<1>1. CASE RemoveDisposes(t) \/ RemoveJoins(t)
  BY <1>1, DisposeJoins, EndOfJoin
<1>2. CASE RemoveChecks(t) \/ RemoveFails(t) \/ RemoveDrops(t)
  <2>1. /\ task[t] \in {"remove", "dispose", "drop"}
        /\ UNCHANGED <<owner, lastId, running, resetter>>
        /\ \E x \in {"none", "dispose", "reset"} : task' = [task EXCEPT ![t] = x]
        /\ tPort' = tPort \/ \E y : tPort' = [tPort EXCEPT ![t] = y]
    BY <1>2 DEF RemoveChecks, RemoveFails, RemoveDrops, Dies, Return, ports, uts, ghosts
  <2>2. \A i \in Port : ut[i] # "none" => ut'[i] # "none"
    BY <1>2 DEF RemoveChecks, RemoveFails, RemoveDrops, Dies, uts, TInv, UtTypes
  <2>3. BreakKept /\ monitor' = monitor
    BY <1>2, CaptureKeeps DEF RemoveChecks, RemoveFails, RemoveDrops, Dies, CaptureStep
  <2>4. resetter = NoThread => t \in Handler
    BY <2>1, Threads DEF JoinInv, ReceiversNotify
  <2> QED BY <2>1, <2>2, <2>3, <2>4, CallJoins
<1> QED BY <1>1, <1>2 DEF Removes

\* The steps of a callback; the one that begins a reset is counted.
LEMMA ReceivesJoins ==
  ASSUME TInv, JoinInv, NEW t \in {Capture} \cup Port, Receives(t)
  PROVE  Holding' /\ (\A s \in Thread : Joining(s)') /\ RunsStarted' /\ ReceiversNotify'
<1>0. t \in Thread /\ t # NoThread
  BY ThreadAssumption DEF Thread
<1>1. /\ task[t] \in {"notify", "update", "enqueue", "reset"}
      /\ UNCHANGED <<owner, lastId, running>>
      /\ tPort' = tPort \/ \E y : tPort' = [tPort EXCEPT ![t] = y]
  BY DEF Receives, Notify, Update, Enqueue, ResetComponent, ResetPort, ResetEnds, CallbackEnds,
         Dies, ports, uts
<1>2. /\ \A i \in Port : ut[i] # "none" => ut'[i] # "none"
      /\ CaptureStep \/ UNCHANGED muxVars
  BY DEF Receives, Notify, Update, Enqueue, ResetComponent, ResetPort, ResetEnds, CallbackEnds,
         Dies, uts, CaptureStep, TInv, UtTypes
<1>3. BreakKept /\ monitor' = monitor
  BY <1>2, CaptureKeeps
<1>4. CASE Notify(t) \/ Update(t) \/ Enqueue(t)
  <2>1. \E x \in {"none", "update", "enqueue", "reset"} :
          /\ task' = [task EXCEPT ![t] = x]
          /\ resetter' = NoThread => resetter = NoThread /\ x # "reset"
    BY <1>0, <1>4 DEF Notify, Update, Enqueue, CallbackEnds, ghosts
  <2> QED BY <1>0, <1>1, <1>2, <1>3, <2>1, CallJoins
<1>5. CASE ResetComponent(t) \/ ResetPort(t) \/ ResetEnds(t)
  <2>1. task[t] = "reset" /\ resetter' = resetter
    BY <1>5 DEF ResetComponent, ResetPort, ResetEnds, Dies, ghosts
  <2>2. resetter # NoThread
    BY <2>1 DEF JoinInv, ReceiversNotify
  <2>3. \E x \in {"none", "remove", "reset"} : task' = [task EXCEPT ![t] = x]
    <3>1. task = [task EXCEPT ![t] = "reset"]
      BY <1>0, <2>1 DEF TInv, Functions
    <3> QED BY <1>5, <3>1 DEF ResetComponent, ResetPort, ResetEnds, Dies, CallbackEnds
  <2> QED BY <1>0, <1>1, <1>2, <1>3, <2>1, <2>2, <2>3, CallJoins
<1> QED BY <1>4, <1>5 DEF Receives

\* Frames and datagrams come.
LEMMA ArrivalJoins ==
  ASSUME TInv, JoinInv,
         \/ \E i \in Port : DatagramArrives(i) \/ SocketIsClosed(i)
         \/ FrameArrives \/ FrameIsDelivered \/ CaptureLoops
  PROVE  Holding' /\ (\A s \in Thread : Joining(s)') /\ RunsStarted' /\ ReceiversNotify'
<1>1. UNCHANGED <<owner, lastId, running, resetter>>
  BY DEF DatagramArrives, SocketIsClosed, FrameArrives, FrameIsDelivered, CaptureLoops, ports, uts,
         ghosts
<1>2. \A i \in Port : ut[i] # "none" => ut'[i] # "none"
  BY DEF DatagramArrives, SocketIsClosed, FrameArrives, FrameIsDelivered, CaptureLoops, uts, TInv,
         UtTypes
<1>3. BreakKept /\ monitor' = monitor
  <2>1. CaptureStep \/ (\E i : Deliver(i)) \/ UNCHANGED muxVars
    BY DEF DatagramArrives, SocketIsClosed, FrameArrives, FrameIsDelivered, CaptureLoops,
           CaptureStep
  <2> QED BY <2>1, CaptureKeeps
<1>4. ASSUME NEW t \in {Capture} \cup Port, task[t] = "none",
             task' = [task EXCEPT ![t] = "notify"], \E y : tPort' = [tPort EXCEPT ![t] = y]
      PROVE  Holding' /\ (\A s \in Thread : Joining(s)') /\ RunsStarted' /\ ReceiversNotify'
  <2>1. t \in Thread
    BY DEF Thread
  <2> QED BY <1>1, <1>2, <1>3, <1>4, <2>1, CallJoins
<1>5. ASSUME NEW i \in Port, DatagramArrives(i)
      PROVE  Holding' /\ (\A s \in Thread : Joining(s)') /\ RunsStarted' /\ ReceiversNotify'
  <2>1. task[i] = "none"
    BY <1>5 DEF DatagramArrives, TInv, Calls
  <2> QED BY <1>4, <1>5, <2>1 DEF DatagramArrives
<1>6. CASE FrameIsDelivered
  <2>1. task[Capture] = "none"
    BY <1>6 DEF FrameIsDelivered, Deliver, TInv, Calls
  <2> QED BY <1>4, <1>6, <2>1 DEF FrameIsDelivered
<1>7. CASE (\E i \in Port : SocketIsClosed(i)) \/ FrameArrives \/ CaptureLoops
  <2>1. task' = task /\ tPort' = tPort
    BY <1>7 DEF SocketIsClosed, FrameArrives, CaptureLoops, calls
  <2>2. OwnersKept /\ UtsKept
    BY <1>1, <1>2 DEF OwnersKept, UtsKept
  <2>3. Holding' /\ \A s \in Thread : Joining(s)'
    BY <1>3, <2>1, <2>2, JoinStill DEF TInv
  <2> QED BY <1>1, <1>2, <2>1, <2>3 DEF JoinInv, RunsStarted, ReceiversNotify
<1> QED BY <1>5, <1>6, <1>7

\* A map request makes the port before it is put in the tables.
LEMMA TablesNext == ASSUME TInv, TablesMade, Next PROVE TablesMade'
<1>0. lastId \in Nat /\ hId \in [Handler -> 0..lastId] /\ portAt \in [Key -> Port \cup {0}]
  BY DEF TInv, ConnTypes, MgrTypes
<1>1. lastId' = lastId \/ lastId' = lastId + 1
  BY DEF Next, HandlerStep, Removes, Receives, Connect, Announce, Lose, EndConnection, StreamEnds,
         Reap, Map, CreatePort, MapAddsComponent, MapAddsPort, Unmapped, SendChecks, SendComposes,
         SendEnds, Proceed, Dies, Unmap, Send, RemoveChecks, RemoveFails, RemoveDisposes,
         RemoveJoins, RemoveDrops, Notify, Update, Enqueue, ResetComponent, ResetPort, ResetEnds,
         DatagramArrives, SocketIsClosed, FrameArrives, FrameIsDelivered, CaptureLoops, ports
<1>2. \/ portAt' = portAt
      \/ \E k \in Key : portAt' = [portAt EXCEPT ![k] = 0]
      \/ \E h \in Handler, k \in Key : portAt' = [portAt EXCEPT ![k] = hId[h]]
  <2>1. ASSUME NEW h \in Handler, MapAddsPort(h)
        PROVE  portAt' = portAt \/ \E k \in Key : portAt' = [portAt EXCEPT ![k] = hId[h]]
    <3>1. AddPort(KeyOf[h], hId[h]) /\ KeyOf[h] \in Key
      BY <2>1, KeyAssumption DEF MapAddsPort
    <3> QED BY <3>1 DEF AddPort
  <2>2. ASSUME NEW t \in Thread, RemoveDrops(t)
        PROVE  \E k \in Key : portAt' = [portAt EXCEPT ![k] = 0]
    <3>1. DropPort(arg[t]) /\ arg[t] \in Key
      BY <2>2 DEF RemoveDrops, TInv, ArgTypes
    <3> QED BY <3>1 DEF DropPort
  <2>3. CASE ~(\E h \in Handler : MapAddsPort(h)) /\ ~(\E t \in Thread : RemoveDrops(t))
    BY <2>3 DEF Next, HandlerStep, Removes, Receives, Connect, Announce, Lose, EndConnection,
         StreamEnds, Reap, Map, CreatePort, MapAddsComponent, Unmapped, SendChecks, SendComposes,
         SendEnds, Proceed, Dies, Unmap, Send, RemoveChecks, RemoveFails, RemoveDisposes,
         RemoveJoins, Notify, Update, Enqueue, ResetComponent, ResetPort, ResetEnds, CallbackEnds,
         DatagramArrives, SocketIsClosed, FrameArrives, FrameIsDelivered, CaptureLoops,
         AddComponent, StopObserving, ClearComponents, mgrVars
  <2> QED BY <2>1, <2>2, <2>3
<1>3. 0..lastId \subseteq 0..lastId'
  BY <1>0, <1>1
<1>4. \A k \in Key : portAt'[k] \in 0..lastId
  BY <1>0, <1>2 DEF TablesMade
<1> QED BY <1>3, <1>4 DEF TablesMade

\* Every step keeps the invariant.
LEMMA JoinNext == ASSUME TInv, JoinInv, [Next]_vars PROVE JoinInv'
<1>1. CASE Next
  <2>1. TablesMade'
    BY <1>1, TablesNext DEF JoinInv
  <2>2. Holding' /\ (\A s \in Thread : Joining(s)') /\ RunsStarted' /\ ReceiversNotify'
    BY <1>1, HandlerJoins, RemovesJoins, ReceivesJoins, ArrivalJoins DEF Next, HStep
  <2> QED BY <2>1, <2>2 DEF JoinInv
<1>2. CASE UNCHANGED vars
  <2>1. UNCHANGED <<monitor, capture, breakReq, portAt, owner, lastId, ut, running, task, tPort,
                    resetter>>
    BY <1>2 DEF vars, muxVars, mgrVars, ports, uts, calls, ghosts
  <2> QED BY <2>1 DEF JoinInv, Joining, Holding, RunsStarted, TablesMade, ReceiversNotify, IsUt,
                      Capturing
<1> QED BY <1>1, <1>2

\* Before the first reset a receiving thread waits for nobody, so that nobody waits for one
\* that waits.
LEMMA NoCircle == ASSUME TInv, JoinInv PROVE NoCircularWait
<1> SUFFICES ASSUME resetter = NoThread, NEW s \in Thread
             PROVE  /\ task[s] = "join" => s \in Handler /\ Ends(Joined(s))
                    /\ NeedsMonitor(s) /\ monitor # NoThread =>
                         task[monitor] = "join" /\ Joined(monitor) = Capture
  BY DEF NoCircularWait
<1>1. ASSUME NEW t \in {Capture} \cup Port
      PROVE  task[t] \notin {"join", "dispose"} /\ ~Waits(t)
  <2>1. task[t] \notin {"join", "dispose"}
    BY DEF JoinInv, ReceiversNotify
  <2>2. t \notin Handler
    BY Threads
  <2> QED BY <2>1, <2>2 DEF Waits, NeedsMonitor
<1>2. ASSUME task[s] = "join" PROVE s \in Handler /\ Ends(Joined(s))
  <2>1. s \in Handler /\ s # NoThread
    BY <1>1, <1>2, Threads, ThreadAssumption
  <2>2. CASE IsUt(tPort[s])
    <3>1. /\ Joined(s) = tPort[s] /\ tPort[s] \in Port
          /\ ut[tPort[s]] # "none" /\ ~running[tPort[s]]
      BY <1>2, <2>2 DEF Joined, JoinInv, Joining, TInv, ConnTypes
    <3> QED BY <1>1, <2>1, <3>1, Threads DEF Ends
  <2>3. CASE ~IsUt(tPort[s])
    <3>1. Joined(s) = Capture /\ monitor = s
      BY <1>2, <2>3 DEF Joined, JoinInv, Joining
    <3>2. Capturing => breakReq
      BY <2>1, <3>1 DEF JoinInv, Holding
    <3> QED BY <1>1, <2>1, <3>1, <3>2 DEF Ends
  <2> QED BY <2>2, <2>3
<1>3. ASSUME monitor # NoThread PROVE task[monitor] = "join" /\ Joined(monitor) = Capture
  BY <1>3 DEF JoinInv, Holding, Joined
<1> QED BY <1>2, <1>3

\* As long as the adapter is not reset no threads wait for each other, also when connections
\* are cut (dispose of the ports, PcapMultiplexer.register and unregister).
THEOREM NobodyWaitsInACircle == Spec => []NoCircularWait
<1>1. Init => TInv /\ JoinInv
  BY TypesInit, JoinInit
<1>2. ASSUME TInv, [Next]_vars PROVE TInv'
  BY <1>2, StutterTypes, HandlerTypes, RemovesTypes, ReceivesTypes, ArrivalTypes DEF Next, HStep
<1>3. ASSUME TInv /\ JoinInv, [Next]_vars PROVE (TInv /\ JoinInv)'
  BY <1>2, <1>3, JoinNext
<1>4. TInv /\ JoinInv => NoCircularWait
  BY NoCircle
<1> QED BY <1>1, <1>3, <1>4, PTL DEF Spec
=============================================================================
