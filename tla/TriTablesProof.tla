--------------------------- MODULE TriTablesProof ----------------------------
(***************************************************************************)
(* Proof that the tables of the mapper and of the adapter agree on every    *)
(* mapped port, that nothing goes on receiving after its unmap, that no     *)
(* late answer resets the adapter and that packets leave through an open     *)
(* handle, for any number of connections and port objects.                  *)
(*                                                                         *)
(* All this holds while no connection was cut and the adapter was not reset  *)
(* (Calm).  Then a port object belongs to the handler that made it, no two  *)
(* handlers work for the same port and a component has one request at a     *)
(* time: what the tables hold can be read off the program counters of the   *)
(* handlers.                                                                *)
(***************************************************************************)
EXTENDS TriAdapter, TLAPS

Calm == cuts = 0 /\ resetter = NoThread

Removing == {"remove", "dispose", "join", "drop"}
Receiver == {Capture} \cup Port
Receiving == {"notify", "update", "enqueue"}
Listens(i) == ut[i] \in {"wait", "callback"}

\* The handler works on a port, or has one.
Active(h) == hPc[h] \in Busy \cup {"mapped"}

\* Its port is in the table of the adapter.
Held(h) == hPc[h] = "mapped" \/ (hPc[h] = "unmapping" /\ task[h] # "none")

\* Its port object may receive, or is about to be told to stop.
Attached(h) ==
  \/ hPc[h] \in {"addComp", "addPort", "mapped"}
  \/ hPc[h] = "unmapping" /\ task[h] \in {"remove", "dispose"}

Gone(h) == hPc[h] \in {"new", "dead"} \/ h \in lost
Owned(i) == owner[i] \in Handler /\ hId[owner[i]] = i

-----------------------------------------------------------------------------
(* The invariant.                                                           *)

IsFn(f, S) == f = [s \in S |-> f[s]]

Shapes ==
  /\ IsFn(hPc, Handler) /\ IsFn(hId, Handler) /\ IsFn(dbTsi, Handler)
  /\ IsFn(tsiOf, Port) /\ IsFn(owner, Port) /\ IsFn(portAt, Key)
  /\ IsFn(ut, Port) /\ IsFn(running, Port)
  /\ IsFn(task, Thread) /\ IsFn(tPort, Thread)
  /\ lost \subseteq Handler

\* A port id belongs to the handler it was made for.
Ids ==
  /\ lastId \in Nat
  /\ \A h \in Handler :
       /\ dbTsi[h] \in {0, hId[h]}
       /\ hId[h] # 0 => hId[h] \in Port /\ hId[h] <= lastId /\ owner[hId[h]] = h
       /\ Active(h) => hId[h] # 0

Calls ==
  \A h \in Handler :
    /\ arg[h] = KeyOf[h]
    /\ task[h] \in {"none"} \cup Sending \cup Removing
    /\ task[h] \in Sending => hPc[h] = "mapped"
    /\ task[h] \in Removing => hPc[h] = "unmapping"

Mux ==
  /\ monitor # NoThread => clients = {}
  /\ clients # {} => open = TRUE

\* Nobody was cut while it had a port, no two connections are for the same port, and a
\* component makes one request at a time.
Connections ==
  /\ \A h \in lost : hPc[h] \in {"unmapped", "dead"}
  /\ \A g, h \in Handler : g # h /\ KeyOf[g] = KeyOf[h] => Gone(g) \/ Gone(h)
  /\ \A g, h \in Handler :
       g # h /\ KeyOf[g].comp = KeyOf[h].comp => hPc[g] \notin Busy \/ hPc[h] \notin Busy

Routes == \A h \in Handler : Active(h) => tsiOf[hId[h]] = h

Tables ==
  /\ comps = lists
  /\ \A h \in Handler :
       /\ Held(h) => portAt[KeyOf[h]] = hId[h]
       /\ Held(h) \/ hPc[h] = "addPort" => KeyOf[h].comp \in comps
       /\ hPc[h] = "mapped" \/ task[h] = "remove" => hId[h] \in observed
  /\ \A k \in Key : portAt[k] # 0 => \E h \in Handler : KeyOf[h] = k /\ Held(h)

Works ==
  \A h \in Handler :
    /\ task[h] \in Sending \cup {"dispose", "join", "drop"} => tPort[h] = hId[h]
    /\ task[h] \in {"compose", "transmit"} => hId[h] \in clients
    /\ Attached(h) /\ IsUt(hId[h]) => running[hId[h]] = TRUE

Receivers ==
  /\ \A t \in Receiver : task[t] \in {"none"} \cup Receiving
  /\ \A i \in Port : task[i] # "none" => tPort[i] = i /\ ut[i] = "callback"
  /\ \A i \in Port :
       Listens(i) => Owned(i) /\ IsUt(i) /\ (Attached(owner[i]) \/ task[owner[i]] = "join")
  /\ \A i \in clients : Owned(i) /\ ~IsUt(i) /\ Attached(owner[i])

CalmInv ==
  /\ Shapes /\ Ids /\ Calls /\ Mux
  /\ Connections /\ Routes /\ Tables /\ Works /\ Receivers

\* The rest of it says that what is not calm stays so, and who may have reset the adapter.
Inv ==
  /\ cuts \in Nat
  /\ resetter \in Port => cuts > 0
  /\ Calm => CalmInv

-----------------------------------------------------------------------------
(* Facts about the constants, functions and ports.                          *)

\* Port objects are numbered from 1; 0 is no port.
LEMMA PortFacts == Port \subseteq Nat /\ 0 \notin Port
<1>1. Port = 1..Cardinality(Port)
  BY PortAssumption
<1> DEFINE n == Cardinality(Port)
<1> HIDE DEF n
<1>2. \A i \in 1..n : i \in Nat /\ i # 0
  BY SMT
<1> QED BY <1>1, <1>2 DEF n

\* The handlers and the receiving threads are different threads.
LEMMA ThreadFacts ==
  /\ Handler \subseteq Thread /\ Receiver \subseteq Thread /\ Thread = Handler \cup Receiver
  /\ Handler \cap Receiver = {} /\ Capture \notin Port
  /\ NoThread \notin Thread
BY ThreadAssumption DEF Thread, Receiver

\* What an assignment to one element of a function does.
LEMMA Assign ==
  ASSUME NEW f, NEW S, IsFn(f, S), NEW t \in S, NEW y, NEW g, g = [f EXCEPT ![t] = y]
  PROVE  IsFn(g, S) /\ g[t] = y /\ \A s \in S \ {t} : g[s] = f[s]
<1>1. DOMAIN f = S
  BY DEF IsFn
<1>2. g = [s \in S |-> IF s = t THEN y ELSE f[s]]
  BY <1>1
<1> QED BY <1>2 DEF IsFn

\* The key of a connection is told by its component and its name.
LEMMA KeyFacts ==
  ASSUME NEW g \in Handler, NEW h \in Handler
  PROVE  /\ KeyOf[g] \in Key /\ KeyOf[g].comp \in Component /\ KeyOf[g].name \in PortName
         /\ KeyOf[g] = [comp |-> KeyOf[g].comp, name |-> KeyOf[g].name]
         /\ KeyOf[g].comp = KeyOf[h].comp /\ KeyOf[g] # KeyOf[h] => KeyOf[g].name # KeyOf[h].name
<1>1. KeyOf[g] \in Key /\ KeyOf[h] \in Key
  BY KeyAssumption
<1> DEFINE j == KeyOf[g]
           k == KeyOf[h]
<1>2. j \in Key /\ k \in Key
  BY <1>1
<1> HIDE DEF j, k
<1>3. /\ j.comp \in Component /\ j.name \in PortName /\ j = [comp |-> j.comp, name |-> j.name]
      /\ k = [comp |-> k.comp, name |-> k.name]
  BY <1>2 DEF Key
<1>4. j.comp = k.comp /\ j # k => j.name # k.name
  BY <1>3
<1> QED BY <1>2, <1>3, <1>4 DEF j, k

\* Different handlers have different port ids.
LEMMA OtherPort ==
  ASSUME Ids, NEW g \in Handler, NEW h \in Handler, g # h, hId[g] # 0
  PROVE  hId[g] # hId[h]
BY DEF Ids

\* Two handlers that have a port have different ones.
LEMMA OtherKey ==
  ASSUME Connections, NEW g \in Handler, NEW h \in Handler, g # h, Active(g), Active(h)
  PROVE  KeyOf[g] # KeyOf[h]
BY DEF Connections, Gone, Active, Busy

\* Who is in a call, or has its port in a table, has a port.
LEMMA Active1 ==
  ASSUME NEW h \in Handler, Calls
  PROVE  /\ Held(h) => Active(h)
         /\ Attached(h) => Active(h)
         /\ task[h] # "none" => Active(h)
BY DEF Calls, Held, Attached, Active, Busy, Removing

\* What is said of a handler depends on its own state.
LEMMA OthersSame ==
  ASSUME NEW g, hPc'[g] = hPc[g], task'[g] = task[g]
  PROVE  /\ Active(g)' <=> Active(g)
         /\ Held(g)' <=> Held(g)
         /\ Attached(g)' <=> Attached(g)
BY DEF Active, Held, Attached

\* Nothing is mapped at the start.
LEMMA CalmInit == Init => CalmInv
<1> SUFFICES ASSUME Init PROVE CalmInv
  OBVIOUS
<1>1. Shapes
  BY DEF Init, Shapes, IsFn, MgrInit
<1>2. \A h \in Handler : hPc[h] = "new" /\ hId[h] = 0 /\ dbTsi[h] = 0
  BY DEF Init
<1>3. \A t \in Thread : task[t] = "none"
  BY DEF Init
<1>4. \A h \in Handler : arg[h] = KeyOf[h]
  BY ThreadFacts DEF Init
<1>5. \A i \in Port : ut[i] = "none"
  BY DEF Init
<1>6. \A k \in Key : portAt[k] = 0
  BY DEF Init, MgrInit
<1>7. lost = {} /\ lastId = 0 /\ clients = {} /\ monitor = NoThread /\ comps = {} /\ lists = {}
  BY DEF Init, MgrInit, MuxInit
<1>8. \A h \in Handler : ~Active(h) /\ ~Held(h) /\ ~Attached(h) /\ task[h] = "none"
  BY <1>2, <1>3, ThreadFacts DEF Active, Held, Attached, Busy
<1>9. Ids
  BY <1>2, <1>7, <1>8 DEF Ids
<1>10. Calls
  BY <1>4, <1>8 DEF Calls, Sending, Removing
<1>11. Mux /\ Connections /\ Routes
  BY <1>2, <1>7, <1>8 DEF Mux, Connections, Routes, Gone, Busy
<1>12. Tables
  BY <1>2, <1>6, <1>7, <1>8 DEF Tables
<1>13. Works
  BY <1>8 DEF Works, Sending
<1>14. Receivers
  BY <1>3, <1>5, <1>7, ThreadFacts DEF Receivers, Receiver, Listens
<1> QED BY <1>1, <1>9, <1>10, <1>11, <1>12, <1>13, <1>14 DEF CalmInv

-----------------------------------------------------------------------------
(* The receiving threads change nothing but their own calls.                *)

ReceiverFrame ==
  /\ UNCHANGED <<hPc, hId, lost, mapper, ports, mgrVars, running, arg>>
  /\ UNCHANGED <<clients, open, monitor>>

\* Such a step keeps the invariant when an upper tester's thread stays with its own port.
LEMMA ReceiverActs ==
  ASSUME CalmInv, ReceiverFrame, NEW t \in Receiver,
         NEW x \in {"none"} \cup Receiving, NEW y, NEW u,
         task' = [task EXCEPT ![t] = x],
         tPort' = [tPort EXCEPT ![t] = y],
         ut' = ut \/ (t \in Port /\ ut' = [ut EXCEPT ![t] = u]),
         t \in Port /\ x # "none" => y = t /\ ut'[t] = "callback",
         t \in Port /\ Listens(t)' => Listens(t)
  PROVE  CalmInv'
<1>1. Shapes /\ Ids /\ Calls /\ Mux /\ Connections /\ Routes /\ Tables /\ Works /\ Receivers
  BY DEF CalmInv
<1>2. t \in Thread
  BY ThreadFacts
<1>3. IsFn(task', Thread) /\ task'[t] = x /\ \A s \in Thread \ {t} : task'[s] = task[s]
  BY <1>1, <1>2 DEF Shapes, IsFn
<1>4. IsFn(tPort', Thread) /\ tPort'[t] = y /\ \A s \in Thread \ {t} : tPort'[s] = tPort[s]
  BY <1>1, <1>2 DEF Shapes, IsFn
<1>5. IsFn(ut', Port) /\ \A s \in Port \ {t} : ut'[s] = ut[s]
  <2>1. CASE ut' = ut
    BY <1>1, <2>1 DEF Shapes
  <2>2. CASE t \in Port /\ ut' = [ut EXCEPT ![t] = u]
    BY <1>1, <2>2 DEF Shapes, IsFn
  <2> QED BY <2>1, <2>2
<1>6. \A h \in Handler : task'[h] = task[h] /\ tPort'[h] = tPort[h]
  BY <1>3, <1>4, ThreadFacts
<1>7. /\ hPc' = hPc /\ hId' = hId /\ lost' = lost /\ dbTsi' = dbTsi /\ tsiOf' = tsiOf
      /\ owner' = owner /\ lastId' = lastId /\ comps' = comps /\ lists' = lists
      /\ portAt' = portAt /\ observed' = observed /\ running' = running /\ arg' = arg
      /\ clients' = clients /\ open' = open /\ monitor' = monitor
  BY DEF ReceiverFrame, mapper, ports, mgrVars
<1>8. \A h \in Handler : /\ Active(h)' <=> Active(h)
                         /\ Held(h)' <=> Held(h)
                         /\ Attached(h)' <=> Attached(h)
  BY <1>6, <1>7 DEF Active, Held, Attached
<1>9. Shapes'
  BY <1>1, <1>3, <1>4, <1>5, <1>7 DEF Shapes
<1>10. Ids' /\ Mux' /\ Routes'
  BY <1>1, <1>7, <1>8 DEF Ids, Mux, Routes
<1>11. Calls'
  BY <1>1, <1>6, <1>7 DEF Calls
<1>12. Connections'
  BY <1>1, <1>7 DEF Connections, Gone
<1>13. Tables'
  BY <1>1, <1>6, <1>7, <1>8 DEF Tables
<1>14. \A i : IsUt(i)' <=> IsUt(i)
  BY <1>7 DEF IsUt
<1>15. Works'
  BY <1>1, <1>6, <1>7, <1>8, <1>14 DEF Works
<1>16. \A i : Owned(i)' <=> Owned(i)
  BY <1>7 DEF Owned
<1>17. \A s \in Receiver : task'[s] \in {"none"} \cup Receiving
  BY <1>1, <1>3, ThreadFacts DEF Receivers
<1>18. \A i \in Port : task'[i] # "none" => tPort'[i] = i /\ ut'[i] = "callback"
  <2> SUFFICES ASSUME NEW i \in Port, task'[i] # "none"
               PROVE  tPort'[i] = i /\ ut'[i] = "callback"
    OBVIOUS
  <2>0. i \in Thread
    BY ThreadFacts DEF Receiver
  <2>1. CASE i = t
    BY <1>3, <1>4, <2>1
  <2>2. CASE i # t
    BY <1>1, <1>3, <1>4, <1>5, <2>0, <2>2 DEF Receivers
  <2> QED BY <2>1, <2>2
<1>19. \A i \in Port : Listens(i)' => Listens(i)
  BY <1>5 DEF Listens
<1>20. \A i \in Port : Listens(i)' =>
         Owned(i)' /\ IsUt(i)' /\ (Attached(owner[i]) \/ task[owner[i]] = "join")'
  <2> SUFFICES ASSUME NEW i \in Port, Listens(i)'
               PROVE  Owned(i)' /\ IsUt(i)' /\ (Attached(owner[i]) \/ task[owner[i]] = "join")'
    OBVIOUS
  <2>1. Owned(i) /\ IsUt(i) /\ (Attached(owner[i]) \/ task[owner[i]] = "join")
    BY <1>1, <1>19 DEF Receivers
  <2>2. owner[i] \in Handler
    BY <2>1 DEF Owned
  <2>3. task'[owner[i]] = task[owner[i]] /\ (Attached(owner[i])' <=> Attached(owner[i]))
    BY <1>6, <1>7, <2>2 DEF Attached
  <2>4. Owned(i)' /\ IsUt(i)'
    BY <1>14, <1>16, <2>1
  <2> QED BY <1>7, <2>1, <2>3, <2>4
<1>21. \A i \in clients' : Owned(i)' /\ ~IsUt(i)' /\ Attached(owner[i])'
  <2> SUFFICES ASSUME NEW i \in clients PROVE Owned(i)' /\ ~IsUt(i)' /\ Attached(owner[i])'
    BY <1>7
  <2>1. Owned(i) /\ ~IsUt(i) /\ Attached(owner[i])
    BY <1>1 DEF Receivers
  <2>2. Attached(owner[i])'
    BY <1>6, <1>7, <2>1 DEF Owned, Attached
  <2> QED BY <1>14, <1>16, <2>1, <2>2
<1>22. Receivers'
  BY <1>17, <1>18, <1>20, <1>21 DEF Receivers
<1> QED BY <1>9, <1>10, <1>11, <1>12, <1>13, <1>15, <1>22 DEF CalmInv

\* The return from a callback.
LEMMA CallbackEndsStep ==
  ASSUME CalmInv, ReceiverFrame, NEW t \in Receiver, CallbackEnds(t), task[t] # "none"
  PROVE  CalmInv'
<1>1. /\ task' = [task EXCEPT ![t] = "none"]
      /\ tPort' = [tPort EXCEPT ![t] = 0]
  BY DEF CallbackEnds
<1>2. CASE t = Capture
  BY <1>1, <1>2, ReceiverActs, ThreadFacts DEF CallbackEnds
<1>3. CASE t \in Port
  <2>1. Listens(t)
    BY <1>3 DEF CalmInv, Receivers, Listens
  <2>2. ut' = [ut EXCEPT ![t] = IF running[t] THEN "wait" ELSE "ended"]
    BY <1>3, ThreadFacts DEF CallbackEnds
  <2> DEFINE u == IF running[t] THEN "wait" ELSE "ended"
  <2>3. ut' = [ut EXCEPT ![t] = u]
    BY <2>2
  <2> HIDE DEF u
  <2> QED BY <1>1, <1>3, <2>1, <2>3, ReceiverActs
<1> QED BY <1>2, <1>3 DEF Receiver

\* notifyObservers: the frame or the datagram is given up, or passed on.
LEMMA NotifyStep == ASSUME CalmInv, NEW t \in Receiver, Notify(t) PROVE CalmInv'
<1>1. UNCHANGED <<mgrVars, hPc, hId, lost, mapper, ports, running, arg>> /\ task[t] = "notify"
  BY DEF Notify, handlers
<1>2. CASE tPort[t] \in observed
  <2>1. task' = [task EXCEPT ![t] = "update"] /\ UNCHANGED <<muxVars, ut, tPort>>
    BY <1>2 DEF Notify
  <2>2. ReceiverFrame
    BY <1>1, <2>1 DEF ReceiverFrame, muxVars
  <2>3. tPort' = [tPort EXCEPT ![t] = tPort[t]]
    BY <2>1, ThreadFacts DEF CalmInv, Shapes, IsFn
  <2>4. t \in Port => tPort[t] = t /\ ut'[t] = "callback" /\ Listens(t)
    BY <1>1, <2>1 DEF CalmInv, Receivers, Listens
  <2>5. ut' = ut /\ "update" \in {"none"} \cup Receiving
    BY <2>1 DEF Receiving
  <2> QED BY <2>1, <2>2, <2>3, <2>4, <2>5, ReceiverActs
<1>3. CASE tPort[t] \notin observed
  <2>1. CallbackEnds(t)
    BY <1>3 DEF Notify
  <2>2. clients' = clients /\ open' = open /\ monitor' = monitor
    BY <2>1 DEF CallbackEnds, CallbackReturns, muxVars
  <2>3. ReceiverFrame
    BY <1>1, <2>2 DEF ReceiverFrame
  <2> QED BY <1>1, <2>1, <2>3, CallbackEndsStep
<1> QED BY <1>2, <1>3

\* A listening port is the one of a handler that has a port.
LEMMA OwnerActive ==
  ASSUME CalmInv, NEW i \in Port, Listens(i)
  PROVE  owner[i] \in Handler /\ hId[owner[i]] = i /\ Active(owner[i])
<1>1. Owned(i) /\ (Attached(owner[i]) \/ task[owner[i]] = "join")
  BY DEF CalmInv, Receivers
<1>2. owner[i] \in Handler /\ hId[owner[i]] = i
  BY <1>1 DEF Owned
<1>3. Attached(owner[i]) \/ task[owner[i]] # "none"
  BY <1>1
<1> QED BY <1>2, <1>3, Active1 DEF CalmInv

\* update finds the port of the upper tester itself under its names.
LEMMA UpdateStep == ASSUME CalmInv, NEW t \in Receiver, Update(t) PROVE CalmInv'
<1> DEFINE k == KeyOf[owner[tPort[t]]]
<1>1. UNCHANGED <<mgrVars, hPc, hId, lost, mapper, ports, running, arg>> /\ task[t] = "update"
  BY DEF Update, handlers
<1>2. CASE Known(k)
  <2>1. /\ task' = [task EXCEPT ![t] = "enqueue"] /\ UNCHANGED <<muxVars, ut>>
        /\ tPort' = [tPort EXCEPT ![t] = portAt[k]]
    BY <1>2 DEF Update
  <2>2. ReceiverFrame
    BY <1>1, <2>1 DEF ReceiverFrame, muxVars
  <2>3. t \in Port => portAt[k] = t /\ ut'[t] = "callback" /\ Listens(t)
    <3> SUFFICES ASSUME t \in Port PROVE portAt[k] = t /\ ut'[t] = "callback" /\ Listens(t)
      OBVIOUS
    <3>1. tPort[t] = t /\ ut[t] = "callback" /\ Listens(t)
      BY <1>1 DEF CalmInv, Receivers, Listens
    <3> DEFINE g == owner[t]
    <3>2. g \in Handler /\ hId[g] = t /\ Active(g) /\ k = KeyOf[g]
      BY <3>1, OwnerActive
    <3>3. k \in Key
      BY <3>2, KeyFacts
    <3>4. PICK h \in Handler : KeyOf[h] = k /\ Held(h)
      BY <1>2, <3>3 DEF Known, CalmInv, Tables
    <3> HIDE DEF g, k
    <3>5. h = g
      BY <3>2, <3>4, OtherKey, Active1 DEF CalmInv
    <3>6. portAt[k] = t
      BY <3>2, <3>4, <3>5 DEF CalmInv, Tables
    <3> QED BY <2>1, <3>1, <3>6
  <2>5. ut' = ut /\ "enqueue" \in {"none"} \cup Receiving
    BY <2>1 DEF Receiving
  <2> HIDE DEF k
  <2> QED BY <2>1, <2>2, <2>3, <2>5, ReceiverActs
<1>3. CASE ~Known(k)
  <2>1. CallbackEnds(t)
    BY <1>3 DEF Update
  <2>2. clients' = clients /\ open' = open /\ monitor' = monitor
    BY <2>1 DEF CallbackEnds, CallbackReturns, muxVars
  <2>3. ReceiverFrame
    BY <1>1, <2>2 DEF ReceiverFrame
  <2> QED BY <1>1, <2>1, <2>3, CallbackEndsStep
<1> QED BY <1>2, <1>3

\* An answer of the upper tester finds its handler.
LEMMA PortFindsHandler ==
  ASSUME CalmInv, NEW i \in Port, task[i] = "enqueue"
  PROVE  tsiOf[tPort[i]] # NoThread
<1>1. tPort[i] = i /\ Listens(i)
  BY DEF CalmInv, Receivers, Listens
<1>2. owner[i] \in Handler /\ hId[owner[i]] = i /\ Active(owner[i])
  BY <1>1, OwnerActive
<1>3. tsiOf[i] = owner[i]
  BY <1>2 DEF CalmInv, Routes
<1> QED BY <1>1, <1>2, <1>3, ThreadFacts

\* The message finds its handler, or the adapter is reset.
LEMMA EnqueueStep ==
  ASSUME CalmInv, NEW t \in Receiver, Enqueue(t), resetter = NoThread, resetter' = NoThread
  PROVE  CalmInv'
<1>1. UNCHANGED <<mgrVars, hPc, hId, lost, mapper, ports, running, arg>> /\ task[t] = "enqueue"
  BY DEF Enqueue, handlers
<1>2. CASE tsiOf[tPort[t]] = NoThread
  <2>1. resetter' = t
    BY <1>2 DEF Enqueue
  <2> QED BY <2>1, ThreadFacts
<1>3. CASE tsiOf[tPort[t]] # NoThread
  <2>1. CallbackEnds(t)
    BY <1>3 DEF Enqueue
  <2>2. clients' = clients /\ open' = open /\ monitor' = monitor
    BY <2>1 DEF CallbackEnds, CallbackReturns, muxVars
  <2>3. ReceiverFrame
    BY <1>1, <2>2 DEF ReceiverFrame
  <2> QED BY <1>1, <2>1, <2>3, CallbackEndsStep
<1> QED BY <1>2, <1>3

\* A datagram comes to the thread of its own port.
LEMMA DatagramStep == ASSUME CalmInv, NEW i \in Port, DatagramArrives(i) PROVE CalmInv'
<1>1. /\ task' = [task EXCEPT ![i] = "notify"] /\ tPort' = [tPort EXCEPT ![i] = i]
      /\ ut' = [ut EXCEPT ![i] = "callback"] /\ Listens(i)
  BY DEF DatagramArrives, Listens
<1>2. ReceiverFrame
  BY DEF DatagramArrives, ReceiverFrame, handlers, muxVars
<1>3. ut'[i] = "callback"
  BY <1>1 DEF CalmInv, Shapes, IsFn
<1>4. i \in Receiver /\ "notify" \in {"none"} \cup Receiving
  BY DEF Receiver, Receiving
<1> QED BY <1>1, <1>2, <1>3, <1>4, ReceiverActs

\* A step that leaves the call of a thread as it is.
LEMMA NoCall ==
  ASSUME CalmInv, NEW t \in Thread
  PROVE  [task EXCEPT ![t] = task[t]] = task /\ [tPort EXCEPT ![t] = tPort[t]] = tPort
BY DEF CalmInv, Shapes, IsFn

\* A closed socket ends its thread.
LEMMA SocketStep == ASSUME CalmInv, NEW i \in Port, SocketIsClosed(i) PROVE CalmInv'
<1>1. /\ task' = task /\ tPort' = tPort /\ ut' = [ut EXCEPT ![i] = "ended"] /\ ut[i] = "wait"
      /\ Listens(i)
  BY DEF SocketIsClosed, calls, Listens
<1>2. ReceiverFrame
  BY DEF SocketIsClosed, ReceiverFrame, handlers, muxVars, calls
<1>3. task[i] = "none"
  BY <1>1 DEF CalmInv, Receivers
<1>4. i \in Receiver /\ i \in Thread
  BY ThreadFacts DEF Receiver
<1> DEFINE x == task[i]
           y == tPort[i]
<1>5. task' = [task EXCEPT ![i] = x] /\ tPort' = [tPort EXCEPT ![i] = y] /\ x = "none"
  BY <1>1, <1>3, <1>4, NoCall
<1> HIDE DEF x, y
<1> QED BY <1>1, <1>2, <1>4, <1>5, ReceiverActs

\* The capture thread only passes frames on.
LEMMA CaptureStep ==
  ASSUME CalmInv, FrameArrives \/ FrameIsDelivered \/ CaptureLoops
  PROVE  CalmInv'
<1>1. ReceiverFrame /\ ut' = ut
  BY DEF FrameArrives, FrameIsDelivered, CaptureLoops, Dispatch, Deliver, DispatchEnds,
         DispatchFails, LoopEnds, ReceiverFrame, handlers, uts, calls
<1>2. Capture \in Receiver /\ Capture \in Thread /\ Capture \notin Port
  BY ThreadFacts DEF Receiver
<1>3. CASE FrameIsDelivered
  <2>1. PICK i \in pending : tPort' = [tPort EXCEPT ![Capture] = i]
    BY <1>3 DEF FrameIsDelivered
  <2>2. task' = [task EXCEPT ![Capture] = "notify"] /\ "notify" \in {"none"} \cup Receiving
    BY <1>3 DEF FrameIsDelivered, Receiving
  <2> QED BY <1>1, <1>2, <2>1, <2>2, ReceiverActs
<1>4. CASE FrameArrives \/ CaptureLoops
  <2>1. task' = task /\ tPort' = tPort
    BY <1>4 DEF FrameArrives, CaptureLoops, calls
  <2> DEFINE x == task[Capture]
             y == tPort[Capture]
  <2>2. task' = [task EXCEPT ![Capture] = x] /\ tPort' = [tPort EXCEPT ![Capture] = y]
    BY <1>2, <2>1, NoCall
  <2>3. x \in {"none"} \cup Receiving
    BY <1>2 DEF CalmInv, Receivers
  <2> HIDE DEF x, y
  <2> QED BY <1>1, <1>2, <2>2, <2>3, ReceiverActs
<1> QED BY <1>3, <1>4

-----------------------------------------------------------------------------
(* The connections come and go when they have no port.                      *)

\* Such a step keeps the tables: it may forget a port id that nobody uses.
LEMMA ConnectionActs ==
  ASSUME CalmInv, NEW h \in Handler, NEW p,
         UNCHANGED <<muxVars, mgrVars, hId, ports, uts, calls>>,
         hPc' = [hPc EXCEPT ![h] = p],
         hPc[h] \notin {"create", "addComp", "addPort", "mapped"},
         hPc[h] = "unmapping" => task[h] = "none", p \notin Busy \cup {"mapped"},
         IsFn(dbTsi', Handler), \A g \in Handler : dbTsi'[g] \in {0, hId[g]},
         \/ tsiOf' = tsiOf
         \/ hId[h] # 0 /\ tsiOf' = [tsiOf EXCEPT ![hId[h]] = NoThread],
         lost' \subseteq Handler, Connections'
  PROVE  CalmInv'
<1>1. Shapes /\ Ids /\ Calls /\ Mux /\ Connections /\ Routes /\ Tables /\ Works /\ Receivers
  BY DEF CalmInv
<1>2. IsFn(hPc', Handler) /\ hPc'[h] = p /\ \A g \in Handler \ {h} : hPc'[g] = hPc[g]
  BY <1>1 DEF Shapes, IsFn
<1>3. /\ clients' = clients /\ monitor' = monitor /\ open' = open
      /\ comps' = comps /\ lists' = lists /\ portAt' = portAt /\ observed' = observed
      /\ hId' = hId /\ owner' = owner /\ lastId' = lastId /\ ut' = ut /\ running' = running
      /\ task' = task /\ tPort' = tPort /\ arg' = arg
  BY DEF muxVars, mgrVars, ports, uts, calls
<1>4. task[h] = "none" /\ ~Held(h) /\ ~Attached(h)
  BY <1>1 DEF Calls, Held, Attached, Sending, Removing
<1>5. ~Active(h)' /\ ~Held(h)' /\ ~Attached(h)' /\ hPc'[h] \notin {"mapped", "addPort"}
  BY <1>2 DEF Active, Held, Attached, Busy
<1>6. \A g \in Handler : /\ Active(g)' => Active(g) /\ g # h
                         /\ Held(g)' <=> Held(g)
                         /\ Attached(g)' <=> Attached(g)
  <2> SUFFICES ASSUME NEW g \in Handler
               PROVE  /\ Active(g)' => Active(g) /\ g # h
                      /\ Held(g)' <=> Held(g)
                      /\ Attached(g)' <=> Attached(g)
    OBVIOUS
  <2>1. CASE g = h
    BY <1>4, <1>5, <2>1
  <2>2. CASE g # h
    BY <1>2, <1>3, <2>2, OthersSame
  <2> QED BY <2>1, <2>2
<1>7. IsFn(tsiOf', Port) /\ \A i \in Port \ {hId[h]} : tsiOf'[i] = tsiOf[i]
  <2>1. CASE tsiOf' = tsiOf
    BY <1>1, <2>1 DEF Shapes
  <2>2. CASE hId[h] # 0 /\ tsiOf' = [tsiOf EXCEPT ![hId[h]] = NoThread]
    <3>1. hId[h] \in Port
      BY <1>1, <2>2 DEF Ids
    <3> QED BY <1>1, <2>2, <3>1 DEF Shapes, IsFn
  <2> QED BY <2>1, <2>2
<1>8. Shapes'
  BY <1>1, <1>2, <1>3, <1>7 DEF Shapes
<1>9. Ids' /\ Mux'
  BY <1>1, <1>3, <1>6 DEF Ids, Mux
<1>10. Calls'
  <2> SUFFICES ASSUME NEW g \in Handler
               PROVE  /\ arg'[g] = KeyOf[g]
                      /\ task'[g] \in {"none"} \cup Sending \cup Removing
                      /\ task'[g] \in Sending => hPc'[g] = "mapped"
                      /\ task'[g] \in Removing => hPc'[g] = "unmapping"
    BY DEF Calls
  <2>1. CASE g = h
    BY <1>1, <1>3, <1>4, <2>1 DEF Calls, Sending, Removing
  <2>2. CASE g # h
    BY <1>1, <1>2, <1>3, <2>2 DEF Calls
  <2> QED BY <2>1, <2>2
<1>11. Routes'
  <2> SUFFICES ASSUME NEW g \in Handler, Active(g), g # h PROVE tsiOf'[hId[g]] = g
    BY <1>3, <1>6 DEF Routes
  <2>1. hId[g] \in Port /\ hId[g] # 0
    BY <1>1 DEF Ids
  <2>2. hId[g] # hId[h]
    BY <1>1, <2>1, OtherPort
  <2> QED BY <1>1, <1>7, <2>1, <2>2 DEF Routes
<1>12. \A g \in Handler : /\ hPc'[g] = "mapped" <=> hPc[g] = "mapped"
                          /\ hPc'[g] = "addPort" <=> hPc[g] = "addPort"
  BY <1>2, <1>5
<1>13. Tables'
  BY <1>1, <1>3, <1>6, <1>12 DEF Tables
<1>14. \A i : (IsUt(i)' <=> IsUt(i)) /\ (Owned(i)' <=> Owned(i)) /\ (Listens(i)' <=> Listens(i))
  BY <1>3 DEF IsUt, Owned, Listens
<1>15. Works'
  BY <1>1, <1>3, <1>6, <1>14 DEF Works
<1>16. \A i : Owned(i) => (Attached(owner[i])' <=> Attached(owner[i]))
  BY <1>3, <1>6 DEF Owned, Attached
<1>17. Receivers'
  BY <1>1, <1>3, <1>14, <1>16 DEF Receivers
<1> QED BY <1>8, <1>9, <1>10, <1>11, <1>13, <1>15, <1>17 DEF CalmInv

\* A connection whose handler stays where it is.
LEMMA NoMove ==
  ASSUME CalmInv, NEW h \in Handler
  PROVE  [hPc EXCEPT ![h] = hPc[h]] = hPc
BY DEF CalmInv, Shapes, IsFn

\* Only Connect can make two connections for a port, and its guard excludes it.
LEMMA ConnectStep == ASSUME CalmInv, NEW h \in Handler, Connect(h) PROVE CalmInv'
<1>1. Shapes /\ Ids /\ Connections
  BY DEF CalmInv
<1>2. /\ hPc[h] = "new" /\ hPc' = [hPc EXCEPT ![h] = "unmapped"]
      /\ \A g \in Handler \ {h} : KeyOf[g] = KeyOf[h] => Gone(g)
      /\ lost' = lost
      /\ UNCHANGED <<muxVars, mgrVars, hId, ports, uts, calls, dbTsi, tsiOf>>
  BY DEF Connect, Gone, mapper
<1>3. hPc'[h] = "unmapped" /\ \A g \in Handler \ {h} : hPc'[g] = hPc[g]
  BY <1>1, <1>2 DEF Shapes, IsFn
<1>4. \A g \in Handler \ {h} : Gone(g)' <=> Gone(g)
  BY <1>2, <1>3 DEF Gone
<1>5. lost' \subseteq Handler
  BY <1>1, <1>2 DEF Shapes
<1>6. \A g \in lost' : hPc'[g] \in {"unmapped", "dead"}
  <2> SUFFICES ASSUME NEW g \in lost PROVE hPc'[g] \in {"unmapped", "dead"}
    BY <1>2
  <2>1. hPc[g] \in {"unmapped", "dead"}
    BY <1>1 DEF Connections
  <2>2. g # h /\ g \in Handler
    BY <1>1, <1>2, <2>1 DEF Shapes
  <2> QED BY <1>3, <2>1, <2>2
<1>7. \A g, k \in Handler : g # k /\ KeyOf[g] = KeyOf[k] => Gone(g)' \/ Gone(k)'
  <2> SUFFICES ASSUME NEW g \in Handler, NEW k \in Handler, g # k, KeyOf[g] = KeyOf[k]
               PROVE  Gone(g)' \/ Gone(k)'
    OBVIOUS
  <2>1. CASE g = h
    BY <1>2, <1>4, <2>1
  <2>2. CASE k = h
    BY <1>2, <1>4, <2>2
  <2>3. CASE g # h /\ k # h
    BY <1>1, <1>4, <2>3 DEF Connections
  <2> QED BY <2>1, <2>2, <2>3
<1>8. \A g, k \in Handler :
        g # k /\ KeyOf[g].comp = KeyOf[k].comp => hPc'[g] \notin Busy \/ hPc'[k] \notin Busy
  BY <1>1, <1>3 DEF Connections, Busy
<1>9. Connections'
  BY <1>6, <1>7, <1>8 DEF Connections
<1>10. "unmapped" \notin Busy \cup {"mapped"}
  BY DEF Busy
<1>11. IsFn(dbTsi', Handler) /\ \A g \in Handler : dbTsi'[g] \in {0, hId[g]}
  BY <1>1, <1>2 DEF Shapes, Ids
<1> QED BY <1>2, <1>5, <1>9, <1>10, <1>11, ConnectionActs

\* What unregisterPortHandler forgets is the handler's own port id.
LEMMA ForgetFacts ==
  ASSUME CalmInv, NEW h \in Handler, Forget(h)
  PROVE  /\ IsFn(dbTsi', Handler) /\ \A g \in Handler : dbTsi'[g] \in {0, hId[g]}
         /\ \/ tsiOf' = tsiOf
            \/ hId[h] # 0 /\ tsiOf' = [tsiOf EXCEPT ![hId[h]] = NoThread]
BY DEF Forget, CalmInv, Shapes, Ids

\* The other steps of a connection only make it go.
LEMMA GoingKeeps ==
  ASSUME CalmInv, NEW h \in Handler, NEW p, hPc' = [hPc EXCEPT ![h] = p],
         p = hPc[h] \/ p = "dead" \/ (p = "unmapped" /\ hPc[h] \notin {"new", "dead"}),
         lost' = lost \/ (lost' = lost \cup {h} /\ p \in {"unmapped", "dead"})
  PROVE  Connections'
<1>1. Shapes /\ Connections
  BY DEF CalmInv
<1>2. hPc'[h] = p /\ \A g \in Handler \ {h} : hPc'[g] = hPc[g]
  BY <1>1 DEF Shapes, IsFn
<1>3. \A g \in Handler : Gone(g) => Gone(g)'
  BY <1>2 DEF Gone
<1>4. \A g \in Handler : hPc'[g] \in Busy => hPc[g] \in Busy
  BY <1>2 DEF Busy
<1>5. \A g \in lost' : hPc'[g] \in {"unmapped", "dead"}
  <2> SUFFICES ASSUME NEW g \in lost' PROVE hPc'[g] \in {"unmapped", "dead"}
    OBVIOUS
  <2>1. CASE g = h
    <3>1. p \in {"unmapped", "dead"}
      BY <1>1, <2>1 DEF Connections
    <3> QED BY <1>2, <2>1, <3>1
  <2>2. CASE g # h
    <3>1. hPc[g] \in {"unmapped", "dead"}
      BY <1>1, <2>2 DEF Connections
    <3>2. hPc'[g] = hPc[g]
      BY <1>1, <1>2, <2>2 DEF Shapes
    <3> QED BY <3>1, <3>2
  <2> QED BY <2>1, <2>2
<1> QED BY <1>1, <1>3, <1>4, <1>5 DEF Connections

\* The null port id of the accept loop is put in a table no request reads.
LEMMA AnnounceStep == ASSUME CalmInv, NEW h \in Handler, Announce(h) PROVE CalmInv'
<1>1. Shapes /\ Ids /\ Calls /\ Mux /\ Connections /\ Routes /\ Tables /\ Works /\ Receivers
  BY DEF CalmInv
<1>2. /\ dbTsi' = [dbTsi EXCEPT ![h] = 0]
      /\ hPc' = hPc /\ hId' = hId /\ lost' = lost /\ tsiOf' = tsiOf
      /\ clients' = clients /\ monitor' = monitor /\ open' = open
      /\ comps' = comps /\ lists' = lists /\ portAt' = portAt /\ observed' = observed
      /\ owner' = owner /\ lastId' = lastId /\ ut' = ut /\ running' = running
      /\ task' = task /\ tPort' = tPort /\ arg' = arg
  BY DEF Announce, muxVars, mgrVars, ports, uts, calls
<1>3. IsFn(dbTsi', Handler) /\ dbTsi'[h] = 0 /\ \A g \in Handler \ {h} : dbTsi'[g] = dbTsi[g]
  BY <1>1, <1>2 DEF Shapes, IsFn
<1>4. \A g : /\ Active(g)' <=> Active(g)
             /\ Held(g)' <=> Held(g)
             /\ Attached(g)' <=> Attached(g)
             /\ (IsUt(g)' <=> IsUt(g)) /\ (Owned(g)' <=> Owned(g)) /\ (Listens(g)' <=> Listens(g))
  BY <1>2 DEF Active, Held, Attached, IsUt, Owned, Listens
<1>5. Shapes'
  BY <1>1, <1>2, <1>3 DEF Shapes
<1>6. Ids'
  BY <1>1, <1>2, <1>3, <1>4 DEF Ids
<1>7. Calls' /\ Mux' /\ Routes'
  BY <1>1, <1>2, <1>4 DEF Calls, Mux, Routes
<1>8. Connections'
  BY <1>1, <1>2 DEF Connections, Gone
<1>9. Tables'
  BY <1>1, <1>2, <1>4 DEF Tables
<1>10. Works'
  BY <1>1, <1>2, <1>4 DEF Works
<1>11. \A i : Attached(owner[i])' <=> Attached(owner[i])
  BY <1>2 DEF Attached
<1>12. Receivers'
  BY <1>1, <1>2, <1>4, <1>11 DEF Receivers
<1> QED BY <1>5, <1>6, <1>7, <1>8, <1>9, <1>10, <1>12 DEF CalmInv

\* Only an unmapped connection is lost while nothing is cut.
LEMMA LoseStep ==
  ASSUME CalmInv, NEW h \in Handler, Lose(h), cuts = 0, cuts' = 0
  PROVE  CalmInv'
<1>1. /\ hPc[h] = "unmapped" /\ hPc' = hPc /\ lost' = lost \cup {h}
      /\ UNCHANGED <<muxVars, mgrVars, hId, ports, uts, calls, dbTsi, tsiOf>>
  BY DEF Lose, mapper
<1> DEFINE p == hPc[h]
<1>2. hPc' = [hPc EXCEPT ![h] = p] /\ p = hPc[h] /\ p = "unmapped"
  BY <1>1, NoMove
<1> HIDE DEF p
<1>3. p \notin Busy \cup {"mapped"}
  BY <1>2 DEF Busy
<1>4. Connections'
  BY <1>1, <1>2, <1>3, GoingKeeps
<1>5. lost' \subseteq Handler
  BY <1>1 DEF CalmInv, Shapes
<1>6. IsFn(dbTsi', Handler) /\ \A g \in Handler : dbTsi'[g] \in {0, hId[g]}
  BY <1>1 DEF CalmInv, Shapes, Ids
<1> QED BY <1>1, <1>2, <1>3, <1>4, <1>5, <1>6, ConnectionActs

\* Only an unmapped connection ends while nothing is cut.
LEMMA EndStep ==
  ASSUME CalmInv, NEW h \in Handler, EndConnection(h) \/ StreamEnds(h), cuts = 0, cuts' = 0
  PROVE  CalmInv'
<1>1. /\ hPc' = [hPc EXCEPT ![h] = "dead"] /\ lost' = lost
      /\ UNCHANGED <<muxVars, mgrVars, hId, ports, uts, calls>>
      /\ Forget(h) \/ UNCHANGED <<dbTsi, tsiOf>>
  BY DEF EndConnection, StreamEnds, mapper
<1>2. hPc[h] = "unmapped"
  <2>1. CASE EndConnection(h)
    BY <2>1 DEF EndConnection, TakesRequest, Idle
  <2>2. CASE StreamEnds(h)
    BY <2>2 DEF StreamEnds, TakesRequest, Idle, CalmInv, Connections
  <2> QED BY <2>1, <2>2
<1>3. "dead" \notin Busy \cup {"mapped"}
  BY DEF Busy
<1>4. Connections'
  BY <1>1, GoingKeeps
<1>5. lost' \subseteq Handler
  BY <1>1 DEF CalmInv, Shapes
<1>6. /\ IsFn(dbTsi', Handler) /\ \A g \in Handler : dbTsi'[g] \in {0, hId[g]}
      /\ \/ tsiOf' = tsiOf
         \/ hId[h] # 0 /\ tsiOf' = [tsiOf EXCEPT ![hId[h]] = NoThread]
  <2>1. CASE Forget(h)
    BY <2>1, ForgetFacts
  <2>2. CASE UNCHANGED <<dbTsi, tsiOf>>
    BY <2>2 DEF CalmInv, Shapes, Ids
  <2> QED BY <1>1, <2>1, <2>2
<1> QED BY <1>1, <1>2, <1>3, <1>4, <1>5, <1>6, ConnectionActs

\* The monitor forgets a dead handler.
LEMMA ReapStep == ASSUME CalmInv, NEW h \in Handler, Reap(h) PROVE CalmInv'
<1>1. /\ hPc[h] = "dead" /\ hPc' = hPc /\ lost' = lost /\ Forget(h)
      /\ UNCHANGED <<muxVars, mgrVars, hId, ports, uts, calls>>
  BY DEF Reap, handlers
<1> DEFINE p == hPc[h]
<1>2. hPc' = [hPc EXCEPT ![h] = p] /\ p = hPc[h] /\ p = "dead"
  BY <1>1, NoMove
<1> HIDE DEF p
<1>3. p \notin Busy \cup {"mapped"}
  BY <1>2 DEF Busy
<1>4. Connections'
  BY <1>1, <1>2, <1>3, GoingKeeps
<1>5. lost' \subseteq Handler
  BY <1>1 DEF CalmInv, Shapes
<1> QED BY <1>1, <1>2, <1>3, <1>4, <1>5, ForgetFacts, ConnectionActs

-----------------------------------------------------------------------------
(* A step of a handler that has a port: what it does to its own state.      *)

Moves(h, p, x, y) ==
  /\ hPc' = [hPc EXCEPT ![h] = p]
  /\ task' = [task EXCEPT ![h] = x]
  /\ tPort' = [tPort EXCEPT ![h] = y]
  /\ UNCHANGED <<lost, arg>>

\* ... while the port ids stay as they are.
HandlerFrame == UNCHANGED <<hId, dbTsi, tsiOf, owner, lastId>>

\* It changes nothing of the other handlers and of the receiving threads.
LEMMA MoveFacts ==
  ASSUME CalmInv, NEW h \in Handler, NEW p, NEW x, NEW y, Moves(h, p, x, y)
  PROVE  /\ IsFn(hPc', Handler) /\ IsFn(task', Thread) /\ IsFn(tPort', Thread)
         /\ hPc'[h] = p /\ task'[h] = x /\ tPort'[h] = y
         /\ \A g \in Handler \ {h} :
              /\ hPc'[g] = hPc[g] /\ task'[g] = task[g] /\ tPort'[g] = tPort[g]
              /\ Active(g)' <=> Active(g)
              /\ Held(g)' <=> Held(g)
              /\ Attached(g)' <=> Attached(g)
         /\ \A t \in Receiver : task'[t] = task[t] /\ tPort'[t] = tPort[t]
<1>1. h \in Thread /\ \A t \in Receiver : t \in Thread \ {h}
  BY ThreadFacts
<1>2. IsFn(hPc', Handler) /\ hPc'[h] = p /\ \A g \in Handler \ {h} : hPc'[g] = hPc[g]
  BY DEF CalmInv, Shapes, Moves, IsFn
<1>3. IsFn(task', Thread) /\ task'[h] = x /\ \A t \in Thread \ {h} : task'[t] = task[t]
  BY <1>1 DEF CalmInv, Shapes, Moves, IsFn
<1>4. IsFn(tPort', Thread) /\ tPort'[h] = y /\ \A t \in Thread \ {h} : tPort'[t] = tPort[t]
  BY <1>1 DEF CalmInv, Shapes, Moves, IsFn
<1>5. \A g \in Handler \ {h} : hPc'[g] = hPc[g] /\ task'[g] = task[g] /\ tPort'[g] = tPort[g]
  BY <1>2, <1>3, <1>4, ThreadFacts
<1>6. \A g \in Handler \ {h} : /\ Active(g)' <=> Active(g)
                               /\ Held(g)' <=> Held(g)
                               /\ Attached(g)' <=> Attached(g)
  BY <1>5 DEF Active, Held, Attached
<1> QED BY <1>1, <1>2, <1>3, <1>4, <1>5, <1>6

\* It keeps what is said of the connections, the port ids and the calls.
LEMMA HandlerActs ==
  ASSUME CalmInv, NEW h \in Handler, NEW p, NEW x, NEW y, Moves(h, p, x, y), HandlerFrame,
         Active(h), p \in Busy \cup {"mapped"},
         \/ p \in Busy => hPc[h] \in Busy
         \/ \A g \in Handler \ {h} : KeyOf[g].comp = KeyOf[h].comp => hPc[g] \notin Busy,
         x \in {"none"} \cup Sending \cup Removing,
         x \in Sending => p = "mapped", x \in Removing => p = "unmapping",
         IsFn(portAt', Key), IsFn(ut', Port), IsFn(running', Port),
         Mux', Tables', Works', Receivers'
  PROVE  CalmInv'
<1>1. Shapes /\ Ids /\ Calls /\ Connections /\ Routes
  BY DEF CalmInv
<1>2. /\ IsFn(hPc', Handler) /\ IsFn(task', Thread) /\ IsFn(tPort', Thread)
      /\ hPc'[h] = p /\ task'[h] = x /\ tPort'[h] = y
      /\ \A g \in Handler \ {h} :
           hPc'[g] = hPc[g] /\ task'[g] = task[g] /\ (Active(g)' <=> Active(g))
  BY MoveFacts
<1>3. Active(h)'
  BY <1>2 DEF Active
<1>4. /\ hId' = hId /\ dbTsi' = dbTsi /\ tsiOf' = tsiOf /\ owner' = owner /\ lastId' = lastId
      /\ lost' = lost /\ arg' = arg
  BY DEF HandlerFrame, Moves
<1>5. Shapes'
  BY <1>1, <1>2, <1>4 DEF Shapes
<1>6. \A g \in Handler : Active(g)' <=> Active(g)
  BY <1>2, <1>3
<1>7. Ids' /\ Routes'
  BY <1>1, <1>4, <1>6 DEF Ids, Routes
<1>8. Calls'
  BY <1>1, <1>2, <1>4 DEF Calls
<1>9. h \notin lost /\ ~Gone(h)
  BY <1>1 DEF Active, Connections, Gone, Busy
<1>10. \A g \in Handler : Gone(g) => Gone(g)'
  BY <1>2, <1>4, <1>9 DEF Gone
<1>11. \A g \in lost' : hPc'[g] \in {"unmapped", "dead"}
  BY <1>1, <1>2, <1>4, <1>9 DEF Connections, Shapes
<1>12. \A g, k \in Handler :
         g # k /\ KeyOf[g].comp = KeyOf[k].comp => hPc'[g] \notin Busy \/ hPc'[k] \notin Busy
  <2> SUFFICES ASSUME NEW g \in Handler, NEW k \in Handler, g # k, KeyOf[g].comp = KeyOf[k].comp
               PROVE  hPc'[g] \notin Busy \/ hPc'[k] \notin Busy
    OBVIOUS
  <2>1. CASE g = h
    BY <1>1, <1>2, <2>1 DEF Connections
  <2>2. CASE k = h
    BY <1>1, <1>2, <2>2 DEF Connections
  <2>3. CASE g # h /\ k # h
    BY <1>1, <1>2, <2>3 DEF Connections
  <2> QED BY <2>1, <2>2, <2>3
<1>13. Connections'
  BY <1>1, <1>10, <1>11, <1>12 DEF Connections
<1> QED BY <1>5, <1>7, <1>8, <1>13 DEF CalmInv

\* What it must do to the state of its port.
LEMMA WorksActs ==
  ASSUME CalmInv, NEW h \in Handler, NEW p, NEW x, NEW y, Moves(h, p, x, y), HandlerFrame,
         x \in Sending \cup {"dispose", "join", "drop"} => y = hId[h],
         x \in {"compose", "transmit"} => hId[h] \in clients',
         \A g \in Handler \ {h} : hId[g] \in clients => hId[g] \in clients',
         Attached(h)' /\ IsUt(hId[h]) => running'[hId[h]] = TRUE,
         \A i \in Port \ {hId[h]} : running'[i] = running[i]
  PROVE  Works'
<1>1. /\ task'[h] = x /\ tPort'[h] = y
      /\ \A g \in Handler \ {h} : /\ task'[g] = task[g] /\ tPort'[g] = tPort[g]
                                  /\ Attached(g)' <=> Attached(g)
  BY MoveFacts
<1>2. hId' = hId /\ owner' = owner
  BY DEF HandlerFrame
<1>3. \A i : IsUt(i)' <=> IsUt(i)
  BY <1>2 DEF IsUt
<1> SUFFICES ASSUME NEW g \in Handler
             PROVE  /\ task'[g] \in Sending \cup {"dispose", "join", "drop"} => tPort'[g] = hId'[g]
                    /\ task'[g] \in {"compose", "transmit"} => hId'[g] \in clients'
                    /\ Attached(g)' /\ IsUt(hId[g])' => running'[hId'[g]] = TRUE
  BY DEF Works
<1>4. CASE g = h
  BY <1>1, <1>2, <1>3, <1>4
<1>5. CASE g # h
  <2>1. /\ task[g] \in Sending \cup {"dispose", "join", "drop"} => tPort[g] = hId[g]
        /\ task[g] \in {"compose", "transmit"} => hId[g] \in clients
        /\ Attached(g) /\ IsUt(hId[g]) => running[hId[g]] = TRUE
    BY DEF CalmInv, Works
  <2>2. Attached(g) => hId[g] \in Port \ {hId[h]}
    BY <1>5, Active1, OtherPort DEF CalmInv, Ids
  <2> QED BY <1>1, <1>2, <1>3, <1>5, <2>1, <2>2
<1> QED BY <1>4, <1>5

\* What it must do to the threads that receive for its port.
LEMMA ReceiversActs ==
  ASSUME CalmInv, NEW h \in Handler, NEW p, NEW x, NEW y, Moves(h, p, x, y), HandlerFrame,
         hId[h] \in Port,
         \A i \in Port \ {hId[h]} : ut'[i] = ut[i],
         task[hId[h]] # "none" => ut'[hId[h]] = "callback",
         Listens(hId[h])' => IsUt(hId[h]) /\ (Attached(h)' \/ x = "join"),
         clients' \subseteq clients \cup {hId[h]},
         hId[h] \in clients' => ~IsUt(hId[h]) /\ Attached(h)'
  PROVE  Receivers'
<1>1. /\ task'[h] = x
      /\ \A g \in Handler \ {h} : task'[g] = task[g] /\ (Attached(g)' <=> Attached(g))
      /\ \A t \in Receiver : task'[t] = task[t] /\ tPort'[t] = tPort[t]
  BY MoveFacts
<1>2. hId' = hId /\ owner' = owner
  BY DEF HandlerFrame
<1>3. \A i : (IsUt(i)' <=> IsUt(i)) /\ (Owned(i)' <=> Owned(i))
  BY <1>2 DEF IsUt, Owned
<1>4. Owned(hId[h]) /\ owner[hId[h]] = h
  BY PortFacts DEF CalmInv, Ids, Owned
<1>5. \A i : Owned(i) /\ i # hId[h] => owner[i] \in Handler \ {h}
  BY DEF Owned
<1>6. Receivers
  BY DEF CalmInv
<1>7. \A t \in Receiver : task'[t] \in {"none"} \cup Receiving
  BY <1>1, <1>6 DEF Receivers
<1>8. \A i \in Port : task'[i] # "none" => tPort'[i] = i /\ ut'[i] = "callback"
  BY <1>1, <1>6 DEF Receivers, Receiver
<1>9. \A i \in Port : Listens(i)' =>
        Owned(i)' /\ IsUt(i)' /\ (Attached(owner[i]) \/ task[owner[i]] = "join")'
  <2> SUFFICES ASSUME NEW i \in Port, Listens(i)'
               PROVE  Owned(i)' /\ IsUt(i)' /\ (Attached(owner[i]) \/ task[owner[i]] = "join")'
    OBVIOUS
  <2>1. CASE i = hId[h]
    <3>1. Attached(owner[i])' <=> Attached(h)'
      BY <1>2, <1>4, <2>1 DEF Attached
    <3> QED BY <1>1, <1>2, <1>3, <1>4, <2>1, <3>1
  <2>2. CASE i # hId[h]
    <3>1. Listens(i)
      BY <2>2 DEF Listens
    <3>2. Owned(i) /\ IsUt(i) /\ (Attached(owner[i]) \/ task[owner[i]] = "join")
      BY <1>6, <3>1 DEF Receivers
    <3>3. PICK g \in Handler \ {h} : g = owner[i]
      BY <1>5, <2>2, <3>2
    <3>4. Attached(owner[i])' <=> Attached(g)'
      BY <1>2, <3>3 DEF Attached
    <3> QED BY <1>1, <1>2, <1>3, <3>2, <3>3, <3>4
  <2> QED BY <2>1, <2>2
<1>10. \A i \in clients' : Owned(i)' /\ ~IsUt(i)' /\ Attached(owner[i])'
  <2> SUFFICES ASSUME NEW i \in clients' PROVE Owned(i)' /\ ~IsUt(i)' /\ Attached(owner[i])'
    OBVIOUS
  <2>1. CASE i = hId[h]
    <3>1. Attached(owner[i])' <=> Attached(h)'
      BY <1>2, <1>4, <2>1 DEF Attached
    <3> QED BY <1>3, <1>4, <2>1, <3>1
  <2>2. CASE i # hId[h]
    <3>1. Owned(i) /\ ~IsUt(i) /\ Attached(owner[i])
      BY <1>6, <2>2 DEF Receivers
    <3>2. PICK g \in Handler \ {h} : g = owner[i]
      BY <1>5, <2>2, <3>1
    <3>3. Attached(owner[i])' <=> Attached(g)'
      BY <1>2, <3>2 DEF Attached
    <3> QED BY <1>1, <1>3, <3>1, <3>2, <3>3
  <2> QED BY <2>1, <2>2
<1> QED BY <1>7, <1>8, <1>9, <1>10 DEF Receivers

\* Tables that stay as they are.
LEMMA TablesActs ==
  ASSUME CalmInv, NEW h \in Handler, NEW p, NEW x, NEW y, Moves(h, p, x, y), HandlerFrame,
         UNCHANGED <<comps, lists, portAt, observed>>,
         Held(h)' <=> Held(h), p # "addPort",
         p = "mapped" \/ x = "remove" => hPc[h] = "mapped" \/ task[h] = "remove"
  PROVE  Tables'
<1>1. /\ hPc'[h] = p /\ task'[h] = x
      /\ \A g \in Handler \ {h} : hPc'[g] = hPc[g] /\ task'[g] = task[g] /\ (Held(g)' <=> Held(g))
  BY MoveFacts
<1>2. \A g \in Handler : Held(g)' <=> Held(g)
  BY <1>1
<1>3. hId' = hId /\ comps' = comps /\ lists' = lists /\ portAt' = portAt /\ observed' = observed
  BY DEF HandlerFrame
<1>4. Tables
  BY DEF CalmInv
<1>5. \A g \in Handler : hPc'[g] = "addPort" => hPc[g] = "addPort"
  BY <1>1
<1>6. \A g \in Handler : hPc'[g] = "mapped" \/ task'[g] = "remove"
                           => hPc[g] = "mapped" \/ task[g] = "remove"
  BY <1>1
<1> QED BY <1>2, <1>3, <1>4, <1>5, <1>6 DEF Tables

-----------------------------------------------------------------------------
(* Sending.                                                                 *)

\* Functions that stay as they are.
LEMMA SameIsFn ==
  ASSUME CalmInv
  PROVE  /\ portAt' = portAt => IsFn(portAt', Key)
         /\ ut' = ut => IsFn(ut', Port)
         /\ running' = running => IsFn(running', Port)
BY DEF CalmInv, Shapes

\* The port object of a handler, and who receives for it.
LEMMA OwnPort ==
  ASSUME CalmInv, NEW h \in Handler, Active(h)
  PROVE  /\ hId[h] \in Port /\ hId[h] # 0 /\ owner[hId[h]] = h
         /\ Listens(hId[h]) => IsUt(hId[h]) /\ (Attached(h) \/ task[h] = "join")
         /\ hId[h] \in clients => ~IsUt(hId[h]) /\ Attached(h)
         /\ task[hId[h]] # "none" => ut[hId[h]] = "callback"
<1>1. hId[h] \in Port /\ hId[h] # 0 /\ owner[hId[h]] = h
  BY DEF CalmInv, Ids
<1> DEFINE i == hId[h]
<1>2. i \in Port /\ owner[i] = h
  BY <1>1
<1> HIDE DEF i
<1>3. /\ Listens(i) => IsUt(i) /\ (Attached(h) \/ task[h] = "join")
      /\ i \in clients => ~IsUt(i) /\ Attached(h)
      /\ task[i] # "none" => ut[i] = "callback"
  BY <1>2 DEF CalmInv, Receivers
<1> QED BY <1>1, <1>3 DEF i

\* A mapped port sends through its own port object.
LEMMA SendActs ==
  ASSUME CalmInv, NEW h \in Handler, hPc[h] = "mapped",
         NEW x \in {"none"} \cup Sending, NEW y,
         x # "none" => y = hId[h], x \in {"compose", "transmit"} => hId[h] \in clients,
         task' = [task EXCEPT ![h] = x], tPort' = [tPort EXCEPT ![h] = y],
         UNCHANGED <<muxVars, mgrVars, handlers, mapper, ports, uts, arg>>
  PROVE  CalmInv'
<1> DEFINE p == hPc[h]
<1>1. hPc' = [hPc EXCEPT ![h] = p]
  BY NoMove DEF handlers
<1>2. p = "mapped" /\ p = hPc[h]
  OBVIOUS
<1> HIDE DEF p
<1>3. Moves(h, p, x, y) /\ HandlerFrame
  BY <1>1 DEF Moves, HandlerFrame, handlers, mapper, ports
<1>4. /\ clients' = clients /\ monitor' = monitor /\ open' = open
      /\ comps' = comps /\ lists' = lists /\ portAt' = portAt /\ observed' = observed
      /\ ut' = ut /\ running' = running
  BY DEF muxVars, mgrVars, uts
<1>5. Active(h) /\ Held(h) /\ Attached(h) /\ task[h] \notin Removing /\ p \in Busy \cup {"mapped"}
  BY <1>2 DEF Active, Held, Attached, CalmInv, Calls
<1>6. hPc'[h] = p /\ task'[h] = x
  BY <1>3, MoveFacts
<1>7. Held(h)' /\ Attached(h)'
  BY <1>2, <1>6 DEF Held, Attached
<1>8. x \notin Removing /\ x \in {"none"} \cup Sending \cup Removing /\ x # "join"
  BY DEF Sending, Removing
<1>9. Tables'
  BY <1>2, <1>3, <1>4, <1>5, <1>7, <1>8, TablesActs DEF Removing
<1>10. Works'
  <2>1. Attached(h)' /\ IsUt(hId[h]) => running'[hId[h]] = TRUE
    BY <1>4, <1>5 DEF CalmInv, Works
  <2>2. x \in Sending \cup {"dispose", "join", "drop"} => y = hId[h]
    BY <1>8 DEF Sending, Removing
  <2> QED BY <1>3, <1>4, <2>1, <2>2, WorksActs
<1>11. Receivers'
  <2>1. Listens(hId[h])' <=> Listens(hId[h])
    BY <1>3, <1>4 DEF Listens, HandlerFrame
  <2> QED BY <1>3, <1>4, <1>5, <1>7, <2>1, OwnPort, ReceiversActs
<1>12. Mux'
  BY <1>4 DEF CalmInv, Mux
<1> QED BY <1>2, <1>3, <1>4, <1>5, <1>8, <1>9, <1>10, <1>11, <1>12, SameIsFn, HandlerActs

\* triSend finds the port of the handler under its names.
LEMMA SendStep == ASSUME CalmInv, NEW h \in Handler, Send(h) PROVE CalmInv'
<1>1. /\ hPc[h] = "mapped" /\ task' = [task EXCEPT ![h] = "check"]
      /\ tPort' = [tPort EXCEPT ![h] = portAt[KeyOf[h]]]
      /\ UNCHANGED <<muxVars, mgrVars, handlers, mapper, ports, uts, arg>>
  BY DEF Send
<1>2. portAt[KeyOf[h]] = hId[h]
  BY <1>1 DEF CalmInv, Tables, Held
<1>3. "check" \in {"none"} \cup Sending
  BY DEF Sending
<1> QED BY <1>1, <1>2, <1>3, SendActs

\* A handler that sends does so for its own port.
LEMMA SenderFacts ==
  ASSUME CalmInv, NEW h \in Handler, task[h] \in Sending
  PROVE  hPc[h] = "mapped" /\ tPort[h] = hId[h]
BY DEF CalmInv, Calls, Works

\* The next step of sendPacket.
LEMMA ProceedStep ==
  ASSUME CalmInv, NEW h \in Handler, NEW x \in {"none"} \cup Sending,
         task[h] \in Sending, Proceed(h, x), x \in {"compose", "transmit"} => hId[h] \in clients
  PROVE  CalmInv'
<1>1. /\ task' = [task EXCEPT ![h] = x]
      /\ tPort' = IF x = "none" THEN [tPort EXCEPT ![h] = 0] ELSE tPort
      /\ UNCHANGED <<muxVars, mgrVars, handlers, mapper, ports, uts, arg>>
  BY DEF Proceed
<1>2. hPc[h] = "mapped" /\ tPort[h] = hId[h]
  BY SenderFacts
<1>3. CASE x = "none"
  BY <1>1, <1>2, <1>3, SendActs
<1>4. CASE x # "none"
  <2> DEFINE y == tPort[h]
  <2>1. tPort' = [tPort EXCEPT ![h] = y] /\ y = hId[h]
    BY <1>1, <1>2, <1>4, NoCall, ThreadFacts
  <2> HIDE DEF y
  <2> QED BY <1>1, <1>2, <2>1, SendActs
<1> QED BY <1>3, <1>4

\* The client that was found in the check is still there when it is used.
LEMMA SendingStep ==
  ASSUME CalmInv, NEW h \in Handler, SendChecks(h) \/ SendComposes(h) \/ SendEnds(h)
  PROVE  CalmInv'
<1>1. CASE SendChecks(h)
  <2>1. task[h] = "check" /\ task[h] \in Sending
    BY <1>1 DEF SendChecks, Sending
  <2>2. tPort[h] = hId[h]
    BY <2>1, SenderFacts
  <2>3. CASE tPort[h] \in clients
    <3>1. Proceed(h, "compose") /\ "compose" \in {"none"} \cup Sending
      BY <1>1, <2>3 DEF SendChecks, Sending
    <3> QED BY <2>1, <2>2, <2>3, <3>1, ProceedStep
  <2>4. CASE tPort[h] \notin clients
    <3>1. Proceed(h, "none")
      BY <1>1, <2>4 DEF SendChecks
    <3> QED BY <2>1, <3>1, ProceedStep
  <2> QED BY <2>3, <2>4
<1>2. CASE SendComposes(h)
  <2>1. task[h] = "compose" /\ task[h] \in Sending
    BY <1>2 DEF SendComposes, Sending
  <2>2. tPort[h] = hId[h] /\ hId[h] \in clients
    BY <2>1, SenderFacts DEF CalmInv, Works
  <2>3. Proceed(h, "transmit") /\ "transmit" \in {"none"} \cup Sending
    BY <1>2, <2>2 DEF SendComposes, Sending
  <2> QED BY <2>1, <2>2, <2>3, ProceedStep
<1>3. CASE SendEnds(h)
  <2>1. task[h] \in Sending /\ Proceed(h, "none")
    BY <1>3 DEF SendEnds, Sending
  <2> QED BY <2>1, ProceedStep
<1> QED BY <1>1, <1>2, <1>3

-----------------------------------------------------------------------------
(* The map request.                                                         *)

\* The one step that gives a handler a port id: a new one, which nobody has.
LEMMA MapStep == ASSUME CalmInv, NEW h \in Handler, Map(h) PROVE CalmInv'
<1>1. Shapes /\ Ids /\ Calls /\ Mux /\ Connections /\ Routes /\ Tables /\ Works /\ Receivers
  BY DEF CalmInv
<1> DEFINE i == lastId + 1
<1>2. /\ hPc[h] = "unmapped" /\ MayRequest(h) /\ i \in Port
      /\ hPc' = [hPc EXCEPT ![h] = "create"] /\ hId' = [hId EXCEPT ![h] = i]
      /\ lastId' = i /\ owner' = [owner EXCEPT ![i] = h]
      /\ dbTsi' = [dbTsi EXCEPT ![h] = i] /\ tsiOf' = [tsiOf EXCEPT ![i] = h]
  BY DEF Map
<1>3. /\ clients' = clients /\ monitor' = monitor /\ open' = open
      /\ comps' = comps /\ lists' = lists /\ portAt' = portAt /\ observed' = observed
      /\ lost' = lost /\ ut' = ut /\ running' = running
      /\ task' = task /\ tPort' = tPort /\ arg' = arg
  BY DEF Map, muxVars, mgrVars, uts, calls
<1>4. lastId \in Nat /\ i \in Nat /\ i > lastId /\ i # 0
  BY <1>1 DEF Ids
<1>5. \A g \in Handler : hId[g] # i
  BY <1>1, <1>4 DEF Ids
<1> HIDE DEF i
<1>6. IsFn(hPc', Handler) /\ hPc'[h] = "create" /\ \A g \in Handler \ {h} : hPc'[g] = hPc[g]
  BY <1>1, <1>2 DEF Shapes, IsFn
<1>7. IsFn(hId', Handler) /\ hId'[h] = i /\ \A g \in Handler \ {h} : hId'[g] = hId[g]
  BY <1>1, <1>2 DEF Shapes, IsFn
<1>8. IsFn(owner', Port) /\ owner'[i] = h /\ \A j \in Port \ {i} : owner'[j] = owner[j]
  BY <1>1, <1>2 DEF Shapes, IsFn
<1>9. IsFn(dbTsi', Handler) /\ dbTsi'[h] = i /\ \A g \in Handler \ {h} : dbTsi'[g] = dbTsi[g]
  BY <1>1, <1>2 DEF Shapes, IsFn
<1>10. IsFn(tsiOf', Port) /\ tsiOf'[i] = h /\ \A j \in Port \ {i} : tsiOf'[j] = tsiOf[j]
  BY <1>1, <1>2 DEF Shapes, IsFn
<1>11. ~Active(h) /\ ~Held(h) /\ ~Attached(h) /\ task[h] = "none"
  BY <1>1, <1>2 DEF Active, Held, Attached, Busy, Calls, Sending, Removing
<1>12. Active(h)' /\ ~Held(h)' /\ ~Attached(h)'
  BY <1>6 DEF Active, Held, Attached, Busy
<1>13. \A g \in Handler \ {h} : /\ Active(g)' <=> Active(g)
                                /\ Held(g)' <=> Held(g)
                                /\ Attached(g)' <=> Attached(g)
  BY <1>3, <1>6 DEF Active, Held, Attached
<1>14. Shapes'
  BY <1>1, <1>3, <1>6, <1>7, <1>8, <1>9, <1>10 DEF Shapes
<1>15. Ids'
  <2>1. lastId' \in Nat
    BY <1>2, <1>4
  <2>2. ASSUME NEW g \in Handler
        PROVE  /\ dbTsi'[g] \in {0, hId'[g]}
               /\ hId'[g] # 0 => hId'[g] \in Port /\ hId'[g] <= lastId' /\ owner'[hId'[g]] = g
               /\ Active(g)' => hId'[g] # 0
    <3>1. CASE g = h
      BY <1>2, <1>4, <1>7, <1>8, <1>9, <3>1
    <3>2. CASE g # h
      <4>1. /\ dbTsi[g] \in {0, hId[g]}
            /\ hId[g] # 0 => hId[g] \in Port /\ hId[g] <= lastId /\ owner[hId[g]] = g
            /\ Active(g) => hId[g] # 0
        BY <1>1 DEF Ids
      <4>2. hId[g] # 0 => owner'[hId[g]] = g
        BY <1>5, <1>8, <4>1
      <4>3. hId[g] # 0 => hId[g] <= lastId'
        <5>1. hId[g] # 0 => hId[g] \in Nat
          BY <4>1, PortFacts
        <5> QED BY <1>2, <1>4, <4>1, <5>1
      <4> QED BY <1>7, <1>9, <1>13, <3>2, <4>1, <4>2, <4>3
    <3> QED BY <3>1, <3>2
  <2> QED BY <2>1, <2>2 DEF Ids
<1>16. Calls'
  <2> SUFFICES ASSUME NEW g \in Handler
               PROVE  /\ arg'[g] = KeyOf[g]
                      /\ task'[g] \in {"none"} \cup Sending \cup Removing
                      /\ task'[g] \in Sending => hPc'[g] = "mapped"
                      /\ task'[g] \in Removing => hPc'[g] = "unmapping"
    BY DEF Calls
  <2>1. CASE g = h
    BY <1>1, <1>3, <1>11, <2>1 DEF Calls, Sending, Removing
  <2>2. CASE g # h
    BY <1>1, <1>3, <1>6, <2>2 DEF Calls
  <2> QED BY <2>1, <2>2
<1>17. Mux'
  BY <1>1, <1>3 DEF Mux
<1>18. Connections'
  <2>1. /\ h \notin lost
        /\ \A g \in Handler \ lost : KeyOf[g].comp = KeyOf[h].comp => hPc[g] \notin Busy
    BY <1>2 DEF MayRequest
  <2>2. \A g \in lost : hPc[g] \notin Busy
    BY <1>1 DEF Connections, Busy
  <2>3. \A g \in Handler : KeyOf[g].comp = KeyOf[h].comp => hPc[g] \notin Busy
    BY <2>1, <2>2
  <2>4. \A g \in lost' : hPc'[g] \in {"unmapped", "dead"}
    BY <1>1, <1>3, <1>6, <2>1 DEF Connections, Shapes
  <2>5. ~Gone(h) /\ \A g \in Handler : Gone(g) => Gone(g)'
    BY <1>2, <1>3, <1>6, <2>1 DEF Gone
  <2>6. \A g, k \in Handler :
          g # k /\ KeyOf[g].comp = KeyOf[k].comp => hPc'[g] \notin Busy \/ hPc'[k] \notin Busy
    BY <1>1, <1>6, <2>3 DEF Connections
  <2> QED BY <1>1, <2>4, <2>5, <2>6 DEF Connections
<1>19. Routes'
  <2> SUFFICES ASSUME NEW g \in Handler, Active(g)' PROVE tsiOf'[hId'[g]] = g
    BY DEF Routes
  <2>1. CASE g = h
    BY <1>7, <1>10, <2>1
  <2>2. CASE g # h
    <3>1. Active(g) /\ hId[g] \in Port /\ tsiOf[hId[g]] = g
      BY <1>1, <1>13, <2>2 DEF Ids, Routes
    <3> QED BY <1>5, <1>7, <1>10, <2>2, <3>1
  <2> QED BY <2>1, <2>2
<1>20. Tables'
  <2>1. \A g \in Handler : Held(g)' <=> Held(g)
    BY <1>11, <1>12, <1>13
  <2>2. \A g \in Handler : hPc'[g] \in {"addPort", "mapped"} => hPc[g] = hPc'[g]
    BY <1>6
  <2>3. comps' = lists'
    BY <1>1, <1>3 DEF Tables
  <2>4. ASSUME NEW g \in Handler
        PROVE  /\ Held(g)' => portAt'[KeyOf[g]] = hId'[g]
               /\ Held(g)' \/ hPc'[g] = "addPort" => KeyOf[g].comp \in comps'
               /\ hPc'[g] = "mapped" \/ task'[g] = "remove" => hId'[g] \in observed'
    <3>1. CASE g = h
      BY <1>3, <1>6, <1>11, <1>12, <3>1
    <3>2. CASE g # h
      BY <1>1, <1>3, <1>6, <1>7, <1>13, <3>2 DEF Tables
    <3> QED BY <3>1, <3>2
  <2>5. \A k \in Key : portAt'[k] # 0 => \E g \in Handler : KeyOf[g] = k /\ Held(g)'
    BY <1>1, <1>3, <2>1 DEF Tables
  <2> QED BY <2>3, <2>4, <2>5 DEF Tables
<1>21. \A j \in Port \ {i} : (IsUt(j)' <=> IsUt(j))
  BY <1>8 DEF IsUt
<1>22. Works'
  <2> SUFFICES ASSUME NEW g \in Handler
               PROVE  /\ task'[g] \in Sending \cup {"dispose", "join", "drop"}
                           => tPort'[g] = hId'[g]
                      /\ task'[g] \in {"compose", "transmit"} => hId'[g] \in clients'
                      /\ Attached(g)' /\ IsUt(hId[g])' => running'[hId'[g]] = TRUE
    BY DEF Works
  <2>1. CASE g = h
    BY <1>3, <1>11, <1>12, <2>1 DEF Sending
  <2>2. CASE g # h
    <3>1. /\ task[g] \in Sending \cup {"dispose", "join", "drop"} => tPort[g] = hId[g]
          /\ task[g] \in {"compose", "transmit"} => hId[g] \in clients
          /\ Attached(g) /\ IsUt(hId[g]) => running[hId[g]] = TRUE
      BY <1>1 DEF Works
    <3>2. Attached(g) => hId[g] \in Port \ {i}
      BY <1>1, <1>5, Active1 DEF Ids
    <3>3. hId'[g] = hId[g]
      BY <1>7, <2>2
    <3>4. Attached(g) => (IsUt(hId[g])' <=> IsUt(hId[g]))
      BY <1>7, <1>8, <2>2, <3>2 DEF IsUt
    <3> QED BY <1>3, <1>13, <2>2, <3>1, <3>3, <3>4
  <2> QED BY <2>1, <2>2
<1>23. \A j : Owned(j) => j # i
  BY <1>5 DEF Owned
<1>24. ASSUME NEW j, Owned(j), Attached(owner[j]) \/ task[owner[j]] = "join"
       PROVE  /\ owner[j] \in Handler \ {h} /\ owner'[j] = owner[j] /\ Owned(j)'
              /\ IsUt(j)' <=> IsUt(j)
              /\ Attached(owner[j])' <=> Attached(owner[j])
  <2>1. PICK g \in Handler : g = owner[j] /\ hId[g] = j
    BY <1>24 DEF Owned
  <2>2. g # h
    BY <1>11, <1>24, <2>1
  <2>3. j # i /\ j \in Port
    <3>1. Active(g)
      BY <1>1, <1>24, <2>1, Active1
    <3> QED BY <1>1, <1>5, <2>1, <3>1 DEF Ids
  <2>4. owner'[j] = g
    BY <1>8, <2>1, <2>3
  <2>5. Attached(owner[j])' <=> Attached(g)'
    BY <2>4 DEF Attached
  <2>6. Owned(j)' /\ (IsUt(j)' <=> IsUt(j))
    BY <1>7, <2>1, <2>2, <2>4 DEF Owned, IsUt
  <2> QED BY <1>13, <2>1, <2>2, <2>4, <2>5, <2>6
<1>25. Receivers'
  <2>1. \A t \in Receiver : task'[t] \in {"none"} \cup Receiving
    BY <1>1, <1>3 DEF Receivers
  <2>2. \A j \in Port : task'[j] # "none" => tPort'[j] = j /\ ut'[j] = "callback"
    BY <1>1, <1>3 DEF Receivers
  <2>3. ASSUME NEW j \in Port, Listens(j)'
        PROVE  Owned(j)' /\ IsUt(j)' /\ (Attached(owner[j]) \/ task[owner[j]] = "join")'
    <3>1. Listens(j)
      BY <1>3, <2>3 DEF Listens
    <3>2. Owned(j) /\ IsUt(j) /\ (Attached(owner[j]) \/ task[owner[j]] = "join")
      BY <1>1, <3>1 DEF Receivers
    <3>3. /\ owner'[j] = owner[j] /\ Owned(j)' /\ (IsUt(j)' <=> IsUt(j))
          /\ Attached(owner[j])' <=> Attached(owner[j])
      BY <1>24, <3>2
    <3> QED BY <1>3, <3>2, <3>3
  <2>4. ASSUME NEW j \in clients'
        PROVE  Owned(j)' /\ ~IsUt(j)' /\ Attached(owner[j])'
    <3>1. Owned(j) /\ ~IsUt(j) /\ Attached(owner[j])
      BY <1>1, <1>3 DEF Receivers
    <3>2. /\ Owned(j)' /\ (IsUt(j)' <=> IsUt(j))
          /\ Attached(owner[j])' <=> Attached(owner[j])
      BY <1>24, <3>1
    <3> QED BY <3>1, <3>2
  <2> QED BY <2>1, <2>2, <2>3, <2>4 DEF Receivers
<1> QED BY <1>14, <1>15, <1>16, <1>17, <1>18, <1>19, <1>20, <1>22, <1>25 DEF CalmInv

\* A step that only moves the program counter has the same call as before.
LEMMA PcMoves ==
  ASSUME CalmInv, NEW h \in Handler, NEW p, hPc' = [hPc EXCEPT ![h] = p],
         UNCHANGED <<lost, calls, hId, mapper, ports>>
  PROVE  Moves(h, p, task[h], tPort[h]) /\ HandlerFrame
BY NoCall, ThreadFacts DEF Moves, HandlerFrame, calls, mapper, ports

\* Registering adds at most the port itself, and never while the monitor is held.
LEMMA Registers ==
  ASSUME Mux, NEW i, Register(i)
  PROVE  Mux' /\ clients \subseteq clients' /\ clients' \subseteq clients \cup {i}
<1>1. CASE clients = {} /\ clients' = {i} /\ open' = TRUE /\ UNCHANGED monitor /\ monitor = NoThread
  BY <1>1 DEF Mux
<1>2. CASE UNCHANGED muxVars
  BY <1>2 DEF Mux, muxVars
<1>3. CASE /\ clients # {} /\ clients' = clients \cup {i} /\ monitor = NoThread
           /\ UNCHANGED <<monitor, open>>
  BY <1>3 DEF Mux
<1> QED BY <1>1, <1>2, <1>3 DEF Register

\* triMap makes the port object, which starts to receive.
LEMMA CreateStep == ASSUME CalmInv, NEW h \in Handler, CreatePort(h) PROVE CalmInv'
<1> DEFINE i == hId[h]
           x == task[h]
           y == tPort[h]
<1>1. /\ hPc[h] = "create" /\ hPc' = [hPc EXCEPT ![h] = "addComp"]
      /\ UNCHANGED <<mgrVars, lost, calls, hId, mapper, ports>>
      /\ \/ IsUt(i) /\ ut' = [ut EXCEPT ![i] = "wait"] /\ running' = [running EXCEPT ![i] = TRUE]
            /\ UNCHANGED muxVars
         \/ ~IsUt(i) /\ Register(i) /\ ut' = ut /\ running' = running
  BY DEF CreatePort, uts
<1>2. Moves(h, "addComp", x, y) /\ HandlerFrame
  BY <1>1, PcMoves
<1>3. Active(h) /\ x = "none" /\ ~Attached(h) /\ ~Held(h)
  BY <1>1 DEF Active, Busy, Attached, Held, CalmInv, Calls, Sending, Removing
<1>4. i \in Port /\ owner[i] = h /\ task[i] = "none" /\ ~Listens(i)
  BY <1>3, OwnPort DEF Listens
<1>5. hPc'[h] = "addComp" /\ task'[h] = x
  BY <1>2, MoveFacts
<1>6. Attached(h)' /\ ~Held(h)'
  BY <1>5 DEF Attached, Held
<1>7. "addComp" \in Busy \cup {"mapped"} /\ hPc[h] \in Busy /\ x \notin Sending \cup Removing
  BY <1>1, <1>3 DEF Busy, Sending, Removing
<1>8. /\ IsFn(ut', Port) /\ IsFn(running', Port)
      /\ \A j \in Port \ {i} : ut'[j] = ut[j] /\ running'[j] = running[j]
      /\ IsUt(i) => running'[i] = TRUE
      /\ Listens(i)' => IsUt(i)
      /\ Mux' /\ clients \subseteq clients' /\ clients' \subseteq clients \cup {i}
      /\ i \in clients' => ~IsUt(i)
  <2>0. i \notin clients /\ Mux /\ IsFn(ut, Port) /\ IsFn(running, Port)
    BY <1>3, OwnPort DEF CalmInv, Shapes
  <2>1. CASE /\ IsUt(i) /\ ut' = [ut EXCEPT ![i] = "wait"] /\ UNCHANGED muxVars
             /\ running' = [running EXCEPT ![i] = TRUE]
    <3>1. IsFn(ut', Port) /\ \A j \in Port \ {i} : ut'[j] = ut[j]
      BY <1>4, <2>0, <2>1 DEF IsFn
    <3>2. /\ IsFn(running', Port) /\ running'[i] = TRUE
          /\ \A j \in Port \ {i} : running'[j] = running[j]
      BY <1>4, <2>0, <2>1 DEF IsFn
    <3>3. clients' = clients /\ Mux'
      BY <2>0, <2>1 DEF muxVars, Mux
    <3> QED BY <2>0, <2>1, <3>1, <3>2, <3>3
  <2>2. CASE ~IsUt(i) /\ Register(i) /\ ut' = ut /\ running' = running
    <3>1. ~Listens(i)'
      BY <1>2, <1>4, <2>2 DEF Listens, HandlerFrame
    <3>2. Mux' /\ clients \subseteq clients' /\ clients' \subseteq clients \cup {i}
      BY <2>0, <2>2, Registers
    <3> QED BY <2>0, <2>2, <3>1, <3>2
  <2> QED BY <1>1, <2>1, <2>2
<1>9. comps' = comps /\ lists' = lists /\ portAt' = portAt /\ observed' = observed
  BY <1>1 DEF mgrVars
<1> HIDE DEF x, y
<1>10. Tables'
  BY <1>2, <1>3, <1>6, <1>7, <1>9, TablesActs DEF Removing
<1>11. Works'
  <2>1. x \notin Sending \cup {"dispose", "join", "drop"} /\ x \notin {"compose", "transmit"}
    BY <1>7 DEF Sending, Removing
  <2> QED BY <1>2, <1>8, <2>1, WorksActs
<1>12. Receivers'
  BY <1>2, <1>4, <1>6, <1>8, ReceiversActs
<1> QED BY <1>2, <1>3, <1>7, <1>8, <1>9, <1>10, <1>11, <1>12, SameIsFn, HandlerActs

\* Nothing of the receivers or the calls changes when a map request fills the tables.
LEMMA FillActs ==
  ASSUME CalmInv, NEW h \in Handler, NEW p \in {"addPort", "mapped"},
         hPc[h] \in {"addComp", "addPort"}, hPc' = [hPc EXCEPT ![h] = p],
         UNCHANGED <<muxVars, hId, lost, mapper, ports, uts, calls>>,
         IsFn(portAt', Key), Tables'
  PROVE  CalmInv'
<1> DEFINE x == task[h]
           y == tPort[h]
<1>1. Moves(h, p, x, y) /\ HandlerFrame
  BY PcMoves
<1>2. Active(h) /\ x = "none" /\ Attached(h) /\ hPc[h] \in Busy
  BY DEF Active, Busy, Attached, CalmInv, Calls, Sending, Removing
<1>3. hPc'[h] = p /\ task'[h] = x
  BY <1>1, MoveFacts
<1>4. Attached(h)'
  BY <1>3 DEF Attached
<1>5. p \in Busy \cup {"mapped"} /\ x \notin Sending \cup Removing
  BY <1>2 DEF Busy, Sending, Removing
<1>6. clients' = clients /\ monitor' = monitor /\ open' = open /\ ut' = ut /\ running' = running
  BY DEF muxVars, uts
<1> HIDE DEF x, y
<1>7. Works'
  <2>1. x \notin Sending \cup {"dispose", "join", "drop"} /\ x \notin {"compose", "transmit"}
    BY <1>5 DEF Sending, Removing
  <2>2. IsUt(hId[h]) => running'[hId[h]] = TRUE
    BY <1>2, <1>6 DEF CalmInv, Works
  <2> QED BY <1>1, <1>6, <2>1, <2>2, WorksActs
<1>8. Receivers'
  <2>1. Listens(hId[h])' <=> Listens(hId[h])
    BY <1>1, <1>6 DEF Listens, HandlerFrame
  <2> QED BY <1>1, <1>2, <1>4, <1>6, <2>1, OwnPort, ReceiversActs
<1>9. Mux'
  BY <1>6 DEF CalmInv, Mux
<1> QED BY <1>1, <1>2, <1>5, <1>6, <1>7, <1>8, <1>9, SameIsFn, HandlerActs

\* The component is added before its port.
LEMMA AddsComponentStep == ASSUME CalmInv, NEW h \in Handler, MapAddsComponent(h) PROVE CalmInv'
<1> DEFINE c == KeyOf[h].comp
<1>1. /\ hPc[h] = "addComp" /\ hPc' = [hPc EXCEPT ![h] = "addPort"]
      /\ AddComponent(c) /\ UNCHANGED <<muxVars, hId, lost, mapper, ports, uts, calls>>
  BY DEF MapAddsComponent
<1>2. Tables
  BY DEF CalmInv
<1>3. /\ comps' = comps \cup {c} /\ lists' = comps \cup {c}
      /\ portAt' = portAt /\ observed' = observed
  BY <1>1, <1>2 DEF AddComponent, Tables
<1>4. /\ hPc'[h] = "addPort" /\ \A g \in Handler \ {h} : hPc'[g] = hPc[g]
      /\ task' = task /\ hId' = hId
  BY <1>1 DEF CalmInv, Shapes, IsFn, calls
<1>5. ~Held(h) /\ ~Held(h)' /\ task[h] = "none"
  BY <1>1, <1>4 DEF Held, CalmInv, Calls, Sending, Removing
<1>6. \A g \in Handler : Held(g)' <=> Held(g)
  BY <1>4, <1>5 DEF Held
<1>7. ASSUME NEW g \in Handler
      PROVE  /\ Held(g)' => portAt'[KeyOf[g]] = hId'[g]
             /\ Held(g)' \/ hPc'[g] = "addPort" => KeyOf[g].comp \in comps'
             /\ hPc'[g] = "mapped" \/ task'[g] = "remove" => hId'[g] \in observed'
  <2>1. CASE g = h
    BY <1>3, <1>4, <1>5, <2>1
  <2>2. CASE g # h
    BY <1>2, <1>3, <1>4, <1>6, <2>2 DEF Tables
  <2> QED BY <2>1, <2>2
<1>8. \A k \in Key : portAt'[k] # 0 => \E g \in Handler : KeyOf[g] = k /\ Held(g)'
  BY <1>2, <1>3, <1>6 DEF Tables
<1>9. Tables'
  BY <1>3, <1>7, <1>8 DEF Tables
<1>10. IsFn(portAt', Key)
  BY <1>3 DEF CalmInv, Shapes
<1> QED BY <1>1, <1>9, <1>10, FillActs

\* The entry is free: no other connection is for the same port.
LEMMA AddsPortStep == ASSUME CalmInv, NEW h \in Handler, MapAddsPort(h) PROVE CalmInv'
<1> DEFINE k == KeyOf[h]
           i == hId[h]
<1>1. /\ hPc[h] = "addPort" /\ hPc' = [hPc EXCEPT ![h] = "mapped"]
      /\ AddPort(k, i) /\ UNCHANGED <<muxVars, hId, lost, mapper, ports, uts, calls>>
  BY DEF MapAddsPort
<1>2. Tables /\ Calls /\ Connections /\ Ids
  BY DEF CalmInv
<1>3. k \in Key /\ k.comp \in comps /\ Active(h) /\ ~Held(h) /\ task[h] = "none"
  BY <1>1, <1>2, KeyFacts DEF Tables, Active, Busy, Held, Calls, Sending, Removing
<1>4. portAt[k] = 0
  <2> SUFFICES ASSUME portAt[k] # 0 PROVE FALSE
    OBVIOUS
  <2>1. PICK g \in Handler : KeyOf[g] = k /\ Held(g)
    BY <1>2, <1>3 DEF Tables
  <2>2. Active(g) /\ g # h
    BY <1>2, <1>3, <2>1, Active1
  <2> QED BY <1>2, <1>3, <2>1, <2>2, OtherKey
<1>5. /\ comps' = comps /\ lists' = lists \cup {k.comp} /\ observed' = observed \cup {i}
      /\ portAt' = [portAt EXCEPT ![k] = i]
  BY <1>1, <1>3, <1>4 DEF AddPort
<1>6. lists' = comps'
  BY <1>2, <1>3, <1>5 DEF Tables
<1>7. /\ hPc'[h] = "mapped" /\ \A g \in Handler \ {h} : hPc'[g] = hPc[g]
      /\ task' = task /\ hId' = hId
  BY <1>1 DEF CalmInv, Shapes, IsFn, calls
<1>8. Held(h)' /\ \A g \in Handler \ {h} : Held(g)' <=> Held(g)
  BY <1>7 DEF Held
<1> HIDE DEF k
<1>9. IsFn(portAt', Key) /\ portAt'[k] = i /\ \A j \in Key \ {k} : portAt'[j] = portAt[j]
  BY <1>3, <1>5 DEF CalmInv, Shapes, IsFn
<1>10. ASSUME NEW g \in Handler
       PROVE  /\ Held(g)' => portAt'[KeyOf[g]] = hId'[g]
              /\ Held(g)' \/ hPc'[g] = "addPort" => KeyOf[g].comp \in comps'
              /\ hPc'[g] = "mapped" \/ task'[g] = "remove" => hId'[g] \in observed'
  <2>1. CASE g = h
    BY <1>3, <1>5, <1>7, <1>8, <1>9, <2>1 DEF k
  <2>2. CASE g # h
    <3>1. Held(g) => KeyOf[g] \in Key \ {k}
      BY <1>2, <1>3, <2>2, Active1, OtherKey, KeyFacts DEF k
    <3> QED BY <1>2, <1>5, <1>7, <1>8, <1>9, <2>2, <3>1 DEF Tables
  <2> QED BY <2>1, <2>2
<1>11. \A j \in Key : portAt'[j] # 0 => \E g \in Handler : KeyOf[g] = j /\ Held(g)'
  <2> SUFFICES ASSUME NEW j \in Key, portAt'[j] # 0
               PROVE  \E g \in Handler : KeyOf[g] = j /\ Held(g)'
    OBVIOUS
  <2>1. CASE j = k
    BY <1>8, <2>1 DEF k
  <2>2. CASE j # k
    <3>1. PICK g \in Handler : KeyOf[g] = j /\ Held(g)
      BY <1>2, <1>9, <2>2 DEF Tables
    <3>2. Held(g)'
      BY <1>8, <3>1
    <3> QED BY <3>1, <3>2
  <2> QED BY <2>1, <2>2
<1>12. Tables'
  BY <1>6, <1>10, <1>11 DEF Tables
<1> QED BY <1>1, <1>9, <1>12, FillActs

-----------------------------------------------------------------------------
(* The unmap request.                                                       *)

\* The unmap request leaves the port in the tables, until the adapter has removed it.
LEMMA UnmapStep == ASSUME CalmInv, NEW h \in Handler, Unmap(h) PROVE CalmInv'
<1> DEFINE y == tPort[h]
<1>1. /\ hPc[h] = "mapped" /\ MayRequest(h) /\ task[h] = "none"
      /\ hPc' = [hPc EXCEPT ![h] = "unmapping"] /\ task' = [task EXCEPT ![h] = "remove"]
      /\ UNCHANGED <<muxVars, mgrVars, hId, lost, mapper, ports, uts, arg, tPort>>
  BY DEF Unmap, TakesRequest
<1>2. Moves(h, "unmapping", "remove", y) /\ HandlerFrame
  BY <1>1, NoCall, ThreadFacts DEF Moves, HandlerFrame, mapper, ports
<1> HIDE DEF y
<1>3. Active(h) /\ Held(h) /\ Attached(h)
  BY <1>1 DEF Active, Held, Attached
<1>4. hPc'[h] = "unmapping" /\ task'[h] = "remove"
  BY <1>2, MoveFacts
<1>5. Held(h)' /\ Attached(h)'
  BY <1>4 DEF Held, Attached
<1>6. /\ clients' = clients /\ monitor' = monitor /\ open' = open
      /\ comps' = comps /\ lists' = lists /\ portAt' = portAt /\ observed' = observed
      /\ ut' = ut /\ running' = running
  BY <1>1 DEF muxVars, mgrVars, uts
<1>7. Tables'
  BY <1>1, <1>2, <1>3, <1>5, <1>6, TablesActs
<1>8. Works'
  <2>1. IsUt(hId[h]) => running'[hId[h]] = TRUE
    BY <1>3, <1>6 DEF CalmInv, Works
  <2>2. "remove" \notin Sending \cup {"dispose", "join", "drop"}
    BY DEF Sending
  <2> QED BY <1>2, <1>6, <2>1, <2>2, WorksActs
<1>9. Receivers'
  <2>1. Listens(hId[h])' <=> Listens(hId[h])
    BY <1>2, <1>6 DEF Listens, HandlerFrame
  <2> QED BY <1>2, <1>3, <1>5, <1>6, <2>1, OwnPort, ReceiversActs
<1>10. Mux'
  BY <1>6 DEF CalmInv, Mux
<1>11. \A g \in Handler \ {h} : KeyOf[g].comp = KeyOf[h].comp => hPc[g] \notin Busy
  <2>1. \A g \in lost : hPc[g] \notin Busy
    BY DEF CalmInv, Connections, Busy
  <2> QED BY <1>1, <2>1 DEF MayRequest
<1>12. /\ "unmapping" \in Busy \cup {"mapped"} /\ "remove" \notin Sending
       /\ "remove" \in {"none"} \cup Sending \cup Removing
  BY DEF Busy, Sending, Removing
<1> QED BY <1>2, <1>3, <1>6, <1>7, <1>8, <1>9, <1>10, <1>11, <1>12, SameIsFn, HandlerActs

\* The port id is forgotten when the adapter has removed the port.
LEMMA UnmappedStep == ASSUME CalmInv, NEW h \in Handler, Unmapped(h) PROVE CalmInv'
<1>1. /\ hPc[h] = "unmapping" /\ task[h] = "none" /\ hPc' = [hPc EXCEPT ![h] = "unmapped"]
      /\ ForgetTsi(h) /\ lost' = lost
      /\ UNCHANGED <<muxVars, mgrVars, hId, ports, uts, calls>>
  BY DEF Unmapped
<1>2. hId[h] # 0
  BY <1>1 DEF CalmInv, Ids, Active, Busy
<1>3. tsiOf' = [tsiOf EXCEPT ![hId[h]] = NoThread]
  BY <1>1 DEF ForgetTsi
<1>4. IsFn(dbTsi', Handler) /\ \A g \in Handler : dbTsi'[g] \in {0, hId[g]}
  <2>1. CASE dbTsi' = dbTsi
    BY <2>1 DEF CalmInv, Shapes, Ids
  <2>2. CASE dbTsi' = [dbTsi EXCEPT ![h] = 0]
    BY <2>2 DEF CalmInv, Shapes, Ids, IsFn
  <2> QED BY <1>1, <2>1, <2>2 DEF ForgetTsi
<1>5. Connections'
  BY <1>1, GoingKeeps
<1>6. lost' \subseteq Handler /\ "unmapped" \notin Busy \cup {"mapped"}
  BY <1>1 DEF CalmInv, Shapes, Busy
<1> QED BY <1>1, <1>2, <1>3, <1>4, <1>5, <1>6, ConnectionActs

-----------------------------------------------------------------------------
(* removePort, for the unmap request: no other thread removes ports while   *)
(* the adapter is not reset.                                                *)

\* Who removes a port is a handler that removes its own.
LEMMA RemoverFacts ==
  ASSUME CalmInv, NEW t \in Thread, task[t] \in Removing
  PROVE  /\ t \in Handler /\ hPc[t] = "unmapping" /\ arg[t] = KeyOf[t]
         /\ Active(t) /\ Held(t) /\ portAt[KeyOf[t]] = hId[t]
         /\ task[t] # "remove" => tPort[t] = hId[t]
         /\ KeyOf[t] \in Key /\ KeyOf[t].comp \in comps /\ comps = lists
<1>1. t \in Handler
  BY ThreadFacts DEF CalmInv, Receivers, Removing, Receiving
<1>2. hPc[t] = "unmapping" /\ arg[t] = KeyOf[t]
  BY <1>1 DEF CalmInv, Calls
<1>3. Active(t) /\ Held(t)
  BY <1>2 DEF Active, Busy, Held, Removing
<1>4. portAt[KeyOf[t]] = hId[t] /\ KeyOf[t].comp \in comps /\ comps = lists
  BY <1>1, <1>3 DEF CalmInv, Tables
<1>5. task[t] # "remove" => tPort[t] = hId[t]
  BY <1>1 DEF CalmInv, Works, Removing
<1> QED BY <1>1, <1>2, <1>3, <1>4, <1>5, KeyFacts

\* The rest of what a step of the removal does, given what it does to the tables, to the
\* state of the receivers and to that of the multiplexer.
LEMMA RemovalActs ==
  ASSUME CalmInv, NEW h \in Handler, task[h] \in Removing,
         NEW x \in {"none"} \cup Removing, NEW y,
         task' = [task EXCEPT ![h] = x], tPort' = [tPort EXCEPT ![h] = y],
         UNCHANGED <<handlers, mapper, ports, arg, ut>>,
         x \in {"dispose", "join", "drop"} => y = hId[h],
         x \in {"remove", "dispose"} => task[h] \in {"remove", "dispose"} /\ running' = running,
         IsFn(running', Port), \A i \in Port \ {hId[h]} : running'[i] = running[i],
         Listens(hId[h]) => x \in {"remove", "dispose", "join"},
         clients' \subseteq clients, clients \subseteq clients' \cup {hId[h]},
         hId[h] \in clients' => x \in {"remove", "dispose"},
         IsFn(portAt', Key), Mux', Tables'
  PROVE  CalmInv'
<1> DEFINE p == hPc[h]
<1>1. p = "unmapping" /\ hPc[h] = p /\ Active(h) /\ Held(h)
  BY RemoverFacts, ThreadFacts
<1>2. Moves(h, p, x, y) /\ HandlerFrame
  BY NoMove DEF Moves, HandlerFrame, handlers, mapper, ports
<1> HIDE DEF p
<1>3. hPc'[h] = p /\ task'[h] = x
  BY <1>2, MoveFacts
<1>4. Attached(h)' <=> x \in {"remove", "dispose"}
  BY <1>1, <1>3 DEF Attached
<1>5. Attached(h) <=> task[h] \in {"remove", "dispose"}
  BY <1>1 DEF Attached
<1>6. hId[h] \in Port /\ (task[hId[h]] # "none" => ut'[hId[h]] = "callback")
  BY <1>1, OwnPort
<1>7. Works'
  <2>1. Attached(h)' /\ IsUt(hId[h]) => running'[hId[h]] = TRUE
    BY <1>4, <1>5 DEF CalmInv, Works
  <2>2. x \notin Sending /\ x \notin {"compose", "transmit"}
    BY DEF Sending, Removing
  <2>3. \A g \in Handler \ {h} : hId[g] \in clients => hId[g] \in clients'
    <3> SUFFICES ASSUME NEW g \in Handler \ {h}, hId[g] \in clients PROVE hId[g] \in clients'
      OBVIOUS
    <3>1. hId[g] # hId[h]
      BY <1>1, OwnPort, OtherPort DEF CalmInv
    <3> QED BY <3>1
  <2> QED BY <1>2, <2>1, <2>2, <2>3, WorksActs
<1>8. Receivers'
  <2>1. Listens(hId[h])' <=> Listens(hId[h])
    BY DEF Listens, handlers
  <2>2. Listens(hId[h])' => IsUt(hId[h]) /\ (Attached(h)' \/ x = "join")
    BY <1>1, <1>4, <2>1, OwnPort
  <2>3. hId[h] \in clients' => ~IsUt(hId[h]) /\ Attached(h)'
    BY <1>1, <1>4, OwnPort
  <2> QED BY <1>2, <1>6, <2>2, <2>3, ReceiversActs
<1>9. p \in Busy \cup {"mapped"} /\ (p \in Busy => hPc[h] \in Busy)
  BY <1>1 DEF Busy
<1>10. x \in {"none"} \cup Sending \cup Removing /\ x \notin Sending
  BY DEF Sending, Removing
<1>11. IsFn(ut', Port)
  BY SameIsFn
<1> QED BY <1>1, <1>2, <1>7, <1>8, <1>9, <1>10, <1>11, HandlerActs

\* The others have their ports in the table as before.
LEMMA RemovalMoves ==
  ASSUME CalmInv, NEW h \in Handler, task[h] \in Removing, NEW x, NEW y,
         task' = [task EXCEPT ![h] = x], tPort' = [tPort EXCEPT ![h] = y],
         UNCHANGED <<handlers, mapper, ports, arg>>
  PROVE  /\ hPc' = hPc /\ hId' = hId /\ task'[h] = x /\ hPc[h] = "unmapping"
         /\ Held(h)' <=> x # "none"
         /\ \A g \in Handler \ {h} : task'[g] = task[g] /\ (Held(g)' <=> Held(g))
<1>1. h \in Thread /\ hPc[h] = "unmapping"
  BY RemoverFacts, ThreadFacts
<1>2. task'[h] = x /\ \A g \in Handler \ {h} : task'[g] = task[g]
  BY <1>1, ThreadFacts DEF CalmInv, Shapes, IsFn
<1>3. hPc' = hPc /\ hId' = hId
  BY DEF handlers
<1> QED BY <1>1, <1>2, <1>3 DEF Held

\* The lookup finds the port, and it is not observed any more.
LEMMA RemoveChecksStep == ASSUME CalmInv, NEW t \in Thread, RemoveChecks(t) PROVE CalmInv'
<1>1. task[t] = "remove" /\ task[t] \in Removing
  BY DEF RemoveChecks, Removing
<1>2. /\ t \in Handler /\ arg[t] = KeyOf[t] /\ Active(t) /\ Held(t) /\ portAt[KeyOf[t]] = hId[t]
      /\ KeyOf[t].comp \in comps /\ comps = lists /\ hPc[t] = "unmapping"
  BY <1>1, RemoverFacts
<1>3. hId[t] # 0 /\ Known(arg[t])
  BY <1>2, OwnPort DEF Known
<1>4. /\ task' = [task EXCEPT ![t] = "dispose"] /\ tPort' = [tPort EXCEPT ![t] = hId[t]]
      /\ observed' = observed \ {hId[t]} /\ UNCHANGED <<comps, lists, portAt>>
      /\ UNCHANGED <<muxVars, handlers, mapper, ports, uts, arg>>
  BY <1>2, <1>3 DEF RemoveChecks, StopObserving
<1>5. clients' = clients /\ monitor' = monitor /\ open' = open /\ running' = running /\ ut' = ut
  BY <1>4 DEF muxVars, uts
<1>6. Tables'
  <2>1. /\ hPc' = hPc /\ hId' = hId /\ task'[t] = "dispose" /\ hPc[t] = "unmapping"
        /\ Held(t)'
        /\ \A g \in Handler \ {t} : task'[g] = task[g] /\ (Held(g)' <=> Held(g))
    BY <1>1, <1>2, <1>4, RemovalMoves
  <2>2. \A g \in Handler : Held(g)' <=> Held(g)
    BY <1>2, <2>1
  <2>3. ASSUME NEW g \in Handler, hPc'[g] = "mapped" \/ task'[g] = "remove"
        PROVE  hId'[g] \in observed'
    <3>1. g # t /\ (hPc[g] = "mapped" \/ task[g] = "remove")
      BY <2>1, <2>3
    <3>2. hId[g] \in observed
      BY <3>1 DEF CalmInv, Tables
    <3>3. hId[g] # hId[t]
      BY <1>2, <1>3, <3>1, OtherPort DEF CalmInv
    <3> QED BY <1>4, <2>1, <3>2, <3>3
  <2> QED BY <1>4, <2>1, <2>2, <2>3 DEF CalmInv, Tables
<1>7. Mux'
  BY <1>5 DEF CalmInv, Mux
<1>8. "dispose" \in {"none"} \cup Removing
  BY DEF Removing
<1>9. hId[t] \in clients' => "dispose" \in {"remove", "dispose"}
  OBVIOUS
<1>10. IsFn(running', Port) /\ IsFn(portAt', Key)
  BY <1>4, <1>5, SameIsFn
<1> QED BY <1>1, <1>2, <1>4, <1>5, <1>6, <1>7, <1>8, <1>10, RemovalActs

\* The table is never read in vain.
LEMMA RemoveNeverFails == ASSUME CalmInv, NEW t \in Thread PROVE ~RemoveFails(t)
<1> SUFFICES ASSUME RemoveFails(t) PROVE FALSE
  OBVIOUS
<1>1. task[t] = "dispose" /\ task[t] \in Removing /\ portAt[arg[t]] # tPort[t]
  BY DEF RemoveFails, Removing
<1> QED BY <1>1, RemoverFacts

\* Steps that leave the table of the adapter alone.
LEMMA RemovalTables ==
  ASSUME CalmInv, NEW h \in Handler, task[h] \in Removing,
         NEW x, NEW y, x \notin {"none", "remove"},
         task' = [task EXCEPT ![h] = x], tPort' = [tPort EXCEPT ![h] = y],
         UNCHANGED <<mgrVars, handlers, mapper, ports, arg>>
  PROVE  Tables' /\ IsFn(portAt', Key)
<1>1. comps' = comps /\ lists' = lists /\ portAt' = portAt /\ observed' = observed
  BY DEF mgrVars
<1>2. /\ hPc' = hPc /\ hId' = hId /\ task'[h] = x /\ hPc[h] = "unmapping"
      /\ Held(h)' <=> x # "none"
      /\ \A g \in Handler \ {h} : task'[g] = task[g] /\ (Held(g)' <=> Held(g))
  BY RemovalMoves
<1>3. \A g \in Handler : Held(g)' <=> Held(g)
  BY <1>2, RemoverFacts, ThreadFacts
<1>4. \A g \in Handler : hPc'[g] = "mapped" \/ task'[g] = "remove"
                           => hPc[g] = "mapped" \/ task[g] = "remove"
  BY <1>2
<1> QED BY <1>1, <1>2, <1>3, <1>4 DEF CalmInv, Tables, Shapes

\* dispose stops the thread of the port, or takes it from the multiplexer.
LEMMA RemoveDisposesStep ==
  ASSUME CalmInv, NEW t \in Thread, RemoveDisposes(t)
  PROVE  CalmInv'
<1>1. task[t] = "dispose" /\ task[t] \in Removing
  BY DEF RemoveDisposes, Removing
<1>2. /\ t \in Handler /\ arg[t] = KeyOf[t] /\ Active(t) /\ portAt[KeyOf[t]] = hId[t]
      /\ hPc[t] = "unmapping"
  BY <1>1, RemoverFacts
<1> DEFINE i == hId[t]
<1>3. /\ Dispose(t, i) /\ tPort' = [tPort EXCEPT ![t] = i]
      /\ UNCHANGED <<mgrVars, handlers, mapper, ports, arg>>
  BY <1>2 DEF RemoveDisposes
<1>4. i \in Port /\ i = hId[t] /\ (i \in clients => ~IsUt(i)) /\ (Listens(i) => IsUt(i))
  BY <1>2, OwnPort
<1>5. IsUt(i) => running[i] = TRUE
  BY <1>1, <1>2 DEF CalmInv, Works, Attached
<1> HIDE DEF i
<1>6. /\ "join" \in {"none"} \cup Removing /\ "drop" \in {"none"} \cup Removing
      /\ "join" \notin {"none", "remove"} /\ "drop" \notin {"none", "remove"}
  BY DEF Removing
<1>7. IsFn(running, Port)
  BY DEF CalmInv, Shapes
<1>8. CASE IsUt(i)
  <2>1. /\ task' = [task EXCEPT ![t] = "join"] /\ running' = [running EXCEPT ![i] = FALSE]
        /\ ut' = ut /\ UNCHANGED muxVars
    BY <1>3, <1>5, <1>8 DEF Dispose
  <2>2. IsFn(running', Port) /\ \A j \in Port \ {i} : running'[j] = running[j]
    BY <1>4, <1>7, <2>1 DEF IsFn
  <2>3. Mux' /\ clients' = clients
    BY <2>1 DEF muxVars, CalmInv, Mux
  <2>4. Tables' /\ IsFn(portAt', Key)
    BY <1>1, <1>2, <1>3, <1>6, <2>1, RemovalTables
  <2> QED BY <1>1, <1>2, <1>3, <1>4, <1>6, <1>8, <2>1, <2>2, <2>3, <2>4, RemovalActs
<1>9. CASE ~IsUt(i)
  <2>1. PICK x \in {"join", "drop"} : task' = [task EXCEPT ![t] = x]
    BY <1>3, <1>9 DEF Dispose
  <2>2. Unregister(t, i) /\ ut' = ut /\ running' = running
    BY <1>3, <1>9 DEF Dispose, uts
  <2>3. clients' = clients \ {i} /\ Mux'
    <3>1. /\ monitor = NoThread /\ clients' = clients \ {i} /\ open' = open
          /\ monitor' = IF clients = {i} THEN t ELSE NoThread
      BY <2>2 DEF Unregister
    <3>2. CASE clients = {i}
      BY <3>1, <3>2 DEF Mux
    <3>3. CASE clients # {i}
      BY <3>1, <3>3 DEF CalmInv, Mux
    <3> QED BY <3>1, <3>2, <3>3
  <2>4. Tables' /\ IsFn(portAt', Key)
    BY <1>1, <1>2, <1>3, <1>6, <2>1, RemovalTables
  <2>5. x \in {"none"} \cup Removing /\ x \notin {"remove", "dispose"}
    BY <2>1, <1>6
  <2> QED BY <1>1, <1>2, <1>3, <1>4, <1>7, <1>9, <2>1, <2>2, <2>3, <2>4, <2>5, RemovalActs
<1> QED BY <1>8, <1>9

\* When the wait is over nobody receives for the port.
LEMMA RemoveJoinsStep == ASSUME CalmInv, NEW t \in Thread, RemoveJoins(t) PROVE CalmInv'
<1>1. task[t] = "join" /\ task[t] \in Removing
  BY DEF RemoveJoins, Removing
<1>2. t \in Handler /\ Active(t) /\ tPort[t] = hId[t] /\ hPc[t] = "unmapping"
  BY <1>1, RemoverFacts
<1> DEFINE y == tPort[t]
<1>3. /\ task' = [task EXCEPT ![t] = "drop"] /\ tPort' = [tPort EXCEPT ![t] = y] /\ y = hId[t]
      /\ UNCHANGED <<mgrVars, handlers, mapper, ports, uts, arg>>
  BY <1>2, NoCall DEF RemoveJoins
<1> HIDE DEF y
<1>4. clients' = clients /\ Mux'
  <2>1. CASE UNCHANGED muxVars
    BY <2>1 DEF muxVars, CalmInv, Mux
  <2>2. CASE CaptureJoined(t)
    <3>1. monitor = t /\ clients' = clients /\ monitor' = NoThread
      BY <2>2 DEF CaptureJoined
    <3>2. clients = {}
      BY <3>1, ThreadFacts DEF CalmInv, Mux
    <3> QED BY <3>1, <3>2 DEF Mux
  <2> QED BY <2>1, <2>2 DEF RemoveJoins
<1>5. ~Listens(hId[t])
  <2>1. CASE IsUt(hId[t])
    BY <1>2, <2>1 DEF RemoveJoins, Listens
  <2>2. CASE ~IsUt(hId[t])
    BY <1>2, <2>2, OwnPort
  <2> QED BY <2>1, <2>2
<1>6. hId[t] \notin clients
  <2>1. ~Attached(t)
    BY <1>1, <1>2 DEF Attached
  <2> QED BY <1>2, <2>1, OwnPort
<1>7. /\ "drop" \in {"none"} \cup Removing /\ "drop" \notin {"none", "remove"}
      /\ "drop" \notin {"remove", "dispose"}
  BY DEF Removing
<1>8. Tables' /\ IsFn(portAt', Key)
  BY <1>1, <1>2, <1>3, <1>7, RemovalTables
<1>9. running' = running /\ ut' = ut /\ IsFn(running', Port)
  BY <1>3, SameIsFn DEF uts
<1> QED BY <1>1, <1>2, <1>3, <1>4, <1>5, <1>6, <1>7, <1>8, <1>9, RemovalActs

\* The component only goes when it has no other port.
LEMMA RemoveDropsStep == ASSUME CalmInv, NEW t \in Thread, RemoveDrops(t) PROVE CalmInv'
<1> DEFINE k == KeyOf[t]
<1>1. task[t] = "drop" /\ task[t] \in Removing
  BY DEF RemoveDrops, Removing
<1>2. /\ t \in Handler /\ Active(t) /\ arg[t] = k /\ hPc[t] = "unmapping" /\ k \in Key
      /\ k.comp \in comps /\ comps = lists
  BY <1>1, RemoverFacts
<1>3. /\ task' = [task EXCEPT ![t] = "none"] /\ tPort' = [tPort EXCEPT ![t] = 0]
      /\ DropPort(k) /\ UNCHANGED <<muxVars, handlers, mapper, ports, uts, arg>>
  BY <1>2 DEF RemoveDrops, Return
<1>4. clients' = clients /\ monitor' = monitor /\ open' = open /\ running' = running /\ ut' = ut
  BY <1>3 DEF muxVars, uts
<1>5. ~Listens(hId[t]) /\ hId[t] \notin clients
  <2>1. ~Attached(t)
    BY <1>1, <1>2 DEF Attached
  <2> QED BY <1>1, <1>2, <2>1, OwnPort
<1>6. /\ portAt' = [portAt EXCEPT ![k] = 0] /\ observed' = observed
      /\ IF NamesOf(k.comp) \subseteq {k.name}
         THEN lists' = lists \ {k.comp} /\ comps' = comps \ {k.comp}
         ELSE lists' = lists /\ comps' = comps
  BY <1>3 DEF DropPort
<1>7. IsFn(portAt', Key) /\ portAt'[k] = 0 /\ \A j \in Key \ {k} : portAt'[j] = portAt[j]
  BY <1>2, <1>6 DEF CalmInv, Shapes, IsFn
<1>8. /\ hPc' = hPc /\ hId' = hId /\ task'[t] = "none" /\ hPc[t] = "unmapping"
      /\ ~Held(t)'
      /\ \A g \in Handler \ {t} : task'[g] = task[g] /\ (Held(g)' <=> Held(g))
  BY <1>1, <1>2, <1>3, RemovalMoves
<1>9. \A g \in Handler \ {t} : Active(g) => KeyOf[g] # k
  BY <1>2, OtherKey DEF CalmInv
<1>10. ASSUME NEW g \in Handler \ {t}, Held(g)
       PROVE  Active(g) /\ KeyOf[g].comp \in comps' /\ portAt'[KeyOf[g]] = hId[g]
  <2>1. Active(g) /\ KeyOf[g] # k /\ KeyOf[g] \in Key
    BY <1>9, <1>10, Active1, KeyFacts DEF CalmInv
  <2>2. KeyOf[g].comp \in comps /\ portAt[KeyOf[g]] = hId[g] /\ hId[g] # 0
    BY <1>10, <2>1, OwnPort DEF CalmInv, Tables
  <2>3. CASE KeyOf[g].comp = k.comp
    <3>1. /\ KeyOf[g].name # k.name /\ KeyOf[g].name \in PortName
          /\ KeyOf[g] = [comp |-> k.comp, name |-> KeyOf[g].name]
      BY <1>2, <2>1, <2>3, KeyFacts
    <3>2. KeyOf[g].name \in NamesOf(k.comp)
      BY <2>2, <3>1 DEF NamesOf
    <3> QED BY <1>6, <1>7, <2>1, <2>2, <3>1, <3>2
  <2>4. CASE KeyOf[g].comp # k.comp
    BY <1>6, <1>7, <2>1, <2>2, <2>4
  <2> QED BY <2>3, <2>4
<1>11. ASSUME NEW g \in Handler \ {t}, hPc[g] = "addPort" PROVE KeyOf[g].comp \in comps'
  <2>1. KeyOf[g].comp # k.comp
    BY <1>2, <1>11 DEF CalmInv, Connections, Busy
  <2>2. KeyOf[g].comp \in comps
    BY <1>11 DEF CalmInv, Tables
  <2> QED BY <1>6, <2>1, <2>2
<1>12. \A j \in Key : portAt'[j] # 0 => \E g \in Handler : KeyOf[g] = j /\ Held(g)'
  <2> SUFFICES ASSUME NEW j \in Key, portAt'[j] # 0
               PROVE  \E g \in Handler : KeyOf[g] = j /\ Held(g)'
    OBVIOUS
  <2>1. j # k /\ portAt[j] # 0
    BY <1>7
  <2>2. PICK g \in Handler : KeyOf[g] = j /\ Held(g)
    BY <2>1 DEF CalmInv, Tables
  <2>3. g # t
    BY <2>1, <2>2
  <2> QED BY <1>8, <2>2, <2>3
<1>13. comps' = lists'
  BY <1>2, <1>6
<1> HIDE DEF k
<1>14. ASSUME NEW g \in Handler
       PROVE  /\ Held(g)' => portAt'[KeyOf[g]] = hId'[g]
              /\ Held(g)' \/ hPc'[g] = "addPort" => KeyOf[g].comp \in comps'
              /\ hPc'[g] = "mapped" \/ task'[g] = "remove" => hId'[g] \in observed'
  <2>1. CASE g = t
    BY <1>8, <2>1
  <2>2. CASE g # t
    <3>1. hPc[g] = "mapped" \/ task[g] = "remove" => hId[g] \in observed
      BY DEF CalmInv, Tables
    <3> QED BY <1>6, <1>8, <1>10, <1>11, <2>2, <3>1
  <2> QED BY <2>1, <2>2
<1>15. Tables'
  BY <1>12, <1>13, <1>14 DEF Tables
<1>16. Mux' /\ IsFn(running', Port)
  BY <1>4, SameIsFn DEF CalmInv, Mux
<1> QED BY <1>1, <1>2, <1>3, <1>4, <1>5, <1>7, <1>15, <1>16, RemovalActs

\* Every step of removePort.
LEMMA RemovesStep == ASSUME CalmInv, NEW t \in Thread, Removes(t) PROVE CalmInv'
BY RemoveChecksStep, RemoveNeverFails, RemoveDisposesStep, RemoveJoinsStep, RemoveDropsStep
   DEF Removes

\* A receiving thread does not get to the reset.
LEMMA ReceivesStep ==
  ASSUME CalmInv, NEW t \in Receiver, Receives(t), resetter = NoThread, resetter' = NoThread
  PROVE  CalmInv'
<1>1. task[t] # "reset"
  BY DEF CalmInv, Receivers, Receiving
<1>2. ~ResetComponent(t) /\ ~ResetPort(t) /\ ~ResetEnds(t)
  BY <1>1 DEF ResetComponent, ResetPort, ResetEnds
<1> QED BY <1>2, NotifyStep, UpdateStep, EnqueueStep DEF Receives

\* Every step of a connection and of its handler.
LEMMA ConnectionsStep ==
  ASSUME CalmInv, NEW h \in Handler, cuts = 0, cuts' = 0,
         \/ Connect(h) \/ Announce(h) \/ Lose(h) \/ EndConnection(h) \/ StreamEnds(h) \/ Reap(h)
         \/ Map(h) \/ HandlerStep(h) \/ Unmap(h) \/ Send(h)
  PROVE  CalmInv'
<1>1. CASE HandlerStep(h)
  BY <1>1, CreateStep, AddsComponentStep, AddsPortStep, UnmappedStep, SendingStep DEF HandlerStep
<1> QED BY <1>1, ConnectStep, AnnounceStep, LoseStep, EndStep, ReapStep, MapStep, UnmapStep,
           SendStep

\* Nothing changes.
LEMMA StutterStep == ASSUME CalmInv, UNCHANGED vars PROVE CalmInv'
<1>1. UNCHANGED <<muxVars, mgrVars, handlers, mapper, ports, uts, calls>>
  BY DEF vars
<1>2. /\ hPc' = hPc /\ hId' = hId /\ lost' = lost /\ dbTsi' = dbTsi /\ tsiOf' = tsiOf
      /\ owner' = owner /\ lastId' = lastId /\ comps' = comps /\ lists' = lists
      /\ portAt' = portAt /\ observed' = observed /\ ut' = ut /\ running' = running
      /\ task' = task /\ tPort' = tPort /\ arg' = arg
      /\ clients' = clients /\ open' = open /\ monitor' = monitor
  BY <1>1 DEF muxVars, mgrVars, handlers, mapper, ports, uts, calls
<1>3. \A g : /\ (Active(g)' <=> Active(g)) /\ (Held(g)' <=> Held(g))
             /\ (Attached(g)' <=> Attached(g)) /\ (Gone(g)' <=> Gone(g))
             /\ (IsUt(g)' <=> IsUt(g)) /\ (Owned(g)' <=> Owned(g)) /\ (Listens(g)' <=> Listens(g))
  BY <1>2 DEF Active, Held, Attached, Gone, IsUt, Owned, Listens
<1>4. Shapes' /\ Ids' /\ Calls' /\ Mux' /\ Routes'
  BY <1>2, <1>3 DEF CalmInv, Shapes, Ids, Calls, Mux, Routes
<1>5. Connections' /\ Tables' /\ Works'
  BY <1>2, <1>3 DEF CalmInv, Connections, Tables, Works
<1>6. \A i : Attached(owner[i])' <=> Attached(owner[i])
  BY <1>2 DEF Attached
<1>7. Receivers'
  BY <1>2, <1>3, <1>6 DEF CalmInv, Receivers
<1> QED BY <1>4, <1>5, <1>7 DEF CalmInv

\* While it is calm, every step keeps the tables.
LEMMA CalmNext == ASSUME CalmInv, Calm, Calm', [Next]_vars PROVE CalmInv'
<1>1. cuts = 0 /\ cuts' = 0 /\ resetter = NoThread /\ resetter' = NoThread
  BY DEF Calm
<1>2. CASE UNCHANGED vars
  BY <1>2, StutterStep
<1>3. ASSUME NEW h \in Handler,
             \/ Connect(h) \/ Announce(h) \/ Lose(h) \/ EndConnection(h) \/ StreamEnds(h) \/ Reap(h)
             \/ Map(h) \/ HandlerStep(h) \/ Unmap(h) \/ Send(h)
      PROVE  CalmInv'
  BY <1>1, <1>3, ConnectionsStep
<1>4. ASSUME NEW t \in Thread, Removes(t) PROVE CalmInv'
  BY <1>4, RemovesStep
<1>5. ASSUME NEW t \in Receiver, Receives(t) PROVE CalmInv'
  BY <1>1, <1>5, ReceivesStep
<1>6. ASSUME NEW i \in Port, DatagramArrives(i) \/ SocketIsClosed(i) PROVE CalmInv'
  BY <1>6, DatagramStep, SocketStep
<1>7. CASE FrameArrives \/ FrameIsDelivered \/ CaptureLoops
  BY <1>7, CaptureStep
<1> QED BY <1>2, <1>3, <1>4, <1>5, <1>6, <1>7 DEF Next, Receiver

-----------------------------------------------------------------------------
(* Who is cut and who resets the adapter.                                   *)

\* No cut is forgotten, and the first reset is the one of a thread that finds no handler.
GhostStep ==
  /\ cuts' = cuts \/ cuts' = cuts + 1
  /\ \/ resetter' = resetter
     \/ /\ resetter = NoThread /\ cuts' = cuts
        /\ \E t \in Receiver :
             resetter' = t /\ task[t] = "enqueue" /\ tsiOf[tPort[t]] = NoThread

\* A handler that dies cuts its connection.
LEMMA DiesGhost == ASSUME NEW t, Dies(t) PROVE GhostStep
BY DEF Dies, GhostStep

\* The connections reset nothing.
LEMMA HandlerGhost ==
  ASSUME NEW h \in Handler,
         \/ Connect(h) \/ Announce(h) \/ Lose(h) \/ EndConnection(h) \/ StreamEnds(h) \/ Reap(h)
         \/ Map(h) \/ HandlerStep(h) \/ Unmap(h) \/ Send(h)
  PROVE  GhostStep
<1>1. CASE Lose(h) \/ EndConnection(h)
  BY <1>1 DEF Lose, EndConnection, GhostStep
<1>2. CASE SendComposes(h)
  BY <1>2, DiesGhost DEF SendComposes, Proceed, GhostStep, ghosts
<1>3. CASE SendChecks(h) \/ SendEnds(h) \/ Send(h)
  BY <1>3 DEF SendChecks, SendEnds, Send, Proceed, GhostStep, ghosts
<1>4. CASE Connect(h) \/ Announce(h) \/ StreamEnds(h) \/ Reap(h)
  BY <1>4 DEF Connect, Announce, StreamEnds, Reap, GhostStep, ghosts
<1>5. CASE Map(h) \/ Unmap(h) \/ Unmapped(h)
  BY <1>5 DEF Map, Unmap, Unmapped, GhostStep, ghosts
<1>6. CASE CreatePort(h) \/ MapAddsComponent(h) \/ MapAddsPort(h)
  BY <1>6 DEF CreatePort, MapAddsComponent, MapAddsPort, GhostStep, ghosts
<1> QED BY <1>1, <1>2, <1>3, <1>4, <1>5, <1>6 DEF HandlerStep

\* removePort resets nothing.
LEMMA RemovesGhost == ASSUME NEW t \in Thread, Removes(t) PROVE GhostStep
<1>1. CASE RemoveFails(t)
  BY <1>1, DiesGhost DEF RemoveFails
<1>2. CASE RemoveChecks(t) \/ RemoveDisposes(t) \/ RemoveJoins(t) \/ RemoveDrops(t)
  BY <1>2 DEF RemoveChecks, RemoveDisposes, RemoveJoins, RemoveDrops, GhostStep, ghosts
<1> QED BY <1>1, <1>2 DEF Removes

\* A receiving thread resets the adapter when it finds no handler.
LEMMA ReceivesGhost == ASSUME NEW t \in Receiver, Receives(t) PROVE GhostStep
<1>1. CASE Notify(t) \/ Update(t)
  BY <1>1 DEF Notify, Update, GhostStep, ghosts
<1>2. CASE Enqueue(t)
  BY <1>2 DEF Enqueue, GhostStep
<1>3. CASE ResetComponent(t)
  BY <1>3, DiesGhost DEF ResetComponent, GhostStep, ghosts
<1>4. CASE ResetPort(t) \/ ResetEnds(t)
  BY <1>4 DEF ResetPort, ResetEnds, GhostStep, ghosts
<1> QED BY <1>1, <1>2, <1>3, <1>4 DEF Receives

\* Every step is one of these.
LEMMA NextGhost == [Next]_vars => GhostStep
<1> SUFFICES ASSUME [Next]_vars PROVE GhostStep
  OBVIOUS
<1>1. CASE UNCHANGED vars
  BY <1>1 DEF vars, ghosts, GhostStep
<1>2. ASSUME NEW i \in Port, DatagramArrives(i) \/ SocketIsClosed(i) PROVE GhostStep
  BY <1>2 DEF DatagramArrives, SocketIsClosed, GhostStep, ghosts
<1>3. CASE FrameArrives \/ FrameIsDelivered \/ CaptureLoops
  BY <1>3 DEF FrameArrives, FrameIsDelivered, CaptureLoops, GhostStep, ghosts
<1> QED BY <1>1, <1>2, <1>3, HandlerGhost, RemovesGhost, ReceivesGhost DEF Next, Receiver

\* The invariant holds at the start.
LEMMA InvInit == Init => Inv
<1> SUFFICES ASSUME Init PROVE Inv
  OBVIOUS
<1>1. cuts = 0 /\ resetter = NoThread
  BY DEF Init
<1>2. NoThread \notin Port
  BY ThreadAssumption
<1> QED BY <1>1, <1>2, CalmInit DEF Inv

\* The invariant is inductive: what is calm after a step was calm before it.
LEMMA InvNext == Inv /\ [Next]_vars => Inv'
<1> SUFFICES ASSUME Inv, [Next]_vars PROVE Inv'
  OBVIOUS
<1>1. cuts \in Nat /\ GhostStep
  BY NextGhost DEF Inv
<1>2. cuts' \in Nat /\ (cuts > 0 => cuts' > 0) /\ (cuts' = 0 => cuts = 0)
  BY <1>1 DEF GhostStep
<1>3. resetter' = NoThread => resetter = NoThread
  BY <1>1, ThreadFacts DEF GhostStep
<1>4. resetter' \in Port => cuts' > 0
  <2> SUFFICES ASSUME resetter' \in Port, cuts' = 0 PROVE FALSE
    BY <1>2
  <2>1. resetter \notin Port
    BY <1>2 DEF Inv
  <2>2. /\ resetter = NoThread
        /\ \E t \in Receiver : resetter' = t /\ task[t] = "enqueue" /\ tsiOf[tPort[t]] = NoThread
    BY <1>1, <2>1 DEF GhostStep
  <2>3. CalmInv
    BY <1>2, <2>2 DEF Inv, Calm
  <2> QED BY <2>2, <2>3, PortFindsHandler
<1>5. Calm' => CalmInv'
  <2> SUFFICES ASSUME Calm' PROVE CalmInv'
    OBVIOUS
  <2>1. Calm
    BY <1>2, <1>3 DEF Calm
  <2> QED BY <2>1, CalmNext DEF Inv
<1> QED BY <1>2, <1>4, <1>5 DEF Inv

-----------------------------------------------------------------------------
(* The theorems.                                                            *)

\* While no connection was cut and the adapter was not reset, the tables of the mapper,
\* of ComponentMgr and of the multiplexer are those that the requests of the handlers
\* have made (TitanPortHandler, TestAdapter, ComponentMgr).
THEOREM TablesInvariant == Spec => []Inv
<1>1. Init => Inv
  BY InvInit
<1>2. Inv /\ [Next]_vars => Inv'
  BY InvNext
<1> QED BY <1>1, <1>2, PTL DEF Spec

\* ... so every port whose map request was answered can receive (handleMap, addPort).
THEOREM MappedRegistered == Spec => []MappedIsRegistered
<1>1. Inv => MappedIsRegistered
  <2> SUFFICES ASSUME Inv, Calm, NEW h \in Handler, hPc[h] = "mapped"
               PROVE  /\ tsiOf[hId[h]] = h
                      /\ Known(KeyOf[h]) /\ portAt[KeyOf[h]] = hId[h]
                      /\ hId[h] \in observed
    BY DEF MappedIsRegistered, Calm
  <2>1. CalmInv
    BY DEF Inv
  <2>2. Active(h) /\ Held(h)
    BY DEF Active, Held
  <2>3. tsiOf[hId[h]] = h /\ hId[h] # 0
    BY <2>1, <2>2, OwnPort DEF CalmInv, Routes
  <2>4. /\ portAt[KeyOf[h]] = hId[h] /\ KeyOf[h].comp \in comps /\ comps = lists
        /\ hId[h] \in observed
    BY <2>1, <2>2 DEF CalmInv, Tables
  <2> QED BY <2>3, <2>4 DEF Known
<1> QED BY <1>1, TablesInvariant, PTL

\* ... no port object receives when its connection has none (removePort, dispose).
THEOREM NothingLeaks == Spec => []NoLeak
<1>1. Inv => NoLeak
  <2> SUFFICES ASSUME Inv, Calm, NEW i \in Port, ut[i] \in {"wait", "callback"} \/ i \in clients
               PROVE  /\ hId[owner[i]] = i
                      /\ hPc[owner[i]] \in {"addComp", "addPort", "mapped", "unmapping"}
    BY DEF NoLeak, Calm
  <2>1. CalmInv
    BY DEF Inv
  <2>2. Owned(i) /\ (Attached(owner[i]) \/ task[owner[i]] = "join")
    BY <2>1 DEF CalmInv, Receivers, Listens
  <2>3. PICK g \in Handler : g = owner[i] /\ hId[g] = i
    BY <2>2 DEF Owned
  <2>4. Attached(g) \/ hPc[g] = "unmapping"
    BY <2>1, <2>2, <2>3 DEF CalmInv, Calls, Removing
  <2> QED BY <2>3, <2>4 DEF Attached
<1> QED BY <1>1, TablesInvariant, PTL

\* A late answer of the upper tester resets the adapter only if a connection was cut
\* (handleUnmap, UpperTesterPort.dispose).
THEOREM LateAnswers == Spec => []LateAnswerNeverResets
<1>1. Inv => LateAnswerNeverResets
  BY DEF Inv, LateAnswerNeverResets
<1> QED BY <1>1, TablesInvariant, PTL

\* A packet leaves through an open handle, of a port that is registered, although
\* sendPacket does not take the monitor (PcapMultiplexer.sendPacket).
THEOREM SendSafe == Spec => []SendIsSafe
<1>1. Inv => SendIsSafe
  <2> SUFFICES ASSUME Inv, Calm, NEW h \in Handler, task[h] \in {"compose", "transmit"}
               PROVE  open /\ tPort[h] \in clients
    BY DEF SendIsSafe, Calm
  <2>1. CalmInv
    BY DEF Inv
  <2>2. tPort[h] = hId[h] /\ hId[h] \in clients
    BY <2>1 DEF CalmInv, Works, Sending
  <2>3. open = TRUE
    BY <2>1, <2>2 DEF CalmInv, Mux
  <2> QED BY <2>2, <2>3
<1> QED BY <1>1, TablesInvariant, PTL
=============================================================================
