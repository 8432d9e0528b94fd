------------------------ MODULE AdapterControlProof ------------------------
(***************************************************************************)
(* Proofs about the location table, the pass-beaconing filter and the        *)
(* answers of the adapter control port, for every number of components and   *)
(* neighbours, every clock and every number of polls.                       *)
(*                                                                         *)
(* IInv says what the table, the filters, the requests, the threads and the  *)
(* queues know of each other.  TimingInv adds the clock of each question:    *)
(* every interval since it was asked was a sleep of its thread.              *)
(***************************************************************************)
EXTENDS AdapterControl, TLAPS

-----------------------------------------------------------------------------
(* Numbers and sequences.                                                   *)

LEMMA Division ==
  ASSUME NEW w \in Nat \ {0}, NEW a \in Nat
  PROVE  a = (w * (a \div w)) + (a % w) /\ a % w \in Nat
<1> QED BY SMT

\* In one turn of the clock timestamps are ordered as times are.
LEMMA SameTurn ==
  ASSUME NEW w \in Nat \ {0}, NEW a \in Nat, NEW b \in Nat, a \div w = b \div w,
         (a % w) <= (b % w)
  PROVE  a <= b
<1> QED BY Division, SMT

\* Timestamps order what is of one turn of the clock.
LEMMA NewerInTurn ==
  ASSUME NEW w \in Nat \ {0}, NEW a \in Nat, NEW b \in Nat, a \div w = b \div w,
         (a % w) < (b % w)
  PROVE  a < b
<1> QED BY Division, SMT

LEMMA AppendFacts ==
  ASSUME NEW S, NEW s \in Seq(S), NEW e \in S
  PROVE  /\ Append(s, e) \in Seq(S) /\ Len(Append(s, e)) = Len(s) + 1 /\ Len(s) \in Nat
         /\ \A i \in 1..Len(s) : Append(s, e)[i] = s[i]
         /\ Append(s, e)[Len(s) + 1] = e
<1> QED BY SMT

LEMMA TailFacts ==
  ASSUME NEW S, NEW s \in Seq(S), s # <<>>
  PROVE  /\ Tail(s) \in Seq(S) /\ Len(Tail(s)) = Len(s) - 1 /\ Len(s) \in Nat /\ Len(s) >= 1
         /\ Head(s) = s[1] /\ Head(s) \in S
         /\ \A i \in 1..(Len(s) - 1) : Tail(s)[i] = s[i + 1]
<1> QED BY SMT

LEMMA EmptySeq ==
  ASSUME NEW S, NEW s \in Seq(S) PROVE Len(s) \in Nat /\ (s = <<>> <=> Len(s) = 0)
<1> QED BY SMT

LEMMA AppendLast ==
  ASSUME NEW S, NEW s \in Seq(S), NEW e \in S
  PROVE  Append(s, e) # <<>> /\ Append(s, e)[Len(Append(s, e))] = e
<1>1. /\ Append(s, e) \in Seq(S) /\ Len(Append(s, e)) = Len(s) + 1 /\ Len(s) \in Nat
      /\ Append(s, e)[Len(s) + 1] = e
  BY AppendFacts
<1> DEFINE t == Append(s, e)
<1> HIDE DEF t
<1>2. Len(t) # 0
  BY <1>1, SMT DEF t
<1> QED BY <1>1, <1>2, EmptySeq DEF t

\* Without its head, a sequence keeps its last element.
LEMMA TailLast ==
  ASSUME NEW S, NEW s \in Seq(S), s # <<>>
  PROVE  /\ Len(s) = 1 => Tail(s) = <<>>
         /\ Len(s) # 1 => Tail(s) # <<>> /\ Tail(s)[Len(Tail(s))] = s[Len(s)]
<1> DEFINE t == Tail(s)
           n == Len(s)
<1>1. /\ t \in Seq(S) /\ Len(t) = n - 1 /\ n \in Nat /\ n >= 1
      /\ \A i \in 1..(n - 1) : t[i] = s[i + 1]
  BY TailFacts
<1> HIDE DEF t, n
<1>2. n = 1 => Len(t) = 0
  BY <1>1, SMT
<1>3. n # 1 => Len(t) # 0 /\ Len(t) \in 1..(n - 1) /\ Len(t) + 1 = n
  BY <1>1, SMT
<1>4. n # 1 => t[Len(t)] = s[n]
  BY <1>1, <1>3
<1> QED BY <1>1, <1>2, <1>3, <1>4, EmptySeq DEF t, n

-----------------------------------------------------------------------------
(* Types of the values the actions use.                                     *)

ClientStates == {"run", "wait", "stopped", "misled", "unmapped"}

LEMMA Values ==
  /\ \A st \in ClientStates : At(st) \in ClientState
  /\ \A n \in Neighbour \cup {None} : NoLookup(n) \in LookupState
  /\ Failure \in Response
  /\ \A n \in Neighbour, t \in Time : Vector(n, t) \in Response
  /\ \A r \in Response : Late(r) \in Response /\ Late(r).is # "vector"
  /\ NoLate \in LateState
  /\ \A n \in Neighbour \cup {None}, todo \in SUBSET Component : Packet(n, todo) \in CaptureState
<1> USE TimerAssumption
<1>1. Failure \in Response
  BY DEF Response
<1>2. \A n \in Neighbour, t \in Time : Vector(n, t) \in Response
  BY SMT DEF Response, Vector
<1>3. \A st \in ClientStates : At(st) \in ClientState
  BY SMT DEF At, ClientState, ClientStates
<1>4. \A n \in Neighbour \cup {None} : NoLookup(n) \in LookupState
  BY <1>1, SMT DEF NoLookup, LookupState
<1>5. \A n \in Neighbour \cup {None}, todo \in SUBSET Component : Packet(n, todo) \in CaptureState
  BY SMT DEF Packet, CaptureState
<1>6. NoLate \in LateState
  BY <1>1, SMT DEF NoLate, LateState
<1>7. ASSUME NEW r \in Response PROVE Late(r) \in Response /\ Late(r).is # "vector"
  <2>1. CASE r.is = "vector"
    <3>1. r \in [is : {"vector", "late"}, of : Neighbour, at : Time]
      BY <2>1, SMT DEF Response, Failure
    <3>2. Late(r) = [r EXCEPT !.is = "late"]
      BY <2>1, Zenon DEF Late
    <3>3. /\ [r EXCEPT !.is = "late"] \in [is : {"vector", "late"}, of : Neighbour, at : Time]
          /\ [r EXCEPT !.is = "late"].is = "late"
      BY <3>1, SMT
    <3> QED BY <3>2, <3>3, Zenon DEF Response
  <2>2. CASE r.is # "vector"
    BY <2>2, Zenon DEF Late
  <2> QED BY <2>1, <2>2
<1> QED BY <1>1, <1>2, <1>3, <1>4, <1>5, <1>6, <1>7

Pc == {"none", "start", "list", "poll", "sleep", "answer", "notify", "lookup", "offer", "done",
       "died"}

LEMMA SetPc ==
  ASSUME NEW l \in LookupState, NEW v \in Pc PROVE [l EXCEPT !.pc = v] \in LookupState
<1> QED BY SMT DEF LookupState, Pc

LEMMA SetKeys ==
  ASSUME NEW l \in LookupState, NEW v \in SUBSET Neighbour
  PROVE  [l EXCEPT !.keys = v] \in LookupState
<1> QED BY SMT DEF LookupState

LEMMA SetLeft ==
  ASSUME NEW l \in LookupState, NEW v \in SUBSET Neighbour
  PROVE  [l EXCEPT !.left = v] \in LookupState
<1> QED BY SMT DEF LookupState

LEMMA SetPolls ==
  ASSUME NEW l \in LookupState, NEW v \in 0..Polls PROVE [l EXCEPT !.polls = v] \in LookupState
<1> QED BY SMT DEF LookupState

LEMMA SetFound ==
  ASSUME NEW l \in LookupState, NEW v \in Response PROVE [l EXCEPT !.found = v] \in LookupState
<1> QED BY SMT DEF LookupState

LEMMA Fields ==
  ASSUME NEW l \in LookupState
  PROVE  l.left \in SUBSET Neighbour /\ l.found \in Response /\ l.polls \in 0..Polls
<1> QED BY SMT DEF LookupState

LEMMA SetAt ==
  ASSUME NEW S, NEW f \in [Component -> S], NEW c \in Component, NEW v \in S
  PROVE  [f EXCEPT ![c] = v] \in [Component -> S]
<1> QED BY Zenon

LEMMA KnownNeighbours == Known \subseteq Neighbour
<1> QED BY DEF Known

-----------------------------------------------------------------------------
(* The invariant.                                                           *)

\* Within one turn of the clock nothing newer than the entry was handled; from one turn to
\* the next, nothing with a greater timestamp.
Entry(n) ==
  /\ n \in Known => locTable[n] <= newest[n] /\ Timestamp(newest[n]) <= Timestamp(locTable[n])
  /\ n \notin Known => newest[n] = 0

TableInv == \A n \in Neighbour : Entry(n)

\* Filters, and those still on their way, are of stations the test case asked for.
Beacons(c) ==
  /\ enqueueBeacon[c] \in wanted[c] \cup {None}
  /\ \A i \in 1..Len(reqs[c]) : reqs[c][i].op = "pass" => reqs[c][i].of \in wanted[c]
  /\ gnPort[c] \subseteq wanted[c]

\* A thread that may poll again has a poll left and has found nothing.
Polling(c) ==
  /\ lookup[c].pc \in {"none", "start", "list", "poll"} => lookup[c].polls < Polls
  /\ lookup[c].pc \in {"none", "start", "list", "poll", "sleep", "died"}
       => lookup[c].found.is = "failure"

\* A request for a position vector is the last one, and its thread has not begun; ...
Requests(c) ==
  /\ client[c].state = "unmapped" => reqs[c] = <<>>
  /\ \A i \in 1..Len(reqs[c]) :
       reqs[c][i].op = "get" =>
         client[c].state \notin {"run", "unmapped"} /\ lookup[c].pc = "none" /\ i = Len(reqs[c])

\* ... the vector that is found, and the one in the queue, are those asked for.
Answers(c) ==
  /\ client[c].state \in {"run", "unmapped"} => lookup[c].pc \in {"none", "done"}
  /\ client[c].state = "wait" => lookup[c].of = client[c].of
  /\ lookup[c].found.is = "vector" => lookup[c].found.of = lookup[c].of
  /\ \A i \in 1..Len(acPort[c]) : acPort[c][i].is = "vector" =>
       /\ client[c].state \notin {"run", "unmapped"} /\ lookup[c].pc = "done"
       /\ acPort[c][i].of = lookup[c].of
       /\ \A j \in 1..Len(acPort[c]) : acPort[c][j].is = "vector" => j = i

ComponentInv(c) == Beacons(c) /\ Polling(c) /\ Requests(c) /\ Answers(c)

\* A late thread past the copy of the observers carries no unmarked vector.
LateInv == \A c \in Component :
  late[c].pc \in {"lookup", "offer"} => late[c].found.is # "vector"

\* The beacon being enqueued was asked for by the test case of its port.
CaptureInv ==
  capture.pc \in {"notify", "offer"} =>
    /\ capture.port \in Component
    /\ capture.of \in wanted[capture.port] /\ client[capture.port].state # "unmapped"

IInv ==
  TypeOK /\ TableInv /\ LateInv /\ CaptureInv /\ \A c \in Component : ComponentInv(c)

LEMMA InitInv == Init => IInv
<1> USE WrapAssumption, TimerAssumption, BoundAssumption, NoneAssumption
<1> SUFFICES ASSUME Init PROVE IInv
  OBVIOUS
<1>1. TypeOK
  <2>1. NoPacket \in CaptureState
    BY Values, Zenon DEF NoPacket
  <2>2. capture \in CaptureState /\ late \in [Component -> LateState]
    BY <2>1, Values, Zenon DEF Init
  <2>3. client \in [Component -> ClientState] /\ lookup \in [Component -> LookupState]
    BY Values, Zenon DEF Init, ClientStates
  <2>4. /\ locTable \in [Neighbour -> Time \cup {NoEntry}] /\ newest \in [Neighbour -> Time]
        /\ made \in 0..MaxRequests
    BY SMT DEF Init, Time
  <2>5. /\ reqs \in [Component -> Seq(Request)] /\ acPort \in [Component -> Seq(Response)]
        /\ handler \in [Component -> {"idle", "respond", "notify"}]
    BY SMT DEF Init
  <2>6. /\ enqueueBeacon \in [Component -> Neighbour \cup {None}] /\ changed \subseteq Component
        /\ wanted \in [Component -> SUBSET Neighbour] /\ gnPort \in [Component -> SUBSET Neighbour]
    BY Zenon DEF Init
  <2> QED BY <2>2, <2>3, <2>4, <2>5, <2>6 DEF TypeOK
<1>l. LateInv /\ CaptureInv
  BY SMT DEF Init, LateInv, CaptureInv, NoLate, NoPacket, Packet
<1>2. TableInv
  BY SMT DEF Init, TableInv, Entry, Known
<1>3. ASSUME NEW c \in Component PROVE ComponentInv(c)
  <2>1. /\ reqs[c] = <<>> /\ acPort[c] = <<>>
        /\ lookup[c] = NoLookup(None) /\ client[c] = At("run")
        /\ enqueueBeacon[c] = None /\ gnPort[c] = {}
    BY Zenon DEF Init
  <2>2. Len(<<>>) = 0
    BY SMT
  <2>3. Beacons(c)
    BY <2>1, <2>2, SMT DEF Beacons
  <2>4. Polling(c)
    BY <2>1, SMT DEF Polling, NoLookup, Failure
  <2>5. Requests(c)
    BY <2>1, <2>2, SMT DEF Requests
  <2>6. Answers(c)
    BY <2>1, <2>2, SMT DEF Answers, NoLookup, Failure, At
  <2> QED BY <2>3, <2>4, <2>5, <2>6 DEF ComponentInv
<1> QED BY <1>1, <1>2, <1>3, <1>l DEF IInv

-----------------------------------------------------------------------------
(* Types.                                                                   *)

LEMMA LookupTypes ==
  ASSUME TypeOK, NEW c \in Component, NEW l \in LookupState, LookupGoes(c, l),
         UNCHANGED <<changed, acPort>>
  PROVE  TypeOK'
<1> QED BY SMT DEF TypeOK, LookupGoes, table, beacons

LEMMA PollTypes ==
  ASSUME TypeOK, NEW c \in Component, Polling(c), Poll(c)
  PROVE  TypeOK'
<1>1. lookup[c] \in LookupState
  BY DEF TypeOK
<1>2. CASE lookup[c].of \in Known
  <2> DEFINE n == lookup[c].of
             l == [lookup[c] EXCEPT !.pc = "answer", !.found = Vector(n, locTable[n])]
  <2>1. locTable[n] \in Time /\ n \in Neighbour
    BY <1>2, SMT DEF TypeOK, Known
  <2>2. Vector(n, locTable[n]) \in Response
    BY <2>1, Values
  <2>3. [lookup[c] EXCEPT !.pc = "answer"] \in LookupState
    BY <1>1, SetPc, Zenon DEF Pc
  <2>4. l \in LookupState
    BY <2>2, <2>3, SetFound, Zenon
  <2>5. LookupGoes(c, l) /\ UNCHANGED <<changed, acPort>>
    BY <1>2, Zenon DEF Poll
  <2> HIDE DEF l
  <2> QED BY <2>4, <2>5, LookupTypes
<1>3. CASE lookup[c].of \notin Known
  <2> DEFINE l == [lookup[c] EXCEPT !.pc = "sleep", !.polls = @ + 1]
  <2>1. lookup[c].polls < Polls
    BY SMT DEF Polling, Poll
  <2>2. lookup[c].polls + 1 \in 0..Polls
    BY <1>1, <2>1, Fields, TimerAssumption, SMT
  <2>a. [lookup[c] EXCEPT !.pc = "sleep"] \in LookupState
    BY <1>1, SetPc, Zenon DEF Pc
  <2>b. [lookup[c] EXCEPT !.pc = "sleep"].polls = lookup[c].polls
    BY <1>1, SMT DEF LookupState
  <2>c. l \in LookupState
    BY <2>2, <2>a, <2>b, SetPolls, Zenon
  <2>3. LookupGoes(c, l) /\ UNCHANGED <<changed, acPort>>
    BY <1>3, Zenon DEF Poll
  <2> HIDE DEF l
  <2> QED BY <2>c, <2>3, LookupTypes
<1> QED BY <1>2, <1>3

LEMMA TickTypes == ASSUME TypeOK, Tick PROVE TypeOK'
<1>1. \A l \in LookupState : [l EXCEPT !.pc = AfterSleep(l)] \in LookupState
  BY SetPc, Zenon DEF AfterSleep, Pc
<1>2. lookup' \in [Component -> LookupState]
  <2>1. lookup' = [c \in Component |-> IF lookup[c].pc = "sleep"
                                       THEN [lookup[c] EXCEPT !.pc = AfterSleep(lookup[c])]
                                       ELSE lookup[c]]
    BY Zenon DEF Tick
  <2>2. \A c \in Component : lookup[c] \in LookupState
    BY DEF TypeOK
  <2> QED BY <1>1, <2>1, <2>2, Zenon
<1> DEFINE later(c) == [state |-> "wait", of |-> client[c].of, timer |-> client[c].timer - 1,
                        known |-> IF client[c].of \in Known /\ client[c].known < 2
                                  THEN client[c].known + 1 ELSE client[c].known]
<1>4. ASSUME NEW c \in Component, client[c].state = "wait" PROVE later(c) \in ClientState
  <2>1. client[c] \in ClientState /\ client[c].timer # 0
    BY <1>4, Zenon DEF Tick, Busy, TypeOK
  <2>2. (IF client[c].of \in Known /\ client[c].known < 2 THEN client[c].known + 1
         ELSE client[c].known) \in 0..2
    BY <2>1, SMT DEF ClientState
  <2>3. client[c].of \in Neighbour \cup {None} /\ client[c].timer - 1 \in 0..Tac
    BY <2>1, TimerAssumption, SMT DEF ClientState
  <2> HIDE DEF Known
  <2> QED BY <2>2, <2>3, SMT DEF ClientState
<1>5. client' = [c \in Component |-> IF client[c].state = "wait" THEN later(c) ELSE client[c]]
  BY Zenon DEF Tick
<1>6. client' \in [Component -> ClientState]
  <2> HIDE DEF later
  <2>1. \A c \in Component : client[c] \in ClientState
    BY DEF TypeOK
  <2> QED BY <1>4, <1>5, <2>1, Zenon
<1>7. UNCHANGED <<locTable, newest, capture, enqueueBeacon, wanted, gnPort, made, reqs, handler,
                  late, changed, acPort>>
  BY Zenon DEF Tick, table, beacons
<1> HIDE DEF later
<1> QED BY <1>2, <1>6, <1>7, SMT DEF TypeOK

LEMMA UnmapTypes == ASSUME TypeOK, NEW c \in Component, Unmap(c) PROVE TypeOK'
<1>1. client' \in [Component -> ClientState] /\ lookup' \in [Component -> LookupState]
  BY Values, SMT DEF Unmap, TypeOK, ClientStates
<1>2. late' \in [Component -> LateState]
  <2>1. lookup[c] \in LookupState /\ late \in [Component -> LateState]
    BY DEF TypeOK
  <2>2. lookup[c].found \in Response /\ Late(lookup[c].found) \in Response
    BY <2>1, Fields, Values
  <2>3. Left(lookup[c]) \in LateState
    BY <2>2, SMT DEF Left, LateState
  <2>4. late' = [late EXCEPT ![c] = IF Working(lookup[c]) THEN Left(lookup[c]) ELSE @]
    BY Zenon DEF Unmap
  <2> QED BY <2>1, <2>3, <2>4, SMT
<1>3. capture' \in CaptureState
  <2>1. capture \in CaptureState
    BY DEF TypeOK
  <2>2. [capture EXCEPT !.pc = "late"] \in CaptureState
    BY <2>1, SMT DEF CaptureState
  <2> QED BY <2>1, <2>2, Zenon DEF Unmap
<1>4. acPort' \in [Component -> Seq(Response)] /\ changed' \subseteq Component
  BY SMT DEF Unmap, TypeOK
<1>5. UNCHANGED <<table, enqueueBeacon, wanted, gnPort, made, reqs, handler>>
  BY Zenon DEF Unmap, beacons
<1> QED BY <1>1, <1>2, <1>3, <1>4, <1>5, SMT DEF TypeOK, table

LEMMA MapTypes == ASSUME TypeOK, NEW c \in Component, Map(c) PROVE TypeOK'
<1> QED BY Values, SMT DEF Map, TypeOK, table, ClientStates

LEMMA LateTypes == ASSUME TypeOK, NEW c \in Component, LateSteps(c) PROVE TypeOK'
<1>1. late[c] \in LateState /\ late \in [Component -> LateState]
  BY DEF TypeOK
<1>2. late' \in [Component -> LateState]
  <2>1. [late[c] EXCEPT !.pc = "offer"] \in LateState
    BY <1>1, SMT DEF LateState
  <2>2. \E l \in LateState : LateGoes(c, l)
    BY <2>1, Values, Zenon DEF LateSteps, LateNotifies, LateLooksUp, LateOffers
  <2> QED BY <1>1, <2>2, SMT DEF LateGoes
<1>3. acPort' \in [Component -> Seq(Response)]
  <2>1. late[c].found \in Response
    BY <1>1, SMT DEF LateState
  <2>2. \/ acPort' = acPort
        \/ acPort' = [acPort EXCEPT ![c] = Append(@, late[c].found)]
    BY Zenon DEF LateSteps, LateNotifies, LateLooksUp, LateOffers
  <2>3. acPort \in [Component -> Seq(Response)] /\ acPort[c] \in Seq(Response)
    BY DEF TypeOK
  <2>4. Append(acPort[c], late[c].found) \in Seq(Response)
    BY <2>1, <2>3, SMT
  <2>5. [acPort EXCEPT ![c] = Append(@, late[c].found)] \in [Component -> Seq(Response)]
    BY <2>3, <2>4, SetAt, Zenon
  <2> QED BY <2>2, <2>3, <2>5
<1>4. UNCHANGED <<table, capture, beacons, client, made, reqs, handler, lookup, changed>>
  BY Zenon DEF LateSteps, LateNotifies, LateLooksUp, LateOffers, LateGoes
<1> QED BY <1>2, <1>3, <1>4, SMT DEF TypeOK, table, beacons

LEMMA WithoutType ==
  ASSUME capture \in CaptureState, NEW c \in Component PROVE Without(c) \in CaptureState
<1>1. capture.of \in Neighbour \cup {None} /\ capture.todo \ {c} \in SUBSET Component
  BY SMT DEF CaptureState
<1> QED BY <1>1, Values, Zenon DEF Without, NoPacket

LEMMA PortTypes == ASSUME TypeOK, CaptureInv, NEW c \in Component, PortSteps(c) PROVE TypeOK'
<1>1. capture \in CaptureState
  BY DEF TypeOK
<1>2. capture' \in CaptureState
  <2>1. [capture EXCEPT !.port = c, !.pc = "notify"] \in CaptureState
    <3>1. [capture EXCEPT !.port = c] \in CaptureState
      BY <1>1, SMT DEF CaptureState
    <3> DEFINE p == [capture EXCEPT !.port = c]
    <3>2. \A x \in CaptureState : [x EXCEPT !.pc = "notify"] \in CaptureState
      BY SMT DEF CaptureState
    <3>3. [p EXCEPT !.pc = "notify"] \in CaptureState
      BY <3>1, <3>2
    <3> QED BY <3>3, Zenon
  <2>2. [capture EXCEPT !.pc = "offer"] \in CaptureState
    BY <1>1, SMT DEF CaptureState
  <2> QED BY <1>1, <2>1, <2>2, WithoutType, Zenon
          DEF PortSteps, FilterBeacon, BeaconNotifies, BeaconOffered, BeaconIsLate, CaptureGoes
<1>3. gnPort' \in [Component -> SUBSET Neighbour]
  <2>1. CASE UNCHANGED gnPort
    BY <2>1, SMT DEF TypeOK
  <2>2. CASE BeaconOffered(c)
    <3>1. capture.of \in Neighbour
      BY <2>2, SMT DEF BeaconOffered, CaptureInv, TypeOK
    <3> QED BY <2>2, <3>1, SMT DEF BeaconOffered, TypeOK
  <2> QED BY <2>1, <2>2, Zenon DEF PortSteps, FilterBeacon, BeaconNotifies, BeaconIsLate
<1>4. UNCHANGED <<table, enqueueBeacon, client, wanted, made, reqs, handler, lookup, late, changed,
                  acPort>>
  BY Zenon DEF PortSteps, FilterBeacon, BeaconNotifies, BeaconOffered, BeaconIsLate, CaptureGoes
<1> QED BY <1>2, <1>3, <1>4, SMT DEF TypeOK, table

LEMMA NextTypes ==
  ASSUME TypeOK, CaptureInv, \A c \in Component : Polling(c), [Next]_vars PROVE TypeOK'
<1> USE DEF table, beacons
<1>1. ASSUME NEW c \in Component, NEW n \in Neighbour, StartPass(c, n) PROVE TypeOK'
  <2>1. [op |-> "pass", of |-> n] \in Request
    BY SMT DEF Request
  <2>2. reqs' \in [Component -> Seq(Request)]
    BY <1>1, <2>1, AppendFacts, SMT DEF StartPass, Trigger, TypeOK
  <2>3. made' \in 0..MaxRequests
    BY <1>1, BoundAssumption, SMT DEF StartPass, Trigger, MayAsk, TypeOK
  <2> QED BY <1>1, <2>2, <2>3, SMT DEF StartPass, Trigger, TypeOK
<1>2. ASSUME NEW c \in Component, NEW n \in Neighbour, AskPosition(c, n) PROVE TypeOK'
  <2>1. [op |-> "get", of |-> n] \in Request
    BY SMT DEF Request
  <2>2. reqs' \in [Component -> Seq(Request)]
    BY <1>2, <2>1, AppendFacts, SMT DEF AskPosition, TypeOK
  <2>3. \A k \in {0, 2} : [state |-> "wait", of |-> n, timer |-> Tac, known |-> k] \in ClientState
    BY TimerAssumption, SMT DEF ClientState
  <2>4. client' \in [Component -> ClientState]
    BY <1>2, <2>3, SMT DEF AskPosition, TypeOK
  <2>5. made' \in 0..MaxRequests
    BY <1>2, BoundAssumption, SMT DEF AskPosition, MayAsk, TypeOK
  <2> QED BY <1>2, <2>2, <2>4, <2>5, Values, SMT DEF AskPosition, TypeOK
<1>3. ASSUME NEW c \in Component, StopPass(c) PROVE TypeOK'
  <2>1. [op |-> "stop", of |-> None] \in Request
    BY SMT DEF Request
  <2>2. reqs' \in [Component -> Seq(Request)]
    BY <1>3, <2>1, AppendFacts, SMT DEF StopPass, Trigger, TypeOK
  <2>3. made' \in 0..MaxRequests
    BY <1>3, BoundAssumption, SMT DEF StopPass, Trigger, MayAsk, TypeOK
  <2> QED BY <1>3, <2>2, <2>3, SMT DEF StopPass, Trigger, TypeOK
<1>4. ASSUME NEW c \in Component, Unmap(c) \/ Map(c) PROVE TypeOK'
  BY <1>4, UnmapTypes, MapTypes
<1>5. ASSUME NEW c \in Component, TakeResponse(c) PROVE TypeOK'
  <2>1. acPort' \in [Component -> Seq(Response)]
    BY <1>5, TailFacts, SMT DEF TakeResponse, TypeOK
  <2>2. \E st \in ClientStates : client' = [client EXCEPT ![c] = At(st)]
    BY <1>5, Zenon DEF TakeResponse, ClientStates
  <2>3. client' \in [Component -> ClientState]
    BY <2>2, Values, SMT DEF TypeOK
  <2> QED BY <1>5, <2>1, <2>3, SMT DEF TakeResponse, TypeOK
<1>6. ASSUME NEW c \in Component, Expire(c) PROVE TypeOK'
  BY <1>6, Values, SMT DEF Expire, TypeOK, ClientStates
<1>7. ASSUME NEW c \in Component, Handle(c) PROVE TypeOK'
  <2>1. Head(reqs[c]) \in Request /\ reqs' \in [Component -> Seq(Request)]
    BY <1>7, TailFacts, SMT DEF Handle, TypeOK
  <2>2. Head(reqs[c]).of \in Neighbour \cup {None} /\ Head(reqs[c]).op \in {"pass", "stop", "get"}
    BY <2>1, SMT DEF Request
  <2>3. [lookup[c] EXCEPT !.pc = "start"] \in LookupState
    BY SetPc, Zenon DEF Pc, TypeOK
  <2>4. [lookup EXCEPT ![c].pc = "start"] \in [Component -> LookupState]
    BY <2>3, Zenon DEF TypeOK
  <2>5. enqueueBeacon' \in [Component -> Neighbour \cup {None}]
    <3>1. enqueueBeacon \in [Component -> Neighbour \cup {None}]
      BY DEF TypeOK
    <3> QED BY <1>7, <2>2, <3>1, Zenon DEF Handle
  <2>6. handler' \in [Component -> {"idle", "respond", "notify"}]
    <3>1. handler \in [Component -> {"idle", "respond", "notify"}]
      BY DEF TypeOK
    <3> QED BY <1>7, <2>2, <3>1, Zenon DEF Handle
  <2>7. lookup' \in [Component -> LookupState]
    BY <1>7, <2>2, <2>4, Zenon DEF Handle, TypeOK
  <2> QED BY <1>7, <2>1, <2>5, <2>6, <2>7, SMT DEF Handle, TypeOK
<1>8. ASSUME NEW c \in Component, PassMarks(c) PROVE TypeOK'
  BY <1>8, SMT DEF PassMarks, TypeOK
<1>9. ASSUME NEW c \in Component, PassNotifies(c) PROVE TypeOK'
  <2>1. acPort' \in [Component -> Seq(Response)]
    BY <1>9, Values, AppendFacts, SMT DEF PassNotifies, TypeOK
  <2> QED BY <1>9, <2>1, SMT DEF PassNotifies, TypeOK
<1>l. ASSUME NEW c \in Component PROVE lookup[c] \in LookupState
  BY DEF TypeOK
<1>10. ASSUME NEW c \in Component, ListBegins(c) PROVE TypeOK'
  <2>1. [lookup[c] EXCEPT !.pc = "list", !.keys = Known, !.left = Known] \in LookupState
    <3>1. [lookup[c] EXCEPT !.pc = "list"] \in LookupState
      BY <1>l, SetPc, Zenon DEF Pc
    <3>2. [lookup[c] EXCEPT !.pc = "list", !.keys = Known] \in LookupState
      BY <3>1, KnownNeighbours, SetKeys, Zenon
    <3> QED BY <3>2, KnownNeighbours, SetLeft, Zenon
  <2> QED BY <1>10, <2>1, LookupTypes DEF ListBegins
<1>11. ASSUME NEW c \in Component, ListNext(c) PROVE TypeOK'
  <2>1. \A n \in lookup[c].left : lookup[c].left \ {n} \in SUBSET Neighbour
    BY <1>l, Fields, Zenon
  <2>2. \A n \in lookup[c].left : [lookup[c] EXCEPT !.left = @ \ {n}] \in LookupState
    BY <1>l, <2>1, SetLeft, Zenon
  <2>3. [lookup[c] EXCEPT !.pc = "died", !.keys = {}, !.left = {}] \in LookupState
    <3>1. [lookup[c] EXCEPT !.pc = "died"] \in LookupState
      BY <1>l, SetPc, Zenon DEF Pc
    <3>2. [lookup[c] EXCEPT !.pc = "died", !.keys = {}] \in LookupState
      BY <3>1, SetKeys, Zenon
    <3> QED BY <3>2, SetLeft, Zenon
  <2> QED BY <1>11, <2>2, <2>3, LookupTypes, Zenon DEF ListNext
<1>12. ASSUME NEW c \in Component, ListEnds(c) PROVE TypeOK'
  <2>1. [lookup[c] EXCEPT !.pc = "poll", !.keys = {}] \in LookupState
    <3>1. [lookup[c] EXCEPT !.pc = "poll"] \in LookupState
      BY <1>l, SetPc, Zenon DEF Pc
    <3> QED BY <3>1, SetKeys, Zenon
  <2> QED BY <1>12, <2>1, LookupTypes DEF ListEnds
<1>13. ASSUME NEW c \in Component, Poll(c) PROVE TypeOK'
  BY <1>13, PollTypes
<1>14. ASSUME NEW c \in Component, Marks(c) PROVE TypeOK'
  <2>1. [lookup[c] EXCEPT !.pc = "notify"] \in LookupState
    BY <1>l, SetPc, Fields, Zenon DEF Pc
  <2>2. lookup' \in [Component -> LookupState]
    BY <1>14, <2>1, SMT DEF Marks, LookupGoes, TypeOK
  <2> QED BY <1>14, <2>2, SMT DEF Marks, LookupGoes, TypeOK
<1>15. ASSUME NEW c \in Component, Notifies(c) \/ LooksUp(c) \/ Offers(c) PROVE TypeOK'
  <2>1. \A v \in {"lookup", "offer", "done"} : [lookup[c] EXCEPT !.pc = v] \in LookupState
    BY <1>l, SetPc, Zenon DEF Pc
  <2>2. \E v \in {"lookup", "offer", "done"} : LookupGoes(c, [lookup[c] EXCEPT !.pc = v])
    BY <1>15, Zenon DEF Notifies, LooksUp, Offers
  <2>3. lookup' \in [Component -> LookupState]
    <3>1. lookup \in [Component -> LookupState]
      BY DEF TypeOK
    <3> QED BY <2>1, <2>2, <3>1, SetAt, Zenon DEF LookupGoes
  <2>4. lookup[c].found \in Response
    BY <1>l, Fields
  <2>5. acPort' \in [Component -> Seq(Response)]
    <3>1. acPort \in [Component -> Seq(Response)] /\ acPort[c] \in Seq(Response)
      BY DEF TypeOK
    <3>2. Append(acPort[c], lookup[c].found) \in Seq(Response)
      BY <2>4, <3>1, SMT
    <3>3. [acPort EXCEPT ![c] = Append(@, lookup[c].found)] \in [Component -> Seq(Response)]
      BY <3>1, <3>2, SetAt, Zenon
    <3> QED BY <1>15, <3>1, <3>3, Zenon DEF Notifies, LooksUp, Offers
  <2>6. changed' \subseteq Component
    BY <1>15, Zenon DEF Notifies, LooksUp, Offers, TypeOK
  <2> QED BY <2>2, <2>3, <2>5, <2>6, SMT DEF LookupGoes, TypeOK
<1>16. ASSUME NEW n \in Neighbour, NEW s \in Time, NEW b \in BOOLEAN, Receive(n, s, b) PROVE TypeOK'
  <2>1. locTable' \in [Neighbour -> Time \cup {NoEntry}] /\ newest' \in [Neighbour -> Time]
    BY <1>16, SMT DEF Receive, TypeOK
  <2>2. capture' \in CaptureState
    BY <1>16, Values, Zenon DEF Receive, NoPacket
  <2> QED BY <1>16, <2>1, <2>2, SMT DEF Receive, TypeOK
<1>17. ASSUME NEW c \in Component, PortSteps(c) PROVE TypeOK'
  BY <1>17, PortTypes
<1>20. ASSUME NEW c \in Component, LateSteps(c) PROVE TypeOK'
  BY <1>20, LateTypes
<1>18. ASSUME Tick PROVE TypeOK'
  BY <1>18, TickTypes
<1>19. ASSUME UNCHANGED vars PROVE TypeOK'
  BY <1>19, SMT DEF vars, TypeOK
<1> QED BY <1>1, <1>2, <1>3, <1>4, <1>5, <1>6, <1>7, <1>8, <1>9, <1>10, <1>11, <1>12, <1>13, <1>14,
           <1>15, <1>16, <1>17, <1>18, <1>19, <1>20
        DEF Next, ClientSteps, AdapterSteps, LookupSteps, CaptureSteps

-----------------------------------------------------------------------------
(* The table.                                                               *)

\* Only the capture thread writes the table.
LEMMA TableUntouched ==
  ASSUME NEW c \in Component,
         \/ \E n \in Neighbour : StartPass(c, n) \/ AskPosition(c, n)
         \/ StopPass(c) \/ Unmap(c) \/ Map(c) \/ ClientSteps(c) \/ AdapterSteps(c) \/ PortSteps(c)
  PROVE  UNCHANGED table
<1> QED
  BY Zenon DEF StartPass, AskPosition, StopPass, Trigger, Unmap, Map, ClientSteps, TakeResponse,
     Expire, AdapterSteps, Handle, PassMarks, PassNotifies, LookupSteps, ListBegins, ListNext,
     ListEnds, Poll, Marks, Notifies, LooksUp, Offers, LookupGoes, LateSteps, LateNotifies,
     LateLooksUp, LateOffers, LateGoes, PortSteps, FilterBeacon, BeaconNotifies, BeaconOffered,
     BeaconIsLate, CaptureGoes

LEMMA NextTable == ASSUME TypeOK, TableInv, [Next]_vars PROVE TableInv'
<1>1. ASSUME UNCHANGED table PROVE TableInv'
  BY <1>1, SMT DEF table, TableInv, Entry, Known
<1>2. ASSUME NEW n \in Neighbour, NEW s \in Time, NEW b \in BOOLEAN, Receive(n, s, b)
      PROVE  TableInv'
  <2> SUFFICES ASSUME NEW m \in Neighbour PROVE Entry(m)'
    BY DEF TableInv
  <2>1. /\ locTable' = [locTable EXCEPT ![n] = IF IsNewer(n, s) THEN s ELSE @]
        /\ newest' = [newest EXCEPT ![n] = IF s > @ THEN s ELSE @]
        /\ locTable \in [Neighbour -> Time \cup {NoEntry}] /\ newest \in [Neighbour -> Time]
    BY <1>2, Zenon DEF Receive, TypeOK
  <2>2. \A t \in Time : t \in Nat /\ Timestamp(t) \in Nat /\ t # NoEntry
    BY WrapAssumption, BoundAssumption, Division, SMT DEF Time, Timestamp, NoEntry
  <2>3. Entry(m) /\ newest[n] \in Time
    BY <2>1 DEF TableInv
  <2>4. CASE m # n
    <3>1. locTable'[m] = locTable[m] /\ newest'[m] = newest[m]
      BY <2>1, <2>4, SMT
    <3> QED BY <2>3, <3>1, SMT DEF Entry, Known
  <2>5. CASE m = n /\ IsNewer(n, s)
    <3>1. locTable'[n] = s /\ newest'[n] = IF s > newest[n] THEN s ELSE newest[n]
      BY <2>1, <2>5, Zenon
    <3>2. CASE n \notin Known
      BY <2>2, <2>3, <2>5, <3>1, <3>2, SMT DEF Entry, Known
    <3>3. CASE n \in Known
      <4>1. Timestamp(locTable[n]) < Timestamp(s) /\ locTable[n] \in Time
        BY <2>1, <2>5, <3>3, SMT DEF IsNewer, Known
      <4> QED BY <2>2, <2>3, <2>5, <3>1, <3>3, <4>1, SMT DEF Entry, Known
    <3> QED BY <3>2, <3>3
  <2>6. CASE m = n /\ ~IsNewer(n, s)
    <3>1. locTable'[n] = locTable[n] /\ newest'[n] = IF s > newest[n] THEN s ELSE newest[n]
      BY <2>1, <2>6, Zenon
    <3>2. n \in Known /\ locTable[n] \in Time /\ ~(Timestamp(locTable[n]) < Timestamp(s))
      BY <2>1, <2>6, SMT DEF IsNewer, Known
    <3> QED BY <2>2, <2>3, <2>6, <3>1, <3>2, SMT DEF Entry, Known
  <2> QED BY <2>4, <2>5, <2>6
<1>3. ASSUME Tick \/ UNCHANGED vars PROVE UNCHANGED table
  BY <1>3, Zenon DEF Tick, vars, table
<1> QED BY <1>1, <1>2, <1>3, TableUntouched, Zenon DEF Next, CaptureSteps

-----------------------------------------------------------------------------
(* The components.                                                          *)

\* What ComponentInv says of d is not touched by a step that leaves these alone.
SameFor(d) ==
  /\ reqs'[d] = reqs[d] /\ client'[d] = client[d] /\ lookup'[d] = lookup[d]
  /\ acPort'[d] = acPort[d] /\ enqueueBeacon'[d] = enqueueBeacon[d]
  /\ wanted'[d] = wanted[d] /\ gnPort'[d] = gnPort[d]

LEMMA SameComponent ==
  ASSUME NEW d \in Component, ComponentInv(d), SameFor(d) PROVE ComponentInv(d)'
<1> QED BY Zenon DEF ComponentInv, Beacons, Polling, Requests, Answers, SameFor

\* The three requests the adapter control port knows here.
LEMMA HandleKinds ==
  ASSUME TypeOK, NEW c \in Component, Handle(c)
  PROVE  /\ reqs[c] # <<>> /\ reqs' = [reqs EXCEPT ![c] = Tail(@)]
         /\ UNCHANGED <<client, wanted, gnPort, acPort>>
         /\ \/ /\ Head(reqs[c]).op = "pass" /\ UNCHANGED lookup
               /\ enqueueBeacon' = [enqueueBeacon EXCEPT ![c] = Head(reqs[c]).of]
            \/ /\ Head(reqs[c]).op = "stop" /\ UNCHANGED lookup
               /\ enqueueBeacon' = [enqueueBeacon EXCEPT ![c] = None]
            \/ /\ Head(reqs[c]).op = "get" /\ UNCHANGED enqueueBeacon
               /\ lookup' = [lookup EXCEPT ![c].pc = "start"]
<1>1. Head(reqs[c]) \in Request
  BY TailFacts, SMT DEF Handle, TypeOK
<1>2. Head(reqs[c]).op \in {"pass", "stop", "get"}
  BY <1>1, SMT DEF Request
<1> QED BY <1>2, Zenon DEF Handle

LEMMA OtherComponents ==
  ASSUME TypeOK, NEW c \in Component, NEW d \in Component, c # d,
         \/ \E n \in Neighbour : StartPass(c, n) \/ AskPosition(c, n)
         \/ StopPass(c) \/ Unmap(c) \/ Map(c) \/ ClientSteps(c) \/ AdapterSteps(c) \/ PortSteps(c)
  PROVE  SameFor(d)
<1> USE DEF SameFor, beacons
<1>t. /\ reqs \in [Component -> Seq(Request)] /\ acPort \in [Component -> Seq(Response)]
      /\ client \in [Component -> ClientState] /\ lookup \in [Component -> LookupState]
      /\ enqueueBeacon \in [Component -> Neighbour \cup {None}]
      /\ wanted \in [Component -> SUBSET Neighbour] /\ gnPort \in [Component -> SUBSET Neighbour]
  BY DEF TypeOK
<1>1. ASSUME NEW n \in Neighbour, StartPass(c, n) \/ AskPosition(c, n) PROVE SameFor(d)
  BY <1>t, <1>1, SMT DEF StartPass, Trigger, AskPosition
<1>2. ASSUME StopPass(c) \/ Unmap(c) \/ Map(c) PROVE SameFor(d)
  BY <1>t, <1>2, SMT DEF StopPass, Trigger, Unmap, Map
<1>3. ASSUME ClientSteps(c) PROVE SameFor(d)
  BY <1>t, <1>3, SMT DEF ClientSteps, TakeResponse, Expire
<1>4. ASSUME Handle(c) \/ PassMarks(c) \/ PassNotifies(c) PROVE SameFor(d)
  <2>1. CASE Handle(c)
    <3>1. /\ reqs' = [reqs EXCEPT ![c] = Tail(@)] /\ UNCHANGED <<client, wanted, gnPort, acPort>>
          /\ \E x : enqueueBeacon' = [enqueueBeacon EXCEPT ![c] = x] \/ UNCHANGED enqueueBeacon
          /\ lookup' = [lookup EXCEPT ![c].pc = "start"] \/ UNCHANGED lookup
      BY <2>1, HandleKinds, Zenon
    <3> QED BY <1>t, <3>1, SMT
  <2>2. CASE PassMarks(c) \/ PassNotifies(c)
    BY <1>t, <2>2, SMT DEF PassMarks, PassNotifies
  <2> QED BY <1>4, <2>1, <2>2
<1>5. ASSUME LookupSteps(c) PROVE SameFor(d)
  BY <1>t, <1>5, SMT DEF LookupSteps, ListBegins, ListNext, ListEnds, Poll, Marks, Notifies, LooksUp,
     Offers, LookupGoes
<1>6. ASSUME PortSteps(c) PROVE SameFor(d)
  BY <1>t, <1>6, SMT DEF PortSteps, FilterBeacon, BeaconNotifies, BeaconOffered, BeaconIsLate,
     CaptureGoes
<1>7. ASSUME LateSteps(c) PROVE SameFor(d)
  BY <1>t, <1>7, SMT DEF LateSteps, LateNotifies, LateLooksUp, LateOffers, LateGoes
<1> QED BY <1>1, <1>2, <1>3, <1>4, <1>5, <1>6, <1>7 DEF AdapterSteps

\* What a step of c does to ComponentInv(c).
LEMMA OwnComponent ==
  ASSUME TypeOK, LateInv, CaptureInv, NEW c \in Component, ComponentInv(c),
         \/ \E n \in Neighbour : StartPass(c, n) \/ AskPosition(c, n)
         \/ StopPass(c) \/ Unmap(c) \/ Map(c) \/ ClientSteps(c) \/ AdapterSteps(c) \/ PortSteps(c)
  PROVE  ComponentInv(c)'
<1> USE DEF beacons
<1>t. /\ reqs \in [Component -> Seq(Request)] /\ acPort \in [Component -> Seq(Response)]
      /\ client \in [Component -> ClientState] /\ lookup \in [Component -> LookupState]
      /\ enqueueBeacon \in [Component -> Neighbour \cup {None}]
      /\ wanted \in [Component -> SUBSET Neighbour] /\ gnPort \in [Component -> SUBSET Neighbour]
      /\ reqs[c] \in Seq(Request) /\ acPort[c] \in Seq(Response)
  BY DEF TypeOK
<1>i. Beacons(c) /\ Polling(c) /\ Requests(c) /\ Answers(c)
  BY DEF ComponentInv
<1> SUFFICES Beacons(c)' /\ Polling(c)' /\ Requests(c)' /\ Answers(c)'
  BY DEF ComponentInv
<1>1. ASSUME NEW r \in Request, reqs' = [reqs EXCEPT ![c] = Append(@, r)],
             r.op # "get", client[c].state = "run", wanted[c] \subseteq wanted'[c],
             r.op = "pass" => r.of \in wanted'[c],
             UNCHANGED <<client, lookup, acPort, gnPort, enqueueBeacon>>
      PROVE  Beacons(c)' /\ Polling(c)' /\ Requests(c)' /\ Answers(c)'
  <2>1. /\ reqs'[c] = Append(reqs[c], r) /\ Len(reqs'[c]) = Len(reqs[c]) + 1 /\ Len(reqs[c]) \in Nat
        /\ \A i \in 1..Len(reqs[c]) : reqs'[c][i] = reqs[c][i]
        /\ reqs'[c][Len(reqs[c]) + 1] = r
    BY <1>t, <1>1, AppendFacts, SMT
  <2>2. Beacons(c)'
    BY <1>i, <1>1, <2>1, SMT DEF Beacons
  <2>3. Requests(c)'
    BY <1>i, <1>1, <2>1, SMT DEF Requests
  <2> QED BY <1>i, <1>1, <2>2, <2>3, Zenon DEF Polling, Answers
<1>2. ASSUME NEW n \in Neighbour, AskPosition(c, n)
      PROVE  Beacons(c)' /\ Polling(c)' /\ Requests(c)' /\ Answers(c)'
  <2> DEFINE r == [op |-> "get", of |-> n]
  <2>1. r \in Request /\ r.op = "get"
    BY SMT DEF Request
  <2>2. /\ reqs'[c] = Append(reqs[c], r) /\ Len(reqs'[c]) = Len(reqs[c]) + 1 /\ Len(reqs[c]) \in Nat
        /\ \A i \in 1..Len(reqs[c]) : reqs'[c][i] = reqs[c][i]
        /\ reqs'[c][Len(reqs[c]) + 1] = r
    BY <1>t, <1>2, <2>1, AppendFacts, SMT DEF AskPosition
  <2> HIDE DEF r
  <2>3. /\ client[c].state = "run" /\ client'[c].state = "wait" /\ client'[c].of = n
        /\ lookup'[c] = NoLookup(n) /\ UNCHANGED <<acPort, gnPort, wanted, enqueueBeacon>>
    BY <1>t, <1>2, SMT DEF AskPosition, MayAsk
  <2>4. NoLookup(n).pc = "none" /\ NoLookup(n).of = n /\ NoLookup(n).polls = 0
        /\ NoLookup(n).found.is = "failure"
    BY SMT DEF NoLookup, Failure
  <2>5. Beacons(c)'
    BY <1>i, <2>1, <2>2, <2>3, SMT DEF Beacons
  <2>6. Polling(c)'
    BY <2>3, <2>4, TimerAssumption, SMT DEF Polling
  <2>7. Requests(c)'
    BY <1>i, <2>1, <2>2, <2>3, <2>4, SMT DEF Requests
  <2>8. Answers(c)'
    BY <1>i, <2>3, <2>4, SMT DEF Answers
  <2> QED BY <2>5, <2>6, <2>7, <2>8
<1>3. ASSUME Unmap(c) PROVE Beacons(c)' /\ Polling(c)' /\ Requests(c)' /\ Answers(c)'
  <2>1. /\ client'[c] = At("unmapped") /\ lookup'[c] = NoLookup(None) /\ acPort'[c] = <<>>
        /\ reqs'[c] = <<>> /\ UNCHANGED beacons
    BY <1>t, <1>3, SMT DEF Unmap
  <2>2. Len(<<>>) = 0
    BY SMT
  <2>3. At("unmapped").state = "unmapped" /\ NoLookup(None).pc = "none"
        /\ NoLookup(None).polls = 0 /\ NoLookup(None).found.is = "failure"
    BY SMT DEF NoLookup, Failure, At
  <2>4. Beacons(c)'
    BY <1>i, <2>1, <2>2, SMT DEF Beacons
  <2>5. Polling(c)'
    BY <2>1, <2>3, TimerAssumption, SMT DEF Polling
  <2>6. Requests(c)' /\ Answers(c)'
    BY <2>1, <2>2, <2>3, SMT DEF Requests, Answers
  <2> QED BY <2>4, <2>5, <2>6
<1>m. ASSUME Map(c) PROVE Beacons(c)' /\ Polling(c)' /\ Requests(c)' /\ Answers(c)'
  <2>1. /\ client'[c] = At("run") /\ wanted'[c] = {} /\ gnPort'[c] = {} /\ enqueueBeacon'[c] = None
        /\ client[c].state = "unmapped" /\ UNCHANGED <<lookup, acPort, reqs>>
    BY <1>t, <1>m, SMT DEF Map
  <2>2. reqs[c] = <<>> /\ Len(<<>>) = 0 /\ At("run").state = "run"
    BY <1>i, <2>1, SMT DEF Requests, At
  <2>3. Beacons(c)'
    BY <2>1, <2>2, SMT DEF Beacons
  <2>4. Polling(c)'
    BY <1>i, <2>1, Zenon DEF Polling
  <2>5. Requests(c)' /\ Answers(c)'
    BY <1>i, <2>1, <2>2, SMT DEF Requests, Answers
  <2> QED BY <2>3, <2>4, <2>5
<1>4. ASSUME NEW st \in {"run", "stopped", "misled"}, client' = [client EXCEPT ![c] = At(st)],
             NEW q \in Seq(Response), acPort'[c] = q,
             \A i \in 1..Len(q) : q[i].is = "vector" =>
               /\ st # "run" /\ lookup[c].pc = "done" /\ q[i].of = lookup[c].of
               /\ \A j \in 1..Len(q) : q[j].is = "vector" => j = i,
             st = "run" => lookup[c].pc = "done",
             client[c].state = "wait", UNCHANGED <<lookup, reqs, beacons>>
      PROVE  Beacons(c)' /\ Polling(c)' /\ Requests(c)' /\ Answers(c)'
  <2>1. client'[c].state = st
    BY <1>t, <1>4, SMT DEF At
  <2>2. Beacons(c)' /\ Polling(c)'
    BY <1>i, <1>4, Zenon DEF Beacons, Polling
  <2>3. Requests(c)'
    BY <1>i, <1>4, <2>1, SMT DEF Requests
  <2>4. Answers(c)'
    BY <1>i, <1>4, <2>1, SMT DEF Answers
  <2> QED BY <2>2, <2>3, <2>4
<1>5. ASSUME TakeResponse(c) PROVE Beacons(c)' /\ Polling(c)' /\ Requests(c)' /\ Answers(c)'
  <2> DEFINE q == Tail(acPort[c])
             r == Head(acPort[c])
  <2>1. /\ q \in Seq(Response) /\ Len(q) = Len(acPort[c]) - 1 /\ Len(acPort[c]) \in Nat
        /\ Len(acPort[c]) >= 1 /\ r = acPort[c][1]
        /\ \A i \in 1..(Len(acPort[c]) - 1) : q[i] = acPort[c][i + 1]
    BY <1>t, <1>5, TailFacts, SMT DEF TakeResponse
  <2>2. acPort'[c] = q /\ client[c].state = "wait" /\ UNCHANGED <<lookup, reqs, beacons>>
    BY <1>t, <1>5, SMT DEF TakeResponse
  <2>3. CASE r.is = "vector" /\ r.of = client[c].of
    <3>1. client' = [client EXCEPT ![c] = At("run")]
      BY <1>5, <2>3, Zenon DEF TakeResponse
    <3>2. lookup[c].pc = "done"
      BY <1>i, <2>1, <2>3, SMT DEF Answers
    <3>3. ASSUME NEW i \in 1..Len(q) PROVE q[i].is # "vector"
      <4>1. 1 \in 1..Len(acPort[c]) /\ i + 1 \in 1..Len(acPort[c]) /\ i + 1 # 1
            /\ q[i] = acPort[c][i + 1]
        BY <2>1, SMT
      <4> QED BY <1>i, <2>1, <2>3, <4>1, Zenon DEF Answers
    <3> HIDE DEF q
    <3> QED BY <1>4, <2>1, <2>2, <3>1, <3>2, <3>3
  <2>4. CASE ~(r.is = "vector" /\ r.of = client[c].of)
    <3>1. \E st \in {"stopped", "misled"} : client' = [client EXCEPT ![c] = At(st)]
      BY <1>5, <2>4, Zenon DEF TakeResponse
    <3>2. \A i \in 1..Len(q) : q[i].is = "vector" =>
            /\ lookup[c].pc = "done" /\ q[i].of = lookup[c].of
            /\ \A j \in 1..Len(q) : q[j].is = "vector" => j = i
      <4>1. \A i \in 1..Len(q) : i + 1 \in 1..Len(acPort[c]) /\ q[i] = acPort[c][i + 1]
        BY <2>1, SMT
      <4> HIDE DEF q
      <4>2. SUFFICES ASSUME NEW i \in 1..Len(q), q[i].is = "vector"
                     PROVE  /\ lookup[c].pc = "done" /\ q[i].of = lookup[c].of
                            /\ \A j \in 1..Len(q) : q[j].is = "vector" => j = i
        OBVIOUS
      <4>3. /\ lookup[c].pc = "done" /\ q[i].of = lookup[c].of
            /\ \A j \in 1..Len(acPort[c]) : acPort[c][j].is = "vector" => j = i + 1
        BY <1>i, <4>1, <4>2, Zenon DEF Answers
      <4>4. \A j \in 1..Len(q) : q[j].is = "vector" => j + 1 = i + 1
        BY <4>1, <4>3, Zenon
      <4>5. \A j \in 1..Len(q) : j + 1 = i + 1 => j = i
        BY SMT
      <4> QED BY <4>3, <4>4, <4>5, Zenon
    <3> HIDE DEF q
    <3> QED BY <1>4, <2>1, <2>2, <3>1, <3>2
  <2> QED BY <2>3, <2>4
<1>6. ASSUME Expire(c) PROVE Beacons(c)' /\ Polling(c)' /\ Requests(c)' /\ Answers(c)'
  <2>1. /\ client' = [client EXCEPT ![c] = At("stopped")] /\ acPort'[c] = <<>>
        /\ UNCHANGED <<lookup, reqs, beacons>> /\ <<>> \in Seq(Response) /\ Len(<<>>) = 0
        /\ client[c].state = "wait"
    BY <1>6, SMT DEF Expire
  <2>2. \A i \in 1..Len(<<>>) : FALSE
    BY <2>1, SMT
  <2> QED BY <1>4, <2>1, <2>2
<1>7. ASSUME Handle(c) PROVE Beacons(c)' /\ Polling(c)' /\ Requests(c)' /\ Answers(c)'
  <2> DEFINE q == Tail(reqs[c])
             r == Head(reqs[c])
  <2>1. /\ UNCHANGED <<client, wanted, gnPort, acPort>> /\ reqs'[c] = q
        /\ \/ r.op = "pass" /\ UNCHANGED lookup /\ enqueueBeacon'[c] = r.of
           \/ r.op = "stop" /\ UNCHANGED lookup /\ enqueueBeacon'[c] = None
           \/ /\ r.op = "get" /\ UNCHANGED enqueueBeacon
              /\ lookup' = [lookup EXCEPT ![c].pc = "start"]
    BY <1>t, <1>7, HandleKinds, Zenon
  <2>2. /\ q \in Seq(Request) /\ Len(q) = Len(reqs[c]) - 1 /\ Len(reqs[c]) \in Nat
        /\ Len(reqs[c]) >= 1 /\ r = reqs[c][1]
        /\ \A i \in 1..(Len(reqs[c]) - 1) : q[i] = reqs[c][i + 1]
    BY <1>t, <1>7, HandleKinds, TailFacts, SMT
  <2> HIDE DEF q, r
  <2>h. 1 \in 1..Len(reqs[c])
    BY <2>2, SMT
  <2>3. Beacons(c)'
    <3>1. enqueueBeacon'[c] \in wanted[c] \cup {None}
      BY <1>i, <2>1, <2>2, <2>h, Zenon DEF Beacons
    <3>2. ASSUME NEW i \in 1..Len(q), q[i].op = "pass" PROVE q[i].of \in wanted[c]
      <4>1. i + 1 \in 1..Len(reqs[c]) /\ q[i] = reqs[c][i + 1]
        BY <2>2, SMT
      <4> QED BY <1>i, <3>2, <4>1, Zenon DEF Beacons
    <3> QED BY <1>i, <2>1, <3>1, <3>2, Zenon DEF Beacons
  <2>4. CASE UNCHANGED lookup
    <3>e. client[c].state # "unmapped"
      BY <1>i, <2>h, <2>2, SMT DEF Requests
    <3>g. ASSUME NEW i \in 1..Len(q), q[i].op = "get"
          PROVE  client[c].state \notin {"run", "unmapped"} /\ lookup[c].pc = "none" /\ i = Len(q)
      <4>1. i + 1 \in 1..Len(reqs[c]) /\ q[i] = reqs[c][i + 1]
        BY <2>2, SMT
      <4>2. client[c].state \notin {"run", "unmapped"} /\ lookup[c].pc = "none" /\ i + 1 = Len(reqs[c])
        BY <1>i, <3>g, <4>1, Zenon DEF Requests
      <4> QED BY <2>2, <4>2, SMT
    <3>1. Requests(c)'
      BY <2>1, <2>4, <3>e, <3>g, Zenon DEF Requests
    <3> QED BY <1>i, <2>1, <2>3, <2>4, <3>1, Zenon DEF Polling, Answers
  <2>5. CASE r.op = "get" /\ lookup' = [lookup EXCEPT ![c].pc = "start"]
    <3>1. lookup[c].pc = "none" /\ client[c].state \notin {"run", "unmapped"} /\ Len(reqs[c]) = 1
      BY <1>i, <2>2, <2>5, <2>h, Zenon DEF Requests
    <3>2. lookup[c] \in LookupState
      BY <1>t
    <3>3. /\ lookup'[c].pc = "start" /\ lookup'[c].of = lookup[c].of
          /\ lookup'[c].polls = lookup[c].polls /\ lookup'[c].found = lookup[c].found
      BY <1>t, <2>5, <3>2, SMT DEF LookupState
    <3>4. Polling(c)'
      BY <1>i, <3>1, <3>3, SMT DEF Polling
    <3>5. Requests(c)'
      BY <2>1, <2>2, <3>1, SMT DEF Requests
    <3>6. Answers(c)'
      BY <1>i, <2>1, <3>1, <3>3, SMT DEF Answers
    <3> QED BY <2>3, <3>4, <3>5, <3>6
  <2> QED BY <2>1, <2>4, <2>5
<1>8. ASSUME PassMarks(c) PROVE Beacons(c)' /\ Polling(c)' /\ Requests(c)' /\ Answers(c)'
  BY <1>i, <1>8, Zenon DEF PassMarks, Beacons, Polling, Requests, Answers
<1>9. ASSUME PassNotifies(c) PROVE Beacons(c)' /\ Polling(c)' /\ Requests(c)' /\ Answers(c)'
  <2>1. /\ UNCHANGED <<client, lookup, reqs, beacons>>
        /\ acPort'[c] = acPort[c] \/ acPort'[c] = Append(acPort[c], Failure)
    BY <1>t, <1>9, SMT DEF PassNotifies
  <2>2. /\ Len(Append(acPort[c], Failure)) = Len(acPort[c]) + 1 /\ Len(acPort[c]) \in Nat
        /\ \A i \in 1..Len(acPort[c]) : Append(acPort[c], Failure)[i] = acPort[c][i]
        /\ Append(acPort[c], Failure)[Len(acPort[c]) + 1].is = "failure"
    BY <1>t, Values, AppendFacts, SMT DEF Failure
  <2>3. Answers(c)'
    <3>1. CASE acPort'[c] = acPort[c]
      BY <1>i, <2>1, <3>1, Zenon DEF Answers
    <3>2. CASE acPort'[c] = Append(acPort[c], Failure)
      BY <1>i, <2>1, <2>2, <3>2, SMT DEF Answers
    <3> QED BY <2>1, <3>1, <3>2
  <2> QED BY <1>i, <2>1, <2>3, Zenon DEF Beacons, Polling, Requests
<1>10. ASSUME NEW l \in LookupState, LookupGoes(c, l), UNCHANGED acPort,
              lookup[c].pc \notin {"none", "done"}, l.pc # "none", l.of = lookup[c].of,
              l.found.is = "vector" => l.found.of = l.of,
              l.pc \in {"start", "list", "poll"} => l.polls < Polls,
              l.pc \in {"start", "list", "poll", "sleep", "died"} => l.found.is = "failure"
       PROVE  Beacons(c)' /\ Polling(c)' /\ Requests(c)' /\ Answers(c)'
  <2>1. lookup'[c] = l /\ UNCHANGED <<client, reqs, beacons>>
    BY <1>t, <1>10, SMT DEF LookupGoes
  <2>2. Beacons(c)'
    BY <1>i, <2>1, Zenon DEF Beacons
  <2>3. Polling(c)'
    BY <1>10, <2>1, SMT DEF Polling
  <2>4. Requests(c)' /\ Answers(c)'
    BY <1>i, <1>10, <2>1, SMT DEF Requests, Answers
  <2> QED BY <2>2, <2>3, <2>4
<1>l. lookup[c] \in LookupState
  BY <1>t
<1>11. ASSUME ListBegins(c) PROVE Beacons(c)' /\ Polling(c)' /\ Requests(c)' /\ Answers(c)'
  <2> DEFINE l == [lookup[c] EXCEPT !.pc = "list", !.keys = Known, !.left = Known]
  <2>1. lookup[c].pc = "start" /\ LookupGoes(c, l) /\ UNCHANGED acPort
    BY <1>11, Zenon DEF ListBegins
  <2>2. /\ l.pc = "list" /\ l.of = lookup[c].of /\ l.polls = lookup[c].polls
        /\ l.found = lookup[c].found
    BY <1>l, SMT DEF LookupState
  <2>3. [lookup[c] EXCEPT !.pc = "list"] \in LookupState
    BY <1>l, SetPc, Zenon DEF Pc
  <2>4. [lookup[c] EXCEPT !.pc = "list", !.keys = Known] \in LookupState
    BY <2>3, KnownNeighbours, SetKeys, Zenon
  <2>5. l \in LookupState
    BY <2>4, KnownNeighbours, SetLeft, Zenon
  <2> HIDE DEF l
  <2> QED BY <1>i, <1>10, <2>1, <2>2, <2>5, SMT DEF Polling, Answers
<1>12. ASSUME ListNext(c) PROVE Beacons(c)' /\ Polling(c)' /\ Requests(c)' /\ Answers(c)'
  <2>1. CASE lookup[c].keys = Known
    <3>1. PICK n \in lookup[c].left : LookupGoes(c, [lookup[c] EXCEPT !.left = @ \ {n}])
      BY <1>12, <2>1, Zenon DEF ListNext
    <3> DEFINE l == [lookup[c] EXCEPT !.left = @ \ {n}]
    <3>2. lookup[c].pc = "list" /\ UNCHANGED acPort
      BY <1>12, Zenon DEF ListNext
    <3>3. /\ l.pc = "list" /\ l.of = lookup[c].of /\ l.polls = lookup[c].polls
          /\ l.found = lookup[c].found
      BY <1>l, <3>2, SMT DEF LookupState
    <3>4. l \in LookupState
      BY <1>l, Fields, SetLeft, Zenon
    <3>5. LookupGoes(c, l)
      BY <3>1
    <3> HIDE DEF l
    <3> QED BY <1>i, <1>10, <3>2, <3>3, <3>4, <3>5, SMT DEF Polling, Answers
  <2>2. CASE lookup[c].keys # Known
    <3> DEFINE l == [lookup[c] EXCEPT !.pc = "died", !.keys = {}, !.left = {}]
    <3>1. lookup[c].pc = "list" /\ LookupGoes(c, l) /\ UNCHANGED acPort
      BY <1>12, <2>2, Zenon DEF ListNext
    <3>2. /\ l.pc = "died" /\ l.of = lookup[c].of /\ l.polls = lookup[c].polls
          /\ l.found = lookup[c].found
      BY <1>l, SMT DEF LookupState
    <3>3. [lookup[c] EXCEPT !.pc = "died"] \in LookupState
      BY <1>l, SetPc, Zenon DEF Pc
    <3>4. [lookup[c] EXCEPT !.pc = "died", !.keys = {}] \in LookupState
      BY <3>3, SetKeys, Zenon
    <3>5. l \in LookupState
      BY <3>4, SetLeft, Zenon
    <3> HIDE DEF l
    <3> QED BY <1>i, <1>10, <3>1, <3>2, <3>5, SMT DEF Polling, Answers
  <2> QED BY <2>1, <2>2
<1>13. ASSUME ListEnds(c) PROVE Beacons(c)' /\ Polling(c)' /\ Requests(c)' /\ Answers(c)'
  <2> DEFINE l == [lookup[c] EXCEPT !.pc = "poll", !.keys = {}]
  <2>1. lookup[c].pc = "list" /\ LookupGoes(c, l) /\ UNCHANGED acPort
    BY <1>13, Zenon DEF ListEnds
  <2>2. /\ l.pc = "poll" /\ l.of = lookup[c].of /\ l.polls = lookup[c].polls
        /\ l.found = lookup[c].found
    BY <1>l, SMT DEF LookupState
  <2>3. [lookup[c] EXCEPT !.pc = "poll"] \in LookupState
    BY <1>l, SetPc, Zenon DEF Pc
  <2>4. l \in LookupState
    BY <2>3, SetKeys, Zenon
  <2> HIDE DEF l
  <2> QED BY <1>i, <1>10, <2>1, <2>2, <2>4, SMT DEF Polling, Answers
<1>14. ASSUME Poll(c) PROVE Beacons(c)' /\ Polling(c)' /\ Requests(c)' /\ Answers(c)'
  <2> DEFINE n == lookup[c].of
             v == Vector(n, locTable[n])
             found == [lookup[c] EXCEPT !.pc = "answer", !.found = v]
             sleeps == [lookup[c] EXCEPT !.pc = "sleep", !.polls = @ + 1]
  <2>1. lookup[c].pc = "poll" /\ UNCHANGED acPort
    BY <1>14, Zenon DEF Poll
  <2>2. CASE n \in Known
    <3>1. LookupGoes(c, found)
      BY <1>14, <2>2, Zenon DEF Poll
    <3>2. found.pc = "answer" /\ found.of = n /\ found.found = v /\ v.of = n
      BY <1>l, SMT DEF LookupState, Vector
    <3>3. locTable[n] \in Time /\ n \in Neighbour
      BY <2>2, SMT DEF TypeOK, Known
    <3>4. v \in Response
      BY <3>3, Values
    <3>5. [lookup[c] EXCEPT !.pc = "answer"] \in LookupState
      BY <1>l, SetPc, Zenon DEF Pc
    <3>6. found \in LookupState
      BY <3>4, <3>5, SetFound, Zenon
    <3> HIDE DEF found, v
    <3> QED BY <1>10, <2>1, <3>1, <3>2, <3>6, SMT
  <2>3. CASE n \notin Known
    <3>1. LookupGoes(c, sleeps)
      BY <1>14, <2>3, Zenon DEF Poll
    <3>2. sleeps.pc = "sleep" /\ sleeps.of = n /\ sleeps.found = lookup[c].found
      BY <1>l, SMT DEF LookupState
    <3>3. lookup[c].polls + 1 \in 0..Polls
      BY <1>i, <1>l, <2>1, Fields, TimerAssumption, SMT DEF Polling
    <3>4. /\ [lookup[c] EXCEPT !.pc = "sleep"] \in LookupState
          /\ [lookup[c] EXCEPT !.pc = "sleep"].polls = lookup[c].polls
      <4>1. [lookup[c] EXCEPT !.pc = "sleep"] \in LookupState
        BY <1>l, SetPc, Zenon DEF Pc
      <4>2. [lookup[c] EXCEPT !.pc = "sleep"].polls = lookup[c].polls
        BY <1>l, SMT DEF LookupState
      <4> QED BY <4>1, <4>2
    <3>5. sleeps \in LookupState
      BY <3>3, <3>4, SetPolls, Zenon
    <3> HIDE DEF sleeps
    <3> QED BY <1>i, <1>10, <2>1, <3>1, <3>2, <3>5, SMT DEF Polling, Answers
  <2> QED BY <2>2, <2>3
<1>15. ASSUME Marks(c) PROVE Beacons(c)' /\ Polling(c)' /\ Requests(c)' /\ Answers(c)'
  <2> DEFINE l == [lookup[c] EXCEPT !.pc = "notify"]
  <2>1. lookup[c].pc = "answer" /\ LookupGoes(c, l) /\ UNCHANGED acPort
    BY <1>15, Zenon DEF Marks
  <2>2. l.pc = "notify" /\ l.of = lookup[c].of /\ l.found = lookup[c].found
    BY <1>l, SMT DEF LookupState
  <2>3. l \in LookupState
    BY <1>l, SetPc, Zenon DEF Pc
  <2> HIDE DEF l
  <2> QED BY <1>i, <1>10, <2>1, <2>2, <2>3, SMT DEF Answers
<1>20. ASSUME Notifies(c) \/ LooksUp(c)
       PROVE  Beacons(c)' /\ Polling(c)' /\ Requests(c)' /\ Answers(c)'
  <2>1. PICK v \in {"lookup", "offer", "done"} : LookupGoes(c, [lookup[c] EXCEPT !.pc = v])
    BY <1>20, Zenon DEF Notifies, LooksUp
  <2> DEFINE l == [lookup[c] EXCEPT !.pc = v]
  <2>2. lookup[c].pc \in {"notify", "lookup"} /\ UNCHANGED acPort
    BY <1>20, Zenon DEF Notifies, LooksUp
  <2>3. l.pc = v /\ l.of = lookup[c].of /\ l.found = lookup[c].found
    BY <1>l, SMT DEF LookupState
  <2>4. l \in LookupState
    BY <1>l, SetPc, Zenon DEF Pc
  <2>5. LookupGoes(c, l)
    BY <2>1
  <2> HIDE DEF l
  <2> QED BY <1>i, <1>10, <2>2, <2>3, <2>4, <2>5, SMT DEF Answers
<1>16. ASSUME Offers(c) PROVE Beacons(c)' /\ Polling(c)' /\ Requests(c)' /\ Answers(c)'
  <2> DEFINE q == Append(acPort[c], lookup[c].found)
  <2>1. /\ lookup[c].pc = "offer"
        /\ lookup' = [lookup EXCEPT ![c] = [lookup[c] EXCEPT !.pc = "done"]]
        /\ UNCHANGED <<client, reqs, beacons>>
        /\ acPort'[c] = q
    BY <1>t, <1>16, SMT DEF Offers, LookupGoes
  <2>2. /\ lookup'[c].pc = "done" /\ lookup'[c].of = lookup[c].of
        /\ lookup'[c].found = lookup[c].found
    BY <1>t, <1>l, <2>1, SMT DEF LookupState
  <2>3. /\ Len(q) = Len(acPort[c]) + 1 /\ Len(acPort[c]) \in Nat
        /\ \A i \in 1..Len(acPort[c]) : q[i] = acPort[c][i]
        /\ q[Len(acPort[c]) + 1] = lookup[c].found
    <3>1. lookup[c].found \in Response
      BY <1>l, Fields
    <3> DEFINE f == lookup[c].found
    <3>2. f \in Response /\ acPort[c] \in Seq(Response)
      BY <1>t, <3>1
    <3> HIDE DEF f
    <3>3. /\ Len(Append(acPort[c], f)) = Len(acPort[c]) + 1 /\ Len(acPort[c]) \in Nat
          /\ \A i \in 1..Len(acPort[c]) : Append(acPort[c], f)[i] = acPort[c][i]
          /\ Append(acPort[c], f)[Len(acPort[c]) + 1] = f
      BY <3>2, AppendFacts
    <3> QED BY <3>3 DEF f
  <2> HIDE DEF q
  <2>4. client[c].state \notin {"run", "unmapped"} /\ \A i \in 1..Len(acPort[c]) : acPort[c][i].is # "vector"
    BY <1>i, <2>1, SMT DEF Answers
  <2>5. Answers(c)'
    BY <1>i, <2>1, <2>2, <2>3, <2>4, SMT DEF Answers
  <2>6. Requests(c)'
    BY <1>i, <2>1, SMT DEF Requests
  <2>7. Beacons(c)' /\ Polling(c)'
    BY <1>i, <2>1, <2>2, SMT DEF Beacons, Polling
  <2> QED BY <2>5, <2>6, <2>7
<1>17. ASSUME PortSteps(c) PROVE Beacons(c)' /\ Polling(c)' /\ Requests(c)' /\ Answers(c)'
  <2>1. UNCHANGED <<client, lookup, reqs, acPort, enqueueBeacon, wanted>>
    BY <1>17, Zenon DEF PortSteps, FilterBeacon, BeaconNotifies, BeaconOffered, BeaconIsLate,
       CaptureGoes
  <2>2. gnPort'[c] \subseteq wanted[c]
    <3>1. CASE BeaconOffered(c)
      <4>1. capture.of \in wanted[c] /\ gnPort'[c] = gnPort[c] \cup {capture.of}
        BY <1>t, <3>1, SMT DEF BeaconOffered, CaptureInv
      <4> QED BY <1>i, <4>1, Zenon DEF Beacons
    <3>2. CASE UNCHANGED gnPort
      BY <1>i, <3>2, Zenon DEF Beacons
    <3> QED BY <1>17, <3>1, <3>2, Zenon DEF PortSteps, FilterBeacon, BeaconNotifies, BeaconIsLate
  <2> QED BY <1>i, <2>1, <2>2, Zenon DEF Beacons, Polling, Requests, Answers
<1>21. ASSUME LateSteps(c) PROVE Beacons(c)' /\ Polling(c)' /\ Requests(c)' /\ Answers(c)'
  <2> DEFINE r == late[c].found
             q == Append(acPort[c], r)
  <2>1. /\ UNCHANGED <<client, lookup, reqs, beacons>>
        /\ acPort'[c] = acPort[c] \/ (acPort'[c] = q /\ r.is # "vector")
    BY <1>t, <1>21, SMT DEF LateSteps, LateNotifies, LateLooksUp, LateOffers, LateGoes, LateInv
  <2>2. r \in Response
    BY SMT DEF TypeOK, LateState
  <2> HIDE DEF r
  <2>3. /\ Len(q) = Len(acPort[c]) + 1 /\ Len(acPort[c]) \in Nat
        /\ \A i \in 1..Len(acPort[c]) : q[i] = acPort[c][i]
        /\ q[Len(acPort[c]) + 1] = r
    BY <1>t, <2>2, AppendFacts
  <2> HIDE DEF q
  <2>4. Answers(c)'
    <3>1. CASE acPort'[c] = acPort[c]
      BY <1>i, <2>1, <3>1, Zenon DEF Answers
    <3>2. CASE acPort'[c] = q /\ r.is # "vector"
      <4>1. \A i \in 1..Len(q) : i \in 1..Len(acPort[c]) \/ i = Len(acPort[c]) + 1
        BY <2>3, SMT
      <4>2. \A i \in 1..Len(q) : q[i].is = "vector" =>
              i \in 1..Len(acPort[c]) /\ q[i] = acPort[c][i]
        BY <2>3, <3>2, <4>1
      <4>3. \A i \in 1..Len(q) : q[i].is = "vector" =>
              /\ client[c].state \notin {"run", "unmapped"} /\ lookup[c].pc = "done"
              /\ q[i].of = lookup[c].of
              /\ \A j \in 1..Len(q) : q[j].is = "vector" => j = i
        BY <1>i, <4>2, Zenon DEF Answers
      <4>4. client' = client /\ lookup' = lookup
        BY <2>1
      <4> QED BY <1>i, <3>2, <4>3, <4>4, Zenon DEF Answers
    <3> QED BY <2>1, <3>1, <3>2
  <2> QED BY <1>i, <2>1, <2>4, Zenon DEF Beacons, Polling, Requests
<1>18. ASSUME NEW n \in Neighbour, StartPass(c, n)
       PROVE  Beacons(c)' /\ Polling(c)' /\ Requests(c)' /\ Answers(c)'
  <2>1. [op |-> "pass", of |-> n] \in Request /\ [op |-> "pass", of |-> n].op = "pass"
        /\ [op |-> "pass", of |-> n].of = n
    BY SMT DEF Request
  <2>2. /\ wanted'[c] = wanted[c] \cup {n}
        /\ UNCHANGED <<client, lookup, acPort, gnPort, enqueueBeacon>>
        /\ reqs' = [reqs EXCEPT ![c] = Append(@, [op |-> "pass", of |-> n])]
        /\ client[c].state = "run"
    BY <1>t, <1>18, SMT DEF StartPass, Trigger, MayAsk
  <2> DEFINE r == [op |-> "pass", of |-> n]
  <2>3. r \in Request /\ r.op # "get" /\ (r.op = "pass" => r.of \in wanted'[c])
        /\ wanted[c] \subseteq wanted'[c] /\ reqs' = [reqs EXCEPT ![c] = Append(@, r)]
    BY <2>1, <2>2, Zenon
  <2> HIDE DEF r
  <2> QED BY <1>1, <2>2, <2>3
<1>19. ASSUME StopPass(c) PROVE Beacons(c)' /\ Polling(c)' /\ Requests(c)' /\ Answers(c)'
  <2>1. [op |-> "stop", of |-> None] \in Request /\ [op |-> "stop", of |-> None].op = "stop"
    BY SMT DEF Request
  <2>2. UNCHANGED <<wanted, client, lookup, acPort, gnPort, enqueueBeacon>>
        /\ reqs' = [reqs EXCEPT ![c] = Append(@, [op |-> "stop", of |-> None])]
        /\ client[c].state = "run"
    BY <1>t, <1>19, SMT DEF StopPass, Trigger, MayAsk
  <2> DEFINE r == [op |-> "stop", of |-> None]
  <2>3. r \in Request /\ r.op # "get" /\ r.op # "pass"
        /\ wanted[c] \subseteq wanted'[c] /\ reqs' = [reqs EXCEPT ![c] = Append(@, r)]
    BY <2>1, <2>2, Zenon
  <2> HIDE DEF r
  <2> QED BY <1>1, <2>2, <2>3
<1> QED BY <1>2, <1>3, <1>m, <1>5, <1>6, <1>7, <1>8, <1>9, <1>11, <1>12, <1>13, <1>14, <1>15,
           <1>16, <1>17, <1>18, <1>19, <1>20, <1>21 DEF ClientSteps, AdapterSteps, LookupSteps

\* A second changes the polls of the sleeping threads and the timers of the waiting tests.
LEMMA TickComponent ==
  ASSUME TypeOK, Tick, NEW c \in Component, ComponentInv(c) PROVE ComponentInv(c)'
<1>1. lookup[c] \in LookupState /\ client[c] \in ClientState
  BY DEF TypeOK
<1>2. UNCHANGED <<enqueueBeacon, wanted, gnPort, reqs, acPort>>
  BY Zenon DEF Tick, beacons
<1>3. client'[c].state = client[c].state /\ client'[c].of = client[c].of
  <2>1. CASE client[c].state = "wait"
    <3>1. \E t, k : client'[c] = [state |-> "wait", of |-> client[c].of, timer |-> t, known |-> k]
      BY <2>1, Zenon DEF Tick
    <3> QED BY <2>1, <3>1, SMT
  <2>2. CASE client[c].state # "wait"
    BY <2>2, Zenon DEF Tick
  <2> QED BY <2>1, <2>2
<1>4. \/ lookup'[c] = lookup[c]
      \/ /\ lookup[c].pc = "sleep" /\ lookup'[c].pc \in {"answer", "poll"}
         /\ lookup'[c].pc = "poll" => lookup[c].polls # Polls
         /\ lookup'[c].of = lookup[c].of /\ lookup'[c].found = lookup[c].found
         /\ lookup'[c].polls = lookup[c].polls
  <2>1. lookup'[c] = IF lookup[c].pc = "sleep"
                     THEN [lookup[c] EXCEPT !.pc = AfterSleep(lookup[c])] ELSE lookup[c]
    BY Zenon DEF Tick
  <2>2. \A v : [lookup[c] EXCEPT !.pc = v].pc = v /\ [lookup[c] EXCEPT !.pc = v].of = lookup[c].of
              /\ [lookup[c] EXCEPT !.pc = v].found = lookup[c].found
              /\ [lookup[c] EXCEPT !.pc = v].polls = lookup[c].polls
    BY <1>1, SMT DEF LookupState
  <2>3. /\ AfterSleep(lookup[c]) \in {"answer", "poll"}
        /\ AfterSleep(lookup[c]) = "poll" => lookup[c].polls # Polls
    BY SMT DEF AfterSleep
  <2> QED BY <2>1, <2>2, <2>3, Zenon
<1>5. lookup[c].polls \in 0..Polls
  BY <1>1, Fields
<1>6. Beacons(c)'
  BY <1>2, Zenon DEF ComponentInv, Beacons
<1>7. Polling(c)'
  BY <1>4, <1>5, TimerAssumption, SMT DEF ComponentInv, Polling
<1>8. Requests(c)' /\ Answers(c)'
  BY <1>2, <1>3, <1>4, SMT DEF ComponentInv, Requests, Answers
<1> QED BY <1>6, <1>7, <1>8 DEF ComponentInv

\* Only an unmap makes a thread late, and marks what it has found.
LEMMA NextLate == ASSUME TypeOK, LateInv, [Next]_vars PROVE LateInv'
<1> SUFFICES ASSUME NEW d \in Component, late'[d].pc \in {"lookup", "offer"}
             PROVE  late'[d].found.is # "vector"
  BY DEF LateInv
<1>1. ASSUME UNCHANGED late PROVE late'[d].found.is # "vector"
  BY <1>1, Zenon DEF LateInv
<1>t. late \in [Component -> LateState] /\ late[d] \in LateState
  BY DEF TypeOK
<1>2. ASSUME NEW c \in Component, Unmap(c) PROVE late'[d].found.is # "vector"
  <2>1. CASE c = d /\ Working(lookup[c])
    <3>1. late'[d] = Left(lookup[d])
      BY <1>t, <1>2, <2>1, Zenon DEF Unmap
    <3>2. lookup[d].found \in Response
      BY Fields DEF TypeOK
    <3>3. CASE lookup[d].pc \in {"lookup", "offer"}
      <4>1. late'[d].found = Late(lookup[d].found)
        BY <3>1, <3>3, SMT DEF Left
      <4> QED BY <3>2, <4>1, Values
    <3>4. CASE lookup[d].pc \notin {"lookup", "offer"}
      BY <3>1, <3>4, SMT DEF Left
    <3> QED BY <3>3, <3>4
  <2>2. CASE ~(c = d /\ Working(lookup[c]))
    <3>1. late'[d] = late[d]
      BY <1>t, <1>2, <2>2, Zenon DEF Unmap
    <3> QED BY <3>1, Zenon DEF LateInv
  <2> QED BY <2>1, <2>2
<1>3. ASSUME NEW c \in Component, LateSteps(c) PROVE late'[d].found.is # "vector"
  <2>1. \/ LateGoes(c, NoLate)
        \/ late[c].pc = "lookup" /\ LateGoes(c, [late[c] EXCEPT !.pc = "offer"])
    BY <1>3, Zenon DEF LateSteps, LateNotifies, LateLooksUp, LateOffers
  <2>2. CASE c # d
    <3>1. late'[d] = late[d]
      BY <1>t, <2>1, <2>2, Zenon DEF LateGoes
    <3> QED BY <3>1, Zenon DEF LateInv
  <2>3. CASE c = d
    <3>1. NoLate.found.is = "failure"
      BY SMT DEF NoLate, Failure
    <3>2. [late[d] EXCEPT !.pc = "offer"].found = late[d].found
      BY <1>t, SMT DEF LateState
    <3>3. CASE LateGoes(c, NoLate)
      <4>1. late'[d] = NoLate
        BY <1>t, <2>3, <3>3, Zenon DEF LateGoes
      <4> QED BY <3>1, <4>1
    <3>4. CASE late[c].pc = "lookup" /\ LateGoes(c, [late[c] EXCEPT !.pc = "offer"])
      <4>1. late'[d] = [late[d] EXCEPT !.pc = "offer"]
        BY <1>t, <2>3, <3>4, Zenon DEF LateGoes
      <4> QED BY <2>3, <3>2, <3>4, <4>1, Zenon DEF LateInv
    <3> QED BY <2>1, <3>3, <3>4
  <2> QED BY <2>2, <2>3
<1>4. ASSUME NEW c \in Component, NEW n \in Neighbour, StartPass(c, n) \/ AskPosition(c, n)
      PROVE  UNCHANGED late
  BY <1>4, Zenon DEF StartPass, AskPosition
<1>5. ASSUME NEW c \in Component,
             \/ StopPass(c) \/ Map(c) \/ ClientSteps(c) \/ PortSteps(c)
             \/ Handle(c) \/ PassMarks(c) \/ PassNotifies(c) \/ LookupSteps(c)
      PROVE  UNCHANGED late
  BY <1>5, Zenon DEF StopPass, Map, ClientSteps, TakeResponse, Expire, PortSteps, FilterBeacon,
     BeaconNotifies, BeaconOffered, BeaconIsLate, CaptureGoes, Handle, PassMarks, PassNotifies,
     LookupSteps, ListBegins, ListNext, ListEnds, Poll, Marks, Notifies, LooksUp, Offers, LookupGoes
<1>6. ASSUME \/ \E n \in Neighbour, s \in Time, b \in BOOLEAN : Receive(n, s, b)
             \/ Tick \/ UNCHANGED vars
      PROVE  UNCHANGED late
  BY <1>6, Zenon DEF Receive, Tick, vars
<1> QED BY <1>1, <1>2, <1>3, <1>4, <1>5, <1>6 DEF Next, AdapterSteps, CaptureSteps

\* While a beacon is being enqueued its port is mapped, and its test case only asks for more.
LEMMA NextCapture ==
  ASSUME TypeOK, CaptureInv, \A c \in Component : Beacons(c), [Next]_vars PROVE CaptureInv'
<1>t. /\ wanted \in [Component -> SUBSET Neighbour] /\ client \in [Component -> ClientState]
      /\ capture \in CaptureState
  BY DEF TypeOK
<1>1. ASSUME UNCHANGED capture,
             \A d \in Component : wanted[d] \subseteq wanted'[d],
             \A d \in Component : client'[d].state = "unmapped" => client[d].state = "unmapped"
      PROVE  CaptureInv'
  BY <1>1, Zenon DEF CaptureInv
<1>2. ASSUME UNCHANGED <<capture, wanted, client>> PROVE CaptureInv'
  BY <1>2, Zenon DEF CaptureInv
<1>3. ASSUME NEW c \in Component, NEW n \in Neighbour, StartPass(c, n) PROVE CaptureInv'
  <2>1. \A d \in Component : wanted[d] \subseteq wanted'[d]
    BY <1>t, <1>3, SMT DEF StartPass
  <2> QED BY <1>1, <1>3, <2>1, Zenon DEF StartPass, Trigger
<1>4. ASSUME NEW c \in Component, NEW n \in Neighbour, AskPosition(c, n) PROVE CaptureInv'
  <2>1. \A d \in Component : client'[d].state = "unmapped" => client[d].state = "unmapped"
    BY <1>t, <1>4, SMT DEF AskPosition
  <2> QED BY <1>1, <1>4, <2>1, Zenon DEF AskPosition, beacons
<1>5. ASSUME NEW c \in Component, ClientSteps(c) PROVE CaptureInv'
  <2>1. \E st \in {"run", "stopped", "misled"} : client' = [client EXCEPT ![c] = At(st)]
    BY <1>5, Zenon DEF ClientSteps, TakeResponse, Expire
  <2>2. \A d \in Component : client'[d].state = "unmapped" => client[d].state = "unmapped"
    BY <1>t, <2>1, SMT DEF At
  <2> QED BY <1>1, <1>5, <2>2, Zenon DEF ClientSteps, TakeResponse, Expire, beacons
<1>6. ASSUME NEW c \in Component, Unmap(c) PROVE CaptureInv'
  <2>1. CASE capture.port = c
    <3>1. capture' = [capture EXCEPT !.pc = "late"]
      BY <1>6, <2>1, Zenon DEF Unmap
    <3>2. capture'.pc = "late"
      BY <1>t, <3>1, SMT DEF CaptureState
    <3> QED BY <3>2, Zenon DEF CaptureInv
  <2>2. CASE capture.port # c
    <3>1. UNCHANGED <<capture, wanted>>
      BY <1>6, <2>2, Zenon DEF Unmap, beacons
    <3>2. capture.port \in Component => client'[capture.port] = client[capture.port]
      BY <1>t, <1>6, <2>2, SMT DEF Unmap
    <3> QED BY <3>1, <3>2, Zenon DEF CaptureInv
  <2> QED BY <2>1, <2>2
<1>7. ASSUME NEW c \in Component, Map(c) PROVE CaptureInv'
  <2>1. /\ UNCHANGED capture /\ client[c].state = "unmapped"
        /\ \A d \in Component \ {c} : client'[d] = client[d] /\ wanted'[d] = wanted[d]
    BY <1>t, <1>7, SMT DEF Map
  <2> QED BY <2>1, Zenon DEF CaptureInv
<1>8. \A c \in Component : Without(c).pc = "filter"
  BY SMT DEF Without, NoPacket, Packet
<1>9. ASSUME NEW c \in Component, PortSteps(c) PROVE CaptureInv'
  <2>1. UNCHANGED <<wanted, client, enqueueBeacon>>
    BY <1>9, Zenon DEF PortSteps, FilterBeacon, BeaconNotifies, BeaconOffered, BeaconIsLate,
       CaptureGoes
  <2>2. CASE capture' = Without(c)
    BY <1>8, <2>2, Zenon DEF CaptureInv
  <2>3. CASE BeaconNotifies(c)
    <3>1. capture' = [capture EXCEPT !.pc = "offer"] /\ capture.pc = "notify"
      BY <2>3, Zenon DEF BeaconNotifies, CaptureGoes
    <3>2. capture'.port = capture.port /\ capture'.of = capture.of
      BY <1>t, <3>1, SMT DEF CaptureState
    <3> QED BY <2>1, <3>1, <3>2, Zenon DEF CaptureInv
  <2>4. CASE /\ capture' = [capture EXCEPT !.port = c, !.pc = "notify"]
             /\ Matches(c) /\ client[c].state # "unmapped"
    <3>1. capture'.port = c /\ capture'.of = capture.of
      BY <1>t, <2>4, SMT DEF CaptureState
    <3>2. capture.of \in wanted[c]
      BY <2>4, Zenon DEF Matches, Beacons
    <3> QED BY <2>1, <2>4, <3>1, <3>2, Zenon DEF CaptureInv
  <2> QED BY <1>9, <2>2, <2>3, <2>4, Zenon
          DEF PortSteps, FilterBeacon, BeaconOffered, BeaconIsLate, CaptureGoes
<1>10. ASSUME NEW n \in Neighbour, NEW s \in Time, NEW b \in BOOLEAN, Receive(n, s, b)
       PROVE  CaptureInv'
  <2>1. capture'.pc = "filter"
    BY <1>10, SMT DEF Receive, NoPacket, Packet
  <2> QED BY <2>1, Zenon DEF CaptureInv
<1>11. ASSUME Tick PROVE CaptureInv'
  <2>1. capture' = NoPacket
    BY <1>11, Zenon DEF Tick
  <2>2. capture'.pc = "filter"
    BY <2>1, SMT DEF NoPacket, Packet
  <2> QED BY <2>2, Zenon DEF CaptureInv
<1>12. ASSUME NEW c \in Component, StopPass(c) \/ AdapterSteps(c) PROVE CaptureInv'
  <2>1. UNCHANGED <<capture, wanted, client>>
    BY <1>12, Zenon DEF StopPass, Trigger, AdapterSteps, Handle, PassMarks, PassNotifies, LookupSteps,
       ListBegins, ListNext, ListEnds, Poll, Marks, Notifies, LooksUp, Offers, LookupGoes, LateSteps,
       LateNotifies, LateLooksUp, LateOffers, LateGoes, beacons
  <2> QED BY <1>2, <2>1
<1>13. ASSUME UNCHANGED vars PROVE CaptureInv'
  BY <1>2, <1>13, Zenon DEF vars
<1> QED BY <1>3, <1>4, <1>5, <1>6, <1>7, <1>9, <1>10, <1>11, <1>12, <1>13 DEF Next, CaptureSteps

LEMMA NextInv == ASSUME IInv, [Next]_vars PROVE IInv'
<1>1. TypeOK'
  BY NextTypes DEF IInv, ComponentInv
<1>2. TableInv'
  BY NextTable DEF IInv
<1>l. LateInv' /\ CaptureInv'
  BY NextLate, NextCapture DEF IInv, ComponentInv
<1>3. ASSUME NEW c \in Component PROVE ComponentInv(c)'
  <2>1. TypeOK /\ LateInv /\ CaptureInv /\ ComponentInv(c)
    BY DEF IInv
  <2>2. ASSUME NEW d \in Component,
               \/ \E n \in Neighbour : StartPass(d, n) \/ AskPosition(d, n)
               \/ StopPass(d) \/ Unmap(d) \/ Map(d) \/ ClientSteps(d) \/ AdapterSteps(d) \/ PortSteps(d)
        PROVE  ComponentInv(c)'
    <3>1. CASE d = c
      BY <2>1, <2>2, <3>1, OwnComponent
    <3>2. CASE d # c
      BY <2>1, <2>2, <3>2, OtherComponents, SameComponent
    <3> QED BY <3>1, <3>2
  <2>3. ASSUME NEW n \in Neighbour, NEW s \in Time, NEW b \in BOOLEAN, Receive(n, s, b)
        PROVE  ComponentInv(c)'
    BY <2>1, <2>3, SameComponent, Zenon DEF Receive, SameFor, beacons
  <2>4. ASSUME Tick PROVE ComponentInv(c)'
    BY <2>1, <2>4, TickComponent
  <2>5. ASSUME UNCHANGED vars PROVE ComponentInv(c)'
    BY <2>1, <2>5, SameComponent, Zenon DEF vars, SameFor
  <2> QED BY <2>2, <2>3, <2>4, <2>5, Zenon DEF Next, CaptureSteps
<1> QED BY <1>1, <1>2, <1>3, <1>l DEF IInv

-----------------------------------------------------------------------------
(* Theorems.                                                                *)

\* The inductive invariant: what the table, the filters, the requests, the threads and the
\* queues know of each other (Management, AdapterControlPort).
THEOREM AdapterInvariant == Spec => []IInv
<1> QED BY InitInv, NextInv, PTL DEF Spec

\* Every variable has its type.
THEOREM AdapterTypes == Spec => []TypeOK
<1>1. IInv => TypeOK
  BY DEF IInv
<1> QED BY <1>1, AdapterInvariant, PTL

\* gnUpdateLocTable keeps the newest packet, in whatever order packets come, until the
\* clock of the neighbour restarts.
THEOREM TableIsNewest == Spec => []EntryIsNewest
<1>1. ASSUME IInv PROVE EntryIsNewest
  <2> SUFFICES ASSUME NEW n \in Known, locTable[n] \div Wrap = newest[n] \div Wrap
               PROVE  locTable[n] = newest[n]
    BY DEF EntryIsNewest
  <2>1. n \in Neighbour /\ locTable[n] \in Nat /\ newest[n] \in Nat
    BY <1>1, BoundAssumption, SMT DEF IInv, TypeOK, Known, Time
  <2>2. locTable[n] <= newest[n] /\ newest[n] % Wrap <= locTable[n] % Wrap
    BY <1>1, <2>1 DEF IInv, TableInv, Entry, Timestamp
  <2>3. newest[n] <= locTable[n]
    BY <2>1, <2>2, SameTurn, WrapAssumption
  <2> QED BY <2>1, <2>2, <2>3, SMT
<1> QED BY <1>1, AdapterInvariant, PTL

\* When f_acGetLongPosVector has returned, nothing of its request is left.
THEOREM NoAnswerIsLate == Spec => []NoLateAnswer
<1>1. ASSUME IInv PROVE NoLateAnswer
  <2> SUFFICES ASSUME NEW c \in Component
               PROVE  /\ client[c].state = "run" => ~Working(lookup[c])
                      /\ \A i \in DOMAIN acPort[c] : acPort[c][i].is = "vector" =>
                           \/ client[c].state \in {"stopped", "misled"}
                           \/ client[c].state = "wait" /\ acPort[c][i].of = client[c].of
    BY DEF NoLateAnswer
  <2>1. Answers(c) /\ acPort[c] \in Seq(Response)
    BY <1>1 DEF IInv, ComponentInv, TypeOK
  <2>2. client[c].state \in ClientStates /\ DOMAIN acPort[c] = 1..Len(acPort[c])
    BY <1>1, <2>1, SMT DEF IInv, TypeOK, ClientState, ClientStates
  <2> QED BY <2>1, <2>2, SMT DEF Answers, Working, ClientStates
<1> QED BY <1>1, AdapterInvariant, PTL

\* A GN port only gets beacons its test case asked for.
THEOREM BeaconsAreWanted == Spec => []BeaconsWereAskedFor
<1>1. IInv => BeaconsWereAskedFor
  BY DEF IInv, ComponentInv, Beacons, BeaconsWereAskedFor
<1> QED BY <1>1, AdapterInvariant, PTL

-----------------------------------------------------------------------------
(* How long a request has been waited for.                                  *)

\* The request is on its way: it is the last that was sent, and no interval has gone by; ...
Asking(c) ==
  /\ client[c].timer = Tac /\ lookup[c].polls = 0
  /\ reqs[c] # <<>> /\ reqs[c][Len(reqs[c])].op = "get"

Delivering == {"answer", "notify", "lookup", "offer"}

\* ... or a thread has it, and every interval since the question was one of its sleeps.
Clock(c) ==
  LET l == lookup[c]
      t == client[c].timer
  IN /\ l.pc \in {"start", "list"} => t = Tac /\ l.polls = 0
     /\ l.pc = "poll" => t + l.polls = Tac
     /\ l.pc = "sleep" => t + l.polls = Tac + 1
     /\ l.pc \in Delivering =>
          t + l.polls = Tac /\ (l.found.is = "failure" => l.polls = Polls)

\* Nothing but the thread marks the port or notifies, so its response is not lost.
Answering(c) ==
  /\ reqs[c] = <<>> /\ handler[c] = "idle"
  /\ Clock(c)
  /\ lookup[c].pc = "notify" => c \in changed
  /\ lookup[c].pc = "done" => acPort[c] # <<>>

\* How long the table has had the neighbour: a thread that goes to sleep has not seen it.
KnownFor(c) ==
  LET l == lookup[c]
  IN /\ client[c].known > 0 => client[c].of \in Known
     /\ l.pc = "sleep" => client[c].known = 0
     /\ l.pc \in Delivering /\ l.found.is = "failure" => client[c].known <= 1

Waits(c) ==
  client[c].state = "wait" =>
    /\ client[c].of \in Neighbour
    /\ lookup[c].pc = "none" => Asking(c)
    /\ lookup[c].pc # "none" => Answering(c)
    /\ KnownFor(c)

TimingInv == \A c \in Component : Waits(c)

LEMMA InitTiming == Init => TimingInv
<1> SUFFICES ASSUME Init, NEW c \in Component PROVE Waits(c)
  BY DEF TimingInv
<1>1. client[c] = At("run")
  BY Zenon DEF Init
<1> QED BY <1>1, SMT DEF At, Waits

\* What Waits says of d is not touched by a step that leaves these alone.
LEMMA SameWaits ==
  ASSUME NEW d \in Component, Waits(d), SameFor(d), handler'[d] = handler[d],
         d \in changed => d \in changed', Known \subseteq Known'
  PROVE  Waits(d)'
<1> QED BY Zenon DEF Waits, Asking, Answering, Clock, KnownFor, SameFor

\* Nothing is ever taken out of the table.
LEMMA KnownGrows == ASSUME TypeOK, [Next]_vars PROVE Known \subseteq Known'
<1>1. ASSUME NEW n \in Neighbour, NEW s \in Time, NEW b \in BOOLEAN, Receive(n, s, b)
      PROVE  Known \subseteq Known'
  <2>1. /\ locTable' = [locTable EXCEPT ![n] = IF IsNewer(n, s) THEN s ELSE @]
        /\ locTable \in [Neighbour -> Time \cup {NoEntry}]
    BY <1>1, Zenon DEF Receive, TypeOK
  <2>2. s # NoEntry
    BY BoundAssumption, SMT DEF Time, NoEntry
  <2> QED BY <2>1, <2>2, SMT DEF Known
<1>2. ASSUME UNCHANGED table PROVE Known \subseteq Known'
  BY <1>2 DEF table, Known
<1>3. ASSUME Tick \/ UNCHANGED vars PROVE UNCHANGED table
  BY <1>3, Zenon DEF Tick, vars, table
<1> QED BY <1>1, <1>2, <1>3, TableUntouched, Zenon DEF Next, CaptureSteps

\* A step of another component.
LEMMA OtherWaits ==
  ASSUME TypeOK, NEW c \in Component, NEW d \in Component, c # d, Waits(d), Known \subseteq Known',
         \/ \E n \in Neighbour : StartPass(c, n) \/ AskPosition(c, n)
         \/ StopPass(c) \/ Unmap(c) \/ Map(c) \/ ClientSteps(c) \/ AdapterSteps(c) \/ PortSteps(c)
  PROVE  Waits(d)'
<1>1. SameFor(d)
  BY OtherComponents
<1>t. handler \in [Component -> {"idle", "respond", "notify"}]
  BY DEF TypeOK
<1>2. handler'[d] = handler[d] /\ (d \in changed => d \in changed')
  <2>1. ASSUME NEW n \in Neighbour, StartPass(c, n) \/ AskPosition(c, n)
        PROVE  UNCHANGED <<handler, changed>>
    BY <2>1, Zenon DEF StartPass, AskPosition
  <2>2. ASSUME StopPass(c) \/ Map(c) \/ ClientSteps(c) \/ PortSteps(c) \/ LateSteps(c)
        PROVE  UNCHANGED <<handler, changed>>
    BY <2>2, Zenon DEF StopPass, Map, ClientSteps, TakeResponse, Expire, PortSteps, FilterBeacon,
       BeaconNotifies, BeaconOffered, BeaconIsLate, CaptureGoes, LateSteps, LateNotifies,
       LateLooksUp, LateOffers, LateGoes
  <2>3. ASSUME Unmap(c) PROVE UNCHANGED handler /\ changed' = changed \ {c}
    BY <2>3, Zenon DEF Unmap
  <2>4. ASSUME Handle(c)
        PROVE  /\ UNCHANGED changed
               /\ UNCHANGED handler \/ handler' = [handler EXCEPT ![c] = "respond"]
    <3>1. Head(reqs[c]) \in Request
      BY <2>4, TailFacts, SMT DEF Handle, TypeOK
    <3>2. Head(reqs[c]).op \in {"pass", "stop", "get"}
      BY <3>1, SMT DEF Request
    <3> QED BY <2>4, <3>2, Zenon DEF Handle
  <2>5. ASSUME PassMarks(c) \/ PassNotifies(c)
        PROVE  /\ \E v : handler' = [handler EXCEPT ![c] = v]
               /\ changed' = changed \cup {c} \/ changed' = changed \ {c}
    BY <2>5, Zenon DEF PassMarks, PassNotifies
  <2>6. ASSUME LookupSteps(c)
        PROVE  /\ UNCHANGED handler
               /\ UNCHANGED changed \/ changed' = changed \cup {c} \/ changed' = changed \ {c}
    BY <2>6, Zenon DEF LookupSteps, ListBegins, ListNext, ListEnds, Poll, Marks, Notifies, LooksUp,
       Offers, LookupGoes
  <2>7. \/ UNCHANGED handler
        \/ \E v : handler' = [handler EXCEPT ![c] = v]
    BY <2>1, <2>2, <2>3, <2>4, <2>5, <2>6, Zenon DEF AdapterSteps
  <2>8. UNCHANGED changed \/ changed' = changed \cup {c} \/ changed' = changed \ {c}
    BY <2>1, <2>2, <2>3, <2>4, <2>5, <2>6, Zenon DEF AdapterSteps
  <2>9. handler'[d] = handler[d]
    BY <1>t, <2>7, Zenon
  <2> QED BY <2>8, <2>9, Zenon
<1> QED BY <1>1, <1>2, SameWaits

\* A step of its thread replaces the record of the thread.
LEMMA ThreadStep ==
  ASSUME TypeOK, NEW c \in Component, NEW l \in LookupState, LookupGoes(c, l)
  PROVE  /\ lookup'[c] = l /\ client'[c] = client[c] /\ reqs'[c] = reqs[c]
         /\ handler'[c] = handler[c] /\ Known' = Known
<1> QED BY SMT DEF TypeOK, LookupGoes, table, beacons, Known

\* What a step of c does to Waits(c).
LEMMA OwnWaits ==
  ASSUME TypeOK, NEW c \in Component, ComponentInv(c), Waits(c),
         \/ \E n \in Neighbour : StartPass(c, n) \/ AskPosition(c, n)
         \/ StopPass(c) \/ Unmap(c) \/ Map(c) \/ ClientSteps(c) \/ AdapterSteps(c) \/ PortSteps(c)
  PROVE  Waits(c)'
<1>t. /\ reqs \in [Component -> Seq(Request)] /\ acPort \in [Component -> Seq(Response)]
      /\ client \in [Component -> ClientState] /\ lookup \in [Component -> LookupState]
      /\ handler \in [Component -> {"idle", "respond", "notify"}]
      /\ reqs[c] \in Seq(Request) /\ acPort[c] \in Seq(Response)
      /\ client[c] \in ClientState /\ lookup[c] \in LookupState
  BY DEF TypeOK
<1>i. Polling(c) /\ Requests(c) /\ Answers(c)
  BY DEF ComponentInv
<1>p. /\ lookup[c].polls \in 0..Polls /\ lookup[c].found \in Response
      /\ lookup[c].of \in Neighbour \cup {None}
      /\ client[c].timer \in 0..Tac /\ client[c].known \in 0..2
  <2>1. lookup[c].of \in Neighbour \cup {None}
    BY <1>t, SMT DEF LookupState
  <2>2. client[c].timer \in 0..Tac /\ client[c].known \in 0..2
    BY <1>t, SMT DEF ClientState
  <2> QED BY <1>t, <2>1, <2>2, Fields
\* The client runs or stops: nothing is waited for.
<1>1. ASSUME NEW n \in Neighbour, StartPass(c, n) PROVE Waits(c)'
  BY <1>1, Zenon DEF StartPass, Trigger, MayAsk, Waits
<1>2. ASSUME StopPass(c) PROVE Waits(c)'
  BY <1>2, Zenon DEF StopPass, Trigger, MayAsk, Waits
<1>3. ASSUME Unmap(c) \/ Map(c) \/ TakeResponse(c) \/ Expire(c) PROVE Waits(c)'
  <2>1. \E st \in ClientStates \ {"wait"} : client' = [client EXCEPT ![c] = At(st)]
    BY <1>3, Zenon DEF Unmap, Map, TakeResponse, Expire, ClientStates
  <2>2. client'[c].state # "wait"
    BY <1>t, <2>1, SMT DEF At
  <2> QED BY <2>2 DEF Waits
<1>4. ASSUME NEW n \in Neighbour, AskPosition(c, n) PROVE Waits(c)'
  <2> DEFINE r == [op |-> "get", of |-> n]
  <2>1. r \in Request /\ r.op = "get"
    BY SMT DEF Request
  <2>2. reqs'[c] = Append(reqs[c], r)
    BY <1>t, <1>4, SMT DEF AskPosition
  <2> HIDE DEF r
  <2>3. reqs'[c] # <<>> /\ reqs'[c][Len(reqs'[c])] = r
    <3>1. reqs[c] \in Seq(Request)
      BY <1>t
    <3>2. Append(reqs[c], r) # <<>> /\ Append(reqs[c], r)[Len(Append(reqs[c], r))] = r
      BY <2>1, <3>1, AppendLast
    <3> QED BY <2>2, <3>2
  <2>4. lookup'[c] = NoLookup(n) /\ locTable' = locTable
    BY <1>t, <1>4, SMT DEF AskPosition, table
  <2>5. /\ client'[c].of = n /\ client'[c].timer = Tac
        /\ client'[c].known = IF n \in Known THEN 2 ELSE 0
    BY <1>t, <1>4, SMT DEF AskPosition
  <2>6. NoLookup(n).pc = "none" /\ NoLookup(n).polls = 0
    BY SMT DEF NoLookup
  <2>7. Known' = Known
    BY <2>4 DEF Known
  <2>8. Asking(c)'
    BY <2>1, <2>2, <2>3, <2>4, <2>5, <2>6, Zenon DEF Asking
  <2>9. KnownFor(c)'
    <3> HIDE DEF Known
    <3> QED BY <2>4, <2>5, <2>6, <2>7, SMT DEF KnownFor, Delivering
  <2> QED BY <2>4, <2>5, <2>6, <2>8, <2>9 DEF Waits
<1>5. ASSUME Handle(c) PROVE Waits(c)'
  <2> SUFFICES ASSUME client'[c].state = "wait" PROVE Waits(c)'
    BY DEF Waits
  <2>1. /\ reqs[c] # <<>> /\ reqs' = [reqs EXCEPT ![c] = Tail(@)]
        /\ client' = client /\ acPort' = acPort
        /\ Known' = Known /\ changed' = changed /\ handler[c] = "idle"
    BY <1>5, Zenon DEF Handle, table, Known
  <2>2. reqs'[c] = Tail(reqs[c]) /\ Head(reqs[c]) = reqs[c][1] /\ Len(reqs[c]) \in Nat
        /\ Len(reqs[c]) >= 1
    BY <1>t, <2>1, TailFacts, Zenon
  <2>e. 1 \in 1..Len(reqs[c])
    BY <2>2, SMT
  <2>3. lookup[c].pc = "none" /\ Asking(c) /\ KnownFor(c) /\ client[c].of \in Neighbour
    BY <2>1 DEF Waits, Answering
  <2>4. CASE Head(reqs[c]).op = "get"
    <3>1. Len(reqs[c]) = 1
      BY <1>i, <2>2, <2>e, <2>4, Zenon DEF Requests
    <3>2. reqs'[c] = <<>>
      BY <1>t, <2>1, <2>2, <3>1, TailLast
    <3>3. lookup' = [lookup EXCEPT ![c] = [lookup[c] EXCEPT !.pc = "start"]] /\ handler' = handler
      BY <1>5, <2>4, HandleKinds, Zenon DEF Handle
    <3> DEFINE l == [lookup[c] EXCEPT !.pc = "start"]
    <3>4. l.pc = "start" /\ l.polls = lookup[c].polls /\ lookup'[c] = l
      BY <1>t, <3>3, SMT DEF LookupState
    <3> HIDE DEF l
    <3>5. Answering(c)' /\ KnownFor(c)'
      BY <2>1, <2>3, <3>2, <3>3, <3>4, Zenon
         DEF Asking, Answering, Clock, KnownFor, Delivering
    <3> QED BY <2>1, <2>3, <3>4, <3>5 DEF Waits
  <2>5. CASE Head(reqs[c]).op # "get"
    <3>1. lookup' = lookup
      BY <1>5, <2>5, HandleKinds, Zenon
    <3>2. Len(reqs[c]) # 1
      BY <2>2, <2>3, <2>5 DEF Asking
    <3>3. reqs'[c] # <<>> /\ reqs'[c][Len(reqs'[c])] = reqs[c][Len(reqs[c])]
      BY <1>t, <2>1, <2>2, <3>2, TailLast
    <3>4. Asking(c)' /\ KnownFor(c)'
      BY <2>1, <2>3, <3>1, <3>3, Zenon DEF Asking, KnownFor
    <3> QED BY <2>1, <2>3, <3>1, <3>4 DEF Waits
  <2> QED BY <2>4, <2>5
<1>6. ASSUME PassMarks(c) PROVE Waits(c)'
  <2>1. UNCHANGED <<client, reqs, lookup, acPort>> /\ Known' = Known /\ handler[c] # "idle"
    BY <1>6, Zenon DEF PassMarks, table, Known
  <2> QED BY <2>1, Zenon DEF Waits, Asking, Answering, KnownFor
<1>7. ASSUME PassNotifies(c) PROVE Waits(c)'
  <2>1. UNCHANGED <<client, reqs, lookup>> /\ Known' = Known /\ handler[c] # "idle"
    BY <1>7, Zenon DEF PassNotifies, table, Known
  <2> QED BY <2>1, Zenon DEF Waits, Asking, Answering, KnownFor
<1>8. ASSUME PortSteps(c) PROVE Waits(c)'
  <2>1. UNCHANGED <<client, reqs, lookup, handler, changed, acPort>> /\ Known' = Known
    BY <1>8, Zenon DEF PortSteps, FilterBeacon, BeaconNotifies, BeaconOffered, BeaconIsLate,
       CaptureGoes, table, Known
  <2> QED BY <2>1, Zenon DEF Waits, Asking, Answering, Clock, KnownFor
\* A late thread only adds to the queue.
<1>16. ASSUME LateSteps(c) PROVE Waits(c)'
  <2>1. UNCHANGED <<client, reqs, lookup, handler, changed>> /\ Known' = Known
    BY <1>16, Zenon DEF LateSteps, LateNotifies, LateLooksUp, LateOffers, LateGoes, table, Known
  <2>2. acPort'[c] = acPort[c] \/ acPort'[c] = Append(acPort[c], late[c].found)
    BY <1>t, <1>16, Zenon DEF LateSteps, LateNotifies, LateLooksUp, LateOffers
  <2>3. late[c].found \in Response
    BY SMT DEF TypeOK, LateState
  <2>4. Append(acPort[c], late[c].found) # <<>>
    <3> DEFINE f == late[c].found
    <3>1. f \in Response /\ acPort[c] \in Seq(Response)
      BY <1>t, <2>3
    <3> HIDE DEF f
    <3>2. Append(acPort[c], f) # <<>>
      BY <3>1, AppendLast
    <3> QED BY <3>2 DEF f
  <2>5. acPort[c] # <<>> => acPort'[c] # <<>>
    BY <2>2, <2>4, Zenon
  <2> QED BY <2>1, <2>5, Zenon DEF Waits, Asking, Answering, Clock, KnownFor
\* The steps of the thread.
<1>9. ASSUME NEW l \in LookupState, LookupGoes(c, l), lookup[c].pc # "none", l.pc # "none",
             client[c].state = "wait" => Clock(c)' /\ KnownFor(c)',
             client[c].state = "wait" /\ l.pc = "notify" => c \in changed',
             client[c].state = "wait" /\ l.pc = "done" => acPort'[c] # <<>>
      PROVE  Waits(c)'
  <2>1. lookup'[c] = l /\ client'[c] = client[c] /\ reqs'[c] = reqs[c] /\ handler'[c] = handler[c]
    BY <1>9, ThreadStep
  <2> QED BY <1>9, <2>1, Zenon DEF Waits, Answering
<1>w. client[c].state = "wait" /\ lookup[c].pc # "none" => Clock(c) /\ KnownFor(c)
  BY DEF Waits, Answering
<1>10. ASSUME ListBegins(c) PROVE Waits(c)'
  <2> DEFINE l == [lookup[c] EXCEPT !.pc = "list", !.keys = Known, !.left = Known]
  <2>1. lookup[c].pc = "start" /\ LookupGoes(c, l)
    BY <1>10, Zenon DEF ListBegins
  <2>2. l.pc = "list" /\ l.polls = lookup[c].polls
    BY <1>t, SMT DEF LookupState
  <2>3. [lookup[c] EXCEPT !.pc = "list"] \in LookupState
    BY <1>t, SetPc, Zenon DEF Pc
  <2>4. [lookup[c] EXCEPT !.pc = "list", !.keys = Known] \in LookupState
    BY <2>3, KnownNeighbours, SetKeys, Zenon
  <2>5. l \in LookupState
    BY <2>4, KnownNeighbours, SetLeft, Zenon
  <2> HIDE DEF l
  <2>6. lookup'[c] = l /\ client'[c] = client[c] /\ Known' = Known
    BY <2>1, <2>5, ThreadStep
  <2>7. client[c].state = "wait" => Clock(c)' /\ KnownFor(c)'
    BY <1>w, <2>1, <2>2, <2>6, Zenon DEF Clock, KnownFor, Delivering
  <2> QED BY <1>9, <2>1, <2>2, <2>5, <2>7
<1>11. ASSUME ListNext(c) PROVE Waits(c)'
  <2>1. CASE lookup[c].keys = Known
    <3>1. PICK n \in lookup[c].left : LookupGoes(c, [lookup[c] EXCEPT !.left = @ \ {n}])
      BY <1>11, <2>1, Zenon DEF ListNext
    <3> DEFINE l == [lookup[c] EXCEPT !.left = @ \ {n}]
    <3>2. lookup[c].pc = "list"
      BY <1>11, Zenon DEF ListNext
    <3>3. l.pc = "list" /\ l.polls = lookup[c].polls
      BY <1>t, <3>2, SMT DEF LookupState
    <3>4. l \in LookupState
      BY <1>t, Fields, SetLeft, Zenon
    <3>5. LookupGoes(c, l)
      BY <3>1
    <3> HIDE DEF l
    <3>6. lookup'[c] = l /\ client'[c] = client[c] /\ Known' = Known
      BY <3>4, <3>5, ThreadStep
    <3>7. client[c].state = "wait" => Clock(c)' /\ KnownFor(c)'
      BY <1>w, <3>2, <3>3, <3>6, Zenon DEF Clock, KnownFor, Delivering
    <3> QED BY <1>9, <3>2, <3>3, <3>4, <3>5, <3>7
  <2>2. CASE lookup[c].keys # Known
    <3> DEFINE l == [lookup[c] EXCEPT !.pc = "died", !.keys = {}, !.left = {}]
    <3>1. lookup[c].pc = "list" /\ LookupGoes(c, l)
      BY <1>11, <2>2, Zenon DEF ListNext
    <3>2. l.pc = "died"
      BY <1>t, SMT DEF LookupState
    <3>3. [lookup[c] EXCEPT !.pc = "died"] \in LookupState
      BY <1>t, SetPc, Zenon DEF Pc
    <3>4. [lookup[c] EXCEPT !.pc = "died", !.keys = {}] \in LookupState
      BY <3>3, SetKeys, Zenon
    <3>5. l \in LookupState
      BY <3>4, SetLeft, Zenon
    <3> HIDE DEF l
    <3>6. lookup'[c] = l /\ client'[c] = client[c] /\ Known' = Known
      BY <3>1, <3>5, ThreadStep
    <3>7. client[c].state = "wait" => Clock(c)' /\ KnownFor(c)'
      BY <1>w, <3>1, <3>2, <3>6, Zenon DEF Clock, KnownFor, Delivering
    <3> QED BY <1>9, <3>1, <3>2, <3>5, <3>7
  <2> QED BY <2>1, <2>2
<1>12. ASSUME ListEnds(c) PROVE Waits(c)'
  <2> DEFINE l == [lookup[c] EXCEPT !.pc = "poll", !.keys = {}]
  <2>1. lookup[c].pc = "list" /\ LookupGoes(c, l)
    BY <1>12, Zenon DEF ListEnds
  <2>2. l.pc = "poll" /\ l.polls = lookup[c].polls
    BY <1>t, SMT DEF LookupState
  <2>3. [lookup[c] EXCEPT !.pc = "poll"] \in LookupState
    BY <1>t, SetPc, Zenon DEF Pc
  <2>4. l \in LookupState
    BY <2>3, SetKeys, Zenon
  <2> HIDE DEF l
  <2>6. lookup'[c] = l /\ client'[c] = client[c] /\ Known' = Known
    BY <2>1, <2>4, ThreadStep
  <2>7. ASSUME client[c].state = "wait" PROVE Clock(c)' /\ KnownFor(c)'
    <3>1. client[c].timer = Tac /\ lookup[c].polls = 0
      BY <1>w, <2>1, <2>7, Zenon DEF Clock
    <3>2. Tac + 0 = Tac
      BY TimerAssumption, SMT
    <3> QED BY <1>w, <2>1, <2>2, <2>6, <2>7, <3>1, <3>2, Zenon DEF Clock, KnownFor, Delivering
  <2> QED BY <1>9, <2>1, <2>2, <2>4, <2>7
<1>13. ASSUME Poll(c) PROVE Waits(c)'
  <2> DEFINE n == lookup[c].of
             v == Vector(n, locTable[n])
             found == [lookup[c] EXCEPT !.pc = "answer", !.found = v]
             sleeps == [lookup[c] EXCEPT !.pc = "sleep", !.polls = @ + 1]
  <2>1. lookup[c].pc = "poll"
    BY <1>13, Zenon DEF Poll
  <2>2. CASE n \in Known
    <3>1. LookupGoes(c, found)
      BY <1>13, <2>2, Zenon DEF Poll
    <3>2. found.pc = "answer" /\ found.found = v /\ v.is = "vector" /\ found.polls = lookup[c].polls
      BY <1>t, SMT DEF LookupState, Vector
    <3>3. locTable[n] \in Time /\ n \in Neighbour
      BY <2>2, SMT DEF TypeOK, Known
    <3>4. v \in Response
      BY <3>3, Values
    <3>5. [lookup[c] EXCEPT !.pc = "answer"] \in LookupState
      BY <1>t, SetPc, Zenon DEF Pc
    <3>6. found \in LookupState
      BY <3>4, <3>5, SetFound, Zenon
    <3> HIDE DEF found, v
    <3>7. lookup'[c] = found /\ client'[c] = client[c] /\ Known' = Known
      BY <3>1, <3>6, ThreadStep
    <3>8. client[c].state = "wait" => Clock(c)' /\ KnownFor(c)'
      BY <1>w, <2>1, <3>2, <3>7, Zenon DEF Clock, KnownFor, Delivering
    <3> QED BY <1>9, <2>1, <3>1, <3>2, <3>6, <3>8
  <2>3. CASE n \notin Known
    <3>1. LookupGoes(c, sleeps)
      BY <1>13, <2>3, Zenon DEF Poll
    <3>2. sleeps.pc = "sleep" /\ sleeps.polls = lookup[c].polls + 1
      BY <1>t, SMT DEF LookupState
    <3>3. lookup[c].polls + 1 \in 0..Polls
      BY <1>i, <1>p, <2>1, TimerAssumption, SMT DEF Polling
    <3>4. /\ [lookup[c] EXCEPT !.pc = "sleep"] \in LookupState
          /\ [lookup[c] EXCEPT !.pc = "sleep"].polls = lookup[c].polls
      <4>1. [lookup[c] EXCEPT !.pc = "sleep"] \in LookupState
        BY <1>t, SetPc, Zenon DEF Pc
      <4>2. [lookup[c] EXCEPT !.pc = "sleep"].polls = lookup[c].polls
        BY <1>t, SMT DEF LookupState
      <4> QED BY <4>1, <4>2
    <3>5. sleeps \in LookupState
      BY <3>3, <3>4, SetPolls, Zenon
    <3> HIDE DEF sleeps
    <3>6. lookup'[c] = sleeps /\ client'[c] = client[c] /\ Known' = Known
      BY <3>1, <3>5, ThreadStep
    <3>7. ASSUME client[c].state = "wait" PROVE Clock(c)' /\ KnownFor(c)'
      <4>1. client[c].timer + lookup[c].polls = Tac /\ client[c].of \notin Known
        BY <1>i, <1>w, <2>1, <2>3, <3>7, Zenon DEF Clock, Answers
      <4>2. client[c].known = 0
        BY <1>p, <1>w, <2>1, <3>7, <4>1, SMT DEF KnownFor
      <4>3. client[c].timer + (lookup[c].polls + 1) = Tac + 1
        BY <1>p, <4>1, TimerAssumption, SMT
      <4>4. ~(0 > 0)
        BY SMT
      <4> QED BY <3>2, <3>6, <4>2, <4>3, <4>4, Zenon DEF Clock, KnownFor, Delivering
    <3> QED BY <1>9, <2>1, <3>1, <3>2, <3>5, <3>7
  <2> QED BY <2>2, <2>3
<1>14. ASSUME Marks(c) PROVE Waits(c)'
  <2> DEFINE l == [lookup[c] EXCEPT !.pc = "notify"]
  <2>1. lookup[c].pc = "answer" /\ LookupGoes(c, l) /\ c \in changed'
    BY <1>14, Zenon DEF Marks
  <2>2. l.pc = "notify" /\ l.polls = lookup[c].polls /\ l.found = lookup[c].found
    BY <1>t, SMT DEF LookupState
  <2>3. l \in LookupState
    BY <1>t, SetPc, Zenon DEF Pc
  <2> HIDE DEF l
  <2>4. lookup'[c] = l /\ client'[c] = client[c] /\ Known' = Known
    BY <2>1, <2>3, ThreadStep
  <2>5. client[c].state = "wait" => Clock(c)' /\ KnownFor(c)'
    BY <1>w, <2>1, <2>2, <2>4, Zenon DEF Clock, KnownFor, Delivering
  <2> QED BY <1>9, <2>1, <2>2, <2>3, <2>5
<1>15. ASSUME Notifies(c) PROVE Waits(c)'
  <2> DEFINE v == IF c \in changed THEN "lookup" ELSE "done"
             l == [lookup[c] EXCEPT !.pc = v]
  <2>1. lookup[c].pc = "notify" /\ LookupGoes(c, l)
    BY <1>15, Zenon DEF Notifies
  <2>2. l.pc = v /\ l.polls = lookup[c].polls /\ l.found = lookup[c].found
        /\ v \in {"lookup", "done"} /\ (c \in changed => v = "lookup")
    BY <1>t, SMT DEF LookupState
  <2>3. l \in LookupState
    BY <1>t, <2>2, SetPc, Zenon DEF Pc
  <2> HIDE DEF l, v
  <2>4. lookup'[c] = l /\ client'[c] = client[c] /\ Known' = Known
    BY <2>1, <2>3, ThreadStep
  <2>5. client[c].state = "wait" => c \in changed
    BY <2>1 DEF Waits, Answering
  <2>6. client[c].state = "wait" => Clock(c)' /\ KnownFor(c)'
    BY <1>w, <2>1, <2>2, <2>4, <2>5, Zenon DEF Clock, KnownFor, Delivering
  <2>7. l.pc # "none" /\ l.pc # "notify" /\ (client[c].state = "wait" => l.pc # "done")
    BY <2>2, <2>5
  <2> QED BY <1>9, <2>1, <2>3, <2>6, <2>7
<1>17. ASSUME LooksUp(c) PROVE Waits(c)'
  <2> DEFINE l == [lookup[c] EXCEPT !.pc = "offer"]
  <2>1. lookup[c].pc = "lookup" /\ LookupGoes(c, l)
    BY <1>17, Zenon DEF LooksUp
  <2>2. l.pc = "offer" /\ l.polls = lookup[c].polls /\ l.found = lookup[c].found
    BY <1>t, SMT DEF LookupState
  <2>3. l \in LookupState
    BY <1>t, SetPc, Zenon DEF Pc
  <2> HIDE DEF l
  <2>4. lookup'[c] = l /\ client'[c] = client[c] /\ Known' = Known
    BY <2>1, <2>3, ThreadStep
  <2>5. client[c].state = "wait" => Clock(c)' /\ KnownFor(c)'
    BY <1>w, <2>1, <2>2, <2>4, Zenon DEF Clock, KnownFor, Delivering
  <2> QED BY <1>9, <2>1, <2>2, <2>3, <2>5
<1>18. ASSUME Offers(c) PROVE Waits(c)'
  <2> DEFINE l == [lookup[c] EXCEPT !.pc = "done"]
  <2>1. lookup[c].pc = "offer" /\ LookupGoes(c, l)
    BY <1>18, Zenon DEF Offers
  <2>2. l.pc = "done"
    BY <1>t, SMT DEF LookupState
  <2>3. l \in LookupState
    BY <1>t, SetPc, Zenon DEF Pc
  <2> HIDE DEF l
  <2>4. lookup'[c] = l /\ client'[c] = client[c] /\ Known' = Known
    BY <2>1, <2>3, ThreadStep
  <2>5. client[c].state = "wait" => Clock(c)' /\ KnownFor(c)'
    BY <1>w, <2>1, <2>2, <2>4, Zenon DEF Clock, KnownFor, Delivering
  <2>6. acPort'[c] # <<>>
    <3> DEFINE f == lookup[c].found
    <3>1. acPort'[c] = Append(acPort[c], f)
      BY <1>t, <1>18, Zenon DEF Offers
    <3>2. acPort[c] \in Seq(Response) /\ f \in Response
      BY <1>t, <1>p
    <3> HIDE DEF f
    <3>3. Append(acPort[c], f) # <<>>
      BY <3>2, AppendLast
    <3> QED BY <3>1, <3>3
  <2> QED BY <1>9, <2>1, <2>2, <2>3, <2>5, <2>6
<1> QED BY <1>1, <1>2, <1>3, <1>4, <1>5, <1>6, <1>7, <1>8, <1>10, <1>11, <1>12, <1>13, <1>14, <1>15,
           <1>16, <1>17, <1>18 DEF ClientSteps, AdapterSteps, LookupSteps

\* A second goes by: the threads of the tests that wait sleep, or have died.
LEMMA TickWaits ==
  ASSUME TypeOK, Tick, NEW c \in Component, ComponentInv(c), Waits(c) PROVE Waits(c)'
<1>1. lookup[c] \in LookupState /\ client[c] \in ClientState
  BY DEF TypeOK
<1>2. UNCHANGED <<reqs, handler, changed, acPort>> /\ Known' = Known
  BY Zenon DEF Tick, beacons, table, Known
<1>3. CASE client[c].state # "wait"
  <2>1. client'[c] = client[c]
    BY <1>3, Zenon DEF Tick
  <2> QED BY <1>3, <2>1 DEF Waits
<1>4. CASE client[c].state = "wait"
  <2> DEFINE later == IF client[c].of \in Known /\ client[c].known < 2
                      THEN client[c].known + 1 ELSE client[c].known
  <2>1. client'[c] = [state |-> "wait", of |-> client[c].of, timer |-> client[c].timer - 1,
                      known |-> later]
    BY <1>4, Zenon DEF Tick
  <2> HIDE DEF later
  <2>2. client'[c].of = client[c].of /\ client'[c].timer = client[c].timer - 1
        /\ client'[c].known = later
    BY <2>1, SMT
  <2>3. reqs[c] = <<>> /\ acPort[c] = <<>> /\ client[c].timer # 0
        /\ lookup[c].pc \in {"none", "sleep", "done", "died"}
    BY <1>4, Zenon DEF Tick, Busy
  <2>4. /\ lookup[c].pc \in {"sleep", "died"}
        /\ Answering(c) /\ KnownFor(c) /\ client[c].of \in Neighbour
    BY <1>4, <2>3, Zenon DEF Waits, Asking, Answering
  <2>5. lookup'[c] = IF lookup[c].pc = "sleep"
                     THEN [lookup[c] EXCEPT !.pc = AfterSleep(lookup[c])] ELSE lookup[c]
    BY Zenon DEF Tick
  <2>6. client[c].timer \in 0..Tac /\ client[c].known \in 0..2
    BY <1>1, SMT DEF ClientState
  <2>7. later \in Nat /\ (later > 0 => client[c].of \in Known)
    BY <2>4, <2>6, SMT DEF later, KnownFor
  <2>8. CASE lookup[c].pc = "died"
    <3>1. Answering(c)' /\ KnownFor(c)'
      BY <1>2, <2>2, <2>4, <2>5, <2>7, <2>8, Zenon DEF Answering, Clock, KnownFor, Delivering
    <3> QED BY <2>2, <2>4, <2>5, <2>8, <3>1 DEF Waits
  <2>9. CASE lookup[c].pc = "sleep"
    <3> DEFINE l == [lookup[c] EXCEPT !.pc = AfterSleep(lookup[c])]
    <3>1. l.pc = AfterSleep(lookup[c]) /\ l.polls = lookup[c].polls /\ lookup'[c] = l
      BY <1>1, <2>5, <2>9, SMT DEF LookupState
    <3> HIDE DEF l
    <3>2. /\ l.pc \in {"answer", "poll"}
          /\ l.pc = "answer" => l.polls = Polls
      BY <3>1, SMT DEF AfterSleep
    <3>3. client[c].timer + lookup[c].polls = Tac + 1 /\ client[c].known = 0
      BY <2>4, <2>9, Zenon DEF Answering, Clock, KnownFor, Delivering
    <3>4. lookup[c].polls \in 0..Polls
      BY <1>1, Fields
    <3>5. (client[c].timer - 1) + lookup[c].polls = Tac /\ later <= 1
      BY <2>6, <3>3, <3>4, TimerAssumption, SMT DEF later
    <3>6. Answering(c)' /\ KnownFor(c)'
      BY <1>2, <2>2, <2>4, <2>7, <3>1, <3>2, <3>5, Zenon DEF Answering, Clock, KnownFor, Delivering
    <3> QED BY <2>2, <2>4, <3>1, <3>2, <3>6 DEF Waits
  <2> QED BY <2>4, <2>8, <2>9
<1> QED BY <1>3, <1>4

LEMMA NextTiming == ASSUME IInv, TimingInv, [Next]_vars PROVE TimingInv'
<1> SUFFICES ASSUME NEW c \in Component PROVE Waits(c)'
  BY DEF TimingInv
<1>1. TypeOK /\ ComponentInv(c) /\ Waits(c) /\ Known \subseteq Known'
  BY KnownGrows DEF IInv, TimingInv
<1>2. ASSUME NEW d \in Component,
             \/ \E n \in Neighbour : StartPass(d, n) \/ AskPosition(d, n)
             \/ StopPass(d) \/ Unmap(d) \/ Map(d) \/ ClientSteps(d) \/ AdapterSteps(d) \/ PortSteps(d)
      PROVE  Waits(c)'
  <2>1. CASE d = c
    BY <1>1, <1>2, <2>1, OwnWaits
  <2>2. CASE d # c
    BY <1>1, <1>2, <2>2, OtherWaits
  <2> QED BY <2>1, <2>2
<1>3. ASSUME NEW n \in Neighbour, NEW s \in Time, NEW b \in BOOLEAN, Receive(n, s, b)
      PROVE  Waits(c)'
  BY <1>1, <1>3, SameWaits, Zenon DEF Receive, SameFor, beacons
<1>4. ASSUME Tick PROVE Waits(c)'
  BY <1>1, <1>4, TickWaits
<1>5. ASSUME UNCHANGED vars PROVE Waits(c)'
  BY <1>1, <1>5, SameWaits, Zenon DEF vars, SameFor
<1> QED BY <1>2, <1>3, <1>4, <1>5, Zenon DEF Next, CaptureSteps

\* The inductive invariant with the clocks of the questions.
THEOREM TimingInvariant == Spec => [](IInv /\ TimingInv)
<1> QED BY InitInv, InitTiming, NextInv, NextTiming, PTL DEF Spec

\* A failure comes after GET_LPV_TIMEOUT intervals of waiting in which the neighbour was
\* not there.
THEOREM FailuresAreHonest == Spec => []FailureIsHonest
<1>1. ASSUME IInv, TimingInv PROVE FailureIsHonest
  <2> SUFFICES ASSUME NEW c \in Component, lookup[c].pc \in {"answer", "notify", "lookup", "offer"},
                      lookup[c].found.is = "failure", client[c].state = "wait"
               PROVE  client[c].timer + Polls = Tac /\ client[c].known <= 1
    BY DEF FailureIsHonest
  <2>1. Clock(c) /\ KnownFor(c)
    BY <1>1, Zenon DEF TimingInv, Waits, Answering
  <2> QED BY <2>1, Zenon DEF Clock, KnownFor, Delivering
<1> QED BY <1>1, TimingInvariant, PTL

\* tc_ac only runs out when a concurrent modification of the table ended the thread.
THEOREM OnlyTheDeadTimeOut == Spec => []OnlyADeadThreadTimesOut
<1>1. ASSUME IInv, TimingInv PROVE OnlyADeadThreadTimesOut
  <2> SUFFICES ASSUME NEW c \in Component, client[c].state = "wait", acPort[c] = <<>>,
                      client[c].timer = 0
               PROVE  lookup[c].pc = "died"
    BY DEF OnlyADeadThreadTimesOut
  <2>1. /\ lookup[c].pc = "none" => Asking(c)
        /\ lookup[c].pc # "none" => Answering(c)
    BY <1>1 DEF TimingInv, Waits
  <2>2. lookup[c] \in LookupState
    BY <1>1 DEF IInv, TypeOK
  <2>3. lookup[c].polls \in 0..Polls /\ lookup[c].pc \in Pc
    BY <2>2, SMT DEF LookupState, Pc
  <2>4. lookup[c].pc \notin {"none", "done"}
    BY <2>1, TimerAssumption, SMT DEF Asking, Answering
  <2>5. Clock(c)
    BY <2>1, <2>4 DEF Answering
  <2> QED BY <2>3, <2>4, <2>5, TimerAssumption, SMT DEF Clock, Pc, Delivering
<1> QED BY <1>1, TimingInvariant, PTL

-----------------------------------------------------------------------------
(* The register.                                                            *)

LEMMA SetOne ==
  ASSUME NEW c \in Component, NEW q, Question(c)' = q,
         \A d \in Component : d # c => Question(d)' = Question(d)
  PROVE  [d \in Component |-> Question(d)]' = [[d \in Component |-> Question(d)] EXCEPT ![c] = q]
<1> QED BY Zenon

\* The answer to a question, and what a question is of.
Found(c) == lookup[c].found.is = "vector"
Denies(c) == lookup[c].found.is = "failure" /\ lookup[c].polls = Polls

LEMMA Questions ==
  ASSUME NEW c \in Component
  PROVE  /\ client[c].state # "wait" => Question(c) = Register!Idle
         /\ client[c].state = "wait" /\ Found(c)
              => Question(c) = Register!Answered(lookup[c].found.of, lookup[c].found.at)
         /\ client[c].state = "wait" /\ Denies(c) => Question(c) = Register!Denied(client[c].of)
         /\ client[c].state = "wait" /\ ~Found(c) /\ ~Denies(c)
              => Question(c) = Register!Asked(client[c].of)
<1>1. ~(Found(c) /\ Denies(c))
  BY DEF Found, Denies
<1> QED BY <1>1, Zenon DEF Question, Found, Denies, Register!Idle, Register!Answered,
           Register!Denied, Register!Asked

LEMMA SameQuestion ==
  ASSUME NEW c \in Component, client'[c].state = client[c].state, client'[c].of = client[c].of,
         client[c].state = "wait" =>
           /\ Found(c)' <=> Found(c)
           /\ Denies(c)' <=> Denies(c)
           /\ lookup'[c].found = lookup[c].found
  PROVE  Question(c)' = Question(c)
<1> QED BY Zenon DEF Question, Found, Denies

LEMMA RegisterInitRefined == Init => Register!Init
<1> SUFFICES ASSUME Init PROVE Register!Init
  OBVIOUS
<1>1. ASSUME NEW c \in Component PROVE Question(c) = Register!Idle
  <2>1. client[c] = At("run")
    BY Zenon DEF Init
  <2>2. client[c].state # "wait"
    BY <2>1, SMT DEF At
  <2> QED BY <2>2, Questions
<1>2. locTable = [n \in Neighbour |-> NoEntry]
  BY Zenon DEF Init
<1> QED BY <1>1, <1>2, Zenon DEF Register!Init

\* The questions of the others stay as they are.
LEMMA OneQuestion ==
  ASSUME TypeOK, NEW c \in Component, NEW q, Question(c)' = q,
         \/ \E n \in Neighbour : StartPass(c, n) \/ AskPosition(c, n)
         \/ StopPass(c) \/ Unmap(c) \/ Map(c) \/ ClientSteps(c) \/ AdapterSteps(c) \/ PortSteps(c)
  PROVE  /\ Register!Becomes(c, q)
         /\ q = Question(c) => UNCHANGED Register!vars
<1>1. ASSUME NEW d \in Component, d # c PROVE Question(d)' = Question(d)
  <2>1. SameFor(d)
    BY <1>1, OtherComponents
  <2> QED BY <2>1, SameQuestion, Zenon DEF SameFor, Found, Denies
<1>2. locTable' = locTable
  BY TableUntouched DEF table
<1>3. Register!Becomes(c, q)
  BY <1>1, <1>2, SetOne, Zenon DEF Register!Becomes
<1>4. q = Question(c) => UNCHANGED Register!vars
  BY <1>1, <1>2, Zenon DEF Register!vars
<1> QED BY <1>3, <1>4

\* What a step of c is for the register.
LEMMA OwnQuestion ==
  ASSUME TypeOK, NEW c \in Component, ComponentInv(c), Waits(c),
         \/ \E n \in Neighbour : StartPass(c, n) \/ AskPosition(c, n)
         \/ StopPass(c) \/ Unmap(c) \/ Map(c) \/ ClientSteps(c) \/ AdapterSteps(c) \/ PortSteps(c)
  PROVE  [Register!Next]_Register!vars
<1>t. /\ client \in [Component -> ClientState] /\ lookup \in [Component -> LookupState]
      /\ client[c] \in ClientState /\ lookup[c] \in LookupState
      /\ lookup[c].found \in Response
  BY Fields DEF TypeOK
<1>i. Polling(c) /\ Answers(c)
  BY DEF ComponentInv
\* The question stays as it is, ...
<1>s. ASSUME Question(c)' = Question(c) PROVE [Register!Next]_Register!vars
  BY <1>s, OneQuestion
\* ... or is asked, answered, denied or finished.
<1>b. ASSUME NEW q, Question(c)' = q PROVE Register!Becomes(c, q)
  BY <1>b, OneQuestion
<1>n. ASSUME \/ Register!Finish(c)
             \/ \E n \in Neighbour : \/ Register!Ask(c, n) \/ Register!Answer(c, n)
                                     \/ Register!Deny(c, n)
      PROVE  [Register!Next]_Register!vars
  <2>1. CASE Question(c)' = Question(c)
    BY <1>s, <2>1
  <2>2. CASE Question(c)' # Question(c)
    <3>1. [d \in Component |-> Question(d)]'[c] # [d \in Component |-> Question(d)][c]
      BY <2>2, Zenon
    <3> QED BY <1>n, <3>1, Zenon DEF Register!Next
  <2> QED BY <2>1, <2>2
<1>1. ASSUME NEW n \in Neighbour, StartPass(c, n) PROVE Question(c)' = Question(c)
  <2>1. UNCHANGED <<client, lookup>>
    BY <1>1, Zenon DEF StartPass, Trigger
  <2> QED BY <2>1, SameQuestion, Zenon DEF Found, Denies
<1>2. ASSUME StopPass(c) \/ PassMarks(c) \/ PassNotifies(c) \/ PortSteps(c) \/ LateSteps(c)
      PROVE  Question(c)' = Question(c)
  <2>1. UNCHANGED <<client, lookup>>
    BY <1>2, Zenon DEF StopPass, Trigger, PassMarks, PassNotifies, PortSteps, FilterBeacon,
       BeaconNotifies, BeaconOffered, BeaconIsLate, CaptureGoes, LateSteps, LateNotifies,
       LateLooksUp, LateOffers, LateGoes
  <2> QED BY <2>1, SameQuestion, Zenon DEF Found, Denies
<1>3. ASSUME Map(c) PROVE Question(c)' = Question(c)
  <2>1. client'[c] = At("run") /\ client[c].state = "unmapped"
    BY <1>t, <1>3, Zenon DEF Map
  <2>2. client'[c].state # "wait" /\ client[c].state # "wait"
    BY <2>1, SMT DEF At
  <2> QED BY <2>2, Zenon DEF Question
\* Whoever waits does not any more.
<1>4. ASSUME Unmap(c) \/ TakeResponse(c) \/ Expire(c) PROVE [Register!Next]_Register!vars
  <2>1. \E st \in ClientStates \ {"wait"} : client' = [client EXCEPT ![c] = At(st)]
    BY <1>4, Zenon DEF Unmap, TakeResponse, Expire, ClientStates
  <2>2. client'[c].state # "wait"
    BY <1>t, <2>1, SMT DEF At
  <2>3. Question(c)' = Register!Idle
    BY <2>2, Zenon DEF Question, Register!Idle
  <2>4. CASE Question(c) = Register!Idle
    BY <1>s, <2>3, <2>4
  <2>5. CASE Question(c) # Register!Idle
    <3>1. Register!Becomes(c, Register!Idle)
      BY <1>b, <2>3
    <3>2. Register!Finish(c)
      BY <2>5, <3>1, Zenon DEF Register!Finish
    <3> QED BY <1>n, <3>2
  <2> QED BY <2>4, <2>5
<1>5. ASSUME NEW n \in Neighbour, AskPosition(c, n) PROVE [Register!Next]_Register!vars
  <2>1. /\ client[c].state = "run" /\ client'[c].state = "wait" /\ client'[c].of = n
        /\ lookup'[c] = NoLookup(n)
    BY <1>t, <1>5, SMT DEF AskPosition, MayAsk
  <2>2. NoLookup(n).found.is = "failure" /\ NoLookup(n).polls # Polls
    BY TimerAssumption, SMT DEF NoLookup, Failure
  <2>3. Question(c)' = Register!Asked(n)
    BY <2>1, <2>2, Zenon DEF Question, Register!Asked
  <2>4. Question(c) = Register!Idle
    BY <2>1, Zenon DEF Question, Register!Idle
  <2>5. Register!Becomes(c, Register!Asked(n))
    BY <1>b, <2>3
  <2>6. Register!Ask(c, n)
    BY <2>4, <2>5, Zenon DEF Register!Ask
  <2> QED BY <1>n, <2>6
<1>6. ASSUME Handle(c) PROVE Question(c)' = Question(c)
  <2>1. UNCHANGED client /\ (UNCHANGED lookup \/ lookup' = [lookup EXCEPT ![c].pc = "start"])
    BY <1>6, HandleKinds, Zenon
  <2>2. lookup'[c].polls = lookup[c].polls /\ lookup'[c].found = lookup[c].found
    BY <1>t, <2>1, SMT DEF LookupState
  <2> QED BY <2>1, <2>2, SameQuestion, Zenon DEF Found, Denies
\* The steps of the thread: most of them neither find nor count anything.
<1>7. ASSUME NEW l \in LookupState, LookupGoes(c, l), l.found = lookup[c].found,
             l.polls = lookup[c].polls
      PROVE  Question(c)' = Question(c)
  <2>1. lookup'[c] = l /\ client'[c] = client[c]
    BY <1>7, ThreadStep
  <2> QED BY <1>7, <2>1, SameQuestion, Zenon DEF Found, Denies
<1>8. ASSUME ListBegins(c) PROVE Question(c)' = Question(c)
  <2> DEFINE l == [lookup[c] EXCEPT !.pc = "list", !.keys = Known, !.left = Known]
  <2>1. LookupGoes(c, l)
    BY <1>8, Zenon DEF ListBegins
  <2>2. l.polls = lookup[c].polls /\ l.found = lookup[c].found
    BY <1>t, SMT DEF LookupState
  <2>3. [lookup[c] EXCEPT !.pc = "list"] \in LookupState
    BY <1>t, SetPc, Zenon DEF Pc
  <2>4. [lookup[c] EXCEPT !.pc = "list", !.keys = Known] \in LookupState
    BY <2>3, KnownNeighbours, SetKeys, Zenon
  <2>5. l \in LookupState
    BY <2>4, KnownNeighbours, SetLeft, Zenon
  <2> HIDE DEF l
  <2> QED BY <1>7, <2>1, <2>2, <2>5
<1>9. ASSUME ListNext(c) PROVE Question(c)' = Question(c)
  <2>1. \E l \in LookupState : /\ LookupGoes(c, l) /\ l.found = lookup[c].found
                               /\ l.polls = lookup[c].polls
    <3>1. CASE lookup[c].keys = Known
      <4>1. PICK n \in lookup[c].left : LookupGoes(c, [lookup[c] EXCEPT !.left = @ \ {n}])
        BY <1>9, <3>1, Zenon DEF ListNext
      <4> DEFINE l == [lookup[c] EXCEPT !.left = @ \ {n}]
      <4>2. l.polls = lookup[c].polls /\ l.found = lookup[c].found
        BY <1>t, <1>9, SMT DEF LookupState, ListNext
      <4>3. l \in LookupState
        BY <1>t, Fields, SetLeft, Zenon
      <4>4. LookupGoes(c, l)
        BY <4>1
      <4> HIDE DEF l
      <4> QED BY <4>2, <4>3, <4>4
    <3>2. CASE lookup[c].keys # Known
      <4> DEFINE l == [lookup[c] EXCEPT !.pc = "died", !.keys = {}, !.left = {}]
      <4>1. LookupGoes(c, l)
        BY <1>9, <3>2, Zenon DEF ListNext
      <4>2. l.polls = lookup[c].polls /\ l.found = lookup[c].found
        BY <1>t, SMT DEF LookupState
      <4>3. [lookup[c] EXCEPT !.pc = "died"] \in LookupState
        BY <1>t, SetPc, Zenon DEF Pc
      <4>4. [lookup[c] EXCEPT !.pc = "died", !.keys = {}] \in LookupState
        BY <4>3, SetKeys, Zenon
      <4>5. l \in LookupState
        BY <4>4, SetLeft, Zenon
      <4> HIDE DEF l
      <4> QED BY <4>1, <4>2, <4>5
    <3> QED BY <3>1, <3>2
  <2> QED BY <1>7, <2>1
<1>10. ASSUME ListEnds(c) PROVE Question(c)' = Question(c)
  <2> DEFINE l == [lookup[c] EXCEPT !.pc = "poll", !.keys = {}]
  <2>1. LookupGoes(c, l)
    BY <1>10, Zenon DEF ListEnds
  <2>2. l.polls = lookup[c].polls /\ l.found = lookup[c].found
    BY <1>t, SMT DEF LookupState
  <2>3. [lookup[c] EXCEPT !.pc = "poll"] \in LookupState
    BY <1>t, SetPc, Zenon DEF Pc
  <2>4. l \in LookupState
    BY <2>3, SetKeys, Zenon
  <2> HIDE DEF l
  <2> QED BY <1>7, <2>1, <2>2, <2>4
<1>11. ASSUME Marks(c) \/ Notifies(c) \/ LooksUp(c) \/ Offers(c)
       PROVE  Question(c)' = Question(c)
  <2>1. PICK v \in {"notify", "lookup", "offer", "done"} :
          LookupGoes(c, [lookup[c] EXCEPT !.pc = v])
    BY <1>11, Zenon DEF Marks, Notifies, LooksUp, Offers
  <2> DEFINE l == [lookup[c] EXCEPT !.pc = v]
  <2>2. l.polls = lookup[c].polls /\ l.found = lookup[c].found
    BY <1>t, SMT DEF LookupState
  <2>3. l \in LookupState
    BY <1>t, SetPc, Zenon DEF Pc
  <2>4. LookupGoes(c, l)
    BY <2>1
  <2> HIDE DEF l
  <2> QED BY <1>7, <2>2, <2>3, <2>4
\* Nothing is found: the last time, the question is denied.
<1>12. ASSUME Poll(c), lookup[c].of \notin Known PROVE [Register!Next]_Register!vars
  <2> DEFINE n == lookup[c].of
             l == [lookup[c] EXCEPT !.pc = "sleep", !.polls = @ + 1]
  <2>1. lookup[c].pc = "poll" /\ LookupGoes(c, l)
    BY <1>12, Zenon DEF Poll
  <2>2. l.polls = lookup[c].polls + 1 /\ l.found = lookup[c].found
    BY <1>t, SMT DEF LookupState
  <2>3. lookup[c].polls # Polls /\ lookup[c].polls + 1 \in 0..Polls
    BY <1>i, <1>t, <2>1, Fields, TimerAssumption, SMT DEF Polling
  <2>4. [lookup[c] EXCEPT !.pc = "sleep"] \in LookupState
    BY <1>t, SetPc, Zenon DEF Pc
  <2>5. [lookup[c] EXCEPT !.pc = "sleep"].polls = lookup[c].polls
    BY <1>t, SMT DEF LookupState
  <2>6. l \in LookupState
    BY <2>3, <2>4, <2>5, SetPolls, Zenon
  <2> HIDE DEF l
  <2>7. lookup'[c] = l /\ client'[c] = client[c]
    BY <2>1, <2>6, ThreadStep
  <2>8. lookup[c].found.is = "failure"
    BY <1>i, <2>1, Zenon DEF Polling
  <2>9. CASE client[c].state = "wait" /\ l.polls = Polls
    <3>1. client[c].of = n /\ n \in Neighbour
      BY <1>i, <2>9, Zenon DEF Answers, Waits
    <3>2. locTable[n] = NoEntry
      BY <1>12, <3>1, Zenon DEF Known
    <3>3. Question(c) = Register!Asked(n)
      <4>1. ~Found(c) /\ ~Denies(c)
        BY <2>3, <2>8, Zenon DEF Found, Denies
      <4> QED BY <2>9, <3>1, <4>1, Questions
    <3>4. Question(c)' = Register!Denied(n)
      BY <2>2, <2>7, <2>8, <2>9, <3>1, Zenon DEF Question, Register!Denied
    <3>5. Register!Becomes(c, Register!Denied(n))
      BY <1>b, <3>4
    <3>6. Register!Deny(c, n)
      BY <3>2, <3>3, <3>5, Zenon DEF Register!Deny
    <3> QED BY <1>n, <3>1, <3>6
  <2>10. CASE client[c].state # "wait" \/ l.polls # Polls
    <3>1. Question(c)' = Question(c)
      BY <2>2, <2>3, <2>7, <2>10, SameQuestion, Zenon DEF Found, Denies
    <3> QED BY <1>s, <3>1
  <2> QED BY <2>9, <2>10
\* What the table has at that moment is the answer.
<1>13. ASSUME Poll(c), lookup[c].of \in Known PROVE [Register!Next]_Register!vars
  <2> DEFINE n == lookup[c].of
             v == Vector(n, locTable[n])
             l == [lookup[c] EXCEPT !.pc = "answer", !.found = v]
  <2>1. LookupGoes(c, l) /\ lookup[c].pc = "poll"
    BY <1>13, Zenon DEF Poll
  <2>2. l.found = v /\ v.is = "vector" /\ v.of = n /\ v.at = locTable[n]
    BY <1>t, SMT DEF LookupState, Vector
  <2>3. locTable[n] \in Time /\ n \in Neighbour /\ locTable[n] # NoEntry
    BY <1>13, SMT DEF TypeOK, Known
  <2>4. v \in Response
    BY <2>3, Values
  <2>5. [lookup[c] EXCEPT !.pc = "answer"] \in LookupState
    BY <1>t, SetPc, Zenon DEF Pc
  <2>6. l \in LookupState
    BY <2>4, <2>5, SetFound, Zenon
  <2> HIDE DEF l, v
  <2>7. lookup'[c] = l /\ client'[c] = client[c]
    BY <2>1, <2>6, ThreadStep
  <2>8. CASE client[c].state = "wait"
    <3>1. Question(c) = Register!Asked(n)
      <4>1. lookup[c].found.is = "failure" /\ lookup[c].polls # Polls
        BY <1>i, <1>t, <2>1, Fields, TimerAssumption, SMT DEF Polling
      <4>2. client[c].of = n /\ ~Found(c) /\ ~Denies(c)
        BY <1>i, <2>8, <4>1, Zenon DEF Answers, Found, Denies
      <4> QED BY <2>8, <4>2, Questions
    <3>2. Question(c)' = Register!Answered(n, locTable[n])
      BY <2>2, <2>7, <2>8, Zenon DEF Question, Register!Answered
    <3>3. Register!Becomes(c, Register!Answered(n, locTable[n]))
      BY <1>b, <3>2
    <3>4. Register!Answer(c, n)
      BY <2>3, <3>1, <3>3, Zenon DEF Register!Answer
    <3> QED BY <1>n, <2>3, <3>4
  <2>9. CASE client[c].state # "wait"
    <3>1. Question(c)' = Question(c)
      BY <2>7, <2>9, Zenon DEF Question
    <3> QED BY <1>s, <3>1
  <2> QED BY <2>8, <2>9
<1> QED BY <1>s, <1>1, <1>2, <1>3, <1>4, <1>5, <1>6, <1>8, <1>9, <1>10, <1>11, <1>12, <1>13
        DEF ClientSteps, AdapterSteps, LookupSteps

\* A packet that changes the table is learned from.
LEMMA ReceiveLearns ==
  ASSUME TypeOK, NEW n \in Neighbour, NEW s \in Time, NEW b \in BOOLEAN, Receive(n, s, b)
  PROVE  [Register!Next]_Register!vars
<1>1. UNCHANGED <<client, lookup>>
      /\ locTable' = [locTable EXCEPT ![n] = IF IsNewer(n, s) THEN s ELSE @]
  BY Zenon DEF Receive
<1>2. ASSUME NEW c \in Component PROVE Question(c)' = Question(c)
  BY <1>1, SameQuestion, Zenon DEF Found, Denies
<1>u. ASSUME locTable' = locTable PROVE [Register!Next]_Register!vars
  BY <1>2, <1>u, Zenon DEF Register!vars
<1>t. locTable \in [Neighbour -> Time \cup {NoEntry}]
  BY DEF TypeOK
<1>3. CASE IsNewer(n, s)
  <2>1. locTable' = [locTable EXCEPT ![n] = s]
    BY <1>1, <1>3, Zenon
  <2>2. \/ locTable[n] = NoEntry
        \/ locTable[n] < s
        \/ locTable[n] \div Wrap # s \div Wrap
    <3>1. CASE n \notin Known
      BY <3>1 DEF Known
    <3>2. CASE n \in Known
      <4>1. locTable[n] \in Time /\ locTable[n] % Wrap < s % Wrap
        BY <1>t, <1>3, <3>2, SMT DEF IsNewer, Known, Timestamp
      <4>2. locTable[n] \in Nat /\ s \in Nat
        BY <4>1, BoundAssumption, SMT DEF Time
      <4> QED BY <4>1, <4>2, NewerInTurn, WrapAssumption
    <3> QED BY <3>1, <3>2
  <2>3. Register!Learn(n, s)
    BY <1>2, <2>1, <2>2, Zenon DEF Register!Learn
  <2>4. CASE locTable' # locTable
    BY <2>3, <2>4, Zenon DEF Register!Next
  <2>5. CASE locTable' = locTable
    BY <1>u, <2>5
  <2> QED BY <2>4, <2>5
<1>4. CASE ~IsNewer(n, s)
  <2>1. locTable' = locTable
    BY <1>1, <1>4, <1>t, Zenon
  <2> QED BY <1>u, <2>1
<1> QED BY <1>3, <1>4

\* A second changes no question.
LEMMA TickAsksNothing ==
  ASSUME TypeOK, Tick
  PROVE  UNCHANGED Register!vars
<1>1. ASSUME NEW c \in Component PROVE Question(c)' = Question(c)
  <2>t. lookup[c] \in LookupState
    BY DEF TypeOK
  <2>1. client'[c].state = client[c].state /\ client'[c].of = client[c].of
    <3>1. CASE client[c].state = "wait"
      <4>1. \E t, k : client'[c] = [state |-> "wait", of |-> client[c].of, timer |-> t, known |-> k]
        BY <3>1, Zenon DEF Tick
      <4> QED BY <3>1, <4>1, SMT
    <3>2. CASE client[c].state # "wait"
      BY <3>2, Zenon DEF Tick
    <3> QED BY <3>1, <3>2
  <2>2. lookup'[c] = IF lookup[c].pc = "sleep"
                     THEN [lookup[c] EXCEPT !.pc = AfterSleep(lookup[c])] ELSE lookup[c]
    BY Zenon DEF Tick
  <2>3. CASE lookup[c].pc = "sleep"
    <3>1. lookup'[c].polls = lookup[c].polls /\ lookup'[c].found = lookup[c].found
      BY <2>t, <2>2, <2>3, SMT DEF LookupState
    <3> QED BY <2>1, <3>1, SameQuestion, Zenon DEF Found, Denies
  <2>4. CASE lookup[c].pc # "sleep"
    BY <2>1, <2>2, <2>4, SameQuestion, Zenon DEF Found, Denies
  <2> QED BY <2>3, <2>4
<1>2. locTable' = locTable
  BY Zenon DEF Tick, table
<1> QED BY <1>1, <1>2, Zenon DEF Register!vars

LEMMA RegisterNextRefined ==
  IInv /\ TimingInv /\ [Next]_vars => [Register!Next]_Register!vars
<1> SUFFICES ASSUME IInv, TimingInv, [Next]_vars PROVE [Register!Next]_Register!vars
  OBVIOUS
<1>1. TypeOK /\ \A c \in Component : ComponentInv(c) /\ Waits(c)
  BY DEF IInv, TimingInv
<1>2. ASSUME NEW c \in Component,
             \/ \E n \in Neighbour : StartPass(c, n) \/ AskPosition(c, n)
             \/ StopPass(c) \/ Unmap(c) \/ Map(c) \/ ClientSteps(c) \/ AdapterSteps(c) \/ PortSteps(c)
      PROVE  [Register!Next]_Register!vars
  BY <1>1, <1>2, OwnQuestion
<1>3. ASSUME NEW n \in Neighbour, NEW s \in Time, NEW b \in BOOLEAN, Receive(n, s, b)
      PROVE  [Register!Next]_Register!vars
  BY <1>1, <1>3, ReceiveLearns
<1>4. ASSUME Tick PROVE [Register!Next]_Register!vars
  BY <1>1, <1>4, TickAsksNothing
<1>5. ASSUME UNCHANGED vars PROVE [Register!Next]_Register!vars
  <2>1. ASSUME NEW c \in Component PROVE Question(c)' = Question(c)
    BY <1>5, SameQuestion, Zenon DEF vars, Found, Denies
  <2> QED BY <1>5, <2>1, Zenon DEF vars, table, Register!vars
<1> QED BY <1>2, <1>3, <1>4, <1>5, Zenon DEF Next, CaptureSteps

\* The table, its capture thread and the threads that look up in it implement the register
\* that IManagementTA promises.
THEOREM RegisterImplemented == Spec => ImplementsRegister
<1> QED BY RegisterInitRefined, RegisterNextRefined, TimingInvariant, PTL
        DEF Spec, ImplementsRegister, Register!Spec
=============================================================================
