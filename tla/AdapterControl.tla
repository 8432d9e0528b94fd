--------------------------- MODULE AdapterControl ---------------------------
(***************************************************************************)
(* The adapter control port and the location table: what a test component   *)
(* asks of the adapter (f_acTriggerEvent, f_acGetLongPosVector), the thread  *)
(* that looks a position vector up (ports/AdapterControlPort, Management),   *)
(* and the capture thread that fills the table and passes beacons on         *)
(* (ports/GnPort.receive).  The table is static: one for all components.     *)
(*                                                                         *)
(* A position vector is the station time it was sent at; what the code sees  *)
(* of that is its timestamp, the time modulo Wrap.  Time goes by in poll     *)
(* intervals, and only when no thread has anything left to do: one step is   *)
(* short against the second that a poll interval lasts.                      *)
(*                                                                         *)
(* Test cases follow each other: the ports are unmapped, in whatever state    *)
(* their component is, and mapped again under the same name.  A thread that    *)
(* works for the old port is then late: the next port has other observers,    *)
(* but TestAdapter.update looks the port up by its name.                      *)
(***************************************************************************)
EXTENDS Naturals, Sequences

CONSTANTS Component,    \* test components with a GN port and an adapter control port
          Neighbour,    \* stations in radio range, by the MID of their address
          None,         \* null
          Wrap,         \* timestamps are kept modulo Wrap (2^32 ms)
          Polls,        \* GET_LPV_TIMEOUT
          Tac,          \* PX_TAC in poll intervals
          MaxTime,      \* bound: station time
          MaxRequests   \* bound: requests of all components

ASSUME WrapAssumption == Wrap \in Nat \ {0}
ASSUME TimerAssumption == Polls \in Nat \ {0} /\ Tac \in Nat /\ Tac > Polls
ASSUME BoundAssumption == MaxTime \in Nat /\ MaxRequests \in Nat
ASSUME NoneAssumption == None \notin Neighbour \cup Component

Time == 0..MaxTime
NoEntry == MaxTime + 1

\* Responses: a failure, or the position vector of a neighbour.
Failure == [is |-> "failure"]
Vector(n, s) == [is |-> "vector", of |-> n, at |-> s]

\* What a late thread enqueues is marked: no component can see the mark.
Late(r) == IF r.is = "vector" THEN [r EXCEPT !.is = "late"] ELSE r
Response == {Failure} \cup [is : {"vector", "late"}, of : Neighbour, at : Time]

Request == [op : {"pass", "stop", "get"}, of : Neighbour \cup {None}]

VARIABLES
  locTable,      \* Management.locTable: the vector kept for each neighbour
  newest,        \* the latest station time handled so far
  capture,       \* the packet of the capture thread, the ports still to get it, and the
                 \* port it is being enqueued on
  enqueueBeacon, \* Management.enqueueBeacon of each component: None or a neighbour
  client,        \* the test component: state, neighbour asked about, tc_ac, and for how
                 \* many intervals the table has had that neighbour, up to 2
  made,          \* requests made so far
  wanted,        \* the neighbours whose beacons it has asked for
  gnPort,        \* the neighbours whose beacons it has got
  reqs,          \* its requests on their way to the adapter
  handler,       \* its handler: responding to a pass request or not
  lookup,        \* its thread that looks up a position vector
  late,          \* the thread that looked one up for the port of an earlier test case
  changed,       \* the adapter control ports whose Observable has its flag set
  acPort         \* the queue of its adapter control port, from the mapper's on

table == <<locTable, newest>>
beacons == <<enqueueBeacon, wanted, gnPort>>
vars == <<table, capture, enqueueBeacon, client, made, wanted, gnPort, reqs, handler, lookup,
          late, changed, acPort>>

Known == {n \in Neighbour : locTable[n] # NoEntry}

Packet(n, todo) == [of |-> n, todo |-> todo, port |-> None, pc |-> "filter"]
NoPacket == Packet(None, {})
At(state) == [state |-> state, of |-> None, timer |-> 0, known |-> 0]
NoLookup(n) == [pc |-> "none", of |-> n, keys |-> {}, left |-> {}, polls |-> 0, found |-> Failure]
NoLate == [pc |-> "none", found |-> Failure]

Init ==
  /\ locTable = [n \in Neighbour |-> NoEntry]
  /\ newest = [n \in Neighbour |-> 0]
  /\ capture = NoPacket
  /\ enqueueBeacon = [c \in Component |-> None]
  /\ client = [c \in Component |-> At("run")]
  /\ made = 0
  /\ wanted = [c \in Component |-> {}] /\ gnPort = [c \in Component |-> {}]
  /\ reqs = [c \in Component |-> <<>>]
  /\ handler = [c \in Component |-> "idle"]
  /\ lookup = [c \in Component |-> NoLookup(None)]
  /\ late = [c \in Component |-> NoLate]
  /\ changed = {}
  /\ acPort = [c \in Component |-> <<>>]

-----------------------------------------------------------------------------
(* The test component.                                                      *)

MayAsk(c) == client[c].state = "run" /\ made < MaxRequests

\* A request is sent and nobody waits for a response to it (f_acTriggerEvent).
Trigger(c, r) ==
  /\ MayAsk(c)
  /\ reqs' = [reqs EXCEPT ![c] = Append(@, r)]
  /\ made' = made + 1
  /\ UNCHANGED client

StartPass(c, n) ==
  /\ Trigger(c, [op |-> "pass", of |-> n])
  /\ wanted' = [wanted EXCEPT ![c] = @ \cup {n}]
  /\ UNCHANGED <<table, capture, enqueueBeacon, gnPort, handler, lookup, late, changed, acPort>>

StopPass(c) ==
  /\ Trigger(c, [op |-> "stop", of |-> None])
  /\ UNCHANGED <<table, capture, beacons, handler, lookup, late, changed, acPort>>

\* f_acGetLongPosVector: the request, and tc_ac.
AskPosition(c, n) ==
  /\ MayAsk(c)
  /\ reqs' = [reqs EXCEPT ![c] = Append(@, [op |-> "get", of |-> n])]
  /\ client' = [client EXCEPT ![c] = [state |-> "wait", of |-> n, timer |-> Tac,
                                               known |-> IF n \in Known THEN 2 ELSE 0]]
  /\ made' = made + 1
  /\ lookup' = [lookup EXCEPT ![c] = NoLookup(n)]
  /\ UNCHANGED <<table, capture, beacons, handler, late, changed, acPort>>

\* Only the position vector asked for is expected; everything else is an error, after
\* which the component synchronises and stops.  A component that takes a late vector for
\* its answer is not followed any further (bound).
TakeResponse(c) ==
  /\ client[c].state = "wait" /\ acPort[c] # <<>>
  /\ LET r == Head(acPort[c])
         expected == r.is \in {"vector", "late"} /\ r.of = client[c].of
     IN client' = [client EXCEPT ![c] = At(IF ~expected THEN "stopped"
                                            ELSE IF r.is = "vector" THEN "run" ELSE "misled")]
  /\ acPort' = [acPort EXCEPT ![c] = Tail(@)]
  /\ UNCHANGED <<table, capture, beacons, made, reqs, handler, lookup, late, changed>>

\* tc_ac.timeout
Expire(c) ==
  /\ client[c].state = "wait" /\ acPort[c] = <<>> /\ client[c].timer = 0
  /\ client' = [client EXCEPT ![c] = At("stopped")]
  /\ UNCHANGED <<table, capture, beacons, made, reqs, handler, lookup, late, changed, acPort>>

\* A thread past the copy of the observers goes on to the look-up of the port; any other
\* still has its port object, with a flag of its own.
Left(l) == IF l.pc \in {"lookup", "offer"} THEN [pc |-> l.pc, found |-> Late(l.found)]
                                          ELSE [pc |-> "notify", found |-> l.found]

Working(l) == l.pc \notin {"none", "done", "died"}

\* The test case ends, wherever its component is: the ports are unmapped once the requests
\* before are handled, the observers of the port objects deleted (removePort).  What is on
\* its way to the component goes with the port (TriConnection).
\* Bound: one late thread per component.
Unmap(c) ==
  /\ client[c].state # "unmapped" /\ reqs[c] = <<>> /\ handler[c] = "idle"
  /\ Working(lookup[c]) => late[c] = NoLate
  /\ client' = [client EXCEPT ![c] = At("unmapped")]
  /\ late' = [late EXCEPT ![c] = IF Working(lookup[c]) THEN Left(lookup[c]) ELSE @]
  /\ lookup' = [lookup EXCEPT ![c] = NoLookup(None)]
  /\ capture' = IF capture.port = c THEN [capture EXCEPT !.pc = "late"] ELSE capture
  /\ changed' = changed \ {c}
  /\ acPort' = [acPort EXCEPT ![c] = <<>>]
  /\ UNCHANGED <<table, beacons, made, reqs, handler>>

\* Mutated: the filter of the last test case stays.
MapKeepsFilter(c) ==
  /\ client[c].state = "unmapped"
  /\ client' = [client EXCEPT ![c] = At("run")]
  /\ wanted' = [wanted EXCEPT ![c] = {}] /\ gnPort' = [gnPort EXCEPT ![c] = {}]
  /\ UNCHANGED <<table, capture, enqueueBeacon, made, reqs, handler, lookup, late, changed, acPort>>

\* The next test case maps ports of the same names: registerGnPort resets the settings,
\* the table stays.
Map(c) ==
  /\ client[c].state = "unmapped"
  /\ client' = [client EXCEPT ![c] = At("run")]
  /\ wanted' = [wanted EXCEPT ![c] = {}] /\ gnPort' = [gnPort EXCEPT ![c] = {}]
  /\ enqueueBeacon' = [enqueueBeacon EXCEPT ![c] = None]
  /\ UNCHANGED <<table, capture, made, reqs, handler, lookup, late, changed, acPort>>

-----------------------------------------------------------------------------
(* The adapter control port.                                                *)

\* AdapterControlPort.send
Handle(c) ==
  /\ reqs[c] # <<>> /\ handler[c] = "idle"
  /\ reqs' = [reqs EXCEPT ![c] = Tail(@)]
  /\ LET r == Head(reqs[c])
     IN CASE r.op = "pass" -> /\ enqueueBeacon' = [enqueueBeacon EXCEPT ![c] = r.of]
                              /\ handler' = [handler EXCEPT ![c] = "respond"]
                              /\ UNCHANGED lookup
          [] r.op = "stop" -> /\ enqueueBeacon' = [enqueueBeacon EXCEPT ![c] = None]
                              /\ UNCHANGED <<handler, lookup>>
          [] r.op = "get"  -> /\ lookup' = [lookup EXCEPT ![c].pc = "start"]
                              /\ UNCHANGED <<enqueueBeacon, handler>>
  /\ UNCHANGED <<table, capture, client, made, wanted, gnPort, late, changed, acPort>>

\* ProcessAcStartPassBeaconing responds with a failure, whatever happened.
PassMarks(c) ==
  /\ handler[c] = "respond"
  /\ handler' = [handler EXCEPT ![c] = "notify"]
  /\ changed' = changed \cup {c}
  /\ UNCHANGED <<table, capture, beacons, client, made, reqs, lookup, late, acPort>>

\* Observable.notifyObservers, which does nothing unless the flag is set, to the end: this
\* thread itself unmaps the port, later.
PassNotifies(c) ==
  /\ handler[c] = "notify"
  /\ handler' = [handler EXCEPT ![c] = "idle"]
  /\ changed' = changed \ {c}
  /\ acPort' = [acPort EXCEPT ![c] = IF c \in changed THEN Append(@, Failure) ELSE @]
  /\ UNCHANGED <<table, capture, beacons, client, made, reqs, lookup, late>>

-----------------------------------------------------------------------------
(* The thread of getLongPosVector.                                          *)

LookupGoes(c, l) ==
  /\ lookup' = [lookup EXCEPT ![c] = l]
  /\ UNCHANGED <<table, capture, beacons, client, made, reqs, handler, late>>

\* The table is printed first: the iterator is made, ...
ListBegins(c) ==
  /\ lookup[c].pc = "start"
  /\ LookupGoes(c, [lookup[c] EXCEPT !.pc = "list", !.keys = Known, !.left = Known])
  /\ UNCHANGED <<changed, acPort>>

\* ... and asked for the next key; a key put since it was made is a concurrent
\* modification, and the exception ends the thread.
ListNext(c) ==
  /\ lookup[c].pc = "list" /\ lookup[c].left # {}
  /\ IF lookup[c].keys = Known
     THEN \E n \in lookup[c].left : LookupGoes(c, [lookup[c] EXCEPT !.left = @ \ {n}])
     ELSE LookupGoes(c, [lookup[c] EXCEPT !.pc = "died", !.keys = {}, !.left = {}])
  /\ UNCHANGED <<changed, acPort>>

ListEnds(c) ==
  /\ lookup[c].pc = "list" /\ lookup[c].left = {}
  /\ LookupGoes(c, [lookup[c] EXCEPT !.pc = "poll", !.keys = {}])
  /\ UNCHANGED <<changed, acPort>>

\* One round of the polling loop.
Poll(c) ==
  /\ lookup[c].pc = "poll"
  /\ LET n == lookup[c].of
     IN LookupGoes(c, IF n \in Known
                      THEN [lookup[c] EXCEPT !.pc = "answer", !.found = Vector(n, locTable[n])]
                      ELSE [lookup[c] EXCEPT !.pc = "sleep", !.polls = @ + 1])
  /\ UNCHANGED <<changed, acPort>>

\* Mutated: the response is notified without setChanged.
MarksNothing(c) ==
  /\ lookup[c].pc = "answer"
  /\ LookupGoes(c, [lookup[c] EXCEPT !.pc = "notify"])
  /\ UNCHANGED <<changed, acPort>>

Marks(c) ==
  /\ lookup[c].pc = "answer"
  /\ changed' = changed \cup {c}
  /\ LookupGoes(c, [lookup[c] EXCEPT !.pc = "notify"])
  /\ UNCHANGED acPort

\* Observable.notifyObservers: with the flag set it is cleared and the observers are
\* copied.
Notifies(c) ==
  /\ lookup[c].pc = "notify"
  /\ changed' = changed \ {c}
  /\ LookupGoes(c, [lookup[c] EXCEPT !.pc = IF c \in changed THEN "lookup" ELSE "done"])
  /\ UNCHANGED acPort

\* TestAdapter.update looks the port up by name, sendNorthboundMessage its handler.
LooksUp(c) ==
  /\ lookup[c].pc = "lookup"
  /\ LookupGoes(c, [lookup[c] EXCEPT !.pc = "offer"])
  /\ UNCHANGED <<changed, acPort>>

Offers(c) ==
  /\ lookup[c].pc = "offer"
  /\ acPort' = [acPort EXCEPT ![c] = Append(@, lookup[c].found)]
  /\ LookupGoes(c, [lookup[c] EXCEPT !.pc = "done"])
  /\ UNCHANGED changed

LookupSteps(c) ==
  \/ ListBegins(c) \/ ListNext(c) \/ ListEnds(c) \/ Poll(c) \/ Marks(c) \/ Notifies(c)
  \/ LooksUp(c) \/ Offers(c)

-----------------------------------------------------------------------------
(* The thread of an earlier test case, which may take any time.              *)

LateGoes(c, l) ==
  /\ late' = [late EXCEPT ![c] = l]
  /\ UNCHANGED <<table, capture, beacons, client, made, reqs, handler, lookup, changed>>

\* Mutated: removePort leaves the observers.
StillObserved(c) ==
  /\ late[c].pc = "notify"
  /\ LateGoes(c, [late[c] EXCEPT !.pc = "lookup"])
  /\ UNCHANGED acPort

\* Whatever it finds in the table, its port object has no observers left.
LateNotifies(c) ==
  /\ late[c].pc = "notify"
  /\ LateGoes(c, NoLate)
  /\ UNCHANGED acPort

\* The name may be unknown, or that of the next port by now.  (Between the look-up of the
\* port and that of the handler an unmap makes the adapter reset itself: TriAdapter.)
LateLooksUp(c) ==
  /\ late[c].pc = "lookup"
  /\ LateGoes(c, IF client[c].state = "unmapped" THEN NoLate ELSE [late[c] EXCEPT !.pc = "offer"])
  /\ UNCHANGED acPort

\* The handler's queue has ended with its connection, or serves the next mapping as well.
LateOffers(c) ==
  /\ late[c].pc = "offer"
  /\ LateGoes(c, NoLate)
  /\ acPort' \in {acPort, [acPort EXCEPT ![c] = Append(@, late[c].found)]}

LateSteps(c) == LateNotifies(c) \/ LateLooksUp(c) \/ LateOffers(c)

-----------------------------------------------------------------------------
(* The capture thread.                                                      *)

Timestamp(s) == s % Wrap

\* Mutated: every packet replaces the entry.
Replaces(n, s) == TRUE

\* Mutated: timestamps are compared as the signed numbers they are read as.
SignedIsNewer(n, s) ==
  LET signed(t) == IF 2 * Timestamp(t) >= Wrap THEN Timestamp(t) ELSE Timestamp(t) + Wrap
  IN n \notin Known \/ signed(locTable[n]) < signed(s)

\* gnUpdateLocTable replaces an entry by one with a greater timestamp.
IsNewer(n, s) == n \notin Known \/ Timestamp(locTable[n]) < Timestamp(s)

\* A packet of n comes, in or just out of order.  The GN port that gets it first updates
\* the table (gnUpdateLocTable); the ports that get it later find the table up to date.
\* A beacon goes through the filter of every port; what becomes of another packet is not
\* modelled here.
Receive(n, s, beacon) ==
  /\ capture = NoPacket
  /\ s <= newest[n] + 1 /\ s + 1 >= newest[n]
  /\ locTable' = [locTable EXCEPT ![n] = IF IsNewer(n, s) THEN s ELSE @]
  /\ newest' = [newest EXCEPT ![n] = IF s > @ THEN s ELSE @]
  /\ capture' = IF beacon THEN Packet(n, Component) ELSE NoPacket
  /\ UNCHANGED <<beacons, client, made, reqs, handler, lookup, late, changed, acPort>>

Matches(c) == enqueueBeacon[c] # None /\ capture.of = enqueueBeacon[c]

CaptureGoes(p) ==
  /\ capture' = p
  /\ UNCHANGED <<table, enqueueBeacon, client, wanted, made, reqs, handler, lookup, late, changed,
                 acPort>>

\* The packet without the port of c.
Without(c) == IF capture.todo = {c} THEN NoPacket
              ELSE Packet(capture.of, capture.todo \ {c})

\* The rest of receive for the port of c: the filter is read once, ...
FilterBeacon(c) ==
  /\ c \in capture.todo /\ capture.pc = "filter"
  /\ CaptureGoes(IF Matches(c) /\ client[c].state # "unmapped"
                  THEN [capture EXCEPT !.port = c, !.pc = "notify"] ELSE Without(c))
  /\ UNCHANGED gnPort

\* ... the observers are copied, none if the port was unmapped since, ...
BeaconNotifies(c) ==
  /\ capture.port = c /\ capture.pc = "notify"
  /\ CaptureGoes([capture EXCEPT !.pc = "offer"])
  /\ UNCHANGED gnPort

\* ... and the beacon is enqueued on the port of that name.
BeaconOffered(c) ==
  /\ capture.port = c /\ capture.pc = "offer"
  /\ CaptureGoes(Without(c))
  /\ gnPort' = [gnPort EXCEPT ![c] = @ \cup {capture.of}]

\* The port was unmapped before: nobody gets the beacon, or, if the observers had been
\* copied, perhaps the next test case; such a late beacon is not entered in gnPort.
BeaconIsLate(c) ==
  /\ capture.port = c /\ capture.pc = "late"
  /\ CaptureGoes(Without(c))
  /\ UNCHANGED gnPort

PortSteps(c) == FilterBeacon(c) \/ BeaconNotifies(c) \/ BeaconOffered(c) \/ BeaconIsLate(c)

CaptureSteps == \E c \in Component : PortSteps(c)

-----------------------------------------------------------------------------
(* A second goes by.                                                        *)

Busy(c) ==
  \/ reqs[c] # <<>> \/ handler[c] # "idle"
  \/ lookup[c].pc \notin {"none", "sleep", "done", "died"}
  \/ client[c].state = "wait" /\ (acPort[c] # <<>> \/ client[c].timer = 0)

\* Mutated: the loop ends after its first sleep.
OneSleep(l) == "answer"

\* After the last sleep the table is not looked at again.
AfterSleep(l) == IF l.polls = Polls THEN "answer" ELSE "poll"

Tick ==
  /\ capture = NoPacket /\ \A c \in Component : ~Busy(c)
  /\ \E c \in Component : client[c].state = "wait"
  /\ lookup' = [c \in Component |-> IF lookup[c].pc = "sleep"
                                    THEN [lookup[c] EXCEPT !.pc = AfterSleep(lookup[c])]
                                    ELSE lookup[c]]
  /\ client' = [c \in Component |-> IF client[c].state = "wait"
                                    THEN [state |-> "wait", of |-> client[c].of,
                                          timer |-> client[c].timer - 1,
                                          known |-> IF client[c].of \in Known /\ client[c].known < 2
                                                    THEN client[c].known + 1
                                                    ELSE client[c].known]
                                    ELSE client[c]]
  /\ UNCHANGED <<table, capture, beacons, made, reqs, handler, late, changed, acPort>>

-----------------------------------------------------------------------------
ClientSteps(c) == TakeResponse(c) \/ Expire(c)
AdapterSteps(c) ==
  Handle(c) \/ PassMarks(c) \/ PassNotifies(c) \/ LookupSteps(c) \/ LateSteps(c)

Next ==
  \/ \E c \in Component :
       \/ \E n \in Neighbour : StartPass(c, n) \/ AskPosition(c, n)
       \/ StopPass(c) \/ Unmap(c) \/ Map(c) \/ ClientSteps(c) \/ AdapterSteps(c)
  \/ \E n \in Neighbour, s \in Time, beacon \in BOOLEAN : Receive(n, s, beacon)
  \/ CaptureSteps
  \/ Tick

Spec == Init /\ [][Next]_vars

-----------------------------------------------------------------------------
(* Properties.                                                             *)

ClientState == [state : {"run", "wait", "stopped", "misled", "unmapped"}, of : Neighbour \cup {None},
                timer : 0..Tac, known : 0..2]
LookupState == [pc : {"none", "start", "list", "poll", "sleep", "answer", "notify", "lookup",
                      "offer", "done", "died"},
                of : Neighbour \cup {None}, keys : SUBSET Neighbour, left : SUBSET Neighbour,
                polls : 0..Polls, found : Response]
LateState == [pc : {"none", "notify", "lookup", "offer"}, found : Response]
CaptureState == [of : Neighbour \cup {None}, todo : SUBSET Component,
                 port : Component \cup {None}, pc : {"filter", "notify", "offer", "late"}]

TypeOK ==
  /\ locTable \in [Neighbour -> Time \cup {NoEntry}]
  /\ newest \in [Neighbour -> Time]
  /\ capture \in CaptureState
  /\ enqueueBeacon \in [Component -> Neighbour \cup {None}]
  /\ client \in [Component -> ClientState] /\ made \in 0..MaxRequests
  /\ wanted \in [Component -> SUBSET Neighbour] /\ gnPort \in [Component -> SUBSET Neighbour]
  /\ reqs \in [Component -> Seq(Request)]
  /\ handler \in [Component -> {"idle", "respond", "notify"}]
  /\ lookup \in [Component -> LookupState]
  /\ late \in [Component -> LateState]
  /\ changed \subseteq Component
  /\ acPort \in [Component -> Seq(Response)]

\* The entry of a neighbour is the newest of the packets handled, in whatever order they
\* came and whichever component they came for, as long as the clock of the neighbour has
\* not restarted since the entry was made (Management.gnUpdateLocTable).
EntryIsNewest ==
  \A n \in Known :
    locTable[n] \div Wrap = newest[n] \div Wrap => locTable[n] = newest[n]

\* When f_acGetLongPosVector has returned, nothing of its request is left: no thread that
\* will still answer and no vector in the queue that the next question would take for its
\* own.  A vector that comes while it waits is the one it asked for, whatever test cases
\* have ended in the middle of a question before; only what a thread enqueues that was
\* already past the copy of the observers at the unmap is excepted, and marked as late.
NoLateAnswer ==
  \A c \in Component :
    /\ client[c].state = "run" => ~Working(lookup[c])
    /\ \A i \in DOMAIN acPort[c] : acPort[c][i].is = "vector" =>
         \/ client[c].state \in {"stopped", "misled"}
         \/ client[c].state = "wait" /\ acPort[c][i].of = client[c].of

\* tc_ac never runs out because a response was lost between setChanged and
\* notifyObservers, or came too late: only a thread ended by a concurrent modification of
\* the table leaves the question without a response.
OnlyADeadThreadTimesOut ==
  \A c \in Component :
    client[c].state = "wait" /\ acPort[c] = <<>> /\ client[c].timer = 0
      => lookup[c].pc = "died"

\* A failure comes after GET_LPV_TIMEOUT intervals of waiting, and the neighbour was not
\* there during them; it may have come since the last look at the table, which is before
\* the last sleep, and not earlier.
FailureIsHonest ==
  \A c \in Component :
    LET l == lookup[c]
        denies == l.pc \in {"answer", "notify", "lookup", "offer"} /\ l.found.is = "failure"
    IN denies /\ client[c].state = "wait" => /\ client[c].timer + Polls = Tac
                                            /\ client[c].known <= 1

\* A GN port gets the beacons of the stations its test case asked for and of no other,
\* also when the filter changes while a packet goes from port to port, and when the port is
\* that of the next test case; a beacon is excepted that was past the copy of the observers
\* when the port was unmapped.
BeaconsWereAskedFor == \A c \in Component : gnPort[c] \subseteq wanted[c]

\* A vector is the answer when it is found; the question is denied by the last look that
\* finds nothing.
Question(c) ==
  LET l == lookup[c]
      n == client[c].of
      answered == l.found.is = "vector"
      denied == l.found.is = "failure" /\ l.polls = Polls
  IN CASE client[c].state # "wait" -> [state |-> "idle"]
       [] client[c].state = "wait" /\ answered -> [state |-> "answered", of |-> l.found.of,
                                                   at |-> l.found.at]
       [] client[c].state = "wait" /\ denied -> [state |-> "denied", of |-> n]
       [] client[c].state = "wait" /\ ~answered /\ ~denied -> [state |-> "asked", of |-> n]

\* The table, its capture thread and the threads that look up in it implement the register
\* that IManagementTA promises.
Register == INSTANCE PositionRegister WITH
              Client <- Component, register <- locTable,
              question <- [c \in Component |-> Question(c)]
ImplementsRegister == Register!Spec
=============================================================================
