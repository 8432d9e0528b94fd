------------------------------ MODULE TestSync ------------------------------
(***************************************************************************)
(* The synchronisation protocol of concurrent TTCN-3 test cases            *)
(* (ttcn/LibCommon/LibCommon_Sync.ttcn).  The main test component (MTC) is *)
(* the sync server: it runs f_serverSyncNClientsAndStop over a list of     *)
(* synchronisation points, and every parallel test component (client)      *)
(* calls f_selfOrClientSyncAndVerdict at each of them.                     *)
(*                                                                         *)
(* A sync point id is its index in the list.  A queue holds the messages   *)
(* sent and not yet received, in transit or in the port: a timer may       *)
(* therefore expire while the queue of its owner is not empty.  A port     *)
(* only offers its oldest message to an alt statement.                     *)
(***************************************************************************)
EXTENDS Naturals, Sequences, FiniteSets

CONSTANTS Client,       \* the parallel test components
          Mtc,          \* the main test component, which is the server
          NPoints,      \* number of sync points in the server's list
          MaxNonSync    \* bound: messages that reach the server's other ports

ASSUME ClientAssumption == IsFiniteSet(Client) /\ Client # {} /\ Mtc \notin Client
ASSUME PointsAssumption == NPoints \in Nat \ {0}
ASSUME NonSyncAssumption == MaxNonSync \in Nat

VARIABLES
  sPc,        \* what the server is doing
  sPoint,     \* index of the sync point it handles, NPoints + 1 when all passed
  refs,       \* v_clientRefs: the clients that reported at this point
  stopping,   \* v_stopClients
  sQueue,     \* messages to the server's syncPort
  nonSync,    \* messages its other ports may still receive
  sVerdict,
  cPc,        \* what each client is doing
  reached,    \* number of points at which it asked for READY
  passed,     \* number of points it went through
  cQueue,     \* messages to its syncPort
  cVerdict,
  early       \* clients whose tc_sync expires before the server's last tc_sync

server == <<sPc, sPoint, refs, stopping, nonSync, sVerdict>>
client == <<cPc, reached, passed, cVerdict>>
vars == <<server, sQueue, client, cQueue, early>>

Point == 1..NPoints

\* Verdicts, from best to worst; setverdict never improves a verdict.
Rank == [none |-> 0, pass |-> 1, inconc |-> 2, fail |-> 3, error |-> 4]
Verdict == DOMAIN Rank
Worst(v, w) == IF Rank[v] < Rank[w] THEN w ELSE v

FncRetCode == {"success", "error", "timeout"}

\* SyncCmd, with the sender the server reads by "-> sender".
ClientReady(c, p) == [cmd |-> "clientReady", from |-> c, point |-> p]
ClientStop(c) == [cmd |-> "clientStop", from |-> c, point |-> 0]
ServerReady(p) == [cmd |-> "serverReady", from |-> Mtc, point |-> p]
ServerStop == [cmd |-> "serverStop", from |-> Mtc, point |-> 0]
ToServer == [cmd : {"clientReady"}, from : Client, point : Point]
              \cup [cmd : {"clientStop"}, from : Client, point : {0}] \cup {ServerStop}
ToClient == [cmd : {"serverReady"}, from : {Mtc}, point : Point] \cup {ServerStop}

ServerState == {"sync", "drain", "shutdown", "selfStop", "cleaned", "timedOut"}
ClientState == {"run", "waitReady", "waitStop", "done"}

\* The MTC has stopped: the test case is over and every client is killed.
Ended == sPc \in {"cleaned", "timedOut"}

AllDone == \A c \in Client : cPc[c] = "done"

-----------------------------------------------------------------------------
(* The server.                                                             *)

\* f_serverSendToAllClients: to all the clients the server knows of.
SendToAll(rs, m) == [c \in Client |-> IF c \in rs THEN Append(cQueue[c], m) ELSE cQueue[c]]

Awaits(c) == cPc[c] \in {"waitReady", "waitStop"}

\* Mutated: the answer is READY although the clients are to be stopped.
StopClientsAnswersReady(rs) ==
  /\ sPc' = "shutdown"
  /\ sVerdict' = Worst(sVerdict, "inconc")
  /\ cQueue' = SendToAll(rs, ServerReady(sPoint))
  /\ refs' = rs
  /\ stopping' = TRUE
  /\ UNCHANGED <<sPoint, early>>

\* The end of the handling of a point when clients have to be stopped.
StopClients(rs) ==
  /\ sPc' = "shutdown"
  /\ sVerdict' = Worst(sVerdict, "inconc")
  /\ cQueue' = SendToAll(rs, ServerStop)
  /\ refs' = rs
  /\ stopping' = TRUE
  /\ UNCHANGED <<sPoint, early>>

\* Mutated: the list of clients is not reset for the next point.
ReleaseClientsKeepsRefs(rs) ==
  /\ sPc' = IF sPoint = NPoints THEN "drain" ELSE "sync"
  /\ sVerdict' = Worst(sVerdict, "pass")
  /\ cQueue' = SendToAll(rs, ServerReady(sPoint))
  /\ sPoint' = sPoint + 1
  /\ refs' = rs
  /\ stopping' = FALSE
  /\ early' = IF sPoint = NPoints THEN {c \in Client : Awaits(c)} ELSE early

\* The end of the handling of a point that succeeded: the server goes on with the
\* next point of the list or waits for its clients to finish.
ReleaseClients(rs) ==
  /\ sPc' = IF sPoint = NPoints THEN "drain" ELSE "sync"
  /\ sVerdict' = Worst(sVerdict, "pass")
  /\ cQueue' = SendToAll(rs, ServerReady(sPoint))
  /\ sPoint' = sPoint + 1
  /\ refs' = {}
  /\ stopping' = FALSE
  /\ early' = IF sPoint = NPoints THEN {c \in Client : Awaits(c)} ELSE early

EndPoint(rs, stop) == IF stop THEN StopClients(rs) ELSE ReleaseClients(rs)

\* Mutated: the server waits for one client less.
CountOneLess(c, stop) ==
  LET rs == refs \cup {c} IN
  IF Cardinality(rs) < Cardinality(Client) - 1
  THEN /\ refs' = rs
       /\ stopping' = stop
       /\ UNCHANGED <<sPc, sPoint, sVerdict, cQueue, early>>
  ELSE EndPoint(rs, stop)

\* A client is counted once; the alt is repeated until all have reported.
Count(c, stop) ==
  LET rs == refs \cup {c} IN
  IF Cardinality(rs) # Cardinality(Client)
  THEN /\ refs' = rs
       /\ stopping' = stop
       /\ UNCHANGED <<sPc, sPoint, sVerdict, cQueue, early>>
  ELSE EndPoint(rs, stop)

ServerReceives == sQueue # <<>> /\ sQueue' = Tail(sQueue)

ServerTakesReady ==
  /\ sPc = "sync"
  /\ ServerReceives
  /\ \E c \in Client :
       /\ Head(sQueue) = ClientReady(c, sPoint)
       /\ Count(c, stopping)
  /\ UNCHANGED <<nonSync, client>>

ServerTakesStop ==
  /\ sPc = "sync"
  /\ ServerReceives
  /\ \E c \in Client :
       /\ Head(sQueue) = ClientStop(c)
       /\ Count(c, TRUE)
  /\ UNCHANGED <<nonSync, client>>

\* A READY for another sync point: everything is stopped at once.
ServerTakesWrongReady ==
  /\ sPc = "sync"
  /\ ServerReceives
  /\ \E c \in Client, p \in Point \ {sPoint} :
       /\ Head(sQueue) = ClientReady(c, p)
       /\ StopClients(refs \cup {c})
  /\ UNCHANGED <<nonSync, client>>

\* "any port.receive": a message on a port that is not syncPort, when no sync
\* message is there, leaves the alt with no repeat and no v_stopClients.
ServerTakesNonSync ==
  /\ sPc = "sync"
  /\ nonSync > 0
  /\ nonSync' = nonSync - 1
  /\ EndPoint(refs, stopping)
  /\ UNCHANGED <<sQueue, client>>

\* Mutated: tc_sync is only started with the first client that reports.
ServerSyncTimeoutLate ==
  /\ sPc = "sync"
  /\ refs # {}
  /\ StopClients(refs)
  /\ UNCHANGED <<nonSync, sQueue, client>>

ServerSyncTimeout ==
  /\ sPc = "sync"
  /\ StopClients(refs)
  /\ UNCHANGED <<nonSync, sQueue, client>>

\* f_serverWaitForAllClientsToStop: all the clients are done; the caller then
\* undoes the configuration (f_cfXXDown).
ServerDrained ==
  /\ sPc = "drain"
  /\ AllDone
  /\ sPc' = "cleaned"
  /\ sVerdict' = Worst(sVerdict, "pass")
  /\ UNCHANGED <<sPoint, refs, stopping, nonSync, sQueue, client, cQueue, early>>

\* Mutated: the timer is not longer than a client's.
ServerDrainTimeoutEarly ==
  /\ sPc = "drain"
  /\ sPc' = "timedOut"
  /\ UNCHANGED <<sPoint, refs, stopping, nonSync, sVerdict, sQueue, client, cQueue, early>>

\* Its timer is 1.0 s longer than a client's: no tc_sync that was running when it
\* was started is running any more.
ServerDrainTimeout ==
  /\ sPc = "drain"
  /\ early = {}
  /\ sPc' = "timedOut"
  /\ UNCHANGED <<sPoint, refs, stopping, nonSync, sVerdict, sQueue, client, cQueue, early>>

\* The end of f_serverWaitForAllClientsToShutDown: the server sends STOP to
\* itself (q is what its port still holds) for its own default to catch.
SelfStop(q) ==
  /\ sPc = "shutdown"
  /\ sPc' = "selfStop"
  /\ sVerdict' = Worst(sVerdict, "inconc")
  /\ sQueue' = Append(q, ServerStop)
  /\ UNCHANGED <<sPoint, refs, stopping, nonSync, client, cQueue, early>>

ServerShutDownMessage == sQueue # <<>> /\ SelfStop(Tail(sQueue))
ServerShutDownDone == AllDone /\ SelfStop(sQueue)
ServerShutDownTimeout == SelfStop(sQueue)

\* The MTC's default (a_cfXXDown) takes the STOP, undoes the configuration and stops.
ServerDefault ==
  /\ sPc = "selfStop"
  /\ ServerReceives
  /\ Head(sQueue) = ServerStop
  /\ sPc' = "cleaned"
  /\ UNCHANGED <<sPoint, refs, stopping, nonSync, sVerdict, client, cQueue, early>>

ServerSelfStopTimeout ==
  /\ sPc = "selfStop"
  /\ sPc' = "timedOut"
  /\ sVerdict' = Worst(sVerdict, "inconc")
  /\ UNCHANGED <<sPoint, refs, stopping, nonSync, sQueue, client, cQueue, early>>

ServerStep ==
  \/ ServerTakesReady \/ ServerTakesStop \/ ServerTakesWrongReady
  \/ ServerTakesNonSync \/ ServerSyncTimeout
  \/ ServerDrained \/ ServerDrainTimeout
  \/ ServerShutDownMessage \/ ServerShutDownDone \/ ServerShutDownTimeout
  \/ ServerDefault \/ ServerSelfStopTimeout

-----------------------------------------------------------------------------
(* The clients.                                                            *)

Alive(c, states) == ~Ended /\ cPc[c] \in states

\* vc_testcaseStep advances with every point that is passed.
TestcaseStep(c) == CASE passed[c] = 0 -> "preamble"
                     [] passed[c] = 1 -> "testBody"
                     [] OTHER -> "postamble"

\* f_setVerdict in the test body, f_setVerdictPreOrPostamble elsewhere.
VerdictOf(step, ret) ==
  IF step = "testBody"
  THEN [success |-> "pass", timeout |-> "inconc", error |-> "fail"][ret]
  ELSE IF ret = "success" THEN "none" ELSE "inconc"

\* f_clientSyncAndVerdict up to the alt of f_clientSync or f_clientSendStop.
ClientSync(c, ret) ==
  /\ Alive(c, {"run"})
  /\ passed[c] < NPoints
  /\ cVerdict' = [cVerdict EXCEPT ![c] = Worst(@, VerdictOf(TestcaseStep(c), ret))]
  /\ IF ret = "success"
     THEN /\ reached' = [reached EXCEPT ![c] = passed[c] + 1]
          /\ sQueue' = Append(sQueue, ClientReady(c, passed[c] + 1))
          /\ cPc' = [cPc EXCEPT ![c] = "waitReady"]
     ELSE /\ sQueue' = Append(sQueue, ClientStop(c))
          /\ cPc' = [cPc EXCEPT ![c] = "waitStop"]
          /\ UNCHANGED reached
  /\ UNCHANGED <<server, passed, cQueue, early>>

ClientReceives(c, m) ==
  /\ cQueue[c] # <<>>
  /\ Head(cQueue[c]) = m
  /\ cQueue' = [cQueue EXCEPT ![c] = Tail(@)]

ClientPass(c) ==
  /\ Alive(c, {"waitReady"})
  /\ ClientReceives(c, ServerReady(reached[c]))
  /\ passed' = [passed EXCEPT ![c] = reached[c]]
  /\ cPc' = [cPc EXCEPT ![c] = "run"]
  /\ early' = early \ {c}
  /\ UNCHANGED <<server, sQueue, reached, cVerdict>>

\* tc_sync expires in f_clientSync: f_clientSendStop restarts it.  The new period
\* still ends before the server's last one if the answer is already on its way.
ClientReadyTimeout(c) ==
  /\ Alive(c, {"waitReady"})
  /\ sQueue' = Append(sQueue, ClientStop(c))
  /\ cPc' = [cPc EXCEPT ![c] = "waitStop"]
  /\ early' = IF cQueue[c] = <<>> THEN early \ {c} ELSE early
  /\ UNCHANGED <<server, reached, passed, cVerdict, cQueue>>

ClientStopTimeout(c) ==
  /\ Alive(c, {"waitStop"})
  /\ cVerdict' = [cVerdict EXCEPT ![c] = Worst(@, "inconc")]
  /\ cPc' = [cPc EXCEPT ![c] = "done"]
  /\ early' = early \ {c}
  /\ UNCHANGED <<server, sQueue, reached, passed, cQueue>>

\* a_shutdown, from the default every alt of a client falls back on: the user's
\* altstep (a_default, a_cfXXDown) then stops the component.
ClientShutdown(c) ==
  /\ Alive(c, {"run", "waitReady", "waitStop"})
  /\ ClientReceives(c, ServerStop)
  /\ cPc' = [cPc EXCEPT ![c] = "done"]
  /\ early' = early \ {c}
  /\ UNCHANGED <<server, sQueue, reached, passed, cVerdict>>

\* The behaviour of the client returns after the last point.
ClientFinish(c) ==
  /\ Alive(c, {"run"})
  /\ passed[c] = NPoints
  /\ cPc' = [cPc EXCEPT ![c] = "done"]
  /\ UNCHANGED <<server, sQueue, reached, passed, cVerdict, cQueue, early>>

\* The runtime stops a client on a dynamic test case error, with verdict error.
ClientError(c) ==
  /\ Alive(c, {"run"})
  /\ cVerdict' = [cVerdict EXCEPT ![c] = "error"]
  /\ cPc' = [cPc EXCEPT ![c] = "done"]
  /\ UNCHANGED <<server, sQueue, reached, passed, cQueue, early>>

\* What a client does while it waits for the server.
ClientWait(c) ==
  ClientPass(c) \/ ClientReadyTimeout(c) \/ ClientStopTimeout(c) \/ ClientShutdown(c)

ClientStep(c) ==
  \/ \E ret \in FncRetCode : ClientSync(c, ret)
  \/ ClientWait(c) \/ ClientFinish(c) \/ ClientError(c)

-----------------------------------------------------------------------------
Init ==
  /\ sPc = "sync" /\ sPoint = 1 /\ refs = {} /\ stopping = FALSE
  /\ sQueue = <<>> /\ nonSync = MaxNonSync /\ sVerdict = "none"
  /\ cPc = [c \in Client |-> "run"]
  /\ reached = [c \in Client |-> 0] /\ passed = [c \in Client |-> 0]
  /\ cQueue = [c \in Client |-> <<>>] /\ cVerdict = [c \in Client |-> "none"]
  /\ early = {}

\* The test case is over.
Terminated == Ended /\ UNCHANGED vars

Next == ServerStep \/ (\E c \in Client : ClientStep(c)) \/ Terminated

Spec == Init /\ [][Next]_vars

\* Timers expire and alt statements are evaluated; nothing is assumed of the test
\* behaviour of a client between two points.
Fairness == WF_vars(ServerStep) /\ \A c \in Client : WF_vars(ClientWait(c))
FairSpec == Spec /\ Fairness
-----------------------------------------------------------------------------
(* Properties.                                                             *)

\* Every variable has its type.
TypeOK ==
  /\ sPc \in ServerState /\ sPoint \in 1..(NPoints + 1)
  /\ refs \subseteq Client /\ stopping \in BOOLEAN
  /\ sQueue \in Seq(ToServer) /\ nonSync \in 0..MaxNonSync /\ sVerdict \in Verdict
  /\ cPc \in [Client -> ClientState]
  /\ reached \in [Client -> 0..NPoints] /\ passed \in [Client -> 0..NPoints]
  /\ cQueue \in [Client -> Seq(ToClient)] /\ cVerdict \in [Client -> Verdict]
  /\ early \subseteq Client

\* No message has yet reached another port of the server during a sync point.
Undisturbed == nonSync = MaxNonSync

\* A sync point is a barrier: as long as only sync messages reach the server, no
\* client goes through a point that another one has not reached.
Barrier == Undisturbed => \A c, d \in Client : passed[c] <= reached[d]

\* STOP and READY exclude each other: when the server stops its clients at a
\* point, no client ever goes through that point, whatever is still in transit.
StopExcludesReady ==
  sPc \in {"shutdown", "selfStop"} => \A c \in Client : passed[c] < sPoint

\* The verdict of the test case is the worst verdict of its components.
OverallPass == \A v \in {sVerdict} \cup {cVerdict[c] : c \in Client} : v \in {"none", "pass"}

\* A test case ends with verdict pass only if every client went through every
\* point: a client that failed, crashed, gave up waiting or asked for a stop is
\* never hidden by the verdicts of the others.
PassIsEarned ==
  (Undisturbed /\ Ended /\ OverallPass) => \A c \in Client : passed[c] = NPoints

\* The test case ends, even if every client is stuck in its test behaviour.
TestCaseEnds == <>Ended

\* The protocol implements the abstract barrier: the server opens a point when it
\* sends READY, and aborts when it starts to stop its clients.
Aborted == sPoint <= NPoints /\ sPc # "sync"
B == INSTANCE SyncBarrier WITH
       N <- NPoints, MaxBreach <- MaxNonSync,
       arrived <- reached, left <- passed, opened <- sPoint - 1,
       aborted <- Aborted, breach <- MaxNonSync - nonSync
ImplementsBarrier == B!BarrierSpec
\* Why the barrier holds, as an inductive invariant: what the messages and the
\* lists of the server say of the clients' progress.
QueueInv ==
  /\ \A i \in 1..Len(sQueue) :
       sQueue[i].cmd = "clientReady" => sQueue[i].point <= reached[sQueue[i].from]
  /\ \A c \in Client : \A i \in 1..Len(cQueue[c]) :
       cQueue[c][i].cmd = "serverReady" => cQueue[c][i].point < sPoint

ProgressInv ==
  /\ \A c \in Client : passed[c] < sPoint
  /\ \A c \in Client : cPc[c] = "run" => reached[c] = passed[c]
  /\ \A c \in Client : cPc[c] = "waitReady" => reached[c] = passed[c] + 1

PointInv ==
  /\ sPc = "sync" => sPoint <= NPoints
  /\ sPc = "drain" => sPoint = NPoints + 1
  /\ sPc \in {"shutdown", "selfStop"} => sPoint <= NPoints
  /\ (sPc = "sync" /\ ~stopping) => \A c \in refs : reached[c] >= sPoint
  /\ Undisturbed => \A c \in Client : reached[c] + 1 >= sPoint

SyncInv == TypeOK /\ QueueInv /\ ProgressInv /\ PointInv

\* Why a pass is earned, as an inductive invariant: a client that did not go through
\* every point has spoiled a verdict, or still has a timer the server waits for.
Spoiled(v) == v \in {"inconc", "fail", "error"}

VerdictInv ==
  /\ sPc \in {"shutdown", "selfStop"} => Spoiled(sVerdict)
  /\ \A c \in Client : \A i \in 1..Len(cQueue[c]) :
       cQueue[c][i].cmd = "serverStop" => Spoiled(sVerdict)
  /\ \A c \in Client :
       cPc[c] = "done" => passed[c] = NPoints \/ Spoiled(cVerdict[c]) \/ Spoiled(sVerdict)

DrainInv ==
  (sPc = "drain" /\ Undisturbed) =>
    \A c \in Client : /\ Awaits(c) => c \in early
                      /\ cPc[c] = "waitReady" => cQueue[c] # <<>>

EarnInv == SyncInv /\ VerdictInv /\ DrainInv /\ PassIsEarned
=============================================================================
