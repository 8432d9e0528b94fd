--------------------------- MODULE TestSyncProof ---------------------------
(* Theorems about TestSync: its types, the barrier, and the abstract barrier  *)
(* it implements, for any set of clients and any number of points.           *)
EXTENDS TestSync, TLAPS, FiniteSetTheorems, SequenceTheorems

\* What the server and the clients do to a queue.
LEMMA TailFacts ==
  ASSUME NEW S, NEW q \in Seq(S), q # <<>>
  PROVE  /\ Head(q) \in S /\ Head(q) = q[1]
         /\ Len(q) \in Nat /\ Len(q) > 0
         /\ Tail(q) \in Seq(S)
         /\ \A i \in 1..Len(Tail(q)) : i + 1 \in 1..Len(q) /\ Tail(q)[i] = q[i + 1]
  BY HeadTailProperties

LEMMA AppendFacts ==
  ASSUME NEW S, NEW q \in Seq(S), NEW m \in S
  PROVE  /\ Append(q, m) \in Seq(S)
         /\ \A i \in 1..Len(Append(q, m)) :
              \/ i \in 1..Len(q) /\ Append(q, m)[i] = q[i]
              \/ Append(q, m)[i] = m
  BY AppendProperties

\* The messages are of the types the queues hold.
LEMMA MessageTypes ==
  /\ \A c \in Client, p \in Point : ClientReady(c, p) \in ToServer
  /\ \A c \in Client : ClientStop(c) \in ToServer
  /\ \A p \in Point : ServerReady(p) \in ToClient
  /\ ServerStop \in ToServer /\ ServerStop \in ToClient
  BY DEF ClientReady, ClientStop, ServerReady, ServerStop, ToServer, ToClient

\* setverdict yields a verdict.
LEMMA WorstType ==
  ASSUME NEW v \in Verdict, NEW w \in Verdict
  PROVE  Worst(v, w) \in Verdict
  BY DEF Worst

LEMMA VerdictNames ==
  Verdict = {"none", "pass", "inconc", "fail", "error"}
  BY DEF Verdict, Rank

\* A message sent to some clients keeps the types of the queues.
LEMMA SendType ==
  ASSUME TypeOK, NEW rs \in SUBSET Client, NEW m \in ToClient
  PROVE  SendToAll(rs, m) \in [Client -> Seq(ToClient)]
  BY AppendFacts DEF SendToAll, TypeOK

\* The end of a sync point keeps the types.
LEMMA EndPointType ==
  ASSUME TypeOK, sPc = "sync", sPoint <= NPoints, NEW rs \in SUBSET Client,
         EndPoint(rs, TRUE) \/ EndPoint(rs, FALSE)
  PROVE  /\ sPc' \in ServerState /\ sPoint' \in 1..(NPoints + 1)
         /\ refs' \subseteq Client /\ stopping' \in BOOLEAN
         /\ sVerdict' \in Verdict
         /\ cQueue' \in [Client -> Seq(ToClient)]
         /\ early' \subseteq Client
<1> USE PointsAssumption
<1>0. sPoint \in Point /\ sVerdict \in Verdict
  BY DEF TypeOK, Point
<1>1. ServerReady(sPoint) \in ToClient /\ ServerStop \in ToClient
  BY <1>0, MessageTypes
<1>2. /\ SendToAll(rs, ServerStop) \in [Client -> Seq(ToClient)]
      /\ SendToAll(rs, ServerReady(sPoint)) \in [Client -> Seq(ToClient)]
  BY <1>1, SendType
<1>3. Worst(sVerdict, "pass") \in Verdict /\ Worst(sVerdict, "inconc") \in Verdict
  BY <1>0, WorstType, VerdictNames
<1>4. CASE EndPoint(rs, TRUE)
  BY <1>2, <1>3, <1>4 DEF EndPoint, StopClients, ServerState, TypeOK
<1>5. CASE EndPoint(rs, FALSE)
  <2>1. ReleaseClients(rs)
    BY <1>5 DEF EndPoint
  <2>2. early' \subseteq Client
    BY <2>1 DEF ReleaseClients, TypeOK
  <2>3. sPoint' \in 1..(NPoints + 1)
    BY <1>0, <2>1 DEF ReleaseClients, Point
  <2> QED BY <1>2, <1>3, <2>1, <2>2, <2>3 DEF ReleaseClients, ServerState
<1> QED BY <1>4, <1>5

-----------------------------------------------------------------------------
(* What a step of the server does while it handles a sync point.           *)

ServerSyncs ==
  \/ ServerTakesReady \/ ServerTakesStop \/ ServerTakesWrongReady
  \/ ServerTakesNonSync \/ ServerSyncTimeout

\* The alt is repeated with the clients rs, all of them at the point unless the
\* server is going to stop them.
KeepsCounting(rs) ==
  /\ refs' = rs /\ stopping' \in BOOLEAN
  /\ ~stopping' => \A c \in rs : reached[c] >= sPoint
  /\ UNCHANGED <<sPc, sPoint, sVerdict, cQueue, early>>

\* A point is opened to all clients, when each has reached it, or by a disturbance.
Opens(rs) ==
  /\ ReleaseClients(rs)
  /\ nonSync' = nonSync => rs = Client /\ \A c \in Client : reached[c] >= sPoint

SyncShape ==
  /\ sPc = "sync" /\ sPoint \in Point
  /\ UNCHANGED client
  /\ \/ sQueue' = sQueue
     \/ sQueue # <<>> /\ sQueue' = Tail(sQueue)
  /\ nonSync' = nonSync \/ (nonSync > 0 /\ nonSync' = nonSync - 1)
  /\ \E rs \in SUBSET Client : \/ KeepsCounting(rs) /\ nonSync' = nonSync
                              \/ StopClients(rs) \/ Opens(rs)

\* A set of clients as large as the set of all clients holds every client.
LEMMA AllCounted ==
  ASSUME NEW rs \in SUBSET Client, Cardinality(rs) = Cardinality(Client)
  PROVE  rs = Client
  BY FS_Subset, ClientAssumption

\* Counting one more client, from a message or a stop.
LEMMA CountShape ==
  ASSUME SyncInv, sPc = "sync", NEW c \in Client, NEW stop \in BOOLEAN,
         stopping => stop, ~stop => reached[c] >= sPoint, Count(c, stop)
  PROVE  \E rs \in SUBSET Client :
           KeepsCounting(rs) \/ StopClients(rs)
             \/ (ReleaseClients(rs) /\ rs = Client /\ \A d \in Client : reached[d] >= sPoint)
<1> DEFINE rs == refs \cup {c}
<1>1. rs \in SUBSET Client
  BY DEF SyncInv, TypeOK
<1>2. ~stop => \A d \in rs : reached[d] >= sPoint
  BY DEF SyncInv, PointInv
<1>3. CASE Cardinality(rs) # Cardinality(Client)
  <2>1. KeepsCounting(rs)
    BY <1>2, <1>3 DEF Count, KeepsCounting
  <2> QED BY <1>1, <2>1
<1>4. CASE Cardinality(rs) = Cardinality(Client)
  <2>1. rs = Client
    BY <1>1, <1>4, AllCounted
  <2>2. EndPoint(rs, stop)
    BY <1>4 DEF Count
  <2>3. StopClients(rs) \/ (ReleaseClients(rs) /\ ~stop)
    BY <2>2 DEF EndPoint
  <2> QED BY <1>1, <1>2, <2>1, <2>3
<1> QED BY <1>3, <1>4

LEMMA ServerSyncShape ==
  ASSUME SyncInv, ServerSyncs
  PROVE  SyncShape
<1> DEFINE Ends == \E rs \in SUBSET Client : \/ KeepsCounting(rs) /\ nonSync' = nonSync
                                           \/ StopClients(rs) \/ Opens(rs)
<1>0. sPc = "sync"
  BY DEF ServerSyncs, ServerTakesReady, ServerTakesStop, ServerTakesWrongReady,
         ServerTakesNonSync, ServerSyncTimeout
<1>1. sPc = "sync" /\ sPoint \in Point /\ refs \in SUBSET Client /\ stopping \in BOOLEAN
  BY <1>0, PointsAssumption DEF SyncInv, PointInv, TypeOK, Point
<1>2. CASE ServerTakesReady
  <2>1. PICK c \in Client : Head(sQueue) = ClientReady(c, sPoint) /\ Count(c, stopping)
    BY <1>2 DEF ServerTakesReady
  <2>2. sQueue # <<>> /\ sQueue \in Seq(ToServer)
    BY <1>2 DEF ServerTakesReady, ServerReceives, SyncInv, TypeOK
  <2>3. Head(sQueue) = sQueue[1] /\ 1 \in 1..Len(sQueue)
    BY <2>2, TailFacts
  <2>4. reached[c] >= sPoint
    <3>1. sQueue[1].cmd = "clientReady" /\ sQueue[1].point = sPoint /\ sQueue[1].from = c
      BY <2>1, <2>3 DEF ClientReady
    <3>2. sPoint <= reached[c]
      BY <2>3, <3>1 DEF SyncInv, QueueInv
    <3> QED BY <1>1, <3>2 DEF SyncInv, TypeOK, Point
  <2>5. Ends
    BY <1>1, <1>2, <2>1, <2>4, CountShape DEF ServerTakesReady, Opens
  <2> QED BY <1>1, <1>2, <2>5 DEF ServerTakesReady, ServerReceives, SyncShape
<1>3. CASE ServerTakesStop
  <2>1. PICK c \in Client : Count(c, TRUE)
    BY <1>3 DEF ServerTakesStop
  <2>2. Ends
    BY <1>1, <1>3, <2>1, CountShape DEF ServerTakesStop, Opens
  <2> QED BY <1>1, <1>3, <2>2 DEF ServerTakesStop, ServerReceives, SyncShape
<1>4. CASE ServerTakesWrongReady
  <2>1. PICK c \in Client : StopClients(refs \cup {c})
    BY <1>4 DEF ServerTakesWrongReady
  <2>2. Ends
    BY <1>1, <2>1
  <2> QED BY <1>1, <1>4, <2>2 DEF ServerTakesWrongReady, ServerReceives, SyncShape
<1>5. CASE ServerTakesNonSync
  <2>1. nonSync \in Nat /\ nonSync > 0 /\ nonSync' = nonSync - 1
    BY <1>5, NonSyncAssumption DEF ServerTakesNonSync, SyncInv, TypeOK
  <2>2. nonSync' # nonSync
    BY <2>1
  <2>3. StopClients(refs) \/ ReleaseClients(refs)
    BY <1>5 DEF ServerTakesNonSync, EndPoint
  <2>4. Ends
    BY <1>1, <2>2, <2>3 DEF Opens
  <2> QED BY <1>1, <1>5, <2>1, <2>4 DEF ServerTakesNonSync, SyncShape
<1>6. CASE ServerSyncTimeout
  <2>1. Ends
    BY <1>1, <1>6 DEF ServerSyncTimeout
  <2> QED BY <1>1, <1>6, <2>1 DEF ServerSyncTimeout, SyncShape
<1> QED BY <1>2, <1>3, <1>4, <1>5, <1>6 DEF ServerSyncs

-----------------------------------------------------------------------------
(* The invariant is preserved.                                             *)

\* The steps of the server after the sync points.
ServerEnds ==
  \/ ServerDrained \/ ServerDrainTimeout
  \/ ServerShutDownMessage \/ ServerShutDownDone \/ ServerShutDownTimeout
  \/ ServerDefault \/ ServerSelfStopTimeout

\* They keep the clients and the point, and change the state of the server only
\* towards the end of the test case.
EndShape ==
  /\ UNCHANGED <<sPoint, refs, stopping, nonSync, client, cQueue, early>>
  /\ sVerdict' \in Verdict
  /\ \/ sPc \in {"drain", "selfStop"} /\ sPc' \in {"cleaned", "timedOut"}
     \/ sPc = "shutdown" /\ sPc' = "selfStop"
  /\ \/ sQueue' = sQueue
     \/ sQueue # <<>> /\ sQueue' = Tail(sQueue)
     \/ sQueue' = Append(sQueue, ServerStop)
     \/ sQueue # <<>> /\ sQueue' = Append(Tail(sQueue), ServerStop)

LEMMA ServerEndShape ==
  ASSUME SyncInv, ServerEnds
  PROVE  EndShape
<1>0. sVerdict \in Verdict /\ Worst(sVerdict, "pass") \in Verdict
      /\ Worst(sVerdict, "inconc") \in Verdict
  BY WorstType, VerdictNames DEF SyncInv, TypeOK
<1>1. CASE ServerDrained
  BY <1>0, <1>1 DEF ServerDrained, EndShape
<1>2. CASE ServerDrainTimeout
  BY <1>0, <1>2 DEF ServerDrainTimeout, EndShape
<1>3. CASE ServerShutDownMessage
  BY <1>0, <1>3 DEF ServerShutDownMessage, SelfStop, EndShape
<1>4. CASE ServerShutDownDone
  BY <1>0, <1>4 DEF ServerShutDownDone, SelfStop, EndShape
<1>5. CASE ServerShutDownTimeout
  BY <1>0, <1>5 DEF ServerShutDownTimeout, SelfStop, EndShape
<1>6. CASE ServerDefault
  BY <1>0, <1>6 DEF ServerDefault, ServerReceives, EndShape
<1>7. CASE ServerSelfStopTimeout
  BY <1>0, <1>7 DEF ServerSelfStopTimeout, EndShape
<1> QED BY <1>1, <1>2, <1>3, <1>4, <1>5, <1>6, <1>7 DEF ServerEnds

\* A property of all messages of a queue survives the receipt of one ...
LEMMA TailKeeps ==
  ASSUME NEW S, NEW q \in Seq(S), q # <<>>, NEW T, \A i \in 1..Len(q) : q[i] \in T
  PROVE  \A i \in 1..Len(Tail(q)) : Tail(q)[i] \in T
  BY TailFacts

\* ... and the sending of one that has it.
LEMMA AppendKeeps ==
  ASSUME NEW S, NEW q \in Seq(S), NEW m \in S, NEW T, m \in T,
         \A i \in 1..Len(q) : q[i] \in T
  PROVE  \A i \in 1..Len(Append(q, m)) : Append(q, m)[i] \in T
  BY AppendFacts

\* The messages the invariant allows in the two kinds of queue.
Announced == {m \in ToServer : m.cmd = "clientReady" => m.point <= reached[m.from]}
Decided == {m \in ToClient : m.cmd = "serverReady" => m.point < sPoint}

QueuesFit ==
  /\ \A i \in 1..Len(sQueue) : sQueue[i] \in Announced
  /\ \A c \in Client : \A i \in 1..Len(cQueue[c]) : cQueue[c][i] \in Decided

LEMMA QueueInvSets == TypeOK => (QueueInv <=> QueuesFit)
<1> SUFFICES ASSUME TypeOK PROVE QueueInv <=> QueuesFit
  OBVIOUS
<1>1. \A i \in 1..Len(sQueue) : sQueue[i] \in ToServer
  BY DEF TypeOK
<1>2. \A c \in Client : \A i \in 1..Len(cQueue[c]) : cQueue[c][i] \in ToClient
  <2> SUFFICES ASSUME NEW c \in Client
               PROVE  \A i \in 1..Len(cQueue[c]) : cQueue[c][i] \in ToClient
    OBVIOUS
  <2>1. cQueue[c] \in Seq(ToClient)
    BY DEF TypeOK
  <2> QED BY <2>1
<1> QED BY <1>1, <1>2 DEF QueueInv, QueuesFit, Announced, Decided

LEMMA QueueInvNext == TypeOK' => (QueueInv' <=> QueuesFit')
  BY QueueInvSets, PTL

\* The points of the messages to the clients are below any later point.
LEMMA DecidedGrows ==
  ASSUME TypeOK, sPoint' \in Nat, sPoint' >= sPoint
  PROVE  Decided \subseteq Decided'
<1> SUFFICES ASSUME NEW m \in ToClient, m.cmd = "serverReady", m.point < sPoint
             PROVE  m.point < sPoint'
  BY DEF Decided
<1>1. m.point \in Nat /\ sPoint \in Nat
  BY PointsAssumption DEF ToClient, ServerStop, Point, TypeOK
<1> QED BY <1>1

\* Sending a message that fits to some clients keeps all their queues fit.
LEMMA SendKeeps ==
  ASSUME TypeOK, NEW rs \in SUBSET Client, NEW m \in ToClient, NEW T, m \in T,
         \A c \in Client : \A i \in 1..Len(cQueue[c]) : cQueue[c][i] \in T
  PROVE  \A c \in Client : \A i \in 1..Len(SendToAll(rs, m)[c]) : SendToAll(rs, m)[c][i] \in T
<1> SUFFICES ASSUME NEW c \in Client
             PROVE  \A i \in 1..Len(SendToAll(rs, m)[c]) : SendToAll(rs, m)[c][i] \in T
  OBVIOUS
<1>1. cQueue[c] \in Seq(ToClient) /\ \A i \in 1..Len(cQueue[c]) : cQueue[c][i] \in T
  BY DEF TypeOK
<1>2. \A i \in 1..Len(Append(cQueue[c], m)) : Append(cQueue[c], m)[i] \in T
  BY <1>1, AppendKeeps
<1> QED BY <1>1, <1>2 DEF SendToAll

LEMMA SyncStepTypes ==
  ASSUME SyncInv, SyncShape
  PROVE  TypeOK'
<1>1. sQueue' \in Seq(ToServer)
  <2>1. sQueue \in Seq(ToServer)
    BY DEF SyncInv, TypeOK
  <2> QED BY <2>1, TailFacts DEF SyncShape
<1>2. nonSync' \in 0..MaxNonSync
  BY NonSyncAssumption DEF SyncShape, SyncInv, TypeOK
<1>3. UNCHANGED <<cPc, reached, passed, cVerdict>>
  BY DEF SyncShape, client
<1>4. PICK rs \in SUBSET Client : KeepsCounting(rs) \/ StopClients(rs) \/ Opens(rs)
  BY DEF SyncShape
<1>5. sPc = "sync" /\ sPoint <= NPoints /\ TypeOK
  BY PointsAssumption DEF SyncShape, Point, SyncInv
<1>6. CASE KeepsCounting(rs)
  BY <1>1, <1>2, <1>3, <1>5, <1>6 DEF KeepsCounting, TypeOK
<1>7. CASE StopClients(rs) \/ Opens(rs)
  <2>1. EndPoint(rs, TRUE) \/ EndPoint(rs, FALSE)
    BY <1>7 DEF EndPoint, Opens
  <2>2. /\ sPc' \in ServerState /\ sPoint' \in 1..(NPoints + 1)
        /\ refs' \subseteq Client /\ stopping' \in BOOLEAN
        /\ sVerdict' \in Verdict
        /\ cQueue' \in [Client -> Seq(ToClient)]
        /\ early' \subseteq Client
    BY <1>5, <2>1, EndPointType
  <2> QED BY <1>1, <1>2, <1>3, <1>5, <2>2 DEF TypeOK
<1> QED BY <1>4, <1>6, <1>7

LEMMA SyncStepQueues ==
  ASSUME SyncInv, SyncShape
  PROVE  QueueInv'
<1>1. TypeOK /\ TypeOK'
  BY SyncStepTypes DEF SyncInv
<1>2. /\ \A i \in 1..Len(sQueue) : sQueue[i] \in Announced
      /\ \A c \in Client : \A i \in 1..Len(cQueue[c]) : cQueue[c][i] \in Decided
  BY <1>1, QueueInvSets DEF SyncInv, QueuesFit
<1>3. \A i \in 1..Len(sQueue') : sQueue'[i] \in Announced'
  <2>1. Announced' = Announced
    BY DEF SyncShape, client, Announced
  <2>2. sQueue \in Seq(ToServer)
    BY <1>1 DEF TypeOK
  <2> QED BY <1>2, <2>1, <2>2, TailKeeps DEF SyncShape
<1>4. PICK rs \in SUBSET Client : KeepsCounting(rs) \/ StopClients(rs) \/ Opens(rs)
  BY DEF SyncShape
<1>5. \A c \in Client : \A i \in 1..Len(cQueue'[c]) : cQueue'[c][i] \in Decided'
  <2>1. CASE KeepsCounting(rs)
    BY <1>2, <2>1 DEF KeepsCounting, Decided
  <2>2. CASE StopClients(rs)
    <3>1. ServerStop \in ToClient /\ ServerStop \in Decided
      BY MessageTypes DEF Decided, ServerStop
    <3>2. Decided' = Decided
      BY <2>2 DEF StopClients, Decided
    <3> QED BY <1>1, <1>2, <2>2, <3>1, <3>2, SendKeeps DEF StopClients
  <2>3. CASE Opens(rs)
    <3>1. sPoint \in Nat /\ sPoint' = sPoint + 1 /\ sPoint \in Point
      BY <2>3 DEF Opens, ReleaseClients, SyncShape, Point
    <3>2. Decided \subseteq Decided'
      BY <1>1, <3>1, DecidedGrows
    <3>3. ServerReady(sPoint) \in ToClient
      BY <3>1, MessageTypes
    <3>4. ServerReady(sPoint) \in Decided'
      BY <3>1, <3>3 DEF Decided, ServerReady
    <3> HIDE DEF Decided
    <3>5. \A c \in Client : \A i \in 1..Len(cQueue[c]) : cQueue[c][i] \in Decided'
      BY <1>2, <3>2
    <3>6. cQueue' = SendToAll(rs, ServerReady(sPoint))
      BY <2>3 DEF Opens, ReleaseClients
    <3> QED BY <1>1, <3>3, <3>4, <3>5, <3>6, SendKeeps
  <2> QED BY <1>4, <2>1, <2>2, <2>3
<1> QED BY <1>1, <1>3, <1>5, QueueInvNext DEF QueuesFit

LEMMA SyncStepProgress ==
  ASSUME SyncInv, SyncShape
  PROVE  ProgressInv' /\ PointInv'
<1>1. TypeOK /\ ProgressInv /\ PointInv /\ UNCHANGED <<cPc, reached, passed, cVerdict>>
  BY DEF SyncInv, SyncShape, client
<1>2. /\ sPc = "sync" /\ sPoint \in Nat /\ sPoint <= NPoints /\ NPoints \in Nat
      /\ \A c \in Client : reached[c] \in Nat /\ passed[c] \in Nat
  BY <1>1, PointsAssumption DEF SyncShape, Point, TypeOK
<1>3. Undisturbed' => (Undisturbed /\ nonSync' = nonSync)
  BY <1>1, NonSyncAssumption DEF SyncShape, Undisturbed, TypeOK
<1>4. PICK rs \in SUBSET Client : KeepsCounting(rs) \/ StopClients(rs) \/ Opens(rs)
  BY DEF SyncShape
<1>5. CASE KeepsCounting(rs)
  BY <1>1, <1>2, <1>3, <1>5 DEF KeepsCounting, ProgressInv, PointInv, Undisturbed
<1>6. CASE StopClients(rs)
  BY <1>1, <1>2, <1>3, <1>6 DEF StopClients, ProgressInv, PointInv, Undisturbed
<1>7. CASE Opens(rs)
  <2>1. /\ sPoint' = sPoint + 1 /\ refs' = {}
        /\ sPc' = IF sPoint = NPoints THEN "drain" ELSE "sync"
        /\ nonSync' = nonSync => \A c \in Client : reached[c] >= sPoint
    BY <1>7 DEF Opens, ReleaseClients
  <2>2. ProgressInv'
    BY <1>1, <1>2, <2>1 DEF ProgressInv
  <2>3. PointInv'
    BY <1>1, <1>2, <1>3, <2>1 DEF PointInv
  <2> QED BY <2>2, <2>3
<1> QED BY <1>4, <1>5, <1>6, <1>7

LEMMA SyncStepInv ==
  ASSUME SyncInv, SyncShape
  PROVE  SyncInv'
  BY SyncStepTypes, SyncStepQueues, SyncStepProgress DEF SyncInv

LEMMA EndStepInv ==
  ASSUME SyncInv, EndShape
  PROVE  SyncInv'
<1>1. /\ TypeOK /\ QueueInv /\ ProgressInv /\ PointInv
      /\ UNCHANGED <<sPoint, refs, stopping, nonSync, cPc, reached, passed, cVerdict,
                     cQueue, early>>
  BY DEF SyncInv, EndShape, client
<1>2. sQueue \in Seq(ToServer) /\ ServerStop \in ToServer
  BY <1>1, MessageTypes DEF TypeOK
<1>3. sQueue' \in Seq(ToServer)
  <2>1. sQueue # <<>> => Append(Tail(sQueue), ServerStop) \in Seq(ToServer)
    BY <1>2, TailFacts, AppendFacts
  <2> QED BY <1>2, <2>1, TailFacts, AppendFacts DEF EndShape
<1>4. TypeOK'
  BY <1>1, <1>3 DEF EndShape, TypeOK, ServerState
<1>5. QueueInv'
  <2>1. Announced' = Announced /\ Decided' = Decided
    BY <1>1 DEF Announced, Decided
  <2>2. QueuesFit
    BY <1>1, QueueInvSets
  <2>3. ServerStop \in Announced
    BY <1>2 DEF Announced, ServerStop
  <2> HIDE DEF Announced
  <2>4. \A i \in 1..Len(sQueue) : sQueue[i] \in Announced
    BY <2>2 DEF QueuesFit
  <2>5. sQueue # <<>> =>
          /\ \A i \in 1..Len(Tail(sQueue)) : Tail(sQueue)[i] \in Announced
          /\ \A i \in 1..Len(Append(Tail(sQueue), ServerStop)) :
                Append(Tail(sQueue), ServerStop)[i] \in Announced
    <3> SUFFICES ASSUME sQueue # <<>>
                 PROVE  /\ \A i \in 1..Len(Tail(sQueue)) : Tail(sQueue)[i] \in Announced
                        /\ \A i \in 1..Len(Append(Tail(sQueue), ServerStop)) :
                              Append(Tail(sQueue), ServerStop)[i] \in Announced
      OBVIOUS
    <3>1. \A i \in 1..Len(Tail(sQueue)) : Tail(sQueue)[i] \in Announced
      BY <1>2, <2>4, TailKeeps
    <3>2. Tail(sQueue) \in Seq(ToServer)
      BY <1>2, TailFacts
    <3> QED BY <1>2, <2>3, <3>1, <3>2, AppendKeeps
  <2>6. \A i \in 1..Len(Append(sQueue, ServerStop)) : Append(sQueue, ServerStop)[i] \in Announced
    BY <1>2, <2>3, <2>4, AppendKeeps
  <2>7. \A i \in 1..Len(sQueue') : sQueue'[i] \in Announced'
    BY <2>1, <2>4, <2>5, <2>6 DEF EndShape
  <2>8. \A c \in Client : \A i \in 1..Len(cQueue'[c]) : cQueue'[c][i] \in Decided'
    BY <1>1, <2>1, <2>2 DEF QueuesFit
  <2> QED BY <1>4, <2>7, <2>8, QueueInvNext DEF QueuesFit
<1>6. ProgressInv'
  BY <1>1 DEF ProgressInv
<1>7. PointInv'
  BY <1>1 DEF PointInv, Undisturbed, EndShape
<1> QED BY <1>4, <1>5, <1>6, <1>7 DEF SyncInv

\* A step of a client leaves the server alone, sends at most one message that
\* tells no more than the client has reached, and receives at most one.
Sends(m) == m \in ToServer /\ m \in Announced' /\ sQueue' = Append(sQueue, m)

ClientShape(c) ==
  /\ UNCHANGED server
  /\ early' \subseteq Client
  /\ cPc' \in [Client -> ClientState] /\ cVerdict' \in [Client -> Verdict]
  /\ reached' \in [Client -> 0..NPoints] /\ passed' \in [Client -> 0..NPoints]
  /\ \A d \in Client \ {c} : UNCHANGED <<cPc[d], reached[d], passed[d], cQueue[d]>>
  /\ reached[c] <= reached'[c] /\ passed'[c] < sPoint
  /\ cPc'[c] = "run" => reached'[c] = passed'[c]
  /\ cPc'[c] = "waitReady" => reached'[c] = passed'[c] + 1
  /\ sQueue' = sQueue \/ \E m \in ToServer : Sends(m)
  /\ \/ cQueue' = cQueue
     \/ cQueue[c] # <<>> /\ cQueue' = [cQueue EXCEPT ![c] = Tail(@)]

LEMMA ClientStepShape ==
  ASSUME SyncInv, NEW c \in Client, ClientStep(c)
  PROVE  ClientShape(c)
<1>0. /\ cPc \in [Client -> ClientState] /\ cVerdict \in [Client -> Verdict]
      /\ reached \in [Client -> 0..NPoints] /\ passed \in [Client -> 0..NPoints]
      /\ cQueue \in [Client -> Seq(ToClient)] /\ early \subseteq Client
      /\ NPoints \in Nat /\ sPoint \in Nat /\ passed[c] < sPoint
      /\ cPc[c] = "run" => reached[c] = passed[c]
      /\ cPc[c] = "waitReady" => reached[c] = passed[c] + 1
  BY PointsAssumption DEF SyncInv, TypeOK, ProgressInv
<1>a. {"run", "waitReady", "waitStop", "done"} = ClientState
  BY DEF ClientState
<1>b. ClientStop(c) \in ToServer /\ ClientStop(c) \in Announced'
  BY MessageTypes DEF Announced, ClientStop
<1>1. ASSUME NEW ret \in FncRetCode, ClientSync(c, ret)
      PROVE  ClientShape(c)
  <2>1. /\ cPc[c] = "run" /\ passed[c] < NPoints /\ reached[c] = passed[c]
        /\ UNCHANGED <<server, passed, cQueue, early>>
    BY <1>0, <1>1 DEF ClientSync, Alive
  <2>2. cVerdict' \in [Client -> Verdict]
    <3>1. VerdictOf(TestcaseStep(c), ret) \in Verdict
      BY VerdictNames DEF VerdictOf, FncRetCode
    <3>2. Worst(cVerdict[c], VerdictOf(TestcaseStep(c), ret)) \in Verdict
      BY <1>0, <3>1, WorstType
    <3> QED BY <1>0, <1>1, <3>2 DEF ClientSync
  <2>3. CASE ret = "success"
    <3>1. /\ reached' = [reached EXCEPT ![c] = passed[c] + 1]
          /\ sQueue' = Append(sQueue, ClientReady(c, passed[c] + 1))
          /\ cPc' = [cPc EXCEPT ![c] = "waitReady"]
      BY <1>1, <2>3 DEF ClientSync
    <3>2. passed[c] + 1 \in Point /\ reached'[c] = passed[c] + 1
      BY <1>0, <2>1, <3>1 DEF Point
    <3>3. ClientReady(c, passed[c] + 1) \in ToServer
      BY <3>2, MessageTypes
    <3>4. ClientReady(c, passed[c] + 1) \in Announced'
      BY <3>2, <3>3 DEF Announced, ClientReady, Point
    <3> QED BY <1>0, <1>a, <2>1, <2>2, <3>1, <3>2, <3>3, <3>4 DEF ClientShape, Sends, Point
  <2>4. CASE ret # "success"
    <3>1. /\ UNCHANGED reached
          /\ sQueue' = Append(sQueue, ClientStop(c))
          /\ cPc' = [cPc EXCEPT ![c] = "waitStop"]
      BY <1>1, <2>4 DEF ClientSync
    <3> QED BY <1>0, <1>a, <1>b, <2>1, <2>2, <3>1 DEF ClientShape, Sends
  <2> QED BY <2>3, <2>4
<1>2. CASE ClientPass(c)
  <2>1. /\ cPc[c] = "waitReady" /\ ClientReceives(c, ServerReady(reached[c]))
        /\ passed' = [passed EXCEPT ![c] = reached[c]]
        /\ cPc' = [cPc EXCEPT ![c] = "run"] /\ early' = early \ {c}
        /\ UNCHANGED <<server, sQueue, reached, cVerdict>>
    BY <1>2 DEF ClientPass, Alive
  <2>2. /\ cQueue[c] # <<>> /\ Head(cQueue[c]) = ServerReady(reached[c])
        /\ cQueue' = [cQueue EXCEPT ![c] = Tail(@)]
    BY <2>1 DEF ClientReceives
  <2>3. reached[c] < sPoint
    <3>1. Head(cQueue[c]) = cQueue[c][1] /\ 1 \in 1..Len(cQueue[c])
      BY <1>0, <2>2, TailFacts
    <3>2. cQueue[c][1].cmd = "serverReady" /\ cQueue[c][1].point = reached[c]
      BY <2>2, <3>1 DEF ServerReady
    <3> QED BY <3>1, <3>2 DEF SyncInv, QueueInv
  <2> QED BY <1>0, <1>a, <2>1, <2>2, <2>3 DEF ClientShape
<1>3. CASE ClientReadyTimeout(c)
  <2>1. /\ cPc[c] = "waitReady" /\ sQueue' = Append(sQueue, ClientStop(c))
        /\ cPc' = [cPc EXCEPT ![c] = "waitStop"]
        /\ UNCHANGED <<server, reached, passed, cVerdict, cQueue>>
    BY <1>3 DEF ClientReadyTimeout, Alive
  <2>2. early' \subseteq Client
    BY <1>0, <1>3 DEF ClientReadyTimeout
  <2> QED BY <1>0, <1>a, <1>b, <2>1, <2>2 DEF ClientShape, Sends
<1>4. CASE ClientStopTimeout(c)
  <2>1. Worst(cVerdict[c], "inconc") \in Verdict
    BY <1>0, WorstType, VerdictNames
  <2> QED BY <1>0, <1>a, <1>4, <2>1 DEF ClientStopTimeout, ClientShape
<1>5. CASE ClientShutdown(c)
  BY <1>0, <1>a, <1>5 DEF ClientShutdown, ClientReceives, ClientShape
<1>6. CASE ClientFinish(c)
  BY <1>0, <1>a, <1>6 DEF ClientFinish, ClientShape
<1>7. CASE ClientError(c)
  BY <1>0, <1>a, <1>7, VerdictNames DEF ClientError, ClientShape
<1> QED BY <1>1, <1>2, <1>3, <1>4, <1>5, <1>6, <1>7 DEF ClientStep, ClientWait

LEMMA ClientStepInv ==
  ASSUME SyncInv, NEW c \in Client, ClientShape(c)
  PROVE  SyncInv'
<1>1. /\ TypeOK /\ QueuesFit /\ ProgressInv /\ PointInv
      /\ UNCHANGED <<sPc, sPoint, refs, stopping, nonSync, sVerdict>>
  BY QueueInvSets DEF SyncInv, ClientShape, server
<1>2. /\ sQueue \in Seq(ToServer) /\ cQueue \in [Client -> Seq(ToClient)]
      /\ sPoint \in Nat
      /\ \A d \in Client : reached[d] \in Nat /\ reached'[d] \in Nat
  BY <1>1, PointsAssumption DEF TypeOK, ClientShape
<1>3. \A d \in Client : reached[d] <= reached'[d]
  <2> SUFFICES ASSUME NEW d \in Client PROVE reached[d] <= reached'[d]
    OBVIOUS
  <2>1. CASE d = c
    BY <2>1 DEF ClientShape
  <2>2. CASE d # c
    <3>1. reached'[d] = reached[d]
      BY <2>2 DEF ClientShape
    <3> QED BY <1>2, <3>1
  <2> QED BY <2>1, <2>2
<1>4. Announced \subseteq Announced' /\ Decided' = Decided
  <2>1. \A m \in ToServer : m.cmd = "clientReady" => m.from \in Client /\ m.point \in Nat
    BY DEF ToServer, Point, ServerStop
  <2>2. Announced \subseteq Announced'
    BY <1>2, <1>3, <2>1 DEF Announced
  <2> QED BY <1>1, <2>2 DEF Decided
<1> HIDE DEF Announced, Decided
<1>5. sQueue' \in Seq(ToServer) /\ \A i \in 1..Len(sQueue') : sQueue'[i] \in Announced'
  <2>1. \A i \in 1..Len(sQueue) : sQueue[i] \in Announced'
    BY <1>1, <1>4 DEF QueuesFit
  <2>2. CASE sQueue' = sQueue
    BY <1>2, <2>1, <2>2
  <2>3. ASSUME NEW m \in ToServer, Sends(m)
        PROVE  sQueue' \in Seq(ToServer) /\ \A i \in 1..Len(sQueue') : sQueue'[i] \in Announced'
    <3>1. m \in Announced' /\ sQueue' = Append(sQueue, m)
      BY <2>3 DEF Sends
    <3>2. Append(sQueue, m) \in Seq(ToServer)
      BY <1>2, AppendFacts
    <3>3. \A i \in 1..Len(Append(sQueue, m)) : Append(sQueue, m)[i] \in Announced'
      BY <1>2, <2>1, <3>1, AppendKeeps
    <3> QED BY <3>1, <3>2, <3>3
  <2> QED BY <2>2, <2>3 DEF ClientShape
<1>6. /\ cQueue' \in [Client -> Seq(ToClient)]
      /\ \A d \in Client : \A i \in 1..Len(cQueue'[d]) : cQueue'[d][i] \in Decided'
  <2>1. \A d \in Client : \A i \in 1..Len(cQueue[d]) : cQueue[d][i] \in Decided
    BY <1>1 DEF QueuesFit
  <2>2. CASE cQueue' = cQueue
    BY <1>2, <1>4, <2>1, <2>2
  <2>3. CASE cQueue[c] # <<>> /\ cQueue' = [cQueue EXCEPT ![c] = Tail(@)]
    <3>1. Tail(cQueue[c]) \in Seq(ToClient)
      BY <1>2, <2>3, TailFacts
    <3>2. \A i \in 1..Len(Tail(cQueue[c])) : Tail(cQueue[c])[i] \in Decided
      BY <1>2, <2>1, <2>3, TailKeeps
    <3> QED BY <1>2, <1>4, <2>1, <2>3, <3>1, <3>2
  <2> QED BY <2>2, <2>3 DEF ClientShape
<1>7. TypeOK'
  BY <1>1, <1>5, <1>6 DEF TypeOK, ClientShape
<1>8. QueueInv'
  BY <1>5, <1>6, <1>7, QueueInvNext DEF QueuesFit
<1>9. ProgressInv'
  BY <1>1 DEF ProgressInv, ClientShape
<1>10. PointInv'
  <2>1. refs \subseteq Client
    BY <1>1 DEF TypeOK
  <2>2. \A d \in Client : \A n \in Nat : reached[d] >= n => reached'[d] >= n
    BY <1>2, <1>3
  <2>3. (sPc' = "sync" /\ ~stopping') => \A d \in refs' : reached'[d] >= sPoint'
    BY <1>1, <1>2, <2>1, <2>2 DEF PointInv
  <2>4. Undisturbed' => \A d \in Client : reached'[d] + 1 >= sPoint'
    BY <1>1, <1>2, <1>3 DEF PointInv, Undisturbed
  <2> QED BY <1>1, <2>3, <2>4 DEF PointInv
<1> QED BY <1>7, <1>8, <1>9, <1>10 DEF SyncInv

LEMMA StutterInv ==
  ASSUME SyncInv, UNCHANGED vars
  PROVE  SyncInv'
  BY DEF SyncInv, TypeOK, QueueInv, ProgressInv, PointInv, Undisturbed, vars, server, client

LEMMA InitInv ==
  ASSUME Init
  PROVE  SyncInv
<1> USE PointsAssumption, NonSyncAssumption
<1>1. TypeOK
  <2>0. sPoint \in 1..(NPoints + 1) /\ nonSync \in 0..MaxNonSync
    BY DEF Init
  <2>1. /\ sPc \in ServerState /\ stopping \in BOOLEAN
        /\ refs \subseteq Client /\ early \subseteq Client
    BY DEF Init, ServerState
  <2>2. sVerdict \in Verdict /\ cVerdict \in [Client -> Verdict]
    BY VerdictNames DEF Init
  <2>3. sQueue \in Seq(ToServer) /\ cQueue \in [Client -> Seq(ToClient)]
    BY DEF Init
  <2>4. /\ cPc \in [Client -> ClientState]
        /\ reached \in [Client -> 0..NPoints] /\ passed \in [Client -> 0..NPoints]
    BY DEF Init, ClientState
  <2> QED BY <2>0, <2>1, <2>2, <2>3, <2>4 DEF TypeOK
<1>2. QueueInv
  BY DEF Init, QueueInv
<1>3. ProgressInv /\ PointInv
  BY DEF Init, ProgressInv, PointInv
<1> QED BY <1>1, <1>2, <1>3 DEF SyncInv

LEMMA NextInv ==
  ASSUME SyncInv, [Next]_vars
  PROVE  SyncInv'
<1>1. CASE ServerStep
  <2>1. ServerSyncs \/ ServerEnds
    BY <1>1 DEF ServerStep, ServerSyncs, ServerEnds
  <2> QED BY <2>1, ServerSyncShape, SyncStepInv, ServerEndShape, EndStepInv
<1>2. ASSUME NEW c \in Client, ClientStep(c)
      PROVE  SyncInv'
  BY <1>2, ClientStepShape, ClientStepInv
<1>3. CASE Terminated \/ UNCHANGED vars
  BY <1>3, StutterInv DEF Terminated
<1> QED BY <1>1, <1>2, <1>3 DEF Next

-----------------------------------------------------------------------------
(* The verdict.                                                            *)

\* setverdict keeps a spoiled verdict, and spoils one.
LEMMA WorstSpoils ==
  ASSUME NEW v \in Verdict, NEW w \in Verdict, Spoiled(v) \/ Spoiled(w)
  PROVE  Spoiled(Worst(v, w))
  BY VerdictNames DEF Worst, Rank, Spoiled

\* A STOP is only on its way when the verdict is spoiled.
Allowed == {m \in ToClient : m.cmd = "serverStop" => Spoiled(sVerdict)}

StopsFit == \A c \in Client : \A i \in 1..Len(cQueue[c]) : cQueue[c][i] \in Allowed

StopsSpoil ==
  \A c \in Client : \A i \in 1..Len(cQueue[c]) :
    cQueue[c][i].cmd = "serverStop" => Spoiled(sVerdict)

LEMMA StopsFitSets == TypeOK => (StopsSpoil <=> StopsFit)
<1> SUFFICES ASSUME TypeOK PROVE StopsSpoil <=> StopsFit
  OBVIOUS
<1>1. ASSUME NEW c \in Client, NEW i \in 1..Len(cQueue[c])
      PROVE  cQueue[c][i] \in ToClient
  <2>1. cQueue[c] \in Seq(ToClient)
    BY DEF TypeOK
  <2> QED BY <2>1
<1> QED BY <1>1 DEF StopsSpoil, StopsFit, Allowed

LEMMA StopsFitNext == TypeOK' => (StopsSpoil' <=> StopsFit')
  BY StopsFitSets, PTL

\* The queues keep their property as long as the verdict gets no better and the
\* server sends a message that fits.
LEMMA StopsStay ==
  ASSUME TypeOK, StopsFit, NEW rs \in SUBSET Client, NEW m \in ToClient, m \in Allowed',
         Spoiled(sVerdict) => Spoiled(sVerdict'), cQueue' = SendToAll(rs, m)
  PROVE  StopsFit'
<1>1. Allowed \subseteq Allowed'
  BY DEF Allowed
<1> HIDE DEF Allowed
<1>2. \A c \in Client : \A i \in 1..Len(cQueue[c]) : cQueue[c][i] \in Allowed'
  BY <1>1 DEF StopsFit
<1> QED BY <1>2, SendKeeps DEF StopsFit

\* A step of the server at a sync point.
LEMMA SyncStepEarned ==
  ASSUME EarnInv, SyncShape
  PROVE  VerdictInv' /\ DrainInv' /\ PassIsEarned'
<1>1. /\ SyncInv /\ VerdictInv /\ TypeOK /\ TypeOK' /\ StopsFit
      /\ UNCHANGED <<cPc, reached, passed, cVerdict>>
      /\ sPc = "sync" /\ sPoint \in Point /\ sVerdict \in Verdict
  BY SyncStepTypes, StopsFitSets DEF EarnInv, SyncInv, SyncShape, client, VerdictInv, StopsSpoil, TypeOK
<1>2. PICK rs \in SUBSET Client : \/ KeepsCounting(rs) /\ nonSync' = nonSync
                                 \/ StopClients(rs) \/ Opens(rs)
  BY DEF SyncShape
<1>3. CASE KeepsCounting(rs) /\ nonSync' = nonSync
  <2>1. UNCHANGED <<sPc, sVerdict, cQueue>>
    BY <1>3 DEF KeepsCounting
  <2> QED BY <1>1, <2>1 DEF VerdictInv, DrainInv, PassIsEarned, Ended
<1>4. CASE StopClients(rs)
  <2>1. /\ sPc' = "shutdown" /\ sVerdict' = Worst(sVerdict, "inconc")
        /\ cQueue' = SendToAll(rs, ServerStop)
    BY <1>4 DEF StopClients
  <2>2. Spoiled(sVerdict')
    <3>1. Spoiled("inconc") /\ "inconc" \in Verdict
      BY VerdictNames DEF Spoiled
    <3> QED BY <1>1, <2>1, <3>1, WorstSpoils
  <2> QED BY <1>1, <2>1, <2>2 DEF VerdictInv, DrainInv, PassIsEarned, Ended
<1>5. CASE Opens(rs)
  <2>1. /\ sPc' = IF sPoint = NPoints THEN "drain" ELSE "sync"
        /\ sVerdict' = Worst(sVerdict, "pass")
        /\ cQueue' = SendToAll(rs, ServerReady(sPoint))
        /\ early' = IF sPoint = NPoints THEN {c \in Client : Awaits(c)} ELSE early
        /\ nonSync' = nonSync => rs = Client
    BY <1>5 DEF Opens, ReleaseClients
  <2>2. Spoiled(sVerdict) => Spoiled(sVerdict')
    BY <1>1, <2>1, WorstSpoils, VerdictNames
  <2>3. VerdictInv'
    <3>1. ServerReady(sPoint) \in ToClient
      BY <1>1, MessageTypes
    <3>2. ServerReady(sPoint) \in Allowed'
      BY <3>1 DEF Allowed, ServerReady
    <3>3. StopsFit'
      BY <1>1, <2>1, <2>2, <3>1, <3>2, StopsStay
    <3> QED BY <1>1, <2>1, <2>2, <3>3, StopsFitNext DEF VerdictInv, StopsSpoil
  <2>4. DrainInv'
    <3> SUFFICES ASSUME sPc' = "drain", Undisturbed', NEW c \in Client
                 PROVE  /\ Awaits(c)' => c \in early'
                        /\ cPc'[c] = "waitReady" => cQueue'[c] # <<>>
      BY DEF DrainInv
    <3>1. early' = {d \in Client : Awaits(d)} /\ Awaits(c)' = Awaits(c)
      BY <1>1, <2>1 DEF Awaits
    <3>2. nonSync' = nonSync
      BY <1>1, NonSyncAssumption DEF SyncShape, Undisturbed, TypeOK
    <3>3. cQueue'[c] = Append(cQueue[c], ServerReady(sPoint))
      BY <2>1, <3>2 DEF SendToAll
    <3>4. cQueue'[c] # <<>>
      <4>1. cQueue[c] \in Seq(ToClient) /\ ServerReady(sPoint) \in ToClient
        BY <1>1, MessageTypes DEF TypeOK
      <4> QED BY <3>3, <4>1
    <3> QED BY <3>1, <3>4
  <2> QED BY <2>1, <2>3, <2>4 DEF PassIsEarned, Ended
<1> QED BY <1>2, <1>3, <1>4, <1>5

\* A step of the server after the sync points.  What ends the test case with a pass
\* is the end of all clients, or a wait longer than those of the clients.
LEMMA EndStepEarned ==
  ASSUME EarnInv, ServerEnds
  PROVE  VerdictInv' /\ DrainInv' /\ PassIsEarned'
<1>0. /\ TypeOK /\ VerdictInv /\ EndShape /\ sVerdict \in Verdict
      /\ UNCHANGED <<sPoint, nonSync, cPc, reached, passed, cVerdict, cQueue, early>>
  BY ServerEndShape DEF EarnInv, SyncInv, TypeOK, EndShape, client
<1>a. sPc' # "drain" /\ DrainInv'
  BY <1>0 DEF EndShape, DrainInv
<1>b. Spoiled("inconc") /\ "inconc" \in Verdict /\ "pass" \in Verdict
  BY VerdictNames DEF Spoiled
<1>c. /\ Spoiled(sVerdict) => Spoiled(Worst(sVerdict, "pass"))
      /\ Spoiled(Worst(sVerdict, "inconc"))
  BY <1>0, <1>b, WorstSpoils
<1>d. ASSUME Spoiled(sVerdict')
      PROVE  VerdictInv' /\ PassIsEarned'
  BY <1>0, <1>d DEF VerdictInv, PassIsEarned, OverallPass, Spoiled
<1>e. ASSUME sPc' \in {"cleaned", "timedOut"}, Spoiled(sVerdict) => Spoiled(sVerdict')
      PROVE  VerdictInv'
  BY <1>0, <1>e DEF VerdictInv
<1>1. CASE ServerDrained
  <2>1. AllDone /\ sPc' = "cleaned" /\ sVerdict' = Worst(sVerdict, "pass")
    BY <1>1 DEF ServerDrained
  <2>2. ASSUME OverallPass', NEW c \in Client
        PROVE  passed'[c] = NPoints
    <3>1. ~Spoiled(sVerdict) /\ ~Spoiled(cVerdict[c])
      BY <1>0, <1>c, <2>1, <2>2 DEF OverallPass, Spoiled
    <3> QED BY <1>0, <2>1, <3>1 DEF AllDone, VerdictInv
  <2> QED BY <1>a, <1>c, <1>e, <2>1, <2>2 DEF PassIsEarned
<1>2. CASE ServerDrainTimeout
  <2>1. sPc = "drain" /\ early = {} /\ sPc' = "timedOut" /\ sVerdict' = sVerdict
    BY <1>2 DEF ServerDrainTimeout
  <2>2. ASSUME Undisturbed', OverallPass', NEW c \in Client
        PROVE  passed'[c] = NPoints
    <3>1. Undisturbed /\ ~Spoiled(sVerdict) /\ ~Spoiled(cVerdict[c])
      BY <1>0, <2>1, <2>2 DEF Undisturbed, OverallPass, Spoiled
    <3>2. cPc[c] \in {"run", "done"}
      BY <1>0, <2>1, <3>1 DEF EarnInv, DrainInv, Awaits, TypeOK, ClientState
    <3>3. CASE cPc[c] = "done"
      BY <1>0, <3>1, <3>3 DEF VerdictInv
    <3>4. CASE cPc[c] = "run"
      <4>1. reached[c] = passed[c] /\ sPoint = NPoints + 1 /\ reached[c] + 1 >= sPoint
        BY <2>1, <3>1, <3>4 DEF EarnInv, SyncInv, ProgressInv, PointInv
      <4>2. passed[c] \in 0..NPoints /\ NPoints \in Nat
        BY <1>0, PointsAssumption DEF TypeOK
      <4> QED BY <1>0, <4>1, <4>2
    <3> QED BY <3>2, <3>3, <3>4
  <2> QED BY <1>a, <1>e, <2>1, <2>2 DEF PassIsEarned
<1>3. CASE ServerShutDownMessage \/ ServerShutDownDone \/ ServerShutDownTimeout
  <2>1. sVerdict' = Worst(sVerdict, "inconc")
    BY <1>3 DEF ServerShutDownMessage, ServerShutDownDone, ServerShutDownTimeout, SelfStop
  <2> QED BY <1>a, <1>c, <1>d, <2>1
<1>4. CASE ServerDefault
  <2>1. sPc = "selfStop" /\ sVerdict' = sVerdict
    BY <1>4 DEF ServerDefault
  <2>2. Spoiled(sVerdict')
    BY <1>0, <2>1 DEF VerdictInv
  <2> QED BY <1>a, <1>d, <2>2
<1>5. CASE ServerSelfStopTimeout
  <2>1. sVerdict' = Worst(sVerdict, "inconc")
    BY <1>5 DEF ServerSelfStopTimeout
  <2> QED BY <1>a, <1>c, <1>d, <2>1
<1> QED BY <1>1, <1>2, <1>3, <1>4, <1>5 DEF ServerEnds

\* What a step of a client leaves of another one.
OtherStays(d) ==
  /\ cPc'[d] = cPc[d] /\ passed'[d] = passed[d]
  /\ cVerdict'[d] = cVerdict[d] /\ cQueue'[d] = cQueue[d]
  /\ d \in early => d \in early'

\* What it does to its own verdict and to the wait of the server: it only finishes
\* after the last point or with a spoiled verdict, and starts no wait that the server
\* would not wait for.
EarnShape(c) ==
  /\ ~Ended /\ UNCHANGED server
  /\ \A d \in Client \ {c} : OtherStays(d)
  /\ cQueue'[c] = cQueue[c] \/ (cQueue[c] # <<>> /\ cQueue'[c] = Tail(cQueue[c]))
  /\ cPc'[c] = "done" => \/ passed'[c] = NPoints \/ Spoiled(cVerdict'[c])
                         \/ Spoiled(sVerdict)
  /\ cPc'[c] = "waitReady" => cPc[c] = "run" /\ passed[c] < NPoints
  /\ cPc'[c] = "waitStop" => \/ cPc[c] = "run" /\ passed[c] < NPoints
                             \/ /\ cPc[c] = "waitReady"
                                /\ cQueue[c] # <<>> => early' = early

LEMMA ClientStepEarnShape ==
  ASSUME EarnInv, NEW c \in Client, ClientStep(c)
  PROVE  EarnShape(c)
<1>0. /\ cPc \in [Client -> ClientState] /\ cVerdict \in [Client -> Verdict]
      /\ passed \in [Client -> 0..NPoints] /\ cQueue \in [Client -> Seq(ToClient)]
      /\ TypeOK /\ VerdictInv
  BY DEF EarnInv, SyncInv, TypeOK
<1>1. ASSUME NEW ret \in FncRetCode, ClientSync(c, ret)
      PROVE  EarnShape(c)
  <2>1. /\ ~Ended /\ cPc[c] = "run" /\ passed[c] < NPoints
        /\ UNCHANGED <<server, passed, cQueue, early>>
        /\ \A d \in Client \ {c} : cVerdict'[d] = cVerdict[d]
    BY <1>0, <1>1 DEF ClientSync, Alive
  <2>2. \/ cPc' = [cPc EXCEPT ![c] = "waitReady"]
        \/ cPc' = [cPc EXCEPT ![c] = "waitStop"]
    BY <1>1 DEF ClientSync
  <2> QED BY <1>0, <2>1, <2>2 DEF EarnShape, OtherStays
<1>2. CASE ClientPass(c)
  BY <1>0, <1>2 DEF ClientPass, ClientReceives, Alive, EarnShape, OtherStays
<1>3. CASE ClientReadyTimeout(c)
  BY <1>0, <1>3 DEF ClientReadyTimeout, Alive, EarnShape, OtherStays
<1>4. CASE ClientStopTimeout(c)
  <2>1. Spoiled(Worst(cVerdict[c], "inconc"))
    <3>1. Spoiled("inconc") /\ "inconc" \in Verdict
      BY VerdictNames DEF Spoiled
    <3> QED BY <1>0, <3>1, WorstSpoils
  <2> QED BY <1>0, <1>4, <2>1 DEF ClientStopTimeout, Alive, EarnShape, OtherStays
<1>5. CASE ClientShutdown(c)
  <2>1. cQueue[c] # <<>> /\ Head(cQueue[c]) = ServerStop
    BY <1>5 DEF ClientShutdown, ClientReceives
  <2>2. cQueue[c][1].cmd = "serverStop" /\ 1 \in 1..Len(cQueue[c])
    BY <1>0, <2>1, TailFacts DEF ServerStop
  <2>3. Spoiled(sVerdict)
    BY <1>0, <2>2 DEF VerdictInv
  <2> QED BY <1>0, <1>5, <2>3 DEF ClientShutdown, ClientReceives, Alive, EarnShape, OtherStays
<1>6. CASE ClientFinish(c)
  BY <1>0, <1>6 DEF ClientFinish, Alive, EarnShape, OtherStays
<1>7. CASE ClientError(c)
  BY <1>0, <1>7 DEF ClientError, Alive, EarnShape, OtherStays, Spoiled
<1> QED BY <1>1, <1>2, <1>3, <1>4, <1>5, <1>6, <1>7 DEF ClientStep, ClientWait

LEMMA ClientStepEarned ==
  ASSUME EarnInv, NEW c \in Client, EarnShape(c)
  PROVE  VerdictInv' /\ DrainInv' /\ PassIsEarned'
<1>0. /\ TypeOK /\ VerdictInv /\ cQueue \in [Client -> Seq(ToClient)]
      /\ UNCHANGED <<sPc, sPoint, nonSync, sVerdict>> /\ ~Ended
  BY DEF EarnInv, SyncInv, TypeOK, EarnShape, server
<1>a. ASSUME NEW d \in Client, d # c
      PROVE  /\ cPc'[d] = cPc[d] /\ passed'[d] = passed[d]
             /\ cVerdict'[d] = cVerdict[d] /\ cQueue'[d] = cQueue[d]
             /\ d \in early => d \in early'
  <2>1. d \in Client \ {c}
    BY <1>a
  <2>2. OtherStays(d)
    BY <2>1 DEF EarnShape
  <2> QED BY <2>2 DEF OtherStays
<1>1. PassIsEarned'
  BY <1>0 DEF PassIsEarned, Ended
<1>2. VerdictInv'
  <2>1. ASSUME NEW d \in Client, NEW i \in 1..Len(cQueue'[d]),
               cQueue'[d][i].cmd = "serverStop"
        PROVE  Spoiled(sVerdict)
    <3>1. CASE cQueue'[d] = cQueue[d]
      BY <1>0, <2>1, <3>1 DEF VerdictInv
    <3>2. CASE cQueue[d] # <<>> /\ cQueue'[d] = Tail(cQueue[d])
      <4>1. i + 1 \in 1..Len(cQueue[d]) /\ cQueue'[d][i] = cQueue[d][i + 1]
        BY <1>0, <2>1, <3>2, TailFacts
      <4> QED BY <1>0, <2>1, <4>1 DEF VerdictInv
    <3>3. CASE d = c
      BY <3>1, <3>2, <3>3 DEF EarnShape
    <3>4. CASE d # c
      BY <1>a, <3>1, <3>4
    <3> QED BY <3>3, <3>4
  <2>2. ASSUME NEW d \in Client, cPc'[d] = "done"
        PROVE  passed'[d] = NPoints \/ Spoiled(cVerdict'[d]) \/ Spoiled(sVerdict)
    <3>1. CASE d = c
      BY <2>2, <3>1 DEF EarnShape
    <3>2. CASE d # c
      <4>1. cPc[d] = "done" /\ passed'[d] = passed[d] /\ cVerdict'[d] = cVerdict[d]
        BY <1>a, <2>2, <3>2
      <4> QED BY <1>0, <4>1 DEF VerdictInv
    <3> QED BY <3>1, <3>2
  <2> QED BY <1>0, <2>1, <2>2 DEF VerdictInv
<1>3. DrainInv'
  <2> SUFFICES ASSUME sPc = "drain", Undisturbed, NEW d \in Client
               PROVE  /\ Awaits(d)' => d \in early'
                      /\ cPc'[d] = "waitReady" => cQueue'[d] # <<>>
    BY <1>0 DEF DrainInv, Undisturbed
  <2>1. /\ Awaits(d) => d \in early
        /\ cPc[d] = "waitReady" => cQueue[d] # <<>>
    BY DEF EarnInv, DrainInv
  <2>2. CASE d # c
    BY <1>a, <2>1, <2>2 DEF Awaits
  <2>3. CASE d = c
    <3>1. cPc[c] = "run" => passed[c] >= NPoints
      <4>1. sPoint = NPoints + 1 /\ reached[c] + 1 >= sPoint
            /\ (cPc[c] = "run" => reached[c] = passed[c])
        BY DEF EarnInv, SyncInv, ProgressInv, PointInv
      <4>2. passed[c] \in Nat /\ reached[c] \in Nat /\ NPoints \in Nat
        BY <1>0, PointsAssumption DEF TypeOK
      <4> QED BY <4>1, <4>2
    <3>2. ~(cPc[c] = "run" /\ passed[c] < NPoints)
      <4>1. passed[c] \in Nat /\ NPoints \in Nat
        BY <1>0, PointsAssumption DEF TypeOK
      <4> QED BY <3>1, <4>1
    <3> QED BY <2>1, <2>3, <3>2 DEF EarnShape, Awaits
  <2> QED BY <2>2, <2>3
<1> QED BY <1>1, <1>2, <1>3

LEMMA EarnNext ==
  ASSUME EarnInv, [Next]_vars
  PROVE  EarnInv'
<1>1. SyncInv'
  BY NextInv DEF EarnInv
<1>2. CASE ServerStep
  <2>1. ServerSyncs \/ ServerEnds
    BY <1>2 DEF ServerStep, ServerSyncs, ServerEnds
  <2>2. ServerSyncs => SyncShape
    BY ServerSyncShape DEF EarnInv
  <2> QED BY <1>1, <2>1, <2>2, SyncStepEarned, EndStepEarned DEF EarnInv
<1>3. ASSUME NEW c \in Client, ClientStep(c)
      PROVE  EarnInv'
  BY <1>1, <1>3, ClientStepEarnShape, ClientStepEarned DEF EarnInv
<1>4. CASE Terminated \/ UNCHANGED vars
  BY <1>1, <1>4 DEF Terminated, EarnInv, VerdictInv, DrainInv, PassIsEarned, Ended,
    OverallPass, Undisturbed, Awaits, vars, server, client
<1> QED BY <1>2, <1>3, <1>4 DEF Next

LEMMA EarnInit ==
  ASSUME Init
  PROVE  EarnInv
<1>1. VerdictInv
  BY DEF Init, VerdictInv
<1>2. DrainInv /\ PassIsEarned
  BY DEF Init, DrainInv, PassIsEarned, Ended
<1> QED BY <1>1, <1>2, InitInv DEF EarnInv

-----------------------------------------------------------------------------
(* Theorems.                                                               *)

\* The inductive invariant holds in every reachable state.
THEOREM SyncInvariant == Spec => []SyncInv
<1>1. Init => SyncInv
  BY InitInv
<1>2. SyncInv /\ [Next]_vars => SyncInv'
  BY NextInv
<1> QED BY <1>1, <1>2, PTL DEF Spec

\* Every variable of the protocol keeps its type.
THEOREM TypeCorrect == Spec => []TypeOK
<1>1. SyncInv => TypeOK
  BY DEF SyncInv
<1> QED BY <1>1, SyncInvariant, PTL

\* A sync point is a barrier: no client goes through a point that another one has
\* not reached, for any number of clients and points.
THEOREM BarrierHolds == Spec => []Barrier
<1>1. SyncInv => Barrier
  <2> SUFFICES ASSUME SyncInv, Undisturbed, NEW c \in Client, NEW d \in Client
               PROVE  passed[c] <= reached[d]
    BY DEF Barrier
  <2>1. passed[c] \in Nat /\ reached[d] \in Nat /\ sPoint \in Nat
    BY PointsAssumption DEF SyncInv, TypeOK
  <2>2. passed[c] < sPoint /\ reached[d] + 1 >= sPoint
    BY DEF SyncInv, ProgressInv, PointInv
  <2> QED BY <2>1, <2>2
<1> QED BY <1>1, SyncInvariant, PTL

\* Once the server stops its clients at a point, no client goes through it.
THEOREM StopExcludes == Spec => []StopExcludesReady
<1>1. SyncInv => StopExcludesReady
  BY DEF SyncInv, ProgressInv, StopExcludesReady
<1> QED BY <1>1, SyncInvariant, PTL

\* A test case that ends with verdict pass went through every point with every
\* client, for any number of clients and points: the only way the server stops waiting
\* without a spoiled verdict is a timer that outlasts those of its clients.
THEOREM PassEarned == Spec => []PassIsEarned
<1>1. Init => EarnInv
  BY EarnInit
<1>2. EarnInv /\ [Next]_vars => EarnInv'
  BY EarnNext
<1>3. EarnInv => PassIsEarned
  BY DEF EarnInv
<1> QED BY <1>1, <1>2, <1>3, PTL DEF Spec

-----------------------------------------------------------------------------
(* The protocol implements the abstract barrier.                           *)

LEMMA SyncStepImplements ==
  ASSUME SyncInv, SyncShape
  PROVE  [B!BarrierNext]_(B!barrierVars)
<1>1. /\ sPc = "sync" /\ sPoint \in Nat /\ sPoint <= NPoints /\ NPoints \in Nat
      /\ nonSync \in Nat /\ MaxNonSync \in Nat /\ nonSync <= MaxNonSync
      /\ \A c \in Client : reached[c] \in Nat
  BY PointsAssumption, NonSyncAssumption DEF SyncInv, SyncShape, TypeOK, Point
<1>2. reached' = reached /\ passed' = passed
  BY DEF SyncShape, client
<1>3. ~Aborted
  BY <1>1 DEF Aborted
<1>4. PICK rs \in SUBSET Client : \/ KeepsCounting(rs) /\ nonSync' = nonSync
                                 \/ StopClients(rs) \/ Opens(rs)
  BY DEF SyncShape
<1>5. CASE KeepsCounting(rs) /\ nonSync' = nonSync
  BY <1>2, <1>5 DEF KeepsCounting, B!barrierVars, Aborted
<1>6. CASE StopClients(rs)
  <2>1. Aborted' /\ sPoint' = sPoint
    BY <1>1, <1>6 DEF StopClients, Aborted
  <2>2. CASE nonSync' = nonSync
    BY <1>2, <1>3, <2>1, <2>2 DEF B!BarrierNext, B!Abort
  <2>3. CASE nonSync > 0 /\ nonSync' = nonSync - 1
    BY <1>1, <1>2, <1>3, <2>1, <2>3 DEF B!BarrierNext, B!Breach
  <2> QED BY <2>2, <2>3 DEF SyncShape
<1>7. CASE Opens(rs)
  <2>1. /\ sPoint' = sPoint + 1
        /\ sPc' = IF sPoint = NPoints THEN "drain" ELSE "sync"
        /\ nonSync' = nonSync => \A c \in Client : reached[c] >= sPoint
    BY <1>7 DEF Opens, ReleaseClients
  <2>2. Aborted' = Aborted
    BY <1>1, <2>1 DEF Aborted
  <2>3. CASE nonSync' = nonSync
    <3>1. \A c \in Client : reached[c] > sPoint - 1
      BY <1>1, <2>1, <2>3
    <3>2. B!Open
      BY <1>1, <1>2, <1>3, <2>1, <2>2, <2>3, <3>1 DEF B!Open
    <3> QED BY <3>2 DEF B!BarrierNext
  <2>4. CASE nonSync > 0 /\ nonSync' = nonSync - 1
    BY <1>1, <1>2, <1>3, <2>1, <2>2, <2>4 DEF B!BarrierNext, B!Breach
  <2> QED BY <2>3, <2>4 DEF SyncShape
<1> QED BY <1>4, <1>5, <1>6, <1>7

LEMMA EndStepImplements ==
  ASSUME SyncInv, EndShape
  PROVE  UNCHANGED B!barrierVars
<1>1. UNCHANGED <<sPoint, nonSync, reached, passed>>
  BY DEF EndShape, client
<1>2. Aborted' = Aborted
  BY <1>1, PointsAssumption DEF EndShape, Aborted, SyncInv, TypeOK, PointInv
<1> QED BY <1>1, <1>2 DEF B!barrierVars

LEMMA ClientStepImplements ==
  ASSUME SyncInv, NEW c \in Client, ClientStep(c)
  PROVE  [B!BarrierNext]_(B!barrierVars)
<1>1. /\ reached \in [Client -> 0..NPoints] /\ passed \in [Client -> 0..NPoints]
      /\ cQueue \in [Client -> Seq(ToClient)] /\ sPoint \in Nat /\ NPoints \in Nat
      /\ cPc[c] = "run" => reached[c] = passed[c]
      /\ cPc[c] = "waitReady" => reached[c] = passed[c] + 1
  BY PointsAssumption DEF SyncInv, TypeOK, ProgressInv
<1>2. ASSUME UNCHANGED <<server, reached, passed>>
      PROVE  UNCHANGED B!barrierVars
  BY <1>2 DEF server, B!barrierVars, Aborted
<1>3. ASSUME NEW ret \in FncRetCode, ClientSync(c, ret)
      PROVE  [B!BarrierNext]_(B!barrierVars)
  <2>1. CASE ret = "success"
    <3>1. /\ cPc[c] = "run" /\ passed[c] < NPoints /\ UNCHANGED <<server, passed>>
          /\ reached' = [reached EXCEPT ![c] = passed[c] + 1]
      BY <1>3, <2>1 DEF ClientSync, Alive
    <3>2. reached' = [reached EXCEPT ![c] = @ + 1]
      BY <1>1, <3>1
    <3>3. UNCHANGED <<sPoint, Aborted, nonSync>>
      BY <3>1 DEF server, Aborted
    <3>4. B!Arrive(c)
      BY <1>1, <3>1, <3>2, <3>3 DEF B!Arrive
    <3> QED BY <3>4 DEF B!BarrierNext
  <2>2. CASE ret # "success"
    <3>1. UNCHANGED <<server, reached, passed>>
      BY <1>3, <2>2 DEF ClientSync
    <3> QED BY <1>2, <3>1
  <2> QED BY <2>1, <2>2
<1>4. CASE ClientPass(c)
  <2>1. /\ cPc[c] = "waitReady" /\ ClientReceives(c, ServerReady(reached[c]))
        /\ passed' = [passed EXCEPT ![c] = reached[c]]
        /\ UNCHANGED <<server, reached>>
    BY <1>4 DEF ClientPass, Alive
  <2>2. UNCHANGED <<sPoint, Aborted, nonSync>>
    BY <2>1 DEF server, Aborted
  <2>3. reached[c] <= sPoint - 1
    <3>1. cQueue[c] # <<>> /\ Head(cQueue[c]) = ServerReady(reached[c])
      BY <2>1 DEF ClientReceives
    <3>2. Head(cQueue[c]) = cQueue[c][1] /\ 1 \in 1..Len(cQueue[c])
      BY <1>1, <3>1, TailFacts
    <3>3. cQueue[c][1].cmd = "serverReady" /\ cQueue[c][1].point = reached[c]
      BY <3>1, <3>2 DEF ServerReady
    <3>4. reached[c] < sPoint
      BY <3>2, <3>3 DEF SyncInv, QueueInv
    <3> QED BY <1>1, <3>4
  <2>4. B!Leave(c)
    BY <1>1, <2>1, <2>2, <2>3 DEF B!Leave
  <2> QED BY <2>4 DEF B!BarrierNext
<1>5. CASE \/ ClientReadyTimeout(c) \/ ClientStopTimeout(c) \/ ClientShutdown(c)
           \/ ClientFinish(c) \/ ClientError(c)
  <2>1. UNCHANGED <<server, reached, passed>>
    BY <1>5 DEF ClientReadyTimeout, ClientStopTimeout, ClientShutdown, ClientFinish, ClientError
  <2> QED BY <1>2, <2>1
<1> QED BY <1>3, <1>4, <1>5 DEF ClientStep, ClientWait

\* Every behaviour of the protocol is one of the abstract barrier: points are
\* opened one after the other, only by all the clients or by a disturbance, and
\* none is opened after the test case was aborted.
THEOREM BarrierImplemented == Spec => ImplementsBarrier
<1>1. Init => B!BarrierInit
  BY PointsAssumption, NonSyncAssumption DEF Init, B!BarrierInit, Aborted
<1>2. SyncInv /\ [Next]_vars => [B!BarrierNext]_(B!barrierVars)
  <2> SUFFICES ASSUME SyncInv, [Next]_vars
               PROVE  [B!BarrierNext]_(B!barrierVars)
    OBVIOUS
  <2>1. CASE ServerStep
    <3>1. ServerSyncs \/ ServerEnds
      BY <2>1 DEF ServerStep, ServerSyncs, ServerEnds
    <3> QED BY <3>1, ServerSyncShape, SyncStepImplements, ServerEndShape, EndStepImplements
  <2>2. CASE \E c \in Client : ClientStep(c)
    BY <2>2, ClientStepImplements
  <2>3. CASE Terminated \/ UNCHANGED vars
    BY <2>3 DEF Terminated, vars, server, client, B!barrierVars, Aborted
  <2> QED BY <2>1, <2>2, <2>3 DEF Next
<1> QED BY <1>1, <1>2, SyncInvariant, PTL DEF Spec, ImplementsBarrier, B!BarrierSpec
=============================================================================
