------------------------- MODULE TriConnectionProof --------------------------
(***************************************************************************)
(* Proofs about a connection of the mapper, for every number of requests    *)
(* and messages.                                                            *)
(*                                                                         *)
(* ResultTaken: a waiting test port never takes a message of the adapter    *)
(* for the result of its request, although these messages carry the id of   *)
(* the first request after the registration.  That is the map request, and  *)
(* the adapter finds the handler only once it was handled, so that the      *)
(* argument (Inv) is about what is on its way during the first two          *)
(* requests.                                                                *)
(*                                                                         *)
(* The other theorems need more of all requests: what is in the streams and *)
(* in the queue of the handler for the one that is waited for (CallInv),    *)
(* what its two ends know of the mapping (MapInv), which messages of the    *)
(* adapter stand before and behind its result (FreshInv), in which order    *)
(* they stand (OrderInv), and that what is waited for is on its way         *)
(* (WaitInv).                                                               *)
(***************************************************************************)
EXTENDS TriConnection, SequenceTheorems, FiniteSetTheorems, TLAPS

-----------------------------------------------------------------------------
(* The messages.                                                            *)

Requests == [kind : {"register", "map", "unmap", "unregister", "send"}, id : Nat]
Queued == Requests \cup {Undecodable}
            \cup [kind : {"enqueue"}, msg : [n : Nat, era : Nat, late : BOOLEAN]]
Pdu == [kind : {"result"}, id : Nat, ok : BOOLEAN]
         \cup [kind : {"enqueue"}, id : {1}, msg : [n : Nat, era : Nat, late : BOOLEAN]]
PduCell == [pdu : Pdu, part : {1, 2}]

Types ==
  /\ buff \in Seq(PduCell) /\ north \in Seq(PduCell)
  /\ south \in Seq(Requests) /\ hq \in Seq(Queued)
  /\ nextId \in Nat /\ era \in Nat /\ puts \in Nat /\ looked \in Nat
  /\ held \subseteq [look : Nat, era : Nat]

\* Cells of results only.
Results(s) == \A i \in 1..Len(s) : s[i].pdu.kind = "result"

LEMMA PduFacts ==
  ASSUME NEW p \in Pdu
  PROVE  /\ p.kind = "result" \/ p.kind = "enqueue"
         /\ p.kind = "enqueue" => p.id = 1
<1> QED BY DEF Pdu

LEMMA CellsFacts ==
  ASSUME NEW p \in Pdu
  PROVE  /\ Cells(p) \in Seq(PduCell) /\ Len(Cells(p)) = 2
         /\ Cells(p)[1].pdu = p /\ Cells(p)[2].pdu = p
         /\ p.kind = "result" => Results(Cells(p))
<1> DEFINE c == [pdu |-> p, part |-> 1]
           d == [pdu |-> p, part |-> 2]
<1>1. c \in PduCell /\ d \in PduCell /\ c.pdu = p /\ d.pdu = p
  BY DEF PduCell
<1>2. Cells(p) = <<c, d>>
  BY DEF Cells
<1> HIDE DEF c, d
<1>3. Cells(p) \in Seq(PduCell) /\ Len(Cells(p)) = 2 /\ Cells(p)[1] = c /\ Cells(p)[2] = d
  BY <1>1, <1>2
<1>4. \A i \in 1..2 : i = 1 \/ i = 2
  BY SMT
<1> QED BY <1>1, <1>3, <1>4 DEF Results

LEMMA AnswerFacts ==
  ASSUME NEW r, r.id \in Nat, NEW ok \in BOOLEAN
  PROVE  Answer(r, ok) \in Pdu /\ Answer(r, ok).kind = "result" /\ Answer(r, ok).id = r.id
<1> QED BY DEF Answer, Pdu

LEMMA EnqueuedFacts ==
  ASSUME NEW m \in [n : Nat, era : Nat, late : BOOLEAN]
  PROVE  Enqueued(m) \in Pdu
<1> QED BY DEF Enqueued, Pdu

-----------------------------------------------------------------------------
(* Sequences of cells.                                                      *)

LEMMA ConcatCells ==
  ASSUME NEW s \in Seq(PduCell), NEW t \in Seq(PduCell)
  PROVE  /\ s \o t \in Seq(PduCell) /\ Len(s \o t) = Len(s) + Len(t)
         /\ Len(s) \in Nat /\ Len(t) \in Nat
         /\ \A i \in 1..Len(s) : (s \o t)[i] = s[i]
         /\ (Results(s) /\ Results(t)) <=> Results(s \o t)
<1>1. /\ s \o t \in Seq(PduCell) /\ Len(s \o t) = Len(s) + Len(t)
      /\ \A i \in 1..(Len(s) + Len(t)) :
           (s \o t)[i] = IF i <= Len(s) THEN s[i] ELSE t[i - Len(s)]
  BY ConcatProperties
<1>2. Len(s) \in Nat /\ Len(t) \in Nat
  BY LenProperties
<1>3. \A i \in 1..Len(s) : (s \o t)[i] = s[i]
  BY <1>1, <1>2, SMT
<1>4. \A i \in 1..Len(t) : (s \o t)[Len(s) + i] = t[i]
  BY <1>1, <1>2, SMT
<1>5. ASSUME Results(s), Results(t) PROVE Results(s \o t)
  <2>1. \A i \in 1..(Len(s) + Len(t)) : i \in 1..Len(s) \/ i - Len(s) \in 1..Len(t)
    BY <1>2, SMT
  <2> QED BY <1>1, <1>2, <1>5, <2>1, SMT DEF Results
<1>6. ASSUME Results(s \o t) PROVE Results(s) /\ Results(t)
  <2>1. /\ \A i \in 1..Len(s) : i \in 1..Len(s \o t)
        /\ \A i \in 1..Len(t) : Len(s) + i \in 1..Len(s \o t)
    BY <1>1, <1>2, SMT
  <2> QED BY <1>3, <1>4, <1>6, <2>1 DEF Results
<1> QED BY <1>1, <1>2, <1>3, <1>5, <1>6

LEMMA CellsAssociate ==
  ASSUME NEW s \in Seq(PduCell), NEW t \in Seq(PduCell), NEW u \in Seq(PduCell)
  PROVE  (s \o t) \o u = s \o (t \o u)
<1> QED BY ConcatAssociative

\* What is read moves from one end of the stream to the other.
LEMMA ReadFacts ==
  ASSUME NEW b \in Seq(PduCell), NEW s \in Seq(PduCell), NEW n \in 1..Len(s)
  PROVE  /\ b \o SubSeq(s, 1, n) \in Seq(PduCell) /\ SubSeq(s, n + 1, Len(s)) \in Seq(PduCell)
         /\ (b \o SubSeq(s, 1, n)) \o SubSeq(s, n + 1, Len(s)) = b \o s
<1> DEFINE x == SubSeq(s, 1, n)
           y == SubSeq(s, n + 1, Len(s))
           l == Len(s)
<1>1. l \in Nat /\ n \in 1..l
  BY LenProperties
<1>2. \A i \in 1..l : s[i] \in PduCell
  BY ElementOfSeq
<1>3. /\ 1 \in Int /\ n \in Int /\ n + 1 \in Int /\ l \in Int
      /\ (\A i \in 1..n : s[i] \in PduCell) /\ (\A i \in (n + 1)..l : s[i] \in PduCell)
  <2> HIDE DEF l
  <2> QED BY <1>1, <1>2, SMT
<1>4. /\ x \in Seq(PduCell) /\ Len(x) = IF 1 <= n THEN n - 1 + 1 ELSE 0
      /\ \A i \in 1..(n - 1 + 1) : x[i] = s[1 + i - 1]
  BY <1>3, SubSeqProperties
<1>5. /\ y \in Seq(PduCell) /\ Len(y) = IF n + 1 <= l THEN l - (n + 1) + 1 ELSE 0
      /\ \A i \in 1..(l - (n + 1) + 1) : y[i] = s[(n + 1) + i - 1]
  BY <1>3, SubSeqProperties
<1> HIDE DEF x, y, l
<1>6. Len(x) = n /\ Len(y) = l - n
  BY <1>1, <1>4, <1>5, SMT
<1>7. /\ x \o y \in Seq(PduCell) /\ Len(x \o y) = Len(x) + Len(y)
      /\ \A i \in 1..(Len(x) + Len(y)) : (x \o y)[i] = IF i <= Len(x) THEN x[i] ELSE y[i - Len(x)]
  BY <1>4, <1>5, ConcatProperties
<1>8. Len(x \o y) = l
  BY <1>1, <1>6, <1>7, SMT
<1>9. ASSUME NEW i \in 1..l PROVE (x \o y)[i] = s[i]
  <2>0. i \in 1..(Len(x) + Len(y))
    BY <1>1, <1>6, SMT
  <2>1. CASE i <= n
    <3>1. i \in 1..(n - 1 + 1) /\ 1 + i - 1 = i /\ i <= Len(x)
      BY <1>1, <1>6, <2>1, SMT
    <3> QED BY <1>4, <1>7, <2>0, <3>1
  <2>2. CASE ~(i <= n)
    <3>1. i - n \in 1..(l - (n + 1) + 1) /\ (n + 1) + (i - n) - 1 = i /\ ~(i <= Len(x))
          /\ i - Len(x) = i - n
      BY <1>1, <1>6, <2>2, SMT
    <3>2. y[i - n] = s[i]
      BY <1>5, <3>1
    <3> QED BY <1>7, <2>0, <3>1, <3>2
  <2> QED BY <2>1, <2>2
<1>10. x \o y = s
  BY <1>7, <1>8, <1>9, SeqEqual DEF l
<1>11. (b \o x) \o y = b \o (x \o y)
  <2>1. b \in Seq(PduCell) /\ x \in Seq(PduCell) /\ y \in Seq(PduCell)
    BY <1>4, <1>5
  <2> QED BY <2>1, CellsAssociate
<1>12. b \o x \in Seq(PduCell)
  BY <1>4, ConcatProperties
<1> QED BY <1>4, <1>5, <1>10, <1>11, <1>12 DEF x, y, l

LEMMA RestFacts ==
  ASSUME buff \in Seq(PduCell)
  PROVE  /\ Rest \in Seq(PduCell) /\ (Results(buff) => Results(Rest))
         /\ Len(buff) = 2 => Rest = <<>>
<1> DEFINE l == Len(buff)
<1>1. l \in Nat /\ \A i \in 1..l : buff[i] \in PduCell
  BY LenProperties, ElementOfSeq
<1>2. 3 \in Int /\ l \in Int /\ \A i \in 3..l : buff[i] \in PduCell
  <2> HIDE DEF l
  <2> QED BY <1>1, SMT
<1>3. /\ Rest \in Seq(PduCell) /\ Len(Rest) = IF 3 <= l THEN l - 3 + 1 ELSE 0
      /\ \A i \in 1..(l - 3 + 1) : Rest[i] = buff[3 + i - 1]
  BY <1>2, SubSeqProperties DEF Rest
<1>4. ASSUME Results(buff), NEW i \in 1..Len(Rest) PROVE Rest[i].pdu.kind = "result"
  <2>1. \A j \in 1..l : buff[j].pdu.kind = "result"
    BY <1>4 DEF Results
  <2> HIDE DEF l
  <2>2. i \in 1..(l - 3 + 1) /\ 3 + i - 1 \in 1..l
    BY <1>1, <1>3, SMT
  <2> QED BY <1>3, <2>1, <2>2
<1>5. l = 2 => Rest = <<>>
  <2> HIDE DEF l
  <2>1. l = 2 => Len(Rest) = 0
    BY <1>3, SMT
  <2> QED BY <1>3, <2>1, EmptySeq
<1> QED BY <1>3, <1>4, <1>5 DEF Results

-----------------------------------------------------------------------------
(* The invariant.                                                           *)

Waits == te = "wait" => pending \in Requests /\ pending.id + 1 = nextId

\* Nothing of the adapter is on its way before the first map request was handled.
Unmapped ==
  era = 0 =>
    /\ ~hMapped /\ held = {}
    /\ Results(buff) /\ Results(north)
    /\ \A i \in 1..Len(hq) : hq[i].kind # "enqueue"

Quiet == south = <<>> /\ hq = <<>> /\ buff = <<>> /\ north = <<>>

\* The request is on its way, or what a partial read left of it.
Coming ==
  /\ buff = <<>> /\ north = <<>>
  /\ \/ south = <<pending>> /\ hq = <<>>
     \/ south = <<>> /\ (hq = <<pending>> \/ hq = <<Undecodable>>)

\* The result is the first that the port will read.
Answered ==
  Len(buff \o north) >= 2 /\ (buff \o north)[1].pdu = Answer(pending, TRUE)

\* The port has made its first request.
Registering ==
  /\ pending.kind = "register"
  /\ \/ Coming /\ h = "new"
     \/ south = <<>> /\ hq = <<>> /\ Len(buff) + Len(north) = 2
     \/ Quiet

\* ... and its second one, the one with the id of the messages of the adapter.
Mapping ==
  /\ pending.kind \in {"map", "unregister"}
  /\ \/ Coming /\ era = 0
     \/ south = <<>> /\ hq = <<>> /\ era = 0
     \/ Answered

Begun ==
  /\ nextId = 0 => te = "off" /\ era = 0 /\ buff = <<>> /\ south = <<>> /\ hq = <<>>
  /\ nextId = 1 => /\ te # "off"
                   /\ te = "ready" => ~teMapped /\ Quiet /\ era = 0
                   /\ te = "wait" => Registering /\ era = 0
  /\ (nextId = 2 /\ te = "wait") => Mapping

Inv == Types /\ Waits /\ Unmapped /\ Begun /\ ResultIsResult

LEMMA InvInit == Init => Inv
<1> SUFFICES ASSUME Init PROVE Inv
  OBVIOUS
<1>1. Types
  BY SMT DEF Init, Types
<1>2. Waits /\ ResultIsResult
  BY DEF Init, Waits, ResultIsResult
<1>3. Unmapped
  <2>1. Len(buff) = 0 /\ Len(north) = 0 /\ Len(hq) = 0
    BY DEF Init
  <2>2. 1..0 = {}
    BY SMT
  <2> QED BY <2>1, <2>2 DEF Init, Unmapped, Results
<1>4. Begun
  <2>1. nextId = 0 /\ te = "off" /\ era = 0 /\ buff = <<>> /\ south = <<>> /\ hq = <<>>
    BY DEF Init
  <2>2. nextId # 1 /\ nextId # 2
    BY <2>1, SMT
  <2> QED BY <2>1, <2>2 DEF Begun
<1> QED BY <1>1, <1>2, <1>3, <1>4 DEF Inv

-----------------------------------------------------------------------------
(* The requests of the port.                                                *)

LEMMA AskFacts ==
  ASSUME Inv, NEW kind \in {"register", "map", "unmap", "unregister"}, Ask(kind)
  PROVE  /\ te' = "wait" /\ pending' = Request(kind) /\ pending'.kind = kind
         /\ nextId' = nextId + 1 /\ nextId' \in Nat /\ nextId' # 0 /\ Waits' /\ ResultIsResult'
         /\ south' \in Seq(Requests) /\ south' = Append(south, pending')
         /\ south = <<>> => south' = <<pending'>>
<1>1. nextId \in Nat /\ south \in Seq(Requests)
  BY DEF Inv, Types
<1>2. Request(kind) \in Requests /\ Request(kind).kind = kind /\ Request(kind).id = nextId
  BY <1>1 DEF Request, Requests
<1>3. /\ te' = "wait" /\ pending' = Request(kind) /\ nextId' = nextId + 1
      /\ south' = Append(south, Request(kind))
  BY DEF Ask
<1>4. nextId' \in Nat /\ nextId' # 0
  BY <1>1, <1>3, SMT
<1>5. Waits' /\ ResultIsResult'
  BY <1>2, <1>3 DEF Waits, ResultIsResult
<1>6. south' \in Seq(Requests)
  BY <1>1, <1>2, <1>3, AppendProperties
<1>7. south = <<>> => south' = <<pending'>>
  BY <1>3
<1> QED BY <1>2, <1>3, <1>4, <1>5, <1>6, <1>7

LEMMA StartStep == Inv /\ Start => Inv'
<1> SUFFICES ASSUME Inv, Start PROVE Inv'
  OBVIOUS
<1>1. /\ te = "off" /\ Ask("register") /\ h' = "new" /\ hq' = <<>> /\ north' = <<>>
      /\ hMapped' = FALSE /\ held' = {} /\ UNCHANGED <<teMapped, buff, era, looked, puts>>
  BY DEF Start
<1>2. Types /\ Unmapped /\ Begun
  BY DEF Inv
<1>3. /\ te' = "wait" /\ pending'.kind = "register" /\ nextId' = nextId + 1 /\ nextId' \in Nat
      /\ nextId' # 0 /\ Waits' /\ ResultIsResult' /\ south' \in Seq(Requests)
      /\ south = <<>> => south' = <<pending'>>
  BY <1>1, AskFacts
<1>4. Types'
  <2>1. hq' \in Seq(Queued) /\ north' \in Seq(PduCell)
    BY <1>1
  <2> QED BY <1>1, <1>2, <1>3, <2>1 DEF Types
<1>5. Unmapped'
  <2>1. Len(north') = 0 /\ Len(hq') = 0
    BY <1>1
  <2>2. 1..0 = {}
    BY SMT
  <2> QED BY <1>1, <1>2, <2>1, <2>2 DEF Unmapped, Results
<1>6. Begun'
  <2>1. nextId \in Nat
    BY <1>2 DEF Types
  <2>2. nextId # 1
    BY <1>1, <1>2 DEF Begun
  <2>3. nextId' # 2 /\ (nextId' = 1 => nextId = 0)
    BY <1>3, <2>1, <2>2, SMT
  <2>4. CASE nextId' = 1
    <3>1. era = 0 /\ buff = <<>> /\ south = <<>>
      BY <1>2, <2>3, <2>4 DEF Begun
    <3>2. Coming'
      BY <1>1, <1>3, <3>1 DEF Coming
    <3> QED BY <1>1, <1>3, <2>3, <3>1, <3>2 DEF Begun, Registering
  <2>5. CASE nextId' # 1
    BY <1>3, <2>3, <2>5 DEF Begun
  <2> QED BY <2>4, <2>5
<1> QED BY <1>3, <1>4, <1>5, <1>6 DEF Inv

LEMMA AskStep ==
  ASSUME Inv, NEW kind \in {"map", "unmap", "unregister"}, te = "ready",
         kind = "unmap" <=> teMapped, Ask(kind),
         UNCHANGED <<teMapped, buff, hq, h, hMapped, north, era, held, looked, puts>>
  PROVE  Inv'
<1>1. Types /\ Unmapped /\ Begun
  BY DEF Inv
<1>2. /\ te' = "wait" /\ pending'.kind = kind /\ nextId' = nextId + 1 /\ nextId' \in Nat
      /\ nextId' # 0 /\ Waits' /\ ResultIsResult' /\ south' \in Seq(Requests)
      /\ south = <<>> => south' = <<pending'>>
  BY AskFacts
<1>3. Types'
  BY <1>1, <1>2 DEF Types
<1>4. Unmapped'
  BY <1>1 DEF Unmapped, Results
<1>5. Begun'
  <2>1. nextId \in Nat /\ nextId # 0
    BY <1>1 DEF Types, Begun
  <2>2. nextId' # 1 /\ (nextId' = 2 => nextId = 1)
    BY <1>2, <2>1, SMT
  <2>3. CASE nextId' = 2
    <3>1. era = 0 /\ ~teMapped /\ Quiet
      BY <1>1, <2>2, <2>3 DEF Begun
    <3>2. Coming'
      BY <1>2, <3>1 DEF Coming, Quiet
    <3>3. kind \in {"map", "unregister"}
      BY <3>1
    <3> QED BY <1>2, <2>2, <3>1, <3>2, <3>3 DEF Begun, Mapping
  <2>4. CASE nextId' # 2
    BY <1>2, <2>2, <2>4 DEF Begun
  <2> QED BY <2>3, <2>4
<1> QED BY <1>2, <1>3, <1>4, <1>5 DEF Inv

LEMMA SendStep == Inv /\ Send => Inv'
<1> SUFFICES ASSUME Inv, Send PROVE Inv'
  OBVIOUS
<1>1. /\ te = "ready" /\ teMapped /\ south' = Append(south, Request("send"))
      /\ nextId' = nextId + 1
      /\ UNCHANGED <<te, teMapped, pending, buff, hq, h, hMapped, north, era, held, looked, puts>>
  BY DEF Send, handler, adapter
<1>2. Types /\ Unmapped /\ Begun
  BY DEF Inv
<1>3. nextId \in Nat /\ south \in Seq(Requests)
  BY <1>2 DEF Types
<1>4. Request("send") \in Requests
  BY <1>3 DEF Request, Requests
<1>5. south' \in Seq(Requests)
  BY <1>1, <1>3, <1>4, AppendProperties
<1>6. nextId' \in Nat /\ nextId' # 0 /\ (nextId' = 1 => nextId = 0)
  BY <1>1, <1>3, SMT
<1>7. Types'
  BY <1>1, <1>2, <1>5, <1>6 DEF Types
<1>8. Waits' /\ ResultIsResult'
  BY <1>1 DEF Waits, ResultIsResult
<1>9. Unmapped'
  BY <1>1, <1>2 DEF Unmapped, Results
<1>10. Begun'
  <2>1. nextId # 0
    BY <1>1, <1>2 DEF Begun
  <2> QED BY <1>1, <1>6, <2>1 DEF Begun
<1> QED BY <1>7, <1>8, <1>9, <1>10 DEF Inv

-----------------------------------------------------------------------------
(* What the port receives.                                                  *)

LEMMA ReceiveStep == Inv /\ Receive => Inv'
<1> SUFFICES ASSUME Inv, Receive PROVE Inv'
  OBVIOUS
<1>1. /\ Reads /\ north # <<>>
      /\ UNCHANGED <<te, teMapped, pending, nextId, south, hq, h, hMapped, era, held, looked, puts>>
  BY DEF Receive, adapter
<1>2. PICK n \in 1..Len(north) :
        buff' = buff \o SubSeq(north, 1, n) /\ north' = SubSeq(north, n + 1, Len(north))
  BY DEF Receive
<1>3. Types /\ Waits /\ Unmapped /\ Begun /\ ResultIsResult
  BY DEF Inv
<1>4. buff \in Seq(PduCell) /\ north \in Seq(PduCell)
  BY <1>3 DEF Types
<1>5. buff' \in Seq(PduCell) /\ north' \in Seq(PduCell) /\ buff' \o north' = buff \o north
  BY <1>2, <1>4, ReadFacts
<1>6. Types'
  BY <1>1, <1>3, <1>5 DEF Types
<1>7. Waits' /\ ResultIsResult'
  BY <1>1, <1>3 DEF Waits, ResultIsResult
<1>8. Unmapped'
  <2>1. (Results(buff) /\ Results(north)) => (Results(buff') /\ Results(north'))
    <3>1. (Results(buff) /\ Results(north)) <=> Results(buff \o north)
      BY <1>4, ConcatCells
    <3>2. (Results(buff') /\ Results(north')) <=> Results(buff' \o north')
      BY <1>5, ConcatCells
    <3> QED BY <1>5, <3>1, <3>2
  <2>2. Results(buff)' = Results(buff') /\ Results(north)' = Results(north')
    BY DEF Results
  <2> QED BY <1>1, <1>3, <2>1, <2>2 DEF Unmapped
<1>9. Len(buff') + Len(north') = Len(buff) + Len(north)
  <2>1. Len(buff \o north) = Len(buff) + Len(north)
    BY <1>4, ConcatCells
  <2>2. Len(buff' \o north') = Len(buff') + Len(north')
    BY <1>5, ConcatCells
  <2> QED BY <1>5, <2>1, <2>2
<1>10. Answered => Answered'
  BY <1>1, <1>5 DEF Answered, Answer
<1>11. ~Quiet /\ ~Coming
  BY <1>1 DEF Quiet, Coming
<1>12. Registering => Registering'
  BY <1>1, <1>9, <1>11 DEF Registering
<1>13. Mapping => Mapping'
  BY <1>1, <1>10, <1>11 DEF Mapping
<1>14. Begun'
  <2>1. nextId # 0
    BY <1>1, <1>3 DEF Begun, Reads, Looks
  <2> QED BY <1>1, <1>3, <1>11, <1>12, <1>13, <2>1 DEF Begun
<1> QED BY <1>6, <1>7, <1>8, <1>14 DEF Inv

\* The component ends.
LEMMA ErrorStep ==
  ASSUME Inv, te \in {"wait", "ready"}, te' \in {"lost", "garbled", "failed"},
         buff' \in Seq(PduCell), Results(buff) => Results(buff'),
         UNCHANGED <<nextId, south, hq, h, hMapped, north, era, held, looked, puts>>
  PROVE  Inv'
<1>1. Types /\ Unmapped /\ Begun
  BY DEF Inv
<1>2. nextId # 0 /\ (nextId = 1 => era = 0)
  BY <1>1 DEF Begun
<1>3. Types'
  BY <1>1 DEF Types
<1>4. Waits' /\ ResultIsResult' /\ Begun'
  BY <1>2 DEF Waits, ResultIsResult, Begun
<1>5. Results(buff)' = Results(buff') /\ Results(north)' = Results(north)
  BY DEF Results
<1>6. Unmapped'
  BY <1>1, <1>5 DEF Unmapped
<1> QED BY <1>3, <1>4, <1>6 DEF Inv

LEMMA FirstFacts ==
  ASSUME Inv, Complete
  PROVE  /\ First = buff[1].pdu /\ First \in Pdu /\ buff # <<>>
         /\ buff[1] = (buff \o north)[1]
         /\ Results(buff) => First.kind = "result"
         /\ Len(buff) \in Nat /\ Len(buff) >= 2 /\ Len(north) \in Nat
         /\ buff \in Seq(PduCell) /\ north \in Seq(PduCell)
<1>1. buff \in Seq(PduCell) /\ north \in Seq(PduCell)
  BY DEF Inv, Types
<1>2. Len(buff) \in Nat /\ Len(north) \in Nat /\ (buff = <<>> <=> Len(buff) = 0)
  BY <1>1, LenProperties, EmptySeq
<1>3. Len(buff) >= 2
  BY DEF Complete
<1> DEFINE l == Len(buff)
<1>4. l \in Nat /\ l >= 2
  BY <1>2, <1>3
<1>5. 1 \in 1..l /\ l # 0
  <2> HIDE DEF l
  <2> QED BY <1>4, SMT
<1>6. buff[1] \in PduCell
  BY <1>1, <1>5, ElementOfSeq
<1>7. Head(buff) = buff[1]
  BY <1>1, <1>2, <1>5, HeadTailProperties
<1>8. First = buff[1].pdu /\ First \in Pdu
  BY <1>6, <1>7 DEF First, PduCell
<1>9. (buff \o north)[1] = buff[1]
  BY <1>1, <1>5, ConcatCells
<1>10. Results(buff) => First.kind = "result"
  BY <1>5, <1>8 DEF Results
<1> QED BY <1>1, <1>2, <1>3, <1>5, <1>8, <1>9, <1>10

\* The message that has the id of the request is its result.
LEMMA FirstIsResult ==
  ASSUME Inv, te = "wait", Complete, First.id = pending.id
  PROVE  First.kind = "result"
<1> SUFFICES ASSUME First.kind # "result" PROVE FALSE
  OBVIOUS
<1>1. First.kind = "enqueue" /\ First.id = 1
  BY FirstFacts, PduFacts
<1>2. pending.id = 1 /\ pending.id + 1 = nextId
  BY <1>1 DEF Inv, Waits
<1>3. nextId = 2
  BY <1>2, SMT
<1>4. Mapping
  BY <1>3 DEF Inv, Begun
<1>5. CASE Coming
  BY <1>5, FirstFacts DEF Coming
<1>6. CASE era = 0
  BY <1>6, FirstFacts DEF Inv, Unmapped
<1>7. CASE Answered
  <2>1. First = Answer(pending, TRUE)
    BY <1>7, FirstFacts DEF Answered
  <2> QED BY <2>1 DEF Answer
<1> QED BY <1>4, <1>5, <1>6, <1>7 DEF Mapping

LEMMA WaitTakesStep == Inv /\ WaitTakes => Inv'
<1> SUFFICES ASSUME Inv, WaitTakes PROVE Inv'
  OBVIOUS
<1>1. /\ te = "wait" /\ Complete
      /\ UNCHANGED <<nextId, south, hq, h, hMapped, north, era, held, looked, puts>>
  BY DEF WaitTakes, handler, adapter
<1>2. Types /\ Waits /\ Unmapped /\ Begun
  BY DEF Inv
<1>3. /\ First.id # pending.id =>
           buff' = Rest /\ te' = te /\ teMapped' = teMapped /\ pending' = pending
      /\ First.id = pending.id => Returns(First.ok)
  BY <1>1, FirstIsResult DEF WaitTakes
<1>4. /\ Rest \in Seq(PduCell) /\ (Results(buff) => Results(Rest))
      /\ Len(buff) = 2 => Rest = <<>>
  BY <1>2, RestFacts DEF Types
<1>5. nextId # 0 /\ (nextId = 1 => era = 0)
  BY <1>1, <1>2 DEF Begun
<1>6. Results(buff)' = Results(buff') /\ Results(north)' = Results(north)
  BY <1>1 DEF Results
\* While the port registers there is nothing but the two cells of one answer.
<1>7. ASSUME nextId = 1
      PROVE  pending.kind = "register" /\ south = <<>> /\ hq = <<>> /\ Rest = <<>> /\ north = <<>>
  <2>1. Registering
    BY <1>1, <1>2, <1>7 DEF Begun
  <2>2. ~Coming /\ ~Quiet
    BY <1>1, FirstFacts DEF Coming, Quiet
  <2>3. south = <<>> /\ hq = <<>> /\ Len(buff) + Len(north) = 2 /\ pending.kind = "register"
    BY <2>1, <2>2 DEF Registering
  <2>4. Len(buff) \in Nat /\ Len(buff) >= 2 /\ Len(north) \in Nat /\ north \in Seq(PduCell)
    BY <1>1, FirstFacts
  <2>5. Len(buff) = 2 /\ Len(north) = 0
    <3> DEFINE b == Len(buff)
               n == Len(north)
    <3>1. b \in Nat /\ b >= 2 /\ n \in Nat /\ b + n = 2
      BY <2>3, <2>4
    <3> HIDE DEF b, n
    <3>2. b = 2 /\ n = 0
      BY <3>1, SMT
    <3> QED BY <3>2 DEF b, n
  <2>6. north = <<>>
    BY <2>4, <2>5, EmptySeq
  <2> QED BY <1>4, <2>3, <2>5, <2>6
<1>8. CASE First.id # pending.id
  <2>1. buff' = Rest /\ te' = te /\ teMapped' = teMapped /\ pending' = pending
    BY <1>3, <1>8
  <2>2. Types' /\ Waits' /\ ResultIsResult'
    BY <1>1, <1>2, <1>4, <2>1 DEF Types, Waits, ResultIsResult
  <2>3. Unmapped'
    BY <1>1, <1>2, <1>4, <1>6, <2>1 DEF Unmapped
  <2>4. (nextId = 1 => Registering')
    BY <1>1, <1>7, <2>1 DEF Registering, Quiet
  <2>5. (nextId = 2 => Mapping')
    <3>1. SUFFICES ASSUME nextId = 2 PROVE Mapping'
      OBVIOUS
    <3>2. Mapping
      BY <1>1, <1>2, <3>1 DEF Begun
    <3>3. ~Coming
      BY <1>1, FirstFacts DEF Coming
    <3>4. ~Answered
      <4>1. SUFFICES ASSUME Answered PROVE FALSE
        OBVIOUS
      <4>2. First = Answer(pending, TRUE)
        BY <1>1, <4>1, FirstFacts DEF Answered
      <4> QED BY <1>8, <4>2 DEF Answer
    <3>5. south = <<>> /\ hq = <<>> /\ era = 0 /\ pending.kind \in {"map", "unregister"}
      BY <3>2, <3>3, <3>4 DEF Mapping
    <3> QED BY <1>1, <2>1, <3>5 DEF Mapping
  <2>6. Begun'
    BY <1>1, <1>5, <2>1, <2>4, <2>5 DEF Begun
  <2> QED BY <2>2, <2>3, <2>6 DEF Inv
<1>9. CASE First.id = pending.id
  <2>1. /\ te' \in {"failed", "off", "ready"} /\ (buff' = <<>> \/ buff' = Rest)
        /\ pending.kind = "register" => te' # "off" /\ ~teMapped'
    BY <1>3, <1>9 DEF Returns
  <2>2. buff' \in Seq(PduCell) /\ (Results(buff) => Results(buff'))
    <3>1. <<>> \in Seq(PduCell) /\ Results(<<>>)
      <4>1. Len(<<>>) = 0 /\ <<>> \in Seq(PduCell)
        OBVIOUS
      <4>2. 1..0 = {}
        BY SMT
      <4> QED BY <4>1, <4>2 DEF Results
    <3> QED BY <1>4, <2>1, <3>1
  <2>3. Types' /\ Waits' /\ ResultIsResult'
    BY <1>1, <1>2, <2>1, <2>2 DEF Types, Waits, ResultIsResult
  <2>4. Unmapped'
    BY <1>1, <1>2, <1>6, <2>2 DEF Unmapped
  <2>5. nextId = 1 => ~teMapped' /\ te' # "off" /\ Quiet'
    BY <1>1, <1>7, <2>1 DEF Quiet
  <2>6. Begun'
    BY <1>1, <1>5, <2>1, <2>5 DEF Begun
  <2> QED BY <2>3, <2>4, <2>6 DEF Inv
<1> QED BY <1>8, <1>9

LEMMA TakeStep == Inv /\ Take => Inv'
<1> SUFFICES ASSUME Inv, Take PROVE Inv'
  OBVIOUS
<1>1. /\ te = "ready" /\ Complete /\ buff' = Rest /\ te' \in {te, "failed"}
      /\ UNCHANGED <<teMapped, pending, nextId, south, hq, h, hMapped, north, era, held,
                     looked, puts>>
  BY DEF Take, handler, adapter
<1>2. Types /\ Waits /\ Unmapped /\ Begun
  BY DEF Inv
<1>3. Rest \in Seq(PduCell) /\ (Results(buff) => Results(Rest))
  BY <1>2, RestFacts DEF Types
<1>4. Types' /\ Waits' /\ ResultIsResult'
  BY <1>1, <1>2, <1>3 DEF Types, Waits, ResultIsResult
<1>5. Results(buff)' = Results(buff') /\ Results(north)' = Results(north)
  BY <1>1 DEF Results
<1>6. Unmapped'
  BY <1>1, <1>2, <1>3, <1>5 DEF Unmapped
<1>7. buff # <<>> /\ nextId # 0
  BY <1>1, <1>2, FirstFacts DEF Begun
<1>8. nextId # 1
  BY <1>1, <1>2, <1>7 DEF Begun, Quiet
<1>9. Begun'
  BY <1>1, <1>7, <1>8 DEF Begun
<1> QED BY <1>4, <1>6, <1>9 DEF Inv

-----------------------------------------------------------------------------
(* The mapper and the adapter.                                              *)

LEMMA QueueFacts ==
  ASSUME NEW q \in Seq(Queued), NEW m \in Queued
  PROVE  /\ Append(q, m) \in Seq(Queued)
         /\ ((\A i \in 1..Len(q) : q[i].kind # "enqueue") /\ m.kind # "enqueue")
              => \A i \in 1..Len(Append(q, m)) : Append(q, m)[i].kind # "enqueue"
<1>1. /\ Append(q, m) \in Seq(Queued) /\ Len(Append(q, m)) = Len(q) + 1
      /\ \A i \in 1..Len(q) : Append(q, m)[i] = q[i]
      /\ Append(q, m)[Len(q) + 1] = m /\ Len(q) \in Nat
  BY AppendProperties, LenProperties
<1>2. \A i \in 1..(Len(q) + 1) : i \in 1..Len(q) \/ i = Len(q) + 1
  BY <1>1, SMT
<1> QED BY <1>1, <1>2

LEMMA TailFacts ==
  ASSUME NEW q \in Seq(Queued), q # <<>>
  PROVE  /\ Tail(q) \in Seq(Queued) /\ Head(q) \in Queued /\ Head(q) = q[1] /\ 1 \in 1..Len(q)
         /\ (\A i \in 1..Len(q) : q[i].kind # "enqueue")
              => \A i \in 1..Len(Tail(q)) : Tail(q)[i].kind # "enqueue"
<1>1. /\ Head(q) \in Queued /\ Head(q) = q[1] /\ Tail(q) \in Seq(Queued)
      /\ Len(Tail(q)) = Len(q) - 1
      /\ \A i \in 1..Len(Tail(q)) : Tail(q)[i] = q[i + 1]
  BY HeadTailProperties
<1>2. Len(q) \in Nat /\ Len(q) # 0
  BY LenProperties, EmptySeq
<1>3. 1 \in 1..Len(q) /\ \A i \in 1..(Len(q) - 1) : i + 1 \in 1..Len(q)
  BY <1>2, SMT
<1> QED BY <1>1, <1>3

LEMMA ReaderStep == Inv /\ ReaderReads => Inv'
<1> SUFFICES ASSUME Inv, ReaderReads PROVE Inv'
  OBVIOUS
<1>1. /\ south # <<>> /\ south' = Tail(south)
      /\ UNCHANGED <<te, teMapped, pending, nextId, buff, h, hMapped, north, era, held,
                     looked, puts>>
  BY DEF ReaderReads, titan, adapter
<1>2. PICK m \in {Head(south), Undecodable} : hq' = Append(hq, m)
  BY DEF ReaderReads
<1>3. Types /\ Waits /\ Unmapped /\ Begun /\ ResultIsResult
  BY DEF Inv
<1>4. Head(south) \in Requests /\ Tail(south) \in Seq(Requests)
  BY <1>1, <1>3, HeadTailProperties DEF Types
<1>5. m \in Queued /\ m.kind # "enqueue"
  BY <1>4 DEF Queued, Requests, Undecodable
<1>6. hq' \in Seq(Queued)
      /\ ((\A i \in 1..Len(hq) : hq[i].kind # "enqueue")
            => \A i \in 1..Len(hq') : hq'[i].kind # "enqueue")
  BY <1>2, <1>3, <1>5, QueueFacts DEF Types
<1>7. Types' /\ Waits' /\ ResultIsResult'
  BY <1>1, <1>3, <1>4, <1>6 DEF Types, Waits, ResultIsResult
<1>8. Unmapped'
  BY <1>1, <1>3, <1>6 DEF Unmapped, Results
<1>9. Coming => Coming'
  <2>1. SUFFICES ASSUME Coming PROVE Coming'
    OBVIOUS
  <2>2. south = <<pending>> /\ hq = <<>> /\ buff = <<>> /\ north = <<>>
    BY <1>1, <2>1 DEF Coming
  <2>3. Head(<<pending>>) = pending /\ Tail(<<pending>>) = <<>> /\ Append(<<>>, m) = <<m>>
    OBVIOUS
  <2>4. south' = <<>> /\ (hq' = <<pending>> \/ hq' = <<Undecodable>>)
    BY <1>1, <1>2, <2>2, <2>3
  <2> QED BY <1>1, <2>2, <2>4 DEF Coming
<1>10. ~Quiet
  BY <1>1 DEF Quiet
<1>11. Registering => Registering'
  BY <1>1, <1>9, <1>10 DEF Registering
<1>12. Mapping => Mapping'
  BY <1>1, <1>9 DEF Mapping, Answered, Answer
<1>13. Begun'
  <2>1. nextId # 0
    BY <1>1, <1>3 DEF Begun
  <2> QED BY <1>1, <1>3, <1>10, <1>11, <1>12, <2>1 DEF Begun
<1> QED BY <1>7, <1>8, <1>13 DEF Inv

\* What the handler writes is behind the answer.
LEMMA AnsweredKept ==
  ASSUME buff \in Seq(PduCell), north \in Seq(PduCell), NEW t \in Seq(PduCell),
         north' = north \o t, buff' = buff, pending' = pending, Answered
  PROVE  Answered'
<1> DEFINE s == buff \o north
<1>1. s \in Seq(PduCell) /\ Len(s) >= 2 /\ s[1].pdu = Answer(pending, TRUE)
  BY ConcatCells DEF Answered
<1>2. buff' \o north' = s \o t
  <2>1. (buff \o north) \o t = buff \o (north \o t)
    BY CellsAssociate
  <2> QED BY <2>1
<1> HIDE DEF s
<1>3. /\ Len(s) \in Nat /\ Len(t) \in Nat /\ Len(s \o t) = Len(s) + Len(t)
      /\ \A i \in 1..Len(s) : (s \o t)[i] = s[i]
  BY <1>1, ConcatCells
<1>4. 1 \in 1..Len(s) /\ Len(s) + Len(t) >= 2
  BY <1>1, <1>3, SMT
<1>5. Len(buff' \o north') >= 2 /\ (buff' \o north')[1].pdu = Answer(pending', TRUE)
  BY <1>1, <1>2, <1>3, <1>4 DEF Answer
<1> QED BY <1>5 DEF Answered, Answer

\* While the first two requests are on their way the handler has nothing else to handle, unless
\* the second was answered.
LEMMA HandlesFacts ==
  ASSUME Inv, NEW kind, Handles(kind)
  PROVE  /\ hq # <<>> /\ Head(hq) \in Queued /\ Head(hq).kind = kind
         /\ hq' = Tail(hq) /\ hq' \in Seq(Queued) /\ nextId # 0
         /\ UNCHANGED <<te, teMapped, pending, nextId, buff, south, held, looked, puts>>
         /\ era = 0 => kind # "enqueue" /\ \A i \in 1..Len(hq') : hq'[i].kind # "enqueue"
         /\ Coming => /\ south' = <<>> /\ hq' = <<>> /\ north = <<>>
                      /\ kind = "undecodable" \/ (kind = pending.kind /\ Head(hq) = pending)
         /\ (nextId = 1 /\ te = "wait") => Coming /\ h = "new" /\ pending.kind = "register"
         /\ ~(nextId = 1 /\ te = "ready")
<1>1. /\ hq # <<>> /\ Head(hq).kind = kind /\ hq' = Tail(hq)
      /\ UNCHANGED <<te, teMapped, pending, nextId, buff, south, held, looked, puts>>
  BY DEF Handles, titan, adapter
<1>2. Types /\ Unmapped /\ Begun
  BY DEF Inv
<1>3. /\ Head(hq) \in Queued /\ Head(hq) = hq[1] /\ 1 \in 1..Len(hq) /\ hq' \in Seq(Queued)
      /\ (\A i \in 1..Len(hq) : hq[i].kind # "enqueue")
           => \A i \in 1..Len(hq') : hq'[i].kind # "enqueue"
  BY <1>1, <1>2, TailFacts DEF Types
<1>4. era = 0 => kind # "enqueue" /\ \A i \in 1..Len(hq') : hq'[i].kind # "enqueue"
  BY <1>1, <1>2, <1>3 DEF Unmapped
<1>5. ASSUME Coming
      PROVE  /\ south' = <<>> /\ hq' = <<>> /\ north = <<>>
             /\ kind = "undecodable" \/ (kind = pending.kind /\ Head(hq) = pending)
  <2>1. south = <<>> /\ (hq = <<pending>> \/ hq = <<Undecodable>>) /\ north = <<>>
    BY <1>1, <1>5 DEF Coming
  <2>2. /\ Head(<<pending>>) = pending /\ Tail(<<pending>>) = <<>>
        /\ Head(<<Undecodable>>) = Undecodable /\ Tail(<<Undecodable>>) = <<>>
    OBVIOUS
  <2>3. Undecodable.kind = "undecodable"
    BY DEF Undecodable
  <2> QED BY <1>1, <2>1, <2>2, <2>3
<1>6. ~Quiet
  BY <1>1 DEF Quiet
<1>7. nextId # 0
  <2>1. SUFFICES ASSUME nextId = 0 PROVE FALSE
    OBVIOUS
  <2> QED BY <1>2, <2>1, <1>1 DEF Begun
<1>8. (nextId = 1 /\ te = "wait") => Coming /\ h = "new" /\ pending.kind = "register"
  BY <1>1, <1>2, <1>6 DEF Begun, Registering
<1>9. ~(nextId = 1 /\ te = "ready")
  BY <1>2, <1>6 DEF Begun
<1> QED BY <1>1, <1>3, <1>4, <1>5, <1>7, <1>8, <1>9

\* The handler handles a request and answers it, or dies without an answer.
LEMMA RequestStep ==
  ASSUME Inv, NEW kind \in {"register", "map", "unmap", "unregister", "send", "undecodable"},
         Handles(kind), NEW ok \in BOOLEAN,
         north' = north \o Cells(Answer(Head(hq), ok)) \/ (kind = "undecodable" /\ north' = north),
         kind = "map" => ok = TRUE /\ era' = era + 1,
         kind # "map" => era' = era /\ (hMapped' => hMapped),
         h = "new" /\ kind = "undecodable" => north' = north,
         held' = held
  PROVE  Inv'
<1>1. /\ hq # <<>> /\ Head(hq) \in Queued /\ Head(hq).kind = kind
      /\ hq' = Tail(hq) /\ hq' \in Seq(Queued) /\ nextId # 0
      /\ UNCHANGED <<te, teMapped, pending, nextId, buff, south, held, looked, puts>>
      /\ era = 0 => \A i \in 1..Len(hq') : hq'[i].kind # "enqueue"
      /\ Coming => /\ south' = <<>> /\ hq' = <<>> /\ north = <<>>
                   /\ kind = "undecodable" \/ (kind = pending.kind /\ Head(hq) = pending)
      /\ (nextId = 1 /\ te = "wait") => Coming /\ h = "new" /\ pending.kind = "register"
      /\ ~(nextId = 1 /\ te = "ready")
  BY HandlesFacts
<1>1a. Coming => south' = <<>> /\ hq' = <<>>
  BY <1>1
<1>2. Types /\ Waits /\ Unmapped /\ Begun /\ ResultIsResult
  BY DEF Inv
<1>3. buff \in Seq(PduCell) /\ north \in Seq(PduCell) /\ era \in Nat
  BY <1>2 DEF Types
<1> DEFINE a == Answer(Head(hq), ok)
<1>4. Head(hq).id \in Nat
  <2>1. Head(hq) \in Requests \/ Head(hq) = Undecodable \/ Head(hq).kind = "enqueue"
    BY <1>1 DEF Queued
  <2> QED BY <1>1, <2>1 DEF Requests, Undecodable
<1>5. a \in Pdu /\ a.kind = "result"
  BY <1>4, AnswerFacts
<1>6. /\ Cells(a) \in Seq(PduCell) /\ Len(Cells(a)) = 2 /\ Cells(a)[1].pdu = a
      /\ Results(Cells(a))
  BY <1>5, CellsFacts
<1>7. PICK t \in {Cells(a), <<>>} : north' = north \o t
  <2>1. north \o <<>> = north
    BY <1>3, ConcatEmptySeq
  <2>2. \E t \in {Cells(a), <<>>} : north' = north \o t
    BY <2>1
  <2> QED BY <2>2
<1> HIDE DEF a
<1>8. t \in Seq(PduCell) /\ Results(t)
  <2>1. <<>> \in Seq(PduCell) /\ Results(<<>>)
    <3>1. Len(<<>>) = 0 /\ <<>> \in Seq(PduCell)
      OBVIOUS
    <3>2. 1..0 = {}
      BY SMT
    <3> QED BY <3>1, <3>2 DEF Results
  <2> QED BY <1>6, <2>1
<1>9. north' \in Seq(PduCell) /\ (Results(north) => Results(north'))
  BY <1>3, <1>7, <1>8, ConcatCells
<1>10. era' \in Nat /\ (era' = 0 => era = 0 /\ kind # "map")
  <2>1. CASE kind = "map"
    <3>1. era' = era + 1
      BY <2>1
    <3>2. era' \in Nat /\ era' # 0
      BY <1>3, <3>1, SMT
    <3> QED BY <3>2
  <2>2. CASE kind # "map"
    <3>1. era' = era
      BY <2>2
    <3> QED BY <1>3, <2>2, <3>1
  <2> QED BY <2>1, <2>2
<1>11. Types'
  BY <1>1, <1>2, <1>9, <1>10 DEF Types
<1>12. Waits' /\ ResultIsResult'
  BY <1>1, <1>2 DEF Waits, ResultIsResult
<1>13. Unmapped'
  <2>1. Results(buff)' = Results(buff) /\ Results(north)' = Results(north')
    BY <1>1 DEF Results
  <2>2. SUFFICES ASSUME era' = 0
                 PROVE  /\ ~hMapped' /\ held' = {} /\ Results(buff) /\ Results(north')
                        /\ \A i \in 1..Len(hq') : hq'[i].kind # "enqueue"
    BY <2>1 DEF Unmapped
  <2>3. era = 0 /\ kind # "map"
    BY <1>10, <2>2
  <2>4. ~hMapped /\ held = {} /\ Results(buff) /\ Results(north)
    BY <1>2, <2>3 DEF Unmapped
  <2>5. ~hMapped' /\ held' = {}
    BY <2>3, <2>4
  <2>6. \A i \in 1..Len(hq') : hq'[i].kind # "enqueue"
    BY <1>1, <2>3
  <2> QED BY <1>9, <2>4, <2>5, <2>6
<1>14. ASSUME nextId = 1, te = "wait" PROVE Registering' /\ era' = era
  <2>1. Coming /\ h = "new" /\ pending.kind = "register"
    BY <1>1, <1>14
  <2>2. south' = <<>> /\ hq' = <<>> /\ north = <<>> /\ buff = <<>>
        /\ (kind = "undecodable" \/ kind = "register")
    BY <1>1, <2>1 DEF Coming
  <2>3. CASE kind = "undecodable"
    BY <1>1, <2>1, <2>2, <2>3 DEF Registering, Quiet
  <2>4. CASE kind = "register"
    <3>1. north' = <<>> \o Cells(a)
      BY <2>2, <2>4 DEF a
    <3>2. north' = Cells(a)
      BY <1>6, <3>1, ConcatEmptySeq
    <3>3. Len(buff') = 0 /\ Len(north') = 2
      BY <1>1, <1>6, <2>2, <3>2
    <3>4. Len(buff') + Len(north') = 2
      BY <3>3, SMT
    <3> QED BY <1>1, <2>1, <2>2, <2>4, <3>4 DEF Registering
  <2> QED BY <2>2, <2>3, <2>4
<1>15. ASSUME Coming, kind = "map" PROVE Answered'
  <2>1. Head(hq) = pending /\ north = <<>> /\ buff = <<>>
    BY <1>1, <1>15 DEF Coming
  <2>2. north' = <<>> \o Cells(a) /\ a = Answer(pending, TRUE)
    BY <1>15, <2>1 DEF a
  <2>3. north' = Cells(a)
    BY <1>6, <2>2, ConcatEmptySeq
  <2>4. buff' \o north' = Cells(a)
    <3>1. <<>> \o Cells(a) = Cells(a)
      BY <1>6, ConcatEmptySeq
    <3> QED BY <1>1, <2>1, <2>3, <3>1
  <2>5. Len(buff' \o north') >= 2
    BY <1>6, <2>4, SMT
  <2>6. (buff' \o north')[1].pdu = Answer(pending', TRUE)
    BY <1>1, <1>6, <2>2, <2>4 DEF Answer
  <2> QED BY <2>5, <2>6 DEF Answered, Answer
<1>16. Answered => Answered'
  BY <1>1, <1>3, <1>7, <1>8, AnsweredKept
<1>17. ASSUME nextId = 2, te = "wait" PROVE Mapping'
  <2>1. Mapping
    BY <1>2, <1>17 DEF Begun
  <2>2. pending'.kind \in {"map", "unregister"}
    BY <1>1, <2>1 DEF Mapping
  <2>3. CASE Coming /\ era = 0
    <3>1. CASE kind = "map"
      BY <1>15, <2>2, <2>3, <3>1 DEF Mapping
    <3>2. CASE kind # "map"
      <4>1. south' = <<>> /\ hq' = <<>>
        BY <1>1a, <2>3, Zenon
      <4>2. era' = 0
        BY <2>3, <3>2
      <4> QED BY <2>2, <4>1, <4>2 DEF Mapping
    <3> QED BY <3>1, <3>2
  <2>4. CASE Answered
    BY <1>16, <2>2, <2>4 DEF Mapping
  <2> QED BY <1>1, <2>1, <2>3, <2>4 DEF Mapping
<1>18. Begun'
  <2>1. nextId = 1 => te # "off" /\ te # "ready" /\ (te = "wait" => era = 0)
    BY <1>1, <1>2 DEF Begun
  <2> QED BY <1>1, <1>14, <1>17, <2>1 DEF Begun
<1> QED BY <1>11, <1>12, <1>13, <1>18 DEF Inv

LEMMA SendStepOfHandler == Inv /\ HandleSend => Inv'
<1> SUFFICES ASSUME Inv, HandleSend PROVE Inv'
  OBVIOUS
<1>1. Handles("send") /\ hMapped' = hMapped /\ era' = era /\ held' = held
  BY DEF HandleSend, Handles, adapter
<1>2. PICK ok \in BOOLEAN : north' = north \o Cells(Answer(Head(hq), ok))
  BY DEF HandleSend, Replies
<1> QED BY <1>1, <1>2, RequestStep

LEMMA RegisterStep == Inv /\ HandleRegister => Inv'
<1> SUFFICES ASSUME Inv, HandleRegister PROVE Inv'
  OBVIOUS
<1>1. /\ Handles("register") /\ hMapped' = hMapped /\ era' = era /\ held' = held
      /\ north' = north \o Cells(Answer(Head(hq), TRUE))
  BY DEF HandleRegister, Handles, Replies, adapter
<1> QED BY <1>1, RequestStep

LEMMA MapStep == Inv /\ HandleMap => Inv'
<1> SUFFICES ASSUME Inv, HandleMap PROVE Inv'
  OBVIOUS
<1>1. /\ Handles("map") /\ era' = era + 1 /\ held' = held
      /\ north' = north \o Cells(Answer(Head(hq), TRUE))
  BY DEF HandleMap, Handles, Replies, adapter
<1> QED BY <1>1, RequestStep

LEMMA UnmapStep == Inv /\ (HandleUnmap \/ HandleUnregister) => Inv'
<1> SUFFICES ASSUME Inv, HandleUnmap \/ HandleUnregister PROVE Inv'
  OBVIOUS
<1>1. PICK kind \in {"unmap", "unregister"} : Handles(kind)
  BY DEF HandleUnmap, HandleUnregister
<1>2. /\ ~hMapped' /\ era' = era /\ held' = held
      /\ north' = north \o Cells(Answer(Head(hq), TRUE))
  BY DEF HandleUnmap, HandleUnregister, Handles, Replies, adapter
<1> QED BY <1>1, <1>2, RequestStep

LEMMA UndecodableStep == Inv /\ HandleUndecodable => Inv'
<1> SUFFICES ASSUME Inv, HandleUndecodable PROVE Inv'
  OBVIOUS
<1>1. /\ Handles("undecodable") /\ hMapped' = hMapped /\ era' = era /\ held' = held
      /\ IF h = "registered" THEN north' = north \o Cells(Answer(Head(hq), FALSE))
                             ELSE north' = north
  BY DEF HandleUndecodable, Handles, Replies, adapter
<1>2. h = "new" => north' = north
  BY <1>1
<1> QED BY <1>1, <1>2, RequestStep

\* A message of the adapter was put in the queue of a port that is or was mapped.
LEMMA IndicationStep == Inv /\ HandleIndication => Inv'
<1> SUFFICES ASSUME Inv, HandleIndication PROVE Inv'
  OBVIOUS
<1>1. /\ Handles("enqueue") /\ hMapped' = hMapped /\ era' = era
      /\ north' = north \o Cells(Enqueued(Head(hq).msg))
  BY DEF HandleIndication
<1>2. Types /\ Waits /\ Unmapped /\ Begun /\ ResultIsResult
  BY DEF Inv
<1>3. /\ Head(hq) \in Queued /\ Head(hq).kind = "enqueue" /\ hq' \in Seq(Queued)
      /\ nextId # 0
      /\ UNCHANGED <<te, teMapped, pending, nextId, buff, south, held, looked, puts>>
      /\ era # 0
      /\ Coming => pending.kind = "enqueue"
      /\ (nextId = 1 /\ te = "wait") => Coming /\ pending.kind = "register"
      /\ ~(nextId = 1 /\ te = "ready")
  <2> DEFINE kind == "enqueue"
  <2>1. Handles(kind) /\ kind # "undecodable"
    BY <1>1
  <2> HIDE DEF kind
  <2>2. /\ Head(hq) \in Queued /\ Head(hq).kind = kind /\ hq' \in Seq(Queued)
        /\ nextId # 0
        /\ UNCHANGED <<te, teMapped, pending, nextId, buff, south, held, looked, puts>>
        /\ era = 0 => kind # "enqueue"
        /\ Coming => kind = "undecodable" \/ kind = pending.kind
        /\ (nextId = 1 /\ te = "wait") => Coming /\ pending.kind = "register"
        /\ ~(nextId = 1 /\ te = "ready")
    BY <2>1, HandlesFacts
  <2> QED BY <2>1, <2>2 DEF kind
<1>4. Head(hq).msg \in [n : Nat, era : Nat, late : BOOLEAN]
  <2>1. Head(hq) \in [kind : {"enqueue"}, msg : [n : Nat, era : Nat, late : BOOLEAN]]
    BY <1>3 DEF Queued, Requests, Undecodable
  <2> QED BY <2>1
<1> DEFINE m == Head(hq).msg
           t == Cells(Enqueued(m))
<1>5. t \in Seq(PduCell) /\ north' = north \o t
  <2>1. Enqueued(m) \in Pdu
    BY <1>4, EnqueuedFacts
  <2> QED BY <1>1, <2>1, CellsFacts
<1> HIDE DEF m, t
<1>6. buff \in Seq(PduCell) /\ north \in Seq(PduCell) /\ north' \in Seq(PduCell)
  BY <1>2, <1>5, ConcatCells DEF Types
<1>7. Types' /\ Waits' /\ ResultIsResult'
  BY <1>1, <1>2, <1>3, <1>6 DEF Types, Waits, ResultIsResult
<1>8. Unmapped'
  BY <1>1, <1>3 DEF Unmapped
<1>9. nextId = 1 => te \notin {"wait", "ready", "off"}
  BY <1>2, <1>3 DEF Begun
<1>10. ASSUME nextId = 2, te = "wait" PROVE Mapping'
  <2>1. Mapping
    BY <1>2, <1>10 DEF Begun
  <2>2. Answered /\ pending.kind \in {"map", "unregister"}
    BY <1>3, <2>1 DEF Mapping
  <2>3. Answered'
    BY <1>3, <1>5, <1>6, <2>2, AnsweredKept
  <2> QED BY <1>3, <2>2, <2>3 DEF Mapping
<1>11. Begun'
  BY <1>3, <1>9, <1>10 DEF Begun
<1> QED BY <1>7, <1>8, <1>11 DEF Inv

\* The adapter finds a port that is mapped.
LEMMA AdapterStep ==
  ASSUME Inv, era # 0, nextId' = nextId,
         hq' = hq \/ \E m \in Queued : hq' = Append(hq, m),
         held' \subseteq [look : Nat, era : Nat], puts' \in Nat, looked' \in Nat,
         UNCHANGED <<te, teMapped, pending, buff, south, h, hMapped, north, era>>
  PROVE  Inv'
<1>1. Types /\ Waits /\ Unmapped /\ Begun /\ ResultIsResult
  BY DEF Inv
<1>2. hq' \in Seq(Queued)
  BY <1>1, QueueFacts DEF Types
<1>3. Types' /\ Waits' /\ ResultIsResult'
  BY <1>1, <1>2 DEF Types, Waits, ResultIsResult
<1>4. Unmapped'
  BY DEF Unmapped
<1>5. nextId # 0 /\ (nextId = 1 => te \notin {"wait", "ready", "off"})
  BY <1>1 DEF Begun
<1>6. (nextId = 2 /\ te = "wait") => Mapping'
  <2>1. SUFFICES ASSUME nextId = 2, te = "wait" PROVE Mapping'
    OBVIOUS
  <2>2. Answered /\ pending.kind \in {"map", "unregister"}
    BY <1>1, <2>1 DEF Begun, Mapping
  <2>3. Answered'
    BY <2>2 DEF Answered, Answer
  <2> QED BY <2>2, <2>3 DEF Mapping
<1>7. Begun'
  BY <1>5, <1>6 DEF Begun
<1> QED BY <1>3, <1>4, <1>7 DEF Inv

LEMMA LookUpStep == Inv /\ LookUp => Inv'
<1> SUFFICES ASSUME Inv, LookUp PROVE Inv'
  OBVIOUS
<1>1. /\ hMapped /\ looked' = looked + 1 /\ held' = held \cup {[look |-> looked, era |-> era]}
      /\ UNCHANGED <<te, teMapped, pending, nextId, buff, south, hq, h, hMapped, north, era, puts>>
  BY DEF LookUp, titan, handler
<1>2. Types /\ Unmapped
  BY DEF Inv
<1>3. era # 0
  BY <1>1, <1>2 DEF Unmapped
<1>4. looked \in Nat /\ era \in Nat /\ puts \in Nat /\ held \subseteq [look : Nat, era : Nat]
  BY <1>2 DEF Types
<1>5. looked' \in Nat
  BY <1>1, <1>4, SMT
<1>6. held' \subseteq [look : Nat, era : Nat]
  BY <1>1, <1>4
<1> QED BY <1>1, <1>3, <1>4, <1>5, <1>6, AdapterStep

LEMMA PutStep == ASSUME Inv, NEW m \in held, Put(m) PROVE Inv'
<1>1. /\ held' = held \ {m} /\ puts' = puts + 1
      /\ hq' = Append(hq, Indication([n |-> puts, era |-> m.era,
                                      late |-> ~hMapped \/ era # m.era]))
      /\ UNCHANGED <<te, teMapped, pending, nextId, buff, south, h, hMapped, north, era, looked>>
  BY DEF Put, titan
<1>2. Types /\ Unmapped
  BY DEF Inv
<1>3. era # 0
  BY <1>2 DEF Unmapped
<1>4. looked \in Nat /\ puts \in Nat /\ held \subseteq [look : Nat, era : Nat]
  BY <1>2 DEF Types
<1>5. puts' \in Nat
  BY <1>1, <1>4, SMT
<1>6. m.era \in Nat
  BY <1>4
<1> DEFINE late == ~hMapped \/ era # m.era
           x == Indication([n |-> puts, era |-> m.era, late |-> late])
<1>7. late \in BOOLEAN
  BY Zenon
<1> HIDE DEF late
<1>8. x \in Queued
  <2>1. [n |-> puts, era |-> m.era, late |-> late] \in [n : Nat, era : Nat, late : BOOLEAN]
    BY <1>4, <1>6, <1>7
  <2> QED BY <2>1 DEF Indication, Queued
<1>9. hq' = Append(hq, x)
  BY <1>1 DEF late
<1> HIDE DEF x
<1>10. held' \subseteq [look : Nat, era : Nat]
  BY <1>1, <1>4
<1> QED BY <1>1, <1>3, <1>4, <1>5, <1>8, <1>9, <1>10, AdapterStep

-----------------------------------------------------------------------------
LEMMA InvNext == Inv /\ [Next]_vars => Inv'
<1> SUFFICES ASSUME Inv, [Next]_vars PROVE Inv'
  OBVIOUS
<1>1. CASE Start
  BY <1>1, StartStep
<1>2. CASE AskMap \/ AskUnmap \/ Stop
  <2>1. te = "ready" /\ UNCHANGED <<teMapped, buff, hq, h, hMapped, north, era, held, looked, puts>>
    BY <1>2 DEF AskMap, AskUnmap, Stop, handler, adapter
  <2>2. PICK kind \in {"map", "unmap", "unregister"} : Ask(kind) /\ (kind = "unmap" <=> teMapped)
    <3>1. CASE AskMap
      BY <3>1, Zenon DEF AskMap
    <3>2. CASE AskUnmap
      BY <3>2, Zenon DEF AskUnmap
    <3>3. CASE Stop
      BY <3>3, Zenon DEF Stop
    <3> QED BY <1>2, <3>1, <3>2, <3>3
  <2> QED BY <2>1, <2>2, AskStep
<1>3. CASE Send
  BY <1>3, SendStep
<1>4. CASE Receive
  BY <1>4, ReceiveStep
<1>5. CASE ConnectionLost \/ DecodingFails
  <2>1. /\ te \in {"wait", "ready"} /\ te' \in {"lost", "garbled", "failed"} /\ buff' = buff
        /\ UNCHANGED <<nextId, south, hq, h, hMapped, north, era, held, looked, puts>>
    BY <1>5 DEF ConnectionLost, DecodingFails, Reads, Looks, handler, adapter
  <2>2. buff' \in Seq(PduCell) /\ (Results(buff) => Results(buff'))
    BY <2>1 DEF Inv, Types
  <2> QED BY <2>1, <2>2, ErrorStep
<1>6. CASE WaitTakes
  BY <1>6, WaitTakesStep
<1>7. CASE Take
  BY <1>7, TakeStep
<1>8. CASE ReaderReads
  BY <1>8, ReaderStep
<1>9. CASE HandlerStep
  BY <1>9, RegisterStep, MapStep, UnmapStep, SendStepOfHandler, UndecodableStep, IndicationStep
     DEF HandlerStep
<1>10. CASE LookUp
  BY <1>10, LookUpStep
<1>11. CASE \E m \in held : Put(m)
  BY <1>11, PutStep
<1>12. CASE UNCHANGED vars
  <2>1. UNCHANGED <<te, teMapped, pending, nextId, buff, south, hq, h, hMapped, north, era, held,
                    looked, puts>>
    BY <1>12 DEF vars, titan, handler, adapter
  <2> QED BY <2>1 DEF Inv, Types, Waits, Unmapped, Results, Begun, Registering, Mapping, Coming,
                      Answered, Answer, Quiet, ResultIsResult
<1> QED BY <1>1, <1>2, <1>3, <1>4, <1>5, <1>6, <1>7, <1>8, <1>9, <1>10, <1>11, <1>12
        DEF Next, TitanReceives

\* A test port that waits for the result of a request never takes a message of the
\* adapter for it, although these messages carry the constant id 1, which is also the
\* id of one of its requests (TRI_wait_for_res, TitanPortHandler.enqueueMessage).
THEOREM ResultTaken == Spec => []ResultIsResult
<1>1. Inv => ResultIsResult
  BY DEF Inv
<1> QED BY <1>1, InvInit, InvNext, PTL DEF Spec

-----------------------------------------------------------------------------
(* Sequences that lose elements at their ends and get new ones at the back. *)

All(s, T) == \A i \in 1..Len(s) : s[i] \in T

\* What is behind an element of A is in B.
Behind(s, A, B) == \A i, j \in 1..Len(s) : (i < j /\ s[i] \in A) => s[j] \in B

\* t is the part of s that begins behind its first k elements.
Part(t, s, k) ==
  /\ k \in Nat /\ Len(s) \in Nat /\ Len(t) \in Nat
  /\ \A i \in 1..Len(t) : i + k \in 1..Len(s) /\ t[i] = s[i + k]

LEMMA AllPart ==
  ASSUME NEW s, NEW t, NEW k, Part(t, s, k), NEW T, All(s, T)
  PROVE  All(t, T)
<1> QED BY DEF All, Part

LEMMA BehindPart ==
  ASSUME NEW s, NEW t, NEW k, Part(t, s, k), NEW A, NEW B, Behind(s, A, B)
  PROVE  Behind(t, A, B)
<1> SUFFICES ASSUME NEW i \in 1..Len(t), NEW j \in 1..Len(t), i < j, t[i] \in A
             PROVE  t[j] \in B
  BY DEF Behind
<1>1. i + k \in 1..Len(s) /\ j + k \in 1..Len(s) /\ t[i] = s[i + k] /\ t[j] = s[j + k]
      /\ k \in Nat /\ Len(s) \in Nat /\ Len(t) \in Nat
  BY DEF Part
<1>2. i + k < j + k
  BY <1>1, SMT
<1> QED BY <1>1, <1>2 DEF Behind

\* Nothing but elements of B is left when a first element in A is taken.
LEMMA BehindFirst ==
  ASSUME NEW s, NEW t, NEW k, Part(t, s, k), k # 0, NEW A, NEW B, Behind(s, A, B), s[1] \in A
  PROVE  All(t, B)
<1> SUFFICES ASSUME NEW i \in 1..Len(t) PROVE t[i] \in B
  BY DEF All
<1>1. i + k \in 1..Len(s) /\ t[i] = s[i + k] /\ k \in Nat /\ Len(t) \in Nat
  BY DEF Part
<1> DEFINE l == Len(s)
<1>2. i + k \in 1..l /\ l \in Nat
  BY <1>1 DEF Part
<1> HIDE DEF l
<1>3. 1 \in 1..l /\ 1 < i + k
  BY <1>1, <1>2, SMT
<1> QED BY <1>1, <1>3 DEF Behind, l

LEMMA AllAppend ==
  ASSUME NEW S, NEW s \in Seq(S), NEW x \in S, NEW T, All(s, T), x \in T
  PROVE  All(Append(s, x), T)
<1>1. /\ Len(Append(s, x)) = Len(s) + 1
      /\ \A i \in 1..Len(s) : Append(s, x)[i] = s[i]
      /\ Append(s, x)[Len(s) + 1] = x /\ Len(s) \in Nat
  BY AppendProperties, LenProperties
<1>2. \A i \in 1..(Len(s) + 1) : i \in 1..Len(s) \/ i = Len(s) + 1
  BY <1>1, SMT
<1> QED BY <1>1, <1>2 DEF All

LEMMA BehindAppend ==
  ASSUME NEW S, NEW s \in Seq(S), NEW x \in S, NEW A, NEW B, Behind(s, A, B),
         (\A i \in 1..Len(s) : s[i] \notin A) \/ x \in B
  PROVE  Behind(Append(s, x), A, B)
<1> DEFINE t == Append(s, x)
<1>1. /\ Len(t) = Len(s) + 1 /\ (\A i \in 1..Len(s) : t[i] = s[i])
      /\ t[Len(s) + 1] = x /\ Len(s) \in Nat
  BY AppendProperties, LenProperties
<1> HIDE DEF t
<1> SUFFICES ASSUME NEW i \in 1..Len(t), NEW j \in 1..Len(t), i < j, t[i] \in A
             PROVE  t[j] \in B
  BY DEF Behind, t
<1>2. i \in 1..Len(s) /\ (j \in 1..Len(s) \/ j = Len(s) + 1)
  BY <1>1, SMT
<1> QED BY <1>1, <1>2 DEF Behind

LEMMA BehindNone ==
  ASSUME NEW s, NEW C, All(s, C), NEW A, C \cap A = {}, NEW B
  PROVE  Behind(s, A, B)
<1> QED BY DEF All, Behind

LEMMA AllMonotonic ==
  ASSUME NEW s, NEW T, NEW U, All(s, T), T \subseteq U
  PROVE  All(s, U)
<1> QED BY DEF All

LEMMA AllEmpty == ASSUME NEW T PROVE All(<<>>, T)
<1>1. Len(<<>>) = 0 /\ 1..0 = {}
  BY SMT
<1> QED BY <1>1 DEF All

LEMMA BehindEmpty == ASSUME NEW A, NEW B PROVE Behind(<<>>, A, B)
<1>1. Len(<<>>) = 0 /\ 1..0 = {}
  BY SMT
<1> QED BY <1>1 DEF Behind

LEMMA TailPart ==
  ASSUME NEW S, NEW s \in Seq(S), s # <<>>
  PROVE  Part(Tail(s), s, 1) /\ Head(s) = s[1] /\ 1 \in 1..Len(s)
<1>1. /\ Head(s) = s[1] /\ Tail(s) \in Seq(S) /\ Len(Tail(s)) = Len(s) - 1
      /\ \A i \in 1..Len(Tail(s)) : Tail(s)[i] = s[i + 1]
  BY HeadTailProperties
<1>2. Len(s) \in Nat /\ Len(s) # 0
  BY LenProperties, EmptySeq
<1>3. 1 \in 1..Len(s) /\ Len(s) - 1 \in Nat /\ \A i \in 1..(Len(s) - 1) : i + 1 \in 1..Len(s)
  BY <1>2, SMT
<1> QED BY <1>1, <1>3 DEF Part

\* A sequence of elements of T.
LEMMA AllSeq ==
  ASSUME NEW S, NEW s \in Seq(S), NEW T
  PROVE  s \in Seq(T) <=> All(s, T)
<1>1. s \in Seq(T) => All(s, T)
  BY ElementOfSeq DEF All
<1>2. ASSUME All(s, T) PROVE s \in Seq(T)
  <2>1. Len(s) \in Nat
    BY LenProperties
  <2>2. 1 \in Int /\ Len(s) \in Int /\ \A i \in 1..Len(s) : s[i] \in T
    BY <1>2, <2>1 DEF All
  <2>3. SubSeq(s, 1, Len(s)) \in Seq(T)
    BY <2>2, SubSeqProperties
  <2> QED BY <2>3, SubSeqFull
<1> QED BY <1>1, <1>2

-----------------------------------------------------------------------------
(* What the port has received and what is on its way to the port.           *)

Stream == buff \o north

FirstCell(p) == [pdu |-> p, part |-> 1]
SecondCell(p) == [pdu |-> p, part |-> 2]

LEMMA StreamType ==
  ASSUME Types
  PROVE  /\ Stream \in Seq(PduCell) /\ Len(Stream) = Len(buff) + Len(north)
         /\ Len(buff) \in Nat /\ Len(north) \in Nat
         /\ \A i \in 1..Len(buff) : Stream[i] = buff[i]
         /\ \A i \in 1..Len(north) : Stream[Len(buff) + i] = north[i]
<1>1. buff \in Seq(PduCell) /\ north \in Seq(PduCell)
  BY DEF Types
<1>2. /\ Stream \in Seq(PduCell) /\ Len(Stream) = Len(buff) + Len(north)
      /\ \A i \in 1..(Len(buff) + Len(north)) :
           Stream[i] = IF i <= Len(buff) THEN buff[i] ELSE north[i - Len(buff)]
  BY <1>1, ConcatProperties DEF Stream
<1>3. Len(buff) \in Nat /\ Len(north) \in Nat
  BY <1>1, LenProperties
<1> DEFINE b == Len(buff)
           n == Len(north)
<1>4. b \in Nat /\ n \in Nat
  BY <1>3
<1> HIDE DEF b, n
<1>5. /\ \A i \in 1..b : i \in 1..(b + n) /\ i <= b
      /\ \A i \in 1..n : b + i \in 1..(b + n) /\ ~(b + i <= b) /\ (b + i) - b = i
  BY <1>4, SMT
<1> QED BY <1>2, <1>3, <1>5 DEF b, n

LEMMA StreamRead == Types /\ Receive => Stream' = Stream
<1> SUFFICES ASSUME Types, Receive PROVE Stream' = Stream
  OBVIOUS
<1>1. PICK n \in 1..Len(north) : /\ buff' = buff \o SubSeq(north, 1, n)
                                 /\ north' = SubSeq(north, n + 1, Len(north))
  BY DEF Receive
<1> QED BY <1>1, ReadFacts DEF Types, Stream

\* The port takes a message.
LEMMA StreamTaken ==
  ASSUME Types, Complete, buff' = Rest, north' = north
  PROVE  Part(Stream', Stream, 2) /\ Stream[1] = buff[1] /\ buff[1].pdu = First
         /\ buff[1] \in PduCell /\ buff[1].part = 1 /\ 1 \in 1..Len(Stream)
         /\ Len(Stream') + 2 = Len(Stream)
<1> DEFINE b == Len(buff)
           n == Len(north)
<1>1. b \in Nat /\ b >= 2 /\ n \in Nat /\ buff # <<>> /\ Head(buff).part # 2
  BY EmptySeq, StreamType DEF Complete, Misframed, Types
<1>2. buff \in Seq(PduCell) /\ north \in Seq(PduCell) /\ \A i \in 1..b : buff[i] \in PduCell
  BY ElementOfSeq DEF Types
<1>3. /\ 3 \in Int /\ b \in Int /\ (\A i \in 3..b : buff[i] \in PduCell)
      /\ 1 \in 1..b /\ 1 \in 1..(b + n)
  <2> HIDE DEF b, n
  <2> QED BY <1>1, <1>2, SMT
<1>4. /\ Rest \in Seq(PduCell) /\ Len(Rest) = IF 3 <= b THEN b - 3 + 1 ELSE 0
      /\ \A i \in 1..(b - 3 + 1) : Rest[i] = buff[3 + i - 1]
  BY <1>3, SubSeqProperties DEF Rest
<1>5. Head(buff) = buff[1]
  BY <1>1, <1>2, HeadTailProperties
<1>6. /\ Stream' \in Seq(PduCell) /\ Len(Stream') = Len(Rest) + n
      /\ \A i \in 1..(Len(Rest) + n) :
           Stream'[i] = IF i <= Len(Rest) THEN Rest[i] ELSE north[i - Len(Rest)]
  BY <1>2, <1>4, ConcatProperties DEF Stream
<1>7. /\ Stream \in Seq(PduCell) /\ Len(Stream) = b + n
      /\ \A i \in 1..(b + n) : Stream[i] = IF i <= b THEN buff[i] ELSE north[i - b]
  BY <1>2, ConcatProperties DEF Stream
<1> HIDE DEF b, n
<1>8. Len(Rest) = b - 2
  BY <1>1, <1>4, SMT
<1>9. Len(Stream') \in Nat
  BY <1>6, LenProperties
<1>10. ASSUME NEW i \in 1..Len(Stream')
       PROVE  i + 2 \in 1..Len(Stream) /\ Stream'[i] = Stream[i + 2]
  <2>1. i \in 1..(Len(Rest) + n) /\ i \in 1..(b - 2 + n)
    BY <1>6, <1>8, <1>10
  <2>2. i + 2 \in 1..(b + n) /\ (i <= b - 2 <=> i + 2 <= b)
    BY <1>1, <2>1, SMT
  <2>3. CASE i <= b - 2
    <3>1. i \in 1..(b - 3 + 1) /\ 3 + i - 1 = i + 2
      BY <1>1, <2>1, <2>3, SMT
    <3>2. Stream'[i] = buff[i + 2]
      BY <1>4, <1>6, <1>8, <2>1, <2>3, <3>1
    <3> QED BY <1>7, <2>2, <2>3, <3>2
  <2>4. CASE ~(i <= b - 2)
    <3>1. i - (b - 2) = (i + 2) - b
      BY <1>1, <2>1, SMT
    <3> QED BY <1>6, <1>7, <1>8, <2>1, <2>2, <2>4, <3>1
  <2> QED BY <2>3, <2>4
<1>11. buff[1].part = 1
  BY <1>1, <1>2, <1>3, <1>5 DEF PduCell
<1>12. Stream[1] = buff[1]
  BY <1>3, <1>7, StreamType DEF b
<1>13. First = buff[1].pdu
  BY <1>5 DEF First
<1>14. (b - 2 + n) + 2 = b + n
  BY <1>1, SMT
<1> QED BY <1>2, <1>3, <1>6, <1>7, <1>8, <1>9, <1>10, <1>11, <1>12, <1>13, <1>14 DEF Part

LEMMA StreamCleared ==
  ASSUME Types, buff' = <<>>, north' = north
  PROVE  Part(Stream', Stream, Len(buff)) /\ Len(Stream') + Len(buff) = Len(Stream)
<1>1. Stream' = north
  BY ConcatEmptySeq DEF Types, Stream
<1>2. /\ Len(Stream) = Len(buff) + Len(north) /\ Len(buff) \in Nat /\ Len(north) \in Nat
      /\ \A i \in 1..Len(north) : Stream[Len(buff) + i] = north[i]
  BY StreamType
<1> DEFINE b == Len(buff)
           n == Len(north)
<1>3. b \in Nat /\ n \in Nat
  BY <1>2
<1> HIDE DEF b, n
<1>4. n + b = b + n /\ \A i \in 1..n : i + b \in 1..(b + n) /\ i + b = b + i
  BY <1>3, SMT
<1> QED BY <1>1, <1>2, <1>4 DEF Part, b, n

\* A new connection.
LEMMA StreamCut ==
  ASSUME Types, buff' = buff, north' = <<>>
  PROVE  Part(Stream', Stream, 0)
<1>1. Stream' = buff
  BY ConcatEmptySeq DEF Types, Stream
<1>2. /\ Len(Stream) = Len(buff) + Len(north) /\ Len(buff) \in Nat /\ Len(north) \in Nat
      /\ \A i \in 1..Len(buff) : Stream[i] = buff[i]
  BY StreamType
<1> DEFINE b == Len(buff)
           n == Len(north)
<1>3. b \in Nat /\ n \in Nat
  BY <1>2
<1> HIDE DEF b, n
<1>4. 0 \in Nat /\ \A i \in 1..b : i + 0 \in 1..(b + n) /\ i + 0 = i
  BY <1>3, SMT
<1> QED BY <1>1, <1>2, <1>4 DEF Part, b, n

LEMMA StreamWritten ==
  ASSUME Types, NEW p \in Pdu, buff' = buff, north' = north \o Cells(p)
  PROVE  /\ FirstCell(p) \in PduCell /\ SecondCell(p) \in PduCell
         /\ Append(Stream, FirstCell(p)) \in Seq(PduCell) /\ Stream \in Seq(PduCell)
         /\ Stream' = Append(Append(Stream, FirstCell(p)), SecondCell(p))
<1> DEFINE c == FirstCell(p)
           d == SecondCell(p)
<1>1. c \in PduCell /\ d \in PduCell
  BY DEF FirstCell, SecondCell, PduCell
<1>2. Cells(p) = <<c, d>>
  BY DEF Cells, FirstCell, SecondCell
<1> HIDE DEF c, d
<1>3. <<c>> \in Seq(PduCell) /\ <<d>> \in Seq(PduCell) /\ <<c>> \o <<d>> = <<c, d>>
  <2>1. <<c>> \in Seq(PduCell) /\ <<d>> \in Seq(PduCell)
    BY <1>1
  <2>2. /\ Len(<<c>>) = 1 /\ Len(<<d>>) = 1 /\ <<c>>[1] = c /\ <<d>>[1] = d
        /\ <<c, d>> \in Seq(PduCell) /\ Len(<<c, d>>) = 2 /\ <<c, d>>[1] = c /\ <<c, d>>[2] = d
    BY <1>1
  <2> DEFINE x == <<c>>
             y == <<d>>
             z == <<c, d>>
  <2>3. /\ x \o y \in Seq(PduCell) /\ Len(x \o y) = Len(x) + Len(y)
        /\ \A i \in 1..(Len(x) + Len(y)) : (x \o y)[i] = IF i <= Len(x) THEN x[i] ELSE y[i - Len(x)]
    BY <2>1, ConcatProperties
  <2>4. /\ Len(x) = 1 /\ Len(y) = 1 /\ x[1] = c /\ y[1] = d
        /\ z \in Seq(PduCell) /\ Len(z) = 2 /\ z[1] = c /\ z[2] = d
    BY <2>2
  <2> HIDE DEF x, y, z
  <2>5. Len(x \o y) = 2 /\ (x \o y)[1] = c /\ (x \o y)[2] = d /\ \A i \in 1..2 : i = 1 \/ i = 2
    BY <2>3, <2>4, SMT
  <2>6. x \o y = z
    BY <2>3, <2>4, <2>5, SeqEqual
  <2> QED BY <2>1, <2>6 DEF x, y, z
<1>4. Stream \in Seq(PduCell) /\ buff \in Seq(PduCell) /\ north \in Seq(PduCell)
  BY StreamType DEF Types
<1>5. Cells(p) \in Seq(PduCell)
  BY CellsFacts
<1>6. Stream' = Stream \o Cells(p)
  BY <1>4, <1>5, CellsAssociate DEF Stream
<1>7. (Stream \o <<c>>) \o <<d>> = Stream \o (<<c>> \o <<d>>)
  BY <1>3, <1>4, CellsAssociate
<1>8. Append(Stream, c) \in Seq(PduCell) /\ Append(Stream, c) = Stream \o <<c>>
  BY <1>1, <1>4, AppendProperties, AppendIsConcat
<1>9. Append(Append(Stream, c), d) = Append(Stream, c) \o <<d>>
  BY <1>1, <1>8, AppendIsConcat
<1> QED BY <1>1, <1>2, <1>3, <1>4, <1>6, <1>7, <1>8, <1>9 DEF c, d

-----------------------------------------------------------------------------
(* One call at a time.  The request a port waits for is the only one that   *)
(* has not been handled, and a result with its id means that it was.        *)

Calls == {"register", "map", "unmap", "unregister"}
Waiting == pending # <<>>

\* The id no other request has: of the pending one, or of the next.
OwnId == IF Waiting THEN pending.id ELSE nextId

OpenCalls == {r \in Queued : r.kind \in Calls}
Others == {r \in Queued : r.kind \notin Calls}

ToHandle ==
  {r \in Queued : /\ r.kind \in Calls => r = pending /\ done + 1 = made
                  /\ r.kind # "enqueue" => r.id < nextId
                  /\ r.kind = "send" => r.id # OwnId}

Written ==
  {c \in PduCell : c.pdu.kind = "result" => /\ c.pdu.id < nextId
                                            /\ c.pdu.id = OwnId => done = made}

CallState ==
  /\ te \in {"off", "ready", "wait"} \cup Errors /\ teMapped \in BOOLEAN
  /\ h \in {"none", "new", "registered", "ended"} /\ hMapped \in BOOLEAN
  /\ made \in Nat /\ done \in Nat /\ pending \in Requests \cup {<<>>}
  /\ te \in {"off", "ready"} => ~Waiting
  /\ te = "wait" => Waiting
  /\ ~Waiting => done = made
  /\ Waiting => /\ pending.kind \in Calls /\ (done = made \/ done + 1 = made)
                /\ pending.id < nextId
                /\ pending.id = 0 => pending.kind = "register"
                /\ (pending.kind = "register" /\ h = "registered") => done = made

CallQueues ==
  /\ All(south, ToHandle) /\ All(hq, ToHandle) /\ All(Stream, Written)
  /\ Behind(south, OpenCalls, Others) /\ Behind(hq, OpenCalls, Others)
  /\ All(south, Others) \/ All(hq, Others)

CallInv == CallState /\ CallQueues

LEMMA CallInit == Init => CallInv
<1> SUFFICES ASSUME Init PROVE CallInv
  OBVIOUS
<1>1. CallState
  <2>1. 0 \in Nat /\ ~Waiting /\ te = "off" /\ h = "none" /\ made = 0 /\ done = 0
        /\ teMapped = FALSE /\ hMapped = FALSE /\ pending = <<>>
    BY DEF Init, Waiting
  <2> QED BY <2>1 DEF CallState
<1>2. Stream = <<>>
  <2>1. <<>> \in Seq(PduCell)
    BY EmptySeq
  <2> QED BY <2>1, ConcatEmptySeq DEF Init, Stream
<1>3. CallQueues
  BY <1>2, AllEmpty, BehindEmpty DEF Init, CallQueues
<1> QED BY <1>1, <1>3 DEF CallInv

\* When every call was handled only sends and messages of the adapter are left.
LEMMA NothingOpen ==
  ASSUME done + 1 # made, NEW q, All(q, ToHandle)
  PROVE  All(q, Others)
<1> QED BY DEF All, ToHandle, Others

LEMMA OthersToHandle ==
  ASSUME NEW r \in Queued, r.kind = "enqueue"
  PROVE  r \in Others /\ r \in ToHandle
<1> QED BY DEF Others, ToHandle, Calls

\* The port reads, or its component ends.
LEMMA CallKept ==
  ASSUME CallInv, NEW k, Part(Stream', Stream, k), te' \in {te} \cup Errors,
         UNCHANGED <<teMapped, pending, nextId, made, done, south, hq, h, hMapped>>
  PROVE  CallInv'
<1>1. CallState'
  BY DEF CallInv, CallState, Waiting, Errors
<1>2. ToHandle' = ToHandle /\ Written' = Written /\ Others' = Others /\ OpenCalls' = OpenCalls
  BY DEF ToHandle, Written, OwnId, Waiting, Others, OpenCalls
<1>3. All(Stream', Written)
  BY AllPart DEF CallInv, CallQueues
<1>4. CallQueues'
  BY <1>2, <1>3 DEF CallInv, CallQueues, All, Behind
<1> QED BY <1>1, <1>4 DEF CallInv

\* The port takes the result of its request.
LEMMA CallReturns ==
  ASSUME Inv, CallInv, WaitTakes, First.id = pending.id
  PROVE  CallInv' /\ done = made /\ Stream[1].pdu = First /\ First.kind = "result"
<1>1. /\ te = "wait" /\ Complete /\ First.kind = "result" /\ Returns(First.ok)
      /\ UNCHANGED <<nextId, made, done, south, hq, h, hMapped, north>>
  BY FirstIsResult DEF WaitTakes, handler
<1>2. PICK k : Part(Stream', Stream, k)
  <2>1. buff' = Rest \/ buff' = <<>>
    BY <1>1 DEF Returns
  <2> QED BY <1>1, <2>1, StreamTaken, StreamCleared DEF Inv
<1>3. Stream[1].pdu = First /\ 1 \in 1..Len(Stream)
  <2>1. First = buff[1].pdu /\ buff[1] = Stream[1] /\ Len(buff) >= 2
    BY <1>1, FirstFacts DEF Stream
  <2>2. /\ Len(Stream) = Len(buff) + Len(north) /\ Len(buff) \in Nat /\ Len(north) \in Nat
    BY StreamType DEF Inv
  <2> DEFINE b == Len(buff)
             n == Len(north)
  <2>3. b \in Nat /\ n \in Nat /\ b >= 2
    BY <2>1, <2>2
  <2> HIDE DEF b, n
  <2>4. 1 \in 1..(b + n)
    BY <2>3, SMT
  <2> QED BY <2>1, <2>2, <2>4 DEF b, n
<1>4. Waiting /\ pending.kind \in Calls /\ pending.id < nextId /\ nextId \in Nat
      /\ pending \in Requests /\ made \in Nat /\ done \in Nat
  BY <1>1 DEF CallInv, CallState, Waiting, Inv, Types
<1>5. done = made
  <2>1. Stream[1] \in Written
    BY <1>3 DEF CallInv, CallQueues, All
  <2> QED BY <1>1, <1>3, <1>4, <2>1 DEF Written, OwnId
<1>6. te' \in {"failed", "off", "ready"} /\ teMapped' \in BOOLEAN
      /\ pending' = (IF te' = "failed" THEN pending ELSE <<>>)
  BY <1>1, Zenon DEF Returns
<1>7. CallState'
  BY <1>1, <1>4, <1>5, <1>6 DEF CallInv, CallState, Waiting, Errors
<1>8. done + 1 # made
  BY <1>4, <1>5, SMT
<1>9. ToHandle \subseteq ToHandle'
  <2>1. SUFFICES ASSUME NEW r \in ToHandle PROVE r \in ToHandle'
    OBVIOUS
  <2>2. r \in Queued /\ r.kind \notin Calls /\ (r.kind # "enqueue" => r.id < nextId)
    BY <1>8, <2>1 DEF ToHandle
  <2>3. r.kind = "send" => r.id # OwnId'
    <3>1. CASE pending' = pending
      BY <1>1, <2>1, <3>1 DEF ToHandle, OwnId, Waiting
    <3>2. CASE pending' = <<>>
      <4>1. SUFFICES ASSUME r.kind = "send" PROVE r.id # nextId
        BY <1>1, <3>2 DEF OwnId, Waiting
      <4>2. r.id \in Nat /\ r.id < nextId
        BY <2>2, <4>1 DEF Queued, Requests, Undecodable
      <4> QED BY <1>4, <4>2, SMT
    <3> QED BY <1>6, <3>1, <3>2
  <2> QED BY <1>1, <2>2, <2>3 DEF ToHandle
<1>10. Written \subseteq Written'
  BY <1>1, <1>5 DEF Written
<1>11. Others' = Others /\ OpenCalls' = OpenCalls
  BY DEF Others, OpenCalls
<1>12. All(south, ToHandle') /\ All(hq, ToHandle') /\ All(Stream', Written')
  BY <1>2, <1>9, <1>10, AllPart, AllMonotonic DEF CallInv, CallQueues
<1>13. CallQueues'
  BY <1>1, <1>11, <1>12 DEF CallInv, CallQueues, All, Behind
<1> QED BY <1>1, <1>3, <1>5, <1>7, <1>13 DEF CallInv

LEMMA RequestNotEmpty == ASSUME NEW kind PROVE Request(kind) # <<>>
<1>1. DOMAIN Request(kind) = {"kind", "id"}
  BY DEF Request
<1>2. DOMAIN <<>> = 1..0 /\ 1..0 = {}
  BY SMT
<1> QED BY <1>1, <1>2

\* The port makes a request; there is no other then.
LEMMA CallMade ==
  ASSUME Inv, CallInv, NEW kind \in Calls, Ask(kind), te \in {"off", "ready"},
         nextId = 0 => kind = "register",
         UNCHANGED <<teMapped, done>>,
         \/ h' = h /\ hq' = hq /\ hMapped' = hMapped
         \/ h' = "new" /\ hq' = <<>> /\ hMapped' = FALSE,
         kind = "register" => h' = "new",
         NEW k, Part(Stream', Stream, k)
  PROVE  /\ CallInv' /\ ~Waiting /\ done = made /\ made' = made + 1 /\ OwnId' = OwnId
         /\ Written \subseteq Written' /\ Waiting' /\ pending'.kind = kind
<1>1. /\ te' = "wait" /\ pending' = Request(kind) /\ pending'.kind = kind
      /\ nextId' = nextId + 1 /\ nextId' \in Nat /\ south' \in Seq(Requests)
      /\ south' = Append(south, pending')
  BY AskFacts DEF Calls
<1>2. /\ made' = made + 1 /\ nextId \in Nat /\ south \in Seq(Requests)
      /\ ~Waiting /\ done = made /\ made \in Nat
  BY DEF Ask, Inv, Types, CallInv, CallState
<1>3. pending' \in Requests /\ pending'.id = nextId /\ Waiting'
  <2>1. Request(kind) = [kind |-> kind, id |-> nextId]
    BY DEF Request
  <2>2. Request(kind) \in Requests /\ Request(kind).id = nextId
    BY <1>2, <2>1 DEF Requests, Calls
  <2>3. Request(kind) # <<>>
    BY RequestNotEmpty
  <2> QED BY <1>1, <2>2, <2>3 DEF Waiting
<1>4. done + 1 = made' /\ done # made' /\ made' \in Nat /\ nextId < nextId'
      /\ done + 1 # made /\ (nextId = 0 <=> ~(nextId > 0))
  BY <1>1, <1>2, SMT
<1>5. OwnId' = OwnId /\ OwnId = nextId
  BY <1>2, <1>3 DEF OwnId
<1>6. CallState'
  BY <1>1, <1>2, <1>3, <1>4 DEF CallInv, CallState, Waiting, Errors
<1>7. All(south, Others) /\ All(hq, Others)
  BY <1>4, NothingOpen DEF CallInv, CallQueues
<1>8. ToHandle \subseteq ToHandle' /\ Written \subseteq Written'
  <2>1. \A i \in Nat : i < nextId => i < nextId' /\ i # nextId
    BY <1>1, <1>2, SMT
  <2>2. ASSUME NEW r \in ToHandle PROVE r \in ToHandle'
    <3>1. r \in Queued /\ r.kind \notin Calls /\ (r.kind # "enqueue" => r.id < nextId)
          /\ (r.kind = "send" => r.id # OwnId)
      BY <1>4 DEF ToHandle
    <3>2. r.kind # "enqueue" => r.id \in Nat
      BY <3>1 DEF Queued, Requests, Undecodable
    <3> QED BY <1>5, <2>1, <3>1, <3>2 DEF ToHandle
  <2>3. ASSUME NEW c \in Written PROVE c \in Written'
    <3>1. c \in PduCell /\ (c.pdu.kind = "result" => c.pdu.id < nextId)
      BY DEF Written
    <3>2. c.pdu.kind = "result" => c.pdu.id \in Nat
      BY <3>1 DEF PduCell, Pdu
    <3> QED BY <1>5, <2>1, <3>1, <3>2 DEF Written
  <2> QED BY <2>2, <2>3
<1>9. pending' \in ToHandle' /\ pending' \in Queued
  <2>1. pending' \in Queued /\ pending'.kind # "send"
    BY <1>1, <1>3 DEF Queued, Calls
  <2> QED BY <1>1, <1>3, <1>4, <2>1 DEF ToHandle
<1>10. All(south', ToHandle') /\ Behind(south', OpenCalls, Others)
  <2>1. All(south, ToHandle') /\ Behind(south, OpenCalls, Others)
    BY <1>8, AllMonotonic DEF CallInv, CallQueues
  <2>2. \A i \in 1..Len(south) : south[i] \notin OpenCalls
    BY <1>7 DEF All, Others, OpenCalls
  <2> QED BY <1>1, <1>2, <1>3, <1>9, <2>1, <2>2, AllAppend, BehindAppend
<1>11. All(hq', ToHandle') /\ All(hq', Others) /\ Behind(hq', OpenCalls, Others)
  <2>1. CASE hq' = hq
    BY <1>7, <1>8, <2>1, AllMonotonic DEF CallInv, CallQueues
  <2>2. CASE hq' = <<>>
    BY <2>2, AllEmpty, BehindEmpty
  <2> QED BY <2>1, <2>2
<1>12. All(Stream', Written')
  BY <1>8, AllPart, AllMonotonic DEF CallInv, CallQueues
<1>13. CallQueues'
  BY <1>10, <1>11, <1>12 DEF CallQueues, All, Behind, Others, OpenCalls
<1> QED BY <1>1, <1>2, <1>3, <1>5, <1>6, <1>8, <1>13 DEF CallInv

LEMMA CallSend == Inv /\ CallInv /\ Send => CallInv'
<1> SUFFICES ASSUME Inv, CallInv, Send PROVE CallInv'
  OBVIOUS
<1>1. /\ te = "ready" /\ south' = Append(south, Request("send")) /\ nextId' = nextId + 1
      /\ UNCHANGED <<te, teMapped, pending, buff, made, done, hq, h, hMapped, north>>
  BY DEF Send, handler
<1>2. nextId \in Nat /\ south \in Seq(Requests) /\ ~Waiting /\ done = made /\ made \in Nat
  BY <1>1 DEF Inv, Types, CallInv, CallState
<1>3. nextId' \in Nat /\ nextId < nextId' /\ nextId # nextId' /\ done + 1 # made
      /\ \A i \in Nat : i < nextId => i < nextId' /\ i # nextId'
  BY <1>1, <1>2, SMT
<1>4. OwnId = nextId /\ OwnId' = nextId' /\ Stream' = Stream
  BY <1>1, <1>2 DEF OwnId, Waiting, Stream
<1>5. CallState'
  BY <1>1, <1>2, <1>3 DEF CallInv, CallState, Waiting, Errors
<1>6. ToHandle \subseteq ToHandle'
  <2>1. SUFFICES ASSUME NEW r \in ToHandle PROVE r \in ToHandle'
    OBVIOUS
  <2>2. r \in Queued /\ r.kind \notin Calls /\ (r.kind # "enqueue" => r.id < nextId)
    BY <1>3 DEF ToHandle
  <2>3. r.kind # "enqueue" => r.id \in Nat
    BY <2>2 DEF Queued, Requests, Undecodable
  <2> QED BY <1>3, <1>4, <2>2, <2>3, Zenon DEF ToHandle
<1>7. Written \subseteq Written'
  <2>1. SUFFICES ASSUME NEW c \in Written PROVE c \in Written'
    OBVIOUS
  <2>2. c \in PduCell /\ (c.pdu.kind = "result" => c.pdu.id < nextId)
    BY DEF Written
  <2>3. c.pdu.kind = "result" => c.pdu.id \in Nat
    BY <2>2 DEF PduCell, Pdu
  <2> QED BY <1>3, <1>4, <2>2, <2>3 DEF Written
<1> DEFINE x == Request("send")
<1>8. x \in Requests /\ x \in Queued /\ x \in ToHandle' /\ x \in Others
  <2>1. x \in Requests /\ x.id = nextId /\ x.kind = "send"
    BY <1>2 DEF Request, Requests
  <2> QED BY <1>3, <1>4, <2>1 DEF Queued, ToHandle, Others, Calls
<1>9. south' = Append(south, x)
  BY <1>1
<1> HIDE DEF x
<1>10. All(south, Others) /\ All(hq, Others)
  BY <1>3, NothingOpen DEF CallInv, CallQueues
<1>11. All(south', ToHandle') /\ Behind(south', OpenCalls, Others)
  <2>1. All(south, ToHandle') /\ Behind(south, OpenCalls, Others)
    BY <1>6, AllMonotonic DEF CallInv, CallQueues
  <2> QED BY <1>2, <1>8, <1>9, <2>1, AllAppend, BehindAppend
<1>12. All(hq', ToHandle') /\ All(Stream', Written')
  BY <1>1, <1>4, <1>6, <1>7, AllMonotonic DEF CallInv, CallQueues
<1>13. CallQueues'
  BY <1>1, <1>10, <1>11, <1>12 DEF CallInv, CallQueues, All, Behind, Others, OpenCalls
<1> QED BY <1>5, <1>13 DEF CallInv

LEMMA CallRead == Inv /\ CallInv /\ ReaderReads => CallInv'
<1> SUFFICES ASSUME Inv, CallInv, ReaderReads PROVE CallInv'
  OBVIOUS
<1>1. /\ south # <<>> /\ south' = Tail(south)
      /\ UNCHANGED <<te, teMapped, pending, nextId, buff, made, done, h, hMapped, north>>
  BY DEF ReaderReads, titan, adapter
<1>2. PICK m \in {Head(south), Undecodable} : hq' = Append(hq, m)
  BY DEF ReaderReads
<1>3. south \in Seq(Requests) /\ hq \in Seq(Queued) /\ nextId \in Nat /\ nextId # 0
  BY <1>1 DEF Inv, Types, Begun
<1>4. Part(south', south, 1) /\ Head(south) = south[1] /\ 1 \in 1..Len(south)
  BY <1>1, <1>3, TailPart
<1>5. CallState' /\ Stream' = Stream
  BY <1>1 DEF CallInv, CallState, Waiting, Stream
<1>6. ToHandle' = ToHandle /\ Written' = Written /\ Others' = Others /\ OpenCalls' = OpenCalls
  BY <1>1 DEF ToHandle, Written, OwnId, Waiting, Others, OpenCalls
<1>7. Undecodable \in ToHandle /\ Undecodable \in Others
  <2>1. 0 < nextId
    BY <1>3, SMT
  <2> QED BY <2>1 DEF Undecodable, Queued, ToHandle, Others, Calls
<1>8. m \in ToHandle /\ m \in Queued
  <2>1. Head(south) \in ToHandle
    BY <1>4 DEF CallInv, CallQueues, All
  <2> QED BY <1>7, <2>1 DEF ToHandle
<1>9. \/ All(south', Others) /\ All(hq, Others)
      \/ m \in Others /\ (All(south', Others) \/ All(hq, Others))
  <2>1. CASE m \in Others
    BY <1>4, <2>1, AllPart DEF CallInv, CallQueues
  <2>2. CASE m \notin Others
    <3>1. south[1] \in OpenCalls /\ south[1] \notin Others
      BY <1>4, <1>7, <1>8, <2>2 DEF OpenCalls, Others
    <3>2. All(south', Others)
      BY <1>4, <3>1, BehindFirst DEF CallInv, CallQueues
    <3>3. ~All(south, Others)
      BY <1>4, <3>1 DEF All
    <3> QED BY <3>2, <3>3 DEF CallInv, CallQueues
  <2> QED BY <2>1, <2>2
<1>10. All(hq', ToHandle) /\ Behind(hq', OpenCalls, Others)
       /\ (All(south', Others) \/ All(hq', Others))
  <2>1. All(hq, ToHandle) /\ Behind(hq, OpenCalls, Others)
    BY DEF CallInv, CallQueues
  <2>2. All(hq, Others) => \A i \in 1..Len(hq) : hq[i] \notin OpenCalls
    BY DEF All, Others, OpenCalls
  <2> QED BY <1>2, <1>3, <1>8, <1>9, <2>1, <2>2, AllAppend, BehindAppend
<1>11. All(south', ToHandle) /\ Behind(south', OpenCalls, Others)
  BY <1>4, AllPart, BehindPart DEF CallInv, CallQueues
<1>12. CallQueues'
  BY <1>5, <1>6, <1>10, <1>11 DEF CallInv, CallQueues, All, Behind
<1> QED BY <1>5, <1>12 DEF CallInv

\* What the handler takes from its queue.
LEMMA Taken ==
  ASSUME Inv, NEW kind, Handles(kind)
  PROVE  /\ Part(hq', hq, 1) /\ hq[1] = Head(hq) /\ 1 \in 1..Len(hq) /\ hq[1].kind = kind
         /\ hq[1] \in Queued /\ hq \in Seq(Queued)
         /\ UNCHANGED <<te, teMapped, pending, nextId, buff, made, south>>
<1>1. /\ hq # <<>> /\ Head(hq).kind = kind /\ hq' = Tail(hq)
      /\ UNCHANGED <<te, teMapped, pending, nextId, buff, made, south>>
  BY DEF Handles, titan
<1>2. hq \in Seq(Queued)
  BY DEF Inv, Types
<1> QED BY <1>1, <1>2, TailPart, HeadTailProperties

\* The call that the handler handles is the pending one, and there is no other.
LEMMA CallHandled ==
  ASSUME Inv, CallInv, NEW kind \in Calls, Handles(kind), done' = done + 1,
         north' = north \o Cells(Answer(Head(hq), TRUE)),
         h' \in {h, "registered", "ended"}, h' = "registered" => h' = h \/ kind = "register",
         hMapped' \in BOOLEAN
  PROVE  /\ CallInv' /\ hq[1] = pending /\ pending.kind = kind /\ Waiting
         /\ done + 1 = made /\ done' = made'
<1>1. /\ Part(hq', hq, 1) /\ hq[1] = Head(hq) /\ 1 \in 1..Len(hq) /\ hq[1].kind = kind
      /\ hq[1] \in Queued /\ hq \in Seq(Queued)
      /\ UNCHANGED <<te, teMapped, pending, nextId, buff, made, south>>
  BY Taken
<1>2. hq[1] \in ToHandle /\ hq[1] \in OpenCalls /\ hq[1] \notin Others
  BY <1>1 DEF CallInv, CallQueues, All, OpenCalls, Others
<1>3. hq[1] = pending /\ done + 1 = made /\ hq[1].id < nextId /\ hq[1] \in Requests /\ Waiting
      /\ done \in Nat /\ made \in Nat
  <2>1. hq[1] = pending /\ done + 1 = made /\ hq[1].id < nextId /\ hq[1] \in Requests
    BY <1>1, <1>2 DEF ToHandle, Calls, Queued, Undecodable
  <2>2. Waiting /\ done \in Nat /\ made \in Nat
    <3>1. made \in Nat /\ done \in Nat /\ (~Waiting => done = made)
      BY DEF CallInv, CallState
    <3>2. done # made
      BY <2>1, <3>1, SMT
    <3> QED BY <3>1, <3>2
  <2> QED BY <2>1, <2>2
<1>4. done' = made /\ made' = made /\ done' \in Nat
  BY <1>1, <1>3, SMT
<1>5. All(hq', Others)
  BY <1>1, <1>2, BehindFirst DEF CallInv, CallQueues
<1>6. All(south, Others)
  <2>1. ~All(hq, Others)
    BY <1>1, <1>2 DEF All
  <2> QED BY <2>1 DEF CallInv, CallQueues
<1>7. CallState'
  BY <1>1, <1>3, <1>4 DEF CallInv, CallState, Waiting
<1>8. Waiting' /\ OwnId' = OwnId
  BY <1>1, <1>3 DEF Waiting, OwnId
<1>9. ASSUME NEW r \in ToHandle, r \in Others PROVE r \in ToHandle'
  BY <1>1, <1>8, <1>9 DEF ToHandle, Others
<1>10. All(hq', ToHandle') /\ All(south', ToHandle')
  <2>1. All(hq', ToHandle) /\ All(south, ToHandle)
    BY <1>1, AllPart DEF CallInv, CallQueues
  <2> QED BY <1>1, <1>5, <1>6, <1>9, <2>1 DEF All
<1>11. Written \subseteq Written'
  BY <1>1, <1>4 DEF Written
<1>12. All(Stream', Written')
  <2> DEFINE p == Answer(Head(hq), TRUE)
  <2>1. p \in Pdu /\ p.kind = "result" /\ p.id = hq[1].id
    <3>1. Head(hq).id \in Nat
      BY <1>1, <1>3 DEF Requests
    <3> QED BY <1>1, <3>1, AnswerFacts
  <2>2. north' = north \o Cells(p)
    OBVIOUS
  <2> HIDE DEF p
  <2>3. /\ FirstCell(p) \in PduCell /\ SecondCell(p) \in PduCell
        /\ Append(Stream, FirstCell(p)) \in Seq(PduCell) /\ Stream \in Seq(PduCell)
        /\ Stream' = Append(Append(Stream, FirstCell(p)), SecondCell(p))
    BY <1>1, <2>1, <2>2, StreamWritten DEF Inv
  <2>4. FirstCell(p) \in Written' /\ SecondCell(p) \in Written'
    <3>1. FirstCell(p).pdu = p /\ SecondCell(p).pdu = p
      BY DEF FirstCell, SecondCell
    <3> QED BY <1>1, <1>3, <1>4, <2>1, <2>3, <3>1 DEF Written
  <2>5. All(Stream, Written')
    BY <1>11, AllMonotonic DEF CallInv, CallQueues
  <2>6. All(Append(Stream, FirstCell(p)), Written')
    BY <2>3, <2>4, <2>5, AllAppend
  <2> QED BY <2>3, <2>4, <2>6, AllAppend
<1>13. Behind(hq', OpenCalls, Others)
  BY <1>1, BehindPart DEF CallInv, CallQueues
<1>14. CallQueues'
  BY <1>1, <1>5, <1>10, <1>12, <1>13 DEF CallInv, CallQueues, All, Behind, Others, OpenCalls
<1> QED BY <1>1, <1>3, <1>4, <1>7, <1>14 DEF CallInv

\* The handler takes anything else, and writes p or nothing.
LEMMA CallPassed ==
  ASSUME Inv, CallInv, NEW kind, Handles(kind), done' = done, h' \in {h, "ended"},
         hMapped' = hMapped, NEW p \in Pdu,
         north' = north \o Cells(p) \/ north' = north,
         north' = north \/ (FirstCell(p) \in Written /\ SecondCell(p) \in Written)
  PROVE  CallInv'
<1>1. /\ Part(hq', hq, 1) /\ hq[1] = Head(hq)
      /\ UNCHANGED <<te, teMapped, pending, nextId, buff, made, south>>
  BY Taken
<1>2. CallState'
  BY <1>1 DEF CallInv, CallState, Waiting
<1>3. ToHandle' = ToHandle /\ Written' = Written /\ Others' = Others /\ OpenCalls' = OpenCalls
  BY <1>1 DEF ToHandle, Written, OwnId, Waiting, Others, OpenCalls
<1>4. All(Stream', Written)
  <2>1. CASE north' = north
    BY <1>1, <2>1 DEF CallInv, CallQueues, Stream
  <2>2. CASE north' # north
    <3>1. /\ FirstCell(p) \in PduCell /\ SecondCell(p) \in PduCell
          /\ Append(Stream, FirstCell(p)) \in Seq(PduCell) /\ Stream \in Seq(PduCell)
          /\ Stream' = Append(Append(Stream, FirstCell(p)), SecondCell(p))
      BY <1>1, <2>2, StreamWritten DEF Inv
    <3>2. All(Append(Stream, FirstCell(p)), Written)
      BY <2>2, <3>1, AllAppend DEF CallInv, CallQueues
    <3> QED BY <2>2, <3>1, <3>2, AllAppend
  <2> QED BY <2>1, <2>2
<1>5. /\ All(hq', ToHandle) /\ Behind(hq', OpenCalls, Others)
      /\ All(hq, Others) => All(hq', Others)
  BY <1>1, AllPart, BehindPart DEF CallInv, CallQueues
<1>6. CallQueues'
  BY <1>1, <1>3, <1>4, <1>5 DEF CallInv, CallQueues, All, Behind
<1> QED BY <1>2, <1>6 DEF CallInv

LEMMA CallAdapter ==
  ASSUME Inv, CallInv, NEW m \in Queued, m.kind = "enqueue", hq' = Append(hq, m) \/ hq' = hq,
         UNCHANGED <<te, teMapped, pending, nextId, buff, made, done, south, h, hMapped, north>>
  PROVE  CallInv'
<1>1. CallState' /\ Stream' = Stream
  BY DEF CallInv, CallState, Waiting, Stream
<1>2. ToHandle' = ToHandle /\ Written' = Written /\ Others' = Others /\ OpenCalls' = OpenCalls
  BY DEF ToHandle, Written, OwnId, Waiting, Others, OpenCalls
<1>3. m \in Others /\ m \in ToHandle /\ hq \in Seq(Queued)
  BY OthersToHandle DEF Inv, Types
<1>4. /\ All(hq', ToHandle) /\ Behind(hq', OpenCalls, Others)
      /\ All(hq, Others) => All(hq', Others)
  BY <1>3, AllAppend, BehindAppend DEF CallInv, CallQueues
<1>5. CallQueues'
  BY <1>1, <1>2, <1>4 DEF CallInv, CallQueues, All, Behind
<1> QED BY <1>1, <1>5 DEF CallInv

\* The handler carries out a call.
LEMMA CallActions ==
  ASSUME Inv, CallInv,
         NEW kind \in Calls,
         \/ kind = "register" /\ HandleRegister
         \/ kind = "map" /\ HandleMap
         \/ kind = "unmap" /\ HandleUnmap
         \/ kind = "unregister" /\ HandleUnregister
  PROVE  /\ Handles(kind) /\ done' = done + 1 /\ north' = north \o Cells(Answer(Head(hq), TRUE))
         /\ CallInv' /\ hq[1] = pending /\ pending.kind = kind /\ Waiting
         /\ done + 1 = made /\ done' = made'
<1>1. /\ Handles(kind) /\ done' = done + 1 /\ north' = north \o Cells(Answer(Head(hq), TRUE))
      /\ h' \in {h, "registered", "ended"} /\ (h' = "registered" => h' = h \/ kind = "register")
      /\ hMapped' \in BOOLEAN
  <2>1. hMapped \in BOOLEAN
    BY DEF CallInv, CallState
  <2> QED BY <2>1 DEF HandleRegister, HandleMap, HandleUnmap, HandleUnregister, Replies
<1> QED BY <1>1, CallHandled

\* The answers to anything else are results that no wait of the port takes for its own.
LEMMA AnswerActions ==
  ASSUME Inv, CallInv, HandleSend \/ HandleUndecodable
  PROVE  \E kind \in {"send", "undecodable"}, p \in Pdu :
           /\ Handles(kind) /\ p.kind = "result"
           /\ north' = north \/ (north' = north \o Cells(p) /\ (p.id = OwnId => done = made))
           /\ north' = north \/ (FirstCell(p) \in Written /\ SecondCell(p) \in Written)
           /\ h' \in {h, "ended"} /\ UNCHANGED <<hMapped, era, done>>
<1>1. nextId \in Nat /\ (hq # <<>> => nextId # 0)
  BY DEF Inv, Types, Begun
<1>2. ASSUME NEW kind \in {"send", "undecodable"}, Handles(kind)
      PROVE  /\ Head(hq) = hq[1] /\ hq[1].kind = kind /\ hq[1] \in ToHandle /\ hq[1].id \in Nat
             /\ kind = "undecodable" => hq[1].id = 0
             /\ hq[1].id < nextId
  <2>1. Head(hq) = hq[1] /\ hq[1].kind = kind /\ hq[1] \in Queued /\ 1 \in 1..Len(hq)
    BY <1>2, Taken
  <2>2. hq[1] \in ToHandle
    BY <2>1 DEF CallInv, CallQueues, All
  <2>3. hq[1].id \in Nat /\ (kind = "undecodable" => hq[1].id = 0)
    BY <2>1 DEF Queued, Requests, Undecodable
  <2> QED BY <2>1, <2>2, <2>3 DEF ToHandle
<1>3. CASE HandleSend
  <2>1. Handles("send") /\ UNCHANGED <<h, hMapped, era, done>>
    BY <1>3 DEF HandleSend
  <2>2. PICK ok \in BOOLEAN : north' = north \o Cells(Answer(Head(hq), ok))
    BY <1>3 DEF HandleSend, Replies
  <2> DEFINE p == Answer(Head(hq), ok)
  <2>3. Head(hq) = hq[1] /\ hq[1].kind = "send" /\ hq[1] \in ToHandle /\ hq[1].id \in Nat
        /\ hq[1].id < nextId
    BY <1>2, <2>1
  <2>4. p \in Pdu /\ p.kind = "result" /\ p.id = hq[1].id
    BY <2>3, AnswerFacts
  <2>5. north' = north \o Cells(p)
    BY <2>2
  <2> HIDE DEF p
  <2>6. p.id < nextId /\ p.id # OwnId
    BY <2>3, <2>4 DEF ToHandle
  <2>7. FirstCell(p) \in Written /\ SecondCell(p) \in Written
    BY <2>4, <2>6 DEF FirstCell, SecondCell, Written, PduCell
  <2> QED BY <2>1, <2>4, <2>5, <2>6, <2>7
<1>4. CASE HandleUndecodable
  <2>1. /\ Handles("undecodable") /\ h' = "ended" /\ UNCHANGED <<hMapped, era, done>>
        /\ IF h = "registered" THEN north' = north \o Cells(Answer(Head(hq), FALSE))
                               ELSE north' = north
    BY <1>4 DEF HandleUndecodable, Replies
  <2> DEFINE p == Answer(Head(hq), FALSE)
  <2>2. Head(hq) = hq[1] /\ hq[1].id = 0 /\ 0 \in Nat /\ 0 < nextId /\ hq # <<>>
    BY <1>2, <2>1 DEF Handles
  <2>3. p \in Pdu /\ p.kind = "result" /\ p.id = 0
    BY <2>2, AnswerFacts
  <2>4. IF h = "registered" THEN north' = north \o Cells(p) ELSE north' = north
    BY <2>1
  <2> HIDE DEF p
  <2>5. ASSUME h = "registered", OwnId = 0 PROVE done = made
    <3>1. CASE Waiting
      BY <2>5, <3>1 DEF OwnId, CallInv, CallState
    <3>2. CASE ~Waiting
      BY <3>2 DEF CallInv, CallState
    <3> QED BY <3>1, <3>2
  <2>6. h = "registered" => FirstCell(p) \in Written /\ SecondCell(p) \in Written
    BY <2>2, <2>3, <2>5 DEF FirstCell, SecondCell, Written, PduCell
  <2> QED BY <2>1, <2>3, <2>4, <2>5, <2>6
<1> QED BY <1>3, <1>4

\* A message of the adapter is passed on to the port.
LEMMA IndicationFacts ==
  ASSUME Inv, HandleIndication
  PROVE  /\ Handles("enqueue") /\ hq[1].msg \in [n : Nat, era : Nat, late : BOOLEAN]
         /\ Enqueued(hq[1].msg) \in Pdu /\ Enqueued(hq[1].msg).kind = "enqueue"
         /\ Enqueued(hq[1].msg).msg = hq[1].msg
         /\ north' = north \o Cells(Enqueued(hq[1].msg)) /\ UNCHANGED <<h, hMapped, era, done>>
<1>1. /\ Handles("enqueue") /\ north' = north \o Cells(Enqueued(Head(hq).msg))
      /\ UNCHANGED <<h, hMapped, era, done>>
  BY DEF HandleIndication
<1>2. hq[1] = Head(hq) /\ hq[1] \in Queued /\ hq[1].kind = "enqueue"
  <2> DEFINE kind == "enqueue"
  <2>1. Handles(kind)
    BY <1>1
  <2> HIDE DEF kind
  <2>2. hq[1] = Head(hq) /\ hq[1] \in Queued /\ hq[1].kind = kind
    BY <2>1, Taken
  <2> QED BY <2>2 DEF kind
<1>3. hq[1].msg \in [n : Nat, era : Nat, late : BOOLEAN]
  BY <1>2 DEF Queued, Requests, Undecodable
<1>4. Enqueued(hq[1].msg) \in Pdu
  BY <1>3, EnqueuedFacts
<1> QED BY <1>1, <1>2, <1>3, <1>4 DEF Enqueued

\* The adapter puts its message at the end of the queue.
LEMMA PutFacts ==
  ASSUME Inv, NEW m \in held, Put(m)
  PROVE  LET msg == [n |-> puts, era |-> m.era, late |-> ~hMapped \/ era # m.era]
         IN  /\ hq' = Append(hq, Indication(msg)) /\ Indication(msg) \in Queued
             /\ Indication(msg).kind = "enqueue" /\ Indication(msg).msg = msg
             /\ msg \in [n : Nat, era : Nat, late : BOOLEAN]
             /\ held' = held \ {m} /\ puts' = puts + 1 /\ m.era \in Nat /\ hq \in Seq(Queued)
<1> DEFINE late == ~hMapped \/ era # m.era
           msg == [n |-> puts, era |-> m.era, late |-> late]
<1>1. puts \in Nat /\ m.era \in Nat /\ hq \in Seq(Queued)
  BY DEF Inv, Types
<1>2. late \in BOOLEAN
  BY Zenon
<1>3. hq' = Append(hq, Indication(msg)) /\ held' = held \ {m} /\ puts' = puts + 1
  BY DEF Put
<1> HIDE DEF late
<1>4. msg \in [n : Nat, era : Nat, late : BOOLEAN]
  BY <1>1, <1>2
<1> HIDE DEF msg
<1>5. Indication(msg) \in Queued /\ Indication(msg).kind = "enqueue" /\ Indication(msg).msg = msg
  BY <1>4 DEF Indication, Queued
<1> QED BY <1>1, <1>3, <1>4, <1>5 DEF msg, late

LEMMA SamePart == ASSUME Types PROVE Part(Stream, Stream, 0)
<1> DEFINE l == Len(Stream)
<1>1. l \in Nat
  BY StreamType, LenProperties
<1> HIDE DEF l
<1>2. 0 \in Nat /\ \A i \in 1..l : i + 0 = i
  BY <1>1, SMT
<1> QED BY <1>1, <1>2 DEF Part, l

\* What the port waits for or looks at changes only when it takes a result.
LEMMA PortReads ==
  ASSUME Inv,
         Receive \/ ConnectionLost \/ DecodingFails \/ Take \/ (WaitTakes /\ First.id # pending.id)
           \/ UNCHANGED vars
  PROVE  /\ \E k \in Nat : Part(Stream', Stream, k)
         /\ te' \in {te} \cup Errors
         /\ UNCHANGED <<teMapped, pending, nextId, made, teEra, done, south, hq, h, hMapped, era,
                        held, looked, puts>>
<1>1. \E k \in Nat : Part(Stream', Stream, k)
  <2>1. 0 \in Nat /\ 2 \in Nat /\ Types
    BY DEF Inv
  <2>2. CASE buff' = buff /\ north' = north
    <3>1. Stream' = Stream
      BY <2>2 DEF Stream
    <3> QED BY <2>1, <3>1, SamePart
  <2>3. CASE Complete /\ buff' = Rest /\ north' = north
    BY <2>1, <2>3, StreamTaken
  <2>4. CASE Receive
    BY <2>1, <2>4, StreamRead, SamePart
  <2> QED BY <2>2, <2>3, <2>4
          DEF ConnectionLost, DecodingFails, Take, WaitTakes, vars, titan, handler
<1>2. te' \in {te} \cup Errors
  BY DEF Receive, ConnectionLost, DecodingFails, Take, WaitTakes, Errors, vars, titan
<1> QED BY <1>1, <1>2
        DEF Receive, ConnectionLost, DecodingFails, Take, WaitTakes, handler, adapter, vars, titan

\* The requests of the port.
LEMMA AskActions ==
  ASSUME Inv, NEW kind \in Calls,
         \/ kind = "register" /\ Start
         \/ kind = "map" /\ AskMap
         \/ kind = "unmap" /\ AskUnmap
         \/ kind = "unregister" /\ Stop
  PROVE  /\ Ask(kind) /\ te \in {"off", "ready"} /\ (te = "off" <=> kind = "register")
         /\ te = "ready" => /\ (teMapped <=> kind = "unmap") /\ hq' = hq /\ Stream' = Stream
                            /\ h' = h /\ hMapped' = hMapped /\ held' = held
         /\ te = "off" => hq' = <<>> /\ h' = "new" /\ hMapped' = FALSE /\ held' = {}
         /\ UNCHANGED <<teMapped, teEra, era, done, looked, puts, got>>
         /\ nextId = 0 => kind = "register"
         /\ \E k \in Nat : Part(Stream', Stream, k)
<1>1. /\ Ask(kind) /\ te \in {"off", "ready"} /\ (te = "off" <=> kind = "register")
      /\ te = "ready" => /\ (teMapped <=> kind = "unmap") /\ hq' = hq /\ buff' = buff
                         /\ north' = north /\ h' = h /\ hMapped' = hMapped /\ held' = held
      /\ te = "off" => /\ hq' = <<>> /\ h' = "new" /\ hMapped' = FALSE /\ held' = {}
                       /\ buff' = buff /\ north' = <<>>
      /\ UNCHANGED <<teMapped, teEra, era, done, looked, puts, got>>
  <2>1. CASE Start /\ kind = "register"
    BY <2>1 DEF Start
  <2>2. CASE AskMap /\ kind = "map"
    BY <2>2, Zenon DEF AskMap, handler, adapter
  <2>3. CASE AskUnmap /\ kind = "unmap"
    BY <2>3, Zenon DEF AskUnmap, handler, adapter
  <2>4. CASE Stop /\ kind = "unregister"
    BY <2>4, Zenon DEF Stop, handler, adapter
  <2> QED BY <2>1, <2>2, <2>3, <2>4
<1>2. nextId = 0 => kind = "register"
  BY <1>1 DEF Inv, Begun
<1>3. te = "ready" => Stream' = Stream
  BY <1>1 DEF Stream
<1>4. \E k \in Nat : Part(Stream', Stream, k)
  <2>1. 0 \in Nat /\ Types
    BY DEF Inv
  <2> QED BY <1>1, <1>3, <2>1, SamePart, StreamCut
<1> QED BY <1>1, <1>2, <1>3, <1>4

LEMMA CallNext == Inv /\ CallInv /\ [Next]_vars => CallInv'
<1> SUFFICES ASSUME Inv, CallInv, [Next]_vars PROVE CallInv'
  OBVIOUS
<1>1. CASE Start \/ AskMap \/ AskUnmap \/ Stop
  <2>1. PICK kind \in Calls : \/ kind = "register" /\ Start
                              \/ kind = "map" /\ AskMap
                              \/ kind = "unmap" /\ AskUnmap
                              \/ kind = "unregister" /\ Stop
    BY <1>1 DEF Calls
  <2>2. /\ Ask(kind) /\ te \in {"off", "ready"} /\ (te = "off" <=> kind = "register")
        /\ te = "ready" => hq' = hq /\ h' = h /\ hMapped' = hMapped
        /\ te = "off" => hq' = <<>> /\ h' = "new" /\ hMapped' = FALSE
        /\ UNCHANGED <<teMapped, done>>
        /\ nextId = 0 => kind = "register"
        /\ \E k \in Nat : Part(Stream', Stream, k)
    BY <2>1, AskActions
  <2>3. PICK k \in Nat : Part(Stream', Stream, k)
    BY <2>2
  <2>4. /\ \/ h' = h /\ hq' = hq /\ hMapped' = hMapped
           \/ h' = "new" /\ hq' = <<>> /\ hMapped' = FALSE
        /\ kind = "register" => h' = "new"
    BY <2>2
  <2>5. Ask(kind) /\ te \in {"off", "ready"} /\ UNCHANGED <<teMapped, done>>
        /\ (nextId = 0 => kind = "register")
    BY <2>2
  <2> QED BY <2>3, <2>4, <2>5, CallMade
<1>2. CASE Send
  BY <1>2, CallSend
<1>3. CASE Receive \/ ConnectionLost \/ DecodingFails \/ Take
             \/ (WaitTakes /\ First.id # pending.id) \/ UNCHANGED vars
  BY <1>3, PortReads, CallKept
<1>4. CASE WaitTakes /\ First.id = pending.id
  BY <1>4, CallReturns
<1>5. CASE ReaderReads
  BY <1>5, CallRead
<1>6. CASE HandleRegister \/ HandleMap \/ HandleUnmap \/ HandleUnregister
  <2>1. PICK kind \in Calls : \/ kind = "register" /\ HandleRegister
                              \/ kind = "map" /\ HandleMap
                              \/ kind = "unmap" /\ HandleUnmap
                              \/ kind = "unregister" /\ HandleUnregister
    BY <1>6 DEF Calls
  <2> QED BY <2>1, CallActions
<1>7. CASE HandleSend \/ HandleUndecodable
  <2>1. PICK kind \in {"send", "undecodable"}, p \in Pdu :
           /\ Handles(kind)
           /\ north' = north \/ north' = north \o Cells(p)
           /\ north' = north \/ (FirstCell(p) \in Written /\ SecondCell(p) \in Written)
           /\ h' \in {h, "ended"} /\ UNCHANGED <<hMapped, done>>
    BY <1>7, AnswerActions, Zenon
  <2> QED BY <2>1, CallPassed
<1>8. CASE HandleIndication
  <2> DEFINE p == Enqueued(hq[1].msg)
             kind == "enqueue"
  <2>1. /\ Handles(kind) /\ p \in Pdu /\ p.kind = "enqueue" /\ north' = north \o Cells(p)
        /\ UNCHANGED <<h, hMapped, done>>
    BY <1>8, IndicationFacts
  <2> HIDE DEF p, kind
  <2>2. FirstCell(p) \in Written /\ SecondCell(p) \in Written
    BY <2>1 DEF FirstCell, SecondCell, Written, PduCell
  <2> QED BY <2>1, <2>2, CallPassed
<1>9. CASE LookUp \/ \E m \in held : Put(m)
  <2>1. UNCHANGED <<te, teMapped, pending, nextId, buff, made, done, south, h, hMapped, north>>
    BY <1>9 DEF LookUp, Put, titan, handler
  <2>2. \E m \in Queued : m.kind = "enqueue" /\ (hq' = Append(hq, m) \/ hq' = hq)
    <3>1. CASE LookUp
      <4>1. hq' = hq
        BY <3>1 DEF LookUp, handler
      <4>2. Indication([n |-> 0, era |-> 0, late |-> FALSE]) \in Queued
            /\ Indication([n |-> 0, era |-> 0, late |-> FALSE]).kind = "enqueue"
        BY DEF Indication, Queued
      <4> QED BY <4>1, <4>2
    <3>2. CASE \E m \in held : Put(m)
      <4>1. PICK m \in held : Put(m)
        BY <3>2
      <4> QED BY <4>1, PutFacts
    <3> QED BY <1>9, <3>1, <3>2
  <2> QED BY <2>1, <2>2, CallAdapter
<1> QED BY <1>1, <1>2, <1>3, <1>4, <1>5, <1>6, <1>7, <1>8, <1>9
        DEF Next, TitanReceives, HandlerStep

-----------------------------------------------------------------------------
(* What the port and the handler know of the mapping.                       *)

MapInv ==
  /\ te = "off" => ~hMapped
  /\ te = "ready" => (hMapped <=> teMapped)
  /\ Waiting => (hMapped <=> pending.kind = IF done = made THEN "map" ELSE "unmap")
  /\ teEra \in Nat /\ teEra <= era
  /\ te \notin Errors =>
       era = IF Waiting /\ pending.kind = "map" /\ done = made THEN teEra + 1 ELSE teEra

LEMMA MapInit == Init => MapInv
<1> SUFFICES ASSUME Init PROVE MapInv
  OBVIOUS
<1>1. te = "off" /\ hMapped = FALSE /\ ~Waiting /\ teEra = 0 /\ era = 0
  BY DEF Init, Waiting
<1> QED BY <1>1, SMT DEF MapInv

LEMMA MapKept ==
  ASSUME MapInv, te' \in {te} \cup Errors,
         UNCHANGED <<teMapped, pending, made, teEra, done, hMapped, era>>
  PROVE  MapInv'
<1> QED BY DEF MapInv, Waiting, Errors

LEMMA MapAsked ==
  ASSUME Inv, CallInv, MapInv, NEW kind \in Calls,
         \/ kind = "register" /\ Start
         \/ kind = "map" /\ AskMap
         \/ kind = "unmap" /\ AskUnmap
         \/ kind = "unregister" /\ Stop
  PROVE  /\ MapInv' /\ CallInv' /\ te \in {"off", "ready"} /\ te' = "wait" /\ Waiting'
         /\ pending'.kind = kind /\ pending'.id = nextId /\ era' = era /\ (hMapped' => hMapped)
         /\ te = "ready" => hq' = hq /\ Stream' = Stream
         /\ te = "off" => hq' = <<>> /\ kind = "register"
<1>1. /\ Ask(kind) /\ te \in {"off", "ready"} /\ (te = "off" <=> kind = "register")
      /\ te = "ready" => /\ (teMapped <=> kind = "unmap") /\ hq' = hq /\ Stream' = Stream
                         /\ h' = h /\ hMapped' = hMapped
      /\ te = "off" => hq' = <<>> /\ h' = "new" /\ hMapped' = FALSE
      /\ UNCHANGED <<teMapped, teEra, era, done>>
      /\ nextId = 0 => kind = "register"
      /\ \E k \in Nat : Part(Stream', Stream, k)
  BY AskActions
<1>2. PICK k \in Nat : Part(Stream', Stream, k)
  BY <1>1
<1>3. /\ \/ h' = h /\ hq' = hq /\ hMapped' = hMapped
         \/ h' = "new" /\ hq' = <<>> /\ hMapped' = FALSE
      /\ kind = "register" => h' = "new"
  BY <1>1
<1>4. /\ CallInv' /\ ~Waiting /\ done = made /\ made' = made + 1 /\ Waiting'
      /\ pending'.kind = kind
  BY <1>1, <1>2, <1>3, CallMade
<1>5. te' = "wait" /\ pending'.id = nextId
  BY <1>1 DEF Ask, Request
<1>6. done' # made'
  <2>1. made \in Nat
    BY DEF CallInv, CallState
  <2>2. made + 1 # made
    BY <2>1, SMT
  <2> QED BY <1>1, <1>4, <2>2
<1>7. hMapped' <=> kind = "unmap"
  BY <1>1 DEF MapInv
<1>8. te \notin Errors /\ te' \notin Errors /\ te' # "off" /\ te' # "ready"
  BY <1>1, <1>5 DEF Errors
<1>9. teEra' \in Nat /\ teEra' <= era' /\ era' = teEra'
  BY <1>1, <1>4, <1>8 DEF MapInv
<1>10. MapInv'
  BY <1>4, <1>6, <1>7, <1>8, <1>9, Zenon DEF MapInv
<1>11. hMapped' => hMapped
  BY <1>1
<1> QED BY <1>1, <1>4, <1>5, <1>10, <1>11

\* The port takes the result of its request.
LEMMA MapReturned ==
  ASSUME Inv, CallInv, MapInv, WaitTakes, First.id = pending.id
  PROVE  MapInv'
<1>1. /\ te = "wait" /\ Returns(First.ok) /\ UNCHANGED <<made, done, hMapped, era>>
  BY FirstIsResult DEF WaitTakes, handler
<1>2. done = made
  BY CallReturns
<1>3. Waiting /\ pending.kind \in Calls
  BY <1>1 DEF CallInv, CallState
<1>4. (hMapped <=> pending.kind = "map") /\ teEra \in Nat
      /\ era = (IF pending.kind = "map" THEN teEra + 1 ELSE teEra)
  BY <1>1, <1>2, <1>3 DEF MapInv, Errors
<1>5. /\ te' \in {"failed", "off", "ready"}
      /\ te' = "ready" => (teMapped' <=> pending.kind = "map")
      /\ te' = "off" => pending.kind = "unregister"
      /\ pending' = (IF te' = "failed" THEN pending ELSE <<>>)
      /\ teEra' = (IF pending.kind = "map" THEN teEra + 1 ELSE teEra)
  BY <1>1, Zenon DEF Returns
<1>6. teEra' = era /\ teEra' \in Nat /\ teEra' <= era
  BY <1>4, <1>5, SMT
<1>7. te' \in Errors => Waiting' /\ pending' = pending
  BY <1>3, <1>5 DEF Waiting, Errors
<1>8. te' \notin Errors => ~Waiting'
  BY <1>5 DEF Waiting, Errors
<1>9. te' = "off" => ~hMapped'
  BY <1>1, <1>4, <1>5
<1>10. te' = "ready" => (hMapped' <=> teMapped')
  BY <1>1, <1>4, <1>5
<1>11. Waiting' => (hMapped' <=> pending'.kind = IF done' = made' THEN "map" ELSE "unmap")
  BY <1>1, <1>2, <1>4, <1>7, <1>8
<1> QED BY <1>1, <1>6, <1>8, <1>9, <1>10, <1>11, Zenon DEF MapInv

\* The handler carries out the request.
LEMMA MapHandled ==
  ASSUME Inv, CallInv, MapInv, NEW kind \in Calls,
         \/ kind = "register" /\ HandleRegister
         \/ kind = "map" /\ HandleMap
         \/ kind = "unmap" /\ HandleUnmap
         \/ kind = "unregister" /\ HandleUnregister
  PROVE  /\ MapInv'
         /\ kind = "map" => era' = era + 1
         /\ kind # "map" => era' = era /\ (hMapped' => hMapped)
<1>1. /\ Handles(kind) /\ hq[1] = pending /\ pending.kind = kind /\ Waiting
      /\ done + 1 = made /\ done' = made'
  BY CallActions
<1>2. UNCHANGED <<te, teMapped, pending, made, teEra>>
  BY <1>1 DEF Handles, titan
<1>3. /\ kind = "map" => hMapped' = TRUE /\ era' = era + 1
      /\ kind # "map" => era' = era
      /\ kind = "register" => hMapped' = hMapped
      /\ kind \in {"unmap", "unregister"} => hMapped' = FALSE
  BY DEF HandleRegister, HandleMap, HandleUnmap, HandleUnregister
<1>4. done # made
  <2>1. made \in Nat /\ done \in Nat
    BY DEF CallInv, CallState
  <2> QED BY <1>1, <2>1, SMT
<1>5. hMapped <=> kind = "unmap"
  BY <1>1, <1>4 DEF MapInv
<1>6. hMapped' <=> kind = "map"
  BY <1>3, <1>5 DEF Calls
<1>7. te \notin {"off", "ready"} /\ Waiting'
  BY <1>1, <1>2 DEF CallInv, CallState, Waiting
<1>8. /\ teEra \in Nat /\ era \in Nat /\ teEra <= era /\ (te \notin Errors => era = teEra)
  BY <1>4 DEF MapInv, Inv, Types
<1>9. /\ teEra <= era' /\ (te \notin Errors => era' = IF kind = "map" THEN teEra + 1 ELSE teEra)
  BY <1>3, <1>8, SMT
<1>10. MapInv'
  BY <1>1, <1>2, <1>6, <1>7, <1>8, <1>9, Zenon DEF MapInv
<1>11. kind # "map" => (hMapped' => hMapped)
  BY <1>6
<1> QED BY <1>3, <1>10, <1>11

LEMMA MapNext == Inv /\ CallInv /\ MapInv /\ [Next]_vars => MapInv'
<1> SUFFICES ASSUME Inv, CallInv, MapInv, [Next]_vars PROVE MapInv'
  OBVIOUS
<1>1. CASE Start \/ AskMap \/ AskUnmap \/ Stop
  <2>1. PICK kind \in Calls : \/ kind = "register" /\ Start
                              \/ kind = "map" /\ AskMap
                              \/ kind = "unmap" /\ AskUnmap
                              \/ kind = "unregister" /\ Stop
    BY <1>1 DEF Calls
  <2> QED BY <2>1, MapAsked
<1>2. CASE Send \/ ReaderReads \/ LookUp \/ (\E m \in held : Put(m))
  <2>1. UNCHANGED <<te, teMapped, pending, made, teEra, done, hMapped, era>>
    BY <1>2 DEF Send, ReaderReads, LookUp, Put, titan, handler
  <2> QED BY <2>1, MapKept
<1>3. CASE Receive \/ ConnectionLost \/ DecodingFails \/ Take
             \/ (WaitTakes /\ First.id # pending.id) \/ UNCHANGED vars
  BY <1>3, PortReads, MapKept
<1>4. CASE WaitTakes /\ First.id = pending.id
  BY <1>4, MapReturned
<1>5. CASE HandleRegister \/ HandleMap \/ HandleUnmap \/ HandleUnregister
  <2>1. PICK kind \in Calls : \/ kind = "register" /\ HandleRegister
                              \/ kind = "map" /\ HandleMap
                              \/ kind = "unmap" /\ HandleUnmap
                              \/ kind = "unregister" /\ HandleUnregister
    BY <1>5 DEF Calls
  <2> QED BY <2>1, MapHandled
<1>6. CASE HandleSend \/ HandleUndecodable \/ HandleIndication
  <2>1. UNCHANGED <<te, teMapped, pending, made, teEra, done, hMapped, era>>
    BY <1>6 DEF HandleSend, HandleUndecodable, HandleIndication, Handles, titan
  <2> QED BY <2>1, MapKept
<1> QED BY <1>1, <1>2, <1>3, <1>4, <1>5, <1>6 DEF Next, TitanReceives, HandlerStep

-----------------------------------------------------------------------------
(* What the test gets.  A message is fresh when it is of the present mapping *)
(* or came late.  All that a mapped handler has in its queue is fresh, and   *)
(* so is all that is behind the answer to the map request; what is behind a  *)
(* map request in the queue came while the port was not mapped.              *)

Messages == [n : Nat, era : Nat, late : BOOLEAN]
Gotten == [msg : Messages, at : Nat]

Fresh(m) == m.late \/ m.era = era

Maps == {r \in Queued : r.kind = "map"}
FreshRequests == {r \in Queued : r.kind = "enqueue" => Fresh(r.msg)}
LateRequests == {r \in Queued : r.kind = "enqueue" => r.msg.late}

OwnAnswers == {c \in PduCell : c.pdu.kind = "result" /\ c.pdu.id = pending.id}
FreshCells == {c \in PduCell : c.pdu.kind = "enqueue" => Fresh(c.pdu.msg)}

FreshInv ==
  /\ hMapped => All(hq, FreshRequests)
  /\ Behind(hq, Maps, LateRequests)
  /\ (te = "ready" /\ teMapped) => All(Stream, FreshCells)
  /\ (te = "wait" /\ pending.kind = "map") => Behind(Stream, OwnAnswers, FreshCells)

LEMMA FreshInit == Init => FreshInv
<1> SUFFICES ASSUME Init PROVE FreshInv
  OBVIOUS
<1>1. te = "off" /\ hMapped = FALSE /\ hq = <<>>
  BY DEF Init
<1> QED BY <1>1, BehindEmpty DEF FreshInv

LEMMA FreshSame ==
  /\ era' = era => /\ FreshRequests' = FreshRequests /\ FreshCells' = FreshCells
  /\ Maps' = Maps /\ LateRequests' = LateRequests
  /\ pending' = pending => OwnAnswers' = OwnAnswers
<1> QED BY DEF FreshRequests, FreshCells, Fresh, Maps, LateRequests, OwnAnswers

\* A result is no message of the adapter.
LEMMA ResultCells ==
  ASSUME NEW p \in Pdu, p.kind = "result"
  PROVE  FirstCell(p) \in FreshCells /\ SecondCell(p) \in FreshCells
         /\ FirstCell(p) \in FreshCells' /\ SecondCell(p) \in FreshCells'
<1> QED BY DEF FirstCell, SecondCell, FreshCells, PduCell

LEMMA FreshKept ==
  ASSUME FreshInv, te' \in {te} \cup Errors, NEW k, Part(Stream', Stream, k),
         UNCHANGED <<teMapped, pending, hMapped, era>>,
         hq' = hq \/ \E m \in Queued : /\ hq' = Append(hq, m) /\ hq \in Seq(Queued)
                                       /\ m.kind # "enqueue"
  PROVE  FreshInv'
<1>1. /\ FreshRequests' = FreshRequests /\ FreshCells' = FreshCells
      /\ Maps' = Maps /\ LateRequests' = LateRequests /\ OwnAnswers' = OwnAnswers
  BY FreshSame
<1>2. (All(hq, FreshRequests) => All(hq', FreshRequests)) /\ Behind(hq', Maps, LateRequests)
  <2>1. CASE hq' = hq
    BY <2>1 DEF FreshInv
  <2>2. ASSUME NEW m \in Queued, hq' = Append(hq, m), hq \in Seq(Queued), m.kind # "enqueue"
        PROVE  /\ All(hq, FreshRequests) => All(hq', FreshRequests)
               /\ Behind(hq', Maps, LateRequests)
    <3>1. m \in FreshRequests /\ m \in LateRequests
      BY <2>2 DEF FreshRequests, LateRequests
    <3> QED BY <2>2, <3>1, AllAppend, BehindAppend DEF FreshInv
  <2> QED BY <2>1, <2>2
<1>3. te' \in {"ready", "wait"} => te' = te
  BY DEF Errors
<1>4. /\ (te' = "ready" /\ teMapped') => All(Stream', FreshCells)
      /\ (te' = "wait" /\ pending'.kind = "map") => Behind(Stream', OwnAnswers, FreshCells)
  BY <1>3, AllPart, BehindPart DEF FreshInv
<1> QED BY <1>1, <1>2, <1>4 DEF FreshInv, All, Behind

LEMMA FreshAsked ==
  ASSUME Inv, CallInv, FreshInv,
         te' = "wait", pending'.id = nextId, era' = era, hMapped' => hMapped,
         te = "ready" => hq' = hq /\ Stream' = Stream,
         te = "off" => hq' = <<>> /\ pending'.kind = "register",
         te \in {"off", "ready"}
  PROVE  FreshInv'
<1>1. /\ FreshRequests' = FreshRequests /\ FreshCells' = FreshCells
      /\ Maps' = Maps /\ LateRequests' = LateRequests
  BY FreshSame
<1>2. (hMapped' => All(hq', FreshRequests)) /\ Behind(hq', Maps, LateRequests)
  <2>1. CASE hq' = hq
    BY <2>1 DEF FreshInv
  <2>2. CASE hq' = <<>>
    BY <2>2, AllEmpty, BehindEmpty
  <2> QED BY <2>1, <2>2
<1>3. te = "ready" => Behind(Stream', OwnAnswers', FreshCells)
  <2>1. SUFFICES ASSUME te = "ready" PROVE Behind(Stream, OwnAnswers', FreshCells)
    OBVIOUS
  <2>2. Written \cap OwnAnswers' = {}
    <3>1. SUFFICES ASSUME NEW c \in Written, c \in OwnAnswers' PROVE FALSE
      OBVIOUS
    <3>2. c \in PduCell /\ c.pdu.kind = "result" /\ c.pdu.id < nextId /\ c.pdu.id = nextId
      BY <3>1 DEF Written, OwnAnswers
    <3>3. nextId \in Nat
      BY DEF Inv, Types
    <3> QED BY <3>2, <3>3, SMT
  <2> QED BY <2>2, BehindNone DEF CallInv, CallQueues
<1>4. te' # "ready" /\ ((te' = "wait" /\ pending'.kind = "map") => te = "ready")
  OBVIOUS
<1> QED BY <1>1, <1>2, <1>3, <1>4 DEF FreshInv, All, Behind

\* Behind the answer to the map request the stream is fresh.
LEMMA FreshReturned ==
  ASSUME Inv, CallInv, MapInv, FreshInv, WaitTakes, First.id = pending.id
  PROVE  FreshInv'
<1>1. /\ te = "wait" /\ Complete /\ Returns(First.ok) /\ UNCHANGED <<hq, hMapped, era, north>>
  BY FirstIsResult DEF WaitTakes, handler
<1>2. /\ FreshRequests' = FreshRequests /\ FreshCells' = FreshCells
      /\ Maps' = Maps /\ LateRequests' = LateRequests
  BY <1>1, FreshSame
<1>3. /\ te' \in {"failed", "off", "ready"}
      /\ teMapped' => pending.kind = "map" /\ buff' = <<>>
  BY <1>1 DEF Returns
<1>4. ASSUME pending.kind = "map", buff' = <<>> PROVE All(Stream', FreshCells)
  <2>1. Part(Stream', Stream, Len(buff)) /\ Len(buff) # 0
    <3>1. Len(buff) \in Nat /\ Len(buff) >= 2
      BY <1>1, FirstFacts
    <3>2. Len(buff) # 0
      BY <3>1, SMT
    <3> QED BY <1>1, <1>4, <3>2, StreamCleared DEF Inv
  <2>2. Stream[1] \in OwnAnswers
    <3>1. Stream[1].pdu = First /\ First.kind = "result"
      BY CallReturns
    <3>2. Stream[1] \in PduCell
      <4>1. 1 \in 1..Len(buff) /\ Stream[1] = buff[1] /\ buff \in Seq(PduCell)
        <5>1. Len(buff) \in Nat /\ Len(buff) >= 2 /\ Stream[1] = buff[1] /\ buff \in Seq(PduCell)
          BY <1>1, FirstFacts DEF Stream
        <5> DEFINE b == Len(buff)
        <5>2. b \in Nat /\ b >= 2
          BY <5>1
        <5> HIDE DEF b
        <5>3. 1 \in 1..b
          BY <5>2, SMT
        <5> QED BY <5>1, <5>3 DEF b
      <4> QED BY <4>1, ElementOfSeq
    <3> QED BY <3>1, <3>2 DEF OwnAnswers
  <2>3. Behind(Stream, OwnAnswers, FreshCells)
    BY <1>1, <1>4 DEF FreshInv
  <2> QED BY <2>1, <2>2, <2>3, BehindFirst
<1>5. te' # "wait"
  BY <1>3
<1> QED BY <1>1, <1>2, <1>3, <1>4, <1>5 DEF FreshInv

\* The handler writes p; all that it writes is fresh.
LEMMA FreshWritten ==
  ASSUME Inv, FreshInv, NEW p \in Pdu, north' = north \o Cells(p), buff' = buff,
         UNCHANGED <<te, teMapped, pending, era>>,
         (te = "ready" /\ teMapped) => FirstCell(p) \in FreshCells /\ SecondCell(p) \in FreshCells,
         (te = "wait" /\ pending.kind = "map") =>
            \/ FirstCell(p) \in FreshCells /\ SecondCell(p) \in FreshCells
            \/ p.kind # "result" /\ \A i \in 1..Len(Stream) : Stream[i] \notin OwnAnswers
  PROVE  /\ (te = "ready" /\ teMapped) => All(Stream', FreshCells)
         /\ (te = "wait" /\ pending.kind = "map") => Behind(Stream', OwnAnswers, FreshCells)
<1> DEFINE c == FirstCell(p)
           d == SecondCell(p)
           s == Append(Stream, c)
<1>1. /\ c \in PduCell /\ d \in PduCell /\ s \in Seq(PduCell) /\ Stream \in Seq(PduCell)
      /\ Stream' = Append(s, d)
  BY StreamWritten DEF Inv
<1>2. c.pdu = p
  BY DEF FirstCell
<1>3. ASSUME te = "ready", teMapped PROVE All(Stream', FreshCells)
  <2>1. c \in FreshCells /\ d \in FreshCells /\ All(Stream, FreshCells)
    BY <1>3 DEF FreshInv
  <2> HIDE DEF c, d
  <2>2. All(s, FreshCells)
    BY <1>1, <2>1, AllAppend
  <2> HIDE DEF s
  <2> QED BY <1>1, <2>1, <2>2, AllAppend
<1>4. ASSUME te = "wait", pending.kind = "map" PROVE Behind(Stream', OwnAnswers, FreshCells)
  <2>1. Behind(Stream, OwnAnswers, FreshCells)
    BY <1>4 DEF FreshInv
  <2>2. CASE c \in FreshCells /\ d \in FreshCells
    <3> HIDE DEF c, d
    <3>1. Behind(s, OwnAnswers, FreshCells)
      BY <1>1, <2>1, <2>2, BehindAppend
    <3> HIDE DEF s
    <3> QED BY <1>1, <2>2, <3>1, BehindAppend
  <2>3. CASE p.kind # "result" /\ \A i \in 1..Len(Stream) : Stream[i] \notin OwnAnswers
    <3> DEFINE T == {x \in PduCell : x \notin OwnAnswers}
    <3>1. c \in T
      BY <1>1, <1>2, <2>3 DEF OwnAnswers
    <3>2. All(Stream, T)
      BY <1>1, <2>3, ElementOfSeq DEF All
    <3> HIDE DEF c, d, T
    <3>3. Behind(s, OwnAnswers, FreshCells) /\ All(s, T)
      BY <1>1, <2>1, <2>3, <3>1, <3>2, AllAppend, BehindAppend
    <3> HIDE DEF s
    <3>4. \A i \in 1..Len(s) : s[i] \notin OwnAnswers
      BY <3>3 DEF All, T
    <3> QED BY <1>1, <3>3, <3>4, BehindAppend
  <2>4. \/ c \in FreshCells /\ d \in FreshCells
        \/ p.kind # "result" /\ \A i \in 1..Len(Stream) : Stream[i] \notin OwnAnswers
    BY <1>4
  <2> QED BY <2>2, <2>3, <2>4
<1> QED BY <1>3, <1>4

\* A map request makes a new mapping; nothing but what came late is behind it in the queue, and
\* its answer is not in the stream yet.
LEMMA FreshMapped ==
  ASSUME Inv, CallInv, MapInv, FreshInv, HandleMap
  PROVE  FreshInv'
<1>1. /\ Handles("map") /\ north' = north \o Cells(Answer(Head(hq), TRUE)) /\ hMapped' = TRUE
  BY DEF HandleMap, Replies
<1>2. /\ hq[1] = pending /\ Waiting /\ done + 1 = made
  <2> DEFINE kind == "map"
  <2>1. kind \in Calls /\ kind = "map"
    BY DEF Calls
  <2> HIDE DEF kind
  <2> QED BY <2>1, CallActions
<1>3. /\ Part(hq', hq, 1) /\ hq[1] = Head(hq) /\ hq[1].kind = "map" /\ hq[1] \in Queued
      /\ UNCHANGED <<te, teMapped, pending, buff>>
  <2> DEFINE kind == "map"
  <2>1. Handles(kind) /\ kind = "map"
    BY <1>1
  <2> HIDE DEF kind
  <2> QED BY <2>1, Taken
<1>4. All(hq', LateRequests) /\ Behind(hq', Maps, LateRequests)
  <2>1. hq[1] \in Maps
    BY <1>3 DEF Maps
  <2> QED BY <1>3, <2>1, BehindFirst, BehindPart DEF FreshInv
<1>5. LateRequests \subseteq FreshRequests'
  BY DEF LateRequests, FreshRequests, Fresh
<1>6. te # "ready" /\ te' = te
  BY <1>2, <1>3 DEF CallInv, CallState
<1> DEFINE p == Answer(Head(hq), TRUE)
<1>7. p \in Pdu /\ p.kind = "result" /\ north' = north \o Cells(p)
  <2>1. Head(hq).id \in Nat
    BY <1>3 DEF Queued, Requests, Undecodable
  <2> QED BY <1>1, <2>1, AnswerFacts
<1> HIDE DEF p
<1>8. /\ FirstCell(p) \in PduCell /\ SecondCell(p) \in PduCell
      /\ Append(Stream, FirstCell(p)) \in Seq(PduCell) /\ Stream \in Seq(PduCell)
      /\ Stream' = Append(Append(Stream, FirstCell(p)), SecondCell(p))
  BY <1>3, <1>7, StreamWritten DEF Inv
<1>9. Behind(Stream, OwnAnswers, FreshCells')
  <2>1. done # made
    <3>1. made \in Nat /\ done \in Nat
      BY DEF CallInv, CallState
    <3> QED BY <1>2, <3>1, SMT
  <2>2. Written \cap OwnAnswers = {}
    BY <1>2, <2>1 DEF Written, OwnAnswers, OwnId
  <2> QED BY <2>2, BehindNone DEF CallInv, CallQueues
<1>10. FirstCell(p) \in FreshCells' /\ SecondCell(p) \in FreshCells'
  BY <1>7, ResultCells
<1>11. Behind(Append(Stream, FirstCell(p)), OwnAnswers, FreshCells')
  BY <1>8, <1>9, <1>10, BehindAppend
<1>12. Behind(Stream', OwnAnswers, FreshCells')
  BY <1>8, <1>10, <1>11, BehindAppend
<1>13. OwnAnswers' = OwnAnswers /\ Maps' = Maps /\ LateRequests' = LateRequests
  BY <1>3, FreshSame
<1>14. All(hq', FreshRequests')
  BY <1>4, <1>5, AllMonotonic
<1> QED BY <1>4, <1>6, <1>12, <1>13, <1>14 DEF FreshInv

\* The handler takes anything else and writes a result or nothing.
LEMMA FreshAnswered ==
  ASSUME Inv, FreshInv, NEW kind, Handles(kind), era' = era, hMapped' => hMapped,
         NEW p \in Pdu, p.kind = "result", north' = north \/ north' = north \o Cells(p)
  PROVE  FreshInv'
<1>1. /\ Part(hq', hq, 1) /\ UNCHANGED <<te, teMapped, pending, buff>>
  BY Taken
<1>2. /\ FreshRequests' = FreshRequests /\ FreshCells' = FreshCells
      /\ Maps' = Maps /\ LateRequests' = LateRequests /\ OwnAnswers' = OwnAnswers
  BY <1>1, FreshSame
<1>3. (hMapped' => All(hq', FreshRequests)) /\ Behind(hq', Maps, LateRequests)
  BY <1>1, AllPart, BehindPart DEF FreshInv
<1>4. /\ (te = "ready" /\ teMapped) => All(Stream', FreshCells)
      /\ (te = "wait" /\ pending.kind = "map") => Behind(Stream', OwnAnswers, FreshCells)
  <2>1. CASE north' = north
    <3>1. Stream' = Stream
      BY <1>1, <2>1 DEF Stream
    <3> QED BY <3>1 DEF FreshInv
  <2>2. CASE north' = north \o Cells(p)
    <3>1. FirstCell(p) \in FreshCells /\ SecondCell(p) \in FreshCells
      BY ResultCells
    <3> QED BY <1>1, <2>2, <3>1, FreshWritten
  <2> QED BY <2>1, <2>2
<1> QED BY <1>1, <1>2, <1>3, <1>4 DEF FreshInv, All, Behind

LEMMA FreshIndicated ==
  ASSUME Inv, CallInv, MapInv, FreshInv, HandleIndication
  PROVE  FreshInv'
<1> DEFINE kind == "enqueue"
           p == Enqueued(hq[1].msg)
<1>1. /\ Handles(kind) /\ p \in Pdu /\ p.kind = "enqueue" /\ p.msg = hq[1].msg
      /\ north' = north \o Cells(p) /\ hMapped' = hMapped /\ era' = era
  BY IndicationFacts
<1> HIDE DEF p
<1>2. kind = "enqueue"
  OBVIOUS
<1> HIDE DEF kind
<1>3. /\ Part(hq', hq, 1) /\ hq[1].kind = kind /\ hq[1] \in Queued /\ 1 \in 1..Len(hq)
      /\ UNCHANGED <<te, teMapped, pending, buff>>
  BY <1>1, Taken
<1>4. /\ FreshRequests' = FreshRequests /\ FreshCells' = FreshCells
      /\ Maps' = Maps /\ LateRequests' = LateRequests /\ OwnAnswers' = OwnAnswers
  BY <1>1, <1>3, FreshSame
<1>5. (hMapped' => All(hq', FreshRequests)) /\ Behind(hq', Maps, LateRequests)
  BY <1>1, <1>3, AllPart, BehindPart DEF FreshInv
<1>6. hMapped => FirstCell(p) \in FreshCells /\ SecondCell(p) \in FreshCells
  <2>1. SUFFICES ASSUME hMapped PROVE FirstCell(p) \in FreshCells /\ SecondCell(p) \in FreshCells
    OBVIOUS
  <2>2. hq[1] \in FreshRequests
    BY <1>3, <2>1 DEF FreshInv, All
  <2>3. Fresh(p.msg)
    BY <1>1, <1>2, <1>3, <2>2 DEF FreshRequests
  <2>4. FirstCell(p) \in PduCell /\ SecondCell(p) \in PduCell
        /\ FirstCell(p).pdu = p /\ SecondCell(p).pdu = p
    BY <1>1 DEF FirstCell, SecondCell, PduCell
  <2> QED BY <2>3, <2>4 DEF FreshCells
<1>7. (te = "ready" /\ teMapped) => hMapped
  BY DEF MapInv
<1>8. ASSUME te = "wait", pending.kind = "map"
      PROVE  hMapped \/ \A i \in 1..Len(Stream) : Stream[i] \notin OwnAnswers
  <2>1. Waiting
    BY <1>8 DEF CallInv, CallState
  <2>2. CASE done = made
    BY <1>8, <2>1, <2>2 DEF MapInv
  <2>3. CASE done # made
    BY <2>1, <2>3 DEF CallInv, CallQueues, All, Written, OwnAnswers, OwnId
  <2> QED BY <2>2, <2>3
<1>9. /\ (te = "ready" /\ teMapped) => All(Stream', FreshCells)
      /\ (te = "wait" /\ pending.kind = "map") => Behind(Stream', OwnAnswers, FreshCells)
  <2>1. (te = "ready" /\ teMapped) => FirstCell(p) \in FreshCells /\ SecondCell(p) \in FreshCells
    BY <1>6, <1>7
  <2>2. (te = "wait" /\ pending.kind = "map") =>
            \/ FirstCell(p) \in FreshCells /\ SecondCell(p) \in FreshCells
            \/ p.kind # "result" /\ \A i \in 1..Len(Stream) : Stream[i] \notin OwnAnswers
    BY <1>1, <1>6, <1>8
  <2> QED BY <1>1, <1>3, <2>1, <2>2, FreshWritten
<1> QED BY <1>3, <1>4, <1>5, <1>9 DEF FreshInv, All, Behind

\* A message that comes while the port is not mapped is late.
LEMMA FreshPut ==
  ASSUME Inv, CallInv, MapInv, FreshInv, NEW m \in held, Put(m)
  PROVE  FreshInv'
<1> DEFINE late == ~hMapped \/ era # m.era
           msg == [n |-> puts, era |-> m.era, late |-> late]
           x == Indication(msg)
<1>1. /\ hq' = Append(hq, x) /\ x \in Queued /\ x.kind = "enqueue" /\ x.msg = msg
      /\ hq \in Seq(Queued)
  BY PutFacts
<1>2. /\ UNCHANGED <<te, teMapped, pending, hMapped, era>> /\ Stream' = Stream
  BY DEF Put, titan, Stream
<1>3. /\ FreshRequests' = FreshRequests /\ FreshCells' = FreshCells
      /\ Maps' = Maps /\ LateRequests' = LateRequests /\ OwnAnswers' = OwnAnswers
  BY <1>2, FreshSame
<1>4. msg.late = late /\ msg.era = m.era
  OBVIOUS
<1>5. hMapped => x \in FreshRequests
  <2>1. (hMapped /\ ~(era # m.era)) => msg.era = era
    BY <1>4
  <2>2. (era # m.era) => msg.late
    BY <1>4
  <2> HIDE DEF msg, late, x
  <2>3. hMapped => Fresh(msg)
    BY <2>1, <2>2 DEF Fresh
  <2> QED BY <1>1, <2>3 DEF FreshRequests
<1>6. ~hMapped => x \in LateRequests
  <2>1. ~hMapped => msg.late
    BY <1>4
  <2> HIDE DEF msg, late, x
  <2> QED BY <1>1, <2>1 DEF LateRequests
<1> HIDE DEF x, msg, late
<1>7. (\A i \in 1..Len(hq) : hq[i] \notin Maps) \/ ~hMapped
  <2>1. SUFFICES ASSUME NEW i \in 1..Len(hq), hq[i] \in Maps PROVE ~hMapped
    OBVIOUS
  <2>2. hq[i] \in ToHandle /\ hq[i].kind = "map"
    BY <2>1 DEF CallInv, CallQueues, All, Maps
  <2>3. hq[i] = pending /\ done + 1 = made
    BY <2>2 DEF ToHandle, Calls
  <2>4. done # made /\ Waiting
    <3>1. made \in Nat /\ done \in Nat /\ (~Waiting => done = made)
      BY DEF CallInv, CallState
    <3>2. done # made
      BY <2>3, <3>1, SMT
    <3> QED BY <3>1, <3>2
  <2> QED BY <2>2, <2>3, <2>4 DEF MapInv
<1>8. hMapped' => All(hq', FreshRequests)
  BY <1>1, <1>2, <1>5, AllAppend DEF FreshInv
<1>9. Behind(hq', Maps, LateRequests)
  BY <1>1, <1>6, <1>7, BehindAppend DEF FreshInv
<1> QED BY <1>2, <1>3, <1>8, <1>9 DEF FreshInv

LEMMA FreshNext == Inv /\ CallInv /\ MapInv /\ FreshInv /\ [Next]_vars => FreshInv'
<1> SUFFICES ASSUME Inv, CallInv, MapInv, FreshInv, [Next]_vars PROVE FreshInv'
  OBVIOUS
<1>1. CASE Start \/ AskMap \/ AskUnmap \/ Stop
  <2>1. PICK kind \in Calls : \/ kind = "register" /\ Start
                              \/ kind = "map" /\ AskMap
                              \/ kind = "unmap" /\ AskUnmap
                              \/ kind = "unregister" /\ Stop
    BY <1>1 DEF Calls
  <2>2. /\ te \in {"off", "ready"} /\ te' = "wait" /\ pending'.kind = kind /\ pending'.id = nextId
        /\ era' = era /\ (hMapped' => hMapped)
        /\ te = "ready" => hq' = hq /\ Stream' = Stream
        /\ te = "off" => hq' = <<>> /\ kind = "register"
    BY <2>1, MapAsked
  <2> QED BY <2>2, FreshAsked
<1>2. CASE Send \/ LookUp \/ ReaderReads
  <2>1. UNCHANGED <<te, teMapped, pending, hMapped, era>> /\ Stream' = Stream
    BY <1>2 DEF Send, LookUp, ReaderReads, titan, handler, Stream
  <2>2. hq' = hq \/ \E m \in Queued : /\ hq' = Append(hq, m) /\ hq \in Seq(Queued)
                                       /\ m.kind # "enqueue"
    <3>1. CASE Send \/ LookUp
      BY <3>1 DEF Send, LookUp, handler
    <3>2. CASE ReaderReads
      <4>1. PICK m \in {Head(south), Undecodable} : hq' = Append(hq, m)
        BY <3>2 DEF ReaderReads
      <4>2. hq \in Seq(Queued) /\ south \in Seq(Requests) /\ south # <<>>
        BY <3>2 DEF ReaderReads, Inv, Types
      <4>3. Head(south) \in Requests
        BY <4>2, HeadTailProperties
      <4>4. m \in Queued /\ m.kind # "enqueue"
        BY <4>3 DEF Queued, Requests, Undecodable
      <4> QED BY <4>1, <4>2, <4>4
    <3> QED BY <1>2, <3>1, <3>2
  <2>3. Part(Stream', Stream, 0)
    BY <2>1, SamePart DEF Inv
  <2> QED BY <2>1, <2>2, <2>3, FreshKept
<1>3. CASE Receive \/ ConnectionLost \/ DecodingFails \/ Take
             \/ (WaitTakes /\ First.id # pending.id) \/ UNCHANGED vars
  BY <1>3, PortReads, FreshKept
<1>4. CASE WaitTakes /\ First.id = pending.id
  BY <1>4, FreshReturned
<1>5. CASE HandleMap
  BY <1>5, FreshMapped
<1>6. CASE HandleRegister \/ HandleUnmap \/ HandleUnregister
  <2>1. PICK kind \in Calls \ {"map"} : \/ kind = "register" /\ HandleRegister
                                        \/ kind = "unmap" /\ HandleUnmap
                                        \/ kind = "unregister" /\ HandleUnregister
    BY <1>6 DEF Calls
  <2>2. /\ Handles(kind) /\ north' = north \o Cells(Answer(Head(hq), TRUE)) /\ hq[1] = pending
        /\ Waiting
    BY <2>1, CallActions
  <2>3. era' = era /\ (hMapped' => hMapped)
    BY <2>1, MapHandled
  <2> DEFINE p == Answer(Head(hq), TRUE)
  <2>4. p \in Pdu /\ p.kind = "result" /\ north' = north \o Cells(p)
    <3>1. Head(hq) = pending /\ pending \in Requests
      BY <2>2, Taken DEF CallInv, CallState, Waiting
    <3>2. Head(hq).id \in Nat
      BY <3>1 DEF Requests
    <3> QED BY <2>2, <3>2, AnswerFacts
  <2> HIDE DEF p
  <2> QED BY <2>2, <2>3, <2>4, FreshAnswered
<1>7. CASE HandleSend \/ HandleUndecodable
  <2>1. PICK kind \in {"send", "undecodable"}, p \in Pdu :
           /\ Handles(kind) /\ p.kind = "result"
           /\ north' = north \/ north' = north \o Cells(p)
           /\ UNCHANGED <<hMapped, era>>
    BY <1>7, AnswerActions, Zenon
  <2> QED BY <2>1, FreshAnswered
<1>8. CASE HandleIndication
  BY <1>8, FreshIndicated
<1>9. CASE \E m \in held : Put(m)
  BY <1>9, FreshPut
<1> QED BY <1>1, <1>2, <1>3, <1>4, <1>5, <1>6, <1>7, <1>8, <1>9
        DEF Next, TitanReceives, HandlerStep

-----------------------------------------------------------------------------
(* The order of the messages.  Those the test has got have numbers below a,  *)
(* those in the stream from a to b, and those in the queue from b on.        *)

NumberedCell(c) == c.part = 1 /\ c.pdu.kind = "enqueue"

GotBelow(b) == {g \in Gotten : g.msg.n < b}
CellsFrom(a, b) == {c \in PduCell : NumberedCell(c) => a <= c.pdu.msg.n /\ c.pdu.msg.n < b}
QueuedFrom(a, b) == {r \in Queued : r.kind = "enqueue" => a <= r.msg.n /\ r.msg.n < b}

GotWith(v) == {g \in Gotten : g.msg.n = v}
GotAfter(v) == {g \in Gotten : v < g.msg.n}
CellsWith(v) == {c \in PduCell : NumberedCell(c) /\ c.pdu.msg.n = v}
CellsAfter(v) == {c \in PduCell : NumberedCell(c) => v < c.pdu.msg.n}
QueuedWith(v) == {r \in Queued : r.kind = "enqueue" /\ r.msg.n = v}
QueuedAfter(v) == {r \in Queued : r.kind = "enqueue" => v < r.msg.n}

Increasing ==
  \A v \in Nat : /\ Behind(got, GotWith(v), GotAfter(v))
                 /\ Behind(Stream, CellsWith(v), CellsAfter(v))
                 /\ Behind(hq, QueuedWith(v), QueuedAfter(v))

Ordered(a, b) ==
  /\ a <= b /\ b <= puts /\ puts \in Nat
  /\ got \in Seq(Gotten) /\ All(got, GotBelow(a))
  /\ All(Stream, CellsFrom(a, b)) /\ All(hq, QueuedFrom(b, puts))
  /\ Increasing

OrderInv == \E a, b \in Nat : Ordered(a, b)

LEMMA OrderInit == Init => OrderInv
<1> SUFFICES ASSUME Init PROVE OrderInv
  OBVIOUS
<1>1. Stream = <<>> /\ hq = <<>> /\ got = <<>> /\ puts = 0
  <2>1. <<>> \in Seq(PduCell)
    BY EmptySeq
  <2> QED BY <2>1, ConcatEmptySeq DEF Init, Stream
<1>2. 0 \in Nat /\ 0 <= 0 /\ <<>> \in Seq(Gotten)
  BY EmptySeq
<1>3. Increasing
  BY <1>1, BehindEmpty DEF Increasing
<1>4. Ordered(0, 0)
  BY <1>1, <1>2, <1>3, AllEmpty DEF Ordered
<1> QED BY <1>2, <1>4 DEF OrderInv

\* The queue loses elements at the front, or gets something without a number.
LEMMA OrderQueue ==
  ASSUME NEW a \in Nat, NEW b \in Nat, Ordered(a, b), puts' = puts,
         \/ hq' = hq \/ hq' = <<>> \/ Part(hq', hq, 1)
         \/ \E m \in Queued : hq' = Append(hq, m) /\ hq \in Seq(Queued) /\ m.kind # "enqueue"
  PROVE  /\ All(hq', QueuedFrom(b, puts'))
         /\ \A v \in Nat : Behind(hq', QueuedWith(v), QueuedAfter(v))
<1>1. /\ All(hq, QueuedFrom(b, puts))
      /\ \A v \in Nat : Behind(hq, QueuedWith(v), QueuedAfter(v))
  BY DEF Ordered, Increasing
<1>2. CASE hq' = hq
  BY <1>1, <1>2
<1>3. CASE hq' = <<>>
  BY <1>3, AllEmpty, BehindEmpty
<1>4. CASE Part(hq', hq, 1)
  <2>1. All(hq', QueuedFrom(b, puts'))
    BY <1>1, <1>4, AllPart
  <2>2. ASSUME NEW v \in Nat PROVE Behind(hq', QueuedWith(v), QueuedAfter(v))
    BY <1>1, <1>4, BehindPart
  <2> QED BY <2>1, <2>2
<1>5. ASSUME NEW m \in Queued, hq' = Append(hq, m), hq \in Seq(Queued), m.kind # "enqueue"
      PROVE  /\ All(hq', QueuedFrom(b, puts'))
             /\ \A v \in Nat : Behind(hq', QueuedWith(v), QueuedAfter(v))
  <2>1. m \in QueuedFrom(b, puts)
    BY <1>5 DEF QueuedFrom
  <2>2. All(hq', QueuedFrom(b, puts'))
    BY <1>1, <1>5, <2>1, AllAppend
  <2>3. ASSUME NEW v \in Nat PROVE Behind(hq', QueuedWith(v), QueuedAfter(v))
    <3>1. m \in QueuedAfter(v)
      BY <1>5 DEF QueuedAfter
    <3> QED BY <1>1, <1>5, <3>1, BehindAppend
  <2> QED BY <2>2, <2>3
<1> QED BY <1>2, <1>3, <1>4, <1>5

\* The stream loses elements.
LEMMA OrderStream ==
  ASSUME NEW a \in Nat, NEW b \in Nat, Ordered(a, b), NEW k, Part(Stream', Stream, k)
  PROVE  /\ All(Stream', CellsFrom(a, b))
         /\ \A v \in Nat : Behind(Stream', CellsWith(v), CellsAfter(v))
<1>1. All(Stream', CellsFrom(a, b))
  BY AllPart DEF Ordered
<1>2. ASSUME NEW v \in Nat PROVE Behind(Stream', CellsWith(v), CellsAfter(v))
  BY BehindPart DEF Ordered, Increasing
<1> QED BY <1>1, <1>2

\* A result is written.
LEMMA OrderAnswer ==
  ASSUME NEW a \in Nat, NEW b \in Nat, Ordered(a, b), Types, NEW p \in Pdu, p.kind = "result",
         buff' = buff, north' = north \o Cells(p)
  PROVE  /\ All(Stream', CellsFrom(a, b))
         /\ \A v \in Nat : Behind(Stream', CellsWith(v), CellsAfter(v))
<1> DEFINE c == FirstCell(p)
           d == SecondCell(p)
           s == Append(Stream, c)
<1>1. /\ c \in PduCell /\ d \in PduCell /\ s \in Seq(PduCell) /\ Stream \in Seq(PduCell)
      /\ Stream' = Append(s, d)
  BY StreamWritten
<1>2. ~NumberedCell(c) /\ ~NumberedCell(d)
  BY DEF NumberedCell, FirstCell, SecondCell
<1> HIDE DEF c, d
<1>3. c \in CellsFrom(a, b) /\ d \in CellsFrom(a, b)
  BY <1>1, <1>2 DEF CellsFrom
<1>4. All(s, CellsFrom(a, b))
  BY <1>1, <1>3, AllAppend DEF Ordered
<1>5. ASSUME NEW v \in Nat PROVE Behind(Stream', CellsWith(v), CellsAfter(v))
  <2>1. c \in CellsAfter(v) /\ d \in CellsAfter(v)
    BY <1>1, <1>2 DEF CellsAfter
  <2>2. Behind(s, CellsWith(v), CellsAfter(v))
    BY <1>1, <2>1, BehindAppend DEF Ordered, Increasing
  <2> HIDE DEF s
  <2> QED BY <1>1, <2>1, <2>2, BehindAppend
<1> HIDE DEF s
<1>6. All(Stream', CellsFrom(a, b))
  BY <1>1, <1>3, <1>4, AllAppend
<1> QED BY <1>5, <1>6

LEMMA OrderIntro ==
  ASSUME NEW a \in Nat, NEW b \in Nat, a <= b, b <= puts', puts' \in Nat,
         got' \in Seq(Gotten), All(got', GotBelow(a)),
         All(hq', QueuedFrom(b, puts')), All(Stream', CellsFrom(a, b)),
         \A v \in Nat : Behind(got', GotWith(v), GotAfter(v)),
         \A v \in Nat : Behind(hq', QueuedWith(v), QueuedAfter(v)),
         \A v \in Nat : Behind(Stream', CellsWith(v), CellsAfter(v))
  PROVE  OrderInv'
<1>1. Increasing'
  BY DEF Increasing, Behind, GotWith, GotAfter, CellsWith, CellsAfter, NumberedCell,
         QueuedWith, QueuedAfter
<1>2. Ordered(a, b)'
  BY <1>1 DEF Ordered, All, CellsFrom, NumberedCell, GotBelow, QueuedFrom
<1> QED BY <1>2 DEF OrderInv

\* The port gives the first message to the test, or takes the result of a send.
LEMMA TakeFacts ==
  ASSUME Inv, Take
  PROVE  /\ Part(Stream', Stream, 2) /\ Stream[1] \in PduCell /\ Stream[1].pdu = First
         /\ Stream[1].part = 1 /\ 1 \in 1..Len(Stream) /\ First \in Pdu
         /\ te = "ready" /\ teMapped /\ hq' = hq /\ puts' = puts
         /\ First.kind = "enqueue" => /\ got' = Append(got, [msg |-> First.msg, at |-> teEra])
                                      /\ First.msg \in Messages
         /\ First.kind # "enqueue" => got' = got
<1>1. /\ te = "ready" /\ teMapped /\ Complete /\ buff' = Rest /\ hq' = hq /\ puts' = puts
      /\ north' = north
      /\ First.kind = "enqueue" => got' = Append(got, [msg |-> First.msg, at |-> teEra])
      /\ First.kind # "enqueue" => got' = got
  BY DEF Take, handler, adapter
<1>2. /\ Part(Stream', Stream, 2) /\ Stream[1] = buff[1] /\ buff[1].pdu = First
      /\ buff[1] \in PduCell /\ buff[1].part = 1 /\ 1 \in 1..Len(Stream)
  BY <1>1, StreamTaken DEF Inv
<1>3. First \in Pdu /\ (First.kind = "enqueue" => First.msg \in Messages)
  BY <1>2 DEF PduCell, Pdu, Messages
<1> QED BY <1>1, <1>2, <1>3

LEMMA OrderTaken ==
  ASSUME Inv, OrderInv, Take, teEra \in Nat
  PROVE  OrderInv'
<1>1. PICK a \in Nat, b \in Nat : Ordered(a, b)
  BY DEF OrderInv
<1>2. /\ Part(Stream', Stream, 2) /\ Stream[1] \in PduCell /\ Stream[1].pdu = First
      /\ Stream[1].part = 1 /\ 1 \in 1..Len(Stream)
      /\ hq' = hq /\ puts' = puts
      /\ First.kind = "enqueue" => /\ got' = Append(got, [msg |-> First.msg, at |-> teEra])
                                   /\ First.msg \in Messages
      /\ First.kind # "enqueue" => got' = got
  BY TakeFacts
<1>3. /\ All(Stream', CellsFrom(a, b))
      /\ \A v \in Nat : Behind(Stream', CellsWith(v), CellsAfter(v))
  BY <1>1, <1>2, OrderStream
<1>4. /\ All(hq', QueuedFrom(b, puts')) /\ a <= b /\ b <= puts' /\ puts' \in Nat
      /\ \A v \in Nat : Behind(hq', QueuedWith(v), QueuedAfter(v))
      /\ got \in Seq(Gotten) /\ All(got, GotBelow(a))
      /\ \A v \in Nat : Behind(got, GotWith(v), GotAfter(v))
  BY <1>1, <1>2 DEF Ordered, Increasing
<1>5. CASE First.kind # "enqueue"
  BY <1>2, <1>3, <1>4, <1>5, OrderIntro
<1>6. CASE First.kind = "enqueue"
  <2> DEFINE x == [msg |-> First.msg, at |-> teEra]
             n == First.msg.n
  <2>1. x \in Gotten /\ n \in Nat /\ x.msg.n = n
    BY <1>2, <1>6 DEF Gotten, Messages
  <2>2. got' = Append(got, x)
    BY <1>2, <1>6
  <2> HIDE DEF x
  <2>3. a <= n /\ n < b /\ Stream[1] \in CellsWith(n)
    <3>1. NumberedCell(Stream[1])
      BY <1>2, <1>6 DEF NumberedCell
    <3>2. Stream[1] \in CellsFrom(a, b)
      BY <1>1, <1>2 DEF Ordered, All
    <3> QED BY <1>2, <3>1, <3>2 DEF CellsFrom, CellsWith
  <2>4. All(Stream', CellsAfter(n))
    BY <1>1, <1>2, <2>1, <2>3, BehindFirst DEF Ordered, Increasing
  <2> HIDE DEF n
  <2>5. n + 1 \in Nat /\ n + 1 <= b /\ n < n + 1 /\ (\A v \in Nat : n < v => n + 1 <= v)
        /\ (\A v \in Nat : v < a => v < n + 1 /\ v < n)
    BY <2>1, <2>3, SMT
  <2>6. All(Stream', CellsFrom(n + 1, b))
    <3>1. CellsFrom(a, b) \cap CellsAfter(n) \subseteq CellsFrom(n + 1, b)
      <4>1. SUFFICES ASSUME NEW c \in PduCell, c \in CellsFrom(a, b), c \in CellsAfter(n),
                            NumberedCell(c)
                     PROVE  n + 1 <= c.pdu.msg.n /\ c.pdu.msg.n < b
        BY DEF CellsFrom
      <4>2. n < c.pdu.msg.n /\ c.pdu.msg.n < b
        BY <4>1 DEF CellsFrom, CellsAfter
      <4>3. c.pdu.msg.n \in Nat
        BY <4>1 DEF NumberedCell, PduCell, Pdu
      <4> QED BY <2>5, <4>2, <4>3
    <3> QED BY <1>3, <2>4, <3>1 DEF All
  <2>7. All(got, GotBelow(n + 1))
    <3>1. GotBelow(a) \subseteq GotBelow(n + 1)
      BY <2>5 DEF GotBelow, Gotten, Messages
    <3> QED BY <1>4, <3>1, AllMonotonic
  <2>8. All(got', GotBelow(n + 1)) /\ got' \in Seq(Gotten)
    <3>1. x \in GotBelow(n + 1)
      BY <2>1, <2>5 DEF GotBelow
    <3> QED BY <1>4, <2>1, <2>2, <2>7, <3>1, AllAppend, AppendProperties
  <2>9. ASSUME NEW v \in Nat PROVE Behind(got', GotWith(v), GotAfter(v))
    <3>1. (\A i \in 1..Len(got) : got[i] \notin GotWith(v)) \/ x \in GotAfter(v)
      <4>1. SUFFICES ASSUME NEW i \in 1..Len(got), got[i] \in GotWith(v) PROVE x \in GotAfter(v)
        OBVIOUS
      <4>2. v < a
        BY <1>4, <4>1 DEF All, GotBelow, GotWith
      <4> QED BY <2>1, <2>5, <4>2 DEF GotAfter
    <3> QED BY <1>4, <2>1, <2>2, <3>1, BehindAppend
  <2> QED BY <1>3, <1>4, <2>5, <2>6, <2>8, <2>9, OrderIntro
<1> QED BY <1>5, <1>6

LEMMA OrderIndicated ==
  ASSUME Inv, OrderInv, HandleIndication, got' = got, puts' = puts
  PROVE  OrderInv'
<1>1. PICK a \in Nat, b \in Nat : Ordered(a, b)
  BY DEF OrderInv
<1> DEFINE kind == "enqueue"
           p == Enqueued(hq[1].msg)
           n == hq[1].msg.n
<1>2. /\ Handles(kind) /\ p \in Pdu /\ p.kind = "enqueue" /\ p.msg = hq[1].msg
      /\ north' = north \o Cells(p) /\ hq[1].msg \in Messages
  BY IndicationFacts DEF Messages
<1> HIDE DEF p
<1>3. kind = "enqueue" /\ n \in Nat
  BY <1>2 DEF Messages
<1> HIDE DEF kind
<1>4. /\ Part(hq', hq, 1) /\ hq[1].kind = kind /\ hq[1] \in Queued /\ 1 \in 1..Len(hq)
      /\ buff' = buff
  BY <1>2, Taken
<1>5. /\ a <= b /\ b <= puts /\ puts \in Nat /\ got \in Seq(Gotten) /\ All(got, GotBelow(a))
      /\ All(Stream, CellsFrom(a, b)) /\ All(hq, QueuedFrom(b, puts))
      /\ \A v \in Nat : Behind(got, GotWith(v), GotAfter(v))
      /\ \A v \in Nat : Behind(Stream, CellsWith(v), CellsAfter(v))
      /\ \A v \in Nat : Behind(hq, QueuedWith(v), QueuedAfter(v))
  BY <1>1 DEF Ordered, Increasing
<1>6. hq[1] \in QueuedWith(n) /\ b <= n /\ n < puts
  <2>1. hq[1] \in QueuedFrom(b, puts)
    BY <1>4, <1>5 DEF All
  <2> QED BY <1>3, <1>4, <2>1 DEF QueuedFrom, QueuedWith
<1>7. All(hq', QueuedFrom(b, puts)) /\ All(hq', QueuedAfter(n))
      /\ \A v \in Nat : Behind(hq', QueuedWith(v), QueuedAfter(v))
  <2>1. All(hq', QueuedFrom(b, puts))
    BY <1>4, <1>5, AllPart
  <2>2. All(hq', QueuedAfter(n))
    <3>1. Behind(hq, QueuedWith(n), QueuedAfter(n)) /\ 1 # 0
      BY <1>3, <1>5
    <3> HIDE DEF n
    <3> QED BY <1>4, <1>6, <3>1, BehindFirst
  <2>3. ASSUME NEW v \in Nat PROVE Behind(hq', QueuedWith(v), QueuedAfter(v))
    BY <1>4, <1>5, BehindPart
  <2> QED BY <2>1, <2>2, <2>3
<1>8. n = p.msg.n
  BY <1>2
<1> HIDE DEF n
<1>9. /\ n + 1 \in Nat /\ n + 1 <= puts /\ a <= n + 1 /\ a <= n /\ n < n + 1
      /\ \A v \in Nat : n < v => n + 1 <= v
      /\ \A v \in Nat : v < b => v < n + 1 /\ v < n
  BY <1>3, <1>5, <1>6, SMT
<1>10. All(hq', QueuedFrom(n + 1, puts))
  <2>1. QueuedFrom(b, puts) \cap QueuedAfter(n) \subseteq QueuedFrom(n + 1, puts)
    <3>1. SUFFICES ASSUME NEW r \in Queued, r \in QueuedFrom(b, puts), r \in QueuedAfter(n),
                          r.kind = "enqueue"
                   PROVE  n + 1 <= r.msg.n /\ r.msg.n < puts
      BY DEF QueuedFrom
    <3>2. n < r.msg.n /\ r.msg.n < puts
      BY <3>1 DEF QueuedFrom, QueuedAfter
    <3>3. r.msg.n \in Nat
      BY <3>1 DEF Queued, Requests, Undecodable
    <3> QED BY <1>9, <3>2, <3>3
  <2> QED BY <1>7, <2>1 DEF All
<1> DEFINE c == FirstCell(p)
           d == SecondCell(p)
           s == Append(Stream, c)
<1>11. /\ c \in PduCell /\ d \in PduCell /\ s \in Seq(PduCell) /\ Stream \in Seq(PduCell)
       /\ Stream' = Append(s, d)
  BY <1>2, <1>4, StreamWritten DEF Inv
<1>12. NumberedCell(c) /\ c.pdu.msg.n = n /\ ~NumberedCell(d)
  BY <1>2, <1>8 DEF NumberedCell, FirstCell, SecondCell
<1> HIDE DEF c, d
<1>13. c \in CellsFrom(a, n + 1) /\ d \in CellsFrom(a, n + 1)
  BY <1>9, <1>11, <1>12 DEF CellsFrom
<1>14. All(Stream, CellsFrom(a, n + 1))
  <2>1. CellsFrom(a, b) \subseteq CellsFrom(a, n + 1)
    <3>1. SUFFICES ASSUME NEW x \in CellsFrom(a, b), NumberedCell(x)
                   PROVE  a <= x.pdu.msg.n /\ x.pdu.msg.n < n + 1
      BY DEF CellsFrom
    <3>2. x.pdu.msg.n \in Nat /\ a <= x.pdu.msg.n /\ x.pdu.msg.n < b
      BY <3>1 DEF CellsFrom, NumberedCell, PduCell, Pdu
    <3> QED BY <1>9, <3>2
  <2> QED BY <1>5, <2>1, AllMonotonic
<1>15. All(s, CellsFrom(a, n + 1))
  BY <1>11, <1>13, <1>14, AllAppend
<1>16. ASSUME NEW v \in Nat PROVE Behind(Stream', CellsWith(v), CellsAfter(v))
  <2>1. (\A i \in 1..Len(Stream) : Stream[i] \notin CellsWith(v)) \/ c \in CellsAfter(v)
    <3>1. SUFFICES ASSUME NEW i \in 1..Len(Stream), Stream[i] \in CellsWith(v)
                   PROVE  c \in CellsAfter(v)
      OBVIOUS
    <3>2. v < b
      BY <1>5, <3>1 DEF All, CellsFrom, CellsWith
    <3> QED BY <1>9, <1>11, <1>12, <3>2 DEF CellsAfter
  <2>2. Behind(s, CellsWith(v), CellsAfter(v))
    BY <1>5, <1>11, <2>1, BehindAppend
  <2>3. d \in CellsAfter(v)
    BY <1>11, <1>12 DEF CellsAfter
  <2> HIDE DEF s
  <2> QED BY <1>11, <2>2, <2>3, BehindAppend
<1> HIDE DEF s
<1>17. All(Stream', CellsFrom(a, n + 1))
  BY <1>11, <1>13, <1>15, AllAppend
<1> QED BY <1>5, <1>7, <1>9, <1>10, <1>16, <1>17, OrderIntro

LEMMA OrderPut ==
  ASSUME Inv, OrderInv, NEW m \in held, Put(m)
  PROVE  OrderInv'
<1>1. PICK a \in Nat, b \in Nat : Ordered(a, b)
  BY DEF OrderInv
<1> DEFINE late == ~hMapped \/ era # m.era
           msg == [n |-> puts, era |-> m.era, late |-> late]
           x == Indication(msg)
<1>2. /\ hq' = Append(hq, x) /\ x \in Queued /\ x.kind = "enqueue" /\ x.msg = msg
      /\ hq \in Seq(Queued) /\ puts' = puts + 1
  BY PutFacts
<1>3. x.msg.n = puts
  BY <1>2
<1> HIDE DEF x, msg, late
<1>4. got' = got /\ Stream' = Stream
  BY DEF Put, titan, Stream
<1>5. /\ a <= b /\ b <= puts /\ puts \in Nat /\ got \in Seq(Gotten) /\ All(got, GotBelow(a))
      /\ All(Stream, CellsFrom(a, b)) /\ All(hq, QueuedFrom(b, puts))
      /\ \A v \in Nat : Behind(got, GotWith(v), GotAfter(v))
      /\ \A v \in Nat : Behind(Stream, CellsWith(v), CellsAfter(v))
      /\ \A v \in Nat : Behind(hq, QueuedWith(v), QueuedAfter(v))
  BY <1>1 DEF Ordered, Increasing
<1>6. puts' \in Nat /\ b <= puts' /\ puts < puts' /\ \A v \in Nat : v < puts => v < puts'
  BY <1>2, <1>5, SMT
<1>7. All(hq', QueuedFrom(b, puts'))
  <2>1. QueuedFrom(b, puts) \subseteq QueuedFrom(b, puts')
    <3>1. SUFFICES ASSUME NEW r \in QueuedFrom(b, puts), r.kind = "enqueue"
                   PROVE  r.msg.n < puts'
      BY DEF QueuedFrom
    <3>2. r.msg.n \in Nat /\ r.msg.n < puts
      BY <3>1 DEF QueuedFrom, Queued, Requests, Undecodable
    <3> QED BY <1>6, <3>2
  <2>2. x \in QueuedFrom(b, puts')
    BY <1>2, <1>3, <1>5, <1>6 DEF QueuedFrom
  <2>3. All(hq, QueuedFrom(b, puts'))
    BY <1>5, <2>1, AllMonotonic
  <2> QED BY <1>2, <2>2, <2>3, AllAppend
<1>8. ASSUME NEW v \in Nat PROVE Behind(hq', QueuedWith(v), QueuedAfter(v))
  <2>1. (\A i \in 1..Len(hq) : hq[i] \notin QueuedWith(v)) \/ x \in QueuedAfter(v)
    <3>1. SUFFICES ASSUME NEW i \in 1..Len(hq), hq[i] \in QueuedWith(v) PROVE x \in QueuedAfter(v)
      OBVIOUS
    <3>2. v < puts
      BY <1>5, <3>1 DEF All, QueuedFrom, QueuedWith
    <3> QED BY <1>2, <1>3, <3>2 DEF QueuedAfter
  <2> QED BY <1>2, <1>5, <2>1, BehindAppend
<1> QED BY <1>4, <1>5, <1>6, <1>7, <1>8, OrderIntro

LEMMA OrderNext == Inv /\ CallInv /\ MapInv /\ OrderInv /\ [Next]_vars => OrderInv'
<1> SUFFICES ASSUME Inv, CallInv, MapInv, OrderInv, [Next]_vars PROVE OrderInv'
  OBVIOUS
<1>1. PICK a \in Nat, b \in Nat : Ordered(a, b)
  BY DEF OrderInv
<1>14. /\ a <= b /\ b <= puts /\ puts \in Nat /\ got \in Seq(Gotten) /\ All(got, GotBelow(a))
       /\ \A v \in Nat : Behind(got, GotWith(v), GotAfter(v))
  BY <1>1 DEF Ordered, Increasing
\* The steps that give nothing to the test and put nothing in the queue that has a number.
<1>2. ASSUME got' = got, puts' = puts, NEW k, Part(Stream', Stream, k),
             \/ hq' = hq \/ hq' = <<>> \/ Part(hq', hq, 1)
             \/ \E m \in Queued : hq' = Append(hq, m) /\ hq \in Seq(Queued) /\ m.kind # "enqueue"
      PROVE  OrderInv'
  <2>1. /\ All(hq', QueuedFrom(b, puts'))
        /\ \A v \in Nat : Behind(hq', QueuedWith(v), QueuedAfter(v))
    BY <1>1, <1>2, OrderQueue
  <2>2. /\ All(Stream', CellsFrom(a, b))
        /\ \A v \in Nat : Behind(Stream', CellsWith(v), CellsAfter(v))
    BY <1>1, <1>2, OrderStream
  <2> QED BY <1>2, <1>14, <2>1, <2>2, OrderIntro
<1>3. Types
  BY DEF Inv
<1>4. CASE Start \/ AskMap \/ AskUnmap \/ Stop
  <2>1. PICK kind \in Calls : \/ kind = "register" /\ Start
                              \/ kind = "map" /\ AskMap
                              \/ kind = "unmap" /\ AskUnmap
                              \/ kind = "unregister" /\ Stop
    BY <1>4 DEF Calls
  <2>2. /\ te \in {"off", "ready"} /\ (te = "ready" => hq' = hq) /\ (te = "off" => hq' = <<>>)
        /\ UNCHANGED <<puts, got>> /\ \E k \in Nat : Part(Stream', Stream, k)
    BY <2>1, AskActions
  <2> QED BY <1>2, <2>2
<1>5. CASE Send \/ LookUp \/ ReaderReads
  <2>1. UNCHANGED <<puts, got>> /\ Stream' = Stream
    BY <1>5 DEF Send, LookUp, ReaderReads, titan, handler, adapter, Stream
  <2>2. \/ hq' = hq
        \/ \E m \in Queued : hq' = Append(hq, m) /\ hq \in Seq(Queued) /\ m.kind # "enqueue"
    <3>1. CASE Send \/ LookUp
      BY <3>1 DEF Send, LookUp, handler
    <3>2. CASE ReaderReads
      <4>1. PICK m \in {Head(south), Undecodable} : hq' = Append(hq, m)
        BY <3>2 DEF ReaderReads
      <4>2. hq \in Seq(Queued) /\ south \in Seq(Requests) /\ south # <<>>
        BY <3>2 DEF ReaderReads, Inv, Types
      <4>3. Head(south) \in Requests
        BY <4>2, HeadTailProperties
      <4>4. m \in Queued /\ m.kind # "enqueue"
        BY <4>3 DEF Queued, Requests, Undecodable
      <4> QED BY <4>1, <4>2, <4>4
    <3> QED BY <1>5, <3>1, <3>2
  <2>3. Part(Stream', Stream, 0)
    BY <1>3, <2>1, SamePart
  <2> QED BY <1>2, <2>1, <2>2, <2>3
<1>6. CASE Receive \/ ConnectionLost \/ DecodingFails \/ UNCHANGED vars
  <2>1. hq' = hq /\ puts' = puts /\ \E k \in Nat : Part(Stream', Stream, k)
    BY <1>6, PortReads
  <2>2. got' = got
    BY <1>6 DEF Receive, ConnectionLost, DecodingFails, vars
  <2> QED BY <1>2, <2>1, <2>2
<1>7. CASE Take
  BY <1>7, OrderTaken DEF MapInv
<1>8. CASE WaitTakes
  <2>1. got' = got /\ hq' = hq /\ puts' = puts /\ north' = north /\ Complete
    BY <1>8 DEF WaitTakes, handler, adapter
  <2>2. \E k \in Nat : Part(Stream', Stream, k)
    <3>1. CASE First.id # pending.id
      BY <1>8, <3>1, PortReads
    <3>2. CASE First.id = pending.id
      <4>1. buff' = Rest \/ buff' = <<>>
        BY <1>8, <3>2, FirstIsResult DEF WaitTakes, Returns
      <4>2. Part(Stream', Stream, 2) \/ Part(Stream', Stream, Len(buff))
        BY <1>3, <2>1, <4>1, StreamTaken, StreamCleared
      <4> QED BY <4>2 DEF Part
    <3> QED BY <3>1, <3>2
  <2> QED BY <1>2, <2>1, <2>2
<1>9. ASSUME NEW kind, Handles(kind), NEW p \in Pdu, p.kind = "result",
             north' = north \/ north' = north \o Cells(p)
      PROVE  OrderInv'
  <2>1. Part(hq', hq, 1) /\ buff' = buff
    BY <1>9, Taken
  <2>2. got' = got /\ puts' = puts
    BY <1>9 DEF Handles, adapter
  <2>3. CASE north' = north
    <3>1. Stream' = Stream
      BY <2>1, <2>3 DEF Stream
    <3>2. Part(Stream', Stream, 0)
      BY <1>3, <3>1, SamePart
    <3> QED BY <1>2, <2>1, <2>2, <3>2
  <2>4. CASE north' = north \o Cells(p)
    <3>1. /\ All(Stream', CellsFrom(a, b))
          /\ \A v \in Nat : Behind(Stream', CellsWith(v), CellsAfter(v))
      BY <1>1, <1>3, <1>9, <2>1, <2>4, OrderAnswer
    <3>2. /\ All(hq', QueuedFrom(b, puts'))
          /\ \A v \in Nat : Behind(hq', QueuedWith(v), QueuedAfter(v))
      BY <1>1, <2>1, <2>2, OrderQueue
    <3> QED BY <1>14, <2>2, <3>1, <3>2, OrderIntro
  <2> QED BY <1>9, <2>3, <2>4
<1>10. CASE HandleRegister \/ HandleMap \/ HandleUnmap \/ HandleUnregister
  <2>1. PICK kind \in Calls : \/ kind = "register" /\ HandleRegister
                              \/ kind = "map" /\ HandleMap
                              \/ kind = "unmap" /\ HandleUnmap
                              \/ kind = "unregister" /\ HandleUnregister
    BY <1>10 DEF Calls
  <2>2. /\ Handles(kind) /\ north' = north \o Cells(Answer(Head(hq), TRUE)) /\ hq[1] = pending
        /\ Waiting
    BY <2>1, CallActions
  <2> DEFINE p == Answer(Head(hq), TRUE)
  <2>3. p \in Pdu /\ p.kind = "result" /\ north' = north \o Cells(p)
    <3>1. Head(hq) = pending /\ pending \in Requests
      BY <2>2, Taken DEF CallInv, CallState, Waiting
    <3>2. Head(hq).id \in Nat
      BY <3>1 DEF Requests
    <3> QED BY <2>2, <3>2, AnswerFacts
  <2> HIDE DEF p
  <2> QED BY <1>9, <2>2, <2>3
<1>11. CASE HandleSend \/ HandleUndecodable
  <2>1. PICK kind \in {"send", "undecodable"}, p \in Pdu :
           Handles(kind) /\ p.kind = "result" /\ (north' = north \/ north' = north \o Cells(p))
    BY <1>11, AnswerActions, Zenon
  <2> QED BY <1>9, <2>1
<1>12. CASE HandleIndication
  <2>1. got' = got /\ puts' = puts
    BY <1>12 DEF HandleIndication, Handles, adapter
  <2> QED BY <1>12, <2>1, OrderIndicated
<1>13. CASE \E m \in held : Put(m)
  BY <1>13, OrderPut
<1> QED BY <1>4, <1>5, <1>6, <1>7, <1>8, <1>10, <1>11, <1>12, <1>13
        DEF Next, TitanReceives, HandlerStep

-----------------------------------------------------------------------------
(* What the test has got.                                                   *)

GotInv == got \in Seq(Gotten) /\ All(got, {g \in Gotten : g.msg.late \/ g.msg.era = g.at})

LEMMA GotInit == Init => GotInv
<1> SUFFICES ASSUME Init PROVE GotInv
  OBVIOUS
<1> QED BY AllEmpty, EmptySeq DEF Init, GotInv

LEMMA GotNext == Inv /\ CallInv /\ MapInv /\ FreshInv /\ GotInv /\ [Next]_vars => GotInv'
<1> SUFFICES ASSUME Inv, CallInv, MapInv, FreshInv, GotInv, [Next]_vars PROVE GotInv'
  OBVIOUS
<1>1. CASE got' = got
  BY <1>1 DEF GotInv, All
<1>2. CASE Take
  <2>1. /\ Stream[1].pdu = First /\ 1 \in 1..Len(Stream) /\ te = "ready" /\ teMapped
        /\ First.kind = "enqueue" => /\ got' = Append(got, [msg |-> First.msg, at |-> teEra])
                                     /\ First.msg \in Messages
        /\ First.kind # "enqueue" => got' = got
    BY <1>2, TakeFacts
  <2>2. CASE First.kind = "enqueue"
    <3>1. First.msg.late \/ First.msg.era = era
      <4>1. Stream[1] \in FreshCells
        BY <2>1 DEF FreshInv, All
      <4> QED BY <2>1, <2>2, <4>1 DEF FreshCells, Fresh
    <3>2. era = teEra /\ teEra \in Nat
      BY <2>1 DEF MapInv, CallInv, CallState, Errors
    <3> DEFINE x == [msg |-> First.msg, at |-> teEra]
    <3>3. x \in Gotten /\ x.msg = First.msg /\ x.at = teEra
      BY <2>1, <2>2, <3>2 DEF Gotten
    <3>4. got' = Append(got, x)
      BY <2>1, <2>2
    <3> HIDE DEF x
    <3>5. x \in {g \in Gotten : g.msg.late \/ g.msg.era = g.at}
      BY <3>1, <3>2, <3>3
    <3> QED BY <3>3, <3>4, <3>5, AllAppend, AppendProperties DEF GotInv
  <2>3. CASE First.kind # "enqueue"
    BY <1>1, <2>1, <2>3
  <2> QED BY <2>2, <2>3
<1>3. got' = got \/ Take
  BY DEF Next, Start, AskMap, AskUnmap, Stop, Send, TitanReceives, Receive, ConnectionLost,
         WaitTakes, DecodingFails, ReaderReads, HandlerStep, HandleRegister, HandleMap,
         HandleUnmap, HandleUnregister, HandleSend, HandleUndecodable, HandleIndication, Handles,
         LookUp, Put, vars
<1> QED BY <1>1, <1>2, <1>3

LEMMA DeliveryHolds == OrderInv /\ GotInv => Delivery
<1> SUFFICES ASSUME OrderInv, GotInv PROVE Delivery
  OBVIOUS
<1>1. \A v \in Nat : Behind(got, GotWith(v), GotAfter(v))
  BY DEF OrderInv, Ordered, Increasing
<1>2. \A i \in 1..Len(got) : got[i] \in Gotten
  BY ElementOfSeq DEF GotInv
<1>3. ASSUME NEW i \in 1..Len(got), NEW j \in 1..Len(got), i < j
      PROVE  got[i].msg.n < got[j].msg.n
  <2>1. got[i].msg.n \in Nat /\ got[i] \in GotWith(got[i].msg.n)
    BY <1>2 DEF Gotten, Messages, GotWith
  <2>2. got[j] \in GotAfter(got[i].msg.n)
    BY <1>1, <1>3, <2>1 DEF Behind
  <2> QED BY <2>2 DEF GotAfter
<1>4. ASSUME NEW i \in 1..Len(got) PROVE got[i].msg.late \/ got[i].msg.era = got[i].at
  BY DEF GotInv, All
<1> QED BY <1>3, <1>4 DEF Delivery

-----------------------------------------------------------------------------
(* The types.                                                               *)

BoundInv ==
  /\ IsFiniteSet(held) /\ held \subseteq [look : 0..looked, era : 0..era]
  /\ puts + Cardinality(held) <= looked /\ looked <= MaxMsgs

TypeInv ==
  /\ nextId <= MaxId /\ pending \in ToMapper \cup {<<>>}
  /\ All(south, ToMapper) /\ All(hq, InQueue) /\ All(Stream, Cell)
  /\ All(got, [msg : Message, at : 0..teEra])

LEMMA BoundInit == Init => BoundInv /\ TypeInv
<1> SUFFICES ASSUME Init PROVE BoundInv /\ TypeInv
  OBVIOUS
<1>1. IsFiniteSet(held) /\ Cardinality(held) = 0 /\ held = {} /\ puts = 0 /\ looked = 0
  BY FS_EmptySet DEF Init
<1>2. 0 <= MaxMsgs /\ 0 <= MaxId /\ 0 + 0 <= 0
  BY BoundsAssumption, SMT
<1>3. Stream = <<>>
  <2>1. <<>> \in Seq(PduCell)
    BY EmptySeq
  <2> QED BY <2>1, ConcatEmptySeq DEF Init, Stream
<1>4. TypeInv
  BY <1>2, <1>3, AllEmpty DEF Init, TypeInv
<1> QED BY <1>1, <1>2, <1>4 DEF BoundInv

\* A mapping is counted when the request is handled and when its result is taken.
LEMMA ErasGrow ==
  ASSUME Inv, MapInv, [Next]_vars
  PROVE  /\ era' \in Nat /\ teEra' \in Nat /\ era <= era' /\ teEra <= teEra'
         /\ 0..era \subseteq 0..era' /\ 0..teEra \subseteq 0..teEra'
<1>1. era' = era \/ era' = era + 1
  BY DEF Next, Start, AskMap, AskUnmap, Stop, Send, TitanReceives, Receive, ConnectionLost,
         WaitTakes, Take, DecodingFails, ReaderReads, HandlerStep, HandleRegister, HandleMap,
         HandleUnmap, HandleUnregister, HandleSend, HandleUndecodable, HandleIndication,
         LookUp, Put, vars, handler
<1>2. teEra' = teEra \/ teEra' = teEra + 1
  BY DEF Next, Start, AskMap, AskUnmap, Stop, Send, TitanReceives, Receive, ConnectionLost,
         WaitTakes, Returns, Take, DecodingFails, ReaderReads, HandlerStep, HandleRegister,
         HandleMap,
         HandleUnmap, HandleUnregister, HandleSend, HandleUndecodable, HandleIndication, Handles,
         LookUp, Put, vars, titan
<1>3. era \in Nat /\ teEra \in Nat
  BY DEF Inv, Types, MapInv
<1>4. ASSUME NEW m \in Nat, NEW n, n = m \/ n = m + 1
      PROVE  n \in Nat /\ m <= n /\ 0..m \subseteq 0..n
  BY <1>4, SMT
<1> QED BY <1>1, <1>2, <1>3, <1>4

LEMMA BoundNext == Inv /\ CallInv /\ MapInv /\ BoundInv /\ [Next]_vars => BoundInv'
<1> SUFFICES ASSUME Inv, CallInv, MapInv, BoundInv, [Next]_vars PROVE BoundInv'
  OBVIOUS
<1>1. 0..era \subseteq 0..era' /\ era \in Nat
  BY ErasGrow DEF Inv, Types
<1>2. puts \in Nat /\ looked \in Nat /\ MaxMsgs \in Nat /\ Cardinality(held) \in Nat
  BY BoundsAssumption, FS_CardinalityType DEF Inv, Types, BoundInv
<1>3. CASE UNCHANGED <<held, looked, puts>>
  <2>1. [look : 0..looked, era : 0..era] \subseteq [look : 0..looked, era : 0..era']
    BY <1>1
  <2> QED BY <1>3, <2>1 DEF BoundInv
<1>4. CASE Start
  <2>1. held' = {} /\ looked' = looked /\ puts' = puts
    BY <1>4 DEF Start
  <2>2. IsFiniteSet({}) /\ Cardinality({}) = 0
    BY FS_EmptySet
  <2>3. puts + 0 <= looked /\ looked <= MaxMsgs
    BY <1>2, SMT DEF BoundInv
  <2> QED BY <2>1, <2>2, <2>3 DEF BoundInv
<1>5. CASE LookUp
  <2> DEFINE x == [look |-> looked, era |-> era]
  <2>1. looked < MaxMsgs /\ looked' = looked + 1 /\ puts' = puts /\ era' = era
        /\ held' = held \cup {x}
    BY <1>5 DEF LookUp, handler
  <2>2. held' \subseteq [look : 0..looked', era : 0..era']
    <3>1. 0..looked \subseteq 0..(looked + 1) /\ looked \in 0..(looked + 1) /\ era \in 0..era
      BY <1>1, <1>2, SMT
    <3> QED BY <2>1, <3>1 DEF BoundInv
  <2> HIDE DEF x
  <2>3. IsFiniteSet(held') /\ Cardinality(held') \in {Cardinality(held), Cardinality(held) + 1}
    BY <2>1, FS_AddElement DEF BoundInv
  <2>4. puts' + Cardinality(held') <= looked' /\ looked' <= MaxMsgs
    <3> DEFINE n == Cardinality(held)
               k == Cardinality(held')
    <3>1. n \in Nat /\ k \in {n, n + 1} /\ puts + n <= looked
      BY <1>2, <2>3 DEF BoundInv
    <3> HIDE DEF n, k
    <3>2. puts' + k <= looked' /\ looked' <= MaxMsgs
      BY <1>2, <2>1, <3>1, SMT
    <3> QED BY <3>2 DEF k
  <2> QED BY <2>2, <2>3, <2>4 DEF BoundInv
<1>6. CASE \E m \in held : Put(m)
  <2>1. PICK m \in held : Put(m)
    BY <1>6
  <2>2. held' = held \ {m} /\ puts' = puts + 1 /\ looked' = looked /\ era' = era
    BY <2>1 DEF Put
  <2>3. IsFiniteSet(held') /\ Cardinality(held') = Cardinality(held) - 1
    BY <2>2, FS_RemoveElement DEF BoundInv
  <2>4. puts' + Cardinality(held') <= looked'
    <3> DEFINE n == Cardinality(held)
               k == Cardinality(held')
    <3>1. n \in Nat /\ k = n - 1 /\ puts + n <= looked
      BY <1>2, <2>3 DEF BoundInv
    <3> HIDE DEF n, k
    <3>2. puts' + k <= looked'
      BY <1>2, <2>2, <3>1, SMT
    <3> QED BY <3>2 DEF k
  <2> QED BY <2>2, <2>3, <2>4 DEF BoundInv
<1>7. \/ UNCHANGED <<held, looked, puts>>
      \/ Start \/ LookUp \/ \E m \in held : Put(m)
  BY DEF Next, AskMap, AskUnmap, Stop, Send, TitanReceives, Receive, ConnectionLost, WaitTakes,
         Take, DecodingFails, ReaderReads, HandlerStep, HandleRegister, HandleMap, HandleUnmap,
         HandleUnregister, HandleSend, HandleUndecodable, HandleIndication, Handles, vars, adapter
<1> QED BY <1>3, <1>4, <1>5, <1>6, <1>7

\* A result with an id in range, and a message of a mapping that was made.
LEMMA CellTypes ==
  ASSUME NEW p \in Pdu
  PROVE  /\ (p.kind = "result" /\ p.id \in 0..MaxId) => p \in ToPort
         /\ (p.kind = "enqueue" /\ p.msg \in Message) => p \in ToPort
         /\ p \in ToPort => FirstCell(p) \in Cell /\ SecondCell(p) \in Cell
<1>1. (p.kind = "result" /\ p.id \in 0..MaxId) =>
        p \in [kind : {"result"}, id : 0..MaxId, ok : BOOLEAN]
  <2>1. SUFFICES ASSUME p.kind = "result", p.id \in 0..MaxId
                 PROVE  p \in [kind : {"result"}, id : 0..MaxId, ok : BOOLEAN]
    OBVIOUS
  <2>2. p \in [kind : {"result"}, id : Nat, ok : BOOLEAN]
    BY <2>1 DEF Pdu
  <2> QED BY <2>1, <2>2
<1>2. (p.kind = "enqueue" /\ p.msg \in Message) =>
        p \in [kind : {"enqueue"}, id : {1}, msg : Message]
  <2>1. SUFFICES ASSUME p.kind = "enqueue", p.msg \in Message
                 PROVE  p \in [kind : {"enqueue"}, id : {1}, msg : Message]
    OBVIOUS
  <2>2. p \in [kind : {"enqueue"}, id : {1}, msg : Messages]
    BY <2>1 DEF Pdu, Messages
  <2> QED BY <2>1, <2>2
<1>3. p \in ToPort => FirstCell(p) \in Cell /\ SecondCell(p) \in Cell
  BY DEF FirstCell, SecondCell, Cell
<1> QED BY <1>1, <1>2, <1>3 DEF ToPort

\* The handler writes p.
LEMMA TypeWritten ==
  ASSUME Types, TypeInv, NEW p \in Pdu, p \in ToPort, buff' = buff, north' = north \o Cells(p)
  PROVE  All(Stream', Cell)
<1> DEFINE c == FirstCell(p)
           d == SecondCell(p)
           s == Append(Stream, c)
<1>1. /\ c \in PduCell /\ d \in PduCell /\ s \in Seq(PduCell) /\ Stream \in Seq(PduCell)
      /\ Stream' = Append(s, d)
  BY StreamWritten
<1>2. c \in Cell /\ d \in Cell
  BY CellTypes
<1> HIDE DEF c, d
<1>3. All(s, Cell)
  BY <1>1, <1>2, AllAppend DEF TypeInv
<1> HIDE DEF s
<1> QED BY <1>1, <1>2, <1>3, AllAppend

LEMMA TypeNext ==
  Inv /\ CallInv /\ MapInv /\ GotInv /\ BoundInv /\ TypeInv /\ [Next]_vars => TypeInv'
<1> SUFFICES ASSUME Inv, CallInv, MapInv, GotInv, BoundInv, TypeInv, [Next]_vars PROVE TypeInv'
  OBVIOUS
\* What has its type keeps it.
<1>1. /\ Message \subseteq Message' /\ Cell \subseteq Cell' /\ InQueue \subseteq InQueue'
      /\ ToMapper' = ToMapper
      /\ [msg : Message, at : 0..teEra] \subseteq [msg : Message', at : 0..teEra']
  <2>1. 0..era \subseteq 0..era' /\ 0..teEra \subseteq 0..teEra'
    BY ErasGrow
  <2>2. Message \subseteq Message'
    BY <2>1 DEF Message
  <2>3. ToPort \subseteq ToPort'
    BY <2>2 DEF ToPort
  <2>4. Cell \subseteq Cell'
    BY <2>3 DEF Cell
  <2>5. ToMapper' = ToMapper
    BY DEF ToMapper
  <2>6. InQueue \subseteq InQueue'
    BY <2>2, <2>5 DEF InQueue, Undecodable
  <2> QED BY <2>1, <2>2, <2>4, <2>5, <2>6
<1>2. ASSUME nextId' <= MaxId, pending' \in ToMapper \cup {<<>>}, All(south', ToMapper),
             All(hq', InQueue), All(Stream', Cell), All(got', [msg : Message, at : 0..teEra])
      PROVE  TypeInv'
  <2>1. All(hq', InQueue')
    BY <1>1, <1>2 DEF All
  <2>2. All(Stream', Cell')
    BY <1>1, <1>2 DEF All
  <2>3. All(got', [msg : Message', at : 0..teEra'])
    BY <1>1, <1>2 DEF All
  <2> QED BY <1>1, <1>2, <2>1, <2>2, <2>3 DEF TypeInv, All
<1>3. /\ nextId <= MaxId /\ pending \in ToMapper \cup {<<>>} /\ All(south, ToMapper)
      /\ All(hq, InQueue) /\ All(Stream, Cell) /\ All(got, [msg : Message, at : 0..teEra])
  BY DEF TypeInv
<1>4. /\ Types /\ nextId \in Nat /\ MaxId \in Nat /\ south \in Seq(Requests) /\ hq \in Seq(Queued)
      /\ era \in Nat /\ puts \in Nat
  BY BoundsAssumption DEF Inv, Types
\* A request with the next id.
<1>5. ASSUME NEW kind \in Calls \cup {"send"}, nextId < MaxId
      PROVE  /\ Request(kind) \in ToMapper /\ nextId + 1 <= MaxId
             /\ All(Append(south, Request(kind)), ToMapper)
  <2>1. nextId \in 0..MaxId /\ nextId + 1 <= MaxId
    BY <1>4, <1>5, SMT
  <2>2. Request(kind) \in ToMapper /\ Request(kind) \in Requests
    BY <1>4, <2>1 DEF Request, ToMapper, Requests, Calls
  <2> QED BY <1>3, <1>4, <2>1, <2>2, AllAppend
<1>6. CASE Start \/ AskMap \/ AskUnmap \/ Stop
  <2>1. PICK kind \in Calls : \/ kind = "register" /\ Start
                              \/ kind = "map" /\ AskMap
                              \/ kind = "unmap" /\ AskUnmap
                              \/ kind = "unregister" /\ Stop
    BY <1>6 DEF Calls
  <2>2. /\ Ask(kind) /\ te \in {"off", "ready"} /\ (te = "ready" => hq' = hq)
        /\ (te = "off" => hq' = <<>>) /\ got' = got /\ \E k \in Nat : Part(Stream', Stream, k)
    BY <2>1, AskActions
  <2>3. /\ nextId < MaxId /\ nextId' = nextId + 1 /\ south' = Append(south, Request(kind))
        /\ pending' = Request(kind)
    BY <2>2 DEF Ask
  <2>4. All(hq', InQueue) /\ All(Stream', Cell)
    BY <1>3, <2>2, AllEmpty, AllPart
  <2> QED BY <1>2, <1>3, <1>5, <2>2, <2>3, <2>4
<1>7. CASE Send
  <2>1. /\ nextId < MaxId /\ nextId' = nextId + 1 /\ south' = Append(south, Request("send"))
        /\ pending' = pending /\ hq' = hq /\ Stream' = Stream /\ got' = got
    BY <1>7 DEF Send, handler, Stream
  <2> QED BY <1>2, <1>3, <1>5, <2>1
<1>8. CASE Receive \/ ConnectionLost \/ DecodingFails \/ Take
             \/ (WaitTakes /\ First.id # pending.id) \/ UNCHANGED vars
  <2>1. /\ nextId' = nextId /\ pending' = pending /\ south' = south /\ hq' = hq
        /\ \E k \in Nat : Part(Stream', Stream, k)
    BY <1>8, PortReads
  <2>2. All(Stream', Cell)
    BY <1>3, <2>1, AllPart
  <2>3. All(got', [msg : Message, at : 0..teEra])
    <3>1. CASE got' = got
      BY <1>3, <3>1
    <3>2. ASSUME Take, First.kind = "enqueue" PROVE All(got', [msg : Message, at : 0..teEra])
      <4>1. /\ Stream[1].pdu = First /\ 1 \in 1..Len(Stream) /\ First \in Pdu
            /\ got' = Append(got, [msg |-> First.msg, at |-> teEra])
        BY <3>2, TakeFacts
      <4>2. First.msg \in Message
        <5>1. First \in ToPort
          BY <1>3, <4>1 DEF All, Cell
        <5> QED BY <3>2, <5>1 DEF ToPort
      <4>3. teEra \in 0..teEra
        <5>1. teEra \in Nat
          BY DEF MapInv
        <5> QED BY <5>1, SMT
      <4> DEFINE x == [msg |-> First.msg, at |-> teEra]
                 T == [msg : Message, at : 0..teEra]
      <4>4. x \in T
        BY <4>2, <4>3
      <4>5. got' = Append(got, x) /\ All(got, T)
        BY <1>3, <4>1
      <4>6. got \in Seq(T)
        BY <4>5, AllSeq DEF GotInv
      <4> HIDE DEF x, T
      <4>7. All(got', T)
        BY <4>4, <4>5, <4>6, AllAppend
      <4> QED BY <4>7 DEF T
    <3>3. got' = got \/ (Take /\ First.kind = "enqueue")
      BY <1>8 DEF Receive, ConnectionLost, DecodingFails, Take, WaitTakes, vars
    <3> QED BY <3>1, <3>2, <3>3
  <2> QED BY <1>2, <1>3, <2>1, <2>2, <2>3
<1>9. CASE WaitTakes /\ First.id = pending.id
  <2>1. /\ nextId' = nextId /\ south' = south /\ hq' = hq /\ north' = north /\ got' = got
        /\ Returns(First.ok) /\ Complete
    BY <1>9, FirstIsResult DEF WaitTakes, handler
  <2>2. /\ pending' \in {pending, <<>>} /\ (buff' = Rest \/ buff' = <<>>)
    BY <2>1 DEF Returns
  <2>3. \E k : Part(Stream', Stream, k)
    BY <1>4, <2>1, <2>2, StreamTaken, StreamCleared
  <2>4. All(Stream', Cell)
    BY <1>3, <2>3, AllPart
  <2> QED BY <1>2, <1>3, <2>1, <2>2, <2>4
<1>10. CASE ReaderReads
  <2>1. /\ nextId' = nextId /\ pending' = pending /\ Stream' = Stream /\ got' = got
        /\ south # <<>> /\ south' = Tail(south)
    BY <1>10 DEF ReaderReads, titan, Stream
  <2>2. PICK m \in {Head(south), Undecodable} : hq' = Append(hq, m)
    BY <1>10 DEF ReaderReads
  <2>3. Part(south', south, 1) /\ Head(south) = south[1] /\ 1 \in 1..Len(south)
    BY <1>4, <2>1, TailPart
  <2>4. All(south', ToMapper) /\ Head(south) \in ToMapper
    BY <1>3, <2>3, AllPart DEF All
  <2>5. m \in InQueue /\ m \in Queued
    <3>1. ToMapper \subseteq Requests
      <4>1. 0..MaxId \subseteq Nat
        BY <1>4, SMT
      <4> QED BY <4>1 DEF ToMapper, Requests
    <3> QED BY <2>4, <3>1 DEF InQueue, Queued
  <2>6. All(hq', InQueue)
    BY <1>3, <1>4, <2>2, <2>5, AllAppend
  <2> QED BY <1>2, <1>3, <2>1, <2>4, <2>6
\* The handler takes something and writes p, which is of the type of the stream.
<1>11. ASSUME NEW kind, Handles(kind), NEW p \in Pdu,
              north' = north \/ (north' = north \o Cells(p) /\ p \in ToPort)
       PROVE  TypeInv'
  <2>1. /\ Part(hq', hq, 1) /\ UNCHANGED <<pending, nextId, buff, south>>
    BY <1>11, Taken
  <2>2. got' = got
    BY <1>11 DEF Handles
  <2>3. All(Stream', Cell)
    <3>1. CASE north' = north
      BY <1>3, <2>1, <3>1 DEF Stream
    <3>2. CASE north' = north \o Cells(p) /\ p \in ToPort
      BY <1>4, <2>1, <3>2, TypeWritten
    <3> QED BY <1>11, <3>1, <3>2
  <2>4. All(hq', InQueue)
    BY <1>3, <2>1, AllPart
  <2> QED BY <1>2, <1>3, <2>1, <2>2, <2>3, <2>4
<1>12. CASE HandleRegister \/ HandleMap \/ HandleUnmap \/ HandleUnregister
  <2>1. PICK kind \in Calls : \/ kind = "register" /\ HandleRegister
                              \/ kind = "map" /\ HandleMap
                              \/ kind = "unmap" /\ HandleUnmap
                              \/ kind = "unregister" /\ HandleUnregister
    BY <1>12 DEF Calls
  <2>2. /\ Handles(kind) /\ north' = north \o Cells(Answer(Head(hq), TRUE)) /\ hq[1] = pending
        /\ Waiting
    BY <2>1, CallActions
  <2>3. Head(hq) = pending /\ pending \in ToMapper
    BY <1>3, <2>2, Taken DEF Waiting
  <2> DEFINE p == Answer(Head(hq), TRUE)
  <2>4. p \in Pdu /\ p.kind = "result" /\ p.id \in 0..MaxId
    <3>1. Head(hq).id \in 0..MaxId
      BY <2>3 DEF ToMapper
    <3>2. Head(hq).id \in Nat
      <4>1. 0..MaxId \subseteq Nat
        BY <1>4, SMT
      <4> QED BY <3>1, <4>1
    <3> QED BY <3>1, <3>2, AnswerFacts
  <2>5. north' = north \o Cells(p)
    BY <2>2
  <2> HIDE DEF p
  <2>6. p \in ToPort
    BY <2>4, CellTypes
  <2> QED BY <1>11, <2>2, <2>4, <2>5, <2>6
<1>13. CASE HandleSend \/ HandleUndecodable
  <2>1. PICK kind \in {"send", "undecodable"}, p \in Pdu :
           /\ Handles(kind) /\ p.kind = "result"
           /\ north' = north \/ north' = north \o Cells(p)
           /\ north' = north \/ (FirstCell(p) \in Written /\ SecondCell(p) \in Written)
    BY <1>13, AnswerActions, Zenon
  <2>2. CASE north' = north
    BY <1>11, <2>1, <2>2
  <2>3. CASE north' # north
    <3>1. p.id < nextId
      BY <2>1, <2>3 DEF Written, FirstCell
    <3>2. p.id \in Nat
      BY <2>1 DEF Pdu
    <3>3. p.id \in 0..MaxId
      BY <1>3, <1>4, <3>1, <3>2, SMT
    <3>4. p \in ToPort
      BY <2>1, <3>3, CellTypes
    <3> QED BY <1>11, <2>1, <2>3, <3>4
  <2> QED BY <2>2, <2>3
<1>14. CASE HandleIndication
  <2> DEFINE kind == "enqueue"
             p == Enqueued(hq[1].msg)
  <2>1. /\ Handles(kind) /\ p \in Pdu /\ p.kind = "enqueue" /\ p.msg = hq[1].msg
        /\ north' = north \o Cells(p)
    BY <1>14, IndicationFacts
  <2> HIDE DEF p
  <2>2. kind = "enqueue"
    OBVIOUS
  <2> HIDE DEF kind
  <2>3. hq[1].kind = "enqueue" /\ 1 \in 1..Len(hq)
    BY <2>1, <2>2, Taken
  <2>4. hq[1].msg \in Message
    <3>1. hq[1] \in InQueue
      BY <1>3, <2>3 DEF All
    <3> QED BY <2>3, <3>1 DEF InQueue, ToMapper, Undecodable
  <2>5. p \in ToPort
    BY <2>1, <2>4, CellTypes
  <2> QED BY <1>11, <2>1, <2>5
<1>15. CASE LookUp
  <2>1. UNCHANGED <<nextId, pending, south, hq, got>> /\ Stream' = Stream
    BY <1>15 DEF LookUp, titan, handler, Stream
  <2> QED BY <1>2, <1>3, <2>1
<1>16. CASE \E m \in held : Put(m)
  <2>1. PICK m \in held : Put(m)
    BY <1>16
  <2>2. UNCHANGED <<nextId, pending, south, got>> /\ Stream' = Stream
    BY <2>1 DEF Put, titan, Stream
  <2> DEFINE late == ~hMapped \/ era # m.era
             msg == [n |-> puts, era |-> m.era, late |-> late]
             x == Indication(msg)
  <2>3. /\ hq' = Append(hq, x) /\ x \in Queued
    BY <2>1, PutFacts
  <2>4. late \in BOOLEAN
    BY Zenon
  <2> HIDE DEF late
  <2>5. msg \in Message
    BY <1>4, <2>4 DEF BoundInv, Message
  <2> HIDE DEF msg
  <2>6. x \in InQueue
    BY <2>5 DEF Indication, InQueue
  <2> HIDE DEF x
  <2>7. All(hq', InQueue)
    BY <1>3, <1>4, <2>3, <2>6, AllAppend
  <2> QED BY <1>2, <1>3, <2>2, <2>7
<1> QED BY <1>6, <1>7, <1>8, <1>9, <1>10, <1>12, <1>13, <1>14, <1>15, <1>16
        DEF Next, TitanReceives, HandlerStep

LEMMA TypesHold == Inv /\ CallInv /\ MapInv /\ GotInv /\ BoundInv /\ TypeInv => TypeOK
<1> SUFFICES ASSUME Inv, CallInv, MapInv, GotInv, BoundInv, TypeInv PROVE TypeOK
  OBVIOUS
<1>1. /\ Types /\ nextId \in Nat /\ MaxId \in Nat /\ south \in Seq(Requests) /\ hq \in Seq(Queued)
      /\ buff \in Seq(PduCell) /\ north \in Seq(PduCell) /\ got \in Seq(Gotten)
      /\ puts \in Nat /\ looked \in Nat /\ MaxMsgs \in Nat /\ Cardinality(held) \in Nat
  BY BoundsAssumption, FS_CardinalityType DEF Inv, Types, GotInv, BoundInv
<1>2. te \in {"off", "ready", "wait"} \cup Errors /\ teMapped \in BOOLEAN
      /\ h \in {"none", "new", "registered", "ended"} /\ hMapped \in BOOLEAN
  BY DEF CallInv, CallState
<1>3. nextId \in 0..MaxId
  <2>1. nextId <= MaxId
    BY DEF TypeInv
  <2> QED BY <1>1, <2>1, SMT
<1>4. te = "wait" => pending # <<>> /\ pending.id + 1 = nextId
  BY DEF Inv, Waits, CallInv, CallState, Waiting
<1>5. te \in {"off", "ready"} => pending = <<>>
  BY DEF CallInv, CallState, Waiting
<1>6. buff \in Seq(Cell) /\ north \in Seq(Cell)
  <2>1. /\ \A i \in 1..Len(buff) : Stream[i] = buff[i]
        /\ \A i \in 1..Len(north) : Stream[Len(buff) + i] = north[i]
        /\ Len(Stream) = Len(buff) + Len(north) /\ Len(buff) \in Nat /\ Len(north) \in Nat
    BY <1>1, StreamType
  <2> DEFINE b == Len(buff)
             n == Len(north)
  <2>2. b \in Nat /\ n \in Nat
    BY <2>1
  <2> HIDE DEF b, n
  <2>3. (\A i \in 1..b : i \in 1..(b + n)) /\ (\A i \in 1..n : b + i \in 1..(b + n))
    BY <2>2, SMT
  <2>4. All(buff, Cell) /\ All(north, Cell)
    BY <2>1, <2>3 DEF TypeInv, All, b, n
  <2> QED BY <1>1, <2>4, AllSeq
<1>7. south \in Seq(ToMapper) /\ hq \in Seq(InQueue) /\ got \in Seq([msg : Message, at : 0..teEra])
  BY <1>1, AllSeq DEF TypeInv
<1>8. teEra <= era /\ done <= made
  <2>1. /\ teEra <= era /\ made \in Nat /\ done \in Nat
        /\ done = made \/ done + 1 = made
    BY DEF MapInv, CallInv, CallState
  <2>2. done <= made
    BY <2>1, SMT
  <2> QED BY <2>1, <2>2
<1>9. puts <= looked /\ looked <= MaxMsgs
  <2> DEFINE n == Cardinality(held)
  <2>1. n \in Nat /\ puts + n <= looked /\ looked <= MaxMsgs
    BY <1>1 DEF BoundInv
  <2> HIDE DEF n
  <2> QED BY <1>1, <2>1, SMT
<1>10. held \subseteq [look : 0..looked, era : 0..era] /\ IsFiniteSet(held)
       /\ pending \in ToMapper \cup {<<>>}
  BY DEF BoundInv, TypeInv
<1> QED BY <1>2, <1>3, <1>4, <1>5, <1>6, <1>7, <1>8, <1>9, <1>10 DEF TypeOK

-----------------------------------------------------------------------------
(* What a waiting port waits for.                                           *)

\* The second part of a message follows the first one.
Framed(s) == \A i \in 1..Len(s) : s[i].part = 1 => i + 1 \in 1..Len(s) /\ s[i + 1].part = 2

\* The result is on its way, the one of an unregister request as the last message.
ResultOnItsWay ==
  /\ \E i \in 1..Len(Stream) : IsResult(Stream[i])
  /\ pending.kind = "unregister" =>
       h = "ended" /\ \A i \in 1..Len(Stream) : IsResult(Stream[i]) => i + 1 = Len(Stream)

\* The request is on its way, or what a partial read left of it.
OnItsWay == IsIn(pending, south) \/ IsIn(pending, hq) \/ IsIn(Undecodable, hq)

WaitInv ==
  /\ Framed(Stream)
  /\ te = "off" => Stream = <<>> /\ h \in {"none", "ended"}
  /\ h = "none" => te = "off"
  /\ te = "wait" => IF done = made THEN ResultOnItsWay ELSE h = "ended" \/ OnItsWay

LEMMA FramedPart ==
  ASSUME NEW s, NEW t, NEW k, Part(t, s, k), Len(t) + k = Len(s), Framed(s)
  PROVE  Framed(t)
<1> SUFFICES ASSUME NEW i \in 1..Len(t), t[i].part = 1
             PROVE  i + 1 \in 1..Len(t) /\ t[i + 1].part = 2
  BY DEF Framed
<1>1. k \in Nat /\ Len(t) \in Nat /\ i + k \in 1..Len(s) /\ t[i] = s[i + k]
  BY DEF Part
<1>2. (i + k) + 1 \in 1..Len(s) /\ s[(i + k) + 1].part = 2
  BY <1>1 DEF Framed
<1> DEFINE l == Len(t)
<1>3. l \in Nat /\ (i + k) + 1 \in 1..(l + k) /\ i \in 1..l
  BY <1>1, <1>2
<1> HIDE DEF l
<1>4. i + 1 \in 1..l /\ (i + 1) + k = (i + k) + 1
  BY <1>1, <1>3, SMT
<1>5. t[i + 1] = s[(i + 1) + k]
  BY <1>4 DEF Part, l
<1> QED BY <1>2, <1>4, <1>5 DEF l

\* A message is written.
LEMMA FramedWritten ==
  ASSUME Types, NEW p \in Pdu, buff' = buff, north' = north \o Cells(p), Framed(Stream)
  PROVE  /\ Framed(Stream') /\ Len(Stream) \in Nat /\ Len(Stream') = Len(Stream) + 2
         /\ \A i \in 1..Len(Stream) : i \in 1..Len(Stream') /\ Stream'[i] = Stream[i]
         /\ Stream'[Len(Stream) + 1] = FirstCell(p) /\ Len(Stream) + 1 \in 1..Len(Stream')
         /\ \A i \in 1..Len(Stream') :
              i \in 1..Len(Stream) \/ i = Len(Stream) + 1 \/ Stream'[i].part = 2
<1> DEFINE c == FirstCell(p)
           d == SecondCell(p)
           s == Append(Stream, c)
           l == Len(Stream)
<1>1. /\ c \in PduCell /\ d \in PduCell /\ s \in Seq(PduCell) /\ Stream \in Seq(PduCell)
      /\ Stream' = Append(s, d)
  BY StreamWritten
<1>2. /\ l \in Nat /\ Len(s) = l + 1 /\ s[l + 1] = c /\ \A i \in 1..l : s[i] = Stream[i]
  BY <1>1, AppendProperties, LenProperties
<1> HIDE DEF s
<1>3. /\ Len(Stream') = Len(s) + 1 /\ Stream'[Len(s) + 1] = d
      /\ \A i \in 1..Len(s) : Stream'[i] = s[i]
  BY <1>1, AppendProperties
<1> HIDE DEF l
<1>4. /\ Len(Stream') = l + 2 /\ (l + 1) + 1 = l + 2 /\ l + 1 \in 1..(l + 1)
      /\ l + 1 \in 1..(l + 2) /\ l + 2 \in 1..(l + 2)
      /\ \A i \in 1..l : i \in 1..(l + 1) /\ i \in 1..(l + 2)
      /\ \A i \in 1..(l + 2) : i \in 1..l \/ i = l + 1 \/ i = l + 2
  BY <1>2, <1>3, SMT
<1>5. /\ \A i \in 1..l : Stream'[i] = Stream[i]
      /\ Stream'[l + 1] = c /\ Stream'[l + 2] = d /\ c.part = 1 /\ d.part = 2
  BY <1>2, <1>3, <1>4 DEF FirstCell, SecondCell
<1>6. Framed(Stream')
  <2> SUFFICES ASSUME NEW i \in 1..(l + 2), Stream'[i].part = 1
               PROVE  i + 1 \in 1..(l + 2) /\ Stream'[i + 1].part = 2
    BY <1>4 DEF Framed
  <2>1. CASE i \in 1..l
    <3>1. i + 1 \in 1..l /\ Stream[i + 1].part = 2
      BY <1>5, <2>1 DEF Framed, l
    <3> QED BY <1>4, <1>5, <3>1
  <2>2. CASE i = l + 1
    BY <1>4, <1>5, <2>2
  <2>3. CASE i = l + 2
    BY <1>5, <2>3
  <2> QED BY <1>4, <2>1, <2>2, <2>3
<1> QED BY <1>2, <1>4, <1>5, <1>6 DEF l

LEMMA IsInAppend ==
  ASSUME NEW S, NEW s \in Seq(S), NEW y \in S, NEW x, IsIn(x, s) \/ x = y
  PROVE  IsIn(x, Append(s, y))
<1> DEFINE l == Len(s)
<1>1. /\ Len(Append(s, y)) = l + 1 /\ (\A i \in 1..l : Append(s, y)[i] = s[i])
      /\ Append(s, y)[l + 1] = y /\ l \in Nat
  BY AppendProperties, LenProperties
<1> HIDE DEF l
<1>2. l + 1 \in 1..(l + 1) /\ \A i \in 1..l : i \in 1..(l + 1)
  BY <1>1, SMT
<1> QED BY <1>1, <1>2 DEF IsIn, l

LEMMA IsInTail ==
  ASSUME NEW S, NEW s \in Seq(S), s # <<>>, NEW x, IsIn(x, s), x # s[1]
  PROVE  IsIn(x, Tail(s))
<1> DEFINE l == Len(s)
<1>1. /\ Len(Tail(s)) = l - 1 /\ (\A i \in 1..Len(Tail(s)) : Tail(s)[i] = s[i + 1]) /\ l \in Nat
  BY HeadTailProperties, LenProperties
<1>2. PICK i \in 1..l : s[i] = x
  BY DEF IsIn
<1> HIDE DEF l
<1>3. i # 1
  BY <1>2
<1>4. i - 1 \in 1..(l - 1) /\ (i - 1) + 1 = i
  BY <1>1, <1>2, <1>3, SMT
<1>5. i - 1 \in 1..Len(Tail(s)) /\ Tail(s)[i - 1] = x
  BY <1>1, <1>2, <1>4
<1> QED BY <1>5 DEF IsIn

LEMMA WaitInit == Init => WaitInv
<1> SUFFICES ASSUME Init PROVE WaitInv
  OBVIOUS
<1>1. Stream = <<>>
  <2>1. <<>> \in Seq(PduCell)
    BY EmptySeq
  <2> QED BY <2>1, ConcatEmptySeq DEF Init, Stream
<1>2. 1..Len(<<>>) = {}
  BY SMT
<1> QED BY <1>1, <1>2 DEF Init, WaitInv, Framed

\* A step that leaves the wait as it is, or ends the component.
LEMMA WaitKept ==
  ASSUME WaitInv, Stream' = Stream, te' \in {te} \cup Errors, te = "off" => te' = te,
         UNCHANGED <<pending, south, hq, h, made, done>>
  PROVE  WaitInv'
<1>1. te' \in {"off", "wait"} => te' = te
  BY DEF Errors
<1>2. ResultOnItsWay => ResultOnItsWay'
  BY DEF ResultOnItsWay, IsResult
<1>3. OnItsWay => OnItsWay'
  BY DEF OnItsWay, IsIn
<1>4. Framed(Stream')
  BY DEF WaitInv
<1>5. te' = "off" => Stream' = <<>> /\ h' \in {"none", "ended"}
  BY <1>1 DEF WaitInv
<1>6. h' = "none" => te' = "off"
  BY DEF WaitInv
<1>7. te' = "wait" => IF done' = made' THEN ResultOnItsWay' ELSE h' = "ended" \/ OnItsWay'
  BY <1>1, <1>2, <1>3 DEF WaitInv
<1> QED BY <1>4, <1>5, <1>6, <1>7 DEF WaitInv

\* The port makes a request.
LEMMA WaitAsked ==
  ASSUME Inv, CallInv, WaitInv, Start \/ AskMap \/ AskUnmap \/ Stop
  PROVE  WaitInv'
<1>1. PICK kind \in Calls : \/ kind = "register" /\ Start
                            \/ kind = "map" /\ AskMap
                            \/ kind = "unmap" /\ AskUnmap
                            \/ kind = "unregister" /\ Stop
  BY DEF Calls
<1>2. /\ Ask(kind) /\ te \in {"off", "ready"}
      /\ te = "ready" => h' = h /\ Stream' = Stream
      /\ te = "off" => h' = "new"
      /\ UNCHANGED done /\ \E k \in Nat : Part(Stream', Stream, k)
  BY <1>1, AskActions
<1>3. /\ te' = "wait" /\ south' = Append(south, pending') /\ made' = made + 1
  BY <1>2, AskFacts DEF Calls, Ask
<1>4. done' # made'
  <2>1. done = made /\ made \in Nat
    BY <1>2 DEF CallInv, CallState
  <2>2. made # made + 1
    BY <2>1, SMT
  <2> QED BY <1>2, <1>3, <2>1, <2>2
<1>5. Framed(Stream')
  <2>1. CASE te = "ready"
    BY <1>2, <2>1 DEF WaitInv
  <2>2. CASE te = "off"
    <3>1. Len(Stream) = 0
      BY <2>2 DEF WaitInv
    <3>2. PICK k \in Nat : Part(Stream', Stream, k)
      BY <1>2
    <3>3. 1..0 = {}
      BY SMT
    <3>4. \A i \in 1..Len(Stream') : FALSE
      BY <3>1, <3>2, <3>3 DEF Part
    <3> QED BY <3>4 DEF Framed
  <2> QED BY <1>2, <2>1, <2>2
<1>6. h' # "none"
  BY <1>2 DEF WaitInv
<1>7. OnItsWay'
  <2>1. south \in Seq(Requests) /\ pending' \in Requests
    <3>1. nextId \in Nat /\ south \in Seq(Requests)
      BY DEF Inv, Types
    <3>2. pending' = [kind |-> kind, id |-> nextId]
      BY <1>2 DEF Ask, Request
    <3> QED BY <3>1, <3>2 DEF Requests, Calls
  <2>2. IsIn(pending', south')
    BY <1>3, <2>1, IsInAppend
  <2> QED BY <2>2 DEF OnItsWay, IsIn
<1> QED BY <1>3, <1>4, <1>5, <1>6, <1>7 DEF WaitInv

\* The port skips a message with another id.
LEMMA WaitSkips ==
  ASSUME Inv, CallInv, WaitInv, WaitTakes, First.id # pending.id
  PROVE  WaitInv'
<1>1. /\ te = "wait" /\ Complete /\ buff' = Rest
      /\ UNCHANGED <<te, pending, south, hq, h, made, done, north>>
  BY DEF WaitTakes, handler
<1>2. /\ Part(Stream', Stream, 2) /\ Stream[1].pdu = First /\ Stream[1].part = 1
      /\ 1 \in 1..Len(Stream) /\ Len(Stream') + 2 = Len(Stream)
  BY <1>1, StreamTaken DEF Inv
<1>3. Framed(Stream')
  BY <1>2, FramedPart DEF WaitInv
<1> DEFINE n == Len(Stream')
<1>4. n \in Nat /\ Len(Stream) = n + 2
  BY <1>2 DEF Part
<1>5. \A i \in 1..n : i + 2 \in 1..Len(Stream) /\ Stream'[i] = Stream[i + 2]
  BY <1>2 DEF Part
<1>6. ASSUME ResultOnItsWay PROVE ResultOnItsWay'
  <2>1. PICK i \in 1..Len(Stream) : IsResult(Stream[i])
    BY <1>6 DEF ResultOnItsWay
  <2>2. i # 1
    BY <1>2, <2>1 DEF IsResult
  <2>3. i # 2
    <3>1. Stream[1 + 1].part = 2
      BY <1>2 DEF WaitInv, Framed
    <3> QED BY <2>1, <3>1 DEF IsResult
  <2> HIDE DEF n
  <2>4. i - 2 \in 1..n /\ (i - 2) + 2 = i
    BY <1>4, <2>1, <2>2, <2>3, SMT
  <2>5. i - 2 \in 1..Len(Stream') /\ IsResult(Stream'[i - 2])
    BY <1>5, <2>1, <2>4 DEF n
  <2>6. ASSUME NEW j \in 1..Len(Stream'), IsResult(Stream'[j]), pending.kind = "unregister"
        PROVE  j + 1 = Len(Stream')
    <3>1. j + 2 \in 1..Len(Stream) /\ IsResult(Stream[j + 2])
      BY <1>5, <2>6 DEF n
    <3>2. (j + 2) + 1 = n + 2
      BY <1>4, <1>6, <2>6, <3>1 DEF ResultOnItsWay
    <3>3. j \in 1..n
      BY DEF n
    <3>4. j + 1 = n
      BY <1>4, <3>2, <3>3, SMT
    <3> QED BY <3>4 DEF n
  <2> QED BY <1>1, <1>6, <2>5, <2>6 DEF ResultOnItsWay, IsResult
<1>7. OnItsWay => OnItsWay'
  BY <1>1 DEF OnItsWay, IsIn
<1> QED BY <1>1, <1>3, <1>6, <1>7 DEF WaitInv

\* The port takes the result of its request.
LEMMA WaitReturns ==
  ASSUME Inv, CallInv, WaitInv, WaitTakes, First.id = pending.id
  PROVE  WaitInv'
<1>1. done = made /\ Stream[1].pdu = First /\ First.kind = "result"
  BY CallReturns
<1>2. /\ te = "wait" /\ Complete /\ Returns(First.ok)
      /\ UNCHANGED <<north, h>>
  BY <1>1 DEF WaitTakes, handler
<1>3. /\ te' \in {"failed", "off", "ready"}
      /\ te' = "off" => pending.kind = "unregister"
      /\ buff' = IF pending.kind = "map" THEN <<>> ELSE Rest
  BY <1>2, Zenon DEF Returns
<1>4. ASSUME buff' = Rest
      PROVE  /\ Part(Stream', Stream, 2) /\ Stream[1].part = 1
             /\ 1 \in 1..Len(Stream) /\ Len(Stream') + 2 = Len(Stream)
  BY <1>2, <1>4, StreamTaken DEF Inv
<1>5. Framed(Stream')
  <2>1. CASE buff' = Rest
    BY <1>4, <2>1, FramedPart DEF WaitInv
  <2>2. CASE buff' = <<>>
    BY <1>2, <2>2, StreamCleared, FramedPart DEF WaitInv, Inv
  <2> QED BY <1>3, <2>1, <2>2
<1>6. ASSUME te' = "off" PROVE Stream' = <<>> /\ h' = "ended"
  <2>1. pending.kind = "unregister" /\ buff' = Rest
    BY <1>3, <1>6
  <2>2. ResultOnItsWay /\ IsResult(Stream[1])
    BY <1>1, <1>2, <1>4, <2>1 DEF WaitInv, IsResult
  <2>3. 1 + 1 = Len(Stream)
    BY <1>4, <2>1, <2>2 DEF ResultOnItsWay
  <2>4. Types'
    BY InvNext DEF Inv, Next, TitanReceives
  <2>5. Stream' \in Seq(PduCell) /\ Len(Stream') \in Nat
    BY <1>4, <2>1, <2>4, StreamType DEF Part, Types, Stream
  <2> DEFINE n == Len(Stream')
  <2>6. n \in Nat /\ n + 2 = 1 + 1
    BY <1>4, <2>1, <2>3, <2>5
  <2> HIDE DEF n
  <2>7. n = 0
    BY <2>6, SMT
  <2>8. h' = "ended"
    BY <1>2, <2>1, <2>2 DEF ResultOnItsWay
  <2> QED BY <2>5, <2>7, <2>8, EmptySeq DEF n
<1> QED BY <1>2, <1>3, <1>5, <1>6 DEF WaitInv

\* What the port reads, and its messages.
LEMMA WaitReads ==
  ASSUME Inv, CallInv, WaitInv, Receive \/ ConnectionLost \/ DecodingFails \/ Take
  PROVE  WaitInv'
<1>1. /\ te' \in {te} \cup Errors /\ UNCHANGED <<pending, made, done, south, hq, h>>
  BY PortReads
<1>2. CASE Take
  <2>1. te = "ready" /\ Complete /\ buff' = Rest /\ north' = north
    BY <1>2 DEF Take, handler
  <2>2. Part(Stream', Stream, 2) /\ Len(Stream') + 2 = Len(Stream)
    BY <2>1, StreamTaken DEF Inv
  <2>3. Framed(Stream')
    BY <2>2, FramedPart DEF WaitInv
  <2> QED BY <1>1, <2>1, <2>3 DEF WaitInv, Errors
<1>3. CASE Receive
  <2>1. te # "off"
    BY <1>3 DEF Receive, Reads, Looks
  <2> QED BY <1>1, <1>3, <2>1, StreamRead, WaitKept DEF Inv
<1>4. CASE ConnectionLost \/ DecodingFails
  <2>1. Stream' = Stream
    BY <1>4 DEF ConnectionLost, DecodingFails, handler, Stream
  <2>2. te # "off"
    BY <1>4 DEF ConnectionLost, DecodingFails, Reads, Looks
  <2> QED BY <1>1, <2>1, <2>2, WaitKept
<1> QED BY <1>2, <1>3, <1>4

\* The reader of the handler takes a request from the stream, or a part of it.
LEMMA WaitRead == ASSUME Inv, CallInv, WaitInv, ReaderReads PROVE WaitInv'
<1>1. /\ south # <<>> /\ south' = Tail(south)
      /\ UNCHANGED <<te, pending, buff, made, done, h, north>>
  BY DEF ReaderReads, titan, adapter
<1>2. PICK m \in {Head(south), Undecodable} : hq' = Append(hq, m)
  BY DEF ReaderReads
<1>3. south \in Seq(Requests) /\ hq \in Seq(Queued)
  BY DEF Inv, Types
<1>4. Head(south) = south[1] /\ m \in Queued
  <2>1. Head(south) = south[1] /\ 1 \in 1..Len(south)
    BY <1>1, <1>3, TailPart
  <2>2. south[1] \in Requests
    BY <1>3, <2>1, ElementOfSeq
  <2> QED BY <2>1, <2>2 DEF Queued
<1>5. ASSUME OnItsWay PROVE OnItsWay'
  <2>1. CASE IsIn(pending, south)
    <3>1. CASE pending = south[1]
      <4>1. IsIn(pending, hq') \/ IsIn(Undecodable, hq')
        BY <1>2, <1>3, <1>4, <3>1, IsInAppend
      <4> QED BY <1>1, <4>1 DEF OnItsWay
    <3>2. CASE pending # south[1]
      <4>1. IsIn(pending, south')
        BY <1>1, <1>3, <2>1, <3>2, IsInTail
      <4> QED BY <1>1, <4>1 DEF OnItsWay
    <3> QED BY <3>1, <3>2
  <2>2. CASE IsIn(pending, hq) \/ IsIn(Undecodable, hq)
    <3>1. IsIn(pending, hq') \/ IsIn(Undecodable, hq')
      BY <1>2, <1>3, <1>4, <2>2, IsInAppend
    <3> QED BY <1>1, <3>1 DEF OnItsWay
  <2> QED BY <1>5, <2>1, <2>2 DEF OnItsWay
<1>6. Stream' = Stream
  BY <1>1 DEF Stream
<1>7. ResultOnItsWay => ResultOnItsWay'
  BY <1>1, <1>6 DEF ResultOnItsWay, IsResult
<1> QED BY <1>1, <1>5, <1>6, <1>7 DEF WaitInv

\* The adapter puts a message in the queue of the handler.
LEMMA WaitPut ==
  ASSUME Inv, WaitInv, LookUp \/ \E m \in held : Put(m)
  PROVE  WaitInv'
<1>1. UNCHANGED <<te, pending, buff, made, done, h, north, south>>
  BY DEF LookUp, Put, titan, handler
<1>2. hq' = hq \/ \E m \in Queued : hq' = Append(hq, m)
  <2>1. CASE LookUp
    BY <2>1 DEF LookUp, handler
  <2>2. CASE \E m \in held : Put(m)
    BY <2>2, PutFacts
  <2> QED BY <2>1, <2>2
<1>3. hq \in Seq(Queued)
  BY DEF Inv, Types
<1>4. ASSUME NEW x, IsIn(x, hq) PROVE IsIn(x, hq')
  <2>1. CASE hq' = hq
    BY <1>4, <2>1
  <2>2. CASE \E m \in Queued : hq' = Append(hq, m)
    BY <1>3, <1>4, <2>2, IsInAppend
  <2> QED BY <1>2, <2>1, <2>2
<1>5. OnItsWay => OnItsWay'
  <2>1. ASSUME OnItsWay PROVE IsIn(pending, south) \/ IsIn(pending, hq') \/ IsIn(Undecodable, hq')
    BY <1>4, <2>1 DEF OnItsWay
  <2> QED BY <1>1, <2>1 DEF OnItsWay
<1>6. Stream' = Stream
  BY <1>1 DEF Stream
<1>7. ResultOnItsWay => ResultOnItsWay'
  BY <1>1, <1>6 DEF ResultOnItsWay, IsResult
<1> QED BY <1>1, <1>5, <1>6, <1>7 DEF WaitInv

\* The handler carries out the request.
LEMMA WaitHandled ==
  ASSUME Inv, CallInv, WaitInv, HandleRegister \/ HandleMap \/ HandleUnmap \/ HandleUnregister
  PROVE  WaitInv'
<1>1. PICK kind \in Calls : \/ kind = "register" /\ HandleRegister
                            \/ kind = "map" /\ HandleMap
                            \/ kind = "unmap" /\ HandleUnmap
                            \/ kind = "unregister" /\ HandleUnregister
  BY DEF Calls
<1>2. /\ Handles(kind) /\ north' = north \o Cells(Answer(Head(hq), TRUE))
      /\ hq[1] = pending /\ pending.kind = kind /\ Waiting /\ done + 1 = made /\ done' = made'
  BY <1>1, CallActions
<1>3. /\ UNCHANGED <<te, pending, buff, made>> /\ h \in {"new", "registered"} /\ hq[1] = Head(hq)
      /\ hq[1] \in Queued
  BY <1>2, Taken DEF Handles
<1> DEFINE p == Answer(pending, TRUE)
<1>4. p \in Pdu /\ p.kind = "result" /\ p.id = pending.id
  <2>1. pending \in Requests
    BY <1>2 DEF CallInv, CallState, Waiting
  <2>2. pending.id \in Nat
    BY <2>1 DEF Requests
  <2> QED BY <2>2, AnswerFacts
<1>5. north' = north \o Cells(p)
  BY <1>2, <1>3
<1> HIDE DEF p
<1>6. /\ Framed(Stream') /\ Len(Stream) \in Nat /\ Len(Stream') = Len(Stream) + 2
      /\ \A i \in 1..Len(Stream) : i \in 1..Len(Stream') /\ Stream'[i] = Stream[i]
      /\ Stream'[Len(Stream) + 1] = FirstCell(p) /\ Len(Stream) + 1 \in 1..Len(Stream')
      /\ \A i \in 1..Len(Stream') :
           i \in 1..Len(Stream) \/ i = Len(Stream) + 1 \/ Stream'[i].part = 2
  BY <1>3, <1>4, <1>5, FramedWritten DEF Inv, WaitInv
<1>7. te # "off" /\ h' # "none" /\ (kind = "unregister" => h' = "ended")
  <2>1. te # "off"
    BY <1>2 DEF CallInv, CallState
  <2>2. h' # "none" /\ (kind = "unregister" => h' = "ended")
    BY <1>1, <1>3 DEF HandleRegister, HandleMap, HandleUnmap, HandleUnregister
  <2> QED BY <2>1, <2>2
<1>8. ResultOnItsWay'
  <2>1. IsResult(Stream'[Len(Stream) + 1])
    BY <1>4, <1>6 DEF FirstCell, IsResult
  <2>2. ASSUME NEW i \in 1..Len(Stream'), IsResult(Stream'[i])
        PROVE  i = Len(Stream) + 1
    <3>1. i \notin 1..Len(Stream)
      <4> SUFFICES ASSUME i \in 1..Len(Stream) PROVE FALSE
        OBVIOUS
      <4>1. Stream[i] \in Written /\ Stream[i] = Stream'[i]
        BY <1>6 DEF CallInv, CallQueues, All
      <4>2. done = made
        BY <1>2, <2>2, <4>1 DEF Written, OwnId, IsResult
      <4>3. done \in Nat /\ done + 1 = done
        BY <1>2, <4>2 DEF CallInv, CallState
      <4> QED BY <4>3, SMT
    <3>2. Stream'[i].part # 2
      BY <2>2 DEF IsResult
    <3> QED BY <1>6, <3>1, <3>2
  <2>3. (Len(Stream) + 1) + 1 = Len(Stream')
    <3> DEFINE l == Len(Stream)
    <3>1. l \in Nat /\ Len(Stream') = l + 2
      BY <1>6
    <3> HIDE DEF l
    <3>2. (l + 1) + 1 = l + 2
      BY <3>1, SMT
    <3> QED BY <3>1, <3>2 DEF l
  <2>4. pending.kind = "unregister" =>
          /\ h' = "ended"
          /\ \A i \in 1..Len(Stream') : IsResult(Stream'[i]) => i + 1 = Len(Stream')
    BY <1>2, <1>7, <2>2, <2>3
  <2> QED BY <1>3, <1>6, <2>1, <2>4 DEF ResultOnItsWay, IsResult
<1> QED BY <1>2, <1>3, <1>6, <1>7, <1>8 DEF WaitInv

\* The handler does anything else.
LEMMA WaitPassed ==
  ASSUME Inv, CallInv, WaitInv, NEW kind \in {"send", "undecodable", "enqueue"}, Handles(kind),
         NEW p \in Pdu, north' = north \/ north' = north \o Cells(p),
         h' = h \/ h' = "ended", kind = "undecodable" => h' = "ended", done' = done
  PROVE  WaitInv'
<1>1. /\ hq' = Tail(hq) /\ hq # <<>> /\ hq[1].kind = kind /\ hq \in Seq(Queued)
      /\ UNCHANGED <<te, pending, buff, made, south>> /\ h \in {"new", "registered"}
  BY Taken DEF Handles
<1>2. /\ Framed(Stream')
      /\ \A i \in 1..Len(Stream) : i \in 1..Len(Stream') /\ Stream'[i] = Stream[i]
  <2>1. CASE north' = north
    BY <1>1, <2>1 DEF Stream, WaitInv
  <2>2. CASE north' = north \o Cells(p)
    BY <1>1, <2>2, FramedWritten DEF Inv, WaitInv
  <2> QED BY <2>1, <2>2
<1>3. h' # "none"
  BY <1>1
<1>4. te # "off"
  BY <1>1 DEF WaitInv
<1>5. ASSUME te = "wait", done = made PROVE ResultOnItsWay'
  <2>1. ResultOnItsWay
    BY <1>5 DEF WaitInv
  <2>2. pending.kind # "unregister"
    BY <1>1, <2>1 DEF ResultOnItsWay
  <2>3. \E i \in 1..Len(Stream') : IsResult(Stream'[i])
    BY <1>2, <2>1 DEF ResultOnItsWay
  <2> QED BY <1>1, <2>2, <2>3 DEF ResultOnItsWay, IsResult
<1>6. ASSUME te = "wait", done # made PROVE h' = "ended" \/ OnItsWay'
  <2>1. SUFFICES ASSUME h' # "ended" PROVE OnItsWay'
    OBVIOUS
  <2>2. OnItsWay
    BY <1>1, <1>6 DEF WaitInv
  <2>3. hq[1] # pending /\ hq[1] # Undecodable
    <3>1. pending.kind \in Calls
      BY <1>6 DEF CallInv, CallState
    <3>2. kind # "undecodable"
      BY <2>1
    <3> QED BY <1>1, <3>1, <3>2 DEF Calls, Undecodable
  <2>4. IsIn(pending, south) \/ IsIn(pending, hq') \/ IsIn(Undecodable, hq')
    BY <1>1, <2>2, <2>3, IsInTail DEF OnItsWay
  <2> QED BY <1>1, <2>4 DEF OnItsWay
<1> QED BY <1>1, <1>2, <1>3, <1>4, <1>5, <1>6 DEF WaitInv

LEMMA WaitNext == Inv /\ CallInv /\ WaitInv /\ [Next]_vars => WaitInv'
<1> SUFFICES ASSUME Inv, CallInv, WaitInv, [Next]_vars PROVE WaitInv'
  OBVIOUS
<1>1. CASE Start \/ AskMap \/ AskUnmap \/ Stop
  BY <1>1, WaitAsked
<1>2. CASE Send \/ UNCHANGED vars
  <2>1. CASE Send
    <3>1. UNCHANGED <<te, pending, buff, made, hq, h, north, done>> /\ te = "ready"
      BY <2>1 DEF Send, handler
    <3>2. Stream' = Stream
      BY <3>1 DEF Stream
    <3> QED BY <3>1, <3>2 DEF WaitInv
  <2>2. CASE UNCHANGED vars
    <3>1. UNCHANGED <<te, pending, buff, made, south, hq, h, north, done>>
      BY <2>2 DEF vars, titan, handler
    <3>2. Stream' = Stream
      BY <3>1 DEF Stream
    <3> QED BY <3>1, <3>2, WaitKept
  <2> QED BY <1>2, <2>1, <2>2
<1>3. CASE Receive \/ ConnectionLost \/ DecodingFails \/ Take
  BY <1>3, WaitReads
<1>4. CASE WaitTakes
  BY <1>4, WaitSkips, WaitReturns
<1>5. CASE ReaderReads
  BY <1>5, WaitRead
<1>6. CASE HandleRegister \/ HandleMap \/ HandleUnmap \/ HandleUnregister
  BY <1>6, WaitHandled
<1>7. CASE HandleSend
  <2>1. PICK ok \in BOOLEAN : north' = north \o Cells(Answer(Head(hq), ok))
    BY <1>7 DEF HandleSend, Replies
  <2> DEFINE p == Answer(Head(hq), ok)
             kind == "send"
  <2>2. Handles(kind) /\ h' = h /\ done' = done /\ north' = north \o Cells(p)
    BY <1>7, <2>1 DEF HandleSend
  <2>3. p \in Pdu
    <3>1. Head(hq) = hq[1] /\ hq[1] \in Queued /\ hq[1].kind = "send"
      BY <2>2, Taken
    <3>2. Head(hq).id \in Nat
      BY <3>1 DEF Queued, Requests, Undecodable
    <3> QED BY <3>2, AnswerFacts
  <2> HIDE DEF p
  <2> QED BY <2>2, <2>3, WaitPassed
<1>8. CASE HandleUndecodable
  <2> DEFINE p == Answer(Head(hq), FALSE)
             kind == "undecodable"
  <2>1. /\ Handles(kind) /\ h' = "ended" /\ done' = done
        /\ north' = north \/ north' = north \o Cells(p)
    BY <1>8 DEF HandleUndecodable, Replies
  <2>2. p \in Pdu
    <3>1. Head(hq) = hq[1] /\ hq[1] \in Queued /\ hq[1].kind = "undecodable"
      BY <2>1, Taken
    <3>2. Head(hq).id \in Nat
      BY <3>1 DEF Queued, Requests, Undecodable
    <3> QED BY <3>2, AnswerFacts
  <2> HIDE DEF p
  <2> QED BY <2>1, <2>2, WaitPassed
<1>9. CASE HandleIndication
  <2> DEFINE p == Enqueued(hq[1].msg)
             kind == "enqueue"
  <2>1. Handles(kind) /\ p \in Pdu /\ north' = north \o Cells(p) /\ h' = h /\ done' = done
    BY <1>9, IndicationFacts
  <2> HIDE DEF p
  <2> QED BY <2>1, WaitPassed
<1>10. CASE LookUp \/ \E m \in held : Put(m)
  BY <1>10, WaitPut
<1> QED BY <1>1, <1>2, <1>3, <1>4, <1>5, <1>6, <1>7, <1>8, <1>9, <1>10
        DEF Next, TitanReceives, HandlerStep

LEMMA NothingIsLost == CallInv /\ WaitInv => NoRequestLost
<1> SUFFICES ASSUME CallInv, WaitInv, te = "wait"
             PROVE  IF done = made
                    THEN \E i \in 1..Len(buff \o north) : IsResult((buff \o north)[i])
                    ELSE \/ h = "ended"
                         \/ /\ h \in {"new", "registered"}
                            /\ IsIn(pending, south) \/ IsIn(pending, hq) \/ IsIn(Undecodable, hq)
  BY DEF NoRequestLost
<1>1. h \in {"none", "new", "registered", "ended"} /\ h # "none"
  BY DEF CallInv, CallState, WaitInv
<1> QED BY <1>1 DEF WaitInv, ResultOnItsWay, OnItsWay, Stream

-----------------------------------------------------------------------------
(* The calls.                                                               *)

\* The steps that are none of the calls.
LEMMA NoCall ==
  ASSUME UNCHANGED <<made, done, pending>>, te' \in {te} \cup Errors
  PROVE  [R!CallNext]_R!callVars
<1>1. CASE te' = te
  BY <1>1 DEF R!callVars
<1>2. CASE te' \in Errors
  BY <1>2 DEF R!CallNext, R!Fail
<1> QED BY <1>1, <1>2

LEMMA CallInitRefined == Init => R!CallInit
<1> QED BY DEF Init, R!CallInit, Errors

LEMMA CallNextRefined == Inv /\ CallInv /\ [Next]_vars => [R!CallNext]_R!callVars
<1> SUFFICES ASSUME Inv, CallInv, [Next]_vars PROVE [R!CallNext]_R!callVars
  OBVIOUS
<1>1. made \in Nat /\ done \in Nat
  BY DEF CallInv, CallState
<1>2. CASE Start \/ AskMap \/ AskUnmap \/ Stop
  <2>1. PICK kind \in Calls : \/ kind = "register" /\ Start
                              \/ kind = "map" /\ AskMap
                              \/ kind = "unmap" /\ AskUnmap
                              \/ kind = "unregister" /\ Stop
    BY <1>2 DEF Calls
  <2>2. Ask(kind) /\ te \in {"off", "ready"} /\ done' = done
    BY <2>1, AskActions
  <2>3. made' = made + 1 /\ te' = "wait" /\ pending' = Request(kind)
    BY <2>2 DEF Ask
  <2>4. pending = <<>> /\ te \notin Errors /\ te' \notin Errors
    BY <2>2, <2>3 DEF CallInv, CallState, Waiting, Errors
  <2>5. pending' # <<>>
    BY <2>3, RequestNotEmpty
  <2>6. made' - 1 = made
    BY <1>1, <2>3, SMT
  <2> QED BY <2>2, <2>3, <2>4, <2>5, <2>6 DEF R!CallNext, R!Ask
<1>3. CASE Send \/ ReaderReads \/ LookUp \/ (\E m \in held : Put(m)) \/ HandleSend
             \/ HandleUndecodable \/ HandleIndication \/ UNCHANGED vars
  <2>1. UNCHANGED <<made, done, pending, te>>
    BY <1>3 DEF Send, ReaderReads, LookUp, Put, HandleSend, HandleUndecodable, HandleIndication,
                Handles, titan, handler, vars
  <2> QED BY <2>1, NoCall
<1>4. CASE Receive \/ ConnectionLost \/ DecodingFails \/ Take
             \/ (WaitTakes /\ First.id # pending.id)
  <2>1. UNCHANGED <<made, done, pending>> /\ te' \in {te} \cup Errors
    BY <1>4, PortReads
  <2> QED BY <2>1, NoCall
<1>5. CASE WaitTakes /\ First.id = pending.id
  <2>1. /\ te = "wait" /\ Returns(First.ok) /\ UNCHANGED <<made, done>>
    BY <1>5, FirstIsResult DEF WaitTakes, handler
  <2>2. done = made /\ pending # <<>>
    BY <1>5, <2>1, CallReturns DEF CallInv, CallState, Waiting
  <2>3. CASE te' = "failed"
    <3>1. pending' = pending
      BY <2>1, <2>3 DEF Returns
    <3> QED BY <2>1, <2>3, <3>1, NoCall DEF Errors
  <2>4. CASE te' # "failed"
    <3>1. pending' = <<>> /\ te' \in {"off", "ready"}
      BY <2>1, <2>4 DEF Returns
    <3>2. te \notin Errors /\ te' \notin Errors
      BY <2>1, <3>1 DEF Errors
    <3>3. made - 1 < made /\ (made - 1) + 1 = made
      BY <1>1, SMT
    <3> QED BY <2>1, <2>2, <3>1, <3>2, <3>3 DEF R!CallNext, R!Answer
  <2> QED BY <2>3, <2>4
<1>6. CASE HandleRegister \/ HandleMap \/ HandleUnmap \/ HandleUnregister
  <2>1. PICK kind \in Calls : \/ kind = "register" /\ HandleRegister
                              \/ kind = "map" /\ HandleMap
                              \/ kind = "unmap" /\ HandleUnmap
                              \/ kind = "unregister" /\ HandleUnregister
    BY <1>6 DEF Calls
  <2>2. Handles(kind) /\ done' = done + 1 /\ done + 1 = made
    BY <2>1, CallActions
  <2>3. UNCHANGED <<made, pending, te>>
    BY <2>2 DEF Handles, titan
  <2>4. done < made
    BY <1>1, <2>2, SMT
  <2> QED BY <2>2, <2>3, <2>4 DEF R!CallNext, R!Handle
<1> QED BY <1>2, <1>3, <1>4, <1>5, <1>6 DEF Next, TitanReceives, HandlerStep

-----------------------------------------------------------------------------
Invariants ==
  /\ Inv /\ CallInv /\ MapInv /\ FreshInv /\ OrderInv /\ GotInv /\ BoundInv /\ TypeInv
  /\ WaitInv

LEMMA InvariantsHold == Spec => []Invariants
<1>1. Init => Invariants
  BY InvInit, CallInit, MapInit, FreshInit, OrderInit, GotInit, BoundInit, WaitInit
     DEF Invariants
<1>2. Invariants /\ [Next]_vars => Invariants'
  BY InvNext, CallNext, MapNext, FreshNext, OrderNext, GotNext, BoundNext, TypeNext, WaitNext
     DEF Invariants
<1> QED BY <1>1, <1>2, PTL DEF Spec

\* Every variable keeps its type: the messages that are read in parts and the ids and mappings
\* they carry, and the messages the adapter still holds are counted (TRI_read_socket,
\* TRI_wait_for_res, TitanTESocketHandler, TitanPortHandler).
THEOREM ConnectionTypes == Spec => []TypeOK
<1>1. Invariants => TypeOK
  BY TypesHold DEF Invariants
<1> QED BY <1>1, InvariantsHold, PTL

\* The test gets the messages of the adapter in the order they were queued, none twice, and none
\* of an earlier mapping unless the adapter held it back across the unmap request
\* (TRI_wait_for_res, Handle_Fd_Event_Readable, TitanPortHandler.enqueueMessage).
THEOREM MessagesDelivered == Spec => []Delivery
<1>1. Invariants => Delivery
  BY DeliveryHolds DEF Invariants
<1> QED BY <1>1, InvariantsHold, PTL

\* A port never waits for a result that cannot come: its request is on its way or what is left
\* of it, the handler has ended, or the result is in the stream (TRI_wait_for_res,
\* TRI_get_message, TitanTESocketHandler, TitanPortHandler.run).
THEOREM RequestsAreNotLost == Spec => []NoRequestLost
<1>1. Invariants => NoRequestLost
  BY NothingIsLost DEF Invariants
<1> QED BY <1>1, InvariantsHold, PTL

\* The requests of a test port are made one by one, each is handled once, and its call returns
\* only after that (TRI_wait_for_res, TitanPortHandler.run).
THEOREM CallsImplemented == Spec => ImplementsRequestReply
<1>1. Invariants /\ [Next]_vars => [R!CallNext]_R!callVars
  BY CallNextRefined DEF Invariants
<1>2. Spec => R!CallSpec
  BY <1>1, CallInitRefined, InvariantsHold, PTL DEF Spec, R!CallSpec
<1> QED BY <1>2 DEF ImplementsRequestReply
=============================================================================
