--------------------------- MODULE TriConnection ----------------------------
(***************************************************************************)
(* The connection between a Titan test port (TRI/TRI_mapper_API.cc and the  *)
(* ports built on it, GN/GeoNetworkingPort.cc) and its handler in the TRI   *)
(* mapper (TitanTESocketHandler, TitanPortHandler).  The port makes a       *)
(* request and waits for the result that carries its id; messages of the    *)
(* adapter and results of earlier sends arrive on the same stream.          *)
(*                                                                         *)
(* A message to the port is two cells of the stream: a read may end in the  *)
(* middle of it.  A message to the mapper is written in two calls, and the  *)
(* mapper may read a part of its body only.  The adapter is external: it    *)
(* looks the handler up while the port is mapped and queues the message.    *)
(***************************************************************************)
EXTENDS Naturals, Sequences, FiniteSets

CONSTANTS MaxId,     \* bound: ids of the port's messages
          MaxMsgs    \* bound: messages of the adapter

ASSUME BoundsAssumption == MaxId \in Nat /\ MaxMsgs \in Nat

VARIABLES
  te,         \* what the port is doing; its errors end the component
  teMapped,   \* the port reads its socket when the test waits
  pending,    \* the request it waits for, <<>> for none
  nextId,     \* TRI_mapper_data.msg_seq_num
  buff,       \* TRI_mapper_data.buff
  south,      \* the stream to the mapper
  hq,         \* queue of the handler
  h,          \* what the handler is doing
  hMapped,    \* the handler is registered for its system port
  north,      \* the stream to the port
  held,       \* messages the adapter has looked the handler up for
  era,        \* number of map requests handled
  teEra,      \* number of map requests answered
  made,       \* number of requests the port waited for, and ...
  done,       \* ... number of them that were handled
  looked,     \* number of look-ups of the adapter
  puts,       \* number of messages it put in the queue of this handler
  got         \* messages given to the test, with teEra at that time

titan == <<te, teMapped, pending, nextId, buff, teEra, made>>
handler == <<hq, h, hMapped, north, era, done>>
adapter == <<held, looked, puts>>
vars == <<titan, handler, adapter, south, got>>

Errors == {"lost", "failed", "garbled", "misread"}

Init ==
  /\ te = "off" /\ teMapped = FALSE /\ pending = <<>> /\ nextId = 0 /\ buff = <<>>
  /\ south = <<>> /\ hq = <<>> /\ h = "none" /\ hMapped = FALSE /\ north = <<>>
  /\ held = {} /\ era = 0 /\ teEra = 0 /\ made = 0 /\ done = 0
  /\ looked = 0 /\ puts = 0 /\ got = <<>>

\* Messages to the mapper, and those in the queue of the handler.
Request(kind) == [kind |-> kind, id |-> nextId]
Undecodable == [kind |-> "undecodable", id |-> 0]
Indication(m) == [kind |-> "enqueue", msg |-> m]

\* Mutated: the constant id of the messages of the adapter is 2.
EnqueuedAsTwo(m) == [kind |-> "enqueue", id |-> 2, msg |-> m]

\* Messages to the port: TitanTriReply(1, ...) and the result of a request.
Enqueued(m) == [kind |-> "enqueue", id |-> 1, msg |-> m]
AnswerZero(r, ok) == [kind |-> "result", id |-> 0, ok |-> ok]
Answer(r, ok) == [kind |-> "result", id |-> r.id, ok |-> ok]

Cells(pdu) == <<[pdu |-> pdu, part |-> 1], [pdu |-> pdu, part |-> 2]>>

-----------------------------------------------------------------------------
(* The requests of the port.                                                *)

\* TRI_get_message finds a message; it finds none, or garbage, when the buffer
\* starts in the middle of a message.
Misframed == buff # <<>> /\ Head(buff).part = 2
Complete == Len(buff) >= 2 /\ ~Misframed

\* The event handler of the port has taken all the messages it has read.
Settled == teMapped => ~Complete

\* Mutated: the id is used again.
AskKeepsId(kind) ==
  /\ nextId < MaxId
  /\ south' = Append(south, Request(kind))
  /\ pending' = Request(kind)
  /\ te' = "wait"
  /\ made' = made + 1
  /\ UNCHANGED nextId

\* A request is written and the port begins to wait.
Ask(kind) ==
  /\ nextId < MaxId
  /\ south' = Append(south, Request(kind))
  /\ nextId' = nextId + 1
  /\ pending' = Request(kind)
  /\ te' = "wait"
  /\ made' = made + 1

\* TRI_start: a new connection gets a new handler; what the adapter still holds
\* goes to the queue of the old one.
Start ==
  /\ te = "off" /\ h \in {"none", "ended"}
  /\ Ask("register")
  /\ h' = "new" /\ hq' = <<>> /\ north' = <<>> /\ hMapped' = FALSE
  /\ held' = {}
  /\ UNCHANGED <<teMapped, buff, teEra, era, done, looked, puts, got>>

AskMap ==
  /\ te = "ready" /\ ~teMapped
  /\ Ask("map")
  /\ UNCHANGED <<teMapped, buff, teEra, handler, adapter, got>>

AskUnmap ==
  /\ te = "ready" /\ teMapped /\ Settled
  /\ Ask("unmap")
  /\ UNCHANGED <<teMapped, buff, teEra, handler, adapter, got>>

\* TRI_stop; the executor unmaps a port before it stops it.
Stop ==
  /\ te = "ready" /\ ~teMapped
  /\ Ask("unregister")
  /\ UNCHANGED <<teMapped, buff, teEra, handler, adapter, got>>

\* outgoing_send does not wait for the result.
Send ==
  /\ te = "ready" /\ teMapped /\ Settled
  /\ nextId < MaxId
  /\ south' = Append(south, Request("send"))
  /\ nextId' = nextId + 1
  /\ UNCHANGED <<te, teMapped, pending, buff, teEra, made, handler, adapter, got>>

-----------------------------------------------------------------------------
(* What the port receives.                                                  *)

\* The port looks at its buffer while it waits, and in its event handler.
Looks == te = "wait" \/ (te = "ready" /\ teMapped)
Reads == Looks /\ ~Complete

\* TRI_read_socket: any prefix of what has arrived.
Receive ==
  /\ Reads /\ north # <<>>
  /\ \E n \in 1..Len(north) :
       /\ buff' = buff \o SubSeq(north, 1, n)
       /\ north' = SubSeq(north, n + 1, Len(north))
  /\ UNCHANGED <<te, teMapped, pending, nextId, teEra, made, hq, h, hMapped, era, done,
                 adapter, south, got>>

ConnectionLost ==
  /\ Reads /\ north = <<>> /\ h = "ended"
  /\ te' = "lost"
  /\ UNCHANGED <<teMapped, pending, nextId, buff, teEra, made, handler, adapter, south, got>>

\* Once enough bytes have come the garbage is taken for a message.
DecodingFails ==
  /\ Looks /\ Misframed /\ Len(buff) > 1
  /\ te' = "garbled"
  /\ UNCHANGED <<teMapped, pending, nextId, buff, teEra, made, handler, adapter, south, got>>

First == Head(buff).pdu
Rest == SubSeq(buff, 3, Len(buff))

\* The end of the call, by kind of request.  After a map request the buffer is
\* cleared.
Returns(ok) ==
  LET kind == pending.kind IN
  /\ te' = CASE kind \in {"register", "map"} /\ ~ok -> "failed"
             [] kind = "unregister" -> "off"
             [] OTHER -> "ready"
  /\ teMapped' = (kind = "map" /\ ok)
  /\ buff' = IF kind = "map" THEN <<>> ELSE Rest
  /\ teEra' = IF kind = "map" THEN teEra + 1 ELSE teEra
  /\ pending' = IF te' = "failed" THEN pending ELSE <<>>

\* Mutated: the id of the message is not compared.
WaitTakesAny ==
  /\ te = "wait" /\ Complete
  /\ IF First.kind = "result"
     THEN Returns(First.ok)
     ELSE buff' = Rest /\ UNCHANGED <<te, teMapped, teEra, pending>>
  /\ UNCHANGED <<nextId, made, handler, adapter, south, got>>

\* TRI_wait_for_res skips messages with another id and takes the first one with its
\* own for the result.
WaitTakes ==
  /\ te = "wait" /\ Complete
  /\ CASE First.id # pending.id -> buff' = Rest /\ UNCHANGED <<te, teMapped, teEra, pending>>
       [] First.id = pending.id /\ First.kind = "result" -> Returns(First.ok)
       [] OTHER -> te' = "misread" /\ UNCHANGED <<buff, teMapped, teEra, pending>>
  /\ UNCHANGED <<nextId, made, handler, adapter, south, got>>

\* Mutated: the message stays in the buffer.
TakeWithoutCut ==
  /\ te = "ready" /\ teMapped /\ Complete
  /\ IF First.kind = "enqueue"
     THEN /\ got' = Append(got, [msg |-> First.msg, at |-> teEra])
          /\ UNCHANGED <<te, buff>>
     ELSE /\ te' = IF First.ok THEN te ELSE "failed"
          /\ buff' = Rest
          /\ UNCHANGED got
  /\ UNCHANGED <<teMapped, pending, nextId, teEra, made, handler, adapter, south>>

\* Handle_Fd_Event_Readable gives a message to the test; the result of a send only
\* matters if it is an error.
Take ==
  /\ te = "ready" /\ teMapped /\ Complete
  /\ buff' = Rest
  /\ IF First.kind = "enqueue"
     THEN got' = Append(got, [msg |-> First.msg, at |-> teEra]) /\ UNCHANGED te
     ELSE te' = (IF First.ok THEN te ELSE "failed") /\ UNCHANGED got
  /\ UNCHANGED <<teMapped, pending, nextId, teEra, made, handler, adapter, south>>

-----------------------------------------------------------------------------
(* The mapper.                                                              *)

\* TitanTESocketHandler: in.read may return a part of the body.
ReaderReads ==
  /\ h \in {"new", "registered"} /\ south # <<>>
  /\ \E m \in {Head(south), Undecodable} : hq' = Append(hq, m)
  /\ south' = Tail(south)
  /\ UNCHANGED <<titan, h, hMapped, north, era, done, adapter, got>>

\* The handler has taken a request of this kind from its queue.
Handles(kind) ==
  /\ h \in {"new", "registered"} /\ hq # <<>>
  /\ Head(hq).kind = kind
  /\ hq' = Tail(hq)
  /\ UNCHANGED <<titan, adapter, south, got>>

Replies(ok) == north' = north \o Cells(Answer(Head(hq), ok))

HandleRegister ==
  /\ Handles("register")
  /\ Replies(TRUE)
  /\ h' = "registered" /\ done' = done + 1
  /\ UNCHANGED <<hMapped, era>>

HandleMap ==
  /\ Handles("map")
  /\ Replies(TRUE)
  /\ hMapped' = TRUE /\ era' = era + 1 /\ done' = done + 1
  /\ UNCHANGED h

HandleUnmap ==
  /\ Handles("unmap")
  /\ Replies(TRUE)
  /\ hMapped' = FALSE /\ done' = done + 1
  /\ UNCHANGED <<h, era>>

HandleUnregister ==
  /\ Handles("unregister")
  /\ Replies(TRUE)
  /\ h' = "ended" /\ hMapped' = FALSE /\ done' = done + 1
  /\ UNCHANGED era

\* triSend fails when the adapter does not know the port.
HandleSend ==
  /\ Handles("send")
  /\ \E ok \in BOOLEAN : Replies(ok)
  /\ UNCHANGED <<h, hMapped, era, done>>

\* The handler answers with id 0 and ends; before the registration there is no name
\* for the log and it dies without an answer.  It stays registered for its port.
HandleUndecodable ==
  /\ Handles("undecodable")
  /\ IF h = "registered" THEN Replies(FALSE) ELSE UNCHANGED north
  /\ h' = "ended"
  /\ UNCHANGED <<hMapped, era, done>>

HandleIndication ==
  /\ Handles("enqueue")
  /\ north' = north \o Cells(Enqueued(Head(hq).msg))
  /\ UNCHANGED <<h, hMapped, era, done>>

-----------------------------------------------------------------------------
(* The adapter.                                                             *)

LookUp ==
  /\ hMapped /\ looked < MaxMsgs
  /\ looked' = looked + 1
  /\ held' = held \cup {[look |-> looked, era |-> era]}
  /\ UNCHANGED <<titan, handler, south, puts, got>>

\* A message is late if the port was unmapped since the look-up.
Put(m) ==
  /\ m \in held
  /\ held' = held \ {m}
  /\ puts' = puts + 1
  /\ hq' = Append(hq, Indication([n |-> puts, era |-> m.era,
                                  late |-> ~hMapped \/ era # m.era]))
  /\ UNCHANGED <<titan, h, hMapped, north, era, done, looked, south, got>>

-----------------------------------------------------------------------------
TitanReceives == Receive \/ ConnectionLost \/ WaitTakes \/ Take

HandlerStep ==
  \/ HandleRegister \/ HandleMap \/ HandleUnmap \/ HandleUnregister \/ HandleSend
  \/ HandleUndecodable \/ HandleIndication

Next ==
  \/ Start \/ AskMap \/ AskUnmap \/ Stop \/ Send
  \/ TitanReceives \/ DecodingFails
  \/ ReaderReads \/ HandlerStep
  \/ LookUp \/ (\E m \in held : Put(m))

Spec == Init /\ [][Next]_vars

\* The threads of the mapper run, and a component that waits reads its socket.
FairSpec ==
  Spec /\ WF_vars(TitanReceives) /\ WF_vars(ReaderReads) /\ WF_vars(HandlerStep)

-----------------------------------------------------------------------------
(* Properties.                                                             *)

Message == [n : Nat, era : 0..era, late : BOOLEAN]
ToPort == [kind : {"result"}, id : 0..MaxId, ok : BOOLEAN]
            \cup [kind : {"enqueue"}, id : {1}, msg : Message]
Cell == [pdu : ToPort, part : {1, 2}]
ToMapper == [kind : {"register", "map", "unmap", "unregister", "send"}, id : 0..MaxId]
InQueue == ToMapper \cup {Undecodable} \cup [kind : {"enqueue"}, msg : Message]

\* Every variable has its type; the port waits for the last request it made, and
\* what the mapper has to handle was made before.
TypeOK ==
  /\ te \in {"off", "ready", "wait"} \cup Errors
  /\ teMapped \in BOOLEAN /\ nextId \in 0..MaxId
  /\ pending \in ToMapper \cup {<<>>}
  /\ te = "wait" => pending # <<>> /\ pending.id + 1 = nextId
  /\ te \in {"off", "ready"} => pending = <<>>
  /\ buff \in Seq(Cell) /\ north \in Seq(Cell)
  /\ south \in Seq(ToMapper) /\ hq \in Seq(InQueue)
  /\ h \in {"none", "new", "registered", "ended"} /\ hMapped \in BOOLEAN
  /\ held \subseteq [look : 0..looked, era : 0..era] /\ IsFiniteSet(held)
  /\ teEra <= era /\ done <= made /\ puts <= looked /\ looked <= MaxMsgs
  /\ got \in Seq([msg : Message, at : 0..teEra])

\* The message a wait takes for its result is a result, although messages of the
\* adapter carry the id of a request, 1 (TRI_wait_for_res, enqueueMessage).
ResultIsResult == te # "misread"

\* The test gets the messages of the adapter in the order they were queued, none
\* twice, and never one of an earlier mapping unless the adapter held it back
\* across the unmap request (TRI_wait_for_res, Handle_Fd_Event_Readable).
Delivery ==
  /\ \A i, j \in 1..Len(got) : i < j => got[i].msg.n < got[j].msg.n
  /\ \A i \in 1..Len(got) : got[i].msg.late \/ got[i].msg.era = got[i].at

IsIn(x, s) == \E i \in 1..Len(s) : s[i] = x

\* The beginning of the result the port waits for.
IsResult(cell) ==
  cell.part = 1 /\ cell.pdu.kind = "result" /\ cell.pdu.id = pending.id

\* No wait is for nothing: a request that was handled has its result on the way to the
\* port, and any other is still on its way to the handler, or what a partial read left of
\* it, unless the handler has ended and the port will notice; what is skipped, cleared
\* away or left by an earlier connection never takes it along (TRI_wait_for_res,
\* TRI_get_message, TitanTESocketHandler).
NoRequestLost ==
  te = "wait" =>
    IF done = made
    THEN \E i \in 1..Len(buff \o north) : IsResult((buff \o north)[i])
    ELSE \/ h = "ended"
         \/ /\ h \in {"new", "registered"}
            /\ IsIn(pending, south) \/ IsIn(pending, hq) \/ IsIn(Undecodable, hq)

\* Every request returns or ends the component, unless the stream is misframed.
RequestsReturn == te = "wait" ~> (te # "wait" \/ Misframed)

\* The connection implements calls that are made, handled and answered one by one,
\* which is what TriAdapter assumes of the map and unmap requests.
R == INSTANCE RequestReply WITH
       asked <- made, handled <- done,
       answered <- IF pending = <<>> THEN made ELSE made - 1,
       failed <- te \in Errors
ImplementsRequestReply == R!CallSpec

\* TRI_get_message: a message that was received can be decoded.
DecodingSucceeds == te # "garbled"
=============================================================================
