---------------------------- MODULE Gn6PortProof ----------------------------
(***************************************************************************)
(* Proof that the port delivers no packet twice and swallows two at most,   *)
(* and that the remote adapter forgets the port, for every set of packets.  *)
(*                                                                         *)
(* A packet is in one place: on its way, in the buffer, or delivered, where *)
(* only the last one delivered may still be in the buffer.  A REGISTER on   *)
(* its way means that the thread waits for its answer and that there is no  *)
(* datagram it could take for it.                                           *)
(***************************************************************************)
EXTENDS Gn6Port, TLAPS

Delivered == {delivered[i] : i \in DOMAIN delivered}

\* A packet has been forwarded, and is not both on its way and received.
OnePlace ==
  /\ (toPort \cup {buf}) \cap Packet \subseteq forwarded
  /\ toPort \cap Delivered = {} /\ buf \notin toPort

\* A delivered packet in the buffer is the last one, and is handled again only after
\* a failure.
Buffered ==
  buf \in Delivered =>
    /\ Len(delivered) > 0 /\ buf = delivered[Len(delivered)]
    /\ thread = "handle" => "receive" \in failed /\ ~running

\* Nothing was delivered twice.
Distinct ==
  \A i, j \in DOMAIN delivered : i < j => delivered[i] # delivered[j]

\* After a repetition the thread receives no more.
Repeated ==
  Distinct \/ (~running /\ thread \in {"loop", "unregister", "last", "ended"})

\* A command is on its way only when the thread has sent it, and REGISTER without any
\* datagram that might be its answer.
Registration ==
  failed \cap Command = {} =>
    /\ thread = "register" => toRemote = {} /\ toPort = {} /\ ~client
    /\ "register" \in toRemote => thread = "answer" /\ toPort = {} /\ ~client
    /\ thread \notin {"last", "ended"} => "unregister" \notin toRemote
    /\ thread \in {"last", "ended"} /\ client => "unregister" \in toRemote \cup lost

IInv ==
  /\ TypeOK /\ OnePlace /\ Buffered /\ Repeated /\ NoPacketTwice
  /\ SwallowsAnswersOnly /\ Registration
-----------------------------------------------------------------------------
LEMMA InitInv == Init => IInv
<1> USE PacketAssumption DEF Init
<1>1. Init => TypeOK
  <2>1. Init => dPc \in [Disposer -> {"idle", "stop", "join", "close", "done"}]
    OBVIOUS
  <2>2. Init => delivered \in Seq(forwarded)
    OBVIOUS
  <2> QED BY <2>1, <2>2 DEF TypeOK
<1>2. Init => OnePlace /\ Buffered /\ Repeated /\ NoPacketTwice
  BY DEF OnePlace, Buffered, Repeated, NoPacketTwice, Distinct, Delivered
<1>3. Init => SwallowsAnswersOnly
  BY DEF SwallowsAnswersOnly, Swallowed
<1>4. Init => Registration
  BY DEF Registration, Command
<1> QED BY <1>1, <1>2, <1>3, <1>4 DEF IInv

\* The types: what is delivered was in the buffer, and had been forwarded.
LEMMA TypesKept ==
  ASSUME TypeOK, OnePlace, [Next]_vars
  PROVE  TypeOK'
<1> USE PacketAssumption DEF TypeOK, OnePlace, port, network, remote, Contents, Datagram, Command, Disposer
<1>1. CASE Registers
  BY <1>1 DEF Registers
<1>2. CASE Loops
  BY <1>2 DEF Loops
<1>3. CASE Handles
  BY <1>3 DEF Handles
<1>4. CASE Unregisters
  BY <1>4 DEF Unregisters
<1>5. CASE TimesOut
  BY <1>5 DEF TimesOut
<1>6. CASE GivesUpLast
  BY <1>6 DEF GivesUpLast
<1>7. CASE RegisterFails
  BY <1>7 DEF RegisterFails
<1>8. CASE ReceiveFails
  BY <1>8 DEF ReceiveFails
<1>9. CASE UnregisterFails
  BY <1>9 DEF UnregisterFails
<1>10. ASSUME NEW d \in Datagram, TakesAnswer(d) PROVE TypeOK'
  BY <1>10 DEF TakesAnswer
<1>11. ASSUME NEW d \in Datagram, Receives(d) PROVE TypeOK'
  BY <1>11 DEF Receives
<1>12. ASSUME NEW d \in Datagram, TakesLast(d) PROVE TypeOK'
  BY <1>12 DEF TakesLast
<1>13. ASSUME NEW d \in Disposer, Dispose(d) PROVE TypeOK'
  BY <1>13 DEF Dispose
<1>14. ASSUME NEW d \in Disposer, DisposeStops(d) PROVE TypeOK'
  BY <1>14 DEF DisposeStops
<1>15. ASSUME NEW d \in Disposer, DisposeJoined(d) PROVE TypeOK'
  BY <1>15 DEF DisposeJoined
<1>16. ASSUME NEW d \in Disposer, DisposeCloses(d) PROVE TypeOK'
  BY <1>16 DEF DisposeCloses
<1>17. ASSUME NEW d \in Datagram, Lose(d) PROVE TypeOK'
  BY <1>17 DEF Lose
<1>18. ASSUME NEW c \in Command, RemoteAnswers(c) PROVE TypeOK'
  BY <1>18 DEF RemoteAnswers
<1>19. ASSUME NEW p \in Packet, RemoteForwards(p) PROVE TypeOK'
  BY <1>19 DEF RemoteForwards
<1>20. CASE UNCHANGED vars
  BY <1>20 DEF vars
<1> QED
  BY <1>1, <1>2, <1>3, <1>4, <1>5, <1>6, <1>7, <1>8, <1>9, <1>10, <1>11, <1>12,
     <1>13, <1>14, <1>15, <1>16, <1>17, <1>18, <1>19, <1>20
  DEF Next, Thread, Fails, Disposes

\* A packet that arrives is new: it was forwarded once, and was on its way until now.
LEMMA PlacesKept ==
  ASSUME TypeOK, OnePlace, Buffered, [Next]_vars
  PROVE  (OnePlace /\ Buffered)'
<1> USE PacketAssumption DEF TypeOK, OnePlace, Buffered, Delivered, port, network, remote, Contents, Datagram, Command
<1>1. CASE Registers
  BY <1>1 DEF Registers
<1>2. CASE Loops
  BY <1>2 DEF Loops
<1>3. CASE Handles
  BY <1>3 DEF Handles
<1>4. CASE Unregisters
  BY <1>4 DEF Unregisters
<1>5. CASE TimesOut
  BY <1>5 DEF TimesOut
<1>6. CASE GivesUpLast
  BY <1>6 DEF GivesUpLast
<1>7. CASE RegisterFails
  BY <1>7 DEF RegisterFails
<1>8. CASE ReceiveFails
  BY <1>8 DEF ReceiveFails
<1>9. CASE UnregisterFails
  BY <1>9 DEF UnregisterFails
<1>10. ASSUME NEW d \in Datagram, TakesAnswer(d) PROVE (OnePlace /\ Buffered)'
  BY <1>10 DEF TakesAnswer
<1>11. ASSUME NEW d \in Datagram, Receives(d) PROVE (OnePlace /\ Buffered)'
  BY <1>11 DEF Receives
<1>12. ASSUME NEW d \in Datagram, TakesLast(d) PROVE (OnePlace /\ Buffered)'
  BY <1>12 DEF TakesLast
<1>13. ASSUME NEW d \in Disposer, Dispose(d) PROVE (OnePlace /\ Buffered)'
  BY <1>13 DEF Dispose
<1>14. ASSUME NEW d \in Disposer, DisposeStops(d) PROVE (OnePlace /\ Buffered)'
  BY <1>14 DEF DisposeStops
<1>15. ASSUME NEW d \in Disposer, DisposeJoined(d) PROVE (OnePlace /\ Buffered)'
  BY <1>15 DEF DisposeJoined
<1>16. ASSUME NEW d \in Disposer, DisposeCloses(d) PROVE (OnePlace /\ Buffered)'
  BY <1>16 DEF DisposeCloses
<1>17. ASSUME NEW d \in Datagram, Lose(d) PROVE (OnePlace /\ Buffered)'
  BY <1>17 DEF Lose
<1>18. ASSUME NEW c \in Command, RemoteAnswers(c) PROVE (OnePlace /\ Buffered)'
  BY <1>18 DEF RemoteAnswers
<1>19. ASSUME NEW p \in Packet, RemoteForwards(p) PROVE (OnePlace /\ Buffered)'
  BY <1>19 DEF RemoteForwards
<1>20. CASE UNCHANGED vars
  BY <1>20 DEF vars
<1> QED
  BY <1>1, <1>2, <1>3, <1>4, <1>5, <1>6, <1>7, <1>8, <1>9, <1>10, <1>11, <1>12,
     <1>13, <1>14, <1>15, <1>16, <1>17, <1>18, <1>19, <1>20
  DEF Next, Thread, Fails, Disposes

\* Only the packet a failed reception left in the buffer is delivered again, and it is the
\* last one.
LEMMA RepetitionIsLast ==
  ASSUME TypeOK, Buffered, Repeated, NoPacketTwice, [Next]_vars
  PROVE  (Repeated /\ NoPacketTwice)'
<1> USE PacketAssumption DEF TypeOK, Buffered, Repeated, NoPacketTwice, Distinct, Delivered, port, network, remote
<1>1. CASE Registers
  BY <1>1 DEF Registers
<1>2. CASE Loops
  BY <1>2 DEF Loops
<1>3. CASE Handles
  BY <1>3 DEF Handles
<1>4. CASE Unregisters
  BY <1>4 DEF Unregisters
<1>5. CASE TimesOut
  BY <1>5 DEF TimesOut
<1>6. CASE GivesUpLast
  BY <1>6 DEF GivesUpLast
<1>7. CASE RegisterFails
  BY <1>7 DEF RegisterFails
<1>8. CASE ReceiveFails
  BY <1>8 DEF ReceiveFails
<1>9. CASE UnregisterFails
  BY <1>9 DEF UnregisterFails
<1>10. ASSUME NEW d \in Datagram, TakesAnswer(d) PROVE (Repeated /\ NoPacketTwice)'
  BY <1>10 DEF TakesAnswer
<1>11. ASSUME NEW d \in Datagram, Receives(d) PROVE (Repeated /\ NoPacketTwice)'
  BY <1>11 DEF Receives
<1>12. ASSUME NEW d \in Datagram, TakesLast(d) PROVE (Repeated /\ NoPacketTwice)'
  BY <1>12 DEF TakesLast
<1>13. ASSUME NEW d \in Disposer, Dispose(d) PROVE (Repeated /\ NoPacketTwice)'
  BY <1>13 DEF Dispose
<1>14. ASSUME NEW d \in Disposer, DisposeStops(d) PROVE (Repeated /\ NoPacketTwice)'
  BY <1>14 DEF DisposeStops
<1>15. ASSUME NEW d \in Disposer, DisposeJoined(d) PROVE (Repeated /\ NoPacketTwice)'
  BY <1>15 DEF DisposeJoined
<1>16. ASSUME NEW d \in Disposer, DisposeCloses(d) PROVE (Repeated /\ NoPacketTwice)'
  BY <1>16 DEF DisposeCloses
<1>17. ASSUME NEW d \in Datagram, Lose(d) PROVE (Repeated /\ NoPacketTwice)'
  BY <1>17 DEF Lose
<1>18. ASSUME NEW c \in Command, RemoteAnswers(c) PROVE (Repeated /\ NoPacketTwice)'
  BY <1>18 DEF RemoteAnswers
<1>19. ASSUME NEW p \in Packet, RemoteForwards(p) PROVE (Repeated /\ NoPacketTwice)'
  BY <1>19 DEF RemoteForwards
<1>20. CASE UNCHANGED vars
  BY <1>20 DEF vars
<1> QED
  BY <1>1, <1>2, <1>3, <1>4, <1>5, <1>6, <1>7, <1>8, <1>9, <1>10, <1>11, <1>12,
     <1>13, <1>14, <1>15, <1>16, <1>17, <1>18, <1>19, <1>20
  DEF Next, Thread, Fails, Disposes

\* All steps but the two receptions that are not handled: what was not swallowed is not.
Keeps ==
  /\ Swallowed' \subseteq Swallowed
  /\ thread = "ended" => thread' = "ended"
  /\ thread' \in {"register", "answer"} => thread \in {"register", "answer"}

LEMMA OthersSwallowNothing ==
  ASSUME TypeOK, OnePlace, [Next]_vars,
         ~ \E d \in Datagram : TakesAnswer(d) \/ TakesLast(d)
  PROVE  Keeps
<1> USE PacketAssumption
    DEF Keeps, TypeOK, OnePlace, Swallowed, ToSet, port, network, remote, Contents
<1>1. CASE Registers
  BY <1>1 DEF Registers
<1>2. CASE Loops
  BY <1>2 DEF Loops
<1>3. CASE Handles
  BY <1>3 DEF Handles
<1>4. CASE Unregisters
  BY <1>4 DEF Unregisters
<1>5. CASE TimesOut
  BY <1>5 DEF TimesOut
<1>6. CASE GivesUpLast
  BY <1>6 DEF GivesUpLast
<1>7. CASE RegisterFails
  BY <1>7 DEF RegisterFails
<1>8. CASE ReceiveFails
  BY <1>8 DEF ReceiveFails
<1>9. CASE UnregisterFails
  BY <1>9 DEF UnregisterFails
<1>10. ASSUME NEW d \in Datagram, Receives(d) PROVE Keeps
  BY <1>10 DEF Receives
<1>11. ASSUME NEW d \in Disposer, Dispose(d) PROVE Keeps
  BY <1>11 DEF Dispose
<1>12. ASSUME NEW d \in Disposer, DisposeStops(d) PROVE Keeps
  BY <1>12 DEF DisposeStops
<1>13. ASSUME NEW d \in Disposer, DisposeJoined(d) PROVE Keeps
  BY <1>13 DEF DisposeJoined
<1>14. ASSUME NEW d \in Disposer, DisposeCloses(d) PROVE Keeps
  BY <1>14 DEF DisposeCloses
<1>15. ASSUME NEW d \in Datagram, Lose(d) PROVE Keeps
  BY <1>15 DEF Lose
<1>16. ASSUME NEW c \in Command, RemoteAnswers(c) PROVE Keeps
  BY <1>16 DEF RemoteAnswers
<1>17. ASSUME NEW p \in Packet, RemoteForwards(p) PROVE Keeps
  BY <1>17 DEF RemoteForwards
<1>18. CASE UNCHANGED vars
  BY <1>18 DEF vars
<1> HIDE DEF Keeps
<1> QED
  BY <1>1, <1>2, <1>3, <1>4, <1>5, <1>6, <1>7, <1>8, <1>9, <1>10,
     <1>11, <1>12, <1>13, <1>14, <1>15, <1>16, <1>17, <1>18
  DEF Next, Thread, Fails, Disposes

\* The two receptions that are not handled swallow one packet each.
LEMMA SwallowsKept ==
  ASSUME TypeOK, OnePlace, SwallowsAnswersOnly, [Next]_vars
  PROVE  SwallowsAnswersOnly'
<1>1. PICK p \in Packet \cup {NoPacket}, q \in Packet \cup {NoPacket} :
        /\ Swallowed \subseteq {p, q}
        /\ thread # "ended" => q = NoPacket
        /\ thread \in {"register", "answer"} => p = NoPacket
  BY DEF SwallowsAnswersOnly
<1>2. NoPacket \notin Swallowed
  BY PacketAssumption DEF TypeOK, Swallowed
<1>3. ASSUME NEW d \in Datagram, TakesAnswer(d)
      PROVE  SwallowsAnswersOnly'
  <2>1. Swallowed = {} /\ thread' = "loop"
    BY <1>1, <1>2, <1>3 DEF TakesAnswer
  <2>2. Swallowed' \subseteq {Contents(d)}
    BY <2>1, <1>3 DEF TakesAnswer, Swallowed, remote, Contents, TypeOK
  <2>3. Contents(d) \in Packet \cup {NoPacket}
    BY DEF Contents
  <2> QED BY <2>1, <2>2, <2>3 DEF SwallowsAnswersOnly
<1>4. ASSUME NEW d \in Datagram, TakesLast(d)
      PROVE  SwallowsAnswersOnly'
  <2>1. Swallowed \subseteq {p} /\ thread' = "ended"
    BY <1>1, <1>2, <1>4 DEF TakesLast
  <2>2. Swallowed' \subseteq {p, Contents(d)}
    BY <2>1, <1>4 DEF TakesLast, Swallowed, remote, Contents, TypeOK
  <2>3. Contents(d) \in Packet \cup {NoPacket}
    BY DEF Contents
  <2> QED BY <2>1, <2>2, <2>3 DEF SwallowsAnswersOnly
<1>5. CASE ~ \E d \in Datagram : TakesAnswer(d) \/ TakesLast(d)
  <2>1. Keeps
    BY <1>5, OthersSwallowNothing
  <2> QED BY <1>1, <2>1 DEF Keeps, SwallowsAnswersOnly
<1> QED BY <1>3, <1>4, <1>5

\* The thread has an answer, or a packet, only when REGISTER has arrived.
LEMMA RegistrationKept ==
  ASSUME TypeOK, Registration, [Next]_vars
  PROVE  Registration'
<1> USE PacketAssumption DEF TypeOK, Registration, port, network, remote, Contents, Datagram, Command
<1>1. CASE Registers
  BY <1>1 DEF Registers
<1>2. CASE Loops
  BY <1>2 DEF Loops
<1>3. CASE Handles
  BY <1>3 DEF Handles
<1>4. CASE Unregisters
  BY <1>4 DEF Unregisters
<1>5. CASE TimesOut
  BY <1>5 DEF TimesOut
<1>6. CASE GivesUpLast
  BY <1>6 DEF GivesUpLast
<1>7. CASE RegisterFails
  BY <1>7 DEF RegisterFails
<1>8. CASE ReceiveFails
  BY <1>8 DEF ReceiveFails
<1>9. CASE UnregisterFails
  BY <1>9 DEF UnregisterFails
<1>10. ASSUME NEW d \in Datagram, TakesAnswer(d) PROVE Registration'
  BY <1>10 DEF TakesAnswer
<1>11. ASSUME NEW d \in Datagram, Receives(d) PROVE Registration'
  BY <1>11 DEF Receives
<1>12. ASSUME NEW d \in Datagram, TakesLast(d) PROVE Registration'
  BY <1>12 DEF TakesLast
<1>13. ASSUME NEW d \in Disposer, Dispose(d) PROVE Registration'
  BY <1>13 DEF Dispose
<1>14. ASSUME NEW d \in Disposer, DisposeStops(d) PROVE Registration'
  BY <1>14 DEF DisposeStops
<1>15. ASSUME NEW d \in Disposer, DisposeJoined(d) PROVE Registration'
  BY <1>15 DEF DisposeJoined
<1>16. ASSUME NEW d \in Disposer, DisposeCloses(d) PROVE Registration'
  BY <1>16 DEF DisposeCloses
<1>17. ASSUME NEW d \in Datagram, Lose(d) PROVE Registration'
  BY <1>17 DEF Lose
<1>18. ASSUME NEW c \in Command, RemoteAnswers(c) PROVE Registration'
  BY <1>18 DEF RemoteAnswers
<1>19. ASSUME NEW p \in Packet, RemoteForwards(p) PROVE Registration'
  BY <1>19 DEF RemoteForwards
<1>20. CASE UNCHANGED vars
  BY <1>20 DEF vars
<1> QED
  BY <1>1, <1>2, <1>3, <1>4, <1>5, <1>6, <1>7, <1>8, <1>9, <1>10, <1>11, <1>12,
     <1>13, <1>14, <1>15, <1>16, <1>17, <1>18, <1>19, <1>20
  DEF Next, Thread, Fails, Disposes

LEMMA NextInv == IInv /\ [Next]_vars => IInv'
<1> SUFFICES ASSUME IInv, [Next]_vars PROVE IInv'
  OBVIOUS
<1>1. TypeOK' /\ (OnePlace /\ Buffered)'
  BY TypesKept, PlacesKept DEF IInv
<1>2. (Repeated /\ NoPacketTwice)'
  BY RepetitionIsLast DEF IInv
<1>3. SwallowsAnswersOnly' /\ Registration'
  BY SwallowsKept, RegistrationKept DEF IInv
<1> QED BY <1>1, <1>2, <1>3 DEF IInv

-----------------------------------------------------------------------------
\* The invariant holds in every state (Gn6Port.run, dispose).
THEOREM PortInvariant == Spec => []IInv
<1> QED BY InitInv, NextInv, PTL DEF Spec

\* Every variable has its type, and the thread unregisters only when it was told to end
\* (Gn6Port.run).
THEOREM PortTypes == Spec => []TypeOK
<1>1. IInv => TypeOK BY DEF IInv
<1> QED BY <1>1, PortInvariant, PTL

\* No packet is delivered twice, but the last one when a reception fails (Gn6Port.run).
THEOREM NothingTwice == Spec => []NoPacketTwice
<1>1. IInv => NoPacketTwice BY DEF IInv
<1> QED BY <1>1, PortInvariant, PTL

\* Two packets at most are taken for answers and lost to the test (Gn6Port.run).
THEOREM TwoSwallowed == Spec => []SwallowsAnswersOnly
<1>1. IInv => SwallowsAnswersOnly BY DEF IInv
<1> QED BY <1>1, PortInvariant, PTL

\* The registration at the remote adapter does not outlive the thread unless a command was
\* lost or could not be sent (Gn6Port.run).
THEOREM RegistrationEnds == Spec => []RemoteForgets
<1>1. IInv => RemoteForgets BY DEF IInv, Registration, RemoteForgets
<1> QED BY <1>1, PortInvariant, PTL
=============================================================================
