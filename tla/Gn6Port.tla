------------------------------ MODULE Gn6Port -------------------------------
(***************************************************************************)
(* The port for IPv6 over GeoNetworking (ports/Gn6Port).  It stands for a   *)
(* remote adapter: its thread registers there by UDP, receives packets for  *)
(* the test and unregisters when the port is disposed of.                   *)
(*                                                                         *)
(* UDP loses and reorders datagrams; it does not duplicate them here.  The  *)
(* remote adapter is not in the repository: it answers both commands and    *)
(* forwards packets while the port is registered.                           *)
(***************************************************************************)
EXTENDS Naturals, Sequences, SequencesExt

CONSTANTS Packet,    \* packets the remote adapter forwards, each one once
          NoPacket   \* a buffer without a packet

Command == {"register", "unregister"}   \* and their answers
Disposer == {"unmap", "reset"}

ASSUME PacketAssumption == Packet \cap Command = {} /\ NoPacket \notin Packet \cup Command

VARIABLES
  running,    \* Gn6Port.running
  thread,     \* what the reception thread is doing
  buf,        \* the packet in its buffer
  dPc,        \* what each disposing thread is doing
  toRemote,   \* commands on their way
  toPort,     \* answers and packets on their way
  lost,       \* datagrams that were lost
  client,     \* whether the remote adapter knows the port
  forwarded,  \* packets it has forwarded
  delivered,  \* packets given to the test
  failed      \* calls of the socket that ended with an exception

port == <<running, thread, buf, dPc>>
network == <<toRemote, toPort, lost>>
remote == <<client, forwarded>>
vars == <<port, network, remote, delivered, failed>>

\* The constructor has made the socket and started the thread.
Init ==
  /\ running = TRUE /\ thread = "register" /\ buf = NoPacket
  /\ dPc = [d \in Disposer |-> "idle"]
  /\ toRemote = {} /\ toPort = {} /\ lost = {}
  /\ client = FALSE /\ forwarded = {}
  /\ delivered = <<>> /\ failed = {}

-----------------------------------------------------------------------------
(* The reception thread.                                                    *)

\* The first byte of an answer is not RPL_PACKET.
Contents(d) == IF d \in Packet THEN d ELSE NoPacket

\* Mutated: the thread does not wait for the answer.
RegistersOnly ==
  /\ thread = "register"
  /\ toRemote' = toRemote \cup {"register"}
  /\ thread' = "loop"
  /\ UNCHANGED <<running, buf, dPc, toPort, lost, remote, delivered, failed>>

Registers ==
  /\ thread = "register"
  /\ toRemote' = toRemote \cup {"register"}
  /\ thread' = "answer"
  /\ UNCHANGED <<running, buf, dPc, toPort, lost, remote, delivered, failed>>

\* Whatever arrives first is taken for the answer.  This wait has no timeout.
TakesAnswer(d) ==
  /\ thread = "answer" /\ d \in toPort
  /\ toPort' = toPort \ {d}
  /\ buf' = Contents(d)
  /\ thread' = "loop"
  /\ UNCHANGED <<running, dPc, toRemote, lost, remote, delivered, failed>>

\* The exception is printed, and the thread goes on as if it was registered.
RegisterFails ==
  /\ thread \in {"register", "answer"}
  /\ failed' = failed \cup {"register"}
  /\ thread' = "loop"
  /\ UNCHANGED <<running, buf, dPc, network, remote, delivered>>

\* Mutated: the loop ends with the first packet.
LoopsOnce ==
  /\ thread = "loop"
  /\ thread' = IF running /\ delivered = <<>> THEN "receive" ELSE "unregister"
  /\ UNCHANGED <<running, buf, dPc, network, remote, delivered, failed>>

\* while(running)
Loops ==
  /\ thread = "loop"
  /\ thread' = IF running THEN "receive" ELSE "unregister"
  /\ UNCHANGED <<running, buf, dPc, network, remote, delivered, failed>>

\* Mutated: a packet that comes with the disposal is dropped.
ReceivesIfRunning(d) ==
  /\ thread = "receive" /\ d \in toPort
  /\ toPort' = toPort \ {d}
  /\ buf' = Contents(d)
  /\ thread' = IF running THEN "handle" ELSE "loop"
  /\ UNCHANGED <<running, dPc, toRemote, lost, remote, delivered, failed>>

Receives(d) ==
  /\ thread = "receive" /\ d \in toPort
  /\ toPort' = toPort \ {d}
  /\ buf' = Contents(d)
  /\ thread' = "handle"
  /\ UNCHANGED <<running, dPc, toRemote, lost, remote, delivered, failed>>

\* Mutated: no timeout was set on the socket.
NoTimeoutSet == thread = "receive" /\ UNCHANGED vars

\* Mutated: a timeout is handled like a packet.
TimeoutGoesOn ==
  /\ thread = "receive"
  /\ thread' = "handle"
  /\ UNCHANGED <<running, buf, dPc, network, remote, delivered, failed>>

\* SocketTimeoutException: continue
TimesOut ==
  /\ thread = "receive"
  /\ thread' = "loop"
  /\ UNCHANGED <<running, buf, dPc, network, remote, delivered, failed>>

\* IOException: the thread will end, but first handles what is in its buffer.
ReceiveFails ==
  /\ thread = "receive"
  /\ running' = FALSE
  /\ failed' = failed \cup {"receive"}
  /\ thread' = "handle"
  /\ UNCHANGED <<buf, dPc, network, remote, delivered>>

\* A packet is given to the test, anything else is ignored.
Handles ==
  /\ thread = "handle"
  /\ delivered' = IF buf \in Packet THEN Append(delivered, buf) ELSE delivered
  /\ thread' = "loop"
  /\ UNCHANGED <<running, buf, dPc, network, remote, failed>>

Unregisters ==
  /\ thread = "unregister"
  /\ toRemote' = toRemote \cup {"unregister"}
  /\ thread' = "last"
  /\ UNCHANGED <<running, buf, dPc, toPort, lost, remote, delivered, failed>>

UnregisterFails ==
  /\ thread = "unregister"
  /\ failed' = failed \cup {"unregister"}
  /\ thread' = "ended"
  /\ UNCHANGED <<running, buf, dPc, network, remote, delivered>>

\* The thread ends with the answer, or any other datagram.
TakesLast(d) ==
  /\ thread = "last" /\ d \in toPort
  /\ toPort' = toPort \ {d}
  /\ buf' = Contents(d)
  /\ thread' = "ended"
  /\ UNCHANGED <<running, dPc, toRemote, lost, remote, delivered, failed>>

\* ... or without an answer: the timeout is an IOException too.
GivesUpLast ==
  /\ thread = "last"
  /\ thread' = "ended"
  /\ UNCHANGED <<running, buf, dPc, network, remote, delivered, failed>>

-----------------------------------------------------------------------------
(* dispose, called by an unmap request and by a reset of the adapter.       *)

Dispose(d) ==
  /\ dPc[d] = "idle"
  /\ dPc' = [dPc EXCEPT ![d] = IF running THEN "stop" ELSE "close"]
  /\ UNCHANGED <<running, thread, buf, network, remote, delivered, failed>>

DisposeStops(d) ==
  /\ dPc[d] = "stop"
  /\ running' = FALSE
  /\ dPc' = [dPc EXCEPT ![d] = "join"]
  /\ UNCHANGED <<thread, buf, network, remote, delivered, failed>>

DisposeJoined(d) ==
  /\ dPc[d] = "join" /\ thread = "ended"
  /\ dPc' = [dPc EXCEPT ![d] = "close"]
  /\ UNCHANGED <<running, thread, buf, network, remote, delivered, failed>>

\* super.dispose()
DisposeCloses(d) ==
  /\ dPc[d] = "close"
  /\ dPc' = [dPc EXCEPT ![d] = "done"]
  /\ UNCHANGED <<running, thread, buf, network, remote, delivered, failed>>

-----------------------------------------------------------------------------
(* The network and the remote adapter.                                      *)

Lose(d) ==
  /\ d \in toRemote \cup toPort
  /\ toRemote' = toRemote \ {d} /\ toPort' = toPort \ {d}
  /\ lost' = lost \cup {d}
  /\ UNCHANGED <<port, remote, delivered, failed>>

RemoteAnswers(c) ==
  /\ c \in toRemote
  /\ toRemote' = toRemote \ {c} /\ toPort' = toPort \cup {c}
  /\ client' = (c = "register")
  /\ UNCHANGED <<port, lost, forwarded, delivered, failed>>

RemoteForwards(p) ==
  /\ client /\ p \notin forwarded
  /\ forwarded' = forwarded \cup {p}
  /\ toPort' = toPort \cup {p}
  /\ UNCHANGED <<port, toRemote, lost, client, delivered, failed>>

-----------------------------------------------------------------------------
Datagram == Packet \cup Command

Thread ==
  \/ Registers \/ Loops \/ Handles \/ Unregisters
  \/ \E d \in Datagram : TakesAnswer(d) \/ Receives(d) \/ TakesLast(d)
  \/ TimesOut \/ GivesUpLast

Fails == RegisterFails \/ ReceiveFails \/ UnregisterFails

Disposes(d) == DisposeStops(d) \/ DisposeJoined(d) \/ DisposeCloses(d)

Next ==
  \/ Thread \/ Fails
  \/ \E d \in Disposer : Dispose(d) \/ Disposes(d)
  \/ \E d \in Datagram : Lose(d)
  \/ \E c \in Command : RemoteAnswers(c)
  \/ \E p \in Packet : RemoteForwards(p)

Spec == Init /\ [][Next]_vars

\* Threads are scheduled and their timeouts expire, and the remote adapter answers what
\* reaches it.  Datagrams may be lost, and nobody has to dispose of the port.
FairSpec ==
  /\ Spec
  /\ WF_vars(Thread)
  /\ \A d \in Disposer : WF_vars(Disposes(d))
  /\ \A c \in Command : WF_vars(RemoteAnswers(c))

-----------------------------------------------------------------------------
(* Properties.                                                              *)

\* Every variable has its type, and the thread unregisters only when it was told to end.
TypeOK ==
  /\ running \in BOOLEAN /\ client \in BOOLEAN
  /\ failed \subseteq Command \cup {"receive"}
  /\ thread \in {"register", "answer", "loop", "receive", "handle",
                 "unregister", "last", "ended"}
  /\ thread \in {"unregister", "last", "ended"} => ~running
  /\ buf \in Packet \cup {NoPacket}
  /\ dPc \in [Disposer -> {"idle", "stop", "join", "close", "done"}]
  /\ toRemote \subseteq Command
  /\ toPort \subseteq Datagram /\ lost \subseteq Datagram
  /\ forwarded \subseteq Packet /\ delivered \in Seq(forwarded)

\* The test gets no packet twice, although one buffer serves all receptions and keeps the
\* last packet over a timeout: except that a reception that fails repeats the last one
\* (Gn6Port.run).
NoPacketTwice ==
  \A i, j \in DOMAIN delivered :
    i < j /\ delivered[i] = delivered[j]
      => "receive" \in failed /\ j = i + 1 /\ j = Len(delivered)

\* Forwarded packets that arrived and that the test does not get.
Swallowed ==
  forwarded \ (toPort \cup lost \cup ToSet(delivered)
               \cup (IF thread = "handle" THEN {buf} ELSE {}))

\* A packet that arrives is delivered, also one that comes with the disposal, unless it
\* is taken for the answer to REGISTER or for the answer to UNREGISTER: never more than
\* these two, whatever is lost, late or fails (Gn6Port.run).
SwallowsAnswersOnly ==
  \E p, q \in Packet \cup {NoPacket} :
    /\ Swallowed \subseteq {p, q}
    /\ thread # "ended" => q = NoPacket
    /\ thread \in {"register", "answer"} => p = NoPacket

\* When the thread has ended, the remote adapter no longer knows the port, or is about to
\* forget it, unless the command was lost: a REGISTER cannot come after the UNREGISTER
\* although datagrams may overtake each other, as the thread waits in between.
RemoteForgets ==
  thread = "ended" /\ client
  => "unregister" \in toRemote \cup lost \/ failed \cap Command # {}

\* A disposal comes to an end when packets, answers or UNREGISTER are lost, and whatever
\* the other disposing thread does: only the wait for the first answer may last for ever.
DisposeEnds ==
  \A d \in Disposer :
    dPc[d] = "join" ~> \/ dPc[d] = "done"
                       \/ thread = "answer" /\ "register" \in lost
=============================================================================
