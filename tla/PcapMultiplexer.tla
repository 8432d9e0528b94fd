--------------------------- MODULE PcapMultiplexer ---------------------------
(***************************************************************************)
(* The sharing of the network interface (adapter/PcapMultiplexer.java): one *)
(* capture thread hands every captured frame to the Ethernet layers of the  *)
(* ports that are registered.  register and unregister are synchronized;    *)
(* the dispatch of a frame is not.  The BPF filter and the frame types are  *)
(* abstracted to the set of clients a frame is meant for.                   *)
(***************************************************************************)
EXTENDS Naturals, FiniteSets

CONSTANTS Port,       \* port objects; a port stands for the Ethernet layer below it
          Capture,    \* the capture thread
          NoThread

VARIABLES
  clients,    \* keys of clientsToMacs
  monitor,    \* the thread that waits in unregister, holding the object's monitor
  capture,    \* what the capture thread is doing
  pending,    \* clients the frame being dispatched still has to be given to
  modified,   \* clientsToMacs was changed since the dispatch began
  breakReq,   \* breakloop was called
  open        \* the pcap handle is open

muxVars == <<clients, monitor, capture, pending, modified, breakReq, open>>

CaptureState == {"none", "loop", "dispatch", "callback", "ended", "died"}

\* The capture thread is running, and may use the pcap handle.
Capturing == capture \in {"loop", "dispatch", "callback"}

MuxInit ==
  /\ clients = {} /\ monitor = NoThread /\ capture = "none"
  /\ pending = {} /\ modified = FALSE /\ breakReq = FALSE /\ open = FALSE

-----------------------------------------------------------------------------
\* The first client opens the interface and starts the capture thread; if the
\* interface cannot be opened it is not registered.
Register(i) ==
  /\ monitor = NoThread
  /\ \/ /\ clients = {}
        /\ clients' = {i}
        /\ capture' = "loop" /\ open' = TRUE
        /\ pending' = {} /\ modified' = FALSE /\ breakReq' = FALSE
        /\ UNCHANGED monitor
     \/ /\ clients = {}
        /\ UNCHANGED muxVars
     \/ /\ clients # {}
        /\ clients' = clients \cup {i}
        /\ modified' = TRUE
        /\ UNCHANGED <<monitor, capture, pending, breakReq, open>>

\* Mutated: the capture thread is not told to leave its loop.
UnregisterNoBreak(t, i) ==
  /\ monitor = NoThread
  /\ clients' = clients \ {i}
  /\ modified' = (modified \/ i \in clients)
  /\ monitor' = IF clients = {i} THEN t ELSE NoThread
  /\ UNCHANGED <<capture, pending, open, breakReq>>

\* Thread t removes the client; with the last one it keeps the monitor until the
\* capture thread, which is told to leave its loop, has ended.
Unregister(t, i) ==
  /\ monitor = NoThread
  /\ clients' = clients \ {i}
  /\ modified' = (modified \/ i \in clients)
  /\ monitor' = IF clients = {i} THEN t ELSE NoThread
  /\ breakReq' = (breakReq \/ clients = {i})
  /\ UNCHANGED <<capture, pending, open>>

\* Mutated: the handle is closed without waiting for the capture thread.
CaptureJoinedEarly(t) ==
  /\ monitor = t
  /\ open' = FALSE
  /\ monitor' = NoThread
  /\ UNCHANGED <<clients, capture, pending, modified, breakReq>>

\* The end of the join and of unregister.
CaptureJoined(t) ==
  /\ monitor = t
  /\ ~Capturing
  /\ open' = FALSE
  /\ monitor' = NoThread
  /\ UNCHANGED <<clients, capture, pending, modified, breakReq>>

-----------------------------------------------------------------------------
(* The capture thread.                                                     *)

Dispatch ==
  /\ capture = "loop" /\ ~breakReq
  /\ \E s \in SUBSET clients :
       /\ s # {}
       /\ pending' = s
  /\ capture' = "dispatch"
  /\ modified' = FALSE
  /\ UNCHANGED <<clients, monitor, breakReq, open>>

\* The layers above client i are called with the frame.
Deliver(i) ==
  /\ capture = "dispatch" /\ ~modified
  /\ i \in pending
  /\ pending' = pending \ {i}
  /\ capture' = "callback"
  /\ UNCHANGED <<clients, monitor, modified, breakReq, open>>

CallbackReturns ==
  /\ capture = "callback"
  /\ capture' = "dispatch"
  /\ UNCHANGED <<clients, monitor, pending, modified, breakReq, open>>

\* A callback throws, and nothing catches it.
CallbackThrows ==
  /\ capture = "callback"
  /\ capture' = "died"
  /\ UNCHANGED <<clients, monitor, pending, modified, breakReq, open>>

DispatchEnds ==
  /\ capture = "dispatch" /\ pending = {}
  /\ capture' = "loop"
  /\ UNCHANGED <<clients, monitor, pending, modified, breakReq, open>>

\* The iteration over the keys fails because the map was changed under it
\* (ConcurrentModificationException, or a null frame type or layer).
DispatchFails ==
  /\ capture = "dispatch" /\ modified
  /\ capture' = "died"
  /\ UNCHANGED <<clients, monitor, pending, modified, breakReq, open>>

LoopEnds ==
  /\ capture = "loop" /\ breakReq
  /\ capture' = "ended"
  /\ UNCHANGED <<clients, monitor, pending, modified, breakReq, open>>

-----------------------------------------------------------------------------
(* Properties.                                                             *)

MuxTypeOK ==
  /\ clients \subseteq Port /\ pending \subseteq Port
  /\ capture \in CaptureState
  /\ modified \in BOOLEAN /\ breakReq \in BOOLEAN /\ open \in BOOLEAN

\* The native pcap handle is never used after it was closed, and there is never a
\* second capture thread: while the capture thread runs the handle is open, and
\* the interface is only opened again when no capture thread is left.
HandleIsSafe ==
  /\ Capturing => open
  /\ (clients = {} /\ monitor = NoThread) => ~Capturing
=============================================================================
