---------------------------- MODULE SyncBarrier ----------------------------
(***************************************************************************)
(* What the synchronisation of a test case promises, with no message, timer *)
(* or server in sight: clients go through N sync points one after the       *)
(* other, a point is opened only when every client has reached it, and once *)
(* the test case is aborted no further point is ever opened.                *)
(*                                                                         *)
(* The promise has a hole, as the code does: a disturbance (a message on a  *)
(* port of the server that is not its syncPort) may open the next point     *)
(* although clients are missing.  There are at most MaxBreach of them.      *)
(***************************************************************************)
EXTENDS Naturals

CONSTANTS Client, N, MaxBreach

VARIABLES
  arrived,   \* the points each client has reached
  left,      \* the points each client went through
  opened,    \* the points that are open
  aborted,   \* no more point will be opened
  breach     \* disturbances so far

barrierVars == <<arrived, left, opened, aborted, breach>>

BarrierInit ==
  /\ arrived = [c \in Client |-> 0] /\ left = [c \in Client |-> 0]
  /\ opened = 0 /\ aborted = FALSE /\ breach = 0

Arrive(c) ==
  /\ left[c] = arrived[c] /\ arrived[c] < N
  /\ arrived' = [arrived EXCEPT ![c] = @ + 1]
  /\ UNCHANGED <<left, opened, aborted, breach>>

Open ==
  /\ ~aborted
  /\ \A c \in Client : arrived[c] > opened
  /\ opened' = opened + 1
  /\ UNCHANGED <<arrived, left, aborted, breach>>

Leave(c) ==
  /\ left[c] < arrived[c] /\ arrived[c] <= opened
  /\ left' = [left EXCEPT ![c] = arrived[c]]
  /\ UNCHANGED <<arrived, opened, aborted, breach>>

Abort ==
  /\ ~aborted
  /\ aborted' = TRUE
  /\ UNCHANGED <<arrived, left, opened, breach>>

Breach ==
  /\ ~aborted /\ breach < MaxBreach
  /\ breach' = breach + 1
  /\ \/ opened' = opened + 1 /\ UNCHANGED aborted
     \/ aborted' = TRUE /\ UNCHANGED opened
  /\ UNCHANGED <<arrived, left>>

BarrierNext ==
  \/ \E c \in Client : Arrive(c) \/ Leave(c)
  \/ Open \/ Abort \/ Breach

BarrierSpec == BarrierInit /\ [][BarrierNext]_barrierVars
=============================================================================
