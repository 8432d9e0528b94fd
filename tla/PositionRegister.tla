-------------------------- MODULE PositionRegister --------------------------
(***************************************************************************)
(* What the adapter promises of position vectors (IManagementTA,            *)
(* IManagementLayers): one register per neighbour that goes forward in the   *)
(* time of the station, and questions answered with what is in the register  *)
(* at some moment between the question and the answer, or denied when it     *)
(* holds nothing at such a moment.                                          *)
(* The clock of a station restarts every Wrap ms: nothing is promised from   *)
(* one turn of the clock to the next.                                       *)
(***************************************************************************)
EXTENDS Naturals

CONSTANTS Client, Neighbour, Time, NoEntry, Wrap

VARIABLES register,   \* the vector known of each neighbour
          question    \* the question of each client, and its answer

vars == <<register, question>>

Idle == [state |-> "idle"]
Asked(n) == [state |-> "asked", of |-> n]
Answered(n, s) == [state |-> "answered", of |-> n, at |-> s]
Denied(n) == [state |-> "denied", of |-> n]

Init ==
  /\ register = [n \in Neighbour |-> NoEntry]
  /\ question = [c \in Client |-> Idle]

\* Nothing older replaces what is known, within one turn of the clock.
Learn(n, s) ==
  /\ \/ register[n] = NoEntry
     \/ register[n] < s
     \/ register[n] \div Wrap # s \div Wrap
  /\ register' = [register EXCEPT ![n] = s]
  /\ UNCHANGED question

Becomes(c, q) == question' = [question EXCEPT ![c] = q] /\ UNCHANGED register

Ask(c, n) == question[c] = Idle /\ Becomes(c, Asked(n))

Answer(c, n) ==
  /\ question[c] = Asked(n)
  /\ register[n] # NoEntry
  /\ Becomes(c, Answered(n, register[n]))

\* Only what is not known is denied.
Deny(c, n) ==
  /\ question[c] = Asked(n)
  /\ register[n] = NoEntry
  /\ Becomes(c, Denied(n))

\* The client has its answer, or does not wait any more.
Finish(c) == question[c] # Idle /\ Becomes(c, Idle)

\* Every step changes the register or a question.
Next ==
  \/ register' # register /\ \E n \in Neighbour, s \in Time : Learn(n, s)
  \/ \E c \in Client :
       /\ question'[c] # question[c]
       /\ Finish(c) \/ \E n \in Neighbour : Ask(c, n) \/ Answer(c, n) \/ Deny(c, n)

Spec == Init /\ [][Next]_vars
=============================================================================
