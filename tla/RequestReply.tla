---------------------------- MODULE RequestReply ----------------------------
(***************************************************************************)
(* What the connection of a Titan port promises to the port and to the      *)
(* adapter: requests are made one at a time, each is handled once, and the  *)
(* port goes on only after its request was handled.  TriAdapter relies on   *)
(* it (MayRequest); TriConnection implements it.                            *)
(***************************************************************************)
EXTENDS Naturals

VARIABLES
  asked,     \* number of requests made
  handled,   \* number of them the handler has carried out
  answered,  \* number of them whose call returned
  failed     \* the component ended with an error

callVars == <<asked, handled, answered, failed>>

CallInit == asked = 0 /\ handled = 0 /\ answered = 0 /\ failed = FALSE

Ask ==
  /\ ~failed /\ asked = answered
  /\ asked' = asked + 1
  /\ UNCHANGED <<handled, answered, failed>>

Handle ==
  /\ handled < asked
  /\ handled' = handled + 1
  /\ UNCHANGED <<asked, answered, failed>>

Answer ==
  /\ ~failed /\ answered < handled
  /\ answered' = answered + 1
  /\ UNCHANGED <<asked, handled, failed>>

Fail ==
  /\ failed' = TRUE
  /\ UNCHANGED <<asked, handled, answered>>

CallNext == Ask \/ Handle \/ Answer \/ Fail

CallSpec == CallInit /\ [][CallNext]_callVars
=============================================================================
