----------------------------- MODULE MCTestSync -----------------------------
(***************************************************************************)
(* TestSync on small instances, and what the text of LibCommon_Sync.ttcn    *)
(* says of it that the code does not do.                                    *)
(***************************************************************************)
EXTENDS TestSync

\* "leave it to be ok to receive anything else in case that the user has added any
\* non-sync ports" (lines 771-773): a message on such a port does not disturb the
\* synchronisation, so the barrier holds with it as well.
OtherPortsAreIgnored == \A c, d \in Client : passed[c] <= reached[d]
=============================================================================
