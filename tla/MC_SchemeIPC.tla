---------------------------- MODULE MC_SchemeIPC ----------------------------
(* SchemeIPC instantiated for TLC: two client contexts given as model     *)
(* values, and a usize wide enough that next_id does not wrap within the  *)
(* bound on calls (as on the 64-bit target).                               *)
EXTENDS SchemeIPC

CONSTANTS c1, c2

MCClients == {c1, c2}

\* A positive word is a file id or a count, -5 is an errno (EIO).
MCReplyWords == {1, -5}

ClientSymmetry == Permutations(MCClients)

=============================================================================
