--------------------------- MODULE MC_SchemeFaults ---------------------------
(* SchemeFaults with the constants of MC_SchemeIPC.                          *)
EXTENDS SchemeFaults

CONSTANTS c1, c2

MCClients == {c1, c2}

MCReplyWords == {1, -5}

ClientSymmetry == Permutations(MCClients)

=============================================================================
