----------------------------- MODULE MC_Registry -----------------------------
(* Registry with three SchemeInner allocations, two names and two          *)
(* contexts.                                                                *)
EXTENDS Registry, TLC

CONSTANTS s1, s2, s3, x1, x2

MCInstances == {s1, s2, s3}
MCContexts  == {x1, x2}
MCNames     == {"file", "pipe"}

Symmetry == Permutations(MCInstances) \cup Permutations(MCContexts)
=============================================================================
