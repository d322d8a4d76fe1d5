------------------------------- MODULE MC_Vec -------------------------------
(* Vec<T> instantiated for TLC with three element values, a garbage value    *)
(* for uninitialised slots and a 3-bit usize for the arithmetic of sub.    *)
EXTENDS Vec

CONSTANTS v1, v2, v3, garbage

MCValues == {v1, v2, v3}

=============================================================================
