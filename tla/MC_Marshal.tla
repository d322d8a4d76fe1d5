------------------------------ MODULE MC_Marshal ------------------------------
(* Marshal with two client contexts, 4-byte pages, two-page client        *)
(* address spaces and three frames.                                        *)
EXTENDS Marshal, TLC

CONSTANTS c1, c2

MCClients == {c1, c2}

MCFileOps == {"READ"}
MCVfsOps  == {"OPEN"}
MCLens    == 1 .. 3

(* Buffer lengths with the empty buffer.                                   *)
MCZeroLens == 0 .. 2

(* Every page table of a client: each page unmapped or on any frame.      *)
AnyLayouts == [0 .. (Pages - 1) -> (0 .. (NFrames - 1)) \cup {NoFrame}]

(* Page tables whose mapped neighbouring pages sit on neighbouring frames, *)
(* as for a buffer inside one physically contiguous allocation.           *)
ContiguousLayouts ==
    {l \in AnyLayouts :
        \A k \in 1 .. (Pages - 1) :
            l[k - 1] # NoFrame /\ l[k] # NoFrame => l[k] = l[k - 1] + 1}

ClientSymmetry == Permutations(MCClients)
=============================================================================
