-------------------------------- MODULE VecSeq --------------------------------
(***************************************************************************)
(* What common::vec::Vec promises: a finite sequence of elements with the *)
(* usual positional operations.  Positions are 0-based as in the Rust API; *)
(* position i is element i + 1 of the TLA+ sequence.  An operation whose   *)
(* index is out of range leaves the sequence as it is.                     *)
(***************************************************************************)
EXTENDS Naturals, Sequences, SequencesExt

CONSTANTS Values, MaxLen

VARIABLE seq

SeqsUpTo(n) == UNION {[1 .. k -> Values] : k \in 0 .. n}

Init == seq \in SeqsUpTo(MaxLen)

SetAt(i, v)    == i < Len(seq) /\ seq' = ReplaceAt(seq, i + 1, v)
InsertAt0(i, v) == i <= Len(seq) /\ seq' = InsertAt(seq, i + 1, v)
RemoveAt0(i)   == i < Len(seq) /\ seq' = RemoveAt(seq, i + 1)
PushBack(v)    == seq' = Append(seq, v)
PopBack        == seq # << >> /\ seq' = SubSeq(seq, 1, Len(seq) - 1)
AppendAll(t)   == seq' = seq \o t
Clear          == seq' = << >>

Next ==
    \/ \E i \in 0 .. MaxLen, v \in Values : SetAt(i, v) \/ InsertAt0(i, v)
    \/ \E i \in 0 .. MaxLen : RemoveAt0(i)
    \/ \E v \in Values : PushBack(v)
    \/ PopBack
    \/ \E t \in SeqsUpTo(MaxLen) : AppendAll(t)
    \/ Clear

Spec == Init /\ [][Next]_seq

=============================================================================
