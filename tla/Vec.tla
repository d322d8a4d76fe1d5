--------------------------------- MODULE Vec ---------------------------------
(***************************************************************************)
(* common::vec::Vec<T> of src/kernel/common/vec.rs: a heap block `data`   *)
(* reallocated to exactly `length` elements on every change, and the      *)
(* element-moving loops of insert, remove and push_all.                    *)
(*                                                                         *)
(* The block is a function from its slot numbers 0 .. n-1 to what the     *)
(* slots hold; memory::realloc keeps the common prefix and leaves new      *)
(* slots uninitialised (Garbage).  A ptr::write outside the block is       *)
(* undefined behaviour (it lands in whatever the heap holds next); the     *)
(* model does not change the block and records it in `overrun`.           *)
(***************************************************************************)
EXTENDS Integers, Sequences

CONSTANTS
    Values,     \* element values
    Garbage,    \* the content of an uninitialised slot
    MaxLen,     \* bound on the length of the vector
    WordBits    \* width of usize in the index arithmetic of sub

ASSUME /\ Garbage \notin Values
       /\ MaxLen \in Nat
       /\ WordBits \in Nat \ {0}

VARIABLES
    data,       \* Vec.data: the allocated block
    length,     \* Vec.length
    overrun     \* a write went past the end of the block (ghost)

vars == <<data, length, overrun>>

Block(n)   == 0 .. (n - 1)
Words      == 0 .. (2^WordBits - 1)
Slices     == UNION {[1 .. k -> Values] : k \in 0 .. MaxLen}

(* memory::realloc(data, n * size_of::<T>()).                              *)
Realloc(d, n) == [k \in Block(n) |-> IF k \in DOMAIN d THEN d[k] ELSE Garbage]

(* The vector as the sequence it stands for.                               *)
AsSeq == [k \in 1 .. length |-> data[k - 1]]

(* Vec::get: the element in slot i, or None (the empty sequence) when    *)
(* i >= length.                                                            *)
Get(d, n, i) == IF i >= n THEN << >> ELSE << d[i] >>

(* VecIterator::next and OwnedVecIterator::next, called until None: each  *)
(* call yields get(offset) and moves offset on by one.                     *)
RECURSIVE IterFrom(_, _, _)
IterFrom(d, n, offset) ==
    IF Get(d, n, offset) = << >> THEN << >>
    ELSE Get(d, n, offset) \o IterFrom(d, n, offset + 1)

(* Vec::iter and Vec::into_iter: an iterator from offset 0.               *)
Iter(d, n) == IterFrom(d, n, 0)

-----------------------------------------------------------------------------
(* The loop of insert: for j from length-1 down to i+1, slot j := slot j-1. *)
RECURSIVE ShiftUp(_, _, _)
ShiftUp(d, j, i) ==
    IF j > i THEN ShiftUp([d EXCEPT ![j] = d[j - 1]], j - 1, i) ELSE d

(* Mutant of ShiftDown: the loop of remove stops one slot early.           *)
RECURSIVE ShiftDownShort(_, _, _)
ShiftDownShort(d, j, n) ==
    IF j < n - 1 THEN ShiftDownShort([d EXCEPT ![j] = d[j + 1]], j + 1, n) ELSE d

(* The loop of remove: for j from i up to length-1, slot j := slot j+1.    *)
RECURSIVE ShiftDown(_, _, _)
ShiftDown(d, j, n) ==
    IF j < n THEN ShiftDown([d EXCEPT ![j] = d[j + 1]], j + 1, n) ELSE d

-----------------------------------------------------------------------------
(* Vec::new, Vec::from_slice and Vec::from_raw_buf: an empty vector with a *)
(* null block, or a copy of a slice in a block of exactly its length.     *)
Init ==
    /\ \E s \in Slices : data = [k \in Block(Len(s)) |-> s[k + 1]] /\ length = Len(s)
    /\ overrun = FALSE

(* Vec::set: writes slot i whenever i <= length.                           *)
Set(i, v) ==
    /\ i <= length
    /\ data' = IF i \in DOMAIN data THEN [data EXCEPT ![i] = v] ELSE data
    /\ overrun' = (overrun \/ i \notin DOMAIN data)
    /\ UNCHANGED length

(* Vec::insert: grow by one, move the tail up, write slot i.               *)
Insert(i, v) ==
    /\ i <= length
    /\ length < MaxLen
    /\ length' = length + 1
    /\ data' = [ShiftUp(Realloc(data, length + 1), length, i) EXCEPT ![i] = v]
    /\ UNCHANGED overrun

(* Vec::remove: take slot i, move the tail down, shrink by one.            *)
Remove(i) ==
    /\ i < length
    /\ length' = length - 1
    /\ data' = Realloc(ShiftDown(data, i, length - 1), length - 1)
    /\ UNCHANGED overrun

(* Mutant of Push: the new element is written one slot past the last.     *)
PushPastEnd(v) ==
    /\ length < MaxLen
    /\ length' = length + 1
    /\ data' = [Realloc(data, length + 1) EXCEPT ![length + 1] = v]
    /\ UNCHANGED overrun

(* Vec::push: grow by one and write the last slot.                         *)
Push(v) ==
    /\ length < MaxLen
    /\ length' = length + 1
    /\ data' = [Realloc(data, length + 1) EXCEPT ![length] = v]
    /\ UNCHANGED overrun

(* Mutant of Pop: the length > 0 test is missing.                         *)
PopUnguarded ==
    /\ length' = length - 1
    /\ data' = Realloc(data, length - 1)
    /\ UNCHANGED overrun

(* Vec::pop: shrink by one; the last element is read out first.            *)
Pop ==
    /\ length > 0
    /\ length' = length - 1
    /\ data' = Realloc(data, length - 1)
    /\ UNCHANGED overrun

(* Vec::push_all (and so clone, which is push_all onto Vec::new): grow by *)
(* the other vector's length, then write what vec.iter() yields into the  *)
(* slots from the old length on; a write past the new block is recorded.  *)
PushAll(t) ==
    LET n   == length + Len(t)
        src == Iter([k \in Block(Len(t)) |-> t[k + 1]], Len(t))
        d   == Realloc(data, n)
    IN  /\ n <= MaxLen
        /\ length' = n
        /\ data' = [k \in DOMAIN d |-> IF k < length THEN d[k] ELSE src[k - length + 1]]
        /\ overrun' = (overrun \/ length + Len(src) > n)

(* Drop for Vec: read out every element, free the block, null data.        *)
Drop ==
    /\ data' = << >>
    /\ length' = 0
    /\ UNCHANGED overrun

Next ==
    \/ \E i \in 0 .. MaxLen, v \in Values : Set(i, v) \/ Insert(i, v)
    \/ \E i \in 0 .. MaxLen : Remove(i)
    \/ \E v \in Values : Push(v)
    \/ Pop
    \/ \E t \in Slices : PushAll(t)
    \/ Drop

Spec == Init /\ [][Next]_vars

-----------------------------------------------------------------------------
(* The index arithmetic of Vec::sub in usize: the clamped start i, the   *)
(* clamped end j and the length j - i of the result.                       *)
SubBounds(start, count) ==
    LET i  == IF start > length THEN length ELSE start
        j0 == (i + count) % 2^WordBits
        j  == IF j0 > length THEN length ELSE j0
    IN  [i |-> i, j |-> j, n |-> (j - i) % 2^WordBits]

(* Mutant of Sub: slot k of the source is copied to slot k, not k - i.     *)
SubMisplaced(start, count) ==
    LET b == SubBounds(start, count) IN
    [x \in Block(b.n) |-> IF b.i <= x /\ x < b.j THEN data[x] ELSE Garbage]

(* Vec::sub: a new block of n slots; `for k in i..j` copies slot k to slot *)
(* k - i, and slots it does not reach stay uninitialised.                  *)
Sub(start, count) ==
    LET b == SubBounds(start, count) IN
    [x \in Block(b.n) |-> IF b.i + x < b.j THEN data[b.i + x] ELSE Garbage]

-----------------------------------------------------------------------------
TypeOK ==
    /\ length \in 0 .. MaxLen
    /\ \E n \in 0 .. MaxLen : data \in [Block(n) -> Values \cup {Garbage}]
    /\ overrun \in BOOLEAN

(* The block always has exactly `length` slots and each of them holds an   *)
(* element: every realloc is followed by the writes that fill the new      *)
(* slots (push, insert, push_all), and every shrink comes after the moves  *)
(* that save the elements it cuts off (remove, pop).                       *)
BlockHoldsElements ==
    /\ DOMAIN data = Block(length)
    /\ \A k \in Block(length) : data[k] \in Values

(* Vec implements VecSeq: every operation changes the sequence of its      *)
(* first `length` slots the way the positional operation it is named for   *)
(* changes a sequence.                                                     *)
Abstract == INSTANCE VecSeq WITH seq <- AsSeq
RefinesSeq == Abstract!Spec

(* Vec::sub returns the elements start .. start+count-1 clipped to the     *)
(* vector, whenever start + count does not overflow usize.                 *)
SubMatchesSubSeq ==
    \A start, count \in Words :
      start + count < 2^WordBits =>
        LET from == IF start > length THEN length ELSE start
            to   == IF start + count > length THEN length ELSE start + count
        IN  Sub(start, count) = [x \in Block(to - from) |-> data[from + x]]

(* Design spec 9: set(i, value) with i = length writes one past the end   *)
(* of the block; an implementation should reject i >= length.              *)
NoWritePastEnd == ~overrun

(* Vec::sub never returns more elements than the vector holds ("extract a *)
(* subvector"), whatever count is.                                         *)
SubWithinLength == \A start, count \in Words : DOMAIN Sub(start, count) \subseteq Block(length)

=============================================================================
