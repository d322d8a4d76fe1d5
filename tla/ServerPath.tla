----------------------------- MODULE ServerPath -----------------------------
(***************************************************************************)
(* SchemeServerResource::path of src/kernel/fs/scheme.rs: the two loops   *)
(* that write ":" and then the scheme name into the caller's buffer,       *)
(* stopping when the buffer is full.  One step per loop iteration.         *)
(***************************************************************************)
EXTENDS Integers, Sequences, FiniteSets, FiniteSetsExt

CONSTANTS
    Chars,      \* bytes a scheme name may hold
    MaxName,    \* bound on the length of the name
    MaxBuf,     \* bound on buf.len()
    Blank       \* a byte of buf the loops have not written

ASSUME Blank \notin Chars \cup {":"}

VARIABLES
    name,       \* self.inner.name.as_bytes()
    buf,        \* the caller's buffer: index -> byte
    i,          \* the loop counter
    pc          \* "colon", "name" (which loop runs) or "done"

vars == <<name, buf, i, pc>>

PathA == << ":" >>

BufLen == Cardinality(DOMAIN buf)   \* buf.len()

Names == UNION {[1 .. n -> Chars] : n \in 0 .. MaxName}

(* Mutant of NameLeft: the length of path_a is not subtracted.            *)
NameLeftUnshifted(k) == k < Len(name)

(* i - path_a.len() < path_b.len()                                          *)
NameLeft(k) == k - Len(PathA) < Len(name)

Init ==
    /\ name \in Names
    /\ buf \in {[k \in 0 .. (n - 1) |-> Blank] : n \in 0 .. MaxBuf}
    /\ i = 0
    /\ pc = "colon"

(* while i < buf.len() && i < path_a.len() { buf[i] = path_a[i]; i += 1 } *)
ColonStep ==
    /\ pc = "colon"
    /\ i < BufLen
    /\ i < Len(PathA)
    /\ buf' = [buf EXCEPT ![i] = PathA[i + 1]]
    /\ i' = i + 1
    /\ UNCHANGED <<name, pc>>

ColonExit ==
    /\ pc = "colon"
    /\ ~(i < BufLen /\ i < Len(PathA))
    /\ pc' = "name"
    /\ UNCHANGED <<name, buf, i>>

(* while i < buf.len() && i - path_a.len() < path_b.len()                  *)
(*     { buf[i] = path_b[i - path_a.len()]; i += 1 }                        *)
NameStep ==
    /\ pc = "name"
    /\ i < BufLen
    /\ NameLeft(i)
    /\ buf' = [buf EXCEPT ![i] = name[i - Len(PathA) + 1]]
    /\ i' = i + 1
    /\ UNCHANGED <<name, pc>>

(* The second loop ends; path returns Ok(i).                               *)
NameExit ==
    /\ pc = "name"
    /\ ~(i < BufLen /\ NameLeft(i))
    /\ pc' = "done"
    /\ UNCHANGED <<name, buf, i>>

Next == ColonStep \/ ColonExit \/ NameStep \/ NameExit

Spec == Init /\ [][Next]_vars

-----------------------------------------------------------------------------
(* When path returns Ok(i), i is the length of ":" + name cut to the      *)
(* buffer, the first i bytes of buf are that prefix and the rest of buf   *)
(* is untouched.                                                           *)
PathWritten ==
    pc = "done" =>
        LET full == PathA \o name
            n    == Min({BufLen, Len(full)})
        IN  /\ i = n
            /\ \A k \in DOMAIN buf : buf[k] = IF k < n THEN full[k + 1] ELSE Blank

=============================================================================
