------------------------------ MODULE Registry ------------------------------
(***************************************************************************)
(* Scheme registration and the lifetime of SchemeInner in                  *)
(* src/kernel/fs/scheme.rs, over several schemes and contexts.             *)
(*                                                                         *)
(* Scheme::new makes a SchemeInner owned by one provider handle            *)
(* (SchemeServerResource) and records the creating context in it; the     *)
(* caller pushes the Scheme into the VFS registry (::env().schemes).      *)
(* Provider handles are duplicated with dup and may be held by other      *)
(* contexts; when the last one is dropped, SchemeInner::drop retains only *)
(* the registry entries whose name differs from its own.                   *)
(***************************************************************************)
EXTENDS Integers, Sequences, FiniteSets, Functions

CONSTANTS
    Instances,  \* SchemeInner allocations
    Names,      \* scheme names
    Contexts,   \* contexts that may hold provider handles
    MaxRefs     \* bound on the provider handles of one context

NoName == "none"
NoCtx  == "none"

VARIABLES
    schemes,    \* ::env().schemes: the registry, in push order
    handles,    \* handles[i][x]: provider handles of SchemeInner i held by x
    name,       \* SchemeInner.name (NoName before Scheme::new)
    creator,    \* SchemeInner.context: the context that called Scheme::new (NoCtx before)
    running     \* contexts that have not exited

vars == <<schemes, handles, name, creator, running>>

(* The strong count of the Arc<SchemeInner>.                               *)
Refs(i) == FoldFunction(+, 0, handles[i])

Alive(i) == Refs(i) > 0

(* Mutant of Unregister: only the first entry with the name is removed.   *)
UnregisterFirst(reg, dying) ==
    IF \E k \in 1 .. Len(reg) : reg[k].name \in {name[i] : i \in dying}
    THEN LET k == CHOOSE k \in 1 .. Len(reg) :
                    /\ reg[k].name \in {name[i] : i \in dying}
                    /\ \A j \in 1 .. (k - 1) : reg[j].name \notin {name[i] : i \in dying}
         IN  SubSeq(reg, 1, k - 1) \o SubSeq(reg, k + 1, Len(reg))
    ELSE reg

(* SchemeInner::drop of every instance in `dying`: each retains the        *)
(* entries whose scheme() differs from its name.                           *)
Unregister(reg, dying) ==
    SelectSeq(reg, LAMBDA e : e.name \notin {name[i] : i \in dying})

(* The live instances that have no handle left in h.                     *)
Dying(h) == {i \in Instances : Alive(i) /\ FoldFunction(+, 0, h[i]) = 0}

(* Handles become h; the instances whose last handle went are dropped.    *)
Release(h) ==
    /\ handles' = h
    /\ schemes' = Unregister(schemes, Dying(h))

-----------------------------------------------------------------------------
(* Scheme::new(name) in running context x, then the caller registers the  *)
(* Scheme: a fresh SchemeInner with one provider handle held by x.        *)
New(i, n, x) ==
    /\ x \in running
    /\ name[i] = NoName
    /\ name' = [name EXCEPT ![i] = n]
    /\ creator' = [creator EXCEPT ![i] = x]
    /\ handles' = [handles EXCEPT ![i][x] = 1]
    /\ schemes' = Append(schemes, [name |-> n, inner |-> i])
    /\ UNCHANGED running

(* SchemeServerResource::dup by a context holding a handle; the copy goes *)
(* to context y (the same context, or a child that inherits it).           *)
Dup(i, x, y) ==
    /\ {x, y} \subseteq running
    /\ handles[i][x] > 0
    /\ handles[i][y] < MaxRefs
    /\ handles' = [handles EXCEPT ![i][y] = @ + 1]
    /\ UNCHANGED <<schemes, name, creator, running>>

(* Drop of one provider handle held by x (the descriptor is closed).       *)
Drop(i, x) ==
    /\ handles[i][x] > 0
    /\ Release([handles EXCEPT ![i][x] = @ - 1])
    /\ UNCHANGED <<name, creator, running>>

(* Context x exits: every provider handle it holds is dropped.             *)
Exit(x) ==
    /\ x \in running
    /\ running' = running \ {x}
    /\ Release([i \in Instances |-> [handles[i] EXCEPT ![x] = 0]])
    /\ UNCHANGED <<name, creator>>

Init ==
    /\ schemes = << >>
    /\ handles = [i \in Instances |-> [x \in Contexts |-> 0]]
    /\ name = [i \in Instances |-> NoName]
    /\ creator = [i \in Instances |-> NoCtx]
    /\ running = Contexts

Next ==
    \/ \E i \in Instances, n \in Names, x \in Contexts : New(i, n, x)
    \/ \E i \in Instances, x, y \in Contexts : Dup(i, x, y)
    \/ \E i \in Instances, x \in Contexts : Drop(i, x)
    \/ \E x \in Contexts : Exit(x)

Spec == Init /\ [][Next]_vars

-----------------------------------------------------------------------------
(* Every registry entry belongs to a live SchemeInner: dropping the last  *)
(* provider handle, by close or by the exit of the holding context,       *)
(* leaves no entry through which the VFS would reach a dead scheme.       *)
RegisteredAreAlive ==
    \A k \in 1 .. Len(schemes) : Alive(schemes[k].inner)

(* Design spec 2: "Dropping the last ProviderHandle removes the            *)
(* registration", one SharedState per registered scheme: a scheme whose   *)
(* provider still holds a handle stays registered.                         *)
LiveAreRegistered ==
    \A i \in Instances :
        Alive(i) => \E k \in 1 .. Len(schemes) : schemes[k].inner = i

(* SchemeInner.context is dereferenced by every client call (next_mem and *)
(* the push of a view): while the scheme is alive, the context that       *)
(* created it has not exited.                                              *)
ProviderContextLive ==
    \A i \in Instances : Alive(i) => creator[i] \in running

=============================================================================
