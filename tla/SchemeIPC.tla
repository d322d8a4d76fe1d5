------------------------------ MODULE SchemeIPC ------------------------------
(***************************************************************************)
(* The user-space scheme IPC core of src/kernel/fs/scheme.rs.              *)
(*                                                                         *)
(* One scheme: a SchemeInner shared by the provider handles               *)
(* (SchemeServerResource, strong Arc), the VFS registration (Scheme, Weak) *)
(* and the client handles (SchemeResource, Weak).  Clients submit          *)
(* requests into `todo`, the provider takes them with read (recv) and      *)
(* answers them into `done` with write (reply); a client polls `done` for  *)
(* its id, yielding with context_switch in between.                        *)
(*                                                                         *)
(* Scheduling is cooperative: everything a context does between two        *)
(* context_switch calls is one atomic step.  A client call is therefore    *)
(* two steps: the submission (translate, map the buffer into the provider, *)
(* allocate the id, insert into todo) and the poll that finds the reply or *)
(* the dead scheme (remove from done, retire the mapping, return).  The    *)
(* first poll of SchemeInner::call, done before the first yield, is folded  *)
(* into the poll step; this only adds behaviours where the provider runs   *)
(* before that first check, which equal a failed first check and a later  *)
(* successful one.                                                         *)
(*                                                                         *)
(* The provider is user code; it is modelled as a program that takes      *)
(* requests with recv and answers each one it took exactly once, with any  *)
(* word of ReplyWords.                                                     *)
(***************************************************************************)
EXTENDS Integers, FiniteSets, FiniteSetsExt, TLC

CONSTANTS
    Clients,     \* client contexts, each holding at most one SchemeResource
    IdBits,      \* width of usize for next_id (64 on the target)
    MaxCalls,    \* bound on the number of submitted requests
    MaxRefs,     \* bound on the number of provider handles (dup)
    ReplyWords   \* words the provider may put in the first reply register

ASSUME /\ Clients # {}
       /\ IdBits \in Nat \ {0}
       /\ MaxCalls \in Nat
       /\ MaxRefs \in Nat \ {0}
       /\ ReplyWords \subseteq Int

\* Error numbers of system::error (the host ABI values).
EBADF  == 9
EFAULT == 14
ENOENT == 2

\* Syscall codes carried in the first argument word.
Ops == {"OPEN", "CLOSE", "READ", "WRITE", "LSEEK", "FPATH", "FSYNC",
        "FTRUNCATE", "MKDIR", "UNLINK"}

\* Calls whose Rust result is Result<()>: `.and(Ok(()))` discards the word.
UnitOps == {"FSYNC", "FTRUNCATE", "MKDIR", "UNLINK"}

NoFile == -1            \* the client holds no SchemeResource
Ids    == 0 .. (2^IdBits - 1)
Seqs   == 1 .. MaxCalls \* ghost: submission order
VAs    == 0 .. (Cardinality(Clients) * (MaxCalls + 1))

VARIABLES
    refs,        \* strong count of Arc<SchemeInner>: live provider handles
    registered,  \* env().schemes holds a scheme with this name
    next_id,     \* SchemeInner.next_id
    todo,        \* SchemeInner.todo: id -> request (BTreeMap)
    done,        \* SchemeInner.done: id -> reply (BTreeMap)
    memory,      \* the provider context's memory: virtual address -> record
    inbox,       \* packets the provider has read and not yet answered
    pc,          \* client: "idle" or "wait" (blocked in SchemeInner::call)
    req,         \* client: the call in progress
    file_id,     \* client: SchemeResource.file_id, or NoFile
    ret,         \* client: the value the last call returned (ghost)
    calls        \* number of submitted requests (ghost, bounded)

vars == <<refs, registered, next_id, todo, done, memory, inbox,
          pc, req, file_id, ret, calls>>

alive == refs > 0   \* Weak<SchemeInner>::upgrade succeeds

Request == [op : Ops, from : Clients, seq : Seqs]     \* (a,b,c,d); from, seq ghost
Answer  == [word : ReplyWords, for : Clients]         \* (a,..); for ghost
Packet  == [id : Ids, op : Ops, from : Clients, seq : Seqs]
View    == [writeable : BOOLEAN, owner : Clients, op : Ops]  \* ContextMemory, allocated: false

IsMapOf(f, D, R) == DOMAIN f \subseteq D /\ \A x \in DOMAIN f : f[x] \in R

Without(f, x) == [y \in DOMAIN f \ {x} |-> f[y]]

-----------------------------------------------------------------------------
(* Mutant of NextId: the counter is read but never advanced.              *)
NextIdStuck(id) == id

(* Mutant of NextId: the wrapped 0 is not replaced by 1.                  *)
NextIdNoReset(id) == (id + 1) % 2^IdBits

(* The id generator: id + 1 in usize, and 1 in place of a wrapped 0.      *)
NextId(id) ==
    LET n == (id + 1) % 2^IdBits
    IN  IF n <= 0 THEN 1 ELSE n

(* Context::next_mem: the lowest virtual address no record uses.           *)
NextMem == Min({v \in 1 .. (Cardinality(DOMAIN memory) + 1) : v \notin DOMAIN memory})

(* Mutant of TakeReply: done is read with get, the entry is left there.   *)
TakeReplyKept(id) == done

(* done.lock().remove(&id) in the poll loop of call.                       *)
TakeReply(id) == Without(done, id)

(* Mutant of TakeRequest: the entry handed out stays in todo.             *)
TakeRequestKept(id) == todo

(* todo.remove(&packet.id) in recv.                                        *)
TakeRequest(id) == Without(todo, id)

(* Mutant of Returned: the word of a unit op is passed back undecoded.    *)
ReturnedRaw(op, w) == w

(* Error::demux of the first reply word, then `.and(Ok(()))` for unit ops. *)
Returned(op, w) == IF w < 0 \/ op \notin UnitOps THEN w ELSE 0

(* Mutant of RetireView: the teardown after call is left out.             *)
RetireViewKept(va) == memory

(* The retirement of a view: get_mem_mut(va).virtual_size = 0, then       *)
(* clean_mem drops every zero-sized record.  va = 0: no view was made.     *)
RetireView(va) == IF va \in DOMAIN memory THEN Without(memory, va) ELSE memory

-----------------------------------------------------------------------------
(* SchemeInner::call up to its first yield, with the scheme alive: take    *)
(* next_id, advance it, insert the request into todo (overwriting any      *)
(* entry under that id), and block.                                        *)
Call(c, op, va) ==
    /\ calls < MaxCalls
    /\ todo' = (next_id :> [op |-> op, from |-> c, seq |-> calls + 1]) @@ todo
    /\ next_id' = NextId(next_id)
    /\ pc' = [pc EXCEPT ![c] = "wait"]
    /\ req' = [req EXCEPT ![c] = [op |-> op, id |-> next_id, va |-> va]]
    /\ calls' = calls + 1

(* Install the aliased view of a client buffer in the provider context.   *)
PushView(c, op, w, va) ==
    memory' = (va :> [writeable |-> w, owner |-> c, op |-> op]) @@ memory

(* read, write and fpath of SchemeResource: translate the buffer, map it  *)
(* into the provider (only while the scheme is alive), and call.          *)
MappedFileCall(c, op, w) ==
    /\ pc[c] = "idle"
    /\ file_id[c] # NoFile
    /\ \/ /\ ret' = [ret EXCEPT ![c] = -EFAULT]      \* translate() is None
          /\ UNCHANGED <<next_id, todo, memory, pc, req, calls>>
       \/ /\ ~alive                                   \* virtual_address stays 0
          /\ ret' = [ret EXCEPT ![c] = -EBADF]
          /\ UNCHANGED <<next_id, todo, memory, pc, req, calls>>
       \/ /\ alive
          /\ PushView(c, op, w, NextMem)
          /\ Call(c, op, NextMem)
          /\ UNCHANGED ret
    /\ UNCHANGED <<refs, registered, done, inbox, file_id>>

Read(c)  == MappedFileCall(c, "READ", TRUE)
Write(c) == MappedFileCall(c, "WRITE", TRUE)
Path(c)  == MappedFileCall(c, "FPATH", TRUE)

(* seek, sync and truncate: a call with no buffer.                         *)
PlainFileCall(c, op) ==
    /\ pc[c] = "idle"
    /\ file_id[c] # NoFile
    /\ \/ alive /\ Call(c, op, 0) /\ UNCHANGED ret
       \/ ~alive /\ ret' = [ret EXCEPT ![c] = -EBADF]
                 /\ UNCHANGED <<next_id, todo, pc, req, calls>>
    /\ UNCHANGED <<refs, registered, done, memory, inbox, file_id>>

Seek(c)     == PlainFileCall(c, "LSEEK")
Sync(c)     == PlainFileCall(c, "FSYNC")
Truncate(c) == PlainFileCall(c, "FTRUNCATE")

(* Drop of SchemeResource: call SYS_CLOSE and ignore the result.  The     *)
(* handle is gone once the call returns.                                   *)
Close(c) ==
    /\ pc[c] = "idle"
    /\ file_id[c] # NoFile
    /\ \/ alive /\ Call(c, "CLOSE", 0) /\ UNCHANGED file_id
       \/ ~alive /\ file_id' = [file_id EXCEPT ![c] = NoFile]
                 /\ UNCHANGED <<next_id, todo, pc, req, calls>>
    /\ UNCHANGED <<refs, registered, done, memory, inbox, ret>>

(* open, mkdir and unlink of Scheme, reached through the VFS registry.    *)
(* The string is mapped read-only.  The ENOENT branch (upgrade failed) is  *)
(* not reachable from the registry: SchemeInner::drop unregisters the name *)
(* in the step that kills the scheme.                                      *)
VfsCall(c, op) ==
    /\ pc[c] = "idle"
    /\ registered
    /\ PushView(c, op, FALSE, NextMem)
    /\ Call(c, op, NextMem)
    /\ UNCHANGED <<refs, registered, done, inbox, file_id, ret>>

Open(c)   == file_id[c] = NoFile /\ VfsCall(c, "OPEN")
Mkdir(c)  == VfsCall(c, "MKDIR")
Unlink(c) == VfsCall(c, "UNLINK")

(* Mutant of Poll: the failed upgrade is not noticed; the client keeps     *)
(* polling a dead scheme.                                                  *)
PollNoDeadCheck(c) ==
    LET r == req[c] IN
    /\ pc[c] = "wait"
    /\ alive
    /\ r.id \in DOMAIN done
    /\ pc' = [pc EXCEPT ![c] = "idle"]
    /\ LET w == done[r.id].word IN
       /\ done' = TakeReply(r.id)
       /\ memory' = RetireView(r.va)
       /\ ret' = IF r.op = "CLOSE" THEN ret
                 ELSE [ret EXCEPT ![c] = Returned(r.op, w)]
       /\ file_id' = CASE r.op = "OPEN" /\ w >= 0 -> [file_id EXCEPT ![c] = w]
                       [] r.op = "CLOSE"        -> [file_id EXCEPT ![c] = NoFile]
                       [] OTHER                 -> file_id
    /\ UNCHANGED <<refs, registered, next_id, todo, inbox, req, calls>>

(* A blocked client resumes: the scheme is dead (EBADF, and the view is   *)
(* not retired because upgrade fails again), or its id is in done (remove *)
(* it, retire the view, return the decoded word).                          *)
Poll(c) ==
    LET r == req[c] IN
    /\ pc[c] = "wait"
    /\ pc' = [pc EXCEPT ![c] = "idle"]
    /\ \/ /\ ~alive
          /\ ret' = IF r.op = "CLOSE" THEN ret ELSE [ret EXCEPT ![c] = -EBADF]
          /\ file_id' = IF r.op = "CLOSE" THEN [file_id EXCEPT ![c] = NoFile]
                                          ELSE file_id
          /\ UNCHANGED <<done, memory>>
       \/ /\ alive
          /\ r.id \in DOMAIN done
          /\ LET w == done[r.id].word IN
             /\ done' = TakeReply(r.id)
             /\ memory' = RetireView(r.va)
             /\ ret' = IF r.op = "CLOSE" THEN ret
                       ELSE [ret EXCEPT ![c] = Returned(r.op, w)]
             /\ file_id' = CASE r.op = "OPEN" /\ w >= 0 -> [file_id EXCEPT ![c] = w]
                             [] r.op = "CLOSE"        -> [file_id EXCEPT ![c] = NoFile]
                             [] OTHER                 -> file_id
    /\ UNCHANGED <<refs, registered, next_id, todo, inbox, req, calls>>

-----------------------------------------------------------------------------
(* Mutant of FirstKey: the last key of the map instead of the first.      *)
LastKey(keys) == Max(keys)

(* todo.keys().next(): BTreeMap iterates its keys in ascending order.     *)
FirstKey(keys) == Min(keys)

(* SchemeServerResource::read with a Packet-sized buffer: remove the       *)
(* smallest pending id and hand its request to the provider.               *)
Recv ==
    /\ alive
    /\ DOMAIN todo # {}
    /\ LET id == FirstKey(DOMAIN todo) IN
       /\ inbox' = inbox \cup {[id |-> id, op |-> todo[id].op,
                                from |-> todo[id].from, seq |-> todo[id].seq]}
       /\ todo' = TakeRequest(id)
    /\ UNCHANGED <<refs, registered, next_id, done, memory, pc, req, file_id,
                   ret, calls>>

(* SchemeServerResource::write with a Packet-sized buffer: insert the      *)
(* reply under the packet's id, overwriting any entry there.               *)
Reply(p, w) ==
    /\ alive
    /\ p \in inbox
    /\ done' = (p.id :> [word |-> w, for |-> p.from]) @@ done
    /\ inbox' = inbox \ {p}
    /\ UNCHANGED <<refs, registered, next_id, todo, memory, pc, req, file_id,
                   ret, calls>>

(* SchemeServerResource::dup: another strong reference.                    *)
DupProvider ==
    /\ alive
    /\ refs < MaxRefs
    /\ refs' = refs + 1
    /\ UNCHANGED <<registered, next_id, todo, done, memory, inbox, pc, req,
                   file_id, ret, calls>>

(* Drop of a SchemeServerResource.  The last one drops SchemeInner, whose *)
(* Drop removes the name from env().schemes; todo and done go with it.    *)
DropProvider ==
    /\ alive
    /\ refs' = refs - 1
    /\ \/ /\ refs > 1
          /\ UNCHANGED <<registered, todo, done, inbox>>
       \/ /\ refs = 1
          /\ registered' = FALSE
          /\ todo' = << >>
          /\ done' = << >>
          /\ inbox' = {}
    /\ UNCHANGED <<next_id, memory, pc, req, file_id, ret, calls>>

-----------------------------------------------------------------------------
(* Scheme::new: one provider handle, the registration in the registry,    *)
(* next_id = 1, empty maps; the provider context maps nothing of ours.     *)
Init ==
    /\ refs = 1
    /\ registered = TRUE
    /\ next_id = 1
    /\ todo = << >>
    /\ done = << >>
    /\ memory = << >>
    /\ inbox = {}
    /\ pc = [c \in Clients |-> "idle"]
    /\ req = [c \in Clients |-> [op |-> "CLOSE", id |-> 0, va |-> 0]]
    /\ file_id = [c \in Clients |-> NoFile]
    /\ ret = [c \in Clients |-> 0]
    /\ calls = 0

ClientStep(c) ==
    \/ Open(c) \/ Mkdir(c) \/ Unlink(c)
    \/ Read(c) \/ Write(c) \/ Path(c)
    \/ Seek(c) \/ Sync(c) \/ Truncate(c) \/ Close(c)
    \/ Poll(c)

ProviderStep ==
    \/ Recv
    \/ \E p \in inbox, w \in ReplyWords : Reply(p, w)
    \/ DupProvider
    \/ DropProvider

Next == (\E c \in Clients : ClientStep(c)) \/ ProviderStep

(* The kernel resumes every blocked context (WF of Poll); the provider is *)
(* assumed to be a serving loop that keeps reading and answering.          *)
Fairness ==
    /\ \A c \in Clients : WF_vars(Poll(c))
    /\ WF_vars(Recv)
    /\ WF_vars(\E p \in inbox, w \in ReplyWords : Reply(p, w))

Spec     == Init /\ [][Next]_vars
FairSpec == Spec /\ Fairness

-----------------------------------------------------------------------------
TypeOK ==
    /\ refs \in 0 .. MaxRefs
    /\ registered \in BOOLEAN
    /\ next_id \in Ids \ {0}
    /\ IsMapOf(todo, Ids, Request)
    /\ IsMapOf(done, Ids, Answer)
    /\ IsMapOf(memory, VAs, View)
    /\ inbox \subseteq Packet
    /\ pc \in [Clients -> {"idle", "wait"}]
    /\ req \in [Clients -> [op : Ops, id : Ids, va : VAs]]
    /\ file_id \in [Clients -> ReplyWords \cup {NoFile}]
    /\ ret \in [Clients -> ReplyWords \cup {0, -EBADF, -EFAULT}]
    /\ calls \in 0 .. MaxCalls

(* Every blocked call of a live scheme has its request in exactly one     *)
(* place -- pending in todo, taken by the provider, or answered in done -- *)
(* under its own id, and whatever done holds under that id is the answer  *)
(* to it.  This is what SchemeInner::call relies on when it polls done by *)
(* id (the "collisions in todo or done" TODO in call).                     *)
InFlightAccounted ==
    alive =>
      \A c \in Clients : pc[c] = "wait" =>
        LET id      == req[c].id
            inTodo  == id \in DOMAIN todo /\ todo[id].from = c
            inInbox == \E p \in inbox : p.id = id /\ p.from = c
            inDone  == id \in DOMAIN done /\ done[id].for = c
            holders == {"todo", "inbox", "done"}
            holds   == [h \in holders |-> CASE h = "todo"  -> inTodo
                                            [] h = "inbox" -> inInbox
                                            [] OTHER       -> inDone]
        IN  /\ Cardinality({h \in holders : holds[h]}) = 1
            /\ id \in DOMAIN done => done[id].for = c

(* While the scheme lives, the aliased views in the provider context are  *)
(* exactly the buffers of the calls still blocked: each client op retires *)
(* its view when call returns (the teardown after self.call in read,      *)
(* write, path, open, mkdir, unlink).                                      *)
ViewsMatchCalls ==
    alive =>
      /\ \A va \in DOMAIN memory :
           LET o == memory[va].owner IN pc[o] = "wait" /\ req[o].va = va
      /\ \A c \in Clients :
           pc[c] = "wait" /\ req[c].va # 0 => req[c].va \in DOMAIN memory

(* The provider reads requests oldest first: a recv step hands out a      *)
(* request submitted before every request it leaves pending (the smallest *)
(* key of todo, with ids allocated in increasing order).                  *)
RecvOldestFirst ==
    [][\A p \in inbox' \ inbox : \A id \in DOMAIN todo : todo[id].seq >= p.seq]_vars

(* SchemeIPC implements SchemeCalls: seen per client -- the op it is       *)
(* blocked in and the answer done holds under its id -- ids, todo, the    *)
(* provider's inbox and the views disappear, and every step is a submit,  *)
(* a local failure, the answer to one blocked call, a return of exactly    *)
(* that answer decoded, an EBADF return, the provider's death, or a step   *)
(* that changes none of these.                                             *)
Calls == INSTANCE SchemeCalls WITH
    waiting <- [c \in Clients |-> IF pc[c] = "wait" THEN req[c].op ELSE "none"],
    answer  <- [c \in Clients |->
                  IF pc[c] = "wait" /\ alive /\ req[c].id \in DOMAIN done
                  THEN {done[req[c].id].word} ELSE {}]
RefinesCalls == Calls!Spec

(* Every blocked client call returns, with the provider's answer or with  *)
(* EBADF once the provider is gone.                                        *)
CallReturns == \A c \in Clients : pc[c] = "wait" ~> pc[c] = "idle"

(* Design spec 8.1: every id inserted into todo is eventually removed,    *)
(* by the provider's recv or with the scheme when the provider dies.       *)
PendingDrained == \A id \in Ids : id \in DOMAIN todo ~> id \notin DOMAIN todo

(* Every reply the provider writes into done is eventually taken out, by  *)
(* the poll of the call it answers or with the scheme; none stays behind   *)
(* for a later call that is given the same id after next_id wraps.         *)
RepliesCollected == \A id \in Ids : id \in DOMAIN done ~> id \notin DOMAIN done

(* Design spec 8.3: once a client op has returned, successfully or not,   *)
(* the provider context holds no aliased view of its buffer.  Checked     *)
(* against the teardown after self.call, which runs only if the scheme    *)
(* can still be upgraded.                                                  *)
NoViewAfterReturn ==
    \A va \in DOMAIN memory :
      LET o == memory[va].owner IN pc[o] = "wait" /\ req[o].va = va

(* Design spec 4.2 step 7: the provider may write only into the buffers   *)
(* it is asked to fill (read and fpath); the buffer of write() and the    *)
(* path strings of open, mkdir and unlink are mapped read-only.            *)
WritableOnlyForFill ==
    \A va \in DOMAIN memory :
      memory[va].writeable => memory[va].op \in {"READ", "FPATH"}

=============================================================================
