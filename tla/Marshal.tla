------------------------------- MODULE Marshal -------------------------------
(***************************************************************************)
(* The buffer marshaling of src/kernel/fs/scheme.rs: how a client call    *)
(* shows its buffer to the provider by pushing a ContextMemory view into  *)
(* the provider's context, and which physical bytes the provider then     *)
(* reaches through the pointer it is given.                                *)
(*                                                                         *)
(* read, write and path (ClientHandle) translate the first byte of the    *)
(* caller's buffer, map the page-aligned window that covers it and pass   *)
(* V + offset.  open, mkdir and unlink (Scheme) map the kernel copy of    *)
(* the url at its own address with size c_str.len() and pass V.           *)
(*                                                                         *)
(* The page size is a constant (4096 in the code); the model uses a small *)
(* one so that offsets, page crossings and rounding all occur.  The       *)
(* request/reply exchange and the provider's lifetime are SchemeIPC's;    *)
(* here the provider is alive and every call is eventually answered.      *)
(***************************************************************************)
EXTENDS Integers, Sequences, FiniteSets, FiniteSetsExt, Functions

CONSTANTS
    Clients,    \* client contexts
    PageSize,   \* 4096 in the code
    Pages,      \* pages of a client's address space
    NFrames,    \* physical frames
    VirtPages,  \* bound on the provider's address space, in pages
    Layouts,    \* page tables a client context may have
    Lens,       \* buffer and url lengths
    FileOps,    \* SYS_READ, SYS_WRITE, SYS_FPATH
    VfsOps,     \* SYS_OPEN, SYS_MKDIR, SYS_UNLINK
    MappedSlices \* TRUE: a buffer is mapped memory of the caller, or its
                 \* first byte already fails to translate

NoFrame == -1
EFAULT  == 14

ASSUME /\ PageSize \in Nat \ {0}
       /\ Layouts \subseteq [0 .. (Pages - 1) -> (0 .. (NFrames - 1)) \cup {NoFrame}]
       /\ Lens \subseteq Nat
       /\ FileOps \cap VfsOps = {}
       /\ MappedSlices \in BOOLEAN

VARIABLES
    pt,     \* each client's page table (fixed for the run)
    mem,    \* the provider context's memory map: the views pushed into it,
            \* in push order
    pc,     \* "idle" or "call" (blocked in SchemeInner::call)
    call,   \* the op, buffer address, length, view address and pointer
    ret     \* the last error a client got without calling (EFAULT)

vars == <<pt, mem, pc, call, ret>>

VirtAddrs == 0 .. (Pages * PageSize - 1)
PhysAddrs == 0 .. (NFrames * PageSize - 1)
NoCall    == [op |-> "none", buf |-> 0, len |-> 0, virt |-> 0, ptr |-> 0]

(* Context::translate of the client (design spec 7): the frame of the     *)
(* page holding a, plus a's offset in the page; NoFrame if unmapped.      *)
Translate(c, a) ==
    IF pt[c][a \div PageSize] = NoFrame THEN NoFrame
    ELSE pt[c][a \div PageSize] * PageSize + (a % PageSize)

(* A view of size s is mapped as ceil(s / page) whole pages.               *)
PagesOf(s) == (s + PageSize - 1) \div PageSize

InView(v, a) == v.virt <= a /\ a < v.virt + PagesOf(v.size) * PageSize

(* The provider's page table for a view: page k of the view maps the     *)
(* frame holding v.phys plus k; the offset in the page is the address's.  *)
ViewPhys(v, a) ==
    (v.phys \div PageSize + (a - v.virt) \div PageSize) * PageSize
        + ((a - v.virt) % PageSize)

(* Context::next_mem: the first page-aligned address past every view.     *)
(* A record of size 0 occupies no page.                                    *)
NextMem == Max({PageSize} \cup {v.virt + PagesOf(v.size) * PageSize : v \in Range(mem)})

(* A view fits below the bound on the provider's address space.          *)
Fits(size) == NextMem + PagesOf(size) * PageSize <= VirtPages * PageSize

(* Context::get_mem_mut(a): the first record, in push order, whose        *)
(* virtual address is a; an empty set if there is none.                   *)
GetMemMut(m, a) ==
    {k \in DOMAIN m : m[k].virt = a /\ \A j \in 1 .. (k - 1) : m[j].virt # a}

(* Context::clean_mem: every record of size 0 is removed.                  *)
CleanMem(m) == SelectSeq(m, LAMBDA v : v.size # 0)

(* Mutant of Retire: the record found is not set to size 0.                *)
RetireCleanOnly(m, a) == CleanMem(m)

(* The teardown after call: get_mem_mut(virtual_address) gets size 0,     *)
(* then clean_mem.                                                         *)
Retire(m, a) ==
    CleanMem([k \in DOMAIN m |->
                IF k \in GetMemMut(m, a) THEN [m[k] EXCEPT !.size = 0] ELSE m[k]])

(* Mutant of Span: the page offset is left out of the rounding.           *)
SpanNoOffset(len, off) == ((len + PageSize - 1) \div PageSize) * PageSize

(* (buf.len() + offset + 4095)/4096 * 4096                                  *)
Span(len, off) == ((len + off + PageSize - 1) \div PageSize) * PageSize

(* The buffers a client can pass: with MappedSlices, a slice whose every  *)
(* byte is mapped or whose first byte is not (a bad pointer).             *)
Slice(c, b, l) ==
    /\ b + l <= Pages * PageSize
    /\ MappedSlices =>
          \/ Translate(c, b) = NoFrame
          \/ \A x \in 0 .. (l - 1) : Translate(c, b + x) # NoFrame

-----------------------------------------------------------------------------
(* SchemeResource::read, write and path up to the call: translate the     *)
(* buffer's first byte (EFAULT if unmapped), push the view of the window  *)
(* that covers the buffer, and block in call with pointer V + offset.     *)
FileCall(c, op, b, l) ==
    /\ pc[c] = "idle"
    /\ Slice(c, b, l)
    /\ LET phys == Translate(c, b)
           off  == phys % PageSize
           V    == NextMem
       IN  \/ /\ phys = NoFrame
              /\ ret' = [ret EXCEPT ![c] = EFAULT]
              /\ UNCHANGED <<mem, pc, call>>
           \/ /\ phys # NoFrame
              /\ Fits(Span(l, off))
              /\ mem' = Append(mem, [owner |-> c, phys |-> phys - off,
                                     virt |-> V, size |-> Span(l, off)])
              /\ call' = [call EXCEPT ![c] = [op |-> op, buf |-> b, len |-> l,
                                               virt |-> V, ptr |-> V + off]]
              /\ pc' = [pc EXCEPT ![c] = "call"]
              /\ UNCHANGED ret
    /\ UNCHANGED pt

(* Scheme::open, mkdir and unlink up to the call: the url plus NUL is a   *)
(* kernel string at address s (never empty, for the NUL); its view has    *)
(* phys s and size len, and the provider is passed V.                     *)
VfsCall(c, op, s, l) ==
    /\ pc[c] = "idle"
    /\ l > 0
    /\ s + l <= NFrames * PageSize
    /\ Fits(l)
    /\ mem' = Append(mem, [owner |-> c, phys |-> s, virt |-> NextMem, size |-> l])
    /\ call' = [call EXCEPT ![c] = [op |-> op, buf |-> s, len |-> l,
                                     virt |-> NextMem, ptr |-> NextMem]]
    /\ pc' = [pc EXCEPT ![c] = "call"]
    /\ UNCHANGED <<pt, ret>>

(* After call returns: the teardown of the view at this call's            *)
(* virtual_address.                                                        *)
Finish(c) ==
    /\ pc[c] = "call"
    /\ mem' = Retire(mem, call[c].virt)
    /\ pc' = [pc EXCEPT ![c] = "idle"]
    /\ call' = [call EXCEPT ![c] = NoCall]
    /\ UNCHANGED <<pt, ret>>

Init ==
    /\ pt \in [Clients -> Layouts]
    /\ mem = << >>
    /\ pc = [c \in Clients |-> "idle"]
    /\ call = [c \in Clients |-> NoCall]
    /\ ret = [c \in Clients |-> 0]

Next ==
    \E c \in Clients :
        \/ \E op \in FileOps, b \in VirtAddrs, l \in Lens : FileCall(c, op, b, l)
        \/ \E op \in VfsOps, s \in PhysAddrs, l \in Lens : VfsCall(c, op, s, l)
        \/ Finish(c)

Spec == Init /\ [][Next]_vars

-----------------------------------------------------------------------------
(* What the provider reaches at byte x of the call's buffer, and what the *)
(* caller meant by it: the client's own byte (file ops, through its page  *)
(* table) or the kernel string's byte (vfs ops, identity mapped).         *)
Source(c, x) ==
    IF call[c].op \in FileOps THEN Translate(c, call[c].buf + x)
    ELSE call[c].buf + x

Sees(c, x) ==
    LET a == call[c].ptr + x IN
    \E v \in Range(mem) : /\ {w \in Range(mem) : InView(w, a)} = {v}
                          /\ v.owner = c
                          /\ ViewPhys(v, a) = Source(c, x)

(* While read, write or path is blocked in call, every byte the provider *)
(* addresses through V + offset lies in that call's view and in no other, *)
(* and is the caller's own byte at the same position of its buffer.       *)
ProviderSeesCallerBytes ==
    \A c \in Clients :
        pc[c] = "call" /\ call[c].op \in FileOps =>
            \A x \in 0 .. (call[c].len - 1) : Sees(c, x)

(* Design spec 4.2 applies the same marshaling to the url of open, mkdir *)
(* and unlink: the provider must read the url's bytes through the pointer *)
(* it is given.                                                            *)
ProviderSeesPathString ==
    \A c \in Clients :
        pc[c] = "call" /\ call[c].op \in VfsOps =>
            \A x \in 0 .. (call[c].len - 1) : Sees(c, x)

(* Design spec 8.3 and 4.2 step 6: once a call has returned, the         *)
(* provider's memory map holds no view of its buffer; every record of     *)
(* nonzero size was pushed by a call still blocked.                        *)
ViewsRetired ==
    \A k \in DOMAIN mem : mem[k].size > 0 => pc[mem[k].owner] = "call"

=============================================================================
