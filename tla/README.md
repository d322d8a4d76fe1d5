# TLA+ models of the scheme IPC core and `Vec`

These are TLA+ models of `src/kernel/fs/scheme.rs`, which lets a user-space process serve a URL scheme, and of `src/kernel/common/vec.rs`, the kernel's `Vec<T>`. TLC checks them. The natural-language design is `spec.md`.

## 1. Inventory

### Components

| Component | Code | State it keeps | Operations that change state |
|---|---|---|---|
| `SchemeInner` (spec: SharedState) | scheme.rs 21-75 | `name`, `context` (raw pointer to the provider context), `next_id`, `todo` (pending id → 4 words), `done` (answered id → 4 words) | `call` (allocate id, insert in `todo`, poll `done` with `context_switch` between polls); `Drop` (removes every registry entry with its name) |
| `SchemeResource` (spec: ClientHandle) | scheme.rs 77-254 | `inner: Weak`, `file_id` | `read`, `write`, `path` (map the caller's buffer into the provider, call, retire the view); `seek`, `sync`, `truncate` (plain call); `dup` (always EBADF); `Drop` (SYS_CLOSE, result ignored) |
| `SchemeServerResource` (spec: ProviderHandle) | scheme.rs 256-343 | `inner: Arc` | `read` = recv (remove the smallest pending id), `write` = reply (insert into `done`), `dup` (clone the Arc), drop (Arc release); `path`, `seek`, `sync`, `truncate` change nothing |
| `Scheme` (spec: SchemeRegistration) | scheme.rs 345-498 | `name`, `inner: Weak` | `new` (build both halves), `open`, `mkdir`, `unlink` (map the URL string, call) |
| `Vec<T>` | vec.rs | `data` (heap block), `length` | `new`/`from_slice`/`from_raw_buf`, `set`, `insert`, `remove`, `push`, `pop`, `push_all`/`clone` (through `iter`, `get`, `VecIterator::next`), `sub`, `Drop` |
| Collaborators (not in `src/`) | — | context memory map, scheduler, VFS registry, `Packet` | `next_mem`, `get_mem_mut`/`clean_mem`, `context_switch`, `translate` |

### How the components interact

- A client context calls the VFS.
- The VFS finds the `Scheme` in `env().schemes` by name and calls its `open`, `mkdir` or `unlink`.
- Later, the client calls the methods of the `SchemeResource` that `open` returned.
- Every such method ends in `SchemeInner::call`. `call` upgrades the `Weak`, takes an id, inserts the request into `todo`, then loops: remove the id from `done`, or yield with `context_switch`.
- The provider context reads `Packet`s from its `SchemeServerResource`. A read takes the smallest id out of `todo`. The provider writes the answer packet back, which inserts it into `done`.
- A buffer passed to a call is shown to the provider by pushing a `ContextMemory` record into the provider's context. The record is an alias of the caller's physical pages. It is retired after the call returns, but only if `upgrade` still succeeds.
- The `Arc` is held only by provider handles. When the last provider handle is dropped, `SchemeInner::drop` removes the registry entry, and every later `upgrade` fails with EBADF.

### What is hard

Scheduling is cooperative. The only suspension point is the `context_switch` in `call`'s poll loop, so each code segment between two yields is atomic. Even so, the following are hard:

- **Interleavings.** Many clients may be blocked on one scheme. The provider can take their requests and answer them in any order, or die between any two steps.
- **Provider death mid-call.** A client blocked in `call` sees the scheme die and returns EBADF. Its teardown is guarded by a second `upgrade`, so it is skipped.
- **Id reuse.** `next_id` wraps around, and nothing checks whether the new id is still in `todo` or `done` (TODO at line 45). The provider can also write any id.
- **No timeout.** A client returns only when its reply arrives or the provider dies.
- **`Vec` boundary arithmetic.** Problems sit at the edges: `set` at `i == length`, `sub` with `i + count` overflowing, and the shifting loops of `insert` and `remove` around `realloc`.

### What makes each component correct

- **`SchemeInner`:**
  - each blocked call's request is in exactly one of `todo`, the provider's hands or `done`, under an id no other waiter shares;
  - a waiter only ever takes its own reply;
  - `recv` hands out requests in submission order;
  - every blocked call eventually returns, given a serving provider.
- **Client ops:** while the scheme lives, the aliased views in the provider are exactly those of blocked calls. Spec 8.3 asks more: no view survives the op's return, even after provider death. Views the provider may write belong only to read and fpath calls.
- **Provider handles and registration:** the registry entry is gone exactly when the last provider handle is; an entry for a live scheme of the same name is not removed; the context a `SchemeInner` points to outlives it. The provider's `path` writes `":" + name`, cut to the buffer.
- **Marshaling:** every byte the provider reaches through the pointer it is given lies in that call's view, and in no other, and is the caller's byte at the same position; once a call returns, no view of it is left in the provider.
- **`Vec`:**
  - the block has exactly `length` initialised slots;
  - each operation is the sequence operation it is named for;
  - no write lands outside the block;
  - `sub` returns a clipped subsequence.

## 2. Modules

| Module | Models | State ↔ code |
|---|---|---|
| `SchemeIPC` | `scheme.rs`: `SchemeInner`, `SchemeResource`, `SchemeServerResource`, `Scheme` for one scheme | `refs` = strong count of the `Arc`; `alive` = `upgrade` succeeds; `registered` = the name is in `env().schemes`; `next_id`, `todo`, `done` are the fields of `SchemeInner`; `memory` = the provider context's aliased `ContextMemory` records (by virtual address); `inbox` = packets the provider has read and not answered (the provider's own state); per client `pc`, `req`, `file_id`, `ret` |
| `MC_SchemeIPC` | TLC instance: clients `c1, c2` as model values, reply words `{1, -5}`, client symmetry | |
| `Vec` | `vec.rs` | `data` = the heap block as a function on slots `0..n-1` (new slots of `realloc` hold `Garbage`); `length`; `overrun` = a `ptr::write` landed outside the block (undefined behaviour, ghost) |
| `VecSeq` | the abstract promise of `Vec`: a sequence with 0-based positional operations (from `SequencesExt`) | `seq` |
| `MC_Vec` | TLC instance: three values, `garbage`, `MaxLen = 4`, 3-bit `usize` | |
| `SchemeCalls` | the abstract promise of a scheme to its clients (spec 4.1, 4.3, 7): per client the op it is blocked in and at most one answer | `alive`, `waiting`, `answer`, `file_id`, `ret` |
| `SchemeFaults` | `SchemeIPC` plus `StrayReply`: the provider's `write` of a packet whose id it did not get from `read` | as `SchemeIPC` |
| `Marshal` | the buffer marshaling of `read`/`write`/`path` (lines 140-182) and of the url in `open`/`mkdir`/`unlink` (383-424) | `pt` = each client's page table; `mem` = the provider's `ContextMemory` records as `[owner, phys, virt, size]`, a sequence in push order (`owner` is a ghost naming the call that pushed it); per client `pc`, `call` (op, buffer address, length, view address, pointer passed), `ret` |
| `Registry` | `Scheme::new` plus the caller's push into `env().schemes`, provider `dup`/drop, `SchemeInner::drop`, over several schemes and contexts | `schemes` = the registry in push order; `handles[i][x]` = provider handles of instance `i` held by context `x` (their sum is the `Arc` count); `name`, `creator` = the fields `name` and `context` of `SchemeInner`; `running` = contexts that have not exited |
| `ServerPath` | `SchemeServerResource::path` (269-285), one step per loop iteration | `name`, `buf`, the counter `i`, and which loop runs |
| `MC_SchemeFaults`, `MC_Marshal`, `MC_Registry`, `MC_ServerPath` | TLC instances with model values and small sets | |

### How code steps become actions (`SchemeIPC`)

`SchemeIPC` implements `SchemeCalls` under this mapping: `waiting[c]` is `req[c].op` while `c` is blocked, and `answer[c]` is the word `done` holds under `req[c].id` while the scheme lives. Ids, `todo`, the provider's inbox and the views have no abstract counterpart, so `Recv`, `DupProvider` and a non-last `DropProvider` are stuttering steps.

- **A client call is two steps.** The submission is one step: translate the buffer, push the view at `next_mem`, take `next_id`, insert into `todo`. `Poll` is the other: either remove the reply from `done`, retire the view and return the decoded word, or find the scheme dead and return EBADF without retiring anything. `call` checks `done` once before its first yield, and `Poll` folds that check in. This only adds interleavings in which the provider runs before that first check.
- **Client actions.** `Read`, `Write` and `Path` are `MappedFileCall` with the op's writeable flag as the code sets it. `Seek`, `Sync` and `Truncate` are `PlainFileCall`. `Close` is `Drop for SchemeResource`. `Open`, `Mkdir` and `Unlink` are `VfsCall`, which is guarded by `registered`: the VFS reaches a `Scheme` only through the registry.
- **Error paths are disjuncts.** `translate` failing gives EFAULT. `upgrade` failing makes `virtual_address` stay 0, giving EBADF. The ENOENT branch of `open`/`mkdir`/`unlink` is unreachable through the registry, because the entry is removed in the same step that kills the scheme.
- **Provider actions.** `Recv` is `read`: it takes `FirstKey` = the smallest key of `todo`. `Reply` is `write`: it inserts with overwrite. `DupProvider` is `dup`. `DropProvider` is the drop of a handle. The last drop runs `SchemeInner::drop`, which clears the maps and unregisters the name.
- **Operations that change no state are not actions.** These are `dup` of a client handle (always EBADF), provider `path`/`seek`/`sync`/`truncate`, `recv` on an empty `todo`, and packet-size errors.
- **The provider is user code.** It is modelled as a loop that answers each request it read exactly once, with any word of `ReplyWords`. `SchemeFaults` adds a provider that writes a reply for any blocked call, whether or not it has read it, or has already answered it.
- **Data is abstracted.** A request keeps its op code plus two ghost fields: the sender (`from`) and the submission order (`seq`). File ids and counts are reply words. Buffer addresses, offsets and sizes are one virtual-address slot per view.

### `Marshal`, `Registry`, `ServerPath`

- **`Marshal`.** `FileCall` is `read`/`write`/`path` up to the call. It translates the first byte (EFAULT if unmapped), computes `offset` and `Span` = `(len + offset + P-1)/P*P`, pushes the view `[phys - offset, next_mem, span]` and passes `V + offset`. `VfsCall` is `open`/`mkdir`/`unlink` up to the call. The url is a kernel string at address `s`, identity mapped. Its view is `[s, next_mem, len]` and it passes `V`. `Finish` is the teardown after the call: `Retire` sets the size of the record `get_mem_mut(virtual_address)` returns to 0, then `clean_mem` drops every record of size 0. The page size is 4 instead of 4096. The provider's page mapping of a view, `translate`, `next_mem`, `get_mem_mut` and `clean_mem` are collaborator code, modelled from the design spec: page `k` of a view maps the frame holding `phys` plus `k`; `next_mem` is the first page past every record, so a record of size 0 takes no page; `get_mem_mut(a)` is the first record in push order whose base address is `a` (spec 6 gives only its signature; the callers here always pass a base address); `clean_mem` removes the records of size 0. `MappedSlices` limits a buffer to mapped memory of the caller, or a pointer whose first byte fails to translate, which is what a slice built from a caller's pointer is. The request/reply exchange and the provider's lifetime are left to `SchemeIPC`.
- **`Registry`.** `New` is `Scheme::new` plus the caller's push of the `Scheme` into the registry. `Dup(i, x, y)` is `dup` by a context `x` holding a handle, with the copy held by `y` (itself, or a child that inherits it). `Drop` closes one handle. `Exit` is a context exit that drops all of its handles. When a step drops the last handle of an instance, `Unregister` applies `SchemeInner::drop`'s `retain` by name.
- **`ServerPath`.** The two `while` loops, one step per iteration, with each loop's exit as its own action.

## 3. Runs

| Run | Cfg | Checks | Result |
|---|---|---|---|
| `ipc_safety` | `SchemeIPC_safety.cfg` | `TypeOK`, `InFlightAccounted`, `ViewsMatchCalls`, `RecvOldestFirst` | pass, about 2M states, 1.5 min |
| `ipc_liveness` | `SchemeIPC_live.cfg` | `CallReturns`, `RefinesCalls` (`SchemeIPC` implements `SchemeCalls`), `PendingDrained`, `RepliesCollected` under `FairSpec` | pass, about 63k states, 45 s |
| `ipc_view_leak` | `SchemeIPC_leak.cfg` | `NoViewAfterReturn` (spec 8.3) | violation |
| `vec_refines_seq` | `Vec.cfg` | `TypeOK`, `BlockHoldsElements`, `SubMatchesSubSeq`, `RefinesSeq` (`Vec` implements `VecSeq` under `seq <- AsSeq`) | pass |
| `ipc_stray_reply` | `SchemeFaults.cfg` | `RequestsHaveCallers` under `FaultySpec` | violation |
| `marshal_windows` | `Marshal.cfg` | `ProviderSeesCallerBytes`, `ViewsRetired` over contiguous page tables, lengths 1 to 3 | pass, about 220k states |
| `marshal_vfs_string` | `Marshal_open.cfg` | `ProviderSeesPathString` | violation |
| `marshal_zero_length` | `Marshal_zero.cfg` | `ViewsRetired` with lengths 0 to 2 | violation |
| `registry_lifetime` | `Registry.cfg` | `RegisteredAreAlive` | pass |
| `registry_same_name` | `Registry_rename.cfg` | `LiveAreRegistered` | violation |
| `registry_context_exit` | `Registry_context.cfg` | `ProviderContextLive` | violation |
| `server_path` | `ServerPath.cfg` | `PathWritten` | pass |

### What the runs show

**Passing runs.** Two clients can open, read, write, seek, sync, truncate, mkdir, unlink and close. The provider reads, answers, duplicates and drops its handles. Under all of that, three things hold: every blocked request is in exactly one place under an id of its own, the provider's aliased views are exactly those of the blocked calls while the scheme lives, and recv is FIFO.

**`ipc_liveness`.** Every blocked call returns. The kernel resumes every blocked context, and the provider is assumed to keep serving. Every id put into `todo` is eventually removed, by `recv` or with the scheme (spec 8.1). Every reply put into `done` is eventually taken out by the poll of the call it answers, or goes with the scheme. So with an honest provider, no answered entry is left for a later call that gets the same id after a wrap. The stray replies of `SchemeFaults` are exactly what would stay, but no run checks `RepliesCollected` under `FaultySpec`.

**Id wrap.** The safety run uses ids that wrap only after the last call, so ids never collide there. With a 2-bit `usize`, `InFlightAccounted` fails: a client that is slow to be resumed still has its id outstanding when that id is handed out again, and the new caller takes, or overwrites, the first caller's reply. This is the collision the TODO at line 45 mentions. On a 64-bit `usize` it needs 2^64 calls, so it has no run of its own.

**`ipc_view_leak`.** Suppose the provider drops its last handle while a client is blocked in `read`. The client returns EBADF, and the view of its buffer stays in the provider's memory map: teardown is skipped because `upgrade` fails. Spec 4.2 and 5 require retirement on every path.

**Stated without a run.** `write()` maps the caller's immutable buffer writeable (`WritableOnlyForFill`, spec 4.2 step 7). `Vec::set(length, v)` writes past the block (`NoWritePastEnd`, spec 9). Each fails in one step, so a model checker adds nothing to reading the line.

**`Vec::sub` overflow, stated without a run.** `SubWithinLength` fails in one step: `Vec::sub(1, usize::MAX)` makes `i + count` wrap, and the result has a wrapped length. `SubMatchesSubSeq` checks the clamps and the copy for every `(start, count)` whose sum does not wrap.

**`ipc_liveness`, refinement.** Seen per client, the id machinery is an atomic RPC: each call returns exactly the answer the provider gave to it, decoded by `Error::demux`, or a local error, or EBADF after death.

**`ipc_stray_reply`.** `write` inserts whatever id the packet carries. Suppose the provider answers a call whose request is still in `todo`. The client returns and retires its view, and `next_mem` will hand that address to the next view. `recv` then still delivers the request. Spec 4.4 treats stray ids as harmless garbage; this case is not garbage. With the honest provider of `SchemeIPC`, `RequestsHaveCallers` holds (checked with the same cfg and `Spec`).

**`marshal_windows`.** At every page offset and length, with two calls' views mapped at once, the window of `read`/`write`/`path` covers the buffer, overlaps no other view, and maps each byte to the caller's own byte. This holds as long as the buffer's pages are on consecutive frames. The teardown by address retires exactly the returning call's view, in whatever order the calls return.

**`marshal_zero_length`.** With an empty buffer the teardown by address goes wrong. A zero-length `read` at a page-aligned address pushes a record of size 0 at `V`. `next_mem` skips it, so the next call (here an `open`) also gets `V`. If the `open` returns first, `get_mem_mut(V)` finds the empty record, `clean_mem` removes that, and the url's view stays in the provider after `open` has returned and freed the string. Had `get_mem_mut` matched by range instead, the other order would break: the empty call's teardown would retire the other call's live view. That reading is not checked, because the model fixes the base-address one.

**Contiguity.** `marshal_windows` assumes contiguous page tables, and that assumption is needed. Only the first byte is translated. With `Layouts <- AnyLayouts`, a buffer whose second page sits on another frame shows the provider the frame after the first one. Spec 4.2 never requires a buffer to be physically contiguous.

**`marshal_vfs_string`.** `open` maps the url at its unaligned address and passes `V` without the offset. The provider reads from the start of the page holding the url. Spec 4.2 requires the same offset arithmetic as for `read`.

**`registry_lifetime`, `registry_same_name`, `registry_context_exit`.** Dropping the last handle, by close or by context exit, never leaves an entry of a dead scheme. But `retain` by name also removes a newer, live scheme registered under the same name. And a provider handle held by another context keeps `SchemeInner` alive after the context its `context` pointer names has exited, so every later call dereferences a freed context.

**`server_path`.** For every name up to 3 bytes and every buffer up to 5 bytes, `path` writes exactly `":" + name` cut to the buffer, returns that length, and leaves the rest of the buffer alone.

**Mutants.** Each property of a passing run is broken by a plausible bug in the code it is about:
- a `next_id` that is never advanced;
- a missing view teardown;
- `recv` taking the last key;
- `Poll` without its dead-scheme branch, which spins forever;
- `recv` reading its entry without removing it from `todo`;
- the poll reading `done` with `get` instead of `remove`;
- `remove`'s loop stopping one slot early;
- `push` writing one slot too far;
- `sub` copying to the wrong slot;
- the wrap reset dropped;
- `pop` without its guard;
- the window span rounded without the offset;
- the teardown that forgets to zero the record it found;
- `retain` replaced by removal of the first entry of the name;
- a unit op's word returned undecoded;
- `path`'s second loop bound without `- path_a.len()`.

### Bounds and why they are enough

- **`SchemeIPC`:** 2 clients, up to 7 calls, up to 2 provider handles, and a 3-bit `usize` in the safety run.
  - Two clients are enough for every two-party interleaving of requests, replies and provider death.
  - Seven calls let each client open, use and close its file while the other does the same.
  - With 7 calls and 3-bit ids, `next_id` wraps back to 1 after the last call. That exercises the wrap branch without a collision.
  - The liveness and refinement run uses 3 calls. Open, use and close, provider death mid-call, and two clients blocked at once all fit in 3 calls.
- **`Marshal`:** 4-byte pages, two-page client address spaces, two frames, lengths 1 to 3 (0 to 2 for `marshal_zero_length`), two clients, and a provider space of 4 pages (`VirtPages`, which caps `next_mem`). Every offset 0..3 occurs. Both a buffer inside a page and one crossing into the next occur. Two views coexist. Rounding matters at every length.
- **`Registry`:** three instances, two names and two contexts, up to 2 handles per context. That is enough for two schemes under one name plus one under another, and for a handle held outside its creator.
- **`ServerPath`:** names up to 3 bytes, buffers up to 5: shorter than, equal to and longer than `":" + name`, including the empty buffer.
- **`Vec`:** length up to 4 and 3 values, so every shift with distinct neighbours is covered. A 3-bit `usize` for `sub`, where all 64 pairs `(start, count)` are checked in every reachable state.

### Fairness

- `WF(Poll(c))`: the kernel's cooperative scheduler gets back to every context that yields in `call`.
- `WF(Recv)` and `WF(Reply)`: the provider is a serving loop. The spec says a provider that never replies blocks its clients forever, so the liveness result is conditional on this assumption.
- Client operations and provider `dup`/drop are not fair: users may never call them.

### Deadlock

The `SchemeIPC`, `Registry` and `ServerPath` cfgs say `CHECK_DEADLOCK FALSE`, and each for a reason:
- A scheme's life really ends: after the last provider handle is dropped and every client has closed, no code of this file can be called on it again. The bound on calls ends the other behaviours.
- In `Registry`, every context may exit, and allocations are bounded.
- `path` returns.

`Marshal` checks for deadlock: a blocked call can always finish.

## 4. Plan

1. **`SchemeIPC`** (done). The request/reply protocol, client ops with views, provider death, with safety, liveness and the view-leak finding.
2. **`Vec` + `VecSeq`** (done). Refinement to sequences, `sub` against `SubSeq`, `push_all` through the iterator.
3. **`SchemeCalls`** (done). The abstract call, with `SchemeIPC` shown to implement it.
4. **`SchemeFaults`** (done, in part). A stray or early reply. Still open: a provider that never answers. Spec 5 accepts that a client then blocks forever. Also open: stray entries in `done` meeting a wrapped id.
5. **`Marshal`** (done). Window arithmetic and contiguity, the url mapping of the vfs ops, the teardown by address and empty buffers.
6. **`Registry`** (done). Name-keyed unregistration and the context pointer.
7. **Liveness of the maps** (done). `PendingDrained` and `RepliesCollected` in `ipc_liveness`.
8. **Not planned.** A liveness property for the registry would say nothing: unregistration runs in the same step as the drop of the last handle (`Release`). Composition: `SchemeIPC` over `Vec`-backed collaborators is not planned, because the context memory is not a `Vec` in `src/`.

## 5. Not modelled

- The `contexts` guard held across the yield in `read`/`write`/`path`. After `context_switch` returns, nothing reads `current` or the context list again; only the guard is dropped. So there is nothing stale to model, and the guard is not listed as a hazard. The raw `context` pointer is covered by `registry_context_exit`.
- A provider that is a client of its own scheme, or two providers calling each other while serving. Each then waits on a reply only it could give. The models keep providers and clients distinct, and `CallReturns` assumes a serving provider.
- Byte contents of buffers and `Packet` layout. These are data.
- `on_irq` and `on_poll` (empty).
- `as_slice` and reads through `get` outside `push_all`. They only read; `AsSeq` stands for them.
- The `Vec::sub` overflow run: the project is held to 12 runs, and this one-step violation gave way to `marshal_zero_length`.
