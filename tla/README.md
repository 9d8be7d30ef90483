# TLA+ models of skondapaneni/c-examples

The repository is a set of independent C examples. The largest, and the
one `spec.md` specifies, is the worker-pool job dispatcher in
`src/worker_pool.c`. Three more examples have concurrency or pointer
structure worth checking, and each has its own module:
- the CAS spin lock in `src/lock.c`;
- the double-buffered id cache in `src/get_id.c`;
- the doubly linked list in `src/dlist.c`;
- the buddy allocator in `src/buddy_alloc.c`, whose free lists are
  `dlist.c` lists;
- the bit searches of `src/fls.c` and `align_up` of `src/align_size.c`,
  pure functions checked against reference definitions;
- the IPv4 address trie: `src/patriciaTrieKey.cc`,
  `src/patriciaTrieNode.cc` and the allocator `src/ipv4_addr.cc` on its
  global root;
- the minimal perfect hash builder `src/perfect_hash.c`;
- the Unix-socket server loop `ipc_poll` of `src/ipc.c`, with the clients
  that connect to it.

Only the buddy allocator calls another example. Its model therefore composes
two modules: `BuddyAlloc` takes its free lists from `DList` through a
parameterised `INSTANCE`. The trie's three files are one program:
`ipv4_addr.cc` calls the node operations, which call the key operations;
`Patricia` models all three.

## Inventory

### Worker pool (`src/worker_pool.c`): modelled

**Parts and state**
- *Dispatcher* (`dispatcher_t`). Guarded by `d->lock`, it keeps:
  - `ready_channel_root`: the ready queue, a linked list of the channels of idle workers;
  - `job_root`: the pending queue of jobs;
  - `job_pending_cnt`;
  - `stop`;
  - `dispatcher_thread_waiting`.
  The dispatcher also owns the condition variable `d->cond`.
- *Worker* (`worker_t`): a `stop` flag and one channel (`worker_channel_t`).
  The channel has its own lock and cond and holds one `job` pointer.
- *Dispatcher thread* (`dispatch_thread_start`). It waits on `d->cond`
  until there is both a pending job and a ready channel. Then it runs
  `dispatch_all_pending_jobs`.
- *Callers*. They call `dispatch_job` (submit), `worker_pool_start` and
  `worker_pool_stop`. `main()` is one caller: it submits two jobs, starts the
  pool, submits four more, sleeps and stops.

**How the parts interact.** Everything is shared memory between threads.
- **A worker's loop.** The worker takes its channel lock. Then
  `worker_signal_channel_ready`, under `d->lock`, appends the channel to the
  ready queue and signals `d->cond` if the dispatcher thread is waiting. The
  worker checks its own `stop` flag and waits on its channel cond, which
  releases the channel lock. When it wakes, it reads `channel.job`
  ("got the job"), unlocks, sleeps 5 s and goes round again.
- **`dispatch_job`.** Under `d->lock` it either queues the job, if no channel
  is ready, or pops the head channel. After unlocking it writes
  `channel->job` without any lock, then locks the channel and signals it.
- **`dispatch_all_pending_jobs`.** Under `d->lock` it takes the head job off
  the queue and decrements the counter. It unlocks, then calls
  `dispatch_job`. That call may put the job back at the tail.
- **`worker_pool_stop`.** Under `d->lock` it sets `d->stop` and frees every
  pending job. It then signals and joins each worker in turn, under that
  worker's channel lock.

**What makes it hard**
- Threads interleave between the two kinds of lock.
- Condition-variable signals are lost when nobody waits.
- POSIX allows spurious wakeups.
- A lock is released between checking a condition and acting on it
  (`dispatch_all_pending_jobs` → `dispatch_job`).
- Stop races with submit and with the dispatcher thread.

**Properties that make it correct**
- A worker is given at most one job at a time.
- No job runs twice.
- The ready queue holds only parked workers.
- Stop terminates every worker.
- Without stop, every queued job eventually runs.
- Pending jobs are handed out in FIFO order.
- The dispatcher thread exits on stop.
- A submit after stop never runs.
- Every accepted job is run, or discarded by stop.
- Every step is a step of the job lifecycle the spec describes (`JobPool`).

### CAS spin lock (`src/lock.c`): modelled
`mutex_lock` spins on `__sync_bool_compare_and_swap(&counter, 0, 1)` and then
stores the owner in `owner_ctxt`. `mutex_unlock` checks the owner, clears it,
and spins on the CAS from 1 to 0. Five threads loop lock / sleep / unlock
until SIGINT, and each passes its own `ctxt_p->thread_id` as the owner.
`pthread_create` writes that field through `&ctxt_p[i].thread_id`. Whether
the new thread can read it first depends on the C library:
- glibc stores it before the thread starts;
- POSIX does not require that order.

### Double-buffered id cache (`src/get_id.c`, `-c`): modelled
`_next_id` serves `ids_cur[counter % ID_CACHE_SIZE]`. At every 0 index,
`id_refresh` runs:
- on the first call, `id_init` fills both buffers;
- after that, under the binary semaphore `s2`, it switches `ids_cur` and
  posts `s1`.

The thread `id_loop` waits on `s1`, then refills `ids_double` under `s2`.
That takes 250 × 20 ms. Without `-c`, `main` only calls `get_id`, and the
cache is dead code.

### Doubly linked list (`src/dlist.c`, `src/dlist.h`): modelled
An intrusive list with `head`, `count` and an optional `cmp_fn`:
- **With `cmp_fn`:** `find_insert_hook` and `binary_search` do a binary
  search over the links, using `ROUND2(count)/2` and `get_nth_node`.
- **Without it:** nodes are appended at the tail and looked up linearly.

The API is `dlist_enqueue`, `dlist_dequeue` (checked with `is_member`),
`dlist_dequeue_head`, `dlist_dequeue_node_n`, `dlist_find_and_dequeue` and
`dlist_find_node`. `ROUND2` comes from `common.h`, which is not in the
repository.

### Buddy allocator (`src/buddy_alloc.c`, `src/buddy_alloc.h`): modelled
`freelists_g[i]` is a `dlist_st` of the free blocks of size 2^i. Each free
block's first two words are its `node_st`.
- `buddy_alloc_chunk` mallocs one chunk and files it under the least order
  that holds it.
- `buddy_alloc` takes a block of the order of the real size (at least
  `sizeof(node_st)`, rounded to 8). If that list is empty, it calls itself for
  the next order, then puts the upper half, `BUDDYOF(block, i)`, on list i.
- `buddy_dealloc` looks for the buddy with `is_available`, a linear
  `dlist_find_node`. If found, it removes the buddy and calls itself on
  `coalesce(block, buddy)` one order up. If not, it puts a block on the list
  and returns.

### Bit search and alignment (`src/fls.c`, `src/align_size.c`): modelled
- `BIT_fls` is a binary search for the highest set bit. It runs over the
  masks `binary_mask[]` and the shifts `binary_tree[]`.
- `BIT_ffs` does the same with literal masks for the lowest set bit.
- fls.c's `main` parses an int with `sscanf` and prints both.
- `align_up(ptr, size)` computes `ptr + size - 1`, casts it to
  `unsigned int`, and masks it with `~(size - 1)`. align_size.c's `main`
  aligns the address of a local to 32.

### IPv4 address trie (`src/patriciaTrie*.cc`, `src/ipv4_addr.cc`): partly modelled
- A `patriciaTrieKey` is `key`, `bitLen` and `bitIdxBegin`: the bits
  `bitIdxBegin .. bitIdxBegin + bitLen - 1` of an address, counted from
  the most significant bit and kept in place.
- A node has a key, data (the `address_t`) and two children. The global
  `root` of `ipv4_addr.cc` has no key.
- `insertNode` walks down by the first bit of the remaining key. It splits a
  node at the longest common prefix (`longestPrefixBitLen`, `trimPrefix`).
- `findNode`/`lookup` walk down the same way.
- `deleteNode` unlinks the target, then pulls the parent's remaining child
  up into the parent (`mergeKey`).
- `insertIp`, `findIp` and `deleteIp` call these on 32-bit keys.
  `allocIp` looks up the subnet and then walks `subnet + 1, + 2, ...`
  until `lookup` below the subnet's node finds no address.
- Not modelled: `parseAddress`, `getValue` and `address_to_str`, which are
  text conversion (an address is its value here), and the printing.

### Minimal perfect hash (`src/perfect_hash.c`): modelled
- `create_minimal_perfecthash` places items into buckets by `hash(0, key)`.
  It sorts the buckets, fullest first.
- For each bucket of two or more items it searches for a `d` under which
  `hash(d, key) % size` gives every item a free, distinct slot. `G` of the
  bucket records `d`.
- Buckets of one item take the next free slot, recorded as `-slot-1`.
- `perfect_hash_lookup` reads `G` and then `values`.

### Unix-socket IPC server loop (`src/ipc.c`): partly modelled
- `ipc_poll` polls a table `pfds[10]`. Entry 0 is the listening socket.
  The others are accepted connections.
- A readable listening socket runs `accept_new_conn`. It refuses when
  `nfds >= 10` and otherwise accepts until `accept` fails.
- A connection with `POLLHUP` is closed. `close_sock` shuts it down (it
  never calls `close`) and sets its fd to -1. `readjust_array` then moves
  the fds after it down one place and decrements `nfds`.
- A readable connection is read by `read_msg`, and a read of 0 closes it.
- 100000 idle polls in a row make the loop give up.
- Clients are the other side: `ipc_connect`, `write_msg`, and closing.
- Not modelled: `ipc_select`, a second server loop offered in place of
  `ipc_poll` (nothing in the repository calls either); the setup
  functions; the handler registry; and the message header's contents.

### Not modelled
| component | sources | why |
|---|---|---|
| older buddy allocator | `buddy.c` | does not compile: `ALLOCATED`, `dlist_add` and `freelists` are undefined, and the `void` `buddy_dealloc` returns a value |
| first-fit allocator | `mem_alloc.c` | its first write is out of bounds; see "Not modelled" |
| signal/timer demos | `thread.c`, `timer.c` | no state of their own |

## Modules

### `WorkerPool.tla`
The threads are worker `1..NumWorkers`, the model value `Dispatcher` and the
`Callers`. Each caller runs `Programs[c]`, a sequence of `submit(j)`,
`start` and `stop` calls.

**How the model's steps correspond to the code**
- Every `d->lock` or channel-lock critical section is one action. This is
  sound because nobody holds `d->lock` while taking a channel lock. The one
  nesting, a worker holding its channel lock while it takes `d->lock`, is
  inside a single action, `worker_thread_start`.
- The unlocked write of `channel->job` is an action of its own,
  `dispatch_job_assign`.
- A cond signal sets `wsignal[w]` or `dsignal` only if someone waits; otherwise
  it is lost.
- With `SpuriousWakeups = TRUE`, a waiter may also wake without any signal.

| code | action(s) |
|---|---|
| `new_dispatcher` | `Init` |
| `dispatch_job` 406–418 / 420 / 421–425 | `dispatch_job(t, j)`, `dispatch_job_assign`, `dispatch_job_signal` |
| `dispatch_thread_start` | `dispatch_thread_start` (loop top), `dispatch_thread_wake` (return from wait) |
| `dispatch_all_pending_jobs` | `dispatch_all_pending_jobs`, then `dispatch_pending_job`, which calls `dispatch_job` |
| `worker_thread_start` + `worker_signal_channel_ready` | `worker_thread_start` (announce and wait), `worker_thread_wake`, `worker_thread_run` (the sleep) |
| `worker_pool_start` | `worker_pool_start` |
| `worker_pool_stop` | `worker_pool_stop` (locked part), `worker_pool_stop_signal`, `worker_pool_stop_join` |
| `add_channel`/`remove_channel`/`add_job`/`remove_job` | `Append` and `RemoveFirst` on sequences |

History variables (`executed`, `inbox`, `queued`, `handed`, `discarded`,
`late`) record what the properties need. The code does not read them.

**Fairness.** Each thread gets weak fairness, as the OS scheduler runs every
runnable thread. `Finished` lets the system stutter once every caller has
returned; this is the process exiting after `main` returns. Without it, a
dispatcher thread parked forever would look like a deadlock.

### `JobPool.tla`: the abstract pool
`JobPool` states what spec sections 3–5 promise a job, with no threads or
locks. Its state:
- `queue`: accepted jobs not yet matched;
- `matching`: jobs the matching loop has popped;
- `slot[w]`: the job assigned to worker w and not yet started;
- `running[w]`, `done` and `discarded`;
- `stopping`.

Its actions:
- `Submit(j)`: refused once stopping. The job goes to an idle worker's slot
  or to the queue.
- `Take(j)`: only while not stopping.
- `Give(j, w)`: to an idle worker only.
- `Requeue(j)`.
- `Begin(w)`: a worker runs only the job in its slot.
- `End(w)`.
- `Stop`: moves the whole queue to `discarded`.

Spec 4.3 pops a job and a worker, releases the lock, then assigns, so a
popped job is out of stop's reach. The code pops the job first and the
worker later, in `dispatch_job`, and puts the job back when no worker is
ready. `matching` and `Requeue` are that stage.

**Refinement mapping** (end of `WorkerPool.tla`).
- `queue` is `job_root`.
- `matching` is the job the dispatcher thread holds at `"dj"`.
- `slot[w]` (`SlotOf`) is the job in w's channel that w has not read. It is
  also the job of a thread that popped w's channel and has not yet written
  it (`"assign"`).
- `running[w]` (`RunningOf`) is the job w read last, while w is at `"run"`.
- `done` is every other executed job.
- `discarded` and `stopping` are `discarded` and `d->stop`.

`ImplementsJobPool` is `JP!Spec`.

### `MC_WorkerPool.tla`
Defines the caller programs used by the runs:
- `MainPrograms`: `main()` scaled down to 4 jobs;
- `NoStopPrograms`: the same calls without the stop;
- `FifoPrograms`: two queued jobs, then one submit after start;
- `LatePrograms`: a second caller submits while `main` starts and stops the
  pool;
- `StopPrograms`: start, two submits and stop on one worker.

### `Mutex.tla` and `SpinLock.tla`
`Mutex` is the abstract lock. Its state is `holder`, and its actions are
`Acquire(t)` (only when the lock is free) and `Release(t)` (only by the
holder).

`SpinLock` has one action per step of `thread_loop`:
- `thread_loop`: the `while (!interrupted)` test;
- `lock_call`: the read of the `thread_id` argument;
- `mutex_lock`: the owner check, which returns -1;
- `mutex_lock_cas`: the CAS, or a spin step that changes nothing;
- `mutex_lock_own`: the store of the owner;
- `critical_section`;
- `mutex_unlock`, `mutex_unlock_clear` and `mutex_unlock_cas`.

main is `init_threads`, `store_thread_id` and `join_threads`, and
`sighandler` is SIGINT. For each thread, `pthread_create` is two steps: the
thread starts, and its id is stored. `IdStoredFirst` fixes their order. The
pthread_t of thread `t` is `t`, and the calloc'ed 0 is `NULL`.

**Refinement.** The mapping `Holder` is the thread between a successful CAS
0→1 and its CAS 1→0. `ImplementsMutex` is `Mutex!Spec` under
`INSTANCE Mutex WITH holder <- Holder`.

**Fairness.** Main and each thread get weak fairness. A spinning CAS is a
stuttering step, so fairness never forces it to succeed. SIGINT has no
fairness.

### `IdCache.tla`
**State.**
- The buffers are `"A"` (`ids`) and `"B"` (the first `ids_double`). Their
  contents are abstracted to `served[b]`, the slots handed out since the
  last fill.
- The counter is bounded by `MaxCalls`, which stands for the 10000 calls. It
  is below 2^32, so the counter never wraps.

**Actions.**
- main: `next_id_call`, `id_init`, `id_refresh` and `read_id`. The last one
  is the unlocked read of `ids_cur[next_id]`.
- `id_loop`: `id_loop_wait_s1`, `id_loop_wait_s2` and `id_loop_fill`. The
  whole fill is the region between taking `s2` and posting it.
- `main_exit`: `pthread_cancel` and the join.

Both threads get weak fairness.

### `DList.tla` and `MC_DList.tla`
Each API call is one action over explicit `next`/`prev` functions, because
the calls are sequential. Each loop is a RECURSIVE operator that keeps the
code's names:
- `get_last_node`;
- `get_nth_node`;
- `is_member`;
- `find_insert_hook`/`HookLoop`;
- `binary_search`/`SearchLoop`;
- the linear search of `dlist_find_node`.

A loop that runs more than `Fuel` rounds yields `HANG`, and a NULL
dereference yields `CRASH`. No call is made after either.

`Init` chooses `cmp_fn` from `foo_cmp` and NULL, so each run covers sorted
and unsorted lists. Nodes start as `_main` leaves them, with
`next = prev = NULL`.

The caller keeps the two preconditions of the API:
- it dequeues only member nodes (the header comment);
- it never enqueues a node that is already in the list.

With `Reuse = FALSE`, each node is enqueued at most once, as in `_main`.

`ROUND2(x)` is read as `x` rounded up to even, the reading under which
`ROUND2(n)/2` is the middle of `n`. Under the other plausible reading, a
power of two (`ROUND2(1) = 1`), `half` becomes 0 for a one-node window. TLC
then finds `find_insert_hook` looping forever when 1 is inserted between 0
and 2. That reading is kept only as the mutant `ROUND2_pow2`, because the
macro's real definition is not in the repository.

`MC_DList` gives the nodes `_main`'s data, `foo_node_arry[i].data = i`.

The link updates of `dequeue_local` and `dlist_enqueue` are the operators
`dequeue_links` and `enqueue_links`. Each returns the new head, links and
count. The DList actions use them, and so does the buddy allocator.

### `BuddyAlloc.tla`, `Buddy.tla`, `MC_BuddyAlloc.tla`, `MC_Buddy.tla`
**Memory.** Addresses are bytes in a space of 2^`MAX_BLOCK_SIZE` bytes.
`MAX_BLOCK_SIZE` is 32 in the header and 8 in the runs. Blocks are at least
16 bytes, so block addresses are multiples of 16. `next[a]` and `prev[a]` are
the two words at address a; every list shares them.

**Free lists.** `FL(i)` is `DList` instantiated on `heads[i]`, `counts[i]`,
`next` and `prev`, with no `cmp_fn`. Its `Data` is `a \div 16`, so
`dlist_ptr_cmp` is the pointer difference in `node_st` units. Through it:
- `put_free_block` is `get_last_node` plus `enqueue_links`;
- `get_free_block` and `delete_free_block` are `dequeue_links`;
- `is_available` is `dlist_find_node`.

**Recursion.** The recursion is explicit, one level per step.
- `buddy_alloc(size)` records the size and its order.
- `alloc_level` climbs while the lists are empty. Past the last list it
  returns NULL to every level. Otherwise it takes the head.
- `alloc_split` unwinds, putting `BUDDYOF(block, i)` on each list below,
  and hands the block to the client.
- `dealloc_level` is one level of `buddy_dealloc`. A level past the last list
  indexes `freelists_g` out of bounds. That is undefined behaviour, taken as
  `CRASH`.

**Modules and client.** `BuddyAlloc` is the allocating half (`AllocSpec`).
`Buddy` extends it with `buddy_dealloc` (`Spec`). The client calls
`buddy_alloc_init` first, makes one `buddy_alloc_chunk` call (whose malloc may
fail), and frees only blocks it holds, with the size it asked for.

**Property.** `BlocksTileChunk` says that, between calls, the free blocks and
the client's blocks lie in the malloc'ed bytes, overlap nowhere and cover
them all.

### `BitOps.tla` and `MC_BitOps.tla`
TLC's integers are 32-bit signed, so a word is the set of its 1 bits:
- `&` is `\cap`;
- `~` is the complement within the word;
- `>>` on an `int` is `ASR`, which copies bit 31 into the top bits, as gcc
  does;
- `+` on pointers is a ripple-carry adder modulo 2^`PtrBits` (`Add`).

`BIT_fls` is the RECURSIVE `FlsLoop` over the mask index. `BIT_ffs` is five
`FfsStep`s. `align_up` keeps the cast, `result \cap IntBits`.

A behaviour is one run of one program. `Init` chooses either fls.c's
input from `Inputs` or align_size.c's address from `Ptrs` and a size
2^k. `fls_main` or `align_main` prints, and `Exited` ends the run.

The properties compare each result with a reference: `Max` and `Min` of
the bit set, and `Ceiling`, the least multiple of 2^k at or above p.
`MC_BitOps` gives the inputs:
- every int with at most two bits set, and -1 and other negative ints;
- addresses near 32, a 32-bit stack address, the top of the 32-bit space,
  and a 64-bit stack address.

### `Patricia.tla`, `IpSet.tla` and `MC_Patricia.tla`
An address is a `W`-bit value, with `W` standing for 32. Bit i is
`mask(i) = MSB \div 2^i`, as `MSB >> i` is. `BitsIn(v, from, to)` keeps
the bits `from .. to-1` of `v` in place, which is what the loops of
`prefix`, `trimPrefix` and `bitMask` compute.

A key is a record `[key, bitLen, bitIdxBegin]`, and a node is
`[key, data, left, right]`, with `NULL` for what is missing. The code
mutates nodes and keys in place. Here, each operation returns the new
tree:
- `insertNode` is RECURSIVE, with its LET `InsertBelow` for the code's
  "recurse into the child or hang a new leaf". `Split` is the block that
  breaks a node in two (`:88-123`).
- `findNode` returns the path of sides to the node, or `NULL`. The code
  returns the node and its parent.
- `deleteNode` is `findNode` followed by `Unlink`, which detaches the
  target and merges the remaining child. A merge into the root, whose key
  is `NULL`, sets `crashed` (the NULL dereference in `mergeKey`), and
  nothing runs after that.
- `allocIp`'s loop is the RECURSIVE `FreeFrom`.
- `NULL_BIT_KEY` and `EQUAL_BIT_KEY` come from `patriciaTrie.h`, which is
  not in the repository. They are constants, assumed negative and
  distinct, as the code's tests `prefixBitLen > 0` need.

`IpSet` is what the allocator promises: a set of addresses, and the
last call made on it with its address. `Add(a)` is `insertIp(a)` or an
`allocIp` that returned `a`, and `Remove(a)` is `deleteIp(a)`. `Patricia`
keeps the caller's last call in `call` and maps `addrs` to `Stored`, the
addresses the nodes hold. So every step must change `Stored` at the
call's own address and nowhere else.
`FindIpFindsStored` ties `findIp`'s answers to `Stored`.

**Properties.**
- `TypeOK`: the root has no key or data, and every key lies within the
  word.
- `TrieShape`: each node's key starts where its parent's ends, and a
  child hangs on the side its first bit names. An inner node has no data
  and two children, and only a key that ends at bit `W` holds an address.
- `FindIpFindsStored`: `findIp(a)` returns a node holding `a` exactly when
  `a` is stored.
- `ImplementsIpSet`: `Set!Spec`, the refinement of `IpSet`. After
  `insertIp(a)`, or an `allocIp` that returns `a`, the trie holds `a`.
  After `deleteIp(a)` it does not. No other address comes or goes.
- `AllocIpFresh` and `NoNullDeref` are checked by the further
  configurations below.

### `PerfectHash.tla` and `MC_PerfectHash.tla`
One step is one iteration of one of the builder's loops. `pc` names the
loop: place, sort, multi-item buckets, free list, single-item buckets,
done.

`hash()` is computed exactly. TLC's integers are 32-bit signed, so a
32-bit word is two 16-bit halves `[hi, lo]`. `HashStep` is
`(d * 0x01000193) ^ c` modulo 2^32, and `Mod` is a word modulo `size`.
TLC evaluates fairness conditions without caching, so `hashOf[j][d]` is
computed once, in `Init`, and never changes.

The rest of the model:
- A key is its bytes, and an item's value is its index, as main's `"0"`
  to `"5"` are.
- `Sort` lets the qsort tie order be any order (`SortedOrders`), because
  qsort is not stable.
- `calloc`/`realloc` growth in chunks of three is storage, and a bucket
  and a slot vector are sequences.
- `Search` takes one step of the `while (item < len)` loop and is bounded
  by `MaxD`.

**Properties.**
- `TypeOK`, including that the slot vector holds one slot per item placed
  under the current `d`.
- `LookupFindsValue`: after the build, `perfect_hash_lookup` returns every
  item's own value.
- `SlotsNeverOverwritten`: no step overwrites a filled slot.
- `BuildTerminates`: `<>(pc = "done")`.

**Fairness.** The builder is one thread, and nothing else runs, so
`WF_vars(Next)` is the process being scheduled. `Exited` stutters after
the end.

### `IpcPoll.tla` and `MC_IpcPoll.tla`
The server is one thread. Its `pc` is at `poll`, in the scan loop, or
inside `accept_new_conn`'s do-while loop:
- `Poll` is one `poll` call. It is idle or goes to the scan.
- Each pass of the `for` loop is one action: `ScanHup`, `ScanListen`,
  `ScanRead` or `ScanSkip`. `ScanEnd` is the loop's exit.
- `Accept` is one turn of the accept loop.

State that mirrors the code:
- `pfds[]` is two arrays over its positions, `pfd` (the `.fd` fields) and
  `revents`, because `readjust_array` moves only the fds.
- Positions past `nfds` keep what they last held, as in the C array. A
  newly accepted fd inherits the `revents` left at its position.
- A connection is also its fd. `close_sock` only shuts a socket down, so
  no fd number is reused.
- A message is counted (`sent`, `delivered`). `write_msg` sends header and
  body in one `writev`, and `read_msg` reads both.
- `Events` is what the kernel's `poll` reports. The listening socket is
  readable while `backlog` is not empty. A connection is readable while it
  has unread data, and reports `POLLHUP` once its client has closed.
- `read_msg` returns a message, end of file (0) or `EWOULDBLOCK` (-1).

Clients connect once (`Connect`, queued on `backlog` in order), write up
to `MaxSends` messages, and close (`HangUp`).

The constants:
- `FdLimit`: how many accepted fds fit under the process's descriptor
  limit.
- `ListenNonBlocking`: whether `ipc_open` set `FIONBIO` on the listening
  socket. `ipc_conn_params_new` does not clear the `malloc`'ed flags (its
  test is inverted), so without `ipc_conn_enable_nonblocking` either value
  is possible.

**Properties.**
- `TypeOK`, including that `read_msg` never reads more messages than were
  written.
- `TableIsOpenConns`: the first `nfds` entries are the listening socket
  and every accepted, not yet shut, connection, each once.
- `DataEventuallyRead`: a message written while `ipc_poll` runs is read,
  unless its connection is shut down.
- `HungUpEventuallyShut`: a client that closes while `ipc_poll` runs is
  eventually shut down.
- `ShutdownOnlyHungUp`, `NoMessageDropped` and `NoFdOverflow` are checked
  by the further configurations below.

**Fairness.** `WF_vars(Server)`: `ipc_poll` is the one thread serving the
socket, and `poll` returns within 50 ms. Clients get no fairness. A client
may stop at any point.

## Runs

| run | cfg | expect | what it shows |
|---|---|---|---|
| core | `MC_core.cfg` | pass | See below. |
| live | `MC_live.cfg` | pass | Without stop, every job whose submit returned eventually runs (`JobEventuallyRuns`). The dispatcher thread is never signalled by `dispatch_job`'s queue path, but the next worker announcement does wake it, so nothing is stranded. |
| accounting | `MC_accounting.cfg` | violation | `JobAccounted` is broken: an accepted job is neither run nor discarded (finding 5). |
| spinlock | `SpinLock_glibc.cfg` | pass | With ids stored first: `MutualExclusion`, `ImplementsMutex` (refinement of `Mutex`), and `ThreadsExit` (after SIGINT, main's joins return). 3 threads. |
| idcache | `IdCache.cfg` | pass | `MainCompletes`: main's loop never blocks for good on `s2`. 2-slot cache, 12 calls, so five swaps. |
| idcache_torn | `IdCache_NoTornRead.cfg` | violation | `NoTornRead` is broken from the third refresh on (finding 7). |
| dlist | `DList.cfg` | pass | Every call sequence on 4 nodes, sorted and unsorted, about 52k states. `WellFormed`: the walk from head ends in NULL, is injective, is the caller's node set, has length `count`, and `prev` mirrors `next`. `SortedList`, `NoHang` and `FindIsComplete`: `find_and_dequeue` removes a node whenever the key is present. |
| buddy | `BuddyAlloc.cfg` | pass | See below. |
| bitops | `BitOps.cfg` | pass | On a 32-bit build (`PtrBits = 32`), 1,150 states: `FlsFindsLastSet` and `FfsFindsFirstSet` for every non-zero input, and `AlignUpIsCeiling` for sizes 1, 8, 32 and 4096 at every address that has a ceiling. |
| patricia | `MC_Patricia.cfg` | pass | 4-bit addresses with the top bit set; `insertIp`/`deleteIp` of any of them and `allocIp` on the /2 and /3 subnets at the top bit, in any order (14,337 states). `TypeOK`, `TrieShape`, `FindIpFindsStored` and `ImplementsIpSet` hold. |
| perfecthash | `PerfectHash.cfg` | pass | main's six items, the five keys of its commented-out list, and main's first three and five items, under every qsort tie order (186 states). `TypeOK`, `LookupFindsValue`, `SlotsNeverOverwritten` and `BuildTerminates` hold. |
| ipcpoll | `MC_IpcPoll.cfg` | pass | Three clients against `ipc_poll` with its 10-entry table, two idle polls before giving up, one message a client (124,703 states). `TypeOK`, `TableIsOpenConns`, `DataEventuallyRead` and `HungUpEventuallyShut` hold. |

The buddy run uses a 128-byte chunk at address 128, aligned to its size,
with requests of 8, 24 and 64 bytes (2,202 states). Any sequence of
`buddy_alloc` calls keeps these properties:
- `BlocksTileChunk`: the free and handed-out blocks tile the chunk.
- `AllocFailsOnlyWhenExhausted`: NULL is returned only when no list of a
  large enough order holds a block.

Two changes of that configuration break `BlocksTileChunk` on allocation
alone:
- **`Base = 16`:** an address malloc may return. Splitting it puts the buddy
  at 0, outside the chunk, on list 4 (12 states).
- **`ChunkSize = 100`:** the 104 malloc'ed bytes are filed as a 128-byte
  block.

**Further configurations.** These configurations are kept beside the runs.
Each shows a finding with a property that a run checks.
- `MC_fifo.cfg` finds `PendingFIFO` broken (finding 1).
- `DList_reuse.cfg` finds `WellFormed` broken when a dequeued node is
  enqueued again (finding 8). `WellFormed` stays checked by the dlist run.
- `BitOps_lp64.cfg` finds `AlignUpIsCeiling` broken on a 64-bit build
  (finding 11).
- `SpinLock_race.cfg` finds `MutualExclusion` broken when a thread reads
  its id before `pthread_create` stores it (finding 6). The spinlock run
  checks `MutualExclusion` with the ids stored first.
- `Buddy_free.cfg` adds `buddy_dealloc` and finds `BlocksTileChunk` broken
  by allocating and then freeing one 32-byte block (findings 9 and 10).
  The buddy run checks `BlocksTileChunk` on allocation.
- `MC_Patricia_root.cfg` allows every 4-bit address. It finds
  `NoNullDeref` broken after insert, insert, delete (finding 12). The
  patricia run keeps the addresses on one side of the root, where the
  merge into the root cannot happen.
- `MC_Patricia_alloc.cfg` finds `AllocIpFresh` broken: after `insertIp(9)`
  (binary 1001), `allocIp(8, /3)` returns 10, outside the subnet
  (finding 13).
- `MC_Patricia_wrap.cfg` uses the top subnet, 12/2. Once it is full,
  `allocIp` wraps to address 0, and later deletes reach the NULL merge
  (finding 14).
- `PerfectHash_even.cfg` finds `BuildTerminates` broken for main's first
  four items (finding 15).
- The IPC configurations change one thing in `MC_IpcPoll.cfg`:
  - `MC_IpcPoll_wrongclose.cfg` finds `ShutdownOnlyHungUp` broken
    (finding 17).
  - `MC_IpcPoll_drop.cfg` finds `NoMessageDropped` broken (finding 18).
  - `MC_IpcPoll_overflow.cfg` (`MaxFds = 3`) finds `NoFdOverflow` broken
    (finding 19).
  - `MC_IpcPoll_emfile.cfg` (`FdLimit = 2`) finds `DataEventuallyRead`
    broken (finding 20).
  - `MC_IpcPoll_blocking.cfg` (`ListenNonBlocking = FALSE`) finds
    `DataEventuallyRead` broken (finding 21).

There are also two WorkerPool configurations. `MC_spurious.cfg` finds `AtMostOnce` broken when spurious
wakeups are allowed (finding 3). `MC_late.cfg` finds `NoRunAfterStop` broken
(finding 4). `AtMostOnce` stays checked by the core run. Both also
break `ImplementsJobPool`:
- On `MC_spurious.cfg`, a worker begins with an empty slot.
- On `MC_late.cfg`, a job is submitted while stopping.
The core run's single caller makes neither case possible.

The core run checks `main()`'s calls on 2 workers and 4 jobs, about 636k
states. It finds no deadlock, and these properties hold:
- `ReadyWorkersIdle`: before stop, each ready channel appears once and
  belongs to a worker parked with no signal pending.
- `SlotHoldsOne`: no channel write overwrites an unread job.
- `AtMostOnce`: no job runs twice.
- `WorkersTerminate`: after stop, every worker exits, including one whose stop
  signal was lost while it slept.
- `ImplementsJobPool`: every step refines `JobPool`, including stop's
  discard while the dispatcher thread holds a job. Its mutant, a stop that
  leaves `job_root` as it is, is caught at the first stop with a queued job.

`DispatcherExits` (spec 4.3) is also stated in `WorkerPool.tla`. On
`main()`'s calls TLC finds it violated: the dispatcher thread stays parked on
`d->cond` after stop (finding 2). It is not among the kept runs.

**Bounds.**
- 2 workers let the fast path and the dispatcher thread compete for
  different workers, and let `ready_channel_root` hold more than one channel.
- Two jobs submitted before `worker_pool_start` put jobs in the pending queue
  while the dispatcher thread waits.
- Two jobs after it exercise the fast path and the re-queue path.
- The violations need only 1–2 workers and 1–3 jobs.
- **SpinLock:** 3 threads let one thread hold the lock while a second
  spins and a third runs with a NULL id.
- **IdCache:** 12 calls on a 2-slot cache give the `id_init` and five
  swaps. The aliasing appears at the third refresh.
- **Buddy:** 8 orders and a 128-byte chunk give four block sizes (16 to
  128 bytes), so `buddy_alloc` splits up to three levels deep. The requests
  cover the minimum size (8 → 16), rounding (24 → 32) and a split of the
  top block.
- **DList:** 4 nodes with distinct data give `find_insert_hook` windows of
  1 to 4 nodes, and so both branches at every depth. `Positions` covers
  `dlist_dequeue_node_n` from 0 to one past the end.
- **BitOps:** the binary searches branch on each of the five masks.
  Inputs with one or two set bits reach every combination of taken and
  untaken branches. Negative inputs make the `int` shifts bring ones in.
  The sizes include 1, where the mask is all ones, and 4096, where the
  carry crosses a 16-bit half.
- **Patricia:** `W = 4`. Four bits give keys split at every depth from
  0 to 3, splits of inner nodes as well as of leaves, and merges at every
  depth. 8 addresses on one side of the root and two subnets reach full
  subnets and the fall-through branch of `allocIp` (subnet not found).
  When the /2 subnet 8–11 is full, `allocIp` returns 12 (finding 13).
  `ImplementsIpSet` still holds then, since 12 is held afterwards, and
  `AllocIpFresh` is checked only by `MC_Patricia_alloc.cfg`.
  A wider `W` multiplies the trees without adding a new branch of the
  code.
- **IpcPoll:** 3 clients are the fewest for two adjacent hang-ups
  followed by a live connection (finding 17). They also let accepts,
  reads and closes fall in one scan. `MaxFds = 10` is the code's own
  value, so the table cannot fill. `MaxRepeat = 2` stands for 100000: the
  counter resets on any event, and only reaching the bound matters.
  `MaxSends = 1` is enough for reads interleaved with closes. Two
  messages multiply the states by eight and add no branch.
- **PerfectHash:** the item lists are main's own. Their buckets hold one
  to three items, and the d search restarts both on a filled slot and on
  a slot of the same bucket. `MaxD = 40` is above the 13 that main's items
  need.
- Each mutant (see `PROJECT.json`) is a plausible slip in one function, and
  it breaks its property within these bounds.

## Findings
1. **Pending FIFO is broken** (`worker_pool.c:412`).
   `dispatch_all_pending_jobs` takes j1 off the queue and unlocks. A
   concurrent submit takes the only ready worker. `dispatch_job(j1)` then
   appends j1 behind j2, so j2 is handed out first. Shown by
   `MC_fifo.cfg`.
2. **The dispatcher thread never exits after stop** (`:374`, `:484`). Stop does
   not signal `d->cond`, and after stop no worker announces itself.
3. **Spurious wakeups are not handled** (`:313`). The worker runs the job
   still left in its channel a second time. Shown by `MC_spurious.cfg`.
4. **Submit is not rejected after stop** (`:408`). The ready queue still holds
   channels of workers that stop has not yet signalled. A concurrent submit
   hands its job to one of them, and the job runs. Shown by `MC_late.cfg`.
5. **An assigned job is dropped at stop** (`:314`). This is a gap in the spec.
   - `dispatch_job` hands j1 to a parked worker and signals it.
   - `worker_pool_stop` sets `worker->stop` before the worker re-takes its
     lock.
   - The worker checks `stop` first and exits. j1 never runs, yet it was not
     in the pending queue that stop discards.
   - Spec section 5 says an assigned job runs to completion. Section 3(c)
     says a stopping worker exits.
6. **Mutual exclusion fails when `thread_id` is read before it is stored**
   (`lock.c:81`).
   - The thread passes NULL as its owner.
   - `mutex_lock` finds `owner_ctxt == NULL` on the free lock and returns -1.
     `thread_loop` ignores the result.
   - Another thread then takes the lock, and both are in the critical
     section.
   - Later, the first thread's `mutex_unlock` passes its owner check and
     spins on a counter that is 0. After SIGINT it never exits, so main's
     join blocks (`ThreadsExit` fails too).
7. **The double buffer collapses** (`get_id.c:90`).
   - `ids_double = ids` assumes `ids` is the buffer main just left.
   - After the first swap it is not. From the third refresh on,
     `ids_cur == ids_double`.
   - `id_loop` then rewrites the buffer that `_next_id` reads without `s2`,
     and buffer B is never used again.
   - Separately, `id_refresh` never waits for a refill, so main re-serves
     ids already handed out. `NoIdServedTwice` states this and TLC finds it
     violated on the `idcache` configuration. It is not among the kept runs.
8. **A re-enqueued node corrupts the list** (`dlist.c:368`).
   - `dequeue_local` leaves `node->next` as it was.
   - Linking after the tail does not set it.
   - Enqueue n0, enqueue n1, dequeue n0, enqueue n0 (unsorted) gives
     n1 → n0 → n1 → …

9. **A free puts the wrong block on the free list** (`buddy_alloc.c:222`).
   - When the buddy is in use, `buddy_dealloc` calls
     `put_free_block(buddy, i)`, although its comment says "put block".
   - The block being freed is lost, and the in-use buddy becomes free.
   - TLC's trace allocates 32 bytes at 128 from the chunk and frees them.
     The lists end up holding 192 and 224 as 64-byte blocks. These overlap,
     the second runs past the chunk, and 128..159 is in no list.
10. **`coalesce` returns the higher buddy** (`:191`). The merged block starts
    at the lower address. In the same trace, 128 and 160 merge "at 160",
    whose buddy 224 is looked for instead of 192.

11. **`align_up` truncates pointers on 64-bit builds** (`align_size.c:12`).
    - The `(unsigned int)` cast keeps only 32 bits of `ptr + size - 1`.
    - On LP64, any address above 4 GiB comes back truncated. Every stack
      address, such as main's `&a`, is above 4 GiB.
    - So does an address whose `ptr + size - 1` carries across a 4 GiB
      boundary.
    - `BitOps_lp64.cfg` shows it: an address just below 4 GiB, aligned to 4096,
      becomes 0.
    - On a 32-bit build the function is correct for power-of-two sizes,
      except at the top of the address space, where it wraps to 0.
12. **Deleting next to the root dereferences NULL**
    (`patriciaTrieNode.cc:226`).
    - `deleteNode` pulls the parent's remaining child up into the parent
      and calls `parent->key->mergeKey`.
    - When the target hangs directly from the root and the root's other
      side holds an address, the parent is the root, whose key is NULL.
    - With a 10.x and a 172.x address stored, `deleteIp` of either one
      crashes. `MC_Patricia_root.cfg` shows this after insert, insert,
      delete.
13. **`allocIp` runs past its subnet** (`ipv4_addr.cc:67`).
    - The loop adds `i` to the subnet address with no bound.
    - It looks each candidate up only below the subnet's node, where an
      address outside the subnet is never found.
    - So on a full subnet it returns the first address past it, even one
      already in use. `insertNode` then ignores the duplicate, and the
      caller gets an address someone else holds.
    - Shown by `MC_Patricia_alloc.cfg`.
14. **`allocIp` wraps to 0.0.0.0** (`:67`). On the top subnet,
    `newIp` overflows to address 0, which goes on the root's other
    side. This sets up finding 12 (`MC_Patricia_wrap.cfg`).
15. **The d search of `create_minimal_perfecthash` can loop forever**
    (`perfect_hash.c:179`).
    - The multiplier `0x01000193` is odd, so the low bit of
      `hash(d, key)` is the low bit of `d` xor the low bits of the key's
      bytes.
    - With an even `size`, the slot's parity is therefore fixed by the
      key, for every `d`.
    - A bucket whose keys need more slots of one parity than there are
      never finds a `d`. main's first four items are such a set.
    - Duplicate keys loop forever too: they always collide.
    - main's six items terminate, with `d` up to 13.
16. **A failed `pop` writes `values[-1]`** (`perfect_hash.c:224`). `pop`
    returns -1 when the free list is used up. The code then stores
    `G = 0` and writes `values[-1]`. The free slots cannot run out while
    the items fill exactly `size` slots, and `LookupFindsValue` checks the
    outcome. The model keeps the array and ignores the write.
17. **`ipc_poll` shuts down a connection whose client did nothing**
    (`ipc.c:286`).
    - `readjust_array` moves the fds after a closed entry down one place.
      It does not move their `revents`.
    - The `continue` then skips the fd moved into place `i`.
    - Position `i + 1` now holds the next fd, but still holds the
      `revents` of the fd that moved away.
    - With connections a, b, c in entries 1 to 3, a and b close. a's
      `POLLHUP` closes a, and b moves to 1 and c to 2. b's `POLLHUP`,
      still at 2, then shuts down c.
18. **A message written just before a close is dropped** (`:286`).
    `POLLHUP` is tested before `POLLIN`. A client that writes and then
    closes has its socket shut down with the message unread.
19. **`accept_new_conn` writes past `pfds[10]`** (`:233`). It compares
    `nfds` with 10 once, before the loop. Two connections queued at
    `nfds = 9` make it write `pfds[10]`.
20. **Accepted descriptors leak** (`:187`). `close_sock` calls `shutdown`,
    never `close`. Once the process reaches its descriptor limit, `accept`
    fails with `EMFILE` at every poll. The queued client is never served,
    and the loop spins without giving up, since `L` stays readable.
21. **A blocking listening socket stalls the loop** (`:237`). The
    accept loop ends only when `accept` returns -1. On a blocking socket it
    waits instead, for the next client, while the connections already in
    the table go unread. `ipc_conn_params_new` leaves the flags
    uninitialised, so this needs no misuse by the caller.

## Not modelled
- **BitOps.**
  - The unused `ALIGN` macro and `binary_mask_ffs` array.
  - `sscanf` and `printf`.
  - Sizes that are not powers of two, for which `~(size - 1)` is not a
    mask.
  - The result for 0: `BIT_fls(0) = BIT_fls(1)` and
    `BIT_ffs(0) = BIT_ffs(INT_MIN) = 31`. Nothing says what it should be.
- **WorkerPool.**
  - Failures of `pthread_create` and `malloc`.
  - A stop before start, or a second stop. The spec calls both precondition
    violations, and the `ASSUME` on `Programs` excludes them.
  - Job payload text and `printf`.
- **SpinLock.** Starvation: the CAS spin gives no fairness, and the code
  claims none.
- **IdCache.**
  - The mode without `-c`, in which the cache is dead code.
  - `now()`, which only formats output.
  - `pthread_cancel` is taken at the next cancellation point of `id_loop`.
- **DList.**
  - `dlist_init` on a list already in use.
  - `dlist_ptr_cmp`, which is unused.
  - `foo_print_list`, which is output.
  - The API misuses excluded by its preconditions: enqueueing a member, and
    dequeueing a non-member from an empty list, which is a NULL dereference
    in `is_member`.

- **Patricia.**
  - `parseAddress`, which reads past the tokens of an address with fewer
    than four parts (`atoi(NULL)`). Addresses are given as values.
  - `findNode` and `lookup` trim the caller's key in place. Every caller
    throws that key away afterwards, so the model does not keep it.
  - The `address_t` that `insertIp` mallocs for a duplicate address is
    leaked. Memory is not modelled.
  - `print`, `printIpList` and `ipv4_addr_test.cc`'s `main`, whose calls
    are the actions' inputs.
- **PerfectHash.** The printing of buckets, `deep_free`, and the growth
  of vectors in chunks of three.
- **IPC (`ipc.c`).**
  - `ipc_select`, the `select` version of the loop. It compares an index
    with an fd (`k == max_sd`).
  - Socket creation, `bind` and `listen`, and the client's `ipc_open`.
  - `ipc_register`/`ipc_unregister` (whose bound check allows
    `handlers[MSG_TYPE_MAX - 1]`), and the handler calls.
  - `poll` failing (`rc < 0`), `ioctl` failing, short reads, and a
    header whose `nbytes` exceeds the buffer.
  - The kernel's listen backlog of 5, which three clients never fill.
- **First-fit allocator (`mem_alloc.c`).** `main` calls
  `alloc_chunk(1024)` once, with no branch that depends on input.
  `init_mem_block` computes the trailer with `block_header_st *`
  arithmetic. So `block_p + HEADER_SIZE + size` is counted in headers,
  not bytes, and lands far past the malloc'ed block. The first write is
  out of bounds, and the cast `(uint)HEADER(p)` truncates the pointer on
  64-bit builds. No defined behaviour is left to model as states.
- **Buddy.**
  - The client's writes into the blocks it holds. Those words become the
    `node_st` of a freed block, and `dlist_enqueue` keeps `next` when it
    links at the tail (compare finding 8).
  - Frees of fewer than 16 bytes, whose order `buddy_dealloc` computes from
    the size as given.
  - More than one chunk.
  - `log_error`, which prints.

## Plan
1. **Done.** `WorkerPool`, including accepted-job accounting, and its
   refinement of `JobPool`. `SpinLock` with its refinement of `Mutex`.
   `IdCache`. `DList`. `BuddyAlloc`/`Buddy` composed with `DList`.
   `BitOps`. `Patricia` with its refinement of `IpSet`. `PerfectHash`.
   `IpcPoll`.
2. **Next.**
   - `ipc_select`, checked against the same properties as `ipc_poll`.
