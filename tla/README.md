# A verification project for fuzz-socketCAN

fuzz-socketCAN extends Nyx-Net, a snapshot fuzzer, with SocketCAN targets.  An
agent preloaded into the target (C) intercepts its socket calls and feeds it
packets from a bytecode program; the target runs inside QEMU-Nyx; fuzzing
threads (Rust) write mutated programs into a buffer shared with their machine,
run them, and keep the ones with new coverage in a shared corpus.

This directory holds TLA+ models of the parts in which the order of events
matters, configurations for TLC, and theorems proved with TLAPS.  `PROJECT.json`
lists components, runs, mutants, findings, hazards and theorems, and maps every
definition to the lines it models.  Paths below are relative to `src/`.

## 1. Inventory

| Component | State | Operations | Talks to | What is hard | What makes it correct |
|---|---|---|---|---|---|
| Socket cache (`packer/packer/linux_x86_64-userspace/src/netfuzz/socket_cache.c`) | `connections[]`, `active_connections`, `active_con_num`, per slot sockets, port, disabled | add/close socket, add connection, disable, lookups | called by the hooks | descriptor numbers are re-used by the kernel; two counters; fixed arrays; no lock | it answers for exactly the descriptors that are target connections; the count that ends an execution is exact |
| libc hooks (`netfuzz/inject.c`) | `init_done`, the epoll slot | `listen`, `bind`, `connect`, `accept4`, `dup*`, `close`, `read`/`recv*`, `select`, `poll`, `epoll_*` | cache, kernel, interpreter, hypercalls | any order of calls, failures of the real call, assertions | first packet only after the root snapshot; the last close releases; no assertion fails |
| Interpreter and delivery (`ld_preload_fuzz.c`, `interpreter.jinja.h`, `targets/specs/*`) | ops/data index, instruction counter, two static packet buffers | `call_vm`, `call_vm_can`, packet handler, `create_tmp_snapshot` handler | payload buffer, hooks, hypercalls | frozen half way by the snapshot and resumed on another payload | the target is given the payload's bytes in order, none twice, none skipped |
| QEMU-Nyx snapshots (`qemu-nyx/nyx`: `synchronization.c`, `hypercall/hypercall.c`, `fast_vm_reload*.c`, `snapshot/`, `pt.c`) | host memory, two copies of it, dirty ring, stacks and bitmaps, block list, three layers of disk chunks, device fields, coverage bitmap and its copy, flags | write (guest, device, disk), ring full, persist a page, save, reload, create, discard, acquire, release, end of execution | KVM, auxiliary buffer | only what is known to be dirty is copied back; parts are saved and restored one after the other; every way an execution may end | a reload brings back the whole machine, wherever it was |
| Runner (`fuzzer/libnyx/fuzz_runner`) | auxiliary buffer, payload buffer | `run_test`, `run_create_snapshot`, `delete_snapshot`, `send_payload` | QEMU, fuzzing thread | timeouts, repeated hand-over | its assertions hold |
| Fuzzing thread (`fuzzer/rust_fuzzer/src/fuzzer.rs`) | own bitmaps, cutoffs, entry being fuzzed | `iter`, havoc with/without snapshot, `perform_run`, filter, minimizer, imports | queue, mutator, runner | nondeterministic targets, copies of shared entries | stored inputs replay; minimized graphs keep what they were stored for |
| Corpus queue, bitmaps (`queue.rs`, `bitmap.rs`) | `inputs`, `favqueue`, `bitmap_bits`, `bitmap_index_to_min_example`, bitmaps per exit reason | `check_new_bytes`, `add`, `calc_fav_bits`, `schedule`, `set_state` | all threads, one `RwLock` taken several times per operation | interleavings between two lock sections, claims before confirmation | ids valid, each discovery stored once, examples minimal, favourites cover |
| Graph mutator (`fuzzer/structured_fuzzer`) | `GraphBuilder`: value ids per type, ops and data of the payload | `start`, `append_node`, `append_random`, `splice`, `drop_range`, `prepare_snapshot` | payload buffer | state kept across a snapshot | the payload is a valid graph with the prefix untouched; the state beside it is the one the graph implies |
| Not modelled | | primitive mutations, spec parsing, configuration, packer, start-up, debug fuzzer, the rest of QEMU, targets, result data | | | see section 7 |

Interaction: thread -> mutator -> payload buffer -> `send_payload` -> QEMU ->
agent interpreter -> hooks -> target; the end of the execution travels back as
flags of the auxiliary buffer, the instruction counter and the coverage map, and
the thread takes them to the queue it shares with the other threads.

## 2. Modules

| Module | Models | Composes |
|---|---|---|
| `SocketCache` | socket cache and the hooks that maintain it, over the kernel's descriptor table | |
| `MachineSnapshot` | abstract: a machine with a root and a temporary snapshot | |
| `ShadowMemory` | memory, its two copies, dirty page tracking with three backends | |
| `BlockCow` | the copy-on-write layers of a disk | |
| `FastReload` | the handlers of QEMU-Nyx that take, reload and discard snapshots; implements `MachineSnapshot` | extends `ShadowMemory`, `BlockCow` |
| `SnapshotFuzz` | payload, interpreter, both packet buffers, havoc loop and confirmation of one thread, on a machine with snapshots; obeys `MachineSnapshot` | agent, machine, runner, thread and mutator in one module: their interplay is the point |
| `ValueState` | the values of one type a graph under construction offers | |
| `GraphBuilder` | mutations, minimizer and imports building a graph in the payload | extends `ValueState` |
| `CorpusQueue` | the queue, bitmaps and files shared by the threads; run, confirmation, import and minimizer of each thread | threads over the queue |
| `SocketCacheProofs`, `ShadowMemoryProofs`, `FastReloadProofs`, `FastReloadRefinement`, `CorpusQueueProofs`, `CorpusQueueCoverage`, `SnapshotFuzzProofs`, `GraphBuilderProofs` | theorems and their lemmas | extend what they are about |
| `MC...` | values for the constants: machines, packets, targets, specifications, symmetry | |

### SocketCache

State: `connections` (used slots in order; `active_connections` is its length),
`active_con_num`, `init_done`, `phase` (running, or how the execution ended:
released, exit, failed assertion, write behind the array, endless loop), `build`
(the compile-time mode), and externally the kernel: what each descriptor refers
to (`kind`), which share an open file (`alias`), and the accept backlog.  One
action is one hooked call with everything it does: `listen`, `bind_can`,
`bind_udp`, `connect`, `accept4`, `dup`, `dup2`, `dup3`, `close`, `read`,
`unsupported` (the calls the hooks refuse), and `Open` for the calls that are not
hooked.  Counters wrap at 256 as `uint8_t` does.  A failing real call is a branch
of its action.

### SnapshotFuzz

Guest state: index of the next op and data (`ops_i`, `data_i`), the instruction
`counter`, one buffer per channel (`call_vm` and `call_vm_can` keep separate
static buffers), and the read in progress.  `fetched` and `got` are history.
`Read`, `Fetch`, `Copy` are the steps of a read; `CreateTmpSnapshot`, `OutOfData`,
`Stop`, `Timeout` end an execution through `EndRun`, which reloads the machine.
Host state: the program counter of the thread, the entry being fuzzed, the
skipped prefix, the payload, the corpus.  Host and guest alternate (`turn`), as
`send_payload` and the end of an execution do.  A node is a packet with its data;
a mutation replaces the tail by any packets.  The snapshot saves the whole guest
state, counter included, and the host changes the payload in between: that is
where prefix and tail could come apart.

### MachineSnapshot, ShadowMemory, BlockCow, FastReload

`MachineSnapshot` is what the fuzzer relies on: the root snapshot is taken once,
a temporary one may be taken and discarded, and the end of an execution leaves
the machine in the snapshot the next one is to start from.  Two specifications are
checked against it by refinement.  `FastReload` implements it but for the pages a
device can change unseen (`ImplementsRecorded`; with these pages it is
`ImplementsSnapshots`, which `reload_dma` violates).  `Missed` names them: pages that a
device write touches and `nyx_fdl_user_set` does not mark, or whose bit was already set
when `malloc` returned the bitmap, which the code does not clear (`HeapBits`, any set of
pages).  The machine is memory outside the block list, the answers
of the disk and the live device fields; the root snapshot is read off the first
copy of memory, the disk without its secondary layers and the saved device fields,
the temporary one off the second copy, the disk without its last layer and the
fields saved last.  `SnapshotFuzz`, in which a snapshot is a saved value, obeys it
too (`UsesSnapshots`); so what the fuzzing loop assumes of the machine below it is
what the machine below it does.

`ShadowMemory` keeps memory as a record and its operations as operators on it:
guest writes reach KVM's dirty ring or the FDL's stack and bitmap, device writes
the user-space log; the debug backend compares.  A restore copies the pages of the
logs and resets them, a creation brings the second copy up to date, and every
`RestoreRate` creations (RESTORE_RATE, 2000) it is mapped anew.  Page contents are
model values; memory regions and KVM slots are one range of pages.  `BlockCow`
keeps a layer as a function from chunk offsets to contents; a request writes one
value, requests that are not whole chunks are passed or dropped as the code does,
and a full buffer aborts QEMU.

`FastReload` has one action per hypercall or request, all of it: `SetupSnapshotOnce`
(the first payload: save, two restores), `FastAcquire`, `Release`,
`CreateTmpSnapshot` (disable tracing, copy the bitmap, create, restore, end of the
execution), `EndExec` (crash, sanitizer, timeout, shutdown, payload write), beside
the guest's own steps.  The handlers run on the CPU's thread under the I/O lock, so
each is one step.  `setup` is a machine: its backend and the writes guest and devices make.
`ideal` is history: what disk and path should be.  A machine boots, or starts from
a snapshot folder that another process has written.

### ValueState, GraphBuilder

`ValueState` is the bookkeeping of `graph_builder.rs`: available ids in a vector,
the index into it, and the renaming of ids from copied graphs in both directions;
`take_new_input` moves the last id to the hole.  In `GraphBuilder` an operation
(`PerformGen`, `PerformHavoc`, `PerformMin`, `PerformImport`, `PrepareSnapshot`) lays out
what it will append (`todo`); then `AppendNode` and `AppendRandomNode` take one node
after the other; `LeaveOut` skips a copied node whose values are missing or that does
not fit, and `DropNode` is the choice of `splice_random` to leave one out or to generate
in its place.  `SnapshotCreated` keeps the state of the prefix; later mutations
truncate the payload to it, until `DeleteSnapshot`.  All mutations of `mutator.rs`
(`generate`, `generate_tail`, `mutate_data`, `splice_random`, `splice`, `repeat`) and the
minimizer's `drop_range` are there.
`Cutoffs` places a snapshot as the setup's `placement` says: balanced ones in front of
the last node the guest executed, aggressive ones anywhere in front of the last node
of the entry, whatever was executed.  `mutations` takes the difference of
`ops_used` and `skip_nodes`, a `usize`: the fuzzer is built with `--release`, so below
zero it wraps to a number larger than any index, and what follows from it is modelled, the
assertions of `repeat` and `splice` as steps that panic (`Fail`, `FailAssert`).  A setup
has the size of the largest registered data type (`biggest_data`), which nodes
need not use.  Data is its length.  The operands of a node are
linked one after the other (`LinkNext`); `LinkAll` is the set of all outcomes, a panic
among them, of the loop of `append_slice` and of the three loops of
`append_random_node`.  `GraphBuilderAssumption` says what a specification and a seed
file are: there is a node type, and the nodes of a seed file have the operands and
a length of data their type allows.

### CorpusQueue

A step is what a thread does under one lock of the queue.  `perform_run` executes and
looks at the thread's own bitmaps; `CheckNewBytes` claims the coverage in the global
ones; `AddInput` is confirmation, `new_input` and the locked part of `add`;
`CalcFavBits` and `StoreFavqueue` are the two lock sections of `calc_fav_bits`.
`Schedule` copies the entry, `perform_min` sets its state later: two threads may both
find `Minimize`.  `MinNext`, `MinRandom`, `MinStep`, `AddResult` are the loops of the
minimizer, with the short-circuit of `updated||update_min_graphs(..)` and the last
execution's coverage map as in the code.  `perform_havoc` may run behind a temporary
snapshot, whose op the instruction counter counts too: `Behind` adds the outcomes with
one op more (`Counted`), clamped to the length of the graph as in `fuzzer.rs:235`.
Inputs are sequences of packets and the target is the operator `Outcomes`, a singleton
for deterministic targets.  `calc_fav_bits` is written in closed form: going from the
newest input to the oldest, the bits seen are those of all newer inputs with new bytes,
favourites or not, because an input that is no favourite adds nothing.  `refused` is
history.  Everything found is claimed first, so the number of inputs is finite without a
bound on the queue.

## 3. Runs

| Run | Question | Bounds and why they are enough |
|---|---|---|
| `socket_hooks` | Is the cache right after any sequence of calls, in the CAN, UDP and client builds? | 4 descriptors (a listener, two connections, one more name or file), 3 slots, 3 sockets per slot: both limits are reached, the assertion of a full list fails; descriptors are symmetric; without `dup2(fd, fd)` and `dup2` over a cached descriptor (section 6) |
| `socket_slots` | finding | connections opened and closed again |
| `snap_can` | Does a target on two channels get exactly the payload, with snapshots at every cutoff, ending anywhere? Does the thread use the machine as `MachineSnapshot` allows? | 2 nodes of 0 or 2 bytes read byte by byte (a buffer is left half read across the snapshot), 2 corpus entries (one found behind a snapshot) |
| `snap_aggressive` | Do the assertions hold, is every snapshot given up? | 3 nodes and MIN_CUTOFF 1, so that the cutoff walks and wraps; 2 runs per snapshot and 2 confirmations; a packet that ends the target early |
| `snap_panic` | finding | 4 nodes, MIN_CUTOFF 2 |
| `reload` | Does restoring what is known to be dirty restore the machine? Does the guest read from its disk what it wrote, is coverage that of the whole path? | three backends over 3 pages (two written by the guest, one of them also persisted; device writes of one and two pages; one page never written); the bit of a page the devices write is set from the start (`HeapBits`); a ring of 1 entry, so that it fills at once; `RestoreRate` 2, so that the second copy is re-used and mapped anew; 3 chunks of disk behind layers of 2, so that layers shadow each other and fill up; device state and traced blocks in machines of their own; from boot and from a folder |
| `reload_dma` | finding | a device write across a page boundary |
| `graph` | Are graphs well linked, is the builder's state that of the graph, does the prefix stay, what panics? | start/borrow/take nodes of one value type, more of them generated (`Large`) or more of them kept (`Long`), packets with aggressive snapshots in a payload of 4 ops that fills up (`Small`), values with balanced ones (`Both`); graphs of up to 2, 3 or 4 nodes kept (`max_kept`), 1 in the queue beside an import (`max_queue`), fragments and repeats of 2, up to 3 generated nodes; two graphs of up to 4 nodes, so that one is spliced into the other, in payloads that run out of ops: with the nodes of `test_spec.py` and 7 ops, in which nodes are cut short (`Tight`), and with as much data as ops in every node, at the boundary of `Roomy`, in which none may be (`Even`) |
| `corpus_two` | Do two threads keep the queue consistent? | 2 bits, inputs of up to 2 nodes, a timeout that makes a minimized graph refused |
| `corpus_one` | Do the entries replay? | up to 3 nodes, all exit reasons, a seed; `MinIters` 2, so that both loops of the minimizer run |
| `corpus_nondet` | Is the minimizer sound, are favourites and examples right for a nondeterministic target with ijon? | 2 nodes, a slot that has the index of a bit, an imported file |
| `corpus_exit` | Do all threads end after a crash? | two threads, a seed the second waits for |

Deadlock is not checked where the system may stop: an execution of the target ends
(`socket_*`), QEMU aborts (`reload*`), the thread panics or nothing is left to mutate
within the bounds (`graph`), the threads return (`corpus_exit`).  Each property has a
mutant of the model, a plausible bug, that TLC finds it violated by.

Properties worth knowing: `CacheMatchesKernel` (the cached descriptors are
exactly the target's connections), `SelectExact`,
`OnlyFullAsserts` (the hooks find the connection of their descriptor), `NeverIdle` and
`ReleaseIsLast` (the execution ends with the last connection, not before);
`ConsumedIsPrefix`, `NothingSkipped`, `ChannelStream`, `CorpusReplays`,
`RootBetweenIterations`, `NoPanic`, `SnapshotDeleted`; `DirtyPagesKnown`,
`DirtyBitsBacked`, `TmpFlagsAgree`, `DiskCoherent`, `CoverageOfPath`,
`PersistentPages`, `ImplementsRecorded`; `LinksValid`, `AvailableExact`,
`ValuesConsistent`, `PrefixIsInput`, `PayloadFits`; `MinExample`, `ClaimedOnce`,
`CoverageKept`, `EntryReplays`, `MinimizerSound`, `FavCovers`,
`CrashEnds`.

## 4. Fairness

Safety runs assume none.  `snap_aggressive` checks `SnapshotDeleted` under weak
fairness of the whole next-state relation: the host blocks only in
`send_payload`, and QEMU's timeout ends an execution whose target no longer
reads, so some step is always taken.  `corpus_exit` checks `CrashEnds` under weak
fairness of each thread: threads are pinned to cores of their own, hold the lock
for bounded sections only, and executions end.

## 5. Proofs

Every theorem below is for every value of the constants that its module's ASSUME
allows.  What a theorem needs beyond that is a hypothesis in its statement, named
here with its reason.  Each safety proof has the same shape: an inductive invariant
that `Init` establishes, one step per action that keeps it, and the property read off
it.

### SocketCacheProofs

* `TypeCorrect`: `Spec => []TypeOK`;
* `CounterCorrect`: `Spec => []ActiveCountExact`, `active_con_num` is the number of
  connections that are not disabled;
* `NeverIdleCorrect`: `Spec => []NeverIdle`, while the target runs a used table has
  an active connection: the close that disables the last one releases;
* `CacheMatchesCorrect`, `SelectCorrect`: `[]CacheMatchesKernel`, `[]SelectExact`, and
  `ReleaseCorrect`: the action property `ReleaseIsLast`, all under `OrdinaryDup`;
* `AssertsCorrect`: `[]OnlyFullAsserts` under `OrdinaryDup`: no assertion of the hooks
  fails but the one for room in a connection's list.

`SocketCacheAssumption` says that sizes fit a byte.  `OrdinaryDup` excludes the two
uses of `dup2` that the hooks do not handle, `dup2(fd, fd)` and `dup2` of another file
over a cached descriptor (section 6); the first three theorems do not need it.

The invariants are not inductive alone.  That the byte does not wrap needs that the
table is no longer than `MAX_CONNECTIONS` and that the counter equals the number of
enabled slots; that disabling decrements a positive number needs that the slot being
disabled was enabled.  `IInv` is `CountOK` (types of the table, its length, the count)
and `KernelOK` (types of the descriptors).  `CacheInv` adds, while the target runs,
that table and kernel agree: enabled slots have different ports and list no descriptor
twice (`Clean`), a listed descriptor is an open socket of the slot's connection
(`Serves`), an accepted connection is listed (`ServesAll`), names of one open file refer
to the same thing (`Names`), and nothing listens in a build for UDP (`OnlyUdp`).
`CacheMatchesKernel` is kept by a close only because of `Clean` (removing one
occurrence removes the descriptor), and by a `dup` only because of `Names`.
`OnlyFullAsserts` needs `WaitInv` besides: while the target runs, at most one connection
waits to be accepted, and the table has a slot without sockets for it (`Pending`), because
`listen` adds the slot in the step that connects and a close disables only slots
with sockets.

### ShadowMemoryProofs, FastReloadProofs, FastReloadRefinement

For any number of pages, any contents, rings, rates, disks, guests and backends:

* `DirtyPagesCorrect`: `Spec => []DirtyPagesKnown`;
* `DirtyBitsCorrect`: `Spec => []DirtyBitsBacked`;
* `RefinementCorrect`: `Spec => ImplementsRecorded`, the refinement of section 2;
* `TmpFlagsCorrect`: `Spec => []TmpFlagsAgree`;
* `FastReloadTypeCorrect`: `Spec => []TypeOK`, without hypotheses;
* `PersistentPagesCorrect`: the action property `PersistentPages`, without hypotheses;
* `CoverageCorrect`: `Spec => []CoverageOfPath`, without hypotheses;
* `DiskCoherentCorrect`: `Spec => []DiskCoherent`.

Hypotheses.  The first two theorems have none: whatever `malloc` returns and the
devices write, the pages of `Missed` are the only ones a restore can overlook, and the
properties name them.  `DiscardsReload`: the host asks for a discard only while it reloads;
the Rust fuzzer always reloads, and libnyx, which can turn reloads off, cannot discard.
`NoSnapshotIsNone`: `NoSnapshot` is no machine.  `AlignedDisk`: requests to the disk,
and the chunks of a snapshot folder, are whole and aligned chunks; a request of less is
not recorded, and one at another offset is looked up under another offset than it was
stored.  `DiskCoherentCorrect` needs `AlignedDisk` and `DiscardsReload`,
`RefinementCorrect` and `TmpFlagsCorrect` need `DiscardsReload` and `NoSnapshotIsNone`.

`Tracks(m, mode, lost)` says of a memory that the second copy equals the first outside
the tracked pages (`CopiesAgree`), that a page that differs from the current snapshot is
on the block list, among the pages of `lost` or, unless the backend compares all of
memory, in a log (`DifferenceIsKnown`), that set bits have their entries
(`BitsMatchStacks`) - without it a write could go unrecorded - and that the logs a
backend does not use are empty (`OtherLogsEmpty`).  Each operation keeps it, and a
restore makes memory equal to the snapshot outside the block list and `lost`
(`Restored`).  `MemoryInv` adds when there is a root snapshot: the FDL records nothing
before it, so a handler that restores must not run earlier.  `RefinementInv` adds that
disk, devices and flags agree on the snapshots there are, and that a discard comes with
reloads.  With it each handler is shown to be one action of `MachineSnapshot`:
`RestoreIsReload`, `CreateIsSave`, `DiscardKeepsRoot` say what the parts do together,
`ReadLayers` and its companions which layers of the disk a read depends on.

`TypeInv` is `TypeOK` with the shapes of the records and two facts that
`PersistentPages` rests on: no tracked page is on the block list, and before fuzzing
mode nothing is tracked and there is no temporary snapshot.  A discard copies tracked
pages, so without the first it could bring back old contents of a page that is to
persist.  `PathInv` is what `CoverageOfPath` lacks: between executions the trace is
decoded and the path is that of the snapshot the next execution starts from, and the
saved bitmap is the coverage of the temporary snapshot's path.  `DiskInv` says of
every sector what each set of layers answers: all of them what the guest last
wrote, all but the last what the temporary snapshot had, the primary ones what the root
snapshot had; and of a machine loaded from a folder that nothing was written until
fuzzing mode.  Its arithmetic is in `ChunkUnique` and `ChunkHolds`: under
`AlignedDisk` a sector belongs to one chunk, and a layer has that chunk or nothing of it.

### CorpusQueueProofs, CorpusQueueCoverage

For any number of threads, any target and any bounds of the minimizer:

* `CorpusTypeCorrect`: `[]TypeOK`; `MinimizerCorrect`: `[]MinimizerSound`;
  `ClaimsCorrect`: `[]ClaimedOnce`, all without hypotheses;
* `ExamplesCorrect`: `[]MinExample`, without hypotheses.  A bit and an ijon slot of the
  same index share one entry of the map of examples, as in the code, and an input that
  raises the slot replaces the bit's example whatever its length (section 6): so the
  property says that the example covers the bit or was stored for the slot, and that it
  is the shortest of the inputs found for the bit since then;
* `ReplayCorrect`, `CoverageCorrect`: `[]EntryReplays`, `[]CoverageKept` (from
  `ClaimsKeptCorrect` and `DiskCorrect`, one for each of its parts), if the target is
  `Deterministic`: an entry of another target need not do again what was recorded for
  it; `EntryReplays` allows the recorded `ops_used` to be that of the run or one more,
  the op of a temporary snapshot (the runs of a nondeterministic target do not check
  these);
* `FavouritesCorrect`: `[]FavCovers`, if there is one thread: two may store the results
  of `calc_fav_bits` in the other order than they computed them.

`Inv` has a part for the queue (ids, recorded bits), for the examples, for the bitmaps, for
the files and for what each thread holds at each program counter; the parts refer to
each other because a thread carries results over an unlock.  `ClaimInv`
is `ClaimedOnce` with what it needs of the bitmaps: a bit that a thread is about to add is
set in the global bitmap, so the locked section gives it to nobody else.  `ExampleInv` says
that every bit an input was stored for has an example, that the example was stored for
the bit or for the slot of the same index, and that it is no longer than any input
found for the bit since the slot was raised (`IjonAfter`).  `KeptInv`: a bit
claimed by a normal run is covered by an entry of the queue, or the thread that claimed
it is about to add one (or the empty input covers it: nothing is stored for that one).
`FavInv`: outside the two lock sections of `calc_fav_bits` the stored favourites are
those of the queue, and between them the thread holds those of the queue, which only it
can change.

### SnapshotFuzzProofs

For any packets, channels, bounds and placement of snapshots:

* `SnapshotTypeCorrect`, `PrefixCorrect`, `NothingSkippedCorrect`, `CorpusReplaysCorrect`,
  `RootCorrect`: `[]TypeOK`, `[]ConsumedIsPrefix`, `[]NothingSkipped`, `[]CorpusReplays`,
  `[]RootBetweenIterations`;
* `UsesSnapshotsCorrect`: `Spec => UsesSnapshots`, the loop obeys `MachineSnapshot`;
* `ChannelStreamCorrect`: `[]ChannelStream` (which is about stream channels);
* `NoPanicCorrect`: `[]NoPanic` if `Nondet = FALSE`, a target that runs the same way
  again; `snap_panic` shows that it is needed.

`Inv` is `TypeOK` and a part each for the payload, the host, the snapshot, the guest,
the temporary snapshot, the corpus, the candidate and the result.  `ConsumedIsPrefix`
alone says nothing of the saved machine that the next execution resumes, so `TmpOK` says
of it what `GuestOK` says of the running one: it took exactly the `skip` packets that no
mutation changes while the snapshot exists, its counter is one ahead for the snapshot
op, and it waits inside a read.  `SnapOK` says in which states of the host there is a
snapshot and which one the machine was reset to.  `DetInv` adds that a deterministic
target stops at the first fatal packet and only there, so that an input is used to its
end and a snapshot lies inside the entry it was taken for.  `StreamInv` is
`ChannelStream` for the running and for the saved machine, and that a read that waits
has an empty buffer.  Its lemma `FlattenAppend` is about a recursive function; it is
proved from a least counterexample, the form of induction the provers accept.

### GraphBuilderProofs

For any specification of nodes and values, any sizes of the payload, seed files and
bounds (`GraphBuilderAssumption`):

* `TypeCorrect`, `ValuesAgree`, `AvailableIsExact`, `LinksAreValid`, `PayloadHasRoom`:
  `[]TypeOK`, `[]ValuesConsistent`, `[]AvailableExact`, `[]LinksValid`, `[]PayloadFits`,
  without further hypotheses (`LinksValid` and half of `ValuesConsistent` except by
  themselves the specifications with values behind a snapshot);
* `PrefixStays`: `[](Supported => PrefixIsInput)`;
* `OnlyKnownPanics`: `[]NoPanic`: in a supported and sourced specification a panic is
  that of `node_iter` at a node that was cut short, in a specification that is not
  roomy, or follows from a snapshot behind what the guest executed (`Overrun`);
* `OnlyAggressivePanics`: if the specification is supported, and plain or roomy and
  sourced, the second is the only one, and the placement is aggressive.  With balanced
  placement and without snapshots such a specification never panics.

Hypotheses.  `Supported`: no values where snapshots are used (section 6).  `Plain`: no
values at all; so are the specifications of the targets, whose nodes are single ops with
data.  `Sourced`: some node type takes and borrows
nothing; otherwise `pick_available_type` fails for an empty graph and its caller
unwraps.  `Roomy`: for some `u` there is an op for every `u` units of data and every node
has at least `u` units for each of its ops.  The payload has half of its bytes for `u16`
ops and half for data (`graph_storage.rs:394-423`), so `u` is 2 there, and nodes with two
bytes of data for each of their ops are roomy.  It is needed with values: `can_append`
looks at the data only and `append_op` drops what does not fit, so nodes that have
operands but hardly any data (`inc` and `stop` of `test_spec.py`) can fill the ops first
(section 6).

The invariant `Inv` rests on three ideas.  First, the state belongs to the graph:
`Exact` says for every type, met or not, that the available ids are those the graph
offers and does not take, and that no id of the graph is above `cur`; without the second
part a new id could be one in use.  `IsValue` adds that index and vector are inverse to
each other in both directions, which `swap_remove` needs.  `LinkOutcome` follows a node
through the loop over its operands: `Outcome` says what holds after `j` of them, and
`Enough` that there are values for the rest, which is why `is_available`, asked once
before the loop, suffices.  It is proved from a least counterexample.  `OneMoreLinked`,
`OneMoreUntaken` and `CutLinked` are about graphs alone: what one operand more, or a
node cut short, does to the links.  Second, the room: `Laid` gives the offset of every
node in ops and in data, for the payload and for every graph of the queue.  A prefix is
shorter than the graph it is copied from, so the offsets of that graph show that there
is an op for the snapshot node, and that `can_append`, which is strict, admits every
node again: each was followed by another one.  Third, the snapshot: `Behind` says of the
prefix in the payload what the rest says of the whole, so that `truncate_to` and
`reset_to` find a good graph and its state, and `Grown` that nothing a mutation appends
touches it.

### Only model-checked

`SnapshotDeleted` and `CrashEnds` are liveness under fairness, out of the prover's
reach.  `PrefixIsInput` for specifications with values behind a snapshot holds in the
instances of `graph` only: it would need that copying a graph renames every id to itself.

## 6. Findings

* `socket_slots`: the limit of the table is tested on `active_con_num`, the index is
  `active_connections`, which never goes down: connections opened and closed again
  write behind `connections[]`.
* `snap_panic`: with aggressive placement and a nondeterministic target the snapshot
  may lie behind the nodes `ops_used` counts; `ops_used - skip_nodes` wraps and an
  assertion of the mutator fails.
* `reload_dma`: a device write that crosses a page boundary without being a page
  longer marks its first page only; the reload leaves the second as it is.

Seen while modelling, without a run of their own:

* `dup2(fd, fd)` on the only cached descriptor of a connection disables the
  connection and then fails `assert(port != -1)`; `dup2` of an uncached descriptor onto
  a cached one leaves the cache answering for another file (`Calls` with
  `"dup2self"`, `"dup2over"`).
* `reset_to` and `clear` keep `new_id_to_old_id`: behind a snapshot, a specification
  with values can take a value twice, which panics.  The properties of `graph`
  except that case (`Supported`); no specification fuzzed here has values.
* `splice` copies its fragment without asking `is_full`: with values, a payload out of
  ops cuts a node short, and keeping the graph panics in `node_iter`.  The setup `Tight` of
  `graph` reaches it, and `NoPanic` excepts it by name.  Nodes of one op cannot be cut.
* The user-space dirty log's bitmap is `malloc`ed and never cleared; at 512 MB of guest
  memory it has 16 KB, less than `malloc` takes a fresh mapping for.  A bit that happens
  to be set hides its page from the log: `Missed` has it, `ImplementsRecorded` excepts it.
* `select` adds the number of cached descriptors to the kernel's result: a cached
  descriptor that the kernel finds ready as well counts twice.
* A write to a chunk the last disk layer already holds aborts QEMU when that layer
  is full, though nothing would be allocated.
* Imported inputs are minimized, although `should_minimize` is meant to except them.
* With two threads `calc_fav_bits` may store an older result over a newer one; a
  slot of ijon shares the map of examples with the bit of the same index; a graph
  minimized to one that times out is on disk nowhere; the stepwise loop of the
  minimizer is without effect once something was updated (`updated||..`).
* After `exit_after_first_crash` the main program waits for its statistics thread for
  ever.

## 7. Not modelled

Primitive mutations and random choices (any data of a permitted length, any choice);
contents and names of files; custom dictionaries and Redqueen (they only steer random
choices); statistics; start-up of guest and host, configuration, packer, debug fuzzer
(sequential, run once); writing snapshot folders, the pre-image, the contents of device
sections and Intel PT decoding in QEMU (`pt_dump` always decodes; `pt.c:93-127` decodes
nothing more once the decoder met a page it does not know); the rest of the emulator
(vendored); the targets (external: any behaviour at the interface).  `sleep`, `write`,
`poll` and `select` do not change the cache; `select`'s count is the property
`SelectExact`.  A client build connects to an address of this machine; a target that
connects elsewhere is not modelled.  When `getsockopt` fails in `call_vm_can` the hook
releases, which is a case of the step `Stop` of `SnapshotFuzz`.  The handshake over the
auxiliary buffer cannot be modelled as one system from this commit: the runner expects
version 1 of the interface and starts `-device kafl`
(`fuzz_runner/src/nyx/params.rs:103`), the vendored QEMU speaks version 3 and has the
device `nyx`.  Each side is modelled for itself, with the flags of the temporary
snapshot they share.

## 8. Plan

Done: `SocketCache`, `SnapshotFuzz`, `CorpusQueue`, `GraphBuilder` with `ValueState`,
`FastReload` with its parts, `MachineSnapshot` and both refinements; the proofs of
section 5.  Left, in this order:

1. `SocketCache` extended by the epoll slot; the same cache with the steps of two
   target threads interleaved.
2. The loop of `send_payload` against an abstract machine (one request, one answer).
3. An abstract specification of the corpus (a set of discoveries, each stored once)
   implemented by `CorpusQueue`.
4. `PrefixIsInput` for specifications with values: that a graph built from nothing is
   copied to itself, id by id.
