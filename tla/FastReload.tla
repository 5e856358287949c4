----------------------------- MODULE FastReload -----------------------------
(***************************************************************************)
(* The side of QEMU-Nyx that runs the guest on snapshots: the hypercalls   *)
(* of the guest, what the host asks for in the auxiliary buffer, and the   *)
(* handlers that take, reload and discard snapshots of memory              *)
(* (ShadowMemory), disk (BlockCow) and devices.                            *)
(*                                                                         *)
(* A setup is a machine: its way of finding dirty pages and the writes     *)
(* its guest and its devices make.  The virtual CPU's thread runs every    *)
(* handler under the I/O thread's lock, after the devices have drained     *)
(* their requests, so a handler is one step.                               *)
(***************************************************************************)
EXTENDS ShadowMemory, BlockCow

CONSTANTS
    Setups,        \* [mode, pages, dma, io, devs, blocks, persist]
    Configs,       \* [reload_mode, discard] pairs the host writes
    Folders,       \* snapshot folders: [ram, primary, dev, blocklist]
    BootMemory,    \* memory,
    BootImage,     \* disk image and
    BootDevices,   \* devices at start
    RingSize,      \* entries of KVM's dirty ring
    NoSnapshot

ASSUME FastReloadAssumption ==
    /\ RingSize \in Nat \ {0}
    /\ \A c \in Configs : c.reload_mode \in BOOLEAN /\ c.discard \in BOOLEAN
    /\ BootMemory \in [Pages -> Values]
    /\ BootImage \in [Sectors -> DiskValues]
    /\ \A f \in Folders : /\ f.ram \in [Pages -> Values]
                          /\ f.primary \in Layers
                          /\ f.blocklist \subseteq Pages
    /\ \A s \in Setups : /\ s.mode \in Modes
                         /\ s.pages \subseteq Pages
                         /\ s.persist \subseteq Pages
                         /\ \A r \in s.io : /\ r.off \in Nat /\ r.len \in Nat
                                            /\ RequestSectors(r) \subseteq Sectors

VARIABLES
    setup,
    vm,                     \* memory, disk, devices and the flags of fast_reload_t
    discard_tmp_snapshot,
    tmp_snapshot_created,   \* as reported in the auxiliary buffer
    in_reload_mode,
    in_fuzzing_mode,
    in_fuzzing_loop,
    cov,                    \* coverage bitmap, its copy, undecoded trace
    phase,                  \* "boot", "ready" (reloaded), "run" or "aborted"
    ideal                   \* history: the disk and the path, now and in snapshots

vars == <<setup, vm, discard_tmp_snapshot, tmp_snapshot_created, in_reload_mode,
          in_fuzzing_mode, in_fuzzing_loop, cov, phase, ideal>>

flags == <<discard_tmp_snapshot, tmp_snapshot_created, in_reload_mode, in_fuzzing_mode,
           in_fuzzing_loop>>

----------------------------------------------------------------------------
(***************************************************************************)
(* Snapshots of the whole machine, on vm.                                  *)
(***************************************************************************)

\* fdl_fast_reload: the registered device fields are copied back.
fdl_fast_reload(d) == [d EXCEPT !.live = IF d.tmp_enabled THEN d.tmp ELSE d.copy]

\* fdl_fast_create_tmp, fdl_fast_enable_tmp.
nyx_device_state_switch_incremental(d) == [d EXCEPT !.tmp = d.live, !.tmp_enabled = TRUE]

nyx_device_state_disable_incremental(d) == [d EXCEPT !.tmp_enabled = FALSE]

\* Mutant: the devices keep their state.
RestoreNoDevices(x, mode) ==
    [x EXCEPT !.disk = cow_cache_reset(@),
              !.ram  = fast_snapshot_restore_operation(@, mode)]

fast_reload_restore(x, mode) ==
    [x EXCEPT !.disk = cow_cache_reset(@),
              !.dev  = fdl_fast_reload(@),
              !.ram  = fast_snapshot_restore_operation(@, mode)]

\* fast_snapshot_init_operation without a folder.
fast_reload_create_in_memory(x, garbage) ==
    [x EXCEPT !.dev.copy = x.dev.live,
              !.ram  = shadow_memory_init(@, garbage),
              !.disk = switch_to_fuzz_mode(@),
              !.root_snapshot_created = TRUE]

\* fast_snapshot_init_operation with the folder another process has written.
fast_reload_create_from_file(x, f, garbage) ==
    [x EXCEPT !.dev.live = f.dev, !.dev.copy = f.dev,
              !.ram  = shadow_memory_init([@ EXCEPT !.host = f.ram, !.blocklist = f.blocklist],
                                          garbage),
              !.disk = read_primary_buffer(@, f.primary),
              !.root_snapshot_created = TRUE]

fast_reload_create_tmp_snapshot(x, mode) ==
    [x EXCEPT !.dev  = nyx_device_state_switch_incremental(@),
              !.disk = cow_cache_enable_tmp_mode(@),
              !.ram  = fast_snapshot_create_incremental_operation(@, mode),
              !.incremental_snapshot_enabled = TRUE]

\* Mutant: the devices go on with the temporary snapshot.
DiscardNoDevices(x, mode) ==
    [x EXCEPT !.ram  = discard_incremental(@, mode),
              !.disk = cow_cache_disable_tmp_mode(@),
              !.incremental_snapshot_enabled = FALSE]

fast_reload_discard_tmp_snapshot(x, mode) ==
    [x EXCEPT !.ram  = discard_incremental(@, mode),
              !.dev  = nyx_device_state_disable_incremental(@),
              !.disk = cow_cache_disable_tmp_mode(@),
              !.incremental_snapshot_enabled = FALSE]

----------------------------------------------------------------------------
NewMachine ==
    [ram  |-> [host |-> BootMemory, snapshot |-> BootMemory, incremental |-> BootMemory,
               incremental_enabled |-> FALSE, tracked |-> {}, blocklist |-> {}, count |-> 0,
               ring |-> {}, bitmap |-> {}, stack |-> {}, user_bitmap |-> {}, user_stack |-> {}],
     disk |-> cow_cache_new(BootImage),
     dev  |-> [live |-> BootDevices, copy |-> BootDevices, tmp |-> BootDevices,
               tmp_enabled |-> FALSE],
     root_snapshot_created |-> FALSE, incremental_snapshot_enabled |-> FALSE]

\* QEMU boots the guest, or (load=on) waits for a snapshot folder another
\* process has written and starts at the guest's first request for a payload.
Start(x) ==
    \/ x = NewMachine
    \/ \E f \in Folders, garbage \in SUBSET HeapBits :
          x = fast_reload_create_from_file(NewMachine, f, garbage)

Init ==
    /\ setup \in Setups
    /\ Start(vm)
    /\ discard_tmp_snapshot = FALSE /\ tmp_snapshot_created = FALSE
    /\ in_reload_mode = FALSE /\ in_fuzzing_mode = FALSE /\ in_fuzzing_loop = FALSE
    /\ cov = [bitmap |-> {}, copy |-> {}, pending |-> {}]
    /\ phase = "boot"
    /\ LET at == [disk |-> DiskContents(vm.disk.base, vm.disk.primary), path |-> {}]
       IN  ideal = [now |-> at, root |-> at, tmp |-> at]

\* The guest runs while it boots and while it fuzzes.
Running == phase \in {"boot", "ready", "run"} /\ vm.root_snapshot_created = in_fuzzing_mode

GoesOn == phase' = IF phase = "boot" THEN "boot" ELSE "run"

GuestWrite(p, v) ==
    /\ Running
    /\ v # vm.ram.host[p]
    /\ setup.mode = "DIRTY_RING" => Cardinality(vm.ram.ring \cup {p}) <= RingSize
    /\ vm' = [vm EXCEPT !.ram = kvm_write(@, setup.mode, vm.root_snapshot_created, p, v)]
    /\ GoesOn
    /\ UNCHANGED <<setup, flags, cov, ideal>>

\* KVM_EXIT_DIRTY_RING_FULL.
handle_dirty_ring_full ==
    /\ Running /\ setup.mode = "DIRTY_RING"
    /\ Cardinality(vm.ram.ring) = RingSize
    /\ vm' = [vm EXCEPT !.ram = IF vm.root_snapshot_created
                                THEN dirty_ring_flush_and_collect(@)
                                ELSE dirty_ring_flush(@)]
    /\ UNCHANGED <<setup, flags, cov, phase, ideal>>

\* A device of QEMU writes to the guest's memory.
DeviceWrite(w, v) ==
    /\ Running
    /\ vm' = [vm EXCEPT !.ram = device_write(@, vm.root_snapshot_created, w, v)]
    /\ GoesOn
    /\ UNCHANGED <<setup, flags, cov, ideal>>

DeviceStep(s) ==
    /\ Running
    /\ vm' = [vm EXCEPT !.dev.live = s]
    /\ GoesOn
    /\ UNCHANGED <<setup, flags, cov, ideal>>

\* cow_cache_write_entry.
DiskWrite(r, v) ==
    /\ Running
    /\ IF cow_cache_aborts(vm.disk, r)
       THEN phase' = "aborted" /\ UNCHANGED <<vm, ideal>>
       ELSE /\ vm' = [vm EXCEPT !.disk = cow_cache_write(@, r, v)]
            /\ ideal' = [ideal EXCEPT !.now.disk =
                            [s \in Sectors |-> IF s \in RequestSectors(r) THEN v ELSE @[s]]]
            /\ GoesOn
    /\ UNCHANGED <<setup, flags, cov>>

\* KVM_EXIT_KAFL_PERSIST_PAGE_PAST_SNAPSHOT, and the pages of the payload.
fast_reload_blacklist_page(p) ==
    /\ Running /\ phase = "boot"
    /\ IF p \in vm.ram.blocklist
       THEN phase' = "aborted" /\ UNCHANGED vm
       ELSE vm' = [vm EXCEPT !.ram.blocklist = @ \cup {p}] /\ UNCHANGED phase
    /\ UNCHANGED <<setup, flags, cov, ideal>>

----------------------------------------------------------------------------
(***************************************************************************)
(* Coverage.  Intel PT traces the guest between pt_enable and pt_disable;  *)
(* the trace is decoded when its buffer is full and at pt_disable.         *)
(***************************************************************************)

Cover(b) ==
    /\ Running /\ in_fuzzing_loop
    /\ cov' = [cov EXCEPT !.pending = @ \cup {b}]
    /\ ideal' = [ideal EXCEPT !.now.path = @ \cup {b}]
    /\ UNCHANGED <<setup, vm, flags, phase>>

\* The trace is decoded. (A decoder that meets a page it does not know, after
\* which the rest of the execution is not decoded, is not modelled.)
pt_dump(c) == [c EXCEPT !.bitmap = @ \cup c.pending, !.pending = {}]

\* KVM_EXIT_KAFL_TOPA_MAIN_FULL.
pt_handle_overflow ==
    /\ Running /\ cov.pending # {}
    /\ cov' = pt_dump(cov)
    /\ UNCHANGED <<setup, vm, flags, phase, ideal>>

\* pt_enable with fast_reload_set_bitmap.
pt_enable(c, tmp) == [c EXCEPT !.bitmap = IF tmp THEN c.copy ELSE {}]

----------------------------------------------------------------------------
(***************************************************************************)
(* Requests for snapshots and ends of executions.                          *)
(***************************************************************************)

\* What a handler leaves in the history: the state the machine should be in.
Reloads(x) == ideal' = [ideal EXCEPT !.now = IF x.incremental_snapshot_enabled THEN ideal.tmp
                                                                              ELSE ideal.root]

\* The first NEXT_PAYLOAD: REQUEST_SAVE_SNAPSHOT_ROOT_FIX_RIP, with the folder
\* already loaded or not, then REQUEST_LOAD_SNAPSHOT_ROOT.
SetupSnapshotOnce(garbage) ==
    /\ phase = "boot" /\ ~ in_fuzzing_mode /\ garbage \subseteq HeapBits
    /\ LET saved == IF vm.root_snapshot_created THEN vm
                    ELSE fast_reload_create_in_memory(vm, garbage)
       IN  vm' = fast_reload_restore(fast_reload_restore(saved, setup.mode), setup.mode)
    /\ cov' = [cov EXCEPT !.bitmap = {}]
    /\ in_fuzzing_mode' = TRUE
    /\ phase' = "ready"
    /\ ideal' = [ideal EXCEPT !.root = ideal.now]
    /\ UNCHANGED <<setup, discard_tmp_snapshot, tmp_snapshot_created, in_reload_mode,
                   in_fuzzing_loop>>

\* The host fills in the payload while the guest waits.
PayloadWrite(p, v) ==
    /\ phase = "ready" /\ p \in vm.ram.blocklist
    /\ vm' = [vm EXCEPT !.ram.host[p] = v]
    /\ UNCHANGED <<setup, flags, cov, phase, ideal>>

\* USER_FAST_ACQUIRE: synchronization_lock in NEXT_PAYLOAD, after which the
\* configuration is read if the host changed it, then ACQUIRE.
FastAcquire ==
    /\ Running /\ in_fuzzing_mode /\ ~ in_fuzzing_loop
    /\ \/ \E c \in Configs : /\ in_reload_mode' = c.reload_mode
                             /\ discard_tmp_snapshot' = c.discard
       \/ UNCHANGED <<in_reload_mode, discard_tmp_snapshot>>
    /\ cov' = pt_enable(cov, vm.incremental_snapshot_enabled)
    /\ in_fuzzing_loop' = TRUE
    /\ phase' = "run"
    /\ UNCHANGED <<setup, vm, tmp_snapshot_created, in_fuzzing_mode, ideal>>

handle_tmp_snapshot_state(x) ==
    IF discard_tmp_snapshot /\ x.incremental_snapshot_enabled
    THEN fast_reload_discard_tmp_snapshot(x, setup.mode)
    ELSE x

\* The flags at the end of an execution; created is TRUE behind a creation.
Ends(created) ==
    /\ discard_tmp_snapshot' = FALSE
    /\ tmp_snapshot_created' = (~ discard_tmp_snapshot /\ (created \/ tmp_snapshot_created))
    /\ in_fuzzing_loop' = FALSE
    /\ UNCHANGED <<in_reload_mode, in_fuzzing_mode>>

\* RELEASE: synchronization_disable_pt.
Release ==
    /\ Running /\ in_fuzzing_loop
    /\ cov' = pt_dump(cov)
    /\ LET x == handle_tmp_snapshot_state(vm)
       IN  IF in_reload_mode \/ x.incremental_snapshot_enabled
           THEN /\ vm' = fast_reload_restore(x, setup.mode)
                /\ phase' = "ready"
                /\ Reloads(x)
           ELSE /\ vm' = x
                /\ ideal' = [ideal EXCEPT !.now.path = {}]
                /\ UNCHANGED phase
    /\ Ends(FALSE)
    /\ UNCHANGED setup

\* Mutant: the bitmap is copied before the trace is decoded.
CopyUndecoded(c) == [pt_dump(c) EXCEPT !.copy = c.bitmap]

\* pt_disable, then coverage_bitmap_copy_to_buffer.
CopyBitmap(c) == [pt_dump(c) EXCEPT !.copy = c.bitmap \cup c.pending]

\* CREATE_TMP_SNAPSHOT; ignored when there is one.
CreateTmpSnapshot ==
    /\ Running /\ in_fuzzing_loop /\ ~ vm.incremental_snapshot_enabled
    /\ cov' = CopyBitmap(cov)
    /\ LET saved == fast_reload_restore(fast_reload_create_tmp_snapshot(vm, setup.mode),
                                        setup.mode)
           x == handle_tmp_snapshot_state(saved)
       IN  /\ vm' = IF in_reload_mode \/ x.incremental_snapshot_enabled
                    THEN fast_reload_restore(x, setup.mode) ELSE x
           /\ ideal' = [ideal EXCEPT !.tmp = ideal.now,
                                     !.now = IF x.incremental_snapshot_enabled
                                             THEN ideal.now ELSE ideal.root]
    /\ phase' = "ready"
    /\ Ends(TRUE)
    /\ UNCHANGED setup

\* A crash, a sanitizer report, a timeout, a shutdown of the guest or a write
\* to a protected payload: synchronization_lock_crash_found and the others.
EndExec ==
    /\ Running /\ in_fuzzing_mode
    /\ cov' = pt_dump(cov)
    /\ LET x == handle_tmp_snapshot_state(vm)
       IN  vm' = fast_reload_restore(x, setup.mode) /\ Reloads(x)
    /\ phase' = "ready"
    /\ Ends(FALSE)
    /\ UNCHANGED setup

----------------------------------------------------------------------------
Next ==
    \/ \E p \in setup.pages, v \in Values : GuestWrite(p, v)
    \/ handle_dirty_ring_full
    \/ \E w \in setup.dma, v \in Values : DeviceWrite(w, v)
    \/ \E s \in setup.devs : DeviceStep(s)
    \/ \E r \in setup.io, v \in DiskValues : DiskWrite(r, v)
    \/ \E p \in setup.persist : fast_reload_blacklist_page(p)
    \/ \E b \in setup.blocks : Cover(b)
    \/ pt_handle_overflow
    \/ \E garbage \in SUBSET HeapBits : SetupSnapshotOnce(garbage)
    \/ \E p \in Pages, v \in Values : PayloadWrite(p, v)
    \/ FastAcquire
    \/ Release
    \/ CreateTmpSnapshot
    \/ EndExec

Spec == Init /\ [][Next]_vars

----------------------------------------------------------------------------
(***************************************************************************)
(* Properties.                                                             *)
(***************************************************************************)

TypeOK ==
    /\ setup \in Setups
    /\ vm.ram \in Memory
    /\ vm.disk \in CowCache
    /\ vm.root_snapshot_created \in BOOLEAN /\ vm.incremental_snapshot_enabled \in BOOLEAN
    /\ vm.dev.tmp_enabled \in BOOLEAN
    /\ discard_tmp_snapshot \in BOOLEAN /\ tmp_snapshot_created \in BOOLEAN
    /\ in_reload_mode \in BOOLEAN /\ in_fuzzing_mode \in BOOLEAN /\ in_fuzzing_loop \in BOOLEAN
    /\ cov.bitmap \cup cov.copy \cup cov.pending \subseteq setup.blocks
    /\ phase \in {"boot", "ready", "run", "aborted"}

\* Restoring only dirty pages is enough: whenever a handler may run, a page
\* that differs from the snapshot is on a list the restore goes through, unless
\* a device can change it unseen, and the copy a temporary snapshot is kept in
\* equals the root snapshot outside the tracked pages.
DirtyPagesKnown ==
    vm.root_snapshot_created =>
        /\ CopiesAgree(vm.ram)
        /\ DifferenceIsKnown(vm.ram, setup.mode, Missed(setup.dma))

\* No page is lost to the dirty logs: a bit that is set stands for an entry
\* of the stack, except for pages on the block list, which restores skip
\* without clearing their bits, and for bits malloc returned set.
DirtyBitsBacked == vm.root_snapshot_created => BitsMatchStacks(vm.ram)

\* Memory, devices, disk, fast_reload_t and the flag the host sees agree on
\* whether there is a temporary snapshot, whatever creates or discards it.
TmpFlagsAgree ==
    /\ vm.ram.incremental_enabled = vm.incremental_snapshot_enabled
    /\ vm.dev.tmp_enabled = vm.incremental_snapshot_enabled
    /\ vm.disk.enabled_fuzz_tmp = vm.incremental_snapshot_enabled
    /\ tmp_snapshot_created = vm.incremental_snapshot_enabled

\* Through all layers and snapshots the guest reads from its disk what it
\* last wrote on the path that leads to this state.
DiskCoherent ==
    \A r \in setup.io :
        cow_cache_read(vm.disk, r) = [s \in RequestSectors(r) |-> ideal.now.disk[s]]

\* The coverage of an execution is that of its whole path from the root
\* snapshot on, the prefix behind a temporary snapshot included, and of
\* nothing that an earlier execution did.
CoverageOfPath == in_fuzzing_loop => cov.bitmap \cup cov.pending = ideal.now.path

\* Pages on the block list pass through every snapshot operation unchanged.
PersistentPages ==
    [][phase # "ready" /\ phase' = "ready"
           => \A p \in vm.ram.blocklist : vm'.ram.host[p] = vm.ram.host[p]]_vars

----------------------------------------------------------------------------
(***************************************************************************)
(* The machine and its snapshots as MachineSnapshot sees them: the memory  *)
(* outside the block list, what the disk answers, the devices.             *)
(***************************************************************************)

Machine(pages, ram, disk, dev) ==
    [ram  |-> [p \in pages |-> ram[p]],
     disk |-> [r \in setup.io |-> cow_cache_read(disk, r)],
     dev  |-> dev]

LiveMachine(pages) == Machine(pages, vm.ram.host, vm.disk, vm.dev.live)

RootMachine(pages) ==
    IF vm.root_snapshot_created
    THEN Machine(pages, vm.ram.snapshot, [vm.disk EXCEPT !.enabled_fuzz = FALSE], vm.dev.copy)
    ELSE NoSnapshot

TmpMachine(pages) ==
    IF vm.incremental_snapshot_enabled
    THEN Machine(pages, vm.ram.incremental, [vm.disk EXCEPT !.enabled_fuzz_tmp = FALSE],
                 vm.dev.tmp)
    ELSE NoSnapshot

Kept == Pages \ vm.ram.blocklist

Snapshots == INSTANCE MachineSnapshot WITH
    machine <- LiveMachine(Kept), root <- RootMachine(Kept), tmp <- TmpMachine(Kept),
    discard <- discard_tmp_snapshot

\* Every reload brings the whole machine back to the snapshot it is to be in,
\* and nothing but the handlers that take or discard a snapshot changes one:
\* dirty-page restore, copy-on-write layers and device copies implement
\* snapshots of the machine.
ImplementsSnapshots == Snapshots!Spec

Recorded == Kept \ Missed(setup.dma)

RecordedSnapshots == INSTANCE MachineSnapshot WITH
    machine <- LiveMachine(Recorded), root <- RootMachine(Recorded),
    tmp <- TmpMachine(Recorded), discard <- discard_tmp_snapshot

\* The same of the machine without the pages a device can change unseen: they
\* are all a reload may leave behind, and what they hold reaches nothing else.
ImplementsRecorded == RecordedSnapshots!Spec

=============================================================================
