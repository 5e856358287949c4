-------------------------- MODULE FastReloadProofs --------------------------
(***************************************************************************)
(* For any number of pages, any contents, any guest and any way of finding *)
(* dirty pages: every page that differs from the snapshot the machine goes *)
(* back to is known to the dirty logs, except for those that devices can   *)
(* change unseen (Missed).  ShadowMemoryProofs shows what each             *)
(* operation on the memory keeps; here the handlers are shown to use them  *)
(* in states in which they do.  Then, under no assumption: types, pages on *)
(* the block list, and the coverage of an execution.                       *)
(***************************************************************************)
EXTENDS FastReload, ShadowMemoryProofs

\* x has the fields of a machine.
IsMachine(x) ==
    x \in [ram : {x.ram}, disk : {x.disk}, dev : {x.dev},
           root_snapshot_created : {x.root_snapshot_created},
           incremental_snapshot_enabled : {x.incremental_snapshot_enabled}]

\* d has the fields of the devices' state.
IsDev(d) ==
    /\ d \in [live : {d.live}, copy : {d.copy}, tmp : {d.tmp}, tmp_enabled : {d.tmp_enabled}]
    /\ d.tmp_enabled \in BOOLEAN

\* A machine with a root snapshot whose dirty logs are complete.
Sound(x, s) ==
    /\ IsMachine(x)
    /\ x.root_snapshot_created = TRUE
    /\ x.incremental_snapshot_enabled \in BOOLEAN
    /\ x.ram.incremental_enabled = x.incremental_snapshot_enabled
    /\ Tracks(x.ram, s.mode, Missed(s.dma))

\* A machine without.
Booting(x) ==
    /\ IsMachine(x)
    /\ x.root_snapshot_created = FALSE
    /\ x.incremental_snapshot_enabled = FALSE
    /\ x.ram \in Memory
    /\ x.ram.incremental_enabled = FALSE

\* The inductive invariant.
MemoryInv ==
    /\ setup \in Setups
    /\ Sound(vm, setup) \/ Booting(vm)
    /\ in_fuzzing_mode \in BOOLEAN
    /\ in_fuzzing_mode => Sound(vm, setup) /\ phase # "boot"
    /\ in_fuzzing_loop => in_fuzzing_mode

----------------------------------------------------------------------------
\* The ways of finding dirty pages are the three of the backends.
LEMMA ModeKnown == ASSUME setup \in Setups PROVE setup.mode \in Modes
  BY FastReloadAssumption

\* A machine whose memory alone changes.
LEMMA MemoryReplaced ==
    ASSUME NEW x, NEW s, Sound(x, s), NEW m, Tracks(m, s.mode, Missed(s.dma)),
           m.incremental_enabled = x.ram.incremental_enabled
    PROVE  Sound([x EXCEPT !.ram = m], s)
  BY DEF Sound, IsMachine

\* The same while the machine boots.
LEMMA BootMemoryReplaced ==
    ASSUME NEW x, Booting(x), NEW m \in Memory, m.incremental_enabled = FALSE
    PROVE  Booting([x EXCEPT !.ram = m])
  BY DEF Booting, IsMachine

\* A step that does not touch the memory.
LEMMA MemoryKept ==
    ASSUME NEW x, NEW s, NEW y, IsMachine(y), y.ram = x.ram,
           y.root_snapshot_created = x.root_snapshot_created,
           y.incremental_snapshot_enabled = x.incremental_snapshot_enabled
    PROVE  /\ Sound(x, s) => Sound(y, s)
           /\ Booting(x) => Booting(y)
  BY DEF Sound, Booting

\* A reload leaves the logs complete.
LEMMA RestoreSound ==
    ASSUME NEW x, NEW s, s.mode \in Modes, Sound(x, s)
    PROVE  Sound(fast_reload_restore(x, s.mode), s)
  <1> DEFINE r == fast_reload_restore(x, s.mode)
  <1>1. /\ IsMachine(r)
        /\ r.ram = fast_snapshot_restore_operation(x.ram, s.mode)
        /\ r.root_snapshot_created = x.root_snapshot_created
        /\ r.incremental_snapshot_enabled = x.incremental_snapshot_enabled
    BY DEF Sound, IsMachine, fast_reload_restore
  <1>2. /\ Tracks(fast_snapshot_restore_operation(x.ram, s.mode), s.mode, Missed(s.dma))
        /\ fast_snapshot_restore_operation(x.ram, s.mode).incremental_enabled
             = x.ram.incremental_enabled
    BY RestoreRestores DEF Sound
  <1> HIDE DEF r
  <1>3. Sound(r, s)
    BY <1>1, <1>2 DEF Sound
  <1> QED BY <1>3 DEF r

\* So does taking a temporary snapshot.
LEMMA CreateSound ==
    ASSUME NEW x, NEW s, s.mode \in Modes, Sound(x, s), ~ x.incremental_snapshot_enabled
    PROVE  Sound(fast_reload_create_tmp_snapshot(x, s.mode), s)
  <1> DEFINE r == fast_reload_create_tmp_snapshot(x, s.mode)
             m == fast_snapshot_create_incremental_operation(x.ram, s.mode)
  <1>1. /\ IsMachine(r)
        /\ r.ram = m
        /\ r.root_snapshot_created = x.root_snapshot_created
        /\ r.incremental_snapshot_enabled = TRUE
    BY DEF Sound, IsMachine, fast_reload_create_tmp_snapshot
  <1>2. x.ram.incremental_enabled = FALSE
    BY DEF Sound
  <1>3. Tracks(m, s.mode, Missed(s.dma)) /\ m.incremental_enabled = TRUE
    BY <1>2, CreateTracks DEF Sound
  <1> HIDE DEF r, m
  <1>4. Sound(r, s)
    BY <1>1, <1>3 DEF Sound
  <1> QED BY <1>4 DEF r

\* So does discarding it.
LEMMA DiscardSound ==
    ASSUME NEW x, NEW s, s.mode \in Modes, Sound(x, s)
    PROVE  Sound(fast_reload_discard_tmp_snapshot(x, s.mode), s)
  <1> DEFINE r == fast_reload_discard_tmp_snapshot(x, s.mode)
             m == discard_incremental(x.ram, s.mode)
  <1>1. /\ IsMachine(r)
        /\ r.ram = m
        /\ r.root_snapshot_created = x.root_snapshot_created
        /\ r.incremental_snapshot_enabled = FALSE
    BY DEF Sound, IsMachine, fast_reload_discard_tmp_snapshot
  <1>2. Tracks(m, s.mode, Missed(s.dma)) /\ m.incremental_enabled = FALSE
    BY DiscardTracks DEF Sound
  <1> HIDE DEF r, m
  <1>3. Sound(r, s)
    BY <1>1, <1>2 DEF Sound
  <1> QED BY <1>3 DEF r

\* So does what the end of an execution does with it.
LEMMA HandleTmpSound ==
    ASSUME NEW x, setup \in Setups, Sound(x, setup)
    PROVE  Sound(handle_tmp_snapshot_state(x), setup)
  BY ModeKnown, DiscardSound DEF handle_tmp_snapshot_state

\* The root snapshot starts with complete logs.
LEMMA CreateRootSound ==
    ASSUME NEW x, NEW s, s.mode \in Modes, Booting(x), NEW garbage \in SUBSET HeapBits
    PROVE  Sound(fast_reload_create_in_memory(x, garbage), s)
  <1> DEFINE r == fast_reload_create_in_memory(x, garbage)
             m == shadow_memory_init(x.ram, garbage)
  <1>1. /\ IsMachine(r)
        /\ r.ram = m
        /\ r.root_snapshot_created = TRUE
        /\ r.incremental_snapshot_enabled = FALSE
    BY DEF Booting, IsMachine, fast_reload_create_in_memory
  <1>2. Tracks(m, s.mode, Missed(s.dma))
    BY InitTracks DEF Booting
  <1>3. m.incremental_enabled = FALSE
    BY DEF Booting, Memory, shadow_memory_init
  <1> HIDE DEF r, m
  <1>4. Sound(r, s)
    BY <1>1, <1>2, <1>3 DEF Sound
  <1> QED BY <1>4 DEF r

----------------------------------------------------------------------------
\* The machine boots with memory of its type, or has loaded a root snapshot.
LEMMA MemoryInit ==
    ASSUME Init
    PROVE  MemoryInv
  <1>1. setup \in Setups /\ setup.mode \in Modes
    BY ModeKnown DEF Init
  <1>2. NewMachine.ram \in Memory
    BY FastReloadAssumption, ShadowMemoryAssumption DEF NewMachine, Memory
  <1>3. Booting(NewMachine)
    BY <1>2 DEF Booting, IsMachine, NewMachine
  <1>4. ASSUME NEW f \in Folders, NEW garbage \in SUBSET HeapBits
        PROVE  Sound(fast_reload_create_from_file(NewMachine, f, garbage), setup)
    <2> DEFINE h == [NewMachine.ram EXCEPT !.host = f.ram, !.blocklist = f.blocklist]
               m == shadow_memory_init(h, garbage)
               r == fast_reload_create_from_file(NewMachine, f, garbage)
    <2>1. h \in Memory
      BY <1>2, FastReloadAssumption DEF Memory
    <2>2. IsMachine(NewMachine) /\ NewMachine.incremental_snapshot_enabled = FALSE
      BY <1>3 DEF Booting
    <2>3. /\ IsMachine(r)
          /\ r.ram = m
          /\ r.root_snapshot_created = TRUE
          /\ r.incremental_snapshot_enabled = FALSE
      BY <2>2 DEF IsMachine, fast_reload_create_from_file
    <2>4. Tracks(m, setup.mode, Missed(setup.dma))
      BY <1>1, <2>1, InitTracks
    <2>5. m.incremental_enabled = FALSE
      BY <2>1 DEF Memory, shadow_memory_init
    <2> HIDE DEF r, m, h
    <2>6. Sound(r, setup)
      BY <2>3, <2>4, <2>5 DEF Sound
    <2> QED BY <2>6 DEF r
  <1>5. Sound(vm, setup) \/ Booting(vm)
    BY <1>3, <1>4 DEF Init, Start
  <1> QED BY <1>1, <1>5 DEF Init, MemoryInv

----------------------------------------------------------------------------
\* Writes to the memory: a running machine is booting, or its logs record them.
LEMMA GuestWriteKeeps ==
    ASSUME MemoryInv, NEW p \in setup.pages, NEW v \in Values, GuestWrite(p, v)
    PROVE  MemoryInv'
  <1> USE DEF MemoryInv
  <1>1. setup.mode \in Modes /\ p \in Pages
    BY FastReloadAssumption
  <1> DEFINE m == kvm_write(vm.ram, setup.mode, vm.root_snapshot_created, p, v)
  <1>2. vm' = [vm EXCEPT !.ram = m] /\ setup' = setup /\ UNCHANGED flags
    BY DEF GuestWrite
  <1>3. ASSUME Sound(vm, setup) PROVE Sound(vm', setup)
    <2>1. /\ Tracks(vm.ram, setup.mode, Missed(setup.dma))
          /\ vm.root_snapshot_created = TRUE /\ vm.ram \in Memory
      BY <1>3 DEF Sound, Tracks
    <2>2. Tracks(m, setup.mode, Missed(setup.dma))
      BY <1>1, <2>1, KvmWriteTracks
    <2>3. m.incremental_enabled = vm.ram.incremental_enabled
      BY <1>1, <2>1 DEF kvm_write, Memory
    <2> QED BY <1>2, <1>3, <2>2, <2>3, MemoryReplaced
  <1>4. ASSUME Booting(vm) PROVE Booting(vm')
    <2>1. vm.ram \in Memory /\ vm.ram.incremental_enabled = FALSE
          /\ vm.root_snapshot_created = FALSE
      BY <1>4 DEF Booting
    <2>2. m \in Memory /\ m.incremental_enabled = FALSE
      BY <1>1, <2>1 DEF kvm_write, Memory
    <2> QED BY <1>2, <1>4, <2>2, BootMemoryReplaced
  <1>5. phase # "boot" => phase' # "boot"
    BY DEF GuestWrite, GoesOn
  <1> QED BY <1>2, <1>3, <1>4, <1>5 DEF flags

\* A device write: what it may change unseen is excepted.
LEMMA DeviceWriteKeeps ==
    ASSUME MemoryInv, NEW w \in setup.dma, NEW v \in Values,
           DeviceWrite(w, v)
    PROVE  MemoryInv'
  <1> USE DEF MemoryInv
  <1>1. /\ setup.mode \in Modes
        /\ WrittenPages(w) \ (MarkedPages(w) \ HeapBits) \subseteq Missed(setup.dma)
    BY FastReloadAssumption DEF Missed
  <1> DEFINE m == device_write(vm.ram, vm.root_snapshot_created, w, v)
  <1>2. vm' = [vm EXCEPT !.ram = m] /\ setup' = setup /\ UNCHANGED flags
    BY DEF DeviceWrite
  <1>3. ASSUME Sound(vm, setup) PROVE Sound(vm', setup)
    <2>1. /\ Tracks(vm.ram, setup.mode, Missed(setup.dma))
          /\ vm.root_snapshot_created = TRUE /\ vm.ram \in Memory
      BY <1>3 DEF Sound, Tracks
    <2>2. Tracks(m, setup.mode, Missed(setup.dma))
      BY <1>1, <2>1, DeviceWriteTracks
    <2>3. m.incremental_enabled = vm.ram.incremental_enabled
      BY <2>1 DEF device_write, nyx_fdl_user_set, Memory
    <2> QED BY <1>2, <1>3, <2>2, <2>3, MemoryReplaced
  <1>4. ASSUME Booting(vm) PROVE Booting(vm')
    <2>1. vm.ram \in Memory /\ vm.ram.incremental_enabled = FALSE
          /\ vm.root_snapshot_created = FALSE
      BY <1>4 DEF Booting
    <2>2. Copied(vm.ram.host, WrittenPages(w), [p \in Pages |-> v]) \in [Pages -> Values]
      BY <2>1 DEF Memory, Copied
    <2>3. m \in Memory /\ m.incremental_enabled = FALSE
      BY <2>1, <2>2 DEF device_write, Memory
    <2> QED BY <1>2, <1>4, <2>3, BootMemoryReplaced
  <1>5. phase # "boot" => phase' # "boot"
    BY DEF DeviceWrite, GoesOn
  <1> QED BY <1>2, <1>3, <1>4, <1>5 DEF flags

\* The entries of a full ring go to the stack.
LEMMA RingFullKeeps ==
    ASSUME MemoryInv, handle_dirty_ring_full
    PROVE  MemoryInv'
  <1> USE DEF MemoryInv
  <1> DEFINE m == IF vm.root_snapshot_created THEN dirty_ring_flush_and_collect(vm.ram)
                  ELSE dirty_ring_flush(vm.ram)
  <1>1. setup.mode = "DIRTY_RING"
    BY DEF handle_dirty_ring_full
  <1>2. vm' = [vm EXCEPT !.ram = m] /\ setup' = setup /\ UNCHANGED <<flags, phase>>
    BY DEF handle_dirty_ring_full
  <1>3. ASSUME Sound(vm, setup) PROVE Sound(vm', setup)
    <2>1. /\ Tracks(vm.ram, setup.mode, Missed(setup.dma))
          /\ vm.root_snapshot_created = TRUE /\ vm.ram \in Memory
      BY <1>3 DEF Sound, Tracks
    <2>2. Tracks(m, setup.mode, Missed(setup.dma))
      BY <1>1, <2>1, CollectTracks
    <2>3. m.incremental_enabled = vm.ram.incremental_enabled
      BY <2>1 DEF dirty_ring_flush_and_collect, Memory
    <2> QED BY <1>2, <1>3, <2>2, <2>3, MemoryReplaced
  <1>4. ASSUME Booting(vm) PROVE Booting(vm')
    <2>1. vm.ram \in Memory /\ vm.ram.incremental_enabled = FALSE
          /\ vm.root_snapshot_created = FALSE
      BY <1>4 DEF Booting
    <2>2. m \in Memory /\ m.incremental_enabled = FALSE
      BY <2>1 DEF dirty_ring_flush, Memory
    <2> QED BY <1>2, <1>4, <2>2, BootMemoryReplaced
  <1> QED BY <1>2, <1>3, <1>4 DEF flags

\* Pages are persisted while the guest boots, before the root snapshot.
LEMMA BlacklistKeeps ==
    ASSUME MemoryInv, NEW p \in setup.persist, fast_reload_blacklist_page(p)
    PROVE  MemoryInv'
  <1> USE DEF MemoryInv
  <1>1. p \in Pages
    BY FastReloadAssumption
  <1>2. Booting(vm) /\ ~ in_fuzzing_mode
    <2>1. ~ in_fuzzing_mode /\ vm.root_snapshot_created = FALSE
      BY DEF fast_reload_blacklist_page, Running
    <2> QED BY <2>1 DEF Sound
  <1>3. setup' = setup /\ UNCHANGED flags
    BY DEF fast_reload_blacklist_page
  <1>4. CASE vm' = vm
    BY <1>2, <1>3, <1>4 DEF flags
  <1>5. CASE vm' = [vm EXCEPT !.ram.blocklist = @ \cup {p}]
    <2> DEFINE m == [vm.ram EXCEPT !.blocklist = @ \cup {p}]
    <2>1. m \in Memory /\ m.incremental_enabled = FALSE
      BY <1>1, <1>2 DEF Booting, Memory
    <2>2. vm' = [vm EXCEPT !.ram = m]
      BY <1>5
    <2>3. Booting(vm')
      BY <1>2, <2>1, <2>2, BootMemoryReplaced
    <2> QED BY <1>2, <1>3, <2>3 DEF flags
  <1> QED BY <1>4, <1>5 DEF fast_reload_blacklist_page

\* The payload is on the block list, which no snapshot holds.
LEMMA PayloadKeeps ==
    ASSUME MemoryInv, NEW p \in Pages, NEW v \in Values, PayloadWrite(p, v)
    PROVE  MemoryInv'
  <1> USE DEF MemoryInv
  <1> DEFINE m == [vm.ram EXCEPT !.host[p] = v]
  <1>1. vm' = [vm EXCEPT !.ram = m] /\ setup' = setup /\ UNCHANGED <<flags, phase>>
    BY DEF PayloadWrite
  <1>2. p \in vm.ram.blocklist
    BY DEF PayloadWrite
  <1>3. ASSUME vm.ram \in Memory
        PROVE  /\ m \in Memory
               /\ m.host = [vm.ram.host EXCEPT ![p] = v]
               /\ m.snapshot = vm.ram.snapshot /\ m.incremental = vm.ram.incremental
               /\ m.incremental_enabled = vm.ram.incremental_enabled
               /\ m.tracked = vm.ram.tracked /\ m.blocklist = vm.ram.blocklist
               /\ m.ring = vm.ram.ring /\ m.stack = vm.ram.stack
               /\ m.bitmap = vm.ram.bitmap
               /\ m.user_stack = vm.ram.user_stack
               /\ m.user_bitmap = vm.ram.user_bitmap
    BY <1>3 DEF Memory
  <1> HIDE DEF m
  <1>4. ASSUME Sound(vm, setup) PROVE Sound(vm', setup)
    <2>1. Tracks(vm.ram, setup.mode, Missed(setup.dma)) /\ vm.ram \in Memory
      BY <1>4 DEF Sound, Tracks
    <2>2. CopiesAgree(m) /\ BitsMatchStacks(m) /\ OtherLogsEmpty(m, setup.mode)
      BY <1>3, <2>1 DEF Tracks, CopiesAgree, BitsMatchStacks, OtherLogsEmpty
    <2>3. current_region(m) = current_region(vm.ram)
      BY <1>3, <2>1 DEF current_region
    <2>4. \A q \in Pages \ m.blocklist : m.host[q] = vm.ram.host[q]
      BY <1>2, <1>3, <2>1 DEF Memory
    <2>5. DifferenceIsKnown(m, setup.mode, Missed(setup.dma))
      BY <1>3, <2>1, <2>3, <2>4 DEF Tracks, DifferenceIsKnown
    <2>6. Tracks(m, setup.mode, Missed(setup.dma))
      BY <1>3, <2>1, <2>2, <2>5 DEF Tracks
    <2> QED BY <1>1, <1>3, <1>4, <2>1, <2>6, MemoryReplaced
  <1>5. ASSUME Booting(vm) PROVE Booting(vm')
    <2>1. vm.ram \in Memory /\ vm.ram.incremental_enabled = FALSE
      BY <1>5 DEF Booting
    <2> QED BY <1>1, <1>3, <1>5, <2>1, BootMemoryReplaced
  <1> QED BY <1>1, <1>4, <1>5 DEF flags

----------------------------------------------------------------------------
\* The end of an execution, with or without a reload.
LEMMA EndKeeps ==
    ASSUME MemoryInv, in_fuzzing_mode, NEW x, Sound(x, setup),
           vm' = x, setup' = setup, in_fuzzing_mode' = in_fuzzing_mode,
           in_fuzzing_loop' = FALSE, phase' # "boot"
    PROVE  MemoryInv'
  BY DEF MemoryInv

\* Every step keeps the invariant.
LEMMA MemoryStep ==
    ASSUME MemoryInv, [Next]_vars
    PROVE  MemoryInv'
  <1>0. setup.mode \in Modes
    BY ModeKnown DEF MemoryInv
  <1>1. ASSUME NEW p \in setup.pages, NEW v \in Values, GuestWrite(p, v)
        PROVE  MemoryInv'
    BY <1>1, GuestWriteKeeps
  <1>2. CASE handle_dirty_ring_full
    BY <1>2, RingFullKeeps
  <1>3. ASSUME NEW w \in setup.dma, NEW v \in Values, DeviceWrite(w, v)
        PROVE  MemoryInv'
    BY <1>3, DeviceWriteKeeps
  <1>4. ASSUME NEW s \in setup.devs, DeviceStep(s)
        PROVE  MemoryInv'
    <2>1. /\ vm' = [vm EXCEPT !.dev.live = s] /\ setup' = setup /\ UNCHANGED flags
          /\ phase # "boot" => phase' # "boot"
      BY <1>4 DEF DeviceStep, GoesOn
    <2>2. IsMachine(vm)
      BY DEF MemoryInv, Sound, Booting
    <2>3. /\ IsMachine(vm') /\ vm'.ram = vm.ram
          /\ vm'.root_snapshot_created = vm.root_snapshot_created
          /\ vm'.incremental_snapshot_enabled = vm.incremental_snapshot_enabled
      BY <2>1, <2>2 DEF IsMachine
    <2>4. (Sound(vm, setup) => Sound(vm', setup)) /\ (Booting(vm) => Booting(vm'))
      BY <2>3, MemoryKept
    <2> QED BY <2>1, <2>4 DEF MemoryInv, flags
  <1>5. ASSUME NEW q \in setup.io, NEW v \in DiskValues, DiskWrite(q, v)
        PROVE  MemoryInv'
    <2>1. /\ vm' = vm \/ vm' = [vm EXCEPT !.disk = cow_cache_write(@, q, v)]
          /\ setup' = setup /\ UNCHANGED flags
          /\ phase # "boot" => phase' # "boot"
      BY <1>5 DEF DiskWrite, GoesOn
    <2>2. IsMachine(vm)
      BY DEF MemoryInv, Sound, Booting
    <2>3. /\ IsMachine(vm') /\ vm'.ram = vm.ram
          /\ vm'.root_snapshot_created = vm.root_snapshot_created
          /\ vm'.incremental_snapshot_enabled = vm.incremental_snapshot_enabled
      BY <2>1, <2>2 DEF IsMachine
    <2>4. (Sound(vm, setup) => Sound(vm', setup)) /\ (Booting(vm) => Booting(vm'))
      BY <2>3, MemoryKept
    <2> QED BY <2>1, <2>4 DEF MemoryInv, flags
  <1>6. ASSUME NEW p \in setup.persist, fast_reload_blacklist_page(p)
        PROVE  MemoryInv'
    BY <1>6, BlacklistKeeps
  <1>7. CASE UNCHANGED <<setup, vm, flags, phase>>
    BY <1>7 DEF MemoryInv, flags
  <1>8. ASSUME NEW garbage \in SUBSET HeapBits, SetupSnapshotOnce(garbage)
        PROVE  MemoryInv'
    <2> DEFINE saved == IF vm.root_snapshot_created THEN vm
                        ELSE fast_reload_create_in_memory(vm, garbage)
    <2>1. /\ vm' = fast_reload_restore(fast_reload_restore(saved, setup.mode), setup.mode)
          /\ setup' = setup /\ in_fuzzing_mode' = TRUE /\ phase' = "ready"
          /\ in_fuzzing_loop' = in_fuzzing_loop
      BY <1>8 DEF SetupSnapshotOnce
    <2>2. Sound(saved, setup)
      <3>1. CASE vm.root_snapshot_created
        BY <3>1 DEF MemoryInv, Booting
      <3>2. CASE ~ vm.root_snapshot_created
        BY <1>0, <3>2, CreateRootSound DEF MemoryInv, Sound
      <3> QED BY <3>1, <3>2
    <2> HIDE DEF saved
    <2>3. Sound(vm', setup)
      BY <1>0, <2>1, <2>2, RestoreSound
    <2> QED BY <2>1, <2>3 DEF MemoryInv
  <1>9. ASSUME NEW p \in Pages, NEW v \in Values, PayloadWrite(p, v)
        PROVE  MemoryInv'
    BY <1>9, PayloadKeeps
  <1>10. CASE FastAcquire
    BY <1>10 DEF FastAcquire, MemoryInv
  <1>11. CASE Release
    <2>1. in_fuzzing_mode /\ Sound(vm, setup) /\ phase # "boot"
      BY <1>11 DEF Release, MemoryInv
    <2> DEFINE x == handle_tmp_snapshot_state(vm)
    <2>2. Sound(x, setup) /\ Sound(fast_reload_restore(x, setup.mode), setup)
      BY <1>0, <2>1, HandleTmpSound, RestoreSound DEF MemoryInv
    <2>3. /\ vm' = x \/ vm' = fast_reload_restore(x, setup.mode)
          /\ phase' = "ready" \/ phase' = phase
          /\ setup' = setup /\ in_fuzzing_mode' = in_fuzzing_mode /\ in_fuzzing_loop' = FALSE
      BY <1>11 DEF Release, Ends
    <2> HIDE DEF x
    <2> QED BY <2>1, <2>2, <2>3, EndKeeps
  <1>12. CASE CreateTmpSnapshot
    <2>1. in_fuzzing_mode /\ Sound(vm, setup) /\ ~ vm.incremental_snapshot_enabled
      BY <1>12 DEF CreateTmpSnapshot, MemoryInv
    <2> DEFINE saved == fast_reload_restore(fast_reload_create_tmp_snapshot(vm, setup.mode),
                                            setup.mode)
               x == handle_tmp_snapshot_state(saved)
    <2>2. Sound(saved, setup)
      BY <1>0, <2>1, CreateSound, RestoreSound
    <2>3. /\ vm' = x \/ vm' = fast_reload_restore(x, setup.mode)
          /\ phase' = "ready"
          /\ setup' = setup /\ in_fuzzing_mode' = in_fuzzing_mode /\ in_fuzzing_loop' = FALSE
      BY <1>12 DEF CreateTmpSnapshot, Ends
    <2> HIDE DEF saved
    <2>4. Sound(x, setup) /\ Sound(fast_reload_restore(x, setup.mode), setup)
      BY <1>0, <2>2, HandleTmpSound, RestoreSound DEF MemoryInv
    <2> HIDE DEF x
    <2> QED BY <2>1, <2>3, <2>4, EndKeeps
  <1>13. CASE EndExec
    <2>1. in_fuzzing_mode /\ Sound(vm, setup)
      BY <1>13 DEF EndExec, MemoryInv
    <2> DEFINE x == handle_tmp_snapshot_state(vm)
    <2>2. Sound(fast_reload_restore(x, setup.mode), setup)
      BY <1>0, <2>1, HandleTmpSound, RestoreSound DEF MemoryInv
    <2>3. /\ vm' = fast_reload_restore(x, setup.mode)
          /\ phase' = "ready"
          /\ setup' = setup /\ in_fuzzing_mode' = in_fuzzing_mode /\ in_fuzzing_loop' = FALSE
      BY <1>13 DEF EndExec, Ends
    <2> HIDE DEF x
    <2> QED BY <2>1, <2>2, <2>3, EndKeeps
  <1>14. ASSUME NEW b \in setup.blocks, Cover(b) PROVE MemoryInv'
    BY <1>7, <1>14 DEF Cover
  <1>15. CASE pt_handle_overflow
    BY <1>7, <1>15 DEF pt_handle_overflow
  <1>16. CASE UNCHANGED vars
    BY <1>7, <1>16 DEF vars, flags
  <1> QED BY <1>1, <1>2, <1>3, <1>4, <1>5, <1>6, <1>8, <1>9, <1>10, <1>11, <1>12, <1>13,
             <1>14, <1>15, <1>16 DEF Next

----------------------------------------------------------------------------
\* Restoring dirty pages only is enough: whatever guest and devices do, and
\* however often snapshots are taken, reloaded and discarded, every page that
\* differs from the current snapshot is in a log that fast_reload_restore goes
\* through, or is one a device can change unseen (Missed), and the second copy
\* differs from the root snapshot in tracked pages only.  Nothing is assumed
\* of the bits malloc returns or of where devices write.
THEOREM DirtyPagesCorrect ==
    Spec => []DirtyPagesKnown
  <1>1. Init => MemoryInv
    BY MemoryInit
  <1>2. MemoryInv /\ [Next]_vars => MemoryInv'
    BY MemoryStep
  <1>3. MemoryInv => DirtyPagesKnown
    BY DEF MemoryInv, Sound, Booting, Tracks, DirtyPagesKnown
  <1> QED BY <1>1, <1>2, <1>3, PTL DEF Spec

\* A page is never lost to the dirty logs: outside the block list a bit that is
\* set in one of the bitmaps stands for an entry on its stack, or is one of the
\* user bitmap that malloc returned set.
THEOREM DirtyBitsCorrect ==
    Spec => []DirtyBitsBacked
  <1>1. Init => MemoryInv
    BY MemoryInit
  <1>2. MemoryInv /\ [Next]_vars => MemoryInv'
    BY MemoryStep
  <1>3. MemoryInv => DirtyBitsBacked
    BY DEF MemoryInv, Sound, Booting, Tracks, DirtyBitsBacked
  <1> QED BY <1>1, <1>2, <1>3, PTL DEF Spec

----------------------------------------------------------------------------
(***************************************************************************)
(* Types, the block list and coverage: what holds for every guest, every   *)
(* device and every host, whatever malloc returns.                         *)
(***************************************************************************)

\* x is a machine whose parts have their types, and no page on the block list
\* is tracked.
Typed(x) ==
    /\ IsMachine(x)
    /\ x.ram \in Memory /\ x.disk \in CowCache /\ IsDev(x.dev)
    /\ x.root_snapshot_created \in BOOLEAN /\ x.incremental_snapshot_enabled \in BOOLEAN
    /\ x.ram.tracked \cap x.ram.blocklist = {}

\* The fields of the coverage bitmap.
IsCov(c) == c \in [bitmap : {c.bitmap}, copy : {c.copy}, pending : {c.pending}]

\* The inductive invariant: pages are put on the block list only while nothing
\* is tracked.
TypeInv ==
    /\ TypeOK
    /\ Typed(vm) /\ IsCov(cov)
    /\ ~ in_fuzzing_mode => vm.ram.tracked = {} /\ ~ vm.incremental_snapshot_enabled
    /\ in_fuzzing_mode => phase # "boot"
    /\ in_fuzzing_loop => in_fuzzing_mode

\* A number is at least its remainder.
LEMMA Remainder ==
    ASSUME NEW c \in Nat \ {0}, NEW a \in Nat
    PROVE  a % c \in Nat /\ a % c <= a /\ a % c < c
  OBVIOUS

\* The chunks of a request start in the request.
LEMMA ChunksTyped ==
    ASSUME NEW r, r.off \in Nat, r.len \in Nat, RequestSectors(r) \subseteq Sectors
    PROVE  ChunkOffsets(r) \subseteq Sectors
  <1>1. ASSUME NEW s \in RequestSectors(r)
        PROVE  ChunkOf(r, s) \in RequestSectors(r)
    <2>1. s \in Int /\ s - r.off \in Nat /\ r.off <= s /\ s <= r.off + r.len - 1
      BY DEF RequestSectors
    <2> DEFINE m == (s - r.off) % ChunkSectors
    <2>2. m \in Nat /\ m <= s - r.off
      BY <2>1, Remainder, BlockCowAssumption
    <2>3. ChunkOf(r, s) = s - m
      BY DEF ChunkOf
    <2> HIDE DEF m
    <2> QED BY <2>1, <2>2, <2>3 DEF RequestSectors
  <1> QED BY <1>1 DEF ChunkOffsets

\* Layers stay layers.
LEMMA WrittenTyped ==
    ASSUME NEW layer \in Layers, NEW r, ChunkOffsets(r) \subseteq Sectors, NEW v \in DiskValues
    PROVE  Written(layer, r, v) \in Layers
  <1>1. PICK D \in SUBSET Sectors : layer \in [D -> DiskValues]
    BY DEF Layers
  <1> DEFINE E == ChunkOffsets(r) \cup D
  <1>2. E \in SUBSET Sectors /\ DOMAIN layer = D
    BY <1>1
  <1>3. Written(layer, r, v) \in [E -> DiskValues]
    BY <1>1, <1>2 DEF Written
  <1> HIDE DEF E
  <1> QED BY <1>2, <1>3 DEF Layers

\* An empty layer is one.
LEMMA NoChunksTyped == NoChunks \in Layers
  <1>1. NoChunks \in [{} -> DiskValues]
    BY DEF NoChunks
  <1> QED BY <1>1 DEF Layers

\* A write leaves a disk.
LEMMA DiskWriteTyped ==
    ASSUME NEW d \in CowCache, NEW r, ChunkOffsets(r) \subseteq Sectors, NEW v \in DiskValues
    PROVE  cow_cache_write(d, r, v) \in CowCache
  <1>1. /\ Written(d.primary, r, v) \in Layers
        /\ Written(d.secondary, r, v) \in Layers
        /\ Written(d.secondary_tmp, r, v) \in Layers
    BY WrittenTyped DEF CowCache
  <1> QED BY <1>1 DEF cow_cache_write, CowCache

\* The operations on snapshots of the disk and of the devices.
LEMMA PartsTyped ==
    ASSUME NEW d \in CowCache, NEW e, IsDev(e)
    PROVE  /\ cow_cache_reset(d) \in CowCache
           /\ cow_cache_enable_tmp_mode(d) \in CowCache
           /\ cow_cache_disable_tmp_mode(d) \in CowCache
           /\ switch_to_fuzz_mode(d) \in CowCache
           /\ IsDev(fdl_fast_reload(e))
           /\ IsDev(nyx_device_state_switch_incremental(e))
           /\ IsDev(nyx_device_state_disable_incremental(e))
  <1>1. cow_cache_reset(d) \in CowCache
    BY NoChunksTyped DEF cow_cache_reset, CowCache
  <1>2. cow_cache_disable_tmp_mode(d) \in CowCache
    BY <1>1 DEF cow_cache_disable_tmp_mode, CowCache
  <1>3. cow_cache_enable_tmp_mode(d) \in CowCache /\ switch_to_fuzz_mode(d) \in CowCache
    BY DEF cow_cache_enable_tmp_mode, switch_to_fuzz_mode, CowCache
  <1>4. IsDev(fdl_fast_reload(e))
    BY DEF fdl_fast_reload, IsDev
  <1>5. /\ IsDev(nyx_device_state_switch_incremental(e))
        /\ IsDev(nyx_device_state_disable_incremental(e))
    BY DEF nyx_device_state_switch_incremental, nyx_device_state_disable_incremental, IsDev
  <1> QED BY <1>1, <1>2, <1>3, <1>4, <1>5

\* The handlers keep types and the pages on the block list.
LEMMA RestoreHandled ==
    ASSUME NEW x, NEW mode, Typed(x)
    PROVE  LET y == fast_reload_restore(x, mode)
           IN  /\ Typed(y) /\ LeavesBlocked(x.ram, y.ram) /\ y.ram.tracked = x.ram.tracked
               /\ y.root_snapshot_created = x.root_snapshot_created
               /\ y.incremental_snapshot_enabled = x.incremental_snapshot_enabled
  <1> DEFINE y == fast_reload_restore(x, mode)
             m == fast_snapshot_restore_operation(x.ram, mode)
  <1>1. m \in Memory /\ m.tracked = x.ram.tracked /\ LeavesBlocked(x.ram, m)
    BY RestoreTyped DEF Typed
  <1>2. cow_cache_reset(x.disk) \in CowCache /\ IsDev(fdl_fast_reload(x.dev))
    BY PartsTyped DEF Typed
  <1>3. /\ IsMachine(y) /\ y.ram = m
        /\ y.disk = cow_cache_reset(x.disk) /\ y.dev = fdl_fast_reload(x.dev)
        /\ y.root_snapshot_created = x.root_snapshot_created
        /\ y.incremental_snapshot_enabled = x.incremental_snapshot_enabled
    BY DEF Typed, IsMachine, fast_reload_restore
  <1>4. m.tracked \cap m.blocklist = {}
    BY <1>1 DEF LeavesBlocked, Typed
  <1> HIDE DEF y, m
  <1>5. Typed(y)
    BY <1>1, <1>2, <1>3, <1>4 DEF Typed
  <1> QED BY <1>1, <1>3, <1>5 DEF y

\* Taking a temporary snapshot.
LEMMA CreateHandled ==
    ASSUME NEW x, NEW mode, Typed(x)
    PROVE  LET y == fast_reload_create_tmp_snapshot(x, mode)
           IN  /\ Typed(y) /\ LeavesBlocked(x.ram, y.ram)
               /\ y.root_snapshot_created = x.root_snapshot_created
               /\ y.incremental_snapshot_enabled = TRUE
  <1> DEFINE y == fast_reload_create_tmp_snapshot(x, mode)
             m == fast_snapshot_create_incremental_operation(x.ram, mode)
  <1>1. m \in Memory /\ LeavesBlocked(x.ram, m) /\ m.tracked \cap m.blocklist = {}
    BY CreateTyped DEF Typed
  <1>2. /\ cow_cache_enable_tmp_mode(x.disk) \in CowCache
        /\ IsDev(nyx_device_state_switch_incremental(x.dev))
    BY PartsTyped DEF Typed
  <1>3. /\ IsMachine(y) /\ y.ram = m
        /\ y.disk = cow_cache_enable_tmp_mode(x.disk)
        /\ y.dev = nyx_device_state_switch_incremental(x.dev)
        /\ y.root_snapshot_created = x.root_snapshot_created
        /\ y.incremental_snapshot_enabled = TRUE
    BY DEF Typed, IsMachine, fast_reload_create_tmp_snapshot
  <1> HIDE DEF y, m
  <1>4. Typed(y)
    BY <1>1, <1>2, <1>3 DEF Typed
  <1> QED BY <1>1, <1>3, <1>4 DEF y

\* Discarding it.
LEMMA DiscardHandled ==
    ASSUME NEW x, NEW mode, Typed(x)
    PROVE  LET y == fast_reload_discard_tmp_snapshot(x, mode)
           IN  /\ Typed(y) /\ LeavesBlocked(x.ram, y.ram)
               /\ y.root_snapshot_created = x.root_snapshot_created
               /\ y.incremental_snapshot_enabled = FALSE
  <1> DEFINE y == fast_reload_discard_tmp_snapshot(x, mode)
             m == discard_incremental(x.ram, mode)
  <1>1. m \in Memory /\ LeavesBlocked(x.ram, m) /\ m.tracked = {}
    BY DiscardTyped DEF Typed
  <1>2. /\ cow_cache_disable_tmp_mode(x.disk) \in CowCache
        /\ IsDev(nyx_device_state_disable_incremental(x.dev))
    BY PartsTyped DEF Typed
  <1>3. /\ IsMachine(y) /\ y.ram = m
        /\ y.disk = cow_cache_disable_tmp_mode(x.disk)
        /\ y.dev = nyx_device_state_disable_incremental(x.dev)
        /\ y.root_snapshot_created = x.root_snapshot_created
        /\ y.incremental_snapshot_enabled = FALSE
    BY DEF Typed, IsMachine, fast_reload_discard_tmp_snapshot
  <1> HIDE DEF y, m
  <1>4. Typed(y)
    BY <1>1, <1>2, <1>3 DEF Typed
  <1> QED BY <1>1, <1>3, <1>4 DEF y

\* Discarding it if that was asked for.
LEMMA HandleTmpHandled ==
    ASSUME NEW x, Typed(x), discard_tmp_snapshot \in BOOLEAN
    PROVE  LET y == handle_tmp_snapshot_state(x)
           IN  /\ Typed(y) /\ LeavesBlocked(x.ram, y.ram)
               /\ y.root_snapshot_created = x.root_snapshot_created
               /\ y.incremental_snapshot_enabled
                    = (x.incremental_snapshot_enabled /\ ~ discard_tmp_snapshot)
  <1>1. CASE discard_tmp_snapshot /\ x.incremental_snapshot_enabled
    BY <1>1, DiscardHandled DEF handle_tmp_snapshot_state
  <1>2. CASE ~ (discard_tmp_snapshot /\ x.incremental_snapshot_enabled)
    <2>1. handle_tmp_snapshot_state(x) = x
      BY <1>2 DEF handle_tmp_snapshot_state
    <2> QED BY <1>2, <2>1 DEF LeavesBlocked, Typed
  <1> QED BY <1>1, <1>2

\* Taking the root snapshot.
LEMMA CreateRootHandled ==
    ASSUME NEW x, NEW garbage \in SUBSET HeapBits, Typed(x)
    PROVE  LET y == fast_reload_create_in_memory(x, garbage)
           IN  /\ Typed(y) /\ LeavesBlocked(x.ram, y.ram) /\ y.ram.tracked = {}
               /\ y.root_snapshot_created = TRUE
               /\ y.incremental_snapshot_enabled = x.incremental_snapshot_enabled
  <1> DEFINE y == fast_reload_create_in_memory(x, garbage)
             m == shadow_memory_init(x.ram, garbage)
  <1>1. m \in Memory /\ m.tracked = {} /\ m.host = x.ram.host /\ m.blocklist = x.ram.blocklist
    BY ShadowMemoryAssumption DEF Typed, shadow_memory_init, Memory
  <1>2. switch_to_fuzz_mode(x.disk) \in CowCache
    BY PartsTyped DEF Typed
  <1>3. /\ IsMachine(y) /\ y.ram = m
        /\ y.disk = switch_to_fuzz_mode(x.disk)
        /\ y.dev = [x.dev EXCEPT !.copy = x.dev.live]
        /\ y.root_snapshot_created = TRUE
        /\ y.incremental_snapshot_enabled = x.incremental_snapshot_enabled
    BY DEF Typed, IsMachine, IsDev, fast_reload_create_in_memory
  <1>4. IsDev(y.dev)
    BY <1>3 DEF Typed, IsDev
  <1> HIDE DEF y, m
  <1>5. Typed(y)
    BY <1>1, <1>2, <1>3, <1>4 DEF Typed
  <1> QED BY <1>1, <1>3, <1>5 DEF y, LeavesBlocked

----------------------------------------------------------------------------
\* The machine starts with parts of their types and with nothing tracked.
LEMMA TypeInit ==
    ASSUME Init
    PROVE  TypeInv
  <1>1. NewMachine.ram \in Memory /\ NewMachine.ram.tracked = {}
    BY FastReloadAssumption, ShadowMemoryAssumption DEF NewMachine, Memory
  <1>2. NewMachine.disk \in CowCache
    BY NoChunksTyped, FastReloadAssumption DEF NewMachine, cow_cache_new, CowCache
  <1>3. IsDev(NewMachine.dev) /\ IsMachine(NewMachine)
    BY DEF NewMachine, IsDev, IsMachine
  <1>4. NewMachine.root_snapshot_created = FALSE
        /\ NewMachine.incremental_snapshot_enabled = FALSE
    BY DEF NewMachine
  <1>5. Typed(NewMachine)
    BY <1>1, <1>2, <1>3, <1>4 DEF Typed
  <1>6. ASSUME NEW f \in Folders, NEW garbage \in SUBSET HeapBits,
               vm = fast_reload_create_from_file(NewMachine, f, garbage)
        PROVE  Typed(vm) /\ vm.ram.tracked = {} /\ vm.incremental_snapshot_enabled = FALSE
    <2> DEFINE h == [NewMachine.ram EXCEPT !.host = f.ram, !.blocklist = f.blocklist]
               m == shadow_memory_init(h, garbage)
               d == read_primary_buffer(NewMachine.disk, f.primary)
               e == [live |-> f.dev, copy |-> f.dev, tmp |-> BootDevices,
                     tmp_enabled |-> FALSE]
    <2>1. h \in Memory
      BY <1>1, FastReloadAssumption DEF Memory
    <2>2. m \in Memory /\ m.tracked = {}
      BY <2>1, ShadowMemoryAssumption DEF shadow_memory_init, Memory
    <2>3. d \in CowCache
      BY <1>2, FastReloadAssumption DEF read_primary_buffer, switch_to_fuzz_mode, CowCache
    <2>4. IsDev(e)
      BY DEF IsDev
    <2>5. vm = [ram |-> m, disk |-> d, dev |-> e, root_snapshot_created |-> TRUE,
                incremental_snapshot_enabled |-> FALSE]
      BY <1>6 DEF fast_reload_create_from_file, NewMachine
    <2> HIDE DEF m, d, e
    <2>6. /\ IsMachine(vm) /\ vm.ram = m /\ vm.disk = d /\ vm.dev = e
          /\ vm.root_snapshot_created = TRUE /\ vm.incremental_snapshot_enabled = FALSE
      BY <2>5 DEF IsMachine
    <2> QED BY <2>2, <2>3, <2>4, <2>6 DEF Typed
  <1>7. Typed(vm) /\ vm.ram.tracked = {} /\ vm.incremental_snapshot_enabled = FALSE
    BY <1>1, <1>4, <1>5, <1>6 DEF Init, Start
  <1>8. IsCov(cov) /\ cov.bitmap \cup cov.copy \cup cov.pending \subseteq setup.blocks
    BY DEF Init, IsCov
  <1> QED BY <1>7, <1>8 DEF Init, TypeInv, TypeOK, Typed, IsDev

\* A step of guest or devices: the parts keep their types, nothing is tracked
\* and no page put on the list.
LEMMA RunTyped ==
    ASSUME TypeInv, UNCHANGED <<setup, flags, cov>>,
           phase' \in {"boot", "ready", "run", "aborted"},
           phase # "boot" => phase' # "boot", Typed(vm'),
           vm'.ram.tracked = vm.ram.tracked,
           vm'.incremental_snapshot_enabled = vm.incremental_snapshot_enabled
    PROVE  TypeInv'
  BY DEF TypeInv, TypeOK, Typed, flags, IsDev, IsMachine, IsCov

\* The memory alone changes.
LEMMA MemoryTyped ==
    ASSUME NEW x, Typed(x), NEW m \in Memory, m.tracked \cap m.blocklist = {}
    PROVE  LET y == [x EXCEPT !.ram = m]
           IN  /\ Typed(y) /\ y.ram = m
               /\ y.incremental_snapshot_enabled = x.incremental_snapshot_enabled
  BY DEF Typed, IsMachine

\* The steps of guest, devices and host between the handlers.
LEMMA RunTypes ==
    ASSUME TypeInv
    PROVE  /\ \A p \in setup.pages, v \in Values : GuestWrite(p, v) => TypeInv'
           /\ handle_dirty_ring_full => TypeInv'
           /\ \A w \in setup.dma, v \in Values : DeviceWrite(w, v) => TypeInv'
           /\ \A s \in setup.devs : DeviceStep(s) => TypeInv'
           /\ \A r \in setup.io, v \in DiskValues : DiskWrite(r, v) => TypeInv'
           /\ \A p \in setup.persist : fast_reload_blacklist_page(p) => TypeInv'
           /\ \A p \in Pages, v \in Values : PayloadWrite(p, v) => TypeInv'
  <1>0. /\ Typed(vm) /\ vm.ram \in Memory /\ vm.ram.tracked \cap vm.ram.blocklist = {}
        /\ phase \in {"boot", "ready", "run", "aborted"} /\ setup \in Setups
    BY DEF TypeInv, Typed, TypeOK
  <1>1. ASSUME NEW p \in setup.pages, NEW v \in Values, GuestWrite(p, v) PROVE TypeInv'
    <2> DEFINE m == kvm_write(vm.ram, setup.mode, vm.root_snapshot_created, p, v)
    <2>1. p \in Pages
      BY <1>0, FastReloadAssumption
    <2>2. m \in Memory /\ m.blocklist = vm.ram.blocklist /\ m.tracked = vm.ram.tracked
      BY <1>0, <2>1, KvmWriteTyped
    <2>3. /\ vm' = [vm EXCEPT !.ram = m] /\ UNCHANGED <<setup, flags, cov>>
          /\ phase' \in {"boot", "run"} /\ (phase # "boot" => phase' # "boot")
      BY <1>1 DEF GuestWrite, GoesOn
    <2> HIDE DEF m
    <2> QED BY <1>0, <2>2, <2>3, MemoryTyped, RunTyped
  <1>2. ASSUME handle_dirty_ring_full PROVE TypeInv'
    <2> DEFINE m == IF vm.root_snapshot_created THEN dirty_ring_flush_and_collect(vm.ram)
                    ELSE dirty_ring_flush(vm.ram)
    <2>1. m \in Memory /\ m.blocklist = vm.ram.blocklist /\ m.tracked = vm.ram.tracked
      BY <1>0 DEF dirty_ring_flush_and_collect, dirty_ring_flush, Memory
    <2>2. vm' = [vm EXCEPT !.ram = m] /\ UNCHANGED <<setup, flags, cov, phase>>
      BY <1>2 DEF handle_dirty_ring_full
    <2> HIDE DEF m
    <2> QED BY <1>0, <2>1, <2>2, MemoryTyped, RunTyped
  <1>3. ASSUME NEW w \in setup.dma, NEW v \in Values, DeviceWrite(w, v) PROVE TypeInv'
    <2> DEFINE m == device_write(vm.ram, vm.root_snapshot_created, w, v)
    <2>1. m \in Memory /\ m.blocklist = vm.ram.blocklist /\ m.tracked = vm.ram.tracked
      BY <1>0, DeviceWriteTyped
    <2>2. /\ vm' = [vm EXCEPT !.ram = m] /\ UNCHANGED <<setup, flags, cov>>
          /\ phase' \in {"boot", "run"} /\ (phase # "boot" => phase' # "boot")
      BY <1>3 DEF DeviceWrite, GoesOn
    <2> HIDE DEF m
    <2> QED BY <1>0, <2>1, <2>2, MemoryTyped, RunTyped
  <1>4. ASSUME NEW s \in setup.devs, DeviceStep(s) PROVE TypeInv'
    <2> DEFINE e == [vm.dev EXCEPT !.live = s]
    <2>1. IsDev(e)
      BY <1>0 DEF Typed, IsDev
    <2>2. /\ vm' = [vm EXCEPT !.dev = e] /\ UNCHANGED <<setup, flags, cov>>
          /\ phase' \in {"boot", "run"} /\ (phase # "boot" => phase' # "boot")
      BY <1>4 DEF DeviceStep, GoesOn
    <2> HIDE DEF e
    <2>3. /\ Typed(vm') /\ vm'.ram = vm.ram
          /\ vm'.incremental_snapshot_enabled = vm.incremental_snapshot_enabled
      BY <1>0, <2>1, <2>2 DEF Typed, IsMachine
    <2> QED BY <2>2, <2>3, RunTyped
  <1>5. ASSUME NEW r \in setup.io, NEW v \in DiskValues, DiskWrite(r, v) PROVE TypeInv'
    <2> DEFINE d == cow_cache_write(vm.disk, r, v)
    <2>1. ChunkOffsets(r) \subseteq Sectors
      BY <1>0, ChunksTyped, FastReloadAssumption
    <2>2. d \in CowCache
      BY <1>0, <2>1, DiskWriteTyped DEF Typed
    <2>3. /\ vm' = vm \/ vm' = [vm EXCEPT !.disk = d]
          /\ UNCHANGED <<setup, flags, cov>>
          /\ phase' \in {"boot", "run", "aborted"} /\ (phase # "boot" => phase' # "boot")
      BY <1>5 DEF DiskWrite, GoesOn
    <2> HIDE DEF d
    <2>4. /\ Typed(vm') /\ vm'.ram = vm.ram
          /\ vm'.incremental_snapshot_enabled = vm.incremental_snapshot_enabled
      BY <1>0, <2>2, <2>3 DEF Typed, IsMachine
    <2> QED BY <2>3, <2>4, RunTyped
  <1>6. ASSUME NEW p \in setup.persist, fast_reload_blacklist_page(p) PROVE TypeInv'
    <2> DEFINE m == [vm.ram EXCEPT !.blocklist = @ \cup {p}]
    <2>1. p \in Pages
      BY <1>0, FastReloadAssumption
    <2>2. CASE vm' = vm /\ phase' = "aborted"
      BY <1>0, <1>6, <2>2, RunTyped DEF fast_reload_blacklist_page
    <2>3. CASE vm' = [vm EXCEPT !.ram.blocklist = @ \cup {p}] /\ UNCHANGED phase
      <3>1. ~ in_fuzzing_mode
        BY <1>6 DEF fast_reload_blacklist_page, TypeInv
      <3>2. vm.ram.tracked = {}
        BY <3>1 DEF TypeInv
      <3>3. m \in Memory /\ m.tracked = vm.ram.tracked /\ vm' = [vm EXCEPT !.ram = m]
        BY <1>0, <2>1, <2>3 DEF Memory
      <3>4. UNCHANGED <<setup, flags, cov>>
        BY <1>6 DEF fast_reload_blacklist_page
      <3>5. m.tracked \cap m.blocklist = {}
        BY <3>2, <3>3
      <3> HIDE DEF m
      <3>6. /\ Typed(vm') /\ vm'.ram.tracked = vm.ram.tracked
            /\ vm'.incremental_snapshot_enabled = vm.incremental_snapshot_enabled
        BY <1>0, <3>3, <3>5, MemoryTyped
      <3> QED BY <1>0, <2>3, <3>4, <3>6, RunTyped
    <2> QED BY <1>6, <2>2, <2>3 DEF fast_reload_blacklist_page
  <1>7. ASSUME NEW p \in Pages, NEW v \in Values, PayloadWrite(p, v) PROVE TypeInv'
    <2> DEFINE m == [vm.ram EXCEPT !.host[p] = v]
    <2>1. m \in Memory /\ m.blocklist = vm.ram.blocklist /\ m.tracked = vm.ram.tracked
      BY <1>0 DEF Memory
    <2>2. vm' = [vm EXCEPT !.ram = m] /\ UNCHANGED <<setup, flags, cov, phase>>
      BY <1>7 DEF PayloadWrite
    <2> HIDE DEF m
    <2> QED BY <1>0, <2>1, <2>2, MemoryTyped, RunTyped
  <1> QED BY <1>1, <1>2, <1>3, <1>4, <1>5, <1>6, <1>7

\* Two handlers, one after the other.
LEMMA LeavesTrans ==
    ASSUME NEW a, NEW b, NEW c, LeavesBlocked(a, b), LeavesBlocked(b, c)
    PROVE  LeavesBlocked(a, c)
  BY DEF LeavesBlocked

\* What the requests for snapshots and the ends of executions do to a machine.
LEMMA SetupHandled ==
    ASSUME TypeInv, NEW garbage \in SUBSET HeapBits, SetupSnapshotOnce(garbage)
    PROVE  /\ Typed(vm') /\ LeavesBlocked(vm.ram, vm'.ram)
           /\ vm'.incremental_snapshot_enabled = vm.incremental_snapshot_enabled
  <1> DEFINE x == IF vm.root_snapshot_created THEN vm
                  ELSE fast_reload_create_in_memory(vm, garbage)
             y == fast_reload_restore(x, setup.mode)
  <1>1. vm' = fast_reload_restore(y, setup.mode)
    BY DEF SetupSnapshotOnce
  <1>2. /\ Typed(x) /\ LeavesBlocked(vm.ram, x.ram)
        /\ x.incremental_snapshot_enabled = vm.incremental_snapshot_enabled
    <2>1. CASE vm.root_snapshot_created
      BY <2>1 DEF TypeInv, LeavesBlocked
    <2>2. CASE ~ vm.root_snapshot_created
      BY <2>2, CreateRootHandled DEF TypeInv
    <2> QED BY <2>1, <2>2
  <1> HIDE DEF x
  <1>3. /\ Typed(y) /\ LeavesBlocked(x.ram, y.ram)
        /\ y.incremental_snapshot_enabled = x.incremental_snapshot_enabled
    BY <1>2, RestoreHandled
  <1> HIDE DEF y
  <1>4. /\ Typed(vm') /\ LeavesBlocked(y.ram, vm'.ram)
        /\ vm'.incremental_snapshot_enabled = y.incremental_snapshot_enabled
    BY <1>1, <1>3, RestoreHandled
  <1> QED BY <1>2, <1>3, <1>4, LeavesTrans

\* A discard if it was asked for, then a reload or none.
LEMMA EndHandled ==
    ASSUME TypeInv, NEW x, Typed(x), LeavesBlocked(vm.ram, x.ram),
           \/ vm' = handle_tmp_snapshot_state(x)
           \/ vm' = fast_reload_restore(handle_tmp_snapshot_state(x), setup.mode)
    PROVE  /\ Typed(vm') /\ LeavesBlocked(vm.ram, vm'.ram)
           /\ vm'.incremental_snapshot_enabled
                = (x.incremental_snapshot_enabled /\ ~ discard_tmp_snapshot)
  <1> DEFINE y == handle_tmp_snapshot_state(x)
  <1>1. /\ Typed(y) /\ LeavesBlocked(x.ram, y.ram)
        /\ y.incremental_snapshot_enabled
             = (x.incremental_snapshot_enabled /\ ~ discard_tmp_snapshot)
    BY HandleTmpHandled DEF TypeInv, TypeOK
  <1>2. LeavesBlocked(vm.ram, y.ram)
    BY <1>1, LeavesTrans
  <1>3. vm' = y \/ vm' = fast_reload_restore(y, setup.mode)
    OBVIOUS
  <1> HIDE DEF y
  <1>4. CASE vm' = y
    BY <1>1, <1>2, <1>4
  <1>5. CASE vm' = fast_reload_restore(y, setup.mode)
    <2>1. /\ Typed(vm') /\ LeavesBlocked(y.ram, vm'.ram)
          /\ vm'.incremental_snapshot_enabled = y.incremental_snapshot_enabled
      BY <1>1, <1>5, RestoreHandled
    <2> QED BY <1>1, <1>2, <2>1, LeavesTrans
  <1> QED BY <1>3, <1>4, <1>5

\* RELEASE and the other ends.
LEMMA ReleaseHandled ==
    ASSUME TypeInv, Release \/ EndExec
    PROVE  /\ Typed(vm') /\ LeavesBlocked(vm.ram, vm'.ram)
           /\ vm'.incremental_snapshot_enabled
                = (vm.incremental_snapshot_enabled /\ ~ discard_tmp_snapshot)
  <1>1. \/ vm' = handle_tmp_snapshot_state(vm)
        \/ vm' = fast_reload_restore(handle_tmp_snapshot_state(vm), setup.mode)
    BY DEF Release, EndExec
  <1>2. Typed(vm) /\ LeavesBlocked(vm.ram, vm.ram)
    BY DEF TypeInv, LeavesBlocked
  <1> QED BY <1>1, <1>2, EndHandled

\* CREATE_TMP_SNAPSHOT.
LEMMA CreateTmpHandled ==
    ASSUME TypeInv, CreateTmpSnapshot
    PROVE  /\ Typed(vm') /\ LeavesBlocked(vm.ram, vm'.ram)
           /\ vm'.incremental_snapshot_enabled = ~ discard_tmp_snapshot
  <1> DEFINE w == fast_reload_create_tmp_snapshot(vm, setup.mode)
             x == fast_reload_restore(w, setup.mode)
  <1>1. \/ vm' = handle_tmp_snapshot_state(x)
        \/ vm' = fast_reload_restore(handle_tmp_snapshot_state(x), setup.mode)
    BY DEF CreateTmpSnapshot
  <1>2. Typed(w) /\ LeavesBlocked(vm.ram, w.ram) /\ w.incremental_snapshot_enabled = TRUE
    BY CreateHandled DEF TypeInv
  <1> HIDE DEF w
  <1>3. Typed(x) /\ LeavesBlocked(w.ram, x.ram) /\ x.incremental_snapshot_enabled = TRUE
    BY <1>2, RestoreHandled
  <1> HIDE DEF x
  <1>4. LeavesBlocked(vm.ram, x.ram)
    BY <1>2, <1>3, LeavesTrans
  <1>5. discard_tmp_snapshot \in BOOLEAN
    BY DEF TypeInv, TypeOK
  <1> QED BY <1>1, <1>3, <1>4, <1>5, EndHandled

\* The bitmap, its copy and the trace hold blocks of the guest.
LEMMA CovTyped ==
    ASSUME NEW c, NEW B, IsCov(c), c.bitmap \cup c.copy \cup c.pending \subseteq B
    PROVE  /\ \A d \in {pt_dump(c), CopyBitmap(c), pt_enable(c, TRUE), pt_enable(c, FALSE),
                        [c EXCEPT !.bitmap = {}]} :
                 IsCov(d) /\ d.bitmap \cup d.copy \cup d.pending \subseteq B
           /\ \A b \in B : LET d == [c EXCEPT !.pending = @ \cup {b}]
                           IN  IsCov(d) /\ d.bitmap \cup d.copy \cup d.pending \subseteq B
  <1> DEFINE Good(d) == IsCov(d) /\ d.bitmap \cup d.copy \cup d.pending \subseteq B
  <1>1. Good(pt_dump(c))
    BY DEF IsCov, pt_dump
  <1>2. Good(CopyBitmap(c))
    BY DEF IsCov, pt_dump, CopyBitmap
  <1>3. Good(pt_enable(c, TRUE)) /\ Good(pt_enable(c, FALSE))
    BY DEF IsCov, pt_enable
  <1>4. Good([c EXCEPT !.bitmap = {}])
    BY DEF IsCov
  <1>5. ASSUME NEW b \in B PROVE Good([c EXCEPT !.pending = @ \cup {b}])
    BY DEF IsCov
  <1> QED BY <1>1, <1>2, <1>3, <1>4, <1>5

\* The end of an execution.
LEMMA EndTyped ==
    ASSUME TypeInv, in_fuzzing_mode, Typed(vm'), setup' = setup,
           cov' = pt_dump(cov) \/ cov' = CopyBitmap(cov),
           phase' = "ready" \/ phase' = phase,
           Ends(TRUE) \/ Ends(FALSE)
    PROVE  TypeInv'
  <1>0. IsCov(cov) /\ cov.bitmap \cup cov.copy \cup cov.pending \subseteq setup.blocks
    BY DEF TypeInv, TypeOK
  <1>1. IsCov(cov') /\ cov'.bitmap \cup cov'.copy \cup cov'.pending \subseteq setup.blocks
    BY <1>0, CovTyped
  <1>2. /\ discard_tmp_snapshot' = FALSE /\ tmp_snapshot_created' \in BOOLEAN
        /\ in_fuzzing_loop' = FALSE /\ UNCHANGED <<in_reload_mode, in_fuzzing_mode>>
    BY DEF Ends
  <1>3. /\ vm'.ram \in Memory /\ vm'.disk \in CowCache /\ vm'.dev.tmp_enabled \in BOOLEAN
        /\ vm'.root_snapshot_created \in BOOLEAN
        /\ vm'.incremental_snapshot_enabled \in BOOLEAN
    BY DEF Typed, IsDev
  <1>4. TypeOK'
    BY <1>1, <1>2, <1>3 DEF TypeInv, TypeOK
  <1> QED BY <1>1, <1>2, <1>4 DEF TypeInv, Typed, IsMachine, IsDev, IsCov

\* Every step keeps the types.
LEMMA TypeStep ==
    ASSUME TypeInv, [Next]_vars
    PROVE  TypeInv'
  <1>1. ASSUME NEW b \in setup.blocks, Cover(b) PROVE TypeInv'
    <2>1. cov' = [cov EXCEPT !.pending = @ \cup {b}] /\ UNCHANGED <<setup, vm, flags, phase>>
      BY <1>1 DEF Cover
    <2>2. IsCov(cov') /\ cov'.bitmap \cup cov'.copy \cup cov'.pending \subseteq setup.blocks
      BY <2>1, CovTyped DEF TypeInv, TypeOK
    <2> QED BY <2>1, <2>2 DEF TypeInv, TypeOK, Typed, flags, IsMachine, IsDev, IsCov
  <1>2. CASE pt_handle_overflow
    <2>1. cov' = pt_dump(cov) /\ UNCHANGED <<setup, vm, flags, phase>>
      BY <1>2 DEF pt_handle_overflow
    <2>2. IsCov(cov') /\ cov'.bitmap \cup cov'.copy \cup cov'.pending \subseteq setup.blocks
      BY <2>1, CovTyped DEF TypeInv, TypeOK
    <2> QED BY <2>1, <2>2 DEF TypeInv, TypeOK, Typed, flags, IsMachine, IsDev, IsCov
  <1>3. ASSUME NEW garbage \in SUBSET HeapBits, SetupSnapshotOnce(garbage) PROVE TypeInv'
    <2>1. Typed(vm')
      BY <1>3, SetupHandled
    <2>2. /\ cov' = [cov EXCEPT !.bitmap = {}] /\ in_fuzzing_mode' = TRUE /\ phase' = "ready"
          /\ UNCHANGED <<setup, discard_tmp_snapshot, tmp_snapshot_created, in_reload_mode,
                         in_fuzzing_loop>>
      BY <1>3 DEF SetupSnapshotOnce
    <2>3. IsCov(cov') /\ cov'.bitmap \cup cov'.copy \cup cov'.pending \subseteq setup.blocks
      BY <2>2, CovTyped DEF TypeInv, TypeOK
    <2>4. /\ vm'.ram \in Memory /\ vm'.disk \in CowCache /\ vm'.dev.tmp_enabled \in BOOLEAN
          /\ vm'.root_snapshot_created \in BOOLEAN
          /\ vm'.incremental_snapshot_enabled \in BOOLEAN
      BY <2>1 DEF Typed, IsDev
    <2>5. TypeOK'
      BY <2>2, <2>3, <2>4 DEF TypeInv, TypeOK
    <2> QED BY <2>1, <2>2, <2>3, <2>5 DEF TypeInv, Typed, IsMachine, IsDev, IsCov
  <1>4. CASE FastAcquire
    <2>1. /\ cov' = pt_enable(cov, vm.incremental_snapshot_enabled)
          /\ in_fuzzing_loop' = TRUE /\ phase' = "run" /\ in_fuzzing_mode
          /\ UNCHANGED <<setup, vm, tmp_snapshot_created, in_fuzzing_mode>>
      BY <1>4 DEF FastAcquire
    <2>2. in_reload_mode' \in BOOLEAN /\ discard_tmp_snapshot' \in BOOLEAN
      BY <1>4, FastReloadAssumption DEF FastAcquire, TypeInv, TypeOK
    <2>3. vm.incremental_snapshot_enabled \in BOOLEAN
      BY DEF TypeInv, TypeOK
    <2>4. IsCov(cov') /\ cov'.bitmap \cup cov'.copy \cup cov'.pending \subseteq setup.blocks
      BY <2>1, <2>3, CovTyped DEF TypeInv, TypeOK
    <2> QED BY <2>1, <2>2, <2>4 DEF TypeInv, TypeOK, Typed, IsMachine, IsDev, IsCov
  <1>5. CASE Release
    <2>1. /\ in_fuzzing_mode /\ setup' = setup /\ cov' = pt_dump(cov)
          /\ phase' = "ready" \/ phase' = phase
          /\ Ends(FALSE)
      BY <1>5 DEF Release, TypeInv
    <2> QED BY <1>5, <2>1, ReleaseHandled, EndTyped
  <1>6. CASE EndExec
    <2>1. /\ in_fuzzing_mode /\ setup' = setup /\ cov' = pt_dump(cov)
          /\ phase' = "ready" /\ Ends(FALSE)
      BY <1>6 DEF EndExec
    <2> QED BY <1>6, <2>1, ReleaseHandled, EndTyped
  <1>7. CASE CreateTmpSnapshot
    <2>1. /\ in_fuzzing_mode /\ setup' = setup /\ cov' = CopyBitmap(cov)
          /\ phase' = "ready" /\ Ends(TRUE)
      BY <1>7 DEF CreateTmpSnapshot, TypeInv
    <2> QED BY <1>7, <2>1, CreateTmpHandled, EndTyped
  <1>8. CASE UNCHANGED vars
    BY <1>8 DEF vars, TypeInv, TypeOK, Typed, IsMachine, IsDev, IsCov
  <1> QED BY <1>1, <1>2, <1>3, <1>4, <1>5, <1>6, <1>7, <1>8, RunTypes DEF Next

\* Memory, copy-on-write layers, device copies, flags and coverage keep their
\* types through every write and every snapshot operation: in particular each
\* chunk of a layer starts inside the disk.
THEOREM FastReloadTypeCorrect == Spec => []TypeOK
  <1>1. Init => TypeInv
    BY TypeInit
  <1>2. TypeInv /\ [Next]_vars => TypeInv'
    BY TypeStep
  <1>3. TypeInv => TypeOK
    BY DEF TypeInv
  <1> QED BY <1>1, <1>2, <1>3, PTL DEF Spec

\* No snapshot operation changes a page on the block list: a restore leaves
\* them out, a creation tracks none of them, and so a discard does not bring
\* their old contents back either.
THEOREM PersistentPagesCorrect == Spec => PersistentPages
  <1> DEFINE Step == phase # "ready" /\ phase' = "ready"
                        => \A p \in vm.ram.blocklist : vm'.ram.host[p] = vm.ram.host[p]
  <1>1. Init => TypeInv
    BY TypeInit
  <1>2. TypeInv /\ [Next]_vars => TypeInv'
    BY TypeStep
  <1>3. TypeInv /\ [Next]_vars => [Step]_vars
    <2> SUFFICES ASSUME TypeInv, [Next]_vars, phase # "ready", phase' = "ready"
                 PROVE  LeavesBlocked(vm.ram, vm'.ram)
      BY DEF LeavesBlocked
    <2>1. ASSUME NEW garbage \in SUBSET HeapBits, SetupSnapshotOnce(garbage)
          PROVE  LeavesBlocked(vm.ram, vm'.ram)
      BY <2>1, SetupHandled
    <2>2. CASE Release \/ EndExec
      BY <2>2, ReleaseHandled
    <2>3. CASE CreateTmpSnapshot
      BY <2>3, CreateTmpHandled
    <2>4. \/ \E garbage \in SUBSET HeapBits : SetupSnapshotOnce(garbage)
          \/ Release \/ EndExec \/ CreateTmpSnapshot
      BY DEF Next, vars, GuestWrite, handle_dirty_ring_full, DeviceWrite, DeviceStep, DiskWrite,
             fast_reload_blacklist_page, Cover, pt_handle_overflow, PayloadWrite, FastAcquire,
             GoesOn
    <2> QED BY <2>1, <2>2, <2>3, <2>4
  <1> QED BY <1>1, <1>2, <1>3, PTL DEF Spec, PersistentPages

----------------------------------------------------------------------------
\* A point of the machine's history.
IsPoint(s) == s \in [disk : {s.disk}, path : {s.path}]

\* The fields of the history.
IsIdeal(i) ==
    /\ i \in [now : {i.now}, root : {i.root}, tmp : {i.tmp}]
    /\ IsPoint(i.now) /\ IsPoint(i.root) /\ IsPoint(i.tmp)

\* The inductive invariant of the coverage: between two executions nothing is
\* left to decode and the path is that of the snapshot the next one starts from,
\* whose coverage is in the copy.
PathInv ==
    /\ TypeInv
    /\ IsIdeal(ideal) /\ ideal.root.path = {}
    /\ in_fuzzing_loop => cov.bitmap \cup cov.pending = ideal.now.path
    /\ ~ in_fuzzing_loop =>
          /\ cov.pending = {}
          /\ ideal.now.path = IF vm.incremental_snapshot_enabled THEN ideal.tmp.path ELSE {}
    /\ vm.incremental_snapshot_enabled => cov.copy = ideal.tmp.path

\* Nothing is covered yet.
LEMMA PathInit ==
    ASSUME Init
    PROVE  PathInv
  <1>1. TypeInv
    BY TypeInit
  <1>2. ~ in_fuzzing_loop /\ ~ in_fuzzing_mode /\ cov.pending = {}
    BY DEF Init
  <1> DEFINE d == DiskContents(vm.disk.base, vm.disk.primary)
  <1>3. LET at == [disk |-> d, path |-> {}] IN ideal = [now |-> at, root |-> at, tmp |-> at]
    BY DEF Init
  <1> HIDE DEF d
  <1>4. IsIdeal(ideal) /\ ideal.root.path = {} /\ ideal.now.path = {}
    BY <1>3 DEF IsIdeal, IsPoint
  <1>5. ~ vm.incremental_snapshot_enabled
    BY <1>1, <1>2 DEF TypeInv
  <1> QED BY <1>1, <1>2, <1>4, <1>5 DEF PathInv

\* The end of an execution, after which the machine is at a snapshot.
LEMMA PathEnds ==
    ASSUME PathInv, TypeInv', IsIdeal(ideal'), ideal'.root = ideal.root,
           in_fuzzing_loop' = FALSE, cov'.pending = {},
           vm'.incremental_snapshot_enabled =>
               cov'.copy = ideal'.tmp.path /\ ideal'.now.path = ideal'.tmp.path,
           ~ vm'.incremental_snapshot_enabled => ideal'.now.path = {}
    PROVE  PathInv'
  BY DEF PathInv, TypeInv, IsIdeal, IsPoint

\* Every step keeps it.
LEMMA PathStep ==
    ASSUME PathInv, [Next]_vars
    PROVE  PathInv'
  <1>0. /\ TypeInv' /\ TypeInv /\ IsCov(cov) /\ IsIdeal(ideal) /\ Typed(vm)
        /\ in_fuzzing_loop \in BOOLEAN /\ discard_tmp_snapshot \in BOOLEAN
        /\ vm.incremental_snapshot_enabled \in BOOLEAN
    BY TypeStep DEF PathInv, TypeInv, TypeOK
  <1>1. ASSUME UNCHANGED <<flags, cov>>,
               vm'.incremental_snapshot_enabled = vm.incremental_snapshot_enabled,
               IsIdeal(ideal'), ideal'.root = ideal.root, ideal'.tmp = ideal.tmp,
               ideal'.now.path = ideal.now.path
        PROVE  PathInv'
    BY <1>0, <1>1 DEF PathInv, flags, IsIdeal, IsPoint
  <1>2. ASSUME NEW p \in setup.pages, NEW v \in Values, GuestWrite(p, v) PROVE PathInv'
    <2>1. vm'.incremental_snapshot_enabled = vm.incremental_snapshot_enabled
          /\ UNCHANGED <<flags, cov, ideal>>
      BY <1>0, <1>2 DEF GuestWrite, Typed, IsMachine
    <2> QED BY <1>0, <1>1, <2>1
  <1>3. CASE handle_dirty_ring_full
    <2>1. vm'.incremental_snapshot_enabled = vm.incremental_snapshot_enabled
          /\ UNCHANGED <<flags, cov, ideal>>
      BY <1>0, <1>3 DEF handle_dirty_ring_full, Typed, IsMachine
    <2> QED BY <1>0, <1>1, <2>1
  <1>4. ASSUME NEW w \in setup.dma, NEW v \in Values, DeviceWrite(w, v) PROVE PathInv'
    <2>1. vm'.incremental_snapshot_enabled = vm.incremental_snapshot_enabled
          /\ UNCHANGED <<flags, cov, ideal>>
      BY <1>0, <1>4 DEF DeviceWrite, Typed, IsMachine
    <2> QED BY <1>0, <1>1, <2>1
  <1>5. ASSUME NEW s \in setup.devs, DeviceStep(s) PROVE PathInv'
    <2>1. vm'.incremental_snapshot_enabled = vm.incremental_snapshot_enabled
          /\ UNCHANGED <<flags, cov, ideal>>
      BY <1>0, <1>5 DEF DeviceStep, Typed, IsMachine
    <2> QED BY <1>0, <1>1, <2>1
  <1>6. ASSUME NEW r \in setup.io, NEW v \in DiskValues, DiskWrite(r, v) PROVE PathInv'
    <2>1. vm'.incremental_snapshot_enabled = vm.incremental_snapshot_enabled
          /\ UNCHANGED <<flags, cov>>
      BY <1>0, <1>6 DEF DiskWrite, Typed, IsMachine
    <2> DEFINE d == [s \in Sectors |-> IF s \in RequestSectors(r) THEN v
                                       ELSE ideal.now.disk[s]]
    <2>2. \/ ideal' = ideal
          \/ ideal' = [ideal EXCEPT !.now.disk = d]
      BY <1>6 DEF DiskWrite
    <2> HIDE DEF d
    <2>3. /\ IsIdeal(ideal') /\ ideal'.root = ideal.root /\ ideal'.tmp = ideal.tmp
          /\ ideal'.now.path = ideal.now.path
      BY <1>0, <2>2 DEF IsIdeal, IsPoint
    <2> QED BY <1>1, <2>1, <2>3
  <1>7. ASSUME NEW p \in setup.persist, fast_reload_blacklist_page(p) PROVE PathInv'
    <2>1. vm'.incremental_snapshot_enabled = vm.incremental_snapshot_enabled
          /\ UNCHANGED <<flags, cov, ideal>>
      BY <1>0, <1>7 DEF fast_reload_blacklist_page, Typed, IsMachine
    <2> QED BY <1>0, <1>1, <2>1
  <1>8. ASSUME NEW p \in Pages, NEW v \in Values, PayloadWrite(p, v) PROVE PathInv'
    <2>1. vm'.incremental_snapshot_enabled = vm.incremental_snapshot_enabled
          /\ UNCHANGED <<flags, cov, ideal>>
      BY <1>0, <1>8 DEF PayloadWrite, Typed, IsMachine
    <2> QED BY <1>0, <1>1, <2>1
  <1>9. ASSUME NEW b \in setup.blocks, Cover(b) PROVE PathInv'
    <2>1. /\ in_fuzzing_loop /\ UNCHANGED <<vm, flags>>
          /\ cov' = [cov EXCEPT !.pending = @ \cup {b}]
          /\ ideal' = [ideal EXCEPT !.now.path = @ \cup {b}]
      BY <1>9 DEF Cover
    <2>2. /\ cov'.bitmap = cov.bitmap /\ cov'.copy = cov.copy
          /\ cov'.pending = cov.pending \cup {b}
      BY <1>0, <2>1 DEF IsCov
    <2>3. /\ IsIdeal(ideal') /\ ideal'.root = ideal.root /\ ideal'.tmp = ideal.tmp
          /\ ideal'.now.path = ideal.now.path \cup {b}
      BY <1>0, <2>1 DEF IsIdeal, IsPoint
    <2>4. cov'.bitmap \cup cov'.pending = ideal'.now.path
      BY <2>1, <2>2, <2>3 DEF PathInv
    <2> QED BY <1>0, <2>1, <2>2, <2>3, <2>4 DEF PathInv, flags, IsIdeal, IsPoint
  <1>10. CASE pt_handle_overflow
    <2>1. cov' = pt_dump(cov) /\ UNCHANGED <<vm, flags, ideal>>
      BY <1>10 DEF pt_handle_overflow
    <2>2. /\ cov'.bitmap = cov.bitmap \cup cov.pending /\ cov'.copy = cov.copy
          /\ cov'.pending = {}
      BY <1>0, <2>1 DEF IsCov, pt_dump
    <2>3. cov'.bitmap \cup cov'.pending = cov.bitmap \cup cov.pending
      BY <2>2
    <2> QED BY <1>0, <2>1, <2>2, <2>3 DEF PathInv, flags, IsIdeal, IsPoint
  <1>11. ASSUME NEW garbage \in SUBSET HeapBits, SetupSnapshotOnce(garbage) PROVE PathInv'
    <2>1. /\ cov' = [cov EXCEPT !.bitmap = {}] /\ ideal' = [ideal EXCEPT !.root = ideal.now]
          /\ in_fuzzing_loop' = in_fuzzing_loop /\ ~ in_fuzzing_mode
      BY <1>11 DEF SetupSnapshotOnce
    <2>2. ~ in_fuzzing_loop /\ ~ vm.incremental_snapshot_enabled
      BY <1>0, <2>1 DEF TypeInv
    <2>3. ~ vm'.incremental_snapshot_enabled
      BY <1>0, <1>11, <2>2, SetupHandled
    <2>4. cov'.pending = cov.pending
      BY <1>0, <2>1 DEF IsCov
    <2>5. IsIdeal(ideal') /\ ideal'.root = ideal.now /\ ideal'.now = ideal.now
      BY <1>0, <2>1 DEF IsIdeal, IsPoint
    <2>6. cov.pending = {} /\ ideal.now.path = {}
      BY <2>2 DEF PathInv
    <2> QED BY <1>0, <2>1, <2>2, <2>3, <2>4, <2>5, <2>6 DEF PathInv, IsIdeal, IsPoint
  <1>12. CASE FastAcquire
    <2>1. /\ cov' = pt_enable(cov, vm.incremental_snapshot_enabled)
          /\ ~ in_fuzzing_loop /\ in_fuzzing_loop' = TRUE /\ UNCHANGED <<vm, ideal>>
      BY <1>12 DEF FastAcquire
    <2>2. /\ cov'.bitmap = IF vm.incremental_snapshot_enabled THEN cov.copy ELSE {}
          /\ cov'.copy = cov.copy /\ cov'.pending = cov.pending
      BY <1>0, <2>1 DEF IsCov, pt_enable
    <2>3. cov'.bitmap \cup cov'.pending = ideal.now.path
      BY <2>1, <2>2 DEF PathInv
    <2> QED BY <1>0, <2>1, <2>2, <2>3 DEF PathInv, IsIdeal, IsPoint
  <1>13. CASE Release \/ EndExec
    <2>1. cov' = pt_dump(cov) /\ in_fuzzing_loop' = FALSE
      BY <1>13 DEF Release, EndExec, Ends
    <2>2. cov'.copy = cov.copy /\ cov'.pending = {}
      BY <1>0, <2>1 DEF IsCov, pt_dump
    <2> DEFINE x == handle_tmp_snapshot_state(vm)
    <2>3. /\ x.incremental_snapshot_enabled
               = (vm.incremental_snapshot_enabled /\ ~ discard_tmp_snapshot)
          /\ vm'.incremental_snapshot_enabled
               = (vm.incremental_snapshot_enabled /\ ~ discard_tmp_snapshot)
      BY <1>0, <1>13, HandleTmpHandled, ReleaseHandled
    <2>4. \/ ideal' = [ideal EXCEPT !.now = IF x.incremental_snapshot_enabled THEN ideal.tmp
                                            ELSE ideal.root]
          \/ ~ x.incremental_snapshot_enabled /\ ideal' = [ideal EXCEPT !.now.path = {}]
      BY <1>13 DEF Release, EndExec, Reloads
    <2> HIDE DEF x
    <2>5. /\ IsIdeal(ideal') /\ ideal'.root = ideal.root /\ ideal'.tmp = ideal.tmp
          /\ x.incremental_snapshot_enabled => ideal'.now = ideal.tmp
          /\ ~ x.incremental_snapshot_enabled =>
                ideal'.now = ideal.root \/ ideal'.now.path = {}
      BY <1>0, <2>4 DEF IsIdeal, IsPoint
    <2>6. ideal.root.path = {}
          /\ (vm.incremental_snapshot_enabled => cov.copy = ideal.tmp.path)
      BY DEF PathInv
    <2>7. vm'.incremental_snapshot_enabled =>
              cov'.copy = ideal'.tmp.path /\ ideal'.now.path = ideal'.tmp.path
      BY <2>2, <2>3, <2>5, <2>6
    <2>8. ~ vm'.incremental_snapshot_enabled => ideal'.now.path = {}
      BY <2>3, <2>5, <2>6
    <2> QED BY <1>0, <2>1, <2>2, <2>5, <2>7, <2>8, PathEnds
  <1>14. CASE CreateTmpSnapshot
    <2>1. cov' = CopyBitmap(cov) /\ in_fuzzing_loop' = FALSE /\ in_fuzzing_loop
      BY <1>14 DEF CreateTmpSnapshot, Ends
    <2>2. cov'.copy = cov.bitmap \cup cov.pending /\ cov'.pending = {}
      BY <1>0, <2>1 DEF IsCov, pt_dump, CopyBitmap
    <2> DEFINE w == fast_reload_create_tmp_snapshot(vm, setup.mode)
               y == fast_reload_restore(w, setup.mode)
               x == handle_tmp_snapshot_state(y)
    <2>3. Typed(w) /\ w.incremental_snapshot_enabled = TRUE
      BY <1>0, CreateHandled
    <2>4. Typed(y) /\ y.incremental_snapshot_enabled = TRUE
      BY <2>3, RestoreHandled
    <2>5. x.incremental_snapshot_enabled = ~ discard_tmp_snapshot
      <3> HIDE DEF y
      <3> QED BY <1>0, <2>4, HandleTmpHandled
    <2>6. vm'.incremental_snapshot_enabled = ~ discard_tmp_snapshot
      BY <1>0, <1>14, CreateTmpHandled
    <2>7. ideal' = [ideal EXCEPT !.tmp = ideal.now,
                                 !.now = IF x.incremental_snapshot_enabled THEN ideal.now
                                         ELSE ideal.root]
      BY <1>14 DEF CreateTmpSnapshot
    <2> HIDE DEF x
    <2>8. /\ IsIdeal(ideal') /\ ideal'.root = ideal.root /\ ideal'.tmp = ideal.now
          /\ ideal'.now = IF x.incremental_snapshot_enabled THEN ideal.now ELSE ideal.root
      BY <1>0, <2>7 DEF IsIdeal, IsPoint
    <2>9. ideal.root.path = {} /\ cov.bitmap \cup cov.pending = ideal.now.path
      BY <2>1 DEF PathInv
    <2>10. vm'.incremental_snapshot_enabled =>
              cov'.copy = ideal'.tmp.path /\ ideal'.now.path = ideal'.tmp.path
      BY <2>2, <2>5, <2>6, <2>8, <2>9
    <2>11. ~ vm'.incremental_snapshot_enabled => ideal'.now.path = {}
      BY <2>5, <2>6, <2>8, <2>9
    <2> QED BY <1>0, <2>1, <2>2, <2>8, <2>10, <2>11, PathEnds
  <1>15. CASE UNCHANGED vars
    BY <1>0, <1>1, <1>15 DEF vars, flags
  <1> QED BY <1>2, <1>3, <1>4, <1>5, <1>6, <1>7, <1>8, <1>9, <1>10, <1>11, <1>12, <1>13,
             <1>14, <1>15 DEF Next

\* The coverage the host reads is that of the path from the root snapshot: the
\* prefix behind a temporary snapshot comes from the copy of the bitmap, the
\* rest from this execution, and nothing an earlier execution left undecoded
\* is counted.
THEOREM CoverageCorrect == Spec => []CoverageOfPath
  <1>1. Init => PathInv
    BY PathInit
  <1>2. PathInv /\ [Next]_vars => PathInv'
    BY PathStep
  <1>3. PathInv => CoverageOfPath
    BY DEF PathInv, CoverageOfPath
  <1> QED BY <1>1, <1>2, <1>3, PTL DEF Spec

=============================================================================
