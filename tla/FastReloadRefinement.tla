------------------------ MODULE FastReloadRefinement ------------------------
(***************************************************************************)
(* For every value of the constants, FastReload implements                 *)
(* MachineSnapshot: what a restore does to dirty pages, copy-on-write      *)
(* layers and device fields, one after the other, is a reload of the whole *)
(* machine outside the pages a device can change unseen, and nothing else  *)
(* changes a snapshot.  Last, the disk by itself: the guest reads what it  *)
(* wrote on the path to this state.                                        *)
(***************************************************************************)
EXTENDS FastReloadProofs

\* What is assumed: the host asks for a temporary snapshot to be discarded only
\* while it reloads (libnyx, which turns reloads off, cannot discard).
DiscardsReload == \A c \in Configs : c.discard => c.reload_mode

\* No machine is the value that stands for no snapshot.
NoSnapshotIsNone == \A a, b, c : NoSnapshot # [ram |-> a, disk |-> b, dev |-> c]

\* d has the fields of the copy-on-write cache.
IsDisk(d) ==
    /\ d \in [base : {d.base}, primary : {d.primary}, secondary : {d.secondary},
              secondary_tmp : {d.secondary_tmp}, enabled_fuzz : {d.enabled_fuzz},
              enabled_fuzz_tmp : {d.enabled_fuzz_tmp}]
    /\ d.enabled_fuzz \in BOOLEAN /\ d.enabled_fuzz_tmp \in BOOLEAN

\* The parts of a machine agree on which snapshots there are.
PartsAgree(x) ==
    /\ IsDisk(x.disk) /\ IsDev(x.dev)
    /\ x.disk.enabled_fuzz = x.root_snapshot_created
    /\ x.disk.enabled_fuzz_tmp = x.incremental_snapshot_enabled
    /\ x.dev.tmp_enabled = x.incremental_snapshot_enabled

\* The pages of f in setup s without those a device can change unseen.
KeptPages(x, s, f) == [p \in (Pages \ x.ram.blocklist) \ Missed(s.dma) |-> f[p]]

\* What each request of io reads from d.
Reads(io, d) == [r \in io |-> cow_cache_read(d, r)]

\* The machine as it is.
Live(x, s) == [ram |-> KeptPages(x, s, x.ram.host), disk |-> Reads(s.io, x.disk),
               dev |-> x.dev.live]

\* The machine in its root snapshot.
RootOf(x, s) == [ram |-> KeptPages(x, s, x.ram.snapshot),
                 disk |-> Reads(s.io, [x.disk EXCEPT !.enabled_fuzz = FALSE]),
                 dev |-> x.dev.copy]

\* The machine in its temporary snapshot.
TmpOf(x, s) == [ram |-> KeptPages(x, s, x.ram.incremental),
                disk |-> Reads(s.io, [x.disk EXCEPT !.enabled_fuzz_tmp = FALSE]),
                dev |-> x.dev.tmp]

----------------------------------------------------------------------------
\* A read depends on the layers that are in use.
LEMMA ReadLayers ==
    ASSUME NEW d, NEW e, NEW r, d.base = e.base, d.primary = e.primary,
           d.enabled_fuzz = e.enabled_fuzz, d.enabled_fuzz_tmp = e.enabled_fuzz_tmp,
           d.enabled_fuzz => d.secondary = e.secondary,
           d.enabled_fuzz /\ d.enabled_fuzz_tmp => d.secondary_tmp = e.secondary_tmp
    PROVE  cow_cache_read(d, r) = cow_cache_read(e, r)
  <1>1. ASSUME NEW k, NEW old
        PROVE  read_from_buffers(d, k, old) = read_from_buffers(e, k, old)
    BY DEF read_from_buffers
  <1> QED BY <1>1 DEF cow_cache_read

\* An empty layer answers nothing.
LEMMA EmptyTmpLayer ==
    ASSUME NEW d, NEW e, NEW r, d.base = e.base, d.primary = e.primary,
           d.secondary = e.secondary, d.enabled_fuzz = e.enabled_fuzz,
           d.secondary_tmp = NoChunks, e.enabled_fuzz_tmp = FALSE
    PROVE  cow_cache_read(d, r) = cow_cache_read(e, r)
  <1>1. ASSUME NEW k, NEW old
        PROVE  read_from_buffers(d, k, old) = read_from_buffers(e, k, old)
    BY DEF read_from_buffers, NoChunks
  <1> QED BY <1>1 DEF cow_cache_read

\* An empty secondary layer answers nothing either.
LEMMA EmptySecondaryLayer ==
    ASSUME NEW d, NEW e, NEW r, d.base = e.base, d.primary = e.primary,
           d.secondary = NoChunks, d.enabled_fuzz_tmp = FALSE, e.enabled_fuzz = FALSE
    PROVE  cow_cache_read(d, r) = cow_cache_read(e, r)
  <1>1. ASSUME NEW k, NEW old
        PROVE  read_from_buffers(d, k, old) = read_from_buffers(e, k, old)
    BY DEF read_from_buffers, NoChunks
  <1> QED BY <1>1 DEF cow_cache_read

\* Going back to the current snapshot: the machine becomes that snapshot, and
\* no snapshot changes.
LEMMA RestoreIsReload ==
    ASSUME NEW x, NEW s, s.mode \in Modes, Sound(x, s), PartsAgree(x)
    PROVE  LET r == fast_reload_restore(x, s.mode)
           IN  /\ Sound(r, s) /\ PartsAgree(r)
               /\ r.incremental_snapshot_enabled = x.incremental_snapshot_enabled
               /\ RootOf(r, s) = RootOf(x, s)
               /\ x.incremental_snapshot_enabled => TmpOf(r, s) = TmpOf(x, s)
               /\ Live(r, s) = IF x.incremental_snapshot_enabled THEN TmpOf(x, s)
                                ELSE RootOf(x, s)
  <1> DEFINE r == fast_reload_restore(x, s.mode)
             m == fast_snapshot_restore_operation(x.ram, s.mode)
  <1>1. Sound(r, s)
    BY RestoreSound
  <1>2. /\ IsMachine(r)
        /\ r.ram = m
        /\ r.disk = cow_cache_reset(x.disk) /\ r.dev = fdl_fast_reload(x.dev)
        /\ r.root_snapshot_created = TRUE /\ x.root_snapshot_created = TRUE
        /\ r.incremental_snapshot_enabled = x.incremental_snapshot_enabled
    BY DEF Sound, IsMachine, fast_reload_restore
  <1>3. /\ Restored(m, Missed(s.dma))
        /\ m.blocklist = x.ram.blocklist
        /\ m.snapshot = x.ram.snapshot /\ m.incremental = x.ram.incremental
        /\ m.incremental_enabled = x.incremental_snapshot_enabled
    BY RestoreRestores DEF Sound
  <1>4. /\ IsDev(r.dev)
        /\ r.dev.copy = x.dev.copy /\ r.dev.tmp = x.dev.tmp
        /\ r.dev.tmp_enabled = x.dev.tmp_enabled
        /\ r.dev.live = IF x.incremental_snapshot_enabled THEN x.dev.tmp ELSE x.dev.copy
    BY <1>2 DEF PartsAgree, IsDev, fdl_fast_reload
  <1>5. /\ IsDisk(r.disk)
        /\ r.disk.base = x.disk.base /\ r.disk.primary = x.disk.primary
        /\ r.disk.enabled_fuzz = TRUE
        /\ r.disk.enabled_fuzz_tmp = x.incremental_snapshot_enabled
        /\ x.incremental_snapshot_enabled
             => r.disk.secondary = x.disk.secondary /\ r.disk.secondary_tmp = NoChunks
        /\ ~ x.incremental_snapshot_enabled
             => r.disk.secondary = NoChunks /\ r.disk.secondary_tmp = x.disk.secondary_tmp
    BY <1>2 DEF PartsAgree, IsDisk, cow_cache_reset
  <1>6. x.incremental_snapshot_enabled \in BOOLEAN /\ IsDisk(x.disk) /\ x.disk.enabled_fuzz = TRUE
        /\ x.disk.enabled_fuzz_tmp = x.incremental_snapshot_enabled
    BY <1>2 DEF Sound, PartsAgree
  <1>7. PartsAgree(r)
    BY <1>2, <1>4, <1>5 DEF PartsAgree
  <1> HIDE DEF r, m
  <1>8. KeptPages(r, s, r.ram.snapshot) = KeptPages(x, s, x.ram.snapshot)
        /\ KeptPages(r, s, r.ram.incremental) = KeptPages(x, s, x.ram.incremental)
    BY <1>2, <1>3 DEF KeptPages
  <1>9. ASSUME NEW q
        PROVE  /\ cow_cache_read([r.disk EXCEPT !.enabled_fuzz = FALSE], q)
                    = cow_cache_read([x.disk EXCEPT !.enabled_fuzz = FALSE], q)
    <2> DEFINE a == [r.disk EXCEPT !.enabled_fuzz = FALSE]
               b == [x.disk EXCEPT !.enabled_fuzz = FALSE]
    <2>1. /\ a.base = b.base /\ a.primary = b.primary
          /\ a.enabled_fuzz = FALSE /\ b.enabled_fuzz = FALSE
          /\ a.enabled_fuzz_tmp = b.enabled_fuzz_tmp
      BY <1>5, <1>6 DEF IsDisk
    <2> HIDE DEF a, b
    <2>2. cow_cache_read(a, q) = cow_cache_read(b, q)
      BY <2>1, ReadLayers
    <2> QED BY <2>2 DEF a, b
  <1>10. RootOf(r, s) = RootOf(x, s)
    BY <1>4, <1>8, <1>9 DEF RootOf, Reads
  <1>11. CASE x.incremental_snapshot_enabled
    <2>1. ASSUME NEW q
          PROVE  /\ cow_cache_read([r.disk EXCEPT !.enabled_fuzz_tmp = FALSE], q)
                      = cow_cache_read([x.disk EXCEPT !.enabled_fuzz_tmp = FALSE], q)
                 /\ cow_cache_read(r.disk, q)
                      = cow_cache_read([x.disk EXCEPT !.enabled_fuzz_tmp = FALSE], q)
      <3> DEFINE a == [r.disk EXCEPT !.enabled_fuzz_tmp = FALSE]
                 b == [x.disk EXCEPT !.enabled_fuzz_tmp = FALSE]
      <3>1. /\ a.base = b.base /\ a.primary = b.primary /\ a.secondary = b.secondary
            /\ a.enabled_fuzz = b.enabled_fuzz
            /\ a.enabled_fuzz_tmp = FALSE /\ b.enabled_fuzz_tmp = FALSE
            /\ r.disk.base = b.base /\ r.disk.primary = b.primary
            /\ r.disk.secondary = b.secondary /\ r.disk.enabled_fuzz = b.enabled_fuzz
            /\ r.disk.secondary_tmp = NoChunks
        BY <1>5, <1>6, <1>11 DEF IsDisk
      <3> HIDE DEF a, b
      <3>2. cow_cache_read(a, q) = cow_cache_read(b, q)
        BY <3>1, ReadLayers
      <3>3. cow_cache_read(r.disk, q) = cow_cache_read(b, q)
        BY <3>1, EmptyTmpLayer
      <3> QED BY <3>2, <3>3 DEF a, b
    <2>2. TmpOf(r, s) = TmpOf(x, s)
      BY <1>4, <1>8, <2>1 DEF TmpOf, Reads
    <2>3. KeptPages(r, s, r.ram.host) = KeptPages(x, s, x.ram.incremental)
      BY <1>2, <1>3, <1>11 DEF KeptPages, Restored, current_region
    <2>4. Live(r, s) = TmpOf(x, s)
      BY <1>4, <1>11, <2>1, <2>3 DEF Live, TmpOf, Reads
    <2> QED BY <1>1, <1>2, <1>7, <1>10, <1>11, <2>2, <2>4 DEF r
  <1>12. CASE ~ x.incremental_snapshot_enabled
    <2>1. ASSUME NEW q
          PROVE  cow_cache_read(r.disk, q)
                   = cow_cache_read([x.disk EXCEPT !.enabled_fuzz = FALSE], q)
      <3> DEFINE b == [x.disk EXCEPT !.enabled_fuzz = FALSE]
      <3>1. /\ r.disk.base = b.base /\ r.disk.primary = b.primary
            /\ r.disk.secondary = NoChunks /\ r.disk.enabled_fuzz_tmp = FALSE
            /\ b.enabled_fuzz = FALSE
        BY <1>5, <1>6, <1>12 DEF IsDisk
      <3> HIDE DEF b
      <3>2. cow_cache_read(r.disk, q) = cow_cache_read(b, q)
        BY <3>1, EmptySecondaryLayer
      <3> QED BY <3>2 DEF b
    <2>2. KeptPages(r, s, r.ram.host) = KeptPages(x, s, x.ram.snapshot)
      BY <1>2, <1>3, <1>12 DEF KeptPages, Restored, current_region
    <2>3. Live(r, s) = RootOf(x, s)
      BY <1>4, <1>12, <2>1, <2>2 DEF Live, RootOf, Reads
    <2> QED BY <1>1, <1>2, <1>7, <1>10, <1>12, <2>3 DEF r
  <1> QED BY <1>6, <1>11, <1>12

\* Taking the temporary snapshot: it is the machine as it is.
LEMMA CreateIsSave ==
    ASSUME NEW x, NEW s, s.mode \in Modes, Sound(x, s), PartsAgree(x),
           ~ x.incremental_snapshot_enabled
    PROVE  LET r == fast_reload_create_tmp_snapshot(x, s.mode)
           IN  /\ Sound(r, s) /\ PartsAgree(r)
               /\ r.incremental_snapshot_enabled = TRUE
               /\ RootOf(r, s) = RootOf(x, s) /\ TmpOf(r, s) = Live(x, s)
  <1> DEFINE r == fast_reload_create_tmp_snapshot(x, s.mode)
             m == fast_snapshot_create_incremental_operation(x.ram, s.mode)
  <1>1. Sound(r, s)
    BY CreateSound
  <1>2. /\ IsMachine(r)
        /\ r.ram = m
        /\ r.disk = cow_cache_enable_tmp_mode(x.disk)
        /\ r.dev = nyx_device_state_switch_incremental(x.dev)
        /\ r.root_snapshot_created = TRUE /\ x.root_snapshot_created = TRUE
        /\ r.incremental_snapshot_enabled = TRUE
    BY DEF Sound, IsMachine, fast_reload_create_tmp_snapshot
  <1>3. x.ram.incremental_enabled = FALSE /\ x.disk.enabled_fuzz_tmp = FALSE
        /\ x.disk.enabled_fuzz = TRUE /\ IsDisk(x.disk)
    BY <1>2 DEF Sound, PartsAgree
  <1>4. /\ Restored(m, Missed(s.dma)) /\ m.incremental_enabled = TRUE
        /\ m.host = x.ram.host /\ m.snapshot = x.ram.snapshot /\ m.blocklist = x.ram.blocklist
    BY <1>3, CreateTracks DEF Sound
  <1>5. /\ IsDev(r.dev)
        /\ r.dev.copy = x.dev.copy /\ r.dev.tmp = x.dev.live /\ r.dev.tmp_enabled = TRUE
    BY <1>2 DEF PartsAgree, IsDev, nyx_device_state_switch_incremental
  <1>6. /\ IsDisk(r.disk)
        /\ r.disk.base = x.disk.base /\ r.disk.primary = x.disk.primary
        /\ r.disk.secondary = x.disk.secondary
        /\ r.disk.enabled_fuzz = TRUE /\ r.disk.enabled_fuzz_tmp = TRUE
    BY <1>2, <1>3 DEF IsDisk, cow_cache_enable_tmp_mode
  <1>7. PartsAgree(r)
    BY <1>2, <1>5, <1>6 DEF PartsAgree
  <1> HIDE DEF r, m
  <1>8. ASSUME NEW q
        PROVE  /\ cow_cache_read([r.disk EXCEPT !.enabled_fuzz = FALSE], q)
                    = cow_cache_read([x.disk EXCEPT !.enabled_fuzz = FALSE], q)
               /\ cow_cache_read([r.disk EXCEPT !.enabled_fuzz_tmp = FALSE], q)
                    = cow_cache_read(x.disk, q)
    <2> DEFINE a == [r.disk EXCEPT !.enabled_fuzz = FALSE]
               b == [x.disk EXCEPT !.enabled_fuzz = FALSE]
               c == [r.disk EXCEPT !.enabled_fuzz_tmp = FALSE]
    <2>1. /\ a.base = b.base /\ a.primary = b.primary
          /\ a.enabled_fuzz = FALSE /\ b.enabled_fuzz = FALSE
      BY <1>3, <1>6 DEF IsDisk
    <2>2. /\ c.base = x.disk.base /\ c.primary = x.disk.primary
          /\ c.secondary = x.disk.secondary
          /\ c.enabled_fuzz = TRUE /\ c.enabled_fuzz_tmp = FALSE
      BY <1>6 DEF IsDisk
    <2> HIDE DEF a, b, c
    <2>3. ASSUME NEW k, NEW old
          PROVE  read_from_buffers(a, k, old) = read_from_buffers(b, k, old)
      BY <2>1 DEF read_from_buffers
    <2>4. cow_cache_read(a, q) = cow_cache_read(b, q)
      BY <2>1, <2>3 DEF cow_cache_read
    <2>5. ASSUME NEW k, NEW old
          PROVE  read_from_buffers(c, k, old) = read_from_buffers(x.disk, k, old)
      BY <1>3, <2>2 DEF read_from_buffers
    <2>6. cow_cache_read(c, q) = cow_cache_read(x.disk, q)
      BY <2>2, <2>5 DEF cow_cache_read
    <2> QED BY <2>4, <2>6 DEF a, b, c
  <1>9. /\ KeptPages(r, s, r.ram.snapshot) = KeptPages(x, s, x.ram.snapshot)
        /\ KeptPages(r, s, r.ram.incremental) = KeptPages(x, s, x.ram.host)
    BY <1>2, <1>4 DEF KeptPages, Restored, current_region
  <1>10. RootOf(r, s) = RootOf(x, s)
    BY <1>5, <1>8, <1>9 DEF RootOf, Reads
  <1>11. TmpOf(r, s) = Live(x, s)
    BY <1>5, <1>8, <1>9 DEF TmpOf, Live, Reads
  <1> QED BY <1>1, <1>2, <1>7, <1>10, <1>11 DEF r

\* Discarding it: the root snapshot stays; the machine is reloaded afterwards.
LEMMA DiscardKeepsRoot ==
    ASSUME NEW x, NEW s, s.mode \in Modes, Sound(x, s), PartsAgree(x)
    PROVE  LET r == fast_reload_discard_tmp_snapshot(x, s.mode)
           IN  /\ Sound(r, s) /\ PartsAgree(r)
               /\ r.incremental_snapshot_enabled = FALSE
               /\ RootOf(r, s) = RootOf(x, s)
  <1> DEFINE r == fast_reload_discard_tmp_snapshot(x, s.mode)
             m == discard_incremental(x.ram, s.mode)
  <1>1. Sound(r, s)
    BY DiscardSound
  <1>2. /\ IsMachine(r)
        /\ r.ram = m
        /\ r.disk = cow_cache_disable_tmp_mode(x.disk)
        /\ r.dev = nyx_device_state_disable_incremental(x.dev)
        /\ r.root_snapshot_created = TRUE /\ x.root_snapshot_created = TRUE
        /\ r.incremental_snapshot_enabled = FALSE
    BY DEF Sound, IsMachine, fast_reload_discard_tmp_snapshot
  <1>3. x.disk.enabled_fuzz = TRUE /\ IsDisk(x.disk)
    BY <1>2 DEF Sound, PartsAgree
  <1>4. m.snapshot = x.ram.snapshot /\ m.blocklist = x.ram.blocklist
    BY DiscardTracks DEF Sound
  <1>5. /\ IsDev(r.dev)
        /\ r.dev.copy = x.dev.copy /\ r.dev.tmp_enabled = FALSE
    BY <1>2 DEF PartsAgree, IsDev, nyx_device_state_disable_incremental
  <1>6. /\ IsDisk(r.disk)
        /\ r.disk.base = x.disk.base /\ r.disk.primary = x.disk.primary
        /\ r.disk.enabled_fuzz = TRUE /\ r.disk.enabled_fuzz_tmp = FALSE
    BY <1>2, <1>3 DEF IsDisk, cow_cache_disable_tmp_mode, cow_cache_reset
  <1>7. PartsAgree(r)
    BY <1>2, <1>5, <1>6 DEF PartsAgree
  <1> HIDE DEF r, m
  <1>8. ASSUME NEW q
        PROVE  cow_cache_read([r.disk EXCEPT !.enabled_fuzz = FALSE], q)
                 = cow_cache_read([x.disk EXCEPT !.enabled_fuzz = FALSE], q)
    <2> DEFINE a == [r.disk EXCEPT !.enabled_fuzz = FALSE]
               b == [x.disk EXCEPT !.enabled_fuzz = FALSE]
    <2>1. /\ a.base = b.base /\ a.primary = b.primary
          /\ a.enabled_fuzz = FALSE /\ b.enabled_fuzz = FALSE
      BY <1>3, <1>6 DEF IsDisk
    <2> HIDE DEF a, b
    <2>2. ASSUME NEW k, NEW old
          PROVE  read_from_buffers(a, k, old) = read_from_buffers(b, k, old)
      BY <2>1 DEF read_from_buffers
    <2>3. cow_cache_read(a, q) = cow_cache_read(b, q)
      BY <2>1, <2>2 DEF cow_cache_read
    <2> QED BY <2>3 DEF a, b
  <1>9. KeptPages(r, s, r.ram.snapshot) = KeptPages(x, s, x.ram.snapshot)
    BY <1>2, <1>4 DEF KeptPages
  <1>10. RootOf(r, s) = RootOf(x, s)
    BY <1>5, <1>8, <1>9 DEF RootOf, Reads
  <1> QED BY <1>1, <1>2, <1>7, <1>10 DEF r

----------------------------------------------------------------------------
\* A temporary snapshot is taken behind the first payload only, and the host is
\* told of it.
TmpWhileFuzzing ==
    /\ vm.incremental_snapshot_enabled => in_fuzzing_mode
    /\ tmp_snapshot_created = vm.incremental_snapshot_enabled

\* The inductive invariant of the refinement.
RefinementInv ==
    /\ MemoryInv
    /\ PartsAgree(vm)
    /\ discard_tmp_snapshot \in BOOLEAN
    /\ discard_tmp_snapshot => in_reload_mode
    /\ TmpWhileFuzzing

\* The root snapshot as MachineSnapshot sees it.
RootView(x, s) == IF x.root_snapshot_created THEN RootOf(x, s) ELSE NoSnapshot

\* The temporary snapshot as MachineSnapshot sees it.
TmpView(x, s) == IF x.incremental_snapshot_enabled THEN TmpOf(x, s) ELSE NoSnapshot

\* The refinement mapping in these terms, before and after a step.
LEMMA Views ==
    /\ LiveMachine(Recorded) = Live(vm, setup)
    /\ RootMachine(Recorded) = RootView(vm, setup)
    /\ TmpMachine(Recorded) = TmpView(vm, setup)
  BY DEF Machine, LiveMachine, RootMachine, TmpMachine, Kept, Recorded, Live, RootView, TmpView,
         RootOf, TmpOf, KeptPages, Reads

\* The same after a step.
LEMMA PrimedViews ==
    /\ LiveMachine(Recorded)' = Live(vm', setup')
    /\ RootMachine(Recorded)' = RootView(vm', setup')
    /\ TmpMachine(Recorded)' = TmpView(vm', setup')
  BY DEF Machine, LiveMachine, RootMachine, TmpMachine, Kept, Recorded, Live, RootView, TmpView,
         RootOf, TmpOf, KeptPages, Reads

\* A machine is not NoSnapshot.
LEMMA SnapshotsExist ==
    ASSUME NoSnapshotIsNone, NEW x, NEW s
    PROVE  RootOf(x, s) # NoSnapshot /\ TmpOf(x, s) # NoSnapshot /\ Live(x, s) # NoSnapshot
  BY DEF NoSnapshotIsNone, RootOf, TmpOf, Live

\* The machine runs: its snapshots stay.
LEMMA RunStep ==
    ASSUME RefinementInv, Running, GoesOn, setup' = setup,
           discard_tmp_snapshot' = discard_tmp_snapshot,
           RootView(vm', setup) = RootView(vm, setup),
           TmpView(vm', setup) = TmpView(vm, setup)
    PROVE  RecordedSnapshots!Next
  <1>1. CASE phase = "boot"
    <2>1. vm.root_snapshot_created = FALSE
      BY <1>1 DEF RefinementInv, MemoryInv, Running, Sound, Booting
    <2>2. RecordedSnapshots!Boot
      BY <1>1, <2>1, Views, PrimedViews DEF RecordedSnapshots!Boot, GoesOn, RootView, TmpView
    <2> QED BY <2>2 DEF RecordedSnapshots!Next
  <1>2. CASE phase # "boot"
    <2>1. RecordedSnapshots!Run
      BY <1>2, Views, PrimedViews
         DEF RecordedSnapshots!Run, RecordedSnapshots!Fuzzing, GoesOn, Running, RootView, TmpView
    <2> QED BY <2>1 DEF RecordedSnapshots!Next
  <1> QED BY <1>1, <1>2

\* Nothing changes that a snapshot could tell.
LEMMA StutterStep ==
    ASSUME setup' = setup, phase' = phase,
           discard_tmp_snapshot' = discard_tmp_snapshot,
           Live(vm', setup) = Live(vm, setup),
           RootView(vm', setup) = RootView(vm, setup),
           TmpView(vm', setup) = TmpView(vm, setup)
    PROVE  UNCHANGED RecordedSnapshots!vars
  BY Views, PrimedViews DEF RecordedSnapshots!vars, RootView, TmpView

\* QEMU aborts: nothing is said of the machine afterwards.
LEMMA AbortStep ==
    ASSUME setup' = setup, phase' = "aborted", vm' = vm,
           discard_tmp_snapshot' = discard_tmp_snapshot
    PROVE  RecordedSnapshots!Next
  <1>1. RecordedSnapshots!Abort
    BY Views, PrimedViews DEF RecordedSnapshots!Abort
  <1> QED BY <1>1 DEF RecordedSnapshots!Next

\* A write to the disk changes no snapshot.
LEMMA DiskWriteKeeps ==
    ASSUME NEW x, NEW q, NEW v, NEW s, NEW y, PartsAgree(x),
           x.root_snapshot_created \in BOOLEAN, x.incremental_snapshot_enabled \in BOOLEAN,
           ~ x.root_snapshot_created => ~ x.incremental_snapshot_enabled,
           y.disk = cow_cache_write(x.disk, q, v), y.ram = x.ram, y.dev = x.dev,
           y.root_snapshot_created = x.root_snapshot_created,
           y.incremental_snapshot_enabled = x.incremental_snapshot_enabled
    PROVE  /\ PartsAgree(y)
           /\ RootView(y, s) = RootView(x, s) /\ TmpView(y, s) = TmpView(x, s)
  <1> DEFINE d == x.disk
             e == y.disk
  <1>1. IsDisk(d) /\ d.enabled_fuzz \in BOOLEAN /\ d.enabled_fuzz_tmp \in BOOLEAN
    BY DEF PartsAgree, IsDisk
  <1>2. /\ IsDisk(e)
        /\ e.base = d.base
        /\ e.enabled_fuzz = d.enabled_fuzz /\ e.enabled_fuzz_tmp = d.enabled_fuzz_tmp
        /\ d.enabled_fuzz => e.primary = d.primary
        /\ d.enabled_fuzz /\ d.enabled_fuzz_tmp => e.secondary = d.secondary
    BY <1>1 DEF cow_cache_write, IsDisk
  <1>3. PartsAgree(y)
    BY <1>2 DEF PartsAgree
  <1>4. ASSUME d.enabled_fuzz, NEW r
        PROVE  cow_cache_read([e EXCEPT !.enabled_fuzz = FALSE], r)
                 = cow_cache_read([d EXCEPT !.enabled_fuzz = FALSE], r)
    <2> DEFINE a == [e EXCEPT !.enabled_fuzz = FALSE]
               b == [d EXCEPT !.enabled_fuzz = FALSE]
    <2>1. /\ a.base = b.base /\ a.primary = b.primary
          /\ a.enabled_fuzz = FALSE /\ b.enabled_fuzz = FALSE
      BY <1>1, <1>2, <1>4 DEF IsDisk
    <2> HIDE DEF a, b
    <2>2. ASSUME NEW k, NEW old
          PROVE  read_from_buffers(a, k, old) = read_from_buffers(b, k, old)
      BY <2>1 DEF read_from_buffers
    <2>3. cow_cache_read(a, r) = cow_cache_read(b, r)
      BY <2>1, <2>2 DEF cow_cache_read
    <2> QED BY <2>3 DEF a, b
  <1>5. ASSUME d.enabled_fuzz, d.enabled_fuzz_tmp, NEW r
        PROVE  cow_cache_read([e EXCEPT !.enabled_fuzz_tmp = FALSE], r)
                 = cow_cache_read([d EXCEPT !.enabled_fuzz_tmp = FALSE], r)
    <2> DEFINE a == [e EXCEPT !.enabled_fuzz_tmp = FALSE]
               b == [d EXCEPT !.enabled_fuzz_tmp = FALSE]
    <2>1. /\ a.base = b.base /\ a.primary = b.primary /\ a.secondary = b.secondary
          /\ a.enabled_fuzz = b.enabled_fuzz
          /\ a.enabled_fuzz_tmp = FALSE /\ b.enabled_fuzz_tmp = FALSE
      BY <1>1, <1>2, <1>5 DEF IsDisk
    <2> HIDE DEF a, b
    <2>2. ASSUME NEW k, NEW old
          PROVE  read_from_buffers(a, k, old) = read_from_buffers(b, k, old)
      BY <2>1 DEF read_from_buffers
    <2>3. cow_cache_read(a, r) = cow_cache_read(b, r)
      BY <2>1, <2>2 DEF cow_cache_read
    <2> QED BY <2>3 DEF a, b
  <1>6. /\ d.enabled_fuzz = x.root_snapshot_created
        /\ d.enabled_fuzz_tmp = x.incremental_snapshot_enabled
    BY DEF PartsAgree
  <1> HIDE DEF d, e
  <1>7. ASSUME x.root_snapshot_created PROVE RootOf(y, s) = RootOf(x, s)
    BY <1>4, <1>6, <1>7 DEF RootOf, Reads, KeptPages, d, e
  <1>8. ASSUME x.root_snapshot_created, x.incremental_snapshot_enabled
        PROVE  TmpOf(y, s) = TmpOf(x, s)
    BY <1>5, <1>6, <1>8 DEF TmpOf, Reads, KeptPages, d, e
  <1> QED BY <1>3, <1>7, <1>8 DEF RootView, TmpView

----------------------------------------------------------------------------
\* The end of an execution: a snapshot to be discarded is, and the machine goes
\* back to the one that is left.
LEMMA EndIsReload ==
    ASSUME NoSnapshotIsNone, NEW x, setup \in Setups, discard_tmp_snapshot \in BOOLEAN,
           Sound(x, setup), PartsAgree(x)
    PROVE  LET z == fast_reload_restore(handle_tmp_snapshot_state(x), setup.mode)
               t == IF discard_tmp_snapshot THEN NoSnapshot ELSE TmpView(x, setup)
           IN  /\ Sound(z, setup) /\ PartsAgree(z)
               /\ RootOf(z, setup) = RootOf(x, setup)
               /\ TmpView(z, setup) = t
               /\ Live(z, setup) = IF t = NoSnapshot THEN RootOf(x, setup) ELSE t
               /\ z.incremental_snapshot_enabled
                    = (~ discard_tmp_snapshot /\ x.incremental_snapshot_enabled)
  <1> DEFINE y == handle_tmp_snapshot_state(x)
             z == fast_reload_restore(y, setup.mode)
             t == IF discard_tmp_snapshot THEN NoSnapshot ELSE TmpView(x, setup)
  <1>1. setup.mode \in Modes
    BY ModeKnown
  <1>2. x.incremental_snapshot_enabled \in BOOLEAN
    BY DEF Sound
  <1>3. /\ Sound(y, setup) /\ PartsAgree(y)
        /\ RootOf(y, setup) = RootOf(x, setup)
        /\ y.incremental_snapshot_enabled
             = (~ discard_tmp_snapshot /\ x.incremental_snapshot_enabled)
        /\ TmpView(y, setup) = t
    <2>1. CASE discard_tmp_snapshot /\ x.incremental_snapshot_enabled
      <3>1. y = fast_reload_discard_tmp_snapshot(x, setup.mode)
        BY <2>1 DEF handle_tmp_snapshot_state
      <3> HIDE DEF y
      <3>2. /\ Sound(y, setup) /\ PartsAgree(y)
            /\ y.incremental_snapshot_enabled = FALSE
            /\ RootOf(y, setup) = RootOf(x, setup)
        BY <1>1, <3>1, DiscardKeepsRoot
      <3> QED BY <2>1, <3>2 DEF TmpView
    <2>2. CASE ~ (discard_tmp_snapshot /\ x.incremental_snapshot_enabled)
      <3>1. y = x
        BY <2>2 DEF handle_tmp_snapshot_state
      <3> HIDE DEF y
      <3> QED BY <1>2, <2>2, <3>1 DEF TmpView
    <2> QED BY <2>1, <2>2
  <1> HIDE DEF y
  <1>4. /\ Sound(z, setup) /\ PartsAgree(z)
        /\ z.incremental_snapshot_enabled = y.incremental_snapshot_enabled
        /\ RootOf(z, setup) = RootOf(y, setup)
        /\ y.incremental_snapshot_enabled => TmpOf(z, setup) = TmpOf(y, setup)
        /\ Live(z, setup) = IF y.incremental_snapshot_enabled THEN TmpOf(y, setup)
                         ELSE RootOf(y, setup)
    BY <1>1, <1>3, RestoreIsReload
  <1> HIDE DEF z
  <1>5. TmpOf(y, setup) # NoSnapshot
    BY SnapshotsExist
  <1>6. /\ TmpView(z, setup) = t
        /\ Live(z, setup) = IF t = NoSnapshot THEN RootOf(x, setup) ELSE t
    BY <1>3, <1>4, <1>5 DEF TmpView
  <1> QED BY <1>3, <1>4, <1>6 DEF z, y

\* Starting: nothing is saved yet, or the machine is in the snapshot it loaded.
LEMMA RefinementInit ==
    ASSUME Init
    PROVE  RefinementInv /\ RecordedSnapshots!Init
  <1>1. MemoryInv
    BY MemoryInit
  <1>2. discard_tmp_snapshot = FALSE /\ tmp_snapshot_created = FALSE /\ phase = "boot"
    BY DEF Init
  <1>3. CASE vm = NewMachine
    <2>1. PartsAgree(vm) /\ vm.root_snapshot_created = FALSE
          /\ vm.incremental_snapshot_enabled = FALSE
      BY <1>3 DEF NewMachine, PartsAgree, IsDisk, IsDev, cow_cache_new
    <2> QED BY <1>1, <1>2, <2>1, Views
           DEF RefinementInv, TmpWhileFuzzing, RecordedSnapshots!Init, RootView, TmpView
  <1>4. ASSUME NEW f \in Folders, NEW garbage \in SUBSET HeapBits,
               vm = fast_reload_create_from_file(NewMachine, f, garbage)
        PROVE  RefinementInv /\ RecordedSnapshots!Init
    <2>1. /\ vm.disk = [base |-> BootImage, primary |-> f.primary, secondary |-> NoChunks,
                        secondary_tmp |-> NoChunks, enabled_fuzz |-> TRUE,
                        enabled_fuzz_tmp |-> FALSE]
          /\ vm.dev = [live |-> f.dev, copy |-> f.dev, tmp |-> BootDevices,
                       tmp_enabled |-> FALSE]
          /\ vm.root_snapshot_created = TRUE /\ vm.incremental_snapshot_enabled = FALSE
      BY <1>4 DEF fast_reload_create_from_file, NewMachine, read_primary_buffer,
                  switch_to_fuzz_mode, cow_cache_new
    <2>2. vm.ram.host = f.ram /\ vm.ram.snapshot = f.ram
      BY <1>4 DEF fast_reload_create_from_file, NewMachine, shadow_memory_init
    <2>3. IsDisk(vm.disk) /\ vm.disk.enabled_fuzz = TRUE /\ vm.disk.enabled_fuzz_tmp = FALSE
      BY <2>1 DEF IsDisk
    <2>4. IsDev(vm.dev) /\ vm.dev.tmp_enabled = FALSE
      BY <2>1 DEF IsDev
    <2>5. PartsAgree(vm)
      BY <2>1, <2>3, <2>4 DEF PartsAgree
    <2>6. ASSUME NEW q
          PROVE  cow_cache_read(vm.disk, q)
                   = cow_cache_read([vm.disk EXCEPT !.enabled_fuzz = FALSE], q)
      <3> DEFINE e == [vm.disk EXCEPT !.enabled_fuzz = FALSE]
      <3>1. /\ vm.disk.base = e.base /\ vm.disk.primary = e.primary
            /\ vm.disk.secondary = NoChunks /\ vm.disk.enabled_fuzz_tmp = FALSE
            /\ e.enabled_fuzz = FALSE
        BY <2>1
      <3> HIDE DEF e
      <3>2. cow_cache_read(vm.disk, q) = cow_cache_read(e, q)
        BY <3>1, EmptySecondaryLayer
      <3> QED BY <3>2 DEF e
    <2>7. vm.dev.live = vm.dev.copy
      BY <2>1
    <2>8. Live(vm, setup) = RootOf(vm, setup)
      BY <2>2, <2>6, <2>7 DEF Live, RootOf, Reads
    <2>9. vm.root_snapshot_created = TRUE /\ vm.incremental_snapshot_enabled = FALSE
      BY <2>1
    <2> QED BY <1>1, <1>2, <2>5, <2>8, <2>9, Views
           DEF RefinementInv, TmpWhileFuzzing, RecordedSnapshots!Init, RootView, TmpView
  <1> QED BY <1>3, <1>4 DEF Init, Start

----------------------------------------------------------------------------
\* A step on the memory alone, outside the snapshots in it.
LEMMA MemoryAlone ==
    ASSUME RefinementInv, MemoryInv', NEW m, vm' = [vm EXCEPT !.ram = m],
           UNCHANGED <<setup, flags>>,
           m.blocklist = vm.ram.blocklist, m.snapshot = vm.ram.snapshot,
           m.incremental = vm.ram.incremental
    PROVE  /\ RefinementInv'
           /\ RootView(vm', setup) = RootView(vm, setup)
           /\ TmpView(vm', setup) = TmpView(vm, setup)
           /\ m.host = vm.ram.host => Live(vm', setup) = Live(vm, setup)
  <1>1. IsMachine(vm)
    BY DEF RefinementInv, MemoryInv, Sound, Booting
  <1>2. /\ vm'.ram = m /\ vm'.disk = vm.disk /\ vm'.dev = vm.dev
        /\ vm'.root_snapshot_created = vm.root_snapshot_created
        /\ vm'.incremental_snapshot_enabled = vm.incremental_snapshot_enabled
    BY <1>1 DEF IsMachine
  <1>3. PartsAgree(vm')
    BY <1>2 DEF RefinementInv, PartsAgree
  <1>4. RefinementInv'
    BY <1>3 DEF RefinementInv, flags, PartsAgree, IsDisk, IsDev, TmpWhileFuzzing
  <1>5. RootView(vm', setup) = RootView(vm, setup)
        /\ TmpView(vm', setup) = TmpView(vm, setup)
    BY <1>2 DEF RootView, TmpView, RootOf, TmpOf, KeptPages
  <1>6. m.host = vm.ram.host => Live(vm', setup) = Live(vm, setup)
    BY <1>2 DEF Live, KeptPages
  <1> QED BY <1>4, <1>5, <1>6

\* What the machine does by itself.
LEMMA GuestSteps ==
    ASSUME RefinementInv, MemoryInv', NEW p \in setup.pages, NEW v \in Values, GuestWrite(p, v)
    PROVE  RefinementInv' /\ RecordedSnapshots!Next
  <1> DEFINE m == kvm_write(vm.ram, setup.mode, vm.root_snapshot_created, p, v)
  <1>1. vm' = [vm EXCEPT !.ram = m] /\ UNCHANGED <<setup, flags>> /\ Running /\ GoesOn
    BY DEF GuestWrite
  <1>2. vm.ram \in Memory
    BY DEF RefinementInv, MemoryInv, Sound, Booting, Tracks
  <1>3. m.blocklist = vm.ram.blocklist /\ m.snapshot = vm.ram.snapshot
        /\ m.incremental = vm.ram.incremental
    BY <1>2 DEF kvm_write, Memory
  <1> HIDE DEF m
  <1> QED BY <1>1, <1>3, MemoryAlone, RunStep DEF flags

\* A device writes to memory.
LEMMA DeviceSteps ==
    ASSUME RefinementInv, MemoryInv', NEW w \in setup.dma, NEW v \in Values, DeviceWrite(w, v)
    PROVE  RefinementInv' /\ RecordedSnapshots!Next
  <1> DEFINE m == device_write(vm.ram, vm.root_snapshot_created, w, v)
  <1>1. vm' = [vm EXCEPT !.ram = m] /\ UNCHANGED <<setup, flags>> /\ Running /\ GoesOn
    BY DEF DeviceWrite
  <1>2. vm.ram \in Memory
    BY DEF RefinementInv, MemoryInv, Sound, Booting, Tracks
  <1>3. m.blocklist = vm.ram.blocklist /\ m.snapshot = vm.ram.snapshot
        /\ m.incremental = vm.ram.incremental
    BY <1>2 DEF device_write, nyx_fdl_user_set, Memory
  <1> HIDE DEF m
  <1> QED BY <1>1, <1>3, MemoryAlone, RunStep DEF flags

\* The dirty ring is emptied.
LEMMA RingSteps ==
    ASSUME RefinementInv, MemoryInv', handle_dirty_ring_full
    PROVE  RefinementInv' /\ UNCHANGED RecordedSnapshots!vars
  <1> DEFINE m == IF vm.root_snapshot_created THEN dirty_ring_flush_and_collect(vm.ram)
                  ELSE dirty_ring_flush(vm.ram)
  <1>1. vm' = [vm EXCEPT !.ram = m] /\ UNCHANGED <<setup, flags, phase>>
    BY DEF handle_dirty_ring_full
  <1>2. vm.ram \in Memory
    BY DEF RefinementInv, MemoryInv, Sound, Booting, Tracks
  <1>3. m.blocklist = vm.ram.blocklist /\ m.snapshot = vm.ram.snapshot
        /\ m.incremental = vm.ram.incremental /\ m.host = vm.ram.host
    BY <1>2 DEF dirty_ring_flush_and_collect, dirty_ring_flush, Memory
  <1> HIDE DEF m
  <1> QED BY <1>1, <1>3, MemoryAlone, StutterStep DEF flags

\* A device changes its state.
LEMMA DeviceStateSteps ==
    ASSUME RefinementInv, MemoryInv', NEW s \in setup.devs, DeviceStep(s)
    PROVE  RefinementInv' /\ RecordedSnapshots!Next
  <1>1. /\ vm' = [vm EXCEPT !.dev.live = s] /\ UNCHANGED <<setup, flags>> /\ Running /\ GoesOn
    BY DEF DeviceStep
  <1>2. IsMachine(vm) /\ IsDev(vm.dev)
    BY DEF RefinementInv, MemoryInv, Sound, Booting, PartsAgree
  <1>3. /\ vm'.ram = vm.ram /\ vm'.disk = vm.disk /\ vm'.dev = [vm.dev EXCEPT !.live = s]
        /\ vm'.root_snapshot_created = vm.root_snapshot_created
        /\ vm'.incremental_snapshot_enabled = vm.incremental_snapshot_enabled
    BY <1>1, <1>2 DEF IsMachine
  <1>4. /\ IsDev(vm'.dev)
        /\ vm'.dev.copy = vm.dev.copy /\ vm'.dev.tmp = vm.dev.tmp
        /\ vm'.dev.tmp_enabled = vm.dev.tmp_enabled
    BY <1>2, <1>3 DEF IsDev
  <1>5. PartsAgree(vm')
    BY <1>3, <1>4 DEF RefinementInv, PartsAgree
  <1>6. RefinementInv'
    BY <1>1, <1>5 DEF RefinementInv, flags, PartsAgree, IsDisk, IsDev, TmpWhileFuzzing
  <1>7. RootView(vm', setup) = RootView(vm, setup)
        /\ TmpView(vm', setup) = TmpView(vm, setup)
    BY <1>3, <1>4 DEF RootView, TmpView, RootOf, TmpOf, KeptPages
  <1> QED BY <1>1, <1>6, <1>7, RunStep DEF flags

\* The guest writes to the disk.
LEMMA DiskSteps ==
    ASSUME RefinementInv, MemoryInv', NEW q \in setup.io, NEW v \in DiskValues, DiskWrite(q, v)
    PROVE  RefinementInv' /\ RecordedSnapshots!Next
  <1>1. UNCHANGED <<setup, flags>> /\ Running
    BY DEF DiskWrite
  <1>2. CASE phase' = "aborted" /\ vm' = vm
    BY <1>1, <1>2, AbortStep DEF RefinementInv, flags, PartsAgree, IsDisk, IsDev, TmpWhileFuzzing
  <1>3. CASE vm' = [vm EXCEPT !.disk = cow_cache_write(@, q, v)] /\ GoesOn
    <2>1. /\ IsMachine(vm)
          /\ vm.root_snapshot_created \in BOOLEAN /\ vm.incremental_snapshot_enabled \in BOOLEAN
          /\ ~ vm.root_snapshot_created => ~ vm.incremental_snapshot_enabled
      BY DEF RefinementInv, MemoryInv, Sound, Booting
    <2>2. /\ vm'.ram = vm.ram /\ vm'.disk = cow_cache_write(vm.disk, q, v) /\ vm'.dev = vm.dev
          /\ vm'.root_snapshot_created = vm.root_snapshot_created
          /\ vm'.incremental_snapshot_enabled = vm.incremental_snapshot_enabled
      BY <1>3, <2>1 DEF IsMachine
    <2>3. /\ PartsAgree(vm')
          /\ RootView(vm', setup) = RootView(vm, setup)
          /\ TmpView(vm', setup) = TmpView(vm, setup)
      BY <2>1, <2>2, DiskWriteKeeps DEF RefinementInv
    <2>4. RefinementInv'
      BY <1>1, <2>1, <2>2, <2>3
         DEF RefinementInv, flags, PartsAgree, IsDisk, IsDev, TmpWhileFuzzing
    <2> QED BY <1>1, <1>3, <2>3, <2>4, RunStep DEF flags
  <1> QED BY <1>2, <1>3 DEF DiskWrite

\* A page is put on the block list.
LEMMA BlacklistSteps ==
    ASSUME RefinementInv, MemoryInv', NEW p \in setup.persist, fast_reload_blacklist_page(p)
    PROVE  RefinementInv' /\ RecordedSnapshots!Next
  <1>1. UNCHANGED <<setup, flags>> /\ Running /\ phase = "boot"
    BY DEF fast_reload_blacklist_page
  <1>2. CASE phase' = "aborted" /\ vm' = vm
    BY <1>1, <1>2, AbortStep DEF RefinementInv, flags, PartsAgree, IsDisk, IsDev, TmpWhileFuzzing
  <1>3. CASE vm' = [vm EXCEPT !.ram.blocklist = @ \cup {p}] /\ phase' = phase
    <2>1. IsMachine(vm) /\ vm.root_snapshot_created = FALSE
          /\ vm.incremental_snapshot_enabled = FALSE
      BY <1>1 DEF RefinementInv, MemoryInv, Sound, Booting, Running
    <2>2. /\ vm'.disk = vm.disk /\ vm'.dev = vm.dev
          /\ vm'.root_snapshot_created = FALSE
          /\ vm'.incremental_snapshot_enabled = FALSE
      BY <1>3, <2>1 DEF IsMachine
    <2>3. PartsAgree(vm')
      BY <2>1, <2>2 DEF RefinementInv, PartsAgree
    <2>4. RefinementInv'
      BY <1>1, <2>1, <2>2, <2>3
         DEF RefinementInv, flags, PartsAgree, IsDisk, IsDev, TmpWhileFuzzing
    <2>5. RootView(vm', setup) = RootView(vm, setup)
          /\ TmpView(vm', setup) = TmpView(vm, setup)
      BY <2>1, <2>2 DEF RootView, TmpView
    <2>6. GoesOn
      BY <1>1, <1>3 DEF GoesOn
    <2> QED BY <1>1, <2>4, <2>5, <2>6, RunStep DEF flags
  <1> QED BY <1>2, <1>3 DEF fast_reload_blacklist_page

\* The payload lies outside every snapshot.
LEMMA PayloadSteps ==
    ASSUME RefinementInv, MemoryInv', NEW p \in Pages, NEW v \in Values, PayloadWrite(p, v)
    PROVE  RefinementInv' /\ UNCHANGED RecordedSnapshots!vars
  <1> DEFINE m == [vm.ram EXCEPT !.host[p] = v]
  <1>1. /\ vm' = [vm EXCEPT !.ram = m] /\ UNCHANGED <<setup, flags, phase>>
        /\ p \in vm.ram.blocklist
    BY DEF PayloadWrite
  <1>2. vm.ram \in Memory /\ IsMachine(vm)
    BY DEF RefinementInv, MemoryInv, Sound, Booting, Tracks
  <1>3. m.blocklist = vm.ram.blocklist /\ m.snapshot = vm.ram.snapshot
        /\ m.incremental = vm.ram.incremental /\ m.host = [vm.ram.host EXCEPT ![p] = v]
    BY <1>2 DEF Memory
  <1> HIDE DEF m
  <1>4. RefinementInv' /\ RootView(vm', setup) = RootView(vm, setup)
        /\ TmpView(vm', setup) = TmpView(vm, setup)
    BY <1>1, <1>3, MemoryAlone
  <1>5. vm'.ram = m /\ vm'.disk = vm.disk /\ vm'.dev = vm.dev
    BY <1>1, <1>2 DEF IsMachine
  <1>6. \A a \in Pages \ vm.ram.blocklist : m.host[a] = vm.ram.host[a]
    BY <1>1, <1>2, <1>3 DEF Memory
  <1>7. KeptPages(vm', setup, vm'.ram.host) = KeptPages(vm, setup, vm.ram.host)
    BY <1>3, <1>5, <1>6 DEF KeptPages
  <1>8. Live(vm', setup) = Live(vm, setup)
    BY <1>5, <1>7 DEF Live
  <1> QED BY <1>1, <1>4, <1>8, StutterStep DEF flags

----------------------------------------------------------------------------
\* The handlers.  Taking the root snapshot saves the machine as it is, unless
\* it was loaded, and the two reloads that follow go back to it.
LEMMA SetupStep ==
    ASSUME NoSnapshotIsNone, RefinementInv, MemoryInv',
           NEW garbage \in SUBSET HeapBits, SetupSnapshotOnce(garbage)
    PROVE  RefinementInv' /\ RecordedSnapshots!Next
  <1> DEFINE saved == IF vm.root_snapshot_created THEN vm
                      ELSE fast_reload_create_in_memory(vm, garbage)
             once == fast_reload_restore(saved, setup.mode)
  <1>0. setup.mode \in Modes
    BY ModeKnown DEF RefinementInv, MemoryInv
  <1>1. /\ vm' = fast_reload_restore(once, setup.mode)
        /\ setup' = setup /\ phase = "boot" /\ phase' = "ready"
        /\ discard_tmp_snapshot' = discard_tmp_snapshot /\ in_reload_mode' = in_reload_mode
        /\ tmp_snapshot_created' = tmp_snapshot_created
        /\ ~ in_fuzzing_mode /\ in_fuzzing_mode' = TRUE
    BY DEF SetupSnapshotOnce
  <1>2. /\ Sound(saved, setup) /\ PartsAgree(saved)
        /\ saved.incremental_snapshot_enabled = vm.incremental_snapshot_enabled
        /\ RootOf(saved, setup) = IF vm.root_snapshot_created THEN RootOf(vm, setup) ELSE Live(vm, setup)
    <2>1. CASE vm.root_snapshot_created
      BY <2>1 DEF RefinementInv, MemoryInv, Booting
    <2>2. CASE ~ vm.root_snapshot_created
      <3>1. Booting(vm) /\ PartsAgree(vm)
        BY <2>2 DEF RefinementInv, MemoryInv, Sound
      <3>2. saved = fast_reload_create_in_memory(vm, garbage)
        BY <2>2
      <3>3. Sound(saved, setup)
        BY <1>0, <3>1, <3>2, CreateRootSound
      <3>4. IsMachine(vm) /\ IsDev(vm.dev) /\ IsDisk(vm.disk) /\ vm.ram \in Memory
            /\ vm.incremental_snapshot_enabled = FALSE
            /\ vm.disk.enabled_fuzz = FALSE /\ vm.disk.enabled_fuzz_tmp = FALSE
            /\ vm.dev.tmp_enabled = FALSE
        BY <3>1 DEF Booting, PartsAgree
      <3> HIDE DEF saved
      <3>5. /\ saved.ram = shadow_memory_init(vm.ram, garbage)
            /\ saved.disk = switch_to_fuzz_mode(vm.disk)
            /\ saved.dev = [vm.dev EXCEPT !.copy = vm.dev.live]
            /\ saved.root_snapshot_created = TRUE
            /\ saved.incremental_snapshot_enabled = FALSE
        BY <3>2, <3>4 DEF fast_reload_create_in_memory, IsMachine
      <3>6. saved.ram.snapshot = vm.ram.host /\ saved.ram.blocklist = vm.ram.blocklist
        BY <3>4, <3>5 DEF shadow_memory_init, Memory
      <3>7. IsDev(saved.dev) /\ saved.dev.copy = vm.dev.live /\ saved.dev.tmp_enabled = FALSE
        BY <3>4, <3>5 DEF IsDev
      <3>8. IsDisk(saved.disk) /\ saved.disk.enabled_fuzz = TRUE
            /\ saved.disk.enabled_fuzz_tmp = FALSE
            /\ saved.disk.base = vm.disk.base /\ saved.disk.primary = vm.disk.primary
        BY <3>4, <3>5 DEF IsDisk, switch_to_fuzz_mode
      <3>9. PartsAgree(saved)
        BY <3>5, <3>7, <3>8 DEF PartsAgree
      <3>10. ASSUME NEW q
             PROVE  cow_cache_read([saved.disk EXCEPT !.enabled_fuzz = FALSE], q)
                      = cow_cache_read(vm.disk, q)
        <4> DEFINE a == [saved.disk EXCEPT !.enabled_fuzz = FALSE]
        <4>1. a.base = vm.disk.base /\ a.primary = vm.disk.primary /\ a.enabled_fuzz = FALSE
          BY <3>8 DEF IsDisk
        <4> HIDE DEF a
        <4>2. ASSUME NEW k, NEW old
              PROVE  read_from_buffers(a, k, old) = read_from_buffers(vm.disk, k, old)
          BY <3>4, <4>1 DEF read_from_buffers
        <4>3. cow_cache_read(a, q) = cow_cache_read(vm.disk, q)
          BY <4>1, <4>2 DEF cow_cache_read
        <4> QED BY <4>3 DEF a
      <3>11. KeptPages(saved, setup, saved.ram.snapshot) = KeptPages(vm, setup, vm.ram.host)
        BY <3>6 DEF KeptPages
      <3>12. RootOf(saved, setup) = Live(vm, setup)
        BY <3>7, <3>10, <3>11 DEF RootOf, Live, Reads
      <3> QED BY <2>2, <3>3, <3>4, <3>5, <3>9, <3>12
    <2> QED BY <2>1, <2>2
  <1> HIDE DEF saved
  <1>4. /\ Sound(once, setup) /\ PartsAgree(once)
        /\ once.incremental_snapshot_enabled = saved.incremental_snapshot_enabled
        /\ RootOf(once, setup) = RootOf(saved, setup)
    BY <1>0, <1>2, RestoreIsReload
  <1> HIDE DEF once
  <1>5. /\ Sound(vm', setup) /\ PartsAgree(vm')
        /\ vm'.incremental_snapshot_enabled = once.incremental_snapshot_enabled
        /\ RootOf(vm', setup) = RootOf(once, setup)
        /\ Live(vm', setup) = IF once.incremental_snapshot_enabled THEN TmpOf(once, setup)
                           ELSE RootOf(once, setup)
    BY <1>0, <1>1, <1>4, RestoreIsReload
  <1>6. vm.incremental_snapshot_enabled = FALSE
    BY <1>1 DEF RefinementInv, TmpWhileFuzzing
  <1>7. RefinementInv'
    BY <1>1, <1>2, <1>4, <1>5 DEF RefinementInv, PartsAgree, IsDisk, IsDev, TmpWhileFuzzing
  <1>8. vm'.root_snapshot_created = TRUE
    BY <1>5 DEF Sound
  <1>9. RootOf(vm, setup) # NoSnapshot
    BY SnapshotsExist
  <1>10. RecordedSnapshots!SaveRoot
    BY <1>1, <1>2, <1>4, <1>5, <1>6, <1>8, <1>9, Views, PrimedViews
       DEF RecordedSnapshots!SaveRoot, RootView, TmpView
  <1> QED BY <1>7, <1>10 DEF RecordedSnapshots!Next

\* The host's wishes are read together with the payload.
LEMMA AcquireStep ==
    ASSUME DiscardsReload, RefinementInv, MemoryInv', FastAcquire
    PROVE  RefinementInv' /\ RecordedSnapshots!Next
  <1>1. /\ vm' = vm /\ setup' = setup /\ in_fuzzing_mode' = in_fuzzing_mode
        /\ tmp_snapshot_created' = tmp_snapshot_created
        /\ phase \in {"boot", "ready", "run"} /\ phase' = "run" /\ in_fuzzing_mode
    BY DEF FastAcquire, Running
  <1>2. discard_tmp_snapshot' \in BOOLEAN /\ (discard_tmp_snapshot' => in_reload_mode')
    BY FastReloadAssumption DEF FastAcquire, RefinementInv, DiscardsReload
  <1>3. RefinementInv'
    BY <1>1, <1>2 DEF RefinementInv, PartsAgree, IsDisk, IsDev, TmpWhileFuzzing
  <1>4. phase # "boot"
    BY <1>1 DEF RefinementInv, MemoryInv
  <1>5. RecordedSnapshots!Request
    BY <1>1, <1>2, <1>4, Views, PrimedViews DEF RecordedSnapshots!Request, RecordedSnapshots!Fuzzing
  <1> QED BY <1>3, <1>5 DEF RecordedSnapshots!Next

\* The end of an execution that reloads.
LEMMA EndStep ==
    ASSUME NoSnapshotIsNone, RefinementInv, MemoryInv', Running, in_fuzzing_mode,
           vm' = fast_reload_restore(handle_tmp_snapshot_state(vm), setup.mode),
           setup' = setup, phase' = "ready", Ends(FALSE)
    PROVE  RefinementInv' /\ RecordedSnapshots!Next
  <1> DEFINE t == IF discard_tmp_snapshot THEN NoSnapshot ELSE TmpView(vm, setup)
  <1>1. /\ setup \in Setups /\ discard_tmp_snapshot \in BOOLEAN
        /\ Sound(vm, setup) /\ PartsAgree(vm) /\ phase \in {"ready", "run"}
    BY DEF RefinementInv, MemoryInv, Running
  <1>2. /\ Sound(vm', setup) /\ PartsAgree(vm')
        /\ RootOf(vm', setup) = RootOf(vm, setup)
        /\ TmpView(vm', setup) = t
        /\ Live(vm', setup) = IF t = NoSnapshot THEN RootOf(vm, setup) ELSE t
        /\ vm'.incremental_snapshot_enabled
             = (~ discard_tmp_snapshot /\ vm.incremental_snapshot_enabled)
    BY <1>1, EndIsReload
  <1>3. /\ discard_tmp_snapshot' = FALSE /\ in_fuzzing_mode' = in_fuzzing_mode
        /\ tmp_snapshot_created' = (~ discard_tmp_snapshot /\ tmp_snapshot_created)
        /\ vm.root_snapshot_created = TRUE /\ vm'.root_snapshot_created = TRUE
    BY <1>1, <1>2 DEF Ends, Sound
  <1>4. RefinementInv'
    BY <1>2, <1>3 DEF RefinementInv, PartsAgree, IsDisk, IsDev, TmpWhileFuzzing
  <1> HIDE DEF t
  <1>5. RecordedSnapshots!Reload(t)
    BY <1>1, <1>2, <1>3, Views, PrimedViews
       DEF RecordedSnapshots!Reload, RecordedSnapshots!Fuzzing, RecordedSnapshots!Snapshot, TmpView,
           RootView
  <1>6. RecordedSnapshots!End
    BY <1>5, Views DEF RecordedSnapshots!End, t, TmpView
  <1> QED BY <1>4, <1>6 DEF RecordedSnapshots!Next

\* RELEASE does not reload while the host has turned reloads off and there is
\* no temporary snapshot.
LEMMA ReleaseStep ==
    ASSUME NoSnapshotIsNone, RefinementInv, MemoryInv', Release
    PROVE  RefinementInv' /\ RecordedSnapshots!Next
  <1> DEFINE x == handle_tmp_snapshot_state(vm)
  <1>1. Running /\ in_fuzzing_mode /\ setup' = setup /\ Ends(FALSE)
    BY DEF Release, RefinementInv, MemoryInv
  <1>2. CASE in_reload_mode \/ x.incremental_snapshot_enabled
    <2>1. vm' = fast_reload_restore(x, setup.mode) /\ phase' = "ready"
      BY <1>2 DEF Release
    <2> QED BY <1>1, <2>1, EndStep
  <1>3. CASE ~ (in_reload_mode \/ x.incremental_snapshot_enabled)
    <2>1. vm' = x /\ phase' = phase
      BY <1>3 DEF Release
    <2>2. discard_tmp_snapshot = FALSE /\ x = vm
      BY <1>3 DEF RefinementInv, handle_tmp_snapshot_state
    <2>3. vm' = vm /\ vm.incremental_snapshot_enabled = FALSE
      <3>1. vm.incremental_snapshot_enabled \in BOOLEAN
        BY DEF RefinementInv, MemoryInv, Sound, Booting
      <3>2. ~ vm.incremental_snapshot_enabled
        BY <1>3, <2>2
      <3> QED BY <2>1, <2>2, <3>1, <3>2
    <2>4. /\ discard_tmp_snapshot' = FALSE /\ in_fuzzing_mode' = in_fuzzing_mode
          /\ tmp_snapshot_created' = (~ discard_tmp_snapshot /\ tmp_snapshot_created)
      BY <1>1 DEF Ends
    <2>5. phase \in {"ready", "run"}
      BY <1>1 DEF RefinementInv, MemoryInv, Running
    <2>6. RefinementInv'
      BY <2>2, <2>3, <2>4 DEF RefinementInv, PartsAgree, IsDisk, IsDev, TmpWhileFuzzing
    <2>7. RecordedSnapshots!Continue
      BY <1>1, <2>1, <2>3, <2>4, <2>5, Views, PrimedViews
         DEF RecordedSnapshots!Continue, RecordedSnapshots!Fuzzing, RootView, TmpView
    <2> QED BY <2>6, <2>7 DEF RecordedSnapshots!Next
  <1> QED BY <1>2, <1>3

\* CREATE_TMP_SNAPSHOT: the machine is saved, and is in the new snapshot
\* afterwards, or in the root snapshot if the new one was discarded at once.
LEMMA CreateStep ==
    ASSUME NoSnapshotIsNone, RefinementInv, MemoryInv', CreateTmpSnapshot
    PROVE  RefinementInv' /\ RecordedSnapshots!Next
  <1> DEFINE made == fast_reload_create_tmp_snapshot(vm, setup.mode)
             saved == fast_reload_restore(made, setup.mode)
             x == handle_tmp_snapshot_state(saved)
             t == IF discard_tmp_snapshot THEN NoSnapshot ELSE TmpView(saved, setup)
  <1>0. setup \in Setups /\ setup.mode \in Modes
    BY ModeKnown DEF RefinementInv, MemoryInv
  <1>1. /\ Running /\ in_fuzzing_mode /\ setup' = setup /\ Ends(TRUE) /\ phase' = "ready"
        /\ ~ vm.incremental_snapshot_enabled
        /\ vm' = IF in_reload_mode \/ x.incremental_snapshot_enabled
                 THEN fast_reload_restore(x, setup.mode) ELSE x
    BY DEF CreateTmpSnapshot, RefinementInv, MemoryInv
  <1>2. Sound(vm, setup) /\ PartsAgree(vm) /\ discard_tmp_snapshot \in BOOLEAN
        /\ (discard_tmp_snapshot => in_reload_mode) /\ phase \in {"ready", "run"}
    BY <1>1 DEF RefinementInv, MemoryInv, Running
  <1>3. /\ Sound(made, setup) /\ PartsAgree(made)
        /\ made.incremental_snapshot_enabled = TRUE
        /\ RootOf(made, setup) = RootOf(vm, setup) /\ TmpOf(made, setup) = Live(vm, setup)
    BY <1>0, <1>1, <1>2, CreateIsSave
  <1> HIDE DEF made
  <1>4. /\ Sound(saved, setup) /\ PartsAgree(saved)
        /\ saved.incremental_snapshot_enabled = TRUE
        /\ RootOf(saved, setup) = RootOf(vm, setup) /\ TmpOf(saved, setup) = Live(vm, setup)
    BY <1>0, <1>3, RestoreIsReload
  <1> HIDE DEF saved
  <1>5. vm' = fast_reload_restore(x, setup.mode)
    <2>1. in_reload_mode \/ x.incremental_snapshot_enabled
      BY <1>2, <1>4 DEF handle_tmp_snapshot_state
    <2> QED BY <1>1, <2>1
  <1>6. /\ Sound(vm', setup) /\ PartsAgree(vm')
        /\ RootOf(vm', setup) = RootOf(saved, setup)
        /\ TmpView(vm', setup) = t
        /\ Live(vm', setup) = IF t = NoSnapshot THEN RootOf(saved, setup) ELSE t
        /\ vm'.incremental_snapshot_enabled
             = (~ discard_tmp_snapshot /\ saved.incremental_snapshot_enabled)
    BY <1>0, <1>2, <1>4, <1>5, EndIsReload
  <1>7. /\ discard_tmp_snapshot' = FALSE /\ in_fuzzing_mode' = in_fuzzing_mode
        /\ tmp_snapshot_created' = ~ discard_tmp_snapshot
        /\ vm.root_snapshot_created = TRUE /\ vm'.root_snapshot_created = TRUE
    BY <1>1, <1>2, <1>6 DEF Ends, Sound
  <1>8. RefinementInv'
    BY <1>1, <1>2, <1>4, <1>6, <1>7 DEF RefinementInv, PartsAgree, IsDisk, IsDev, TmpWhileFuzzing
  <1>9. t = IF discard_tmp_snapshot THEN NoSnapshot ELSE Live(vm, setup)
    BY <1>4 DEF TmpView
  <1> HIDE DEF t
  <1>10. RecordedSnapshots!Reload(t)
    BY <1>1, <1>2, <1>4, <1>6, <1>7, Views, PrimedViews
       DEF RecordedSnapshots!Reload, RecordedSnapshots!Fuzzing, RecordedSnapshots!Snapshot, TmpView,
           RootView
  <1>11. RecordedSnapshots!SaveTmp
    BY <1>1, <1>9, <1>10, Views DEF RecordedSnapshots!SaveTmp, RootView, TmpView
  <1> QED BY <1>8, <1>11 DEF RecordedSnapshots!Next

\* Every step of the detailed specification is one of the abstract one, or
\* changes nothing it knows of.
LEMMA RefinementStep ==
    ASSUME DiscardsReload, NoSnapshotIsNone,
           RefinementInv, [Next]_vars
    PROVE  RefinementInv' /\ [RecordedSnapshots!Next]_RecordedSnapshots!vars
  <1>1. MemoryInv'
    BY MemoryStep DEF RefinementInv
  <1>2. ASSUME NEW p \in setup.pages, NEW v \in Values, GuestWrite(p, v)
        PROVE  RefinementInv' /\ RecordedSnapshots!Next
    BY <1>1, <1>2, GuestSteps
  <1>3. CASE handle_dirty_ring_full
    BY <1>1, <1>3, RingSteps
  <1>4. ASSUME NEW w \in setup.dma, NEW v \in Values, DeviceWrite(w, v)
        PROVE  RefinementInv' /\ RecordedSnapshots!Next
    BY <1>1, <1>4, DeviceSteps
  <1>5. ASSUME NEW s \in setup.devs, DeviceStep(s)
        PROVE  RefinementInv' /\ RecordedSnapshots!Next
    BY <1>1, <1>5, DeviceStateSteps
  <1>6. ASSUME NEW q \in setup.io, NEW v \in DiskValues, DiskWrite(q, v)
        PROVE  RefinementInv' /\ RecordedSnapshots!Next
    BY <1>1, <1>6, DiskSteps
  <1>7. ASSUME NEW p \in setup.persist, fast_reload_blacklist_page(p)
        PROVE  RefinementInv' /\ RecordedSnapshots!Next
    BY <1>1, <1>7, BlacklistSteps
  <1>8. CASE UNCHANGED <<setup, vm, flags, phase>>
    <2>1. RefinementInv'
      BY <1>1, <1>8 DEF RefinementInv, flags, PartsAgree, IsDisk, IsDev, TmpWhileFuzzing
    <2>2. UNCHANGED RecordedSnapshots!vars
      BY <1>8, StutterStep DEF flags
    <2> QED BY <2>1, <2>2
  <1>9. ASSUME NEW b \in setup.blocks, Cover(b)
        PROVE  UNCHANGED <<setup, vm, flags, phase>>
    BY <1>9 DEF Cover
  <1>10. ASSUME pt_handle_overflow \/ UNCHANGED vars
         PROVE  UNCHANGED <<setup, vm, flags, phase>>
    BY <1>10 DEF pt_handle_overflow, vars, flags
  <1>11. ASSUME NEW garbage \in SUBSET HeapBits, SetupSnapshotOnce(garbage)
         PROVE  RefinementInv' /\ RecordedSnapshots!Next
    BY <1>1, <1>11, SetupStep
  <1>12. ASSUME NEW p \in Pages, NEW v \in Values, PayloadWrite(p, v)
         PROVE  RefinementInv' /\ UNCHANGED RecordedSnapshots!vars
    BY <1>1, <1>12, PayloadSteps
  <1>13. CASE FastAcquire
    BY <1>1, <1>13, AcquireStep
  <1>14. CASE Release
    BY <1>1, <1>14, ReleaseStep
  <1>15. CASE CreateTmpSnapshot
    BY <1>1, <1>15, CreateStep
  <1>16. CASE EndExec
    <2>1. /\ Running /\ in_fuzzing_mode /\ setup' = setup /\ phase' = "ready" /\ Ends(FALSE)
          /\ vm' = fast_reload_restore(handle_tmp_snapshot_state(vm), setup.mode)
      BY <1>16 DEF EndExec
    <2> QED BY <1>1, <2>1, EndStep
  <1> QED BY <1>2, <1>3, <1>4, <1>5, <1>6, <1>7, <1>8, <1>9, <1>10, <1>11, <1>12, <1>13,
             <1>14, <1>15, <1>16 DEF Next

\* Dirty-page restores, copy-on-write layers and copies of device fields
\* together implement snapshots of a machine: every reload brings back all of
\* it but the pages a device can change unseen, whatever bits malloc returned
\* and however devices write, and nothing but taking and discarding a snapshot
\* changes one.
THEOREM RefinementCorrect ==
    ASSUME DiscardsReload, NoSnapshotIsNone
    PROVE  Spec => ImplementsRecorded
  <1>1. Init => RefinementInv /\ RecordedSnapshots!Init
    BY RefinementInit
  <1>2. RefinementInv /\ [Next]_vars => RefinementInv' /\ [RecordedSnapshots!Next]_RecordedSnapshots!vars
    BY RefinementStep
  <1> QED BY <1>1, <1>2, PTL DEF Spec, ImplementsRecorded, RecordedSnapshots!Spec

\* Memory, disk, devices, fast_reload_t and the flag the host reads never
\* disagree on whether there is a temporary snapshot.
THEOREM TmpFlagsCorrect ==
    ASSUME DiscardsReload, NoSnapshotIsNone
    PROVE  Spec => []TmpFlagsAgree
  <1>1. Init => RefinementInv
    BY RefinementInit
  <1>2. RefinementInv /\ [Next]_vars => RefinementInv'
    BY RefinementStep
  <1>3. RefinementInv => TmpFlagsAgree
    BY DEF RefinementInv, MemoryInv, Sound, Booting, PartsAgree, TmpWhileFuzzing, TmpFlagsAgree
  <1> QED BY <1>1, <1>2, <1>3, PTL DEF Spec

----------------------------------------------------------------------------
(***************************************************************************)
(* The disk by itself: what its layers hold is what the guest wrote on the *)
(* way to this state, whatever becomes of the memory.                      *)
(***************************************************************************)

\* What is assumed of the guest's requests, and of the folder's layer: they are
\* made of whole chunks at multiples of the chunk size.  Others are dropped
\* (Whole) or looked up at offsets that do not meet those of other requests.
AlignedDisk ==
    /\ \A s \in Setups : \A r \in s.io : r.off % ChunkSectors = 0 /\ r.len % ChunkSectors = 0
    /\ \A f \in Folders : \A k \in DOMAIN f.primary : k % ChunkSectors = 0

\* Where the chunk with sector s starts.
ChunkStart(s) == s - (s % ChunkSectors)

\* Sector s through the layers of the root snapshot, of the temporary one, and
\* through all that are in use.
RootStored(d, s) ==
    IF ChunkStart(s) \in DOMAIN d.primary THEN d.primary[ChunkStart(s)] ELSE d.base[s]

\* With the secondary layer.
TmpStored(d, s) ==
    IF ChunkStart(s) \in DOMAIN d.secondary THEN d.secondary[ChunkStart(s)]
    ELSE RootStored(d, s)

\* With all that are in use.
Stored(d, s) == read_from_buffers(d, ChunkStart(s), d.base[s])

\* The disk of x holds root and, if there is a temporary snapshot, tmp.
SavedAgrees(x, root, tmp) ==
    /\ Typed(x)
    /\ x.root_snapshot_created = TRUE
    /\ x.disk.enabled_fuzz = TRUE
    /\ x.disk.enabled_fuzz_tmp = x.incremental_snapshot_enabled
    /\ \A s \in Sectors : RootStored(x.disk, s) = root[s]
    /\ x.incremental_snapshot_enabled => \A s \in Sectors : TmpStored(x.disk, s) = tmp[s]

\* The inductive invariant.
DiskInv ==
    /\ PathInv
    /\ discard_tmp_snapshot => in_reload_mode
    /\ in_fuzzing_mode => vm.root_snapshot_created
    /\ \A s \in Sectors : Stored(vm.disk, s) = ideal.now.disk[s]
    /\ vm.root_snapshot_created => SavedAgrees(vm, ideal.root.disk, ideal.tmp.disk)
    /\ ~ vm.root_snapshot_created =>
          vm.disk.enabled_fuzz = FALSE /\ vm.disk.enabled_fuzz_tmp = FALSE
    /\ vm.root_snapshot_created /\ ~ in_fuzzing_mode =>
          \A s \in Sectors : ideal.now.disk[s] = ideal.root.disk[s]

----------------------------------------------------------------------------
\* Division with remainder, and its uniqueness.
LEMMA Division ==
    ASSUME NEW c \in Nat \ {0}, NEW a \in Int
    PROVE  a = c * (a \div c) + (a % c) /\ a % c \in 0 .. (c - 1) /\ a \div c \in Int
  OBVIOUS

\* No other remainder is possible.
LEMMA UniqueRemainder ==
    ASSUME NEW c \in Nat \ {0}, NEW a \in Int, NEW q \in Int, NEW m \in 0 .. (c - 1),
           a = c * q + m
    PROVE  a % c = m
  OBVIOUS

\* Counting from a multiple changes no remainder.
LEMMA AlignedRemainder ==
    ASSUME NEW c \in Nat \ {0}, NEW s \in Nat, NEW o \in Nat, o % c = 0
    PROVE  (s - o) % c = s % c
  <1> DEFINE q == s \div c
             p == o \div c
             m == s % c
  <1>1. s = c * q + m /\ q \in Int /\ m \in 0 .. (c - 1)
    BY Division
  <1>2. o = c * p /\ p \in Int
    BY Division
  <1> HIDE DEF q, p, m
  <1>3. s - o = c * (q - p) + m
    BY <1>1, <1>2
  <1>4. (s - o) % c = m
    BY <1>1, <1>2, <1>3, UniqueRemainder
  <1> QED BY <1>4 DEF m

\* A chunk that meets an aligned request lies in it.
LEMMA ChunkInRequest ==
    ASSUME NEW c \in Nat \ {0}, NEW o \in Nat, o % c = 0, NEW n \in Nat, n % c = 0,
           NEW s \in Nat, NEW t \in Nat, s - (s % c) = t - (t % c), o <= t, t <= o + n - 1
    PROVE  o <= s /\ s <= o + n - 1
  <1> DEFINE a == s \div c
             x == s % c
             b == t \div c
             y == t % c
             p == o \div c
             l == n \div c
  <1>1. s = c * a + x /\ a \in Int /\ x \in 0 .. (c - 1)
    BY Division
  <1>2. t = c * b + y /\ b \in Int /\ y \in 0 .. (c - 1)
    BY Division
  <1>3. o = c * p /\ p \in Int
    BY Division
  <1>4. n = c * l /\ l \in Int
    BY Division
  <1>5. s - x = t - y
    OBVIOUS
  <1> HIDE DEF a, x, b, y, p, l
  <1>6. c * a = c * b
    BY <1>1, <1>2, <1>5
  <1>7. p <= b
    <2>1. ASSUME b < p PROVE FALSE
      <3>1. c * b + c <= c * p
        BY <1>2, <1>3, <2>1
      <3> QED BY <1>2, <1>3, <3>1
    <2> QED BY <1>2, <1>3, <2>1
  <1>8. b < p + l
    <2>1. ASSUME p + l <= b PROVE FALSE
      <3>1. c * p + c * l <= c * b
        BY <1>2, <1>3, <1>4, <2>1
      <3> QED BY <1>2, <1>3, <1>4, <3>1
    <2> QED BY <1>2, <1>3, <1>4, <2>1
  <1>9. c * p <= c * b
    BY <1>2, <1>3, <1>7
  <1>10. c * b + c <= c * p + c * l
    <2>1. c * (b + 1) <= c * (p + l)
      BY <1>2, <1>3, <1>4, <1>8
    <2> QED BY <1>2, <1>3, <1>4, <2>1
  <1>11. c * p \in Int /\ c * b \in Int /\ c * l \in Int
    BY <1>2, <1>3, <1>4
  <1> QED BY <1>1, <1>2, <1>3, <1>4, <1>6, <1>9, <1>10, <1>11

\* The chunk at k that holds s is the one at ChunkStart(s).
LEMMA ChunkUnique ==
    ASSUME NEW c \in Nat \ {0}, NEW k \in Nat, k % c = 0, NEW s \in Nat,
           k <= s, s <= k + c - 1
    PROVE  k = s - (s % c)
  <1> DEFINE q == k \div c
             m == s - k
  <1>1. k = c * q /\ q \in Int
    BY Division
  <1>2. m \in 0 .. (c - 1)
    OBVIOUS
  <1> HIDE DEF q
  <1>3. s = c * q + m
    BY <1>1
  <1> HIDE DEF m
  <1>4. s % c = m
    BY <1>1, <1>2, <1>3, UniqueRemainder
  <1> QED BY <1>4 DEF m

\* ... and ChunkStart(s) holds s.
LEMMA ChunkHolds ==
    ASSUME NEW c \in Nat \ {0}, NEW s \in Nat
    PROVE  s - (s % c) \in Nat /\ s - (s % c) <= s /\ s <= s - (s % c) + c - 1
  <1>1. s % c \in Nat /\ s % c <= s /\ s % c < c
    BY Remainder
  <1> QED BY <1>1

----------------------------------------------------------------------------
\* What an aligned request reads.
LEMMA AlignedRead ==
    ASSUME NEW d, NEW r, r.off \in Nat, r.len \in Nat, RequestSectors(r) \subseteq Sectors,
           r.off % ChunkSectors = 0, r.len % ChunkSectors = 0
    PROVE  /\ cow_cache_read(d, r) = [s \in RequestSectors(r) |-> Stored(d, s)]
           /\ \A s \in RequestSectors(r) : ChunkOf(r, s) = ChunkStart(s)
  <1>1. ASSUME NEW s \in RequestSectors(r) PROVE ChunkOf(r, s) = ChunkStart(s)
    <2>1. s \in Nat
      BY BlockCowAssumption
    <2>2. (s - r.off) % ChunkSectors = s % ChunkSectors
      BY <2>1, AlignedRemainder, BlockCowAssumption
    <2> QED BY <2>2 DEF ChunkOf, ChunkStart
  <1>2. Whole(r)
    BY DEF Whole
  <1> QED BY <1>1, <1>2 DEF cow_cache_read, Stored

\* What it writes.
LEMMA AlignedWrite ==
    ASSUME NEW r, r.off \in Nat, r.len \in Nat, RequestSectors(r) \subseteq Sectors,
           r.off % ChunkSectors = 0, r.len % ChunkSectors = 0, NEW s \in Sectors
    PROVE  ChunkStart(s) \in ChunkOffsets(r) <=> s \in RequestSectors(r)
  <1>1. \A t \in RequestSectors(r) : ChunkOf(r, t) = ChunkStart(t)
    BY AlignedRead
  <1>2. ASSUME s \in RequestSectors(r) PROVE ChunkStart(s) \in ChunkOffsets(r)
    BY <1>1, <1>2 DEF ChunkOffsets
  <1>3. ASSUME ChunkStart(s) \in ChunkOffsets(r) PROVE s \in RequestSectors(r)
    <2>1. PICK t \in RequestSectors(r) : ChunkStart(s) = ChunkStart(t)
      BY <1>1, <1>3 DEF ChunkOffsets
    <2>2. t \in Nat /\ s \in Nat /\ r.off <= t /\ t <= r.off + r.len - 1
      BY BlockCowAssumption DEF RequestSectors
    <2>3. s - (s % ChunkSectors) = t - (t % ChunkSectors)
      BY <2>1 DEF ChunkStart
    <2>4. r.off <= s /\ s <= r.off + r.len - 1
      BY <2>2, <2>3, ChunkInRequest, BlockCowAssumption
    <2> QED BY <2>2, <2>4 DEF RequestSectors
  <1> QED BY <1>2, <1>3

\* A layer that only has chunks at multiples of their size.
LEMMA AlignedContents ==
    ASSUME NEW image, NEW layer \in Layers,
           \A k \in DOMAIN layer : k % ChunkSectors = 0, NEW s \in Sectors
    PROVE  DiskContents(image, layer)[s]
             = IF ChunkStart(s) \in DOMAIN layer THEN layer[ChunkStart(s)] ELSE image[s]
  <1> DEFINE Holds(k) == s \in k .. k + ChunkSectors - 1
  <1>1. DOMAIN layer \subseteq Nat /\ s \in Nat
    BY BlockCowAssumption DEF Layers
  <1>2. ASSUME NEW k \in DOMAIN layer, Holds(k) PROVE k = ChunkStart(s)
    <2>1. k \in Nat /\ k % ChunkSectors = 0 /\ k <= s /\ s <= k + ChunkSectors - 1
      BY <1>1, <1>2, BlockCowAssumption
    <2> QED BY <1>1, <2>1, ChunkUnique, BlockCowAssumption DEF ChunkStart
  <1>3. Holds(ChunkStart(s))
    BY <1>1, ChunkHolds, BlockCowAssumption DEF ChunkStart
  <1>4. DiskContents(image, layer)[s]
          = IF \E k \in DOMAIN layer : Holds(k)
            THEN layer[CHOOSE k \in DOMAIN layer : Holds(k)] ELSE image[s]
    BY DEF DiskContents
  <1> HIDE DEF Holds
  <1>5. CASE ChunkStart(s) \in DOMAIN layer
    <2>1. (CHOOSE k \in DOMAIN layer : Holds(k)) = ChunkStart(s)
      BY <1>2, <1>3, <1>5
    <2> QED BY <1>3, <1>4, <1>5, <2>1
  <1>6. CASE ChunkStart(s) \notin DOMAIN layer
    BY <1>2, <1>4, <1>6
  <1> QED BY <1>5, <1>6

----------------------------------------------------------------------------
\* Going back to the last snapshot.
LEMMA RestoreDisk ==
    ASSUME NEW x, NEW mode, NEW root, NEW tmp, SavedAgrees(x, root, tmp)
    PROVE  LET y == fast_reload_restore(x, mode)
           IN  /\ SavedAgrees(y, root, tmp)
               /\ y.incremental_snapshot_enabled = x.incremental_snapshot_enabled
               /\ \A s \in Sectors : Stored(y.disk, s)
                     = IF x.incremental_snapshot_enabled THEN tmp[s] ELSE root[s]
  <1> DEFINE y == fast_reload_restore(x, mode)
             d == x.disk
             e == cow_cache_reset(x.disk)
  <1>1. /\ Typed(y) /\ y.root_snapshot_created = TRUE
        /\ y.incremental_snapshot_enabled = x.incremental_snapshot_enabled
    BY RestoreHandled DEF SavedAgrees
  <1>2. y.disk = e
    BY DEF SavedAgrees, Typed, IsMachine, fast_reload_restore
  <1>3. /\ d \in CowCache /\ d.enabled_fuzz = TRUE
        /\ d.enabled_fuzz_tmp = x.incremental_snapshot_enabled
        /\ x.incremental_snapshot_enabled \in BOOLEAN
    BY DEF SavedAgrees, Typed
  <1> HIDE DEF y, d
  <1>4. /\ e.base = d.base /\ e.primary = d.primary /\ e.enabled_fuzz = TRUE
        /\ e.enabled_fuzz_tmp = x.incremental_snapshot_enabled
        /\ x.incremental_snapshot_enabled =>
              e.secondary = d.secondary /\ e.secondary_tmp = NoChunks
        /\ ~ x.incremental_snapshot_enabled => e.secondary = NoChunks
    BY <1>3 DEF cow_cache_reset, CowCache, d
  <1> HIDE DEF e
  <1>5. /\ \A s \in Sectors : RootStored(e, s) = root[s]
        /\ x.incremental_snapshot_enabled => \A s \in Sectors : TmpStored(e, s) = tmp[s]
    BY <1>4 DEF SavedAgrees, RootStored, TmpStored, d
  <1>6. \A k : k \notin DOMAIN NoChunks
    BY DEF NoChunks
  <1>7. ASSUME NEW s \in Sectors
        PROVE  Stored(e, s) = IF x.incremental_snapshot_enabled THEN tmp[s] ELSE root[s]
    <2>1. CASE x.incremental_snapshot_enabled
      <3>1. Stored(e, s) = TmpStored(e, s)
        BY <1>3, <1>4, <1>6, <2>1 DEF Stored, TmpStored, RootStored, read_from_buffers
      <3> QED BY <1>5, <2>1, <3>1
    <2>2. CASE ~ x.incremental_snapshot_enabled
      <3>1. Stored(e, s) = RootStored(e, s)
        BY <1>3, <1>4, <1>6, <2>2 DEF Stored, RootStored, read_from_buffers
      <3> QED BY <1>5, <2>2, <3>1
    <2> QED BY <2>1, <2>2
  <1>8. SavedAgrees(y, root, tmp)
    BY <1>1, <1>2, <1>4, <1>5 DEF SavedAgrees
  <1> QED BY <1>1, <1>2, <1>7, <1>8 DEF y

\* Taking a temporary snapshot: what is stored becomes what it holds.
LEMMA CreateDisk ==
    ASSUME NEW x, NEW mode, NEW root, NEW tmp, SavedAgrees(x, root, tmp), NEW now,
           ~ x.incremental_snapshot_enabled, \A s \in Sectors : Stored(x.disk, s) = now[s]
    PROVE  LET y == fast_reload_create_tmp_snapshot(x, mode)
           IN  SavedAgrees(y, root, now) /\ y.incremental_snapshot_enabled = TRUE
  <1> DEFINE y == fast_reload_create_tmp_snapshot(x, mode)
             d == x.disk
             e == cow_cache_enable_tmp_mode(x.disk)
  <1>1. /\ Typed(y) /\ y.root_snapshot_created = TRUE
        /\ y.incremental_snapshot_enabled = TRUE
    BY CreateHandled DEF SavedAgrees
  <1>2. y.disk = e
    BY DEF SavedAgrees, Typed, IsMachine, fast_reload_create_tmp_snapshot
  <1>3. d \in CowCache /\ d.enabled_fuzz = TRUE /\ d.enabled_fuzz_tmp = FALSE
    BY DEF SavedAgrees, Typed
  <1> HIDE DEF y, d
  <1>4. /\ e.base = d.base /\ e.primary = d.primary /\ e.secondary = d.secondary
        /\ e.enabled_fuzz = TRUE /\ e.enabled_fuzz_tmp = TRUE
    BY <1>3 DEF cow_cache_enable_tmp_mode, CowCache, d
  <1> HIDE DEF e
  <1>5. ASSUME NEW s \in Sectors PROVE RootStored(e, s) = root[s]
    BY <1>4 DEF SavedAgrees, RootStored, d
  <1>6. ASSUME NEW s \in Sectors PROVE TmpStored(e, s) = now[s]
    <2>1. TmpStored(e, s) = Stored(d, s)
      BY <1>3, <1>4 DEF Stored, TmpStored, RootStored, read_from_buffers
    <2> QED BY <2>1 DEF d
  <1>7. SavedAgrees(y, root, now)
    BY <1>1, <1>2, <1>4, <1>5, <1>6 DEF SavedAgrees
  <1> QED BY <1>1, <1>7 DEF y

\* Discarding it, if that was asked for.
LEMMA HandleTmpDisk ==
    ASSUME NEW x, NEW root, NEW tmp, SavedAgrees(x, root, tmp), discard_tmp_snapshot \in BOOLEAN
    PROVE  LET y == handle_tmp_snapshot_state(x)
           IN  /\ SavedAgrees(y, root, tmp)
               /\ y.incremental_snapshot_enabled
                    = (x.incremental_snapshot_enabled /\ ~ discard_tmp_snapshot)
  <1>1. CASE ~ (discard_tmp_snapshot /\ x.incremental_snapshot_enabled)
    <2>1. handle_tmp_snapshot_state(x) = x
      BY <1>1 DEF handle_tmp_snapshot_state
    <2> QED BY <1>1, <2>1 DEF SavedAgrees, Typed
  <1>2. CASE discard_tmp_snapshot /\ x.incremental_snapshot_enabled
    <2> DEFINE y == fast_reload_discard_tmp_snapshot(x, setup.mode)
               d == x.disk
               e == cow_cache_disable_tmp_mode(x.disk)
    <2>1. handle_tmp_snapshot_state(x) = y
      BY <1>2 DEF handle_tmp_snapshot_state
    <2>2. /\ Typed(y) /\ y.root_snapshot_created = TRUE
          /\ y.incremental_snapshot_enabled = FALSE
      BY DiscardHandled DEF SavedAgrees
    <2>3. y.disk = e
      BY DEF SavedAgrees, Typed, IsMachine, fast_reload_discard_tmp_snapshot
    <2>4. d \in CowCache /\ d.enabled_fuzz = TRUE
      BY DEF SavedAgrees, Typed
    <2> HIDE DEF y, d
    <2>5. /\ e.base = d.base /\ e.primary = d.primary
          /\ e.enabled_fuzz = TRUE /\ e.enabled_fuzz_tmp = FALSE
      BY <2>4 DEF cow_cache_disable_tmp_mode, cow_cache_reset, CowCache, d
    <2> HIDE DEF e
    <2>6. ASSUME NEW s \in Sectors PROVE RootStored(e, s) = root[s]
      BY <2>5 DEF SavedAgrees, RootStored, d
    <2>7. SavedAgrees(y, root, tmp)
      BY <2>2, <2>3, <2>5, <2>6 DEF SavedAgrees
    <2> QED BY <1>2, <2>1, <2>2, <2>7
  <1> QED BY <1>1, <1>2

\* The first snapshot.
LEMMA CreateRootDisk ==
    ASSUME NEW x, NEW garbage \in SUBSET HeapBits, Typed(x), NEW now, NEW tmp,
           x.disk.enabled_fuzz = FALSE, x.disk.enabled_fuzz_tmp = FALSE,
           x.incremental_snapshot_enabled = FALSE,
           \A s \in Sectors : Stored(x.disk, s) = now[s]
    PROVE  LET y == fast_reload_create_in_memory(x, garbage)
           IN  SavedAgrees(y, now, tmp) /\ y.incremental_snapshot_enabled = FALSE
  <1> DEFINE y == fast_reload_create_in_memory(x, garbage)
             d == x.disk
             e == switch_to_fuzz_mode(x.disk)
  <1>1. /\ Typed(y) /\ y.root_snapshot_created = TRUE
        /\ y.incremental_snapshot_enabled = FALSE
    BY CreateRootHandled
  <1>2. y.disk = e
    BY DEF Typed, IsMachine, fast_reload_create_in_memory
  <1>3. d \in CowCache /\ d.enabled_fuzz = FALSE /\ d.enabled_fuzz_tmp = FALSE
    BY DEF Typed
  <1> HIDE DEF y, d
  <1>4. /\ e.base = d.base /\ e.primary = d.primary
        /\ e.enabled_fuzz = TRUE /\ e.enabled_fuzz_tmp = FALSE
    BY <1>3 DEF switch_to_fuzz_mode, CowCache, d
  <1> HIDE DEF e
  <1>5. ASSUME NEW s \in Sectors PROVE RootStored(e, s) = now[s]
    <2>1. RootStored(e, s) = Stored(d, s)
      BY <1>3, <1>4 DEF Stored, RootStored, read_from_buffers
    <2> QED BY <2>1 DEF d
  <1>6. SavedAgrees(y, now, tmp)
    BY <1>1, <1>2, <1>4, <1>5 DEF SavedAgrees
  <1> QED BY <1>1, <1>6 DEF y

\* A write of an aligned request goes to the last layer, over all it covers.
LEMMA WriteDisk ==
    ASSUME NEW d \in CowCache, NEW r, r.off \in Nat, r.len \in Nat,
           RequestSectors(r) \subseteq Sectors, r.off % ChunkSectors = 0,
           r.len % ChunkSectors = 0, NEW v, NEW s \in Sectors
    PROVE  LET e == cow_cache_write(d, r, v)
           IN  /\ Stored(e, s) = IF s \in RequestSectors(r) THEN v ELSE Stored(d, s)
               /\ d.enabled_fuzz => RootStored(e, s) = RootStored(d, s)
               /\ d.enabled_fuzz /\ d.enabled_fuzz_tmp => TmpStored(e, s) = TmpStored(d, s)
               /\ e.enabled_fuzz = d.enabled_fuzz /\ e.enabled_fuzz_tmp = d.enabled_fuzz_tmp
  <1> DEFINE e == cow_cache_write(d, r, v)
             k == ChunkStart(s)
  <1>1. k \in ChunkOffsets(r) <=> s \in RequestSectors(r)
    BY AlignedWrite
  <1>2. Whole(r)
    BY DEF Whole
  <1>3. ASSUME NEW layer
        PROVE  /\ k \in DOMAIN Written(layer, r, v)
                     <=> s \in RequestSectors(r) \/ k \in DOMAIN layer
               /\ s \in RequestSectors(r) => Written(layer, r, v)[k] = v
               /\ s \notin RequestSectors(r) /\ k \in DOMAIN layer
                     => Written(layer, r, v)[k] = layer[k]
    BY <1>1 DEF Written
  <1>4. /\ e.base = d.base
        /\ e.enabled_fuzz = d.enabled_fuzz /\ e.enabled_fuzz_tmp = d.enabled_fuzz_tmp
        /\ d.enabled_fuzz \in BOOLEAN /\ d.enabled_fuzz_tmp \in BOOLEAN
        /\ e.primary = IF d.enabled_fuzz THEN d.primary ELSE Written(d.primary, r, v)
        /\ e.secondary = IF d.enabled_fuzz /\ ~ d.enabled_fuzz_tmp
                         THEN Written(d.secondary, r, v) ELSE d.secondary
        /\ e.secondary_tmp = IF d.enabled_fuzz /\ d.enabled_fuzz_tmp
                             THEN Written(d.secondary_tmp, r, v) ELSE d.secondary_tmp
    BY <1>2 DEF cow_cache_write, CowCache
  <1> HIDE DEF e, k
  <1>5. Stored(e, s) = IF s \in RequestSectors(r) THEN v ELSE Stored(d, s)
    <2>1. CASE ~ d.enabled_fuzz
      BY <1>3, <1>4, <2>1 DEF Stored, read_from_buffers, k
    <2>2. CASE d.enabled_fuzz /\ ~ d.enabled_fuzz_tmp
      BY <1>3, <1>4, <2>2 DEF Stored, read_from_buffers, k
    <2>3. CASE d.enabled_fuzz /\ d.enabled_fuzz_tmp
      BY <1>3, <1>4, <2>3 DEF Stored, read_from_buffers, k
    <2> QED BY <1>4, <2>1, <2>2, <2>3
  <1>6. /\ d.enabled_fuzz => RootStored(e, s) = RootStored(d, s)
        /\ d.enabled_fuzz /\ d.enabled_fuzz_tmp => TmpStored(e, s) = TmpStored(d, s)
    BY <1>4 DEF RootStored, TmpStored
  <1> QED BY <1>4, <1>5, <1>6 DEF e

----------------------------------------------------------------------------
\* At the start the layers hold the image, or the image and the folder's layer.
LEMMA DiskInit ==
    ASSUME AlignedDisk, Init
    PROVE  DiskInv
  <1>1. PathInv
    BY PathInit
  <1>2. /\ ~ discard_tmp_snapshot /\ ~ in_fuzzing_mode
        /\ Typed(vm) /\ vm.disk \in CowCache /\ ~ vm.incremental_snapshot_enabled
    BY <1>1 DEF Init, PathInv, TypeInv, Typed
  <1> DEFINE c == DiskContents(vm.disk.base, vm.disk.primary)
  <1>3. ideal.now.disk = c /\ ideal.root.disk = c
    BY DEF Init
  <1> HIDE DEF c
  <1>4. CASE vm = NewMachine
    <2>1. /\ vm.disk.primary = NoChunks /\ vm.disk.enabled_fuzz = FALSE
          /\ vm.disk.enabled_fuzz_tmp = FALSE /\ vm.root_snapshot_created = FALSE
      BY <1>4 DEF NewMachine, cow_cache_new
    <2>2. \A k : k \notin DOMAIN NoChunks
      BY DEF NoChunks
    <2>3. ASSUME NEW s \in Sectors PROVE Stored(vm.disk, s) = c[s]
      BY <2>1, <2>2 DEF Stored, read_from_buffers, DiskContents, c
    <2> QED BY <1>1, <1>2, <1>3, <2>1, <2>3 DEF DiskInv
  <1>5. ASSUME NEW f \in Folders, NEW garbage \in SUBSET HeapBits,
               vm = fast_reload_create_from_file(NewMachine, f, garbage)
        PROVE  DiskInv
    <2>1. /\ vm.disk = [base |-> BootImage, primary |-> f.primary, secondary |-> NoChunks,
                        secondary_tmp |-> NoChunks, enabled_fuzz |-> TRUE,
                        enabled_fuzz_tmp |-> FALSE]
          /\ vm.root_snapshot_created = TRUE /\ vm.incremental_snapshot_enabled = FALSE
      BY <1>5 DEF fast_reload_create_from_file, NewMachine, read_primary_buffer,
                  switch_to_fuzz_mode, cow_cache_new
    <2>2. /\ vm.disk.primary = f.primary /\ vm.disk.secondary = NoChunks
          /\ vm.disk.enabled_fuzz = TRUE /\ vm.disk.enabled_fuzz_tmp = FALSE
      BY <2>1
    <2>3. f.primary \in Layers /\ \A k \in DOMAIN f.primary : k % ChunkSectors = 0
      BY FastReloadAssumption DEF AlignedDisk
    <2>4. \A k : k \notin DOMAIN NoChunks
      BY DEF NoChunks
    <2>5. ASSUME NEW s \in Sectors
          PROVE  RootStored(vm.disk, s) = c[s] /\ Stored(vm.disk, s) = c[s]
      <3>1. RootStored(vm.disk, s) = c[s]
        BY <2>2, <2>3, AlignedContents DEF RootStored, c
      <3>2. Stored(vm.disk, s) = RootStored(vm.disk, s)
        BY <2>2, <2>4 DEF Stored, RootStored, read_from_buffers
      <3> QED BY <3>1, <3>2
    <2>6. SavedAgrees(vm, ideal.root.disk, ideal.tmp.disk)
      BY <1>2, <1>3, <2>1, <2>2, <2>5 DEF SavedAgrees
    <2> QED BY <1>1, <1>2, <1>3, <2>1, <2>5, <2>6 DEF DiskInv
  <1> QED BY <1>4, <1>5 DEF Init, Start

\* A step that leaves the disk alone.
LEMMA DiskAlone ==
    ASSUME DiskInv, PathInv', UNCHANGED flags, vm'.disk = vm.disk,
           vm'.root_snapshot_created = vm.root_snapshot_created,
           vm'.incremental_snapshot_enabled = vm.incremental_snapshot_enabled,
           ideal'.now.disk = ideal.now.disk, ideal'.root = ideal.root, ideal'.tmp = ideal.tmp
    PROVE  DiskInv'
  <1>1. Typed(vm')
    BY DEF PathInv, TypeInv, Typed, IsMachine, IsDev
  <1>2. vm.root_snapshot_created => SavedAgrees(vm', ideal'.root.disk, ideal'.tmp.disk)
    BY <1>1 DEF DiskInv, SavedAgrees
  <1>3. \A s \in Sectors : Stored(vm'.disk, s) = ideal'.now.disk[s]
    BY DEF DiskInv
  <1>4. /\ (discard_tmp_snapshot => in_reload_mode)'
        /\ (in_fuzzing_mode => vm.root_snapshot_created)'
        /\ (~ vm.root_snapshot_created =>
               vm.disk.enabled_fuzz = FALSE /\ vm.disk.enabled_fuzz_tmp = FALSE)'
        /\ (vm.root_snapshot_created /\ ~ in_fuzzing_mode =>
               \A s \in Sectors : ideal.now.disk[s] = ideal.root.disk[s])'
    BY DEF DiskInv, flags
  <1> QED BY <1>2, <1>3, <1>4 DEF DiskInv, SavedAgrees, Stored, RootStored, TmpStored,
                                  read_from_buffers, ChunkStart, Typed, IsMachine, IsDev

\* A handler behind which the layers agree with the history.
LEMMA DiskHandled ==
    ASSUME PathInv', in_fuzzing_mode' = TRUE, discard_tmp_snapshot' => in_reload_mode',
           SavedAgrees(vm', ideal'.root.disk, ideal'.tmp.disk),
           \A s \in Sectors : Stored(vm'.disk, s) = ideal'.now.disk[s]
    PROVE  DiskInv'
  <1>1. vm'.root_snapshot_created = TRUE
    BY DEF SavedAgrees
  <1> QED BY <1>1 DEF DiskInv, SavedAgrees, Stored, RootStored, TmpStored,
                      read_from_buffers, ChunkStart, Typed, IsMachine, IsDev

\* Every step keeps the invariant.
LEMMA DiskStep ==
    ASSUME AlignedDisk, DiscardsReload, DiskInv, [Next]_vars
    PROVE  DiskInv'
  <1>0. /\ PathInv /\ PathInv' /\ TypeInv /\ Typed(vm) /\ IsIdeal(ideal)
        /\ discard_tmp_snapshot \in BOOLEAN /\ in_fuzzing_mode \in BOOLEAN
        /\ vm.incremental_snapshot_enabled \in BOOLEAN /\ vm.root_snapshot_created \in BOOLEAN
        /\ setup \in Setups
    BY PathStep DEF DiskInv, PathInv, TypeInv, TypeOK
  <1>1. ASSUME NEW p \in setup.pages, NEW v \in Values, GuestWrite(p, v) PROVE DiskInv'
    <2>1. /\ vm'.disk = vm.disk /\ vm'.root_snapshot_created = vm.root_snapshot_created
          /\ vm'.incremental_snapshot_enabled = vm.incremental_snapshot_enabled
          /\ UNCHANGED <<flags, ideal>>
      BY <1>0, <1>1 DEF GuestWrite, Typed, IsMachine
    <2> QED BY <1>0, <2>1, DiskAlone
  <1>2. CASE handle_dirty_ring_full
    <2>1. /\ vm'.disk = vm.disk /\ vm'.root_snapshot_created = vm.root_snapshot_created
          /\ vm'.incremental_snapshot_enabled = vm.incremental_snapshot_enabled
          /\ UNCHANGED <<flags, ideal>>
      BY <1>0, <1>2 DEF handle_dirty_ring_full, Typed, IsMachine
    <2> QED BY <1>0, <2>1, DiskAlone
  <1>3. ASSUME NEW w \in setup.dma, NEW v \in Values, DeviceWrite(w, v) PROVE DiskInv'
    <2>1. /\ vm'.disk = vm.disk /\ vm'.root_snapshot_created = vm.root_snapshot_created
          /\ vm'.incremental_snapshot_enabled = vm.incremental_snapshot_enabled
          /\ UNCHANGED <<flags, ideal>>
      BY <1>0, <1>3 DEF DeviceWrite, Typed, IsMachine
    <2> QED BY <1>0, <2>1, DiskAlone
  <1>4. ASSUME NEW s \in setup.devs, DeviceStep(s) PROVE DiskInv'
    <2>1. /\ vm'.disk = vm.disk /\ vm'.root_snapshot_created = vm.root_snapshot_created
          /\ vm'.incremental_snapshot_enabled = vm.incremental_snapshot_enabled
          /\ UNCHANGED <<flags, ideal>>
      BY <1>0, <1>4 DEF DeviceStep, Typed, IsMachine
    <2> QED BY <1>0, <2>1, DiskAlone
  <1>5. ASSUME NEW p \in setup.persist, fast_reload_blacklist_page(p) PROVE DiskInv'
    <2>1. /\ vm'.disk = vm.disk /\ vm'.root_snapshot_created = vm.root_snapshot_created
          /\ vm'.incremental_snapshot_enabled = vm.incremental_snapshot_enabled
          /\ UNCHANGED <<flags, ideal>>
      BY <1>0, <1>5 DEF fast_reload_blacklist_page, Typed, IsMachine
    <2> QED BY <1>0, <2>1, DiskAlone
  <1>6. ASSUME NEW p \in Pages, NEW v \in Values, PayloadWrite(p, v) PROVE DiskInv'
    <2>1. /\ vm'.disk = vm.disk /\ vm'.root_snapshot_created = vm.root_snapshot_created
          /\ vm'.incremental_snapshot_enabled = vm.incremental_snapshot_enabled
          /\ UNCHANGED <<flags, ideal>>
      BY <1>0, <1>6 DEF PayloadWrite, Typed, IsMachine
    <2> QED BY <1>0, <2>1, DiskAlone
  <1>7. ASSUME NEW b \in setup.blocks, Cover(b) PROVE DiskInv'
    <2>1. UNCHANGED <<vm, flags>> /\ ideal' = [ideal EXCEPT !.now.path = @ \cup {b}]
      BY <1>7 DEF Cover
    <2>2. /\ ideal'.now.disk = ideal.now.disk /\ ideal'.root = ideal.root
          /\ ideal'.tmp = ideal.tmp
      BY <1>0, <2>1 DEF IsIdeal, IsPoint
    <2> QED BY <1>0, <2>1, <2>2, DiskAlone
  <1>8. CASE pt_handle_overflow \/ UNCHANGED vars
    <2>1. UNCHANGED <<vm, flags, ideal>>
      BY <1>8 DEF pt_handle_overflow, vars, flags
    <2> QED BY <1>0, <2>1, DiskAlone
  <1>9. ASSUME NEW r \in setup.io, NEW v \in DiskValues, DiskWrite(r, v) PROVE DiskInv'
    <2>1. UNCHANGED flags /\ Running
      BY <1>9 DEF DiskWrite
    <2>2. CASE UNCHANGED <<vm, ideal>>
      BY <1>0, <2>1, <2>2, DiskAlone
    <2>3. CASE /\ vm' = [vm EXCEPT !.disk = cow_cache_write(@, r, v)]
               /\ ideal' = [ideal EXCEPT !.now.disk =
                               [s \in Sectors |-> IF s \in RequestSectors(r) THEN v ELSE @[s]]]
      <3> DEFINE d == vm.disk
                 e == cow_cache_write(d, r, v)
                 n == [s \in Sectors |-> IF s \in RequestSectors(r) THEN v
                                         ELSE ideal.now.disk[s]]
      <3>1. /\ r.off \in Nat /\ r.len \in Nat /\ RequestSectors(r) \subseteq Sectors
            /\ r.off % ChunkSectors = 0 /\ r.len % ChunkSectors = 0
        BY <1>0, FastReloadAssumption DEF AlignedDisk
      <3>2. d \in CowCache
        BY <1>0 DEF Typed
      <3>3. /\ \A s \in Sectors :
                  /\ Stored(e, s) = IF s \in RequestSectors(r) THEN v ELSE Stored(d, s)
                  /\ d.enabled_fuzz => RootStored(e, s) = RootStored(d, s)
                  /\ d.enabled_fuzz /\ d.enabled_fuzz_tmp
                       => TmpStored(e, s) = TmpStored(d, s)
        BY <3>1, <3>2, WriteDisk
      <3>4. e.enabled_fuzz = d.enabled_fuzz /\ e.enabled_fuzz_tmp = d.enabled_fuzz_tmp
        BY <3>2 DEF cow_cache_write, CowCache
      <3>5. /\ vm'.disk = e /\ vm'.root_snapshot_created = vm.root_snapshot_created
            /\ vm'.incremental_snapshot_enabled = vm.incremental_snapshot_enabled
        BY <1>0, <2>3 DEF Typed, IsMachine
      <3>6. ideal' = [ideal EXCEPT !.now.disk = n]
        BY <2>3
      <3> HIDE DEF n, e
      <3>7. /\ ideal'.now.disk = n /\ ideal'.root = ideal.root /\ ideal'.tmp = ideal.tmp
        BY <1>0, <3>6 DEF IsIdeal, IsPoint
      <3>8. \A s \in Sectors : Stored(vm'.disk, s) = ideal'.now.disk[s]
        BY <3>3, <3>5, <3>7 DEF DiskInv, n
      <3>9. Typed(vm')
        BY <1>0 DEF PathInv, TypeInv, Typed, IsMachine, IsDev
      <3>10. CASE vm.root_snapshot_created
        <4>1. in_fuzzing_mode' = TRUE /\ (discard_tmp_snapshot' => in_reload_mode')
          BY <1>0, <2>1, <3>10 DEF Running, flags, DiskInv
        <4>2. SavedAgrees(vm, ideal.root.disk, ideal.tmp.disk)
          BY <3>10 DEF DiskInv
        <4>3. SavedAgrees(vm', ideal'.root.disk, ideal'.tmp.disk)
          BY <3>3, <3>4, <3>5, <3>7, <3>9, <4>2 DEF SavedAgrees
        <4> QED BY <1>0, <3>8, <4>1, <4>3, DiskHandled
      <3>11. CASE ~ vm.root_snapshot_created
        <4>1. e.enabled_fuzz = FALSE /\ e.enabled_fuzz_tmp = FALSE
          BY <3>4, <3>11 DEF DiskInv
        <4>2. UNCHANGED <<in_fuzzing_mode, discard_tmp_snapshot, in_reload_mode>>
          BY <2>1 DEF flags
        <4>3. ~ in_fuzzing_mode /\ (discard_tmp_snapshot => in_reload_mode)
          BY <3>11 DEF DiskInv
        <4> QED BY <1>0, <3>5, <3>8, <3>11, <4>1, <4>2, <4>3
               DEF DiskInv, Stored, read_from_buffers, ChunkStart
      <3> QED BY <3>10, <3>11
    <2> QED BY <1>9, <2>2, <2>3 DEF DiskWrite
  <1>10. ASSUME NEW garbage \in SUBSET HeapBits, SetupSnapshotOnce(garbage) PROVE DiskInv'
    <2> DEFINE x == IF vm.root_snapshot_created THEN vm
                    ELSE fast_reload_create_in_memory(vm, garbage)
               y == fast_reload_restore(x, setup.mode)
               n == ideal.now.disk
               t == ideal.tmp.disk
    <2>1. /\ vm' = fast_reload_restore(y, setup.mode)
          /\ ideal' = [ideal EXCEPT !.root = ideal.now]
          /\ ~ in_fuzzing_mode /\ in_fuzzing_mode' = TRUE
          /\ UNCHANGED <<discard_tmp_snapshot, in_reload_mode>>
      BY <1>10 DEF SetupSnapshotOnce
    <2>2. vm.incremental_snapshot_enabled = FALSE
      BY <1>0, <2>1 DEF TypeInv
    <2>3. SavedAgrees(x, n, t) /\ x.incremental_snapshot_enabled = FALSE
      <3>1. CASE vm.root_snapshot_created
        <4>1. SavedAgrees(vm, ideal.root.disk, t)
              /\ \A s \in Sectors : n[s] = ideal.root.disk[s]
          BY <2>1, <3>1 DEF DiskInv
        <4>2. SavedAgrees(vm, n, t)
          BY <4>1 DEF SavedAgrees
        <4> QED BY <2>2, <3>1, <4>2
      <3>2. CASE ~ vm.root_snapshot_created
        <4>1. /\ vm.disk.enabled_fuzz = FALSE /\ vm.disk.enabled_fuzz_tmp = FALSE
              /\ \A s \in Sectors : Stored(vm.disk, s) = n[s]
          BY <3>2 DEF DiskInv
        <4> QED BY <1>0, <2>2, <3>2, <4>1, CreateRootDisk
      <3> QED BY <3>1, <3>2
    <2> HIDE DEF x
    <2>4. SavedAgrees(y, n, t) /\ y.incremental_snapshot_enabled = FALSE
      BY <2>3, RestoreDisk
    <2> HIDE DEF y
    <2>5. SavedAgrees(vm', n, t) /\ \A s \in Sectors : Stored(vm'.disk, s) = n[s]
      BY <2>1, <2>4, RestoreDisk
    <2>6. ideal'.now = ideal.now /\ ideal'.root = ideal.now /\ ideal'.tmp = ideal.tmp
      BY <1>0, <2>1 DEF IsIdeal, IsPoint
    <2>7. discard_tmp_snapshot' => in_reload_mode'
      BY <2>1 DEF DiskInv
    <2> QED BY <1>0, <2>1, <2>5, <2>6, <2>7, DiskHandled
  <1>11. CASE FastAcquire
    <2>1. UNCHANGED <<vm, ideal, in_fuzzing_mode>> /\ in_fuzzing_mode
      BY <1>11 DEF FastAcquire
    <2>2. discard_tmp_snapshot' => in_reload_mode'
      <3>1. discard_tmp_snapshot => in_reload_mode
        BY DEF DiskInv
      <3>2. CASE UNCHANGED <<in_reload_mode, discard_tmp_snapshot>>
        BY <3>1, <3>2
      <3>3. ASSUME NEW c \in Configs, in_reload_mode' = c.reload_mode,
                   discard_tmp_snapshot' = c.discard
            PROVE  discard_tmp_snapshot' => in_reload_mode'
        BY <3>3, FastReloadAssumption DEF DiscardsReload
      <3> QED BY <1>11, <3>2, <3>3 DEF FastAcquire
    <2>3. /\ SavedAgrees(vm, ideal.root.disk, ideal.tmp.disk)
          /\ \A s \in Sectors : Stored(vm.disk, s) = ideal.now.disk[s]
      BY <2>1 DEF DiskInv
    <2> QED BY <1>0, <2>1, <2>2, <2>3, DiskHandled
  <1>12. CASE Release \/ EndExec
    <2> DEFINE x == handle_tmp_snapshot_state(vm)
               r == ideal.root.disk
               t == ideal.tmp.disk
    <2>1. in_fuzzing_mode /\ in_fuzzing_mode' = TRUE /\ discard_tmp_snapshot' = FALSE
      BY <1>0, <1>12 DEF Release, EndExec, Ends, TypeInv
    <2>2. SavedAgrees(vm, r, t)
      BY <2>1 DEF DiskInv
    <2>3. SavedAgrees(x, r, t)
      BY <1>0, <2>2, HandleTmpDisk
    <2>4. CASE /\ vm' = fast_reload_restore(x, setup.mode)
               /\ Reloads(x)
      <3>1. ideal' = [ideal EXCEPT !.now = IF x.incremental_snapshot_enabled THEN ideal.tmp
                                           ELSE ideal.root]
        BY <2>4 DEF Reloads
      <3> HIDE DEF x
      <3>2. /\ ideal'.root = ideal.root /\ ideal'.tmp = ideal.tmp
            /\ ideal'.now = IF x.incremental_snapshot_enabled THEN ideal.tmp ELSE ideal.root
        BY <1>0, <3>1 DEF IsIdeal, IsPoint
      <3>3. /\ SavedAgrees(vm', r, t)
            /\ \A s \in Sectors : Stored(vm'.disk, s)
                  = IF x.incremental_snapshot_enabled THEN t[s] ELSE r[s]
        BY <2>3, <2>4, RestoreDisk
      <3>4. \A s \in Sectors : Stored(vm'.disk, s) = ideal'.now.disk[s]
        BY <3>2, <3>3
      <3>5. SavedAgrees(vm', ideal'.root.disk, ideal'.tmp.disk)
        BY <3>2, <3>3
      <3> QED BY <1>0, <2>1, <3>4, <3>5, DiskHandled
    <2>5. CASE /\ ~ in_reload_mode
               /\ vm' = x
               /\ ideal' = [ideal EXCEPT !.now.path = {}]
      <3>1. x = vm
        BY <2>5 DEF DiskInv, handle_tmp_snapshot_state
      <3>2. /\ ideal'.root = ideal.root /\ ideal'.tmp = ideal.tmp
            /\ ideal'.now.disk = ideal.now.disk
        BY <1>0, <2>5 DEF IsIdeal, IsPoint
      <3>3. \A s \in Sectors : Stored(vm'.disk, s) = ideal'.now.disk[s]
        BY <2>5, <3>1, <3>2 DEF DiskInv
      <3>4. SavedAgrees(vm', ideal'.root.disk, ideal'.tmp.disk)
        BY <2>2, <2>5, <3>1, <3>2
      <3> QED BY <1>0, <2>1, <3>3, <3>4, DiskHandled
    <2> QED BY <1>12, <2>4, <2>5 DEF Release, EndExec
  <1>13. CASE CreateTmpSnapshot
    <2> DEFINE w == fast_reload_create_tmp_snapshot(vm, setup.mode)
               y == fast_reload_restore(w, setup.mode)
               x == handle_tmp_snapshot_state(y)
               r == ideal.root.disk
               n == ideal.now.disk
    <2>1. /\ in_fuzzing_mode /\ in_fuzzing_mode' = TRUE /\ discard_tmp_snapshot' = FALSE
          /\ ~ vm.incremental_snapshot_enabled
          /\ vm' = IF in_reload_mode \/ x.incremental_snapshot_enabled
                   THEN fast_reload_restore(x, setup.mode) ELSE x
          /\ ideal' = [ideal EXCEPT !.tmp = ideal.now,
                                    !.now = IF x.incremental_snapshot_enabled
                                            THEN ideal.now ELSE ideal.root]
      BY <1>0, <1>13 DEF CreateTmpSnapshot, Ends, TypeInv
    <2>2. /\ SavedAgrees(vm, r, ideal.tmp.disk)
          /\ \A s \in Sectors : Stored(vm.disk, s) = n[s]
      BY <2>1 DEF DiskInv
    <2>3. SavedAgrees(w, r, n) /\ w.incremental_snapshot_enabled = TRUE
      BY <2>1, <2>2, CreateDisk
    <2> HIDE DEF w
    <2>4. SavedAgrees(y, r, n) /\ y.incremental_snapshot_enabled = TRUE
      BY <2>3, RestoreDisk
    <2> HIDE DEF y
    <2>5. /\ SavedAgrees(x, r, n)
          /\ x.incremental_snapshot_enabled = ~ discard_tmp_snapshot
      BY <1>0, <2>4, HandleTmpDisk
    <2>6. vm' = fast_reload_restore(x, setup.mode)
      BY <2>1, <2>5 DEF DiskInv
    <2> HIDE DEF x
    <2>7. /\ ideal'.root = ideal.root /\ ideal'.tmp = ideal.now
          /\ ideal'.now = IF x.incremental_snapshot_enabled THEN ideal.now ELSE ideal.root
      BY <1>0, <2>1 DEF IsIdeal, IsPoint
    <2>8. /\ SavedAgrees(vm', r, n)
          /\ \A s \in Sectors : Stored(vm'.disk, s)
                = IF x.incremental_snapshot_enabled THEN n[s] ELSE r[s]
      BY <2>5, <2>6, RestoreDisk
    <2>9. \A s \in Sectors : Stored(vm'.disk, s) = ideal'.now.disk[s]
      BY <2>7, <2>8
    <2>10. SavedAgrees(vm', ideal'.root.disk, ideal'.tmp.disk)
      BY <2>7, <2>8
    <2> QED BY <1>0, <2>1, <2>9, <2>10, DiskHandled
  <1> QED BY <1>1, <1>2, <1>3, <1>4, <1>5, <1>6, <1>7, <1>8, <1>9, <1>10, <1>11, <1>12,
             <1>13 DEF Next

\* Through image, root layer and the layers behind it the guest reads what it
\* wrote on the path to this state: a write lost to a discarded snapshot is
\* lost as a whole, one that is part of a snapshot comes back with it, and two
\* requests that overlap agree on every sector.  Nothing is assumed of memory.
THEOREM DiskCoherentCorrect ==
    ASSUME AlignedDisk, DiscardsReload
    PROVE  Spec => []DiskCoherent
  <1>1. Init => DiskInv
    BY DiskInit
  <1>2. DiskInv /\ [Next]_vars => DiskInv'
    BY DiskStep
  <1>3. DiskInv => DiskCoherent
    <2> SUFFICES ASSUME DiskInv, NEW r \in setup.io
                 PROVE  cow_cache_read(vm.disk, r)
                          = [s \in RequestSectors(r) |-> ideal.now.disk[s]]
      BY DEF DiskCoherent
    <2>1. /\ r.off \in Nat /\ r.len \in Nat /\ RequestSectors(r) \subseteq Sectors
          /\ r.off % ChunkSectors = 0 /\ r.len % ChunkSectors = 0
      BY FastReloadAssumption DEF AlignedDisk, DiskInv, PathInv, TypeInv, TypeOK
    <2>2. cow_cache_read(vm.disk, r) = [s \in RequestSectors(r) |-> Stored(vm.disk, s)]
      BY <2>1, AlignedRead
    <2>3. \A s \in RequestSectors(r) : Stored(vm.disk, s) = ideal.now.disk[s]
      BY <2>1 DEF DiskInv
    <2> QED BY <2>2, <2>3
  <1> QED BY <1>1, <1>2, <1>3, PTL DEF Spec

=============================================================================
