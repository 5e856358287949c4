------------------------- MODULE ShadowMemoryProofs -------------------------
(***************************************************************************)
(* For any number of pages and any contents: the operations on the memory  *)
(* keep every difference to the current snapshot known to the dirty logs,  *)
(* and a restore, which follows the logs only, therefore restores all of   *)
(* the memory that is not persistent.  All of it is relative to a set of   *)
(* pages, lost, that devices may change unseen: nothing is said of those,  *)
(* and what happens to them disturbs no other page.                        *)
(***************************************************************************)
EXTENDS ShadowMemory, TLAPS

Tracks(m, mode, lost) ==
    /\ m \in Memory
    /\ CopiesAgree(m)
    /\ DifferenceIsKnown(m, mode, lost)
    /\ BitsMatchStacks(m)
    /\ OtherLogsEmpty(m, mode)

\* Copied replaces the pages of S and no other.
LEMMA CopiedPages ==
    ASSUME NEW f \in [Pages -> Values], NEW g \in [Pages -> Values], NEW S
    PROVE  /\ Copied(f, S, g) \in [Pages -> Values]
           /\ \A p \in Pages : p \in S => Copied(f, S, g)[p] = g[p]
           /\ \A p \in Pages : p \notin S => Copied(f, S, g)[p] = f[p]
  BY DEF Copied

\* A guest write is recorded in the log of the backend.
LEMMA KvmWriteTracks ==
    ASSUME NEW m, NEW mode \in Modes, NEW lost, Tracks(m, mode, lost), NEW p \in Pages, NEW v \in Values
    PROVE  Tracks(kvm_write(m, mode, TRUE, p, v), mode, lost)
  <1> DEFINE r == kvm_write(m, mode, TRUE, p, v)
  <1>1. m \in Memory
    BY DEF Tracks
  <1>2. /\ r.host = [m.host EXCEPT ![p] = v]
        /\ r.snapshot = m.snapshot
        /\ r.incremental = m.incremental
        /\ r.incremental_enabled = m.incremental_enabled
        /\ r.tracked = m.tracked
        /\ r.blocklist = m.blocklist
        /\ r.user_stack = m.user_stack
        /\ r.user_bitmap = m.user_bitmap
    BY <1>1 DEF Memory, Modes, kvm_write
  <1>3. /\ r.ring = IF mode = "DIRTY_RING" THEN m.ring \cup {p} ELSE m.ring
        /\ r.stack = IF mode = "FDL" THEN m.stack \cup ({p} \ m.bitmap) ELSE m.stack
        /\ r.bitmap = IF mode = "FDL" THEN m.bitmap \cup {p} ELSE m.bitmap
    BY <1>1 DEF Memory, Modes, kvm_write
  <1>4. r \in Memory
    BY <1>1 DEF Memory, Modes, kvm_write
  <1> HIDE DEF r
  <1>5. CopiesAgree(r)
    BY <1>1, <1>2 DEF Tracks, CopiesAgree
  <1>6. DifferenceIsKnown(r, mode, lost)
    <2> SUFFICES ASSUME NEW q \in Pages \ (r.blocklist \cup lost), r.host[q] # current_region(r)[q],
                        mode # "DEBUG"
                 PROVE  q \in r.ring \cup r.stack \cup r.user_stack
      BY DEF DifferenceIsKnown
    <2>1. CASE q = p
      <3>1. CASE mode = "DIRTY_RING"
        BY <1>3, <2>1, <3>1
      <3>2. CASE mode = "FDL"
        BY <1>2, <1>3, <2>1, <3>2 DEF Tracks, BitsMatchStacks
      <3> QED BY <3>1, <3>2 DEF Modes
    <2>2. CASE q # p
      <3>1. m.host[q] # current_region(m)[q]
        BY <1>1, <1>2, <2>2 DEF Memory, current_region
      <3> QED BY <1>2, <1>3, <3>1 DEF Tracks, DifferenceIsKnown
    <2> QED BY <2>1, <2>2
  <1>7. BitsMatchStacks(r)
    BY <1>2, <1>3 DEF Tracks, BitsMatchStacks
  <1>8. OtherLogsEmpty(r, mode)
    BY <1>3 DEF Tracks, OtherLogsEmpty
  <1> QED BY <1>4, <1>5, <1>6, <1>7, <1>8 DEF Tracks, r

\* A device write is recorded, except for what it may change unseen.
LEMMA DeviceWriteTracks ==
    ASSUME NEW m, NEW mode \in Modes, NEW lost, Tracks(m, mode, lost), NEW w, NEW v \in Values,
           WrittenPages(w) \ (MarkedPages(w) \ HeapBits) \subseteq lost
    PROVE  Tracks(device_write(m, TRUE, w, v), mode, lost)
  <1> DEFINE r == device_write(m, TRUE, w, v)
             all == [p \in Pages |-> v]
  <1>1. m \in Memory
    BY DEF Tracks
  <1>2. all \in [Pages -> Values]
    OBVIOUS
  <1>3. /\ Copied(m.host, WrittenPages(w), all) \in [Pages -> Values]
        /\ \A p \in Pages : p \notin WrittenPages(w)
              => Copied(m.host, WrittenPages(w), all)[p] = m.host[p]
    BY <1>1, <1>2, CopiedPages DEF Memory
  <1>4. MarkedPages(w) \subseteq Pages
    BY DEF MarkedPages
  <1>5. /\ r.host = Copied(m.host, WrittenPages(w), all)
        /\ r.snapshot = m.snapshot
        /\ r.incremental = m.incremental
        /\ r.incremental_enabled = m.incremental_enabled
        /\ r.tracked = m.tracked
        /\ r.blocklist = m.blocklist
        /\ r.ring = m.ring /\ r.stack = m.stack /\ r.bitmap = m.bitmap
        /\ r.user_stack = m.user_stack \cup (MarkedPages(w) \ m.user_bitmap)
        /\ r.user_bitmap = m.user_bitmap \cup MarkedPages(w)
    BY <1>1 DEF Memory, device_write, nyx_fdl_user_set
  <1>6. r \in Memory
    BY <1>1, <1>3, <1>4 DEF Memory, device_write, nyx_fdl_user_set
  <1> HIDE DEF r, all
  <1>7. CopiesAgree(r)
    BY <1>5 DEF Tracks, CopiesAgree
  <1>8. DifferenceIsKnown(r, mode, lost)
    <2> SUFFICES ASSUME NEW q \in Pages \ (r.blocklist \cup lost), r.host[q] # current_region(r)[q],
                        mode # "DEBUG"
                 PROVE  q \in r.ring \cup r.stack \cup r.user_stack
      BY DEF DifferenceIsKnown
    <2>1. CASE q \in WrittenPages(w)
      BY <1>5, <2>1 DEF Tracks, BitsMatchStacks
    <2>2. CASE q \notin WrittenPages(w)
      <3>1. m.host[q] # current_region(m)[q]
        BY <1>3, <1>5, <2>2 DEF current_region
      <3> QED BY <1>5, <3>1 DEF Tracks, DifferenceIsKnown
    <2> QED BY <2>1, <2>2
  <1>9. BitsMatchStacks(r)
    BY <1>5 DEF Tracks, BitsMatchStacks
  <1>10. OtherLogsEmpty(r, mode)
    BY <1>5 DEF Tracks, OtherLogsEmpty
  <1> QED BY <1>6, <1>7, <1>8, <1>9, <1>10 DEF Tracks, r

\* Emptying KVM's ring loses no page.
LEMMA CollectTracks ==
    ASSUME NEW m, NEW lost, Tracks(m, "DIRTY_RING", lost)
    PROVE  Tracks(dirty_ring_flush_and_collect(m), "DIRTY_RING", lost)
  <1> DEFINE r == dirty_ring_flush_and_collect(m)
  <1>1. m \in Memory
    BY DEF Tracks
  <1>2. /\ r.host = m.host /\ r.snapshot = m.snapshot /\ r.incremental = m.incremental
        /\ r.incremental_enabled = m.incremental_enabled
        /\ r.tracked = m.tracked /\ r.blocklist = m.blocklist
        /\ r.ring = {}
        /\ r.stack = m.stack \cup (m.ring \ m.bitmap)
        /\ r.bitmap = m.bitmap \cup m.ring
        /\ r.user_stack = m.user_stack /\ r.user_bitmap = m.user_bitmap
    BY <1>1 DEF Memory, dirty_ring_flush_and_collect
  <1>3. r \in Memory
    BY <1>1 DEF Memory, dirty_ring_flush_and_collect
  <1> HIDE DEF r
  <1>4. CopiesAgree(r)
    BY <1>2 DEF Tracks, CopiesAgree
  <1>5. DifferenceIsKnown(r, "DIRTY_RING", lost)
    <2> SUFFICES ASSUME NEW q \in Pages \ (r.blocklist \cup lost), r.host[q] # current_region(r)[q]
                 PROVE  q \in r.ring \cup r.stack \cup r.user_stack
      BY DEF DifferenceIsKnown
    <2>1. q \in m.ring \cup m.stack \cup m.user_stack
      BY <1>2 DEF Tracks, DifferenceIsKnown, current_region
    <2> QED BY <1>2, <2>1 DEF Tracks, BitsMatchStacks
  <1>6. BitsMatchStacks(r)
    BY <1>2 DEF Tracks, BitsMatchStacks
  <1>7. OtherLogsEmpty(r, "DIRTY_RING")
    BY DEF OtherLogsEmpty
  <1> QED BY <1>3, <1>4, <1>5, <1>6, <1>7 DEF Tracks, r

\* What a restore or a snapshot starts from: the ring is empty, the rest is as
\* it was.
LEMMA CollectedTracks ==
    ASSUME NEW m, NEW mode \in Modes, NEW lost, Tracks(m, mode, lost)
    PROVE  /\ Tracks(Collected(m, mode), mode, lost)
           /\ Collected(m, mode).ring = {}
           /\ Collected(m, mode).host = m.host
           /\ Collected(m, mode).blocklist = m.blocklist
           /\ Collected(m, mode).snapshot = m.snapshot
           /\ Collected(m, mode).incremental = m.incremental
           /\ Collected(m, mode).incremental_enabled = m.incremental_enabled
           /\ Collected(m, mode).tracked = m.tracked
  <1>1. CASE mode = "DIRTY_RING"
    <2>1. Collected(m, mode) = dirty_ring_flush_and_collect(m)
      BY <1>1 DEF Collected
    <2>2. Tracks(dirty_ring_flush_and_collect(m), mode, lost)
      BY <1>1, CollectTracks
    <2>3. m \in Memory
      BY DEF Tracks
    <2> QED BY <2>1, <2>2, <2>3 DEF dirty_ring_flush_and_collect, Memory
  <1>2. CASE mode # "DIRTY_RING"
    BY <1>2 DEF Collected, Tracks, OtherLogsEmpty
  <1> QED BY <1>1, <1>2

\* The backend's part of a restore: only what devices wrote may be left.
LEMMA BackendRestoreTracks ==
    ASSUME NEW m, NEW mode \in Modes, NEW lost, Tracks(m, mode, lost)
    PROVE  LET r == backend_restore(m, mode)
           IN  /\ Tracks(r, mode, lost)
               /\ r.ring = {} /\ r.stack = {}
               /\ r.blocklist = m.blocklist
               /\ r.snapshot = m.snapshot /\ r.incremental = m.incremental
               /\ r.incremental_enabled = m.incremental_enabled
               /\ \A p \in Pages \ (r.blocklist \cup lost) :
                     r.host[p] # current_region(r)[p] => p \in r.user_stack
  <1> DEFINE c == Collected(m, mode)
             d == DirtyPages(c, mode)
             r == backend_restore(m, mode)
  <1>1. /\ Tracks(c, mode, lost) /\ c.ring = {} /\ c.blocklist = m.blocklist
        /\ c.snapshot = m.snapshot /\ c.incremental = m.incremental
        /\ c.incremental_enabled = m.incremental_enabled
        /\ current_region(c) = current_region(m)
    BY CollectedTracks DEF current_region
  <1>2. c \in Memory /\ current_region(c) \in [Pages -> Values]
    BY <1>1 DEF Tracks, Memory, current_region
  <1>3. /\ Copied(c.host, d, current_region(c)) \in [Pages -> Values]
        /\ \A p \in Pages : p \in d
              => Copied(c.host, d, current_region(c))[p] = current_region(c)[p]
        /\ \A p \in Pages : p \notin d
              => Copied(c.host, d, current_region(c))[p] = c.host[p]
    BY <1>2, CopiedPages DEF Memory
  <1>4. r = [c EXCEPT !.host = Copied(c.host, d, current_region(c)),
                      !.bitmap = c.bitmap \ d, !.stack = {}]
    BY <1>1 DEF backend_restore
  <1> HIDE DEF c, d, r
  <1>5. /\ r.host = Copied(c.host, d, current_region(c))
        /\ r.snapshot = c.snapshot /\ r.incremental = c.incremental
        /\ r.incremental_enabled = c.incremental_enabled
        /\ r.tracked = c.tracked /\ r.blocklist = c.blocklist
        /\ r.ring = {} /\ r.stack = {} /\ r.bitmap = c.bitmap \ d
        /\ r.user_stack = c.user_stack /\ r.user_bitmap = c.user_bitmap
    BY <1>1, <1>2, <1>4 DEF Memory
  <1>6. r \in Memory
    BY <1>2, <1>3, <1>4 DEF Memory
  <1>7. d = (IF mode = "DEBUG" THEN {p \in Pages : c.host[p] # current_region(c)[p]}
             ELSE c.stack) \ c.blocklist
    BY DEF d, DirtyPages
  <1>8. current_region(r) = current_region(c)
    BY <1>5 DEF current_region
  <1>9. ASSUME NEW p \in Pages \ (r.blocklist \cup lost), r.host[p] # current_region(r)[p]
        PROVE  p \in r.user_stack
    <2>1. p \notin d /\ c.host[p] # current_region(c)[p]
      BY <1>3, <1>5, <1>8, <1>9
    <2>2. mode # "DEBUG" /\ p \notin c.stack
      BY <1>5, <1>7, <2>1
    <2> QED BY <1>1, <1>5, <2>1, <2>2 DEF Tracks, DifferenceIsKnown
  <1>10. CopiesAgree(r)
    BY <1>1, <1>5 DEF Tracks, CopiesAgree
  <1>11. DifferenceIsKnown(r, mode, lost)
    BY <1>9 DEF DifferenceIsKnown
  <1>12. BitsMatchStacks(r)
    BY <1>1, <1>5, <1>7 DEF Tracks, BitsMatchStacks, OtherLogsEmpty
  <1>13. OtherLogsEmpty(r, mode)
    BY <1>5 DEF OtherLogsEmpty
  <1>14. Tracks(r, mode, lost)
    BY <1>6, <1>10, <1>11, <1>12, <1>13 DEF Tracks
  <1> QED BY <1>1, <1>5, <1>9, <1>14 DEF r

\* A restore follows the logs only, and restores every page that is not
\* persistent.
LEMMA RestoreRestores ==
    ASSUME NEW m, NEW mode \in Modes, NEW lost, Tracks(m, mode, lost)
    PROVE  /\ Tracks(fast_snapshot_restore_operation(m, mode), mode, lost)
           /\ Restored(fast_snapshot_restore_operation(m, mode), lost)
           /\ fast_snapshot_restore_operation(m, mode).incremental_enabled
                = m.incremental_enabled
           /\ fast_snapshot_restore_operation(m, mode).blocklist = m.blocklist
           /\ fast_snapshot_restore_operation(m, mode).snapshot = m.snapshot
           /\ fast_snapshot_restore_operation(m, mode).incremental = m.incremental
  <1> DEFINE c == backend_restore(m, mode)
             d == c.user_stack \ c.blocklist
             r == nyx_snapshot_user_fdl_restore(c)
  <1>1. /\ Tracks(c, mode, lost)
        /\ c.ring = {} /\ c.stack = {}
        /\ \A p \in Pages \ (c.blocklist \cup lost) :
              c.host[p] # current_region(c)[p] => p \in c.user_stack
    BY BackendRestoreTracks
  <1>2. c \in Memory /\ current_region(c) \in [Pages -> Values]
    BY <1>1 DEF Tracks, Memory, current_region
  <1>3. /\ c.incremental_enabled = m.incremental_enabled
        /\ c.blocklist = m.blocklist
        /\ c.snapshot = m.snapshot /\ c.incremental = m.incremental
    BY BackendRestoreTracks
  <1> HIDE DEF c
  <1>4. /\ Copied(c.host, d, current_region(c)) \in [Pages -> Values]
        /\ \A p \in Pages : p \in d
              => Copied(c.host, d, current_region(c))[p] = current_region(c)[p]
        /\ \A p \in Pages : p \notin d
              => Copied(c.host, d, current_region(c))[p] = c.host[p]
    BY <1>2, CopiedPages DEF Memory
  <1>5. r = [c EXCEPT !.host = Copied(c.host, d, current_region(c)),
                      !.user_bitmap = c.user_bitmap \ d, !.user_stack = {}]
    BY DEF nyx_snapshot_user_fdl_restore
  <1> HIDE DEF d, r
  <1>6. /\ r.host = Copied(c.host, d, current_region(c))
        /\ r.snapshot = c.snapshot /\ r.incremental = c.incremental
        /\ r.incremental_enabled = c.incremental_enabled
        /\ r.tracked = c.tracked /\ r.blocklist = c.blocklist
        /\ r.ring = {} /\ r.stack = {} /\ r.bitmap = c.bitmap
        /\ r.user_stack = {} /\ r.user_bitmap = c.user_bitmap \ d
    BY <1>1, <1>2, <1>5 DEF Memory
  <1>7. r \in Memory
    BY <1>2, <1>4, <1>5 DEF Memory
  <1>8. current_region(r) = current_region(c)
    BY <1>6 DEF current_region
  <1>9. Restored(r, lost)
    <2> SUFFICES ASSUME NEW p \in Pages \ (r.blocklist \cup lost)
                 PROVE  r.host[p] = current_region(r)[p]
      BY DEF Restored
    <2>1. CASE p \in d
      BY <1>4, <1>6, <1>8, <2>1
    <2>2. CASE p \notin d
      BY <1>1, <1>4, <1>6, <1>8, <2>2 DEF d
    <2> QED BY <2>1, <2>2
  <1>10. CopiesAgree(r)
    BY <1>1, <1>6 DEF Tracks, CopiesAgree
  <1>11. DifferenceIsKnown(r, mode, lost)
    BY <1>9 DEF DifferenceIsKnown, Restored
  <1>12. BitsMatchStacks(r)
    BY <1>1, <1>6 DEF Tracks, BitsMatchStacks, d
  <1>13. OtherLogsEmpty(r, mode)
    BY <1>6 DEF OtherLogsEmpty
  <1>14. fast_snapshot_restore_operation(m, mode) = r
    BY DEF fast_snapshot_restore_operation, r, c
  <1> QED BY <1>3, <1>6, <1>7, <1>9, <1>10, <1>11, <1>12, <1>13, <1>14 DEF Tracks

\* The copy a temporary snapshot is taken in, mapped anew or not, equals the
\* root snapshot.
LEMMA PrepareTracks ==
    ASSUME NEW m, NEW mode \in Modes, NEW lost, Tracks(m, mode, lost), m.incremental_enabled = FALSE
    PROVE  LET r == shadow_memory_prepare_incremental(m)
           IN  /\ Tracks(r, mode, lost)
               /\ r.incremental_enabled = FALSE
               /\ r.host = m.host /\ r.snapshot = m.snapshot /\ r.blocklist = m.blocklist
               /\ \A p \in Pages : r.incremental[p] = r.snapshot[p]
               /\ r.tracked = {}
  <1> DEFINE r == shadow_memory_prepare_incremental(m)
  <1>1. m \in Memory
    BY DEF Tracks
  <1>2. /\ r.host = m.host /\ r.snapshot = m.snapshot
        /\ r.incremental \in {m.incremental, m.snapshot}
        /\ r.incremental_enabled = FALSE
        /\ r.tracked = m.tracked /\ r.blocklist = m.blocklist
        /\ r.ring = m.ring /\ r.stack = m.stack /\ r.bitmap = m.bitmap
        /\ r.user_stack = m.user_stack /\ r.user_bitmap = m.user_bitmap
    BY <1>1 DEF Memory, shadow_memory_prepare_incremental
  <1>3. r \in Memory
    <2>1. 1 \in 0..RestoreRate /\ (m.count < RestoreRate => m.count + 1 \in 0..RestoreRate)
      BY <1>1, ShadowMemoryAssumption DEF Memory
    <2>2. m.count \in Int /\ RestoreRate \in Int
      BY <1>1, ShadowMemoryAssumption DEF Memory
    <2>3. CASE m.count >= RestoreRate
      BY <1>1, <2>1, <2>3 DEF Memory, shadow_memory_prepare_incremental
    <2>4. CASE ~ (m.count >= RestoreRate)
      <3>1. m.count + 1 \in 0..RestoreRate
        BY <2>1, <2>2, <2>4
      <3> QED BY <1>1, <2>4, <3>1 DEF Memory, shadow_memory_prepare_incremental
    <2> QED BY <2>3, <2>4
  <1> HIDE DEF r
  <1>4. \A p \in Pages : m.incremental[p] = m.snapshot[p]
    BY DEF Tracks, CopiesAgree
  <1>5. (\A p \in Pages : r.incremental[p] = r.snapshot[p]) /\ r.tracked = {}
    BY <1>2, <1>4 DEF Tracks, CopiesAgree
  <1>6. CopiesAgree(r)
    BY <1>5 DEF CopiesAgree
  <1>7. DifferenceIsKnown(r, mode, lost)
    BY <1>2 DEF Tracks, DifferenceIsKnown, current_region
  <1>8. BitsMatchStacks(r) /\ OtherLogsEmpty(r, mode)
    BY <1>2 DEF Tracks, BitsMatchStacks, OtherLogsEmpty
  <1> QED BY <1>2, <1>3, <1>5, <1>6, <1>7, <1>8 DEF Tracks, r

\* The temporary snapshot takes in every page that differs from the root
\* snapshot: right after it the memory is the snapshot.
LEMMA CreateTracks ==
    ASSUME NEW m, NEW mode \in Modes, NEW lost, Tracks(m, mode, lost), m.incremental_enabled = FALSE
    PROVE  LET r == fast_snapshot_create_incremental_operation(m, mode)
           IN  /\ Tracks(r, mode, lost)
               /\ Restored(r, lost)
               /\ r.incremental_enabled = TRUE
               /\ r.host = m.host /\ r.snapshot = m.snapshot /\ r.blocklist = m.blocklist
  <1> DEFINE a == shadow_memory_prepare_incremental(m)
             c == Collected(a, mode)
             d == DirtyPages(c, mode)
             b == backend_save_root_pages(a, mode)
             e == b.user_stack \ b.blocklist
             r == fast_snapshot_create_incremental_operation(m, mode)
  <1>1. /\ Tracks(a, mode, lost) /\ a.incremental_enabled = FALSE
        /\ a.host = m.host /\ a.snapshot = m.snapshot /\ a.blocklist = m.blocklist
        /\ \A p \in Pages : a.incremental[p] = a.snapshot[p]
        /\ a.tracked = {}
    BY PrepareTracks
  <1> HIDE DEF a
  <1>2. /\ Tracks(c, mode, lost) /\ c.ring = {} /\ c.host = a.host
        /\ c.snapshot = a.snapshot /\ c.blocklist = a.blocklist
        /\ c.incremental_enabled = FALSE /\ c.tracked = {}
        /\ \A p \in Pages : c.incremental[p] = c.snapshot[p]
    BY <1>1, CollectedTracks
  <1>3. c \in Memory /\ current_region(c) = c.snapshot
    BY <1>2 DEF Tracks, current_region
  <1>4. d \subseteq Pages
    BY <1>3 DEF DirtyPages, Memory
  <1>5. b = [c EXCEPT !.incremental = Copied(c.incremental, d, c.host),
                      !.tracked = c.tracked \cup d,
                      !.bitmap = c.bitmap \ d, !.stack = {}]
    BY <1>2 DEF backend_save_root_pages
  <1>6. d = (IF mode = "DEBUG" THEN {p \in Pages : c.host[p] # c.snapshot[p]}
             ELSE c.stack) \ c.blocklist
    BY <1>3 DEF DirtyPages
  <1> HIDE DEF c, d, b
  <1>7. /\ Copied(c.incremental, d, c.host) \in [Pages -> Values]
        /\ \A p \in Pages : p \in d => Copied(c.incremental, d, c.host)[p] = c.host[p]
        /\ \A p \in Pages : p \notin d
              => Copied(c.incremental, d, c.host)[p] = c.incremental[p]
    BY <1>3, CopiedPages DEF Memory
  <1>8. /\ b.host = c.host /\ b.snapshot = c.snapshot
        /\ b.incremental = Copied(c.incremental, d, c.host)
        /\ b.tracked = d /\ b.blocklist = c.blocklist
        /\ b.ring = {} /\ b.stack = {} /\ b.bitmap = c.bitmap \ d
        /\ b.user_stack = c.user_stack /\ b.user_bitmap = c.user_bitmap
    BY <1>2, <1>3, <1>5 DEF Memory
  <1>9. b \in Memory
    BY <1>3, <1>4, <1>5, <1>7 DEF Memory
  <1>10. ASSUME NEW p \in Pages \ (b.blocklist \cup lost), b.host[p] # b.incremental[p]
         PROVE  p \in b.user_stack
    <2>1. p \notin d /\ c.host[p] # c.snapshot[p]
      BY <1>2, <1>7, <1>8, <1>10
    <2>2. mode # "DEBUG" /\ p \notin c.stack
      BY <1>6, <1>8, <2>1
    <2> QED BY <1>2, <1>3, <1>8, <2>1, <2>2 DEF Tracks, DifferenceIsKnown
  <1>11. r = [[b EXCEPT !.incremental = Copied(b.incremental, e, b.host),
                        !.tracked = b.tracked \cup e,
                        !.user_bitmap = b.user_bitmap \ e, !.user_stack = {}]
              EXCEPT !.incremental_enabled = TRUE]
    BY DEF fast_snapshot_create_incremental_operation, nyx_fdl_user_save_root_pages, a, b
  <1>12. e \subseteq Pages
    BY <1>9 DEF Memory
  <1>13. /\ Copied(b.incremental, e, b.host) \in [Pages -> Values]
         /\ \A p \in Pages : p \in e => Copied(b.incremental, e, b.host)[p] = b.host[p]
         /\ \A p \in Pages : p \notin e
              => Copied(b.incremental, e, b.host)[p] = b.incremental[p]
    BY <1>9, CopiedPages DEF Memory
  <1> HIDE DEF e, r
  <1>14. /\ r.host = b.host /\ r.snapshot = b.snapshot
         /\ r.incremental = Copied(b.incremental, e, b.host)
         /\ r.incremental_enabled = TRUE
         /\ r.tracked = b.tracked \cup e /\ r.blocklist = b.blocklist
         /\ r.ring = {} /\ r.stack = {} /\ r.bitmap = b.bitmap
         /\ r.user_stack = {} /\ r.user_bitmap = b.user_bitmap \ e
    BY <1>8, <1>9, <1>11 DEF Memory
  <1>15. r \in Memory
    BY <1>9, <1>11, <1>12, <1>13 DEF Memory
  <1>16. current_region(r) = r.incremental
    BY <1>14 DEF current_region
  <1>17. Restored(r, lost)
    <2> SUFFICES ASSUME NEW p \in Pages \ (r.blocklist \cup lost)
                 PROVE  r.host[p] = r.incremental[p]
      BY <1>16 DEF Restored
    <2>1. CASE p \in e
      BY <1>13, <1>14, <2>1
    <2>2. CASE p \notin e
      BY <1>10, <1>13, <1>14, <2>2 DEF e
    <2> QED BY <2>1, <2>2
  <1>18. CopiesAgree(r)
    <2> SUFFICES ASSUME NEW p \in Pages, r.incremental[p] # r.snapshot[p]
                 PROVE  p \in r.tracked
      BY <1>14 DEF CopiesAgree
    <2>1. CASE p \in e
      BY <1>14, <2>1
    <2>2. CASE p \notin e
      BY <1>2, <1>7, <1>8, <1>13, <1>14, <2>2
    <2> QED BY <2>1, <2>2
  <1>19. DifferenceIsKnown(r, mode, lost)
    BY <1>17 DEF DifferenceIsKnown, Restored
  <1>20. BitsMatchStacks(r)
    <2>1. b.bitmap \subseteq b.blocklist
      BY <1>2, <1>6, <1>8 DEF Tracks, BitsMatchStacks, OtherLogsEmpty
    <2>2. b.user_bitmap \ b.user_stack \subseteq b.blocklist \cup HeapBits
      BY <1>2, <1>8 DEF Tracks, BitsMatchStacks
    <2> QED BY <1>14, <2>1, <2>2 DEF BitsMatchStacks, e
  <1>21. OtherLogsEmpty(r, mode)
    BY <1>14 DEF OtherLogsEmpty
  <1>22. r.host = m.host /\ r.snapshot = m.snapshot /\ r.blocklist = m.blocklist
    BY <1>1, <1>2, <1>8, <1>14
  <1> QED BY <1>22, <1>14, <1>15, <1>17, <1>18, <1>19, <1>20, <1>21 DEF Tracks, r

\* Discarding the temporary snapshot brings the memory back to the root
\* snapshot, and makes the second copy equal to it again.
LEMMA DiscardTracks ==
    ASSUME NEW m, NEW mode \in Modes, NEW lost, Tracks(m, mode, lost)
    PROVE  LET r == discard_incremental(m, mode)
           IN  /\ Tracks(r, mode, lost)
               /\ Restored(r, lost)
               /\ r.incremental_enabled = FALSE
               /\ r.snapshot = m.snapshot /\ r.blocklist = m.blocklist
  <1> DEFINE c == fast_snapshot_restore_operation(m, mode)
             r == discard_incremental(m, mode)
  <1>1. /\ Tracks(c, mode, lost) /\ Restored(c, lost)
        /\ c.snapshot = m.snapshot /\ c.blocklist = m.blocklist
    BY RestoreRestores
  <1>2. c \in Memory
    BY <1>1 DEF Tracks
  <1>3. r = [[c EXCEPT !.host = Copied(c.host, c.tracked, c.snapshot),
                       !.incremental = Copied(c.incremental, c.tracked, c.snapshot),
                       !.tracked = {}]
             EXCEPT !.incremental_enabled = FALSE]
    BY DEF discard_incremental, shadow_memory_restore_memory
  <1> HIDE DEF c, r
  <1>4. /\ Copied(c.host, c.tracked, c.snapshot) \in [Pages -> Values]
        /\ \A p \in Pages : p \in c.tracked
              => Copied(c.host, c.tracked, c.snapshot)[p] = c.snapshot[p]
        /\ \A p \in Pages : p \notin c.tracked
              => Copied(c.host, c.tracked, c.snapshot)[p] = c.host[p]
    BY <1>2, CopiedPages DEF Memory
  <1>5. /\ Copied(c.incremental, c.tracked, c.snapshot) \in [Pages -> Values]
        /\ \A p \in Pages : p \in c.tracked
              => Copied(c.incremental, c.tracked, c.snapshot)[p] = c.snapshot[p]
        /\ \A p \in Pages : p \notin c.tracked
              => Copied(c.incremental, c.tracked, c.snapshot)[p] = c.incremental[p]
    BY <1>2, CopiedPages DEF Memory
  <1>6. /\ r.host = Copied(c.host, c.tracked, c.snapshot)
        /\ r.snapshot = c.snapshot
        /\ r.incremental = Copied(c.incremental, c.tracked, c.snapshot)
        /\ r.incremental_enabled = FALSE
        /\ r.tracked = {} /\ r.blocklist = c.blocklist
        /\ r.ring = c.ring /\ r.stack = c.stack /\ r.bitmap = c.bitmap
        /\ r.user_stack = c.user_stack /\ r.user_bitmap = c.user_bitmap
    BY <1>2, <1>3 DEF Memory
  <1>7. r \in Memory
    BY <1>2, <1>3, <1>4, <1>5 DEF Memory
  <1>8. \A p \in Pages : r.incremental[p] = r.snapshot[p]
    BY <1>1, <1>5, <1>6 DEF Tracks, CopiesAgree
  <1>9. Restored(r, lost)
    <2> SUFFICES ASSUME NEW p \in Pages \ (r.blocklist \cup lost)
                 PROVE  r.host[p] = r.snapshot[p]
      BY <1>6 DEF Restored, current_region
    <2>1. CASE p \in c.tracked
      BY <1>4, <1>6, <2>1
    <2>2. CASE p \notin c.tracked
      <3>1. c.host[p] = current_region(c)[p]
        BY <1>1, <1>6 DEF Restored
      <3>2. current_region(c)[p] = c.snapshot[p]
        BY <1>1, <2>2 DEF Tracks, CopiesAgree, current_region
      <3> QED BY <1>4, <1>6, <2>2, <3>1, <3>2
    <2> QED BY <2>1, <2>2
  <1>10. CopiesAgree(r)
    BY <1>6, <1>8 DEF CopiesAgree
  <1>11. DifferenceIsKnown(r, mode, lost)
    BY <1>9 DEF DifferenceIsKnown, Restored
  <1>12. BitsMatchStacks(r) /\ OtherLogsEmpty(r, mode)
    BY <1>1, <1>6 DEF Tracks, BitsMatchStacks, OtherLogsEmpty
  <1> QED BY <1>1, <1>6, <1>7, <1>9, <1>10, <1>11, <1>12 DEF Tracks, r

\* The root snapshot starts with empty logs, and the user-space bitmap with
\* whatever malloc returned.
LEMMA InitTracks ==
    ASSUME NEW m \in Memory, NEW mode \in Modes, NEW lost, NEW garbage \in SUBSET HeapBits
    PROVE  Tracks(shadow_memory_init(m, garbage), mode, lost)
  <1> DEFINE r == shadow_memory_init(m, garbage)
  <1>1. /\ r.host = m.host /\ r.snapshot = m.host /\ r.incremental = m.host
        /\ r.incremental_enabled = FALSE
        /\ r.tracked = {} /\ r.ring = {} /\ r.stack = {} /\ r.bitmap = {}
        /\ r.user_stack = {} /\ r.user_bitmap = garbage
    BY DEF Memory, shadow_memory_init
  <1>2. r \in Memory
    BY ShadowMemoryAssumption DEF Memory, shadow_memory_init
  <1> HIDE DEF r
  <1>3. CopiesAgree(r) /\ DifferenceIsKnown(r, mode, lost)
    BY <1>1 DEF CopiesAgree, DifferenceIsKnown, current_region
  <1>4. BitsMatchStacks(r) /\ OtherLogsEmpty(r, mode)
    BY <1>1 DEF BitsMatchStacks, OtherLogsEmpty
  <1> QED BY <1>2, <1>3, <1>4 DEF Tracks, r

----------------------------------------------------------------------------
(***************************************************************************)
(* What holds whatever the logs contain: types, and the block list, whose  *)
(* pages no operation touches.                                             *)
(***************************************************************************)

\* m2 is m1 for all that concerns pages on the block list.
LeavesBlocked(m1, m2) ==
    m2.blocklist = m1.blocklist /\ \A p \in m1.blocklist : m2.host[p] = m1.host[p]

\* A guest write is in memory and in a log.
LEMMA KvmWriteTyped ==
    ASSUME NEW m \in Memory, NEW mode, NEW rooted, NEW p \in Pages, NEW v \in Values
    PROVE  LET r == kvm_write(m, mode, rooted, p, v)
           IN  r \in Memory /\ r.blocklist = m.blocklist /\ r.tracked = m.tracked
  BY DEF kvm_write, Memory

\* A device write is in memory and in the user log.
LEMMA DeviceWriteTyped ==
    ASSUME NEW m \in Memory, NEW rooted, NEW w, NEW v \in Values
    PROVE  LET r == device_write(m, rooted, w, v)
           IN  r \in Memory /\ r.blocklist = m.blocklist /\ r.tracked = m.tracked
  <1>1. Copied(m.host, WrittenPages(w), [p \in Pages |-> v]) \in [Pages -> Values]
    BY DEF Memory, Copied
  <1>2. MarkedPages(w) \subseteq Pages
    BY DEF MarkedPages
  <1> QED BY <1>1, <1>2 DEF device_write, nyx_fdl_user_set, Memory

\* Emptying the ring changes logs only.
LEMMA CollectedTyped ==
    ASSUME NEW m \in Memory, NEW mode
    PROVE  LET c == Collected(m, mode)
           IN  /\ c \in Memory
               /\ c.host = m.host /\ c.snapshot = m.snapshot /\ c.incremental = m.incremental
               /\ c.incremental_enabled = m.incremental_enabled
               /\ c.tracked = m.tracked /\ c.blocklist = m.blocklist
  BY DEF Collected, dirty_ring_flush_and_collect, Memory

\* No page on the block list is dirty for a backend.
LEMMA DirtyPagesTyped ==
    ASSUME NEW m \in Memory, NEW mode
    PROVE  DirtyPages(m, mode) \subseteq Pages \ m.blocklist
  BY DEF DirtyPages, Memory

\* A restore writes to pages outside the block list.
LEMMA RestoreTyped ==
    ASSUME NEW m \in Memory, NEW mode
    PROVE  LET r == fast_snapshot_restore_operation(m, mode)
           IN  r \in Memory /\ r.tracked = m.tracked /\ LeavesBlocked(m, r)
  <1> DEFINE c == Collected(m, mode)
             d == DirtyPages(c, mode)
             h == Copied(c.host, d, current_region(m))
             b == backend_restore(m, mode)
             u == b.user_stack \ b.blocklist
             g == Copied(b.host, u, current_region(b))
             r == fast_snapshot_restore_operation(m, mode)
  <1>1. /\ c \in Memory /\ c.host = m.host /\ c.blocklist = m.blocklist
        /\ c.tracked = m.tracked
    BY CollectedTyped
  <1>2. d \subseteq Pages /\ d \cap m.blocklist = {}
    BY <1>1, DirtyPagesTyped
  <1>3. current_region(m) \in [Pages -> Values]
    BY DEF current_region, Memory
  <1>4. c.host \in [Pages -> Values]
    BY <1>1 DEF Memory
  <1>5. h \in [Pages -> Values] /\ \A p \in Pages : p \notin d => h[p] = c.host[p]
    BY <1>3, <1>4, CopiedPages
  <1>6. b = [c EXCEPT !.host = h, !.bitmap = @ \ d, !.stack = {}]
    BY DEF backend_restore
  <1> HIDE DEF c, d, h, b
  <1>7. b \in Memory /\ b.blocklist = m.blocklist /\ b.tracked = m.tracked /\ b.host = h
    BY <1>1, <1>5, <1>6 DEF Memory
  <1>8. current_region(b) \in [Pages -> Values] /\ b.host \in [Pages -> Values]
    BY <1>7 DEF current_region, Memory
  <1>9. g \in [Pages -> Values] /\ \A p \in Pages : p \notin u => g[p] = b.host[p]
    BY <1>8, CopiedPages
  <1>10. r = [b EXCEPT !.host = g, !.user_bitmap = @ \ u, !.user_stack = {}]
    BY DEF fast_snapshot_restore_operation, nyx_snapshot_user_fdl_restore, b
  <1>11. u \cap m.blocklist = {}
    BY <1>7
  <1> HIDE DEF u, g, r
  <1>12. r \in Memory /\ r.blocklist = m.blocklist /\ r.tracked = m.tracked /\ r.host = g
    BY <1>7, <1>9, <1>10 DEF Memory
  <1>13. m.blocklist \subseteq Pages
    BY DEF Memory
  <1>14. ASSUME NEW p \in m.blocklist PROVE r.host[p] = m.host[p]
    BY <1>1, <1>2, <1>5, <1>7, <1>9, <1>11, <1>12, <1>13
  <1> QED BY <1>12, <1>14 DEF LeavesBlocked, r

\* Taking a snapshot leaves the memory as it is, and tracks no page of the
\* block list.
LEMMA CreateTyped ==
    ASSUME NEW m \in Memory, NEW mode
    PROVE  LET r == fast_snapshot_create_incremental_operation(m, mode)
           IN  /\ r \in Memory /\ LeavesBlocked(m, r)
               /\ m.tracked \cap m.blocklist = {} => r.tracked \cap r.blocklist = {}
  <1> DEFINE a == shadow_memory_prepare_incremental(m)
             c == Collected(a, mode)
             d == DirtyPages(c, mode)
             i == Copied(c.incremental, d, a.host)
             b == backend_save_root_pages(a, mode)
             u == b.user_stack \ b.blocklist
             j == Copied(b.incremental, u, b.host)
             n == nyx_fdl_user_save_root_pages(b)
             r == fast_snapshot_create_incremental_operation(m, mode)
  <1>1. a \in Memory /\ a.host = m.host /\ a.blocklist = m.blocklist /\ a.tracked = m.tracked
    <2>1. m.count \in 0 .. RestoreRate /\ m.snapshot \in [Pages -> Values]
      BY DEF Memory
    <2>2. 1 \in 0 .. RestoreRate /\ (m.count < RestoreRate => m.count + 1 \in 0 .. RestoreRate)
      BY <2>1, ShadowMemoryAssumption
    <2>3. CASE m.count >= RestoreRate
      BY <2>1, <2>2, <2>3 DEF shadow_memory_prepare_incremental, Memory
    <2>4. CASE ~ (m.count >= RestoreRate)
      <3>1. m.count < RestoreRate
        BY <2>1, <2>4, ShadowMemoryAssumption
      <3>2. a = [m EXCEPT !.count = m.count + 1]
        BY <2>4 DEF shadow_memory_prepare_incremental
      <3> DEFINE k == m.count + 1
      <3>3. k \in 0 .. RestoreRate
        BY <2>2, <3>1
      <3> HIDE DEF k
      <3> QED BY <3>2, <3>3 DEF Memory, k
    <2> QED BY <2>3, <2>4
  <1> HIDE DEF a
  <1>2. /\ c \in Memory /\ c.host = m.host /\ c.blocklist = m.blocklist
        /\ c.tracked = m.tracked
    BY <1>1, CollectedTyped
  <1>3. d \subseteq Pages /\ d \cap m.blocklist = {}
    BY <1>2, DirtyPagesTyped
  <1>4. c.incremental \in [Pages -> Values] /\ a.host \in [Pages -> Values]
    BY <1>1, <1>2 DEF Memory
  <1>5. i \in [Pages -> Values]
    BY <1>4, CopiedPages
  <1>6. b = [c EXCEPT !.incremental = i, !.tracked = @ \cup d, !.bitmap = @ \ d, !.stack = {}]
    BY DEF backend_save_root_pages
  <1> HIDE DEF c, d, i, b
  <1>7. /\ b \in Memory /\ b.blocklist = m.blocklist /\ b.tracked = m.tracked \cup d
        /\ b.host = m.host
    BY <1>2, <1>3, <1>5, <1>6 DEF Memory
  <1>8. b.incremental \in [Pages -> Values] /\ b.host \in [Pages -> Values] /\ u \subseteq Pages
    BY <1>7 DEF Memory
  <1>9. j \in [Pages -> Values]
    BY <1>8, CopiedPages
  <1>10. n = [b EXCEPT !.incremental = j, !.tracked = @ \cup u, !.user_bitmap = @ \ u,
                       !.user_stack = {}]
    BY DEF nyx_fdl_user_save_root_pages
  <1>11. r = [n EXCEPT !.incremental_enabled = TRUE]
    BY DEF fast_snapshot_create_incremental_operation, n, b, a
  <1>12. u \cap m.blocklist = {}
    BY <1>7
  <1> HIDE DEF u, j, n, r
  <1>13. /\ n \in Memory /\ n.blocklist = m.blocklist /\ n.host = m.host
         /\ n.tracked = m.tracked \cup d \cup u
    BY <1>7, <1>8, <1>9, <1>10 DEF Memory
  <1>14. /\ r \in Memory /\ r.blocklist = m.blocklist /\ r.host = m.host
         /\ r.tracked = m.tracked \cup d \cup u
    BY <1>11, <1>13 DEF Memory
  <1> QED BY <1>3, <1>12, <1>14 DEF LeavesBlocked, r

\* Discarding one restores the tracked pages, none of which is on the list.
LEMMA DiscardTyped ==
    ASSUME NEW m \in Memory, NEW mode
    PROVE  LET r == discard_incremental(m, mode)
           IN  /\ r \in Memory /\ r.tracked = {}
               /\ m.tracked \cap m.blocklist = {} => LeavesBlocked(m, r)
  <1> DEFINE c == fast_snapshot_restore_operation(m, mode)
             h == Copied(c.host, c.tracked, c.snapshot)
             i == Copied(c.incremental, c.tracked, c.snapshot)
             r == discard_incremental(m, mode)
  <1>1. c \in Memory /\ c.tracked = m.tracked /\ LeavesBlocked(m, c)
    BY RestoreTyped
  <1>2. r = [[c EXCEPT !.host = h, !.incremental = i, !.tracked = {}]
             EXCEPT !.incremental_enabled = FALSE]
    BY DEF discard_incremental, shadow_memory_restore_memory
  <1> HIDE DEF c
  <1>3. c.host \in [Pages -> Values] /\ c.snapshot \in [Pages -> Values]
        /\ c.incremental \in [Pages -> Values]
    BY <1>1 DEF Memory
  <1>4. h \in [Pages -> Values] /\ i \in [Pages -> Values]
        /\ \A p \in Pages : p \notin c.tracked => h[p] = c.host[p]
    BY <1>3, CopiedPages
  <1> HIDE DEF h, i, r
  <1>5. r \in Memory /\ r.tracked = {} /\ r.host = h /\ r.blocklist = c.blocklist
    BY <1>1, <1>2, <1>4 DEF Memory
  <1>6. m.blocklist \subseteq Pages
    BY DEF Memory
  <1>7. ASSUME m.tracked \cap m.blocklist = {} PROVE LeavesBlocked(m, r)
    BY <1>1, <1>4, <1>5, <1>6, <1>7 DEF LeavesBlocked
  <1> QED BY <1>5, <1>7 DEF r

=============================================================================
