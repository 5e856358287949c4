---------------------------- MODULE ShadowMemory ----------------------------
(***************************************************************************)
(* The guest's memory and its two snapshots.  A snapshot is restored by    *)
(* copying back the pages that are known to be dirty, and nothing else:    *)
(*   - pages the guest writes come from KVM, through its dirty ring or     *)
(*     through the stack of the Nyx kernel (FDL);                          *)
(*   - pages QEMU's devices write are recorded by the user-space FDL;      *)
(*   - the debug backend compares all of memory instead.                   *)
(* The temporary snapshot is a second copy of memory, equal to the root    *)
(* snapshot outside the tracked pages.  Pages on the block list (the       *)
(* payload and coverage buffers) are in no snapshot.                       *)
(*                                                                         *)
(* Operators take and return the memory as a record.  Stacks and bitmaps   *)
(* are sets of pages; regions and KVM slots are one address range.         *)
(***************************************************************************)
EXTENDS Integers, FiniteSets

CONSTANTS
    Pages,         \* page numbers
    Values,        \* contents of a page
    PageUnits,     \* units of memory in a page (TARGET_PAGE_SIZE bytes)
    RestoreRate,   \* RESTORE_RATE: creations before the second copy is mapped anew
    HeapBits       \* pages whose bit malloc may return set in the user bitmap

ASSUME ShadowMemoryAssumption ==
    /\ Pages \subseteq Nat
    /\ PageUnits \in Nat \ {0}
    /\ RestoreRate \in Nat \ {0}
    /\ HeapBits \subseteq Pages

Modes == {"DIRTY_RING", "FDL", "DEBUG"}

Memory == [host : [Pages -> Values], snapshot : [Pages -> Values],
           incremental : [Pages -> Values], incremental_enabled : BOOLEAN,
           tracked : SUBSET Pages, blocklist : SUBSET Pages, count : 0..RestoreRate,
           ring : SUBSET Pages, bitmap : SUBSET Pages, stack : SUBSET Pages,
           user_bitmap : SUBSET Pages, user_stack : SUBSET Pages]

\* f with the pages of S taken from g.
Copied(f, S, g) == [p \in Pages |-> IF p \in S THEN g[p] ELSE f[p]]

----------------------------------------------------------------------------
(***************************************************************************)
(* Dirty pages.                                                            *)
(***************************************************************************)

\* KVM: a guest write to page p.  The ring exists from the start, the FDL from
\* the root snapshot on.
kvm_write(m, mode, rooted, p, v) ==
    LET h == [m EXCEPT !.host[p] = v]
    IN  IF mode = "DIRTY_RING" THEN [h EXCEPT !.ring = @ \cup {p}]
        ELSE IF mode = "FDL" /\ rooted THEN [h EXCEPT !.stack = @ \cup ({p} \ m.bitmap),
                                                     !.bitmap = @ \cup {p}]
        ELSE h

\* Mutant: the entries of a full ring are dropped.
CollectDropped(m) == [m EXCEPT !.ring = {}]

dirty_ring_flush_and_collect(m) ==
    [m EXCEPT !.stack = @ \cup (m.ring \ m.bitmap),
              !.bitmap = @ \cup m.ring,
              !.ring = {}]

dirty_ring_flush(m) == [m EXCEPT !.ring = {}]

\* A device writes w.len units from w.addr on.
WrittenPages(w) ==
    {p \in Pages : w.addr \div PageUnits <= p /\ p <= (w.addr + w.len - 1) \div PageUnits}

\* nyx_fdl_user_set gets the address of the page and the length of the write:
\* a page for every started page of the length.
MarkedPages(w) ==
    LET first == w.addr \div PageUnits
    IN  {p \in Pages : first <= p /\ (p = first \/ (p - first) * PageUnits < w.len)}

nyx_fdl_user_set(m, w) ==
    [m EXCEPT !.user_stack = @ \cup (MarkedPages(w) \ m.user_bitmap),
              !.user_bitmap = @ \cup MarkedPages(w)]

\* address_space_write, with invalidate_and_set_dirty; there is no user FDL
\* before the root snapshot.
device_write(m, rooted, w, v) ==
    LET h == [m EXCEPT !.host = Copied(@, WrittenPages(w), [p \in Pages |-> v])]
    IN  IF rooted THEN nyx_fdl_user_set(h, w) ELSE h

----------------------------------------------------------------------------
(***************************************************************************)
(* Snapshots.                                                              *)
(***************************************************************************)

\* shadow_memory_init and the init operation of the dirty page backend.
shadow_memory_init(m, garbage) ==
    [m EXCEPT !.snapshot = m.host, !.incremental = m.host, !.incremental_enabled = FALSE,
              !.tracked = {}, !.ring = {}, !.bitmap = {}, !.stack = {},
              !.user_bitmap = garbage, !.user_stack = {}]

current_region(m) == IF m.incremental_enabled THEN m.incremental ELSE m.snapshot

\* The backend's dirty pages, and the memory once the ring is empty.
Collected(m, mode) == IF mode = "DIRTY_RING" THEN dirty_ring_flush_and_collect(m) ELSE m

DirtyPages(m, mode) ==
    (IF mode = "DEBUG" THEN {p \in Pages : m.host[p] # current_region(m)[p]} ELSE m.stack)
        \ m.blocklist

\* Mutant: the stack is emptied and the bits of its pages stay set.
RestoreKeepsBits(m, mode) ==
    LET c == Collected(m, mode)
    IN  [c EXCEPT !.host = Copied(@, DirtyPages(c, mode), current_region(m)), !.stack = {}]

\* Mutant: pages on the block list are restored too.
RestoreBlocked(m, mode) ==
    LET c == Collected(m, mode)
    IN  [c EXCEPT !.host = Copied(@, c.stack, current_region(m)),
                  !.bitmap = @ \ c.stack, !.stack = {}]

\* nyx_snapshot_nyx_dirty_ring_restore, nyx_fdl_restore, debug_restore.
backend_restore(m, mode) ==
    LET c == Collected(m, mode)
        dirty == DirtyPages(c, mode)
    IN  [c EXCEPT !.host = Copied(@, dirty, current_region(m)),
                  !.bitmap = @ \ dirty, !.stack = {}]

nyx_snapshot_user_fdl_restore(m) ==
    LET dirty == m.user_stack \ m.blocklist
    IN  [m EXCEPT !.host = Copied(@, dirty, current_region(m)),
                  !.user_bitmap = @ \ dirty, !.user_stack = {}]

fast_snapshot_restore_operation(m, mode) ==
    nyx_snapshot_user_fdl_restore(backend_restore(m, mode))

\* nyx_snapshot_nyx_dirty_ring_save_root_pages, nyx_fdl_..., debug_...
backend_save_root_pages(m, mode) ==
    LET c == Collected(m, mode)
        dirty == DirtyPages(c, mode)
    IN  [c EXCEPT !.incremental = Copied(@, dirty, m.host), !.tracked = @ \cup dirty,
                  !.bitmap = @ \ dirty, !.stack = {}]

nyx_fdl_user_save_root_pages(m) ==
    LET dirty == m.user_stack \ m.blocklist
    IN  [m EXCEPT !.incremental = Copied(@, dirty, m.host), !.tracked = @ \cup dirty,
                  !.user_bitmap = @ \ dirty, !.user_stack = {}]

\* Mutant: one creation too many before the copy is mapped anew.
PrepareLate(m) ==
    IF m.count > RestoreRate
    THEN [m EXCEPT !.count = 1, !.incremental = m.snapshot]
    ELSE [m EXCEPT !.count = @ + 1]

shadow_memory_prepare_incremental(m) ==
    IF m.count >= RestoreRate
    THEN [m EXCEPT !.count = 1, !.incremental = m.snapshot]
    ELSE [m EXCEPT !.count = @ + 1]

fast_snapshot_create_incremental_operation(m, mode) ==
    [nyx_fdl_user_save_root_pages(
         backend_save_root_pages(shadow_memory_prepare_incremental(m), mode))
     EXCEPT !.incremental_enabled = TRUE]

shadow_memory_restore_memory(m) ==
    [m EXCEPT !.host = Copied(@, m.tracked, m.snapshot),
              !.incremental = Copied(@, m.tracked, m.snapshot),
              !.tracked = {}]

\* The memory's part of fast_reload_discard_tmp_snapshot.
discard_incremental(m, mode) ==
    [shadow_memory_restore_memory(fast_snapshot_restore_operation(m, mode))
     EXCEPT !.incremental_enabled = FALSE]

----------------------------------------------------------------------------
(***************************************************************************)
(* What restoring dirty pages only rests on.                               *)
(***************************************************************************)

\* Pages that the writes of dma may change without an entry in the user FDL:
\* nyx_fdl_user_set does not mark them, or finds their bit set already.
Missed(dma) == UNION {WrittenPages(w) \ (MarkedPages(w) \ HeapBits) : w \in dma}

\* The second copy differs from the root snapshot in tracked pages only, and
\* in none while there is no temporary snapshot.
CopiesAgree(m) ==
    /\ \A p \in Pages : m.incremental[p] # m.snapshot[p] => p \in m.tracked
    /\ ~ m.incremental_enabled => m.tracked = {}

\* A page that differs from the current snapshot is on one of the lists a
\* restore goes through, except for the pages of lost.
DifferenceIsKnown(m, mode, lost) ==
    \A p \in Pages \ (m.blocklist \cup lost) :
        m.host[p] # current_region(m)[p] =>
            mode = "DEBUG" \/ p \in m.ring \cup m.stack \cup m.user_stack

\* A page whose bit is set and that is on no stack would never be recorded
\* again: only pages on the block list, and those whose bit malloc may have
\* returned set, may be in that state.
BitsMatchStacks(m) ==
    /\ m.stack \subseteq m.bitmap
    /\ m.user_stack \subseteq m.user_bitmap
    /\ m.bitmap \ m.stack \subseteq m.blocklist
    /\ m.user_bitmap \ m.user_stack \subseteq m.blocklist \cup HeapBits

\* A log that is not the backend's stays empty.
OtherLogsEmpty(m, mode) ==
    /\ mode = "DEBUG" => m.stack = {}
    /\ mode # "DIRTY_RING" => m.ring = {}

\* Restoring leaves nothing to restore, except for the pages of lost.
Restored(m, lost) ==
    \A p \in Pages \ (m.blocklist \cup lost) : m.host[p] = current_region(m)[p]

=============================================================================
