------------------------ MODULE CorpusQueueCoverage ------------------------
(***************************************************************************)
(* No coverage is lost: theorems about CorpusQueue for a target whose      *)
(* executions are deterministic, and about the favourites of one thread.   *)
(***************************************************************************)
EXTENDS CorpusQueueProofs, FiniteSetTheorems, WellFoundedInduction

\* The same input always has the same results.
Deterministic == \A data \in Inputs : \A a, b \in Outcomes(data) : a = b

----------------------------------------------------------------------------
(***************************************************************************)
(* What is recorded, and what was claimed.                                 *)
(***************************************************************************)

\* What is recorded of an entry is its only outcome.
LEMMA EntryOutcome ==
    ASSUME Deterministic, NEW e, EntryOK(e)
    PROVE  /\ e.data \in Inputs
           /\ \E out \in Outcomes(e.data) : /\ e.bits = out.bits /\ e.max = out.max
                                            /\ e.exit = out.exit
                                            /\ e.used \in {out.used, out.used + 1}
<1>1. e.data \in Inputs
  BY DEF EntryOK, Entry
<1> QED  BY <1>1 DEF Deterministic, EntryOK, Recorded

\* For a deterministic target a stored input does what was recorded for it,
\* whichever thread stored it and whether it was minimized or not; the nodes
\* recorded as used are those it uses and at most one more.
THEOREM ReplayCorrect ==
    ASSUME Deterministic
    PROVE  Spec => []EntryReplays
<1>1. Inv => EntryReplays
  BY EntryOutcome DEF Inv, QueueOK, EntryReplays
<1> QED  BY <1>1, InvCorrect, PTL

\* Coverage claimed for a normal run is in the queue, or the thread that
\* claimed it by a normal run is about to store it.
KeptInv ==
    \A i \in global["normal"].bits :
        \/ \E j \in DOMAIN inputs : i \in inputs[j].bits
        \/ \E t \in Threads : /\ At(t, "add") /\ i \in thread[t].run.out.bits
                              /\ thread[t].run.out.exit = "normal"
        \/ \E out \in Outcomes(<<>>) : i \in out.bits

\* A step by a thread that is not at "add", with the same claims.
LEMMA KeptByOthers ==
    ASSUME Inv, KeptInv, NEW t \in Threads, NEW n, Become(t, n), thread[t].pc # "add",
           global' = global,
           \A j \in DOMAIN inputs : j \in DOMAIN inputs' /\ inputs'[j].bits = inputs[j].bits
    PROVE  KeptInv'
<1>1. \A u \in Threads : thread'[u] = IF u = t THEN n ELSE thread[u]
  BY DEF Become, Inv, ThreadsOK
<1> QED  BY <1>1 DEF KeptInv, At

\* The bits of an added entry are in the queue.
LEMMA KeptAdd ==
    ASSUME Inv, NEW STATE e, EntryOK(e), Storable(e), add(e)
    PROVE  /\ \A j \in DOMAIN inputs : j \in DOMAIN inputs' /\ inputs'[j] = inputs[j]
           /\ \E j \in DOMAIN inputs' : inputs'[j] = e
BY AddStep

\* A deterministic run is confirmed: all its reasons are kept.
LEMMA AllConfirmed ==
    ASSUME Deterministic, Inv, NEW t \in Threads, thread[t].pc = "add",
           NEW seen \in SUBSET Outcomes(thread[t].run.data)
    PROVE  Confirmed(thread[t], seen) = thread[t].why /\ thread[t].why # {}
<1>1. /\ RunOK(thread[t].run) /\ thread[t].why # {}
      /\ \A r \in thread[t].why : still_valid(r, thread[t].run.out)
  BY DEF Inv, ThreadsOK, ThreadOK, PlaceOK
<1> DEFINE run == thread[t].run
<1>2. run.data \in Inputs /\ run.out \in Behind(run.data)
  BY <1>1 DEF RunOK, Run
<1>3. PICK o \in Outcomes(run.data) : run.out.bits = o.bits /\ run.out.max = o.max
  BY <1>2, CountedType
<1>4. \A out \in seen : out = o
  BY <1>2, <1>3 DEF Deterministic
<1>5. \A r : still_valid(r, run.out) <=> still_valid(r, o)
  BY <1>3 DEF still_valid
<1> QED  BY <1>1, <1>4, <1>5 DEF Confirmed

\* Claimed coverage stays accounted for.
LEMMA KeptStep ==
    ASSUME Deterministic, Inv, KeptInv, [Next]_vars
    PROVE  KeptInv'
<1>1. CASE UNCHANGED vars
  BY <1>1 DEF vars, queue, KeptInv, At
<1>2. ASSUME NEW t \in Threads, CheckNewBytes(t)
      PROVE  KeptInv'
  <2> DEFINE out == thread[t].run.out
  <2>1. out \in Results /\ global' = Checked(global, out) /\ global \in Bitmaps
    BY <1>2, CheckStep DEF Inv, BitmapsOK
  <2>2. PICK n : /\ Become(t, n)
                 /\ n.pc = "add" => n.run = thread[t].run
                 /\ n.pc # "add" => check_new_bytes(global, out) = {}
    BY <1>2, CheckStep
  <2>3. \A u \in Threads : thread'[u] = IF u = t THEN n ELSE thread[u]
    BY <2>2 DEF Become, Inv, ThreadsOK
  <2>4. global'["normal"].bits = IF out.exit = "normal" THEN global["normal"].bits \cup out.bits
                                 ELSE global["normal"].bits
    BY <2>1, CheckedBitmaps DEF Kinds
  <2>5. thread[t].pc = "check" /\ inputs' = inputs
    BY <1>2 DEF CheckNewBytes, At
  <2>6. ASSUME NEW i \in global["normal"].bits
        PROVE  \/ \E j \in DOMAIN inputs' : i \in inputs'[j].bits
               \/ \E u \in Threads : /\ thread'[u].pc = "add" /\ i \in thread'[u].run.out.bits
                                     /\ thread'[u].run.out.exit = "normal"
               \/ \E o \in Outcomes(<<>>) : i \in o.bits
    BY <2>3, <2>5 DEF KeptInv, At
  <2>7. ASSUME NEW i \in out.bits, i \notin global["normal"].bits, out.exit = "normal"
        PROVE  thread'[t].pc = "add" /\ thread'[t].run.out = out
    <3>1. Bit(i) \in check_new_bytes(global, out)
      BY <2>7 DEF check_new_bytes, Kinds, Reasons
    <3> QED  BY <2>2, <2>3, <3>1
  <2> HIDE DEF out
  <2> QED  BY <2>4, <2>6, <2>7 DEF KeptInv, At
<1>3. ASSUME NEW t \in Threads, OwnStep(t)
      PROVE  KeptInv'
  <2>1. PICK n : Quietly(t, n)
    BY <1>3, OwnSteps
  <2>2. inputs' = inputs /\ global' = global
    BY <1>3, OwnSteps
  <2> QED  BY <2>1, <2>2, KeptByOthers DEF Quietly
<1>4. ASSUME NEW t \in Threads, perform_min(t)
      PROVE  KeptInv'
  <2>1. PICK n : Become(t, n)
    BY <1>4, PerformMinStep
  <2>2. /\ thread[t].pc = "minimize" /\ global' = global
        /\ \A j \in DOMAIN inputs : j \in DOMAIN inputs' /\ inputs'[j].bits = inputs[j].bits
    BY <1>4, PerformMinStep DEF perform_min, SameBut
  <2> QED  BY <2>1, <2>2, KeptByOthers
<1>5. ASSUME NEW t \in Threads, AddInput(t)
      PROVE  KeptInv'
  <2> DEFINE th == thread[t]
  <2>1. th.pc = "add" /\ global' = global
    BY <1>5 DEF AddInput, At
  <2>2. PICK seen \in SUBSET Outcomes(th.run.data) : \E n :
            /\ seen # {} /\ Become(t, n)
            /\ \/ Confirmed(th, seen) = {}
               \/ ~ Storable(NewEntry(th, seen)) /\ inputs' = inputs
               \/ Storable(NewEntry(th, seen)) /\ add(NewEntry(th, seen))
    BY <1>5, AddInputStep
  <2>3. PICK n : Become(t, n)
    BY <2>2
  <2>4. \A u \in Threads : thread'[u] = IF u = t THEN n ELSE thread[u]
    BY <2>3 DEF Become, Inv, ThreadsOK
  <2>5. Confirmed(th, seen) # {}
    BY <2>1, <2>2, AllConfirmed
  <2> DEFINE e == NewEntry(th, seen)
  <2>6. EntryOK(e) /\ e.bits = th.run.out.bits /\ e.data = th.run.data /\ e.exit = th.run.out.exit
    BY <2>1, <2>2, Confirming
  <2>7. (~ Storable(e) /\ inputs' = inputs) \/ (Storable(e) /\ add(e))
    BY <2>2, <2>5
  <2>8. \E out \in Outcomes(th.run.data) : out.bits = th.run.out.bits
    <3>1. th.run.data \in Inputs /\ th.run.out \in Behind(th.run.data)
      BY <2>1 DEF Inv, ThreadsOK, ThreadOK, PlaceOK, RunOK, Run
    <3> QED  BY <3>1, CountedType
  <2> HIDE DEF e
  <2>9. /\ \A j \in DOMAIN inputs : j \in DOMAIN inputs' /\ inputs'[j] = inputs[j]
        /\ Storable(e) => \E j \in DOMAIN inputs' : inputs'[j] = e
    BY <2>6, <2>7, KeptAdd
  <2>10. th.run.out.exit = "normal" =>
             \A i \in th.run.out.bits : \/ \E j \in DOMAIN inputs' : i \in inputs'[j].bits
                                        \/ \E out \in Outcomes(<<>>) : i \in out.bits
    BY <2>6, <2>8, <2>9 DEF Storable
  <2> QED  BY <2>1, <2>4, <2>9, <2>10 DEF KeptInv, At
<1>6. ASSUME NEW t \in Threads, CalcFavBits(t) \/ StoreFavqueue(t)
      PROVE  KeptInv'
  <2>1. PICK n : Become(t, n)
    BY <1>6 DEF CalcFavBits, StoreFavqueue
  <2>2. thread[t].pc # "add" /\ inputs' = inputs /\ global' = global
    BY <1>6 DEF CalcFavBits, StoreFavqueue, At, queue
  <2> QED  BY <2>1, <2>2, KeptByOthers
<1>7. ASSUME NEW t \in Threads, AddResult(t)
      PROVE  KeptInv'
  <2>1. PICK n : /\ Become(t, n)
                 /\ \/ \E e \in thread[t].results : EntryOK(e) /\ Storable(e) /\ add(e)
                    \/ UNCHANGED <<inputs, minex, bitmapBits>>
    BY <1>7, AddResultStep
  <2>2. thread[t].pc # "add" /\ global' = global
    BY <1>7 DEF AddResult, At
  <2>3. \A j \in DOMAIN inputs : j \in DOMAIN inputs' /\ inputs'[j] = inputs[j]
    BY <2>1, KeptAdd
  <2> QED  BY <2>1, <2>2, <2>3, KeptByOthers
<1>8. ASSUME NEW t \in Threads, Step(t)
      PROVE  KeptInv'
  BY <1>2, <1>3, <1>4, <1>5, <1>6, <1>7, <1>8, StepCases
<1> QED  BY <1>1, <1>8 DEF Next

\* For a deterministic target coverage claimed for normal runs is never lost:
\* it is in the queue or being stored, for any number of threads, but for what
\* the empty input covers.
THEOREM ClaimsKeptCorrect ==
    ASSUME Deterministic
    PROVE  Spec => []ClaimIsKept
<1>1. Init => KeptInv
  BY DEF Init, KeptInv, EmptyBitmap, Kinds
<1>2. KeptInv => ClaimIsKept
  BY DEF KeptInv, ClaimIsKept
<1>3. Inv /\ KeptInv /\ [Next]_vars => KeptInv'
  BY KeptStep
<1> QED  BY <1>1, <1>2, <1>3, InvCorrect, PTL DEF Spec

----------------------------------------------------------------------------
(***************************************************************************)
(* The files of corpus/.                                                   *)
(***************************************************************************)

\* A thread will still store or write a graph for r.
InThread(th, r, in) ==
    \/ th.min # None /\ r \in DOMAIN th.min.graphs
    \/ \E e \in th.results : r \in e.why
    \/ th.id # 0 /\ th.pc \in {"calc", "store"} /\ r \in in[th.id].why

\* A byte the corpus directory covers, and one that is not lost.
OnDisk(r) == \E f \in disk : \E out \in Outcomes(f.data) : still_valid(r, out)
Safe(r)   == OnDisk(r) \/ Pending(r) \/ r \in refused

\* The minimizer's state is not the absent one.
LEMMA MinIsThere ==
    ASSUME NEW m, IsMin(m)
    PROVE  m # None
<1>1. DOMAIN None = {"none"}
  BY DEF None
<1>2. "graphs" \in DOMAIN m
  BY DEF IsMin
<1> QED  BY <1>1, <1>2

\* What a thread still works on, as far as it only goes on.
LEMMA InThreadKept ==
    ASSUME NEW th, NEW n, NEW in, NEW in2, NEW in3, ThreadOK(th, in3), ThreadOK(n, in2),
           PendingKept(th, n), NEW r,
           (th.id # 0 /\ th.pc \in {"calc", "store"}) =>
               n.id = th.id /\ n.pc \in {"calc", "store"} /\ in2[th.id].why = in[th.id].why,
           InThread(th, r, in)
    PROVE  InThread(n, r, in2)
<1>1. CASE th.min # None /\ r \in DOMAIN th.min.graphs
  <2>1. th.ret = "min"
    BY <1>1 DEF ThreadOK, FrameOK
  <2>2. \/ n.ret = "min" /\ r \in DOMAIN n.min.graphs
        \/ \E e \in n.results : r \in e.why
    BY <1>1, <2>1 DEF PendingKept
  <2>3. n.ret = "min" => n.min # None
    BY MinIsThere DEF ThreadOK, FrameOK, MinOK
  <2> QED  BY <2>2, <2>3 DEF InThread
<1>2. CASE \E e \in th.results : r \in e.why
  BY <1>2 DEF PendingKept, InThread
<1>3. CASE th.id # 0 /\ th.pc \in {"calc", "store"} /\ r \in in[th.id].why
  BY <1>3 DEF InThread
<1> QED  BY <1>1, <1>2, <1>3 DEF InThread

\* A reason stays safe when the thread that moves sees to what it had pending.
LEMMA SafeMoves ==
    ASSUME Inv, NEW t \in Threads, NEW n, Become(t, n), NEW r, Safe(r),
           disk \subseteq disk', refused \subseteq refused',
           \A i \in DOMAIN inputs : i \in DOMAIN inputs' /\ inputs'[i].why = inputs[i].why,
           \A i \in DOMAIN inputs : inputs[i].state = "Minimize" /\ r \in inputs[i].why =>
               inputs'[i].state = "Minimize" \/ InThread(n, r, inputs'),
           InThread(thread[t], r, inputs) =>
               InThread(n, r, inputs') \/ OnDisk(r)' \/ r \in refused'
    PROVE  Safe(r)'
<1>1. /\ thread'[t] = n
      /\ \A u \in Threads : u # t => thread'[u] = thread[u]
  BY DEF Become, Inv, ThreadsOK
<1>2. CASE OnDisk(r)
  BY <1>2 DEF OnDisk, Safe
<1>3. CASE r \in refused
  BY <1>3 DEF Safe
<1>4. ASSUME InThread(n, r, inputs')
      PROVE  Pending(r)'
  BY <1>1, <1>4 DEF InThread, Pending
<1>5. CASE \E i \in DOMAIN inputs : inputs[i].state = "Minimize" /\ r \in inputs[i].why
  <2>1. PICK i \in DOMAIN inputs : inputs[i].state = "Minimize" /\ r \in inputs[i].why
    BY <1>5
  <2>2. CASE inputs'[i].state = "Minimize"
    <3>1. Pending(r)'
      BY <2>1, <2>2 DEF Pending
    <3> QED  BY <3>1 DEF Safe
  <2>3. CASE InThread(n, r, inputs')
    BY <1>4, <2>3 DEF Safe
  <2> QED  BY <2>1, <2>2, <2>3
<1>6. CASE \E u \in Threads : InThread(thread[u], r, inputs)
  <2>1. PICK u \in Threads : InThread(thread[u], r, inputs)
    BY <1>6
  <2>2. CASE u = t
    BY <1>4, <2>1, <2>2 DEF Safe
  <2>3. CASE u # t
    <3>1. thread[u].id # 0 /\ thread[u].pc \in {"calc", "store"} => thread[u].id \in DOMAIN inputs
      BY DEF Inv, ThreadsOK, ThreadOK, FrameOK, PlaceOK
    <3>2. InThread(thread[u], r, inputs')
      BY <2>1, <3>1 DEF InThread
    <3>3. Pending(r)'
      BY <1>1, <2>3, <3>2 DEF InThread, Pending
    <3> QED  BY <3>3 DEF Safe
  <2> QED  BY <2>2, <2>3
<1> QED  BY <1>2, <1>3, <1>5, <1>6 DEF Safe, Pending, InThread

\* A file with the entry's data shows all its reasons, for a deterministic target.
LEMMA FileShows ==
    ASSUME Deterministic, NEW e, EntryOK(e), NEW r \in e.why,
           \E f \in disk' : f.data = e.data
    PROVE  OnDisk(r)'
<1>1. PICK out \in Outcomes(e.data) : e.bits = out.bits /\ e.max = out.max
  BY EntryOutcome
<1>2. still_valid(r, out)
  BY <1>1 DEF EntryOK, still_valid
<1> QED  BY <1>2 DEF OnDisk

\* What every step does to what is safe.
LEMMA DiskStep ==
    ASSUME Deterministic, Inv, DiskCovers, [Next]_vars
    PROVE  DiskCovers'
<1>0. /\ \A i \in DOMAIN inputs : \A r \in NewBytes(inputs[i].why) : Safe(r)
      /\ (\A i \in DOMAIN inputs' : \A r \in NewBytes(inputs'[i].why) : Safe(r)') => DiskCovers'
      /\ Inv'
  BY InvStep DEF DiskCovers, Safe, OnDisk
<1>1. CASE UNCHANGED vars
  BY <1>1 DEF vars, queue, DiskCovers, Pending
<1>2. ASSUME NEW t \in Threads, NEW n, Become(t, n)
      PROVE  ThreadOK(thread[t], inputs) /\ ThreadOK(n, inputs')
  BY <1>0, <1>2 DEF Inv, ThreadsOK, Become
<1>3. ASSUME NEW t \in Threads, NEW n, Become(t, n), PendingKept(thread[t], n),
             inputs' = inputs, disk \subseteq disk', refused' = refused,
             (thread[t].id # 0 /\ thread[t].pc \in {"calc", "store"}) =>
                  n.id = thread[t].id /\ n.pc \in {"calc", "store"}
      PROVE  DiskCovers'
  <2>1. ASSUME NEW i \in DOMAIN inputs, NEW r \in NewBytes(inputs[i].why)
        PROVE  Safe(r)'
    <3>1. InThread(thread[t], r, inputs) => InThread(n, r, inputs')
      BY <1>2, <1>3, InThreadKept
    <3> QED  BY <1>0, <1>3, <2>1, <3>1, SafeMoves
  <2> QED  BY <1>0, <1>3, <2>1
<1>4. ASSUME NEW t \in Threads, OwnStep(t)
      PROVE  DiskCovers'
  <2>1. PICK n : Quietly(t, n)
    BY <1>4, OwnSteps
  <2>2. UNCHANGED <<inputs, minex, bitmapBits, favqueue, global, disk, refused>>
    BY <1>4, OwnSteps
  <2> QED  BY <1>3, <2>1, <2>2 DEF Quietly
<1>5. ASSUME NEW t \in Threads, CheckNewBytes(t)
      PROVE  DiskCovers'
  <2>1. PICK n : Become(t, n) /\ PendingKept(thread[t], n)
    BY <1>5, CheckStep
  <2>2. thread[t].pc = "check" /\ UNCHANGED <<inputs, disk, refused>>
    BY <1>5 DEF CheckNewBytes, At
  <2> QED  BY <1>3, <2>1, <2>2
<1>6. ASSUME NEW t \in Threads, CalcFavBits(t)
      PROVE  DiskCovers'
  <2>1. PICK n : Become(t, n) /\ PendingKept(thread[t], n) /\ n.pc = "store" /\ n.id = thread[t].id
    BY <1>6, CalcStep
  <2>2. UNCHANGED <<inputs, disk, refused>>
    BY <1>6 DEF CalcFavBits, queue
  <2> QED  BY <1>3, <2>1, <2>2
<1>7. ASSUME NEW t \in Threads, StoreFavqueue(t)
      PROVE  DiskCovers'
  <2> DEFINE th == thread[t]
  <2>1. PICK n : Become(t, n) /\ PendingKept(th, n)
    BY <1>7, StoreStep
  <2>2. /\ th.pc = "store" /\ UNCHANGED <<inputs, refused>>
        /\ disk' = IF th.ret = "result"
                   THEN disk \cup {[dir |-> "normal", data |-> inputs[th.id].data]} ELSE disk
    BY <1>7 DEF StoreFavqueue, At
  <2>3. CASE th.ret # "result"
    <3>1. th.id = 0
      BY <2>3 DEF Inv, ThreadsOK, ThreadOK, FrameOK
    <3> QED  BY <1>3, <2>1, <2>2, <3>1
  <2>4. CASE th.ret = "result"
    <3>1. th.id \in DOMAIN inputs /\ EntryOK(inputs[th.id]) /\ th.min = None
      BY <2>2, <2>4 DEF Inv, ThreadsOK, ThreadOK, FrameOK, PlaceOK, QueueOK
    <3>2. \E f \in disk' : f.data = inputs[th.id].data
      <4> DEFINE f == [dir |-> "normal", data |-> inputs[th.id].data]
      <4>1. f \in disk' /\ f.data = inputs[th.id].data
        BY <2>2, <2>4
      <4> QED  BY <4>1
    <3>3. ASSUME NEW i \in DOMAIN inputs, NEW r \in NewBytes(inputs[i].why)
          PROVE  Safe(r)'
      <4>1. r \in inputs[th.id].why => OnDisk(r)'
        BY <3>1, <3>2, FileShows
      <4>2. (\E e \in th.results : r \in e.why) => InThread(n, r, inputs')
        BY <2>1 DEF PendingKept, InThread
      <4>3. InThread(th, r, inputs) => InThread(n, r, inputs') \/ OnDisk(r)'
        BY <3>1, <4>1, <4>2 DEF InThread
      <4> QED  BY <1>0, <2>1, <2>2, <3>3, <4>3, SafeMoves
    <3> QED  BY <1>0, <2>2, <3>3
  <2> QED  BY <2>3, <2>4
<1>8. ASSUME NEW t \in Threads, perform_min(t)
      PROVE  DiskCovers'
  <2> DEFINE th == thread[t]
  <2>1. PICK n : /\ Become(t, n) /\ PendingKept(th, n)
                 /\ NewBytes(inputs[th.entry].why) # {} =>
                       n.ret = "min" /\ DOMAIN n.min.graphs = NewBytes(inputs[th.entry].why)
    BY <1>8, PerformMinStep
  <2>2. /\ DOMAIN inputs' = DOMAIN inputs /\ th.pc = "minimize"
        /\ \A i \in DOMAIN inputs : /\ inputs'[i].why = inputs[i].why
                                    /\ i # th.entry => inputs'[i] = inputs[i]
        /\ disk' = disk /\ refused' = refused
    BY <1>8, PerformMinStep DEF SameBut, perform_min
  <2>3. n.ret = "min" => n.min # None
    BY <1>2, <2>1, MinIsThere DEF ThreadOK, FrameOK, MinOK
  <2>4. ASSUME NEW i \in DOMAIN inputs, NEW r \in NewBytes(inputs[i].why)
        PROVE  Safe(r)'
    <3>1. InThread(th, r, inputs) => InThread(n, r, inputs')
      BY <1>2, <2>1, <2>2, InThreadKept
    <3>2. r \in inputs[th.entry].why => InThread(n, r, inputs')
      BY <2>1, <2>3, <2>4 DEF NewBytes, InThread
    <3>3. \A j \in DOMAIN inputs : inputs[j].state = "Minimize" /\ r \in inputs[j].why =>
              inputs'[j].state = "Minimize" \/ InThread(n, r, inputs')
      BY <2>2, <3>2
    <3> QED  BY <1>0, <2>1, <2>2, <2>4, <3>1, <3>3, SafeMoves
  <2> QED  BY <1>0, <2>2, <2>4
<1>9. ASSUME NEW t \in Threads, AddInput(t)
      PROVE  DiskCovers'
  <2> DEFINE th == thread[t]
  <2>1. PICK seen \in SUBSET Outcomes(th.run.data) : \E n :
            /\ seen # {} /\ Become(t, n) /\ PendingKept(th, n) /\ refused' = refused
            /\ \/ inputs' = inputs /\ disk' = disk
               \/ new_input(NewEntry(th, seen)) /\ inputs' = inputs
               \/ /\ Storable(NewEntry(th, seen)) /\ new_input(NewEntry(th, seen))
                  /\ add(NewEntry(th, seen))
    BY <1>9, AddInputStep
  <2> DEFINE e == NewEntry(th, seen)
  <2>2. PICK n : /\ Become(t, n) /\ PendingKept(th, n) /\ refused' = refused
                 /\ \/ inputs' = inputs /\ disk' = disk
                    \/ new_input(e) /\ inputs' = inputs
                    \/ Storable(e) /\ new_input(e) /\ add(e)
    BY <2>1
  <2>3. th.pc = "add"
    BY <1>9 DEF AddInput, At
  <2>4. EntryOK(e) /\ e.state = "Minimize"
    BY <2>1, <2>3, Confirming
  <2> HIDE DEF e
  <2>5. disk \subseteq disk'
    BY <2>2 DEF new_input
  <2>6. CASE inputs' = inputs
    BY <1>3, <2>2, <2>3, <2>5, <2>6
  <2>7. CASE Storable(e) /\ new_input(e) /\ add(e)
    <3>1. /\ DOMAIN inputs' = DOMAIN inputs \cup {NewId} /\ inputs'[NewId] = e
          /\ \A i \in DOMAIN inputs : inputs'[i] = inputs[i]
      BY <2>4, <2>7, AddStep
    <3>2. ASSUME NEW r, Safe(r)
          PROVE  Safe(r)'
      <4>1. InThread(th, r, inputs) => InThread(n, r, inputs')
        BY <1>2, <2>2, <2>3, InThreadKept
      <4> QED  BY <2>2, <2>5, <3>1, <3>2, <4>1, SafeMoves
    <3>3. ASSUME NEW r \in NewBytes(e.why)
          PROVE  Safe(r)'
      <4>1. Pending(r)'
        BY <2>4, <3>1, <3>3 DEF Pending, NewBytes
      <4> QED  BY <4>1 DEF Safe
    <3> QED  BY <1>0, <3>1, <3>2, <3>3
  <2> QED  BY <2>2, <2>6, <2>7
<1>10. ASSUME NEW t \in Threads, AddResult(t)
       PROVE  DiskCovers'
  <2> DEFINE th == thread[t]
  <2>1. th.pc = "results" /\ th.ret = "result" /\ disk' = disk
    BY <1>10, AddResultStep
  <2>2. th.min = None
    BY <2>1 DEF Inv, ThreadsOK, ThreadOK, FrameOK
  <2>3. PICK n : /\ Become(t, n)
                 /\ \/ \E e \in th.results :
                             /\ EntryOK(e) /\ n.results = th.results \ {e}
                             /\ \/ /\ Storable(e) /\ add(e) /\ refused' = refused
                                   /\ n.pc = "calc" /\ n.id = NewId
                                \/ /\ refused' = refused \cup NewBytes(e.why)
                                   /\ inputs' = inputs
                    \/ th.results = {} /\ inputs' = inputs /\ refused' = refused
    BY <1>10, AddResultStep
  <2>4. CASE th.results = {} /\ inputs' = inputs /\ refused' = refused
    <3>1. PendingKept(th, n)
      BY <2>1, <2>4 DEF PendingKept
    <3> QED  BY <1>3, <2>1, <2>3, <2>4, <3>1
  <2>5. CASE \E e \in th.results : /\ n.results = th.results \ {e} /\ inputs' = inputs
                                   /\ refused' = refused \cup NewBytes(e.why)
    <3>1. PICK e \in th.results : /\ n.results = th.results \ {e} /\ inputs' = inputs
                                  /\ refused' = refused \cup NewBytes(e.why)
      BY <2>5
    <3>2. ASSUME NEW i \in DOMAIN inputs, NEW r \in NewBytes(inputs[i].why)
          PROVE  Safe(r)'
      <4>1. InThread(th, r, inputs) => InThread(n, r, inputs') \/ r \in refused'
        BY <2>1, <2>2, <3>1, <3>2 DEF InThread, NewBytes
      <4> QED  BY <1>0, <2>1, <2>3, <3>1, <3>2, <4>1, SafeMoves
    <3> QED  BY <1>0, <3>1, <3>2
  <2>6. CASE \E e \in th.results : /\ EntryOK(e) /\ n.results = th.results \ {e}
                                   /\ Storable(e) /\ add(e) /\ refused' = refused
                                   /\ n.pc = "calc" /\ n.id = NewId
    <3>1. PICK e \in th.results : /\ EntryOK(e) /\ n.results = th.results \ {e}
                                  /\ Storable(e) /\ add(e) /\ refused' = refused
                                  /\ n.pc = "calc" /\ n.id = NewId
      BY <2>6
    <3>2. /\ DOMAIN inputs' = DOMAIN inputs \cup {NewId} /\ inputs'[NewId] = e
          /\ \A i \in DOMAIN inputs : inputs'[i] = inputs[i]
      BY <3>1, AddStep
    <3>3. NewId # 0
      BY LenProperties DEF NewId, Inv, QueueOK
    <3>4. ASSUME NEW r, r \in e.why
          PROVE  InThread(n, r, inputs')
      BY <3>1, <3>2, <3>3, <3>4 DEF InThread
    <3>5. ASSUME NEW r, Safe(r)
          PROVE  Safe(r)'
      <4>1. InThread(th, r, inputs) => InThread(n, r, inputs')
        BY <2>1, <2>2, <3>1, <3>4 DEF InThread
      <4> QED  BY <2>1, <2>3, <3>1, <3>2, <3>5, <4>1, SafeMoves
    <3>6. ASSUME NEW r \in NewBytes(e.why)
          PROVE  Safe(r)'
      <4>1. InThread(n, r, inputs')
        BY <3>4 DEF NewBytes
      <4>2. thread'[t] = n
        BY <2>3 DEF Become, Inv, ThreadsOK
      <4>3. Pending(r)'
        BY <4>1, <4>2 DEF InThread, Pending
      <4> QED  BY <4>3 DEF Safe
    <3> QED  BY <1>0, <3>2, <3>5, <3>6
  <2> QED  BY <2>3, <2>4, <2>5, <2>6
<1>11. ASSUME NEW t \in Threads, Step(t)
       PROVE  DiskCovers'
  BY <1>4, <1>5, <1>6, <1>7, <1>8, <1>9, <1>10, <1>11, StepCases
<1> QED  BY <1>1, <1>11 DEF Next

\* For a deterministic target a new byte of a stored input is covered by a file,
\* or a thread or a later minimization will write one, unless queue.add refused
\* the graph it was minimized to.
THEOREM DiskCorrect ==
    ASSUME Deterministic
    PROVE  Spec => []DiskCovers
<1>1. Init => DiskCovers
  BY DEF Init, DiskCovers
<1>2. Inv /\ DiskCovers /\ [Next]_vars => DiskCovers'
  BY DiskStep
<1> QED  BY <1>1, <1>2, InvCorrect, PTL DEF Spec

\* For a deterministic target, any number of threads and any bounds of the
\* minimizer, coverage is not lost between its claim and a file of corpus/.
THEOREM CoverageCorrect ==
    ASSUME Deterministic
    PROVE  Spec => []CoverageKept
<1>1. ClaimIsKept /\ DiskCovers => CoverageKept
  BY DEF CoverageKept
<1> QED  BY <1>1, ClaimsKeptCorrect, DiskCorrect, PTL

----------------------------------------------------------------------------
(***************************************************************************)
(* The favourites of one thread.                                           *)
(***************************************************************************)

\* A finite set of numbers has a greatest one.
LEMMA GreatestExists ==
    ASSUME NEW S \in SUBSET Nat, IsFiniteSet(S), S # {}
    PROVE  \E k \in S : \A j \in S : j <= k
<1> DEFINE Above(i) == {j \in S : j > i}
           Family   == {Above(i) : i \in S}
<1>1. Family \subseteq FiniteSubsetsOf(S) /\ Family # {}
  <2>1. ASSUME NEW i \in S
        PROVE  Above(i) \in SUBSET S /\ IsFiniteSet(Above(i))
    BY FS_Subset
  <2> QED  BY <2>1 DEF FiniteSubsetsOf
<1>2. IsWellFoundedOn(StrictSubsetOrdering(S), FiniteSubsetsOf(S))
  BY FS_StrictSubsetOrderingWellFounded
<1>3. \E x \in Family : \A y \in Family : ~ (<<y, x>> \in StrictSubsetOrdering(S))
  BY <1>1, <1>2, WFMin
<1>4. PICK i \in S : \A y \in Family : ~ (<<y, Above(i)>> \in StrictSubsetOrdering(S))
  BY <1>3
<1>5. ASSUME NEW j \in S, j > i
      PROVE  FALSE
  <2>0. S \subseteq Nat /\ i \in Nat /\ j \in Nat
    OBVIOUS
  <2>1. Above(j) \subseteq Above(i) /\ j \in Above(i) /\ j \notin Above(j)
    <3>1. \A k \in Nat : k > j => k > i
      BY <1>5, <2>0
    <3>2. ~ (j > j)
      BY <2>0
    <3> QED  BY <1>5, <2>0, <3>1, <3>2
  <2>2. <<Above(j), Above(i)>> \in StrictSubsetOrdering(S)
    BY <2>1 DEF StrictSubsetOrdering
  <2> QED  BY <1>4, <2>2
<1> QED  BY <1>5

\* The inputs that brought new bytes.
Fresh == {i \in DOMAIN inputs : NewBytes(inputs[i].why) # {}}

\* calc_fav_bits misses no bit and no largest value of a slot.
LEMMA FavsCover ==
    ASSUME Inv, NEW i \in Fresh
    PROVE  /\ \A b \in inputs[i].bits : \E j \in calc_fav_bits : b \in inputs[j].bits
           /\ \A s \in Slots : inputs[i].max[s] > 0 =>
                 \E j \in calc_fav_bits : inputs[j].max[s] >= inputs[i].max[s]
<1>1. inputs \in Seq(Entry) /\ DOMAIN inputs = 1..Len(inputs) /\ Len(inputs) \in Nat
  BY LenProperties DEF Inv, QueueOK
<1>2. IsFiniteSet(DOMAIN inputs) /\ Fresh \subseteq DOMAIN inputs /\ DOMAIN inputs \subseteq Nat
  <2>1. IsFiniteSet(1..Len(inputs))
    BY <1>1, FS_Interval
  <2> QED  BY <1>1, <2>1 DEF Fresh
<1>3. ASSUME NEW S \in SUBSET Fresh, S # {}
      PROVE  \E k \in S : \A j \in S : j <= k
  <2>1. IsFiniteSet(S) /\ S \subseteq Nat
    BY <1>2, FS_Subset
  <2> QED  BY <1>3, <2>1, GreatestExists
<1>4. ASSUME NEW b \in inputs[i].bits
      PROVE  \E j \in calc_fav_bits : b \in inputs[j].bits
  <2> DEFINE S == {j \in Fresh : b \in inputs[j].bits}
  <2>1. S \in SUBSET Fresh /\ S # {}
    BY <1>4
  <2>2. PICK k \in S : \A j \in S : j <= k
    BY <1>3, <2>1
  <2>3. \A j \in Fresh : j > k => b \notin inputs[j].bits
    BY <1>2, <2>2
  <2>4. k \in calc_fav_bits
    BY <2>2, <2>3 DEF calc_fav_bits, Fresh
  <2> QED  BY <2>2, <2>4
<1>5. ASSUME NEW s \in Slots, inputs[i].max[s] > 0
      PROVE  \E j \in calc_fav_bits : inputs[j].max[s] >= inputs[i].max[s]
  <2> DEFINE v(j) == inputs[j].max[s]
             V == {v(j) : j \in Fresh}
  <2>1. \A j \in Fresh : v(j) \in Nat
    <3>1. \A j \in Fresh : inputs[j] \in Entry
      BY <1>2 DEF Inv, QueueOK, EntryOK
    <3> QED  BY <3>1 DEF Entry
  <2>2. IsFiniteSet(V) /\ V \subseteq Nat /\ V # {}
    <3>1. IsFiniteSet(Fresh)
      BY <1>2, FS_Subset
    <3> DEFINE f == [j \in Fresh |-> v(j)]
    <3>2. f \in Surjection(Fresh, V)
      BY DEF Surjection
    <3>3. IsFiniteSet(V)
      BY <3>1, <3>2, FS_Surjection
    <3> QED  BY <2>1, <3>3
  <2>3. PICK m \in V : \A w \in V : w <= m
    <3> HIDE DEF V
    <3> QED  BY <2>2, GreatestExists
  <2> DEFINE S == {j \in Fresh : v(j) = m}
  <2>4. S \in SUBSET Fresh /\ S # {}
    BY <2>3
  <2>5. PICK k \in S : \A j \in S : j <= k
    BY <1>3, <2>4
  <2>6. k \in Fresh /\ v(k) = m /\ v(i) <= m /\ m \in Nat
    BY <2>2, <2>3, <2>5
  <2>7. \A j \in Fresh : v(j) < v(k) \/ (v(j) = v(k) /\ j <= k)
    <3>1. ASSUME NEW j \in Fresh
          PROVE  v(j) < v(k) \/ (v(j) = v(k) /\ j <= k)
      <4>1. v(j) <= m /\ v(j) \in Nat
        BY <2>1, <2>3
      <4>2. v(j) = m => j <= k
        BY <2>5
      <4> HIDE DEF v
      <4> QED  BY <2>6, <4>1, <4>2
    <3> QED  BY <3>1
  <2>8. v(k) > 0 /\ v(k) >= v(i)
    <3>1. v(i) > 0 /\ v(i) \in Nat
      BY <1>5, <2>1
    <3> HIDE DEF v
    <3> QED  BY <2>6, <3>1
  <2>9. k \in calc_fav_bits
    BY <2>6, <2>7, <2>8 DEF calc_fav_bits, Fresh
  <2> QED  BY <2>8, <2>9
<1> QED  BY <1>4, <1>5

\* The favourites are up to date whenever the only thread is not adding.
FavInv == \A t \in Threads : /\ thread[t].pc \notin {"calc", "store"} => favqueue = calc_fav_bits
                             /\ thread[t].pc = "store" => thread[t].fav = calc_fav_bits

\* The state of an entry does not matter for the favourites.
LEMMA FavsSame ==
    ASSUME DOMAIN inputs' = DOMAIN inputs,
           \A i \in DOMAIN inputs : SameBut(inputs[i], inputs'[i])
    PROVE  calc_fav_bits' = calc_fav_bits
<1>1. \A i \in DOMAIN inputs : /\ inputs'[i].bits = inputs[i].bits /\ inputs'[i].max = inputs[i].max
                               /\ inputs'[i].why = inputs[i].why /\ inputs'[i].seed = inputs[i].seed
  BY DEF SameBut
<1>2. Fresh' = Fresh /\ Fresh \subseteq DOMAIN inputs
  BY <1>1 DEF Fresh
<1> DEFINE Bits1 == {i \in Fresh : \E b \in inputs[i].bits :
                        \A j \in Fresh : j > i => b \notin inputs[j].bits}
           Seeds == {i \in DOMAIN inputs \ Fresh : inputs[i].seed}
           Slots1 == {i \in Fresh : \E s \in Slots :
                /\ inputs[i].max[s] > 0
                /\ \A j \in Fresh : \/ inputs[j].max[s] < inputs[i].max[s]
                                    \/ inputs[j].max[s] = inputs[i].max[s] /\ j <= i}
<1>3. calc_fav_bits = Bits1 \cup Seeds \cup Slots1
  BY DEF calc_fav_bits, Fresh
<1>4. (calc_fav_bits = Bits1 \cup Seeds \cup Slots1)'
  BY DEF calc_fav_bits, Fresh
<1>5. Bits1' = Bits1
  BY <1>1, <1>2
<1>6. Seeds' = Seeds
  BY <1>1, <1>2
<1>7. Slots1' = Slots1
  BY <1>1, <1>2
<1> QED  BY <1>3, <1>4, <1>5, <1>6, <1>7

\* The only thread keeps the favourites up to date.
LEMMA FavStep ==
    ASSUME Inv, FavInv, \A t, u \in Threads : t = u, [Next]_vars
    PROVE  FavInv'
<1>1. ASSUME NEW t \in Threads, NEW n, Become(t, n)
      PROVE  \A u \in Threads : thread'[u] = n /\ u = t
  BY <1>1 DEF Become, Inv, ThreadsOK
<1>2. ASSUME inputs' = inputs
      PROVE  calc_fav_bits' = calc_fav_bits
  BY <1>2, FavsSame DEF SameBut
<1>3. CASE UNCHANGED vars
  BY <1>3, <1>2 DEF vars, queue, FavInv
<1>4. ASSUME NEW t \in Threads, NEW n, Become(t, n), n.pc \notin {"calc", "store"},
             thread[t].pc \notin {"calc", "store"}, favqueue' = favqueue,
             calc_fav_bits' = calc_fav_bits
      PROVE  FavInv'
  BY <1>1, <1>4 DEF FavInv
<1>5. ASSUME NEW t \in Threads, NEW n, Become(t, n), n.pc = "calc"
      PROVE  FavInv'
  BY <1>1, <1>5 DEF FavInv
<1>6. ASSUME NEW t \in Threads, OwnStep(t)
      PROVE  FavInv'
  <2>1. PICK n : Quietly(t, n)
    BY <1>6, OwnSteps
  <2>2. inputs' = inputs /\ favqueue' = favqueue
    BY <1>6, OwnSteps
  <2> QED  BY <1>2, <1>4, <2>1, <2>2 DEF Quietly
<1>7. ASSUME NEW t \in Threads, perform_min(t)
      PROVE  FavInv'
  <2>1. PICK n : Become(t, n) /\ n.pc \notin {"add", "calc", "store"}
    BY <1>7, PerformMinStep
  <2>2. thread[t].pc = "minimize" /\ favqueue' = favqueue
    BY <1>7 DEF perform_min, At
  <2>3. calc_fav_bits' = calc_fav_bits
    BY <1>7, PerformMinStep, FavsSame
  <2> QED  BY <1>4, <2>1, <2>2, <2>3
<1>8. ASSUME NEW t \in Threads, CheckNewBytes(t)
      PROVE  FavInv'
  <2>1. PICK n : Become(t, n) /\ n.pc \notin {"calc", "store"}
    BY <1>8, CheckStep
  <2>2. thread[t].pc = "check" /\ favqueue' = favqueue /\ inputs' = inputs
    BY <1>8 DEF CheckNewBytes, At
  <2> QED  BY <1>2, <1>4, <2>1, <2>2
<1>9. ASSUME NEW t \in Threads, AddInput(t)
      PROVE  FavInv'
  <2>1. PICK n : /\ Become(t, n)
                 /\ n.pc = "calc" \/ (n.pc \notin {"calc", "store"} /\ inputs' = inputs)
    BY <1>9, AddInputStep
  <2>2. thread[t].pc = "add" /\ favqueue' = favqueue
    BY <1>9 DEF AddInput, At
  <2> QED  BY <1>2, <1>4, <1>5, <2>1, <2>2
<1>10. ASSUME NEW t \in Threads, CalcFavBits(t)
       PROVE  FavInv'
  <2>1. PICK n : Become(t, n) /\ n.pc = "store" /\ n.fav = calc_fav_bits
    BY <1>10, CalcStep
  <2>2. inputs' = inputs
    BY <1>10 DEF CalcFavBits, queue
  <2> QED  BY <1>1, <1>2, <2>1, <2>2 DEF FavInv
<1>11. ASSUME NEW t \in Threads, StoreFavqueue(t)
       PROVE  FavInv'
  <2>1. PICK n : Become(t, n) /\ n.pc \notin {"add", "calc", "store"}
    BY <1>11, StoreStep
  <2>2. inputs' = inputs /\ favqueue' = thread[t].fav /\ thread[t].pc = "store"
    BY <1>11 DEF StoreFavqueue, At
  <2> QED  BY <1>1, <1>2, <2>1, <2>2 DEF FavInv
<1>12. ASSUME NEW t \in Threads, AddResult(t)
       PROVE  FavInv'
  <2>1. PICK n : /\ Become(t, n) /\ n.pc # "store"
                 /\ n.pc = "calc" \/ inputs' = inputs
    BY <1>12, AddResultStep
  <2>2. thread[t].pc = "results" /\ favqueue' = favqueue
    BY <1>12 DEF AddResult, At
  <2> QED  BY <1>2, <1>4, <1>5, <2>1, <2>2
<1>13. ASSUME NEW t \in Threads, Step(t)
       PROVE  FavInv'
  BY <1>6, <1>7, <1>8, <1>9, <1>10, <1>11, <1>12, <1>13, StepCases
<1> QED  BY <1>3, <1>13 DEF Next

\* With a single thread the favourites cover what all the inputs stored for new
\* bytes cover and have the largest ijon values, for any target.  (With two, an
\* older result of calc_fav_bits can replace a newer one.)
THEOREM FavouritesCorrect ==
    ASSUME \A t, u \in Threads : t = u
    PROVE  Spec => []FavCovers
<1>1. Init => FavInv
  BY DEF Init, FavInv, Idle, calc_fav_bits
<1>2. Inv /\ FavInv /\ [Next]_vars => FavInv'
  BY FavStep
<1>3. ASSUME Inv, FavInv
      PROVE  FavCovers
  <2>1. SUFFICES ASSUME \A t \in Threads : thread[t].pc \notin {"calc", "store"},
                        NEW i \in DOMAIN inputs, NewBytes(inputs[i].why) # {}
                 PROVE  /\ \A b \in inputs[i].bits : \E j \in favqueue : b \in inputs[j].bits
                        /\ \A s \in Slots : inputs[i].max[s] > 0 =>
                              \E j \in favqueue : inputs[j].max[s] >= inputs[i].max[s]
    BY DEF FavCovers
  <2>2. favqueue = calc_fav_bits
    BY <1>3, <2>1, CorpusQueueAssumption DEF FavInv
  <2>3. i \in Fresh
    BY <2>1 DEF Fresh
  <2> QED  BY <1>3, <2>2, <2>3, FavsCover
<1>4. Inv /\ FavInv => FavCovers
  BY <1>3
<1> QED  BY <1>1, <1>2, <1>4, InvCorrect, PTL DEF Spec
=============================================================================
