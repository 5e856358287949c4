---------------------------- MODULE CorpusQueue -----------------------------
(***************************************************************************)
(* The corpus shared by the fuzzing threads: the queue of inputs and its   *)
(* indexes behind one lock, the global and the per-thread coverage maps,   *)
(* the files of the work directory, and each thread's run, from the        *)
(* execution over the confirmation of its coverage to the stored input,    *)
(* for generated, mutated and imported inputs and inside the minimizer.    *)
(*                                                                         *)
(* A step is what a thread does between taking and releasing the lock of   *)
(* the queue; what touches only the thread is joined to such a step.       *)
(*                                                                         *)
(* Of a byte of the coverage map only zero or not is told apart.  How an   *)
(* execution uses snapshots, and the cutoffs, are in SnapshotFuzz; custom  *)
(* dictionaries, traces, statistics and file names are left out.           *)
(***************************************************************************)
EXTENDS Integers, Sequences, FiniteSets, SequencesExt

CONSTANTS
    Threads,          \* fuzzing threads
    Importer,         \* thread_id 0
    Packets, MaxLen,  \* inputs are sequences of packets, up to a bound
    Bits,             \* indexes of the coverage map
    Slots,            \* indexes of the ijon map
    Outcomes(_),      \* what an execution of an input can result in
    Files,            \* files in seeds/ and imports/ at the start
    ExitAfterCrash,   \* config.exit_after_first_crash
    HavocRuns,        \* 10 or 50 runs per iteration
    MinIters,         \* 1000 runs to minimize for one byte
    MaxFailures       \* 10 random failures in a row

Inputs == SeqOf(Packets, MaxLen)
Exits  == {"normal", "crash", "timeout", "write", "asan"}

\* The exit reasons BitmapHandler keeps a bitmap for.
Kinds == {"normal", "crash", "timeout", "write"}

Results == [bits : SUBSET Bits, max : [Slots -> Nat], exit : Exits, used : 0..MaxLen]

ASSUME CorpusQueueAssumption ==
    /\ Importer \in Threads
    /\ MaxLen \in Nat /\ HavocRuns \in Nat \ {0}
    /\ MinIters \in Nat /\ MaxFailures \in Nat
    /\ Files \in [{"seeds", "imports"} -> Nat]
    /\ ExitAfterCrash \in BOOLEAN
    /\ \A data \in Inputs : /\ Outcomes(data) # {}
                            /\ Outcomes(data) \subseteq Results
                            /\ \A out \in Outcomes(data) : out.used <= Len(data)

VARIABLES
    inputs,      \* QueueData.inputs
    minex,       \* bitmap_index_to_min_example
    bitmapBits,  \* bitmap_bits
    favqueue,
    global,      \* QueueData.bitmaps
    local,       \* the bitmaps of each StructFuzzer
    files,       \* files still to be imported
    disk,        \* the test cases written to corpus/
    refused,     \* history: new bytes whose minimized graph was refused
    thread       \* what each thread is doing

queue == <<inputs, minex, bitmapBits, favqueue, global>>
vars  == <<queue, local, files, disk, refused, thread>>

None == [none |-> TRUE]

----------------------------------------------------------------------------
(***************************************************************************)
(* bitmap.rs                                                               *)
(***************************************************************************)

Bit(i)     == [tag |-> "bit", index |-> i, old |-> 0]
IjonMax(s, old) == [tag |-> "ijon", index |-> s, old |-> old]
Imported   == [tag |-> "imported", index |-> 0, old |-> 0]

still_valid(r, out) == /\ r.tag = "bit"  => r.index \in out.bits
                       /\ r.tag = "ijon" => out.max[r.index] > r.old

has_new_byte(r) == r.tag # "imported"
NewBytes(why)   == {r \in why : has_new_byte(r)}

EmptyBitmap == [bits |-> {}, max |-> [s \in Slots |-> 0]]

\* Bitmap::check_new_bytes: the reasons to store the input.
Reasons(b, out) == {Bit(i) : i \in out.bits \ b.bits} \cup
                   {IjonMax(s, b.max[s]) : s \in {s \in Slots : out.max[s] > b.max[s]}}

\* Mutant: the bitmap is not updated.
NotMerged(b, out) == b

\* ... and the bitmap after it.
Merged(b, out) == [bits |-> b.bits \cup out.bits,
                   max |-> [s \in Slots |-> IF out.max[s] > b.max[s] THEN out.max[s]
                                            ELSE b.max[s]]]

\* BitmapHandler::check_new_bytes: the bitmap of the exit reason, if it has one.
check_new_bytes(bs, out) == IF out.exit \in Kinds THEN Reasons(bs[out.exit], out) ELSE {}
Checked(bs, out) == [k \in Kinds |-> IF k = out.exit THEN Merged(bs[k], out) ELSE bs[k]]

----------------------------------------------------------------------------
(***************************************************************************)
(* queue.rs                                                                *)
(***************************************************************************)

\* Input::new, from an execution of run.data, the coverage maps in cov.
Input(run, cov, why, state) ==
    [data |-> run.data, bits |-> cov.bits, max |-> cov.max, exit |-> run.out.exit,
     used |-> run.out.used, why |-> why, seed |-> run.seed, state |-> state]

should_minimize(e) == ~ e.seed /\ e.exit = "normal" /\ NewBytes(e.why) # {}

\* Mutant: any exit reason.
StorableAnyExit(e) == e.data # <<>>

Storable(e) == e.data # <<>> /\ e.exit \in {"normal", "crash"}

Indexes(why, tag) == {r.index : r \in {r \in why : r.tag = tag}}

NewId == Len(inputs) + 1

\* Mutant: the first example of a bit stays.
RegisterFirst(e, i) == i \notin DOMAIN minex

\* register_best_input_for_bitmap: the new input replaces a longer one only.
IsBest(e, i) == \/ i \notin DOMAIN minex
                    \/ Len(inputs[minex[i]].data) > Len(e.data)

\* Queue::add under the lock: push, then register each reason.  An ijon reason
\* replaces the example of its index whatever it was.
add(e) ==
    LET id   == NewId
        bits == Indexes(e.why, "bit")
        ijon == Indexes(e.why, "ijon")
        best == ijon \cup {i \in bits : IsBest(e, i)}
    IN  /\ inputs' = Append(inputs, e)
        /\ minex' = [i \in DOMAIN minex \cup best |-> IF i \in best THEN id ELSE minex[i]]
        /\ bitmapBits' = bitmapBits \cup (bits \ DOMAIN minex)

\* Mutant: only bits that no other input covers count.
CalcUnique ==
    LET fresh == {i \in DOMAIN inputs : NewBytes(inputs[i].why) # {}}
    IN  {i \in fresh : \E b \in inputs[i].bits :
                          \A j \in fresh \ {i} : b \notin inputs[j].bits}

\* calc_fav_bits: from the newest to the oldest, an input with new bytes that
\* covers a bit no newer one has covered; imports without new bytes; and, for
\* each ijon slot, the newest of the inputs with the largest value.
calc_fav_bits ==
    LET fresh == {i \in DOMAIN inputs : NewBytes(inputs[i].why) # {}}
    IN  {i \in fresh : \E b \in inputs[i].bits :
                          \A j \in fresh : j > i => b \notin inputs[j].bits}
        \cup {i \in DOMAIN inputs \ fresh : inputs[i].seed}
        \cup {i \in fresh : \E s \in Slots :
                /\ inputs[i].max[s] > 0
                /\ \A j \in fresh : \/ inputs[j].max[s] < inputs[i].max[s]
                                    \/ inputs[j].max[s] = inputs[i].max[s] /\ j <= i}

\* schedule: a favourite, the example of a bit, or any input.
Schedulable == favqueue \cup {minex[i] : i \in bitmapBits} \cup DOMAIN inputs

num_crashes == Cardinality({i \in DOMAIN inputs : inputs[i].exit = "crash"})

----------------------------------------------------------------------------
(***************************************************************************)
(* The minimizer's state: for each new byte the shortest graph that still  *)
(* has it, the bytes still to be worked on, and the loop for the current   *)
(* one.  The bytes are taken in any order.                                 *)
(***************************************************************************)

\* Mutant: shorter is enough.
UpdateAnyShorter(graphs, run) ==
    LET better == {r \in DOMAIN graphs : Len(graphs[r].data) > Len(run.data)}
        graph  == Input(run, run.last, better, "Havoc")
    IN  [r \in DOMAIN graphs |-> IF r \in better THEN graph ELSE graphs[r]]

\* Mutant: the coverage recorded is that of the first execution.
UpdateMixed(graphs, run) ==
    LET better == {r \in DOMAIN graphs : /\ still_valid(r, run.last)
                                         /\ Len(graphs[r].data) > Len(run.data)}
        graph  == Input(run, run.out, better, "Havoc")
    IN  [r \in DOMAIN graphs |-> IF r \in better THEN graph ELSE graphs[r]]

\* Mutant: the exit reason is still that of the longer graph.
UpdateKeepsExit(graphs, run) ==
    LET better == {r \in DOMAIN graphs : /\ still_valid(r, run.last)
                                         /\ Len(graphs[r].data) > Len(run.data)}
        graph  == Input(run, run.last, better, "Havoc")
    IN  [r \in DOMAIN graphs |-> IF r \in better THEN [graph EXCEPT !.exit = graphs[r].exit]
                                 ELSE graphs[r]]

\* update_min_graphs: the coverage maps are those of the last execution, which
\* is a confirmation run when the graph itself had new coverage.
update_min_graphs(graphs, run) ==
    LET better == {r \in DOMAIN graphs : /\ still_valid(r, run.last)
                                         /\ Len(graphs[r].data) > Len(run.data)}
        graph  == Input(run, run.last, better, "Havoc")
    IN  [r \in DOMAIN graphs |-> IF r \in better THEN graph ELSE graphs[r]]

\* minimize_new_bytes: every byte starts with the input itself.
minimize_new_bytes(e) ==
    [graphs |-> [r \in NewBytes(e.why) |-> [e EXCEPT !.state = "Havoc"]],
     todo |-> NewBytes(e.why), cur |-> None, phase |-> "first",
     remaining |-> 0, failures |-> 0, updated |-> FALSE, idx |-> 0]

\* After a run of the minimizer.  "updated = updated || update_min_graphs(..)"
\* does not even look at the graph once something was updated.
MinRunDone(m, run) ==
    LET graphs == update_min_graphs(m.graphs, run)
        res    == graphs # m.graphs
    IN  CASE m.phase = "first"  -> [m EXCEPT !.graphs = graphs, !.phase = "next"]
          [] m.phase = "random" ->
               [m EXCEPT !.graphs = graphs, !.updated = m.updated \/ res,
                         !.failures = IF res THEN 0 ELSE @ + 1]
          [] m.phase = "step"   ->
               IF m.updated THEN m ELSE [m EXCEPT !.graphs = graphs, !.updated = res]

Without(s, a, k) == SubSeq(s, 1, a) \o SubSeq(s, a + k + 1, Len(s))

\* gen_minimization_block_size: blocks of one node, or of less than half of the
\* graph, never up to its end.  That early blocks are smaller is left out.
Blocks(s) == LET n == IF Len(s) < 4 THEN 1 ELSE Len(s) \div 2 - 1
             IN  UNION {{Without(s, a, k) : a \in 0..(Len(s) - k - 1)} : k \in 1..n}

DropNode(s, i) == IF i \in DOMAIN s THEN RemoveAt(s, i) ELSE s

----------------------------------------------------------------------------
(***************************************************************************)
(* fuzzer.rs: one StructFuzzer per thread.  ret says who called            *)
(* perform_run, or queue.add for a minimized graph.                        *)
(***************************************************************************)

Idle(pc) == [pc |-> pc, ret |-> "iter", entry |-> 0, left |-> 0, run |-> None,
             why |-> {}, fav |-> {}, id |-> 0, min |-> None, results |-> {}]

Init == /\ inputs = <<>> /\ minex = <<>> /\ bitmapBits = {} /\ favqueue = {}
        /\ global = [k \in Kinds |-> EmptyBitmap]
        /\ local = [t \in Threads |-> [k \in Kinds |-> EmptyBitmap]]
        /\ files = Files
        /\ disk = {} /\ refused = {}
        /\ thread = [t \in Threads |-> Idle("start")]

At(t, pc) == thread[t].pc = pc
Become(t, th) == thread' = [thread EXCEPT ![t] = th]

\* perform_run returns to its caller.
Returned(th) ==
    CASE th.ret = "iter"   -> Idle("iter")
      [] th.ret = "file"   -> Idle("remove")
      [] th.ret = "havoc"  -> IF th.left > 1 THEN [th EXCEPT !.pc = "havoc", !.left = @ - 1,
                                                             !.run = None, !.why = {}, !.fav = {}]
                              ELSE Idle("iter")
      [] th.ret = "min"    -> [th EXCEPT !.pc = "min", !.min = MinRunDone(th.min, th.run),
                                         !.run = None, !.why = {}, !.fav = {}]
      [] th.ret = "result" -> [th EXCEPT !.pc = "results", !.fav = {}]

\* ops_used as perform_run records it: behind a temporary snapshot, which only
\* havoc uses, the operation that took it counts as well, up to the node count.
Counted(data, out) == [out EXCEPT !.used = IF @ < Len(data) THEN @ + 1 ELSE @]
Behind(data)       == Outcomes(data) \cup {Counted(data, out) : out \in Outcomes(data)}

\* perform_run up to the thread's own bitmaps.
perform_run(t, th, data, seed) ==
    \E out \in IF th.ret = "havoc" THEN Behind(data) ELSE Outcomes(data) :
        LET done == [th EXCEPT !.run = [data |-> data, seed |-> seed, out |-> out, last |-> out]]
        IN  /\ local' = [local EXCEPT ![t] = Checked(@, out)]
            /\ Become(t, IF check_new_bytes(local[t], out) # {} \/ seed
                         THEN [done EXCEPT !.pc = "check"] ELSE Returned(done))

\* Queue::check_new_bytes: the coverage is claimed, for all threads.
CheckNewBytes(t) ==
    LET th  == thread[t]
        why == check_new_bytes(global, th.run.out) \cup
               (IF th.run.seed /\ th.run.out.exit # "timeout" THEN {Imported} ELSE {})
    IN  /\ At(t, "check")
        /\ global' = Checked(global, th.run.out)
        /\ Become(t, IF why # {} THEN [th EXCEPT !.pc = "add", !.why = why] ELSE Returned(th))
        /\ UNCHANGED <<inputs, minex, bitmapBits, favqueue, local, files, disk, refused>>

\* new_input: what will not be minimized is written at once.
new_input(e) == disk' = IF should_minimize(e) THEN disk
                        ELSE disk \cup {[dir |-> e.exit, data |-> e.data]}

\* filter_nondet_storage_reasons, new_input and queue.add.  seen are the
\* results of the confirmation runs, last the last one.
AddInput(t) ==
    LET th == thread[t]
    IN  /\ At(t, "add")
        /\ \E seen \in SUBSET Outcomes(th.run.data) : \E last \in seen :
              LET why == {r \in th.why : \A out \in seen : still_valid(r, out)}
                  e   == Input(th.run, th.run.out, why, "Minimize")
                  ret == Returned([th EXCEPT !.run.last = last])
              IN  \/ /\ why = {}
                     /\ Become(t, ret)
                     /\ UNCHANGED <<inputs, minex, bitmapBits, disk>>
                  \/ /\ why # {} /\ ~ Storable(e)
                     /\ new_input(e)
                     /\ Become(t, ret)
                     /\ UNCHANGED <<inputs, minex, bitmapBits>>
                  \/ /\ why # {} /\ Storable(e)
                     /\ new_input(e)
                     /\ add(e)
                     /\ Become(t, [th EXCEPT !.pc = "calc", !.run.last = last, !.why = {}])
        /\ UNCHANGED <<favqueue, global, local, files, refused>>

\* calc_fav_bits reads the queue under one lock ...
CalcFavBits(t) ==
    /\ At(t, "calc")
    /\ Become(t, [thread[t] EXCEPT !.pc = "store", !.fav = calc_fav_bits])
    /\ UNCHANGED <<queue, local, files, disk, refused>>

\* Mutant: a minimized graph is not written.
StoreNoFile(t) ==
    /\ At(t, "store")
    /\ favqueue' = thread[t].fav
    /\ Become(t, Returned(thread[t]))
    /\ UNCHANGED <<inputs, minex, bitmapBits, global, local, files, disk, refused>>

\* ... and stores its result under another.  A minimized graph is then written
\* to corpus/normal, whatever its exit reason.
StoreFavqueue(t) ==
    LET th == thread[t]
    IN  /\ At(t, "store")
        /\ favqueue' = th.fav
        /\ disk' = IF th.ret = "result"
                   THEN disk \cup {[dir |-> "normal", data |-> inputs[th.id].data]} ELSE disk
        /\ Become(t, Returned(th))
        /\ UNCHANGED <<inputs, minex, bitmapBits, global, local, files, refused>>

\* run: thread 0 imports the seeds, the others wait until they are gone.
Start(t) == /\ At(t, "start")
            /\ files["seeds"] = 0
            /\ Become(t, Idle("iter"))
            /\ UNCHANGED <<queue, local, files, disk, refused>>

\* perform_import
perform_import(t, dir) ==
    /\ t = Importer
    /\ At(t, IF dir = "seeds" THEN "start" ELSE "iter")
    /\ files[dir] > 0
    /\ \E data \in Inputs :
          perform_run(t, [thread[t] EXCEPT !.ret = "file"], data, dir = "seeds")
    /\ UNCHANGED <<queue, files, disk, refused>>

RemoveFile(t) ==
    LET dir == IF files["seeds"] > 0 THEN "seeds" ELSE "imports"
    IN  /\ At(t, "remove")
        /\ files' = [files EXCEPT ![dir] = @ - 1]
        /\ Become(t, Idle(IF dir = "seeds" THEN "start" ELSE "iter"))
        /\ UNCHANGED <<queue, local, disk, refused>>

\* Mutant: one crash is not enough.
EndsLate == ExitAfterCrash /\ num_crashes > 1

\* The loop of run ends, or goes on with iter.
Ends == ExitAfterCrash /\ num_crashes > 0

Finish(t) == /\ At(t, "iter")
             /\ Ends
             /\ Become(t, Idle("done"))
             /\ UNCHANGED <<queue, local, files, disk, refused>>

\* iter with an empty queue: perform_gen.
Generate(t) == /\ At(t, "iter")
               /\ ~ Ends
               /\ inputs = <<>>
               /\ \E data \in Inputs : perform_run(t, thread[t], data, FALSE)
               /\ UNCHANGED <<queue, files, disk, refused>>

\* iter: a copy of the scheduled input decides what is done with it.
Schedule(t) ==
    /\ At(t, "iter")
    /\ ~ Ends
    /\ \E i \in Schedulable :
          Become(t, IF inputs[i].state = "Minimize"
                    THEN [Idle("minimize") EXCEPT !.entry = i]
                    ELSE [Idle("havoc") EXCEPT !.entry = i, !.ret = "havoc", !.left = HavocRuns])
    /\ UNCHANGED <<queue, local, files, disk, refused>>

perform_havoc(t) == /\ At(t, "havoc")
                    /\ \E data \in Inputs : perform_run(t, thread[t], data, FALSE)
                    /\ UNCHANGED <<queue, files, disk, refused>>

\* perform_min: the state is set first, then the unused tail is dropped.
perform_min(t) ==
    LET e == inputs[thread[t].entry]
    IN  /\ At(t, "minimize")
        /\ inputs' = [inputs EXCEPT ![thread[t].entry].state = "Havoc"]
        /\ \/ /\ NewBytes(e.why) = {}
              /\ Become(t, Idle("iter"))
              /\ UNCHANGED local
           \/ /\ NewBytes(e.why) # {}
              /\ perform_run(t, [thread[t] EXCEPT !.ret = "min", !.min = minimize_new_bytes(e)],
                             SubSeq(e.data, 1, e.used), FALSE)
        /\ UNCHANGED <<minex, bitmapBits, favqueue, global, files, disk, refused>>

\* minimize_one_byte for the next byte, unless the last one brought nothing.
MinNext(t) ==
    LET m == thread[t].min
    IN  /\ At(t, "min")
        /\ m.phase = "next"
        /\ \/ \E r \in m.todo :
                 Become(t, [thread[t] EXCEPT
                     !.min = [m EXCEPT !.todo = @ \ {r}, !.cur = r, !.phase = "random",
                                       !.remaining = MinIters, !.failures = 0,
                                       !.updated = FALSE]])
           \/ /\ m.todo = {}
              /\ Become(t, [Idle("results") EXCEPT !.entry = thread[t].entry, !.ret = "result",
                               !.results = {m.graphs[r] : r \in DOMAIN m.graphs}])
        /\ UNCHANGED <<queue, local, files, disk, refused>>

\* Dropping random blocks while the graph is longer than the runs remaining.
MinRandom(t) ==
    LET m == thread[t].min
        g == m.graphs[m.cur].data
        n == [thread[t] EXCEPT !.min.remaining = @ - 1]
    IN  /\ At(t, "min")
        /\ m.phase = "random"
        /\ \/ /\ m.remaining > 0 /\ Len(g) > m.remaining /\ m.failures < MaxFailures
              /\ \E data \in Blocks(g) : perform_run(t, n, data, FALSE)
           \/ /\ ~ (m.remaining > 0 /\ Len(g) > m.remaining /\ m.failures < MaxFailures)
              /\ Become(t, [thread[t] EXCEPT !.min.phase = "step", !.min.idx = Len(g)])
              /\ UNCHANGED local
        /\ UNCHANGED <<queue, files, disk, refused>>

\* Dropping one node after the other, from the back of the graph the loop
\* began with.  A byte for which nothing was updated ends the minimization.
MinStep(t) ==
    LET m == thread[t].min
        g == m.graphs[m.cur].data
        n == [thread[t] EXCEPT !.min.remaining = @ - 1, !.min.idx = @ - 1]
    IN  /\ At(t, "min")
        /\ m.phase = "step"
        /\ \/ /\ m.remaining > 0 /\ m.idx > 0
              /\ perform_run(t, n, DropNode(g, m.idx), FALSE)
           \/ /\ ~ (m.remaining > 0 /\ m.idx > 0)
              /\ Become(t, [thread[t] EXCEPT !.min.phase = "next",
                                             !.min.todo = IF m.updated THEN @ ELSE {}])
              /\ UNCHANGED local
        /\ UNCHANGED <<queue, files, disk, refused>>

\* perform_min stores the graphs, each once, in any order.
AddResult(t) ==
    LET th == thread[t]
    IN  /\ At(t, "results")
        /\ \/ \E e \in th.results :
                 LET rest == [th EXCEPT !.results = @ \ {e}]
                 IN  \/ /\ Storable(e)
                        /\ add(e)
                        /\ Become(t, [rest EXCEPT !.pc = "calc", !.id = NewId])
                        /\ UNCHANGED refused
                     \/ /\ ~ Storable(e)
                        /\ refused' = refused \cup NewBytes(e.why)
                        /\ Become(t, rest)
                        /\ UNCHANGED <<inputs, minex, bitmapBits>>
           \/ /\ th.results = {}
              /\ Become(t, Idle("iter"))
              /\ UNCHANGED <<inputs, minex, bitmapBits, refused>>
        /\ UNCHANGED <<favqueue, global, local, files, disk>>

Step(t) == \/ Start(t) \/ RemoveFile(t) \/ Finish(t) \/ Generate(t) \/ Schedule(t)
           \/ \E dir \in {"seeds", "imports"} : perform_import(t, dir)
           \/ perform_havoc(t) \/ perform_min(t)
           \/ CheckNewBytes(t) \/ AddInput(t) \/ CalcFavBits(t) \/ StoreFavqueue(t)
           \/ MinNext(t) \/ MinRandom(t) \/ MinStep(t) \/ AddResult(t)

Next == \E t \in Threads : Step(t)

Spec == Init /\ [][Next]_vars

\* The threads run on cores of their own, and executions end (QEMU's timeout).
FairSpec == Spec /\ \A t \in Threads : WF_vars(Step(t))
----------------------------------------------------------------------------
(***************************************************************************)
(* Properties.                                                             *)
(***************************************************************************)

Reason  == [tag : {"bit", "ijon", "imported"}, index : Bits \cup Slots \cup {0}, old : Nat]
Entry   == [data : Inputs, bits : SUBSET Bits, max : [Slots -> Nat], exit : Exits,
            used : 0..MaxLen, why : SUBSET Reason, seed : BOOLEAN, state : {"Minimize", "Havoc"}]
Bitmaps == [Kinds -> [bits : SUBSET Bits, max : [Slots -> Nat]]]

\* The queue, the bitmaps and the threads have their types; only inputs that
\* ended normally or crashed are stored, and none without nodes.
TypeOK == /\ inputs \in Seq(Entry)
          /\ \A i \in DOMAIN inputs : /\ inputs[i].data # <<>>
                                    /\ inputs[i].exit \in {"normal", "crash"}
          /\ DOMAIN minex \subseteq Bits \cup Slots
          /\ bitmapBits \subseteq Bits
          /\ global \in Bitmaps
          /\ local \in [Threads -> Bitmaps]
          /\ files \in [{"seeds", "imports"} -> Nat]
          /\ \A t \in Threads : thread[t].left \in 0..HavocRuns

\* An input later than the j-th raised the ijon slot of index i.
IjonAfter(i, j) == \E k \in DOMAIN inputs : k > j /\ i \in Indexes(inputs[k].why, "ijon")

\* The example of a bit covers it, or was stored for the ijon slot of the same
\* index, which shares its place.  No input found to cover the bit is shorter,
\* whichever thread found or minimized it, unless the slot was raised since.
MinExample ==
    \A i \in Bits \cap DOMAIN minex :
        /\ \/ i \in inputs[minex[i]].bits
           \/ i \in Indexes(inputs[minex[i]].why, "ijon")
        /\ \A j \in DOMAIN inputs :
              i \in Indexes(inputs[j].why, "bit") /\ ~ IjonAfter(i, j) =>
                  Len(inputs[minex[i]].data) <= Len(inputs[j].data)

\* A new byte is confirmed and stored by one thread only.
ClaimedOnce ==
    \A t, u \in Threads :
        (t # u /\ At(t, "add") /\ At(u, "add") /\ thread[t].run.out.exit = thread[u].run.out.exit)
            => Indexes(thread[t].why, "bit") \cap Indexes(thread[u].why, "bit") = {}

\* For a deterministic target, coverage claimed in the bitmap of normal runs is
\* in the queue or on its way there, but for what the empty input covers.
ClaimIsKept ==
    \A i \in global["normal"].bits :
        \/ \E j \in DOMAIN inputs : i \in inputs[j].bits
        \/ \E t \in Threads : At(t, "add") /\ i \in thread[t].run.out.bits
        \/ \E out \in Outcomes(<<>>) : i \in out.bits

\* For a deterministic target, a stored input does what was recorded for it,
\* minimized or not, and uses the nodes recorded or all of them but the last.
EntryReplays ==
    \A i \in DOMAIN inputs : \E out \in Outcomes(inputs[i].data) :
        /\ inputs[i].bits = out.bits /\ inputs[i].max = out.max
        /\ inputs[i].exit = out.exit
        /\ inputs[i].used \in {out.used, out.used + 1}

\* While an input is minimized, each of its new bytes has a graph that still
\* covers it, was stored for it, and is not longer than the input.
MinimizerSound ==
    \A t \in Threads : thread[t].min # None =>
        LET g == thread[t].min.graphs
        IN  \A r \in DOMAIN g : /\ r \in g[r].why
                                /\ still_valid(r, g[r])
                                /\ Len(g[r].data) <= Len(inputs[thread[t].entry].data)

\* Some thread will still write a test case for reason r.
Pending(r) ==
    \/ \E i \in DOMAIN inputs : inputs[i].state = "Minimize" /\ r \in inputs[i].why
    \/ \E t \in Threads :
          \/ thread[t].min # None /\ r \in DOMAIN thread[t].min.graphs
          \/ \E e \in thread[t].results : r \in e.why
          \/ thread[t].id # 0 /\ thread[t].pc \in {"calc", "store"} /\ r \in inputs[thread[t].id].why

\* A new byte of a stored input is covered by a file of corpus/, or the input is
\* still to be minimized, or queue.add refused the graph it was minimized to.
DiskCovers ==
    \A i \in DOMAIN inputs : \A r \in NewBytes(inputs[i].why) :
        \/ \E f \in disk : \E out \in Outcomes(f.data) : still_valid(r, out)
        \/ Pending(r)
        \/ r \in refused

\* For a deterministic target no coverage is lost on its way from the claim in
\* the global bitmap through queue and minimizer to a file of corpus/, whichever
\* threads take part, but for graphs that queue.add refused.
CoverageKept == ClaimIsKept /\ DiskCovers

\* With a single thread, the favourites cover what all the inputs stored for
\* new bytes cover, and have its largest ijon values, whenever no input is just
\* being added.
FavCovers ==
    (\A t \in Threads : thread[t].pc \notin {"calc", "store"}) =>
        \A i \in DOMAIN inputs : NewBytes(inputs[i].why) # {} =>
            /\ \A b \in inputs[i].bits : \E j \in favqueue : b \in inputs[j].bits
            /\ \A s \in Slots : inputs[i].max[s] > 0 =>
                  \E j \in favqueue : inputs[j].max[s] >= inputs[i].max[s]

\* exit_after_first_crash: once a crash is stored every thread returns.
CrashEnds ==
    (ExitAfterCrash /\ \E i \in DOMAIN inputs : inputs[i].exit = "crash")
        ~> (\A t \in Threads : At(t, "done"))
=============================================================================
