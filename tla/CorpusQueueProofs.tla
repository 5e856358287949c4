------------------------- MODULE CorpusQueueProofs -------------------------
(***************************************************************************)
(* What the threads' steps keep true of the shared corpus, for any number  *)
(* of threads, any target, any bounds of the minimizer.                    *)
(***************************************************************************)
EXTENDS CorpusQueue, SequenceTheorems, TLAPS

\* A reason names an index of the map it is about.
ReasonOK(r) == /\ r \in Reason
               /\ r.tag = "bit" => r.index \in Bits
               /\ r.tag = "ijon" => r.index \in Slots

\* The exit reason is that of an execution, the coverage that of the last one;
\* the nodes used are counted with or without the one that took a snapshot.
Recorded(e) == /\ e.used <= Len(e.data)
               /\ \E out, last \in Outcomes(e.data) :
                     /\ e.exit = out.exit /\ e.used \in {out.used, out.used + 1}
                     /\ e.bits = last.bits /\ e.max = last.max

\* An input has every byte it is stored for.
EntryOK(e) == /\ e \in Entry
              /\ \A r \in e.why : ReasonOK(r) /\ still_valid(r, e)
              /\ Recorded(e)

\* The state of the minimizer: data that MinOK describes are left open.
IsMin(m) == m \in [graphs : {m.graphs}, todo : SUBSET DOMAIN m.graphs, cur : {m.cur},
                   phase : {"first", "next", "random", "step"}, remaining : Int,
                   failures : Nat, updated : BOOLEAN, idx : Int]

\* Every graph of the minimizer still has the byte it is kept for, and is no
\* longer than len.
GraphsOK(g, len) ==
    /\ g = [r \in DOMAIN g |-> g[r]]
    /\ \A r \in DOMAIN g : /\ EntryOK(g[r])
                           /\ r \in g[r].why /\ has_new_byte(r)
                           /\ Len(g[r].data) <= len

\* The state of a minimization of an input of length len.
MinOK(m, len) == /\ IsMin(m)
                 /\ m.phase \in {"random", "step"} => m.cur \in DOMAIN m.graphs
                 /\ GraphsOK(m.graphs, len)

\* An execution with its first and its last result; both are outcomes of its
\* input, the first as it was counted.
Run == [data : Inputs, seed : BOOLEAN, out : Results, last : Results]
RunOK(run) == run \in Run /\ run.out \in Behind(run.data) /\ run.last \in Behind(run.data)

\* Places outside perform_run, and the callers perform_run returns to.
Idles   == {"start", "iter", "remove", "minimize", "done"}
Callers == {"iter", "file", "havoc", "min"}

\* The fields of a thread; data that FrameOK and PlaceOK describe are left open.
IsThread(th) ==
    th \in [pc : Idles \cup {"havoc", "min", "check", "add", "calc", "store", "results"},
            ret : Callers \cup {"result"}, entry : Nat, left : 0..HavocRuns,
            run : {th.run}, why : {th.why}, fav : {th.fav}, id : Nat, min : {th.min},
            results : {th.results}]

\* What holds of a thread wherever it is.
FrameOK(th, in) ==
    /\ IsThread(th)
    /\ th.fav \subseteq DOMAIN in
    /\ \A e \in th.results : EntryOK(e)
    /\ th.ret # "result" => th.results = {} /\ th.id = 0
    /\ th.ret = "min" => /\ th.entry \in DOMAIN in
                         /\ MinOK(th.min, Len(in[th.entry].data))
    /\ th.ret # "min" => th.min = None

\* What holds of a thread at each place.
PlaceOK(th, in) ==
    /\ th.pc \in Idles => th.ret = "iter"
    /\ th.pc = "minimize" => th.entry \in DOMAIN in
    /\ th.pc = "havoc" => th.ret = "havoc"
    /\ th.pc = "min" => th.ret = "min"
    /\ th.pc = "results" => th.ret = "result"
    /\ th.pc \in {"check", "add"} => th.ret # "result"
    /\ (th.pc \in {"check", "add"} \/ (th.pc \in {"calc", "store"} /\ th.ret # "result"))
          => RunOK(th.run)
    /\ th.pc \in {"check", "add", "calc", "store"} /\ th.ret = "min" => th.min.phase # "next"
    /\ th.pc \in {"calc", "store"} /\ th.ret = "result" => th.id \in DOMAIN in
    /\ th.pc = "add" => /\ th.why # {}
                        /\ \A r \in th.why : ReasonOK(r) /\ still_valid(r, th.run.out)

\* A thread, and all of them.
ThreadOK(th, in) == FrameOK(th, in) /\ PlaceOK(th, in)

ThreadsOK == /\ thread = [t \in Threads |-> thread[t]]
             /\ \A t \in Threads : ThreadOK(thread[t], inputs)

\* The corpus: entries that hold what they are stored for, by kind of exit.
QueueOK == /\ inputs \in Seq(Entry)
           /\ \A i \in DOMAIN inputs : /\ EntryOK(inputs[i])
                                       /\ inputs[i].data # <<>>
                                       /\ inputs[i].exit \in {"normal", "crash"}
           /\ favqueue \subseteq DOMAIN inputs

\* Every index of the bitmap of the queue has an example in the corpus.
ExamplesOK == /\ minex = [i \in DOMAIN minex |-> minex[i]]
              /\ DOMAIN minex \subseteq Bits \cup Slots
              /\ \A i \in DOMAIN minex : minex[i] \in DOMAIN inputs
              /\ bitmapBits \subseteq Bits \cap DOMAIN minex

\* The shared and the local bitmaps.
BitmapsOK == global \in Bitmaps /\ local \in [Threads -> Bitmaps]

\* A file is only removed after it was imported.
FilesOK == /\ files \in [{"seeds", "imports"} -> Nat]
           /\ \A t \in Threads : (thread[t].ret = "file" \/ thread[t].pc = "remove") =>
                 t = Importer /\ (files["seeds"] > 0 \/ files["imports"] > 0)

\* The inductive invariant of every theorem below.
Inv == QueueOK /\ ExamplesOK /\ BitmapsOK /\ FilesOK /\ ThreadsOK

\* What a thread is about to add for a bit is in the shared bitmap already.
ClaimsOK ==
    \A t \in Threads : At(t, "add") =>
        \A i \in Indexes(thread[t].why, "bit") :
            /\ thread[t].run.out.exit \in Kinds
            /\ i \in global[thread[t].run.out.exit].bits

----------------------------------------------------------------------------
(***************************************************************************)
(* Inputs and the graphs the minimizer makes of them.                      *)
(***************************************************************************)

\* Inputs are the sequences of packets up to the bound.
LEMMA InputsAreSeqs ==
    ASSUME NEW s
    PROVE  s \in Inputs <=> s \in Seq(Packets) /\ Len(s) <= MaxLen
<1>1. ASSUME s \in Inputs
      PROVE  s \in Seq(Packets) /\ Len(s) <= MaxLen
  <2>1. PICK m \in 0..MaxLen : s \in [1..m -> Packets]
    BY <1>1 DEF Inputs, SeqOf
  <2>2. m \in Nat /\ m <= MaxLen
    BY CorpusQueueAssumption
  <2>3. s \in Seq(Packets)
    BY <2>1, <2>2, SeqDef
  <2>4. Len(s) = m
    BY <2>1, <2>2, <2>3, LenProperties
  <2> QED  BY <2>2, <2>3, <2>4
<1>2. ASSUME s \in Seq(Packets), Len(s) <= MaxLen
      PROVE  s \in Inputs
  <2>1. Len(s) \in 0..MaxLen /\ s \in [1..Len(s) -> Packets]
    BY <1>2, LenProperties, CorpusQueueAssumption
  <2> QED  BY <2>1 DEF Inputs, SeqOf
<1> QED  BY <1>1, <1>2

\* The used part of an input is an input.
LEMMA PrefixIsInput ==
    ASSUME NEW s \in Inputs, NEW n \in 0..Len(s)
    PROVE  SubSeq(s, 1, n) \in Inputs
<1>1. s \in Seq(Packets) /\ Len(s) <= MaxLen /\ Len(s) \in Nat
  BY InputsAreSeqs, LenProperties
<1>2. \A i \in 1..n : s[i] \in Packets
  BY <1>1, ElementOfSeq
<1>3. SubSeq(s, 1, n) \in Seq(Packets) /\ Len(SubSeq(s, 1, n)) = IF 1 <= n THEN n - 1 + 1 ELSE 0
  BY <1>1, <1>2, SubSeqProperties
<1>4. Len(SubSeq(s, 1, n)) <= MaxLen
  BY <1>1, <1>3, CorpusQueueAssumption
<1> QED  BY <1>3, <1>4, InputsAreSeqs

\* What is left of an input without the nodes from a + 1 to b - 1 is an input.
LEMMA CutIsInput ==
    ASSUME NEW s \in Inputs, NEW a \in 0..Len(s), NEW b \in (a + 1)..(Len(s) + 1)
    PROVE  SubSeq(s, 1, a) \o SubSeq(s, b, Len(s)) \in Inputs
<1>1. s \in Seq(Packets) /\ Len(s) <= MaxLen /\ Len(s) \in Nat
  BY InputsAreSeqs, LenProperties
<1>2. /\ \A i \in 1..a : s[i] \in Packets
      /\ \A i \in b..Len(s) : s[i] \in Packets
  BY <1>1, ElementOfSeq
<1> DEFINE p == SubSeq(s, 1, a)
           q == SubSeq(s, b, Len(s))
<1>3. p \in Seq(Packets) /\ Len(p) = a
  <2>1. p \in Seq(Packets) /\ Len(p) = IF 1 <= a THEN a - 1 + 1 ELSE 0
    BY <1>1, <1>2, SubSeqProperties
  <2> QED  BY <1>1, <2>1
<1>4. q \in Seq(Packets) /\ Len(q) = Len(s) - b + 1
  <2>1. q \in Seq(Packets) /\ Len(q) = IF b <= Len(s) THEN Len(s) - b + 1 ELSE 0
    BY <1>1, <1>2, SubSeqProperties
  <2> QED  BY <1>1, <2>1
<1> HIDE DEF p, q
<1>5. p \o q \in Seq(Packets) /\ Len(p \o q) = Len(p) + Len(q)
  BY <1>3, <1>4, ConcatProperties
<1>6. Len(p \o q) <= MaxLen
  BY <1>1, <1>3, <1>4, <1>5, CorpusQueueAssumption
<1>7. p \o q \in Inputs
  BY <1>5, <1>6, InputsAreSeqs
<1> QED  BY <1>7 DEF p, q

\* Every graph the minimizer tries is an input.
LEMMA CandidatesAreInputs ==
    ASSUME NEW s \in Inputs
    PROVE  /\ Blocks(s) \subseteq Inputs
           /\ \A i \in Int : DropNode(s, i) \in Inputs
<1>1. Len(s) \in Nat /\ DOMAIN s = 1..Len(s)
  BY InputsAreSeqs, LenProperties
<1>2. ASSUME NEW k \in Nat \ {0}, NEW a \in 0..(Len(s) - k - 1)
      PROVE  Without(s, a, k) \in Inputs
  <2>1. a \in 0..Len(s) /\ a + k + 1 \in (a + 1)..(Len(s) + 1)
    BY <1>1
  <2> QED  BY <2>1, CutIsInput DEF Without
<1>3. Blocks(s) \subseteq Inputs
  BY <1>1, <1>2 DEF Blocks
<1>4. ASSUME NEW i \in 1..Len(s)
      PROVE  RemoveAt(s, i) \in Inputs
  <2>1. i - 1 \in 0..Len(s) /\ i + 1 \in (i - 1 + 1)..(Len(s) + 1)
    BY <1>1
  <2> QED  BY <2>1, CutIsInput DEF RemoveAt
<1> QED  BY <1>1, <1>3, <1>4 DEF DropNode
----------------------------------------------------------------------------
(***************************************************************************)
(* Bitmaps, reasons and entries.                                           *)
(***************************************************************************)

\* The bitmap of one exit kind.
Bitmap == [bits : SUBSET Bits, max : [Slots -> Nat]]

\* check_new_bytes gives reasons the execution has.
LEMMA ReasonsHold ==
    ASSUME NEW b \in Bitmap, NEW out \in Results, NEW r \in Reasons(b, out)
    PROVE  ReasonOK(r) /\ still_valid(r, out) /\ has_new_byte(r)
<1>1. out.bits \subseteq Bits /\ out.max \in [Slots -> Nat] /\ b.max \in [Slots -> Nat]
  BY DEF Results, Bitmap
<1>2. CASE \E i \in out.bits \ b.bits : r = Bit(i)
  BY <1>1, <1>2 DEF Bit, ReasonOK, Reason, still_valid, has_new_byte
<1>3. CASE \E s \in Slots : out.max[s] > b.max[s] /\ r = IjonMax(s, b.max[s])
  <2>1. PICK s \in Slots : out.max[s] > b.max[s] /\ r = IjonMax(s, b.max[s])
    BY <1>3
  <2>2. b.max[s] \in Nat
    BY <1>1
  <2> QED  BY <2>1, <2>2 DEF IjonMax, ReasonOK, Reason, still_valid, has_new_byte
<1> QED  BY <1>2, <1>3 DEF Reasons

\* check_new_bytes keeps the types of the bitmaps, and only adds to them.
LEMMA CheckedBitmaps ==
    ASSUME NEW bs \in Bitmaps, NEW out \in Results
    PROVE  /\ Checked(bs, out) \in Bitmaps
           /\ \A k \in Kinds : Checked(bs, out)[k].bits =
                  IF k = out.exit THEN bs[k].bits \cup out.bits ELSE bs[k].bits
<1>1. out.bits \subseteq Bits /\ out.max \in [Slots -> Nat]
  BY DEF Results
<1>2. ASSUME NEW k \in Kinds
      PROVE  /\ Merged(bs[k], out) \in Bitmap
             /\ Merged(bs[k], out).bits = bs[k].bits \cup out.bits
  <2>1. bs[k] \in Bitmap
    BY DEF Bitmaps, Bitmap
  <2>2. bs[k].bits \subseteq Bits /\ bs[k].max \in [Slots -> Nat]
    BY <2>1 DEF Bitmap
  <2> QED  BY <1>1, <2>2 DEF Merged, Bitmap
<1> QED  BY <1>2 DEF Checked, Bitmaps, Bitmap

\* An execution's results.
LEMMA OutcomeType ==
    ASSUME NEW data \in Inputs, NEW out \in Outcomes(data)
    PROVE  out \in Results /\ out.used <= Len(data)
BY CorpusQueueAssumption

\* ... and the results as they are counted behind a snapshot.
LEMMA CountedType ==
    ASSUME NEW data \in Inputs, NEW out \in Behind(data)
    PROVE  /\ out \in Results /\ out.used <= Len(data)
           /\ \E o \in Outcomes(data) :
                 /\ out.bits = o.bits /\ out.max = o.max /\ out.exit = o.exit
                 /\ out.used \in {o.used, o.used + 1}
<1>1. CASE out \in Outcomes(data)
  BY <1>1, OutcomeType
<1>2. CASE out \notin Outcomes(data)
  <2>1. PICK o \in Outcomes(data) : out = Counted(data, o)
    BY <1>2 DEF Behind
  <2>2. o \in Results /\ o.used <= Len(data) /\ Len(data) \in 0..MaxLen
    BY OutcomeType, InputsAreSeqs
  <2> DEFINE n == IF o.used < Len(data) THEN o.used + 1 ELSE o.used
  <2>3. n \in 0..MaxLen /\ n <= Len(data) /\ n \in {o.used, o.used + 1}
    BY <2>2, CorpusQueueAssumption DEF Results
  <2>4. out = [o EXCEPT !.used = n]
    BY <2>1 DEF Counted
  <2> HIDE DEF n
  <2> QED  BY <2>2, <2>3, <2>4 DEF Results
<1> QED  BY <1>1, <1>2

\* Input::new: an entry, when the coverage given has its reasons.
LEMMA InputIsEntry ==
    ASSUME NEW run, RunOK(run), NEW cov \in {run.out, run.last},
           NEW why, \A r \in why : ReasonOK(r) /\ still_valid(r, cov),
           NEW state \in {"Minimize", "Havoc"}
    PROVE  /\ EntryOK(Input(run, cov, why, state))
           /\ Input(run, cov, why, state).data = run.data
           /\ Input(run, cov, why, state).why = why
           /\ Input(run, cov, why, state).bits = cov.bits
           /\ Input(run, cov, why, state).exit = run.out.exit
           /\ Input(run, cov, why, state).state = state
<1> DEFINE e == Input(run, cov, why, state)
<1>1. /\ run.data \in Inputs /\ run.seed \in BOOLEAN
      /\ run.out \in Behind(run.data) /\ cov \in Behind(run.data)
  BY DEF RunOK, Run
<1>2. cov \in Results /\ run.out \in Results /\ run.out.used <= Len(run.data)
  BY <1>1, CountedType
<1>3. /\ e.data = run.data /\ e.bits = cov.bits /\ e.max = cov.max /\ e.why = why
      /\ e.exit = run.out.exit /\ e.used = run.out.used /\ e.state = state /\ e.seed = run.seed
  BY DEF Input
<1>4. e \in Entry
  <2>1. why \in SUBSET Reason
    BY DEF ReasonOK
  <2> QED  BY <1>1, <1>2, <2>1 DEF Input, Entry, Results
<1> HIDE DEF e
<1>5. Recorded(e)
  <2>1. PICK out \in Outcomes(run.data) :
            run.out.exit = out.exit /\ run.out.used \in {out.used, out.used + 1}
    BY <1>1, CountedType
  <2>2. PICK last \in Outcomes(run.data) : cov.bits = last.bits /\ cov.max = last.max
    BY <1>1, CountedType
  <2> QED  BY <1>2, <1>3, <2>1, <2>2 DEF Recorded
<1>6. \A r \in e.why : ReasonOK(r) /\ still_valid(r, e)
  BY <1>3 DEF still_valid
<1>7. EntryOK(e)
  BY <1>4, <1>5, <1>6 DEF EntryOK
<1> QED  BY <1>3, <1>7 DEF e

\* The part of an entry that was read is an input.
LEMMA UsedIsInput ==
    ASSUME NEW e, EntryOK(e)
    PROVE  SubSeq(e.data, 1, e.used) \in Inputs
<1>1. e.data \in Inputs /\ e.used \in Nat
  BY CorpusQueueAssumption DEF EntryOK, Entry
<1>2. Len(e.data) \in Nat
  BY <1>1, InputsAreSeqs, LenProperties
<1>3. e.used <= Len(e.data)
  BY DEF EntryOK, Recorded
<1> QED  BY <1>1, <1>2, <1>3, PrefixIsInput

----------------------------------------------------------------------------
(***************************************************************************)
(* The minimizer.                                                          *)
(***************************************************************************)

\* update_min_graphs replaces graphs by shorter ones that still have their byte.
LEMMA UpdatedGraphs ==
    ASSUME NEW g, NEW len \in Nat, GraphsOK(g, len), NEW run, RunOK(run)
    PROVE  /\ GraphsOK(update_min_graphs(g, run), len)
           /\ DOMAIN update_min_graphs(g, run) = DOMAIN g
<1> DEFINE better == {r \in DOMAIN g : /\ still_valid(r, run.last)
                                       /\ Len(g[r].data) > Len(run.data)}
           graph  == Input(run, run.last, better, "Havoc")
           u      == [r \in DOMAIN g |-> IF r \in better THEN graph ELSE g[r]]
<1>1. update_min_graphs(g, run) = u
  BY DEF update_min_graphs
<1>2. \A r \in DOMAIN g : /\ EntryOK(g[r]) /\ r \in g[r].why /\ has_new_byte(r)
                          /\ Len(g[r].data) <= len
  BY DEF GraphsOK
<1>3. \A r \in better : ReasonOK(r) /\ still_valid(r, run.last)
  BY <1>2 DEF EntryOK
<1>4. EntryOK(graph) /\ graph.data = run.data /\ graph.why = better
  <2> HIDE DEF better
  <2> QED  BY <1>3, InputIsEntry
<1>5. Len(run.data) \in Nat
  BY InputsAreSeqs, LenProperties DEF RunOK, Run
<1>6. ASSUME NEW r \in DOMAIN g
      PROVE  Len(g[r].data) \in Nat
  <2>1. g[r].data \in Inputs
    BY <1>2 DEF EntryOK, Entry
  <2> QED  BY <2>1, InputsAreSeqs, LenProperties
<1> HIDE DEF graph
<1>7. DOMAIN u = DOMAIN g /\ \A r \in DOMAIN g : u[r] = IF r \in better THEN graph ELSE g[r]
  OBVIOUS
<1>8. ASSUME NEW r \in DOMAIN g
      PROVE  /\ EntryOK(u[r]) /\ r \in u[r].why /\ has_new_byte(r)
             /\ Len(u[r].data) <= len
  BY <1>2, <1>4, <1>5, <1>6, <1>7
<1>9. u = [r \in DOMAIN u |-> u[r]]
  OBVIOUS
<1> HIDE DEF u
<1>10. GraphsOK(u, len)
  BY <1>7, <1>8, <1>9 DEF GraphsOK
<1> QED  BY <1>1, <1>7, <1>10

\* A run of the minimizer keeps the bytes it works for and the graphs' promise.
LEMMA MinRunKeeps ==
    ASSUME NEW m, NEW len \in Nat, MinOK(m, len), m.phase # "next", NEW run, RunOK(run)
    PROVE  /\ MinOK(MinRunDone(m, run), len)
           /\ DOMAIN MinRunDone(m, run).graphs = DOMAIN m.graphs
<1> DEFINE g == update_min_graphs(m.graphs, run)
<1>1. GraphsOK(g, len) /\ DOMAIN g = DOMAIN m.graphs
  BY UpdatedGraphs DEF MinOK
<1>2. IsMin(m) /\ (m.phase \in {"random", "step"} => m.cur \in DOMAIN m.graphs)
  BY DEF MinOK
<1>3. /\ m.todo \subseteq DOMAIN m.graphs /\ m.remaining \in Int /\ m.failures \in Nat
      /\ m.updated \in BOOLEAN /\ m.idx \in Int
      /\ m.phase \in {"first", "random", "step"}
  BY <1>2 DEF IsMin
<1> HIDE DEF g
<1> DEFINE res == g # m.graphs
<1>4. CASE m.phase = "first"
  <2> DEFINE n == [m EXCEPT !.graphs = g, !.phase = "next"]
  <2>1. MinRunDone(m, run) = n
    BY <1>4 DEF MinRunDone, g
  <2>2. IsMin(n) /\ n.graphs = g /\ n.phase = "next"
    BY <1>1, <1>2, <1>3 DEF IsMin
  <2> HIDE DEF n
  <2> QED  BY <1>1, <2>1, <2>2 DEF MinOK
<1>5. CASE m.phase = "random"
  <2> DEFINE up == m.updated \/ res
             fl == IF res THEN 0 ELSE m.failures + 1
             n  == [m EXCEPT !.graphs = g, !.updated = up, !.failures = fl]
  <2>1. MinRunDone(m, run) = n
    BY <1>5, <1>2 DEF MinRunDone, g, IsMin
  <2>3. up \in BOOLEAN
    OBVIOUS
  <2>4. fl \in Nat
    BY <1>3
  <2> HIDE DEF up, fl
  <2>2. IsMin(n) /\ n.graphs = g /\ n.phase = m.phase /\ n.cur = m.cur
    BY <1>1, <1>2, <1>3, <2>3, <2>4 DEF IsMin
  <2> HIDE DEF n
  <2> QED  BY <1>1, <1>2, <2>1, <2>2 DEF MinOK
<1>6. CASE m.phase = "step"
  <2> DEFINE n == [m EXCEPT !.graphs = g, !.updated = res]
  <2>1. MinRunDone(m, run) = IF m.updated THEN m ELSE n
    BY <1>6, <1>2 DEF MinRunDone, g
  <2>2. IsMin(n) /\ n.graphs = g /\ n.phase = m.phase /\ n.cur = m.cur
    BY <1>1, <1>2, <1>3 DEF IsMin
  <2> HIDE DEF n
  <2> QED  BY <1>1, <1>2, <2>1, <2>2 DEF MinOK
<1> QED  BY <1>3, <1>4, <1>5, <1>6

\* Only the state of the entry changes when it is minimized.
LEMMA HavocEntry ==
    ASSUME NEW e, EntryOK(e), NEW h, h = [e EXCEPT !.state = "Havoc"]
    PROVE  /\ EntryOK(h) /\ h.data = e.data /\ h.bits = e.bits /\ h.max = e.max
           /\ h.exit = e.exit /\ h.used = e.used /\ h.why = e.why /\ h.seed = e.seed
<1>1. e \in Entry
  BY DEF EntryOK
<1>2. /\ h \in Entry /\ h.data = e.data /\ h.bits = e.bits /\ h.max = e.max /\ h.exit = e.exit
      /\ h.used = e.used /\ h.why = e.why /\ h.seed = e.seed
  BY <1>1 DEF Entry
<1>3. EntryOK(h)
  BY <1>2 DEF EntryOK, Recorded, still_valid
<1> QED  BY <1>2, <1>3

\* minimize_new_bytes: the entry itself has all its new bytes.
LEMMA MinimizeStarts ==
    ASSUME NEW e, EntryOK(e)
    PROVE  /\ MinOK(minimize_new_bytes(e), Len(e.data))
           /\ minimize_new_bytes(e).phase = "first"
           /\ DOMAIN minimize_new_bytes(e).graphs = NewBytes(e.why)
<1> DEFINE h == [e EXCEPT !.state = "Havoc"]
           g == [r \in NewBytes(e.why) |-> h]
           m == minimize_new_bytes(e)
<1>1. e \in Entry
  BY DEF EntryOK
<1>2. EntryOK(h) /\ h.data = e.data /\ h.why = e.why
  BY HavocEntry
<1>3. Len(e.data) \in Nat
  <2>1. e.data \in Inputs
    BY <1>1 DEF Entry
  <2> QED  BY <2>1, InputsAreSeqs, LenProperties
<1> HIDE DEF h
<1>5. DOMAIN g = NewBytes(e.why) /\ \A r \in DOMAIN g : g[r] = h
  OBVIOUS
<1>6. g = [r \in DOMAIN g |-> g[r]]
  OBVIOUS
<1>7. \A r \in DOMAIN g : r \in e.why /\ has_new_byte(r)
  BY DEF NewBytes
<1>8. m = [graphs |-> g, todo |-> NewBytes(e.why), cur |-> None, phase |-> "first",
           remaining |-> 0, failures |-> 0, updated |-> FALSE, idx |-> 0]
  BY DEF minimize_new_bytes, h
<1> HIDE DEF g, m
<1>9. GraphsOK(g, Len(e.data))
  BY <1>2, <1>3, <1>5, <1>6, <1>7 DEF GraphsOK
<1>10. IsMin(m) /\ m.graphs = g /\ m.phase = "first"
  BY <1>5, <1>8 DEF IsMin
<1>11. MinOK(m, Len(e.data))
  BY <1>9, <1>10 DEF MinOK
<1> QED  BY <1>5, <1>10, <1>11 DEF m

----------------------------------------------------------------------------
(***************************************************************************)
(* The threads.                                                            *)
(***************************************************************************)

\* Nothing is under way in an idle thread.
LEMMA IdleIsOK ==
    ASSUME NEW in, NEW pc \in Idles \ {"minimize"}
    PROVE  ThreadOK(Idle(pc), in)
<1> DEFINE th == Idle(pc)
<1>1. /\ th.pc = pc /\ th.ret = "iter" /\ th.entry = 0 /\ th.left = 0 /\ th.run = None
      /\ th.why = {} /\ th.fav = {} /\ th.id = 0 /\ th.min = None /\ th.results = {}
  BY DEF Idle
<1>2. IsThread(th)
  <2>1. 0 \in 0..HavocRuns
    BY CorpusQueueAssumption
  <2> QED  BY <2>1 DEF Idle, IsThread, Callers
<1> HIDE DEF th
<1>3. ThreadOK(th, in)
  BY <1>1, <1>2 DEF ThreadOK, FrameOK, PlaceOK, Idles
<1> QED  BY <1>3 DEF th

\* What becomes of a thread th when it has performed a run.
After(th, n, in) == /\ ThreadOK(n, in)
                    /\ n.pc \in {"check", "iter", "remove", "havoc", "min"}
                    /\ (n.ret = "file" \/ n.pc = "remove") => th.ret = "file"
                    /\ th.ret = "min" => /\ n.ret = "min"
                                         /\ DOMAIN n.min.graphs = DOMAIN th.min.graphs

\* A run returns to whoever called perform_run.
LEMMA ReturnedIsOK ==
    ASSUME NEW in \in Seq(Entry), NEW th, FrameOK(th, in), th.ret # "result",
           RunOK(th.run), th.ret = "min" => th.min.phase # "next"
    PROVE  After(th, Returned(th), in) /\ Returned(th).pc # "check"
<1> DEFINE n == Returned(th)
<1>1. /\ IsThread(th) /\ th.ret \in {"iter", "file", "havoc", "min"} /\ th.left \in 0..HavocRuns
      /\ th.results = {} /\ th.id = 0 /\ (th.ret # "min" => th.min = None)
      /\ th.left \in Int
  BY CorpusQueueAssumption DEF FrameOK, IsThread, Callers
<1>2. CASE th.ret \in {"iter", "file"}
  <2>1. n = Idle(IF th.ret = "iter" THEN "iter" ELSE "remove")
    BY <1>2 DEF Returned
  <2>2. n.ret = "iter" /\ n.pc = IF th.ret = "iter" THEN "iter" ELSE "remove"
    BY <2>1 DEF Idle
  <2>3. ThreadOK(n, in)
    BY <2>1, IdleIsOK DEF Idles
  <2> QED  BY <1>2, <2>2, <2>3 DEF After
<1>3. CASE th.ret = "havoc"
  <2>1. CASE th.left > 1
    <3>1. n = [th EXCEPT !.pc = "havoc", !.left = th.left - 1, !.run = None,
                         !.why = {}, !.fav = {}]
      BY <1>1, <1>3, <2>1 DEF Returned, IsThread
    <3>2. th.left - 1 \in 0..HavocRuns
      BY <1>1, <2>1, CorpusQueueAssumption
    <3>3. /\ IsThread(n) /\ n.pc = "havoc" /\ n.ret = th.ret /\ n.fav = {} /\ n.id = th.id
          /\ n.min = th.min /\ n.results = th.results
      BY <1>1, <3>1, <3>2 DEF IsThread
    <3> HIDE DEF n
    <3>4. ThreadOK(n, in)
      BY <1>1, <1>3, <3>3 DEF ThreadOK, FrameOK, PlaceOK, Idles
    <3> QED  BY <1>3, <3>3, <3>4 DEF n, After
  <2>2. CASE ~ (th.left > 1)
    <3>1. n = Idle("iter")
      BY <1>3, <2>2 DEF Returned
    <3>2. n.ret = "iter" /\ n.pc = "iter"
      BY <3>1 DEF Idle
    <3>3. ThreadOK(n, in)
      BY <3>1, IdleIsOK DEF Idles
    <3> QED  BY <1>3, <3>2, <3>3 DEF After
  <2> QED  BY <2>1, <2>2
<1>4. CASE th.ret = "min"
  <2> DEFINE m == MinRunDone(th.min, th.run)
  <2>1. n = [th EXCEPT !.pc = "min", !.min = m, !.run = None, !.why = {}, !.fav = {}]
    BY <1>1, <1>4 DEF Returned, IsThread
  <2>2. /\ th.entry \in DOMAIN in /\ MinOK(th.min, Len(in[th.entry].data))
    BY <1>4 DEF FrameOK
  <2>3. Len(in[th.entry].data) \in Nat
    <3>1. in[th.entry] \in Entry
      BY <2>2, LenProperties, ElementOfSeq
    <3>2. in[th.entry].data \in Inputs
      BY <3>1 DEF Entry
    <3> QED  BY <3>2, InputsAreSeqs, LenProperties
  <2>4. MinOK(m, Len(in[th.entry].data)) /\ DOMAIN m.graphs = DOMAIN th.min.graphs
    BY <1>4, <2>2, <2>3, MinRunKeeps
  <2> HIDE DEF m
  <2>5. /\ IsThread(n) /\ n.pc = "min" /\ n.ret = th.ret /\ n.fav = {} /\ n.id = th.id
        /\ n.min = m /\ n.results = th.results /\ n.entry = th.entry
    BY <1>1, <2>1 DEF IsThread
  <2> HIDE DEF n
  <2>6. ThreadOK(n, in)
    BY <1>1, <1>4, <2>2, <2>4, <2>5 DEF ThreadOK, FrameOK, PlaceOK, Idles
  <2> QED  BY <1>4, <2>4, <2>5, <2>6 DEF n, After
<1> QED  BY <1>1, <1>2, <1>3, <1>4

\* A thread that may call perform_run.
MayRun(th, in) == /\ FrameOK(th, in) /\ th.ret # "result"
                  /\ th.ret = "min" => th.min.phase # "next"

\* perform_run goes on with the shared bitmaps or returns.
LEMMA RanIsOK ==
    ASSUME NEW in \in Seq(Entry), NEW th, MayRun(th, in), NEW data \in Inputs,
           NEW seed \in BOOLEAN, NEW out \in Behind(data), NEW goOn \in BOOLEAN,
           NEW done,
           done = [th EXCEPT !.run = [data |-> data, seed |-> seed, out |-> out, last |-> out]]
    PROVE  After(th, IF goOn THEN [done EXCEPT !.pc = "check"] ELSE Returned(done), in)
<1> DEFINE run == [data |-> data, seed |-> seed, out |-> out, last |-> out]
           c   == [done EXCEPT !.pc = "check"]
<1>1. RunOK(run)
  BY CountedType DEF RunOK, Run
<1> HIDE DEF run
<1>2. IsThread(th) /\ done = [th EXCEPT !.run = run]
  BY DEF MayRun, FrameOK, run
<1>3. /\ IsThread(done) /\ done.ret = th.ret /\ done.run = run /\ done.entry = th.entry
      /\ done.fav = th.fav /\ done.id = th.id /\ done.min = th.min /\ done.results = th.results
  BY <1>2 DEF IsThread
<1>4. FrameOK(done, in) /\ MayRun(done, in)
  BY <1>3 DEF FrameOK, MayRun
<1>5. After(done, Returned(done), in)
  BY <1>1, <1>3, <1>4, ReturnedIsOK DEF MayRun
<1>6. /\ IsThread(c) /\ c.ret = th.ret /\ c.run = run /\ c.entry = th.entry /\ c.pc = "check"
      /\ c.fav = th.fav /\ c.id = th.id /\ c.min = th.min /\ c.results = th.results
  BY <1>2, <1>3 DEF IsThread
<1> HIDE DEF c
<1>7. ThreadOK(c, in)
  BY <1>1, <1>6 DEF ThreadOK, FrameOK, PlaceOK, MayRun, Idles
<1>8. After(th, c, in)
  BY <1>6, <1>7 DEF After
<1>9. After(th, Returned(done), in)
  BY <1>3, <1>5 DEF After
<1> QED  BY <1>8, <1>9 DEF c

\* perform_run: the thread's own bitmaps and the thread afterwards.
LEMMA PerformRun ==
    ASSUME inputs \in Seq(Entry), BitmapsOK, NEW t \in Threads,
           NEW STATE th, MayRun(th, inputs), NEW STATE data, data \in Inputs,
           NEW STATE seed, seed \in BOOLEAN,
           perform_run(t, th, data, seed)
    PROVE  /\ local' \in [Threads -> Bitmaps]
           /\ \E n : Become(t, n) /\ After(th, n, inputs)
<1> DEFINE done(out) == [th EXCEPT !.run = [data |-> data, seed |-> seed,
                                            out |-> out, last |-> out]]
           goOn(out) == check_new_bytes(local[t], out) # {} \/ seed
           n(out)    == IF goOn(out) THEN [done(out) EXCEPT !.pc = "check"]
                        ELSE Returned(done(out))
<1>1. PICK out \in Behind(data) : /\ local' = [local EXCEPT ![t] = Checked(@, out)]
                                  /\ Become(t, n(out))
  <2>1. Outcomes(data) \subseteq Behind(data)
    BY DEF Behind
  <2> QED  BY <2>1 DEF perform_run
<1>2. out \in Results
  BY CountedType
<1>3. Checked(local[t], out) \in Bitmaps
  BY <1>2, CheckedBitmaps DEF BitmapsOK
<1>4. local' \in [Threads -> Bitmaps]
  BY <1>1, <1>3 DEF BitmapsOK
<1>5. goOn(out) \in BOOLEAN
  OBVIOUS
<1>6. After(th, n(out), inputs)
  <2> DEFINE d == done(out)
             b == goOn(out)
  <2>1. d = [th EXCEPT !.run = [data |-> data, seed |-> seed, out |-> out, last |-> out]]
    OBVIOUS
  <2>2. b \in BOOLEAN
    BY <1>5
  <2> HIDE DEF d, b
  <2>3. After(th, IF b THEN [d EXCEPT !.pc = "check"] ELSE Returned(d), inputs)
    BY <2>1, <2>2, RanIsOK
  <2> QED  BY <2>3 DEF d, b
<1> QED  BY <1>1, <1>4, <1>6

\* The bytes a thread will still store a graph for.
PendingKept(th, n) ==
    /\ th.ret = "min" => \A r \in DOMAIN th.min.graphs :
                            \/ n.ret = "min" /\ r \in DOMAIN n.min.graphs
                            \/ \E e \in n.results : r \in e.why
    /\ th.results \subseteq n.results

\* The actions that leave the shared queue, the disk and the claims alone.
OwnStep(t) == \/ Start(t) \/ RemoveFile(t) \/ Finish(t) \/ Generate(t) \/ Schedule(t)
              \/ \E dir \in {"seeds", "imports"} : perform_import(t, dir)
              \/ perform_havoc(t) \/ MinNext(t) \/ MinRandom(t) \/ MinStep(t)

\* What such an action makes of its thread.
Quietly(t, n) == /\ Become(t, n)
                 /\ ThreadOK(n, inputs)
                 /\ thread[t].pc \notin {"check", "add", "calc", "store"}
                 /\ n.pc \notin {"add", "calc", "store"}
                 /\ PendingKept(thread[t], n)

\* Files: what a step of a thread that removes none has to see to.
LEMMA FilesKept ==
    ASSUME Inv, NEW t \in Threads, NEW n, Become(t, n), files' = files,
           (n.ret = "file" \/ n.pc = "remove") =>
               t = Importer /\ (files["seeds"] > 0 \/ files["imports"] > 0)
    PROVE  FilesOK'
<1>1. \A u \in Threads : thread'[u] = IF u = t THEN n ELSE thread[u]
  BY DEF Become, Inv, ThreadsOK
<1> QED  BY <1>1 DEF Inv, FilesOK

\* A thread between two runs.
LEMMA IdleThread ==
    ASSUME Inv, NEW t \in Threads, thread[t].pc \in Idles
    PROVE  /\ thread[t].ret = "iter" /\ thread[t].results = {}
           /\ thread[t].fav \subseteq DOMAIN inputs
           /\ thread[t].min = None /\ thread[t].id = 0 /\ IsThread(thread[t])
           /\ MayRun(thread[t], inputs)
BY DEF Inv, ThreadsOK, ThreadOK, FrameOK, PlaceOK, MayRun

\* A run of a thread, whoever called it.
LEMMA RunStep ==
    ASSUME Inv, NEW t \in Threads, NEW STATE th, MayRun(th, inputs),
           th.ret = "file" => t = Importer /\ (files["seeds"] > 0 \/ files["imports"] > 0),
           NEW STATE data, data \in Inputs, NEW STATE seed, seed \in BOOLEAN,
           perform_run(t, th, data, seed), files' = files,
           thread[t].pc \notin {"check", "add", "calc", "store"},
           thread[t].results = {},
           thread[t].ret = "min" => th.ret = "min" /\ DOMAIN th.min.graphs = DOMAIN thread[t].min.graphs
    PROVE  FilesOK' /\ local' \in [Threads -> Bitmaps] /\ \E n : Quietly(t, n)
<1>1. inputs \in Seq(Entry) /\ BitmapsOK
  BY DEF Inv, QueueOK
<1>2. local' \in [Threads -> Bitmaps] /\ \E n : Become(t, n) /\ After(th, n, inputs)
  BY <1>1, PerformRun
<1>3. PICK n : Become(t, n) /\ After(th, n, inputs)
  BY <1>2
<1>4. FilesOK'
  BY <1>3, FilesKept DEF After
<1>5. PendingKept(thread[t], n)
  BY <1>3 DEF After, PendingKept
<1>6. Quietly(t, n)
  BY <1>3, <1>5 DEF Quietly, After
<1> QED  BY <1>2, <1>4, <1>6

\* A thread that becomes idle.
LEMMA IdleStep ==
    ASSUME Inv, NEW t \in Threads, NEW STATE pc, pc \in {"start", "iter", "done"},
           thread[t].pc \in Idles, Become(t, Idle(pc))
    PROVE  Quietly(t, Idle(pc)) /\ (files' = files => FilesOK')
<1>1. ThreadOK(Idle(pc), inputs)
  BY IdleIsOK DEF Idles
<1>2. Idle(pc).pc = pc /\ Idle(pc).ret = "iter" /\ Idle(pc).results = {}
  BY DEF Idle
<1>3. PendingKept(thread[t], Idle(pc))
  BY <1>2, IdleThread DEF PendingKept
<1>4. files' = files => FilesOK'
  BY <1>2, FilesKept
<1> QED  BY <1>1, <1>2, <1>3, <1>4 DEF Quietly, Idles

\* The steps of run, iter and the imports.
LEMMA LoopSteps ==
    ASSUME Inv, NEW t \in Threads,
           \/ Start(t) \/ RemoveFile(t) \/ Finish(t) \/ Generate(t) \/ Schedule(t)
           \/ \E dir \in {"seeds", "imports"} : perform_import(t, dir)
           \/ perform_havoc(t)
    PROVE  FilesOK' /\ local' \in [Threads -> Bitmaps] /\ \E n : Quietly(t, n)
<1>0. local \in [Threads -> Bitmaps] /\ files \in [{"seeds", "imports"} -> Nat]
  BY DEF Inv, BitmapsOK, FilesOK
<1>1. CASE Start(t)
  BY <1>0, <1>1, IdleStep DEF Start, At, Idles
<1>2. CASE Finish(t)
  BY <1>0, <1>2, IdleStep DEF Finish, At, Idles
<1>3. CASE RemoveFile(t)
  <2> DEFINE dir == IF files["seeds"] > 0 THEN "seeds" ELSE "imports"
             pc  == IF dir = "seeds" THEN "start" ELSE "iter"
  <2>1. /\ thread[t].pc = "remove" /\ files' = [files EXCEPT ![dir] = @ - 1]
        /\ Become(t, Idle(pc)) /\ local' = local
    BY <1>3 DEF RemoveFile, At
  <2>2. pc \in {"start", "iter", "done"}
    OBVIOUS
  <2>3. Quietly(t, Idle(pc))
    BY <2>1, <2>2, IdleStep DEF Idles
  <2>4. t = Importer /\ files[dir] > 0
    BY <1>0, <2>1 DEF Inv, FilesOK
  <2>5. files' \in [{"seeds", "imports"} -> Nat]
    BY <1>0, <2>1, <2>4
  <2>6. Idle(pc).ret = "iter" /\ Idle(pc).pc = pc
    BY DEF Idle
  <2>7. \A u \in Threads : thread'[u] = IF u = t THEN Idle(pc) ELSE thread[u]
    BY <2>1 DEF Become, Inv, ThreadsOK
  <2>8. FilesOK'
    BY <2>4, <2>5, <2>6, <2>7 DEF Inv, FilesOK
  <2> QED  BY <1>0, <2>1, <2>3, <2>8
<1>4. CASE Generate(t)
  <2>1. PICK data \in Inputs : perform_run(t, thread[t], data, FALSE)
    BY <1>4 DEF Generate
  <2>2. thread[t].pc = "iter" /\ files' = files
    BY <1>4 DEF Generate, At
  <2>3. MayRun(thread[t], inputs) /\ thread[t].ret = "iter" /\ thread[t].results = {}
    BY <2>2, IdleThread DEF Idles
  <2> QED  BY <2>1, <2>2, <2>3, RunStep
<1>5. CASE \E dir \in {"seeds", "imports"} : perform_import(t, dir)
  <2>1. PICK dir \in {"seeds", "imports"} : perform_import(t, dir)
    BY <1>5
  <2> DEFINE th == [thread[t] EXCEPT !.ret = "file"]
             seed == dir = "seeds"
  <2>2. PICK data \in Inputs : perform_run(t, th, data, seed)
    BY <2>1 DEF perform_import
  <2>3. thread[t].pc \in {"start", "iter"} /\ files' = files /\ t = Importer /\ files[dir] > 0
    BY <2>1 DEF perform_import, At
  <2>4. /\ thread[t].ret = "iter" /\ thread[t].results = {} /\ thread[t].min = None
        /\ thread[t].fav \subseteq DOMAIN inputs
        /\ IsThread(thread[t]) /\ thread[t].id = 0
    BY <2>3, IdleThread DEF Idles
  <2>5. /\ IsThread(th) /\ th.ret = "file" /\ th.fav = thread[t].fav /\ th.id = 0
        /\ th.results = {} /\ th.min = None
    BY <2>4 DEF IsThread, Callers
  <2>6. seed \in BOOLEAN
    OBVIOUS
  <2> HIDE DEF th, seed
  <2>7. MayRun(th, inputs)
    BY <2>4, <2>5 DEF MayRun, FrameOK
  <2>8. files["seeds"] > 0 \/ files["imports"] > 0
    BY <2>3
  <2> QED  BY <2>2, <2>3, <2>4, <2>5, <2>6, <2>7, <2>8, RunStep
<1>6. CASE perform_havoc(t)
  <2>1. PICK data \in Inputs : perform_run(t, thread[t], data, FALSE)
    BY <1>6 DEF perform_havoc
  <2>2. thread[t].pc = "havoc" /\ files' = files
    BY <1>6 DEF perform_havoc, At
  <2>3. MayRun(thread[t], inputs) /\ thread[t].ret = "havoc" /\ thread[t].results = {}
    BY <2>2 DEF Inv, ThreadsOK, ThreadOK, FrameOK, PlaceOK, MayRun
  <2> QED  BY <2>1, <2>2, <2>3, RunStep
<1>7. CASE Schedule(t)
  <2> DEFINE m(i) == [Idle("minimize") EXCEPT !.entry = i]
             h(i) == [Idle("havoc") EXCEPT !.entry = i, !.ret = "havoc", !.left = HavocRuns]
  <2>1. PICK i \in Schedulable : Become(t, IF inputs[i].state = "Minimize" THEN m(i) ELSE h(i))
    BY <1>7 DEF Schedule
  <2>2. /\ thread[t].pc = "iter" /\ files' = files /\ local' = local
    BY <1>7 DEF Schedule, At
  <2>3. inputs \in Seq(Entry) /\ i \in DOMAIN inputs /\ i \in Nat
    <3>1. inputs \in Seq(Entry) /\ DOMAIN inputs = 1..Len(inputs)
      BY LenProperties DEF Inv, QueueOK
    <3>2. Schedulable \subseteq DOMAIN inputs
      BY DEF Inv, QueueOK, ExamplesOK, Schedulable
    <3> QED  BY <3>1, <3>2
  <2>4. /\ IsThread(m(i)) /\ m(i).pc = "minimize" /\ m(i).ret = "iter" /\ m(i).entry = i
        /\ m(i).results = {} /\ m(i).id = 0 /\ m(i).min = None /\ m(i).fav = {}
    <3>1. 0 \in 0..HavocRuns
      BY CorpusQueueAssumption
    <3> QED  BY <2>3, <3>1 DEF Idle, IsThread, Callers, Idles
  <2>5. /\ IsThread(h(i)) /\ h(i).pc = "havoc" /\ h(i).ret = "havoc" /\ h(i).entry = i
        /\ h(i).results = {} /\ h(i).id = 0 /\ h(i).min = None /\ h(i).fav = {}
    <3>1. HavocRuns \in 0..HavocRuns
      BY CorpusQueueAssumption
    <3> QED  BY <2>3, <3>1 DEF Idle, IsThread, Callers, Idles
  <2> HIDE DEF m, h
  <2>6. ThreadOK(m(i), inputs)
    BY <2>3, <2>4 DEF ThreadOK, FrameOK, PlaceOK
  <2>7. ThreadOK(h(i), inputs)
    BY <2>3, <2>5 DEF ThreadOK, FrameOK, PlaceOK, Idles
  <2>8. /\ PendingKept(thread[t], m(i)) /\ PendingKept(thread[t], h(i))
    BY <2>2, <2>4, <2>5, IdleThread DEF PendingKept, Idles
  <2>9. PICK n \in {m(i), h(i)} : Become(t, n)
    BY <2>1
  <2>10. Quietly(t, n)
    BY <2>2, <2>4, <2>5, <2>6, <2>7, <2>8, <2>9 DEF Quietly
  <2>11. FilesOK'
    BY <2>2, <2>4, <2>5, <2>9, FilesKept
  <2> QED  BY <1>0, <2>2, <2>10, <2>11
<1> QED  BY <1>1, <1>2, <1>3, <1>4, <1>5, <1>6, <1>7

\* The minimizer's state of a thread in it.
LEMMA MinThread ==
    ASSUME Inv, NEW t \in Threads, thread[t].pc = "min"
    PROVE  /\ IsThread(thread[t]) /\ thread[t].ret = "min" /\ thread[t].results = {}
           /\ thread[t].id = 0 /\ thread[t].fav \subseteq DOMAIN inputs
           /\ thread[t].entry \in DOMAIN inputs
           /\ MinOK(thread[t].min, Len(inputs[thread[t].entry].data))
BY DEF Inv, ThreadsOK, ThreadOK, FrameOK, PlaceOK

\* Only the minimizer's state differs.
MinSet(th, old, m) == /\ IsThread(th) /\ th.min = m /\ th.pc = old.pc /\ th.ret = old.ret
                      /\ th.results = old.results /\ th.id = old.id /\ th.fav = old.fav
                      /\ th.entry = old.entry

\* The thread when only the position in the loops changes ...
LEMMA MinFrame ==
    ASSUME Inv, NEW t \in Threads, thread[t].pc = "min", NEW m, IsMin(m),
           m.graphs = thread[t].min.graphs,
           m.phase \in {"random", "step"} => m.cur \in DOMAIN m.graphs,
           NEW th, MinSet(th, thread[t], m)
    PROVE  /\ ThreadOK(th, inputs) /\ FrameOK(th, inputs) /\ PendingKept(thread[t], th)
           /\ th.ret = "min" /\ th.min = m /\ th.pc = "min"
<1>1. /\ IsThread(th) /\ th.ret = "min" /\ th.results = {} /\ th.id = 0 /\ th.pc = "min"
      /\ th.fav = thread[t].fav /\ th.entry = thread[t].entry /\ th.min = m
  BY MinThread DEF MinSet
<1>2. MinOK(m, Len(inputs[thread[t].entry].data))
  BY MinThread DEF MinOK
<1>3. ThreadOK(th, inputs)
  BY <1>1, <1>2, MinThread DEF ThreadOK, FrameOK, PlaceOK, Idles
<1>4. PendingKept(thread[t], th)
  BY <1>1, MinThread DEF PendingKept
<1> QED  BY <1>1, <1>3, <1>4 DEF ThreadOK

\* ... and the step that changes it.
LEMMA MinMoves ==
    ASSUME Inv, NEW t \in Threads, thread[t].pc = "min", NEW STATE m, IsMin(m),
           m.graphs = thread[t].min.graphs,
           m.phase \in {"random", "step"} => m.cur \in DOMAIN m.graphs,
           NEW STATE th, MinSet(th, thread[t], m),
           Become(t, th), files' = files
    PROVE  Quietly(t, th) /\ FilesOK'
<1>1. /\ ThreadOK(th, inputs) /\ PendingKept(thread[t], th)
      /\ th.ret = "min" /\ th.pc = "min"
  BY MinFrame
<1> QED  BY <1>1, FilesKept DEF Quietly

\* The steps of the minimizer.
LEMMA MinSteps ==
    ASSUME Inv, NEW t \in Threads, MinNext(t) \/ MinRandom(t) \/ MinStep(t)
    PROVE  FilesOK' /\ local' \in [Threads -> Bitmaps] /\ \E n : Quietly(t, n)
<1> DEFINE m   == thread[t].min
           len == Len(inputs[thread[t].entry].data)
           g   == m.graphs[m.cur].data
<1>1. local \in [Threads -> Bitmaps] /\ thread[t].pc = "min" /\ files' = files
  BY DEF Inv, BitmapsOK, MinNext, MinRandom, MinStep, At
<1>2. /\ IsThread(thread[t]) /\ thread[t].ret = "min" /\ thread[t].results = {}
      /\ thread[t].id = 0 /\ thread[t].fav \subseteq DOMAIN inputs
      /\ thread[t].entry \in DOMAIN inputs /\ MinOK(m, len)
  BY <1>1, MinThread
<1>3. /\ IsMin(m) /\ GraphsOK(m.graphs, len)
      /\ m.phase \in {"random", "step"} => m.cur \in DOMAIN m.graphs
  BY <1>2 DEF MinOK
<1>4. m.todo \subseteq DOMAIN m.graphs /\ m.remaining \in Int /\ m.idx \in Int
  BY <1>3 DEF IsMin
<1>5. m.phase \in {"random", "step"} => g \in Inputs /\ Len(g) \in Nat
  <2>1. m.phase \in {"random", "step"} => m.graphs[m.cur] \in Entry
    BY <1>3 DEF GraphsOK, EntryOK
  <2>2. m.phase \in {"random", "step"} => g \in Inputs
    BY <2>1 DEF Entry
  <2> QED  BY <2>2, InputsAreSeqs, LenProperties
<1>6. CASE MinNext(t)
  <2>1. CASE \E r \in m.todo :
                Become(t, [thread[t] EXCEPT
                     !.min = [m EXCEPT !.todo = @ \ {r}, !.cur = r, !.phase = "random",
                                       !.remaining = MinIters, !.failures = 0,
                                       !.updated = FALSE]])
    <3>1. PICK r \in m.todo :
                Become(t, [thread[t] EXCEPT
                     !.min = [m EXCEPT !.todo = @ \ {r}, !.cur = r, !.phase = "random",
                                       !.remaining = MinIters, !.failures = 0,
                                       !.updated = FALSE]])
      BY <2>1
    <3> DEFINE m2 == [m EXCEPT !.todo = @ \ {r}, !.cur = r, !.phase = "random",
                               !.remaining = MinIters, !.failures = 0, !.updated = FALSE]
               th == [thread[t] EXCEPT !.min = m2]
    <3>2. Become(t, th)
      BY <3>1
    <3>3. IsMin(m2) /\ m2.graphs = m.graphs /\ m2.cur = r
      <4> DEFINE td == m.todo \ {r}
      <4>1. td \subseteq DOMAIN m.graphs /\ MinIters \in Int
        BY <1>4, CorpusQueueAssumption
      <4>2. m2 = [m EXCEPT !.todo = td, !.cur = r, !.phase = "random",
                           !.remaining = MinIters, !.failures = 0, !.updated = FALSE]
        BY <1>3 DEF IsMin
      <4> HIDE DEF td, m2, m
      <4> QED  BY <1>3, <4>1, <4>2 DEF IsMin
    <3> HIDE DEF m2
    <3>4. MinSet(th, thread[t], m2)
      BY <1>2 DEF MinSet, IsThread
    <3> HIDE DEF th
    <3>5. Quietly(t, th) /\ FilesOK'
      BY <1>1, <1>4, <3>2, <3>3, <3>4, MinMoves
    <3> QED  BY <1>1, <1>6, <3>5 DEF MinNext
  <2>2. CASE Become(t, [Idle("results") EXCEPT !.entry = thread[t].entry, !.ret = "result",
                               !.results = {m.graphs[r] : r \in DOMAIN m.graphs}])
    <3> DEFINE rs == {m.graphs[r] : r \in DOMAIN m.graphs}
    <3>1. \A e \in rs : EntryOK(e)
      BY <1>3 DEF GraphsOK
    <3>2. \A r \in DOMAIN m.graphs : \E e \in rs : r \in e.why
      BY <1>3 DEF GraphsOK
    <3> DEFINE th == [Idle("results") EXCEPT !.entry = thread[t].entry, !.ret = "result",
                                             !.results = rs]
    <3>3. Become(t, th)
      BY <2>2
    <3> HIDE DEF rs
    <3>4. /\ IsThread(th) /\ th.pc = "results" /\ th.ret = "result" /\ th.results = rs
          /\ th.id = 0 /\ th.min = None /\ th.fav = {}
      <4>1. 0 \in 0..HavocRuns /\ thread[t].entry \in Nat
        BY <1>2, CorpusQueueAssumption DEF IsThread
      <4> QED  BY <4>1 DEF Idle, IsThread
    <3> HIDE DEF th
    <3>5. ThreadOK(th, inputs)
      BY <3>1, <3>4 DEF ThreadOK, FrameOK, PlaceOK, Idles
    <3>6. PendingKept(thread[t], th)
      BY <1>2, <3>2, <3>4 DEF PendingKept
    <3>7. Quietly(t, th)
      BY <1>1, <3>3, <3>4, <3>5, <3>6 DEF Quietly
    <3>8. FilesOK'
      BY <1>1, <3>3, <3>4, FilesKept
    <3> QED  BY <1>1, <1>6, <3>7, <3>8 DEF MinNext
  <2> QED  BY <1>6, <2>1, <2>2 DEF MinNext
<1>7. CASE MinRandom(t)
  <2>1. m.phase = "random"
    BY <1>7 DEF MinRandom
  <2> DEFINE m2 == [m EXCEPT !.remaining = @ - 1]
             n  == [thread[t] EXCEPT !.min = m2]
  <2>2. CASE \E data \in Blocks(g) : perform_run(t, [thread[t] EXCEPT !.min.remaining = @ - 1], data, FALSE)
    <3>1. PICK data \in Blocks(g) : perform_run(t, [thread[t] EXCEPT !.min.remaining = @ - 1], data, FALSE)
      BY <2>2
    <3>2. [thread[t] EXCEPT !.min.remaining = @ - 1] = n
      BY <1>2, <1>3 DEF IsThread, IsMin
    <3>3. IsMin(m2) /\ m2.graphs = m.graphs /\ m2.cur = m.cur /\ m2.phase = m.phase
      BY <1>3, <1>4 DEF IsMin
    <3>4. perform_run(t, n, data, FALSE)
      BY <3>1, <3>2
    <3>5. data \in Inputs
      BY <1>5, <2>1, CandidatesAreInputs
    <3> HIDE DEF m2
    <3>9. MinSet(n, thread[t], m2)
      BY <1>2 DEF MinSet, IsThread
    <3> HIDE DEF n
    <3>10. m2.phase \in {"random", "step"} => m2.cur \in DOMAIN m2.graphs
      BY <1>3, <3>3
    <3>11. IsMin(m2) /\ m2.graphs = thread[t].min.graphs
      BY <3>3
    <3>6. FrameOK(n, inputs) /\ n.ret = "min" /\ n.min = m2
      BY <1>1, <3>9, <3>10, <3>11, MinFrame
    <3>7. MayRun(n, inputs)
      BY <2>1, <3>3, <3>6 DEF MayRun
    <3> QED  BY <1>1, <1>2, <3>3, <3>4, <3>5, <3>6, <3>7, RunStep
  <2>3. CASE Become(t, [thread[t] EXCEPT !.min.phase = "step", !.min.idx = Len(g)]) /\ UNCHANGED local
    <3> DEFINE m3 == [m EXCEPT !.phase = "step", !.idx = Len(g)]
               th == [thread[t] EXCEPT !.min = m3]
    <3>1. [thread[t] EXCEPT !.min.phase = "step", !.min.idx = Len(g)] = th
      BY <1>2, <1>3 DEF IsThread, IsMin
    <3>2. IsMin(m3) /\ m3.graphs = m.graphs /\ m3.cur = m.cur
      <4> DEFINE k == Len(g)
      <4>1. k \in Int
        BY <1>5, <2>1
      <4>2. m3 = [m EXCEPT !.phase = "step", !.idx = k]
        OBVIOUS
      <4> HIDE DEF k, m, m3
      <4> QED  BY <1>3, <4>1, <4>2 DEF IsMin
    <3>3. Become(t, th)
      BY <2>3, <3>1
    <3> HIDE DEF m3
    <3>5. MinSet(th, thread[t], m3)
      BY <1>2 DEF MinSet, IsThread
    <3> HIDE DEF th
    <3>4. Quietly(t, th) /\ FilesOK'
      BY <1>1, <1>3, <2>1, <3>2, <3>3, <3>5, MinMoves
    <3> QED  BY <1>1, <2>3, <3>4
  <2> QED  BY <1>7, <2>2, <2>3 DEF MinRandom
<1>8. CASE MinStep(t)
  <2>1. m.phase = "step"
    BY <1>8 DEF MinStep
  <2> DEFINE m2 == [m EXCEPT !.remaining = @ - 1, !.idx = @ - 1]
             n  == [thread[t] EXCEPT !.min = m2]
  <2>2. CASE perform_run(t, [thread[t] EXCEPT !.min.remaining = @ - 1, !.min.idx = @ - 1],
                         DropNode(g, m.idx), FALSE)
    <3>2. [thread[t] EXCEPT !.min.remaining = @ - 1, !.min.idx = @ - 1] = n
      BY <1>2, <1>3 DEF IsThread, IsMin
    <3>3. IsMin(m2) /\ m2.graphs = m.graphs /\ m2.cur = m.cur /\ m2.phase = m.phase
      <4> DEFINE a == m.remaining - 1
                 b == m.idx - 1
      <4>1. a \in Int /\ b \in Int
        BY <1>4
      <4>2. m2 = [m EXCEPT !.remaining = a, !.idx = b]
        BY <1>3 DEF IsMin
      <4> HIDE DEF a, b, m, m2
      <4> QED  BY <1>3, <4>1, <4>2 DEF IsMin
    <3>4. perform_run(t, n, DropNode(g, m.idx), FALSE)
      BY <2>2, <3>2
    <3>5. DropNode(g, m.idx) \in Inputs
      BY <1>4, <1>5, <2>1, CandidatesAreInputs
    <3> HIDE DEF m2
    <3>9. MinSet(n, thread[t], m2)
      BY <1>2 DEF MinSet, IsThread
    <3> HIDE DEF n
    <3>10. m2.phase \in {"random", "step"} => m2.cur \in DOMAIN m2.graphs
      BY <1>3, <3>3
    <3>11. IsMin(m2) /\ m2.graphs = thread[t].min.graphs
      BY <3>3
    <3>6. FrameOK(n, inputs) /\ n.ret = "min" /\ n.min = m2
      BY <1>1, <3>9, <3>10, <3>11, MinFrame
    <3>7. MayRun(n, inputs)
      BY <2>1, <3>3, <3>6 DEF MayRun
    <3> DEFINE data == DropNode(g, m.idx)
    <3> HIDE DEF data
    <3> QED  BY <1>1, <1>2, <3>3, <3>4, <3>5, <3>6, <3>7, RunStep DEF data
  <2>3. CASE Become(t, [thread[t] EXCEPT !.min.phase = "next",
                                         !.min.todo = IF m.updated THEN @ ELSE {}]) /\ UNCHANGED local
    <3> DEFINE m3 == [m EXCEPT !.phase = "next", !.todo = IF m.updated THEN @ ELSE {}]
               th == [thread[t] EXCEPT !.min = m3]
    <3>1. [thread[t] EXCEPT !.min.phase = "next", !.min.todo = IF m.updated THEN @ ELSE {}] = th
      BY <1>2, <1>3 DEF IsThread, IsMin
    <3>2. IsMin(m3) /\ m3.graphs = m.graphs /\ m3.phase = "next"
      BY <1>3, <1>4 DEF IsMin
    <3>3. Become(t, th)
      BY <2>3, <3>1
    <3> HIDE DEF m3
    <3>5. MinSet(th, thread[t], m3)
      BY <1>2 DEF MinSet, IsThread
    <3> HIDE DEF th
    <3>4. Quietly(t, th) /\ FilesOK'
      BY <1>1, <1>3, <2>1, <3>2, <3>3, <3>5, MinMoves
    <3> QED  BY <1>1, <2>3, <3>4
  <2> QED  BY <1>8, <2>2, <2>3 DEF MinStep
<1> QED  BY <1>6, <1>7, <1>8

----------------------------------------------------------------------------
(***************************************************************************)
(* The actions on the shared queue.                                        *)
(***************************************************************************)

\* The queue only grows, and its entries keep their data.
Extends(in, in2) == /\ DOMAIN in \subseteq DOMAIN in2
                    /\ \A i \in DOMAIN in : in2[i].data = in[i].data

\* A thread does not notice that another one adds to the queue.
LEMMA ExtendedIsOK ==
    ASSUME NEW th, NEW in, NEW in2, ThreadOK(th, in), Extends(in, in2)
    PROVE  ThreadOK(th, in2)
BY DEF ThreadOK, FrameOK, PlaceOK, Extends

\* The thread that takes a step and the others.
LEMMA ThreadsMove ==
    ASSUME ThreadsOK, NEW t \in Threads, NEW n, Become(t, n), Extends(inputs, inputs'),
           ThreadOK(n, inputs')
    PROVE  ThreadsOK'
<1>1. thread' = [u \in Threads |-> IF u = t THEN n ELSE thread[u]]
  BY DEF Become, ThreadsOK
<1>2. \A u \in Threads : ThreadOK(thread[u], inputs')
  BY ExtendedIsOK DEF ThreadsOK
<1> QED  BY <1>1, <1>2 DEF ThreadsOK

\* Queue::add appends the entry and registers it.
LEMMA AddStep ==
    ASSUME Inv, NEW STATE e, EntryOK(e), Storable(e), add(e)
    PROVE  /\ inputs' \in Seq(Entry) /\ NewId \in Nat /\ NewId \notin DOMAIN inputs
           /\ DOMAIN inputs' = DOMAIN inputs \cup {NewId}
           /\ inputs'[NewId] = e
           /\ \A i \in DOMAIN inputs : inputs'[i] = inputs[i]
           /\ Extends(inputs, inputs')
           /\ ExamplesOK'
           /\ favqueue' = favqueue => QueueOK'
<1>1. inputs \in Seq(Entry) /\ e \in Entry /\ inputs' = Append(inputs, e)
  BY DEF Inv, QueueOK, EntryOK, add
<1>2. Len(inputs) \in Nat /\ DOMAIN inputs = 1..Len(inputs)
  BY <1>1, LenProperties
<1>3. /\ inputs' \in Seq(Entry) /\ Len(inputs') = Len(inputs) + 1
      /\ \A i \in 1..Len(inputs) : inputs'[i] = inputs[i]
      /\ inputs'[Len(inputs) + 1] = e
  BY <1>1, <1>2
<1>4. DOMAIN inputs' = 1..(Len(inputs) + 1)
  BY <1>2, <1>3, LenProperties
<1>5. /\ NewId \in Nat /\ NewId \notin DOMAIN inputs
      /\ DOMAIN inputs' = DOMAIN inputs \cup {NewId}
      /\ inputs'[NewId] = e
      /\ \A i \in DOMAIN inputs : inputs'[i] = inputs[i]
  BY <1>2, <1>3, <1>4 DEF NewId
<1>6. Extends(inputs, inputs')
  BY <1>5 DEF Extends
<1>7. favqueue' = favqueue => QueueOK'
  BY <1>3, <1>5 DEF Inv, QueueOK, Storable
<1>8. ExamplesOK'
  <2> DEFINE bits == Indexes(e.why, "bit")
             ijon == Indexes(e.why, "ijon")
             best == ijon \cup {i \in bits : IsBest(e, i)}
  <2>1. /\ minex' = [i \in DOMAIN minex \cup best |-> IF i \in best THEN NewId ELSE minex[i]]
        /\ bitmapBits' = bitmapBits \cup (bits \ DOMAIN minex)
    BY DEF add
  <2>2. bits \subseteq Bits /\ ijon \subseteq Slots
    BY DEF Indexes, EntryOK, ReasonOK
  <2>3. bits \ DOMAIN minex \subseteq best
    BY DEF IsBest
  <2>4. best \subseteq Bits \cup Slots
    BY <2>2
  <2> HIDE DEF bits, ijon, best
  <2>5. /\ DOMAIN minex' = DOMAIN minex \cup best
        /\ \A i \in DOMAIN minex' : minex'[i] = IF i \in best THEN NewId ELSE minex[i]
        /\ minex' = [i \in DOMAIN minex' |-> minex'[i]]
    BY <2>1
  <2>6. /\ DOMAIN minex \subseteq Bits \cup Slots /\ bitmapBits \subseteq Bits \cap DOMAIN minex
        /\ \A i \in DOMAIN minex : minex[i] \in DOMAIN inputs
    BY DEF Inv, ExamplesOK
  <2>7. bitmapBits' \subseteq Bits \cap DOMAIN minex'
    BY <2>1, <2>2, <2>3, <2>5, <2>6
  <2>8. \A i \in DOMAIN minex' : minex'[i] \in DOMAIN inputs'
    BY <1>5, <2>5, <2>6
  <2> QED  BY <2>4, <2>5, <2>6, <2>7, <2>8 DEF ExamplesOK
<1> QED  BY <1>3, <1>5, <1>6, <1>7, <1>8

\* Nothing of the queue changed.
LEMMA SameQueue ==
    ASSUME Inv, NEW t \in Threads, NEW n, Become(t, n), ThreadOK(n, inputs),
           UNCHANGED <<inputs, minex, bitmapBits>>
    PROVE  ThreadsOK' /\ ExamplesOK' /\ (favqueue' \subseteq DOMAIN inputs => QueueOK')
<1>1. Extends(inputs, inputs') /\ ThreadOK(n, inputs')
  BY DEF Extends
<1>2. ThreadsOK'
  BY <1>1, ThreadsMove DEF Inv
<1> QED  BY <1>2 DEF Inv, ExamplesOK, QueueOK

\* The reasons of a run, with the one of an import.
Why(bs, run) == check_new_bytes(bs, run.out) \cup
                (IF run.seed /\ run.out.exit # "timeout" THEN {Imported} ELSE {})

\* Queue::check_new_bytes: a thread goes on to store what it has claimed.
LEMMA CheckStep ==
    ASSUME Inv, NEW t \in Threads, CheckNewBytes(t)
    PROVE  /\ Inv'
           /\ thread[t].run.out \in Results /\ global' = Checked(global, thread[t].run.out)
           /\ \E n : /\ Become(t, n) /\ n.pc \notin {"calc", "store"}
                     /\ PendingKept(thread[t], n)
                     /\ n.pc = "add" => /\ n.run = thread[t].run
                                        /\ n.why = Why(global, thread[t].run)
                     /\ n.pc # "add" => check_new_bytes(global, thread[t].run.out) = {}
<1> DEFINE th  == thread[t]
           why == Why(global, th.run)
           a   == [th EXCEPT !.pc = "add", !.why = why]
<1>1. /\ th.pc = "check" /\ global' = Checked(global, th.run.out)
      /\ Become(t, IF why # {} THEN a ELSE Returned(th))
      /\ UNCHANGED <<inputs, minex, bitmapBits, favqueue, local, files, disk, refused>>
  BY DEF CheckNewBytes, At, Why
<1>2. /\ ThreadOK(th, inputs) /\ FrameOK(th, inputs) /\ PlaceOK(th, inputs)
      /\ th.ret # "result" /\ RunOK(th.run) /\ (th.ret = "min" => th.min.phase # "next")
      /\ th.results = {} /\ IsThread(th)
  BY <1>1 DEF Inv, ThreadsOK, ThreadOK, FrameOK, PlaceOK
<1>3. th.run.out \in Results /\ inputs \in Seq(Entry) /\ global \in Bitmaps
  BY <1>2, OutcomeType DEF RunOK, Run, Inv, QueueOK, BitmapsOK
<1>4. \A r \in why : ReasonOK(r) /\ still_valid(r, th.run.out)
  <2>1. ReasonOK(Imported) /\ still_valid(Imported, th.run.out)
    BY DEF Imported, ReasonOK, Reason, still_valid
  <2>2. th.run.out.exit \in Kinds => global[th.run.out.exit] \in Bitmap
    BY <1>3 DEF Bitmaps, Bitmap
  <2>3. \A r \in check_new_bytes(global, th.run.out) : ReasonOK(r) /\ still_valid(r, th.run.out)
    BY <1>3, <2>2, ReasonsHold DEF check_new_bytes
  <2> QED  BY <2>1, <2>3 DEF Why
<1>5. why = {} => check_new_bytes(global, th.run.out) = {}
  BY DEF Why
<1> HIDE DEF why
<1>6. /\ IsThread(a) /\ a.pc = "add" /\ a.why = why /\ a.ret = th.ret /\ a.run = th.run
      /\ a.entry = th.entry /\ a.fav = th.fav /\ a.id = th.id /\ a.min = th.min
      /\ a.results = th.results
  BY <1>2 DEF IsThread
<1> HIDE DEF a
<1>7. why # {} => ThreadOK(a, inputs)
  BY <1>2, <1>4, <1>6 DEF ThreadOK, FrameOK, PlaceOK, Idles
<1>8. PendingKept(th, a)
  BY <1>6 DEF PendingKept
<1>9. After(th, Returned(th), inputs) /\ Returned(th).pc # "check"
  BY <1>2, <1>3, ReturnedIsOK
<1>10. PendingKept(th, Returned(th))
  BY <1>2, <1>9 DEF After, PendingKept
<1> DEFINE n == IF why # {} THEN a ELSE Returned(th)
<1>11. /\ ThreadOK(n, inputs) /\ n.pc \notin {"calc", "store"} /\ PendingKept(th, n)
       /\ n.pc = "add" => n.run = th.run /\ n.why = why
       /\ n.pc # "add" => check_new_bytes(global, th.run.out) = {}
       /\ (n.ret = "file" \/ n.pc = "remove") => th.ret = "file"
       /\ Become(t, n)
  BY <1>1, <1>5, <1>6, <1>7, <1>8, <1>9, <1>10 DEF After
<1> HIDE DEF n
<1>12. ThreadsOK' /\ ExamplesOK' /\ QueueOK'
  BY <1>1, <1>11, SameQueue DEF Inv, QueueOK
<1>13. FilesOK'
  BY <1>1, <1>11, FilesKept DEF Inv, FilesOK
<1>14. BitmapsOK'
  BY <1>1, <1>3, CheckedBitmaps DEF Inv, BitmapsOK
<1>15. Inv'
  BY <1>12, <1>13, <1>14 DEF Inv
<1> QED  BY <1>1, <1>3, <1>11, <1>15 DEF why

\* What a thread at "add" stores after its confirmation runs.
Confirmed(th, seen) == {r \in th.why : \A out \in seen : still_valid(r, out)}
NewEntry(th, seen)  == Input(th.run, th.run.out, Confirmed(th, seen), "Minimize")

\* ... is an entry, and the thread goes on with its caller or the favourites.
LEMMA Confirming ==
    ASSUME Inv, NEW t \in Threads, thread[t].pc = "add",
           NEW seen \in SUBSET Outcomes(thread[t].run.data), NEW last \in seen
    PROVE  /\ EntryOK(NewEntry(thread[t], seen))
           /\ NewEntry(thread[t], seen).why = Confirmed(thread[t], seen)
           /\ NewEntry(thread[t], seen).bits = thread[t].run.out.bits
           /\ NewEntry(thread[t], seen).data = thread[t].run.data
           /\ NewEntry(thread[t], seen).exit = thread[t].run.out.exit
           /\ NewEntry(thread[t], seen).state = "Minimize"
           /\ \A n \in {Returned([thread[t] EXCEPT !.run.last = last]),
                        [thread[t] EXCEPT !.pc = "calc", !.run.last = last, !.why = {}]} :
                 /\ ThreadOK(n, inputs) /\ n.pc # "add" /\ n.id = 0
                 /\ PendingKept(thread[t], n)
                 /\ (n.ret = "file" \/ n.pc = "remove") => thread[t].ret = "file"
           /\ Returned([thread[t] EXCEPT !.run.last = last]).pc \notin {"calc", "store"}
<1> DEFINE th == thread[t]
           e  == NewEntry(th, seen)
<1>1. /\ ThreadOK(th, inputs) /\ FrameOK(th, inputs) /\ PlaceOK(th, inputs)
      /\ th.ret # "result" /\ RunOK(th.run) /\ (th.ret = "min" => th.min.phase # "next")
      /\ th.results = {} /\ th.id = 0 /\ IsThread(th)
      /\ \A r \in th.why : ReasonOK(r) /\ still_valid(r, th.run.out)
  BY DEF Inv, ThreadsOK, ThreadOK, FrameOK, PlaceOK
<1>2. inputs \in Seq(Entry)
  BY DEF Inv, QueueOK
<1>3. /\ EntryOK(e) /\ e.why = Confirmed(th, seen) /\ e.bits = th.run.out.bits
      /\ e.data = th.run.data /\ e.exit = th.run.out.exit /\ e.state = "Minimize"
  <2> DEFINE why == Confirmed(th, seen)
  <2>1. \A r \in why : ReasonOK(r) /\ still_valid(r, th.run.out)
    BY <1>1 DEF Confirmed
  <2> HIDE DEF why
  <2>2. e = Input(th.run, th.run.out, why, "Minimize")
    BY DEF NewEntry, why
  <2> QED  BY <1>1, <2>1, <2>2, InputIsEntry DEF why
<1> DEFINE run == [th.run EXCEPT !.last = last]
           d == [th EXCEPT !.run = run]
           c == [th EXCEPT !.pc = "calc", !.run = run, !.why = {}]
<1>4. RunOK(run)
  <2>1. last \in Behind(th.run.data) /\ th.run \in Run
    BY <1>1 DEF RunOK, Behind
  <2>2. last \in Results
    BY <2>1, CountedType DEF Run
  <2>3. run \in Run /\ run.data = th.run.data /\ run.out = th.run.out /\ run.last = last
    BY <2>1, <2>2 DEF Run
  <2> QED  BY <1>1, <2>1, <2>3 DEF RunOK
<1>5. /\ [th EXCEPT !.run.last = last] = d
      /\ [th EXCEPT !.pc = "calc", !.run.last = last, !.why = {}] = c
  BY <1>1 DEF IsThread
<1> HIDE DEF run
<1>6. /\ IsThread(d) /\ d.ret = th.ret /\ d.run = run /\ d.entry = th.entry
      /\ d.fav = th.fav /\ d.id = th.id /\ d.min = th.min /\ d.results = th.results
  BY <1>1 DEF IsThread
<1>7. /\ IsThread(c) /\ c.ret = th.ret /\ c.run = run /\ c.entry = th.entry /\ c.pc = "calc"
      /\ c.fav = th.fav /\ c.id = th.id /\ c.min = th.min /\ c.results = th.results
  BY <1>1 DEF IsThread
<1> HIDE DEF d, c, e
<1>8. FrameOK(d, inputs) /\ FrameOK(c, inputs)
  BY <1>1, <1>6, <1>7 DEF FrameOK
<1>9. After(d, Returned(d), inputs)
  BY <1>1, <1>2, <1>4, <1>6, <1>8, ReturnedIsOK
<1>10. ThreadOK(c, inputs)
  BY <1>1, <1>4, <1>7, <1>8 DEF ThreadOK, PlaceOK, Idles
<1>11. PendingKept(th, Returned(d)) /\ PendingKept(th, c)
  BY <1>1, <1>6, <1>7, <1>9 DEF After, PendingKept
<1>12. Returned(d).id = 0
  <2>1. Returned(d).ret # "result" => Returned(d).id = 0
    BY <1>9 DEF After, ThreadOK, FrameOK
  <2>2. Returned(d).ret # "result"
    BY <1>9 DEF After, ThreadOK, PlaceOK, Idles
  <2> QED  BY <2>1, <2>2
<1> QED  BY <1>1, <1>3, <1>5, <1>6, <1>7, <1>9, <1>10, <1>11, <1>12 DEF After, e

\* The confirmation of the claimed bytes and queue.add.
LEMMA AddInputStep ==
    ASSUME Inv, NEW t \in Threads, AddInput(t)
    PROVE  /\ Inv'
           /\ \E seen \in SUBSET Outcomes(thread[t].run.data) : \E n :
                 LET why == Confirmed(thread[t], seen)
                     e   == NewEntry(thread[t], seen)
                 IN  /\ seen # {}
                     /\ Become(t, n) /\ n.pc # "add" /\ n.id = 0
                     /\ PendingKept(thread[t], n)
                     /\ UNCHANGED <<favqueue, global, local, files, refused>>
                     /\ \/ /\ why = {} /\ n.pc \notin {"calc", "store"}
                           /\ UNCHANGED <<inputs, minex, bitmapBits, disk>>
                        \/ /\ why # {} /\ ~ Storable(e) /\ n.pc \notin {"calc", "store"}
                           /\ new_input(e)
                           /\ UNCHANGED <<inputs, minex, bitmapBits>>
                        \/ /\ why # {} /\ Storable(e) /\ n.pc = "calc"
                           /\ new_input(e) /\ add(e)
<1> DEFINE th == thread[t]
           ret(last) == Returned([th EXCEPT !.run.last = last])
           calc(last) == [th EXCEPT !.pc = "calc", !.run.last = last, !.why = {}]
           why(seen) == Confirmed(th, seen)
           e(seen) == NewEntry(th, seen)
<1>1. PICK seen \in SUBSET Outcomes(th.run.data) : \E last \in seen :
              \/ /\ why(seen) = {}
                 /\ Become(t, ret(last))
                 /\ UNCHANGED <<inputs, minex, bitmapBits, disk>>
              \/ /\ why(seen) # {} /\ ~ Storable(e(seen))
                 /\ new_input(e(seen))
                 /\ Become(t, ret(last))
                 /\ UNCHANGED <<inputs, minex, bitmapBits>>
              \/ /\ why(seen) # {} /\ Storable(e(seen))
                 /\ new_input(e(seen))
                 /\ add(e(seen))
                 /\ Become(t, calc(last))
  BY DEF AddInput, Confirmed, NewEntry
<1>2. PICK last \in seen :
              \/ /\ why(seen) = {}
                 /\ Become(t, ret(last))
                 /\ UNCHANGED <<inputs, minex, bitmapBits, disk>>
              \/ /\ why(seen) # {} /\ ~ Storable(e(seen))
                 /\ new_input(e(seen))
                 /\ Become(t, ret(last))
                 /\ UNCHANGED <<inputs, minex, bitmapBits>>
              \/ /\ why(seen) # {} /\ Storable(e(seen))
                 /\ new_input(e(seen))
                 /\ add(e(seen))
                 /\ Become(t, calc(last))
  BY <1>1
<1>3. th.pc = "add" /\ UNCHANGED <<favqueue, global, local, files, refused>>
  BY DEF AddInput, At
<1>4. /\ EntryOK(e(seen))
      /\ \A n \in {ret(last), calc(last)} :
            /\ ThreadOK(n, inputs) /\ n.pc # "add" /\ n.id = 0
            /\ PendingKept(th, n)
            /\ (n.ret = "file" \/ n.pc = "remove") => th.ret = "file"
      /\ ret(last).pc \notin {"calc", "store"}
  BY <1>3, Confirming
<1>5. calc(last).pc = "calc"
  <2>1. IsThread(th)
    BY DEF Inv, ThreadsOK, ThreadOK, FrameOK
  <2> QED  BY <2>1 DEF IsThread
<1> DEFINE x == e(seen)
           w == why(seen)
           r == ret(last)
           c == calc(last)
<1>6. /\ EntryOK(x) /\ r.pc \notin {"calc", "store"} /\ c.pc = "calc"
      /\ \A n \in {r, c} : /\ ThreadOK(n, inputs) /\ n.pc # "add" /\ n.id = 0
                           /\ PendingKept(th, n)
                           /\ (n.ret = "file" \/ n.pc = "remove") => th.ret = "file"
  BY <1>4, <1>5
<1>7. \/ /\ w = {}
         /\ Become(t, r)
         /\ UNCHANGED <<inputs, minex, bitmapBits, disk>>
      \/ /\ w # {} /\ ~ Storable(x)
         /\ new_input(x)
         /\ Become(t, r)
         /\ UNCHANGED <<inputs, minex, bitmapBits>>
      \/ /\ w # {} /\ Storable(x)
         /\ new_input(x)
         /\ add(x)
         /\ Become(t, c)
  BY <1>2
<1>8. x = NewEntry(th, seen) /\ w = Confirmed(th, seen) /\ seen # {}
  OBVIOUS
<1> HIDE DEF x, w, r, c
<1>9. \A n \in {r, c} : (n.ret = "file" \/ n.pc = "remove") =>
               t = Importer /\ (files["seeds"] > 0 \/ files["imports"] > 0)
  BY <1>6 DEF Inv, FilesOK
<1>10. BitmapsOK'
  BY <1>3 DEF Inv, BitmapsOK
<1>11. ASSUME Become(t, r), UNCHANGED <<inputs, minex, bitmapBits>>
       PROVE  Inv'
  <2>1. ThreadsOK' /\ ExamplesOK' /\ QueueOK'
    BY <1>3, <1>6, <1>11, SameQueue DEF Inv, QueueOK
  <2>2. FilesOK'
    BY <1>3, <1>9, <1>11, FilesKept
  <2> QED  BY <1>10, <2>1, <2>2 DEF Inv
<1>12. ASSUME Become(t, c), Storable(x), add(x)
       PROVE  Inv'
  <2>1. Extends(inputs, inputs') /\ ExamplesOK' /\ QueueOK'
    BY <1>3, <1>6, <1>12, AddStep
  <2>2. ThreadOK(c, inputs')
    BY <1>6, <2>1, ExtendedIsOK
  <2>3. ThreadsOK'
    BY <1>12, <2>1, <2>2, ThreadsMove DEF Inv
  <2>4. FilesOK'
    BY <1>3, <1>9, <1>12, FilesKept
  <2> QED  BY <1>10, <2>1, <2>3, <2>4 DEF Inv
<1>13. Inv'
  BY <1>7, <1>11, <1>12
<1>14. \E n : /\ Become(t, n) /\ n.pc # "add" /\ n.id = 0
              /\ PendingKept(th, n)
              /\ \/ /\ w = {} /\ n.pc \notin {"calc", "store"}
                    /\ UNCHANGED <<inputs, minex, bitmapBits, disk>>
                 \/ /\ w # {} /\ ~ Storable(x) /\ n.pc \notin {"calc", "store"}
                    /\ new_input(x)
                    /\ UNCHANGED <<inputs, minex, bitmapBits>>
                 \/ /\ w # {} /\ Storable(x) /\ n.pc = "calc"
                    /\ new_input(x) /\ add(x)
  BY <1>6, <1>7
<1> QED  BY <1>3, <1>8, <1>13, <1>14

\* The favourites are inputs.
LEMMA FavsAreInputs == calc_fav_bits \subseteq DOMAIN inputs
BY DEF calc_fav_bits

\* calc_fav_bits, before its result is stored.
LEMMA CalcStep ==
    ASSUME Inv, NEW t \in Threads, CalcFavBits(t)
    PROVE  /\ Inv'
           /\ \E n : /\ Become(t, n) /\ n.pc = "store" /\ n.fav = calc_fav_bits
                     /\ n.ret = thread[t].ret /\ n.id = thread[t].id
                     /\ PendingKept(thread[t], n)
<1> DEFINE th == thread[t]
           fav == calc_fav_bits
           n == [th EXCEPT !.pc = "store", !.fav = fav]
<1>1. /\ th.pc = "calc" /\ Become(t, n)
      /\ UNCHANGED <<inputs, minex, bitmapBits, favqueue, global, local, files, disk, refused>>
  BY DEF CalcFavBits, At, queue
<1>2. FrameOK(th, inputs) /\ PlaceOK(th, inputs) /\ IsThread(th)
  BY <1>1 DEF Inv, ThreadsOK, ThreadOK, FrameOK
<1>3. fav \subseteq DOMAIN inputs
  BY FavsAreInputs
<1> HIDE DEF fav
<1>4. /\ IsThread(n) /\ n.pc = "store" /\ n.fav = fav /\ n.ret = th.ret /\ n.run = th.run
      /\ n.entry = th.entry /\ n.id = th.id /\ n.min = th.min /\ n.results = th.results
  BY <1>2 DEF IsThread
<1> HIDE DEF n
<1>5. ThreadOK(n, inputs)
  BY <1>1, <1>2, <1>3, <1>4 DEF ThreadOK, FrameOK, PlaceOK, Idles
<1>6. PendingKept(th, n)
  BY <1>4 DEF PendingKept
<1>7. ThreadsOK' /\ ExamplesOK' /\ QueueOK'
  BY <1>1, <1>5, SameQueue DEF Inv, QueueOK
<1>8. FilesOK'
  BY <1>1, <1>4, FilesKept DEF Inv, FilesOK
<1>9. Inv'
  BY <1>1, <1>7, <1>8 DEF Inv, BitmapsOK
<1> QED  BY <1>1, <1>4, <1>6, <1>9 DEF fav

\* The favourites are stored, a minimized graph is written to its file.
LEMMA StoreStep ==
    ASSUME Inv, NEW t \in Threads, StoreFavqueue(t)
    PROVE  /\ Inv'
           /\ \E n : /\ Become(t, n) /\ n.pc \notin {"add", "calc", "store"}
                     /\ PendingKept(thread[t], n)
<1> DEFINE th == thread[t]
           n  == Returned(th)
<1>1. /\ th.pc = "store" /\ favqueue' = th.fav /\ Become(t, n)
      /\ UNCHANGED <<inputs, minex, bitmapBits, global, local, files, refused>>
  BY DEF StoreFavqueue, At
<1>2. FrameOK(th, inputs) /\ PlaceOK(th, inputs) /\ IsThread(th) /\ th.fav \subseteq DOMAIN inputs
  BY <1>1 DEF Inv, ThreadsOK, ThreadOK, FrameOK
<1>3. inputs \in Seq(Entry)
  BY DEF Inv, QueueOK
<1>4. CASE th.ret # "result"
  <2>1. RunOK(th.run) /\ (th.ret = "min" => th.min.phase # "next") /\ th.results = {}
    BY <1>1, <1>2, <1>4 DEF PlaceOK, FrameOK
  <2>2. After(th, n, inputs)
    BY <1>2, <1>3, <1>4, <2>1, ReturnedIsOK
  <2>3. PendingKept(th, n)
    BY <2>1, <2>2 DEF After, PendingKept
  <2>4. ThreadsOK' /\ ExamplesOK' /\ QueueOK'
    BY <1>1, <1>2, <2>2, SameQueue DEF After
  <2>5. FilesOK'
    BY <1>1, <2>2, FilesKept DEF After, Inv, FilesOK
  <2>6. Inv'
    BY <1>1, <2>4, <2>5 DEF Inv, BitmapsOK
  <2> QED  BY <1>1, <2>2, <2>3, <2>6 DEF After
<1>5. CASE th.ret = "result"
  <2>1. n = [th EXCEPT !.pc = "results", !.fav = {}]
    BY <1>5 DEF Returned
  <2>2. /\ IsThread(n) /\ n.pc = "results" /\ n.fav = {} /\ n.ret = th.ret /\ n.run = th.run
        /\ n.entry = th.entry /\ n.id = th.id /\ n.min = th.min /\ n.results = th.results
    BY <1>2, <2>1 DEF IsThread
  <2> HIDE DEF n
  <2>3. ThreadOK(n, inputs)
    BY <1>2, <1>5, <2>2 DEF ThreadOK, FrameOK, PlaceOK, Idles
  <2>4. PendingKept(th, n)
    BY <2>2 DEF PendingKept
  <2>5. ThreadsOK' /\ ExamplesOK' /\ QueueOK'
    BY <1>1, <1>2, <2>3, SameQueue
  <2>6. FilesOK'
    BY <1>1, <1>5, <2>2, FilesKept
  <2>7. Inv'
    BY <1>1, <2>5, <2>6 DEF Inv, BitmapsOK
  <2> QED  BY <1>1, <2>2, <2>4, <2>7
<1> QED  BY <1>4, <1>5

\* Entries that differ in their state only.
SameBut(e, h) == /\ h.data = e.data /\ h.bits = e.bits /\ h.max = e.max /\ h.exit = e.exit
                 /\ h.used = e.used /\ h.why = e.why /\ h.seed = e.seed

\* perform_min: the entry is taken, and its first run performed.
LEMMA PerformMinStep ==
    ASSUME Inv, NEW t \in Threads, perform_min(t)
    PROVE  /\ Inv'
           /\ DOMAIN inputs' = DOMAIN inputs
           /\ thread[t].pc = "minimize" /\ thread[t].entry \in DOMAIN inputs
           /\ \A i \in DOMAIN inputs :
                 /\ SameBut(inputs[i], inputs'[i])
                 /\ i # thread[t].entry => inputs'[i] = inputs[i]
           /\ \E n : /\ Become(t, n) /\ n.pc \notin {"add", "calc", "store"}
                     /\ PendingKept(thread[t], n)
                     /\ NewBytes(inputs[thread[t].entry].why) # {} =>
                           /\ n.ret = "min"
                           /\ DOMAIN n.min.graphs = NewBytes(inputs[thread[t].entry].why)
<1> DEFINE th == thread[t]
           k  == th.entry
           e  == inputs[k]
           h  == [e EXCEPT !.state = "Havoc"]
<1>1. /\ th.pc = "minimize" /\ inputs' = [inputs EXCEPT ![k].state = "Havoc"]
      /\ UNCHANGED <<minex, bitmapBits, favqueue, global, files, disk, refused>>
  BY DEF perform_min, At
<1>2. /\ ThreadOK(th, inputs) /\ IsThread(th) /\ k \in DOMAIN inputs /\ th.ret = "iter"
      /\ th.results = {} /\ th.id = 0 /\ th.min = None /\ th.fav \subseteq DOMAIN inputs
  BY <1>1 DEF Inv, ThreadsOK, ThreadOK, FrameOK, PlaceOK, Idles
<1>3. inputs \in Seq(Entry) /\ EntryOK(e) /\ DOMAIN inputs = 1..Len(inputs)
  BY <1>2, LenProperties DEF Inv, QueueOK
<1>4. EntryOK(h) /\ SameBut(e, h)
  BY <1>3, HavocEntry DEF SameBut
<1>5. h \in Entry /\ inputs' = [inputs EXCEPT ![k] = h]
  BY <1>1, <1>4 DEF EntryOK
<1> HIDE DEF h
<1>6. /\ inputs' \in Seq(Entry) /\ Len(inputs') = Len(inputs)
      /\ \A j \in 1..Len(inputs) : inputs'[j] = IF j = k THEN h ELSE inputs[j]
  BY <1>2, <1>3, <1>5, ExceptSeq
<1>7. DOMAIN inputs' = DOMAIN inputs
  BY <1>3, <1>6, LenProperties
<1>8. \A i \in DOMAIN inputs : /\ SameBut(inputs[i], inputs'[i])
                               /\ i # k => inputs'[i] = inputs[i]
                               /\ EntryOK(inputs'[i])
  BY <1>3, <1>4, <1>6 DEF SameBut, Inv, QueueOK
<1>9. Extends(inputs, inputs')
  BY <1>7, <1>8 DEF Extends, SameBut
<1>10. QueueOK' /\ ExamplesOK'
  BY <1>1, <1>6, <1>7, <1>8 DEF Inv, QueueOK, ExamplesOK, SameBut
<1>11. ASSUME NEW n, Become(t, n), ThreadOK(n, inputs)
       PROVE  ThreadsOK'
  BY <1>9, <1>11, ExtendedIsOK, ThreadsMove DEF Inv
<1>12. CASE NewBytes(e.why) = {}
  <2>1. Become(t, Idle("iter")) /\ local' = local
    BY <1>12 DEF perform_min
  <2>2. Quietly(t, Idle("iter")) /\ FilesOK'
    BY <1>1, <2>1, IdleStep DEF Idles
  <2>3. ThreadsOK'
    BY <1>11, <2>2 DEF Quietly
  <2>4. Inv'
    BY <1>1, <1>10, <2>1, <2>2, <2>3 DEF Inv, BitmapsOK
  <2> QED  BY <1>1, <1>2, <1>7, <1>8, <1>12, <2>2, <2>4 DEF Quietly
<1>13. CASE NewBytes(e.why) # {}
  <2> DEFINE m == minimize_new_bytes(e)
             r == [th EXCEPT !.ret = "min", !.min = m]
             data == SubSeq(e.data, 1, e.used)
  <2>1. perform_run(t, r, data, FALSE)
    BY <1>13 DEF perform_min
  <2>2. MinOK(m, Len(e.data)) /\ m.phase = "first" /\ DOMAIN m.graphs = NewBytes(e.why)
    BY <1>3, MinimizeStarts
  <2>3. data \in Inputs
    BY <1>3, UsedIsInput
  <2> HIDE DEF m, data
  <2>4. /\ IsThread(r) /\ r.ret = "min" /\ r.min = m /\ r.entry = th.entry /\ r.id = th.id
        /\ r.results = th.results /\ r.fav = th.fav
    BY <1>2 DEF IsThread, Callers
  <2> HIDE DEF r
  <2>5. MayRun(r, inputs)
    BY <1>2, <2>2, <2>4 DEF MayRun, FrameOK
  <2>6. BitmapsOK
    BY DEF Inv
  <2>7. local' \in [Threads -> Bitmaps] /\ \E n : Become(t, n) /\ After(r, n, inputs)
    BY <1>3, <2>1, <2>3, <2>5, <2>6, PerformRun
  <2>8. PICK n : Become(t, n) /\ After(r, n, inputs)
    BY <2>7
  <2>9. ThreadsOK'
    BY <1>11, <2>8 DEF After
  <2>10. FilesOK'
    BY <1>1, <2>4, <2>8, FilesKept DEF After
  <2>11. Inv'
    BY <1>1, <1>10, <2>6, <2>7, <2>9, <2>10 DEF Inv, BitmapsOK
  <2>12. n.pc \notin {"add", "calc", "store"} /\ n.ret = "min" /\ DOMAIN n.min.graphs = NewBytes(e.why)
    BY <2>2, <2>4, <2>8 DEF After
  <2>13. PendingKept(th, n)
    BY <1>2 DEF PendingKept
  <2> QED  BY <1>1, <1>2, <1>7, <1>8, <2>8, <2>11, <2>12, <2>13
<1> QED  BY <1>12, <1>13

\* queue.add for a minimized graph.
LEMMA AddResultStep ==
    ASSUME Inv, NEW t \in Threads, AddResult(t)
    PROVE  /\ Inv'
           /\ thread[t].pc = "results" /\ thread[t].ret = "result"
           /\ UNCHANGED <<favqueue, global, local, files, disk>>
           /\ \E n : /\ Become(t, n) /\ n.pc \notin {"add", "store"}
                     /\ \/ \E e \in thread[t].results :
                             /\ EntryOK(e) /\ n.results = thread[t].results \ {e}
                             /\ \/ /\ Storable(e) /\ add(e) /\ refused' = refused
                                   /\ n.pc = "calc" /\ n.id = NewId
                                \/ /\ ~ Storable(e) /\ n.pc # "calc"
                                   /\ refused' = refused \cup NewBytes(e.why)
                                   /\ UNCHANGED <<inputs, minex, bitmapBits>>
                        \/ /\ thread[t].results = {} /\ n.pc # "calc"
                           /\ UNCHANGED <<inputs, minex, bitmapBits, refused>>
<1> DEFINE th == thread[t]
           rest(e) == [th EXCEPT !.results = @ \ {e}]
           calc(e) == [rest(e) EXCEPT !.pc = "calc", !.id = NewId]
<1>1. th.pc = "results" /\ UNCHANGED <<favqueue, global, local, files, disk>>
  BY DEF AddResult, At
<1>2. /\ FrameOK(th, inputs) /\ PlaceOK(th, inputs) /\ IsThread(th) /\ th.ret = "result"
      /\ th.min = None /\ th.fav \subseteq DOMAIN inputs /\ \A e \in th.results : EntryOK(e)
  BY <1>1 DEF Inv, ThreadsOK, ThreadOK, FrameOK, PlaceOK
<1>3. BitmapsOK' /\ NewId \in Nat
  BY <1>1, LenProperties DEF Inv, BitmapsOK, QueueOK, NewId
<1>4. ASSUME NEW e \in th.results
      PROVE  /\ IsThread(rest(e)) /\ rest(e).pc = "results" /\ rest(e).ret = "result"
             /\ rest(e).results = th.results \ {e} /\ rest(e).min = None /\ rest(e).fav = th.fav
             /\ IsThread(calc(e)) /\ calc(e).pc = "calc" /\ calc(e).ret = "result"
             /\ calc(e).results = th.results \ {e} /\ calc(e).min = None
             /\ calc(e).fav = th.fav /\ calc(e).id = NewId
  BY <1>1, <1>2, <1>3 DEF IsThread
<1>5. CASE \E e \in th.results : Storable(e) /\ add(e) /\ Become(t, calc(e)) /\ UNCHANGED refused
  <2>1. PICK e \in th.results : Storable(e) /\ add(e) /\ Become(t, calc(e)) /\ UNCHANGED refused
    BY <1>5
  <2> DEFINE n == calc(e)
  <2>2. /\ IsThread(n) /\ n.pc = "calc" /\ n.ret = "result" /\ n.results = th.results \ {e}
        /\ n.min = None /\ n.fav = th.fav /\ n.id = NewId
    BY <1>4
  <2>3. Become(t, n)
    BY <2>1
  <2> HIDE DEF n
  <2>4. EntryOK(e)
    BY <1>2
  <2>5. /\ DOMAIN inputs' = DOMAIN inputs \cup {NewId} /\ Extends(inputs, inputs')
        /\ ExamplesOK' /\ QueueOK'
    BY <1>1, <2>1, <2>4, AddStep
  <2>6. ThreadOK(n, inputs')
    BY <1>2, <2>2, <2>5 DEF ThreadOK, FrameOK, PlaceOK, Idles
  <2>7. ThreadsOK'
    BY <2>3, <2>5, <2>6, ThreadsMove DEF Inv
  <2>8. FilesOK'
    BY <1>1, <2>2, <2>3, FilesKept
  <2>9. Inv'
    BY <1>3, <2>5, <2>7, <2>8 DEF Inv
  <2> QED  BY <1>1, <1>2, <2>1, <2>2, <2>3, <2>4, <2>9
<1>6. CASE \E e \in th.results : /\ ~ Storable(e) /\ Become(t, rest(e))
                                 /\ refused' = refused \cup NewBytes(e.why)
                                 /\ UNCHANGED <<inputs, minex, bitmapBits>>
  <2>1. PICK e \in th.results : /\ ~ Storable(e) /\ Become(t, rest(e))
                                /\ refused' = refused \cup NewBytes(e.why)
                                /\ UNCHANGED <<inputs, minex, bitmapBits>>
    BY <1>6
  <2> DEFINE n == rest(e)
  <2>2. /\ IsThread(n) /\ n.pc = "results" /\ n.ret = "result" /\ n.results = th.results \ {e}
        /\ n.min = None /\ n.fav = th.fav
    BY <1>4
  <2>3. Become(t, n)
    BY <2>1
  <2> HIDE DEF n
  <2>4. ThreadOK(n, inputs)
    BY <1>2, <2>2 DEF ThreadOK, FrameOK, PlaceOK, Idles
  <2>5. ThreadsOK' /\ ExamplesOK' /\ QueueOK'
    BY <1>1, <2>1, <2>3, <2>4, SameQueue DEF Inv, QueueOK
  <2>6. FilesOK'
    BY <1>1, <2>2, <2>3, FilesKept
  <2>7. Inv'
    BY <1>3, <2>5, <2>6 DEF Inv
  <2>8. EntryOK(e)
    BY <1>2
  <2> QED  BY <1>1, <1>2, <2>1, <2>2, <2>3, <2>7, <2>8
<1>7. CASE /\ th.results = {} /\ Become(t, Idle("iter"))
           /\ UNCHANGED <<inputs, minex, bitmapBits, refused>>
  <2>1. ThreadOK(Idle("iter"), inputs) /\ Idle("iter").pc = "iter" /\ Idle("iter").ret = "iter"
    BY IdleIsOK DEF Idles, Idle
  <2>2. ThreadsOK' /\ ExamplesOK' /\ QueueOK'
    BY <1>1, <1>7, <2>1, SameQueue DEF Inv, QueueOK
  <2>3. FilesOK'
    BY <1>1, <1>7, <2>1, FilesKept
  <2>4. Inv'
    BY <1>3, <2>2, <2>3 DEF Inv
  <2> QED  BY <1>1, <1>2, <1>7, <2>1, <2>4
<1> QED  BY <1>5, <1>6, <1>7 DEF AddResult

----------------------------------------------------------------------------
(***************************************************************************)
(* The invariant, and what follows from it alone.                          *)
(***************************************************************************)

\* What an action of the thread's own leaves unchanged, and its thread.
LEMMA OwnSteps ==
    ASSUME Inv, NEW t \in Threads, OwnStep(t)
    PROVE  /\ Inv'
           /\ UNCHANGED <<inputs, minex, bitmapBits, favqueue, global, disk, refused>>
           /\ \E n : Quietly(t, n)
<1>1. UNCHANGED <<inputs, minex, bitmapBits, favqueue, global, disk, refused>>
  BY DEF OwnStep, Start, RemoveFile, Finish, Generate, Schedule, perform_import, perform_havoc,
         MinNext, MinRandom, MinStep, queue
<1>2. FilesOK' /\ local' \in [Threads -> Bitmaps] /\ \E n : Quietly(t, n)
  BY LoopSteps, MinSteps DEF OwnStep
<1>3. PICK n : Quietly(t, n)
  BY <1>2
<1>4. ThreadsOK' /\ ExamplesOK' /\ QueueOK'
  BY <1>1, <1>3, SameQueue DEF Quietly, Inv, QueueOK
<1>5. Inv'
  BY <1>1, <1>2, <1>4 DEF Inv, BitmapsOK
<1> QED  BY <1>1, <1>3, <1>5

\* The actions of a thread, the ones on the queue apart.
LEMMA StepCases ==
    ASSUME NEW t \in Threads, Step(t)
    PROVE  \/ OwnStep(t) \/ perform_min(t) \/ CheckNewBytes(t) \/ AddInput(t)
           \/ CalcFavBits(t) \/ StoreFavqueue(t) \/ AddResult(t)
BY DEF Step, OwnStep

\* Every step of every thread keeps the invariant.
LEMMA InvStep ==
    ASSUME Inv, [Next]_vars
    PROVE  Inv'
<1>1. ASSUME NEW t \in Threads, Step(t)
      PROVE  Inv'
  BY <1>1, StepCases, OwnSteps, PerformMinStep, CheckStep, AddInputStep, CalcStep, StoreStep,
     AddResultStep
<1>2. CASE UNCHANGED vars
  BY <1>2 DEF vars, queue, Inv, QueueOK, ExamplesOK, BitmapsOK, FilesOK, ThreadsOK
<1> QED  BY <1>1, <1>2 DEF Next

\* The empty queue and the idle threads.
LEMMA InvInit == Init => Inv
<1> SUFFICES ASSUME Init PROVE Inv
  OBVIOUS
<1> USE DEF Init
<1>1. inputs \in Seq(Entry) /\ DOMAIN inputs = {}
  OBVIOUS
<1>2. QueueOK
  BY <1>1 DEF QueueOK
<1>3. minex = [i \in DOMAIN minex |-> minex[i]] /\ DOMAIN minex = {}
  OBVIOUS
<1>4. ExamplesOK
  BY <1>3 DEF ExamplesOK
<1>5. EmptyBitmap \in Bitmap
  BY DEF EmptyBitmap, Bitmap
<1>6. BitmapsOK
  BY <1>5 DEF BitmapsOK, Bitmaps, Bitmap
<1>7. ThreadOK(Idle("start"), inputs) /\ Idle("start").ret = "iter" /\ Idle("start").pc = "start"
  BY IdleIsOK DEF Idles, Idle
<1>8. ThreadsOK
  BY <1>7 DEF ThreadsOK
<1>9. FilesOK
  BY <1>7, CorpusQueueAssumption DEF FilesOK
<1> QED  BY <1>2, <1>4, <1>6, <1>8, <1>9 DEF Inv

\* The queue, its indexes and the threads are as described in Inv, always.
LEMMA InvCorrect == Spec => []Inv
BY InvInit, InvStep, PTL DEF Spec

\* The corpus and the threads keep their types, whatever target is fuzzed by
\* however many threads: in particular no empty input and none that timed out
\* is stored, and the number of files to import never falls below zero.
THEOREM CorpusTypeCorrect == Spec => []TypeOK
<1>1. ASSUME Inv
      PROVE  TypeOK
  <2>1. \A t \in Threads : thread[t].left \in 0..HavocRuns
    BY <1>1 DEF Inv, ThreadsOK, ThreadOK, FrameOK, IsThread
  <2> QED  BY <1>1, <2>1 DEF Inv, QueueOK, ExamplesOK, BitmapsOK, FilesOK, TypeOK
<1> QED  BY <1>1, InvCorrect, PTL

\* While an input is minimized each of its new bytes has a graph that still
\* covers it and is not longer than the input, also for a target whose
\* executions differ.
THEOREM MinimizerCorrect == Spec => []MinimizerSound
<1>1. ASSUME Inv
      PROVE  MinimizerSound
  <2>1. ASSUME NEW t \in Threads, thread[t].min # None
        PROVE  MinOK(thread[t].min, Len(inputs[thread[t].entry].data))
    BY <1>1, <2>1 DEF Inv, ThreadsOK, ThreadOK, FrameOK
  <2> QED  BY <2>1 DEF MinimizerSound, MinOK, GraphsOK, EntryOK
<1> QED  BY <1>1, InvCorrect, PTL

----------------------------------------------------------------------------
(***************************************************************************)
(* Claims.                                                                 *)
(***************************************************************************)

\* The invariant of claims.
ClaimInv == ClaimsOK /\ ClaimedOnce

\* A step that leaves the bitmaps alone and does not get to "add".
LEMMA ClaimsKept ==
    ASSUME Inv, ClaimInv, NEW t \in Threads, NEW n, Become(t, n), n.pc # "add", global' = global
    PROVE  ClaimInv'
<1>1. \A u \in Threads : thread'[u] = IF u = t THEN n ELSE thread[u]
  BY DEF Become, Inv, ThreadsOK
<1>2. ClaimsOK'
  BY <1>1 DEF ClaimInv, ClaimsOK, At
<1>3. ClaimedOnce'
  BY <1>1 DEF ClaimInv, ClaimedOnce, At
<1> QED  BY <1>2, <1>3 DEF ClaimInv

\* The bits a run claims are the ones not in the bitmap yet.
LEMMA ClaimedBits ==
    ASSUME NEW bs, NEW run
    PROVE  Indexes(Why(bs, run), "bit") =
               IF run.out.exit \in Kinds THEN run.out.bits \ bs[run.out.exit].bits ELSE {}
<1>1. Indexes({Imported}, "bit") = {}
  BY DEF Indexes, Imported
<1>2. ASSUME NEW b, NEW out
      PROVE  Indexes(Reasons(b, out), "bit") = out.bits \ b.bits
  <2>1. \A s, o : IjonMax(s, o).tag = "ijon"
    BY DEF IjonMax
  <2>2. \A i : Bit(i).tag = "bit" /\ Bit(i).index = i
    BY DEF Bit
  <2>3. {r \in Reasons(b, out) : r.tag = "bit"} = {Bit(i) : i \in out.bits \ b.bits}
    BY <2>1, <2>2 DEF Reasons
  <2> QED  BY <2>2, <2>3 DEF Indexes
<1>3. \A A, B : Indexes(A \cup B, "bit") = Indexes(A, "bit") \cup Indexes(B, "bit")
  BY DEF Indexes
<1>4. Indexes({}, "bit") = {}
  BY DEF Indexes
<1> DEFINE A == check_new_bytes(bs, run.out)
           B == IF run.seed /\ run.out.exit # "timeout" THEN {Imported} ELSE {}
<1>5. Indexes(B, "bit") = {}
  BY <1>1, <1>4
<1>6. Indexes(A, "bit") = IF run.out.exit \in Kinds THEN run.out.bits \ bs[run.out.exit].bits
                          ELSE {}
  BY <1>2, <1>4 DEF check_new_bytes
<1>7. Why(bs, run) = A \cup B
  BY DEF Why
<1> HIDE DEF A, B
<1> QED  BY <1>3, <1>5, <1>6, <1>7

\* What a thread is about to store is claimed, and by no other thread.
LEMMA ClaimStep ==
    ASSUME Inv, ClaimInv, [Next]_vars
    PROVE  ClaimInv'
<1>1. CASE UNCHANGED vars
  BY <1>1 DEF vars, queue, ClaimInv, ClaimsOK, ClaimedOnce, At
<1>2. ASSUME NEW t \in Threads, CheckNewBytes(t)
      PROVE  ClaimInv'
  <2> DEFINE out == thread[t].run.out
  <2>1. out \in Results /\ global' = Checked(global, out) /\ global \in Bitmaps
    BY <1>2, CheckStep DEF Inv, BitmapsOK
  <2>2. PICK n : /\ Become(t, n)
                 /\ n.pc = "add" => /\ n.run = thread[t].run
                                    /\ n.why = Why(global, thread[t].run)
    BY <1>2, CheckStep
  <2>3. \A u \in Threads : thread'[u] = IF u = t THEN n ELSE thread[u]
    BY <2>2 DEF Become, Inv, ThreadsOK
  <2>4. \A k \in Kinds : global'[k].bits = IF k = out.exit THEN global[k].bits \cup out.bits
                                           ELSE global[k].bits
    BY <2>1, CheckedBitmaps
  <2>5. n.pc = "add" => /\ n.run.out = out
                        /\ Indexes(n.why, "bit") =
                              IF out.exit \in Kinds THEN out.bits \ global[out.exit].bits ELSE {}
    BY <2>2, ClaimedBits
  <2> HIDE DEF out
  <2>6. ClaimsOK'
    <3> SUFFICES ASSUME NEW u \in Threads, thread'[u].pc = "add",
                        NEW i \in Indexes(thread'[u].why, "bit")
                 PROVE  /\ thread'[u].run.out.exit \in Kinds
                        /\ i \in global'[thread'[u].run.out.exit].bits
      BY DEF ClaimsOK, At
    <3>1. CASE u = t
      BY <2>3, <2>4, <2>5, <3>1
    <3>2. CASE u # t
      <4>1. thread'[u] = thread[u] /\ thread[u].pc = "add"
        BY <2>3, <3>2
      <4>2. thread[u].run.out.exit \in Kinds /\ i \in global[thread[u].run.out.exit].bits
        BY <4>1 DEF ClaimInv, ClaimsOK, At
      <4> QED  BY <2>4, <4>1, <4>2
    <3> QED  BY <3>1, <3>2
  <2>7. ASSUME NEW u \in Threads, u # t, thread[u].pc = "add", n.pc = "add",
               thread[u].run.out.exit = out.exit
        PROVE  Indexes(n.why, "bit") \cap Indexes(thread[u].why, "bit") = {}
    BY <2>5, <2>7 DEF ClaimInv, ClaimsOK, At
  <2>8. ClaimedOnce'
    BY <2>3, <2>5, <2>7 DEF ClaimInv, ClaimedOnce, At
  <2> QED  BY <2>6, <2>8 DEF ClaimInv
<1>3. ASSUME NEW t \in Threads, OwnStep(t)
      PROVE  ClaimInv'
  BY <1>3, OwnSteps, ClaimsKept DEF Quietly
<1>4. ASSUME NEW t \in Threads, perform_min(t)
      PROVE  ClaimInv'
  BY <1>4, PerformMinStep, ClaimsKept DEF perform_min
<1>5. ASSUME NEW t \in Threads, AddInput(t)
      PROVE  ClaimInv'
  <2>1. PICK n : Become(t, n) /\ n.pc # "add" /\ UNCHANGED global
    BY <1>5, AddInputStep
  <2> QED  BY <2>1, ClaimsKept
<1>6. ASSUME NEW t \in Threads, CalcFavBits(t)
      PROVE  ClaimInv'
  <2>1. PICK n : Become(t, n) /\ n.pc = "store"
    BY <1>6, CalcStep
  <2> QED  BY <1>6, <2>1, ClaimsKept DEF CalcFavBits, queue
<1>7. ASSUME NEW t \in Threads, StoreFavqueue(t)
      PROVE  ClaimInv'
  <2>1. PICK n : Become(t, n) /\ n.pc \notin {"add", "calc", "store"}
    BY <1>7, StoreStep
  <2> QED  BY <1>7, <2>1, ClaimsKept DEF StoreFavqueue
<1>8. ASSUME NEW t \in Threads, AddResult(t)
      PROVE  ClaimInv'
  <2>1. PICK n : Become(t, n) /\ n.pc \notin {"add", "store"}
    BY <1>8, AddResultStep
  <2> QED  BY <1>8, <2>1, ClaimsKept DEF AddResult
<1>9. ASSUME NEW t \in Threads, Step(t)
      PROVE  ClaimInv'
  BY <1>2, <1>3, <1>4, <1>5, <1>6, <1>7, <1>8, <1>9, StepCases
<1> QED  BY <1>1, <1>9 DEF Next

\* A new byte is confirmed and stored by one thread only, for any number of
\* threads and any target: Queue::check_new_bytes claims it under the lock.
THEOREM ClaimsCorrect == Spec => []ClaimedOnce
<1>1. Init => ClaimInv
  BY DEF Init, ClaimInv, ClaimsOK, ClaimedOnce, At, Idle
<1>2. ClaimInv => ClaimedOnce
  BY DEF ClaimInv
<1> QED  BY <1>1, <1>2, ClaimStep, InvCorrect, PTL DEF Spec

----------------------------------------------------------------------------
(***************************************************************************)
(* The shortest example of each bit.                                       *)
(***************************************************************************)

\* Every bit an input was stored for has an example, which was stored for it
\* or for the ijon slot of the same index, and is the shortest of those found
\* since the slot was raised.
ExampleInv ==
    /\ \A i \in DOMAIN minex : i \in Indexes(inputs[minex[i]].why, "bit")
                                       \cup Indexes(inputs[minex[i]].why, "ijon")
    /\ \A j \in DOMAIN inputs : \A i \in Indexes(inputs[j].why, "bit") :
          /\ i \in DOMAIN minex
          /\ ~ IjonAfter(i, j) => Len(inputs[minex[i]].data) <= Len(inputs[j].data)

\* The length of an entry is a number.
LEMMA EntryLength ==
    ASSUME NEW e, EntryOK(e)
    PROVE  Len(e.data) \in Nat
<1>1. e.data \in Inputs
  BY DEF EntryOK, Entry
<1> QED  BY <1>1, InputsAreSeqs, LenProperties

\* register_best_input_for_bitmap keeps the shortest.
LEMMA ExampleAdd ==
    ASSUME Inv, ExampleInv, NEW STATE e, EntryOK(e), Storable(e), add(e)
    PROVE  ExampleInv'
<1> DEFINE bits == Indexes(e.why, "bit")
           ijon == Indexes(e.why, "ijon")
           best == ijon \cup {i \in bits : IsBest(e, i)}
<1>1. /\ DOMAIN inputs' = DOMAIN inputs \cup {NewId} /\ NewId \notin DOMAIN inputs
      /\ inputs'[NewId] = e
      /\ \A i \in DOMAIN inputs : inputs'[i] = inputs[i]
  BY AddStep
<1>2. minex' = [i \in DOMAIN minex \cup best |-> IF i \in best THEN NewId ELSE minex[i]]
  BY DEF add
<1>3. \A j \in DOMAIN inputs : NewId > j
  <2>1. inputs \in Seq(Entry)
    BY DEF Inv, QueueOK
  <2> QED  BY <2>1, LenProperties DEF NewId
<1>4. /\ bits \ DOMAIN minex \subseteq best
      /\ \A i \in bits \ best : /\ i \in DOMAIN minex
                                /\ ~ (Len(inputs[minex[i]].data) > Len(e.data))
      /\ \A i \in best \ ijon : \/ i \notin DOMAIN minex
                                \/ Len(inputs[minex[i]].data) > Len(e.data)
  BY DEF IsBest
<1>5. best \subseteq bits \cup ijon
  OBVIOUS
<1>6. /\ Len(e.data) \in Nat
      /\ \A j \in DOMAIN inputs : Len(inputs[j].data) \in Nat
      /\ \A i \in DOMAIN minex : minex[i] \in DOMAIN inputs
  BY EntryLength DEF Inv, QueueOK, ExamplesOK
<1> HIDE DEF best
<1>7. /\ DOMAIN minex' = DOMAIN minex \cup best
      /\ \A i \in DOMAIN minex' : minex'[i] = IF i \in best THEN NewId ELSE minex[i]
  BY <1>2
<1> DEFINE after(i, j) == \E k \in DOMAIN inputs' : k > j /\ i \in Indexes(inputs'[k].why, "ijon")
<1>8. ASSUME NEW i, NEW j \in DOMAIN inputs
      PROVE  /\ i \in ijon => after(i, j)
             /\ IjonAfter(i, j) => after(i, j)
  BY <1>1, <1>3 DEF IjonAfter
<1>9. ASSUME NEW i \in DOMAIN minex'
      PROVE  i \in Indexes(inputs'[minex'[i]].why, "bit")
                       \cup Indexes(inputs'[minex'[i]].why, "ijon")
  <2>1. CASE i \in best
    BY <1>1, <1>5, <1>7, <2>1
  <2>2. CASE i \notin best
    BY <1>1, <1>6, <1>7, <2>2 DEF ExampleInv
  <2> QED  BY <2>1, <2>2
<1> HIDE DEF ijon, after
<1>10. ASSUME NEW j \in DOMAIN inputs', NEW i \in Indexes(inputs'[j].why, "bit")
       PROVE  /\ i \in DOMAIN minex'
              /\ ~ after(i, j) => Len(inputs'[minex'[i]].data) <= Len(inputs'[j].data)
  <2>1. CASE j = NewId
    <3>1. i \in bits /\ i \in DOMAIN minex'
      BY <1>1, <1>4, <1>7, <2>1
    <3>2. CASE i \in best
      BY <1>1, <1>6, <1>7, <2>1, <3>1, <3>2
    <3>3. CASE i \notin best
      <4>1. minex'[i] = minex[i] /\ minex[i] \in DOMAIN inputs
        BY <1>4, <1>6, <1>7, <3>1, <3>3
      <4>2. ~ (Len(inputs[minex[i]].data) > Len(e.data))
        BY <1>4, <3>1, <3>3
      <4> QED  BY <1>1, <1>6, <2>1, <3>1, <4>1, <4>2
    <3> QED  BY <3>2, <3>3
  <2>2. CASE j \in DOMAIN inputs
    <3>1. i \in Indexes(inputs[j].why, "bit") /\ inputs'[j] = inputs[j]
      BY <1>1, <2>2
    <3>2. /\ i \in DOMAIN minex /\ i \in DOMAIN minex'
          /\ ~ IjonAfter(i, j) => Len(inputs[minex[i]].data) <= Len(inputs[j].data)
      BY <1>7, <2>2, <3>1 DEF ExampleInv
    <3>3. CASE i \in ijon
      BY <1>8, <2>2, <3>2, <3>3
    <3>4. CASE i \in best \ ijon
      <4>1. Len(inputs[minex[i]].data) > Len(e.data)
        BY <1>4, <3>2, <3>4
      <4>2. inputs'[minex'[i]] = e
        BY <1>1, <1>7, <3>2, <3>4
      <4> QED  BY <1>6, <1>8, <2>2, <3>1, <3>2, <4>1, <4>2
    <3>5. CASE i \notin best
      <4>1. minex'[i] = minex[i] /\ minex[i] \in DOMAIN inputs
        BY <1>6, <1>7, <3>2, <3>5
      <4> QED  BY <1>1, <1>8, <2>2, <3>1, <3>2, <4>1
    <3> QED  BY <3>3, <3>4, <3>5
  <2> QED  BY <1>1, <2>1, <2>2
<1> QED  BY <1>9, <1>10 DEF ExampleInv, IjonAfter, after

\* Nothing but queue.add changes the examples.
LEMMA ExampleStep ==
    ASSUME Inv, ExampleInv, [Next]_vars
    PROVE  ExampleInv'
<1>1. ASSUME UNCHANGED <<inputs, minex, bitmapBits>>
      PROVE  ExampleInv'
  BY <1>1 DEF ExampleInv, IjonAfter
<1>2. ASSUME NEW t \in Threads, perform_min(t)
      PROVE  ExampleInv'
  <2>1. minex' = minex /\ bitmapBits' = bitmapBits
    BY <1>2 DEF perform_min
  <2>2. /\ DOMAIN inputs' = DOMAIN inputs
        /\ \A i \in DOMAIN inputs : inputs'[i].data = inputs[i].data /\ inputs'[i].why = inputs[i].why
    BY <1>2, PerformMinStep DEF SameBut
  <2>3. \A i \in DOMAIN minex : minex[i] \in DOMAIN inputs
    BY DEF Inv, ExamplesOK
  <2>4. \A i, j : IjonAfter(i, j)' <=> IjonAfter(i, j)
    BY <2>2 DEF IjonAfter
  <2> QED  BY <2>1, <2>2, <2>3, <2>4 DEF ExampleInv
<1>3. ASSUME NEW t \in Threads, AddInput(t)
      PROVE  ExampleInv'
  <2>1. PICK seen \in SUBSET Outcomes(thread[t].run.data) :
            /\ seen # {}
            /\ \/ UNCHANGED <<inputs, minex, bitmapBits>>
               \/ Storable(NewEntry(thread[t], seen)) /\ add(NewEntry(thread[t], seen))
    BY <1>3, AddInputStep
  <2>2. EntryOK(NewEntry(thread[t], seen))
    BY <1>3, <2>1, Confirming DEF AddInput, At
  <2> DEFINE e == NewEntry(thread[t], seen)
  <2>3. UNCHANGED <<inputs, minex, bitmapBits>> \/ (Storable(e) /\ add(e))
    BY <2>1
  <2>4. EntryOK(e)
    BY <2>2
  <2> HIDE DEF e
  <2> QED  BY <1>1, <2>3, <2>4, ExampleAdd
<1>4. ASSUME NEW t \in Threads, AddResult(t)
      PROVE  ExampleInv'
  <2>1. \/ \E e \in thread[t].results : EntryOK(e) /\ Storable(e) /\ add(e)
        \/ UNCHANGED <<inputs, minex, bitmapBits>>
    BY <1>4, AddResultStep
  <2> QED  BY <1>1, <2>1, ExampleAdd
<1>5. ASSUME NEW t \in Threads, Step(t)
      PROVE  ExampleInv'
  <2>1. OwnStep(t) => UNCHANGED <<inputs, minex, bitmapBits>>
    BY OwnSteps
  <2>2. CheckNewBytes(t) \/ CalcFavBits(t) \/ StoreFavqueue(t)
            => UNCHANGED <<inputs, minex, bitmapBits>>
    BY DEF CheckNewBytes, CalcFavBits, StoreFavqueue, queue
  <2> QED  BY <1>1, <1>2, <1>3, <1>4, <1>5, <2>1, <2>2, StepCases
<1>6. CASE UNCHANGED vars
  BY <1>1, <1>6 DEF vars, queue
<1> QED  BY <1>5, <1>6 DEF Next

\* The example of a bit covers it and is the shortest input stored for it, for
\* any number of threads and any target, up to what the ijon slot of the same
\* index put in its place.
THEOREM ExamplesCorrect == Spec => []MinExample
<1>1. Init => ExampleInv
  BY DEF Init, ExampleInv
<1>2. ASSUME Inv, ExampleInv
      PROVE  MinExample
  <2>1. ASSUME NEW i \in DOMAIN minex
        PROVE  \/ i \in inputs[minex[i]].bits
               \/ i \in Indexes(inputs[minex[i]].why, "ijon")
    <3>1. minex[i] \in DOMAIN inputs
      BY <1>2 DEF Inv, ExamplesOK
    <3>2. EntryOK(inputs[minex[i]])
      BY <1>2, <3>1 DEF Inv, QueueOK
    <3>3. \/ i \in Indexes(inputs[minex[i]].why, "bit")
          \/ i \in Indexes(inputs[minex[i]].why, "ijon")
      BY <1>2 DEF ExampleInv
    <3> QED  BY <3>2, <3>3 DEF EntryOK, Indexes, still_valid
  <2> QED  BY <1>2, <2>1 DEF MinExample, ExampleInv
<1>3. Inv /\ ExampleInv /\ [Next]_vars => ExampleInv'
  BY ExampleStep
<1>4. Inv /\ ExampleInv => MinExample
  BY <1>2
<1> QED  BY <1>1, <1>3, <1>4, InvCorrect, PTL DEF Spec
=============================================================================
