---------------------------- MODULE SnapshotFuzz ----------------------------
(***************************************************************************)
(* One fuzzing thread and its virtual machine: the payload buffer they     *)
(* share, the bytecode interpreter of the agent behind the target's reads, *)
(* the temporary snapshot behind a prefix of an input, and the havoc loop  *)
(* that creates the snapshot, mutates only the tail and deletes it again.  *)
(*                                                                         *)
(* Host and guest alternate: send_payload hands the turn to the guest, the *)
(* end of the execution (release, crash, timeout) hands it back.           *)
(*                                                                         *)
(* A node is a packet with its data; node ids and byte offsets of the      *)
(* buffers are the positions in the two sequences of the payload.  What    *)
(* the mutations do to a tail is abstracted to "any packets"; entries in   *)
(* state Minimize, whose runs use no snapshot either, are left out.        *)
(***************************************************************************)
EXTENDS Integers, Sequences, SequencesExt

CONSTANTS
    Packets,       \* packet contents, sequences of bytes
    MaxNodes,      \* nodes that fit into the payload buffer
    Chan,          \* static buffers of the agent: call_vm's and call_vm_can's
    FirstChan,     \* the channel of the target's first read
    MaxSize,       \* bytes a read of the channel takes: the caller's, or a frame
    Datagram,      \* UDP_MODE: no buffer, the packet goes to the caller
    BufferSize,    \* PACKET_BUFFER_SIZE
    Placement,     \* "None", "Balanced" or "Aggressive"
    MinCutoff,     \* 4: no snapshot for shorter inputs
    HavocRuns,     \* 50 executions per snapshot (10 without)
    FilterRuns,    \* 10 executions to confirm new coverage
    NoFindLimit,   \* 50 iterations without finds before the cutoff moves
    MaxQueue,      \* bound: corpus entries
    Fatal,         \* packets after which the target ends by itself
    Nondet         \* the target may end anywhere, run by run

ASSUME SnapshotFuzzAssumption ==
    /\ MaxNodes \in Nat /\ MinCutoff \in Nat \ {0}
    /\ HavocRuns \in Nat \ {0} /\ FilterRuns \in Nat \ {0}
    /\ NoFindLimit \in Nat /\ MaxQueue \in Nat
    /\ FirstChan \in Chan
    /\ MaxSize \in [Chan -> Nat \ {0}]
    /\ BufferSize \in Nat
    /\ Packets \subseteq Seq(0..255)
    /\ \A p \in Packets : Len(p) <= BufferSize    \* data_vec's size_range
    /\ Placement \in {"None", "Balanced", "Aggressive"}
    /\ Datagram \in BOOLEAN /\ Nondet \in BOOLEAN
    /\ Fatal \subseteq Packets

VARIABLES
    turn,     \* who runs: "host" or "guest"
    hpc,      \* what the host's current execution is for
    entry,    \* queue index of the input being fuzzed, 0 for none
    skip,     \* MutatorSnapshotState: nodes in front of the snapshot
    snap,     \* the runs of this iteration use a temporary snapshot
    left,     \* executions left in the current loop
    finds,    \* has_new_finds
    cand,     \* the input whose coverage is being confirmed
    queue,    \* the corpus
    payload,  \* the shared buffer: ops and their data
    guest,    \* state of the virtual machine
    tmp,      \* the temporary snapshot
    created,  \* aux.result.tmp_snapshot_created
    discard,  \* aux.config.discard_tmp_snapshot
    result    \* what the host reads after an execution

host == <<hpc, entry, skip, snap, left, finds, cand, queue, payload>>
vm   == <<guest, tmp, created, discard, result>>
vars == <<turn, host, vm>>

None == [none |-> TRUE]
Lesser(a, b) == IF a < b THEN a ELSE b

----------------------------------------------------------------------------
(***************************************************************************)
(* The agent.  call is the read in progress; ready says that the channel's *)
(* buffer has been looked after.  fetched and got are history: the packets *)
(* taken from the payload, and the bytes handed to the target.             *)
(***************************************************************************)

Call(ch, ready) == [ch |-> ch, ready |-> ready]

\* The state of the root snapshot, taken by the first read of the target.
Root == [ops_i |-> 0, data_i |-> 0, counter |-> 0,
         buf |-> [c \in Chan |-> <<>>], call |-> Call(FirstChan, FALSE),
         fetched |-> <<>>, got |-> [c \in Chan |-> <<>>]]

\* handler_packet: at most len bytes of the packet reach the buffer.
handler_packet(pkt, len) == SubSeq(pkt, 1, Lesser(Len(pkt), len))

\* A read of a channel: served from its buffer while that holds data.
read(g, ch) == [g EXCEPT !.call = Call(ch, g.buf[ch] # <<>>)]

\* interpreter_run up to the packet that ends it, into the channel's buffer.
interpreter_run(g) ==
    LET ch == g.call.ch
        pkt == payload.data[g.data_i + 1]
    IN  [g EXCEPT !.ops_i = @ + 1, !.data_i = @ + 1, !.counter = @ + 1,
                  !.buf[ch] = handler_packet(pkt, IF Datagram THEN MaxSize[ch] ELSE BufferSize),
                  !.call.ready = TRUE,
                  !.fetched = Append(@, [ch |-> ch, pkt |-> pkt])]

\* Mutant: next_data does not advance.
CopyNoAdvance(g) ==
    LET ch == g.call.ch
        n  == Lesser(Len(g.buf[ch]), MaxSize[ch])
    IN  [g EXCEPT !.call = None, !.got[ch] = @ \o SubSeq(g.buf[ch], 1, n),
                  !.buf[ch] = SubSeq(@, 1, Len(@) - n)]

\* The rest of call_vm and call_vm_can: copy, advance, return.
call_vm(g) ==
    LET ch == g.call.ch
        n  == Lesser(Len(g.buf[ch]), MaxSize[ch])
    IN  [g EXCEPT !.call = None, !.got[ch] = @ \o SubSeq(g.buf[ch], 1, n),
                  !.buf[ch] = SubSeq(@, n + 1, Len(@))]

\* Mutant: the handler does not step back over its own op.
SnapshotNoRewind(g) == [g EXCEPT !.counter = @ + 1, !.ops_i = @ + 1]

\* Mutant: stepped back over, but not forward again.
SnapshotRewindTwice(g) == [g EXCEPT !.counter = @ + 1, !.ops_i = @ - 1]

\* The create_tmp_snapshot op: counted, then stepped back over, so that the
\* resumed interpreter reads the op that replaces it.
create_tmp_snapshot(g) == [g EXCEPT !.counter = @ + 1]

----------------------------------------------------------------------------
(***************************************************************************)
(* QEMU-Nyx.  The coverage buffer, which holds the instruction counter, is *)
(* saved and restored with the temporary snapshot.                         *)
(***************************************************************************)

\* Mutant: the machine is reloaded before the snapshot is discarded.
ReloadFirst(t, d) == IF t # None THEN t ELSE Root

\* Mutant: the machine is always reloaded from the root snapshot.
ReloadRoot(t, d) == Root

\* handle_tmp_snapshot_state, then perform_reload.
Reloaded(t, d) == IF d \/ t = None THEN Root ELSE t

\* The end of an execution in guest state g, with temporary snapshot t.
EndRun(g, t, exit) ==
    /\ result' = [exit |-> exit, used |-> g.counter, real |-> Len(g.fetched)]
    /\ guest' = Reloaded(t, discard)
    /\ tmp' = IF discard THEN None ELSE t
    /\ discard' = FALSE
    /\ turn' = "host"
    /\ UNCHANGED host

Running == turn = "guest"

\* The target ends where its input tells it to, or anywhere.
Stops(g) == g.fetched # <<>> /\ Last(g.fetched).pkt \in Fatal /\ g.call = None

Step(g) == /\ guest' = g
           /\ UNCHANGED <<turn, host, tmp, created, discard, result>>

Read(ch) == /\ Running
            /\ guest.call = None
            /\ ~ Stops(guest)
            /\ Step(read(guest, ch))

AtOp(op) == /\ Running
            /\ guest.call # None
            /\ ~ guest.call.ready
            /\ guest.ops_i < Len(payload.ops)
            /\ payload.ops[guest.ops_i + 1] = op

Fetch == AtOp("packet") /\ Step(interpreter_run(guest))

Copy == /\ Running
        /\ guest.call # None
        /\ guest.call.ready
        /\ Step(call_vm(guest))

\* HYPERCALL_KAFL_CREATE_TMP_SNAPSHOT: save, and end the execution.  With a
\* temporary snapshot in place the op spins until the timeout.
CreateTmpSnapshot ==
    /\ AtOp("snap")
    /\ tmp = None
    /\ created' = IF discard THEN 0 ELSE 1
    /\ EndRun(guest, create_tmp_snapshot(guest), "normal")

Ended(g, exit) == /\ created' = IF discard THEN 0 ELSE created
                  /\ EndRun(g, tmp, exit)

\* call_vm returns -1: the read hook releases.
OutOfData == /\ Running
             /\ guest.call # None
             /\ ~ guest.call.ready
             /\ guest.ops_i >= Len(payload.ops)
             /\ Ended(guest, "normal")

\* The target exits, closes its last connection, or crashes; or the kernel does
\* not tell call_vm_can the options of its socket (between Fetch and Copy), the
\* hook returns -1 as for want of data, and releases.
Stop(exit) == /\ Running
              /\ exit \in {"normal", "crash"}
              /\ Nondet \/ Stops(guest)
              /\ Ended(guest, exit)

Timeout == Running /\ Ended(guest, "timeout")

----------------------------------------------------------------------------
(***************************************************************************)
(* The host.                                                               *)
(***************************************************************************)

PacketOps(n) == [i \in 1..n |-> "packet"]
Graph(data)  == [ops |-> PacketOps(Len(data)), data |-> data]
Tails(n)     == SeqOf(Packets, MaxNodes - n)

\* builder.start: truncate_to(skip_ops, skip_data).
start(p, n) == [ops |-> SubSeq(p.ops, 1, n), data |-> SubSeq(p.data, 1, n)]

\* append_node and append_random, for each node of a tail.
append(p, data) == [ops |-> p.ops \o PacketOps(Len(data)), data |-> p.data \o data]

\* prepare_snapshot: the prefix and the snapshot op.
prepare_snapshot(p, data, cutoff) ==
    LET q == append(start(p, 0), SubSeq(data, 1, cutoff))
    IN  [q EXCEPT !.ops = Append(@, "snap")]

max_cutoff(e) == IF Len(e.data) = 0 THEN 0 ELSE Len(e.data) - 1
num_nodes(e)  == Lesser(e.used, Len(e.data))

At(pc) == turn = "host" /\ hpc = pc

\* send_payload
Send(pc) == hpc' = pc /\ turn' = "guest"

\* The cutoffs of an iteration with a snapshot.
Cutoffs(e) == CASE Placement = "None" -> {}
                [] Placement = "Balanced" ->
                     IF num_nodes(e) > MinCutoff THEN 0..(num_nodes(e) - 1) ELSE {}
                [] Placement = "Aggressive" ->
                     IF e.cutoff < MinCutoff THEN {} ELSE {e.cutoff}

Init == /\ turn = "host" /\ hpc = "iter"
        /\ entry = 0 /\ skip = 0 /\ snap = FALSE /\ left = 0 /\ finds = FALSE
        /\ cand = None /\ queue = <<>>
        /\ payload = Graph(<<>>)
        /\ guest = Root
        /\ tmp = None /\ created = 0 /\ discard = FALSE
        /\ result = None

\* iter with an empty queue: perform_gen.
Generate == /\ At("iter")
            /\ queue = <<>>
            /\ \E t \in Tails(0) : payload' = append(start(payload, 0), t)
            /\ Send("test")
            /\ entry' = 0 /\ skip' = 0 /\ snap' = FALSE /\ left' = 1 /\ finds' = FALSE
            /\ UNCHANGED <<cand, queue, vm>>

\* iter, havoc_no_snap: Balanced does so now and then for long inputs too.
HavocNoSnap == /\ At("iter")
               /\ \E i \in DOMAIN queue :
                     /\ Placement = "Aggressive" => Cutoffs(queue[i]) = {}
                     /\ entry' = i
               /\ hpc' = "mutate"
               /\ skip' = 0 /\ snap' = FALSE /\ left' = HavocRuns /\ finds' = FALSE
               /\ UNCHANGED <<turn, cand, queue, payload, vm>>

\* iter, havoc_with_snap: prepare_snapshot, then run_create_snapshot, which
\* asserts that there is no temporary snapshot.
HavocWithSnap == /\ At("iter")
                 /\ \E i \in DOMAIN queue : \E c \in Cutoffs(queue[i]) :
                       /\ entry' = i
                       /\ skip' = c
                       /\ payload' = prepare_snapshot(payload, queue[i].data, c)
                 /\ IF created = 0 THEN Send("create")
                    ELSE hpc' = "asserted" /\ UNCHANGED turn
                 /\ snap' = TRUE /\ left' = HavocRuns /\ finds' = FALSE
                 /\ UNCHANGED <<cand, queue, vm>>

\* The end of havoc_snap_aggressive: update_iters_no_finds (which need not
\* count beyond the limit), and the next cutoff.
AfterSnap(e, found) ==
    LET n == IF found THEN 0 ELSE Lesser(e.idle + 1, NoFindLimit + 1)
    IN  IF Placement # "Aggressive" THEN e
        ELSE [e EXCEPT !.idle = n,
                       !.cutoff = IF n <= NoFindLimit THEN @
                                  ELSE IF @ = MinCutoff THEN max_cutoff(e) ELSE @ - 1]

BackToIter(q) == /\ hpc' = "iter"
                 /\ entry' = 0 /\ skip' = 0 /\ snap' = FALSE /\ left' = 0 /\ finds' = FALSE
                 /\ queue' = IF snap THEN [q EXCEPT ![entry] = AfterSnap(@, finds)] ELSE q

\* The prefix did or did not get as far as the snapshot op.
CreateDone == /\ At("create")
              /\ \/ /\ created = 1
                    /\ hpc' = "mutate"
                    /\ UNCHANGED <<entry, skip, snap, left, finds, queue>>
                 \/ /\ created # 1
                    /\ BackToIter(queue)
              /\ UNCHANGED <<turn, cand, payload, vm>>

\* mutate: ops_used - skip_nodes is a usize.  Below zero it wraps, and the
\* asserts of splice and repeat (and, one below, the range mutate_data draws
\* from) fail; the other strategies go on, and so does an input of which nothing
\* was used.
Mutate ==
    LET used == queue[entry].used
    IN  /\ At("mutate")
        /\ left > 0
        /\ \/ /\ \E t \in Tails(skip) : payload' = append(start(payload, skip), t)
              /\ Send("test")
           \/ /\ 0 < used /\ used < skip
              /\ payload' = start(payload, skip)
              /\ hpc' = "asserted"
              /\ UNCHANGED turn
        /\ UNCHANGED <<entry, skip, snap, left, finds, cand, queue, vm>>

\* Mutant: a run with a snapshot is not counted.
TestDoneNoCount ==
    /\ At("test")
    /\ \/ /\ hpc' = "mutate"
          /\ left' = IF snap THEN left ELSE left - 1
          /\ UNCHANGED <<turn, cand>>
       \/ /\ Len(queue) < MaxQueue
          /\ cand' = [ops |-> payload.ops, data |-> payload.data,
                      used |-> Lesser(result.used, Len(payload.data)),
                      real |-> result.real, exit |-> result.exit, again |-> FilterRuns]
          /\ Send("filter")
          /\ UNCHANGED left
    /\ UNCHANGED <<entry, skip, snap, finds, queue, payload, vm>>

\* Mutant: ops_used is what the machine reported.
TestDoneUnclamped ==
    /\ At("test")
    /\ \/ /\ hpc' = "mutate"
          /\ left' = left - 1
          /\ UNCHANGED <<turn, cand>>
       \/ /\ Len(queue) < MaxQueue
          /\ cand' = [ops |-> payload.ops, data |-> payload.data, used |-> result.used,
                      real |-> result.real, exit |-> result.exit, again |-> FilterRuns]
          /\ Send("filter")
          /\ UNCHANGED left
    /\ UNCHANGED <<entry, skip, snap, finds, queue, payload, vm>>

\* perform_run after run_test: no new coverage, or an input whose coverage
\* filter_nondet_storage_reasons has to confirm.
TestDone ==
    /\ At("test")
    /\ \/ /\ hpc' = "mutate"
          /\ left' = left - 1
          /\ UNCHANGED <<turn, cand>>
       \/ /\ Len(queue) < MaxQueue
          /\ cand' = [ops |-> payload.ops, data |-> payload.data,
                      used |-> Lesser(result.used, Len(payload.data)),
                      real |-> result.real, exit |-> result.exit, again |-> FilterRuns]
          /\ Send("filter")
          /\ UNCHANGED left
    /\ UNCHANGED <<entry, skip, snap, finds, queue, payload, vm>>

\* queue.add: only inputs that ran to an end or crashed, and none without nodes.
add == IF cand.data = <<>> \/ cand.exit \notin {"normal", "crash"} THEN queue
       ELSE Append(queue, [ops |-> cand.ops, data |-> cand.data, used |-> cand.used,
                           real |-> cand.real, cutoff |-> max_cutoff(cand), idle |-> 0])

\* The same payload again, or the verdict.
FilterDone ==
    /\ At("filter")
    /\ \/ /\ cand.again > 1
          /\ cand' = [cand EXCEPT !.again = @ - 1]
          /\ Send("filter")
          /\ UNCHANGED <<left, finds, queue>>
       \/ /\ cand.again = 1
          /\ \/ queue' = add
             \/ UNCHANGED queue
          /\ finds' = (finds \/ queue' # queue)
          /\ cand' = None
          /\ hpc' = "mutate"
          /\ left' = left - 1
          /\ UNCHANGED turn
    /\ UNCHANGED <<entry, skip, snap, payload, vm>>

\* Mutant: the payload is sent without the request to discard.
LoopDoneNoDiscard ==
    /\ At("mutate")
    /\ left = 0
    /\ IF snap THEN Send("delete") /\ UNCHANGED <<entry, skip, snap, left, finds, queue>>
       ELSE BackToIter(queue) /\ UNCHANGED turn
    /\ UNCHANGED <<cand, payload, vm>>

\* The loop is over: delete_snapshot runs the last payload once more, and the
\* machine discards the snapshot at the end of that execution.
LoopDone ==
    /\ At("mutate")
    /\ left = 0
    /\ \/ /\ ~ snap
          /\ BackToIter(queue)
          /\ UNCHANGED <<turn, discard>>
       \/ /\ snap
          /\ discard' = TRUE
          /\ Send("delete")
          /\ UNCHANGED <<entry, skip, snap, left, finds, queue>>
    /\ UNCHANGED <<cand, payload, guest, tmp, created, result>>

\* delete_snapshot asserts that the snapshot is gone.
DeleteDone == /\ At("delete")
              /\ IF created = 0 THEN BackToIter(queue)
                 ELSE hpc' = "asserted" /\ UNCHANGED <<entry, skip, snap, left, finds, queue>>
              /\ UNCHANGED <<turn, cand, payload, vm>>

Next == \/ \E ch \in Chan : Read(ch)
        \/ Fetch \/ Copy \/ CreateTmpSnapshot
        \/ OutOfData \/ Timeout
        \/ \E exit \in {"normal", "crash"} : Stop(exit)
        \/ Generate \/ HavocNoSnap \/ HavocWithSnap
        \/ CreateDone \/ Mutate \/ TestDone \/ FilterDone \/ LoopDone \/ DeleteDone

Spec == Init /\ [][Next]_vars

\* The host waits for nothing but the machine, and the machine's timeout ends
\* a target that no longer reads: some step of the two is always taken.
FairSpec == Spec /\ WF_vars(Next)
----------------------------------------------------------------------------
(***************************************************************************)
(* Properties.                                                             *)
(***************************************************************************)

Graphs  == [ops : Seq({"packet", "snap"}), data : Seq(Packets)]
Entries == [ops : Seq({"packet", "snap"}), data : Seq(Packets), used : Nat,
            real : Nat, cutoff : Nat, idle : 0..(NoFindLimit + 1)]
Machines == [ops_i : Nat, data_i : Nat, counter : Nat, buf : [Chan -> Seq(Nat)],
             call : {None} \cup [ch : Chan, ready : BOOLEAN],
             fetched : Seq([ch : Chan, pkt : Packets]), got : [Chan -> Seq(Nat)]]

\* The host, the payload and the machine have their types.
TypeOK == /\ turn \in {"host", "guest"}
          /\ hpc \in {"iter", "create", "mutate", "test", "filter", "delete", "asserted"}
          /\ entry \in 0..Len(queue)
          /\ skip \in Nat /\ left \in Nat
          /\ snap \in BOOLEAN /\ finds \in BOOLEAN /\ discard \in BOOLEAN
          /\ queue \in Seq(Entries)
          /\ payload \in Graphs
          /\ guest \in Machines
          /\ tmp \in {None} \cup Machines
          /\ created \in {0, 1}

\* What the target has been given is a prefix of the payload the host will
\* save: also when the packets before the snapshot came from the payload that
\* created it, and the ones behind it from a mutated one.
ConsumedIsPrefix ==
    Running => /\ Len(guest.fetched) <= Len(payload.data)
               /\ \A i \in DOMAIN guest.fetched : guest.fetched[i].pkt = payload.data[i]

\* An execution that runs out of bytecode has been given all of the payload:
\* the interpreter resumes at the very op that took the snapshot op's place.
NothingSkipped ==
    (Running /\ guest.call # None /\ ~ guest.call.ready /\ guest.ops_i >= Len(payload.ops))
        => Len(guest.fetched) = Len(payload.data)

\* The packets a channel took from the bytecode.
Taken(ch) == FlattenSeq([i \in DOMAIN guest.fetched |->
                            IF guest.fetched[i].ch = ch THEN guest.fetched[i].pkt ELSE <<>>])

\* Each channel is a byte stream: what its reads returned, and what its buffer
\* holds, are its packets in order, whatever the other channel took in between
\* and whether the buffer was filled before or after the snapshot.
ChannelStream ==
    ~ Datagram => \A ch \in Chan : Taken(ch) = guest.got[ch] \o guest.buf[ch]

\* A stored input replays: it holds no snapshot op, and ops_used counts the
\* nodes its execution took, or one more when the snapshot op was counted too.
CorpusReplays ==
    \A i \in DOMAIN queue :
        LET e == queue[i]
        IN  /\ e.ops = PacketOps(Len(e.data))
            /\ e.used \in {e.real, e.real + 1}
            /\ e.used <= Len(e.data)

\* assert_eq!(tmp_snapshot_created, 0) before and after, and the asserts of
\* splice and repeat: the thread never panics.
NoPanic == hpc # "asserted"

\* Between two iterations the machine is back at the root snapshot, and the
\* flag the host reads says so.
RootBetweenIterations ==
    hpc = "iter" => tmp = None /\ created = 0 /\ guest = Root

\* A temporary snapshot is always given up again.
SnapshotDeleted == (tmp # None) ~> (tmp = None)

----------------------------------------------------------------------------
(***************************************************************************)
(* The thread's machine as MachineSnapshot sees it.  The counter lives in  *)
(* the shared coverage buffer: the snapshot handler counts its own op      *)
(* while the snapshot is being taken.                                      *)
(***************************************************************************)

Uncounted(g) == IF g = None THEN None ELSE [g EXCEPT !.counter = 0]

Snapshots == INSTANCE MachineSnapshot WITH
    NoSnapshot <- None,
    machine    <- Uncounted(guest),
    root       <- Uncounted(Root),
    tmp        <- Uncounted(tmp),
    phase      <- IF turn = "host" THEN "ready" ELSE "run"

\* What the host sees when an execution is over is a machine in the snapshot
\* its next execution is to start from: the machine SnapshotFuzz assumes under
\* the thread is the one FastReload is shown to implement.
UsesSnapshots == Snapshots!Spec

=============================================================================
