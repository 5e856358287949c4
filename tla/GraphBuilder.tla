--------------------------- MODULE GraphBuilder ---------------------------
(***************************************************************************)
(* How the fuzzer builds the graph it runs next (graph_builder.rs,         *)
(* mutator.rs, and the storage of graph_storage.rs that lies in the        *)
(* payload shared with the guest). A graph is a sequence of nodes. The     *)
(* first op of a node is its type; the others are the ids of the values    *)
(* it takes (inputs), borrows (passthroughs) and offers (outputs). Nodes   *)
(* are generated, or copied from graphs of the queue, whose ids are then   *)
(* renamed and linked to what the new graph offers; with a snapshot, every *)
(* mutation continues behind the same prefix of the payload.               *)
(*                                                                         *)
(* A mutation first lays out its work (todo), then appends node by node.   *)
(* Data is modelled by its length: whether a node still fits depends on it.*)
(***************************************************************************)
EXTENDS ValueState, FiniteSetsExt, SequencesExt

CONSTANTS
  ValueTypeIDs, \* the types of values
  Setups,       \* specifications with the largest least size of a data type they
                \* register, payload sizes and snapshot placements, and bounds:
                \* on the nodes one append_random appends (max_generate), on
                \* the graphs kept in the queue (max_queue) and their nodes
                \* (max_kept)
  Imports,      \* graphs of seed files: sequences of nodes
  MaxFragment,  \* bound on the nodes repeat repeats, at least 2
  MaxRepeats,   \* bound on how often, at least 2
  MinNodes      \* balanced placement needs more nodes than this, aggressive
                \* placement puts that many before the snapshot (4 and MIN_CUTOFF)

VARIABLES
  setup,    \* the member of Setups this process runs with
  state,    \* GraphBuilder.state: ValueType -> ValueState, for the types met so far
  storage,  \* the payload: nodes, ops used, bytes of data used
  queue,    \* the graphs mutations start from, each with its ops_used
  snap,     \* the MutatorSnapshotState with its entry, or NoSnapshot
  todo,     \* what the current mutation still has to append
  phase     \* "idle", "build", "prefix" or, after a panic, "panicked"

vars == <<setup, state, storage, queue, snap, todo, phase>>

(* A NodeSpec, with the lengths its data may have *)
NodeSpecs == [inputs : Seq(ValueTypeIDs), passthroughs : Seq(ValueTypeIDs),
              outputs : Seq(ValueTypeIDs), data : (SUBSET Nat) \ {{}}]

(* A specification has nodes; the nodes of a seed file are whole.          *)
ASSUME GraphBuilderAssumption ==
  /\ \A s \in Setups :
       /\ s.nodes \in Seq(NodeSpecs) \ {<<>>}
       /\ s.max_ops \in Nat /\ s.max_data \in Nat /\ s.max_generate \in Nat
       /\ s.max_queue \in Nat /\ s.max_kept \in Nat
       /\ s.placement \in {"none", "balanced", "aggressive"}
       /\ s.biggest_data \in Nat
       /\ \A n \in DOMAIN s.nodes : Min(s.nodes[n].data) <= s.biggest_data
       /\ \A g \in Imports[s.name] :
            /\ g \in Seq([ops : Seq(Nat), data : Nat])
            /\ \A i \in DOMAIN g :
                 LET n == g[i].ops[1]
                     t == s.nodes[n]
                 IN  /\ g[i].ops # <<>> /\ n \in DOMAIN s.nodes
                     /\ Len(g[i].ops) = 1 + Len(t.inputs) + Len(t.passthroughs) + Len(t.outputs)
                     /\ g[i].data \in t.data
  /\ MaxFragment \in Nat /\ MaxRepeats \in Nat
  /\ MinNodes \in Nat

NoSnapshot ==
  [entry |-> [nodes |-> <<>>, ops_used |-> 0],
   skip_nodes |-> 0, skip_ops |-> 0, skip_data |-> 0, prefix |-> 0, state |-> Empty]

SnapshotNode == 0  \* spec.snapshot_node_id: no operands, no data, never generated

-----------------------------------------------------------------------------
(* The specification of the nodes (spec.rs) *)

NodeTypes == 1 .. Len(setup.nodes)

(* NodeSpec of a type: sequences of value types and the lengths its data may have *)
get_node(n) ==
  IF n = SnapshotNode
  THEN [inputs |-> <<>>, passthroughs |-> <<>>, outputs |-> <<>>, data |-> {0}]
  ELSE setup.nodes[n]

size(n) == LET s == get_node(n)
           IN  Len(s.inputs) + Len(s.passthroughs) + Len(s.outputs)

Occurrences(v, types) == Cardinality({i \in DOMAIN types : types[i] = v})

(* Mutant: a borrow needs no value. *)
RequireInputs(n, v) == Occurrences(v, get_node(n).inputs)

(* required_values: every input needs a value of its own, borrows share one more *)
required_values(n, v) ==
  Occurrences(v, get_node(n).inputs)
    + (IF Occurrences(v, get_node(n).passthroughs) > 0 THEN 1 ELSE 0)

ValueTypes(n) == LET s == get_node(n) IN ToSet(s.inputs \o s.passthroughs \o s.outputs)

(* Over every data type that is registered, a node has it or not *)
biggest_data == setup.biggest_data
biggest_ops == Max({size(n) + 1 : n \in NodeTypes})

(* OpIter: the role and the value type of every op behind the first one *)
Roles(n) ==
  LET as(role, types) == [i \in DOMAIN types |-> <<role, types[i]>>]
      s == get_node(n)
  IN  as("Get", s.inputs) \o as("Pass", s.passthroughs) \o as("Set", s.outputs)

-----------------------------------------------------------------------------
(* The values on offer (GraphState) *)

get_state(st, v) == IF v \in DOMAIN st THEN st[v] ELSE new

is_available(st, n) ==
  \A v \in ValueTypes(n) :
    required_values(n, v) > 0 =>
      v \in DOMAIN st /\ num_available(st[v]) >= required_values(n, v)

(* An op after renaming: the new state and id, or a panic *)
Linked(st, v, s, id) == [ok |-> TRUE, st |-> InsertKey(st, v, s), id |-> id]
Panic(st) == [ok |-> FALSE, st |-> st, id |-> 0]

Taken(st, v, id) ==
  LET s == get_state(st, v)
  IN  IF id \in DOMAIN s.index THEN Linked(st, v, take_new_input(s, id), id) ELSE Panic(st)

OrPanic(outcomes, st) == IF outcomes = {} THEN {Panic(st)} ELSE outcomes

(* Mutant: a borrow of a value that was not renamed gets any id. *)
BorrowAny(st, role, v, id) ==
  LET s == get_state(st, v)
  IN  CASE role = "Set"  -> {Linked(st, v, insert_old_id(s, id), s.cur + 1)}
        [] role = "Get"  -> OrPanic({Taken(st, v, x) : x \in get_old_available_input(s, id)}, st)
        [] role = "Pass" -> {Linked(st, v, s, x) :
                               x \in IF id \in DOMAIN s.o2n THEN {s.o2n[id]} ELSE 1 .. s.cur}

rename_and_relink_op_val(st, role, v, id) ==
  LET s == get_state(st, v)
  IN  CASE role = "Set"  -> {Linked(st, v, insert_old_id(s, id), s.cur + 1)}
        [] role = "Get"  -> OrPanic({Taken(st, v, x) : x \in get_old_available_input(s, id)}, st)
        [] role = "Pass" -> OrPanic({Linked(st, v, s, x) : x \in get_old_available_input(s, id)}, st)

random_op_val(st, role, v) ==
  LET s == get_state(st, v)
  IN  CASE role = "Set"  -> {Linked(st, v, insert_new_id(s), s.cur + 1)}
        [] role = "Get"  -> OrPanic({Taken(st, v, x) : x \in get_random_input(s)}, st)
        [] role = "Pass" -> OrPanic({Linked(st, v, s, x) : x \in get_random_input(s)}, st)

(* The j-th operand of a node of type n: a copy has the ops to rename, a   *)
(* generated node has none                                                 *)
op_val(st, n, frag, j) ==
  LET role == Roles(n)[j][1]
      v    == Roles(n)[j][2]
  IN  IF frag = <<>> THEN random_op_val(st, role, v)
      ELSE rename_and_relink_op_val(st, role, v, frag[j + 1])

(* One operand more, in all ways, unless an earlier one panicked           *)
LinkNext(o, n, frag, j) ==
  IF o.ok THEN {[ok |-> x.ok, st |-> x.st, ops |-> Append(o.ops, x.id)] :
                  x \in op_val(o.st, n, frag, j)}
  ELSE {o}

(* All ways to link the operands of a node of type n, one after the other  *)
LinkAll(st, n, frag) ==
  LET link[j \in 0 .. size(n)] ==
        IF j = 0 THEN {[ok |-> TRUE, st |-> st, ops |-> <<n>>]}
        ELSE UNION {LinkNext(o, n, frag, j) : o \in link[j - 1]}
  IN  link[size(n)]

append_slice(st, node) == LinkAll(st, node.ops[1], node.ops)

append_random_ops(st, n) == LinkAll(st, n, <<>>)

-----------------------------------------------------------------------------
(* The payload (RefGraph) *)

ops_available(g) == setup.max_ops - g.ops_i
data_available(g) == setup.max_data - g.data_i

(* Mutant: the data is not looked at. *)
CanAppendAlways(g, node) == TRUE

(* strict, and about the data only *)
can_append(g, node) == g.data_i + node.data < setup.max_data

(* append_op writes nothing, and says so to nobody, once the ops are full *)
append(g, ops, data) ==
  LET fits == SubSeq(ops, 1, Min({Len(ops), ops_available(g)}))
  IN  [nodes  |-> IF fits = <<>> THEN g.nodes
                  ELSE Append(g.nodes, [ops |-> fits, data |-> data]),
       ops_i  |-> g.ops_i + Len(fits),
       data_i |-> g.data_i + data]

(* s.prefix is the number of nodes in the first s.skip_ops ops *)
truncate_to(g, s) ==
  [nodes  |-> SubSeq(g.nodes, 1, s.prefix),
   ops_i  |-> s.skip_ops,
   data_i |-> s.skip_data]

EmptyStorage == [nodes |-> <<>>, ops_i |-> 0, data_i |-> 0]

is_full(g) ==
  biggest_data >= data_available(g) \/ biggest_ops >= ops_available(g)

(* node_iter slices the ops of every node: a node cut short panics *)
Iterable(nodes) ==
  \A i \in DOMAIN nodes : Len(nodes[i].ops) = 1 + size(nodes[i].ops[1])

-----------------------------------------------------------------------------
(* Mutations (mutator.rs), as the work they lay out: a node to copy, a     *)
(* node splice_random copies, drops or replaces, n nodes to generate, or   *)
(* an assertion that fails. "checked" work is given up altogether when the *)
(* payload is full.                                                        *)

Work(kind, checked, node, n) == [kind |-> kind, checked |-> checked, node |-> node, n |-> n]
NoNode == [ops |-> <<SnapshotNode>>, data |-> 0]

Each(kind, checked, nodes) == [i \in DOMAIN nodes |-> Work(kind, checked, nodes[i], 0)]
Generate(n) == <<Work("generate", FALSE, NoNode, n)>>
Fail(checked) == <<Work("fail", checked, NoNode, 0)>>

skip(nodes, n) == SubSeq(nodes, n + 1, Len(nodes))
take(nodes, n) == SubSeq(nodes, 1, Min({n, Len(nodes)}))

generate == {Generate(n) : n \in 1 .. setup.max_generate}

(* len is ops_used - skip_nodes, a usize. Below zero it wraps: nothing is   *)
(* as long, so that take takes all nodes, and a position is any, of which  *)
(* the one behind the last node stands for all that are not there.         *)
Positions(rest, len) == 0 .. (IF len < 0 THEN Len(rest) ELSE Max({0, len - 1}))

generate_tail(rest, len) ==
  {Each("copy", TRUE, take(rest, n)) \o Generate(m) :
     n \in (IF len < 0 THEN {Len(rest)} ELSE 1 .. len), m \in 1 .. setup.max_generate}

(* should_mutate_data draws from 0 .. len, an empty range when it wrapped to the largest *)
mutate_data(rest, len) == {IF len = -1 THEN Fail(TRUE) ELSE Each("copy", TRUE, rest)}

splice_random(rest, ops_used) == {Each("pick", TRUE, take(rest, ops_used))}

Fragments(nodes) ==
  {SubSeq(nodes, r[1], r[2]) : r \in {r \in (DOMAIN nodes) \X (DOMAIN nodes) : r[1] <= r[2]}}

(* The fragment goes in before the node at the point, the two as one: the  *)
(* payload is looked at before and after them                              *)
Spliced(rest, point, fragment) ==
  Each("copy", TRUE, <<Head(fragment)>>) \o Each("copy", FALSE, Tail(fragment))
    \o Each("copy", FALSE, <<rest[point + 1]>>) \o Each("copy", TRUE, skip(rest, point + 1))

(* The points are sorted upwards and popped from the end: whatever their   *)
(* number, only the largest is met. assert!(spliced)                       *)
splice(rest, len) ==
  UNION {{Each("copy", TRUE, take(rest, point))
            \o (IF point < Len(rest) THEN Spliced(rest, point, fragment) ELSE Fail(FALSE)) :
            fragment \in UNION {Fragments(other.nodes) : other \in queue}} :
         point \in Positions(rest, len)}

(* assert!(origs.len() > 0) *)
repeat(rest, len) ==
  UNION {{Each("copy", TRUE, take(rest, pos))
            \o (IF pos = Len(rest) THEN Fail(FALSE) ELSE <<>>)
            \o FlattenSeq([r \in 1 .. repeats |-> Each("copy", TRUE, take(skip(rest, pos), fragment))])
            \o Each("copy", TRUE, skip(rest, pos)) :
            fragment \in 2 .. MaxFragment, repeats \in 2 .. MaxRepeats} :
         pos \in Positions(rest, len - 1)}

mutations(entry, s) ==
  LET rest == skip(entry.nodes, s.skip_nodes)
      len  == entry.ops_used - s.skip_nodes
  IN  IF entry.nodes = <<>> \/ len = 0 \/ entry.ops_used = 0
      THEN generate
      ELSE generate_tail(rest, len) \cup mutate_data(rest, len)
             \cup splice_random(rest, entry.ops_used)
             \cup splice(rest, len) \cup repeat(rest, len)

(* What the guest did not execute, a block, or one node *)
drop_range(nodes) ==
  UNION {{Each("copy", FALSE, take(nodes, from) \o skip(nodes, to)) : to \in from .. Len(nodes)} :
         from \in 0 .. Len(nodes)}

-----------------------------------------------------------------------------
Init ==
  /\ setup \in Setups
  /\ state = Empty
  /\ storage = EmptyStorage
  /\ queue = {}
  /\ snap = NoSnapshot
  /\ todo = <<>>
  /\ phase = "idle"

(* Mutant: the values of the last graph stay. *)
ClearNothing(st) == st

GraphState_clear(st) == [v \in DOMAIN st |-> clear(st[v])]

GraphState_reset_to(st, other) == [v \in DOMAIN st |-> reset_to(st[v], other[v])]

(* truncate_to asserts, and GraphState::reset_to indexes the prefix's types *)
CanStart(s) ==
  /\ storage.ops_i >= s.skip_ops
  /\ storage.data_i >= s.skip_data
  /\ s # NoSnapshot => DOMAIN state \subseteq DOMAIN s.state

start(s) ==
  /\ storage' = truncate_to(storage, s)
  /\ state' = IF s = NoSnapshot THEN GraphState_clear(state)
              ELSE GraphState_reset_to(state, s.state)

Panics == phase' = "panicked" /\ UNCHANGED <<setup, state, storage, queue, snap, todo>>

Begin(work) ==
  /\ phase = "idle"
  /\ IF CanStart(snap)
     THEN /\ start(snap)
          /\ todo' = work
          /\ phase' = "build"
          /\ UNCHANGED <<setup, queue, snap>>
     ELSE Panics

(* perform_gen *)
PerformGen ==
  /\ queue = {}
  /\ \E work \in generate : Begin(work)

(* perform_havoc: ten times without a snapshot, or fifty times behind one *)
PerformHavoc ==
  \E entry \in (IF snap = NoSnapshot THEN queue ELSE {snap.entry}) :
    \E work \in mutations(entry, snap) : Begin(work)

(* perform_min: drop_range; drop_node_at is the same with a range of one *)
PerformMin ==
  /\ snap = NoSnapshot
  /\ \E entry \in queue : \E work \in drop_range(entry.nodes) : Begin(work)

(* perform_import: copy_all *)
PerformImport ==
  /\ snap = NoSnapshot
  /\ \E nodes \in Imports[setup.name] : Begin(Each("copy", FALSE, nodes))

(* havoc_snap_balanced, and havoc_snap_aggressive: from the last node down *)
(* to MIN_CUTOFF and from there again, however few the guest executed      *)
Cutoffs(entry) ==
  CASE setup.placement = "none"       -> {}
    [] setup.placement = "balanced"   -> {c \in 0 .. entry.ops_used - 1 : entry.ops_used > MinNodes}
    [] setup.placement = "aggressive" -> MinNodes .. Len(entry.nodes) - 1

(* havoc_with_snap: prepare_snapshot starts an empty graph ...             *)
PrepareSnapshot ==
  /\ phase = "idle"
  /\ snap = NoSnapshot
  /\ \E entry \in queue : \E cutoff \in Cutoffs(entry) :
       /\ start(NoSnapshot)
       /\ todo' = Each("copy", FALSE, take(entry.nodes, cutoff))
       /\ snap' = [NoSnapshot EXCEPT !.entry = entry, !.skip_nodes = cutoff]
       /\ phase' = "prefix"
       /\ UNCHANGED <<setup, queue>>

(* Mutant: the node behind the prefix is counted, too. *)
PrepareLate(s, g, st) ==
  [s EXCEPT !.skip_ops = g.ops_i + 1, !.skip_data = g.data_i,
            !.prefix = Len(g.nodes) + 1, !.state = st]

prepare_snapshot(s, g, st) ==
  [s EXCEPT !.skip_ops = g.ops_i, !.skip_data = g.data_i,
            !.prefix = Len(g.nodes), !.state = st]

(* ... and, once the prefix is there, keeps the state it left and appends  *)
(* the node that makes the guest create the snapshot. The guest may end    *)
(* before it gets there: run_create_snapshot returns false.                *)
SnapshotCreated ==
  /\ phase = "prefix"
  /\ todo = <<>>
  /\ storage' = append(storage, <<SnapshotNode>>, 0)
  /\ snap' \in {prepare_snapshot(snap, storage, state), NoSnapshot}
  /\ phase' = "idle"
  /\ UNCHANGED <<setup, state, queue, todo>>

(* delete_snapshot *)
DeleteSnapshot ==
  /\ phase = "idle"
  /\ snap # NoSnapshot
  /\ snap' = NoSnapshot
  /\ UNCHANGED <<setup, state, storage, queue, todo, phase>>

-----------------------------------------------------------------------------
(* The work of a mutation, node by node *)

Working(kinds) == phase \in {"build", "prefix"} /\ todo # <<>> /\ Head(todo).kind \in kinds

Stop == Head(todo).checked /\ is_full(storage)

Proceed(rest) == todo' = rest /\ UNCHANGED <<setup, queue, snap, phase>>

(* if self.builder.is_full(storage) {return;} *)
GiveUp ==
  /\ Working({"copy", "pick", "fail"})
  /\ Stop
  /\ Proceed(<<>>)
  /\ UNCHANGED <<state, storage>>

(* An assertion of the mutation fails *)
FailAssert ==
  /\ Working({"fail"})
  /\ ~Stop
  /\ Panics

can_append_node(node) ==
  is_available(state, node.ops[1]) /\ can_append(storage, node)

(* One of the ways to link the node, or a panic in the middle of it *)
Appended(outcomes, data, rest) ==
  \E o \in outcomes :
    IF o.ok
    THEN /\ state' = o.st
         /\ storage' = append(storage, o.ops, data)
         /\ Proceed(rest)
    ELSE Panics

(* append_node and append_node_mutated, which changes data but not its length *)
AppendNode ==
  LET node == Head(todo).node
  IN  /\ Working({"copy", "pick"})
      /\ ~Stop
      /\ can_append_node(node)
      /\ Appended(append_slice(state, node), node.data, Tail(todo))

(* A node that does not fit or lacks its values is left out without a word *)
LeaveOut ==
  /\ Working({"copy", "pick"})
  /\ ~Stop
  /\ ~can_append_node(Head(todo).node)
  /\ Proceed(Tail(todo))
  /\ UNCHANGED <<state, storage>>

(* apply_graph_node: DropNode and SkipAndGenerate *)
DropNode ==
  /\ Working({"pick"})
  /\ ~Stop
  /\ \E n \in 0 .. setup.max_generate :
       Proceed((IF n = 0 THEN <<>> ELSE Generate(n)) \o Tail(todo))
  /\ UNCHANGED <<state, storage>>

can_generate_node(n) ==
  /\ size(n) + 1 <= ops_available(storage)
  /\ Min(get_node(n).data) <= data_available(storage)

pick_available_type == {n \in NodeTypes : is_available(state, n)}

(* append_random ends when it has appended its nodes or the payload is full *)
GenerateEnds ==
  /\ Working({"generate"})
  /\ Head(todo).n = 0 \/ is_full(storage)
  /\ Proceed(Tail(todo))
  /\ UNCHANGED <<state, storage>>

Generated == <<[Head(todo) EXCEPT !.n = @ - 1]>> \o Tail(todo)

(* append_random_node; a specification without a node that needs nothing   *)
(* makes pick_available_type fail, and its caller unwrap                   *)
AppendRandomNode ==
  /\ Working({"generate"})
  /\ Head(todo).n > 0
  /\ ~is_full(storage)
  /\ IF pick_available_type = {}
     THEN Panics
     ELSE \E n \in pick_available_type :
            IF can_generate_node(n)
            THEN \E data \in {d \in get_node(n).data : d <= data_available(storage)} :
                   Appended(append_random_ops(state, n), data, Generated)
            ELSE Proceed(Generated) /\ UNCHANGED <<state, storage>>

(* Mutant: what the guest reports is taken as it is. *)
ReportedOps(nodes) == 0 .. Len(nodes) + 1

(* What the guest reports, at most the nodes of the graph *)
OpsUsed(nodes) == 0 .. Len(nodes)

(* After the run: the graph is dumped and added to the queue when it found *)
(* something (node_len iterates over it, and add refuses an empty one), or *)
(* forgotten.                                                              *)
Finish ==
  /\ phase = "build"
  /\ todo = <<>>
  /\ phase' = "idle"
  /\ UNCHANGED <<setup, state, storage, snap, todo, queue>>

Keep ==
  /\ phase = "build"
  /\ todo = <<>>
  /\ Len(storage.nodes) \in 1 .. setup.max_kept
  /\ Cardinality(queue) < setup.max_queue
  /\ IF Iterable(storage.nodes)
     THEN /\ phase' = "idle"
          /\ \E used \in OpsUsed(storage.nodes) :
               queue' = queue \cup {[nodes |-> storage.nodes, ops_used |-> used]}
          /\ UNCHANGED <<setup, state, storage, snap, todo>>
     ELSE Panics

Next ==
  \/ PerformGen \/ PerformHavoc \/ PerformMin \/ PerformImport
  \/ PrepareSnapshot \/ SnapshotCreated \/ DeleteSnapshot
  \/ GiveUp \/ FailAssert \/ AppendNode \/ LeaveOut \/ DropNode
  \/ GenerateEnds \/ AppendRandomNode
  \/ Finish \/ Keep

Spec == Init /\ [][Next]_vars

-----------------------------------------------------------------------------
(* Properties *)

NodeIn(nodes) == \A i \in DOMAIN nodes :
  /\ nodes[i].ops[1] \in NodeTypes \cup {SnapshotNode}
  /\ Len(nodes[i].ops) \in 1 .. 1 + size(nodes[i].ops[1])
  /\ nodes[i].data \in get_node(nodes[i].ops[1]).data

(* Every piece of state has its type. *)
TypeOK ==
  /\ setup \in Setups
  /\ \A v \in DOMAIN state : state[v].cur \in Nat /\ state[v].ids \in Seq(1 .. state[v].cur)
  /\ NodeIn(storage.nodes)
  /\ storage.ops_i \in 0 .. setup.max_ops
  /\ \A entry \in queue : NodeIn(entry.nodes) /\ entry.ops_used \in 0 .. Len(entry.nodes)
  /\ snap # NoSnapshot => snap.skip_nodes \in 0 .. Len(snap.entry.nodes) - 1
  /\ phase \in {"idle", "build", "prefix", "panicked"}

(* The operands of the nodes of a graph, by place                          *)
Operands(g) == UNION {{<<i, j>> : j \in 2 .. Len(g[i].ops)} : i \in DOMAIN g}
RoleAt(g, p) == Roles(g[p[1]].ops[1])[p[2] - 1][1]
TypeAt(g, p) == Roles(g[p[1]].ops[1])[p[2] - 1][2]
ValueAt(g, p) == <<TypeAt(g, p), g[p[1]].ops[p[2]]>>
Before(p, q) == p[1] < q[1] \/ (p[1] = q[1] /\ p[2] < q[2])
With(g, role) == {p \in Operands(g) : RoleAt(g, p) = role}

(* No value is taken between the two operands *)
Live(g, p, q) ==
  /\ ValueAt(g, p) = ValueAt(g, q)
  /\ Before(p, q)
  /\ ~\E r \in With(g, "Get") : ValueAt(g, r) = ValueAt(g, p) /\ Before(p, r) /\ Before(r, q)

(* Every value a node takes or borrows is there                            *)
WellLinked(g) ==
  \A q \in With(g, "Get") \cup With(g, "Pass") : \E p \in With(g, "Set") : Live(g, p, q)

(* The ids of type v that nodes offer and none takes                       *)
Untaken(g, v) ==
  {ValueAt(g, p)[2] : p \in {p \in With(g, "Set") :
     TypeAt(g, p) = v /\ ~\E r \in With(g, "Get") : ValueAt(g, r) = ValueAt(g, p)}}

(* reset_to restores old_id_to_new_id but not new_id_to_old_id, and only   *)
(* for the types the prefix had met: specifications with values cannot be  *)
(* mutated behind a snapshot without the consequences excepted below.      *)
Supported == setup.placement # "none" => \A n \in NodeTypes : size(n) = 0

(* What calc_edges and the interpreter in the guest rely on: whatever was  *)
(* copied, renamed, dropped or generated, every value a node takes or      *)
(* borrows was offered by an earlier node and has not been taken since.    *)
LinksValid ==
  Supported => WellLinked(storage.nodes)

(* The state the builder keeps beside the graph, through clear, reset_to   *)
(* and every taken input, is the one the graph in the payload implies: the *)
(* available ids are those offered and not taken. (A payload out of ops    *)
(* drops them and does not count.)                                         *)
AvailableExact ==
  storage.ops_i < setup.max_ops =>
    \A v \in DOMAIN state : get_random_input(state[v]) = Untaken(storage.nodes, v)

(* The vector, its index and the renamings of every type agree. swap_remove *)
(* moves an element and the index follows, so that take_new_input removes  *)
(* the id it was asked for; a renaming never outlives its value, which     *)
(* take_new_input would answer with "unknown new id" and a borrow with an  *)
(* id that was taken.                                                      *)
ValuesConsistent ==
  \A v \in DOMAIN state :
    IndexInverse(state[v]) /\ (Supported => RenamesAvailable(state[v]))

(* There is an op for every u units of data, and a node has no less data   *)
(* than that for its ops: the data is full before the ops are. (In the     *)
(* payload u is 2: an op is a u16, in a half of the size of the data's.)   *)
RoomFor(u) ==
  /\ setup.max_data <= u * setup.max_ops
  /\ \A n \in NodeTypes : \A d \in get_node(n).data : d >= u * (1 + size(n))

Roomy == \E u \in 1 .. setup.max_data : RoomFor(u)

(* A node type can be generated whatever the graph offers                  *)
Sourced == \E n \in NodeTypes : get_node(n).inputs = <<>> /\ get_node(n).passthroughs = <<>>

(* The snapshot lies behind what the guest executed of its entry           *)
Overrun(s) == s.entry.ops_used < s.skip_nodes

(* The fuzzing thread does not panic: there are values enough for the      *)
(* nodes that is_available admits, start finds the prefix it truncates to, *)
(* every graph that is kept can be iterated over. Two panics are left:     *)
(* where data can outlast the ops, a node may have been cut short; and     *)
(* aggressive placement can put a snapshot behind what the guest executed. *)
NoPanic ==
  Supported /\ Sourced /\ phase = "panicked" =>
    (~Roomy /\ ~Iterable(storage.nodes)) \/ Overrun(snap)

(* The payload behind a snapshot begins with exactly the nodes of the      *)
(* entry that the guest executed before it, however many mutations were    *)
(* built on it: no node of the prefix was left out, and the nodes          *)
(* mutations skip (skip_nodes) are those that truncate_to keeps (skip_ops).*)
PrefixIsInput ==
  phase \in {"idle", "build"} /\ snap # NoSnapshot =>
    /\ snap.prefix = snap.skip_nodes
    /\ take(storage.nodes, snap.skip_nodes) = take(snap.entry.nodes, snap.skip_nodes)

(* Data never outgrows its half of the payload (append_data is unwrapped), *)
(* and there is room for the node that creates the snapshot.               *)
PayloadFits ==
  /\ storage.data_i <= setup.max_data
  /\ phase = "prefix" /\ todo = <<>> => ops_available(storage) >= 1
============================================================================
