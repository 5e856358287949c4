------------------------- MODULE SnapshotFuzzProofs -------------------------
(***************************************************************************)
(* Proofs about SnapshotFuzz: the safety properties of one fuzzing thread  *)
(* and its machine, for every set of packets and channels, every bound and *)
(* every snapshot placement, and the refinement of MachineSnapshot.        *)
(***************************************************************************)
EXTENDS SnapshotFuzz, SequenceTheorems, WellFoundedInduction, TLAPS

\* How an execution can end.
Exits == {"normal", "crash", "timeout"}

----------------------------------------------------------------------------
(***************************************************************************)
(* The inductive invariant.                                                *)
(***************************************************************************)

\* A payload of packets only, and the one that ends in the snapshot op.
Plain  == /\ payload.ops = PacketOps(Len(payload.data))
          /\ skip <= Len(payload.data)
Prefix == /\ payload.ops = Append(PacketOps(skip), "snap")
          /\ skip = Len(payload.data)

\* Which payload the machine, or the next mutation, finds in the buffer.
PayloadOK == /\ hpc \in {"test", "filter", "delete"} => Plain
             /\ hpc = "create" => Prefix
             /\ hpc = "mutate" /\ snap => Plain \/ (Prefix /\ left > 0)

\* Where the two sides can be in the iteration.
HostOK == /\ turn = "guest" => hpc \in {"create", "test", "filter", "delete"}
          /\ hpc = "iter" => ~ snap
          /\ hpc \in {"create", "delete"} => snap
          /\ hpc \in {"create", "test", "filter"} => left > 0
          /\ ~ snap => skip = 0
          /\ snap => /\ entry # 0
                     /\ Placement = "Aggressive" => queue[entry].cutoff >= MinCutoff

\* When there is a temporary snapshot, and when the machine is in it.
SnapOK == /\ created = IF tmp = None THEN 0 ELSE 1
          /\ tmp # None => snap
          /\ hpc \in {"mutate", "test", "filter"} /\ snap => tmp # None
          /\ hpc = "create" /\ turn = "guest" => tmp = None
          /\ hpc = "delete" => (tmp = None <=> turn = "host")
          /\ discard <=> (hpc = "delete" /\ turn = "guest")
          /\ turn = "host" => guest = Reloaded(tmp, FALSE)

\* Ops, data and packets move together; the snapshot op is counted on top.
InStep(g, extra) == /\ g.ops_i = Len(g.fetched)
                    /\ g.data_i = Len(g.fetched)
                    /\ g.counter = Len(g.fetched) + extra

\* Machine g was given the first packets of the payload.
FollowsPayload(g) ==
    /\ Len(g.fetched) <= Len(payload.data)
    /\ \A i \in 1..Len(g.fetched) : g.fetched[i].pkt = payload.data[i]

\* A read that has to wait for the interpreter.
Waits(g) == g.call # None /\ ~ g.call.ready

\* The machine that runs is in step, and was given what the host asked for.
GuestOK == /\ InStep(guest, created)
           /\ turn = "guest" => FollowsPayload(guest)

\* The temporary snapshot stands after the first skip packets, inside a read.
TmpOK == tmp # None => /\ InStep(tmp, 1)
                       /\ FollowsPayload(tmp)
                       /\ Len(tmp.fetched) = skip
                       /\ Waits(tmp)

\* What an input says about its execution.
Replays(e) == /\ e.ops = PacketOps(Len(e.data))
              /\ e.real <= Len(e.data)
              /\ e.used \in {e.real, e.real + 1}
              /\ e.used <= Len(e.data)

\* Every stored input replays; its cutoff is one of its packets.
QueueOK == \A i \in DOMAIN queue : Replays(queue[i]) /\ queue[i].cutoff <= Len(queue[i].data)

\* The inputs that are executed again before they are stored.
Candidates == [ops : Seq({"packet", "snap"}), data : Seq(Packets), used : Nat, real : Nat,
               exit : Exits, again : Nat \ {0}]

\* The candidate of the filter replays too.
CandOK == hpc = "filter" => cand \in Candidates /\ Replays(cand)

\* What an execution reports.
Results == [exit : Exits, used : Nat, real : Nat]

\* A reported count is that of the packets, or of the packets and the snapshot op.
ResultOK == (hpc = "test" /\ turn = "host") =>
                /\ result \in Results
                /\ result.real <= Len(payload.data)
                /\ result.used \in {result.real, result.real + 1}

\* The inductive invariant: every part is needed by the step of another.
Inv == /\ TypeOK
       /\ PayloadOK /\ HostOK /\ SnapOK
       /\ GuestOK /\ TmpOK
       /\ QueueOK /\ CandOK /\ ResultOK

\* A deterministic target stops at the first fatal packet, and only there.
Alive(g, n) == \A i \in 1..n : g.fetched[i].pkt \notin Fatal
Lives(g)    == /\ Alive(g, Len(g.fetched) - 1)
               /\ Waits(g) => Alive(g, Len(g.fetched))

\* An execution that ended by itself took all packets, or ended at a fatal one.
Finished(real, data) == real = Len(data) \/ (real > 0 /\ data[real] \in Fatal)

\* What holds on top of Inv when the target is deterministic.
DetInv == /\ hpc # "asserted"
          /\ entry = 0 => left <= 1 /\ (hpc = "mutate" => left = 0)
          /\ Lives(guest)
          /\ tmp # None => Lives(tmp)
          /\ \A i \in DOMAIN queue : Finished(queue[i].real, queue[i].data)
          /\ (hpc = "filter" /\ cand.exit # "timeout") => Finished(cand.real, cand.data)
          /\ (hpc = "test" /\ turn = "host" /\ result.exit # "timeout")
                => Finished(result.real, payload.data)
          /\ snap => /\ skip <= Len(queue[entry].data)
                     /\ skip <= Len(payload.data)
                     /\ \A i \in 1..skip : payload.data[i] = queue[entry].data[i]

\* The packets of a machine that a channel took, and the stream it makes.
TakenBy(g, ch) == FlattenSeq([i \in DOMAIN g.fetched |->
                                 IF g.fetched[i].ch = ch THEN g.fetched[i].pkt ELSE <<>>])
Streams(g) == /\ \A ch \in Chan : TakenBy(g, ch) = g.got[ch] \o g.buf[ch]
              /\ Waits(g) => g.buf[g.call.ch] = <<>>

\* The stream invariant, of the machine and of the snapshot it is reset to.
StreamInv == ~ Datagram => Streams(guest) /\ (tmp # None => Streams(tmp))

----------------------------------------------------------------------------
(***************************************************************************)
(* The operators of the model.                                             *)
(***************************************************************************)

\* A pending call of the target.
Calls == [ch : Chan, ready : BOOLEAN]

\* No machine and no call is None.
LEMMA NoneIsNothing ==
    None \notin Machines /\ None \notin Calls
<1>1. ASSUME NEW g \in Machines
      PROVE  g # None
  <2>1. "ops_i" \in DOMAIN g
    BY DEF Machines
  <2>2. "ops_i" \notin DOMAIN None
    BY DEF None
  <2> QED  BY <2>1, <2>2
<1>2. ASSUME NEW c \in Calls
      PROVE  c # None
  <2>1. "ready" \in DOMAIN c
    BY DEF Calls
  <2>2. "ready" \notin DOMAIN None
    BY DEF None
  <2> QED  BY <2>1, <2>2
<1> QED  BY <1>1, <1>2

\* The fields of a machine have their types.
LEMMA MachineFields ==
    ASSUME NEW g \in Machines
    PROVE  /\ g.ops_i \in Nat /\ g.data_i \in Nat /\ g.counter \in Nat
           /\ g.buf \in [Chan -> Seq(Nat)] /\ g.got \in [Chan -> Seq(Nat)]
           /\ g.call = None \/ g.call \in Calls
           /\ g.fetched \in Seq([ch : Chan, pkt : Packets])
           /\ Len(g.fetched) \in Nat /\ DOMAIN g.fetched = 1..Len(g.fetched)
BY DEF Machines, Calls

\* The root snapshot is a machine that has been given nothing.
LEMMA RootMachine ==
    /\ Root \in Machines
    /\ InStep(Root, 0) /\ Len(Root.fetched) = 0 /\ Root.fetched = <<>>
    /\ Root.got = [c \in Chan |-> <<>>] /\ Root.buf = [c \in Chan |-> <<>>]
    /\ Waits(Root)
<1> DEFINE c == Call(FirstChan, FALSE)
           b == [ch \in Chan |-> <<>>]
<1>1. c \in Calls /\ ~ c.ready /\ c # None
  <2>1. c \in Calls /\ ~ c.ready
    BY SnapshotFuzzAssumption DEF Call, Calls
  <2> QED  BY <2>1, NoneIsNothing
<1>2. b \in [Chan -> Seq(Nat)]
  OBVIOUS
<1>3. /\ Root = [ops_i |-> 0, data_i |-> 0, counter |-> 0, buf |-> b, call |-> c,
                 fetched |-> <<>>, got |-> b]
      /\ b = [ch \in Chan |-> <<>>]
  BY DEF Root
<1> HIDE DEF b, c
<1>4. <<>> \in Seq([ch : Chan, pkt : Packets])
  OBVIOUS
<1>5. Root \in Machines
  BY <1>1, <1>2, <1>3, <1>4 DEF Machines, Calls
<1>6. Waits(Root)
  BY <1>1, <1>3 DEF Waits
<1>7. Len(<<>>) = 0
  OBVIOUS
<1> QED  BY <1>3, <1>5, <1>6, <1>7 DEF InStep

\* The bytes of a packet.
LEMMA PacketBytes ==
    ASSUME NEW p \in Packets
    PROVE  p \in Seq(Nat) /\ Len(p) \in Nat /\ Len(p) <= BufferSize
<1>1. p \in Seq(0..255) /\ Len(p) <= BufferSize
  BY SnapshotFuzzAssumption
<1>2. 0..255 \subseteq Nat
  OBVIOUS
<1>3. p \in Seq(Nat)
  BY <1>1, <1>2, SeqMonotonic
<1> QED  BY <1>1, <1>3, LenProperties

\* read changes the call only.
LEMMA ReadMachine ==
    ASSUME NEW g \in Machines, NEW ch \in Chan
    PROVE  LET h == read(g, ch)
           IN  /\ h \in Machines
               /\ h.ops_i = g.ops_i /\ h.data_i = g.data_i /\ h.counter = g.counter
               /\ h.buf = g.buf /\ h.got = g.got /\ h.fetched = g.fetched
               /\ h.call \in Calls /\ h.call.ch = ch /\ (h.call.ready <=> g.buf[ch] # <<>>)
<1> DEFINE b == g.buf[ch] # <<>>
           c == Call(ch, b)
<1>1. c \in Calls /\ c.ch = ch /\ c.ready = b
  <2>1. b \in BOOLEAN
    OBVIOUS
  <2> HIDE DEF b
  <2> QED  BY <2>1 DEF Call, Calls
<1>2. read(g, ch) = [g EXCEPT !.call = c]
  BY DEF read
<1> HIDE DEF c
<1>3. [g EXCEPT !.call = c] \in Machines
  BY <1>1 DEF Machines, Calls
<1> QED  BY <1>1, <1>2, <1>3 DEF Machines

\* The interpreter takes the next packet of the payload into the buffer of the
\* channel that waits for it.
LEMMA FetchMachine ==
    ASSUME NEW g \in Machines, Waits(g), payload.data \in Seq(Packets),
           g.data_i + 1 \in 1..Len(payload.data)
    PROVE  LET h   == interpreter_run(g)
               ch  == g.call.ch
               pkt == payload.data[g.data_i + 1]
               len == IF Datagram THEN MaxSize[ch] ELSE BufferSize
           IN  /\ h \in Machines
               /\ ch \in Chan /\ pkt \in Packets
               /\ h.ops_i = g.ops_i + 1 /\ h.data_i = g.data_i + 1
               /\ h.counter = g.counter + 1
               /\ h.buf = [g.buf EXCEPT ![ch] = handler_packet(pkt, len)]
               /\ h.got = g.got
               /\ h.fetched = Append(g.fetched, [ch |-> ch, pkt |-> pkt])
               /\ h.call \in Calls /\ h.call.ch = ch /\ h.call.ready
<1> DEFINE ch  == g.call.ch
           pkt == payload.data[g.data_i + 1]
           len == IF Datagram THEN MaxSize[ch] ELSE BufferSize
           hp  == handler_packet(pkt, len)
           b   == [g.buf EXCEPT ![ch] = hp]
           c   == [g.call EXCEPT !.ready = TRUE]
           r   == [ch |-> ch, pkt |-> pkt]
           f   == Append(g.fetched, r)
<1>0. g.ops_i \in Nat /\ g.data_i \in Nat /\ g.counter \in Nat
  BY MachineFields
<1>1. g.call \in Calls
  BY MachineFields DEF Waits
<1>2. ch \in Chan /\ c \in Calls /\ c.ch = ch /\ c.ready
  BY <1>1 DEF Calls
<1>3. pkt \in Packets
  BY <1>0
<1>4. hp \in Seq(Nat)
  <2>1. len \in Nat
    BY <1>2, SnapshotFuzzAssumption
  <2>2. pkt \in Seq(Nat) /\ Len(pkt) \in Nat
    BY <1>3, PacketBytes
  <2>3. Lesser(Len(pkt), len) \in Nat /\ Lesser(Len(pkt), len) <= Len(pkt)
    BY <2>1, <2>2 DEF Lesser
  <2> HIDE DEF len, pkt
  <2>4. \A i \in 1..Lesser(Len(pkt), len) : pkt[i] \in Nat
    BY <2>2, <2>3
  <2> QED  BY <2>3, <2>4, SubSeqProperties DEF handler_packet
<1>5. b \in [Chan -> Seq(Nat)]
  <2> HIDE DEF hp, ch
  <2> QED  BY <1>2, <1>4, MachineFields
<1>6. f \in Seq([ch : Chan, pkt : Packets])
  <2>1. r \in [ch : Chan, pkt : Packets]
    BY <1>2, <1>3
  <2> HIDE DEF r
  <2> QED  BY <2>1, MachineFields, AppendProperties
<1> DEFINE n1 == g.ops_i + 1
           n2 == g.data_i + 1
           n3 == g.counter + 1
<1>7. interpreter_run(g) = [g EXCEPT !.ops_i = n1, !.data_i = n2, !.counter = n3, !.buf = b,
                                     !.call = c, !.fetched = f]
  BY DEF interpreter_run, Machines
<1>8. LET h == [g EXCEPT !.ops_i = n1, !.data_i = n2, !.counter = n3, !.buf = b,
                         !.call = c, !.fetched = f]
      IN  /\ h \in Machines
          /\ h.ops_i = n1 /\ h.data_i = n2 /\ h.counter = n3
          /\ h.buf = b /\ h.got = g.got /\ h.call = c /\ h.fetched = f
  <2>1. n1 \in Nat /\ n2 \in Nat /\ n3 \in Nat
    BY <1>0
  <2> HIDE DEF n1, n2, n3, b, c, f
  <2> QED  BY <2>1, <1>2, <1>5, <1>6 DEF Machines, Calls
<1> QED  BY <1>2, <1>3, <1>7, <1>8

\* call_vm hands the first bytes of the buffer to the target.
LEMMA CopyMachine ==
    ASSUME NEW g \in Machines, g.call # None
    PROVE  LET h  == call_vm(g)
               ch == g.call.ch
               n  == Lesser(Len(g.buf[ch]), MaxSize[ch])
           IN  /\ h \in Machines
               /\ ch \in Chan
               /\ h.ops_i = g.ops_i /\ h.data_i = g.data_i /\ h.counter = g.counter
               /\ n \in 0..Len(g.buf[ch])
               /\ h.buf = [g.buf EXCEPT ![ch] = SubSeq(@, n + 1, Len(@))]
               /\ h.got = [g.got EXCEPT ![ch] = @ \o SubSeq(g.buf[ch], 1, n)]
               /\ h.fetched = g.fetched /\ h.call = None
<1> DEFINE ch == g.call.ch
           n  == Lesser(Len(g.buf[ch]), MaxSize[ch])
           s  == SubSeq(g.buf[ch], 1, n)
           t  == SubSeq(g.buf[ch], n + 1, Len(g.buf[ch]))
           b  == [g.buf EXCEPT ![ch] = t]
           o  == [g.got EXCEPT ![ch] = g.got[ch] \o s]
<1>1. ch \in Chan
  BY MachineFields DEF Calls
<1>2. g.buf[ch] \in Seq(Nat) /\ g.got[ch] \in Seq(Nat) /\ Len(g.buf[ch]) \in Nat
  BY <1>1, MachineFields
<1>3. n \in 0..Len(g.buf[ch])
  BY <1>1, <1>2, SnapshotFuzzAssumption DEF Lesser
<1>4. s \in Seq(Nat) /\ t \in Seq(Nat)
  <2> DEFINE q == g.buf[ch]
  <2> HIDE DEF n, q
  <2>1. q \in Seq(Nat) /\ n \in 0..Len(q) /\ Len(q) \in Nat
    BY <1>2, <1>3 DEF q
  <2>2. \A i \in 1..Len(q) : q[i] \in Nat
    BY <2>1
  <2>3. (\A i \in 1..n : q[i] \in Nat) /\ (\A i \in (n + 1)..Len(q) : q[i] \in Nat)
    BY <2>1, <2>2
  <2>4. n \in Int /\ n + 1 \in Int /\ Len(q) \in Int /\ 1 \in Int
    BY <2>1
  <2>5. SubSeq(q, 1, n) \in Seq(Nat)
    BY <2>3, <2>4, SubSeqProperties
  <2>6. SubSeq(q, n + 1, Len(q)) \in Seq(Nat)
    BY <2>3, <2>4, SubSeqProperties
  <2> QED  BY <2>5, <2>6 DEF q
<1>5. b \in [Chan -> Seq(Nat)]
  <2> HIDE DEF t, ch
  <2> QED  BY <1>4, MachineFields
<1>6. o \in [Chan -> Seq(Nat)]
  <2>1. g.got[ch] \o s \in Seq(Nat)
    <3> HIDE DEF s
    <3> QED  BY <1>2, <1>4, ConcatProperties
  <2> HIDE DEF s, ch
  <2> QED  BY <2>1, MachineFields
<1>7. call_vm(g) = [g EXCEPT !.call = None, !.got = o, !.buf = b]
  BY DEF call_vm, Machines
<1>8. LET h == [g EXCEPT !.call = None, !.got = o, !.buf = b]
      IN  /\ h \in Machines
          /\ h.ops_i = g.ops_i /\ h.data_i = g.data_i /\ h.counter = g.counter
          /\ h.buf = b /\ h.got = o /\ h.fetched = g.fetched /\ h.call = None
  <2> HIDE DEF o, b
  <2> QED  BY <1>5, <1>6 DEF Machines
<1> QED  BY <1>1, <1>3, <1>7, <1>8

\* The snapshot op is counted, and changes nothing else.
LEMMA SnapshotMachine ==
    ASSUME NEW g \in Machines
    PROVE  LET h == create_tmp_snapshot(g)
           IN  /\ h \in Machines
               /\ h.ops_i = g.ops_i /\ h.data_i = g.data_i /\ h.counter = g.counter + 1
               /\ h.buf = g.buf /\ h.got = g.got /\ h.fetched = g.fetched /\ h.call = g.call
<1> DEFINE n == g.counter + 1
<1>1. n \in Nat
  BY MachineFields
<1>2. create_tmp_snapshot(g) = [g EXCEPT !.counter = n]
  BY DEF create_tmp_snapshot
<1> HIDE DEF n
<1>3. LET h == [g EXCEPT !.counter = n]
      IN  /\ h \in Machines
          /\ h.ops_i = g.ops_i /\ h.data_i = g.data_i /\ h.counter = n
          /\ h.buf = g.buf /\ h.got = g.got /\ h.fetched = g.fetched /\ h.call = g.call
  BY <1>1 DEF Machines
<1> QED  BY <1>2, <1>3 DEF n

\* The ops of a graph of n packets.
LEMMA PacketOpsSeq ==
    ASSUME NEW n \in Nat
    PROVE  /\ PacketOps(n) \in Seq({"packet", "snap"})
           /\ Len(PacketOps(n)) = n
           /\ \A i \in 1..n : PacketOps(n)[i] = "packet"
BY DEF PacketOps

\* A tail is a sequence of packets.
LEMMA TailPackets ==
    ASSUME NEW n \in Nat, NEW t \in Tails(n)
    PROVE  t \in Seq(Packets) /\ Len(t) \in Nat
<1>1. PICK m \in 0..(MaxNodes - n) : t \in [1..m -> Packets]
  BY DEF Tails, SeqOf
<1>2. m \in Nat
  BY SnapshotFuzzAssumption
<1> QED  BY <1>1, <1>2

\* The first n nodes of a payload that has no other ops there.
LEMMA StartPayload ==
    ASSUME NEW p \in Graphs, NEW n \in Nat, n <= Len(p.data), n <= Len(p.ops),
           \A i \in 1..n : p.ops[i] = "packet"
    PROVE  /\ start(p, n) \in Graphs
           /\ start(p, n).ops = PacketOps(n) /\ Len(start(p, n).data) = n
           /\ \A i \in 1..n : start(p, n).data[i] = p.data[i]
<1> DEFINE o == SubSeq(p.ops, 1, n)
           d == SubSeq(p.data, 1, n)
<1>1. p.ops \in Seq({"packet", "snap"}) /\ p.data \in Seq(Packets)
  BY DEF Graphs
<1>2. o \in Seq({"packet", "snap"}) /\ Len(o) = n /\ \A i \in 1..n : o[i] = p.ops[i]
  BY <1>1
<1>3. d \in Seq(Packets) /\ Len(d) = n /\ \A i \in 1..n : d[i] = p.data[i]
  BY <1>1
<1>4. o = PacketOps(n)
  <2> HIDE DEF o
  <2>1. /\ PacketOps(n) \in Seq({"packet", "snap"}) /\ Len(PacketOps(n)) = n
        /\ \A i \in 1..n : PacketOps(n)[i] = "packet"
    BY PacketOpsSeq
  <2>2. Len(o) = Len(PacketOps(n)) /\ \A i \in 1..Len(o) : o[i] = PacketOps(n)[i]
    BY <1>2, <2>1
  <2> QED  BY <1>2, <2>1, <2>2, SeqEqual
<1>5. start(p, n) = [ops |-> o, data |-> d]
  BY DEF start
<1> HIDE DEF o, d
<1> QED  BY <1>2, <1>3, <1>4, <1>5 DEF Graphs

\* What append_node and append_random make of a graph of packets.
LEMMA AppendPayload ==
    ASSUME NEW p \in Graphs, NEW n \in Nat, p.ops = PacketOps(n), Len(p.data) = n,
           NEW t \in Seq(Packets)
    PROVE  LET q == append(p, t)
           IN  /\ q \in Graphs
               /\ Len(q.data) = n + Len(t)
               /\ q.ops = PacketOps(Len(q.data))
               /\ \A i \in 1..n : q.data[i] = p.data[i]
               /\ \A i \in 1..Len(t) : q.data[n + i] = t[i]
<1> DEFINE k == Len(t)
           m == PacketOps(n)
           r == PacketOps(k)
           v == p.data
           o == m \o r
           d == v \o t
<1>1. v \in Seq(Packets) /\ Len(v) = n /\ k \in Nat
  BY DEF Graphs
<1>2. /\ d \in Seq(Packets) /\ Len(d) = n + k
      /\ \A i \in 1..n : d[i] = v[i]
      /\ \A i \in 1..k : d[n + i] = t[i]
  <2> HIDE DEF v
  <2>1. /\ d \in Seq(Packets) /\ Len(d) = n + k
        /\ \A i \in 1..(n + k) : d[i] = IF i <= n THEN v[i] ELSE t[i - n]
    BY <1>1, ConcatProperties
  <2> HIDE DEF d, k
  <2> QED  BY <1>1, <2>1
<1>3. /\ m \in Seq({"packet", "snap"}) /\ Len(m) = n
      /\ r \in Seq({"packet", "snap"}) /\ Len(r) = k
      /\ \A i \in 1..n : m[i] = "packet"
      /\ \A i \in 1..k : r[i] = "packet"
  BY <1>1, PacketOpsSeq
<1>4. /\ o \in Seq({"packet", "snap"}) /\ Len(o) = n + k
      /\ \A i \in 1..(n + k) : o[i] = "packet"
  <2> DEFINE S == {"packet", "snap"}
  <2> HIDE DEF m, r, k
  <2>1. /\ o \in Seq(S) /\ Len(o) = n + k
        /\ \A i \in 1..(n + k) : o[i] = IF i <= n THEN m[i] ELSE r[i - n]
    <3>1. m \in Seq(S) /\ r \in Seq(S)
      BY <1>3
    <3> HIDE DEF S
    <3>2. /\ m \o r \in Seq(S) /\ Len(m \o r) = Len(m) + Len(r)
          /\ \A i \in 1..(Len(m) + Len(r)) :
                 (m \o r)[i] = IF i <= Len(m) THEN m[i] ELSE r[i - Len(m)]
      BY <3>1, ConcatProperties
    <3> QED  BY <1>3, <3>2
  <2>2. \A i \in 1..(n + k) : (i <= n /\ i \in 1..n) \/ (~ (i <= n) /\ i - n \in 1..k)
    BY <1>1
  <2> HIDE DEF o
  <2> QED  BY <1>3, <2>1, <2>2
<1>5. o = PacketOps(Len(d))
  <2> HIDE DEF o, d, k
  <2>1. Len(d) \in Nat /\ Len(d) = n + k
    BY <1>1, <1>2
  <2>2. /\ PacketOps(Len(d)) \in Seq({"packet", "snap"}) /\ Len(PacketOps(Len(d))) = Len(d)
        /\ \A i \in 1..Len(d) : PacketOps(Len(d))[i] = "packet"
    BY <2>1, PacketOpsSeq
  <2>3. Len(o) = Len(PacketOps(Len(d))) /\ \A i \in 1..Len(o) : o[i] = PacketOps(Len(d))[i]
    BY <1>4, <2>1, <2>2
  <2> QED  BY <1>4, <2>2, <2>3, SeqEqual
<1>6. append(p, t) = [ops |-> o, data |-> d]
  BY DEF append
<1>7. append(p, t) \in Graphs /\ append(p, t).ops = o /\ append(p, t).data = d
  <2> HIDE DEF o, d
  <2> QED  BY <1>2, <1>4, <1>6 DEF Graphs
<1>8. (\A i \in 1..n : d[i] = p.data[i]) /\ \A i \in 1..Len(t) : d[n + i] = t[i]
  BY <1>2
<1>9. Len(d) = n + Len(t) /\ o = PacketOps(Len(d))
  BY <1>2, <1>5
<1> HIDE DEF o, d
<1> QED  BY <1>7, <1>8, <1>9

\* A mutation keeps the nodes in front of the snapshot.
LEMMA MutatedPayload ==
    ASSUME NEW p \in Graphs, NEW n \in Nat, n <= Len(p.data), n <= Len(p.ops),
           \A i \in 1..n : p.ops[i] = "packet",
           NEW t \in Tails(n)
    PROVE  LET q == append(start(p, n), t)
           IN  /\ q \in Graphs
               /\ q.ops = PacketOps(Len(q.data)) /\ n <= Len(q.data)
               /\ \A i \in 1..n : q.data[i] = p.data[i]
<1> DEFINE s == start(p, n)
<1>1. /\ s \in Graphs /\ s.ops = PacketOps(n) /\ Len(s.data) = n
      /\ \A i \in 1..n : s.data[i] = p.data[i]
  BY StartPayload
<1>2. t \in Seq(Packets) /\ Len(t) \in Nat
  BY TailPackets
<1> HIDE DEF s
<1>3. LET q == append(s, t)
      IN  /\ q \in Graphs
          /\ Len(q.data) = n + Len(t)
          /\ q.ops = PacketOps(Len(q.data))
          /\ \A i \in 1..n : q.data[i] = s.data[i]
  BY <1>1, <1>2, AppendPayload
<1> QED  BY <1>1, <1>2, <1>3 DEF s

\* The payload of prepare_snapshot: a prefix of the input, and the snapshot op.
LEMMA SnapshotPayload ==
    ASSUME NEW p \in Graphs, NEW data \in Seq(Packets), NEW c \in Nat, c <= Len(data)
    PROVE  LET q == prepare_snapshot(p, data, c)
           IN  /\ q \in Graphs
               /\ q.ops = Append(PacketOps(c), "snap") /\ Len(q.data) = c
               /\ \A i \in 1..c : q.data[i] = data[i]
<1> DEFINE s == start(p, 0)
           t == SubSeq(data, 1, c)
           q == append(s, t)
           o == Append(q.ops, "snap")
<1>1. s \in Graphs /\ s.ops = PacketOps(0) /\ Len(s.data) = 0
  <2>1. p.ops \in Seq({"packet", "snap"}) /\ p.data \in Seq(Packets)
    BY DEF Graphs
  <2>2. 0 <= Len(p.data) /\ 0 <= Len(p.ops)
    BY <2>1
  <2> QED  BY <2>2, StartPayload
<1>2. t \in Seq(Packets) /\ Len(t) = c /\ \A i \in 1..c : t[i] = data[i]
  OBVIOUS
<1>3. /\ q \in Graphs /\ Len(q.data) = c /\ q.ops = PacketOps(c)
      /\ \A i \in 1..c : q.data[i] = data[i]
  <2> HIDE DEF s, t
  <2>1. /\ q \in Graphs
        /\ Len(q.data) = 0 + Len(t)
        /\ q.ops = PacketOps(Len(q.data))
        /\ \A i \in 1..Len(t) : q.data[0 + i] = t[i]
    <3> DEFINE z == 0
    <3>1. z \in Nat /\ s.ops = PacketOps(z) /\ Len(s.data) = z
      BY <1>1
    <3> HIDE DEF z
    <3>2. /\ q \in Graphs
          /\ Len(q.data) = z + Len(t)
          /\ q.ops = PacketOps(Len(q.data))
          /\ \A i \in 1..Len(t) : q.data[z + i] = t[i]
      <4> HIDE DEF q
      <4>1. LET u == append(s, t)
            IN  /\ u \in Graphs
                /\ Len(u.data) = z + Len(t)
                /\ u.ops = PacketOps(Len(u.data))
                /\ \A i \in 1..z : u.data[i] = s.data[i]
                /\ \A i \in 1..Len(t) : u.data[z + i] = t[i]
        BY <1>1, <1>2, <3>1, AppendPayload
      <4> QED  BY <4>1 DEF q
    <3> QED  BY <3>2 DEF z
  <2> HIDE DEF q
  <2> QED  BY <1>2, <2>1
<1>4. o \in Seq({"packet", "snap"}) /\ o = Append(PacketOps(c), "snap")
  <2> HIDE DEF q
  <2> QED  BY <1>3, PacketOpsSeq
<1>5. prepare_snapshot(p, data, c) = [q EXCEPT !.ops = o]
  BY DEF prepare_snapshot
<1> HIDE DEF o, q
<1>6. LET r == [q EXCEPT !.ops = o]
      IN  r \in Graphs /\ r.ops = o /\ r.data = q.data
  BY <1>3, <1>4 DEF Graphs
<1> QED  BY <1>3, <1>4, <1>5, <1>6

----------------------------------------------------------------------------
(***************************************************************************)
(* The steps of the guest.                                                 *)
(***************************************************************************)

\* The invariant holds initially.
LEMMA InvInit == Init => Inv
<1> SUFFICES ASSUME Init PROVE Inv
  OBVIOUS
<1>1. payload \in Graphs
  <2>1. PacketOps(Len(<<>>)) \in Seq({"packet", "snap"})
    BY PacketOpsSeq
  <2> QED  BY <2>1 DEF Init, Graph, Graphs
<1>2. queue = <<>> /\ queue \in Seq(Entries) /\ Len(queue) = 0 /\ DOMAIN queue = {}
  <2>1. queue = <<>>
    BY DEF Init
  <2>2. <<>> \in Seq(Entries) /\ Len(<<>>) = 0
    BY EmptySeq
  <2> QED  BY <2>1, <2>2
<1>3. TypeOK
  <2>1. entry = 0 /\ 0 \in 0..Len(queue)
    BY <1>2 DEF Init
  <2>2. guest \in Machines
    BY RootMachine DEF Init
  <2> QED  BY <1>1, <1>2, <2>1, <2>2 DEF Init, TypeOK
<1>4. guest = Root /\ Reloaded(tmp, FALSE) = Root /\ tmp = None /\ created = 0
  BY DEF Init, Reloaded
<1>5. PayloadOK /\ HostOK /\ SnapOK /\ CandOK /\ ResultOK
  BY <1>4 DEF Init, PayloadOK, HostOK, SnapOK, CandOK, ResultOK
<1>6. GuestOK /\ TmpOK
  <2>1. turn = "host" /\ InStep(guest, 0)
    BY <1>4, RootMachine DEF Init
  <2> QED  BY <1>4, <2>1 DEF GuestOK, TmpOK
<1>7. QueueOK
  BY <1>2 DEF QueueOK
<1> QED  BY <1>3, <1>5, <1>6, <1>7 DEF Inv

\* A step of the running guest that stays with the payload keeps the invariant.
LEMMA GuestStep ==
    ASSUME Inv, Running, NEW STATE h, h \in Machines, Step(h),
           InStep(h, created), FollowsPayload(h)
    PROVE  Inv'
<1> USE DEF Inv, Running, Step, host
<1>1. TypeOK'
  BY DEF TypeOK
<1>2. PayloadOK' /\ HostOK' /\ QueueOK' /\ CandOK' /\ ResultOK'
  BY DEF PayloadOK, Plain, Prefix, HostOK, QueueOK, CandOK, ResultOK
<1>3. SnapOK'
  BY DEF SnapOK
<1>4. GuestOK' /\ TmpOK'
  BY DEF GuestOK, TmpOK, FollowsPayload
<1> QED  BY <1>1, <1>2, <1>3, <1>4

\* A read starts.
LEMMA ReadStep ==
    ASSUME Inv, NEW ch \in Chan, Read(ch)
    PROVE  Inv'
<1> DEFINE h == read(guest, ch)
<1>1. Running /\ guest \in Machines /\ Step(h)
  BY DEF Inv, TypeOK, Read
<1>2. InStep(guest, created) /\ FollowsPayload(guest)
  BY <1>1 DEF Inv, GuestOK, Running
<1>3. h \in Machines /\ InStep(h, created) /\ FollowsPayload(h)
  <2>1. /\ h \in Machines /\ h.ops_i = guest.ops_i /\ h.data_i = guest.data_i
        /\ h.counter = guest.counter /\ h.fetched = guest.fetched
    BY <1>1, ReadMachine
  <2> HIDE DEF h
  <2> QED  BY <1>2, <2>1 DEF InStep, FollowsPayload
<1> HIDE DEF h
<1> QED  BY <1>1, <1>3, GuestStep

\* The op the interpreter reads next tells where in the payload it is.
LEMMA NextOp ==
    ASSUME Inv, NEW op, AtOp(op)
    PROVE  /\ hpc = "create" => /\ op = "packet" => Len(guest.fetched) < skip
                                /\ op = "snap" => Len(guest.fetched) = skip
           /\ hpc # "create" => op = "packet"
           /\ op = "packet" => Len(guest.fetched) < Len(payload.data)
           /\ op \in {"packet", "snap"}
<1> DEFINE n == Len(guest.fetched)
<1>1. /\ hpc \in {"create", "test", "filter", "delete"}
      /\ guest \in Machines /\ payload \in Graphs /\ skip \in Nat
      /\ PayloadOK /\ InStep(guest, created) /\ FollowsPayload(guest)
  BY DEF Inv, TypeOK, HostOK, GuestOK, AtOp, Running
<1>2. n \in Nat /\ guest.ops_i = n /\ n <= Len(payload.data)
  BY <1>1, MachineFields DEF InStep, FollowsPayload
<1>3. /\ payload.data \in Seq(Packets) /\ payload.ops \in Seq({"packet", "snap"})
      /\ Len(payload.data) \in Nat /\ Len(payload.ops) \in Nat
  BY <1>1 DEF Graphs
<1>4. n < Len(payload.ops) /\ payload.ops[n + 1] = op
  BY <1>2 DEF AtOp
<1> HIDE DEF n
<1>5. op \in {"packet", "snap"}
  BY <1>2, <1>3, <1>4
<1>6. CASE hpc = "create"
  <2>1. payload.ops = Append(PacketOps(skip), "snap") /\ Len(payload.data) = skip
    BY <1>1, <1>6 DEF PayloadOK, Prefix
  <2>2. /\ Len(payload.ops) = skip + 1 /\ payload.ops[skip + 1] = "snap"
        /\ \A i \in 1..skip : payload.ops[i] = "packet"
    <3> DEFINE m == PacketOps(skip)
               x == "snap"
    <3>1. /\ m \in Seq({"packet", "snap"}) /\ Len(m) = skip /\ x \in {"packet", "snap"}
          /\ \A i \in 1..skip : m[i] = "packet"
      BY <1>1, PacketOpsSeq
    <3>2. payload.ops = Append(m, x)
      BY <2>1
    <3> HIDE DEF m
    <3> QED  BY <1>1, <3>1, <3>2, AppendProperties
  <2> QED  BY <1>1, <1>2, <1>4, <1>5, <1>6, <2>1, <2>2 DEF n
<1>7. CASE hpc # "create"
  <2>1. payload.ops = PacketOps(Len(payload.data))
    BY <1>1, <1>7 DEF PayloadOK, Plain
  <2>2. /\ Len(payload.ops) = Len(payload.data)
        /\ \A i \in 1..Len(payload.data) : payload.ops[i] = "packet"
    BY <1>3, <2>1, PacketOpsSeq
  <2> QED  BY <1>2, <1>3, <1>4, <1>5, <1>7, <2>2 DEF n
<1> QED  BY <1>6, <1>7

\* The interpreter delivers a packet.
LEMMA FetchStep ==
    ASSUME Inv, Fetch
    PROVE  Inv'
<1> DEFINE h == interpreter_run(guest)
           n == Len(guest.fetched)
           pkt == payload.data[n + 1]
<1>1. Running /\ guest \in Machines /\ payload \in Graphs /\ Step(h) /\ AtOp("packet")
  BY DEF Inv, TypeOK, Fetch, AtOp
<1>2. InStep(guest, created) /\ FollowsPayload(guest) /\ created \in {0, 1}
  BY <1>1 DEF Inv, GuestOK, TypeOK, Running
<1>3. n \in Nat /\ n < Len(payload.data) /\ guest.data_i = n /\ Len(payload.data) \in Nat
  BY <1>1, <1>2, NextOp, MachineFields DEF InStep, Graphs
<1>4. payload.data \in Seq(Packets) /\ Waits(guest) /\ guest.data_i + 1 \in 1..Len(payload.data)
  BY <1>1, <1>3 DEF Graphs, AtOp, Waits
<1>5. /\ h \in Machines
      /\ guest.call.ch \in Chan /\ pkt \in Packets
      /\ h.ops_i = guest.ops_i + 1 /\ h.data_i = guest.data_i + 1
      /\ h.counter = guest.counter + 1
      /\ h.fetched = Append(guest.fetched, [ch |-> guest.call.ch, pkt |-> pkt])
  BY <1>1, <1>3, <1>4, FetchMachine
<1> HIDE DEF h
<1>6. /\ Len(h.fetched) = n + 1
      /\ \A i \in 1..n : h.fetched[i] = guest.fetched[i]
      /\ h.fetched[n + 1].pkt = pkt
  <2> DEFINE r == [ch |-> guest.call.ch, pkt |-> pkt]
  <2>1. r \in [ch : Chan, pkt : Packets] /\ r.pkt = pkt
    BY <1>5
  <2>2. h.fetched = Append(guest.fetched, r)
    BY <1>5
  <2>3. guest.fetched \in Seq([ch : Chan, pkt : Packets])
    BY <1>1, MachineFields
  <2> HIDE DEF r
  <2> QED  BY <2>1, <2>2, <2>3
<1>7. InStep(h, created)
  BY <1>1, <1>2, <1>3, <1>5, <1>6, MachineFields DEF InStep
<1>8. FollowsPayload(h)
  <2>1. \A i \in 1..n : h.fetched[i].pkt = payload.data[i]
    BY <1>2, <1>6 DEF FollowsPayload
  <2> QED  BY <1>3, <1>6, <2>1 DEF FollowsPayload
<1> QED  BY <1>1, <1>5, <1>7, <1>8, GuestStep

\* A read returns.
LEMMA CopyStep ==
    ASSUME Inv, Copy
    PROVE  Inv'
<1> DEFINE h == call_vm(guest)
<1>1. Running /\ guest \in Machines /\ guest.call # None /\ Step(h)
  BY DEF Inv, TypeOK, Copy
<1>2. InStep(guest, created) /\ FollowsPayload(guest)
  BY <1>1 DEF Inv, GuestOK, Running
<1>3. h \in Machines /\ InStep(h, created) /\ FollowsPayload(h)
  <2>1. /\ h \in Machines /\ h.ops_i = guest.ops_i /\ h.data_i = guest.data_i
        /\ h.counter = guest.counter /\ h.fetched = guest.fetched
    BY <1>1, CopyMachine
  <2> HIDE DEF h
  <2> QED  BY <1>2, <2>1 DEF InStep, FollowsPayload
<1> HIDE DEF h
<1> QED  BY <1>1, <1>3, GuestStep

\* The end of an execution that leaves temporary snapshot t.
LEMMA EndStep ==
    ASSUME Inv, Running, NEW STATE t, NEW exit \in Exits, EndRun(guest, t, exit),
           t = None \/ t \in Machines,
           t # None => InStep(t, 1) /\ FollowsPayload(t) /\ Len(t.fetched) = skip /\ Waits(t),
           t # None => snap,
           hpc \in {"test", "filter", "delete"} => t = tmp,
           created' = IF discard \/ t = None THEN 0 ELSE 1
    PROVE  Inv'
<1>0. /\ turn = "guest" /\ turn' = "host" /\ discard' = FALSE
      /\ hpc' = hpc /\ entry' = entry /\ skip' = skip /\ snap' = snap /\ left' = left
      /\ finds' = finds /\ cand' = cand /\ queue' = queue /\ payload' = payload
      /\ guest' = Reloaded(t, discard) /\ tmp' = IF discard THEN None ELSE t
      /\ result' = [exit |-> exit, used |-> guest.counter, real |-> Len(guest.fetched)]
  BY DEF Running, EndRun, host
<1>1. /\ TypeOK /\ PayloadOK /\ HostOK /\ SnapOK /\ QueueOK /\ CandOK
      /\ InStep(guest, created) /\ FollowsPayload(guest) /\ guest \in Machines
      /\ discard \in BOOLEAN
  BY <1>0 DEF Inv, GuestOK, TypeOK
<1>2. tmp' = None \/ tmp' \in Machines
  BY <1>0
<1>3. guest' = Reloaded(tmp', FALSE) /\ guest' \in Machines
  BY <1>0, <1>1, RootMachine DEF Reloaded
<1>4. TypeOK'
  BY <1>0, <1>1, <1>2, <1>3 DEF TypeOK
<1>5. PayloadOK' /\ HostOK' /\ QueueOK' /\ CandOK'
  BY <1>0, <1>1 DEF PayloadOK, Plain, Prefix, HostOK, QueueOK, CandOK
<1>6. created' = IF tmp' = None THEN 0 ELSE 1
  BY <1>0, <1>1
<1>7. SnapOK'
  <2>1. tmp' # None => snap'
    BY <1>0
  <2>2. hpc' \in {"mutate", "test", "filter"} /\ snap' => tmp' # None
    BY <1>0, <1>1 DEF SnapOK, HostOK
  <2>3. hpc' = "delete" => tmp' = None
    BY <1>0, <1>1 DEF SnapOK
  <2> QED  BY <1>0, <1>3, <1>6, <2>1, <2>2, <2>3 DEF SnapOK
<1>8. TmpOK'
  BY <1>0 DEF TmpOK, FollowsPayload
<1>9. GuestOK'
  <2>1. CASE tmp' = None
    BY <1>0, <1>3, <1>6, <2>1, RootMachine DEF GuestOK, Reloaded
  <2>2. CASE tmp' # None
    BY <1>0, <1>3, <1>6, <1>8, <2>2 DEF GuestOK, Reloaded, TmpOK
  <2> QED  BY <2>1, <2>2
<1>10. ResultOK'
  <2> DEFINE n == Len(guest.fetched)
             c == guest.counter
  <2>1. n \in Nat /\ c \in Nat /\ n <= Len(payload.data) /\ c \in {n, n + 1}
    BY <1>1, MachineFields DEF TypeOK, InStep, FollowsPayload
  <2>2. result' = [exit |-> exit, used |-> c, real |-> n]
    BY <1>0
  <2> HIDE DEF n, c
  <2> QED  BY <1>0, <2>1, <2>2 DEF ResultOK, Results
<1> QED  BY <1>4, <1>5, <1>7, <1>8, <1>9, <1>10 DEF Inv

\* The snapshot op saves the machine behind the prefix.
LEMMA CreateStep ==
    ASSUME Inv, CreateTmpSnapshot
    PROVE  Inv'
<1> DEFINE t == create_tmp_snapshot(guest)
<1>1. /\ Running /\ guest \in Machines /\ AtOp("snap") /\ tmp = None
      /\ EndRun(guest, t, "normal") /\ created' = IF discard THEN 0 ELSE 1
  BY DEF Inv, TypeOK, CreateTmpSnapshot, AtOp
<1>2. hpc = "create" /\ Len(guest.fetched) = skip
  BY <1>1, NextOp
<1>3. snap /\ created = 0 /\ InStep(guest, 0) /\ FollowsPayload(guest) /\ Waits(guest)
  BY <1>1, <1>2 DEF Inv, HostOK, SnapOK, GuestOK, Running, AtOp, Waits
<1>4. t \in Machines /\ t # None
  BY <1>1, SnapshotMachine, NoneIsNothing
<1>5. InStep(t, 1) /\ FollowsPayload(t) /\ Len(t.fetched) = skip /\ Waits(t)
  <2>1. /\ t.ops_i = guest.ops_i /\ t.data_i = guest.data_i /\ t.counter = guest.counter + 1
        /\ t.fetched = guest.fetched /\ t.call = guest.call
    BY <1>1, SnapshotMachine
  <2>2. Len(guest.fetched) \in Nat
    BY <1>1, MachineFields
  <2> HIDE DEF t
  <2> QED  BY <1>2, <1>3, <2>1, <2>2 DEF InStep, FollowsPayload, Waits
<1> HIDE DEF t
<1>6. "normal" \in Exits
  BY DEF Exits
<1> QED  BY <1>1, <1>2, <1>3, <1>4, <1>5, <1>6, EndStep

\* The other ends of an execution leave the snapshot there is.
LEMMA EndedStep ==
    ASSUME Inv, Running, NEW exit \in Exits, Ended(guest, exit)
    PROVE  Inv'
<1>1. EndRun(guest, tmp, exit) /\ created' = IF discard THEN 0 ELSE created
  BY DEF Ended
<1>2. created = IF tmp = None THEN 0 ELSE 1
  BY DEF Inv, SnapOK
<1>3. created' = IF discard \/ tmp = None THEN 0 ELSE 1
  BY <1>1, <1>2
<1>4. tmp = None \/ tmp \in Machines
  BY DEF Inv, TypeOK
<1>5. tmp # None => InStep(tmp, 1) /\ FollowsPayload(tmp) /\ Len(tmp.fetched) = skip /\ Waits(tmp)
  BY DEF Inv, TmpOK
<1>6. tmp # None => snap
  BY DEF Inv, SnapOK
<1> QED  BY <1>1, <1>3, <1>4, <1>5, <1>6, EndStep

----------------------------------------------------------------------------
(***************************************************************************)
(* The steps of the host.                                                  *)
(***************************************************************************)

\* What stays when the host moves on and leaves the machine alone.
HostFacts ==
    /\ turn = "host" /\ guest' = guest /\ tmp' = tmp /\ created' = created /\ result' = result

\* The machine's part of the invariant, when the snapshot keeps its place.
LEMMA HostStep ==
    ASSUME Inv, HostFacts,
           turn' \in {"host", "guest"}, snap' \in BOOLEAN, finds' \in BOOLEAN, discard' \in BOOLEAN,
           hpc' \in {"iter", "create", "mutate", "test", "filter", "delete", "asserted"},
           skip' \in Nat, left' \in Nat, queue' \in Seq(Entries), entry' \in 0..Len(queue'),
           payload' \in Graphs,
           tmp # None => /\ skip' = skip /\ skip <= Len(payload'.data)
                         /\ \A i \in 1..skip : payload'.data[i] = payload.data[i]
    PROVE  TypeOK' /\ GuestOK' /\ TmpOK'
<1>1. TypeOK'
  BY DEF Inv, TypeOK, HostFacts
<1>2. /\ GuestOK /\ TmpOK /\ created = IF tmp = None THEN 0 ELSE 1
      /\ guest = IF tmp = None THEN Root ELSE tmp
      /\ payload.data \in Seq(Packets) /\ payload'.data \in Seq(Packets)
      /\ tmp = None \/ tmp \in Machines
  BY DEF Inv, TypeOK, SnapOK, Reloaded, HostFacts, Graphs
<1>3. TmpOK'
  <2> SUFFICES ASSUME tmp # None
               PROVE  TmpOK'
    BY DEF TmpOK, HostFacts
  <2>1. InStep(tmp, 1) /\ FollowsPayload(tmp) /\ Len(tmp.fetched) = skip /\ Waits(tmp)
    BY <1>2 DEF TmpOK
  <2>2. FollowsPayload(tmp)'
    BY <2>1 DEF FollowsPayload, HostFacts
  <2> QED  BY <2>1, <2>2 DEF TmpOK, HostFacts, InStep, Waits
<1>4. GuestOK'
  <2>1. CASE tmp = None
    <3>1. FollowsPayload(Root)'
      <4>1. Len(Root.fetched) = 0 /\ Len(payload'.data) \in Nat
        BY <1>2, RootMachine
      <4> QED  BY <4>1 DEF FollowsPayload
    <3> QED  BY <1>2, <2>1, <3>1, RootMachine DEF GuestOK, HostFacts
  <2>2. CASE tmp # None
    BY <1>2, <1>3, <2>2 DEF GuestOK, TmpOK, HostFacts
  <2> QED  BY <2>1, <2>2
<1> QED  BY <1>1, <1>3, <1>4

\* What the invariant says about the host, in the form the steps use.
LEMMA HostTypes ==
    ASSUME Inv
    PROVE  /\ queue \in Seq(Entries) /\ Len(queue) \in Nat /\ DOMAIN queue = 1..Len(queue)
           /\ entry \in 0..Len(queue) /\ payload \in Graphs
           /\ payload.ops \in Seq({"packet", "snap"}) /\ Len(payload.ops) \in Nat
           /\ payload.data \in Seq(Packets) /\ Len(payload.data) \in Nat
           /\ skip \in Nat /\ left \in Nat /\ snap \in BOOLEAN /\ finds \in BOOLEAN
           /\ discard \in BOOLEAN /\ created \in {0, 1}
           /\ MinCutoff \in Nat \ {0} /\ HavocRuns \in Nat \ {0} /\ FilterRuns \in Nat \ {0}
           /\ NoFindLimit \in Nat
BY SnapshotFuzzAssumption DEF Inv, TypeOK, Graphs

\* No snapshot op in front of the first skip nodes.
LEMMA SkippedOps ==
    ASSUME Inv, hpc = "mutate"
    PROVE  /\ skip <= Len(payload.data) /\ skip <= Len(payload.ops)
           /\ \A i \in 1..skip : payload.ops[i] = "packet"
<1> USE HostTypes
<1>1. CASE ~ snap
  <2>1. skip = 0
    BY <1>1 DEF Inv, HostOK
  <2> QED  BY <2>1
<1>2. CASE snap /\ Plain
  <2>1. /\ payload.ops = PacketOps(Len(payload.data)) /\ skip <= Len(payload.data)
    BY <1>2 DEF Plain
  <2>2. /\ Len(payload.ops) = Len(payload.data)
        /\ \A i \in 1..Len(payload.data) : payload.ops[i] = "packet"
    BY <2>1, PacketOpsSeq
  <2> QED  BY <2>1, <2>2
<1>3. CASE snap /\ Prefix
  <2> DEFINE m == PacketOps(skip)
             x == "snap"
  <2>1. /\ m \in Seq({"packet", "snap"}) /\ Len(m) = skip /\ x \in {"packet", "snap"}
        /\ \A i \in 1..skip : m[i] = "packet"
    BY PacketOpsSeq
  <2>2. payload.ops = Append(m, x) /\ skip = Len(payload.data)
    BY <1>3 DEF Prefix
  <2> HIDE DEF m
  <2>3. Len(payload.ops) = skip + 1 /\ \A i \in 1..skip : payload.ops[i] = "packet"
    BY <2>1, <2>2, AppendProperties
  <2> QED  BY <2>2, <2>3
<1> QED  BY <1>1, <1>2, <1>3 DEF Inv, PayloadOK

\* perform_gen
LEMMA GenerateStep ==
    ASSUME Inv, Generate
    PROVE  Inv'
<1> USE HostTypes
<1>1. /\ turn = "host" /\ hpc = "iter" /\ turn' = "guest" /\ hpc' = "test"
      /\ entry' = 0 /\ skip' = 0 /\ snap' = FALSE /\ left' = 1 /\ finds' = FALSE
      /\ cand' = cand /\ queue' = queue /\ guest' = guest /\ tmp' = tmp
      /\ created' = created /\ discard' = discard /\ result' = result
  BY DEF Generate, At, Send, vm
<1>2. PICK t \in Tails(0) : payload' = append(start(payload, 0), t)
  BY DEF Generate
<1>3. payload' \in Graphs /\ payload'.ops = PacketOps(Len(payload'.data)) /\ 0 <= Len(payload'.data)
  <2> DEFINE z == 0
  <2>1. z \in Nat /\ t \in Tails(z) /\ z <= Len(payload.data) /\ z <= Len(payload.ops)
        /\ \A i \in 1..z : payload.ops[i] = "packet"
    OBVIOUS
  <2>2. payload' = append(start(payload, z), t)
    BY <1>2
  <2> HIDE DEF z
  <2>3. payload' \in Graphs /\ payload'.ops = PacketOps(Len(payload'.data))
    BY <2>1, <2>2, MutatedPayload
  <2>4. Len(payload'.data) \in Nat
    BY <2>3 DEF Graphs
  <2> QED  BY <2>3, <2>4
<1>4. tmp = None /\ ~ discard /\ SnapOK /\ QueueOK /\ guest = Root
  BY <1>1 DEF Inv, SnapOK, HostOK, Reloaded
<1>5. TypeOK' /\ GuestOK' /\ TmpOK'
  <2>1. HostFacts
    BY <1>1 DEF HostFacts
  <2>2. /\ turn' \in {"host", "guest"} /\ snap' \in BOOLEAN /\ finds' \in BOOLEAN
        /\ discard' \in BOOLEAN /\ skip' \in Nat /\ left' \in Nat
        /\ hpc' \in {"iter", "create", "mutate", "test", "filter", "delete", "asserted"}
    BY <1>1
  <2>3. queue' \in Seq(Entries) /\ entry' \in 0..Len(queue') /\ payload' \in Graphs
    BY <1>1, <1>3
  <2> QED  BY <1>4, <2>1, <2>2, <2>3, HostStep
<1>6. PayloadOK' /\ HostOK' /\ QueueOK' /\ CandOK' /\ ResultOK'
  BY <1>1, <1>3, <1>4 DEF PayloadOK, Plain, HostOK, QueueOK, CandOK, ResultOK
<1>7. SnapOK'
  BY <1>1, <1>4 DEF SnapOK
<1> QED  BY <1>5, <1>6, <1>7 DEF Inv

\* havoc_no_snap
LEMMA HavocNoSnapStep ==
    ASSUME Inv, HavocNoSnap
    PROVE  Inv'
<1> USE HostTypes
<1>1. /\ turn = "host" /\ hpc = "iter" /\ turn' = turn /\ hpc' = "mutate"
      /\ skip' = 0 /\ snap' = FALSE /\ left' = HavocRuns /\ finds' = FALSE
      /\ cand' = cand /\ queue' = queue /\ payload' = payload /\ guest' = guest /\ tmp' = tmp
      /\ created' = created /\ discard' = discard /\ result' = result
      /\ entry' \in DOMAIN queue
  BY DEF HavocNoSnap, At, vm
<1>2. tmp = None /\ ~ discard /\ SnapOK /\ QueueOK /\ guest = Root
  BY <1>1 DEF Inv, SnapOK, HostOK, Reloaded
<1>3. TypeOK' /\ GuestOK' /\ TmpOK'
  <2>1. HostFacts
    BY <1>1 DEF HostFacts
  <2>2. /\ turn' \in {"host", "guest"} /\ snap' \in BOOLEAN /\ finds' \in BOOLEAN
        /\ discard' \in BOOLEAN /\ skip' \in Nat /\ left' \in Nat
        /\ hpc' \in {"iter", "create", "mutate", "test", "filter", "delete", "asserted"}
    BY <1>1
  <2>3. queue' \in Seq(Entries) /\ entry' \in 0..Len(queue') /\ payload' \in Graphs
    BY <1>1
  <2> QED  BY <1>2, <2>1, <2>2, <2>3, HostStep
<1>4. PayloadOK' /\ HostOK' /\ QueueOK' /\ CandOK' /\ ResultOK'
  BY <1>1, <1>2 DEF PayloadOK, HostOK, QueueOK, CandOK, ResultOK
<1>5. SnapOK'
  BY <1>1, <1>2 DEF SnapOK
<1> QED  BY <1>3, <1>4, <1>5 DEF Inv

\* A cutoff lies within the input.
LEMMA CutoffInside ==
    ASSUME Inv, NEW i \in DOMAIN queue, NEW c \in Cutoffs(queue[i])
    PROVE  /\ c \in Nat /\ c <= Len(queue[i].data) /\ queue[i].data \in Seq(Packets)
           /\ Placement = "Aggressive" => queue[i].cutoff >= MinCutoff
<1> DEFINE e == queue[i]
<1>1. e \in Entries /\ Replays(e) /\ e.cutoff <= Len(e.data)
  BY HostTypes DEF Inv, QueueOK
<1>2. e.data \in Seq(Packets) /\ Len(e.data) \in Nat /\ e.used \in Nat /\ e.cutoff \in Nat
  BY <1>1 DEF Entries
<1> HIDE DEF e
<1>3. c \in Cutoffs(e)
  BY DEF e
<1>4. CASE Placement = "Balanced"
  <2>1. c \in 0..(num_nodes(e) - 1)
    BY <1>3, <1>4 DEF Cutoffs
  <2>2. num_nodes(e) \in Nat /\ num_nodes(e) <= Len(e.data)
    BY <1>2 DEF num_nodes, Lesser
  <2> QED  BY <1>2, <1>4, <2>1, <2>2 DEF e
<1>5. CASE Placement = "Aggressive"
  <2>1. c = e.cutoff /\ ~ (e.cutoff < MinCutoff)
    BY <1>3, <1>5 DEF Cutoffs
  <2> QED  BY <1>1, <1>2, <2>1, HostTypes DEF e
<1>6. CASE Placement = "None"
  BY <1>3, <1>6 DEF Cutoffs
<1> QED  BY <1>4, <1>5, <1>6, SnapshotFuzzAssumption

\* havoc_with_snap, up to run_create_snapshot
LEMMA HavocWithSnapStep ==
    ASSUME Inv, HavocWithSnap
    PROVE  Inv' /\ hpc' = "create" /\ turn' = "guest"
<1> USE HostTypes
<1>1. /\ turn = "host" /\ hpc = "iter"
      /\ snap' = TRUE /\ left' = HavocRuns /\ finds' = FALSE
      /\ cand' = cand /\ queue' = queue /\ guest' = guest /\ tmp' = tmp
      /\ created' = created /\ discard' = discard /\ result' = result
  BY DEF HavocWithSnap, At, vm
<1>2. tmp = None /\ created = 0 /\ ~ discard /\ SnapOK /\ QueueOK /\ guest = Root
  BY <1>1 DEF Inv, SnapOK, HostOK, Reloaded
<1>3. turn' = "guest" /\ hpc' = "create"
  BY <1>2 DEF HavocWithSnap, Send
<1>4. PICK i \in DOMAIN queue : \E c \in Cutoffs(queue[i]) :
          /\ entry' = i
          /\ skip' = c
          /\ payload' = prepare_snapshot(payload, queue[i].data, c)
  BY DEF HavocWithSnap
<1>5. PICK c \in Cutoffs(queue[i]) :
          /\ entry' = i
          /\ skip' = c
          /\ payload' = prepare_snapshot(payload, queue[i].data, c)
  BY <1>4
<1>6. /\ c \in Nat /\ c <= Len(queue[i].data) /\ queue[i].data \in Seq(Packets)
      /\ Placement = "Aggressive" => queue[i].cutoff >= MinCutoff
  BY CutoffInside
<1>7. /\ payload' \in Graphs /\ payload'.ops = Append(PacketOps(c), "snap")
      /\ Len(payload'.data) = c
  BY <1>5, <1>6, SnapshotPayload
<1>8. TypeOK' /\ GuestOK' /\ TmpOK'
  <2>1. HostFacts
    BY <1>1 DEF HostFacts
  <2>2. /\ turn' \in {"host", "guest"} /\ snap' \in BOOLEAN /\ finds' \in BOOLEAN
        /\ discard' \in BOOLEAN /\ skip' \in Nat /\ left' \in Nat
        /\ hpc' \in {"iter", "create", "mutate", "test", "filter", "delete", "asserted"}
    BY <1>1, <1>3, <1>5, <1>6
  <2>3. queue' \in Seq(Entries) /\ entry' \in 0..Len(queue') /\ payload' \in Graphs
    BY <1>1, <1>5, <1>7
  <2> QED  BY <1>2, <2>1, <2>2, <2>3, HostStep
<1>9. PayloadOK' /\ QueueOK' /\ CandOK' /\ ResultOK'
  BY <1>1, <1>2, <1>3, <1>5, <1>7 DEF PayloadOK, Prefix, QueueOK, CandOK, ResultOK
<1>10. HostOK'
  BY <1>1, <1>3, <1>5, <1>6 DEF HostOK
<1>11. SnapOK'
  BY <1>1, <1>2, <1>3 DEF SnapOK
<1> QED  BY <1>3, <1>8, <1>9, <1>10, <1>11 DEF Inv

\* update_iters_no_finds and the next cutoff leave a valid entry behind.
LEMMA AfterSnapEntry ==
    ASSUME NEW e \in Entries, e.cutoff <= Len(e.data), NEW found \in BOOLEAN,
           Placement = "Aggressive" => e.cutoff >= MinCutoff
    PROVE  LET a == AfterSnap(e, found)
           IN  /\ a \in Entries
               /\ a.ops = e.ops /\ a.data = e.data /\ a.used = e.used /\ a.real = e.real
               /\ a.cutoff <= Len(a.data)
<1>1. CASE Placement # "Aggressive"
  BY <1>1 DEF AfterSnap
<1>2. CASE Placement = "Aggressive"
  <2> DEFINE n == IF found THEN 0 ELSE Lesser(e.idle + 1, NoFindLimit + 1)
             c == IF n <= NoFindLimit THEN e.cutoff
                  ELSE IF e.cutoff = MinCutoff THEN max_cutoff(e) ELSE e.cutoff - 1
  <2>1. /\ Len(e.data) \in Nat /\ e.cutoff \in Nat /\ e.idle \in 0..(NoFindLimit + 1)
        /\ NoFindLimit \in Nat /\ MinCutoff \in Nat \ {0}
    BY SnapshotFuzzAssumption DEF Entries
  <2>2. n \in 0..(NoFindLimit + 1)
    BY <2>1 DEF Lesser
  <2>3. c \in Nat /\ c <= Len(e.data)
    <3> HIDE DEF n
    <3> QED  BY <1>2, <2>1, <2>2 DEF max_cutoff
  <2>4. AfterSnap(e, found) = [e EXCEPT !.idle = n, !.cutoff = c]
    BY <1>2 DEF AfterSnap, Entries
  <2> HIDE DEF n, c
  <2>5. LET a == [e EXCEPT !.idle = n, !.cutoff = c]
        IN  /\ a \in Entries
            /\ a.ops = e.ops /\ a.data = e.data /\ a.used = e.used /\ a.real = e.real
            /\ a.cutoff = c
    BY <2>2, <2>3 DEF Entries
  <2> QED  BY <2>3, <2>4, <2>5
<1> QED  BY <1>1, <1>2

\* The end of an iteration, with the snapshot gone.
LEMMA BackToIterStep ==
    ASSUME Inv, HostFacts, turn' = turn, cand' = cand, payload' = payload, discard' = FALSE,
           BackToIter(queue), tmp = None
    PROVE  Inv'
<1> USE HostTypes
<1>1. /\ turn = "host" /\ turn' = "host" /\ hpc' = "iter" /\ entry' = 0 /\ skip' = 0
      /\ snap' = FALSE /\ left' = 0 /\ finds' = FALSE
      /\ queue' = IF snap THEN [queue EXCEPT ![entry] = AfterSnap(queue[entry], finds)] ELSE queue
  BY DEF BackToIter, HostFacts
<1>2. QueueOK /\ SnapOK
  BY DEF Inv
<1>3. queue' \in Seq(Entries) /\ QueueOK'
  <2>1. CASE ~ snap
    BY <1>1, <1>2, <2>1 DEF QueueOK
  <2>2. CASE snap
    <3> DEFINE a == AfterSnap(queue[entry], finds)
    <3>1. entry \in 1..Len(queue) /\ (Placement = "Aggressive" => queue[entry].cutoff >= MinCutoff)
      BY <2>2 DEF Inv, HostOK
    <3>2. queue[entry] \in Entries /\ Replays(queue[entry])
          /\ queue[entry].cutoff <= Len(queue[entry].data)
      BY <1>2, <3>1 DEF QueueOK
    <3>3. /\ a \in Entries
          /\ a.ops = queue[entry].ops /\ a.data = queue[entry].data
          /\ a.used = queue[entry].used /\ a.real = queue[entry].real
          /\ a.cutoff <= Len(a.data)
      BY <3>1, <3>2, AfterSnapEntry
    <3>4. queue' = [queue EXCEPT ![entry] = a]
      BY <1>1, <2>2
    <3> HIDE DEF a
    <3>5. /\ queue' \in Seq(Entries) /\ Len(queue') = Len(queue)
          /\ \A j \in 1..Len(queue) : queue'[j] = IF j = entry THEN a ELSE queue[j]
      BY <3>1, <3>3, <3>4, ExceptSeq
    <3>6. Replays(a)
      BY <3>2, <3>3 DEF Replays
    <3>7. QueueOK'
      <4> SUFFICES ASSUME NEW j \in 1..Len(queue)
                   PROVE  Replays(queue'[j]) /\ queue'[j].cutoff <= Len(queue'[j].data)
        BY <3>5 DEF QueueOK, Replays
      <4>1. CASE j = entry
        BY <3>3, <3>5, <3>6, <4>1
      <4>2. CASE j # entry
        BY <1>2, <3>5, <4>2 DEF QueueOK
      <4> QED  BY <4>1, <4>2
    <3> QED  BY <3>5, <3>7
  <2> QED  BY <2>1, <2>2
<1>4. TypeOK' /\ GuestOK' /\ TmpOK'
  <2>1. /\ turn' \in {"host", "guest"} /\ snap' \in BOOLEAN /\ finds' \in BOOLEAN
        /\ discard' \in BOOLEAN /\ skip' \in Nat /\ left' \in Nat
        /\ hpc' \in {"iter", "create", "mutate", "test", "filter", "delete", "asserted"}
    BY <1>1
  <2>2. queue' \in Seq(Entries) /\ entry' \in 0..Len(queue') /\ payload' \in Graphs
    BY <1>1, <1>3
  <2> QED  BY <2>1, <2>2, HostStep
<1>5. PayloadOK' /\ HostOK' /\ CandOK' /\ ResultOK'
  BY <1>1 DEF PayloadOK, HostOK, CandOK, ResultOK
<1>6. SnapOK'
  BY <1>1, <1>2 DEF SnapOK, HostFacts
<1> QED  BY <1>3, <1>4, <1>5, <1>6 DEF Inv

\* The prefix was run, and did or did not get as far as the snapshot op.
LEMMA CreateDoneStep ==
    ASSUME Inv, CreateDone
    PROVE  Inv'
<1> USE HostTypes
<1>1. /\ turn = "host" /\ hpc = "create" /\ turn' = turn /\ cand' = cand /\ payload' = payload
      /\ guest' = guest /\ tmp' = tmp /\ created' = created /\ discard' = discard
      /\ result' = result /\ HostFacts
  BY DEF CreateDone, At, vm, HostFacts
<1>2. /\ PayloadOK /\ HostOK /\ SnapOK /\ QueueOK /\ ~ discard /\ snap
      /\ created = IF tmp = None THEN 0 ELSE 1
  BY <1>1 DEF Inv, SnapOK, HostOK
<1>3. CASE created # 1
  <2>1. BackToIter(queue) /\ tmp = None
    BY <1>2, <1>3 DEF CreateDone
  <2> QED  BY <1>1, <1>2, <2>1, BackToIterStep
<1>4. CASE created = 1
  <2>1. /\ hpc' = "mutate" /\ entry' = entry /\ skip' = skip /\ snap' = snap /\ left' = left
        /\ finds' = finds /\ queue' = queue /\ tmp # None
    <3>1. hpc' = "mutate" /\ UNCHANGED <<entry, skip, snap, left, finds, queue>>
      BY <1>4 DEF CreateDone
    <3>2. tmp # None
      BY <1>2, <1>4
    <3> QED  BY <3>1, <3>2
  <2>2. TypeOK' /\ GuestOK' /\ TmpOK'
    <3>1. /\ turn' \in {"host", "guest"} /\ snap' \in BOOLEAN /\ finds' \in BOOLEAN
          /\ discard' \in BOOLEAN /\ skip' \in Nat /\ left' \in Nat
          /\ hpc' \in {"iter", "create", "mutate", "test", "filter", "delete", "asserted"}
      BY <1>1, <2>1
    <3>2. queue' \in Seq(Entries) /\ entry' \in 0..Len(queue') /\ payload' \in Graphs
      BY <1>1, <2>1
    <3>3. skip <= Len(payload'.data)
      BY <1>1, <1>2 DEF PayloadOK, Prefix
    <3> QED  BY <1>1, <2>1, <3>1, <3>2, <3>3, HostStep
  <2>3. left > 0
    BY <1>1 DEF Inv, HostOK
  <2>4. PayloadOK' /\ HostOK' /\ QueueOK' /\ CandOK' /\ ResultOK'
    BY <1>1, <1>2, <2>1, <2>3 DEF PayloadOK, Prefix, HostOK, QueueOK, CandOK, ResultOK
  <2>5. SnapOK'
    BY <1>1, <1>2, <2>1 DEF SnapOK
  <2> QED  BY <2>2, <2>4, <2>5 DEF Inv
<1> QED  BY <1>3, <1>4

\* mutate: the tail is replaced, or an assert of splice or repeat fails.
LEMMA MutateStep ==
    ASSUME Inv, Mutate
    PROVE  Inv'
<1> USE HostTypes
<1>1. /\ turn = "host" /\ hpc = "mutate" /\ left > 0
      /\ entry' = entry /\ skip' = skip /\ snap' = snap /\ left' = left /\ finds' = finds
      /\ cand' = cand /\ queue' = queue /\ guest' = guest /\ tmp' = tmp
      /\ created' = created /\ discard' = discard /\ result' = result /\ HostFacts
  BY DEF Mutate, At, vm, HostFacts
<1>2. /\ HostOK /\ SnapOK /\ QueueOK /\ ~ discard
  BY <1>1 DEF Inv, SnapOK
<1>3. \/ /\ \E t \in Tails(skip) : payload' = append(start(payload, skip), t)
         /\ hpc' = "test" /\ turn' = "guest"
      \/ payload' = start(payload, skip) /\ hpc' = "asserted" /\ turn' = "host"
  BY <1>1 DEF Mutate, Send
<1>4. /\ skip <= Len(payload.data) /\ skip <= Len(payload.ops)
      /\ \A i \in 1..skip : payload.ops[i] = "packet"
  BY <1>1, SkippedOps
<1>5. /\ payload' \in Graphs /\ skip <= Len(payload'.data)
      /\ payload'.ops = PacketOps(Len(payload'.data))
      /\ \A i \in 1..skip : payload'.data[i] = payload.data[i]
  <2>1. CASE \E t \in Tails(skip) : payload' = append(start(payload, skip), t)
    <3>1. PICK t \in Tails(skip) : payload' = append(start(payload, skip), t)
      BY <2>1
    <3> QED  BY <1>4, <3>1, MutatedPayload
  <2>2. CASE payload' = start(payload, skip)
    <3>1. /\ payload' \in Graphs /\ payload'.ops = PacketOps(skip) /\ Len(payload'.data) = skip
          /\ \A i \in 1..skip : payload'.data[i] = payload.data[i]
      BY <1>4, <2>2, StartPayload
    <3> QED  BY <3>1
  <2> QED  BY <1>3, <2>1, <2>2
<1>6. hpc' \in {"test", "asserted"} /\ (hpc' = "test" <=> turn' = "guest")
      /\ turn' \in {"host", "guest"}
  BY <1>3
<1>7. TypeOK' /\ GuestOK' /\ TmpOK'
  <2>1. /\ turn' \in {"host", "guest"} /\ snap' \in BOOLEAN /\ finds' \in BOOLEAN
        /\ discard' \in BOOLEAN /\ skip' \in Nat /\ left' \in Nat
        /\ hpc' \in {"iter", "create", "mutate", "test", "filter", "delete", "asserted"}
    BY <1>1, <1>6
  <2>2. queue' \in Seq(Entries) /\ entry' \in 0..Len(queue') /\ payload' \in Graphs
    BY <1>1, <1>5
  <2> QED  BY <1>1, <1>5, <2>1, <2>2, HostStep
<1>8. PayloadOK' /\ HostOK' /\ QueueOK' /\ CandOK' /\ ResultOK'
  BY <1>1, <1>2, <1>5, <1>6 DEF PayloadOK, Plain, HostOK, QueueOK, CandOK, ResultOK
<1>9. SnapOK'
  BY <1>1, <1>2, <1>6 DEF SnapOK
<1> QED  BY <1>7, <1>8, <1>9 DEF Inv

\* What perform_run makes of an execution whose coverage it wants confirmed.
LEMMA CandidateReplays ==
    ASSUME Inv, hpc = "test", turn = "host",
           NEW c, c = [ops |-> payload.ops, data |-> payload.data,
                       used |-> Lesser(result.used, Len(payload.data)),
                       real |-> result.real, exit |-> result.exit, again |-> FilterRuns]
    PROVE  c \in Candidates /\ Replays(c)
<1> USE HostTypes
<1> DEFINE u == Lesser(result.used, Len(payload.data))
           r == result.real
           d == payload.data
           o == payload.ops
<1>1. /\ result.used \in Nat /\ r \in Nat /\ result.exit \in Exits
      /\ r <= Len(d) /\ result.used \in {r, r + 1}
  BY DEF Inv, ResultOK, Results
<1>2. o = PacketOps(Len(d))
  BY DEF Inv, PayloadOK, Plain
<1>3. u \in Nat /\ u \in {r, r + 1} /\ u <= Len(d)
  <2>1. u = IF result.used < Len(d) THEN result.used ELSE Len(d)
    BY DEF Lesser
  <2>2. Len(d) \in Nat
    OBVIOUS
  <2> HIDE DEF u, r, d
  <2> QED  BY <1>1, <2>1, <2>2
<1>4. /\ o \in Seq({"packet", "snap"}) /\ d \in Seq(Packets) /\ FilterRuns \in Nat \ {0}
      /\ c = [ops |-> o, data |-> d, used |-> u, real |-> r, exit |-> result.exit,
              again |-> FilterRuns]
  OBVIOUS
<1> HIDE DEF u, r, d, o
<1> QED  BY <1>1, <1>2, <1>3, <1>4 DEF Candidates, Replays

\* A step of the host that leaves the payload and the snapshot alone.
LEMMA SamePayload ==
    ASSUME Inv, HostFacts, payload' = payload, skip' = skip, snap' = snap, entry' = entry,
           discard' \in BOOLEAN, turn' \in {"host", "guest"}, finds' \in BOOLEAN, left' \in Nat,
           hpc' \in {"mutate", "filter", "delete", "asserted"},
           queue' \in Seq(Entries), Len(queue') >= Len(queue)
    PROVE  TypeOK' /\ GuestOK' /\ TmpOK'
<1> USE HostTypes
<1>1. queue' \in Seq(Entries) /\ entry' \in 0..Len(queue') /\ payload' \in Graphs
  OBVIOUS
<1>2. tmp # None => skip <= Len(payload'.data)
  BY MachineFields DEF Inv, TypeOK, TmpOK, FollowsPayload
<1> QED  BY <1>1, <1>2, HostStep

\* perform_run after run_test
LEMMA TestDoneStep ==
    ASSUME Inv, TestDone
    PROVE  Inv'
<1> USE HostTypes
<1>1. /\ turn = "host" /\ hpc = "test"
      /\ entry' = entry /\ skip' = skip /\ snap' = snap /\ finds' = finds
      /\ queue' = queue /\ payload' = payload /\ guest' = guest /\ tmp' = tmp
      /\ created' = created /\ discard' = discard /\ result' = result /\ HostFacts
  BY DEF TestDone, At, vm, HostFacts
<1>2. /\ PayloadOK /\ HostOK /\ SnapOK /\ QueueOK /\ ~ discard /\ left > 0
  BY <1>1 DEF Inv, SnapOK, HostOK
<1>3. \/ hpc' = "mutate" /\ left' = left - 1 /\ turn' = "host" /\ cand' = cand
      \/ /\ hpc' = "filter" /\ left' = left /\ turn' = "guest"
         /\ cand' = [ops |-> payload.ops, data |-> payload.data,
                     used |-> Lesser(result.used, Len(payload.data)),
                     real |-> result.real, exit |-> result.exit, again |-> FilterRuns]
  BY <1>1 DEF TestDone, Send
<1>4. hpc' = "filter" => cand' \in Candidates /\ Replays(cand')
  BY <1>1, <1>3, CandidateReplays
<1>5. /\ hpc' \in {"mutate", "filter"} /\ turn' \in {"host", "guest"}
      /\ turn' = "guest" <=> hpc' = "filter"
      /\ left' \in Nat /\ (hpc' = "filter" => left' > 0)
  BY <1>2, <1>3
<1>6. TypeOK' /\ GuestOK' /\ TmpOK'
  BY <1>1, <1>5, SamePayload
<1>7. CandOK'
  BY <1>4 DEF CandOK, Replays
<1>8. PayloadOK' /\ HostOK' /\ QueueOK' /\ ResultOK'
  BY <1>1, <1>2, <1>5 DEF PayloadOK, Plain, HostOK, QueueOK, ResultOK
<1>9. SnapOK'
  BY <1>1, <1>2, <1>5 DEF SnapOK
<1> QED  BY <1>6, <1>7, <1>8, <1>9 DEF Inv

\* queue.add stores a confirmed input, or nothing.
LEMMA AddEntry ==
    ASSUME Inv, cand \in Candidates, Replays(cand)
    PROVE  LET q == add
           IN  /\ q \in Seq(Entries)
               /\ q = queue \/ Len(q) = Len(queue) + 1
               /\ \A i \in 1..Len(queue) : q[i] = queue[i]
               /\ \A i \in 1..Len(q) : i > Len(queue) =>
                     /\ Replays(q[i]) /\ q[i].cutoff <= Len(q[i].data)
                     /\ q[i].real = cand.real /\ q[i].data = cand.data
                     /\ cand.exit # "timeout"
<1> USE HostTypes
<1> DEFINE k == max_cutoff(cand)
           e == [ops |-> cand.ops, data |-> cand.data, used |-> cand.used,
                 real |-> cand.real, cutoff |-> k, idle |-> 0]
<1>1. /\ cand.ops \in Seq({"packet", "snap"}) /\ cand.data \in Seq(Packets)
      /\ cand.used \in Nat /\ cand.real \in Nat /\ cand.exit \in Exits
      /\ Len(cand.data) \in Nat
  BY DEF Candidates
<1>2. k \in Nat /\ k <= Len(cand.data)
  BY <1>1 DEF max_cutoff
<1> HIDE DEF k
<1>3. e \in Entries /\ Replays(e) /\ e.cutoff <= Len(e.data)
      /\ e.real = cand.real /\ e.data = cand.data
  <2>1. 0 \in 0..(NoFindLimit + 1)
    OBVIOUS
  <2> QED  BY <1>1, <1>2, <2>1 DEF Entries, Replays
<1>4. add = queue \/ (add = Append(queue, e) /\ cand.exit # "timeout")
  BY DEF add, k
<1> HIDE DEF e
<1>5. CASE add = queue
  BY <1>5
<1>6. CASE add = Append(queue, e) /\ cand.exit # "timeout"
  <2>1. /\ Append(queue, e) \in Seq(Entries)
        /\ Len(Append(queue, e)) = Len(queue) + 1
        /\ \A i \in 1..Len(queue) : Append(queue, e)[i] = queue[i]
        /\ Append(queue, e)[Len(queue) + 1] = e
    BY <1>3, AppendProperties
  <2>2. \A i \in 1..(Len(queue) + 1) : i > Len(queue) => i = Len(queue) + 1
    OBVIOUS
  <2> QED  BY <1>3, <1>6, <2>1, <2>2
<1> QED  BY <1>4, <1>5, <1>6

\* filter_nondet_storage_reasons, and the verdict
LEMMA FilterDoneStep ==
    ASSUME Inv, FilterDone
    PROVE  Inv'
<1> USE HostTypes
<1>1. /\ turn = "host" /\ hpc = "filter"
      /\ entry' = entry /\ skip' = skip /\ snap' = snap
      /\ payload' = payload /\ guest' = guest /\ tmp' = tmp
      /\ created' = created /\ discard' = discard /\ result' = result /\ HostFacts
  BY DEF FilterDone, At, vm, HostFacts
<1>2. /\ PayloadOK /\ HostOK /\ SnapOK /\ QueueOK /\ ~ discard /\ left > 0
      /\ cand \in Candidates /\ Replays(cand)
  BY <1>1 DEF Inv, SnapOK, HostOK, CandOK
<1>3. CASE cand.again > 1 /\ cand' = [cand EXCEPT !.again = @ - 1] /\ Send("filter")
             /\ UNCHANGED <<left, finds, queue>>
  <2>1. hpc' = "filter" /\ turn' = "guest" /\ left' = left /\ finds' = finds /\ queue' = queue
    BY <1>3 DEF Send
  <2>2. cand' \in Candidates /\ Replays(cand')
    <3> DEFINE n == cand.again - 1
    <3>1. n \in Nat \ {0}
      BY <1>2, <1>3 DEF Candidates
    <3>2. cand' = [cand EXCEPT !.again = n]
      BY <1>3
    <3> HIDE DEF n
    <3>3. /\ cand' \in Candidates
          /\ cand'.ops = cand.ops /\ cand'.data = cand.data
          /\ cand'.used = cand.used /\ cand'.real = cand.real
      BY <1>2, <3>1, <3>2 DEF Candidates
    <3> QED  BY <1>2, <3>3 DEF Replays
  <2>3. CandOK'
    BY <2>2 DEF CandOK, Replays
  <2>4. TypeOK' /\ GuestOK' /\ TmpOK'
    BY <1>1, <2>1, SamePayload
  <2>5. PayloadOK' /\ HostOK' /\ QueueOK' /\ ResultOK'
    BY <1>1, <1>2, <2>1 DEF PayloadOK, Plain, HostOK, QueueOK, ResultOK
  <2>6. SnapOK'
    BY <1>1, <1>2, <2>1 DEF SnapOK
  <2> QED  BY <2>3, <2>4, <2>5, <2>6 DEF Inv
<1>4. CASE /\ queue' = add \/ queue' = queue
           /\ finds' = (finds \/ queue' # queue)
           /\ hpc' = "mutate" /\ left' = left - 1 /\ turn' = turn
  <2>1. /\ queue' \in Seq(Entries)
        /\ queue' = queue \/ Len(queue') = Len(queue) + 1
        /\ \A i \in 1..Len(queue) : queue'[i] = queue[i]
        /\ \A i \in 1..Len(queue') : i > Len(queue) =>
              Replays(queue'[i]) /\ queue'[i].cutoff <= Len(queue'[i].data)
    <3>1. CASE queue' = queue
      BY <3>1
    <3>2. CASE queue' = add
      BY <1>2, <3>2, AddEntry
    <3> QED  BY <1>4, <3>1, <3>2
  <2>2. Len(queue') \in Nat /\ DOMAIN queue' = 1..Len(queue') /\ Len(queue') >= Len(queue)
    BY <2>1
  <2>3. QueueOK'
    <3> SUFFICES ASSUME NEW i \in 1..Len(queue')
                 PROVE  Replays(queue'[i]) /\ queue'[i].cutoff <= Len(queue'[i].data)
      BY <2>2 DEF QueueOK, Replays
    <3>1. i \in 1..Len(queue) \/ i > Len(queue)
      BY <2>2
    <3> QED  BY <1>2, <2>1, <3>1 DEF QueueOK
  <2>4. hpc' = "mutate" /\ turn' = "host" /\ left' \in Nat /\ finds' \in BOOLEAN
    BY <1>1, <1>2, <1>4
  <2>5. TypeOK' /\ GuestOK' /\ TmpOK'
    BY <1>1, <2>1, <2>2, <2>4, SamePayload
  <2>6. PayloadOK' /\ CandOK' /\ ResultOK'
    BY <1>1, <1>2, <2>4 DEF PayloadOK, Plain, CandOK, ResultOK
  <2>7. HostOK'
    <3>1. snap => entry \in 1..Len(queue)
      BY <1>2 DEF HostOK
    <3> QED  BY <1>1, <1>2, <2>1, <2>4, <3>1 DEF HostOK
  <2>8. SnapOK'
    BY <1>1, <1>2, <2>4 DEF SnapOK
  <2> QED  BY <2>3, <2>5, <2>6, <2>7, <2>8 DEF Inv
<1> QED  BY <1>3, <1>4 DEF FilterDone

\* delete_snapshot
LEMMA LoopDoneStep ==
    ASSUME Inv, LoopDone
    PROVE  Inv'
<1> USE HostTypes
<1>1. /\ turn = "host" /\ hpc = "mutate" /\ left = 0
      /\ cand' = cand /\ payload' = payload /\ guest' = guest /\ tmp' = tmp
      /\ created' = created /\ result' = result /\ HostFacts
  BY DEF LoopDone, At, HostFacts
<1>2. PayloadOK /\ HostOK /\ SnapOK /\ QueueOK /\ discard = FALSE
  BY <1>1 DEF Inv, SnapOK
<1>3. CASE ~ snap
  <2>1. BackToIter(queue) /\ turn' = turn /\ discard' = FALSE /\ tmp = None
    BY <1>2, <1>3 DEF LoopDone, SnapOK
  <2> QED  BY <1>1, <2>1, BackToIterStep
<1>4. CASE snap
  <2>1. /\ discard' = TRUE /\ hpc' = "delete" /\ turn' = "guest"
        /\ UNCHANGED <<entry, skip, snap, left, finds, queue>>
    BY <1>4 DEF LoopDone, Send
  <2>2. Plain /\ tmp # None
    BY <1>1, <1>2, <1>4 DEF PayloadOK, SnapOK
  <2>3. TypeOK' /\ GuestOK' /\ TmpOK'
    BY <1>1, <2>1, SamePayload
  <2>4. PayloadOK' /\ HostOK' /\ QueueOK' /\ CandOK' /\ ResultOK'
    BY <1>1, <1>2, <1>4, <2>1, <2>2 DEF PayloadOK, Plain, HostOK, QueueOK, CandOK, ResultOK
  <2>5. SnapOK'
    BY <1>1, <1>2, <1>4, <2>1, <2>2 DEF SnapOK
  <2> QED  BY <2>3, <2>4, <2>5 DEF Inv
<1> QED  BY <1>3, <1>4

\* The snapshot is gone when delete_snapshot looks.
LEMMA DeleteDoneStep ==
    ASSUME Inv, DeleteDone
    PROVE  Inv' /\ hpc' = "iter"
<1>1. /\ turn = "host" /\ hpc = "delete" /\ turn' = turn /\ cand' = cand /\ payload' = payload
      /\ discard' = discard /\ HostFacts
  BY DEF DeleteDone, At, vm, HostFacts
<1>2. tmp = None /\ created = 0 /\ discard \in BOOLEAN /\ ~ discard
  BY <1>1 DEF Inv, SnapOK, TypeOK
<1>3. BackToIter(queue) /\ hpc' = "iter"
  BY <1>2 DEF DeleteDone, BackToIter
<1> QED  BY <1>1, <1>2, <1>3, BackToIterStep

\* Every step preserves the invariant.
LEMMA InvNext == Inv /\ [Next]_vars => Inv'
<1> SUFFICES ASSUME Inv, [Next]_vars
             PROVE  Inv'
  OBVIOUS
<1> USE ReadStep, FetchStep, CopyStep, CreateStep, GenerateStep, HavocNoSnapStep,
        HavocWithSnapStep, CreateDoneStep, MutateStep, TestDoneStep, FilterDoneStep,
        LoopDoneStep, DeleteDoneStep
<1>1. CASE OutOfData \/ Timeout \/ \E exit \in {"normal", "crash"} : Stop(exit)
  <2>1. PICK exit \in Exits : Running /\ Ended(guest, exit)
    BY <1>1 DEF OutOfData, Timeout, Stop, Exits
  <2> QED  BY <2>1, EndedStep
<1>2. CASE UNCHANGED vars
  <2> USE <1>2 DEF vars, host, vm, Inv
  <2>1. TypeOK' /\ HostOK' /\ SnapOK'
    BY DEF TypeOK, HostOK, SnapOK
  <2>2. PayloadOK' /\ QueueOK' /\ CandOK' /\ ResultOK'
    BY DEF PayloadOK, Plain, Prefix, QueueOK, CandOK, ResultOK
  <2>3. GuestOK' /\ TmpOK'
    BY DEF GuestOK, TmpOK, FollowsPayload
  <2> QED  BY <2>1, <2>2, <2>3
<1> QED  BY <1>1, <1>2 DEF Next

\* The invariant holds in every reachable state.
LEMMA InvCorrect == Spec => []Inv
<1> QED  BY InvInit, InvNext, PTL DEF Spec

----------------------------------------------------------------------------
(***************************************************************************)
(* The theorems.                                                           *)
(***************************************************************************)

\* The host, the payload and the machine keep their types: in particular the
\* cutoff of an entry never drops below zero, whatever the rotation of
\* havoc_snap_aggressive does, and the loop counter never runs below zero.
THEOREM SnapshotTypeCorrect == Spec => []TypeOK
<1>1. Inv => TypeOK
  BY DEF Inv
<1> QED  BY <1>1, InvCorrect, PTL

\* Whatever snapshots, mutations, timeouts and crashes came before, the target
\* has been given a prefix of the payload that the host will save.
THEOREM PrefixCorrect == Spec => []ConsumedIsPrefix
<1>1. Inv => ConsumedIsPrefix
  <2> SUFFICES ASSUME Inv, Running
               PROVE  /\ Len(guest.fetched) <= Len(payload.data)
                      /\ \A i \in DOMAIN guest.fetched : guest.fetched[i].pkt = payload.data[i]
    BY DEF ConsumedIsPrefix
  <2>1. guest \in Machines /\ FollowsPayload(guest)
    BY DEF Inv, TypeOK, GuestOK, Running
  <2> QED  BY <2>1, MachineFields DEF FollowsPayload
<1> QED  BY <1>1, InvCorrect, PTL

\* An execution that runs out of bytecode has been given the whole payload.
LEMMA RanOut ==
    ASSUME Inv, Running, Waits(guest), guest.ops_i >= Len(payload.ops)
    PROVE  Len(guest.fetched) = Len(payload.data) /\ hpc # "create"
<1> USE HostTypes
<1> DEFINE n == Len(guest.fetched)
<1>1. /\ guest \in Machines /\ InStep(guest, created) /\ FollowsPayload(guest) /\ PayloadOK
      /\ hpc \in {"create", "test", "filter", "delete"}
  BY DEF Inv, TypeOK, GuestOK, HostOK, Running
<1>2. n \in Nat /\ n >= Len(payload.ops) /\ n <= Len(payload.data)
  BY <1>1, MachineFields DEF InStep, FollowsPayload
<1> HIDE DEF n
<1>3. CASE hpc = "create"
  <2> DEFINE m == PacketOps(skip)
             x == "snap"
  <2>1. payload.ops = Append(m, x) /\ skip = Len(payload.data)
    BY <1>1, <1>3 DEF PayloadOK, Prefix
  <2>2. m \in Seq({"packet", "snap"}) /\ Len(m) = skip /\ x \in {"packet", "snap"}
    BY PacketOpsSeq
  <2> HIDE DEF m
  <2>3. Len(payload.ops) = skip + 1
    BY <2>1, <2>2, AppendProperties
  <2> QED  BY <1>2, <2>1, <2>3
<1>4. CASE hpc # "create"
  <2>1. payload.ops = PacketOps(Len(payload.data))
    BY <1>1, <1>4 DEF PayloadOK, Plain
  <2>2. Len(payload.ops) = Len(payload.data)
    BY <2>1, PacketOpsSeq
  <2> QED  BY <1>2, <1>4, <2>2 DEF n
<1> QED  BY <1>3, <1>4

\* The interpreter resumes at the op that took the snapshot op's place: no
\* packet of a payload is skipped, with or without a snapshot.
THEOREM NothingSkippedCorrect == Spec => []NothingSkipped
<1>1. Inv => NothingSkipped
  BY RanOut DEF NothingSkipped, Waits
<1> QED  BY <1>1, InvCorrect, PTL

\* A stored input holds no snapshot op, and its ops_used is the number of nodes
\* its execution took, or one more when the snapshot op was counted as well.
THEOREM CorpusReplaysCorrect == Spec => []CorpusReplays
<1>1. Inv => CorpusReplays
  BY DEF Inv, QueueOK, Replays, CorpusReplays
<1> QED  BY <1>1, InvCorrect, PTL

\* Between two iterations the machine is back in the root snapshot, and
\* tmp_snapshot_created says so.
THEOREM RootCorrect == Spec => []RootBetweenIterations
<1>1. Inv => RootBetweenIterations
  <2> SUFFICES ASSUME Inv, hpc = "iter"
               PROVE  tmp = None /\ created = 0 /\ guest = Root
    BY DEF RootBetweenIterations
  <2>1. turn = "host" /\ ~ snap
    BY DEF Inv, HostOK, TypeOK
  <2> QED  BY <2>1 DEF Inv, SnapOK, Reloaded
<1> QED  BY <1>1, InvCorrect, PTL

----------------------------------------------------------------------------
(***************************************************************************)
(* The machine under the thread is a MachineSnapshot.                      *)
(***************************************************************************)

\* The counter does not show in the mapped machine.
LEMMA UncountedMachine ==
    ASSUME NEW g \in Machines
    PROVE  Uncounted(g) # None /\ Uncounted(create_tmp_snapshot(g)) = Uncounted(g)
<1>1. g # None /\ create_tmp_snapshot(g) # None /\ create_tmp_snapshot(g) \in Machines
  BY NoneIsNothing, SnapshotMachine
<1>2. Uncounted(g) = [g EXCEPT !.counter = 0]
  BY <1>1 DEF Uncounted
<1>3. [g EXCEPT !.counter = 0] \in Machines
  BY DEF Machines
<1>4. Uncounted(create_tmp_snapshot(g)) = [create_tmp_snapshot(g) EXCEPT !.counter = 0]
  BY <1>1 DEF Uncounted
<1>5. [create_tmp_snapshot(g) EXCEPT !.counter = 0] = [g EXCEPT !.counter = 0]
  BY DEF create_tmp_snapshot, Machines
<1> QED  BY <1>2, <1>3, <1>4, <1>5, NoneIsNothing

\* A reload of the machine is a reload of what it maps to.
LEMMA UncountedReload ==
    ASSUME NEW t, t = None \/ t \in Machines, NEW d \in BOOLEAN
    PROVE  LET u == IF d THEN None ELSE Uncounted(t)
           IN  /\ Uncounted(IF d THEN None ELSE t) = u
               /\ Uncounted(Reloaded(t, d)) = IF u = None THEN Uncounted(Root) ELSE u
<1>1. CASE t = None \/ d = TRUE
  BY <1>1 DEF Uncounted, Reloaded
<1>2. CASE t # None /\ d = FALSE
  <2>1. Uncounted(t) # None
    BY <1>2, UncountedMachine
  <2> QED  BY <1>2, <2>1 DEF Reloaded
<1> QED  BY <1>1, <1>2

\* Every step of the thread and its machine is a step of MachineSnapshot.
LEMMA SnapshotsNext ==
    Inv /\ [Next]_vars => [Snapshots!Next]_(Snapshots!vars)
<1> SUFFICES ASSUME Inv, [Next]_vars
             PROVE  [Snapshots!Next]_(Snapshots!vars)
  OBVIOUS
<1>0. /\ guest \in Machines
      /\ tmp = None \/ tmp \in Machines
      /\ discard \in BOOLEAN /\ turn \in {"host", "guest"}
  BY DEF Inv, TypeOK
<1>1. ASSUME NEW h, Running, Step(h)
      PROVE  Snapshots!Run
  BY <1>1 DEF Running, Step, Snapshots!Run, Snapshots!Fuzzing
<1>2. ASSUME CreateTmpSnapshot
      PROVE  Snapshots!SaveTmp
  <2> DEFINE t == create_tmp_snapshot(guest)
  <2>1. /\ tmp = None /\ turn = "guest" /\ turn' = "host" /\ discard' = FALSE
        /\ guest' = Reloaded(t, discard) /\ tmp' = IF discard THEN None ELSE t
    BY <1>2 DEF CreateTmpSnapshot, EndRun, AtOp, Running
  <2>2. t \in Machines /\ Uncounted(t) = Uncounted(guest)
    <3>1. t \in Machines
      BY <1>0, SnapshotMachine
    <3>2. Uncounted(t) = Uncounted(guest)
      BY <1>0, UncountedMachine
    <3> QED  BY <3>1, <3>2
  <2> HIDE DEF t
  <2>3. LET u == IF discard THEN None ELSE Uncounted(t)
        IN  /\ Uncounted(IF discard THEN None ELSE t) = u
            /\ Uncounted(Reloaded(t, discard)) = IF u = None THEN Uncounted(Root) ELSE u
    BY <1>0, <2>2, UncountedReload
  <2>4. Uncounted(tmp) = None
    BY <2>1 DEF Uncounted
  <2>5. /\ Uncounted(guest)' = Uncounted(Reloaded(t, discard))
        /\ Uncounted(tmp)' = Uncounted(IF discard THEN None ELSE t)
        /\ Uncounted(Root)' = Uncounted(Root)
    BY <2>1 DEF Uncounted, Root
  <2> QED  BY <2>1, <2>2, <2>3, <2>4, <2>5
           DEF Snapshots!SaveTmp, Snapshots!Reload, Snapshots!Fuzzing, Snapshots!Snapshot
<1>3. ASSUME NEW exit, Running, Ended(guest, exit)
      PROVE  Snapshots!End
  <2>1. /\ turn = "guest" /\ turn' = "host" /\ discard' = FALSE
        /\ guest' = Reloaded(tmp, discard) /\ tmp' = IF discard THEN None ELSE tmp
    BY <1>3 DEF Ended, EndRun, Running
  <2>2. LET u == IF discard THEN None ELSE Uncounted(tmp)
        IN  /\ Uncounted(IF discard THEN None ELSE tmp) = u
            /\ Uncounted(Reloaded(tmp, discard)) = IF u = None THEN Uncounted(Root) ELSE u
    BY <1>0, UncountedReload
  <2>3. /\ Uncounted(guest)' = Uncounted(Reloaded(tmp, discard))
        /\ Uncounted(tmp)' = Uncounted(IF discard THEN None ELSE tmp)
        /\ Uncounted(Root)' = Uncounted(Root)
    BY <2>1 DEF Uncounted, Root
  <2> QED  BY <2>1, <2>2, <2>3
           DEF Snapshots!End, Snapshots!Reload, Snapshots!Fuzzing, Snapshots!Snapshot
<1>4. ASSUME turn = "host", turn' \in {"host", "guest"}, guest' = guest, tmp' = tmp,
             discard' \in BOOLEAN
      PROVE  Snapshots!Request
  BY <1>4 DEF Snapshots!Request, Snapshots!Fuzzing
<1>5. CASE \/ Generate \/ HavocNoSnap \/ HavocWithSnap \/ CreateDone \/ Mutate \/ TestDone
           \/ FilterDone \/ LoopDone \/ DeleteDone
  <2>1. turn = "host" /\ guest' = guest /\ tmp' = tmp
    BY <1>5 DEF Generate, HavocNoSnap, HavocWithSnap, CreateDone, Mutate, TestDone, FilterDone,
                LoopDone, DeleteDone, At, vm
  <2>2. Inv'
    BY InvNext
  <2>3. turn' \in {"host", "guest"} /\ discard' \in BOOLEAN
    BY <2>2 DEF Inv, TypeOK
  <2> QED  BY <1>4, <2>1, <2>3 DEF Snapshots!Next
<1>6. CASE (\E ch \in Chan : Read(ch)) \/ Fetch \/ Copy
  <2>1. \E h : Running /\ Step(h)
    BY <1>6 DEF Read, Fetch, Copy, AtOp
  <2> QED  BY <1>1, <2>1 DEF Snapshots!Next
<1>7. CASE OutOfData \/ Timeout \/ \E exit \in {"normal", "crash"} : Stop(exit)
  <2>1. \E exit : Running /\ Ended(guest, exit)
    BY <1>7 DEF OutOfData, Timeout, Stop
  <2> QED  BY <1>3, <2>1 DEF Snapshots!Next
<1>8. CASE UNCHANGED vars
  <2>1. UNCHANGED <<guest, tmp, discard, turn>>
    BY <1>8 DEF vars, vm
  <2> QED  BY <2>1 DEF Snapshots!vars, Uncounted
<1> QED  BY <1>2, <1>5, <1>6, <1>7, <1>8 DEF Next, Snapshots!Next

\* The machine that the thread fuzzes behaves as MachineSnapshot allows, the
\* specification that the machine of FastReload is proved to implement.
THEOREM UsesSnapshotsCorrect == Spec => UsesSnapshots
<1>1. Init => Snapshots!Init
  <2> SUFFICES ASSUME Init PROVE Snapshots!Init
    OBVIOUS
  <2>1. guest = Root /\ tmp = None /\ turn = "host" /\ discard = FALSE
    BY DEF Init
  <2> QED  BY <2>1 DEF Snapshots!Init, Uncounted
<1> QED  BY <1>1, InvCorrect, SnapshotsNext, PTL DEF Spec, UsesSnapshots, Snapshots!Spec

----------------------------------------------------------------------------
(***************************************************************************)
(* A deterministic target: the asserts never fail.                         *)
(***************************************************************************)

\* The root snapshot has not seen a fatal packet.
LEMMA RootLives == Lives(Root)
<1>1. Len(Root.fetched) = 0
  BY RootMachine
<1> QED  BY <1>1 DEF Lives, Alive

\* The part of DetInv that a step of the machine changes.
LEMMA DetGuest ==
    ASSUME Inv, DetInv, Running, NEW STATE h, Step(h), Lives(h)
    PROVE  DetInv'
BY DEF DetInv, Running, Step, host, Finished, Lives, Alive, Waits

\* A target that has ended by itself does not read on.
LEMMA DetRead ==
    ASSUME Inv, DetInv, NEW ch \in Chan, Read(ch)
    PROVE  DetInv'
<1> DEFINE h == read(guest, ch)
           n == Len(guest.fetched)
<1>1. Running /\ guest \in Machines /\ Step(h) /\ ~ Stops(guest) /\ guest.call = None
  BY DEF Inv, TypeOK, Read
<1>2. /\ n \in Nat /\ guest.fetched \in Seq([ch : Chan, pkt : Packets])
      /\ h.fetched = guest.fetched
  BY <1>1, MachineFields, ReadMachine
<1>3. Alive(guest, n)
  <2>1. Alive(guest, n - 1)
    BY DEF DetInv, Lives
  <2>2. n > 0 => guest.fetched[n].pkt \notin Fatal
    BY <1>1, <1>2 DEF Stops, Last
  <2> QED  BY <1>2, <2>1, <2>2 DEF Alive
<1> HIDE DEF h
<1>4. Lives(h)
  BY <1>2, <1>3 DEF Lives, Alive
<1> QED  BY <1>1, <1>4, DetGuest

\* A packet is delivered to a target that still reads.
LEMMA DetFetch ==
    ASSUME Inv, DetInv, Fetch
    PROVE  DetInv'
<1> DEFINE h == interpreter_run(guest)
           n == Len(guest.fetched)
           r == [ch |-> guest.call.ch, pkt |-> payload.data[guest.data_i + 1]]
<1>1. /\ Running /\ guest \in Machines /\ payload \in Graphs /\ Step(h) /\ AtOp("packet")
      /\ InStep(guest, created)
  BY DEF Inv, TypeOK, Fetch, AtOp, GuestOK
<1>2. /\ n \in Nat /\ n < Len(payload.data) /\ guest.data_i = n /\ Len(payload.data) \in Nat
      /\ guest.fetched \in Seq([ch : Chan, pkt : Packets])
  <2>1. n \in Nat /\ guest.fetched \in Seq([ch : Chan, pkt : Packets])
    BY <1>1, MachineFields
  <2>2. n < Len(payload.data) /\ Len(payload.data) \in Nat
    BY <1>1, NextOp, HostTypes
  <2> QED  BY <1>1, <2>1, <2>2 DEF InStep
<1>3. payload.data \in Seq(Packets) /\ Waits(guest) /\ guest.data_i + 1 \in 1..Len(payload.data)
  BY <1>1, <1>2 DEF Graphs, AtOp, Waits
<1>4. /\ guest.call.ch \in Chan /\ payload.data[guest.data_i + 1] \in Packets
      /\ h.fetched = Append(guest.fetched, r) /\ h.call.ready
  BY <1>1, <1>3, FetchMachine
<1>5. r \in [ch : Chan, pkt : Packets]
  BY <1>4
<1> HIDE DEF h, r
<1>6. Len(h.fetched) = n + 1 /\ \A i \in 1..n : h.fetched[i] = guest.fetched[i]
  BY <1>2, <1>4, <1>5
<1>7. Alive(guest, n)
  BY <1>3 DEF DetInv, Lives
<1>8. Lives(h)
  <2>1. Len(h.fetched) - 1 = n
    BY <1>2, <1>6
  <2> QED  BY <1>4, <1>6, <1>7, <2>1 DEF Lives, Alive, Waits
<1> QED  BY <1>1, <1>8, DetGuest

\* A read returns.
LEMMA DetCopy ==
    ASSUME Inv, DetInv, Copy
    PROVE  DetInv'
<1> DEFINE h == call_vm(guest)
<1>1. Running /\ guest \in Machines /\ guest.call # None /\ Step(h)
  BY DEF Inv, TypeOK, Copy
<1>2. h.fetched = guest.fetched /\ h.call = None
  BY <1>1, CopyMachine
<1> HIDE DEF h
<1>3. Lives(h)
  BY <1>2 DEF DetInv, Lives, Alive, Waits
<1> QED  BY <1>1, <1>3, DetGuest

\* The end of an execution.
LEMMA DetEnd ==
    ASSUME Inv, DetInv, Running, NEW STATE t, NEW exit \in Exits, EndRun(guest, t, exit),
           t # None => Lives(t),
           hpc = "test" /\ exit # "timeout" => Finished(Len(guest.fetched), payload.data)
    PROVE  DetInv'
<1>1. /\ hpc' = hpc /\ entry' = entry /\ skip' = skip /\ snap' = snap /\ left' = left
      /\ cand' = cand /\ queue' = queue /\ payload' = payload
      /\ guest' = Reloaded(t, discard) /\ tmp' = IF discard THEN None ELSE t
      /\ result'.exit = exit /\ result'.real = Len(guest.fetched)
  BY DEF EndRun, host
<1>2. Lives(guest)' /\ (tmp' # None => Lives(tmp)')
  BY <1>1, RootLives DEF Reloaded, Lives, Alive, Waits
<1> QED  BY <1>1, <1>2 DEF DetInv, Finished

\* The snapshot is taken in a target that still reads.
LEMMA DetCreate ==
    ASSUME Inv, DetInv, CreateTmpSnapshot
    PROVE  DetInv'
<1> DEFINE t == create_tmp_snapshot(guest)
<1>1. Running /\ guest \in Machines /\ AtOp("snap") /\ EndRun(guest, t, "normal")
  BY DEF Inv, TypeOK, CreateTmpSnapshot, AtOp
<1>2. hpc = "create" /\ "normal" \in Exits
  BY <1>1, NextOp DEF Exits
<1>3. t.fetched = guest.fetched /\ t.call = guest.call
  BY <1>1, SnapshotMachine
<1> HIDE DEF t
<1>4. Lives(t)
  BY <1>3 DEF DetInv, Lives, Alive, Waits
<1> QED  BY <1>1, <1>2, <1>4, DetEnd

\* An execution that ended by itself took all packets or ended at a fatal one.
LEMMA DetEnded ==
    ASSUME Nondet = FALSE, Inv, DetInv,
           OutOfData \/ Timeout \/ \E exit \in {"normal", "crash"} : Stop(exit)
    PROVE  DetInv'
<1>1. /\ Running /\ guest \in Machines /\ FollowsPayload(guest)
      /\ tmp # None => Lives(tmp)
  BY DEF OutOfData, Timeout, Stop, Inv, TypeOK, GuestOK, Running, DetInv
<1>2. CASE OutOfData
  <2>1. Waits(guest) /\ guest.ops_i >= Len(payload.ops) /\ EndRun(guest, tmp, "normal")
    BY <1>2 DEF OutOfData, Waits, Ended
  <2>2. Finished(Len(guest.fetched), payload.data)
    BY <1>1, <2>1, RanOut DEF Finished
  <2> QED  BY <1>1, <2>1, <2>2, DetEnd DEF Exits
<1>3. CASE Timeout
  BY <1>1, <1>3, DetEnd DEF Timeout, Ended, Exits
<1>4. ASSUME NEW exit \in {"normal", "crash"}, Stop(exit)
      PROVE  DetInv'
  <2> DEFINE n == Len(guest.fetched)
  <2>1. Stops(guest) /\ EndRun(guest, tmp, exit) /\ exit \in Exits
    BY <1>4 DEF Stop, Ended, Exits
  <2>2. n \in Nat /\ n > 0 /\ guest.fetched[n].pkt \in Fatal
    BY <1>1, <2>1, MachineFields DEF Stops, Last
  <2>3. guest.fetched[n].pkt = payload.data[n]
    BY <1>1, <2>2 DEF FollowsPayload
  <2>4. Finished(n, payload.data)
    BY <2>2, <2>3 DEF Finished
  <2> QED  BY <1>1, <2>1, <2>4, DetEnd
<1> QED  BY <1>2, <1>3, <1>4

\* The steps of the host around the mutation loop.
LEMMA DetIteration ==
    ASSUME Inv, DetInv, Generate \/ HavocNoSnap \/ HavocWithSnap
    PROVE  DetInv'
<1> USE HostTypes
<1>1. /\ hpc = "iter" /\ turn = "host" /\ queue' = queue /\ guest' = guest /\ tmp' = tmp
  BY DEF Generate, HavocNoSnap, HavocWithSnap, At, vm
<1>2. Lives(guest)' /\ (tmp # None => Lives(tmp))'
  BY <1>1 DEF DetInv, Lives, Alive, Waits
<1>3. \A i \in DOMAIN queue' : Finished(queue'[i].real, queue'[i].data)
  BY <1>1 DEF DetInv
<1>4. CASE Generate
  <2>1. hpc' = "test" /\ turn' = "guest" /\ entry' = 0 /\ left' = 1 /\ snap' = FALSE
    BY <1>4 DEF Generate, Send
  <2> QED  BY <1>2, <1>3, <2>1 DEF DetInv, Finished
<1>5. CASE HavocNoSnap
  <2>1. hpc' = "mutate" /\ entry' \in DOMAIN queue /\ snap' = FALSE
    BY <1>5 DEF HavocNoSnap
  <2> QED  BY <1>2, <1>3, <2>1 DEF DetInv, Finished
<1>6. CASE HavocWithSnap
  <2>1. hpc' = "create" /\ turn' = "guest"
    BY <1>6, HavocWithSnapStep
  <2>2. PICK i \in DOMAIN queue : \E c \in Cutoffs(queue[i]) :
            /\ entry' = i
            /\ skip' = c
            /\ payload' = prepare_snapshot(payload, queue[i].data, c)
    BY <1>6 DEF HavocWithSnap
  <2>3. PICK c \in Cutoffs(queue[i]) :
            /\ entry' = i
            /\ skip' = c
            /\ payload' = prepare_snapshot(payload, queue[i].data, c)
    BY <2>2
  <2>4. c \in Nat /\ c <= Len(queue[i].data) /\ queue[i].data \in Seq(Packets)
    BY CutoffInside
  <2>5. Len(payload'.data) = c /\ \A j \in 1..c : payload'.data[j] = queue[i].data[j]
    BY <2>3, <2>4, SnapshotPayload
  <2> QED  BY <1>1, <1>2, <1>3, <2>1, <2>3, <2>4, <2>5 DEF DetInv, Finished
<1> QED  BY <1>4, <1>5, <1>6

\* The end of an iteration.
LEMMA DetBackToIter ==
    ASSUME Inv, DetInv, BackToIter(queue), guest' = guest, tmp' = tmp
    PROVE  DetInv'
<1> USE HostTypes
<1>1. /\ hpc' = "iter" /\ entry' = 0 /\ snap' = FALSE /\ left' = 0
      /\ queue' = IF snap THEN [queue EXCEPT ![entry] = AfterSnap(queue[entry], finds)] ELSE queue
  BY DEF BackToIter
<1>2. Lives(guest)' /\ (tmp # None => Lives(tmp))'
  BY DEF DetInv, Lives, Alive, Waits
<1>3. \A i \in DOMAIN queue' : Finished(queue'[i].real, queue'[i].data)
  <2>1. CASE ~ snap
    BY <1>1, <2>1 DEF DetInv
  <2>2. CASE snap
    <3> DEFINE a == AfterSnap(queue[entry], finds)
    <3>1. /\ entry \in 1..Len(queue) /\ (Placement = "Aggressive" => queue[entry].cutoff >= MinCutoff)
          /\ queue[entry] \in Entries /\ queue[entry].cutoff <= Len(queue[entry].data)
      BY <2>2 DEF Inv, HostOK, QueueOK
    <3>2. a.data = queue[entry].data /\ a.real = queue[entry].real
      BY <3>1, AfterSnapEntry
    <3>3. queue' = [queue EXCEPT ![entry] = a]
      BY <1>1, <2>2
    <3> HIDE DEF a
    <3> QED  BY <3>1, <3>2, <3>3 DEF DetInv
  <2> QED  BY <2>1, <2>2
<1> QED  BY <1>1, <1>2, <1>3 DEF DetInv, Finished

\* mutate: with an input that reached the snapshot, ops_used is not below it.
LEMMA DetMutate ==
    ASSUME Inv, DetInv, Mutate
    PROVE  DetInv'
<1> USE HostTypes
<1>1. /\ turn = "host" /\ hpc = "mutate" /\ left > 0
      /\ entry' = entry /\ skip' = skip /\ snap' = snap /\ left' = left
      /\ queue' = queue /\ guest' = guest /\ tmp' = tmp
  BY DEF Mutate, At, vm
<1>2. entry \in 1..Len(queue)
  BY <1>1 DEF DetInv
<1> DEFINE e == queue[entry]
<1>3. /\ e \in Entries /\ Replays(e) /\ Finished(e.real, e.data)
      /\ e.used \in Nat /\ e.real \in Nat /\ Len(e.data) \in Nat
  <2>1. e \in Entries
    BY <1>2
  <2>2. Replays(e) /\ Finished(e.real, e.data)
    BY <1>2 DEF Inv, QueueOK, DetInv
  <2> HIDE DEF e
  <2> QED  BY <2>1, <2>2 DEF Entries
<1>4. ~ (0 < e.used /\ e.used < skip)
  <2> SUFFICES ASSUME 0 < e.used, e.used < skip
               PROVE  FALSE
    OBVIOUS
  <2>1. snap
    BY <1>3 DEF Inv, HostOK
  <2>2. tmp # None /\ Lives(tmp) /\ Waits(tmp) /\ Len(tmp.fetched) = skip /\ FollowsPayload(tmp)
    BY <1>1, <2>1 DEF Inv, SnapOK, TmpOK, DetInv
  <2>3. skip <= Len(e.data) /\ \A i \in 1..skip : payload.data[i] = e.data[i]
    BY <2>1 DEF DetInv
  <2> HIDE DEF e
  <2>4. e.real <= e.used
    BY <1>3 DEF Replays
  <2>5. e.real > 0 /\ e.data[e.real] \in Fatal
    BY <1>3, <2>3, <2>4 DEF Finished
  <2>6. e.real \in 1..skip
    BY <1>3, <2>4, <2>5
  <2>7. tmp.fetched[e.real].pkt = e.data[e.real]
    BY <2>2, <2>3, <2>6 DEF FollowsPayload
  <2>8. tmp.fetched[e.real].pkt \notin Fatal
    BY <2>2, <2>6 DEF Lives, Alive
  <2> QED  BY <2>5, <2>7, <2>8
<1>5. hpc' = "test" /\ turn' = "guest"
      /\ \E t \in Tails(skip) : payload' = append(start(payload, skip), t)
  BY <1>4 DEF Mutate, Send
<1>6. PICK t \in Tails(skip) : payload' = append(start(payload, skip), t)
  BY <1>5
<1>7. skip <= Len(payload'.data) /\ \A i \in 1..skip : payload'.data[i] = payload.data[i]
  <2>1. /\ skip <= Len(payload.data) /\ skip <= Len(payload.ops)
        /\ \A i \in 1..skip : payload.ops[i] = "packet"
    BY <1>1, SkippedOps
  <2> QED  BY <1>6, <2>1, MutatedPayload
<1>8. Lives(guest)' /\ (tmp # None => Lives(tmp))'
  BY <1>1 DEF DetInv, Lives, Alive, Waits
<1>9. snap' => \A i \in 1..skip : payload'.data[i] = queue[entry].data[i]
  BY <1>1, <1>7 DEF DetInv
<1>10. snap' => skip' <= Len(queue'[entry'].data)
  BY <1>1 DEF DetInv
<1>11. \A i \in DOMAIN queue' : Finished(queue'[i].real, queue'[i].data)
  BY <1>1 DEF DetInv
<1> HIDE DEF e
<1> QED  BY <1>1, <1>2, <1>5, <1>7, <1>8, <1>9, <1>10, <1>11 DEF DetInv, Finished

\* The steps after an execution.
LEMMA DetTest ==
    ASSUME Inv, DetInv, TestDone
    PROVE  DetInv'
<1> USE HostTypes
<1>1. /\ turn = "host" /\ hpc = "test"
      /\ entry' = entry /\ skip' = skip /\ snap' = snap
      /\ queue' = queue /\ payload' = payload /\ guest' = guest /\ tmp' = tmp
  BY DEF TestDone, At, vm
<1>2. \/ hpc' = "mutate" /\ left' = left - 1
      \/ /\ hpc' = "filter" /\ left' = left
         /\ cand'.data = payload.data /\ cand'.real = result.real /\ cand'.exit = result.exit
  BY DEF TestDone, Send
<1>3. Lives(guest)' /\ (tmp # None => Lives(tmp))'
  BY <1>1 DEF DetInv, Lives, Alive, Waits
<1>4. left > 0
  BY <1>1 DEF Inv, HostOK
<1> QED  BY <1>1, <1>2, <1>3, <1>4 DEF DetInv, Finished

\* Only executions that ended by themselves are stored.
LEMMA DetFilter ==
    ASSUME Inv, DetInv, FilterDone
    PROVE  DetInv'
<1> USE HostTypes
<1>1. /\ turn = "host" /\ hpc = "filter"
      /\ entry' = entry /\ skip' = skip /\ snap' = snap
      /\ payload' = payload /\ guest' = guest /\ tmp' = tmp
  BY DEF FilterDone, At, vm
<1>2. /\ cand \in Candidates /\ Replays(cand) /\ left > 0
  BY <1>1 DEF Inv, CandOK, HostOK
<1>3. Lives(guest)' /\ (tmp # None => Lives(tmp))'
  BY <1>1 DEF DetInv, Lives, Alive, Waits
<1>4. CASE cand' = [cand EXCEPT !.again = @ - 1] /\ Send("filter") /\ UNCHANGED <<left, finds, queue>>
  <2>1. hpc' = "filter" /\ left' = left /\ queue' = queue
    BY <1>4 DEF Send
  <2>2. cand'.data = cand.data /\ cand'.real = cand.real /\ cand'.exit = cand.exit
    BY <1>2, <1>4 DEF Candidates
  <2> QED  BY <1>1, <1>3, <2>1, <2>2 DEF DetInv, Finished
<1>5. CASE /\ queue' = add \/ queue' = queue
           /\ hpc' = "mutate" /\ left' = left - 1
  <2>1. /\ Len(queue') \in Nat /\ DOMAIN queue' = 1..Len(queue') /\ Len(queue') >= Len(queue)
        /\ \A i \in 1..Len(queue) : queue'[i] = queue[i]
        /\ \A i \in 1..Len(queue') : i > Len(queue) =>
              /\ queue'[i].real = cand.real /\ queue'[i].data = cand.data
              /\ cand.exit # "timeout"
    <3>1. CASE queue' = queue
      BY <3>1
    <3>2. CASE queue' = add
      <4>1. /\ queue' \in Seq(Entries)
            /\ queue' = queue \/ Len(queue') = Len(queue) + 1
            /\ \A i \in 1..Len(queue) : queue'[i] = queue[i]
            /\ \A i \in 1..Len(queue') : i > Len(queue) =>
                  /\ queue'[i].real = cand.real /\ queue'[i].data = cand.data
                  /\ cand.exit # "timeout"
        BY <1>2, <3>2, AddEntry
      <4> QED  BY <4>1
    <3> QED  BY <1>5, <3>1, <3>2
  <2>2. \A i \in 1..Len(queue') : Finished(queue'[i].real, queue'[i].data)
    <3> SUFFICES ASSUME NEW i \in 1..Len(queue')
                 PROVE  Finished(queue'[i].real, queue'[i].data)
      OBVIOUS
    <3>1. CASE i \in 1..Len(queue)
      BY <2>1, <3>1 DEF DetInv
    <3>2. CASE i > Len(queue)
      BY <1>1, <2>1, <3>2 DEF DetInv
    <3> QED  BY <2>1, <3>1, <3>2
  <2>3. snap => queue'[entry] = queue[entry]
    BY <2>1 DEF Inv, HostOK
  <2>4. entry = 0 => left' = 0
    BY <1>2, <1>5 DEF DetInv
  <2>5. hpc' = "mutate" /\ (snap => queue'[entry'] = queue[entry])
    BY <1>1, <1>5, <2>3
  <2>6. snap' => /\ skip' <= Len(queue'[entry'].data)
                 /\ skip' <= Len(payload'.data)
                 /\ \A i \in 1..skip' : payload'.data[i] = queue'[entry'].data[i]
    BY <1>1, <2>5 DEF DetInv
  <2> QED  BY <1>1, <1>3, <2>1, <2>2, <2>4, <2>5, <2>6 DEF DetInv
<1> QED  BY <1>4, <1>5 DEF FilterDone

\* The ends of the loops.
LEMMA DetDone ==
    ASSUME Inv, DetInv, CreateDone \/ LoopDone \/ DeleteDone
    PROVE  DetInv'
<1> USE HostTypes
<1>1. turn = "host" /\ guest' = guest /\ tmp' = tmp /\ payload' = payload
  BY DEF CreateDone, LoopDone, DeleteDone, At, vm
<1>2. CASE BackToIter(queue)
  BY <1>1, <1>2, DetBackToIter
<1>3. CASE /\ hpc' \in {"mutate", "delete"}
           /\ UNCHANGED <<entry, skip, snap, left, finds, queue>>
           /\ snap
  <2>1. entry # 0
    BY <1>3 DEF Inv, HostOK
  <2>2. Lives(guest)' /\ (tmp # None => Lives(tmp))'
    BY <1>1 DEF DetInv, Lives, Alive, Waits
  <2> QED  BY <1>1, <1>3, <2>1, <2>2 DEF DetInv, Finished
<1>4. CASE CreateDone
  <2>1. snap
    BY <1>4 DEF CreateDone, At, Inv, HostOK
  <2> QED  BY <1>2, <1>3, <1>4, <2>1 DEF CreateDone
<1>5. CASE LoopDone
  BY <1>2, <1>3, <1>5 DEF LoopDone, Send
<1>6. CASE DeleteDone
  <2>1. created = 0
    BY <1>6 DEF DeleteDone, At, Inv, SnapOK
  <2> QED  BY <1>2, <1>6, <2>1 DEF DeleteDone
<1> QED  BY <1>4, <1>5, <1>6

\* Every step preserves DetInv.
LEMMA DetNext ==
    ASSUME Nondet = FALSE
    PROVE  Inv /\ DetInv /\ [Next]_vars => DetInv'
<1> SUFFICES ASSUME Inv, DetInv, [Next]_vars
             PROVE  DetInv'
  OBVIOUS
<1>1. CASE UNCHANGED vars
  BY <1>1 DEF vars, host, vm, DetInv, Finished, Lives, Alive, Waits
<1> QED  BY <1>1, DetRead, DetFetch, DetCopy, DetCreate, DetEnded, DetIteration, DetMutate, DetTest,
            DetFilter, DetDone DEF Next

\* With a target whose executions depend on their input alone no assert of the
\* thread fails: neither the ones on tmp_snapshot_created around the snapshot,
\* nor those of splice and repeat on ops_used.  (The run snap_panic shows what
\* a nondeterministic target does.)
THEOREM NoPanicCorrect ==
    ASSUME Nondet = FALSE
    PROVE  Spec => []NoPanic
<1>1. Init => DetInv
  <2> SUFFICES ASSUME Init PROVE DetInv
    OBVIOUS
  <2>1. Lives(guest) /\ tmp = None /\ queue = <<>> /\ hpc = "iter" /\ ~ snap /\ left = 0
    BY RootLives DEF Init
  <2> QED  BY <2>1 DEF DetInv
<1>2. DetInv => NoPanic
  BY DEF DetInv, NoPanic
<1> QED  BY <1>1, <1>2, DetNext, InvCorrect, PTL DEF Spec

----------------------------------------------------------------------------
(***************************************************************************)
(* The byte streams.                                                       *)
(***************************************************************************)

\* A set of natural numbers has a least element: induction, by least
\* counterexample.
LEMMA Least ==
    ASSUME NEW T \in SUBSET Nat, T # {}
    PROVE  \E x \in T : \A y \in T : x <= y
<1> DEFINE R == OpToRel(<, Nat)
<1>1. IsWellFoundedOn(R, Nat)
  BY NatLessThanWellFounded
<1>2. \A x, y \in Nat : x < y => <<x, y>> \in R
  BY DEF OpToRel
<1> HIDE DEF R
<1>3. \E x \in T : \A y \in T : ~ (<<y, x>> \in R)
  BY <1>1, WFMin
<1>4. PICK x \in T : \A y \in T : ~ (<<y, x>> \in R)
  BY <1>3
<1>5. \A y \in T : ~ (y < x)
  BY <1>2, <1>4
<1>6. \A y \in T : x <= y
  <2>1. \A y \in T : y \in Nat /\ x \in Nat
    OBVIOUS
  <2>2. \A a, b \in Nat : ~ (a < b) => b <= a
    OBVIOUS
  <2> QED BY <1>5, <2>1, <2>2
<1> QED BY <1>6

\* f is the function that FlattenSeq of the first n elements of s recurs on.
FlattensTo(f, s, n) == f = [i \in 1..n |-> IF i = 1 THEN s[i] ELSE f[i - 1] \o s[i]]

\* FlattenSeq returns the last value of that function.
LEMMA FlattenDef ==
    ASSUME NEW s, Len(s) # 0
    PROVE  FlattenSeq(s) = (CHOOSE f : FlattensTo(f, s, Len(s)))[Len(s)]
BY Zenon DEF FlattenSeq, FlattensTo

\* There is such a function.
LEMMA FlattenExists ==
    ASSUME NEW s, NEW n \in Nat
    PROVE  \E f : FlattensTo(f, s, n)
<1> DEFINE T == {k \in Nat : ~ \E f : FlattensTo(f, s, k)}
<1> SUFFICES ASSUME T # {}
             PROVE  FALSE
  OBVIOUS
<1>1. T \in SUBSET Nat
  OBVIOUS
<1>2. PICK k \in T : \A y \in T : k <= y
  BY <1>1, Least
<1>3. k \in Nat /\ ~ \E f : FlattensTo(f, s, k)
  BY <1>2
<1>4. CASE k = 0
  <2> DEFINE f == [i \in 1..k |-> s[i]]
  <2>1. FlattensTo(f, s, k)
    BY <1>4 DEF FlattensTo
  <2> QED  BY <1>3, <2>1
<1>5. CASE k > 0
  <2>1. k - 1 \in Nat /\ k - 1 \notin T
    BY <1>2, <1>3, <1>5
  <2>2. PICK f : FlattensTo(f, s, k - 1)
    BY <2>1
  <2> DEFINE g == [i \in 1..k |-> IF i = 1 THEN s[i] ELSE f[i - 1] \o s[i]]
  <2>3. \A i \in 1..(k - 1) : g[i] = f[i]
    <3>1. \A i \in 1..(k - 1) : f[i] = IF i = 1 THEN s[i] ELSE f[i - 1] \o s[i]
      BY <2>2 DEF FlattensTo
    <3>2. \A i \in 1..(k - 1) : i \in 1..k
      BY <1>3
    <3> QED  BY <3>1, <3>2
  <2>4. \A i \in 1..k : i # 1 => i - 1 \in 1..(k - 1) /\ g[i - 1] = f[i - 1]
    <3>1. \A i \in 1..k : i # 1 => i - 1 \in 1..(k - 1)
      BY <1>3
    <3> HIDE DEF g
    <3> QED BY <3>1, <2>3
  <2>5. FlattensTo(g, s, k)
    BY <2>4 DEF FlattensTo
  <2> QED  BY <1>3, <2>5
<1> QED  BY <1>3, <1>4, <1>5

\* It depends on the elements of the sequence only.
LEMMA FlattenAgree ==
    ASSUME NEW s, NEW t, NEW f, NEW g, NEW n \in Nat, NEW m \in Nat, n <= m,
           \A i \in 1..n : s[i] = t[i], FlattensTo(f, s, n), FlattensTo(g, t, m)
    PROVE  \A i \in 1..n : f[i] = g[i]
<1> DEFINE T == {k \in 1..n : f[k] # g[k]}
<1> SUFFICES ASSUME T # {}
             PROVE  FALSE
  OBVIOUS
<1>1. T \in SUBSET Nat
  OBVIOUS
<1>2. PICK k \in T : \A y \in T : k <= y
  BY <1>1, Least
<1>3. k \in 1..n /\ f[k] # g[k] /\ k \in 1..m
  BY <1>2
<1>4. /\ f[k] = IF k = 1 THEN s[k] ELSE f[k - 1] \o s[k]
      /\ g[k] = IF k = 1 THEN t[k] ELSE g[k - 1] \o t[k]
  BY <1>3 DEF FlattensTo
<1>5. k # 1 => k - 1 \in 1..n /\ k - 1 \notin T
  BY <1>2, <1>3
<1>6. k # 1 => f[k - 1] = g[k - 1]
  BY <1>5
<1> QED  BY <1>3, <1>4, <1>6

\* Flattening takes one more element at the end.
LEMMA FlattenAppend ==
    ASSUME NEW S, NEW s \in Seq(Seq(S)), NEW x \in Seq(S)
    PROVE  FlattenSeq(Append(s, x)) = FlattenSeq(s) \o x
<1> DEFINE n == Len(s)
           t == Append(s, x)
           f == CHOOSE h : FlattensTo(h, s, n)
           g == CHOOSE h : FlattensTo(h, t, n + 1)
<1>1. /\ n \in Nat /\ Len(t) = n + 1 /\ t[n + 1] = x
      /\ \A i \in 1..n : s[i] = t[i]
  BY AppendProperties
<1>2. FlattenSeq(t) = g[n + 1]
  <2>1. Len(t) # 0
    BY <1>1
  <2>2. FlattenSeq(t) = (CHOOSE h : FlattensTo(h, t, Len(t)))[Len(t)]
    BY <2>1, FlattenDef
  <2> HIDE DEF t, n
  <2> QED  BY <1>1, <2>2
<1>3. FlattensTo(g, t, n + 1) /\ FlattensTo(f, s, n)
  <2>1. n + 1 \in Nat
    BY <1>1
  <2> HIDE DEF t, n
  <2>2. (\E h : FlattensTo(h, t, n + 1)) /\ (\E h : FlattensTo(h, s, n))
    BY <1>1, <2>1, FlattenExists
  <2> QED  BY <2>2
<1> HIDE DEF f, g, t
<1>4. g[n + 1] = IF n + 1 = 1 THEN t[n + 1] ELSE g[n] \o t[n + 1]
  <2>1. n + 1 \in 1..(n + 1) /\ (n + 1) - 1 = n
    BY <1>1
  <2> HIDE DEF n
  <2> QED  BY <1>3, <2>1 DEF FlattensTo
<1>5. CASE n = 0
  <2>1. s = <<>> /\ FlattenSeq(s) = s
    BY <1>5 DEF FlattenSeq
  <2>2. <<>> \o x = x
    BY ConcatEmptySeq
  <2> QED  BY <1>1, <1>2, <1>4, <1>5, <2>1, <2>2 DEF t
<1>6. CASE n # 0
  <2>1. FlattenSeq(s) = f[n]
    BY <1>6, FlattenDef DEF f
  <2>2. f[n] = g[n]
    <3>1. n + 1 \in Nat /\ n <= n + 1 /\ n \in 1..n
      BY <1>1, <1>6
    <3> HIDE DEF n
    <3> QED  BY <1>1, <1>3, <3>1, FlattenAgree
  <2> QED  BY <1>1, <1>2, <1>4, <1>6, <2>1, <2>2 DEF t
<1> QED  BY <1>5, <1>6

\* The machine in the root snapshot, whose streams are empty.
LEMMA RootStreams == Streams(Root)
<1> SUFFICES ASSUME NEW ch \in Chan
             PROVE  TakenBy(Root, ch) = Root.got[ch] \o Root.buf[ch] /\ Root.buf[ch] = <<>>
  <2>1. Root.call.ch \in Chan
    BY SnapshotFuzzAssumption DEF Root, Call
  <2> QED  BY <2>1 DEF Streams
<1> DEFINE s == [i \in DOMAIN Root.fetched |->
                    IF Root.fetched[i].ch = ch THEN Root.fetched[i].pkt ELSE <<>>]
<1>1. Root.fetched = <<>> /\ Root.got[ch] = <<>> /\ Root.buf[ch] = <<>>
  BY RootMachine
<1>2. s = <<>> /\ Len(s) = 0
  BY <1>1
<1>3. FlattenSeq(s) = <<>>
  <2> HIDE DEF s
  <2> QED  BY <1>2 DEF FlattenSeq
<1>4. <<>> \o <<>> = <<>>
  BY EmptySeq, ConcatEmptySeq
<1> QED  BY <1>1, <1>3, <1>4 DEF TakenBy

\* Streams depends on the packets, the buffers and the call.
LEMMA SameStreams ==
    ASSUME NEW g, NEW h, Streams(g), h.fetched = g.fetched, h.got = g.got, h.buf = g.buf,
           Waits(h) => h.buf[h.call.ch] = <<>>
    PROVE  Streams(h)
BY DEF Streams, TakenBy

\* A packet goes to the stream of the channel that waits for it, and its buffer
\* was empty: nothing is overwritten, nothing truncated.
LEMMA FetchStreams ==
    ASSUME Datagram = FALSE, NEW g \in Machines, Streams(g), Waits(g),
           payload.data \in Seq(Packets), g.data_i + 1 \in 1..Len(payload.data)
    PROVE  Streams(interpreter_run(g))
<1> DEFINE h   == interpreter_run(g)
           ch  == g.call.ch
           pkt == payload.data[g.data_i + 1]
           r   == [ch |-> ch, pkt |-> pkt]
           S   == [ch : Chan, pkt : Packets]
<1>1. /\ ch \in Chan /\ pkt \in Packets /\ h.call.ready
      /\ h.buf = [g.buf EXCEPT ![ch] = handler_packet(pkt, BufferSize)]
      /\ h.got = g.got /\ h.fetched = Append(g.fetched, r)
  BY FetchMachine
<1>2. pkt \in Seq(Nat) /\ Len(pkt) \in Nat /\ Len(pkt) <= BufferSize /\ BufferSize \in Nat
  BY <1>1, PacketBytes, SnapshotFuzzAssumption
<1>3. /\ g.fetched \in Seq(S) /\ Len(g.fetched) \in Nat /\ DOMAIN g.fetched = 1..Len(g.fetched)
      /\ g.buf \in [Chan -> Seq(Nat)] /\ g.got \in [Chan -> Seq(Nat)]
  BY MachineFields
<1>4. r \in S /\ r.ch = ch /\ r.pkt = pkt
  BY <1>1
<1> HIDE DEF h, r, pkt, ch
<1>5. handler_packet(pkt, BufferSize) = pkt
  <2>1. Lesser(Len(pkt), BufferSize) = Len(pkt)
    BY <1>2 DEF Lesser
  <2> QED  BY <1>2, <2>1, SubSeqFull DEF handler_packet
<1>6. ASSUME NEW c \in Chan
      PROVE  TakenBy(h, c) = h.got[c] \o h.buf[c]
  <2> DEFINE P(q) == IF q.ch = c THEN q.pkt ELSE <<>>
             s == [i \in DOMAIN g.fetched |-> P(g.fetched[i])]
             x == P(r)
             n == Len(g.fetched)
  <2>1. x \in Seq(Nat) /\ \A i \in 1..n : P(g.fetched[i]) \in Seq(Nat)
    <3>1. ASSUME NEW q \in S
          PROVE  P(q) \in Seq(Nat)
      <4>1. q.pkt \in Packets
        OBVIOUS
      <4> QED  BY <4>1, PacketBytes, EmptySeq
    <3> HIDE DEF P, S
    <3>2. \A i \in 1..n : g.fetched[i] \in S
      BY <1>3, ElementOfSeq
    <3> QED  BY <1>4, <3>1, <3>2
  <2>2. s \in Seq(Seq(Nat)) /\ Len(s) = n /\ DOMAIN s = 1..n
    <3> HIDE DEF P
    <3> QED  BY <1>3, <2>1
  <2>3. /\ Len(h.fetched) = n + 1 /\ DOMAIN h.fetched = 1..(n + 1)
        /\ h.fetched[n + 1] = r /\ \A i \in 1..n : h.fetched[i] = g.fetched[i]
    <3> HIDE DEF S
    <3> QED  BY <1>1, <1>3, <1>4, AppendProperties
  <2>4. [i \in DOMAIN h.fetched |-> P(h.fetched[i])] = Append(s, x)
    <3> DEFINE t == [i \in 1..(n + 1) |-> P(h.fetched[i])]
    <3>1. /\ Append(s, x) \in Seq(Seq(Nat)) /\ Len(Append(s, x)) = n + 1
          /\ \A i \in 1..n : Append(s, x)[i] = s[i]
          /\ Append(s, x)[n + 1] = x
      <4> HIDE DEF s, x
      <4> QED  BY <2>1, <2>2, AppendProperties
    <3>2. \A i \in 1..n : s[i] = P(g.fetched[i])
      <4> HIDE DEF P
      <4> QED  BY <1>3
    <3>3. \A i \in 1..(n + 1) : Append(s, x)[i] = P(h.fetched[i])
      <4> SUFFICES ASSUME NEW i \in 1..(n + 1)
                   PROVE  Append(s, x)[i] = P(h.fetched[i])
        OBVIOUS
      <4>1. i \in 1..n \/ i = n + 1
        <5>1. n \in Nat
          BY <1>3
        <5> HIDE DEF n, P
        <5> QED  BY <5>1
      <4> HIDE DEF P, s, x
      <4> QED  BY <2>3, <3>1, <3>2, <4>1 DEF x
    <3> HIDE DEF P, s, x
    <3>4. Append(s, x) \in [1..(n + 1) -> Seq(Nat)]
      BY <3>1, LenProperties
    <3> HIDE DEF n
    <3>5. Append(s, x) = [i \in 1..(n + 1) |-> P(h.fetched[i])]
      BY <3>3, <3>4
    <3> QED  BY <2>3, <3>5 DEF n
  <2>5. TakenBy(h, c) = FlattenSeq(Append(s, x))
    BY <2>4 DEF TakenBy
  <2>6. TakenBy(g, c) = FlattenSeq(s) /\ TakenBy(g, c) = g.got[c] \o g.buf[c]
    BY DEF TakenBy, Streams
  <2>7. FlattenSeq(Append(s, x)) = FlattenSeq(s) \o x
    <3> HIDE DEF s, x
    <3> QED  BY <2>1, <2>2, FlattenAppend
  <2>8. TakenBy(h, c) = (g.got[c] \o g.buf[c]) \o x
    BY <2>5, <2>6, <2>7
  <2>9. g.got[c] \in Seq(Nat) /\ g.buf[c] \in Seq(Nat)
    BY <1>3
  <2>10. CASE c = ch
    <3>1. x = pkt /\ h.buf[c] = pkt
      BY <1>1, <1>3, <1>4, <1>5, <2>10
    <3>2. g.buf[c] = <<>>
      BY <2>10 DEF Streams, ch
    <3>3. g.got[c] \o <<>> = g.got[c]
      BY <2>9, ConcatEmptySeq
    <3> HIDE DEF x
    <3> QED  BY <1>1, <2>8, <3>1, <3>2, <3>3
  <2>11. CASE c # ch
    <3>1. x = <<>> /\ h.buf[c] = g.buf[c]
      BY <1>1, <1>3, <1>4, <2>11
    <3>2. g.got[c] \o g.buf[c] \in Seq(Nat)
      BY <2>9, ConcatProperties
    <3>3. (g.got[c] \o g.buf[c]) \o <<>> = g.got[c] \o g.buf[c]
      BY <3>2, ConcatEmptySeq
    <3> HIDE DEF x
    <3> QED  BY <1>1, <2>8, <3>1, <3>3
  <2> QED  BY <2>10, <2>11
<1> QED  BY <1>1, <1>6 DEF Streams, Waits, h

\* A read moves bytes from the buffer to the target, in order.
LEMMA CopyStreams ==
    ASSUME NEW g \in Machines, Streams(g), g.call # None
    PROVE  Streams(call_vm(g))
<1> DEFINE h  == call_vm(g)
           ch == g.call.ch
           q  == g.buf[ch]
           n  == Lesser(Len(q), MaxSize[ch])
<1>1. /\ ch \in Chan /\ h.fetched = g.fetched /\ h.call = None
      /\ n \in 0..Len(q)
      /\ h.buf = [g.buf EXCEPT ![ch] = SubSeq(q, n + 1, Len(q))]
      /\ h.got = [g.got EXCEPT ![ch] = g.got[ch] \o SubSeq(q, 1, n)]
  BY CopyMachine
<1>2. g.buf \in [Chan -> Seq(Nat)] /\ g.got \in [Chan -> Seq(Nat)]
  BY MachineFields
<1>3. q \in Seq(Nat) /\ Len(q) \in Nat /\ g.got[ch] \in Seq(Nat)
  BY <1>1, <1>2
<1> HIDE DEF h, ch, n
<1>4. (g.got[ch] \o SubSeq(q, 1, n)) \o SubSeq(q, n + 1, Len(q)) = g.got[ch] \o q
  <2> HIDE DEF q
  <2>1. /\ 1 \in 1..(Len(q) + 1) /\ n \in (1 - 1)..Len(q) /\ Len(q) \in n..Len(q)
    BY <1>1, <1>3
  <2>2. SubSeq(q, 1, n) \o SubSeq(q, n + 1, Len(q)) = SubSeq(q, 1, Len(q))
    BY <1>3, <2>1, ConcatAdjacentSubSeq
  <2>3. SubSeq(q, 1, Len(q)) = q
    BY <1>3, SubSeqFull
  <2>4. SubSeq(q, 1, n) \in Seq(Nat) /\ SubSeq(q, n + 1, Len(q)) \in Seq(Nat)
    <3>1. \A i \in 1..Len(q) : q[i] \in Nat
      BY <1>3
    <3>2. (\A i \in 1..n : q[i] \in Nat) /\ (\A i \in (n + 1)..Len(q) : q[i] \in Nat)
      BY <1>1, <1>3, <3>1
    <3>3. n \in Int /\ n + 1 \in Int /\ Len(q) \in Int /\ 1 \in Int
      BY <1>1, <1>3
    <3>4. SubSeq(q, 1, n) \in Seq(Nat)
      BY <3>2, <3>3, SubSeqProperties
    <3>5. SubSeq(q, n + 1, Len(q)) \in Seq(Nat)
      BY <3>2, <3>3, SubSeqProperties
    <3> QED  BY <3>4, <3>5
  <2> DEFINE a == SubSeq(q, 1, n)
             b == SubSeq(q, n + 1, Len(q))
             o == g.got[ch]
  <2>5. a \in Seq(Nat) /\ b \in Seq(Nat) /\ o \in Seq(Nat)
    BY <1>3, <2>4
  <2>6. a \o b = q
    BY <2>2, <2>3
  <2> HIDE DEF a, b, o
  <2>7. (o \o a) \o b = o \o (a \o b)
    <3>1. \A u, v, w \in Seq(Nat) : (u \o v) \o w = u \o (v \o w)
      BY ConcatAssociative
    <3> QED  BY <2>5, <3>1
  <2>8. (o \o a) \o b = o \o q
    BY <2>6, <2>7
  <2> QED  BY <2>8 DEF a, b, o
<1>5. ASSUME NEW c \in Chan
      PROVE  TakenBy(h, c) = h.got[c] \o h.buf[c]
  <2>1. TakenBy(h, c) = g.got[c] \o g.buf[c]
    <3>1. TakenBy(h, c) = TakenBy(g, c)
      BY <1>1 DEF TakenBy
    <3>2. TakenBy(g, c) = g.got[c] \o g.buf[c]
      BY DEF Streams
    <3> QED  BY <3>1, <3>2
  <2>2. CASE c = ch
    BY <1>1, <1>2, <1>4, <2>1, <2>2
  <2>3. CASE c # ch
    BY <1>1, <1>2, <2>1, <2>3
  <2> QED  BY <2>2, <2>3
<1> QED  BY <1>1, <1>5 DEF Streams, Waits, h

\* The part of StreamInv that a step of the machine changes.
LEMMA StreamsNext ==
    ASSUME Datagram = FALSE, Inv, StreamInv, [Next]_vars
    PROVE  StreamInv'
<1>1. /\ guest \in Machines /\ Streams(guest) /\ payload \in Graphs
      /\ tmp # None => Streams(tmp)
  BY DEF Inv, TypeOK, StreamInv
<1>2. ASSUME NEW h, Step(h), Streams(h)
      PROVE  StreamInv'
  <2>1. guest' = h /\ tmp' = tmp
    BY <1>2 DEF Step
  <2> QED  BY <1>1, <1>2, <2>1 DEF StreamInv
<1>3. ASSUME NEW t, t # None => Streams(t), NEW exit, EndRun(guest, t, exit)
      PROVE  StreamInv'
  <2>1. guest' = Reloaded(t, discard) /\ tmp' = IF discard THEN None ELSE t
    BY <1>3 DEF EndRun
  <2>2. (guest' = Root \/ (t # None /\ guest' = t)) /\ (tmp' # None => tmp' = t)
    BY <2>1 DEF Reloaded
  <2>3. Streams(guest') /\ (tmp' # None => Streams(tmp'))
    BY <1>3, <2>2, RootStreams
  <2> QED  BY <2>3 DEF StreamInv
<1>4. ASSUME NEW ch \in Chan, Read(ch)
      PROVE  StreamInv'
  <2> DEFINE h == read(guest, ch)
  <2>1. /\ h.buf = guest.buf /\ h.got = guest.got /\ h.fetched = guest.fetched
        /\ h.call.ch = ch /\ (h.call.ready <=> guest.buf[ch] # <<>>)
    BY <1>1, ReadMachine
  <2>2. Step(h)
    BY <1>4 DEF Read
  <2> HIDE DEF h
  <2>3. Waits(h) => h.buf[h.call.ch] = <<>>
    BY <2>1 DEF Waits
  <2>4. Streams(h)
    BY <1>1, <2>1, <2>3, SameStreams
  <2> QED  BY <1>2, <2>2, <2>4
<1>5. ASSUME Fetch
      PROVE  StreamInv'
  <2>1. AtOp("packet") /\ Step(interpreter_run(guest)) /\ Waits(guest)
    BY <1>5 DEF Fetch, AtOp, Waits
  <2>2. Len(guest.fetched) < Len(payload.data) /\ Len(guest.fetched) = guest.data_i
    BY <2>1, NextOp DEF Inv, GuestOK, InStep
  <2>3. payload.data \in Seq(Packets) /\ guest.data_i + 1 \in 1..Len(payload.data)
    <3>1. guest.data_i \in Nat
      BY <1>1, MachineFields
    <3>2. payload.data \in Seq(Packets) /\ Len(payload.data) \in Nat
      BY HostTypes
    <3> QED  BY <2>2, <3>1, <3>2
  <2>4. Streams(interpreter_run(guest))
    BY <1>1, <2>1, <2>3, FetchStreams
  <2> QED  BY <1>2, <2>1, <2>4
<1>6. ASSUME Copy
      PROVE  StreamInv'
  <2>1. guest.call # None /\ Step(call_vm(guest))
    BY <1>6 DEF Copy
  <2>2. Streams(call_vm(guest))
    BY <1>1, <2>1, CopyStreams
  <2> QED  BY <1>2, <2>1, <2>2
<1>7. ASSUME CreateTmpSnapshot
      PROVE  StreamInv'
  <2> DEFINE t == create_tmp_snapshot(guest)
  <2>1. EndRun(guest, t, "normal")
    BY <1>7 DEF CreateTmpSnapshot
  <2>2. t.buf = guest.buf /\ t.got = guest.got /\ t.fetched = guest.fetched /\ t.call = guest.call
    BY <1>1, SnapshotMachine
  <2> HIDE DEF t
  <2>3. Waits(t) => t.buf[t.call.ch] = <<>>
    BY <1>1, <2>2 DEF Streams, Waits
  <2>4. Streams(t)
    BY <1>1, <2>2, <2>3, SameStreams
  <2> QED  BY <1>3, <2>1, <2>4
<1>8. CASE OutOfData \/ Timeout \/ \E exit \in {"normal", "crash"} : Stop(exit)
  <2>1. \E exit : EndRun(guest, tmp, exit)
    BY <1>8 DEF OutOfData, Timeout, Stop, Ended
  <2> QED  BY <1>1, <1>3, <2>1
<1>9. ASSUME guest' = guest, tmp' = tmp
      PROVE  StreamInv'
  BY <1>1, <1>9 DEF StreamInv
<1>10. CASE \/ Generate \/ HavocNoSnap \/ HavocWithSnap \/ CreateDone \/ Mutate \/ TestDone
            \/ FilterDone \/ LoopDone \/ DeleteDone \/ UNCHANGED vars
  <2>1. guest' = guest /\ tmp' = tmp
    BY <1>10 DEF Generate, HavocNoSnap, HavocWithSnap, CreateDone, Mutate, TestDone, FilterDone,
                 LoopDone, DeleteDone, vars, vm
  <2> QED  BY <1>9, <2>1
<1> QED  BY <1>4, <1>5, <1>6, <1>7, <1>8, <1>10 DEF Next

\* What the reads of a channel returned, and what its buffer holds, are the
\* packets the channel took, in order: no byte is lost, repeated or moved to
\* another channel, by a snapshot between two reads either.
THEOREM ChannelStreamCorrect == Spec => []ChannelStream
<1>1. Init => StreamInv
  <2> SUFFICES ASSUME Init PROVE StreamInv
    OBVIOUS
  <2>1. guest = Root /\ tmp = None
    BY DEF Init
  <2> QED  BY <2>1, RootStreams DEF StreamInv
<1>2. Inv /\ StreamInv /\ [Next]_vars => StreamInv'
  <2>1. CASE Datagram = FALSE
    BY <2>1, StreamsNext
  <2>2. CASE Datagram = TRUE
    BY <2>2 DEF StreamInv
  <2> QED  BY <2>1, <2>2, SnapshotFuzzAssumption
<1>3. StreamInv => ChannelStream
  <2>1. ASSUME NEW ch \in Chan
        PROVE  Taken(ch) = TakenBy(guest, ch)
    BY DEF Taken, TakenBy
  <2> QED  BY <2>1 DEF StreamInv, Streams, ChannelStream
<1> QED  BY <1>1, <1>2, <1>3, InvCorrect, PTL DEF Spec

=============================================================================
