------------------------- MODULE SocketCacheProofs -------------------------
(***************************************************************************)
(* Theorems about SocketCache, for every number of descriptors, table size *)
(* and build: the counter of connections is exact, and what the cache      *)
(* answers for is what the kernel has.                                     *)
(***************************************************************************)
EXTENDS SocketCache, FiniteSetTheorems, FunctionTheorems, SequenceTheorems,
        WellFoundedInduction, TLAPS

\* A loop that stops at the first match stops at the least index.
LEMMA FirstIsLeast ==
    ASSUME NEW S \in SUBSET Nat, IsFiniteSet(S), S # {}
    PROVE  /\ First(S) \in S
           /\ \A j \in S : First(S) <= j
<1> DEFINE Below(i) == {j \in S : j < i}
           Family   == {Below(i) : i \in S}
<1>1. Family \subseteq FiniteSubsetsOf(S) /\ Family # {}
  <2>1. ASSUME NEW i \in S
        PROVE  Below(i) \in SUBSET S /\ IsFiniteSet(Below(i))
    BY FS_Subset
  <2> QED  BY <2>1 DEF FiniteSubsetsOf
<1>2. IsWellFoundedOn(StrictSubsetOrdering(S), FiniteSubsetsOf(S))
  BY FS_StrictSubsetOrderingWellFounded
<1>3. \E x \in Family : \A y \in Family : ~ (<<y, x>> \in StrictSubsetOrdering(S))
  BY <1>1, <1>2, WFMin
<1>4. PICK i \in S : \A y \in Family : ~ (<<y, Below(i)>> \in StrictSubsetOrdering(S))
  BY <1>3
<1>5. ASSUME NEW j \in S, j < i
      PROVE  FALSE
  <2>0. S \subseteq Nat /\ i \in Nat /\ j \in Nat
    OBVIOUS
  <2>1. Below(j) \subseteq Below(i) /\ j \in Below(i) /\ j \notin Below(j)
    <3>1. \A k \in Nat : k < j => k < i
      BY <1>5, <2>0
    <3>2. ~ (j < j)
      BY <2>0
    <3> QED  BY <1>5, <2>0, <3>1, <3>2
  <2>2. <<Below(j), Below(i)>> \in StrictSubsetOrdering(S)
    BY <2>1 DEF StrictSubsetOrdering
  <2> QED  BY <1>4, <2>2
<1>6. \E k \in S : \A j \in S : k <= j
  BY <1>5
<1> QED  BY <1>6 DEF First

\* The enabled slots are some of the slots of the table.
LEMMA EnabledIsFinite ==
    ASSUME NEW T \in Seq(Slots)
    PROVE  /\ IsFiniteSet(Enabled(T))
           /\ Enabled(T) \subseteq 1..Len(T)
           /\ Cardinality(Enabled(T)) \in 0..Len(T)
<1>1. Len(T) \in Nat /\ Enabled(T) \subseteq 1..Len(T)
  BY DEF Enabled
<1>2. IsFiniteSet(1..Len(T)) /\ Cardinality(1..Len(T)) = Len(T)
  <2>1. IsFiniteSet(1..Len(T)) /\ Cardinality(1..Len(T)) = IF 1 > Len(T) THEN 0 ELSE Len(T) - 1 + 1
    BY <1>1, FS_Interval
  <2> QED  BY <1>1, <2>1
<1>3. IsFiniteSet(Enabled(T)) /\ Cardinality(Enabled(T)) <= Len(T)
  BY <1>1, <1>2, FS_Subset
<1> QED  BY <1>1, <1>3, FS_CardinalityType

\* add_connection: a new slot is enabled and adds one to the count.
LEMMA NewSlotCounts ==
    ASSUME NEW T \in Seq(Slots), NEW s \in Slots, ~ s.disabled
    PROVE  /\ Append(T, s) \in Seq(Slots)
           /\ Len(Append(T, s)) = Len(T) + 1
           /\ Enabled(Append(T, s)) = Enabled(T) \cup {Len(T) + 1}
           /\ Cardinality(Enabled(Append(T, s))) = Cardinality(Enabled(T)) + 1
<1>1. /\ Append(T, s) \in Seq(Slots)
      /\ Len(Append(T, s)) = Len(T) + 1
      /\ Len(T) \in Nat
  OBVIOUS
<1>2. Enabled(Append(T, s)) = Enabled(T) \cup {Len(T) + 1}
  BY <1>1 DEF Enabled
<1>3. Len(T) + 1 \notin Enabled(T)
  BY <1>1, EnabledIsFinite
<1> QED  BY <1>1, <1>2, <1>3, EnabledIsFinite, FS_AddElement

\* add_server_socket: a slot that is replaced by an enabled one keeps the count.
LEMMA UpdatedSlotCounts ==
    ASSUME NEW T \in Seq(Slots), NEW i \in Enabled(T), NEW s \in Slots, ~ s.disabled
    PROVE  /\ [T EXCEPT ![i] = s] \in Seq(Slots)
           /\ Len([T EXCEPT ![i] = s]) = Len(T)
           /\ Enabled([T EXCEPT ![i] = s]) = Enabled(T)
<1>1. i \in 1..Len(T)
  BY DEF Enabled
<1>2. /\ [T EXCEPT ![i] = s] \in Seq(Slots)
      /\ Len([T EXCEPT ![i] = s]) = Len(T)
  BY <1>1, ExceptSeq
<1>3. DOMAIN [T EXCEPT ![i] = s] = DOMAIN T
  OBVIOUS
<1>4. \A j \in DOMAIN T : [T EXCEPT ![i] = s][j] = IF j = i THEN s ELSE T[j]
  OBVIOUS
<1>5. Enabled([T EXCEPT ![i] = s]) = Enabled(T)
  BY <1>3, <1>4 DEF Enabled
<1> QED  BY <1>2, <1>5

\* Adding a descriptor to a slot changes only its list.
LEMMA AddedSocketType ==
    ASSUME NEW s \in Slots, NEW fd \in Fd
    PROVE  /\ add_server_socket(s, fd) \in Slots
           /\ add_server_socket(s, fd).disabled = s.disabled
BY DEF add_server_socket, Slots

\* So does closing one, and the list gets shorter by one.
LEMMA ClosedSocketType ==
    ASSUME NEW s \in Slots, NEW fd \in Range(s.sockets)
    PROVE  /\ close_server_socket(s, fd) \in Slots
           /\ close_server_socket(s, fd).disabled = s.disabled
           /\ Len(close_server_socket(s, fd).sockets) = Len(s.sockets) - 1
<1> DEFINE at  == First({i \in DOMAIN s.sockets : s.sockets[i] = fd})
           new == [i \in 1..(Len(s.sockets) - 1) |->
                      IF i < at THEN s.sockets[i] ELSE s.sockets[i + 1]]
<1>1. s.sockets \in Seq(Fd) /\ Len(s.sockets) \in Nat /\ Len(s.sockets) >= 1
  BY DEF Slots, Range
<1>2. new \in Seq(Fd) /\ Len(new) = Len(s.sockets) - 1
  <2>1. \A i \in 1..(Len(s.sockets) - 1) :
            s.sockets[i] \in Fd /\ s.sockets[i + 1] \in Fd
    BY <1>1
  <2>2. new \in [1..(Len(s.sockets) - 1) -> Fd]
    BY <2>1
  <2> HIDE DEF new
  <2> QED  BY <1>1, <2>2
<1>3. close_server_socket(s, fd) = [s EXCEPT !.sockets = new]
  BY DEF close_server_socket
<1> HIDE DEF new
<1> QED  BY <1>2, <1>3 DEF Slots

\* A registered descriptor changes neither the length of the table nor which
\* slots are enabled.
LEMMA JoinedTable ==
    ASSUME NEW T \in Seq(Slots), NEW S \in SUBSET Enabled(T), S # {}, NEW fd \in Fd
    PROVE  /\ Joined(T, First(S), fd) \in Seq(Slots)
           /\ Len(Joined(T, First(S), fd)) = Len(T)
           /\ Enabled(Joined(T, First(S), fd)) = Enabled(T)
<1>1. S \in SUBSET Nat /\ IsFiniteSet(S)
  <2>1. IsFiniteSet(Enabled(T)) /\ Enabled(T) \subseteq 1..Len(T) /\ Len(T) \in Nat
    BY EnabledIsFinite
  <2> QED  BY <2>1, FS_Subset
<1>2. First(S) \in Enabled(T)
  BY <1>1, FirstIsLeast
<1>3. T[First(S)] \in Slots /\ ~ T[First(S)].disabled
  BY <1>2 DEF Enabled
<1>4. /\ add_server_socket(T[First(S)], fd) \in Slots
      /\ ~ add_server_socket(T[First(S)], fd).disabled
  BY <1>3, AddedSocketType
<1> QED  BY <1>2, <1>4, UpdatedSlotCounts DEF Joined

\* disable_connection_by_server_socket disables exactly one slot when it
\* empties one, and none otherwise.
LEMMA DisabledTable ==
    ASSUME NEW T \in Seq(Slots), NEW fd
    PROVE  LET D == disable_connection_by_server_socket(T, fd)
           IN  /\ D \in Seq(Slots)
               /\ Len(D) = Len(T)
               /\ Emptied(T, fd) = {} => Enabled(D) = Enabled(T)
               /\ Emptied(T, fd) # {} =>
                      /\ First(Emptied(T, fd)) \in Enabled(T)
                      /\ Enabled(D) = Enabled(T) \ {First(Emptied(T, fd))}
<1> DEFINE D    == disable_connection_by_server_socket(T, fd)
           E    == Emptied(T, fd)
           W    == WithSocket(T, fd)
           last == IF E = {} THEN Len(T) ELSE First(E)
           shut(i) == [close_server_socket(T[i], fd) EXCEPT !.disabled = i \in E]
<1>1. /\ Len(T) \in Nat
      /\ DOMAIN T = 1..Len(T)
      /\ E \subseteq W
      /\ W \subseteq Enabled(T)
      /\ Enabled(T) \subseteq 1..Len(T)
  BY DEF Emptied, WithSocket, Enabled
<1>2. E # {} => First(E) \in E /\ \A j \in E : First(E) <= j
  <2>1. IsFiniteSet(E) /\ E \in SUBSET Nat
    BY <1>1, EnabledIsFinite, FS_Subset
  <2> QED  BY <2>1, FirstIsLeast
<1>3. ASSUME NEW i \in W
      PROVE  shut(i) \in Slots /\ (shut(i).disabled <=> i \in E)
  <2>1. T[i] \in Slots /\ fd \in Range(T[i].sockets)
    BY <1>1 DEF WithSocket
  <2>2. close_server_socket(T[i], fd) \in Slots
    BY <2>1, ClosedSocketType
  <2>3. \A c \in Slots : \A b \in BOOLEAN :
            [c EXCEPT !.disabled = b] \in Slots /\ [c EXCEPT !.disabled = b].disabled = b
    BY DEF Slots
  <2>4. (i \in E) \in BOOLEAN
    OBVIOUS
  <2> QED  BY <2>2, <2>3, <2>4
<1>4. D = [i \in 1..Len(T) |-> IF i \in W /\ i <= last THEN shut(i) ELSE T[i]]
  BY <1>1 DEF disable_connection_by_server_socket
<1> HIDE DEF D, E, W, last, shut
<1>5. D \in Seq(Slots) /\ Len(D) = Len(T) /\ DOMAIN D = 1..Len(T)
  <2>1. \A i \in 1..Len(T) : T[i] \in Slots
    BY <1>1
  <2>2. D \in [1..Len(T) -> Slots]
    BY <1>3, <1>4, <2>1
  <2> QED  BY <1>1, <2>2
<1>6. \A i \in 1..Len(T) :
          D[i].disabled <=> (T[i].disabled \/ (i \in E /\ i <= last))
  <2> SUFFICES ASSUME NEW i \in 1..Len(T)
               PROVE  D[i].disabled <=> (T[i].disabled \/ (i \in E /\ i <= last))
    OBVIOUS
  <2>1. CASE i \in W /\ i <= last
    BY <1>1, <1>3, <1>4, <2>1 DEF Enabled
  <2>2. CASE ~ (i \in W /\ i <= last)
    BY <1>1, <1>4, <2>2
  <2> QED  BY <2>1, <2>2
<1>7. E = {} => Enabled(D) = Enabled(T)
  BY <1>1, <1>5, <1>6 DEF Enabled
<1>8. E # {} => First(E) \in Enabled(T) /\ Enabled(D) = Enabled(T) \ {First(E)}
  <2> HAVE E # {}
  <2>1. \A i \in 1..Len(T) : (i \in E /\ i <= last) <=> i = First(E)
    BY <1>1, <1>2 DEF last
  <2> QED  BY <1>1, <1>2, <1>5, <1>6, <2>1 DEF Enabled
<1> QED  BY <1>5, <1>7, <1>8 DEF D, E

----------------------------------------------------------------------------
(***************************************************************************)
(* The inductive invariant.  The counter alone is not inductive: it is one *)
(* byte wide, and only the bound on the used slots keeps it from wrapping. *)
(***************************************************************************)
CountOK(T, n) == /\ T \in Seq(Slots)
                 /\ Len(T) <= MAX_CONNECTIONS
                 /\ n = Cardinality(Enabled(T))

\* The kernel's descriptors have their types.
KernelOK == /\ kind \in [Fd -> Kinds]
            /\ alias \in [Fd -> SUBSET Fd]
            /\ backlog \in Nat

\* The inductive invariant: the types and the count.
IInv == /\ CountOK(connections, active_con_num)
        /\ KernelOK
        /\ init_done \in BOOLEAN
        /\ phase \in Phases

\* The count fits a byte and is positive when a slot is enabled.
LEMMA CountRange ==
    ASSUME NEW T, NEW n, CountOK(T, n)
    PROVE  /\ n \in 0..255 /\ n \in Nat
           /\ Len(T) \in Nat
           /\ Enabled(T) # {} => n > 0
<1>1. T \in Seq(Slots) /\ Len(T) \in Nat /\ Len(T) <= MAX_CONNECTIONS
      /\ n = Cardinality(Enabled(T))
  BY DEF CountOK
<1>2. IsFiniteSet(Enabled(T)) /\ n \in 0..Len(T)
  BY <1>1, EnabledIsFinite
<1>3. Enabled(T) # {} => n # 0
  BY <1>1, <1>2, FS_EmptySet
<1>4. MAX_CONNECTIONS \in Nat /\ MAX_CONNECTIONS <= 255
  BY SocketCacheAssumption
<1>5. n \in Nat /\ n <= Len(T) /\ Len(T) \in Nat /\ Len(T) <= MAX_CONNECTIONS
  BY <1>1, <1>2
<1>6. n \in 0..255
  BY <1>4, <1>5
<1>7. Enabled(T) # {} => n > 0
  BY <1>3, <1>5
<1> QED  BY <1>1, <1>5, <1>6, <1>7

\* A connection more, and the counter one more: there was room, so it does not wrap.
LEMMA CountAdd ==
    ASSUME NEW T, NEW n, CountOK(T, n), Len(T) < MAX_CONNECTIONS,
           NEW s \in Slots, ~ s.disabled
    PROVE  /\ CountOK(Append(T, s), Inc(n))
           /\ Enabled(Append(T, s)) # {}
<1>1. T \in Seq(Slots) /\ n = Cardinality(Enabled(T))
  BY DEF CountOK
<1>2. /\ Append(T, s) \in Seq(Slots)
      /\ Len(Append(T, s)) = Len(T) + 1
      /\ Enabled(Append(T, s)) = Enabled(T) \cup {Len(T) + 1}
      /\ Cardinality(Enabled(Append(T, s))) = n + 1
  BY <1>1, NewSlotCounts
<1>3. Len(T) \in Nat /\ n \in 0..Len(T)
  BY <1>1, EnabledIsFinite
<1>4. Inc(n) = n + 1
  BY <1>3, SocketCacheAssumption DEF Inc
<1> QED  BY <1>2, <1>3, <1>4, SocketCacheAssumption DEF CountOK

\* A registered descriptor leaves the count as it is.
LEMMA CountJoin ==
    ASSUME NEW T, NEW n, CountOK(T, n),
           NEW S \in SUBSET Enabled(T), S # {}, NEW fd \in Fd
    PROVE  CountOK(Joined(T, First(S), fd), n)
BY JoinedTable DEF CountOK

\* A connection disabled, and the counter one less: it was counted before.
LEMMA CountDisable ==
    ASSUME NEW T, NEW n, CountOK(T, n), NEW fd
    PROVE  CountOK(disable_connection_by_server_socket(T, fd), ActiveAfterDisable(T, n, fd))
<1> DEFINE D == disable_connection_by_server_socket(T, fd)
           E == Emptied(T, fd)
<1>1. T \in Seq(Slots) /\ n = Cardinality(Enabled(T)) /\ IsFiniteSet(Enabled(T))
  BY EnabledIsFinite DEF CountOK
<1>2. /\ D \in Seq(Slots)
      /\ Len(D) = Len(T)
      /\ E = {} => Enabled(D) = Enabled(T)
      /\ E # {} => First(E) \in Enabled(T) /\ Enabled(D) = Enabled(T) \ {First(E)}
  BY <1>1, DisabledTable
<1> HIDE DEF D, E
<1>3. CASE E = {}
  BY <1>1, <1>2, <1>3 DEF CountOK, ActiveAfterDisable, D, E
<1>4. CASE E # {}
  <2>1. Cardinality(Enabled(D)) = n - 1
    BY <1>1, <1>2, <1>4, FS_RemoveElement
  <2>2. n \in 0..255 /\ n > 0
    BY <1>2, <1>4, CountRange
  <2>3. Dec(n) = n - 1
    BY <2>2 DEF Dec
  <2> QED  BY <1>2, <1>4, <2>1, <2>3 DEF CountOK, ActiveAfterDisable, D, E
<1> QED  BY <1>3, <1>4

\* A fresh slot is a slot, and enabled.
LEMMA NewSlotType ==
    ASSUME NEW port \in {0, TargetPort}, NEW can \in BOOLEAN
    PROVE  NewSlot(port, can) \in Slots /\ ~ NewSlot(port, can).disabled
BY DEF NewSlot, Slots

\* A new CAN slot is found by the loops that look for one.
LEMMA NewCanSlot ==
    ASSUME NEW T \in Seq(Slots), NEW s \in Slots, ~ s.disabled, s.is_can
    PROVE  WithCan(Append(T, s)) # {}
<1> DEFINE A == Append(T, s)
<1>1. /\ A \in Seq(Slots) /\ Len(A) = Len(T) + 1 /\ A[Len(T) + 1] = s /\ Len(T) \in Nat
  BY AppendProperties
<1> HIDE DEF A
<1>2. Len(T) + 1 \in DOMAIN A
  BY <1>1
<1>3. Len(T) + 1 \in WithCan(A)
  BY <1>1, <1>2 DEF WithCan, Enabled
<1> QED  BY <1>3 DEF A

\* SetServerSocket keeps the count of the table it is given.
LEMMA SetServerSocketStep ==
    ASSUME NEW STATE T, NEW STATE n, NEW STATE port, NEW fd \in Fd,
           CountOK(T, n), phase \in Phases, SetServerSocket(T, port, fd)
    PROVE  /\ CountOK(connections', n)
           /\ phase' \in Phases
           /\ phase' = "run" => n > 0
<1>1. CASE /\ WithPort(T, port) # {}
           /\ connections' = set_server_socket_to_connection(T, port, fd)
           /\ UNCHANGED phase
  <2>1. WithPort(T, port) \in SUBSET Enabled(T)
    BY DEF WithPort
  <2>2. n > 0
    BY <1>1, <2>1, CountRange
  <2> QED  BY <1>1, <2>1, <2>2, CountJoin DEF set_server_socket_to_connection
<1>2. CASE connections' = T /\ Ends("asserted")
  BY <1>2 DEF Ends, Phases
<1> QED  BY <1>1, <1>2 DEF SetServerSocket

\* The kernel's tables keep their types.
LEMMA KernelSteps ==
    ASSUME KernelOK
    PROVE  /\ \A fd \in Fd, k \in Kinds : Opened(fd, k) =>
                  kind' \in [Fd -> Kinds] /\ alias' \in [Fd -> SUBSET Fd]
           /\ \A fd \in Fd : Closed(fd) => KernelOK'
           /\ \A fd, new \in Fd : Duplicated(fd, new) => KernelOK'
           /\ \A fd \in Fd, k \in Kinds : Became(fd, k) \in [Fd -> Kinds]
<1>1. ASSUME NEW fd \in Fd, NEW k \in Kinds, Opened(fd, k)
      PROVE  kind' \in [Fd -> Kinds] /\ alias' \in [Fd -> SUBSET Fd]
  BY <1>1 DEF KernelOK, Opened
<1>2. ASSUME NEW fd \in Fd, Closed(fd)
      PROVE  KernelOK'
  <2>1. kind' \in [Fd -> Kinds]
    BY <1>2 DEF KernelOK, Closed, Kinds
  <2>2. alias' \in [Fd -> SUBSET Fd]
    BY <1>2 DEF KernelOK, Closed
  <2>3. backlog' \in Nat
    BY <1>2 DEF KernelOK, Closed
  <2> QED  BY <2>1, <2>2, <2>3 DEF KernelOK
<1>3. ASSUME NEW fd \in Fd, NEW new \in Fd, Duplicated(fd, new)
      PROVE  KernelOK'
  <2>1. kind' \in [Fd -> Kinds]
    BY <1>3 DEF KernelOK, Duplicated
  <2>2. alias' \in [Fd -> SUBSET Fd]
    <3>1. alias[fd] \cup {new} \in SUBSET Fd
      BY DEF KernelOK
    <3> QED  BY <1>3, <3>1 DEF KernelOK, Duplicated
  <2>3. backlog' \in Nat
    BY <1>3 DEF KernelOK, Duplicated
  <2> QED  BY <2>1, <2>2, <2>3 DEF KernelOK
<1>4. ASSUME NEW fd \in Fd, NEW k \in Kinds
      PROVE  Became(fd, k) \in [Fd -> Kinds]
  BY DEF KernelOK, Became
<1> QED  BY <1>1, <1>2, <1>3, <1>4

----------------------------------------------------------------------------
\* Every call keeps the inductive invariant.
LEMMA InductiveStep == IInv /\ [Next]_vars => IInv'
<1> SUFFICES ASSUME IInv, [Next]_vars
             PROVE  IInv'
  OBVIOUS
<1> USE DEF IInv
<1>fit. TableRoom => Len(connections) < MAX_CONNECTIONS
  <2>1. Len(connections) \in Nat /\ MAX_CONNECTIONS \in Nat
    BY CountRange, SocketCacheAssumption
  <2> QED  BY <2>1 DEF TableRoom, TableOverrun
<1>new. /\ NewSlot(TargetPort, FALSE) \in Slots /\ ~ NewSlot(TargetPort, FALSE).disabled
        /\ NewSlot(0, TRUE) \in Slots /\ ~ NewSlot(0, TRUE).disabled
  BY NewSlotType
<1>add. TableRoom =>
          /\ CountOK(Append(connections, NewSlot(TargetPort, FALSE)), Inc(active_con_num))
          /\ CountOK(Append(connections, NewSlot(0, TRUE)), Inc(active_con_num))
  BY <1>fit, <1>new, CountAdd
<1>end. TableEnd => phase' \in Phases
  BY DEF TableEnd, Ends, Phases
<1>k. /\ kind \in [Fd -> Kinds] /\ alias \in [Fd -> SUBSET Fd] /\ backlog \in Nat
      /\ {"client", "listen", "conn", "canbound", "udpbound"} \subseteq Kinds
      /\ {"released", "exited", "asserted", "overrun", "stuck"} \subseteq Phases
  BY DEF KernelOK, Kinds, Phases
<1>1. ASSUME NEW fd \in Fd, NEW k \in Kinds, Open(fd, k)
      PROVE  IInv'
  BY <1>1, KernelSteps DEF Open, KernelOK, cache
<1>2. ASSUME NEW fd \in Fd, NEW ok \in BOOLEAN, listen(fd, ok)
      PROVE  IInv'
  <2> DEFINE kinds == IF ok THEN Became(fd, "listen") ELSE kind
  <2>1. kinds \in [Fd -> Kinds]
    BY <1>k, KernelSteps
  <2> HIDE DEF kinds
  <2>2. UNCHANGED init_done
    BY <1>2 DEF listen
  <2>3. CASE /\ kind' = kinds
             /\ UNCHANGED <<cache, phase, alias, backlog>>
    BY <2>1, <2>2, <2>3 DEF cache, KernelOK
  <2>4. CASE ListenFirst(fd, kinds)
    <3>1. CASE TableEnd /\ kind' = kinds /\ UNCHANGED <<cache, alias, backlog>>
      BY <1>end, <2>1, <2>2, <3>1 DEF cache, KernelOK
    <3>2. CASE /\ TableRoom
               /\ connections' = Append(connections, NewSlot(TargetPort, FALSE))
               /\ active_con_num' = Inc(active_con_num)
               /\ Ends("exited")
               /\ kind' = kinds
               /\ UNCHANGED <<alias, backlog>>
      BY <1>add, <1>k, <2>1, <2>2, <3>2 DEF KernelOK, Ends
    <3>3. CASE /\ TableRoom
               /\ \E c \in Free :
                    /\ connections' = Append(connections, NewSlot(TargetPort, FALSE))
                    /\ kind' = [kinds EXCEPT ![c] = "client"]
                    /\ alias' = [alias EXCEPT ![c] = {c}]
               /\ active_con_num' = Inc(active_con_num)
               /\ backlog' = backlog + 1
               /\ UNCHANGED phase
      <4>1. PICK c \in Free : /\ kind' = [kinds EXCEPT ![c] = "client"]
                              /\ alias' = [alias EXCEPT ![c] = {c}]
        BY <3>3
      <4>2. kind' \in [Fd -> Kinds] /\ alias' \in [Fd -> SUBSET Fd] /\ backlog' \in Nat
        BY <1>k, <2>1, <3>3, <4>1 DEF Free
      <4>3. CountOK(connections', active_con_num')
        BY <1>add, <3>3
      <4> QED  BY <2>2, <3>3, <4>2, <4>3 DEF KernelOK
    <3> QED  BY <2>4, <3>1, <3>2, <3>3 DEF ListenFirst
  <2> QED  BY <1>2, <2>3, <2>4 DEF listen, kinds
<1>3. ASSUME NEW fd \in Fd, accept4(fd)
      PROVE  IInv'
  <2>1. PICK new \in Free : /\ Opened(new, "conn")
                            /\ backlog' = backlog - 1
                            /\ SetServerSocket(connections, TargetPort, new)
    BY <1>3 DEF accept4
  <2>2. KernelOK'
    <3>1. kind' \in [Fd -> Kinds] /\ alias' \in [Fd -> SUBSET Fd]
      BY <1>k, <2>1, KernelSteps DEF Free
    <3>2. backlog' \in Nat
      BY <1>3, <1>k, <2>1 DEF accept4
    <3> QED  BY <3>1, <3>2 DEF KernelOK
  <2>3. CountOK(connections', active_con_num) /\ phase' \in Phases
    BY <2>1, SetServerSocketStep DEF Free
  <2> QED  BY <1>3, <2>2, <2>3 DEF accept4
<1>4. ASSUME NEW fd \in Fd, NEW ok \in BOOLEAN, bind_can(fd, ok)
      PROVE  IInv'
  <2>1. UNCHANGED init_done
    BY <1>4 DEF bind_can
  <2>2. CASE Ends("exited") /\ UNCHANGED <<cache, kernel>>
    BY <1>k, <2>1, <2>2 DEF Ends, cache, kernel, KernelOK
  <2>3. CASE kind[fd] \in {"can", "canbound"}
    <3> DEFINE exists == connection_exists_can(connections)
               T == IF exists THEN connections ELSE Append(connections, NewSlot(0, TRUE))
               n == IF exists THEN active_con_num ELSE Inc(active_con_num)
    <3>1. KernelOK'
      <4>1. /\ kind' = IF ok THEN Became(fd, "canbound") ELSE kind
            /\ UNCHANGED <<alias, backlog>>
        BY <1>4, <2>3 DEF bind_can
      <4> QED  BY <1>k, <4>1, KernelSteps DEF KernelOK
    <3>2. (exists \/ TableRoom) => CountOK(T, n)
      BY <1>add
    <3>3. (exists \/ TableRoom) => WithCan(T) \in SUBSET Enabled(T) /\ WithCan(T) # {}
      <4>1. exists => WithCan(T) # {}
        BY DEF connection_exists_can
      <4>2. ~ exists /\ TableRoom => WithCan(T) # {}
        <5> HAVE ~ exists /\ TableRoom
        <5>1. connections \in Seq(Slots)
          BY DEF CountOK
        <5>2. T = Append(connections, NewSlot(0, TRUE))
          OBVIOUS
        <5>3. NewSlot(0, TRUE).is_can
          BY DEF NewSlot
        <5>4. WithCan(Append(connections, NewSlot(0, TRUE))) # {}
          BY <1>new, <5>1, <5>3, NewCanSlot
        <5> QED  BY <5>2, <5>4
      <4> QED  BY <4>1, <4>2 DEF WithCan
    <3>4. CASE ~ exists /\ TableEnd /\ UNCHANGED cache
      BY <1>end, <2>1, <3>1, <3>4 DEF cache
    <3>5. CASE /\ exists \/ TableRoom
               /\ active_con_num' = n
               /\ connections' = T
               /\ phase' = phase \/ phase' = "asserted"
      BY <1>k, <2>1, <3>1, <3>2, <3>5
    <3>6. CASE /\ exists \/ TableRoom
               /\ active_con_num' = n
               /\ connections' = set_server_socket_to_connection_can(T, fd)
               /\ UNCHANGED phase
      <4> HIDE DEF T, n, exists
      <4>1. CountOK(Joined(T, First(WithCan(T)), fd), n)
        BY <3>2, <3>3, <3>6, CountJoin
      <4> QED  BY <2>1, <3>1, <3>6, <4>1 DEF set_server_socket_to_connection_can
    <3> QED
      <4> HIDE DEF T, n, exists
      <4>1. \/ ~ exists /\ TableEnd /\ UNCHANGED cache
            \/ /\ exists \/ TableRoom
               /\ active_con_num' = n
               /\ \/ connections' = T /\ UNCHANGED phase
                  \/ connections' = set_server_socket_to_connection_can(T, fd) /\ UNCHANGED phase
                  \/ connections' = T /\ Ends("asserted")
        BY <1>4, <2>3 DEF bind_can, exists, T, n
      <4> QED  BY <3>4, <3>5, <3>6, <4>1 DEF Ends
  <2> QED  BY <1>4, <2>2, <2>3 DEF bind_can
<1>5. ASSUME NEW fd \in Fd, bind_udp(fd)
      PROVE  IInv'
  <2> DEFINE kinds == Became(fd, "udpbound")
             slot  == NewSlot(TargetPort, FALSE)
  <2>1. kinds \in [Fd -> Kinds]
    BY <1>k, KernelSteps
  <2> HIDE DEF kinds
  <2>2. init_done' = init_done /\ backlog' = backlog
    BY <1>5 DEF bind_udp
  <2>3. CASE kind' = kinds /\ UNCHANGED <<cache, phase, alias>>
    BY <2>1, <2>2, <2>3 DEF cache, KernelOK
  <2>4. CASE BindUdpFirst(fd, kinds)
    <3>1. CASE TableEnd /\ kind' = kinds /\ UNCHANGED <<cache, alias>>
      BY <1>end, <2>1, <2>2, <3>1 DEF cache, KernelOK
    <3>2. CASE /\ TableRoom
               /\ connections' = Append(connections, slot)
               /\ active_con_num' = Inc(active_con_num)
               /\ Ends("exited")
               /\ kind' = kinds
               /\ UNCHANGED alias
      BY <1>add, <1>k, <2>1, <2>2, <3>2 DEF KernelOK, Ends
    <3>3. ASSUME NEW c \in Free,
                 TableRoom,
                 kind' = [kinds EXCEPT ![c] = "client"],
                 alias' = [alias EXCEPT ![c] = {c}],
                 SetServerSocket(Append(connections, slot), TargetPort, fd),
                 active_con_num' = Inc(active_con_num)
          PROVE  IInv'
      <4>1. CountOK(connections', Inc(active_con_num)) /\ phase' \in Phases
        <5>1. CountOK(Append(connections, slot), Inc(active_con_num))
          BY <1>add, <3>3
        <5> HIDE DEF slot
        <5> QED  BY <3>3, <5>1, SetServerSocketStep
      <4>2. KernelOK'
        BY <1>k, <2>1, <2>2, <3>3 DEF KernelOK, Free
      <4> QED  BY <2>2, <3>3, <4>1, <4>2
    <3> QED  BY <2>4, <3>1, <3>2, <3>3 DEF BindUdpFirst
  <2> QED  BY <1>5, <2>3, <2>4 DEF bind_udp, kinds
<1>6. ASSUME NEW fd \in Fd, connect(fd)
      PROVE  IInv'
  <2> DEFINE slot == NewSlot(TargetPort, FALSE)
  <2>1. UNCHANGED init_done
    BY <1>6 DEF connect
  <2>2. CASE (Ends("released") \/ Ends("exited")) /\ UNCHANGED <<cache, kernel>>
    BY <1>k, <2>1, <2>2 DEF Ends, cache, kernel, KernelOK
  <2>3. ASSUME NEW srv \in Free, NEW new \in Free,
               kind' = [Became(fd, "conn") EXCEPT ![new] = "client", ![srv] = "listen"],
               alias' = [alias EXCEPT ![srv] = {srv}, ![new] = {new}],
               UNCHANGED backlog,
               \/ TableEnd /\ UNCHANGED cache
               \/ /\ TableRoom
                  /\ active_con_num' = Inc(active_con_num)
                  /\ SetServerSocket(Append(connections, slot), TargetPort, fd)
        PROVE  IInv'
    <3>1. KernelOK'
      <4>1. Became(fd, "conn") \in [Fd -> Kinds] /\ srv \in Fd /\ new \in Fd
        BY <1>k, KernelSteps DEF Free
      <4> QED  BY <1>k, <2>3, <4>1 DEF KernelOK
    <3>2. CASE TableEnd /\ UNCHANGED cache
      BY <1>end, <2>1, <3>1, <3>2 DEF cache
    <3>3. CASE /\ TableRoom
               /\ active_con_num' = Inc(active_con_num)
               /\ SetServerSocket(Append(connections, slot), TargetPort, fd)
      <4>1. CountOK(Append(connections, slot), Inc(active_con_num))
        BY <1>add, <3>3
      <4> HIDE DEF slot
      <4>2. CountOK(connections', Inc(active_con_num)) /\ phase' \in Phases
        BY <3>3, <4>1, SetServerSocketStep
      <4> QED  BY <2>1, <3>1, <3>3, <4>2
    <3> QED  BY <2>3, <3>2, <3>3
  <2> QED  BY <1>6, <2>2, <2>3 DEF connect
<1>7. ASSUME NEW fd \in Fd, dup(fd)
      PROVE  IInv'
  <2>1. PICK new \in Free :
           /\ Duplicated(fd, new)
           /\ \/ UNCHANGED <<connections, phase>>
              \/ SetServerSocket(connections, server_socket_to_port(connections, fd), new)
    BY <1>7 DEF dup
  <2>2. KernelOK'
    BY <2>1, KernelSteps DEF Free
  <2>3. CountOK(connections', active_con_num) /\ phase' \in Phases
    <3>1. CASE UNCHANGED <<connections, phase>>
      BY <3>1
    <3>2. CASE SetServerSocket(connections, server_socket_to_port(connections, fd), new)
      BY <3>2, SetServerSocketStep DEF Free
    <3> QED  BY <2>1, <3>1, <3>2
  <2> QED  BY <1>7, <2>2, <2>3 DEF dup
<1>8. ASSUME NEW fd \in Fd, NEW newfd \in Fd, dup2(fd, newfd)
      PROVE  IInv'
  <2> DEFINE T == disable_connection_by_server_socket(connections, newfd)
             n == ActiveAfterDisable(connections, active_con_num, newfd)
             port == server_socket_to_port(T, fd)
  <2>1. KernelOK' /\ init_done' = init_done
    BY <1>8, KernelSteps DEF dup2
  <2>2. CASE UNCHANGED <<cache, phase>>
    BY <2>1, <2>2 DEF cache
  <2>3. CASE active_con_num' = n /\ SetServerSocket(T, port, newfd)
    <3>1. CountOK(T, n)
      BY CountDisable
    <3> HIDE DEF T, n, port
    <3>2. CountOK(connections', n) /\ phase' \in Phases
      BY <2>3, <3>1, SetServerSocketStep
    <3> QED  BY <2>1, <2>3, <3>2
  <2> QED  BY <1>8, <2>2, <2>3 DEF dup2
<1>9. ASSUME NEW fd \in Fd, NEW newfd \in Fd, dup3(fd, newfd)
      PROVE  IInv'
  <2>1. KernelOK'
    BY <1>9, KernelSteps DEF dup3, kernel, KernelOK
  <2> QED  BY <1>9, <1>k, <2>1 DEF dup3, cache, Ends
<1>10. ASSUME NEW fd \in Fd, close(fd)
       PROVE  IInv'
  <2>1. KernelOK' /\ phase' \in Phases /\ init_done' = init_done
    BY <1>10, <1>k, KernelSteps DEF close, kernel, KernelOK, Ends
  <2>2. CASE UNCHANGED cache
    BY <2>1, <2>2 DEF cache
  <2>3. CASE /\ connections' = disable_connection_by_server_socket(connections, fd)
             /\ active_con_num' = ActiveAfterDisable(connections, active_con_num, fd)
    BY <2>1, <2>3, CountDisable
  <2> QED  BY <1>10, <2>2, <2>3 DEF close, cache
<1>11. ASSUME NEW fd \in Fd, read(fd)
       PROVE  IInv'
  BY <1>11, <1>k DEF read, cache, kernel, KernelOK, Ends
<1>12. ASSUME NEW fd \in Fd, unsupported(fd)
       PROVE  IInv'
  BY <1>12, <1>k DEF unsupported, cache, kernel, KernelOK, Ends
<1>13. CASE UNCHANGED vars
  BY <1>13 DEF vars, KernelOK
<1> QED  BY <1>1, <1>2, <1>3, <1>4, <1>5, <1>6, <1>7, <1>8, <1>9, <1>10, <1>11, <1>12, <1>13
         DEF Next, Call

\* An empty table has no connection.
LEMMA InductiveInit == Init => IInv
<1> SUFFICES ASSUME Init
             PROVE  IInv
  OBVIOUS
<1>1. Enabled(<<>>) = {} /\ Cardinality({}) = 0
  BY FS_EmptySet DEF Enabled
<1>2. 0 <= MAX_CONNECTIONS
  BY SocketCacheAssumption
<1>3. <<>> \in Seq(Slots) /\ Len(<<>>) = 0
  OBVIOUS
<1>4. CountOK(<<>>, 0)
  BY <1>1, <1>2, <1>3 DEF CountOK
<1> QED  BY <1>4 DEF Init, IInv, KernelOK, Kinds, Phases

\* Types: the table, the counter and the descriptors always have their types,
\* and the one-byte counter never wraps.
THEOREM TypeCorrect == Spec => []TypeOK
<1>1. IInv => TypeOK
  BY CountRange DEF IInv, TypeOK, CountOK, KernelOK
<1> QED  BY <1>1, InductiveInit, InductiveStep, PTL DEF Spec

\* The active-connection counter that decides when an execution ends is the
\* number of enabled connections, after any sequence of hooked calls.
THEOREM CounterCorrect == Spec => []ActiveCountExact
<1>1. IInv => ActiveCountExact
  BY DEF IInv, CountOK, ActiveCountExact
<1> QED  BY <1>1, InductiveInit, InductiveStep, PTL DEF Spec

----------------------------------------------------------------------------
\* Every call that leaves the execution running leaves it with a connection,
\* or with a table that was empty and stays so.
LEMMA NeverIdleStep == IInv /\ NeverIdle /\ [Next]_vars => NeverIdle'
<1> SUFFICES ASSUME IInv, NeverIdle, [Next]_vars, phase' = "run", connections' # <<>>
             PROVE  active_con_num' > 0
  BY DEF NeverIdle
<1>c. CountOK(connections, active_con_num) /\ phase \in Phases /\ active_con_num \in Nat
  BY CountRange DEF IInv
<1>n. NewSlot(TargetPort, FALSE) \in Slots /\ ~ NewSlot(TargetPort, FALSE).disabled
      /\ NewSlot(0, TRUE) \in Slots /\ ~ NewSlot(0, TRUE).disabled
  BY NewSlotType
<1>add. TableRoom =>
          /\ CountOK(Append(connections, NewSlot(TargetPort, FALSE)), Inc(active_con_num))
          /\ Inc(active_con_num) > 0
  <2> HAVE TableRoom
  <2>1. Len(connections) \in Nat /\ MAX_CONNECTIONS \in Nat
    BY CountRange, SocketCacheAssumption DEF IInv
  <2>2. Len(connections) < MAX_CONNECTIONS
    BY <2>1 DEF TableRoom, TableOverrun
  <2>3. /\ CountOK(Append(connections, NewSlot(TargetPort, FALSE)), Inc(active_con_num))
        /\ Enabled(Append(connections, NewSlot(TargetPort, FALSE))) # {}
    BY <1>c, <1>n, <2>2, CountAdd
  <2>4. Inc(active_con_num) > 0
    BY <2>3, CountRange
  <2> QED  BY <2>3, <2>4
<1>same. ASSUME UNCHANGED cache, phase = "run"
         PROVE  active_con_num' > 0
  BY <1>same DEF NeverIdle, cache
<1>end. TableEnd => FALSE
  BY DEF TableEnd, Ends
<1>1. ASSUME NEW fd \in Fd, NEW k \in Kinds, Open(fd, k)
      PROVE  active_con_num' > 0
  BY <1>1, <1>same DEF Open, cache
<1>2. ASSUME NEW fd \in Fd, NEW ok \in BOOLEAN, listen(fd, ok)
      PROVE  active_con_num' > 0
  BY <1>2, <1>same, <1>add, <1>end DEF listen, ListenFirst, cache, Ends
<1>3. ASSUME NEW fd \in Fd, accept4(fd)
      PROVE  active_con_num' > 0
  <2>1. PICK new \in Fd : SetServerSocket(connections, TargetPort, new)
    BY <1>3 DEF accept4, Free
  <2>2. active_con_num > 0
    BY <1>c, <2>1, SetServerSocketStep
  <2> QED  BY <1>3, <1>c, <2>2 DEF accept4
<1>4. ASSUME NEW fd \in Fd, NEW ok \in BOOLEAN, bind_can(fd, ok)
      PROVE  active_con_num' > 0
  <2>1. \/ /\ connection_exists_can(connections)
           /\ active_con_num' = active_con_num
        \/ TableRoom /\ active_con_num' = Inc(active_con_num)
    BY <1>4, <1>end DEF bind_can, Ends
  <2>2. connection_exists_can(connections) => active_con_num > 0
    <3>1. WithCan(connections) \subseteq Enabled(connections)
      BY DEF WithCan
    <3> QED  BY <1>c, <3>1, CountRange DEF connection_exists_can
  <2> QED  BY <1>c, <1>add, <2>1, <2>2
<1>5. ASSUME NEW fd \in Fd, bind_udp(fd)
      PROVE  active_con_num' > 0
  BY <1>5, <1>same, <1>add, <1>end DEF bind_udp, BindUdpFirst, cache, Ends
<1>6. ASSUME NEW fd \in Fd, connect(fd)
      PROVE  active_con_num' > 0
  BY <1>6, <1>add, <1>end DEF connect, Ends
<1>7. ASSUME NEW fd \in Fd, dup(fd)
      PROVE  active_con_num' > 0
  <2>1. CASE UNCHANGED connections
    BY <1>7, <2>1, <1>same DEF dup, cache
  <2>2. ASSUME NEW new \in Fd,
               SetServerSocket(connections, server_socket_to_port(connections, fd), new)
        PROVE  active_con_num' > 0
    <3>1. active_con_num > 0
      BY <1>c, <2>2, SetServerSocketStep
    <3> QED  BY <1>7, <1>c, <3>1 DEF dup
  <2> QED  BY <1>7, <2>1, <2>2 DEF dup, Free
<1>8. ASSUME NEW fd \in Fd, NEW newfd \in Fd, dup2(fd, newfd)
      PROVE  active_con_num' > 0
  <2> DEFINE T == disable_connection_by_server_socket(connections, newfd)
             n == ActiveAfterDisable(connections, active_con_num, newfd)
             port == server_socket_to_port(T, fd)
  <2>1. CASE UNCHANGED cache
    BY <1>8, <2>1, <1>same DEF dup2
  <2>2. CASE active_con_num' = n /\ SetServerSocket(T, port, newfd)
    <3>1. CountOK(T, n)
      BY <1>c, CountDisable
    <3> HIDE DEF T, n, port
    <3>2. n > 0
      BY <1>c, <2>2, <3>1, SetServerSocketStep, CountRange
    <3> QED  BY <2>2, <3>2
  <2> QED  BY <1>8, <2>1, <2>2 DEF dup2, cache
<1>9. ASSUME NEW fd \in Fd, NEW newfd \in Fd, dup3(fd, newfd)
      PROVE  active_con_num' > 0
  BY <1>9, <1>same DEF dup3, cache, Ends
<1>10. ASSUME NEW fd \in Fd, close(fd)
       PROVE  active_con_num' > 0
  <2>1. CASE UNCHANGED cache
    BY <1>10, <2>1, <1>same DEF close
  <2>2. CASE /\ active_con_num' = ActiveAfterDisable(connections, active_con_num, fd)
             /\ active_con_num' # 0
    <3>1. ActiveAfterDisable(connections, active_con_num, fd) \in Nat
      BY <1>c, CountDisable, CountRange
    <3>2. active_con_num' \in Nat /\ active_con_num' # 0
      BY <2>2, <3>1
    <3> QED  BY <3>2
  <2> QED  BY <1>10, <2>1, <2>2 DEF close, cache, Ends
<1>11. ASSUME NEW fd \in Fd, read(fd) \/ unsupported(fd)
       PROVE  active_con_num' > 0
  BY <1>11, <1>same DEF read, unsupported, cache, Ends
<1>12. CASE UNCHANGED vars
  BY <1>12, <1>same DEF vars, cache
<1> QED  BY <1>1, <1>2, <1>3, <1>4, <1>5, <1>6, <1>7, <1>8, <1>9, <1>10, <1>11, <1>12 DEF Next, Call

\* The target never runs on without a connection: whichever call disables the
\* last one, close or dup2, ends the execution or registers another.
THEOREM NeverIdleCorrect == Spec => []NeverIdle
<1>1. Init => NeverIdle
  BY DEF Init, NeverIdle
<1> QED  BY <1>1, InductiveInit, InductiveStep, NeverIdleStep, PTL DEF Spec

----------------------------------------------------------------------------
(***************************************************************************)
(* The cache and the kernel's descriptors.                                 *)
(***************************************************************************)

\* A list of sockets fits its array and names no descriptor twice.
Listed(s) == /\ Len(s) <= MaxSockets
             /\ \A k, l \in DOMAIN s : s[k] = s[l] => k = l

\* The enabled connections: CAN is the one without a port, and no port has two.
Clean(T) == /\ \A i \in Enabled(T) : /\ T[i].is_can <=> T[i].port = 0
                                     /\ Listed(T[i].sockets)
            /\ \A i, j \in Enabled(T) : T[i].port = T[j].port => i = j

\* A cached descriptor is, for the kernel, a socket of its connection.
Serves(T, kinds) == \A i \in Enabled(T) : \A fd \in Range(T[i].sockets) :
                        kinds[fd] = ServedKind(T[i])

\* In the builds that accept, every accepted connection is cached.
ServesAll(T, kinds) == build \in {"TCP", "CAN"} =>
    \A fd \in Fd : kinds[fd] = "conn" => server_socket_exists(T, fd)

\* Names of one open file are names of each other, and refer to the same thing.
Names(kinds, al) ==
    \A f \in Fd : /\ kinds[f] = "closed" => al[f] = {}
                  /\ kinds[f] # "closed" => f \in al[f]
                  /\ \A g \in al[f] : al[g] = al[f] /\ kinds[g] = kinds[f]

\* A UDP build has no TCP or CAN sockets: nothing listens there.
OnlyUdp(kinds) == build = "UDP" =>
    \A f \in Fd : kinds[f] \in {"closed", "file", "udp", "udpbound", "client"}

\* Cache and kernel agree.
Agree(T, kinds, al) == /\ Clean(T)
                       /\ Serves(T, kinds) /\ ServesAll(T, kinds)
                       /\ Names(kinds, al) /\ OnlyUdp(kinds)

\* While the target runs, cache and kernel agree.
CacheInv == phase = "run" => Agree(connections, kind, alias)

\* A descriptor is cached by a slot that is enabled.
LEMMA CachedBy ==
    ASSUME NEW T, NEW fd
    PROVE  server_socket_exists(T, fd) <=> \E i \in Enabled(T) : fd \in Range(T[i].sockets)
BY DEF server_socket_exists, WithSocket

\* No descriptor is in the lists of two connections.
LEMMA OneConnection ==
    ASSUME NEW T \in Seq(Slots), NEW kinds, NEW fd, Clean(T), Serves(T, kinds),
           NEW i \in WithSocket(T, fd), NEW j \in WithSocket(T, fd)
    PROVE  i = j
<1>1. /\ i \in Enabled(T) /\ j \in Enabled(T)
      /\ fd \in Range(T[i].sockets) /\ fd \in Range(T[j].sockets)
      /\ i \in DOMAIN T /\ j \in DOMAIN T
  BY DEF WithSocket, Enabled
<1>2. ServedKind(T[i]) = ServedKind(T[j])
  BY <1>1 DEF Serves
<1>3. T[i] \in Slots /\ T[j] \in Slots
  BY <1>1
<1>4. T[i].is_can <=> T[j].is_can
  BY <1>2, <1>3 DEF ServedKind, Slots
<1>5. T[i].port = T[j].port
  <2>1. T[i].port \in {0, TargetPort} /\ T[j].port \in {0, TargetPort}
    BY <1>3 DEF Slots
  <2> QED  BY <1>1, <1>4, <2>1 DEF Clean
<1> QED  BY <1>1, <1>5 DEF Clean

\* add_connection for a port that no enabled slot has: nothing is cached by it yet.
LEMMA NewSlotAgrees ==
    ASSUME NEW T \in Seq(Slots), NEW port \in {0, TargetPort}, NEW can \in BOOLEAN,
           can <=> port = 0, Clean(T), WithPort(T, port) = {}
    PROVE  LET A == Append(T, NewSlot(port, can))
           IN  /\ A \in Seq(Slots) /\ Clean(A) /\ WithPort(A, port) # {}
               /\ \A kinds : Serves(T, kinds) => Serves(A, kinds)
               /\ \A fd : server_socket_exists(A, fd) <=> server_socket_exists(T, fd)
<1> DEFINE s == NewSlot(port, can)
           A == Append(T, s)
           n == Len(T) + 1
<1>1. /\ s \in Slots /\ ~ s.disabled /\ s.sockets = <<>>
      /\ s.port = port /\ (s.is_can <=> can)
  BY NewSlotType DEF NewSlot
<1> HIDE DEF s
<1>2. /\ A \in Seq(Slots) /\ Len(A) = n /\ n \in Nat
      /\ A[n] = s /\ \A i \in 1..Len(T) : A[i] = T[i]
  BY <1>1, AppendProperties
<1>3. Enabled(A) = Enabled(T) \cup {n} /\ n \notin Enabled(T)
  BY <1>1, NewSlotCounts, EnabledIsFinite
<1> HIDE DEF A, n
<1>4. \A i \in Enabled(T) : A[i] = T[i]
  BY <1>2, EnabledIsFinite
<1>5. Range(s.sockets) = {} /\ Listed(s.sockets)
  BY <1>1, SocketCacheAssumption DEF Range, Listed
<1>6. Clean(A)
  <2>1. \A i \in Enabled(A) : (A[i].is_can <=> A[i].port = 0) /\ Listed(A[i].sockets)
    BY <1>1, <1>2, <1>3, <1>4, <1>5 DEF Clean
  <2>2. \A i \in Enabled(T) : A[i].port # port
    BY <1>4 DEF WithPort
  <2>3. \A i, j \in Enabled(A) : A[i].port = A[j].port => i = j
    BY <1>1, <1>2, <1>3, <1>4, <2>2 DEF Clean
  <2> QED  BY <2>1, <2>3 DEF Clean
<1>7. n \in WithPort(A, port)
  BY <1>1, <1>2, <1>3 DEF WithPort
<1>8. \A kinds : Serves(T, kinds) => Serves(A, kinds)
  BY <1>2, <1>3, <1>4, <1>5 DEF Serves
<1>9. \A fd : server_socket_exists(A, fd) <=> server_socket_exists(T, fd)
  BY <1>2, <1>3, <1>4, <1>5, CachedBy
<1> QED  BY <1>2, <1>6, <1>7, <1>8, <1>9 DEF A, s

\* add_server_socket where there is room: one more descriptor, once.
LEMMA AddedSocket ==
    ASSUME NEW s \in Slots, NEW fd \in Fd, Listed(s.sockets), HasRoom(s, fd)
    PROVE  LET a == add_server_socket(s, fd)
           IN  /\ a \in Slots /\ Listed(a.sockets)
               /\ Range(a.sockets) = Range(s.sockets) \cup {fd}
               /\ a.port = s.port /\ a.is_can = s.is_can /\ a.disabled = s.disabled
<1> DEFINE a == add_server_socket(s, fd)
           l == Append(s.sockets, fd)
<1>1. s.sockets \in Seq(Fd) /\ Len(s.sockets) \in Nat
  BY DEF Slots
<1>2. CASE fd \in Range(s.sockets)
  <2>1. a = s
    BY <1>2 DEF add_server_socket
  <2> QED  BY <1>2, <2>1
<1>3. CASE fd \notin Range(s.sockets)
  <2>1. /\ l \in Seq(Fd) /\ Len(l) = Len(s.sockets) + 1 /\ l[Len(s.sockets) + 1] = fd
        /\ \A k \in 1..Len(s.sockets) : l[k] = s.sockets[k]
    BY <1>1, AppendProperties
  <2>2. a = [s EXCEPT !.sockets = l]
    BY <1>3 DEF add_server_socket
  <2> HIDE DEF l
  <2>3. /\ a \in Slots /\ a.sockets = l
        /\ a.port = s.port /\ a.is_can = s.is_can /\ a.disabled = s.disabled
    BY <2>1, <2>2 DEF Slots
  <2>4. DOMAIN l = 1..Len(s.sockets) + 1 /\ DOMAIN s.sockets = 1..Len(s.sockets)
    BY <1>1, <2>1
  <2>5. Range(l) = Range(s.sockets) \cup {fd}
    BY <1>1, <2>1, <2>4 DEF Range
  <2>6. \A k \in DOMAIN s.sockets : s.sockets[k] # fd
    BY <1>3 DEF Range
  <2>7. Listed(l)
    <3>1. Len(s.sockets) < MaxSockets
      BY <1>3 DEF HasRoom
    <3>2. Len(l) <= MaxSockets
      BY <1>1, <2>1, <3>1, SocketCacheAssumption
    <3>3. \A k, m \in DOMAIN l : l[k] = l[m] => k = m
      BY <1>1, <2>1, <2>4, <2>6 DEF Listed
    <3> QED  BY <3>2, <3>3 DEF Listed
  <2> QED  BY <2>3, <2>5, <2>7
<1> QED  BY <1>2, <1>3

\* A descriptor that joins slot i is cached from then on, by slot i.
LEMMA JoinedAgrees ==
    ASSUME NEW T \in Seq(Slots), NEW i \in Enabled(T), NEW fd \in Fd, Clean(T),
           HasRoom(T[i], fd)
    PROVE  LET J == Joined(T, i, fd)
           IN  /\ J \in Seq(Slots) /\ Clean(J)
               /\ \A kinds : Serves(T, kinds) /\ kinds[fd] = ServedKind(T[i]) => Serves(J, kinds)
               /\ \A g : server_socket_exists(J, g) <=> server_socket_exists(T, g) \/ g = fd
<1> DEFINE J == Joined(T, i, fd)
           a == add_server_socket(T[i], fd)
<1>1. i \in DOMAIN T /\ T[i] \in Slots /\ ~ T[i].disabled /\ Listed(T[i].sockets)
  BY DEF Enabled, Clean
<1>2. /\ a \in Slots /\ Listed(a.sockets)
      /\ Range(a.sockets) = Range(T[i].sockets) \cup {fd}
      /\ a.port = T[i].port /\ a.is_can = T[i].is_can /\ a.disabled = T[i].disabled
  BY <1>1, AddedSocket
<1> HIDE DEF a
<1>3. J = [T EXCEPT ![i] = a]
  BY DEF Joined, a
<1>4. J \in Seq(Slots) /\ Enabled(J) = Enabled(T)
  <2>1. ~ a.disabled
    BY <1>1, <1>2
  <2>2. a \in Slots
    BY <1>2
  <2>3. [T EXCEPT ![i] = a] \in Seq(Slots) /\ Enabled([T EXCEPT ![i] = a]) = Enabled(T)
    BY <2>1, <2>2, UpdatedSlotCounts
  <2> QED  BY <1>3, <2>3
<1>5. \A j \in DOMAIN T : J[j] = IF j = i THEN a ELSE T[j]
  BY <1>3
<1>6. Enabled(T) \subseteq DOMAIN T
  BY DEF Enabled
<1> HIDE DEF J
<1>7. \A j \in Enabled(T) : J[j].port = T[j].port /\ J[j].is_can = T[j].is_can
  BY <1>2, <1>5, <1>6
<1>8. Clean(J)
  <2>1. \A j \in Enabled(J) : Listed(J[j].sockets)
    BY <1>2, <1>4, <1>5, <1>6 DEF Clean
  <2> QED  BY <1>4, <1>7, <2>1 DEF Clean
<1>9. \A j \in Enabled(T) : ServedKind(J[j]) = ServedKind(T[j])
  BY <1>7 DEF ServedKind
<1>10. ASSUME NEW kinds, Serves(T, kinds), kinds[fd] = ServedKind(T[i])
       PROVE  Serves(J, kinds)
  <2> SUFFICES ASSUME NEW j \in Enabled(T), NEW g \in Range(J[j].sockets)
               PROVE  kinds[g] = ServedKind(T[j])
    BY <1>4, <1>9 DEF Serves
  <2> QED  BY <1>2, <1>5, <1>6, <1>10 DEF Serves
<1>11. \A g : server_socket_exists(J, g) <=> server_socket_exists(T, g) \/ g = fd
  BY <1>2, <1>4, <1>5, <1>6, CachedBy
<1> QED  BY <1>4, <1>8, <1>10, <1>11 DEF J

\* close_server_socket takes exactly the closed descriptor out of the list.
LEMMA ClosedSocket ==
    ASSUME NEW s \in Slots, NEW fd \in Range(s.sockets), Listed(s.sockets)
    PROVE  LET c == close_server_socket(s, fd)
           IN  /\ c \in Slots /\ Listed(c.sockets)
               /\ Range(c.sockets) = Range(s.sockets) \ {fd}
               /\ c.port = s.port /\ c.is_can = s.is_can
<1> DEFINE c   == close_server_socket(s, fd)
           n   == Len(s.sockets)
           at  == First({i \in DOMAIN s.sockets : s.sockets[i] = fd})
           new == [i \in 1..(n - 1) |-> IF i < at THEN s.sockets[i] ELSE s.sockets[i + 1]]
<1>1. s.sockets \in Seq(Fd) /\ n \in Nat /\ DOMAIN s.sockets = 1..n
  BY DEF Slots
<1>2. PICK k \in 1..n : s.sockets[k] = fd
  BY <1>1 DEF Range
<1>3. {i \in DOMAIN s.sockets : s.sockets[i] = fd} = {k}
  BY <1>1, <1>2 DEF Listed
<1>4. at = k
  <2>1. {k} \in SUBSET Nat /\ IsFiniteSet({k}) /\ {k} # {}
    <3>1. k \in Nat
      BY <1>1, <1>2
    <3> QED  BY <3>1, FS_Singleton
  <2> QED  BY <1>3, <2>1, FirstIsLeast
<1>5. c = [s EXCEPT !.sockets = new] /\ c \in Slots /\ Len(c.sockets) = n - 1
  BY ClosedSocketType DEF close_server_socket
<1>6. new = [i \in 1..(n - 1) |-> IF i < k THEN s.sockets[i] ELSE s.sockets[i + 1]]
  BY <1>4
<1> HIDE DEF new, c, at
<1>7. c.sockets = new /\ c.port = s.port /\ c.is_can = s.is_can
  BY <1>5 DEF Slots
<1>8. DOMAIN new = 1..(n - 1)
  BY <1>6
<1>9. \A i \in 1..(n - 1) : new[i] = IF i < k THEN s.sockets[i] ELSE s.sockets[i + 1]
  BY <1>6
<1> HIDE DEF n
<1>10. Listed(new)
  <2>1. Len(new) <= MaxSockets
    <3>1. n <= MaxSockets
      BY DEF Listed, n
    <3>2. MaxSockets \in Nat
      BY SocketCacheAssumption
    <3>3. Len(new) = n - 1
      BY <1>5, <1>7
    <3> QED  BY <1>1, <3>1, <3>2, <3>3
  <2>2. \A i, j \in 1..n : s.sockets[i] = s.sockets[j] => i = j
    BY <1>1 DEF Listed
  <2>3. ASSUME NEW i \in 1..(n - 1), NEW j \in 1..(n - 1), new[i] = new[j]
        PROVE  i = j
    <3> DEFINE old(x) == IF x < k THEN x ELSE x + 1
    <3>1. old(i) \in 1..n /\ old(j) \in 1..n /\ (old(i) = old(j) => i = j)
      BY <1>1, <1>2
    <3>2. new[i] = s.sockets[old(i)] /\ new[j] = s.sockets[old(j)]
      BY <1>9
    <3> HIDE DEF old
    <3> QED  BY <2>2, <2>3, <3>1, <3>2
  <2> QED  BY <1>8, <2>1, <2>3 DEF Listed
<1>11. Range(new) = Range(s.sockets) \ {fd}
  <2>1. \A i \in 1..n : s.sockets[i] = fd => i = k
    BY <1>1, <1>2 DEF Listed
  <2>2. ASSUME NEW g \in Range(new)
        PROVE  g \in Range(s.sockets) \ {fd}
    <3>1. PICK i \in 1..(n - 1) : new[i] = g
      BY <1>8, <2>2 DEF Range
    <3>2. CASE i < k
      <4>1. i \in 1..n /\ i # k /\ s.sockets[i] = g
        BY <1>1, <1>2, <1>9, <3>1, <3>2
      <4> QED  BY <1>1, <2>1, <4>1 DEF Range
    <3>3. CASE ~ (i < k)
      <4>1. i + 1 \in 1..n /\ i + 1 # k /\ s.sockets[i + 1] = g
        BY <1>1, <1>2, <1>9, <3>1, <3>3
      <4> QED  BY <1>1, <2>1, <4>1 DEF Range
    <3> QED  BY <3>2, <3>3
  <2>3. ASSUME NEW g \in Range(s.sockets), g # fd
        PROVE  g \in Range(new)
    <3>1. PICK i \in 1..n : s.sockets[i] = g /\ i # k
      BY <1>1, <1>2, <2>3 DEF Range
    <3>2. CASE i < k
      <4>1. i \in 1..(n - 1) /\ new[i] = g
        BY <1>1, <1>2, <1>9, <3>1, <3>2
      <4> QED  BY <1>8, <4>1 DEF Range
    <3>3. CASE ~ (i < k)
      <4>1. i - 1 \in 1..(n - 1) /\ ~ (i - 1 < k) /\ (i - 1) + 1 = i
        BY <1>1, <1>2, <3>1, <3>3
      <4>2. new[i - 1] = g
        BY <1>9, <3>1, <4>1
      <4> QED  BY <1>8, <4>1, <4>2 DEF Range
    <3> QED  BY <3>2, <3>3
  <2> QED  BY <2>2, <2>3
<1> QED  BY <1>5, <1>7, <1>10, <1>11 DEF c

\* The descriptors of an enabled slot.
LEMMA SocketsAreFds ==
    ASSUME NEW T \in Seq(Slots), NEW i \in Enabled(T)
    PROVE  Range(T[i].sockets) \subseteq Fd
<1>1. T[i] \in Slots
  BY DEF Enabled
<1>2. T[i].sockets \in Seq(Fd)
  BY <1>1 DEF Slots
<1> QED  BY <1>2 DEF Range

\* disable_connection_by_server_socket takes fd out of the cache and nothing else,
\* as long as one connection at most has it.
LEMMA DisabledAgrees ==
    ASSUME NEW T \in Seq(Slots), NEW kinds, NEW fd, Clean(T), Serves(T, kinds)
    PROVE  LET D == disable_connection_by_server_socket(T, fd)
           IN  /\ D \in Seq(Slots) /\ Clean(D)
               /\ \A new : (\A g \in Fd : g # fd => new[g] = kinds[g]) => Serves(D, new)
               /\ \A g : server_socket_exists(D, g) <=> server_socket_exists(T, g) /\ g # fd
<1> DEFINE D == disable_connection_by_server_socket(T, fd)
           E == Emptied(T, fd)
           W == WithSocket(T, fd)
           last == IF E = {} THEN Len(T) ELSE First(E)
           shut(i) == [close_server_socket(T[i], fd) EXCEPT !.disabled = i \in E]
<1>1. /\ Len(T) \in Nat /\ DOMAIN T = 1..Len(T)
      /\ E \subseteq W /\ W \subseteq Enabled(T) /\ Enabled(T) \subseteq 1..Len(T)
  BY DEF Emptied, WithSocket, Enabled
<1>2. \A i, j \in W : i = j
  BY OneConnection
<1>3. \A i \in W : i <= last
  <2>1. CASE E = {}
    BY <1>1, <2>1
  <2>2. CASE E # {}
    <3>1. E \in SUBSET Nat /\ IsFiniteSet(E)
      BY <1>1, EnabledIsFinite, FS_Subset
    <3>2. First(E) \in E
      BY <2>2, <3>1, FirstIsLeast
    <3>3. last = First(E) /\ last \in W
      BY <1>1, <2>2, <3>2
    <3> HIDE DEF last, E, W
    <3> QED  BY <1>1, <1>2, <3>3
  <2> QED  BY <2>1, <2>2
<1>4. D = [i \in 1..Len(T) |-> IF i \in W /\ i <= last THEN shut(i) ELSE T[i]]
  BY <1>1 DEF disable_connection_by_server_socket
<1>5. ASSUME NEW i \in W
      PROVE  /\ shut(i).port = T[i].port /\ shut(i).is_can = T[i].is_can
             /\ Listed(shut(i).sockets) /\ Range(shut(i).sockets) = Range(T[i].sockets) \ {fd}
             /\ shut(i).disabled <=> i \in E
  <2> DEFINE c == close_server_socket(T[i], fd)
  <2>1. T[i] \in Slots /\ fd \in Range(T[i].sockets) /\ Listed(T[i].sockets)
    BY <1>1 DEF WithSocket, Clean
  <2>2. /\ c \in Slots /\ Listed(c.sockets)
        /\ Range(c.sockets) = Range(T[i].sockets) \ {fd}
        /\ c.port = T[i].port /\ c.is_can = T[i].is_can
    BY <2>1, ClosedSocket
  <2> HIDE DEF c
  <2>3. \A b \in BOOLEAN : LET d == [c EXCEPT !.disabled = b]
                           IN  /\ d.sockets = c.sockets /\ d.port = c.port
                               /\ d.is_can = c.is_can /\ d.disabled = b
    BY <2>2 DEF Slots
  <2>4. (i \in E) \in BOOLEAN
    OBVIOUS
  <2> QED  BY <2>2, <2>3, <2>4 DEF c
<1>6. ASSUME NEW i \in E
      PROVE  Range(T[i].sockets) \subseteq {fd}
  <2>1. i \in W /\ Len(T[i].sockets) = 1
    BY DEF Emptied
  <2>2. T[i] \in Slots /\ fd \in Range(T[i].sockets)
    BY <1>1, <2>1 DEF WithSocket
  <2>3. T[i].sockets \in Seq(Fd) /\ DOMAIN T[i].sockets = 1..1
    BY <2>1, <2>2 DEF Slots
  <2> QED  BY <2>2, <2>3 DEF Range
<1> HIDE DEF D, E, W, last, shut
<1>7. D \in Seq(Slots) /\ Len(D) = Len(T)
  BY DisabledTable DEF D
<1>8. \A i \in 1..Len(T) : D[i] = IF i \in W THEN shut(i) ELSE T[i]
  BY <1>3, <1>4
<1>9. Enabled(D) = Enabled(T) \ E
  <2>1. DOMAIN D = 1..Len(T)
    BY <1>1, <1>4
  <2>2. \A i \in 1..Len(T) : ~ D[i].disabled <=> (~ T[i].disabled /\ i \notin E)
    <3> SUFFICES ASSUME NEW i \in 1..Len(T)
                 PROVE  ~ D[i].disabled <=> (~ T[i].disabled /\ i \notin E)
      OBVIOUS
    <3>1. i \in W => ~ T[i].disabled
      BY <1>1 DEF Enabled
    <3>2. i \notin W => i \notin E
      BY <1>1
    <3> QED  BY <1>5, <1>8, <3>1, <3>2
  <2> QED  BY <1>1, <2>1, <2>2 DEF Enabled
<1>10. ASSUME NEW i \in Enabled(T)
       PROVE  /\ D[i].port = T[i].port /\ D[i].is_can = T[i].is_can
              /\ Listed(D[i].sockets) /\ Range(D[i].sockets) = Range(T[i].sockets) \ {fd}
  <2>1. i \in 1..Len(T) /\ i \in DOMAIN T /\ Listed(T[i].sockets)
    BY <1>1 DEF Clean
  <2>2. CASE i \in W
    <3>1. D[i] = shut(i)
      BY <1>8, <2>1, <2>2
    <3> QED  BY <1>5, <2>2, <3>1
  <2>3. CASE i \notin W
    <3>1. fd \notin Range(T[i].sockets) /\ D[i] = T[i]
      BY <1>8, <2>1, <2>3 DEF W, WithSocket
    <3> QED  BY <2>1, <3>1
  <2> QED  BY <2>2, <2>3
<1>11. Clean(D)
  BY <1>9, <1>10 DEF Clean
<1>12. ASSUME NEW new, \A g \in Fd : g # fd => new[g] = kinds[g]
       PROVE  Serves(D, new)
  <2> SUFFICES ASSUME NEW i \in Enabled(D), NEW g \in Range(D[i].sockets)
               PROVE  new[g] = ServedKind(D[i])
    BY DEF Serves
  <2>1. i \in Enabled(T) /\ g \in Range(T[i].sockets) /\ g # fd
    BY <1>9, <1>10
  <2>2. ServedKind(D[i]) = ServedKind(T[i])
    BY <1>10, <2>1 DEF ServedKind
  <2>3. g \in Fd
    BY <2>1, SocketsAreFds
  <2> QED  BY <1>12, <2>1, <2>2, <2>3 DEF Serves
<1>13. ASSUME NEW g
       PROVE  server_socket_exists(D, g) <=> server_socket_exists(T, g) /\ g # fd
  <2>1. \A i \in Enabled(T) : i \notin E => i \in Enabled(D)
    BY <1>9
  <2>2. \A i \in Enabled(D) : i \in Enabled(T)
    BY <1>9
  <2> QED  BY <1>6, <1>10, <2>1, <2>2, CachedBy
<1> QED  BY <1>7, <1>11, <1>12, <1>13 DEF D

----------------------------------------------------------------------------
\* What an unconnected descriptor refers to may change: the cache goes on to serve
\* what it served.
LEMMA ServesStill ==
    ASSUME NEW T \in Seq(Slots), NEW kinds, NEW new, Serves(T, kinds),
           \A g \in Fd : kinds[g] \in {"conn", "canbound", "udpbound"} => new[g] = kinds[g]
    PROVE  Serves(T, new)
<1> SUFFICES ASSUME NEW i \in Enabled(T), NEW g \in Range(T[i].sockets)
             PROVE  new[g] = ServedKind(T[i])
  BY DEF Serves
<1>1. g \in Fd /\ kinds[g] = ServedKind(T[i])
  BY SocketsAreFds DEF Serves
<1>2. ServedKind(T[i]) \in {"conn", "canbound", "udpbound"}
  BY DEF ServedKind
<1> QED  BY <1>1, <1>2

\* A descriptor the kernel does not have is in no list and is no other's name.
LEMMA ClosedIsUnused ==
    ASSUME NEW kinds, NEW al \in [Fd -> SUBSET Fd], Names(kinds, al),
           NEW c \in Fd, kinds[c] = "closed"
    PROVE  /\ al[c] = {}
           /\ \A f \in Fd : c \notin al[f]
           /\ \A T \in Seq(Slots) : Serves(T, kinds) => ~ server_socket_exists(T, c)
<1>1. al[c] = {}
  BY DEF Names
<1>2. \A f \in Fd : c \notin al[f]
  BY <1>1 DEF Names
<1>3. ASSUME NEW T \in Seq(Slots), Serves(T, kinds), server_socket_exists(T, c)
      PROVE  FALSE
  <2>1. PICK i \in Enabled(T) : c \in Range(T[i].sockets)
    BY <1>3, CachedBy
  <2>2. kinds[c] = ServedKind(T[i])
    BY <1>3, <2>1 DEF Serves
  <2> QED  BY <2>2 DEF ServedKind
<1> QED  BY <1>1, <1>2, <1>3

\* A new descriptor is a name of its own.
LEMMA OpenedNames ==
    ASSUME NEW kinds \in [Fd -> Kinds], NEW al \in [Fd -> SUBSET Fd], Names(kinds, al),
           NEW c \in Fd, kinds[c] = "closed", NEW k \in Kinds, k # "closed"
    PROVE  Names([kinds EXCEPT ![c] = k], [al EXCEPT ![c] = {c}])
<1>1. al[c] = {} /\ \A f \in Fd : c \notin al[f]
  BY ClosedIsUnused
<1> DEFINE nk == [kinds EXCEPT ![c] = k]
           na == [al EXCEPT ![c] = {c}]
<1>2. \A f \in Fd : nk[f] = (IF f = c THEN k ELSE kinds[f])
                    /\ na[f] = (IF f = c THEN {c} ELSE al[f])
  OBVIOUS
<1> HIDE DEF nk, na
<1>3. ASSUME NEW f \in Fd
      PROVE  /\ nk[f] = "closed" => na[f] = {}
             /\ nk[f] # "closed" => f \in na[f]
             /\ \A g \in na[f] : na[g] = na[f] /\ nk[g] = nk[f]
  <2>1. CASE f = c
    BY <1>2, <2>1
  <2>2. CASE f # c
    <3>1. nk[f] = kinds[f] /\ na[f] = al[f] /\ al[f] \subseteq Fd /\ c \notin al[f]
      BY <1>1, <1>2, <2>2
    <3>2. \A g \in al[f] : g \in Fd /\ g # c /\ na[g] = al[g] /\ nk[g] = kinds[g]
      BY <1>2, <3>1
    <3> QED  BY <3>1, <3>2 DEF Names
  <2> QED  BY <2>1, <2>2
<1> QED  BY <1>3 DEF Names, nk, na

\* bind, listen and connect change all names of the open file.
LEMMA BecameNames ==
    ASSUME KernelOK, Names(kind, alias), NEW fd \in Fd, NEW k \in Kinds,
           kind[fd] # "closed", k # "closed"
    PROVE  /\ Became(fd, k) \in [Fd -> Kinds]
           /\ Became(fd, k)[fd] = k
           /\ Names(Became(fd, k), alias)
           /\ \A g \in Fd : \/ Became(fd, k)[g] = kind[g]
                            \/ kind[g] = kind[fd] /\ Became(fd, k)[g] = k
           /\ \A g \in Fd : kind[g] = "closed" => Became(fd, k)[g] = "closed"
<1> DEFINE b == Became(fd, k)
<1>1. b \in [Fd -> Kinds] /\ \A f \in Fd : b[f] = IF f \in alias[fd] THEN k ELSE kind[f]
  BY DEF Became, KernelOK
<1> HIDE DEF b
<1>2. /\ fd \in alias[fd] /\ alias[fd] \subseteq Fd
      /\ \A g \in alias[fd] : kind[g] = kind[fd] /\ alias[g] = alias[fd]
  BY DEF Names, KernelOK
<1>3. ASSUME NEW f \in Fd
      PROVE  /\ b[f] = "closed" => alias[f] = {}
             /\ b[f] # "closed" => f \in alias[f]
             /\ \A g \in alias[f] : alias[g] = alias[f] /\ b[g] = b[f]
  <2>1. alias[f] \subseteq Fd
    BY DEF KernelOK
  <2>2. \A g \in alias[f] : alias[g] = alias[f] /\ kind[g] = kind[f]
    BY DEF Names
  <2>3. f \in alias[fd] => f \in alias[f]
    BY <1>2
  <2>4. \A g \in alias[f] : g \in alias[fd] <=> f \in alias[fd]
    <3> SUFFICES ASSUME NEW g \in alias[f]
                 PROVE  g \in alias[fd] <=> f \in alias[fd]
      OBVIOUS
    <3>1. alias[g] = alias[f] /\ g \in alias[g]
      BY <2>2
    <3>2. f \in alias[f]
      <4>1. kind[f] # "closed"
        BY <2>2 DEF Names
      <4> QED  BY <4>1 DEF Names
    <3> QED  BY <1>2, <3>1, <3>2
  <2> QED  BY <1>1, <1>2, <2>1, <2>2, <2>3, <2>4 DEF Names
<1>4. b[fd] = k
  BY <1>1, <1>2
<1>5. Names(b, alias)
  BY <1>3 DEF Names
<1>6. \A g \in Fd : b[g] = kind[g] \/ (kind[g] = kind[fd] /\ b[g] = k)
  BY <1>1, <1>2
<1>7. \A g \in Fd : kind[g] = "closed" => b[g] = "closed"
  BY <1>1, <1>2
<1> QED  BY <1>1, <1>4, <1>5, <1>6, <1>7 DEF b

\* close takes one name away.
LEMMA ClosedNames ==
    ASSUME KernelOK, Names(kind, alias), NEW fd \in Fd, Closed(fd)
    PROVE  /\ Names(kind', alias')
           /\ \A g \in Fd : kind'[g] = IF g = fd THEN "closed" ELSE kind[g]
<1>1. \A g \in Fd : /\ kind'[g] = IF g = fd THEN "closed" ELSE kind[g]
                    /\ alias'[g] = IF g = fd THEN {} ELSE alias[g] \ {fd}
  BY DEF Closed, KernelOK
<1>2. ASSUME NEW f \in Fd
      PROVE  /\ kind'[f] = "closed" => alias'[f] = {}
             /\ kind'[f] # "closed" => f \in alias'[f]
             /\ \A g \in alias'[f] : alias'[g] = alias'[f] /\ kind'[g] = kind'[f]
  <2>1. CASE f = fd
    BY <1>1, <2>1
  <2>2. CASE f # fd
    <3>1. kind'[f] = kind[f] /\ alias'[f] = alias[f] \ {fd} /\ alias[f] \subseteq Fd
      BY <1>1, <2>2 DEF KernelOK
    <3>2. \A g \in alias[f] : alias[g] = alias[f] /\ kind[g] = kind[f]
      BY DEF Names
    <3>3. \A g \in alias'[f] : /\ g \in alias[f] /\ g \in Fd /\ g # fd
                               /\ alias'[g] = alias[g] \ {fd} /\ kind'[g] = kind[g]
      BY <1>1, <3>1
    <3> QED  BY <2>2, <3>1, <3>2, <3>3 DEF Names
  <2> QED  BY <2>1, <2>2
<1> QED  BY <1>1, <1>2 DEF Names

\* dup takes a name from one open file and gives it to another.
LEMMA DuplicatedNames ==
    ASSUME KernelOK, Names(kind, alias), NEW fd \in Fd, NEW new \in Fd, fd # new,
           kind[fd] # "closed", Duplicated(fd, new)
    PROVE  /\ Names(kind', alias')
           /\ \A g \in Fd : kind'[g] = IF g = new THEN kind[fd] ELSE kind[g]
<1> DEFINE group == alias[fd] \cup {new}
<1>1. \A g \in Fd : /\ kind'[g] = IF g = new THEN kind[fd] ELSE kind[g]
                    /\ alias'[g] = IF g \in group THEN group ELSE alias[g] \ {new}
  BY DEF Duplicated, KernelOK
<1>2. /\ fd \in alias[fd] /\ alias[fd] \subseteq Fd /\ group \subseteq Fd
      /\ \A g \in alias[fd] : kind[g] = kind[fd] /\ alias[g] = alias[fd]
  BY DEF Names, KernelOK
<1>3. new \in group /\ fd \in group
  BY <1>2
<1>4. \A g \in group : kind'[g] = kind[fd]
  BY <1>1, <1>2
<1>5. \A g \in Fd : g \in alias[fd] => g \in group
  OBVIOUS
<1>6. \A g \in group : g = new \/ g \in alias[fd]
  OBVIOUS
<1> HIDE DEF group
<1>7. ASSUME NEW f \in Fd
      PROVE  /\ kind'[f] = "closed" => alias'[f] = {}
             /\ kind'[f] # "closed" => f \in alias'[f]
             /\ \A g \in alias'[f] : alias'[g] = alias'[f] /\ kind'[g] = kind'[f]
  <2>1. CASE f \in group
    BY <1>1, <1>2, <1>4, <2>1
  <2>2. CASE f \notin group
    <3>1. f # new /\ kind'[f] = kind[f] /\ alias'[f] = alias[f] \ {new} /\ alias[f] \subseteq Fd
      BY <1>1, <1>3, <2>2 DEF KernelOK
    <3>2. \A g \in alias[f] : alias[g] = alias[f] /\ kind[g] = kind[f]
      BY DEF Names
    <3>3. ASSUME NEW g \in alias[f], g # new
          PROVE  g \notin group
      <4>1. alias[f] # {} /\ kind[f] # "closed" /\ f \in alias[f]
        BY DEF Names
      <4> QED  BY <1>2, <1>5, <1>6, <2>2, <3>2, <3>3, <4>1
    <3>4. \A g \in alias'[f] : /\ g \in alias[f] /\ g \in Fd /\ g # new
                               /\ alias'[g] = alias[g] \ {new} /\ kind'[g] = kind[g]
      BY <1>1, <3>1, <3>3
    <3> QED  BY <3>1, <3>2, <3>4 DEF Names
  <2> QED  BY <2>1, <2>2
<1> QED  BY <1>1, <1>7 DEF Names

\* The first of some enabled slots is one of them.
LEMMA FirstOfEnabled ==
    ASSUME NEW T \in Seq(Slots), NEW S \in SUBSET Enabled(T), S # {}
    PROVE  First(S) \in S /\ First(S) \in Enabled(T)
<1>1. S \in SUBSET Nat /\ IsFiniteSet(S)
  <2>1. IsFiniteSet(Enabled(T)) /\ Enabled(T) \subseteq 1..Len(T) /\ Len(T) \in Nat
    BY EnabledIsFinite
  <2> QED  BY <2>1, FS_Subset
<1> QED  BY <1>1, FirstIsLeast

\* An unconnected descriptor is opened.
LEMMA OpenedAgrees ==
    ASSUME NEW T \in Seq(Slots), NEW kinds \in [Fd -> Kinds], NEW al \in [Fd -> SUBSET Fd],
           Agree(T, kinds, al), NEW c \in Fd, kinds[c] = "closed",
           NEW k \in Kinds \ {"closed", "conn"},
           build = "UDP" => k \in {"file", "udp", "client"}
    PROVE  Agree(T, [kinds EXCEPT ![c] = k], [al EXCEPT ![c] = {c}])
<1> DEFINE nk == [kinds EXCEPT ![c] = k]
           na == [al EXCEPT ![c] = {c}]
<1>1. \A g \in Fd : nk[g] = IF g = c THEN k ELSE kinds[g]
  OBVIOUS
<1>2. Names(nk, na)
  BY OpenedNames DEF Agree
<1> HIDE DEF nk, na
<1>3. Serves(T, nk)
  BY <1>1, ServesStill DEF Agree
<1>4. ServesAll(T, nk)
  BY <1>1 DEF Agree, ServesAll
<1>5. OnlyUdp(nk)
  BY <1>1 DEF Agree, OnlyUdp
<1> QED  BY <1>2, <1>3, <1>4, <1>5 DEF Agree, nk, na

\* An open file becomes something else under all its names.
LEMMA BecameAgrees ==
    ASSUME NEW T \in Seq(Slots), KernelOK, Agree(T, kind, alias), NEW fd \in Fd,
           kind[fd] \in {"tcp", "listen", "can", "canbound", "udp"},
           NEW k \in {"listen", "canbound", "udpbound", "conn"},
           kind[fd] = "canbound" => k = "canbound",
           k = "conn" => build = "CLIENT",
           build = "UDP" => k = "udpbound"
    PROVE  /\ Agree(T, Became(fd, k), alias)
           /\ Became(fd, k) \in [Fd -> Kinds] /\ Became(fd, k)[fd] = k
           /\ \A g \in Fd : kind[g] = "closed" => Became(fd, k)[g] = "closed"
<1> DEFINE b == Became(fd, k)
<1>1. /\ b \in [Fd -> Kinds] /\ b[fd] = k /\ Names(b, alias)
      /\ \A g \in Fd : b[g] = kind[g] \/ (kind[g] = kind[fd] /\ b[g] = k)
      /\ \A g \in Fd : kind[g] = "closed" => b[g] = "closed"
  <2>1. k \in Kinds /\ k # "closed" /\ kind[fd] # "closed"
    BY DEF Kinds
  <2> QED  BY <2>1, BecameNames DEF Agree
<1> HIDE DEF b
<1>2. Serves(T, b)
  BY <1>1, ServesStill DEF Agree
<1>3. ServesAll(T, b)
  BY <1>1 DEF Agree, ServesAll
<1>4. OnlyUdp(b)
  BY <1>1 DEF Agree, OnlyUdp
<1> QED  BY <1>1, <1>2, <1>3, <1>4 DEF Agree, b

\* A connection is added for a port without one.
LEMMA NewConnectionAgrees ==
    ASSUME NEW T \in Seq(Slots), NEW kinds, NEW al, Agree(T, kinds, al),
           NEW port \in {0, TargetPort}, NEW can \in BOOLEAN, can <=> port = 0,
           WithPort(T, port) = {}
    PROVE  LET A == Append(T, NewSlot(port, can))
           IN  A \in Seq(Slots) /\ Agree(A, kinds, al) /\ WithPort(A, port) # {}
<1> DEFINE A == Append(T, NewSlot(port, can))
<1>1. /\ A \in Seq(Slots) /\ Clean(A) /\ WithPort(A, port) # {}
      /\ Serves(T, kinds) => Serves(A, kinds)
      /\ \A fd : server_socket_exists(A, fd) <=> server_socket_exists(T, fd)
  BY NewSlotAgrees DEF Agree
<1> HIDE DEF A
<1> QED  BY <1>1 DEF Agree, ServesAll, A

\* What the kernel says of a descriptor in the list of a connection with a port.
LEMMA PortKind ==
    ASSUME NEW T \in Seq(Slots), Clean(T), NEW i \in WithPort(T, TargetPort)
    PROVE  ServedKind(T[i]) = IF build = "UDP" THEN "udpbound" ELSE "conn"
<1>1. i \in Enabled(T) /\ T[i].port = TargetPort /\ TargetPort # 0
  BY SocketCacheAssumption DEF WithPort
<1>2. ~ T[i].is_can
  BY <1>1 DEF Clean
<1> QED  BY <1>2 DEF ServedKind

\* A hook registers fd: cache and kernel agree again, if fd was the one missing.
LEMMA RegisteredAgrees ==
    ASSUME NEW STATE T, NEW STATE port, NEW fd \in Fd, T \in Seq(Slots), Clean(T),
           Serves(T, kind'), Names(kind', alias'), OnlyUdp(kind'),
           build \in {"TCP", "CAN"} => \A g \in Fd :
               kind'[g] = "conn" => server_socket_exists(T, g) \/ g = fd,
           \A i \in WithPort(T, port) : kind'[fd] = ServedKind(T[i]),
           SetServerSocket(T, port, fd), phase' = "run"
    PROVE  Agree(connections', kind', alias')
<1> DEFINE i == First(WithPort(T, port))
<1>1. /\ WithPort(T, port) # {} /\ HasRoom(T[i], fd)
      /\ connections' = Joined(T, i, fd)
  BY DEF SetServerSocket, Ends, set_server_socket_to_connection
<1>2. i \in WithPort(T, port) /\ i \in Enabled(T)
  <2>1. WithPort(T, port) \in SUBSET Enabled(T)
    BY DEF WithPort
  <2> QED  BY <1>1, <2>1, FirstOfEnabled
<1> HIDE DEF i
<1>3. kind'[fd] = ServedKind(T[i])
  BY <1>2
<1>4. /\ connections' \in Seq(Slots) /\ Clean(connections')
      /\ Serves(connections', kind')
      /\ \A g : server_socket_exists(connections', g) <=> server_socket_exists(T, g) \/ g = fd
  BY <1>1, <1>2, <1>3, JoinedAgrees
<1> QED  BY <1>4 DEF Agree, ServesAll

\* A cache that does not have the new name serves what it served.
LEMMA DuplicatedServes ==
    ASSUME NEW T \in Seq(Slots), NEW kinds, NEW new, NEW x, Serves(T, kinds),
           ~ server_socket_exists(T, x), \A g \in Fd : g # x => new[g] = kinds[g]
    PROVE  Serves(T, new)
<1> SUFFICES ASSUME NEW i \in Enabled(T), NEW g \in Range(T[i].sockets)
             PROVE  new[g] = ServedKind(T[i])
  BY DEF Serves
<1>1. g \in Fd /\ kinds[g] = ServedKind(T[i])
  BY SocketsAreFds DEF Serves
<1>2. g # x
  BY CachedBy
<1> QED  BY <1>1, <1>2

\* dup of a descriptor that is not cached, to one that is not.
LEMMA DuplicatedAgrees ==
    ASSUME NEW T \in Seq(Slots), KernelOK, Agree(T, kind, alias),
           NEW fd \in Fd, NEW new \in Fd, fd # new, kind[fd] # "closed", Duplicated(fd, new),
           ~ server_socket_exists(T, fd), ~ server_socket_exists(T, new)
    PROVE  Agree(T, kind', alias')
<1>1. /\ Names(kind', alias')
      /\ \A g \in Fd : kind'[g] = IF g = new THEN kind[fd] ELSE kind[g]
  BY DuplicatedNames DEF Agree
<1>2. Serves(T, kind')
  BY <1>1, DuplicatedServes DEF Agree
<1>3. ServesAll(T, kind')
  BY <1>1 DEF Agree, ServesAll
<1>4. OnlyUdp(kind')
  BY <1>1 DEF Agree, OnlyUdp
<1> QED  BY <1>1, <1>2, <1>3, <1>4 DEF Agree

\* dup of a cached descriptor, registered with the connection of its port.
LEMMA DuplicatedJoins ==
    ASSUME NEW STATE T, T \in Seq(Slots), KernelOK, Clean(T), Serves(T, kind),
           Names(kind, alias), OnlyUdp(kind),
           NEW fd \in Fd, NEW new \in Fd, fd # new, kind[fd] # "closed", Duplicated(fd, new),
           build \in {"TCP", "CAN"} => \A g \in Fd :
               kind[g] = "conn" => server_socket_exists(T, g) \/ g = new,
           server_socket_exists(T, fd), ~ server_socket_exists(T, new),
           SetServerSocket(T, server_socket_to_port(T, fd), new), phase' = "run"
    PROVE  Agree(connections', kind', alias')
<1> DEFINE port == server_socket_to_port(T, fd)
           i    == First(WithSocket(T, fd))
<1>1. /\ Names(kind', alias')
      /\ \A g \in Fd : kind'[g] = IF g = new THEN kind[fd] ELSE kind[g]
  BY DuplicatedNames
<1>2. Serves(T, kind')
  BY <1>1, DuplicatedServes
<1>3. OnlyUdp(kind')
  BY <1>1 DEF OnlyUdp
<1>4. build \in {"TCP", "CAN"} => \A g \in Fd :
          kind'[g] = "conn" => server_socket_exists(T, g) \/ g = new
  BY <1>1
<1>5. i \in WithSocket(T, fd) /\ i \in Enabled(T) /\ port = T[i].port
  <2>1. WithSocket(T, fd) \in SUBSET Enabled(T) /\ WithSocket(T, fd) # {}
    BY DEF WithSocket, server_socket_exists
  <2> QED  BY <2>1, FirstOfEnabled DEF server_socket_to_port
<1>6. kind[fd] = ServedKind(T[i])
  BY <1>5 DEF Serves, WithSocket
<1> HIDE DEF i
<1>7. \A j \in WithPort(T, port) : j = i
  BY <1>5 DEF WithPort, Clean
<1>8. \A j \in WithPort(T, port) : kind'[new] = ServedKind(T[j])
  BY <1>1, <1>6, <1>7
<1> HIDE DEF port
<1>9. SetServerSocket(T, port, new)
  BY DEF port
<1> QED  BY <1>1, <1>2, <1>3, <1>4, <1>8, <1>9, RegisteredAgrees

----------------------------------------------------------------------------
\* The target neither calls dup2(fd, fd) nor dup2 of another file over a cached
\* descriptor: after those the cache is wrong.
OrdinaryDup == Calls \cap {"dup2self", "dup2over"} = {}

\* Every other hooked call keeps cache and kernel in agreement.
LEMMA CacheStep ==
    ASSUME OrdinaryDup, IInv, CacheInv, [Next]_vars
    PROVE  CacheInv'
<1> SUFFICES ASSUME phase' = "run"
             PROVE  Agree(connections, kind, alias)'
  BY DEF CacheInv
<1>build. build' = build
  BY DEF Next, vars
<1>prime. Agree(connections', kind', alias') => Agree(connections, kind, alias)'
  BY <1>build DEF Agree, Clean, Serves, ServesAll, ServedKind, Names, OnlyUdp, Listed,
                  Enabled, server_socket_exists, WithSocket
<1>type. /\ connections \in Seq(Slots) /\ KernelOK
         /\ kind \in [Fd -> Kinds] /\ alias \in [Fd -> SUBSET Fd]
  BY DEF IInv, CountOK, KernelOK
<1>now. phase = "run" => Agree(connections, kind, alias)
  BY DEF CacheInv
<1>free. \A c \in Free : c \in Fd /\ kind[c] = "closed"
  BY DEF Free
<1>port. TargetPort \in {0, TargetPort} /\ 0 \in {0, TargetPort} /\ TargetPort # 0
  BY SocketCacheAssumption
<1>1. CASE UNCHANGED vars
  BY <1>1, <1>now, <1>prime DEF vars
<1>2. ASSUME NEW fd \in Fd, NEW k \in Kinds, Open(fd, k)
      PROVE  Agree(connections', kind', alias')
  <2>1. Agree(connections, kind, alias) /\ connections' = connections
    BY <1>2, <1>now DEF Open, cache
  <2>2. kind[fd] = "closed" /\ k \in Kinds \ {"closed", "conn"}
        /\ (build = "UDP" => k \in {"file", "udp", "client"})
    BY <1>2, <1>free DEF Open
  <2>3. kind' = [kind EXCEPT ![fd] = k] /\ alias' = [alias EXCEPT ![fd] = {fd}]
    BY <1>2 DEF Open, Opened
  <2> QED  BY <1>type, <2>1, <2>2, <2>3, OpenedAgrees
<1>3. ASSUME NEW fd \in Fd, NEW ok \in BOOLEAN, listen(fd, ok)
      PROVE  Agree(connections', kind', alias')
  <2> DEFINE kinds == IF ok THEN Became(fd, "listen") ELSE kind
             A     == Append(connections, NewSlot(TargetPort, FALSE))
  <2>1. Agree(connections, kind, alias) /\ build # "UDP" /\ kind[fd] \in {"tcp", "listen"}
    BY <1>3, <1>now DEF listen
  <2>2. /\ Agree(connections, kinds, alias) /\ kinds \in [Fd -> Kinds]
        /\ \A g \in Fd : kind[g] = "closed" => kinds[g] = "closed"
    <3>1. CASE ok
      BY <1>type, <2>1, <3>1, BecameAgrees
    <3>2. CASE ~ ok
      BY <1>type, <2>1, <3>2
    <3> QED  BY <3>1, <3>2
  <2>3. \/ kind' = kinds /\ connections' = connections /\ alias' = alias
        \/ /\ WithPort(connections, TargetPort) = {}
           /\ ListenFirst(fd, kinds)
    BY <1>3 DEF listen, cache, connection_exists
  <2> HIDE DEF kinds, A
  <2>4. CASE WithPort(connections, TargetPort) = {} /\ ListenFirst(fd, kinds)
    <3>1. PICK c \in Free : /\ connections' = A
                            /\ kind' = [kinds EXCEPT ![c] = "client"]
                            /\ alias' = [alias EXCEPT ![c] = {c}]
      BY <2>4 DEF ListenFirst, TableEnd, Ends, A
    <3>2. A \in Seq(Slots) /\ Agree(A, kinds, alias)
      BY <1>type, <1>port, <2>2, <2>4, NewConnectionAgrees DEF A
    <3>3. kinds[c] = "closed" /\ c \in Fd /\ "client" \in Kinds \ {"closed", "conn"}
      BY <1>free, <2>2 DEF Kinds
    <3> QED  BY <1>type, <2>2, <3>1, <3>2, <3>3, OpenedAgrees
  <2> QED  BY <2>2, <2>3, <2>4
<1>4. ASSUME NEW fd \in Fd, accept4(fd)
      PROVE  Agree(connections', kind', alias')
  <2>1. Agree(connections, kind, alias) /\ kind[fd] = "listen"
    BY <1>4, <1>now DEF accept4
  <2>2. build # "UDP"
    BY <2>1 DEF Agree, OnlyUdp
  <2>3. PICK new \in Free : /\ kind' = [kind EXCEPT ![new] = "conn"]
                            /\ alias' = [alias EXCEPT ![new] = {new}]
                            /\ SetServerSocket(connections, TargetPort, new)
    BY <1>4 DEF accept4, Opened
  <2>4. new \in Fd /\ kind[new] = "closed"
    BY <1>free
  <2>5. \A g \in Fd : kind'[g] = IF g = new THEN "conn" ELSE kind[g]
    BY <1>type, <2>3
  <2>6. Names(kind', alias')
    <3>1. "conn" \in Kinds /\ "conn" # "closed"
      BY DEF Kinds
    <3> QED  BY <1>type, <2>1, <2>3, <2>4, <3>1, OpenedNames DEF Agree
  <2>7. Serves(connections, kind')
    BY <1>type, <2>1, <2>4, <2>5, ServesStill DEF Agree
  <2>8. OnlyUdp(kind') /\ Clean(connections)
    BY <2>1, <2>2 DEF OnlyUdp, Agree
  <2>9. build \in {"TCP", "CAN"} => \A g \in Fd :
            kind'[g] = "conn" => server_socket_exists(connections, g) \/ g = new
    BY <2>1, <2>5 DEF Agree, ServesAll
  <2>10. \A i \in WithPort(connections, TargetPort) : kind'[new] = ServedKind(connections[i])
    BY <1>type, <2>2, <2>4, <2>5, <2>8, PortKind
  <2> QED  BY <1>type, <2>3, <2>4, <2>6, <2>7, <2>8, <2>9, <2>10, RegisteredAgrees
<1>5. ASSUME NEW fd \in Fd, NEW ok \in BOOLEAN, bind_can(fd, ok)
      PROVE  Agree(connections', kind', alias')
  <2> DEFINE exists == connection_exists_can(connections)
             T      == IF exists THEN connections ELSE Append(connections, NewSlot(0, TRUE))
             i      == First(WithCan(T))
  <2>1. Agree(connections, kind, alias) /\ build = "CAN" /\ phase = "run"
    BY <1>5, <1>now DEF bind_can
  <2>2. /\ kind[fd] \in {"can", "canbound"}
        /\ kind' = (IF ok THEN Became(fd, "canbound") ELSE kind) /\ alias' = alias
        /\ \/ ~ ok /\ connections' = T
           \/ ok /\ HasRoom(T[i], fd) /\ connections' = Joined(T, i, fd)
    BY <1>5, <2>1 DEF bind_can, Ends, TableEnd, set_server_socket_to_connection_can
  <2>3. Agree(connections, kind', alias) /\ (ok => kind'[fd] = "canbound")
    <3>1. CASE ok
      BY <1>type, <2>1, <2>2, <3>1, BecameAgrees
    <3>2. CASE ~ ok
      BY <2>1, <2>2, <3>2
    <3> QED  BY <3>1, <3>2
  <2>4. T \in Seq(Slots) /\ Agree(T, kind', alias) /\ WithCan(T) # {}
    <3>1. CASE exists
      BY <1>type, <2>3, <3>1 DEF connection_exists_can
    <3>2. CASE ~ exists
      <4>1. WithPort(connections, 0) = {}
        BY <2>1, <3>2 DEF connection_exists_can, WithCan, WithPort, Agree, Clean
      <4> DEFINE A == Append(connections, NewSlot(0, TRUE))
      <4>2. A \in Seq(Slots) /\ Agree(A, kind', alias) /\ WithPort(A, 0) # {}
        BY <1>type, <1>port, <2>3, <4>1, NewConnectionAgrees
      <4> HIDE DEF A
      <4>3. WithCan(A) # {}
        BY <4>2 DEF WithCan, WithPort, Agree, Clean
      <4> QED  BY <3>2, <4>2, <4>3 DEF A
    <3> QED  BY <3>1, <3>2
  <2>5. i \in WithCan(T) /\ i \in Enabled(T)
    <3>1. WithCan(T) \in SUBSET Enabled(T)
      BY DEF WithCan
    <3> HIDE DEF T
    <3> QED  BY <2>4, <3>1, FirstOfEnabled
  <2> HIDE DEF T, i
  <2>6. CASE ok
    <3>1. kind'[fd] = ServedKind(T[i])
      BY <2>3, <2>5, <2>6 DEF ServedKind, WithCan
    <3>2. /\ Clean(connections') /\ Serves(connections', kind')
          /\ \A g : server_socket_exists(connections', g) <=> server_socket_exists(T, g) \/ g = fd
      <4>1. Clean(T) /\ Serves(T, kind') /\ HasRoom(T[i], fd) /\ connections' = Joined(T, i, fd)
        BY <2>2, <2>4, <2>6 DEF Agree
      <4> QED  BY <2>4, <2>5, <3>1, <4>1, JoinedAgrees
    <3> QED  BY <2>2, <2>4, <3>2 DEF Agree, ServesAll
  <2> QED  BY <2>2, <2>4, <2>6
<1>6. ASSUME NEW fd \in Fd, bind_udp(fd)
      PROVE  Agree(connections', kind', alias')
  <2> DEFINE kinds == Became(fd, "udpbound")
             A     == Append(connections, NewSlot(TargetPort, FALSE))
  <2>1. Agree(connections, kind, alias) /\ build = "UDP" /\ kind[fd] = "udp"
    BY <1>6, <1>now DEF bind_udp
  <2>2. /\ Agree(connections, kinds, alias) /\ kinds \in [Fd -> Kinds] /\ kinds[fd] = "udpbound"
        /\ \A g \in Fd : kind[g] = "closed" => kinds[g] = "closed"
    BY <1>type, <2>1, BecameAgrees
  <2>3. \/ kind' = kinds /\ connections' = connections /\ alias' = alias
        \/ /\ WithPort(connections, TargetPort) = {}
           /\ BindUdpFirst(fd, kinds)
    BY <1>6 DEF bind_udp, cache, connection_exists
  <2> HIDE DEF kinds, A
  <2>4. CASE WithPort(connections, TargetPort) = {} /\ BindUdpFirst(fd, kinds)
    <3>1. PICK c \in Free : /\ SetServerSocket(A, TargetPort, fd)
                            /\ kind' = [kinds EXCEPT ![c] = "client"]
                            /\ alias' = [alias EXCEPT ![c] = {c}]
      BY <2>4 DEF BindUdpFirst, TableEnd, Ends, A
    <3>2. A \in Seq(Slots) /\ Agree(A, kinds, alias)
      BY <1>type, <1>port, <2>2, <2>4, NewConnectionAgrees DEF A
    <3>3. kinds[c] = "closed" /\ c \in Fd /\ c # fd /\ "client" \in Kinds \ {"closed", "conn"}
      BY <1>free, <2>2 DEF Kinds
    <3>4. Agree(A, kind', alias')
      BY <1>type, <2>2, <3>1, <3>2, <3>3, OpenedAgrees
    <3>5. kind'[fd] = "udpbound"
      BY <2>2, <3>1, <3>3
    <3>6. \A i \in WithPort(A, TargetPort) : kind'[fd] = ServedKind(A[i])
      BY <2>1, <3>2, <3>5, PortKind DEF Agree
    <3>7. /\ Clean(A) /\ Serves(A, kind') /\ Names(kind', alias') /\ OnlyUdp(kind')
          /\ (build \in {"TCP", "CAN"} => \A g \in Fd :
                 kind'[g] = "conn" => server_socket_exists(A, g) \/ g = fd)
      BY <3>4 DEF Agree, ServesAll
    <3> QED  BY <3>1, <3>2, <3>6, <3>7, RegisteredAgrees
  <2> QED  BY <2>2, <2>3, <2>4
<1>7. ASSUME NEW fd \in Fd, connect(fd)
      PROVE  Agree(connections', kind', alias')
  <2> DEFINE kinds == Became(fd, "conn")
             A     == Append(connections, NewSlot(TargetPort, FALSE))
  <2>1. /\ Agree(connections, kind, alias) /\ build = "CLIENT" /\ kind[fd] = "tcp"
        /\ phase = "run"
    BY <1>7, <1>now DEF connect
  <2>2. /\ Agree(connections, kinds, alias) /\ kinds \in [Fd -> Kinds] /\ kinds[fd] = "conn"
        /\ \A g \in Fd : kind[g] = "closed" => kinds[g] = "closed"
    BY <1>type, <2>1, BecameAgrees
  <2> HIDE DEF kinds, A
  <2>3. /\ WithPort(connections, TargetPort) = {}
        /\ \E srv, new \in Free :
              /\ kind' = [kinds EXCEPT ![new] = "client", ![srv] = "listen"]
              /\ alias' = [alias EXCEPT ![srv] = {srv}, ![new] = {new}]
              /\ SetServerSocket(A, TargetPort, fd)
    BY <1>7, <2>1 DEF connect, connection_exists, TableEnd, Ends, kinds, A
  <2>4. PICK srv \in Free, new \in Free :
              /\ kind' = [kinds EXCEPT ![new] = "client", ![srv] = "listen"]
              /\ alias' = [alias EXCEPT ![srv] = {srv}, ![new] = {new}]
              /\ SetServerSocket(A, TargetPort, fd)
    BY <2>3
  <2>5. A \in Seq(Slots) /\ Agree(A, kinds, alias)
    BY <1>type, <1>port, <2>2, <2>3, NewConnectionAgrees DEF A
  <2>6. /\ srv \in Fd /\ new \in Fd /\ kinds[srv] = "closed" /\ kinds[new] = "closed"
        /\ fd # srv /\ fd # new
        /\ "client" \in Kinds \ {"closed", "conn"} /\ "listen" \in Kinds \ {"closed", "conn"}
    BY <1>free, <2>2 DEF Kinds
  <2>10. Agree(A, kind', alias')
    <3>1. CASE srv = new
      <4>1. kind' = [kinds EXCEPT ![srv] = "listen"] /\ alias' = [alias EXCEPT ![srv] = {srv}]
        BY <1>type, <2>2, <2>4, <2>6, <3>1
      <4> QED  BY <1>type, <2>1, <2>2, <2>5, <2>6, <4>1, OpenedAgrees
    <3>2. CASE srv # new
      <4> DEFINE k1 == [kinds EXCEPT ![new] = "client"]
                 a1 == [alias EXCEPT ![new] = {new}]
      <4>1. k1 \in [Fd -> Kinds] /\ k1[srv] = "closed" /\ a1 \in [Fd -> SUBSET Fd]
        BY <1>type, <2>2, <2>6, <3>2
      <4>2. Agree(A, k1, a1)
        BY <1>type, <2>1, <2>2, <2>5, <2>6, OpenedAgrees
      <4>3. kind' = [k1 EXCEPT ![srv] = "listen"] /\ alias' = [a1 EXCEPT ![srv] = {srv}]
        BY <1>type, <2>4, <2>6, <3>2
      <4> HIDE DEF k1, a1
      <4> QED  BY <2>1, <2>5, <2>6, <4>1, <4>2, <4>3, OpenedAgrees
    <3> QED  BY <3>1, <3>2
  <2>11. kind'[fd] = "conn"
    BY <2>2, <2>4, <2>6
  <2>12. \A i \in WithPort(A, TargetPort) : kind'[fd] = ServedKind(A[i])
    BY <2>1, <2>5, <2>11, PortKind DEF Agree
  <2>13. /\ Clean(A) /\ Serves(A, kind') /\ Names(kind', alias') /\ OnlyUdp(kind')
         /\ (build \in {"TCP", "CAN"} => \A g \in Fd :
                kind'[g] = "conn" => server_socket_exists(A, g) \/ g = fd)
    BY <2>10 DEF Agree, ServesAll
  <2> QED  BY <2>4, <2>5, <2>12, <2>13, RegisteredAgrees
<1>8. ASSUME NEW fd \in Fd, dup(fd)
      PROVE  Agree(connections', kind', alias')
  <2>1. Agree(connections, kind, alias) /\ kind[fd] # "closed"
    BY <1>8, <1>now DEF dup
  <2>2. PICK new \in Free :
            /\ Duplicated(fd, new)
            /\ \/ ~ server_socket_exists(connections, fd) /\ connections' = connections
               \/ /\ server_socket_exists(connections, fd)
                  /\ SetServerSocket(connections, server_socket_to_port(connections, fd), new)
    BY <1>8 DEF dup
  <2>3. new \in Fd /\ kind[new] = "closed" /\ fd # new
    BY <1>free, <2>1
  <2>4. ~ server_socket_exists(connections, new)
    BY <1>type, <2>1, <2>3, ClosedIsUnused DEF Agree
  <2>5. CASE ~ server_socket_exists(connections, fd) /\ connections' = connections
    BY <1>type, <2>1, <2>2, <2>3, <2>4, <2>5, DuplicatedAgrees
  <2>6. CASE /\ server_socket_exists(connections, fd)
             /\ SetServerSocket(connections, server_socket_to_port(connections, fd), new)
    <3>1. /\ Clean(connections) /\ Serves(connections, kind) /\ Names(kind, alias) /\ OnlyUdp(kind)
          /\ (build \in {"TCP", "CAN"} => \A g \in Fd :
                 kind[g] = "conn" => server_socket_exists(connections, g) \/ g = new)
      BY <2>1 DEF Agree, ServesAll
    <3> QED  BY <1>type, <2>1, <2>2, <2>3, <2>4, <2>6, <3>1, DuplicatedJoins
  <2> QED  BY <2>2, <2>5, <2>6
<1>9. ASSUME NEW fd \in Fd, NEW new \in Fd, dup2(fd, new)
      PROVE  Agree(connections', kind', alias')
  <2>1. Agree(connections, kind, alias) /\ kind[fd] # "closed" /\ fd # new /\ Duplicated(fd, new)
    BY <1>9, <1>now DEF dup2, OrdinaryDup
  <2> DEFINE D == disable_connection_by_server_socket(connections, new)
  <2>2. \/ /\ ~ server_socket_exists(connections, fd) /\ ~ server_socket_exists(connections, new)
           /\ connections' = connections
        \/ /\ server_socket_exists(connections, fd)
           /\ SetServerSocket(D, server_socket_to_port(D, fd), new)
    BY <1>9 DEF dup2, OrdinaryDup, cache
  <2>3. CASE /\ ~ server_socket_exists(connections, fd) /\ ~ server_socket_exists(connections, new)
             /\ connections' = connections
    BY <1>type, <2>1, <2>3, DuplicatedAgrees
  <2>4. CASE /\ server_socket_exists(connections, fd)
             /\ SetServerSocket(D, server_socket_to_port(D, fd), new)
    <3>1. /\ D \in Seq(Slots) /\ Clean(D) /\ Serves(D, kind)
          /\ \A g : server_socket_exists(D, g) <=> server_socket_exists(connections, g) /\ g # new
      BY <1>type, <2>1, DisabledAgrees DEF Agree
    <3> HIDE DEF D
    <3>2. server_socket_exists(D, fd) /\ ~ server_socket_exists(D, new)
      BY <2>1, <2>4, <3>1
    <3>3. build \in {"TCP", "CAN"} => \A g \in Fd :
              kind[g] = "conn" => server_socket_exists(D, g) \/ g = new
      BY <2>1, <3>1 DEF Agree, ServesAll
    <3>4. Names(kind, alias) /\ OnlyUdp(kind)
      BY <2>1 DEF Agree
    <3> QED  BY <1>type, <2>1, <2>4, <3>1, <3>2, <3>3, <3>4, DuplicatedJoins
  <2> HIDE DEF D
  <2> QED  BY <2>2, <2>3, <2>4
<1>10. ASSUME NEW fd \in Fd, NEW new \in Fd, dup3(fd, new)
       PROVE  Agree(connections', kind', alias')
  <2>1. /\ Agree(connections, kind, alias) /\ kind[fd] # "closed" /\ fd # new
        /\ Duplicated(fd, new) /\ connections' = connections
        /\ ~ server_socket_exists(connections, fd) /\ ~ server_socket_exists(connections, new)
    BY <1>10, <1>now DEF dup3, OrdinaryDup, Ends, cache
  <2> QED  BY <1>type, <2>1, DuplicatedAgrees
<1>11. ASSUME NEW fd \in Fd, close(fd)
       PROVE  Agree(connections', kind', alias')
  <2> DEFINE D == disable_connection_by_server_socket(connections, fd)
  <2>1. /\ Agree(connections, kind, alias) /\ Closed(fd)
        /\ \/ ~ server_socket_exists(connections, fd) /\ connections' = connections
           \/ connections' = D
    BY <1>11, <1>now DEF close, Ends, cache
  <2>2. /\ Names(kind', alias')
        /\ \A g \in Fd : kind'[g] = IF g = fd THEN "closed" ELSE kind[g]
    BY <1>type, <2>1, ClosedNames DEF Agree
  <2>3. OnlyUdp(kind')
    BY <2>1, <2>2 DEF Agree, OnlyUdp
  <2>4. CASE ~ server_socket_exists(connections, fd) /\ connections' = connections
    <3>1. Serves(connections, kind')
      BY <1>type, <2>1, <2>2, <2>4, DuplicatedServes DEF Agree
    <3>2. ServesAll(connections, kind')
      BY <2>1, <2>2 DEF Agree, ServesAll
    <3> QED  BY <2>1, <2>2, <2>3, <2>4, <3>1, <3>2 DEF Agree
  <2>5. CASE connections' = D
    <3>1. /\ Clean(D) /\ Serves(D, kind')
          /\ \A g : server_socket_exists(D, g) <=> server_socket_exists(connections, g) /\ g # fd
      BY <1>type, <2>1, <2>2, DisabledAgrees DEF Agree
    <3> HIDE DEF D
    <3>2. ServesAll(D, kind')
      BY <2>1, <2>2, <3>1 DEF Agree, ServesAll
    <3> QED  BY <2>2, <2>3, <2>5, <3>1, <3>2 DEF Agree
  <2> HIDE DEF D
  <2> QED  BY <2>1, <2>4, <2>5
<1>12. ASSUME NEW fd \in Fd, read(fd) \/ unsupported(fd)
       PROVE  Agree(connections', kind', alias')
  BY <1>12, <1>now DEF read, unsupported, Ends, cache, kernel
<1> QED  BY <1>1, <1>2, <1>3, <1>4, <1>5, <1>6, <1>7, <1>8, <1>9, <1>10, <1>11, <1>12, <1>prime
            DEF Next, Call

\* The invariant of the theorems that follow.
LEMMA CacheInvCorrect ==
    ASSUME OrdinaryDup
    PROVE  Spec => [](IInv /\ CacheInv)
<1>1. Init => CacheInv
  <2> SUFFICES ASSUME Init
               PROVE  Agree(connections, kind, alias)
    BY DEF CacheInv
  <2>1. Enabled(connections) = {}
    BY DEF Init, Enabled
  <2>2. \A f \in Fd : kind[f] = "closed" /\ alias[f] = {}
    BY DEF Init
  <2> QED  BY <2>1, <2>2 DEF Agree, Clean, Serves, ServesAll, Names, OnlyUdp
<1>2. IInv /\ CacheInv /\ [Next]_vars => CacheInv'
  BY CacheStep
<1> QED  BY <1>1, <1>2, InductiveInit, InductiveStep, PTL DEF Spec

\* A descriptor served from the bytecode is an open socket of that connection,
\* after any sequence of hooked calls that closes, duplicates and opens again, and
\* every name of an accepted connection is served.
THEOREM CacheMatchesCorrect ==
    ASSUME OrdinaryDup
    PROVE  Spec => []CacheMatchesKernel
<1>1. CacheInv => CacheMatchesKernel
  BY DEF CacheInv, Agree, Serves, ServesAll, CacheMatchesKernel
<1> QED  BY <1>1, CacheInvCorrect, PTL

\* select reports each cached descriptor of the set once: slot and place in the
\* list are in bijection with the descriptors.
THEOREM SelectCorrect ==
    ASSUME OrdinaryDup
    PROVE  Spec => []SelectExact
<1>1. ASSUME IInv, CacheInv, phase = "run", NEW S \in SUBSET Fd
      PROVE  set_select_fds(connections, S) = Cardinality(S \cap Cached)
  <2> DEFINE T == connections
             P == {e \in Enabled(T) \X (1..MaxSockets) :
                      /\ e[2] \in DOMAIN T[e[1]].sockets
                      /\ T[e[1]].sockets[e[2]] \in S}
             C == S \cap Cached
             f == [e \in P |-> T[e[1]].sockets[e[2]]]
  <2>1. T \in Seq(Slots) /\ Clean(T) /\ Serves(T, kind)
    BY <1>1 DEF IInv, CountOK, CacheInv, Agree
  <2>2. IsFiniteSet(P)
    <3>1. IsFiniteSet(Enabled(T)) /\ IsFiniteSet(1..MaxSockets)
      BY <2>1, EnabledIsFinite, FS_Interval, SocketCacheAssumption
    <3>2. IsFiniteSet(Enabled(T) \X (1..MaxSockets))
      BY <3>1, FS_Product
    <3> QED  BY <3>2, FS_Subset
  <2>3. ASSUME NEW e \in P
        PROVE  /\ e = <<e[1], e[2]>> /\ e[1] \in Enabled(T) /\ e[2] \in DOMAIN T[e[1]].sockets
               /\ f[e] \in Range(T[e[1]].sockets) /\ f[e] \in S
               /\ f[e] = T[e[1]].sockets[e[2]]
    BY DEF Range
  <2>4. f \in [P -> C]
    <3>1. ASSUME NEW e \in P
          PROVE  f[e] \in C
      BY <2>3, CachedBy DEF Cached
    <3> QED  BY <3>1
  <2>5. ASSUME NEW d \in P, NEW e \in P, f[d] = f[e]
        PROVE  d = e
    <3>1. d[1] \in WithSocket(T, f[d]) /\ e[1] \in WithSocket(T, f[d])
      <4>1. /\ d[1] \in Enabled(T) /\ f[d] \in Range(T[d[1]].sockets)
            /\ e[1] \in Enabled(T) /\ f[d] \in Range(T[e[1]].sockets)
        BY <2>3, <2>5
      <4> HIDE DEF f, P
      <4> QED  BY <4>1 DEF WithSocket
    <3>2. d[1] = e[1]
      BY <2>1, <3>1, OneConnection
    <3>3. d[2] = e[2]
      BY <2>1, <2>3, <2>5, <3>2 DEF Clean, Listed
    <3> QED  BY <2>3, <3>2, <3>3
  <2>6. ASSUME NEW fd \in C
        PROVE  \E e \in P : f[e] = fd
    <3>1. PICK i \in Enabled(T) : fd \in Range(T[i].sockets)
      BY CachedBy DEF Cached
    <3>2. PICK k \in DOMAIN T[i].sockets : T[i].sockets[k] = fd
      BY <3>1 DEF Range
    <3>3. k \in 1..MaxSockets
      <4>1. T[i] \in Slots /\ Len(T[i].sockets) <= MaxSockets
        BY <2>1 DEF Enabled, Clean, Listed
      <4>2. T[i].sockets \in Seq(Fd)
        BY <4>1 DEF Slots
      <4> QED  BY <3>2, <4>1, <4>2, SocketCacheAssumption
    <3>4. <<i, k>> \in P /\ f[<<i, k>>] = fd
      BY <3>2, <3>3
    <3> QED  BY <3>4
  <2> HIDE DEF P, C, f
  <2>7. f \in Bijection(P, C)
    <3>1. f \in Injection(P, C)
      BY <2>4, <2>5, Fun_IsInj
    <3>2. f \in Surjection(P, C)
      BY <2>4, <2>6, Fun_IsSurj
    <3> QED  BY <3>1, <3>2 DEF Bijection
  <2>8. Cardinality(C) = Cardinality(P)
    <3>1. ExistsBijection(P, C)
      BY <2>7 DEF ExistsBijection
    <3> QED  BY <2>2, <3>1, FS_Bijection
  <2> QED  BY <2>8 DEF P, C, set_select_fds
<1>2. IInv /\ CacheInv => SelectExact
  BY <1>1 DEF SelectExact
<1> QED  BY <1>2, CacheInvCorrect, PTL

\* The execution is released only by the close that leaves no accepted connection.
THEOREM ReleaseCorrect ==
    ASSUME OrdinaryDup
    PROVE  Spec => ReleaseIsLast
<1> DEFINE Last == (build \in {"TCP", "CAN"} /\ connections' # connections /\ phase' = "released")
                       => Cardinality({fd \in Fd : kind[fd] = "conn"}) <= 1
<1>1. ASSUME IInv, CacheInv, Next, build \in {"TCP", "CAN"}, connections' # connections,
             phase' = "released"
      PROVE  Cardinality({fd \in Fd : kind[fd] = "conn"}) <= 1
  <2> DEFINE C == {fd \in Fd : kind[fd] = "conn"}
  <2>1. PICK fd \in Fd : close(fd)
    <3>1. PICK fd \in Fd : Call(fd)
      BY <1>1 DEF Next
    <3>2. ASSUME NEW port, NEW T, NEW x, SetServerSocket(T, port, x)
          PROVE  phase' = phase \/ phase' = "asserted"
      BY <3>2 DEF SetServerSocket, Ends
    <3>3. phase = "run" => phase' # phase
      BY <1>1
    <3> QED  BY <1>1, <3>1, <3>2, <3>3
                DEF Call, Open, listen, ListenFirst, accept4, bind_can, bind_udp, BindUdpFirst,
                    connect, dup, dup2, dup3, read, unsupported, cache, Ends, TableEnd
  <2>2. /\ phase = "run" /\ server_socket_exists(connections, fd)
        /\ connections' = disable_connection_by_server_socket(connections, fd)
        /\ active_con_num' = 0
    BY <1>1, <2>1 DEF close, cache
  <2>3. CountOK(connections', active_con_num') /\ connections \in Seq(Slots)
    BY <1>1, InductiveStep DEF IInv, CountOK
  <2>4. Enabled(connections') = {}
    BY <2>2, <2>3, CountRange
  <2>5. \A g : ~ server_socket_exists(connections', g)
    BY <2>4, CachedBy
  <2>6. Agree(connections, kind, alias)
    BY <1>1, <2>2 DEF CacheInv
  <2>7. \A g : server_socket_exists(connections, g) => g = fd
    BY <2>2, <2>3, <2>5, <2>6, DisabledAgrees DEF Agree
  <2>8. C \subseteq {fd}
    BY <1>1, <2>6, <2>7 DEF Agree, ServesAll
  <2>9. IsFiniteSet({fd}) /\ Cardinality({fd}) = 1
    BY FS_Singleton
  <2> HIDE DEF C
  <2>10. Cardinality(C) <= 1
    BY <2>8, <2>9, FS_Subset
  <2> QED  BY <2>10 DEF C
<1>2. IInv /\ CacheInv /\ [Next]_vars => [Last]_vars
  BY <1>1
<1> QED  BY <1>2, CacheInvCorrect, PTL DEF Spec, ReleaseIsLast

----------------------------------------------------------------------------
(***************************************************************************)
(* The assertions of the hooks.                                            *)
(***************************************************************************)

\* A connection of the target port that nobody accepted yet.
Pending(T) == \E i \in WithPort(T, TargetPort) : T[i].sockets = <<>>

\* While the target runs, one connection waits at most, and the cache has it.
WaitInv == phase = "run" => backlog \in {0, 1} /\ (backlog = 1 => Pending(connections))

\* A connection whose list of sockets is full.
Full(T) == \E i \in Enabled(T) : Len(T[i].sockets) = MaxSockets

\* A hook that finds a connection asserts only when its list is full.
LEMMA RegisterFull ==
    ASSUME NEW STATE T, NEW STATE port, NEW fd \in Fd, T \in Seq(Slots), Clean(T),
           WithPort(T, port) # {}, SetServerSocket(T, port, fd),
           phase = "run", phase' = "asserted"
    PROVE  Full(connections')
<1> DEFINE i == First(WithPort(T, port))
<1>1. connections' = T /\ ~ HasRoom(T[i], fd)
  BY DEF SetServerSocket
<1>2. i \in Enabled(T)
  <2>1. WithPort(T, port) \in SUBSET Enabled(T)
    BY DEF WithPort
  <2> QED  BY <2>1, FirstOfEnabled
<1> HIDE DEF i
<1>3. Len(T[i].sockets) <= MaxSockets /\ T[i] \in Slots
  BY <1>2 DEF Clean, Listed, Enabled
<1>4. Len(T[i].sockets) \in Nat /\ ~ (Len(T[i].sockets) < MaxSockets)
  BY <1>1, <1>3 DEF HasRoom, Slots
<1>5. Len(T[i].sockets) = MaxSockets
  BY <1>3, <1>4, SocketCacheAssumption
<1> QED  BY <1>1, <1>2, <1>5 DEF Full

\* A descriptor joins another connection than the one that waits.
LEMMA JoinedPending ==
    ASSUME NEW T \in Seq(Slots), NEW j \in Enabled(T), NEW fd, Pending(T),
           T[j].port = TargetPort => T[j].sockets # <<>>
    PROVE  Pending(Joined(T, j, fd))
<1> DEFINE J == Joined(T, j, fd)
<1>1. PICK i \in WithPort(T, TargetPort) : T[i].sockets = <<>>
  BY DEF Pending
<1>2. i \in DOMAIN T /\ i # j /\ ~ T[i].disabled /\ T[i].port = TargetPort
  BY <1>1 DEF WithPort, Enabled
<1>3. DOMAIN J = DOMAIN T /\ J[i] = T[i]
  BY <1>2 DEF Joined
<1> HIDE DEF J
<1>4. i \in WithPort(J, TargetPort) /\ J[i].sockets = <<>>
  BY <1>1, <1>2, <1>3 DEF WithPort, Enabled
<1> QED  BY <1>4 DEF Pending, J

\* The connection that waits has no descriptor to be closed.
LEMMA DisabledPending ==
    ASSUME NEW T \in Seq(Slots), NEW fd, Pending(T)
    PROVE  Pending(disable_connection_by_server_socket(T, fd))
<1> DEFINE D == disable_connection_by_server_socket(T, fd)
<1>1. PICK i \in WithPort(T, TargetPort) : T[i].sockets = <<>>
  BY DEF Pending
<1>2. i \in DOMAIN T /\ ~ T[i].disabled /\ T[i].port = TargetPort
  BY <1>1 DEF WithPort, Enabled
<1>3. i \notin WithSocket(T, fd)
  <2>1. Range(T[i].sockets) = {}
    BY <1>1 DEF Range
  <2> QED  BY <2>1 DEF WithSocket
<1>4. DOMAIN D = DOMAIN T /\ D[i] = T[i]
  BY <1>2, <1>3 DEF disable_connection_by_server_socket
<1> HIDE DEF D
<1>5. i \in WithPort(D, TargetPort) /\ D[i].sockets = <<>>
  BY <1>1, <1>2, <1>4 DEF WithPort, Enabled
<1> QED  BY <1>5 DEF Pending, D

\* A connection that is added leaves the others, and waits if it is the port's.
LEMMA AddedPending ==
    ASSUME NEW T \in Seq(Slots), NEW port \in {0, TargetPort}, NEW can \in BOOLEAN
    PROVE  /\ Pending(T) => Pending(Append(T, NewSlot(port, can)))
           /\ Pending(Append(T, NewSlot(TargetPort, FALSE)))
<1>1. ASSUME NEW s
      PROVE  /\ Len(T) \in Nat /\ DOMAIN T = 1..Len(T)
             /\ DOMAIN Append(T, s) = 1..(Len(T) + 1)
             /\ \A i \in 1..Len(T) : Append(T, s)[i] = T[i]
             /\ Append(T, s)[Len(T) + 1] = s
  OBVIOUS
<1>2. ASSUME Pending(T)
      PROVE  Pending(Append(T, NewSlot(port, can)))
  <2> DEFINE s == NewSlot(port, can)
             A == Append(T, s)
  <2> HIDE DEF s
  <2>1. PICK i \in WithPort(T, TargetPort) : T[i].sockets = <<>>
    BY <1>2 DEF Pending
  <2>2. i \in DOMAIN A /\ A[i] = T[i] /\ ~ T[i].disabled /\ T[i].port = TargetPort
    BY <1>1, <2>1 DEF WithPort, Enabled
  <2> HIDE DEF A
  <2>3. i \in WithPort(A, TargetPort) /\ A[i].sockets = <<>>
    BY <2>1, <2>2 DEF WithPort, Enabled
  <2> QED  BY <2>3 DEF Pending, A, s
<1>3. Pending(Append(T, NewSlot(TargetPort, FALSE)))
  <2> DEFINE s == NewSlot(TargetPort, FALSE)
             A == Append(T, s)
             n == Len(T) + 1
  <2>1. ~ s.disabled /\ s.port = TargetPort /\ s.sockets = <<>>
    BY DEF NewSlot
  <2> HIDE DEF s
  <2>2. n \in DOMAIN A /\ A[n] = s
    BY <1>1
  <2> HIDE DEF A, n
  <2>3. n \in WithPort(A, TargetPort) /\ A[n].sockets = <<>>
    BY <2>1, <2>2 DEF WithPort, Enabled
  <2> QED  BY <2>3 DEF Pending, A, s
<1> QED  BY <1>2, <1>3

\* A connection of the port is there while one waits.
LEMMA PendingHasPort ==
    ASSUME NEW T, WithPort(T, TargetPort) = {}
    PROVE  ~ Pending(T)
BY DEF Pending

\* The connection of a cached descriptor is the one its port finds.
LEMMA CachedHasPort ==
    ASSUME NEW T \in Seq(Slots), Clean(T), NEW fd, server_socket_exists(T, fd)
    PROVE  LET port == server_socket_to_port(T, fd)
           IN  /\ WithPort(T, port) # {}
               /\ First(WithPort(T, port)) \in Enabled(T)
               /\ T[First(WithPort(T, port))].sockets # <<>>
<1> DEFINE port == server_socket_to_port(T, fd)
           i    == First(WithSocket(T, fd))
           j    == First(WithPort(T, port))
<1>1. i \in WithSocket(T, fd) /\ i \in Enabled(T) /\ port = T[i].port
  <2>1. WithSocket(T, fd) \in SUBSET Enabled(T) /\ WithSocket(T, fd) # {}
    BY DEF WithSocket, server_socket_exists
  <2> QED  BY <2>1, FirstOfEnabled DEF server_socket_to_port
<1> HIDE DEF i, port
<1>2. i \in WithPort(T, port)
  BY <1>1 DEF WithPort
<1>3. j \in WithPort(T, port) /\ j \in Enabled(T)
  <2>1. WithPort(T, port) \in SUBSET Enabled(T)
    BY DEF WithPort
  <2> QED  BY <1>2, <2>1, FirstOfEnabled
<1> HIDE DEF j
<1>4. j = i
  BY <1>1, <1>2, <1>3 DEF Clean, WithPort
<1>5. T[i].sockets # <<>>
  <2>1. fd \in Range(T[i].sockets)
    BY <1>1 DEF WithSocket
  <2> QED  BY <2>1 DEF Range
<1> QED  BY <1>2, <1>3, <1>4, <1>5 DEF j, port

\* dup and dup2 register with a connection that somebody accepted.
LEMMA RegisterDup ==
    ASSUME NEW STATE T, NEW fd \in Fd, NEW new \in Fd, T \in Seq(Slots), Clean(T),
           server_socket_exists(T, fd), phase = "run",
           SetServerSocket(T, server_socket_to_port(T, fd), new)
    PROVE  /\ phase' = "asserted" => Full(connections')
           /\ phase' = "run" /\ Pending(T) => Pending(connections')
<1> DEFINE port == server_socket_to_port(T, fd)
           j    == First(WithPort(T, port))
<1>1. WithPort(T, port) # {} /\ j \in Enabled(T) /\ T[j].sockets # <<>>
  BY CachedHasPort
<1>2. SetServerSocket(T, port, new)
  OBVIOUS
<1>3. phase' = "run" => connections' = Joined(T, j, new)
  BY <1>2 DEF SetServerSocket, Ends, set_server_socket_to_connection
<1> HIDE DEF j
<1>4. phase' = "run" /\ Pending(T) => Pending(connections')
  BY <1>1, <1>3, JoinedPending
<1>5. phase' = "asserted" => Full(connections')
  <2> HIDE DEF port
  <2> QED  BY <1>1, <1>2, RegisterFull
<1> QED  BY <1>4, <1>5

\* Every call keeps the connection that waits in the cache, and asserts only for
\* want of room.
LEMMA AssertStep ==
    ASSUME OrdinaryDup, IInv, CacheInv, WaitInv, OnlyFullAsserts, [Next]_vars
    PROVE  WaitInv' /\ OnlyFullAsserts'
<1> DEFINE Waits   == backlog' \in {0, 1} /\ (backlog' = 1 => Pending(connections'))
           Good    == (phase' = "run" => Waits) /\ (phase' = "asserted" => Full(connections'))
<1>prime. Good => WaitInv' /\ OnlyFullAsserts'
  BY DEF WaitInv, OnlyFullAsserts, Pending, Full, WithPort, Enabled
<1>type. connections \in Seq(Slots)
  BY DEF IInv, CountOK
<1>now. phase = "run" => /\ Clean(connections) /\ Serves(connections, kind)
                         /\ backlog \in {0, 1} /\ (backlog = 1 => Pending(connections))
  BY DEF CacheInv, Agree, WaitInv
<1>port. TargetPort \in {0, TargetPort} /\ 0 \in {0, TargetPort} /\ TargetPort # 0
  BY SocketCacheAssumption
<1>none. WithPort(connections, TargetPort) = {} /\ phase = "run" => backlog = 0
  BY <1>now, PendingHasPort
<1>new. ASSUME phase = "run", WithPort(connections, TargetPort) = {}
        PROVE  LET A == Append(connections, NewSlot(TargetPort, FALSE))
               IN  A \in Seq(Slots) /\ Clean(A) /\ WithPort(A, TargetPort) # {}
  BY <1>type, <1>now, <1>port, <1>new, NewSlotAgrees
<1>1. CASE UNCHANGED vars
  <2>1. Good
    BY <1>1 DEF vars, WaitInv, OnlyFullAsserts, Full
  <2> QED  BY <2>1, <1>prime
<1>2. ASSUME NEW fd \in Fd, NEW k \in Kinds, Open(fd, k)
      PROVE  Good
  BY <1>2, <1>now DEF Open, cache
<1>3. ASSUME NEW fd \in Fd, NEW ok \in BOOLEAN, listen(fd, ok)
      PROVE  Good
  <2> DEFINE A == Append(connections, NewSlot(TargetPort, FALSE))
  <2>1. CASE connections' = connections /\ phase' = phase /\ backlog' = backlog
    BY <1>3, <1>now, <2>1 DEF listen
  <2>2. CASE phase' \in {"released", "overrun", "exited"}
    BY <2>2
  <2>3. CASE /\ WithPort(connections, TargetPort) = {} /\ connections' = A
             /\ backlog' = backlog + 1 /\ phase' = phase
    <3>1. Pending(A)
      BY <1>type, <1>port, AddedPending
    <3>2. phase = "run"
      BY <1>3 DEF listen
    <3> HIDE DEF A
    <3> QED  BY <1>none, <2>3, <3>1, <3>2
  <2> QED  BY <1>3, <2>1, <2>2, <2>3 DEF listen, ListenFirst, TableEnd, Ends, cache, connection_exists
<1>4. ASSUME NEW fd \in Fd, accept4(fd)
      PROVE  Good
  <2>1. phase = "run" /\ backlog > 0 /\ backlog' = backlog - 1
    BY <1>4 DEF accept4
  <2>2. backlog' = 0 /\ Pending(connections)
    BY <1>now, <2>1
  <2>3. PICK new \in Fd : SetServerSocket(connections, TargetPort, new)
    BY <1>4 DEF accept4, Free
  <2>4. WithPort(connections, TargetPort) # {}
    BY <2>2 DEF Pending
  <2>5. phase' = "asserted" => Full(connections')
    BY <1>type, <1>now, <2>1, <2>3, <2>4, RegisterFull
  <2> QED  BY <2>2, <2>5
<1>5. ASSUME NEW fd \in Fd, NEW ok \in BOOLEAN, bind_can(fd, ok)
      PROVE  Good
  <2> DEFINE exists == connection_exists_can(connections)
             T      == IF exists THEN connections ELSE Append(connections, NewSlot(0, TRUE))
             i      == First(WithCan(T))
  <2>1. phase = "run"
    BY <1>5 DEF bind_can
  <2>2. CASE phase' \in {"released", "overrun", "exited"}
    BY <2>2
  <2>3. CASE /\ backlog' = backlog
             /\ \/ connections' = T /\ phase' = phase
                \/ connections' = Joined(T, i, fd) /\ phase' = phase
                \/ ~ HasRoom(T[i], fd) /\ connections' = T /\ phase' = "asserted"
    <3>1. T \in Seq(Slots) /\ Clean(T) /\ WithCan(T) # {} /\ (Pending(connections) => Pending(T))
      <4>1. CASE exists
        BY <1>type, <1>now, <2>1, <4>1 DEF connection_exists_can
      <4>2. CASE ~ exists
        <5>1. WithPort(connections, 0) = {}
          BY <1>now, <2>1, <4>2 DEF connection_exists_can, WithCan, WithPort, Clean
        <5> DEFINE A == Append(connections, NewSlot(0, TRUE))
        <5>2. A \in Seq(Slots) /\ Clean(A) /\ WithPort(A, 0) # {}
          BY <1>type, <1>now, <1>port, <2>1, <5>1, NewSlotAgrees
        <5>3. Pending(connections) => Pending(A)
          BY <1>type, <1>port, AddedPending
        <5> HIDE DEF A
        <5>4. WithCan(A) # {}
          BY <5>2 DEF WithCan, WithPort, Clean
        <5> QED  BY <4>2, <5>2, <5>3, <5>4 DEF A
      <4> QED  BY <4>1, <4>2
    <3> HIDE DEF T
    <3>2. i \in WithCan(T) /\ i \in Enabled(T)
      <4>1. WithCan(T) \in SUBSET Enabled(T)
        BY DEF WithCan
      <4> QED  BY <3>1, <4>1, FirstOfEnabled
    <3> HIDE DEF i
    <3>3. T[i].port # TargetPort
      BY <1>port, <3>1, <3>2 DEF Clean, WithCan
    <3>4. Pending(T) => Pending(Joined(T, i, fd))
      BY <3>1, <3>2, <3>3, JoinedPending
    <3>5. ~ HasRoom(T[i], fd) => Full(T)
      <4>1. Len(T[i].sockets) <= MaxSockets /\ T[i] \in Slots
        BY <3>1, <3>2 DEF Clean, Listed, Enabled
      <4>2. Len(T[i].sockets) \in Nat
        BY <4>1 DEF Slots
      <4>3. ~ HasRoom(T[i], fd) => Len(T[i].sockets) = MaxSockets
        BY <4>1, <4>2, SocketCacheAssumption DEF HasRoom
      <4> QED  BY <3>2, <4>3 DEF Full
    <3> QED  BY <1>now, <2>1, <2>3, <3>1, <3>4, <3>5
  <2> QED  BY <1>5, <2>2, <2>3 DEF bind_can, Ends, TableEnd, kernel, set_server_socket_to_connection_can
<1>6. ASSUME NEW fd \in Fd, bind_udp(fd) \/ connect(fd)
      PROVE  Good
  <2> DEFINE A == Append(connections, NewSlot(TargetPort, FALSE))
  <2>1. phase = "run" /\ backlog' = backlog
    BY <1>6 DEF bind_udp, connect, kernel
  <2>2. CASE phase' \in {"released", "overrun", "exited"}
    BY <2>2
  <2>3. CASE connections' = connections /\ phase' = phase
    BY <1>now, <2>1, <2>3
  <2>4. CASE WithPort(connections, TargetPort) = {} /\ SetServerSocket(A, TargetPort, fd)
    <3>1. A \in Seq(Slots) /\ Clean(A) /\ WithPort(A, TargetPort) # {}
      BY <1>new, <2>1, <2>4
    <3>2. backlog = 0
      BY <1>none, <2>1, <2>4
    <3> HIDE DEF A
    <3>3. phase' = "asserted" => Full(connections')
      BY <2>1, <2>4, <3>1, RegisterFull
    <3> QED  BY <2>1, <3>2, <3>3
  <2> HIDE DEF Good
  <2>5. CASE bind_udp(fd)
    BY <2>2, <2>3, <2>4, <2>5 DEF bind_udp, BindUdpFirst, TableEnd, Ends, cache, connection_exists
  <2>6. CASE connect(fd)
    BY <2>2, <2>3, <2>4, <2>6 DEF connect, TableEnd, Ends, cache, connection_exists
  <2> QED  BY <1>6, <2>5, <2>6
<1>7. ASSUME NEW fd \in Fd, dup(fd)
      PROVE  Good
  <2>1. phase = "run" /\ backlog' \in {backlog, 0}
    BY <1>7 DEF dup, Duplicated
  <2>2. CASE connections' = connections /\ phase' = phase
    BY <1>now, <2>1, <2>2
  <2>3. ASSUME NEW new \in Fd, server_socket_exists(connections, fd),
               SetServerSocket(connections, server_socket_to_port(connections, fd), new)
        PROVE  Good
    <3>1. /\ phase' = "asserted" => Full(connections')
          /\ phase' = "run" /\ Pending(connections) => Pending(connections')
      BY <1>type, <1>now, <2>1, <2>3, RegisterDup
    <3> QED  BY <1>now, <2>1, <3>1
  <2> QED  BY <1>7, <2>2, <2>3 DEF dup, Free
<1>8. ASSUME NEW fd \in Fd, NEW new \in Fd, dup2(fd, new)
      PROVE  Good
  <2> DEFINE D == disable_connection_by_server_socket(connections, new)
  <2>1. phase = "run" /\ backlog' \in {backlog, 0} /\ fd # new
    BY <1>8 DEF dup2, Duplicated, OrdinaryDup
  <2>2. CASE connections' = connections /\ phase' = phase
    BY <1>now, <2>1, <2>2
  <2>3. CASE /\ server_socket_exists(connections, fd)
             /\ SetServerSocket(D, server_socket_to_port(D, fd), new)
    <3>1. /\ D \in Seq(Slots) /\ Clean(D)
          /\ \A g : server_socket_exists(D, g) <=> server_socket_exists(connections, g) /\ g # new
      BY <1>type, <1>now, <2>1, DisabledAgrees
    <3>2. Pending(connections) => Pending(D)
      BY <1>type, DisabledPending
    <3> HIDE DEF D
    <3>3. server_socket_exists(D, fd)
      BY <2>1, <2>3, <3>1
    <3>4. /\ phase' = "asserted" => Full(connections')
          /\ phase' = "run" /\ Pending(D) => Pending(connections')
      BY <2>1, <2>3, <3>1, <3>3, RegisterDup
    <3> QED  BY <1>now, <2>1, <3>2, <3>4
  <2> HIDE DEF Good
  <2> QED  BY <1>8, <2>2, <2>3 DEF dup2, cache
<1>9. ASSUME NEW fd \in Fd, NEW new \in Fd, dup3(fd, new)
      PROVE  Good
  BY <1>9, <1>now DEF dup3, Ends, Duplicated, cache
<1>10. ASSUME NEW fd \in Fd, close(fd)
       PROVE  Good
  <2> DEFINE D == disable_connection_by_server_socket(connections, fd)
  <2>1. /\ phase = "run" /\ phase' \in {"run", "released"} /\ backlog' \in {backlog, 0}
        /\ connections' = connections \/ connections' = D
    BY <1>10 DEF close, Closed, Ends, cache, kernel
  <2>2. Pending(connections) => Pending(D)
    BY <1>type, DisabledPending
  <2> HIDE DEF D
  <2> QED  BY <1>now, <2>1, <2>2
<1>11. ASSUME NEW fd \in Fd, read(fd) \/ unsupported(fd)
       PROVE  Good
  BY <1>11, <1>now DEF read, unsupported, Ends, cache, kernel
<1> HIDE DEF Good
<1> QED  BY <1>1, <1>2, <1>3, <1>4, <1>5, <1>6, <1>7, <1>8, <1>9, <1>10, <1>11, <1>prime
            DEF Next, Call

\* The hooks' assertions fail only when a connection has no room for another
\* descriptor: accept, bind, connect, dup and dup2 always find their connection.
THEOREM AssertsCorrect ==
    ASSUME OrdinaryDup
    PROVE  Spec => []OnlyFullAsserts
<1>1. Init => WaitInv /\ OnlyFullAsserts
  BY DEF Init, WaitInv, OnlyFullAsserts
<1>2. IInv /\ CacheInv /\ WaitInv /\ OnlyFullAsserts /\ [Next]_vars => WaitInv' /\ OnlyFullAsserts'
  BY AssertStep
<1> QED  BY <1>1, <1>2, CacheInvCorrect, PTL DEF Spec
=============================================================================
