---------------------------- MODULE SocketCache ----------------------------
(***************************************************************************)
(* The agent's socket cache (netfuzz/socket_cache.c) and the libc hooks    *)
(* that maintain it (netfuzz/inject.c).  The cache is a table of           *)
(* connections; the hooks decide from it which descriptors of the target   *)
(* are served from the fuzzer's bytecode instead of from the kernel.       *)
(*                                                                         *)
(* The client_sockets list of a connection is left out: it is written once *)
(* per connection and read by no hook.                                     *)
(*                                                                         *)
(* One action is one hooked libc call, with every call it makes.  The      *)
(* kernel's descriptor table (kind, alias, backlog) is external: it is     *)
(* modelled as far as the hooks can tell its states apart.                 *)
(***************************************************************************)
EXTENDS Integers, Sequences, FiniteSets, Functions

CONSTANTS
    Fd,               \* descriptor numbers
    Builds,           \* compile-time modes: of "TCP", "CAN", "UDP", "CLIENT"
    TargetPort,       \* the port given with --nyx_net_port
    MAX_CONNECTIONS,  \* slots of the table (16)
    MaxSockets,       \* entries of server_sockets[] (8)
    Calls             \* the optional calls this target makes

ASSUME SocketCacheAssumption ==
    /\ Builds \subseteq {"TCP", "CAN", "UDP", "CLIENT"}
    /\ TargetPort \in Nat \ {0}
    /\ MAX_CONNECTIONS \in 1..255
    /\ MaxSockets \in 1..255
    /\ Calls \subseteq {"dup", "dup2", "dup2self", "dup2over", "dup3", "other"}

VARIABLES
    build,           \* the mode the agent was compiled for
    connections,     \* the used slots of connections[], in order
    active_con_num,  \* slots not disabled, as the code counts them
    init_done,       \* init_nyx has taken the root snapshot
    phase,           \* "run", or how the execution ended
    kind,            \* kernel: what each descriptor refers to
    alias,           \* kernel: the descriptors sharing its open file
    backlog          \* kernel: connections waiting on the target port

cache  == <<connections, active_con_num>>
kernel == <<kind, alias, backlog>>
vars   == <<build, connections, active_con_num, init_done, phase, kind, alias, backlog>>

Phases == {"run",
           "released",   \* HYPERCALL_KAFL_RELEASE: back to the snapshot
           "exited",     \* exit() in a hook
           "asserted",   \* a failed assert()
           "overrun",    \* a write behind connections[MAX_CONNECTIONS - 1]
           "stuck"}      \* while(1){}

Kinds == {"closed", "file", "tcp", "listen", "conn", "client", "can", "canbound",
          "udp", "udpbound"}

\* uint8_t arithmetic of the counters
Inc(n) == (n + 1) % 256
Dec(n) == (n + 255) % 256

Slots == [sockets : Seq(Fd), port : {0, TargetPort},
          is_can : BOOLEAN, disabled : BOOLEAN]

----------------------------------------------------------------------------
(***************************************************************************)
(* socket_cache.c.  T is the table; active_connections is Len(T).          *)
(***************************************************************************)

Enabled(T) == {i \in DOMAIN T : ~ T[i].disabled}

First(S) == CHOOSE i \in S : \A j \in S : i <= j

\* The enabled slots that a loop over the table would stop at.
WithSocket(T, fd) == {i \in Enabled(T) : fd \in Range(T[i].sockets)}
WithPort(T, port) == {i \in Enabled(T) : T[i].port = port}
WithCan(T)        == {i \in Enabled(T) : T[i].is_can}

server_socket_exists(T, fd) == WithSocket(T, fd) # {}
connection_exists(T, port)  == WithPort(T, port) # {}
connection_exists_can(T)    == WithCan(T) # {}

\* Mutant: every cached descriptor is one of the target port.
AlwaysTargetPort(T, fd) == IF WithSocket(T, fd) = {} THEN -1 ELSE TargetPort

server_socket_to_port(T, fd) ==
    IF WithSocket(T, fd) = {} THEN -1 ELSE T[First(WithSocket(T, fd))].port

\* assert(server_sockets_num < 8) in add_server_socket and add_client_socket
HasRoom(slot, fd) == fd \in Range(slot.sockets) \/ Len(slot.sockets) < MaxSockets

\* Mutant: check_server_socket is not asked.
AddUnchecked(slot, fd) == [slot EXCEPT !.sockets = Append(@, fd)]

add_server_socket(slot, fd) ==
    IF fd \in Range(slot.sockets) THEN slot
    ELSE [slot EXCEPT !.sockets = Append(@, fd)]

\* fd joins slot i, the first one that matches.
Joined(T, i, fd) == [T EXCEPT ![i] = add_server_socket(T[i], fd)]

set_server_socket_to_connection(T, port, fd) == Joined(T, First(WithPort(T, port)), fd)
set_server_socket_to_connection_can(T, fd)   == Joined(T, First(WithCan(T)), fd)

\* Mutant: drops the last socket, whichever was closed.
CloseLast(slot, fd) == [slot EXCEPT !.sockets = SubSeq(@, 1, Len(@) - 1)]

\* Removes the socket by moving the later ones down.
close_server_socket(slot, fd) ==
    LET at == First({i \in DOMAIN slot.sockets : slot.sockets[i] = fd})
    IN  [slot EXCEPT !.sockets = [i \in 1..(Len(slot.sockets) - 1) |->
                                     IF i < at THEN slot.sockets[i] ELSE slot.sockets[i + 1]]]

\* Mutant: a CAN connection is given no port, as -1 in the uint16_t.
NewSlotNoPort(port, can) ==
    [sockets |-> <<>>, port |-> IF can THEN -1 ELSE port, is_can |-> can, disabled |-> FALSE]

NewSlot(port, can) == [sockets |-> <<>>, port |-> port, is_can |-> can, disabled |-> FALSE]

\* The slots that disable_connection_by_server_socket empties: it closes fd in
\* every enabled slot up to and including the first of these, and stops there.
Emptied(T, fd) == {i \in WithSocket(T, fd) : Len(T[i].sockets) = 1}

disable_connection_by_server_socket(T, fd) ==
    LET last == IF Emptied(T, fd) = {} THEN Len(T) ELSE First(Emptied(T, fd))
    IN  [i \in DOMAIN T |->
            IF i \in WithSocket(T, fd) /\ i <= last
            THEN [close_server_socket(T[i], fd) EXCEPT !.disabled = i \in Emptied(T, fd)]
            ELSE T[i]]

\* Mutant: counts down for every socket, not for every connection.
CountSockets(T, n, fd) == IF WithSocket(T, fd) = {} THEN n ELSE Dec(n)

ActiveAfterDisable(T, n, fd) == IF Emptied(T, fd) = {} THEN n ELSE Dec(n)

\* What select adds to the kernel's answer: one per cached entry in the set.
set_select_fds(T, S) ==
    Cardinality({e \in Enabled(T) \X (1..MaxSockets) :
                    /\ e[2] \in DOMAIN T[e[1]].sockets
                    /\ T[e[1]].sockets[e[2]] \in S})

----------------------------------------------------------------------------
(***************************************************************************)
(* The kernel's side of the calls (external).                              *)
(***************************************************************************)

Free == {fd \in Fd : kind[fd] = "closed"}

Opened(fd, k) == /\ kind'  = [kind EXCEPT ![fd] = k]
                 /\ alias' = [alias EXCEPT ![fd] = {fd}]

Closed(fd) == /\ kind'  = [kind EXCEPT ![fd] = "closed"]
              /\ alias' = [f \in Fd |-> IF f = fd THEN {} ELSE alias[f] \ {fd}]
              /\ backlog' = IF \E f \in Fd \ {fd} : kind[f] = "listen" THEN backlog ELSE 0

\* newfd becomes another name of oldfd's open file.
Duplicated(oldfd, newfd) ==
    LET group == alias[oldfd] \cup {newfd}
    IN  /\ kind'  = [kind EXCEPT ![newfd] = kind[oldfd]]
        /\ alias' = [f \in Fd |-> IF f \in group THEN group ELSE alias[f] \ {newfd}]
        /\ backlog' = IF \E f \in Fd : kind'[f] = "listen" THEN backlog ELSE 0

\* Binding or listening changes the open file, whatever its name.
Became(fd, k) == [f \in Fd |-> IF f \in alias[fd] THEN k ELSE kind[f]]

----------------------------------------------------------------------------
(***************************************************************************)
(* inject.c: the hooked calls.                                             *)
(***************************************************************************)

Ends(how) == phase' = how

Init == /\ build \in Builds
        /\ connections = <<>>
        /\ active_con_num = 0
        /\ init_done = FALSE
        /\ phase = "run"
        /\ kind = [fd \in Fd |-> "closed"]
        /\ alias = [fd \in Fd |-> {}]
        /\ backlog = 0

\* open() or socket() in the target: not hooked.
Open(fd, k) == /\ phase = "run"
               /\ fd \in Free
               /\ \/ k = "file"
                  \/ k = "tcp" /\ build # "UDP"
                  \/ k = "can" /\ build = "CAN"
                  \/ k = "udp" /\ build = "UDP"
               /\ Opened(fd, k)
               /\ UNCHANGED <<cache, init_done, phase, backlog>>

\* add_connection and add_connection_can up to the write of the new slot: the
\* limit is tested on active_con_num, the slot is indexed by active_connections.
TableRelease == active_con_num >= MAX_CONNECTIONS
TableOverrun == ~ TableRelease /\ Len(connections) >= MAX_CONNECTIONS
TableRoom    == ~ TableRelease /\ ~ TableOverrun

TableEnd == \/ TableRelease /\ Ends("released")
            \/ TableOverrun /\ Ends("overrun")

\* listen after real_listen, for a first listen on the target port: a new
\* connection, then connect_to_server, which exits when it cannot connect.
ListenFirst(fd, kinds) ==
    LET slot == NewSlot(TargetPort, FALSE)
        up   == \E f \in Fd : kinds[f] = "listen"
    IN  \/ /\ TableEnd
           /\ kind' = kinds
           /\ UNCHANGED <<cache, alias, backlog>>
        \/ /\ TableRoom
           /\ ~ up \/ Free = {}
           /\ connections' = Append(connections, slot)
           /\ active_con_num' = Inc(active_con_num)
           /\ Ends("exited")
           /\ kind' = kinds
           /\ UNCHANGED <<alias, backlog>>
        \/ /\ TableRoom
           /\ up
           /\ \E c \in Free :
                /\ connections' = Append(connections, slot)
                /\ kind' = [kinds EXCEPT ![c] = "client"]
                /\ alias' = [alias EXCEPT ![c] = {c}]
           /\ active_con_num' = Inc(active_con_num)
           /\ backlog' = backlog + 1
           /\ UNCHANGED phase

listen(fd, ok) ==
    /\ phase = "run"
    /\ build \in {"TCP", "CAN"}
    /\ kind[fd] \in {"tcp", "listen"}
    /\ ok => ~ \E f \in Fd \ alias[fd] : kind[f] = "listen"
    /\ LET kinds == IF ok THEN Became(fd, "listen") ELSE kind
       IN  \/ /\ connection_exists(connections, TargetPort)
              /\ kind' = kinds
              /\ UNCHANGED <<cache, phase, alias, backlog>>
           \/ /\ ~ connection_exists(connections, TargetPort)
              /\ ListenFirst(fd, kinds)
    /\ UNCHANGED init_done

\* A hook registers fd with the connection of a port; a failed assert() of
\* the hook (no such connection) or of add_server_socket (no room) aborts.
SetServerSocket(T, port, fd) ==
    \/ /\ WithPort(T, port) # {}
       /\ HasRoom(T[First(WithPort(T, port))], fd)
       /\ connections' = set_server_socket_to_connection(T, port, fd)
       /\ UNCHANGED phase
    \/ /\ WithPort(T, port) # {} => ~ HasRoom(T[First(WithPort(T, port))], fd)
       /\ connections' = T
       /\ Ends("asserted")

\* accept and accept4 on the listening socket: the waiting connection becomes
\* a descriptor, and the descriptor a server socket of the target port.
accept4(fd) ==
    /\ phase = "run"
    /\ kind[fd] = "listen"
    /\ backlog > 0
    /\ \E new \in Free :
         /\ Opened(new, "conn")
         /\ backlog' = backlog - 1
         /\ SetServerSocket(connections, TargetPort, new)
    /\ UNCHANGED <<active_con_num, init_done>>

----------------------------------------------------------------------------
\* bind of a CAN socket: the connection is created even when real_bind failed.
bind_can(fd, ok) ==
    /\ phase = "run"
    /\ build = "CAN"
    /\ \/ /\ kind[fd] \in {"closed", "file"}      \* getsockname fails: exit(1)
          /\ ~ ok
          /\ Ends("exited")
          /\ UNCHANGED <<cache, kernel>>
       \/ /\ kind[fd] \in {"can", "canbound"}
          /\ kind' = IF ok THEN Became(fd, "canbound") ELSE kind
          /\ UNCHANGED <<alias, backlog>>
          /\ LET exists == connection_exists_can(connections)
                 T == IF exists THEN connections
                       ELSE Append(connections, NewSlot(0, TRUE))
             IN  \/ /\ ~ exists /\ TableEnd
                    /\ UNCHANGED cache
                 \/ /\ exists \/ TableRoom
                    /\ active_con_num' = IF exists THEN active_con_num
                                         ELSE Inc(active_con_num)
                    /\ \/ /\ ~ ok
                          /\ connections' = T
                          /\ UNCHANGED phase
                       \/ /\ ok /\ HasRoom(T[First(WithCan(T))], fd)
                          /\ connections' = set_server_socket_to_connection_can(T, fd)
                          /\ UNCHANGED phase
                       \/ /\ ok /\ ~ HasRoom(T[First(WithCan(T))], fd)
                          /\ connections' = T
                          /\ Ends("asserted")
    /\ UNCHANGED init_done

\* bind of a UDP socket to the target port, once real_bind succeeded.
BindUdpFirst(fd, kinds) ==
    LET slot == NewSlot(TargetPort, FALSE)
    IN  \/ /\ TableEnd
           /\ kind' = kinds
           /\ UNCHANGED <<cache, alias>>
        \/ /\ TableRoom
           /\ Free = {}
           /\ connections' = Append(connections, slot)
           /\ active_con_num' = Inc(active_con_num)
           /\ Ends("exited")
           /\ kind' = kinds
           /\ UNCHANGED alias
        \/ /\ TableRoom
           /\ \E c \in Free :
                /\ kind' = [kinds EXCEPT ![c] = "client"]
                /\ alias' = [alias EXCEPT ![c] = {c}]
                /\ SetServerSocket(Append(connections, slot),
                                   TargetPort, fd)
           /\ active_con_num' = Inc(active_con_num)

bind_udp(fd) ==
    /\ phase = "run"
    /\ build = "UDP"
    /\ kind[fd] = "udp"
    /\ \/ /\ connection_exists(connections, TargetPort)
          /\ kind' = Became(fd, "udpbound")
          /\ UNCHANGED <<cache, phase, alias>>
       \/ /\ ~ connection_exists(connections, TargetPort)
          /\ BindUdpFirst(fd, Became(fd, "udpbound"))
    /\ UNCHANGED <<init_done, backlog>>

\* connect in client mode: connect_to_client plays the server on the target
\* port and exits when its own bind fails (that port is still taken, or there is
\* no descriptor to bind); the target connects to an address of this machine, and
\* whether accept finds a descriptor (new = srv: it does not) nobody looks at.
\* Any other connect ends the execution.
connect(fd) ==
    /\ phase = "run"
    /\ build = "CLIENT"
    /\ kind[fd] = "tcp"
    /\ \/ /\ connection_exists(connections, TargetPort)
          /\ Ends("released")
          /\ UNCHANGED <<cache, kernel>>
       \/ /\ ~ connection_exists(connections, TargetPort)
          /\ \/ /\ \/ \E f \in Fd : kind[f] = "listen"
                   \/ Free = {}
                /\ Ends("exited")
                /\ UNCHANGED <<cache, kernel>>
             \/ \E srv, new \in Free :
                   /\ ~ \E f \in Fd : kind[f] = "listen"
                   /\ srv = new => Free = {srv}
                   /\ kind' = [Became(fd, "conn") EXCEPT ![new] = "client", ![srv] = "listen"]
                   /\ alias' = [alias EXCEPT ![srv] = {srv}, ![new] = {new}]
                   /\ UNCHANGED backlog
                   /\ \/ /\ TableEnd
                         /\ UNCHANGED cache
                      \/ /\ TableRoom
                         /\ active_con_num' = Inc(active_con_num)
                         /\ SetServerSocket(Append(connections, NewSlot(TargetPort, FALSE)),
                                            TargetPort, fd)
    /\ UNCHANGED init_done

----------------------------------------------------------------------------
\* dup: the new descriptor joins the first connection with oldfd's port.
dup(oldfd) ==
    /\ phase = "run"
    /\ "dup" \in Calls
    /\ kind[oldfd] # "closed"
    /\ \E new \in Free :
         /\ Duplicated(oldfd, new)
         /\ \/ /\ ~ server_socket_exists(connections, oldfd)
               /\ UNCHANGED <<connections, phase>>
            \/ /\ server_socket_exists(connections, oldfd)
               /\ SetServerSocket(connections,
                                  server_socket_to_port(connections, oldfd), new)
    /\ UNCHANGED <<active_con_num, init_done>>

\* dup2 of a cached descriptor: newfd is dropped from the cache, then joins
\* the connection with oldfd's port.  dup2 of any other one: the kernel's.
dup2(oldfd, newfd) ==
    /\ phase = "run"
    /\ "dup2" \in Calls
    /\ kind[oldfd] # "closed"
    /\ oldfd = newfd => "dup2self" \in Calls
    /\ Duplicated(oldfd, newfd)
    /\ \/ /\ ~ server_socket_exists(connections, oldfd)
          /\ server_socket_exists(connections, newfd) => "dup2over" \in Calls
          /\ UNCHANGED <<cache, phase>>
       \/ /\ server_socket_exists(connections, oldfd)
          /\ LET T == disable_connection_by_server_socket(connections, newfd)
             IN  /\ active_con_num' = ActiveAfterDisable(connections, active_con_num, newfd)
                 /\ SetServerSocket(T, server_socket_to_port(T, oldfd), newfd)
    /\ UNCHANGED init_done

\* dup3 of a cached descriptor never returns.
dup3(oldfd, newfd) ==
    /\ phase = "run"
    /\ "dup3" \in Calls
    /\ kind[oldfd] # "closed"
    /\ oldfd # newfd
    /\ \/ /\ server_socket_exists(connections, oldfd)
          /\ Ends("stuck")
          /\ UNCHANGED kernel
       \/ /\ ~ server_socket_exists(connections, oldfd)
          /\ server_socket_exists(connections, newfd) => "dup2over" \in Calls
          /\ Duplicated(oldfd, newfd)
          /\ UNCHANGED phase
    /\ UNCHANGED <<cache, init_done>>

\* Mutant: close without the test of get_active_connections().
CloseNoRelease(fd) ==
    /\ phase = "run"
    /\ kind[fd] # "closed"
    /\ connections' = disable_connection_by_server_socket(connections, fd)
    /\ active_con_num' = ActiveAfterDisable(connections, active_con_num, fd)
    /\ Closed(fd)
    /\ UNCHANGED <<phase, init_done>>

\* close and shutdown: the last active connection gone, the execution ends
\* before real_close.
close(fd) ==
    /\ phase = "run"
    /\ \/ /\ ~ server_socket_exists(connections, fd)
          /\ kind[fd] # "closed"
          /\ Closed(fd)
          /\ UNCHANGED <<cache, phase>>
       \/ /\ server_socket_exists(connections, fd)
          /\ connections' = disable_connection_by_server_socket(connections, fd)
          /\ active_con_num' = ActiveAfterDisable(connections, active_con_num, fd)
          /\ IF active_con_num' = 0
             THEN Ends("released") /\ UNCHANGED kernel
             ELSE Closed(fd) /\ UNCHANGED phase
    /\ UNCHANGED init_done

\* read, recv, recvfrom, readv, getc and fgets of a cached descriptor: the
\* first of them takes the root snapshot; out of bytecode the execution ends.
\* In a CAN build read, recv and recvfrom first ask the kernel for the family.
read(fd) ==
    /\ phase = "run"
    /\ server_socket_exists(connections, fd)
    /\ \/ /\ init_done' = TRUE
          /\ \/ UNCHANGED phase
             \/ Ends("released")
       \/ /\ build = "CAN"
          /\ kind[fd] \in {"closed", "file"}
          /\ Ends("exited")
          /\ UNCHANGED init_done
    /\ UNCHANGED <<cache, kernel>>

\* recvmsg (exit(0)), preadv and pwritev (not_implemented) of a cached one.
unsupported(fd) ==
    /\ phase = "run"
    /\ "other" \in Calls
    /\ server_socket_exists(connections, fd)
    /\ Ends("exited")
    /\ UNCHANGED <<cache, init_done, kernel>>

Call(fd) == \/ \E k \in Kinds : Open(fd, k)
            \/ \E ok \in BOOLEAN : listen(fd, ok) \/ bind_can(fd, ok)
            \/ accept4(fd)
            \/ bind_udp(fd)
            \/ connect(fd)
            \/ dup(fd)
            \/ \E newfd \in Fd : dup2(fd, newfd) \/ dup3(fd, newfd)
            \/ close(fd)
            \/ read(fd)
            \/ unsupported(fd)

Next == \E fd \in Fd : Call(fd) /\ UNCHANGED build

Spec == Init /\ [][Next]_vars
----------------------------------------------------------------------------
(***************************************************************************)
(* Properties.                                                             *)
(***************************************************************************)

\* The table, the counter and the kernel's descriptors have their types.
TypeOK == /\ connections \in Seq(Slots)
          /\ active_con_num \in 0..255
          /\ init_done \in BOOLEAN
          /\ phase \in Phases
          /\ kind \in [Fd -> Kinds]
          /\ alias \in [Fd -> SUBSET Fd]
          /\ backlog \in Nat

\* get_active_connections() is the number of connections not disabled: each
\* connection is counted once when it is added and once when it is disabled,
\* although a slot is never used again and close and dup2 both disable.
ActiveCountExact == active_con_num = Cardinality(Enabled(connections))

\* The descriptors the cache answers for.
Cached == {fd \in Fd : server_socket_exists(connections, fd)}

\* select reports each cached descriptor of the caller's set once: the loop
\* over all connections counts no descriptor twice, in one or in two of them.
SelectExact ==
    phase = "run" => \A S \in SUBSET Fd :
        set_select_fds(connections, S) = Cardinality(S \cap Cached)

\* What the cache says of a descriptor is what the kernel says: a descriptor
\* served from the bytecode is an open socket of that very connection, whatever
\* was closed, duplicated or opened again under the same number; and every name
\* the target has for an accepted connection is in the cache, so that no read of
\* it waits in the kernel for a peer that never sends.
ServedKind(slot) == IF slot.is_can THEN "canbound"
                    ELSE IF build = "UDP" THEN "udpbound" ELSE "conn"
CacheMatchesKernel ==
    phase = "run" =>
        /\ \A i \in Enabled(connections) : \A fd \in Range(connections[i].sockets) :
              kind[fd] = ServedKind(connections[i])
        /\ build \in {"TCP", "CAN"} =>
              \A fd \in Fd : kind[fd] = "conn" => server_socket_exists(connections, fd)

\* The assertions of the hooks hold, but for the one that looks for room among
\* the sockets of a connection: accept, bind, connect, dup and dup2 always find
\* the connection their descriptor belongs to, although closes disable
\* connections and a new one for the port is only added by the next listen.
OnlyFullAsserts ==
    phase = "asserted" => \E i \in Enabled(connections) : Len(connections[i].sockets) = MaxSockets

\* The target never goes on without a connection: the call that disables the
\* last one ends the execution.
NeverIdle == (phase = "run" /\ connections # <<>>) => active_con_num > 0

\* close ends the execution only for the last descriptor of the last accepted
\* connection: never while the target still holds another one.
ReleaseIsLast ==
    [][(build \in {"TCP", "CAN"} /\ connections' # connections /\ phase' = "released")
         => Cardinality({fd \in Fd : kind[fd] = "conn"}) <= 1]_vars

\* The table is only written inside its bounds: at its limit the code leaves
\* the execution with a hypercall.
SlotInBounds == phase # "overrun"
=============================================================================
