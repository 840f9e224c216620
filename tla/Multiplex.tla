----------------------------- MODULE Multiplex -----------------------------
(***************************************************************************)
(* server_multiplex (server.c): several servers in one process.  It builds *)
(* a table with one listening socket per server and address, and then polls*)
(* them all and calls server_accept for each one that has a client waiting.*)
(* What server_accept does is in module SessionServer; here it takes one   *)
(* connection from the listen queue, or fails to.                          *)
(*                                                                         *)
(* Table positions count from 0, as in the code.                           *)
(***************************************************************************)
EXTENDS Integers, Sequences, FiniteSets

CONSTANTS
  Constructors,   \* the number of constructors passed to server_multiplex
  Addresses,      \* the number of addresses in bind_addr
  LocalOnes,      \* the constructors that make PF_LOCAL servers
  Port,           \* the ports that the other constructors ask for; one that
                  \* is not in the domain keeps the default
  ControllerMax,  \* CONTROLLER_MAX
  Earlier,        \* how many controllers may have been registered before
  MaxPending      \* the length of a listen queue (a bound)

(* The port numbers that a server can be given. *)
Ports == 1..65535

ASSUME SizeAssumption ==
  /\ Constructors \in Nat \ {0} /\ Addresses \in Nat \ {0}
  /\ ControllerMax \in Nat \ {0} /\ MaxPending \in Nat \ {0}
ASSUME SetAssumption ==
  /\ LocalOnes \subseteq 1..Constructors /\ Earlier \subseteq 0..(ControllerMax - 1)
  /\ DOMAIN Port \subseteq 1..Constructors
  /\ \A c \in DOMAIN Port : Port[c] \in Ports

VARIABLES
  root,         \* getuid() = 0
  phase,        \* where server_multiplex is
  cursor,       \* the constructor and the address that are next in the setup
  controllers,  \* CONTROLLER: the constructor each entry came from, from 1 on;
                \* 0 for one that the program registered itself
  handle,       \* the local variable controller_handle
  handler,      \* the table: the constructor, the controller_handle and the
                \* endpoint of each server
  pending,      \* the length of each server's listen queue
  broken,       \* the servers whose listening socket is in an error state
  revents,      \* what the last poll(2) reported for each
  i, j, n,      \* the variables of the scan
  served        \* the servers that the scan has accepted a client for

vars == <<root, phase, cursor, controllers, handle, handler, pending, broken,
          revents, i, j, n, served>>
setup == <<root, cursor, controllers, handle, handler>>
clients == <<pending, broken>>

(* The size of the tables that are allocated, and pfd_count in the end. *)
Allocated == Addresses * Constructors
pfd_count == Len(handler)
Positions == 0..(Allocated - 1)

(* An address, from 1 on, and a port; 0 and the constructor for a PF_LOCAL *)
(* server, whose address is a path of its own.                             *)
Endpoints == (0..Addresses) \X Nat

TypeOK ==
  /\ root \in BOOLEAN
  /\ phase \in {"setup", "failed", "poll", "scan", "unhandled", "wild"}
  /\ cursor \in (1..(Constructors + 1)) \X (1..Addresses)
  /\ controllers \in Seq(0..Constructors) /\ Len(controllers) < ControllerMax
  /\ handle \in 0..(ControllerMax - 1)
  /\ handler \in Seq((1..Constructors) \X (1..(ControllerMax - 1)) \X Endpoints)
  /\ pending \in [Positions -> 0..MaxPending]
  /\ broken \subseteq Positions
  /\ revents \in [Positions -> {"none", "in", "err"}]
  /\ i \in Nat /\ j \in Nat /\ n \in Nat
  /\ served \subseteq Positions

Init ==
  /\ root \in BOOLEAN
  /\ phase = "setup"
  /\ cursor = <<1, 1>>
  /\ \E k \in Earlier : controllers = [e \in 1..k |-> 0]
  /\ handle = 0 /\ handler = <<>>
  /\ pending = [p \in Positions |-> 0] /\ broken = {}
  /\ revents = [p \in Positions |-> "none"]
  /\ i = 0 /\ j = 0 /\ n = 0
  /\ served = {}

-----------------------------------------------------------------------------
(* Mutant: the controller is registered for the first server only. *)
RegisterOnce == cursor = <<1, 1>>

(* The controller is registered with the first address of each server. *)
MustRegister == cursor[2] = 1

(* session_controller_register *)
Register(c) ==
  /\ controllers' = Append(controllers, c)
  /\ handle' = Len(controllers) + 1

(* Where the two loops are after the server of constructor c, address a:   *)
(* there is one PF_LOCAL server only.                                      *)
Following(c, a) ==
  IF c \in LocalOnes \/ a = Addresses THEN <<c + 1, 1>> ELSE <<c, a + 1>>

(* server_new, and the constructor that changes what server_new has set. *)
server_new == -1      \* the port of the new server
Configured(c) == IF c \in DOMAIN Port THEN Port[c] ELSE server_new

(* htons(3) and ntohs(3), on a little-endian machine *)
htons(p) == (p % 256) * 256 + (p % 65536) \div 256

(* socket_new_inet: the port of an unprivileged user is moved.  The value  *)
(* is in network byte order ...                                            *)
socket_new_inet(p) ==
  htons(IF ~root /\ p <= 1024 THEN p + 10000 ELSE p)

(* ... in which socket_bind_inet compares it and moves it again. *)
socket_bind_inet(q) == IF ~root /\ q <= 1024 THEN q + 1000 ELSE q

(* Where the server of constructor c, address a, is to listen. *)
Endpoint(c, a) ==
  IF c \in LocalOnes THEN <<0, c>>
  ELSE <<a, htons(socket_bind_inet(socket_new_inet(Configured(c))))>>

(* bind(2): reserved ports are for root, and no two sockets have the same  *)
(* address and port.  The file of a PF_LOCAL socket is unlinked before.    *)
Bindable(e) ==
  e[1] # 0 => /\ root \/ e[2] >= 1024
              /\ \A p \in 1..Len(handler) : handler[p][3] # e

(* One server: its object, its socket, its controller and its table entry. *)
SetupServer ==
  /\ phase = "setup" /\ cursor[1] <= Constructors
  /\ Len(controllers) + 1 < ControllerMax \/ ~MustRegister
  /\ IF MustRegister THEN Register(cursor[1]) ELSE UNCHANGED <<controllers, handle>>
  /\ LET e == Endpoint(cursor[1], cursor[2]) IN
       /\ Bindable(e)
       /\ handler' = Append(handler, <<cursor[1], handle', e>>)
  /\ cursor' = Following(cursor[1], cursor[2])
  /\ UNCHANGED <<root, phase, clients, revents, i, j, n, served>>

(* A constructor or a system call fails before the controller is           *)
(* registered, or the table of controllers is full ...                     *)
SetupFails ==
  /\ phase = "setup" /\ cursor[1] <= Constructors
  /\ phase' = "failed"
  /\ UNCHANGED <<setup, clients, revents, i, j, n, served>>

(* ... or socket_bind fails after that: the controller stays in its table. *)
BindFails ==
  /\ phase = "setup" /\ cursor[1] <= Constructors
  /\ MustRegister /\ Len(controllers) + 1 < ControllerMax
  /\ Register(cursor[1])
  /\ phase' = "failed"
  /\ UNCHANGED <<root, cursor, handler, clients, revents, i, j, n, served>>

SetupDone ==
  /\ phase = "setup" /\ cursor[1] > Constructors
  /\ phase' = "poll"
  /\ UNCHANGED <<setup, clients, revents, i, j, n, served>>

-----------------------------------------------------------------------------
(* A client connects to server p. *)
Arrive(p) ==
  /\ p < pfd_count /\ pending[p] < MaxPending
  /\ pending' = [pending EXCEPT ![p] = @ + 1]
  /\ UNCHANGED <<phase, setup, broken, revents, i, j, n, served>>

(* Its listening socket gets POLLERR, POLLHUP or POLLNVAL. *)
Break(p) ==
  /\ p < pfd_count /\ p \notin broken
  /\ broken' = broken \cup {p}
  /\ UNCHANGED <<phase, setup, pending, revents, i, j, n, served>>

(* Mutant: the last descriptor is not polled. *)
ReadyButLast == {p \in 0..(pfd_count - 2) : pending[p] > 0 \/ p \in broken}

(* The descriptors that poll(2) has something to report for. *)
Ready == {p \in 0..(pfd_count - 1) : pending[p] > 0 \/ p \in broken}

(* poll(2); EINTR and the retry after it change nothing. *)
Poll ==
  /\ phase = "poll"
  /\ Ready # {}
  /\ i' = Cardinality(Ready)
  /\ revents' = [p \in Positions |->
                   IF p \notin Ready THEN "none"
                   ELSE IF pending[p] > 0 THEN "in" ELSE "err"]
  /\ j' = 0 /\ n' = 0 /\ served' = {}
  /\ phase' = "scan"
  /\ UNCHANGED <<setup, clients>>

(* Mutant: the scan stops at the first client. *)
StopAtFirst == n <= pfd_count /\ j < i /\ j = 0

(* The condition of the scan's loop. *)
Scanning == n <= pfd_count /\ j < i

(* One descriptor of the table; an error is logged and not counted.  The   *)
(* result of server_accept is ignored.                                     *)
Examine ==
  /\ phase = "scan" /\ Scanning
  /\ n < pfd_count
  /\ n' = n + 1
  /\ \/ /\ revents[n] = "in"
        /\ \/ pending' = [pending EXCEPT ![n] = @ - 1]
           \/ UNCHANGED pending        \* accept(2) fails
        /\ j' = j + 1
        /\ served' = served \cup {n}
     \/ /\ revents[n] # "in"
        /\ UNCHANGED <<pending, j, served>>
  /\ UNCHANGED <<phase, setup, broken, revents, i>>

(* The loop goes one past the end of the table, where there is anything: if*)
(* POLLIN is set there, server_accept is called on a wild pointer.         *)
ExaminePast ==
  /\ phase = "scan" /\ Scanning
  /\ n = pfd_count
  /\ n' = n + 1
  /\ phase' \in {"scan", "wild"}
  /\ UNCHANGED <<setup, clients, revents, i, j, served>>

(* The test for unhandled connections. *)
Unhandled == j < i

(* "Ensure that all connections were handled" *)
EndScan ==
  /\ phase = "scan" /\ ~Scanning
  /\ phase' = IF Unhandled THEN "unhandled" ELSE "poll"
  /\ UNCHANGED <<setup, clients, revents, i, j, n, served>>

Loop ==
  \/ SetupServer \/ SetupFails \/ BindFails \/ SetupDone
  \/ Poll \/ Examine \/ ExaminePast \/ EndScan

Next ==
  \/ Loop
  \/ \E p \in Positions : Arrive(p) \/ Break(p)

Spec == Init /\ [][Next]_vars

-----------------------------------------------------------------------------
(* Properties. *)

(* Every server in the table runs the controller of its own constructor,   *)
(* and the table is large enough for them, one per constructor and address *)
(* and one per PF_LOCAL constructor.  Run by root, it listens on the port  *)
(* that its constructor has asked for.                                     *)
HandlersMatch ==
  /\ TypeOK
  /\ pfd_count <= Allocated
  /\ \A p \in 1..pfd_count :
       /\ controllers[handler[p][2]] = handler[p][1]
       /\ root /\ handler[p][1] \in DOMAIN Port \ LocalOnes =>
            handler[p][3][2] = Port[handler[p][1]]
  /\ phase = "poll" =>
       \A c \in 1..Constructors :
         Cardinality({p \in 1..pfd_count : handler[p][1] = c})
           = IF c \in LocalOnes THEN 1 ELSE Addresses

(* When a scan is over, each server that poll(2) reported a client for has *)
(* been served, also when other sockets had errors.  As long as poll(2)    *)
(* reports no error condition, the scan also stays within the table, and   *)
(* server_multiplex never gives up because of unhandled connections.       *)
NoErrors == \A p \in Positions : revents[p] # "err"
AllServed ==
  /\ phase \in {"poll", "unhandled"} => served = {p \in Positions : revents[p] = "in"}
  /\ NoErrors => phase # "unhandled" /\ (phase = "scan" => n <= pfd_count)

(* Once the servers are set up, and until a listening socket breaks,       *)
(* server_accept is called in the end for every server that has a client   *)
(* waiting, however busy the others are.                                   *)
NoStarvation ==
  \A p \in Positions :
    pending[p] > 0 ~> \/ phase = "scan" /\ p \in served
                     \/ phase = "failed" \/ broken # {}
=============================================================================
