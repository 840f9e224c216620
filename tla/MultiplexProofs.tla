-------------------------- MODULE MultiplexProofs --------------------------
(***************************************************************************)
(* Proofs about the start of a server process and about server_multiplex,  *)
(* for any number of servers, addresses and clients.                       *)
(***************************************************************************)
EXTENDS ServerStart, FiniteSetTheorems, TLAPS

(* The table is filled in the order of the two loops. *)
Filled ==
  /\ Len(handler) <= (cursor[1] - 1) * Addresses + cursor[2] - 1
  /\ cursor[2] > 1 => /\ cursor[1] \in (1..Constructors) \ LocalOnes
                      /\ handle \in 1..Len(controllers) /\ controllers[handle] = cursor[1]
  /\ phase \notin {"setup", "failed"} => cursor[1] = Constructors + 1

(* Each entry of the table has its own controller and port. *)
Entry(p) ==
  /\ handler[p][2] \in 1..Len(controllers)
  /\ controllers[handler[p][2]] = handler[p][1]
  /\ root /\ handler[p][1] \in DOMAIN Port \ LocalOnes =>
       handler[p][3][2] = Port[handler[p][1]]
Entries == \A p \in 1..Len(handler) : Entry(p)

(* The number of the servers of each constructor so far. *)
ServersOf(c) == {p \in 1..Len(handler) : handler[p][1] = c}
Wanted(c) ==
  IF c < cursor[1] THEN (IF c \in LocalOnes THEN 1 ELSE Addresses)
  ELSE IF c = cursor[1] THEN cursor[2] - 1 ELSE 0
Counts == \A c \in 1..Constructors : Cardinality(ServersOf(c)) = Wanted(c)

(* The scan has served the servers it has passed, and counts them; the     *)
(* clients that poll(2) reported for the others are still waiting.         *)
In == {p \in Positions : revents[p] = "in"}
Reported == {p \in Positions : revents[p] # "none"}
Scan ==
  /\ phase \in {"setup", "failed"} => served = {} /\ Reported = {}
  /\ phase \in {"poll", "unhandled"} => served = In
  /\ phase = "unhandled" => ~NoErrors
  /\ phase = "scan" =>
       /\ Reported \subseteq 0..(pfd_count - 1)
       /\ served = {p \in In : p < n}
       /\ j = Cardinality(served) /\ i = Cardinality(Reported)
       /\ n <= pfd_count + 1 /\ (NoErrors => n <= pfd_count)
       /\ \A p \in In : p >= n => pending[p] > 0

IInv == TypeOK /\ Filled /\ Entries /\ Counts /\ Scan

-----------------------------------------------------------------------------
LEMMA AllocatedNat == Allocated \in Nat /\ Allocated = Constructors * Addresses
BY SizeAssumption DEF Allocated

LEMMA PositionsFinite == IsFiniteSet(Positions)
BY AllocatedNat, FS_Interval DEF Positions

(* Swapping the bytes of a port twice gives the port. *)
LEMMA SwapRange ==
  ASSUME NEW p \in Int PROVE htons(p) \in Nat /\ htons(p) < 65536
<1>1. /\ (p % 256) * 256 + (p % 65536) \div 256 < 65536
      /\ (p % 256) * 256 + (p % 65536) \div 256 \in Nat
  OBVIOUS
<1> QED
  BY <1>1 DEF htons
LEMMA SwapTwice ==
  ASSUME NEW p \in Nat, p < 65536 PROVE htons(htons(p)) = p
<1> DEFINE lo == p % 256
           hi == p \div 256
           q == 256 * lo + hi
<1>1. /\ lo \in Nat /\ lo < 256 /\ hi \in Nat /\ hi < 256
      /\ p = 256 * hi + lo
  OBVIOUS
<1>2. p % 65536 = p
  OBVIOUS
<1>3. htons(p) = q
  BY <1>1, <1>2 DEF htons
<1> HIDE DEF lo, hi
<1>4. q % 256 = hi /\ q % 65536 = q /\ q \div 256 = lo
  BY <1>1
<1>5. htons(q) = 256 * hi + lo
  BY <1>1, <1>4 DEF htons
<1> HIDE DEF q
<1> QED
  BY <1>1, <1>3, <1>5

(* After an entry more there is still room in the table. *)
LEMMA Bound ==
  ASSUME NEW c \in Nat, NEW a \in 1..Addresses, NEW len \in Nat, c >= 1,
         len <= (c - 1) * Addresses + a - 1
  PROVE  /\ a = Addresses => len + 1 <= c * Addresses
         /\ len + 1 <= (c - 1) * Addresses + a
         /\ len + 1 <= c * Addresses
         /\ c <= Constructors => c * Addresses <= Constructors * Addresses
<1> DEFINE x == (c - 1) * Addresses
<1>0. Addresses \in Nat /\ Constructors \in Nat
  BY SizeAssumption
<1>1. c * Addresses = x + Addresses /\ x \in Nat
  BY <1>0
<1>2. c <= Constructors => c * Addresses <= Constructors * Addresses
  BY <1>0
<1> HIDE DEF x
<1> QED
  BY <1>0, <1>1, <1>2 DEF x

LEMMA PortRange ==
  ASSUME NEW c \in DOMAIN Port PROVE Port[c] \in Nat /\ Port[c] < 65536
<1>1. \A p \in Ports : p \in Nat /\ p < 65536
  BY DEF Ports
<1>2. Port[c] \in Ports
  BY SetAssumption
<1> QED
  BY <1>1, <1>2

LEMMA EndpointFacts ==
  ASSUME NEW c \in 1..Constructors, NEW a \in 1..Addresses, root \in BOOLEAN
  PROVE  /\ Endpoint(c, a) \in Endpoints
         /\ root /\ c \in DOMAIN Port \ LocalOnes => Endpoint(c, a)[2] = Port[c]
<1>1. Configured(c) \in Int
  BY PortRange DEF Configured, server_new
<1>2. ASSUME NEW p \in Int PROVE socket_new_inet(p) \in Nat
  <2> DEFINE moved == IF ~root /\ p <= 1024 THEN p + 10000 ELSE p
  <2>1. moved \in Int
    OBVIOUS
  <2> HIDE DEF moved
  <2>2. htons(moved) \in Nat
    BY <2>1, SwapRange
  <2> QED
    BY <2>2 DEF socket_new_inet, moved
<1>3. ASSUME NEW p \in Nat PROVE socket_bind_inet(p) \in Int
  BY <1>3 DEF socket_bind_inet
<1>4. htons(socket_bind_inet(socket_new_inet(Configured(c)))) \in Nat
  BY <1>1, <1>2, <1>3, SwapRange
<1>5. Endpoint(c, a) \in Endpoints
  BY <1>4, SizeAssumption DEF Endpoint, Endpoints
<1>6. ASSUME root, c \in DOMAIN Port \ LocalOnes PROVE Endpoint(c, a)[2] = Port[c]
  <2>1. Port[c] \in Nat /\ Port[c] < 65536
    BY <1>6, PortRange
  <2>2. socket_bind_inet(socket_new_inet(Configured(c))) = htons(Port[c])
    BY <1>6 DEF socket_bind_inet, socket_new_inet, Configured
  <2>3. htons(htons(Port[c])) = Port[c]
    BY <2>1, SwapTwice
  <2> QED
    BY <1>6, <2>2, <2>3 DEF Endpoint
<1> QED
  BY <1>5, <1>6

-----------------------------------------------------------------------------
LEMMA InitIInv == Init => IInv
<1> SUFFICES ASSUME Init PROVE IInv
  OBVIOUS
<1> USE SizeAssumption, SetAssumption
<1>1. PICK k \in Earlier : controllers = [e \in 1..k |-> 0]
  BY DEF Init
<1>2. k \in 0..(ControllerMax - 1)
  OBVIOUS
<1>3. controllers \in Seq(0..Constructors) /\ Len(controllers) = k
  BY <1>1, <1>2
<1>4. handler = <<>> /\ Len(handler) = 0
  BY DEF Init
<1>5. TypeOK
  BY <1>2, <1>3, <1>4 DEF Init, TypeOK
<1>6. Filled /\ Entries
  BY <1>4 DEF Init, Filled, Entries
<1>7. Counts
  <2>1. \A c \in 1..Constructors : ServersOf(c) = {}
    BY <1>4 DEF ServersOf
  <2>2. Cardinality({}) = 0
    BY FS_EmptySet
  <2>3. cursor[1] = 1 /\ cursor[2] = 1
    BY DEF Init
  <2>4. \A c \in 1..Constructors : Wanted(c) = 0
    BY <2>3 DEF Wanted
  <2> QED
    BY <2>1, <2>2, <2>4 DEF Counts
<1>8. Scan
  BY DEF Init, Scan, Reported
<1> QED
  BY <1>5, <1>6, <1>7, <1>8 DEF IInv

(* The table never outgrows its allocation. *)
LEMMA Room == IInv => Len(handler) \in Nat /\ Len(handler) <= Allocated
<1> SUFFICES ASSUME IInv PROVE Len(handler) \in Nat /\ Len(handler) <= Allocated
  OBVIOUS
<1> DEFINE c == cursor[1]
           a == cursor[2]
<1>1. c \in 1..(Constructors + 1) /\ a \in 1..Addresses /\ Len(handler) \in Nat
  BY DEF IInv, TypeOK
<1>2. Len(handler) <= (c - 1) * Addresses + a - 1
  BY DEF IInv, Filled
<1>3. CASE c <= Constructors
  <2>1. Len(handler) + 1 <= c * Addresses /\ c * Addresses <= Constructors * Addresses
    BY <1>1, <1>2, <1>3, SizeAssumption, Bound, SMTT(30)
  <2>2. c * Addresses \in Nat /\ Constructors * Addresses \in Nat
    BY <1>1, SizeAssumption
  <2> QED
    BY <1>1, <2>1, <2>2, AllocatedNat
<1>4. CASE c = Constructors + 1
  <2>1. a = 1
    BY <1>1, <1>4, SizeAssumption DEF IInv, Filled
  <2>2. (c - 1) * Addresses = Constructors * Addresses
    BY <1>4, SizeAssumption
  <2>3. Constructors * Addresses \in Nat
    BY SizeAssumption
  <2> QED
    BY <1>1, <1>2, <2>1, <2>2, <2>3, AllocatedNat
<1> QED
  BY <1>1, <1>3, <1>4, SizeAssumption

-----------------------------------------------------------------------------
(* An entry more in the table. *)
LEMMA SetupServerStep == ASSUME IInv, SetupServer PROVE IInv'
<1> DEFINE c == cursor[1]
           a == cursor[2]
           e == Endpoint(c, a)
           row == <<c, handle', e>>
           L == Len(handler)
<1> USE SizeAssumption, SetAssumption
<1>1. /\ phase = "setup" /\ c \in 1..Constructors /\ a \in 1..Addresses
      /\ handler' = Append(handler, row) /\ cursor' = Following(c, a)
      /\ UNCHANGED <<root, phase, pending, broken, revents, i, j, n, served>>
  BY DEF SetupServer, IInv, TypeOK, clients
<1>2. /\ L \in Nat /\ Len(controllers) \in Nat /\ root \in BOOLEAN
      /\ controllers \in Seq(0..Constructors) /\ Len(controllers) < ControllerMax
      /\ handler \in Seq((1..Constructors) \X (1..(ControllerMax - 1)) \X Endpoints)
  BY DEF IInv, TypeOK
<1>3. \/ a = 1 /\ Len(controllers) + 1 < ControllerMax
         /\ controllers' = Append(controllers, c) /\ handle' = Len(controllers) + 1
      \/ a > 1 /\ controllers' = controllers /\ handle' = handle
  BY <1>1 DEF SetupServer, MustRegister, Register
<1>4. /\ controllers' \in Seq(0..Constructors) /\ Len(controllers') < ControllerMax
      /\ Len(controllers') \in Nat
      /\ handle' \in 1..Len(controllers') /\ controllers'[handle'] = c
      /\ Len(controllers) <= Len(controllers')
      /\ \A h \in 1..Len(controllers) : controllers'[h] = controllers[h]
  <2>1. CASE a = 1
    <3>1. controllers' = Append(controllers, c) /\ handle' = Len(controllers) + 1
      BY <1>3, <2>1
    <3>2. /\ controllers' \in Seq(0..Constructors)
          /\ Len(controllers') = Len(controllers) + 1
      BY <1>1, <1>2, <3>1
    <3>3. /\ controllers'[Len(controllers) + 1] = c
          /\ \A h \in 1..Len(controllers) : controllers'[h] = controllers[h]
      BY <1>1, <1>2, <3>1
    <3> QED
      BY <1>2, <1>3, <2>1, <3>1, <3>2, <3>3
  <2>2. CASE a > 1
    <3>1. handle \in 1..Len(controllers) /\ controllers[handle] = c
      BY <2>2 DEF IInv, Filled
    <3> QED
      BY <1>2, <1>3, <2>2, <3>1
  <2> QED
    BY <1>1, <2>1, <2>2
<1>5. /\ e \in Endpoints
      /\ root /\ c \in DOMAIN Port \ LocalOnes => e[2] = Port[c]
  BY <1>1, <1>2, EndpointFacts
<1> HIDE DEF e
<1>6. handle' \in 1..(ControllerMax - 1)
  BY <1>2, <1>4
<1>7. row \in (1..Constructors) \X (1..(ControllerMax - 1)) \X Endpoints
  BY <1>1, <1>5, <1>6
<1>8. /\ handler' \in Seq((1..Constructors) \X (1..(ControllerMax - 1)) \X Endpoints)
      /\ Len(handler') = L + 1 /\ handler'[L + 1] = row
      /\ \A p \in 1..L : handler'[p] = handler[p]
  BY <1>1, <1>2, <1>7
<1>9. \/ (c \in LocalOnes \/ a = Addresses) /\ cursor' = <<c + 1, 1>>
      \/ c \notin LocalOnes /\ a < Addresses /\ cursor' = <<c, a + 1>>
  BY <1>1 DEF Following
<1>10. TypeOK'
  <2>1. cursor' \in (1..(Constructors + 1)) \X (1..Addresses)
    BY <1>1, <1>9
  <2>2. handle' \in 0..(ControllerMax - 1)
    BY <1>6
  <2> QED
    BY <1>1, <1>4, <1>8, <2>1, <2>2 DEF IInv, TypeOK
<1>11. Filled'
  <2>0. L <= (c - 1) * Addresses + a - 1
    BY DEF IInv, Filled
  <2>1. L + 1 <= c * Addresses /\ L + 1 <= (c - 1) * Addresses + a
    BY <1>1, <1>2, <2>0, Bound, SMTT(30)
  <2>2. CASE cursor' = <<c + 1, 1>>
    <3>1. cursor'[1] = c + 1 /\ cursor'[2] = 1
      BY <2>2
    <3>2. (cursor'[1] - 1) * Addresses + cursor'[2] - 1 = c * Addresses
      <4>1. (c + 1) - 1 = c /\ c * Addresses \in Nat
        BY <1>1
      <4> QED
        BY <3>1, <4>1
    <3> QED
      BY <1>1, <1>8, <2>1, <3>1, <3>2 DEF Filled
  <2>3. CASE c \notin LocalOnes /\ a < Addresses /\ cursor' = <<c, a + 1>>
    <3>1. cursor'[1] = c /\ cursor'[2] = a + 1
      BY <2>3
    <3>2. (c - 1) * Addresses \in Nat
      BY <1>1, SMTT(30)
    <3>3. (cursor'[1] - 1) * Addresses + cursor'[2] - 1 = (c - 1) * Addresses + a
      BY <1>1, <3>1, <3>2
    <3> QED
      BY <1>1, <1>4, <1>8, <2>1, <2>3, <3>1, <3>3 DEF Filled
  <2> QED
    BY <1>9, <2>2, <2>3
<1>a. /\ L \in Nat /\ Len(controllers) \in Nat /\ Len(controllers') \in Nat
      /\ Len(controllers) <= Len(controllers')
  BY <1>2, <1>4
<1>c. handler'[L + 1] = row /\ \A p \in 1..L : handler'[p] = handler[p]
  BY <1>8
<1>b. 1..(L + 1) = (1..L) \cup {L + 1}
  BY <1>a
<1>12. Entries'
  <2> SUFFICES ASSUME NEW p \in 1..(L + 1) PROVE Entry(p)'
    BY <1>8 DEF Entries
  <2>1. CASE p = L + 1
    BY <1>1, <1>4, <1>5, <1>8, <2>1, SMTT(30) DEF Entry
  <2>2. CASE p \in 1..L
    <3>1. Entry(p) /\ handler'[p] = handler[p]
      BY <1>8, <2>2 DEF IInv, Entries
    <3>2. handler[p][2] \in 1..Len(controllers)
      BY <3>1 DEF Entry
    <3>3. handler[p][2] \in 1..Len(controllers')
      BY <1>a, <3>2
    <3> QED
      BY <1>1, <1>4, <3>1, <3>2, <3>3 DEF Entry
  <2> QED
    BY <1>b, <2>1, <2>2
<1>13. Counts'
  <2>a. /\ \A p \in 1..L : handler'[p][1] = handler[p][1]
        /\ handler'[L + 1][1] = c
    <3>1. row[1] = c
      OBVIOUS
    <3> HIDE DEF row, c
    <3> QED
      BY <1>c, <3>1
  <2> SUFFICES ASSUME NEW d \in 1..Constructors
               PROVE  Cardinality(ServersOf(d)') = Wanted(d)'
    BY DEF Counts
  <2>0. Cardinality(ServersOf(d)) = Wanted(d)
    BY DEF IInv, Counts
  <2>1. CASE d = c
    <3>1. ServersOf(d)' = ServersOf(d) \cup {L + 1}
      BY <1>8, <1>b, <2>a, <2>1 DEF ServersOf
    <3>2. L + 1 \notin ServersOf(d)
      BY <1>2 DEF ServersOf
    <3>3. IsFiniteSet(ServersOf(d))
      <4>1. IsFiniteSet(1..L) /\ ServersOf(d) \subseteq 1..L
        BY <1>2, FS_Interval DEF ServersOf
      <4> QED
        BY <4>1, FS_Subset
    <3>4. Cardinality(ServersOf(d)') = Cardinality(ServersOf(d)) + 1
      BY <3>1, <3>2, <3>3, FS_AddElement
    <3>5. Wanted(d) = a - 1
      BY <1>1, <2>1 DEF Wanted
    <3>6. Wanted(d)' = a
      <4>1. c \in LocalOnes => a = 1
        BY <1>1 DEF IInv, Filled
      <4>2. CASE (c \in LocalOnes \/ a = Addresses) /\ cursor' = <<c + 1, 1>>
        BY <1>1, <2>1, <4>1, <4>2 DEF Wanted
      <4>3. CASE c \notin LocalOnes /\ a < Addresses /\ cursor' = <<c, a + 1>>
        BY <1>1, <2>1, <4>3 DEF Wanted
      <4> QED
        BY <1>9, <4>2, <4>3
    <3> QED
      BY <1>1, <2>0, <3>4, <3>5, <3>6
  <2>2. CASE d # c
    <3>1. ServersOf(d)' = ServersOf(d)
      BY <1>8, <1>b, <2>a, <2>2 DEF ServersOf
    <3>2. Wanted(d)' = Wanted(d)
      BY <1>1, <1>9, <2>2 DEF Wanted
    <3> QED
      BY <2>0, <3>1, <3>2
  <2> QED
    BY <2>1, <2>2
<1>14. Scan'
  BY <1>1 DEF IInv, Scan, Reported
<1> QED
  BY <1>10, <1>11, <1>12, <1>13, <1>14 DEF IInv

LEMMA SetupEndStep == ASSUME IInv, SetupFails \/ SetupDone PROVE IInv'
<1>1. /\ phase = "setup" /\ phase' \in {"failed", "poll"}
      /\ phase' = "poll" => cursor[1] > Constructors
      /\ UNCHANGED <<root, cursor, controllers, handle, handler, pending, broken, revents,
                     i, j, n, served>>
  BY DEF SetupFails, SetupDone, setup, clients
<1>2. TypeOK'
  BY <1>1 DEF IInv, TypeOK
<1>3. Filled'
  BY <1>1, SizeAssumption DEF IInv, TypeOK, Filled
<1>4. Entries' /\ Counts'
  BY <1>1 DEF IInv, Entries, Entry, Counts, ServersOf, Wanted
<1>5. Scan'
  BY <1>1 DEF IInv, Scan, In, Reported
<1> QED
  BY <1>2, <1>3, <1>4, <1>5 DEF IInv

(* The controller of a server that could not be bound stays in the table.  *)
LEMMA BindFailsStep == ASSUME IInv, BindFails PROVE IInv'
<1> DEFINE c == cursor[1]
<1>1. /\ phase = "setup" /\ phase' = "failed" /\ cursor[2] = 1
      /\ controllers' = Append(controllers, c) /\ handle' = Len(controllers) + 1
      /\ Len(controllers) + 1 < ControllerMax
      /\ UNCHANGED <<root, cursor, handler, pending, broken, revents, i, j, n, served>>
  BY DEF BindFails, clients, MustRegister, Register
<1>2. c \in 0..Constructors /\ controllers \in Seq(0..Constructors)
  BY SizeAssumption DEF IInv, TypeOK, BindFails
<1>3. /\ controllers' \in Seq(0..Constructors) /\ Len(controllers) \in Nat
      /\ Len(controllers') = Len(controllers) + 1
      /\ \A h \in 1..Len(controllers) : controllers'[h] = controllers[h]
  BY <1>1, <1>2
<1>4. TypeOK'
  <2>1. handle' \in 0..(ControllerMax - 1) /\ Len(controllers') < ControllerMax
    BY <1>1, <1>3, SizeAssumption
  <2> QED
    BY <1>1, <1>3, <2>1 DEF IInv, TypeOK
<1>5. Filled'
  BY <1>1 DEF IInv, Filled
<1>6. Entries'
  <2> SUFFICES ASSUME NEW p \in 1..Len(handler) PROVE Entry(p)'
    BY <1>1 DEF Entries
  <2>1. Entry(p)
    BY DEF IInv, Entries
  <2>2. handler[p][2] \in 1..Len(controllers)
    BY <2>1 DEF Entry
  <2>3. handler[p][2] \in 1..Len(controllers')
    BY <1>3, <2>2
  <2> QED
    BY <1>1, <1>3, <2>1, <2>2, <2>3 DEF Entry
<1>7. Counts'
  BY <1>1 DEF IInv, Counts, ServersOf, Wanted
<1>8. Scan'
  BY <1>1 DEF IInv, Scan, Reported
<1> QED
  BY <1>4, <1>5, <1>6, <1>7, <1>8 DEF IInv

(* What a step behind the setup leaves alone. *)
LEMMA TableKept ==
  ASSUME IInv, UNCHANGED setup, phase' = phase \/ phase \notin {"setup", "failed"}
  PROVE  (Filled /\ Entries /\ Counts)'
BY DEF setup, IInv, Filled, Entries, Entry, Counts, ServersOf, Wanted

LEMMA ClientStep ==
  ASSUME IInv, NEW p \in Positions, Arrive(p) \/ Break(p) PROVE IInv'
<1>1. UNCHANGED <<phase, setup, revents, i, j, n, served>>
  BY DEF Arrive, Break
<1>5. /\ pending' \in [Positions -> 0..MaxPending] /\ broken' \subseteq Positions
      /\ \A q \in Positions : pending[q] > 0 => pending'[q] > 0
  <2>0. pending \in [Positions -> 0..MaxPending] /\ broken \subseteq Positions
    BY DEF IInv, TypeOK
  <2>1. CASE Arrive(p)
    BY <2>0, <2>1, SizeAssumption DEF Arrive
  <2>2. CASE Break(p)
    BY <2>0, <2>2 DEF Break
  <2> QED
    BY <2>1, <2>2
<1>2. TypeOK'
  BY <1>1, <1>5 DEF IInv, TypeOK, setup
<1>3. (Filled /\ Entries /\ Counts)'
  BY <1>1, TableKept
<1>4. Scan'
  BY <1>1, <1>5 DEF IInv, Scan, In, Reported, NoErrors, setup, pfd_count
<1> QED
  BY <1>2, <1>3, <1>4 DEF IInv

-----------------------------------------------------------------------------
(* The scan. *)
LEMMA PollStep == ASSUME IInv, Poll PROVE IInv'
<1>1. /\ phase = "poll" /\ phase' = "scan" /\ i' = Cardinality(Ready)
      /\ j' = 0 /\ n' = 0 /\ served' = {}
      /\ revents' = [p \in Positions |-> IF p \notin Ready THEN "none"
                                         ELSE IF pending[p] > 0 THEN "in" ELSE "err"]
      /\ UNCHANGED setup /\ UNCHANGED clients
  BY DEF Poll
<1>2. Ready \subseteq 0..(pfd_count - 1) /\ Ready \subseteq Positions
  BY Room, AllocatedNat DEF Ready, pfd_count, Positions
<1>3. Reported' = Ready
  BY <1>1, <1>2 DEF Reported
<1>4. i' \in Nat
  BY <1>1, <1>2, PositionsFinite, FS_Subset, FS_CardinalityType
<1>5. TypeOK'
  BY <1>1, <1>4 DEF IInv, TypeOK, setup, clients
<1>6. (Filled /\ Entries /\ Counts)'
  BY <1>1, TableKept
<1>7. Scan'
  <2>1. served' = {p \in In' : p < n'}
    BY <1>1, AllocatedNat DEF In, Positions
  <2>2. j' = Cardinality(served')
    BY <1>1, FS_EmptySet
  <2>3. pfd_count' = pfd_count /\ pfd_count \in Nat
    BY <1>1, Room DEF setup, pfd_count
  <2>4. \A p \in In' : pending'[p] > 0
    BY <1>1 DEF In, clients
  <2> QED
    BY <1>1, <1>2, <1>3, <2>1, <2>2, <2>3, <2>4 DEF Scan
<1> QED
  BY <1>5, <1>6, <1>7 DEF IInv

LEMMA ServedFinite ==
  ASSUME IInv, phase = "scan"
  PROVE  /\ served \subseteq In /\ In \subseteq Reported
         /\ IsFiniteSet(Reported) /\ IsFiniteSet(served)
         /\ i \in Nat /\ j \in Nat /\ n \in Nat /\ pfd_count \in Nat
<1>1. served \subseteq In /\ In \subseteq Reported /\ Reported \subseteq Positions
  BY DEF IInv, Scan, In, Reported
<1>2. IsFiniteSet(Reported) /\ IsFiniteSet(served)
  BY <1>1, PositionsFinite, FS_Subset
<1> QED
  BY <1>1, <1>2, Room DEF IInv, TypeOK, pfd_count

LEMMA ExamineStep == ASSUME IInv, Examine PROVE IInv'
<1>1. /\ phase = "scan" /\ n < pfd_count /\ n' = n + 1
      /\ UNCHANGED <<phase, setup, broken, revents, i>>
  BY DEF Examine
<1>2. n \in Positions /\ n \in Nat /\ pfd_count \in Nat
  BY <1>1, Room, AllocatedNat, SMTT(30) DEF IInv, TypeOK, pfd_count, Positions
<1>3. served = {p \in In : p < n} /\ j = Cardinality(served) /\ IsFiniteSet(served)
  BY <1>1, ServedFinite DEF IInv, Scan
<1>4. (Filled /\ Entries /\ Counts)'
  BY <1>1, TableKept
<1>5. In' = In /\ Reported' = Reported /\ NoErrors' = NoErrors /\ pfd_count' = pfd_count
  BY <1>1 DEF In, Reported, NoErrors, setup, pfd_count
<1>6. Positions \subseteq Int /\ In \subseteq Int
  BY DEF Positions, In
<1>a. \A p \in Int : p < n' <=> p < n \/ p = n
  BY <1>1, <1>2
<1>7. CASE revents[n] = "in"
  <2>1. /\ j' = j + 1 /\ served' = served \cup {n}
        /\ pending' = pending \/ pending' = [pending EXCEPT ![n] = pending[n] - 1]
    BY <1>7 DEF Examine
  <2>2. n \in In /\ pending[n] > 0
    BY <1>1, <1>2, <1>7 DEF IInv, Scan, In
  <2>3. n \notin served
    BY <1>2, <1>3
  <2>4. j' = Cardinality(served')
    BY <1>3, <2>1, <2>3, FS_AddElement
  <2>5. served' = {p \in In' : p < n'}
    <3>1. {p \in In : p < n'} = {p \in In : p < n} \cup {n}
      BY <1>a, <1>6, <2>2
    <3> QED
      BY <1>3, <1>5, <2>1, <3>1
  <2>6. pending' \in [Positions -> 0..MaxPending] /\ j' \in Nat /\ served' \subseteq Positions
    <3>1. pending \in [Positions -> 0..MaxPending] /\ j \in Nat /\ served \subseteq Positions
      BY DEF IInv, TypeOK
    <3>2. pending[n] - 1 \in 0..MaxPending
      BY <1>2, <2>2, <3>1, SizeAssumption
    <3> QED
      BY <1>2, <2>1, <3>1, <3>2
  <2>7. TypeOK'
    BY <1>1, <1>2, <2>6 DEF IInv, TypeOK, setup
  <2>8. \A p \in In' : p >= n' => pending'[p] > 0
    <3> SUFFICES ASSUME NEW p \in In, p >= n + 1 PROVE pending'[p] > 0
      BY <1>1, <1>5
    <3>1. p # n /\ p \in Positions /\ p >= n
      BY <1>2, <1>6 DEF In
    <3>2. pending[p] > 0
      BY <1>1, <3>1 DEF IInv, Scan
    <3> QED
      BY <2>1, <3>1, <3>2 DEF IInv, TypeOK
  <2>9. Scan'
    <3>1. Reported \subseteq 0..(pfd_count - 1) /\ i = Cardinality(Reported)
      BY <1>1 DEF IInv, Scan
    <3>2. n' <= pfd_count /\ n' <= pfd_count + 1
      BY <1>1, <1>2
    <3>3. phase' = "scan" /\ i' = i
      BY <1>1
    <3> QED
      BY <1>5, <2>4, <2>5, <2>8, <3>1, <3>2, <3>3 DEF Scan
  <2> QED
    BY <1>4, <2>7, <2>9 DEF IInv
<1>8. CASE revents[n] # "in"
  <2>1. UNCHANGED <<pending, j, served>>
    BY <1>8 DEF Examine
  <2>2. n \notin In
    BY <1>8 DEF In
  <2>3. served' = {p \in In' : p < n'}
    <3>1. {p \in In : p < n'} = {p \in In : p < n}
      BY <1>a, <1>6, <2>2
    <3> QED
      BY <1>3, <1>5, <2>1, <3>1
  <2>4. TypeOK'
    BY <1>1, <1>2, <2>1 DEF IInv, TypeOK, setup
  <2>5. \A p \in In' : p >= n' => pending'[p] > 0
    <3> SUFFICES ASSUME NEW p \in In, p >= n + 1 PROVE pending[p] > 0
      BY <1>1, <1>5, <2>1
    <3>1. p >= n
      BY <1>2, <1>6 DEF In
    <3> QED
      BY <1>1, <3>1 DEF IInv, Scan
  <2>6. Scan'
    <3>1. Reported \subseteq 0..(pfd_count - 1) /\ i = Cardinality(Reported)
      BY <1>1 DEF IInv, Scan
    <3>2. n' <= pfd_count /\ n' <= pfd_count + 1
      BY <1>1, <1>2
    <3>3. phase' = "scan" /\ i' = i /\ j' = Cardinality(served')
      BY <1>1, <1>3, <2>1
    <3> QED
      BY <1>5, <2>3, <2>5, <3>1, <3>2, <3>3 DEF Scan
  <2> QED
    BY <1>4, <2>4, <2>6 DEF IInv
<1> QED
  BY <1>7, <1>8

(* Past the end of the table there is an error condition to blame. *)
LEMMA ExaminePastStep == ASSUME IInv, ExaminePast PROVE IInv'
<1>1. /\ phase = "scan" /\ j < i /\ n = pfd_count /\ n' = n + 1
      /\ phase' \in {"scan", "wild"}
      /\ UNCHANGED <<setup, pending, broken, revents, i, j, served>>
  BY DEF ExaminePast, Scanning, clients
<1>2. n \in Nat /\ i \in Nat /\ j \in Nat
  BY <1>1, ServedFinite
<1>3. TypeOK'
  BY <1>1, <1>2 DEF IInv, TypeOK, setup
<1>4. (Filled /\ Entries /\ Counts)'
  BY <1>1, TableKept
<1>5. In' = In /\ Reported' = Reported /\ NoErrors' = NoErrors /\ pfd_count' = pfd_count
  BY <1>1 DEF In, Reported, NoErrors, setup, pfd_count
<1>6. /\ Reported \subseteq 0..(pfd_count - 1) /\ served = {p \in In : p < n}
      /\ j = Cardinality(served) /\ i = Cardinality(Reported)
  BY <1>1 DEF IInv, Scan
<1>7. \A p \in Reported : p \in Int /\ p < n
  BY <1>1, <1>2, <1>6
<1>8. served = In
  BY <1>6, <1>7 DEF In, Reported
<1>9. ~NoErrors
  <2> SUFFICES ASSUME NoErrors PROVE FALSE
    OBVIOUS
  <2>1. Reported = In
    BY DEF NoErrors, Reported, In, IInv, TypeOK
  <2>2. i = j
    BY <1>6, <1>8, <2>1
  <2> QED
    BY <1>1, <1>2, <2>2
<1>10. Scan'
  <2>1. \A p \in In' : ~(p >= n')
    BY <1>1, <1>2, <1>5, <1>7 DEF In, Reported
  <2>2. served' = {p \in In' : p < n'}
    BY <1>1, <1>2, <1>5, <1>7, <1>8 DEF In, Reported
  <2>3. n' <= pfd_count + 1
    BY <1>1, <1>2
  <2> QED
    BY <1>1, <1>5, <1>6, <1>9, <2>1, <2>2, <2>3 DEF Scan
<1> QED
  BY <1>3, <1>4, <1>10 DEF IInv

(* When the scan stops, it has served all, or run past the end. *)
LEMMA EndScanStep == ASSUME IInv, EndScan PROVE IInv'
<1>1. /\ phase = "scan" /\ ~(n <= pfd_count /\ j < i)
      /\ phase' = IF j < i THEN "unhandled" ELSE "poll"
      /\ UNCHANGED <<setup, pending, broken, revents, i, j, n, served>>
  BY DEF EndScan, Scanning, Unhandled, clients
<1>2. /\ n \in Nat /\ i \in Nat /\ j \in Nat /\ pfd_count \in Nat
      /\ served \subseteq In /\ In \subseteq Reported
      /\ IsFiniteSet(Reported) /\ IsFiniteSet(served)
  BY <1>1, ServedFinite
<1>3. TypeOK'
  BY <1>1 DEF IInv, TypeOK, setup
<1>4. (Filled /\ Entries /\ Counts)'
  BY <1>1, TableKept
<1>5. In' = In /\ NoErrors' = NoErrors
  BY <1>1 DEF In, NoErrors
<1>6. /\ Reported \subseteq 0..(pfd_count - 1) /\ served = {p \in In : p < n}
      /\ j = Cardinality(served) /\ i = Cardinality(Reported)
      /\ NoErrors => n <= pfd_count
  BY <1>1 DEF IInv, Scan
<1>7. CASE j >= i
  <2>1. served \subseteq Reported
    BY <1>2
  <2>2. Cardinality(served) <= Cardinality(Reported)
    BY <1>2, <2>1, FS_Subset
  <2>3. Cardinality(served) = Cardinality(Reported)
    BY <1>2, <1>6, <1>7, <2>2
  <2>4. served = Reported
    BY <1>2, <2>1, <2>3, FS_Subset
  <2>5. served = In
    BY <1>2, <2>4
  <2>6. phase' = "poll"
    BY <1>1, <1>2, <1>7
  <2> QED
    BY <1>1, <1>3, <1>4, <1>5, <2>5, <2>6 DEF IInv, Scan
<1>8. CASE j < i
  <2>1. n > pfd_count
    BY <1>1, <1>2, <1>8
  <2>2. \A p \in Reported : p < n
    BY <1>2, <1>6, <2>1
  <2>3. served = In
    BY <1>2, <1>6, <2>2
  <2>4. ~NoErrors
    BY <1>2, <1>6, <2>1
  <2>5. phase' = "unhandled"
    BY <1>1, <1>8
  <2> QED
    BY <1>1, <1>3, <1>4, <1>5, <2>3, <2>4, <2>5 DEF IInv, Scan
<1> QED
  BY <1>2, <1>7, <1>8

LEMMA MultiplexStep == ASSUME IInv, Next PROVE IInv'
<1>1. CASE Loop
  BY <1>1, SetupServerStep, SetupEndStep, BindFailsStep, PollStep, ExamineStep,
     ExaminePastStep, EndScanStep DEF Loop
<1>2. CASE \E p \in Positions : Arrive(p) \/ Break(p)
  BY <1>2, ClientStep
<1> QED
  BY <1>1, <1>2 DEF Next

(* The invariant gives the properties of server_multiplex. *)
LEMMA IInvSafe == IInv => HandlersMatch /\ AllServed
<1> SUFFICES ASSUME IInv PROVE HandlersMatch /\ AllServed
  OBVIOUS
<1>1. HandlersMatch
  <2>1. TypeOK /\ pfd_count <= Allocated
    BY Room DEF IInv, pfd_count
  <2>2. \A p \in 1..pfd_count :
          /\ controllers[handler[p][2]] = handler[p][1]
          /\ root /\ handler[p][1] \in DOMAIN Port \ LocalOnes =>
               handler[p][3][2] = Port[handler[p][1]]
    BY DEF IInv, Entries, Entry, pfd_count
  <2>3. ASSUME phase = "poll", NEW c \in 1..Constructors
        PROVE  Cardinality({p \in 1..pfd_count : handler[p][1] = c})
                 = IF c \in LocalOnes THEN 1 ELSE Addresses
    <3>1. cursor[1] = Constructors + 1
      BY <2>3 DEF IInv, Filled
    <3>2. Wanted(c) = IF c \in LocalOnes THEN 1 ELSE Addresses
      BY <3>1, SizeAssumption DEF Wanted
    <3> QED
      BY <3>2 DEF IInv, Counts, ServersOf, pfd_count
  <2> QED
    BY <2>1, <2>2, <2>3 DEF HandlersMatch
<1>2. AllServed
  BY DEF AllServed, IInv, Scan, In
<1> QED
  BY <1>1, <1>2

-----------------------------------------------------------------------------
(* drop_privileges: what is known of the ids before each of its steps.  The*)
(* servers are set up after it.                                            *)
Stages ==
  /\ at # "main" => handler = <<>>
  /\ at = "failed" => rc = "-1"
  /\ at \in {"called", "libraries", "group", "user", "chdir", "chroot", "setgid", "setuid",
             "lookup"} => rc = "none"
  /\ at \in {"called", "libraries", "group", "user", "chdir", "chroot"} =>
       uid = gid /\ ~jailed /\ uid # "target"
  /\ at \in {"libraries", "group", "user", "chdir", "chroot", "setgid", "setuid"} =>
       uid = "root"
  /\ at \in {"setgid", "setuid", "lookup"} => jailed
  /\ at \in {"user", "chdir", "chroot", "setgid", "setuid", "lookup"} => newgid \in Targets
  /\ at \in {"chdir", "chroot", "setgid", "setuid", "lookup"} => newuid \in Targets
  /\ at \in {"setuid", "lookup"} => gid = newgid
  /\ at = "lookup" => uid = newuid

StartIInv == IInv /\ Stages /\ PrivilegesDropped

LEMMA StartInitial == StartInit => StartIInv
<1> SUFFICES ASSUME StartInit PROVE StartIInv
  OBVIOUS
<1>1. IInv
  BY InitIInv DEF StartInit
<1>2. Stages
  BY DEF StartInit, Init, Stages
<1>3. PrivilegesDropped
  BY DEF StartInit, PrivilegesDropped, StartTypeOK, Targets
<1> QED
  BY <1>1, <1>2, <1>3 DEF StartIInv

(* The steps that leave server_multiplex alone. *)
LEMMA DropKeeps == ASSUME IInv, UNCHANGED vars PROVE IInv'
<1>1. TypeOK'
  BY DEF vars, IInv, TypeOK
<1>2. Filled' /\ Entries' /\ Counts'
  BY DEF vars, IInv, Filled, Entries, Entry, Counts, ServersOf, Wanted
<1>3. Scan'
  BY DEF vars, IInv, Scan, In, Reported, NoErrors, pfd_count
<1> QED
  BY <1>1, <1>2, <1>3 DEF IInv

LEMMA SetuidStep == ASSUME StartIInv, Setuid PROVE StartIInv'
<1>1. /\ at = "setuid" /\ at' = "lookup" /\ uid' = newuid /\ root' = (newuid = "root")
      /\ UNCHANGED <<phase, cursor, controllers, handle, handler, pending, broken, revents,
                     i, j, n, served, rc, chrootdir, gid, groups, jailed, newuid, newgid>>
  BY DEF Setuid, Then, clients, locals
<1>2. handler = <<>> /\ Len(handler) = 0
  BY <1>1 DEF StartIInv, Stages
<1>3. TypeOK'
  <2>1. root' \in BOOLEAN
    BY <1>1
  <2> QED
    BY <1>1, <2>1 DEF StartIInv, IInv, TypeOK
<1>4. Filled' /\ Counts'
  BY <1>1 DEF StartIInv, IInv, Filled, Counts, ServersOf, Wanted
<1>5. Entries'
  BY <1>1, <1>2 DEF Entries
<1>6. Scan'
  BY <1>1 DEF StartIInv, IInv, Scan, In, Reported, NoErrors, pfd_count
<1>7. Stages'
  BY <1>1 DEF StartIInv, Stages
<1>8. PrivilegesDropped'
  <2>1. newuid \in Targets /\ gid = newgid /\ jailed
    BY <1>1 DEF StartIInv, Stages
  <2>2. StartTypeOK'
    BY <1>1, <2>1 DEF StartIInv, PrivilegesDropped, StartTypeOK, Targets
  <2> QED
    BY <1>1, <2>1, <2>2 DEF PrivilegesDropped, Targets
<1> QED
  BY <1>3, <1>4, <1>5, <1>6, <1>7, <1>8 DEF StartIInv, IInv

LEMMA DropStep ==
  ASSUME StartIInv,
         CheckRoot \/ Prepare \/ FindGroup \/ FindUser \/ Chroot \/ Setgid
           \/ LookupWorks \/ DropFails \/ AfterFailure
  PROVE  StartIInv'
<1>1. UNCHANGED vars
  BY DEF CheckRoot, Prepare, FindGroup, FindUser, Chroot, Setgid, LookupWorks, DropFails,
         AfterFailure
<1>2. IInv'
  BY <1>1, DropKeeps DEF StartIInv
<1>3. root' = root /\ handler' = handler
  BY <1>1 DEF vars
<1> USE DEF StartIInv, Stages, PrivilegesDropped, StartTypeOK, Targets, ids, locals
<1>4. CASE CheckRoot
  BY <1>2, <1>3, <1>4 DEF CheckRoot
<1>5. CASE Prepare
  BY <1>2, <1>3, <1>5 DEF Prepare, Then
<1>6. CASE FindGroup
  BY <1>2, <1>3, <1>6 DEF FindGroup, Then
<1>7. CASE FindUser
  BY <1>2, <1>3, <1>7 DEF FindUser, Then
<1>8. CASE Chroot
  BY <1>2, <1>3, <1>8 DEF Chroot, Then
<1>9. CASE Setgid
  BY <1>2, <1>3, <1>9 DEF Setgid, Then
<1>10. CASE LookupWorks
  BY <1>2, <1>3, <1>10 DEF LookupWorks
<1>11. CASE DropFails
  BY <1>2, <1>3, <1>11 DEF DropFails
<1>12. CASE AfterFailure
  BY <1>2, <1>3, <1>12 DEF AfterFailure
<1> QED
  BY <1>4, <1>5, <1>6, <1>7, <1>8, <1>9, <1>10, <1>11, <1>12

LEMMA ServeStep == ASSUME StartIInv, Serve PROVE StartIInv'
<1>1. IInv'
  BY MultiplexStep DEF StartIInv, Serve
<1>2. root' = root
  BY DEF Serve, Next, Loop, SetupServer, SetupFails, BindFails, SetupDone, Poll, Examine,
         ExaminePast, EndScan, Arrive, Break, setup
<1>3. at = "main" /\ UNCHANGED <<at, rc, chrootdir, uid, gid, groups, jailed, newuid, newgid>>
  BY DEF Serve, drop, ids, locals
<1>4. Stages'
  BY <1>3 DEF Stages
<1>5. PrivilegesDropped'
  BY <1>2, <1>3 DEF StartIInv, PrivilegesDropped, StartTypeOK
<1> QED
  BY <1>1, <1>4, <1>5 DEF StartIInv

LEMMA StartStep == ASSUME StartIInv, [StartNext]_startvars PROVE StartIInv'
<1>1. CASE StartNext
  BY <1>1, DropStep, SetuidStep, ServeStep DEF StartNext, Drop
<1>2. CASE UNCHANGED startvars
  <2>1. UNCHANGED vars /\ UNCHANGED <<at, rc, chrootdir, uid, gid, groups, jailed, newuid, newgid>>
    BY <1>2 DEF startvars, drop, ids, locals
  <2>2. IInv'
    BY <2>1, DropKeeps DEF StartIInv
  <2>3. root' = root /\ handler' = handler
    BY <2>1 DEF vars
  <2>4. Stages'
    BY <2>1, <2>3 DEF StartIInv, Stages
  <2>5. PrivilegesDropped'
    <3>1. StartTypeOK'
      BY <2>1 DEF StartIInv, PrivilegesDropped, StartTypeOK
    <3> QED
      BY <2>1, <2>3, <3>1 DEF StartIInv, PrivilegesDropped
  <2> QED
    BY <2>2, <2>4, <2>5 DEF StartIInv
<1> QED
  BY <1>1, <1>2

(* Whatever step of drop_privileges fails and whatever the program does    *)
(* about it: the user id goes last, and a call by root that returns 0 has  *)
(* changed the user id, the group id and the root directory.               *)
THEOREM PrivilegesGo == StartSpec => []PrivilegesDropped
<1>1. StartIInv /\ [StartNext]_startvars => StartIInv'
  BY StartStep
<1>2. StartIInv => PrivilegesDropped
  BY DEF StartIInv
<1> QED
  BY <1>1, <1>2, StartInitial, PTL DEF StartSpec

(* The table of server_multiplex fits its allocation, and each server in it*)
(* has its own constructor's controller and, for root, port; for any number*)
(* of constructors and addresses.                                          *)
THEOREM HandlersCorrect == StartSpec => []HandlersMatch
<1>1. StartIInv /\ [StartNext]_startvars => StartIInv'
  BY StartStep
<1>2. StartIInv => HandlersMatch
  BY IInvSafe DEF StartIInv
<1> QED
  BY <1>1, <1>2, StartInitial, PTL DEF StartSpec

(* A scan of server_multiplex serves every server that has a client, for   *)
(* any number of servers and clients.                                      *)
THEOREM ScanServesAll == StartSpec => []AllServed
<1>1. StartIInv /\ [StartNext]_startvars => StartIInv'
  BY StartStep
<1>2. StartIInv => AllServed
  BY IInvSafe DEF StartIInv
<1> QED
  BY <1>1, <1>2, StartInitial, PTL DEF StartSpec

=============================================================================
