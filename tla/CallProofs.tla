----------------------------- MODULE CallProofs -----------------------------
(***************************************************************************)
(* Proofs about calls: one call of a function translated by ncc, for any   *)
(* number of automatic objects and any lengths of its blocks; and the      *)
(* calls of dns.c and passwd.c under their mutexes, for any number of      *)
(* threads.                                                                *)
(***************************************************************************)
EXTENDS NccFunction, Resolver, TLAPS

-----------------------------------------------------------------------------
(* A function translated by ncc. *)


(* Which objects are alive, and what has been done, at each point of a     *)
(* call: a raw return leads elsewhere than to the last statement.          *)
Cleanup ==
  /\ block = "destroy" => at <= Autos /\ live \subseteq (at + 1)..Autos
  /\ block \in {"destroy", "returned"} => cleaned
  /\ block = "returned" => live = {}

(* The body is not entered again after the catch block, and __retval stays  *)
(* set until a return of the catch or the finally block changes it.         *)
CatchGuard ==
  /\ caught > 0 \/ set \in {"catch", "finally"} => block \notin {"new", "body"}
  /\ set \in {"none", "body"} => caught <= 1
  /\ set \in {"none", "body"} /\ caught = 1 => retval = -1

(* A failure on its way to the caller. *)
Failing ==
  /\ block = "escaped" => result = -1
  /\ set = "none" => retval \in {0, -1}
  /\ set = "none" /\ thrown /\ block \notin {"returned", "escaped"} => retval = -1
  /\ set = "none" /\ thrown /\ block = "returned" => result = -1

(* The state of a call keeps its type, whichever way statements leave.      *)
THEOREM NccTypeCorrect == NccSpec => []NccTypeOK
<1>1. NccInit => NccTypeOK
  <2> SUFFICES ASSUME NccInit PROVE NccTypeOK
    OBVIOUS
  <2>1. live \in SUBSET (1..Autos)
    BY DEF NccInit
  <2>2. at \in Nat /\ caught \in 0..2
    BY DEF NccInit
  <2>3. retval \in {0, 1, -1} /\ result \in {0, 1, -1}
    BY DEF NccInit
  <2>4. thrown \in BOOLEAN /\ cleaned \in BOOLEAN
    BY DEF NccInit
  <2>5. QED
    BY <2>1, <2>2, <2>3, <2>4 DEF NccInit, NccTypeOK
<1>2. NccTypeOK /\ [NccNext]_nccvars => NccTypeOK'
  <2> SUFFICES ASSUME NccTypeOK, [NccNext]_nccvars PROVE NccTypeOK'
    OBVIOUS
  <2> USE SizeAssumption DEF NccTypeOK, EnterBlock
  <2>1. CASE New
    <3>1. live' \in SUBSET (1..Autos)
      <4>1. at + 1 \in 1..Autos
        BY <2>1 DEF New
      <4>2. live' = live \cup {at + 1} \/ live' = live
        BY <2>1 DEF New, RawReturn
      <4>3. QED
        BY <4>1, <4>2
    <3>2. at' \in Nat /\ UNCHANGED <<retval, set, caught, cleaned>>
      BY <2>1 DEF New, RawReturn
    <3>3. block' \in {block, "escaped"} /\ thrown' \in {thrown, TRUE} /\ result' \in {result, -1}
      BY <2>1 DEF New, RawReturn
    <3>4. QED
      BY <3>1, <3>2, <3>3
  <2>2. CASE Statement
    BY <2>2 DEF Statement
  <2>3. CASE Fail
    BY <2>3 DEF Fail, RawReturn
  <2>4. CASE Errno
    BY <2>4 DEF Errno
  <2>5. ASSUME NEW v \in {0, 1, -1}, Return(v) PROVE NccTypeOK'
    BY <2>5 DEF Return, InBlock
  <2>6. CASE EndBlock
    BY <2>6 DEF EndBlock, NextBlock
  <2>7. CASE Destroy
    <3>1. live' \in SUBSET (1..Autos)
      BY <2>7 DEF Destroy, RawReturn
    <3>2. at' \in Nat /\ UNCHANGED <<retval, set, caught, cleaned>>
      BY <2>7 DEF Destroy, RawReturn
    <3>3. block' \in {block, "escaped"} /\ thrown' \in {thrown, TRUE} /\ result' \in {result, -1}
      BY <2>7 DEF Destroy, RawReturn
    <3>4. QED
      BY <3>1, <3>2, <3>3
  <2>8. CASE ReturnRetval
    BY <2>8 DEF ReturnRetval
  <2>9. CASE UNCHANGED nccvars
    BY <2>9 DEF nccvars
  <2>10. QED
    BY <2>1, <2>2, <2>3, <2>4, <2>5, <2>6, <2>7, <2>8, <2>9 DEF NccNext
<1>3. QED
  BY <1>1, <1>2, PTL DEF NccSpec

(* Cleanup is kept by every step of a call.                                 *)
LEMMA CleanupKept ==
  ASSUME NccTypeOK, Cleanup, [NccNext]_nccvars
  PROVE  Cleanup'
<1> USE SizeAssumption DEF NccTypeOK, Cleanup, EnterBlock
<1>1. CASE New
  BY <1>1 DEF New, RawReturn
<1>2. CASE Statement
  BY <1>2 DEF Statement, InBlock
<1>3. CASE Fail
  BY <1>3 DEF Fail, RawReturn
<1>4. CASE Errno
  BY <1>4 DEF Errno, InBlock
<1>5. ASSUME NEW v \in {0, 1, -1}, Return(v) PROVE Cleanup'
  BY <1>5 DEF Return
<1>6. CASE EndBlock
  <2>1. block' # "returned" /\ at' = 0 /\ live' = live
    BY <1>6 DEF EndBlock, NextBlock
  <2>2. live' \subseteq (at' + 1)..Autos
    BY <2>1
  <2>3. block' = "destroy" => cleaned'
    BY <1>6 DEF EndBlock, NextBlock
  <2>4. QED
    BY <2>1, <2>2, <2>3
<1>7. CASE Destroy
  <2>1. CASE live' = live \ {at + 1} /\ at' = at + 1 /\ UNCHANGED <<block, cleaned>>
    <3>1. live' \subseteq (at' + 1)..Autos
      BY <2>1, <1>7 DEF Destroy
    <3>2. QED
      BY <2>1, <3>1, <1>7 DEF Destroy
  <2>2. CASE RawReturn
    BY <2>2 DEF RawReturn
  <2>3. QED
    BY <2>1, <2>2, <1>7 DEF Destroy
<1>8. CASE ReturnRetval
  BY <1>8 DEF ReturnRetval
<1>9. CASE UNCHANGED nccvars
  BY <1>9 DEF nccvars
<1>10. QED
  BY <1>1, <1>2, <1>3, <1>4, <1>5, <1>6, <1>7, <1>8, <1>9 DEF NccNext

(* A function that returns by its last statement has run its finally block  *)
(* to the end and destroyed all of its automatic objects, however it came   *)
(* there.                                                                   *)
THEOREM CleanupComplete == NccSpec => []CleanedUp
<1>1. NccInit => Cleanup
  BY DEF NccInit, Cleanup
<1>2. Cleanup => CleanedUp
  BY DEF Cleanup, CleanedUp
<1>3. NccTypeOK /\ Cleanup /\ [NccNext]_nccvars => Cleanup'
  BY CleanupKept
<1>4. QED
  BY <1>1, <1>2, <1>3, NccTypeCorrect, PTL DEF NccSpec

(* The test of __retval in throw_errno and throw_silent keeps the catch     *)
(* block from being entered twice, in every call in which no return         *)
(* statement of the catch or of the finally block is executed.              *)
THEOREM CatchEnteredOnce == NccSpec => []CatchOnce
<1>1. NccInit => CatchGuard
  BY DEF NccInit, CatchGuard
<1>2. NccTypeOK /\ CatchGuard /\ [NccNext]_nccvars => CatchGuard'
  <2> SUFFICES ASSUME NccTypeOK, CatchGuard, [NccNext]_nccvars PROVE CatchGuard'
    OBVIOUS
  <2> USE SizeAssumption DEF NccTypeOK, CatchGuard, EnterBlock
  <2>1. CASE New
    BY <2>1 DEF New, RawReturn
  <2>2. CASE Statement
    BY <2>2 DEF Statement
  <2>3. CASE Fail
    BY <2>3 DEF Fail, RawReturn
  <2>4. CASE Errno
    <3>1. PICK b \in {"body", "catch", "finally"} : block = b /\ at < Length(b)
      BY <2>4 DEF Errno, InBlock
    <3>2. CASE MayCatch
      <4>1. set \in {"none", "body"} => caught = 0
        BY <3>1, <3>2 DEF MayCatch
      <4>2. QED
        BY <2>4, <3>2, <4>1 DEF Errno
    <3>3. CASE ~MayCatch
      BY <2>4, <3>3 DEF Errno
    <3>4. QED
      BY <3>2, <3>3
  <2>5. ASSUME NEW v \in {0, 1, -1}, Return(v) PROVE CatchGuard'
    BY <2>5 DEF Return, InBlock
  <2>6. CASE EndBlock
    BY <2>6 DEF EndBlock, NextBlock
  <2>7. CASE Destroy
    BY <2>7 DEF Destroy, RawReturn
  <2>8. CASE ReturnRetval
    BY <2>8 DEF ReturnRetval
  <2>9. CASE UNCHANGED nccvars
    BY <2>9 DEF nccvars
  <2>10. QED
    BY <2>1, <2>2, <2>3, <2>4, <2>5, <2>6, <2>7, <2>8, <2>9 DEF NccNext
<1>3. CatchGuard => CatchOnce
  BY DEF CatchGuard, CatchOnce
<1>4. QED
  BY <1>1, <1>2, <1>3, NccTypeCorrect, PTL DEF NccSpec

(* An exception reaches the caller as -1 unless a return statement of the   *)
(* function has been executed, along every mixture of raw returns, catch blocks and   *)
(* failing destructors.                                                     *)
THEOREM ExceptionsReported == NccSpec => []ErrorReported
<1>1. NccInit => Failing
  BY DEF NccInit, Failing
<1>2. NccTypeOK /\ Failing /\ [NccNext]_nccvars => Failing'
  <2> SUFFICES ASSUME NccTypeOK, Failing, [NccNext]_nccvars PROVE Failing'
    OBVIOUS
  <2> USE DEF NccTypeOK, Failing, EnterBlock
  <2>1. CASE New
    BY <2>1 DEF New, RawReturn
  <2>2. CASE Statement
    BY <2>2 DEF Statement
  <2>3. CASE Fail
    BY <2>3 DEF Fail, RawReturn
  <2>4. CASE Errno
    BY <2>4 DEF Errno, MayCatch, InBlock
  <2>5. ASSUME NEW v \in {0, 1, -1}, Return(v) PROVE Failing'
    BY <2>5 DEF Return, InBlock
  <2>6. CASE EndBlock
    BY <2>6 DEF EndBlock, NextBlock
  <2>7. CASE Destroy
    BY <2>7 DEF Destroy, RawReturn
  <2>8. CASE ReturnRetval
    BY <2>8 DEF ReturnRetval
  <2>9. CASE UNCHANGED nccvars
    BY <2>9 DEF nccvars
  <2>10. QED
    BY <2>1, <2>2, <2>3, <2>4, <2>5, <2>6, <2>7, <2>8, <2>9 DEF NccNext
<1>3. Failing => ErrorReported
  BY DEF Failing, ErrorReported
<1>4. QED
  BY <1>1, <1>2, <1>3, NccTypeCorrect, PTL DEF NccSpec

-----------------------------------------------------------------------------
(* The mutexes of the resolver and the user database. *)

(* The functions by the shape of their paths. *)
Copying == {"service", "ping", "query", "uid", "user_exists"}
Locking == Copying \cup {"inet", "preload", "name"}
Short == {"mx", "txt"} \cup Groups

(* The labels that a thread in function o can be at. *)
Labels(o) ==
  {"idle", "done"} \cup
  (IF o \in Copying THEN {"lock", "enter", "inside", "copy", "unlock", "use"}
   ELSE IF o \in {"inet", "preload", "name"} THEN {"lock", "enter", "inside", "unlock", "use"}
   ELSE IF o = "init" THEN {"enter", "inside", "next"}
   ELSE {"enter", "inside", "use"})

OnPath == \A t \in Threads : pc[t] \in Labels(op[t])

(* Between lock and unlock a thread holds the mutex of its library. *)
Holding(t) == op[t] \in Locking /\ pc[t] \in {"enter", "inside", "copy", "unlock"}
Held == \A t \in Threads : Holding(t) => owner[Lib(op[t])] = t

(* Two threads that depend on the state of the same library at the same    *)
(* time have raced: without the function of either being an unlocked one   *)
(* they would both hold its mutex.                                         *)
Marked ==
  \A t, u \in Threads :
    t # u /\ Depends(t) /\ Depends(u) /\ Lib(op[t]) = Lib(op[u]) => {t, u} \subseteq raced

(* Behind the routine the static storage has the answer to the query that  *)
(* was made under the mutex.                                               *)
Fresh ==
  \A t \in Threads : pc[t] = "copy" => /\ static[Lib(op[t])] \in Threads
                                       /\ t \notin raced => static[Lib(op[t])] = t
Own ==
  \A t \in Threads \ raced : /\ saved[t] \in {t, Nobody}
                             /\ op[t] # "name" => answer[t] \in {t, Nobody}
Counted == \A t \in Threads : pc[t] # "done" => left[t] >= 1

IInv == TypeOK /\ OnPath /\ Held /\ Marked /\ Fresh /\ Own /\ Counted

-----------------------------------------------------------------------------
(* The paths: where each begins, and what comes after each label. *)
LEMMA Ops ==
  /\ AllOps = Copying \cup {"inet", "preload", "name", "init"} \cup Short
  /\ \A o \in Copying : Path[o] = <<"lock", "enter", "inside", "copy", "unlock", "use">>
  /\ \A o \in {"inet", "preload", "name"} : Path[o] = <<"lock", "enter", "inside", "unlock", "use">>
  /\ Path["init"] = <<"enter", "inside", "next">>
  /\ \A o \in Short : Path[o] = <<"enter", "inside", "use">>
BY DEF AllOps, Path, Copying, Short, Groups,
       dns_get_service_by_name, dns_get_inet_by_name, dns_ping_blocklist,
       dns_query_blocklist, dns_get_mx_list, dns_get_txt_record, passwd_get_id_by_name,
       passwd_get_name_by_id, passwd_exists, group_get_id_by_name, group_get_name_by_id,
       group_exists, dns_library_init

(* The position of a label that occurs once. *)
LEMMA Position ==
  ASSUME NEW p, NEW label, NEW k \in Nat, k \in 1..Len(p), p[k] = label,
         \A m \in 1..Len(p) : p[m] = label => m = k
  PROVE  (CHOOSE m \in 1..Len(p) : p[m] = label) = k
OBVIOUS

LEMMA AfterCopying ==
  ASSUME NEW t \in Threads, op[t] \in Copying
  PROVE  /\ pc[t] = "lock" => Following(t) = "enter"
         /\ pc[t] = "enter" => Following(t) = "inside"
         /\ pc[t] = "inside" => Following(t) = "copy"
         /\ pc[t] = "copy" => Following(t) = "unlock"
         /\ pc[t] = "unlock" => Following(t) = "use"
         /\ Head(Path[op[t]]) = "lock"
<1> DEFINE p == <<"lock", "enter", "inside", "copy", "unlock", "use">>
<1>0. Path[op[t]] = p /\ Len(p) = 6 /\ Head(p) = "lock"
  BY Ops
<1>1. ASSUME pc[t] = "lock" PROVE Following(t) = "enter"
  <2>1. (CHOOSE m \in 1..Len(p) : p[m] = "lock") = 1
    BY Position
  <2> QED
    BY <1>0, <1>1, <2>1 DEF Following
<1>2. ASSUME pc[t] = "enter" PROVE Following(t) = "inside"
  <2>1. (CHOOSE m \in 1..Len(p) : p[m] = "enter") = 2
    BY Position
  <2> QED
    BY <1>0, <1>2, <2>1 DEF Following
<1>3. ASSUME pc[t] = "inside" PROVE Following(t) = "copy"
  <2>1. (CHOOSE m \in 1..Len(p) : p[m] = "inside") = 3
    BY Position
  <2> QED
    BY <1>0, <1>3, <2>1 DEF Following
<1>4. ASSUME pc[t] = "copy" PROVE Following(t) = "unlock"
  <2>1. (CHOOSE m \in 1..Len(p) : p[m] = "copy") = 4
    BY Position
  <2> QED
    BY <1>0, <1>4, <2>1 DEF Following
<1>5. ASSUME pc[t] = "unlock" PROVE Following(t) = "use"
  <2>1. (CHOOSE m \in 1..Len(p) : p[m] = "unlock") = 5
    BY Position
  <2> QED
    BY <1>0, <1>5, <2>1 DEF Following
<1> QED
  BY <1>0, <1>1, <1>2, <1>3, <1>4, <1>5

LEMMA AfterLocking ==
  ASSUME NEW t \in Threads, op[t] \in {"inet", "preload", "name"}
  PROVE  /\ pc[t] = "lock" => Following(t) = "enter"
         /\ pc[t] = "enter" => Following(t) = "inside"
         /\ pc[t] = "inside" => Following(t) = "unlock"
         /\ pc[t] = "unlock" => Following(t) = "use"
         /\ Head(Path[op[t]]) = "lock"
<1> DEFINE p == <<"lock", "enter", "inside", "unlock", "use">>
<1>0. Path[op[t]] = p /\ Len(p) = 5 /\ Head(p) = "lock"
  BY Ops
<1>1. ASSUME pc[t] = "lock" PROVE Following(t) = "enter"
  <2>1. (CHOOSE m \in 1..Len(p) : p[m] = "lock") = 1
    BY Position
  <2> QED
    BY <1>0, <1>1, <2>1 DEF Following
<1>2. ASSUME pc[t] = "enter" PROVE Following(t) = "inside"
  <2>1. (CHOOSE m \in 1..Len(p) : p[m] = "enter") = 2
    BY Position
  <2> QED
    BY <1>0, <1>2, <2>1 DEF Following
<1>3. ASSUME pc[t] = "inside" PROVE Following(t) = "unlock"
  <2>1. (CHOOSE m \in 1..Len(p) : p[m] = "inside") = 3
    BY Position
  <2> QED
    BY <1>0, <1>3, <2>1 DEF Following
<1>4. ASSUME pc[t] = "unlock" PROVE Following(t) = "use"
  <2>1. (CHOOSE m \in 1..Len(p) : p[m] = "unlock") = 4
    BY Position
  <2> QED
    BY <1>0, <1>4, <2>1 DEF Following
<1> QED
  BY <1>0, <1>1, <1>2, <1>3, <1>4

LEMMA AfterInit ==
  ASSUME NEW t \in Threads, op[t] = "init"
  PROVE  /\ pc[t] = "enter" => Following(t) = "inside"
         /\ pc[t] = "inside" => Following(t) = "next"
         /\ Head(Path[op[t]]) = "enter"
<1> DEFINE p == <<"enter", "inside", "next">>
<1>0. Path[op[t]] = p /\ Len(p) = 3 /\ Head(p) = "enter"
  BY Ops
<1>1. ASSUME pc[t] = "enter" PROVE Following(t) = "inside"
  <2>1. (CHOOSE m \in 1..Len(p) : p[m] = "enter") = 1
    BY Position
  <2> QED
    BY <1>0, <1>1, <2>1 DEF Following
<1>2. ASSUME pc[t] = "inside" PROVE Following(t) = "next"
  <2>1. (CHOOSE m \in 1..Len(p) : p[m] = "inside") = 2
    BY Position
  <2> QED
    BY <1>0, <1>2, <2>1 DEF Following
<1> QED
  BY <1>0, <1>1, <1>2

LEMMA AfterShort ==
  ASSUME NEW t \in Threads, op[t] \in Short
  PROVE  /\ pc[t] = "enter" => Following(t) = "inside"
         /\ pc[t] = "inside" => Following(t) = "use"
         /\ Head(Path[op[t]]) = "enter"
<1> DEFINE p == <<"enter", "inside", "use">>
<1>0. Path[op[t]] = p /\ Len(p) = 3 /\ Head(p) = "enter"
  BY Ops
<1>1. ASSUME pc[t] = "enter" PROVE Following(t) = "inside"
  <2>1. (CHOOSE m \in 1..Len(p) : p[m] = "enter") = 1
    BY Position
  <2> QED
    BY <1>0, <1>1, <2>1 DEF Following
<1>2. ASSUME pc[t] = "inside" PROVE Following(t) = "use"
  <2>1. (CHOOSE m \in 1..Len(p) : p[m] = "inside") = 2
    BY Position
  <2> QED
    BY <1>0, <1>2, <2>1 DEF Following
<1> QED
  BY <1>0, <1>1, <1>2

(* All of them in one: the labels from each label. *)
LEMMA Follows ==
  ASSUME IInv, NEW t \in Threads
  PROVE  /\ pc[t] = "lock" => op[t] \in Locking /\ Following(t) = "enter"
         /\ pc[t] = "enter" => Following(t) = "inside"
         /\ pc[t] = "inside" =>
              Following(t) = IF op[t] \in Copying THEN "copy"
                             ELSE IF op[t] \in {"inet", "preload", "name"} THEN "unlock"
                             ELSE IF op[t] = "init" THEN "next" ELSE "use"
         /\ pc[t] = "copy" => op[t] \in Copying /\ Following(t) = "unlock"
         /\ pc[t] = "unlock" => op[t] \in Locking /\ Following(t) = "use"
         /\ pc[t] = "next" => op[t] = "init"
         /\ Head(Path[op[t]]) = IF op[t] \in Locking THEN "lock" ELSE "enter"
<1>1. /\ pc[t] \in Labels(op[t])
      /\ op[t] \in Copying \cup {"inet", "preload", "name", "init"} \cup Short
  BY Ops DEF IInv, TypeOK, OnPath
<1>2. CASE op[t] \in Copying
  BY <1>1, <1>2, AfterCopying DEF Labels, Copying, Locking
<1>3. CASE op[t] \in {"inet", "preload", "name"}
  BY <1>1, <1>3, AfterLocking DEF Labels, Copying, Locking
<1>4. CASE op[t] = "init"
  BY <1>1, <1>4, AfterInit DEF Labels, Copying, Locking
<1>5. CASE op[t] \in Short
  BY <1>1, <1>5, AfterShort DEF Labels, Copying, Locking, Short, Groups
<1> QED
  BY <1>1, <1>2, <1>3, <1>4, <1>5

-----------------------------------------------------------------------------
LEMMA InitIInv == Init => IInv
<1> SUFFICES ASSUME Init PROVE IInv
  OBVIOUS
<1>0. MaxDomains \in Nat /\ MaxDomains >= 1
  BY BoundAssumption
<1>1. left = [t \in Threads |-> IF op[t] \in {"ping", "query"} THEN MaxDomains ELSE 1]
  BY DEF Init
<1>2. \A t \in Threads : left[t] \in Nat /\ left[t] >= 1 /\ left[t] <= MaxDomains
  BY <1>0, <1>1
<1>3. left \in [Threads -> 0..MaxDomains]
  BY <1>0, <1>1, <1>2
<1>4. TypeOK
  BY <1>3 DEF Init, TypeOK, Outcomes
<1>5. OnPath /\ Held /\ Marked /\ Fresh
  BY DEF Init, OnPath, Labels, Held, Holding, Marked, Depends, Fresh
<1>6. Own
  BY DEF Init, Own
<1>7. Counted
  BY <1>2 DEF Counted
<1> QED
  BY <1>4, <1>5, <1>6, <1>7 DEF IInv

(* The invariant gives the two properties. *)
LEMMA IInvSafe == IInv => TypeOK /\ AnswersOwn
BY DEF AnswersOwn, IInv, Own

-----------------------------------------------------------------------------
(* Marked is about the threads in a library: nobody enters one, and nobody *)
(* is forgotten.                                                           *)
LEMMA MarkedKept ==
  ASSUME Marked, \A u \in Threads : Depends(u)' => Depends(u) /\ op'[u] = op[u],
         raced \subseteq raced'
  PROVE  Marked'
BY DEF Marked

LEMMA CallStep ==
  ASSUME IInv, NEW t \in Threads, Call(t) PROVE IInv'
<1> USE Follows DEF Call, Goto
<1>1. pc' = [pc EXCEPT ![t] = IF op[t] \in Locking THEN "lock" ELSE "enter"]
  OBVIOUS
<1>2. op[t] \in Copying \cup {"inet", "preload", "name", "init"} \cup Short
  BY Ops DEF IInv, TypeOK
<1>3. TypeOK'
  BY <1>1 DEF IInv, TypeOK
<1>4. OnPath'
  BY <1>1, <1>2 DEF IInv, TypeOK, OnPath, Labels, Locking, Copying, Short, Groups
<1>5. Held' /\ Fresh'
  BY <1>1 DEF IInv, TypeOK, Held, Holding, Fresh
<1>6. Marked'
  BY <1>1, MarkedKept DEF IInv, TypeOK, Depends
<1>7. Own' /\ Counted'
  BY <1>1 DEF IInv, TypeOK, Own, Counted
<1> QED
  BY <1>3, <1>4, <1>5, <1>6, <1>7 DEF IInv

LEMMA LockStep ==
  ASSUME IInv, NEW t \in Threads, Lock(t) PROVE IInv'
<1> USE Follows, NobodyAssumption DEF Lock, Goto
<1>1. pc' = [pc EXCEPT ![t] = "enter"] /\ op[t] \in Locking
  OBVIOUS
<1>2. Lib(op[t]) \in Libs
  BY DEF Lib, Libs
<1>3. TypeOK'
  BY <1>1, <1>2 DEF IInv, TypeOK
<1>4. OnPath'
  BY <1>1 DEF IInv, TypeOK, OnPath, Labels, Locking, Copying
<1>5. Held'
  BY <1>1, <1>2 DEF IInv, TypeOK, Held, Holding
<1>6. Marked' /\ Fresh'
  BY <1>1, MarkedKept DEF IInv, TypeOK, Depends, Fresh
<1>7. Own' /\ Counted'
  BY <1>1 DEF IInv, TypeOK, Own, Counted
<1> QED
  BY <1>3, <1>4, <1>5, <1>6, <1>7 DEF IInv

(* Two threads with the mutex of the same library would be one. *)
LEMMA EnterStep ==
  ASSUME IInv, NEW t \in Threads, Enter(t) PROVE IInv'
<1>1. /\ pc[t] = "enter" /\ pc' = [pc EXCEPT ![t] = "inside"]
      /\ raced' = IF op[t] \in Groups \/ Meets(t) = {} THEN raced
                  ELSE raced \cup Meets(t) \cup {t}
      /\ UNCHANGED <<owner, static, op, left, outcome, saved, answer, kept, DNS_LIB_INIT>>
  BY Follows DEF Enter, Goto
<1>2. raced \subseteq raced' /\ raced' \in SUBSET Threads
  BY <1>1 DEF Meets, IInv, TypeOK
<1>3. TypeOK'
  BY <1>1, <1>2 DEF IInv, TypeOK
<1>4. OnPath'
  BY <1>1 DEF IInv, TypeOK, OnPath, Labels
<1>5. Held'
  BY <1>1 DEF IInv, TypeOK, Held, Holding
<1>6. Marked'
  <2>1. ASSUME NEW u \in Threads \ {t}, op[t] \notin Groups, Depends(u), Lib(op[u]) = Lib(op[t])
        PROVE  {t, u} \subseteq raced'
    <3>1. CASE {op[t], op[u]} \cap Unlocked # {}
      <4>1. u \in Meets(t)
        BY <2>1, <3>1 DEF Meets
      <4> QED
        BY <1>1, <2>1, <4>1
    <3>2. CASE {op[t], op[u]} \cap Unlocked = {}
      <4>1. op[t] \in Locking /\ op[u] \in Locking
        <5>1. /\ op[t] \in Copying \cup {"inet", "preload", "name", "init"} \cup Short
              /\ op[u] \in Copying \cup {"inet", "preload", "name", "init"} \cup Short
          BY Ops DEF IInv, TypeOK
        <5> QED
          BY <2>1, <3>2, <5>1 DEF Locking, Short, Unlocked, Depends
      <4>2. Holding(t) /\ Holding(u)
        BY <1>1, <2>1, <4>1 DEF Holding, Depends
      <4> QED
        BY <2>1, <4>2 DEF IInv, Held
    <3> QED
      BY <3>1, <3>2
  <2>2. \A u \in Threads : Depends(u)' => Depends(u) \/ (u = t /\ op[t] \notin Groups)
    BY <1>1 DEF Depends, IInv, TypeOK
  <2>3. SUFFICES ASSUME NEW v \in Threads, NEW u \in Threads, v # u, Depends(v)', Depends(u)',
                        Lib(op[v]) = Lib(op[u])
                 PROVE  {v, u} \subseteq raced'
    BY <1>1 DEF Marked
  <2>4. CASE v = t
    BY <2>1, <2>2, <2>3, <2>4 DEF Depends
  <2>5. CASE u = t
    BY <2>1, <2>2, <2>3, <2>5 DEF Depends
  <2>6. CASE v # t /\ u # t
    BY <1>2, <2>2, <2>3, <2>6 DEF IInv, Marked
  <2> QED
    BY <2>4, <2>5, <2>6
<1>7. Fresh'
  BY <1>1, <1>2 DEF IInv, TypeOK, Fresh
<1>8. Own' /\ Counted'
  BY <1>1, <1>2 DEF IInv, TypeOK, Own, Counted
<1> QED
  BY <1>3, <1>4, <1>5, <1>6, <1>7, <1>8 DEF IInv

LEMMA InitReturnsStep ==
  ASSUME IInv, NEW t \in Threads, InitReturns(t) PROVE IInv'
<1>1. /\ pc[t] = "idle" /\ pc' = [pc EXCEPT ![t] = "done"]
      /\ UNCHANGED <<owner, static, op, left, outcome, saved, answer, kept, raced, DNS_LIB_INIT>>
  BY DEF InitReturns, Goto
<1>2. TypeOK'
  BY <1>1 DEF IInv, TypeOK
<1>3. OnPath'
  BY <1>1 DEF IInv, TypeOK, OnPath, Labels
<1>4. Held'
  BY <1>1 DEF IInv, TypeOK, Held, Holding
<1>5. Marked' /\ Fresh'
  BY <1>1, MarkedKept DEF IInv, TypeOK, Depends, Fresh
<1>6. Own' /\ Counted'
  BY <1>1 DEF IInv, TypeOK, Own, Counted
<1> QED
  BY <1>2, <1>3, <1>4, <1>5, <1>6 DEF IInv

LEMMA RootOrWheelStep ==
  ASSUME IInv, NEW t \in Threads, RootOrWheel(t) PROVE IInv'
<1> USE DEF RootOrWheel, Goto
<1>1. op[t] \in Groups
  OBVIOUS
<1>3. TypeOK'
  BY DEF IInv, TypeOK, Outcomes
<1>4. OnPath'
  BY <1>1 DEF IInv, TypeOK, OnPath, Labels, Groups, Copying
<1>5. Held' /\ Marked' /\ Fresh'
  BY <1>1, MarkedKept DEF IInv, TypeOK, Held, Holding, Depends, Fresh, Groups
<1>7. Own' /\ Counted'
  BY DEF IInv, TypeOK, Own, Counted
<1> QED
  BY <1>3, <1>4, <1>5, <1>7 DEF IInv

LEMMA LeaveStep ==
  ASSUME IInv, NEW t \in Threads, Leave(t) PROVE IInv'
<1> DEFINE label == IF op[t] \in Copying THEN "copy"
                    ELSE IF op[t] \in {"inet", "preload", "name"} THEN "unlock"
                    ELSE IF op[t] = "init" THEN "next" ELSE "use"
<1>1. pc' = [pc EXCEPT ![t] = label] /\ pc[t] = "inside"
  BY Follows DEF Leave, Goto
<1>2. op[t] \in Copying \cup {"inet", "preload", "name", "init"} \cup Short
  BY Ops DEF IInv, TypeOK
<1>3. Lib(op[t]) \in Libs
  BY DEF Lib, Libs
<1>4. PICK w \in Threads :
        /\ t \notin raced => w = t
        /\ \/ /\ op[t] \in OwnMemory /\ saved' = [saved EXCEPT ![t] = w] /\ static' = static
           \/ /\ op[t] \notin OwnMemory /\ saved' = saved
              /\ static' = [static EXCEPT ![Lib(op[t])] = w]
  BY DEF Leave
<1>5. UNCHANGED <<owner, op, left, answer, kept, raced, DNS_LIB_INIT>>
  BY DEF Leave
<1>6. TypeOK'
  <2>1. outcome' \in [Threads -> Outcomes]
    BY DEF Leave, IInv, TypeOK
  <2>2. /\ static' \in [Libs -> Threads \cup {Nobody}]
        /\ saved' \in [Threads -> Threads \cup {Nobody}]
    BY <1>3, <1>4 DEF IInv, TypeOK
  <2>3. pc' \in [Threads -> {"idle", "lock", "enter", "inside", "copy", "unlock",
                             "next", "use", "done"}]
    BY <1>1 DEF IInv, TypeOK
  <2> QED
    BY <1>5, <2>1, <2>2, <2>3 DEF IInv, TypeOK
<1>7. OnPath'
  BY <1>1, <1>2, <1>5 DEF IInv, TypeOK, OnPath, Labels, Copying, Short, Groups
<1>8. Held'
  BY <1>1, <1>5 DEF IInv, TypeOK, Held, Holding
<1>9. Marked'
  BY <1>1, <1>5, MarkedKept DEF IInv, TypeOK, Depends
<1>10. Fresh'
  <2> SUFFICES ASSUME NEW u \in Threads, pc'[u] = "copy"
               PROVE  /\ static'[Lib(op[u])] \in Threads
                      /\ u \notin raced => static'[Lib(op[u])] = u
    BY <1>5 DEF Fresh
  <2>1. CASE u = t
    <3>1. op[t] \in Copying
      BY <1>1, <2>1 DEF IInv, TypeOK
    <3>2. op[t] \notin OwnMemory
      BY <3>1 DEF Copying, OwnMemory, Groups
    <3> QED
      BY <1>3, <1>4, <2>1, <3>2 DEF IInv, TypeOK
  <2>2. CASE u # t
    <3>1. pc[u] = "copy"
      BY <1>1, <2>2 DEF IInv, TypeOK
    <3>2. /\ static[Lib(op[u])] \in Threads
          /\ u \notin raced => static[Lib(op[u])] = u
      BY <3>1 DEF IInv, Fresh
    <3>3. op[u] \in Copying
      BY <3>1, Follows
    <3>4. CASE op[t] \in OwnMemory
      BY <1>4, <3>2, <3>4
    <3>5. CASE op[t] \notin OwnMemory /\ Lib(op[u]) = Lib(op[t])
      <4>1. Depends(t) /\ Depends(u)
        BY <1>1, <3>1, <3>3, <3>5 DEF Depends, OwnMemory, Copying, Groups
      <4>2. u \in raced
        BY <2>2, <3>5, <4>1 DEF IInv, Marked
      <4> QED
        BY <1>3, <1>4, <3>5, <4>2 DEF IInv, TypeOK
    <3>6. CASE op[t] \notin OwnMemory /\ Lib(op[u]) # Lib(op[t])
      <4>1. Lib(op[u]) \in Libs
        BY DEF Lib, Libs
      <4> QED
        BY <1>3, <1>4, <3>2, <3>6, <4>1 DEF IInv, TypeOK
    <3> QED
      BY <3>4, <3>5, <3>6
  <2> QED
    BY <2>1, <2>2
<1>11. Own' /\ Counted'
  BY <1>1, <1>4, <1>5 DEF IInv, TypeOK, Own, Counted
<1> QED
  BY <1>6, <1>7, <1>8, <1>9, <1>10, <1>11 DEF IInv

LEMMA CopyOutStep ==
  ASSUME IInv, NEW t \in Threads, CopyOut(t) PROVE IInv'
<1>0. PICK w \in Threads : /\ t \notin raced => w = static[Lib(op[t])]
                           /\ saved' = [saved EXCEPT ![t] = w]
  BY DEF CopyOut
<1>1. /\ pc[t] = "copy" /\ pc' = [pc EXCEPT ![t] = "unlock"] /\ op[t] \in Copying
      /\ saved' = [saved EXCEPT ![t] = w] /\ (t \notin raced => w = t)
      /\ UNCHANGED <<owner, static, op, left, outcome, answer, kept, raced, DNS_LIB_INIT>>
  BY <1>0, Follows DEF CopyOut, Goto, IInv, Fresh
<1>2. TypeOK'
  BY <1>1 DEF IInv, TypeOK
<1>3. OnPath'
  BY <1>1 DEF IInv, TypeOK, OnPath, Labels
<1>4. Held'
  BY <1>1 DEF IInv, TypeOK, Held, Holding
<1>5. Marked' /\ Fresh'
  BY <1>1, MarkedKept DEF IInv, TypeOK, Depends, Fresh
<1>6. Own' /\ Counted'
  BY <1>1 DEF IInv, TypeOK, Own, Counted
<1> QED
  BY <1>2, <1>3, <1>4, <1>5, <1>6 DEF IInv

(* Another thread that holds the mutex of the same library would be t. *)
LEMMA UnlockStep ==
  ASSUME IInv, NEW t \in Threads, Unlock(t) PROVE IInv'
<1>1. /\ pc[t] = "unlock" /\ pc' = [pc EXCEPT ![t] = "use"] /\ op[t] \in Locking
      /\ owner' = [owner EXCEPT ![Lib(op[t])] = Nobody]
      /\ UNCHANGED <<static, op, left, outcome, saved, answer, kept, raced, DNS_LIB_INIT>>
  BY Follows DEF Unlock, Goto
<1>2. Lib(op[t]) \in Libs /\ owner[Lib(op[t])] = t
  BY <1>1 DEF Lib, Libs, IInv, Held, Holding
<1>3. TypeOK'
  BY <1>1, <1>2 DEF IInv, TypeOK
<1>4. OnPath'
  BY <1>1 DEF IInv, TypeOK, OnPath, Labels, Locking
<1>5. Held'
  BY <1>1, <1>2 DEF IInv, TypeOK, Held, Holding
<1>6. Marked' /\ Fresh'
  BY <1>1, MarkedKept DEF IInv, TypeOK, Depends, Fresh
<1>7. Own' /\ Counted'
  BY <1>1 DEF IInv, TypeOK, Own, Counted
<1> QED
  BY <1>3, <1>4, <1>5, <1>6, <1>7 DEF IInv

LEMMA InitNextStep ==
  ASSUME IInv, NEW t \in Threads, InitNext(t) PROVE IInv'
<1>1. /\ pc[t] = "next" /\ op[t] = "init"
      /\ op' = [op EXCEPT ![t] = "preload"]
      /\ pc' = [pc EXCEPT ![t] = "lock"]
      /\ UNCHANGED <<owner, static, left, outcome, saved, answer, kept, raced, DNS_LIB_INIT>>
  BY Follows DEF InitNext, Goto, dns_get_inet_by_name
<1>2. "preload" \in AllOps
  BY Ops
<1>3. TypeOK'
  BY <1>1, <1>2 DEF IInv, TypeOK
<1>4. OnPath'
  BY <1>1 DEF IInv, TypeOK, OnPath, Labels, Copying
<1>5. Held'
  BY <1>1 DEF IInv, TypeOK, Held, Holding
<1>6. Marked' /\ Fresh'
  BY <1>1, MarkedKept DEF IInv, TypeOK, Depends, Fresh
<1>7. Own' /\ Counted'
  BY <1>1 DEF IInv, TypeOK, Own, Counted
<1> QED
  BY <1>3, <1>4, <1>5, <1>6, <1>7 DEF IInv

LEMMA UseStep ==
  ASSUME IInv, NEW t \in Threads, Use(t) PROVE IInv'
<1> DEFINE label == IF AskNext(t) THEN (IF op[t] \in Locking THEN "lock" ELSE "enter")
                    ELSE "done"
<1>1. /\ pc[t] = "use" /\ pc' = [pc EXCEPT ![t] = label]
      /\ left' = [left EXCEPT ![t] = left[t] - 1]
      /\ UNCHANGED <<owner, static, op, outcome, saved, raced>>
  BY Follows DEF Use, Goto
<1>2. op[t] \in Copying \cup {"inet", "preload", "name", "init"} \cup Short
  BY Ops DEF IInv, TypeOK
<1>3. left[t] \in 1..MaxDomains
  BY <1>1, BoundAssumption DEF IInv, TypeOK, Counted
<1>4. /\ Source(t) \in Threads \cup {Nobody}
      /\ op[t] # "name" /\ t \notin raced => Source(t) \in {t, Nobody}
  BY DEF Source, IInv, TypeOK, Own, Libs
<1>5. answer' = [answer EXCEPT ![t] = IF outcome[t] = "found" THEN Source(t) ELSE Nobody]
  BY DEF Use
<1>6. TypeOK'
  <2>1. kept' \in [Threads -> SUBSET Outcomes]
    <3>1. kept[t] \in SUBSET Outcomes /\ outcome[t] \in Outcomes
      BY DEF IInv, TypeOK
    <3>2. kept[t] \cup {outcome[t]} \in SUBSET Outcomes
      BY <3>1
    <3> QED
      BY <3>1, <3>2 DEF Use, IInv, TypeOK
  <2>2. left' \in [Threads -> 0..MaxDomains]
    BY <1>1, <1>3, BoundAssumption DEF IInv, TypeOK
  <2>3. answer' \in [Threads -> Threads \cup {Nobody}]
    BY <1>4, <1>5 DEF IInv, TypeOK
  <2>4. pc' \in [Threads -> {"idle", "lock", "enter", "inside", "copy", "unlock",
                             "next", "use", "done"}]
    BY <1>1 DEF IInv, TypeOK
  <2>5. DNS_LIB_INIT' \in BOOLEAN
    BY DEF Use
  <2> QED
    BY <1>1, <2>1, <2>2, <2>3, <2>4, <2>5 DEF IInv, TypeOK
<1>7. OnPath'
  BY <1>1, <1>2 DEF IInv, TypeOK, OnPath, Labels, Locking, Copying, Short, Groups
<1>8. Held'
  <2>1. \A u \in Threads : Holding(u)' => Holding(u)
    BY <1>1, <1>2 DEF IInv, TypeOK, Holding, Locking
  <2> QED
    BY <1>1, <2>1 DEF IInv, Held, Holding
<1>9. Marked' /\ Fresh'
  BY <1>1, MarkedKept DEF IInv, TypeOK, Depends, Fresh
<1>10. Own'
  BY <1>1, <1>4, <1>5 DEF IInv, TypeOK, Own
<1>11. Counted'
  <2> SUFFICES ASSUME NEW u \in Threads, pc'[u] # "done" PROVE left'[u] >= 1
    BY DEF Counted
  <2>1. CASE u = t
    <3>1. left[t] > 1
      BY <1>1, <2>1 DEF AskNext, IInv, TypeOK
    <3> QED
      BY <1>1, <1>3, <2>1, <3>1 DEF IInv, TypeOK
  <2>2. CASE u # t
    BY <1>1, <2>2 DEF IInv, TypeOK, Counted
  <2> QED
    BY <2>1, <2>2
<1> QED
  BY <1>6, <1>7, <1>8, <1>9, <1>10, <1>11 DEF IInv

-----------------------------------------------------------------------------
LEMMA NextStep ==
  ASSUME IInv, [Next]_vars PROVE IInv'
<1>1. CASE UNCHANGED vars
  BY <1>1 DEF vars, IInv, TypeOK, OnPath, Held, Holding, Marked, Depends, Fresh, Own, Counted
<1>2. ASSUME NEW t \in Threads, Step(t) PROVE IInv'
  BY <1>2, CallStep, LockStep, EnterStep, LeaveStep, CopyOutStep, UnlockStep,
     RootOrWheelStep, InitReturnsStep, InitNextStep, UseStep DEF Step
<1> QED
  BY <1>1, <1>2 DEF Next

(* The functions of dns.c and passwd.c keep to their state, for any number *)
(* of threads and blocklists.                                              *)
THEOREM ResolverTypeCorrect == Spec => []TypeOK
<1>1. IInv /\ [Next]_vars => IInv'
  BY NextStep
<1> QED
  BY <1>1, InitIInv, IInvSafe, PTL DEF Spec

(* The answers of dns.c and passwd.c are to the caller's own query, for    *)
(* any number of threads, except for passwd_get_name_by_id and for the     *)
(* lookups that overlap a call of dns_library_init, dns_get_mx_list or     *)
(* dns_get_txt_record, which do without the mutex.                         *)
THEOREM ResolverAnswersOwn == Spec => []AnswersOwn
<1>1. IInv /\ [Next]_vars => IInv'
  BY NextStep
<1> QED
  BY <1>1, InitIInv, IInvSafe, PTL DEF Spec
=============================================================================
