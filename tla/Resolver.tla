------------------------------ MODULE Resolver ------------------------------
(***************************************************************************)
(* The functions of dns.c and passwd.c that call library routines which    *)
(* keep their results in static storage, by several threads.  The mutexes  *)
(* DNS_RESOLVER_MUTEX and PWDB_MUTEX are there to serialize them.          *)
(*                                                                         *)
(* Each thread makes one call; what a routine returns is abstracted to the *)
(* thread whose query it answers.  passwd.c is modelled as it is compiled  *)
(* where getpwuid_r(3) is missing.                                         *)
(*                                                                         *)
(* The path of each function from the lock on is a sequence of labels:     *)
(* "inside" is the library routine, "copy" the copy of its result that is  *)
(* made under the mutex, and "use" what is done after the mutex.           *)
(*                                                                         *)
(* dns_library_init, dns_get_mx_list and dns_get_txt_record call the       *)
(* resolver without the mutex.  When such a call overlaps another one, the *)
(* resolver's state is shared without protection: both threads are in      *)
(* raced from then on, and may read anyone's answer.                       *)
(***************************************************************************)
EXTENDS Naturals, Sequences, FiniteSets

CONSTANTS
  Threads,
  Nobody,      \* the mutex is free; also: no answer
  MaxDomains   \* the blocklists in the list given to ping or query (a bound)

ASSUME NobodyAssumption == Nobody \notin Threads
ASSUME BoundAssumption == MaxDomains \in Nat \ {0}

VARIABLES
  owner,     \* who holds each mutex
  static,    \* whose query the static storage of each library answers
  pc,        \* where each thread is
  op,        \* the function it is in
  left,      \* the blocklists it has yet to ask about
  outcome,   \* what the routine told it
  saved,     \* whose answer it has copied out of the static storage
  answer,    \* whose answer it has used in the end
  kept,      \* the outcomes for the blocklists that ping has kept
  raced,     \* the threads whose lookup met one that was made without the mutex
  DNS_LIB_INIT

(* Mutant: dns_get_service_by_name does without the mutex. *)
ServiceUnlocked == <<"enter", "inside", "copy", "use">>

dns_get_service_by_name == <<"lock", "enter", "inside", "copy", "unlock", "use">>
dns_get_inet_by_name    == <<"lock", "enter", "inside", "unlock", "use">>
dns_ping_blocklist      == <<"lock", "enter", "inside", "copy", "unlock", "use">>
dns_query_blocklist     == <<"lock", "enter", "inside", "copy", "unlock", "use">>
dns_get_mx_list         == <<"enter", "inside", "use">>
dns_get_txt_record      == <<"enter", "inside", "use">>
passwd_get_id_by_name   == <<"lock", "enter", "inside", "copy", "unlock", "use">>
passwd_get_name_by_id   == <<"lock", "enter", "inside", "unlock", "use">>

passwd_exists           == passwd_get_id_by_name
(* getgrnam_r(3) and getgrgid_r(3) are called without a mutex. *)
group_get_id_by_name    == <<"enter", "inside", "use">>
group_get_name_by_id    == <<"enter", "inside", "use">>
group_exists            == group_get_id_by_name

(* dns_library_init has no mutex to unlock, and then calls                 *)
(* dns_get_inet_by_name, which is its own operation here: "preload".       *)
dns_library_init        == <<"enter", "inside", "next">>

Path == [service |-> dns_get_service_by_name, inet |-> dns_get_inet_by_name,
         ping |-> dns_ping_blocklist, query |-> dns_query_blocklist,
         mx |-> dns_get_mx_list, txt |-> dns_get_txt_record,
         init |-> dns_library_init, preload |-> dns_get_inet_by_name,
         uid |-> passwd_get_id_by_name, name |-> passwd_get_name_by_id,
         user_exists |-> passwd_exists, gid |-> group_get_id_by_name,
         group |-> group_get_name_by_id, group_exists |-> group_exists]
AllOps == DOMAIN Path

vars == <<owner, static, pc, op, left, outcome, saved, answer, kept, raced, DNS_LIB_INIT>>

Libs == {"dns", "pwd"}
Lib(o) == IF o \in {"uid", "name", "user_exists"} THEN "pwd" ELSE "dns"

(* The routines for groups are reentrant; these and getaddrinfo(3),        *)
(* res_query(3) and res_search(3) return their result in memory of the     *)
(* caller.                                                                 *)
Groups == {"gid", "group", "group_exists"}
OwnMemory == {"inet", "preload", "mx", "txt"} \cup Groups
Unlocked == {"init", "mx", "txt"}
Outcomes == {"found", "not found", "try again"}

TypeOK ==
  /\ owner \in [Libs -> Threads \cup {Nobody}]
  /\ static \in [Libs -> Threads \cup {Nobody}]
  /\ pc \in [Threads -> {"idle", "lock", "enter", "inside", "copy", "unlock",
                         "next", "use", "done"}]
  /\ op \in [Threads -> AllOps]
  /\ left \in [Threads -> 0..MaxDomains]
  /\ outcome \in [Threads -> Outcomes]
  /\ saved \in [Threads -> Threads \cup {Nobody}]
  /\ answer \in [Threads -> Threads \cup {Nobody}]
  /\ kept \in [Threads -> SUBSET Outcomes]
  /\ raced \in SUBSET Threads
  /\ DNS_LIB_INIT \in BOOLEAN

Init ==
  /\ owner = [l \in Libs |-> Nobody]
  /\ static = [l \in Libs |-> Nobody]
  /\ pc = [t \in Threads |-> "idle"]
  /\ op \in [Threads -> AllOps \ {"preload"}]
  /\ left = [t \in Threads |-> IF op[t] \in {"ping", "query"} THEN MaxDomains ELSE 1]
  /\ outcome = [t \in Threads |-> "not found"]
  /\ saved = [t \in Threads |-> Nobody]
  /\ answer = [t \in Threads |-> Nobody]
  /\ kept = [t \in Threads |-> {}]
  /\ raced = {}
  /\ DNS_LIB_INIT = FALSE

Goto(t, label) == pc' = [pc EXCEPT ![t] = label]

(* The label after the one that thread t is at. *)
Following(t) ==
  LET p == Path[op[t]] IN p[1 + CHOOSE k \in 1..Len(p) : p[k] = pc[t]]

-----------------------------------------------------------------------------
(* A thread makes its call; dns_library_init does not go on a second time. *)
Call(t) ==
  /\ pc[t] = "idle"
  /\ op[t] = "init" => ~DNS_LIB_INIT
  /\ Goto(t, Head(Path[op[t]]))
  /\ UNCHANGED <<owner, static, op, left, outcome, saved, answer, kept, raced, DNS_LIB_INIT>>

(* dns_library_init returns early: it has been called before, or           *)
(* host_get_name fails.                                                    *)
InitReturns(t) ==
  /\ pc[t] = "idle" /\ op[t] = "init"
  /\ Goto(t, "done")
  /\ UNCHANGED <<owner, static, op, left, outcome, saved, answer, kept, raced, DNS_LIB_INIT>>

(* mutex_lock *)
Lock(t) ==
  /\ pc[t] = "lock" /\ owner[Lib(op[t])] = Nobody
  /\ owner' = [owner EXCEPT ![Lib(op[t])] = t]
  /\ Goto(t, Following(t))
  /\ UNCHANGED <<static, op, left, outcome, saved, answer, kept, raced, DNS_LIB_INIT>>

(* __group_get_gev does not look up the names "root" and "wheel", whose id *)
(* is 0.  Also group_get_name_by_id leaves early if its string holds one of*)
(* them: it stays there, and is no answer to the query.                    *)
RootOrWheel(t) ==
  /\ pc[t] = "enter" /\ op[t] \in Groups
  /\ outcome' = [outcome EXCEPT ![t] = "found"]
  /\ saved' = [saved EXCEPT ![t] = IF op[t] = "group" THEN Nobody ELSE t]
  /\ Goto(t, "use")
  /\ UNCHANGED <<owner, static, op, left, answer, kept, raced, DNS_LIB_INIT>>

(* From the routine to the copy of its result a thread depends on the      *)
(* state that the routines of a library share.                             *)
Depends(t) == pc[t] \in {"inside", "copy"} /\ op[t] \notin Groups
Meets(t) ==
  {u \in Threads \ {t} : /\ Depends(u) /\ Lib(op[u]) = Lib(op[t])
                         /\ {op[t], op[u]} \cap Unlocked # {}}

(* The library routine begins ... *)
Enter(t) ==
  /\ pc[t] = "enter"
  /\ raced' = IF op[t] \in Groups \/ Meets(t) = {} THEN raced
              ELSE raced \cup Meets(t) \cup {t}
  /\ Goto(t, Following(t))
  /\ UNCHANGED <<owner, static, op, left, outcome, saved, answer, kept, DNS_LIB_INIT>>

(* ... and returns, with its result in memory of the caller or in the      *)
(* static storage.  After a race it can be the answer to any query.        *)
Leave(t) ==
  /\ pc[t] = "inside"
  /\ \E r \in Outcomes : outcome' = [outcome EXCEPT ![t] = r]
  /\ \E w \in Threads :
       /\ t \notin raced => w = t
       /\ IF op[t] \in OwnMemory
            THEN saved' = [saved EXCEPT ![t] = w] /\ UNCHANGED static
            ELSE static' = [static EXCEPT ![Lib(op[t])] = w] /\ UNCHANGED saved
  /\ Goto(t, Following(t))
  /\ UNCHANGED <<owner, op, left, answer, kept, raced, DNS_LIB_INIT>>

(* memcpy of the result, or "rc = h_errno".  The copy of a passwd entry has*)
(* the user id in it, and a pointer to the name.                           *)
CopyOut(t) ==
  /\ pc[t] = "copy"
  /\ \E w \in Threads : /\ t \notin raced => w = static[Lib(op[t])]
                        /\ saved' = [saved EXCEPT ![t] = w]
  /\ Goto(t, Following(t))
  /\ UNCHANGED <<owner, static, op, left, outcome, answer, kept, raced, DNS_LIB_INIT>>

(* Mutant: a failed lookup returns from the function at once. *)
UnlockIfFound(t) ==
  /\ pc[t] = "unlock"
  /\ owner' = [owner EXCEPT ![Lib(op[t])] =
                 IF @ = t /\ outcome[t] = "found" THEN Nobody ELSE @]
  /\ Goto(t, Following(t))
  /\ UNCHANGED <<static, op, left, outcome, saved, answer, kept, raced, DNS_LIB_INIT>>

(* mutex_unlock, on the way of a failed lookup as well: throw_silent in    *)
(* __getpw_r leads through its finally block.                              *)
Unlock(t) ==
  /\ pc[t] = "unlock"
  /\ owner' = [owner EXCEPT ![Lib(op[t])] = Nobody]
  /\ Goto(t, Following(t))
  /\ UNCHANGED <<static, op, left, outcome, saved, answer, kept, raced, DNS_LIB_INIT>>

(* dns_library_init goes on with dns_get_inet_by_name. *)
InitNext(t) ==
  /\ pc[t] = "next"
  /\ op' = [op EXCEPT ![t] = "preload"]
  /\ Goto(t, Head(dns_get_inet_by_name))
  /\ UNCHANGED <<owner, static, left, outcome, saved, answer, kept, raced, DNS_LIB_INIT>>

(* Mutant: a blocklist is asked again. *)
AskAgain(t) == TRUE

(* The loop over the blocklists goes on: dns_query_blocklist stops at the  *)
(* first answer.                                                           *)
AskNext(t) == left[t] > 1 /\ ~(op[t] = "query" /\ outcome[t] = "found")

(* What the result is taken from, after the mutex has been unlocked. *)
Source(t) == IF op[t] = "name" THEN static["pwd"] ELSE saved[t]   \* result->pw_name

Use(t) ==
  /\ pc[t] = "use"
  /\ answer' = [answer EXCEPT ![t] =
                  IF outcome[t] = "found" THEN Source(t) ELSE Nobody]
  /\ kept' = [kept EXCEPT ![t] = IF op[t] = "ping" /\ outcome[t] # "not found"
                                   THEN @ \cup {outcome[t]} ELSE @]
  /\ left' = [left EXCEPT ![t] = @ - 1]
  /\ Goto(t, IF AskNext(t) THEN Head(Path[op[t]]) ELSE "done")
  /\ DNS_LIB_INIT' = (DNS_LIB_INIT \/ op[t] = "preload")
  /\ UNCHANGED <<owner, static, op, outcome, saved, raced>>

Step(t) ==
  \/ Call(t) \/ InitReturns(t) \/ Lock(t) \/ Enter(t) \/ Leave(t) \/ CopyOut(t) \/ Unlock(t)
  \/ RootOrWheel(t) \/ InitNext(t) \/ Use(t)

Next == \E t \in Threads : Step(t)

Spec == Init /\ [][Next]_vars
(* Every thread runs; each takes a mutex a bounded number of times. *)
FairSpec == Spec /\ \A t \in Threads : WF_vars(Step(t))

-----------------------------------------------------------------------------
(* Properties. *)

(* A thread that got an answer got the answer to its own query, although   *)
(* the others have used the same storage since: the mutexes, held from the *)
(* call of the routine until its result is copied, keep the functions that *)
(* take them apart.  The exceptions are passwd_get_name_by_id, which reads *)
(* the storage later, and the lookups that met one of the three functions  *)
(* which do without the mutex.                                             *)
AnswersOwn ==
  \A t \in Threads \ raced :
    pc[t] = "done" /\ op[t] # "name" => answer[t] \in {t, Nobody}

(* Every call ends, whether the lookups succeed or fail: no path leaves a  *)
(* mutex locked.                                                           *)
CallsEnd == \A t \in Threads : <>(pc[t] = "done")
=============================================================================
