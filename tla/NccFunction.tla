---------------------------- MODULE NccFunction ----------------------------
(***************************************************************************)
(* One call of a function that ncc has translated to C: the automatic      *)
(* constructors of its local objects, its body, the catch and finally      *)
(* blocks, the automatic destructors, and the ways a statement can leave   *)
(* its block, which are the macros of nc_exception.h.                      *)
(*                                                                         *)
(*   fail       a bare call of a checked function fails: ncc wraps it in   *)
(*              try(), which is throw(""), which is a C return; throw,     *)
(*              throwf and require leave the function the same way         *)
(*   errno      throw_errno and throw_silent: goto catch, but only while   *)
(*              __retval is 0                                              *)
(*   return     ncc's return in any of the blocks, the finally block       *)
(*              itself included: set __retval and goto finally             *)
(***************************************************************************)
EXTENDS Integers

CONSTANTS
  Autos,       \* number of local objects that ncc constructs and destroys
  BodyLen,     \* number of statements in the body,
  CatchLen,    \* ... in the catch block,
  FinallyLen   \* ... and in the finally block

ASSUME SizeAssumption ==
  Autos \in Nat /\ BodyLen \in Nat /\ CatchLen \in Nat /\ FinallyLen \in Nat

VARIABLES
  block,     \* the block being executed
  at,        \* the number of statements of it that have been executed
  retval,    \* __retval
  set,       \* the block of the return statement that last set it
  live,      \* the automatic objects that exist
  thrown,    \* an exception has been raised
  caught,    \* how often the catch block was entered, counted up to 2
  cleaned,   \* the finally block has been run to its end
  result     \* the value returned to the caller

nccvars == <<block, at, retval, set, live, thrown, caught, cleaned, result>>

NccTypeOK ==
  /\ block \in {"new", "body", "catch", "finally", "destroy", "returned", "escaped"}
  /\ at \in Nat
  /\ retval \in {0, 1, -1}
  /\ set \in {"none", "body", "catch", "finally"}
  /\ live \in SUBSET (1..Autos)
  /\ thrown \in BOOLEAN
  /\ caught \in 0..2
  /\ cleaned \in BOOLEAN
  /\ result \in {0, 1, -1}

NccInit ==
  /\ block = "new"
  /\ at = 0
  /\ retval = 0
  /\ set = "none"
  /\ live = {}
  /\ thrown = FALSE
  /\ caught = 0
  /\ cleaned = FALSE
  /\ result = 0

-----------------------------------------------------------------------------
EnterBlock(b) == block' = b /\ at' = 0

(* The return statement that throw, try and destroy expand to: it leaves the *)
(* function from where it stands.                                            *)
RawReturn ==
  /\ EnterBlock("escaped")
  /\ result' = -1
  /\ UNCHANGED <<retval, set, live, caught, cleaned>>

(* Mutant: one constructor too many is called. *)
NewOneMore ==
  /\ block = "new" /\ at <= Autos
  /\ live' = live \cup {at + 1}
  /\ at' = at + 1
  /\ UNCHANGED <<block, retval, set, thrown, caught, cleaned, result>>

(* The generated "try (T_new(&v));" of each automatic object, in order. *)
New ==
  /\ block = "new" /\ at < Autos
  /\ \/ /\ live' = live \cup {at + 1}
        /\ at' = at + 1
        /\ UNCHANGED <<block, retval, set, thrown, caught, cleaned, result>>
     \/ /\ thrown' = TRUE
        /\ RawReturn

Length(b) == CASE b = "new" -> Autos [] b = "body" -> BodyLen
               [] b = "catch" -> CatchLen [] b = "finally" -> FinallyLen
               [] b = "destroy" -> Autos [] OTHER -> 0

InBlock(b) == block = b /\ at < Length(b)

(* A statement that goes on to the next one. *)
Statement ==
  /\ \E b \in {"body", "catch", "finally"} : InBlock(b)
  /\ at' = at + 1
  /\ UNCHANGED <<block, retval, set, live, thrown, caught, cleaned, result>>

(* try, throw, throwf, require *)
Fail ==
  /\ \E b \in {"body", "catch", "finally"} : InBlock(b)
  /\ thrown' = TRUE
  /\ RawReturn

(* Mutant: the guard is missing from the macro. *)
AlwaysCatch == TRUE

(* The guard of throw_errno and throw_silent. *)
MayCatch == retval = 0

(* throw_errno, throw_silent: with __retval set, the message is logged and *)
(* the next statement is executed.                                         *)
Errno ==
  /\ \E b \in {"body", "catch", "finally"} : InBlock(b)
  /\ thrown' = TRUE
  /\ IF MayCatch
       THEN /\ EnterBlock("catch")
            /\ retval' = -1
            /\ caught' = IF caught < 2 THEN caught + 1 ELSE caught
       ELSE /\ at' = at + 1
            /\ UNCHANGED <<block, retval, caught>>
  /\ UNCHANGED <<set, live, cleaned, result>>

(* return v; a return in the finally block leads to the start of it. *)
Return(v) ==
  /\ \E b \in {"body", "catch", "finally"} : InBlock(b)
  /\ retval' = v
  /\ set' = block
  /\ EnterBlock("finally")
  /\ UNCHANGED <<live, thrown, caught, cleaned, result>>

(* Mutants: the jump over the catch block skips the finally block as well; *)
(* the label finally comes before the label catch.                         *)
SkipsFinally(b) ==
  CASE b = "new" -> "body" [] b = "catch" -> "finally" [] OTHER -> "destroy"
LabelsSwapped(b) ==
  CASE b = "new" -> "body" [] b = "finally" -> "catch" [] OTHER -> "finally"

(* Where the end of a block leads: the body jumps over the catch block. *)
NextBlock(b) ==
  CASE b = "new" -> "body" [] b = "finally" -> "destroy" [] OTHER -> "finally"

(* The end of a block. *)
EndBlock ==
  /\ block \in {"new", "body", "catch", "finally"} /\ at = Length(block)
  /\ EnterBlock(NextBlock(block))
  /\ cleaned' = (cleaned \/ block = "finally")
  /\ UNCHANGED <<retval, set, live, thrown, caught, result>>

(* The generated "destroy(T, &v);" of each automatic object. *)
Destroy ==
  /\ block = "destroy" /\ at < Autos
  /\ \/ /\ live' = live \ {at + 1}
        /\ at' = at + 1
        /\ UNCHANGED <<block, retval, set, thrown, caught, cleaned, result>>
     \/ /\ thrown' = TRUE
        /\ RawReturn

(* Mutant: the function returns 0. *)
ReturnZero ==
  /\ block = "destroy" /\ at = Autos /\ EnterBlock("returned")
  /\ result' = 0
  /\ UNCHANGED <<retval, set, live, thrown, caught, cleaned>>

(* return __retval; *)
ReturnRetval ==
  /\ block = "destroy" /\ at = Autos
  /\ EnterBlock("returned")
  /\ result' = retval
  /\ UNCHANGED <<retval, set, live, thrown, caught, cleaned>>

NccNext ==
  \/ New \/ Statement \/ Fail \/ Errno
  \/ \E v \in {0, 1, -1} : Return(v)
  \/ EndBlock \/ Destroy \/ ReturnRetval

NccFairness == WF_nccvars(NccNext)
NccSpec == NccInit /\ [][NccNext]_nccvars
NccFairSpec == NccSpec /\ NccFairness

-----------------------------------------------------------------------------
(* Properties. *)

(* "Guaranteed to be executed even if an exception is raised" and          *)
(* "automatically destroyed at the end of the function": when the function *)
(* returns by its last statement, its finally block has been run to its end*)
(* and none of its automatic objects is left, however often the catch and  *)
(* finally blocks were entered before.                                     *)
CleanedUp == block = "returned" => cleaned /\ live = {}

(* The test of __retval in throw_errno keeps the catch block from being    *)
(* entered again, neither from itself nor from the finally block, as long  *)
(* as no return in the catch or in the finally block has replaced the -1   *)
(* that entering the catch block stores.                                   *)
CatchOnce == set \in {"none", "body"} => caught <= 1

(* An exception is never swallowed: the caller sees a failure after a raw  *)
(* return, and at the end of the function unless a return statement of it  *)
(* set another result.                                                     *)
ErrorReported ==
  /\ block = "escaped" => result = -1
  /\ block = "returned" /\ thrown /\ set = "none" => result = -1

(* The call returns, also when the finally block itself throws.  Without   *)
(* loops in its blocks it can go on for ever in two ways only: between a   *)
(* catch block that returns and a finally block that throws, or through a  *)
(* return in the finally block, which starts that block again.             *)
Terminates ==
  \/ <>(block \in {"returned", "escaped"})
  \/ []<>(block = "catch" /\ set = "catch")
  \/ []<>(block = "finally" /\ set = "finally")
=============================================================================
