------------------------------ MODULE FileWrite ------------------------------
(***************************************************************************)
(* file_write and file_read (file.c) on one path, used by several processes*)
(* that may crash between any two system calls.                            *)
(*                                                                         *)
(* The file system is a directory that maps names to inodes, and inodes    *)
(* that hold data.  Data is abstracted to whose buffer it is from and how  *)
(* many bytes of the buffer there are.                                     *)
(***************************************************************************)
EXTENDS Naturals

CONSTANTS
  Writers,   \* processes calling file_write, each with a buffer of its own
  Readers,   \* processes calling file_read
  Old,       \* the buffer the file may hold beforehand
  NoFile,    \* the path does not exist
  Size,      \* the number of bytes in each buffer
  StringMax, \* STRING_MAX
  MayFail    \* the system calls that may fail

(* Each writer writes its own buffer into an inode of its own (mkstemp), so*)
(* the writer names both.                                                  *)
Inodes == Writers \cup {Old}

ASSUME DistinctAssumption ==
  /\ Old \notin Writers
  /\ NoFile \notin Writers \cup {Old}
  /\ NoFile \notin Inodes \X Nat
ASSUME SizeAssumption == Size \in [Inodes -> Nat \ {0}] /\ StringMax \in Nat
ASSUME FailAssumption ==
  MayFail \subseteq {"mkstemp", "write", "short", "close", "rename"}

VARIABLES
  pc,        \* where each writer is in file_write
  dir,       \* the inode at the path, or NoFile
  tmp,       \* the inodes still linked under their temporary name
  length,    \* how many bytes of its buffer each inode holds
  rpc,       \* where each reader is in file_read
  rino,      \* the inode each reader has open
  rsize,     \* the size file_fstat returned to it
  result,    \* <<inode, bytes>> that str_read returned, or NoFile
  moved      \* the file was replaced between file_open and file_fstat

vars == <<pc, dir, tmp, length, rpc, rino, rsize, result, moved>>
readers == <<rpc, rino, rsize, result>>

TypeOK ==
  /\ pc \in [Writers -> {"ready", "puts", "close", "rename", "done", "failed", "crashed"}]
  /\ dir \in Inodes \cup {NoFile}
  /\ tmp \in SUBSET Writers
  /\ length \in [Inodes -> Nat]
  /\ rpc \in [Readers -> {"ready", "fstat", "read", "done", "failed"}]
  /\ rino \in [Readers -> Inodes \cup {NoFile}]
  /\ rsize \in [Readers -> Nat]
  /\ result \in [Readers -> (Inodes \X Nat) \cup {NoFile}]
  /\ moved \in [Readers -> BOOLEAN]

Init ==
  /\ pc = [w \in Writers |-> "ready"]
  /\ dir \in {Old, NoFile}
  /\ tmp = {}
  /\ length = [i \in Inodes |-> IF i = dir THEN Size[i] ELSE 0]
  /\ rpc = [r \in Readers |-> "ready"]
  /\ rino = [r \in Readers |-> NoFile]
  /\ rsize = [r \in Readers |-> 0]
  /\ result = [r \in Readers |-> NoFile]
  /\ moved = [r \in Readers |-> FALSE]

-----------------------------------------------------------------------------
(* file_write *)

(* Mutants: the temporary name is the path itself; the new file takes its  *)
(* place before it is written.                                             *)
TemporaryIsTarget(w) ==
  /\ pc[w] = "ready"
  /\ pc' = [pc EXCEPT ![w] = "puts"]
  /\ tmp' = tmp \cup {dir}
  /\ UNCHANGED <<dir, length, readers, moved>>
RenameBeforeWrite(w) ==
  /\ pc[w] = "ready"
  /\ pc' = [pc EXCEPT ![w] = "rename"]
  /\ UNCHANGED <<dir, tmp, length, readers, moved>>

mkstemp(w) ==
  /\ pc[w] = "ready"
  /\ \/ /\ pc' = [pc EXCEPT ![w] = "puts"]
        /\ tmp' = tmp \cup {w}
     \/ /\ "mkstemp" \in MayFail
        /\ pc' = [pc EXCEPT ![w] = "failed"]
        /\ UNCHANGED tmp
  /\ UNCHANGED <<dir, length, readers, moved>>

(* What a write(2) of the buffer i may have stored when it reports success.*)
Stored(i) == IF "short" \in MayFail THEN 1..Size[i] ELSE {Size[i]}

(* One write(2); its result is only compared with zero, so a short write   *)
(* goes on as if it were complete.                                         *)
file_puts(w) ==
  /\ pc[w] = "puts"
  /\ \/ /\ \E n \in Stored(w) : length' = [length EXCEPT ![w] = n]
        /\ pc' = [pc EXCEPT ![w] = "close"]
     \/ /\ "write" \in MayFail
        /\ pc' = [pc EXCEPT ![w] = "failed"]
        /\ UNCHANGED length
  /\ UNCHANGED <<dir, tmp, readers, moved>>

close(w) ==
  /\ pc[w] = "close"
  /\ \/ pc' = [pc EXCEPT ![w] = "rename"]
     \/ "close" \in MayFail /\ pc' = [pc EXCEPT ![w] = "failed"]
  /\ UNCHANGED <<dir, tmp, length, readers, moved>>

(* rename(2) replaces the directory entry in one step.  No failure removes *)
(* the temporary file.                                                     *)
file_rename(w) ==
  /\ pc[w] = "rename"
  /\ \/ /\ dir' = w
        /\ tmp' = tmp \ {w}
        /\ pc' = [pc EXCEPT ![w] = "done"]
     \/ /\ "rename" \in MayFail
        /\ pc' = [pc EXCEPT ![w] = "failed"]
        /\ UNCHANGED <<dir, tmp>>
  /\ moved' = [r \in Readers |-> moved[r] \/ (rpc[r] = "fstat" /\ dir' # dir)]
  /\ UNCHANGED <<length, readers>>

(* The process dies between two system calls, or in the middle of write(2).*)
Crash(w) ==
  /\ pc[w] \notin {"done", "failed", "crashed"}
  /\ pc' = [pc EXCEPT ![w] = "crashed"]
  /\ \/ UNCHANGED length
     \/ /\ pc[w] = "puts"
        /\ \E n \in 0..Size[w] : length' = [length EXCEPT ![w] = n]
  /\ UNCHANGED <<dir, tmp, readers, moved>>

-----------------------------------------------------------------------------
(* file_read *)

file_open(r) ==
  /\ rpc[r] = "ready"
  /\ rino' = [rino EXCEPT ![r] = dir]
  /\ rpc' = [rpc EXCEPT ![r] = IF dir = NoFile THEN "failed" ELSE "fstat"]
  /\ UNCHANGED <<pc, dir, tmp, length, rsize, result, moved>>

(* Mutant: the size found is too small. *)
SizeTooSmall(r) ==
  /\ rpc[r] = "fstat"
  /\ rsize' = [rsize EXCEPT ![r] = 0]
  /\ rpc' = [rpc EXCEPT ![r] = "read"]
  /\ UNCHANGED <<pc, dir, tmp, length, rino, result, moved>>

(* The size of the file that is at the path now. *)
file_stat == IF dir = NoFile THEN 0 ELSE length[dir]

(* file_fstat does not use the open descriptor: it calls file_stat with the*)
(* path.                                                                   *)
file_fstat(r) ==
  /\ rpc[r] = "fstat"
  /\ rsize' = [rsize EXCEPT ![r] = file_stat]
  /\ rpc' = [rpc EXCEPT ![r] = IF file_stat > StringMax THEN "failed" ELSE "read"]
  /\ UNCHANGED <<pc, dir, tmp, length, rino, result, moved>>

(* str_read asks the descriptor for as many bytes as file_fstat found. *)
str_read(r) ==
  /\ rpc[r] = "read"
  /\ result' = [result EXCEPT ![r] =
                  <<rino[r], IF rsize[r] < length[rino[r]] THEN rsize[r]
                             ELSE length[rino[r]]>>]
  /\ rpc' = [rpc EXCEPT ![r] = "done"]
  /\ UNCHANGED <<pc, dir, tmp, length, rino, rsize, moved>>

Next ==
  \/ \E w \in Writers :
       mkstemp(w) \/ file_puts(w) \/ close(w) \/ file_rename(w) \/ Crash(w)
  \/ \E r \in Readers : file_open(r) \/ file_fstat(r) \/ str_read(r)

Spec == Init /\ [][Next]_vars

-----------------------------------------------------------------------------
(* Properties. *)

(* The contents of the file at the path, and all those it has had. *)
Contents == IF dir = NoFile THEN NoFile ELSE <<dir, length[dir]>>
Installs == {w \in Writers : pc[w] = "done"} \cup {i \in {Old} : length[i] # 0}
Installed == {<<i, length[i]>> : i \in Installs}

AF == INSTANCE AtomicFile WITH
        Data <- UNION {{i} \X Stored(i) : i \in Inodes},
        file <- Contents, past <- Installed

(* file_write keeps the promises of its comment: seen from outside, the    *)
(* file changes only in one step from what one call of file_write stored   *)
(* to what another one stored, whatever crashes or fails halfway.  What    *)
(* file_read returns is from one of them, never a mixture.                 *)
ReplacesAtomically == AF!Spec

(* A file_read that no file_write has overtaken between its file_open and  *)
(* its file_fstat returns the whole file.                                  *)
ReadsWhole ==
  \A r \in Readers :
    rpc[r] = "done" /\ ~moved[r] => result[r] = <<rino[r], length[rino[r]]>>

(* The file at the path holds a complete buffer. *)
FileWhole == dir # NoFile => length[dir] = Size[dir]
=============================================================================
