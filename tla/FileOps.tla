------------------------------ MODULE FileOps ------------------------------
(***************************************************************************)
(* file_copy and the locks of file_lock (file.c), used on the path that    *)
(* file_write replaces and file_read reads (module FileWrite).             *)
(*                                                                         *)
(* A process may copy the file at the path, once, to a target that all the *)
(* copies share.  The target is abstracted to the inode that each of its   *)
(* bytes came from.  Or it may open the file, lock it, read it by its path,*)
(* and unlock or just close it, any number of times.  fcntl(2) locks belong*)
(* to a process and an inode: all of them are gone once the process has    *)
(* closed any descriptor of the inode.  file->locked is set by every call  *)
(* of file_lock, that of file_unlock included, and never read.             *)
(***************************************************************************)
EXTENDS FileWrite, Sequences

CONSTANTS
  Users,     \* the processes that call file_copy or file_lock
  IntoDir,   \* those that give a directory as the destination of a copy
  Garbage    \* a byte that came from no file

ASSUME UserAssumption == IntoDir \subseteq Users
ASSUME GarbageAssumption == Garbage \notin Inodes
ASSUME BytesAssumption == NoFile \notin Seq(Inodes \cup {Garbage})

VARIABLES
  cpc,       \* where each copier is in file_copy
  csize,     \* the size that file_get_size found
  cino,      \* the inode that the copier has read
  cmoved,    \* the file was replaced between file_get_size and open(2)
  clonger,   \* the target was longer than the copy when it was written
  target,    \* the bytes of the file at the new path, or NoFile
  last,      \* the copier that wrote to the target last
  lpc,       \* where each locker is
  lino,      \* the inode it has open
  lmode,     \* the lock it asked for, F_UNLCK if none
  lock,      \* the lock it holds in the kernel
  reread     \* it has called file_read since file_lock returned

copying == <<cpc, csize, cino, cmoved, clonger, target, last>>
locking == <<lpc, lino, lmode, lock, reread>>
opsvars == <<vars, copying, locking>>

Modes == {"F_RDLCK", "F_WRLCK"}

OpsTypeOK ==
  /\ cpc \in [Users -> {"ready", "dest", "read", "open", "write", "done", "failed"}]
  /\ csize \in [Users -> Nat]
  /\ cino \in [Users -> Inodes \cup {NoFile}]
  /\ cmoved \in [Users -> BOOLEAN] /\ clonger \in [Users -> BOOLEAN]
  /\ target = NoFile \/ target \in Seq(Inodes \cup {Garbage})
  /\ last \in Users \cup {NoFile}
  /\ lpc \in [Users -> {"ready", "open", "locked", "unlocked"}]
  /\ lino \in [Users -> Inodes \cup {NoFile}]
  /\ lmode \in [Users -> Modes \cup {"F_UNLCK"}]
  /\ lock \in [Users -> Modes \cup {"F_UNLCK"}]
  /\ reread \in [Users -> BOOLEAN]

OpsInit ==
  /\ Init
  /\ cpc = [c \in Users |-> "ready"]
  /\ csize = [c \in Users |-> 0] /\ cino = [c \in Users |-> NoFile]
  /\ cmoved = [c \in Users |-> FALSE] /\ clonger = [c \in Users |-> FALSE]
  /\ target = NoFile /\ last = NoFile
  /\ lpc = [p \in Users |-> "ready"]
  /\ lino = [p \in Users |-> NoFile] /\ lmode = [p \in Users |-> "F_UNLCK"]
  /\ lock = [p \in Users |-> "F_UNLCK"]
  /\ reread = [p \in Users |-> FALSE]

-----------------------------------------------------------------------------
(* file_copy *)

CopierAt(c, from, to) == cpc[c] = from /\ cpc' = [cpc EXCEPT ![c] = to]

(* file_is_regular and file_get_size look the path up, one after the other.*)
(* Only the size is kept.                                                  *)
CopySize(c) ==
  /\ lpc[c] = "ready"
  /\ dir # NoFile
  /\ CopierAt(c, "ready", "dest")
  /\ csize' = [csize EXCEPT ![c] = file_stat]
  /\ UNCHANGED <<cino, cmoved, clonger, target, last>>

(* file_exists of the destination.  If it is a directory the copy goes into*)
(* it, whatever is there; if it is a new path, nothing may be there.       *)
CopyDestination(c) ==
  /\ c \in IntoDir \/ target = NoFile
  /\ CopierAt(c, "dest", "read")
  /\ UNCHANGED <<csize, cino, cmoved, clonger, target, last>>

(* Mutant: a short read goes on. *)
ReadsAnySize(c, i) == TRUE

(* The read(2) of as many bytes as file_get_size found is not short. *)
ReadsSize(c, i) == csize[c] <= length[i]

(* open(2) and read(2) of the source, which is not written to any more. *)
CopyRead(c) ==
  /\ CopierAt(c, "read", "open")
  /\ ReadsSize(c, dir)
  /\ cino' = [cino EXCEPT ![c] = dir]
  /\ UNCHANGED <<csize, cmoved, clonger, target, last>>

(* open(2) with O_CREAT, and without O_TRUNC. *)
CopyOpen(c) ==
  /\ CopierAt(c, "open", "write")
  /\ target' = IF target = NoFile THEN <<>> ELSE target
  /\ UNCHANGED <<csize, cino, cmoved, clonger, last>>

(* The bytes that the buffer of c holds; what read(2) did not fill was     *)
(* there before.                                                           *)
BufferOf(c) == [i \in 1..csize[c] |-> IF i <= length[cino[c]] THEN cino[c] ELSE Garbage]

(* The bytes b written at the beginning of t. *)
Over(b, t) == b \o SubSeq(t, Len(b) + 1, Len(t))

(* write(2) of the whole buffer, and close(2). *)
CopyWrite(c) ==
  /\ CopierAt(c, "write", "done")
  /\ target' = Over(BufferOf(c), target)
  /\ clonger' = [clonger EXCEPT ![c] = Len(target) > csize[c]]
  /\ last' = c
  /\ UNCHANGED <<csize, cino, cmoved>>

(* A call in file_copy fails, the checks above among them, or the process  *)
(* dies: what has been done stays, the first n bytes of write(2) included. *)
CopyFails(c) ==
  /\ cpc[c] \in {"ready", "dest", "read", "open", "write"} /\ lpc[c] = "ready"
  /\ cpc' = [cpc EXCEPT ![c] = "failed"]
  /\ csize' = [csize EXCEPT ![c] = 0] /\ cino' = [cino EXCEPT ![c] = NoFile]
  /\ cmoved' = [cmoved EXCEPT ![c] = FALSE]
  /\ \/ UNCHANGED <<target, last>>
     \/ /\ cpc[c] = "write" /\ csize[c] > 0
        /\ \E n \in 1..csize[c] : target' = Over(SubSeq(BufferOf(c), 1, n), target)
        /\ last' = c
  /\ UNCHANGED clonger

-----------------------------------------------------------------------------
(* Locks *)

LockerAt(p, from, to) == lpc[p] = from /\ lpc' = [lpc EXCEPT ![p] = to]

(* file_open *)
OpenToLock(p) ==
  /\ cpc[p] = "ready"
  /\ dir # NoFile
  /\ LockerAt(p, "ready", "open")
  /\ lino' = [lino EXCEPT ![p] = dir]
  /\ UNCHANGED <<lmode, lock, reread>>

(* Two locks that different processes cannot hold on one inode. *)
Conflict(m, n) == "F_UNLCK" \notin {m, n} /\ "F_WRLCK" \in {m, n}

(* Mutant: F_SETLKW is given for write locks only. *)
WaitToWriteOnly(p, m) ==
  m = "F_WRLCK" => \A q \in Users \ {p} : lino[q] = lino[p] => ~Conflict(lock[q], m)

(* fcntl(2) with F_SETLKW waits until p gets the lock m. *)
Grantable(p, m) ==
  \A q \in Users \ {p} : lino[q] = lino[p] => ~Conflict(lock[q], m)

(* file_lock *)
LockFile(p, m) ==
  /\ LockerAt(p, "open", "locked")
  /\ Grantable(p, m)
  /\ lmode' = [lmode EXCEPT ![p] = m]
  /\ lock' = [lock EXCEPT ![p] = m]
  /\ UNCHANGED <<lino, reread>>

(* file_read of the path while the file is locked: it opens the path and   *)
(* closes the descriptor again.  If it is the file that is locked, the lock*)
(* is lost.                                                                *)
ReadLocked(p) ==
  /\ LockerAt(p, "locked", "locked")
  /\ reread' = [reread EXCEPT ![p] = TRUE]
  /\ lock' = [lock EXCEPT ![p] = IF dir = lino[p] THEN "F_UNLCK" ELSE @]
  /\ UNCHANGED <<lino, lmode>>

(* file_unlock is a file_lock, and leaves file->locked set like any other. *)
Unlock(p) ==
  /\ LockerAt(p, "locked", "unlocked")
  /\ lock' = [lock EXCEPT ![p] = "F_UNLCK"]
  /\ UNCHANGED <<lino, lmode, reread>>

(* file_close, with or without a file_unlock before it; also file_destroy, *)
(* and the end of the process.                                             *)
CloseLocked(p) ==
  /\ lpc[p] # "ready"
  /\ LockerAt(p, lpc[p], "ready")
  /\ lock' = [lock EXCEPT ![p] = "F_UNLCK"]
  /\ lino' = [lino EXCEPT ![p] = NoFile]
  /\ lmode' = [lmode EXCEPT ![p] = "F_UNLCK"]
  /\ reread' = [reread EXCEPT ![p] = FALSE]

OpsNext ==
  \/ /\ Next
     /\ cmoved' = [c \in Users |->
                     cmoved[c] \/ (cpc[c] \in {"dest", "read"} /\ dir' # dir)]
     /\ UNCHANGED <<cpc, csize, cino, clonger, target, last, locking>>
  \/ /\ \E c \in Users : \/ CopySize(c) \/ CopyDestination(c) \/ CopyRead(c)
                         \/ CopyOpen(c) \/ CopyWrite(c) \/ CopyFails(c)
     /\ UNCHANGED <<vars, locking>>
  \/ /\ \E p \in Users : \/ OpenToLock(p) \/ ReadLocked(p) \/ Unlock(p) \/ CloseLocked(p)
                         \/ \E m \in Modes : LockFile(p, m)
     /\ UNCHANGED <<vars, copying>>

OpsSpec == OpsInit /\ [][OpsNext]_opsvars

-----------------------------------------------------------------------------
(* Properties. *)

(* After a file_copy that reports success and until the next one writes,   *)
(* the target begins with bytes of one version of the source and of no     *)
(* other; with all of it, if no file_write came between file_get_size and  *)
(* open(2); and nothing follows, if the target was not longer before (there*)
(* is no O_TRUNC).                                                         *)
CopyFaithful ==
  /\ OpsTypeOK
  /\ \A c \in Users :
       cpc[c] = "done" /\ last = c =>
         /\ csize[c] <= Len(target)
         /\ \A i \in 1..csize[c] : target[i] = cino[c]
         /\ ~cmoved[c] => csize[c] = length[cino[c]]
         /\ ~clonger[c] => Len(target) = csize[c]

(* Two processes that have locked the file by its path, one of them for    *)
(* writing, and have not called file_read since, have locked different     *)
(* files: a file_write has replaced the one by the other.  The other way   *)
(* round, the lock excludes nobody once file_write has been called.        *)
LocksExclude ==
  \A p, q \in Users :
    /\ p # q /\ lpc[p] = "locked" /\ lpc[q] = "locked"
    /\ Conflict(lmode[p], lmode[q])
    /\ ~reread[p] /\ ~reread[q]
    => /\ lino[p] # lino[q]
       /\ \E w \in Writers : pc[w] = "done" /\ w \in {lino[p], lino[q]}
=============================================================================
