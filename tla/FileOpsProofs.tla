--------------------------- MODULE FileOpsProofs ---------------------------
(***************************************************************************)
(* Proofs about the files that processes share, for any number of processes*)
(* and any combination of failures and crashes.  file_write and file_read  *)
(* implement AtomicFile; file_copy and file_lock leave them alone, so that *)
(* what is proved of these holds in the company of the others too.  The    *)
(* last part is about the pidfile of process.c.                            *)
(***************************************************************************)
EXTENDS FileOps, PidFile, TLAPS

-----------------------------------------------------------------------------
(* file_write and file_read. *)

(* Only a writer that has renamed its file has its inode at the path, and   *)
(* by then the inode holds what write(2) stored and no longer changes.  A   *)
(* reader keeps the inode it opened.                                        *)
Settled ==
  /\ dir # NoFile => dir \in Installs
  /\ \A w \in Writers : pc[w] \in {"close", "rename", "done"} => length[w] \in Stored(w)
  /\ length[Old] \in {0, Size[Old]}
  /\ \A r \in Readers : rpc[r] \in {"fstat", "read", "done"} => rino[r] \in Installs

(* While nobody has overtaken it, a reader's inode is the one at the path   *)
(* until file_fstat, so the size that it finds is that of its own inode.    *)
Fresh ==
  \A r \in Readers :
    ~moved[r] =>
      /\ rpc[r] = "fstat" => rino[r] = dir /\ dir # NoFile
      /\ rpc[r] = "read" => rsize[r] = length[rino[r]]
      /\ rpc[r] = "done" => result[r] = <<rino[r], length[rino[r]]>>

(* A reader past its file_open has an inode; TypeOK is not inductive alone. *)
Opened == \A r \in Readers : rpc[r] \in {"fstat", "read"} => rino[r] \in Inodes

(* The variables of the file system and of its users keep their types.      *)
THEOREM FileTypeCorrect == Spec => []TypeOK
<1> USE SizeAssumption
<1>1. Init => TypeOK /\ Opened
  BY DEF Init, TypeOK, Opened, Inodes
<1>2. TypeOK /\ Opened /\ [Next]_vars => TypeOK' /\ Opened'
  <2> SUFFICES ASSUME TypeOK, Opened, [Next]_vars PROVE TypeOK' /\ Opened'
    OBVIOUS
  <2> USE DEF TypeOK, Opened, Inodes, readers
  <2>1. ASSUME NEW w \in Writers, mkstemp(w) PROVE TypeOK' /\ Opened'
    BY <2>1 DEF mkstemp
  <2>2. ASSUME NEW w \in Writers, file_puts(w) PROVE TypeOK' /\ Opened'
    BY <2>2 DEF file_puts, Stored
  <2>3. ASSUME NEW w \in Writers, close(w) PROVE TypeOK' /\ Opened'
    BY <2>3 DEF close
  <2>4. ASSUME NEW w \in Writers, file_rename(w) PROVE TypeOK' /\ Opened'
    BY <2>4 DEF file_rename
  <2>5. ASSUME NEW w \in Writers, Crash(w) PROVE TypeOK' /\ Opened'
    BY <2>5 DEF Crash
  <2>6. ASSUME NEW r \in Readers, file_open(r) PROVE TypeOK' /\ Opened'
    BY <2>6 DEF file_open
  <2>7. ASSUME NEW r \in Readers, file_fstat(r) PROVE TypeOK' /\ Opened'
    <3>1. file_stat \in Nat
      BY DEF file_stat
    <3>2. QED
      BY <2>7, <3>1 DEF file_fstat
  <2>8. ASSUME NEW r \in Readers, str_read(r) PROVE TypeOK' /\ Opened'
    BY <2>8 DEF str_read
  <2>9. CASE UNCHANGED vars
    BY <2>9 DEF vars
  <2>10. QED
    BY <2>1, <2>2, <2>3, <2>4, <2>5, <2>6, <2>7, <2>8, <2>9 DEF Next
<1>3. QED
  BY <1>1, <1>2, PTL DEF Spec

(* An inode that has been installed is never written again.                 *)
LEMMA InstalledFixed ==
  ASSUME TypeOK, [Next]_vars
  PROVE  Installs \subseteq Installs' /\ \A i \in Installs : length'[i] = length[i]
<1> USE DistinctAssumption DEF TypeOK, Installs, Inodes, readers
<1>1. ASSUME NEW w \in Writers, mkstemp(w) \/ close(w) \/ file_rename(w)
      PROVE  Installs \subseteq Installs' /\ length' = length
  BY <1>1 DEF mkstemp, close, file_rename
<1>2. ASSUME NEW w \in Writers, file_puts(w) \/ Crash(w)
      PROVE  Installs \subseteq Installs' /\ \A i \in Installs : length'[i] = length[i]
  <2>1. w \notin Installs /\ \A i \in Inodes : i # w => length'[i] = length[i]
    BY <1>2 DEF file_puts, Crash
  <2>2. \A v \in Writers : v # w => pc'[v] = pc[v]
    BY <1>2 DEF file_puts, Crash
  <2>3. QED
    BY <2>1, <2>2
<1>3. ASSUME NEW r \in Readers, file_open(r) \/ file_fstat(r) \/ str_read(r)
      PROVE  Installs' = Installs /\ length' = length
  BY <1>3 DEF file_open, file_fstat, str_read
<1>4. CASE UNCHANGED vars
  BY <1>4 DEF vars
<1>5. QED
  BY <1>1, <1>2, <1>3, <1>4 DEF Next

(* Settled is kept by every step.                                           *)
LEMMA SettledKept ==
  ASSUME TypeOK, Settled, [Next]_vars
  PROVE  Settled'
<1>0. Installs \subseteq Installs' /\ \A i \in Installs : length'[i] = length[i]
  BY InstalledFixed
<1> DEFINE PcPart == \A w \in Writers :
                       pc[w] \in {"close", "rename", "done"} => length[w] \in Stored(w)
           ReadPart == \A r \in Readers :
                         rpc[r] \in {"fstat", "read", "done"} => rino[r] \in Installs
<1>1. CASE \E w \in Writers :
             mkstemp(w) \/ file_puts(w) \/ close(w) \/ file_rename(w) \/ Crash(w)
  <2>1. PICK w \in Writers :
             mkstemp(w) \/ file_puts(w) \/ close(w) \/ file_rename(w) \/ Crash(w)
    BY <1>1
  <2>2. UNCHANGED readers
    BY <2>1 DEF mkstemp, file_puts, close, file_rename, Crash
  <2>3. ReadPart'
    BY <1>0, <2>2 DEF Settled, readers
  <2>4. (dir # NoFile => dir \in Installs)'
    BY <1>0, <2>1 DEF Settled, mkstemp, file_puts, close, file_rename, Crash,
                      Installs, TypeOK
  <2>5. \A v \in Writers : v # w => pc'[v] = pc[v] /\ length'[v] = length[v]
    BY <2>1 DEF mkstemp, file_puts, close, file_rename, Crash, TypeOK, Inodes
  <2>6. pc'[w] \in {"close", "rename", "done"} => length'[w] \in Stored(w)
    BY <2>1 DEF Settled, mkstemp, file_puts, close, file_rename, Crash, TypeOK, Inodes
  <2>7. PcPart'
    BY <2>5, <2>6 DEF Settled, Stored
  <2>8. length'[Old] = length[Old]
    BY <2>1, DistinctAssumption DEF mkstemp, file_puts, close, file_rename, Crash,
                                    TypeOK, Inodes
  <2>9. QED
    BY <2>3, <2>4, <2>7, <2>8 DEF Settled
<1>2. CASE \E r \in Readers : file_open(r) \/ file_fstat(r) \/ str_read(r)
  <2>1. PICK r \in Readers : file_open(r) \/ file_fstat(r) \/ str_read(r)
    BY <1>2
  <2>2. UNCHANGED <<pc, dir, tmp, length>> /\ Installs' = Installs
    BY <2>1 DEF file_open, file_fstat, str_read, Installs
  <2>3. ReadPart'
    BY <2>1, <2>2 DEF Settled, file_open, file_fstat, str_read, TypeOK
  <2>4. QED
    BY <2>2, <2>3 DEF Settled
<1>3. CASE UNCHANGED vars
  BY <1>3 DEF vars, Settled, Installs
<1>4. QED
  BY <1>1, <1>2, <1>3 DEF Next

(* Settled holds throughout.                                                *)
LEMMA SettledInvariant == Spec => []Settled
<1>1. Init => Settled
  BY DistinctAssumption, SizeAssumption DEF Init, Settled, Installs, Inodes
<1>2. TypeOK /\ Settled /\ [Next]_vars => Settled'
  BY SettledKept
<1>3. QED
  BY <1>1, <1>2, FileTypeCorrect, PTL DEF Spec

(* Unless a file_write overtakes it between open(2) and stat(2), file_read  *)
(* returns the whole file, for any number of writers, readers, crashes and  *)
(* failures.                                                                *)
THEOREM UndisturbedReadsWhole == Spec => []ReadsWhole
<1>1. Init => Fresh
  BY DEF Init, Fresh
<1>2. TypeOK /\ Settled /\ Fresh /\ [Next]_vars => Fresh'
  <2> SUFFICES ASSUME TypeOK, Settled, Fresh, [Next]_vars PROVE Fresh'
    OBVIOUS
  <2>0. \A i \in Installs : length'[i] = length[i]
    BY InstalledFixed
  <2>1. CASE \E w \in Writers :
               mkstemp(w) \/ file_puts(w) \/ close(w) \/ file_rename(w) \/ Crash(w)
    <3>1. PICK w \in Writers :
               mkstemp(w) \/ file_puts(w) \/ close(w) \/ file_rename(w) \/ Crash(w)
      BY <2>1
    <3>2. UNCHANGED <<rpc, rino, rsize, result>>
      BY <3>1 DEF mkstemp, file_puts, close, file_rename, Crash, readers
    <3>3. \A r \in Readers : ~moved'[r] => ~moved[r] /\ (rpc[r] = "fstat" => dir' = dir)
      BY <3>1 DEF mkstemp, file_puts, close, file_rename, Crash, TypeOK
    <3>4. QED
      BY <2>0, <3>2, <3>3 DEF Fresh, Settled
  <2>2. ASSUME NEW r \in Readers, file_open(r) PROVE Fresh'
    BY <2>2 DEF file_open, Fresh, TypeOK
  <2>3. ASSUME NEW r \in Readers, file_fstat(r) PROVE Fresh'
    BY <2>3 DEF file_fstat, file_stat, Fresh, TypeOK
  <2>4. ASSUME NEW r \in Readers, str_read(r) PROVE Fresh'
    <3>1. ~moved[r] => result'[r] = <<rino[r], length[rino[r]]>>
      BY <2>4 DEF str_read, Fresh, TypeOK
    <3>2. QED
      BY <2>4, <3>1 DEF str_read, Fresh, TypeOK
  <2>5. CASE UNCHANGED vars
    BY <2>5 DEF vars, Fresh
  <2>6. QED
    BY <2>1, <2>2, <2>3, <2>4, <2>5 DEF Next
<1>3. Fresh => ReadsWhole
  BY DEF Fresh, ReadsWhole
<1>4. QED
  BY <1>1, <1>2, <1>3, FileTypeCorrect, SettledInvariant, PTL DEF Spec

(* Without short writes, the file at the path is a complete buffer, whatever *)
(* else fails and whoever crashes.                                           *)
THEOREM WholeWithoutShortWrites ==
  ASSUME "short" \notin MayFail PROVE Spec => []FileWhole
<1>1. Settled => FileWhole
  BY DEF Settled, Installs, Stored, FileWhole
<1>2. QED
  BY <1>1, SettledInvariant, PTL

(* file_write and file_read implement AtomicFile: the rename(2) of a writer *)
(* is its Write, the str_read of a reader its Read, and every other system  *)
(* call, failure and crash leaves the file as its users see it unchanged.   *)
THEOREM ImplementsAtomicFile == Spec => ReplacesAtomically
<1> USE DistinctAssumption, SizeAssumption
<1> DEFINE Data == UNION {{i} \X Stored(i) : i \in Inodes}
<1>0. Old \in Inodes /\ Size[Old] \in Stored(Old) /\ Size[Old] \in Nat \ {0}
  <2>1. Old \in Inodes /\ Size[Old] \in Nat \ {0}
    BY DEF Inodes
  <2>2. QED
    BY <2>1 DEF Stored
<1>1. Init => AF!Init
  <2> SUFFICES ASSUME Init PROVE AF!Init
    OBVIOUS
  <2>1. CASE dir = Old
    <3>1. Installs = {Old} /\ length[Old] = Size[Old]
      BY <2>1 DEF Init, Installs, Inodes
    <3>2. Contents = <<Old, Size[Old]>> /\ Installed = {<<Old, Size[Old]>>}
      BY <2>1, <3>1 DEF Contents, Installed
    <3>3. <<Old, Size[Old]>> # NoFile /\ <<Old, Size[Old]>> \in Data
      BY <1>0
    <3>4. QED
      BY <3>2, <3>3 DEF Init, AF!Init
  <2>2. CASE dir = NoFile
    <3>1. Contents = NoFile /\ Installed = {}
      BY <2>2 DEF Init, Contents, Installed, Installs, Inodes
    <3>2. QED
      BY <3>1 DEF Init, AF!Init
  <2>3. QED
    BY <2>1, <2>2 DEF Init
<1>2. TypeOK /\ Settled /\ [Next]_vars => [AF!Next]_<<Contents, Installed, result>>
  <2> SUFFICES ASSUME TypeOK, Settled, [Next]_vars
               PROVE  [AF!Next]_<<Contents, Installed, result>>
    OBVIOUS
  <2>0. Installed = {<<i, length[i]>> : i \in Installs}
    BY DEF Installed
  <2>1. Installed' = {<<i, length'[i]>> : i \in Installs'}
    BY DEF Installed
  <2>2. Installs \subseteq Installs' /\ \A i \in Installs : length'[i] = length[i]
    BY InstalledFixed
  <2>3. \A i \in Installs : i \in Inodes /\ length[i] \in Stored(i)
    BY <1>0 DEF Settled, Installs, Inodes
  <2>4. ASSUME dir' = dir, Installs' = Installs
        PROVE  Contents' = Contents /\ Installed' = Installed
    BY <2>0, <2>1, <2>2, <2>4 DEF Contents, Settled
  <2>5. ASSUME NEW w \in Writers, file_rename(w), dir' = w
        PROVE  AF!Next
    <3>1. /\ length' = length /\ result' = result
          /\ pc[w] = "rename" /\ Installs' = Installs \cup {w}
      <4>1. length' = length /\ result' = result /\ pc[w] = "rename"
        BY <2>5 DEF file_rename, readers
      <4>2. dir # w
        BY <4>1, DistinctAssumption DEF Settled, Installs
      <4>3. pc' = [pc EXCEPT ![w] = "done"]
        BY <2>5, <4>2 DEF file_rename
      <4>4. Installs' = Installs \cup {w}
        BY <4>1, <4>3 DEF Installs, TypeOK
      <4>5. QED
        BY <4>1, <4>4
    <3>2. length[w] \in Stored(w)
      BY <3>1 DEF Settled
    <3>3. Contents' = <<w, length[w]>>
      BY <2>5, <3>1 DEF Contents
    <3>4. Installed' = Installed \cup {<<w, length[w]>>}
      <4>1. Installed' = {<<i, length[i]>> : i \in Installs \cup {w}}
        BY <2>1, <3>1
      <4>2. QED
        BY <2>0, <4>1
    <3>5. <<w, length[w]>> \in Data
      BY <3>2 DEF Inodes
    <3>6. QED
      BY <3>1, <3>3, <3>4, <3>5 DEF AF!Next, AF!Write
  <2>6. ASSUME NEW w \in Writers,
               mkstemp(w) \/ file_puts(w) \/ close(w) \/ Crash(w)
                 \/ (file_rename(w) /\ dir' = dir)
        PROVE  UNCHANGED <<Contents, Installed, result>>
    <3>1. dir' = dir /\ result' = result
      BY <2>6 DEF mkstemp, file_puts, close, Crash, file_rename, readers
    <3>2. \A v \in Writers : pc'[v] = "done" <=> pc[v] = "done"
      <4>1. \A v \in Writers : v # w => pc'[v] = pc[v]
        BY <2>6 DEF mkstemp, file_puts, close, Crash, file_rename, TypeOK
      <4>2. CASE mkstemp(w) \/ file_puts(w) \/ close(w) \/ Crash(w)
        BY <4>1, <4>2 DEF mkstemp, file_puts, close, Crash, TypeOK
      <4>3. CASE file_rename(w) /\ dir' = dir
        <5>1. dir # w
          BY <4>3, DistinctAssumption DEF file_rename, Settled, Installs
        <5>2. QED
          BY <4>1, <4>3, <5>1 DEF file_rename, TypeOK
      <4>4. QED
        BY <2>6, <4>2, <4>3
    <3>3. length'[Old] = length[Old]
      BY <2>6 DEF mkstemp, file_puts, close, Crash, file_rename, TypeOK, Inodes
    <3>4. Installs' = Installs
      BY <3>2, <3>3 DEF Installs
    <3>5. QED
      BY <2>4, <3>1, <3>4
  <2>7. ASSUME NEW r \in Readers, str_read(r) PROVE AF!Next
    <3> DEFINE d == <<rino[r], length[rino[r]]>>
               m == IF rsize[r] < length[rino[r]] THEN rsize[r] ELSE length[rino[r]]
    <3>1. rino[r] \in Installs
      BY <2>7 DEF str_read, Settled
    <3>2. Contents' = Contents /\ Installed' = Installed
      BY <2>7, <2>4 DEF str_read, Installs
    <3>3. d \in Installed
      BY <2>0, <3>1
    <3>4. d \in Data
      BY <2>3, <3>1
    <3>5. m \in 0..d[2]
      BY <2>3, <3>1 DEF TypeOK
    <3>6. result' = [result EXCEPT ![r] = <<d[1], m>>]
      BY <2>7 DEF str_read
    <3>7. AF!Read(r, d)
      BY <3>2, <3>3, <3>5, <3>6 DEF AF!Read
    <3>8. QED
      BY <3>4, <3>7 DEF AF!Next
  <2>8. ASSUME NEW r \in Readers, file_open(r) \/ file_fstat(r)
        PROVE  UNCHANGED <<Contents, Installed, result>>
    BY <2>8, <2>4 DEF file_open, file_fstat, Installs
  <2>9. CASE UNCHANGED vars
    BY <2>9, <2>4 DEF vars, Installs
  <2>10. \A w \in Writers : file_rename(w) => dir' = w \/ dir' = dir
    BY DEF file_rename
  <2>11. QED
    BY <2>5, <2>6, <2>7, <2>8, <2>9, <2>10 DEF Next
<1>3. QED
  BY <1>1, <1>2, FileTypeCorrect, SettledInvariant, PTL
     DEF Spec, ReplacesAtomically, AF!Spec

-----------------------------------------------------------------------------
(* file_copy and file_lock. *)

(* file_copy and file_lock do not disturb file_write and file_read: seen   *)
(* without the copies and the locks, every behaviour of the program is one *)
(* of module FileWrite.                                                    *)
THEOREM OpsKeepFileWrite == OpsSpec => Spec
<1>1. OpsInit => Init
  BY DEF OpsInit
<1>2. [OpsNext]_opsvars => [Next]_vars
  BY DEF OpsNext, opsvars
<1> QED
  BY <1>1, <1>2, PTL DEF OpsSpec, Spec

(* What file_write and file_read rely on, in the company of the others. *)
LEMMA SettledHere == OpsSpec => [](TypeOK /\ Settled)
BY OpsKeepFileWrite, FileTypeCorrect, SettledInvariant, PTL

-----------------------------------------------------------------------------
(* A process with a lock has a file open that was at the path, and no two  *)
(* processes have conflicting locks on one inode.  Until it calls file_read*)
(* it keeps the lock it has asked for.                                     *)
LockTypeOK ==
  /\ lpc \in [Users -> {"ready", "open", "locked", "unlocked"}]
  /\ lino \in [Users -> Inodes \cup {NoFile}]
  /\ lmode \in [Users -> Modes \cup {"F_UNLCK"}]
  /\ lock \in [Users -> Modes \cup {"F_UNLCK"}]
  /\ reread \in [Users -> BOOLEAN]
OpenInodes ==
  \A p \in Users : lpc[p] # "ready" => lino[p] \in Installs
LocksKept ==
  \A p \in Users : /\ lpc[p] # "locked" => lock[p] = "F_UNLCK"
                   /\ lpc[p] = "locked" /\ ~reread[p] => lock[p] = lmode[p]
                   /\ lpc[p] \in {"ready", "open"} => ~reread[p]
Exclusive ==
  \A p, q \in Users : p # q /\ lino[p] = lino[q] => ~Conflict(lock[p], lock[q])

LockInv == LockTypeOK /\ OpenInodes /\ LocksKept /\ Exclusive

LEMMA InstallsGrow ==
  ASSUME TypeOK, [Next]_vars PROVE Installs \subseteq Installs'
<1>1. \A w \in Writers : pc[w] = "done" => pc'[w] = "done"
  BY DEF TypeOK, Next, vars, mkstemp, file_puts, close, file_rename, Crash,
         file_open, file_fstat, str_read
<1>2. length'[Old] = length[Old]
  BY DistinctAssumption DEF TypeOK, Inodes, Next, vars, mkstemp, file_puts, close,
         file_rename, Crash, file_open, file_fstat, str_read
<1> QED
  BY <1>1, <1>2 DEF Installs

LEMMA LockInit == OpsInit => LockInv
<1> SUFFICES ASSUME OpsInit PROVE LockInv
  OBVIOUS
<1>1. LockTypeOK
  BY DEF OpsInit, LockTypeOK
<1>2. OpenInodes /\ LocksKept /\ Exclusive
  BY DEF OpsInit, OpenInodes, LocksKept, Exclusive, Conflict
<1> QED
  BY <1>1, <1>2 DEF LockInv

LEMMA LockStep ==
  ASSUME TypeOK, Settled, LockInv, [OpsNext]_opsvars PROVE LockInv'
<1>1. CASE UNCHANGED locking
  <2>1. [Next]_vars
    BY DEF OpsNext, opsvars
  <2>2. Installs \subseteq Installs'
    BY <2>1, InstallsGrow
  <2>3. UNCHANGED <<lpc, lino, lmode, lock, reread>>
    BY <1>1 DEF locking
  <2> QED
    BY <2>2, <2>3 DEF LockInv, LockTypeOK, OpenInodes, LocksKept, Exclusive
<1>2. ASSUME NEW p \in Users, UNCHANGED vars,
             OpenToLock(p) \/ ReadLocked(p) \/ Unlock(p) \/ CloseLocked(p)
               \/ \E m \in Modes : LockFile(p, m)
      PROVE  LockInv'
  <2>0. Installs' = Installs /\ Installs \subseteq Inodes
    BY <1>2 DEF vars, Installs, Inodes
  <2>1. CASE OpenToLock(p)
    <3>1. dir \in Installs
      BY <2>1 DEF OpenToLock, Settled
    <3> QED
      BY <2>0, <2>1, <3>1
         DEF OpenToLock, LockerAt, LockInv, LockTypeOK, OpenInodes, LocksKept, Exclusive,
             Conflict
  <2>2. CASE ReadLocked(p)
    BY <2>0, <2>2
       DEF ReadLocked, LockerAt, LockInv, LockTypeOK, OpenInodes, LocksKept, Exclusive,
           Conflict
  <2>3. CASE Unlock(p)
    BY <2>0, <2>3
       DEF Unlock, LockerAt, LockInv, LockTypeOK, OpenInodes, LocksKept, Exclusive, Conflict
  <2>4. CASE CloseLocked(p)
    BY <2>0, <2>4
       DEF CloseLocked, LockerAt, LockInv, LockTypeOK, OpenInodes, LocksKept, Exclusive,
           Conflict
  <2>5. ASSUME NEW m \in Modes, LockFile(p, m) PROVE LockInv'
    BY <2>0, <2>5
       DEF LockFile, LockerAt, LockInv, LockTypeOK, OpenInodes, LocksKept, Exclusive,
           Conflict, Grantable, Modes
  <2> QED
    BY <1>2, <2>1, <2>2, <2>3, <2>4, <2>5
<1> QED
  BY <1>1, <1>2 DEF OpsNext, opsvars

(* A lock of file_lock excludes conflicting locks of the same inode, for   *)
(* any number of processes; two that do get such locks have opened         *)
(* different files, and file_write has brought one of them to the path.    *)
THEOREM LocksHold == OpsSpec => []LocksExclude
<1>1. TypeOK /\ Settled /\ LockInv /\ [OpsNext]_opsvars => LockInv'
  BY LockStep
<1>2. LockInv => LocksExclude
  <2> SUFFICES ASSUME LockInv, NEW p \in Users, NEW q \in Users,
                      p # q, lpc[p] = "locked", lpc[q] = "locked",
                      Conflict(lmode[p], lmode[q]), ~reread[p], ~reread[q]
               PROVE  /\ lino[p] # lino[q]
                      /\ \E w \in Writers : pc[w] = "done" /\ w \in {lino[p], lino[q]}
    BY DEF LocksExclude
  <2>1. lino[p] # lino[q]
    BY DEF LockInv, LocksKept, Exclusive
  <2>2. lino[p] \in Installs /\ lino[q] \in Installs
    BY DEF LockInv, OpenInodes
  <2> QED
    BY <2>1, <2>2 DEF Installs
<1> QED
  BY <1>1, <1>2, LockInit, SettledHere, PTL DEF OpsSpec

-----------------------------------------------------------------------------
(* The source of a copy was at the path, and has at least as many bytes as *)
(* file_get_size found; as many, if it was the file of file_get_size.      *)
Bytes == Inodes \cup {Garbage}
CopyTypeOK ==
  /\ cpc \in [Users -> {"ready", "dest", "read", "open", "write", "done", "failed"}]
  /\ csize \in [Users -> Nat]
  /\ cino \in [Users -> Inodes \cup {NoFile}]
  /\ cmoved \in [Users -> BOOLEAN] /\ clonger \in [Users -> BOOLEAN]
  /\ target = NoFile \/ target \in Seq(Bytes)
  /\ last \in Users \cup {NoFile}
Sized ==
  \A c \in Users :
    cpc[c] \in {"dest", "read"} => dir # NoFile /\ (~cmoved[c] => csize[c] = length[dir])
Sourced ==
  \A c \in Users :
    cpc[c] \in {"open", "write", "done"} =>
      /\ cino[c] \in Installs /\ csize[c] <= length[cino[c]]
      /\ ~cmoved[c] => csize[c] = length[cino[c]]
Opening == \A c \in Users : cpc[c] = "write" => target # NoFile

(* The copy is what the target begins with until the next one. *)
Written(c) ==
  /\ target # NoFile /\ csize[c] <= Len(target)
  /\ \A k \in 1..csize[c] : target[k] = cino[c]
  /\ ~clonger[c] => Len(target) = csize[c]
Delivered == \A c \in Users : cpc[c] = "done" /\ last = c => Written(c)

CopyInv == CopyTypeOK /\ Sized /\ Sourced /\ Opening /\ Delivered

LEMMA CopyInit == OpsInit => CopyInv
<1> SUFFICES ASSUME OpsInit PROVE CopyInv
  OBVIOUS
<1>1. CopyTypeOK
  BY DEF OpsInit, CopyTypeOK
<1>2. Sized /\ Sourced /\ Opening /\ Delivered
  BY DEF OpsInit, Sized, Sourced, Opening, Delivered
<1> QED
  BY <1>1, <1>2 DEF CopyInv

(* What is written over the beginning of a file. *)
LEMMA OverFacts ==
  ASSUME NEW S, NEW b \in Seq(S), NEW t \in Seq(S)
  PROVE  /\ Over(b, t) \in Seq(S)
         /\ Len(Over(b, t)) = IF Len(t) > Len(b) THEN Len(t) ELSE Len(b)
         /\ \A k \in 1..Len(b) : Over(b, t)[k] = b[k]
<1> DEFINE rest == SubSeq(t, Len(b) + 1, Len(t))
<1>1. Len(b) \in Nat /\ Len(t) \in Nat
  OBVIOUS
<1>2. rest \in Seq(S) /\ Len(rest) = IF Len(t) > Len(b) THEN Len(t) - Len(b) ELSE 0
  BY <1>1
<1> HIDE DEF rest
<1>3. /\ b \o rest \in Seq(S) /\ Len(b \o rest) = Len(b) + Len(rest)
      /\ \A k \in 1..Len(b) : (b \o rest)[k] = b[k]
  BY <1>1, <1>2
<1>4. Over(b, t) = b \o rest
  BY DEF Over, rest
<1> QED
  BY <1>1, <1>2, <1>3, <1>4

LEMMA BufferFacts ==
  ASSUME TypeOK, CopyInv, NEW c \in Users, cpc[c] = "write"
  PROVE  /\ BufferOf(c) \in Seq(Bytes) /\ Len(BufferOf(c)) = csize[c]
         /\ \A k \in 1..csize[c] : BufferOf(c)[k] = cino[c]
<1>1. csize[c] \in Nat /\ cino[c] \in Inodes /\ csize[c] <= length[cino[c]]
  BY DEF CopyInv, CopyTypeOK, Sourced, Installs, Inodes
<1>2. length[cino[c]] \in Nat
  BY <1>1 DEF TypeOK
<1>3. BufferOf(c) = [k \in 1..csize[c] |-> cino[c]]
  BY <1>1, <1>2 DEF BufferOf
<1>4. cino[c] \in Bytes
  BY <1>1 DEF Bytes
<1> QED
  BY <1>1, <1>3, <1>4

(* A step of file_write or file_read. *)
LEMMA CopyUndisturbed ==
  ASSUME TypeOK, Settled, TypeOK', Settled', CopyInv, [Next]_vars,
         \/ cmoved' = [c \in Users |->
                         cmoved[c] \/ (cpc[c] \in {"dest", "read"} /\ dir' # dir)]
         \/ UNCHANGED <<dir, cmoved>>,
         UNCHANGED <<cpc, csize, cino, clonger, target, last>>
  PROVE  CopyInv'
<1>1. \A k \in Installs : length'[k] = length[k]
  BY InstalledFixed
<1>2. Installs \subseteq Installs'
  BY InstallsGrow
<1>3. \A c \in Users : ~cmoved'[c] => ~cmoved[c] /\ (cpc[c] \in {"dest", "read"} => dir' = dir)
  OBVIOUS
<1>4. dir # NoFile => dir' # NoFile
  BY DistinctAssumption DEF Next, vars, mkstemp, file_puts, close, file_rename, Crash,
         file_open, file_fstat, str_read
<1>5. cmoved' \in [Users -> BOOLEAN]
  BY DEF CopyInv, CopyTypeOK
<1>6. CopyTypeOK'
  BY <1>5 DEF CopyInv, CopyTypeOK
<1>7. Sized'
  BY <1>1, <1>3, <1>4 DEF CopyInv, Sized, Settled
<1>8. Sourced'
  BY <1>1, <1>2, <1>3 DEF CopyInv, Sourced
<1>9. Opening' /\ Delivered'
  BY DEF CopyInv, Opening, Delivered, Written
<1> QED
  BY <1>6, <1>7, <1>8, <1>9 DEF CopyInv

(* A step of file_copy. *)
LEMMA CopierStep ==
  ASSUME TypeOK, Settled, CopyInv, UNCHANGED vars, NEW c \in Users,
         \/ CopySize(c) \/ CopyDestination(c) \/ CopyRead(c)
         \/ CopyOpen(c) \/ CopyWrite(c) \/ CopyFails(c)
  PROVE  CopyInv'
<1>0. UNCHANGED <<dir, length>> /\ Installs' = Installs /\ Installs \subseteq Inodes
  BY DEF vars, Installs, Inodes
<1>1. CASE CopySize(c)
  <2>1. file_stat = length[dir] /\ length[dir] \in Nat
    BY <1>1 DEF CopySize, file_stat, TypeOK
  <2>2. CopyTypeOK'
    BY <1>1, <2>1 DEF CopySize, CopierAt, CopyInv, CopyTypeOK
  <2> QED
    BY <1>0, <1>1, <2>1, <2>2
       DEF CopySize, CopierAt, CopyInv, CopyTypeOK, Sized, Sourced, Opening, Delivered, Written
<1>2. CASE CopyDestination(c)
  BY <1>0, <1>2
     DEF CopyDestination, CopierAt, CopyInv, CopyTypeOK, Sized, Sourced, Opening, Delivered,
         Written
<1>3. CASE CopyRead(c)
  <2>1. dir \in Installs /\ csize[c] <= length[dir] /\ (~cmoved[c] => csize[c] = length[dir])
    BY <1>3 DEF CopyRead, CopierAt, ReadsSize, CopyInv, Sized, Settled
  <2>2. CopyTypeOK'
    BY <1>0, <1>3, <2>1 DEF CopyRead, CopierAt, CopyInv, CopyTypeOK
  <2> QED
    BY <1>0, <1>3, <2>1, <2>2
       DEF CopyRead, CopierAt, CopyInv, CopyTypeOK, Sized, Sourced, Opening, Delivered, Written
<1>4. CASE CopyOpen(c)
  <2>1. target' # NoFile /\ target' \in Seq(Bytes) /\ (target # NoFile => target' = target)
    <3>1. <<>> \in Seq(Bytes)
      OBVIOUS
    <3> QED
      BY <1>4, <3>1, BytesAssumption DEF CopyOpen, CopyInv, CopyTypeOK, Bytes
  <2>2. CopyTypeOK'
    BY <1>4, <2>1 DEF CopyOpen, CopierAt, CopyInv, CopyTypeOK
  <2>3. Sized' /\ Sourced' /\ Opening'
    BY <1>0, <1>4, <2>1
       DEF CopyOpen, CopierAt, CopyInv, CopyTypeOK, Sized, Sourced, Opening
  <2>4. Delivered'
    BY <1>4, <2>1 DEF CopyOpen, CopierAt, CopyInv, CopyTypeOK, Delivered, Written
  <2> QED
    BY <2>2, <2>3, <2>4 DEF CopyInv
<1>5. CASE CopyWrite(c)
  <2>1. cpc[c] = "write" /\ target \in Seq(Bytes) /\ csize[c] \in Nat
    BY <1>5 DEF CopyWrite, CopierAt, CopyInv, CopyTypeOK, Opening
  <2>2. /\ BufferOf(c) \in Seq(Bytes) /\ Len(BufferOf(c)) = csize[c]
        /\ \A k \in 1..csize[c] : BufferOf(c)[k] = cino[c]
    BY <2>1, BufferFacts
  <2>3. /\ target' \in Seq(Bytes)
        /\ Len(target') = IF Len(target) > csize[c] THEN Len(target) ELSE csize[c]
        /\ \A k \in 1..csize[c] : target'[k] = cino[c]
    BY <1>5, <2>1, <2>2, OverFacts DEF CopyWrite
  <2>4. target' # NoFile
    BY <2>3, BytesAssumption DEF Bytes
  <2>5. CopyTypeOK'
    BY <1>5, <2>3 DEF CopyWrite, CopierAt, CopyInv, CopyTypeOK
  <2>6. Sized' /\ Sourced' /\ Opening'
    BY <1>0, <1>5, <2>4
       DEF CopyWrite, CopierAt, CopyInv, CopyTypeOK, Sized, Sourced, Opening
  <2>7. /\ csize'[c] = csize[c] /\ cino'[c] = cino[c] /\ last' = c
        /\ clonger'[c] = (Len(target) > csize[c])
    BY <1>5 DEF CopyWrite, CopyInv, CopyTypeOK
  <2>8. csize[c] <= Len(target') /\ (~(Len(target) > csize[c]) => Len(target') = csize[c])
    <3>1. Len(target) \in Nat
      BY <2>1
    <3> QED
      BY <2>1, <2>3, <3>1
  <2>9. Delivered'
    BY <2>3, <2>4, <2>7, <2>8 DEF Delivered, Written
  <2> QED
    BY <2>5, <2>6, <2>9 DEF CopyInv
<1>6. CASE CopyFails(c)
  <2>1. \/ UNCHANGED <<target, last>>
        \/ last' = c /\ target' # NoFile /\ target' \in Seq(Bytes)
    <3>1. CASE UNCHANGED <<target, last>>
      BY <3>1
    <3>2. ASSUME cpc[c] = "write", NEW n \in 1..csize[c], last' = c,
                 target' = Over(SubSeq(BufferOf(c), 1, n), target)
          PROVE  last' = c /\ target' # NoFile /\ target' \in Seq(Bytes)
      <4>1. target \in Seq(Bytes) /\ csize[c] \in Nat
        BY <3>2 DEF CopyInv, CopyTypeOK, Opening
      <4>2. BufferOf(c) \in Seq(Bytes) /\ Len(BufferOf(c)) = csize[c]
        BY <3>2, BufferFacts
      <4>3. SubSeq(BufferOf(c), 1, n) \in Seq(Bytes)
        BY <4>1, <4>2
      <4>4. target' \in Seq(Bytes)
        BY <3>2, <4>1, <4>3, OverFacts
      <4> QED
        BY <3>2, <4>4, BytesAssumption DEF Bytes
    <3> QED
      BY <1>6, <3>1, <3>2 DEF CopyFails
  <2>2. CopyTypeOK'
    BY <1>6, <2>1 DEF CopyFails, CopyInv, CopyTypeOK
  <2>3. Sized' /\ Sourced' /\ Opening'
    BY <1>0, <1>6, <2>1
       DEF CopyFails, CopyInv, CopyTypeOK, Sized, Sourced, Opening
  <2>4. Delivered'
    <3> SUFFICES ASSUME NEW d \in Users, cpc'[d] = "done", last' = d PROVE Written(d)'
      BY DEF Delivered
    <3>1. d # c /\ cpc[d] = "done"
      BY <1>6 DEF CopyFails, CopyInv, CopyTypeOK
    <3>2. last = d /\ target' = target
      BY <2>1, <3>1
    <3>3. csize'[d] = csize[d] /\ cino'[d] = cino[d] /\ clonger' = clonger
      BY <1>6, <3>1 DEF CopyFails, CopyInv, CopyTypeOK
    <3>4. Written(d)
      BY <3>1, <3>2 DEF CopyInv, Delivered
    <3> QED
      BY <3>2, <3>3, <3>4 DEF Written
  <2> QED
    BY <2>2, <2>3, <2>4 DEF CopyInv
<1> QED
  BY <1>1, <1>2, <1>3, <1>4, <1>5, <1>6

LEMMA CopyStep ==
  ASSUME TypeOK, Settled, TypeOK', Settled', CopyInv, [OpsNext]_opsvars PROVE CopyInv'
<1> DEFINE Copies == /\ \E c \in Users : \/ CopySize(c) \/ CopyDestination(c) \/ CopyRead(c)
                                         \/ CopyOpen(c) \/ CopyWrite(c) \/ CopyFails(c)
                     /\ UNCHANGED <<vars, locking>>
<1>1. CASE Copies
  BY <1>1, CopierStep
<1>2. CASE ~Copies
  <2>1. [Next]_vars
    BY DEF OpsNext, opsvars
  <2>2. /\ \/ cmoved' = [c \in Users |->
                           cmoved[c] \/ (cpc[c] \in {"dest", "read"} /\ dir' # dir)]
           \/ UNCHANGED <<dir, cmoved>>
        /\ UNCHANGED <<cpc, csize, cino, clonger, target, last>>
    BY <1>2 DEF OpsNext, opsvars, vars, copying
  <2> QED
    BY <2>1, <2>2, CopyUndisturbed
<1> QED
  BY <1>1, <1>2

(* A file_copy that reports success has delivered one version of the file, *)
(* and all of it unless a file_write came between its file_get_size and its*)
(* open(2), for any number of processes, file sizes and failures.          *)
THEOREM CopiesFaithful == OpsSpec => []CopyFaithful
<1>1. TypeOK /\ Settled /\ (TypeOK /\ Settled)' /\ CopyInv /\ [OpsNext]_opsvars => CopyInv'
  BY CopyStep
<1>2. TypeOK /\ Settled /\ LockInv /\ [OpsNext]_opsvars => LockInv'
  BY LockStep
<1>3. LockInv /\ CopyInv => CopyFaithful
  <2> SUFFICES ASSUME LockInv, CopyInv PROVE CopyFaithful
    OBVIOUS
  <2>1. OpsTypeOK
    BY DEF LockInv, CopyInv, LockTypeOK, CopyTypeOK, OpsTypeOK, Bytes
  <2> QED
    BY <2>1 DEF CopyFaithful, CopyInv, Sourced, Delivered, Written
<1> QED
  BY <1>1, <1>2, <1>3, LockInit, CopyInit, SettledHere, PTL DEF OpsSpec

-----------------------------------------------------------------------------
(* Pidfiles. *)

(* A step of process p. *)
Moves(p) == Start(p) \/ Stop(p) \/ Step(p) \/ Exit(p)

(* Every step of every process keeps the types. *)
LEMMA PidTypeStep == PidTypeOK /\ [PidNext]_pidvars => PidTypeOK'
<1> SUFFICES ASSUME PidTypeOK, [PidNext]_pidvars PROVE PidTypeOK'
  OBVIOUS
<1> USE DEF PidTypeOK, Goto, Calls
<1>1. CASE UNCHANGED pidvars
  BY <1>1 DEF pidvars
<1>2. ASSUME NEW p \in Procs, Start(p) \/ Stop(p) PROVE PidTypeOK'
  BY <1>2 DEF Start, Stop, NoteOverlap
<1>3. ASSUME NEW p \in Procs, Detach(p) \/ CreateStat(p) \/ Exit(p) PROVE PidTypeOK'
  BY <1>3 DEF Detach, CreateStat, Exit
<1>4. ASSUME NEW p \in Procs, KillStat(p) \/ Read(p) \/ ReadSize(p) PROVE PidTypeOK'
  BY <1>4 DEF KillStat, Read, ReadSize, KillReturns
<1>5. ASSUME NEW p \in Procs, Kill(p) PROVE PidTypeOK'
  BY <1>5 DEF Kill, KillReturns
<1>6. ASSUME NEW p \in Procs, Unlink(p) \/ Write(p) PROVE PidTypeOK'
  BY <1>6 DEF Unlink, Write, KillReturns
<1> QED
  BY <1>1, <1>2, <1>3, <1>4, <1>5, <1>6 DEF PidNext, Step

(* The processes that call the functions of process.c and the pidfile they *)
(* share always have the values that PidTypeOK lists.                         *)
THEOREM PidTypeCorrect == PidSpec => []PidTypeOK
<1>1. PidInit => PidTypeOK
  BY DEF PidInit, PidTypeOK
<1> QED
  BY <1>1, PidTypeStep, PTL DEF PidSpec

-----------------------------------------------------------------------------
(* As long as calls have been orderly, one process at most is in a call,   *)
(* and there is no pidfile when it is about to write one.                  *)
Alone ==
  orderly => /\ \A p, q \in Procs : place[p] \in Calls /\ place[q] \in Calls => p = q
             /\ \A p \in Procs : place[p] = "write" => pidfile = NoPid

(* What a call in progress knows while it is the only one: the number it   *)
(* has read is that of the pidfile, and a SIGTERM has ended that process.  *)
Knows ==
  orderly =>
    \A p \in Procs :
      /\ place[p] \in {"size", "kill", "unlink"} => pidfile = pid[p] /\ pid[p] \in Procs
      /\ place[p] = "unlink" /\ signal[p] = "TERM" => place[pid[p]] # "running"

(* Nobody else takes the pidfile away from the call that is made alone.     *)
LEMMA KnowsStep == PidTypeOK /\ Alone /\ Knows /\ [PidNext]_pidvars => Knows'
<1> SUFFICES ASSUME PidTypeOK, Alone, Knows, [PidNext]_pidvars, orderly', NEW r \in Procs
             PROVE  /\ place'[r] \in {"size", "kill", "unlink"} =>
                         pidfile' = pid'[r] /\ pid'[r] \in Procs
                    /\ place'[r] = "unlink" /\ signal'[r] = "TERM" =>
                         place'[pid'[r]] # "running"
  BY DEF Knows
<1>0. orderly
  BY DEF PidNext, Step, Start, Stop, NoteOverlap, Detach, CreateStat, KillStat, Read,
         ReadSize, Kill, Unlink, Write, Exit, pidvars
<1>k. /\ place[r] \in {"size", "kill", "unlink"} => pidfile = pid[r] /\ pid[r] \in Procs
      /\ place[r] = "unlink" /\ signal[r] = "TERM" => place[pid[r]] # "running"
  BY <1>0 DEF Knows
<1>a. \A p \in Procs : place[p] \in Calls /\ place[r] \in Calls => p = r
  BY <1>0 DEF Alone
<1> USE PidAssumption DEF PidTypeOK, Goto
<1>1. CASE UNCHANGED pidvars
  BY <1>1, <1>k DEF pidvars
<1>2. ASSUME NEW p \in Procs, Start(p) \/ Stop(p)
      PROVE  place'[r] \notin {"size", "kill", "unlink"}
  BY <1>2 DEF Start, Stop, NoteOverlap, Calls
<1>3. ASSUME NEW p \in Procs, Detach(p) \/ CreateStat(p) \/ KillStat(p) \/ Read(p) \/ Write(p),
             place'[r] \in {"size", "kill", "unlink"}
      PROVE  p = r /\ Read(p)
  BY <1>3, <1>a DEF Detach, CreateStat, KillStat, Read, Write, KillReturns, Calls
<1>4. ASSUME NEW p \in Procs, Read(p), p = r, place'[r] \in {"size", "kill", "unlink"}
      PROVE  pidfile' = pid'[r] /\ pid'[r] \in Procs /\ place'[r] = "size"
  BY <1>4 DEF Read, KillReturns
<1>5. ASSUME NEW p \in Procs, Exit(p), place'[r] \in {"size", "kill", "unlink"}
      PROVE  /\ pidfile' = pid'[r] /\ pid'[r] \in Procs
             /\ place'[r] = "unlink" /\ signal'[r] = "TERM" => place'[pid'[r]] # "running"
  BY <1>5, <1>k DEF Exit
<1>6. ASSUME NEW p \in Procs, ReadSize(p), place'[r] \in {"size", "kill", "unlink"}
      PROVE  pidfile' = pid'[r] /\ pid'[r] \in Procs /\ place'[r] = "kill"
  <2>1. p = r
    BY <1>6, <1>a DEF ReadSize, KillReturns, Calls
  <2> QED
    BY <1>6, <1>k, <2>1 DEF ReadSize, KillReturns
<1>7. ASSUME NEW p \in Procs, Kill(p), place'[r] \in {"size", "kill", "unlink"}
      PROVE  /\ pidfile' = pid'[r] /\ pid'[r] \in Procs
             /\ place'[r] = "unlink" /\ signal'[r] = "TERM" => place'[pid'[r]] # "running"
  <2>1. p = r
    BY <1>7, <1>a DEF Kill, KillReturns, Calls
  <2>2. pidfile' = pid'[r] /\ pid'[r] \in Procs /\ pid' = pid /\ signal' = signal
    BY <1>7, <1>k, <2>1 DEF Kill
  <2>3. ASSUME signal[r] = "TERM" PROVE place'[pid[r]] # "running"
    <3>1. CASE ~Alive(pid[r])
      <4>1. place[pid[r]] \in {"new", "done", "exited"}
        BY <2>2, <3>1 DEF Alive
      <4>2. place' = [place EXCEPT ![r] = "unlink"]
        BY <1>7, <2>1, <2>3, <3>1 DEF Kill
      <4> QED
        BY <2>2, <4>1, <4>2
    <3>2. CASE Alive(pid[r])
      BY <1>7, <2>1, <2>2, <2>3, <3>2 DEF Kill, KillReturns
    <3> QED
      BY <3>1, <3>2
  <2> QED
    BY <2>2, <2>3
<1>8. ASSUME NEW p \in Procs, Unlink(p) PROVE place'[r] \notin {"size", "kill", "unlink"}
  BY <1>8, <1>a DEF Unlink, KillReturns, Calls
<1> QED
  BY <1>1, <1>2, <1>3, <1>4, <1>5, <1>6, <1>7, <1>8 DEF PidNext, Step

LEMMA AloneStep == PidTypeOK /\ Alone /\ Knows /\ [PidNext]_pidvars => Alone'
<1> SUFFICES ASSUME PidTypeOK, Alone, Knows, [PidNext]_pidvars PROVE Alone'
  OBVIOUS
<1> USE PidAssumption DEF PidTypeOK, Alone, Goto, Calls
<1>1. CASE UNCHANGED pidvars
  BY <1>1 DEF pidvars
<1>2. ASSUME NEW p \in Procs, Start(p) \/ Stop(p) PROVE Alone'
  BY <1>2, ZenonT(30) DEF Start, Stop, NoteOverlap
<1>3. ASSUME NEW p \in Procs, Detach(p) \/ CreateStat(p) \/ Exit(p) PROVE Alone'
  BY <1>3, ZenonT(30) DEF Detach, CreateStat, Exit
<1>4. ASSUME NEW p \in Procs, KillStat(p) \/ Read(p) PROVE Alone'
  BY <1>4, ZenonT(30) DEF KillStat, Read, KillReturns
<1>8. ASSUME NEW p \in Procs, ReadSize(p) PROVE Alone'
  <2>1. /\ place[p] = "size" /\ pidfile' = pidfile /\ orderly' = orderly
        /\ \/ place' = [place EXCEPT ![p] = "kill"]
           \/ place' = [place EXCEPT ![p] = "done"]
           \/ pidfile # pid[p] /\ place' = [place EXCEPT ![p] = "write"]
    BY <1>8 DEF ReadSize, KillReturns
  <2>2. orderly => pidfile = pid[p]
    BY <2>1 DEF Knows
  <2> QED
    BY <2>1, <2>2
<1>5. ASSUME NEW p \in Procs, Kill(p) PROVE Alone'
  BY <1>5, ZenonT(30) DEF Kill, KillReturns
<1>6. ASSUME NEW p \in Procs, Unlink(p) PROVE Alone'
  BY <1>6 DEF Unlink, KillReturns
<1>7. ASSUME NEW p \in Procs, Write(p) PROVE Alone'
  BY <1>7 DEF Write
<1> QED
  BY <1>1, <1>2, <1>3, <1>4, <1>5, <1>6, <1>7, <1>8 DEF PidNext, Step

(* "Do not overwrite an existing pidfile": pidfile_create does not, unless *)
(* calls overlap or a kill(2) or an unlink(2) fails.                       *)
THEOREM PidfileNotOverwritten == PidSpec => NeverOverwritten
<1>1. PidInit => Alone /\ Knows
  BY DEF PidInit, Alone, Knows, Calls
<1>2. Alone /\ [PidNext]_pidvars =>
        [orderly => pidfile = NoPid \/ pidfile' \in {pidfile, NoPid}]_pidvars
  <2> SUFFICES ASSUME Alone, PidNext, orderly
               PROVE  pidfile = NoPid \/ pidfile' \in {pidfile, NoPid}
    OBVIOUS
  <2> PICK p \in Procs : Moves(p)
    BY DEF PidNext, Moves
  <2>1. CASE Write(p)
    BY <2>1 DEF Write, Alone
  <2>2. CASE Unlink(p)
    BY <2>2 DEF Unlink
  <2>3. CASE pidfile' = pidfile
    BY <2>3
  <2> QED
    BY <2>1, <2>2, <2>3
       DEF Moves, Step, Start, Stop, Detach, CreateStat, KillStat, Read, ReadSize, Kill, Exit
<1> QED
  BY <1>1, <1>2, AloneStep, KnowsStep, PidTypeCorrect, PTL DEF PidSpec, NeverOverwritten

-----------------------------------------------------------------------------
(* A process that was refused for q stays evidence of it. *)
LEMMA FoundStays ==
  ASSUME PidTypeOK, NEW q \in Procs, Found(q), [PidNext]_pidvars PROVE Found(q)'
<1> PICK r \in Procs : signal[r] = "0" /\ pid[r] = q /\ place[r] \in {"refused", "exited"}
  BY DEF Found
<1> SUFFICES signal'[r] = "0" /\ pid'[r] = q /\ place'[r] \in {"refused", "exited"}
  BY DEF Found
<1> USE DEF PidTypeOK, Goto
<1>1. CASE UNCHANGED pidvars
  BY <1>1 DEF pidvars
<1>2. ASSUME NEW p \in Procs, Moves(p)
      PROVE  signal'[r] = "0" /\ pid'[r] = q /\ place'[r] \in {"refused", "exited"}
  <2>1. CASE Start(p) \/ Stop(p)
    BY <2>1 DEF Start, Stop
  <2>2. CASE Detach(p) \/ CreateStat(p) \/ Exit(p)
    BY <2>2 DEF Detach, CreateStat, Exit
  <2>3. CASE KillStat(p) \/ Read(p) \/ ReadSize(p)
    BY <2>3 DEF KillStat, Read, ReadSize, KillReturns
  <2>4. CASE Kill(p)
    BY <2>4 DEF Kill, KillReturns
  <2>5. CASE Unlink(p) \/ Write(p)
    BY <2>5 DEF Unlink, Write, KillReturns
  <2> QED
    BY <1>2, <2>1, <2>2, <2>3, <2>4, <2>5 DEF Moves, Step
<1> QED
  BY <1>1, <1>2 DEF PidNext, Moves

LEMMA ProtectedStep ==
  ASSUME PidTypeOK, Alone, Knows, ProtectedUntilFound, [PidNext]_pidvars
  PROVE  ProtectedUntilFound'
<1> SUFFICES ASSUME orderly', NEW q \in Procs, place'[q] = "running"
             PROVE  pidfile' = q \/ Found(q)'
  BY DEF ProtectedUntilFound
<1>1. CASE UNCHANGED pidvars
  BY <1>1, FoundStays DEF pidvars, ProtectedUntilFound
<1>2. ASSUME NEW p \in Procs, Moves(p) PROVE pidfile' = q \/ Found(q)'
  <2> USE PidAssumption DEF PidTypeOK, Goto
  <2>0. orderly
    BY <1>2 DEF Moves, Step, Start, Stop, NoteOverlap, Detach, CreateStat, KillStat, Read,
                ReadSize, Kill, Unlink, Write, Exit
  <2>1. CASE Unlink(p)
    <3>1. place[p] = "unlink" /\ pidfile = pid[p] /\ place[q] = "running"
      BY <2>0, <2>1 DEF Unlink, KillReturns, Knows
    <3>2. CASE pidfile = q
      <4>1. signal[p] = "0"
        BY <2>0, <3>1, <3>2 DEF Knows
      <4>2. place'[p] = "refused" /\ signal' = signal /\ pid' = pid
        BY <2>1, <4>1 DEF Unlink, KillReturns
      <4> QED
        BY <3>1, <3>2, <4>1, <4>2 DEF Found
    <3>3. CASE pidfile # q
      BY <2>0, <3>1, <3>3, FoundStays DEF ProtectedUntilFound
    <3> QED
      BY <3>2, <3>3
  <2>2. CASE Write(p)
    <3>1. pidfile = NoPid
      BY <2>0, <2>2 DEF Write, Alone
    <3>2. CASE q = p
      BY <2>2, <3>2 DEF Write
    <3>3. CASE q # p
      BY <2>0, <2>2, <3>1, <3>3, FoundStays DEF Write, ProtectedUntilFound
    <3> QED
      BY <3>2, <3>3
  <2>3. CASE ~Unlink(p) /\ ~Write(p)
    <3>1. pidfile' = pidfile /\ place[q] = "running"
      <4>1. CASE Start(p) \/ Stop(p) \/ Detach(p) \/ CreateStat(p) \/ Exit(p)
        BY <4>1 DEF Start, Stop, Detach, CreateStat, Exit
      <4>2. CASE KillStat(p) \/ Read(p) \/ ReadSize(p) \/ Kill(p)
        BY <4>2 DEF KillStat, Read, ReadSize, Kill, KillReturns
      <4> QED
        BY <1>2, <2>3, <4>1, <4>2 DEF Moves, Step
    <3> QED
      BY <2>0, <3>1, FoundStays DEF ProtectedUntilFound
  <2> QED
    BY <2>1, <2>2, <2>3
<1> QED
  BY <1>1, <1>2 DEF PidNext, Moves

(* However many processes start and stop the program, one after the other: *)
(* an instance loses its pidfile only to a start that was refused for it.  *)
THEOREM PidfileProtects == PidSpec => []ProtectedUntilFound
<1>1. PidInit => Alone /\ Knows /\ ProtectedUntilFound
  BY DEF PidInit, Alone, Knows, ProtectedUntilFound, Calls
<1>2. PidTypeOK /\ Alone /\ Knows /\ ProtectedUntilFound /\ [PidNext]_pidvars
        => ProtectedUntilFound'
  BY ProtectedStep
<1> QED
  BY <1>1, <1>2, AloneStep, KnowsStep, PidTypeCorrect, PTL DEF PidSpec
=============================================================================
