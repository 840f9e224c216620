------------------------------ MODULE PidFile ------------------------------
(***************************************************************************)
(* The pidfile of a program (process.c): processes that start it           *)
(* (process_daemonize calls pidfile_create) and processes that stop it     *)
(* (pidfile_kill with SIGTERM), one system call per step.                  *)
(*                                                                         *)
(* A process stands for its process number, and process numbers are not    *)
(* reused.  file_write replaces the pidfile in one step (module FileWrite).*)
(***************************************************************************)
EXTENDS Integers

CONSTANTS
  Procs,
  NoPid        \* there is no pidfile

ASSUME PidAssumption == NoPid \notin Procs

VARIABLES
  pidfile,   \* the process number in the pidfile
  place,     \* where each process is
  signal,    \* the signal_num of its call of pidfile_kill
  pid,       \* the process number it has read from the pidfile, or NoPid for
             \* the number of some other process
  orderly    \* no two calls have overlapped, no kill or unlink has failed

pidvars == <<pidfile, place, signal, pid, orderly>>

Calls == {"detach", "stat", "kill_stat", "read", "size", "kill", "unlink", "write"}

PidTypeOK ==
  /\ pidfile \in Procs \cup {NoPid}
  /\ place \in [Procs -> Calls \cup {"new", "running", "refused", "done", "exited"}]
  /\ signal \in [Procs -> {"0", "TERM"}]
  /\ pid \in [Procs -> Procs \cup {NoPid}]
  /\ orderly \in BOOLEAN

PidInit ==
  /\ pidfile = NoPid
  /\ place = [p \in Procs |-> "new"]
  /\ signal = [p \in Procs |-> "0"]
  /\ pid = [p \in Procs |-> NoPid]
  /\ orderly = TRUE

Goto(p, label) == place' = [place EXCEPT ![p] = label]
NoteOverlap == orderly' = (orderly /\ \A p \in Procs : place[p] \notin Calls)

(* The process exists: kill(2) finds it. *)
Alive(p) == p \in Procs /\ place[p] \notin {"new", "done", "exited"}

-----------------------------------------------------------------------------
(* process_daemonize: fork(2), after which p stands for the child and the  *)
(* parent exits; if it fails there is no p.                                *)
Start(p) ==
  /\ place[p] = "new" /\ NoteOverlap
  /\ Goto(p, "detach")
  /\ UNCHANGED <<pidfile, signal, pid>>

(* setsid(2); then the standard files are closed, the system log is opened *)
(* and pidfile_create is called.  Without a session of its own the child   *)
(* goes no further.                                                        *)
Detach(p) ==
  /\ place[p] = "detach"
  /\ Goto(p, "stat") \/ Goto(p, "refused")
  /\ UNCHANGED <<pidfile, signal, pid, orderly>>

(* Mutant: the program is not given a chance to end by itself. *)
StopWithKill(p) ==
  /\ place[p] = "new" /\ NoteOverlap
  /\ signal' = [signal EXCEPT ![p] = "KILL"]
  /\ Goto(p, "kill_stat")
  /\ UNCHANGED <<pidfile, pid>>

(* Another program calls pidfile_kill(SIGTERM). *)
Stop(p) ==
  /\ place[p] = "new" /\ NoteOverlap
  /\ signal' = [signal EXCEPT ![p] = "TERM"]
  /\ Goto(p, "kill_stat")
  /\ UNCHANGED <<pidfile, pid>>

(* pidfile_create calls pidfile_stat. *)
CreateStat(p) ==
  /\ place[p] = "stat"
  /\ Goto(p, IF pidfile = NoPid THEN "write" ELSE "kill_stat")
  /\ UNCHANGED <<pidfile, signal, pid, orderly>>

(* Mutants: pidfile_create does not look at the result of the probe; a     *)
(* probe that fails is repeated.                                           *)
ProbeIgnored(p, rc) == Goto(p, IF signal[p] = "TERM" THEN "done" ELSE "write")
KillRetried(p, rc) ==
  Goto(p, IF signal[p] = "TERM" THEN "done"
          ELSE IF rc = 0 THEN "refused" ELSE "kill_stat")

(* pidfile_kill has returned rc.  pidfile_create takes 0 for "another      *)
(* instance is running", and goes on to write the pidfile otherwise.       *)
KillReturns(p, rc) ==
  Goto(p, IF signal[p] = "TERM" THEN "done"
          ELSE IF rc = 0 THEN "refused" ELSE "write")

(* pidfile_kill calls pidfile_stat: without a pidfile it returns 0. *)
KillStat(p) ==
  /\ place[p] = "kill_stat"
  /\ IF pidfile = NoPid THEN KillReturns(p, 0) ELSE Goto(p, "read")
  /\ UNCHANGED <<pidfile, signal, pid, orderly>>

(* file_read opens the pidfile; it fails if the pidfile is gone by now. *)
Read(p) ==
  /\ place[p] = "read"
  /\ pid' = [pid EXCEPT ![p] = pidfile]
  /\ IF pidfile = NoPid THEN KillReturns(p, -1) ELSE Goto(p, "size")
  /\ UNCHANGED <<pidfile, signal, orderly>>

(* Then it takes the size from the path: if there is another file by now,  *)
(* or none, a beginning of the number is read, which is the number of a    *)
(* process that is none of these, or nothing that str_to_uint32 accepts.   *)
ReadSize(p) ==
  /\ place[p] = "size"
  /\ \/ pidfile = pid[p] /\ Goto(p, "kill") /\ UNCHANGED pid
     \/ pidfile # pid[p] /\ Goto(p, "kill") /\ pid' = [pid EXCEPT ![p] = NoPid]
     \/ pidfile # pid[p] /\ KillReturns(p, -1) /\ UNCHANGED pid
  /\ UNCHANGED <<pidfile, signal, orderly>>

(* Mutant: that there is no such process is a failure like any other. *)
EsrchFails(p) ==
  /\ place[p] = "kill"
  /\ \/ /\ signal[p] = "0" /\ Alive(pid[p])
        /\ Goto(p, "unlink")
     \/ /\ signal[p] = "TERM" /\ Alive(pid[p])
        /\ place' = [place EXCEPT ![p] = "unlink", ![pid[p]] = "exited"]
     \/ ~Alive(pid[p]) /\ KillReturns(p, -1)
  /\ UNCHANGED <<pidfile, signal, pid, orderly>>

(* kill(2).  That there is no such process (ESRCH) is only logged.  SIGTERM*)
(* ends the process it is sent to: signal_library_init does not catch it.  *)
Kill(p) ==
  /\ place[p] = "kill"
  /\ \/ /\ signal[p] = "0" \/ ~Alive(pid[p])
        /\ Goto(p, "unlink") /\ UNCHANGED orderly
     \/ /\ signal[p] = "TERM" /\ Alive(pid[p])
        /\ place' = [place EXCEPT ![p] = "unlink", ![pid[p]] = "exited"]
        /\ UNCHANGED orderly
     \/ /\ Alive(pid[p])                          \* EPERM
        /\ KillReturns(p, -1) /\ orderly' = FALSE
  /\ UNCHANGED <<pidfile, signal, pid>>

(* unlink(2) of the pidfile, whichever signal was sent. *)
Unlink(p) ==
  /\ place[p] = "unlink"
  /\ \/ /\ pidfile # NoPid
        /\ pidfile' = NoPid
        /\ KillReturns(p, 0) /\ UNCHANGED orderly
     \/ /\ KillReturns(p, -1) /\ orderly' = FALSE
        /\ UNCHANGED pidfile
  /\ UNCHANGED <<signal, pid>>

(* file_write of the own process number. *)
Write(p) ==
  /\ place[p] = "write"
  /\ \/ pidfile' = p /\ Goto(p, "running")
     \/ Goto(p, "refused") /\ UNCHANGED pidfile
  /\ UNCHANGED <<signal, pid, orderly>>

(* The process ends, or crashes; its pidfile stays behind. *)
Exit(p) ==
  /\ place[p] \in {"running", "refused"}
  /\ Goto(p, "exited")
  /\ UNCHANGED <<pidfile, signal, pid, orderly>>

Step(p) ==
  \/ Detach(p)
  \/ CreateStat(p) \/ KillStat(p) \/ Read(p) \/ ReadSize(p) \/ Kill(p) \/ Unlink(p) \/ Write(p)

PidNext == \E p \in Procs : Start(p) \/ Stop(p) \/ Step(p) \/ Exit(p)

(* Every call runs to its end. *)
PidFairness == \A p \in Procs : WF_pidvars(Step(p))
PidSpec == PidInit /\ [][PidNext]_pidvars
PidFairSpec == PidSpec /\ PidFairness

-----------------------------------------------------------------------------
(* Properties. *)

(* "Do not overwrite an existing pidfile": as long as calls have not        *)
(* overlapped and every process may signal the others and delete the file,  *)
(* a pidfile is removed before another one is written.                      *)
NeverOverwritten ==
  [][orderly => pidfile = NoPid \/ pidfile' \in {pidfile, NoPid}]_pidvars

(* A running instance is protected by its pidfile until a later start finds *)
(* it: as long as calls have been orderly, an instance that runs without    *)
(* its pidfile has been signalled by a start which was refused for it, and  *)
(* that start, and nothing else, has deleted its pidfile.  (The start after *)
(* that one is not refused any more.)                                       *)
Found(q) ==
  \E p \in Procs : signal[p] = "0" /\ pid[p] = q /\ place[p] \in {"refused", "exited"}
ProtectedUntilFound ==
  orderly => \A q \in Procs : place[q] = "running" => pidfile = q \/ Found(q)

(* Every start and every stop comes to an end, whatever the others do.      *)
CallsEnd == \A p \in Procs : place[p] \in Calls ~> place[p] \notin Calls
=============================================================================
