---------------------------- MODULE ServerStart ----------------------------
(***************************************************************************)
(* How a server process starts: it may give up its root privileges with    *)
(* drop_privileges (server.c), and then runs server_multiplex (module      *)
(* Multiplex).  The program decides whether it calls drop_privileges: the  *)
(* call in server_prepare is not compiled.  When it fails it returns -1,   *)
(* and the program ends or goes on with the ids it has by then.            *)
(*                                                                         *)
(* An id is "root", the one "other" than root that the process was started *)
(* with, or the "target" it is to run as.  The user and the group that it  *)
(* is to run as may be root's as well.                                     *)
(***************************************************************************)
EXTENDS Multiplex

VARIABLES
  at,         \* the step of drop_privileges that is next; "main" behind it
  rc,         \* what drop_privileges has returned
  chrootdir,  \* its argument: a directory, or an empty string
  uid, gid,   \* the ids of the process
  groups,     \* whose supplementary groups it has
  jailed,     \* it has moved to chrootdir with chroot(2)
  newuid,     \* the local variables uid and gid of drop_privileges,
  newgid      \* "unset" at first

locals == <<newuid, newgid>>
ids == <<uid, gid, groups, jailed>>
drop == <<at, rc, chrootdir, ids, locals>>
startvars == <<vars, drop>>

Targets == {"root", "target"}

(* Mutant: the user id is changed first. *)
UserFirst(step) ==
  CASE step = "libraries" -> "group" [] step = "group" -> "user"
    [] step = "user" -> "chdir"      [] step = "chdir" -> "chroot"
    [] step = "chroot" -> "setuid"   [] step = "setuid" -> "setgid"
    [] step = "setgid" -> "lookup"

(* The order of the steps of drop_privileges. *)
Then(step) ==
  CASE step = "libraries" -> "group" [] step = "group" -> "user"
    [] step = "user" -> "chdir"      [] step = "chdir" -> "chroot"
    [] step = "chroot" -> "setgid"   [] step = "setgid" -> "setuid"
    [] step = "setuid" -> "lookup"

StartTypeOK ==
  /\ at \in {"called", "libraries", "group", "user", "chdir", "chroot",
             "setgid", "setuid", "lookup", "failed", "main", "ended"}
  /\ rc \in {"none", "0", "-1"} /\ chrootdir \in {"", "jail"}
  /\ groups \in {"root", "other"}
  /\ uid \in {"root", "other", "target"} /\ gid \in {"root", "other", "target"}
  /\ jailed \in BOOLEAN
  /\ newuid \in Targets \cup {"unset"} /\ newgid \in Targets \cup {"unset"}

StartInit ==
  /\ Init
  /\ at \in {"called", "main"} /\ rc = "none" /\ chrootdir \in {"", "jail"}
  /\ uid = (IF root THEN "root" ELSE "other") /\ gid = uid /\ groups = uid
  /\ jailed = FALSE
  /\ newuid = "unset" /\ newgid = "unset"

-----------------------------------------------------------------------------
(* "if (getuid() > 0)": there is nothing to drop. *)
CheckRoot ==
  /\ at = "called"
  /\ IF root THEN at' = "libraries" /\ UNCHANGED rc
             ELSE at' = "main" /\ rc' = "0"
  /\ UNCHANGED <<vars, chrootdir, ids, locals>>

(* A step that changes nothing here: dns_library_init and                  *)
(* thread_library_init, and chdir(2), which fails for an empty string.     *)
Prepare ==
  /\ at \in {"libraries", "chdir"}
  /\ at = "chdir" => chrootdir # ""
  /\ at' = Then(at)
  /\ UNCHANGED <<vars, rc, chrootdir, ids, locals>>

(* group_exists and group_get_id_by_name; 0 is the answer for the names    *)
(* "root" and "wheel".                                                     *)
FindGroup ==
  /\ at = "group"
  /\ newgid' \in Targets
  /\ at' = Then(at)
  /\ UNCHANGED <<vars, rc, chrootdir, ids, newuid>>

(* passwd_exists, called with the name of the group, and                   *)
(* passwd_get_id_by_name.                                                  *)
FindUser ==
  /\ at = "user"
  /\ newuid' \in Targets
  /\ at' = Then(at)
  /\ UNCHANGED <<vars, rc, chrootdir, ids, newgid>>

(* chroot(2); it is for root only. *)
Chroot ==
  /\ at = "chroot" /\ root
  /\ jailed' = TRUE
  /\ at' = Then(at)
  /\ UNCHANGED <<vars, rc, chrootdir, uid, gid, groups, locals>>

(* setgid(2) and setuid(2), which let nobody but root change to another id.*)
(* The supplementary groups stay: nothing calls setgroups(2) or            *)
(* initgroups(3).                                                          *)
Setgid ==
  /\ at = "setgid" /\ root
  /\ gid' = newgid
  /\ at' = Then(at)
  /\ UNCHANGED <<vars, rc, chrootdir, uid, groups, jailed, locals>>
Setuid ==
  /\ at = "setuid" /\ root
  /\ uid' = newuid /\ root' = (newuid = "root")
  /\ at' = Then(at)
  /\ UNCHANGED <<phase, cursor, controllers, handle, handler, clients, revents,
                 i, j, n, served, rc, chrootdir, gid, groups, jailed, locals>>

(* passwd_exists("root") inside the jail, and the return. *)
LookupWorks ==
  /\ at = "lookup"
  /\ at' = "main" /\ rc' = "0"
  /\ UNCHANGED <<vars, chrootdir, ids, locals>>

(* Each of the steps may fail, and drop_privileges returns -1 at once: what*)
(* has been given up stays given up.                                       *)
DropFails ==
  /\ at \notin {"called", "failed", "main", "ended"}
  /\ at' = "failed" /\ rc' = "-1"
  /\ UNCHANGED <<vars, chrootdir, ids, locals>>

(* The program has the result. *)
AfterFailure ==
  /\ at = "failed"
  /\ at' \in {"main", "ended"}
  /\ UNCHANGED <<vars, rc, chrootdir, ids, locals>>

Drop ==
  \/ CheckRoot \/ Prepare \/ FindGroup \/ FindUser \/ Chroot \/ Setgid \/ Setuid
  \/ LookupWorks \/ DropFails \/ AfterFailure

(* server_multiplex *)
Serve == at = "main" /\ Next /\ UNCHANGED drop

StartNext == Drop \/ Serve

(* The main thread keeps running while it is in server_multiplex. *)
StartSpec ==
  /\ StartInit /\ [][StartNext]_startvars
  /\ WF_startvars(at = "main" /\ Loop /\ UNCHANGED drop)

-----------------------------------------------------------------------------
(* Properties. *)

(* The user id is the last to go, so that root's rights are there for the  *)
(* other steps: whatever fails, and also in a program that goes on after a *)
(* failure, a process that is not root any more has the group it was to    *)
(* have and sits in the jail; and a call that returns 0 to root has made   *)
(* all three changes.  What this does not say: a process whose setuid(2)   *)
(* fails is root with the new group, and the supplementary groups of root  *)
(* are never given up.                                                     *)
PrivilegesDropped ==
  /\ StartTypeOK
  /\ root <=> uid = "root"
  /\ uid = "target" => gid = newgid /\ jailed
  /\ rc = "0" => \/ uid = "other" /\ gid = "other" /\ ~jailed
                 \/ uid = newuid /\ gid = newgid /\ jailed
  /\ rc = "none" /\ at = "main" => uid = gid /\ ~jailed /\ uid # "target"
=============================================================================
