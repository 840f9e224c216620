----------------------------- MODULE AtomicFile -----------------------------
(***************************************************************************)
(* What the comment of file_write promises: a file that is only ever       *)
(* replaced as a whole.  Writers do not mingle their data, a crash in the  *)
(* middle of a write leaves the previous contents, and a reader is given   *)
(* contents that the file has had, or the beginning of such contents.      *)
(* Contents are pairs: a buffer, and how many bytes of it.                 *)
(***************************************************************************)
EXTENDS Naturals

CONSTANTS
  Readers,
  Data,     \* what may be written
  NoFile    \* the path does not exist

VARIABLES
  file,     \* the contents of the file at the path
  past,     \* all the contents it has had
  result    \* what each reader has been given, or NoFile

Init ==
  /\ file \in Data \cup {NoFile}
  /\ past = {file} \ {NoFile}
  /\ result = [r \in Readers |-> NoFile]

Write(d) ==
  /\ file' = d
  /\ past' = past \cup {d}
  /\ UNCHANGED result

Read(r, d) ==
  /\ d \in past
  /\ \E n \in 0..d[2] : result' = [result EXCEPT ![r] = <<d[1], n>>]
  /\ UNCHANGED <<file, past>>

Next ==
  \/ \E d \in Data : Write(d)
  \/ \E r \in Readers, d \in Data : Read(r, d)

Spec == Init /\ [][Next]_<<file, past, result>>
=============================================================================
