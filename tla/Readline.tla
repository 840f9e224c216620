------------------------------ MODULE Readline ------------------------------
(***************************************************************************)
(* socket_readline (socket.c): lines out of a byte stream that arrives in  *)
(* pieces.  The peer sends, pauses and closes; read(2) returns whatever has*)
(* arrived, a timeout (SO_RCVTIMEO), or the end of the stream.  Between    *)
(* calls the socket keeps read_buf, a list of lines of which the last one  *)
(* is incomplete when status.fragmented is set.                            *)
(*                                                                         *)
(* read_buf is the sequence of its elements and, apart from it, the one    *)
(* pointer that the code tests: list_merge with an empty source leaves     *)
(* read_buf->tail NULL.                                                    *)
(***************************************************************************)
EXTENDS Text

CONSTANTS
  MaxBytes,   \* bytes the peer sends on the connection (a bound)
  BufSize,    \* RECV_BUF_SIZE - 1: bytes one read(2) can return
  Alphabet    \* the characters the peer uses

ASSUME BoundAssumption == MaxBytes \in Nat /\ BufSize \in Nat \ {0}
ASSUME AlphabetAssumption == Alphabet \subseteq 1..255

VARIABLES
  sent,        \* all the bytes the peer has sent
  closed,      \* the peer has closed its end
  arrived,     \* the bytes still in the kernel's receive buffer
  pc,          \* "idle", or "read" inside the read loop of a call
  line,        \* the local variable line
  readbuf,     \* sock->read_buf
  tail,        \* sock->read_buf->tail is not NULL
  fragmented,  \* sock->status.fragmented
  connected,   \* sock->status.connected
  taken,       \* the bytes that calls have put into read_buf
  given,       \* the lines returned to the application so far
  failed       \* a call has thrown: the connection is gone

vars == <<sent, closed, arrived, pc, line, readbuf, tail, fragmented, connected,
          taken, given, failed>>

Bytes(s) == Len(s) <= MaxBytes /\ ToSet(s) \subseteq Alphabet

TypeOK ==
  /\ \A s \in {sent, arrived, line, taken} \cup ToSet(readbuf) \cup ToSet(given) : Bytes(s)
  /\ pc \in {"idle", "read"}
  /\ {closed, tail, fragmented, connected, failed} \subseteq BOOLEAN

Init ==
  /\ sent = <<>> /\ arrived = <<>> /\ closed = FALSE
  /\ pc = "idle" /\ line = <<>>
  /\ readbuf = <<>> /\ tail = FALSE /\ fragmented = FALSE /\ connected = TRUE
  /\ taken = <<>> /\ given = <<>> /\ failed = FALSE

-----------------------------------------------------------------------------
(* The peer sends lines that end with LF or CR LF; it sends no CR anywhere *)
(* else and no NUL, which would end the string that strsep takes apart.    *)
Send(c) ==
  /\ ~closed /\ Len(sent) < MaxBytes
  /\ c # LF /\ sent # <<>> => Last(sent) # CR   \* "\r" occurs in "\r\n" only
  /\ sent' = Append(sent, c)
  /\ arrived' = Append(arrived, c)
  /\ UNCHANGED <<closed, pc, line, readbuf, tail, fragmented, connected, taken, given, failed>>

Close ==
  /\ ~closed
  /\ closed' = TRUE
  /\ UNCHANGED <<sent, arrived, pc, line, readbuf, tail, fragmented, connected, taken, given, failed>>

(* Mutant: the last line of the buffer is held back. *)
BufferedTwo == Len(readbuf) > 1 /\ ~fragmented

(* A line that the next call returns is in the buffer.  The test looks at  *)
(* all of read_buf: with a fragment at its end, no line is returned.       *)
Buffered == readbuf # <<>> /\ ~fragmented

(* The beginning of a call: a buffered line is returned, or else the call  *)
(* goes on to read.                                                        *)
CallBuffered ==
  /\ pc = "idle" /\ ~failed
  /\ Buffered
  /\ given' = Append(given, Head(readbuf))
  /\ readbuf' = Tail(readbuf)
  /\ tail' = (tail /\ Len(readbuf) > 1)
  /\ UNCHANGED <<sent, closed, arrived, pc, line, fragmented, connected, taken, failed>>

CallRead ==
  /\ pc = "idle" /\ ~failed
  /\ ~Buffered
  /\ pc' = "read"
  /\ line' = <<>>
  /\ UNCHANGED <<sent, closed, arrived, readbuf, tail, fragmented, connected, taken, given, failed>>

(* Mutant: the result of str_cmp_terminator is read the wrong way round. *)
Terminated(s) == Last(s) = LF

(* str_cmp_terminator(line, '\n') != 0 *)
Unterminated(s) == Last(s) # LF

(* The part of a call after the read loop, with s in the variable line:    *)
(* split it, complete the fragment with its first piece, merge the rest    *)
(* into read_buf and shift the first line of read_buf off to the caller.   *)
(* Without the entry to complete, the call throws ("logic error").         *)
Finish(s) ==
  LET tok == str_split(s, LF)
      new == IF fragmented THEN Tail(tok) ELSE tok
      buf == IF fragmented
               THEN Append(Front(readbuf), Last(readbuf) \o Head(tok)) \o new
               ELSE readbuf \o new
  IN /\ pc' = "idle"
     /\ line' = <<>>
     /\ IF fragmented /\ ~tail
          THEN /\ failed' = TRUE
               /\ UNCHANGED <<given, readbuf, tail, fragmented, taken>>
          ELSE /\ given' = Append(given, Head(buf))
               /\ readbuf' = Tail(buf)
               /\ tail' = (new # <<>> /\ Len(buf) > 1)
               /\ fragmented' = Unterminated(s)
               /\ taken' = taken \o s
               /\ UNCHANGED failed

(* What read(2) leaves in the receive buffer when it returns n bytes. *)
Unread(n) == SubSeq(arrived, n + 1, Len(arrived))

(* The n bytes that are appended to line. *)
Received(n) == SubSeq(arrived, 1, n)

(* read(2) returns n bytes; the loop ends once there is a line feed. *)
ReadBytes(n) ==
  /\ pc = "read"
  /\ n <= Len(arrived)
  /\ arrived' = Unread(n)
  /\ LET s == line \o Received(n) IN
       IF LF \in ToSet(s)
         THEN Finish(s)
         ELSE /\ line' = s
              /\ UNCHANGED <<pc, readbuf, tail, fragmented, taken, given, failed>>
  /\ UNCHANGED <<sent, closed, connected>>

(* EAGAIN: the call returns 0 without a line; what it has read is dropped. *)
ReadTimeout ==
  /\ pc = "read"
  /\ arrived = <<>> /\ ~closed
  /\ pc' = "idle"
  /\ line' = <<>>
  /\ UNCHANGED <<sent, closed, arrived, readbuf, tail, fragmented, connected, taken, given, failed>>

(* The end of the stream: what has been read counts as a line; if nothing  *)
(* has, the call throws.                                                   *)
ReadEnd ==
  /\ pc = "read"
  /\ arrived = <<>> /\ closed
  /\ connected' = FALSE
  /\ IF line = <<>>
       THEN /\ failed' = TRUE
            /\ pc' = "idle"
            /\ UNCHANGED <<line, readbuf, tail, fragmented, taken, given>>
       ELSE Finish(line)
  /\ UNCHANGED <<sent, closed, arrived>>

Next ==
  \/ \E c \in Alphabet : Send(c)
  \/ Close \/ CallBuffered \/ CallRead
  \/ \E n \in 1..BufSize : ReadBytes(n)
  \/ ReadTimeout \/ ReadEnd

Spec == Init /\ [][Next]_vars

(* The application calls again whenever a call has returned without an     *)
(* error, and a call goes on once read(2) has something to return; SO_     *)
(* RCVTIMEO bounds the time it waits.  Nothing is assumed of the peer.     *)
FairSpec ==
  /\ Spec
  /\ WF_vars(CallBuffered \/ CallRead)
  /\ WF_vars((\E n \in 1..BufSize : ReadBytes(n)) \/ ReadTimeout \/ ReadEnd)

-----------------------------------------------------------------------------
(* Properties. *)

(* The lines of a byte string, by the definition of a line: the pieces     *)
(* between line feeds without a trailing "\r", and without the empty piece *)
(* after a final line feed.                                                *)
LinesOf(s) ==
  LET all == [n \in 1..Len(strsep(s, LF)) |->
                LET p == strsep(s, LF)[n] IN
                  IF p # <<>> /\ Last(p) = CR THEN Front(p) ELSE p]
  IN  IF s = <<>> \/ Last(s) = LF THEN Front(all) ELSE all

(* However the stream was cut into reads, the lines returned and the lines *)
(* buffered are the lines of the bytes taken, each once and in order.      *)
LinesPreserved == given \o readbuf = LinesOf(taken)

(* While the connection is up, the entry that a fragment is to be appended *)
(* to is there, and read_buf->tail points to it: the "logic error" tests of*)
(* socket_readline cannot fail, although list_merge sets tail to NULL.     *)
FragmentPresent ==
  TypeOK /\ (fragmented /\ connected => readbuf # <<>> /\ tail)

(* The lines complete in the bytes taken, returned or not. *)
Complete == Len(given) + Len(readbuf) - (IF fragmented /\ readbuf # <<>> THEN 1 ELSE 0)

(* A complete line that a call has read is returned by a later call, unless*)
(* from some time on the buffer always ends in a fragment: the peer stops, *)
(* or closes, in the middle of a line.  Then the complete lines in front of*)
(* the fragment are withheld for good.                                     *)
LinesComeOut ==
  \A k \in 1..MaxBytes : (Complete >= k) ~> (Len(given) >= k \/ []fragmented)
=============================================================================
