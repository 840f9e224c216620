--------------------------- MODULE SessionServer ---------------------------
(***************************************************************************)
(* The connection path of libnc: the main thread, which polls the listening*)
(* sockets (server_multiplex) and runs server_accept for every pending     *)
(* connection, and one detached thread per session (session_handler).      *)
(*                                                                         *)
(* The threads share the process's descriptor table and its heap.  What is *)
(* hard here is who owns a session object and a descriptor at every moment,*)
(* on every error path: try(), throw() and throwf() are a plain C "return",*)
(* so a failing call in server_accept or session_handler skips everything  *)
(* after it, the catch: block included.                                    *)
(*                                                                         *)
(* The protocol (the session controller's hooks) is external code: a hook  *)
(* may return an error, and a request or response handler may leave the    *)
(* session open, store another value in session_state, or call             *)
(* session_close itself, which is part of the public interface.            *)
(***************************************************************************)
EXTENDS Integers

CONSTANTS
  Conns,          \* connections that clients may open to the server
  Sessions,       \* session objects the heap can hold (a bound)
  FdCount,        \* descriptors 0 .. FdCount-1 are free for clients
  MaxClientCount, \* MAX_CLIENT_COUNT
  MaxLines,       \* lines a client may send on one connection (a bound)
  QuitStates,     \* session_state values a handler stores to end a session
  MayFail         \* the failures the environment can produce

Failures == {"alloc", "init", "peer", "thread", "overload",
             "greeting", "close", "destroy"}

ASSUME FdAssumption == FdCount \in Nat /\ MaxClientCount \in Nat
ASSUME LinesAssumption == MaxLines \in Nat
ASSUME QuitAssumption == QuitStates \subseteq 0..6
ASSUME FailAssumption == MayFail \subseteq Failures

(* SESSION_STATE_CODES, and the hook number SESSION_TIMEOUT that            *)
(* session_process_request stores in session_state.                        *)
SESSION_UNDEF    == 0
SESSION_GREETING == 1
SESSION_OPEN     == 2
SESSION_READ     == 3
SESSION_IDLE     == 4
SESSION_WRITE    == 5
SESSION_CLOSED   == 6

(* Mutant: the hook has a number that no state code has. *)
HookNumberOutsideStates == 7
SESSION_TIMEOUT  == 4

NoConn == "no connection"
NoSession == "no session"
ASSUME NoneAssumption == NoConn \notin Conns /\ NoSession \notin Sessions

VARIABLES
  peer,      \* the client's end of each connection
  lines,     \* lines each client has yet to send
  backlog,   \* connections waiting in the listen queue
  fdtab,     \* the kernel's table: the connection each descriptor refers to
  closes,    \* whether a close(2) has failed so far
  main,      \* where the main thread is
  cur,       \* the session that server_accept is working on
  pc,        \* where each session thread is
  mem,       \* the session object on the heap
  sockmem,   \* its socket object
  state,     \* session_state
  fd,        \* sock->fd
  connected, \* sock->status.connected
  timeout,   \* sock->status.timeout
  conn,      \* the connection accept(2) returned for the session
  hooks      \* the controller hooks invoked for the session

kernel == <<peer, lines, backlog, fdtab, closes>>
session == <<mem, sockmem, state, fd, connected, timeout, conn, hooks>>
vars == <<peer, lines, backlog, fdtab, closes, main, cur, pc, mem, sockmem,
          state, fd, connected, timeout, conn, hooks>>

Fds == 0..(FdCount - 1)
FreeFds == {f \in Fds : fdtab[f] = NoConn}
LowestFree(f) == f \in FreeFds /\ \A g \in FreeFds : f <= g

TypeOK ==
  /\ peer \in [Conns -> {"new", "open", "gone"}]
  /\ lines \in [Conns -> 0..MaxLines]
  /\ backlog \in SUBSET Conns
  /\ fdtab \in [Fds -> Conns \cup {NoConn}]
  /\ closes \in {"ok", "failed"}
  /\ main \in {"poll", "init", "accept", "spawn", "overload", "close", "destroy"}
  /\ cur \in Sessions \cup {NoSession}
  /\ pc \in [Sessions -> {"none", "greeting", "read", "request", "response",
                          "ended", "close", "destroy", "exited"}]
  /\ mem \in [Sessions -> {"none", "live", "stripped", "freed"}]
  /\ sockmem \in [Sessions -> {"none", "live", "freed"}]
  /\ state \in [Sessions -> 0..6]
  /\ fd \in [Sessions -> Fds \cup {-1}]
  /\ connected \in [Sessions -> BOOLEAN]
  /\ timeout \in [Sessions -> BOOLEAN]
  /\ conn \in [Sessions -> Conns \cup {NoConn}]
  /\ hooks \in [Sessions -> SUBSET {"init", "response", "request", "timeout",
                                    "overload", "destroy"}]

Init ==
  /\ peer = [k \in Conns |-> "new"]
  /\ lines = [k \in Conns |-> MaxLines]
  /\ backlog = {}
  /\ fdtab = [f \in Fds |-> NoConn]
  /\ closes = "ok"
  /\ main = "poll"
  /\ cur = NoSession
  /\ pc = [s \in Sessions |-> "none"]
  /\ mem = [s \in Sessions |-> "none"]
  /\ sockmem = [s \in Sessions |-> "none"]
  /\ state = [s \in Sessions |-> SESSION_UNDEF]
  /\ fd = [s \in Sessions |-> -1]
  /\ connected = [s \in Sessions |-> FALSE]
  /\ timeout = [s \in Sessions |-> FALSE]
  /\ conn = [s \in Sessions |-> NoConn]
  /\ hooks = [s \in Sessions |-> {}]

-----------------------------------------------------------------------------
(* The clients. *)

Connect(k) ==
  /\ peer[k] = "new"
  /\ peer' = [peer EXCEPT ![k] = "open"]
  /\ backlog' = backlog \cup {k}
  /\ UNCHANGED <<lines, fdtab, closes, main, cur, pc, session>>

(* The client closes or resets its end; the server is not told.            *)
Hangup(k) ==
  /\ peer[k] = "open"
  /\ peer' = [peer EXCEPT ![k] = "gone"]
  /\ UNCHANGED <<lines, backlog, fdtab, closes, main, cur, pc, session>>

-----------------------------------------------------------------------------
(* Parts shared by the two kinds of thread. *)

(* Mutant: every way out of server_accept runs through its catch: block. *)
PollThroughCatch == main' = "destroy" /\ UNCHANGED cur

(* server_accept is over: the main thread is back in poll(2).  A raw return *)
(* leaves the session as it is; nobody refers to it any more.              *)
Poll == main' = "poll" /\ cur' = NoSession

(* session_controller_invoke: the hook runs, and its error is the caller's.*)
Invoke(s, h) == hooks' = [hooks EXCEPT ![s] = @ \cup {h}]

(* Mutant: the descriptor is not forgotten when it is closed. *)
CloseKeepsFd(s, rc) ==
  /\ rc = 0
  /\ fdtab' = [f \in Fds |-> IF f = fd[s] THEN NoConn ELSE fdtab[f]]
  /\ UNCHANGED <<fd, closes>>

(* socket_close; rc is its result.  A failed close(2) has released the     *)
(* descriptor, but sock->fd keeps its value.                               *)
socket_close(s, rc) ==
  \/ fd[s] = -1 /\ rc = 0 /\ UNCHANGED <<fd, fdtab, closes>>
  \/ /\ fd[s] # -1
     /\ fdtab' = [fdtab EXCEPT ![fd[s]] = NoConn]
     /\ \/ rc = 0 /\ fd' = [fd EXCEPT ![s] = -1] /\ UNCHANGED closes
        \/ rc = -1 /\ "close" \in MayFail /\ closes' = "failed" /\ UNCHANGED fd

(* session_close *)
session_close(s, rc) ==
  \/ /\ state[s] = SESSION_UNDEF /\ rc = -1
     /\ UNCHANGED <<state, fd, fdtab, closes>>
  \/ /\ state[s] = SESSION_CLOSED /\ rc = 0
     /\ UNCHANGED <<state, fd, fdtab, closes>>
  \/ /\ state[s] \notin {SESSION_UNDEF, SESSION_CLOSED}
     /\ socket_close(s, rc)
     /\ state' = [state EXCEPT ![s] = IF rc = 0 THEN SESSION_CLOSED ELSE @]

(* session_destroy: the lists and strings go first, then the destroy hook  *)
(* runs, and only if it succeeds are the socket and the session freed.     *)
session_destroy(s, rc) ==
  /\ Invoke(s, "destroy")
  /\ \/ /\ rc = 0
        /\ mem' = [mem EXCEPT ![s] = "freed"]
        /\ sockmem' = [sockmem EXCEPT ![s] = "freed"]
     \/ /\ rc = -1
        /\ "destroy" \in MayFail
        /\ mem' = [mem EXCEPT ![s] = "stripped"]
        /\ UNCHANGED sockmem

-----------------------------------------------------------------------------
(* The main thread: server_multiplex calls server_accept. *)

(* session_new.  If an allocation fails after the first, the part that was *)
(* allocated stays behind.                                                 *)
AcceptNew(s) ==
  /\ main = "poll"
  /\ backlog # {}
  /\ mem[s] = "none"
  /\ mem' = [mem EXCEPT ![s] = "live"]
  /\ \/ /\ state' = [state EXCEPT ![s] = SESSION_OPEN]
        /\ main' = "init" /\ cur' = s
     \/ /\ "alloc" \in MayFail
        /\ UNCHANGED <<state, main, cur>>
  /\ UNCHANGED <<kernel, pc, sockmem, fd, connected, timeout, conn, hooks>>

(* Mutant: the init hook is not called. *)
AcceptWithoutInit(s) ==
  /\ main = "init" /\ cur = s
  /\ main' = "accept"
  /\ UNCHANGED <<kernel, cur, pc, session>>

AcceptInit(s) ==
  /\ main = "init" /\ cur = s
  /\ Invoke(s, "init")
  /\ \/ main' = "accept" /\ UNCHANGED cur
     \/ "init" \in MayFail /\ Poll
  /\ UNCHANGED <<kernel, pc, mem, sockmem, state, fd, connected, timeout, conn>>

(* session_accept and socket_accept.  accept(2) takes the lowest free      *)
(* descriptor.  It fails when there is none (EMFILE, the connection stays  *)
(* queued), or reports that the client is gone already (ECONNABORTED; the  *)
(* setsockopt(2) on descriptor -1 that follows fails in turn).  When the   *)
(* client is gone, getpeername(2) on the accepted socket may fail as well. *)
AcceptConnection(s, k) ==
  /\ main = "accept" /\ cur = s
  /\ k \in backlog
  /\ sockmem' = [sockmem EXCEPT ![s] = "live"]
  /\ \/ /\ \E f \in Fds :
             /\ LowestFree(f)
             /\ fdtab' = [fdtab EXCEPT ![f] = k]
             /\ fd' = [fd EXCEPT ![s] = f]
        /\ conn' = [conn EXCEPT ![s] = k]
        /\ connected' = [connected EXCEPT ![s] = TRUE]
        /\ backlog' = backlog \ {k}
        /\ \/ main' = "spawn" /\ UNCHANGED cur
           \/ peer[k] = "gone" /\ "peer" \in MayFail /\ Poll
     \/ /\ peer[k] = "gone" /\ "peer" \in MayFail
        /\ backlog' = backlog \ {k}
        /\ Poll
        /\ UNCHANGED <<fdtab, fd, conn, connected>>
     \/ /\ FreeFds = {}
        /\ Poll
        /\ UNCHANGED <<fdtab, fd, conn, connected, backlog>>
  /\ UNCHANGED <<peer, lines, closes, pc, mem, state, timeout, hooks>>

(* Mutants: the limit is off by one, either way. *)
OverLimitLate(s) == fd[s] > MaxClientCount \/ fd[s] < 0
OverLimitEarly(s) == fd[s] >= MaxClientCount - 1 \/ fd[s] < 0

(* "too many connections", or "invalid session fd" *)
OverLimit(s) == fd[s] >= MaxClientCount \/ fd[s] < 0

(* The limit check, and thread_create_detached. *)
AcceptSpawn(s) ==
  /\ main = "spawn" /\ cur = s
  /\ \/ /\ OverLimit(s)
        /\ Poll /\ UNCHANGED pc
     \/ /\ ~OverLimit(s)
        /\ pc' = [pc EXCEPT ![s] = "greeting"]
        /\ Poll
     \/ /\ ~OverLimit(s)
        /\ "thread" \in MayFail
        /\ main' = "overload" /\ UNCHANGED <<cur, pc>>
  /\ UNCHANGED <<kernel, session>>

AcceptOverload(s) ==
  /\ main = "overload" /\ cur = s
  /\ Invoke(s, "overload")
  /\ \/ main' = "close" /\ UNCHANGED cur
     \/ "overload" \in MayFail /\ Poll
  /\ UNCHANGED <<kernel, pc, mem, sockmem, state, fd, connected, timeout, conn>>

(* The result of this session_close is ignored. *)
AcceptClose(s) ==
  /\ main = "close" /\ cur = s
  /\ \E rc \in {0, -1} : session_close(s, rc)
  /\ main' = "destroy"
  /\ UNCHANGED <<peer, lines, backlog, cur, pc, mem, sockmem, connected,
                 timeout, conn, hooks>>

AcceptDestroy(s) ==
  /\ main = "destroy" /\ cur = s
  /\ \E rc \in {0, -1} : session_destroy(s, rc)
  /\ Poll
  /\ UNCHANGED <<kernel, pc, state, fd, connected, timeout, conn>>

MainThread ==
  \E s \in Sessions :
    \/ AcceptNew(s) \/ AcceptInit(s) \/ AcceptSpawn(s)
    \/ AcceptOverload(s) \/ AcceptClose(s) \/ AcceptDestroy(s)
    \/ \E k \in Conns : AcceptConnection(s, k)

-----------------------------------------------------------------------------
(* The session threads: session_handler. *)

Goto(s, label) == pc' = [pc EXCEPT ![s] = label]

(* Mutant: only a closed session leaves the loop. *)
LoopUntilClosed(st) == IF st # SESSION_CLOSED THEN "read" ELSE "ended"

(* The condition of the loop in session_handler, on the state st. *)
LoopTest(st) == IF st = SESSION_READ THEN "read" ELSE "ended"

(* session_greeting: the response hook, which may call session_close, and  *)
(* then SESSION_READ whatever the hook has stored.  Its failure ends the   *)
(* thread at once.                                                         *)
Greeting(s) ==
  /\ pc[s] = "greeting"
  /\ Invoke(s, "response")
  /\ \/ UNCHANGED <<fd, fdtab, closes>>
     \/ \E rc \in {0, -1} : socket_close(s, rc)
  /\ \/ /\ state' = [state EXCEPT ![s] = SESSION_READ]
        /\ Goto(s, "read")
     \/ /\ "greeting" \in MayFail
        /\ state' = [state EXCEPT ![s] = SESSION_GREETING]
        /\ Goto(s, "exited")
  /\ UNCHANGED <<peer, lines, backlog, main, cur, mem, sockmem, connected,
                 timeout, conn>>

(* read(2) on the session's descriptor reaches a connection. *)
Readable(s) == fd[s] # -1 /\ fdtab[fd[s]] # NoConn

(* socket_readline finds a line of the connection its descriptor refers to;*)
(* the last one may be an unterminated line ended by the client's close.   *)
ReadLine(s) ==
  /\ pc[s] = "read"
  /\ Readable(s)
  /\ LET k == fdtab[fd[s]] IN
       /\ lines[k] > 0
       /\ lines' = [lines EXCEPT ![k] = @ - 1]
       /\ \/ UNCHANGED connected
          \/ peer[k] = "gone" /\ connected' = [connected EXCEPT ![s] = FALSE]
  /\ Goto(s, "request")
  /\ UNCHANGED <<peer, backlog, fdtab, closes, main, cur, mem, sockmem, state,
                 fd, timeout, conn, hooks>>

(* EAGAIN: the receive timeout that session_accept set has passed. *)
ReadTimeout(s) ==
  /\ pc[s] = "read"
  /\ Readable(s) /\ peer[fdtab[fd[s]]] = "open"
  /\ timeout' = [timeout EXCEPT ![s] = TRUE]
  /\ state' = [state EXCEPT ![s] = SESSION_TIMEOUT]
  /\ Goto(s, LoopTest(SESSION_TIMEOUT))
  /\ UNCHANGED <<kernel, main, cur, mem, sockmem, fd, connected, conn, hooks>>

(* End of file and a descriptor that is not open (EBADF resets sock->fd)   *)
(* clear sock->connected, another error of read(2) leaves it:              *)
(* socket_readline throws, session_process_request returns -1, and the loop*)
(* discards it.                                                            *)
ReadFailure(s) ==
  LET off == [connected EXCEPT ![s] = FALSE] IN
  /\ pc[s] = "read"
  /\ \/ /\ Readable(s)
        /\ peer[fdtab[fd[s]]] = "gone"
        /\ connected' \in {off, connected}
        /\ UNCHANGED fd
     \/ /\ ~Readable(s)
        /\ connected' = off
        /\ fd' = [fd EXCEPT ![s] = -1]
  /\ Goto(s, LoopTest(state[s]))
  /\ UNCHANGED <<kernel, main, cur, mem, sockmem, state, timeout, conn, hooks>>

(* What a hook of the protocol may do to the session. *)
HandlerEffect(s) ==
  \/ UNCHANGED <<state, fd, fdtab, closes>>
  \/ \E q \in QuitStates :
       state' = [state EXCEPT ![s] = q] /\ UNCHANGED <<fd, fdtab, closes>>
  \/ \E rc \in {0, -1} : session_close(s, rc)

(* response_reset, and the request hook; its result is the argument of the *)
(* response hook.                                                          *)
Request(s) ==
  /\ pc[s] = "request"
  /\ Invoke(s, "request")
  /\ HandlerEffect(s)
  /\ Goto(s, "response")
  /\ UNCHANGED <<peer, lines, backlog, main, cur, mem, sockmem, connected,
                 timeout, conn>>

(* The response hook.  Whether it fails makes no difference: the loop      *)
(* discards the result of session_process_request.                         *)
Response(s) ==
  /\ pc[s] = "response"
  /\ Invoke(s, "response")
  /\ HandlerEffect(s)
  /\ Goto(s, LoopTest(state'[s]))
  /\ UNCHANGED <<peer, lines, backlog, main, cur, mem, sockmem, connected,
                 timeout, conn>>

(* The test before the timeout hook. *)
TimedOut(s) == state[s] = SESSION_TIMEOUT /\ connected[s]

(* After the loop: the timeout hook, if the state says so. *)
EndLoop(s) ==
  /\ pc[s] = "ended"
  /\ IF TimedOut(s)
       THEN Invoke(s, "timeout")
       ELSE UNCHANGED hooks
  /\ Goto(s, "close")
  /\ UNCHANGED <<kernel, main, cur, mem, sockmem, state, fd, connected,
                 timeout, conn>>

HandlerClose(s) ==
  /\ pc[s] = "close"
  /\ \/ session_close(s, 0) /\ Goto(s, "destroy")
     \/ session_close(s, -1) /\ Goto(s, "exited")
  /\ UNCHANGED <<peer, lines, backlog, main, cur, mem, sockmem, connected,
                 timeout, conn, hooks>>

HandlerDestroy(s) ==
  /\ pc[s] = "destroy"
  /\ \E rc \in {0, -1} : session_destroy(s, rc)
  /\ Goto(s, "exited")
  /\ UNCHANGED <<kernel, main, cur, state, fd, connected, timeout, conn>>

SessionThread(s) ==
  \/ Greeting(s) \/ ReadLine(s) \/ ReadTimeout(s) \/ ReadFailure(s)
  \/ Request(s) \/ Response(s) \/ EndLoop(s)
  \/ HandlerClose(s) \/ HandlerDestroy(s)

Next ==
  \/ \E k \in Conns : Connect(k) \/ Hangup(k)
  \/ MainThread
  \/ \E s \in Sessions : SessionThread(s)

(* The main thread and every session thread keep running; the clients are  *)
(* under no obligation.  A blocked read(2) returns after the receive       *)
(* timeout at the latest.                                                  *)
Fairness ==
  /\ WF_vars(MainThread)
  /\ \A s \in Sessions : WF_vars(SessionThread(s))

Spec == Init /\ [][Next]_vars
FairSpec == Spec /\ Fairness

-----------------------------------------------------------------------------
(* Properties. *)

(* Some thread has a pointer to the session and may still use it. *)
Held(s) == cur = s \/ pc[s] \notin {"none", "exited"}

(* A session in use reads, writes and closes its own connection only: the  *)
(* descriptor in its socket object still refers to the connection that     *)
(* accept(2) returned for it, whatever the other threads have closed and   *)
(* accepted since, as long as no close(2) has failed.                      *)
DescriptorOwned ==
  \A s \in Sessions :
    closes = "ok" /\ Held(s) /\ fd[s] # -1 => conn[s] # NoConn /\ fdtab[fd[s]] = conn[s]

(* A session belongs to the main thread or to its own thread, never to     *)
(* both, and whoever holds it finds the object and its members allocated:  *)
(* no path of server_accept or session_handler uses a destroyed session.   *)
HeldIsLive ==
  \A s \in Sessions :
    /\ Held(s) => mem[s] = "live"
    /\ pc[s] \notin {"none", "exited"} => cur # s /\ sockmem[s] = "live"

(* No session thread ever serves a descriptor at or above MAX_CLIENT_COUNT,*)
(* and the "invalid session fd" test of server_accept never fails: a failed*)
(* accept(2) has left the function before.                                 *)
WithinClientLimit ==
  /\ main = "spawn" => fd[cur] # -1
  /\ \A s \in Sessions :
       pc[s] \notin {"none", "exited"} /\ fd[s] # -1 => fd[s] < MaxClientCount

(* The hooks that a step invokes for a session for the first time. *)
HookStep ==
  \A s \in Sessions :
    \A h \in hooks'[s] \ hooks[s] :
      /\ "destroy" \notin hooks[s]
      /\ h # "init" => "init" \in hooks[s]
      /\ h \in {"request", "response", "timeout"} => "overload" \notin hooks[s]

(* The controller sees init first and destroy last, and a session it was   *)
(* told is an overload is never greeted or served.                         *)
HookProtocol == [][HookStep]_vars

(* Nothing is left behind: every allocated session, and every open         *)
(* descriptor, is held by a running thread.                                *)
NoOrphan ==
  /\ \A s \in Sessions : mem[s] \in {"live", "stripped"} => Held(s)
  /\ \A f \in Fds : fdtab[f] # NoConn =>
                     \E s \in Sessions : Held(s) /\ fd[s] = f

Released(s) ==
  mem[s] = "freed" /\ \A f \in Fds : fdtab[f] # conn[s]

(* A session whose read timed out is torn down and its descriptor returned.*)
TimeoutTeardown == \A s \in Sessions : timeout[s] ~> Released(s)

(* Every queued connection is taken from the listen queue. *)
BacklogDrains == \A k \in Conns : k \in backlog ~> k \notin backlog
=============================================================================
