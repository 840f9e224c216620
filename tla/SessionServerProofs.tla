------------------------ MODULE SessionServerProofs ------------------------
(* Proofs about the connection path, for any number of connections,         *)
(* sessions and descriptors, and any combination of failures.               *)
EXTENDS SessionServer, FiniteSetTheorems, TLAPS

(* The state of the server keeps its type.                                  *)
THEOREM SessionTypeCorrect == Spec => []TypeOK
<1> USE FdAssumption, LinesAssumption, QuitAssumption, NoneAssumption
<1>1. Init => TypeOK
  <2> SUFFICES ASSUME Init PROVE TypeOK
    OBVIOUS
  <2>1. lines \in [Conns -> 0..MaxLines] /\ backlog \in SUBSET Conns
    BY DEF Init
  <2>2. fd \in [Sessions -> Fds \cup {-1}] /\ fdtab \in [Fds -> Conns \cup {NoConn}]
    BY DEF Init
  <2>3. state \in [Sessions -> 0..6]
    BY DEF Init, SESSION_UNDEF
  <2>4. QED
    BY <2>1, <2>2, <2>3 DEF Init, TypeOK
<1>2. TypeOK /\ [Next]_vars => TypeOK'
  <2> SUFFICES ASSUME TypeOK, [Next]_vars PROVE TypeOK'
    OBVIOUS
  <2> USE DEF TypeOK
  <2>1. ASSUME NEW k \in Conns, Connect(k) \/ Hangup(k) PROVE TypeOK'
    BY <2>1 DEF Connect, Hangup, session
  <2>2. ASSUME NEW s \in Sessions, AcceptNew(s) PROVE TypeOK'
    BY <2>2 DEF AcceptNew, kernel, SESSION_OPEN
  <2>3. ASSUME NEW s \in Sessions, AcceptInit(s) PROVE TypeOK'
    BY <2>3 DEF AcceptInit, Poll, Invoke, kernel
  <2>4. ASSUME NEW s \in Sessions, NEW k \in Conns, AcceptConnection(s, k) PROVE TypeOK'
    <3>1. main' \in {"spawn", "poll"} /\ cur' \in {s, NoSession}
      BY <2>4 DEF AcceptConnection, Poll
    <3>2. fdtab' \in [Fds -> Conns \cup {NoConn}] /\ fd' \in [Sessions -> Fds \cup {-1}]
      BY <2>4 DEF AcceptConnection
    <3>3. /\ backlog' \in SUBSET Conns
          /\ conn' \in [Sessions -> Conns \cup {NoConn}]
          /\ connected' \in [Sessions -> BOOLEAN]
      <4>1. backlog' \in {backlog, backlog \ {k}}
        BY <2>4 DEF AcceptConnection
      <4>2. conn' \in {conn, [conn EXCEPT ![s] = k]}
        BY <2>4 DEF AcceptConnection
      <4>3. connected' \in {connected, [connected EXCEPT ![s] = TRUE]}
        BY <2>4 DEF AcceptConnection
      <4>4. connected' \in [Sessions -> BOOLEAN]
        BY <4>3
      <4>5. backlog' \in SUBSET Conns /\ conn' \in [Sessions -> Conns \cup {NoConn}]
        BY <4>1, <4>2
      <4>6. QED
        BY <4>4, <4>5
    <3>4. sockmem' \in [Sessions -> {"none", "live", "freed"}]
      BY <2>4 DEF AcceptConnection
    <3>5. UNCHANGED <<peer, lines, closes, pc, mem, state, timeout, hooks>>
      BY <2>4 DEF AcceptConnection
    <3>6. QED
      BY <3>1, <3>2, <3>3, <3>4, <3>5
  <2>5. ASSUME NEW s \in Sessions, AcceptSpawn(s) PROVE TypeOK'
    BY <2>5 DEF AcceptSpawn, Poll, kernel, session
  <2>6. ASSUME NEW s \in Sessions, AcceptOverload(s) PROVE TypeOK'
    BY <2>6 DEF AcceptOverload, Poll, Invoke, kernel
  <2>7. ASSUME NEW s \in Sessions, AcceptClose(s) PROVE TypeOK'
    BY <2>7 DEF AcceptClose, session_close, socket_close, SESSION_CLOSED
  <2>8. ASSUME NEW s \in Sessions, AcceptDestroy(s) PROVE TypeOK'
    BY <2>8 DEF AcceptDestroy, session_destroy, Poll, Invoke, kernel
  <2>9. ASSUME NEW s \in Sessions, Greeting(s) PROVE TypeOK'
    <3>1. /\ fdtab' \in [Fds -> Conns \cup {NoConn}] /\ fd' \in [Sessions -> Fds \cup {-1}]
          /\ closes' \in {"ok", "failed"}
      BY <2>9 DEF Greeting, socket_close
    <3>2. state' \in [Sessions -> 0..6]
      BY <2>9 DEF Greeting, SESSION_READ, SESSION_GREETING
    <3>3. QED
      BY <2>9, <3>1, <3>2 DEF Greeting, Goto, Invoke
  <2>10. ASSUME NEW s \in Sessions, ReadLine(s) PROVE TypeOK'
    <3>1. fdtab[fd[s]] \in Conns
      BY <2>10 DEF ReadLine, Readable
    <3>2. lines' \in [Conns -> 0..MaxLines]
      BY <2>10, <3>1 DEF ReadLine
    <3>3. connected' \in {connected, [connected EXCEPT ![s] = FALSE]}
      BY <2>10 DEF ReadLine
    <3>4. connected' \in [Sessions -> BOOLEAN]
      BY <3>3
    <3>5. QED
      BY <2>10, <3>2, <3>4 DEF ReadLine, Goto
  <2>11. ASSUME NEW s \in Sessions, ReadTimeout(s) PROVE TypeOK'
    BY <2>11 DEF ReadTimeout, Goto, LoopTest, SESSION_TIMEOUT, SESSION_READ, kernel
  <2>12. ASSUME NEW s \in Sessions, ReadFailure(s) PROVE TypeOK'
    BY <2>12 DEF ReadFailure, Goto, LoopTest, kernel
  <2>13. ASSUME NEW s \in Sessions, Request(s) PROVE TypeOK'
    BY <2>13 DEF Request, HandlerEffect, Goto, Invoke, session_close, socket_close,
                 SESSION_CLOSED
  <2>14. ASSUME NEW s \in Sessions, Response(s) PROVE TypeOK'
    BY <2>14 DEF Response, HandlerEffect, Goto, LoopTest, Invoke, session_close,
                 socket_close, SESSION_CLOSED
  <2>15. ASSUME NEW s \in Sessions, EndLoop(s) PROVE TypeOK'
    BY <2>15 DEF EndLoop, Goto, Invoke, kernel
  <2>16. ASSUME NEW s \in Sessions, HandlerClose(s) PROVE TypeOK'
    BY <2>16 DEF HandlerClose, Goto, session_close, socket_close, SESSION_CLOSED
  <2>17. ASSUME NEW s \in Sessions, HandlerDestroy(s) PROVE TypeOK'
    BY <2>17 DEF HandlerDestroy, session_destroy, Goto, Invoke, kernel
  <2>18. CASE UNCHANGED vars
    BY <2>18 DEF vars
  <2>19. QED
    BY <2>1, <2>2, <2>3, <2>4, <2>5, <2>6, <2>7, <2>8, <2>9, <2>10, <2>11,
       <2>12, <2>13, <2>14, <2>15, <2>16, <2>17, <2>18
       DEF Next, MainThread, SessionThread
<1>3. QED
  BY <1>1, <1>2, PTL DEF Spec

-----------------------------------------------------------------------------
(* Who holds a session. *)

Active(s) == pc[s] \notin {"none", "exited"}

(* The main thread holds cur while it is in server_accept, a session thread *)
(* its own session, no session is held by both, and every held session is   *)
(* on the heap.  A session object that was never allocated is held by no    *)
(* thread: this is why session_new cannot disturb a running one.            *)
Ownership ==
  /\ main = "poll" <=> cur = NoSession
  /\ \A s \in Sessions :
       /\ mem[s] = "none" => pc[s] = "none" /\ cur # s
       /\ cur = s => mem[s] = "live" /\ pc[s] = "none"
       /\ cur = s /\ main \notin {"init", "accept"} => sockmem[s] = "live"
       /\ Active(s) => mem[s] = "live" /\ sockmem[s] = "live"

(* Ownership is kept by every step of every thread.                         *)
LEMMA OwnershipKept ==
  ASSUME TypeOK, Ownership, [Next]_vars
  PROVE  Ownership'
<1> USE NoneAssumption DEF TypeOK, Ownership, Active
<1>1. ASSUME NEW k \in Conns, Connect(k) \/ Hangup(k) PROVE Ownership'
  BY <1>1 DEF Connect, Hangup, session
<1>2. ASSUME NEW s \in Sessions, AcceptNew(s) PROVE Ownership'
  BY <1>2 DEF AcceptNew
<1>3. ASSUME NEW s \in Sessions, AcceptInit(s) PROVE Ownership'
  BY <1>3 DEF AcceptInit, Poll
<1>4. ASSUME NEW s \in Sessions, NEW k \in Conns, AcceptConnection(s, k) PROVE Ownership'
  <2>1. \/ main' = "spawn" /\ cur' = cur
        \/ main' = "poll" /\ cur' = NoSession
    BY <1>4 DEF AcceptConnection, Poll
  <2>2. sockmem' = [sockmem EXCEPT ![s] = "live"] /\ UNCHANGED <<pc, mem>> /\ cur = s
    BY <1>4 DEF AcceptConnection
  <2>3. QED
    BY <2>1, <2>2
<1>5. ASSUME NEW s \in Sessions, AcceptSpawn(s) PROVE Ownership'
  BY <1>5 DEF AcceptSpawn, Poll, session
<1>6. ASSUME NEW s \in Sessions, AcceptOverload(s) PROVE Ownership'
  BY <1>6 DEF AcceptOverload, Poll
<1>7. ASSUME NEW s \in Sessions, AcceptClose(s) PROVE Ownership'
  BY <1>7 DEF AcceptClose
<1>8. ASSUME NEW s \in Sessions, AcceptDestroy(s) PROVE Ownership'
  BY <1>8 DEF AcceptDestroy, session_destroy, Poll
<1>9. ASSUME NEW s \in Sessions,
             Greeting(s) \/ ReadLine(s) \/ ReadTimeout(s) \/ ReadFailure(s)
               \/ Request(s) \/ Response(s) \/ EndLoop(s) \/ HandlerClose(s)
      PROVE  Ownership'
  <2>1. Active(s) /\ UNCHANGED <<main, cur, mem, sockmem>>
    BY <1>9 DEF Greeting, ReadLine, ReadTimeout, ReadFailure, Request, Response,
                EndLoop, HandlerClose
  <2>2. \A r \in Sessions : r # s => pc'[r] = pc[r]
    BY <1>9 DEF Greeting, ReadLine, ReadTimeout, ReadFailure, Request, Response,
                EndLoop, HandlerClose, Goto
  <2>3. QED
    BY <2>1, <2>2
<1>10. ASSUME NEW s \in Sessions, HandlerDestroy(s) PROVE Ownership'
  BY <1>10 DEF HandlerDestroy, session_destroy, Goto
<1>11. CASE UNCHANGED vars
  BY <1>11 DEF vars
<1>12. QED
  BY <1>1, <1>2, <1>3, <1>4, <1>5, <1>6, <1>7, <1>8, <1>9, <1>10, <1>11
     DEF Next, MainThread, SessionThread

(* Ownership holds throughout.                                              *)
LEMMA OwnershipInvariant == Spec => []Ownership
<1>1. Init => Ownership
  BY NoneAssumption DEF Init, Ownership, Active
<1>2. TypeOK /\ Ownership /\ [Next]_vars => Ownership'
  BY OwnershipKept
<1>3. QED
  BY <1>1, <1>2, SessionTypeCorrect, PTL DEF Spec

(* No path of server_accept or session_handler, whatever fails on it, uses  *)
(* a session that has been destroyed, and no session is held by two threads.*)
THEOREM HeldSessionsLive == Spec => []HeldIsLive
<1>1. Ownership => HeldIsLive
  BY DEF Ownership, HeldIsLive, Held, Active
<1>2. QED
  BY <1>1, OwnershipInvariant, PTL

-----------------------------------------------------------------------------
(* Whose connection a descriptor is. *)

(* Every descriptor stored in a session refers to the connection accepted   *)
(* for it, and no two sessions store the same one.  This is about sessions  *)
(* that no thread holds, too: otherwise accept(2) could hand out the        *)
(* descriptor of an abandoned session.                                      *)
Descriptors ==
  /\ \A s \in Sessions :
       fd[s] # -1 => conn[s] # NoConn /\ fdtab[fd[s]] = conn[s]
  /\ \A r, s \in Sessions : fd[s] # -1 /\ fd[r] = fd[s] => r = s

(* socket_close keeps Descriptors, up to the first close(2) that fails.              *)
LEMMA SocketCloseKeeps ==
  ASSUME TypeOK, Descriptors, closes' = "ok", conn' = conn,
         NEW s \in Sessions, NEW rc, socket_close(s, rc)
  PROVE  Descriptors'
<1>1. CASE UNCHANGED <<fd, fdtab>>
  BY <1>1 DEF Descriptors
<1>2. CASE /\ fd[s] # -1
           /\ fdtab' = [fdtab EXCEPT ![fd[s]] = NoConn]
           /\ fd' = [fd EXCEPT ![s] = -1]
  <2>1. ASSUME NEW r \in Sessions, fd'[r] # -1
        PROVE  r # s /\ fd'[r] = fd[r] /\ fdtab'[fd[r]] = fdtab[fd[r]]
    BY <1>2, <2>1 DEF TypeOK, Descriptors
  <2>2. QED
    BY <2>1 DEF Descriptors
<1>3. QED
  BY <1>1, <1>2 DEF socket_close

(* So does session_close. *)
LEMMA SessionCloseKeeps ==
  ASSUME TypeOK, Descriptors, closes' = "ok", conn' = conn,
         NEW s \in Sessions, NEW rc, session_close(s, rc)
  PROVE  Descriptors'
<1>1. CASE UNCHANGED <<fd, fdtab>>
  BY <1>1 DEF Descriptors
<1>2. CASE socket_close(s, rc)
  BY <1>2, SocketCloseKeeps
<1>3. QED
  BY <1>1, <1>2 DEF session_close

(* Descriptors is kept by every step, up to the first close(2) that fails.          *)
LEMMA DescriptorsKept ==
  ASSUME TypeOK, Descriptors, closes' = "ok", [Next]_vars
  PROVE  Descriptors'
<1> USE FdAssumption, NoneAssumption
<1>1. CASE UNCHANGED <<fd, fdtab, conn>>
  BY <1>1 DEF Descriptors
<1>2. ASSUME NEW s \in Sessions, NEW k \in Conns, AcceptConnection(s, k) PROVE Descriptors'
  <2>1. CASE UNCHANGED <<fd, fdtab, conn>>
    BY <2>1, <1>1
  <2>2. ASSUME NEW f \in Fds, LowestFree(f),
               fdtab' = [fdtab EXCEPT ![f] = k], fd' = [fd EXCEPT ![s] = f],
               conn' = [conn EXCEPT ![s] = k]
        PROVE  Descriptors'
    <3>1. fdtab[f] = NoConn /\ k # NoConn /\ f # -1
      BY <2>2 DEF LowestFree, FreeFds, Fds
    <3>2. \A r \in Sessions : fd[r] # f
      BY <3>1 DEF Descriptors
    <3>3. QED
      BY <2>2, <3>1, <3>2 DEF TypeOK, Descriptors
  <2>3. QED
    BY <1>2, <2>1, <2>2 DEF AcceptConnection
<1>3. ASSUME NEW s \in Sessions, ReadFailure(s) PROVE Descriptors'
  BY <1>3 DEF ReadFailure, kernel, TypeOK, Descriptors
<1>4. ASSUME NEW s \in Sessions, Greeting(s) PROVE Descriptors'
  BY <1>4, <1>1, SocketCloseKeeps DEF Greeting
<1>5. ASSUME NEW s \in Sessions,
             AcceptClose(s) \/ HandlerClose(s) \/ Request(s) \/ Response(s)
      PROVE  Descriptors'
  <2>1. conn' = conn
    BY <1>5 DEF AcceptClose, HandlerClose, Request, Response
  <2>2. (UNCHANGED <<fd, fdtab>>) \/ \E rc \in {0, -1} : session_close(s, rc)
    BY <1>5 DEF AcceptClose, HandlerClose, Request, Response, HandlerEffect
  <2>3. QED
    BY <2>1, <2>2, <1>1, SessionCloseKeeps
<1>6. ASSUME NEW s \in Sessions,
             AcceptNew(s) \/ AcceptInit(s) \/ AcceptSpawn(s) \/ AcceptOverload(s)
               \/ AcceptDestroy(s) \/ ReadLine(s) \/ ReadTimeout(s) \/ EndLoop(s)
               \/ HandlerDestroy(s)
      PROVE  Descriptors'
  BY <1>6, <1>1 DEF AcceptNew, AcceptInit, AcceptSpawn, AcceptOverload, AcceptDestroy,
                    ReadLine, ReadTimeout, EndLoop, HandlerDestroy, kernel, session
<1>7. ASSUME NEW k \in Conns, Connect(k) \/ Hangup(k) PROVE Descriptors'
  BY <1>7, <1>1 DEF Connect, Hangup, session
<1>8. CASE UNCHANGED vars
  BY <1>8, <1>1 DEF vars
<1>9. QED
  BY <1>2, <1>3, <1>4, <1>5, <1>6, <1>7, <1>8 DEF Next, MainThread, SessionThread

(* A close(2) that has failed is not forgotten.                             *)
LEMMA FailedStays ==
  ASSUME closes = "failed", [Next]_vars
  PROVE  closes' = "failed"
<1>1. ASSUME NEW k \in Conns, Connect(k) \/ Hangup(k) PROVE closes' = "failed"
  BY <1>1 DEF Connect, Hangup
<1>2. ASSUME NEW s \in Sessions,
             AcceptNew(s) \/ AcceptInit(s) \/ AcceptSpawn(s) \/ AcceptOverload(s)
               \/ AcceptDestroy(s) \/ \E k \in Conns : AcceptConnection(s, k)
      PROVE  closes' = "failed"
  BY <1>2 DEF AcceptNew, AcceptInit, AcceptSpawn, AcceptOverload, AcceptDestroy,
              AcceptConnection, kernel
<1>3. ASSUME NEW s \in Sessions,
             ReadLine(s) \/ ReadTimeout(s) \/ ReadFailure(s) \/ EndLoop(s)
               \/ HandlerDestroy(s)
      PROVE  closes' = "failed"
  BY <1>3 DEF ReadLine, ReadTimeout, ReadFailure, EndLoop, HandlerDestroy, kernel
<1>4. ASSUME NEW s \in Sessions,
             Greeting(s) \/ AcceptClose(s) \/ HandlerClose(s) \/ Request(s) \/ Response(s)
      PROVE  closes' = "failed"
  <2>1. \A rc \in {0, -1} : session_close(s, rc) \/ socket_close(s, rc) => closes' = "failed"
    BY DEF session_close, socket_close
  <2>2. QED
    BY <1>4, <2>1 DEF Greeting, AcceptClose, HandlerClose, Request, Response, HandlerEffect
<1>5. CASE UNCHANGED vars
  BY <1>5 DEF vars
<1>6. QED
  BY <1>1, <1>2, <1>3, <1>4, <1>5 DEF Next, MainThread, SessionThread

(* As long as close(2) succeeds, a session in use reads, writes and closes  *)
(* its own connection only, whatever the protocol's handlers do and however *)
(* the other threads close and accept connections in between.               *)
THEOREM OwnDescriptorsOnly == Spec => []DescriptorOwned
<1> DEFINE Sound == closes = "ok" => Descriptors
<1>1. Init => Sound
  BY DEF Init, Descriptors
<1>2. TypeOK /\ Sound /\ [Next]_vars => Sound'
  <2>1. SUFFICES ASSUME TypeOK, Sound, [Next]_vars, closes' = "ok" PROVE Descriptors'
    OBVIOUS
  <2>2. closes # "failed"
    BY <2>1, FailedStays
  <2>3. closes = "ok"
    BY <2>1, <2>2 DEF TypeOK
  <2>4. Descriptors
    BY <2>1, <2>3
  <2>5. QED
    BY <2>1, <2>4, DescriptorsKept
<1>3. Sound => DescriptorOwned
  BY DEF Descriptors, DescriptorOwned
<1>4. QED
  BY <1>1, <1>2, <1>3, SessionTypeCorrect, PTL DEF Spec

-----------------------------------------------------------------------------
(* Which sessions get a thread. *)

(* A descriptor is below the limit while a thread serves it.  That accept(2)*)
(* has succeeded is known from the moment server_accept goes on.            *)
Limit ==
  /\ main = "spawn" => fd[cur] # -1
  /\ \A s \in Sessions : Active(s) /\ fd[s] # -1 => fd[s] < MaxClientCount

(* Limit is kept: no step of a session thread touches the session of the    *)
(* main thread, or stores another descriptor than -1.                       *)
LEMMA LimitKept ==
  ASSUME TypeOK, Ownership, Limit, [Next]_vars
  PROVE  Limit'
<1> USE FdAssumption, NoneAssumption DEF Active
<1>1. ASSUME NEW k \in Conns, Connect(k) \/ Hangup(k) PROVE Limit'
  BY <1>1 DEF Connect, Hangup, session, Limit
<1>2. ASSUME NEW s \in Sessions, AcceptNew(s) \/ AcceptInit(s) \/ AcceptOverload(s) \/ AcceptDestroy(s)
      PROVE Limit'
  BY <1>2 DEF AcceptNew, AcceptInit, AcceptOverload, AcceptDestroy, Poll, Limit
<1>3. ASSUME NEW s \in Sessions, NEW k \in Conns, AcceptConnection(s, k) PROVE Limit'
  <2>1. pc' = pc /\ cur = s /\ ~Active(s) /\ \A r \in Sessions : r # s => fd'[r] = fd[r]
    BY <1>3 DEF AcceptConnection, Ownership, TypeOK
  <2>2. main' = "spawn" => cur' = s /\ fd'[s] # -1
    BY <1>3 DEF AcceptConnection, Poll, TypeOK, Fds
  <2>3. QED
    BY <2>1, <2>2 DEF Limit
<1>4. ASSUME NEW s \in Sessions, AcceptSpawn(s) PROVE Limit'
  <2>1. main' # "spawn" /\ fd' = fd
    BY <1>4 DEF AcceptSpawn, Poll, session
  <2>2. pc' = pc \/ (pc' = [pc EXCEPT ![s] = "greeting"] /\ ~OverLimit(s))
    BY <1>4 DEF AcceptSpawn
  <2>3. QED
    BY <2>1, <2>2 DEF Limit, OverLimit, TypeOK, Fds
<1>5. ASSUME NEW s \in Sessions, AcceptClose(s) PROVE Limit'
  <2>1. main' # "spawn" /\ pc' = pc /\ cur = s
    BY <1>5 DEF AcceptClose
  <2>2. \A r \in Sessions : r # s => fd'[r] = fd[r]
    BY <1>5 DEF AcceptClose, session_close, socket_close, TypeOK
  <2>3. QED
    BY <2>1, <2>2 DEF Limit, Ownership
<1>6. ASSUME NEW s \in Sessions, SessionThread(s) PROVE Limit'
  <2>1. Active(s) /\ UNCHANGED <<main, cur>>
    BY <1>6 DEF SessionThread, Greeting, ReadLine, ReadTimeout, ReadFailure, Request,
                Response, EndLoop, HandlerClose, HandlerDestroy
  <2>2. \A r \in Sessions : r # s => pc'[r] = pc[r]
    BY <1>6 DEF SessionThread, Greeting, ReadLine, ReadTimeout, ReadFailure, Request,
                Response, EndLoop, HandlerClose, HandlerDestroy, Goto, TypeOK
  <2>3. (UNCHANGED fd) \/ fd' = [fd EXCEPT ![s] = -1]
    BY <1>6 DEF SessionThread, Greeting, ReadLine, ReadTimeout, ReadFailure, Request,
                Response, EndLoop, HandlerClose, HandlerDestroy, HandlerEffect,
                session_close, socket_close
  <2>4. cur # s
    BY <2>1 DEF Ownership
  <2>5. main' = "spawn" => fd'[cur'] # -1
    <3>1. main = "spawn" => cur \in Sessions
      BY DEF TypeOK, Ownership
    <3>2. main = "spawn" => fd'[cur] = fd[cur]
      BY <2>3, <2>4, <3>1 DEF TypeOK
    <3>3. QED
      BY <2>1, <3>2 DEF Limit
  <2>6. QED
    BY <2>1, <2>2, <2>3, <2>5 DEF Limit, TypeOK
<1>7. CASE UNCHANGED vars
  BY <1>7 DEF vars, Limit
<1>8. QED
  BY <1>1, <1>2, <1>3, <1>4, <1>5, <1>6, <1>7 DEF Next, MainThread

(* No session thread serves a descriptor at or above MAX_CLIENT_COUNT, and  *)
(* the test for a negative descriptor in server_accept never succeeds.      *)
THEOREM ClientLimitHolds == Spec => []WithinClientLimit
<1>1. Init => Limit
  BY DEF Init, Limit, Active
<1>2. TypeOK /\ Ownership /\ Limit /\ [Next]_vars => Limit'
  BY LimitKept
<1>3. Limit => WithinClientLimit
  BY DEF Limit, WithinClientLimit, Active
<1>4. QED
  BY <1>1, <1>2, <1>3, SessionTypeCorrect, OwnershipInvariant, PTL DEF Spec

-----------------------------------------------------------------------------
(* What the session controller has been told. *)

(* The hooks invoked so far, by the place where the session is.             *)
HookOrder ==
  \A s \in Sessions :
    /\ mem[s] = "none" => hooks[s] = {}
    /\ cur = s /\ main = "init" => hooks[s] = {}
    /\ cur = s /\ main \in {"accept", "spawn"} => hooks[s] = {"init"}
    /\ cur = s /\ main \in {"overload", "close", "destroy"} =>
         "init" \in hooks[s] /\ "destroy" \notin hooks[s]
    /\ Active(s) => /\ "init" \in hooks[s]
                    /\ hooks[s] \cap {"destroy", "overload"} = {}

(* The effect of a step of a session thread on what HookOrder relates.      *)
LEMMA ThreadFrame ==
  ASSUME TypeOK, Ownership, NEW s \in Sessions, SessionThread(s)
  PROVE  /\ Active(s) /\ cur # s /\ mem[s] = "live" /\ mem'[s] # "none"
         /\ UNCHANGED <<main, cur>>
         /\ \A r \in Sessions \ {s} : pc'[r] = pc[r] /\ mem'[r] = mem[r]
<1> USE DEF TypeOK, Ownership, Active, Goto
<1>1. CASE HandlerDestroy(s)
  BY <1>1 DEF HandlerDestroy, session_destroy
<1>2. CASE ~HandlerDestroy(s)
  <2>1. Active(s) /\ UNCHANGED <<main, cur, mem>>
    BY <1>2 DEF SessionThread, Greeting, ReadLine, ReadTimeout, ReadFailure, Request,
                Response, EndLoop, HandlerClose
  <2>2. \A r \in Sessions \ {s} : pc'[r] = pc[r]
    BY <1>2 DEF SessionThread, Greeting, ReadLine, ReadTimeout, ReadFailure, Request,
                Response, EndLoop, HandlerClose
  <2>3. QED
    BY <2>1, <2>2
<1>3. QED
  BY <1>1, <1>2

(* The hooks a step of a session thread can invoke, and when it is over.    *)
LEMMA ThreadHooks ==
  ASSUME TypeOK, NEW s \in Sessions, SessionThread(s)
  PROVE  \E h \in {"request", "response", "timeout", "destroy"} :
           /\ hooks' = hooks \/ hooks' = [hooks EXCEPT ![s] = @ \cup {h}]
           /\ h = "destroy" => pc'[s] = "exited"
<1>1. CASE HandlerDestroy(s)
  BY <1>1 DEF HandlerDestroy, session_destroy, Invoke, Goto, TypeOK
<1>2. CASE Greeting(s) \/ Response(s)
  BY <1>2 DEF Greeting, Response, Invoke
<1>3. CASE Request(s)
  BY <1>3 DEF Request, Invoke
<1>4. CASE EndLoop(s)
  BY <1>4 DEF EndLoop, Invoke
<1>5. CASE ReadLine(s) \/ ReadTimeout(s) \/ ReadFailure(s) \/ HandlerClose(s)
  BY <1>5 DEF ReadLine, ReadTimeout, ReadFailure, HandlerClose
<1>6. QED
  BY <1>1, <1>2, <1>3, <1>4, <1>5 DEF SessionThread

(* Each step keeps HookOrder and invokes hooks in the order of HookProtocol.*)
LEMMA HookOrderKept ==
  ASSUME TypeOK, Ownership, HookOrder, [Next]_vars
  PROVE  HookOrder' /\ [HookStep]_vars
<1> USE NoneAssumption
<1>1. ASSUME NEW k \in Conns, Connect(k) \/ Hangup(k) PROVE HookOrder' /\ HookStep
  BY <1>1 DEF Connect, Hangup, session, HookOrder, HookStep, Active
<1>2. ASSUME NEW s \in Sessions, AcceptNew(s) PROVE HookOrder' /\ HookStep
  BY <1>2 DEF AcceptNew, TypeOK, Ownership, HookOrder, HookStep, Active
<1>3. ASSUME NEW s \in Sessions, AcceptInit(s) PROVE HookOrder' /\ HookStep
  BY <1>3 DEF AcceptInit, Invoke, Poll, TypeOK, Ownership, HookOrder, HookStep, Active
<1>4. ASSUME NEW s \in Sessions, NEW k \in Conns, AcceptConnection(s, k)
      PROVE HookOrder' /\ HookStep
  <2>1. /\ UNCHANGED <<pc, mem, hooks>> /\ main = "accept" /\ cur = s
        /\ \/ main' = "spawn" /\ cur' = cur
           \/ main' = "poll" /\ cur' = NoSession
    BY <1>4 DEF AcceptConnection, Poll
  <2>2. QED
    BY <2>1 DEF HookOrder, HookStep, Active
<1>5. ASSUME NEW s \in Sessions, AcceptSpawn(s) PROVE HookOrder' /\ HookStep
  BY <1>5 DEF AcceptSpawn, Poll, session, TypeOK, Ownership, HookOrder, HookStep, Active
<1>6. ASSUME NEW s \in Sessions, AcceptOverload(s) PROVE HookOrder' /\ HookStep
  BY <1>6 DEF AcceptOverload, Invoke, Poll, TypeOK, Ownership, HookOrder, HookStep, Active
<1>7. ASSUME NEW s \in Sessions, AcceptClose(s) PROVE HookOrder' /\ HookStep
  BY <1>7 DEF AcceptClose, TypeOK, Ownership, HookOrder, HookStep, Active
<1>8. ASSUME NEW s \in Sessions, AcceptDestroy(s) PROVE HookOrder' /\ HookStep
  BY <1>8 DEF AcceptDestroy, session_destroy, Invoke, Poll, TypeOK, Ownership,
              HookOrder, HookStep, Active
<1>9. ASSUME NEW s \in Sessions, SessionThread(s) PROVE HookOrder' /\ HookStep
  <2>1. /\ Active(s) /\ cur # s /\ mem'[s] # "none" /\ UNCHANGED <<main, cur>>
        /\ \A r \in Sessions \ {s} : pc'[r] = pc[r] /\ mem'[r] = mem[r]
    BY <1>9, ThreadFrame
  <2>2. PICK h \in {"request", "response", "timeout", "destroy"} :
           /\ hooks' = hooks \/ hooks' = [hooks EXCEPT ![s] = @ \cup {h}]
           /\ h = "destroy" => pc'[s] = "exited"
    BY <1>9, ThreadHooks
  <2>3. \A r \in Sessions \ {s} : hooks'[r] = hooks[r]
    BY <2>2 DEF TypeOK
  <2>4. hooks'[s] = hooks[s] \/ hooks'[s] = hooks[s] \cup {h}
    BY <2>2 DEF TypeOK
  <2>5. /\ "init" \in hooks[s]
        /\ "destroy" \notin hooks[s]
        /\ "overload" \notin hooks[s]
    BY <2>1 DEF HookOrder
  <2>6. HookStep
    BY <2>3, <2>4, <2>5 DEF HookStep
  <2>7. Active(s)' => "init" \in hooks'[s] /\ hooks'[s] \cap {"destroy", "overload"} = {}
    BY <2>2, <2>4, <2>5 DEF Active
  <2>8. HookOrder'
    BY <2>1, <2>3, <2>7 DEF HookOrder, Active
  <2>9. QED
    BY <2>6, <2>8
<1>10. CASE UNCHANGED vars
  BY <1>10 DEF vars, HookOrder, Active
<1>11. QED
  BY <1>1, <1>2, <1>3, <1>4, <1>5, <1>6, <1>7, <1>8, <1>9, <1>10 DEF Next, MainThread

(* The controller sees init before, and destroy after, every other hook of  *)
(* a session, and never serves a session that it was told is an overload.   *)
THEOREM HooksInOrder == Spec => HookProtocol
<1>1. Init => HookOrder
  BY NoneAssumption DEF Init, HookOrder, Active
<1>2. TypeOK /\ Ownership /\ HookOrder /\ [Next]_vars => HookOrder' /\ [HookStep]_vars
  BY HookOrderKept
<1>3. QED
  BY <1>1, <1>2, SessionTypeCorrect, OwnershipInvariant, PTL DEF Spec, HookProtocol
-----------------------------------------------------------------------------
(* What a server that does not run out of anything leaves behind. *)

(* The only failure is that of pthread_create(3), which server_accept       *)
(* handles; every client that ever connects finds a free descriptor below   *)
(* the limit; and no handler stores SESSION_UNDEF, or SESSION_CLOSED without*)
(* calling session_close.                                                   *)
Provisioned ==
  /\ MayFail \subseteq {"thread"}
  /\ QuitStates \cap {SESSION_UNDEF, SESSION_CLOSED} = {}
  /\ FdCount <= MaxClientCount
  /\ IsFiniteSet(Conns) /\ Cardinality(Conns) <= FdCount

(* No connection is new once it is queued or accepted, or both at a time,   *)
(* and none has two descriptors: so there are at most as many descriptors   *)
(* in use as connections.                                                   *)
Distinct ==
  /\ \A k \in backlog : peer[k] # "new"
  /\ \A f \in Fds : fdtab[f] # NoConn => peer[fdtab[f]] # "new" /\ fdtab[f] \notin backlog
  /\ \A f, g \in Fds : fdtab[f] # NoConn /\ fdtab[f] = fdtab[g] => f = g

(* A session whose descriptor session_close would not close has none.       *)
Closable(s) ==
  /\ mem[s] = "none" => fd[s] = -1
  /\ Held(s) => state[s] # SESSION_UNDEF /\ (state[s] = SESSION_CLOSED => fd[s] = -1)
  /\ cur = s /\ main # "destroy" => state[s] = SESSION_OPEN
  /\ cur = s /\ main \in {"init", "accept", "destroy"} => fd[s] = -1
  /\ pc[s] = "destroy" => fd[s] = -1

(* Every open descriptor is that of a session some thread holds.            *)
Covered ==
  \A f \in Fds : fdtab[f] # NoConn => \E s \in Sessions : Held(s) /\ fd[s] = f

(* The inductive strengthening of NoOrphan.                                 *)
Tidy ==
  /\ closes = "ok" /\ Descriptors /\ Distinct /\ Covered
  /\ \A s \in Sessions : Closable(s) /\ mem[s] # "stripped" /\ (mem[s] = "live" => Held(s))

(* accept(2) finds a free descriptor: each connection has one at most, and  *)
(* the one that is queued has none.                                         *)
LEMMA DescriptorLeft ==
  ASSUME Provisioned, TypeOK, Distinct, NEW k \in backlog
  PROVE  FreeFds # {}
<1> USE FdAssumption
<1> SUFFICES ASSUME FreeFds = {} PROVE FALSE
  OBVIOUS
<1> DEFINE Rest == Conns \ {k}
<1>1. fdtab \in [Fds -> Rest]
  <2>1. \A f \in Fds : fdtab[f] # NoConn
    BY DEF FreeFds
  <2>2. \A f \in Fds : fdtab[f] \in Rest
    BY <2>1 DEF TypeOK, Distinct
  <2>3. QED
    BY <2>2 DEF TypeOK
<1>2. IsFiniteSet(Conns) /\ Cardinality(Conns) \in Nat /\ k \in Conns
  BY FS_CardinalityType DEF Provisioned, TypeOK
<1>3. IsFiniteSet(Rest) /\ Cardinality(Rest) = Cardinality(Conns) - 1
  BY <1>2, FS_RemoveElement
<1>4. IsFiniteSet(Fds) /\ Cardinality(Fds) = FdCount
  BY FS_Interval DEF Fds
<1>5. Cardinality(Rest) < Cardinality(Fds)
  BY <1>2, <1>3, <1>4 DEF Provisioned
<1> HIDE DEF Rest
<1>6. \E f, g \in Fds : f # g /\ fdtab[f] = fdtab[g]
  BY <1>1, <1>3, <1>4, <1>5, FS_PigeonHole
<1>7. QED
  BY <1>6 DEF Distinct, FreeFds

(* The descriptor of s, if it has one, is closed and forgotten.             *)
Shut(s) ==
  /\ fd' = [fd EXCEPT ![s] = -1]
  /\ fdtab' = [f \in Fds |-> IF f = fd[s] THEN NoConn ELSE fdtab[f]]

(* socket_close does that, and succeeds.                                    *)
LEMMA SocketCloses ==
  ASSUME Provisioned, TypeOK, NEW s \in Sessions, NEW rc, socket_close(s, rc)
  PROVE  rc = 0 /\ closes' = closes /\ Shut(s)
<1>1. "close" \notin MayFail
  BY DEF Provisioned
<1>2. -1 \notin Fds
  BY FdAssumption DEF Fds
<1>3. CASE fd[s] = -1 /\ rc = 0 /\ UNCHANGED <<fd, fdtab, closes>>
  BY <1>2, <1>3 DEF Shut, TypeOK
<1>4. CASE /\ fd[s] # -1 /\ rc = 0 /\ UNCHANGED closes
           /\ fdtab' = [fdtab EXCEPT ![fd[s]] = NoConn] /\ fd' = [fd EXCEPT ![s] = -1]
  BY <1>4 DEF Shut, TypeOK
<1>5. QED
  BY <1>1, <1>3, <1>4 DEF socket_close

(* session_close on a session in use succeeds and leaves no descriptor.     *)
LEMMA SessionCloses ==
  ASSUME Provisioned, TypeOK, NEW s \in Sessions, Held(s), Closable(s),
         NEW rc, session_close(s, rc)
  PROVE  rc = 0 /\ closes' = closes /\ Shut(s) /\ state' = [state EXCEPT ![s] = SESSION_CLOSED]
<1>1. -1 \notin Fds
  BY FdAssumption DEF Fds
<1>2. state[s] # SESSION_UNDEF
  BY DEF Closable
<1>3. CASE state[s] = SESSION_CLOSED /\ rc = 0 /\ UNCHANGED <<state, fd, fdtab, closes>>
  <2>1. fd[s] = -1
    BY <1>3 DEF Closable
  <2>2. QED
    BY <1>1, <1>3, <2>1 DEF Shut, TypeOK
<1>4. CASE /\ socket_close(s, rc)
           /\ state' = [state EXCEPT ![s] = IF rc = 0 THEN SESSION_CLOSED ELSE @]
  <2>1. rc = 0 /\ closes' = closes /\ Shut(s)
    BY <1>4, SocketCloses
  <2>2. QED
    BY <1>4, <2>1
<1>5. QED
  BY <1>2, <1>3, <1>4 DEF session_close

(* A handler of the protocol leaves the session open, or closes it.         *)
LEMMA HandlerCloses ==
  ASSUME Provisioned, TypeOK, NEW s \in Sessions, Held(s), Closable(s), HandlerEffect(s)
  PROVE  /\ closes' = closes
         /\ (UNCHANGED <<fd, fdtab>>) \/ Shut(s)
         /\ \A r \in Sessions \ {s} : state'[r] = state[r]
         /\ state'[s] # SESSION_UNDEF
         /\ state'[s] = SESSION_CLOSED => fd'[s] = -1
<1>1. CASE UNCHANGED <<state, fd, fdtab, closes>>
  BY <1>1 DEF Closable
<1>2. CASE /\ \E q \in QuitStates : state' = [state EXCEPT ![s] = q]
           /\ UNCHANGED <<fd, fdtab, closes>>
  BY <1>2 DEF TypeOK, Provisioned
<1>3. CASE \E rc \in {0, -1} : session_close(s, rc)
  <2>1. closes' = closes /\ Shut(s) /\ state' = [state EXCEPT ![s] = SESSION_CLOSED]
    BY <1>3, SessionCloses
  <2>2. fd'[s] = -1
    BY <2>1 DEF Shut, TypeOK
  <2>3. QED
    BY <2>1, <2>2 DEF TypeOK, SESSION_UNDEF, SESSION_CLOSED
<1>4. QED
  BY <1>1, <1>2, <1>3 DEF HandlerEffect

(* What a step of a session thread does to its own session.                 *)
LEMMA ThreadCloses ==
  ASSUME Provisioned, TypeOK, Ownership, Tidy, NEW s \in Sessions, SessionThread(s)
  PROVE  /\ closes' = "ok" /\ UNCHANGED <<peer, backlog>>
         /\ (UNCHANGED <<fd, fdtab>>) \/ Shut(s)
         /\ \A r \in Sessions \ {s} : state'[r] = state[r]
         /\ state'[s] # SESSION_UNDEF
         /\ state'[s] = SESSION_CLOSED => fd'[s] = -1
         /\ pc'[s] \in {"destroy", "exited"} => fd'[s] = -1
         /\ mem'[s] = IF pc'[s] = "exited" THEN "freed" ELSE "live"
<1> USE DEF Goto
<1>0. Active(s) /\ Held(s) /\ Closable(s) /\ mem[s] = "live" /\ closes = "ok"
  BY ThreadFrame DEF Active, Held, Tidy
<1>1. -1 \notin Fds
  BY FdAssumption DEF Fds
<1>2. /\ MayFail \cap {"greeting", "destroy"} = {}
      /\ state[s] # SESSION_UNDEF /\ (state[s] = SESSION_CLOSED => fd[s] = -1)
  BY <1>0 DEF Closable, Provisioned
<1>3. \A st : LoopTest(st) \in {"read", "ended"}
  BY DEF LoopTest
<1>4. CASE Greeting(s)
  <2>1. closes' = "ok" /\ ((UNCHANGED <<fd, fdtab>>) \/ Shut(s))
    BY <1>0, <1>4, SocketCloses DEF Greeting
  <2>2. /\ state' = [state EXCEPT ![s] = SESSION_READ]
        /\ pc' = [pc EXCEPT ![s] = "read"]
        /\ UNCHANGED <<peer, backlog, mem>>
    BY <1>2, <1>4 DEF Greeting
  <2>3. QED
    BY <1>0, <2>1, <2>2 DEF TypeOK, SESSION_READ, SESSION_UNDEF, SESSION_CLOSED
<1>5. CASE ReadLine(s) \/ EndLoop(s)
  BY <1>0, <1>2, <1>5 DEF ReadLine, EndLoop, TypeOK, kernel
<1>6. CASE ReadTimeout(s)
  BY <1>0, <1>3, <1>6 DEF ReadTimeout, TypeOK, kernel, SESSION_TIMEOUT, SESSION_UNDEF, SESSION_CLOSED
<1>7. CASE ReadFailure(s)
  <2>1. ~Readable(s) => fd[s] = -1
    BY DEF Tidy, Descriptors, Readable
  <2>2. UNCHANGED <<peer, backlog, closes, fdtab, fd, state, mem>>
    BY <1>7, <2>1 DEF ReadFailure, TypeOK, kernel
  <2>3. pc'[s] \in {"read", "ended"}
    BY <1>3, <1>7 DEF ReadFailure, TypeOK
  <2>4. QED
    BY <1>0, <1>2, <2>2, <2>3
<1>8. CASE Request(s) \/ Response(s)
  <2>1. HandlerEffect(s) /\ UNCHANGED <<peer, backlog, mem>>
    BY <1>8 DEF Request, Response
  <2>2. pc'[s] \in {"response", "read", "ended"}
    BY <1>3, <1>8 DEF Request, Response, TypeOK
  <2>3. QED
    BY <1>0, <2>1, <2>2, HandlerCloses
<1>9. CASE HandlerClose(s)
  <2>1. PICK rc \in {0, -1} : session_close(s, rc)
    BY <1>9 DEF HandlerClose
  <2>2. closes' = closes /\ Shut(s) /\ state' = [state EXCEPT ![s] = SESSION_CLOSED]
    BY <1>0, <2>1, SessionCloses
  <2>3. ~session_close(s, -1)
    BY <1>0, SessionCloses
  <2>4. pc' = [pc EXCEPT ![s] = "destroy"] /\ UNCHANGED <<peer, backlog, mem>>
    BY <1>9, <2>3 DEF HandlerClose
  <2>5. fd'[s] = -1
    BY <2>2 DEF Shut, TypeOK
  <2>6. QED
    BY <1>0, <2>2, <2>4, <2>5 DEF TypeOK, SESSION_UNDEF, SESSION_CLOSED
<1>10. CASE HandlerDestroy(s)
  <2>1. fd[s] = -1
    BY <1>0, <1>10 DEF HandlerDestroy, Closable
  <2>2. mem' = [mem EXCEPT ![s] = "freed"]
    BY <1>2, <1>10 DEF HandlerDestroy, session_destroy
  <2>3. QED
    BY <1>0, <1>2, <1>10, <2>1, <2>2 DEF HandlerDestroy, TypeOK, kernel
<1>11. QED
  BY <1>4, <1>5, <1>6, <1>7, <1>8, <1>9, <1>10 DEF SessionThread

(* Closing a descriptor leaves the other ones covered and distinct, if no   *)
(* session is let go before it has no descriptor.                           *)
LEMMA ShutKeeps ==
  ASSUME TypeOK, Distinct, Covered, NEW s \in Sessions,
         (UNCHANGED <<fd, fdtab>>) \/ Shut(s), UNCHANGED <<peer, backlog>>,
         \A r \in Sessions : Held(r) => Held(r)' \/ fd'[r] = -1
  PROVE  Distinct' /\ Covered'
<1>1. -1 \notin Fds
  BY FdAssumption DEF Fds
<1>2. \A f \in Fds : fdtab'[f] # NoConn => fdtab'[f] = fdtab[f]
  BY DEF Shut
<1>3. Distinct'
  BY <1>2 DEF Distinct
<1>4. ASSUME NEW f \in Fds, fdtab'[f] # NoConn
      PROVE  \E r \in Sessions : Held(r)' /\ fd'[r] = f
  <2>1. PICK r \in Sessions : Held(r) /\ fd[r] = f
    BY <1>2, <1>4 DEF Covered
  <2>2. fd'[r] = f
    BY <1>4, <2>1 DEF Shut, TypeOK
  <2>3. QED
    BY <1>1, <2>1, <2>2
<1>5. QED
  BY <1>3, <1>4 DEF Covered

(* Tidy is kept by every step of every thread.                              *)
LEMMA TidyKept ==
  ASSUME Provisioned, TypeOK, Ownership, Limit, Tidy, [Next]_vars
  PROVE  Tidy'
<1> USE FdAssumption, NoneAssumption DEF Active
<1>1. -1 \notin Fds /\ MayFail \subseteq {"thread"}
  BY DEF Fds, Provisioned
<1>2. closes' = "ok" => Descriptors'
  BY DescriptorsKept DEF Tidy
<1>3. ASSUME NEW s \in Sessions, closes' = "ok", UNCHANGED <<peer, backlog>>,
             (UNCHANGED <<fd, fdtab>>) \/ Shut(s),
             \A r \in Sessions : Held(r) => Held(r)' \/ fd'[r] = -1,
             \A r \in Sessions : Closable(r)' /\ mem'[r] # "stripped" /\ (mem'[r] = "live" => Held(r)')
      PROVE  Tidy'
  BY <1>2, <1>3, ShutKeeps DEF Tidy
<1>4. ASSUME NEW k \in Conns, Connect(k) PROVE Tidy'
  <2>1. UNCHANGED <<closes, main, cur, pc, mem, state, fd, fdtab>>
    BY <1>4 DEF Connect, session
  <2>2. Distinct'
    <3>1. peer' = [peer EXCEPT ![k] = "open"] /\ backlog' = backlog \cup {k} /\ peer[k] = "new"
      BY <1>4 DEF Connect
    <3>2. \A f \in Fds : fdtab[f] # NoConn => fdtab[f] # k /\ fdtab[f] \in Conns
      BY <3>1 DEF Tidy, Distinct, TypeOK
    <3>3. QED
      BY <2>1, <3>1, <3>2 DEF Tidy, Distinct, TypeOK
  <2>3. QED
    BY <1>2, <2>1, <2>2 DEF Tidy, Covered, Held, Closable
<1>5. ASSUME NEW k \in Conns, Hangup(k) PROVE Tidy'
  <2>1. UNCHANGED <<closes, main, cur, pc, mem, state, fd, fdtab>>
    BY <1>5 DEF Hangup, session
  <2>2. Distinct'
    BY <1>5 DEF Hangup, Tidy, Distinct, TypeOK
  <2>3. QED
    BY <1>2, <2>1, <2>2 DEF Tidy, Covered, Held, Closable
<1>6. ASSUME NEW s \in Sessions, AcceptNew(s) PROVE Tidy'
  <2>1. /\ main = "poll" /\ mem[s] = "none" /\ mem' = [mem EXCEPT ![s] = "live"]
        /\ state' = [state EXCEPT ![s] = SESSION_OPEN] /\ main' = "init" /\ cur' = s
        /\ UNCHANGED <<peer, backlog, closes, pc, fd, fdtab>>
    BY <1>1, <1>6 DEF AcceptNew, kernel
  <2>2. cur = NoSession /\ fd[s] = -1
    BY <2>1 DEF Ownership, Tidy, Closable
  <2>3. \A r \in Sessions : Held(r) => Held(r)' /\ r # s
    BY <2>1, <2>2 DEF Held, Ownership
  <2>4. Closable(s)' /\ mem'[s] = "live" /\ Held(s)'
    BY <2>1, <2>2 DEF Closable, Held, Ownership, TypeOK, SESSION_OPEN, SESSION_UNDEF, SESSION_CLOSED
  <2>5. \A r \in Sessions \ {s} :
           Closable(r)' /\ mem'[r] # "stripped" /\ (mem'[r] = "live" => Held(r)')
    BY <2>1, <2>2 DEF Tidy, Closable, Held, TypeOK
  <2>6. QED
    BY <1>3, <2>1, <2>3, <2>4, <2>5 DEF Tidy
<1>7. ASSUME NEW s \in Sessions, AcceptInit(s) \/ AcceptOverload(s) PROVE Tidy'
  <2>1. /\ cur = s
        /\ (main = "init" /\ main' = "accept") \/ (main = "overload" /\ main' = "close")
        /\ UNCHANGED <<peer, backlog, closes, pc, fd, fdtab, cur, mem, state>>
    BY <1>1, <1>7 DEF AcceptInit, AcceptOverload, kernel
  <2>2. \A r \in Sessions : Held(r)' = Held(r) /\ (Closable(r) => Closable(r)')
    BY <2>1 DEF Held, Closable
  <2>3. QED
    BY <1>3, <2>1, <2>2 DEF Tidy
<1>8. ASSUME NEW s \in Sessions, NEW k \in Conns, AcceptConnection(s, k) PROVE Tidy'
  <2>1. FreeFds # {} /\ k \in backlog /\ cur = s
    BY <1>8, DescriptorLeft DEF AcceptConnection, Tidy
  <2>2. /\ cur' = s /\ main' = "spawn" /\ backlog' = backlog \ {k} /\ main = "accept"
        /\ UNCHANGED <<peer, closes, pc, mem, state>>
    BY <1>1, <1>8, <2>1 DEF AcceptConnection
  <2>3. PICK f \in Fds : /\ fdtab[f] = NoConn
                         /\ fdtab' = [fdtab EXCEPT ![f] = k] /\ fd' = [fd EXCEPT ![s] = f]
    BY <1>1, <1>8, <2>1 DEF AcceptConnection, LowestFree, FreeFds
  <2>4. Distinct'
    <3>1. \A g \in Fds \ {f} : fdtab'[g] = fdtab[g] /\ fdtab[g] # k
      BY <2>1, <2>3 DEF Tidy, Distinct, TypeOK
    <3>2. fdtab'[f] = k /\ peer[k] # "new" /\ k # NoConn
      BY <2>1, <2>3 DEF Tidy, Distinct, TypeOK
    <3>3. QED
      BY <2>2, <3>1, <3>2 DEF Tidy, Distinct
  <2>5. \A r \in Sessions : Held(r)' = Held(r)
    BY <2>1, <2>2 DEF Held
  <2>6. fd[s] = -1 /\ Held(s) /\ fd'[s] = f
    BY <2>1, <2>2, <2>3 DEF Tidy, Closable, Held, TypeOK
  <2>7. ASSUME NEW g \in Fds, fdtab'[g] # NoConn
        PROVE  \E r \in Sessions : Held(r)' /\ fd'[r] = g
    <3>1. CASE g = f
      BY <2>5, <2>6, <3>1
    <3>2. CASE g # f
      <4>1. fdtab[g] # NoConn
        BY <2>3, <2>7, <3>2 DEF TypeOK
      <4>2. PICK r \in Sessions : Held(r) /\ fd[r] = g
        BY <4>1 DEF Tidy, Covered
      <4>3. fd'[r] = g
        BY <1>1, <2>3, <2>6, <4>2 DEF TypeOK
      <4>4. QED
        BY <2>5, <4>2, <4>3
    <3>3. QED
      BY <3>1, <3>2
  <2>8. \A r \in Sessions : Closable(r)'
    <3>1. Closable(s)'
      BY <2>1, <2>2 DEF Tidy, Closable, Ownership, SESSION_OPEN, SESSION_UNDEF, SESSION_CLOSED
    <3>2. ASSUME NEW r \in Sessions \ {s} PROVE Closable(r)'
      <4>1. fd'[r] = fd[r] /\ cur # r
        BY <2>1, <2>3 DEF TypeOK
      <4>2. QED
        BY <2>1, <2>2, <2>5, <4>1 DEF Tidy, Closable
    <3>3. QED
      BY <3>1, <3>2
  <2>9. QED
    BY <1>2, <2>2, <2>4, <2>5, <2>7, <2>8 DEF Tidy, Covered
<1>9. ASSUME NEW s \in Sessions, AcceptSpawn(s) PROVE Tidy'
  <2>1. ~OverLimit(s)
    BY <1>9 DEF AcceptSpawn, OverLimit, Limit, TypeOK, Fds, Provisioned
  <2>2. /\ cur = s /\ main = "spawn" /\ main' # "spawn"
        /\ UNCHANGED <<peer, backlog, closes, fd, fdtab, mem, state>>
        /\ \/ pc' = [pc EXCEPT ![s] = "greeting"] /\ main' = "poll" /\ cur' = NoSession
           \/ main' = "overload" /\ UNCHANGED <<cur, pc>>
    BY <1>9, <2>1 DEF AcceptSpawn, Poll, kernel, session
  <2>3. \A r \in Sessions : Held(r)' = Held(r)
    BY <2>2 DEF Held, TypeOK, Ownership
  <2>4. \A r \in Sessions : Closable(r)'
    <3>1. Closable(s)'
      BY <2>2, <2>3 DEF Tidy, Closable, Ownership, TypeOK
    <3>2. ASSUME NEW r \in Sessions \ {s} PROVE Closable(r)'
      <4>1. pc'[r] = pc[r] /\ cur # r /\ cur' # r
        BY <2>2 DEF TypeOK
      <4>2. QED
        BY <2>2, <2>3, <4>1 DEF Tidy, Closable
    <3>3. QED
      BY <3>1, <3>2
  <2>5. QED
    BY <1>3, <2>2, <2>3, <2>4 DEF Tidy
<1>10. ASSUME NEW s \in Sessions, AcceptClose(s) PROVE Tidy'
  <2>1. /\ cur = s /\ main = "close" /\ main' = "destroy"
        /\ UNCHANGED <<peer, backlog, cur, pc, mem>>
    BY <1>10 DEF AcceptClose
  <2>2. Held(s) /\ Closable(s)
    BY <2>1 DEF Held, Tidy
  <2>3. closes' = closes /\ Shut(s) /\ state' = [state EXCEPT ![s] = SESSION_CLOSED]
    BY <1>10, <2>2, SessionCloses DEF AcceptClose
  <2>4. fd'[s] = -1 /\ \A r \in Sessions \ {s} : fd'[r] = fd[r]
    BY <2>3 DEF Shut, TypeOK
  <2>5. \A r \in Sessions : Held(r)' = Held(r)
    BY <2>1 DEF Held
  <2>6. \A r \in Sessions : Closable(r)'
    <3>1. Closable(s)'
      BY <2>1, <2>3, <2>4 DEF Closable, TypeOK, SESSION_UNDEF, SESSION_CLOSED
    <3>2. ASSUME NEW r \in Sessions \ {s} PROVE Closable(r)'
      BY <2>1, <2>3, <2>4, <2>5 DEF Tidy, Closable, TypeOK
    <3>3. QED
      BY <3>1, <3>2
  <2>7. QED
    BY <1>3, <2>1, <2>3, <2>5, <2>6 DEF Tidy
<1>11. ASSUME NEW s \in Sessions, AcceptDestroy(s) PROVE Tidy'
  <2>1. /\ cur = s /\ main = "destroy" /\ main' = "poll" /\ cur' = NoSession
        /\ mem' = [mem EXCEPT ![s] = "freed"]
        /\ UNCHANGED <<peer, backlog, closes, pc, fd, fdtab, state>>
    BY <1>1, <1>11 DEF AcceptDestroy, session_destroy, Poll, kernel
  <2>2. fd[s] = -1 /\ pc[s] = "none"
    BY <2>1 DEF Tidy, Closable, Ownership
  <2>3. \A r \in Sessions \ {s} : Held(r)' = Held(r) /\ mem'[r] = mem[r]
    BY <2>1 DEF Held, TypeOK
  <2>4. \A r \in Sessions : Closable(r)'
    <3>1. Closable(s)'
      BY <2>1, <2>2 DEF Closable, Held, TypeOK
    <3>2. ASSUME NEW r \in Sessions \ {s} PROVE Closable(r)'
      BY <2>1, <2>3 DEF Tidy, Closable
    <3>3. QED
      BY <3>1, <3>2
  <2>5. mem'[s] = "freed"
    BY <2>1 DEF TypeOK
  <2>6. QED
    BY <1>3, <2>1, <2>2, <2>3, <2>4, <2>5 DEF Tidy
<1>12. ASSUME NEW s \in Sessions, SessionThread(s) PROVE Tidy'
  <2>1. /\ Held(s) /\ cur # s /\ UNCHANGED <<main, cur>>
        /\ \A r \in Sessions \ {s} : pc'[r] = pc[r] /\ mem'[r] = mem[r]
    BY <1>12, ThreadFrame DEF Held
  <2>2. /\ closes' = "ok" /\ UNCHANGED <<peer, backlog>>
        /\ (UNCHANGED <<fd, fdtab>>) \/ Shut(s)
        /\ \A r \in Sessions \ {s} : state'[r] = state[r]
    BY <1>12, ThreadCloses
  <2>3. /\ state'[s] # SESSION_UNDEF
        /\ state'[s] = SESSION_CLOSED => fd'[s] = -1
        /\ pc'[s] \in {"destroy", "exited"} => fd'[s] = -1
        /\ mem'[s] = IF pc'[s] = "exited" THEN "freed" ELSE "live"
    BY <1>12, ThreadCloses
  <2>4. pc'[s] # "none"
    BY <1>12 DEF SessionThread, Greeting, ReadLine, ReadTimeout, ReadFailure, Request,
                 Response, EndLoop, HandlerClose, HandlerDestroy, Goto, LoopTest, TypeOK
  <2>5. \A r \in Sessions \ {s} : fd'[r] = fd[r] /\ Held(r)' = Held(r)
    BY <2>1, <2>2 DEF Shut, Held, TypeOK
  <2>6. Closable(s)' /\ mem'[s] # "stripped" /\ (mem'[s] = "live" => Held(s)')
    BY <2>1, <2>3, <2>4 DEF Closable, Held
  <2>7. ASSUME NEW r \in Sessions \ {s}
        PROVE  Closable(r)' /\ mem'[r] # "stripped" /\ (mem'[r] = "live" => Held(r)')
    BY <2>1, <2>2, <2>5 DEF Tidy, Closable
  <2>8. \A r \in Sessions : Held(r) => Held(r)' \/ fd'[r] = -1
    BY <2>3, <2>4, <2>5 DEF Held
  <2>9. QED
    BY <1>3, <2>2, <2>6, <2>7, <2>8
<1>13. CASE UNCHANGED vars
  BY <1>13 DEF vars, Tidy, Distinct, Covered, Descriptors, Held, Closable
<1>14. QED
  BY <1>4, <1>5, <1>6, <1>7, <1>8, <1>9, <1>10, <1>11, <1>12, <1>13 DEF Next, MainThread

(* A server that does not run out of descriptors or memory, whose hooks do  *)
(* not fail and whose handlers end a session the documented way, leaves     *)
(* nothing behind, on any interleaving of its threads and even if it cannot *)
(* create some of them: every session object is freed by the thread that    *)
(* had it last, and every descriptor is closed before that.                 *)
THEOREM NothingOrphaned ==
  ASSUME Provisioned
  PROVE  Spec => []NoOrphan
<1>1. Init => Tidy
  <2> SUFFICES ASSUME Init PROVE Tidy
    OBVIOUS
  <2>1. closes = "ok" /\ backlog = {} /\ \A f \in Fds : fdtab[f] = NoConn
    BY DEF Init
  <2>2. \A s \in Sessions : fd[s] = -1 /\ mem[s] = "none" /\ pc[s] = "none" /\ cur # s
    BY NoneAssumption DEF Init
  <2>3. QED
    BY <2>1, <2>2 DEF Tidy, Descriptors, Distinct, Covered, Closable, Held
<1>2. Init => Limit
  BY DEF Init, Limit, Active
<1>3. TypeOK /\ Ownership /\ Limit /\ [Next]_vars => Limit'
  BY LimitKept
<1>4. TypeOK /\ Ownership /\ Limit /\ Tidy /\ [Next]_vars => Tidy'
  BY TidyKept
<1>5. Tidy => NoOrphan
  BY DEF Tidy, Covered, NoOrphan
<1>6. QED
  BY <1>1, <1>2, <1>3, <1>4, <1>5, SessionTypeCorrect, OwnershipInvariant, PTL DEF Spec
=============================================================================
