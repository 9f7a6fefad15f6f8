--------------------------- MODULE HttpLifecycle ---------------------------
(***************************************************************************)
(* The threads of the HTTP server (src/server/http_server.cpp): callers of *)
(* start(), wait() and stop(), the accept loops start() creates, and the   *)
(* detached worker of each connection.                                     *)
(*                                                                         *)
(* One action is one access to an atomic, a mutex or a socket, with the    *)
(* local work around it.  A listening socket is created and stored, or     *)
(* exchanged for -1 and closed, in one action: only the thread that has it *)
(* knows of it in between.  Sockets are numbers that are not reused.       *)
(***************************************************************************)
EXTENDS Integers, FiniteSets

CONSTANTS Controller,      \* threads that call start(), wait() and stop()
          Conn,            \* connections; one that is closed may come again
          NoOne,           \* neither
          MaxConnections,  \* options_.max_connections
          MaxStarts,       \* bound: calls of start()
          HandlerStops     \* whether a request handler may call stop()

ASSUME ConnectionsAssumption == MaxConnections \in Nat \ {0}
ASSUME StartsAssumption == MaxStarts \in Nat \ {0}
ASSUME HandlerAssumption == HandlerStops \in BOOLEAN
ASSUME ThreadsAssumption ==
  Controller \intersect Conn = {} /\ IsFiniteSet(Conn) /\ NoOne \notin Controller \union Conn

Loop  == 1 .. MaxStarts    \* the accept thread of each start()
None  == 0                 \* no thread, no descriptor: -1 in the code
Actor == Controller \union Conn

VARIABLES
  running,       \* running_
  listenFd,      \* listen_fd_
  open,          \* listening sockets that are not closed
  lifecycle,     \* who holds lifecycle_mutex_
  handle,        \* accept_thread_: the loop it names
  active,        \* active_connections_
  workersMutex,  \* who holds workers_mutex_
  op,            \* the call each actor is in
  pc,            \* where in it
  taken,         \* the thread a stop() or wait() has moved out of accept_thread_
  loop,          \* where each accept loop is
  fd,            \* its copy of listen_fd_
  client,        \* the connection it has accepted
  seen,          \* its copy of active_connections_
  worker,        \* where the worker of each connection is
  starts,        \* calls of start() so far
  serving        \* history: a start() has succeeded and no stop() was called since

controllerVars == <<op, pc, taken>>
loopVars       == <<loop, fd, client, seen>>
lockVars       == <<lifecycle, workersMutex>>
vars == <<running, listenFd, open, lockVars, handle, active, controllerVars,
          loopVars, worker, starts, serving>>

Init ==
  /\ running = FALSE
  /\ listenFd = None
  /\ open = {}
  /\ lifecycle = NoOne
  /\ handle = None
  /\ active = 0
  /\ workersMutex = NoOne
  /\ op = [a \in Actor |-> "none"]
  /\ pc = [a \in Actor |-> "idle"]
  /\ taken = [a \in Actor |-> None]
  /\ loop = [l \in Loop |-> "none"]
  /\ fd = [l \in Loop |-> None]
  /\ client = [l \in Loop |-> NoOne]
  /\ seen = [l \in Loop |-> 0]
  /\ worker = [k \in Conn |-> "none"]
  /\ starts = 0
  /\ serving = FALSE

Goto(a, p)     == pc' = [pc EXCEPT ![a] = p]
LoopGoto(l, p) == loop' = [loop EXCEPT ![l] = p]

(* workers_finished_.notify_all(): those asleep go on to take the mutex.     *)
NotifyAll == pc' = [a \in Actor |-> IF pc[a] = "asleep" THEN "quiet_lock" ELSE pc[a]]

(* A call returns; a worker's stop() returns into its handler.               *)
Return(a) ==
  /\ op' = [op EXCEPT ![a] = "none"]
  /\ Goto(a, "idle")
  /\ taken' = [taken EXCEPT ![a] = None]
  /\ worker' = IF a \in Conn THEN [worker EXCEPT ![a] = "handle"] ELSE worker


(* start() numbers the listener and the accept thread it creates alike.      *)
NextLoop == 1 + Cardinality({l \in Loop : loop[l] # "none"})

-----------------------------------------------------------------------------
(* The calls.                                                               *)
CallStart(c) ==
  /\ pc[c] = "idle"
  /\ starts < MaxStarts
  /\ starts' = starts + 1
  /\ op' = [op EXCEPT ![c] = "start"]
  /\ Goto(c, "lock")
  /\ UNCHANGED <<running, listenFd, open, lockVars, handle, active, taken, loopVars, worker, serving>>

CallWait(c) ==
  /\ pc[c] = "idle"
  /\ op' = [op EXCEPT ![c] = "wait"]
  /\ Goto(c, "take")
  /\ UNCHANGED <<running, listenFd, open, lockVars, handle, active, taken, loopVars, worker, starts, serving>>

(* stop() from a thread of the program or from a request handler.            *)
CallStop(a) ==
  /\ pc[a] = "idle"
  /\ a \in Conn => HandlerStops /\ worker[a] = "handle"
  /\ op' = [op EXCEPT ![a] = "stop"]
  /\ Goto(a, "flag")
  /\ serving' = FALSE
  /\ worker' = IF a \in Conn THEN [worker EXCEPT ![a] = "stopping"] ELSE worker
  /\ UNCHANGED <<running, listenFd, open, lockVars, handle, active, taken, loopVars, starts>>

-----------------------------------------------------------------------------
(* start(), which holds lifecycle_mutex_ to its end.                        *)
StartLocks(c) ==
  /\ pc[c] = "lock"
  /\ lifecycle = NoOne
  /\ lifecycle' = c
  /\ Goto(c, "join")
  /\ UNCHANGED <<running, listenFd, open, workersMutex, handle, active, op, taken,
                 loopVars, worker, starts, serving>>

(* "HTTP server is already running"                                          *)
StartRefused(c) ==
  /\ pc[c] = "join"
  /\ running
  /\ lifecycle' = NoOne
  /\ Return(c)
  /\ UNCHANGED <<running, listenFd, open, workersMutex, handle, active, loopVars, starts, serving>>

StartJoins(c) ==
  /\ pc[c] = "join"
  /\ ~running
  /\ handle # None => loop[handle] = "done"
  /\ handle' = None
  /\ Goto(c, "quiet_lock")
  /\ UNCHANGED <<running, listenFd, open, lockVars, active, op, taken, loopVars, worker, starts, serving>>

(* open_listener() throws, or listen_fd_ gets the new socket.                *)
StartFails(c) ==
  /\ pc[c] = "open"
  /\ lifecycle' = NoOne
  /\ Return(c)
  /\ UNCHANGED <<running, listenFd, open, workersMutex, handle, active, loopVars, starts, serving>>

StartOpens(c) ==
  /\ pc[c] = "open"
  /\ open' = open \union {NextLoop}
  /\ listenFd' = NextLoop
  /\ Goto(c, "raise")
  /\ UNCHANGED <<running, lockVars, handle, active, op, taken, loopVars, worker, starts, serving>>

StartRaises(c) ==
  /\ pc[c] = "raise"
  /\ running' = TRUE
  /\ Goto(c, "spawn")
  /\ UNCHANGED <<listenFd, open, lockVars, handle, active, op, taken, loopVars, worker, starts, serving>>

StartSpawns(c) ==
  /\ pc[c] = "spawn"
  /\ LoopGoto(NextLoop, "top")
  /\ handle' = NextLoop
  /\ lifecycle' = NoOne
  /\ serving' = ~\E a \in Actor : op[a] = "stop"
  /\ Return(c)
  /\ UNCHANGED <<running, listenFd, open, workersMutex, active, fd, client, seen, starts>>

(* The thread cannot be created: the catch clause, in its order.             *)
SpawnFails(c) ==
  /\ pc[c] = "spawn"
  /\ running' = FALSE
  /\ Goto(c, "unopen")
  /\ UNCHANGED <<listenFd, open, lockVars, handle, active, op, taken, loopVars, worker, starts, serving>>

StartUnopens(c) ==
  /\ pc[c] = "unopen"
  /\ listenFd' = None
  /\ open' = open \ {NextLoop}
  /\ lifecycle' = NoOne
  /\ Return(c)
  /\ UNCHANGED <<running, workersMutex, handle, active, loopVars, starts, serving>>

-----------------------------------------------------------------------------
(* stop() and wait().  running_ falls first, so that the accept loop that    *)
(* the closed listener wakes sees it.                                       *)
StopFlags(a) ==
  /\ pc[a] = "flag"
  /\ running' = FALSE
  /\ Goto(a, "close")
  /\ UNCHANGED <<listenFd, open, lockVars, handle, active, op, taken, loopVars, worker, starts, serving>>

(* exchange, shutdown, close.                                               *)
ClosedByStop_NotShut(listener) == {}
ClosedByStop(listener) == {listener}

StopCloses(a) ==
  /\ pc[a] = "close"
  /\ listenFd' = None
  /\ open' = open \ ClosedByStop(listenFd)
  /\ Goto(a, "take")
  /\ UNCHANGED <<running, lockVars, handle, active, op, taken, loopVars, worker, starts, serving>>

(* The thread is moved out under lifecycle_mutex_ and joined outside it.     *)
TakeThread(a) ==
  /\ pc[a] = "take"
  /\ lifecycle = NoOne
  /\ taken' = [taken EXCEPT ![a] = handle]
  /\ handle' = None
  /\ Goto(a, "take_join")
  /\ UNCHANGED <<running, listenFd, open, lockVars, active, op, loopVars, worker, starts, serving>>

Joined_NotWaited(l) == TRUE
Joined(l) == l # None => loop[l] = "done"

(* A worker does not wait for the workers, of which it is one.               *)
WaitsForWorkers_Always(a) == TRUE
WaitsForWorkers(a) == a \notin Conn

JoinTaken(a) ==
  /\ pc[a] = "take_join"
  /\ Joined(taken[a])
  /\ IF WaitsForWorkers(a)
       THEN Goto(a, "quiet_lock") /\ UNCHANGED <<op, taken, worker>>
       ELSE Return(a)
  /\ UNCHANGED <<running, listenFd, open, lockVars, handle, active, loopVars, starts, serving>>

-----------------------------------------------------------------------------
(* workers_finished_.wait(lock, active_connections_ == 0), in any of the     *)
(* three calls.  The predicate is evaluated before the thread is asleep.     *)
QuietLocks(a) ==
  /\ pc[a] = "quiet_lock"
  /\ workersMutex = NoOne
  /\ workersMutex' = a
  /\ Goto(a, "quiet_test")
  /\ UNCHANGED <<running, listenFd, open, lifecycle, handle, active, op, taken, loopVars, worker, starts, serving>>

Quiet_NotTested == TRUE
Quiet == active = 0

QuietHolds(a) ==
  /\ pc[a] = "quiet_test"
  /\ Quiet
  /\ workersMutex' = NoOne
  /\ IF op[a] = "start"
       THEN Goto(a, "open") /\ UNCHANGED <<op, taken, worker>>
       ELSE Return(a)
  /\ UNCHANGED <<running, listenFd, open, lifecycle, handle, active, loopVars, starts, serving>>

QuietFails(a) ==
  /\ pc[a] = "quiet_test"
  /\ ~Quiet
  /\ Goto(a, "quiet_sleep")
  /\ UNCHANGED <<running, listenFd, open, lockVars, handle, active, op, taken, loopVars, worker, starts, serving>>

Sleeps(a) ==
  /\ pc[a] = "quiet_sleep"
  /\ workersMutex' = NoOne
  /\ Goto(a, "asleep")
  /\ UNCHANGED <<running, listenFd, open, lifecycle, handle, active, op, taken, loopVars, worker, starts, serving>>

(* A condition variable may wake for no reason.                             *)
WakesSpuriously(a) ==
  /\ pc[a] = "asleep"
  /\ Goto(a, "quiet_lock")
  /\ UNCHANGED <<running, listenFd, open, lockVars, handle, active, op, taken, loopVars, worker, starts, serving>>

-----------------------------------------------------------------------------
(* accept_loop.                                                             *)
LoopTop(l) ==
  /\ loop[l] = "top"
  /\ LoopGoto(l, IF running THEN "load" ELSE "exit")
  /\ UNCHANGED <<running, listenFd, open, lockVars, handle, active, controllerVars,
                 fd, client, seen, worker, starts, serving>>

LoopLoads(l) ==
  /\ loop[l] = "load"
  /\ fd' = [fd EXCEPT ![l] = listenFd]
  /\ LoopGoto(l, IF listenFd = None THEN "exit" ELSE "accept")
  /\ UNCHANGED <<running, listenFd, open, lockVars, handle, active, controllerVars,
                 client, seen, worker, starts, serving>>

LoopAccepts(l, k) ==
  /\ loop[l] = "accept"
  /\ fd[l] \in open
  /\ worker[k] = "none"
  /\ client' = [client EXCEPT ![l] = k]
  /\ worker' = [worker EXCEPT ![k] = "accepted"]
  /\ LoopGoto(l, "check")
  /\ UNCHANGED <<running, listenFd, open, lockVars, handle, active, controllerVars,
                 fd, seen, starts, serving>>

(* accept() fails: for good when the listener has been closed; with EINTR,   *)
(* ECONNABORTED or, say, EMFILE when it has not.                            *)
AcceptFails(l) ==
  /\ loop[l] = "accept"
  /\ \/ fd[l] \notin open /\ LoopGoto(l, "exit")
     \/ fd[l] \in open /\ LoopGoto(l, "top")
     \/ fd[l] \in open /\ ~running /\ LoopGoto(l, "exit")
  /\ UNCHANGED <<running, listenFd, open, lockVars, handle, active, controllerVars,
                 fd, client, seen, worker, starts, serving>>

(* The client's socket is closed without an answer.                         *)
Hangup(l) ==
  /\ worker' = [worker EXCEPT ![client[l]] = "none"]
  /\ client' = [client EXCEPT ![l] = NoOne]

LoopChecks(l) ==
  /\ loop[l] = "check"
  /\ IF running
       THEN LoopGoto(l, "count") /\ UNCHANGED <<client, worker>>
       ELSE LoopGoto(l, "exit") /\ Hangup(l)
  /\ UNCHANGED <<running, listenFd, open, lockVars, handle, active, controllerVars,
                 fd, seen, starts, serving>>

LoopCounts(l) ==
  /\ loop[l] = "count"
  /\ seen' = [seen EXCEPT ![l] = active]
  /\ LoopGoto(l, "acquire")
  /\ UNCHANGED <<running, listenFd, open, lockVars, handle, active, controllerVars,
                 fd, client, worker, starts, serving>>

(* The compare-exchange succeeds when active_connections_ is what was seen;  *)
(* it fails when it is not, and, a weak one, may fail when it is: then the   *)
(* value is seen again.                                                     *)
Room_OffByOne(l) == seen[l] <= MaxConnections
Room(l) == seen[l] < MaxConnections
Unchanged(l) == active = seen[l]

LoopAcquires(l) ==
  /\ loop[l] = "acquire"
  /\ Room(l)
  /\ Unchanged(l)
  /\ active' = seen[l] + 1
  /\ LoopGoto(l, "spawn")
  /\ UNCHANGED <<running, listenFd, open, lockVars, handle, controllerVars,
                 fd, client, seen, worker, starts, serving>>

LoopRetries(l) ==
  /\ loop[l] = "acquire"
  /\ Room(l)
  /\ seen' = [seen EXCEPT ![l] = active]
  /\ UNCHANGED <<running, listenFd, open, lockVars, handle, active, controllerVars,
                 loop, fd, client, worker, starts, serving>>

(* 503 server_busy.                                                         *)
LoopRefuses(l) ==
  /\ loop[l] = "acquire"
  /\ ~Room(l)
  /\ Hangup(l)
  /\ LoopGoto(l, "top")
  /\ UNCHANGED <<running, listenFd, open, lockVars, handle, active, controllerVars,
                 fd, seen, starts, serving>>

LoopSpawns(l) ==
  /\ loop[l] = "spawn"
  /\ worker' = [worker EXCEPT ![client[l]] = "handle"]
  /\ client' = [client EXCEPT ![l] = NoOne]
  /\ LoopGoto(l, "top")
  /\ UNCHANGED <<running, listenFd, open, lockVars, handle, active, controllerVars,
                 fd, seen, starts, serving>>

(* The worker cannot be created: the slot is given back, then whoever waits  *)
(* is notified and the client gets a 503.                                   *)
GivenBack(l) == active - 1

LoopGivesBack(l) ==
  /\ loop[l] = "spawn"
  /\ active' = GivenBack(l)
  /\ LoopGoto(l, "unspawn")
  /\ UNCHANGED <<running, listenFd, open, lockVars, handle, controllerVars,
                 fd, client, seen, worker, starts, serving>>

LoopNotifies(l) ==
  /\ loop[l] = "unspawn"
  /\ NotifyAll
  /\ Hangup(l)
  /\ LoopGoto(l, "top")
  /\ UNCHANGED <<running, listenFd, open, lockVars, handle, active, op, taken,
                 fd, seen, starts, serving>>

LoopFalls(l) ==
  /\ loop[l] = "exit"
  /\ running' = FALSE
  /\ LoopGoto(l, "close")
  /\ UNCHANGED <<listenFd, open, lockVars, handle, active, controllerVars,
                 fd, client, seen, worker, starts, serving>>

(* Whatever listen_fd_ holds by now is closed.                              *)
LoopCloses(l) ==
  /\ loop[l] = "close"
  /\ listenFd' = None
  /\ open' = open \ {listenFd}
  /\ LoopGoto(l, "done")
  /\ UNCHANGED <<running, lockVars, handle, active, controllerVars,
                 fd, client, seen, worker, starts, serving>>

-----------------------------------------------------------------------------
(* The worker of a connection: handle_client is over and the socket closed,  *)
(* then connection_finished, which does not take workers_mutex_.            *)
HandlerEnds(k) ==
  /\ worker[k] = "handle"
  /\ pc[k] = "idle"
  /\ worker' = [worker EXCEPT ![k] = "release"]
  /\ UNCHANGED <<running, listenFd, open, lockVars, handle, active, controllerVars,
                 loopVars, starts, serving>>

Releases(k) ==
  /\ worker[k] = "release"
  /\ active' = active - 1
  /\ worker' = [worker EXCEPT ![k] = "notify"]
  /\ UNCHANGED <<running, listenFd, open, lockVars, handle, controllerVars,
                 loopVars, starts, serving>>

Notifies(k) ==
  /\ worker[k] = "notify"
  /\ NotifyAll
  /\ worker' = [worker EXCEPT ![k] = "none"]
  /\ UNCHANGED <<running, listenFd, open, lockVars, handle, active, op, taken,
                 loopVars, starts, serving>>

-----------------------------------------------------------------------------
InCall(a) ==
  \/ StopFlags(a) \/ StopCloses(a) \/ TakeThread(a) \/ JoinTaken(a)
  \/ QuietLocks(a) \/ QuietHolds(a) \/ QuietFails(a) \/ Sleeps(a)

InStart(c) ==
  \/ StartLocks(c) \/ StartRefused(c) \/ StartJoins(c) \/ StartFails(c) \/ StartOpens(c)
  \/ StartRaises(c) \/ StartSpawns(c) \/ SpawnFails(c) \/ StartUnopens(c)

Accepting(l) ==
  \/ LoopTop(l) \/ LoopLoads(l) \/ AcceptFails(l) \/ LoopChecks(l) \/ LoopCounts(l)
  \/ LoopAcquires(l) \/ LoopRetries(l) \/ LoopRefuses(l)
  \/ LoopSpawns(l) \/ LoopGivesBack(l) \/ LoopNotifies(l)
  \/ LoopFalls(l) \/ LoopCloses(l)

Serving(k) == HandlerEnds(k) \/ Releases(k) \/ Notifies(k)

Next ==
  \/ \E c \in Controller : CallStart(c) \/ CallWait(c) \/ InStart(c)
  \/ \E a \in Actor : CallStop(a) \/ InCall(a) \/ WakesSpuriously(a)
  \/ \E l \in Loop : Accepting(l) \/ \E k \in Conn : LoopAccepts(l, k)
  \/ \E k \in Conn : Serving(k)

(* One of the places where a call waits for a mutex: it is at one at a time. *)
GetsMutex(a) == TakeThread(a) \/ QuietLocks(a) \/ (a \in Controller /\ StartLocks(a))

Spec == Init /\ [][Next]_vars

(* The threads run, a mutex that is free again and again is got, and every   *)
(* request is answered: reads and writes time out after io_timeout, and      *)
(* the handlers bound their work.  Connections need not come.               *)
Fairness ==
  /\ \A a \in Actor : WF_vars(InCall(a)) /\ SF_vars(GetsMutex(a))
  /\ \A c \in Controller : WF_vars(InStart(c))
  /\ \A l \in Loop : WF_vars(Accepting(l) /\ loop[l] # "accept")
                     /\ WF_vars(AcceptFails(l) /\ fd[l] \notin open)
  /\ \A k \in Conn : WF_vars(Serving(k))

FairSpec == Spec /\ Fairness

-----------------------------------------------------------------------------
(* active_connections_, on which the connection limit and every waiting      *)
(* caller rely, is the number of workers that have not given their slot      *)
(* back plus the slots held by an accept loop about to create one, whatever  *)
(* the order of compare-exchanges, releases and failed thread creations, and *)
(* never more than options_.max_connections.                                *)
Slots ==
  Cardinality({k \in Conn : worker[k] \in {"handle", "stopping", "release"}})
    + Cardinality({l \in Loop : loop[l] = "spawn"})

SlotsAreConnections == active = Slots /\ active <= MaxConnections

(* A server that was started and not told to stop serves: no accept loop of  *)
(* an earlier start() is left to take down running_ or to close the new      *)
(* listener.                                                                *)
StartedServes == serving => running /\ listenFd \in open

(* When the only thread that drives the server is back from stop() or        *)
(* wait(), nothing of the server is left: no accept loop, no listener, no    *)
(* worker in a handler, even if it was a handler that called stop() and took *)
(* the accept thread away.  (main destroys the jobs next, which handlers     *)
(* use.)                                                                    *)
QuietAfterStop ==
  [][\A c \in Controller : op[c] \in {"stop", "wait"} /\ op'[c] = "none" =>
       /\ \A l \in Loop : loop'[l] \in {"none", "done"}
       /\ open' = {}
       /\ \A k \in Conn : worker'[k] \in {"none", "notify"}]_vars

(* Once told to stop, every accept loop ends, however it was caught between  *)
(* its read of running_, its read of listen_fd_ and accept().               *)
LoopsEnd ==
  \A l \in Loop : (starts = MaxStarts /\ ~running /\ listenFd = None /\ loop[l] # "none")
                    ~> (loop[l] = "done")

(* A handler that calls stop() gets back from it: it neither waits for       *)
(* itself nor for its own accept thread.  A start() that waits for this      *)
(* very handler while holding the mutex the handler wants is the exception.  *)
HandlerReturns ==
  \A k \in Conn : (pc[k] = "flag") ~> (pc[k] = "idle" \/ \E c \in Controller : op[c] = "start")

(* http_server.h:89: "wait() blocks until the listener stops."               *)
WaitEnds ==
  \A c \in Controller :
    (op[c] = "wait" /\ \A l \in Loop : loop[l] = "done") ~> (op[c] # "wait")
=============================================================================
