------------------------------ MODULE Session ------------------------------
(***************************************************************************)
(* How the server comes to stop when its last page is closed.  A page keeps *)
(* a request /api/session/hold open and renews it (web/app.js), the server  *)
(* counts the requests it holds (main.cpp), and the launcher asks once a    *)
(* second whether there is one (start.sh).                                  *)
(*                                                                         *)
(* Time goes by in ticks of 200 ms, a handler's sleep.  What is due happens *)
(* before the next tick, in any order.                                      *)
(***************************************************************************)
EXTENDS Integers, FiniteSets

CONSTANTS Page,
          Slot,           \* connections the server takes: max_connections
          Free,           \* a slot without a connection
          HoldFor,        \* the 20 s a request is held
          Retry,          \* BROWSER_SESSION_RETRY_MS
          Latency,        \* bound on the way of a request and the reply before it
          CheckEvery,     \* the launcher's sleep
          AskFor,         \* curl --max-time
          CloseAfter,     \* checks without a session, once one was seen
          StartupChecks,  \* checks without a session, before one was seen
          MaxOpens,       \* bound on pages opened, reloads included
          MaxLost         \* bound on requests that fail for other reasons

ASSUME SessionAssumption ==
  /\ Free \notin [page : Page, left : 0..HoldFor, gone : BOOLEAN]
  /\ {HoldFor, Retry, CheckEvery, CloseAfter, StartupChecks} \subseteq Nat \ {0}
  /\ {Latency, AskFor, MaxOpens, MaxLost} \subseteq Nat
  /\ IsFiniteSet(Slot)

(* How often the launcher can look while a page is between two sessions.    *)
GapChecks == (Retry + Latency) \div CheckEvery + 1

(* What the numbers in start.sh, main.cpp and app.js have to do with each    *)
(* other: a session is long enough to be seen, a page and the lost requests  *)
(* together do not outlast the launcher's patience, a page finds room.      *)
ASSUME PatienceAssumption ==
  /\ CheckEvery + AskFor < HoldFor
  /\ (MaxLost + 1) * GapChecks < CloseAfter
  /\ CloseAfter <= StartupChecks
  /\ MaxOpens < Cardinality(Slot)

VARIABLES
  page,      \* where maintainBrowserSession of a page is, and its time left
  handler,   \* handleBrowserSession in a connection: page, time left, client gone
  active,    \* BrowserSessionTracker::active_
  alive,     \* the server process runs
  launcher,  \* where wait_for_browser_close is, and its time left
  seen,      \* seen_session
  inactive,  \* inactive_checks
  startup,   \* startup_checks
  opens,     \* pages opened so far
  lost,      \* requests failed so far
  watched    \* history: checks answered since the page was opened

serverVars   == <<handler, active, alive>>
launcherVars == <<launcher, seen, inactive, startup>>
vars == <<page, serverVars, launcherVars, opens, lost, watched>>

Init ==
  /\ page = [p \in Page |-> [at |-> "closed", left |-> 0]]
  /\ handler = [s \in Slot |-> Free]
  /\ active = 0
  /\ alive = TRUE
  /\ launcher = [at |-> "sleep", left |-> 0]
  /\ seen = FALSE
  /\ inactive = 0
  /\ startup = 0
  /\ opens = 0
  /\ lost = 0
  /\ watched = [p \in Page |-> 0]

Open(p) == page[p].at # "closed"
Room    == \E s \in Slot : handler[s] = Free

(* A page between two requests.  The time a reply takes counts with that of *)
(* the next request.                                                       *)
Calling == [at : {"call"}, left : 0..Latency]
Waiting == [at |-> "wait", left |-> Retry]

Due(x) == x.left = 0

(* A request is given up at once when the server refuses or loses it.      *)
Loses == lost < MaxLost /\ lost' = lost + 1

(***************************************************************************)
(* A page                                                                  *)
(***************************************************************************)
OpenPage(p) ==
  /\ ~Open(p)
  /\ opens < MaxOpens
  /\ opens' = opens + 1
  /\ \E next \in Calling : page' = [page EXCEPT ![p] = next]
  /\ UNCHANGED <<serverVars, launcherVars, lost, watched>>

(* Closing a page closes the connection of its request.                    *)
ClosePage(p) ==
  /\ Open(p)
  /\ page' = [page EXCEPT ![p] = [at |-> "closed", left |-> 0]]
  /\ handler' = [s \in Slot |-> IF handler[s] # Free /\ handler[s].page = p
                                THEN [handler[s] EXCEPT !.gone = TRUE]
                                ELSE handler[s]]
  /\ watched' = [watched EXCEPT ![p] = 0]
  /\ UNCHANGED <<active, alive, launcherVars, opens, lost>>

(* The request reaches a free connection: BrowserSession counts itself.    *)
Hold(p) ==
  /\ page[p].at = "call" /\ Due(page[p])
  /\ alive
  /\ \E s \in Slot :
       /\ handler[s] = Free
       /\ \A t \in Slot : handler[t] = Free => s <= t
       /\ handler' = [handler EXCEPT ![s] = [page |-> p, left |-> HoldFor, gone |-> FALSE]]
  /\ active' = active + 1
  /\ page' = [page EXCEPT ![p] = [at |-> "held", left |-> 0]]
  /\ UNCHANGED <<alive, launcherVars, opens, lost, watched>>

(* The request fails: the page ignores why, and tries again.               *)
CallFails(p) ==
  /\ page[p].at = "call" /\ Due(page[p])
  /\ \/ (~alive \/ ~Room) /\ UNCHANGED lost
     \/ Loses
  /\ page' = [page EXCEPT ![p] = Waiting]
  /\ UNCHANGED <<serverVars, launcherVars, opens, watched>>

CallAgain(p) ==
  /\ page[p].at = "wait" /\ Due(page[p])
  /\ \E next \in Calling : page' = [page EXCEPT ![p] = next]
  /\ UNCHANGED <<serverVars, launcherVars, opens, lost, watched>>

(***************************************************************************)
(* The server                                                              *)
(***************************************************************************)
(* Mutant: a client that leaves is not taken off the count.              *)
HoldEnds_StillCounted(s) ==
  /\ handler[s] # Free
  /\ handler[s].left = 0 \/ handler[s].gone
  /\ handler' = [handler EXCEPT ![s] = Free]
  /\ IF handler[s].gone
     THEN UNCHANGED <<active, page>>
     ELSE /\ active' = active - 1
          /\ page' = [page EXCEPT ![handler[s].page] = Waiting]
  /\ UNCHANGED <<alive, launcherVars, opens, lost, watched>>

(* The time is up, or client_disconnected() says so.  The session ends     *)
(* before the reply is sent.                                               *)
HoldEnds(s) ==
  /\ handler[s] # Free
  /\ handler[s].left = 0 \/ handler[s].gone
  /\ handler' = [handler EXCEPT ![s] = Free]
  /\ active' = active - 1
  /\ IF handler[s].gone
     THEN UNCHANGED page
     ELSE page' = [page EXCEPT ![handler[s].page] = Waiting]
  /\ UNCHANGED <<alive, launcherVars, opens, lost, watched>>

(* The process is gone, and every connection with it.                      *)
ServerEnds ==
  /\ alive' = FALSE
  /\ handler' = [s \in Slot |-> Free]
  /\ active' = 0
  /\ page' = [p \in Page |-> IF page[p].at = "held" THEN Waiting ELSE page[p]]

Crash ==
  /\ alive
  /\ ServerEnds
  /\ UNCHANGED <<launcherVars, opens, lost, watched>>

(***************************************************************************)
(* The launcher                                                            *)
(***************************************************************************)
Check ==
  /\ launcher.at = "sleep" /\ Due(launcher)
  /\ launcher' \in IF alive THEN [at : {"ask"}, left : 0..AskFor]
                            ELSE [at : {"done"}, left : {0}]
  /\ UNCHANGED <<page, serverVars, seen, inactive, startup, opens, lost, watched>>

Sleeps == launcher' = [at |-> "sleep", left |-> CheckEvery]

(* cleanup kills the server on the way out.                                *)
Stops == launcher' = [at |-> "done", left |-> 0] /\ ServerEnds

(* Mutant: the checks without a session go on counting.                  *)
Active_NotReset ==
  /\ active # 0
  /\ seen' = TRUE
  /\ UNCHANGED inactive
  /\ Sleeps
  /\ UNCHANGED <<page, serverVars, startup>>

Active ==
  /\ active # 0
  /\ seen' = TRUE
  /\ inactive' = 0
  /\ Sleeps
  /\ UNCHANGED <<page, serverVars, startup>>

Inactive ==
  /\ active = 0
  /\ IF seen THEN inactive' = inactive + 1 /\ UNCHANGED startup
             ELSE startup' = startup + 1 /\ UNCHANGED inactive
  /\ IF inactive' >= CloseAfter \/ startup' >= StartupChecks
     THEN Stops
     ELSE Sleeps /\ UNCHANGED <<page, serverVars>>
  /\ UNCHANGED seen

Answered ==
  /\ launcher.at = "ask" /\ Due(launcher)
  /\ alive /\ Room
  /\ Active \/ Inactive
  /\ watched' = [p \in Page |-> IF Open(p) /\ watched[p] < CloseAfter
                                THEN watched[p] + 1 ELSE watched[p]]
  /\ UNCHANGED <<opens, lost>>

(* Any other outcome of curl neither counts nor resets a count.            *)
Unanswered ==
  /\ launcher.at = "ask" /\ Due(launcher)
  /\ \/ (~alive \/ ~Room) /\ UNCHANGED lost
     \/ Loses
  /\ Sleeps
  /\ UNCHANGED <<page, serverVars, seen, inactive, startup, opens, watched>>

(***************************************************************************)
(* Time                                                                    *)
(***************************************************************************)
Timed(x) == x.at \in {"call", "wait", "ask", "sleep"}

Later(x) == IF Timed(x) THEN [x EXCEPT !.left = @ - 1] ELSE x

Tick ==
  /\ \A p \in Page : Timed(page[p]) => ~Due(page[p])
  /\ \A s \in Slot : handler[s] # Free => handler[s].left > 0 /\ ~handler[s].gone
  /\ Timed(launcher) => ~Due(launcher)
  /\ page' = [p \in Page |-> Later(page[p])]
  /\ handler' = [s \in Slot |-> IF handler[s] = Free THEN Free
                                ELSE [handler[s] EXCEPT !.left = @ - 1]]
  /\ launcher' = Later(launcher)
  /\ UNCHANGED <<active, alive, seen, inactive, startup, opens, lost, watched>>

Runs ==
  \/ \E p \in Page : Hold(p) \/ CallFails(p) \/ CallAgain(p)
  \/ \E s \in Slot : HoldEnds(s)
  \/ Check \/ Answered \/ Unanswered
  \/ Tick

Next ==
  \/ Runs
  \/ \E p \in Page : OpenPage(p) \/ ClosePage(p)
  \/ Crash

(* Timers fire and processes run; nobody owes opening or closing a page.   *)
Spec     == Init /\ [][Next]_vars
FairSpec == Spec /\ WF_vars(Runs)

(***************************************************************************)
(* Properties                                                              *)
(***************************************************************************)
(* While it counts towards stopping the launcher does not overlook a page: *)
(* none has been open during the last CloseAfter checks that were answered *)
(* when it stops the server, though a page has no session between two      *)
(* requests (start.sh:57, main.cpp:650-657, app.js:185-190).               *)
OpenPageIsServed ==
  [][Answered /\ launcher'.at = "done" =>
       \A p \in Page : Open(p) => watched'[p] < CloseAfter]_vars

(* When all pages stay closed, or none is ever opened, the server stops    *)
(* (start.sh:50-75): no session is counted for ever.                       *)
ServerStops == <>[](\A p \in Page : ~Open(p)) => <>(~alive)
=============================================================================
