---------------------------- MODULE WebAnalysis ----------------------------
(***************************************************************************)
(* The analysis of a page (web/app.js): the user edits the position, starts *)
(* and stops the analysis and changes the mode; runAnalysisLoop runs one    *)
(* job after the other; results are cached per position and shown.         *)
(*                                                                         *)
(* A result is told apart by the position it was computed for.  Generation *)
(* counters are compared with a remembered value only, so each is a flag    *)
(* that says whether it has changed since.  No game is being played.       *)
(***************************************************************************)
EXTENDS PageJob

CONSTANTS Position,  \* board, side to move and rules: positionKey
          NoResult   \* no result

ASSUME ResultAssumption == Position \intersect {NoResult, "empty", "loading", "error"} = {}

VARIABLES
  pos,         \* currentPositionKey()
  mode,        \* state.mode
  analyzing,   \* state.analyzing
  moved,       \* state.analysisGeneration # generation of runAnalysisLoop
  debouncing,  \* state.analysisRestartAt is in the future
  loop,        \* where runAnalysisLoop is
  key,         \* its key
  result,      \* state.result
  view,        \* the result panel: a position's result, empty, loading, error
  cached,      \* the keys of state.analysisCache
  requested,   \* state.requestedMode
  fresh,       \* state.modeRequestGeneration = requestGeneration
  transition,  \* where runModeTransitionLoop is
  target,      \* its nextMode
  resume,      \* its resumeAnalysisOnStale
  awaited,     \* its stopAnalysis awaits the stop request
  older,       \* history: uncancelled jobs from before this analysis
  broken       \* history: uncancelled jobs of this analysis whose start request lost
               \* its connection

loopVars == <<analyzing, moved, debouncing, loop, key>>
showVars == <<result, view, cached>>
modeVars == <<mode, requested, fresh, transition, target, resume, awaited>>
strayVars == <<older, broken>>
vars     == <<jobVars, pos, loopVars, showVars, modeVars, strayVars>>

Mode == {"analysis", "game"}

Init ==
  /\ JobInit
  /\ pos \in Position
  /\ mode = "analysis"
  /\ analyzing = FALSE
  /\ moved = FALSE
  /\ debouncing = FALSE
  /\ loop = "none"
  /\ key = pos
  /\ result = NoResult
  /\ view = "empty"
  /\ cached = {}
  /\ requested = "analysis"
  /\ fresh = FALSE
  /\ transition = "none"
  /\ target = "analysis"
  /\ resume = FALSE
  /\ awaited = FALSE
  /\ older = {}
  /\ broken = {}

-----------------------------------------------------------------------------
(* Continuations that are ready run before any other task of the page.     *)

TransitionReady == transition = "stopping" /\ (awaited => StopSettled) /\ loop = "none"

Settling == run = "returned" \/ (run = "stopping" /\ StopSettled) \/ TransitionReady

-----------------------------------------------------------------------------
(* The result panel.                                                       *)

Cached(k) == IF k \in cached THEN k ELSE NoResult

Shown(r, otherwise) == IF r # NoResult THEN r ELSE otherwise

(* invalidateResult, the position being k from now on.                     *)
Lookup_Old(k) == Cached(pos)
Lookup(k) == Cached(k)

InvalidateResult(k, restart) ==
  /\ result' = Lookup(k)
  /\ view' = Shown(Lookup(k), IF restart THEN "loading" ELSE "empty")
  /\ UNCHANGED cached

-----------------------------------------------------------------------------
(* runAnalysisLoop.                                                        *)

(* presentAnalysisStart and the start of the job.  What is lost is told     *)
(* apart from what is older only for the analysis it belongs to.           *)
Launch(earlier, lost) ==
  /\ older' = earlier
  /\ broken' = lost
  /\ loop' = "search"
  /\ moved' = FALSE
  /\ key' = pos
  /\ result' = Cached(pos)
  /\ view' = Shown(Cached(pos), "loading")
  /\ BeginRun
  /\ UNCHANGED cached

StartAnalysis ==
  /\ analyzing' = TRUE
  /\ debouncing' = FALSE
  /\ Launch(Uncancelled, {})

(* The loop ends without an error: its finally block.                      *)
LoopStopped(stillAnalyzing) ==
  /\ loop' = "none"
  /\ IF ~stillAnalyzing /\ mode = "analysis"
     THEN view' = Shown(result, "empty")
     ELSE UNCHANGED view
  /\ UNCHANGED <<key, result, cached>>

LoopFails ==
  /\ loop' = "none"
  /\ analyzing' = FALSE
  /\ view' = "error"
  /\ UNCHANGED <<moved, debouncing, key, result, cached>>

(* The job object is dropped; who awaits the stop request still has that.  *)
RunConsumed ==
  /\ run' = "idle"
  /\ known' = FALSE
  /\ cancelled' = FALSE
  /\ lastResult' = FALSE
  /\ ending' = "none"
  /\ UNCHANGED <<current, pollVars, stopVars, server, faults, strayVars>>

(* The next turn of the loop.                                              *)
NextTurn ==
  IF ~analyzing \/ mode # "analysis"
  THEN LoopStopped(analyzing) /\ RunConsumed /\ UNCHANGED <<analyzing, moved, debouncing>>
  ELSE IF debouncing
  THEN loop' = "debounce" /\ RunConsumed /\ UNCHANGED <<analyzing, moved, debouncing, key, showVars>>
  ELSE Launch(older, broken) /\ UNCHANGED <<analyzing, debouncing>>

Complete ==
  /\ loop' = "none"
  /\ analyzing' = FALSE
  /\ cached' = cached \union {key}
  /\ result' = key
  /\ view' = key
  /\ UNCHANGED <<moved, debouncing, key>>

(* Errors after which no other search may be started.                      *)
PreventsRestart_Never(how) == FALSE
PreventsRestart(how) == how \in {"stuck", "timeout"}

Outdated == moved \/ key # pos

SearchReturns ==
  /\ run = "returned"
  /\ \/ /\ PreventsRestart(ending)
        /\ LoopFails
        /\ RunConsumed
     \/ /\ ~PreventsRestart(ending)
        /\ ending \notin {"result", "cancelled"}
        /\ IF ~analyzing \/ moved THEN NextTurn ELSE LoopFails /\ RunConsumed
     \/ /\ ending \in {"result", "cancelled"}
        /\ IF ~analyzing \/ mode # "analysis" \/ Outdated \/ ending = "cancelled"
           THEN NextTurn
           ELSE RunConsumed /\ IF lastResult THEN Complete ELSE LoopFails
  /\ UNCHANGED <<pos, modeVars>>

(* The timer of waitForAnalysisRestartWindow.                              *)
WindowPasses ==
  /\ debouncing
  /\ debouncing' = FALSE
  /\ UNCHANGED <<jobVars, pos, analyzing, moved, loop, key, showVars, modeVars, strayVars>>

DebounceEnds ==
  /\ loop = "debounce"
  /\ ~debouncing
  /\ Launch(older, broken)
  /\ UNCHANGED <<pos, analyzing, debouncing, modeVars>>

(* onUpdate: the result is cached under the key it was asked for, and shown *)
(* if it is still wanted.                                                  *)
IsCurrentAnalysis == analyzing /\ mode = "analysis" /\ ~Outdated

Update ==
  IF reply.result
  THEN /\ cached' = cached \union {key}
       /\ IF IsCurrentAnalysis THEN result' = key /\ view' = key ELSE UNCHANGED <<result, view>>
  ELSE UNCHANGED showVars

(* A start request that failed without a timeout may have been executed.   *)
NoteBroken ==
  /\ broken' = IF ending' = "error" THEN broken \union ({current} \intersect Uncancelled) ELSE broken
  /\ UNCHANGED older

JobTask ==
  \/ PollAnswered /\ Update /\ UNCHANGED strayVars
  \/ StartFails /\ UNCHANGED showVars /\ NoteBroken
  \/ /\ \/ StartAnswered \/ StartRefused \/ PollFails \/ PauseEnds
        \/ StopAnswered \/ StopFails \/ StopRetried
     /\ UNCHANGED <<showVars, strayVars>>

-----------------------------------------------------------------------------
(* The user.                                                               *)

Edit(k) ==
  LET restart == analyzing /\ mode = "analysis" IN
  /\ pos' = k
  /\ moved' = (moved \/ restart)
  /\ debouncing' = (debouncing \/ restart)
  /\ InvalidateResult(k, restart)
  /\ IF restart THEN CancelSearchJob ELSE UNCHANGED jobVars
  /\ UNCHANGED <<analyzing, loop, key, modeVars, strayVars>>

CanStart == ~analyzing /\ loop = "none" /\ current = NoJob /\ mode = "analysis"

(* The user starts the analysis, knowing of the errors so far.             *)
Start ==
  /\ CanStart
  /\ StartAnalysis
  /\ UNCHANGED <<pos, modeVars>>

(* stopAnalysis up to its first await.                                     *)
StopAnalysis ==
  /\ analyzing' = FALSE
  /\ moved' = TRUE
  /\ debouncing' = FALSE
  /\ IF loop = "debounce"
     THEN LoopStopped(FALSE) /\ UNCHANGED jobVars
     ELSE StopSearchJob /\ UNCHANGED <<loop, key, showVars>>

(* The button is there until the loop has ended.                           *)
Stop ==
  /\ loop # "none"
  /\ StopAnalysis
  /\ UNCHANGED <<pos, modeVars, strayVars>>

-----------------------------------------------------------------------------
(* setMode and runModeTransitionLoop.                                      *)

(* The loop takes the next request, or ends.                               *)
NextRequest_OldGeneration(m, r) ==
  IF r # m
  THEN transition' = "sleep" /\ fresh' = (transition = "none") /\ target' = r
  ELSE transition' = "none" /\ fresh' = FALSE /\ target' = m
NextRequest(m, r) ==
  IF r # m
  THEN transition' = "sleep" /\ fresh' = TRUE /\ target' = r
  ELSE transition' = "none" /\ fresh' = FALSE /\ target' = m

SetMode(m) ==
  /\ requested' = m
  /\ IF transition = "none"
     THEN NextRequest(mode, m)
     ELSE fresh' = FALSE /\ UNCHANGED <<transition, target>>
  /\ UNCHANGED <<jobVars, pos, loopVars, showVars, mode, resume, awaited, strayVars>>

CommitMode(m) ==
  /\ mode' = m
  /\ IF m = "analysis" THEN InvalidateResult(pos, FALSE) ELSE UNCHANGED showVars
  /\ NextRequest(m, requested)

MustStop == target = "game" /\ (analyzing \/ loop # "none")

SleepEnds ==
  /\ transition = "sleep"
  /\ IF ~fresh
     THEN /\ NextRequest(mode, requested)
          /\ UNCHANGED <<jobVars, loopVars, showVars, mode, resume, awaited>>
     ELSE /\ resume' = (target = "game" /\ analyzing)
          /\ IF MustStop
             THEN /\ StopAnalysis
                  /\ awaited' = (current # NoJob /\ known)
                  /\ transition' = "stopping"
                  /\ UNCHANGED <<mode, fresh, target>>
             ELSE /\ CommitMode(target)
                  /\ UNCHANGED <<jobVars, loopVars, awaited>>
  /\ UNCHANGED <<pos, requested, strayVars>>

(* stopAnalysis has returned to runModeTransitionLoop, or thrown.          *)
StopReturns ==
  /\ TransitionReady
  /\ awaited' = FALSE
  /\ IF awaited /\ stopping = "failed"
     THEN /\ requested' = mode
          /\ NextRequest(mode, mode)
          /\ UNCHANGED <<jobVars, loopVars, showVars, mode, strayVars>>
     ELSE IF fresh
     THEN CommitMode(target) /\ UNCHANGED <<jobVars, loopVars, requested, strayVars>>
     ELSE /\ NextRequest(mode, requested)
          /\ IF resume /\ requested = "analysis" /\ CanStart
             THEN StartAnalysis
             ELSE UNCHANGED <<jobVars, loopVars, showVars, strayVars>>
          /\ UNCHANGED <<mode, requested>>
  /\ resume' = FALSE
  /\ UNCHANGED pos

-----------------------------------------------------------------------------
Continuation ==
  \/ SearchReturns
  \/ StopReturns
  \/ StopAwaited /\ UNCHANGED <<pos, loopVars, showVars, modeVars, strayVars>>

UserStep ==
  \/ \E k \in Position : Edit(k)
  \/ Start
  \/ Stop
  \/ \E m \in Mode : SetMode(m)

(* The server goes on whatever the page does.                              *)
AtServer(step) ==
  /\ step
  /\ older' = older \intersect Uncancelled'
  /\ broken' = broken \intersect Uncancelled'
  /\ UNCHANGED <<pos, loopVars, showVars, modeVars>>

Requests == JobTask /\ UNCHANGED <<pos, loopVars, modeVars>>

PageTask ==
  /\ ~Settling
  /\ \/ Requests
     \/ UserStep
     \/ DebounceEnds
     \/ SleepEnds

Next ==
  \/ Continuation
  \/ PageTask
  \/ WindowPasses
  \/ AtServer(ServerStep)

Spec == Init /\ [][Next]_vars

(* Timers fire, every request is answered or given up, the server takes up *)
(* what arrives, and a search that is cancelled notices (ToldJobEnds of     *)
(* AnalysisJobs); strong fairness, as the event loop keeps tasks that are   *)
(* due while continuations run.  The user owes nothing, and a search that  *)
(* is not cancelled need not end.                                          *)
FairSpec ==
  /\ Spec
  /\ WF_vars(Continuation)
  /\ SF_vars(~Settling /\ Requests)
  /\ SF_vars(~Settling /\ DebounceEnds)
  /\ WF_vars(WindowPasses)
  /\ SF_vars(~Settling /\ SleepEnds)
  /\ \A h \in Job : WF_vars(AtServer(ServerStarts(h) \/ ServerNotices(h)))
  /\ WF_vars(AtServer(ServerStops))
  /\ WF_vars(AtServer(ServerPolled))

-----------------------------------------------------------------------------
(* Results are never shown for another position than the one on the board, *)
(* whichever of edit, update, error and stop comes first ("旧任务结果不会覆盖  *)
(* 新棋盘", README.md:25).                                                  *)
ShownIsOfPosition ==
  /\ view \in Position => view = pos
  /\ result \in {pos, NoResult}

(* A run that knows its job's id leaves no job behind that could go on for  *)
(* ever: it is over only when the job is, or is cancelled, or it says that  *)
(* the job could not be stopped (app.js:1084-1095).  An acknowledged stop   *)
(* is no more than a request: the job may run on until its search notices.  *)
NoJobLeft ==
  [][current # NoJob /\ current' = NoJob /\ known /\ current \in Uncancelled'
       => ending' = "stuck"]_vars

Restart == loop # "none" /\ current = NoJob /\ current' # NoJob

(* When the loop starts the next job, every other of this analysis that      *)
(* runs or may still come to run is cancelled, but for those whose start    *)
(* request lost its connection (app.js:917-926, 1075-1077).  A cancelled    *)
(* one may run beside the new one until its search notices.                *)
RestartIsSerial == [][Restart => Uncancelled \subseteq older \union broken]_vars

(* The same without the exception: "旧搜索自动取消，短暂去抖后串行切换到最新局面" *)
(* (README.md:24-25), taken to say only that the old search is cancelled.   *)
SwitchIsSerial == [][Restart => Uncancelled \subseteq older]_vars

(* A stopped analysis comes to an end, with the panel and the buttons in   *)
(* order again, whatever request was under way (app.js:877-893).  Only then *)
(* can another be started.                                                 *)
StopEnds == []<>(analyzing \/ loop = "none")

(* Once the user leaves the position alone, the analysis is that of this   *)
(* position, or has ended (app.js:803-829, 1008-1022).                     *)
FollowsPosition ==
  <>[][\A k \in Position : ~Edit(k)]_vars =>
    []<>(~analyzing \/ (current # NoJob /\ key = pos /\ ~cancelled))

(* Once the user leaves the mode tabs alone, the change of mode is carried  *)
(* out or given up, and tabs and mode agree (app.js:1833-1877).            *)
ModeSettles ==
  <>[][\A m \in Mode : ~SetMode(m)]_vars => <>[](requested = mode)
=============================================================================
