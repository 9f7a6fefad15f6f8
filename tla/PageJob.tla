------------------------------ MODULE PageJob ------------------------------
(***************************************************************************)
(* One search job of a page (web/app.js): runSearchJob with its start, poll *)
(* and stop requests, their timeouts and retries, and the server's side of *)
(* the job as far as a page can tell.  WebAnalysis supplies who runs jobs   *)
(* and what is done with their results.                                    *)
(*                                                                         *)
(* The page is single-threaded: an action is one task of the event loop    *)
(* (a reply, a timer, an input), run to completion.  A continuation that   *)
(* is ready when a task ends runs before the next task: see Settling.      *)
(***************************************************************************)
EXTENDS Naturals, FiniteSets

CONSTANTS Job,           \* jobs, of which one that is over may be used again
          NoJob,         \* state.searchJob = null
          StopAttempts,  \* ANALYSIS_STOP_ATTEMPTS
          MaxFaults      \* bound: requests that fail, the attempts of a stop being one

ASSUME JobAssumption == NoJob \notin Job /\ IsFiniteSet(Job)
ASSUME AttemptsAssumption == StopAttempts \in Nat \ {0}
ASSUME FaultsAssumption == MaxFaults \in Nat

VARIABLES
  current,     \* state.searchJob
  run,         \* where runSearchJob is: idle, start, poll, pause, stopping, returned
  known,       \* job.jobId != null
  cancelled,   \* job.cancelled
  lastResult,  \* job.lastResult != null
  ending,      \* how runSearchJob is going to end, or has ended
  poll,        \* the poll request
  reply,       \* the reply to it
  stopping,    \* job.stopPromise
  attempts,    \* its attempts so far
  server,      \* each job at the server: requested, refused, running, cancelling
               \* (running, and cancelRequested), ended
  faults       \* requests that have failed

pollVars   == <<poll, reply>>
stopVars   == <<stopping, attempts>>
jobVars    == <<current, run, known, cancelled, lastResult, ending, pollVars, stopVars,
                server, faults>>

Reply   == [result : BOOLEAN, running : BOOLEAN]
NoReply == [result |-> FALSE, running |-> FALSE]

JobInit ==
  /\ current = NoJob
  /\ run = "idle"
  /\ known = FALSE
  /\ cancelled = FALSE
  /\ lastResult = FALSE
  /\ ending = "none"
  /\ poll = "none"
  /\ reply = NoReply
  /\ stopping = "none"
  /\ attempts = 0
  /\ server = [h \in Job |-> "ended"]
  /\ faults = 0

(* A job that runs at the server, or will when its start request arrives,  *)
(* and whose cancellation has not been requested.                          *)
Uncancelled == {h \in Job : server[h] \in {"requested", "running"}}

(* A job that is not at the server, or only with what has come of it.      *)
Over == {h \in Job : server[h] \in {"refused", "ended"}}

(* running: a cancelled job goes on running until its search notices.      *)
IsRunning(h) == server[h] \in {"running", "cancelling"}

(* A request gets lost, times out or is answered with an error.            *)
Fault == faults < MaxFaults /\ faults' = faults + 1

-----------------------------------------------------------------------------
(* runSearchJob.                                                           *)

(* Which of the jobs that are over is used is immaterial, and so is what    *)
(* has become of the others.                                               *)
Unused == CHOOSE h \in Over : TRUE

BeginRun ==
  /\ Over # {}
  /\ current' = Unused
  /\ run' = "start"
  /\ known' = FALSE
  /\ cancelled' = FALSE
  /\ lastResult' = FALSE
  /\ ending' = "none"
  /\ poll' = "none"
  /\ reply' = NoReply
  /\ stopping' = "none"
  /\ attempts' = 0
  /\ server' = [h \in Job |-> IF h = Unused THEN "requested"
                              ELSE IF h \in Over THEN "ended" ELSE server[h]]
  /\ UNCHANGED faults

Return(how) ==
  /\ current' = NoJob
  /\ run' = "returned"
  /\ ending' = how

(* The promise of the stop request is shared by all who wait for it.       *)
EnsureJobStopped_Never == UNCHANGED stopVars
EnsureJobStopped ==
  IF stopping = "none"
  THEN /\ stopping' = "sent"
       /\ attempts' = 1
  ELSE UNCHANGED stopVars

AwaitStop_Unawaited(how) == EnsureJobStopped /\ Return(how)
AwaitStop(how) ==
  /\ run' = "stopping"
  /\ ending' = how
  /\ EnsureJobStopped
  /\ UNCHANGED current

SendPoll ==
  /\ run' = "poll"
  /\ poll' = "sent"
  /\ UNCHANGED <<current, ending, reply, stopVars>>

StartAnswered ==
  /\ run = "start"
  /\ server[current] \in {"running", "cancelling", "ended"}
  /\ known' = TRUE
  /\ IF cancelled THEN AwaitStop("cancelled") /\ UNCHANGED pollVars ELSE SendPoll
  /\ UNCHANGED <<cancelled, lastResult, server, faults>>

StartRefused ==
  /\ run = "start"
  /\ server[current] = "refused"
  /\ Return("error")
  /\ UNCHANGED <<known, cancelled, lastResult, pollVars, stopVars, server, faults>>

(* No usable answer: the connection broke, or ANALYSIS_START_TIMEOUT_MS     *)
(* have passed.  The request may arrive, or have arrived, all the same.    *)
StartFails ==
  /\ run = "start"
  /\ Fault
  /\ \/ Return("error")
     \/ Return(IF cancelled THEN "timeout" ELSE "error")
  /\ UNCHANGED <<known, cancelled, lastResult, pollVars, stopVars, server>>

(* The reply, but not what the caller's onUpdate does with it.             *)
PollAnswered ==
  /\ run = "poll"
  /\ poll = "answered"
  /\ poll' = "none"
  /\ reply' = NoReply
  /\ lastResult' = (lastResult \/ reply.result)
  /\ IF reply.running
     THEN run' = "pause" /\ UNCHANGED <<current, ending>>
     ELSE Return("result")
  /\ UNCHANGED <<known, cancelled, stopVars, server, faults>>

(* A poll fails for whatever reason: the job is stopped first.             *)
PollFails ==
  /\ run = "poll"
  /\ Fault
  /\ cancelled' = TRUE
  /\ poll' = "none"
  /\ reply' = NoReply
  /\ AwaitStop("error")
  /\ UNCHANGED <<known, lastResult, server>>

(* waitForPoll is over.                                                    *)
PauseEnds ==
  /\ run = "pause"
  /\ IF cancelled THEN AwaitStop("cancelled") /\ UNCHANGED pollVars ELSE SendPoll
  /\ UNCHANGED <<known, cancelled, lastResult, server, faults>>

StopSettled == stopping \in {"ok", "failed"}

(* The await of the stop request in runSearchJob's finally.                *)
StopAwaited ==
  /\ run = "stopping"
  /\ StopSettled
  /\ Return(IF stopping = "failed" THEN "stuck" ELSE ending)
  /\ UNCHANGED <<known, cancelled, lastResult, pollVars, stopVars, server, faults>>

-----------------------------------------------------------------------------
(* requestJobStop; its requests concern the job that is current, because   *)
(* runSearchJob does not return before it has settled.                     *)

(* The server's yes: the job is to end, or has ended.                      *)
StopAnswered ==
  /\ stopping = "sent"
  /\ server[current] \in {"cancelling", "ended"}
  /\ stopping' = "ok"
  /\ attempts' = 0
  /\ UNCHANGED <<current, run, known, cancelled, lastResult, ending, pollVars, server, faults>>

(* One fault may cost a stop all of its attempts.                          *)
StopFails ==
  /\ stopping = "sent"
  /\ IF attempts = 1 THEN Fault ELSE UNCHANGED faults
  /\ IF attempts < StopAttempts
     THEN stopping' = "rest" /\ UNCHANGED attempts
     ELSE stopping' = "failed" /\ attempts' = 0
  /\ UNCHANGED <<current, run, known, cancelled, lastResult, ending, pollVars, server>>

StopRetried ==
  /\ stopping = "rest"
  /\ stopping' = "sent"
  /\ attempts' = attempts + 1
  /\ UNCHANGED <<current, run, known, cancelled, lastResult, ending, pollVars, server,
                 faults>>

-----------------------------------------------------------------------------
(* cancelSearchJob and stopSearchJob, as parts of the caller's task.  The   *)
(* abort of a poll makes runSearchJob go on to its finally at once.        *)

CancelSearchJob_OnlyPolls ==
  /\ IF run = "poll"
     THEN AwaitStop("cancelled") /\ cancelled' = TRUE /\ poll' = "none" /\ reply' = NoReply
     ELSE UNCHANGED <<current, run, cancelled, ending, pollVars, stopVars>>
  /\ UNCHANGED <<known, lastResult, server, faults>>
CancelSearchJob ==
  /\ cancelled' = (cancelled \/ current # NoJob)
  /\ IF run = "poll"
     THEN AwaitStop("cancelled") /\ poll' = "none" /\ reply' = NoReply
     ELSE UNCHANGED <<current, run, ending, pollVars, stopVars>>
  /\ UNCHANGED <<known, lastResult, server, faults>>

StopSearchJob ==
  /\ cancelled' = (cancelled \/ current # NoJob)
  /\ IF run = "poll"
     THEN AwaitStop("cancelled") /\ poll' = "none" /\ reply' = NoReply
     ELSE /\ IF current # NoJob /\ known THEN EnsureJobStopped ELSE UNCHANGED stopVars
          /\ UNCHANGED <<current, run, ending, pollVars>>
  /\ UNCHANGED <<known, lastResult, server, faults>>

-----------------------------------------------------------------------------
(* The server and the network.                                             *)

pageJobVars == <<current, run, known, cancelled, lastResult, ending, stopVars, faults>>

(* A start request arrives, however late.  If the page has given it up, a   *)
(* refusal tells nobody anything, as if it had never arrived.              *)
ServerStarts(h) ==
  /\ server[h] = "requested"
  /\ \E fate \in {"running", IF h = current THEN "refused" ELSE "ended"} :
       server' = [server EXCEPT ![h] = fate]
  /\ UNCHANGED <<pageJobVars, pollVars>>

(* cancelRequested is set: the lease has lapsed, or a stop request arrives, *)
(* however late, for a job that the page has given up.                     *)
ServerCancels(h) ==
  /\ server[h] = "running"
  /\ server' = [server EXCEPT ![h] = "cancelling"]
  /\ UNCHANGED <<pageJobVars, pollVars>>

(* A stop request of the current job arrives, one that the page no longer  *)
(* waits for included.                                                     *)
ServerStops ==
  /\ attempts > 0
  /\ current # NoJob
  /\ ServerCancels(current)

(* The search is finished, or has noticed that it is cancelled, or the      *)
(* server restarts.                                                        *)
ServerEnds(h) ==
  /\ IsRunning(h)
  /\ server' = [server EXCEPT ![h] = "ended"]
  /\ UNCHANGED <<pageJobVars, pollVars>>

(* A cancelled search looks at cancelRequested again.                      *)
ServerNotices(h) == server[h] = "cancelling" /\ ServerEnds(h)

(* The poll is answered, with a result if there is a newer one than the     *)
(* page has seen: a search publishes one whenever a depth is complete, and  *)
(* always one when it ends.                                                *)
ServerPolled ==
  /\ poll = "sent"
  /\ poll' = "answered"
  /\ reply' \in {r \in Reply : r.running = IsRunning(current) /\ (r.running \/ r.result)}
  /\ UNCHANGED <<pageJobVars, server>>

ServerStep ==
  \/ \E h \in Job : ServerStarts(h) \/ ServerCancels(h) \/ ServerEnds(h)
  \/ ServerStops
  \/ ServerPolled
=============================================================================
