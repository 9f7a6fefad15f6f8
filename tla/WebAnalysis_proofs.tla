------------------------- MODULE WebAnalysis_proofs -------------------------
(***************************************************************************)
(* Proofs about WebAnalysis and the search job it runs (PageJob), for any  *)
(* positions, jobs and failures: what is shown is of the position on the   *)
(* board; a run that ends leaves no uncancelled job behind that it knows   *)
(* of; and the loop starts no job while an earlier one of this analysis    *)
(* may run uncancelled.                                                    *)
(***************************************************************************)
EXTENDS WebAnalysis, TLAPS

JobTypes ==
  /\ current \in Job \union {NoJob}
  /\ run \in {"idle", "start", "poll", "pause", "stopping", "returned"}
  /\ known \in BOOLEAN
  /\ cancelled \in BOOLEAN
  /\ lastResult \in BOOLEAN
  /\ ending \in {"none", "error", "timeout", "result", "cancelled", "stuck"}
  /\ poll \in {"none", "sent", "answered"}
  /\ reply \in Reply
  /\ stopping \in {"none", "sent", "rest", "ok", "failed"}
  /\ attempts \in 0 .. StopAttempts
  /\ server \in [Job -> {"requested", "refused", "running", "cancelling", "ended"}]
  /\ faults \in 0 .. MaxFaults

LoopTypes ==
  /\ analyzing \in BOOLEAN
  /\ moved \in BOOLEAN
  /\ debouncing \in BOOLEAN
  /\ loop \in {"none", "search", "debounce"}
  /\ key \in Position

ShowTypes ==
  /\ result \in Position \union {NoResult}
  /\ view \in Position \union {"empty", "loading", "error"}
  /\ cached \in SUBSET Position

ModeTypes ==
  /\ mode \in Mode
  /\ requested \in Mode
  /\ fresh \in BOOLEAN
  /\ transition \in {"none", "sleep", "stopping"}
  /\ target \in Mode
  /\ resume \in BOOLEAN
  /\ awaited \in BOOLEAN

StrayTypes == older \in SUBSET Job /\ broken \in SUBSET Job

PageTypes == pos \in Position /\ LoopTypes /\ ShowTypes /\ ModeTypes /\ StrayTypes

(* Every variable has its type.                                             *)
TypeOK == JobTypes /\ PageTypes

(* A run has a job until it returns; it knows the job's id from the answer   *)
(* to the start request on, and then the server has or had the job.         *)
RunInv ==
  /\ run \in {"start", "poll", "pause", "stopping"} <=> current # NoJob
  /\ run = "start" => ~known
  /\ run \in {"poll", "pause", "stopping"} => known
  /\ current # NoJob /\ known => server[current] \in {"running", "cancelling", "ended"}

(* A poll that says "not running" and a stop that is confirmed, that the job *)
(* is to end, are right for as long as the run has the job.                 *)
AnswerInv ==
  /\ run = "poll" <=> poll # "none"
  /\ poll = "answered" /\ ~reply.running => server[current] = "ended"
  /\ run = "stopping" => stopping # "none"
  /\ run = "poll" => stopping = "none"
  /\ run = "pause" /\ stopping # "none" => cancelled
  /\ current # NoJob /\ stopping # "none" => known
  /\ current # NoJob /\ stopping = "ok" => server[current] \in {"cancelling", "ended"}
  /\ stopping \in {"sent", "rest"} => current # NoJob
  /\ stopping = "rest" => attempts < StopAttempts

JobInv == JobTypes /\ RunInv /\ AnswerInv

LoopInv == loop = "search" <=> run # "idle"

(* Of the jobs that may run uncancelled, all but the current one are from    *)
(* before this analysis or lost their start request's connection, unless    *)
(* the run is about to say that it could not stop its job.                  *)
SerialInv ==
  loop # "none" =>
    \/ Uncancelled \subseteq older \union broken \union {current}
    \/ run = "returned" /\ PreventsRestart(ending)

IInv == JobInv /\ PageTypes /\ LoopInv /\ SerialInv /\ ShownIsOfPosition

-----------------------------------------------------------------------------
(* A run begins: its job is one that is over.                                *)
LEMMA UnusedIsOver == Over # {} => Unused \in Over
  BY DEF Unused

LEMMA BeginRunKeeps ==
  ASSUME JobInv, BeginRun
  PROVE  /\ JobInv' /\ run' = "start"
         /\ current' \in Job /\ Uncancelled' = Uncancelled \union {current'}
  <1>1. current' \in Over /\ current' = Unused BY UnusedIsOver DEF BeginRun
  <1>2. current' \in Job /\ current' # NoJob BY <1>1, JobAssumption DEF Over
  <1>3. server' = [h \in Job |-> IF h = current' THEN "requested"
                                 ELSE IF h \in Over THEN "ended" ELSE server[h]]
    BY <1>1 DEF BeginRun
  <1>4. JobTypes'
    <2>1. server' \in [Job -> {"requested", "refused", "running", "cancelling", "ended"}]
      BY <1>3 DEF JobInv, JobTypes
    <2>2. attempts' \in 0 .. StopAttempts /\ faults' \in 0 .. MaxFaults
      BY AttemptsAssumption DEF BeginRun, JobInv, JobTypes
    <2>3. reply' \in Reply BY DEF BeginRun, Reply, NoReply
    <2> QED BY <1>2, <2>1, <2>2, <2>3 DEF BeginRun, JobTypes
  <1>5. RunInv' /\ AnswerInv' BY <1>2 DEF BeginRun, RunInv, AnswerInv, NoReply
  <1>6. Uncancelled' = Uncancelled \union {current'}
    BY <1>2, <1>3 DEF Uncancelled, Over
  <1> QED BY <1>2, <1>4, <1>5, <1>6 DEF JobInv, BeginRun

LEMMA RunConsumedKeeps ==
  ASSUME JobInv, run = "returned", RunConsumed
  PROVE  /\ JobInv' /\ run' = "idle" /\ current' = NoJob /\ current = NoJob
         /\ Uncancelled' = Uncancelled /\ older' = older /\ broken' = broken
  <1> USE DEF RunConsumed, pollVars, stopVars, strayVars, JobInv
  <1>1. JobTypes' BY DEF JobTypes
  <1>2. current = NoJob BY DEF RunInv
  <1>3. RunInv' /\ AnswerInv' BY <1>2 DEF RunInv, AnswerInv
  <1>4. Uncancelled' = Uncancelled BY DEF Uncancelled
  <1> QED BY <1>1, <1>2, <1>3, <1>4

-----------------------------------------------------------------------------
(* What the page does about its job leaves the jobs at the server alone.     *)
LEMMA EnsureJobStoppedKeeps ==
  ASSUME JobTypes, EnsureJobStopped
  PROVE  /\ stopping' \in {"sent", "rest", "ok", "failed"}
         /\ attempts' \in 0 .. StopAttempts
         /\ (stopping' = stopping /\ attempts' = attempts) \/ stopping' = "sent"
  BY AttemptsAssumption DEF EnsureJobStopped, JobTypes, stopVars

(* The run gives up its job: that is over, or cancelled, or said to be stuck. *)
Ends ==
  current # NoJob /\ current' = NoJob =>
    \/ current \notin Uncancelled
    \/ known /\ ending' = "stuck"
    \/ StartFails

(* A task of the page that concerns the job.                                 *)
PageStep ==
  \/ StartAnswered \/ StartRefused \/ StartFails \/ PollAnswered \/ PollFails \/ PauseEnds
  \/ StopAwaited \/ StopAnswered \/ StopFails \/ StopRetried
  \/ CancelSearchJob \/ StopSearchJob

(* What is left as it was.                                                   *)
LEMMA PageStepFrame ==
  ASSUME JobInv, PageStep
  PROVE  /\ server' = server
         /\ current' = current \/ current' = NoJob
         /\ run # "idle" <=> run' # "idle"
         /\ run = "returned" => run' = "returned" /\ ending' = ending
         /\ current # NoJob /\ current' = NoJob => run' = "returned"
  <1> USE DEF JobInv, RunInv, Return, AwaitStop, SendPoll
  <1>1. CASE StartAnswered \/ StartRefused \/ StartFails
    BY <1>1 DEF StartAnswered, StartRefused, StartFails
  <1>2. CASE PollAnswered \/ PollFails \/ PauseEnds
    BY <1>2 DEF PollAnswered, PollFails, PauseEnds
  <1>3. CASE StopAwaited \/ StopAnswered \/ StopFails \/ StopRetried
    BY <1>3 DEF StopAwaited, StopAnswered, StopFails, StopRetried
  <1>4. CASE CancelSearchJob \/ StopSearchJob
    BY <1>4 DEF CancelSearchJob, StopSearchJob
  <1> QED BY <1>1, <1>2, <1>3, <1>4 DEF PageStep

(* A run that goes to its finally and waits for the stop of its job.         *)
LEMMA AwaitStopKeeps ==
  ASSUME JobInv, NEW how \in {"cancelled", "error"}, AwaitStop(how),
         run \in {"start", "poll", "pause"}, known',
         run = "start" => server[current] \in {"running", "cancelling", "ended"},
         known' \in BOOLEAN, cancelled' \in BOOLEAN, faults' \in 0 .. MaxFaults,
         poll' = "none", reply' \in Reply,
         lastResult' = lastResult, UNCHANGED server
  PROVE  JobInv' /\ current' = current
  <1> USE DEF JobInv
  <1>1. /\ stopping' \in {"sent", "rest", "ok", "failed"}
        /\ attempts' \in 0 .. StopAttempts
        /\ (stopping' = stopping /\ attempts' = attempts) \/ stopping' = "sent"
    BY EnsureJobStoppedKeeps DEF AwaitStop
  <1>2. JobTypes' BY <1>1 DEF JobTypes, AwaitStop
  <1>3. RunInv' BY DEF RunInv, AwaitStop
  <1>4. AnswerInv' BY <1>1 DEF AnswerInv, RunInv, AwaitStop
  <1> QED BY <1>2, <1>3, <1>4 DEF AwaitStop

LEMMA SendPollKeeps ==
  ASSUME JobInv, SendPoll, run \in {"start", "pause"}, known', known' \in BOOLEAN,
         run = "start" => server[current] \in {"running", "cancelling", "ended"}, ~cancelled,
         UNCHANGED <<cancelled, lastResult, server, faults>>
  PROVE  JobInv' /\ current' = current
  <1> USE DEF JobInv, SendPoll, stopVars
  <1>1. JobTypes' BY DEF JobTypes
  <1>2. RunInv' BY DEF RunInv
  <1>3. AnswerInv' BY DEF AnswerInv, RunInv
  <1> QED BY <1>1, <1>2, <1>3

(* A run that returns without waiting.                                       *)
LEMMA ReturnKeeps ==
  ASSUME JobInv, NEW how \in {"error", "timeout", "result", "cancelled", "stuck"}, Return(how),
         run \in {"start", "poll", "stopping"},
         stopping \notin {"sent", "rest"}, poll' = "none",
         reply' \in Reply, lastResult' \in BOOLEAN,
         faults' \in 0 .. MaxFaults, UNCHANGED <<known, cancelled, stopVars, server>>
  PROVE  JobInv' /\ current' = NoJob
  <1> USE DEF JobInv, Return, stopVars
  <1>1. JobTypes' BY DEF JobTypes
  <1>2. RunInv' BY DEF RunInv
  <1>3. AnswerInv' BY DEF AnswerInv, RunInv
  <1> QED BY <1>1, <1>2, <1>3

LEMMA StartKeeps ==
  ASSUME JobInv, StartAnswered \/ StartRefused \/ StartFails
  PROVE  JobInv' /\ Ends
  <1> USE DEF JobInv
  <1>1. CASE StartAnswered
    <2>1. /\ run = "start" /\ known' = TRUE
          /\ server[current] \in {"running", "cancelling", "ended"}
          /\ poll = "none" /\ cancelled' = cancelled
      BY <1>1 DEF StartAnswered, AnswerInv, JobTypes
    <2>2. CASE cancelled
      <3>1. AwaitStop("cancelled") /\ UNCHANGED pollVars BY <1>1, <2>2 DEF StartAnswered
      <3>2. JobInv' /\ current' = current
        BY <1>1, <2>1, <3>1, AwaitStopKeeps DEF StartAnswered, JobTypes, pollVars
      <3> QED BY <3>2 DEF Ends
    <2>3. CASE ~cancelled
      <3>1. SendPoll BY <1>1, <2>3 DEF StartAnswered
      <3>2. JobInv' /\ current' = current
        BY <1>1, <2>1, <2>3, <3>1, SendPollKeeps DEF StartAnswered
      <3> QED BY <3>2 DEF Ends
    <2> QED BY <2>2, <2>3
  <1>2. CASE StartRefused
    <2>1. run = "start" /\ Return("error") /\ server[current] = "refused"
      BY <1>2 DEF StartRefused
    <2>2. poll = "none" /\ stopping = "none" BY <2>1 DEF AnswerInv, RunInv, JobTypes
    <2>3. JobInv' BY <1>2, <2>1, <2>2, ReturnKeeps DEF StartRefused, JobTypes, pollVars
    <2> QED BY <2>1, <2>3 DEF Ends, Uncancelled
  <1>3. CASE StartFails
    <2>1. /\ run = "start" /\ \E how \in {"error", "timeout"} : Return(how)
          /\ faults' \in 0 .. MaxFaults
      BY <1>3, FaultsAssumption DEF StartFails, Fault, JobTypes
    <2>2. poll = "none" /\ stopping = "none" BY <2>1 DEF AnswerInv, RunInv, JobTypes
    <2>3. JobInv' BY <1>3, <2>1, <2>2, ReturnKeeps DEF StartFails, JobTypes, pollVars
    <2> QED BY <1>3, <2>3 DEF Ends
  <1> QED BY <1>1, <1>2, <1>3

LEMMA PollKeeps ==
  ASSUME JobInv, PollAnswered \/ PollFails \/ PauseEnds
  PROVE  JobInv' /\ Ends
  <1> USE DEF JobInv
  <1>1. CASE PollAnswered
    <2>1. /\ run = "poll" /\ poll = "answered" /\ poll' = "none" /\ reply' = NoReply
          /\ stopping = "none" /\ known /\ lastResult' \in BOOLEAN
          /\ NoReply \in Reply
      BY <1>1 DEF PollAnswered, RunInv, AnswerInv, JobTypes, Reply, NoReply
    <2>2. CASE reply.running
      <3>1. run' = "pause" /\ UNCHANGED <<current, ending>> BY <1>1, <2>2 DEF PollAnswered
      <3>2. JobTypes' BY <1>1, <2>1, <3>1 DEF PollAnswered, JobTypes, stopVars
      <3>3. RunInv' BY <1>1, <2>1, <3>1 DEF PollAnswered, RunInv, stopVars
      <3>4. AnswerInv'
        BY <1>1, <2>1, <3>1 DEF PollAnswered, AnswerInv, RunInv, stopVars
      <3> QED BY <3>1, <3>2, <3>3, <3>4 DEF Ends
    <2>3. CASE ~reply.running
      <3>1. Return("result") /\ server[current] = "ended"
        BY <1>1, <2>1, <2>3 DEF PollAnswered, AnswerInv
      <3>2. JobInv' BY <1>1, <2>1, <3>1, ReturnKeeps DEF PollAnswered, JobTypes
      <3> QED BY <3>1, <3>2 DEF Ends, Uncancelled
    <2> QED BY <2>2, <2>3
  <1>2. CASE PollFails
    <2>1. /\ run = "poll" /\ AwaitStop("error") /\ known /\ known' = known /\ cancelled' = TRUE
          /\ poll' = "none" /\ reply' \in Reply
          /\ faults' \in 0 .. MaxFaults
      BY <1>2, FaultsAssumption DEF PollFails, Fault, RunInv, JobTypes, Reply, NoReply
    <2>2. JobInv' /\ current' = current
      BY <1>2, <2>1, AwaitStopKeeps DEF PollFails, JobTypes
    <2> QED BY <2>2 DEF Ends
  <1>3. CASE PauseEnds
    <2>1. run = "pause" /\ known /\ known' = known /\ poll = "none"
      BY <1>3 DEF PauseEnds, RunInv, AnswerInv, JobTypes
    <2>2. CASE cancelled
      <3>1. AwaitStop("cancelled") /\ UNCHANGED pollVars BY <1>3, <2>2 DEF PauseEnds
      <3>2. JobInv' /\ current' = current
        BY <1>3, <2>1, <3>1, AwaitStopKeeps DEF PauseEnds, JobTypes, pollVars
      <3> QED BY <3>2 DEF Ends
    <2>3. CASE ~cancelled
      <3>1. SendPoll BY <1>3, <2>3 DEF PauseEnds
      <3>2. JobInv' /\ current' = current
        BY <1>3, <2>1, <2>3, <3>1, SendPollKeeps DEF PauseEnds, JobTypes
      <3> QED BY <3>2 DEF Ends
    <2> QED BY <2>2, <2>3
  <1> QED BY <1>1, <1>2, <1>3

LEMMA StopKeeps ==
  ASSUME JobInv, StopAwaited \/ StopAnswered \/ StopFails \/ StopRetried
  PROVE  JobInv' /\ Ends
  <1> USE DEF JobInv, pollVars
  <1>1. CASE StopAwaited
    <2>1. /\ run = "stopping" /\ stopping \in {"ok", "failed"} /\ known /\ poll = "none"
          /\ current # NoJob
      BY <1>1 DEF StopAwaited, StopSettled, RunInv, AnswerInv, JobTypes
    <2>2. PICK how \in {"none", "error", "timeout", "result", "cancelled", "stuck"} :
            Return(how) /\ how = IF stopping = "failed" THEN "stuck" ELSE ending
      BY <1>1 DEF StopAwaited, JobTypes
    <2>3. JobTypes' BY <1>1, <2>2 DEF StopAwaited, JobTypes, Return, stopVars
    <2>4. RunInv' BY <1>1, <2>1, <2>2 DEF StopAwaited, RunInv, Return, stopVars
    <2>5. AnswerInv' BY <1>1, <2>1, <2>2 DEF StopAwaited, AnswerInv, Return, stopVars
    <2>6. stopping = "ok" => server[current] \in {"cancelling", "ended"} BY <2>1 DEF AnswerInv
    <2>7. Ends BY <2>1, <2>2, <2>6 DEF Ends, Uncancelled, Return
    <2> QED BY <2>3, <2>4, <2>5, <2>7
  <1>2. CASE StopAnswered
    <2>1. JobTypes' BY <1>2, AttemptsAssumption DEF StopAnswered, JobTypes
    <2>2. RunInv' BY <1>2 DEF StopAnswered, RunInv
    <2>3. AnswerInv' BY <1>2 DEF StopAnswered, AnswerInv
    <2> QED BY <1>2, <2>1, <2>2, <2>3 DEF Ends, StopAnswered
  <1>3. CASE StopFails
    <2>1. faults' \in 0 .. MaxFaults BY <1>3, FaultsAssumption DEF StopFails, Fault, JobTypes
    <2>2. JobTypes' BY <1>3, <2>1, AttemptsAssumption DEF StopFails, JobTypes
    <2>3. RunInv' BY <1>3 DEF StopFails, RunInv
    <2>4. AnswerInv' BY <1>3 DEF StopFails, AnswerInv
    <2> QED BY <1>3, <2>2, <2>3, <2>4 DEF Ends, StopFails
  <1>4. CASE StopRetried
    <2>1. attempts' \in 0 .. StopAttempts
      BY <1>4, AttemptsAssumption DEF StopRetried, AnswerInv, JobTypes
    <2>2. JobTypes' BY <1>4, <2>1 DEF StopRetried, JobTypes
    <2>3. RunInv' BY <1>4 DEF StopRetried, RunInv
    <2>4. AnswerInv' BY <1>4 DEF StopRetried, AnswerInv
    <2> QED BY <1>4, <2>2, <2>3, <2>4 DEF Ends, StopRetried
  <1> QED BY <1>1, <1>2, <1>3, <1>4

LEMMA CancelKeeps ==
  ASSUME JobInv, CancelSearchJob \/ StopSearchJob
  PROVE  JobInv' /\ Ends
  <1> USE DEF JobInv
  <1>1. cancelled' = (cancelled \/ current # NoJob) /\ cancelled' \in BOOLEAN
    BY DEF CancelSearchJob, StopSearchJob, JobTypes
  <1>2. CASE run = "poll"
    <2>1. known BY <1>2 DEF RunInv
    <2>2. AwaitStop("cancelled") /\ known' = known /\ poll' = "none" /\ reply' = NoReply
      BY <1>2, Zenon DEF CancelSearchJob, StopSearchJob
    <2>3. NoReply \in Reply BY DEF Reply, NoReply
    <2>4. JobInv' /\ current' = current
      BY <1>1, <1>2, <2>1, <2>2, <2>3, AwaitStopKeeps DEF CancelSearchJob, StopSearchJob, JobTypes
    <2> QED BY <2>4 DEF Ends
  <1>3. CASE run # "poll"
    <2>1. /\ UNCHANGED <<current, run, known, lastResult, ending, pollVars, server, faults>>
          /\ UNCHANGED stopVars \/ (current # NoJob /\ known /\ EnsureJobStopped)
      BY <1>3 DEF CancelSearchJob, StopSearchJob
    <2>2. \/ stopping' = stopping /\ attempts' = attempts
          \/ /\ current # NoJob /\ known /\ stopping = "none" /\ stopping' = "sent"
             /\ attempts' \in 0 .. StopAttempts
      BY <2>1, AttemptsAssumption DEF EnsureJobStopped, stopVars
    <2>3. JobTypes' BY <1>1, <2>1, <2>2 DEF JobTypes, pollVars
    <2>4. RunInv' BY <2>1, <2>2 DEF RunInv
    <2>5. AnswerInv' BY <1>1, <1>3, <2>1, <2>2 DEF AnswerInv, RunInv, pollVars
    <2> QED BY <2>1, <2>3, <2>4, <2>5 DEF Ends
  <1> QED BY <1>2, <1>3

LEMMA PageStepKeeps ==
  ASSUME JobInv, PageStep
  PROVE  JobInv' /\ Ends
  BY StartKeeps, PollKeeps, StopKeeps, CancelKeeps DEF PageStep

(* No job that may run gets out of sight, but for a failed start request.    *)
LEMMA PageStepSerial ==
  ASSUME JobInv, PageStep, ~StartFails, SerialInv, UNCHANGED <<older, broken>>,
         loop' # "none" => loop # "none"
  PROVE  SerialInv'
  <1>1. Uncancelled' = Uncancelled BY PageStepFrame DEF Uncancelled
  <1>2. CASE run = "returned" /\ PreventsRestart(ending)
    <2>1. run' = "returned" /\ ending' = ending BY <1>2, PageStepFrame
    <2> QED BY <1>2, <2>1 DEF SerialInv, PreventsRestart
  <1>3. CASE current' = current /\ ~(run = "returned" /\ PreventsRestart(ending))
    BY <1>1, <1>3 DEF SerialInv
  <1>4. CASE current # NoJob /\ current' = NoJob
    <2>1. Ends /\ run' = "returned" BY <1>4, PageStepKeeps, PageStepFrame
    <2>2. run # "returned" BY <1>4 DEF JobInv, RunInv
    <2>3. CASE current \notin Uncancelled BY <1>1, <2>2, <2>3 DEF SerialInv
    <2>4. CASE ending' = "stuck" BY <2>1, <2>4 DEF SerialInv, PreventsRestart
    <2> QED BY <1>4, <2>1, <2>3, <2>4 DEF Ends
  <1> QED BY <1>2, <1>3, <1>4, PageStepFrame

-----------------------------------------------------------------------------
(* The server takes up jobs, cancels and ends them; it begins none by itself. *)
LEMMA ServerStepKeeps ==
  ASSUME JobInv, ServerStep
  PROVE  /\ JobInv' /\ Uncancelled' \subseteq Uncancelled
         /\ UNCHANGED <<current, run, known, cancelled, lastResult, ending>>
  <1> USE DEF JobInv, pageJobVars, pollVars, stopVars
  <1>1. ASSUME NEW h \in Job, ServerStarts(h) \/ ServerCancels(h) \/ ServerEnds(h)
        PROVE  /\ JobInv' /\ Uncancelled' \subseteq Uncancelled
               /\ UNCHANGED <<current, run, known, cancelled, lastResult, ending>>
    <2>1. PICK fate \in {"running", "refused", "cancelling", "ended"} :
            /\ server' = [server EXCEPT ![h] = fate]
            /\ \/ server[h] = "requested" /\ (h = current => fate \in {"running", "refused"})
                                        /\ fate # "cancelling"
               \/ server[h] = "running" /\ fate \in {"cancelling", "ended"}
               \/ server[h] = "cancelling" /\ fate = "ended"
      BY <1>1 DEF ServerStarts, ServerCancels, ServerEnds, IsRunning
    <2>2. UNCHANGED <<pageJobVars, pollVars>>
      BY <1>1 DEF ServerStarts, ServerCancels, ServerEnds
    <2>3. JobTypes' BY <2>1, <2>2 DEF JobTypes
    <2>4. RunInv' BY <2>1, <2>2, JobAssumption DEF RunInv, JobTypes
    <2>5. AnswerInv' BY <2>1, <2>2, JobAssumption DEF AnswerInv, JobTypes
    <2>6. Uncancelled' \subseteq Uncancelled BY <2>1 DEF Uncancelled, JobTypes
    <2> QED BY <2>2, <2>3, <2>4, <2>5, <2>6
  <1>2. CASE ServerPolled
    <2>1. poll = "sent" /\ known /\ current # NoJob /\ run = "poll"
      BY <1>2 DEF ServerPolled, AnswerInv, RunInv, JobTypes
    <2>2. reply' \in Reply /\ reply'.running = IsRunning(current) BY <1>2 DEF ServerPolled
    <2>3. JobTypes' BY <1>2, <2>2 DEF ServerPolled, JobTypes
    <2>4. RunInv' BY <1>2 DEF ServerPolled, RunInv
    <2>5. AnswerInv'
      <3>1. ~reply'.running => server[current] = "ended" BY <2>1, <2>2 DEF RunInv, IsRunning
      <3> QED BY <1>2, <2>1, <3>1 DEF ServerPolled, AnswerInv
    <2> QED BY <1>2, <2>3, <2>4, <2>5 DEF ServerPolled, Uncancelled
  <1>3. CASE ServerStops
    <2>1. current \in Job /\ ServerCancels(current) BY <1>3 DEF ServerStops, JobTypes
    <2> QED BY <1>1, <2>1
  <1> QED BY <1>1, <1>2, <1>3 DEF ServerStep

-----------------------------------------------------------------------------
(* The panel: what a step may leave in it, given the position it leaves.     *)
ShowInv == ShowTypes /\ ShownIsOfPosition

LEMMA ShownCached ==
  ASSUME NEW k \in Position, NEW otherwise \in {"empty", "loading", "error"}
  PROVE  /\ Cached(k) \in {k, NoResult}
         /\ Shown(Cached(k), otherwise) \in {k, otherwise}
         /\ otherwise \notin Position /\ NoResult \notin Position
  BY ResultAssumption DEF Cached, Shown

LEMMA ShownResult ==
  ASSUME ShowInv, pos \in Position
  PROVE  Shown(result, "empty") \in {pos, "empty"}
  BY ResultAssumption DEF Shown, ShowInv, ShownIsOfPosition

LEMMA PanelIsOf ==
  ASSUME NEW k \in Position, pos' = k, result' \in {k, NoResult},
         view' \in {k, "empty", "loading", "error"}, cached' \in SUBSET Position
  PROVE  ShowInv'
  BY ResultAssumption DEF ShowInv, ShowTypes, ShownIsOfPosition

LEMMA PanelStays ==
  ASSUME ShowInv, pos' = pos, result' = result, view' = view, cached' \in SUBSET Position
  PROVE  ShowInv'
  BY DEF ShowInv, ShowTypes, ShownIsOfPosition

LEMMA InvalidateKeeps ==
  ASSUME ShowInv, NEW k \in Position, pos' = k, NEW restart \in BOOLEAN, InvalidateResult(k, restart)
  PROVE  ShowInv'
  <1>1. result' \in {k, NoResult} BY ShownCached DEF InvalidateResult, Lookup
  <1>2. view' \in {k, "empty", "loading"} BY ShownCached DEF InvalidateResult, Lookup
  <1>3. cached' \in SUBSET Position BY DEF InvalidateResult, ShowInv, ShowTypes
  <1> QED BY <1>1, <1>2, <1>3, PanelIsOf

-----------------------------------------------------------------------------
(* A job is started: whatever else may run is accounted for.                 *)
LEMMA LaunchKeeps ==
  ASSUME IInv, NEW earlier, NEW lost, Launch(earlier, lost),
         earlier \in SUBSET Job, lost \in SUBSET Job,
         Uncancelled \subseteq earlier \union lost, pos' = pos,
         analyzing' \in BOOLEAN, debouncing' \in BOOLEAN, ModeTypes'
  PROVE  IInv'
  <1> USE DEF IInv
  <1>1. /\ JobInv' /\ run' = "start" /\ current' \in Job
        /\ Uncancelled' = Uncancelled \union {current'}
    BY BeginRunKeeps DEF Launch
  <1>2. /\ older' = earlier /\ broken' = lost /\ loop' = "search"
        /\ moved' = FALSE /\ key' = pos
    BY DEF Launch
  <1>3. result' \in {pos, NoResult} /\ view' \in {pos, "loading"} /\ cached' = cached
    BY ShownCached DEF Launch, PageTypes
  <1>4. ShowInv' BY <1>3, PanelIsOf DEF PageTypes, ShowTypes
  <1>5. PageTypes' BY <1>2, <1>4 DEF PageTypes, LoopTypes, StrayTypes, ShowInv
  <1>6. LoopInv' BY <1>1, <1>2 DEF LoopInv
  <1>7. SerialInv' BY <1>1, <1>2 DEF SerialInv
  <1> QED BY <1>1, <1>4, <1>5, <1>6, <1>7 DEF ShowInv

(* The loop is over: nothing is asked of the jobs.                           *)
LEMMA LoopStoppedKeeps ==
  ASSUME IInv, NEW still \in BOOLEAN, LoopStopped(still), pos' = pos
  PROVE  ShowInv' /\ loop' = "none" /\ key' = key
  <1> ShowInv BY DEF IInv, PageTypes, ShowInv
  <1>1. result' = result /\ cached' = cached /\ (view' = view \/ view' = Shown(result, "empty"))
    BY DEF LoopStopped, showVars
  <1>2. cached' \in SUBSET Position BY <1>1 DEF ShowInv, ShowTypes
  <1>3. ASSUME view' = view PROVE ShowInv' BY <1>1, <1>2, <1>3, PanelStays
  <1>4. ASSUME view' = Shown(result, "empty") PROVE ShowInv'
    <2>1. view' \in {pos, "empty"} BY <1>4, ShownResult DEF IInv, PageTypes
    <2>2. result' \in {pos, NoResult} BY <1>1 DEF ShowInv, ShownIsOfPosition
    <2>3. pos \in Position BY DEF IInv, PageTypes
    <2> QED BY <1>2, <2>1, <2>2, <2>3, PanelIsOf
  <1> QED BY <1>1, <1>3, <1>4 DEF LoopStopped

LEMMA NextTurnKeeps ==
  ASSUME IInv, NextTurn, run = "returned", Uncancelled \subseteq older \union broken,
         UNCHANGED <<pos, modeVars>>
  PROVE  IInv'
  <1> USE DEF IInv
  <1> ModeTypes' BY DEF PageTypes, ModeTypes, modeVars
  <1> analyzing \in BOOLEAN /\ debouncing \in BOOLEAN BY DEF PageTypes, LoopTypes
  <1>1. CASE ~analyzing \/ mode # "analysis"
    <2>1. LoopStopped(analyzing) /\ RunConsumed /\ UNCHANGED <<analyzing, moved, debouncing>>
      BY <1>1 DEF NextTurn
    <2>2. ShowInv' /\ loop' = "none" /\ key' = key BY <2>1, LoopStoppedKeeps
    <2>3. /\ JobInv' /\ run' = "idle" /\ older' = older /\ broken' = broken
      BY <2>1, RunConsumedKeeps
    <2>4. PageTypes' BY <2>1, <2>2, <2>3 DEF PageTypes, LoopTypes, StrayTypes, ShowInv
    <2> QED BY <2>2, <2>3, <2>4 DEF LoopInv, SerialInv, ShowInv
  <1>2. CASE ~(~analyzing \/ mode # "analysis") /\ debouncing
    <2>1. /\ loop' = "debounce" /\ RunConsumed
          /\ UNCHANGED <<analyzing, moved, debouncing, key, showVars>>
      BY <1>2 DEF NextTurn
    <2>2. /\ JobInv' /\ run' = "idle" /\ older' = older /\ broken' = broken
          /\ Uncancelled' = Uncancelled
      BY <2>1, RunConsumedKeeps
    <2>3. ShowInv' BY <2>1, PanelStays DEF showVars, PageTypes, ShowInv, ShowTypes
    <2>4. PageTypes' BY <2>1, <2>2, <2>3 DEF PageTypes, LoopTypes, StrayTypes, ShowInv
    <2> QED BY <2>1, <2>2, <2>3, <2>4 DEF LoopInv, SerialInv, ShowInv
  <1>3. CASE ~(~analyzing \/ mode # "analysis") /\ ~debouncing
    <2>1. Launch(older, broken) /\ UNCHANGED <<analyzing, debouncing>>
      BY <1>3 DEF NextTurn
    <2>2. older \in SUBSET Job /\ broken \in SUBSET Job BY DEF PageTypes, StrayTypes
    <2> QED BY <2>1, <2>2, LaunchKeeps
  <1> QED BY <1>1, <1>2, <1>3

LEMMA LoopFailsKeeps ==
  ASSUME IInv, LoopFails, RunConsumed, run = "returned", UNCHANGED <<pos, modeVars>>
  PROVE  IInv'
  <1> USE DEF IInv
  <1>1. JobInv' /\ run' = "idle" /\ older' = older /\ broken' = broken BY RunConsumedKeeps
  <1>2. ShowInv'
    BY PanelIsOf DEF LoopFails, PageTypes, ShowTypes, ShownIsOfPosition
  <1>3. PageTypes'
    BY <1>1, <1>2 DEF PageTypes, LoopTypes, ModeTypes, modeVars, StrayTypes, ShowInv, LoopFails
  <1> QED BY <1>1, <1>2, <1>3 DEF LoopInv, SerialInv, ShowInv, LoopFails

LEMMA SearchReturnsKeeps ==
  ASSUME IInv, SearchReturns
  PROVE  IInv'
  <1> USE DEF IInv
  <1>1. run = "returned" /\ UNCHANGED <<pos, modeVars>> /\ loop = "search" /\ current = NoJob
    BY DEF SearchReturns, LoopInv, JobInv, RunInv
  <1>2. ~PreventsRestart(ending) => Uncancelled \subseteq older \union broken
    BY <1>1, JobAssumption DEF SerialInv, Uncancelled
  <1>3. CASE LoopFails /\ RunConsumed BY <1>1, <1>3, LoopFailsKeeps
  <1>4. CASE ~PreventsRestart(ending) /\ NextTurn BY <1>1, <1>2, <1>4, NextTurnKeeps
  <1>5. CASE Complete /\ RunConsumed /\ ~Outdated
    <2>1. JobInv' /\ run' = "idle" /\ older' = older /\ broken' = broken
      BY <1>1, <1>5, RunConsumedKeeps
    <2>2. key = pos BY <1>5 DEF Outdated
    <2>3. ShowInv' BY <1>1, <1>5, <2>2, PanelIsOf DEF Complete, PageTypes, ShowTypes
    <2>4. PageTypes'
      BY <1>1, <1>5, <2>1, <2>3 DEF PageTypes, LoopTypes, ModeTypes, modeVars, StrayTypes, ShowInv,
                                    Complete
    <2> QED BY <1>5, <2>1, <2>3, <2>4 DEF LoopInv, SerialInv, ShowInv, Complete
  <1>6. ending \in {"result", "cancelled"} => ~PreventsRestart(ending) BY DEF PreventsRestart
  <1> QED BY <1>3, <1>4, <1>5, <1>6 DEF SearchReturns

-----------------------------------------------------------------------------
(* A reply, a failure or a timer of the job's requests.                      *)
LEMMA JobTaskKeeps ==
  ASSUME IInv, JobTask, UNCHANGED <<pos, loopVars, modeVars>>
  PROVE  IInv' /\ Ends
  <1> USE DEF IInv, loopVars, modeVars, strayVars
  <1>1. PageStep BY DEF JobTask, PageStep
  <1>2. /\ JobInv' /\ Ends
        /\ server' = server /\ (current' = current \/ current' = NoJob)
        /\ run # "idle" <=> run' # "idle"
    BY <1>1, PageStepKeeps, PageStepFrame
  <1>3. Uncancelled' = Uncancelled BY <1>2 DEF Uncancelled
  <1>4. ShowInv'
    <2>1. CASE PollAnswered /\ Update
      <3>1. cached' \in SUBSET Position
        BY <2>1 DEF Update, PageTypes, LoopTypes, ShowTypes, showVars
      <3>2. CASE result' = key /\ view' = key /\ key = pos
        BY <3>1, <3>2, PanelIsOf DEF PageTypes
      <3>3. CASE result' = result /\ view' = view
        BY <3>1, <3>3, PanelStays DEF PageTypes, ShowInv
      <3> QED BY <2>1, <3>2, <3>3 DEF Update, IsCurrentAnalysis, Outdated, showVars
    <2>2. CASE UNCHANGED showVars
      <3>1. cached' \in SUBSET Position BY <2>2 DEF showVars, PageTypes, ShowTypes
      <3> QED BY <2>2, <3>1, PanelStays DEF showVars, PageTypes, ShowInv
    <2> QED BY <2>1, <2>2 DEF JobTask
  <1>5. older' = older /\ broken \subseteq broken' /\ broken' \in SUBSET Job
    BY DEF JobTask, NoteBroken, PageTypes, StrayTypes, Uncancelled
  <1>6. PageTypes' BY <1>4, <1>5 DEF PageTypes, LoopTypes, ModeTypes, StrayTypes, ShowInv
  <1>7. LoopInv' BY <1>2 DEF LoopInv
  <1>8. SerialInv'
    <2>1. CASE ~StartFails
      <3>1. broken' = broken BY <2>1 DEF JobTask
      <3> QED BY <1>1, <1>5, <2>1, <3>1, PageStepSerial
    <2>2. CASE StartFails /\ current \notin Uncancelled
      <3>1. run = "start" /\ current # NoJob BY <2>2 DEF StartFails, JobInv, RunInv
      <3>2. loop # "none" => Uncancelled \subseteq older \union broken BY <2>2, <3>1 DEF SerialInv
      <3> QED BY <1>3, <1>5, <3>2 DEF SerialInv
    <2>3. CASE StartFails /\ current \in Uncancelled
      <3>1. run = "start" /\ run' = "returned" /\ current' # current
        BY <2>3 DEF StartFails, Return, JobInv, RunInv
      <3>2. ending' \in {"error", "timeout"} BY <2>3 DEF StartFails, Return
      <3>3. NoteBroken
        <4>1. ~StartRefused BY <2>3 DEF StartRefused, Uncancelled
        <4>2. ~StartAnswered BY <3>1 DEF StartAnswered, AwaitStop, SendPoll
        <4>3. ~PollAnswered /\ ~PollFails /\ ~PauseEnds
          BY <3>1 DEF PollAnswered, PollFails, PauseEnds
        <4>4. ~StopAnswered /\ ~StopFails /\ ~StopRetried
          BY <3>1 DEF StopAnswered, StopFails, StopRetried
        <4> QED BY <4>1, <4>2, <4>3, <4>4 DEF JobTask
      <3>4. loop # "none" => Uncancelled \subseteq older \union broken \union {current}
        BY <3>1 DEF SerialInv
      <3>5. CASE ending' = "timeout" BY <3>1, <3>5 DEF SerialInv, PreventsRestart
      <3>6. CASE ending' = "error"
        <4>1. loop # "none" => Uncancelled \subseteq older \union broken' BY <3>3, <3>4, <3>6 DEF NoteBroken
        <4> QED BY <1>3, <1>5, <4>1 DEF SerialInv
      <3> QED BY <3>2, <3>5, <3>6
    <2> QED BY <2>1, <2>2, <2>3
  <1> QED BY <1>2, <1>4, <1>6, <1>7, <1>8 DEF ShowInv

-----------------------------------------------------------------------------
(* What the user and the loops do while the loop of the analysis goes on.    *)
LEMMA JobStays ==
  ASSUME JobInv, UNCHANGED jobVars
  PROVE  JobInv' /\ Uncancelled' = Uncancelled
  <1> USE DEF jobVars, pollVars, stopVars, JobInv
  <1>1. JobTypes' BY DEF JobTypes
  <1>2. RunInv' BY DEF RunInv
  <1>3. AnswerInv' BY DEF AnswerInv
  <1> QED BY <1>1, <1>2, <1>3 DEF Uncancelled

LEMMA PageTaskKeeps ==
  ASSUME IInv, \/ loop' = loop /\ PageStep /\ ~StartFails
               \/ loop' = loop /\ UNCHANGED jobVars
               \/ loop = "debounce" /\ loop' = "none" /\ UNCHANGED jobVars,
         UNCHANGED strayVars, PageTypes', ShowInv'
  PROVE  IInv'
  <1> USE DEF IInv, strayVars
  <1>1. CASE loop' = loop /\ PageStep /\ ~StartFails
    <2>1. JobInv' BY <1>1, PageStepKeeps
    <2>2. SerialInv' BY <1>1, PageStepSerial
    <2>3. LoopInv' BY <1>1, PageStepFrame DEF LoopInv
    <2> QED BY <2>1, <2>2, <2>3 DEF ShowInv
  <1>2. CASE loop' = loop /\ UNCHANGED jobVars
    <2>1. JobInv' /\ Uncancelled' = Uncancelled BY <1>2, JobStays
    <2>2. SerialInv' BY <1>2, <2>1 DEF SerialInv, PreventsRestart, jobVars
    <2>3. LoopInv' BY <1>2 DEF LoopInv, jobVars
    <2> QED BY <2>1, <2>2, <2>3 DEF ShowInv
  <1>3. CASE loop = "debounce" /\ loop' = "none" /\ UNCHANGED jobVars
    <2>1. JobInv' BY <1>3, JobStays
    <2>2. SerialInv' BY <1>3 DEF SerialInv
    <2>3. LoopInv' BY <1>3 DEF LoopInv, jobVars
    <2> QED BY <2>1, <2>2, <2>3 DEF ShowInv
  <1> QED BY <1>1, <1>2, <1>3

LEMMA NoFault ==
  ASSUME JobInv, CancelSearchJob \/ StopSearchJob \/ StopAwaited
  PROVE  ~StartFails
  <1>1. faults' = faults BY DEF CancelSearchJob, StopSearchJob, StopAwaited
  <1>2. faults' # faults + 1 BY <1>1, FaultsAssumption DEF JobInv, JobTypes
  <1> QED BY <1>2 DEF StartFails, Fault

LEMMA StopAwaitedKeeps ==
  ASSUME IInv, StopAwaited, UNCHANGED <<pos, loopVars, showVars, modeVars, strayVars>>
  PROVE  IInv'
  <1> USE DEF IInv, loopVars, showVars, modeVars, strayVars
  <1>1. PageTypes' BY DEF PageTypes, LoopTypes, ShowTypes, ModeTypes, StrayTypes
  <1>2. ShowInv' BY <1>1, PanelStays DEF ShowInv, PageTypes, ShowTypes
  <1>3. PageStep /\ ~StartFails BY NoFault DEF PageStep
  <1> QED BY <1>1, <1>2, <1>3, PageTaskKeeps

LEMMA EditKeeps ==
  ASSUME IInv, NEW k \in Position, Edit(k)
  PROVE  IInv'
  <1> USE DEF IInv
  <1> DEFINE restart == analyzing /\ mode = "analysis"
  <1>1. /\ pos' = k /\ InvalidateResult(k, restart) /\ restart \in BOOLEAN
        /\ moved' = (moved \/ restart) /\ debouncing' = (debouncing \/ restart)
        /\ UNCHANGED <<analyzing, loop, key, modeVars, strayVars>>
    BY DEF Edit, PageTypes, LoopTypes
  <1>2. CancelSearchJob \/ UNCHANGED jobVars BY Zenon DEF Edit
  <1>3. ShowInv' BY <1>1, InvalidateKeeps DEF ShowInv, PageTypes
  <1>4. moved' \in BOOLEAN /\ debouncing' \in BOOLEAN BY <1>1 DEF PageTypes, LoopTypes
  <1>5. PageTypes'
    BY <1>1, <1>3, <1>4 DEF PageTypes, LoopTypes, ModeTypes, StrayTypes, ShowInv, modeVars, strayVars
  <1>6. CancelSearchJob => PageStep /\ ~StartFails BY NoFault DEF PageStep
  <1> QED BY <1>1, <1>2, <1>3, <1>5, <1>6, PageTaskKeeps

LEMMA StartAnalysisKeeps ==
  ASSUME IInv, StartAnalysis, pos' = pos, ModeTypes'
  PROVE  IInv'
  <1>1. Uncancelled \in SUBSET Job /\ {} \in SUBSET Job BY DEF Uncancelled
  <1> QED BY <1>1, LaunchKeeps DEF StartAnalysis

LEMMA StopAnalysisKeeps ==
  ASSUME IInv, StopAnalysis, ModeTypes', UNCHANGED <<pos, strayVars>>
  PROVE  IInv'
  <1> USE DEF IInv
  <1>1. analyzing' = FALSE /\ moved' = TRUE /\ debouncing' = FALSE BY DEF StopAnalysis
  <1>2. CASE loop = "debounce"
    <2>1. LoopStopped(FALSE) /\ UNCHANGED jobVars BY <1>2 DEF StopAnalysis
    <2>2. ShowInv' /\ loop' = "none" /\ key' = key BY <2>1, LoopStoppedKeeps
    <2>3. PageTypes' BY <1>1, <2>2 DEF PageTypes, LoopTypes, StrayTypes, ShowInv, strayVars
    <2> QED BY <1>2, <2>1, <2>2, <2>3, PageTaskKeeps
  <1>3. CASE loop # "debounce"
    <2>1. StopSearchJob /\ UNCHANGED <<loop, key, showVars>> BY <1>3 DEF StopAnalysis
    <2>2. ShowInv' BY <2>1, PanelStays DEF showVars, PageTypes, ShowInv, ShowTypes
    <2>3. PageTypes' BY <1>1, <2>1, <2>2 DEF PageTypes, LoopTypes, StrayTypes, ShowInv, strayVars
    <2>4. PageStep /\ ~StartFails BY <2>1, NoFault DEF PageStep
    <2> QED BY <2>1, <2>2, <2>3, <2>4, PageTaskKeeps
  <1> QED BY <1>2, <1>3

-----------------------------------------------------------------------------
(* The change of mode.                                                       *)
LEMMA NextRequestTypes ==
  ASSUME NEW m \in Mode, NEW r \in Mode, NextRequest(m, r)
  PROVE  /\ transition' \in {"none", "sleep", "stopping"} /\ fresh' \in BOOLEAN
         /\ target' \in Mode
  BY DEF NextRequest

LEMMA CommitModeKeeps ==
  ASSUME IInv, CommitMode(target), UNCHANGED <<jobVars, pos, loopVars, requested, strayVars>>,
         awaited' \in BOOLEAN, resume' \in BOOLEAN
  PROVE  IInv'
  <1> USE DEF IInv
  <1>1. ShowInv'
    <2>1. CASE InvalidateResult(pos, FALSE)
      BY <2>1, InvalidateKeeps DEF ShowInv, PageTypes
    <2>2. CASE UNCHANGED showVars
      BY <2>2, PanelStays DEF showVars, PageTypes, ShowInv, ShowTypes
    <2> QED BY <2>1, <2>2 DEF CommitMode
  <1>2. target \in Mode /\ requested \in Mode BY DEF PageTypes, ModeTypes
  <1>3. ModeTypes' BY <1>2, NextRequestTypes DEF CommitMode, ModeTypes
  <1>4. PageTypes' BY <1>1, <1>3 DEF PageTypes, LoopTypes, StrayTypes, ShowInv, loopVars, strayVars
  <1> QED BY <1>1, <1>4, PageTaskKeeps DEF loopVars

(* A step that changes nothing but the mode's own variables.                 *)
LEMMA ModeKeeps ==
  ASSUME IInv, UNCHANGED <<jobVars, pos, loopVars, showVars, strayVars>>, ModeTypes'
  PROVE  IInv'
  <1> USE DEF IInv, loopVars, showVars
  <1>1. ShowInv' BY PanelStays DEF PageTypes, ShowInv, ShowTypes
  <1>2. PageTypes' BY <1>1 DEF PageTypes, LoopTypes, StrayTypes, ShowInv, strayVars
  <1> QED BY <1>1, <1>2, PageTaskKeeps

LEMMA SetModeKeeps ==
  ASSUME IInv, NEW m \in Mode, SetMode(m)
  PROVE  IInv'
  <1>1. ModeTypes BY DEF IInv, PageTypes
  <1>2. /\ transition' \in {"none", "sleep", "stopping"} /\ fresh' \in BOOLEAN
        /\ target' \in Mode
    BY <1>1, NextRequestTypes DEF SetMode, ModeTypes
  <1>3. ModeTypes' BY <1>1, <1>2 DEF SetMode, ModeTypes
  <1> QED BY <1>3, ModeKeeps DEF SetMode

LEMMA SleepEndsKeeps ==
  ASSUME IInv, SleepEnds
  PROVE  IInv'
  <1>1. ModeTypes /\ UNCHANGED <<pos, requested, strayVars>> BY DEF IInv, PageTypes, SleepEnds
  <1>2. CASE ~fresh
    <2>1. /\ NextRequest(mode, requested)
          /\ UNCHANGED <<jobVars, loopVars, showVars, mode, resume, awaited>>
      BY <1>2 DEF SleepEnds
    <2>2. ModeTypes' BY <1>1, <2>1, NextRequestTypes DEF ModeTypes
    <2> QED BY <1>1, <2>1, <2>2, ModeKeeps
  <1>3. CASE fresh /\ MustStop
    <2>1. /\ resume' = (target = "game" /\ analyzing)
          /\ StopAnalysis
          /\ awaited' = (current # NoJob /\ known)
          /\ transition' = "stopping"
          /\ UNCHANGED <<mode, fresh, target>>
      BY <1>3 DEF SleepEnds
    <2>2. resume' \in BOOLEAN BY <2>1
    <2>3. awaited' \in BOOLEAN BY <2>1
    <2>4. ModeTypes' BY <1>1, <2>1, <2>2, <2>3 DEF ModeTypes
    <2> QED BY <1>1, <2>1, <2>4, StopAnalysisKeeps
  <1>4. CASE fresh /\ ~MustStop
    <2>1. /\ resume' = (target = "game" /\ analyzing)
          /\ CommitMode(target)
          /\ UNCHANGED <<jobVars, loopVars, awaited>>
      BY <1>4 DEF SleepEnds
    <2>2. resume' \in BOOLEAN BY <2>1
    <2>3. awaited' \in BOOLEAN BY <1>1, <2>1 DEF ModeTypes
    <2> QED BY <1>1, <2>1, <2>2, <2>3, CommitModeKeeps
  <1> QED BY <1>2, <1>3, <1>4

LEMMA StopReturnsKeeps ==
  ASSUME IInv, StopReturns
  PROVE  IInv'
  <1>1. ModeTypes /\ UNCHANGED pos /\ awaited' = FALSE /\ resume' = FALSE
    BY DEF IInv, PageTypes, StopReturns
  <1>2. CASE awaited /\ stopping = "failed"
    <2>1. /\ requested' = mode /\ NextRequest(mode, mode)
          /\ UNCHANGED <<jobVars, loopVars, showVars, mode, strayVars>>
      BY <1>2 DEF StopReturns
    <2>2. ModeTypes' BY <1>1, <2>1, NextRequestTypes DEF ModeTypes
    <2> QED BY <1>1, <2>1, <2>2, ModeKeeps
  <1>3. CASE ~(awaited /\ stopping = "failed") /\ fresh
    <2>1. CommitMode(target) /\ UNCHANGED <<jobVars, loopVars, requested, strayVars>>
      BY <1>3 DEF StopReturns
    <2> QED BY <1>1, <2>1, CommitModeKeeps
  <1>4. CASE ~(awaited /\ stopping = "failed") /\ ~fresh
    <2>1. /\ NextRequest(mode, requested) /\ UNCHANGED <<mode, requested>>
          /\ StartAnalysis \/ UNCHANGED <<jobVars, loopVars, showVars, strayVars>>
      BY <1>4 DEF StopReturns
    <2>2. ModeTypes' BY <1>1, <2>1, NextRequestTypes DEF ModeTypes
    <2> QED BY <1>1, <2>1, <2>2, ModeKeeps, StartAnalysisKeeps
  <1> QED BY <1>2, <1>3, <1>4

-----------------------------------------------------------------------------
(* Timers, and the server.                                                   *)
LEMMA DebounceEndsKeeps ==
  ASSUME IInv, DebounceEnds
  PROVE  IInv' /\ Uncancelled \subseteq older \union broken
  <1> USE DEF IInv
  <1>1. run = "idle" /\ current = NoJob /\ loop # "none"
    BY DEF DebounceEnds, LoopInv, JobInv, JobTypes, RunInv
  <1>2. Uncancelled \subseteq older \union broken BY <1>1, JobAssumption DEF SerialInv, Uncancelled
  <1>3. older \in SUBSET Job /\ broken \in SUBSET Job BY DEF PageTypes, StrayTypes
  <1>4. analyzing' \in BOOLEAN /\ debouncing' \in BOOLEAN /\ ModeTypes'
    BY DEF DebounceEnds, PageTypes, LoopTypes, ModeTypes, modeVars
  <1> QED BY <1>2, <1>3, <1>4, LaunchKeeps DEF DebounceEnds

LEMMA WindowPassesKeeps ==
  ASSUME IInv, WindowPasses
  PROVE  IInv'
  <1> USE DEF IInv, WindowPasses
  <1>1. ShowInv' BY PanelStays DEF showVars, PageTypes, ShowInv, ShowTypes
  <1>2. PageTypes'
    BY <1>1 DEF PageTypes, LoopTypes, ModeTypes, StrayTypes, ShowInv, modeVars, strayVars
  <1> QED BY <1>1, <1>2, PageTaskKeeps

LEMMA AtServerKeeps ==
  ASSUME IInv, AtServer(ServerStep)
  PROVE  IInv' /\ current' = current
  <1> USE DEF IInv, AtServer, loopVars, showVars
  <1>1. /\ JobInv' /\ Uncancelled' \subseteq Uncancelled
        /\ UNCHANGED <<current, run, known, cancelled, lastResult, ending>>
    BY ServerStepKeeps
  <1>2. ShowInv' BY PanelStays DEF PageTypes, ShowInv, ShowTypes
  <1>3. PageTypes'
    BY <1>2 DEF PageTypes, LoopTypes, ModeTypes, StrayTypes, ShowInv, modeVars, Uncancelled
  <1>4. LoopInv' BY <1>1 DEF LoopInv
  <1>5. SerialInv'
    <2>1. CASE run = "returned" /\ PreventsRestart(ending)
      BY <1>1, <2>1 DEF SerialInv, PreventsRestart
    <2>2. CASE loop # "none" => Uncancelled \subseteq older \union broken \union {current}
      <3>1. loop # "none" => Uncancelled' \subseteq older' \union broken' \union {current}
        BY <1>1, <2>2
      <3> QED BY <1>1, <3>1 DEF SerialInv
    <2> QED BY <2>1, <2>2 DEF SerialInv
  <1> QED BY <1>1, <1>2, <1>3, <1>4, <1>5 DEF ShowInv

-----------------------------------------------------------------------------
(* The theorems.                                                             *)
LEMMA InitInv == Init => IInv
  <1> SUFFICES ASSUME Init PROVE IInv OBVIOUS
  <1> USE DEF Init, JobInit
  <1>1. JobTypes
    <2>1. 0 \in 0 .. StopAttempts /\ 0 \in 0 .. MaxFaults
      BY AttemptsAssumption, FaultsAssumption
    <2>2. server \in [Job -> {"requested", "refused", "running", "cancelling", "ended"}] OBVIOUS
    <2>3. reply \in Reply BY DEF Reply, NoReply
    <2> QED BY <2>1, <2>2, <2>3 DEF JobTypes
  <1>2. RunInv /\ AnswerInv BY DEF RunInv, AnswerInv
  <1>3. PageTypes BY DEF PageTypes, LoopTypes, ShowTypes, ModeTypes, StrayTypes, Mode
  <1>4. LoopInv /\ SerialInv BY DEF LoopInv, SerialInv
  <1>5. ShownIsOfPosition BY ResultAssumption DEF ShownIsOfPosition
  <1> QED BY <1>1, <1>2, <1>3, <1>4, <1>5 DEF IInv, JobInv

LEMMA NextInv == IInv /\ [Next]_vars => IInv'
  <1> SUFFICES ASSUME IInv, [Next]_vars PROVE IInv' OBVIOUS
  <1>1. CASE Continuation
    BY <1>1, SearchReturnsKeeps, StopReturnsKeeps, StopAwaitedKeeps DEF Continuation
  <1>2. CASE Requests BY <1>2, JobTaskKeeps DEF Requests
  <1>3. CASE UserStep
    <2>1. ASSUME NEW k \in Position, Edit(k) PROVE IInv' BY <2>1, EditKeeps
    <2>2. CASE Start
      <3>1. ModeTypes' BY <2>2 DEF Start, IInv, PageTypes, ModeTypes, modeVars
      <3> QED BY <2>2, <3>1, StartAnalysisKeeps DEF Start
    <2>3. CASE Stop
      <3>1. ModeTypes' BY <2>3 DEF Stop, IInv, PageTypes, ModeTypes, modeVars
      <3> QED BY <2>3, <3>1, StopAnalysisKeeps DEF Stop
    <2>4. ASSUME NEW m \in Mode, SetMode(m) PROVE IInv' BY <2>4, SetModeKeeps
    <2> QED BY <1>3, <2>1, <2>2, <2>3, <2>4 DEF UserStep
  <1>4. CASE DebounceEnds BY <1>4, DebounceEndsKeeps
  <1>5. CASE SleepEnds BY <1>5, SleepEndsKeeps
  <1>6. CASE WindowPasses BY <1>6, WindowPassesKeeps
  <1>7. CASE AtServer(ServerStep) BY <1>7, AtServerKeeps
  <1>8. CASE UNCHANGED vars
    <2>1. ModeTypes' BY <1>8 DEF vars, modeVars, IInv, PageTypes, ModeTypes
    <2> QED BY <1>8, <2>1, ModeKeeps DEF vars
  <1> QED BY <1>1, <1>2, <1>3, <1>4, <1>5, <1>6, <1>7, <1>8 DEF Next, PageTask

(* The invariant holds throughout.                                           *)
THEOREM Invariance == Spec => []IInv
  BY InitInv, NextInv, PTL DEF Spec

(* Every variable of the page and of its job keeps its type.                 *)
THEOREM TypeCorrect == Spec => []TypeOK
  <1>1. IInv => TypeOK BY DEF IInv, JobInv, TypeOK
  <1> QED BY <1>1, Invariance, PTL

(* invalidateResult, the panel's updates and the end of a job never leave a  *)
(* result on the page that is of another position than the one on the board *)
(* (app.js:803-829, 895-995).                                              *)
THEOREM ShownIsCurrent == Spec => []ShownIsOfPosition
  <1>1. IInv => ShownIsOfPosition BY DEF IInv
  <1> QED BY <1>1, Invariance, PTL

-----------------------------------------------------------------------------
(* Which steps end the current job, or begin the next one.                   *)
LEMMA JobChanges ==
  ASSUME IInv, Next
  PROVE  \/ current' = current
         \/ PageStep
         \/ SearchReturns
         \/ DebounceEnds
         \/ loop = "none" /\ current = NoJob
  <1> USE DEF IInv
  <1>1. CASE Continuation
    <2>1. CASE StopReturns
      <3>1. loop = "none" BY <2>1 DEF StopReturns, TransitionReady
      <3>2. current = NoJob BY <3>1 DEF LoopInv, JobInv, JobTypes, RunInv
      <3> QED BY <3>1, <3>2
    <2> QED BY <1>1, <2>1 DEF Continuation, PageStep
  <1>2. CASE Requests BY <1>2 DEF Requests, JobTask, PageStep
  <1>3. CASE UserStep
    <2>1. ASSUME NEW k \in Position, Edit(k) PROVE PageStep \/ current' = current
      <3>1. CancelSearchJob \/ UNCHANGED jobVars BY <2>1, Zenon DEF Edit
      <3> QED BY <3>1 DEF PageStep, jobVars
    <2>2. CASE Start BY <2>2 DEF Start, CanStart
    <2>3. CASE Stop BY <2>3 DEF Stop, StopAnalysis, PageStep, jobVars
    <2>4. ASSUME NEW m \in Mode, SetMode(m) PROVE current' = current
      BY <2>4 DEF SetMode, jobVars
    <2> QED BY <1>3, <2>1, <2>2, <2>3, <2>4 DEF UserStep
  <1>4. CASE SleepEnds
    <2>1. StopAnalysis \/ UNCHANGED jobVars BY <1>4 DEF SleepEnds
    <2> QED BY <2>1 DEF StopAnalysis, PageStep, jobVars
  <1>5. CASE WindowPasses BY <1>5 DEF WindowPasses, jobVars
  <1>6. CASE AtServer(ServerStep) BY <1>6, AtServerKeeps
  <1> QED BY <1>1, <1>2, <1>3, <1>4, <1>5, <1>6 DEF Next, PageTask

(* A job whose id the run knows is given up when it is over or cancelled, or *)
(* with the error that says it could not be stopped (app.js:1084-1095).  It  *)
(* may still run then, but not for ever.                                    *)
THEOREM NoJobIsLeft == Spec => NoJobLeft
  <1> DEFINE Left ==
        current # NoJob /\ current' = NoJob /\ known /\ current \in Uncancelled'
          => ending' = "stuck"
  <1>1. IInv /\ [Next]_vars => [Left]_vars
    <2> SUFFICES ASSUME IInv, Next, current # NoJob, current' = NoJob, known,
                        current \in Uncancelled'
                 PROVE  ending' = "stuck"
      OBVIOUS
    <2>1. CASE PageStep
      <3>1. Ends /\ Uncancelled' = Uncancelled
        BY <2>1, PageStepKeeps, PageStepFrame DEF IInv, Uncancelled
      <3>2. ~StartFails BY DEF StartFails, IInv, JobInv, RunInv
      <3> QED BY <3>1, <3>2 DEF Ends
    <2>2. ~SearchReturns BY DEF SearchReturns, IInv, JobInv, RunInv
    <2>3. ~DebounceEnds BY DEF DebounceEnds, IInv, LoopInv, JobInv, JobTypes, RunInv
    <2> QED BY <2>1, <2>2, <2>3, JobChanges
  <1> QED BY <1>1, Invariance, PTL DEF Spec, NoJobLeft

(* The loop's next job starts when every other of this analysis is over or   *)
(* cancelled, but for those whose start request lost its connection         *)
(* (app.js:917-926, 1075-1077).                                             *)
THEOREM RestartsAreSerial == Spec => RestartIsSerial
  <1> DEFINE Serial == Restart => Uncancelled \subseteq older \union broken
  <1>1. IInv /\ [Next]_vars => [Serial]_vars
    <2> SUFFICES ASSUME IInv, Next, loop # "none", current = NoJob, current' # NoJob
                 PROVE  Uncancelled \subseteq older \union broken
      BY DEF Restart
    <2>1. ~PageStep BY PageStepFrame DEF IInv
    <2>2. CASE SearchReturns
      <3>1. ~RunConsumed BY DEF RunConsumed
      <3>2. ~PreventsRestart(ending) BY <2>2, <3>1 DEF SearchReturns, PreventsRestart
      <3> QED BY <3>2, JobAssumption DEF IInv, SerialInv, Uncancelled
    <2>3. CASE DebounceEnds BY <2>3, DebounceEndsKeeps
    <2> QED BY <2>1, <2>2, <2>3, JobChanges
  <1> QED BY <1>1, Invariance, PTL DEF Spec, RestartIsSerial
=============================================================================
