---------------------------- MODULE AnalysisJobs ----------------------------
(***************************************************************************)
(* The background analysis jobs of the server: AnalysisJobManager          *)
(* (src/service/analysis_jobs.cpp) as the HTTP handlers of src/main.cpp    *)
(* drive it.  Callers are the HTTP worker threads; each executes one       *)
(* request at a time and is interleaved with the others, with the worker   *)
(* thread of every job and with the clock at the granularity of the code's *)
(* critical sections: an action is one stretch of code under jobsMutex, or *)
(* one under a job's own mutex, or one atomic operation.                   *)
(*                                                                         *)
(* A member of Handle is one JobState together with its jthread: both are  *)
(* created by the same start and no handle is used twice.                  *)
(***************************************************************************)
EXTENDS Integers, FiniteSets

CONSTANTS
  Caller,       \* the threads that call the manager
  Handle,       \* the JobStates that may ever be created
  NoCaller,     \* the owner of a free jobsMutex
  NoJob,        \* the entry of an id that is not in the jobs map
  IdSpace,      \* 2^64 in the code: JobId arithmetic is modulo IdSpace
  MaxRunning,   \* kMaxRunningJobs
  MaxDepth,     \* kMaxSearchPly, or limits.maxDepth: iterations of one search
  Lease,        \* infiniteLease
  Retention,    \* completedRetention
  MaxTime,      \* bound: the last reading of the clock
  Ops,          \* the requests that callers make
  Kinds         \* the values of limits.infinite they ask for

ASSUME CallerAssumption    == NoCaller \notin Caller
ASSUME HandleAssumption    == NoJob \notin Handle
ASSUME IdSpaceAssumption   == IdSpace \in Nat /\ IdSpace > 1
ASSUME RunningAssumption   == MaxRunning \in Nat
ASSUME DepthAssumption     == MaxDepth \in Nat
ASSUME LeaseAssumption     == Lease \in Nat \ {0}     \* the constructor's max(lease, 1 ms)
ASSUME RetentionAssumption == Retention \in Nat       \* the constructor's max(retention, 0)
ASSUME TimeAssumption      == MaxTime \in Nat
ASSUME OpsAssumption       == Ops \subseteq {"start", "poll", "stop"}
ASSUME KindsAssumption     == Kinds \subseteq BOOLEAN

JobId == 1 .. IdSpace - 1

(* An AnalysisResult, as far as a poller can tell one from another.         *)
Result   == [kind : {"none", "depth", "final", "cancelled"}, depth : 0 .. MaxDepth]
NoResult == [kind |-> "none", depth |-> 0]

VARIABLES
  now,              \* Clock::now()
  jobsMutex,        \* the caller that holds jobsMutex
  jobs,             \* the map from id to Job
  nextId,
  shuttingDown,
  \* JobState
  infinite, cancelRequested, lastAccess, running, failed, version, latest,
  completedAt,
  \* the worker thread of a job: where it is, the depths completed, the clock
  \* read for the lease test, how the analysis ended
  wpc, depth, wclock, outcome,
  \* a caller: where it is, its request, its locals
  pc, op, arg, clock, todo, counted, retiring, ref,
  \* what the client behind a caller knows of the job it follows
  mem

managerVars == <<jobsMutex, jobs, nextId, shuttingDown>>
stateVars   == <<infinite, cancelRequested, lastAccess, running, failed,
                 version, latest, completedAt>>
workerVars  == <<wpc, depth, wclock, outcome>>
callerVars  == <<pc, op, arg, clock, todo, counted, retiring, ref, mem>>
vars        == <<now, managerVars, stateVars, workerVars, callerVars>>

Registered == {h \in Handle : \E i \in JobId : jobs[i] = h}
LiveIds    == {i \in JobId : jobs[i] # NoJob}
Searching  == {h \in Handle : wpc[h] \in {"search", "lease", "finish"}}
NoMemory   == [job |-> NoJob, version |-> 0, latest |-> NoResult, ended |-> FALSE]

Init ==
  /\ now = 0
  /\ jobsMutex = NoCaller
  /\ jobs = [i \in JobId |-> NoJob]
  /\ nextId = 1
  /\ shuttingDown = FALSE
  /\ infinite        = [h \in Handle |-> FALSE]
  /\ cancelRequested = [h \in Handle |-> FALSE]
  /\ lastAccess      = [h \in Handle |-> 0]
  /\ running         = [h \in Handle |-> FALSE]
  /\ failed          = [h \in Handle |-> FALSE]
  /\ version         = [h \in Handle |-> 0]
  /\ latest          = [h \in Handle |-> NoResult]
  /\ completedAt     = [h \in Handle |-> 0]
  /\ wpc     = [h \in Handle |-> "none"]
  /\ depth   = [h \in Handle |-> 0]
  /\ wclock  = [h \in Handle |-> 0]
  /\ outcome = [h \in Handle |-> "none"]
  /\ pc       = [c \in Caller |-> "idle"]
  /\ op       = [c \in Caller |-> "none"]
  /\ arg      = [c \in Caller |-> [id |-> 1, infinite |-> FALSE]]
  /\ clock    = [c \in Caller |-> 0]
  /\ todo     = [c \in Caller |-> {}]
  /\ counted  = [c \in Caller |-> {}]
  /\ retiring = [c \in Caller |-> {}]
  /\ ref      = [c \in Caller |-> NoJob]
  /\ mem      = [c \in Caller |-> NoMemory]

(***************************************************************************)
(* Requests.  A handler calls the manager with what its request holds: any *)
(* id may be named by a poll or a stop.  The destructor runs when no call  *)
(* is in progress and none can follow (main.cpp destroys the HttpServer,   *)
(* and with it every worker, before the manager).                          *)
(***************************************************************************)
Call(c, operation, id, isInfinite) ==
  /\ ~shuttingDown
  /\ operation \in Ops
  /\ pc[c] = "idle"
  /\ pc'  = [pc EXCEPT ![c] = "lock"]
  /\ op'  = [op EXCEPT ![c] = IF operation = "stop" THEN "stopPoll" ELSE operation]
  /\ arg' = [arg EXCEPT ![c] = [id |-> id, infinite |-> isInfinite]]
  /\ UNCHANGED <<now, managerVars, stateVars, workerVars,
                 clock, todo, counted, retiring, ref, mem>>

CallStart(c) == \E isInfinite \in Kinds : Call(c, "start", 1, isInfinite)
CallPoll(c)  == \E id \in JobId : Call(c, "poll", id, FALSE)
CallStop(c)  == \E id \in JobId : Call(c, "stop", id, FALSE)

(* A request is over: the caller's locals are gone.                         *)
Return(c) ==
  /\ pc'      = [pc EXCEPT ![c] = "idle"]
  /\ op'      = [op EXCEPT ![c] = "none"]
  /\ arg'     = [arg EXCEPT ![c] = [id |-> 1, infinite |-> FALSE]]
  /\ clock'   = [clock EXCEPT ![c] = 0]
  /\ ref'     = [ref EXCEPT ![c] = NoJob]

(***************************************************************************)
(* Under jobsMutex: every operation first collects the expired jobs        *)
(* (start calls collectExpiredLocked, poll and stop call cleanup).  Each   *)
(* job's mutex is taken and released in turn, so that jobs complete        *)
(* between two iterations of the loop.                                     *)
(***************************************************************************)
LockJobs(c) ==
  /\ pc[c] = "lock"
  /\ jobsMutex = NoCaller
  /\ jobsMutex' = c
  /\ clock' = [clock EXCEPT ![c] = now]
  /\ todo'  = [todo EXCEPT ![c] = LiveIds]
  /\ pc'    = [pc EXCEPT ![c] = "collect"]
  /\ UNCHANGED <<now, jobs, nextId, shuttingDown, stateVars, workerVars,
                 op, arg, counted, retiring, ref, mem>>

Expired_Running(h, t)     == t - completedAt[h] >= Retention
Expired_SinceAccess(h, t) == ~running[h] /\ t - lastAccess[h] >= Retention
Expired(h, t) == ~running[h] /\ t - completedAt[h] >= Retention

CollectJob(c) ==
  /\ pc[c] = "collect"
  /\ \E i \in todo[c] :
       /\ todo' = [todo EXCEPT ![c] = @ \ {i}]
       /\ IF Expired(jobs[i], clock[c])
            THEN /\ retiring' = [retiring EXCEPT ![c] = @ \union {jobs[i]}]
                 /\ jobs' = [jobs EXCEPT ![i] = NoJob]
            ELSE UNCHANGED <<retiring, jobs>>
  /\ UNCHANGED <<now, jobsMutex, nextId, shuttingDown, stateVars, workerVars,
                 pc, op, arg, clock, counted, ref, mem>>

(* cleanup returns: jobsMutex is released before the retired threads are    *)
(* joined; start goes on to runningJobsLocked, unless it is shutting down.   *)
CollectDone(c) ==
  /\ pc[c] = "collect"
  /\ todo[c] = {}
  /\ IF op[c] = "start" /\ ~shuttingDown
       THEN /\ todo' = [todo EXCEPT ![c] = LiveIds]
            /\ pc'   = [pc EXCEPT ![c] = "count"]
            /\ UNCHANGED jobsMutex
       ELSE /\ jobsMutex' = NoCaller
            /\ pc' = [pc EXCEPT ![c] = "join"]
            /\ UNCHANGED todo
  /\ UNCHANGED <<now, jobs, nextId, shuttingDown, stateVars, workerVars,
                 op, arg, clock, counted, retiring, ref, mem>>

(* counted[c] is the set of ids behind runningJobsLocked's count.           *)
CountJob(c) ==
  /\ pc[c] = "count"
  /\ \E i \in todo[c] :
       /\ todo' = [todo EXCEPT ![c] = @ \ {i}]
       /\ counted' = [counted EXCEPT ![c] = IF running[jobs[i]] THEN @ \union {i} ELSE @]
  /\ UNCHANGED <<now, managerVars, stateVars, workerVars,
                 pc, op, arg, clock, retiring, ref, mem>>

Full_OffByOne(c) == Cardinality(counted[c]) > MaxRunning
Full(c) == Cardinality(counted[c]) >= MaxRunning

RefuseStart(c) ==
  /\ pc[c] = "count"
  /\ todo[c] = {}
  /\ Full(c)
  /\ jobsMutex' = NoCaller
  /\ counted' = [counted EXCEPT ![c] = {}]
  /\ pc' = [pc EXCEPT ![c] = "join"]
  /\ UNCHANGED <<now, jobs, nextId, shuttingDown, stateVars, workerVars,
                 op, arg, clock, todo, retiring, ref, mem>>

AcceptStart(c) ==
  /\ pc[c] = "count"
  /\ todo[c] = {}
  /\ ~Full(c)
  /\ pc' = [pc EXCEPT ![c] = "allocate"]
  /\ UNCHANGED <<now, managerVars, stateVars, workerVars,
                 op, arg, clock, todo, counted, retiring, ref, mem>>

(* One round of allocateIdLocked's loop: id 0 is skipped, the counter wraps,*)
(* and an id that is still in the map is passed over.                       *)
Candidate == IF nextId = 0 THEN 1 ELSE nextId

NextId(id) == (id + 1) % IdSpace

IsFree_Wrapped(id) == TRUE
IsFree(id) == jobs[id] = NoJob

AllocateId(c) ==
  /\ pc[c] = "allocate"
  /\ nextId' = NextId(Candidate)
  /\ IF IsFree(Candidate)
       THEN /\ arg' = [arg EXCEPT ![c].id = Candidate]
            /\ pc'  = [pc EXCEPT ![c] = "create"]
       ELSE UNCHANGED <<arg, pc>>
  /\ UNCHANGED <<now, jobsMutex, jobs, shuttingDown, stateVars, workerVars,
                 op, clock, todo, counted, retiring, ref, mem>>

(* The JobState is built, registered, its thread started, the mutex         *)
(* released.                                                                *)
CreateJob(c) ==
  /\ pc[c] = "create"
  /\ \E h \in Handle :
       /\ wpc[h] = "none"
       /\ jobs'       = [jobs EXCEPT ![arg[c].id] = h]
       /\ infinite'   = [infinite EXCEPT ![h] = arg[c].infinite]
       /\ lastAccess' = [lastAccess EXCEPT ![h] = now]
       /\ running'    = [running EXCEPT ![h] = TRUE]
       /\ wpc'        = [wpc EXCEPT ![h] = "search"]
  /\ jobsMutex' = NoCaller
  /\ counted' = [counted EXCEPT ![c] = {}]
  /\ pc' = [pc EXCEPT ![c] = "join"]
  /\ UNCHANGED <<now, nextId, shuttingDown, cancelRequested, failed, version,
                 latest, completedAt, depth, wclock, outcome,
                 op, arg, clock, todo, retiring, ref, mem>>

(* std::jthread throws: the entry is erased again, the exception leaves     *)
(* start.  The id stays spent.                                              *)
CreateFails(c) ==
  /\ pc[c] = "create"
  /\ jobsMutex' = NoCaller
  /\ counted' = [counted EXCEPT ![c] = {}]
  /\ pc' = [pc EXCEPT ![c] = "join"]
  /\ UNCHANGED <<now, jobs, nextId, shuttingDown, stateVars, workerVars,
                 op, arg, clock, todo, retiring, ref, mem>>

(* The destructor of `retiring` joins the collected threads, outside        *)
(* jobsMutex.                                                               *)
JoinRetired(c) ==
  /\ pc[c] = "join"
  /\ \A h \in retiring[c] : wpc[h] = "exited"
  /\ retiring' = [retiring EXCEPT ![c] = {}]
  /\ IF op[c] = "start"
       THEN Return(c)
       ELSE /\ pc' = [pc EXCEPT ![c] = "find"]
            /\ clock' = [clock EXCEPT ![c] = 0]
            /\ UNCHANGED <<op, arg, ref>>
  /\ UNCHANGED <<now, managerVars, stateVars, workerVars, todo, counted, mem>>

(***************************************************************************)
(* poll and stop after the cleanup.  The map is searched under jobsMutex;  *)
(* the JobState is kept alive by the shared_ptr (ref) and used after the   *)
(* mutex is released.                                                      *)
(***************************************************************************)
FindJob(c) ==
  /\ pc[c] = "find"
  /\ jobsMutex = NoCaller
  /\ IF jobs[arg[c].id] = NoJob
       THEN Return(c)
       ELSE /\ ref' = [ref EXCEPT ![c] = jobs[arg[c].id]]
            /\ pc'  = [pc EXCEPT ![c] = IF op[c] = "stop" THEN "request" ELSE "clock"]
            /\ UNCHANGED <<op, arg, clock>>
  /\ UNCHANGED <<now, managerVars, stateVars, workerVars,
                 todo, counted, retiring, mem>>

ReadClock(c) ==
  /\ pc[c] = "clock"
  /\ clock' = [clock EXCEPT ![c] = now]
  /\ pc'    = [pc EXCEPT ![c] = "renew"]
  /\ UNCHANGED <<now, managerVars, stateVars, workerVars,
                 op, arg, todo, counted, retiring, ref, mem>>

Lapsed(h, t) == infinite[h] /\ t - lastAccess[h] >= Lease

(* Does the exchange close a gap of a lease or more?                        *)
LateRenewal_Forgiven(c) == FALSE
LateRenewal(c) == Lapsed(ref[c], clock[c])

(* lastAccessMs.exchange(nowMs), and the cancellation if it came too late.  *)
RenewLease(c) ==
  LET h == ref[c] IN
  /\ pc[c] = "renew"
  /\ lastAccess' = [lastAccess EXCEPT ![h] = clock[c]]
  /\ cancelRequested' = [cancelRequested EXCEPT ![h] = @ \/ LateRenewal(c)]
  /\ clock' = [clock EXCEPT ![c] = 0]
  /\ pc' = [pc EXCEPT ![c] = "copy"]
  /\ UNCHANGED <<now, managerVars, infinite, running, failed, version, latest,
                 completedAt, workerVars, op, arg, todo, counted, retiring, ref, mem>>

(* What a client that passes the version it has already seen holds after   *)
(* the reply: a result is sent only if the version is newer.                *)
Copied_WhileRunning(h, m) ==
  LET seen    == IF m.job = h THEN m ELSE NoMemory
      changed == running[h] /\ version[h] > seen.version
  IN  [job     |-> h,
       version |-> version[h],
       latest  |-> IF changed /\ latest[h] # NoResult THEN latest[h] ELSE seen.latest,
       ended   |-> ~running[h]]
Copied(h, m) ==
  LET seen    == IF m.job = h THEN m ELSE NoMemory
      changed == version[h] > seen.version
  IN  [job     |-> h,
       version |-> version[h],
       latest  |-> IF changed /\ latest[h] # NoResult THEN latest[h] ELSE seen.latest,
       ended   |-> ~running[h]]

(* The copy of the state under its mutex.  A poll request is answered with  *)
(* it; the stop handler only wanted to know that the job exists, and calls  *)
(* stop next.                                                               *)
CopyState(c) ==
  /\ pc[c] = "copy"
  /\ IF op[c] = "poll"
       THEN /\ mem' = [mem EXCEPT ![c] = Copied(ref[c], @)]
            /\ Return(c)
       ELSE /\ op'  = [op EXCEPT ![c] = "stop"]
            /\ pc'  = [pc EXCEPT ![c] = "lock"]
            /\ ref' = [ref EXCEPT ![c] = NoJob]
            /\ UNCHANGED <<arg, clock, mem>>
  /\ UNCHANGED <<now, managerVars, stateVars, workerVars, todo, counted, retiring>>

RequestStop(c) ==
  LET h == ref[c] IN
  /\ pc[c] = "request"
  /\ cancelRequested' = [cancelRequested EXCEPT ![h] = @ \/ running[h]]
  /\ Return(c)
  /\ UNCHANGED <<now, managerVars, infinite, lastAccess, running, failed, version,
                 latest, completedAt, workerVars, todo, counted, retiring, mem>>

(***************************************************************************)
(* The worker thread.  Analyzer::analyze is the loop of runEstimate seen   *)
(* from outside: it publishes one snapshot per completed depth, polls      *)
(* shouldCancel at its own pace, and ends with a result or an exception.   *)
(***************************************************************************)
CancelSeen(h) == cancelRequested[h]

PollCancel(h) ==
  /\ wpc[h] = "search"
  /\ IF CancelSeen(h)
       THEN /\ wpc' = [wpc EXCEPT ![h] = "finish"]
            /\ outcome' = [outcome EXCEPT ![h] = "cancelled"]
            /\ UNCHANGED wclock
       ELSE /\ infinite[h]       \* a finite job's leaseExpired reads nothing
            /\ wpc' = [wpc EXCEPT ![h] = "lease"]
            /\ wclock' = [wclock EXCEPT ![h] = now]
            /\ UNCHANGED outcome
  /\ UNCHANGED <<now, managerVars, stateVars, depth, callerVars>>

(* leaseExpired: the clock was read before lastAccessMs is loaded.          *)
CheckLease(h) ==
  /\ wpc[h] = "lease"
  /\ wclock' = [wclock EXCEPT ![h] = 0]
  /\ IF Lapsed(h, wclock[h])
       THEN /\ cancelRequested' = [cancelRequested EXCEPT ![h] = TRUE]
            /\ wpc' = [wpc EXCEPT ![h] = "finish"]
            /\ outcome' = [outcome EXCEPT ![h] = "cancelled"]
       ELSE /\ wpc' = [wpc EXCEPT ![h] = "search"]
            /\ UNCHANGED <<cancelRequested, outcome>>
  /\ UNCHANGED <<now, managerVars, infinite, lastAccess, running, failed, version,
                 latest, completedAt, depth, callerVars>>

(* ++version, at every publication and at the end.                          *)
NextVersion_NotAtEnd(h) == IF wpc[h] = "finish" THEN version[h] ELSE version[h] + 1
NextVersion(h) == version[h] + 1

PublishDepth(h) ==
  /\ wpc[h] = "search"
  /\ depth[h] < MaxDepth
  /\ depth' = [depth EXCEPT ![h] = @ + 1]
  /\ IF running[h]
       THEN /\ latest'  = [latest EXCEPT ![h] = [kind |-> "depth", depth |-> depth[h] + 1]]
            /\ version' = [version EXCEPT ![h] = NextVersion(h)]
       ELSE UNCHANGED <<latest, version>>
  /\ UNCHANGED <<now, managerVars, infinite, cancelRequested, lastAccess, running,
                 failed, completedAt, wpc, wclock, outcome, callerVars>>

(* The search proves something, runs out of time or of depth, or throws.    *)
EndAnalysis(h, how) ==
  /\ wpc[h] = "search"
  /\ wpc' = [wpc EXCEPT ![h] = "finish"]
  /\ outcome' = [outcome EXCEPT ![h] = how]
  /\ UNCHANGED <<now, managerVars, stateVars, depth, wclock, callerVars>>

AnalysisReturns(h) == EndAnalysis(h, "final")
AnalysisThrows(h)  == EndAnalysis(h, "error")

(* complete: a cancelled search does not replace a published snapshot.      *)
EndResult_Replaced(h) == [kind |-> outcome[h], depth |-> depth[h]]
EndResult(h) ==
  IF outcome[h] # "cancelled" \/ latest[h] = NoResult
    THEN [kind |-> outcome[h], depth |-> depth[h]]
    ELSE latest[h]

Complete(h) ==
  /\ wpc[h] = "finish"
  /\ outcome[h] # "error"
  /\ latest'      = [latest EXCEPT ![h] = EndResult(h)]
  /\ version'     = [version EXCEPT ![h] = NextVersion(h)]
  /\ running'     = [running EXCEPT ![h] = FALSE]
  /\ completedAt' = [completedAt EXCEPT ![h] = now]
  /\ wpc' = [wpc EXCEPT ![h] = "leaving"]
  /\ UNCHANGED <<now, managerVars, infinite, cancelRequested, lastAccess, failed,
                 depth, wclock, outcome, callerVars>>

Fail(h) ==
  /\ wpc[h] = "finish"
  /\ outcome[h] = "error"
  /\ failed'      = [failed EXCEPT ![h] = TRUE]
  /\ version'     = [version EXCEPT ![h] = NextVersion(h)]
  /\ running'     = [running EXCEPT ![h] = FALSE]
  /\ completedAt' = [completedAt EXCEPT ![h] = now]
  /\ wpc' = [wpc EXCEPT ![h] = "leaving"]
  /\ UNCHANGED <<now, managerVars, infinite, cancelRequested, lastAccess, latest,
                 depth, wclock, outcome, callerVars>>

(* The Analyzer and the closure are destroyed, the thread function returns. *)
ThreadExits(h) ==
  /\ wpc[h] = "leaving"
  /\ wpc' = [wpc EXCEPT ![h] = "exited"]
  /\ UNCHANGED <<now, managerVars, stateVars, depth, wclock, outcome, callerVars>>

(***************************************************************************)
(* ~Impl: every job is cancelled and taken out of the map under jobsMutex; *)
(* the threads are joined afterwards (Terminated, once they all exited).   *)
(***************************************************************************)
CancelAll == [h \in Handle |-> cancelRequested[h] \/ h \in Registered]

Destroy ==
  /\ ~shuttingDown
  /\ \A c \in Caller : pc[c] = "idle"
  /\ jobsMutex = NoCaller
  /\ shuttingDown' = TRUE
  /\ cancelRequested' = CancelAll
  /\ jobs' = [i \in JobId |-> NoJob]
  /\ UNCHANGED <<now, jobsMutex, nextId, infinite, lastAccess, running, failed,
                 version, latest, completedAt, workerVars, callerVars>>

Terminated == shuttingDown /\ \A h \in Handle : wpc[h] \in {"none", "exited"}

Tick ==
  /\ now < MaxTime
  /\ now' = now + 1
  /\ UNCHANGED <<managerVars, stateVars, workerVars, callerVars>>

UnderMutex(c) ==
  \/ LockJobs(c) \/ CollectJob(c) \/ CollectDone(c)
  \/ CountJob(c) \/ RefuseStart(c) \/ AcceptStart(c)
  \/ AllocateId(c) \/ CreateJob(c) \/ CreateFails(c)

Continue(c) ==
  \/ UnderMutex(c)
  \/ JoinRetired(c) \/ FindJob(c) \/ ReadClock(c) \/ RenewLease(c)
  \/ CopyState(c) \/ RequestStop(c)

Poll(h) == PollCancel(h) \/ CheckLease(h)
End(h)  == Complete(h) \/ Fail(h) \/ ThreadExits(h)

Worker(h) ==
  \/ Poll(h) \/ PublishDepth(h) \/ AnalysisReturns(h) \/ AnalysisThrows(h) \/ End(h)

Next ==
  \/ \E c \in Caller : CallStart(c) \/ CallPoll(c) \/ CallStop(c) \/ Continue(c)
  \/ \E h \in Handle : Worker(h)
  \/ Destroy
  \/ Tick
  \/ Terminated /\ UNCHANGED vars    \* the process is gone

Spec == Init /\ [][Next]_vars

(* Fairness: a thread that can run does run; a running search calls         *)
(* checkDeadline again and again.  Nothing is assumed of the time a search  *)
(* takes to complete a depth or to end by itself.  A caller waiting for     *)
(* jobsMutex gets it at last although others take it again and again: the   *)
(* strong fairness of LockJobs and FindJob.                                 *)
Fairness ==
  /\ \A c \in Caller : WF_vars(Continue(c)) /\ SF_vars(LockJobs(c) \/ FindJob(c))
  /\ \A h \in Handle : WF_vars(Poll(h)) /\ WF_vars(End(h))

FairSpec == Spec /\ Fairness

-----------------------------------------------------------------------------
(* The types of the variables.                                              *)
ManagerTypes ==
  /\ now \in Nat
  /\ jobsMutex \in Caller \union {NoCaller}
  /\ jobs \in [JobId -> Handle \union {NoJob}]
  /\ nextId \in 0 .. IdSpace - 1
  /\ shuttingDown \in BOOLEAN

StateTypes ==
  /\ infinite        \in [Handle -> BOOLEAN]
  /\ cancelRequested \in [Handle -> BOOLEAN]
  /\ lastAccess      \in [Handle -> Nat]
  /\ running         \in [Handle -> BOOLEAN]
  /\ failed          \in [Handle -> BOOLEAN]
  /\ version         \in [Handle -> Nat]
  /\ latest          \in [Handle -> Result]
  /\ completedAt     \in [Handle -> Nat]

WorkerTypes ==
  /\ wpc     \in [Handle -> {"none", "search", "lease", "finish", "leaving", "exited"}]
  /\ depth   \in [Handle -> 0 .. MaxDepth]
  /\ wclock  \in [Handle -> Nat]
  /\ outcome \in [Handle -> {"none", "final", "cancelled", "error"}]

CallerTypes ==
  /\ pc \in [Caller -> {"idle", "lock", "collect", "count", "allocate", "create",
                        "join", "find", "clock", "renew", "copy", "request"}]
  /\ op       \in [Caller -> {"none", "start", "poll", "stopPoll", "stop"}]
  /\ arg      \in [Caller -> [id : JobId, infinite : BOOLEAN]]
  /\ clock    \in [Caller -> Nat]
  /\ todo     \in [Caller -> SUBSET JobId]
  /\ counted  \in [Caller -> SUBSET JobId]
  /\ retiring \in [Caller -> SUBSET Handle]
  /\ ref      \in [Caller -> Handle \union {NoJob}]
  /\ mem      \in [Caller -> [job : Handle \union {NoJob}, version : Nat,
                              latest : Result, ended : BOOLEAN]]

TypeOK == ManagerTypes /\ StateTypes /\ WorkerTypes /\ CallerTypes

-----------------------------------------------------------------------------
(***************************************************************************)
(* Safety.                                                                 *)
(***************************************************************************)
(* README: the service executes at most 4 background analyses at a time.   *)
(* The limit is tested by counting under one mutex flags that the workers  *)
(* clear under others, and the new job is registered only after that.      *)
AtMostMaxExecuting == Cardinality(Searching) <= MaxRunning

(* Every version a poller can see stands for one event of the search: while *)
(* the job runs, version n is the snapshot of depth n, and the end of the    *)
(* search, whatever its kind, is one version more.                          *)
VersionCountsEvents ==
  \A h \in Handle :
    IF running[h]
      THEN /\ version[h] = depth[h]
           /\ latest[h] = IF depth[h] = 0 THEN NoResult
                                          ELSE [kind |-> "depth", depth |-> depth[h]]
      ELSE wpc[h] # "none" => version[h] = depth[h] + 1

(* README: after a stop the result of the last complete depth is kept; so    *)
(* it is after a failure.                                                   *)
StopKeepsLastDepth ==
  \A h \in Handle :
    wpc[h] \in {"leaving", "exited"} /\ outcome[h] \in {"cancelled", "error"} /\ depth[h] > 0
      => latest[h] = [kind |-> "depth", depth |-> depth[h]]

(* A client that passes the version of the last reply has the job's latest   *)
(* result whenever it has its latest version; one that was told the job has  *)
(* ended has the result it ended with, for ever.                            *)
FollowerHasLatest ==
  \A c \in Caller :
    LET m == mem[c] IN
    m.job # NoJob =>
      /\ m.version = version[m.job] => m.latest = latest[m.job]
      /\ m.ended => ~running[m.job] /\ m.version = version[m.job]

(* A thread that is not over is owned by one entry of the map or by one      *)
(* retiring list, never by both and never by none: it is joined exactly once.*)
ThreadOwnedOnce ==
  \A h \in Handle :
    wpc[h] \notin {"none", "exited"} /\ ~shuttingDown =>
      Cardinality({i \in JobId : jobs[i] = h})
        + Cardinality({c \in Caller : h \in retiring[c]}) = 1

(* No HTTP worker thread waits for a search: it joins only threads whose job *)
(* had completed when the thread was collected.                             *)
JoinsOnlyCompleted == \A c \in Caller : \A h \in retiring[c] : ~running[h]

(* README: the result of a completed job is kept for the retention period.  *)
(* Only the destructor removes a job that is running or was completed less   *)
(* than completedRetention ago.                                             *)
RetentionHonoured ==
  [][\A i \in JobId :
       jobs[i] # NoJob /\ jobs'[i] # jobs[i] /\ ~shuttingDown' =>
         ~running[jobs[i]] /\ now - completedAt[jobs[i]] >= Retention]_vars

(* The manager is the atomic board of jobs of module JobBoard: a job is on   *)
(* the board as running from the moment it is registered until complete or   *)
(* fail has cleared its flag.                                               *)
Board == INSTANCE JobBoard WITH
  phase   <- [h \in Handle |-> IF wpc[h] = "none" THEN "none"
                               ELSE IF running[h] THEN "running" ELSE "ended"],
  version <- version,
  result  <- latest

ImplementsJobBoard == Board!BoardSpec

(***************************************************************************)
(* Liveness, under Fairness.                                               *)
(***************************************************************************)
(* A job is told to end by a stop, by the destructor, or by a whole lease    *)
(* without a poll of an infinite one; the exception is a poll that read the  *)
(* clock before the lease ran out and has yet to store what it read.         *)
ToldToEnd(h) ==
  \/ cancelRequested[h]
  \/ shuttingDown
  \/ /\ Lapsed(h, now)
     /\ \A c \in Caller : pc[c] = "renew" /\ ref[c] = h => Lapsed(h, clock[c])

(* A job that is told to end does, however often it is polled from then on,  *)
(* and so does its thread: the destructor, which joins every thread, returns.*)
ToldJobEnds ==
  \A h \in Handle : wpc[h] # "none" /\ ToldToEnd(h) ~> wpc[h] = "exited"

(* Every call returns: nobody waits for ever for jobsMutex or for a thread.  *)
CallsReturn == \A c \in Caller : pc[c] # "idle" ~> pc[c] = "idle"
=============================================================================
