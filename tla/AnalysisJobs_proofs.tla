------------------------ MODULE AnalysisJobs_proofs ------------------------
(***************************************************************************)
(* Proofs about AnalysisJobs, for every set of callers and of jobs, every  *)
(* id space, limit, lease and retention: the types, and that the check of  *)
(* the running limit, which counts flags under one mutex that the workers  *)
(* clear under others, keeps the number of searches within MaxRunning; then *)
(* what a client can see, the refinement of JobBoard, and who owns a thread. *)
(***************************************************************************)
EXTENDS AnalysisJobs, FiniteSetTheorems, TLAPS

Holding == {"collect", "count", "allocate", "create"}

(* Between LockJobs and the release, the caller owns jobsMutex.             *)
MutexInv == \A c \in Caller : pc[c] \in Holding => jobsMutex = c

(* A loop over the map visits entries that are still there.                 *)
TodoInv == \A c \in Caller : pc[c] \in {"collect", "count"} => todo[c] \subseteq LiveIds

(* Callers use only JobStates they found in the map.                        *)
RefInv == \A c \in Caller : pc[c] \in {"clock", "renew", "copy", "request"} => ref[c] \in Handle

(* The destructor found every caller gone.                                  *)
QuietInv == shuttingDown => \A c \in Caller : pc[c] = "idle"

(* An entry has a thread; a thread that searches has its running flag set    *)
(* and, before the destructor, its entry.                                   *)
ThreadInv ==
  /\ \A i \in JobId : jobs[i] # NoJob => wpc[jobs[i]] # "none"
  /\ \A h \in Searching : running[h]
  /\ ~shuttingDown => \A h \in Searching : \E i \in JobId : jobs[i] = h

(* The allocated id is free until the job is registered under it.           *)
FreshInv == \A c \in Caller : pc[c] = "create" => jobs[arg[c].id] = NoJob

(* runningJobsLocked misses no job that still runs, and after it the limit   *)
(* is not reached.                                                          *)
CountInv ==
  \A c \in Caller :
    /\ pc[c] = "count" =>
         \A i \in JobId : jobs[i] \in Searching => i \in todo[c] \union counted[c]
    /\ pc[c] \in {"allocate", "create"} =>
         /\ \A i \in JobId : jobs[i] \in Searching => i \in counted[c]
         /\ Cardinality(counted[c]) < MaxRunning

CapInv == IsFiniteSet(Searching) /\ Cardinality(Searching) <= MaxRunning

(* A collected job has completed.                                           *)
RetiredInv == \A c \in Caller : \A h \in retiring[c] : ~running[h] /\ wpc[h] # "none"

IInv ==
  /\ TypeOK
  /\ MutexInv
  /\ TodoInv
  /\ RefInv
  /\ QuietInv
  /\ ThreadInv
  /\ FreshInv
  /\ CountInv
  /\ CapInv
  /\ RetiredInv

-----------------------------------------------------------------------------
(* A set that shrinks stays within the limit.                               *)
LEMMA CapShrinks ==
  ASSUME CapInv, Searching' \subseteq Searching
  PROVE  CapInv'
  <1>1. IsFiniteSet(Searching') /\ Cardinality(Searching') <= Cardinality(Searching)
    BY FS_Subset DEF CapInv
  <1>2. Cardinality(Searching') \in Nat /\ Cardinality(Searching) \in Nat
    BY <1>1, FS_CardinalityType DEF CapInv
  <1> QED BY <1>1, <1>2, RunningAssumption DEF CapInv

(* The count of start is a natural number.                                  *)
LEMMA CountedFinite ==
  ASSUME TypeOK, NEW c \in Caller
  PROVE  IsFiniteSet(counted[c]) /\ Cardinality(counted[c]) \in Nat
  <1>1. IsFiniteSet(JobId) BY FS_Interval, IdSpaceAssumption DEF JobId
  <1> QED BY <1>1, FS_Subset, FS_CardinalityType DEF TypeOK, CallerTypes

(* The locals that Return resets keep their types.                          *)
LEMMA ReturnTypes ==
  ASSUME NEW c \in Caller, CallerTypes, Return(c)
  PROVE  /\ pc' \in [Caller -> {"idle", "lock", "collect", "count", "allocate", "create",
                                "join", "find", "clock", "renew", "copy", "request"}]
         /\ op'    \in [Caller -> {"none", "start", "poll", "stopPoll", "stop"}]
         /\ arg'   \in [Caller -> [id : JobId, infinite : BOOLEAN]]
         /\ clock' \in [Caller -> Nat]
         /\ ref'   \in [Caller -> Handle \union {NoJob}]
  <1>1. [id |-> 1, infinite |-> FALSE] \in [id : JobId, infinite : BOOLEAN]
    BY IdSpaceAssumption DEF JobId
  <1> QED BY <1>1 DEF CallerTypes, Return

(* A step of one caller outside jobsMutex leaves the manager's invariants    *)
(* alone.                                                                   *)
LEMMA LeavesManager ==
  ASSUME IInv, NEW c \in Caller,
         pc[c] \notin Holding,
         UNCHANGED <<now, managerVars, stateVars, workerVars, todo, counted>>,
         CallerTypes', RetiredInv',
         NEW p \in {"idle", "lock", "find", "clock", "renew", "copy", "request"},
         pc' = [pc EXCEPT ![c] = p],
         pc[c] # "idle",
         p \in {"clock", "renew", "copy", "request"} => ref'[c] \in Handle,
         \A d \in Caller : d # c => ref'[d] = ref[d] /\ arg'[d] = arg[d]
  PROVE  IInv'
  <1> USE DEF IInv, TypeOK
  <1>1. Searching' = Searching /\ LiveIds' = LiveIds
    BY DEF Searching, LiveIds, managerVars, workerVars
  <1>2. ManagerTypes' /\ StateTypes' /\ WorkerTypes' /\ CapInv'
    BY <1>1 DEF ManagerTypes, StateTypes, WorkerTypes, CapInv, managerVars, stateVars, workerVars
  <1>3. \A d \in Caller : pc'[d] = IF d = c THEN p ELSE pc[d] BY DEF CallerTypes
  <1>4. MutexInv' /\ TodoInv' /\ RefInv' /\ QuietInv' /\ FreshInv' /\ CountInv'
    BY <1>1, <1>3
    DEF MutexInv, TodoInv, RefInv, QuietInv, FreshInv, CountInv, Holding, managerVars
  <1>5. ThreadInv' BY <1>1 DEF ThreadInv, managerVars, stateVars, workerVars
  <1> QED BY <1>2, <1>4, <1>5

(* A step of a worker, or of the clock: no caller and no entry of the map    *)
(* changes, no thread begins, no running flag is set.                       *)
LEMMA LeavesCallers ==
  ASSUME IInv,
         UNCHANGED <<managerVars, callerVars>>,
         now' \in Nat, StateTypes', WorkerTypes',
         Searching' \subseteq Searching,
         \A h \in Searching' : running'[h],
         \A h \in Handle : (running'[h] => running[h]) /\ (wpc'[h] = "none" => wpc[h] = "none")
  PROVE  IInv'
  <1> USE DEF IInv, TypeOK
  <1>1. LiveIds' = LiveIds BY DEF LiveIds, managerVars
  <1>2. ManagerTypes' /\ CallerTypes' BY DEF ManagerTypes, CallerTypes, managerVars, callerVars
  <1>3. MutexInv' /\ TodoInv' /\ RefInv' /\ QuietInv' /\ FreshInv'
    BY <1>1 DEF MutexInv, TodoInv, RefInv, QuietInv, FreshInv, managerVars, callerVars
  <1>4. ThreadInv'
    BY HandleAssumption DEF ThreadInv, managerVars, ManagerTypes
  <1>5. CountInv' BY DEF CountInv, managerVars, callerVars
  <1>6. CapInv' BY CapShrinks
  <1>7. RetiredInv' BY DEF RetiredInv, callerVars, CallerTypes
  <1> QED BY <1>2, <1>3, <1>4, <1>5, <1>6, <1>7

-----------------------------------------------------------------------------
(* The requests and the code under jobsMutex.                               *)
(* A request begins outside jobsMutex.                                      *)
LEMMA CallKeeps ==
  ASSUME NEW c \in Caller, IInv, CallStart(c) \/ CallPoll(c) \/ CallStop(c)
  PROVE  IInv'
  <1> USE DEF IInv, TypeOK
  <1>1. PICK operation \in {"start", "poll", "stop"}, id \in JobId, isInfinite \in BOOLEAN :
          Call(c, operation, id, isInfinite)
    <2>1. 1 \in JobId BY IdSpaceAssumption DEF JobId
    <2> QED BY <2>1, KindsAssumption DEF CallStart, CallPoll, CallStop
  <1>2. /\ ~shuttingDown
        /\ pc[c] = "idle"
        /\ pc' = [pc EXCEPT ![c] = "lock"]
        /\ op' = [op EXCEPT ![c] = IF operation = "stop" THEN "stopPoll" ELSE operation]
        /\ arg' = [arg EXCEPT ![c] = [id |-> id, infinite |-> isInfinite]]
        /\ UNCHANGED <<now, managerVars, stateVars, workerVars,
                       clock, todo, counted, retiring, ref, mem>>
    BY <1>1 DEF Call
  <1>3. Searching' = Searching /\ LiveIds' = LiveIds
    BY <1>2 DEF Searching, LiveIds, managerVars, workerVars
  <1>4. ManagerTypes' /\ StateTypes' /\ WorkerTypes' /\ CapInv'
    BY <1>2, <1>3 DEF ManagerTypes, StateTypes, WorkerTypes, CapInv, managerVars, stateVars, workerVars
  <1>5. CallerTypes'
    <2>1. [id |-> id, infinite |-> isInfinite] \in [id : JobId, infinite : BOOLEAN] OBVIOUS
    <2> QED BY <1>2, <2>1 DEF CallerTypes
  <1>6. MutexInv' /\ TodoInv' /\ RefInv' /\ QuietInv' /\ FreshInv' /\ CountInv'
    BY <1>2, <1>3 DEF MutexInv, TodoInv, RefInv, QuietInv, FreshInv, CountInv,
                      Holding, CallerTypes, managerVars
  <1>7. ThreadInv' /\ RetiredInv'
    BY <1>2, <1>3 DEF ThreadInv, RetiredInv, managerVars, stateVars, workerVars
  <1> QED BY <1>4, <1>5, <1>6, <1>7

(* LockJobs: the owner of a free mutex becomes its holder.                  *)
LEMMA LockJobsKeeps ==
  ASSUME NEW c \in Caller, IInv, LockJobs(c)
  PROVE  IInv'
  <1> USE DEF IInv, TypeOK, LockJobs
  <1>1. ManagerTypes' /\ StateTypes' /\ WorkerTypes'
    BY DEF ManagerTypes, StateTypes, WorkerTypes, CallerTypes, managerVars, stateVars, workerVars
  <1>2. CallerTypes' BY IdSpaceAssumption DEF CallerTypes, ManagerTypes, JobId, LiveIds
  <1>3. Searching' = Searching BY DEF Searching, workerVars
  <1>4. MutexInv' /\ TodoInv' /\ RefInv' /\ QuietInv' /\ FreshInv' /\ CountInv'
    BY <1>3, CallerAssumption
    DEF MutexInv, TodoInv, RefInv, QuietInv, FreshInv, CountInv, Holding, LiveIds, CallerTypes, managerVars
  <1>5. ThreadInv' /\ RetiredInv'
    BY <1>3 DEF ThreadInv, RetiredInv, managerVars, stateVars, workerVars
  <1>6. CapInv' BY <1>3 DEF CapInv
  <1> QED BY <1>1, <1>2, <1>4, <1>5, <1>6

(* CollectJob: the entry that goes was completed; only the holder sees it go.*)
LEMMA CollectJobKeeps ==
  ASSUME NEW c \in Caller, IInv, CollectJob(c)
  PROVE  IInv'
  <1> USE DEF IInv, TypeOK
  <1>1. PICK i \in todo[c] :
          /\ todo' = [todo EXCEPT ![c] = @ \ {i}]
          /\ IF Expired(jobs[i], clock[c])
               THEN /\ retiring' = [retiring EXCEPT ![c] = @ \union {jobs[i]}]
                    /\ jobs' = [jobs EXCEPT ![i] = NoJob]
               ELSE UNCHANGED <<retiring, jobs>>
    BY DEF CollectJob
  <1>2. /\ pc[c] = "collect"
        /\ i \in JobId
        /\ jobs[i] \in Handle
        /\ UNCHANGED <<now, jobsMutex, nextId, shuttingDown, stateVars, workerVars,
                       pc, op, arg, clock, counted, ref, mem>>
    BY DEF CollectJob, TodoInv, LiveIds, ManagerTypes
  <1>3. \A k \in JobId : jobs'[k] = jobs[k] \/ (k = i /\ jobs'[k] = NoJob /\ ~running[jobs[i]])
    BY <1>1, <1>2 DEF ManagerTypes, Expired
  <1>4. \A d \in Caller : todo'[d] = IF d = c THEN todo[c] \ {i} ELSE todo[d]
    BY <1>1 DEF CallerTypes
  <1>5. \A d \in Caller : \A h \in retiring'[d] : h \in retiring[d] \/ (h = jobs[i] /\ ~running[h])
    BY <1>1, <1>2 DEF CallerTypes, Expired
  <1>6. ManagerTypes' BY <1>1, <1>2 DEF ManagerTypes
  <1>7. StateTypes' /\ WorkerTypes' BY <1>2 DEF StateTypes, WorkerTypes, stateVars, workerVars
  <1>8. CallerTypes'
    <2>1. todo' \in [Caller -> SUBSET JobId] BY <1>1 DEF CallerTypes
    <2>2. retiring' \in [Caller -> SUBSET Handle] BY <1>1, <1>2 DEF CallerTypes
    <2> QED BY <1>2, <2>1, <2>2 DEF CallerTypes
  <1>9. MutexInv' /\ RefInv' /\ QuietInv' BY <1>2 DEF MutexInv, RefInv, QuietInv
  <1>10. TodoInv'
    <2> SUFFICES ASSUME NEW d \in Caller, pc[d] \in {"collect", "count"}, NEW k \in todo'[d]
                 PROVE  k \in JobId /\ jobs'[k] # NoJob
      BY <1>2 DEF TodoInv, LiveIds
    <2>1. d = c BY <1>2, CallerAssumption DEF MutexInv, Holding
    <2> QED BY <1>2, <1>3, <1>4, <2>1 DEF TodoInv, LiveIds
  <1>11. Searching' = Searching BY <1>2 DEF Searching, workerVars
  <1>12. ThreadInv' BY <1>2, <1>3, <1>11, HandleAssumption DEF ThreadInv, ManagerTypes, Searching, stateVars, workerVars
  <1>13. FreshInv' BY <1>2, <1>3 DEF FreshInv, CallerTypes, MutexInv, Holding
  <1>14. CountInv'
    <2>1. \A d \in Caller : d # c => pc[d] \notin Holding BY <1>2 DEF MutexInv, Holding
    <2> QED BY <1>2, <2>1 DEF CountInv, Holding
  <1>15. CapInv' BY <1>11 DEF CapInv
  <1>16. RetiredInv' BY <1>2, <1>5, HandleAssumption DEF RetiredInv, ThreadInv, stateVars, workerVars
  <1> QED BY <1>6, <1>7, <1>8, <1>9, <1>10, <1>12, <1>13, <1>14, <1>15, <1>16

(* CollectDone: the count starts with every entry still to be visited.      *)
LEMMA CollectDoneKeeps ==
  ASSUME NEW c \in Caller, IInv, CollectDone(c)
  PROVE  IInv'
  <1> USE DEF IInv, TypeOK
  <1>1. /\ pc[c] = "collect"
        /\ UNCHANGED <<now, jobs, nextId, shuttingDown, stateVars, workerVars,
                       op, arg, clock, counted, retiring, ref, mem>>
        /\ jobsMutex = c
    BY DEF CollectDone, MutexInv, Holding
  <1>2. \A d \in Caller : d # c => pc[d] \notin Holding BY <1>1 DEF MutexInv
  <1>3. Searching' = Searching /\ LiveIds' = LiveIds BY <1>1 DEF Searching, LiveIds, workerVars
  <1>4. StateTypes' /\ WorkerTypes' /\ CapInv'
    BY <1>1, <1>3 DEF StateTypes, WorkerTypes, CapInv, stateVars, workerVars
  <1>5. ThreadInv' /\ RetiredInv'
    BY <1>1, <1>3 DEF ThreadInv, RetiredInv, stateVars, workerVars
  <1>6. CASE op[c] = "start" /\ ~shuttingDown
    <2>1. /\ todo' = [todo EXCEPT ![c] = LiveIds]
          /\ pc' = [pc EXCEPT ![c] = "count"]
          /\ jobsMutex' = jobsMutex
      BY <1>6 DEF CollectDone
    <2>2. ManagerTypes' /\ CallerTypes' BY <1>1, <2>1 DEF ManagerTypes, CallerTypes, LiveIds
    <2>3. MutexInv' /\ TodoInv' /\ RefInv' /\ QuietInv' /\ FreshInv'
      BY <1>1, <1>2, <1>3, <1>6, <2>1 DEF MutexInv, TodoInv, RefInv, QuietInv, FreshInv, Holding, CallerTypes
    <2>4. CountInv'
      <3>1. \A i \in JobId : jobs[i] \in Searching => i \in LiveIds
        BY HandleAssumption DEF Searching, LiveIds
      <3> QED BY <1>1, <1>2, <1>3, <2>1, <3>1 DEF CountInv, Holding, CallerTypes
    <2> QED BY <1>4, <1>5, <2>2, <2>3, <2>4
  <1>7. CASE ~(op[c] = "start" /\ ~shuttingDown)
    <2>1. /\ jobsMutex' = NoCaller
          /\ pc' = [pc EXCEPT ![c] = "join"]
          /\ todo' = todo
      BY <1>7 DEF CollectDone
    <2>2. ManagerTypes' /\ CallerTypes' BY <1>1, <2>1 DEF ManagerTypes, CallerTypes
    <2>3. MutexInv' /\ TodoInv' /\ RefInv' /\ QuietInv' /\ FreshInv' /\ CountInv'
      BY <1>1, <1>2, <1>3, <2>1
      DEF MutexInv, TodoInv, RefInv, QuietInv, FreshInv, CountInv, Holding, CallerTypes
    <2> QED BY <1>4, <1>5, <2>2, <2>3
  <1> QED BY <1>6, <1>7

(* CountJob: an entry leaves the loop counted or not running any more.      *)
LEMMA CountJobKeeps ==
  ASSUME NEW c \in Caller, IInv, CountJob(c)
  PROVE  IInv'
  <1> USE DEF IInv, TypeOK
  <1>1. PICK i \in todo[c] :
          /\ todo' = [todo EXCEPT ![c] = @ \ {i}]
          /\ counted' = [counted EXCEPT ![c] = IF running[jobs[i]] THEN @ \union {i} ELSE @]
    BY DEF CountJob
  <1>2. /\ pc[c] = "count"
        /\ jobsMutex = c
        /\ i \in JobId
        /\ UNCHANGED <<now, managerVars, stateVars, workerVars,
                       pc, op, arg, clock, retiring, ref, mem>>
    BY DEF CountJob, CallerTypes, MutexInv, Holding
  <1>3. \A d \in Caller : d # c => pc[d] \notin Holding BY <1>2 DEF MutexInv
  <1>4. Searching' = Searching /\ LiveIds' = LiveIds
    BY <1>2 DEF Searching, LiveIds, managerVars, workerVars
  <1>5. ManagerTypes' /\ StateTypes' /\ WorkerTypes' /\ CapInv'
    BY <1>2, <1>4 DEF ManagerTypes, StateTypes, WorkerTypes, CapInv, managerVars, stateVars, workerVars
  <1>6. CallerTypes' BY <1>1, <1>2 DEF CallerTypes
  <1>7. MutexInv' /\ RefInv' /\ QuietInv' /\ FreshInv'
    BY <1>2 DEF MutexInv, RefInv, QuietInv, FreshInv, managerVars
  <1>8. TodoInv' BY <1>1, <1>2, <1>4 DEF TodoInv, CallerTypes
  <1>9. ThreadInv' /\ RetiredInv'
    BY <1>2, <1>4 DEF ThreadInv, RetiredInv, managerVars, stateVars, workerVars
  <1>10. CountInv'
    <2>1. \A k \in JobId : jobs[k] \in Searching => k \in todo'[c] \union counted'[c]
      BY <1>1, <1>2 DEF CountInv, ThreadInv, CallerTypes
    <2> QED BY <1>2, <1>3, <1>4, <2>1 DEF CountInv, Holding, managerVars
  <1> QED BY <1>5, <1>6, <1>7, <1>8, <1>9, <1>10

(* RefuseStart: the mutex is free again.                                    *)
LEMMA RefuseStartKeeps ==
  ASSUME NEW c \in Caller, IInv, RefuseStart(c)
  PROVE  IInv'
  <1> USE DEF IInv, TypeOK, RefuseStart, Full
  <1>1. ManagerTypes' /\ StateTypes' /\ WorkerTypes'
    BY DEF ManagerTypes, StateTypes, WorkerTypes, CallerTypes, managerVars, stateVars, workerVars
  <1>2. CallerTypes' BY IdSpaceAssumption DEF CallerTypes, ManagerTypes, JobId, LiveIds
  <1>3. Searching' = Searching BY DEF Searching, workerVars
  <1>4. MutexInv' /\ TodoInv' /\ RefInv' /\ QuietInv' /\ FreshInv' /\ CountInv'
    BY <1>3, CallerAssumption
    DEF MutexInv, TodoInv, RefInv, QuietInv, FreshInv, CountInv, Holding, LiveIds, CallerTypes, managerVars
  <1>5. ThreadInv' /\ RetiredInv'
    BY <1>3 DEF ThreadInv, RetiredInv, managerVars, stateVars, workerVars
  <1>6. CapInv' BY <1>3 DEF CapInv
  <1> QED BY <1>1, <1>2, <1>4, <1>5, <1>6

(* AcceptStart: every search is counted, and the count is below the limit.  *)
LEMMA AcceptStartKeeps ==
  ASSUME NEW c \in Caller, IInv, AcceptStart(c)
  PROVE  IInv'
  <1> USE DEF IInv, TypeOK
  <1>1. /\ pc[c] = "count" /\ todo[c] = {}
        /\ jobsMutex = c
        /\ pc' = [pc EXCEPT ![c] = "allocate"]
        /\ UNCHANGED <<now, managerVars, stateVars, workerVars,
                       op, arg, clock, todo, counted, retiring, ref, mem>>
    BY DEF AcceptStart, MutexInv, Holding
  <1>2. \A d \in Caller : d # c => pc[d] \notin Holding BY <1>1 DEF MutexInv
  <1>3. Searching' = Searching BY <1>1 DEF Searching, workerVars
  <1>4. Cardinality(counted[c]) < MaxRunning
    BY CountedFinite, RunningAssumption DEF AcceptStart, Full
  <1>5. ManagerTypes' /\ StateTypes' /\ WorkerTypes' /\ CapInv'
    BY <1>1, <1>3 DEF ManagerTypes, StateTypes, WorkerTypes, CapInv, managerVars, stateVars, workerVars
  <1>6. CallerTypes' BY <1>1 DEF CallerTypes
  <1>7. MutexInv' /\ TodoInv' /\ RefInv' /\ QuietInv' /\ FreshInv'
    BY <1>1 DEF MutexInv, TodoInv, RefInv, QuietInv, FreshInv, Holding, LiveIds, managerVars, CallerTypes
  <1>8. ThreadInv' /\ RetiredInv'
    BY <1>1, <1>3 DEF ThreadInv, RetiredInv, managerVars, stateVars, workerVars
  <1>9. CountInv' BY <1>1, <1>2, <1>3, <1>4 DEF CountInv, Holding, CallerTypes, managerVars
  <1> QED BY <1>5, <1>6, <1>7, <1>8, <1>9

(* AllocateId: the loop ends with an id that is not in the map.             *)
LEMMA AllocateIdKeeps ==
  ASSUME NEW c \in Caller, IInv, AllocateId(c)
  PROVE  IInv'
  <1> USE DEF IInv, TypeOK
  <1>1. /\ pc[c] = "allocate"
        /\ jobsMutex = c
        /\ nextId' = (Candidate + 1) % IdSpace
        /\ UNCHANGED <<now, jobsMutex, jobs, shuttingDown, stateVars, workerVars,
                       op, clock, todo, counted, retiring, ref, mem>>
    BY DEF AllocateId, NextId, MutexInv, Holding
  <1>2. \A d \in Caller : d # c => pc[d] \notin Holding BY <1>1 DEF MutexInv
  <1>3. Searching' = Searching BY <1>1 DEF Searching, workerVars
  <1>4. Candidate \in JobId BY IdSpaceAssumption DEF Candidate, JobId, ManagerTypes
  <1>5. ManagerTypes'
    <2>1. nextId' \in 0 .. IdSpace - 1 BY <1>1, <1>4, IdSpaceAssumption DEF JobId
    <2> QED BY <1>1, <2>1 DEF ManagerTypes
  <1>6. StateTypes' /\ WorkerTypes' /\ CapInv'
    BY <1>1, <1>3 DEF StateTypes, WorkerTypes, CapInv, stateVars, workerVars
  <1>7. ThreadInv' /\ RetiredInv'
    BY <1>1, <1>3 DEF ThreadInv, RetiredInv, stateVars, workerVars
  <1>8. CASE IsFree(Candidate)
    <2>1. arg' = [arg EXCEPT ![c].id = Candidate] /\ pc' = [pc EXCEPT ![c] = "create"]
      BY <1>8 DEF AllocateId
    <2>2. CallerTypes' BY <1>1, <1>4, <2>1 DEF CallerTypes
    <2>3. MutexInv' /\ TodoInv' /\ RefInv' /\ QuietInv'
      BY <1>1, <2>1 DEF MutexInv, TodoInv, RefInv, QuietInv, Holding, LiveIds, CallerTypes
    <2>4. FreshInv'
      <3>1. arg'[c].id = Candidate BY <2>1 DEF CallerTypes
      <3> QED BY <1>1, <1>2, <1>8, <2>1, <3>1 DEF FreshInv, IsFree, Holding, CallerTypes
    <2>5. CountInv' BY <1>1, <1>2, <1>3, <2>1 DEF CountInv, Holding, CallerTypes
    <2> QED BY <1>5, <1>6, <1>7, <2>2, <2>3, <2>4, <2>5
  <1>9. CASE ~IsFree(Candidate)
    <2>1. UNCHANGED <<arg, pc>> BY <1>9 DEF AllocateId
    <2>2. CallerTypes' BY <1>1, <2>1 DEF CallerTypes
    <2>3. MutexInv' /\ TodoInv' /\ RefInv' /\ QuietInv' /\ FreshInv' /\ CountInv'
      BY <1>1, <1>3, <2>1 DEF MutexInv, TodoInv, RefInv, QuietInv, FreshInv, CountInv, LiveIds
    <2> QED BY <1>5, <1>6, <1>7, <2>2, <2>3
  <1> QED BY <1>8, <1>9

(* CreateJob: the searches are images of the counted ids, so one more fits. *)
LEMMA CreateJobKeeps ==
  ASSUME NEW c \in Caller, IInv, CreateJob(c)
  PROVE  IInv'
  <1> USE DEF IInv, TypeOK
  <1>1. PICK h \in Handle :
          /\ wpc[h] = "none"
          /\ jobs'       = [jobs EXCEPT ![arg[c].id] = h]
          /\ infinite'   = [infinite EXCEPT ![h] = arg[c].infinite]
          /\ lastAccess' = [lastAccess EXCEPT ![h] = now]
          /\ running'    = [running EXCEPT ![h] = TRUE]
          /\ wpc'        = [wpc EXCEPT ![h] = "search"]
    BY DEF CreateJob
  <1> DEFINE id == arg[c].id
  <1>2. /\ pc[c] = "create"
        /\ jobsMutex = c
        /\ ~shuttingDown
        /\ id \in JobId
        /\ arg[c].infinite \in BOOLEAN
        /\ jobs[id] = NoJob
    BY DEF CreateJob, MutexInv, QuietInv, FreshInv, Holding, CallerTypes
  <1>3. /\ jobsMutex' = NoCaller
        /\ counted' = [counted EXCEPT ![c] = {}]
        /\ pc' = [pc EXCEPT ![c] = "join"]
        /\ UNCHANGED <<now, nextId, shuttingDown, cancelRequested, failed, version,
                       latest, completedAt, depth, wclock, outcome,
                       op, arg, clock, todo, retiring, ref, mem>>
    BY DEF CreateJob
  <1>4. \A d \in Caller : pc'[d] \notin Holding
    BY <1>2, <1>3 DEF MutexInv, Holding, CallerTypes
  <1>5. ManagerTypes' /\ StateTypes' /\ WorkerTypes' /\ CallerTypes'
    BY <1>1, <1>2, <1>3 DEF ManagerTypes, StateTypes, WorkerTypes, CallerTypes
  <1>6. MutexInv' /\ TodoInv' /\ FreshInv' /\ CountInv'
    BY <1>4 DEF MutexInv, TodoInv, FreshInv, CountInv, Holding
  <1>7. RefInv' /\ QuietInv' BY <1>2, <1>3 DEF RefInv, QuietInv, CallerTypes
  <1>8. Searching' = Searching \union {h}
    BY <1>1 DEF Searching, WorkerTypes
  <1>9. ThreadInv'
    <2>1. \A i \in JobId : jobs'[i] = IF i = id THEN h ELSE jobs[i]
      BY <1>1, <1>2 DEF ManagerTypes
    <2>2. \A i \in JobId : jobs'[i] # NoJob => wpc'[jobs'[i]] # "none"
      BY <1>1, <2>1 DEF ThreadInv, ManagerTypes, WorkerTypes
    <2>3. \A s \in Searching' : running'[s]
      BY <1>1, <1>8 DEF ThreadInv, StateTypes, Searching
    <2>4. \A s \in Searching' : \E i \in JobId : jobs'[i] = s
      BY <1>2, <1>8, <2>1, HandleAssumption DEF ThreadInv, Searching
    <2> QED BY <2>2, <2>3, <2>4 DEF ThreadInv
  <1>10. RetiredInv'
    BY <1>1, <1>3 DEF RetiredInv, StateTypes, WorkerTypes, CallerTypes
  <1>11. CapInv'
    <2> DEFINE f == [i \in counted[c] |-> jobs[i]]
               T == {f[i] : i \in counted[c]}
    <2>1. IsFiniteSet(counted[c])
      BY CountedFinite
    <2>2. f \in Surjection(counted[c], T) BY DEF Surjection
    <2>3. IsFiniteSet(T) /\ Cardinality(T) <= Cardinality(counted[c])
      BY <2>1, <2>2, FS_Surjection
    <2>4. Searching \subseteq T
      <3> SUFFICES ASSUME NEW s \in Searching PROVE s \in T OBVIOUS
      <3>1. PICK i \in JobId : jobs[i] = s BY <1>2 DEF ThreadInv
      <3>2. i \in counted[c] BY <1>2, <3>1 DEF CountInv
      <3> QED BY <3>1, <3>2
    <2>5. IsFiniteSet(Searching) /\ Cardinality(Searching) <= Cardinality(T)
      BY <2>3, <2>4, FS_Subset
    <2>6. Cardinality(counted[c]) < MaxRunning BY <1>2 DEF CountInv
    <2>7. /\ Cardinality(Searching) \in Nat
          /\ Cardinality(T) \in Nat
          /\ Cardinality(counted[c]) \in Nat
      BY <2>1, <2>3, <2>5, FS_CardinalityType
    <2>8. Cardinality(Searching) + 1 <= MaxRunning
      BY <2>3, <2>5, <2>6, <2>7, RunningAssumption
    <2>9. h \notin Searching BY <1>1 DEF Searching
    <2>10. /\ IsFiniteSet(Searching \union {h})
           /\ Cardinality(Searching \union {h}) = Cardinality(Searching) + 1
      BY <2>5, <2>9, FS_AddElement
    <2> QED BY <1>8, <2>8, <2>10 DEF CapInv
  <1> QED BY <1>5, <1>6, <1>7, <1>9, <1>10, <1>11

(* CreateFails: nothing was registered.                                     *)
LEMMA CreateFailsKeeps ==
  ASSUME NEW c \in Caller, IInv, CreateFails(c)
  PROVE  IInv'
  <1> USE DEF IInv, TypeOK, CreateFails
  <1>1. ManagerTypes' /\ StateTypes' /\ WorkerTypes'
    BY DEF ManagerTypes, StateTypes, WorkerTypes, CallerTypes, managerVars, stateVars, workerVars
  <1>2. CallerTypes' BY IdSpaceAssumption DEF CallerTypes, ManagerTypes, JobId, LiveIds
  <1>3. Searching' = Searching BY DEF Searching, workerVars
  <1>4. MutexInv' /\ TodoInv' /\ RefInv' /\ QuietInv' /\ FreshInv' /\ CountInv'
    BY <1>3, CallerAssumption
    DEF MutexInv, TodoInv, RefInv, QuietInv, FreshInv, CountInv, Holding, LiveIds, CallerTypes, managerVars
  <1>5. ThreadInv' /\ RetiredInv'
    BY <1>3 DEF ThreadInv, RetiredInv, managerVars, stateVars, workerVars
  <1>6. CapInv' BY <1>3 DEF CapInv
  <1> QED BY <1>1, <1>2, <1>4, <1>5, <1>6

-----------------------------------------------------------------------------
(* The callers outside jobsMutex.                                           *)
(* JoinRetired: the joined threads are forgotten.                           *)
LEMMA JoinRetiredKeeps ==
  ASSUME NEW c \in Caller, IInv, JoinRetired(c)
  PROVE  IInv'
  <1>1. /\ pc[c] = "join"
        /\ retiring' = [retiring EXCEPT ![c] = {}]
        /\ UNCHANGED <<now, managerVars, stateVars, workerVars, todo, counted, mem>>
    BY DEF JoinRetired
  <1>2. pc[c] \notin Holding /\ pc[c] # "idle" BY <1>1 DEF Holding
  <1>3. RetiredInv' BY <1>1 DEF IInv, TypeOK, RetiredInv, CallerTypes, stateVars, workerVars
  <1>4. CASE op[c] = "start"
    <2>1. Return(c) BY <1>4 DEF JoinRetired
    <2>2. CallerTypes' BY <1>1, <2>1, ReturnTypes DEF IInv, TypeOK, CallerTypes
    <2>3. pc' = [pc EXCEPT ![c] = "idle"] /\ \A d \in Caller : d # c => ref'[d] = ref[d] /\ arg'[d] = arg[d]
      BY <2>1 DEF Return, IInv, TypeOK, CallerTypes
    <2> QED BY <1>1, <1>2, <1>3, <2>2, <2>3, LeavesManager
  <1>5. CASE op[c] # "start"
    <2>1. pc' = [pc EXCEPT ![c] = "find"] /\ clock' = [clock EXCEPT ![c] = 0] /\ UNCHANGED <<op, arg, ref>>
      BY <1>5 DEF JoinRetired
    <2>2. CallerTypes' BY <1>1, <2>1 DEF IInv, TypeOK, CallerTypes
    <2>3. \A d \in Caller : d # c => ref'[d] = ref[d] /\ arg'[d] = arg[d] BY <2>1
    <2> QED BY <1>1, <1>2, <1>3, <2>1, <2>2, <2>3, LeavesManager
  <1> QED BY <1>4, <1>5

(* FindJob: what is found in the map is a JobState.                         *)
LEMMA FindJobKeeps ==
  ASSUME NEW c \in Caller, IInv, FindJob(c)
  PROVE  IInv'
  <1>1. /\ pc[c] = "find"
        /\ UNCHANGED <<now, managerVars, stateVars, workerVars,
                       todo, counted, retiring, mem>>
    BY DEF FindJob
  <1>2. pc[c] \notin Holding /\ pc[c] # "idle" BY <1>1 DEF Holding
  <1>3. RetiredInv' BY <1>1 DEF IInv, RetiredInv, stateVars, workerVars
  <1>4. CASE jobs[arg[c].id] = NoJob
    <2>1. Return(c) BY <1>4 DEF FindJob
    <2>2. CallerTypes' BY <1>1, <2>1, ReturnTypes DEF IInv, TypeOK, CallerTypes
    <2>3. pc' = [pc EXCEPT ![c] = "idle"] /\ \A d \in Caller : d # c => ref'[d] = ref[d] /\ arg'[d] = arg[d]
      BY <2>1 DEF Return, IInv, TypeOK, CallerTypes
    <2> QED BY <1>1, <1>2, <1>3, <2>2, <2>3, LeavesManager
  <1>5. CASE jobs[arg[c].id] # NoJob
    <2>1. /\ ref' = [ref EXCEPT ![c] = jobs[arg[c].id]]
          /\ pc' = [pc EXCEPT ![c] = IF op[c] = "stop" THEN "request" ELSE "clock"]
          /\ UNCHANGED <<op, arg, clock>>
      BY <1>5 DEF FindJob
    <2>2. jobs[arg[c].id] \in Handle BY <1>5 DEF IInv, TypeOK, ManagerTypes, CallerTypes
    <2>3. CallerTypes' BY <1>1, <2>1, <2>2 DEF IInv, TypeOK, CallerTypes
    <2>4. ref'[c] \in Handle /\ \A d \in Caller : d # c => ref'[d] = ref[d] /\ arg'[d] = arg[d]
      BY <2>1, <2>2 DEF IInv, TypeOK, CallerTypes
    <2>5. CASE op[c] = "stop"
      <3>1. pc' = [pc EXCEPT ![c] = "request"] BY <2>1, <2>5
      <3> QED BY <1>1, <1>2, <1>3, <2>3, <2>4, <3>1, LeavesManager
    <2>6. CASE op[c] # "stop"
      <3>1. pc' = [pc EXCEPT ![c] = "clock"] BY <2>1, <2>6
      <3> QED BY <1>1, <1>2, <1>3, <2>3, <2>4, <3>1, LeavesManager
    <2> QED BY <2>5, <2>6
  <1> QED BY <1>4, <1>5

(* ReadClock: a reading of the clock is a time.                             *)
LEMMA ReadClockKeeps ==
  ASSUME NEW c \in Caller, IInv, ReadClock(c)
  PROVE  IInv'
  <1> USE DEF IInv, TypeOK, ReadClock
  <1>1. ManagerTypes' /\ StateTypes' /\ WorkerTypes'
    BY DEF ManagerTypes, StateTypes, WorkerTypes, CallerTypes, managerVars, stateVars, workerVars
  <1>2. CallerTypes' BY IdSpaceAssumption DEF CallerTypes, ManagerTypes, JobId, LiveIds
  <1>3. Searching' = Searching BY DEF Searching, workerVars
  <1>4. MutexInv' /\ TodoInv' /\ RefInv' /\ QuietInv' /\ FreshInv' /\ CountInv'
    BY <1>3, CallerAssumption
    DEF MutexInv, TodoInv, RefInv, QuietInv, FreshInv, CountInv, Holding, LiveIds, CallerTypes, managerVars
  <1>5. ThreadInv' /\ RetiredInv'
    BY <1>3 DEF ThreadInv, RetiredInv, managerVars, stateVars, workerVars
  <1>6. CapInv' BY <1>3 DEF CapInv
  <1> QED BY <1>1, <1>2, <1>4, <1>5, <1>6

(* RenewLease: the lease and the cancellation flag are no part of the count.*)
LEMMA RenewLeaseKeeps ==
  ASSUME NEW c \in Caller, IInv, RenewLease(c)
  PROVE  IInv'
  <1> USE DEF IInv, TypeOK, RenewLease, LateRenewal, Lapsed
  <1>1. ManagerTypes' /\ StateTypes' /\ WorkerTypes'
    BY DEF ManagerTypes, StateTypes, WorkerTypes, CallerTypes, managerVars, stateVars, workerVars
  <1>2. CallerTypes' BY IdSpaceAssumption DEF CallerTypes, ManagerTypes, JobId, LiveIds
  <1>3. Searching' = Searching BY DEF Searching, workerVars
  <1>4. MutexInv' /\ TodoInv' /\ RefInv' /\ QuietInv' /\ FreshInv' /\ CountInv'
    BY <1>3, CallerAssumption
    DEF MutexInv, TodoInv, RefInv, QuietInv, FreshInv, CountInv, Holding, LiveIds, CallerTypes, managerVars
  <1>5. ThreadInv' /\ RetiredInv'
    BY <1>3 DEF ThreadInv, RetiredInv, managerVars, stateVars, workerVars
  <1>6. CapInv' BY <1>3 DEF CapInv
  <1> QED BY <1>1, <1>2, <1>4, <1>5, <1>6

(* CopyState: the client's memory is filled with a copy of the state.       *)
LEMMA CopyStateKeeps ==
  ASSUME NEW c \in Caller, IInv, CopyState(c)
  PROVE  IInv'
  <1>1. /\ pc[c] = "copy"
        /\ UNCHANGED <<now, managerVars, stateVars, workerVars, todo, counted, retiring>>
    BY DEF CopyState
  <1>2. pc[c] \notin Holding /\ pc[c] # "idle" BY <1>1 DEF Holding
  <1>3. RetiredInv' BY <1>1 DEF IInv, RetiredInv, stateVars, workerVars
  <1>4. CASE op[c] = "poll"
    <2>1. mem' = [mem EXCEPT ![c] = Copied(ref[c], mem[c])] /\ Return(c)
      BY <1>4 DEF CopyState
    <2>2. Copied(ref[c], mem[c]) \in [job : Handle \union {NoJob}, version : Nat,
                                      latest : Result, ended : BOOLEAN]
      <3>1. ref[c] \in Handle BY <1>1 DEF IInv, RefInv
      <3>2. mem[c].latest \in Result /\ NoResult \in Result
        BY DepthAssumption DEF IInv, TypeOK, CallerTypes, Result, NoResult
      <3>3. (IF mem[c].job = ref[c] THEN mem[c] ELSE NoMemory).latest \in Result
        BY <3>2 DEF NoMemory
      <3> QED BY <3>1, <3>3 DEF Copied, IInv, TypeOK, StateTypes
    <2>3. CallerTypes' BY <1>1, <2>1, <2>2, ReturnTypes DEF IInv, TypeOK, CallerTypes
    <2>4. pc' = [pc EXCEPT ![c] = "idle"] /\ \A d \in Caller : d # c => ref'[d] = ref[d] /\ arg'[d] = arg[d]
      BY <2>1 DEF Return, IInv, TypeOK, CallerTypes
    <2> QED BY <1>1, <1>2, <1>3, <2>3, <2>4, LeavesManager
  <1>5. CASE op[c] # "poll"
    <2>1. /\ op' = [op EXCEPT ![c] = "stop"]
          /\ pc' = [pc EXCEPT ![c] = "lock"]
          /\ ref' = [ref EXCEPT ![c] = NoJob]
          /\ UNCHANGED <<arg, clock, mem>>
      BY <1>5 DEF CopyState
    <2>2. CallerTypes' BY <1>1, <2>1 DEF IInv, TypeOK, CallerTypes
    <2>3. \A d \in Caller : d # c => ref'[d] = ref[d] /\ arg'[d] = arg[d]
      BY <2>1 DEF IInv, TypeOK, CallerTypes
    <2> QED BY <1>1, <1>2, <1>3, <2>1, <2>2, <2>3, LeavesManager
  <1> QED BY <1>4, <1>5

(* RequestStop: cancelling does not clear the running flag.                 *)
LEMMA RequestStopKeeps ==
  ASSUME NEW c \in Caller, IInv, RequestStop(c)
  PROVE  IInv'
  <1> USE DEF IInv, TypeOK, RequestStop, Return
  <1>1. ManagerTypes' /\ StateTypes' /\ WorkerTypes'
    BY DEF ManagerTypes, StateTypes, WorkerTypes, CallerTypes, managerVars, stateVars, workerVars
  <1>2. CallerTypes' BY IdSpaceAssumption DEF CallerTypes, ManagerTypes, JobId, LiveIds
  <1>3. Searching' = Searching BY DEF Searching, workerVars
  <1>4. MutexInv' /\ TodoInv' /\ RefInv' /\ QuietInv' /\ FreshInv' /\ CountInv'
    BY <1>3, CallerAssumption
    DEF MutexInv, TodoInv, RefInv, QuietInv, FreshInv, CountInv, Holding, LiveIds, CallerTypes, managerVars
  <1>5. ThreadInv' /\ RetiredInv'
    BY <1>3 DEF ThreadInv, RetiredInv, managerVars, stateVars, workerVars
  <1>6. CapInv' BY <1>3 DEF CapInv
  <1> QED BY <1>1, <1>2, <1>4, <1>5, <1>6

-----------------------------------------------------------------------------
(* A worker never begins a search or sets a running flag.                   *)
LEMMA WorkerKeeps ==
  ASSUME NEW h \in Handle, IInv, Worker(h)
  PROVE  IInv'
  <1> USE DEF IInv, TypeOK
  <1>1. now \in Nat BY DEF ManagerTypes
  <1>2. \A s \in Searching : running[s] BY DEF ThreadInv
  <1>3. CASE PollCancel(h)
    <2> USE <1>3 DEF PollCancel, CancelSeen
    <2>1. /\ UNCHANGED <<managerVars, callerVars>>
          /\ now' = now
      BY DEF PollCancel
    <2>2. StateTypes' BY DepthAssumption DEF StateTypes, WorkerTypes, Result, stateVars, ManagerTypes
    <2>3. WorkerTypes' BY DepthAssumption, <1>1 DEF WorkerTypes
    <2>4. /\ Searching' \subseteq Searching
          /\ \A s \in Searching' : running'[s]
          /\ \A s \in Handle : (running'[s] => running[s]) /\ (wpc'[s] = "none" => wpc[s] = "none")
      BY <1>2 DEF Searching, StateTypes, WorkerTypes, stateVars
    <2> QED BY <1>1, <2>1, <2>2, <2>3, <2>4, LeavesCallers
  <1>4. CASE CheckLease(h)
    <2> USE <1>4 DEF CheckLease, Lapsed
    <2>1. /\ UNCHANGED <<managerVars, callerVars>>
          /\ now' = now
      BY DEF CheckLease
    <2>2. StateTypes' BY DepthAssumption DEF StateTypes, WorkerTypes, Result, stateVars, ManagerTypes
    <2>3. WorkerTypes' BY DepthAssumption, <1>1 DEF WorkerTypes
    <2>4. /\ Searching' \subseteq Searching
          /\ \A s \in Searching' : running'[s]
          /\ \A s \in Handle : (running'[s] => running[s]) /\ (wpc'[s] = "none" => wpc[s] = "none")
      BY <1>2 DEF Searching, StateTypes, WorkerTypes, stateVars
    <2> QED BY <1>1, <2>1, <2>2, <2>3, <2>4, LeavesCallers
  <1>5. CASE PublishDepth(h)
    <2> USE <1>5 DEF PublishDepth, NextVersion
    <2>1. /\ UNCHANGED <<managerVars, callerVars>>
          /\ now' = now
      BY DEF PublishDepth
    <2>2. StateTypes'
      <3>1. depth[h] + 1 \in 0 .. MaxDepth BY DepthAssumption DEF WorkerTypes
      <3>2. [kind |-> "depth", depth |-> depth[h] + 1] \in Result BY <3>1 DEF Result
      <3>3. latest' \in [Handle -> Result] /\ version' \in [Handle -> Nat]
        BY <3>2 DEF StateTypes
      <3> QED BY <3>3 DEF StateTypes
    <2>3. WorkerTypes' BY DepthAssumption, <1>1 DEF WorkerTypes
    <2>4. /\ Searching' \subseteq Searching
          /\ \A s \in Searching' : running'[s]
          /\ \A s \in Handle : (running'[s] => running[s]) /\ (wpc'[s] = "none" => wpc[s] = "none")
      BY <1>2 DEF Searching, StateTypes, WorkerTypes, stateVars
    <2> QED BY <1>1, <2>1, <2>2, <2>3, <2>4, LeavesCallers
  <1>6. CASE AnalysisReturns(h)
    <2> USE <1>6 DEF AnalysisReturns, EndAnalysis
    <2>1. /\ UNCHANGED <<managerVars, callerVars>>
          /\ now' = now
      BY DEF AnalysisReturns
    <2>2. StateTypes' BY DepthAssumption DEF StateTypes, WorkerTypes, Result, stateVars, ManagerTypes
    <2>3. WorkerTypes' BY DepthAssumption, <1>1 DEF WorkerTypes
    <2>4. /\ Searching' \subseteq Searching
          /\ \A s \in Searching' : running'[s]
          /\ \A s \in Handle : (running'[s] => running[s]) /\ (wpc'[s] = "none" => wpc[s] = "none")
      BY <1>2 DEF Searching, StateTypes, WorkerTypes, stateVars
    <2> QED BY <1>1, <2>1, <2>2, <2>3, <2>4, LeavesCallers
  <1>7. CASE AnalysisThrows(h)
    <2> USE <1>7 DEF AnalysisThrows, EndAnalysis
    <2>1. /\ UNCHANGED <<managerVars, callerVars>>
          /\ now' = now
      BY DEF AnalysisThrows
    <2>2. StateTypes' BY DepthAssumption DEF StateTypes, WorkerTypes, Result, stateVars, ManagerTypes
    <2>3. WorkerTypes' BY DepthAssumption, <1>1 DEF WorkerTypes
    <2>4. /\ Searching' \subseteq Searching
          /\ \A s \in Searching' : running'[s]
          /\ \A s \in Handle : (running'[s] => running[s]) /\ (wpc'[s] = "none" => wpc[s] = "none")
      BY <1>2 DEF Searching, StateTypes, WorkerTypes, stateVars
    <2> QED BY <1>1, <2>1, <2>2, <2>3, <2>4, LeavesCallers
  <1>8. CASE Complete(h)
    <2> USE <1>8 DEF Complete, EndResult, NextVersion
    <2>1. /\ UNCHANGED <<managerVars, callerVars>>
          /\ now' = now
      BY DEF Complete
    <2>2. StateTypes' BY DepthAssumption DEF StateTypes, WorkerTypes, Result, stateVars, ManagerTypes
    <2>3. WorkerTypes' BY DepthAssumption, <1>1 DEF WorkerTypes
    <2>4. /\ Searching' \subseteq Searching
          /\ \A s \in Searching' : running'[s]
          /\ \A s \in Handle : (running'[s] => running[s]) /\ (wpc'[s] = "none" => wpc[s] = "none")
      BY <1>2 DEF Searching, StateTypes, WorkerTypes, stateVars
    <2> QED BY <1>1, <2>1, <2>2, <2>3, <2>4, LeavesCallers
  <1>9. CASE Fail(h)
    <2> USE <1>9 DEF Fail, NextVersion
    <2>1. /\ UNCHANGED <<managerVars, callerVars>>
          /\ now' = now
      BY DEF Fail
    <2>2. StateTypes' BY DepthAssumption DEF StateTypes, WorkerTypes, Result, stateVars, ManagerTypes
    <2>3. WorkerTypes' BY DepthAssumption, <1>1 DEF WorkerTypes
    <2>4. /\ Searching' \subseteq Searching
          /\ \A s \in Searching' : running'[s]
          /\ \A s \in Handle : (running'[s] => running[s]) /\ (wpc'[s] = "none" => wpc[s] = "none")
      BY <1>2 DEF Searching, StateTypes, WorkerTypes, stateVars
    <2> QED BY <1>1, <2>1, <2>2, <2>3, <2>4, LeavesCallers
  <1>10. CASE ThreadExits(h)
    <2> USE <1>10 DEF ThreadExits
    <2>1. /\ UNCHANGED <<managerVars, callerVars>>
          /\ now' = now
      BY DEF ThreadExits
    <2>2. StateTypes' BY DepthAssumption DEF StateTypes, WorkerTypes, Result, stateVars, ManagerTypes
    <2>3. WorkerTypes' BY DepthAssumption, <1>1 DEF WorkerTypes
    <2>4. /\ Searching' \subseteq Searching
          /\ \A s \in Searching' : running'[s]
          /\ \A s \in Handle : (running'[s] => running[s]) /\ (wpc'[s] = "none" => wpc[s] = "none")
      BY <1>2 DEF Searching, StateTypes, WorkerTypes, stateVars
    <2> QED BY <1>1, <2>1, <2>2, <2>3, <2>4, LeavesCallers
  <1> QED BY <1>3, <1>4, <1>5, <1>6, <1>7, <1>8, <1>9, <1>10 DEF Worker, Poll, End

(* The clock only moves forward.                                            *)
LEMMA TickKeeps ==
  ASSUME IInv, Tick
  PROVE  IInv'
  <1>1. StateTypes' /\ WorkerTypes' /\ now' \in Nat
    BY DEF Tick, IInv, TypeOK, ManagerTypes, StateTypes, WorkerTypes, stateVars, workerVars
  <1>2. /\ Searching' = Searching
        /\ \A h \in Searching' : running'[h]
    BY DEF Tick, IInv, ThreadInv, Searching, stateVars, workerVars
  <1>3. \A h \in Handle : (running'[h] => running[h]) /\ (wpc'[h] = "none" => wpc[h] = "none")
    BY DEF Tick, stateVars, workerVars
  <1> QED BY <1>1, <1>2, <1>3, LeavesCallers DEF Tick

(* The destructor empties the map while no caller is inside.                *)
LEMMA DestroyKeeps ==
  ASSUME IInv, Destroy
  PROVE  IInv'
  <1> USE DEF IInv, TypeOK, Destroy
  <1>1. ManagerTypes' /\ WorkerTypes' /\ CallerTypes'
    BY DEF ManagerTypes, WorkerTypes, CallerTypes, workerVars, callerVars
  <1>2. StateTypes' BY DEF StateTypes, CancelAll
  <1>3. Searching' = Searching BY DEF Searching, workerVars
  <1>4. \A c \in Caller : pc'[c] = "idle" BY DEF callerVars
  <1>5. MutexInv' /\ TodoInv' /\ RefInv' /\ QuietInv' /\ FreshInv' /\ CountInv'
    BY <1>4 DEF MutexInv, TodoInv, RefInv, QuietInv, FreshInv, CountInv, Holding
  <1>6. ThreadInv' BY <1>3 DEF ThreadInv
  <1>7. RetiredInv' BY DEF RetiredInv, workerVars, callerVars
  <1>8. CapInv' BY <1>3 DEF CapInv
  <1> QED BY <1>1, <1>2, <1>5, <1>6, <1>7, <1>8

(* Nothing happens.                                                         *)
LEMMA StutterKeeps ==
  ASSUME IInv, UNCHANGED vars
  PROVE  IInv'
  <1>1. StateTypes' /\ WorkerTypes' /\ now' \in Nat
    BY DEF vars, IInv, TypeOK, ManagerTypes, StateTypes, WorkerTypes, stateVars, workerVars
  <1>2. /\ Searching' = Searching
        /\ \A h \in Searching' : running'[h]
    BY DEF vars, IInv, ThreadInv, Searching, stateVars, workerVars
  <1>3. \A h \in Handle : (running'[h] => running[h]) /\ (wpc'[h] = "none" => wpc[h] = "none")
    BY DEF vars, stateVars, workerVars
  <1> QED BY <1>1, <1>2, <1>3, LeavesCallers DEF vars

-----------------------------------------------------------------------------
(* No job, no caller inside.                                                *)
LEMMA InitEstablishes == Init => IInv
  <1> SUFFICES ASSUME Init PROVE IInv OBVIOUS
  <1> USE DEF Init
  <1>1. ManagerTypes
    <2>1. nextId \in 0 .. IdSpace - 1 BY IdSpaceAssumption
    <2>2. jobs \in [JobId -> Handle \union {NoJob}] OBVIOUS
    <2> QED BY <2>1, <2>2 DEF ManagerTypes
  <1>2. StateTypes BY DepthAssumption DEF StateTypes, Result, NoResult
  <1>3. WorkerTypes BY DepthAssumption DEF WorkerTypes
  <1>4. CallerTypes
    <2>1. [id |-> 1, infinite |-> FALSE] \in [id : JobId, infinite : BOOLEAN]
      BY IdSpaceAssumption DEF JobId
    <2>2. NoMemory \in [job : Handle \union {NoJob}, version : Nat, latest : Result, ended : BOOLEAN]
      BY DepthAssumption DEF NoMemory, NoResult, Result
    <2> QED BY <2>1, <2>2 DEF CallerTypes
  <1>5. Searching = {} BY DEF Searching
  <1>6. CapInv BY <1>5, FS_EmptySet, RunningAssumption DEF CapInv
  <1>7. MutexInv /\ TodoInv /\ RefInv /\ QuietInv /\ FreshInv /\ CountInv /\ RetiredInv
    BY DEF MutexInv, TodoInv, RefInv, QuietInv, FreshInv, CountInv, RetiredInv, Holding
  <1>8. ThreadInv BY <1>5 DEF ThreadInv
  <1> QED BY <1>1, <1>2, <1>3, <1>4, <1>6, <1>7, <1>8 DEF IInv, TypeOK

(* Every step keeps the invariant.                                          *)
LEMMA NextKeeps == IInv /\ [Next]_vars => IInv'
  <1> SUFFICES ASSUME IInv, [Next]_vars PROVE IInv' OBVIOUS
  <1>1. ASSUME NEW c \in Caller, CallStart(c) \/ CallPoll(c) \/ CallStop(c) PROVE IInv'
    BY <1>1, CallKeeps
  <1>2. ASSUME NEW c \in Caller, UnderMutex(c) PROVE IInv'
    BY <1>2, LockJobsKeeps, CollectJobKeeps, CollectDoneKeeps, CountJobKeeps,
       RefuseStartKeeps, AcceptStartKeeps, AllocateIdKeeps, CreateJobKeeps, CreateFailsKeeps
    DEF UnderMutex
  <1>3. ASSUME NEW c \in Caller, Continue(c) PROVE IInv'
    BY <1>2, <1>3, JoinRetiredKeeps, FindJobKeeps, ReadClockKeeps, RenewLeaseKeeps,
       CopyStateKeeps, RequestStopKeeps
    DEF Continue
  <1>4. ASSUME NEW h \in Handle, Worker(h) PROVE IInv' BY <1>4, WorkerKeeps
  <1> QED BY <1>1, <1>3, <1>4, DestroyKeeps, TickKeeps, StutterKeeps DEF Next

(* The inductive invariant holds of every behaviour.                         *)
THEOREM Invariance == Spec => []IInv
  BY InitEstablishes, NextKeeps, PTL DEF Spec

(* Every variable of the manager, of its jobs, of their threads and of its   *)
(* callers keeps its type.                                                  *)
THEOREM TypeCorrect == Spec => []TypeOK
  <1>1. IInv => TypeOK BY DEF IInv
  <1> QED BY <1>1, Invariance, PTL

(* README: at most 4 background analyses at a time.  However many callers    *)
(* start jobs, and wherever workers complete between two readings of their   *)
(* flags, runningJobsLocked and start admit no search beyond the limit.      *)
THEOREM RunningLimit == Spec => []AtMostMaxExecuting
  <1>1. IInv => AtMostMaxExecuting BY DEF IInv, CapInv, AtMostMaxExecuting
  <1> QED BY <1>1, Invariance, PTL

(* The thread of a request joins only threads whose job has completed, so    *)
(* that no HTTP worker waits for a search.                                  *)
THEOREM JoinsAreShort == Spec => []JoinsOnlyCompleted
  <1>1. IInv => JoinsOnlyCompleted BY DEF IInv, RetiredInv, JoinsOnlyCompleted
  <1> QED BY <1>1, Invariance, PTL

-----------------------------------------------------------------------------
(***************************************************************************)
(* Proofs about what a poller of AnalysisJobs can see: the version counts  *)
(* the events of the search, a stopped search keeps its last depth, a      *)
(* client that follows the versions has the latest result, and the manager *)
(* with its locks, threads and clock implements the atomic board of        *)
(* JobBoard.                                                               *)
(***************************************************************************)

SnapshotOf(d) == IF d = 0 THEN NoResult ELSE [kind |-> "depth", depth |-> d]

(* The JobState of h against where its thread is.                           *)
EventsOf(h) ==
  /\ running[h] <=> h \in Searching
  /\ wpc[h] = "none" => version[h] = 0 /\ depth[h] = 0 /\ latest[h] = NoResult
  /\ running[h] => version[h] = depth[h] /\ latest[h] = SnapshotOf(depth[h])
  /\ wpc[h] = "finish" => outcome[h] # "none"
  /\ wpc[h] \in {"leaving", "exited"} =>
       /\ version[h] = depth[h] + 1
       /\ depth[h] > 0 => latest[h] # NoResult
       /\ depth[h] > 0 /\ outcome[h] \in {"cancelled", "error"}
            => latest[h] = SnapshotOf(depth[h])

EventsInv == \A h \in Handle : EventsOf(h)

(* What a client that has polled holds against the JobState it follows: a    *)
(* reply without a result leaves it with nothing only while there is none.   *)
Knows(m) ==
  /\ m.version = 0 => m.latest = NoResult
  /\ m.job # NoJob =>
       /\ wpc[m.job] # "none"
       /\ m.version <= version[m.job]
       /\ m.version = version[m.job] => m.latest = latest[m.job]
       /\ m.ended => ~running[m.job] /\ m.version = version[m.job]

MemoryInv == \A c \in Caller : Knows(mem[c])

(* A poll that found a job holds the state of one that has begun.            *)
BegunInv ==
  \A c \in Caller : pc[c] \in {"clock", "renew", "copy", "request"} => wpc[ref[c]] # "none"

PollInv == EventsInv /\ MemoryInv /\ BegunInv

jobVars == <<running, version, latest, wpc, depth, outcome>>

-----------------------------------------------------------------------------
(* A snapshot is a result, and tells its depth.                             *)
LEMMA SnapshotIsResult ==
  ASSUME NEW d \in 0 .. MaxDepth
  PROVE  SnapshotOf(d) \in Result /\ (d > 0 => SnapshotOf(d) # NoResult)
  BY DepthAssumption DEF SnapshotOf, Result, NoResult

(* The predicates read jobVars and the memory only.                          *)
LEMMA EventsAreOfJobs ==
  ASSUME EventsInv, UNCHANGED jobVars
  PROVE  EventsInv'
  BY DEF EventsInv, EventsOf, Searching, jobVars

LEMMA MemoryIsOfJobs ==
  ASSUME MemoryInv, UNCHANGED <<jobVars, mem>>
  PROVE  MemoryInv'
  BY DEF MemoryInv, Knows, jobVars

(* The callers, apart from the moment they create a job or copy its state,   *)
(* and the destructor and the clock, change neither.                         *)
QuietCaller(c) ==
  \/ CallStart(c) \/ CallPoll(c) \/ CallStop(c)
  \/ LockJobs(c) \/ CollectJob(c) \/ CollectDone(c)
  \/ CountJob(c) \/ RefuseStart(c) \/ AcceptStart(c)
  \/ AllocateId(c) \/ CreateFails(c)
  \/ JoinRetired(c) \/ FindJob(c) \/ ReadClock(c) \/ RenewLease(c) \/ RequestStop(c)

LEMMA QuietCallerFrame ==
  ASSUME NEW c \in Caller, QuietCaller(c)
  PROVE  UNCHANGED <<jobVars, mem>>
  BY DEF QuietCaller, jobVars, stateVars, workerVars, callerVars,
         CallStart, CallPoll, CallStop, Call,
         LockJobs, CollectJob, CollectDone, CountJob, RefuseStart, AcceptStart,
         AllocateId, CreateFails, JoinRetired, FindJob, ReadClock, RenewLease, RequestStop

(* A worker changes no JobState but its own, and no caller's locals.         *)
LEMMA WorkerFrame ==
  ASSUME NEW h \in Handle, Worker(h), StateTypes, WorkerTypes
  PROVE  /\ UNCHANGED callerVars
         /\ \A s \in Handle : s # h =>
              /\ running'[s] = running[s]
              /\ version'[s] = version[s]
              /\ latest'[s] = latest[s]
              /\ wpc'[s] = wpc[s]
              /\ depth'[s] = depth[s]
              /\ outcome'[s] = outcome[s]
  <1> USE DEF StateTypes, WorkerTypes, stateVars
  <1>1. CASE PollCancel(h) BY <1>1 DEF PollCancel
  <1>2. CASE CheckLease(h) BY <1>2 DEF CheckLease
  <1>3. CASE PublishDepth(h) BY <1>3 DEF PublishDepth
  <1>4. CASE AnalysisReturns(h) \/ AnalysisThrows(h)
    BY <1>4 DEF AnalysisReturns, AnalysisThrows, EndAnalysis
  <1>5. CASE Complete(h) BY <1>5 DEF Complete
  <1>6. CASE Fail(h) BY <1>6 DEF Fail
  <1>7. CASE ThreadExits(h) BY <1>7 DEF ThreadExits
  <1> QED BY <1>1, <1>2, <1>3, <1>4, <1>5, <1>6, <1>7, Zenon DEF Worker, Poll, End

-----------------------------------------------------------------------------
(* A worker's step keeps its own JobState and thread in agreement, and       *)
(* changes the result only together with the version.                       *)
LEMMA PollEvents ==
  ASSUME NEW h \in Handle, IInv, EventsOf(h), Poll(h) \/ AnalysisReturns(h) \/ AnalysisThrows(h)
  PROVE  /\ EventsOf(h)'
         /\ running'[h] = running[h] /\ version'[h] = version[h] /\ latest'[h] = latest[h]
         /\ wpc'[h] # "none"
  <1>1. /\ h \in Searching
        /\ running' = running /\ version' = version /\ latest' = latest /\ depth' = depth
    BY DEF Searching, stateVars, Poll, PollCancel, CheckLease, AnalysisReturns, AnalysisThrows, EndAnalysis
  <1>2. wpc'[h] \in {"search", "lease"} \/ (wpc'[h] = "finish" /\ outcome'[h] # "none")
    BY DEF IInv, TypeOK, WorkerTypes,
           Poll, PollCancel, CheckLease, AnalysisReturns, AnalysisThrows, EndAnalysis
  <1>3. h \in Searching' BY <1>2 DEF Searching
  <1> QED BY <1>1, <1>2, <1>3 DEF EventsOf

LEMMA PublishEvents ==
  ASSUME NEW h \in Handle, IInv, EventsOf(h), PublishDepth(h)
  PROVE  /\ EventsOf(h)'
         /\ running'[h] /\ running[h]
         /\ version'[h] = version[h] + 1
         /\ version[h] = depth[h]
         /\ depth[h] < MaxDepth
         /\ latest'[h] = [kind |-> "depth", depth |-> version[h] + 1]
         /\ wpc'[h] # "none"
  <1>1. /\ wpc[h] = "search" /\ h \in Searching
        /\ wpc' = wpc /\ running' = running /\ outcome' = outcome
        /\ depth[h] < MaxDepth
    BY DEF PublishDepth, Searching
  <1>2. running[h] /\ version[h] = depth[h] BY <1>1 DEF EventsOf
  <1>3. /\ depth'[h] = depth[h] + 1
        /\ version'[h] = version[h] + 1
        /\ latest'[h] = [kind |-> "depth", depth |-> depth[h] + 1]
    BY <1>2 DEF PublishDepth, NextVersion, IInv, TypeOK, StateTypes, WorkerTypes
  <1>4. depth[h] \in Nat BY DepthAssumption DEF IInv, TypeOK, WorkerTypes
  <1>5. latest'[h] = SnapshotOf(depth'[h]) BY <1>3, <1>4 DEF SnapshotOf
  <1>6. h \in Searching' BY <1>1 DEF Searching
  <1>7. EventsOf(h)' BY <1>1, <1>2, <1>3, <1>5, <1>6 DEF EventsOf
  <1> QED BY <1>1, <1>2, <1>3, <1>7

LEMMA EndEvents ==
  ASSUME NEW h \in Handle, IInv, EventsOf(h), Complete(h) \/ Fail(h)
  PROVE  /\ EventsOf(h)'
         /\ running[h] /\ ~running'[h]
         /\ version'[h] = version[h] + 1
         /\ \/ latest'[h] = latest[h]
            \/ latest'[h] = [kind |-> "final", depth |-> version[h]]
            \/ version[h] = 0 /\ latest'[h] = [kind |-> "cancelled", depth |-> 0]
         /\ wpc'[h] = "leaving"
  <1>1. /\ wpc[h] = "finish" /\ h \in Searching /\ outcome[h] # "none"
        /\ wpc'[h] = "leaving"
        /\ depth' = depth /\ outcome' = outcome
        /\ ~running'[h]
        /\ version'[h] = version[h] + 1
    BY DEF Complete, Fail, NextVersion, Searching, EventsOf, IInv, TypeOK, StateTypes, WorkerTypes
  <1>2. running[h] /\ version[h] = depth[h] /\ latest[h] = SnapshotOf(depth[h])
    BY <1>1 DEF EventsOf
  <1>3. h \notin Searching' BY <1>1 DEF Searching
  <1>4. depth[h] \in 0 .. MaxDepth /\ depth[h] \in Nat
    BY DepthAssumption DEF IInv, TypeOK, WorkerTypes
  <1>5. depth[h] > 0 => latest[h] # NoResult BY <1>2, <1>4, SnapshotIsResult
  <1>6. latest[h] = NoResult => depth[h] = 0 BY <1>4, <1>5
  <1>7. CASE outcome[h] = "error"
    <2>1. latest' = latest BY <1>7 DEF Complete, Fail
    <2> QED BY <1>1, <1>2, <1>3, <1>5, <2>1 DEF EventsOf
  <1>8. CASE outcome[h] = "cancelled"
    <2>1. latest'[h] = IF latest[h] = NoResult THEN [kind |-> "cancelled", depth |-> depth[h]]
                                               ELSE latest[h]
      BY <1>8 DEF Complete, Fail, EndResult, IInv, TypeOK, StateTypes
    <2>2. CASE latest[h] = NoResult
      <3>1. latest'[h] = [kind |-> "cancelled", depth |-> 0] /\ depth[h] = 0
        BY <1>6, <2>1, <2>2
      <3> QED BY <1>1, <1>2, <1>3, <3>1 DEF EventsOf
    <2>3. CASE latest[h] # NoResult
      <3>1. latest'[h] = latest[h] BY <2>1, <2>3
      <3> QED BY <1>1, <1>2, <1>3, <1>5, <3>1 DEF EventsOf
    <2> QED BY <2>2, <2>3
  <1>9. CASE outcome[h] = "final"
    <2>1. latest'[h] = [kind |-> "final", depth |-> depth[h]]
      BY <1>9 DEF Complete, Fail, EndResult, IInv, TypeOK, StateTypes
    <2>2. latest'[h] # NoResult BY <2>1 DEF NoResult
    <2> QED BY <1>1, <1>2, <1>3, <1>9, <2>1, <2>2 DEF EventsOf
  <1> QED BY <1>1, <1>7, <1>8, <1>9 DEF IInv, TypeOK, WorkerTypes

LEMMA ExitEvents ==
  ASSUME NEW h \in Handle, IInv, EventsOf(h), ThreadExits(h)
  PROVE  /\ EventsOf(h)'
         /\ running'[h] = running[h] /\ version'[h] = version[h] /\ latest'[h] = latest[h]
         /\ wpc'[h] # "none"
  <1>1. /\ wpc[h] = "leaving" /\ h \notin Searching
        /\ running' = running /\ version' = version /\ latest' = latest
        /\ depth' = depth /\ outcome' = outcome
        /\ wpc'[h] = "exited"
    BY DEF ThreadExits, Searching, stateVars, IInv, TypeOK, WorkerTypes
  <1>2. h \notin Searching' BY <1>1 DEF Searching
  <1> QED BY <1>1, <1>2 DEF EventsOf

(* Whatever a worker does, the version moves with the result, and only while *)
(* the job runs.                                                            *)
LEMMA WorkerEvents ==
  ASSUME NEW h \in Handle, IInv, EventsOf(h), Worker(h)
  PROVE  /\ EventsOf(h)'
         /\ wpc'[h] # "none"
         /\ \/ running'[h] = running[h] /\ version'[h] = version[h] /\ latest'[h] = latest[h]
            \/ running[h] /\ version'[h] = version[h] + 1
  <1>1. CASE Poll(h) \/ AnalysisReturns(h) \/ AnalysisThrows(h) BY <1>1, PollEvents, Zenon
  <1>2. CASE PublishDepth(h) BY <1>2, PublishEvents, Zenon
  <1>3. CASE Complete(h) \/ Fail(h)
    <2>1. /\ EventsOf(h)' /\ running[h] /\ version'[h] = version[h] + 1
          /\ wpc'[h] = "leaving"
      BY <1>3, EndEvents, Zenon
    <2> QED BY <2>1
  <1>4. CASE ThreadExits(h) BY <1>4, ExitEvents, Zenon
  <1> QED BY <1>1, <1>2, <1>3, <1>4, Zenon DEF Worker, End

LEMMA WorkerKeepsPolls ==
  ASSUME NEW h \in Handle, IInv, PollInv, Worker(h)
  PROVE  PollInv'
  <1>1. StateTypes /\ WorkerTypes /\ CallerTypes BY DEF IInv, TypeOK
  <1>2. EventsOf(h) BY DEF PollInv, EventsInv
  <1>3. /\ UNCHANGED callerVars
        /\ \A s \in Handle : s # h =>
              /\ running'[s] = running[s]
              /\ version'[s] = version[s]
              /\ latest'[s] = latest[s]
              /\ wpc'[s] = wpc[s]
              /\ depth'[s] = depth[s]
              /\ outcome'[s] = outcome[s]
    BY <1>1, WorkerFrame
  <1>4. /\ EventsOf(h)'
        /\ wpc'[h] # "none"
        /\ \/ running'[h] = running[h] /\ version'[h] = version[h] /\ latest'[h] = latest[h]
           \/ running[h] /\ version'[h] = version[h] + 1
    BY <1>2, WorkerEvents, Zenon
  <1>5. EventsInv'
    <2> SUFFICES ASSUME NEW s \in Handle, s # h PROVE EventsOf(s)'
      BY <1>4 DEF EventsInv
    <2>1. EventsOf(s) BY DEF PollInv, EventsInv
    <2>2. s \in Searching' <=> s \in Searching BY <1>3 DEF Searching
    <2> QED BY <1>3, <2>1, <2>2 DEF EventsOf
  <1>6. MemoryInv'
    <2> SUFFICES ASSUME NEW c \in Caller PROVE Knows(mem[c])'
      BY DEF MemoryInv
    <2> DEFINE m == mem[c]
    <2>1. mem'[c] = m BY <1>3 DEF callerVars
    <2>2. Knows(m) BY DEF PollInv, MemoryInv
    <2>3. m.job \in Handle \union {NoJob} /\ m.version \in Nat BY <1>1 DEF CallerTypes
    <2>4. CASE m.job = NoJob BY <2>1, <2>2, <2>4 DEF Knows
    <2>5. CASE m.job # NoJob /\ m.job # h BY <1>3, <2>1, <2>2, <2>3, <2>5 DEF Knows
    <2>6. CASE m.job # NoJob /\ m.job = h
      <3>1. version[h] \in Nat BY <1>1 DEF StateTypes
      <3> QED BY <1>4, <2>1, <2>2, <2>3, <2>6, <3>1 DEF Knows
    <2> QED BY <2>4, <2>5, <2>6
  <1>7. BegunInv'
    <2>1. \A c \in Caller : pc[c] \in {"clock", "renew", "copy", "request"} => ref[c] \in Handle
      BY DEF IInv, RefInv
    <2> QED BY <1>3, <1>4, <2>1 DEF PollInv, BegunInv, callerVars
  <1> QED BY <1>5, <1>6, <1>7 DEF PollInv

-----------------------------------------------------------------------------
(* A caller's job has begun: it was in the map when the caller found it.     *)
LEMMA CallerKeepsBegun ==
  ASSUME NEW c \in Caller, IInv, BegunInv, QuietCaller(c) \/ CopyState(c) \/ CreateJob(c),
         \A h \in Handle : wpc[h] # "none" => wpc'[h] # "none"
  PROVE  BegunInv'
  <1> DEFINE With(p) == p \in {"clock", "renew", "copy", "request"}
  <1>1. CallerTypes /\ ManagerTypes /\ RefInv /\ ThreadInv BY DEF IInv, TypeOK
  <1>2. \A d \in Caller : d # c => pc'[d] = pc[d] /\ ref'[d] = ref[d]
    <2> USE <1>1 DEF CallerTypes
    <2>1. CASE CallStart(c) \/ CallPoll(c) \/ CallStop(c)
      BY <2>1 DEF CallStart, CallPoll, CallStop, Call
    <2>2. CASE LockJobs(c) \/ CollectJob(c) \/ CollectDone(c) \/ CountJob(c)
      BY <2>2 DEF LockJobs, CollectJob, CollectDone, CountJob
    <2>3. CASE RefuseStart(c) \/ AcceptStart(c) \/ CreateFails(c) \/ CreateJob(c)
      BY <2>3 DEF RefuseStart, AcceptStart, CreateFails, CreateJob
    <2>4. CASE AllocateId(c)
      <3>1. ref' = ref /\ (pc' = pc \/ pc' = [pc EXCEPT ![c] = "create"])
        BY <2>4, Zenon DEF AllocateId
      <3> QED BY <3>1
    <2>5. CASE JoinRetired(c) \/ FindJob(c) \/ CopyState(c) \/ RequestStop(c)
      BY <2>5 DEF JoinRetired, FindJob, CopyState, RequestStop, Return
    <2>6. CASE ReadClock(c) \/ RenewLease(c) BY <2>6 DEF ReadClock, RenewLease
    <2> QED BY <2>1, <2>2, <2>3, <2>4, <2>5, <2>6 DEF QuietCaller
  <1>3. With(pc'[c]) =>
          \/ With(pc[c]) /\ ref'[c] = ref[c]
          \/ ref'[c] \in Handle /\ wpc[ref'[c]] # "none"
    <2> USE <1>1 DEF CallerTypes
    <2>1. CASE CallStart(c) \/ CallPoll(c) \/ CallStop(c)
      BY <2>1 DEF CallStart, CallPoll, CallStop, Call
    <2>2. CASE LockJobs(c) \/ CollectJob(c) \/ CollectDone(c) \/ CountJob(c)
      BY <2>2 DEF LockJobs, CollectJob, CollectDone, CountJob
    <2>3. CASE RefuseStart(c) \/ AcceptStart(c) \/ CreateFails(c) \/ CreateJob(c)
      BY <2>3 DEF RefuseStart, AcceptStart, CreateFails, CreateJob
    <2>4. CASE AllocateId(c)
      <3>1. /\ pc[c] = "allocate"
            /\ pc' = pc \/ pc' = [pc EXCEPT ![c] = "create"]
        BY <2>4, Zenon DEF AllocateId
      <3> QED BY <3>1
    <2>5. CASE JoinRetired(c) \/ CopyState(c) \/ RequestStop(c)
      BY <2>5 DEF JoinRetired, CopyState, RequestStop, Return
    <2>6. CASE FindJob(c)
      <3>1. jobs[arg[c].id] \in Handle \union {NoJob}
        BY <1>1 DEF ManagerTypes
      <3>2. jobs[arg[c].id] # NoJob => wpc[jobs[arg[c].id]] # "none"
        BY <1>1 DEF ThreadInv
      <3> QED BY <2>6, <3>1, <3>2 DEF FindJob, Return
    <2>7. CASE ReadClock(c) \/ RenewLease(c) BY <2>7 DEF ReadClock, RenewLease
    <2> QED BY <2>1, <2>2, <2>3, <2>4, <2>5, <2>6, <2>7 DEF QuietCaller
  <1>4. \A d \in Caller : With(pc[d]) => ref[d] \in Handle /\ wpc[ref[d]] # "none"
    BY <1>1 DEF RefInv, BegunInv
  <1>5. \A d \in Caller : With(pc'[d]) => wpc'[ref'[d]] # "none"
    BY <1>2, <1>3, <1>4
  <1> QED BY <1>5 DEF BegunInv

LEMMA QuietCallerKeepsPolls ==
  ASSUME NEW c \in Caller, IInv, PollInv, QuietCaller(c)
  PROVE  PollInv'
  <1>1. UNCHANGED <<jobVars, mem>> BY QuietCallerFrame
  <1>2. EventsInv' /\ MemoryInv' BY <1>1, EventsAreOfJobs, MemoryIsOfJobs DEF PollInv
  <1>3. \A h \in Handle : wpc[h] # "none" => wpc'[h] # "none" BY <1>1 DEF jobVars
  <1>4. BegunInv' BY <1>3, CallerKeepsBegun DEF PollInv
  <1> QED BY <1>2, <1>4 DEF PollInv

(* A new job is one that nobody has polled.                                 *)
LEMMA CreateJobKeepsPolls ==
  ASSUME NEW c \in Caller, IInv, PollInv, CreateJob(c)
  PROVE  PollInv'
  <1>1. PICK h \in Handle :
          /\ wpc[h] = "none"
          /\ running' = [running EXCEPT ![h] = TRUE]
          /\ wpc'     = [wpc EXCEPT ![h] = "search"]
    BY DEF CreateJob
  <1>2. UNCHANGED <<version, latest, depth, outcome, mem>> BY DEF CreateJob
  <1>3. StateTypes /\ WorkerTypes /\ CallerTypes BY DEF IInv, TypeOK
  <1>4. EventsInv'
    <2> SUFFICES ASSUME NEW s \in Handle PROVE EventsOf(s)'
      BY DEF EventsInv
    <2>1. EventsOf(s) BY DEF PollInv, EventsInv
    <2>2. CASE s = h
      <3>1. /\ version'[s] = 0 /\ depth'[s] = 0 /\ latest'[s] = NoResult
            /\ running'[s] /\ wpc'[s] = "search"
        BY <1>1, <1>2, <1>3, <2>1, <2>2 DEF EventsOf, StateTypes, WorkerTypes
      <3>2. s \in Searching' BY <3>1 DEF Searching
      <3> QED BY <3>1, <3>2 DEF EventsOf, SnapshotOf
    <2>3. CASE s # h
      <3>1. running'[s] = running[s] /\ wpc'[s] = wpc[s]
        BY <1>1, <1>3, <2>3 DEF StateTypes, WorkerTypes
      <3>2. s \in Searching' <=> s \in Searching BY <3>1 DEF Searching
      <3> QED BY <1>2, <2>1, <3>1, <3>2 DEF EventsOf
    <2> QED BY <2>2, <2>3
  <1>5. MemoryInv'
    <2> SUFFICES ASSUME NEW d \in Caller PROVE Knows(mem[d])'
      BY DEF MemoryInv
    <2>1. Knows(mem[d]) BY DEF PollInv, MemoryInv
    <2>2. mem[d].job \in Handle \union {NoJob} BY <1>3 DEF CallerTypes
    <2>3. \A s \in Handle : wpc[s] # "none" => running'[s] = running[s] /\ wpc'[s] = wpc[s]
      BY <1>1, <1>3 DEF StateTypes, WorkerTypes
    <2> QED BY <1>2, <2>1, <2>2, <2>3 DEF Knows
  <1>6. \A s \in Handle : wpc[s] # "none" => wpc'[s] # "none"
    BY <1>1, <1>3 DEF WorkerTypes
  <1>7. BegunInv' BY <1>6, CallerKeepsBegun DEF PollInv
  <1> QED BY <1>4, <1>5, <1>7 DEF PollInv

(* A copy is the state of that moment, or what the client already had of it. *)
LEMMA CopiedKnows ==
  ASSUME IInv, PollInv, NEW h \in Handle, NEW c \in Caller, wpc[h] # "none"
  PROVE  Knows(Copied(h, mem[c]))
  <1>1. /\ version[h] \in Nat
        /\ depth[h] \in Nat
        /\ NoMemory.version = 0 /\ NoMemory.latest = NoResult
        /\ mem[c].version \in Nat
        /\ wpc[h] \in {"search", "lease", "finish", "leaving", "exited"}
        /\ h # NoJob
    BY DepthAssumption, HandleAssumption DEF IInv, TypeOK, StateTypes, WorkerTypes, CallerTypes, NoMemory
  <1>2. EventsOf(h) /\ Knows(mem[c]) BY DEF PollInv, EventsInv, MemoryInv
  <1>3. running[h] \/ wpc[h] \in {"leaving", "exited"} BY <1>1, <1>2 DEF EventsOf, Searching
  <1>4. version[h] = 0 => latest[h] = NoResult
    BY <1>1, <1>2, <1>3 DEF EventsOf, SnapshotOf
  <1>5. latest[h] = NoResult => version[h] \in {0, 1}
    <2>1. depth[h] > 0 => latest[h] # NoResult
      BY <1>1, <1>2, <1>3, SnapshotIsResult DEF EventsOf, IInv, TypeOK, WorkerTypes
    <2> QED BY <1>1, <1>2, <1>3, <2>1 DEF EventsOf
  <1> DEFINE seen == IF mem[c].job = h THEN mem[c] ELSE NoMemory
             copy == Copied(h, mem[c])
  <1>6. /\ seen.version \in Nat
        /\ seen.version = 0 => seen.latest = NoResult
        /\ seen.version <= version[h]
        /\ seen.version = version[h] => seen.latest = latest[h]
    BY <1>1, <1>2, <1>4 DEF Knows
  <1>7. /\ copy.job = h /\ copy.version = version[h] /\ copy.ended = ~running[h]
        /\ copy.latest = IF version[h] > seen.version /\ latest[h] # NoResult
                            THEN latest[h] ELSE seen.latest
    BY DEF Copied
  <1>8. copy.latest = latest[h]
    <2>1. CASE version[h] > seen.version /\ latest[h] # NoResult BY <1>7, <2>1
    <2>2. CASE version[h] > seen.version /\ latest[h] = NoResult
      <3>1. seen.version = 0 BY <1>1, <1>5, <1>6, <2>2
      <3> QED BY <1>6, <1>7, <2>2, <3>1
    <2>3. CASE ~(version[h] > seen.version)
      <3>1. seen.version = version[h] BY <1>1, <1>6, <2>3
      <3> QED BY <1>6, <1>7, <2>3, <3>1
    <2> QED BY <2>1, <2>2, <2>3
  <1>9. copy.version = 0 => copy.latest = NoResult BY <1>4, <1>7, <1>8
  <1>10. copy.ended => ~running[h] BY DEF Copied
  <1> HIDE DEF copy
  <1>11. version[h] <= version[h] BY <1>1
  <1>12. Knows(copy) BY <1>7, <1>8, <1>9, <1>10, <1>11 DEF Knows
  <1> QED BY <1>12 DEF copy

LEMMA CopyStateKeepsPolls ==
  ASSUME NEW c \in Caller, IInv, PollInv, CopyState(c)
  PROVE  PollInv'
  <1>1. UNCHANGED jobVars BY DEF CopyState, jobVars, stateVars, workerVars
  <1>2. mem' = mem \/ mem' = [mem EXCEPT ![c] = Copied(ref[c], mem[c])]
    BY Zenon DEF CopyState
  <1>3. EventsInv' BY <1>1, EventsAreOfJobs DEF PollInv
  <1>4. ref[c] \in Handle /\ wpc[ref[c]] # "none"
    BY DEF CopyState, IInv, RefInv, PollInv, BegunInv
  <1>5. Knows(Copied(ref[c], mem[c])) BY <1>4, CopiedKnows
  <1>6. \A d \in Caller : Knows(mem'[d])
    BY <1>2, <1>5 DEF PollInv, MemoryInv, IInv, TypeOK, CallerTypes
  <1>7. MemoryInv' BY <1>1, <1>6 DEF MemoryInv, Knows, jobVars
  <1>8. BegunInv' BY <1>1, CallerKeepsBegun DEF PollInv, jobVars
  <1> QED BY <1>3, <1>7, <1>8 DEF PollInv

-----------------------------------------------------------------------------
(* No job has begun and nothing is known.                                   *)
LEMMA InitPolls == Init => PollInv
  <1> SUFFICES ASSUME Init PROVE PollInv OBVIOUS
  <1>1. EventsInv BY DEF Init, EventsInv, EventsOf, Searching
  <1>2. MemoryInv BY DEF Init, MemoryInv, Knows, NoMemory
  <1>3. BegunInv BY DEF Init, BegunInv
  <1> QED BY <1>1, <1>2, <1>3 DEF PollInv

(* The destructor, the clock and a step that changes nothing.               *)
LEMMA RestKeepsPolls ==
  ASSUME PollInv, Destroy \/ Tick \/ UNCHANGED vars
  PROVE  PollInv'
  <1>1. UNCHANGED <<jobVars, mem, pc, ref>>
    BY DEF Destroy, Tick, vars, jobVars, stateVars, workerVars, callerVars
  <1>2. EventsInv' /\ MemoryInv' BY <1>1, EventsAreOfJobs, MemoryIsOfJobs DEF PollInv
  <1>3. BegunInv' BY <1>1 DEF PollInv, BegunInv, jobVars
  <1> QED BY <1>2, <1>3 DEF PollInv

LEMMA NextKeepsPolls == IInv /\ PollInv /\ [Next]_vars => PollInv'
  <1> SUFFICES ASSUME IInv, PollInv, [Next]_vars PROVE PollInv' OBVIOUS
  <1>1. ASSUME NEW c \in Caller, CallStart(c) \/ CallPoll(c) \/ CallStop(c) \/ Continue(c)
        PROVE  PollInv'
    <2>1. QuietCaller(c) \/ CreateJob(c) \/ CopyState(c)
      BY <1>1, Zenon DEF QuietCaller, Continue, UnderMutex
    <2> QED BY <2>1, QuietCallerKeepsPolls, CreateJobKeepsPolls, CopyStateKeepsPolls, Zenon
  <1>2. ASSUME NEW h \in Handle, Worker(h) PROVE PollInv' BY <1>2, WorkerKeepsPolls
  <1> QED BY <1>1, <1>2, RestKeepsPolls, Zenon DEF Next

THEOREM PollInvariance == Spec => []PollInv
  BY InitPolls, NextKeepsPolls, Invariance, PTL DEF Spec

(* Every version a poller can see stands for one event of the search: as    *)
(* many complete depths while the job runs, one more at its end, however     *)
(* the workers, the pollers and the stops interleave.                       *)
THEOREM VersionsAreEvents == Spec => []VersionCountsEvents
  <1>1. IInv /\ PollInv => VersionCountsEvents
    <2> SUFFICES ASSUME IInv, PollInv, NEW h \in Handle
                 PROVE  IF running[h]
                          THEN version[h] = depth[h] /\ latest[h] = SnapshotOf(depth[h])
                          ELSE wpc[h] # "none" => version[h] = depth[h] + 1
      BY DEF VersionCountsEvents, SnapshotOf
    <2>1. EventsOf(h) BY DEF PollInv, EventsInv
    <2>2. wpc[h] \in {"none", "search", "lease", "finish", "leaving", "exited"}
      BY DEF IInv, TypeOK, WorkerTypes
    <2> QED BY <2>1, <2>2 DEF EventsOf, Searching
  <1> QED BY <1>1, Invariance, PollInvariance, PTL

(* README: a job that is stopped keeps the result of its last complete       *)
(* depth; a job that fails keeps it too.                                    *)
THEOREM LastDepthIsKept == Spec => []StopKeepsLastDepth
  <1>1. IInv /\ PollInv => StopKeepsLastDepth
    <2> SUFFICES ASSUME IInv, PollInv, NEW h \in Handle,
                        wpc[h] \in {"leaving", "exited"},
                        outcome[h] \in {"cancelled", "error"}, depth[h] > 0
                 PROVE  latest[h] = [kind |-> "depth", depth |-> depth[h]]
      BY DEF StopKeepsLastDepth
    <2>1. EventsOf(h) BY DEF PollInv, EventsInv
    <2> QED BY <2>1, DepthAssumption DEF EventsOf, SnapshotOf, IInv, TypeOK, WorkerTypes
  <1> QED BY <1>1, Invariance, PollInvariance, PTL

(* A client that passes the version of its last reply to the next poll has   *)
(* the latest result whenever it has the latest version, and once it is told *)
(* the job has ended it has the result it ended with.                        *)
THEOREM FollowersAreCurrent == Spec => []FollowerHasLatest
  <1>1. PollInv => FollowerHasLatest
    BY DEF PollInv, MemoryInv, Knows, FollowerHasLatest
  <1> QED BY <1>1, PollInvariance, PTL

-----------------------------------------------------------------------------
(***************************************************************************)
(* The refinement of JobBoard.  A job is on the board while it is running,  *)
(* from the moment start registers it; its limit is the one the manager     *)
(* enforces by counting flags.                                             *)
(***************************************************************************)
Phase(h) == IF wpc[h] = "none" THEN "none" ELSE IF running[h] THEN "running" ELSE "ended"
PhaseBar == [h \in Handle |-> Phase(h)]

(* The job that CreateJob registers was not on the board, and the board has  *)
(* room for it: with it the manager is still within its limit.               *)
LEMMA CreateStartsJob ==
  ASSUME NEW c \in Caller, IInv, IInv', PollInv, CreateJob(c)
  PROVE  Board!BoardNext
  <1>1. PICK h \in Handle :
          /\ wpc[h] = "none"
          /\ running' = [running EXCEPT ![h] = TRUE]
          /\ wpc'     = [wpc EXCEPT ![h] = "search"]
    BY DEF CreateJob
  <1>2. /\ StateTypes /\ WorkerTypes /\ CapInv /\ CapInv'
        /\ \A s \in Handle : running[s] <=> s \in Searching
    BY DEF IInv, TypeOK, PollInv, EventsInv, EventsOf
  <1>3. Board!RunningJobs = Searching
    BY <1>2 DEF Board!RunningJobs, Searching
  <1>4. Cardinality(Searching) < MaxRunning
    <2>1. Searching' = Searching \union {h} BY <1>1, <1>2 DEF Searching, WorkerTypes
    <2>2. h \notin Searching BY <1>1 DEF Searching
    <2>3. Cardinality(Searching') = Cardinality(Searching) + 1
      BY <1>2, <2>1, <2>2, FS_AddElement DEF CapInv
    <2>4. Cardinality(Searching) \in Nat BY <1>2, FS_CardinalityType DEF CapInv
    <2> QED BY <1>2, <2>3, <2>4, RunningAssumption DEF CapInv
  <1>5. PhaseBar[h] = "none" BY <1>1 DEF PhaseBar, Phase
  <1>6. PhaseBar' = [PhaseBar EXCEPT ![h] = "running"]
    BY <1>1, <1>2 DEF PhaseBar, Phase, StateTypes, WorkerTypes
  <1>7. UNCHANGED <<version, latest>> BY DEF CreateJob
  <1>8. Board!Cardinality(Searching) = Cardinality(Searching)
    BY Zenon DEF Board!Cardinality, Cardinality
  <1>9. Board!StartJob(h)
    BY <1>3, <1>4, <1>5, <1>6, <1>7, <1>8 DEF Board!StartJob, PhaseBar, Phase
  <1> QED BY <1>9 DEF Board!BoardNext

(* A worker completes a depth or ends its job, or the board does not change. *)
LEMMA WorkerMovesBoard ==
  ASSUME NEW h \in Handle, IInv, PollInv, Worker(h)
  PROVE  Board!BoardNext \/ UNCHANGED Board!boardVars
  <1>1. StateTypes /\ WorkerTypes /\ EventsOf(h) BY DEF IInv, TypeOK, PollInv, EventsInv
  <1>2. \A s \in Handle : s # h =>
              /\ running'[s] = running[s]
              /\ version'[s] = version[s]
              /\ latest'[s] = latest[s]
              /\ wpc'[s] = wpc[s]
    BY <1>1, WorkerFrame
  <1>3. /\ running' \in [Handle -> BOOLEAN] /\ version' \in [Handle -> Nat]
        /\ latest' \in [Handle -> Result]
    BY NextKeeps DEF Next, IInv, TypeOK, StateTypes
  <1>4. wpc[h] # "none" /\ wpc'[h] # "none"
    <2>1. wpc'[h] # "none" BY <1>1, WorkerEvents, Zenon
    <2>2. wpc[h] # "none"
      BY DEF Worker, Poll, End, PollCancel, CheckLease, PublishDepth, AnalysisReturns,
             AnalysisThrows, EndAnalysis, Complete, Fail, ThreadExits
    <2> QED BY <2>1, <2>2
  <1>5. CASE running'[h] = running[h] /\ version'[h] = version[h] /\ latest'[h] = latest[h]
    <2>1. version' = version /\ latest' = latest BY <1>1, <1>2, <1>3, <1>5 DEF StateTypes
    <2>2. PhaseBar' = PhaseBar BY <1>2, <1>4, <1>5 DEF PhaseBar, Phase
    <2> QED BY <2>1, <2>2 DEF Board!boardVars, PhaseBar, Phase
  <1>6. CASE PublishDepth(h)
    <2>1. /\ running'[h] /\ running[h]
          /\ version'[h] = version[h] + 1
          /\ version[h] = depth[h] /\ depth[h] < MaxDepth
          /\ latest'[h] = [kind |-> "depth", depth |-> version[h] + 1]
      BY <1>1, <1>6, PublishEvents, Zenon
    <2>2. PhaseBar' = PhaseBar BY <1>2, <1>4, <2>1 DEF PhaseBar, Phase
    <2>3. PhaseBar[h] = "running" BY <1>4, <2>1 DEF PhaseBar, Phase
    <2>4. version' = [version EXCEPT ![h] = @ + 1] BY <1>1, <1>2, <1>3, <2>1 DEF StateTypes
    <2>5. latest' = [latest EXCEPT ![h] = Board!Snapshot(version[h] + 1)]
      BY <1>1, <1>2, <1>3, <2>1 DEF StateTypes, Board!Snapshot
    <2>6. Board!CompleteDepth(h)
      BY <2>1, <2>2, <2>3, <2>4, <2>5 DEF Board!CompleteDepth, PhaseBar, Phase
    <2> QED BY <2>6 DEF Board!BoardNext
  <1>7. CASE Complete(h) \/ Fail(h)
    <2>1. /\ running[h] /\ ~running'[h]
          /\ version'[h] = version[h] + 1
          /\ \/ latest'[h] = latest[h]
             \/ latest'[h] = [kind |-> "final", depth |-> version[h]]
             \/ version[h] = 0 /\ latest'[h] = [kind |-> "cancelled", depth |-> 0]
      BY <1>1, <1>7, EndEvents, Zenon
    <2>2. PhaseBar[h] = "running" BY <1>4, <2>1 DEF PhaseBar, Phase
    <2>3. PhaseBar' = [PhaseBar EXCEPT ![h] = "ended"]
      BY <1>2, <1>4, <2>1 DEF PhaseBar, Phase
    <2>4. version' = [version EXCEPT ![h] = @ + 1] BY <1>1, <1>2, <1>3, <2>1 DEF StateTypes
    <2>5. latest' = [latest EXCEPT ![h] = latest'[h]]
      BY <1>1, <1>2, <1>3 DEF StateTypes
    <2>6. latest' = latest \/ latest'[h] # latest[h] BY <1>1, <2>5 DEF StateTypes
    <2>7. Board!EndJob(h)
      BY <2>1, <2>2, <2>3, <2>4, <2>5, <2>6 DEF Board!EndJob, PhaseBar, Phase
    <2> QED BY <2>7 DEF Board!BoardNext
  <1>8. CASE Poll(h) \/ AnalysisReturns(h) \/ AnalysisThrows(h)
    BY <1>1, <1>5, <1>8, PollEvents, Zenon
  <1>9. CASE ThreadExits(h) BY <1>1, <1>5, <1>9, ExitEvents, Zenon
  <1> QED BY <1>6, <1>7, <1>8, <1>9, Zenon DEF Worker, End

(* Every step of the manager, its callers and its workers is one of the      *)
(* board or leaves it unchanged.                                            *)
LEMMA NextMovesBoard ==
  IInv /\ IInv' /\ PollInv /\ [Next]_vars => [Board!BoardNext]_(Board!boardVars)
  <1> SUFFICES ASSUME IInv, IInv', PollInv, [Next]_vars
               PROVE  Board!BoardNext \/ UNCHANGED Board!boardVars
    OBVIOUS
  <1>1. UNCHANGED jobVars => UNCHANGED Board!boardVars
    BY DEF jobVars, Board!boardVars
  <1>2. ASSUME NEW c \in Caller, CallStart(c) \/ CallPoll(c) \/ CallStop(c) \/ Continue(c)
        PROVE  Board!BoardNext \/ UNCHANGED Board!boardVars
    <2>1. QuietCaller(c) \/ CreateJob(c) \/ CopyState(c)
      BY <1>2, Zenon DEF QuietCaller, Continue, UnderMutex
    <2>2. CASE QuietCaller(c) BY <1>1, <2>2, QuietCallerFrame
    <2>3. CASE CreateJob(c) BY <2>3, CreateStartsJob
    <2>4. CASE CopyState(c) BY <1>1, <2>4 DEF CopyState, jobVars, stateVars, workerVars
    <2> QED BY <2>1, <2>2, <2>3, <2>4
  <1>3. ASSUME NEW h \in Handle, Worker(h)
        PROVE  Board!BoardNext \/ UNCHANGED Board!boardVars
    BY <1>3, WorkerMovesBoard
  <1>4. CASE Destroy \/ Tick \/ UNCHANGED vars
    <2>1. UNCHANGED jobVars
      BY <1>4 DEF Destroy, Tick, vars, jobVars, stateVars, workerVars, callerVars
    <2> QED BY <1>1, <2>1
  <1> QED BY <1>2, <1>3, <1>4, Zenon DEF Next

(* The manager implements the atomic board: starts only below the limit, one *)
(* version per depth and one for the end, the last snapshot kept.            *)
THEOREM BoardIsImplemented == Spec => ImplementsJobBoard
  <1>1. Init => Board!BoardInit
    BY DEF Init, Board!BoardInit, Board!Nothing, NoResult
  <1>2. IInv /\ IInv' /\ PollInv /\ [Next]_vars => [Board!BoardNext]_(Board!boardVars)
    BY NextMovesBoard
  <1> QED
    BY <1>1, <1>2, Invariance, PollInvariance, PTL DEF Spec, ImplementsJobBoard, Board!BoardSpec

-----------------------------------------------------------------------------
(***************************************************************************)
(* Proofs about who owns the thread of a job: the map until a collection   *)
(* takes it out, then the caller that collected it until that caller has   *)
(* joined it.  Every thread is joined once, and an entry goes only after   *)
(* its job was complete for the retention period.                          *)
(***************************************************************************)

(* One id per job, a collected job has none, no job is collected twice.      *)
UniqueInv ==
  /\ \A i, k \in JobId : jobs[i] # NoJob /\ jobs[i] = jobs[k] => i = k
  /\ \A c \in Caller : \A h \in retiring[c] : \A i \in JobId : jobs[i] # h
  /\ \A c, d \in Caller : \A h \in retiring[c] : h \in retiring[d] => c = d

(* Until the destructor takes them, no thread is lost.                      *)
OwnedInv ==
  ~shuttingDown =>
    \A h \in Handle : wpc[h] \notin {"none", "exited"} =>
      \/ \E i \in JobId : jobs[i] = h
      \/ \E c \in Caller : h \in retiring[c]

(* A collection compares with a clock that was read before.                  *)
ClockInv == \A c \in Caller : pc[c] = "collect" => clock[c] <= now

OwnerInv == UniqueInv /\ OwnedInv /\ ClockInv

-----------------------------------------------------------------------------
(* Steps that change neither the map nor a retiring list, and begin no       *)
(* thread.                                                                  *)
LEMMA OwnersStay ==
  ASSUME OwnerInv, UNCHANGED <<jobs, retiring, shuttingDown>>,
         \A h \in Handle : wpc'[h] \notin {"none", "exited"} => wpc[h] \notin {"none", "exited"},
         ClockInv'
  PROVE  OwnerInv'
  <1>1. UniqueInv' BY DEF OwnerInv, UniqueInv
  <1>2. OwnedInv' BY DEF OwnerInv, OwnedInv
  <1> QED BY <1>1, <1>2 DEF OwnerInv

(* The steps of a caller that move no thread.                                *)
Bystander(c) ==
  \/ CallStart(c) \/ CallPoll(c) \/ CallStop(c)
  \/ LockJobs(c) \/ CollectDone(c) \/ CountJob(c) \/ RefuseStart(c) \/ AcceptStart(c)
  \/ AllocateId(c) \/ CreateFails(c)
  \/ FindJob(c) \/ ReadClock(c) \/ RenewLease(c) \/ CopyState(c) \/ RequestStop(c)

LEMMA BystanderFrame ==
  ASSUME NEW c \in Caller, Bystander(c)
  PROVE  UNCHANGED <<jobs, retiring, shuttingDown, wpc, now>>
  BY DEF Bystander, managerVars, workerVars, callerVars,
         CallStart, CallPoll, CallStop, Call,
         LockJobs, CollectDone, CountJob, RefuseStart, AcceptStart,
         AllocateId, CreateFails, FindJob, ReadClock, RenewLease, CopyState, RequestStop

(* A caller reads the clock again before its next collection.                *)
LEMMA CallerKeepsClock ==
  ASSUME NEW c \in Caller, IInv, ClockInv,
         Bystander(c) \/ CollectJob(c) \/ CreateJob(c) \/ JoinRetired(c)
  PROVE  ClockInv'
  <1>1. CallerTypes /\ now \in Nat BY DEF IInv, TypeOK, ManagerTypes
  <1>2. now' = now
    <2>1. CASE Bystander(c) BY <2>1, BystanderFrame
    <2> QED BY <2>1 DEF CollectJob, CreateJob, JoinRetired
  <1>3. \A d \in Caller : d # c => pc'[d] = pc[d] /\ clock'[d] = clock[d]
    <2> USE <1>1 DEF CallerTypes
    <2>1. CASE CallStart(c) \/ CallPoll(c) \/ CallStop(c)
      BY <2>1 DEF CallStart, CallPoll, CallStop, Call
    <2>2. CASE LockJobs(c) \/ CollectJob(c) \/ CollectDone(c) \/ CountJob(c)
      BY <2>2 DEF LockJobs, CollectJob, CollectDone, CountJob
    <2>3. CASE RefuseStart(c) \/ AcceptStart(c) \/ CreateFails(c) \/ CreateJob(c)
      BY <2>3 DEF RefuseStart, AcceptStart, CreateFails, CreateJob
    <2>4. CASE AllocateId(c)
      <3>1. clock' = clock /\ (pc' = pc \/ pc' = [pc EXCEPT ![c] = "create"])
        BY <2>4, Zenon DEF AllocateId
      <3> QED BY <3>1
    <2>5. CASE JoinRetired(c) \/ FindJob(c) \/ CopyState(c) \/ RequestStop(c)
      BY <2>5 DEF JoinRetired, FindJob, CopyState, RequestStop, Return
    <2>6. CASE ReadClock(c) \/ RenewLease(c) BY <2>6 DEF ReadClock, RenewLease
    <2> QED BY <2>1, <2>2, <2>3, <2>4, <2>5, <2>6 DEF Bystander
  <1>4. pc'[c] = "collect" => (pc[c] = "collect" /\ clock'[c] = clock[c]) \/ clock'[c] = now
    <2> USE <1>1 DEF CallerTypes
    <2>1. CASE CallStart(c) \/ CallPoll(c) \/ CallStop(c)
      BY <2>1 DEF CallStart, CallPoll, CallStop, Call
    <2>2. CASE LockJobs(c) \/ CollectJob(c) \/ CollectDone(c) \/ CountJob(c)
      BY <2>2 DEF LockJobs, CollectJob, CollectDone, CountJob
    <2>3. CASE RefuseStart(c) \/ AcceptStart(c) \/ CreateFails(c) \/ CreateJob(c)
      BY <2>3 DEF RefuseStart, AcceptStart, CreateFails, CreateJob
    <2>4. CASE AllocateId(c)
      <3>1. /\ pc[c] = "allocate"
            /\ pc' = pc \/ pc' = [pc EXCEPT ![c] = "create"]
        BY <2>4, Zenon DEF AllocateId
      <3> QED BY <3>1
    <2>5. CASE JoinRetired(c) \/ FindJob(c) \/ CopyState(c) \/ RequestStop(c)
      BY <2>5 DEF JoinRetired, FindJob, CopyState, RequestStop, Return
    <2>6. CASE ReadClock(c) \/ RenewLease(c) BY <2>6 DEF ReadClock, RenewLease
    <2> QED BY <2>1, <2>2, <2>3, <2>4, <2>5, <2>6 DEF Bystander
  <1>5. ASSUME NEW d \in Caller, pc'[d] = "collect" PROVE clock'[d] <= now
    BY <1>1, <1>3, <1>4, <1>5 DEF ClockInv
  <1> QED BY <1>2, <1>5 DEF ClockInv

-----------------------------------------------------------------------------
(* The collection moves a thread from the map to the caller's list.          *)
LEMMA CollectMovesOwner ==
  ASSUME NEW c \in Caller, IInv, OwnerInv, CollectJob(c)
  PROVE  OwnerInv'
  <1>1. PICK i \in todo[c] :
          IF Expired(jobs[i], clock[c])
            THEN /\ retiring' = [retiring EXCEPT ![c] = @ \union {jobs[i]}]
                 /\ jobs' = [jobs EXCEPT ![i] = NoJob]
            ELSE UNCHANGED <<retiring, jobs>>
    BY DEF CollectJob
  <1>2. /\ pc[c] = "collect"
        /\ i \in JobId
        /\ jobs[i] \in Handle
        /\ wpc' = wpc /\ shuttingDown' = shuttingDown
        /\ ManagerTypes /\ CallerTypes
    BY DEF CollectJob, IInv, TypeOK, TodoInv, LiveIds, ManagerTypes, workerVars
  <1>3. ClockInv' BY CallerKeepsClock DEF OwnerInv
  <1>4. CASE ~Expired(jobs[i], clock[c])
    BY <1>1, <1>2, <1>3, <1>4, OwnersStay
  <1>5. CASE Expired(jobs[i], clock[c])
    <2> DEFINE h == jobs[i]
    <2>1. /\ \A k \in JobId : jobs'[k] = IF k = i THEN NoJob ELSE jobs[k]
          /\ \A d \in Caller : retiring'[d] = IF d = c THEN retiring[d] \union {h} ELSE retiring[d]
      BY <1>1, <1>2, <1>5 DEF ManagerTypes, CallerTypes
    <2>2. h # NoJob BY <1>2, HandleAssumption
    <2>3. \A k \in JobId : jobs[k] = h => k = i BY <1>2, <2>2 DEF OwnerInv, UniqueInv
    <2>4. \A d \in Caller : h \notin retiring[d] BY <1>2 DEF OwnerInv, UniqueInv
    <2> HIDE DEF h
    <2>5. UniqueInv'
      <3>1. \A k, l \in JobId : jobs'[k] # NoJob /\ jobs'[k] = jobs'[l] => k = l
        BY <2>1 DEF OwnerInv, UniqueInv
      <3>2. ASSUME NEW d \in Caller, NEW g \in retiring'[d], NEW k \in JobId
            PROVE  jobs'[k] # g
        <4>1. g \in Handle BY <1>2, <2>1 DEF CallerTypes, h
        <4>2. g \in retiring[d] \/ g = h BY <2>1
        <4> QED BY <2>1, <2>3, <4>1, <4>2, HandleAssumption DEF OwnerInv, UniqueInv
      <3>3. ASSUME NEW d \in Caller, NEW e \in Caller, NEW g,
                   g \in retiring'[d], g \in retiring'[e]
            PROVE  d = e
        <4>1. /\ g \in retiring[d] \/ (g = h /\ d = c)
              /\ g \in retiring[e] \/ (g = h /\ e = c)
          BY <2>1, <3>3
        <4>2. CASE g = h BY <2>4, <4>1, <4>2
        <4>3. CASE g # h BY <4>1, <4>3 DEF OwnerInv, UniqueInv
        <4> QED BY <4>2, <4>3
      <3> QED BY <3>1, <3>2, <3>3 DEF UniqueInv
    <2>6. OwnedInv'
      <3> SUFFICES ASSUME ~shuttingDown, NEW g \in Handle, wpc[g] \notin {"none", "exited"}
                   PROVE  \/ \E k \in JobId : jobs'[k] = g
                          \/ \E d \in Caller : g \in retiring'[d]
        BY <1>2 DEF OwnedInv
      <3>1. CASE g = h BY <2>1, <3>1
      <3>2. CASE g # h
        <4>1. (\E k \in JobId : jobs[k] = g) \/ (\E d \in Caller : g \in retiring[d])
          BY DEF OwnerInv, OwnedInv
        <4> QED BY <1>2, <2>1, <3>2, <4>1 DEF h
      <3> QED BY <3>1, <3>2
    <2> QED BY <1>3, <2>5, <2>6 DEF OwnerInv
  <1> QED BY <1>4, <1>5

(* A new thread gets the one entry that was allocated for it.                *)
LEMMA CreateOwnsThread ==
  ASSUME NEW c \in Caller, IInv, OwnerInv, CreateJob(c)
  PROVE  OwnerInv'
  <1> DEFINE id == arg[c].id
  <1>1. PICK h \in Handle :
          /\ wpc[h] = "none"
          /\ jobs' = [jobs EXCEPT ![id] = h]
          /\ wpc'  = [wpc EXCEPT ![h] = "search"]
    BY DEF CreateJob
  <1>2. /\ id \in JobId
        /\ jobs[id] = NoJob
        /\ ~shuttingDown
        /\ retiring' = retiring /\ shuttingDown' = shuttingDown
        /\ ManagerTypes /\ CallerTypes /\ WorkerTypes
    BY DEF CreateJob, IInv, TypeOK, CallerTypes, FreshInv, QuietInv
  <1> HIDE DEF id
  <1>3. \A k \in JobId : jobs'[k] = IF k = id THEN h ELSE jobs[k]
    BY <1>1, <1>2 DEF ManagerTypes
  <1>4. \A k \in JobId : jobs[k] # h
    BY <1>1, HandleAssumption DEF IInv, ThreadInv
  <1>5. \A d \in Caller : h \notin retiring[d]
    BY <1>1 DEF IInv, RetiredInv
  <1>6. UniqueInv'
    <2>1. \A k, l \in JobId : jobs'[k] # NoJob /\ jobs'[k] = jobs'[l] => k = l
      BY <1>3, <1>4 DEF OwnerInv, UniqueInv
    <2>2. \A d \in Caller : \A g \in retiring'[d] : \A k \in JobId : jobs'[k] # g
      BY <1>2, <1>3, <1>5 DEF OwnerInv, UniqueInv
    <2> QED BY <1>2, <2>1, <2>2 DEF OwnerInv, UniqueInv
  <1>7. OwnedInv'
    <2> SUFFICES ASSUME NEW g \in Handle, wpc'[g] \notin {"none", "exited"}
                 PROVE  \/ \E k \in JobId : jobs'[k] = g
                        \/ \E d \in Caller : g \in retiring'[d]
      BY DEF OwnedInv
    <2>1. CASE g = h BY <1>2, <1>3, <2>1
    <2>2. CASE g # h
      <3>1. wpc[g] \notin {"none", "exited"} BY <1>1, <1>2, <2>2 DEF WorkerTypes
      <3>2. (\E k \in JobId : jobs[k] = g) \/ (\E d \in Caller : g \in retiring[d])
        BY <1>2, <3>1 DEF OwnerInv, OwnedInv
      <3>3. g # NoJob BY HandleAssumption
      <3> QED BY <1>2, <1>3, <3>2, <3>3
    <2> QED BY <2>1, <2>2
  <1>8. ClockInv' BY CallerKeepsClock DEF OwnerInv
  <1> QED BY <1>6, <1>7, <1>8 DEF OwnerInv

(* A caller forgets only threads that are over.                              *)
LEMMA JoinForgetsExited ==
  ASSUME NEW c \in Caller, IInv, OwnerInv, JoinRetired(c)
  PROVE  OwnerInv'
  <1>1. /\ \A h \in retiring[c] : wpc[h] = "exited"
        /\ \A d \in Caller : retiring'[d] = IF d = c THEN {} ELSE retiring[d]
        /\ UNCHANGED <<jobs, shuttingDown, wpc>>
    BY DEF JoinRetired, IInv, TypeOK, CallerTypes, managerVars, workerVars
  <1>2. UniqueInv' BY <1>1 DEF OwnerInv, UniqueInv
  <1>3. OwnedInv' BY <1>1 DEF OwnerInv, OwnedInv
  <1>4. ClockInv' BY CallerKeepsClock DEF OwnerInv
  <1> QED BY <1>2, <1>3, <1>4 DEF OwnerInv

LEMMA BystanderKeepsOwners ==
  ASSUME NEW c \in Caller, IInv, OwnerInv, Bystander(c)
  PROVE  OwnerInv'
  <1>1. UNCHANGED <<jobs, retiring, shuttingDown, wpc, now>> BY BystanderFrame
  <1>2. ClockInv' BY CallerKeepsClock DEF OwnerInv
  <1> QED BY <1>1, <1>2, OwnersStay

LEMMA WorkerKeepsOwners ==
  ASSUME NEW h \in Handle, IInv, OwnerInv, Worker(h)
  PROVE  OwnerInv'
  <1>1. /\ UNCHANGED <<jobs, retiring, shuttingDown, pc, clock, now>>
        /\ wpc[h] \notin {"none", "exited"}
    BY DEF Worker, Poll, End, PollCancel, CheckLease, PublishDepth, AnalysisReturns,
           AnalysisThrows, EndAnalysis, Complete, Fail, ThreadExits, managerVars, callerVars
  <1>2. \A s \in Handle : s # h => wpc'[s] = wpc[s]
    BY DEF Worker, Poll, End, PollCancel, CheckLease, PublishDepth, AnalysisReturns,
           AnalysisThrows, EndAnalysis, Complete, Fail, ThreadExits, IInv, TypeOK, WorkerTypes
  <1>3. ClockInv' BY <1>1 DEF OwnerInv, ClockInv
  <1> QED BY <1>1, <1>2, <1>3, OwnersStay

(* The destructor owns what is left.                                        *)
LEMMA DestroyKeepsOwners ==
  ASSUME IInv, OwnerInv, Destroy
  PROVE  OwnerInv'
  <1>1. /\ shuttingDown'
        /\ \A i \in JobId : jobs'[i] = NoJob
        /\ retiring' = retiring /\ pc' = pc /\ clock' = clock /\ now' = now
    BY DEF Destroy, callerVars
  <1>2. \A c \in Caller : NoJob \notin retiring[c]
    BY HandleAssumption DEF IInv, TypeOK, CallerTypes
  <1>3. UniqueInv' BY <1>1, <1>2 DEF OwnerInv, UniqueInv
  <1>4. OwnedInv' /\ ClockInv' BY <1>1 DEF OwnerInv, OwnedInv, ClockInv
  <1> QED BY <1>3, <1>4 DEF OwnerInv

LEMMA RestKeepsOwners ==
  ASSUME IInv, OwnerInv, Tick \/ UNCHANGED vars
  PROVE  OwnerInv'
  <1>1. UNCHANGED <<jobs, retiring, shuttingDown, wpc, pc, clock>>
    BY DEF Tick, vars, managerVars, workerVars, callerVars
  <1>2. now \in Nat /\ now' \in {now, now + 1} BY DEF Tick, vars, IInv, TypeOK, ManagerTypes
  <1>3. \A c \in Caller : clock[c] \in Nat BY DEF IInv, TypeOK, CallerTypes
  <1>4. ClockInv' BY <1>1, <1>2, <1>3 DEF OwnerInv, ClockInv
  <1> QED BY <1>1, <1>4, OwnersStay

-----------------------------------------------------------------------------
LEMMA InitOwners == Init => OwnerInv
  BY DEF Init, OwnerInv, UniqueInv, OwnedInv, ClockInv

LEMMA NextKeepsOwners == IInv /\ OwnerInv /\ [Next]_vars => OwnerInv'
  <1> SUFFICES ASSUME IInv, OwnerInv, [Next]_vars PROVE OwnerInv' OBVIOUS
  <1>1. ASSUME NEW c \in Caller, CallStart(c) \/ CallPoll(c) \/ CallStop(c) \/ Continue(c)
        PROVE  OwnerInv'
    <2>1. Bystander(c) \/ CollectJob(c) \/ CreateJob(c) \/ JoinRetired(c)
      BY <1>1, Zenon DEF Bystander, Continue, UnderMutex
    <2> QED BY <2>1, BystanderKeepsOwners, CollectMovesOwner, CreateOwnsThread,
               JoinForgetsExited, Zenon
  <1>2. ASSUME NEW h \in Handle, Worker(h) PROVE OwnerInv' BY <1>2, WorkerKeepsOwners
  <1> QED BY <1>1, <1>2, DestroyKeepsOwners, RestKeepsOwners, Zenon DEF Next

THEOREM OwnerInvariance == Spec => []OwnerInv
  BY InitOwners, NextKeepsOwners, Invariance, PTL DEF Spec

(* Of a set with at most one element, and of an empty one.                   *)
LEMMA OneElement ==
  ASSUME NEW S, NEW x \in S, \A y \in S : y = x
  PROVE  Cardinality(S) = 1
  <1>1. S = {x} OBVIOUS
  <1> QED BY <1>1, FS_Singleton

LEMMA NoElement ==
  ASSUME NEW S, \A y \in S : FALSE
  PROVE  Cardinality(S) = 0
  <1>1. S = {} OBVIOUS
  <1> QED BY <1>1, FS_EmptySet

(* Every thread that is not over is owned once: it is joined exactly once,   *)
(* by the caller that collected it or by the destructor.                     *)
THEOREM ThreadsAreOwned == Spec => []ThreadOwnedOnce
  <1>1. IInv /\ OwnerInv => ThreadOwnedOnce
    <2> SUFFICES ASSUME IInv, OwnerInv, NEW h \in Handle,
                        wpc[h] \notin {"none", "exited"}, ~shuttingDown
                 PROVE  Cardinality({i \in JobId : jobs[i] = h})
                          + Cardinality({c \in Caller : h \in retiring[c]}) = 1
      BY DEF ThreadOwnedOnce
    <2> DEFINE Ids == {i \in JobId : jobs[i] = h}
               Heirs == {c \in Caller : h \in retiring[c]}
    <2>1. CASE \E i \in JobId : jobs[i] = h
      <3>1. PICK i \in JobId : jobs[i] = h BY <2>1
      <3>2. i \in Ids /\ \A k \in Ids : k = i
        BY <3>1, HandleAssumption DEF OwnerInv, UniqueInv
      <3>3. \A c \in Heirs : FALSE BY <3>1 DEF OwnerInv, UniqueInv
      <3> HIDE DEF Ids, Heirs
      <3>4. Cardinality(Ids) = 1 BY <3>2, OneElement
      <3>5. Cardinality(Heirs) = 0 BY <3>3, NoElement
      <3> QED BY <3>4, <3>5 DEF Ids, Heirs
    <2>2. CASE ~\E i \in JobId : jobs[i] = h
      <3>1. PICK c \in Caller : h \in retiring[c] BY <2>2 DEF OwnerInv, OwnedInv
      <3>2. c \in Heirs /\ \A d \in Heirs : d = c BY <3>1 DEF OwnerInv, UniqueInv
      <3>3. \A i \in Ids : FALSE BY <2>2
      <3> HIDE DEF Ids, Heirs
      <3>4. Cardinality(Heirs) = 1 BY <3>2, OneElement
      <3>5. Cardinality(Ids) = 0 BY <3>3, NoElement
      <3> QED BY <3>4, <3>5 DEF Ids, Heirs
    <2> QED BY <2>1, <2>2
  <1> QED BY <1>1, Invariance, OwnerInvariance, PTL

(* README: the result of a completed job is kept for completedRetention.     *)
(* The expiry is decided by a clock reading and a flag that may both be old  *)
(* when the entry goes; it still goes only when the job is over for so long. *)
THEOREM RetentionIsHonoured == Spec => RetentionHonoured
  <1> DEFINE Kept ==
        \A i \in JobId :
          jobs[i] # NoJob /\ jobs'[i] # jobs[i] /\ ~shuttingDown' =>
            ~running[jobs[i]] /\ now - completedAt[jobs[i]] >= Retention
  <1>1. IInv /\ OwnerInv /\ [Next]_vars => [Kept]_vars
    <2> SUFFICES ASSUME IInv, OwnerInv, [Next]_vars PROVE Kept OBVIOUS
    <2>1. jobs' = jobs => Kept OBVIOUS
    <2>2. ASSUME NEW c \in Caller, CollectJob(c) PROVE Kept
      <3>1. PICK i \in todo[c] :
              IF Expired(jobs[i], clock[c])
                THEN jobs' = [jobs EXCEPT ![i] = NoJob]
                ELSE jobs' = jobs
        BY <2>2 DEF CollectJob
      <3>2. /\ clock[c] <= now /\ clock[c] \in Nat /\ now \in Nat
            /\ i \in JobId /\ jobs[i] \in Handle
            /\ completedAt[jobs[i]] \in Nat
        BY <2>2 DEF CollectJob, OwnerInv, ClockInv, IInv, TypeOK, ManagerTypes, StateTypes,
                    CallerTypes, TodoInv, LiveIds
      <3>3. CASE Expired(jobs[i], clock[c])
        <4>1. ~running[jobs[i]] /\ now - completedAt[jobs[i]] >= Retention
          BY <3>2, <3>3, RetentionAssumption DEF Expired
        <4>2. \A k \in JobId : k # i => jobs'[k] = jobs[k]
          BY <3>1, <3>3 DEF IInv, TypeOK, ManagerTypes
        <4> QED BY <4>1, <4>2
      <3> QED BY <2>1, <3>1, <3>3
    <2>3. ASSUME NEW c \in Caller, CreateJob(c) PROVE Kept
      <3>1. jobs[arg[c].id] = NoJob BY <2>3 DEF CreateJob, IInv, FreshInv
      <3>2. \A k \in JobId : k # arg[c].id => jobs'[k] = jobs[k]
        BY <2>3 DEF CreateJob, IInv, TypeOK, ManagerTypes
      <3> QED BY <3>1, <3>2
    <2>4. ASSUME NEW c \in Caller, CallStart(c) \/ CallPoll(c) \/ CallStop(c) \/ Continue(c)
          PROVE  Kept
      <3>1. Bystander(c) \/ CollectJob(c) \/ CreateJob(c) \/ JoinRetired(c)
        BY <2>4, Zenon DEF Bystander, Continue, UnderMutex
      <3>2. Bystander(c) \/ JoinRetired(c) => jobs' = jobs
        BY BystanderFrame DEF JoinRetired, managerVars
      <3> QED BY <2>1, <2>2, <2>3, <3>1, <3>2, Zenon
    <2>5. ASSUME NEW h \in Handle, Worker(h) PROVE Kept
      <3>1. jobs' = jobs
        BY <2>5 DEF Worker, Poll, End, PollCancel, CheckLease, PublishDepth, AnalysisReturns,
                    AnalysisThrows, EndAnalysis, Complete, Fail, ThreadExits, managerVars
      <3> QED BY <2>1, <3>1
    <2>6. CASE Destroy BY <2>6 DEF Destroy
    <2>7. CASE Tick \/ UNCHANGED vars
      <3>1. jobs' = jobs BY <2>7 DEF Tick, vars, managerVars
      <3> QED BY <2>1, <3>1
    <2> HIDE DEF Kept
    <2> QED BY <2>4, <2>5, <2>6, <2>7, Zenon DEF Next
  <1> QED BY <1>1, Invariance, OwnerInvariance, PTL DEF Spec, RetentionHonoured
=============================================================================
