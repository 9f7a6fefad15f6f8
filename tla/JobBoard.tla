------------------------------ MODULE JobBoard ------------------------------
(***************************************************************************)
(* What AnalysisJobManager promises its callers (analysis_jobs.h and the   *)
(* section on background analysis of the README), with every operation     *)
(* atomic: a job is started only while fewer than MaxRunning run; its      *)
(* version numbers the snapshots of complete depths, and one last time its *)
(* end; a search that is stopped or fails keeps its last snapshot.  There  *)
(* are no threads, no locks, no clock and no ids.                          *)
(***************************************************************************)
EXTENDS Integers, FiniteSets

CONSTANTS Handle, MaxRunning, MaxDepth

VARIABLES phase, version, result

boardVars == <<phase, version, result>>

Nothing       == [kind |-> "none", depth |-> 0]
Snapshot(d)   == [kind |-> "depth", depth |-> d]
RunningJobs   == {h \in Handle : phase[h] = "running"}

BoardInit ==
  /\ phase   = [h \in Handle |-> "none"]
  /\ version = [h \in Handle |-> 0]
  /\ result  = [h \in Handle |-> Nothing]

StartJob(h) ==
  /\ phase[h] = "none"
  /\ Cardinality(RunningJobs) < MaxRunning
  /\ phase' = [phase EXCEPT ![h] = "running"]
  /\ UNCHANGED <<version, result>>

(* A running job of version n has completed n depths.                       *)
CompleteDepth(h) ==
  /\ phase[h] = "running"
  /\ version[h] < MaxDepth
  /\ version' = [version EXCEPT ![h] = @ + 1]
  /\ result'  = [result EXCEPT ![h] = Snapshot(version[h] + 1)]
  /\ UNCHANGED phase

(* The search returns (final), is stopped before its first depth            *)
(* (cancelled), or leaves its last snapshot.                                *)
EndJob(h) ==
  /\ phase[h] = "running"
  /\ phase'   = [phase EXCEPT ![h] = "ended"]
  /\ version' = [version EXCEPT ![h] = @ + 1]
  /\ \/ result' = result
     \/ result' = [result EXCEPT ![h] = [kind |-> "final", depth |-> version[h]]]
     \/ /\ version[h] = 0
        /\ result' = [result EXCEPT ![h] = [kind |-> "cancelled", depth |-> 0]]

BoardNext == \E h \in Handle : StartJob(h) \/ CompleteDepth(h) \/ EndJob(h)

BoardSpec == BoardInit /\ [][BoardNext]_boardVars
=============================================================================
