------------------------ MODULE HttpLifecycle_proofs ------------------------
(***************************************************************************)
(* Proofs about HttpLifecycle, for any number of callers, connections and  *)
(* calls of start(): the count of active connections is what it counts,    *)
(* and never exceeds the limit; then, for one thread that drives the server, *)
(* that a started server serves and a stopped one leaves nothing.          *)
(***************************************************************************)
EXTENDS HttpLifecycle, FiniteSetTheorems, TLAPS

CallPc == {"idle", "lock", "join", "open", "raise", "spawn", "unopen", "flag", "close", "take",
           "take_join", "quiet_lock", "quiet_test", "quiet_sleep", "asleep"}

LoopPc == {"none", "top", "load", "accept", "check", "count", "acquire", "spawn", "unspawn",
           "exit", "close", "done"}

WorkerPc == {"none", "accepted", "handle", "stopping", "release", "notify"}

ServerTypes ==
  /\ running \in BOOLEAN
  /\ listenFd \in Nat
  /\ open \in SUBSET Nat
  /\ lifecycle \in Actor \union {NoOne}
  /\ workersMutex \in Actor \union {NoOne}
  /\ handle \in Nat
  /\ active \in Int
  /\ starts \in 0 .. MaxStarts
  /\ serving \in BOOLEAN

CallTypes ==
  /\ op \in [Actor -> {"none", "start", "wait", "stop"}]
  /\ pc \in [Actor -> CallPc]
  /\ taken \in [Actor -> Nat]

LoopTypes ==
  /\ loop \in [Loop -> LoopPc]
  /\ fd \in [Loop -> Nat]
  /\ client \in [Loop -> Conn \union {NoOne}]
  /\ seen \in [Loop -> Int]

WorkerTypes == worker \in [Conn -> WorkerPc]

(* Every variable has its type.                                             *)
TypeOK == ServerTypes /\ CallTypes /\ LoopTypes /\ WorkerTypes

(* Accept threads are numbered in the order in which they are created.       *)
LoopsInOrder == \A l, m \in Loop : l <= m /\ loop[m] # "none" => loop[l] # "none"

(* An accept loop between accept() and the creation of the worker has a      *)
(* client of its own, which has no worker yet.                              *)
HasClient(l) == loop[l] \in {"check", "count", "acquire", "spawn", "unspawn"}

ClientInv ==
  /\ \A l \in Loop : HasClient(l) => client[l] \in Conn /\ worker[client[l]] = "accepted"
  /\ \A l, m \in Loop : HasClient(l) /\ HasClient(m) /\ client[l] = client[m] => l = m

(* A worker is in a call exactly while its handler is in stop().             *)
CallInv == \A k \in Conn : pc[k] # "idle" <=> worker[k] = "stopping"

IInv == TypeOK /\ LoopsInOrder /\ ClientInv /\ CallInv /\ SlotsAreConnections

-----------------------------------------------------------------------------
(* What the number of the next accept thread is: none has it, all below do.  *)
LEMMA NextLoopIsNext ==
  ASSUME LoopTypes, LoopsInOrder
  PROVE  /\ NextLoop \in Nat \ {0}
         /\ \A l \in Loop : l < NextLoop <=> loop[l] # "none"
  <1> DEFINE Used == {l \in Loop : loop[l] # "none"}
  <1>1. /\ IsFiniteSet(Used) /\ Cardinality(Used) \in Nat /\ NextLoop = 1 + Cardinality(Used)
    <2>1. IsFiniteSet(Loop) BY FS_Interval, StartsAssumption DEF Loop
    <2>2. IsFiniteSet(Used) BY <2>1, FS_Subset
    <2> QED BY <2>2, FS_CardinalityType DEF NextLoop
  <1>2. \A n \in Nat : IsFiniteSet(1 .. n) /\ Cardinality(1 .. n) = n BY FS_Interval
  <1>3. ASSUME NEW l \in Loop, loop[l] # "none" PROVE l < NextLoop
    <2>1. 1 .. l \subseteq Used BY <1>3, StartsAssumption DEF LoopsInOrder, Loop
    <2>2. l \in Nat BY StartsAssumption DEF Loop
    <2>3. Cardinality(1 .. l) <= Cardinality(Used) BY <1>1, <2>1, FS_Subset
    <2> QED BY <1>1, <1>2, <2>2, <2>3
  <1>4. ASSUME NEW l \in Loop, loop[l] = "none" PROVE ~(l < NextLoop)
    <2>1. Used \subseteq 1 .. (l - 1) BY <1>4, StartsAssumption DEF LoopsInOrder, Loop
    <2>2. l - 1 \in Nat BY StartsAssumption DEF Loop
    <2>3. IsFiniteSet(1 .. (l - 1)) /\ Cardinality(1 .. (l - 1)) = l - 1 BY <1>2, <2>2
    <2>4. Cardinality(Used) <= l - 1 BY <2>1, <2>3, FS_Subset
    <2> QED BY <1>1, <2>2, <2>4, StartsAssumption DEF Loop
  <1> QED BY <1>1, <1>3, <1>4

(* The sets active_connections_ counts.                                     *)
Held     == {k \in Conn : worker[k] \in {"handle", "stopping", "release"}}
Creating == {l \in Loop : loop[l] = "spawn"}

LEMMA SlotsAreFinite ==
  /\ IsFiniteSet(Held) /\ Cardinality(Held) \in Nat
  /\ IsFiniteSet(Creating) /\ Cardinality(Creating) \in Nat
  <1>1. IsFiniteSet(Conn) BY ThreadsAssumption
  <1>2. IsFiniteSet(Loop) BY FS_Interval, StartsAssumption DEF Loop
  <1>3. IsFiniteSet(Held) BY <1>1, FS_Subset DEF Held
  <1>4. IsFiniteSet(Creating) BY <1>2, FS_Subset DEF Creating
  <1> QED BY <1>3, <1>4, FS_CardinalityType

(* Nothing that holds a slot, no slot: the count is the sum.                 *)
LEMMA SlotsAreSum == Slots = Cardinality(Held) + Cardinality(Creating)
  BY DEF Slots, Held, Creating

-----------------------------------------------------------------------------
(* Each step keeps the types.                                               *)
LEMMA InitTypes == Init => TypeOK
  <1> SUFFICES ASSUME Init PROVE TypeOK OBVIOUS
  <1>1. ServerTypes
    <2>1. starts \in 0 .. MaxStarts BY StartsAssumption DEF Init
    <2>2. listenFd \in Nat /\ handle \in Nat /\ active \in Int BY DEF Init, None
    <2>3. /\ running \in BOOLEAN /\ serving \in BOOLEAN /\ open \in SUBSET Nat
          /\ lifecycle \in Actor \union {NoOne} /\ workersMutex \in Actor \union {NoOne}
      BY Zenon DEF Init
    <2> QED BY <2>1, <2>2, <2>3 DEF ServerTypes
  <1>2. CallTypes BY DEF Init, CallTypes, CallPc, None
  <1>3. LoopTypes BY DEF Init, LoopTypes, LoopPc, None
  <1>4. WorkerTypes BY DEF Init, WorkerTypes, WorkerPc
  <1> QED BY <1>1, <1>2, <1>3, <1>4 DEF TypeOK

LEMMA ReturnTypes ==
  ASSUME CallTypes, WorkerTypes, NEW a \in Actor, Return(a)
  PROVE  CallTypes' /\ WorkerTypes'
  BY DEF Return, Goto, CallTypes, WorkerTypes, CallPc, WorkerPc, None

LEMMA CallKeepsTypes ==
  ASSUME TypeOK, LoopsInOrder, NEW a \in Actor,
         \/ a \in Controller /\ (CallStart(a) \/ CallWait(a) \/ InStart(a))
         \/ CallStop(a) \/ InCall(a) \/ WakesSpuriously(a)
  PROVE  TypeOK'
  <1> USE DEF TypeOK, ServerTypes, CallTypes, LoopTypes, WorkerTypes, CallPc, None,
              lockVars, loopVars, Goto
  <1>1. CASE CallStart(a) BY <1>1, StartsAssumption DEF CallStart
  <1>2. CASE CallWait(a) BY <1>2 DEF CallWait
  <1>3. CASE CallStop(a) BY <1>3 DEF CallStop, WorkerPc
  <1>4. CASE StartLocks(a) BY <1>4 DEF StartLocks
  <1>16. CASE StartJoins(a) BY <1>16 DEF StartJoins
  <1>17. CASE StartRaises(a) \/ SpawnFails(a) BY <1>17 DEF StartRaises, SpawnFails
  <1>5. CASE StartRefused(a) \/ StartFails(a) BY <1>5, ReturnTypes DEF StartRefused, StartFails
  <1>6. NextLoop \in Nat BY NextLoopIsNext
  <1>7. CASE StartOpens(a) BY <1>6, <1>7 DEF StartOpens
  <1>8. CASE StartSpawns(a)
    <2>1. CallTypes' /\ WorkerTypes' BY <1>8, ReturnTypes DEF StartSpawns
    <2>2. loop' \in [Loop -> LoopPc] BY <1>8 DEF StartSpawns, LoopGoto, LoopPc
    <2> QED BY <1>6, <1>8, <2>1, <2>2 DEF StartSpawns
  <1>9. CASE StartUnopens(a) BY <1>9, ReturnTypes DEF StartUnopens
  <1>10. CASE StopFlags(a) BY <1>10 DEF StopFlags
  <1>14. CASE StopCloses(a) BY <1>14 DEF StopCloses
  <1>15. CASE TakeThread(a) BY <1>15 DEF TakeThread
  <1>11. CASE JoinTaken(a) BY <1>11, ReturnTypes DEF JoinTaken
  <1>12. CASE QuietLocks(a) \/ QuietFails(a) \/ Sleeps(a) \/ WakesSpuriously(a)
    BY <1>12 DEF QuietLocks, QuietFails, Sleeps, WakesSpuriously
  <1>13. CASE QuietHolds(a) BY <1>13, ReturnTypes DEF QuietHolds
  <1> QED BY <1>1, <1>2, <1>3, <1>4, <1>5, <1>7, <1>8, <1>9, <1>10, <1>11, <1>12, <1>13, <1>14, <1>15, <1>16, <1>17
          DEF InStart, InCall

LEMMA NotifyTypes == CallTypes /\ NotifyAll /\ UNCHANGED <<op, taken>> => CallTypes'
  BY DEF NotifyAll, CallTypes, CallPc

LEMMA LoopKeepsTypes ==
  ASSUME TypeOK, ClientInv, NEW l \in Loop,
         Accepting(l) \/ \E k \in Conn : LoopAccepts(l, k)
  PROVE  TypeOK'
  <1> USE DEF TypeOK, ServerTypes, CallTypes, LoopTypes, WorkerTypes, LoopPc, None,
              lockVars, controllerVars, LoopGoto
  <1>1. CASE LoopTop(l) \/ LoopLoads(l) BY <1>1 DEF LoopTop, LoopLoads
  <1>2. CASE \E k \in Conn : LoopAccepts(l, k) BY <1>2 DEF LoopAccepts, WorkerPc
  <1>3. CASE AcceptFails(l) BY <1>3 DEF AcceptFails
  <1>4. CASE LoopChecks(l) \/ LoopRefuses(l)
    BY <1>4 DEF LoopChecks, LoopRefuses, Hangup, WorkerPc
  <1>5. CASE LoopCounts(l) \/ LoopRetries(l) BY <1>5 DEF LoopCounts, LoopRetries
  <1>10. CASE LoopAcquires(l) BY <1>10 DEF LoopAcquires
  <1>11. CASE LoopGivesBack(l) BY <1>11 DEF LoopGivesBack, GivenBack
  <1>6. CASE LoopSpawns(l) BY <1>6 DEF LoopSpawns, WorkerPc
  <1>7. CASE LoopNotifies(l)
    <2>1. CallTypes' BY <1>7, NotifyTypes DEF LoopNotifies
    <2> QED BY <1>7, <2>1 DEF LoopNotifies, Hangup, WorkerPc
  <1>8. CASE LoopFalls(l) BY <1>8 DEF LoopFalls
  <1>9. CASE LoopCloses(l) BY <1>9 DEF LoopCloses
  <1> QED BY <1>1, <1>2, <1>3, <1>4, <1>5, <1>6, <1>7, <1>8, <1>9, <1>10, <1>11 DEF Accepting

LEMMA WorkerKeepsTypes ==
  ASSUME TypeOK, NEW k \in Conn, Serving(k)
  PROVE  TypeOK'
  <1> USE DEF TypeOK, ServerTypes, LoopTypes, WorkerTypes, WorkerPc,
              lockVars, controllerVars, loopVars
  <1>1. CASE HandlerEnds(k) BY <1>1 DEF HandlerEnds, CallTypes
  <1>3. CASE Releases(k) BY <1>3 DEF Releases, CallTypes
  <1>2. CASE Notifies(k)
    <2>1. CallTypes' BY <1>2, NotifyTypes DEF Notifies
    <2> QED BY <1>2, <2>1 DEF Notifies
  <1> QED BY <1>1, <1>2, <1>3 DEF Serving

-----------------------------------------------------------------------------
(* A step of a call, seen from the workers: a worker goes into stop(), moves *)
(* on in it, or returns from it; a caller that is no worker changes none.    *)
CallStep(a) ==
  \/ a \in Controller /\ (CallStart(a) \/ CallWait(a) \/ InStart(a))
  \/ CallStop(a) \/ InCall(a) \/ WakesSpuriously(a)

LEMMA CallMovesWorker ==
  ASSUME NEW a \in Actor, CallStep(a)
  PROVE  \/ pc[a] # "idle" /\ worker' = worker /\ \E p \in CallPc \ {"idle"} : Goto(a, p)
         \/ pc[a] # "idle" /\ Return(a)
         \/ CallStop(a)
         \/ a \in Controller /\ worker' = worker /\ \E p \in CallPc : Goto(a, p)
  <1> USE DEF CallPc
  <1>1. CASE a \in Controller /\ (CallStart(a) \/ CallWait(a)) BY <1>1 DEF CallStart, CallWait
  <1>2. CASE a \in Controller /\ InStart(a)
    BY <1>2 DEF InStart, StartLocks, StartRefused, StartJoins, StartFails, StartOpens,
                StartRaises, StartSpawns, SpawnFails, StartUnopens
  <1>3. CASE CallStop(a) BY <1>3
  <1>4. CASE InCall(a) \/ WakesSpuriously(a)
    BY <1>4 DEF InCall, StopFlags, StopCloses, TakeThread, JoinTaken, QuietLocks, QuietHolds,
                QuietFails, Sleeps, WakesSpuriously
  <1> QED BY <1>1, <1>2, <1>3, <1>4 DEF CallStep

(* Seen from the accept loops: one that did not exist is at its top.         *)
LEMMA CallMovesLoop ==
  ASSUME NEW a \in Actor, CallStep(a)
  PROVE  /\ client' = client /\ active' = active
         /\ loop' = loop \/ LoopGoto(NextLoop, "top")
  <1> USE DEF loopVars
  <1>1. CASE a \in Controller /\ (CallStart(a) \/ CallWait(a)) BY <1>1 DEF CallStart, CallWait
  <1>2. CASE a \in Controller /\ InStart(a)
    BY <1>2 DEF InStart, StartLocks, StartRefused, StartJoins, StartFails, StartOpens,
                StartRaises, StartSpawns, SpawnFails, StartUnopens
  <1>3. CASE CallStop(a) BY <1>3 DEF CallStop
  <1>4. CASE InCall(a) \/ WakesSpuriously(a)
    BY <1>4 DEF InCall, StopFlags, StopCloses, TakeThread, JoinTaken, QuietLocks, QuietHolds,
                QuietFails, Sleeps, WakesSpuriously
  <1> QED BY <1>1, <1>2, <1>3, <1>4 DEF CallStep

LEMMA CallKeepsInv ==
  ASSUME IInv, NEW a \in Actor, CallStep(a)
  PROVE  IInv'
  <1> USE DEF IInv
  <1> TypeOK BY DEF IInv
  <1>1. TypeOK' BY CallKeepsTypes DEF CallStep
  <1>2. /\ \A k \in Conn : k # a => pc'[k] = pc[k] /\ worker'[k] = worker[k]
        /\ a \in Conn => /\ worker[a] \in {"handle", "stopping"}
                         /\ worker'[a] \in {"handle", "stopping"}
                         /\ pc'[a] # "idle" <=> worker'[a] = "stopping"
    <2> USE DEF TypeOK, CallTypes, WorkerTypes, CallInv, Actor
    <2>1. CASE pc[a] # "idle" /\ worker' = worker /\ \E p \in CallPc \ {"idle"} : Goto(a, p)
      BY <2>1 DEF Goto
    <2>2. CASE pc[a] # "idle" /\ Return(a) BY <2>2 DEF Return, Goto
    <2>3. CASE CallStop(a) BY <2>3 DEF CallStop, Goto
    <2>4. CASE a \in Controller /\ worker' = worker /\ \E p \in CallPc : Goto(a, p)
      BY <2>4, ThreadsAssumption DEF Goto
    <2> QED BY <2>1, <2>2, <2>3, <2>4, CallMovesWorker
  <1>3. CallInv' BY <1>2 DEF CallInv
  <1>4. /\ \A l \in Loop : loop'[l] # loop[l] => loop[l] = "none" /\ loop'[l] = "top"
        /\ LoopsInOrder'
    <2>1. CASE loop' = loop BY <2>1 DEF LoopsInOrder
    <2>2. CASE LoopGoto(NextLoop, "top")
      <3>1. \A l \in Loop : loop'[l] = IF l = NextLoop THEN "top" ELSE loop[l]
        BY <2>2 DEF LoopGoto, TypeOK, LoopTypes
      <3>2. /\ NextLoop \in Nat
            /\ \A l \in Loop : l < NextLoop <=> loop[l] # "none"
        BY NextLoopIsNext DEF TypeOK
      <3> QED BY <3>1, <3>2, StartsAssumption DEF LoopsInOrder, Loop
    <2> QED BY <2>1, <2>2, CallMovesLoop
  <1>5. ClientInv' BY <1>2, <1>4, CallMovesLoop DEF ClientInv, HasClient
  <1>6. Held' = Held BY <1>2 DEF Held
  <1>7. Creating' = Creating BY <1>4 DEF Creating
  <1>8. Slots' = Slots BY <1>6, <1>7, SlotsAreSum DEF Slots, Held, Creating
  <1>9. SlotsAreConnections' BY <1>8, CallMovesLoop DEF SlotsAreConnections
  <1> QED BY <1>1, <1>3, <1>4, <1>5, <1>9

-----------------------------------------------------------------------------
(* A step of an accept loop that leaves slots and clients alone.             *)
LoopWalks(l) ==
  \/ LoopTop(l) \/ LoopLoads(l) \/ AcceptFails(l) \/ (LoopChecks(l) /\ running)
  \/ LoopCounts(l) \/ LoopRetries(l) \/ LoopFalls(l) \/ LoopCloses(l)

LoopHangsUp(l) == (LoopChecks(l) /\ ~running) \/ LoopRefuses(l) \/ LoopNotifies(l)

LEMMA LoopSteps ==
  ASSUME NEW l \in Loop, Accepting(l)
  PROVE  LoopWalks(l) \/ LoopHangsUp(l) \/ LoopAcquires(l) \/ LoopSpawns(l) \/ LoopGivesBack(l)
  BY Zenon DEF Accepting, LoopWalks, LoopHangsUp

LEMMA LoopMoves ==
  ASSUME LoopTypes, NEW l \in Loop, Accepting(l) \/ \E k \in Conn : LoopAccepts(l, k)
  PROVE  /\ \A m \in Loop : m # l => loop'[m] = loop[m]
         /\ loop[l] # "none" /\ loop'[l] # "none"
  <1> USE DEF LoopTypes, LoopGoto, loopVars
  <1>1. CASE LoopWalks(l)
    BY <1>1 DEF LoopWalks, LoopTop, LoopLoads, AcceptFails, LoopChecks, LoopCounts, LoopRetries,
                LoopFalls, LoopCloses
  <1>2. CASE LoopHangsUp(l) BY <1>2 DEF LoopHangsUp, LoopChecks, LoopRefuses, LoopNotifies
  <1>3. CASE LoopAcquires(l) \/ LoopSpawns(l) \/ LoopGivesBack(l)
    BY <1>3 DEF LoopAcquires, LoopSpawns, LoopGivesBack
  <1>4. CASE \E k \in Conn : LoopAccepts(l, k) BY <1>4 DEF LoopAccepts
  <1> QED BY <1>1, <1>2, <1>3, <1>4, LoopSteps

(* Being notified takes no call to its end and begins none.                  *)
LEMMA NotifyKeepsCalls ==
  ASSUME CallTypes, NotifyAll
  PROVE  \A k \in Conn : pc'[k] # "idle" <=> pc[k] # "idle"
  BY DEF CallTypes, NotifyAll, Actor

LEMMA WalkKeepsInv ==
  ASSUME IInv, NEW l \in Loop, LoopWalks(l)
  PROVE  ClientInv' /\ CallInv' /\ SlotsAreConnections'
  <1> USE DEF IInv
  <1>1. /\ worker' = worker /\ client' = client /\ pc' = pc /\ active' = active
        /\ \A m \in Loop : HasClient(m)' => HasClient(m)
        /\ \A m \in Loop : loop'[m] = "spawn" <=> loop[m] = "spawn"
    BY DEF LoopWalks, LoopTop, LoopLoads, AcceptFails, LoopChecks, LoopCounts, LoopRetries,
                LoopFalls, LoopCloses, TypeOK, LoopTypes, LoopGoto, HasClient, controllerVars
  <1>2. ClientInv' BY <1>1 DEF ClientInv
  <1>3. CallInv' BY <1>1 DEF CallInv
  <1>4. SlotsAreConnections' BY <1>1 DEF SlotsAreConnections, Slots
  <1> QED BY <1>2, <1>3, <1>4

LEMMA HangupKeepsInv ==
  ASSUME IInv, NEW l \in Loop, LoopHangsUp(l)
  PROVE  ClientInv' /\ CallInv' /\ SlotsAreConnections'
  <1> USE DEF IInv, TypeOK
  <1>1. /\ HasClient(l) /\ loop[l] # "spawn" /\ active' = active /\ Hangup(l)
        /\ ~HasClient(l)' /\ \A m \in Loop : m # l => loop'[m] = loop[m]
    BY DEF LoopHangsUp, LoopChecks, LoopRefuses, LoopNotifies, LoopTypes, LoopGoto, HasClient
  <1>2. \A k \in Conn : pc'[k] # "idle" <=> pc[k] # "idle"
    <2>1. pc' = pc \/ NotifyAll
      BY DEF LoopHangsUp, LoopChecks, LoopRefuses, LoopNotifies, controllerVars
    <2> QED BY <2>1, NotifyKeepsCalls
  <1>3. /\ client[l] \in Conn /\ worker[client[l]] = "accepted"
        /\ \A m \in Loop : m # l => client'[m] = client[m]
        /\ \A k \in Conn : worker'[k] = IF k = client[l] THEN "none" ELSE worker[k]
    BY <1>1 DEF ClientInv, Hangup, LoopTypes, WorkerTypes
  <1>4. ClientInv' BY <1>1, <1>3 DEF ClientInv, HasClient
  <1>5. CallInv' BY <1>2, <1>3 DEF CallInv
  <1>6. Held' = Held BY <1>3 DEF Held
  <1>7. Creating' = Creating BY <1>1, <1>3 DEF Creating, HasClient
  <1>8. SlotsAreConnections'
    BY <1>1, <1>6, <1>7 DEF SlotsAreConnections, Slots, Held, Creating
  <1> QED BY <1>4, <1>5, <1>8

(* accept(): the connection has no worker, so no loop has it as its client.  *)
LEMMA AcceptKeepsInv ==
  ASSUME IInv, NEW l \in Loop, NEW k \in Conn, LoopAccepts(l, k)
  PROVE  ClientInv' /\ CallInv' /\ SlotsAreConnections'
  <1> USE DEF IInv, TypeOK
  <1>1. /\ loop[l] = "accept" /\ worker[k] = "none" /\ active' = active /\ pc' = pc
        /\ \A m \in Loop : loop'[m] = IF m = l THEN "check" ELSE loop[m]
        /\ \A m \in Loop : client'[m] = IF m = l THEN k ELSE client[m]
        /\ \A j \in Conn : worker'[j] = IF j = k THEN "accepted" ELSE worker[j]
    BY DEF LoopAccepts, LoopTypes, WorkerTypes, LoopGoto, controllerVars
  <1>2. ClientInv' BY <1>1 DEF ClientInv, HasClient
  <1>3. CallInv' BY <1>1 DEF CallInv
  <1>4. Held' = Held BY <1>1 DEF Held
  <1>5. Creating' = Creating BY <1>1 DEF Creating
  <1>6. SlotsAreConnections'
    BY <1>1, <1>4, <1>5 DEF SlotsAreConnections, Slots, Held, Creating
  <1> QED BY <1>2, <1>3, <1>6

(* The compare-exchange: the count is still what was seen, below the limit.  *)
LEMMA AcquireKeepsInv ==
  ASSUME IInv, NEW l \in Loop, LoopAcquires(l)
  PROVE  ClientInv' /\ CallInv' /\ SlotsAreConnections'
  <1> USE DEF IInv, TypeOK
  <1>1. /\ loop[l] = "acquire" /\ active' = active + 1 /\ active' <= MaxConnections
        /\ worker' = worker /\ client' = client /\ pc' = pc
        /\ \A m \in Loop : loop'[m] = IF m = l THEN "spawn" ELSE loop[m]
    BY ConnectionsAssumption DEF LoopAcquires, Room, Unchanged, ServerTypes, LoopTypes, LoopGoto, controllerVars
  <1>2. ClientInv' BY <1>1 DEF ClientInv, HasClient
  <1>3. CallInv' BY <1>1 DEF CallInv
  <1>4. Held' = Held BY <1>1 DEF Held
  <1>5. Creating' = Creating \union {l} /\ l \notin Creating BY <1>1 DEF Creating
  <1>6. Cardinality(Creating') = Cardinality(Creating) + 1 BY <1>5, SlotsAreFinite, FS_AddElement
  <1>7. Slots' = Cardinality(Held') + Cardinality(Creating') BY DEF Slots, Held, Creating
  <1>8. Slots' = Slots + 1 BY <1>4, <1>6, <1>7, SlotsAreSum, SlotsAreFinite
  <1>9. SlotsAreConnections' BY <1>1, <1>8 DEF SlotsAreConnections
  <1> QED BY <1>2, <1>3, <1>9

(* The worker is created: it has the slot the accept loop had.               *)
LEMMA SpawnKeepsInv ==
  ASSUME IInv, NEW l \in Loop, LoopSpawns(l)
  PROVE  ClientInv' /\ CallInv' /\ SlotsAreConnections'
  <1> USE DEF IInv, TypeOK
  <1>1. /\ loop[l] = "spawn" /\ active' = active /\ pc' = pc
        /\ client[l] \in Conn /\ worker[client[l]] = "accepted"
        /\ \A m \in Loop : loop'[m] = IF m = l THEN "top" ELSE loop[m]
        /\ \A m \in Loop : m # l => client'[m] = client[m]
        /\ \A k \in Conn : worker'[k] = IF k = client[l] THEN "handle" ELSE worker[k]
    BY DEF LoopSpawns, LoopTypes, WorkerTypes, LoopGoto, controllerVars, ClientInv, HasClient
  <1>2. ClientInv' BY <1>1 DEF ClientInv, HasClient
  <1>3. CallInv' BY <1>1 DEF CallInv
  <1>4. Held' = Held \union {client[l]} /\ client[l] \notin Held BY <1>1 DEF Held
  <1>5. Creating' = Creating \ {l} /\ l \in Creating BY <1>1 DEF Creating
  <1>6. Cardinality(Held') = Cardinality(Held) + 1 BY <1>4, SlotsAreFinite, FS_AddElement
  <1>7. Cardinality(Creating') = Cardinality(Creating) - 1
    BY <1>5, SlotsAreFinite, FS_RemoveElement
  <1>8. Slots' = Cardinality(Held') + Cardinality(Creating') BY DEF Slots, Held, Creating
  <1>9. Slots' = Slots BY <1>6, <1>7, <1>8, SlotsAreSum, SlotsAreFinite
  <1>10. SlotsAreConnections' BY <1>1, <1>9 DEF SlotsAreConnections
  <1> QED BY <1>2, <1>3, <1>10

(* The worker cannot be created.                                            *)
LEMMA GiveBackKeepsInv ==
  ASSUME IInv, NEW l \in Loop, LoopGivesBack(l)
  PROVE  ClientInv' /\ CallInv' /\ SlotsAreConnections'
  <1> USE DEF IInv, TypeOK
  <1>1. /\ loop[l] = "spawn" /\ active' = active - 1
        /\ worker' = worker /\ client' = client /\ pc' = pc
        /\ \A m \in Loop : loop'[m] = IF m = l THEN "unspawn" ELSE loop[m]
    BY DEF LoopGivesBack, GivenBack, LoopTypes, LoopGoto, controllerVars
  <1>2. ClientInv' BY <1>1 DEF ClientInv, HasClient
  <1>3. CallInv' BY <1>1 DEF CallInv
  <1>4. Held' = Held BY <1>1 DEF Held
  <1>5. Creating' = Creating \ {l} /\ l \in Creating BY <1>1 DEF Creating
  <1>6. Cardinality(Creating') = Cardinality(Creating) - 1
    BY <1>5, SlotsAreFinite, FS_RemoveElement
  <1>7. Slots' = Cardinality(Held') + Cardinality(Creating') BY DEF Slots, Held, Creating
  <1>8. Slots' = Slots - 1 BY <1>4, <1>6, <1>7, SlotsAreSum, SlotsAreFinite
  <1>9. SlotsAreConnections'
    BY <1>1, <1>8, ConnectionsAssumption DEF SlotsAreConnections, ServerTypes
  <1> QED BY <1>2, <1>3, <1>9

LEMMA LoopKeepsInv ==
  ASSUME IInv, NEW l \in Loop, Accepting(l) \/ \E k \in Conn : LoopAccepts(l, k)
  PROVE  IInv'
  <1>1. TypeOK' BY LoopKeepsTypes DEF IInv
  <1>2. LoopsInOrder' BY LoopMoves DEF IInv, TypeOK, LoopsInOrder
  <1>3. CASE LoopWalks(l) BY <1>1, <1>2, <1>3, WalkKeepsInv DEF IInv
  <1>4. CASE LoopHangsUp(l) BY <1>1, <1>2, <1>4, HangupKeepsInv DEF IInv
  <1>5. CASE \E k \in Conn : LoopAccepts(l, k) BY <1>1, <1>2, <1>5, AcceptKeepsInv DEF IInv
  <1>6. CASE LoopAcquires(l) BY <1>1, <1>2, <1>6, AcquireKeepsInv DEF IInv
  <1>7. CASE LoopSpawns(l) BY <1>1, <1>2, <1>7, SpawnKeepsInv DEF IInv
  <1>8. CASE LoopGivesBack(l) BY <1>1, <1>2, <1>8, GiveBackKeepsInv DEF IInv
  <1> QED BY <1>3, <1>4, <1>5, <1>6, <1>7, <1>8, LoopSteps

-----------------------------------------------------------------------------
(* A worker holds its slot until connection_finished.                        *)
LEMMA WorkerKeepsInv ==
  ASSUME IInv, NEW k \in Conn, Serving(k)
  PROVE  IInv'
  <1> USE DEF IInv, TypeOK
  <1>1. TypeOK' BY WorkerKeepsTypes
  <1>2. /\ loop' = loop /\ client' = client
        /\ worker[k] \in {"handle", "release", "notify"} /\ pc[k] = "idle"
        /\ \A j \in Conn : j # k => worker'[j] = worker[j]
        /\ worker'[k] \in {"release", "notify", "none"}
        /\ \A j \in Conn : pc'[j] # "idle" <=> pc[j] # "idle"
    <2> USE DEF WorkerTypes, loopVars, controllerVars, CallInv
    <2>1. CASE HandlerEnds(k) \/ Releases(k) BY <2>1 DEF HandlerEnds, Releases
    <2>2. CASE Notifies(k) BY <2>2, NotifyKeepsCalls DEF Notifies
    <2> QED BY <2>1, <2>2 DEF Serving
  <1>3. LoopsInOrder' BY <1>2 DEF LoopsInOrder
  <1>4. ClientInv' BY <1>2 DEF ClientInv, HasClient
  <1>5. CallInv' BY <1>2 DEF CallInv
  <1>6. Creating' = Creating BY <1>2 DEF Creating
  <1>7. Slots' = Cardinality(Held') + Cardinality(Creating') BY DEF Slots, Held, Creating
  <1>8. SlotsAreConnections'
    <2>1. CASE HandlerEnds(k) \/ Notifies(k)
      <3>1. Held' = Held /\ active' = active
        BY <2>1 DEF HandlerEnds, Notifies, Held, WorkerTypes
      <3> QED BY <1>6, <1>7, <3>1, SlotsAreSum DEF SlotsAreConnections
    <2>2. CASE Releases(k)
      <3>1. Held' = Held \ {k} /\ k \in Held /\ active' = active - 1
        BY <2>2 DEF Releases, Held, WorkerTypes
      <3>2. Cardinality(Held') = Cardinality(Held) - 1 BY <3>1, SlotsAreFinite, FS_RemoveElement
      <3>3. Slots' = Slots - 1 BY <1>6, <1>7, <3>2, SlotsAreSum, SlotsAreFinite
      <3> QED BY <3>1, <3>3, ConnectionsAssumption DEF SlotsAreConnections, ServerTypes
    <2> QED BY <2>1, <2>2 DEF Serving
  <1> QED BY <1>1, <1>3, <1>4, <1>5, <1>8

-----------------------------------------------------------------------------
LEMMA InitInv == Init => IInv
  <1> SUFFICES ASSUME Init PROVE IInv OBVIOUS
  <1>1. TypeOK BY InitTypes
  <1>2. LoopsInOrder /\ ClientInv /\ CallInv
    BY ThreadsAssumption DEF Init, LoopsInOrder, ClientInv, CallInv, HasClient, Actor
  <1>3. Held = {} /\ Creating = {} BY DEF Init, Held, Creating
  <1>4. Slots = 0 BY <1>3, FS_EmptySet, SlotsAreSum
  <1> QED BY <1>1, <1>2, <1>4, ConnectionsAssumption DEF Init, IInv, SlotsAreConnections

LEMMA NextInv == IInv /\ [Next]_vars => IInv'
  <1> SUFFICES ASSUME IInv, [Next]_vars PROVE IInv' OBVIOUS
  <1>1. CASE \E c \in Controller : CallStart(c) \/ CallWait(c) \/ InStart(c)
    BY <1>1, CallKeepsInv DEF Actor, CallStep
  <1>2. CASE \E a \in Actor : CallStop(a) \/ InCall(a) \/ WakesSpuriously(a)
    BY <1>2, CallKeepsInv DEF CallStep
  <1>3. CASE \E l \in Loop : Accepting(l) \/ \E k \in Conn : LoopAccepts(l, k)
    BY <1>3, LoopKeepsInv
  <1>4. CASE \E k \in Conn : Serving(k) BY <1>4, WorkerKeepsInv
  <1>5. CASE UNCHANGED vars
    <2> USE <1>5 DEF vars, lockVars, controllerVars, loopVars, IInv
    <2>1. TypeOK' BY DEF TypeOK, ServerTypes, CallTypes, LoopTypes, WorkerTypes
    <2>2. LoopsInOrder' /\ ClientInv' /\ CallInv' /\ SlotsAreConnections'
      BY DEF LoopsInOrder, ClientInv, HasClient, CallInv, SlotsAreConnections, Slots
    <2> QED BY <2>1, <2>2
  <1> QED BY <1>1, <1>2, <1>3, <1>4, <1>5 DEF Next

THEOREM Invariance == Spec => []IInv
  BY InitInv, NextInv, PTL DEF Spec

(* Every variable has its type, in every reachable state.                    *)
THEOREM TypeCorrect == Spec => []TypeOK
  <1>1. IInv => TypeOK BY DEF IInv
  <1> QED BY <1>1, Invariance, PTL

(* active_connections_ is the number of the slots in use and never more than *)
(* the limit, for any number of callers, connections and restarts.           *)
THEOREM SlotsAreCounted == Spec => []SlotsAreConnections
  <1>1. IInv => SlotsAreConnections BY DEF IInv
  <1> QED BY <1>1, Invariance, PTL

-----------------------------------------------------------------------------
(***************************************************************************)
(* Proofs about HttpLifecycle when one thread drives the server, as main   *)
(* does, while any request handler may call stop(): a server that was      *)
(* started and not stopped serves, and nothing is left of it when stop()   *)
(* or wait() is back.                                                      *)
(***************************************************************************)

Live(l) == loop[l] \notin {"none", "done"}

QuietPc   == {"quiet_lock", "quiet_test", "quiet_sleep", "asleep"}
ListensPc == {"raise", "spawn", "unopen"}
OpeningPc == {"open"} \union ListensPc

(* Where in which call an actor can be.                                     *)
CallsInv ==
  /\ \A k \in Conn : /\ pc[k] \in {"idle", "flag", "close", "take", "take_join"}
                     /\ op[k] \in {"none", "stop"}
  /\ \A a \in Actor : op[a] = "stop" => pc[a] # "idle"
  /\ \A a \in Actor : pc[a] \in {"lock", "join"} \union OpeningPc => op[a] = "start"
  /\ \A a \in Actor : pc[a] \in {"flag", "close"} => op[a] = "stop"
  /\ \A a \in Actor : pc[a] \in {"take", "take_join"} => op[a] \in {"wait", "stop"}

(* An accept loop that is not over can be joined: accept_thread_ names it,   *)
(* or a call that has moved it out is about to join it.                     *)
OwnedInv ==
  \A l \in Loop : Live(l) => handle = l \/ \E a \in Actor : pc[a] = "take_join" /\ taken[a] = l

(* Each start() creates at most one accept loop.                            *)
CountInv(c) == NextLoop <= (IF op[c] = "start" THEN starts ELSE starts + 1)

(* A caller that waits for the workers has taken the thread before.          *)
TakenInv(c) == pc[c] \in {"take_join"} \union QuietPc => handle = None

(* Past its wait start() is alone: no loop, no worker with a slot.           *)
OpeningInv(c) ==
  /\ pc[c] \in OpeningPc => active = 0 /\ \A l \in Loop : ~Live(l)
  /\ pc[c] \in ListensPc => listenFd = NextLoop
  /\ pc[c] \in {"raise", "spawn"} => listenFd \in open
  /\ pc[c] = "spawn" => running

(* The listener that is open is the one in listen_fd_, and somebody will     *)
(* close it.                                                                *)
ListenInv(c) ==
  /\ open \subseteq {listenFd} /\ None \notin open
  /\ open # {} => pc[c] \in ListensPc \/ \E l \in Loop : Live(l)

(* While the server serves, no thread is on its way to take it down.         *)
ServingInv(c) ==
  serving =>
    /\ running /\ listenFd \in open
    /\ \A a \in Actor : op[a] # "stop"
    /\ \A l \in Loop : loop[l] \notin {"exit", "close"} /\ (loop[l] = "accept" => fd[l] = listenFd)
    /\ pc[c] \notin OpeningPc
    /\ ~(pc[c] \in QuietPc /\ op[c] = "start")

(* A connection that was accepted is with the loop that accepted it.         *)
AcceptedInv == \A k \in Conn : worker[k] = "accepted" => \E l \in Loop : HasClient(l) /\ client[l] = k

ServedInv(c) ==
  /\ CallsInv /\ OwnedInv /\ AcceptedInv
  /\ CountInv(c) /\ TakenInv(c) /\ OpeningInv(c) /\ ListenInv(c) /\ ServingInv(c)

-----------------------------------------------------------------------------
(* No connection is counted: no worker has a slot, so no handler is in a     *)
(* call.                                                                    *)
LEMMA NoSlotNoCall ==
  ASSUME IInv, active = 0
  PROVE  \A k \in Conn : worker[k] \notin {"handle", "stopping", "release"} /\ pc[k] = "idle"
  <1>1. Cardinality(Held) = 0
    <2>1. Slots = 0 BY DEF IInv, SlotsAreConnections
    <2>2. Cardinality(Held) + Cardinality(Creating) = 0 BY <2>1, SlotsAreSum
    <2> QED BY <2>2, SlotsAreFinite
  <1>2. Held = {} BY <1>1, SlotsAreFinite, FS_EmptySet
  <1>3. \A k \in Conn : worker[k] \notin {"handle", "stopping", "release"}
    <2>1. \A k \in Conn : k \notin Held BY <1>2
    <2> QED BY <2>1 DEF Held
  <1> QED BY <1>3 DEF IInv, CallInv

LEMMA NextLoopIsLoop ==
  ASSUME NEW c \in Controller, IInv, CountInv(c), op[c] = "start"
  PROVE  NextLoop \in Loop
  BY NextLoopIsNext, StartsAssumption DEF IInv, TypeOK, ServerTypes, CountInv, Loop

(* One more accept loop, one more number used.                              *)
LEMMA NextLoopAfterSpawn ==
  ASSUME IInv, LoopGoto(NextLoop, "top"), NextLoop \in Loop
  PROVE  NextLoop' = NextLoop + 1
  <1> DEFINE Used == {l \in Loop : loop[l] # "none"}
  <1>1. loop[NextLoop] = "none" BY NextLoopIsNext DEF IInv, TypeOK
  <1>2. Used' = Used \union {NextLoop} /\ NextLoop \notin Used
    BY <1>1 DEF LoopGoto, IInv, TypeOK, LoopTypes
  <1>3. IsFiniteSet(Used)
    <2>1. IsFiniteSet(Loop) BY FS_Interval, StartsAssumption DEF Loop
    <2> QED BY <2>1, FS_Subset
  <1>4. Cardinality(Used') = Cardinality(Used) + 1 BY <1>2, <1>3, FS_AddElement
  <1>5. NextLoop = 1 + Cardinality(Used) /\ NextLoop' = 1 + Cardinality(Used') BY DEF NextLoop
  <1> QED BY <1>3, <1>4, <1>5, FS_CardinalityType

LEMMA NextLoopStays ==
  ASSUME \A l \in Loop : loop'[l] = "none" <=> loop[l] = "none"
  PROVE  NextLoop' = NextLoop
  BY DEF NextLoop

(* Whoever waits until no connection is counted finds no accept loop: it has *)
(* joined the one it took, and a handler that took one holds a slot.         *)
LEMMA QuietHasNoLoop ==
  ASSUME NEW c, Controller = {c}, IInv, ServedInv(c), pc[c] = "quiet_test", active = 0
  PROVE  \A l \in Loop : ~Live(l)
  <1> SUFFICES ASSUME NEW l \in Loop, Live(l) PROVE FALSE OBVIOUS
  <1>1. handle # l
    BY StartsAssumption DEF ServedInv, TakenInv, QuietPc, None, Loop
  <1>2. PICK a \in Actor : pc[a] = "take_join" /\ taken[a] = l BY <1>1 DEF ServedInv, OwnedInv
  <1>3. a # c BY <1>2
  <1>4. a \in Conn BY <1>3 DEF Actor
  <1> QED BY <1>2, <1>4, NoSlotNoCall

-----------------------------------------------------------------------------
(* What a step of an accept loop leaves alone.                               *)
LoopStep(l) == Accepting(l) \/ \E k \in Conn : LoopAccepts(l, k)

LEMMA NotifyMoves ==
  ASSUME CallTypes, NotifyAll
  PROVE  \A a \in Actor : pc'[a] = pc[a] \/ (pc[a] = "asleep" /\ pc'[a] = "quiet_lock")
  BY DEF CallTypes, NotifyAll

LEMMA LoopLeavesCalls ==
  ASSUME CallTypes, NEW l \in Loop, LoopStep(l)
  PROVE  /\ op' = op /\ taken' = taken /\ handle' = handle /\ starts' = starts
         /\ serving' = serving
         /\ \A a \in Actor : pc'[a] = pc[a] \/ (pc[a] = "asleep" /\ pc'[a] = "quiet_lock")
  <1> USE DEF controllerVars
  <1>1. CASE LoopNotifies(l) BY <1>1, NotifyMoves DEF LoopNotifies
  <1>2. CASE LoopTop(l) \/ LoopLoads(l) \/ AcceptFails(l) \/ LoopChecks(l) \/ LoopCounts(l)
    BY <1>2 DEF LoopTop, LoopLoads, AcceptFails, LoopChecks, LoopCounts
  <1>3. CASE LoopAcquires(l) \/ LoopRetries(l) \/ LoopRefuses(l) \/ LoopSpawns(l)
    BY <1>3 DEF LoopAcquires, LoopRetries, LoopRefuses, LoopSpawns
  <1>4. CASE LoopGivesBack(l) \/ LoopFalls(l) \/ LoopCloses(l)
    BY <1>4 DEF LoopGivesBack, LoopFalls, LoopCloses
  <1>5. CASE \E k \in Conn : LoopAccepts(l, k) BY <1>5 DEF LoopAccepts
  <1> QED BY <1>1, <1>2, <1>3, <1>4, <1>5 DEF LoopStep, Accepting

(* Only the end of the loop touches the listener, when it closes it, and     *)
(* running_.                                                                *)
LEMMA LoopAndListener ==
  ASSUME IInv, NEW l \in Loop, LoopStep(l)
  PROVE  \/ /\ listenFd' = listenFd /\ open' = open /\ running' = running
            /\ Live(l)'
         \/ LoopFalls(l) \/ LoopCloses(l)
  <1> USE DEF LoopGoto, Live, IInv, TypeOK, LoopTypes
  <1>1. CASE LoopTop(l) \/ LoopLoads(l) \/ AcceptFails(l) \/ LoopChecks(l) \/ LoopCounts(l)
    BY <1>1 DEF LoopTop, LoopLoads, AcceptFails, LoopChecks, LoopCounts
  <1>2. CASE LoopAcquires(l) \/ LoopRetries(l) \/ LoopRefuses(l) \/ LoopSpawns(l)
    BY <1>2 DEF LoopAcquires, LoopRetries, LoopRefuses, LoopSpawns
  <1>3. CASE LoopGivesBack(l) \/ LoopNotifies(l)
    BY <1>3 DEF LoopGivesBack, LoopNotifies
  <1>4. CASE \E k \in Conn : LoopAccepts(l, k) BY <1>4 DEF LoopAccepts
  <1> QED BY <1>1, <1>2, <1>3, <1>4 DEF LoopStep, Accepting

(* While the server serves, a loop finds the listener open and running_ set. *)
LEMMA LoopServes ==
  ASSUME IInv, NEW c, Controller = {c}, ServedInv(c), serving, NEW l \in Loop, LoopStep(l)
  PROVE  /\ loop'[l] \notin {"exit", "close"}
         /\ loop'[l] = "accept" => fd'[l] = listenFd
  <1> USE DEF LoopGoto, IInv, TypeOK, LoopTypes
  <1>1. /\ running /\ listenFd \in open /\ listenFd # None
        /\ loop[l] \notin {"exit", "close"}
        /\ loop[l] = "accept" => fd[l] = listenFd
    BY DEF ServedInv, ServingInv, ListenInv
  <1>2. CASE LoopTop(l) BY <1>1, <1>2, Zenon DEF LoopTop
  <1>3. CASE LoopLoads(l) BY <1>1, <1>3 DEF LoopLoads
  <1>4. CASE AcceptFails(l) BY <1>1, <1>4 DEF AcceptFails
  <1>5. CASE LoopChecks(l) BY <1>1, <1>5 DEF LoopChecks
  <1>6. CASE LoopCounts(l) \/ LoopAcquires(l) \/ LoopRetries(l) \/ LoopRefuses(l) \/ LoopSpawns(l)
    BY <1>6 DEF LoopCounts, LoopAcquires, LoopRetries, LoopRefuses, LoopSpawns
  <1>7. CASE LoopGivesBack(l) \/ LoopNotifies(l)
    BY <1>7 DEF LoopGivesBack, LoopNotifies
  <1>8. CASE LoopFalls(l) \/ LoopCloses(l) BY <1>1, <1>8 DEF LoopFalls, LoopCloses
  <1>9. CASE \E k \in Conn : LoopAccepts(l, k) BY <1>9 DEF LoopAccepts
  <1> QED BY <1>2, <1>3, <1>4, <1>5, <1>6, <1>7, <1>8, <1>9 DEF LoopStep, Accepting

(* The loop keeps its client until that has a worker or is hung up on.       *)
LEMMA LoopKeepsAccepted ==
  ASSUME IInv, AcceptedInv, NEW l \in Loop, LoopStep(l)
  PROVE  AcceptedInv'
  <1> USE DEF LoopGoto, IInv, TypeOK, LoopTypes, WorkerTypes, HasClient
  <1>1. \A m \in Loop : m # l => loop'[m] = loop[m] BY LoopMoves DEF LoopStep
  <1>2. CASE \/ LoopTop(l) \/ LoopLoads(l) \/ AcceptFails(l)
             \/ (LoopChecks(l) /\ running) \/ LoopCounts(l) \/ LoopAcquires(l) \/ LoopRetries(l)
             \/ LoopGivesBack(l) \/ LoopFalls(l) \/ LoopCloses(l)
    <2>1. worker' = worker /\ client' = client /\ (HasClient(l) => HasClient(l)')
      BY <1>2 DEF LoopTop, LoopLoads, AcceptFails, LoopChecks, LoopCounts, LoopAcquires,
                  LoopRetries, LoopGivesBack, LoopFalls, LoopCloses
    <2> QED BY <1>1, <2>1 DEF AcceptedInv
  <1>3. CASE LoopHangsUp(l) \/ LoopSpawns(l)
    <2>1. /\ \A m \in Loop : m # l => client'[m] = client[m]
          /\ \A k \in Conn : k # client[l] => worker'[k] = worker[k]
          /\ client[l] \in Conn /\ worker'[client[l]] # "accepted"
      BY <1>3 DEF LoopHangsUp, LoopChecks, LoopRefuses, LoopNotifies, LoopSpawns, Hangup, ClientInv
    <2> QED BY <1>1, <2>1 DEF AcceptedInv
  <1>4. CASE \E k \in Conn : LoopAccepts(l, k)
    <2>1. PICK k \in Conn : LoopAccepts(l, k) BY <1>4
    <2>2. /\ ~HasClient(l) /\ HasClient(l)'
          /\ \A m \in Loop : client'[m] = IF m = l THEN k ELSE client[m]
          /\ \A j \in Conn : j # k => worker'[j] = worker[j]
      BY <2>1 DEF LoopAccepts
    <2> QED BY <1>1, <2>2 DEF AcceptedInv
  <1>5. LoopChecks(l) => (LoopChecks(l) /\ running) \/ LoopHangsUp(l)
    BY Zenon DEF LoopHangsUp
  <1>6. LoopRefuses(l) \/ LoopNotifies(l) => LoopHangsUp(l) BY DEF LoopHangsUp
  <1> QED BY <1>2, <1>3, <1>4, <1>5, <1>6 DEF LoopStep, Accepting

LEMMA LoopKeepsServed ==
  ASSUME IInv, NEW c, Controller = {c}, ServedInv(c), NEW l \in Loop, LoopStep(l)
  PROVE  ServedInv(c)'
  <1> USE DEF ServedInv
  <1> c \in Actor /\ CallTypes BY DEF Actor, IInv, TypeOK
  <1>1. /\ op' = op /\ taken' = taken /\ handle' = handle /\ starts' = starts
        /\ serving' = serving
        /\ \A a \in Actor : pc'[a] = pc[a] \/ (pc[a] = "asleep" /\ pc'[a] = "quiet_lock")
    BY LoopLeavesCalls
  <1>2. /\ \A m \in Loop : m # l => loop'[m] = loop[m]
        /\ loop[l] # "none" /\ loop'[l] # "none" /\ loop[l] # "done"
    <2>1. loop[l] # "done"
      BY DEF LoopStep, Accepting, LoopTop, LoopLoads, AcceptFails, LoopChecks, LoopCounts,
             LoopAcquires, LoopRetries, LoopRefuses, LoopSpawns, LoopGivesBack, LoopNotifies,
             LoopFalls, LoopCloses, LoopAccepts
    <2> QED BY <2>1, LoopMoves DEF LoopStep, IInv, TypeOK
  <1>3. pc[c] \notin OpeningPc BY <1>2 DEF OpeningInv, Live
  <1>4. pc'[c] \notin OpeningPc BY <1>1, <1>3 DEF OpeningPc, ListensPc
  <1>5. CallsInv'
    BY <1>1 DEF CallsInv, OpeningPc, ListensPc, Actor
  <1>6. OwnedInv' BY <1>1, <1>2 DEF OwnedInv, Live
  <1>7. AcceptedInv' BY LoopKeepsAccepted
  <1>8. CountInv(c)' BY <1>1, <1>2, NextLoopStays DEF CountInv
  <1>9. TakenInv(c)' BY <1>1 DEF TakenInv, QuietPc
  <1>10. OpeningInv(c)' BY <1>4 DEF OpeningInv, OpeningPc, ListensPc
  <1>11. ListenInv(c)'
    <2>1. CASE listenFd' = listenFd /\ open' = open /\ Live(l)'
      BY <2>1 DEF ListenInv
    <2>2. CASE LoopFalls(l)
      <3>1. listenFd' = listenFd /\ open' = open /\ Live(l)'
        BY <2>2 DEF LoopFalls, LoopGoto, Live, IInv, TypeOK, LoopTypes
      <3> QED BY <2>1, <3>1
    <2>3. CASE LoopCloses(l)
      <3>1. open' = {} BY <2>3 DEF LoopCloses, ListenInv
      <3> QED BY <3>1 DEF ListenInv
    <2> QED BY <2>1, <2>2, <2>3, LoopAndListener
  <1>12. ServingInv(c)'
    <2> SUFFICES ASSUME serving' PROVE ServingInv(c)' BY DEF ServingInv
    <2>1. serving BY <1>1
    <2>2. ~LoopFalls(l) /\ ~LoopCloses(l) BY <2>1 DEF ServingInv, LoopFalls, LoopCloses
    <2>3. listenFd' = listenFd /\ open' = open /\ running' = running
      BY <2>2, LoopAndListener
    <2>4. \A m \in Loop : m # l => fd'[m] = fd[m]
      BY DEF LoopStep, Accepting, LoopTop, LoopLoads, AcceptFails, LoopChecks, LoopCounts,
             LoopAcquires, LoopRetries, LoopRefuses, LoopSpawns, LoopGivesBack, LoopNotifies,
             LoopFalls, LoopCloses, LoopAccepts, IInv, TypeOK, LoopTypes
    <2>5. \A m \in Loop : loop'[m] \notin {"exit", "close"}
                          /\ (loop'[m] = "accept" => fd'[m] = listenFd')
      BY <1>2, <2>1, <2>3, <2>4, LoopServes DEF ServingInv
    <2>6. running' /\ listenFd' \in open' BY <2>1, <2>3 DEF ServingInv
    <2> QED BY <1>1, <1>4, <2>1, <2>5, <2>6 DEF ServingInv, QuietPc
  <1> QED BY <1>5, <1>6, <1>7, <1>8, <1>9, <1>10, <1>11, <1>12

-----------------------------------------------------------------------------
(* A worker that ends takes nothing down.                                    *)
LEMMA WorkerKeepsServed ==
  ASSUME IInv, NEW c, Controller = {c}, ServedInv(c), NEW k \in Conn, Serving(k)
  PROVE  ServedInv(c)'
  <1> USE DEF ServedInv
  <1> c \in Actor /\ CallTypes /\ WorkerTypes BY DEF Actor, IInv, TypeOK
  <1>1. /\ op' = op /\ taken' = taken /\ handle' = handle /\ starts' = starts
        /\ serving' = serving /\ running' = running /\ listenFd' = listenFd /\ open' = open
        /\ loop' = loop /\ client' = client /\ fd' = fd
        /\ \A a \in Actor : pc'[a] = pc[a] \/ (pc[a] = "asleep" /\ pc'[a] = "quiet_lock")
        /\ \A j \in Conn : worker'[j] = "accepted" => worker[j] = "accepted"
    <2> USE DEF controllerVars, loopVars, WorkerTypes
    <2>1. CASE HandlerEnds(k) \/ Releases(k) BY <2>1 DEF HandlerEnds, Releases
    <2>2. CASE Notifies(k) BY <2>2, NotifyMoves DEF Notifies
    <2> QED BY <2>1, <2>2 DEF Serving
  <1>2. pc'[c] \in OpeningPc => pc[c] \in OpeningPc /\ pc'[c] = pc[c]
    BY <1>1 DEF OpeningPc, ListensPc
  <1>3. pc[c] \in OpeningPc => active' = active
    <2>1. CASE HandlerEnds(k) \/ Notifies(k) BY <2>1 DEF HandlerEnds, Notifies
    <2>2. CASE Releases(k) BY <2>2, NoSlotNoCall DEF Releases, OpeningInv
    <2> QED BY <2>1, <2>2 DEF Serving
  <1>4. NextLoop' = NextLoop BY <1>1 DEF NextLoop
  <1>5. CallsInv' BY <1>1 DEF CallsInv, OpeningPc, ListensPc, Actor
  <1>6. OwnedInv' BY <1>1 DEF OwnedInv, Live
  <1>7. AcceptedInv' BY <1>1 DEF AcceptedInv, HasClient
  <1>8. CountInv(c)' BY <1>1, <1>4 DEF CountInv
  <1>9. TakenInv(c)' BY <1>1 DEF TakenInv, QuietPc
  <1>10. OpeningInv(c)' BY <1>1, <1>2, <1>3, <1>4 DEF OpeningInv, OpeningPc, ListensPc, Live
  <1>11. ListenInv(c)' BY <1>1 DEF ListenInv, ListensPc, Live
  <1>12. ServingInv(c)' BY <1>1, <1>2 DEF ServingInv, QuietPc
  <1> QED BY <1>5, <1>6, <1>7, <1>8, <1>9, <1>10, <1>11, <1>12

-----------------------------------------------------------------------------
(* A handler that calls stop(): it holds a slot, so no start() is past its   *)
(* wait.                                                                    *)
LEMMA HandlerKeepsServed ==
  ASSUME IInv, NEW c, Controller = {c}, ServedInv(c), NEW k \in Conn, CallStep(k)
  PROVE  ServedInv(c)'
  <1> USE DEF ServedInv
  <1> c \in Actor /\ k \in Actor /\ k # c /\ k \notin Controller
    BY ThreadsAssumption DEF Actor
  <1> TypeOK /\ CallTypes /\ WorkerTypes BY DEF IInv, TypeOK
  <1>1. StopFlags(k) \/ StopCloses(k) \/ TakeThread(k) \/ JoinTaken(k) \/ CallStop(k)
    BY DEF CallStep, InCall, QuietLocks, QuietHolds, QuietFails, Sleeps, WakesSpuriously, CallsInv
  <1>2. pc[c] \notin OpeningPc
    <2>1. worker[k] \in {"handle", "stopping"}
      BY <1>1 DEF CallStop, StopFlags, StopCloses, TakeThread, JoinTaken, IInv, CallInv
    <2> QED BY <2>1, NoSlotNoCall DEF OpeningInv
  <1>3. /\ loop' = loop /\ client' = client /\ fd' = fd /\ starts' = starts
        /\ \A a \in Actor : a # k => pc'[a] = pc[a] /\ op'[a] = op[a] /\ taken'[a] = taken[a]
    BY <1>1 DEF CallStop, StopFlags, StopCloses, TakeThread, JoinTaken, Return, Goto,
                WaitsForWorkers, loopVars, CallTypes
  <1>4. NextLoop' = NextLoop BY <1>3 DEF NextLoop
  <1>5. /\ pc'[k] \in {"idle", "flag", "close", "take", "take_join"}
        /\ op'[k] \in {"none", "stop"}
        /\ op'[k] = "stop" => pc'[k] # "idle"
        /\ pc'[k] \in {"flag", "close"} => op'[k] = "stop"
        /\ pc'[k] \in {"take", "take_join"} => op'[k] \in {"wait", "stop"}
    <2> USE DEF Return, Goto, WaitsForWorkers, CallTypes, CallsInv
    <2>1. CASE CallStop(k) BY <2>1 DEF CallStop
    <2>2. CASE StopFlags(k) \/ StopCloses(k) BY <2>2 DEF StopFlags, StopCloses
    <2>3. CASE TakeThread(k) BY <2>3 DEF TakeThread
    <2>4. CASE JoinTaken(k) BY <2>4 DEF JoinTaken
    <2> QED BY <1>1, <2>1, <2>2, <2>3, <2>4
  <1>6. CallsInv' BY <1>3, <1>5 DEF CallsInv, OpeningPc, ListensPc, Actor
  <1>7. OwnedInv'
    <2>1. CASE TakeThread(k)
      <3>1. pc'[k] = "take_join" /\ taken'[k] = handle /\ pc[k] = "take"
        BY <2>1 DEF TakeThread, Goto, CallTypes
      <3> QED BY <1>3, <3>1 DEF OwnedInv, Live
    <2>2. CASE JoinTaken(k)
      <3>1. handle' = handle /\ Joined(taken[k]) BY <2>2 DEF JoinTaken
      <3>2. \A l \in Loop : Live(l) => taken[k] # l
        BY <3>1, StartsAssumption DEF Joined, Live, Loop, None
      <3> QED BY <1>3, <3>1, <3>2 DEF OwnedInv, Live
    <2>3. CASE CallStop(k) \/ StopFlags(k) \/ StopCloses(k)
      <3>1. handle' = handle /\ pc[k] # "take_join"
        BY <2>3 DEF CallStop, StopFlags, StopCloses
      <3> QED BY <1>3, <3>1 DEF OwnedInv, Live
    <2> QED BY <1>1, <2>1, <2>2, <2>3
  <1>8. AcceptedInv'
    <2>1. \A j \in Conn : worker'[j] = "accepted" => worker[j] = "accepted"
      BY <1>1 DEF CallStop, StopFlags, StopCloses, TakeThread, JoinTaken, Return, WaitsForWorkers,
                  WorkerTypes
    <2> QED BY <1>3, <2>1 DEF AcceptedInv, HasClient
  <1>9. CountInv(c)' BY <1>3, <1>4 DEF CountInv
  <1>10. TakenInv(c)'
    <2>1. handle' = handle \/ handle' = None
      BY <1>1 DEF CallStop, StopFlags, StopCloses, TakeThread, JoinTaken
    <2> QED BY <1>3, <2>1 DEF TakenInv, QuietPc
  <1>11. OpeningInv(c)' BY <1>2, <1>3 DEF OpeningInv, OpeningPc, ListensPc
  <1>12. ListenInv(c)'
    <2>1. CASE StopCloses(k)
      <3>1. open' = {} BY <2>1 DEF StopCloses, ClosedByStop, ListenInv
      <3> QED BY <3>1 DEF ListenInv
    <2>2. CASE CallStop(k) \/ StopFlags(k) \/ TakeThread(k) \/ JoinTaken(k)
      <3>1. listenFd' = listenFd /\ open' = open
        BY <2>2 DEF CallStop, StopFlags, TakeThread, JoinTaken
      <3> QED BY <1>3, <3>1 DEF ListenInv, Live
    <2> QED BY <1>1, <2>1, <2>2
  <1>13. ServingInv(c)'
    <2>1. CASE CallStop(k) BY <2>1 DEF CallStop, ServingInv
    <2>2. CASE StopFlags(k) \/ StopCloses(k) \/ TakeThread(k) \/ JoinTaken(k)
      <3>1. serving' = serving /\ op[k] = "stop"
        BY <2>2 DEF CallsInv, StopFlags, StopCloses, TakeThread, JoinTaken
      <3> QED BY <3>1 DEF ServingInv
    <2> QED BY <1>1, <2>1, <2>2
  <1> QED BY <1>6, <1>7, <1>8, <1>9, <1>10, <1>11, <1>12, <1>13

-----------------------------------------------------------------------------
(* The thread that drives the server.                                        *)
StartEnds(c) == StartRefused(c) \/ StartFails(c) \/ StartSpawns(c) \/ StartUnopens(c)

(* Steps within the wait for the workers.                                    *)
WaitsOn(a) == QuietLocks(a) \/ QuietFails(a) \/ Sleeps(a) \/ WakesSpuriously(a)

LEMMA CallerSteps ==
  ASSUME NEW c \in Controller, CallStep(c)
  PROVE  \/ CallStart(c) \/ CallWait(c) \/ CallStop(c)
         \/ StartLocks(c) \/ StartJoins(c) \/ StartOpens(c) \/ StartRaises(c) \/ SpawnFails(c)
         \/ StartEnds(c)
         \/ StopFlags(c) \/ StopCloses(c) \/ TakeThread(c) \/ JoinTaken(c)
         \/ WaitsOn(c) \/ QuietHolds(c)
  BY DEF CallStep, InStart, InCall, StartEnds, WaitsOn

(* It moves nobody else, and no loop but the one it creates.                 *)
LEMMA CallerFrame ==
  ASSUME CallTypes, NEW c \in Controller, CallStep(c)
  PROVE  /\ \A a \in Actor : a # c => pc'[a] = pc[a] /\ op'[a] = op[a] /\ taken'[a] = taken[a]
         /\ worker' = worker /\ client' = client /\ fd' = fd /\ active' = active
         /\ ~StartSpawns(c) => loop' = loop
  <1> USE ThreadsAssumption DEF CallTypes, Actor, Goto, Return, loopVars
  <1>1. CASE CallStart(c) \/ CallWait(c) \/ CallStop(c)
    BY <1>1 DEF CallStart, CallWait, CallStop
  <1>2. CASE StartLocks(c) \/ StartJoins(c) \/ StartOpens(c) \/ StartRaises(c) \/ SpawnFails(c)
    BY <1>2 DEF StartLocks, StartJoins, StartOpens, StartRaises, SpawnFails
  <1>3. CASE StartEnds(c)
    BY <1>3 DEF StartEnds, StartRefused, StartFails, StartSpawns, StartUnopens
  <1>4. CASE StopFlags(c) \/ StopCloses(c) \/ TakeThread(c) \/ JoinTaken(c)
    BY <1>4 DEF StopFlags, StopCloses, TakeThread, JoinTaken
  <1>5. CASE WaitsOn(c) \/ QuietHolds(c)
    BY <1>5 DEF WaitsOn, QuietLocks, QuietFails, Sleeps, WakesSpuriously, QuietHolds
  <1> QED BY <1>1, <1>2, <1>3, <1>4, <1>5, CallerSteps

LEMMA CallerKeepsCalls ==
  ASSUME CallTypes, CallsInv, NEW c \in Controller, CallStep(c)
  PROVE  CallsInv'
  <1> USE ThreadsAssumption DEF CallTypes, Actor, Goto, Return, CallsInv, OpeningPc, ListensPc
  <1>1. \/ pc'[c] = "idle" /\ op'[c] # "stop"
        \/ pc'[c] \in {"lock", "join"} \union OpeningPc /\ op'[c] = "start"
        \/ pc'[c] \in {"flag", "close"} /\ op'[c] = "stop"
        \/ pc'[c] \in {"take", "take_join"} /\ op'[c] \in {"wait", "stop"}
        \/ pc'[c] \in QuietPc
    <2>1. CASE CallStart(c) \/ CallWait(c) \/ CallStop(c)
      BY <2>1 DEF CallStart, CallWait, CallStop
    <2>2. CASE StartLocks(c) \/ StartJoins(c) \/ StartOpens(c) \/ StartRaises(c) \/ SpawnFails(c)
      BY <2>2 DEF StartLocks, StartJoins, StartOpens, StartRaises, SpawnFails, QuietPc
    <2>3. CASE StartEnds(c)
      BY <2>3 DEF StartEnds, StartRefused, StartFails, StartSpawns, StartUnopens
    <2>4. CASE StopFlags(c) \/ StopCloses(c) \/ TakeThread(c)
      BY <2>4 DEF StopFlags, StopCloses, TakeThread
    <2>5. CASE JoinTaken(c) BY <2>5 DEF JoinTaken, QuietPc
    <2>6. CASE WaitsOn(c)
      BY <2>6 DEF WaitsOn, QuietLocks, QuietFails, Sleeps, WakesSpuriously, QuietPc
    <2>7. CASE QuietHolds(c) BY <2>7 DEF QuietHolds
    <2> QED BY <2>1, <2>2, <2>3, <2>4, <2>5, <2>6, <2>7, CallerSteps
  <1> QED BY <1>1, CallerFrame DEF QuietPc

(* No start() of this thread is under way, none else is: at its end all      *)
(* accept loops but the new one are over.                                   *)
LEMMA SpawnedLoop ==
  ASSUME IInv, NEW c, Controller = {c}, ServedInv(c), StartSpawns(c)
  PROVE  /\ NextLoop \in Loop /\ NextLoop' = NextLoop + 1
         /\ loop'[NextLoop] = "top"
         /\ \A l \in Loop : l # NextLoop => loop'[l] = loop[l] /\ loop[l] \in {"none", "done"}
  <1>1. op[c] = "start" BY DEF ServedInv, CallsInv, StartSpawns, OpeningPc, ListensPc, Actor
  <1>2. NextLoop \in Loop BY <1>1, NextLoopIsLoop DEF ServedInv
  <1>3. NextLoop' = NextLoop + 1 BY <1>2, NextLoopAfterSpawn DEF StartSpawns
  <1>4. \A l \in Loop : loop[l] \in {"none", "done"}
    BY DEF ServedInv, OpeningInv, StartSpawns, OpeningPc, ListensPc, Live
  <1> QED BY <1>2, <1>3, <1>4 DEF StartSpawns, LoopGoto, IInv, TypeOK, LoopTypes

LEMMA CallerKeepsOwned ==
  ASSUME IInv, NEW c, Controller = {c}, ServedInv(c), CallStep(c)
  PROVE  OwnedInv' /\ TakenInv(c)'
  <1> USE DEF ServedInv, Goto, Return
  <1> c \in Actor /\ CallTypes BY DEF Actor, IInv, TypeOK
  <1>1. CASE StartSpawns(c)
    <2>1. handle' = NextLoop /\ pc'[c] = "idle" BY <1>1 DEF StartSpawns, CallTypes
    <2> QED BY <1>1, <2>1, SpawnedLoop DEF OwnedInv, Live, TakenInv, QuietPc
  <1>2. ASSUME ~StartSpawns(c) PROVE OwnedInv' /\ TakenInv(c)'
    <2>1. /\ loop' = loop
          /\ \A a \in Actor : a # c => pc'[a] = pc[a] /\ taken'[a] = taken[a]
      BY <1>2, CallerFrame
    <2>2. CASE StartJoins(c)
      <3>1. /\ \A l \in Loop : Live(l) => handle # l
            /\ handle' = None /\ pc[c] = "join"
        BY <2>2, StartsAssumption DEF StartJoins, Live, Loop, None
      <3> QED BY <2>1, <3>1 DEF OwnedInv, Live, TakenInv
    <2>3. CASE TakeThread(c)
      <3>1. /\ pc'[c] = "take_join" /\ taken'[c] = handle /\ pc[c] = "take" /\ handle' = None
        BY <2>3 DEF TakeThread, CallTypes
      <3> QED BY <2>1, <3>1 DEF OwnedInv, Live, TakenInv
    <2>4. CASE JoinTaken(c)
      <3>1. handle' = handle /\ Joined(taken[c]) /\ pc[c] = "take_join" BY <2>4 DEF JoinTaken
      <3>2. \A l \in Loop : Live(l) => taken[c] # l
        BY <3>1, StartsAssumption DEF Joined, Live, Loop, None
      <3> QED BY <2>1, <3>1, <3>2 DEF OwnedInv, Live, TakenInv
    <2>5. CASE WaitsOn(c)
      <3>1. handle' = handle /\ pc[c] \in QuietPc
        BY <2>5 DEF WaitsOn, QuietLocks, QuietFails, Sleeps, WakesSpuriously, QuietPc
      <3> QED BY <2>1, <3>1 DEF OwnedInv, Live, TakenInv, QuietPc
    <2>6. CASE \/ CallStart(c) \/ CallWait(c) \/ CallStop(c)
               \/ StartLocks(c) \/ StartOpens(c) \/ StartRaises(c) \/ SpawnFails(c)
               \/ StartEnds(c) \/ StopFlags(c) \/ StopCloses(c) \/ QuietHolds(c)
      <3>1. handle' = handle /\ pc[c] # "take_join" /\ pc'[c] \notin {"take_join"} \union QuietPc
        <4> USE DEF CallTypes, QuietPc
        <4>1. CASE CallStart(c) \/ CallWait(c) \/ CallStop(c)
          BY <4>1 DEF CallStart, CallWait, CallStop
        <4>2. CASE StartLocks(c) \/ StartOpens(c) \/ StartRaises(c) \/ SpawnFails(c)
          BY <4>2 DEF StartLocks, StartOpens, StartRaises, SpawnFails
        <4>3. CASE StartEnds(c)
          BY <1>2, <4>3 DEF StartEnds, StartRefused, StartFails, StartUnopens
        <4>4. CASE StopFlags(c) \/ StopCloses(c) \/ QuietHolds(c)
          BY <4>4 DEF StopFlags, StopCloses, QuietHolds
        <4> QED BY <2>6, <4>1, <4>2, <4>3, <4>4
      <3> QED BY <2>1, <3>1 DEF OwnedInv, Live, TakenInv
    <2> QED BY <2>2, <2>3, <2>4, <2>5, <2>6, CallerSteps
  <1> QED BY <1>1, <1>2

LEMMA CallerKeepsCount ==
  ASSUME IInv, NEW c, Controller = {c}, ServedInv(c), CallStep(c)
  PROVE  CountInv(c)'
  <1> USE DEF ServedInv
  <1> /\ c \in Actor /\ CallTypes /\ starts \in Nat /\ NextLoop \in Nat
    BY NextLoopIsNext, StartsAssumption DEF Actor, IInv, TypeOK, ServerTypes
  <1>1. CASE StartSpawns(c)
    <2>1. op[c] = "start" /\ op'[c] = "none" /\ starts' = starts
      BY <1>1 DEF StartSpawns, Return, CallTypes, CallsInv, OpeningPc, ListensPc
    <2> QED BY <1>1, <2>1, SpawnedLoop DEF CountInv
  <1>2. ASSUME ~StartSpawns(c) PROVE CountInv(c)'
    <2>1. NextLoop' = NextLoop BY <1>2, CallerFrame DEF NextLoop
    <2>2. CASE CallStart(c)
      <3>1. starts' = starts + 1 /\ op'[c] = "start" BY <2>2 DEF CallStart, CallTypes
      <3> QED BY <2>1, <3>1 DEF CountInv
    <2>3. CASE ~CallStart(c)
      <3>1. starts' = starts /\ (op'[c] = "start" => op[c] = "start")
        <4> USE DEF CallTypes, Return
        <4>1. CASE CallWait(c) \/ CallStop(c) BY <4>1 DEF CallWait, CallStop
        <4>2. CASE StartLocks(c) \/ StartJoins(c) \/ StartOpens(c) \/ StartRaises(c) \/ SpawnFails(c)
          BY <4>2 DEF StartLocks, StartJoins, StartOpens, StartRaises, SpawnFails
        <4>3. CASE StartEnds(c)
          BY <1>2, <4>3 DEF StartEnds, StartRefused, StartFails, StartUnopens
        <4>4. CASE StopFlags(c) \/ StopCloses(c) \/ TakeThread(c) \/ JoinTaken(c)
          BY <4>4 DEF StopFlags, StopCloses, TakeThread, JoinTaken
        <4>5. CASE WaitsOn(c) \/ QuietHolds(c)
          BY <4>5 DEF WaitsOn, QuietLocks, QuietFails, Sleeps, WakesSpuriously, QuietHolds
        <4> QED BY <2>3, <4>1, <4>2, <4>3, <4>4, <4>5, CallerSteps
      <3> QED BY <2>1, <3>1 DEF CountInv
    <2> QED BY <2>2, <2>3
  <1> QED BY <1>1, <1>2

(* The wait of start() ends with the server quiet; then it is alone.         *)
LEMMA CallerKeepsOpening ==
  ASSUME IInv, NEW c, Controller = {c}, ServedInv(c), CallStep(c)
  PROVE  OpeningInv(c)'
  <1> USE DEF ServedInv, Goto, Return, OpeningPc, ListensPc
  <1> c \in Actor /\ CallTypes BY DEF Actor, IInv, TypeOK
  <1>1. CASE StartEnds(c)
    <2>1. pc'[c] = "idle"
      BY <1>1 DEF StartEnds, StartRefused, StartFails, StartSpawns, StartUnopens, CallTypes
    <2> QED BY <2>1 DEF OpeningInv
  <1>2. ASSUME ~StartEnds(c) PROVE OpeningInv(c)'
    <2>1. loop' = loop /\ active' = active BY <1>2, CallerFrame DEF StartEnds
    <2>2. NextLoop' = NextLoop BY <2>1 DEF NextLoop
    <2>3. CASE QuietHolds(c)
      <3>1. CASE op[c] = "start"
        <4>1. active = 0 /\ pc'[c] = "open" BY <2>3, <3>1 DEF QuietHolds, Quiet, CallTypes
        <4>2. \A l \in Loop : ~Live(l) BY <4>1, <2>3, QuietHasNoLoop DEF QuietHolds
        <4> QED BY <2>1, <4>1, <4>2 DEF OpeningInv, Live
      <3>2. CASE op[c] # "start"
        <4>1. pc'[c] = "idle" BY <2>3, <3>2 DEF QuietHolds, CallTypes
        <4> QED BY <4>1 DEF OpeningInv
      <3> QED BY <3>1, <3>2
    <2>4. CASE StartOpens(c)
      <3>1. pc[c] = "open" /\ pc'[c] = "raise" /\ listenFd' = NextLoop /\ NextLoop \in open'
        BY <2>4 DEF StartOpens, CallTypes
      <3> QED BY <2>1, <2>2, <3>1 DEF OpeningInv, Live
    <2>5. CASE StartRaises(c)
      <3>1. /\ pc[c] = "raise" /\ pc'[c] = "spawn" /\ listenFd' = listenFd /\ open' = open
            /\ running'
        BY <2>5 DEF StartRaises, CallTypes
      <3> QED BY <2>1, <2>2, <3>1 DEF OpeningInv, Live
    <2>6. CASE SpawnFails(c)
      <3>1. pc[c] = "spawn" /\ pc'[c] = "unopen" /\ listenFd' = listenFd
        BY <2>6 DEF SpawnFails, CallTypes
      <3> QED BY <2>1, <2>2, <3>1 DEF OpeningInv, Live
    <2>7. CASE \/ CallStart(c) \/ CallWait(c) \/ CallStop(c) \/ StartLocks(c) \/ StartJoins(c)
               \/ StopFlags(c) \/ StopCloses(c) \/ TakeThread(c) \/ JoinTaken(c) \/ WaitsOn(c)
      <3>1. pc'[c] \notin OpeningPc
        <4> USE DEF CallTypes
        <4>1. CASE CallStart(c) \/ CallWait(c) \/ CallStop(c) \/ StartLocks(c) \/ StartJoins(c)
          BY <4>1 DEF CallStart, CallWait, CallStop, StartLocks, StartJoins
        <4>2. CASE StopFlags(c) \/ StopCloses(c) \/ TakeThread(c) \/ JoinTaken(c)
          BY <4>2 DEF StopFlags, StopCloses, TakeThread, JoinTaken
        <4>3. CASE WaitsOn(c)
          BY <4>3 DEF WaitsOn, QuietLocks, QuietFails, Sleeps, WakesSpuriously
        <4> QED BY <2>7, <4>1, <4>2, <4>3
      <3> QED BY <3>1 DEF OpeningInv
    <2> QED BY <1>2, <2>3, <2>4, <2>5, <2>6, <2>7, CallerSteps
  <1> QED BY <1>1, <1>2

(* Every listener that is opened has somebody to close it.                   *)
LEMMA CallerKeepsListen ==
  ASSUME IInv, NEW c, Controller = {c}, ServedInv(c), CallStep(c)
  PROVE  ListenInv(c)'
  <1> USE DEF ServedInv, Goto, Return, OpeningPc, ListensPc
  <1> c \in Actor /\ CallTypes BY DEF Actor, IInv, TypeOK
  <1>1. CASE StartSpawns(c)
    <2>1. listenFd' = listenFd /\ open' = open BY <1>1 DEF StartSpawns
    <2>2. \E l \in Loop : Live(l)'
      <3>1. PICK l \in Loop : l = NextLoop BY <1>1, SpawnedLoop
      <3> QED BY <1>1, <3>1, SpawnedLoop DEF Live
    <2> QED BY <2>1, <2>2 DEF ListenInv
  <1>2. ASSUME ~StartSpawns(c) PROVE ListenInv(c)'
    <2>1. \A l \in Loop : Live(l)' <=> Live(l) BY <1>2, CallerFrame DEF Live
    <2>2. CASE StartOpens(c)
      <3>1. open = {} BY <2>2 DEF StartOpens, OpeningInv, ListenInv
      <3>2. open' = {NextLoop} /\ listenFd' = NextLoop /\ pc'[c] = "raise"
        BY <2>2, <3>1 DEF StartOpens, CallTypes
      <3>3. NextLoop # None BY NextLoopIsNext DEF None, IInv, TypeOK
      <3> QED BY <3>2, <3>3 DEF ListenInv
    <2>3. CASE StopCloses(c) \/ StartUnopens(c)
      <3>1. open' = {}
        BY <2>3 DEF StopCloses, ClosedByStop, StartUnopens, OpeningInv, ListenInv
      <3> QED BY <3>1 DEF ListenInv
    <2>4. CASE StartRaises(c) \/ SpawnFails(c)
      <3>1. listenFd' = listenFd /\ open' = open /\ pc'[c] \in ListensPc
        BY <2>4 DEF StartRaises, SpawnFails, CallTypes
      <3> QED BY <3>1 DEF ListenInv
    <2>5. CASE \/ CallStart(c) \/ CallWait(c) \/ CallStop(c) \/ StartLocks(c) \/ StartJoins(c)
               \/ StartRefused(c) \/ StartFails(c)
               \/ StopFlags(c) \/ TakeThread(c) \/ JoinTaken(c) \/ WaitsOn(c) \/ QuietHolds(c)
      <3>1. listenFd' = listenFd /\ open' = open /\ pc[c] \notin ListensPc
        <4>1. CASE \/ CallStart(c) \/ CallWait(c) \/ CallStop(c) \/ StartLocks(c) \/ StartJoins(c)
                   \/ StartRefused(c) \/ StartFails(c)
          BY <4>1 DEF CallStart, CallWait, CallStop, StartLocks, StartJoins, StartRefused, StartFails
        <4>2. CASE StopFlags(c) \/ TakeThread(c) \/ JoinTaken(c)
          BY <4>2 DEF StopFlags, TakeThread, JoinTaken
        <4>3. CASE WaitsOn(c) \/ QuietHolds(c)
          BY <4>3 DEF WaitsOn, QuietLocks, QuietFails, Sleeps, WakesSpuriously, QuietHolds
        <4> QED BY <2>5, <4>1, <4>2, <4>3
      <3> QED BY <2>1, <3>1 DEF ListenInv
    <2> QED BY <1>2, <2>2, <2>3, <2>4, <2>5, CallerSteps DEF StartEnds
  <1> QED BY <1>1, <1>2

(* A start() that gets past its own check has found the server down.         *)
LEMMA CallerKeepsServing ==
  ASSUME IInv, NEW c, Controller = {c}, ServedInv(c), CallStep(c)
  PROVE  ServingInv(c)'
  <1> USE DEF ServedInv, Goto, Return, OpeningPc, ListensPc
  <1> c \in Actor /\ CallTypes BY DEF Actor, IInv, TypeOK
  <1>1. CASE StartSpawns(c)
    <2>1. /\ running' = running /\ listenFd' = listenFd /\ open' = open
          /\ running /\ listenFd \in open
      BY <1>1 DEF StartSpawns, OpeningInv
    <2>2. \A l \in Loop : loop'[l] \in {"none", "done", "top"} BY <1>1, SpawnedLoop
    <2>3. /\ serving' => \A a \in Actor : op[a] # "stop"
          /\ op' = [op EXCEPT ![c] = "none"] /\ pc'[c] = "idle"
      BY <1>1 DEF StartSpawns, CallTypes
    <2>4. serving' => \A a \in Actor : op'[a] # "stop" BY <2>3 DEF CallTypes
    <2>5. running' BY <2>1
    <2> QED BY <2>1, <2>2, <2>3, <2>4, <2>5 DEF ServingInv, QuietPc
  <1>2. ASSUME ~StartSpawns(c), serving' PROVE ServingInv(c)'
    <2>1. ~CallStop(c) BY <1>2 DEF CallStop
    <2>2. CASE \/ StartFails(c) \/ StartOpens(c) \/ StartRaises(c) \/ SpawnFails(c) \/ StartUnopens(c)
               \/ StopFlags(c) \/ StopCloses(c)
      <3>1. serving' = serving /\ (pc[c] \in OpeningPc \/ op[c] = "stop")
        BY <2>2 DEF StartFails, StartOpens, StartRaises, SpawnFails, StartUnopens, StopFlags,
                    StopCloses, CallsInv
      <3> QED BY <1>2, <3>1 DEF ServingInv
    <2>3. CASE StartJoins(c)
      <3>1. serving' = serving /\ ~running BY <2>3 DEF StartJoins
      <3> QED BY <1>2, <3>1 DEF ServingInv
    <2>4. CASE \/ CallStart(c) \/ CallWait(c) \/ StartLocks(c) \/ StartRefused(c)
               \/ TakeThread(c) \/ JoinTaken(c) \/ WaitsOn(c) \/ QuietHolds(c)
      <3>1. /\ serving' = serving /\ running' = running /\ listenFd' = listenFd /\ open' = open
            /\ op'[c] # "stop" \/ op'[c] = op[c]
            /\ pc'[c] \in OpeningPc => pc[c] \in QuietPc /\ op[c] = "start"
            /\ pc'[c] \in QuietPc => \/ op'[c] # "start"
                                     \/ pc[c] \in QuietPc /\ op'[c] = op[c]
        <4> USE DEF CallTypes, QuietPc
        <4>1. CASE CallStart(c) \/ CallWait(c) \/ StartLocks(c) \/ StartRefused(c) \/ TakeThread(c)
          BY <4>1 DEF CallStart, CallWait, StartLocks, StartRefused, TakeThread
        <4>2. CASE JoinTaken(c) BY <4>2 DEF JoinTaken, CallsInv
        <4>3. CASE WaitsOn(c)
          BY <4>3 DEF WaitsOn, QuietLocks, QuietFails, Sleeps, WakesSpuriously
        <4>4. CASE QuietHolds(c) BY <4>4 DEF QuietHolds
        <4> QED BY <2>4, <4>1, <4>2, <4>3, <4>4
      <3>2. /\ loop' = loop /\ fd' = fd
            /\ \A a \in Actor : a # c => op'[a] = op[a]
        BY <1>2, CallerFrame
      <3>3. running' /\ listenFd' \in open' BY <1>2, <3>1 DEF ServingInv
      <3>4. \A a \in Actor : op'[a] # "stop" BY <1>2, <3>1, <3>2 DEF ServingInv
      <3>5. pc'[c] \notin OpeningPc /\ ~(pc'[c] \in QuietPc /\ op'[c] = "start")
        BY <1>2, <3>1 DEF ServingInv
      <3>6. \A l \in Loop : loop'[l] \notin {"exit", "close"} /\ (loop'[l] = "accept" => fd'[l] = listenFd')
        BY <1>2, <3>1, <3>2 DEF ServingInv
      <3> QED BY <3>3, <3>4, <3>5, <3>6 DEF ServingInv
    <2> QED BY <1>2, <2>1, <2>2, <2>3, <2>4, CallerSteps DEF StartEnds
  <1>3. ~serving' => ServingInv(c)' BY DEF ServingInv
  <1> QED BY <1>1, <1>2, <1>3

LEMMA CallerKeepsServed ==
  ASSUME IInv, NEW c, Controller = {c}, ServedInv(c), CallStep(c)
  PROVE  ServedInv(c)'
  <1>1. CallsInv' BY CallerKeepsCalls DEF IInv, TypeOK, ServedInv
  <1>2. AcceptedInv'
    <2>1. worker' = worker /\ client' = client BY CallerFrame DEF IInv, TypeOK
    <2>2. \A l \in Loop : HasClient(l) => HasClient(l)'
      <3>1. CASE StartSpawns(c) BY <3>1, SpawnedLoop, NextLoopIsNext DEF HasClient, IInv, TypeOK
      <3>2. CASE ~StartSpawns(c) BY <3>2, CallerFrame DEF HasClient, IInv, TypeOK
      <3> QED BY <3>1, <3>2
    <2> QED BY <2>1, <2>2 DEF AcceptedInv, ServedInv
  <1> QED BY <1>1, <1>2, CallerKeepsOwned, CallerKeepsCount, CallerKeepsOpening,
             CallerKeepsListen, CallerKeepsServing DEF ServedInv

-----------------------------------------------------------------------------
LEMMA InitServed ==
  ASSUME NEW c, Controller = {c}
  PROVE  Init => ServedInv(c)
  <1> SUFFICES ASSUME Init PROVE ServedInv(c) OBVIOUS
  <1> c \in Actor BY DEF Actor
  <1>1. CallsInv BY DEF Init, CallsInv, OpeningPc, ListensPc, Actor
  <1>2. OwnedInv /\ AcceptedInv BY DEF Init, OwnedInv, AcceptedInv, Live
  <1>3. CountInv(c)
    <2>1. {l \in Loop : loop[l] # "none"} = {} BY DEF Init
    <2>2. NextLoop = 1 BY <2>1, FS_EmptySet DEF NextLoop
    <2> QED BY <2>2 DEF Init, CountInv
  <1>4. TakenInv(c) /\ OpeningInv(c) BY DEF Init, TakenInv, QuietPc, OpeningInv, OpeningPc, ListensPc
  <1>5. ListenInv(c) /\ ServingInv(c) BY DEF Init, ListenInv, ServingInv
  <1> QED BY <1>1, <1>2, <1>3, <1>4, <1>5 DEF ServedInv

LEMMA NextServed ==
  ASSUME NEW c, Controller = {c}
  PROVE  IInv /\ ServedInv(c) /\ [Next]_vars => ServedInv(c)'
  <1> SUFFICES ASSUME IInv, ServedInv(c), [Next]_vars PROVE ServedInv(c)' OBVIOUS
  <1>1. CASE \E d \in Controller : CallStart(d) \/ CallWait(d) \/ InStart(d)
    BY <1>1, CallerKeepsServed DEF CallStep
  <1>2. CASE \E a \in Actor : CallStop(a) \/ InCall(a) \/ WakesSpuriously(a)
    BY <1>2, CallerKeepsServed, HandlerKeepsServed DEF CallStep, Actor
  <1>3. CASE \E l \in Loop : Accepting(l) \/ \E k \in Conn : LoopAccepts(l, k)
    BY <1>3, LoopKeepsServed DEF LoopStep
  <1>4. CASE \E k \in Conn : Serving(k) BY <1>4, WorkerKeepsServed
  <1>5. CASE UNCHANGED vars
    <2> USE <1>5 DEF vars, lockVars, controllerVars, loopVars, ServedInv, Live
    <2>1. CallsInv' /\ OwnedInv' /\ AcceptedInv' /\ TakenInv(c)'
      BY DEF CallsInv, OwnedInv, AcceptedInv, HasClient, TakenInv
    <2>2. NextLoop' = NextLoop BY DEF NextLoop
    <2>3. CountInv(c)' /\ OpeningInv(c)' BY <2>2 DEF CountInv, OpeningInv
    <2>4. ListenInv(c)' /\ ServingInv(c)' BY DEF ListenInv, ServingInv
    <2> QED BY <2>1, <2>3, <2>4
  <1> QED BY <1>1, <1>2, <1>3, <1>4, <1>5 DEF Next

THEOREM ServedInvariance ==
  ASSUME NEW c, Controller = {c}
  PROVE  Spec => []ServedInv(c)
  <1>1. Init => ServedInv(c) BY InitServed
  <1>2. IInv /\ ServedInv(c) /\ [Next]_vars => ServedInv(c)' BY NextServed
  <1> QED BY <1>1, <1>2, Invariance, PTL DEF Spec

(* With one thread driving the server, a server that was started and not     *)
(* told to stop keeps running_ set and its listener open, through restarts   *)
(* and whatever the handlers of the run before were doing.                   *)
THEOREM StartedStays ==
  ASSUME NEW c, Controller = {c}
  PROVE  Spec => []StartedServes
  <1>1. ServedInv(c) => StartedServes BY DEF ServedInv, ServingInv, StartedServes
  <1>2. Spec => []ServedInv(c) BY ServedInvariance
  <1> QED BY <1>1, <1>2, PTL

(* When that thread is back from stop() or wait(), nothing of the server is  *)
(* left: no accept loop, no listener, no worker in a handler.                *)
LEMMA QuietStep ==
  ASSUME NEW c, Controller = {c}, IInv, ServedInv(c), [Next]_vars,
         op[c] \in {"stop", "wait"}, op'[c] = "none"
  PROVE  /\ \A l \in Loop : loop'[l] \in {"none", "done"}
         /\ open' = {}
         /\ \A k \in Conn : worker'[k] \in {"none", "notify"}
  <1> c \in Actor /\ CallTypes BY DEF Actor, IInv, TypeOK
  <1>1. CallStep(c)
    <2>1. \A l \in Loop : ~LoopStep(l) BY LoopLeavesCalls
    <2>2. \A k \in Conn : ~Serving(k)
      BY DEF Serving, HandlerEnds, Releases, Notifies, controllerVars
    <2>3. \A k \in Conn : ~CallStep(k)
      <3> SUFFICES ASSUME NEW k \in Conn, CallStep(k) PROVE FALSE OBVIOUS
      <3>1. k \in Actor /\ k # c BY ThreadsAssumption DEF Actor
      <3>2. op'[c] = op[c]
        BY <3>1 DEF CallStep, CallStop, InCall, StopFlags, StopCloses, TakeThread, JoinTaken,
             QuietLocks, QuietHolds, QuietFails, Sleeps, WakesSpuriously, Return, CallTypes
      <3> QED BY <3>2
    <2>4. ~UNCHANGED vars BY DEF vars, controllerVars
    <2> QED BY <2>1, <2>2, <2>3, <2>4 DEF Next, CallStep, LoopStep, Actor
  <1>2. QuietHolds(c)
    <2>1. ~StartEnds(c)
      BY DEF StartEnds, StartRefused, StartFails, StartSpawns, StartUnopens, ServedInv, CallsInv,
             OpeningPc, ListensPc
    <2>2. ~CallStart(c) /\ ~CallWait(c) /\ ~CallStop(c)
      BY DEF CallStart, CallWait, CallStop, CallTypes
    <2>3. /\ ~StartLocks(c) /\ ~StartJoins(c) /\ ~StartOpens(c) /\ ~StartRaises(c)
          /\ ~SpawnFails(c)
      BY DEF StartLocks, StartJoins, StartOpens, StartRaises, SpawnFails
    <2>4. ~StopFlags(c) /\ ~StopCloses(c) /\ ~TakeThread(c) /\ ~JoinTaken(c)
      BY ThreadsAssumption DEF StopFlags, StopCloses, TakeThread, JoinTaken, WaitsForWorkers
    <2>5. ~WaitsOn(c) BY DEF WaitsOn, QuietLocks, QuietFails, Sleeps, WakesSpuriously
    <2> QED BY <1>1, <2>1, <2>2, <2>3, <2>4, <2>5, CallerSteps
  <1>3. /\ pc[c] = "quiet_test" /\ active = 0 /\ open' = open
        /\ loop' = loop /\ worker' = worker
    BY <1>1, <1>2, CallerFrame DEF QuietHolds, Quiet, StartSpawns
  <1>4. \A l \in Loop : ~Live(l) BY <1>3, QuietHasNoLoop
  <1>5. open = {} BY <1>3, <1>4 DEF ServedInv, ListenInv, ListensPc
  <1>6. \A k \in Conn : worker[k] \notin {"handle", "stopping", "release"} BY <1>3, NoSlotNoCall
  <1>7. \A k \in Conn : worker[k] # "accepted"
    BY <1>4 DEF ServedInv, AcceptedInv, HasClient, Live
  <1>8. \A k \in Conn : worker[k] \in WorkerPc BY DEF IInv, TypeOK, WorkerTypes
  <1> QED BY <1>3, <1>4, <1>5, <1>6, <1>7, <1>8 DEF Live, WorkerPc

THEOREM StopLeavesNothing ==
  ASSUME NEW main, Controller = {main}
  PROVE  Spec => QuietAfterStop
  <1> DEFINE NothingLeft ==
        \A c \in Controller : op[c] \in {"stop", "wait"} /\ op'[c] = "none" =>
          /\ \A l \in Loop : loop'[l] \in {"none", "done"}
          /\ open' = {}
          /\ \A k \in Conn : worker'[k] \in {"none", "notify"}
  <1>1. IInv /\ ServedInv(main) /\ [Next]_vars => [NothingLeft]_vars
    <2> SUFFICES ASSUME IInv, ServedInv(main), [Next]_vars PROVE NothingLeft OBVIOUS
    <2> QED BY QuietStep
  <1>2. Spec => []ServedInv(main) BY ServedInvariance
  <1> QED BY <1>1, <1>2, Invariance, PTL DEF Spec, QuietAfterStop
=============================================================================
