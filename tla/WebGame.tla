------------------------------ MODULE WebGame ------------------------------
(***************************************************************************)
(* A game on the page (web/app.js): human and engine turns, clocks, pause, *)
(* resume, end, and leaving the game for the analysis.  The page is        *)
(* single-threaded: an action is one task of its event loop together with   *)
(* the continuations it makes ready.  The functions of the page that call  *)
(* each other are operators from page to page.                             *)
(*                                                                         *)
(* game.generation is compared with remembered values only: whoever has    *)
(* remembered one carries a flag, fresh, that is cleared when it changes.   *)
(* The flag same is history: the position is still the one asked about.    *)
(* What PageJob says of a search job is here reduced to where it is.       *)
(***************************************************************************)
EXTENDS Integers, FiniteSets

CONSTANTS Width,      \* points of the board, in one row
          WinLength,  \* stones in a row that win
          Renju,      \* state.rules = "renju"
          Initial,    \* the clocks at the start, in ticks
          Increment,  \* the increment per move, in ticks
          MaxChecks   \* bound: legality requests under way before the user goes on

ASSUME SizeAssumption == Width \in Nat \ {0} /\ WinLength \in 2..Width
ASSUME RenjuAssumption == Renju \in BOOLEAN
ASSUME ClockAssumption == Initial \in Nat \ {0} /\ Increment \in Nat
ASSUME ChecksAssumption == MaxChecks \in Nat \ {0}

VARIABLES
  page,   \* state.game, board, side to move, the engine's turn, legality checks
  leave   \* finishGameSessionForAnalysis, when it awaits the end of a search

vars == <<page, leave>>

Point == 1..Width
Side  == {"black", "white"}
BothSides(v) == [s \in Side |-> v]
Opposite(s) == IF s = "black" THEN "white" ELSE "black"

NoTurn  == [at |-> "none", side |-> "black", fresh |-> FALSE, same |-> FALSE]
NoLeave == [at |-> "none", wanted |-> FALSE, status |-> "idle",
            clocks |-> BothSides(Initial)]

Init ==
  /\ page = [board         |-> [x \in Point |-> "none"],
             side          |-> "black",
             players       |-> BothSides("human"),
             status        |-> "idle",
             clocks        |-> BothSides(Initial),
             started       |-> FALSE,   \* turnStartedAt # null
             elapsed       |-> 0,       \* ticks since turnStartedAt
             ticking       |-> FALSE,   \* timerId # null
             timer         |-> "none",  \* engineTimerId and its generation
             inputPending  |-> FALSE,
             transitioning |-> FALSE,
             turn          |-> NoTurn,  \* the runEngineTurn that awaits its search
             checks        |-> {},      \* whoever awaits checkMoveLegality
             used          |-> BothSides(0),  \* history: ticks of a side's turns
             made          |-> BothSides(0),  \* history: moves of a side
             loose         |-> FALSE,   \* history: see LooseEngine and LooseHuman
             astray        |-> FALSE]   \* history: a move was chosen for another position
  /\ leave = NoLeave

-----------------------------------------------------------------------------
Active(p)  == p.status \in {"running", "paused"}
CanEdit(p) == ~p.transitioning /\ ~Active(p)
Empty(p)   == {x \in Point : p.board[x] = "none"}

(* The row of stones of one colour through x wins; in Renju an overline of   *)
(* Black does not.                                                         *)
HasLineAt(b, x) ==
  LET row == {y \in Point : \A z \in (x..y) \union (y..x) : b[z] = b[x]} IN
  /\ b[x] # "none"
  /\ IF Renju /\ b[x] = "black" THEN Cardinality(row) = WinLength
                                ELSE Cardinality(row) >= WinLength

ExistingOutcome(p) == \E x \in Point : HasLineAt(p.board, x)

WinningPlacement(p, x, s) == HasLineAt([p.board EXCEPT ![x] = s], x)

(* liveClock of the side to move.                                          *)
LiveClock(p) == IF p.started THEN p.clocks[p.side] - p.elapsed ELSE p.clocks[p.side]

(* game.generation += 1                                                    *)
NewGeneration(p) ==
  [p EXCEPT !.turn.fresh = FALSE,
            !.checks = {[c EXCEPT !.fresh = FALSE] : c \in @},
            !.timer = IF @ = "none" THEN "none" ELSE "stale"]

NewPosition(p) ==
  [p EXCEPT !.turn.same = FALSE, !.checks = {[c EXCEPT !.same = FALSE] : c \in @}]

(* The histories are those of one game.                                    *)
NoHistory(p) ==
  [p EXCEPT !.used = BothSides(0), !.made = BothSides(0), !.loose = FALSE]

(* cancelSearchJob("game"): a job without an id yet is stopped once it has  *)
(* one; the stop of the others is sent now or within a poll's pause.  The  *)
(* generation has changed, so whether a poll has failed matters no longer. *)
CancelSearch(p) ==
  [p EXCEPT !.turn.at = CASE @ = "start"                  -> "startStop"
                          [] @ \in {"work", "errorStop"} -> "stop"
                          [] OTHER                        -> @]

(* Whether stopSearchJob has a stop request to wait for.                   *)
AwaitsStop(p) == p.turn.at \in {"stop", "errorStop"}

ScheduleEngineTurn(p) ==
  [p EXCEPT !.timer = IF p.status = "running" /\ p.players[p.side] = "engine"
                      THEN "fresh" ELSE "none"]

StopTimers(p) == [p EXCEPT !.timer = "none", !.ticking = FALSE]

FinishGame(p) ==
  IF p.status = "ended" THEN p
  ELSE CancelSearch(StopTimers(NewGeneration(
         [NoHistory(p) EXCEPT !.status = "ended", !.started = FALSE, !.elapsed = 0,
                              !.inputPending = FALSE, !.transitioning = FALSE])))

(* The time spent is taken off the clock of the side to move.              *)
ConsumeClock_RunsOn(p) == [p EXCEPT !.clocks[p.side] = LiveClock(p)]
ConsumeClock(p) == [p EXCEPT !.clocks[p.side] = LiveClock(p), !.started = FALSE, !.elapsed = 0]

FlagOnTime(p) == FinishGame([p EXCEPT !.clocks[p.side] = 0])

TimeIsUp(p) == p.status = "running" /\ LiveClock(p) = 0

(* startGameClockTimer, which looks at the clocks at once.                 *)
StartClockTimer(p) ==
  LET q == [p EXCEPT !.ticking = TRUE] IN IF TimeIsUp(q) THEN FlagOnTime(q) ELSE q

(* The clock of the side to move starts, and the engine if it is its turn. *)
StartTurn(p) ==
  ScheduleEngineTurn(StartClockTimer([p EXCEPT !.started = TRUE, !.elapsed = 0]))

-----------------------------------------------------------------------------
(* commitGameMove                                                          *)

CommitGameMove(p, x, winningHint, same) ==
  IF p.status # "running" \/ x \notin Empty(p) THEN p
  ELSE IF LiveClock(p) = 0 THEN FlagOnTime(ConsumeClock(p))
  ELSE LET q == NewPosition([ConsumeClock(p) EXCEPT !.board[x] = p.side,
                                                    !.clocks[p.side] = @ + Increment,
                                                    !.made[p.side] = @ + 1,
                                                    !.astray = @ \/ ~(same \/ p.loose)])
       IN IF winningHint \/ HasLineAt(q.board, x) \/ Empty(q) = {}
          THEN FinishGame(q)
          ELSE ScheduleEngineTurn([q EXCEPT !.side = Opposite(@), !.started = TRUE])

(* checkMoveLegality asks the server only about Black's moves in Renju.    *)
MustAsk(s) == Renju /\ s = "black"

Check(by, s, fresh, same, x, left, p) ==
  [by |-> by, side |-> s, fresh |-> fresh, same |-> same, move |-> x, left |-> left,
   wins |-> WinningPlacement(p, x, s)]

-----------------------------------------------------------------------------
(* runEngineTurn.  Its results are sets of pages: which move is best is the *)
(* engine's business.                                                      *)

TurnOver(p) == [p EXCEPT !.turn = NoTurn]

(* The loop over choices, left being those not yet tried.  Moves on stones *)
(* are found illegal without a request.                                    *)
TryChoices(p, t, left) ==
  LET free == left \intersect Empty(p) IN
  IF left = {} THEN {FinishGame(p)}
  ELSE IF ~t.fresh \/ p.status # "running" THEN {p}
  ELSE IF free = {} THEN {FinishGame(p)}
  ELSE {IF MustAsk(t.side)
        THEN [p EXCEPT !.checks = @ \union
                {Check("engine", t.side, t.fresh, t.same, x, left \ {x}, p)}]
        ELSE CommitGameMove(p, x, WinningPlacement(p, x, t.side), t.same) : x \in free}

Outdated_AnyGame(p, t) == p.status # "running" \/ p.side # t.side
Outdated(p, t) == ~t.fresh \/ p.status # "running" \/ p.side # t.side

TurnWithResult(p, t) ==
  IF Outdated(p, t) THEN {p}
  ELSE UNION {TryChoices(p, t, left) :
              left \in SUBSET (IF t.same THEN Empty(p) ELSE Point)}

(* No result at all.                                                       *)
TurnWithoutResult(p, t) == IF Outdated(p, t) THEN p ELSE FinishGame(p)

(* Its catch.                                                              *)
TurnFails_Quietly(p, t) == p
TurnFails(p, t) == IF t.fresh /\ p.status = "running" THEN FinishGame(p) ELSE p

EngineTimer ==
  LET p == [page EXCEPT !.timer = "none"] IN
  /\ page.timer # "none"
  /\ page' = IF page.timer = "stale" \/ p.status # "running" \/ p.players[p.side] # "engine"
             THEN p
             ELSE IF p.turn.at # "none" THEN ScheduleEngineTurn(p)
             ELSE IF LiveClock(p) = 0 THEN FlagOnTime(p)
             ELSE [p EXCEPT !.turn = [at |-> "start", side |-> p.side,
                                      fresh |-> TRUE, same |-> TRUE]]
  /\ UNCHANGED leave

(* The start request is answered, or fails.                                *)
SearchStarts ==
  /\ page.turn.at \in {"start", "startStop"}
  /\ \/ page' = [page EXCEPT !.turn.at = IF @ = "start" THEN "work" ELSE "stop"]
     \/ page' = TurnFails(TurnOver(page), page.turn)
  /\ UNCHANGED leave

(* The last poll is answered.                                              *)
SearchEnds ==
  /\ page.turn.at = "work"
  /\ \/ page' \in TurnWithResult(TurnOver(page), page.turn)
     \/ page' = TurnWithoutResult(TurnOver(page), page.turn)
  /\ UNCHANGED leave

PollFails ==
  /\ page.turn.at = "work"
  /\ page' = [page EXCEPT !.turn.at = "errorStop"]
  /\ UNCHANGED leave

-----------------------------------------------------------------------------
(* Leaving the game.                                                       *)

RestoreGame(p, resumeRunning) ==
  LET status == IF leave.status = "running" /\ ~resumeRunning THEN "paused" ELSE leave.status
      q == NewGeneration([p EXCEPT !.status = status, !.clocks = leave.clocks,
                                   !.inputPending = FALSE, !.transitioning = FALSE,
                                   !.started = FALSE, !.elapsed = 0])
  IN IF status = "running" THEN StartTurn(q) ELSE [q EXCEPT !.ticking = FALSE]

(* The stop request is answered or has failed for good.  The turn goes on, *)
(* and who has waited in pauseGame or finishGameSessionForAnalysis.        *)
StopSettles(ok) ==
  LET t == page.turn
      over == TurnOver(page)
      p == IF ok /\ t.at = "stop" THEN over ELSE TurnFails(over, t)
  IN /\ AwaitsStop(page)
     /\ page' = IF leave.at = "none" \/ (ok /\ leave.wanted)
                THEN [(IF leave.at = "none" THEN p ELSE NoHistory(p)) EXCEPT !.transitioning = FALSE]
                ELSE RestoreGame(p, ok)
     /\ leave' = NoLeave

(* finishGameSessionForAnalysis: without a stop to wait for, the change of  *)
(* mode is carried out at once.                                            *)
LeaveGame ==
  LET p == CancelSearch(StopTimers(NewGeneration(
             [ConsumeClock(page) EXCEPT !.status = "ended", !.inputPending = FALSE])))
  IN /\ Active(page)
     /\ page' = IF AwaitsStop(p) THEN [p EXCEPT !.transitioning = TRUE]
                ELSE [NoHistory(p) EXCEPT !.transitioning = FALSE]
     /\ leave' = IF AwaitsStop(p)
                 THEN [at |-> "stopping", wanted |-> TRUE, status |-> page.status,
                       clocks |-> p.clocks]
                 ELSE NoLeave

(* setMode, while the change to the analysis waits.                        *)
ChangeMind ==
  /\ leave.at = "stopping"
  /\ leave' = [leave EXCEPT !.wanted = FALSE]
  /\ UNCHANGED page

-----------------------------------------------------------------------------
(* The user.                                                               *)

Unhurried == Cardinality(page.checks) < MaxChecks

StartGame ==
  LET p == NewGeneration([NoHistory(page) EXCEPT !.status = "running", !.inputPending = FALSE,
                            !.transitioning = FALSE, !.started = TRUE, !.elapsed = 0,
                            !.clocks = BothSides(Initial)])
  IN /\ ~Active(page)
     /\ page.turn.at = "none"
     /\ Unhurried
     /\ page' = IF ExistingOutcome(p) \/ Empty(p) = {} THEN FinishGame(p) ELSE StartTurn(p)
     /\ UNCHANGED leave

PauseGame ==
  LET p == ConsumeClock(page)
      q == CancelSearch(StopTimers(NewGeneration([p EXCEPT !.status = "paused"])))
  IN /\ page.status = "running"
     /\ ~page.transitioning
     /\ page' = IF TimeIsUp(page) THEN FlagOnTime(p)
                ELSE [q EXCEPT !.transitioning = AwaitsStop(q)]
     /\ UNCHANGED leave

ResumeGame ==
  /\ page.status = "paused"
  /\ ~page.transitioning
  /\ page.turn.at = "none"
  /\ Unhurried
  /\ page' = StartTurn(NewGeneration([page EXCEPT !.status = "running"]))
  /\ UNCHANGED leave

EndGame ==
  /\ Active(page)
  /\ page' = IF TimeIsUp(page) THEN FlagOnTime(ConsumeClock(page))
             ELSE FinishGame(ConsumeClock(page))
  /\ UNCHANGED leave

(* attemptHumanGameMove up to its await.                                   *)
HumanMove(x) ==
  /\ page.status = "running"
  /\ ~page.inputPending
  /\ page.players[page.side] = "human"
  /\ x \in Empty(page)
  /\ Unhurried
  /\ page' = IF MustAsk(page.side)
             THEN [page EXCEPT !.inputPending = TRUE,
                     !.checks = @ \union {Check("human", page.side, TRUE, TRUE, x, {}, page)}]
             ELSE CommitGameMove(page, x, WinningPlacement(page, x, page.side), TRUE)
  /\ UNCHANGED leave

(* An ended game is reset by any change of the position.                   *)
ResetGame(p) ==
  CancelSearch(StopTimers(NewGeneration(
    [NoHistory(p) EXCEPT !.status = "idle", !.inputPending = FALSE, !.transitioning = FALSE,
                         !.started = FALSE, !.elapsed = 0, !.clocks = BothSides(Initial)])))

EditPosition(x, stone, s) ==
  LET p == NewPosition([page EXCEPT !.board[x] = stone, !.side = s]) IN
  /\ CanEdit(page)
  /\ <<stone, s>> # <<page.board[x], page.side>>
  /\ Unhurried
  /\ page' = IF page.status = "ended" THEN ResetGame(p) ELSE p
  /\ UNCHANGED leave

SetPlayerType(s, type) ==
  /\ ~Active(page)
  /\ Unhurried
  /\ page' = [page EXCEPT !.players[s] = type]
  /\ UNCHANGED leave

-----------------------------------------------------------------------------
(* The answer to a legality check, or its failure.                         *)

(* A check of an engine's move outlives the generation it belongs to.      *)
LooseEngine(p, c) == ~c.fresh /\ p.status = "running"

(* A check of an earlier game ends and frees the board while one of this   *)
(* game is under way.                                                      *)
LooseHuman(p) == \E d \in p.checks : d.by = "human" /\ d.fresh

HumanChecked(p, c, legal) ==
  LET q == IF legal /\ ~Outdated(p, c) THEN CommitGameMove(p, c.move, c.wins, c.same) ELSE p
  IN [q EXCEPT !.inputPending = FALSE, !.loose = @ \/ LooseHuman(q)]

(* The legal move of an engine is made whatever has happened meanwhile.    *)
EngineChecked(p, c) ==
  CommitGameMove([p EXCEPT !.loose = @ \/ LooseEngine(p, c)], c.move, c.wins, c.same)

CheckAnswered(c) ==
  LET p == [page EXCEPT !.checks = @ \ {c}] IN
  /\ IF c.by = "human"
     THEN \E legal \in BOOLEAN : page' = HumanChecked(p, c, legal)
     ELSE \/ page' = EngineChecked(p, c)
          \/ page' \in TryChoices(p, c, c.left)
          \/ page' = TurnFails(p, c)
  /\ UNCHANGED leave

-----------------------------------------------------------------------------
(* Time.                                                                   *)

Tick ==
  /\ page.started
  /\ LiveClock(page) > 0
  /\ page' = [page EXCEPT !.elapsed = @ + 1, !.used[page.side] = @ + 1]
  /\ UNCHANGED leave

ClockTimer ==
  /\ page.ticking
  /\ TimeIsUp(page)
  /\ page' = FlagOnTime(page)
  /\ UNCHANGED leave

-----------------------------------------------------------------------------
UserStep ==
  \/ StartGame
  \/ PauseGame
  \/ ResumeGame
  \/ EndGame
  \/ LeaveGame
  \/ ChangeMind
  \/ \E x \in Point : HumanMove(x)
  \/ \E x \in Point, stone \in Side \union {"none"}, s \in Side : EditPosition(x, stone, s)
  \/ \E s \in Side, type \in {"human", "engine"} : SetPlayerType(s, type)

SearchStep == SearchStarts \/ SearchEnds \/ PollFails \/ \E ok \in BOOLEAN : StopSettles(ok)

Next ==
  \/ UserStep
  \/ EngineTimer
  \/ SearchStep
  \/ \E c \in page.checks : CheckAnswered(c)
  \/ Tick
  \/ ClockTimer

Spec == Init /\ [][Next]_vars

(* Timers fire and requests end.  Neither users nor clocks owe anything.   *)
FairSpec ==
  /\ Spec
  /\ WF_vars(EngineTimer)
  /\ WF_vars(SearchStep)
  /\ WF_vars(\E c \in page.checks : CheckAnswered(c))

-----------------------------------------------------------------------------
(* A running game, and no other, has a clock that runs and a timer that    *)
(* looks at it; and every tick of a side's turns, no other, has been taken  *)
(* off its clock, over pauses, moves and changes of mode taken back.       *)
ClockOf(s) == IF s = page.side THEN LiveClock(page) ELSE page.clocks[s]

ClocksAreKept ==
  /\ (page.status = "running") = (page.started /\ page.ticking)
  /\ Active(page) => \A s \in Side :
       ClockOf(s) + page.used[s] = Initial + Increment * page.made[s]

(* A stone of a running game was chosen, and found legal, for the position  *)
(* it is put on, however answers of the server are delayed over pauses, new *)
(* games and edits.  Two ways out are excepted: app.js:2263 commits the     *)
(* engine's move without another look at the generation, and app.js:2118   *)
(* frees the board for the check of another game.                          *)
MovesAreChosen == ~page.astray

(* A game in which the engine is to move goes on to a human move, stops or  *)
(* is paused: no timer, search or check it waits for gets lost.            *)
EngineToMove == page.status = "running" /\ page.players[page.side] = "engine"

EngineMoves == EngineToMove ~> ~EngineToMove

=============================================================================
