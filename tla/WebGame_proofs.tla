--------------------------- MODULE WebGame_proofs ---------------------------
(***************************************************************************)
(* Proofs about WebGame, for every board, clock and number of requests      *)
(* under way: the clocks are charged exactly the turns, and a stone is put  *)
(* down on the position it was chosen for, but for the two ways out that    *)
(* MovesAreChosen names.                                                   *)
(***************************************************************************)
EXTENDS WebGame, TLAPS

Turn == [at : {"none", "start", "startStop", "work", "stop", "errorStop"}, side : Side,
         fresh : BOOLEAN, same : BOOLEAN]

LegalityCheck == [by : {"human", "engine"}, side : Side, fresh : BOOLEAN, same : BOOLEAN,
                  move : Point, left : SUBSET Point, wins : BOOLEAN]

Page == [board         : [Point -> Side \union {"none"}],
         side          : Side,
         players       : [Side -> {"human", "engine"}],
         status        : {"idle", "running", "paused", "ended"},
         clocks        : [Side -> Int],
         started       : BOOLEAN,
         elapsed       : Int,
         ticking       : BOOLEAN,
         timer         : {"none", "fresh", "stale"},
         inputPending  : BOOLEAN,
         transitioning : BOOLEAN,
         turn          : Turn,
         checks        : SUBSET LegalityCheck,
         used          : [Side -> Int],
         made          : [Side -> Int],
         loose         : BOOLEAN,
         astray        : BOOLEAN]

Leave == [at : {"none", "stopping"}, wanted : BOOLEAN,
          status : {"idle", "running", "paused", "ended"}, clocks : [Side -> Int]]

(* What has gone off a side's clock, and what has been added to it.          *)
Balanced(clocks, p) ==
  \A s \in Side : clocks[s] + p.used[s] = Initial + Increment * p.made[s]

Balance(p) ==
  \A s \in Side :
    p.clocks[s] - (IF s = p.side THEN p.elapsed ELSE 0) + p.used[s]
      = Initial + Increment * p.made[s]

Kept(p) ==
  /\ IF p.status = "running" THEN p.started /\ p.ticking ELSE ~p.started /\ ~p.ticking
  /\ ~p.started => p.elapsed = 0
  /\ Active(p) => Balance(p)

(* Nobody waits for an answer that belongs to this generation of the game.   *)
NoneWaits(p) == ~p.turn.fresh /\ \A c \in p.checks : ~c.fresh

(* While the game goes on, one timer, search or check of this generation is  *)
(* under way at most, for the player to move; so no stone is put down but   *)
(* by that one.                                                             *)
EngineIsToMove(p) == p.players[p.side] = "engine"

OneWaits(p) ==
  /\ p.turn.fresh => EngineIsToMove(p) /\ p.timer # "fresh" /\ p.turn.same
  /\ p.timer = "fresh" => EngineIsToMove(p)
  /\ \A c \in p.checks : c.fresh =>
       /\ c.same
       /\ c.by = "human" => ~EngineIsToMove(p) /\ p.inputPending
       /\ c.by = "engine" => EngineIsToMove(p) /\ ~p.turn.fresh /\ p.timer # "fresh"
  /\ \A c, d \in p.checks : c.fresh /\ d.fresh => c = d

Tight(p) == p.status = "running" /\ ~p.loose

Good(p) ==
  /\ p \in Page
  /\ Kept(p)
  /\ ~p.astray
  /\ Tight(p) => OneWaits(p)

(* While a change of mode waits, the clocks to be restored are in balance.   *)
Parted(p, l) ==
  l.at = "stopping" =>
    /\ p.status = "ended"
    /\ p.transitioning
    /\ AwaitsStop(p)
    /\ l.status \in {"running", "paused"}
    /\ Balanced(l.clocks, p)

IInv == Good(page) /\ leave \in Leave /\ Parted(page, leave)

-----------------------------------------------------------------------------
(* The operators on pages, and what they leave as it was.                    *)
Alike(p, q) ==
  /\ q.board = p.board /\ q.side = p.side /\ q.players = p.players /\ q.status = p.status
  /\ q.clocks = p.clocks /\ q.started = p.started /\ q.elapsed = p.elapsed
  /\ q.inputPending = p.inputPending /\ q.used = p.used /\ q.made = p.made
  /\ q.loose = p.loose /\ q.astray = p.astray

LEMMA BothSidesType == \A v \in Int : BothSides(v) \in [Side -> Int]
  BY DEF BothSides, Side

LEMMA IncrementBalance ==
  ASSUME NEW c \in Int, NEW u \in Int, NEW i \in Int, NEW k \in Int, NEW m \in Int,
         c + u = i + k * m
  PROVE  (c + k) + u = i + k * (m + 1)
  <1>1. k * (m + 1) = k * m + k OBVIOUS
  <1>2. k * m \in Int OBVIOUS
  <1> DEFINE x == k * m
  <1> HIDE DEF x
  <1>3. x \in Int /\ c + u = i + x BY <1>2 DEF x
  <1>4. (c + k) + u = i + (x + k) BY <1>3
  <1> QED BY <1>1, <1>4 DEF x

LEMMA NewGenerationType ==
  ASSUME NEW p \in Page
  PROVE  LET q == NewGeneration(p) IN
         /\ q \in Page /\ Alike(p, q) /\ NoneWaits(q) /\ q.timer # "fresh"
         /\ q.ticking = p.ticking /\ q.transitioning = p.transitioning /\ q.turn.at = p.turn.at
  <1> DEFINE t  == [p.turn EXCEPT !.fresh = FALSE]
             cs == {[c EXCEPT !.fresh = FALSE] : c \in p.checks}
             tm == IF p.timer = "none" THEN "none" ELSE "stale"
  <1>1. t \in Turn /\ ~t.fresh /\ t.at = p.turn.at BY DEF Page, Turn
  <1>2. ASSUME NEW c \in p.checks
        PROVE  [c EXCEPT !.fresh = FALSE] \in LegalityCheck /\ ~[c EXCEPT !.fresh = FALSE].fresh
    <2>1. c \in LegalityCheck BY DEF Page
    <2> QED BY <2>1 DEF LegalityCheck
  <1>3. cs \in SUBSET LegalityCheck /\ \A c \in cs : ~c.fresh BY <1>2
  <1>4. tm \in {"none", "stale"} OBVIOUS
  <1>5. NewGeneration(p) = [p EXCEPT !.turn = t, !.checks = cs, !.timer = tm]
    BY DEF NewGeneration, Page
  <1> HIDE DEF t, cs, tm
  <1> QED BY <1>1, <1>3, <1>4, <1>5, ZenonT(60) DEF Page, Alike, NoneWaits

LEMMA NewPositionType ==
  ASSUME NEW p \in Page
  PROVE  LET q == NewPosition(p) IN
         /\ q \in Page /\ Alike(p, q) /\ (NoneWaits(p) => NoneWaits(q)) /\ q.timer = p.timer
         /\ q.ticking = p.ticking /\ q.transitioning = p.transitioning /\ q.turn.at = p.turn.at
  <1> DEFINE t  == [p.turn EXCEPT !.same = FALSE]
             cs == {[c EXCEPT !.same = FALSE] : c \in p.checks}
  <1>1. t \in Turn /\ t.fresh = p.turn.fresh /\ t.at = p.turn.at BY DEF Page, Turn
  <1>2. ASSUME NEW c \in p.checks
        PROVE  [c EXCEPT !.same = FALSE] \in LegalityCheck /\ [c EXCEPT !.same = FALSE].fresh = c.fresh
    <2>1. c \in LegalityCheck BY DEF Page
    <2> QED BY <2>1 DEF LegalityCheck
  <1>3. cs \in SUBSET LegalityCheck BY <1>2
  <1>4. NoneWaits(p) => \A c \in cs : ~c.fresh BY <1>2 DEF NoneWaits
  <1>5. NewPosition(p) = [p EXCEPT !.turn = t, !.checks = cs] BY DEF NewPosition, Page
  <1> HIDE DEF t, cs
  <1>6. NewPosition(p).turn = t /\ NewPosition(p).checks = cs BY <1>5 DEF Page
  <1>7. NoneWaits(p) => NoneWaits(NewPosition(p)) BY <1>1, <1>4, <1>6 DEF NoneWaits
  <1> QED BY <1>1, <1>3, <1>5, <1>7, ZenonT(60) DEF Page, Alike

LEMMA CancelSearchType ==
  ASSUME NEW p \in Page
  PROVE  LET q == CancelSearch(p) IN
         /\ q \in Page /\ Alike(p, q) /\ q.timer = p.timer /\ q.checks = p.checks
         /\ q.turn.fresh = p.turn.fresh /\ q.ticking = p.ticking
         /\ q.transitioning = p.transitioning
  <1> DEFINE a == CASE p.turn.at = "start"                  -> "startStop"
                    [] p.turn.at \in {"work", "errorStop"} -> "stop"
                    [] OTHER                                -> p.turn.at
             t == [p.turn EXCEPT !.at = a]
  <1>1. a \in {"none", "start", "startStop", "work", "stop", "errorStop"} BY DEF Page, Turn
  <1>2. CancelSearch(p) = [p EXCEPT !.turn = t] BY DEF CancelSearch, Page, Turn
  <1> HIDE DEF a
  <1>3. t \in Turn /\ t.fresh = p.turn.fresh BY <1>1 DEF Page, Turn
  <1> HIDE DEF t
  <1> QED BY <1>2, <1>3 DEF Page, Alike

LEMMA StopTimersType ==
  ASSUME NEW p \in Page
  PROVE  LET q == StopTimers(p) IN
         /\ q \in Page /\ Alike(p, q) /\ q.timer = "none" /\ ~q.ticking /\ q.checks = p.checks
         /\ q.turn = p.turn /\ q.transitioning = p.transitioning
  BY DEF StopTimers, Page, Alike

LEMMA NoHistoryType ==
  ASSUME NEW p \in Page
  PROVE  LET q == NoHistory(p) IN
         /\ q \in Page /\ q.status = p.status /\ q.started = p.started /\ q.ticking = p.ticking
         /\ q.elapsed = p.elapsed /\ q.astray = p.astray /\ q.turn = p.turn /\ q.checks = p.checks
         /\ q.clocks = p.clocks /\ q.used = BothSides(0) /\ q.made = BothSides(0)
  <1>1. BothSides(0) \in [Side -> Int] BY BothSidesType
  <1> QED BY <1>1 DEF NoHistory, Page

LEMMA ConsumeClockType ==
  ASSUME NEW p \in Page
  PROVE  LET q == ConsumeClock(p) IN
         /\ q \in Page /\ ~q.started /\ q.elapsed = 0
         /\ q.clocks = [p.clocks EXCEPT ![p.side] = LiveClock(p)]
         /\ q.board = p.board /\ q.side = p.side /\ q.players = p.players /\ q.status = p.status
         /\ q.ticking = p.ticking /\ q.turn = p.turn /\ q.checks = p.checks
         /\ q.transitioning = p.transitioning /\ q.inputPending = p.inputPending
         /\ q.used = p.used /\ q.made = p.made /\ q.loose = p.loose /\ q.astray = p.astray
  <1> DEFINE k == [p.clocks EXCEPT ![p.side] = LiveClock(p)]
             off == FALSE
             zero == 0
  <1>1. LiveClock(p) \in Int BY DEF LiveClock, Page
  <1>2. k \in [Side -> Int] BY <1>1 DEF Page
  <1>3. /\ ConsumeClock(p) = [p EXCEPT !.clocks = k, !.started = off, !.elapsed = zero]
        /\ off \in BOOLEAN /\ zero \in Int
    BY DEF ConsumeClock, Page
  <1> HIDE DEF k, off, zero
  <1>4. ConsumeClock(p) \in Page BY <1>2, <1>3, ZenonT(60) DEF Page
  <1>5. LET q == ConsumeClock(p) IN
         /\ q.started = off /\ q.elapsed = zero /\ q.clocks = k
         /\ q.board = p.board /\ q.side = p.side /\ q.players = p.players /\ q.status = p.status
         /\ q.ticking = p.ticking /\ q.turn = p.turn /\ q.checks = p.checks
         /\ q.transitioning = p.transitioning /\ q.inputPending = p.inputPending
         /\ q.used = p.used /\ q.made = p.made /\ q.loose = p.loose /\ q.astray = p.astray
    BY <1>3 DEF Page
  <1> QED BY <1>4, <1>5 DEF k, off, zero

(* What has been consumed is in balance with what has been used.             *)
LEMMA ConsumeClockBalance ==
  ASSUME NEW p \in Page, Balance(p), ~p.started => p.elapsed = 0
  PROVE  Balanced(ConsumeClock(p).clocks, p)
  <1>1. ConsumeClock(p).clocks = [p.clocks EXCEPT ![p.side] = LiveClock(p)] BY ConsumeClockType
  <1>2. LiveClock(p) = p.clocks[p.side] - p.elapsed BY DEF LiveClock, Page
  <1>3. p.clocks \in [Side -> Int] /\ p.side \in Side /\ p.elapsed \in Int BY DEF Page
  <1> SUFFICES ASSUME NEW s \in Side
               PROVE  ConsumeClock(p).clocks[s] + p.used[s] = Initial + Increment * p.made[s]
    BY DEF Balanced
  <1>4. ConsumeClock(p).clocks[s] = p.clocks[s] - (IF s = p.side THEN p.elapsed ELSE 0)
    BY <1>1, <1>2, <1>3
  <1> QED BY <1>4 DEF Balance

-----------------------------------------------------------------------------
(* Games that do not run.                                                    *)
LEMMA StillIsGood ==
  ASSUME NEW p \in Page, p.status \in {"idle", "ended"}, ~p.started, ~p.ticking, p.elapsed = 0,
         ~p.astray
  PROVE  Good(p)
  BY DEF Good, Kept, Active, Tight

(* The search is given up, and all timers and answers with it.               *)
LEMMA HaltType ==
  ASSUME NEW p \in Page
  PROVE  LET q == CancelSearch(StopTimers(NewGeneration(p))) IN
         /\ q \in Page /\ Alike(p, q) /\ ~q.ticking /\ q.transitioning = p.transitioning
  <1> DEFINE b == NewGeneration(p)
             c == StopTimers(b)
             d == CancelSearch(c)
  <1>1. b \in Page /\ Alike(p, b) /\ b.transitioning = p.transitioning BY NewGenerationType
  <1> HIDE DEF b
  <1>2. c \in Page /\ Alike(b, c) /\ ~c.ticking /\ c.transitioning = b.transitioning
    BY <1>1, StopTimersType
  <1> HIDE DEF c
  <1>3. /\ d \in Page /\ Alike(c, d) /\ d.ticking = c.ticking
        /\ d.transitioning = c.transitioning
    BY <1>2, CancelSearchType
  <1> HIDE DEF d
  <1>4. Alike(p, d) BY <1>1, <1>2, <1>3 DEF Alike
  <1>5. d \in Page /\ Alike(p, d) /\ ~d.ticking /\ d.transitioning = p.transitioning
    BY <1>1, <1>2, <1>3, <1>4
  <1> QED BY <1>5 DEF d, c, b

LEMMA FinishGameIsGood ==
  ASSUME NEW p \in Page, ~p.astray, p.status = "ended" => Good(p)
  PROVE  /\ Good(FinishGame(p)) /\ FinishGame(p).status = "ended"
         /\ p.status = "ended" => FinishGame(p) = p
  <1>1. CASE p.status = "ended" BY <1>1 DEF FinishGame
  <1>2. CASE p.status # "ended"
    <2> DEFINE a == [NoHistory(p) EXCEPT !.status = "ended", !.started = FALSE, !.elapsed = 0,
                                         !.inputPending = FALSE, !.transitioning = FALSE]
               d == CancelSearch(StopTimers(NewGeneration(a)))
    <2>1. FinishGame(p) = d BY <1>2 DEF FinishGame
    <2>2. NoHistory(p) \in Page /\ ~NoHistory(p).astray BY NoHistoryType
    <2> DEFINE h == NoHistory(p)
               ended == "ended"
               off == FALSE
               zero == 0
    <2> HIDE DEF h, ended, off, zero
    <2>0. /\ h \in Page /\ off \in BOOLEAN /\ zero \in Int
          /\ ended \in {"idle", "running", "paused", "ended"}
          /\ a = [h EXCEPT !.status = ended, !.started = off, !.elapsed = zero,
                           !.inputPending = off, !.transitioning = off]
      BY <2>2 DEF h, ended, off, zero
    <2> HIDE DEF a
    <2>3. a \in Page /\ a.status = "ended" /\ a.started = FALSE /\ a.elapsed = 0 /\ ~a.astray
      <3>1. a \in Page BY <2>0, ZenonT(60) DEF Page
      <3>2. a.status = ended /\ a.started = off /\ a.elapsed = zero /\ a.astray = h.astray
        BY <2>0 DEF Page
      <3> QED BY <2>2, <3>1, <3>2 DEF h, ended, off, zero
    <2>4. d \in Page /\ Alike(a, d) /\ ~d.ticking BY <2>3, HaltType
    <2> HIDE DEF d
    <2>5. d.status = "ended" /\ ~d.started /\ d.elapsed = 0 /\ ~d.astray
      BY <2>3, <2>4 DEF Alike
    <2> QED BY <1>2, <2>1, <2>4, <2>5, StillIsGood
  <1> QED BY <1>1, <1>2

LEMMA FlagOnTimeIsGood ==
  ASSUME NEW p \in Page, ~p.astray, p.status # "ended"
  PROVE  Good(FlagOnTime(p)) /\ FlagOnTime(p).status = "ended"
  <1> DEFINE k == [p.clocks EXCEPT ![p.side] = 0]
             q == [p EXCEPT !.clocks = k]
  <1>1. k \in [Side -> Int] BY DEF Page
  <1>2. FlagOnTime(p) = FinishGame(q) BY DEF FlagOnTime, Page
  <1> HIDE DEF k
  <1>3. q \in Page /\ ~q.astray /\ q.status # "ended" BY <1>1 DEF Page
  <1> HIDE DEF q
  <1> QED BY <1>2, <1>3, FinishGameIsGood

-----------------------------------------------------------------------------
(* The engine's timer, and the clock of the side to move.                    *)
LEMMA ScheduleIsGood ==
  ASSUME NEW p \in Page, Kept(p), ~p.astray, Tight(p) => NoneWaits(p)
  PROVE  /\ Good(ScheduleEngineTurn(p))
         /\ Alike(p, ScheduleEngineTurn(p))
         /\ ScheduleEngineTurn(p).turn = p.turn
         /\ ScheduleEngineTurn(p).transitioning = p.transitioning
  <1> DEFINE tm == IF p.status = "running" /\ p.players[p.side] = "engine" THEN "fresh" ELSE "none"
             q  == [p EXCEPT !.timer = tm]
  <1>2. ScheduleEngineTurn(p) = q BY DEF ScheduleEngineTurn
  <1>3. tm \in {"none", "fresh", "stale"} /\ (tm = "fresh" => EngineIsToMove(p))
    BY DEF EngineIsToMove
  <1> HIDE DEF tm
  <1>4. /\ q \in Page /\ Alike(p, q) /\ q.ticking = p.ticking /\ q.turn = p.turn
        /\ q.checks = p.checks /\ q.timer = tm /\ q.transitioning = p.transitioning
    BY <1>3 DEF Page, Alike
  <1> HIDE DEF q
  <1>5. Kept(q) /\ ~q.astray BY <1>4 DEF Kept, Active, Balance, Alike
  <1>6. Tight(q) => OneWaits(q)
    BY <1>3, <1>4 DEF Tight, OneWaits, NoneWaits, EngineIsToMove, Alike
  <1> QED BY <1>2, <1>4, <1>5, <1>6 DEF Good

LEMMA StartTurnIsGood ==
  ASSUME NEW p \in Page, p.status = "running", ~p.astray, NoneWaits(p), Balanced(p.clocks, p)
  PROVE  Good(StartTurn(p))
  <1> DEFINE a == [p EXCEPT !.started = TRUE, !.elapsed = 0]
             b == [a EXCEPT !.ticking = TRUE]
             c == StartClockTimer(a)
  <1>1. a \in Page
    <2> DEFINE on == TRUE
               zero == 0
    <2>1. a = [p EXCEPT !.started = on, !.elapsed = zero] /\ on \in BOOLEAN /\ zero \in Int
      OBVIOUS
    <2> HIDE DEF a, on, zero
    <2> QED BY <2>1 DEF Page
  <1>2. /\ a.status = "running" /\ a.astray = p.astray /\ a.turn = p.turn
        /\ a.checks = p.checks /\ a.started = TRUE /\ a.elapsed = 0 /\ a.clocks = p.clocks
        /\ a.used = p.used /\ a.made = p.made
    BY DEF Page
  <1>3. StartTurn(p) = ScheduleEngineTurn(c) BY DEF StartTurn
  <1>4. c = IF TimeIsUp(b) THEN FlagOnTime(b) ELSE b BY DEF StartClockTimer
  <1> HIDE DEF a, c
  <1>5. b \in Page BY <1>1 DEF Page
  <1>6. /\ b.status = "running" /\ b.astray = p.astray /\ b.turn = p.turn
        /\ b.checks = p.checks /\ b.started = TRUE /\ b.elapsed = 0 /\ b.clocks = p.clocks
        /\ b.used = p.used /\ b.made = p.made /\ b.ticking = TRUE
    BY <1>1, <1>2 DEF Page
  <1> HIDE DEF b
  <1>7. Kept(b)
    <2>1. b.clocks \in [Side -> Int] BY <1>5 DEF Page
    <2>2. \A s \in Side : b.clocks[s] - (IF s = b.side THEN b.elapsed ELSE 0) = b.clocks[s]
      BY <1>6, <2>1
    <2>3. Balance(b) BY <1>6, <2>2 DEF Balance, Balanced
    <2> QED BY <1>6, <2>3 DEF Kept
  <1>8. NoneWaits(b) BY <1>6 DEF NoneWaits
  <1>10. CASE TimeIsUp(b)
    <2>1. Good(c) /\ c.status = "ended" BY <1>4, <1>5, <1>6, <1>10, FlagOnTimeIsGood
    <2> QED BY <1>3, <2>1, ScheduleIsGood DEF Tight, Good
  <1>11. CASE ~TimeIsUp(b) BY <1>3, <1>4, <1>5, <1>6, <1>7, <1>8, <1>11, ScheduleIsGood
  <1> QED BY <1>10, <1>11

-----------------------------------------------------------------------------
(* A stone is put down.                                                      *)
Placed(p, x, same) ==
  NewPosition([ConsumeClock(p) EXCEPT !.board[x] = p.side,
                                      !.clocks[p.side] = @ + Increment,
                                      !.made[p.side] = @ + 1,
                                      !.astray = @ \/ ~(same \/ p.loose)])

LEMMA PlacedIs ==
  ASSUME NEW p, Good(p), p.status = "running", NEW x \in Point, NEW same \in BOOLEAN,
         ~p.loose => same /\ NoneWaits(p)
  PROVE  LET q == Placed(p, x, same) IN
         /\ q \in Page /\ q.status = "running" /\ ~q.astray /\ q.ticking /\ ~q.started
         /\ q.elapsed = 0 /\ q.loose = p.loose /\ (~p.loose => NoneWaits(q))
         /\ Balanced(q.clocks, q)
  <1> DEFINE c == ConsumeClock(p)
             b == [c.board EXCEPT ![x] = p.side]
             k == [c.clocks EXCEPT ![p.side] = @ + Increment]
             m == [c.made EXCEPT ![p.side] = @ + 1]
             a == c.astray \/ ~(same \/ p.loose)
             r == [c EXCEPT !.board = b, !.clocks = k, !.made = m, !.astray = a]
             q == Placed(p, x, same)
  <1>1. p \in Page /\ p.started /\ p.ticking /\ Balance(p) /\ ~p.astray
    BY DEF Good, Kept, Active
  <1>2. /\ c \in Page /\ ~c.started /\ c.elapsed = 0 /\ c.side = p.side /\ c.status = p.status
        /\ c.ticking = p.ticking /\ c.turn = p.turn /\ c.checks = p.checks /\ c.used = p.used
        /\ c.made = p.made /\ c.loose = p.loose /\ c.astray = p.astray
    BY <1>1, ConsumeClockType
  <1>3. Balanced(c.clocks, p) BY <1>1, ConsumeClockBalance
  <1>4. q = NewPosition(r) BY DEF Placed
  <1> HIDE DEF c
  <1>5. b \in [Point -> Side \union {"none"}] BY <1>1, <1>2 DEF Page
  <1>6. k \in [Side -> Int] BY <1>1, <1>2, ClockAssumption DEF Page
  <1>7. m \in [Side -> Int] BY <1>1, <1>2 DEF Page
  <1>8. a = FALSE BY <1>1, <1>2
  <1>9. \A s \in Side : k[s] + p.used[s] = Initial + Increment * m[s]
    <2> SUFFICES ASSUME NEW s \in Side PROVE k[s] + p.used[s] = Initial + Increment * m[s]
      OBVIOUS
    <2>1. c.clocks \in [Side -> Int] /\ c.made \in [Side -> Int] /\ p.used \in [Side -> Int]
      BY <1>1, <1>2 DEF Page
    <2>2. c.clocks[s] + p.used[s] = Initial + Increment * p.made[s] BY <1>3 DEF Balanced
    <2>3. CASE s # p.side BY <1>2, <2>1, <2>2, <2>3
    <2>4. CASE s = p.side
      <3>1. k[s] = c.clocks[s] + Increment /\ m[s] = p.made[s] + 1 BY <1>2, <2>1, <2>4
      <3>2. p.made[s] \in Int /\ Increment \in Int /\ Initial \in Int BY <1>2, <2>1, ClockAssumption
      <3>3. c.clocks[s] \in Int /\ p.used[s] \in Int BY <2>1
      <3>4. (c.clocks[s] + Increment) + p.used[s] = Initial + Increment * (p.made[s] + 1)
        <4> DEFINE y == c.clocks[s]
                   u == p.used[s]
                   n == p.made[s]
        <4>1. y \in Int /\ u \in Int /\ n \in Int /\ y + u = Initial + Increment * n
          BY <2>2, <3>2, <3>3
        <4> HIDE DEF y, u, n
        <4>2. (y + Increment) + u = Initial + Increment * (n + 1)
          BY <3>2, <4>1, IncrementBalance
        <4> QED BY <4>2 DEF y, u, n
      <3> QED BY <3>1, <3>4
    <2> QED BY <2>3, <2>4
  <1> HIDE DEF b, k, m, a
  <1>10. r \in Page
    <2>1. a \in BOOLEAN BY <1>8
    <2> QED BY <1>2, <1>5, <1>6, <1>7, <2>1 DEF Page
  <1>11. /\ r.status = c.status /\ r.astray = a /\ r.ticking = c.ticking /\ r.started = c.started
         /\ r.elapsed = c.elapsed /\ r.loose = c.loose /\ r.turn = c.turn /\ r.checks = c.checks
         /\ r.clocks = k /\ r.used = c.used /\ r.made = m
    BY <1>2 DEF Page
  <1> HIDE DEF r
  <1>12. ~p.loose => NoneWaits(r) BY <1>2, <1>11 DEF NoneWaits
  <1>13. q \in Page /\ Alike(r, q) /\ (NoneWaits(r) => NoneWaits(q)) /\ q.ticking = r.ticking
    BY <1>4, <1>10, NewPositionType
  <1> HIDE DEF q
  <1>14. Balanced(q.clocks, q) BY <1>2, <1>9, <1>11, <1>13 DEF Balanced, Alike
  <1>15. /\ q.status = "running" /\ ~q.astray /\ q.ticking /\ ~q.started
         /\ q.elapsed = 0 /\ q.loose = p.loose
    BY <1>1, <1>2, <1>8, <1>11, <1>13 DEF Alike
  <1>16. q \in Page /\ q.status = "running" /\ ~q.astray /\ q.ticking /\ ~q.started
         /\ q.elapsed = 0 /\ q.loose = p.loose /\ (~p.loose => NoneWaits(q))
         /\ Balanced(q.clocks, q)
    BY <1>12, <1>13, <1>14, <1>15
  <1> QED BY <1>16 DEF q

LEMMA CommitIsGood ==
  ASSUME NEW p, Good(p), NEW x \in Point, NEW hint, NEW same \in BOOLEAN,
         Tight(p) => same /\ NoneWaits(p)
  PROVE  /\ Good(CommitGameMove(p, x, hint, same))
         /\ p.status # "running" => CommitGameMove(p, x, hint, same) = p
  <1> DEFINE r == CommitGameMove(p, x, hint, same)
             c == ConsumeClock(p)
             q == Placed(p, x, same)
             f == [q EXCEPT !.side = Opposite(@), !.started = TRUE]
  <1>1. p \in Page /\ ~p.astray BY DEF Good
  <1>2. CASE p.status # "running" \/ x \notin Empty(p) BY <1>2 DEF CommitGameMove
  <1>3. CASE ~(p.status # "running" \/ x \notin Empty(p)) /\ LiveClock(p) = 0
    <2>1. r = FlagOnTime(c) BY <1>3 DEF CommitGameMove
    <2>2. c \in Page /\ ~c.astray /\ c.status # "ended" BY <1>1, <1>3, ConsumeClockType
    <2> QED BY <1>3, <2>1, <2>2, FlagOnTimeIsGood
  <1>4. CASE ~(p.status # "running" \/ x \notin Empty(p)) /\ LiveClock(p) # 0
    <2>1. r = FinishGame(q) \/ r = ScheduleEngineTurn(f)
      BY <1>4, Zenon DEF CommitGameMove, Placed
    <2>2. /\ q \in Page /\ q.status = "running" /\ ~q.astray /\ q.ticking /\ ~q.started
          /\ q.elapsed = 0 /\ q.loose = p.loose /\ (~p.loose => NoneWaits(q))
          /\ Balanced(q.clocks, q)
      BY <1>4, PlacedIs DEF Tight
    <2> HIDE DEF q
    <2>3. Good(FinishGame(q)) BY <2>2, FinishGameIsGood
    <2>4. f \in Page
      <3> DEFINE o == Opposite(q.side)
                 on == TRUE
      <3>1. o \in Side /\ on \in BOOLEAN /\ f = [q EXCEPT !.side = o, !.started = on]
        BY <2>2 DEF Opposite, Side, Page
      <3> HIDE DEF o, on, f
      <3> QED BY <2>2, <3>1 DEF Page
    <2>5. /\ f.status = "running" /\ f.astray = q.astray /\ f.ticking = q.ticking
          /\ f.started = TRUE /\ f.elapsed = 0 /\ f.loose = q.loose /\ f.turn = q.turn
          /\ f.checks = q.checks /\ f.clocks = q.clocks /\ f.used = q.used /\ f.made = q.made
      BY <2>2 DEF Page
    <2> HIDE DEF f
    <2>6. Kept(f)
      <3>1. f.clocks \in [Side -> Int] BY <2>4 DEF Page
      <3>2. \A s \in Side : f.clocks[s] - (IF s = f.side THEN f.elapsed ELSE 0) = f.clocks[s]
        BY <2>5, <3>1
      <3>3. Balance(f) BY <2>2, <2>5, <3>2 DEF Balance, Balanced
      <3> QED BY <2>2, <2>5, <3>3 DEF Kept
    <2>7. Tight(f) => NoneWaits(f) BY <2>2, <2>5 DEF Tight, NoneWaits
    <2>8. Good(ScheduleEngineTurn(f)) BY <2>2, <2>4, <2>5, <2>6, <2>7, ScheduleIsGood
    <2> QED BY <1>4, <2>1, <2>3, <2>8
  <1> QED BY <1>2, <1>3, <1>4

-----------------------------------------------------------------------------
(* Requests about a move.                                                    *)
LEMMA CheckType ==
  ASSUME NEW p, NEW by \in {"human", "engine"}, NEW s \in Side, NEW fresh \in BOOLEAN,
         NEW same \in BOOLEAN, NEW x \in Point, NEW left \in SUBSET Point
  PROVE  LET c == Check(by, s, fresh, same, x, left, p) IN
         c \in LegalityCheck /\ c.by = by /\ c.fresh = fresh /\ c.same = same
  <1>1. WinningPlacement(p, x, s) \in BOOLEAN BY DEF WinningPlacement, HasLineAt
  <1> QED BY <1>1 DEF Check, LegalityCheck

(* The game is otherwise as it was.                                          *)
LEMMA GoodIfAlike ==
  ASSUME NEW p, Good(p), NEW q \in Page, Alike(p, q), q.ticking = p.ticking, q.timer = p.timer,
         q.turn = p.turn, q.checks = p.checks
  PROVE  Good(q)
  <1>1. Kept(q) BY DEF Good, Kept, Active, Balance, Alike
  <1>2. Tight(q) => OneWaits(q) BY DEF Good, Tight, OneWaits, EngineIsToMove, Alike
  <1> QED BY <1>1, <1>2 DEF Good, Alike

LEMMA AskIsGood ==
  ASSUME NEW p, Good(p), Tight(p) => NoneWaits(p) /\ p.timer # "fresh",
         NEW c \in LegalityCheck,
         Tight(p) /\ c.fresh => c.same /\ (c.by = "human" <=> ~EngineIsToMove(p)),
         NEW pending \in BOOLEAN, c.by = "human" => pending
  PROVE  Good([p EXCEPT !.checks = @ \union {c}, !.inputPending = pending])
  <1> DEFINE q == [p EXCEPT !.checks = @ \union {c}, !.inputPending = pending]
  <1>1. p \in Page BY DEF Good
  <1>2. q \in Page BY <1>1 DEF Page
  <1>3. /\ q.checks = p.checks \union {c} /\ q.inputPending = pending /\ q.turn = p.turn
        /\ q.timer = p.timer /\ q.side = p.side /\ q.players = p.players /\ q.loose = p.loose
        /\ q.status = p.status /\ q.astray = p.astray /\ q.started = p.started
        /\ q.ticking = p.ticking /\ q.elapsed = p.elapsed /\ q.clocks = p.clocks
        /\ q.used = p.used /\ q.made = p.made
    BY <1>1 DEF Page
  <1> HIDE DEF q
  <1>4. Kept(q) BY <1>3 DEF Good, Kept, Active, Balance
  <1>5. Tight(q) => OneWaits(q)
    <2> SUFFICES ASSUME Tight(q) PROVE OneWaits(q) OBVIOUS
    <2>1. Tight(p) /\ NoneWaits(p) /\ p.timer # "fresh" BY <1>3 DEF Tight
    <2>2. \A d \in q.checks : d.fresh => d = c BY <1>3, <2>1 DEF NoneWaits
    <2>3. c.by \in {"human", "engine"} BY DEF LegalityCheck
    <2> QED BY <1>3, <2>1, <2>2, <2>3 DEF OneWaits, NoneWaits, EngineIsToMove
  <1>6. Good(q) BY <1>2, <1>3, <1>4, <1>5 DEF Good
  <1> QED BY <1>6 DEF q

LEMMA TryIsGood ==
  ASSUME NEW p, Good(p), NEW t, t.fresh \in BOOLEAN, t.same \in BOOLEAN, t.side \in Side,
         NEW left \in SUBSET Point,
         Tight(p) /\ t.fresh => /\ t.same /\ NoneWaits(p) /\ p.timer # "fresh"
                                /\ EngineIsToMove(p),
         NEW q \in TryChoices(p, t, left)
  PROVE  Good(q) /\ (p.status = "ended" => q = p)
  <1> DEFINE free == left \intersect Empty(p)
  <1>1. p \in Page /\ ~p.astray BY DEF Good
  <1>2. Good(FinishGame(p)) /\ (p.status = "ended" => FinishGame(p) = p)
    BY <1>1, FinishGameIsGood
  <1>3. CASE q = p \/ q = FinishGame(p) BY <1>2, <1>3
  <1>4. CASE ~(q = p \/ q = FinishGame(p))
    <2>1. /\ t.fresh /\ p.status = "running"
          /\ \E x \in free :
               q = IF MustAsk(t.side)
                   THEN [p EXCEPT !.checks = @ \union
                           {Check("engine", t.side, t.fresh, t.same, x, left \ {x}, p)}]
                   ELSE CommitGameMove(p, x, WinningPlacement(p, x, t.side), t.same)
      BY <1>4 DEF TryChoices
    <2>2. PICK x \in free :
            q = IF MustAsk(t.side)
                THEN [p EXCEPT !.checks = @ \union
                        {Check("engine", t.side, t.fresh, t.same, x, left \ {x}, p)}]
                ELSE CommitGameMove(p, x, WinningPlacement(p, x, t.side), t.same)
      BY <2>1
    <2>3. x \in Point BY DEF Empty
    <2>4. CASE ~MustAsk(t.side)
      <3>1. Good(CommitGameMove(p, x, WinningPlacement(p, x, t.side), t.same))
        BY <2>1, <2>3, CommitIsGood
      <3> QED BY <2>1, <2>2, <2>4, <3>1
    <2>5. CASE MustAsk(t.side)
      <3> DEFINE c == Check("engine", t.side, t.fresh, t.same, x, left \ {x}, p)
                 pending == p.inputPending
      <3>1. c \in LegalityCheck /\ c.by = "engine" /\ c.fresh = t.fresh /\ c.same = t.same
        BY <2>3, CheckType
      <3>2. q = [p EXCEPT !.checks = @ \union {c}] BY <2>2, <2>5
      <3> HIDE DEF c
      <3>3. [p EXCEPT !.checks = @ \union {c}]
              = [p EXCEPT !.checks = @ \union {c}, !.inputPending = pending]
        BY <1>1 DEF Page
      <3>4. pending \in BOOLEAN BY <1>1 DEF Page
      <3> HIDE DEF pending
      <3>5. Good([p EXCEPT !.checks = @ \union {c}, !.inputPending = pending])
        BY <2>1, <3>1, <3>4, AskIsGood
      <3> QED BY <2>1, <3>2, <3>3, <3>5
    <2> QED BY <2>4, <2>5
  <1> QED BY <1>3, <1>4

-----------------------------------------------------------------------------
(* The steps of the engine's turn.                                           *)
LEMMA PartedStays ==
  ASSUME IInv, leave' = leave,
         leave.at = "stopping" =>
           /\ page'.status = page.status /\ page'.transitioning = page.transitioning
           /\ page'.turn.at = page.turn.at /\ page'.used = page.used /\ page'.made = page.made
  PROVE  Parted(page', leave')
  BY DEF IInv, Parted, AwaitsStop, Balanced

(* A change of mode that waits allows nothing but this.                      *)
LEMMA Parting ==
  ASSUME IInv, leave.at = "stopping"
  PROVE  page.status = "ended" /\ page.transitioning /\ page.turn.at \in {"stop", "errorStop"}
  BY DEF IInv, Parted, AwaitsStop

LEMMA LeaveStays ==
  ASSUME IInv, UNCHANGED leave, Good(page'), Parted(page', leave')
  PROVE  IInv'
  <1>1. leave' \in Leave BY DEF IInv
  <1> QED BY <1>1 DEF IInv

LEMMA TurnOverIsGood ==
  ASSUME NEW p, Good(p)
  PROVE  /\ Good(TurnOver(p)) /\ Alike(p, TurnOver(p))
         /\ TurnOver(p).transitioning = p.transitioning /\ TurnOver(p).ticking = p.ticking
         /\ Tight(TurnOver(p)) /\ p.turn.fresh =>
               /\ p.turn.same /\ NoneWaits(TurnOver(p)) /\ TurnOver(p).timer # "fresh"
               /\ EngineIsToMove(TurnOver(p))
  <1> DEFINE q == TurnOver(p)
  <1>1. p \in Page BY DEF Good
  <1>2. NoTurn \in Turn /\ ~NoTurn.fresh BY DEF NoTurn, Turn, Side
  <1>3. /\ q \in Page /\ Alike(p, q) /\ q.transitioning = p.transitioning
        /\ q.ticking = p.ticking /\ q.timer = p.timer /\ q.checks = p.checks /\ q.turn = NoTurn
    BY <1>1, <1>2 DEF TurnOver, Page, Alike
  <1> HIDE DEF q
  <1>4. Kept(q) /\ ~q.astray BY <1>3 DEF Good, Kept, Active, Balance, Alike
  <1>5. Tight(q) => OneWaits(q)
    BY <1>2, <1>3 DEF Good, Tight, OneWaits, EngineIsToMove, Alike
  <1>6. Tight(q) /\ p.turn.fresh =>
          p.turn.same /\ NoneWaits(q) /\ q.timer # "fresh" /\ EngineIsToMove(q)
    <2> SUFFICES ASSUME Tight(q), p.turn.fresh
                 PROVE  p.turn.same /\ NoneWaits(q) /\ q.timer # "fresh" /\ EngineIsToMove(q)
      OBVIOUS
    <2>1. OneWaits(p) BY <1>3 DEF Good, Tight, Alike
    <2>2. \A c \in p.checks : c.by \in {"human", "engine"} BY <1>1 DEF Page, LegalityCheck
    <2> QED BY <1>2, <1>3, <2>1, <2>2 DEF OneWaits, NoneWaits, EngineIsToMove, Alike
  <1>7. /\ Good(q) /\ Alike(p, q) /\ q.transitioning = p.transitioning /\ q.ticking = p.ticking
        /\ Tight(q) /\ p.turn.fresh =>
              p.turn.same /\ NoneWaits(q) /\ q.timer # "fresh" /\ EngineIsToMove(q)
    BY <1>3, <1>4, <1>5, <1>6 DEF Good
  <1> QED BY <1>7 DEF q

LEMMA TurnFailsIsGood ==
  ASSUME NEW p, Good(p), NEW t
  PROVE  Good(TurnFails(p, t)) /\ (p.status = "ended" => TurnFails(p, t) = p)
  <1>1. Good(FinishGame(p)) BY FinishGameIsGood DEF Good
  <1> QED BY <1>1 DEF TurnFails

LEMMA EngineTimerKeeps ==
  ASSUME IInv, EngineTimer
  PROVE  IInv'
  <1> DEFINE p == [page EXCEPT !.timer = "none"]
             t == [at |-> "start", side |-> p.side, fresh |-> TRUE, same |-> TRUE]
             q == [p EXCEPT !.turn = t]
  <1>1. page \in Page /\ Good(page) BY DEF IInv, Good
  <1>2. /\ p \in Page /\ Alike(page, p) /\ p.timer = "none" /\ p.turn = page.turn
        /\ p.checks = page.checks /\ p.ticking = page.ticking
        /\ p.transitioning = page.transitioning
    BY <1>1 DEF Page, Alike
  <1>3. /\ page.timer # "none"
        /\ page' = IF page.timer = "stale" \/ p.status # "running" \/ p.players[p.side] # "engine"
                   THEN p
                   ELSE IF p.turn.at # "none" THEN ScheduleEngineTurn(p)
                   ELSE IF LiveClock(p) = 0 THEN FlagOnTime(p) ELSE q
        /\ leave' = leave
    BY DEF EngineTimer
  <1> HIDE DEF p
  <1>4. Good(p)
    <2>1. Kept(p) BY <1>1, <1>2 DEF Good, Kept, Active, Balance, Alike
    <2>2. Tight(p) => OneWaits(p)
      BY <1>1, <1>2 DEF Good, Tight, OneWaits, EngineIsToMove, Alike
    <2> QED BY <1>1, <1>2, <2>1, <2>2 DEF Good, Alike
  <1>5. CASE page' = p
    <2>1. Parted(page', leave') BY <1>2, <1>3, <1>5, PartedStays DEF Alike
    <2> QED BY <1>3, <1>4, <1>5, <2>1, LeaveStays
  <1>6. CASE page.timer = "fresh" /\ p.status = "running" /\ p.players[p.side] = "engine"
    <2>1. leave.at # "stopping" BY <1>2, <1>6, Parting DEF Alike
    <2>2. Parted(page', leave') BY <1>3, <2>1, PartedStays
    <2>3. Tight(p) => NoneWaits(p)
      <3> SUFFICES ASSUME Tight(p) PROVE NoneWaits(p) OBVIOUS
      <3>1. OneWaits(page) BY <1>1, <1>2 DEF Good, Tight, Alike
      <3>2. \A c \in page.checks : c.by \in {"human", "engine"} BY <1>1 DEF Page, LegalityCheck
      <3> QED BY <1>2, <1>6, <3>1, <3>2 DEF OneWaits, NoneWaits, EngineIsToMove
    <2>4. Good(ScheduleEngineTurn(p)) BY <1>2, <1>4, <2>3, ScheduleIsGood DEF Good
    <2>5. Good(FlagOnTime(p)) BY <1>4, <1>6, FlagOnTimeIsGood DEF Good
    <2>6. Good(q)
      <3>1. t \in Turn /\ t.same BY <1>2 DEF Turn, Page
      <3> HIDE DEF t
      <3>2. /\ q \in Page /\ Alike(p, q) /\ q.timer = p.timer /\ q.checks = p.checks
            /\ q.ticking = p.ticking /\ q.turn = t
        BY <1>2, <3>1 DEF Page, Alike
      <3> HIDE DEF q
      <3>3. Kept(q) BY <1>4, <3>2 DEF Good, Kept, Active, Balance, Alike
      <3>4. Tight(q) => OneWaits(q)
        BY <1>2, <1>6, <2>3, <3>1, <3>2 DEF Tight, OneWaits, NoneWaits, EngineIsToMove, Alike
      <3> QED BY <1>4, <3>2, <3>3, <3>4 DEF Good, Alike
    <2>7. Good(page') BY <1>3, <1>4, <2>4, <2>5, <2>6
    <2> QED BY <1>3, <2>2, <2>7, LeaveStays
  <1>7. page.timer \in {"none", "fresh", "stale"} BY <1>1 DEF Page
  <1> QED BY <1>3, <1>5, <1>6, <1>7

(* The search goes on, or is about to be stopped.                            *)
LEMMA TurnAtIsGood ==
  ASSUME NEW p, Good(p), NEW a \in {"none", "start", "startStop", "work", "stop", "errorStop"}
  PROVE  Good([p EXCEPT !.turn.at = a])
  <1> DEFINE t == [p.turn EXCEPT !.at = a]
             q == [p EXCEPT !.turn = t]
  <1>1. p \in Page BY DEF Good
  <1>2. t \in Turn /\ t.fresh = p.turn.fresh /\ t.same = p.turn.same BY <1>1 DEF Page, Turn
  <1>3. [p EXCEPT !.turn.at = a] = q BY <1>1 DEF Page
  <1> HIDE DEF t
  <1>4. /\ q \in Page /\ Alike(p, q) /\ q.timer = p.timer /\ q.checks = p.checks
        /\ q.ticking = p.ticking /\ q.turn = t
    BY <1>1, <1>2 DEF Page, Alike
  <1> HIDE DEF q
  <1>5. Kept(q) BY <1>4 DEF Good, Kept, Active, Balance, Alike
  <1>6. Tight(q) => OneWaits(q)
    BY <1>2, <1>4 DEF Good, Tight, OneWaits, NoneWaits, EngineIsToMove, Alike
  <1> QED BY <1>3, <1>4, <1>5, <1>6 DEF Good, Alike

LEMMA SearchKeeps ==
  ASSUME IInv, SearchStarts \/ SearchEnds \/ PollFails
  PROVE  IInv'
  <1> DEFINE over == TurnOver(page)
             t == page.turn
  <1>1. page \in Page /\ Good(page) BY DEF IInv, Good
  <1>2. leave' = leave /\ leave.at # "stopping"
    BY Parting DEF SearchStarts, SearchEnds, PollFails
  <1>3. Parted(page', leave') BY <1>2, PartedStays
  <1>4. /\ Good(over)
        /\ Tight(over) /\ t.fresh =>
             t.same /\ NoneWaits(over) /\ over.timer # "fresh" /\ EngineIsToMove(over)
    BY <1>1, TurnOverIsGood
  <1>5. t.fresh \in BOOLEAN /\ t.same \in BOOLEAN /\ t.side \in Side BY <1>1 DEF Page, Turn
  <1>6. CASE SearchStarts
    <2>1. \/ page' = TurnFails(over, t)
          \/ \E a \in {"work", "stop"} : page' = [page EXCEPT !.turn.at = a]
      BY <1>6 DEF SearchStarts
    <2>2. Good(TurnFails(over, t)) BY <1>4, TurnFailsIsGood
    <2>3. \A a \in {"work", "stop"} : Good([page EXCEPT !.turn.at = a]) BY <1>1, TurnAtIsGood
    <2>4. Good(page') BY <2>1, <2>2, <2>3
    <2> QED BY <1>2, <1>3, <2>4, LeaveStays
  <1>7. CASE SearchEnds
    <2>1. CASE page' = over \/ page' = FinishGame(over)
      <3>1. Good(FinishGame(over)) BY <1>4, FinishGameIsGood DEF Good
      <3>2. Good(page') BY <1>4, <2>1, <3>1
      <3> QED BY <1>2, <1>3, <3>2, LeaveStays
    <2>2. CASE ~(page' = over \/ page' = FinishGame(over))
      <3>1. page' \in UNION {TryChoices(over, t, left) :
                             left \in SUBSET (IF t.same THEN Empty(over) ELSE Point)}
        BY <1>7, <2>2 DEF SearchEnds, TurnWithResult, TurnWithoutResult
      <3>2. PICK left \in SUBSET (IF t.same THEN Empty(over) ELSE Point) :
              page' \in TryChoices(over, t, left)
        BY <3>1
      <3>3. left \in SUBSET Point BY DEF Empty
      <3> HIDE DEF over, t
      <3>4. Good(page') BY <1>4, <1>5, <3>2, <3>3, TryIsGood
      <3> QED BY <1>2, <1>3, <3>4, LeaveStays
    <2> QED BY <2>1, <2>2
  <1>8. CASE PollFails
    <2>1. page' = [page EXCEPT !.turn.at = "errorStop"] BY <1>8 DEF PollFails
    <2>2. Good(page') BY <1>1, <2>1, TurnAtIsGood
    <2> QED BY <1>2, <1>3, <2>2, LeaveStays
  <1> QED BY <1>6, <1>7, <1>8

-----------------------------------------------------------------------------
(* Pausing and leaving.                                                      *)
LEMMA PausedIsGood ==
  ASSUME NEW p \in Page, p.status = "paused", ~p.started, ~p.ticking, p.elapsed = 0, ~p.astray,
         Balanced(p.clocks, p)
  PROVE  Good(p)
  <1>1. p.clocks \in [Side -> Int] BY DEF Page
  <1>2. \A s \in Side : p.clocks[s] - (IF s = p.side THEN p.elapsed ELSE 0) = p.clocks[s] BY <1>1
  <1>3. Balance(p) BY <1>2 DEF Balance, Balanced
  <1> QED BY <1>3 DEF Good, Kept, Tight

LEMMA RestoreIsGood ==
  ASSUME NEW p, Good(p), leave \in Leave, leave.status \in {"running", "paused"},
         Balanced(leave.clocks, p), NEW resume \in BOOLEAN
  PROVE  Good(RestoreGame(p, resume))
  <1> DEFINE st == IF leave.status = "running" /\ ~resume THEN "paused" ELSE leave.status
             k  == leave.clocks
             a  == [p EXCEPT !.status = st, !.clocks = k, !.inputPending = FALSE,
                             !.transitioning = FALSE, !.started = FALSE, !.elapsed = 0]
             q  == NewGeneration(a)
             r  == [q EXCEPT !.ticking = FALSE]
  <1>1. RestoreGame(p, resume) = IF st = "running" THEN StartTurn(q) ELSE r
    BY DEF RestoreGame
  <1>2. p \in Page /\ ~p.astray BY DEF Good
  <1>3. st \in {"running", "paused"} /\ k \in [Side -> Int] BY DEF Leave
  <1>4. Balanced(k, p) OBVIOUS
  <1> HIDE DEF st, k
  <1>5. a \in Page
    <2> DEFINE off == FALSE
               zero == 0
    <2>1. /\ a = [p EXCEPT !.status = st, !.clocks = k, !.inputPending = off,
                           !.transitioning = off, !.started = off, !.elapsed = zero]
          /\ off \in BOOLEAN /\ zero \in Int
      OBVIOUS
    <2>2. st \in {"idle", "running", "paused", "ended"} BY <1>3
    <2> HIDE DEF a, off, zero
    <2> QED BY <1>2, <1>3, <2>1, <2>2 DEF Page
  <1>6. /\ a.status = st /\ a.clocks = k /\ a.started = FALSE /\ a.elapsed = 0
        /\ a.used = p.used /\ a.made = p.made /\ a.astray = p.astray
    BY <1>2 DEF Page
  <1> HIDE DEF a
  <1>7. q \in Page /\ Alike(a, q) /\ NoneWaits(q) BY <1>5, NewGenerationType
  <1> HIDE DEF q
  <1>8. Balanced(q.clocks, q) /\ q.status = st /\ ~q.astray /\ ~q.started /\ q.elapsed = 0
    BY <1>2, <1>4, <1>6, <1>7 DEF Balanced, Alike
  <1>9. CASE st = "running" BY <1>1, <1>7, <1>8, <1>9, StartTurnIsGood
  <1>10. CASE st = "paused"
    <2>1. r \in Page BY <1>7 DEF Page
    <2>2. /\ r.status = q.status /\ r.started = q.started /\ r.elapsed = q.elapsed
          /\ r.astray = q.astray /\ r.clocks = q.clocks /\ r.used = q.used /\ r.made = q.made
          /\ r.ticking = FALSE
      BY <1>7 DEF Page
    <2> HIDE DEF r
    <2>3. Balanced(r.clocks, r) BY <1>8, <2>2 DEF Balanced
    <2>4. Good(r) BY <1>8, <1>10, <2>1, <2>2, <2>3, PausedIsGood
    <2> QED BY <1>1, <1>10, <2>4
  <1> QED BY <1>3, <1>9, <1>10

LEMMA TransitioningIsGood ==
  ASSUME NEW p, Good(p), NEW v \in BOOLEAN
  PROVE  Good([p EXCEPT !.transitioning = v])
  <1> DEFINE q == [p EXCEPT !.transitioning = v]
  <1>1. p \in Page BY DEF Good
  <1>2. /\ q \in Page /\ Alike(p, q) /\ q.ticking = p.ticking /\ q.timer = p.timer
        /\ q.turn = p.turn /\ q.checks = p.checks
    BY <1>1 DEF Page, Alike
  <1> QED BY <1>2, GoodIfAlike

(* The game is over, and nothing more is asked of its history.               *)
LEMMA ClosedIsGood ==
  ASSUME NEW p \in Page, p.status = "ended", ~p.started, ~p.ticking, p.elapsed = 0, ~p.astray,
         NEW v \in BOOLEAN
  PROVE  Good([NoHistory(p) EXCEPT !.transitioning = v])
  <1> DEFINE h == NoHistory(p)
             q == [h EXCEPT !.transitioning = v]
  <1>1. /\ h \in Page /\ h.status = p.status /\ h.started = p.started /\ h.ticking = p.ticking
        /\ h.elapsed = p.elapsed /\ h.astray = p.astray
    BY NoHistoryType
  <1> HIDE DEF h
  <1>2. /\ q \in Page /\ q.status = h.status /\ q.started = h.started /\ q.ticking = h.ticking
        /\ q.elapsed = h.elapsed /\ q.astray = h.astray
    BY <1>1 DEF Page
  <1> HIDE DEF q
  <1>3. Good(q) BY <1>1, <1>2, StillIsGood
  <1> QED BY <1>3 DEF q, h

LEMMA NoLeaveType == NoLeave \in Leave /\ NoLeave.at = "none"
  <1>1. BothSides(Initial) \in [Side -> Int] BY BothSidesType, ClockAssumption
  <1> QED BY <1>1 DEF NoLeave, Leave

LEMMA StopSettlesKeeps ==
  ASSUME IInv, NEW ok \in BOOLEAN, StopSettles(ok)
  PROVE  IInv'
  <1> DEFINE t == page.turn
             over == TurnOver(page)
             p == IF ok /\ t.at = "stop" THEN over ELSE TurnFails(over, t)
  <1>1. page \in Page /\ Good(page) BY DEF IInv, Good
  <1>2. /\ page' = IF leave.at = "none" \/ (ok /\ leave.wanted)
                   THEN [(IF leave.at = "none" THEN p ELSE NoHistory(p)) EXCEPT
                           !.transitioning = FALSE]
                   ELSE RestoreGame(p, ok)
        /\ leave' = NoLeave
    BY DEF StopSettles
  <1>3. Good(over) /\ Alike(page, over) BY <1>1, TurnOverIsGood
  <1>4. Good(p) /\ (over.status = "ended" => p = over) BY <1>3, TurnFailsIsGood
  <1> HIDE DEF over, p
  <1>5. CASE leave.at = "none"
    <2>1. Good([p EXCEPT !.transitioning = FALSE]) BY <1>4, TransitioningIsGood
    <2> QED BY <1>2, <1>5, <2>1, NoLeaveType DEF IInv, Parted
  <1>6. CASE leave.at = "stopping"
    <2>1. /\ p.status = "ended" /\ p = over /\ leave.status \in {"running", "paused"}
          /\ Balanced(leave.clocks, p)
      BY <1>3, <1>4, <1>6 DEF IInv, Parted, Alike, Balanced
    <2>2. Good([NoHistory(p) EXCEPT !.transitioning = FALSE])
      BY <1>4, <2>1, ClosedIsGood DEF Good, Kept
    <2>3. Good(RestoreGame(p, ok)) BY <1>4, <2>1, RestoreIsGood DEF IInv
    <2>4. Good(page') BY <1>2, <1>6, <2>2, <2>3
    <2> QED BY <1>2, <2>4, NoLeaveType DEF IInv, Parted
  <1>7. leave.at \in {"none", "stopping"} BY DEF IInv, Leave
  <1> QED BY <1>5, <1>6, <1>7

LEMMA LeaveGameKeeps ==
  ASSUME IInv, LeaveGame
  PROVE  IInv'
  <1> DEFINE c == ConsumeClock(page)
             a == [c EXCEPT !.status = "ended", !.inputPending = FALSE]
             p == CancelSearch(StopTimers(NewGeneration(a)))
             w == [p EXCEPT !.transitioning = TRUE]
             l == [at |-> "stopping", wanted |-> TRUE, status |-> page.status, clocks |-> p.clocks]
  <1>1. /\ page \in Page /\ Balance(page) /\ ~page.astray /\ (~page.started => page.elapsed = 0)
        /\ page.status \in {"running", "paused"}
    BY DEF IInv, Good, Kept, LeaveGame, Active
  <1>2. /\ page' = IF AwaitsStop(p) THEN w ELSE [NoHistory(p) EXCEPT !.transitioning = FALSE]
        /\ leave' = IF AwaitsStop(p) THEN l ELSE NoLeave
    BY DEF LeaveGame
  <1>3. /\ c \in Page /\ ~c.started /\ c.elapsed = 0 /\ c.used = page.used /\ c.made = page.made
        /\ c.astray = page.astray
    BY <1>1, ConsumeClockType
  <1>4. Balanced(c.clocks, page) BY <1>1, ConsumeClockBalance
  <1> HIDE DEF c
  <1>5. a \in Page
    <2> DEFINE ended == "ended"
               off == FALSE
    <2>1. /\ a = [c EXCEPT !.status = ended, !.inputPending = off]
          /\ ended \in {"idle", "running", "paused", "ended"} /\ off \in BOOLEAN
      OBVIOUS
    <2> HIDE DEF a, ended, off
    <2> QED BY <1>3, <2>1 DEF Page
  <1>6. /\ a.status = "ended" /\ a.started = c.started /\ a.elapsed = c.elapsed
        /\ a.astray = c.astray /\ a.clocks = c.clocks /\ a.used = c.used /\ a.made = c.made
    BY <1>3 DEF Page
  <1> HIDE DEF a
  <1>7. p \in Page /\ Alike(a, p) /\ ~p.ticking BY <1>5, HaltType
  <1> HIDE DEF p
  <1>8. /\ p.status = "ended" /\ ~p.started /\ p.elapsed = 0 /\ ~p.astray
        /\ Balanced(p.clocks, p)
    BY <1>1, <1>3, <1>4, <1>6, <1>7 DEF Alike, Balanced
  <1>9. Good(p) BY <1>7, <1>8, StillIsGood
  <1>10. CASE AwaitsStop(p)
    <2>1. Good(w) BY <1>9, TransitioningIsGood
    <2>2. /\ w.status = p.status /\ w.transitioning = TRUE /\ w.turn = p.turn /\ w.used = p.used
          /\ w.made = p.made
      BY <1>7 DEF Page
    <2>3. p.clocks \in [Side -> Int] BY <1>7 DEF Page
    <2>4. l \in Leave BY <1>1, <2>3 DEF Leave
    <2>5. Parted(w, l) BY <1>1, <1>8, <1>10, <2>2 DEF Parted, AwaitsStop, Balanced
    <2> HIDE DEF w, l
    <2> QED BY <1>2, <1>10, <2>1, <2>4, <2>5 DEF IInv
  <1>11. CASE ~AwaitsStop(p)
    <2>1. Good([NoHistory(p) EXCEPT !.transitioning = FALSE]) BY <1>7, <1>8, ClosedIsGood
    <2> QED BY <1>2, <1>11, <2>1, NoLeaveType DEF IInv, Parted
  <1> QED BY <1>10, <1>11

LEMMA ChangeMindKeeps ==
  ASSUME IInv, ChangeMind
  PROVE  IInv'
  <1>1. leave \in Leave /\ leave' = [leave EXCEPT !.wanted = FALSE] /\ page' = page
    BY DEF IInv, ChangeMind
  <1>2. /\ leave' \in Leave /\ leave'.at = leave.at /\ leave'.status = leave.status
        /\ leave'.clocks = leave.clocks
    BY <1>1 DEF Leave
  <1> QED BY <1>1, <1>2 DEF IInv, Parted

-----------------------------------------------------------------------------
(* The user.                                                                 *)
LEMMA StartGameKeeps ==
  ASSUME IInv, StartGame
  PROVE  IInv'
  <1> DEFINE h == NoHistory(page)
             k == BothSides(Initial)
             a == [h EXCEPT !.status = "running", !.inputPending = FALSE, !.transitioning = FALSE,
                            !.started = TRUE, !.elapsed = 0, !.clocks = k]
             p == NewGeneration(a)
  <1>1. page \in Page /\ ~page.astray BY DEF IInv, Good
  <1>2. /\ leave' = leave /\ leave.at # "stopping"
        /\ page' = FinishGame(p) \/ page' = StartTurn(p)
    BY Parting DEF StartGame
  <1>3. Parted(page', leave') BY <1>2, PartedStays
  <1>4. /\ h \in Page /\ h.astray = page.astray /\ h.used = BothSides(0)
        /\ h.made = BothSides(0)
    BY <1>1, NoHistoryType
  <1>5. k \in [Side -> Int] BY BothSidesType, ClockAssumption
  <1>6. \A s \in Side : k[s] + BothSides(0)[s] = Initial + Increment * BothSides(0)[s]
    BY ClockAssumption DEF BothSides
  <1> HIDE DEF h, k
  <1>7. a \in Page
    <2> DEFINE st == "running"
               off == FALSE
               on == TRUE
               zero == 0
    <2>1. /\ a = [h EXCEPT !.status = st, !.inputPending = off, !.transitioning = off,
                           !.started = on, !.elapsed = zero, !.clocks = k]
          /\ st \in {"idle", "running", "paused", "ended"} /\ off \in BOOLEAN /\ on \in BOOLEAN
          /\ zero \in Int
      OBVIOUS
    <2> HIDE DEF a, st, off, on, zero
    <2> QED BY <1>4, <1>5, <2>1, ZenonT(60) DEF Page
  <1>8. /\ a.status = "running" /\ a.clocks = k /\ a.astray = h.astray /\ a.used = h.used
        /\ a.made = h.made
    BY <1>4 DEF Page
  <1> HIDE DEF a
  <1>9. p \in Page /\ Alike(a, p) /\ NoneWaits(p) BY <1>7, NewGenerationType
  <1> HIDE DEF p
  <1>10. p.status = "running" /\ ~p.astray /\ Balanced(p.clocks, p)
    BY <1>1, <1>4, <1>6, <1>8, <1>9 DEF Alike, Balanced
  <1>11. Good(FinishGame(p)) BY <1>9, <1>10, FinishGameIsGood
  <1>12. Good(StartTurn(p)) BY <1>9, <1>10, StartTurnIsGood
  <1>13. Good(page') BY <1>2, <1>11, <1>12
  <1> QED BY <1>2, <1>3, <1>13, LeaveStays

LEMMA PauseGameKeeps ==
  ASSUME IInv, PauseGame
  PROVE  IInv'
  <1> DEFINE p == ConsumeClock(page)
             a == [p EXCEPT !.status = "paused"]
             q == CancelSearch(StopTimers(NewGeneration(a)))
             v == AwaitsStop(q)
  <1>1. /\ page \in Page /\ Balance(page) /\ ~page.astray /\ (~page.started => page.elapsed = 0)
        /\ page.status = "running"
    BY DEF IInv, Good, Kept, PauseGame, Active
  <1>2. /\ leave' = leave /\ leave.at # "stopping"
        /\ page' = FlagOnTime(p) \/ page' = [q EXCEPT !.transitioning = v]
    BY Parting DEF PauseGame
  <1>3. Parted(page', leave') BY <1>2, PartedStays
  <1>4. /\ p \in Page /\ ~p.started /\ p.elapsed = 0 /\ p.used = page.used /\ p.made = page.made
        /\ p.astray = page.astray /\ p.status = page.status
    BY <1>1, ConsumeClockType
  <1>5. Balanced(p.clocks, page) BY <1>1, ConsumeClockBalance
  <1> HIDE DEF p
  <1>6. Good(FlagOnTime(p)) BY <1>1, <1>4, FlagOnTimeIsGood
  <1>7. a \in Page
    <2> DEFINE st == "paused"
    <2>1. a = [p EXCEPT !.status = st] /\ st \in {"idle", "running", "paused", "ended"} OBVIOUS
    <2> HIDE DEF a, st
    <2> QED BY <1>4, <2>1 DEF Page
  <1>8. /\ a.status = "paused" /\ a.started = p.started /\ a.elapsed = p.elapsed
        /\ a.astray = p.astray /\ a.clocks = p.clocks /\ a.used = p.used /\ a.made = p.made
    BY <1>4 DEF Page
  <1> HIDE DEF a
  <1>9. q \in Page /\ Alike(a, q) /\ ~q.ticking BY <1>7, HaltType
  <1>10. v \in BOOLEAN BY DEF AwaitsStop
  <1> HIDE DEF q, v
  <1>11. /\ q.status = "paused" /\ ~q.started /\ q.elapsed = 0 /\ ~q.astray
         /\ Balanced(q.clocks, q)
    BY <1>1, <1>4, <1>5, <1>8, <1>9 DEF Alike, Balanced
  <1>12. Good(q) BY <1>9, <1>11, PausedIsGood
  <1>13. Good([q EXCEPT !.transitioning = v]) BY <1>10, <1>12, TransitioningIsGood
  <1>14. Good(page') BY <1>2, <1>6, <1>13
  <1> QED BY <1>2, <1>3, <1>14, LeaveStays

LEMMA ResumeGameKeeps ==
  ASSUME IInv, ResumeGame
  PROVE  IInv'
  <1> DEFINE a == [page EXCEPT !.status = "running"]
             p == NewGeneration(a)
  <1>1. /\ page \in Page /\ Balance(page) /\ ~page.astray /\ page.elapsed = 0
        /\ page.status = "paused"
    BY DEF IInv, Good, Kept, ResumeGame, Active
  <1>2. leave' = leave /\ leave.at # "stopping" /\ page' = StartTurn(p)
    BY Parting DEF ResumeGame
  <1>3. Parted(page', leave') BY <1>2, PartedStays
  <1>4. a \in Page
    <2> DEFINE st == "running"
    <2>1. a = [page EXCEPT !.status = st] /\ st \in {"idle", "running", "paused", "ended"} OBVIOUS
    <2> HIDE DEF a, st
    <2> QED BY <1>1, <2>1 DEF Page
  <1>5. /\ a.status = "running" /\ a.astray = page.astray /\ a.clocks = page.clocks
        /\ a.used = page.used /\ a.made = page.made
    BY <1>1 DEF Page
  <1> HIDE DEF a
  <1>6. p \in Page /\ Alike(a, p) /\ NoneWaits(p) BY <1>4, NewGenerationType
  <1> HIDE DEF p
  <1>7. Balanced(page.clocks, page)
    <2>1. page.clocks \in [Side -> Int] BY <1>1 DEF Page
    <2>2. \A s \in Side :
            page.clocks[s] - (IF s = page.side THEN page.elapsed ELSE 0) = page.clocks[s]
      BY <1>1, <2>1
    <2> QED BY <1>1, <2>2 DEF Balance, Balanced
  <1>8. p.status = "running" /\ ~p.astray /\ Balanced(p.clocks, p)
    BY <1>1, <1>5, <1>6, <1>7 DEF Alike, Balanced
  <1>9. Good(page') BY <1>2, <1>6, <1>8, StartTurnIsGood
  <1> QED BY <1>2, <1>3, <1>9, LeaveStays

LEMMA EndGameKeeps ==
  ASSUME IInv, EndGame
  PROVE  IInv'
  <1> DEFINE p == ConsumeClock(page)
  <1>1. page \in Page /\ ~page.astray /\ page.status \in {"running", "paused"}
    BY DEF IInv, Good, EndGame, Active
  <1>2. /\ leave' = leave /\ leave.at # "stopping"
        /\ page' = FlagOnTime(p) \/ page' = FinishGame(p)
    BY <1>1, Parting DEF EndGame
  <1>3. Parted(page', leave') BY <1>2, PartedStays
  <1>4. p \in Page /\ p.astray = page.astray /\ p.status = page.status
    BY <1>1, ConsumeClockType
  <1> HIDE DEF p
  <1>5. Good(FlagOnTime(p)) BY <1>1, <1>4, FlagOnTimeIsGood
  <1>6. Good(FinishGame(p)) BY <1>1, <1>4, FinishGameIsGood
  <1>7. Good(page') BY <1>2, <1>5, <1>6
  <1> QED BY <1>2, <1>3, <1>7, LeaveStays

LEMMA HumanMoveKeeps ==
  ASSUME IInv, NEW x \in Point, HumanMove(x)
  PROVE  IInv'
  <1> DEFINE c == Check("human", page.side, TRUE, TRUE, x, {}, page)
             wins == WinningPlacement(page, x, page.side)
             pending == TRUE
             yes == TRUE
  <1>1. page \in Page /\ Good(page) /\ page.side \in Side BY DEF IInv, Good, Page
  <1>2. /\ page.status = "running" /\ ~page.inputPending /\ ~EngineIsToMove(page)
        /\ leave' = leave
        /\ page' = IF MustAsk(page.side)
                   THEN [page EXCEPT !.inputPending = TRUE, !.checks = @ \union {c}]
                   ELSE CommitGameMove(page, x, wins, yes)
    BY DEF HumanMove, EngineIsToMove
  <1>3. leave.at # "stopping" BY <1>2, Parting
  <1>4. Parted(page', leave') BY <1>2, <1>3, PartedStays
  <1>5. Tight(page) => NoneWaits(page) /\ page.timer # "fresh"
    <2> SUFFICES ASSUME Tight(page) PROVE NoneWaits(page) /\ page.timer # "fresh" OBVIOUS
    <2>1. OneWaits(page) BY <1>1 DEF Good
    <2>2. \A d \in page.checks : d.by \in {"human", "engine"} BY <1>1 DEF Page, LegalityCheck
    <2> QED BY <1>2, <2>1, <2>2 DEF OneWaits, NoneWaits
  <1>6. Good(CommitGameMove(page, x, wins, yes)) BY <1>1, <1>5, CommitIsGood
  <1>7. Good([page EXCEPT !.checks = @ \union {c}, !.inputPending = pending])
    <2>1. c \in LegalityCheck /\ c.by = "human" /\ c.same = TRUE
      <3> DEFINE none == {}
                 by == "human"
      <3>1. /\ c = Check(by, page.side, yes, yes, x, none, page) /\ by \in {"human", "engine"}
            /\ yes \in BOOLEAN /\ none \in SUBSET Point
        OBVIOUS
      <3> HIDE DEF c, none, by, yes
      <3>2. c \in LegalityCheck /\ c.by = by /\ c.same = yes BY <1>1, <3>1, CheckType
      <3> QED BY <3>2 DEF by, yes
    <2>2. pending \in BOOLEAN /\ pending OBVIOUS
    <2> HIDE DEF c, pending
    <2> QED BY <1>1, <1>2, <1>5, <2>1, <2>2, AskIsGood
  <1>8. [page EXCEPT !.inputPending = TRUE, !.checks = @ \union {c}]
          = [page EXCEPT !.checks = @ \union {c}, !.inputPending = pending]
    <2> HIDE DEF c
    <2> QED BY <1>1 DEF Page
  <1>9. Good(page') BY <1>2, <1>6, <1>7, <1>8
  <1> QED BY <1>2, <1>4, <1>9, LeaveStays

LEMMA EditPositionKeeps ==
  ASSUME IInv, NEW x \in Point, NEW stone \in Side \union {"none"}, NEW s \in Side,
         EditPosition(x, stone, s)
  PROVE  IInv'
  <1> DEFINE b == [page.board EXCEPT ![x] = stone]
             a == [page EXCEPT !.board = b, !.side = s]
             p == NewPosition(a)
  <1>1. page \in Page /\ ~page.astray /\ Kept(page) BY DEF IInv, Good
  <1>2. /\ leave' = leave /\ leave.at # "stopping" /\ page.status \in {"idle", "ended"}
        /\ page' = p \/ page' = ResetGame(p)
    <2>1. ~page.transitioning /\ ~Active(page) /\ leave' = leave BY DEF EditPosition, CanEdit
    <2>2. page.status \in {"idle", "ended"} BY <1>1, <2>1 DEF Active, Page
    <2> QED BY <2>1, <2>2, Parting DEF EditPosition
  <1>3. Parted(page', leave') BY <1>2, PartedStays
  <1>4. b \in [Point -> Side \union {"none"}] BY <1>1 DEF Page
  <1> HIDE DEF b
  <1>5. a \in Page BY <1>1, <1>4 DEF Page
  <1>6. /\ a.status = page.status /\ a.started = page.started /\ a.elapsed = page.elapsed
        /\ a.astray = page.astray /\ a.ticking = page.ticking
    BY <1>1 DEF Page
  <1> HIDE DEF a
  <1>7. p \in Page /\ Alike(a, p) /\ p.ticking = a.ticking BY <1>5, NewPositionType
  <1> HIDE DEF p
  <1>8. /\ p.status \in {"idle", "ended"} /\ ~p.started /\ p.elapsed = 0 /\ ~p.astray
        /\ ~p.ticking
    BY <1>1, <1>2, <1>6, <1>7 DEF Alike, Kept
  <1>9. Good(p) BY <1>7, <1>8, StillIsGood
  <1>10. Good(ResetGame(p))
    <2> DEFINE h == NoHistory(p)
               k == BothSides(Initial)
               r == [h EXCEPT !.status = "idle", !.inputPending = FALSE, !.transitioning = FALSE,
                              !.started = FALSE, !.elapsed = 0, !.clocks = k]
               d == CancelSearch(StopTimers(NewGeneration(r)))
    <2>1. ResetGame(p) = d BY DEF ResetGame
    <2>2. h \in Page /\ h.astray = p.astray BY <1>7, NoHistoryType
    <2>3. k \in [Side -> Int] BY BothSidesType, ClockAssumption
    <2> HIDE DEF h, k
    <2>4. r \in Page
      <3> DEFINE st == "idle"
                 off == FALSE
                 zero == 0
      <3>1. /\ r = [h EXCEPT !.status = st, !.inputPending = off, !.transitioning = off,
                             !.started = off, !.elapsed = zero, !.clocks = k]
            /\ st \in {"idle", "running", "paused", "ended"} /\ off \in BOOLEAN /\ zero \in Int
        OBVIOUS
      <3> HIDE DEF r, st, off, zero
      <3> QED BY <2>2, <2>3, <3>1, ZenonT(60) DEF Page
    <2>5. r.status = "idle" /\ r.started = FALSE /\ r.elapsed = 0 /\ r.astray = h.astray
      BY <2>2 DEF Page
    <2> HIDE DEF r
    <2>6. d \in Page /\ Alike(r, d) /\ ~d.ticking BY <2>4, HaltType
    <2> HIDE DEF d
    <2>7. Good(d) BY <1>8, <2>2, <2>5, <2>6, StillIsGood DEF Alike
    <2> QED BY <2>1, <2>7
  <1>11. Good(page') BY <1>2, <1>9, <1>10
  <1> QED BY <1>2, <1>3, <1>11, LeaveStays

LEMMA SetPlayerTypeKeeps ==
  ASSUME IInv, NEW s \in Side, NEW type \in {"human", "engine"}, SetPlayerType(s, type)
  PROVE  IInv'
  <1> DEFINE m == [page.players EXCEPT ![s] = type]
             q == [page EXCEPT !.players = m]
  <1>1. page \in Page /\ ~page.astray /\ Kept(page) BY DEF IInv, Good
  <1>2. leave' = leave /\ ~Active(page) /\ page' = q BY <1>1 DEF SetPlayerType, Page
  <1>3. m \in [Side -> {"human", "engine"}] BY <1>1 DEF Page
  <1> HIDE DEF m
  <1>4. /\ q \in Page /\ q.status = page.status /\ q.started = page.started
        /\ q.ticking = page.ticking /\ q.elapsed = page.elapsed /\ q.astray = page.astray
        /\ q.transitioning = page.transitioning /\ q.turn = page.turn /\ q.used = page.used
        /\ q.made = page.made
    BY <1>1, <1>3 DEF Page
  <1> HIDE DEF q
  <1>5. Good(q) BY <1>1, <1>2, <1>4 DEF Good, Kept, Active, Tight
  <1>6. Parted(page', leave') BY <1>2, <1>4, PartedStays
  <1> QED BY <1>2, <1>5, <1>6, LeaveStays

-----------------------------------------------------------------------------
(* The answers to the requests about a move.                                 *)
LEMMA CheckAnsweredKeeps ==
  ASSUME IInv, NEW c \in page.checks, CheckAnswered(c)
  PROVE  IInv'
  <1> DEFINE p == [page EXCEPT !.checks = @ \ {c}]
  <1>1. page \in Page /\ Good(page) BY DEF IInv, Good
  <1>2. /\ c \in LegalityCheck /\ c.move \in Point /\ c.same \in BOOLEAN
        /\ c.fresh \in BOOLEAN /\ c.side \in Side /\ c.left \in SUBSET Point
        /\ c.by \in {"human", "engine"}
    BY <1>1 DEF Page, LegalityCheck
  <1>3. /\ p \in Page /\ Alike(page, p) /\ p.timer = page.timer /\ p.turn = page.turn
        /\ p.checks = page.checks \ {c} /\ p.ticking = page.ticking
        /\ p.transitioning = page.transitioning
    BY <1>1 DEF Page, Alike
  <1>4. /\ leave' = leave
        /\ \/ \E legal \in BOOLEAN : page' = HumanChecked(p, c, legal)
           \/ c.by = "engine" /\ page' = EngineChecked(p, c)
           \/ c.by = "engine" /\ page' \in TryChoices(p, c, c.left)
           \/ c.by = "engine" /\ page' = TurnFails(p, c)
    BY <1>2, Zenon DEF CheckAnswered
  <1> HIDE DEF p
  <1>5. Good(p)
    <2>1. Kept(p) BY <1>1, <1>3 DEF Good, Kept, Active, Balance, Alike
    <2>2. Tight(p) => OneWaits(p)
      BY <1>1, <1>3 DEF Good, Tight, OneWaits, EngineIsToMove, Alike
    <2> QED BY <1>1, <1>3, <2>1, <2>2 DEF Good, Alike
  <1>6. Tight(p) /\ c.fresh =>
          /\ c.same /\ NoneWaits(p)
          /\ c.by = "engine" => p.timer # "fresh" /\ EngineIsToMove(p)
    <2> SUFFICES ASSUME Tight(p), c.fresh
                 PROVE  /\ c.same /\ NoneWaits(p)
                        /\ c.by = "engine" => p.timer # "fresh" /\ EngineIsToMove(p)
      OBVIOUS
    <2>1. OneWaits(page) BY <1>1, <1>3 DEF Good, Tight, Alike
    <2>2. \A d \in p.checks : ~d.fresh BY <1>3, <2>1 DEF OneWaits
    <2> QED BY <1>2, <1>3, <2>1, <2>2 DEF OneWaits, NoneWaits, EngineIsToMove, Alike
  <1>7. ASSUME p.status = "ended" =>
                 /\ page'.status = p.status /\ page'.transitioning = p.transitioning
                 /\ page'.turn = p.turn /\ page'.used = p.used /\ page'.made = p.made
        PROVE  Parted(page', leave')
    <2>1. leave.at = "stopping" => p.status = "ended" BY <1>3, Parting DEF Alike
    <2> QED BY <1>3, <1>4, <1>7, <2>1, PartedStays DEF Alike
  <1>8. ASSUME NEW legal \in BOOLEAN, page' = HumanChecked(p, c, legal) PROVE IInv'
    <2> DEFINE q == IF legal /\ ~Outdated(p, c) THEN CommitGameMove(p, c.move, c.wins, c.same) ELSE p
               l == q.loose \/ LooseHuman(q)
               r == [q EXCEPT !.inputPending = FALSE, !.loose = l]
    <2>1. page' = r BY <1>8 DEF HumanChecked
    <2>2. Good(q) /\ (p.status = "ended" => q = p)
      <3>1. CASE legal /\ ~Outdated(p, c)
        <4>1. c.fresh /\ p.status = "running" BY <3>1 DEF Outdated
        <4>2. Good(CommitGameMove(p, c.move, c.wins, c.same))
          BY <1>2, <1>5, <1>6, <4>1, CommitIsGood
        <4> QED BY <3>1, <4>1, <4>2
      <3>2. CASE ~(legal /\ ~Outdated(p, c)) BY <1>5, <3>2
      <3> QED BY <3>1, <3>2
    <2> HIDE DEF q
    <2>3. q \in Page BY <2>2 DEF Good
    <2>4. l \in BOOLEAN /\ (~l => ~q.loose /\ ~LooseHuman(q))
      BY <2>3 DEF LooseHuman, Page
    <2> HIDE DEF l
    <2>5. /\ r \in Page /\ r.status = q.status /\ r.transitioning = q.transitioning
          /\ r.turn = q.turn /\ r.used = q.used /\ r.made = q.made /\ r.timer = q.timer
          /\ r.checks = q.checks /\ r.side = q.side /\ r.players = q.players /\ r.astray = q.astray
          /\ r.started = q.started /\ r.ticking = q.ticking /\ r.elapsed = q.elapsed
          /\ r.clocks = q.clocks /\ r.loose = l
      BY <2>3, <2>4 DEF Page
    <2> HIDE DEF r
    <2>6. Kept(r) BY <2>2, <2>5 DEF Good, Kept, Active, Balance
    <2>7. Tight(r) => OneWaits(r)
      <3> SUFFICES ASSUME Tight(r) PROVE OneWaits(r) OBVIOUS
      <3>1. ~l /\ Tight(q) BY <2>4, <2>5 DEF Tight
      <3>2. \A d \in q.checks : d.fresh => d.by # "human" BY <2>4, <3>1 DEF LooseHuman
      <3>3. OneWaits(q) BY <2>2, <3>1 DEF Good
      <3> QED BY <2>5, <3>2, <3>3 DEF OneWaits, EngineIsToMove
    <2>8. Good(page') BY <2>1, <2>2, <2>5, <2>6, <2>7 DEF Good
    <2>9. Parted(page', leave') BY <1>7, <2>1, <2>2, <2>5
    <2> QED BY <1>4, <2>8, <2>9, LeaveStays
  <1>9. CASE c.by = "engine" /\ page' = EngineChecked(p, c)
    <2> DEFINE l == p.loose \/ LooseEngine(p, c)
               q == [p EXCEPT !.loose = l]
               r == CommitGameMove(q, c.move, c.wins, c.same)
    <2>1. page' = r BY <1>9 DEF EngineChecked
    <2>2. l \in BOOLEAN /\ (~l => ~p.loose /\ (p.status = "running" => c.fresh))
      BY <1>3 DEF LooseEngine, Page
    <2> HIDE DEF l
    <2>3. /\ q \in Page /\ q.status = p.status /\ q.transitioning = p.transitioning
          /\ q.turn = p.turn /\ q.used = p.used /\ q.made = p.made /\ q.timer = p.timer
          /\ q.checks = p.checks /\ q.side = p.side /\ q.players = p.players /\ q.astray = p.astray
          /\ q.started = p.started /\ q.ticking = p.ticking /\ q.elapsed = p.elapsed
          /\ q.clocks = p.clocks /\ q.loose = l /\ q.inputPending = p.inputPending
      BY <1>3, <2>2 DEF Page
    <2> HIDE DEF q
    <2>4. Kept(q) BY <1>5, <2>3 DEF Good, Kept, Active, Balance
    <2>5. Tight(q) => Tight(p) /\ c.fresh BY <2>2, <2>3 DEF Tight
    <2>6. Tight(q) => OneWaits(q) BY <1>5, <2>3, <2>5 DEF Good, OneWaits, EngineIsToMove
    <2>7. Good(q) BY <1>5, <2>3, <2>4, <2>6 DEF Good
    <2>8. Tight(q) => c.same /\ NoneWaits(q) BY <1>6, <2>3, <2>5 DEF NoneWaits
    <2>9. Good(r) /\ (q.status # "running" => r = q) BY <1>2, <2>7, <2>8, CommitIsGood
    <2> HIDE DEF r
    <2>10. Parted(page', leave') BY <1>7, <2>1, <2>3, <2>9
    <2> QED BY <1>4, <2>1, <2>9, <2>10, LeaveStays
  <1>10. CASE c.by = "engine" /\ page' \in TryChoices(p, c, c.left)
    <2>1. Good(page') /\ (p.status = "ended" => page' = p)
      BY <1>2, <1>5, <1>6, <1>10, TryIsGood
    <2>2. Parted(page', leave') BY <1>7, <2>1
    <2> QED BY <1>4, <2>1, <2>2, LeaveStays
  <1>11. CASE c.by = "engine" /\ page' = TurnFails(p, c)
    <2>1. Good(page') /\ (p.status = "ended" => page' = p) BY <1>5, <1>11, TurnFailsIsGood
    <2>2. Parted(page', leave') BY <1>7, <2>1
    <2> QED BY <1>4, <2>1, <2>2, LeaveStays
  <1> QED BY <1>4, <1>8, <1>9, <1>10, <1>11

-----------------------------------------------------------------------------
(* Time.                                                                     *)
LEMMA TickKeeps ==
  ASSUME IInv, Tick
  PROVE  IInv'
  <1> DEFINE e == page.elapsed + 1
             u == [page.used EXCEPT ![page.side] = @ + 1]
             q == [page EXCEPT !.elapsed = e, !.used = u]
  <1>1. page \in Page /\ Good(page) /\ page.started /\ leave' = leave BY DEF IInv, Good, Tick
  <1>2. page.status = "running" /\ Balance(page) BY <1>1 DEF Good, Kept, Active
  <1>3. page' = q BY <1>1 DEF Tick, Page
  <1>4. e \in Int /\ u \in [Side -> Int] BY <1>1 DEF Page
  <1>5. \A s \in Side :
          page.clocks[s] - (IF s = page.side THEN e ELSE 0) + u[s]
            = Initial + Increment * page.made[s]
    <2> SUFFICES ASSUME NEW s \in Side
                 PROVE  page.clocks[s] - (IF s = page.side THEN e ELSE 0) + u[s]
                          = Initial + Increment * page.made[s]
      OBVIOUS
    <2> DEFINE total == Initial + Increment * page.made[s]
    <2>1. page.clocks[s] - (IF s = page.side THEN page.elapsed ELSE 0) + page.used[s] = total
      BY <1>2 DEF Balance
    <2>2. /\ page.clocks[s] \in Int /\ page.used[s] \in Int /\ page.elapsed \in Int
          /\ page.side \in Side /\ page.used \in [Side -> Int]
      BY <1>1 DEF Page
    <2> HIDE DEF total
    <2>3. CASE s = page.side
      <3>1. u[s] = page.used[s] + 1 BY <2>2, <2>3
      <3> QED BY <2>1, <2>2, <2>3, <3>1 DEF total
    <2>4. CASE s # page.side
      <3>1. u[s] = page.used[s] BY <2>2, <2>4
      <3> QED BY <2>1, <2>4, <3>1 DEF total
    <2> QED BY <2>3, <2>4
  <1> HIDE DEF e, u
  <1>6. /\ q \in Page /\ q.status = page.status /\ q.timer = page.timer
        /\ q.turn = page.turn /\ q.checks = page.checks /\ q.side = page.side
        /\ q.players = page.players /\ q.astray = page.astray /\ q.started = page.started
        /\ q.ticking = page.ticking /\ q.elapsed = e /\ q.clocks = page.clocks
        /\ q.loose = page.loose /\ q.inputPending = page.inputPending /\ q.used = u
        /\ q.made = page.made
    BY <1>1, <1>4 DEF Page
  <1> HIDE DEF q
  <1>7. Balance(q) BY <1>5, <1>6 DEF Balance
  <1>8. Kept(q) BY <1>1, <1>2, <1>6, <1>7 DEF Good, Kept
  <1>9. Tight(q) => OneWaits(q) BY <1>1, <1>6 DEF Good, Tight, OneWaits, EngineIsToMove
  <1>10. Good(q) BY <1>1, <1>6, <1>8, <1>9 DEF Good
  <1>11. leave.at # "stopping" BY <1>2, Parting
  <1>12. Parted(page', leave') BY <1>1, <1>11, PartedStays
  <1> QED BY <1>1, <1>3, <1>10, <1>12, LeaveStays

LEMMA ClockTimerKeeps ==
  ASSUME IInv, ClockTimer
  PROVE  IInv'
  <1>1. /\ Good(page) /\ page.status = "running" /\ page' = FlagOnTime(page) /\ leave' = leave
    BY DEF IInv, ClockTimer, TimeIsUp
  <1>2. Good(page') BY <1>1, FlagOnTimeIsGood DEF Good
  <1>3. Parted(page', leave') BY <1>1, Parting, PartedStays
  <1> QED BY <1>1, <1>2, <1>3, LeaveStays

-----------------------------------------------------------------------------
(* The theorems.                                                             *)
LEMMA InitInv == Init => IInv
  <1> SUFFICES ASSUME Init PROVE IInv OBVIOUS
  <1>1. page.status = "idle" /\ leave = NoLeave BY DEF Init
  <1>2. page \in Page
    <2> DEFINE board == [x \in Point |-> "none"]
               players == BothSides("human")
               clocks == BothSides(Initial)
               none == BothSides(0)
    <2>1. /\ board \in [Point -> Side \union {"none"}]
          /\ players \in [Side -> {"human", "engine"}]
          /\ clocks \in [Side -> Int] /\ none \in [Side -> Int]
      BY BothSidesType, ClockAssumption DEF BothSides
    <2>2. NoTurn \in Turn BY DEF NoTurn, Turn, Side
    <2>3. page = [board |-> board, side |-> "black", players |-> players, status |-> "idle",
                  clocks |-> clocks, started |-> FALSE, elapsed |-> 0, ticking |-> FALSE,
                  timer |-> "none", inputPending |-> FALSE, transitioning |-> FALSE,
                  turn |-> NoTurn, checks |-> {}, used |-> none, made |-> none,
                  loose |-> FALSE, astray |-> FALSE]
      BY DEF Init
    <2> HIDE DEF board, players, clocks, none
    <2>4. "black" \in Side BY DEF Side
    <2> QED BY <2>1, <2>2, <2>3, <2>4 DEF Page
  <1>3. ~page.started /\ ~page.ticking /\ page.elapsed = 0 /\ ~page.astray BY DEF Init
  <1>4. Good(page) BY <1>1, <1>2, <1>3, StillIsGood
  <1> QED BY <1>1, <1>4, NoLeaveType DEF IInv, Parted

LEMMA NextInv == IInv /\ [Next]_vars => IInv'
  <1> SUFFICES ASSUME IInv, [Next]_vars PROVE IInv' OBVIOUS
  <1>1. CASE UserStep
    <2>1. ASSUME NEW x \in Point, HumanMove(x) PROVE IInv' BY <2>1, HumanMoveKeeps
    <2>2. ASSUME NEW x \in Point, NEW stone \in Side \union {"none"}, NEW s \in Side,
                 EditPosition(x, stone, s)
          PROVE  IInv'
      BY <2>2, EditPositionKeeps
    <2>3. ASSUME NEW s \in Side, NEW type \in {"human", "engine"}, SetPlayerType(s, type)
          PROVE  IInv'
      BY <2>3, SetPlayerTypeKeeps
    <2> QED BY <1>1, <2>1, <2>2, <2>3, StartGameKeeps, PauseGameKeeps, ResumeGameKeeps,
               EndGameKeeps, LeaveGameKeeps, ChangeMindKeeps DEF UserStep
  <1>2. CASE EngineTimer BY <1>2, EngineTimerKeeps
  <1>3. CASE SearchStep
    <2>1. ASSUME NEW ok \in BOOLEAN, StopSettles(ok) PROVE IInv' BY <2>1, StopSettlesKeeps
    <2> QED BY <1>3, <2>1, SearchKeeps DEF SearchStep
  <1>4. ASSUME NEW c \in page.checks, CheckAnswered(c) PROVE IInv' BY <1>4, CheckAnsweredKeeps
  <1>5. CASE Tick BY <1>5, TickKeeps
  <1>6. CASE ClockTimer BY <1>6, ClockTimerKeeps
  <1>7. CASE UNCHANGED vars BY <1>7 DEF vars, IInv
  <1> QED BY <1>1, <1>2, <1>3, <1>4, <1>5, <1>6, <1>7 DEF Next

(* The invariant holds throughout.                                           *)
THEOREM Invariance == Spec => []IInv
  BY InitInv, NextInv, PTL DEF Spec

(* Clocks run in running games only; and consumeCurrentClock, increments,    *)
(* pauses and a change of mode taken back charge each side exactly the ticks *)
(* of its turns (app.js:1900-1959, 2009-2045, 2122-2159, 2446-2470).         *)
THEOREM ClocksKept == Spec => []ClocksAreKept
  <1>1. IInv => ClocksAreKept
    <2> SUFFICES ASSUME IInv PROVE ClocksAreKept OBVIOUS
    <2>1. page \in Page /\ Kept(page) BY DEF IInv, Good
    <2>2. (page.status = "running") = (page.started /\ page.ticking) BY <2>1 DEF Kept, Page
    <2>3. ASSUME Active(page), NEW s \in Side
          PROVE  ClockOf(s) + page.used[s] = Initial + Increment * page.made[s]
      <3>1. page.clocks[s] \in Int /\ page.elapsed \in Int BY <2>1 DEF Page
      <3>2. ClockOf(s) = page.clocks[s] - (IF s = page.side THEN page.elapsed ELSE 0)
        BY <2>1, <3>1 DEF ClockOf, LiveClock, Kept
      <3> QED BY <2>1, <2>3, <3>2 DEF Kept, Balance
    <2> QED BY <2>2, <2>3 DEF ClocksAreKept
  <1> QED BY <1>1, Invariance, PTL

(* However late a search or a legality check answers, a stone is put down on *)
(* the position it was chosen for (app.js:2096-2290).                         *)
THEOREM MovesChosen == Spec => []MovesAreChosen
  <1>1. IInv => MovesAreChosen BY DEF IInv, Good, MovesAreChosen
  <1> QED BY <1>1, Invariance, PTL
=============================================================================
