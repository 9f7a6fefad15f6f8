# Verification of the gomoku calculator

TLA+ models of the gomoku calculator, model-checked with TLC and, for the
properties named below, proved with TLAPS for every value of the constants.
Paths are relative to the repository's root; `analysis_jobs.cpp:176` is
`src/service/analysis_jobs.cpp`, line 176.

## 1. The system

The program is a web application: a C++ server (`gomoku_server`) that analyses
positions of gomoku and renju, a single-page client (`web/app.js`), and a
launcher (`start.sh`) that runs the server until the last page is closed.

| Component | State | Operations | Interacts with |
|---|---|---|---|
| **Board** `engine/board.*` | cells, side to move, stone counts, Zobrist hash, undo log | set, load, clear, setSideToMove, recomputeHash, makeMove (side to move or explicit colour), unmakeMove | owned by one search; its hash keys the transposition table |
| **Rules** `engine/rules.*` | none | winners, forbidden points (overline, double four, double three, recursively), legality | called by evaluator, search and handlers |
| **Evaluator** `engine/evaluator.*` | none | shape scores, winning moves, ranked candidates | called by search |
| **Search** `engine/search.*` | table, deadlines, statistics | run: terminal tests, double threat, forced win (VCF), iterative deepening negamax with quiescence; cancellation and timeout by exception | polls `cancelRequested`, calls the observer after every depth |
| **AnalysisJobManager** `service/analysis_jobs.*` | map of jobs under `jobsMutex`, per job a state under its own mutex and two atomics, one thread per job | start, poll, stop, cleanup, destructor | called by HTTP worker threads; runs searches |
| **API handlers** `main.cpp` | four slots of the synchronous handler, count of browser sessions | `/api/analyze`, `/api/analyze/{start,poll,stop}`, `/api/forbidden`, `/api/session/{hold,status}` | translate JSON to calls of the components |
| **HttpServer** `server/http_server.*` | `running_`, listener, accept thread, connection count, a mutex and a condition variable | start, wait, stop; accept loop; one detached worker per connection | calls the handlers |
| **JSON** `server/json.*` | none | parse and serialize within limits | handlers |
| **Web client** `web/app.js` | position, history, one search job, generations of analysis, mode and game, result cache, clocks | edit, undo, redo, start and stop analysis, game moves, mode changes | start/poll/stop requests with timeouts and retries |
| **Launcher** `start.sh` | seen a session, inactive checks | poll `/api/session/status` every second | kills the server after five checks without a page |

What is hard here is concurrency in the server (HTTP workers, job threads, the
accept loop, clocks and leases) and asynchrony in the client (every `await` is
a point where the user may have changed the position, the mode or the game).
The engine itself is sequential; what is hard there is that state kept
incrementally (hash, counts, table entries) stays that of the position.
`PROJECT.json` lists the hazards line by line with the properties that cover
them.

What makes each component correct:

* **Job manager**: at most four searches execute; a version a poller sees is
  numbered consistently with its result; a stop keeps the last complete depth;
  results stay for the retention period; no HTTP thread waits for a search;
  cancelled, abandoned and shut-down jobs end; a lapsed lease is not forgiven.
* **Board**: hash and counts are functions of the position; the undo log is a
  stack of exact positions.
* **HttpServer**: the connection count is exact and bounded; a started server
  serves; after stop() nothing is left; nobody waits for ever.
* **Search**: only complete iterations are reported; the table does not change
  the value of a fixed-depth search; a proof of a forced win is a win.
* **Web client**: a result is shown only for the position it was computed for;
  of the jobs of an analysis at most one has not been told to end; none that is
  known is left behind untold; a game's clock and moves follow each other.
* **Sessions and launcher**: the server is not stopped while a page is open, and
  is when none is.
* **Rules**: exactly the moves the rules of Renju forbid are forbidden; everyone
  who decides who has won decides alike.
* **Requests**: the reply is to the request that was sent, however it arrives;
  the slots of the synchronous analysis come back; a client that leaves ends
  its analysis.
* **JSON**: exactly the documents of the grammar within the limits are read.

## 2. Modules

| Module | What it is |
|---|---|
| `AnalysisJobs` | the job manager and the handlers that call it |
| `JobBoard` | what the manager promises, every operation atomic |
| `MCAnalysisJobs` | instances of `AnalysisJobs` for TLC |
| `AnalysisJobs_proofs` | theorems about `AnalysisJobs`: types, limit, joins; versions, results, the refinement of `JobBoard`; thread ownership, retention |
| `Board` | the board with its incremental hash, counts and undo log |
| `PositionStack` | what `board.h` promises: a stack of complete positions |
| `Board_proofs` | theorems about `Board`, and that it implements `PositionStack` |
| `HttpLifecycle` | the threads of the HTTP server |
| `MCHttpLifecycle` | instances of `HttpLifecycle` for TLC |
| `HttpLifecycle_proofs` | theorems about `HttpLifecycle`: types and the count of connections for any number of threads; serving and stopping for one driving thread |
| `PageJob` | one search job of a page: requests, timeouts, retries, and the server as the page sees it |
| `WebAnalysis` | the analysis of a page: edits, loop, cache, panel, changes of mode; composes with `PageJob` |
| `MCWebAnalysis` | instances of `WebAnalysis` for TLC |
| `WebAnalysis_proofs` | theorems about `WebAnalysis` with its `PageJob` |
| `WebGame` | a game on the page: turns, clocks, engine, legality checks, pauses, leaving for the analysis |
| `WebGame_proofs` | theorems about clocks and moves in `WebGame` |
| `LineGame` | positions, lines, winning moves, legality, and what a win by force is |
| `Search` | the algorithms of `SearchContext`: table, quiescence, negamax, root, forced-win solver |
| `SearchRun` | `run` and `runEstimate` as a state machine, with timeouts and cancellation |
| `MCSearch` | an instance of `SearchRun` for TLC |
| `Lines` | points, runs of stones, and who wins: Rules for a placement, Rules for a position, the evaluator |
| `LinesRun` | positions made stone by stone |
| `Lines_proofs` | theorems about `Lines` and `LinesRun` |
| `Rules` | fours, open threes, forbidden points, legal moves; extends `Lines` |
| `RulesRun` | the definitions of Renju, for the positions of `LinesRun` |
| `MCRules` | the stones `LinesRun` uses for TLC |
| `Session` | pages that hold a session, the server that counts them, the launcher that watches |
| `Session_proofs` | theorems about `Session` |
| `Json` | `parse` and `stringify` on tokens of bytes |
| `JsonGrammar` | what a document and its limits are, without a parser |
| `Api` | how the handlers read a JSON body, and how the page builds it |
| `Connection` | one request on each connection: reading, dispatch, analysis slots; what the handlers read is a parameter |
| `Connection_proofs` | theorems about `Connection` |
| `Requests` | what the handlers read and answer, with `Connection`, `Api` and `JsonGrammar` |
| `MCRequests` | the requests of clients for TLC |

### AnalysisJobs

An action is one stretch of code under `jobsMutex`, one under a job's own
mutex, or one atomic operation, by a caller (an HTTP worker executing one
request), by the thread of a job, or by the clock. A member of `Handle` is a
`JobState` with its jthread. `jobs` is the map from ids to handles, ids are
integers modulo `IdSpace` (2^64 in the code) so that wrap-around and the
skipping of 0 happen. A caller takes `jobsMutex` (`LockJobs`), visits the jobs
one by one, each under its own mutex (`CollectJob`, `CountJob`), so workers
complete between two visits, and joins what it collected after the release
(`JoinRetired`). `start` goes on to `AllocateId` and `CreateJob` or
`CreateFails`; `poll` to `FindJob`, `ReadClock`, `RenewLease` and `CopyState`;
the stop handler polls first, then calls `stop` (`RequestStop`), as
`handleAnalyzeStop` does. The search is seen from outside: it publishes a
snapshot per completed depth, polls `shouldCancel` (`PollCancel`, then for
infinite jobs `CheckLease` with the clock read before the access time), and
ends with a result, as cancelled, or with an exception. `mem` is what the
client behind a caller holds: it passes the version it has seen and keeps the
results it is sent.

`shuttingDown` is tested by `start` but the destructor runs only when no call
is in progress, which `main` guarantees by destroying the HttpServer first.

### Board

The Zobrist hash is a set of keys with symmetric difference for XOR. This takes
distinct keys to be independent: a collision of 64-bit keys is not modelled.
`MakeMove` takes the colour explicitly, as `makeMove(move, stone)` does; it
does not require the colour to be that of the side to move. Calls the code
rejects (off the board, occupied, no stone) change nothing and are stuttering
steps.

`PositionStack` is the stack of complete positions; the refinement mapping
computes from the undo log the position each entry leads back to.

### HttpLifecycle

Callers of start(), wait() and stop() (`Controller`), the accept loop each
start() creates (`Loop`), and connections with their detached workers
(`Conn`). A request handler may call stop(), which the code provides for
(`current_worker_server_`). One action is one access to an atomic, a mutex or
a socket. `pc` of an actor in one of the three calls goes through
`quiet_lock`, `quiet_test`, `quiet_sleep`, `asleep`: the wait of the condition
variable with its predicate, the going to sleep apart from the test, because
`connection_finished` does not hold `workers_mutex_`. A wait may wake
spuriously, but nothing promises that it does. Descriptors are numbers that are
never reused. wait() called from a handler and the destruction of the server
object are left out.

### PageJob and WebAnalysis

The page is single-threaded. An action is a task of its event loop (a reply, a
timer, a click) run to its end; what the task resolves is continued before the
next task begins, so `PageTask` waits while a continuation is ready
(`Settling`). Actions of the server interleave freely.

`PageJob` is `runSearchJob`: `run` says which `await` it is at, `known`,
`cancelled` and `lastResult` are the fields of the job object, `stopping` the
state of the shared `stopPromise`. A request may be lost, time out or be
answered with an error (`Fault`); a start request that the page has given up
may still arrive, at any later time. What the page can tell of a job at the server
is in `server`: on its way, refused, running, cancelling, ended; how the server
does it is `AnalysisJobs`. A stop request, or a lapsed lease, only makes a running
job cancelling (`ServerCancels`), and the stop is answered then (`StopAnswered`), as
`AnalysisJobManager::stop` sets `cancelRequested` and `handleAnalyzeStop` replies at
once. A cancelling job goes on running, as a poll would say and the limit of jobs
counts it, until its search looks at the request (`ServerNotices`). `Uncancelled` is
the set of jobs that may run and that nothing has told to end. The page passes
the version it has seen, so a poll may or may not come with a result while the
job runs, and does when it has ended.

`WebAnalysis` adds the position, `runAnalysisLoop` with its debounce, the result
cache and the panel, `startAnalysis`, `stopAnalysis`, `setMode` and
`runModeTransitionLoop`. A result is told apart by the position it was computed
for. The generation counters are only ever compared with a remembered value, so
each is a flag: `moved` says that `analysisGeneration` has changed since the
loop remembered it, `fresh` that `modeRequestGeneration` has not. Of the restart
time only whether it has passed is kept (`debouncing`). `older` and `broken`
are history: the uncancelled jobs from before this analysis, and those of this one
whose start request failed without a timeout. A game is not being played
(`finishGameSessionForAnalysis` has nothing to do); the cache's limit and its
order of quality are left out.

### WebGame

The page again, while a game is played. `page` is one record: `state.game`, the
board, the turn of the engine that awaits its search (`turn`), and whoever
awaits the answer to a legality check (`checks`). The functions that call each
other (`FinishGame`, `CommitGameMove`, `StartTurn`, ...) are operators from page
to page, and an action is what one click, timer or answer runs to its end,
finishing with the continuations it makes ready. The board is one row, on
which the rules of a win are those of the code (in Renju exactly `WinLength`
stones for Black); in Renju a move of Black is checked by the server, and what
it says of it is any answer.

A search job is reduced to where it is: its start is under way, it works, its
stop is under way because of a cancellation or because a poll failed. `PageJob`
has the details, and the faults in them. Which result it returns is the
engine's business: `TurnWithResult` tries every set of candidates.
`game.generation` is only compared with remembered values, so whoever remembers
one has a flag `fresh`; `same` says that the position is still the one it was
chosen for, and is history. `leave` is the change of mode that awaits the end of
the search; `ChangeMind` is the click that takes it back meanwhile, `StopSettles`
commits it, takes it back, or returns to a paused game when the stop has
failed.

Two histories, `loose` and `astray`, are for `MovesAreChosen`. It says that
a stone is put down on the position for which it was chosen and found legal,
with the two exceptions listed below under the disagreements. Time is whole
ticks and stops at 0, where the code cuts it off; a clock that has run out is
seen by the next timer, move, pause or end. Left out: the drawing, which
also looks at the clocks, the budget of time the engine gives itself, the
analysis that `startGame` would stop first, and the debounce of a change of
mode.

### LineGame, Search and SearchRun

`LineGame` is the game as the search sees it. The winning lines are a constant,
so the size of the board and the length of a line are parameters. The points
forbidden to Black are given with the position and stay the same while it is
played on, where `rules.cpp` derives them from every position; overlines are
not distinguished. `Evaluate` counts stones on lines still open; the run values,
the centre and the neighbourhood of candidates are tuning and left out.

`Search` translates the members of `SearchContext` into operators that take
and return the table: `Negamax` with `Probed` (the table), `Expand` (the tests
for wins, losses and the horizon), `BestOf` and `Tried` (the loop with its null
window and second search), `Quiescence`, `SearchRoot`, and `SolveForced` with
`BestAttack` and `LongestDefense`. The table's move is tried first and the others
by cell; killers, history and scores of moves, which only order them, are left
out, as is the limit on candidates. Positions are the keys of the table, so
collisions of hashes are not modelled. The solver's time is a number of
nodes, so that it may be up anywhere in a proof.

`SearchRun` has one action per stage of `run`. `SearchTimeout` and
`SearchCancelled` abandon the stage they strike and nothing of an abandoned
iteration is reported, so it is enough that they may strike in every stage; the
table an abandoned iteration leaves is not used again. `Escapes` is the
`checkDeadline` before anything else (`search.cpp:165`): a timeout thrown there
is not caught by `run`. `Minimax` and `WinsWithin` are the reference
definitions: plain minimax without table, windows and order, and winning by
force as a game tree.

### Lines, LinesRun, Rules and RulesRun

`Lines` has the part of `rules.cpp` and `evaluator.cpp` that counts stones in a
row and decides who wins. It is a module of its own because nothing in it is
recursive, so that theorems can be stated about it.

`Rules` translates the rest of `rules.cpp`: a window of five cells (`FourIn`), one of six
(`OpenThreeIn`), the sets of stones that tell fours and threes apart, and the
mutual recursion of `AnalyzePlacedBlack` and `ExtensionIsLegal`. Cells are a
function, so putting a stone on and taking it off again is `Placed`. The memo
of an `AnalysisContext`, which returns what the same call on the same cells has
returned, is left out, and with it a collision of its keys. `LinesRun` puts
stones on a few chosen points in every order and number (`Board::set`), and
`RulesRun` compares with definitions that use maximal rows instead of windows.

### Session

`maintainBrowserSession` of every page, `handleBrowserSession` in the connection
that takes it, the counter, and `wait_for_browser_close`. Time goes by in ticks
of 200 ms, the sleep of the handler; what is due happens before the next tick.
A request fails at once when no connection is free or the server is gone, and
otherwise at most `MaxLost` times. Any answer but 200 and 204 neither counts nor
resets a count, as in the code. Not modelled: timers a browser slows down in
hidden tabs, and the page's own timeout of 25 s.

### Json, JsonGrammar, Api, Connection and Requests

A document is a sequence of tokens and a token a sequence of bytes. `Json` is
the recursive parser with the places where it counts and tests its limits;
`JsonGrammar` says which documents there are by cutting sequences in every way.
A number is a decimal mantissa and an exponent; a double is one whose exponent
is within a range. White space, pretty printing, positions in error messages and
the limit on the input, which is that on the body, are left out.

`Api` returns for every reader the set of what it has read, which is empty when
it throws. Names of members are told apart only, by one byte each, and of the
spellings of a stone or a rule the short ones stand for all.

`Connection` has one action per `recv` of the head (`ReadHead`) or body
(`ReadBody`), `InputEnds` for a connection that ends or falls silent,
`Dispatch`, and for `handleAnalyze` `TakeSlot`, `ReadLimits`, `SearchEnds`. The
slot is taken before the limits are read, so a request with invalid limits may
be told 429. What the head says is data (`HeadChecks` has the checks in their
order); where it ends is found in the bytes. `Disconnected` sees the end of a
connection only behind the last unread byte. Left out: what a reset connection
does to unread bytes and to the reply, header lines of responses, content of
static files.

What the handlers make of a message (`DispatchReplies`, `IsAnalysis`, `PositionOf`,
`LimitsOf`) are constant operators of `Connection`, so its theorems hold for any
handlers. `Requests` defines them with the recursive parser, and `requests.cfg`
gives the constants these definitions (`DispatchReplies <- RequestReplies`).

## 3. Runs

| Run | Instance | What it shows |
|---|---|---|
| `jobs_cap` | 2 callers, 3 jobs, limit 2, 3 ids | the limit, thread ownership, joins, in every interleaving of concurrent starts |
| `jobs_client` | 1 caller, 1 job of either kind, all requests, depth 1, lease 1, retention 1, clock to 2 | versions, snapshots, retention, refinement of `JobBoard`; a job told to end ends, though polls resume; calls return |
| `board` | 3 cells | hash, counts, refinement of `PositionStack` |
| `http_restart` | 1 controller, 2 connections, limit 1, 2 starts, handlers may stop | a started server serves, the connection count is exact, a stopped server is quiet; accept loops end; a handler returns from stop() |
| `http_wait` | 2 controllers, 1 connection | **violation**: wait() never returns |
| `web_page` | 2 jobs, 2 positions, 2 stop attempts, 1 fault | results belong to the position; who leaves a job or starts the next one has cancelled the old one; a stopped analysis ends, the analysis follows the last edit, mode requests settle |
| `web_serial` | the same | **violation**: two jobs of one analysis at once, neither of them cancelled |
| `web_game` | 3 points in a row, 2 in a row win, Renju, clocks of 1 tick and 1 more per move, 2 checks at once | clocks are charged exactly the turns, moves belong to the position, the engine's turn comes to an end |
| `search` | four in a row on 4 by 4, 292 starts, depth 4 (infinite: 5), table cleared above 15 entries, solver budgets 0, 3, 8, 100 | iterations equal plain minimax, the table is sound, proofs are wins by force, lines are playable |
| `rules` | 8 by 8, three families of stones | forbidden points are those of Renju, a placement that wins is legal, and who wins is decided alike everywhere |
| `session` | 2 pages opened, 3 connections, 1 lost request, sessions of 5 ticks, checks every 2 | an open page is not overlooked, a server without pages stops |
| `requests` | 2 clients, 1 slot, 10,335 workloads; heads of 8 bytes, bodies of 4, `recv` of up to 5 | replies are to the request, slots come back, bodies are read as the grammar says and the page's as it means them, leaving ends an analysis |

Why the bounds are enough. `jobs_cap`: a breach of the limit needs two
concurrent starts and one job more than the limit; wrap-around happens because
failed starts spend ids. There is always one id more than there can be jobs in
the map: with none free `allocateIdLocked` would not return (2^64 ids in the
code). `jobs_client`: a depth and an end make two events to number and a
snapshot that an empty result could replace; the clock passes the lease while
the job runs, or the retention after its last event. `board`: three cells let a
cell be emptied, recoloured and left alone around a move; the log grows to three
entries. `http_*`: two starts are needed for an old accept loop to meet a new
listener, two connections against a limit of one for a refusal and for the count
to change between a loop's reading and its compare-exchange.

`web_page`, `web_serial`: `ANALYSIS_STOP_ATTEMPTS` is 3 in the code and 2 here.
One request fails, and when it is a stop, its second attempt may fail too: a
stop is retried, and may fail for good. A job that is over can be used again, so
the number of jobs bounds only how many can be live at once: two, of which one
was given up, or is cancelled and still runs beside the current one. When a third
would be needed, the page waits for a cancelled one to end.

`web_game`: three points hold a game of two moves and a third that wins, fills
the board or is refused. With one tick on the clock and one more per move, a
clock runs out in the first turn, in a later one, or never. Two checks under way
are what it takes for one of an earlier game to meet one of this game; with
more, users wait (`Unhurried`).

`search`: 280 starts colour both diagonals in every way with four stones each,
which gives finished games, open fours, double threats, blocks forbidden to
Black and forced wins; they leave few cells, so every line of play is searched
to the end. Four quiet positions with eight empty cells were chosen because
leaving out the second search of a null-window result changes their value at
depth 4. The others are a full board and one on which Black has no legal move.
The limit of 15 entries (500,000 in the code) makes the table overflow within an
iteration. Mate scores are 1000 minus plies and the threshold 900, which like in
the code no evaluation reaches.

`rules`: the families are a row from edge to edge crossed by a diagonal (runs of
more than five, fours that share stones, edges, gaps, ends blocked by White), a
diagonal with columns through the move and through the point that extends it,
and a position where the extension of a three may itself make two more, which is
two levels of the recursion. A line of eight has every window of six with a
stone beyond it.

`session`: 20 s of a session are 5 ticks, 1 s between checks is 2 ticks, and the
retry of the page 1. What matters is that a gap between two sessions, with one
failed request in it (2 retries and 2 ways of up to 2 ticks), is shorter than
the four checks before the last (8 ticks); in the code it is too, as long as a
request is not on its way for seconds (`PatienceAssumption`, section 4). With more
lost requests, or pages that take all of the 128 connections and so blind the
launcher, the property does not say that the page is saved.

`requests`: a head of eight bytes at most and pieces of up to five let the blank
line be cut in every place and end one byte before, at and after the limit.
Numbers are bounded by 16 bits instead of 64; items, depth, values, string and
number limits are small, and documents lie on both sides of each. A board of two
by two with two in a row gives positions on which both have won.

Deadlock is checked in every run but `rules`, which stops when all stones are on
the board. A process that has shut down stutters (`Terminated`), as does a
search that has returned; an HTTP controller can always make another call.

Fairness. A thread that can run runs (weak fairness of each thread's steps). A
mutex that is free again and again is obtained (strong fairness of taking it):
the code's mutexes promise no more, and without it callers could starve each
other. A running search calls `checkDeadline`, hence `shouldCancel`, again and
again (`Poll`); nothing is assumed of the time it takes to finish a depth. HTTP
handlers end, because socket reads and writes time out (`io_timeout`) and
handlers bound their work. Connections, requests and the clock's ticks are not
fair. Of the page: timers fire, `postJson` ends every request by its timeout at
the latest, continuations run. Strong fairness of its tasks, as the event loop
keeps a task that is due while continuations run. The server takes up what
arrives, answers polls and carries out stops, and a search that is cancelled notices
(`ToldJobEnds` of `AnalysisJobs`, which `jobs_client` checks); one that is not need not
end. The user owes nothing. In a game, neither do the clocks: `EngineMoves`
holds although no time need pass. It does assume that a legality check is
answered or fails, which the page leaves to the browser, as `app.js:2169` sets
no timeout. The page's requests of a session and the launcher run and time
passes (weak fairness of `Runs`); nobody owes the opening or closing of a page.
A search of `Connection` asks whether it is cancelled again and again, and that is
all that is assumed of it: that it ends by itself is not.

### Disagreements found

* `http_wait` (`http_server.cpp:649-652` against `http_server.h:89`, "wait()
  blocks until the listener stops"): the decrement and the notification are not
  under `workers_mutex_`; when they fall between the waiter's evaluation of the
  predicate and its going to sleep, the notification is lost, and there is no
  other.
* `web_serial` (`app.js:1075` against `README.md:24-25`, "旧搜索自动取消，短暂去抖后
  串行切换到最新局面"): only a start that timed out keeps the loop from going on.
  When the connection of a start request breaks after the server has taken it,
  no stop is sent and the next job is started beside the old one, which runs
  until its own limit or its lease ends it. `RestartIsSerial` says that no other
  job is left uncancelled by a restart. Both properties are about cancellation
  only: `analysis_jobs.cpp:277` requests the end of a search, `main.cpp:604-608`
  answers at once and `app.js:1121-1122` takes the answer for the end, so after every
  acknowledged stop the old search may still run while the next one starts, until
  it reaches `checkDeadline`. Till then it counts in `runningJobsLocked`
  (`analysis_jobs.cpp:148-156`, `176`), and the new start may be refused for it with
  429. README.md:24-25 does not exclude that.

The others have no run of their own.

* `analysis_jobs.cpp:238-240` against `analysis_jobs.h:50` ("Polling also renews
  the activity lease of an infinite analysis"): the clock is read before an
  unconditional exchange, so a poll that is delayed in between stores an older
  time than a poll that overtook it. With one poll in flight per job, as the
  page has it, this does not happen.
* `app.js:2258-2263` against `README.md:193-194` (a pause freezes the clock and
  stops the engine's search, "继续后由当前方重新计算", after it the side to move
  calculates anew): an engine's move whose legality check is under way at a pause
  is committed when the answer comes after the resumption, since only the
  status is looked at again; also in another game begun meanwhile, and for
  whoever is to move there. `LooseEngine` excepts these.
* `app.js:2118` clears `inputPending` although the check that ends may be one of
  an earlier game and one of this game is under way; the user can then move
  again, and the answer that comes last may commit its move two moves later, on
  a position it was not checked for. `LooseHuman` excepts these.
* The comment at `rules.cpp:333-335` says that an exact five which also makes an
  overline does not win; the code, and the comment at `rules.cpp:73`, let it win,
  as `ForbiddenIsRenju` has it.
* `README.md:227-228` says that a client that disconnects ends its analysis at
  the next node: a client that has sent a byte more than the body it declared
  does not, since the byte is never read, and the analysis goes on to its time
  limit; `LeavingEndsAnalysis` excepts such clients.

## 4. Proofs

Every theorem below is proved for every value of the constants that the named
assumptions allow. The proofs of a component follow one pattern: an inductive
invariant, one lemma per action or family of actions that leave it alone for
the same reason, and a last step that combines them. TLC agrees that each of
these invariants holds on the instances of section 3.

### The job manager

`AnalysisJobs_proofs`: `TypeCorrect`, `RunningLimit`
(`Spec => []AtMostMaxExecuting`), `JoinsAreShort` (`Spec => []JoinsOnlyCompleted`).

The limit is not inductive. The strengthening `IInv` says: who is between
taking and releasing `jobsMutex` owns it (`MutexInv`); what a caller has yet to
visit is in the map (`TodoInv`); a reference names a created job (`RefInv`); a
caller outside the critical section has no leftovers (`QuietInv`); a job's
running flag agrees with where its thread is (`ThreadInv`); a handle that was
never used is nowhere (`FreshInv`); while a caller counts, every running job is
in the part of the map it has yet to visit or in its count (`CountInv`): others
cannot start jobs, since it holds the mutex, and jobs can only stop running, so
the count bounds the running jobs from above; once it has decided to start,
fewer than `MaxRunning` run (`CapInv`); what was collected had completed
(`RetiredInv`).

What a client can see:

* `VersionsAreEvents` (`VersionCountsEvents`) and `LastDepthIsKept`
  (`StopKeepsLastDepth`) follow from `EventsInv`, which ties version, depth and
  latest result of a job to where its thread is, between the publication of the
  end and the exit of the thread too;
* `FollowersAreCurrent` (`FollowerHasLatest`) needs `MemoryInv`: the versions a
  client holds never run ahead of the job, and equal versions mean equal results.
  `BegunInv` excludes a poll that holds the default state of a job that has not
  begun;
* `BoardIsImplemented`: every step of the manager is a step of `JobBoard` or
  leaves it unchanged. The start step needs `CapInv`: the count that allowed it
  was taken steps ago.

Who joins:

* `ThreadsAreOwned` (`ThreadOwnedOnce`) from `UniqueInv` (one id per job, none
  for a collected one, none collected twice) and `OwnedInv` (no thread is lost
  before the destructor runs);
* `RetentionIsHonoured` (`RetentionHonoured`, an action property) from `ClockInv`:
  a collection compares with a reading of the clock that may be old, hence
  never too high.

### The board

`Board_proofs`, for a board of any size: `HashIsExact`, `CountsAreExact`,
`BoardTypes` (counts between 0 and the area). The hash is not inductive because
unmakeMove restores a stored one; `LogInv` says that every entry of the log names
another occupied cell and holds the hash of the position it leads back to.
`StackIsImplemented` carries this on to the whole position: a move pushes the
position it was made in, a taking back restores the top one, so the board
implements `PositionStack` however deep the log.

### The HTTP server

`HttpLifecycle_proofs`, for any number of callers, connections and restarts:
`TypeCorrect` and `SlotsAreCounted` (`SlotsAreConnections`). The number of slots is
a cardinality over workers and accept loops; it is preserved because a loop
between accept() and the creation of the worker has a connection of its own
that no worker has (`ClientInv`), and a worker is in stop() exactly while its
pc is in a call (`CallInv`).

Under `Controller = {c}`: `StartedStays` (`StartedServes`) and `StopLeavesNothing`
(`QuietAfterStop`, an action property): one thread calls
start(), wait() and stop(), while handlers may call stop() on any connection. This
is the program's own use: `main.cpp:755-759` is the only caller of start() and
wait(), and the properties speak of that thread. With two driving threads both
are false: a start() and a stop() pass each other in `take_join`, or one thread's
start() opens the listener between another's last test and its return. The
argument: an accept loop that is not over is named by `accept_thread_` or by a
call about to join it (`OwnedInv`); whoever waits for the workers has emptied
`accept_thread_` (`TakenInv`), so when the count is 0 no loop lives, since a loop
in the hands of a handler's stop() would mean a worker with a slot
(`QuietHasNoLoop`). From there start() is alone until it returns (`OpeningInv`), an
open listener is the current one and has someone to close it (`ListenInv`), and
nobody who would take it down is under way while the server serves
(`ServingInv`).

### The page

`WebAnalysis_proofs` rests on `ResultAssumption`, that the words for an empty, a
loading and a failed panel are no positions. `TypeCorrect`; `ShownIsCurrent`
(`ShownIsOfPosition`, itself part of the induction); and two action properties:

* `NoJobIsLeft` (`NoJobLeft`) from `RunInv` (a run has a job until it returns, and
  knows its id from the answer to the start request on) and `AnswerInv` (a reply
  "not running" means that the job has ended, an acknowledged stop that it is
  cancelling or has ended, and both stay right while the run has the job);
* `RestartsAreSerial` (`RestartIsSerial`) from `SerialInv`: of the uncancelled jobs, all
  but the current one are of an earlier analysis or lost the connection of their
  start request, unless the run is about to report that it could not stop its
  job, in which case the loop ends. Nothing is said, or true, of when a cancelled
  job stops running.

`WebGame_proofs`, for every board, clock and number of requests under way:

* `ClocksKept` (`ClocksAreKept`) from `Kept` (the status decides whether clock and
  timer run, and each side's clock plus what it used is what it was given) and
  `Parted` (the clocks put aside while a change of mode waits for a search to stop
  are in balance, and the game is ended meanwhile);
* `MovesChosen` (`MovesAreChosen`) from `OneWaits`: while the game goes on, at most
  one timer, search or legality check of the current generation is under way, for
  the player to move, so nobody else can put down a stone before it does. The
  property excepts what `LooseEngine` and `LooseHuman` name (section 3).

### The session

`Session_proofs`, for any pages, connections and times: `TypeCorrect`,
`SessionsAreCounted` (`active` is the number of held sessions, and a connection stays
free for the launcher's question) and `PagesAreServed` (`OpenPageIsServed`, an
action property). They rest on `SessionAssumption` and on `PatienceAssumption`, which
says how the numbers of three files must fit together:

* a session is longer than a check takes to come and be answered
  (`CheckEvery + AskFor < HoldFor`; in ticks of the program 5 + 10 < 100);
* `(MaxLost + 1) * GapChecks < CloseAfter`, where `GapChecks` is how often the launcher
  can look while a page is between two sessions. With a retry of 250 ms, which
  is 2 ticks, and 5 ticks between checks, `GapChecks` is 1 while a request and the
  reply before it take up to 0.4 s, so with 5 checks three requests may be
  lost; up to 1.4 s it is 2, and one may be;
* the patience before the first session is not shorter than after it (60 and 5);
* fewer pages are opened than there are connections.

The second is sharp: with the assumption taken out and otherwise the instance of
`session`, TLC finds an open page overlooked when two requests are lost, and also with
`CloseAfter = 4`, which is just `(MaxLost + 1) * GapChecks`.

`OpenPageIsServed` is far from inductive. `PatienceInv` accounts for every check
without a session that was answered while the page was open: those of the present
gap, of which the time that has gone by allows `GapChecks` (`GapInv`), and `GapChecks`
for each request that was lost. A gap can only be followed by another without the
launcher's having seen the session between them if its question was lost
(`HoldInv`: while a session is not yet seen, the launcher asks before it ends).
`HeldInv` and `CountInv` say which connection holds a page's session, and that
every session, abandoned ones included, comes from a page that was opened for it,
from which a connection is always free.

### Requests

`Connection_proofs`, for any number of connections, any messages, limits, sizes of
the pieces `recv` returns, and any handlers:

* `SlotsHeld` (`SlotsAreHeld`) and `AnalysesAreLimited` (never more analyses than
  slots);
* `RepliesAreRight` (`ReplyIsToRequest`): the reply depends on the bytes sent alone.
  `Progress` ties where a request is to the bytes it has received: while the head is
  being read, its end is not in them; afterwards it is, within the limit and without
  error; in the handler the declared body has arrived. It rests on
  `HeadEndOfPrefix`: the end found in a part of the bytes is the end in all of
  them, and one not found lies behind.

The assumptions are that limits are positive, connections finitely many, and what
`WorkloadAssumption` says of messages (their types).

### Who wins

`Lines_proofs`, for a board of any size: `WinsAgreeEverywhere`, in every position,
reachable or not, for every empty point, either player and either rule;
`WinsAlike` (`WinsAgree`) follows for the runs of `LinesRun`. The evaluator skips a
player with fewer than four stones and points without one beside them, which is
right because a line of five through the point has four (`FourStones`), one of
them next to it (`OneBeside`). `Rules::winners` looks only from the first stone of a
line; a line through the point is found from its first stone (`PlacementIsFound`),
and a line that was not there before goes through the point
(`FoundIsPlacement`). `RunIs` and `RunUnique` characterise a run by the first stone
that is not of its colour.

### Only model-checked

* Everything that must eventually happen: the prover has neither fairness nor
  ENABLED.
* `LineGame`, `Search`, `SearchRun` (`ScoreIsMinimax`, `TableIsSound`, `ProofsHold`,
  `MateScoresHold`, `LineIsPlayable`), `Rules` and `RulesRun` (`ForbiddenIsRenju`), `Json`,
  `JsonGrammar`, `Api` and `Requests` (`BodiesAreUnderstood`): their operators are recursive
  or rest on recursive ones, and what a recursion computes for every input needs an
  induction the installed provers cannot use. `Lines` and `Connection` are the parts
  of rules and requests that could be separated from them.
* What the two violations show (`http_wait`, `web_serial`): these are counterexamples.

## 5. What is not modelled

The budget of time of the engine's moves, shape scores and move
ordering beyond what the properties above need (tuning); the text of header
lines, responses and static files; building and opening the browser in the
launcher; drawing and dialogs of the client; the build.
