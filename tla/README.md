# GNU Backgammon in TLA+

TLA+ modules for the parts of GNU Backgammon (`src/gnubg`) that are hard to get right and hard to
test: the thread pool that analysis, rollouts and calibration run on, the counts that the threads of a
rollout share, the evaluation cache and the bear-off files that all threads read, the analysis, the
match in progress, whose list of records and whose state `ms` every command changes together, and the rules of
movement with the codecs of boards, matches and moves. TLC checks them on small instances; TLAPS
proves the invariants of the threads' components, and that the pool and the cache implement their
abstract specifications, for any number of threads.

## 1. The system

| component (files) | state | operations | interacts with |
|---|---|---|---|
| thread pool (`multithread.c`, `mtsupport.c`) | `td`: the task list, the event `activity`, `queueLock`, the counters `addedTasks`, `doneTasks`, `totalTasks`, `result`, `closingThreads` | `MT_AddTask`, `MT_WaitForTasks`, `MT_SetNumThreads`, `MT_Close`, `MT_AbortTasks`, the worker's loop | called by analysis, rollout, calibration and `gnubg.c`; chooses the evaluation functions that lock the cache |
| barriers (`MT_SyncStart`, `MT_SyncEnd`) | two static counts, two events | one barrier before and one after the timed evaluations | `speed.c` |
| evaluation cache (`lib/cache.c`, its use in `eval.c`) | entries with a lock and two slots each | lookup, add, flush, resize | evaluation in every worker; flushed and resized by `set met`, `set cache`, `clear cache`, `calibrate` |
| rollouts (`rollout.c`) | trial counters, sums and stop flags shared by workers | `RolloutGeneral`, `RolloutLoopMT` | pool, cache, dice |
| match (`play.c`, `SetTurn` of `set.c`) | `ms`, `lMatch`, `plGame`, `plLastMove`, `fCrawfordState`, the flag or idle source for `NextTurn` | the commands of the two players, `NextTurn`, `new game/match/session`, `next`, `previous` and their relatives | read by analysis, files and display; driven by the main loop or by GTK |
| editing (`set.c`) and match ids (`matchid.c`, `SetMatchID`) | none of their own | `set board/dice/cube/turn/score/crawford/postcrawford/matchid` | change the match, with and without a record |
| moves and rules (`eval.c`, `drawboard.c`, `play.c`) | a board, a roll, the list of moves | `GenerateMoves`, `ApplyMove`, `PlayMove`, `FormatMove`, `ParseMove`, `GameStatus`, `ClassifyPosition` | match, evaluation, files |
| position ids (`positionid.c`) | none | keys, ids, numbers of bear-off positions and their inverses | cache, bear-off databases, match, files |
| bear-off databases (`makebearoff.c`, `bearoff.c`) | a hash table and files while they are made; one open file while they are read | generation, `ReadBearoffFile` under `MT_Exclusive` | evaluation in every worker |
| analysis (`analysis.c`) | in the move records: cube decisions, lists of moves, marks; statistics in the game-info records | `analyse move/game/match`, `analyse clear ...`, `AnalyzeMove` in the workers | pool, match records, saving (`sgf.c`) |
| external players (`external*.c`) | a socket and a parser | a line protocol | match |
| evaluation, equity tables, dice | floating-point tables, generators | pure | everything |
| files, database, text, GTK, 3D, sound, Python | none that is modelled | input and output | match |

What is hard: the pool mixes a lock, a manual-reset event whose wait gives up after ten seconds,
atomic counters polled by the main thread and a plain flag; the cache gives up an entry between a
miss and the add that follows and is flushed without locks; one bear-off file and its position are
shared; the match is one state kept in three places (the records, the result noted in each game's
first record, and `ms`), changed incrementally in play, edited in place and recomputed by navigation,
with values left over between the end of a game and the next; the board is seen by one of two players,
and every exchange of the sides has to be made exactly once; moves are carried out by three functions
and found again by key and by text.

What makes each part correct: for the pool, that no task is lost or run twice, that a wait returns
exactly when all has ended, with the right result, and that threads can be created and closed; for
the barriers, that nobody passes before all have come, again and again; for the cache, that a hit is
for its own key and equity table and that an entry looks atomic to the other threads; for rollouts,
that every trial is counted once, that the saved means go with the right number of games, and that a
rollout ends when it should and not before; for the analysis, that everything asked for is analysed once,
that no list of moves is read while it is gone, and that the statistics are those of the records; for the match, that the state play or editing has produced
is what the records say, that results, scores and Crawford games in the list follow from its records,
and that the turn is always the right player's; for ids, that what is written is read back; for the
moves, that exactly the legal ones are generated and that all ways to name and play one agree; for the
bear-off databases, that every record is the one of the position wanted, in making and in reading.

## 2. Modules

Threads:

* `ThreadPool` - the pool, one action per step of the code between two accesses to shared data.
  `pc[Main]` is where the main thread is in `MT_AddTask`, `MT_WaitForTasks`, `MT_CreateThreads` or
  `MT_CloseThreads`; `pc[w]` where a worker is in `MT_WorkerThreadFunction`, `MT_GetTask`,
  `MT_AbortTasks` or `CloseThread`. `tasks`, `activity`, `queueLock`, `doneTasks`, `addedTasks`,
  `totalTasks`, `result`, `closingThreads` and `numThreads` are the fields of `td`. `locking` says
  which evaluation functions `MT_SetNumThreads` has installed. `fate` is history: what became of
  each task. A job may succeed, report failure (`MT_SetResultFailed`) or abort the rest
  (`AnalyseMoveMT`). The creation of the threads is one step (`MT_CreateThreads(S)`, S the threads
  that could be created).
* `TaskBatch` - the abstract specification: every task that is added is taken and ends once, and a
  wait returns when all have ended, reporting failure exactly if a job failed. `ThreadPool`
  implements it with `failure <- reply = -1`.
* `ThreadPoolProofs`, `SyncBarrierProofs`, `EvalCacheProofs`, `RolloutProofs`, `MatchProofs`,
  `AnalysisProofs`, `BearoffProofs` - theorems about the modules they are named after; `Numbers` - lemmas
  about natural numbers, maxima and sums.
* `SyncBarrier` - the two barriers of the calibration, with the plain `count--` as a read and a
  write, over repeated iterations.
* `EvalCache` - `lib/cache.c` and the evaluations that use it. A thread's step is the code between
  two accesses to an entry: taking the lock (of x86, or the portable one that counts up and down),
  comparing, promoting and demoting, copying out, shifting, writing key and value, unlocking.
  `stack[t]` are the evaluations a thread is in: one that misses evaluates others before it adds.
  Main changes the equity table (`met`), the size, the number of threads, clears and calibrates when
  no job runs. A value is modelled by the key and the table it was computed for; a thread that
  indexes outside the table has `pc = "crashed"`.
* `TwoSlotCache` - the abstract specification: an entry holds the two results used last, and using
  or adding one is a single step. `EvalCache` implements it; the refinement mapping `Settled` shows
  an entry as it will be once the thread inside it has finished.
* `MCEvalCache` - three keys, two of which share every entry, one request for two results.
* `Rollout` - `RolloutGeneral`, `RolloutLoopMT`, `check_jsds` and `check_sds`. The threads'
  variables are `pc`, `alt` and `trial`; `altTrialCount`, `altGameCount`, `fNoMore`, `nGamesDone`
  and `ro_NextTrial` are shared. What depends on the results of games, whether an alternative may
  stop, is a free choice within the tests the code makes of the counts. `counted` is history: how
  often the game of each trial was added up.

Analysis:

* `Analysis` - `analysis.c` on top of what `TaskBatch` promises of the pool (`Pool`; a task is the move
  record it is for, a double's with its answer). A command becomes `todo`, the records it goes over in
  their order (`First`) and adds tasks for, and then waits. A worker's step is what `AnalyzeMove` does between two moments when it gives up
  `MT_Exclusive`: `begin`, the end of the evaluation of the cube, the end of that of the moves. Results
  are the levels of the settings they were found with. `amMoves` and `cMoves` are the list and its
  length, `sc` what the statistics of a game have counted. `crashed` is the record whose list was read
  while it is `NULL`; nothing happens after that. `lost` are the records whose list an interrupted
  evaluation has left so, and `remade` (history) whether the timer has saved during the command and the
  save at its end, which may find no file to write, has not. Between commands the user clears, saves and changes settings; during one he interrupts, and
  the timer of `MT_WaitForTasks` saves.
* `MCAnalysis` - two games and four choices of settings; one game and two levels for `analysis_autosave`.
* `AnalysisProofs` - the inductive invariant of `Analysis` and what is proved from it (section 4).

Match:

* `Match` - `play.c`. Records are TLA+ records (`Info`, `Rec`, `Normal`, `Resignation`);
  `ApplyMoveRecord`, `FixMatchState`, `AddMoveRecord`, `CalculateBoard` and `NewGame` are operators
  of the same names on the pair of match state and lists, and each command is an action. The board
  is abstracted to the number of men each side has left, seen from the player on roll, so that a
  missing or superfluous `SwapSides` is visible; dice are rolled or not, and the opening roll of a game
  may fail.
* `MatchID` - what the fields of a match id keep of a match state, bit for bit, and which ids are
  refused.
* `MatchEdit` - the commands that edit a match: those that leave a record (board, dice, cube), those
  that change `ms` and the game's first record in place (turn, score, Crawford), and `SetMatchID`,
  which builds a match of one game and gives the commands that lead to the id's state.
* `MCMatch` - `Match` as two players use it: a resignation is answered before anything else is done.
* `MCMatchHistory` - the same with going back. The variable `way` says whether the players only look at
  earlier positions (`review`) or also play on from them (`replay`).
* `MCMatchEdit` - play with `MaxEdits` edits. `recorded` is history: whether the records hold what
  was set.

Boards:

* `Moves` - boards of 25 points a side, `GenerateMovesSub`, `SaveMoves`, `LegalMove`, `ApplySubMove`,
  `ApplyMove`, `GameStatus` and `ClassifyPosition`.
* `PositionId` - keys, position ids, old keys, combinations, numbers of bear-off positions and their
  inverses, `CheckPosition` and `ClosestLegalPosition`.
* `MoveNotation` - `FormatMove`, `ParseMove` and the canonical order of a move's steps. A text is the
  sequence of its parts.
* `ChequerPlay` - a game of those: roll, the list of moves, a move typed as it was shown, `PlayMove`,
  the result. Its rules of movement (`LegalPositions`, `OnTheWay`, `ResultByRules`) are written anew,
  one man and one die at a time, and are what the code's algorithms are compared with.
* `MCChequerPlay` - the starting positions.
* `Bearoff` - `makebearoff.c`: the loops over positions and rolls, the hash table, the file written
  so far, compression and the index, the finished file; and the heuristic database of `bearoff.c`. A
  record is modelled by the position it is for, a file by what each of its bytes belongs to.
* `BearoffRead` - `bearoff.c`: opening a file and threads that look positions up in it, each seek
  and read a step, under the lock `MT_Exclusive`; one read may fail.
* `MCBearoff` - the databases that are made and the positions asked for, some of them too large for the
  word they are given.

## 3. Runs

| run | what it shows |
|---|---|
| `pool` | for all interleavings: mutual exclusion, no lost wake-up, no task run by a thread whose data is freed, jobs run only by threads that share as the installed functions assume and closing tasks only while closing; the pool implements `TaskBatch`; under fairness every wait for jobs returns, and so does the creation of threads that can be created |
| `pool_close` (violation) | closing may wait for ever |
| `barrier` | until a wait runs out nobody passes early and the barriers are reusable; iterations end |
| `cache` | a hit is for its key and table; no entry is used by two threads; only the known sizes lead outside the table; with the lock of x86 every access gets its entry; the cache implements `TwoSlotCache` |
| `rollout` | trials counted once, means weighed by their games, all trials or the minimum done and no more than asked for, rollouts that end, and for a reason |
| `match_history` | results, chain of scores and Crawford games, when players look back but play on from the end; live state equals replayed state, and NextTurn's assertion, also when they play on from earlier positions |
| `analysis` | a command that is not interrupted has analysed what it should, a double and its answer alike; the statistics are those of the records, unless a last save that fails leaves what an earlier one has counted; a list of moves is read while it is gone only where an evaluation has freed it and still runs or was interrupted; every command returns |
| `analysis_autosave` (violation) | a save during an analysis reads a list that is gone |
| `match_edit` | whose turn it is, the cube's limits (sessions with automatic doubles and beavers among them), a position that survives its match id, and edits that the records lead to again, with NextTurn called when GTK is idle |
| `match_stale_winner` (violation) | a game gone back into keeps its old winner |
| `board` | legal moves are exactly those of the rules; `ApplyMove`, `PlayMove` and the key of a move agree; moves are read as they were shown; positions survive ids, keys and files; results by the rules; a race stays a race |
| `bearoff` | every lookup, from the hash table, the file being written or the finished file, gives the record of the position wanted; moves lead to smaller positions; generation ends; two readers of one file get what they asked for; all of it for databases whose offsets and keys do not overflow, and what happens to the others |

Bounds.

* Pool: three workers let one worker take a task while another aborts and a third looks at the flag;
  three tasks let a list be filled, emptied and filled again in one batch. Barriers: three threads (a
  first, a last and one between), and `MaxTimeouts` = 1 wait that runs out; the iterations are not
  bounded, since the state repeats.
* Cache: two threads, sizes that give one and two entries (1 and 3, from 2 at the start, and 0 while
  calibrating), three keys so that an entry of two slots overflows, evaluations one inside another,
  and memory that cannot be had. Numbers of threads, tables and sizes change without a bound.
* Rollout: two threads, two alternatives, two or three trials with a minimum of two games, and
  `MaxCalls` = 2: one extension.
* Analysis: two workers, so that one evaluates while the other aborts, judges or counts; two games, one
  with a move and a double that is dropped, one with a move from the initial position, whose cube is not
  analysed, and a double that is not answered. `MaxCommands` = 2: an analysis of what another has
  analysed, cleared or left unfinished, with settings that are higher, lower, for one player, or for
  cube or moves only. Saving is not bounded, so a list that is analysed, analysed again at a higher level and
  interrupted is still read afterwards. `analysis_autosave` has one game of two moves and two levels, the least
  in which a list is freed to be replaced.
* Match: two games for a Crawford game and three for the game after it; one or two men to bear off
  let a game end in two or three records, singly or in a gammon; a cube of at most 4 or 8 lets its
  limit be reached. `MaxRecords`, `MaxGames` and `MaxRolls` bound the lists and the automatic
  doubles; the guards `Room` and `Len(...) < MaxGames` enforce them. `match_history` has one man a
  side and, the game-info record among them, up to four records a game, so that a move and a double that
  is taken fit into one (three in the second game of `replay`, two in the third of `review`, which is
  there for its score and its Crawford rule). `match_edit` has one game of up to six records in a session or five in a match to two points and
  `MaxEdits` = 2: the second edit meets what the first has left. Boards that are set have two men on
  one side and one on the other, so that an exchange shows; scores are a number from the
  start, one from the end and the two marks, for each player; ids are that of the position itself and
  of the same with the other player on roll.
* Board: games of one man a side to the end with every roll; the five variations' first positions;
  positions in which the rules are difficult (men on the bar, closed homes, one die blocked after the
  other, blots on the way, bearing off with larger numbers, the last man) for one or two turns.
* Bear-off: one to three points, 15 men for one-sided and two or three for two-sided databases, four
  men in the heuristic one, with and without header, compression, gammons and cube; hash tables of
  none, few and enough elements. How many elements of a distribution are not zero is arbitrary and
  differs from position to position. Readers ask for positions at both ends of the file. `MAX_N`, the
  rows of the table of combinations, is 33 (40 in the code): the largest database that is made, 13 points
  and 15 men, needs 28. `nWord`, the number of values of an `unsigned int`, is 4096, more than any offset
  or key of these databases, as 2^32 is for those that are usually made; four databases have 64 to 1024
  instead, so that they overflow where the largest do with 2^32.

`CHECK_DEADLOCK FALSE` is stated for the pool, where MT_Close ends the program and a close that waits
for ever is the subject of a run of its own; for the barriers, where a thread may wait for an event
that nobody will set once `MaxTimeouts` is used up; for the cache, where nothing is left to model once
a thread is outside the table; for the bear-off databases, where a program stops and a thread waits
for a lock that a failed read has kept; for the board, where a game ends; and for the match, the
analysis and the rollout, which stop at their bounds.

Fairness. `ThreadPool!Fairness` is weak fairness of each worker and of the main thread once it has
begun a call (the operating system schedules runnable threads, a job ends), strong fairness for
taking `queueLock` (a mutex free again and again is at last obtained) and weak fairness of the wait
that follows the adding of tasks (every caller waits). A ten-second timeout is never fair: nothing
depends on it. `SyncBarrier!FairSpec` is weak fairness of each thread. `Rollout!Fairness` is weak
fairness of each thread and of the return of `MT_WaitForTasks`, which `ThreadPool` shows to follow,
and strong fairness for taking `MT_Exclusive`; that a user interrupts is never assumed.
`EvalCache!Fairness` is weak fairness of each thread's steps and strong fairness of `Lock`, the test
and set of x86, which an unlocked entry lets pass; the portable lock gets no such promise, since two
threads that count up and down can keep each other out for ever, and `LockObtained` leaves it out.
`BearoffRead!FairSpec` is weak fairness of the program that makes a database and of each reader and
strong fairness for taking `MT_Exclusive`; that a read fails is never assumed. `Analysis!FairSpec` is weak fairness of the main thread once a command has begun and of each worker (an
evaluation ends); the timer, the user and an interrupt are never fair. `Match` and
`ChequerPlay` have no liveness property: players need never act.

### Conditions, and what happens without them

The conditions in the properties and in the MC modules are as weak as the code allows: TLC refutes the
properties without them. What it finds there, beside the violation runs:

* Threads. A thread that cannot be created is waited for without limit (`multithread.c:189`):
  `WaitsReturn` promises the creation only if every thread is. A barrier gives up after ten seconds
  although its comment says that it waits for all (`multithread.c:367`), and two threads can then lose
  an update of the plain `count--`, which is static and stays wrong: `Together` and `Reusable`, the
  parts of `BarrierInv`, say `timeouts = 0`.
* Cache. With a size of 1, or after an allocation that failed, an index lies outside the table
  (`lib/cache.c:98`): `StrayKnown`, a part of `EntriesGuarded`, says that only these do.
* Rollouts. An interrupt, or a stop in the middle of a trial, leaves games whose trial numbers an
  extension uses again: `TrialsOnce` is about one call (`rollout.c:1403`). The same happens when a
  move is resumed between the reserving and the giving back of a trial, under the rule for equities.
  The sides of a cube decision can end with different numbers of games, although `check_sds` says
  they should not (`rollout.c:1111`), and under the rule for equities the second side with fewer than
  the minimum (`rollout.c:1053`); `ResultsWeighed`, `TrialsOnce` and `Complete` (in `EndsRight`) are
  about moves. Trials are numbered from 0 and refused only above `cGames` (`rollout.c:1142`), "the upper
  bound on trials" (`rollout.c:1416`). A first rollout ends before a thread takes the number `cGames`, but
  an extension counts from the alternative with the fewest games, and one that has had its trials already is
  given another: `Complete` says only of first rollouts that nobody has more (`calls = 1`).
* Match. `new game` after going back to the end of an earlier game keeps the games that followed it
  (`play.c:2772`), and `fCrawfordState` is then that of another game (`play.c:811`): `Chain` and
  `Crawford1` claim `MatchChain` and `CrawfordRule` for `review` only, and `Results`
  `ResultIsReplayed`. `resign` while a resignation is pending turns `fTurn` again (`play.c:3900`), `next` over a double while one is pending swaps the sides
  (`play.c:4234`), and `drop` after the doubled player has offered to resign concedes the game for
  the doubler (`play.c:2468`): hence "answered before anything else". If the dice of the
  opening roll fail, `NewGame` goes back to the first game of the list, not to the one it came from
  (`play.c:785`); if there is none, because `new game` has just discarded it, `plLastMove` stays a freed
  record: guard of `CommandNewGame`. `StartNewGame` then reads the player on roll although there may
  be none (`play.c:2755`). With GTK a command may come
  between TurnDone and the idle NextTurn and take the match to a state that NextTurn's assertion
  excludes (`play.c:1840`), if it navigates.
* Display, hence `fDisplay = TRUE` in the runs and `Shown` in the theorems. The cube is turned for an
  automatic double inside the arguments of the message that reports it (`play.c:880`). With `set
  display off` the game's record counts a double and the cube of the game in play stays at 1, although
  "the stakes are doubled" (`doc/gnubg/gnubg.texi:553`); and the limit is never reached, since the test
  for it looks at the cube. The proof of `LiveIsReplay` failed on it: with `fDisplay = FALSE`, `MatchLengths
  = {0}` and `MaxRolls = 1`, TLC refutes `CubeLimits` in the first step.
* Analysis, lists. An analysis at a higher level frees the list of a record and keeps its length until
  the new list is there, and gives up the lock meanwhile (`analysis.c:683`). The timer, which is to save
  "during and after analysis of games and matches" (`gtkoptions.c:1542`), can come in between, and
  `SaveGame` then writes moves from a list that is `NULL` (`sgf.c:2190`): `analysis_autosave`. After an
  interrupt the record stays so, for any save, and for an analysis at the level it was analysed at
  before. Nothing keeps these states away in the model; `ListsThere` names them, and says that no
  other step leads to a list that is read while it is gone. A record analysed for the first time is safe,
  since its length is 0.
* Analysis, statistics. A save makes the statistics of a game anew from its records (`sgf.c:2097`), also in
  the middle of an analysis whose workers then add the rest. What they add of records that were
  analysed before is counted twice until the save at the end of the wait; that one returns early if it can
  make or open no temporary file (`gnubg.c:5453`), and the sums stay as they are: `StatisticsAgree` says
  `~remade'`, and TLC refutes it without.
* Also of the analysis, and within what the properties say: a double that is the last record, or that is
  not an ordinary one, is not queued (`analysis.c:986`), nor, in the code, freed; `analyse move` on
  a double leaves the mark of its answer as it was; so does an interrupt between the two; an analysis
  with the cube switched off or not in use drops the cube decision of a move (`analysis.c:658`); the
  level noted with a list is the one asked for last, so a list may be better than its label, and a
  later analysis at a level between replaces it. `CommandAnalyseMatch` does not look at the result of
  its wait, so "erase partial summary" (`analysis.c:1205`) is reached only if the interrupt comes while tasks
  are still being added; `scMatch` is made anew before it is shown.
* Editing, hence the guards of `MCMatchEdit!Edit`. `CancelCubeAction` (`play.c:1617`) takes a double
  back but leaves `fTurn` with the player who was to answer, so `set score` or `set crawford` while a
  double is offered leaves the wrong player's turn, and the double stays in the list. `set board` while
  a resignation waits leaves `fTurn` in the same way. `set turn` exchanges the sides if `fTurn` is not
  the player wanted, although the board is the other one's while a double waits. `set dice` while a double
  is offered lets the doubler move: a double and a move of the same player, between which
  `FixMatchState` exchanges the sides when the game is gone through again. `cBeavers` stays as it was
  when a beaver is edited away.
* Match ids. Who is on roll is in no record that a loaded id leaves if the dice have not been rolled,
  despite the comment in `set.c` that "this way the player turn is stored": `previous` and `next`
  give the position to player 0. This is why `recorded` starts again when an id is loaded. An id loses
  a resignation and keeps the `fTurn` it turned, gives a beaver to the wrong player when it steps the
  double back, and loses the cube's value in a Crawford game whose cube is not 1: conditions of
  `IDLoadsBack`. An id with a score equal to the length of the match is accepted, but
  `AddMoveRecord` asserts smaller scores (`play.c:606`): guard of `SetMatchID`.
* `set score` with a third number sets the length of the match even if the scores are refused, and
  does not write it into the game's record; a Crawford flag can so be left on in a session, whose id
  is then refused. The runs give no third number. `set crawford` after the end of a game writes into
  the record of the finished game. `set postcrawford` with an argument that is neither on nor off sets
  `fCrawford` all the same, from `fPostCrawford` as it was (`set.c:2765`): `BadToggle`.
* Bear-off databases, hence `KnownToStop` and the condition of `LookupRight`. `TSLookup` reads eight
  bytes of a cubeless record that has two, so a lookup close to the end of the file written so far
  fails and the program ends (`makebearoff.c:948`). `OSLookup` seeks behind a header that
  `--no-header` has left out (`makebearoff.c:185`). A hash table smaller than one record has no
  elements, and the index is a remainder by zero (`makebearoff.c:69`). `ReadBearoffFile` returns
  without giving the lock back when a read fails (`bearoff.c:271`), and everybody who needs it waits
  for ever: condition of `ReadersServed`, which leaves only this reason to wait.
* Bear-off databases that are too large, hence `Fits` in `LookupRight`, `ReadsRight` and `KnownToStop`. Offsets
  are computed as `unsigned int` in one-sided files (`makebearoff.c:185`, `261`; `bearoff.c:260`, `1138`)
  and when a finished file is read (`bearoff.c:288`), as `int` in a two-sided file that is being made
  (`makebearoff.c:943`), as are the keys of the hash table (`makebearoff.c:1064`, `1205`). `Fits` says
  that the file and what comes of its positions stay within that: about 4 GB of a one-sided file, 2 GB of a
  two-sided one. The manual gives 2 GB as the limit, but nothing tests it: 13 points without compression
  are accepted, and a lookup there reads the record of another position without a message, as TLC shows
  when `LookupRight` does not say `Fits`. Beyond `Fits` an offset that
  overflows an `int` leads to what it is modulo 2^32, to bytes of several records or to the end of the
  program, since C does not define it; a negative index of the hash table finds nothing and enters
  nothing, or ends the program: what else it overwrites is not modelled. `long` has 64 bits, as
  on the systems where files of this size exist.
* Moves and boards: no condition was needed.

## 4. Proofs

The theorems hold for every value of the constants that the assumptions in the modules allow, and for
any interleaving. Each proof has one step per action, and under it one per conjunct of the invariant
that the action can disturb; what a thread's step leaves to the other threads is stated once, in a
frame lemma (`Alone`, `OthersStay`), and used for every action. TLC has checked each inductive
invariant on the instance of the component's run before it was proved.

`ThreadPoolProofs`, for any `MaxThreads` and `MaxTasks`:

* `TypeCorrect`: `Spec => []TypeOK`; `MutualExclusion`: `Spec => []MutexInv`; `WakeupsKept`:
  `Spec => []NoLostWakeup`, the event is signalled exactly if the list is not empty, whenever the queue
  is unlocked. Types need to know that a worker that is off has no lock to release (`OffInv`), and
  `NoLostWakeup` speaks only of the moments when nobody holds the lock, so `EventInv` states what the
  event is at each place inside the lock. `IInv` is the conjunction of `TypeOK`, `MutexInv`, `OffInv`
  and `EventInv`.
* `TasksRunInTurn`: `Spec => []TasksInTurn`; `Refines`: `Spec => Implements`, every step of the pool is
  one of `TaskBatch` or leaves it alone. They need the whole life of a task: what each worker has in
  hand at each place (`HandInv`), that all tasks about are of one kind, jobs or closings (`FunInv`),
  that no task is in two places and its fate is that of its place (`PlacesInv`), that tasks are numbered
  as they are added (`AddInv`), and that `doneTasks` is the number of tasks that have ended except those
  a worker is just about to count (`CountInv`): so when main finds the counters equal, nothing is left
  in anybody's hands, and `result` is -1 exactly if a job failed (`ResultInv`).

`SyncBarrierProofs`, for any set of threads: `BarriersHold`: `Spec => []BarrierInv`, of which `Together`
and `Reusable` are parts. `count--` is not atomic; that it loses nothing follows from `LastInv` (the last
to arrive finds everybody else waiting, and nobody can leave before it has signalled), `OpenInv` and
`LeaveInv` (the thread that resets the event was the last to be counted out). Everything is about
barriers at which no wait has yet run out of time.

`EvalCacheProofs`, for any keys, hash function, requests, sizes and threads: `GuardsHold`
(`EntriesGuarded`), `HitsMatch` (`HitMatches`) and `Refines` (`Implements`: the cache is a
`TwoSlotCache`). The invariant: where a thread can be and what it then has (`PlaceInv`), the lock of an
entry counts the threads inside and those that are about to count back (`LockInv`), every slot is empty
or holds the result of its key, but for the first slot of an entry to which a thread is adding
(`SlotInv`), and what a thread has found out about its entry stays true until it uses it (`FoundInv`).

`RolloutProofs`, for any number of threads, alternatives, trials and calls: `EachTrialOnce`
(`TrialsOnce`), `RolloutEndsRight` (`EndsRight`) and `MeansWeighed` (`ResultsWeighed`). The invariant:
the trials given out are ahead of the games counted by those that threads have in hand (`TakenInv`), a
number given back was too high (`HighInv`), no number is played twice (`OnceInv`), one thread judges at
a time and its count stands for the alternatives it has still to judge (`JudgeInv`), also between the flags of the
two sides of a cube decision, which are set one after the other, an alternative is
stopped only after the minimum of games (`StopInv`) and those in play keep step (`LagInv`), none in a first
rollout ahead of the trials begun (`FirstInv`), and threads end for a reason (`EndedInv`).

`MatchProofs`, for any settings, boards of any number of men, matches and games of any length, and any
going back and playing on: `PlayIsReplay` (`LiveIsReplay`), `TurnsFollow` (`WhoseTurn`), `NextTurnSafe`
(`NextTurnAssert`, where NextTurn is called at once, `~fX`) and `CubeWithinLimits` (`CubeLimits`). They
are about `ReplaySpec` of `MCMatch`: every command and every way of going back, a resignation being
answered first. Each step of `match_history` is one of its steps. Of `HistorySpec` of `MCMatchHistory`,
but with any number of games and records: `ResultsReplay` (`Results`), `GamesChain` (`Chain`) and, with
automatic Crawford games and at the terminal (`fAutoCrawford`, `~fX`), `CrawfordGame` (`Crawford1`). With
GTK `new game` may be read before NextTurn has looked at the game that has just ended, and then goes by an
old `fCrawfordState`: TLC refutes `Crawford1` there in a few steps. All seven assume `Shown`: the doubles
of the opening roll are displayed or there are none, for the reason given above; and
`CubePowerAssumption`, that the largest cube is a power of two and not below `MAXSCORE` (1 << 12 and 64 in
the code). Along which lines:

* None of the first four is inductive, since going back makes the match state from the records: what holds
  of the match state must hold of every position that the records lead to. `Valid` says that the list is
  one of games (`GoodGame`: each record is `Legal` in the `Sound` position the ones before it lead to),
  that the cursor is in it, and that the match state is `Related` to `Replayed(G, k)`, the position that
  the first k records of the game lead to from nothing: alike in all that `Position` tells apart, but for
  the turn that an offer to resign hands over; before the first move only cube, score and the start of a
  game are alike, since the winner of the opening roll may be known or not.
* The first part of `MatchProofs` proves what that needs of the operators: which fields each kind of record changes and
  that it makes alike states alike, although the code leaves some fields stale (`Alike`); that
  `FixMatchState` does the same to both; that a legal record leads to a sound position, or to the end of
  the game with its winner noted; and that `CalculateBoard`, a fold over the records, goes from one to the
  next (`Steps`), whatever state it begins from.
* Then there is a lemma for every operator that commands share (adding a record drops the ones
  after the cursor; a new game; going to a record), and one for every command.
* `Limits`, for the cube: in every position the records lead to, the cube is a power of two and what it
  would be at if the double offered were taken is at most `MAX_CUBE`. The tests of the code differ (a
  double looks at `MAXSCORE` or `MAX_CUBE`, a beaver at half of `MAX_CUBE`, `ApplyMoveRecord` at
  `MAX_CUBE`), and each is enough only because of this form: powers of two below a power of two double to
  at most it.
* `Past`, for results and scores: in each game of the list the winner and the points that the game-info
  record notes, or that there is none yet, are what its records lead to (`Told`: going over them writes
  the same again, whatever was noted before), and each game but the first begins with the number and the
  score that the game before it ends with (`Chained`), which has ended. A command that adds a record does
  it to the last game only, since the cursor is there; going back writes nothing new (`Retold`); and a
  game that `new game` discards is the last one, so the list that is left is `Past` and the match state
  goes on from its end (`MayBegin`).
* `Once`, for the Crawford game: it is the game after one that brings a player to one point from the match
  with nobody there before; from then on somebody is (`Short`), so there is no other. There is no double
  in it because a double asks `ms.fCrawford`, and `Marked` says that the flags of the match state are
  those of the game at the cursor. `Crawford1` does not follow from the list alone: whether the next game
  is the Crawford game is carried in `fCrawfordState` from the end of a game to whatever begins the next
  one, past a new game that is discarded, dice that cannot be had and any going back. `FlagInv` says what
  it tells: of a game that has ended and that NextTurn has seen (`Done`), whether the next is the Crawford
  game; otherwise, whether the last game of the list is one. NextTurn sets the flags of the match state
  for the game to come: they then need not be those of the game at the cursor, but only until something
  else happens.

`AnalysisProofs`, for any games, settings, workers and commands, and saves, clears and interrupts at any
time: `ListsAreThere` (`ListsThere`), `AnalysisIsComplete` (`AnalysisComplete`) and `StatisticsAreRight`
(`StatisticsAgree`). What is inductive is `Always`: while the program runs its state satisfies `Inv`, and
when it has ended it is in one of the ways that `ListsThere` names. Along which lines:

* Two workers never have the same record in hand, which is what makes it safe to give up the lock: a
  record is that of a task taken, of which there is one holder (`HandInv`), or the answer to the double of
  such a task, and an answer is never queued in a game or match (`TodoInv`, `RecApart`).
* A list whose length is not 0 is there, or a worker that is still evaluating moves has it in hand, or
  one that had it was interrupted and the record is in `lost` (`ListInv`); a level is noted only with a
  list of that level, or one of these two. A command that is not interrupted gives every record it
  analyses a list again (`Complete`).
* Each record to be analysed is queued, in hand, or the answer to such a double, or `Complete`
  (`DoneInv`); a worker brings the error of a double, as it now is, to the answer.
* A record that is still ahead of the workers is not in the statistics of its game, and one they are done
  with is in them once and as it is, except where a save is going to make them anew (`TallyInv`). That
  needs to know that tasks are added only after the statistics of the game have begun again, and that in a
  command that is not interrupted no task fails and so none of them is erased at the end (`ScInv`).
  Contributions to a bag commute, hence the order of the workers does not matter.
* What a step of a worker does to its record is stated once (`Stepped`: the frame, where the worker
  goes, how it leaves the record), proved for every path through `AnalyzeMove`, and each part of the
  invariant is shown to follow from it; `Handles` does the same for taking and ending tasks, and `Rest`
  for the moments between commands.

`Numbers` has what these proofs need of numbers: every set of naturals has a least element, every finite
one a greatest, and the fold of the library over a finite set adds up (`SumOf`, `TotalPlusOne`).
Induction on naturals is by the least counterexample, since the theorems of the library that state it
take an operator as an argument, which the provers cannot do.

`BearoffProofs`, for any databases of at least one point and one man, at most the points of a board and
the men of a side, and at most `MAX_N` of both together (`JobsAssumption`: any size of the hash table,
with or without header, compression, gammons and cube; the heuristic one of six points and without a
hash table, as it is made), any number of non-zero elements in a distribution as long as there is
one (`NonZeroAssumption`), any number of readers, failed reads and positions of the database asked for
(`ReaderAssumption`, `AskedAssumption`), and for an `unsigned int` of any size (`nWord`, a multiple of 8,
2^32 in the code): `ReadersGetTheirs` (`ReadsRight`) and `LookupsRight` (`LookupRight`), for the databases
whose offsets and keys do not overflow that int (`Fits`);
`GenerationStops`, the safety half of `GenerationEnds`: a program that stops has been asked for something
that `KnownToStop` names, a database that does not fit among it; and of what the code asserts, which `MovesDescend` states, two of three parts:
the moves compared for a roll lead to positions with smaller numbers (`MovesLeadDown`, `makebearoff.c:427`),
and the board of a number has that number (`NumbersReturn`, an instance of `NumbersGiveBack`, which holds
for all numbers of positions that the table of combinations is made for). Along which lines:

* A database has positions at all because Pascal's triangle is what it should be (`PascalRows`), by the
  least row that is not. `CalcPosition` gives a square of positions to one place each (`CalcInjective`,
  `CalcRange`), those with a smaller sum before (`CalcOrder`), and the next step of the loops to the next
  place (`CalcFollows`), also from the one half of the square to the other.
* The rows that `PositionInv` and `PositionF` go through are functions defined each by the one before it,
  and exist by the least number without one; `NumbersOf` then says that the bits chosen for a number are
  added up to that number again, and that the board they are made into has those bits for its row
  (`RowOfSide`).
* A row whose ones are lower has a smaller number (`NumberOrder`), and the ones are lower if the men on
  each point and above it are no more than before, and somewhere fewer (`LowerNumber`). A man that is
  moved down or off does that (`ManDown`), and every step of `GenerateMovesSub` moves one (`SubMoveDown`).
  Its search goes at most four moves deep, so the function it is written as exists, and the argument goes
  depth by depth (`SearchIs`, `SearchDown`, `MovesDown`).
* In the heuristic database the moves are not generated but chosen by rules: whichever of the rules
  for a die applies, there is a man on the point it plays from (`PointPlayed`), so that each die played
  leads down (`PlayDown`, `HeuristicDown`), until there are no men left.
* `MakingInv`: the number of records written is the place of the position the loops are at, and each
  record is in its place. A compressed record is right if the elements that its index points at are those
  of its position (`Holds`); more elements behind them change nothing (`IndexKept`). After sorting,
  position <<us, them>> is at `us * nPos + them`.
* `Fits` is kept by every step but one that makes the file too long, and never comes back (`FitsBefore`), so
  that while it holds all offsets so far have been below the word (`WithinWord`, `KeyFits`) and their
  remainders are themselves (`Remainder`, `Small`). The parts of the invariant about what is in the
  table and in the file are conditional on it.
* `ReadInv`, as long as no read has failed: only the holder of the lock is between its seek and the end
  of its read, and the file then is where it has put it (`Exclusive`); what a reader asks for is the place
  of its record, or, once it has the index, of its elements (`Served`). The lock is given back between
  the two, and the second place depends only on what the thread itself has read.
* `LookupInv`: an element of the hash table holds the record that its key is the number of (`HashInv`), and
  the positions still to be compared have numbers below the one being computed (`TodoInv`), so that they
  have been written (`ComparedDown`, for each roll of a position that is not over): in a one-sided
  database since records are in the order of the numbers, in a two-sided one since the sides change,
  <<them, j>> with j < us, and the sum is smaller. A lookup outside the file therefore happens only with records shorter than what is read, or without the header (`StopInv`).

Only model-checked: all liveness, since fairness and ENABLED are beyond the prover; of the match, the
editing (`MatchEdit`, where `match_edit` checks `WhoseTurn` and `CubeLimits` also with records that are
set up), of the bear-off databases the third part of `MovesDescend`, that a roll has a move and the
heuristic one is among the legal ones, and what is said of the board (`ChequerPlay`). There
`GenerateMoves` is compared with the rules of the game, and text and ids with what they were made from:
these are defined by recursion over moves and characters, so that a proof would need induction over data,
for which the library's theorems cannot be used. What is proved of `GenerateMoves` is that it moves men down.

## 5. What is left out

* In `ThreadPool`: the callback of `MT_WaitForTasks` (progress), its timer (which is in `Analysis`), the
  global lock `MT_Exclusive` and builds without threads.
* In `Analysis`: luck, resignations, `set dice` and beavers, so that a double is followed by its answer or
  by nothing (`GamesAssumption`); rollouts as an evaluation of the analysis, and
  those of marked moves; the numbers in the statistics; `scMatch`.
* In `EvalCache`: the statistics of lookups; `cpEval`, the cache of the pruning net, which works the
  same way and is never flushed; settings that change an evaluation and do not flush; noise.
* In `Rollout`: the playing of games, the means and their errors, the rollout's settings changing
  between calls (except the number of trials), alternatives that join an earlier rollout, and more
  than one rollout at a time, which the program does not do.
* In `Match`: recording is always on (`fRecord`); a resignation offered with the value -1 (the
  computer decides how much); backgammons counted three; a computer's or external player's turn (it
  ends in the same records); automatic rolling (a command that follows at once); dice that cannot be
  had in the middle of a game (the command then does nothing); marked moves; other variations.
* In `MatchEdit` and `MatchID`: `set cube use`; boards given as names or files; the letters of an id
  and the bytes its bits lie in.
* In `Moves`, `MoveNotation` and `PositionId`: scores and the order of moves in the list, except which
  move stands for a position; blanks, stars and names in a text; the letters of an id;
  `PositionFromXG`.
* In `Bearoff` and `BearoffRead`: the old database that `-O` takes over, databases of normal
  distributions, `makehyper.c`, reading from mapped memory, and the numbers in a record.
* The components with status `not_modelled` in `PROJECT.json`, each with its reason: generators of
  random numbers, neural nets and equity tables are numeric; files, the relational database, display,
  sound and Python bindings are input and output. They are most of the lines of the repository.

## 6. Plan

1. Core: `ThreadPool`, `TaskBatch`, `SyncBarrier`, `Match`, `Rollout`, and the proofs about the
   queue. (done)
2. `EvalCache` and `TwoSlotCache`. (done)
3. Boards: `PositionId`, `Moves`, `MoveNotation`, `ChequerPlay`. (done)
4. `Bearoff` and `BearoffRead`. (done)
5. `MatchID` and `MatchEdit`. (done)
6. `Analysis`: queued move analyses, linked doubles and answers, statistics of games. (done)
7. `PlayerTurn`: computer and external players, dice that fail, automatic play and interrupts.
8. `Rollout` composed with the pool, and alternatives that join a rollout later.
9. Proofs: the pool with its refinement of `TaskBatch`, the barriers, the cache with its refinement of
   `TwoSlotCache`, the counts of a rollout. (done)
10. Proofs: the invariants of the match in play (`LiveIsReplay`, `NextTurnAssert`, `WhoseTurn`,
    `CubeLimits`). (done)
11. Proofs: `ListsThere`, `AnalysisComplete` and `StatisticsAgree` of the analysis. (done)
12. Proofs: the results, scores and Crawford games of the list of games. (done)
13. Proofs: making, looking up and reading bear-off databases, and that their moves lead to smaller
    numbers. (done)
