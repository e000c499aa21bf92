------------------------------- MODULE Analysis -------------------------------
(* The analysis of games and matches: analysis.c.                            *)
(*                                                                           *)
(* A command queues a task for each move record, one for a double and its    *)
(* answer together, and waits; the workers share the records.  A record is   *)
(* read and written under MT_Exclusive, which AnalyzeMove gives up while it  *)
(* evaluates: a step here is what is done between two such moments.  What an *)
(* evaluation finds is represented by the level of its settings, so that     *)
(* results of different evaluations can be told apart; 0 is none.  The pool  *)
(* is what TaskBatch promises.  Luck and resignations are left out.          *)
EXTENDS Naturals, Sequences, Bags

CONSTANTS Games,        \* of each game, its records after the game-info
          Workers,
          Settings,     \* what "set analysis" may have chosen
          MaxCommands   \* bound: the commands that analyse or clear

Game == DOMAIN Games
Player == {0, 1}
(* cube: there is a cube decision at the record, as at each double.  legal:  *)
(* the roll can be played.                                                   *)
Move == [mt : {"NORMAL", "DOUBLE", "TAKE", "DROP"}, fPlayer : Player, cube : BOOLEAN, legal : BOOLEAN]

ASSUME GamesAssumption ==
  /\ Games \in Seq(Seq(Move))
  /\ \A g \in Game : \A i \in DOMAIN Games[g] :
       Games[g][i].mt \in {"TAKE", "DROP"} => i > 1 /\ Games[g][i - 1].mt = "DOUBLE"
  /\ \A g \in Game : \A i \in DOMAIN Games[g] :
       Games[g][i].mt = "DOUBLE" =>
         /\ Games[g][i].cube
         /\ i + 1 \in DOMAIN Games[g] => Games[g][i + 1].mt \in {"TAKE", "DROP"}
ASSUME SettingsAssumption ==
  /\ Settings \subseteq [cube : Nat \ {0}, chequer : Nat \ {0}, afAnalysePlayers : SUBSET Player,
                         fAnalyseCube : BOOLEAN, fAnalyseMove : BOOLEAN, fAutoSave : BOOLEAN]
  /\ \A s \in Settings : s.fAnalyseCube \/ s.fAnalyseMove    \* CheckSettings

RecordsOf(g) == {<<g, i>> : i \in DOMAIN Games[g]}
Record == UNION {RecordsOf(g) : g \in Game}
NoRecord == <<0, 0>>
pmr(r) == Games[r[1]][r[2]]
Info(g) == <<g, 0>>

Normal == {r \in Record : pmr(r).mt = "NORMAL"}
Double == {r \in Record : pmr(r).mt = "DOUBLE"}
Answer == Record \ (Normal \cup Double)
Next1(r) == <<r[1], r[2] + 1>>

(* LinkToDouble: an answer shares the cube decision of its double.           *)
CubeDecPtr(r) == IF r \in Answer THEN <<r[1], r[2] - 1>> ELSE r

VARIABLES
  esDouble,   \* the level of each cube decision
  esChequer,  \* the level noted with the moves of a record
  cMoves,     \* has its list of moves any?
  amMoves,    \* the level of the evaluations in the list, 0 if it is NULL
  stCube,     \* what the mark of each answer is derived from
  sc,         \* the statistics of each game: a bag of what was counted
  set,        \* the settings
  op,         \* the command being run
  scope,      \* the records it is to analyse
  todo,       \* the records it has still to go over before it waits
  fInterrupt,
  worker,     \* what each worker is doing
  crashed,    \* the record whose list was read while it is NULL, which ends the program
  commands,
  fate, failure,  \* of the tasks in the pool
  lost,       \* history: the records whose list was freed by an evaluation then interrupted
  remade      \* history: has the timer saved since the command began, and the last save not?

records == <<esDouble, esChequer, cMoves, amMoves, stCube, lost>>
command == <<set, op, scope, todo, commands, remade>>
pool == <<fate, failure>>
vars == <<records, sc, command, fInterrupt, worker, crashed, pool>>

Pool == INSTANCE TaskBatch WITH TaskId <- Record

Free == [pc |-> "free", task |-> NoRecord, rec |-> NoRecord, doubleError |-> 0,
         failed |-> FALSE, got |-> NoRecord]

Init ==
  /\ esDouble = [r \in Normal \cup Double |-> 0]
  /\ esChequer = [r \in Normal |-> 0] /\ cMoves = [r \in Normal |-> FALSE]
  /\ amMoves = [r \in Normal |-> 0] /\ stCube = [r \in Answer |-> 0]
  /\ sc = [g \in Game |-> EmptyBag]
  /\ set \in Settings /\ op = "none" /\ scope = {} /\ todo = {} /\ commands = 0
  /\ fInterrupt = FALSE /\ crashed = NoRecord /\ lost = {} /\ remade = FALSE
  /\ worker = [w \in Workers |-> Free]
  /\ Pool!Init

-----------------------------------------------------------------------------
(* Statistics.                                                               *)

(* updateStatcontext: what a record adds.  A move is always counted, a cube  *)
(* action once it is analysed.                                               *)
Contribution(r) ==
  [cube |-> IF set.fAnalyseCube THEN esDouble[CubeDecPtr(r)] ELSE 0,
   chequer |-> IF r \in Normal /\ set.fAnalyseMove /\ esChequer[r] # 0 THEN amMoves[r] ELSE 0]
Counts(r) == r \in Normal \/ Contribution(r).cube # 0
Counted(R) == SetToBag({<<r, Contribution(r)>> : r \in {x \in R : Counts(x)}})

updateStatisticsGame(g) == Counted(RecordsOf(g))

(* The records whose list is counted but gone.                               *)
Gone == {r \in Normal : cMoves[r] /\ amMoves[r] = 0}

(* SaveGame for every game: the statistics are made anew, and the lists of   *)
(* moves written.                                                            *)
Save ==
  \/ /\ Gone = {}
     /\ sc' = [g \in Game |-> updateStatisticsGame(g)]
     /\ UNCHANGED crashed
  \/ /\ crashed' \in Gone
     /\ UNCHANGED sc

-----------------------------------------------------------------------------
(* The commands.                                                             *)

(* A double is queued with the record after it; one that has none is not.    *)
Linked(r) == r \in Double /\ Next1(r) \in Record
GameTasks(g) == {Info(g)} \cup {r \in RecordsOf(g) : r \in Normal \/ Linked(r)}

(* AnalyzeGame goes over the records in the order of the list.               *)
Before(r, x) == r[1] < x[1] \/ (r[1] = x[1] /\ r[2] < x[2])
First(r) == r \in todo /\ \A x \in todo : ~Before(x, r)

Command(name, R, work) ==
  /\ op = "none" /\ commands < MaxCommands
  /\ op' = name /\ scope' = R /\ todo' = work /\ set' \in Settings
  /\ commands' = commands + 1 /\ remade' = FALSE
  /\ UNCHANGED <<records, sc, fInterrupt, worker, crashed, pool>>

CommandAnalyseGame(g) == Command("game", RecordsOf(g), GameTasks(g))
CommandAnalyseMatch == Command("match", Record, UNION {GameTasks(g) : g \in Game})
CommandAnalyseMove(r) == pmr(r).mt # "TAKE" /\ Command("move", {r}, {r})

(* Mutant: cMoves is kept.                                                   *)
ClearKeepingCount(R) ==
  /\ esDouble' = [r \in Normal \cup Double |->
                    IF \E x \in R : CubeDecPtr(x) = r THEN 0 ELSE esDouble[r]]
  /\ esChequer' = [r \in Normal |-> IF r \in R THEN 0 ELSE esChequer[r]]
  /\ amMoves' = [r \in Normal |-> IF r \in R THEN 0 ELSE amMoves[r]]
  /\ stCube' = [r \in Answer |-> IF r \in R THEN 0 ELSE stCube[r]]
  /\ lost' = lost \ R
  /\ UNCHANGED cMoves

AnalyseClearMove(R) ==
  /\ esDouble' = [r \in Normal \cup Double |->
                    IF \E x \in R : CubeDecPtr(x) = r THEN 0 ELSE esDouble[r]]
  /\ esChequer' = [r \in Normal |-> IF r \in R THEN 0 ELSE esChequer[r]]
  /\ cMoves' = [r \in Normal |-> r \notin R /\ cMoves[r]]
  /\ amMoves' = [r \in Normal |-> IF r \in R THEN 0 ELSE amMoves[r]]
  /\ stCube' = [r \in Answer |-> IF r \in R THEN 0 ELSE stCube[r]]
  /\ lost' = lost \ R

Clear(R, infos) ==
  /\ op = "none" /\ commands < MaxCommands /\ commands' = commands + 1
  /\ AnalyseClearMove(R)
  /\ sc' = [g \in Game |-> IF g \in infos THEN EmptyBag ELSE sc[g]]
  /\ UNCHANGED <<set, op, scope, todo, remade, fInterrupt, worker, crashed, pool>>

CommandAnalyseClearMove(r) == Clear({r}, {})
CommandAnalyseClearGame(g) == Clear(RecordsOf(g), {g})
CommandAnalyseClearMatch == Clear(Record, Game)

CommandSaveMatch ==
  /\ op = "none" /\ Save
  /\ UNCHANGED <<records, command, fInterrupt, worker, pool>>

Interrupt ==
  /\ op # "none" /\ ~fInterrupt
  /\ fInterrupt' = TRUE
  /\ UNCHANGED <<records, sc, command, worker, crashed, pool>>

(* Mutant: the statistics of an earlier analysis are kept.                   *)
GameInfoKeeping ==
  /\ \E g \in Game : First(Info(g)) /\ todo' = IF fInterrupt THEN {} ELSE todo \ {Info(g)}
  /\ op' = IF fInterrupt /\ op = "game" THEN "none" ELSE op
  /\ scope' = IF op' = "none" THEN {} ELSE scope
  /\ fInterrupt' = (fInterrupt /\ op' # "none")
  /\ UNCHANGED <<records, sc, set, commands, remade, worker, crashed, pool>>

(* AnalyzeGame, the game-info record: the statistics begin again.            *)
AnalyzeGameInfo ==
  /\ \E g \in Game :
       /\ First(Info(g))
       /\ sc' = [sc EXCEPT ![g] = EmptyBag]
       /\ todo' = IF fInterrupt THEN {} ELSE todo \ {Info(g)}
  /\ op' = IF fInterrupt /\ op = "game" THEN "none" ELSE op
  /\ scope' = IF op' = "none" THEN {} ELSE scope
  /\ fInterrupt' = (fInterrupt /\ op' # "none")
  /\ UNCHANGED <<records, set, commands, remade, worker, crashed, pool>>

AddTask ==
  /\ \E r \in Record :
       /\ First(r)
       /\ Pool!Add(r)
       /\ todo' = todo \ {r}
  /\ UNCHANGED <<records, sc, set, op, scope, commands, remade, fInterrupt, worker, crashed>>

Waiting == op # "none" /\ todo = {}
AutoSave == set.fAutoSave /\ op # "move"

(* The timer of MT_WaitForTasks.  A save that has no file changes nothing.   *)
save_autosave ==
  /\ Waiting /\ AutoSave
  /\ Save
  /\ remade' = TRUE
  /\ UNCHANGED <<records, set, op, scope, todo, commands, fInterrupt, worker, pool>>

(* The last save, if it finds a file, makes the statistics anew.             *)
LastSave(saved) ==
  /\ saved => AutoSave /\ Gone = {}
  /\ sc' = [g \in Game |-> CASE op = "game" /\ failure' /\ scope = RecordsOf(g) -> EmptyBag
                             [] OTHER -> IF saved THEN updateStatisticsGame(g) ELSE sc[g]]

(* MT_WaitForTasks returns after a last save, which may fail, or end the     *)
(* program as save_autosave does; and for a game the statistics are erased   *)
(* if the analysis failed.  Back in the main loop, ResetInterrupt.           *)
WaitReturns ==
  /\ Waiting /\ Pool!Return
  /\ \E saved \in BOOLEAN : LastSave(saved) /\ remade' = (remade /\ ~saved)
  /\ op' = "none" /\ scope' = {} /\ fInterrupt' = FALSE
  /\ UNCHANGED <<records, set, todo, commands, worker, crashed>>

-----------------------------------------------------------------------------
(* A worker: AnalyseMoveMT (asyncAnalyzeMove for a single move).             *)

Skips(r) == op # "move" /\ pmr(r).fPlayer \notin set.afAnalysePlayers
CubeWanted(r) == set.fAnalyseCube /\ pmr(r).cube
EvaluatesCube(r) == r \notin Answer /\ CubeWanted(r) /\ set.cube > esDouble[r]
EvaluatesMoves(r) == set.fAnalyseMove /\ set.chequer > esChequer[r]

TakeTask(w) ==
  /\ worker[w].pc = "free"
  /\ \E r \in Record :
       /\ Pool!Take(r)
       /\ worker' = [worker EXCEPT ![w] = [Free EXCEPT !.pc = "begin", !.task = r, !.rec = r]]
  /\ UNCHANGED <<records, sc, command, fInterrupt, crashed>>

At(w, l) == worker[w].pc = l
Goto(w, l) == worker' = [worker EXCEPT ![w].pc = l]

(* "Need to analyze take/drop decision in sequence": the answer of a double  *)
(* is the next record of its task, and then the task is done.                *)
Goes(w) == LET r == worker[w].rec
           IN IF op # "move" /\ Linked(r) THEN [worker[w] EXCEPT !.pc = "begin", !.rec = Next1(r)]
                                          ELSE [worker[w] EXCEPT !.pc = "done"]

(* AnalyzeMove returns; after -1 AnalyseMoveMT aborts the tasks first.       *)
Returns(w, failed, doubleError) ==
  worker' = [worker EXCEPT ![w] =
    [IF failed /\ op # "move" THEN [@ EXCEPT !.pc = "abort"] ELSE Goes(w)
     EXCEPT !.failed = @ \/ failed, !.doubleError = doubleError]]

(* What follows an evaluation: the record is counted in the statistics.      *)
Count(r) == sc' = IF op = "move" THEN sc ELSE [sc EXCEPT ![r[1]] = @ (+) Counted({r})']

(* The played move is looked up in the list, and the level noted.            *)
Judge(w, r) ==
  IF set.fAnalyseMove /\ cMoves'[r] /\ amMoves'[r] = 0
    THEN /\ crashed' = r
         /\ UNCHANGED <<esChequer, sc, worker>>
    ELSE /\ esChequer' = IF set.fAnalyseMove THEN [esChequer EXCEPT ![r] = set.chequer] ELSE esChequer
         /\ Count(r)
         /\ Returns(w, fInterrupt, 0)
         /\ UNCHANGED crashed

(* The cube decision is noted.  If the moves are to be evaluated their list  *)
(* is freed and the lock given up; otherwise the record is done with.        *)
AfterCube(w, r, level) ==
  /\ esDouble' = [esDouble EXCEPT ![r] = level]
  /\ UNCHANGED <<set, cMoves>>
  /\ IF EvaluatesMoves(r)
       THEN /\ amMoves' = [amMoves EXCEPT ![r] = 0]
            /\ Goto(w, "moves")
            /\ UNCHANGED <<esChequer, sc, crashed>>
       ELSE /\ UNCHANGED amMoves
            /\ Judge(w, r)

(* Mutant: the answer is told nothing of a double analysed before.           *)
AfterNewDouble(w, r) ==
  /\ Count(r)
  /\ Returns(w, fInterrupt, IF esDouble'[r] # esDouble[r] THEN esDouble'[r] ELSE 0)

(* What follows for a double; its error is kept for the answer.              *)
AfterDouble(w, r) ==
  /\ Count(r)
  /\ Returns(w, fInterrupt, IF set.fAnalyseCube THEN esDouble'[r] ELSE 0)

(* The first part of AnalyzeMove, to where it gives up the lock or returns.  *)
BeginNormal(w, r) ==
  /\ r \in Normal /\ ~Skips(r) /\ ~EvaluatesCube(r)
  /\ AfterCube(w, r, IF CubeWanted(r) THEN esDouble[r] ELSE 0)
  /\ UNCHANGED <<stCube, lost>>

BeginDouble(w, r) ==
  /\ r \in Double /\ ~EvaluatesCube(r)
  /\ UNCHANGED <<records, set, crashed>>
  /\ AfterDouble(w, r)

BeginAnswer(w, r) ==
  /\ r \in Answer /\ op # "move" /\ ~Skips(r)
  /\ stCube' = IF set.fAnalyseCube THEN [stCube EXCEPT ![r] = worker[w].doubleError] ELSE stCube
  /\ UNCHANGED <<esDouble, esChequer, cMoves, amMoves, lost, set, crashed>>
  /\ Count(r)
  /\ Returns(w, fInterrupt, worker[w].doubleError)

BeginNothing(w, r) ==
  /\ r \in Normal \cup Answer /\ (Skips(r) \/ (r \in Answer /\ op = "move"))
  /\ Returns(w, fInterrupt, 0)
  /\ UNCHANGED <<records, set, sc, crashed>>

BeginCube(w, r) ==
  /\ EvaluatesCube(r) /\ (r \in Normal => ~Skips(r))
  /\ Goto(w, "cube")
  /\ UNCHANGED <<records, set, sc, crashed>>

AnalyzeMove(w) ==
  /\ At(w, "begin")
  /\ \E r \in {worker[w].rec} :
       BeginNormal(w, r) \/ BeginDouble(w, r) \/ BeginAnswer(w, r) \/ BeginNothing(w, r) \/ BeginCube(w, r)
  /\ UNCHANGED <<op, scope, todo, commands, remade, fInterrupt, pool>>

(* GeneralCubeDecision returns.                                              *)
CubeEvaluated(w) ==
  /\ At(w, "cube")
  /\ \E r \in {worker[w].rec} :
       \/ /\ r \in Normal
          /\ AfterCube(w, r, set.cube)
       \/ /\ r \in Double
          /\ esDouble' = [esDouble EXCEPT ![r] = set.cube]
          /\ UNCHANGED <<esChequer, cMoves, amMoves, set, crashed>>
          /\ AfterDouble(w, r)
  /\ UNCHANGED <<stCube, lost, op, scope, todo, commands, remade, fInterrupt, pool>>

(* FindnSaveBestMoves returns the list, which has no moves if none is legal. *)
MovesEvaluated(w) ==
  /\ At(w, "moves")
  /\ \E r \in {worker[w].rec} :
       /\ amMoves' = [amMoves EXCEPT ![r] = IF pmr(r).legal THEN set.chequer ELSE 0]
       /\ cMoves' = [cMoves EXCEPT ![r] = pmr(r).legal]
       /\ lost' = lost \ {r}
       /\ UNCHANGED <<esDouble, stCube, set>>
       /\ Judge(w, r)
  /\ UNCHANGED <<op, scope, todo, commands, remade, fInterrupt, pool>>

(* An evaluation notices the interrupt: AnalyzeMove returns -1 at once, and  *)
(* a list that was to be replaced stays NULL while its moves are counted.    *)
EvaluationInterrupted(w) ==
  /\ worker[w].pc \in {"cube", "moves"} /\ fInterrupt
  /\ lost' = lost \cup {r \in {worker[w].rec} : At(w, "moves") /\ cMoves[r]}
  /\ Returns(w, TRUE, 0)
  /\ UNCHANGED <<esDouble, esChequer, cMoves, amMoves, stCube, sc, command, fInterrupt, crashed, pool>>

(* MT_AbortTasks.                                                            *)
AbortTask(w) ==
  /\ At(w, "abort") /\ worker[w].got = NoRecord
  /\ \E r \in Record : Pool!Take(r) /\ worker' = [worker EXCEPT ![w].got = r]
  /\ UNCHANGED <<records, sc, command, fInterrupt, crashed>>

(* Mutant: a task taken off the list is not counted as done.                 *)
AbortUncounted(w) ==
  /\ At(w, "abort") /\ worker[w].got # NoRecord
  /\ worker' = [worker EXCEPT ![w].got = NoRecord]
  /\ UNCHANGED <<records, sc, command, fInterrupt, crashed, pool>>

AbortDone(w) ==
  /\ At(w, "abort") /\ worker[w].got # NoRecord
  /\ Pool!Finish(worker[w].got) /\ fate'[worker[w].got] = "aborted"
  /\ worker' = [worker EXCEPT ![w].got = NoRecord]
  /\ UNCHANGED <<records, sc, command, fInterrupt, crashed>>

AbortEnds(w) ==
  /\ At(w, "abort") /\ worker[w].got = NoRecord
  /\ \A r \in Record : fate[r] # "queued"
  /\ worker' = [worker EXCEPT ![w] = Goes(w)]
  /\ UNCHANGED <<records, sc, command, fInterrupt, crashed, pool>>

TaskDone(w) ==
  /\ At(w, "done")
  /\ Pool!Finish(worker[w].task)
  /\ fate'[worker[w].task] = IF worker[w].failed THEN "failed" ELSE "ran"
  /\ worker' = [worker EXCEPT ![w] = Free]
  /\ UNCHANGED <<records, sc, command, fInterrupt, crashed>>

-----------------------------------------------------------------------------
MainStep == AnalyzeGameInfo \/ AddTask \/ WaitReturns

WorkerStep(w) == \/ TakeTask(w) \/ AnalyzeMove(w) \/ CubeEvaluated(w) \/ MovesEvaluated(w)
                 \/ EvaluationInterrupted(w) \/ AbortTask(w) \/ AbortDone(w) \/ AbortEnds(w)
                 \/ TaskDone(w)

User == \/ CommandAnalyseMatch \/ CommandAnalyseClearMatch \/ CommandSaveMatch \/ Interrupt
        \/ \E g \in Game : CommandAnalyseGame(g) \/ CommandAnalyseClearGame(g)
        \/ \E r \in Record : CommandAnalyseMove(r) \/ CommandAnalyseClearMove(r)

(* A read of NULL ends the program.                                          *)
Running == crashed = NoRecord

Next == Running /\ (User \/ MainStep \/ save_autosave \/ \E w \in Workers : WorkerStep(w))

Spec == Init /\ [][Next]_vars

(* The threads are scheduled, and an evaluation ends.                        *)
FairSpec == Spec /\ WF_vars(Running /\ MainStep) /\ \A w \in Workers : WF_vars(Running /\ WorkerStep(w))

-----------------------------------------------------------------------------
(* The list of a record is read while there is none only where an evaluation *)
(* frees it and leaves its moves counted: by a save while a worker replaces  *)
(* it, or by anyone after an interrupt has taken the worker out of that.     *)
(* Neither clearing, nor another analysis, nor the other worker leads there. *)
ListsThere ==
  Running \/ crashed \in lost \/ \E w \in Workers : At(w, "moves") /\ worker[w].rec = crashed

(* "Match will be autosaved during and after analysis": where nothing has    *)
(* been interrupted, a save during an analysis does not end the program.     *)
SavedDuringAnalysis == Running \/ op = "none" \/ lost # {}

Finished == op # "none" /\ op' = "none" /\ ~fInterrupt
Analysed(r) == r \in scope /\ (r \in Normal \cup Answer => ~Skips(r)) /\ (r \in Double => op = "move" \/ Linked(r))

(* A command that is not interrupted has analysed every record it is to      *)
(* analyse, at the level asked for or better: its cube decision and its list *)
(* of moves, which is at least of the level noted with it, also when an      *)
(* earlier command was interrupted and left it without one; and the mark of  *)
(* a take or drop comes from the decision that it shares with the double,    *)
(* also when the double was analysed before.                                 *)
AnalysisComplete ==
  [][Finished => \A r \in scope : Analysed(r) =>
       /\ r \in Normal \cup Double /\ CubeWanted(r) => esDouble[r] >= set.cube
       /\ r \in Normal /\ set.fAnalyseMove =>
            esChequer[r] = set.chequer /\ (pmr(r).legal => cMoves[r] /\ amMoves[r] >= set.chequer)
       /\ r \in Answer /\ op # "move" /\ set.fAnalyseCube => stCube[r] = esDouble[CubeDecPtr(r)]]_vars

(* The statistics that the workers have summed up, in any order, count each  *)
(* record once and as it is in the end; with saves in between, which make    *)
(* them anew before all is counted, they do if the last save succeeds.       *)
StatisticsAgree ==
  [][Finished /\ op # "move" /\ ~remade' => \A r \in scope : Analysed(r) =>
       LET counted(b) == {x \in DOMAIN b : x[1] = r}
           now == Counted({r})
       IN /\ counted(sc'[r[1]]) = DOMAIN now
          /\ \A x \in DOMAIN now : sc'[r[1]][x] = 1]_vars

(* A command returns, interrupted or not, unless the program ends.           *)
AnalysisReturns == op # "none" ~> op = "none" \/ ~Running
=============================================================================
