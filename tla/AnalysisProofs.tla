--------------------------- MODULE AnalysisProofs ----------------------------
(* Proofs about the analysis: for any games, settings, workers and commands,  *)
(* whatever is saved, cleared or interrupted meanwhile, a list of moves is    *)
(* read while it is gone only where an evaluation has freed it; what was      *)
(* asked for has been analysed; and the statistics count it.                  *)
(*                                                                            *)
(* The invariant, Inv, while the program runs: between commands nothing is    *)
(* queued or in hand, and what is queued belongs to the command (TodoInv);    *)
(* every task taken is in one pair of hands, so that two workers never have   *)
(* the same record (HandInv); a list that is counted is there unless a worker *)
(* is about to replace it or was interrupted in that (ListInv); each record   *)
(* of the command is still ahead of the workers or is as it was asked for     *)
(* (DoneInv); and it is not counted, or counted once and as it is (ScInv).    *)
EXTENDS Analysis, TLAPS

Places == {"free", "begin", "cube", "moves", "done", "abort"}
Hand == [pc : Places, task : Record \cup {NoRecord}, rec : Record \cup {NoRecord}, doubleError : Nat,
         failed : BOOLEAN, got : Record \cup {NoRecord}]
Fates == {"unused", "queued", "taken", "ran", "failed", "aborted"}

RecordsTyped ==
  /\ esDouble \in [Normal \cup Double -> Nat] /\ esChequer \in [Normal -> Nat]
  /\ cMoves \in [Normal -> BOOLEAN] /\ amMoves \in [Normal -> Nat] /\ stCube \in [Answer -> Nat]
  /\ lost \in SUBSET Normal
TypeOK ==
  /\ RecordsTyped
  /\ set \in Settings /\ op \in {"none", "move", "game", "match"} /\ scope \in SUBSET Record
  /\ fInterrupt \in BOOLEAN /\ remade \in BOOLEAN /\ worker \in [Workers -> Hand] /\ fate \in [Record -> Fates]

(* What is queued is of the command that runs, and a game's statistics begin *)
(* before its first task.                                                    *)
Idle == \A r \in Record : fate[r] = "unused"
TodoInv ==
  /\ todo \cap Record \subseteq scope
  /\ \A r \in Record : fate[r] # "unused" => r \in scope
  /\ op = "none" => scope = {} /\ todo = {} /\ fInterrupt = FALSE /\ Idle
  /\ op = "game" => \E g \in Game : /\ scope = RecordsOf(g) /\ todo \subseteq RecordsOf(g) \cup {Info(g)}
                                    /\ Info(g) \in todo => Idle
  /\ op = "move" => \E r \in Record : scope = {r}
  /\ op # "move" => \A r \in Answer : r \notin todo /\ fate[r] = "unused"

(* A task is in one pair of hands, and the record in hand is that of the     *)
(* task or the answer to its double.                                         *)
Holds(w, r) == worker[w].task = r \/ worker[w].got = r
HandInv ==
  /\ \A w \in Workers :
       /\ worker[w].pc = "free" => worker[w] = Free
       /\ worker[w].pc # "free" =>
            /\ worker[w].task \in Record /\ worker[w].rec \in Record
            /\ worker[w].rec = worker[w].task
               \/ (op # "move" /\ Linked(worker[w].task) /\ worker[w].rec = Next1(worker[w].task))
       /\ worker[w].task # NoRecord => worker[w].task # worker[w].got
       /\ worker[w].pc = "cube" => worker[w].rec \notin Answer
       /\ worker[w].pc = "moves" => worker[w].rec \in Normal /\ EvaluatesMoves(worker[w].rec)
       /\ worker[w].got # NoRecord => worker[w].pc = "abort"
  /\ \A w \in Workers, r \in Record : Holds(w, r) => fate[r] = "taken"
  /\ \A v \in Workers, w \in Workers, r \in Record : Holds(v, r) /\ Holds(w, r) => v = w

(* A list that is counted is there, or a worker is about to replace it, or   *)
(* one that was has been interrupted.                                        *)
Replaced(r) == \E w \in Workers : worker[w].pc = "moves" /\ worker[w].rec = r
ListInv ==
  /\ \A r \in Normal : cMoves[r] /\ amMoves[r] = 0 => r \in lost \/ Replaced(r)
  /\ \A r \in lost : cMoves[r] /\ amMoves[r] = 0
  /\ \A r \in Normal : Replaced(r) => amMoves[r] = 0
  /\ \A r \in Normal : esChequer[r] > 0 /\ pmr(r).legal =>
       cMoves[r] /\ (amMoves[r] >= esChequer[r] \/ r \in lost \/ Replaced(r))

(* Until it is interrupted, a command has each record still before it, or    *)
(* has analysed it.                                                          *)
Working(w, r) == worker[w].rec = r /\ worker[w].pc \in {"begin", "cube", "moves"}
Pending(r) == r \in todo \/ fate[r] = "queued" \/ \E w \in Workers : Working(w, r)
Ahead(r) == Pending(r) \/ (r \in Answer /\ op # "move" /\ Pending(CubeDecPtr(r)))
Complete(r) ==
  /\ r \in Normal \cup Double /\ CubeWanted(r) => esDouble[r] >= set.cube
  /\ r \in Normal /\ set.fAnalyseMove =>
       esChequer[r] = set.chequer /\ (pmr(r).legal => cMoves[r] /\ amMoves[r] >= set.chequer)
  /\ r \in Answer /\ op # "move" /\ set.fAnalyseCube => stCube[r] = esDouble[CubeDecPtr(r)]
DoneInv ==
  ~fInterrupt =>
    /\ \A w \in Workers : worker[w].pc # "abort"
    /\ \A w \in Workers : op # "move" /\ worker[w].rec \in Answer /\ set.fAnalyseCube /\ worker[w].pc = "begin" =>
         worker[w].doubleError = esDouble[CubeDecPtr(worker[w].rec)]
    /\ \A w \in Workers : worker[w].pc = "moves" /\ CubeWanted(worker[w].rec) => esDouble[worker[w].rec] >= set.cube
    /\ \A r \in scope : Analysed(r) => Ahead(r) \/ Complete(r)

(* A game's statistics: its tasks come after they have begun again; in a     *)
(* command that is not interrupted every record has a task and none fails;   *)
(* and until a save makes them anew, they hold each record once if the       *)
(* workers are done with it and not at all if it is still ahead of them.     *)
Assigned(r) == CubeDecPtr(r) \in todo \/ fate[CubeDecPtr(r)] # "unused"
Uncounted(r) == \A x \in DOMAIN sc[r[1]] : x[1] # r
CountedOnce(r) ==
  /\ \A x \in DOMAIN sc[r[1]] : x[1] = r => x \in DOMAIN Counted({r})
  /\ \A x \in DOMAIN Counted({r}) : x \in DOMAIN sc[r[1]] /\ sc[r[1]][x] = 1
TallyInv ==
  ~fInterrupt /\ op \in {"game", "match"} /\ ~remade =>
    \A r \in scope : Info(r[1]) \notin todo /\ Analysed(r) => IF Ahead(r) THEN Uncounted(r) ELSE CountedOnce(r)
ScInv ==
  /\ sc = [g \in Game |-> sc[g]]
  /\ \A r \in todo \cap Record : fate[r] = "unused"
  /\ op \in {"game", "match"} => \A g \in Game : Info(g) \in todo => \A r \in RecordsOf(g) : fate[r] = "unused"
  /\ ~fInterrupt => /\ \A w \in Workers : ~worker[w].failed
                    /\ \A r \in Record : fate[r] \notin {"failed", "aborted"}
  /\ ~fInterrupt /\ op \in {"game", "match"} => \A r \in scope : Analysed(r) => Assigned(r)
  /\ TallyInv

LEMMA RecordIs ==
  ASSUME NEW r \in Record
  PROVE  /\ r[1] \in Game /\ r[2] \in DOMAIN Games[r[1]] /\ r = <<r[1], r[2]>>
         /\ r[1] \in Nat \ {0} /\ r[2] \in Nat \ {0} /\ pmr(r) \in Move
<1>1. PICK g \in Game : r \in RecordsOf(g) BY DEF Record
<1>2. PICK i \in DOMAIN Games[g] : r = <<g, i>> BY <1>1 DEF RecordsOf
<1>3. Games \in Seq(Seq(Move)) BY GamesAssumption
<1>4. g \in Nat \ {0} /\ Games[g] \in Seq(Move) BY <1>3 DEF Game
<1>5. i \in Nat \ {0} /\ Games[g][i] \in Move BY <1>4
<1> QED BY <1>2, <1>4, <1>5 DEF pmr

LEMMA NotRecord ==
  /\ NoRecord \notin Record
  /\ \A g \in Game : Info(g) \notin Record
<1>1. ASSUME NEW x, x[2] = 0 PROVE x \notin Record BY <1>1, RecordIs
<1> QED BY <1>1 DEF NoRecord, Info

LEMMA Sorts ==
  ASSUME NEW r \in Record
  PROVE  /\ r \in Normal \/ r \in Double \/ r \in Answer
         /\ ~(r \in Normal /\ r \in Double) /\ ~(r \in Answer /\ (r \in Normal \/ r \in Double))
         /\ r \in Answer <=> pmr(r).mt \in {"TAKE", "DROP"}
<1>1. pmr(r).mt \in {"NORMAL", "DOUBLE", "TAKE", "DROP"} BY RecordIs DEF Move
<1> QED BY <1>1 DEF Normal, Double, Answer

LEMMA SortsIn ==
  /\ Normal \subseteq Record /\ Double \subseteq Record /\ Answer \subseteq Record
BY DEF Normal, Double, Answer

(* A double and its answer.                                                  *)
LEMMA Linking ==
  ASSUME NEW r, Linked(r)
  PROVE  Next1(r) \in Answer /\ r \in Double /\ r \in Record /\ CubeDecPtr(Next1(r)) = r /\ Next1(r) # r
<1> DEFINE n == Next1(r)
<1>1. r \in Double /\ r \in Record /\ n \in Record BY SortsIn DEF Linked
<1>2. r[1] \in Game /\ r[2] \in DOMAIN Games[r[1]] /\ r = <<r[1], r[2]>> /\ r[2] \in Nat BY <1>1, RecordIs
<1>3. n[1] = r[1] /\ n[2] = r[2] + 1 BY DEF Next1
<1>4. n[2] \in DOMAIN Games[n[1]] BY <1>1, RecordIs
<1>5. pmr(r).mt = "DOUBLE" BY <1>1 DEF Double
<1>6. pmr(n).mt \in {"TAKE", "DROP"} BY <1>2, <1>3, <1>4, <1>5, GamesAssumption DEF pmr
<1>7. n \in Answer BY <1>1, <1>6, Sorts
<1>8. CubeDecPtr(n) = <<r[1], (r[2] + 1) - 1>> BY <1>3, <1>7 DEF CubeDecPtr
<1>9. (r[2] + 1) - 1 = r[2] BY <1>2
<1>10. n # r BY <1>2, <1>3
<1> QED BY <1>1, <1>2, <1>7, <1>8, <1>9, <1>10

LEMMA Answering ==
  ASSUME NEW r \in Answer
  PROVE  Linked(CubeDecPtr(r)) /\ Next1(CubeDecPtr(r)) = r /\ CubeDecPtr(r)[1] = r[1]
<1> DEFINE d == CubeDecPtr(r)
<1>1. r \in Record /\ r[1] \in Game /\ r[2] \in DOMAIN Games[r[1]] /\ r = <<r[1], r[2]>> /\ r[2] \in Nat
  BY SortsIn, RecordIs
<1>2. pmr(r).mt \in {"TAKE", "DROP"} BY <1>1, Sorts
<1>3. r[2] > 1 /\ Games[r[1]][r[2] - 1].mt = "DOUBLE" BY <1>1, <1>2, GamesAssumption DEF pmr
<1>4. d = <<r[1], r[2] - 1>> BY DEF CubeDecPtr
<1>5. Games[r[1]] \in Seq(Move) BY <1>1, GamesAssumption DEF Game
<1>6. r[2] - 1 \in DOMAIN Games[r[1]] /\ (r[2] - 1) + 1 = r[2]
  <2> DEFINE s == Games[r[1]]  i == r[2]
  <2>1. s \in Seq(Move) /\ i \in DOMAIN s /\ i > 1 BY <1>1, <1>3, <1>5
  <2> HIDE DEF s, i
  <2>2. DOMAIN s = 1..Len(s) /\ Len(s) \in Nat BY <2>1
  <2>3. i - 1 \in DOMAIN s /\ (i - 1) + 1 = i BY <2>1, <2>2
  <2> QED BY <2>3 DEF s, i
<1>7. d \in Record BY <1>1, <1>4, <1>6 DEF Record, RecordsOf
<1>8. d \in Double BY <1>3, <1>4, <1>7 DEF Double, pmr
<1>9. Next1(d) = r BY <1>1, <1>4, <1>6 DEF Next1
<1> QED BY <1>1, <1>4, <1>7, <1>8, <1>9 DEF Linked

LEMMA SetIs ==
  ASSUME TypeOK
  PROVE  /\ set.cube \in Nat \ {0} /\ set.chequer \in Nat \ {0}
         /\ set.fAnalyseCube \in BOOLEAN /\ set.fAnalyseMove \in BOOLEAN
BY SettingsAssumption DEF TypeOK

(* Two workers never have the same record in hand.                           *)
LEMMA RecApart ==
  ASSUME TodoInv, HandInv, NEW v \in Workers, NEW w \in Workers, v # w,
         worker[v].pc # "free", worker[w].pc # "free"
  PROVE  worker[v].rec # worker[w].rec
<1> DEFINE s == worker[v].task  t == worker[w].task
<1> SUFFICES ASSUME worker[v].rec = worker[w].rec PROVE FALSE OBVIOUS
<1>1. /\ s \in Record /\ t \in Record /\ fate[s] = "taken" /\ fate[t] = "taken"
      /\ s # t
  BY DEF HandInv, Holds
<1>2. /\ worker[v].rec = s \/ (op # "move" /\ Linked(s) /\ worker[v].rec = Next1(s))
      /\ worker[w].rec = t \/ (op # "move" /\ Linked(t) /\ worker[w].rec = Next1(t))
  BY DEF HandInv
<1> HIDE DEF s, t
<1>3. CASE worker[v].rec = s /\ worker[w].rec = t BY <1>1, <1>3
<1>4. ASSUME NEW x \in Record, NEW y, fate[x] = "taken", op # "move", Linked(y), x = Next1(y) PROVE FALSE
  <2>1. x \in Answer BY <1>4, Linking
  <2> QED BY <1>4, <2>1 DEF TodoInv
<1>5. CASE Linked(s) /\ Linked(t) /\ Next1(s) = Next1(t)
  <2>1. CubeDecPtr(Next1(s)) = s /\ CubeDecPtr(Next1(t)) = t BY <1>5, Linking
  <2> QED BY <1>1, <1>5, <2>1
<1> QED BY <1>1, <1>2, <1>3, <1>4, <1>5

LEMMA HandIs ==
  ASSUME TypeOK, HandInv, NEW w \in Workers, worker[w].pc # "free"
  PROVE  LET h == worker[w]
         IN  /\ h \in Hand /\ h.rec \in Record /\ h.task \in Record /\ fate[h.task] = "taken"
             /\ h.rec \in Normal \cup Double => h.rec = h.task
             /\ Linked(h.rec) => h.rec = h.task
<1> DEFINE h == worker[w]
<1>1. h \in Hand BY DEF TypeOK
<1>2. h.task \in Record /\ h.rec \in Record /\ fate[h.task] = "taken" BY DEF HandInv, Holds
<1>3. h.rec = h.task \/ h.rec \in Answer
  <2>1. h.rec = h.task \/ (Linked(h.task) /\ h.rec = Next1(h.task)) BY DEF HandInv
  <2> QED BY <2>1, Linking
<1>4. h.rec \in Normal \cup Double => h.rec = h.task BY <1>2, <1>3, Sorts
<1>5. Linked(h.rec) => h.rec \in Double BY DEF Linked
<1> HIDE DEF h
<1> QED BY <1>1, <1>2, <1>4, <1>5 DEF h

(* What AnalyzeMove returns to.                                              *)
GoesBack(w, failed, e) ==
  \E k \in Hand :
    /\ worker' = [worker EXCEPT ![w] = k] /\ k.task = worker[w].task /\ k.got = worker[w].got
    /\ ~failed => k.failed = worker[w].failed
    /\ \/ k.pc = "abort" /\ k.rec = worker[w].rec /\ fInterrupt
       \/ k.pc = "begin" /\ ~failed /\ op # "move" /\ Linked(worker[w].rec)
          /\ k.rec = Next1(worker[w].rec) /\ k.doubleError = e
       \/ k.pc = "done" /\ k.rec = worker[w].rec /\ ~(op # "move" /\ Linked(worker[w].rec))

LEMMA ReturnsIs ==
  ASSUME TypeOK, HandInv, NEW w \in Workers, worker[w].pc # "free", NEW failed \in BOOLEAN, NEW e \in Nat,
         Returns(w, failed, e), failed => fInterrupt
  PROVE  GoesBack(w, failed, e)
<1> DEFINE h == worker[w]
           g == IF failed /\ op # "move" THEN [h EXCEPT !.pc = "abort"] ELSE Goes(w)
           k == [g EXCEPT !.failed = @ \/ failed, !.doubleError = e]
<1>1. h \in Hand BY DEF TypeOK
<1>2. worker' = [worker EXCEPT ![w] = k] BY DEF Returns
<1>3. Goes(w) = IF op # "move" /\ Linked(h.rec) THEN [h EXCEPT !.pc = "begin", !.rec = Next1(h.rec)]
                                                ELSE [h EXCEPT !.pc = "done"]
  BY DEF Goes
<1>4. Linked(h.rec) => Next1(h.rec) \in Record BY DEF Linked
<1> HIDE DEF h
<1>5. /\ g \in Hand /\ g.task = h.task /\ g.got = h.got /\ g.failed = h.failed
      /\ \/ g.pc = "abort" /\ g.rec = h.rec /\ fInterrupt
         \/ g.pc = "begin" /\ ~failed /\ op # "move" /\ Linked(h.rec) /\ g.rec = Next1(h.rec)
         \/ g.pc = "done" /\ g.rec = h.rec /\ ~(op # "move" /\ Linked(h.rec))
  <2>1. CASE failed /\ op # "move"
    <3>1. g = [h EXCEPT !.pc = "abort"] BY <2>1
    <3> HIDE DEF g
    <3> QED BY <1>1, <2>1, <3>1 DEF Hand, Places
  <2>2. CASE ~(failed /\ op # "move") /\ op # "move" /\ Linked(h.rec)
    <3>1. g = [h EXCEPT !.pc = "begin", !.rec = Next1(h.rec)] BY <1>3, <2>2
    <3> HIDE DEF g
    <3> QED BY <1>1, <1>4, <2>2, <3>1 DEF Hand, Places
  <2>3. CASE ~(failed /\ op # "move") /\ ~(op # "move" /\ Linked(h.rec))
    <3>1. g = [h EXCEPT !.pc = "done"] BY <1>3, <2>3
    <3> HIDE DEF g
    <3> QED BY <1>1, <2>3, <3>1 DEF Hand, Places
  <2> QED BY <2>1, <2>2, <2>3
<1> HIDE DEF g
<1>6. /\ k \in Hand /\ k.task = g.task /\ k.got = g.got /\ k.pc = g.pc /\ k.rec = g.rec /\ k.doubleError = e
      /\ ~failed => k.failed = g.failed
  <2>1. g.failed \in BOOLEAN BY <1>5 DEF Hand
  <2>2. (g.failed \/ failed) \in BOOLEAN BY <2>1
  <2>3. ~failed => (g.failed \/ failed) = g.failed BY <2>1
  <2> QED BY <1>5, <2>2, <2>3 DEF Hand
<1> HIDE DEF k
<1> QED BY <1>2, <1>5, <1>6 DEF h, GoesBack

(* The list of a record that a worker has in hand, but not while it makes a  *)
(* new one.                                                                  *)
Sound(r) ==
  /\ cMoves[r] /\ amMoves[r] = 0 <=> r \in lost
  /\ esChequer[r] > 0 /\ pmr(r).legal => cMoves[r] /\ (amMoves[r] >= esChequer[r] \/ r \in lost)

LEMMA InHand ==
  ASSUME TypeOK, TodoInv, HandInv, ListInv, NEW w \in Workers, worker[w].pc \notin {"free", "moves"},
         worker[w].rec \in Normal
  PROVE  Sound(worker[w].rec) /\ worker[w].rec \in scope
<1> DEFINE r == worker[w].rec
<1>1. ~Replaced(r)
  <2> SUFFICES ASSUME NEW v \in Workers, worker[v].pc = "moves", worker[v].rec = r PROVE FALSE BY DEF Replaced
  <2> QED BY RecApart
<1>2. r \in scope
  <2>1. r = worker[w].task /\ r \in Record /\ fate[r] = "taken" BY HandIs
  <2> QED BY <2>1 DEF TodoInv
<1> QED BY <1>1, <1>2 DEF Sound, ListInv

-----------------------------------------------------------------------------
(* What a worker does with the record it has in hand.                        *)

Kept(x) ==
  /\ x \in Normal \cup Double => esDouble'[x] = esDouble[x]
  /\ x \in Normal => /\ esChequer'[x] = esChequer[x] /\ cMoves'[x] = cMoves[x] /\ amMoves'[x] = amMoves[x]
                     /\ x \in lost' <=> x \in lost
  /\ x \in Answer => stCube'[x] = stCube[x]
Framed(w, k) ==
  /\ worker[w].pc \in {"begin", "cube", "moves"} /\ k \in Hand
  /\ worker' = [worker EXCEPT ![w] = k] /\ k.task = worker[w].task /\ k.got = worker[w].got
  /\ UNCHANGED <<set, op, scope, todo, remade, fInterrupt, fate, crashed>>
  /\ RecordsTyped'
  /\ \A x \in Record \ {worker[w].rec} : Kept(x)
Lands(r, k) ==
  \/ k.pc = "cube" /\ k.rec = r /\ r \notin Answer
  \/ k.pc = "moves" /\ k.rec = r /\ r \in Normal
  \/ k.pc = "begin" /\ op # "move" /\ Linked(r) /\ k.rec = Next1(r)
     /\ (set.fAnalyseCube => k.doubleError = esDouble'[r])
  \/ k.pc = "done" /\ k.rec = r /\ ~(op # "move" /\ Linked(r))
  \/ k.pc = "abort" /\ k.rec = r /\ fInterrupt
Leaves(r, k) ==
  /\ r \in Normal /\ k.pc = "moves" =>
       /\ EvaluatesMoves(r)' /\ (CubeWanted(r) => esDouble'[r] >= set.cube)
       /\ cMoves'[r] = cMoves[r] /\ esChequer'[r] = esChequer[r]
       /\ amMoves'[r] = 0 /\ (r \in lost' <=> r \in lost)
  /\ r \in Normal /\ k.pc # "moves" => Sound(r)'
  /\ k.pc \in {"begin", "done"} /\ ~fInterrupt /\ Analysed(r) => Complete(r)'
(* The record is counted, after the step.                                    *)
Added(r) == sc' = [sc EXCEPT ![r[1]] = @ (+) Counted({r})']
Tallies(w, r, k) ==
  /\ ~fInterrupt => k.failed = worker[w].failed
  /\ sc' = sc \/ (op # "move" /\ Added(r))
  /\ k.pc \in {"cube", "moves"} => sc' = sc
  /\ k.pc \in {"begin", "done"} /\ op # "move" /\ ~fInterrupt /\ Analysed(r) => Added(r)
Stepped(w, r, k) == r = worker[w].rec /\ Framed(w, k) /\ Lands(r, k) /\ Leaves(r, k) /\ Tallies(w, r, k)

LEMMA CountIs ==
  ASSUME NEW r, Count(r)
  PROVE  (op = "move" => sc' = sc) /\ (op # "move" => Added(r))
BY DEF Count, Added

(* Giving up the lock, nothing else changed.                                 *)
LEMMA GotoIs ==
  ASSUME TypeOK, NEW w \in Workers, NEW l \in Places, Goto(w, l)
  PROVE  LET h == worker[w]  k == [h EXCEPT !.pc = l]
         IN /\ k \in Hand /\ worker' = [worker EXCEPT ![w] = k] /\ k.task = h.task /\ k.got = h.got
            /\ k.rec = h.rec /\ k.pc = l /\ k.failed = h.failed
<1> DEFINE h == worker[w]
<1>1. h \in Hand BY DEF TypeOK
<1>2. worker' = [worker EXCEPT ![w] = [h EXCEPT !.pc = l]] BY DEF Goto
<1> HIDE DEF h
<1>3. [h EXCEPT !.pc = l] \in Hand BY <1>1 DEF Hand
<1> QED BY <1>1, <1>2, <1>3 DEF h, Hand

LEMMA StepCube ==
  ASSUME TypeOK, TodoInv, HandInv, ListInv, NEW w \in Workers, NEW r \in Record, r = worker[w].rec,
         At(w, "begin"), BeginCube(w, r),
         UNCHANGED <<op, scope, todo, commands, remade, fInterrupt, pool>>
  PROVE  \E k \in Hand : Stepped(w, r, k)
<1> DEFINE k == [worker[w] EXCEPT !.pc = "cube"]
<1>1. k \in Hand /\ worker' = [worker EXCEPT ![w] = k] /\ k.task = worker[w].task /\ k.got = worker[w].got
      /\ k.rec = r /\ k.pc = "cube" /\ k.failed = worker[w].failed
  BY GotoIs DEF BeginCube, Places
<1>2. worker[w].pc = "begin" BY DEF At
<1>3. UNCHANGED <<esDouble, esChequer, cMoves, amMoves, stCube, lost, set, crashed, op, scope, todo,
                  remade, fInterrupt, fate>>
  BY DEF BeginCube, records, pool
<1> HIDE DEF k
<1>4. Framed(w, k) BY <1>1, <1>2, <1>3 DEF Framed, RecordsTyped, TypeOK, Kept
<1>5. r \notin Answer BY DEF BeginCube, EvaluatesCube
<1>6. Lands(r, k) BY <1>1, <1>5 DEF Lands
<1>7. r \in Normal => Sound(r) BY <1>2, InHand
<1>8. Sound(r)' = Sound(r) BY <1>3 DEF Sound
<1>9. Leaves(r, k) BY <1>1, <1>7, <1>8 DEF Leaves
<1>15. Tallies(w, r, k) BY <1>1 DEF Tallies, BeginCube
<1> QED BY <1>1, <1>3, <1>4, <1>6, <1>9, <1>15 DEF Stepped

LEMMA StepNothing ==
  ASSUME TypeOK, TodoInv, HandInv, ListInv, NEW w \in Workers, NEW r \in Record, r = worker[w].rec,
         At(w, "begin"), BeginNothing(w, r),
         UNCHANGED <<op, scope, todo, commands, remade, fInterrupt, pool>>
  PROVE  \E k \in Hand : Stepped(w, r, k)
<1>2. worker[w].pc = "begin" BY DEF At
<1>3. UNCHANGED <<esDouble, esChequer, cMoves, amMoves, stCube, lost, set, crashed, op, scope, todo,
                  remade, fInterrupt, fate>>
  BY DEF BeginNothing, records, pool
<1>0. r \in Record /\ r \in Normal \cup Answer /\ Returns(w, fInterrupt, 0) /\ fInterrupt \in BOOLEAN
  BY <1>2, HandIs DEF BeginNothing, TypeOK
<1>20. GoesBack(w, fInterrupt, 0) BY <1>0, <1>2, ReturnsIs
<1>1. PICK k \in Hand :
        /\ worker' = [worker EXCEPT ![w] = k] /\ k.task = worker[w].task /\ k.got = worker[w].got
        /\ ~fInterrupt => k.failed = worker[w].failed
        /\ \/ k.pc = "abort" /\ k.rec = r /\ fInterrupt
           \/ k.pc = "begin" /\ op # "move" /\ Linked(r) /\ k.rec = Next1(r) /\ k.doubleError = 0
           \/ k.pc = "done" /\ k.rec = r /\ ~(op # "move" /\ Linked(r))
  BY <1>20 DEF GoesBack
<1>4. Framed(w, k) BY <1>1, <1>2, <1>3 DEF Framed, RecordsTyped, TypeOK, Kept
<1>5. ~Linked(r) BY <1>0, Sorts DEF Linked
<1>6. Lands(r, k) BY <1>1, <1>5 DEF Lands
<1>7. r \in Normal => Sound(r) BY <1>2, InHand
<1>8. Sound(r)' = Sound(r) BY <1>3 DEF Sound
<1>10. Analysed(r) => r \in Answer /\ op = "move" BY <1>0 DEF BeginNothing, Analysed
<1>11. Analysed(r) => Complete(r)' BY <1>0, <1>3, <1>10, Sorts DEF Complete
<1>12. k.pc # "moves" BY <1>1
<1>9. Leaves(r, k) BY <1>7, <1>8, <1>11, <1>12 DEF Leaves
<1>15. Tallies(w, r, k) BY <1>1, <1>10 DEF Tallies, BeginNothing
<1> QED BY <1>1, <1>3, <1>4, <1>6, <1>9, <1>15 DEF Stepped

LEMMA StepAnswer ==
  ASSUME TypeOK, TodoInv, HandInv, ListInv, DoneInv, NEW w \in Workers, NEW r \in Record, r = worker[w].rec,
         At(w, "begin"), BeginAnswer(w, r),
         UNCHANGED <<op, scope, todo, commands, remade, fInterrupt, pool>>
  PROVE  \E k \in Hand : Stepped(w, r, k)
<1> DEFINE e == worker[w].doubleError
<1>2. worker[w].pc = "begin" BY DEF At
<1>3. UNCHANGED <<esDouble, esChequer, cMoves, amMoves, lost, set, crashed, op, scope, todo, remade,
                  fInterrupt, fate>>
  BY DEF BeginAnswer, pool
<1>0. r \in Record /\ r \in Answer /\ Returns(w, fInterrupt, e) /\ fInterrupt \in BOOLEAN
  BY <1>2, HandIs DEF BeginAnswer, TypeOK
<1>13. e \in Nat BY DEF TypeOK, Hand
<1>20. GoesBack(w, fInterrupt, e) BY <1>0, <1>2, <1>13, ReturnsIs
<1>1. PICK k \in Hand :
        /\ worker' = [worker EXCEPT ![w] = k] /\ k.task = worker[w].task /\ k.got = worker[w].got
        /\ ~fInterrupt => k.failed = worker[w].failed
        /\ \/ k.pc = "abort" /\ k.rec = r /\ fInterrupt
           \/ k.pc = "begin" /\ op # "move" /\ Linked(r) /\ k.rec = Next1(r) /\ k.doubleError = e
           \/ k.pc = "done" /\ k.rec = r /\ ~(op # "move" /\ Linked(r))
  BY <1>20 DEF GoesBack
<1>14. stCube' = IF set.fAnalyseCube THEN [stCube EXCEPT ![r] = e] ELSE stCube BY DEF BeginAnswer
<1>15. stCube' \in [Answer -> Nat] BY <1>13, <1>14 DEF TypeOK, RecordsTyped
<1>16. \A x \in Answer \ {r} : stCube'[x] = stCube[x] BY <1>14 DEF TypeOK, RecordsTyped
<1>17. set.fAnalyseCube => stCube'[r] = e BY <1>0, <1>14 DEF TypeOK, RecordsTyped
<1>4. Framed(w, k) BY <1>1, <1>2, <1>3, <1>15, <1>16 DEF Framed, RecordsTyped, TypeOK, Kept
<1>5. ~Linked(r) BY <1>0, Sorts DEF Linked
<1>6. Lands(r, k) BY <1>1, <1>5 DEF Lands
<1>7. r \notin Normal /\ r \notin Double BY <1>0, Sorts
<1>8. ~fInterrupt /\ op # "move" /\ set.fAnalyseCube => e = esDouble[CubeDecPtr(r)]
  BY <1>0, <1>2 DEF DoneInv
<1>9. ~fInterrupt => Complete(r)' BY <1>3, <1>7, <1>8, <1>17 DEF Complete
<1>10. Leaves(r, k) BY <1>7, <1>9 DEF Leaves
<1>18. Count(r) BY DEF BeginAnswer
<1>19. Tallies(w, r, k) BY <1>1, <1>18, CountIs DEF Tallies
<1> QED BY <1>1, <1>3, <1>4, <1>6, <1>10, <1>19 DEF Stepped

(* A move record is done with once its cube decision and its list are as     *)
(* asked for, if the list that is looked into is there.                      *)
LEMMA StepJudge ==
  ASSUME TypeOK, TodoInv, HandInv, ListInv, NEW w \in Workers, NEW r \in Normal, r = worker[w].rec,
         worker[w].pc \in {"begin", "cube", "moves"}, Judge(w, r),
         ~(set.fAnalyseMove /\ cMoves'[r] /\ amMoves'[r] = 0),
         UNCHANGED <<stCube, set, op, scope, todo, remade, fInterrupt, fate>>,
         esDouble' \in [Normal \cup Double -> Nat], cMoves' \in [Normal -> BOOLEAN],
         amMoves' \in [Normal -> Nat], lost' \in SUBSET Normal,
         \A x \in (Normal \cup Double) \ {r} : esDouble'[x] = esDouble[x],
         \A x \in Normal \ {r} : /\ cMoves'[x] = cMoves[x] /\ amMoves'[x] = amMoves[x]
                                 /\ x \in lost' <=> x \in lost,
         cMoves'[r] /\ amMoves'[r] = 0 <=> r \in lost',
         set.fAnalyseMove /\ pmr(r).legal => cMoves'[r] /\ amMoves'[r] >= set.chequer,
         ~set.fAnalyseMove /\ esChequer[r] > 0 /\ pmr(r).legal =>
           cMoves'[r] /\ (amMoves'[r] >= esChequer[r] \/ r \in lost'),
         ~fInterrupt /\ CubeWanted(r) => esDouble'[r] >= set.cube
  PROVE  \E k \in Hand : Stepped(w, r, k)
<1>0. r \in Record /\ Returns(w, fInterrupt, 0) /\ fInterrupt \in BOOLEAN /\ set.fAnalyseMove \in BOOLEAN
      /\ set.chequer \in Nat \ {0} /\ crashed' = crashed
  BY SortsIn, SetIs DEF Judge, TypeOK
<1>20. GoesBack(w, fInterrupt, 0) BY <1>0, ReturnsIs
<1>1. PICK k \in Hand :
        /\ worker' = [worker EXCEPT ![w] = k] /\ k.task = worker[w].task /\ k.got = worker[w].got
        /\ ~fInterrupt => k.failed = worker[w].failed
        /\ \/ k.pc = "abort" /\ k.rec = r /\ fInterrupt
           \/ k.pc = "begin" /\ op # "move" /\ Linked(r) /\ k.rec = Next1(r) /\ k.doubleError = 0
           \/ k.pc = "done" /\ k.rec = r /\ ~(op # "move" /\ Linked(r))
  BY <1>20 DEF GoesBack
<1>2. esChequer' = IF set.fAnalyseMove THEN [esChequer EXCEPT ![r] = set.chequer] ELSE esChequer BY DEF Judge
<1>3. /\ esChequer' \in [Normal -> Nat] /\ \A x \in Normal \ {r} : esChequer'[x] = esChequer[x]
      /\ esChequer'[r] = IF set.fAnalyseMove THEN set.chequer ELSE esChequer[r]
  BY <1>0, <1>2 DEF TypeOK, RecordsTyped
<1>6. stCube' \in [Answer -> Nat] BY DEF TypeOK, RecordsTyped
<1>7. RecordsTyped' BY <1>3, <1>6 DEF RecordsTyped
<1>8. \A x \in Record \ {r} : Kept(x) BY <1>3 DEF Kept
<1>9. Framed(w, k) BY <1>0, <1>1, <1>7, <1>8 DEF Framed
<1>10. ~Linked(r) /\ r \notin Answer /\ r \notin Double BY <1>0, Sorts DEF Linked
<1>11. Lands(r, k) BY <1>1, <1>10 DEF Lands
<1>12. Sound(r)'
  <2>1. CASE set.fAnalyseMove
    <3>1. esChequer'[r] = set.chequer BY <1>3, <2>1
    <3> QED BY <2>1, <3>1 DEF Sound
  <2>2. CASE ~set.fAnalyseMove BY <1>3, <2>2 DEF Sound
  <2> QED BY <2>1, <2>2
<1>13. ~fInterrupt => Complete(r)'
  <2>1. set.fAnalyseMove =>
          esChequer'[r] = set.chequer /\ (pmr(r).legal => cMoves'[r] /\ amMoves'[r] >= set.chequer)
    BY <1>3
  <2>2. set' = set OBVIOUS
  <2>3. CubeWanted(r)' = CubeWanted(r) BY <2>2 DEF CubeWanted
  <2> QED BY <1>10, <2>1, <2>2, <2>3 DEF Complete
<1>14. k.pc # "moves" BY <1>1
<1>15. Leaves(r, k) BY <1>12, <1>13, <1>14 DEF Leaves
<1>16. Count(r) BY DEF Judge
<1>17. Tallies(w, r, k) BY <1>1, <1>16, CountIs DEF Tallies
<1> QED BY <1>0, <1>9, <1>11, <1>15, <1>17 DEF Stepped

(* A worker reads a list that is gone only if the evaluation that freed it   *)
(* was interrupted.                                                          *)
ReadsLost == crashed' \in lost /\ crashed' \in lost'

(* The part of AnalyzeMove that follows the cube decision.                   *)
LEMMA StepAfterCube ==
  ASSUME TypeOK, TodoInv, HandInv, ListInv, NEW w \in Workers, NEW r \in Normal, r = worker[w].rec,
         worker[w].pc \in {"begin", "cube"}, NEW level \in Nat, AfterCube(w, r, level),
         UNCHANGED <<stCube, lost, op, scope, todo, commands, remade, fInterrupt, pool>>,
         CubeWanted(r) => level >= set.cube
  PROVE  (\E k \in Hand : Stepped(w, r, k)) \/ ReadsLost
<1>0. r \in Record /\ set.fAnalyseMove \in BOOLEAN /\ set.chequer \in Nat \ {0} BY SortsIn, SetIs
<1>1. /\ esDouble' = [esDouble EXCEPT ![r] = level]
      /\ UNCHANGED <<set, cMoves, stCube, lost, op, scope, todo, remade, fInterrupt, fate>>
  BY DEF AfterCube, pool
<1>2. /\ esDouble' \in [Normal \cup Double -> Nat] /\ esDouble'[r] = level
      /\ \A x \in (Normal \cup Double) \ {r} : esDouble'[x] = esDouble[x]
  BY <1>1 DEF TypeOK, RecordsTyped
<1>3. Sound(r) BY InHand
<1>4. amMoves[r] \in Nat /\ esChequer[r] \in Nat BY DEF TypeOK, RecordsTyped
<1>5. r \notin Answer /\ r \notin Double BY <1>0, Sorts
<1>6. CASE EvaluatesMoves(r)
  <2> DEFINE k == [worker[w] EXCEPT !.pc = "moves"]
  <2>1. Goto(w, "moves") /\ amMoves' = [amMoves EXCEPT ![r] = 0] /\ UNCHANGED <<esChequer, sc, crashed>>
    BY <1>6 DEF AfterCube
  <2>2. k \in Hand /\ worker' = [worker EXCEPT ![w] = k] /\ k.task = worker[w].task /\ k.got = worker[w].got
        /\ k.rec = r /\ k.pc = "moves" /\ k.failed = worker[w].failed
    BY <2>1, GotoIs DEF Places
  <2> HIDE DEF k
  <2>3. amMoves' \in [Normal -> Nat] /\ amMoves'[r] = 0 /\ \A x \in Normal \ {r} : amMoves'[x] = amMoves[x]
    BY <2>1 DEF TypeOK, RecordsTyped
  <2>4. RecordsTyped' BY <1>1, <1>2, <2>1, <2>3 DEF TypeOK, RecordsTyped
  <2>5. \A x \in Record \ {r} : Kept(x) BY <1>1, <1>2, <2>1, <2>3 DEF Kept
  <2>6. Framed(w, k) BY <1>1, <2>1, <2>2, <2>4, <2>5 DEF Framed
  <2>7. Lands(r, k) BY <2>2 DEF Lands
  <2>8. EvaluatesMoves(r)' BY <1>1, <1>6, <2>1 DEF EvaluatesMoves
  <2>9. Leaves(r, k) BY <1>1, <1>2, <2>1, <2>2, <2>3, <2>8 DEF Leaves
  <2>10. Tallies(w, r, k) BY <2>1, <2>2 DEF Tallies
  <2> QED BY <2>1, <2>2, <2>6, <2>7, <2>9, <2>10 DEF Stepped
<1>7. CASE ~EvaluatesMoves(r)
  <2>1. UNCHANGED amMoves /\ Judge(w, r) BY <1>7 DEF AfterCube
  <2>2. cMoves' \in [Normal -> BOOLEAN] /\ amMoves' \in [Normal -> Nat] BY <1>1, <2>1 DEF TypeOK, RecordsTyped
  <2>3. \A x \in Normal \ {r} : cMoves'[x] = cMoves[x] /\ amMoves'[x] = amMoves[x] /\ (x \in lost' <=> x \in lost)
    BY <1>1, <2>1
  <2>4. cMoves'[r] /\ amMoves'[r] = 0 <=> r \in lost' BY <1>1, <1>3, <2>1 DEF Sound
  <2>5. CASE set.fAnalyseMove /\ cMoves'[r] /\ amMoves'[r] = 0
    <3>1. crashed' = r BY <2>1, <2>5 DEF Judge
    <3> QED BY <1>1, <2>4, <2>5, <3>1 DEF ReadsLost
  <2>6. CASE ~(set.fAnalyseMove /\ cMoves'[r] /\ amMoves'[r] = 0)
    <3>1. set.fAnalyseMove /\ pmr(r).legal => cMoves'[r] /\ amMoves'[r] >= set.chequer
      <4>1. set.fAnalyseMove => ~(set.chequer > esChequer[r]) BY <1>7 DEF EvaluatesMoves
      <4> QED BY <1>0, <1>1, <1>3, <1>4, <2>1, <2>4, <2>6, <4>1 DEF Sound
    <3>2. ~set.fAnalyseMove /\ esChequer[r] > 0 /\ pmr(r).legal =>
            cMoves'[r] /\ (amMoves'[r] >= esChequer[r] \/ r \in lost')
      BY <1>1, <1>3, <2>1 DEF Sound
    <3>3. lost' \in SUBSET Normal BY <1>1 DEF TypeOK, RecordsTyped
    <3> QED BY <1>1, <1>2, <2>1, <2>2, <2>3, <2>4, <2>6, <3>1, <3>2, <3>3, StepJudge
  <2> QED BY <2>5, <2>6
<1> QED BY <1>6, <1>7

LEMMA StepNormal ==
  ASSUME TypeOK, TodoInv, HandInv, ListInv, NEW w \in Workers, NEW r \in Record, r = worker[w].rec,
         At(w, "begin"), BeginNormal(w, r),
         UNCHANGED <<op, scope, todo, commands, remade, fInterrupt, pool>>
  PROVE  (\E k \in Hand : Stepped(w, r, k)) \/ ReadsLost
<1> DEFINE level == IF CubeWanted(r) THEN esDouble[r] ELSE 0
<1>1. r \in Normal /\ ~EvaluatesCube(r) /\ AfterCube(w, r, level) /\ UNCHANGED <<stCube,
                                                                                 lost>> BY DEF BeginNormal
<1>2. worker[w].pc = "begin" BY DEF At
<1>3. esDouble[r] \in Nat /\ set.cube \in Nat BY <1>1, SetIs DEF TypeOK, RecordsTyped
<1>4. CubeWanted(r) => esDouble[r] >= set.cube BY <1>1, <1>3, Sorts DEF EvaluatesCube
<1>5. level \in Nat /\ (CubeWanted(r) => level >= set.cube) BY <1>3, <1>4
<1> HIDE DEF level
<1> QED BY <1>1, <1>2, <1>5, StepAfterCube

(* What follows for a double, its decision being as asked for.               *)
LEMMA StepAfterDouble ==
  ASSUME TypeOK, TodoInv, HandInv, ListInv, NEW w \in Workers, NEW r \in Double, r = worker[w].rec,
         worker[w].pc \in {"begin", "cube"}, AfterDouble(w, r),
         UNCHANGED <<stCube, esChequer, cMoves, amMoves, lost, set, op, scope, todo, remade, fInterrupt,
                     fate, crashed>>,
         esDouble' \in [Normal \cup Double -> Nat],
         \A x \in (Normal \cup Double) \ {r} : esDouble'[x] = esDouble[x],
         CubeWanted(r) => esDouble'[r] >= set.cube
  PROVE  \E k \in Hand : Stepped(w, r, k)
<1> DEFINE e == IF set.fAnalyseCube THEN esDouble'[r] ELSE 0
<1>0. r \in Record /\ Returns(w, fInterrupt, e) /\ fInterrupt \in BOOLEAN /\ e \in Nat
  BY SortsIn DEF AfterDouble, TypeOK
<1>2. set.fAnalyseCube => e = esDouble'[r] OBVIOUS
<1> HIDE DEF e
<1>20. GoesBack(w, fInterrupt, e) BY <1>0, ReturnsIs
<1>1. PICK k \in Hand :
        /\ worker' = [worker EXCEPT ![w] = k] /\ k.task = worker[w].task /\ k.got = worker[w].got
        /\ ~fInterrupt => k.failed = worker[w].failed
        /\ \/ k.pc = "abort" /\ k.rec = r /\ fInterrupt
           \/ k.pc = "begin" /\ op # "move" /\ Linked(r) /\ k.rec = Next1(r) /\ k.doubleError = e
           \/ k.pc = "done" /\ k.rec = r /\ ~(op # "move" /\ Linked(r))
  BY <1>20 DEF GoesBack
<1>3. RecordsTyped' BY DEF TypeOK, RecordsTyped
<1>4. \A x \in Record \ {r} : Kept(x) BY DEF Kept
<1>5. Framed(w, k) BY <1>1, <1>3, <1>4 DEF Framed
<1>6. Lands(r, k) BY <1>1, <1>2 DEF Lands
<1>7. r \notin Answer /\ r \notin Normal BY <1>0, Sorts
<1>8. Complete(r)' BY <1>7 DEF Complete, CubeWanted
<1>9. Leaves(r, k) BY <1>7, <1>8 DEF Leaves
<1>10. Count(r) BY DEF AfterDouble
<1>11. Tallies(w, r, k) BY <1>1, <1>10, CountIs DEF Tallies
<1> QED BY <1>0, <1>5, <1>6, <1>9, <1>11 DEF Stepped

LEMMA StepDouble ==
  ASSUME TypeOK, TodoInv, HandInv, ListInv, NEW w \in Workers, NEW r \in Record, r = worker[w].rec,
         At(w, "begin"), BeginDouble(w, r),
         UNCHANGED <<op, scope, todo, commands, remade, fInterrupt, pool>>
  PROVE  \E k \in Hand : Stepped(w, r, k)
<1>1. r \in Double /\ ~EvaluatesCube(r) /\ AfterDouble(w, r) BY DEF BeginDouble
<1>2. UNCHANGED <<esDouble, stCube, esChequer, cMoves, amMoves, lost, set, crashed, op, scope, todo,
                  remade, fInterrupt, fate>>
  BY DEF BeginDouble, records, pool
<1>3. worker[w].pc = "begin" BY DEF At
<1>4. esDouble' \in [Normal \cup Double -> Nat] /\ esDouble[r] \in Nat /\ set.cube \in Nat
  BY <1>1, <1>2, SetIs DEF TypeOK, RecordsTyped
<1>5. CubeWanted(r) => esDouble'[r] >= set.cube BY <1>1, <1>2, <1>4, Sorts DEF EvaluatesCube
<1> QED BY <1>1, <1>2, <1>3, <1>4, <1>5, StepAfterDouble

LEMMA StepCubeEvaluated ==
  ASSUME TypeOK, TodoInv, HandInv, ListInv, NEW w \in Workers, CubeEvaluated(w)
  PROVE  (\E r \in Record, k \in Hand : Stepped(w, r, k)) \/ ReadsLost
<1>1. PICK r : /\ r = worker[w].rec
               /\ \/ r \in Normal /\ AfterCube(w, r, set.cube)
                  \/ /\ r \in Double
                     /\ esDouble' = [esDouble EXCEPT ![r] = set.cube]
                     /\ UNCHANGED <<esChequer, cMoves, amMoves, set, crashed>>
                     /\ AfterDouble(w, r)
  BY DEF CubeEvaluated
<1>2. worker[w].pc = "cube" BY DEF CubeEvaluated, At
<1>3. set.cube \in Nat /\ r \in Record BY <1>1, SetIs, SortsIn
<1>4. UNCHANGED <<stCube, lost, op, scope, todo, commands, remade, fInterrupt, pool>> BY DEF CubeEvaluated
<1>5. CASE r \in Normal /\ AfterCube(w, r, set.cube)
  <2>1. (\E k \in Hand : Stepped(w, r, k)) \/ ReadsLost
    BY <1>1, <1>2, <1>3, <1>4, <1>5, StepAfterCube
  <2> QED BY <1>3, <2>1
<1>6. CASE /\ r \in Double
           /\ esDouble' = [esDouble EXCEPT ![r] = set.cube]
           /\ UNCHANGED <<esChequer, cMoves, amMoves, set, crashed>>
           /\ AfterDouble(w, r)
  <2>1. /\ esDouble' \in [Normal \cup Double -> Nat] /\ esDouble'[r] = set.cube
        /\ \A x \in (Normal \cup Double) \ {r} : esDouble'[x] = esDouble[x]
    BY <1>3, <1>6 DEF TypeOK, RecordsTyped
  <2>2. esDouble'[r] >= set.cube BY <1>3, <2>1
  <2>3. UNCHANGED <<stCube, esChequer, cMoves, amMoves, lost, set, op, scope, todo, remade, fInterrupt,
                    fate, crashed>>
    BY <1>4, <1>6 DEF pool
  <2>4. \E k \in Hand : Stepped(w, r, k) BY <1>1, <1>2, <1>6, <2>1, <2>2, <2>3, StepAfterDouble
  <2> QED BY <1>3, <1>6, <2>4
<1> QED BY <1>1, <1>5, <1>6

LEMMA StepMovesEvaluated ==
  ASSUME TypeOK, TodoInv, HandInv, ListInv, DoneInv, NEW w \in Workers, MovesEvaluated(w)
  PROVE  \E r \in Record, k \in Hand : Stepped(w, r, k)
<1>1. PICK r : /\ r = worker[w].rec
               /\ amMoves' = [amMoves EXCEPT ![r] = IF pmr(r).legal THEN set.chequer ELSE 0]
               /\ cMoves' = [cMoves EXCEPT ![r] = pmr(r).legal]
               /\ lost' = lost \ {r}
               /\ UNCHANGED <<esDouble, stCube, set>>
               /\ Judge(w, r)
  BY DEF MovesEvaluated
<1>2. worker[w].pc = "moves" BY DEF MovesEvaluated, At
<1>3. r \in Normal /\ EvaluatesMoves(r) BY <1>1, <1>2 DEF HandInv
<1>4. r \in Record /\ set.fAnalyseMove /\ set.chequer \in Nat \ {0} BY <1>3, SortsIn, SetIs DEF EvaluatesMoves
<1>5. UNCHANGED <<stCube, esDouble, set, op, scope, todo, remade, fInterrupt,
                  fate>> BY <1>1 DEF MovesEvaluated, pool
<1>9. pmr(r).legal \in BOOLEAN BY <1>4, RecordIs DEF Move
<1>6. /\ esDouble' \in [Normal \cup Double -> Nat]
      /\ cMoves' \in [Normal -> BOOLEAN] /\ amMoves' \in [Normal -> Nat] /\ lost' \in SUBSET Normal
      /\ cMoves'[r] = pmr(r).legal /\ (pmr(r).legal => amMoves'[r] = set.chequer) /\ r \notin lost'
      /\ \A x \in Normal \ {r} : cMoves'[x] = cMoves[x] /\ amMoves'[x] = amMoves[x] /\ (x \in lost' <=> x \in lost)
  BY <1>1, <1>3, <1>4, <1>9 DEF TypeOK, RecordsTyped
<1>7. pmr(r).legal => amMoves'[r] >= set.chequer BY <1>4, <1>6
<1>10. ~(cMoves'[r] /\ amMoves'[r] = 0) BY <1>4, <1>6
<1>8. ~fInterrupt /\ CubeWanted(r) => esDouble'[r] >= set.cube BY <1>1, <1>2, <1>5 DEF DoneInv
<1> QED BY <1>1, <1>2, <1>3, <1>4, <1>5, <1>6, <1>7, <1>8, <1>10, StepJudge

(* An evaluation that is interrupted has changed nothing, but a list that it *)
(* was to replace is lost.                                                   *)
LEMMA StepInterrupted ==
  ASSUME TypeOK, TodoInv, HandInv, ListInv, NEW w \in Workers, EvaluationInterrupted(w)
  PROVE  \E r \in Record, k \in Hand : Stepped(w, r, k)
<1>1. PICK r \in Record : r = worker[w].rec BY HandIs DEF EvaluationInterrupted
<1>2. /\ worker[w].pc \in {"cube", "moves"} /\ fInterrupt = TRUE /\ Returns(w, TRUE, 0)
      /\ UNCHANGED <<esDouble, esChequer, cMoves, amMoves, stCube, set, crashed, op, scope, todo,
                     remade, fInterrupt,
                     fate>>
      /\ lost' = lost \cup {x \in {r} : worker[w].pc = "moves" /\ cMoves[x]}
  BY <1>1 DEF EvaluationInterrupted, At, command, pool, TypeOK
<1>3. PICK k \in Hand :
        /\ worker' = [worker EXCEPT ![w] = k] /\ k.task = worker[w].task /\ k.got = worker[w].got
        /\ \/ k.pc = "abort" /\ k.rec = r
           \/ k.pc = "done" /\ k.rec = r /\ ~(op # "move" /\ Linked(r))
  <2>1. worker[w].pc # "free" BY <1>2
  <2>2. GoesBack(w, TRUE, 0) BY <1>2, <2>1, ReturnsIs
  <2> QED BY <1>1, <2>2 DEF GoesBack
<1>11. worker[w].pc = "moves" => r \in Normal /\ Replaced(r) BY <1>1 DEF HandInv, Replaced
<1>12. lost' \in SUBSET Normal BY <1>2, <1>11 DEF TypeOK, RecordsTyped
<1>13. \A x \in Record \ {r} : x \in lost' <=> x \in lost BY <1>2
<1>4. Framed(w, k) BY <1>1, <1>2, <1>3, <1>12, <1>13 DEF Framed, RecordsTyped, TypeOK, Kept
<1>5. Lands(r, k) BY <1>2, <1>3 DEF Lands
<1>6. r \in Normal => Sound(r)'
  <2>1. CASE worker[w].pc = "cube"
    <3>1. r \in Normal => Sound(r) BY <1>1, <2>1, InHand
    <3>2. lost' = lost BY <1>2, <2>1
    <3> QED BY <1>2, <3>1, <3>2 DEF Sound
  <2>2. CASE worker[w].pc = "moves"
    <3>1. r \in Normal /\ amMoves[r] = 0 BY <1>11, <2>2 DEF ListInv
    <3>2. r \in lost => cMoves[r] BY DEF ListInv
    <3>3. r \in lost' <=> cMoves[r] BY <1>2, <2>2, <3>2
    <3>4. esChequer[r] > 0 /\ pmr(r).legal => cMoves[r] BY <3>1 DEF ListInv
    <3> QED BY <1>2, <3>1, <3>3, <3>4 DEF Sound
  <2> QED BY <1>2, <2>1, <2>2
<1>8. k.pc # "moves" /\ k.pc # "begin" BY <1>3
<1>9. Leaves(r, k) BY <1>2, <1>6, <1>8 DEF Leaves
<1>10. Tallies(w, r, k) BY <1>2, <1>3 DEF Tallies, EvaluationInterrupted
<1> QED BY <1>1, <1>2, <1>4, <1>5, <1>9, <1>10 DEF Stepped

LEMMA StepIs ==
  ASSUME TypeOK, TodoInv, HandInv, ListInv, DoneInv, NEW w \in Workers,
         AnalyzeMove(w) \/ CubeEvaluated(w) \/ MovesEvaluated(w) \/ EvaluationInterrupted(w)
  PROVE  (\E r \in Record, k \in Hand : Stepped(w, r, k)) \/ ReadsLost
<1>1. CASE AnalyzeMove(w)
  <2>1. PICK r : r = worker[w].rec /\ (\/ BeginNormal(w, r) \/ BeginDouble(w, r) \/ BeginAnswer(w, r)
                                       \/ BeginNothing(w, r) \/ BeginCube(w, r))
    BY <1>1 DEF AnalyzeMove
  <2>2. At(w, "begin") /\ UNCHANGED <<op, scope, todo, commands, remade, fInterrupt,
                                      pool>> BY <1>1 DEF AnalyzeMove
  <2>3. r \in Record BY <2>1, <2>2, HandIs DEF At
  <2>4. CASE BeginNormal(w, r) BY <2>1, <2>2, <2>3, <2>4, StepNormal
  <2>5. CASE BeginDouble(w, r) BY <2>1, <2>2, <2>3, <2>5, StepDouble
  <2>6. CASE BeginAnswer(w, r) BY <2>1, <2>2, <2>3, <2>6, StepAnswer
  <2>7. CASE BeginNothing(w, r) BY <2>1, <2>2, <2>3, <2>7, StepNothing
  <2>8. CASE BeginCube(w, r) BY <2>1, <2>2, <2>3, <2>8, StepCube
  <2> QED BY <2>1, <2>4, <2>5, <2>6, <2>7, <2>8
<1> QED BY <1>1, StepCubeEvaluated, StepMovesEvaluated, StepInterrupted

-----------------------------------------------------------------------------
(* Such a step keeps the invariant.                                          *)

LEMMA SteppedType ==
  ASSUME TypeOK, NEW w \in Workers, NEW r \in Record, NEW k \in Hand, Stepped(w, r, k)
  PROVE  TypeOK'
BY DEF TypeOK, Stepped, Framed

LEMMA SteppedTodo ==
  ASSUME TodoInv, NEW w \in Workers, NEW r \in Record, NEW k \in Hand, Stepped(w, r, k)
  PROVE  TodoInv'
BY DEF TodoInv, Idle, Stepped, Framed

LEMMA SteppedWorker ==
  ASSUME TypeOK, NEW w \in Workers, NEW r \in Record, NEW k \in Hand, Stepped(w, r, k)
  PROVE  worker'[w] = k /\ \A v \in Workers \ {w} : worker'[v] = worker[v]
BY DEF TypeOK, Stepped, Framed

LEMMA SteppedHand ==
  ASSUME TypeOK, TodoInv, HandInv, NEW w \in Workers, NEW r \in Record, NEW k \in Hand, Stepped(w, r, k)
  PROVE  HandInv'
<1>1. worker'[w] = k /\ \A v \in Workers \ {w} : worker'[v] = worker[v] BY SteppedWorker
<1>2. /\ worker[w].pc \in {"begin", "cube", "moves"} /\ worker[w].rec = r
      /\ k.task = worker[w].task /\ k.got = worker[w].got
      /\ UNCHANGED <<set, op, fate>>
      /\ \A x \in Record \ {r} : Kept(x)
  BY DEF Stepped, Framed
<1>3. k.got = NoRecord BY <1>2 DEF HandInv
<1>4. /\ k.task \in Record
      /\ r = k.task \/ (op # "move" /\ Linked(k.task) /\ r = Next1(k.task))
      /\ Linked(r) => r = k.task
      /\ k.task # k.got
  <2>1. worker[w].pc # "free" /\ NoRecord \notin Record BY <1>2, NotRecord
  <2>2. Linked(r) => r = k.task BY <1>2, <2>1, HandIs
  <2> QED BY <1>2, <1>3, <2>1, <2>2 DEF HandInv
<1>5. Lands(r, k) BY DEF Stepped
<1>6. /\ k.pc # "free" /\ k.rec \in Record
      /\ k.rec = k.task \/ (op # "move" /\ Linked(k.task) /\ k.rec = Next1(k.task))
      /\ k.pc = "cube" => k.rec \notin Answer
      /\ k.pc = "moves" => k.rec \in Normal /\ k.rec = r
  <2>1. Linked(r) => Next1(r) \in Record BY DEF Linked
  <2> QED BY <1>4, <1>5, <2>1 DEF Lands
<1>7. k.pc = "moves" => EvaluatesMoves(r)' BY <1>6 DEF Stepped, Leaves
<1>8. ASSUME NEW v \in Workers \ {w}, worker[v].pc = "moves"
      PROVE  worker[v].rec \in Normal /\ EvaluatesMoves(worker[v].rec)'
  <2>1. worker[v].rec \in Normal /\ EvaluatesMoves(worker[v].rec) BY <1>8 DEF HandInv
  <2>2. worker[v].rec # r BY <1>2, <1>8, RecApart
  <2>3. esChequer'[worker[v].rec] = esChequer[worker[v].rec] BY <1>2, <2>1, <2>2, SortsIn DEF Kept
  <2>4. worker'[v] = worker[v] /\ set' = set BY <1>1, <1>2
  <2> QED BY <2>1, <2>3, <2>4 DEF EvaluatesMoves
<1>9. \A v \in Workers, x \in Record : Holds(v, x)' <=> Holds(v, x)
  BY <1>1, <1>2 DEF Holds
<1>10. \A v \in Workers :
         /\ worker'[v].pc = "free" => worker'[v] = Free
         /\ worker'[v].pc # "free" =>
              /\ worker'[v].task \in Record /\ worker'[v].rec \in Record
              /\ worker'[v].rec = worker'[v].task
                 \/ (op' # "move" /\ Linked(worker'[v].task) /\ worker'[v].rec = Next1(worker'[v].task))
         /\ worker'[v].task # NoRecord => worker'[v].task # worker'[v].got
         /\ worker'[v].pc = "cube" => worker'[v].rec \notin Answer
         /\ worker'[v].got # NoRecord => worker'[v].pc = "abort"
  <2> TAKE v \in Workers
  <2>1. CASE v = w
    <3>1. worker'[v] = k /\ op' = op BY <1>1, <1>2, <2>1
    <3>2. k.got = NoRecord /\ k.task \in Record /\ k.task # k.got BY <1>3, <1>4
    <3> QED BY <1>6, <3>1, <3>2
  <2>2. CASE v # w
    <3>1. worker'[v] = worker[v] /\ op' = op BY <1>1, <1>2, <2>2
    <3> QED BY <3>1 DEF HandInv
  <2> QED BY <2>1, <2>2
<1>11. \A v \in Workers : worker'[v].pc = "moves" => worker'[v].rec \in Normal /\ EvaluatesMoves(worker[v].rec)'
  <2> SUFFICES ASSUME NEW v \in Workers, worker'[v].pc = "moves"
               PROVE  worker'[v].rec \in Normal /\ EvaluatesMoves(worker[v].rec)'
    OBVIOUS
  <2>1. CASE v = w
    <3>1. worker'[v].rec = r BY <1>1, <1>6, <2>1
    <3>2. r \in Normal /\ EvaluatesMoves(r)' BY <1>1, <1>6, <1>7, <2>1
    <3> QED BY <3>1, <3>2 DEF EvaluatesMoves
  <2>2. CASE v # w BY <1>1, <1>8, <2>2
  <2> QED BY <2>1, <2>2
<1>12. \A v \in Workers, x \in Record : Holds(v, x)' => fate'[x] = "taken" BY <1>2, <1>9 DEF HandInv
<1>13. \A u \in Workers, v \in Workers, x \in Record : Holds(u, x)' /\ Holds(v, x)' => u = v BY <1>9 DEF HandInv
<1> QED BY <1>10, <1>11, <1>12, <1>13 DEF HandInv

LEMMA SteppedList ==
  ASSUME TypeOK, TodoInv, HandInv, ListInv, NEW w \in Workers, NEW r \in Record, NEW k \in Hand, Stepped(w, r, k)
  PROVE  ListInv'
<1>1. worker'[w] = k /\ \A v \in Workers \ {w} : worker'[v] = worker[v] BY SteppedWorker
<1>2. /\ worker[w].rec = r /\ worker[w].pc # "free"
      /\ RecordsTyped'
      /\ \A x \in Record \ {r} : Kept(x)
      /\ Lands(r, k) /\ Leaves(r, k)
  BY DEF Stepped, Framed
<1>3. ASSUME NEW x \in Normal, x # r
      PROVE  /\ esChequer'[x] = esChequer[x] /\ cMoves'[x] = cMoves[x] /\ amMoves'[x] = amMoves[x]
             /\ x \in lost' <=> x \in lost
             /\ Replaced(x)' <=> Replaced(x)
  <2>1. esChequer'[x] = esChequer[x] /\ cMoves'[x] = cMoves[x] /\ amMoves'[x] = amMoves[x]
        /\ (x \in lost' <=> x \in lost)
    BY <1>2, <1>3, SortsIn DEF Kept
  <2>2. worker[w].rec # x /\ ~(k.pc = "moves" /\ k.rec = x) BY <1>2, <1>3 DEF Lands
  <2>3. Replaced(x)' <=> Replaced(x) BY <1>1, <2>2 DEF Replaced
  <2> QED BY <2>1, <2>3
<1>4. ASSUME r \in Normal
      PROVE  /\ cMoves'[r] /\ amMoves'[r] = 0 => r \in lost' \/ Replaced(r)'
             /\ r \in lost' => cMoves'[r] /\ amMoves'[r] = 0
             /\ Replaced(r)' => amMoves'[r] = 0
             /\ esChequer'[r] > 0 /\ pmr(r).legal =>
                  cMoves'[r] /\ (amMoves'[r] >= esChequer'[r] \/ r \in lost' \/ Replaced(r)')
  <2>1. CASE k.pc = "moves"
    <3>1. k.rec = r BY <1>2, <2>1 DEF Lands
    <3>2. Replaced(r)' BY <1>1, <2>1, <3>1 DEF Replaced
    <3>3. cMoves'[r] = cMoves[r] /\ esChequer'[r] = esChequer[r] /\ amMoves'[r] = 0 /\ (r \in lost' <=> r \in lost)
      BY <1>2, <1>4, <2>1 DEF Leaves
    <3> QED BY <1>4, <3>2, <3>3 DEF ListInv
  <2>2. CASE k.pc # "moves"
    <3>1. Sound(r)' BY <1>2, <1>4, <2>2 DEF Leaves
    <3>2. ~Replaced(r)'
      <4> SUFFICES ASSUME NEW v \in Workers, worker'[v].pc = "moves", worker'[v].rec = r PROVE FALSE BY DEF Replaced
      <4>1. v # w /\ worker[v] = worker'[v] BY <1>1, <2>2
      <4>2. worker[v].pc # "free" /\ worker[v].rec = worker[w].rec BY <1>2, <4>1
      <4> QED BY <1>2, <4>1, <4>2, RecApart
    <3> QED BY <3>1, <3>2 DEF Sound
  <2> QED BY <2>1, <2>2
<1>5. \A x \in Normal : cMoves'[x] /\ amMoves'[x] = 0 => x \in lost' \/ Replaced(x)'
  BY <1>3, <1>4 DEF ListInv
<1>6. \A x \in Normal : esChequer'[x] > 0 /\ pmr(x).legal =>
        cMoves'[x] /\ (amMoves'[x] >= esChequer'[x] \/ x \in lost' \/ Replaced(x)')
  BY <1>3, <1>4 DEF ListInv
<1>7. \A x \in Normal : Replaced(x)' => amMoves'[x] = 0 BY <1>3, <1>4 DEF ListInv
<1>8. \A x \in Normal : x \in lost' => cMoves'[x] /\ amMoves'[x] = 0 BY <1>3, <1>4 DEF ListInv
<1>9. \A x \in lost' : x \in Normal BY <1>2 DEF RecordsTyped
<1> QED BY <1>5, <1>6, <1>7, <1>8, <1>9 DEF ListInv

LEMMA SteppedDone ==
  ASSUME TypeOK, TodoInv, HandInv, ListInv, DoneInv,
         NEW w \in Workers, NEW r \in Record, NEW k \in Hand, Stepped(w, r, k)
  PROVE  DoneInv'
<1> SUFFICES ASSUME ~fInterrupt' PROVE DoneInv' BY DEF DoneInv
<1>1. worker'[w] = k /\ \A v \in Workers \ {w} : worker'[v] = worker[v] BY SteppedWorker
<1>2. /\ worker[w].rec = r /\ worker[w].pc \in {"begin", "cube", "moves"}
      /\ UNCHANGED <<set, op, scope, todo, remade, fInterrupt, fate>>
      /\ \A x \in Record \ {r} : Kept(x)
      /\ Lands(r, k) /\ Leaves(r, k)
  BY DEF Stepped, Framed
<1>3. ~fInterrupt BY <1>2
<1>4. k.pc # "abort" BY <1>2, <1>3 DEF Lands
<1>5. \A v \in Workers : worker'[v].pc # "abort"
  BY <1>1, <1>3, <1>4 DEF DoneInv
<1>6. ASSUME NEW v \in Workers, op # "move", worker'[v].rec \in Answer, set.fAnalyseCube, worker'[v].pc = "begin"
      PROVE  worker'[v].doubleError = esDouble'[CubeDecPtr(worker'[v].rec)]
  <2>1. CASE v = w
    <3>1. Linked(r) /\ k.rec = Next1(r) /\ k.doubleError = esDouble'[r] BY <1>1, <1>2, <1>6, <2>1 DEF Lands
    <3>2. CubeDecPtr(Next1(r)) = r BY <3>1, Linking
    <3> QED BY <1>1, <2>1, <3>1, <3>2
  <2>2. CASE v # w
    <3> DEFINE a == worker[v].rec  d == CubeDecPtr(a)
    <3>1. worker'[v] = worker[v] BY <1>1, <2>2
    <3>2. a \in Answer /\ worker[v].pc = "begin" /\ worker[v].doubleError = esDouble[d]
      BY <1>3, <1>6, <3>1 DEF DoneInv
    <3>3. Linked(d) BY <3>2, Answering
    <3>4. d # r
      <4> SUFFICES ASSUME d = r PROVE FALSE OBVIOUS
      <4>1. worker[v].rec = worker[v].task \/ (Linked(worker[v].task) /\ worker[v].rec = Next1(worker[v].task))
        BY <3>2 DEF HandInv
      <4>2. worker[v].task # a
        <5> SUFFICES ASSUME worker[v].task = a PROVE FALSE OBVIOUS
        <5>1. worker[v].pc # "free" BY <3>2
        <5>2. fate[a] = "taken" BY <5>1, HandIs
        <5>3. fate[a] = "unused" BY <1>6, <3>2 DEF TodoInv
        <5> QED BY <5>2, <5>3
      <4>3. worker[v].task = r BY <4>1, <4>2, Linking
      <4>4. worker[w].task = r BY <1>2, <3>3, HandIs
      <4>5. Holds(v, r) /\ Holds(w, r) BY <4>3, <4>4 DEF Holds
      <4> QED BY <2>2, <4>5 DEF HandInv
    <3>5. d \in Double /\ d \in Record BY <3>3, Linking
    <3>6. esDouble'[d] = esDouble[d] BY <1>2, <3>4, <3>5 DEF Kept
    <3> QED BY <3>1, <3>2, <3>6
  <2> QED BY <2>1, <2>2
<1>7. ASSUME NEW v \in Workers, worker'[v].pc = "moves", CubeWanted(worker[v].rec)
      PROVE  worker'[v].rec = worker[v].rec /\ esDouble'[worker[v].rec] >= set.cube
  <2>1. CASE v = w
    <3>1. k.rec = r /\ r \in Normal /\ CubeWanted(r) BY <1>1, <1>2, <1>7, <2>1 DEF Lands
    <3>2. esDouble'[r] >= set.cube BY <1>1, <1>2, <1>7, <2>1, <3>1 DEF Leaves
    <3> QED BY <1>1, <1>2, <2>1, <3>1, <3>2
  <2>2. CASE v # w
    <3> DEFINE x == worker[v].rec
    <3>1. worker'[v] = worker[v] BY <1>1, <2>2
    <3>2. x \in Normal /\ esDouble[x] >= set.cube BY <1>3, <1>7, <3>1 DEF HandInv, DoneInv
    <3>3. x # r BY <1>2, <1>7, <2>2, <3>1, RecApart
    <3>4. esDouble'[x] = esDouble[x] BY <1>2, <3>2, <3>3, SortsIn DEF Kept
    <3> QED BY <3>1, <3>2, <3>4
  <2> QED BY <2>1, <2>2
<1>8. ASSUME NEW x \in Record, x # r, Working(w, x)' \/ \E v \in Workers \ {w} : Working(v, x)
      PROVE  Pending(x)'
  BY <1>1, <1>8 DEF Pending, Working
<1>9. ASSUME NEW x \in Record, x # r, Pending(x) PROVE Pending(x)'
  <2>1. CASE x \in todo \/ fate[x] = "queued" BY <1>2, <2>1 DEF Pending
  <2>2. CASE \E v \in Workers : Working(v, x)
    <3>1. ~Working(w, x) BY <1>2, <1>9 DEF Working
    <3> QED BY <1>8, <1>9, <2>2, <3>1
  <2> QED BY <1>9, <2>1, <2>2 DEF Pending
<1>10. \/ Working(w, r)'
       \/ op # "move" /\ Linked(r) /\ Working(w, Next1(r))'
       \/ k.pc = "done" /\ ~(op # "move" /\ Linked(r))
  BY <1>1, <1>2, <1>4 DEF Lands, Working
<1>11. ASSUME NEW x \in scope, Analysed(x) PROVE Ahead(x)' \/ Complete(x)'
  <2>0. x \in Record BY <1>11 DEF TypeOK
  <2>1. CASE x = r
    <3>1. CASE Working(w, r)'
      <4>1. Pending(r)' BY <3>1 DEF Pending
      <4> QED BY <2>1, <4>1 DEF Ahead
    <3>2. CASE ~Working(w, r)'
      <4>1. k.pc \in {"begin", "done"} BY <1>1, <1>2, <1>4, <3>2 DEF Lands, Working
      <4> QED BY <1>2, <1>3, <1>11, <2>1, <4>1 DEF Leaves
    <3> QED BY <3>1, <3>2
  <2>2. CASE x # r /\ x \in Answer /\ op # "move" /\ CubeDecPtr(x) = r
    <3>1. Linked(r) /\ Next1(r) = x BY <2>2, Answering
    <3>2. Working(w, r)' \/ Working(w, x)' BY <1>10, <2>2, <3>1
    <3>3. Pending(r)' \/ Pending(x)' BY <3>2 DEF Pending
    <3> QED BY <1>2, <2>2, <3>3 DEF Ahead
  <2>3. CASE x # r /\ ~(x \in Answer /\ op # "move" /\ CubeDecPtr(x) = r)
    <3>1. CASE Pending(x)
      <4>1. Pending(x)' BY <1>9, <2>0, <2>3, <3>1
      <4> QED BY <4>1 DEF Ahead
    <3>2. CASE x \in Answer /\ op # "move" /\ Pending(CubeDecPtr(x))
      <4> DEFINE d == CubeDecPtr(x)
      <4>1. d \in Record /\ d # r BY <2>3, <3>2, Answering, Linking
      <4> HIDE DEF d
      <4>2. Pending(d)' BY <1>9, <3>2, <4>1 DEF d
      <4> QED BY <1>2, <3>2, <4>2 DEF Ahead, d
    <3>3. CASE Complete(x)
      <4>1. Kept(x) /\ UNCHANGED <<set, op>> BY <1>2, <2>0, <2>3
      <4>2. ASSUME x \in Answer, op # "move" PROVE esDouble'[CubeDecPtr(x)] = esDouble[CubeDecPtr(x)]
        <5> DEFINE d == CubeDecPtr(x)
        <5>1. d \in Double /\ d \in Record /\ d # r BY <2>3, <4>2, Answering, Linking
        <5> HIDE DEF d
        <5>2. esDouble'[d] = esDouble[d] BY <1>2, <5>1 DEF Kept
        <5> QED BY <5>2 DEF d
      <4>3. Complete(x)' BY <2>0, <3>3, <4>1, <4>2 DEF Complete, Kept, CubeWanted
      <4> QED BY <4>3
    <3>4. Ahead(x) \/ Complete(x) BY <1>3, <1>11 DEF DoneInv
    <3> QED BY <3>1, <3>2, <3>3, <3>4 DEF Ahead
  <2> QED BY <2>1, <2>2, <2>3
<1>12. \A x \in Record : Analysed(x)' <=> Analysed(x) BY <1>2 DEF Analysed, Skips
<1>13. \A x \in scope' : Analysed(x)' => Ahead(x)' \/ Complete(x)'
  BY <1>2, <1>11, <1>12 DEF TypeOK
<1>14. \A v \in Workers : op' # "move" /\ worker'[v].rec \in Answer /\ set'.fAnalyseCube /\ worker'[v].pc = "begin" =>
         worker'[v].doubleError = esDouble'[CubeDecPtr(worker'[v].rec)]
  BY <1>2, <1>6
<1>15. \A v \in Workers :
         worker'[v].pc = "moves" /\ CubeWanted(worker[v].rec)' => esDouble'[worker'[v].rec] >= set'.cube
  <2> SUFFICES ASSUME NEW v \in Workers, worker'[v].pc = "moves", CubeWanted(worker[v].rec)'
               PROVE  esDouble'[worker'[v].rec] >= set'.cube
    OBVIOUS
  <2>1. worker'[v].rec = worker[v].rec
    <3>1. k.pc = "moves" => k.rec = r BY <1>2 DEF Lands
    <3> QED BY <1>1, <1>2, <3>1
  <2>2. CubeWanted(worker[v].rec) BY <1>2, <2>1 DEF CubeWanted
  <2> QED BY <1>2, <1>7, <2>1, <2>2
<1> QED BY <1>5, <1>13, <1>14, <1>15 DEF DoneInv

(* What a bag of one record holds.                                           *)
LEMMA CountedIs ==
  ASSUME NEW R
  PROVE  /\ DOMAIN Counted(R) = {<<r, Contribution(r)>> : r \in {x \in R : Counts(x)}}
         /\ \A x \in DOMAIN Counted(R) : Counted(R)[x] = 1
BY DEF Counted, SetToBag

LEMMA AddedIs ==
  ASSUME NEW r \in Record, sc = [g \in Game |-> sc[g]], Added(r)
  PROVE  /\ sc' = [g \in Game |-> sc'[g]]
         /\ Uncounted(r) => CountedOnce(r)'
         /\ \A y \in Record \ {r} : /\ Uncounted(y) => Uncounted(y)'
                                    /\ CountedOnce(y) /\ Counted({y})' = Counted({y}) => CountedOnce(y)'
<1> DEFINE b == Counted({r})'
<1>0. r[1] \in Game BY RecordIs
<1>1. DOMAIN b \subseteq {<<r, Contribution(r)'>>} /\ \A x \in DOMAIN b : b[x] = 1
  BY DEF Counted, SetToBag
<1>2. sc' = [sc EXCEPT ![r[1]] = @ (+) b] BY DEF Added
<1>3. CountedOnce(r)' <=> /\ \A x \in DOMAIN sc'[r[1]] : x[1] = r => x \in DOMAIN b
                          /\ \A x \in DOMAIN b : x \in DOMAIN sc'[r[1]] /\ sc'[r[1]][x] = 1
  BY DEF CountedOnce
<1> HIDE DEF b
<1>4. sc' = [g \in Game |-> sc'[g]] /\ \A g \in Game \ {r[1]} : sc'[g] = sc[g] BY <1>2
<1>5. sc'[r[1]] = sc[r[1]] (+) b BY <1>0, <1>2
<1> DEFINE a == sc[r[1]]  c == sc'[r[1]]
<1>6. DOMAIN c = DOMAIN a \cup DOMAIN b
      /\ \A x \in DOMAIN c : c[x] = (IF x \in DOMAIN a THEN a[x] ELSE 0) + (IF x \in DOMAIN b THEN b[x] ELSE 0)
  BY <1>5 DEF (+)
<1>7. \A x \in DOMAIN b : x[1] = r BY <1>1
<1>8. ASSUME Uncounted(r) PROVE CountedOnce(r)'
  <2>1. \A x \in DOMAIN a : x[1] # r BY <1>8 DEF Uncounted
  <2> HIDE DEF a, c
  <2>2. \A x \in DOMAIN b : x \in DOMAIN c /\ c[x] = 0 + 1 BY <1>1, <1>6, <1>7, <2>1
  <2>3. \A x \in DOMAIN c : x[1] = r => x \in DOMAIN b BY <1>6, <2>1
  <2> QED BY <1>3, <2>2, <2>3 DEF c
<1>9. ASSUME NEW y \in Record \ {r}, Uncounted(y) PROVE Uncounted(y)'
  <2>1. CASE y[1] = r[1]
    <3>1. \A x \in DOMAIN c : x[1] # y BY <1>6, <1>7, <1>9, <2>1 DEF Uncounted
    <3> QED BY <2>1, <3>1 DEF Uncounted
  <2>2. CASE y[1] # r[1]
    <3>1. sc'[y[1]] = sc[y[1]] BY <1>4, <2>2, RecordIs
    <3> QED BY <1>9, <3>1 DEF Uncounted
  <2> QED BY <2>1, <2>2
<1>10. ASSUME NEW y \in Record \ {r}, CountedOnce(y), Counted({y})' = Counted({y}) PROVE CountedOnce(y)'
  <2>1. CASE y[1] = r[1]
    <3> DEFINE d == Counted({y})
    <3>1. (\A x \in DOMAIN a : x[1] = y => x \in DOMAIN d) /\ \A x \in DOMAIN d : x \in DOMAIN a /\ a[x] = 1
      BY <1>10, <2>1 DEF CountedOnce
    <3>0. DOMAIN d \subseteq {<<y, Contribution(y)>>} BY DEF Counted, SetToBag
    <3>2. \A x \in DOMAIN d : x[1] = y BY <3>0
    <3>3. CountedOnce(y)' <=> /\ \A x \in DOMAIN c : x[1] = y => x \in DOMAIN d
                              /\ \A x \in DOMAIN d : x \in DOMAIN c /\ c[x] = 1
      BY <1>10, <2>1 DEF CountedOnce
    <3> HIDE DEF a, c, d
    <3>4. \A x \in DOMAIN c : x[1] = y => x \in DOMAIN d BY <1>6, <1>7, <3>1
    <3>5. \A x \in DOMAIN d : x \in DOMAIN c /\ c[x] = 1 + 0 BY <1>6, <1>7, <3>1, <3>2
    <3> QED BY <3>3, <3>4, <3>5
  <2>2. CASE y[1] # r[1]
    <3>1. sc'[y[1]] = sc[y[1]] BY <1>4, <2>2, RecordIs
    <3> QED BY <1>10, <3>1 DEF CountedOnce
  <2> QED BY <2>1, <2>2
<1> QED BY <1>4, <1>8, <1>9, <1>10

LEMMA SteppedSc ==
  ASSUME TypeOK, TodoInv, HandInv, ListInv, DoneInv, ScInv,
         NEW w \in Workers, NEW r \in Record, NEW k \in Hand, Stepped(w, r, k)
  PROVE  ScInv'
<1>1. worker'[w] = k /\ \A v \in Workers \ {w} : worker'[v] = worker[v] BY SteppedWorker
<1>2. /\ worker[w].rec = r /\ worker[w].pc \in {"begin", "cube", "moves"}
      /\ UNCHANGED <<set, op, scope, todo, remade, fInterrupt, fate>>
      /\ \A x \in Record \ {r} : Kept(x)
      /\ Lands(r, k)
  BY DEF Stepped, Framed
<1>3. /\ ~fInterrupt => k.failed = worker[w].failed
      /\ sc' = sc \/ (op # "move" /\ Added(r))
      /\ k.pc \in {"cube", "moves"} => sc' = sc
      /\ k.pc \in {"begin", "done"} /\ op # "move" /\ ~fInterrupt /\ Analysed(r) => Added(r)
  BY DEF Stepped, Tallies
<1>4. sc = [g \in Game |-> sc[g]] BY DEF ScInv
<1>5. sc' = [g \in Game |-> sc'[g]]
  <2>1. CASE sc' = sc BY <1>4, <2>1
  <2>2. CASE Added(r) BY <1>4, <2>2, AddedIs
  <2> QED BY <1>3, <2>1, <2>2
<1>13. \A x \in todo \cap Record : fate[x] = "unused" BY DEF ScInv
<1>6. op \in {"game", "match"} => \A g \in Game : Info(g) \in todo => \A x \in RecordsOf(g) : fate[x] = "unused"
  BY DEF ScInv
<1>7. ~fInterrupt => /\ \A v \in Workers : ~worker'[v].failed
                     /\ \A x \in Record : fate[x] \notin {"failed", "aborted"}
  BY <1>1, <1>3 DEF ScInv
<1>8. \A x \in Record : (Analysed(x)' <=> Analysed(x)) /\ (Assigned(x)' <=> Assigned(x))
  BY <1>2 DEF Analysed, Skips, Assigned
<1>9. scope \subseteq Record BY DEF TypeOK
<1>10. ASSUME ~fInterrupt, op \in {"game", "match"}, ~remade,
              NEW x \in scope, Info(x[1]) \notin todo, Analysed(x)
       PROVE  IF Ahead(x)' THEN Uncounted(x)' ELSE CountedOnce(x)'
  <2>0. /\ x \in Record /\ op # "move"
        /\ Ahead(x) => Uncounted(x)
        /\ ~Ahead(x) => CountedOnce(x)
    BY <1>9, <1>10 DEF ScInv, TallyInv
  <2>1. Working(w, r) /\ Pending(r) BY <1>2 DEF Working, Pending
  <2>2. k.pc # "abort" BY <1>2, <1>10 DEF Lands
  <2>3. \A v \in Workers \ {w}, y \in Record : Working(v, y)' <=> Working(v, y) BY <1>1 DEF Working
  <2>5. r \notin todo /\ fate[r] # "queued"
    <3>1. r = worker[w].task \/ r \in Answer BY <1>2, HandIs, Sorts
    <3>2. CASE r = worker[w].task
      <4>1. fate[r] = "taken" BY <1>2, <3>2, HandIs
      <4> QED BY <4>1 DEF ScInv
    <3>3. CASE r \in Answer BY <2>0, <3>3 DEF TodoInv
    <3> QED BY <3>1, <3>2, <3>3
  <2>4. CASE x = r
    <3>1. Ahead(r) /\ Uncounted(r) BY <2>0, <2>1, <2>4 DEF Ahead
    <3>2. CASE k.pc \in {"cube", "moves"}
      <4>1. sc' = sc BY <1>3, <3>2
      <4>2. k.rec = r BY <1>2, <3>2 DEF Lands
      <4>3. Working(w, r)' BY <1>1, <3>2, <4>2 DEF Working
      <4>4. Ahead(r)' BY <4>3 DEF Ahead, Pending
      <4>5. Uncounted(r)' BY <3>1, <4>1 DEF Uncounted
      <4> QED BY <2>4, <4>4, <4>5
    <3>3. CASE k.pc \in {"begin", "done"}
      <4>1. Added(r) BY <1>3, <1>10, <2>0, <2>4, <3>3
      <4>2. CountedOnce(r)' BY <1>4, <3>1, <4>1, AddedIs
      <4>3. ~Working(w, r)'
        <5>1. k.pc = "begin" => k.rec # r BY <1>2, <3>3, Linking DEF Lands
        <5> QED BY <1>1, <3>3, <5>1 DEF Working
      <4>4. \A v \in Workers \ {w} : ~Working(v, r)
        <5> SUFFICES ASSUME NEW v \in Workers \ {w}, Working(v, r) PROVE FALSE OBVIOUS
        <5>1. worker[v].pc # "free" /\ worker[w].pc # "free" /\ worker[v].rec = r BY <1>2 DEF Working
        <5> QED BY <1>2, <5>1, RecApart
      <4>5. ~Pending(r)' BY <1>2, <2>3, <2>5, <4>3, <4>4 DEF Pending
      <4>6. ASSUME r \in Answer PROVE ~Pending(CubeDecPtr(r))'
        <5> DEFINE d == CubeDecPtr(r)
        <5>1. Linked(d) /\ Next1(d) = r /\ d # r /\ d \in Record /\ d \in Double BY <4>6, Answering, Linking
        <5> HIDE DEF d
        <5>2. worker[w].task = d
          <6>1. worker[w].task # r BY <1>2, <2>0, <4>6, HandIs DEF TodoInv
          <6>2. Linked(worker[w].task) /\ r = Next1(worker[w].task) BY <1>2, <6>1 DEF HandInv
          <6>3. CubeDecPtr(Next1(worker[w].task)) = worker[w].task BY <6>2, Linking
          <6> QED BY <6>2, <6>3 DEF d
        <5>3. fate[d] = "taken" /\ d \notin todo BY <1>2, <5>1, <5>2, HandIs DEF ScInv
        <5>4. \A v \in Workers \ {w} : ~Working(v, d)
          <6> SUFFICES ASSUME NEW v \in Workers \ {w}, Working(v, d) PROVE FALSE OBVIOUS
          <6>1. worker[v].pc # "free" /\ worker[v].rec = d BY DEF Working
          <6>2. worker[v].task = d BY <5>1, <6>1, HandIs
          <6>3. Holds(v, d) /\ Holds(w, d) BY <5>2, <6>2 DEF Holds
          <6> QED BY <5>1, <6>3 DEF HandInv
        <5>5. ~Working(w, d)'
          <6>1. k.rec = r \/ k.rec \in Answer BY <1>2, Linking DEF Lands
          <6>2. k.rec # d BY <4>6, <5>1, <6>1, Sorts
          <6> QED BY <1>1, <6>2 DEF Working
        <5>6. ~Pending(d)' BY <1>2, <2>3, <5>1, <5>3, <5>4, <5>5 DEF Pending
        <5> QED BY <5>6 DEF d
      <4>7. ~Ahead(r)' BY <4>5, <4>6 DEF Ahead
      <4> QED BY <2>4, <4>2, <4>7
    <3> QED BY <1>2, <2>2, <3>2, <3>3 DEF Lands
  <2>6. CASE x # r /\ x \in Answer /\ CubeDecPtr(x) = r
    <3>1. Linked(r) /\ Next1(r) = x BY <2>6, Answering
    <3>2. Working(w, r)' \/ Working(w, x)' BY <1>1, <1>2, <2>0, <2>2, <3>1 DEF Lands, Working
    <3>3. Ahead(x)' BY <1>2, <2>0, <2>6, <3>2 DEF Ahead, Pending
    <3>4. Uncounted(x) BY <2>0, <2>1, <2>6 DEF Ahead
    <3>5. Uncounted(x)'
      <4>1. CASE sc' = sc BY <3>4, <4>1 DEF Uncounted
      <4>2. CASE Added(r) BY <1>4, <2>0, <2>6, <3>4, <4>2, AddedIs
      <4> QED BY <1>3, <4>1, <4>2
    <3> QED BY <3>3, <3>5
  <2>7. CASE x # r /\ ~(x \in Answer /\ CubeDecPtr(x) = r)
    <3>1. ASSUME NEW y \in Record, y # r, ~(y \in Answer /\ CubeDecPtr(y) = r)
          PROVE  Pending(y)' <=> Pending(y)
      <4>1. ~Working(w, y) BY <1>2, <3>1 DEF Working
      <4>2. ~Working(w, y)'
        <5>1. k.rec = r \/ (Linked(r) /\ k.rec = Next1(r)) BY <1>2 DEF Lands
        <5>2. k.rec # y BY <3>1, <5>1, Linking
        <5> QED BY <1>1, <5>2 DEF Working
      <4> QED BY <1>2, <2>3, <3>1, <4>1, <4>2 DEF Pending
    <3>2. Pending(x)' <=> Pending(x) BY <2>0, <2>7, <3>1
    <3>3. ASSUME x \in Answer
          PROVE  /\ Pending(CubeDecPtr(x))' <=> Pending(CubeDecPtr(x))
                 /\ esDouble'[CubeDecPtr(x)] = esDouble[CubeDecPtr(x)]
      <4> DEFINE d == CubeDecPtr(x)
      <4>1. d \in Record /\ d \in Double /\ d # r BY <2>7, <3>3, Answering, Linking
      <4> HIDE DEF d
      <4>2. Pending(d)' <=> Pending(d) BY <3>1, <4>1, Sorts
      <4>3. esDouble'[d] = esDouble[d] BY <1>2, <4>1 DEF Kept
      <4> QED BY <4>2, <4>3 DEF d
    <3>4. Ahead(x)' <=> Ahead(x) BY <1>2, <3>2, <3>3 DEF Ahead
    <3>5. Contribution(x)' = Contribution(x) /\ (Counts(x)' <=> Counts(x))
      <4>1. Kept(x) /\ set' = set BY <1>2, <2>0, <2>7
      <4>2. esDouble'[CubeDecPtr(x)] = esDouble[CubeDecPtr(x)]
        <5>1. CASE x \in Answer BY <3>3, <5>1
        <5>2. CASE x \notin Answer BY <2>0, <4>1, <5>2, Sorts DEF Kept, CubeDecPtr
        <5> QED BY <5>1, <5>2
      <4>3. Contribution(x)' = Contribution(x) BY <4>1, <4>2 DEF Contribution, Kept
      <4> QED BY <4>3 DEF Counts
    <3>6. Counted({x})' = Counted({x}) BY <3>5 DEF Counted
    <3>7. (Uncounted(x) => Uncounted(x)') /\ (CountedOnce(x) => CountedOnce(x)')
      <4>1. CASE sc' = sc BY <3>6, <4>1 DEF Uncounted, CountedOnce
      <4>2. CASE Added(r) BY <1>4, <2>0, <2>7, <3>6, <4>2, AddedIs
      <4> QED BY <1>3, <4>1, <4>2
    <3> QED BY <2>0, <3>4, <3>7
  <2> QED BY <2>4, <2>6, <2>7
<1>11. ~fInterrupt' /\ op' \in {"game", "match"} /\ ~remade' =>
         \A x \in scope' : Info(x[1]) \notin todo' /\ Analysed(x)' =>
           IF Ahead(x)' THEN Uncounted(x)' ELSE CountedOnce(x)'
  BY <1>2, <1>8, <1>9, <1>10
<1>12. ~fInterrupt' /\ op' \in {"game", "match"} => \A x \in scope' : Analysed(x)' => Assigned(x)'
  BY <1>2, <1>8, <1>9 DEF ScInv
<1> QED BY <1>2, <1>5, <1>6, <1>7, <1>11, <1>12, <1>13 DEF ScInv, TallyInv

-----------------------------------------------------------------------------
(* Taking tasks and ending them.                                             *)

UnchangedRecords == UNCHANGED <<esDouble, esChequer, cMoves, amMoves, stCube, lost>>
Handles(w, k) ==
  /\ worker[w].pc \notin {"begin", "cube", "moves"} /\ k \in Hand /\ k.pc \notin {"cube", "moves"}
  /\ worker' = [worker EXCEPT ![w] = k]
  /\ UnchangedRecords /\ UNCHANGED <<sc, set, op, scope, todo, remade, fInterrupt, crashed>>
  /\ fate' \in [Record -> Fates] /\ \A x \in Record : fate'[x] = "unused" <=> fate[x] = "unused"

LEMMA HandlesWorker ==
  ASSUME TypeOK, NEW w \in Workers, NEW k, Handles(w, k)
  PROVE  worker'[w] = k /\ \A v \in Workers \ {w} : worker'[v] = worker[v]
BY DEF TypeOK, Handles

LEMMA HandlesKeeps ==
  ASSUME TypeOK, TodoInv, ListInv, NEW w \in Workers, NEW k, Handles(w, k)
  PROVE  TypeOK' /\ TodoInv' /\ ListInv'
<1>1. worker'[w] = k /\ \A v \in Workers \ {w} : worker'[v] = worker[v] BY HandlesWorker
<1>2. TypeOK' BY DEF TypeOK, RecordsTyped, Handles, UnchangedRecords
<1>3. TodoInv'
  <2>1. UNCHANGED <<op, scope, todo, fInterrupt>> BY DEF Handles
  <2>2. \A x \in Record : fate'[x] = "unused" <=> fate[x] = "unused" BY DEF Handles
  <2>3. Idle' <=> Idle BY <2>2 DEF Idle
  <2>4. Answer \subseteq Record BY SortsIn
  <2> QED BY <2>1, <2>2, <2>3, <2>4 DEF TodoInv
<1>4. \A x : Replaced(x)' <=> Replaced(x) BY <1>1 DEF Replaced, Handles
<1>5. ListInv' BY <1>4 DEF ListInv, Handles, UnchangedRecords
<1> QED BY <1>2, <1>3, <1>5

(* The hands are in order if the new hand is.                                *)
LEMMA HandlesHand ==
  ASSUME TypeOK, TodoInv, HandInv, NEW w \in Workers, NEW k, Handles(w, k),
         k.pc = "free" => k = Free,
         k.pc # "free" => /\ k.task \in Record /\ k.rec \in Record
                          /\ k.rec = k.task \/ (op # "move" /\ Linked(k.task) /\ k.rec = Next1(k.task)),
         k.task # NoRecord => k.task # k.got,
         k.got # NoRecord => k.pc = "abort",
         \A x \in Record : k.task = x \/ k.got = x => fate'[x] = "taken",
         \A x \in Record : (k.task = x \/ k.got = x) /\ ~Holds(w, x) => fate[x] # "taken",
         \A x \in Record : fate[x] = "taken" => fate'[x] = "taken" \/ Holds(w, x)
  PROVE  HandInv'
<1>1. worker'[w] = k /\ \A v \in Workers \ {w} : worker'[v] = worker[v] BY HandlesWorker
<1>2. op' = op /\ set' = set /\ esChequer' = esChequer /\ k.pc \notin {"cube", "moves"}
  BY DEF Handles, UnchangedRecords
<1>3. \A x \in Record : Holds(w, x)' <=> (k.task = x \/ k.got = x) BY <1>1 DEF Holds
<1>4. \A v \in Workers \ {w}, x \in Record : Holds(v, x)' <=> Holds(v, x) BY <1>1 DEF Holds
<1>5. \A v \in Workers, x \in Record : Holds(v, x) => fate[x] = "taken" BY DEF HandInv
<1>6. \A u \in Workers, v \in Workers, x \in Record : Holds(u, x) /\ Holds(v, x) => u = v BY DEF HandInv
<1>7. \A v \in Workers, x \in Record : Holds(v, x)' => fate'[x] = "taken" BY <1>3, <1>4, <1>5, <1>6
<1>8. \A u \in Workers, v \in Workers, x \in Record : Holds(u, x)' /\ Holds(v, x)' => u = v
  <2>1. \A u \in Workers \ {w}, x \in Record : ~(Holds(u, x) /\ (k.task = x \/ k.got = x)) BY <1>5, <1>6
  <2> QED BY <1>3, <1>4, <1>6, <2>1
<1>9. \A v \in Workers :
        /\ worker'[v].pc = "free" => worker'[v] = Free
        /\ worker'[v].pc # "free" =>
             /\ worker'[v].task \in Record /\ worker'[v].rec \in Record
             /\ worker'[v].rec = worker'[v].task
                \/ (op' # "move" /\ Linked(worker'[v].task) /\ worker'[v].rec = Next1(worker'[v].task))
        /\ worker'[v].task # NoRecord => worker'[v].task # worker'[v].got
        /\ worker'[v].pc = "cube" => worker'[v].rec \notin Answer
        /\ worker'[v].got # NoRecord => worker'[v].pc = "abort"
  <2> TAKE v \in Workers
  <2>1. CASE v = w BY <1>1, <1>2, <2>1
  <2>2. CASE v # w
    <3>1. worker'[v] = worker[v] /\ op' = op BY <1>1, <1>2, <2>2
    <3> QED BY <3>1 DEF HandInv
  <2> QED BY <2>1, <2>2
<1>10. \A v \in Workers : worker'[v].pc = "moves" => worker'[v].rec \in Normal /\ EvaluatesMoves(worker[v].rec)'
  <2> SUFFICES ASSUME NEW v \in Workers, worker'[v].pc = "moves"
               PROVE  worker'[v].rec \in Normal /\ EvaluatesMoves(worker[v].rec)'
    OBVIOUS
  <2>1. v # w /\ worker'[v] = worker[v] BY <1>1, <1>2
  <2>2. worker[v].rec \in Normal /\ EvaluatesMoves(worker[v].rec) BY <2>1 DEF HandInv
  <2> QED BY <1>2, <2>1, <2>2 DEF EvaluatesMoves
<1> QED BY <1>7, <1>8, <1>9, <1>10 DEF HandInv

(* What was before a command still is, a task taken being in a hand.         *)
LEMMA HandlesDone ==
  ASSUME TypeOK, TodoInv, HandInv, DoneInv, NEW w \in Workers, NEW k, Handles(w, k),
         fInterrupt \/ (/\ k.pc # "abort"
                        /\ k.pc = "begin" /\ op # "move" => k.rec \notin Answer
                        /\ \A x \in Record : fate[x] = "queued" => fate'[x] = "queued" \/ (k.pc = "begin" /\ k.rec = x))
  PROVE  DoneInv'
<1> SUFFICES ASSUME ~fInterrupt' PROVE DoneInv' BY DEF DoneInv
<1>1. worker'[w] = k /\ \A v \in Workers \ {w} : worker'[v] = worker[v] BY HandlesWorker
<1>2. /\ UNCHANGED <<esDouble, esChequer, cMoves, amMoves, stCube, lost, set, op, scope, todo, remade,
                     fInterrupt>>
      /\ worker[w].pc \notin {"begin", "cube", "moves"} /\ k.pc \notin {"cube", "moves"}
  BY DEF Handles, UnchangedRecords
<1>3. ~fInterrupt BY <1>2
<1>4. \A v \in Workers : worker'[v].pc # "abort" BY <1>1, <1>3 DEF DoneInv
<1>5. \A v \in Workers : op' # "move" /\ worker'[v].rec \in Answer /\ set'.fAnalyseCube /\ worker'[v].pc = "begin" =>
         worker'[v].doubleError = esDouble'[CubeDecPtr(worker'[v].rec)]
  BY <1>1, <1>2, <1>3 DEF DoneInv
<1>6. \A v \in Workers : worker'[v].pc = "moves" /\ CubeWanted(worker[v].rec)' => esDouble'[worker'[v].rec] >= set'.cube
  <2> SUFFICES ASSUME NEW v \in Workers, worker'[v].pc = "moves", CubeWanted(worker[v].rec)'
               PROVE  esDouble'[worker'[v].rec] >= set'.cube
    OBVIOUS
  <2>1. worker'[v] = worker[v] BY <1>1, <1>2
  <2>2. CubeWanted(worker[v].rec) BY <1>2, <2>1 DEF CubeWanted
  <2> QED BY <1>2, <1>3, <2>1, <2>2 DEF DoneInv
<1>7. ASSUME NEW x \in Record, Pending(x) PROVE Pending(x)'
  <2>1. CASE x \in todo BY <1>2, <2>1 DEF Pending
  <2>2. CASE fate[x] = "queued"
    <3>1. fate'[x] = "queued" \/ Working(w, x)' BY <1>1, <1>3, <1>7, <2>2 DEF Working
    <3> QED BY <3>1 DEF Pending
  <2>3. CASE \E v \in Workers : Working(v, x)
    <3>1. PICK v \in Workers : Working(v, x) BY <2>3
    <3>2. Working(v, x)' BY <1>1, <1>2, <3>1 DEF Working
    <3> QED BY <3>2 DEF Pending
  <2> QED BY <1>7, <2>1, <2>2, <2>3 DEF Pending
<1>8. ASSUME NEW x \in scope, Analysed(x) PROVE Ahead(x)' \/ Complete(x)'
  <2>0. x \in Record BY <1>8 DEF TypeOK
  <2>1. CASE Pending(x) BY <1>7, <2>0, <2>1 DEF Ahead
  <2>2. CASE x \in Answer /\ op # "move" /\ Pending(CubeDecPtr(x))
    <3> DEFINE d == CubeDecPtr(x)
    <3>1. d \in Record BY <2>2, Answering, Linking
    <3> HIDE DEF d
    <3>2. Pending(d)' BY <1>7, <2>2, <3>1 DEF d
    <3> QED BY <1>2, <2>2, <3>2 DEF Ahead, d
  <2>3. CASE Complete(x) BY <1>2, <2>3 DEF Complete, CubeWanted
  <2>4. Ahead(x) \/ Complete(x) BY <1>3, <1>8 DEF DoneInv
  <2> QED BY <2>1, <2>2, <2>3, <2>4 DEF Ahead
<1>9. \A x \in Record : Analysed(x)' <=> Analysed(x) BY <1>2 DEF Analysed, Skips
<1>10. \A x \in scope' : Analysed(x)' => Ahead(x)' \/ Complete(x)' BY <1>2, <1>8, <1>9 DEF TypeOK
<1> QED BY <1>4, <1>5, <1>6, <1>10 DEF DoneInv

(* Steps that count nothing, and move nothing into the hands of the workers  *)
(* or out of them.                                                           *)
LEMMA TallyKeeps ==
  ASSUME TypeOK, TallyInv, UnchangedRecords, UNCHANGED <<sc, set, op, scope, remade, fInterrupt>>,
         ~fInterrupt => \A x \in Record : Pending(x)' <=> Pending(x),
         \A g \in Game : Info(g) \in todo => Info(g) \in todo'
  PROVE  TallyInv'
<1> SUFFICES ASSUME ~fInterrupt, op \in {"game", "match"}, ~remade,
                    NEW x \in scope, Info(x[1]) \notin todo', Analysed(x)
             PROVE  IF Ahead(x)' THEN Uncounted(x)' ELSE CountedOnce(x)'
  <2>1. \A x \in Record : Analysed(x)' <=> Analysed(x) BY DEF Analysed, Skips
  <2>2. scope \subseteq Record BY DEF TypeOK
  <2> QED BY <2>1, <2>2 DEF TallyInv
<1>1. x \in Record /\ x[1] \in Game
  <2>1. x \in Record BY DEF TypeOK
  <2> QED BY <2>1, RecordIs
<1>2. IF Ahead(x) THEN Uncounted(x) ELSE CountedOnce(x) BY <1>1 DEF TallyInv
<1>3. x \in Answer => CubeDecPtr(x) \in Record BY Answering, Linking
<1>4. Ahead(x)' <=> Ahead(x) BY <1>1, <1>3 DEF Ahead
<1>5. Uncounted(x)' <=> Uncounted(x) BY DEF Uncounted
<1>6. Counted({x})' = Counted({x}) BY DEF Counted, Counts, Contribution, UnchangedRecords
<1>7. CountedOnce(x)' <=> CountedOnce(x) BY <1>6 DEF CountedOnce
<1> QED BY <1>2, <1>4, <1>5, <1>7

LEMMA HandlesSc ==
  ASSUME TypeOK, ScInv, NEW w \in Workers, NEW k, Handles(w, k),
         \/ fInterrupt
         \/ /\ ~k.failed
            /\ \A x \in Record : fate[x] \notin {"failed", "aborted"} => fate'[x] \notin {"failed", "aborted"}
            /\ \A x \in Record : fate[x] = "queued" <=> fate'[x] = "queued" \/ (k.pc = "begin" /\ k.rec = x)
  PROVE  ScInv'
<1>1. worker'[w] = k /\ \A v \in Workers \ {w} : worker'[v] = worker[v] BY HandlesWorker
<1>2. /\ UNCHANGED <<esDouble, esChequer, cMoves, amMoves, stCube, lost, sc, set, op, scope, todo,
                     remade, fInterrupt>>
      /\ worker[w].pc \notin {"begin", "cube", "moves"} /\ k.pc \notin {"cube", "moves"}
      /\ \A x \in Record : fate'[x] = "unused" <=> fate[x] = "unused"
  BY DEF Handles, UnchangedRecords
<1>3. ~fInterrupt => \A x \in Record : Pending(x)' <=> Pending(x)
  <2> SUFFICES ASSUME ~fInterrupt, NEW x \in Record PROVE Pending(x)' <=> Pending(x) OBVIOUS
  <2>1. ~Working(w, x) /\ (Working(w, x)' <=> k.pc = "begin" /\ k.rec = x) BY <1>1, <1>2 DEF Working
  <2>2. \A v \in Workers \ {w} : Working(v, x)' <=> Working(v, x) BY <1>1 DEF Working
  <2>3. fate[x] = "queued" <=> fate'[x] = "queued" \/ Working(w, x)' BY <2>1
  <2> QED BY <1>2, <2>1, <2>2, <2>3 DEF Pending
<1>4. TallyInv' BY <1>2, <1>3, TallyKeeps DEF ScInv, UnchangedRecords
<1>5. \A x \in Record : (Analysed(x)' <=> Analysed(x)) /\ (Assigned(x)' <=> Assigned(x))
  <2> TAKE x \in Record
  <2>1. CubeDecPtr(x) \in Record
    <3>1. CASE x \in Answer BY <3>1, Answering, Linking
    <3>2. CASE x \notin Answer BY <3>2 DEF CubeDecPtr
    <3> QED BY <3>1, <3>2
  <2> QED BY <1>2, <2>1 DEF Analysed, Skips, Assigned
<1>6. ~fInterrupt => /\ \A v \in Workers : ~worker'[v].failed
                     /\ \A x \in Record : fate'[x] \notin {"failed", "aborted"}
  BY <1>1 DEF ScInv
<1>7. \A x \in todo \cap Record : fate'[x] = "unused" BY <1>2 DEF ScInv
<1>8. op \in {"game", "match"} => \A g \in Game : Info(g) \in todo => \A x \in RecordsOf(g) : fate'[x] = "unused"
  BY <1>2 DEF ScInv, Record
<1>9. sc = [g \in Game |-> sc[g]] BY DEF ScInv
<1>10. ~fInterrupt /\ op \in {"game", "match"} => \A x \in scope : Analysed(x)' => Assigned(x)'
  BY <1>5 DEF ScInv, TypeOK
<1> QED BY <1>2, <1>4, <1>6, <1>7, <1>8, <1>9, <1>10 DEF ScInv

Inv == TypeOK /\ TodoInv /\ HandInv /\ ListInv /\ DoneInv /\ ScInv

LEMMA FateIs ==
  ASSUME TypeOK, NEW r \in Record, NEW from \in Fates, NEW to \in Fates, from # "unused", to # "unused",
         Pool!Become(r, from, to)
  PROVE  /\ fate[r] = from /\ fate' \in [Record -> Fates] /\ fate'[r] = to
         /\ \A x \in Record \ {r} : fate'[x] = fate[x]
         /\ \A x \in Record : fate'[x] = "unused" <=> fate[x] = "unused"
BY DEF TypeOK, Pool!Become

LEMMA FreeIs ==
  /\ Free \in Hand /\ Free.pc = "free" /\ Free.task = NoRecord /\ Free.rec = NoRecord /\ Free.got = NoRecord
  /\ Free.failed = FALSE
BY DEF Free, Hand, Places

LEMMA TakeTaskKeeps ==
  ASSUME Inv, NEW w \in Workers, TakeTask(w)
  PROVE  Inv' /\ crashed' = crashed
<1> USE DEF Inv
<1>1. PICK r \in Record : /\ Pool!Take(r)
                          /\ worker' = [worker EXCEPT ![w] = [Free EXCEPT !.pc = "begin", !.task = r, !.rec = r]]
  BY DEF TakeTask
<1> DEFINE k == [Free EXCEPT !.pc = "begin", !.task = r, !.rec = r]
<1>2. k \in Hand /\ k.pc = "begin" /\ k.task = r /\ k.rec = r /\ k.got = NoRecord /\ ~k.failed
  BY DEF Free, Hand, Places
<1>3. worker' = [worker EXCEPT ![w] = k] BY <1>1
<1> HIDE DEF k
<1>4. worker[w].pc = "free" /\ worker[w] = Free
  BY DEF TakeTask, HandInv
<1>5. /\ fate[r] = "queued" /\ fate' \in [Record -> Fates] /\ fate'[r] = "taken"
      /\ \A x \in Record \ {r} : fate'[x] = fate[x]
      /\ \A x \in Record : fate'[x] = "unused" <=> fate[x] = "unused"
  BY <1>1, FateIs DEF Pool!Take, Fates
<1>6. Handles(w, k)
  BY <1>2, <1>3, <1>4, <1>5 DEF Handles, UnchangedRecords, TakeTask, records, command
<1>7. TypeOK' /\ TodoInv' /\ ListInv' BY <1>6, HandlesKeeps
<1>8. HandInv'
  <2>1. NoRecord \notin Record BY NotRecord
  <2>2. \A x \in Record : fate[x] = "taken" => fate'[x] = "taken" \/ Holds(w, x) BY <1>5
  <2>3. \A x \in Record : k.task = x \/ k.got = x => fate'[x] = "taken" BY <1>2, <1>5, <2>1
  <2>4. \A x \in Record : (k.task = x \/ k.got = x) /\ ~Holds(w, x) => fate[x] # "taken" BY <1>2, <1>5, <2>1
  <2> QED BY <1>2, <1>6, <2>1, <2>2, <2>3, <2>4, HandlesHand
<1>9. DoneInv'
  <2>1. op # "move" => r \notin Answer BY <1>5 DEF TodoInv
  <2>2. \A x \in Record : fate[x] = "queued" => fate'[x] = "queued" \/ (k.pc = "begin" /\ k.rec = x)
    BY <1>2, <1>5
  <2> QED BY <1>2, <1>6, <2>1, <2>2, HandlesDone
<1>10. ScInv'
  <2>1. \A x \in Record : fate[x] = "queued" <=> fate'[x] = "queued" \/ (k.pc = "begin" /\ k.rec = x)
    BY <1>2, <1>5
  <2>2. \A x \in Record : fate[x] \notin {"failed", "aborted"} => fate'[x] \notin {"failed", "aborted"} BY <1>5
  <2> QED BY <1>2, <1>6, <2>1, <2>2, HandlesSc
<1> QED BY <1>6, <1>7, <1>8, <1>9, <1>10 DEF Handles

LEMMA AbortTaskKeeps ==
  ASSUME Inv, NEW w \in Workers, AbortTask(w)
  PROVE  Inv' /\ crashed' = crashed
<1> USE DEF Inv
<1> DEFINE h == worker[w]
<1>1. PICK r \in Record : Pool!Take(r) /\ worker' = [worker EXCEPT ![w].got = r] BY DEF AbortTask
<1>2. h.pc = "abort" /\ h.got = NoRecord /\ h \in Hand BY DEF AbortTask, At, TypeOK
<1>0. worker' = [worker EXCEPT ![w] = [h EXCEPT !.got = r]] BY <1>1
<1> HIDE DEF h
<1> DEFINE k == [h EXCEPT !.got = r]
<1>3. k \in Hand /\ k.pc = "abort" /\ k.task = h.task /\ k.rec = h.rec /\ k.got = r BY <1>2 DEF Hand
<1>4. worker' = [worker EXCEPT ![w] = k] BY <1>0
<1> HIDE DEF k
<1>5. /\ fate[r] = "queued" /\ fate' \in [Record -> Fates] /\ fate'[r] = "taken"
      /\ \A x \in Record \ {r} : fate'[x] = fate[x]
      /\ \A x \in Record : fate'[x] = "unused" <=> fate[x] = "unused"
  BY <1>1, FateIs DEF Pool!Take, Fates
<1>6. Handles(w, k)
  BY <1>2, <1>3, <1>4, <1>5 DEF Handles, UnchangedRecords, AbortTask, records, command, h
<1>7. TypeOK' /\ TodoInv' /\ ListInv' BY <1>6, HandlesKeeps
<1>10. /\ h.task \in Record /\ h.rec \in Record /\ fate[h.task] = "taken" /\ Holds(w, h.task)
       /\ h.rec = h.task \/ (op # "move" /\ Linked(h.task) /\ h.rec = Next1(h.task))
  BY <1>2 DEF h, HandInv, Holds
<1>8. HandInv'
  <2>2. \A x \in Record : fate[x] = "taken" => fate'[x] = "taken" \/ Holds(w, x) BY <1>5
  <2>3. \A x \in Record : k.task = x \/ k.got = x => fate'[x] = "taken" BY <1>3, <1>5, <1>10
  <2>4. \A x \in Record : (k.task = x \/ k.got = x) /\ ~Holds(w, x) => fate[x] # "taken" BY <1>3, <1>5, <1>10
  <2>5. k.task # k.got BY <1>3, <1>5, <1>10
  <2> QED BY <1>3, <1>6, <1>10, <2>2, <2>3, <2>4, <2>5, HandlesHand
<1>9. DoneInv' /\ ScInv'
  <2>1. fInterrupt BY <1>2 DEF DoneInv, h
  <2> QED BY <1>6, <2>1, HandlesDone, HandlesSc
<1> QED BY <1>6, <1>7, <1>8, <1>9 DEF Handles

LEMMA AbortDoneKeeps ==
  ASSUME Inv, NEW w \in Workers, AbortDone(w)
  PROVE  Inv' /\ crashed' = crashed
<1> USE DEF Inv
<1> DEFINE h == worker[w]  r == h.got
<1>1. Pool!Finish(r) /\ worker' = [worker EXCEPT ![w].got = NoRecord] BY DEF AbortDone
<1>2. h.pc = "abort" /\ r # NoRecord /\ h \in Hand /\ r \in Record BY DEF AbortDone, At, TypeOK, Hand
<1>0. worker' = [worker EXCEPT ![w] = [h EXCEPT !.got = NoRecord]] BY <1>1
<1>11. PICK end \in {"ran", "failed", "aborted"} : Pool!Become(r, "taken", end) BY <1>1 DEF Pool!Finish
<1>5. /\ fate[r] = "taken" /\ fate' \in [Record -> Fates] /\ fate'[r] = end
      /\ \A x \in Record \ {r} : fate'[x] = fate[x]
      /\ \A x \in Record : fate'[x] = "unused" <=> fate[x] = "unused"
  <2> HIDE DEF r
  <2> QED BY <1>2, <1>11, FateIs DEF Fates
<1>10. /\ h.task \in Record /\ h.rec \in Record /\ fate[h.task] = "taken" /\ Holds(w, h.task) /\ h.task # r
       /\ h.rec = h.task \/ (op # "move" /\ Linked(h.task) /\ h.rec = Next1(h.task))
       /\ Holds(w, r)
  <2>1. h.task \in Record /\ NoRecord \notin Record BY <1>2, NotRecord DEF HandInv
  <2> QED BY <1>2, <2>1 DEF HandInv, Holds
<1> HIDE DEF r, h
<1> DEFINE k == [h EXCEPT !.got = NoRecord]
<1>3. k \in Hand /\ k.pc = "abort" /\ k.task = h.task /\ k.rec = h.rec /\ k.got = NoRecord BY <1>2 DEF Hand
<1>4. worker' = [worker EXCEPT ![w] = k] BY <1>0
<1> HIDE DEF k
<1>6. Handles(w, k)
  BY <1>2, <1>3, <1>4, <1>5 DEF Handles, UnchangedRecords, AbortDone, records, command, h
<1>7. TypeOK' /\ TodoInv' /\ ListInv' BY <1>6, HandlesKeeps
<1>8. HandInv'
  <2>1. NoRecord \notin Record BY NotRecord
  <2>2. \A x \in Record : fate[x] = "taken" => fate'[x] = "taken" \/ Holds(w, x) BY <1>5, <1>10
  <2>3. \A x \in Record : k.task = x \/ k.got = x => fate'[x] = "taken" BY <1>3, <1>5, <1>10, <2>1
  <2>4. \A x \in Record : (k.task = x \/ k.got = x) /\ ~Holds(w, x) => fate[x] # "taken" BY <1>3, <1>10, <2>1
  <2> QED BY <1>3, <1>6, <1>10, <2>1, <2>2, <2>3, <2>4, HandlesHand
<1>9. DoneInv' /\ ScInv'
  <2>1. fInterrupt BY <1>2 DEF DoneInv, h
  <2> QED BY <1>6, <2>1, HandlesDone, HandlesSc
<1> QED BY <1>6, <1>7, <1>8, <1>9 DEF Handles

LEMMA AbortEndsKeeps ==
  ASSUME Inv, NEW w \in Workers, AbortEnds(w)
  PROVE  Inv' /\ crashed' = crashed
<1> USE DEF Inv
<1> DEFINE h == worker[w]
<1>1. worker' = [worker EXCEPT ![w] = Goes(w)] BY DEF AbortEnds
<1>2. h.pc = "abort" /\ h.got = NoRecord /\ h \in Hand BY DEF AbortEnds, At, TypeOK
<1>10. /\ h.task \in Record /\ h.rec \in Record /\ fate[h.task] = "taken" /\ Holds(w, h.task)
       /\ h.rec = h.task \/ (op # "move" /\ Linked(h.task) /\ h.rec = Next1(h.task))
       /\ Linked(h.rec) => h.rec = h.task
  BY <1>2, HandIs DEF HandInv, Holds
<1>0. Goes(w) = IF op # "move" /\ Linked(h.rec) THEN [h EXCEPT !.pc = "begin", !.rec = Next1(h.rec)]
                                                ELSE [h EXCEPT !.pc = "done"]
  BY DEF Goes
<1>12. Linked(h.rec) => Next1(h.rec) \in Record BY DEF Linked
<1>11. fInterrupt BY <1>2 DEF DoneInv
<1> DEFINE k == Goes(w)
<1>13. worker' = [worker EXCEPT ![w] = k] BY <1>1
<1> HIDE DEF h
<1>3. /\ k \in Hand /\ k.pc \in {"begin", "done"} /\ k.task = h.task /\ k.got = NoRecord /\ k.rec \in Record
      /\ k.rec = k.task \/ (op # "move" /\ Linked(k.task) /\ k.rec = Next1(k.task))
  <2>1. CASE op # "move" /\ Linked(h.rec)
    <3>1. k = [h EXCEPT !.pc = "begin", !.rec = Next1(h.rec)] BY <1>0, <2>1
    <3> HIDE DEF k
    <3> QED BY <1>2, <1>10, <1>12, <2>1, <3>1 DEF Hand, Places
  <2>2. CASE ~(op # "move" /\ Linked(h.rec))
    <3>1. k = [h EXCEPT !.pc = "done"] BY <1>0, <2>2
    <3> HIDE DEF k
    <3> QED BY <1>2, <1>10, <2>2, <3>1 DEF Hand, Places
  <2> QED BY <2>1, <2>2
<1> HIDE DEF k
<1>5. UNCHANGED fate BY DEF AbortEnds, pool
<1>6. Handles(w, k)
  BY <1>2, <1>3, <1>5, <1>13 DEF Handles, UnchangedRecords, AbortEnds, records, command, h, TypeOK
<1>7. TypeOK' /\ TodoInv' /\ ListInv' BY <1>6, HandlesKeeps
<1>8. HandInv'
  <2>1. NoRecord \notin Record BY NotRecord
  <2>2. \A x \in Record : fate[x] = "taken" => fate'[x] = "taken" \/ Holds(w, x) BY <1>5
  <2>3. \A x \in Record : k.task = x \/ k.got = x => fate'[x] = "taken" BY <1>3, <1>5, <1>10, <2>1
  <2>4. \A x \in Record : (k.task = x \/ k.got = x) /\ ~Holds(w, x) => fate[x] # "taken" BY <1>3, <1>10, <2>1
  <2>5. k.task # k.got BY <1>3, <1>10, <2>1
  <2> QED BY <1>3, <1>6, <1>10, <2>1, <2>2, <2>3, <2>4, <2>5, HandlesHand
<1>9. DoneInv' /\ ScInv' BY <1>6, <1>11, HandlesDone, HandlesSc
<1> QED BY <1>6, <1>7, <1>8, <1>9 DEF Handles

LEMMA TaskDoneKeeps ==
  ASSUME Inv, NEW w \in Workers, TaskDone(w)
  PROVE  Inv' /\ crashed' = crashed
<1> USE DEF Inv
<1> DEFINE h == worker[w]  r == h.task
<1>1. Pool!Finish(r) /\ worker' = [worker EXCEPT ![w] = Free] BY DEF TaskDone
<1>2. h.pc = "done" BY DEF TaskDone, At
<1>10. r \in Record /\ Holds(w, r) BY <1>2 DEF HandInv, Holds
<1>11. PICK end \in {"ran", "failed", "aborted"} : Pool!Become(r, "taken", end) BY <1>1 DEF Pool!Finish
<1>5. /\ fate[r] = "taken" /\ fate' \in [Record -> Fates] /\ fate'[r] = end
      /\ \A x \in Record \ {r} : fate'[x] = fate[x]
      /\ \A x \in Record : fate'[x] = "unused" <=> fate[x] = "unused"
  <2> HIDE DEF r
  <2> QED BY <1>10, <1>11, FateIs DEF Fates
<1> HIDE DEF r, h
<1>6. Handles(w, Free)
  BY <1>1, <1>2, <1>5, FreeIs DEF Handles, UnchangedRecords, TaskDone, records, command, h
<1>7. TypeOK' /\ TodoInv' /\ ListInv' BY <1>6, HandlesKeeps
<1>8. HandInv'
  <2>1. NoRecord \notin Record BY NotRecord
  <2>2. \A x \in Record : fate[x] = "taken" => fate'[x] = "taken" \/ Holds(w, x) BY <1>5, <1>10
  <2>3. \A x \in Record : ~(Free.task = x \/ Free.got = x) BY <2>1, FreeIs
  <2> QED BY <1>6, <2>1, <2>2, <2>3, FreeIs, HandlesHand
<1>9. DoneInv'
  <2>1. \A x \in Record : fate[x] = "queued" => fate'[x] = "queued" BY <1>5
  <2> QED BY <1>6, <2>1, FreeIs, HandlesDone
<1>12. ScInv'
  <2>1. \A x \in Record : fate[x] = "queued" <=> fate'[x] = "queued" \/ (Free.pc = "begin" /\ Free.rec = x)
    BY <1>5, FreeIs
  <2>2. ~fInterrupt => fate'[r] = "ran" BY DEF TaskDone, ScInv, r, h
  <2>3. ~fInterrupt => \A x \in Record : fate[x] \notin {"failed", "aborted"} => fate'[x] \notin {"failed", "aborted"}
    BY <1>5, <2>2
  <2> QED BY <1>6, <2>1, <2>3, FreeIs, HandlesSc
<1> QED BY <1>6, <1>7, <1>8, <1>9, <1>12 DEF Handles

-----------------------------------------------------------------------------
(* The commands and the main thread.                                         *)

LEMMA IdleHands ==
  ASSUME HandInv, NEW w \in Workers, \A r \in Record : fate[r] # "taken"
  PROVE  worker[w] = Free
<1>1. worker[w].pc # "free" => worker[w].task \in Record BY DEF HandInv
<1>2. \A r \in Record : ~Holds(w, r) BY DEF HandInv
<1>3. worker[w].pc = "free" BY <1>1, <1>2 DEF Holds
<1> QED BY <1>3 DEF HandInv

HandsFree == \A w \in Workers : worker[w] = Free

LEMMA AllFree == HandsFree => HandInv
<1> SUFFICES ASSUME HandsFree PROVE HandInv OBVIOUS
<1> USE DEF HandsFree
<1>1. \A w \in Workers, r \in Record : ~Holds(w, r) BY FreeIs, NotRecord DEF Holds
<1> QED BY <1>1, FreeIs DEF HandInv

(* Nothing but the records and the statistics matters between commands.      *)
Settled == \A r \in Normal : Sound(r)
Rest ==
  /\ op = "none" /\ scope = {} /\ todo = {} /\ fInterrupt = FALSE /\ Idle /\ HandsFree
  /\ Settled
  /\ sc = [g \in Game |-> sc[g]]

LEMMA NoneReplaced ==
  ASSUME ListInv, \A w \in Workers : worker[w] = Free
  PROVE  Settled
<1>1. \A r : ~Replaced(r) BY FreeIs DEF Replaced
<1> QED BY <1>1 DEF ListInv, Settled, Sound

LEMMA BetweenCommands == TypeOK /\ Rest => Inv
<1> SUFFICES ASSUME TypeOK, Rest PROVE Inv OBVIOUS
<1> USE DEF Rest, HandsFree
<1>1. TodoInv BY SortsIn DEF TodoInv, Idle
<1>2. HandInv BY AllFree
<1>3. ListInv
  <2>1. \A r : ~Replaced(r) BY FreeIs DEF Replaced
  <2>2. lost \subseteq Normal BY DEF TypeOK, RecordsTyped
  <2> QED BY <2>1, <2>2 DEF ListInv, Settled, Sound
<1>4. DoneInv BY FreeIs DEF DoneInv
<1>5. ScInv BY FreeIs DEF ScInv, TallyInv, Idle
<1> QED BY <1>1, <1>2, <1>3, <1>4, <1>5 DEF Inv

LEMMA InitInv ==
  ASSUME Init
  PROVE  Inv /\ Running
<1> USE DEF Init
<1>1. HandsFree /\ Settled BY DEF HandsFree, Settled, Sound
<1>2. fate = [i \in Record |-> "unused"] BY DEF Pool!Init
<1>3. Idle BY <1>2 DEF Idle
<1>4. RecordsTyped BY DEF RecordsTyped
<1>5. worker \in [Workers -> Hand] BY FreeIs
<1>6. fate \in [Record -> Fates] BY <1>2 DEF Fates
<1>7. TypeOK BY <1>4, <1>5, <1>6 DEF TypeOK
<1>8. Rest BY <1>1, <1>3 DEF Rest
<1> QED BY <1>7, <1>8, BetweenCommands DEF Running

LEMMA Between ==
  ASSUME Inv, op = "none"
  PROVE  Rest
<1>1. scope = {} /\ todo = {} /\ fInterrupt = FALSE /\ Idle BY DEF Inv, TodoInv
<1>2. \A r \in Record : fate[r] # "taken" BY <1>1 DEF Idle
<1>3. \A w \in Workers : worker[w] = Free BY <1>2, IdleHands DEF Inv
<1>4. Settled BY <1>3, NoneReplaced DEF Inv
<1> QED BY <1>1, <1>3, <1>4 DEF Inv, ScInv, Rest, HandsFree

(* A command begins: what is queued covers what is to be analysed.           *)
LEMMA CommandKeeps ==
  ASSUME Inv, NEW name \in {"move", "game", "match"}, NEW R \in SUBSET Record, NEW work, Command(name, R, work),
         work \cap Record \subseteq R,
         name = "game" => \E g \in Game : R = RecordsOf(g) /\ work \subseteq RecordsOf(g) \cup {Info(g)},
         name = "move" => \E r \in Record : R = {r},
         name # "move" => \A r \in Answer : r \notin work,
         \A r \in R : \/ r \in work
                      \/ r \in Double /\ name # "move" /\ ~Linked(r)
                      \/ r \in Answer /\ name # "move" /\ CubeDecPtr(r) \in work,
         name # "move" => \A r \in R : Info(r[1]) \in work
  PROVE  Inv'
<1>1. /\ op = "none" /\ op' = name /\ scope' = R /\ todo' = work /\ set' \in Settings
      /\ remade' = FALSE /\ UnchangedRecords /\ UNCHANGED <<sc, fInterrupt, worker, fate>>
  BY DEF Command, records, pool, UnchangedRecords
<1>2. /\ fInterrupt = FALSE /\ Idle /\ HandsFree
      /\ sc = [g \in Game |-> sc[g]]
  BY <1>1, Between DEF Rest
<1>3. TypeOK' BY <1>1 DEF Inv, TypeOK, RecordsTyped, UnchangedRecords
<1>4. TodoInv' BY <1>1, <1>2, SortsIn DEF TodoInv, Idle
<1>9. HandsFree' BY <1>1, <1>2 DEF HandsFree
<1>5. HandInv' BY <1>9, AllFree, PTL
<1>6. ListInv' BY <1>1 DEF Inv, ListInv, Replaced, UnchangedRecords
<1>7. ASSUME NEW r \in R, Analysed(r)' PROVE Ahead(r)'
  <2>1. CASE r \in work BY <1>1, <2>1 DEF Ahead, Pending
  <2>2. CASE r \in Double /\ name # "move" /\ ~Linked(r) BY <1>1, <1>7, <2>2 DEF Analysed
  <2>3. CASE r \in Answer /\ name # "move" /\ CubeDecPtr(r) \in work BY <1>1, <2>3 DEF Ahead, Pending
  <2> QED BY <2>1, <2>2, <2>3
<1>8. DoneInv' BY <1>1, <1>2, <1>7, FreeIs DEF DoneInv, HandsFree
<1>10. name # "move" => \A r \in R : Analysed(r)' => Assigned(r)'
  <2> SUFFICES ASSUME name # "move", NEW r \in R, Analysed(r)' PROVE Assigned(r)' OBVIOUS
  <2>1. CASE r \in work
    <3>1. CubeDecPtr(r) = r BY <2>1 DEF CubeDecPtr
    <3> QED BY <1>1, <2>1, <3>1 DEF Assigned
  <2>2. CASE r \in Double /\ ~Linked(r) BY <1>1, <1>7, <2>2 DEF Analysed
  <2>3. CASE r \in Answer /\ CubeDecPtr(r) \in work BY <1>1, <2>3 DEF Assigned
  <2> QED BY <2>1, <2>2, <2>3
<1>11. TallyInv' BY <1>1 DEF TallyInv
<1>12. ScInv' BY <1>1, <1>2, <1>10, <1>11, FreeIs DEF ScInv, Idle, HandsFree, Record
<1> QED BY <1>3, <1>4, <1>5, <1>6, <1>8, <1>12 DEF Inv

LEMMA GameTasksCover ==
  ASSUME NEW g \in Game
  PROVE  /\ RecordsOf(g) \in SUBSET Record /\ GameTasks(g) \subseteq RecordsOf(g) \cup {Info(g)}
         /\ GameTasks(g) \cap Record \subseteq RecordsOf(g)
         /\ \A r \in RecordsOf(g) : r[1] = g /\ Info(r[1]) \in GameTasks(g)
         /\ \A r \in Answer : r \notin GameTasks(g)
         /\ \A r \in RecordsOf(g) : \/ r \in GameTasks(g)
                                    \/ r \in Double /\ ~Linked(r)
                                    \/ r \in Answer /\ CubeDecPtr(r) \in GameTasks(g)
<1>1. RecordsOf(g) \in SUBSET Record BY DEF Record
<1>2. GameTasks(g) \subseteq RecordsOf(g) \cup {Info(g)} BY DEF GameTasks
<1>3. GameTasks(g) \cap Record \subseteq RecordsOf(g) BY <1>2, NotRecord
<1>4. ASSUME NEW r \in Answer, r \in GameTasks(g) PROVE FALSE
  <2>1. r \in Record /\ r # Info(g) BY SortsIn, NotRecord
  <2>2. r \in Normal \/ Linked(r) BY <1>4, <2>1 DEF GameTasks
  <2> QED BY <2>1, <2>2, Sorts DEF Linked
<1>5. ASSUME NEW r \in RecordsOf(g), r \in Answer PROVE CubeDecPtr(r) \in GameTasks(g)
  <2> DEFINE d == CubeDecPtr(r)
  <2>1. Linked(d) /\ d \in Record /\ d[1] = r[1] BY <1>5, Answering, Linking
  <2>2. r[1] = g BY DEF RecordsOf
  <2> HIDE DEF d
  <2>3. d \in RecordsOf(g) BY <2>1, <2>2, RecordIs DEF RecordsOf
  <2>4. d \in GameTasks(g) BY <2>1, <2>3 DEF GameTasks
  <2> QED BY <2>4 DEF d
<1>6. ASSUME NEW r \in RecordsOf(g)
      PROVE  \/ r \in GameTasks(g)
             \/ r \in Double /\ ~Linked(r)
             \/ r \in Answer /\ CubeDecPtr(r) \in GameTasks(g)
  <2>1. r \in Normal \/ Linked(r) => r \in GameTasks(g) BY DEF GameTasks
  <2>2. r \in Record BY <1>1
  <2> QED BY <1>5, <2>1, <2>2, Sorts
<1>7. \A r \in RecordsOf(g) : r[1] = g /\ Info(r[1]) \in GameTasks(g) BY DEF RecordsOf, GameTasks
<1> QED BY <1>1, <1>2, <1>3, <1>4, <1>6, <1>7

LEMMA AnalysesKeep ==
  ASSUME Inv, \/ CommandAnalyseMatch \/ \E g \in Game : CommandAnalyseGame(g)
              \/ \E r \in Record : CommandAnalyseMove(r)
  PROVE  Inv'
<1>1. CASE CommandAnalyseMatch
  <2> DEFINE work == UNION {GameTasks(g) : g \in Game}
  <2>1. Command("match", Record, work) BY <1>1 DEF CommandAnalyseMatch
  <2>2. \A r \in Answer : r \notin work BY GameTasksCover
  <2>3. \A r \in Record : r \in work \/ (r \in Double /\ ~Linked(r)) \/ (r \in Answer /\ CubeDecPtr(r) \in work)
    <3> SUFFICES ASSUME NEW r \in Record
                 PROVE  r \in work \/ (r \in Double /\ ~Linked(r)) \/ (r \in Answer /\ CubeDecPtr(r) \in work)
      OBVIOUS
    <3>1. PICK g \in Game : r \in RecordsOf(g) BY DEF Record
    <3>2. GameTasks(g) \subseteq work OBVIOUS
    <3> HIDE DEF work
    <3> QED BY <3>1, <3>2, GameTasksCover
  <2>4. \A r \in Record : Info(r[1]) \in work
    <3> SUFFICES ASSUME NEW r \in Record PROVE Info(r[1]) \in work OBVIOUS
    <3>1. PICK g \in Game : r \in RecordsOf(g) BY DEF Record
    <3>2. GameTasks(g) \subseteq work OBVIOUS
    <3> HIDE DEF work
    <3> QED BY <3>1, <3>2, GameTasksCover
  <2> HIDE DEF work
  <2> QED BY <2>1, <2>2, <2>3, <2>4, CommandKeeps
<1>2. CASE \E g \in Game : CommandAnalyseGame(g)
  <2>1. PICK g \in Game : Command("game", RecordsOf(g), GameTasks(g)) BY <1>2 DEF CommandAnalyseGame
  <2> DEFINE R == RecordsOf(g)  work == GameTasks(g)
  <2>2. /\ R \in SUBSET Record /\ work \cap Record \subseteq R
        /\ \E x \in Game : R = RecordsOf(x) /\ work \subseteq RecordsOf(x) \cup {Info(x)}
        /\ \A r \in Answer : r \notin work
        /\ \A r \in R : r \in work \/ (r \in Double /\ ~Linked(r)) \/ (r \in Answer /\ CubeDecPtr(r) \in work)
        /\ \A r \in R : Info(r[1]) \in work
    BY GameTasksCover
  <2>3. Command("game", R, work) BY <2>1
  <2> HIDE DEF R, work
  <2> QED BY <2>2, <2>3, CommandKeeps
<1>3. CASE \E r \in Record : CommandAnalyseMove(r)
  <2>1. PICK r \in Record : Command("move", {r}, {r}) BY <1>3 DEF CommandAnalyseMove
  <2> QED BY <2>1, CommandKeeps
<1> QED BY <1>1, <1>2, <1>3

LEMMA ClearKeeps ==
  ASSUME Inv, NEW R, NEW infos, Clear(R, infos)
  PROVE  Inv' /\ crashed' = crashed
<1>1. /\ op = "none" /\ AnalyseClearMove(R)
      /\ UNCHANGED <<set, op, scope, todo, remade, fInterrupt, worker, crashed, fate>>
  BY DEF Clear, pool
<1>2. Rest BY <1>1, Between
<1>3. RecordsTyped' BY <1>1 DEF Inv, TypeOK, RecordsTyped, AnalyseClearMove
<1>4. TypeOK' BY <1>1, <1>3 DEF Inv, TypeOK
<1>5. Settled'
  <2> SUFFICES ASSUME NEW r \in Normal PROVE Sound(r)' BY DEF Settled
  <2>1. Sound(r) BY <1>2 DEF Rest, Settled
  <2>2. /\ esChequer'[r] = IF r \in R THEN 0 ELSE esChequer[r]
        /\ cMoves'[r] = (r \notin R /\ cMoves[r])
        /\ amMoves'[r] = IF r \in R THEN 0 ELSE amMoves[r]
        /\ lost' = lost \ R
    BY <1>1 DEF AnalyseClearMove
  <2>3. CASE r \in R
    <3>1. cMoves'[r] = FALSE /\ esChequer'[r] = 0 /\ r \notin lost' BY <2>2, <2>3
    <3> QED BY <3>1 DEF Sound
  <2>4. CASE r \notin R
    <3>1. /\ esChequer'[r] = esChequer[r] /\ cMoves'[r] = cMoves[r] /\ amMoves'[r] = amMoves[r]
          /\ r \in lost' <=> r \in lost
      BY <1>3, <2>2, <2>4 DEF Inv, TypeOK, RecordsTyped
    <3> QED BY <2>1, <3>1 DEF Sound
  <2> QED BY <2>3, <2>4
<1>9. sc' = [g \in Game |-> sc'[g]] BY DEF Clear
<1>7. Rest' BY <1>1, <1>2, <1>5, <1>9 DEF Idle, Rest, HandsFree
<1>8. Inv' BY <1>4, <1>7, BetweenCommands, PTL
<1> QED BY <1>1, <1>8

(* Steps that leave what the invariant is about as it is, but for statistics *)
(* that are of no interest yet.                                              *)
LEMMA SameInv ==
  ASSUME Inv,
         UNCHANGED <<esDouble, esChequer, cMoves, amMoves, stCube, lost, set, op, scope, todo,
                     fInterrupt, worker,
                     fate>>,
         \/ sc' = sc /\ remade' = remade
         \/ sc' = [g \in Game |-> sc'[g]] /\ remade' \in BOOLEAN /\ (op \in {"none", "move"} \/ remade')
  PROVE  Inv'
<1>1. TypeOK' BY DEF Inv, TypeOK, RecordsTyped
<1>2. TodoInv' BY DEF Inv, TodoInv, Idle
<1>3. HandInv' BY DEF Inv, HandInv, Holds, EvaluatesMoves
<1>4. ListInv' BY DEF Inv, ListInv, Replaced
<1>5. DoneInv' BY DEF Inv, DoneInv, Ahead, Pending, Working, Complete, CubeWanted, Analysed, Skips
<1>6. TallyInv'
  <2>1. CASE sc' = sc /\ remade' = remade
    <3>1. UnchangedRecords BY DEF UnchangedRecords
    <3>2. \A x \in Record : Pending(x)' <=> Pending(x) BY DEF Pending, Working
    <3> QED BY <2>1, <3>1, <3>2, TallyKeeps DEF Inv, ScInv
  <2>2. CASE op \in {"none", "move"} \/ remade' BY <2>2 DEF TallyInv
  <2> QED BY <2>1, <2>2
<1>7. sc' = [g \in Game |-> sc'[g]] BY DEF Inv, ScInv
<1>8. ScInv' BY <1>6, <1>7 DEF Inv, ScInv, Analysed, Skips, Assigned
<1> QED BY <1>1, <1>2, <1>3, <1>4, <1>5, <1>8 DEF Inv

(* A save reads a list that is gone only where an evaluation has freed it.   *)
LEMMA SavesKeep ==
  ASSUME Inv, CommandSaveMatch \/ save_autosave
  PROVE  (Inv' /\ crashed' = crashed) \/ (~Running' /\ ListsThere')
<1>1. /\ Save /\ UNCHANGED <<esDouble, esChequer, cMoves, amMoves, stCube, lost, set, op, scope, todo,
                             fInterrupt,
                             worker, fate>>
      /\ (op = "none" /\ remade' = remade) \/ remade' = TRUE
  BY DEF CommandSaveMatch, save_autosave, records, command, pool
<1>2. CASE sc' = [g \in Game |-> updateStatisticsGame(g)] /\ crashed' = crashed
  <2>1. sc' = [g \in Game |-> sc'[g]] BY <1>2
  <2>2. remade' \in BOOLEAN BY <1>1 DEF Inv, TypeOK
  <2> QED BY <1>1, <1>2, <2>1, <2>2, SameInv
<1>3. CASE crashed' \in Gone
  <2>1. crashed' \in Normal /\ (crashed' \in lost \/ Replaced(crashed')) BY <1>3 DEF Inv, ListInv, Gone
  <2>2. crashed' # NoRecord BY <2>1, SortsIn, NotRecord
  <2> QED BY <1>1, <2>1, <2>2 DEF Replaced, ListsThere, Running, At
<1> QED BY <1>1, <1>2, <1>3 DEF Save

LEMMA InterruptKeeps ==
  ASSUME Inv, Interrupt
  PROVE  Inv' /\ crashed' = crashed
<1>1. /\ op # "none" /\ fInterrupt' = TRUE
      /\ UNCHANGED <<esDouble, esChequer, cMoves, amMoves, stCube, lost, sc, set, op, scope, todo,
                     remade, worker,
                     crashed, fate>>
  BY DEF Interrupt, records, command, pool
<1>2. TypeOK' BY <1>1 DEF Inv, TypeOK, RecordsTyped
<1>3. TodoInv' BY <1>1 DEF Inv, TodoInv, Idle
<1>4. HandInv' BY <1>1 DEF Inv, HandInv, Holds, EvaluatesMoves
<1>5. ListInv' BY <1>1 DEF Inv, ListInv, Replaced
<1>6. DoneInv' BY <1>1 DEF DoneInv
<1>7. ScInv' BY <1>1 DEF Inv, ScInv, TallyInv
<1> QED BY <1>1, <1>2, <1>3, <1>4, <1>5, <1>6, <1>7 DEF Inv

(* The first task of a game comes after its statistics have begun again.     *)
LEMMA InfoFirst ==
  ASSUME Inv, NEW g \in Game, Info(g) \in todo, op = "game"
  PROVE  Idle /\ scope = RecordsOf(g) /\ \A r \in todo \cap Record : Before(Info(g), r)
<1>1. PICK x \in Game : /\ scope = RecordsOf(x) /\ todo \subseteq RecordsOf(x) \cup {Info(x)}
                        /\ Info(x) \in todo => Idle
  BY DEF Inv, TodoInv
<1>2. Info(g) \notin RecordsOf(x) BY NotRecord DEF Record
<1>3. g = x BY <1>1, <1>2 DEF Info
<1>4. ASSUME NEW r \in todo \cap Record PROVE Before(Info(g), r)
  <2>1. r # Info(g) BY NotRecord
  <2>2. r \in RecordsOf(g) BY <1>1, <1>3, <2>1
  <2>3. r[1] = g /\ r[2] \in Nat \ {0} BY <2>2, RecordIs DEF RecordsOf
  <2> QED BY <2>3 DEF Before, Info
<1> QED BY <1>1, <1>3, <1>4

(* The statistics of a game begin again: none of its records is done with.   *)
LEMMA InfoSc ==
  ASSUME TypeOK, TodoInv, ScInv, NEW g \in Game, Info(g) \in todo,
         todo' = IF fInterrupt THEN {} ELSE todo \ {Info(g)}, sc' = [sc EXCEPT ![g] = EmptyBag],
         UNCHANGED <<esDouble, esChequer, cMoves, amMoves, stCube, set, op, scope, remade, fInterrupt,
                     worker, fate>>
  PROVE  ScInv'
<1>1. sc' = [x \in Game |-> sc'[x]] /\ sc'[g] = EmptyBag /\ \A x \in Game \ {g} : sc'[x] = sc[x] BY DEF ScInv
<1>2. todo' \subseteq todo OBVIOUS
<1>3. \A r \in todo' \cap Record : fate'[r] = "unused" BY <1>2 DEF ScInv
<1>4. op \in {"game", "match"} => \A x \in Game : Info(x) \in todo' => \A r \in RecordsOf(x) : fate'[r] = "unused"
  BY <1>2 DEF ScInv
<1>5. ~fInterrupt => /\ \A w \in Workers : ~worker'[w].failed
                     /\ \A r \in Record : fate'[r] \notin {"failed", "aborted"}
  BY DEF ScInv
<1>6. \A r \in Answer : CubeDecPtr(r) \in Record BY Answering, Linking
<1>7. \A r \in Record : CubeDecPtr(r) \in Record /\ CubeDecPtr(r)[1] = r[1] BY <1>6, Answering DEF CubeDecPtr
<1>8. ~fInterrupt => \A r \in Record : r \in todo' <=> r \in todo BY NotRecord
<1>9. ~fInterrupt => \A r \in Record : (Analysed(r)' <=> Analysed(r)) /\ (Assigned(r)' <=> Assigned(r))
  BY <1>7, <1>8 DEF Analysed, Skips, Assigned
<1>10. scope \subseteq Record BY DEF TypeOK
<1>11. ~fInterrupt /\ op \in {"game", "match"} => \A r \in scope : Analysed(r)' => Assigned(r)'
  BY <1>9, <1>10 DEF ScInv
<1>12. ASSUME ~fInterrupt, op \in {"game", "match"}, ~remade,
              NEW r \in scope, Info(r[1]) \notin todo', Analysed(r)
       PROVE  IF Ahead(r)' THEN Uncounted(r)' ELSE CountedOnce(r)'
  <2>1. r \in Record /\ r[1] \in Game BY <1>10, <1>12, RecordIs
  <2>2. CASE r[1] = g
    <3>1. CubeDecPtr(r) \in RecordsOf(g)
      <4> DEFINE d == CubeDecPtr(r)
      <4>1. d \in Record /\ d[1] = g BY <1>7, <2>1, <2>2
      <4> HIDE DEF d
      <4>2. d \in RecordsOf(g) BY <4>1, RecordIs DEF RecordsOf
      <4> QED BY <4>2 DEF d
    <3>2. fate[CubeDecPtr(r)] = "unused" BY <1>12, <3>1 DEF ScInv
    <3>3. CubeDecPtr(r) \in todo BY <1>12, <3>2 DEF ScInv, Assigned
    <3>4. CubeDecPtr(r) \in todo' BY <1>7, <1>8, <1>12, <2>1, <3>3
    <3>5. Ahead(r)' BY <1>12, <2>1, <3>4 DEF Ahead, Pending, CubeDecPtr
    <3>6. DOMAIN sc'[r[1]] = {} BY <1>1, <2>2 DEF EmptyBag, SetToBag
    <3>7. Uncounted(r)' BY <3>6 DEF Uncounted
    <3> QED BY <3>5, <3>7
  <2>3. CASE r[1] # g
    <3>1. Info(r[1]) \notin todo BY <1>12, <2>3 DEF Info
    <3>2. sc'[r[1]] = sc[r[1]] BY <1>1, <2>1, <2>3
    <3>3. \A x \in Record : Pending(x)' <=> Pending(x) BY <1>8, <1>12 DEF Pending, Working
    <3>4. Ahead(r)' <=> Ahead(r) BY <1>6, <2>1, <3>3 DEF Ahead
    <3>5. Contribution(r)' = Contribution(r) BY DEF Contribution
    <3>6. Counted({r})' = Counted({r}) BY <3>5 DEF Counted, Counts
    <3>7. (Uncounted(r)' <=> Uncounted(r)) /\ (CountedOnce(r)' <=> CountedOnce(r))
      BY <3>2, <3>6 DEF Uncounted, CountedOnce
    <3> QED BY <1>10, <1>12, <3>1, <3>4, <3>7 DEF ScInv, TallyInv
  <2> QED BY <2>2, <2>3
<1>13. TallyInv' BY <1>9, <1>10, <1>12 DEF TallyInv
<1> QED BY <1>1, <1>3, <1>4, <1>5, <1>11, <1>13 DEF ScInv

LEMMA AnalyzeGameInfoKeeps ==
  ASSUME Inv, AnalyzeGameInfo
  PROVE  Inv' /\ crashed' = crashed
<1>1. PICK g \in Game : /\ First(Info(g)) /\ todo' = IF fInterrupt THEN {} ELSE todo \ {Info(g)}
                        /\ sc' = [sc EXCEPT ![g] = EmptyBag]
  BY DEF AnalyzeGameInfo
<1>2. /\ op' = IF fInterrupt /\ op = "game" THEN "none" ELSE op
      /\ scope' = IF op' = "none" THEN {} ELSE scope
      /\ fInterrupt' = (fInterrupt /\ op' # "none")
      /\ UNCHANGED <<esDouble, esChequer, cMoves, amMoves, stCube, lost, set, remade, worker, fate, crashed>>
  BY DEF AnalyzeGameInfo, records, pool
<1>3. Info(g) \in todo /\ Info(g) \notin Record BY <1>1, NotRecord DEF First
<1>4. op # "none" /\ op \in {"none", "move", "game", "match"} /\ fInterrupt \in BOOLEAN
  BY <1>3 DEF Inv, TodoInv, TypeOK
<1>5. TypeOK'
  <2>1. scope' \in SUBSET Record BY <1>2 DEF Inv, TypeOK
  <2>2. op' \in {"none", "move", "game", "match"} /\ fInterrupt' \in BOOLEAN BY <1>2, <1>4
  <2> QED BY <1>2, <2>1, <2>2 DEF Inv, TypeOK, RecordsTyped
<1>6. CASE fInterrupt /\ op = "game"
  <2>1. op' = "none" /\ scope' = {} /\ todo' = {} /\ fInterrupt' = FALSE BY <1>1, <1>2, <1>6
  <2>2. Idle BY <1>3, <1>6, InfoFirst
  <2>3. \A w \in Workers : worker[w] = Free BY <2>2, IdleHands DEF Inv, Idle
  <2>6. Settled BY <2>3, NoneReplaced DEF Inv
  <2>9. sc' = [x \in Game |-> sc'[x]] BY <1>1 DEF Inv, ScInv
  <2>7. Rest' BY <1>2, <2>1, <2>2, <2>3, <2>6, <2>9 DEF Rest, HandsFree, Idle, Settled, Sound
  <2>8. Inv' BY <1>5, <2>7, BetweenCommands, PTL
  <2> QED BY <1>2, <2>8
<1>7. CASE ~(fInterrupt /\ op = "game")
  <2>1. op' = op /\ scope' = scope /\ fInterrupt' = fInterrupt BY <1>2, <1>4, <1>7
  <2>2. todo' \subseteq todo /\ Info(g) \notin todo' BY <1>1
  <2>3. TodoInv'
    <3>1. op = "game" => \E x \in Game : /\ scope = RecordsOf(x) /\ todo' \subseteq RecordsOf(x) \cup {Info(x)}
                                         /\ Info(x) \in todo' => Idle
      BY <2>2 DEF Inv, TodoInv
    <3>2. todo' \cap Record \subseteq scope /\ \A r \in Record : fate[r] # "unused" => r \in scope
      BY <2>2 DEF Inv, TodoInv
    <3>3. op # "move" => \A r \in Answer : r \notin todo' /\ fate[r] = "unused" BY <2>2 DEF Inv, TodoInv
    <3>4. op = "move" => \E r \in Record : scope = {r} BY DEF Inv, TodoInv
    <3>5. Idle' <=> Idle BY <1>2 DEF Idle
    <3> QED BY <1>2, <1>4, <2>1, <3>1, <3>2, <3>3, <3>4, <3>5 DEF TodoInv
  <2>4. HandInv' BY <1>2, <2>1 DEF Inv, HandInv, Holds, EvaluatesMoves
  <2>5. ListInv' BY <1>2, <2>1 DEF Inv, ListInv, Replaced
  <2>6. DoneInv'
    <3>1. CASE fInterrupt BY <2>1, <3>1 DEF DoneInv
    <3>2. CASE ~fInterrupt
      <4>1. \A r \in Record : r \in todo' <=> r \in todo BY <1>1, <1>3, <3>2
      <4>2. \A r \in Record : Pending(r)' <=> Pending(r) BY <1>2, <4>1 DEF Pending, Working
      <4>3. \A r \in Answer : CubeDecPtr(r) \in Record BY Answering, Linking
      <4>4. \A r \in Record : Ahead(r)' <=> Ahead(r) BY <2>1, <4>2, <4>3 DEF Ahead
      <4>5. \A r \in Record : (Complete(r)' <=> Complete(r)) /\ (Analysed(r)' <=> Analysed(r))
        BY <1>2, <2>1 DEF Complete, CubeWanted, Analysed, Skips
      <4>6. scope \subseteq Record BY DEF Inv, TypeOK
      <4> QED BY <1>2, <2>1, <3>2, <4>4, <4>5, <4>6 DEF Inv, DoneInv, CubeWanted
    <3> QED BY <3>1, <3>2
  <2>7. ScInv' BY <1>1, <1>2, <1>3, <2>1, InfoSc DEF Inv
  <2> QED BY <1>2, <1>5, <2>3, <2>4, <2>5, <2>6, <2>7 DEF Inv
<1> QED BY <1>6, <1>7

LEMMA AddTaskKeeps ==
  ASSUME Inv, AddTask
  PROVE  Inv' /\ crashed' = crashed
<1>1. PICK r \in Record : First(r) /\ Pool!Add(r) /\ todo' = todo \ {r} BY DEF AddTask
<1>2. UNCHANGED <<esDouble, esChequer, cMoves, amMoves, stCube, lost, sc, set, op, scope, remade, fInterrupt,
                  worker, crashed>>
  BY DEF AddTask, records
<1>3. r \in todo /\ op # "none" /\ r \in scope BY <1>1 DEF First, Inv, TodoInv
<1>4. /\ fate[r] = "unused" /\ fate' \in [Record -> Fates] /\ fate'[r] = "queued"
      /\ \A x \in Record \ {r} : fate'[x] = fate[x]
  BY <1>1 DEF Pool!Add, Pool!Become, Inv, TypeOK, Fates
<1>5. TypeOK' BY <1>2, <1>4 DEF Inv, TypeOK, RecordsTyped
<1>6. TodoInv'
  <2>1. todo' \cap Record \subseteq scope BY <1>1 DEF Inv, TodoInv
  <2>2. \A x \in Record : fate'[x] # "unused" => x \in scope BY <1>3, <1>4 DEF Inv, TodoInv
  <2>3. op = "game" => \E g \in Game : /\ scope = RecordsOf(g) /\ todo' \subseteq RecordsOf(g) \cup {Info(g)}
                                       /\ Info(g) \notin todo'
    <3> SUFFICES ASSUME op = "game"
                 PROVE  \E g \in Game : /\ scope = RecordsOf(g) /\ todo' \subseteq RecordsOf(g) \cup {Info(g)}
                                        /\ Info(g) \notin todo'
      OBVIOUS
    <3>1. PICK g \in Game : scope = RecordsOf(g) /\ todo \subseteq RecordsOf(g) \cup {Info(g)}
      BY DEF Inv, TodoInv
    <3>2. Info(g) \notin todo
      <4> SUFFICES ASSUME Info(g) \in todo PROVE FALSE OBVIOUS
      <4>1. Before(Info(g), r) BY <1>3, InfoFirst
      <4> QED BY <1>1, <4>1 DEF First
    <3> QED BY <1>1, <3>1, <3>2
  <2>4. op # "move" => \A x \in Answer : x \notin todo' /\ fate'[x] = "unused"
    BY <1>1, <1>3, <1>4, SortsIn DEF Inv, TodoInv
  <2>5. op = "move" => \E x \in Record : scope = {x} BY DEF Inv, TodoInv
  <2> QED BY <1>2, <1>3, <2>1, <2>2, <2>3, <2>4, <2>5 DEF TodoInv
<1>7. HandInv'
  <2>1. \A x \in Record : fate[x] = "taken" => fate'[x] = "taken" BY <1>4
  <2> QED BY <1>2, <2>1 DEF Inv, HandInv, Holds, EvaluatesMoves
<1>8. ListInv' BY <1>2 DEF Inv, ListInv, Replaced
<1>9. DoneInv'
  <2> SUFFICES ASSUME ~fInterrupt PROVE DoneInv' BY <1>2 DEF DoneInv
  <2>1. \A x \in Record : Pending(x) => Pending(x)' BY <1>1, <1>2, <1>4 DEF Pending, Working
  <2>2. \A x \in Answer : CubeDecPtr(x) \in Record BY Answering, Linking
  <2>3. \A x \in Record : Ahead(x) => Ahead(x)' BY <1>2, <2>1, <2>2 DEF Ahead
  <2>4. \A x \in Record : (Complete(x)' <=> Complete(x)) /\ (Analysed(x)' <=> Analysed(x))
    BY <1>2 DEF Complete, CubeWanted, Analysed, Skips
  <2>5. scope \subseteq Record BY DEF Inv, TypeOK
  <2> QED BY <1>2, <2>3, <2>4, <2>5 DEF Inv, DoneInv, CubeWanted
<1>10. ScInv'
  <2>1. \A x \in todo' \cap Record : fate'[x] = "unused" BY <1>1, <1>4 DEF Inv, ScInv
  <2>2. \A g \in Game : Info(g) \in todo' <=> Info(g) \in todo BY <1>1, NotRecord
  <2>3. ASSUME NEW g \in Game, Info(g) \in todo, op \in {"game", "match"}, NEW x \in RecordsOf(g)
        PROVE  fate'[x] = "unused"
    <3>1. x \in Record /\ x[1] = g /\ x[2] > 0 BY RecordIs DEF RecordsOf, Record
    <3>2. fate[x] = "unused" BY <2>3 DEF Inv, ScInv
    <3>3. x # r
      <4> SUFFICES ASSUME x = r PROVE FALSE OBVIOUS
      <4>1. Before(Info(g), r) BY <3>1 DEF Before, Info
      <4> QED BY <1>1, <2>3, <4>1 DEF First
    <3> QED BY <1>4, <3>1, <3>2, <3>3
  <2>4. ~fInterrupt => \A x \in Record : fate'[x] \notin {"failed", "aborted"} BY <1>4 DEF Inv, ScInv
  <2>5. ASSUME NEW x \in scope, Assigned(x) PROVE Assigned(x)'
    <3> DEFINE d == CubeDecPtr(x)
    <3>1. x \in Record BY DEF Inv, TypeOK
    <3>2. d \in Record BY <3>1, Answering, Linking DEF CubeDecPtr
    <3>3. d \in todo \/ fate[d] # "unused" BY <2>5 DEF Assigned
    <3> HIDE DEF d
    <3>4. d \in todo' \/ fate'[d] # "unused" BY <1>1, <1>4, <3>2, <3>3
    <3> QED BY <3>4 DEF Assigned, d
  <2>6. \A x \in Record : Analysed(x)' <=> Analysed(x) BY <1>2 DEF Analysed, Skips
  <2>7. scope \subseteq Record BY DEF Inv, TypeOK
  <2>8. \A x \in Record : Pending(x)' <=> Pending(x) BY <1>1, <1>2, <1>3, <1>4 DEF Pending, Working
  <2>9. UnchangedRecords BY <1>2 DEF UnchangedRecords
  <2>10. TallyInv' BY <1>2, <2>2, <2>8, <2>9, TallyKeeps DEF Inv, ScInv
  <2>11. ~fInterrupt' /\ op' \in {"game", "match"} => \A x \in scope' : Analysed(x)' => Assigned(x)'
    BY <1>2, <2>5, <2>6, <2>7 DEF Inv, ScInv
  <2> QED BY <1>2, <2>1, <2>2, <2>3, <2>4, <2>10, <2>11 DEF Inv, ScInv
<1> QED BY <1>2, <1>5, <1>6, <1>7, <1>8, <1>9, <1>10 DEF Inv

LEMMA WaitReturnsKeeps ==
  ASSUME Inv, WaitReturns
  PROVE  Inv' /\ crashed' = crashed
<1>1. /\ Waiting /\ Pool!Return
      /\ op' = "none" /\ scope' = {} /\ fInterrupt' = FALSE
      /\ UNCHANGED <<esDouble, esChequer, cMoves, amMoves, stCube, lost, set, todo, worker, crashed>>
  BY DEF WaitReturns, records
<1>2. /\ \A r \in Record : fate[r] \notin {"queued", "taken"}
      /\ fate' = [r \in Record |-> "unused"]
  BY <1>1 DEF Pool!Return
<1>3. todo' = {} BY <1>1 DEF Waiting
<1>4. \A w \in Workers : worker[w] = Free BY <1>2, IdleHands DEF Inv
<1>7. Settled BY <1>4, NoneReplaced DEF Inv
<1>8. Idle' BY <1>2 DEF Idle
<1>5. PICK saved \in BOOLEAN : LastSave(saved) /\ remade' = (remade /\ ~saved) BY DEF WaitReturns
<1>13. sc' = [g \in Game |-> sc'[g]] BY <1>5 DEF LastSave
<1>9. Rest' BY <1>1, <1>3, <1>4, <1>7, <1>8, <1>13 DEF Rest, HandsFree, Settled, Sound
<1>10. fate' \in [Record -> Fates] /\ remade' \in BOOLEAN BY <1>2, <1>5 DEF Fates, Inv, TypeOK
<1>11. TypeOK' BY <1>1, <1>10 DEF Inv, TypeOK, RecordsTyped
<1>12. Inv' BY <1>9, <1>11, BetweenCommands, PTL
<1> QED BY <1>1, <1>12

-----------------------------------------------------------------------------
(* The theorems.                                                             *)

LEMMA WorkerKeeps ==
  ASSUME Inv, NEW w \in Workers, WorkerStep(w)
  PROVE  (Inv' /\ crashed' = crashed) \/ ReadsLost
<1>1. CASE AnalyzeMove(w) \/ CubeEvaluated(w) \/ MovesEvaluated(w) \/ EvaluationInterrupted(w)
  <2>1. CASE ReadsLost BY <2>1
  <2>2. CASE \E r \in Record, k \in Hand : Stepped(w, r, k)
    <3>1. PICK r \in Record, k \in Hand : Stepped(w, r, k) BY <2>2
    <3>2. crashed' = crashed BY <3>1 DEF Stepped, Framed
    <3> QED BY <3>1, <3>2, SteppedType, SteppedTodo, SteppedHand, SteppedList, SteppedDone, SteppedSc DEF Inv
  <2> QED BY <1>1, <2>1, <2>2, StepIs DEF Inv
<1>2. CASE TakeTask(w) BY <1>2, TakeTaskKeeps
<1>3. CASE AbortTask(w) BY <1>3, AbortTaskKeeps
<1>4. CASE AbortDone(w) BY <1>4, AbortDoneKeeps
<1>5. CASE AbortEnds(w) BY <1>5, AbortEndsKeeps
<1>6. CASE TaskDone(w) BY <1>6, TaskDoneKeeps
<1> QED BY <1>1, <1>2, <1>3, <1>4, <1>5, <1>6 DEF WorkerStep

(* Each step keeps the invariant, or ends the program where it may.          *)
LEMMA NextKeeps ==
  ASSUME Running, Inv, [Next]_vars
  PROVE  (Running' => Inv') /\ ListsThere'
<1> DEFINE Keeps == Inv' /\ crashed' = crashed
<1>1. CASE UNCHANGED vars
  <2>1. Keeps BY <1>1, SameInv DEF vars, records, command, pool
  <2> QED BY <2>1 DEF Running, ListsThere
<1>2. CASE User
  <2>1. CASE \/ CommandAnalyseMatch \/ \E g \in Game : CommandAnalyseGame(g)
             \/ \E r \in Record : CommandAnalyseMove(r)
    <3>1. Inv' BY <2>1, AnalysesKeep
    <3>2. UNCHANGED crashed
      BY <2>1 DEF CommandAnalyseMatch, CommandAnalyseGame, CommandAnalyseMove, Command
    <3> QED BY <3>1, <3>2 DEF Running, ListsThere
  <2>2. CASE \/ CommandAnalyseClearMatch \/ \E g \in Game : CommandAnalyseClearGame(g)
             \/ \E r \in Record : CommandAnalyseClearMove(r)
    <3>1. \E R, infos : Clear(R, infos)
      BY <2>2 DEF CommandAnalyseClearMatch, CommandAnalyseClearGame, CommandAnalyseClearMove
    <3>2. Keeps BY <3>1, ClearKeeps
    <3> QED BY <3>2 DEF Running, ListsThere
  <2>3. CASE CommandSaveMatch BY <2>3, SavesKeep DEF Running, ListsThere
  <2>4. CASE Interrupt
    <3>1. Keeps BY <2>4, InterruptKeeps
    <3> QED BY <3>1 DEF Running, ListsThere
  <2> QED BY <1>2, <2>1, <2>2, <2>3, <2>4 DEF User
<1>3. CASE MainStep
  <2>1. Keeps BY <1>3, AnalyzeGameInfoKeeps, AddTaskKeeps, WaitReturnsKeeps DEF MainStep
  <2> QED BY <2>1 DEF Running, ListsThere
<1>4. CASE save_autosave BY <1>4, SavesKeep DEF Running, ListsThere
<1>5. CASE \E w \in Workers : WorkerStep(w)
  <2>1. PICK w \in Workers : WorkerStep(w) BY <1>5
  <2>2. Keeps \/ ReadsLost BY <2>1, WorkerKeeps
  <2>3. CASE Keeps BY <2>3 DEF Running, ListsThere
  <2>4. CASE ReadsLost
    <3>1. crashed' \in Normal BY <2>4 DEF ReadsLost, Inv, TypeOK, RecordsTyped
    <3>2. crashed' # NoRecord BY <3>1, SortsIn, NotRecord
    <3> QED BY <2>4, <3>2 DEF ReadsLost, Running, ListsThere
  <2> QED BY <2>2, <2>3, <2>4
<1> QED BY <1>1, <1>2, <1>3, <1>4, <1>5 DEF Next

Always == (Running => Inv) /\ ListsThere

LEMMA AlwaysInv == Spec => []Always
<1>1. Init => Always BY InitInv DEF Always, ListsThere
<1>2. Always /\ [Next]_vars => Always'
  <2> SUFFICES ASSUME Always, [Next]_vars PROVE Always' OBVIOUS
  <2>1. CASE Running BY <2>1, NextKeeps DEF Always
  <2>2. CASE ~Running
    <3>1. UNCHANGED vars BY <2>2 DEF Next
    <3> QED BY <2>2, <3>1 DEF Always, Running, ListsThere, At, vars, records
  <2> QED BY <2>1, <2>2
<1> QED BY <1>1, <1>2, PTL DEF Spec

(* However many games, records and workers there are, whatever is analysed   *)
(* again, cleared, saved or interrupted, and whenever: a list of moves is    *)
(* read while there is none only if an evaluation has freed it and still     *)
(* runs, or was interrupted and left its moves counted.  No other step and   *)
(* no two workers lead there; where neither a save nor an interrupt falls    *)
(* into an evaluation, nobody reads a list that is gone.                     *)
THEOREM ListsAreThere == Spec => []ListsThere
<1>1. Always => ListsThere BY DEF Always
<1> QED BY <1>1, AlwaysInv, PTL

(* A command that has not been interrupted ends only when MT_WaitForTasks    *)
(* returns, and nothing is ahead of the workers then.                        *)
LEMMA FinishedIsReturn ==
  ASSUME [Next]_vars, Finished
  PROVE  Running /\ WaitReturns
<1>0. op # "none" /\ op' = "none" /\ ~fInterrupt BY DEF Finished
<1>1. CASE UNCHANGED vars BY <1>0, <1>1 DEF vars, command
<1>2. CASE User
  <2>1. op = "none" \/ Interrupt
    BY <1>2 DEF User, CommandAnalyseMatch, CommandAnalyseGame, CommandAnalyseMove, Command,
                CommandAnalyseClearMatch, CommandAnalyseClearGame, CommandAnalyseClearMove, Clear, CommandSaveMatch
  <2>2. Interrupt => op' = op BY DEF Interrupt, command
  <2> QED BY <1>0, <2>1, <2>2
<1>7. CASE WaitReturns /\ Running BY <1>7
<1>3. CASE AnalyzeGameInfo BY <1>0, <1>3 DEF AnalyzeGameInfo
<1>4. CASE AddTask BY <1>0, <1>4 DEF AddTask
<1>5. CASE save_autosave BY <1>0, <1>5 DEF save_autosave, command
<1>6. CASE \E w \in Workers : WorkerStep(w)
  <2>1. PICK w \in Workers : WorkerStep(w) BY <1>6
  <2>2. op' = op
    BY <2>1 DEF WorkerStep, TakeTask, AnalyzeMove, CubeEvaluated, MovesEvaluated, EvaluationInterrupted,
                AbortTask, AbortDone, AbortEnds, TaskDone, command
  <2> QED BY <1>0, <2>2
<1> QED BY <1>1, <1>2, <1>3, <1>4, <1>5, <1>6, <1>7 DEF Next, MainStep

LEMMA NothingAhead ==
  ASSUME Inv, WaitReturns, NEW r \in scope
  PROVE  ~Ahead(r)
<1>1. todo = {} /\ \A x \in Record : fate[x] \notin {"queued", "taken"}
  BY DEF WaitReturns, Waiting, Pool!Return
<1>2. \A w \in Workers : worker[w] = Free BY <1>1, IdleHands DEF Inv
<1>3. \A x \in Record : ~Pending(x) BY <1>1, <1>2, FreeIs DEF Pending, Working
<1>4. r \in Record BY DEF Inv, TypeOK
<1>5. r \in Answer => CubeDecPtr(r) \in Record BY Answering, Linking
<1> QED BY <1>3, <1>4, <1>5 DEF Ahead

LEMMA FinishedIsComplete ==
  ASSUME Inv, [Next]_vars, Finished, NEW r \in scope, Analysed(r)
  PROVE  Complete(r)
<1>1. ~Ahead(r) BY FinishedIsReturn, NothingAhead
<1> QED BY <1>1 DEF Inv, DoneInv, Finished

(* However the workers' steps and the saves fall between each other, and     *)
(* whatever was analysed, cleared or interrupted before and at whichever     *)
(* level: a command that ends without having been interrupted leaves each    *)
(* record it is to analyse with the cube decision and the moves asked for,   *)
(* and each take or drop marked from the decision of its double.             *)
THEOREM AnalysisIsComplete == Spec => AnalysisComplete
<1>1. Always /\ [Next]_vars =>
        (Finished => \A r \in scope : Analysed(r) =>
           /\ r \in Normal \cup Double /\ CubeWanted(r) => esDouble[r] >= set.cube
           /\ r \in Normal /\ set.fAnalyseMove =>
                esChequer[r] = set.chequer /\ (pmr(r).legal => cMoves[r] /\ amMoves[r] >= set.chequer)
           /\ r \in Answer /\ op # "move" /\ set.fAnalyseCube => stCube[r] = esDouble[CubeDecPtr(r)])
  BY FinishedIsReturn, FinishedIsComplete DEF Always, Complete
<1> QED BY <1>1, AlwaysInv, PTL DEF Spec, AnalysisComplete

LEMMA CountedAmong ==
  ASSUME NEW R, NEW r \in R
  PROVE  /\ \A x \in DOMAIN Counted({r}) : x[1] = r /\ x \in DOMAIN Counted(R) /\ Counted(R)[x] = 1
         /\ \A x \in DOMAIN Counted(R) : x[1] = r => x \in DOMAIN Counted({r})
<1>1. ASSUME NEW Q, NEW x
      PROVE  x \in DOMAIN Counted(Q) <=> \E y \in Q : Counts(y) /\ x = <<y, Contribution(y)>>
  <2>1. DOMAIN Counted(Q) = {<<y, Contribution(y)>> : y \in {z \in Q : Counts(z)}} BY CountedIs
  <2> HIDE DEF Counted
  <2> QED BY <2>1
<1>2. ASSUME NEW x \in DOMAIN Counted({r}) PROVE x[1] = r /\ x \in DOMAIN Counted(R) /\ Counted(R)[x] = 1
  <2>1. Counts(r) /\ x = <<r, Contribution(r)>> BY <1>1
  <2>2. x \in DOMAIN Counted(R) BY <1>1, <2>1
  <2> QED BY <2>1, <2>2, CountedIs
<1>3. ASSUME NEW x \in DOMAIN Counted(R), x[1] = r PROVE x \in DOMAIN Counted({r})
  <2>1. PICK y \in R : Counts(y) /\ x = <<y, Contribution(y)>> BY <1>1
  <2>2. y = r BY <1>3, <2>1
  <2> QED BY <1>1, <2>1, <2>2
<1> QED BY <1>2, <1>3

LEMMA FinishedIsCounted ==
  ASSUME Inv, WaitReturns, ~fInterrupt, op # "move", ~remade', NEW r \in scope, Analysed(r)
  PROVE  CountedOnce(r)'
<1>1. r \in Record /\ r[1] \in Game /\ op \in {"game", "match"}
  BY RecordIs DEF Inv, TypeOK, WaitReturns, Waiting
<1>2. todo = {} /\ UnchangedRecords /\ set' = set
  BY DEF WaitReturns, Waiting, records, UnchangedRecords
<1>3. ~failure'
  <2> DEFINE d == CubeDecPtr(r)
  <2>1. d \in Record BY <1>1, Answering, Linking DEF CubeDecPtr
  <2>2. fate[d] # "unused" BY <1>1, <1>2 DEF Inv, ScInv, Assigned
  <2> HIDE DEF d
  <2>3. \A x \in Record : fate[x] \notin {"failed", "aborted"} BY DEF Inv, ScInv
  <2> QED BY <2>1, <2>2, <2>3 DEF WaitReturns, Pool!Return
<1>6. PICK saved \in BOOLEAN : LastSave(saved) /\ remade' = (remade /\ ~saved) BY DEF WaitReturns
<1>7. sc'[r[1]] = IF saved THEN updateStatisticsGame(r[1]) ELSE sc[r[1]] BY <1>1, <1>3, <1>6 DEF LastSave
<1>8. Counted({r})' = Counted({r}) BY <1>2 DEF Counted, Counts, Contribution, UnchangedRecords
<1>4. CASE saved
  <2>1. sc'[r[1]] = Counted(RecordsOf(r[1])) BY <1>4, <1>7 DEF updateStatisticsGame
  <2>2. r \in RecordsOf(r[1]) BY <1>1, RecordIs DEF RecordsOf
  <2>3. /\ \A x \in DOMAIN Counted(RecordsOf(r[1])) : x[1] = r => x \in DOMAIN Counted({r})
        /\ \A x \in DOMAIN Counted({r}) :
             x \in DOMAIN Counted(RecordsOf(r[1])) /\ Counted(RecordsOf(r[1]))[x] = 1
    BY <2>2, CountedAmong
  <2> QED BY <1>8, <2>1, <2>3 DEF CountedOnce
<1>5. CASE ~saved
  <2>1. ~remade BY <1>5, <1>6
  <2>2. CountedOnce(r) BY <1>1, <1>2, <2>1, NothingAhead DEF Inv, ScInv, TallyInv
  <2>3. sc'[r[1]] = sc[r[1]] BY <1>5, <1>7
  <2> QED BY <1>8, <2>2, <2>3 DEF CountedOnce
<1> QED BY <1>4, <1>5

(* The statistics of a game count each record that was to be analysed once,  *)
(* and as it is at the end of the command, in whichever order the workers    *)
(* have added the records of a double, its answer and the moves, if no       *)
(* automatic save has made the statistics anew in between or the last save   *)
(* succeeds; a last save that finds no file leaves what was counted twice.   *)
THEOREM StatisticsAreRight == Spec => StatisticsAgree
<1>1. Always /\ [Next]_vars =>
        (Finished /\ op # "move" /\ ~remade' => \A r \in scope : Analysed(r) =>
           LET counted(b) == {x \in DOMAIN b : x[1] = r}
               now == Counted({r})
           IN /\ counted(sc'[r[1]]) = DOMAIN now
              /\ \A x \in DOMAIN now : sc'[r[1]][x] = 1)
  <2> SUFFICES ASSUME Inv, [Next]_vars, Finished, op # "move", ~remade', NEW r \in scope, Analysed(r)
               PROVE  LET counted(b) == {x \in DOMAIN b : x[1] = r}
                          now == Counted({r})
                      IN /\ counted(sc'[r[1]]) = DOMAIN now
                         /\ \A x \in DOMAIN now : sc'[r[1]][x] = 1
    BY FinishedIsReturn DEF Always
  <2>1. WaitReturns BY FinishedIsReturn
  <2>2. CountedOnce(r)' BY <2>1, FinishedIsCounted DEF Finished
  <2>3. Counted({r})' = Counted({r})
    BY <2>1 DEF WaitReturns, records, Counted, Counts, Contribution
  <2>4. \A x \in DOMAIN Counted({r}) : x[1] = r BY CountedAmong
  <2>5. /\ \A x \in DOMAIN sc'[r[1]] : x[1] = r => x \in DOMAIN Counted({r})
        /\ \A x \in DOMAIN Counted({r}) : x \in DOMAIN sc'[r[1]] /\ sc'[r[1]][x] = 1
    BY <2>2, <2>3 DEF CountedOnce
  <2> QED BY <2>4, <2>5
<1> QED BY <1>1, AlwaysInv, PTL DEF Spec, StatisticsAgree
=============================================================================
