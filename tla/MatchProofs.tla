----------------------------- MODULE MatchProofs -----------------------------
(* Proofs about Match as two players use it.  ReplaySpec of MCMatch: however  *)
(* they play, go back and play on from there, the match state is the one      *)
(* that the records up to the cursor lead to, and the cube keeps its limits.  *)
(* HistorySpec of MCMatchHistory: as long as they only play on from the last  *)
(* position, the results, scores, numbers and Crawford games in the list of   *)
(* games are those that its records lead to.                                  *)
(*                                                                            *)
(* The inductive invariant, Valid, says of every game of the list that its    *)
(* records may be played one after the other (GoodGame: each is Legal in the  *)
(* position that the ones before it lead to, which is Sound), and of the      *)
(* match state that it is Related to the one that the records up to the       *)
(* cursor lead to: the same Position, but for the turn that an offer to       *)
(* resign hands over, and before the first move the same cube and score.      *)
(* Limits adds that the cube is a power of two and stays within MAX_CUBE, a   *)
(* double that is offered included, in every position the records lead to.    *)
(*                                                                            *)
(* While nothing is played on from an earlier position three more are: the    *)
(* games are Told (their results are noted) and Chained (each begins as the   *)
(* one before it has ended); each Crawford game is the one after the game in  *)
(* which a player came to one point from the match (Once); and                *)
(* fCrawfordState tells of the game that a new one would be (FlagInv).        *)
(*                                                                            *)
(* The first part is about the operators of Match: what each kind of record   *)
(* changes, that it makes alike states alike (what Position leaves out does   *)
(* not matter), that what may be played leaves a state to play on from or the *)
(* end of the game, and what CalculateBoard, a fold over the records, gives   *)
(* at each of them.                                                           *)
EXTENDS MCMatchHistory, Numbers, TLAPS

-----------------------------------------------------------------------------
(* What is shifted left: 1 << n.                                             *)
LEMMA TwoToIs ==
  ASSUME NEW n \in Nat
  PROVE  /\ TwoTo[0] = 1 /\ TwoTo[n + 1] = 2 * TwoTo[n]
         /\ TwoTo[n] \in Nat
<1> DEFINE D == [x \in Nat |-> 2 * x]
<1>1. D \in [Nat -> Nat] OBVIOUS
<1>2. PICK f \in [Nat -> Nat] : \A k \in Nat : Follows(f, 1, D, k)
  <2> HIDE DEF D
  <2> QED BY <1>1, Sequence
<1>3. ASSUME NEW k \in Nat PROVE f[k] = IF k = 0 THEN 1 ELSE 2 * f[k - 1]
  <2>1. f[k] = IF k = 0 THEN 1 ELSE D[f[k - 1]]
    <3> HIDE DEF D
    <3> QED BY <1>2 DEF Follows
  <2>2. CASE k = 0 BY <2>1, <2>2
  <2>3. CASE k # 0
    <3>1. k - 1 \in Nat BY <2>3
    <3>2. f[k - 1] \in Nat BY <3>1
    <3> QED BY <2>1, <2>3, <3>2
  <2> QED BY <2>2, <2>3
<1>4. f = [k \in Nat |-> IF k = 0 THEN 1 ELSE 2 * f[k - 1]] BY <1>2, <1>3
<1> DEFINE Is(g) == g = [k \in Nat |-> IF k = 0 THEN 1 ELSE 2 * g[k - 1]]
<1>5. Is(f) BY <1>4
<1>6. TwoTo = CHOOSE g : Is(g) BY DEF TwoTo
<1> HIDE DEF Is
<1>7. Is(TwoTo) BY <1>5, <1>6
<1>8. ASSUME NEW k \in Nat PROVE TwoTo[k] = IF k = 0 THEN 1 ELSE 2 * TwoTo[k - 1]
  <2>1. PICK t : t = TwoTo OBVIOUS
  <2>2. t = [i \in Nat |-> IF i = 0 THEN 1 ELSE 2 * t[i - 1]] BY <1>7, <2>1 DEF Is
  <2>3. t[k] = IF k = 0 THEN 1 ELSE 2 * t[k - 1] BY <2>2
  <2> QED BY <2>1, <2>3
<1>9. TwoTo \in [Nat -> Nat]
  <2>1. PICK t : t = TwoTo OBVIOUS
  <2>2. t = [i \in Nat |-> IF i = 0 THEN 1 ELSE 2 * t[i - 1]] BY <1>7, <2>1 DEF Is
  <2> DEFINE Bad == {k \in Nat : t[k] \notin Nat}
  <2>3. SUFFICES ASSUME Bad # {} PROVE FALSE BY <2>1, <2>2
  <2>4. PICK k \in Bad : \A j \in Bad : k <= j
    <3> HIDE DEF Bad
    <3>1. Bad \in SUBSET Nat BY DEF Bad
    <3> QED BY <2>3, <3>1, LeastNumber
  <2>5. k \in Nat /\ t[k] \notin Nat OBVIOUS
  <2>6. k # 0 BY <2>2, <2>5
  <2>7. k - 1 \in Nat /\ k - 1 \notin Bad
    <3> HIDE DEF Bad
    <3> QED BY <2>4, <2>5, <2>6
  <2>8. t[k - 1] \in Nat BY <2>7
  <2>9. t[k] = 2 * t[k - 1] BY <2>2, <2>5, <2>6
  <2> QED BY <2>5, <2>8, <2>9
<1>10. TwoTo[n + 1] = IF n + 1 = 0 THEN 1 ELSE 2 * TwoTo[n + 1 - 1] BY <1>8
<1> QED BY <1>8, <1>9, <1>10

(* CalculateBoard applies the records one after the other.                   *)
Folded(m, game, k, g) ==
  /\ CalculateBoard(m, game, k) = g[1..k]
  /\ g[{}] = Same(m, game[1])
  /\ \A j \in 1..k : g[1..j] = ReplayStep(game, g[1..(j - 1)], j)

Folding(m, game, k, n, g) ==
  \A s \in SUBSET (1..k) : Cardinality(s) <= n =>
    g[s] = IF s = {} THEN Same(m, game[1]) ELSE ReplayStep(game, g[s \ {Max(s)}], Max(s))

LEMMA Greatest ==
  ASSUME NEW k \in Nat, NEW s \in SUBSET (1..k)
  PROVE  /\ IsFiniteSet(s) /\ Cardinality(s) \in Nat /\ Cardinality(s) <= k
         /\ Cardinality(s) = 0 <=> s = {}
         /\ s # {} => /\ Max(s) \in s /\ \A y \in s : y <= Max(s)
                      /\ Cardinality(s \ {Max(s)}) = Cardinality(s) - 1
                      /\ s \ {Max(s)} \in SUBSET (1..k)
<1>1. IsFiniteSet(1..k) /\ Cardinality(1..k) = k BY FS_Interval
<1>2. IsFiniteSet(s) /\ Cardinality(s) <= Cardinality(1..k) BY <1>1, FS_Subset
<1>3. Cardinality(s) \in Nat /\ (Cardinality(s) = 0 <=> s = {}) BY <1>2, FS_CardinalityType, FS_EmptySet
<1>4. ASSUME s # {} PROVE Max(s) \in s /\ \A y \in s : y <= Max(s)
  <2>1. s \in SUBSET Nat OBVIOUS
  <2>2. PICK x \in s : \A y \in s : y <= x BY <1>2, <1>4, <2>1, GreatestNumber
  <2>3. \A y \in s : x >= y BY <2>1, <2>2
  <2>4. Max(s) \in s /\ \A y \in s : Max(s) >= y BY <2>3 DEF Max
  <2> QED BY <2>1, <2>4
<1> QED BY <1>1, <1>2, <1>3, <1>4, FS_RemoveElement

LEMMA FoldingExists ==
  ASSUME NEW m, NEW game, NEW k \in Nat, NEW n \in Nat
  PROVE  \E g : g = [s \in SUBSET (1..k) |-> g[s]] /\ Folding(m, game, k, n, g)
<1> DEFINE Good(i) == \E g : g = [s \in SUBSET (1..k) |-> g[s]] /\ Folding(m, game, k, i, g)
           Bad == {i \in Nat : ~Good(i)}
<1> HIDE DEF Good
<1> SUFFICES ASSUME Bad # {} PROVE FALSE BY DEF Good
<1>1. PICK i \in Bad : \A j \in Bad : i <= j
  <2> HIDE DEF Bad
  <2>1. Bad \in SUBSET Nat BY DEF Bad
  <2> QED BY <2>1, LeastNumber
<1>2. i \in Nat /\ ~Good(i) OBVIOUS
<1>3. i # 0
  <2> SUFFICES ASSUME i = 0 PROVE FALSE OBVIOUS
  <2>1. PICK g : g = [s \in SUBSET (1..k) |-> Same(m, game[1])] OBVIOUS
  <2>2. g = [s \in SUBSET (1..k) |-> g[s]] BY <2>1
  <2>3. ASSUME NEW s \in SUBSET (1..k), Cardinality(s) <= 0 PROVE s = {}
    <3>1. Cardinality(s) \in Nat /\ (Cardinality(s) = 0 <=> s = {}) BY Greatest
    <3> QED BY <2>3, <3>1
  <2>4. Folding(m, game, k, 0, g) BY <2>1, <2>3 DEF Folding
  <2> QED BY <1>2, <2>2, <2>4 DEF Good
<1>4. i - 1 \in Nat /\ i - 1 \notin Bad
  <2> HIDE DEF Bad
  <2> QED BY <1>1, <1>2, <1>3
<1>5. PICK g : g = [s \in SUBSET (1..k) |-> g[s]] /\ Folding(m, game, k, i - 1, g) BY <1>4 DEF Good
<1> HIDE DEF Bad
<1>6. PICK h : h = [s \in SUBSET (1..k) |-> IF s = {} THEN Same(m, game[1])
                                            ELSE ReplayStep(game, g[s \ {Max(s)}], Max(s))]
  OBVIOUS
<1>7. \A s \in SUBSET (1..k) : h[s] = IF s = {} THEN Same(m, game[1])
                                      ELSE ReplayStep(game, g[s \ {Max(s)}], Max(s))
  BY <1>6
<1>8. h = [s \in SUBSET (1..k) |-> h[s]] BY <1>6
<1>9. ASSUME NEW s \in SUBSET (1..k), Cardinality(s) <= i - 1 PROVE h[s] = g[s]
  BY <1>5, <1>7, <1>9 DEF Folding
<1>10. Folding(m, game, k, i, h)
  <2> SUFFICES ASSUME NEW s \in SUBSET (1..k), Cardinality(s) <= i, s # {}
               PROVE  h[s] = ReplayStep(game, h[s \ {Max(s)}], Max(s))
    BY <1>7 DEF Folding
  <2>1. s \ {Max(s)} \in SUBSET (1..k) /\ Cardinality(s \ {Max(s)}) <= i - 1
    BY <1>2, Greatest
  <2>2. h[s \ {Max(s)}] = g[s \ {Max(s)}] BY <1>9, <2>1
  <2> QED BY <1>7, <2>2
<1> QED BY <1>2, <1>8, <1>10 DEF Good

LEMMA FoldedExists ==
  ASSUME NEW m, NEW game, NEW k \in Nat
  PROVE  \E g : Folded(m, game, k, g)
<1> DEFINE Is(g) == g = [s \in SUBSET (1..k) |->
                           IF s = {} THEN Same(m, game[1])
                           ELSE ReplayStep(game, g[s \ {Max(s)}], Max(s))]
           iter == CHOOSE g : Is(g)
<1>1. PICK g : g = [s \in SUBSET (1..k) |-> g[s]] /\ Folding(m, game, k, k, g) BY FoldingExists
<1>2. \A s \in SUBSET (1..k) : Cardinality(s) <= k BY Greatest
<1>3. \A s \in SUBSET (1..k) : g[s] = IF s = {} THEN Same(m, game[1])
                                      ELSE ReplayStep(game, g[s \ {Max(s)}], Max(s))
  BY <1>1, <1>2 DEF Folding
<1>4. Is(g) BY <1>1, <1>3
<1>5. Is(iter)
  <2> HIDE DEF Is
  <2> QED BY <1>4
<1>6. CalculateBoard(m, game, k) = iter[1..k]
  <2> DEFINE seq == [j \in 1..k |-> j]
             It(g1) == g1 = [s \in SUBSET (1..k) |->
                              IF s = {} THEN Same(m, game[1])
                              ELSE ReplayStep(game, g1[s \ {Max(s)}], seq[Max(s)])]
  <2>1. DOMAIN seq = 1..k OBVIOUS
  <2>2. CalculateBoard(m, game, k) = (CHOOSE g1 : It(g1))[1..k]
    BY <2>1 DEF CalculateBoard, FoldLeft, MapThenFoldSet
  <2>3. ASSUME NEW g1 PROVE It(g1) <=> Is(g1)
    <3>1. \A s \in SUBSET (1..k) : s # {} => seq[Max(s)] = Max(s)
      <4> TAKE s \in SUBSET (1..k)
      <4>1. s # {} => Max(s) \in 1..k BY Greatest
      <4> QED BY <4>1
    <3> HIDE DEF seq
    <3> QED BY <3>1
  <2> HIDE DEF It, Is
  <2>4. (CHOOSE g1 : It(g1)) = CHOOSE g1 : Is(g1) BY <2>3
  <2> QED BY <2>2, <2>4
<1>7. \A s \in SUBSET (1..k) : iter[s] = IF s = {} THEN Same(m, game[1])
                                         ELSE ReplayStep(game, iter[s \ {Max(s)}], Max(s))
  <2> HIDE DEF iter
  <2>1. PICK j : j = iter OBVIOUS
  <2>2. \A s \in SUBSET (1..k) : j[s] = IF s = {} THEN Same(m, game[1])
                                        ELSE ReplayStep(game, j[s \ {Max(s)}], Max(s))
    BY <1>5, <2>1 DEF Is
  <2> QED BY <2>1, <2>2
<1> HIDE DEF iter
<1>8. ASSUME NEW j \in 1..k PROVE iter[1..j] = ReplayStep(game, iter[1..(j - 1)], j)
  <2>1. 1..j \in SUBSET (1..k) /\ 1..j # {} OBVIOUS
  <2>2. Max(1..j) \in 1..j /\ \A y \in 1..j : y <= Max(1..j) BY <2>1, Greatest
  <2>3. Max(1..j) = j BY <2>2
  <2>4. (1..j) \ {j} = 1..(j - 1) OBVIOUS
  <2> QED BY <1>7, <2>1, <2>3, <2>4
<1> QED BY <1>6, <1>7, <1>8 DEF Folded

LEMMA FoldedUnique ==
  ASSUME NEW m, NEW game, NEW k \in Nat, NEW g, NEW h, Folded(m, game, k, g), Folded(m, game, k + 1, h)
  PROVE  h[1..k] = g[1..k]
<1> DEFINE Bad == {j \in Nat : j <= k /\ g[1..j] # h[1..j]}
<1> SUFFICES ASSUME Bad # {} PROVE FALSE OBVIOUS
<1>1. PICK j \in Bad : \A i \in Bad : j <= i
  <2> HIDE DEF Bad
  <2>1. Bad \in SUBSET Nat BY DEF Bad
  <2> QED BY <2>1, LeastNumber
<1>2. j \in Nat /\ j <= k /\ g[1..j] # h[1..j] OBVIOUS
<1>3. j # 0
  <2>1. 1..0 = {} OBVIOUS
  <2> QED BY <1>2, <2>1 DEF Folded
<1>4. j - 1 \in Nat /\ j - 1 \notin Bad
  <2> HIDE DEF Bad
  <2> QED BY <1>1, <1>2, <1>3
<1>5. g[1..(j - 1)] = h[1..(j - 1)] BY <1>2, <1>4
<1>6. j \in 1..k /\ j \in 1..(k + 1) BY <1>2, <1>3
<1> QED BY <1>2, <1>5, <1>6 DEF Folded

LEMMA CalculateBoardIs ==
  ASSUME NEW m, NEW game, NEW k \in Nat
  PROVE  /\ CalculateBoard(m, game, 0) = Same(m, game[1])
         /\ CalculateBoard(m, game, k + 1) = ReplayStep(game, CalculateBoard(m, game, k), k + 1)
<1>1. PICK g : Folded(m, game, 0, g) BY FoldedExists
<1>2. PICK h : Folded(m, game, k, h) BY FoldedExists
<1>3. k + 1 \in Nat OBVIOUS
<1>4. PICK f : Folded(m, game, k + 1, f) BY <1>3, FoldedExists
<1>5. 1..0 = {} OBVIOUS
<1>6. f[1..k] = h[1..k] BY <1>2, <1>4, FoldedUnique
<1>7. f[1..(k + 1)] = ReplayStep(game, f[1..((k + 1) - 1)], k + 1) BY <1>3, <1>4 DEF Folded
<1>8. (k + 1) - 1 = k OBVIOUS
<1> QED BY <1>1, <1>2, <1>4, <1>5, <1>6, <1>7, <1>8 DEF Folded

-----------------------------------------------------------------------------
(* Match states, and what a record does to them.                             *)
Fields == {"anBoard", "nMatchTo", "anScore", "cGames", "gs", "fMove", "fTurn", "fCubeOwner",
           "nCube", "dice", "fDoubled", "cBeavers", "fResigned", "fResignationDeclined",
           "fCrawford", "fPostCrawford", "fJacoby"}
State(m) ==
  /\ m = [f \in Fields |-> m[f]]
  /\ m.anBoard \in [Player -> Nat] /\ m.fMove \in Player \cup {None} /\ m.fTurn \in Player \cup {None}
  /\ m.fDoubled \in BOOLEAN /\ m.cBeavers \in Nat /\ m.nCube \in Nat

(* The records that Play leaves.                                             *)
Kinds == {"NORMAL", "SETDICE", "DOUBLE", "TAKE", "DROP", "RESIGN"}
IsMove(r) ==
  /\ r.mt \in Kinds /\ r.fPlayer \in Player
  /\ r.mt = "NORMAL" => r.off \in Nat
  /\ r.mt = "RESIGN" => r.nResigned \in Nat

(* Equal positions: Position(m) = Position(n).                               *)
Alike(m, n) ==
  /\ m.gs = n.gs /\ m.fCubeOwner = n.fCubeOwner /\ m.nCube = n.nCube /\ m.fDoubled = n.fDoubled
  /\ m.cBeavers = n.cBeavers /\ m.anScore = n.anScore /\ m.cGames = n.cGames
  /\ m.nMatchTo = n.nMatchTo /\ m.fJacoby = n.fJacoby
  /\ m.gs # "RESIGNED" => m.anBoard = n.anBoard /\ m.fMove = n.fMove /\ m.fTurn = n.fTurn

LEMMA AlikeIs ==
  ASSUME NEW m, NEW n
  PROVE  Alike(m, n) <=> Position(m) = Position(n)
<1>1. CASE m.gs = n.gs /\ m.gs = "RESIGNED" BY <1>1 DEF Alike, Position, Turn
<1>2. CASE m.gs = n.gs /\ m.gs # "RESIGNED" BY <1>2 DEF Alike, Position, Turn
<1>3. CASE m.gs # n.gs
  <2>1. Position(m)[1] = m.gs /\ Position(n)[1] = n.gs BY DEF Position
  <2> QED BY <1>3, <2>1 DEF Alike
<1> QED BY <1>1, <1>2, <1>3

(* What ApplyMoveRecord does first.                                          *)
Cleared(m) == [m EXCEPT !.gs = "PLAYING", !.fResigned = 0, !.fResignationDeclined = 0]

LEMMA ClearedIs ==
  ASSUME NEW m, State(m)
  PROVE  /\ State(Cleared(m)) /\ Cleared(m).gs = "PLAYING" /\ Cleared(m).fResigned = 0
         /\ \A f \in Fields \ {"gs", "fResigned", "fResignationDeclined"} : Cleared(m)[f] = m[f]
BY DEF State, Cleared, Fields

(* The kinds of records one by one.  What a record makes of the match state  *)
(* does not depend on the result that is noted in the game-info record.      *)
Applied(m, r) == ApplyMoveRecord(m, r, r).ms

LEMMA SetDiceApplied ==
  ASSUME NEW m, NEW info, NEW r, r.mt = "SETDICE"
  PROVE  /\ ApplyMoveRecord(m, info, r) = Same(Applied(m, r), info)
         /\ Applied(m, r) = ApplySetDice(Cleared(m), r)
<1>1. \A i : ApplyMoveRecord(m, i, r) = Same(ApplySetDice(Cleared(m), r), i)
  BY DEF ApplyMoveRecord, Cleared
<1> QED BY <1>1 DEF Applied, Same

LEMMA DoubleApplied ==
  ASSUME NEW m, NEW info, NEW r, r.mt = "DOUBLE"
  PROVE  /\ ApplyMoveRecord(m, info, r) = Same(Applied(m, r), info)
         /\ Applied(m, r) = ApplyDouble(Cleared(m), r)
<1>1. \A i : ApplyMoveRecord(m, i, r) = Same(ApplyDouble(Cleared(m), r), i)
  BY DEF ApplyMoveRecord, Cleared
<1> QED BY <1>1 DEF Applied, Same

LEMMA TakeApplied ==
  ASSUME NEW m, NEW info, NEW r, r.mt = "TAKE"
  PROVE  /\ ApplyMoveRecord(m, info, r) = Same(Applied(m, r), info)
         /\ Applied(m, r) = ApplyTake(Cleared(m))
<1>1. \A i : ApplyMoveRecord(m, i, r) = Same(ApplyTake(Cleared(m)), i)
  BY DEF ApplyMoveRecord, Cleared
<1> QED BY <1>1 DEF Applied, Same

(* A game that ends: the score, and the result.                              *)
Scored(m, gs, winner, points) ==
  [m EXCEPT !.gs = gs, !.anScore[winner] = @ + points, !.cGames = @ + 1]
ResultNoted(info, winner, points, resigned) ==
  [info EXCEPT !.fWinner = winner, !.nPoints = points, !.fResigned = resigned]

LEMMA DropApplied ==
  ASSUME NEW m, NEW info, NEW r, r.mt = "DROP"
  PROVE  LET c == Cleared(m)
         IN  IF c.fDoubled
               THEN /\ Applied(m, r) = Scored([c EXCEPT !.fDoubled = FALSE, !.cBeavers = 0],
                                              "DROP", Not(r.fPlayer), c.nCube)
                    /\ ApplyMoveRecord(m, info, r) =
                         [ms |-> Applied(m, r), info |-> ResultNoted(info, Not(r.fPlayer), c.nCube, FALSE)]
               ELSE Applied(m, r) = c /\ ApplyMoveRecord(m, info, r) = Same(c, info)
<1>1. CASE Cleared(m).fDoubled
  <2> DEFINE d == Scored([Cleared(m) EXCEPT !.fDoubled = FALSE, !.cBeavers = 0],
                         "DROP", Not(r.fPlayer), Cleared(m).nCube)
             n(i) == ResultNoted(i, Not(r.fPlayer), Cleared(m).nCube, FALSE)
  <2>1. \A i : ApplyMoveRecord(m, i, r) = [ms |-> d, info |-> n(i)]
    BY <1>1 DEF ApplyMoveRecord, Cleared, GameOver, Scored, ResultNoted
  <2> HIDE DEF d, n
  <2>2. Applied(m, r) = d BY <2>1 DEF Applied
  <2>3. ApplyMoveRecord(m, info, r) = [ms |-> Applied(m, r), info |-> n(info)] BY <2>1, <2>2
  <2> QED BY <1>1, <2>2, <2>3 DEF d, n
<1>2. CASE ~Cleared(m).fDoubled
  <2>1. \A i : ApplyMoveRecord(m, i, r) = Same(Cleared(m), i)
    BY <1>2 DEF ApplyMoveRecord, Cleared
  <2> QED BY <1>2, <2>1 DEF Applied, Same
<1> QED BY <1>1, <1>2

LEMMA ResignApplied ==
  ASSUME NEW m, NEW info, NEW r, r.mt = "RESIGN"
  PROVE  LET c == Cleared(m)
         IN  /\ Applied(m, r) = Scored([c EXCEPT !.fResigned = r.nResigned],
                                       "RESIGNED", Not(r.fPlayer), c.nCube * r.nResigned)
             /\ ApplyMoveRecord(m, info, r) =
                  [ms |-> Applied(m, r), info |-> ResultNoted(info, Not(r.fPlayer), c.nCube * r.nResigned, TRUE)]
<1> DEFINE d == Scored([Cleared(m) EXCEPT !.fResigned = r.nResigned],
                       "RESIGNED", Not(r.fPlayer), Cleared(m).nCube * r.nResigned)
           n(i) == ResultNoted(i, Not(r.fPlayer), Cleared(m).nCube * r.nResigned, TRUE)
<1>1. \A i : ApplyMoveRecord(m, i, r) = [ms |-> d, info |-> n(i)]
  BY DEF ApplyMoveRecord, Cleared, GameOver, Scored, ResultNoted
<1> HIDE DEF d, n
<1>2. Applied(m, r) = d BY <1>1 DEF Applied
<1>3. ApplyMoveRecord(m, info, r) = [ms |-> Applied(m, r), info |-> n(info)] BY <1>1, <1>2
<1> QED BY <1>2, <1>3 DEF d, n

Worth(m, status) == m.nCube * (IF m.fJacoby /\ m.fCubeOwner = None /\ m.nMatchTo = 0 THEN 1 ELSE status)
Played(m, r) == [PlayMove([m EXCEPT !.fDoubled = FALSE], r) EXCEPT !.dice = FALSE]

LEMMA NormalApplied ==
  ASSUME NEW m, NEW info, NEW r, r.mt = "NORMAL"
  PROVE  LET c == Cleared(m)
             p == Played(c, r)
             status == GameStatus(p.anBoard)
         IN  IF status = 0
               THEN Applied(m, r) = p /\ ApplyMoveRecord(m, info, r) = Same(p, info)
               ELSE /\ Applied(m, r) = Scored(p, "OVER", r.fPlayer, Worth(c, status))
                    /\ ApplyMoveRecord(m, info, r) =
                         [ms |-> Applied(m, r), info |-> ResultNoted(info, r.fPlayer, Worth(c, status), FALSE)]
<1> DEFINE c == Cleared(m)
           p == Played(c, r)
           status == GameStatus(p.anBoard)
<1>1. \A i : ApplyMoveRecord(m, i, r) = ApplyNormal(c, i, r) BY DEF ApplyMoveRecord, Cleared
<1>2. CASE status = 0
  <2>1. \A i : ApplyNormal(c, i, r) = Same(p, i) BY <1>2 DEF ApplyNormal, Played
  <2> HIDE DEF c, p, status
  <2>2. ApplyMoveRecord(m, info, r) = Same(p, info) /\ ApplyMoveRecord(m, r, r) = Same(p, r) BY <1>1, <2>1
  <2>3. Applied(m, r) = p BY <2>2 DEF Applied, Same
  <2> QED BY <1>2, <2>2, <2>3 DEF c, p, status
<1>3. CASE status # 0
  <2>1. \A i : ApplyNormal(c, i, r) = [ms |-> Scored(p, "OVER", r.fPlayer, Worth(c, status)),
                                       info |-> ResultNoted(i, r.fPlayer, Worth(c, status), FALSE)]
    BY <1>3 DEF ApplyNormal, Played, GameOver, Scored, ResultNoted, Worth
  <2> HIDE DEF c, p, status
  <2>2. ApplyMoveRecord(m, r, r) = [ms |-> Scored(p, "OVER", r.fPlayer, Worth(c, status)),
                                    info |-> ResultNoted(r, r.fPlayer, Worth(c, status), FALSE)]
    BY <1>1, <2>1
  <2>3. Applied(m, r) = Scored(p, "OVER", r.fPlayer, Worth(c, status)) BY <2>2 DEF Applied
  <2>4. ApplyMoveRecord(m, info, r) = [ms |-> Applied(m, r),
                                       info |-> ResultNoted(info, r.fPlayer, Worth(c, status), FALSE)]
    BY <1>1, <2>1, <2>3
  <2> QED BY <1>3, <2>3, <2>4 DEF c, p, status
<1> QED BY <1>2, <1>3

LEMMA SwapIs ==
  ASSUME NEW m, State(m)
  PROVE  /\ State(SwapSides(m))
         /\ \A f \in Fields \ {"anBoard"} : SwapSides(m)[f] = m[f]
         /\ SwapSides(m).anBoard = [s \in Player |-> m.anBoard[Not(s)]]
<1>1. [s \in Player |-> m.anBoard[Not(s)]] \in [Player -> Nat] BY DEF State, Not, Player
<1> QED BY <1>1 DEF State, SwapSides, Fields

LEMMA SetDiceIs ==
  ASSUME NEW m, State(m), NEW r, r.fPlayer \in Player
  PROVE  LET d == ApplySetDice(m, r)
         IN  /\ State(d) /\ d.fMove = r.fPlayer /\ d.fTurn = r.fPlayer /\ ~d.fDoubled /\ d.dice
             /\ \A f \in Fields \ {"anBoard", "fMove", "fTurn", "fDoubled", "dice"} : d[f] = m[f]
             /\ d.anBoard = IF m.fMove # r.fPlayer THEN SwapSides(m).anBoard ELSE m.anBoard
<1> DEFINE t == IF m.fMove # r.fPlayer THEN SwapSides(m) ELSE m
<1>1. /\ State(t) /\ \A f \in Fields \ {"anBoard"} : t[f] = m[f]
      /\ t.anBoard = IF m.fMove # r.fPlayer THEN SwapSides(m).anBoard ELSE m.anBoard
  BY SwapIs
<1>2. ApplySetDice(m, r) = [t EXCEPT !.dice = TRUE, !.fTurn = r.fPlayer, !.fMove = r.fPlayer,
                                     !.fDoubled = FALSE]
  BY DEF ApplySetDice
<1> HIDE DEF t
<1> QED BY <1>1, <1>2 DEF State, Fields

LEMMA DoubleIs ==
  ASSUME NEW m, State(m), m.fMove \in Player, NEW r, r.fPlayer \in Player
  PROVE  LET d == ApplyDouble(m, r)
         IN  /\ State(d)
             /\ \A f \in Fields \ {"cBeavers", "nCube", "fCubeOwner", "fTurn", "fDoubled"} : d[f] = m[f]
             /\ m.nCube >= MAX_CUBE => d = m
             /\ ~(m.nCube >= MAX_CUBE) =>
                  /\ d.fTurn = Not(r.fPlayer) /\ d.fDoubled
                  /\ m.fDoubled => /\ d.cBeavers = m.cBeavers + 1 /\ d.nCube = 2 * m.nCube
                                   /\ d.fCubeOwner = Not(m.fMove)
                  /\ ~m.fDoubled => /\ d.cBeavers = m.cBeavers /\ d.nCube = m.nCube
                                    /\ d.fCubeOwner = m.fCubeOwner
<1>1. ~(m.fMove < 0) BY DEF Player
<1>2. CASE m.nCube >= MAX_CUBE BY <1>1, <1>2 DEF ApplyDouble
<1>3. CASE ~(m.nCube >= MAX_CUBE) /\ m.fDoubled
  <2>1. ApplyDouble(m, r) = [m EXCEPT !.cBeavers = @ + 1, !.nCube = 2 * @, !.fCubeOwner = Not(m.fMove),
                            !.fTurn = Not(r.fPlayer)]
    BY <1>1, <1>3 DEF ApplyDouble
  <2>2. m.cBeavers + 1 \in Nat /\ 2 * m.nCube \in Nat /\ Not(r.fPlayer) \in Player BY DEF State, Not, Player
  <2> QED BY <1>3, <2>1, <2>2 DEF State, Fields
<1>4. CASE ~(m.nCube >= MAX_CUBE) /\ ~m.fDoubled
  <2>1. ApplyDouble(m, r) = [m EXCEPT !.fDoubled = TRUE, !.fTurn = Not(r.fPlayer)]
    BY <1>1, <1>4 DEF ApplyDouble
  <2>2. Not(r.fPlayer) \in Player BY DEF Not, Player
  <2> QED BY <1>4, <2>1, <2>2 DEF State, Fields
<1> QED BY <1>2, <1>3, <1>4

LEMMA TakeIs ==
  ASSUME NEW m, State(m)
  PROVE  LET d == ApplyTake(m)
         IN  /\ State(d)
             /\ \A f \in Fields \ {"cBeavers", "nCube", "fCubeOwner", "fTurn", "fDoubled"} : d[f] = m[f]
             /\ ~m.fDoubled => d = m
             /\ m.fDoubled => /\ d.fTurn = m.fMove /\ ~d.fDoubled /\ d.cBeavers = 0 /\ d.nCube = 2 * m.nCube
                              /\ d.fCubeOwner = Not(m.fMove)
<1>1. CASE ~m.fDoubled BY <1>1 DEF ApplyTake
<1>2. CASE m.fDoubled
  <2>1. ApplyTake(m) = [m EXCEPT !.nCube = 2 * @, !.cBeavers = 0, !.fDoubled = FALSE,
                 !.fCubeOwner = Not(m.fMove), !.fTurn = m.fMove]
    BY <1>2 DEF ApplyTake
  <2>2. 2 * m.nCube \in Nat BY DEF State
  <2> DEFINE d == ApplyTake(m)
  <2>3. /\ d.fTurn = m.fMove /\ d.fDoubled = FALSE /\ d.cBeavers = 0 /\ d.nCube = 2 * m.nCube
        /\ d.fCubeOwner = Not(m.fMove) /\ d = [f \in Fields |-> d[f]]
        /\ \A f \in Fields \ {"cBeavers", "nCube", "fCubeOwner", "fTurn", "fDoubled"} : d[f] = m[f]
    BY <2>1 DEF State, Fields
  <2> HIDE DEF d
  <2>4. d.anBoard = m.anBoard /\ d.fMove = m.fMove BY <2>3 DEF Fields
  <2>5. d.cBeavers \in Nat /\ d.nCube \in Nat BY <2>2, <2>3
  <2>6. d.fDoubled \in BOOLEAN BY <2>3, Zenon
  <2>7. State(d) BY <2>3, <2>4, <2>5, <2>6 DEF State
  <2> QED BY <1>2, <2>3, <2>7 DEF d
<1> QED BY <1>1, <1>2

(* The board after a move of r.fPlayer.                                      *)
Moved(m, r) == [s \in Player |->
  IF s = 0 THEN Maximum((IF m.fMove # None /\ r.fPlayer # m.fMove THEN m.anBoard[0] ELSE m.anBoard[1]) - r.off, 0)
  ELSE IF m.fMove # None /\ r.fPlayer # m.fMove THEN m.anBoard[1] ELSE m.anBoard[0]]

LEMMA PlayMoveIs ==
  ASSUME NEW m, State(m), NEW r, r.fPlayer \in Player, r.off \in Nat
  PROVE  LET d == PlayMove(m, r)
         IN  /\ State(d) /\ d.fMove = Not(r.fPlayer) /\ d.fTurn = Not(r.fPlayer)
             /\ \A f \in Fields \ {"anBoard", "fMove", "fTurn"} : d[f] = m[f]
             /\ d.anBoard = Moved(m, r)
<1> DEFINE t == IF m.fMove # None /\ r.fPlayer # m.fMove THEN SwapSides(m) ELSE m
           b == [t.anBoard EXCEPT ![1] = Maximum(@ - r.off, 0)]
           v == [t EXCEPT !.anBoard[1] = Maximum(@ - r.off, 0),
                              !.fMove = Not(r.fPlayer), !.fTurn = Not(r.fPlayer)]
<1>1. /\ State(t) /\ \A f \in Fields \ {"anBoard"} : t[f] = m[f]
      /\ t.anBoard = IF m.fMove # None /\ r.fPlayer # m.fMove THEN [s \in Player |-> m.anBoard[Not(s)]] ELSE m.anBoard
  BY SwapIs
<1>2. PlayMove(m, r) = SwapSides(v) BY DEF PlayMove
<1>3. Not(r.fPlayer) \in Player BY DEF Not, Player
<1>4. t.anBoard \in [Player -> Nat] /\ t.anBoard[0] \in Nat /\ t.anBoard[1] \in Nat BY <1>1 DEF State, Player
<1>5. Maximum(t.anBoard[1] - r.off, 0) \in Nat BY <1>4 DEF Maximum
<1>6. b \in [Player -> Nat] /\ b[1] = Maximum(t.anBoard[1] - r.off, 0) /\ b[0] = t.anBoard[0]
  BY <1>4, <1>5 DEF Player
<1>7. State(v) /\ v.anBoard = b /\ v.fMove = Not(r.fPlayer) /\ v.fTurn = Not(r.fPlayer)
      /\ \A f \in Fields \ {"anBoard", "fMove", "fTurn"} : v[f] = t[f]
  <2> HIDE DEF t
  <2> QED BY <1>1, <1>3, <1>6 DEF State, Fields
<1>8. t.anBoard[1] = (IF m.fMove # None /\ r.fPlayer # m.fMove THEN m.anBoard[0] ELSE m.anBoard[1])
      /\ t.anBoard[0] = (IF m.fMove # None /\ r.fPlayer # m.fMove THEN m.anBoard[1] ELSE m.anBoard[0])
  BY <1>1 DEF Not, Player
<1> HIDE DEF t, b, v
<1>9. [s \in Player |-> b[Not(s)]] = Moved(m, r)
  <2>1. ASSUME NEW s \in Player PROVE b[Not(s)] = Moved(m, r)[s]
    BY <1>6, <1>8 DEF Not, Player, Moved
  <2> QED BY <2>1 DEF Moved
<1> DEFINE d == PlayMove(m, r)
<1>10. State(d) /\ d.anBoard = Moved(m, r) /\ \A f \in Fields \ {"anBoard"} : d[f] = v[f]
  BY <1>2, <1>7, <1>9, SwapIs
<1> HIDE DEF d
<1>11. /\ d.fMove = Not(r.fPlayer) /\ d.fTurn = Not(r.fPlayer)
       /\ \A f \in Fields \ {"anBoard", "fMove", "fTurn"} : d[f] = m[f]
  BY <1>1, <1>7, <1>10 DEF Fields
<1> QED BY <1>10, <1>11 DEF d

LEMMA PlayedIs ==
  ASSUME NEW m, State(m), NEW r, r.fPlayer \in Player, r.off \in Nat
  PROVE  LET d == Played(m, r)
         IN  /\ State(d) /\ d.anBoard = Moved(m, r) /\ d.fMove = Not(r.fPlayer) /\ d.fTurn = Not(r.fPlayer)
             /\ ~d.fDoubled
             /\ \A f \in Fields \ {"anBoard", "fMove", "fTurn", "fDoubled", "dice"} : d[f] = m[f]
<1> DEFINE u == [m EXCEPT !.fDoubled = FALSE]
           q == PlayMove(u, r)
           d == [q EXCEPT !.dice = FALSE]
<1>1. State(u) /\ ~u.fDoubled /\ \A f \in Fields \ {"fDoubled"} : u[f] = m[f] BY DEF State, Fields
<1>2. Moved(u, r) = Moved(m, r) BY <1>1 DEF Moved, Fields
<1>3. /\ State(q) /\ q.fMove = Not(r.fPlayer) /\ q.fTurn = Not(r.fPlayer)
      /\ \A f \in Fields \ {"anBoard", "fMove", "fTurn"} : q[f] = u[f]
      /\ q.anBoard = Moved(m, r)
  <2> HIDE DEF u
  <2> QED BY <1>1, <1>2, PlayMoveIs
<1>4. Played(m, r) = d BY DEF Played
<1> HIDE DEF q, u
<1>5. State(d) /\ \A f \in Fields \ {"dice"} : d[f] = q[f] BY <1>3 DEF State, Fields
<1> HIDE DEF d
<1>6. /\ d.anBoard = Moved(m, r) /\ d.fMove = Not(r.fPlayer) /\ d.fTurn = Not(r.fPlayer)
      /\ ~d.fDoubled
      /\ \A f \in Fields \ {"anBoard", "fMove", "fTurn", "fDoubled", "dice"} : d[f] = m[f]
  BY <1>1, <1>3, <1>5 DEF Fields
<1> QED BY <1>4, <1>5, <1>6

-----------------------------------------------------------------------------
InfoFields == {"mt", "fPlayer", "i", "nMatch", "anScore", "fCrawfordGame", "fJacoby", "fWinner",
               "nPoints", "fResigned", "nAutoDoubles"}
IsInfo(info) == /\ info = [f \in InfoFields |-> info[f]]
                /\ info.mt = "GAMEINFO" /\ info.nAutoDoubles \in Nat

(* The same but for the result.                                              *)
SameGame(x, y) == \A f \in InfoFields \ {"fWinner", "nPoints", "fResigned"} : x[f] = y[f]

LEMMA Apart ==
  ASSUME NEW m, State(m), NEW info, IsInfo(info), NEW r, IsMove(r)
  PROVE  LET a == ApplyMoveRecord(m, info, r)
         IN  /\ a.ms = Applied(m, r) /\ IsInfo(a.info) /\ SameGame(a.info, info)
             /\ a.ms.gs # "PLAYING" => a.info.fWinner \in Player
<1> DEFINE a == ApplyMoveRecord(m, info, r)
           c == Cleared(m)
           Plain == a.ms = Applied(m, r) /\ a.info = info /\ a.ms.gs = "PLAYING"
<1>1. SameGame(info, info) BY DEF SameGame
<1>2. State(c) /\ c.gs = "PLAYING" BY ClearedIs
<1>3. r.fPlayer \in Player /\ Not(r.fPlayer) \in Player BY DEF IsMove, Not, Player
<1>4. CASE r.mt = "SETDICE"
  <2>1. a = Same(Applied(m, r), info) /\ Applied(m, r) = ApplySetDice(c, r) BY <1>4, SetDiceApplied
  <2>2. ApplySetDice(c, r).gs = c.gs BY <1>2, <1>3, SetDiceIs DEF Fields
  <2>3. Plain BY <1>2, <2>1, <2>2 DEF Same
  <2> QED BY <1>1, <2>3
<1>5. CASE r.mt = "DOUBLE"
  <2>1. a = Same(Applied(m, r), info) /\ Applied(m, r) = ApplyDouble(c, r) BY <1>5, DoubleApplied
  <2>2. ApplyDouble(c, r).gs = c.gs
    <3> HIDE DEF c
    <3> QED BY <1>2 DEF ApplyDouble, State, Fields
  <2>3. Plain BY <1>2, <2>1, <2>2 DEF Same
  <2> QED BY <1>1, <2>3
<1>6. CASE r.mt = "TAKE"
  <2>1. a = Same(Applied(m, r), info) /\ Applied(m, r) = ApplyTake(c) BY <1>6, TakeApplied
  <2>2. ApplyTake(c).gs = c.gs BY <1>2, TakeIs DEF Fields
  <2>3. Plain BY <1>2, <2>1, <2>2 DEF Same
  <2> QED BY <1>1, <2>3
<1>7. CASE r.mt = "DROP"
  <2>1. CASE c.fDoubled
    <3>1. a = [ms |-> Applied(m, r), info |-> ResultNoted(info, Not(r.fPlayer), c.nCube, FALSE)]
      BY <1>7, <2>1, DropApplied
    <3>2. a.ms = Applied(m, r) /\ a.info = ResultNoted(info, Not(r.fPlayer), c.nCube, FALSE) BY <3>1
    <3> HIDE DEF a, c
    <3>3. IsInfo(a.info) /\ SameGame(a.info, info) /\ a.info.fWinner = Not(r.fPlayer)
      BY <3>2 DEF ResultNoted, IsInfo, SameGame, InfoFields
    <3> QED BY <1>3, <3>2, <3>3 DEF a
  <2>2. CASE ~c.fDoubled
    <3>1. a = Same(c, info) /\ Applied(m, r) = c BY <1>7, <2>2, DropApplied
    <3>2. Plain BY <1>2, <3>1 DEF Same
    <3> QED BY <1>1, <3>2
  <2> QED BY <2>1, <2>2
<1>8. CASE r.mt = "NORMAL"
  <2> DEFINE p == Played(c, r)
             status == GameStatus(p.anBoard)
  <2>1. CASE status = 0
    <3>1. a = Same(p, info) /\ Applied(m, r) = p BY <1>8, <2>1, NormalApplied
    <3>2. p.gs = c.gs BY <1>2, <1>3, <1>8, PlayedIs DEF Fields, IsMove
    <3>3. Plain
      <4> HIDE DEF p
      <4> QED BY <1>2, <3>1, <3>2 DEF Same
    <3> QED BY <1>1, <3>3
  <2>2. CASE status # 0
    <3>1. a = [ms |-> Applied(m, r), info |-> ResultNoted(info, r.fPlayer, Worth(c, status), FALSE)]
      BY <1>8, <2>2, NormalApplied
    <3>2. a.ms = Applied(m, r) /\ a.info = ResultNoted(info, r.fPlayer, Worth(c, status), FALSE) BY <3>1
    <3> HIDE DEF a, c, p, status
    <3>3. IsInfo(a.info) /\ SameGame(a.info, info) /\ a.info.fWinner = r.fPlayer
      BY <3>2 DEF ResultNoted, IsInfo, SameGame, InfoFields
    <3> QED BY <1>3, <3>2, <3>3 DEF a
  <2> QED BY <2>1, <2>2
<1>9. CASE r.mt = "RESIGN"
  <2>1. a = [ms |-> Applied(m, r), info |-> ResultNoted(info, Not(r.fPlayer), c.nCube * r.nResigned, TRUE)]
    BY <1>9, ResignApplied
  <2>2. a.ms = Applied(m, r) /\ a.info = ResultNoted(info, Not(r.fPlayer), c.nCube * r.nResigned, TRUE) BY <2>1
  <2> HIDE DEF a, c
  <2>3. IsInfo(a.info) /\ SameGame(a.info, info) /\ a.info.fWinner = Not(r.fPlayer)
    BY <2>2 DEF ResultNoted, IsInfo, SameGame, InfoFields
  <2> QED BY <1>3, <2>2, <2>3 DEF a
<1> QED BY <1>4, <1>5, <1>6, <1>7, <1>8, <1>9 DEF IsMove, Kinds

(* What must hold of a state to play on, and what holds of all of them.      *)
OnTurn(m) ==
  /\ m.fMove \in Player
  /\ m.fTurn = IF (Flag(m.fDoubled) + m.cBeavers) % 2 = 0 THEN m.fMove ELSE Not(m.fMove)
  /\ m.fDoubled \/ m.cBeavers = 0
  /\ m.anBoard[0] > 0 /\ m.anBoard[1] > 0
Sound(m) ==
  /\ State(m) /\ m.gs \in {"PLAYING", "OVER", "DROP", "RESIGNED"}
  /\ m.gs = "PLAYING" => m.fResigned = 0 /\ OnTurn(m)
  /\ m.gs = "OVER" => GameStatus(m.anBoard) # 0
Legal(m, r) ==
  /\ IsMove(r) /\ m.gs = "PLAYING"
  /\ r.mt \in {"NORMAL", "SETDICE"} => ~m.fDoubled /\ r.fPlayer = m.fTurn
  /\ r.mt = "DOUBLE" => r.fPlayer = m.fTurn

LEMMA Parity ==
  ASSUME NEW b \in Nat
  PROVE  /\ (0 + 0) % 2 = 0 /\ (1 + 0) % 2 # 0
         /\ ((1 + (b + 1)) % 2 = 0) <=> ~((1 + b) % 2 = 0)
OBVIOUS

LEMMA SoundNext ==
  ASSUME NEW m, State(m), m.gs = "PLAYING", OnTurn(m), NEW r, Legal(m, r)
  PROVE  Sound(Applied(m, r))
<1> DEFINE a == Applied(m, r)
           c == Cleared(m)
<1>1. /\ State(c) /\ c.gs = "PLAYING" /\ c.fResigned = 0 /\ c.anBoard = m.anBoard /\ c.fMove = m.fMove
      /\ c.fTurn = m.fTurn /\ c.cBeavers = m.cBeavers /\ c.fDoubled = m.fDoubled /\ c.nCube = m.nCube
  BY ClearedIs DEF Fields
<1>2. OnTurn(c) BY <1>1 DEF OnTurn
<1>3. r.fPlayer \in Player /\ Not(r.fPlayer) \in Player BY DEF Legal, IsMove, Not, Player
<1> HIDE DEF a, c
<1>4. CASE r.mt = "SETDICE"
  <2>1. a = ApplySetDice(c, r) BY <1>4, SetDiceApplied DEF a, c
  <2>2. r.fPlayer = c.fTurn /\ ~c.fDoubled BY <1>1, <1>4 DEF Legal
  <2>3. c.cBeavers = 0 /\ c.fMove = c.fTurn BY <1>2, <2>2, Parity DEF OnTurn, Flag
  <2>4. /\ State(a) /\ a.fMove = r.fPlayer /\ a.fTurn = r.fPlayer /\ ~a.fDoubled
        /\ a.gs = "PLAYING" /\ a.fResigned = 0 /\ a.cBeavers = 0 /\ a.anBoard = c.anBoard
    BY <1>1, <1>3, <2>1, <2>2, <2>3, SetDiceIs DEF Fields
  <2>5. OnTurn(a) BY <1>2, <1>3, <2>4, Parity DEF OnTurn, Flag
  <2> QED BY <2>4, <2>5 DEF Sound, a
<1>5. CASE r.mt = "DOUBLE"
  <2>1. a = ApplyDouble(c, r) BY <1>5, DoubleApplied DEF a, c
  <2>2. r.fPlayer = c.fTurn BY <1>1, <1>5 DEF Legal
  <2>3. c.fMove \in Player BY <1>2 DEF OnTurn
  <2>4. CASE c.nCube >= MAX_CUBE
    <3>1. a = c BY <1>1, <1>3, <2>1, <2>3, <2>4, DoubleIs
    <3> QED BY <1>1, <1>2, <3>1 DEF Sound, a
  <2>5. CASE ~(c.nCube >= MAX_CUBE)
    <3>1. /\ State(a) /\ a.fTurn = Not(r.fPlayer) /\ a.fDoubled /\ a.fMove = c.fMove /\ a.anBoard = c.anBoard
          /\ a.gs = "PLAYING" /\ a.fResigned = 0
          /\ a.cBeavers = IF c.fDoubled THEN c.cBeavers + 1 ELSE c.cBeavers
      BY <1>1, <1>3, <2>1, <2>3, <2>5, DoubleIs DEF Fields
    <3>2. c.cBeavers \in Nat BY <1>1 DEF State
    <3>3. a.fTurn = IF (Flag(a.fDoubled) + a.cBeavers) % 2 = 0 THEN a.fMove ELSE Not(a.fMove)
      <4>1. CASE c.fDoubled
        <5>1. Flag(c.fDoubled) = 1 /\ Flag(a.fDoubled) = 1 /\ a.cBeavers = c.cBeavers + 1
          BY <3>1, <4>1 DEF Flag
        <5>2. c.fTurn = IF (1 + c.cBeavers) % 2 = 0 THEN c.fMove ELSE Not(c.fMove) BY <1>2, <5>1 DEF OnTurn
        <5>3. Not(Not(c.fMove)) = c.fMove BY <2>3 DEF Not, Player
        <5>4. CASE (1 + c.cBeavers) % 2 = 0
          <6>1. ~((1 + (c.cBeavers + 1)) % 2 = 0) BY <3>2, <5>4, Parity
          <6> QED BY <2>2, <3>1, <5>1, <5>2, <5>4, <6>1
        <5>5. CASE ~((1 + c.cBeavers) % 2 = 0)
          <6>1. (1 + (c.cBeavers + 1)) % 2 = 0 BY <3>2, <5>5, Parity
          <6> QED BY <2>2, <3>1, <5>1, <5>2, <5>3, <5>5, <6>1
        <5> QED BY <5>4, <5>5
      <4>2. CASE ~c.fDoubled
        <5>1. c.cBeavers = 0 BY <1>2, <4>2 DEF OnTurn
        <5>2. Flag(c.fDoubled) = 0 /\ Flag(a.fDoubled) = 1 /\ a.cBeavers = 0 BY <3>1, <4>2, <5>1 DEF Flag
        <5>3. c.fTurn = c.fMove BY <1>2, <5>1, <5>2, Parity DEF OnTurn
        <5> QED BY <2>2, <3>1, <5>2, <5>3, Parity
      <4> QED BY <4>1, <4>2
    <3>4. OnTurn(a) BY <1>2, <3>1, <3>3 DEF OnTurn
    <3> QED BY <3>1, <3>4 DEF Sound, a
  <2> QED BY <2>4, <2>5
<1>6. CASE r.mt = "TAKE"
  <2>1. a = ApplyTake(c) BY <1>6, TakeApplied DEF a, c
  <2>2. CASE ~c.fDoubled
    <3>1. a = c BY <1>1, <2>1, <2>2, TakeIs
    <3> QED BY <1>1, <1>2, <3>1 DEF Sound, a
  <2>3. CASE c.fDoubled
    <3>1. /\ State(a) /\ a.fTurn = c.fMove /\ ~a.fDoubled /\ a.fMove = c.fMove /\ a.anBoard = c.anBoard
          /\ a.gs = "PLAYING" /\ a.fResigned = 0 /\ a.cBeavers = 0
      BY <1>1, <2>1, <2>3, TakeIs DEF Fields
    <3>2. OnTurn(a) BY <1>2, <3>1, Parity DEF OnTurn, Flag
    <3> QED BY <3>1, <3>2 DEF Sound, a
  <2> QED BY <2>2, <2>3
<1>7. CASE r.mt = "DROP"
  <2>1. CASE c.fDoubled
    <3> DEFINE d == [c EXCEPT !.fDoubled = FALSE, !.cBeavers = 0]
    <3>1. a = Scored(d, "DROP", Not(r.fPlayer), c.nCube) BY <1>7, <2>1, DropApplied DEF a, c
    <3>2. State(d) BY <1>1 DEF State, Fields
    <3> HIDE DEF d
    <3>3. State(a) /\ a.gs = "DROP" BY <3>1, <3>2 DEF Scored, State, Fields
    <3> QED BY <3>3 DEF Sound, a
  <2>2. CASE ~c.fDoubled
    <3>1. a = c BY <1>7, <2>2, DropApplied DEF a, c
    <3> QED BY <1>1, <1>2, <3>1 DEF Sound, a
  <2> QED BY <2>1, <2>2
<1>8. CASE r.mt = "NORMAL"
  <2> DEFINE p == Played(c, r)
             status == GameStatus(p.anBoard)
  <2>1. r.fPlayer = c.fTurn /\ ~c.fDoubled /\ r.off \in Nat BY <1>1, <1>8 DEF Legal, IsMove
  <2>2. c.cBeavers = 0 BY <1>2, <2>1 DEF OnTurn
  <2>3. /\ State(p) /\ p.fMove = Not(r.fPlayer) /\ p.fTurn = Not(r.fPlayer) /\ ~p.fDoubled
        /\ p.gs = "PLAYING" /\ p.fResigned = 0 /\ p.cBeavers = 0
    BY <1>1, <1>3, <2>1, <2>2, PlayedIs DEF Fields
  <2> HIDE DEF p
  <2>4. CASE status = 0
    <3>1. a = p BY <1>8, <2>4, NormalApplied DEF a, c, p
    <3>2. p.anBoard[0] > 0 /\ p.anBoard[1] > 0 BY <2>4 DEF GameStatus
    <3>3. OnTurn(p) BY <1>3, <2>3, <3>2, Parity DEF OnTurn, Flag
    <3> QED BY <2>3, <3>1, <3>3 DEF Sound, a
  <2>5. CASE status # 0
    <3>1. a = Scored(p, "OVER", r.fPlayer, Worth(c, status)) BY <1>8, <2>5, NormalApplied DEF a, c, p
    <3> HIDE DEF status
    <3>2. State(a) /\ a.gs = "OVER" /\ a.anBoard = p.anBoard BY <2>3, <3>1 DEF Scored, State, Fields
    <3> QED BY <2>5, <3>2 DEF Sound, a, status
  <2> QED BY <2>4, <2>5
<1>9. CASE r.mt = "RESIGN"
  <2> DEFINE d == [c EXCEPT !.fResigned = r.nResigned]
  <2>1. a = Scored(d, "RESIGNED", Not(r.fPlayer), c.nCube * r.nResigned) BY <1>9, ResignApplied DEF a, c
  <2>2. State(d) BY <1>1 DEF State, Fields
  <2> HIDE DEF d
  <2>3. State(a) /\ a.gs = "RESIGNED" BY <2>1, <2>2 DEF Scored, State, Fields
  <2> QED BY <2>3 DEF Sound, a
<1> QED BY <1>4, <1>5, <1>6, <1>7, <1>8, <1>9 DEF Legal, IsMove, Kinds, a

-----------------------------------------------------------------------------
(* Equal positions stay equal.                                               *)
LEMMA ScoredAlike ==
  ASSUME NEW u, NEW v, State(u), State(v), Alike(u, v), u.gs = "PLAYING", NEW gs, NEW w, NEW k
  PROVE  Alike(Scored(u, gs, w, k), Scored(v, gs, w, k))
<1> DEFINE a == Scored(u, gs, w, k)  b == Scored(v, gs, w, k)
<1>1. /\ a.gs = gs /\ a.anScore = [u.anScore EXCEPT ![w] = @ + k] /\ a.cGames = u.cGames + 1
      /\ \A f \in Fields \ {"gs", "anScore", "cGames"} : a[f] = u[f]
  BY DEF Scored, State, Fields
<1>2. /\ b.gs = gs /\ b.anScore = [v.anScore EXCEPT ![w] = @ + k] /\ b.cGames = v.cGames + 1
      /\ \A f \in Fields \ {"gs", "anScore", "cGames"} : b[f] = v[f]
  BY DEF Scored, State, Fields
<1> HIDE DEF a, b
<1>3. a.anScore = b.anScore /\ a.cGames = b.cGames BY <1>1, <1>2 DEF Alike
<1>4. Alike(a, b) BY <1>1, <1>2, <1>3 DEF Alike, Fields
<1> QED BY <1>4 DEF a, b

LEMMA AlikeNext ==
  ASSUME NEW m, NEW n, State(m), State(n), Alike(m, n), m.gs = "PLAYING", m.fMove \in Player,
         NEW r, IsMove(r)
  PROVE  Alike(Applied(m, r), Applied(n, r))
<1> DEFINE c == Cleared(m)  d == Cleared(n)  a == Applied(m, r)  b == Applied(n, r)
<1>1. State(c) /\ State(d) /\ c.gs = "PLAYING" /\ d.gs = "PLAYING" BY ClearedIs
<1>2. Alike(c, d) /\ c.fMove \in Player /\ d.fMove \in Player
  <2>1. /\ \A f \in Fields \ {"gs", "fResigned", "fResignationDeclined"} : c[f] = m[f]
        /\ \A f \in Fields \ {"gs", "fResigned", "fResignationDeclined"} : d[f] = n[f]
    BY ClearedIs
  <2> HIDE DEF c, d
  <2> QED BY <1>1, <2>1 DEF Alike, Fields
<1>3. r.fPlayer \in Player BY DEF IsMove
<1> HIDE DEF a, b, c, d
<1>4. /\ c.fCubeOwner = d.fCubeOwner /\ c.nCube = d.nCube /\ c.fDoubled = d.fDoubled
      /\ c.cBeavers = d.cBeavers /\ c.anScore = d.anScore /\ c.cGames = d.cGames
      /\ c.nMatchTo = d.nMatchTo /\ c.fJacoby = d.fJacoby
      /\ c.anBoard = d.anBoard /\ c.fMove = d.fMove /\ c.fTurn = d.fTurn
  BY <1>1, <1>2 DEF Alike
<1>5. CASE r.mt = "SETDICE"
  <2>1. a = ApplySetDice(c, r) /\ b = ApplySetDice(d, r) BY <1>5, SetDiceApplied DEF a, b, c, d
  <2>2. SwapSides(c).anBoard = SwapSides(d).anBoard
    <3>1. SwapSides(c).anBoard = [s \in Player |-> c.anBoard[Not(s)]] BY <1>1, SwapIs
    <3>2. SwapSides(d).anBoard = [s \in Player |-> d.anBoard[Not(s)]] BY <1>1, SwapIs
    <3> QED BY <1>4, <3>1, <3>2
  <2>3. /\ a.fMove = r.fPlayer /\ a.fTurn = r.fPlayer /\ ~a.fDoubled /\ a.fDoubled \in BOOLEAN
        /\ \A f \in Fields \ {"anBoard", "fMove", "fTurn", "fDoubled", "dice"} : a[f] = c[f]
        /\ a.anBoard = IF c.fMove # r.fPlayer THEN SwapSides(c).anBoard ELSE c.anBoard
    BY <1>1, <1>3, <2>1, SetDiceIs DEF State
  <2>4. /\ b.fMove = r.fPlayer /\ b.fTurn = r.fPlayer /\ ~b.fDoubled /\ b.fDoubled \in BOOLEAN
        /\ \A f \in Fields \ {"anBoard", "fMove", "fTurn", "fDoubled", "dice"} : b[f] = d[f]
        /\ b.anBoard = IF d.fMove # r.fPlayer THEN SwapSides(d).anBoard ELSE d.anBoard
    BY <1>1, <1>3, <2>1, SetDiceIs DEF State
  <2>5. a.anBoard = b.anBoard BY <1>4, <2>2, <2>3, <2>4
  <2> QED BY <1>1, <1>4, <2>3, <2>4, <2>5 DEF Alike, Fields, a, b
<1>6. CASE r.mt = "DOUBLE"
  <2>1. a = ApplyDouble(c, r) /\ b = ApplyDouble(d, r) BY <1>6, DoubleApplied DEF a, b, c, d
  <2>2. CASE c.nCube >= MAX_CUBE
    <3>1. a = c BY <1>1, <1>2, <1>3, <2>1, <2>2, DoubleIs
    <3>2. b = d BY <1>1, <1>2, <1>3, <1>4, <2>1, <2>2, DoubleIs
    <3> QED BY <1>2, <3>1, <3>2 DEF a, b
  <2>3. CASE ~(c.nCube >= MAX_CUBE)
    <3>1. /\ \A f \in Fields \ {"cBeavers", "nCube", "fCubeOwner", "fTurn", "fDoubled"} : a[f] = c[f]
          /\ a.fTurn = Not(r.fPlayer) /\ a.fDoubled /\ a.fDoubled \in BOOLEAN
          /\ c.fDoubled => /\ a.cBeavers = c.cBeavers + 1 /\ a.nCube = 2 * c.nCube /\ a.fCubeOwner = Not(c.fMove)
          /\ ~c.fDoubled => /\ a.cBeavers = c.cBeavers /\ a.nCube = c.nCube /\ a.fCubeOwner = c.fCubeOwner
      BY <1>1, <1>2, <1>3, <2>1, <2>3, DoubleIs DEF State
    <3>2. /\ \A f \in Fields \ {"cBeavers", "nCube", "fCubeOwner", "fTurn", "fDoubled"} : b[f] = d[f]
          /\ b.fTurn = Not(r.fPlayer) /\ b.fDoubled /\ b.fDoubled \in BOOLEAN
          /\ d.fDoubled => /\ b.cBeavers = d.cBeavers + 1 /\ b.nCube = 2 * d.nCube /\ b.fCubeOwner = Not(d.fMove)
          /\ ~d.fDoubled => /\ b.cBeavers = d.cBeavers /\ b.nCube = d.nCube /\ b.fCubeOwner = d.fCubeOwner
      BY <1>1, <1>2, <1>3, <1>4, <2>1, <2>3, DoubleIs DEF State
    <3>3. a.cBeavers = b.cBeavers /\ a.nCube = b.nCube /\ a.fCubeOwner = b.fCubeOwner
      <4>1. CASE c.fDoubled BY <1>4, <3>1, <3>2, <4>1
      <4>2. CASE ~c.fDoubled BY <1>4, <3>1, <3>2, <4>2
      <4> QED BY <4>1, <4>2
    <3> QED BY <1>1, <1>4, <3>1, <3>2, <3>3 DEF Alike, Fields, a, b
  <2> QED BY <2>2, <2>3
<1>7. CASE r.mt = "TAKE"
  <2>1. a = ApplyTake(c) /\ b = ApplyTake(d) BY <1>7, TakeApplied DEF a, b, c, d
  <2>2. CASE ~c.fDoubled
    <3>1. a = c /\ b = d BY <1>1, <1>4, <2>1, <2>2, TakeIs
    <3> QED BY <1>2, <3>1 DEF a, b
  <2>3. CASE c.fDoubled
    <3>1. /\ \A f \in Fields \ {"cBeavers", "nCube", "fCubeOwner", "fTurn", "fDoubled"} : a[f] = c[f]
          /\ a.fTurn = c.fMove /\ ~a.fDoubled /\ a.cBeavers = 0 /\ a.nCube = 2 * c.nCube
          /\ a.fCubeOwner = Not(c.fMove) /\ a.fDoubled \in BOOLEAN
      BY <1>1, <2>1, <2>3, TakeIs DEF State
    <3>2. /\ \A f \in Fields \ {"cBeavers", "nCube", "fCubeOwner", "fTurn", "fDoubled"} : b[f] = d[f]
          /\ b.fTurn = d.fMove /\ ~b.fDoubled /\ b.cBeavers = 0 /\ b.nCube = 2 * d.nCube
          /\ b.fCubeOwner = Not(d.fMove) /\ b.fDoubled \in BOOLEAN
      BY <1>1, <1>4, <2>1, <2>3, TakeIs DEF State
    <3> QED BY <1>1, <1>4, <3>1, <3>2 DEF Alike, Fields, a, b
  <2> QED BY <2>2, <2>3
<1>8. CASE r.mt = "DROP"
  <2>1. CASE c.fDoubled
    <3> DEFINE u == [c EXCEPT !.fDoubled = FALSE, !.cBeavers = 0]  v == [d EXCEPT !.fDoubled = FALSE, !.cBeavers = 0]
    <3>1. a = Scored(u, "DROP", Not(r.fPlayer), c.nCube) BY <1>8, <2>1, DropApplied DEF a, c
    <3>2. b = Scored(v, "DROP", Not(r.fPlayer), c.nCube) BY <1>4, <1>8, <2>1, DropApplied DEF b, d
    <3>3. State(u) /\ State(v) BY <1>1 DEF State, Fields
    <3>4. Alike(u, v) BY <1>1, <1>4 DEF Alike, State, Fields
    <3>5. u.gs = "PLAYING" BY <1>1 DEF State, Fields
    <3> DEFINE k == c.nCube  w == Not(r.fPlayer)
    <3> HIDE DEF u, v, k, w
    <3>6. Alike(Scored(u, "DROP", w, k), Scored(v, "DROP", w, k)) BY <3>3, <3>4, <3>5, ScoredAlike
    <3> QED BY <3>1, <3>2, <3>6 DEF a, b, k, w
  <2>2. CASE ~c.fDoubled
    <3>1. a = c /\ b = d BY <1>4, <1>8, <2>2, DropApplied DEF a, b, c, d
    <3> QED BY <1>2, <3>1 DEF a, b
  <2> QED BY <2>1, <2>2
<1>9. CASE r.mt = "NORMAL"
  <2> DEFINE p == Played(c, r)  q == Played(d, r)
             status == GameStatus(p.anBoard)
             k == Worth(c, status)
  <2>1. r.off \in Nat BY <1>9 DEF IsMove
  <2>2. /\ State(p) /\ p.anBoard = Moved(c, r) /\ p.fMove = Not(r.fPlayer) /\ p.fTurn = Not(r.fPlayer) /\ ~p.fDoubled
        /\ \A f \in Fields \ {"anBoard", "fMove", "fTurn", "fDoubled", "dice"} : p[f] = c[f]
    BY <1>1, <1>3, <2>1, PlayedIs
  <2>3. /\ State(q) /\ q.anBoard = Moved(d, r) /\ q.fMove = Not(r.fPlayer) /\ q.fTurn = Not(r.fPlayer) /\ ~q.fDoubled
        /\ \A f \in Fields \ {"anBoard", "fMove", "fTurn", "fDoubled", "dice"} : q[f] = d[f]
    BY <1>1, <1>3, <2>1, PlayedIs
  <2>4. Moved(c, r) = Moved(d, r) BY <1>4 DEF Moved
  <2>5. Worth(c, status) = Worth(d, status) BY <1>4 DEF Worth
  <2>6. GameStatus(q.anBoard) = status BY <2>2, <2>3, <2>4
  <2>7. p.fDoubled = q.fDoubled BY <2>2, <2>3 DEF State
  <2>8. Alike(p, q) /\ p.gs = "PLAYING" /\ p.anBoard = q.anBoard /\ p.fMove = q.fMove /\ p.fTurn = q.fTurn
    <3> HIDE DEF p, q
    <3> QED BY <1>1, <1>4, <2>2, <2>3, <2>4, <2>7 DEF Alike, Fields
  <2>9. CASE status = 0
    <3>1. a = p BY <1>9, <2>9, NormalApplied DEF a, c
    <3>2. b = q BY <1>9, <2>6, <2>9, NormalApplied DEF b, d
    <3> QED BY <2>8, <3>1, <3>2 DEF a, b
  <2>10. CASE status # 0
    <3>1. a = Scored(p, "OVER", r.fPlayer, k) BY <1>9, <2>10, NormalApplied DEF a, c
    <3>2. b = Scored(q, "OVER", r.fPlayer, Worth(d, status)) BY <1>9, <2>6, <2>10, NormalApplied DEF b, d
    <3>3. b = Scored(q, "OVER", r.fPlayer, k) BY <2>5, <3>2
    <3> HIDE DEF p, q, status, k
    <3>4. Alike(Scored(p, "OVER", r.fPlayer, k), Scored(q, "OVER", r.fPlayer, k))
      BY <2>2, <2>3, <2>8, ScoredAlike
    <3> QED BY <3>1, <3>3, <3>4 DEF a, b
  <2> QED BY <2>9, <2>10
<1>10. CASE r.mt = "RESIGN"
  <2> DEFINE u == [c EXCEPT !.fResigned = r.nResigned]  v == [d EXCEPT !.fResigned = r.nResigned]
             k == c.nCube * r.nResigned
  <2>1. a = Scored(u, "RESIGNED", Not(r.fPlayer), k) BY <1>10, ResignApplied DEF a, c
  <2>2. b = Scored(v, "RESIGNED", Not(r.fPlayer), d.nCube * r.nResigned) BY <1>10, ResignApplied DEF b, d
  <2>3. b = Scored(v, "RESIGNED", Not(r.fPlayer), k) BY <1>4, <2>2
  <2>4. State(u) /\ State(v) BY <1>1 DEF State, Fields
  <2>5. Alike(u, v) BY <1>1, <1>4 DEF Alike, State, Fields
  <2>6. u.gs = "PLAYING" BY <1>1 DEF State, Fields
  <2> DEFINE w == Not(r.fPlayer)
  <2> HIDE DEF u, v, k, w
  <2>7. Alike(Scored(u, "RESIGNED", w, k), Scored(v, "RESIGNED", w, k)) BY <2>4, <2>5, <2>6, ScoredAlike
  <2> QED BY <2>1, <2>3, <2>7 DEF a, b, w
<1> QED BY <1>5, <1>6, <1>7, <1>8, <1>9, <1>10 DEF IsMove, Kinds, a, b

-----------------------------------------------------------------------------
(* The start of a game: boards and cube are at the beginning, no matter who  *)
(* is on roll.                                                               *)
Started(m) == State(m) /\ m.anBoard = StartBoard /\ ~m.fDoubled /\ m.cBeavers = 0
SameScore(m, n) ==
  /\ m.fCubeOwner = n.fCubeOwner /\ m.nCube = n.nCube /\ m.anScore = n.anScore /\ m.cGames = n.cGames
  /\ m.nMatchTo = n.nMatchTo /\ m.fJacoby = n.fJacoby
Opener(r) == IsMove(r) /\ r.mt \in {"NORMAL", "SETDICE", "RESIGN"}

LEMMA StartTurned ==
  [s \in Player |-> StartBoard[Not(s)]] = StartBoard
BY DEF StartBoard, Not, Player

LEMMA FixIs ==
  ASSUME NEW m, State(m), NEW r, r.fPlayer \in Player
  PROVE  LET d == FixMatchState(m, r)
         IN  /\ State(d) /\ \A f \in Fields \ {"anBoard", "fMove", "fTurn"} : d[f] = m[f]
             /\ d.anBoard = m.anBoard \/ d.anBoard = [s \in Player |-> m.anBoard[Not(s)]]
<1>1. CASE r.mt \in {"NORMAL", "DOUBLE"} /\ m.fTurn # r.fPlayer
  <2> DEFINE w == SwapSides(m)  d == [w EXCEPT !.fMove = r.fPlayer, !.fTurn = r.fPlayer]
  <2>1. FixMatchState(m, r) = d BY <1>1 DEF FixMatchState
  <2>2. /\ State(w) /\ \A f \in Fields \ {"anBoard"} : w[f] = m[f]
        /\ w.anBoard = [s \in Player |-> m.anBoard[Not(s)]]
    BY SwapIs
  <2> HIDE DEF w
  <2>3. State(d) /\ d.anBoard = w.anBoard /\ \A f \in Fields \ {"fMove", "fTurn"} : d[f] = w[f]
    BY <2>2 DEF State, Fields
  <2> HIDE DEF d
  <2> QED BY <2>1, <2>2, <2>3
<1>2. CASE ~(r.mt \in {"NORMAL", "DOUBLE"} /\ m.fTurn # r.fPlayer)
  <2>1. FixMatchState(m, r) = m BY <1>2 DEF FixMatchState
  <2> QED BY <2>1
<1> QED BY <1>1, <1>2

LEMMA FixStarted ==
  ASSUME NEW m, Started(m), NEW r, r.fPlayer \in Player
  PROVE  LET d == FixMatchState(m, r)
         IN  Started(d) /\ SameScore(d, m) /\ d.gs = m.gs /\ d.fResigned = m.fResigned /\ d.dice = m.dice
<1> DEFINE d == FixMatchState(m, r)
<1>1. /\ State(d) /\ \A f \in Fields \ {"anBoard", "fMove", "fTurn"} : d[f] = m[f]
      /\ d.anBoard = m.anBoard \/ d.anBoard = [s \in Player |-> m.anBoard[Not(s)]]
  BY FixIs DEF Started
<1> HIDE DEF d
<1>2. d.anBoard = StartBoard BY <1>1, StartTurned DEF Started
<1> QED BY <1>1, <1>2 DEF Started, SameScore, Fields, d

LEMMA FixSame ==
  ASSUME NEW m, NEW r, Legal(m, r)
  PROVE  FixMatchState(m, r) = m
BY DEF Legal, FixMatchState

(* The first record after the game-info record.                              *)
LEMMA Opened ==
  ASSUME NEW m, Started(m), NEW r, Opener(r)
  PROVE  Sound(Applied(m, r))
<1> DEFINE a == Applied(m, r)
           c == Cleared(m)
<1>1. State(c) /\ c.gs = "PLAYING" /\ c.fResigned = 0 /\ c.anBoard = StartBoard /\ ~c.fDoubled /\ c.cBeavers = 0
  BY ClearedIs DEF Fields, Started
<1>2. r.fPlayer \in Player /\ Not(r.fPlayer) \in Player BY DEF Opener, IsMove, Not, Player
<1> HIDE DEF a, c
<1>3. CASE r.mt = "SETDICE"
  <2>1. a = ApplySetDice(c, r) BY <1>3, SetDiceApplied DEF a, c
  <2>2. SwapSides(c).anBoard = StartBoard BY <1>1, SwapIs, StartTurned
  <2>3. /\ State(a) /\ a.fMove = r.fPlayer /\ a.fTurn = r.fPlayer /\ ~a.fDoubled
        /\ a.gs = "PLAYING" /\ a.fResigned = 0 /\ a.cBeavers = 0 /\ a.anBoard = StartBoard
    BY <1>1, <1>2, <2>1, <2>2, SetDiceIs DEF Fields
  <2>4. StartBoard[0] > 0 /\ StartBoard[1] > 0 BY MenAssumption DEF StartBoard, Player
  <2>5. OnTurn(a) BY <1>2, <2>3, <2>4, Parity DEF OnTurn, Flag
  <2> QED BY <2>3, <2>5 DEF Sound, a
<1>4. CASE r.mt = "NORMAL"
  <2> DEFINE p == Played(c, r)
             status == GameStatus(p.anBoard)
  <2>1. r.off \in Nat BY <1>4 DEF Opener, IsMove
  <2>2. /\ State(p) /\ p.fMove = Not(r.fPlayer) /\ p.fTurn = Not(r.fPlayer) /\ ~p.fDoubled
        /\ p.gs = "PLAYING" /\ p.fResigned = 0 /\ p.cBeavers = 0
    BY <1>1, <1>2, <2>1, PlayedIs DEF Fields
  <2> HIDE DEF p
  <2>3. CASE status = 0
    <3>1. a = p BY <1>4, <2>3, NormalApplied DEF a, c, p
    <3>2. p.anBoard[0] > 0 /\ p.anBoard[1] > 0 BY <2>3 DEF GameStatus
    <3>3. OnTurn(p) BY <1>2, <2>2, <3>2, Parity DEF OnTurn, Flag
    <3> QED BY <2>2, <3>1, <3>3 DEF Sound, a
  <2>4. CASE status # 0
    <3>1. a = Scored(p, "OVER", r.fPlayer, Worth(c, status)) BY <1>4, <2>4, NormalApplied DEF a, c, p
    <3> HIDE DEF status
    <3>2. State(a) /\ a.gs = "OVER" /\ a.anBoard = p.anBoard BY <2>2, <3>1 DEF Scored, State, Fields
    <3> QED BY <2>4, <3>2 DEF Sound, a, status
  <2> QED BY <2>3, <2>4
<1>5. CASE r.mt = "RESIGN"
  <2> DEFINE d == [c EXCEPT !.fResigned = r.nResigned]
  <2>1. a = Scored(d, "RESIGNED", Not(r.fPlayer), c.nCube * r.nResigned) BY <1>5, ResignApplied DEF a, c
  <2>2. State(d) BY <1>1 DEF State, Fields
  <2> HIDE DEF d
  <2>3. State(a) /\ a.gs = "RESIGNED" BY <2>1, <2>2 DEF Scored, State, Fields
  <2> QED BY <2>3 DEF Sound, a
<1> QED BY <1>3, <1>4, <1>5 DEF Opener, a

(* For a resignation neither the board nor the turn matters.                 *)
LEMMA ResignAlike ==
  ASSUME NEW m, NEW n, State(m), State(n), SameScore(m, n), m.fDoubled = n.fDoubled, m.cBeavers = n.cBeavers,
         NEW r, r.mt = "RESIGN"
  PROVE  Alike(Applied(m, r), Applied(n, r)) /\ State(Applied(m, r)) /\ Applied(m, r).gs = "RESIGNED"
<1> DEFINE c == Cleared(m)  d == Cleared(n)  a == Applied(m, r)  b == Applied(n, r)
           u == [c EXCEPT !.fResigned = r.nResigned]  v == [d EXCEPT !.fResigned = r.nResigned]
           k == c.nCube * r.nResigned  w == Not(r.fPlayer)
<1>1. /\ State(c) /\ State(d)
      /\ \A f \in Fields \ {"gs", "fResigned", "fResignationDeclined"} : c[f] = m[f]
      /\ \A f \in Fields \ {"gs", "fResigned", "fResignationDeclined"} : d[f] = n[f]
  BY ClearedIs
<1>2. a = Scored(u, "RESIGNED", w, k) BY ResignApplied
<1>3. b = Scored(v, "RESIGNED", w, d.nCube * r.nResigned) BY ResignApplied
<1> HIDE DEF a, b, c, d
<1>4. c.nCube = d.nCube BY <1>1 DEF SameScore, Fields
<1>5. b = Scored(v, "RESIGNED", w, k) BY <1>3, <1>4
<1>6. /\ State(u) /\ State(v) /\ \A f \in Fields \ {"fResigned"} : u[f] = c[f]
      /\ \A f \in Fields \ {"fResigned"} : v[f] = d[f]
  BY <1>1 DEF State, Fields
<1> HIDE DEF u, v, w, k
<1>7. /\ State(a) /\ a.gs = "RESIGNED" /\ a.anScore = [u.anScore EXCEPT ![w] = @ + k] /\ a.cGames = u.cGames + 1
      /\ \A f \in Fields \ {"gs", "anScore", "cGames"} : a[f] = u[f]
  BY <1>2, <1>6 DEF Scored, State, Fields
<1>8. /\ b.gs = "RESIGNED" /\ b.anScore = [v.anScore EXCEPT ![w] = @ + k] /\ b.cGames = v.cGames + 1
      /\ \A f \in Fields \ {"gs", "anScore", "cGames"} : b[f] = v[f]
  BY <1>5, <1>6 DEF Scored, State, Fields
<1>9. \A f \in Fields \ {"gs", "anBoard", "fMove", "fTurn", "dice", "fResigned", "fResignationDeclined",
                         "fCrawford", "fPostCrawford"} : u[f] = v[f]
  BY <1>1, <1>6 DEF SameScore, Fields
<1>10. a.anScore = b.anScore /\ a.cGames = b.cGames BY <1>7, <1>8, <1>9 DEF Fields
<1>11. Alike(a, b) BY <1>7, <1>8, <1>9, <1>10 DEF Alike, Fields
<1> QED BY <1>7, <1>11 DEF a, b

LEMMA OpenedAlike ==
  ASSUME NEW m, NEW n, Started(m), Started(n), SameScore(m, n), NEW r, Opener(r)
  PROVE  Alike(Applied(m, r), Applied(n, r))
<1> DEFINE c == Cleared(m)  d == Cleared(n)  a == Applied(m, r)  b == Applied(n, r)
<1>1. /\ State(c) /\ c.gs = "PLAYING" /\ \A f \in Fields \ {"gs", "fResigned", "fResignationDeclined"} : c[f] = m[f]
      /\ State(d) /\ d.gs = "PLAYING" /\ \A f \in Fields \ {"gs", "fResigned", "fResignationDeclined"} : d[f] = n[f]
  BY ClearedIs DEF Started
<1> HIDE DEF a, b, c, d
<1>2. /\ c.fCubeOwner = d.fCubeOwner /\ c.nCube = d.nCube /\ c.anScore = d.anScore /\ c.cGames = d.cGames
      /\ c.nMatchTo = d.nMatchTo /\ c.fJacoby = d.fJacoby
      /\ c.anBoard = StartBoard /\ d.anBoard = StartBoard /\ ~c.fDoubled /\ ~d.fDoubled
      /\ c.cBeavers = 0 /\ d.cBeavers = 0
  BY <1>1 DEF Started, SameScore, Fields
<1>3. r.fPlayer \in Player BY DEF Opener, IsMove
<1>4. CASE r.mt = "SETDICE"
  <2>1. a = ApplySetDice(c, r) /\ b = ApplySetDice(d, r) BY <1>4, SetDiceApplied DEF a, b, c, d
  <2>2. SwapSides(c).anBoard = StartBoard /\ SwapSides(d).anBoard = StartBoard
    BY <1>1, <1>2, SwapIs, StartTurned
  <2>3. /\ State(a) /\ a.fMove = r.fPlayer /\ a.fTurn = r.fPlayer /\ ~a.fDoubled
        /\ \A f \in Fields \ {"anBoard", "fMove", "fTurn", "fDoubled", "dice"} : a[f] = c[f]
        /\ a.anBoard = StartBoard
    BY <1>1, <1>2, <1>3, <2>1, <2>2, SetDiceIs
  <2>4. /\ State(b) /\ b.fMove = r.fPlayer /\ b.fTurn = r.fPlayer /\ ~b.fDoubled
        /\ \A f \in Fields \ {"anBoard", "fMove", "fTurn", "fDoubled", "dice"} : b[f] = d[f]
        /\ b.anBoard = StartBoard
    BY <1>1, <1>2, <1>3, <2>1, <2>2, SetDiceIs
  <2>5. a.fDoubled = b.fDoubled BY <2>3, <2>4 DEF State
  <2> QED BY <1>1, <1>2, <2>3, <2>4, <2>5 DEF Alike, Fields, a, b
<1>5. CASE r.mt = "NORMAL"
  <2> DEFINE p == Played(c, r)  q == Played(d, r)
             status == GameStatus(p.anBoard)
             k == Worth(c, status)
  <2>1. r.off \in Nat BY <1>5 DEF Opener, IsMove
  <2>2. /\ State(p) /\ p.anBoard = Moved(c, r) /\ p.fMove = Not(r.fPlayer) /\ p.fTurn = Not(r.fPlayer) /\ ~p.fDoubled
        /\ \A f \in Fields \ {"anBoard", "fMove", "fTurn", "fDoubled", "dice"} : p[f] = c[f]
    BY <1>1, <1>3, <2>1, PlayedIs
  <2>3. /\ State(q) /\ q.anBoard = Moved(d, r) /\ q.fMove = Not(r.fPlayer) /\ q.fTurn = Not(r.fPlayer) /\ ~q.fDoubled
        /\ \A f \in Fields \ {"anBoard", "fMove", "fTurn", "fDoubled", "dice"} : q[f] = d[f]
    BY <1>1, <1>3, <2>1, PlayedIs
  <2>4. Moved(c, r) = Moved(d, r) BY <1>2 DEF Moved, StartBoard, Player
  <2>5. Worth(c, status) = Worth(d, status) BY <1>2 DEF Worth
  <2>6. GameStatus(q.anBoard) = status BY <2>2, <2>3, <2>4
  <2>7. p.fDoubled = q.fDoubled BY <2>2, <2>3 DEF State
  <2>8. Alike(p, q) /\ p.gs = "PLAYING"
    <3> HIDE DEF p, q
    <3> QED BY <1>1, <1>2, <2>2, <2>3, <2>4, <2>7 DEF Alike, Fields
  <2>9. CASE status = 0
    <3>1. a = p BY <1>5, <2>9, NormalApplied DEF a, c
    <3>2. b = q BY <1>5, <2>6, <2>9, NormalApplied DEF b, d
    <3> QED BY <2>8, <3>1, <3>2 DEF a, b
  <2>10. CASE status # 0
    <3>1. a = Scored(p, "OVER", r.fPlayer, k) BY <1>5, <2>10, NormalApplied DEF a, c
    <3>2. b = Scored(q, "OVER", r.fPlayer, Worth(d, status)) BY <1>5, <2>6, <2>10, NormalApplied DEF b, d
    <3>3. b = Scored(q, "OVER", r.fPlayer, k) BY <2>5, <3>2
    <3> HIDE DEF p, q, status, k
    <3>4. Alike(Scored(p, "OVER", r.fPlayer, k), Scored(q, "OVER", r.fPlayer, k))
      BY <2>2, <2>3, <2>8, ScoredAlike
    <3> QED BY <3>1, <3>3, <3>4 DEF a, b
  <2> QED BY <2>9, <2>10
<1>6. CASE r.mt = "RESIGN"
  <2>1. State(m) /\ State(n) /\ m.cBeavers = n.cBeavers BY DEF Started
  <2>2. m.fDoubled = n.fDoubled BY DEF Started, State
  <2> QED BY <1>6, <2>1, <2>2, ResignAlike DEF a, b
<1> QED BY <1>4, <1>5, <1>6 DEF Opener, a, b

(* A roll that is replaced by the move it is for, or rolled again, leaves    *)
(* the position as it was.                                                   *)
LEMMA RollAlike ==
  ASSUME NEW m, Sound(m), NEW r, Legal(m, r), r.mt = "SETDICE"
  PROVE  Alike(Applied(m, r), m)
<1> DEFINE a == Applied(m, r)
           c == Cleared(m)
<1>1. /\ State(c) /\ c.gs = "PLAYING" /\ \A f \in Fields \ {"gs", "fResigned", "fResignationDeclined"} : c[f] = m[f]
  BY ClearedIs DEF Sound
<1>2. m.gs = "PLAYING" /\ r.fPlayer = m.fTurn /\ ~m.fDoubled /\ r.fPlayer \in Player BY DEF Legal, IsMove
<1>3. m.cBeavers = 0 /\ m.fMove = m.fTurn
  <2>1. OnTurn(m) BY <1>2 DEF Sound
  <2> QED BY <1>2, <2>1, Parity DEF OnTurn, Flag
<1>4. a = ApplySetDice(c, r) BY SetDiceApplied
<1> HIDE DEF a, c
<1>5. c.fMove = r.fPlayer /\ c.fTurn = r.fPlayer /\ ~c.fDoubled BY <1>1, <1>2, <1>3 DEF Fields
<1>6. /\ State(a) /\ a.fMove = r.fPlayer /\ a.fTurn = r.fPlayer /\ ~a.fDoubled
      /\ \A f \in Fields \ {"anBoard", "fMove", "fTurn", "fDoubled", "dice"} : a[f] = c[f]
      /\ a.anBoard = c.anBoard
  BY <1>1, <1>2, <1>4, <1>5, SetDiceIs
<1>7. a.fDoubled = c.fDoubled BY <1>1, <1>5, <1>6 DEF State
<1>8. Alike(a, m) BY <1>1, <1>2, <1>3, <1>5, <1>6, <1>7 DEF Alike, Fields
<1> QED BY <1>8 DEF a

(* What may be played in a position may be played in an equal one.           *)
LEMMA LegalAlike ==
  ASSUME NEW m, NEW n, Alike(m, n), NEW r, Legal(m, r)
  PROVE  Legal(n, r)
BY DEF Alike, Legal

-----------------------------------------------------------------------------
(* What the records of a game lead to.                                       *)
Blank == [f \in Fields |-> IF f = "anBoard" THEN StartBoard
                           ELSE IF f \in {"fMove", "fTurn"} THEN None
                           ELSE IF f = "fDoubled" THEN FALSE ELSE 0]
Records(game) ==
  Len(game) \in Nat /\ IsInfo(game[1]) /\ \A k \in 2..Len(game) : IsMove(game[k])

(* The k-th step of CalculateBoard from m, but for the look ahead.           *)
Step(m, game, k) ==
  LET s == CalculateBoard(m, game, k - 1) IN ApplyMoveRecord(s.ms, s.info, game[k])

LEMMA Steps ==
  ASSUME NEW m, NEW game, NEW k \in Nat \ {0}
  PROVE  CalculateBoard(m, game, k) =
           IF k < Len(game) THEN [Step(m, game, k) EXCEPT !.ms = FixMatchState(@, game[k + 1])]
           ELSE Step(m, game, k)
<1>1. k - 1 \in Nat /\ (k - 1) + 1 = k OBVIOUS
<1>2. CalculateBoard(m, game, k) = ReplayStep(game, CalculateBoard(m, game, k - 1), k)
  BY <1>1, CalculateBoardIs
<1> QED BY <1>2 DEF ReplayStep, Step

LEMMA InfoApplied ==
  ASSUME NEW m, State(m), NEW r, IsInfo(r), NEW info
  PROVE  LET a == ApplyMoveRecord(m, info, r)
         IN  a.info = r /\ Started(a.ms) /\ a.ms.gs = "NONE" /\ a.ms.fResigned = 0
<1> DEFINE c == Cleared(m)  d == ApplyInfo(c, r)
<1>1. ApplyMoveRecord(m, info, r) = Same(d, r) BY DEF ApplyMoveRecord, Cleared, IsInfo
<1>2. State(c) /\ c.fResigned = 0 BY ClearedIs
<1>3. r.nAutoDoubles \in Nat /\ TwoTo[r.nAutoDoubles] \in Nat BY TwoToIs DEF IsInfo
<1>4. StartBoard \in [Player -> Nat] BY MenAssumption DEF StartBoard
<1> HIDE DEF c
<1>5. /\ d = [f \in Fields |-> d[f]] /\ d.anBoard = StartBoard /\ d.fMove = None /\ d.fTurn = None
      /\ d.fDoubled = FALSE /\ d.cBeavers = 0 /\ d.nCube = TwoTo[r.nAutoDoubles] /\ d.gs = "NONE"
      /\ d.fResigned = 0
  BY <1>2, ZenonT(40) DEF ApplyInfo, State, Fields
<1> HIDE DEF d
<1>6. d.fDoubled \in BOOLEAN BY <1>5, Zenon
<1>7. Started(d) BY <1>3, <1>4, <1>5, <1>6 DEF Started, State
<1> QED BY <1>1, <1>5, <1>7 DEF Same

(* It overwrites everything, and takes no notice of the result.              *)
LEMMA InfoSame ==
  ASSUME NEW m, NEW n, State(m), State(n), NEW x, NEW y, IsInfo(x), IsInfo(y), SameGame(x, y), NEW i, NEW j
  PROVE  ApplyMoveRecord(m, i, x).ms = ApplyMoveRecord(n, j, y).ms
<1> DEFINE c == Cleared(m)  d == Cleared(n)
<1>1. ApplyMoveRecord(m, i, x).ms = ApplyInfo(c, x) /\ ApplyMoveRecord(n, j, y).ms = ApplyInfo(d, y)
  BY DEF ApplyMoveRecord, Cleared, IsInfo, Same
<1>2. State(c) /\ State(d) /\ c.fResigned = d.fResigned /\ c.fResignationDeclined = d.fResignationDeclined
  BY DEF Cleared, State, Fields
<1> HIDE DEF c, d
<1>3. ApplyInfo(c, x) = ApplyInfo(d, y)
  <2>1. /\ x.nMatch = y.nMatch /\ x.anScore = y.anScore /\ x.i = y.i /\ x.nAutoDoubles = y.nAutoDoubles
        /\ x.fCrawfordGame = y.fCrawfordGame /\ x.fJacoby = y.fJacoby
    BY DEF SameGame, InfoFields
  <2> DEFINE a == ApplyInfo(c, x)  b == ApplyInfo(d, y)
  <2>2. /\ a = [f \in Fields |-> a[f]] /\ b = [f \in Fields |-> b[f]]
        /\ a.fResigned = c.fResigned /\ a.fResignationDeclined = c.fResignationDeclined
        /\ b.fResigned = d.fResigned /\ b.fResignationDeclined = d.fResignationDeclined
    <3>1. ASSUME NEW v, State(v), NEW z
          PROVE  LET e == ApplyInfo(v, z)
                 IN  e = [f \in Fields |-> e[f]] /\ e.fResigned = v.fResigned
                     /\ e.fResignationDeclined = v.fResignationDeclined
      BY <3>1, ZenonT(40) DEF ApplyInfo, State, Fields
    <3> QED BY <1>2, <3>1
  <2>3. /\ a.anBoard = b.anBoard /\ a.nMatchTo = b.nMatchTo /\ a.anScore = b.anScore /\ a.cGames = b.cGames
        /\ a.gs = b.gs /\ a.fMove = b.fMove /\ a.fTurn = b.fTurn /\ a.fCubeOwner = b.fCubeOwner
    BY <1>2, <2>1 DEF ApplyInfo, State, Fields
  <2>4. /\ a.dice = b.dice /\ a.cBeavers = b.cBeavers /\ a.fDoubled = b.fDoubled /\ a.nCube = b.nCube
        /\ a.fCrawford = b.fCrawford /\ a.fJacoby = b.fJacoby
    BY <1>2, <2>1 DEF ApplyInfo, State, Fields
  <2>5. a.fPostCrawford = b.fPostCrawford BY <1>2, <2>1 DEF ApplyInfo, State, Fields
  <2> HIDE DEF a, b
  <2>6. \A f \in Fields : a[f] = b[f] BY <1>2, <2>2, <2>3, <2>4, <2>5 DEF Fields
  <2>7. a = b BY <2>2, <2>6
  <2> QED BY <2>7 DEF a, b
<1> QED BY <1>1, <1>3

LEMMA StateNext ==
  ASSUME NEW m, State(m), NEW r, IsMove(r)
  PROVE  State(Applied(m, r))
<1> DEFINE c == Cleared(m)
<1>1. State(c) BY ClearedIs
<1>2. r.fPlayer \in Player /\ Not(r.fPlayer) \in Player BY DEF IsMove, Not, Player
<1>3. CASE r.mt = "SETDICE"
  BY <1>1, <1>2, <1>3, SetDiceApplied, SetDiceIs
<1>4. CASE r.mt = "DOUBLE"
  <2> DEFINE o == IF c.fMove < 0 THEN [c EXCEPT !.fMove = r.fPlayer] ELSE c
             d == ApplyDouble(c, r)
  <2>1. Applied(m, r) = d BY <1>4, DoubleApplied
  <2> HIDE DEF c
  <2>2. State(o) /\ o.fDoubled = c.fDoubled BY <1>1, <1>2 DEF State, Fields
  <2>3. d = IF c.nCube >= MAX_CUBE THEN o
            ELSE IF c.fDoubled
              THEN [o EXCEPT !.cBeavers = @ + 1, !.nCube = 2 * @, !.fCubeOwner = Not(o.fMove),
                             !.fTurn = Not(r.fPlayer)]
              ELSE [o EXCEPT !.fDoubled = TRUE, !.fTurn = Not(r.fPlayer)]
    BY DEF ApplyDouble
  <2> HIDE DEF o, d
  <2>4. CASE c.nCube >= MAX_CUBE
    <3>1. d = o BY <2>3, <2>4
    <3> QED BY <2>1, <2>2, <3>1
  <2>5. CASE ~(c.nCube >= MAX_CUBE) /\ c.fDoubled
    <3>1. d = [o EXCEPT !.cBeavers = @ + 1, !.nCube = 2 * @, !.fCubeOwner = Not(o.fMove), !.fTurn = Not(r.fPlayer)]
      BY <2>3, <2>5
    <3>2. o.cBeavers + 1 \in Nat /\ 2 * o.nCube \in Nat BY <2>2 DEF State
    <3>3. State(d) BY <1>2, <2>2, <3>1, <3>2 DEF State, Fields
    <3> QED BY <2>1, <3>3
  <2>6. CASE ~(c.nCube >= MAX_CUBE) /\ ~c.fDoubled
    <3>1. d = [o EXCEPT !.fDoubled = TRUE, !.fTurn = Not(r.fPlayer)] BY <2>3, <2>6
    <3>2. State(d) BY <1>2, <2>2, <3>1 DEF State, Fields
    <3> QED BY <2>1, <3>2
  <2> QED BY <2>4, <2>5, <2>6
<1>5. CASE r.mt = "TAKE"
  BY <1>1, <1>5, TakeApplied, TakeIs
<1>6. CASE r.mt = "DROP"
  <2>1. CASE c.fDoubled
    <3> DEFINE d == [c EXCEPT !.fDoubled = FALSE, !.cBeavers = 0]
    <3>1. Applied(m, r) = Scored(d, "DROP", Not(r.fPlayer), c.nCube) BY <1>6, <2>1, DropApplied
    <3> HIDE DEF c
    <3>2. State(d) BY <1>1 DEF State, Fields
    <3> HIDE DEF d
    <3>3. State(Applied(m, r)) BY <3>1, <3>2 DEF Scored, State, Fields
    <3> QED BY <3>3
  <2>2. CASE ~c.fDoubled
    <3>1. Applied(m, r) = c BY <1>6, <2>2, DropApplied
    <3> QED BY <1>1, <3>1
  <2> QED BY <2>1, <2>2
<1>7. CASE r.mt = "NORMAL"
  <2> DEFINE p == Played(c, r)
             status == GameStatus(p.anBoard)
  <2>1. State(p) BY <1>1, <1>2, <1>7, PlayedIs DEF IsMove
  <2>2. CASE status = 0
    <3>1. Applied(m, r) = p BY <1>7, <2>2, NormalApplied
    <3> QED BY <2>1, <3>1
  <2>3. CASE status # 0
    <3>1. Applied(m, r) = Scored(p, "OVER", r.fPlayer, Worth(c, status)) BY <1>7, <2>3, NormalApplied
    <3> HIDE DEF p, status, c
    <3>2. State(Applied(m, r)) BY <2>1, <3>1 DEF Scored, State, Fields
    <3> QED BY <3>2
  <2> QED BY <2>2, <2>3
<1>8. CASE r.mt = "RESIGN"
  <2> DEFINE d == [c EXCEPT !.fResigned = r.nResigned]
  <2>1. Applied(m, r) = Scored(d, "RESIGNED", Not(r.fPlayer), c.nCube * r.nResigned) BY <1>8, ResignApplied
  <2> HIDE DEF c
  <2>2. State(d) BY <1>1 DEF State, Fields
  <2> HIDE DEF d
  <2>3. State(Applied(m, r)) BY <2>1, <2>2 DEF Scored, State, Fields
  <2> QED BY <2>3
<1> QED BY <1>3, <1>4, <1>5, <1>6, <1>7, <1>8 DEF IsMove, Kinds

LEMMA Pair ==
  ASSUME NEW m, NEW info, NEW r, IsInfo(r) \/ IsMove(r)
  PROVE  LET a == ApplyMoveRecord(m, info, r) IN a = [ms |-> a.ms, info |-> a.info]
<1> DEFINE a == ApplyMoveRecord(m, info, r)
           c == Cleared(m)
           Is(x, y) == a = [ms |-> x, info |-> y]
<1>1. ASSUME NEW x, NEW y, Is(x, y) PROVE a = [ms |-> a.ms, info |-> a.info]
  <2>1. a = [ms |-> x, info |-> y] BY <1>1
  <2> HIDE DEF a, Is
  <2> QED BY <2>1
<1>2. CASE r.mt = "GAMEINFO"
  <2>1. a = Same(ApplyInfo(c, r), r) BY <1>2 DEF ApplyMoveRecord, Cleared
  <2>2. Is(ApplyInfo(c, r), r) BY <2>1 DEF Same
  <2> HIDE DEF Is, a
  <2> QED BY <1>1, <2>2 DEF a
<1>3. CASE r.mt = "SETDICE"
  <2>1. Is(Applied(m, r), info) BY <1>3, SetDiceApplied DEF Same
  <2> HIDE DEF Is, a
  <2> QED BY <1>1, <2>1 DEF a
<1>4. CASE r.mt = "DOUBLE"
  <2>1. Is(Applied(m, r), info) BY <1>4, DoubleApplied DEF Same
  <2> HIDE DEF Is, a
  <2> QED BY <1>1, <2>1 DEF a
<1>5. CASE r.mt = "TAKE"
  <2>1. Is(Applied(m, r), info) BY <1>5, TakeApplied DEF Same
  <2> HIDE DEF Is, a
  <2> QED BY <1>1, <2>1 DEF a
<1>6. CASE r.mt = "DROP"
  <2>1. Is(Applied(m, r), ResultNoted(info, Not(r.fPlayer), c.nCube, FALSE)) \/ Is(c, info)
    BY <1>6, DropApplied DEF Same
  <2> HIDE DEF Is, a
  <2> QED BY <1>1, <2>1 DEF a
<1>7. CASE r.mt = "NORMAL"
  <2> DEFINE p == Played(c, r)
             status == GameStatus(p.anBoard)
  <2>1. Is(Applied(m, r), ResultNoted(info, r.fPlayer, Worth(c, status), FALSE)) \/ Is(p, info)
    BY <1>7, NormalApplied DEF Same
  <2> HIDE DEF Is, a, p, status
  <2> QED BY <1>1, <2>1 DEF a
<1>8. CASE r.mt = "RESIGN"
  <2> DEFINE n == ResultNoted(info, Not(r.fPlayer), c.nCube * r.nResigned, TRUE)
  <2>1. Is(Applied(m, r), n) BY <1>8, ResignApplied
  <2> HIDE DEF Is, a, n
  <2> QED BY <1>1, <2>1 DEF a
<1> QED BY <1>2, <1>3, <1>4, <1>5, <1>6, <1>7, <1>8 DEF IsMove, IsInfo, Kinds

(* One step follows another.                                                 *)
StepIs(m, game, k) ==
  LET s == Step(m, game, k)
  IN  State(s.ms) /\ IsInfo(s.info) /\ SameGame(s.info, game[1]) /\ s = [ms |-> s.ms, info |-> s.info]

LEMMA FirstStep ==
  ASSUME NEW m, State(m), NEW game, Records(game)
  PROVE  /\ Step(m, game, 1) = ApplyMoveRecord(m, game[1], game[1])
         /\ StepIs(m, game, 1) /\ Started(Step(m, game, 1).ms) /\ Step(m, game, 1).ms.gs = "NONE"
         /\ Step(m, game, 1).ms.fResigned = 0
<1> DEFINE g == game[1]  a == ApplyMoveRecord(m, g, g)
<1>1. IsInfo(g) /\ SameGame(g, g) BY DEF Records, SameGame
<1>2. CalculateBoard(m, game, 1 - 1) = Same(m, g)
  <2>1. CalculateBoard(m, game, 0) = Same(m, game[1]) BY CalculateBoardIs
  <2> QED BY <2>1
<1>3. Step(m, game, 1) = a BY <1>2 DEF Step, Same
<1> HIDE DEF g
<1>4. a.info = g /\ Started(a.ms) /\ a.ms.gs = "NONE" /\ a.ms.fResigned = 0 BY <1>1, InfoApplied
<1>5. a = [ms |-> a.ms, info |-> a.info] BY <1>1, Pair
<1> HIDE DEF a
<1>6. StepIs(m, game, 1) BY <1>1, <1>3, <1>4, <1>5 DEF StepIs, Started, g
<1> QED BY <1>3, <1>4, <1>6 DEF a, g

LEMMA NextStep ==
  ASSUME NEW m, NEW game, Records(game), NEW k \in Nat \ {0}, k < Len(game), StepIs(m, game, k)
  PROVE  LET f == FixMatchState(Step(m, game, k).ms, game[k + 1])
         IN  /\ StepIs(m, game, k + 1) /\ State(f) /\ IsMove(game[k + 1])
             /\ Step(m, game, k + 1) = ApplyMoveRecord(f, Step(m, game, k).info, game[k + 1])
             /\ Step(m, game, k + 1).ms = Applied(f, game[k + 1])
             /\ Step(m, game, k + 1).ms.gs # "PLAYING" => Step(m, game, k + 1).info.fWinner \in Player
<1> DEFINE s == Step(m, game, k)  r == game[k + 1]  f == FixMatchState(s.ms, r)
           a == ApplyMoveRecord(f, s.info, r)
<1>1. k + 1 \in 2..Len(game) BY DEF Records
<1>2. IsMove(r) /\ r.fPlayer \in Player BY <1>1 DEF Records, IsMove
<1>3. State(s.ms) /\ IsInfo(s.info) /\ SameGame(s.info, game[1]) /\ s = [ms |-> s.ms, info |-> s.info]
  BY DEF StepIs
<1>4. State(f) BY <1>2, <1>3, FixIs
<1>5. CalculateBoard(m, game, k) = [s EXCEPT !.ms = FixMatchState(@, r)] BY Steps
<1>6. Step(m, game, k + 1) = a
  <2>1. (k + 1) - 1 = k OBVIOUS
  <2>2. CalculateBoard(m, game, k) = [ms |-> f, info |-> s.info]
    <3> HIDE DEF s, r
    <3> QED BY <1>3, <1>5
  <2> HIDE DEF s, f
  <2> QED BY <2>1, <2>2 DEF Step
<1> HIDE DEF f, r, s
<1>7. /\ a.ms = Applied(f, r) /\ IsInfo(a.info) /\ SameGame(a.info, s.info)
      /\ a.ms.gs # "PLAYING" => a.info.fWinner \in Player
  BY <1>2, <1>3, <1>4, Apart
<1>8. a = [ms |-> a.ms, info |-> a.info] BY <1>2, Pair
<1>9. State(Applied(f, r)) BY <1>2, <1>4, StateNext
<1> HIDE DEF a
<1>10. SameGame(a.info, game[1]) BY <1>3, <1>7 DEF SameGame
<1>11. StepIs(m, game, k + 1) BY <1>6, <1>7, <1>8, <1>9, <1>10 DEF StepIs
<1> QED BY <1>2, <1>4, <1>6, <1>7, <1>11 DEF a, f, r, s

LEMMA EachStep ==
  ASSUME NEW m, State(m), NEW game, Records(game), NEW k \in 1..Len(game)
  PROVE  StepIs(m, game, k)
<1> DEFINE Bad == {j \in Nat : j \in 1..Len(game) /\ ~StepIs(m, game, j)}
<1> SUFFICES ASSUME Bad # {} PROVE FALSE BY DEF Records
<1>1. PICK j \in Bad : \A i \in Bad : j <= i
  <2> HIDE DEF Bad
  <2>1. Bad \in SUBSET Nat BY DEF Bad
  <2> QED BY <2>1, LeastNumber
<1>2. j \in Nat /\ j \in 1..Len(game) /\ ~StepIs(m, game, j) OBVIOUS
<1>3. j # 1 BY <1>2, FirstStep
<1>4. j - 1 \in Nat \ {0} /\ j - 1 \in 1..Len(game) /\ j - 1 < Len(game) /\ (j - 1) + 1 = j
  BY <1>2, <1>3 DEF Records
<1>5. StepIs(m, game, j - 1)
  <2>1. j - 1 \notin Bad
    <3> HIDE DEF Bad
    <3> QED BY <1>1, <1>2, <1>4
  <2> QED BY <1>4, <2>1
<1> HIDE DEF Bad
<1>6. StepIs(m, game, (j - 1) + 1) BY <1>4, <1>5, NextStep
<1> QED BY <1>2, <1>4, <1>6

(* It does not matter from which state the records of a game are applied,    *)
(* what its result is, or which records follow.                              *)
LEMMA StepSame ==
  ASSUME NEW m, NEW n, State(m), State(n), NEW G, NEW H, Records(G), Records(H), SameGame(G[1], H[1]),
         NEW k \in Nat, k \in 1..Len(G), k \in 1..Len(H), \A j \in 2..k : G[j] = H[j]
  PROVE  Step(m, G, k).ms = Step(n, H, k).ms
<1> DEFINE Eq(j) == Step(m, G, j).ms = Step(n, H, j).ms
           Bad == {j \in Nat : j \in 1..k /\ ~Eq(j)}
<1> SUFFICES ASSUME Bad # {} PROVE FALSE OBVIOUS
<1>1. PICK j \in Bad : \A i \in Bad : j <= i
  <2> HIDE DEF Bad
  <2>1. Bad \in SUBSET Nat BY DEF Bad
  <2> QED BY <2>1, LeastNumber
<1>2. j \in Nat /\ j \in 1..k /\ ~Eq(j) OBVIOUS
<1>3. j # 1
  <2>1. Step(m, G, 1) = ApplyMoveRecord(m, G[1], G[1]) /\ Step(n, H, 1) = ApplyMoveRecord(n, H[1], H[1])
    BY FirstStep
  <2>2. IsInfo(G[1]) /\ IsInfo(H[1]) BY DEF Records
  <2>3. ApplyMoveRecord(m, G[1], G[1]).ms = ApplyMoveRecord(n, H[1], H[1]).ms BY <2>2, InfoSame
  <2> QED BY <1>2, <2>1, <2>3
<1>4. /\ j - 1 \in Nat \ {0} /\ j - 1 \in 1..k /\ j - 1 < Len(G) /\ j - 1 < Len(H) /\ (j - 1) + 1 = j
      /\ j - 1 \in 1..Len(G) /\ j - 1 \in 1..Len(H)
  BY <1>2, <1>3 DEF Records
<1>5. Eq(j - 1)
  <2>1. j - 1 \notin Bad
    <3> HIDE DEF Bad
    <3> QED BY <1>1, <1>2, <1>4
  <2> HIDE DEF Eq
  <2> QED BY <1>4, <2>1
<1> HIDE DEF Bad
<1>6. StepIs(m, G, j - 1) /\ StepIs(n, H, j - 1) BY <1>4, EachStep
<1>7. Step(m, G, j).ms = Applied(FixMatchState(Step(m, G, j - 1).ms, G[j]), G[j])
  <2>1. Step(m, G, (j - 1) + 1).ms = Applied(FixMatchState(Step(m, G, j - 1).ms, G[(j - 1) + 1]), G[(j - 1) + 1])
    BY <1>4, <1>6, NextStep
  <2> QED BY <1>4, <2>1
<1>8. Step(n, H, j).ms = Applied(FixMatchState(Step(n, H, j - 1).ms, H[j]), H[j])
  <2>1. Step(n, H, (j - 1) + 1).ms = Applied(FixMatchState(Step(n, H, j - 1).ms, H[(j - 1) + 1]), H[(j - 1) + 1])
    BY <1>4, <1>6, NextStep
  <2> QED BY <1>4, <2>1
<1>9. G[j] = H[j] BY <1>2, <1>3
<1> QED BY <1>2, <1>5, <1>7, <1>8, <1>9

-----------------------------------------------------------------------------
(* Lists of anything.                                                        *)
Listed(l) == l \in Seq({l[k] : k \in DOMAIN l})

LEMMA ListedIs ==
  ASSUME NEW l
  PROVE  Listed(l) <=> Len(l) \in Nat /\ l = [k \in 1..Len(l) |-> l[k]]
<1>1. ASSUME Listed(l) PROVE Len(l) \in Nat /\ l = [k \in 1..Len(l) |-> l[k]]
  <2> DEFINE S == {l[k] : k \in DOMAIN l}
  <2>1. l \in Seq(S) BY <1>1 DEF Listed
  <2> HIDE DEF S
  <2> QED BY <2>1
<1>2. ASSUME Len(l) \in Nat, l = [k \in 1..Len(l) |-> l[k]] PROVE Listed(l)
  <2> DEFINE n == Len(l)  S == {l[k] : k \in DOMAIN l}
  <2>1. n \in Nat /\ l = [k \in 1..n |-> l[k]] BY <1>2
  <2> HIDE DEF n
  <2>2. DOMAIN l = 1..n BY <2>1
  <2>3. \A k \in 1..n : l[k] \in S BY <2>2
  <2> HIDE DEF S
  <2>4. l \in [1..n -> S] BY <2>1, <2>3
  <2>5. l \in Seq(S) BY <2>1, <2>4
  <2> QED BY <2>5 DEF Listed, S
<1> QED BY <1>1, <1>2

LEMMA ListedAppend ==
  ASSUME NEW l, Listed(l), NEW x
  PROVE  LET a == Append(l, x)
         IN  /\ Listed(a) /\ Len(a) = Len(l) + 1 /\ a[Len(l) + 1] = x
             /\ \A k \in 1..Len(l) : a[k] = l[k]
<1> DEFINE S == {l[k] : k \in DOMAIN l} \cup {x}  a == Append(l, x)
<1>1. l \in Seq(S)
  <2> DEFINE T == {l[k] : k \in DOMAIN l}
  <2>1. l \in Seq(T) /\ T \subseteq S BY DEF Listed
  <2> HIDE DEF T, S
  <2> QED BY <2>1
<1>2. x \in S OBVIOUS
<1> HIDE DEF S
<1>3. /\ a \in Seq(S) /\ Len(a) = Len(l) + 1 /\ a[Len(l) + 1] = x
      /\ \A k \in 1..Len(l) : a[k] = l[k]
  BY <1>1, <1>2
<1> HIDE DEF a
<1>4. Listed(a) BY <1>3, ListedIs
<1> QED BY <1>3, <1>4 DEF a

LEMMA ListedCut ==
  ASSUME NEW l, Listed(l), NEW n \in 0..Len(l)
  PROVE  LET a == SubSeq(l, 1, n)
         IN  Listed(a) /\ Len(a) = n /\ \A k \in 1..n : a[k] = l[k]
<1> DEFINE S == {l[k] : k \in DOMAIN l}  a == SubSeq(l, 1, n)
<1>1. l \in Seq(S) BY DEF Listed
<1> HIDE DEF S
<1>2. a \in Seq(S) /\ Len(a) = n /\ \A k \in 1..n : a[k] = l[k] BY <1>1
<1> HIDE DEF a
<1>3. Listed(a) BY <1>2, ListedIs
<1> QED BY <1>2, <1>3 DEF a

LEMMA ListedPut ==
  ASSUME NEW l, Listed(l), NEW i \in 1..Len(l), NEW x
  PROVE  LET a == [l EXCEPT ![i] = x]
         IN  /\ Listed(a) /\ Len(a) = Len(l) /\ a[i] = x
             /\ \A k \in 1..Len(l) : k # i => a[k] = l[k]
<1> DEFINE S == {l[k] : k \in DOMAIN l} \cup {x}  a == [l EXCEPT ![i] = x]
<1>1. l \in Seq(S)
  <2> DEFINE T == {l[k] : k \in DOMAIN l}
  <2>1. l \in Seq(T) /\ T \subseteq S BY DEF Listed
  <2> HIDE DEF T, S
  <2> QED BY <2>1
<1>2. x \in S OBVIOUS
<1> HIDE DEF S
<1>3. /\ a \in Seq(S) /\ Len(a) = Len(l) /\ a[i] = x
      /\ \A k \in 1..Len(l) : k # i => a[k] = l[k]
  BY <1>1, <1>2
<1> HIDE DEF a
<1>4. Listed(a) BY <1>3, ListedIs
<1> QED BY <1>3, <1>4 DEF a

LEMMA ListedOne ==
  ASSUME NEW x
  PROVE  Listed(<<x>>) /\ Len(<<x>>) = 1 /\ <<x>>[1] = x /\ Listed(<<>>) /\ Len(<<>>) = 0
<1>1. <<x>> \in Seq({x}) /\ Len(<<x>>) = 1 /\ <<x>>[1] = x /\ <<>> \in Seq({x}) /\ Len(<<>>) = 0 OBVIOUS
<1>2. Listed(<<x>>) BY <1>1, ListedIs
<1>3. Listed(<<>>)
  <2>1. \A S : <<>> \in Seq(S) OBVIOUS
  <2> QED BY <2>1 DEF Listed
<1> QED BY <1>1, <1>2, <1>3

-----------------------------------------------------------------------------
(* The state that the first k records of a game lead to.                     *)
Replayed(game, k) == Step(Blank, game, k).ms

LEMMA BlankIs == State(Blank)
<1>1. StartBoard \in [Player -> Nat] BY MenAssumption DEF StartBoard
<1>2. Blank.fDoubled \in BOOLEAN
  <2>1. Blank.fDoubled = FALSE BY DEF Blank, Fields
  <2> QED BY <2>1, Zenon
<1> QED BY <1>1, <1>2 DEF Blank, State, Fields

LEMMA ReplayedFirst ==
  ASSUME NEW game, Records(game)
  PROVE  Started(Replayed(game, 1)) /\ Replayed(game, 1).gs = "NONE" /\ Replayed(game, 1).fResigned = 0
BY BlankIs, FirstStep DEF Replayed

LEMMA ReplayedNext ==
  ASSUME NEW game, Records(game), NEW k \in Nat \ {0}, k < Len(game)
  PROVE  /\ State(Replayed(game, k)) /\ IsMove(game[k + 1])
         /\ Replayed(game, k + 1) = Applied(FixMatchState(Replayed(game, k), game[k + 1]), game[k + 1])
<1>1. k \in 1..Len(game) BY DEF Records
<1>2. StepIs(Blank, game, k) BY <1>1, BlankIs, EachStep
<1>3. State(Replayed(game, k)) BY <1>2 DEF StepIs, Replayed
<1> QED BY <1>2, <1>3, NextStep DEF Replayed

(* What CalculateBoard gives.                                                *)
LEMMA Calculated ==
  ASSUME NEW m, State(m), NEW game, Records(game), NEW k \in 1..Len(game)
  PROVE  LET a == CalculateBoard(m, game, k)
         IN  /\ a.ms = IF k < Len(game) THEN FixMatchState(Replayed(game, k), game[k + 1])
                       ELSE Replayed(game, k)
             /\ IsInfo(a.info) /\ SameGame(a.info, game[1]) /\ State(Replayed(game, k)) /\ State(a.ms)
<1> DEFINE s == Step(m, game, k)  a == CalculateBoard(m, game, k)
<1>1. k \in Nat \ {0} BY DEF Records
<1>2. StepIs(m, game, k) /\ StepIs(Blank, game, k) BY BlankIs, EachStep
<1>3. /\ State(s.ms) /\ IsInfo(s.info) /\ SameGame(s.info, game[1]) /\ s = [ms |-> s.ms, info |-> s.info]
      /\ State(Replayed(game, k))
  BY <1>2 DEF StepIs, Replayed
<1>4. SameGame(game[1], game[1]) BY DEF SameGame
<1>5. s.ms = Replayed(game, k)
  <2>1. k \in Nat BY <1>1
  <2> QED BY <1>4, <2>1, BlankIs, StepSame DEF Replayed
<1>6. a = IF k < Len(game) THEN [s EXCEPT !.ms = FixMatchState(@, game[k + 1])] ELSE s
  BY <1>1, Steps
<1> HIDE DEF a, s
<1>7. CASE k < Len(game)
  <2>1. k + 1 \in 2..Len(game) BY <1>1, <1>7 DEF Records
  <2>2. game[k + 1].fPlayer \in Player BY <2>1 DEF Records, IsMove
  <2>3. State(FixMatchState(Replayed(game, k), game[k + 1])) BY <1>3, <2>2, FixIs
  <2>4. a.ms = FixMatchState(Replayed(game, k), game[k + 1]) /\ a.info = s.info BY <1>3, <1>5, <1>6, <1>7
  <2> QED BY <1>3, <1>7, <2>3, <2>4 DEF a
<1>8. CASE ~(k < Len(game))
  BY <1>3, <1>5, <1>6, <1>8 DEF a
<1> QED BY <1>7, <1>8

(* A game, of which all records but the first could be played; it may be no  *)
(* more than begun.                                                          *)
Begun(game) ==
  /\ Listed(game) /\ Len(game) >= 1 /\ Records(game)
  /\ Len(game) >= 2 => Opener(game[2])
  /\ \A k \in 3..Len(game) : Legal(Replayed(game, k - 1), game[k])
  /\ \A k \in 2..Len(game) : Sound(Replayed(game, k))
GoodGame(game) == Begun(game) /\ Len(game) >= 2

LEMMA SameRecords ==
  ASSUME NEW G, Begun(G), NEW H, Listed(H), IsInfo(H[1]), SameGame(G[1], H[1]),
         Len(H) >= 1, Len(H) <= Len(G), \A j \in 2..Len(H) : H[j] = G[j]
  PROVE  Begun(H) /\ \A k \in 1..Len(H) : Replayed(H, k) = Replayed(G, k)
<1>1. Len(H) \in Nat BY ListedIs
<1>2. Len(G) \in Nat /\ Records(G) BY DEF Begun, Records
<1>3. Records(H) BY <1>1, <1>2 DEF Records
<1>4. ASSUME NEW k \in 1..Len(H) PROVE Replayed(H, k) = Replayed(G, k)
  <2>1. k \in Nat /\ k \in 1..Len(G) /\ \A j \in 2..k : G[j] = H[j] BY <1>1, <1>2
  <2>2. Step(Blank, G, k).ms = Step(Blank, H, k).ms BY <1>2, <1>3, <2>1, BlankIs, StepSame
  <2> QED BY <2>2 DEF Replayed
<1>5. ASSUME NEW k \in 3..Len(H) PROVE Legal(Replayed(H, k - 1), H[k])
  <2>1. k \in 3..Len(G) /\ k - 1 \in 1..Len(H) /\ k \in 2..Len(H) BY <1>1, <1>2
  <2>2. Legal(Replayed(G, k - 1), G[k]) BY <2>1 DEF Begun
  <2> QED BY <1>4, <2>1, <2>2
<1>6. ASSUME NEW k \in 2..Len(H) PROVE Sound(Replayed(H, k))
  <2>1. k \in 2..Len(G) /\ k \in 1..Len(H) BY <1>1, <1>2
  <2> QED BY <1>4, <2>1 DEF Begun
<1>7. Len(H) >= 2 => Opener(H[2])
  <2> SUFFICES ASSUME Len(H) >= 2 PROVE Opener(H[2]) OBVIOUS
  <2>1. 2 \in 2..Len(H) /\ Len(G) >= 2 BY <1>1, <1>2
  <2> QED BY <2>1 DEF Begun
<1> QED BY <1>3, <1>4, <1>5, <1>6, <1>7 DEF Begun

LEMMA Longer ==
  ASSUME NEW G, Begun(G), NEW r, IsMove(r), Len(G) = 1 => Opener(r),
         Len(G) >= 2 => Legal(Replayed(G, Len(G)), r)
  PROVE  LET H == Append(G, r)
         IN  /\ GoodGame(H) /\ Len(H) = Len(G) + 1 /\ H[Len(G) + 1] = r
             /\ \A k \in 1..Len(G) : H[k] = G[k] /\ Replayed(H, k) = Replayed(G, k)
             /\ Replayed(H, Len(G) + 1) = Applied(FixMatchState(Replayed(G, Len(G)), r), r)
<1> DEFINE H == Append(G, r)  n == Len(G)
<1>1. n \in Nat /\ n >= 1 /\ Records(G) /\ Listed(G) BY DEF Begun, Records
<1>0. n # 1 => n >= 2 /\ n \in 2..n /\ 2 \in 1..n
  <2> HIDE DEF n
  <2> QED BY <1>1
<1>2. Listed(H) /\ Len(H) = n + 1 /\ H[n + 1] = r /\ \A k \in 1..n : H[k] = G[k]
  BY <1>1, ListedAppend
<1> HIDE DEF H
<1>3. IsInfo(H[1]) /\ SameGame(G[1], H[1]) /\ SameGame(H[1], G[1])
  <2>1. H[1] = G[1] BY <1>1, <1>2
  <2> QED BY <1>1, <2>1 DEF Records, SameGame
<1>4. Records(H)
  <2>1. ASSUME NEW k \in 2..Len(H) PROVE IsMove(H[k])
    <3>1. CASE k = n + 1 BY <1>2, <3>1
    <3>2. CASE k # n + 1
      <4>1. k \in 2..n /\ k \in 1..n BY <1>1, <1>2, <3>2
      <4> QED BY <1>1, <1>2, <4>1 DEF Records
    <3> QED BY <3>1, <3>2
  <2> QED BY <1>1, <1>2, <1>3, <2>1 DEF Records
<1>5. ASSUME NEW k \in 1..n PROVE Replayed(H, k) = Replayed(G, k)
  <2>1. k \in Nat /\ k \in 1..Len(H) /\ \A j \in 2..k : G[j] = H[j] BY <1>1, <1>2
  <2>2. Step(Blank, G, k).ms = Step(Blank, H, k).ms BY <1>1, <1>3, <1>4, <2>1, BlankIs, StepSame
  <2> QED BY <2>2 DEF Replayed
<1>6. Replayed(H, n + 1) = Applied(FixMatchState(Replayed(G, n), r), r)
  <2>1. n < Len(H) /\ n \in 1..n BY <1>1, <1>2
  <2>2. Replayed(H, n + 1) = Applied(FixMatchState(Replayed(H, n), H[n + 1]), H[n + 1])
    <3>1. n \in Nat \ {0} BY <1>1
    <3> QED BY <1>4, <2>1, <3>1, ReplayedNext
  <2>3. Replayed(H, n) = Replayed(G, n) BY <1>5, <2>1
  <2> QED BY <1>2, <2>2, <2>3
<1>7. Sound(Replayed(H, n + 1))
  <2> DEFINE m == Replayed(G, n)
  <2>1. CASE n = 1
    <3>1. Started(m) BY <1>1, <2>1, ReplayedFirst
    <3>2. r.fPlayer \in Player BY DEF IsMove
    <3>3. Started(FixMatchState(m, r)) BY <3>1, <3>2, FixStarted
    <3> QED BY <1>6, <2>1, <3>3, Opened
  <2>2. CASE n # 1
    <3>1. n >= 2 /\ n \in 2..n BY <1>0, <2>2
    <3>2. Sound(m) /\ Legal(m, r) BY <3>1 DEF Begun
    <3>3. State(m) /\ m.gs = "PLAYING" /\ OnTurn(m) BY <3>2 DEF Sound, Legal
    <3>4. FixMatchState(m, r) = m BY <3>2, FixSame
    <3> QED BY <1>6, <3>2, <3>3, <3>4, SoundNext
  <2> QED BY <2>1, <2>2
<1>8. ASSUME NEW k \in 2..Len(H) PROVE Sound(Replayed(H, k))
  <2>1. CASE k = n + 1 BY <1>7, <2>1
  <2>2. CASE k # n + 1
    <3>1. k \in 2..n /\ k \in 1..n BY <1>1, <1>2, <2>2
    <3> QED BY <1>5, <3>1 DEF Begun
  <2> QED BY <2>1, <2>2
<1>9. ASSUME NEW k \in 3..Len(H) PROVE Legal(Replayed(H, k - 1), H[k])
  <2>1. k - 1 \in 1..n /\ k \in Nat BY <1>1, <1>2
  <2>2. Replayed(H, k - 1) = Replayed(G, k - 1) BY <1>5, <2>1
  <2>3. CASE k = n + 1
    <3>1. n >= 2 /\ k - 1 = n BY <1>1, <2>3
    <3> QED BY <1>2, <2>2, <2>3, <3>1
  <2>4. CASE k # n + 1
    <3>1. k \in 3..n /\ k \in 1..n BY <1>1, <1>2, <2>4
    <3> QED BY <1>2, <2>2, <3>1 DEF Begun
  <2> QED BY <2>3, <2>4
<1>10. Opener(H[2])
  <2>1. CASE n = 1 BY <1>2, <2>1
  <2>2. CASE n # 1
    <3>1. n >= 2 /\ 2 \in 1..n BY <1>0, <2>2
    <3> QED BY <1>2, <3>1 DEF Begun
  <2> QED BY <2>1, <2>2
<1>11. Len(H) >= 2 BY <1>1, <1>2
<1>12. GoodGame(H) BY <1>2, <1>4, <1>8, <1>9, <1>10, <1>11 DEF GoodGame, Begun
<1> QED BY <1>2, <1>5, <1>6, <1>12 DEF H

LEMMA Shorter ==
  ASSUME NEW G, Begun(G), NEW n \in 1..Len(G)
  PROVE  LET H == SubSeq(G, 1, n)
         IN  /\ Begun(H) /\ Len(H) = n
             /\ \A k \in 1..n : H[k] = G[k] /\ Replayed(H, k) = Replayed(G, k)
<1> DEFINE H == SubSeq(G, 1, n)
<1>1. Len(G) \in Nat /\ Listed(G) /\ IsInfo(G[1]) BY DEF Begun, Records
<1>2. Listed(H) /\ Len(H) = n /\ \A k \in 1..n : H[k] = G[k]
  <2>1. n \in 0..Len(G) BY <1>1
  <2> QED BY <1>1, <2>1, ListedCut
<1> HIDE DEF H
<1>3. n \in Nat /\ n >= 1 /\ n <= Len(G) /\ H[1] = G[1] BY <1>1, <1>2
<1>4. IsInfo(H[1]) /\ SameGame(G[1], H[1]) BY <1>1, <1>3 DEF SameGame
<1>5. \A j \in 2..Len(H) : H[j] = G[j] BY <1>2, <1>3
<1>6. Begun(H) /\ \A k \in 1..Len(H) : Replayed(H, k) = Replayed(G, k)
  BY <1>2, <1>3, <1>4, <1>5, SameRecords
<1> QED BY <1>2, <1>6 DEF H

LEMMA Relabelled ==
  ASSUME NEW G, Begun(G), NEW i, IsInfo(i), SameGame(i, G[1])
  PROVE  LET H == [G EXCEPT ![1] = i]
         IN  /\ Begun(H) /\ Len(H) = Len(G) /\ H[1] = i
             /\ \A k \in 2..Len(G) : H[k] = G[k]
             /\ \A k \in 1..Len(G) : Replayed(H, k) = Replayed(G, k)
<1> DEFINE H == [G EXCEPT ![1] = i]
<1>1. Len(G) \in Nat /\ Listed(G) /\ 1 \in 1..Len(G) BY DEF Begun, Records
<1>2. Listed(H) /\ Len(H) = Len(G) /\ H[1] = i /\ \A k \in 1..Len(G) : k # 1 => H[k] = G[k]
  BY <1>1, ListedPut
<1> HIDE DEF H
<1>3. IsInfo(H[1]) /\ SameGame(G[1], H[1]) BY <1>2 DEF SameGame
<1>4. \A j \in 2..Len(H) : H[j] = G[j] BY <1>1, <1>2
<1>5. Len(H) >= 1 /\ Len(H) <= Len(G) BY <1>1, <1>2
<1>6. Begun(H) /\ \A k \in 1..Len(H) : Replayed(H, k) = Replayed(G, k)
  BY <1>2, <1>3, <1>4, <1>5, SameRecords
<1> QED BY <1>2, <1>4, <1>6 DEF H

-----------------------------------------------------------------------------
(* The match state and the records that led to it.  While a resignation is   *)
(* offered it is the other player's turn.                                    *)
Unresigned(m) == m.gs = "PLAYING" => m.fResigned = 0
Un(m) == IF m.gs = "PLAYING" /\ m.fResigned # 0 THEN [m EXCEPT !.fTurn = Not(@)] ELSE m
Near(m, game, k) ==
  /\ State(m)
  /\ IF k > 1 THEN Alike(Un(m), Replayed(game, k)) ELSE Started(m) /\ SameScore(m, Replayed(game, 1))

LEMMA UnIs ==
  ASSUME NEW m, State(m)
  PROVE  /\ State(Un(m)) /\ \A f \in Fields \ {"fTurn"} : Un(m)[f] = m[f]
         /\ Unresigned(m) => Un(m) = m
<1>1. CASE m.gs = "PLAYING" /\ m.fResigned # 0
  <2>1. Un(m) = [m EXCEPT !.fTurn = Not(@)] BY <1>1 DEF Un
  <2>2. Not(m.fTurn) \in Player BY DEF Not, Player
  <2> QED BY <1>1, <2>1, <2>2 DEF State, Fields, Unresigned
<1>2. CASE ~(m.gs = "PLAYING" /\ m.fResigned # 0)
  <2>1. Un(m) = m BY <1>2 DEF Un
  <2> QED BY <2>1
<1> QED BY <1>1, <1>2

LEMMA SoundAlike ==
  ASSUME NEW m, NEW n, State(m), Unresigned(m), Alike(m, n), Sound(n)
  PROVE  Sound(m)
<1>1. m.gs \in {"PLAYING", "OVER", "DROP", "RESIGNED"} BY DEF Alike, Sound
<1>2. m.gs = "PLAYING" => m.fResigned = 0 /\ OnTurn(m) BY DEF Alike, Sound, OnTurn, Unresigned
<1>3. m.gs = "OVER" => GameStatus(m.anBoard) # 0
  <2> SUFFICES ASSUME m.gs = "OVER" PROVE GameStatus(m.anBoard) # 0 OBVIOUS
  <2>1. n.gs = "OVER" /\ m.anBoard = n.anBoard BY DEF Alike
  <2> QED BY <2>1 DEF Sound
<1> QED BY <1>1, <1>2, <1>3 DEF Sound

LEMMA AlikeTrans ==
  ASSUME NEW m, NEW n, NEW o, Alike(m, n), Alike(n, o)
  PROVE  Alike(m, o) /\ Alike(n, m)
BY DEF Alike

(* A record is added to a game of which it is the next.                      *)
LEMMA NextRecord ==
  ASSUME NEW G, Begun(G), NEW m, Near(m, G, Len(G)), NEW r, IsMove(r),
         Len(G) = 1 => Opener(r), Len(G) >= 2 => Legal(Un(m), r), r.mt # "RESIGN" => Unresigned(m)
  PROVE  LET H == Append(G, r)  a == Applied(FixMatchState(m, r), r)
         IN  /\ GoodGame(H) /\ Len(H) = Len(G) + 1 /\ Near(a, H, Len(H)) /\ Sound(a)
             /\ State(FixMatchState(m, r)) /\ H[1] = G[1]
<1> DEFINE H == Append(G, r)  n == Len(G)  a == Applied(FixMatchState(m, r), r)
           p == Replayed(G, n)  b == Applied(FixMatchState(p, r), r)
<1>1. n \in Nat /\ n >= 1 /\ Records(G) /\ State(m) BY DEF Begun, Records, Near
<1>0. n # 1 => n >= 2 /\ n \in 2..n
  <2> HIDE DEF n
  <2> QED BY <1>1
<1>2. r.fPlayer \in Player BY DEF IsMove
<1>3. n >= 2 => Alike(Un(m), p) /\ Legal(p, r) /\ Sound(p) /\ State(p)
  <2> SUFFICES ASSUME n >= 2 PROVE Alike(Un(m), p) /\ Legal(p, r) /\ Sound(p) /\ State(p) OBVIOUS
  <2>1. n > 1 /\ n \in 2..n BY <1>1
  <2>2. Alike(Un(m), p) BY <2>1 DEF Near
  <2>3. Sound(p) BY <2>1 DEF Begun
  <2> HIDE DEF p
  <2>4. Legal(p, r) BY <2>2, LegalAlike
  <2> QED BY <2>2, <2>3, <2>4 DEF Sound
<1>4. /\ GoodGame(H) /\ Len(H) = n + 1 /\ Replayed(H, n + 1) = b
      /\ H[1] = G[1]
  <2>1. 1 \in 1..n BY <1>1
  <2> QED BY <1>3, <2>1, Longer
<1>5. Alike(a, b) /\ Sound(a)
  <2>1. CASE n = 1
    <3>1. Started(m) /\ SameScore(m, p) /\ Started(p) BY <1>1, <2>1, ReplayedFirst DEF Near
    <3> HIDE DEF p
    <3> DEFINE fm == FixMatchState(m, r)  fp == FixMatchState(p, r)
    <3>2. Started(fm) /\ SameScore(fm, m) /\ Started(fp) /\ SameScore(fp, p) BY <1>2, <3>1, FixStarted
    <3>3. SameScore(fm, fp) BY <3>1, <3>2 DEF SameScore
    <3> HIDE DEF fm, fp
    <3>4. Opener(r) BY <2>1
    <3>5. Alike(Applied(fm, r), Applied(fp, r)) /\ Sound(Applied(fm, r)) BY <3>2, <3>3, <3>4, OpenedAlike, Opened
    <3> QED BY <3>5 DEF fm, fp
  <2>2. CASE n # 1
    <3>1. n >= 2 BY <1>0, <2>2
    <3>2. Alike(Un(m), p) /\ Legal(p, r) /\ Legal(Un(m), r) /\ Sound(p) /\ State(p) BY <1>3, <3>1
    <3> HIDE DEF p
    <3>3. FixMatchState(p, r) = p BY <3>2, FixSame
    <3>4. /\ State(Un(m)) /\ \A f \in Fields \ {"fTurn"} : Un(m)[f] = m[f]
          /\ Unresigned(m) => Un(m) = m
      BY <1>1, UnIs
    <3>5. Un(m).gs = "PLAYING" /\ p.gs = "PLAYING" BY <3>2 DEF Legal
    <3>6. Un(m).fMove \in Player /\ p.fMove \in Player BY <3>2, <3>5 DEF Sound, OnTurn, Alike
    <3>7. Alike(Applied(Un(m), r), b) BY <3>2, <3>3, <3>4, <3>5, <3>6, AlikeNext
    <3>8. CASE r.mt # "RESIGN"
      <4>1. Un(m) = m /\ Unresigned(m) BY <3>4, <3>8
      <4>2. FixMatchState(m, r) = m BY <3>2, <4>1, FixSame
      <4>3. Sound(m) BY <1>1, <3>2, <4>1, SoundAlike
      <4>4. m.gs = "PLAYING" /\ OnTurn(m) /\ Legal(m, r) BY <3>2, <3>5, <4>1, <4>3 DEF Sound
      <4>5. Sound(Applied(m, r)) BY <1>1, <4>4, SoundNext
      <4> QED BY <3>7, <4>1, <4>2, <4>5
    <3>9. CASE r.mt = "RESIGN"
      <4>1. FixMatchState(m, r) = m BY <3>9 DEF FixMatchState
      <4>2. SameScore(m, Un(m)) /\ m.fDoubled = Un(m).fDoubled /\ m.cBeavers = Un(m).cBeavers
        BY <3>4 DEF SameScore, Fields
      <4>3. Alike(Applied(m, r), Applied(Un(m), r)) /\ State(Applied(m, r)) /\ Applied(m, r).gs = "RESIGNED"
        BY <1>1, <3>4, <3>9, <4>2, ResignAlike
      <4>4. Alike(a, b) BY <3>7, <4>1, <4>3, AlikeTrans
      <4>5. Sound(a) BY <4>1, <4>3 DEF Sound
      <4> QED BY <4>4, <4>5
    <3> QED BY <3>8, <3>9
  <2> QED BY <2>1, <2>2
<1>6. State(FixMatchState(m, r)) BY <1>1, <1>2, FixIs
<1> HIDE DEF a, b, p, H
<1>7. State(a) /\ Unresigned(a) BY <1>5 DEF Sound, Unresigned
<1>8. Un(a) = a BY <1>7, UnIs
<1>9. n + 1 > 1 BY <1>1
<1>10. Near(a, H, Len(H)) BY <1>4, <1>5, <1>7, <1>8, <1>9 DEF Near
<1> QED BY <1>4, <1>5, <1>6, <1>10 DEF H, a

LEMMA DiceStarted ==
  ASSUME NEW m, Started(m), NEW r, r.mt = "SETDICE", r.fPlayer \in Player
  PROVE  Started(Applied(m, r)) /\ SameScore(Applied(m, r), m) /\ Applied(m, r).gs = "PLAYING"
<1> DEFINE a == Applied(m, r)
           c == Cleared(m)
<1>1. /\ State(c) /\ c.gs = "PLAYING" /\ \A f \in Fields \ {"gs", "fResigned", "fResignationDeclined"} : c[f] = m[f]
  BY ClearedIs DEF Started
<1>2. a = ApplySetDice(c, r) BY SetDiceApplied
<1> HIDE DEF a, c
<1>3. c.anBoard = StartBoard /\ c.cBeavers = 0 BY <1>1 DEF Started, Fields
<1>4. SwapSides(c).anBoard = StartBoard BY <1>1, <1>3, SwapIs, StartTurned
<1>5. /\ State(a) /\ ~a.fDoubled
      /\ \A f \in Fields \ {"anBoard", "fMove", "fTurn", "fDoubled", "dice"} : a[f] = c[f]
      /\ a.anBoard = StartBoard
  BY <1>1, <1>2, <1>3, <1>4, SetDiceIs
<1> QED BY <1>1, <1>3, <1>5 DEF Started, SameScore, Fields, a

(* A roll may be taken back.                                                 *)
LEMMA Elided ==
  ASSUME NEW G, Begun(G), Len(G) >= 2, G[Len(G)].mt = "SETDICE", NEW m, Near(m, G, Len(G)), Unresigned(m)
  PROVE  LET H == SubSeq(G, 1, Len(G) - 1)
         IN  Begun(H) /\ Len(H) = Len(G) - 1 /\ Near(m, H, Len(H)) /\ H[1] = G[1]
<1> DEFINE n == Len(G)  H == SubSeq(G, 1, n - 1)  r == G[n]  p == Replayed(G, n - 1)
<1>1. n \in Nat /\ n >= 2 /\ Records(G) /\ State(m) BY DEF Begun, Records, Near
<1>2. /\ n - 1 \in 1..n /\ n \in 2..n /\ n > 1 /\ n - 1 \in Nat \ {0} /\ n - 1 < n /\ (n - 1) + 1 = n
      /\ n - 1 # 1 => n \in 3..n /\ n - 1 \in 2..n /\ n - 1 > 1
      /\ n - 1 = 1 => ~(n - 1 > 1)
  <2> HIDE DEF n
  <2> QED BY <1>1
<1>3. Begun(H) /\ Len(H) = n - 1 /\ \A k \in 1..(n - 1) : H[k] = G[k] /\ Replayed(H, k) = Replayed(G, k)
  BY <1>2, Shorter
<1> HIDE DEF H
<1>4. 1 \in 1..(n - 1) /\ n - 1 \in 1..(n - 1)
  <2> HIDE DEF n
  <2> QED BY <1>1
<1>5. H[1] = G[1] /\ Replayed(H, n - 1) = p /\ Replayed(H, 1) = Replayed(G, 1) BY <1>3, <1>4
<1>6. r.mt = "SETDICE" /\ IsMove(r) /\ r.fPlayer \in Player BY <1>1, <1>2 DEF Records, IsMove
<1>7. FixMatchState(p, r) = p BY <1>6 DEF FixMatchState
<1>8. Replayed(G, n) = Applied(p, r)
  <2>1. Replayed(G, (n - 1) + 1) = Applied(FixMatchState(p, G[(n - 1) + 1]), G[(n - 1) + 1])
    BY <1>1, <1>2, ReplayedNext
  <2> QED BY <1>2, <1>7, <2>1
<1>9. Alike(m, Applied(p, r))
  <2>1. Alike(Un(m), Replayed(G, n)) BY <1>2 DEF Near
  <2>2. Un(m) = m BY <1>1, UnIs
  <2> QED BY <1>8, <2>1, <2>2
<1>10. CASE n - 1 = 1
  <2>1. Started(p) BY <1>1, <1>10, ReplayedFirst
  <2> HIDE DEF r, p
  <2>2. Started(Applied(p, r)) /\ SameScore(Applied(p, r), p) /\ Applied(p, r).gs = "PLAYING"
    BY <1>6, <2>1, DiceStarted
  <2>3. Started(m) /\ SameScore(m, p) BY <1>1, <1>9, <2>2 DEF Started, Alike, SameScore
  <2>4. Near(m, H, Len(H)) BY <1>1, <1>2, <1>3, <1>5, <1>10, <2>3 DEF Near, p
  <2> QED BY <1>3, <1>5, <2>4 DEF H
<1>11. CASE n - 1 # 1
  <2>1. Legal(p, r) /\ Sound(p) BY <1>2, <1>11 DEF Begun
  <2> HIDE DEF r, p
  <2>2. Alike(Applied(p, r), p) BY <1>6, <2>1, RollAlike
  <2>3. Alike(m, p) BY <1>9, <2>2, AlikeTrans
  <2>4. Un(m) = m BY <1>1, UnIs
  <2>5. Near(m, H, Len(H)) BY <1>1, <1>2, <1>3, <1>5, <1>11, <2>3, <2>4 DEF Near
  <2> QED BY <1>3, <1>5, <2>5 DEF H
<1> QED BY <1>10, <1>11

-----------------------------------------------------------------------------
(* The result that a record notes in a game-info record.                     *)
LEMMA InfoOf ==
  ASSUME NEW a, NEW m, NEW y, a = [ms |-> m, info |-> y]
  PROVE  a.info = y
OBVIOUS

LEMMA NormalInfo ==
  ASSUME NEW m, NEW x, NEW r, r.mt = "NORMAL"
  PROVE  LET c == Cleared(m)
             status == GameStatus(Played(c, r).anBoard)
         IN  ApplyMoveRecord(m, x, r).info =
               IF status = 0 THEN x ELSE ResultNoted(x, r.fPlayer, Worth(c, status), FALSE)
<1> DEFINE c == Cleared(m)  p == Played(c, r)  status == GameStatus(p.anBoard)  n == Worth(c, status)
           a == ApplyMoveRecord(m, x, r)  y == ResultNoted(x, r.fPlayer, n, FALSE)
<1>1. IF status = 0
        THEN Applied(m, r) = p /\ a = Same(p, x)
        ELSE Applied(m, r) = Scored(p, "OVER", r.fPlayer, n) /\ a = [ms |-> Applied(m, r), info |-> y]
  BY NormalApplied
<1> HIDE DEF a, y, n, p, status
<1>2. status = 0 => a.info = x BY <1>1 DEF Same
<1>3. status # 0 => a.info = y BY <1>1, InfoOf
<1> QED BY <1>2, <1>3 DEF a, y, n, p, status

LEMMA DropInfo ==
  ASSUME NEW m, NEW x, NEW r, r.mt = "DROP"
  PROVE  LET c == Cleared(m)
         IN  ApplyMoveRecord(m, x, r).info =
               IF c.fDoubled THEN ResultNoted(x, Not(r.fPlayer), c.nCube, FALSE) ELSE x
<1> DEFINE c == Cleared(m)  a == ApplyMoveRecord(m, x, r)  y == ResultNoted(x, Not(r.fPlayer), c.nCube, FALSE)
           b == [c EXCEPT !.fDoubled = FALSE, !.cBeavers = 0]
<1>1. IF c.fDoubled
        THEN Applied(m, r) = Scored(b, "DROP", Not(r.fPlayer), c.nCube) /\ a = [ms |-> Applied(m, r), info |-> y]
        ELSE Applied(m, r) = c /\ a = Same(c, x)
  BY DropApplied
<1> HIDE DEF a, y, b, c
<1>2. ~c.fDoubled => a.info = x BY <1>1 DEF Same
<1>3. c.fDoubled => a.info = y BY <1>1, InfoOf
<1> QED BY <1>2, <1>3 DEF a, y, c

LEMMA ResignInfo ==
  ASSUME NEW m, NEW x, NEW r, r.mt = "RESIGN"
  PROVE  ApplyMoveRecord(m, x, r).info = ResultNoted(x, Not(r.fPlayer), Cleared(m).nCube * r.nResigned, TRUE)
<1> DEFINE c == Cleared(m)  a == ApplyMoveRecord(m, x, r)
           y == ResultNoted(x, Not(r.fPlayer), c.nCube * r.nResigned, TRUE)
<1>1. a = [ms |-> Applied(m, r), info |-> y] BY ResignApplied
<1> HIDE DEF a, y
<1>2. a.info = y BY <1>1, InfoOf
<1> QED BY <1>2 DEF a, y

(* What a record does to the score and to the game-info record.  A game goes *)
(* on or ends, with winner w of n points, resigned or not; the result is     *)
(* noted in the game-info record, whatever is in it.                         *)
Ended(m) == m.gs \in {"OVER", "DROP", "RESIGNED"}
GoesOn(m, r) ==
  /\ Applied(m, r).gs = "PLAYING" /\ Applied(m, r).anScore = m.anScore /\ Applied(m, r).cGames = m.cGames
  /\ \A x : ApplyMoveRecord(m, x, r).info = x
EndsWith(m, r, w, n, f) ==
  /\ w \in Player /\ n \in Nat /\ f \in BOOLEAN /\ Ended(Applied(m, r))
  /\ Applied(m, r).anScore = [m.anScore EXCEPT ![w] = @ + n] /\ Applied(m, r).cGames = m.cGames + 1
  /\ \A x : ApplyMoveRecord(m, x, r).info = ResultNoted(x, w, n, f)
Ends(m, r) == \E w, n, f : EndsWith(m, r, w, n, f)

(* The length of the match and the Crawford flags stay.                      *)
SameMatch(m, n) == m.nMatchTo = n.nMatchTo /\ m.fCrawford = n.fCrawford /\ m.fPostCrawford = n.fPostCrawford

LEMMA EndsIs ==
  ASSUME NEW m, NEW r, NEW e, State(e), SameMatch(e, m), e.anScore = m.anScore, e.cGames = m.cGames,
         NEW gs \in {"OVER", "DROP", "RESIGNED"}, NEW w \in Player, NEW n \in Nat, NEW f \in BOOLEAN,
         Applied(m, r) = Scored(e, gs, w, n), \A x : ApplyMoveRecord(m, x, r).info = ResultNoted(x, w, n, f)
  PROVE  Ends(m, r) /\ SameMatch(Applied(m, r), m)
<1> DEFINE d == Applied(m, r)
<1>1. d.gs = gs /\ d.anScore = [e.anScore EXCEPT ![w] = @ + n] /\ d.cGames = e.cGames + 1 /\ SameMatch(d, e)
  BY DEF Scored, State, Fields, SameMatch
<1>2. EndsWith(m, r, w, n, f) BY <1>1 DEF EndsWith, Ended
<1> QED BY <1>1, <1>2 DEF Ends, SameMatch

LEMMA ClearedMatch ==
  ASSUME NEW m, State(m)
  PROVE  /\ SameMatch(Cleared(m), m) /\ Cleared(m).anScore = m.anScore /\ Cleared(m).cGames = m.cGames
         /\ Cleared(m).nCube = m.nCube /\ Cleared(m).anBoard = m.anBoard /\ Cleared(m).fMove = m.fMove
         /\ Cleared(m).fDoubled = m.fDoubled /\ Cleared(m).fCubeOwner = m.fCubeOwner
         /\ Cleared(m).fJacoby = m.fJacoby /\ Cleared(m).nMatchTo = m.nMatchTo
BY ClearedIs DEF Fields, SameMatch

LEMMA NotIs ==
  ASSUME NEW p
  PROVE  Not(p) \in Player
BY DEF Not, Player

LEMMA GameStatusIs ==
  ASSUME NEW b
  PROVE  GameStatus(b) \in {0, 1, 2}
BY DEF GameStatus

LEMMA OutcomeNormal ==
  ASSUME NEW m, State(m), NEW r, IsMove(r), r.mt = "NORMAL"
  PROVE  (GoesOn(m, r) \/ Ends(m, r)) /\ SameMatch(Applied(m, r), m)
<1> DEFINE c == Cleared(m)  p == Played(c, r)  status == GameStatus(p.anBoard)  n == Worth(c, status)
<1>1. State(c) /\ c.gs = "PLAYING" /\ SameMatch(c, m) /\ c.anScore = m.anScore /\ c.cGames = m.cGames
  BY ClearedIs, ClearedMatch
<1>2. r.fPlayer \in Player /\ r.off \in Nat BY DEF IsMove
<1> HIDE DEF c
<1>3. State(p) /\ SameMatch(p, c) /\ p.anScore = c.anScore /\ p.cGames = c.cGames /\ p.gs = c.gs
  BY <1>1, <1>2, PlayedIs DEF Fields, SameMatch
<1>4. status \in {0, 1, 2} BY GameStatusIs
<1>5. n \in Nat BY <1>1, <1>4 DEF Worth, State
<1>6. /\ status = 0 => Applied(m, r) = p
      /\ status # 0 => Applied(m, r) = Scored(p, "OVER", r.fPlayer, n)
  BY NormalApplied DEF c
<1>9. \A x : ApplyMoveRecord(m, x, r).info = IF status = 0 THEN x ELSE ResultNoted(x, r.fPlayer, n, FALSE)
  BY NormalInfo DEF c
<1> HIDE DEF p, status, n
<1>7. CASE status = 0
  <2>1. Applied(m, r) = p BY <1>6, <1>7
  <2>2. \A x : ApplyMoveRecord(m, x, r).info = x BY <1>7, <1>9
  <2>3. SameMatch(p, m) BY <1>1, <1>3 DEF SameMatch
  <2> QED BY <1>1, <1>3, <2>1, <2>2, <2>3 DEF GoesOn
<1>8. CASE status # 0
  <2>1. Applied(m, r) = Scored(p, "OVER", r.fPlayer, n) BY <1>6, <1>8
  <2>3. \A x : ApplyMoveRecord(m, x, r).info = ResultNoted(x, r.fPlayer, n, FALSE) BY <1>8, <1>9
  <2>4. SameMatch(p, m) /\ p.anScore = m.anScore /\ p.cGames = m.cGames BY <1>1, <1>3 DEF SameMatch
  <2>5. Ends(m, r) /\ SameMatch(Applied(m, r), m) BY <1>2, <1>3, <1>5, <2>1, <2>3, <2>4, EndsIs
  <2> QED BY <2>5
<1> QED BY <1>7, <1>8

LEMMA OutcomeEnd ==
  ASSUME NEW m, State(m), NEW r, IsMove(r), r.mt \in {"DROP", "RESIGN"}
  PROVE  (GoesOn(m, r) \/ Ends(m, r)) /\ SameMatch(Applied(m, r), m)
<1> DEFINE c == Cleared(m)
<1>1. State(c) /\ c.gs = "PLAYING" /\ SameMatch(c, m) /\ c.anScore = m.anScore /\ c.cGames = m.cGames
  BY ClearedIs, ClearedMatch
<1>2. Not(r.fPlayer) \in Player BY NotIs
<1>3. c.nCube \in Nat BY <1>1 DEF State
<1> HIDE DEF c
<1>4. CASE r.mt = "RESIGN"
  <2> DEFINE n == c.nCube * r.nResigned  e == [c EXCEPT !.fResigned = r.nResigned]  w == Not(r.fPlayer)
  <2>1. r.nResigned \in Nat BY <1>4 DEF IsMove
  <2>2. n \in Nat /\ w \in Player BY <1>2, <1>3, <2>1
  <2>3. Applied(m, r) = Scored(e, "RESIGNED", w, n) BY <1>4, ResignApplied DEF c
  <2>4. \A x : ApplyMoveRecord(m, x, r).info = ResultNoted(x, w, n, TRUE) BY <1>4, ResignInfo DEF c
  <2>5. State(e) /\ SameMatch(e, c) /\ e.anScore = c.anScore /\ e.cGames = c.cGames
    BY <1>1 DEF State, Fields, SameMatch
  <2> HIDE DEF e, n, w
  <2>6. SameMatch(e, m) BY <1>1, <2>5 DEF SameMatch
  <2> QED BY <1>1, <2>2, <2>3, <2>4, <2>5, <2>6, EndsIs
<1>5. CASE r.mt = "DROP" /\ c.fDoubled
  <2> DEFINE n == c.nCube  e == [c EXCEPT !.fDoubled = FALSE, !.cBeavers = 0]  w == Not(r.fPlayer)
  <2>1. n \in Nat /\ w \in Player BY <1>2, <1>3
  <2>2. Applied(m, r) = Scored(e, "DROP", w, n) BY <1>5, DropApplied DEF c
  <2>3. \A x : ApplyMoveRecord(m, x, r).info = ResultNoted(x, w, n, FALSE) BY <1>5, DropInfo DEF c
  <2>4. State(e) /\ SameMatch(e, c) /\ e.anScore = c.anScore /\ e.cGames = c.cGames
    BY <1>1 DEF State, Fields, SameMatch
  <2> HIDE DEF e, n, w
  <2>5. SameMatch(e, m) BY <1>1, <2>4 DEF SameMatch
  <2> QED BY <1>1, <2>1, <2>2, <2>3, <2>4, <2>5, EndsIs
<1>6. CASE r.mt = "DROP" /\ ~c.fDoubled
  <2>1. Applied(m, r) = c BY <1>6, DropApplied DEF c
  <2>2. \A x : ApplyMoveRecord(m, x, r).info = x BY <1>6, DropInfo, ZenonT(40) DEF c
  <2> QED BY <1>1, <2>1, <2>2 DEF GoesOn
<1> QED BY <1>4, <1>5, <1>6

LEMMA OutcomeIs ==
  ASSUME NEW m, State(m), NEW r, IsMove(r)
  PROVE  (GoesOn(m, r) \/ Ends(m, r)) /\ SameMatch(Applied(m, r), m)
<1> DEFINE c == Cleared(m)
<1>1. /\ State(c) /\ c.gs = "PLAYING" /\ SameMatch(c, m) /\ c.anScore = m.anScore /\ c.cGames = m.cGames
  BY ClearedIs, ClearedMatch
<1> HIDE DEF c
<1>2. ASSUME NEW d, \A x : ApplyMoveRecord(m, x, r) = Same(Applied(m, r), x), Applied(m, r) = d,
             d.gs = c.gs, d.anScore = c.anScore, d.cGames = c.cGames, SameMatch(d, c)
      PROVE  GoesOn(m, r) /\ SameMatch(Applied(m, r), m)
  <2>1. \A x : ApplyMoveRecord(m, x, r).info = x BY <1>2 DEF Same
  <2>2. SameMatch(d, m) BY <1>1, <1>2 DEF SameMatch
  <2> QED BY <1>1, <1>2, <2>1, <2>2 DEF GoesOn
<1>3. CASE r.mt = "SETDICE"
  <2> DEFINE d == ApplySetDice(c, r)
  <2>1. /\ \A x : ApplyMoveRecord(m, x, r) = Same(Applied(m, r), x)
        /\ Applied(m, r) = d
    BY <1>3, SetDiceApplied DEF c
  <2>2. d.gs = c.gs /\ d.anScore = c.anScore /\ d.cGames = c.cGames /\ SameMatch(d, c)
    BY <1>1, SetDiceIs DEF IsMove, Fields, SameMatch
  <2> HIDE DEF d
  <2> QED BY <1>2, <2>1, <2>2
<1>4. CASE r.mt = "DOUBLE"
  <2> DEFINE d == ApplyDouble(c, r)
  <2>1. /\ \A x : ApplyMoveRecord(m, x, r) = Same(Applied(m, r), x)
        /\ Applied(m, r) = d
    BY <1>4, DoubleApplied DEF c
  <2>2. d.gs = c.gs /\ d.anScore = c.anScore /\ d.cGames = c.cGames /\ SameMatch(d, c)
    <3> DEFINE e == IF c.fMove < 0 THEN [c EXCEPT !.fMove = r.fPlayer] ELSE c
    <3>1. State(e) /\ e.gs = c.gs /\ e.anScore = c.anScore /\ e.cGames = c.cGames /\ SameMatch(e, c)
      BY <1>1 DEF IsMove, State, Fields, SameMatch
    <3>2. d = IF c.nCube >= MAX_CUBE THEN e
              ELSE IF c.fDoubled
                THEN [e EXCEPT !.cBeavers = @ + 1, !.nCube = 2 * @, !.fCubeOwner = Not(e.fMove),
                               !.fTurn = Not(r.fPlayer)]
                ELSE [e EXCEPT !.fDoubled = TRUE, !.fTurn = Not(r.fPlayer)]
      BY DEF ApplyDouble
    <3> HIDE DEF d, e
    <3>3. CASE c.nCube >= MAX_CUBE BY <3>1, <3>2, <3>3
    <3>4. CASE ~(c.nCube >= MAX_CUBE) /\ c.fDoubled
      <4>1. d = [e EXCEPT !.cBeavers = @ + 1, !.nCube = 2 * @, !.fCubeOwner = Not(e.fMove),
                               !.fTurn = Not(r.fPlayer)]
        BY <3>2, <3>4
      <4> QED BY <3>1, <4>1 DEF State, Fields, SameMatch
    <3>5. CASE ~(c.nCube >= MAX_CUBE) /\ ~c.fDoubled
      <4>1. d = [e EXCEPT !.fDoubled = TRUE, !.fTurn = Not(r.fPlayer)] BY <3>2, <3>5
      <4> QED BY <3>1, <4>1 DEF State, Fields, SameMatch
    <3> QED BY <3>3, <3>4, <3>5
  <2> HIDE DEF d
  <2> QED BY <1>2, <2>1, <2>2
<1>5. CASE r.mt = "TAKE"
  <2> DEFINE d == ApplyTake(c)
  <2>1. /\ \A x : ApplyMoveRecord(m, x, r) = Same(Applied(m, r), x)
        /\ Applied(m, r) = d
    BY <1>5, TakeApplied DEF c
  <2>2. d.gs = c.gs /\ d.anScore = c.anScore /\ d.cGames = c.cGames /\ SameMatch(d, c)
    BY <1>1, TakeIs DEF Fields, SameMatch
  <2> HIDE DEF d
  <2> QED BY <1>2, <2>1, <2>2
<1> QED BY <1>3, <1>4, <1>5, OutcomeNormal, OutcomeEnd DEF IsMove, Kinds

(* The result depends on the cube and the board.                             *)
SameStake(u, v) ==
  /\ u.nCube = v.nCube /\ u.fDoubled = v.fDoubled /\ u.fCubeOwner = v.fCubeOwner
  /\ u.fJacoby = v.fJacoby /\ u.nMatchTo = v.nMatchTo

LEMMA SameResult ==
  ASSUME NEW u, NEW v, State(u), State(v), SameStake(u, v), NEW r, IsMove(r),
         r.mt = "NORMAL" => Moved(u, r) = Moved(v, r)
  PROVE  \A x : ApplyMoveRecord(u, x, r).info = ApplyMoveRecord(v, x, r).info
<1> DEFINE c == Cleared(u)  d == Cleared(v)
<1>1. State(c) /\ State(d) BY ClearedIs
<1>2. SameStake(c, d) BY ClearedMatch DEF SameStake
<1>3. r.mt = "NORMAL" => Moved(c, r) = Moved(d, r)
  <2> SUFFICES ASSUME r.mt = "NORMAL" PROVE Moved(c, r) = Moved(d, r) OBVIOUS
  <2>1. /\ c.anBoard = u.anBoard /\ c.fMove = u.fMove
        /\ d.anBoard = v.anBoard /\ d.fMove = v.fMove
    BY ClearedMatch
  <2> HIDE DEF c, d
  <2>2. Moved(c, r) = Moved(u, r) /\ Moved(d, r) = Moved(v, r) BY <2>1 DEF Moved
  <2> QED BY <2>2
<1> SUFFICES ASSUME NEW x PROVE ApplyMoveRecord(u, x, r).info = ApplyMoveRecord(v, x, r).info OBVIOUS
<1>4. CASE r.mt = "NORMAL"
  <2> DEFINE p == Played(c, r)  q == Played(d, r)
             f(e, z) == ResultNoted(x, r.fPlayer, Worth(e, GameStatus(z.anBoard)), FALSE)
  <2>1. ApplyMoveRecord(u, x, r).info = IF GameStatus(p.anBoard) = 0 THEN x ELSE f(c, p)
    BY <1>4, NormalInfo
  <2>2. ApplyMoveRecord(v, x, r).info = IF GameStatus(q.anBoard) = 0 THEN x ELSE f(d, q)
    BY <1>4, NormalInfo
  <2> HIDE DEF c, d
  <2>3. p.anBoard = q.anBoard
    <3>1. p.anBoard = Moved(c, r) /\ q.anBoard = Moved(d, r) BY <1>1, <1>4, PlayedIs DEF IsMove
    <3> QED BY <1>3, <1>4, <3>1
  <2> HIDE DEF p, q
  <2>4. f(c, p) = f(d, q) BY <1>2, <2>3 DEF Worth, SameStake
  <2> HIDE DEF f
  <2> QED BY <2>1, <2>2, <2>3, <2>4
<1>5. CASE r.mt = "RESIGN"
  <2>1. /\ ApplyMoveRecord(u, x, r).info = ResultNoted(x, Not(r.fPlayer), c.nCube * r.nResigned, TRUE)
        /\ ApplyMoveRecord(v, x, r).info = ResultNoted(x, Not(r.fPlayer), d.nCube * r.nResigned, TRUE)
    BY <1>5, ResignInfo
  <2> HIDE DEF c, d
  <2> QED BY <1>2, <2>1 DEF SameStake
<1>6. CASE r.mt = "DROP"
  <2>1. ApplyMoveRecord(u, x, r).info = IF c.fDoubled THEN ResultNoted(x, Not(r.fPlayer), c.nCube, FALSE) ELSE x
    BY <1>6, DropInfo, ZenonT(40)
  <2>2. ApplyMoveRecord(v, x, r).info = IF d.fDoubled THEN ResultNoted(x, Not(r.fPlayer), d.nCube, FALSE) ELSE x
    BY <1>6, DropInfo, ZenonT(40)
  <2> HIDE DEF c, d
  <2>3. c.nCube = d.nCube /\ c.fDoubled = d.fDoubled BY <1>2 DEF SameStake
  <2> QED BY <2>1, <2>2, <2>3, Zenon
<1>7. CASE r.mt \in {"SETDICE", "DOUBLE", "TAKE"}
  <2>1. ApplyMoveRecord(u, x, r).info = x /\ ApplyMoveRecord(v, x, r).info = x
    BY <1>7, SetDiceApplied, DoubleApplied, TakeApplied DEF Same
  <2> QED BY <2>1
<1> QED BY <1>4, <1>5, <1>6, <1>7 DEF IsMove, Kinds

(* A game that has just begun: a move does not depend on who was on roll.    *)
LEMMA StartMoved ==
  ASSUME NEW m, m.anBoard = StartBoard, NEW n, n.anBoard = StartBoard, NEW r
  PROVE  Moved(m, r) = Moved(n, r)
<1> DEFINE b == [s \in Player |-> IF s = 0 THEN Maximum(Men - r.off, 0) ELSE Men]
<1>1. StartBoard[0] = Men /\ StartBoard[1] = Men BY DEF StartBoard, Player
<1>2. ASSUME NEW x, x.anBoard = StartBoard PROVE Moved(x, r) = b BY <1>1, <1>2 DEF Moved
<1> QED BY <1>2

-----------------------------------------------------------------------------
(* A record ends a game alike whether it is played or read again.            *)
LEMMA NearOutcome ==
  ASSUME NEW G, Begun(G), NEW m, Near(m, G, Len(G)), NEW r, IsMove(r),
         Len(G) = 1 => Opener(r), Len(G) >= 2 => Legal(Un(m), r), r.mt # "RESIGN" => Unresigned(m)
  PROVE  LET f == FixMatchState(m, r)  g == FixMatchState(Replayed(G, Len(G)), r)
         IN  \A x : ApplyMoveRecord(f, x, r).info = ApplyMoveRecord(g, x, r).info
<1> DEFINE n == Len(G)  p == Replayed(G, n)  f == FixMatchState(m, r)  g == FixMatchState(p, r)
<1>1. n \in Nat /\ n >= 1 /\ Records(G) /\ State(m) /\ r.fPlayer \in Player BY DEF Begun, Records, Near, IsMove
<1>2. State(p)
  <2>1. CASE n = 1 BY <1>1, <2>1, ReplayedFirst DEF Started
  <2>2. CASE n # 1
    <3>1. n \in 2..n BY <1>1, <2>2
    <3> QED BY <3>1 DEF Begun, Sound
  <2> QED BY <2>1, <2>2
<1>3. n = 1 => Started(m) /\ SameScore(m, p) /\ Started(p) BY <1>1, ReplayedFirst DEF Near
<1>4. n # 1 => Alike(Un(m), p) /\ Sound(p) /\ n >= 2 /\ Legal(p, r)
  <2> SUFFICES ASSUME n # 1 PROVE Alike(Un(m), p) /\ Sound(p) /\ n >= 2 /\ Legal(p, r) OBVIOUS
  <2>1. n > 1 /\ n >= 2 /\ n \in 2..n
    <3> HIDE DEF n
    <3> QED BY <1>1
  <2>2. Alike(Un(m), p) /\ Sound(p) BY <2>1 DEF Near, Begun
  <2> HIDE DEF p
  <2> QED BY <2>1, <2>2, LegalAlike
<1>5. n = 1 => Opener(r) OBVIOUS
<1>6. n # 1 => Legal(Un(m), r) BY <1>4
<1>7. (r.mt # "RESIGN" => Unresigned(m)) OBVIOUS
<1> HIDE DEF n, p
<1>8. State(f) /\ State(g) BY <1>1, <1>2, FixIs
<1>9. /\ State(Un(m)) /\ \A y \in Fields \ {"fTurn"} : Un(m)[y] = m[y]
      /\ Unresigned(m) => Un(m) = m
  BY <1>1, UnIs
<1>10. SameStake(f, g)
  <2>1. SameStake(m, p)
    <3>1. CASE n = 1 BY <1>3, <3>1 DEF SameScore, Started, SameStake, State
    <3>2. CASE n # 1
      <4>1. SameStake(Un(m), p) BY <1>4, <3>2 DEF Alike, SameStake
      <4>2. SameStake(m, Un(m)) BY <1>9 DEF Fields, SameStake
      <4> QED BY <4>1, <4>2 DEF SameStake
    <3> QED BY <3>1, <3>2
  <2>2. /\ \A y \in Fields \ {"anBoard", "fMove", "fTurn"} : f[y] = m[y]
        /\ \A y \in Fields \ {"anBoard", "fMove", "fTurn"} : g[y] = p[y]
    BY <1>1, <1>2, FixIs
  <2> HIDE DEF f, g
  <2> QED BY <2>1, <2>2 DEF Fields, SameStake
<1>11. r.mt = "NORMAL" => Moved(f, r) = Moved(g, r)
  <2> SUFFICES ASSUME r.mt = "NORMAL" PROVE Moved(f, r) = Moved(g, r) OBVIOUS
  <2>1. CASE n = 1
    <3>1. Started(f) /\ Started(g) BY <1>1, <1>3, <2>1, FixStarted
    <3> HIDE DEF f, g
    <3> QED BY <3>1, StartMoved DEF Started
  <2>2. CASE n # 1
    <3>1. Un(m) = m BY <1>7, <1>9
    <3>2. f = m /\ g = p BY <1>4, <1>6, <2>2, <3>1, FixSame
    <3>3. Alike(m, p) /\ Legal(m, r) BY <1>4, <1>6, <2>2, <3>1
    <3>4. m.anBoard = p.anBoard /\ m.fMove = p.fMove BY <3>3 DEF Alike, Legal
    <3> HIDE DEF f, g
    <3>5. Moved(m, r) = Moved(p, r) BY <3>4 DEF Moved
    <3> QED BY <3>2, <3>5
  <2> QED BY <2>1, <2>2
<1> HIDE DEF f, g
<1>12. \A x : ApplyMoveRecord(f, x, r).info = ApplyMoveRecord(g, x, r).info BY <1>8, <1>10, <1>11, SameResult
<1> QED BY <1>12 DEF f, g, p, n

-----------------------------------------------------------------------------
(* The state that a game leaves, and the record of a game without a result.  *)
Final(G) == Replayed(G, Len(G))
Wiped(G) == [G EXCEPT ![1].fWinner = None, ![1].nPoints = 0, ![1].fResigned = FALSE]
OneShort(n, score) == score[0] = n - 1 \/ score[1] = n - 1
Short(i) == OneShort(i.nMatch, i.anScore)
Flagged(m, i) == m.fCrawford = i.fCrawfordGame /\ m.fPostCrawford = (~i.fCrawfordGame /\ Short(i))

(* What stays while a game is played.                                        *)
InGame(m, i) == m.nMatchTo = i.nMatch /\ Flagged(m, i)
AsBefore(m, i) == m.anScore = i.anScore /\ m.cGames = i.i

LEMMA InfoFlags ==
  ASSUME NEW m, State(m), NEW r, IsInfo(r), NEW info
  PROVE  LET a == ApplyMoveRecord(m, info, r).ms IN InGame(a, r) /\ AsBefore(a, r)
<1> DEFINE c == Cleared(m)  d == ApplyInfo(c, r)
<1>1. ApplyMoveRecord(m, info, r).ms = d BY DEF ApplyMoveRecord, Cleared, IsInfo, Same
<1>2. State(c) BY ClearedIs
<1> HIDE DEF c
<1>3. InGame(d, r) /\ AsBefore(d, r)
  BY <1>2 DEF ApplyInfo, State, Fields, InGame, AsBefore, Flagged, Short, OneShort
<1> HIDE DEF d
<1> QED BY <1>1, <1>3

LEMMA FixMatch ==
  ASSUME NEW m, State(m), NEW r, r.fPlayer \in Player
  PROVE  LET d == FixMatchState(m, r)
         IN  SameMatch(d, m) /\ d.anScore = m.anScore /\ d.cGames = m.cGames /\ d.gs = m.gs
<1> DEFINE d == FixMatchState(m, r)
<1>1. \A f \in Fields \ {"anBoard", "fMove", "fTurn"} : d[f] = m[f] BY FixIs
<1> HIDE DEF d
<1>2. SameMatch(d, m) /\ d.anScore = m.anScore /\ d.cGames = m.cGames /\ d.gs = m.gs
  BY <1>1 DEF Fields, SameMatch
<1> QED BY <1>2 DEF d

LEMMA StaysInGame ==
  ASSUME NEW m, NEW n, NEW i, InGame(m, i), SameMatch(n, m)
  PROVE  InGame(n, i)
BY DEF InGame, Flagged, SameMatch

(* No record but the last ends a game, and what it has not ended has not     *)
(* changed the score.                                                        *)
GoneOn(m, G, k) ==
  LET s == Step(m, G, k)
  IN  /\ InGame(s.ms, G[1])
      /\ k < Len(G) \/ ~Ended(s.ms) => AsBefore(s.ms, G[1]) /\ s.info = G[1]

LEMMA NotEnded ==
  ASSUME NEW G, Begun(G), NEW k \in 1..Len(G), k < Len(G)
  PROVE  ~Ended(Replayed(G, k))
<1>1. Len(G) \in Nat /\ Records(G) BY DEF Begun, Records
<1>2. CASE k = 1 BY <1>1, <1>2, ReplayedFirst DEF Ended
<1>3. CASE k # 1
  <2> DEFINE i == k + 1
  <2>1. i \in 3..Len(G) /\ i - 1 = k BY <1>1, <1>3
  <2>2. Legal(Replayed(G, k), G[i])
    <3>1. Legal(Replayed(G, i - 1), G[i]) BY <2>1 DEF Begun
    <3> QED BY <2>1, <3>1
  <2> QED BY <2>2 DEF Legal, Ended
<1> QED BY <1>2, <1>3

LEMMA SteppedBlank ==
  ASSUME NEW m, State(m), NEW G, Begun(G), NEW k \in 1..Len(G)
  PROVE  Step(m, G, k).ms = Replayed(G, k) /\ State(Replayed(G, k))
<1>1. Records(G) /\ k \in Nat BY DEF Begun, Records
<1>2. SameGame(G[1], G[1]) BY DEF SameGame
<1>3. Step(m, G, k).ms = Step(Blank, G, k).ms BY <1>1, <1>2, BlankIs, StepSame
<1>4. State(Step(m, G, k).ms) BY <1>1, EachStep DEF StepIs
<1> QED BY <1>3, <1>4 DEF Replayed

LEMMA GoingOn ==
  ASSUME NEW m, State(m), NEW G, Begun(G), NEW k \in 1..Len(G)
  PROVE  GoneOn(m, G, k)
<1> DEFINE Bad == {i \in 1..Len(G) : ~GoneOn(m, G, i)}
<1>1. Records(G) /\ Len(G) \in Nat /\ 1 \in 1..Len(G) /\ IsInfo(G[1]) BY DEF Begun, Records
<1>2. GoneOn(m, G, 1)
  <2> DEFINE a == ApplyMoveRecord(m, G[1], G[1])
  <2>1. Step(m, G, 1) = a BY <1>1, FirstStep
  <2>2. InGame(a.ms, G[1]) /\ AsBefore(a.ms, G[1]) BY <1>1, InfoFlags
  <2>3. a.info = G[1] BY <1>1, InfoApplied
  <2> HIDE DEF a
  <2> QED BY <2>1, <2>2, <2>3 DEF GoneOn
<1>3. ASSUME NEW i \in Nat \ {0}, i < Len(G), GoneOn(m, G, i) PROVE GoneOn(m, G, i + 1)
  <2> DEFINE s == Step(m, G, i)  r == G[i + 1]  f == FixMatchState(s.ms, r)  t == Step(m, G, i + 1)
  <2>1. i \in 1..Len(G) BY <1>1, <1>3
  <2>2. StepIs(m, G, i) BY <1>1, <2>1, EachStep
  <2>3. /\ State(f) /\ IsMove(r) /\ t.ms = Applied(f, r)
        /\ t = ApplyMoveRecord(f, s.info, r)
    BY <1>1, <1>3, <2>2, NextStep
  <2>4. State(s.ms) BY <2>2 DEF StepIs
  <2>5. InGame(s.ms, G[1]) /\ AsBefore(s.ms, G[1]) /\ s.info = G[1] BY <1>3 DEF GoneOn
  <2> HIDE DEF s, t
  <2>6. SameMatch(f, s.ms) /\ f.anScore = s.ms.anScore /\ f.cGames = s.ms.cGames
    <3>1. r.fPlayer \in Player BY <2>3 DEF IsMove
    <3> QED BY <2>4, <3>1, FixMatch
  <2> HIDE DEF f, r
  <2>7. (GoesOn(f, r) \/ Ends(f, r)) /\ SameMatch(Applied(f, r), f) BY <2>3, OutcomeIs
  <2>8. InGame(t.ms, G[1]) BY <2>3, <2>5, <2>6, <2>7, StaysInGame
  <2>9. ASSUME GoesOn(f, r) PROVE AsBefore(t.ms, G[1]) /\ t.info = G[1]
    <3>1. Applied(f, r).anScore = f.anScore /\ Applied(f, r).cGames = f.cGames
      BY <2>9 DEF GoesOn
    <3>2. ApplyMoveRecord(f, s.info, r).info = s.info BY <2>9 DEF GoesOn
    <3> QED BY <2>3, <2>5, <2>6, <3>1, <3>2 DEF AsBefore
  <2>10. ASSUME Ends(f, r) PROVE Ended(t.ms) /\ ~(i + 1 < Len(G))
    <3>1. Ended(t.ms) BY <2>3, <2>10 DEF Ends, EndsWith
    <3>2. i + 1 \in 1..Len(G) BY <1>1, <1>3
    <3>3. t.ms = Replayed(G, i + 1) BY <3>2, SteppedBlank DEF t
    <3> QED BY <3>1, <3>2, <3>3, NotEnded
  <2> QED BY <2>7, <2>8, <2>9, <2>10 DEF GoneOn, t
<1>4. Bad = {}
  <2> SUFFICES ASSUME Bad # {} PROVE FALSE OBVIOUS
  <2>1. PICK i \in Bad : \A n \in Bad : i <= n
    <3> HIDE DEF Bad
    <3>1. Bad \in SUBSET Nat BY <1>1 DEF Bad
    <3> QED BY <3>1, LeastNumber
  <2>2. i \in 1..Len(G) /\ ~GoneOn(m, G, i) OBVIOUS
  <2>3. i # 1 BY <1>2, <2>2
  <2> DEFINE h == i - 1
  <2>4. h \in 1..Len(G) /\ h \in Nat \ {0} /\ h < Len(G) /\ h + 1 = i /\ ~(i <= h) BY <1>1, <2>2, <2>3
  <2> HIDE DEF h
  <2>5. GoneOn(m, G, h)
    <3>1. h \notin Bad
      <4> HIDE DEF Bad
      <4> QED BY <2>1, <2>4
    <3> QED BY <2>4, <3>1
  <2> HIDE DEF Bad
  <2>6. GoneOn(m, G, h + 1) BY <1>3, <2>4, <2>5
  <2> QED BY <2>2, <2>4, <2>6
<1> QED BY <1>4

-----------------------------------------------------------------------------
(* Results.                                                                  *)
Cleaned(i) == ResultNoted(i, None, 0, FALSE)
Told(G) == CalculateBoard(Blank, Wiped(G), Len(G)).info = G[1]

LEMMA CleanedIs ==
  ASSUME NEW i, IsInfo(i), NEW w, NEW n, NEW f
  PROVE  /\ IsInfo(ResultNoted(i, w, n, f)) /\ SameGame(ResultNoted(i, w, n, f), i)
         /\ ResultNoted(Cleaned(i), w, n, f) = ResultNoted(i, w, n, f)
         /\ LET j == ResultNoted(i, w, n, f) IN j.fWinner = w /\ j.nPoints = n /\ j.fResigned = f
BY DEF IsInfo, InfoFields, SameGame, ResultNoted, Cleaned

LEMMA CleanedSame ==
  ASSUME NEW i, NEW j, IsInfo(i), IsInfo(j), SameGame(i, j)
  PROVE  Cleaned(i) = Cleaned(j)
BY DEF IsInfo, InfoFields, SameGame, ResultNoted, Cleaned

LEMMA WipedIs ==
  ASSUME NEW G, Begun(G)
  PROVE  LET W == Wiped(G)
         IN  /\ Begun(W) /\ Len(W) = Len(G) /\ W[1] = Cleaned(G[1]) /\ \A k \in 2..Len(G) : W[k] = G[k]
             /\ \A k \in 1..Len(G) : Replayed(W, k) = Replayed(G, k)
<1> DEFINE W == Wiped(G)  i == Cleaned(G[1])
<1>1. Listed(G) /\ Len(G) \in Nat /\ 1 \in 1..Len(G) /\ IsInfo(G[1]) BY DEF Begun, Records
<1>2. W = [G EXCEPT ![1] = i]
  <2>1. G = [k \in 1..Len(G) |-> G[k]] BY <1>1, ListedIs
  <2> QED BY <1>1, <2>1 DEF Wiped, Cleaned, ResultNoted
<1>3. IsInfo(i) /\ SameGame(i, G[1]) BY <1>1, CleanedIs DEF Cleaned
<1> HIDE DEF i, W
<1>4. LET H == [G EXCEPT ![1] = i]
      IN  /\ Begun(H) /\ Len(H) = Len(G) /\ H[1] = i
          /\ \A k \in 2..Len(G) : H[k] = G[k]
          /\ \A k \in 1..Len(G) : Replayed(H, k) = Replayed(G, k)
  BY <1>3, Relabelled
<1>5. /\ Begun(W) /\ Len(W) = Len(G) /\ W[1] = i /\ \A k \in 2..Len(G) : W[k] = G[k]
      /\ \A k \in 1..Len(G) : Replayed(W, k) = Replayed(G, k)
  BY <1>2, <1>4
<1> QED BY <1>5 DEF W, i

(* The last record of a game is applied to what the ones before it led to.   *)
Before(G) == FixMatchState(Replayed(G, Len(G) - 1), G[Len(G)])

LEMMA LastStep ==
  ASSUME NEW m, State(m), NEW G, GoodGame(G)
  PROVE  /\ CalculateBoard(m, G, Len(G)).info = ApplyMoveRecord(Before(G), G[1], G[Len(G)]).info
         /\ Step(m, G, Len(G)).info = CalculateBoard(m, G, Len(G)).info
         /\ State(Before(G)) /\ IsMove(G[Len(G)]) /\ Final(G) = Applied(Before(G), G[Len(G)])
         /\ AsBefore(Before(G), G[1])
<1> DEFINE k == Len(G)  n == k - 1  s == Step(m, G, n)  r == G[k]  f == FixMatchState(s.ms, r)  t == Step(m, G, k)
<1>1. Begun(G) /\ Records(G) /\ k \in Nat /\ n \in Nat \ {0} /\ n \in 1..k /\ n < k /\ n + 1 = k /\ k \in 1..k /\ k # 0
  BY DEF GoodGame, Begun, Records
<1>2. StepIs(m, G, n) BY <1>1, EachStep
<1>3. State(f) /\ IsMove(r) /\ t = ApplyMoveRecord(f, s.info, r) /\ t.ms = Applied(f, r)
  <2> DEFINE j == n + 1
  <2> HIDE DEF n
  <2>1. LET g == FixMatchState(Step(m, G, n).ms, G[n + 1])
        IN  /\ State(g) /\ IsMove(G[n + 1])
            /\ Step(m, G, n + 1) = ApplyMoveRecord(g, Step(m, G, n).info, G[n + 1])
            /\ Step(m, G, n + 1).ms = Applied(g, G[n + 1])
    BY <1>1, <1>2, NextStep
  <2> QED BY <1>1, <2>1
<1>4. s.ms = Replayed(G, n) /\ t.ms = Replayed(G, k) /\ State(s.ms) BY <1>1, SteppedBlank
<1>5. AsBefore(s.ms, G[1]) /\ s.info = G[1] BY <1>1, GoingOn DEF GoneOn
<1>6. f = Before(G) BY <1>4 DEF Before
<1>7. CalculateBoard(m, G, k) = t
  <2> HIDE DEF k, t
  <2>1. CalculateBoard(m, G, k) = IF k < Len(G) THEN [Step(m, G, k) EXCEPT !.ms = FixMatchState(@, G[k + 1])]
                                  ELSE Step(m, G, k)
    BY <1>1, Steps
  <2>2. ~(k < Len(G)) BY <1>1 DEF k
  <2> QED BY <2>1, <2>2 DEF t
<1>8. f.anScore = s.ms.anScore /\ f.cGames = s.ms.cGames
  <2>1. r.fPlayer \in Player BY <1>3 DEF IsMove
  <2> HIDE DEF s, r
  <2> QED BY <1>4, <2>1, FixMatch
<1> HIDE DEF k, s, r, f, t
<1>9. AsBefore(f, G[1]) BY <1>5, <1>8 DEF AsBefore
<1> QED BY <1>3, <1>4, <1>5, <1>6, <1>7, <1>9 DEF k, r, t, Final

(* How a game whose result is noted has gone.                                *)
LEMMA HowEnded ==
  ASSUME NEW G, GoodGame(G)
  PROVE  \/ /\ ~Ended(Final(G)) /\ AsBefore(Final(G), G[1])
            /\ \A x : ApplyMoveRecord(Before(G), x, G[Len(G)]).info = x
         \/ /\ Ended(Final(G))
            /\ \E w, n, f : /\ w \in Player /\ n \in Nat /\ f \in BOOLEAN
                            /\ Final(G).anScore = [G[1].anScore EXCEPT ![w] = @ + n] /\ Final(G).cGames = G[1].i + 1
                            /\ \A x : ApplyMoveRecord(Before(G), x, G[Len(G)]).info = ResultNoted(x, w, n, f)
<1> DEFINE f == Before(G)  r == G[Len(G)]
<1>1. State(f) /\ IsMove(r) /\ Final(G) = Applied(f, r) /\ AsBefore(f, G[1]) BY BlankIs, LastStep
<1> HIDE DEF f, r
<1>2. GoesOn(f, r) \/ Ends(f, r) BY <1>1, OutcomeIs
<1>3. CASE GoesOn(f, r)
  <2>1. ~Ended(Final(G)) /\ AsBefore(Final(G), G[1]) BY <1>1, <1>3 DEF GoesOn, Ended, AsBefore
  <2> QED BY <1>3, <2>1 DEF GoesOn, f, r
<1>4. CASE Ends(f, r)
  <2>1. PICK w, n, y : EndsWith(f, r, w, n, y) BY <1>4 DEF Ends
  <2>2. /\ Ended(Final(G)) /\ w \in Player /\ n \in Nat /\ y \in BOOLEAN
        /\ Final(G).anScore = [G[1].anScore EXCEPT ![w] = @ + n] /\ Final(G).cGames = G[1].i + 1
    BY <1>1, <2>1 DEF EndsWith, AsBefore
  <2>3. \A x : ApplyMoveRecord(f, x, r).info = ResultNoted(x, w, n, y) BY <2>1 DEF EndsWith
  <2> QED BY <2>2, <2>3 DEF f, r
<1> QED BY <1>2, <1>3, <1>4

LEMMA ToldIs ==
  ASSUME NEW G, GoodGame(G)
  PROVE  /\ Told(G) <=> ApplyMoveRecord(Before(G), Cleaned(G[1]), G[Len(G)]).info = G[1]
         /\ \A m : State(m) => CalculateBoard(m, Wiped(G), Len(G)).info =
                                 ApplyMoveRecord(Before(G), Cleaned(G[1]), G[Len(G)]).info
<1> DEFINE W == Wiped(G)  k == Len(G)
<1>1. /\ Begun(W) /\ Len(W) = Len(G) /\ W[1] = Cleaned(G[1]) /\ \A j \in 2..Len(G) : W[j] = G[j]
      /\ \A j \in 1..Len(G) : Replayed(W, j) = Replayed(G, j)
  BY WipedIs DEF GoodGame
<1>2. k \in Nat /\ k \in 2..k /\ k - 1 \in 1..k /\ k >= 2 BY DEF GoodGame, Begun, Records
<1> HIDE DEF W
<1>3. GoodGame(W) BY <1>1, <1>2 DEF GoodGame
<1>4. Before(W) = Before(G) BY <1>1, <1>2 DEF Before
<1>5. W[Len(W)] = G[Len(G)] BY <1>1, <1>2
<1>6. ASSUME NEW m, State(m)
      PROVE  CalculateBoard(m, W, Len(G)).info = ApplyMoveRecord(Before(G), Cleaned(G[1]), G[Len(G)]).info
  <2>1. CalculateBoard(m, W, Len(W)).info = ApplyMoveRecord(Before(W), W[1], W[Len(W)]).info BY <1>3, <1>6, LastStep
  <2> QED BY <1>1, <1>4, <1>5, <2>1
<1> QED BY <1>6, BlankIs DEF Told, W

(* The result that is noted is the one that the records lead to, whatever    *)
(* has been noted before; so going through the game changes nothing.         *)
LEMMA ToldInfo ==
  ASSUME NEW G, GoodGame(G), Told(G), NEW m, State(m), NEW k \in 1..Len(G)
  PROVE  Step(m, G, k).info = G[1] /\ CalculateBoard(m, G, k).info = G[1]
<1>1. Begun(G) /\ Records(G) /\ Len(G) \in Nat /\ k \in Nat \ {0} /\ IsInfo(G[1])
  BY DEF GoodGame, Begun, Records
<1>2. CASE k < Len(G)
  <2>1. Step(m, G, k).info = G[1] BY <1>1, <1>2, GoingOn DEF GoneOn
  <2>2. CalculateBoard(m, G, k) = [Step(m, G, k) EXCEPT !.ms = FixMatchState(@, G[k + 1])] BY <1>1, <1>2, Steps
  <2>3. StepIs(m, G, k) BY <1>1, EachStep
  <2> DEFINE s == Step(m, G, k)
  <2>4. s = [ms |-> s.ms, info |-> s.info] BY <2>3 DEF StepIs
  <2> HIDE DEF s
  <2>5. [s EXCEPT !.ms = FixMatchState(@, G[k + 1])].info = s.info BY <2>4
  <2> QED BY <2>1, <2>2, <2>5 DEF s
<1>3. CASE ~(k < Len(G))
  <2>1. k = Len(G) BY <1>1, <1>3
  <2> DEFINE b == Before(G)  r == G[Len(G)]
  <2>2. /\ CalculateBoard(m, G, Len(G)).info = ApplyMoveRecord(b, G[1], r).info
        /\ Step(m, G, Len(G)).info = CalculateBoard(m, G, Len(G)).info
    BY LastStep
  <2>3. ApplyMoveRecord(b, Cleaned(G[1]), r).info = G[1] BY ToldIs
  <2>4. ~Ended(Final(G)) => \A x : ApplyMoveRecord(b, x, r).info = x BY HowEnded
  <2>5. Ended(Final(G)) => \E w, n, f : \A x : ApplyMoveRecord(b, x, r).info = ResultNoted(x, w, n, f)
    <3> SUFFICES ASSUME Ended(Final(G))
                 PROVE  \E w, n, f : \A x : ApplyMoveRecord(b, x, r).info = ResultNoted(x, w, n, f)
      OBVIOUS
    <3>1. PICK w, n, f : /\ w \in Player /\ n \in Nat /\ f \in BOOLEAN
                         /\ Final(G).anScore = [G[1].anScore EXCEPT ![w] = @ + n] /\ Final(G).cGames = G[1].i + 1
                         /\ \A x : ApplyMoveRecord(b, x, r).info = ResultNoted(x, w, n, f)
      BY HowEnded
    <3> QED BY <3>1
  <2> HIDE DEF b, r
  <2>6. ApplyMoveRecord(b, G[1], r).info = G[1]
    <3>1. CASE ~Ended(Final(G)) BY <2>4, <3>1
    <3>2. CASE Ended(Final(G))
      <4>1. PICK w, n, f : \A x : ApplyMoveRecord(b, x, r).info = ResultNoted(x, w, n, f) BY <2>5, <3>2
      <4>2. G[1] = ResultNoted(Cleaned(G[1]), w, n, f) BY <2>3, <4>1
      <4>3. ResultNoted(Cleaned(G[1]), w, n, f) = ResultNoted(G[1], w, n, f) BY <1>1, CleanedIs
      <4> QED BY <4>1, <4>2, <4>3
    <3> QED BY <3>1, <3>2
  <2> QED BY <2>1, <2>2, <2>6
<1> QED BY <1>2, <1>3

LEMMA ToldEnded ==
  ASSUME NEW G, GoodGame(G), Told(G), Ended(Final(G))
  PROVE  /\ G[1].fWinner \in Player /\ G[1].nPoints \in Nat /\ Final(G).cGames = G[1].i + 1
         /\ Final(G).anScore = [G[1].anScore EXCEPT ![G[1].fWinner] = @ + G[1].nPoints]
<1>1. IsInfo(G[1]) BY DEF GoodGame, Begun, Records
<1> DEFINE b == Before(G)  r == G[Len(G)]
<1>2. ApplyMoveRecord(b, Cleaned(G[1]), r).info = G[1] BY ToldIs
<1>3. PICK w, n, f : /\ w \in Player /\ n \in Nat /\ f \in BOOLEAN
                     /\ Final(G).anScore = [G[1].anScore EXCEPT ![w] = @ + n] /\ Final(G).cGames = G[1].i + 1
                     /\ \A x : ApplyMoveRecord(b, x, r).info = ResultNoted(x, w, n, f)
  BY HowEnded
<1> HIDE DEF b, r
<1>4. G[1] = ResultNoted(G[1], w, n, f)
  <2>1. G[1] = ResultNoted(Cleaned(G[1]), w, n, f) BY <1>2, <1>3
  <2> QED BY <1>1, <2>1, CleanedIs
<1>5. G[1].fWinner = w /\ G[1].nPoints = n
  <2> DEFINE i == G[1]
  <2> HIDE DEF i
  <2>1. i = ResultNoted(i, w, n, f) /\ IsInfo(i) BY <1>1, <1>4 DEF i
  <2>2. LET j == ResultNoted(i, w, n, f) IN j.fWinner = w /\ j.nPoints = n BY <2>1, CleanedIs
  <2>3. i.fWinner = w /\ i.nPoints = n BY <2>1, <2>2
  <2> QED BY <2>3 DEF i
<1> QED BY <1>3, <1>5

LEMMA ToldUnended ==
  ASSUME NEW G, GoodGame(G), Told(G), ~Ended(Final(G))
  PROVE  Cleaned(G[1]) = G[1] /\ AsBefore(Final(G), G[1])
<1>1. ApplyMoveRecord(Before(G), Cleaned(G[1]), G[Len(G)]).info = G[1] BY ToldIs
<1> QED BY <1>1, HowEnded

-----------------------------------------------------------------------------
(* The match.                                                                *)
Games(l) == Listed(l) /\ \A g \in 1..Len(l) : GoodGame(l[g])
Related(m, game, k) ==
  /\ Near(m, game, k)
  /\ k = 1 => /\ m.gs \in {"NONE", "PLAYING"}
              /\ m.gs = "PLAYING" => m.dice /\ m.fMove \in Player /\ Un(m).fTurn = m.fMove
GoodMatch(s) ==
  /\ State(s.ms) /\ Games(s.games)
  /\ \/ s.cur = 0 /\ s.games = <<>> /\ s.last = 0 /\ s.ms.gs = "NONE"
     \/ /\ s.cur \in 1..Len(s.games) /\ s.last \in 1..Len(s.games[s.cur])
        /\ Related(s.ms, s.games[s.cur], s.last)

(* AddMoveRecord adds what may be played, at the end or before it.           *)
Fits(s, r) ==
  /\ IsMove(r)
  /\ r.mt # "RESIGN" => Unresigned(s.ms)
  /\ s.last = 1 => Opener(r)
  /\ s.last # 1 => Legal(Un(s.ms), r)
Open(s) ==
  /\ Listed(s.games) /\ s.cur \in 1..Len(s.games) /\ \A g \in 1..(s.cur - 1) : GoodGame(s.games[g])
  /\ Begun(s.games[s.cur]) /\ s.last \in 1..Len(s.games[s.cur])
  /\ Near(s.ms, s.games[s.cur], s.last)
WinnerOf(s) == s.games[s.cur][1].fWinner

LEMMA Kept ==
  ASSUME NEW s, Open(s), NEW r, Fits(s, r)
  PROVE  LET game == SubSeq(s.games[s.cur], 1, s.last)
             old == game[s.last]
             elided == \/ r.mt = "NORMAL" /\ old.mt = "SETDICE" /\ old.fPlayer = r.fPlayer
                       \/ r.mt \in Setup /\ old.mt = r.mt /\ old.fPlayer = r.fPlayer
             kept == IF elided THEN Front(game) ELSE game
         IN  /\ Begun(kept) /\ Near(s.ms, kept, Len(kept))
             /\ Len(kept) = 1 => Opener(r)
             /\ Len(kept) >= 2 => Legal(Un(s.ms), r)
             /\ Len(kept) \in 1..s.last /\ \A k \in 1..Len(kept) : kept[k] = s.games[s.cur][k]
<1> DEFINE G == s.games[s.cur]
           game == SubSeq(G, 1, s.last)
           old == game[s.last]
           elided == \/ r.mt = "NORMAL" /\ old.mt = "SETDICE" /\ old.fPlayer = r.fPlayer
                     \/ r.mt \in Setup /\ old.mt = r.mt /\ old.fPlayer = r.fPlayer
           kept == IF elided THEN Front(game) ELSE game
<1>1. Begun(G) /\ s.last \in 1..Len(G) /\ Near(s.ms, G, s.last) /\ Len(G) \in Nat
  BY DEF Open, Begun, Records
<1>2. s.last \in Nat /\ s.last >= 1 /\ 1 \in 1..s.last /\ s.last \in 1..s.last /\ (s.last # 1 => s.last >= 2) BY <1>1
<1> HIDE DEF G
<1>3. /\ Begun(game) /\ Len(game) = s.last
      /\ \A k \in 1..s.last : game[k] = G[k] /\ Replayed(game, k) = Replayed(G, k)
  BY <1>1, Shorter
<1> HIDE DEF game
<1>4. Replayed(game, s.last) = Replayed(G, s.last) /\ Replayed(game, 1) = Replayed(G, 1) BY <1>2, <1>3
<1>5. Near(s.ms, game, Len(game)) BY <1>1, <1>3, <1>4 DEF Near
<1>6. CASE ~elided
  <2>1. kept = game BY <1>6
  <2> HIDE DEF kept, elided
  <2>2. Begun(kept) /\ Near(s.ms, kept, Len(kept)) /\ Len(kept) = s.last BY <1>3, <1>5, <2>1
  <2>3. Len(kept) = 1 => Opener(r) BY <2>2 DEF Fits
  <2>4. Len(kept) >= 2 => Legal(Un(s.ms), r) BY <2>2 DEF Fits
  <2>5. Len(kept) \in 1..s.last /\ \A k \in 1..Len(kept) : kept[k] = G[k] BY <1>2, <1>3, <2>1, <2>2
  <2> QED BY <2>2, <2>3, <2>4, <2>5 DEF kept, elided, game, G
<1>7. CASE elided
  <2>1. kept = SubSeq(game, 1, Len(game) - 1) BY <1>7 DEF Front
  <2>2. old.mt = "SETDICE" /\ r.mt \in {"NORMAL", "SETDICE"}
    <3>1. r.mt \in Kinds BY DEF Fits, IsMove
    <3> HIDE DEF old
    <3> QED BY <1>7, <3>1 DEF Kinds, Setup
  <2>3. s.last # 1
    <3> SUFFICES ASSUME s.last = 1 PROVE FALSE OBVIOUS
    <3>1. old.mt = "GAMEINFO" BY <1>3 DEF Begun, Records, IsInfo
    <3> QED BY <2>2, <3>1
  <2>4. Unresigned(s.ms) /\ Opener(r) /\ Legal(Un(s.ms), r) BY <2>2, <2>3 DEF Fits, Opener
  <2>5. Len(game) >= 2 /\ game[Len(game)].mt = "SETDICE" BY <1>2, <1>3, <2>2, <2>3
  <2>6. Begun(kept) /\ Near(s.ms, kept, Len(kept)) /\ Len(kept) = s.last - 1
    BY <1>3, <1>5, <2>1, <2>4, <2>5, Elided
  <2>7. \A k \in 1..(s.last - 1) : kept[k] = game[k]
    <3> DEFINE n == s.last - 1
    <3>1. n \in 0..Len(game) /\ Listed(game) /\ kept = SubSeq(game, 1, n) BY <1>2, <1>3, <2>1 DEF Begun
    <3> HIDE DEF n, kept
    <3>2. \A k \in 1..n : kept[k] = game[k] BY <3>1, ListedCut
    <3> QED BY <3>2 DEF n
  <2> HIDE DEF kept, elided
  <2>8. Len(kept) \in 1..s.last /\ \A k \in 1..Len(kept) : kept[k] = G[k]
    <3>1. s.last - 1 \in 1..s.last /\ \A k \in 1..(s.last - 1) : k \in 1..s.last BY <1>2, <2>3
    <3> QED BY <1>3, <2>6, <2>7, <3>1
  <2> QED BY <2>4, <2>6, <2>8 DEF kept, elided, game, G
<1> QED BY <1>6, <1>7

(* The records before the added one were there before.                       *)
Extends(H, G, r) ==
  LET n == Len(H) - 1
  IN  /\ n \in 1..Len(G) /\ SameGame(H[1], G[1]) /\ H[n + 1] = r
      /\ \A k \in 2..n : H[k] = G[k]

LEMMA Added ==
  ASSUME NEW s, Open(s), NEW r, Fits(s, r)
  PROVE  LET t == AddMoveRecord(s, r)
         IN  /\ GoodMatch(t) /\ t.cur = s.cur /\ t.last > 1 /\ t.last \in Nat /\ Sound(t.ms)
             /\ t.ms.gs # "PLAYING" => WinnerOf(t) \in Player
             /\ t.ms = Applied(FixMatchState(s.ms, r), r)
             /\ Len(t.games) = s.cur /\ \A g \in 1..(s.cur - 1) : t.games[g] = s.games[g]
             /\ Extends(t.games[s.cur], s.games[s.cur], r) /\ t.last = Len(t.games[s.cur])
<1> DEFINE game == SubSeq(s.games[s.cur], 1, s.last)
           old == game[s.last]
           elided == \/ r.mt = "NORMAL" /\ old.mt = "SETDICE" /\ old.fPlayer = r.fPlayer
                     \/ r.mt \in Setup /\ old.mt = r.mt /\ old.fPlayer = r.fPlayer
           kept == IF elided THEN Front(game) ELSE game
           a == ApplyMoveRecord(FixMatchState(s.ms, r), kept[1], r)
           K == [kept EXCEPT ![1] = a.info]
           H == Append(K, r)
           l == Append(SubSeq(s.games, 1, s.cur - 1), H)
           t == AddMoveRecord(s, r)
<1>1. t = [ms |-> a.ms, cur |-> s.cur, last |-> Len(kept) + 1, games |-> l]
  BY DEF AddMoveRecord
<1>2. /\ Begun(kept) /\ Near(s.ms, kept, Len(kept))
      /\ Len(kept) = 1 => Opener(r)
      /\ Len(kept) >= 2 => Legal(Un(s.ms), r)
      /\ Len(kept) \in 1..s.last /\ \A k \in 1..Len(kept) : kept[k] = s.games[s.cur][k]
  BY Kept
<1> HIDE DEF kept, t
<1>3. IsMove(r) /\ (r.mt # "RESIGN" => Unresigned(s.ms)) /\ r.fPlayer \in Player BY DEF Fits, IsMove
<1>4. State(FixMatchState(s.ms, r))
  <2>1. State(s.ms) BY <1>2 DEF Near
  <2> QED BY <1>3, <2>1, FixIs
<1>5. IsInfo(kept[1]) /\ Len(kept) \in Nat /\ Len(kept) >= 1 BY <1>2 DEF Begun, Records
<1>6. /\ a.ms = Applied(FixMatchState(s.ms, r), r) /\ IsInfo(a.info) /\ SameGame(a.info, kept[1])
      /\ a.ms.gs # "PLAYING" => a.info.fWinner \in Player
  BY <1>3, <1>4, <1>5, Apart
<1> HIDE DEF a
<1>7. /\ Begun(K) /\ Len(K) = Len(kept) /\ K[1] = a.info
      /\ \A k \in 1..Len(kept) : Replayed(K, k) = Replayed(kept, k)
      /\ \A k \in 2..Len(kept) : K[k] = kept[k]
  <2> DEFINE i == a.info
  <2>1. IsInfo(i) /\ SameGame(i, kept[1]) BY <1>6
  <2> HIDE DEF i
  <2>2. LET J == [kept EXCEPT ![1] = i]
        IN  /\ Begun(J) /\ Len(J) = Len(kept) /\ J[1] = i
            /\ \A k \in 2..Len(kept) : J[k] = kept[k]
            /\ \A k \in 1..Len(kept) : Replayed(J, k) = Replayed(kept, k)
    BY <1>2, <2>1, Relabelled
  <2> QED BY <2>2 DEF i
<1> HIDE DEF K
<1>8. Near(s.ms, K, Len(K))
  <2>1. Replayed(K, Len(K)) = Replayed(kept, Len(K)) /\ Replayed(K, 1) = Replayed(kept, 1) BY <1>5, <1>7
  <2> QED BY <1>2, <1>7, <2>1 DEF Near
<1>9. GoodGame(H) /\ Len(H) = Len(K) + 1 /\ Near(a.ms, H, Len(H)) /\ Sound(a.ms) /\ H[1] = a.info
  <2> DEFINE m == s.ms  b == Applied(FixMatchState(m, r), r)
  <2>1. Len(K) = 1 => Opener(r) BY <1>2, <1>7
  <2>2. Len(K) >= 2 => Legal(Un(m), r) BY <1>2, <1>7
  <2>3. Near(m, K, Len(K)) /\ (r.mt # "RESIGN" => Unresigned(m)) BY <1>3, <1>8
  <2>4. a.ms = b BY <1>6
  <2> HIDE DEF m
  <2>5. GoodGame(H) /\ Len(H) = Len(K) + 1 /\ Near(b, H, Len(H)) /\ Sound(b) /\ H[1] = K[1]
    BY <1>3, <1>7, <2>1, <2>2, <2>3, NextRecord
  <2> HIDE DEF b, H
  <2> QED BY <1>7, <2>4, <2>5
<1>18. Extends(H, s.games[s.cur], r)
  <2> DEFINE G == s.games[s.cur]  n == Len(kept)
  <2>1. n \in Nat /\ n >= 1 /\ n \in 1..Len(G)
    <3>1. s.last \in 1..Len(G) BY DEF Open
    <3>2. Len(G) \in Nat BY DEF Open, Begun, Records
    <3> QED BY <1>2, <1>5, <3>1, <3>2
  <2>2. 1 \in 1..n /\ (\A k \in 2..n : k \in 1..n) BY <2>1
  <2>3. SameGame(K[1], G[1]) BY <1>2, <1>6, <1>7, <2>2
  <2>4. \A k \in 2..n : K[k] = G[k] BY <1>2, <1>7, <2>2
  <2>5. Listed(K) /\ Len(K) = n BY <1>7 DEF Begun
  <2>6. Len(H) = n + 1 /\ H[n + 1] = r /\ \A k \in 1..n : H[k] = K[k] BY <2>5, ListedAppend
  <2> HIDE DEF H, n, G
  <2>7. SameGame(H[1], G[1]) BY <2>2, <2>3, <2>6
  <2>8. Len(H) - 1 = n BY <2>1, <2>6
  <2>9. \A k \in 2..n : H[k] = G[k] BY <2>2, <2>4, <2>6
  <2> QED BY <2>1, <2>6, <2>7, <2>8, <2>9 DEF Extends, G
<1> HIDE DEF H
<1>10. /\ Listed(l) /\ Len(l) = s.cur /\ l[s.cur] = H /\ s.cur \in Nat /\ s.cur >= 1
       /\ \A g \in 1..(s.cur - 1) : GoodGame(l[g]) /\ l[g] = s.games[g]
  <2> DEFINE c == SubSeq(s.games, 1, s.cur - 1)
  <2>1. /\ Listed(s.games) /\ s.cur \in 1..Len(s.games) /\ Len(s.games) \in Nat
        /\ \A g \in 1..(s.cur - 1) : GoodGame(s.games[g])
    BY ListedIs DEF Open
  <2>2. s.cur - 1 \in 0..Len(s.games) /\ (s.cur - 1) + 1 = s.cur BY <2>1
  <2>3. Listed(c) /\ Len(c) = s.cur - 1 /\ \A k \in 1..(s.cur - 1) : c[k] = s.games[k]
    BY <2>1, <2>2, ListedCut
  <2> HIDE DEF c
  <2>4. /\ Listed(l) /\ Len(l) = s.cur /\ l[s.cur] = H
        /\ \A k \in 1..(s.cur - 1) : l[k] = c[k]
    BY <2>2, <2>3, ListedAppend DEF c
  <2> QED BY <2>1, <2>3, <2>4
<1> HIDE DEF l
<1>11. Games(l)
  <2>1. ASSUME NEW g \in 1..Len(l) PROVE GoodGame(l[g])
    <3>1. CASE g = s.cur BY <1>9, <1>10, <3>1
    <3>2. CASE g # s.cur
      <4>1. g \in 1..(s.cur - 1) BY <1>10, <3>2
      <4> QED BY <1>10, <4>1
    <3> QED BY <3>1, <3>2
  <2> QED BY <1>10, <2>1 DEF Games
<1>12. t.ms = a.ms /\ t.cur = s.cur /\ t.last = Len(H) /\ t.games = l BY <1>1, <1>7, <1>9
<1>13. Len(H) \in Nat /\ Len(H) > 1 /\ Len(H) \in 1..Len(H) /\ Len(H) # 1 BY <1>5, <1>7, <1>9
<1>14. Related(a.ms, H, Len(H)) BY <1>9, <1>13 DEF Related
<1>15. State(a.ms) BY <1>9 DEF Sound
<1>16. GoodMatch(t)
  <2>1. t.cur \in 1..Len(t.games) /\ t.games[t.cur] = H BY <1>10, <1>12
  <2> QED BY <1>11, <1>12, <1>13, <1>14, <1>15, <2>1 DEF GoodMatch
<1>17. WinnerOf(t) = a.info.fWinner BY <1>9, <1>10, <1>12 DEF WinnerOf
<1> QED BY <1>6, <1>9, <1>10, <1>12, <1>13, <1>16, <1>17, <1>18 DEF t

(* A record that is added to a game without a result notes the result.       *)
LEMMA AddedTold ==
  ASSUME NEW s, Open(s), NEW r, Fits(s, r), Cleaned(s.games[s.cur][1]) = s.games[s.cur][1]
  PROVE  Told(AddMoveRecord(s, r).games[s.cur])
<1> DEFINE G == s.games[s.cur]
           game == SubSeq(s.games[s.cur], 1, s.last)
           old == game[s.last]
           elided == \/ r.mt = "NORMAL" /\ old.mt = "SETDICE" /\ old.fPlayer = r.fPlayer
                     \/ r.mt \in Setup /\ old.mt = r.mt /\ old.fPlayer = r.fPlayer
           kept == IF elided THEN Front(game) ELSE game
           b == FixMatchState(s.ms, r)
           a == ApplyMoveRecord(b, kept[1], r)
           K == [kept EXCEPT ![1] = a.info]
           H == Append(K, r)
           l == Append(SubSeq(s.games, 1, s.cur - 1), H)
           t == AddMoveRecord(s, r)
           n == Len(kept)
<1>1. t = [ms |-> a.ms, cur |-> s.cur, last |-> Len(kept) + 1, games |-> l]
  BY DEF AddMoveRecord
<1>2. /\ Begun(kept) /\ Near(s.ms, kept, Len(kept))
      /\ Len(kept) = 1 => Opener(r)
      /\ Len(kept) >= 2 => Legal(Un(s.ms), r)
      /\ Len(kept) \in 1..s.last /\ \A k \in 1..Len(kept) : kept[k] = s.games[s.cur][k]
  BY Kept
<1>3. /\ GoodMatch(t) /\ t.cur = s.cur /\ Extends(t.games[s.cur], s.games[s.cur], r)
  BY Added
<1> HIDE DEF kept
<1>4. IsMove(r) /\ (r.mt # "RESIGN" => Unresigned(s.ms)) /\ r.fPlayer \in Player BY DEF Fits, IsMove
<1>5. n \in Nat /\ n >= 1 /\ 1 \in 1..n /\ Records(kept) /\ Listed(kept) BY <1>2 DEF Begun, Records
<1>6. kept[1] = G[1] BY <1>2, <1>5
<1>7. \A x : ApplyMoveRecord(b, x, r).info = ApplyMoveRecord(FixMatchState(Replayed(kept, n), r), x, r).info
  BY <1>2, <1>4, NearOutcome
<1>8. t.games[s.cur] = H
  <2>1. Listed(s.games) /\ s.cur \in 1..Len(s.games) /\ Len(s.games) \in Nat /\ s.cur \in Nat
    <3>1. Listed(s.games) /\ s.cur \in 1..Len(s.games) BY DEF Open
    <3> QED BY <3>1, ListedIs
  <2> DEFINE c == SubSeq(s.games, 1, s.cur - 1)
  <2>2. Listed(c) /\ Len(c) = s.cur - 1
    <3>1. s.cur - 1 \in 0..Len(s.games) BY <2>1
    <3> QED BY <2>1, <3>1, ListedCut
  <2> HIDE DEF c, H, t
  <2>3. Append(c, H)[Len(c) + 1] = H BY <2>2, ListedAppend
  <2>4. Len(c) + 1 = s.cur BY <2>1, <2>2
  <2> QED BY <1>1, <2>3, <2>4 DEF c
<1>9. State(b)
  <2>1. State(s.ms) BY <1>2 DEF Near
  <2> QED BY <1>4, <2>1, FixIs
<1>10. IsInfo(a.info) /\ SameGame(a.info, kept[1])
  <2>1. IsInfo(kept[1]) BY <1>5 DEF Records
  <2> QED BY <1>4, <1>9, <2>1, Apart
<1> HIDE DEF t, b, G
<1> DEFINE i == a.info
<1>11. IsInfo(i) /\ SameGame(i, kept[1]) /\ i = ApplyMoveRecord(b, kept[1], r).info BY <1>10
<1> HIDE DEF a, i
<1>12. /\ Listed(K) /\ Len(K) = n /\ K[1] = i /\ \A k \in 2..n : K[k] = kept[k]
       /\ \A k \in 1..n : Replayed(K, k) = Replayed(kept, k)
       /\ Begun(K)
  <2>1. LET J == [kept EXCEPT ![1] = i]
        IN  /\ Begun(J) /\ Len(J) = Len(kept) /\ J[1] = i
            /\ \A k \in 2..Len(kept) : J[k] = kept[k]
            /\ \A k \in 1..Len(kept) : Replayed(J, k) = Replayed(kept, k)
    <3>1. IsInfo(i) /\ SameGame(i, kept[1]) /\ Begun(kept) BY <1>2, <1>11
    <3> HIDE DEF K, H, l, game, elided, old, n
    <3> QED BY <3>1, Relabelled
  <2> QED BY <2>1 DEF i, Begun
<1> HIDE DEF K
<1>13. Len(H) = n + 1 /\ H[n + 1] = r /\ \A k \in 1..n : H[k] = K[k] BY <1>12, ListedAppend
<1>14. GoodGame(H)
  <2>1. s.cur \in 1..Len(t.games)
    <3>1. s.cur # 0 BY DEF Open
    <3> QED BY <1>3, <3>1 DEF GoodMatch
  <2> HIDE DEF H
  <2> QED BY <1>3, <1>8, <2>1 DEF GoodMatch, Games
<1>15. Replayed(H, n) = Replayed(kept, n)
  <2>1. Listed(K) /\ IsInfo(K[1]) /\ SameGame(H[1], K[1]) /\ Len(K) >= 1 /\ Len(K) <= Len(H)
    <3>1. H[1] = K[1] BY <1>5, <1>13
    <3>2. SameGame(H[1], K[1]) BY <3>1 DEF SameGame
    <3> QED BY <1>5, <1>11, <1>12, <1>13, <3>2
  <2>2. \A j \in 2..Len(K) : K[j] = H[j] BY <1>12, <1>13
  <2> HIDE DEF H
  <2>3. \A k \in 1..Len(K) : Replayed(K, k) = Replayed(H, k) BY <1>14, <2>1, <2>2, SameRecords DEF GoodGame
  <2>4. n \in 1..Len(K) /\ n \in 1..n BY <1>5, <1>12
  <2> QED BY <1>12, <2>3, <2>4
<1>16. H[1] = i BY <1>5, <1>12, <1>13
<1>17. Before(H) = FixMatchState(Replayed(kept, n), r)
  <2>1. Len(H) - 1 = n /\ H[Len(H)] = r BY <1>5, <1>13
  <2> HIDE DEF H, n
  <2> QED BY <1>15, <2>1 DEF Before
<1>18. H[Len(H)] = r BY <1>13
<1> HIDE DEF H
<1>19. Cleaned(H[1]) = kept[1]
  <2>1. Cleaned(i) = Cleaned(kept[1])
    <3>1. IsInfo(kept[1]) BY <1>5 DEF Records
    <3> QED BY <1>11, <3>1, CleanedSame
  <2>2. Cleaned(kept[1]) = kept[1] BY <1>6 DEF G
  <2> QED BY <1>16, <2>1, <2>2
<1>20. ApplyMoveRecord(Before(H), Cleaned(H[1]), H[Len(H)]).info = H[1]
  BY <1>7, <1>11, <1>16, <1>17, <1>18, <1>19
<1> QED BY <1>8, <1>14, <1>20, ToldIs DEF t

-----------------------------------------------------------------------------
(* Going through a game.                                                     *)

(* The same records, and the same results too if those that are noted are    *)
(* the ones that the records lead to.                                        *)
Copy(H, G) == Len(H) = Len(G) /\ SameGame(H[1], G[1]) /\ \A k \in 2..Len(G) : H[k] = G[k]
AllTold(l) == \A g \in 1..Len(l) : Told(l[g])
Retold(t, l) ==
  /\ Len(t) = Len(l) /\ \A g \in 1..Len(l) : Copy(t[g], l[g])
  /\ AllTold(l) => t = l

(* The match state has the match length and the Crawford flags of the game.  *)
Marked(s) == InGame(s.ms, s.games[s.cur][1])

LEMMA InGameSame ==
  ASSUME NEW m, NEW x, NEW y, SameGame(x, y)
  PROVE  InGame(m, x) <=> InGame(m, y)
BY DEF InGame, Flagged, Short, SameGame, InfoFields

LEMMA RetoldTwice ==
  ASSUME NEW l, NEW t, NEW u, Retold(t, l), Retold(u, t)
  PROVE  Retold(u, l)
<1>1. ASSUME NEW g \in 1..Len(l) PROVE Copy(u[g], l[g])
  <2>1. Copy(t[g], l[g]) /\ Copy(u[g], t[g]) BY DEF Retold
  <2> QED BY <2>1 DEF Copy, SameGame
<1>2. AllTold(l) => u = l BY DEF Retold
<1> QED BY <1>1, <1>2 DEF Retold

LEMMA PutGame ==
  ASSUME NEW l, Games(l), NEW g \in 1..Len(l), NEW i, IsInfo(i), SameGame(i, l[g][1]), Told(l[g]) => i = l[g][1]
  PROVE  LET t == [l EXCEPT ![g][1] = i]
         IN  /\ Games(t) /\ Len(t) = Len(l) /\ Len(t[g]) = Len(l[g]) /\ t[g][1] = i
             /\ \A k \in 2..Len(l[g]) : t[g][k] = l[g][k]
             /\ \A k \in 1..Len(l[g]) : Replayed(t[g], k) = Replayed(l[g], k)
             /\ Retold(t, l)
<1> DEFINE G == l[g]  H == [G EXCEPT ![1] = i]  t == [l EXCEPT ![g][1] = i]
<1>1. t = [l EXCEPT ![g] = H] OBVIOUS
<1>2. Listed(l) /\ GoodGame(G) BY DEF Games
<1> HIDE DEF t, G
<1>3. /\ Begun(H) /\ Len(H) = Len(G) /\ H[1] = i
      /\ \A k \in 2..Len(G) : H[k] = G[k]
      /\ \A k \in 1..Len(G) : Replayed(H, k) = Replayed(G, k)
  <2>1. SameGame(i, G[1]) BY DEF G
  <2> QED BY <1>2, <2>1, Relabelled DEF GoodGame
<1> HIDE DEF H
<1>4. /\ Listed(t) /\ Len(t) = Len(l) /\ t[g] = H
      /\ \A k \in 1..Len(l) : k # g => t[k] = l[k]
  <2>1. LET q == [l EXCEPT ![g] = H]
        IN  /\ Listed(q) /\ Len(q) = Len(l) /\ q[g] = H
            /\ \A k \in 1..Len(l) : k # g => q[k] = l[k]
    BY <1>2, ListedPut
  <2> QED BY <1>1, <2>1
<1>5. GoodGame(H) BY <1>2, <1>3 DEF GoodGame
<1>6. Games(t)
  <2>1. ASSUME NEW h \in 1..Len(t) PROVE GoodGame(t[h])
    <3>1. CASE h = g BY <1>4, <1>5, <3>1
    <3>2. CASE h # g BY <1>4, <3>2 DEF Games
    <3> QED BY <3>1, <3>2
  <2> QED BY <1>4, <2>1 DEF Games
<1>7. Retold(t, l)
  <2>1. ASSUME NEW h \in 1..Len(l) PROVE Copy(t[h], l[h])
    <3>1. CASE h = g BY <1>3, <1>4, <3>1 DEF Copy, G
    <3>2. CASE h # g BY <1>4, <3>2 DEF Copy, SameGame
    <3> QED BY <3>1, <3>2
  <2>2. ASSUME AllTold(l) PROVE t = l
    <3>1. i = G[1] BY <2>2 DEF AllTold, G
    <3>2. G = [k \in 1..Len(G) |-> G[k]] BY <1>2, ListedIs DEF GoodGame, Begun
    <3>3. H = G BY <3>1, <3>2 DEF H
    <3>4. l = [k \in 1..Len(l) |-> l[k]] BY <1>2, ListedIs
    <3> QED BY <1>1, <3>3, <3>4 DEF G
  <2> QED BY <1>4, <2>1, <2>2 DEF Retold
<1> QED BY <1>3, <1>4, <1>6, <1>7 DEF t, G

LEMMA CalculatedNear ==
  ASSUME NEW m, State(m), NEW G, GoodGame(G), NEW k \in 1..Len(G)
  PROVE  LET a == CalculateBoard(m, G, k)
         IN  /\ Near(a.ms, G, k) /\ Unresigned(a.ms) /\ IsInfo(a.info) /\ SameGame(a.info, G[1])
             /\ k = 1 => a.ms.gs = "NONE" /\ a.ms.fResigned = 0
             /\ k # 1 => a.ms = Replayed(G, k) /\ Sound(a.ms)
             /\ Told(G) => a.info = G[1]
             /\ InGame(a.ms, a.info)
<1> DEFINE a == CalculateBoard(m, G, k)  p == Replayed(G, k)
<1>1. Records(G) /\ Len(G) \in Nat /\ Len(G) >= 2 /\ Begun(G) BY DEF GoodGame, Begun, Records
<1>2. k \in Nat /\ k >= 1 BY <1>1
<1>3. /\ a.ms = IF k < Len(G) THEN FixMatchState(p, G[k + 1]) ELSE p
      /\ IsInfo(a.info) /\ SameGame(a.info, G[1]) /\ State(p) /\ State(a.ms)
  BY <1>1, Calculated
<1>6. Told(G) => a.info = G[1] BY ToldInfo
<1> HIDE DEF a
<1>7. InGame(a.ms, a.info)
  <2>1. InGame(p, G[1]) BY <1>1, BlankIs, GoingOn DEF GoneOn, Replayed
  <2> HIDE DEF p
  <2>2. SameMatch(a.ms, p)
    <3>1. CASE k < Len(G)
      <4> DEFINE r == G[k + 1]
      <4>1. k + 1 \in 2..Len(G) BY <1>1, <1>2, <3>1
      <4>2. r.fPlayer \in Player BY <1>1, <4>1 DEF Records, IsMove
      <4>3. a.ms = FixMatchState(p, r) BY <1>3, <3>1
      <4> HIDE DEF r
      <4> QED BY <1>3, <4>2, <4>3, FixMatch
    <3>2. CASE ~(k < Len(G)) BY <1>3, <3>2 DEF SameMatch
    <3> QED BY <3>1, <3>2
  <2>3. InGame(a.ms, G[1]) BY <2>1, <2>2, StaysInGame
  <2> QED BY <1>3, <2>3, InGameSame
<1>4. CASE k = 1
  <2>1. a.ms = FixMatchState(p, G[2]) BY <1>1, <1>3, <1>4
  <2>2. Started(p) /\ p.gs = "NONE" /\ p.fResigned = 0 BY <1>1, <1>4, ReplayedFirst
  <2>3. G[2].fPlayer \in Player
    <3>1. 2 \in 2..Len(G) BY <1>1
    <3> QED BY <1>1, <3>1 DEF Records, IsMove
  <2> HIDE DEF p
  <2>4. Started(a.ms) /\ SameScore(a.ms, p) /\ a.ms.gs = "NONE" /\ a.ms.fResigned = 0
    BY <2>1, <2>2, <2>3, FixStarted
  <2>5. Near(a.ms, G, k) BY <1>3, <1>4, <2>4 DEF Near, p
  <2>6. Unresigned(a.ms) BY <2>4 DEF Unresigned
  <2> QED BY <1>3, <1>4, <1>6, <1>7, <2>4, <2>5, <2>6 DEF a
<1>5. CASE k # 1
  <2>1. k > 1 /\ k \in 2..Len(G) BY <1>2, <1>5
  <2>2. Sound(p) BY <1>1, <2>1 DEF Begun
  <2>3. a.ms = p
    <3>1. CASE k < Len(G)
      <4>1. k + 1 \in 3..Len(G) /\ (k + 1) - 1 = k BY <1>1, <2>1, <3>1
      <4>2. Legal(Replayed(G, (k + 1) - 1), G[k + 1]) BY <1>1, <4>1 DEF Begun
      <4>3. Legal(p, G[k + 1]) BY <4>1, <4>2
      <4> QED BY <1>3, <3>1, <4>3, FixSame
    <3>2. CASE ~(k < Len(G)) BY <1>3, <3>2
    <3> QED BY <3>1, <3>2
  <2>4. Unresigned(a.ms) BY <2>2, <2>3 DEF Sound, Unresigned
  <2>5. Un(a.ms) = a.ms BY <1>3, <2>4, UnIs
  <2>6. Alike(Un(a.ms), p) BY <2>3, <2>5 DEF Alike
  <2>7. Near(a.ms, G, k) BY <1>3, <2>1, <2>6 DEF Near
  <2> QED BY <1>3, <1>5, <1>6, <1>7, <2>2, <2>3, <2>4, <2>7 DEF a
<1> QED BY <1>4, <1>5

(* The state of a match with the cursor at the k-th record of game g, the    *)
(* result of which has been noted anew.                                      *)
PlacedAt(l, g, k, m, i) ==
  [ms |-> m, games |-> [l EXCEPT ![g][1] = i], cur |-> g, last |-> k]

LEMMA Placed ==
  ASSUME NEW l, Games(l), NEW g \in 1..Len(l), NEW k \in 1..Len(l[g]), NEW i, IsInfo(i), SameGame(i, l[g][1]),
         Told(l[g]) => i = l[g][1], NEW m, Related(m, l[g], k)
  PROVE  LET p == PlacedAt(l, g, k, m, i)
         IN  GoodMatch(p) /\ Retold(p.games, l) /\ (InGame(m, i) => Marked(p))
<1> DEFINE t == [l EXCEPT ![g][1] = i]
<1>1. /\ Games(t) /\ Len(t) = Len(l) /\ Len(t[g]) = Len(l[g]) /\ Retold(t, l) /\ t[g][1] = i
      /\ \A j \in 1..Len(l[g]) : Replayed(t[g], j) = Replayed(l[g], j)
  BY PutGame
<1> HIDE DEF t
<1>2. Replayed(t[g], k) = Replayed(l[g], k) /\ Replayed(t[g], 1) = Replayed(l[g], 1)
  <2>1. GoodGame(l[g]) BY DEF Games
  <2>2. 1 \in 1..Len(l[g]) BY <2>1 DEF GoodGame, Begun, Records
  <2> QED BY <1>1, <2>2
<1>3. Related(m, t[g], k) /\ State(m) BY <1>2 DEF Related, Near
<1> QED BY <1>1, <1>3 DEF GoodMatch, PlacedAt, Marked, t

LEMMA GoneTo ==
  ASSUME State(ms), Games(lMatch), NEW g \in 1..Len(lMatch), NEW k \in 1..Len(lMatch[g])
  PROVE  LET t == GoTo(g, k)
         IN  /\ GoodMatch(t) /\ t.cur = g /\ t.last = k /\ Unresigned(t.ms)
             /\ k = 1 => t.ms.gs = "NONE"
             /\ Len(t.games[g]) = Len(lMatch[g]) /\ Retold(t.games, lMatch) /\ Marked(t)
<1> DEFINE G == lMatch[g]  a == CalculateBoard(ms, G, k)  i == a.info  m == a.ms  t == GoTo(g, k)
<1>1. GoodGame(G) BY DEF Games
<1>2. /\ Near(m, G, k) /\ Unresigned(m) /\ IsInfo(i) /\ SameGame(i, G[1])
      /\ k = 1 => m.gs = "NONE"
      /\ Told(G) => i = G[1]
      /\ InGame(m, i)
  BY <1>1, CalculatedNear
<1>3. t = PlacedAt(lMatch, g, k, m, i) BY DEF GoTo, PlacedAt
<1> HIDE DEF a, i, m, t
<1>4. Related(m, G, k) BY <1>2 DEF Related
<1>5. GoodMatch(t) /\ Retold(t.games, lMatch) /\ Marked(t) BY <1>2, <1>3, <1>4, Placed
<1>6. t.ms = m /\ t.cur = g /\ t.last = k /\ t.games = [lMatch EXCEPT ![g][1] = i] BY <1>3 DEF PlacedAt
<1>7. Len(t.games[g]) = Len(lMatch[g]) BY <1>5 DEF Retold, Copy
<1> QED BY <1>2, <1>5, <1>6, <1>7 DEF t

Record(s) == s = [ms |-> s.ms, games |-> s.games, cur |-> s.cur, last |-> s.last]

LEMMA Forwarded ==
  ASSUME NEW s, Record(s), GoodMatch(s), s.cur # 0, s.last < Len(s.games[s.cur]), Unresigned(s.ms)
  PROVE  /\ GoodMatch(Forward(s)) /\ Unresigned(Forward(s).ms) /\ Retold(Forward(s).games, s.games)
         /\ Marked(s) => Marked(Forward(s))
<1> DEFINE m == s.ms  l == s.games  g == s.cur  n == s.last  G == l[g]  k == n + 1  r == G[k]
           f == FixMatchState(m, r)  x == ApplyMoveRecord(f, G[1], r)
           a == ReplayStep(G, Same(f, G[1]), k)
           F == SubSeq(G, 1, n)  H == Append(F, r)  p == Replayed(G, n)
<1>1. /\ State(m) /\ Games(l) /\ g \in 1..Len(l) /\ n \in 1..Len(G) /\ n < Len(G)
      /\ Near(m, G, n) /\ Unresigned(m)
  BY DEF GoodMatch, Related
<1>2. Forward(s) = PlacedAt(l, g, k, a.ms, a.info)
  <2>1. Forward(s) = [s EXCEPT !.ms = a.ms, !.games[g][1] = a.info, !.last = k] BY DEF Forward
  <2> DEFINE z == a.ms  i == a.info
  <2>2. Forward(s) = [s EXCEPT !.ms = z, !.games[g][1] = i, !.last = k] BY <2>1
  <2>3. s = [ms |-> m, games |-> l, cur |-> g, last |-> n] BY DEF Record
  <2>4. PlacedAt(l, g, k, z, i) = [ms |-> z, games |-> [l EXCEPT ![g][1] = i], cur |-> g, last |-> k] BY DEF PlacedAt
  <2> HIDE DEF z, i, k, m, l, g, n
  <2>5. Forward(s) = PlacedAt(l, g, k, z, i) BY <2>2, <2>3, <2>4
  <2> QED BY <2>5 DEF z, i
<1>20. Marked(s) <=> InGame(m, G[1]) BY DEF Marked
<1> HIDE DEF m, l, g, n
<1>3. Begun(G) /\ Records(G) /\ Len(G) \in Nat /\ IsInfo(G[1])
  <2>1. GoodGame(G) BY <1>1 DEF Games
  <2> QED BY <2>1 DEF GoodGame, Begun, Records
<1>4. /\ n \in Nat /\ n >= 1 /\ n \in Nat \ {0} /\ k \in 2..Len(G) /\ k \in 1..Len(G) /\ k > 1 /\ k # 1
      /\ n # 1 => n >= 2 /\ n > 1 /\ n \in 2..Len(G) /\ k \in 3..Len(G) /\ k - 1 = n
      /\ n \in 1..n /\ 1 \in 1..n
  BY <1>1, <1>3
<1>5. IsMove(r) /\ r.fPlayer \in Player BY <1>3, <1>4 DEF Records, IsMove
<1>6. Begun(F) /\ Len(F) = n /\ Replayed(F, n) = p /\ F[1] = G[1] /\ Replayed(F, 1) = Replayed(G, 1)
      /\ \A j \in 1..n : F[j] = G[j]
  BY <1>1, <1>3, <1>4, Shorter
<1>7. n # 1 => Legal(p, r) /\ Sound(p) /\ Legal(Un(m), r)
  <2> SUFFICES ASSUME n # 1 PROVE Legal(p, r) /\ Sound(p) /\ Legal(Un(m), r) OBVIOUS
  <2>1. Legal(Replayed(G, k - 1), G[k]) BY <1>3, <1>4 DEF Begun
  <2>2. k - 1 = n BY <1>4
  <2>3. Legal(p, r) BY <2>1, <2>2
  <2>4. Sound(p) BY <1>3, <1>4 DEF Begun
  <2>5. Alike(Un(m), p) BY <1>1, <1>4 DEF Near
  <2> HIDE DEF p, r
  <2>6. Alike(p, Un(m)) BY <2>5 DEF Alike
  <2>7. Legal(Un(m), r) BY <2>3, <2>6, LegalAlike
  <2> QED BY <2>3, <2>4, <2>7
<1>8. Len(F) = 1 => Opener(r)
  <2> SUFFICES ASSUME n = 1 PROVE Opener(r) BY <1>6
  <2>1. r = G[2] /\ Len(G) >= 2 BY <1>1, <1>3
  <2> QED BY <1>3, <2>1 DEF Begun
<1> HIDE DEF r, F
<1>9. Near(m, F, Len(F)) BY <1>1, <1>6 DEF Near
<1>10. Near(Applied(f, r), H, Len(H)) /\ Len(H) = k /\ Sound(Applied(f, r)) /\ State(f)
  <2>1. Len(F) >= 2 => Legal(Un(m), r) BY <1>6, <1>7
  <2> QED BY <1>1, <1>5, <1>6, <1>8, <1>9, <2>1, NextRecord
<1>11. Replayed(H, k) = Replayed(G, k)
  <2>1. Len(F) >= 2 => Legal(Replayed(F, Len(F)), r) BY <1>6, <1>7
  <2>2. Replayed(H, Len(F) + 1) = Applied(FixMatchState(Replayed(F, Len(F)), r), r)
    BY <1>5, <1>6, <1>8, <2>1, Longer
  <2>3. Replayed(G, n + 1) = Applied(FixMatchState(Replayed(G, n), G[n + 1]), G[n + 1])
    BY <1>1, <1>3, <1>4, ReplayedNext
  <2> QED BY <1>6, <2>2, <2>3 DEF r
<1>21. Told(G) => x.info = G[1]
  <2> SUFFICES ASSUME Told(G) PROVE x.info = G[1] OBVIOUS
  <2> DEFINE q == FixMatchState(p, r)
  <2>1. \A y : ApplyMoveRecord(f, y, r).info = ApplyMoveRecord(q, y, r).info
    <3>1. /\ Begun(F) /\ Near(m, F, Len(F)) /\ IsMove(r) /\ (Len(F) = 1 => Opener(r))
          /\ Len(F) >= 2 => Legal(Un(m), r)
          /\ r.mt # "RESIGN" => Unresigned(m)
      BY <1>1, <1>5, <1>6, <1>7, <1>8, <1>9
    <3> HIDE DEF f, x, a, H, p, q, k
    <3>2. LET u == FixMatchState(m, r)  v == FixMatchState(Replayed(F, Len(F)), r)
          IN  \A y : ApplyMoveRecord(u, y, r).info = ApplyMoveRecord(v, y, r).info
      BY <3>1, NearOutcome
    <3> QED BY <1>6, <3>2 DEF f, q
  <2>2. StepIs(Blank, G, n) BY <1>1, <1>3, BlankIs, EachStep
  <2>3. Step(Blank, G, n + 1) = ApplyMoveRecord(FixMatchState(Step(Blank, G, n).ms, G[n + 1]),
                                                Step(Blank, G, n).info, G[n + 1])
    BY <1>1, <1>3, <1>4, <2>2, NextStep
  <2>4. GoodGame(G) BY <1>1 DEF Games
  <2>5. Step(Blank, G, n).info = G[1] /\ Step(Blank, G, k).info = G[1] BY <1>1, <1>4, <2>4, BlankIs, ToldInfo
  <2>6. ApplyMoveRecord(q, G[1], r).info = G[1] BY <2>3, <2>5 DEF Replayed, r
  <2> HIDE DEF q
  <2> QED BY <2>1, <2>6
<1> DEFINE b == Applied(f, r)
<1>22. SameMatch(b, m)
  <2>1. SameMatch(b, f) BY <1>5, <1>10, OutcomeIs
  <2> HIDE DEF b
  <2>2. SameMatch(f, m) BY <1>1, <1>5, FixMatch
  <2> QED BY <2>1, <2>2 DEF SameMatch
<1>12. x.ms = b /\ IsInfo(x.info) /\ SameGame(x.info, G[1]) /\ x = [ms |-> x.ms, info |-> x.info]
  BY <1>3, <1>5, <1>10, Apart, Pair
<1>13. State(b) /\ Un(b) = b /\ Alike(b, Replayed(G, k)) /\ Near(b, G, k)
  <2> HIDE DEF b, H
  <2>1. State(b) /\ Unresigned(b) BY <1>10 DEF Sound, Unresigned, b
  <2>2. Un(b) = b BY <2>1, UnIs
  <2>3. Alike(b, Replayed(G, k)) BY <1>4, <1>10, <1>11, <2>2 DEF Near, b
  <2> QED BY <1>4, <2>1, <2>2, <2>3 DEF Near
<1>14. a.ms = b /\ a.info = x.info
  <2>1. CASE k < Len(G)
    <3>1. k + 1 \in 3..Len(G) /\ (k + 1) - 1 = k BY <1>3, <1>4, <2>1
    <3>2. Legal(Replayed(G, (k + 1) - 1), G[k + 1]) BY <1>3, <3>1 DEF Begun
    <3>3. Legal(Replayed(G, k), G[k + 1]) BY <3>1, <3>2
    <3> HIDE DEF b, x
    <3>4. Alike(Replayed(G, k), b) BY <1>13 DEF Alike
    <3>5. Legal(b, G[k + 1]) BY <3>3, <3>4, LegalAlike
    <3>6. FixMatchState(b, G[k + 1]) = b BY <3>5, FixSame
    <3>7. a = [x EXCEPT !.ms = FixMatchState(@, G[k + 1])] BY <2>1 DEF ReplayStep, Same, x, r
    <3> QED BY <1>12, <3>6, <3>7
  <2>2. CASE ~(k < Len(G))
    <3>1. a = x BY <2>2 DEF ReplayStep, Same, r
    <3> QED BY <1>12, <3>1
  <2> QED BY <2>1, <2>2
<1> HIDE DEF a, b, x
<1>15. Related(a.ms, G, k) BY <1>4, <1>13, <1>14 DEF Related
<1> DEFINE i == a.info  z == a.ms
<1>16. IsInfo(i) /\ SameGame(i, G[1]) /\ (Told(G) => i = G[1]) BY <1>12, <1>14, <1>21
<1>23. SameMatch(z, m) BY <1>14, <1>22
<1> HIDE DEF i, z
<1>17. /\ GoodMatch(PlacedAt(l, g, k, z, i)) /\ Retold(PlacedAt(l, g, k, z, i).games, l)
       /\ InGame(z, i) => Marked(PlacedAt(l, g, k, z, i))
  <2>1. Related(z, G, k) BY <1>15 DEF z
  <2> HIDE DEF k
  <2> QED BY <1>1, <1>4, <1>16, <2>1, Placed
<1>24. Marked(s) => InGame(z, i)
  <2> SUFFICES ASSUME Marked(s) PROVE InGame(z, i) OBVIOUS
  <2>1. InGame(z, G[1]) BY <1>20, <1>23, StaysInGame
  <2> QED BY <1>16, <2>1, InGameSame
<1>18. Unresigned(z) BY <1>10, <1>14 DEF Sound, Unresigned, b, z
<1>19. PlacedAt(l, g, k, z, i).ms = z BY DEF PlacedAt
<1> QED BY <1>2, <1>17, <1>18, <1>19, <1>24 DEF i, z, l

LEMMA Rolled ==
  ASSUME NEW s, Record(s), GoodMatch(s), s.cur # 0, s.last < Len(s.games[s.cur]), Unresigned(s.ms)
  PROVE  /\ GoodMatch(NextRoll(s)) /\ Unresigned(NextRoll(s).ms) /\ Retold(NextRoll(s).games, s.games)
         /\ Marked(s) => Marked(NextRoll(s))
<1> DEFINE l == s.games  g == s.cur  n == s.last  G == l[g]  r == G[n + 1]
           a == CalculateBoard(s.ms, G, n)
           d == [a.ms EXCEPT !.gs = "PLAYING", !.fMove = r.fPlayer, !.fTurn = r.fPlayer, !.dice = TRUE]
<1>1. CASE r.mt # "NORMAL" \/ s.ms.dice
  <2>1. NextRoll(s) = Forward(s) BY <1>1 DEF NextRoll
  <2> QED BY <2>1, Forwarded
<1>2. CASE ~(r.mt # "NORMAL" \/ s.ms.dice)
  <2>1. State(s.ms) /\ Games(l) /\ g \in 1..Len(l) /\ n \in 1..Len(G) /\ n < Len(G)
    BY DEF GoodMatch
  <2>2. NextRoll(s) = PlacedAt(l, g, n, d, a.info) BY <1>2 DEF NextRoll, Record, PlacedAt
  <2> HIDE DEF l, g, n
  <2>3. GoodGame(G) /\ Begun(G) /\ Records(G) /\ Len(G) \in Nat
    <3>1. GoodGame(G) BY <2>1 DEF Games
    <3> QED BY <3>1 DEF GoodGame, Begun, Records
  <2>4. /\ n \in Nat /\ n >= 1 /\ n + 1 \in 2..Len(G) /\ (n + 1) - 1 = n
        /\ n # 1 => n > 1 /\ n \in 2..Len(G) /\ n + 1 \in 3..Len(G)
        /\ n = 1 => ~(n > 1)
    BY <2>1, <2>3
  <2>5. r.fPlayer \in Player /\ IsMove(r) /\ r.mt = "NORMAL" BY <1>2, <2>3, <2>4 DEF Records, IsMove
  <2>6. /\ Near(a.ms, G, n) /\ Unresigned(a.ms) /\ IsInfo(a.info) /\ SameGame(a.info, G[1])
        /\ n = 1 => a.ms.gs = "NONE" /\ a.ms.fResigned = 0
        /\ n # 1 => a.ms = Replayed(G, n) /\ Sound(a.ms)
        /\ Told(G) => a.info = G[1]
        /\ InGame(a.ms, a.info)
    BY <2>1, <2>3, CalculatedNear
  <2> HIDE DEF a
  <2>7. State(a.ms) BY <2>6 DEF Near
  <2>8. /\ State(d) /\ d.gs = "PLAYING" /\ d.fMove = r.fPlayer /\ d.fTurn = r.fPlayer /\ d.dice
        /\ \A x \in Fields \ {"gs", "fMove", "fTurn", "dice"} : d[x] = a.ms[x]
    <3> HIDE DEF r
    <3> QED BY <2>5, <2>7 DEF State, Fields
  <2> HIDE DEF d
  <2>9. n # 1 => Legal(a.ms, r)
    <3> SUFFICES ASSUME n # 1 PROVE Legal(a.ms, r) OBVIOUS
    <3>1. Legal(Replayed(G, (n + 1) - 1), G[n + 1]) BY <2>3, <2>4 DEF Begun
    <3> QED BY <2>4, <2>6, <3>1
  <2>10. d.fResigned = 0
    <3>1. CASE n = 1 BY <2>6, <2>8, <3>1 DEF Fields
    <3>2. CASE n # 1
      <4>1. a.ms.gs = "PLAYING" /\ Sound(a.ms) BY <2>6, <2>9, <3>2 DEF Legal
      <4> QED BY <2>8, <4>1 DEF Sound, Fields
    <3> QED BY <3>1, <3>2
  <2>11. Un(d) = d BY <2>8, <2>10, UnIs DEF Unresigned
  <2>12. Related(d, G, n)
    <3>1. CASE n = 1
      <4>1. Started(a.ms) /\ SameScore(a.ms, Replayed(G, 1)) BY <2>4, <2>6, <3>1 DEF Near
      <4>2. Started(d) /\ SameScore(d, Replayed(G, 1)) BY <2>8, <4>1 DEF Started, SameScore, Fields
      <4>3. Near(d, G, n) BY <2>4, <2>8, <3>1, <4>2 DEF Near
      <4> QED BY <2>5, <2>8, <2>11, <3>1, <4>3 DEF Related
    <3>2. CASE n # 1
      <4>1. Legal(a.ms, r) /\ Sound(a.ms) /\ a.ms = Replayed(G, n) BY <2>6, <2>9, <3>2
      <4>2. a.ms.gs = "PLAYING" /\ ~a.ms.fDoubled /\ r.fPlayer = a.ms.fTurn BY <2>5, <4>1 DEF Legal
      <4>3. a.ms.fMove = a.ms.fTurn
        <5>1. OnTurn(a.ms) BY <4>1, <4>2 DEF Sound
        <5> QED BY <4>2, <5>1, Parity DEF OnTurn, Flag
      <4>4. Alike(d, a.ms) BY <2>8, <4>2, <4>3 DEF Alike, Fields
      <4>5. Near(d, G, n) BY <2>4, <2>8, <2>11, <3>2, <4>1, <4>4 DEF Near
      <4> QED BY <3>2, <4>5 DEF Related
    <3> QED BY <3>1, <3>2
  <2> DEFINE i == a.info
  <2>13. IsInfo(i) /\ SameGame(i, G[1]) /\ (Told(G) => i = G[1]) /\ InGame(a.ms, i) BY <2>6
  <2> HIDE DEF i
  <2>17. InGame(d, i)
    <3>1. SameMatch(d, a.ms) BY <2>8 DEF SameMatch, Fields
    <3> QED BY <2>13, <3>1, StaysInGame
  <2>14. GoodMatch(PlacedAt(l, g, n, d, i)) /\ Retold(PlacedAt(l, g, n, d, i).games, l)
         /\ Marked(PlacedAt(l, g, n, d, i))
    BY <2>1, <2>12, <2>13, <2>17, Placed
  <2>15. Unresigned(d) BY <2>10 DEF Unresigned
  <2>16. PlacedAt(l, g, n, d, i).ms = d BY DEF PlacedAt
  <2> QED BY <2>2, <2>14, <2>15, <2>16 DEF i, l
<1> QED BY <1>1, <1>2

-----------------------------------------------------------------------------
(* The cube.                                                                 *)
Powers == {TwoTo[j] : j \in Nat}

LEMMA TwoToGrows ==
  ASSUME NEW a \in Nat, NEW b \in Nat
  PROVE  /\ a <= b => TwoTo[a] <= TwoTo[b]
         /\ TwoTo[a] < TwoTo[b] => a < b
<1>1. \A i \in Nat : TwoTo[i] \in Nat /\ TwoTo[i + 1] = 2 * TwoTo[i] BY TwoToIs
<1>2. ASSUME NEW i \in Nat, NEW j \in Nat, i <= j PROVE TwoTo[i] <= TwoTo[j]
  <2> DEFINE Bad == {k \in Nat : i <= k /\ ~(TwoTo[i] <= TwoTo[k])}
  <2> SUFFICES ASSUME Bad # {} PROVE FALSE BY <1>2
  <2>1. PICK k \in Bad : \A n \in Bad : k <= n
    <3> HIDE DEF Bad
    <3>1. Bad \in SUBSET Nat BY DEF Bad
    <3> QED BY <3>1, LeastNumber
  <2>2. k \in Nat /\ i <= k /\ ~(TwoTo[i] <= TwoTo[k]) OBVIOUS
  <2>3. k # i BY <1>1, <2>2
  <2>4. k - 1 \in Nat /\ i <= k - 1 /\ (k - 1) + 1 = k BY <2>2, <2>3
  <2>5. ~(k <= k - 1) BY <2>2
  <2>6. TwoTo[i] <= TwoTo[k - 1]
    <3>1. k - 1 \notin Bad
      <4> HIDE DEF Bad
      <4> QED BY <2>1, <2>5
    <3> QED BY <2>4, <3>1
  <2>7. TwoTo[k] = 2 * TwoTo[k - 1] /\ TwoTo[k - 1] \in Nat /\ TwoTo[i] \in Nat BY <1>1, <2>4
  <2> QED BY <2>2, <2>6, <2>7
<1>3. ASSUME TwoTo[a] < TwoTo[b] PROVE a < b
  <2>1. CASE b <= a
    <3>1. TwoTo[b] <= TwoTo[a] /\ TwoTo[a] \in Nat /\ TwoTo[b] \in Nat BY <1>1, <1>2, <2>1
    <3> QED BY <1>3, <3>1
  <2> QED BY <2>1
<1> QED BY <1>2, <1>3

LEMMA PowerIs ==
  ASSUME NEW x \in Powers
  PROVE  /\ x \in Nat /\ 2 * x \in Powers
         /\ \A n \in Nat : x < TwoTo[n] => 2 * x <= TwoTo[n]
<1>1. PICK j \in Nat : x = TwoTo[j] BY DEF Powers
<1>2. x \in Nat /\ TwoTo[j + 1] = 2 * x /\ j + 1 \in Nat BY <1>1, TwoToIs
<1>3. 2 * x \in Powers BY <1>2 DEF Powers
<1>4. ASSUME NEW n \in Nat, x < TwoTo[n] PROVE 2 * x <= TwoTo[n]
  <2>1. j < n BY <1>1, <1>4, TwoToGrows
  <2>2. j + 1 <= n BY <2>1
  <2> QED BY <1>2, <2>2, TwoToGrows
<1> QED BY <1>2, <1>3, <1>4

(* The limit is itself a cube: one that is below it may be turned.           *)
LEMMA BelowLimit ==
  ASSUME NEW x \in Powers
  PROVE  /\ x < MAX_CUBE => 2 * x <= MAX_CUBE
         /\ x < MAX_CUBE \div 2 => 2 * (2 * x) <= MAX_CUBE
<1>1. PICK n \in Nat : MAX_CUBE = TwoTo[n]
  <2>1. MAX_CUBE \in Nat BY CubeAssumption
  <2>2. \A k \in 0..MAX_CUBE : k \in Nat BY <2>1
  <2> QED BY <2>2, CubePowerAssumption
<1>2. x \in Nat /\ (x < TwoTo[n] => 2 * x <= TwoTo[n]) BY PowerIs
<1>3. CASE n = 0
  <2>1. MAX_CUBE = 1 BY <1>1, <1>3, TwoToIs
  <2>2. MAX_CUBE \div 2 = 0 BY <2>1
  <2> QED BY <1>1, <1>2, <2>2
<1>4. CASE n # 0
  <2>1. n - 1 \in Nat /\ (n - 1) + 1 = n BY <1>4
  <2> DEFINE h == TwoTo[n - 1]
  <2>2. h \in Nat /\ TwoTo[n] = 2 * h BY <2>1, TwoToIs
  <2>3. x < h => 2 * x <= h BY <2>1, PowerIs
  <2> HIDE DEF h
  <2>4. MAX_CUBE = 2 * h BY <1>1, <2>2
  <2>5. MAX_CUBE \div 2 = h BY <2>2, <2>4
  <2> QED BY <1>1, <1>2, <2>2, <2>3, <2>4, <2>5
<1> QED BY <1>3, <1>4

(* What a record does to the cube.                                           *)
LEMMA CubeNext ==
  ASSUME NEW m, State(m), NEW r, IsMove(r)
  PROVE  LET a == Applied(m, r)
         IN  /\ r.mt = "TAKE" /\ m.fDoubled => a.nCube = 2 * m.nCube /\ ~a.fDoubled
             /\ r.mt = "DOUBLE" /\ m.nCube < MAX_CUBE =>
                  a.fDoubled /\ a.nCube = IF m.fDoubled THEN 2 * m.nCube ELSE m.nCube
             /\ r.mt # "DOUBLE" /\ ~(r.mt = "TAKE" /\ m.fDoubled) =>
                  a.nCube = m.nCube /\ (a.fDoubled => m.fDoubled)
<1> DEFINE a == Applied(m, r)  c == Cleared(m)
<1>1. State(c) /\ c.nCube = m.nCube /\ c.fDoubled = m.fDoubled BY ClearedIs DEF Fields
<1>2. r.fPlayer \in Player BY DEF IsMove
<1> HIDE DEF c
<1>3. CASE r.mt = "SETDICE"
  <2>1. a = ApplySetDice(c, r) BY <1>3, SetDiceApplied DEF c
  <2> HIDE DEF a
  <2>2. a.nCube = c.nCube /\ ~a.fDoubled BY <1>1, <1>2, <2>1, SetDiceIs DEF Fields
  <2> QED BY <1>1, <1>3, <2>2 DEF a
<1>4. CASE r.mt = "DOUBLE"
  <2>1. a = ApplyDouble(c, r) BY <1>4, DoubleApplied DEF c
  <2> HIDE DEF a
  <2>2. ASSUME m.nCube < MAX_CUBE
        PROVE  a.fDoubled /\ a.nCube = IF m.fDoubled THEN 2 * m.nCube ELSE m.nCube
    <3>1. ~(c.nCube >= MAX_CUBE) BY <1>1, <2>2, CubeAssumption DEF State
    <3>2. CASE c.fDoubled
      <4>1. a.fDoubled = c.fDoubled /\ a.nCube = 2 * c.nCube
        BY <1>1, <2>1, <3>1, <3>2 DEF ApplyDouble, State, Fields
      <4> QED BY <1>1, <3>2, <4>1
    <3>3. CASE ~c.fDoubled
      <4>1. a.fDoubled /\ a.nCube = c.nCube
        BY <1>1, <2>1, <3>1, <3>3 DEF ApplyDouble, State, Fields
      <4> QED BY <1>1, <3>3, <4>1
    <3> QED BY <3>2, <3>3
  <2> QED BY <1>4, <2>2 DEF a
<1>5. CASE r.mt = "TAKE"
  <2>1. a = ApplyTake(c) BY <1>5, TakeApplied DEF c
  <2> HIDE DEF a
  <2>2. /\ ~c.fDoubled => a = c
        /\ c.fDoubled => ~a.fDoubled /\ a.nCube = 2 * c.nCube
    BY <1>1, <2>1, TakeIs
  <2> QED BY <1>1, <1>5, <2>2 DEF a
<1>6. CASE r.mt = "DROP"
  <2> DEFINE d == [c EXCEPT !.fDoubled = FALSE, !.cBeavers = 0]
  <2>1. IF c.fDoubled THEN a = Scored(d, "DROP", Not(r.fPlayer), c.nCube) ELSE a = c
    BY <1>6, DropApplied DEF c
  <2>2. "nCube" \in DOMAIN d /\ "fDoubled" \in DOMAIN d /\ d.nCube = c.nCube /\ ~d.fDoubled
    BY <1>1 DEF State, Fields
  <2> HIDE DEF a, d
  <2>3. c.fDoubled => a.nCube = d.nCube /\ a.fDoubled = d.fDoubled BY <2>1, <2>2 DEF Scored
  <2> QED BY <1>1, <1>6, <2>1, <2>2, <2>3 DEF a
<1>7. CASE r.mt = "RESIGN"
  <2> DEFINE d == [c EXCEPT !.fResigned = r.nResigned]
  <2>1. a = Scored(d, "RESIGNED", Not(r.fPlayer), c.nCube * r.nResigned)
    BY <1>7, ResignApplied DEF c
  <2>2. "nCube" \in DOMAIN d /\ "fDoubled" \in DOMAIN d /\ d.nCube = c.nCube /\ d.fDoubled = c.fDoubled
    BY <1>1 DEF State, Fields
  <2> HIDE DEF a, d
  <2>3. a.nCube = d.nCube /\ a.fDoubled = d.fDoubled BY <2>1, <2>2 DEF Scored
  <2> QED BY <1>1, <1>7, <2>2, <2>3 DEF a
<1>8. CASE r.mt = "NORMAL"
  <2> DEFINE p == Played(c, r)  status == GameStatus(p.anBoard)
  <2>1. IF status = 0 THEN a = p ELSE a = Scored(p, "OVER", r.fPlayer, Worth(c, status))
    BY <1>8, NormalApplied DEF c
  <2>2. r.off \in Nat BY <1>8 DEF IsMove
  <2>3. State(p) /\ p.nCube = c.nCube /\ ~p.fDoubled BY <1>1, <1>2, <2>2, PlayedIs DEF Fields
  <2>4. "nCube" \in DOMAIN p /\ "fDoubled" \in DOMAIN p BY <2>3 DEF State, Fields
  <2> HIDE DEF a, p, status
  <2>5. a.nCube = p.nCube /\ a.fDoubled = p.fDoubled BY <2>1, <2>4 DEF Scored
  <2> QED BY <1>1, <1>8, <2>3, <2>5 DEF a
<1>9. r.mt \in Kinds BY DEF IsMove
<1> QED BY <1>3, <1>4, <1>5, <1>6, <1>7, <1>8, <1>9 DEF Kinds

(* What the cube is at if the double is taken, which the limit is about, and *)
(* when a double may be offered or a beaver made.                            *)
Stake(m) == IF m.fDoubled THEN 2 * m.nCube ELSE m.nCube
CubeOK(m) == m.nCube \in Powers /\ Stake(m) <= MAX_CUBE
MayDouble(m) == m.nCube < IF m.fDoubled THEN MAX_CUBE \div 2 ELSE MAX_CUBE

LEMMA CubeApplied ==
  ASSUME NEW m, State(m), NEW r, IsMove(r), CubeOK(m), r.mt = "DOUBLE" => MayDouble(m)
  PROVE  CubeOK(Applied(FixMatchState(m, r), r))
<1> DEFINE f == FixMatchState(m, r)  a == Applied(f, r)  x == m.nCube
<1> SUFFICES CubeOK(a) OBVIOUS
<1>1. State(f) /\ f.nCube = x /\ f.fDoubled = m.fDoubled
  <2>1. r.fPlayer \in Player BY DEF IsMove
  <2>2. State(f) /\ \A y \in Fields \ {"anBoard", "fMove", "fTurn"} : f[y] = m[y] BY <2>1, FixIs
  <2> HIDE DEF f
  <2> QED BY <2>2 DEF Fields
<1>2. x \in Powers /\ x \in Nat /\ 2 * x \in Powers /\ MAX_CUBE \in Nat BY PowerIs, CubeAssumption DEF CubeOK
<1>3. m.fDoubled => 2 * x <= MAX_CUBE BY DEF CubeOK, Stake
<1>4. x <= MAX_CUBE
  <2>1. ~m.fDoubled => x <= MAX_CUBE BY DEF CubeOK, Stake
  <2> HIDE DEF x
  <2> QED BY <1>2, <1>3, <2>1
<1> HIDE DEF f, x
<1>5. CASE r.mt = "TAKE" /\ m.fDoubled
  <2>1. a.nCube = 2 * x /\ ~a.fDoubled BY <1>1, <1>5, CubeNext
  <2> QED BY <1>2, <1>3, <1>5, <2>1 DEF CubeOK, Stake
<1>6. CASE r.mt = "DOUBLE"
  <2>1. /\ m.fDoubled => x < MAX_CUBE \div 2
        /\ ~m.fDoubled => x < MAX_CUBE
    BY <1>6 DEF MayDouble, x
  <2>2. x < MAX_CUBE BY <1>2, <2>1
  <2>3. a.fDoubled /\ a.nCube = IF m.fDoubled THEN 2 * x ELSE x BY <1>1, <1>6, <2>2, CubeNext
  <2> HIDE DEF a
  <2>4. CASE m.fDoubled
    <3>1. 2 * (2 * x) <= MAX_CUBE BY <1>2, <2>1, <2>4, BelowLimit
    <3> QED BY <1>2, <2>3, <2>4, <3>1 DEF CubeOK, Stake, a
  <2>5. CASE ~m.fDoubled
    <3>1. 2 * x <= MAX_CUBE BY <1>2, <2>1, <2>5, BelowLimit
    <3> QED BY <1>2, <2>3, <2>5, <3>1 DEF CubeOK, Stake, a
  <2> QED BY <2>4, <2>5
<1>7. CASE r.mt # "DOUBLE" /\ ~(r.mt = "TAKE" /\ m.fDoubled)
  <2>1. a.nCube = x /\ (a.fDoubled => m.fDoubled) BY <1>1, <1>7, CubeNext
  <2> HIDE DEF a
  <2> QED BY <1>2, <1>3, <1>4, <2>1 DEF CubeOK, Stake, a
<1> QED BY <1>5, <1>6, <1>7

(* The cube of the match state is that of the records.                       *)
LEMMA NearCube ==
  ASSUME NEW G, Begun(G), NEW k \in 1..Len(G), NEW m, Near(m, G, k)
  PROVE  m.nCube = Replayed(G, k).nCube /\ (m.fDoubled <=> Replayed(G, k).fDoubled)
<1>1. State(m) /\ Len(G) \in Nat BY DEF Near, Begun, Records
<1>2. CASE k > 1
  <2>1. Alike(Un(m), Replayed(G, k)) BY <1>2 DEF Near
  <2>2. Un(m).nCube = m.nCube /\ Un(m).fDoubled = m.fDoubled BY <1>1, UnIs DEF Fields
  <2> QED BY <2>1, <2>2 DEF Alike
<1>3. CASE ~(k > 1)
  <2>1. k = 1 BY <1>1, <1>3
  <2>2. Started(m) /\ SameScore(m, Replayed(G, 1)) BY <1>3 DEF Near
  <2>3. Started(Replayed(G, 1)) BY ReplayedFirst DEF Begun
  <2> QED BY <2>1, <2>2, <2>3 DEF Started, SameScore
<1> QED BY <1>2, <1>3

(* The limits of a game, and of all of them.                                 *)
Limited(G) == G[1].nAutoDoubles <= cAutoDoubles /\ \A k \in 1..Len(G) : CubeOK(Replayed(G, k))
Limits(l) == \A g \in 1..Len(l) : Limited(l[g])

LEMMA NearLimited ==
  ASSUME NEW G, Begun(G), Limited(G), NEW k \in 1..Len(G), NEW m, Near(m, G, k)
  PROVE  CubeOK(m)
<1>1. CubeOK(Replayed(G, k)) BY DEF Limited
<1>2. m.nCube = Replayed(G, k).nCube /\ (m.fDoubled <=> Replayed(G, k).fDoubled) BY NearCube
<1> QED BY <1>1, <1>2 DEF CubeOK, Stake

LEMMA LimitedSame ==
  ASSUME NEW G, Begun(G), NEW H, Begun(H), SameGame(H[1], G[1]), Len(H) <= Len(G),
         \A k \in 2..Len(H) : H[k] = G[k], Limited(G)
  PROVE  Limited(H)
<1>1. Listed(H) /\ IsInfo(H[1]) /\ Len(H) >= 1 /\ Len(H) \in Nat /\ Len(G) \in Nat BY DEF Begun, Records
<1>2. SameGame(G[1], H[1]) BY DEF SameGame
<1>3. \A k \in 1..Len(H) : Replayed(H, k) = Replayed(G, k) BY <1>1, <1>2, SameRecords
<1>4. H[1].nAutoDoubles = G[1].nAutoDoubles BY DEF SameGame, InfoFields
<1>5. \A k \in 1..Len(H) : k \in 1..Len(G) BY <1>1
<1> QED BY <1>3, <1>4, <1>5 DEF Limited

LEMMA RetoldLimits ==
  ASSUME NEW l, Games(l), Limits(l), NEW t, Games(t), Retold(t, l)
  PROVE  Limits(t)
<1>1. ASSUME NEW g \in 1..Len(t) PROVE Limited(t[g])
  <2> DEFINE G == l[g]  H == t[g]
  <2>1. Copy(H, G) /\ Limited(G) BY DEF Retold, Limits
  <2>2. Begun(G) /\ Begun(H) BY DEF Games, GoodGame, Retold
  <2>3. Len(G) \in Nat BY <2>2 DEF Begun, Records
  <2> HIDE DEF G, H
  <2>4. Len(H) <= Len(G) /\ SameGame(H[1], G[1]) /\ \A k \in 2..Len(H) : H[k] = G[k] BY <2>1, <2>3 DEF Copy
  <2>5. Limited(H) BY <2>1, <2>2, <2>4, LimitedSame
  <2> QED BY <2>5 DEF H
<1> QED BY <1>1 DEF Limits

LEMMA AddedLimits ==
  ASSUME NEW s, Open(s), NEW r, Fits(s, r), \A g \in 1..s.cur : Limited(s.games[g]),
         r.mt = "DOUBLE" => MayDouble(s.ms)
  PROVE  Limits(AddMoveRecord(s, r).games)
<1> DEFINE t == AddMoveRecord(s, r)  G == s.games[s.cur]  H == t.games[s.cur]  n == Len(H) - 1  P == SubSeq(H, 1, n)
<1>1. /\ GoodMatch(t) /\ t.cur = s.cur /\ t.last > 1 /\ t.last = Len(H) /\ Len(t.games) = s.cur
      /\ t.ms = Applied(FixMatchState(s.ms, r), r) /\ Extends(H, G, r)
      /\ \A g \in 1..(s.cur - 1) : t.games[g] = s.games[g]
  BY Added
<1>2. /\ s.cur \in Nat /\ s.cur \in 1..s.cur /\ Begun(G) /\ Len(G) \in Nat /\ Near(s.ms, G, s.last)
      /\ s.last \in 1..Len(G) /\ Limited(G)
  <2>1. s.cur \in 1..Len(s.games) /\ Len(s.games) \in Nat /\ Begun(G) BY ListedIs DEF Open
  <2>2. s.cur \in Nat /\ s.cur \in 1..s.cur BY <2>1
  <2>3. Len(G) \in Nat BY <2>1 DEF Begun, Records
  <2> QED BY <2>1, <2>2, <2>3 DEF Open
<1> HIDE DEF t
<1>3. CubeOK(t.ms)
  <2>1. CubeOK(s.ms) /\ State(s.ms) BY <1>2, NearLimited DEF Near
  <2>2. IsMove(r) BY DEF Fits
  <2> QED BY <1>1, <2>1, <2>2, CubeApplied
<1>4. Begun(H) /\ Len(H) \in Nat /\ Near(t.ms, H, Len(H)) /\ Len(H) \in 1..Len(H)
  <2>1. t.cur \in 1..Len(t.games) /\ t.cur # 0 /\ Games(t.games) BY <1>1, <1>2 DEF GoodMatch
  <2>2. GoodGame(H) BY <1>1, <2>1 DEF Games
  <2>3. t.last \in 1..Len(H) /\ Related(t.ms, H, t.last) BY <1>1, <2>1 DEF GoodMatch
  <2> QED BY <1>1, <2>2, <2>3 DEF GoodGame, Begun, Records, Related
<1>5. n \in 1..Len(G) /\ SameGame(H[1], G[1]) /\ \A k \in 2..n : H[k] = G[k] BY <1>1 DEF Extends
<1> HIDE DEF H, G
<1>6. n \in Nat /\ n \in 1..Len(H) /\ n <= Len(G) /\ n + 1 = Len(H) BY <1>2, <1>4, <1>5
<1> HIDE DEF n
<1>7. Begun(P) /\ Len(P) = n /\ \A k \in 1..n : P[k] = H[k] /\ Replayed(P, k) = Replayed(H, k)
  BY <1>4, <1>6, Shorter
<1> HIDE DEF P
<1>8. P[1] = H[1] /\ \A k \in 2..n : P[k] = G[k]
  <2>1. 1 \in 1..n /\ \A k \in 2..n : k \in 1..n BY <1>2, <1>5
  <2> QED BY <1>5, <1>7, <2>1
<1>9. Limited(P) BY <1>2, <1>5, <1>6, <1>7, <1>8, LimitedSame
<1>10. ASSUME NEW k \in 1..Len(H) PROVE CubeOK(Replayed(H, k))
  <2>1. CASE k = Len(H)
    <3>1. t.ms.nCube = Replayed(H, k).nCube /\ (t.ms.fDoubled <=> Replayed(H, k).fDoubled)
      BY <1>4, <2>1, NearCube
    <3> QED BY <1>3, <3>1 DEF CubeOK, Stake
  <2>2. CASE k # Len(H)
    <3>1. k \in 1..n BY <1>4, <1>6, <2>2
    <3> QED BY <1>7, <1>9, <3>1 DEF Limited
  <2> QED BY <2>1, <2>2
<1>11. Limited(H) BY <1>8, <1>9, <1>10 DEF Limited
<1>12. ASSUME NEW g \in 1..Len(t.games) PROVE Limited(t.games[g])
  <2>1. CASE g = s.cur BY <1>11, <2>1 DEF H
  <2>2. CASE g # s.cur
    <3>1. g \in 1..(s.cur - 1) /\ g \in 1..s.cur BY <1>1, <1>2, <2>2
    <3> QED BY <1>1, <3>1
  <2> QED BY <2>1, <2>2
<1> QED BY <1>12 DEF Limits, t

-----------------------------------------------------------------------------
(* Play.                                                                     *)
Turned(m) == m.gs = "PLAYING" => m.fTurn \in Player /\ m.fResigned \in Nat

LEMMA NotTwice ==
  ASSUME NEW p \in Player
  PROVE  Not(p) \in Player /\ Not(p) # p /\ Not(Not(p)) = p
BY DEF Not, Player

LEMMA Becomes ==
  ASSUME NEW t, GoodMatch(t), Turned(t.ms), Become(t)
  PROVE  GoodMatch(Match)' /\ Turned(ms)'
<1>1. ms' = t.ms /\ lMatch' = t.games /\ plGame' = t.cur /\ plLastMove' = t.last BY DEF Become
<1>2. GoodMatch(Match)' BY <1>1 DEF GoodMatch, Match
<1> QED BY <1>1, <1>2 DEF Turned

(* A game that goes on is not over, and whose turn it is is known.           *)
LEMMA PlayingOn ==
  ASSUME NEW s, GoodMatch(s), s.ms.gs = "PLAYING"
  PROVE  /\ s.cur # 0 /\ s.cur \in 1..Len(s.games) /\ s.last \in 1..Len(s.games[s.cur]) /\ Open(s)
         /\ OnTurn(Un(s.ms)) /\ GameStatus(s.ms.anBoard) = 0
         /\ s.last = 1 => s.ms.dice /\ ~s.ms.fDoubled
<1> DEFINE m == s.ms  G == s.games[s.cur]  u == Un(m)  k == s.last
<1>1. /\ State(m) /\ Games(s.games) /\ s.cur \in 1..Len(s.games) /\ k \in 1..Len(G)
      /\ Related(m, G, k) /\ s.cur # 0
  <2>1. ~(s.cur = 0 /\ s.games = <<>> /\ s.last = 0 /\ s.ms.gs = "NONE") OBVIOUS
  <2>2. Len(s.games) \in Nat BY ListedIs DEF GoodMatch, Games
  <2> QED BY <2>1, <2>2 DEF GoodMatch
<1>2. GoodGame(G) /\ Begun(G) /\ Near(m, G, k) /\ Len(G) \in Nat
  BY <1>1 DEF Games, GoodGame, Related, Begun, Records
<1>3. Open(s)
  <2>1. ASSUME NEW g \in 1..(s.cur - 1) PROVE GoodGame(s.games[g])
    <3>1. Len(s.games) \in Nat BY <1>1, ListedIs DEF Games
    <3>2. g \in 1..Len(s.games) BY <1>1, <3>1
    <3> QED BY <1>1, <3>2 DEF Games
  <2> QED BY <1>1, <1>2, <2>1 DEF Open, Games
<1>4. u.gs = "PLAYING" /\ u.anBoard = m.anBoard BY <1>1, UnIs DEF Fields
<1>5. CASE k = 1
  <2>1. Started(m) BY <1>2, <1>5 DEF Near
  <2>2. m.dice /\ m.fMove \in Player /\ u.fTurn = m.fMove BY <1>1, <1>5 DEF Related
  <2>3. u.fMove = m.fMove /\ u.fDoubled = m.fDoubled /\ u.cBeavers = m.cBeavers BY <1>1, UnIs DEF Fields
  <2>4. m.anBoard[0] > 0 /\ m.anBoard[1] > 0 BY <2>1, MenAssumption DEF Started, StartBoard, Player
  <2> HIDE DEF u, m
  <2>5. Flag(u.fDoubled) + u.cBeavers = 0 BY <2>1, <2>3 DEF Started, Flag
  <2>6. OnTurn(u) BY <1>4, <2>1, <2>2, <2>3, <2>4, <2>5 DEF OnTurn, Started
  <2>7. GameStatus(m.anBoard) = 0 BY <2>4 DEF GameStatus
  <2> QED BY <1>1, <1>3, <2>1, <2>2, <2>6, <2>7 DEF m, u, Started
<1>6. CASE k # 1
  <2>1. k > 1 /\ k \in 2..Len(G) BY <1>1, <1>2, <1>6
  <2>2. Alike(u, Replayed(G, k)) /\ Sound(Replayed(G, k)) BY <1>2, <2>1 DEF Near, Begun
  <2>3. OnTurn(u) BY <1>4, <2>2 DEF Sound, Alike, OnTurn
  <2>4. GameStatus(m.anBoard) = 0
    <3>1. m.anBoard[0] > 0 /\ m.anBoard[1] > 0 BY <1>4, <2>3 DEF OnTurn
    <3> QED BY <3>1 DEF GameStatus
  <2> QED BY <1>1, <1>3, <1>6, <2>3, <2>4
<1> QED BY <1>5, <1>6

LEMMA OnTurnTurned ==
  ASSUME NEW m, OnTurn(m)
  PROVE  m.fTurn \in Player
BY NotIs DEF OnTurn

LEMMA SettledTurned ==
  ASSUME NEW s, GoodMatch(s), Unresigned(s.ms)
  PROVE  Turned(s.ms)
<1> SUFFICES ASSUME s.ms.gs = "PLAYING" PROVE s.ms.fTurn \in Player /\ s.ms.fResigned \in Nat BY DEF Turned
<1>1. State(s.ms) /\ s.ms.fResigned = 0 BY DEF GoodMatch, Unresigned
<1>2. Un(s.ms) = s.ms BY <1>1, UnIs
<1>3. OnTurn(s.ms) BY <1>2, PlayingOn
<1> QED BY <1>1, <1>3, OnTurnTurned

LEMMA Acted ==
  ASSUME NEW s, Open(s), NEW r, Fits(s, r), Become(AddMoveRecord(s, r))
  PROVE  /\ GoodMatch(Match)' /\ Turned(ms)' /\ Sound(ms)'
         /\ (ms.gs # "PLAYING" => Winner \in Player)'
<1> DEFINE t == AddMoveRecord(s, r)
<1>1. GoodMatch(t) /\ Sound(t.ms) /\ (t.ms.gs # "PLAYING" => WinnerOf(t) \in Player) BY Added
<1>2. Become(t) OBVIOUS
<1> HIDE DEF t
<1>3. Unresigned(t.ms) BY <1>1 DEF Sound, Unresigned
<1>4. Turned(t.ms) BY <1>1, <1>3, SettledTurned
<1>5. GoodMatch(Match)' /\ Turned(ms)' BY <1>1, <1>2, <1>4, Becomes
<1>6. ms' = t.ms /\ lMatch' = t.games /\ plGame' = t.cur BY <1>2 DEF Become
<1>7. Sound(ms)' BY <1>1, <1>6
<1>8. (ms.gs # "PLAYING" => Winner \in Player)' BY <1>1, <1>6 DEF Winner, WinnerOf
<1> QED BY <1>5, <1>7, <1>8

Valid == GoodMatch(Match) /\ Turned(ms)

(* A step keeps every cube within the limit.                                 *)
LimitsKept == Limits(lMatch) => Limits(lMatch')

(* After a record has been added NextTurn finds what it takes for granted.   *)
LEMMA Answered ==
  ASSUME GoodMatch(Match), Sound(ms), ms.gs # "PLAYING" => Winner \in Player
  PROVE  NextTurnAssert
<1>1. CASE ms.gs = "PLAYING"
  <2>1. Match.ms = ms BY DEF Match
  <2>2. GameStatus(ms.anBoard) = 0 BY <1>1, <2>1, PlayingOn
  <2> QED BY <1>1, <2>2 DEF NextTurnAssert, GameEnded
<1>2. CASE ms.gs # "PLAYING"
  <2>1. GameEnded BY <1>2 DEF Sound, GameEnded
  <2>2. Winner # None BY <1>2 DEF Player, None
  <2> QED BY <2>1, <2>2 DEF NextTurnAssert
<1> QED BY <1>1, <1>2

LEMMA ActedValid ==
  ASSUME NEW s, Open(s), NEW r, Fits(s, r), Become(AddMoveRecord(s, r))
  PROVE  /\ Valid' /\ NextTurnAssert'
         /\ Limits(s.games) /\ (r.mt = "DOUBLE" => MayDouble(s.ms)) => Limits(lMatch')
<1>1. /\ GoodMatch(Match)' /\ Turned(ms)' /\ Sound(ms)'
      /\ (ms.gs # "PLAYING" => Winner \in Player)'
  BY Acted
<1>2. NextTurnAssert' BY <1>1, Answered, PTL
<1>3. ASSUME Limits(s.games), r.mt = "DOUBLE" => MayDouble(s.ms) PROVE Limits(lMatch')
  <2>1. s.cur \in 1..Len(s.games) /\ Len(s.games) \in Nat BY ListedIs DEF Open
  <2>2. \A g \in 1..s.cur : g \in 1..Len(s.games) BY <2>1
  <2>3. \A g \in 1..s.cur : Limited(s.games[g]) BY <1>3, <2>2 DEF Limits
  <2>4. Limits(AddMoveRecord(s, r).games) BY <1>3, <2>3, AddedLimits
  <2> QED BY <2>4 DEF Become
<1> QED BY <1>1, <1>2, <1>3 DEF Valid

(* A match in play.                                                          *)
LEMMA InPlay ==
  ASSUME Valid, ms.gs = "PLAYING"
  PROVE  /\ Open(Match) /\ Match.ms = ms /\ State(ms) /\ OnTurn(Un(ms)) /\ ms.fTurn \in Player
         /\ GameStatus(ms.anBoard) = 0 /\ Match.last = plLastMove
         /\ plLastMove = 1 => ms.dice /\ ~ms.fDoubled
         /\ ms.fResigned = 0 => Un(ms) = ms /\ Unresigned(ms)
         /\ Match.games = lMatch
<1>1. Match.ms = ms /\ Match.last = plLastMove /\ Match.games = lMatch BY DEF Match
<1>2. GoodMatch(Match) /\ Match.ms.gs = "PLAYING" BY <1>1 DEF Valid
<1>3. Open(Match) /\ OnTurn(Un(ms)) /\ GameStatus(ms.anBoard) = 0
  BY <1>1, <1>2, PlayingOn
<1>4. plLastMove = 1 => ms.dice /\ ~ms.fDoubled BY <1>1, <1>2, PlayingOn
<1>5. State(ms) BY <1>1, <1>2 DEF GoodMatch
<1>6. ms.fTurn \in Player BY DEF Valid, Turned
<1>7. ms.fResigned = 0 => Un(ms) = ms /\ Unresigned(ms) BY <1>5, UnIs DEF Unresigned
<1> QED BY <1>1, <1>3, <1>4, <1>5, <1>6, <1>7

(* A record is added that may be: what the commands do that end in           *)
(* AddMoveRecord.                                                            *)
Adds ==
  /\ ms.gs = "PLAYING"
  /\ \E r : /\ Fits(Match, r) /\ Become(AddMoveRecord(Match, r))
            /\ r.mt = "DOUBLE" => MayDouble(ms) /\ (ms.fCrawford => ms.nMatchTo = 0)

LEMMA AddsValid ==
  ASSUME Valid, Adds
  PROVE  Valid' /\ NextTurnAssert' /\ LimitsKept
<1>1. PICK r : Fits(Match, r) /\ Become(AddMoveRecord(Match, r)) /\ (r.mt = "DOUBLE" => MayDouble(ms)) BY DEF Adds
<1>2. Open(Match) /\ Match.ms = ms /\ Match.games = lMatch BY InPlay DEF Adds
<1> QED BY <1>1, <1>2, ActedValid DEF LimitsKept

LEMMA RollFits ==
  ASSUME Valid, CanRoll
  PROVE  Open(Match) /\ Fits(Match, Rec("SETDICE", ms.fTurn))
<1> DEFINE p == ms.fTurn  r == Rec("SETDICE", p)
<1>1. ms.gs = "PLAYING" /\ ~ms.fDoubled /\ ms.fResigned = 0 /\ ~ms.dice BY DEF CanRoll, Playing
<1>2. /\ Open(Match) /\ Match.ms = ms /\ p \in Player /\ Match.last = plLastMove /\ plLastMove # 1
      /\ Un(ms) = ms /\ Unresigned(ms)
  BY <1>1, InPlay
<1>3. r.mt = "SETDICE" /\ r.fPlayer = p BY DEF Rec
<1> HIDE DEF r
<1>4. IsMove(r) BY <1>2, <1>3 DEF IsMove, Kinds
<1>5. Legal(ms, r) BY <1>1, <1>3, <1>4 DEF Legal
<1>6. Fits(Match, r) BY <1>2, <1>4, <1>5 DEF Fits
<1> QED BY <1>2, <1>6 DEF r

LEMMA RollAdds ==
  ASSUME Valid, CommandRoll
  PROVE  Adds
<1>1. CanRoll /\ Become(RollDice) BY DEF CommandRoll
<1> DEFINE r == Rec("SETDICE", ms.fTurn)
<1>2. Open(Match) /\ Fits(Match, r) BY <1>1, RollFits
<1>3. Become(AddMoveRecord(Match, r)) BY <1>1 DEF RollDice
<1>4. r.mt = "SETDICE" /\ ms.gs = "PLAYING" BY <1>1 DEF Rec, CanRoll, Playing
<1> HIDE DEF r
<1> QED BY <1>2, <1>3, <1>4 DEF Adds

(* A roll and a move: both may be played.                                    *)
RollsAndMoves(moved) ==
  LET t == RollDice  r == Rec("SETDICE", ms.fTurn)  n == Normal(t.ms.fTurn, moved)
  IN  /\ ms.gs = "PLAYING" /\ Open(Match) /\ Fits(Match, r) /\ r.mt = "SETDICE" /\ t = AddMoveRecord(Match, r)
      /\ Open(t) /\ Fits(t, n) /\ n.mt = "NORMAL" /\ t.ms.gs = "PLAYING" /\ Become(AddMoveRecord(t, n))

LEMMA RollAndMoveAdds ==
  ASSUME Valid, NEW moved \in 0..1, CommandRollAndMove(moved)
  PROVE  RollsAndMoves(moved)
<1> DEFINE r == Rec("SETDICE", ms.fTurn)  t == AddMoveRecord(Match, r)  m == t.ms  n == Normal(m.fTurn, moved)
<1>1. CanRoll /\ Become(AddMoveRecord(t, n)) BY DEF CommandRollAndMove, RollDice
<1>2. Open(Match) /\ Fits(Match, r) /\ State(ms) /\ Match.ms = ms
  BY <1>1, RollFits, InPlay DEF CanRoll, Playing
<1>3. r.mt = "SETDICE" /\ r.fPlayer = ms.fTurn /\ r.fPlayer \in Player
  BY <1>1, InPlay DEF Rec, CanRoll, Playing
<1> HIDE DEF r
<1>4. GoodMatch(t) /\ t.last > 1 /\ t.last \in Nat /\ Sound(m) /\ m = Applied(FixMatchState(ms, r), r)
  BY <1>2, Added
<1> HIDE DEF t
<1>5. FixMatchState(ms, r) = ms BY <1>3 DEF FixMatchState
<1>6. State(Cleared(ms)) /\ Cleared(ms).gs = "PLAYING" BY <1>2, ClearedIs
<1>7. m = ApplySetDice(Cleared(ms), r) BY <1>3, <1>4, <1>5, SetDiceApplied
<1>8. m.fTurn = ms.fTurn /\ m.fTurn \in Player /\ ~m.fDoubled /\ m.gs = "PLAYING"
  <2> DEFINE c == Cleared(ms)
  <2> HIDE DEF c
  <2>1. State(c) /\ c.gs = "PLAYING" /\ m = ApplySetDice(c, r) BY <1>6, <1>7 DEF c
  <2> HIDE DEF m
  <2> QED BY <1>3, <2>1, SetDiceIs DEF Fields
<1>9. Open(t) /\ t.last # 1 BY <1>4, <1>8, PlayingOn
<1>10. State(m) /\ Unresigned(m) /\ Un(m) = m
  <2>1. State(m) /\ Unresigned(m) BY <1>4 DEF Sound, Unresigned
  <2> QED BY <2>1, UnIs
<1>11. n.mt = "NORMAL" /\ n.fPlayer = m.fTurn /\ n.off = moved BY DEF Normal
<1> HIDE DEF n
<1>12. IsMove(n) BY <1>8, <1>11 DEF IsMove, Kinds
<1>13. Legal(m, n) BY <1>8, <1>11, <1>12 DEF Legal
<1>14. Fits(t, n) BY <1>9, <1>10, <1>12, <1>13 DEF Fits
<1> QED BY <1>1, <1>2, <1>3, <1>8, <1>9, <1>11, <1>14 DEF RollsAndMoves, RollDice, r, t, n, CanRoll, Playing

LEMMA RollAndMoveValid ==
  ASSUME Valid, NEW moved \in 0..1, RollsAndMoves(moved)
  PROVE  Valid' /\ NextTurnAssert' /\ LimitsKept
<1> DEFINE t == RollDice  r == Rec("SETDICE", ms.fTurn)  n == Normal(t.ms.fTurn, moved)
<1>1. /\ Open(Match) /\ Fits(Match, r) /\ r.mt = "SETDICE" /\ t = AddMoveRecord(Match, r)
      /\ Open(t) /\ Fits(t, n) /\ n.mt = "NORMAL" /\ Become(AddMoveRecord(t, n))
  BY DEF RollsAndMoves
<1> HIDE DEF t, r, n
<1>2. Limits(lMatch) => Limits(t.games)
  <2> SUFFICES ASSUME Limits(lMatch) PROVE Limits(t.games) OBVIOUS
  <2>1. Match.games = lMatch BY DEF Match
  <2>2. Match.cur \in 1..Len(lMatch) /\ Len(lMatch) \in Nat BY <1>1, <2>1, ListedIs DEF Open
  <2>3. \A g \in 1..Match.cur : g \in 1..Len(lMatch) BY <2>2
  <2>4. \A g \in 1..Match.cur : Limited(Match.games[g]) BY <2>1, <2>3 DEF Limits
  <2> QED BY <1>1, <2>4, AddedLimits
<1> QED BY <1>1, <1>2, ActedValid DEF LimitsKept

LEMMA MoveAdds ==
  ASSUME Valid, NEW moved \in 0..1, CommandMove(moved)
  PROVE  Adds
<1> DEFINE r == Normal(ms.fTurn, moved)
<1>1. /\ ms.gs = "PLAYING" /\ ms.fResigned = 0 /\ ~ms.fDoubled /\ Become(AddMoveRecord(Match, r))
  BY DEF CommandMove, Playing, Act
<1>2. /\ Open(Match) /\ Match.ms = ms /\ Match.games = lMatch /\ ms.fTurn \in Player /\ Un(ms) = ms
      /\ Unresigned(ms)
  BY <1>1, InPlay
<1>3. r.mt = "NORMAL" /\ r.fPlayer = ms.fTurn /\ r.off = moved BY DEF Normal
<1> HIDE DEF r
<1>4. IsMove(r) /\ Opener(r) BY <1>2, <1>3 DEF IsMove, Kinds, Opener
<1>5. Legal(ms, r) BY <1>1, <1>3, <1>4 DEF Legal
<1>6. Fits(Match, r) BY <1>2, <1>4, <1>5 DEF Fits
<1> QED BY <1>1, <1>3, <1>6 DEF Adds

LEMMA DoubleAdds ==
  ASSUME Valid, CommandDouble
  PROVE  Adds
<1> DEFINE r == Rec("DOUBLE", ms.fTurn)
<1>1. /\ ms.gs = "PLAYING" /\ ~ms.fDoubled /\ ms.fTurn = ms.fMove /\ ~ms.dice
      /\ Become(AddMoveRecord(Match, r)) /\ ~ms.fCrawford
  BY DEF CommandDouble, Playing, Act
<1>2. /\ Open(Match) /\ Match.ms = ms /\ Match.games = lMatch /\ Match.last # 1 /\ State(ms) /\ OnTurn(Un(ms))
      /\ ms.fTurn \in Player
  BY <1>1, InPlay
<1>3. ms.fResigned = 0
  <2> SUFFICES ASSUME ms.fResigned # 0 PROVE FALSE OBVIOUS
  <2>1. Un(ms) = [ms EXCEPT !.fTurn = Not(@)] BY <1>1 DEF Un
  <2>2. Un(ms).fTurn = Not(ms.fTurn) BY <1>2, <2>1 DEF State, Fields
  <2>3. Un(ms).fMove = ms.fMove /\ Un(ms).fDoubled = ms.fDoubled /\ Un(ms).cBeavers = ms.cBeavers
    BY <1>2, UnIs DEF Fields
  <2> DEFINE u == Un(ms)
  <2>4. OnTurn(u) /\ ~u.fDoubled /\ u.fTurn = Not(u.fMove) /\ u.fMove \in Player BY <1>1, <1>2, <2>2, <2>3
  <2> HIDE DEF u
  <2>5. u.fTurn = u.fMove BY <2>4, Parity DEF OnTurn, Flag
  <2> QED BY <2>4, <2>5, NotTwice
<1>4. Un(ms) = ms /\ Unresigned(ms) BY <1>1, <1>3, InPlay
<1>5. r.mt = "DOUBLE" /\ r.fPlayer = ms.fTurn BY DEF Rec
<1> HIDE DEF r
<1>6. IsMove(r) BY <1>2, <1>5 DEF IsMove, Kinds
<1>7. Legal(ms, r) BY <1>1, <1>5, <1>6 DEF Legal
<1>8. Fits(Match, r) BY <1>2, <1>4, <1>6, <1>7 DEF Fits
<1>9. MayDouble(ms)
  <2>1. ms.nCube < (IF ms.nMatchTo > 0 THEN MAXSCORE ELSE MAX_CUBE) BY DEF CommandDouble
  <2>2. ms.nCube \in Nat /\ MAXSCORE \in Nat /\ MAX_CUBE \in Nat /\ MAXSCORE <= MAX_CUBE
    BY <1>2, CubeAssumption, CubePowerAssumption DEF State
  <2>3. ms.nCube < MAX_CUBE
    <3>1. CASE ms.nMatchTo > 0 BY <2>1, <2>2, <3>1
    <3>2. CASE ~(ms.nMatchTo > 0) BY <2>1, <3>2
    <3> QED BY <3>1, <3>2
  <2> QED BY <1>1, <2>3 DEF MayDouble
<1> QED BY <1>1, <1>8, <1>9 DEF Adds

(* A beaver: the new owner of the cube is what ApplyMoveRecord makes it.     *)
LEMMA Redoubled ==
  ASSUME State(ms), ms.fDoubled, ms.fMove \in Player, ms.nCube < MAX_CUBE, NEW r, r.mt = "DOUBLE",
         r.fPlayer = ms.fTurn, NEW o
  PROVE  AddMoveRecord([Match EXCEPT !.ms.fCubeOwner = o], r) = AddMoveRecord(Match, r)
<1> DEFINE n == [ms EXCEPT !.fCubeOwner = o]  s == [Match EXCEPT !.ms.fCubeOwner = o]
           c == Cleared(n)  d == Cleared(ms)
<1>1. s.ms = n /\ s.games = Match.games /\ s.cur = Match.cur /\ s.last = Match.last /\ Match.ms = ms
  BY DEF Match
<1>2. /\ State(n) /\ \A f \in Fields \ {"fCubeOwner"} : n[f] = ms[f]
  BY DEF State, Fields
<1> HIDE DEF s, n
<1>3. FixMatchState(n, r) = n /\ FixMatchState(ms, r) = ms BY <1>2 DEF FixMatchState, Fields
<1>4. /\ State(c) /\ State(d) /\ \A f \in Fields \ {"fCubeOwner"} : c[f] = d[f]
      /\ d.fDoubled /\ d.nCube = ms.nCube /\ d.fMove = ms.fMove
  <2>1. /\ State(c) /\ State(d)
        /\ \A f \in Fields \ {"gs", "fResigned", "fResignationDeclined"} : c[f] = n[f]
        /\ \A f \in Fields \ {"gs", "fResigned", "fResignationDeclined"} : d[f] = ms[f]
        /\ c.gs = "PLAYING" /\ d.gs = "PLAYING" /\ c.fResigned = 0 /\ d.fResigned = 0
    BY <1>2, ClearedIs
  <2>2. c.fResignationDeclined = 0 /\ d.fResignationDeclined = 0 BY <1>2 DEF Cleared, State, Fields
  <2> HIDE DEF c, d
  <2>3. ASSUME NEW f \in Fields \ {"fCubeOwner"} PROVE c[f] = d[f]
    <3>1. CASE f \in {"gs", "fResigned", "fResignationDeclined"} BY <2>1, <2>2, <3>1
    <3>2. CASE f \notin {"gs", "fResigned", "fResignationDeclined"} BY <1>2, <2>1, <3>2
    <3> QED BY <3>1, <3>2
  <2>4. d.fDoubled /\ d.nCube = ms.nCube /\ d.fMove = ms.fMove BY <2>1 DEF Fields
  <2> QED BY <2>1, <2>3, <2>4
<1>5. ApplyDouble(c, r) = ApplyDouble(d, r)
  <2> HIDE DEF c, d
  <2>1. c.fMove \in Player /\ d.fMove \in Player /\ c.fDoubled /\ d.fDoubled BY <1>4 DEF Fields
  <2>2. ~(c.nCube >= MAX_CUBE) /\ ~(d.nCube >= MAX_CUBE)
    <3>1. c.nCube = ms.nCube /\ d.nCube = ms.nCube /\ ms.nCube \in Nat BY <1>4 DEF Fields, State
    <3> QED BY <3>1, CubeAssumption
  <2>3. ~(c.fMove < 0) /\ ~(d.fMove < 0) BY <2>1 DEF Player
  <2>4. /\ ApplyDouble(c, r) = [c EXCEPT !.cBeavers = @ + 1, !.nCube = 2 * @, !.fCubeOwner = Not(c.fMove),
                                         !.fTurn = Not(r.fPlayer)]
        /\ ApplyDouble(d, r) = [d EXCEPT !.cBeavers = @ + 1, !.nCube = 2 * @, !.fCubeOwner = Not(d.fMove),
                                         !.fTurn = Not(r.fPlayer)]
    BY <2>1, <2>2, <2>3 DEF ApplyDouble
  <2> QED BY <1>4, <2>4 DEF State, Fields
<1>6. \A i : ApplyMoveRecord(n, i, r) = ApplyMoveRecord(ms, i, r)
  <2>1. \A x, i : ApplyMoveRecord(x, i, r) = Same(ApplyDouble(Cleared(x), r), i)
    BY DEF ApplyMoveRecord, Cleared
  <2> QED BY <1>5, <2>1
<1>7. \A i : ApplyMoveRecord(FixMatchState(s.ms, r), i, r) = ApplyMoveRecord(FixMatchState(Match.ms, r), i, r)
  BY <1>1, <1>3, <1>6
<1> HIDE DEF c, d
<1>8. AddMoveRecord(s, r) = AddMoveRecord(Match, r) BY <1>1, <1>7 DEF AddMoveRecord
<1> QED BY <1>8 DEF s

LEMMA RedoubleAdds ==
  ASSUME Valid, Settled, CommandRedouble
  PROVE  Adds
<1> DEFINE r == Rec("DOUBLE", ms.fTurn)  o == Not(ms.fMove)
<1>1. /\ ms.gs = "PLAYING" /\ ms.fDoubled /\ ms.nCube < MAX_CUBE \div 2 /\ ms.fResigned = 0
      /\ ms.nMatchTo = 0 /\ Become(AddMoveRecord([Match EXCEPT !.ms.fCubeOwner = o], r))
  BY DEF CommandRedouble, Playing, Act, Settled
<1>2. /\ Open(Match) /\ Match.ms = ms /\ Match.games = lMatch /\ Match.last # 1 /\ State(ms) /\ OnTurn(ms)
      /\ ms.fTurn \in Player /\ Un(ms) = ms /\ Unresigned(ms)
  BY <1>1, InPlay
<1>3. ms.fMove \in Player BY <1>2 DEF OnTurn
<1>4. ms.nCube < MAX_CUBE
  <2>1. ms.nCube \in Nat /\ MAX_CUBE \in Nat BY <1>2, CubeAssumption DEF State
  <2>2. MAX_CUBE \div 2 <= MAX_CUBE /\ MAX_CUBE \div 2 \in Nat BY <2>1
  <2> QED BY <1>1, <2>1, <2>2
<1>5. r.mt = "DOUBLE" /\ r.fPlayer = ms.fTurn BY DEF Rec
<1> HIDE DEF r, o
<1>6. AddMoveRecord([Match EXCEPT !.ms.fCubeOwner = o], r) = AddMoveRecord(Match, r)
  BY <1>1, <1>2, <1>3, <1>4, <1>5, Redoubled
<1>7. Become(AddMoveRecord(Match, r)) BY <1>1, <1>6
<1>8. IsMove(r) BY <1>2, <1>5 DEF IsMove, Kinds
<1>9. Legal(ms, r) BY <1>1, <1>5, <1>8 DEF Legal
<1>10. Fits(Match, r) BY <1>2, <1>8, <1>9 DEF Fits
<1>11. MayDouble(ms) BY <1>1 DEF MayDouble
<1> QED BY <1>1, <1>7, <1>10, <1>11 DEF Adds

LEMMA AnswerAdds ==
  ASSUME Valid, Settled, CommandTake \/ CommandDrop
  PROVE  Adds
<1>1. PICK mt \in {"TAKE", "DROP"} :
        ms.gs = "PLAYING" /\ ms.fDoubled /\ Become(AddMoveRecord(Match, Rec(mt, ms.fTurn)))
  BY DEF CommandTake, CommandDrop, Playing, Act
<1> DEFINE r == Rec(mt, ms.fTurn)
<1>2. ms.fResigned = 0 BY <1>1 DEF Settled
<1>3. /\ Open(Match) /\ Match.ms = ms /\ Match.games = lMatch /\ Match.last # 1 /\ ms.fTurn \in Player
      /\ Un(ms) = ms /\ Unresigned(ms)
  BY <1>1, <1>2, InPlay
<1>4. r.mt = mt /\ r.fPlayer = ms.fTurn /\ Become(AddMoveRecord(Match, r)) BY <1>1 DEF Rec
<1> HIDE DEF r
<1>5. IsMove(r) BY <1>3, <1>4 DEF IsMove, Kinds
<1>6. Legal(ms, r) BY <1>1, <1>4, <1>5 DEF Legal
<1>7. Fits(Match, r) BY <1>3, <1>5, <1>6 DEF Fits
<1> QED BY <1>1, <1>4, <1>7 DEF Adds

LEMMA AgreeAdds ==
  ASSUME Valid, CommandAgree
  PROVE  Adds
<1> DEFINE r == Resignation(Not(ms.fTurn), ms.fResigned)
<1>1. ms.gs = "PLAYING" /\ Become(AddMoveRecord(Match, r)) BY DEF CommandAgree, Playing, Act
<1>2. Open(Match) /\ Match.ms = ms /\ Match.games = lMatch /\ State(ms) BY <1>1, InPlay
<1>3. r.mt = "RESIGN" /\ r.fPlayer \in Player /\ r.nResigned \in Nat
  BY <1>1, NotIs DEF Resignation, Valid, Turned
<1> HIDE DEF r
<1>4. IsMove(r) /\ Opener(r) BY <1>3 DEF IsMove, Kinds, Opener
<1>5. Un(ms).gs = "PLAYING" BY <1>1, <1>2, UnIs DEF Fields
<1>6. Legal(Un(ms), r) BY <1>3, <1>4, <1>5 DEF Legal
<1>7. Fits(Match, r) BY <1>2, <1>3, <1>4, <1>6 DEF Fits
<1> QED BY <1>1, <1>3, <1>7 DEF Adds

(* A resignation is offered or declined: only the turn changes.              *)
LEMMA RelatedAs ==
  ASSUME NEW m, NEW n, State(n), NEW G, NEW k, Related(m, G, k), State(m), Alike(Un(n), Un(m)),
         n.gs = m.gs, n.dice = m.dice, n.fMove = m.fMove,
         \A f \in {"anBoard", "fDoubled", "cBeavers", "fCubeOwner", "nCube", "anScore", "cGames", "nMatchTo",
                   "fJacoby"} :
           n[f] = m[f]
  PROVE  Related(n, G, k)
<1>1. Near(n, G, k)
  <2>1. CASE k > 1
    <3>1. Alike(Un(m), Replayed(G, k)) BY <2>1 DEF Related, Near
    <3>2. Alike(Un(n), Replayed(G, k)) BY <3>1, AlikeTrans
    <3> QED BY <2>1, <3>2 DEF Near
  <2>2. CASE ~(k > 1)
    <3>1. Started(m) /\ SameScore(m, Replayed(G, 1)) BY <2>2 DEF Related, Near
    <3>2. Started(n) /\ SameScore(n, Replayed(G, 1)) BY <3>1 DEF Started, SameScore
    <3> QED BY <2>2, <3>2 DEF Near
  <2> QED BY <2>1, <2>2
<1>2. n.gs = "PLAYING" => Un(n).fTurn = Un(m).fTurn
  <2>1. n.gs = "PLAYING" => Un(n).gs = "PLAYING" BY UnIs DEF Fields
  <2> QED BY <2>1 DEF Alike
<1> QED BY <1>1, <1>2 DEF Related

LEMMA OnlyState ==
  ASSUME Valid, State(ms'), plGame = 0 => ms'.gs = "NONE",
         \A G, k : Related(ms, G, k) => Related(ms', G, k), Turned(ms'), UNCHANGED <<lMatch, plGame, plLastMove>>
  PROVE  Valid'
<1>1. Match' = [ms |-> ms', games |-> lMatch, cur |-> plGame, last |-> plLastMove] BY DEF Match
<1>2. Match = [ms |-> ms, games |-> lMatch, cur |-> plGame, last |-> plLastMove] BY DEF Match
<1>3. /\ State(ms) /\ Games(lMatch)
      /\ \/ plGame = 0 /\ lMatch = <<>> /\ plLastMove = 0 /\ ms.gs = "NONE"
         \/ /\ plGame \in 1..Len(lMatch) /\ plLastMove \in 1..Len(lMatch[plGame])
            /\ Related(ms, lMatch[plGame], plLastMove)
  BY <1>2 DEF Valid, GoodMatch
<1> DEFINE t == [ms |-> ms', games |-> lMatch, cur |-> plGame, last |-> plLastMove]
<1>4. t.ms = ms' /\ t.games = lMatch /\ t.cur = plGame /\ t.last = plLastMove OBVIOUS
<1> HIDE DEF t
<1>5. GoodMatch(t) BY <1>3, <1>4 DEF GoodMatch
<1>6. Become(t) BY <1>4 DEF Become
<1>7. Turned(t.ms) BY <1>4
<1>8. GoodMatch(Match)' /\ Turned(ms)' BY <1>5, <1>6, <1>7, Becomes
<1> QED BY <1>8 DEF Valid

LEMMA ResignValid ==
  ASSUME Valid, Settled, NEW j \in 0..3, CommandResign(j)
  PROVE  Valid' /\ GameStatus(ms'.anBoard) = 0 /\ ms'.gs = "PLAYING" /\ LimitsKept
<1>1. ms.gs = "PLAYING" /\ ms.fResigned = 0 /\ UNCHANGED <<lMatch, plGame, plLastMove>>
  BY DEF CommandResign, Playing, Settled
<1>2. /\ State(ms) /\ ms.fTurn \in Player /\ Un(ms) = ms /\ GameStatus(ms.anBoard) = 0
      /\ Match.cur # 0 /\ Match.cur = plGame
  <2>1. Match.ms = ms /\ Match.cur = plGame BY DEF Match
  <2>2. Match.cur # 0 BY <1>1, <2>1, PlayingOn DEF Valid
  <2> QED BY <1>1, <2>1, <2>2, InPlay
<1>3. LimitsKept BY <1>1 DEF LimitsKept
<1>4. CASE ms' = [ms EXCEPT !.fResigned = 0]
  <2>1. ms' = ms BY <1>1, <1>2, <1>4 DEF State, Fields
  <2>2. Turned(ms') BY <2>1 DEF Valid
  <2>3. Valid' BY <1>1, <1>2, <2>1, <2>2, OnlyState
  <2> QED BY <1>1, <1>2, <1>3, <2>1, <2>3
<1>5. CASE j # 0 /\ ms' = [ms EXCEPT !.fResigned = j, !.fTurn = Not(@)]
  <2> DEFINE n == [ms EXCEPT !.fResigned = j, !.fTurn = Not(@)]
  <2>1. /\ State(n) /\ n.fResigned = j /\ n.fTurn = Not(ms.fTurn)
        /\ \A f \in Fields \ {"fResigned", "fTurn"} : n[f] = ms[f]
    <3>1. Not(ms.fTurn) \in Player BY NotIs
    <3> QED BY <1>2, <3>1 DEF State, Fields
  <2>2. ms' = n BY <1>5
  <2> HIDE DEF n
  <2>3. n.gs = "PLAYING" /\ n.fTurn \in Player BY <1>1, <2>1, NotIs DEF Fields
  <2>4. Un(n) = [n EXCEPT !.fTurn = Not(@)] BY <1>5, <2>1, <2>3 DEF Un
  <2>5. Un(n).fTurn = ms.fTurn
    <3>1. Un(n).fTurn = Not(n.fTurn) BY <2>1, <2>4 DEF State, Fields
    <3> QED BY <1>2, <2>1, <3>1, NotTwice
  <2>6. \A f \in Fields \ {"fTurn"} : Un(n)[f] = n[f] BY <2>1, UnIs
  <2>7. Alike(Un(n), ms) BY <2>1, <2>5, <2>6 DEF Alike, Fields
  <2>8. \A G, k : Related(ms, G, k) => Related(n, G, k)
    <3> SUFFICES ASSUME NEW G, NEW k, Related(ms, G, k) PROVE Related(n, G, k) OBVIOUS
    <3>1. n.gs = ms.gs /\ n.dice = ms.dice /\ n.fMove = ms.fMove BY <2>1 DEF Fields
    <3>2. \A f \in {"anBoard", "fDoubled", "cBeavers", "fCubeOwner", "nCube", "anScore", "cGames", "nMatchTo",
                    "fJacoby"} :
           n[f] = ms[f]
      BY <2>1 DEF Fields
    <3> QED BY <1>2, <2>1, <2>7, <3>1, <3>2, RelatedAs
  <2>9. Turned(n) BY <2>1, <2>3 DEF Turned
  <2>10. Valid' BY <1>1, <1>2, <2>1, <2>2, <2>8, <2>9, OnlyState
  <2>11. n.anBoard = ms.anBoard BY <2>1 DEF Fields
  <2> QED BY <1>2, <1>3, <2>2, <2>3, <2>10, <2>11
<1>6. ms' = [ms EXCEPT !.fResigned = 0] \/ (j # 0 /\ ms' = [ms EXCEPT !.fResigned = j, !.fTurn = Not(@)])
  BY DEF CommandResign
<1> QED BY <1>4, <1>5, <1>6

LEMMA DeclineValid ==
  ASSUME Valid, CommandDecline
  PROVE  Valid' /\ GameStatus(ms'.anBoard) = 0 /\ ms'.gs = "PLAYING" /\ LimitsKept
<1> DEFINE n == [ms EXCEPT !.fResignationDeclined = ms.fResigned, !.fResigned = 0, !.fTurn = Not(@)]
<1>1. ms.gs = "PLAYING" /\ ms.fResigned # 0 /\ ms' = n /\ UNCHANGED <<lMatch, plGame, plLastMove>>
  BY DEF CommandDecline, Playing
<1>2. /\ State(ms) /\ ms.fTurn \in Player /\ GameStatus(ms.anBoard) = 0
      /\ Match.cur # 0 /\ Match.cur = plGame
  <2>1. Match.ms = ms /\ Match.cur = plGame BY DEF Match
  <2>2. Match.cur # 0 BY <1>1, <2>1, PlayingOn DEF Valid
  <2> QED BY <1>1, <2>1, <2>2, InPlay
<1>3. /\ State(n) /\ n.fResigned = 0 /\ n.fTurn = Not(ms.fTurn)
      /\ \A f \in Fields \ {"fResigned", "fResignationDeclined", "fTurn"} : n[f] = ms[f]
  <2>1. Not(ms.fTurn) \in Player BY NotIs
  <2> QED BY <1>2, <2>1 DEF State, Fields
<1> HIDE DEF n
<1>4. n.gs = "PLAYING" /\ n.fTurn \in Player BY <1>1, <1>3, NotIs DEF Fields
<1>5. Un(n) = n BY <1>3, <1>4, UnIs DEF Unresigned
<1>6. Un(ms) = [ms EXCEPT !.fTurn = Not(@)] BY <1>1 DEF Un
<1>7. Un(ms).fTurn = n.fTurn BY <1>2, <1>3, <1>6 DEF State, Fields
<1>8. \A f \in Fields \ {"fTurn"} : Un(ms)[f] = ms[f] BY <1>2, UnIs
<1>9. Alike(Un(n), Un(ms)) BY <1>3, <1>5, <1>7, <1>8 DEF Alike, Fields
<1>10. \A G, k : Related(ms, G, k) => Related(n, G, k)
  <2> SUFFICES ASSUME NEW G, NEW k, Related(ms, G, k) PROVE Related(n, G, k) OBVIOUS
  <2>1. n.gs = ms.gs /\ n.dice = ms.dice /\ n.fMove = ms.fMove BY <1>3 DEF Fields
  <2>2. \A f \in {"anBoard", "fDoubled", "cBeavers", "fCubeOwner", "nCube", "anScore", "cGames", "nMatchTo",
                  "fJacoby"} :
          n[f] = ms[f]
    BY <1>3 DEF Fields
  <2> QED BY <1>2, <1>3, <1>9, <2>1, <2>2, RelatedAs
<1>11. Turned(n) BY <1>3, <1>4 DEF Turned
<1>12. Valid' BY <1>1, <1>2, <1>3, <1>10, <1>11, OnlyState
<1>13. n.anBoard = ms.anBoard BY <1>3 DEF Fields
<1>14. LimitsKept BY <1>1 DEF LimitsKept
<1> QED BY <1>1, <1>2, <1>4, <1>12, <1>13, <1>14

-----------------------------------------------------------------------------
(* The next game.                                                            *)
LEMMA EndOfGameIs ==
  ASSUME State(ms)
  PROVE  /\ State(EndOfGame)
         /\ \A f \in Fields \ {"fResigned", "fCrawford", "fPostCrawford"} : EndOfGame[f] = ms[f]
<1> DEFINE s == IF fX /\ fDisplay THEN [ms EXCEPT !.fResigned = 0] ELSE ms
<1>1. State(s) /\ \A f \in Fields \ {"fResigned"} : s[f] = ms[f] BY DEF State, Fields
<1>2. PICK x, y : EndOfGame = [s EXCEPT !.fPostCrawford = x, !.fCrawford = y] \/ EndOfGame = s
  <2> HIDE DEF s
  <2> QED BY DEF EndOfGame, s
<1> HIDE DEF s
<1> QED BY <1>1, <1>2 DEF State, Fields

LEMMA GameOverValid ==
  ASSUME Valid, GameEnded, ms' = EndOfGame, UNCHANGED <<lMatch, plGame, plLastMove>>
  PROVE  Valid'
<1>1. ms.gs # "PLAYING" BY InPlay DEF GameEnded
<1>2. State(ms) /\ (plGame = 0 => ms.gs = "NONE")
  <2>1. Match.ms = ms /\ Match.cur = plGame /\ Match.games = lMatch BY DEF Match
  <2>2. Len(lMatch) \in Nat BY <2>1, ListedIs DEF Valid, GoodMatch, Games
  <2> QED BY <2>1, <2>2 DEF Valid, GoodMatch
<1> DEFINE n == EndOfGame
<1>3. /\ State(n) /\ \A f \in Fields \ {"fResigned", "fCrawford", "fPostCrawford"} : n[f] = ms[f]
  BY <1>2, EndOfGameIs
<1> HIDE DEF n
<1>4. n.gs = ms.gs /\ n.dice = ms.dice /\ n.fMove = ms.fMove BY <1>3 DEF Fields
<1>5. Un(n) = n /\ Un(ms) = ms BY <1>1, <1>2, <1>3, <1>4, UnIs DEF Unresigned
<1>6. Alike(Un(n), Un(ms)) BY <1>3, <1>5 DEF Alike, Fields
<1>7. \A G, k : Related(ms, G, k) => Related(n, G, k)
  <2> SUFFICES ASSUME NEW G, NEW k, Related(ms, G, k) PROVE Related(n, G, k) OBVIOUS
  <2>1. \A f \in {"anBoard", "fDoubled", "cBeavers", "fCubeOwner", "nCube", "anScore", "cGames", "nMatchTo",
                  "fJacoby"} :
          n[f] = ms[f]
    BY <1>3 DEF Fields
  <2> QED BY <1>2, <1>3, <1>4, <1>6, <2>1, RelatedAs
<1>8. Turned(n) BY <1>1, <1>4 DEF Turned
<1>9. ms' = n BY DEF n
<1> QED BY <1>2, <1>3, <1>4, <1>7, <1>8, <1>9, OnlyState

(* The doubles of the opening roll turn the cube of the match state and that *)
(* of the game-info record alike, if they are shown or there are none.       *)
Shown == fDisplay \/ cAutoDoubles = 0

LEMMA InfoIs ==
  ASSUME NEW i, NEW nMatch, NEW anScore, NEW crawford, NEW jacoby
  PROVE  /\ IsInfo(Info(i, nMatch, anScore, crawford, jacoby))
         /\ Info(i, nMatch, anScore, crawford, jacoby).nAutoDoubles = 0
BY DEF Info, IsInfo, InfoFields

LEMMA NotedIs ==
  ASSUME NEW info, IsInfo(info), NEW n \in Nat
  PROVE  /\ IsInfo(Noted(info, n)) /\ Noted(info, n).nAutoDoubles = n
         /\ \A f \in InfoFields \ {"nAutoDoubles"} : Noted(info, n)[f] = info[f]
BY DEF Noted, IsInfo, InfoFields

LEMMA AutoDoublesIs ==
  ASSUME Shown, NEW m, NEW rolls \in Nat
  PROVE  /\ AutoDoubles(m, rolls) \in Nat /\ (~fDisplay => AutoDoubles(m, rolls) = 0)
         /\ AutoDoubles(m, rolls) <= cAutoDoubles /\ TwoTo[AutoDoubles(m, rolls)] <= MAX_CUBE
<1> DEFINE cube(k) == IF fDisplay THEN TwoTo[k] ELSE 1
           S == {k \in 0..(rolls - 1) : cube(k) < TwoTo[cAutoDoubles] /\ cube(k) < MAX_CUBE}
           d == AutoDoubles(m, rolls)
           c == cAutoDoubles
<1>1. d = IF m.nMatchTo > 0 THEN 0 ELSE Cardinality(S) BY DEF AutoDoubles
<1>2. c \in Nat BY CubeAssumption
<1>3. PICK n \in Nat : MAX_CUBE = TwoTo[n]
  <2>1. MAX_CUBE \in Nat BY CubeAssumption
  <2>2. \A k \in 0..MAX_CUBE : k \in Nat BY <2>1
  <2> QED BY <2>2, CubePowerAssumption
<1>4. ~fDisplay => S = {}
  <2> SUFFICES ASSUME ~fDisplay PROVE S = {} OBVIOUS
  <2>1. TwoTo[cAutoDoubles] = 1
    <3>1. 0 \in Nat OBVIOUS
    <3> QED BY <3>1, TwoToIs DEF Shown
  <2>2. \A k : ~(cube(k) < TwoTo[cAutoDoubles]) BY <2>1
  <2> QED BY <2>2
<1>5. fDisplay => S \subseteq 0..(c - 1) /\ S \subseteq 0..(n - 1)
  <2> SUFFICES ASSUME fDisplay, NEW k \in S PROVE k \in 0..(c - 1) /\ k \in 0..(n - 1) OBVIOUS
  <2>1. k \in Nat /\ TwoTo[k] < TwoTo[c] /\ TwoTo[k] < TwoTo[n] BY <1>3
  <2>2. k < c /\ k < n BY <1>2, <2>1, TwoToGrows
  <2> QED BY <1>2, <2>1, <2>2
<1> HIDE DEF S, c
<1>6. \A i \in Nat : IsFiniteSet(0..(i - 1)) /\ Cardinality(0..(i - 1)) = i
  <2> TAKE i \in Nat
  <2>1. 0 \in Int /\ i - 1 \in Int /\ (i - 1) - 0 + 1 = i OBVIOUS
  <2> DEFINE j == i - 1
  <2>2. 0 \in Int /\ j \in Int /\ j - 0 + 1 = i BY <2>1
  <2> HIDE DEF j
  <2>3. IsFiniteSet(0..j) /\ Cardinality(0..j) = IF 0 > j THEN 0 ELSE j - 0 + 1 BY <2>2, FS_Interval
  <2>4. 0 > j => i = 0 BY <2>2
  <2>5. Cardinality(0..j) = i BY <2>2, <2>3, <2>4
  <2> QED BY <2>3, <2>5 DEF j
<1>7. \A i \in Nat : S \subseteq 0..(i - 1) => Cardinality(S) \in Nat /\ Cardinality(S) <= i
  <2> SUFFICES ASSUME NEW i \in Nat, S \subseteq 0..(i - 1) PROVE Cardinality(S) \in Nat /\ Cardinality(S) <= i
    OBVIOUS
  <2>1. IsFiniteSet(S) /\ Cardinality(S) <= Cardinality(0..(i - 1)) BY <1>6, FS_Subset
  <2> QED BY <1>6, <2>1, FS_CardinalityType
<1>8. Cardinality({}) = 0 BY FS_EmptySet
<1>9. d \in Nat /\ d <= c /\ d <= n /\ (~fDisplay => d = 0) BY <1>1, <1>2, <1>4, <1>5, <1>7, <1>8
<1> HIDE DEF d
<1>10. TwoTo[d] <= MAX_CUBE BY <1>3, <1>9, TwoToGrows
<1> QED BY <1>9, <1>10 DEF c, d

(* The fields of the match state that a game-info record sets.               *)
LEMMA InfoSets ==
  ASSUME NEW m, State(m), NEW r, IsInfo(r), NEW info
  PROVE  LET a == ApplyMoveRecord(m, info, r).ms
         IN  /\ a.fCubeOwner = None /\ ~a.fDoubled /\ a.nCube = TwoTo[r.nAutoDoubles]
             /\ a.anScore = r.anScore /\ a.cGames = r.i /\ a.nMatchTo = r.nMatch /\ a.fJacoby = r.fJacoby
<1> DEFINE c == Cleared(m)  d == ApplyInfo(c, r)
<1>1. ApplyMoveRecord(m, info, r).ms = d BY DEF ApplyMoveRecord, Cleared, IsInfo, Same
<1>2. State(c) BY ClearedIs
<1> HIDE DEF c
<1>3. /\ d.fCubeOwner = None /\ ~d.fDoubled /\ d.nCube = TwoTo[r.nAutoDoubles]
      /\ d.anScore = r.anScore /\ d.cGames = r.i /\ d.nMatchTo = r.nMatch /\ d.fJacoby = r.fJacoby
  BY <1>2 DEF ApplyInfo, State, Fields
<1> HIDE DEF d
<1> QED BY <1>1, <1>3

LEMMA CrawfordIs ==
  ASSUME NEW m, State(m), NEW state
  PROVE  State(Crawford(m, state))
<1>1. PICK x, y : Crawford(m, state) = [m EXCEPT !.fCrawford = x, !.fPostCrawford = y]
                  \/ Crawford(m, state) = [m EXCEPT !.fPostCrawford = x, !.fCrawford = y]
                  \/ Crawford(m, state) = m
  BY DEF Crawford
<1> QED BY <1>1 DEF State, Fields

(* A game that has just begun: nothing but its game-info record.             *)
LEMMA BegunOne ==
  ASSUME NEW info, IsInfo(info)
  PROVE  Begun(<<info>>) /\ Len(<<info>>) = 1 /\ <<info>>[1] = info
<1> DEFINE G == <<info>>
<1>1. Listed(G) /\ Len(G) = 1 /\ G[1] = info BY ListedOne
<1> HIDE DEF G
<1>2. Begun(G) BY <1>1 DEF Begun, Records
<1> QED BY <1>1, <1>2 DEF G

LEMMA NewGameRolled ==
  ASSUME Shown, NEW l, Games(l), NEW m, State(m), NEW rolls \in Nat, NEW info, IsInfo(info), info.nAutoDoubles = 0,
         NEW v
  PROVE  LET begun == ApplyMoveRecord(m, info, info)
             doubles == AutoDoubles(v, rolls)
             s == [ms |-> [begun.ms EXCEPT !.nCube = IF fDisplay THEN TwoTo[doubles] ELSE @],
                   games |-> Append(l, <<Noted(info, doubles)>>), cur |-> Len(l) + 1, last |-> 1]
         IN  /\ Open(s) /\ s.last = 1 /\ Unresigned(s.ms)
             /\ Limits(l) => \A g \in 1..s.cur : Limited(s.games[g])
<1> DEFINE b == ApplyMoveRecord(m, info, info).ms
           d == AutoDoubles(v, rolls)
           n == [b EXCEPT !.nCube = IF fDisplay THEN TwoTo[d] ELSE @]
           i == Noted(info, d)
           G == <<i>>
           L == Append(l, G)
           c == Len(l) + 1
           s == [ms |-> n, games |-> L, cur |-> c, last |-> 1]
           p == Replayed(G, 1)
<1>1. d \in Nat /\ (~fDisplay => d = 0) /\ TwoTo[d] \in Nat /\ TwoTo[0] = 1 /\ d <= cAutoDoubles /\ TwoTo[d] <= MAX_CUBE
  <2>1. d \in Nat /\ (~fDisplay => d = 0) /\ d <= cAutoDoubles /\ TwoTo[d] <= MAX_CUBE BY AutoDoublesIs
  <2> HIDE DEF d
  <2> QED BY <2>1, TwoToIs
<1>2. Started(b) /\ b.gs = "NONE" /\ State(b) BY InfoApplied DEF Started
<1>3. /\ b.fCubeOwner = None /\ b.nCube = TwoTo[0] /\ b.anScore = info.anScore /\ b.cGames = info.i
      /\ b.nMatchTo = info.nMatch /\ b.fJacoby = info.fJacoby
  BY InfoSets
<1> HIDE DEF d, b
<1>4. IsInfo(i) /\ i.nAutoDoubles = d /\ \A f \in InfoFields \ {"nAutoDoubles"} : i[f] = info[f]
  BY <1>1, NotedIs
<1> HIDE DEF i
<1>5. Begun(G) /\ Len(G) = 1 /\ G[1] = i BY <1>4, BegunOne
<1> HIDE DEF G
<1>6. State(n) /\ n.nCube = TwoTo[d] /\ \A f \in Fields \ {"nCube"} : n[f] = b[f]
  <2>1. CASE fDisplay
    <3>1. n = [b EXCEPT !.nCube = TwoTo[d]] BY <2>1
    <3> DEFINE z == TwoTo[d]
    <3>2. z \in Nat /\ n = [b EXCEPT !.nCube = z] BY <1>1, <3>1
    <3> HIDE DEF z, n
    <3> QED BY <1>2, <3>2 DEF State, Fields, z
  <2>2. CASE ~fDisplay
    <3>1. n = [b EXCEPT !.nCube = @] BY <2>2
    <3>2. d = 0 BY <1>1, <2>2
    <3> HIDE DEF n
    <3> QED BY <1>2, <1>3, <3>1, <3>2 DEF State, Fields
  <2> QED BY <2>1, <2>2
<1> HIDE DEF n
<1>7. Started(n) /\ n.gs = "NONE" BY <1>2, <1>6 DEF Started, Fields
<1>8. SameScore(n, p) /\ p.nCube = TwoTo[d] /\ ~p.fDoubled
  <2>1. p = ApplyMoveRecord(Blank, G[1], G[1]).ms
    <3>1. Records(G) BY <1>5 DEF Begun
    <3> QED BY <3>1, BlankIs, FirstStep DEF Replayed
  <2>2. p = ApplyMoveRecord(Blank, i, i).ms BY <1>5, <2>1
  <2> HIDE DEF p
  <2>3. /\ p.fCubeOwner = None /\ ~p.fDoubled /\ p.nCube = TwoTo[d] /\ p.anScore = i.anScore /\ p.cGames = i.i
        /\ p.nMatchTo = i.nMatch /\ p.fJacoby = i.fJacoby
    BY <1>4, <2>2, BlankIs, InfoSets
  <2>4. /\ i.anScore = info.anScore /\ i.i = info.i /\ i.nMatch = info.nMatch /\ i.fJacoby = info.fJacoby
    BY <1>4 DEF InfoFields
  <2>5. /\ n.fCubeOwner = b.fCubeOwner /\ n.anScore = b.anScore /\ n.cGames = b.cGames
        /\ n.nMatchTo = b.nMatchTo /\ n.fJacoby = b.fJacoby
    BY <1>6 DEF Fields
  <2> QED BY <1>3, <1>6, <2>3, <2>4, <2>5 DEF SameScore
<1>9. Near(n, G, 1) BY <1>6, <1>7, <1>8 DEF Near
<1>10. /\ Listed(L) /\ Len(L) = c /\ L[c] = G /\ c \in Nat /\ c >= 1 /\ c \in 1..c
       /\ \A g \in 1..(c - 1) : GoodGame(L[g]) /\ L[g] = l[g]
       /\ c - 1 = Len(l)
  <2>1. Listed(l) /\ Len(l) \in Nat /\ \A g \in 1..Len(l) : GoodGame(l[g]) BY ListedIs DEF Games
  <2>2. Listed(L) /\ Len(L) = c /\ L[c] = G /\ \A g \in 1..Len(l) : L[g] = l[g] BY <2>1, ListedAppend
  <2>3. c - 1 = Len(l) BY <2>1
  <2> HIDE DEF L
  <2> QED BY <2>1, <2>2, <2>3
<1>11. Limited(G)
  <2>1. CubeOK(p) BY <1>1, <1>8 DEF CubeOK, Stake, Powers
  <2> HIDE DEF p
  <2>2. \A k \in 1..Len(G) : k = 1 BY <1>5
  <2> QED BY <1>1, <1>4, <1>5, <2>1, <2>2 DEF Limited, p
<1> HIDE DEF L, c, s
<1>12. s.ms = n /\ s.games = L /\ s.cur = c /\ s.last = 1 BY DEF s
<1>13. s.games[s.cur] = G /\ s.last \in 1..Len(G) BY <1>5, <1>10, <1>12
<1>14. Open(s) BY <1>5, <1>9, <1>10, <1>12, <1>13 DEF Open
<1>15. Unresigned(s.ms) BY <1>7, <1>12 DEF Unresigned
<1>16. ASSUME Limits(l), NEW g \in 1..s.cur PROVE Limited(s.games[g])
  <2>1. CASE g = c BY <1>10, <1>12, <1>11, <2>1
  <2>2. CASE g # c
    <3>1. g \in 1..(c - 1) /\ g \in 1..Len(l) BY <1>10, <1>12, <2>2
    <3> QED BY <1>10, <1>12, <1>16, <3>1 DEF Limits
  <2> QED BY <2>1, <2>2
<1> QED BY <1>12, <1>14, <1>15, <1>16 DEF s, L, G, c, n, i, b, d

LEMMA NewGameGood ==
  ASSUME Shown, NEW s, Games(s.games), State(s.ms), NEW state, NEW p \in Player \cup {None}, NEW rolls \in Nat
  PROVE  LET t == NewGame(s, state, p, rolls)
         IN  GoodMatch(t) /\ Unresigned(t.ms) /\ (Limits(s.games) => Limits(t.games))
<1> DEFINE m == Crawford(s.ms, state)
           info == Info(m.cGames, m.nMatchTo, m.anScore, m.fCrawford, m.fJacoby /\ m.nMatchTo = 0)
           begun == ApplyMoveRecord(m, info, info)
           doubles == AutoDoubles(m, rolls)
           rolled == [ms |-> [begun.ms EXCEPT !.nCube = IF fDisplay THEN TwoTo[doubles] ELSE @],
                      games |-> Append(s.games, <<Noted(info, doubles)>>),
                      cur |-> Len(s.games) + 1, last |-> 1]
           t == NewGame(s, state, p, rolls)
<1>1. /\ p # None => t = AddMoveRecord(rolled, Rec("SETDICE", p))
      /\ p = None /\ s.games = <<>> => t = [ms |-> begun.ms, games |-> <<>>, cur |-> 0, last |-> 0]
      /\ p = None /\ s.games # <<>> =>
           t = [ms |-> CalculateBoard(begun.ms, s.games[1], 1).ms, games |-> s.games, cur |-> 1, last |-> 1]
  BY DEF NewGame
<1>2. State(m) BY CrawfordIs
<1>3. IsInfo(info) /\ info.nAutoDoubles = 0 BY InfoIs
<1> HIDE DEF t, m, info
<1>4. Started(begun.ms) /\ begun.ms.gs = "NONE" /\ State(begun.ms) BY <1>2, <1>3, InfoApplied DEF Started
<1>5. /\ Open(rolled) /\ rolled.last = 1 /\ Unresigned(rolled.ms)
      /\ Limits(s.games) => \A g \in 1..rolled.cur : Limited(rolled.games[g])
  BY <1>2, <1>3, NewGameRolled
<1> HIDE DEF rolled, begun
<1>6. CASE p # None
  <2> DEFINE r == Rec("SETDICE", p)
  <2>1. p \in Player /\ r.mt = "SETDICE" /\ r.fPlayer = p BY <1>6 DEF Rec
  <2> HIDE DEF r
  <2>2. IsMove(r) /\ Opener(r) BY <2>1 DEF IsMove, Kinds, Opener
  <2>3. Fits(rolled, r) BY <1>5, <2>2 DEF Fits
  <2>4. GoodMatch(AddMoveRecord(rolled, r)) /\ Sound(AddMoveRecord(rolled, r).ms) BY <1>5, <2>3, Added
  <2>5. t = AddMoveRecord(rolled, r) BY <1>1, <1>6 DEF r
  <2>6. GoodMatch(t) /\ Unresigned(t.ms) BY <2>4, <2>5 DEF Sound, Unresigned
  <2>7. Limits(s.games) => Limits(t.games)
    <3>1. Limits(s.games) => Limits(AddMoveRecord(rolled, r).games) BY <1>5, <2>1, <2>3, AddedLimits
    <3> QED BY <2>5, <3>1
  <2> QED BY <2>6, <2>7 DEF t
<1>7. CASE p = None /\ s.games = <<>>
  <2> DEFINE z == begun.ms
  <2>1. t = [ms |-> z, games |-> <<>>, cur |-> 0, last |-> 0] BY <1>1, <1>7
  <2> HIDE DEF z
  <2>2. t.ms = z /\ t.games = <<>> /\ t.cur = 0 /\ t.last = 0 BY <2>1
  <2>3. Games(t.games) BY <1>7, <2>2
  <2>4. GoodMatch(t) /\ Unresigned(t.ms) BY <1>4, <2>2, <2>3 DEF GoodMatch, Unresigned, z
  <2>5. t.games = s.games BY <1>7, <2>2
  <2> QED BY <2>4, <2>5 DEF t
<1>8. CASE p = None /\ s.games # <<>>
  <2> DEFINE b == begun.ms  G == s.games[1]  z == CalculateBoard(b, G, 1).ms
  <2>1. t = [ms |-> z, games |-> s.games, cur |-> 1, last |-> 1] BY <1>1, <1>8
  <2>2. 1 \in 1..Len(s.games)
    <3>1. Listed(s.games) BY DEF Games
    <3> DEFINE l == s.games
    <3>2. Len(l) \in Nat /\ l = [k \in 1..Len(l) |-> l[k]] /\ l # <<>> BY <1>8, <3>1, ListedIs
    <3> HIDE DEF l
    <3>3. Len(l) # 0
      <4> SUFFICES ASSUME Len(l) = 0 PROVE FALSE OBVIOUS
      <4>1. 1..Len(l) = {} BY <3>2
      <4>2. l = [k \in {} |-> l[k]] BY <3>2, <4>1
      <4>3. l = <<>> BY <4>2
      <4> QED BY <3>2, <4>3
    <3> QED BY <3>2, <3>3 DEF l
  <2>3. GoodGame(G) BY <2>2 DEF Games
  <2>4. State(b) BY <1>4
  <2> HIDE DEF b
  <2>5. 1 \in 1..Len(G) BY <2>3 DEF GoodGame, Begun, Records
  <2>6. Near(z, G, 1) /\ z.gs = "NONE" BY <2>3, <2>4, <2>5, CalculatedNear
  <2> HIDE DEF z, G
  <2>7. Related(z, G, 1) /\ State(z) BY <2>6 DEF Related, Near
  <2>8. t.ms = z /\ t.games = s.games /\ t.cur = 1 /\ t.last = 1 /\ t.games[t.cur] = G BY <2>1 DEF G
  <2>9. GoodMatch(t) /\ Unresigned(t.ms) BY <2>2, <2>5, <2>6, <2>7, <2>8 DEF GoodMatch, Unresigned
  <2> QED BY <2>8, <2>9 DEF t
<1> QED BY <1>6, <1>7, <1>8

LEMMA NewGameValid ==
  ASSUME Shown, NEW s, Games(s.games), State(s.ms), NEW state, NEW o \in Opening,
         Become(NewGame(s, state, o[1], o[2]))
  PROVE  Valid' /\ (Limits(s.games) => Limits(lMatch'))
<1> DEFINE t == NewGame(s, state, o[1], o[2])
<1>1. o[1] \in Player \cup {None} /\ o[2] \in Nat BY BoundsAssumption DEF Opening
<1> DEFINE p == o[1]  rolls == o[2]
<1>2. GoodMatch(t) /\ Unresigned(t.ms) /\ (Limits(s.games) => Limits(t.games))
  <2>1. p \in Player \cup {None} /\ rolls \in Nat BY <1>1
  <2> HIDE DEF p, rolls
  <2>2. /\ GoodMatch(NewGame(s, state, p, rolls)) /\ Unresigned(NewGame(s, state, p, rolls).ms)
        /\ Limits(s.games) => Limits(NewGame(s, state, p, rolls).games)
    BY <2>1, NewGameGood
  <2> QED BY <2>2 DEF p, rolls
<1>3. Become(t) OBVIOUS
<1> HIDE DEF t
<1>4. Turned(t.ms) BY <1>2, SettledTurned
<1>5. lMatch' = t.games BY <1>3 DEF Become
<1> QED BY <1>2, <1>3, <1>4, <1>5, Becomes DEF Valid

LEMMA MatchIs ==
  ASSUME Valid
  PROVE  State(ms) /\ Games(lMatch) /\ Len(lMatch) \in Nat
<1>1. Match.ms = ms /\ Match.games = lMatch BY DEF Match
<1>2. State(ms) /\ Games(lMatch) BY <1>1 DEF Valid, GoodMatch
<1> QED BY <1>2, ListedIs DEF Games

LEMMA NewMatchValid ==
  ASSUME Shown, Valid, NEW o \in Opening, NEW n \in MatchLengths, CommandNewMatch(n, o[1], o[2])
  PROVE  Valid' /\ LimitsKept
<1> DEFINE m == [ms EXCEPT !.nMatchTo = n, !.cGames = 0, !.anScore = [q \in Player |-> 0],
                           !.fMove = None, !.fTurn = None, !.fCrawford = FALSE,
                           !.fPostCrawford = FALSE, !.gs = "NONE", !.fJacoby = fJacoby]
           s == [ms |-> m, games |-> <<>>, cur |-> 0, last |-> 0]
<1>1. Become(NewGame(s, -1, o[1], o[2])) BY DEF CommandNewMatch
<1>2. State(m)
  <2>1. State(ms) BY MatchIs
  <2> QED BY <2>1 DEF State, Fields
<1> HIDE DEF m
<1>3. s.ms = m /\ s.games = <<>> OBVIOUS
<1> HIDE DEF s
<1>4. Games(s.games)
  <2>1. Listed(<<>>) /\ Len(<<>>) = 0 BY ListedOne
  <2> QED BY <1>3, <2>1 DEF Games
<1>5. Valid' /\ (Limits(s.games) => Limits(lMatch')) BY <1>1, <1>2, <1>3, <1>4, NewGameValid
<1>6. Limits(s.games)
  <2>1. Len(<<>>) = 0 BY ListedOne
  <2> QED BY <1>3, <2>1 DEF Limits
<1> QED BY <1>5, <1>6 DEF LimitsKept

LEMMA NewGameCommandValid ==
  ASSUME Shown, Valid, NEW o \in Opening, CommandNewGame(o[1], o[2])
  PROVE  Valid' /\ LimitsKept
<1>1. PICK games : /\ games = SubSeq(lMatch, 1, plGame - 1) \/ games = lMatch
                   /\ Become(NewGame([Match EXCEPT !.games = games], fCrawfordState, o[1], o[2]))
  BY DEF CommandNewGame
<1> DEFINE s == [Match EXCEPT !.games = games]
<1>2. s.ms = ms /\ s.games = games /\ Match.cur = plGame /\ Match.games = lMatch BY DEF Match
<1>3. State(ms) /\ Games(lMatch) /\ Len(lMatch) \in Nat BY MatchIs
<1>4. Games(games) /\ (Limits(lMatch) => Limits(games))
  <2>1. CASE games = lMatch BY <1>3, <2>1
  <2>2. CASE games = SubSeq(lMatch, 1, plGame - 1)
    <3>1. CASE plGame # 0
      <4>1. plGame \in 1..Len(lMatch) BY <1>2, <3>1 DEF Valid, GoodMatch
      <4>2. plGame - 1 \in 0..Len(lMatch) /\ \A g \in 1..(plGame - 1) : g \in 1..Len(lMatch) BY <1>3, <4>1
      <4> DEFINE n == plGame - 1
      <4>3. n \in 0..Len(lMatch) /\ \A g \in 1..n : g \in 1..Len(lMatch) BY <4>2
      <4>4. games = SubSeq(lMatch, 1, n) BY <2>2
      <4> HIDE DEF n
      <4>5. Listed(games) /\ Len(games) = n /\ \A k \in 1..n : games[k] = lMatch[k]
        BY <1>3, <4>3, <4>4, ListedCut DEF Games
      <4> QED BY <1>3, <4>3, <4>5 DEF Games, Limits
    <3>2. CASE plGame = 0
      <4>1. 0 \notin 1..Len(lMatch) BY <1>3
      <4>2. lMatch = <<>> BY <1>2, <3>2, <4>1 DEF Valid, GoodMatch
      <4>3. games = <<>> BY <2>2, <3>2, <4>2
      <4> QED BY <1>3, <4>2, <4>3
    <3> QED BY <3>1, <3>2
  <2> QED BY <1>1, <2>1, <2>2
<1>5. Become(NewGame(s, fCrawfordState, o[1], o[2])) BY <1>1
<1> HIDE DEF s
<1>6. Valid' /\ (Limits(s.games) => Limits(lMatch')) BY <1>2, <1>3, <1>4, <1>5, NewGameValid
<1> QED BY <1>2, <1>4, <1>6 DEF LimitsKept

LEMMA NextGameValid ==
  ASSUME Shown, Valid, NEW o \in Opening, NextTurnNewGame(o[1], o[2])
  PROVE  Valid' /\ LimitsKept
<1> DEFINE m == EndOfGame  s == [Match EXCEPT !.ms = m]
<1>1. Become(NewGame(s, fCrawfordState', o[1], o[2])) BY DEF NextTurnNewGame
<1>2. State(m) BY MatchIs, EndOfGameIs
<1> HIDE DEF m
<1>3. s.ms = m /\ s.games = lMatch BY DEF Match
<1>4. Games(lMatch) BY MatchIs
<1> HIDE DEF s
<1>5. Valid' /\ (Limits(s.games) => Limits(lMatch')) BY <1>1, <1>2, <1>3, <1>4, NewGameValid
<1> QED BY <1>3, <1>5 DEF LimitsKept

-----------------------------------------------------------------------------
(* Going through the match.                                                  *)
LEMMA Steered ==
  ASSUME NEW t, GoodMatch(t), Unresigned(t.ms), Retold(t.games, lMatch), Become(t)
  PROVE  Valid' /\ Retold(lMatch', lMatch) /\ (Marked(t) => Marked(Match)')
<1>1. Turned(t.ms) BY SettledTurned
<1>2. Valid' BY <1>1, Becomes DEF Valid
<1>3. Marked(t) => Marked(Match)' BY DEF Become, Marked, Match
<1> QED BY <1>2, <1>3 DEF Become

(* The cursor of a match that has one.                                       *)
LEMMA AtCursor ==
  ASSUME Valid, Settled, plGame # 0
  PROVE  /\ plGame \in 1..Len(lMatch) /\ plLastMove \in 1..Len(lMatch[plGame]) /\ Len(lMatch[plGame]) \in Nat
         /\ Record(Match) /\ GoodMatch(Match) /\ Match.cur = plGame /\ Match.last = plLastMove
         /\ Match.games = lMatch /\ Unresigned(Match.ms) /\ Match.ms = ms
<1>1. Match.cur = plGame /\ Match.last = plLastMove /\ Match.games = lMatch /\ Match.ms = ms BY DEF Match
<1>2. Record(Match) BY DEF Record, Match
<1>3. Unresigned(Match.ms) BY <1>1 DEF Settled, Unresigned
<1>4. GoodMatch(Match) BY DEF Valid
<1>5. plGame \in 1..Len(lMatch) /\ plLastMove \in 1..Len(lMatch[plGame]) BY <1>1, <1>4 DEF GoodMatch
<1>6. Len(lMatch[plGame]) \in Nat BY <1>5, MatchIs DEF Games, GoodGame, Begun, Records
<1> QED BY <1>1, <1>2, <1>3, <1>4, <1>5, <1>6

LEMMA NextValid ==
  ASSUME Valid, Settled, CommandNext
  PROVE  Valid' /\ Retold(lMatch', lMatch) /\ HasNext /\ (Marked(Match) => Marked(Match)')
<1>1. plGame # 0 /\ plLastMove < Len(lMatch[plGame]) /\ Become(Forward(Match))
  BY DEF CommandNext, HasNext, Steer
<1>2. /\ GoodMatch(Forward(Match)) /\ Unresigned(Forward(Match).ms)
      /\ Retold(Forward(Match).games, lMatch) /\ (Marked(Match) => Marked(Forward(Match)))
  BY <1>1, AtCursor, Forwarded
<1> QED BY <1>1, <1>2, Steered DEF CommandNext

LEMMA NextRollValid ==
  ASSUME Valid, Settled, CommandNextRoll
  PROVE  Valid' /\ Retold(lMatch', lMatch) /\ HasNext /\ (Marked(Match) => Marked(Match)')
<1>1. plGame # 0 /\ plLastMove < Len(lMatch[plGame]) /\ Become(NextRoll(Match))
  BY DEF CommandNextRoll, HasNext, Steer
<1>2. /\ GoodMatch(NextRoll(Match)) /\ Unresigned(NextRoll(Match).ms)
      /\ Retold(NextRoll(Match).games, lMatch) /\ (Marked(Match) => Marked(NextRoll(Match)))
  BY <1>1, AtCursor, Rolled
<1> QED BY <1>1, <1>2, Steered DEF CommandNextRoll

LEMMA BackIs ==
  ASSUME Valid, Settled, plGame # 0
  PROVE  /\ GoodMatch(Back) /\ Unresigned(Back.ms) /\ Record(Back) /\ Back.cur = plGame
         /\ Retold(Back.games, lMatch) /\ Marked(Back)
         /\ plLastMove > 1 => Back.last < Len(Back.games[plGame])
<1> DEFINE k == IF plLastMove > 1 THEN plLastMove - 1 ELSE 1
           t == GoTo(plGame, k)
<1>1. Back = t BY DEF Back
<1>2. k \in 1..Len(lMatch[plGame]) /\ (plLastMove > 1 => k < Len(lMatch[plGame])) BY AtCursor
<1>3. State(ms) /\ Games(lMatch) /\ plGame \in 1..Len(lMatch) BY MatchIs, AtCursor
<1> HIDE DEF k
<1>4. /\ GoodMatch(t) /\ t.cur = plGame /\ t.last = k /\ Unresigned(t.ms)
      /\ Len(t.games[plGame]) = Len(lMatch[plGame]) /\ Retold(t.games, lMatch) /\ Marked(t)
  BY <1>2, <1>3, GoneTo
<1>5. Record(t) BY DEF Record, GoTo
<1> HIDE DEF t
<1> QED BY <1>1, <1>2, <1>4, <1>5

LEMMA PreviousValid ==
  ASSUME Valid, Settled, CommandPrevious
  PROVE  Valid' /\ Retold(lMatch', lMatch) /\ Marked(Match)'
<1>1. plGame # 0 /\ Become(Back) BY DEF CommandPrevious, Steer
<1> QED BY <1>1, BackIs, Steered

(* The dice are taken back.                                                  *)
LEMMA DiceDown ==
  ASSUME NEW t, GoodMatch(t), Unresigned(t.ms), t.last = 1 => t.ms.gs = "NONE", Record(t)
  PROVE  LET d == [t EXCEPT !.ms.dice = FALSE] IN GoodMatch(d) /\ Unresigned(d.ms) /\ d.games = t.games
            /\ (Marked(t) => Marked(d))
<1> DEFINE m == t.ms  n == [m EXCEPT !.dice = FALSE]  d == [t EXCEPT !.ms.dice = FALSE]
<1>1. d.ms = n /\ d.games = t.games /\ d.cur = t.cur /\ d.last = t.last BY DEF Record
<1>2. State(m) BY DEF GoodMatch
<1> HIDE DEF d
<1>3. State(n) /\ \A f \in Fields \ {"dice"} : n[f] = m[f] BY <1>2 DEF State, Fields
<1> HIDE DEF n
<1>4. Unresigned(n) /\ n.gs = m.gs BY <1>3 DEF Unresigned, Fields
<1>5. Un(n) = n /\ Un(m) = m BY <1>2, <1>3, <1>4, UnIs
<1>6. Alike(n, m) BY <1>3 DEF Alike, Fields
<1>7. ASSUME NEW G, Related(m, G, t.last) PROVE Related(n, G, t.last)
  <2>1. CASE t.last > 1
    <3>1. Alike(m, Replayed(G, t.last)) BY <1>5, <1>7, <2>1 DEF Related, Near
    <3>2. Alike(n, Replayed(G, t.last)) BY <1>6, <3>1, AlikeTrans
    <3>3. Near(n, G, t.last) BY <1>3, <1>5, <2>1, <3>2 DEF Near
    <3> QED BY <2>1, <3>3 DEF Related
  <2>2. CASE ~(t.last > 1)
    <3>1. Started(m) /\ SameScore(m, Replayed(G, 1)) BY <1>7, <2>2 DEF Related, Near
    <3>2. Started(n) /\ SameScore(n, Replayed(G, 1)) BY <1>3, <3>1 DEF Started, SameScore, Fields
    <3>3. Near(n, G, t.last) BY <1>3, <2>2, <3>2 DEF Near
    <3>4. t.last = 1 => n.gs = "NONE" BY <1>4
    <3> QED BY <3>3, <3>4 DEF Related
  <2> QED BY <2>1, <2>2
<1>8. GoodMatch(d)
  <2>1. /\ Games(t.games)
        /\ \/ t.cur = 0 /\ t.games = <<>> /\ t.last = 0 /\ m.gs = "NONE"
           \/ /\ t.cur \in 1..Len(t.games) /\ t.last \in 1..Len(t.games[t.cur])
              /\ Related(m, t.games[t.cur], t.last)
    BY DEF GoodMatch
  <2> HIDE DEF m
  <2> QED BY <1>1, <1>3, <1>4, <1>7, <2>1 DEF GoodMatch
<1>9. Marked(t) => Marked(d)
  <2>1. SameMatch(n, m) BY <1>3 DEF SameMatch, Fields
  <2> HIDE DEF m
  <2> QED BY <1>1, <2>1, StaysInGame DEF Marked, m
<1> QED BY <1>1, <1>4, <1>8, <1>9 DEF d

LEMMA PreviousRollValid ==
  ASSUME Valid, Settled, CommandPreviousRoll
  PROVE  Valid' /\ Retold(lMatch', lMatch) /\ Marked(Match)'
<1>1. plGame # 0 BY DEF CommandPreviousRoll
<1>2. CASE ms.dice
  <2> DEFINE t == GoTo(plGame, plLastMove)
  <2>1. Become([t EXCEPT !.ms.dice = FALSE]) BY <1>2 DEF CommandPreviousRoll, Steer
  <2>2. State(ms) /\ Games(lMatch) /\ plGame \in 1..Len(lMatch) /\ plLastMove \in 1..Len(lMatch[plGame])
    BY <1>1, MatchIs, AtCursor
  <2>3. /\ GoodMatch(t) /\ t.last = plLastMove /\ Unresigned(t.ms)
        /\ plLastMove = 1 => t.ms.gs = "NONE"
        /\ Retold(t.games, lMatch) /\ Marked(t)
    BY <2>2, GoneTo
  <2>4. Record(t) BY DEF Record, GoTo
  <2> HIDE DEF t
  <2>5. /\ GoodMatch([t EXCEPT !.ms.dice = FALSE]) /\ Unresigned([t EXCEPT !.ms.dice = FALSE].ms)
        /\ [t EXCEPT !.ms.dice = FALSE].games = t.games /\ Marked([t EXCEPT !.ms.dice = FALSE])
    BY <2>3, <2>4, DiceDown
  <2>6. Retold([t EXCEPT !.ms.dice = FALSE].games, lMatch) BY <2>3, <2>5
  <2> QED BY <2>1, <2>5, <2>6, Steered
<1>3. CASE ~ms.dice /\ plLastMove > 1 /\ lMatch[plGame][plLastMove].mt = "NORMAL"
  <2>1. Become(NextRoll(Back)) BY <1>3 DEF CommandPreviousRoll, Steer
  <2>2. /\ GoodMatch(NextRoll(Back)) /\ Unresigned(NextRoll(Back).ms)
        /\ Retold(NextRoll(Back).games, Back.games) /\ Retold(Back.games, lMatch) /\ Marked(NextRoll(Back))
    BY <1>1, <1>3, BackIs, Rolled
  <2>3. Retold(NextRoll(Back).games, lMatch) BY <2>2, RetoldTwice
  <2> QED BY <2>1, <2>2, <2>3, Steered
<1>4. CASE ~ms.dice /\ ~(plLastMove > 1 /\ lMatch[plGame][plLastMove].mt = "NORMAL")
  <2>1. Become(Back) BY <1>4 DEF CommandPreviousRoll, Steer
  <2> QED BY <1>1, <2>1, BackIs, Steered
<1> QED BY <1>2, <1>3, <1>4

(* SetTurn at the start of a game.                                           *)
LEMMA SetTurnIs ==
  ASSUME NEW m, Started(m), NEW p \in Player
  PROVE  LET d == SetTurn(m, p) IN Started(d) /\ SameScore(d, m) /\ d.gs = m.gs /\ SameMatch(d, m)
<1> DEFINE s == IF m.fTurn # p THEN SwapSides(m) ELSE m
           d == [s EXCEPT !.fTurn = p, !.fMove = p, !.fDoubled = FALSE, !.dice = FALSE]
<1>1. SetTurn(m, p) = d BY DEF SetTurn
<1>2. State(s) /\ s.anBoard = StartBoard /\ \A f \in Fields \ {"anBoard"} : s[f] = m[f]
  BY SwapIs, StartTurned DEF Started
<1> HIDE DEF s
<1>3. /\ d = [f \in Fields |-> d[f]] /\ d.anBoard = s.anBoard /\ d.fTurn = p /\ d.fMove = p /\ d.fDoubled = FALSE
      /\ \A f \in Fields \ {"fTurn", "fMove", "fDoubled", "dice"} : d[f] = s[f]
  BY <1>2 DEF State, Fields
<1> HIDE DEF d
<1>4. d.fDoubled \in BOOLEAN BY <1>3, Zenon
<1>5. d.cBeavers \in Nat /\ d.nCube \in Nat /\ d.anBoard \in [Player -> Nat] /\ d.cBeavers = 0
  BY <1>2, <1>3 DEF State, Fields, Started
<1>6. State(d) BY <1>3, <1>4, <1>5 DEF State
<1>7. SameScore(d, m) /\ d.gs = m.gs /\ SameMatch(d, m) BY <1>2, <1>3 DEF SameScore, SameMatch, Fields
<1> QED BY <1>1, <1>2, <1>3, <1>5, <1>6, <1>7 DEF Started

LEMMA ChangeGameValid ==
  ASSUME Valid, NEW g \in 1..Len(lMatch), ChangeGame(g)
  PROVE  Valid' /\ Retold(lMatch', lMatch) /\ Marked(Match)'
<1> DEFINE s == GoTo(g, 1)  p == lMatch[g][2].fPlayer  m == s.ms  n == SetTurn(m, p)
<1>1. Games(lMatch) /\ GoodGame(lMatch[g]) /\ State(ms) BY MatchIs DEF Games
<1>2. 1 \in 1..Len(lMatch[g]) /\ p \in Player BY <1>1 DEF GoodGame, Begun, Records, IsMove
<1>3. GoodMatch(s) /\ s.cur = g /\ s.last = 1 /\ Unresigned(m) /\ m.gs = "NONE"
      /\ Retold(s.games, lMatch) /\ Marked(s)
  BY <1>1, <1>2, GoneTo
<1>4. Record(s) BY DEF Record, GoTo
<1>5. CASE m.fTurn # p
  <2> DEFINE t == [s EXCEPT !.ms = n]
  <2>1. Become(t) BY <1>5 DEF ChangeGame
  <2> HIDE DEF s, p
  <2> DEFINE G == s.games[s.cur]
  <2>2. s.cur \in 1..Len(s.games) /\ s.last \in 1..Len(G) /\ Related(m, G, 1) /\ Games(s.games)
    <3>1. Games(s.games) /\ s.last # 0 BY <1>3 DEF GoodMatch
    <3> QED BY <1>3, <3>1 DEF GoodMatch
  <2>3. Started(m) /\ SameScore(m, Replayed(G, 1)) BY <2>2 DEF Related, Near
  <2>14. InGame(m, G[1]) BY <1>3 DEF Marked
  <2> HIDE DEF m
  <2>4. Started(n) /\ SameScore(n, m) /\ n.gs = m.gs /\ SameMatch(n, m) BY <1>2, <2>3, SetTurnIs
  <2> HIDE DEF n
  <2>5. SameScore(n, Replayed(G, 1)) BY <2>3, <2>4 DEF SameScore
  <2>6. State(n) /\ n.gs = "NONE" BY <1>3, <2>4 DEF Started
  <2>7. Related(n, G, 1) BY <2>4, <2>5, <2>6 DEF Related, Near
  <2>8. t.ms = n /\ t.games = s.games /\ t.cur = s.cur /\ t.last = s.last /\ t.games[t.cur] = G
    BY <1>4 DEF Record
  <2> HIDE DEF t, G
  <2>9. Related(t.ms, t.games[t.cur], t.last) BY <1>3, <2>7, <2>8
  <2>10. t.cur \in 1..Len(t.games) /\ t.last \in 1..Len(t.games[t.cur]) BY <2>2, <2>8
  <2>11. GoodMatch(t) BY <2>2, <2>6, <2>8, <2>9, <2>10 DEF GoodMatch
  <2>12. Unresigned(t.ms) BY <2>6, <2>8 DEF Unresigned
  <2>13. Retold(t.games, lMatch) BY <1>3, <2>8
  <2>15. Marked(t)
    <3>1. InGame(n, G[1]) BY <2>4, <2>14, StaysInGame
    <3> QED BY <2>8, <3>1 DEF Marked
  <2> QED BY <2>1, <2>11, <2>12, <2>13, <2>15, Steered
<1>6. CASE ~(m.fTurn # p)
  <2>1. Become(s) BY <1>6 DEF ChangeGame, Steer
  <2> HIDE DEF s
  <2> QED BY <1>3, <2>1, Steered
<1> QED BY <1>5, <1>6

-----------------------------------------------------------------------------
LEMMA InitValid ==
  Init => Valid /\ NextTurnAssert /\ Limits(lMatch)
<1> SUFFICES ASSUME Init PROVE Valid /\ NextTurnAssert /\ Limits(lMatch) OBVIOUS
<1>1. ms.gs = "NONE" /\ ms = [f \in Fields |-> ms[f]] /\ ms.anBoard = StartBoard /\ ms.fMove = None /\ ms.fTurn = None
      /\ ms.fDoubled = FALSE /\ ms.cBeavers = 0 /\ ms.nCube = 1
  BY DEF Init, Fields
<1>2. ms.fDoubled \in BOOLEAN BY <1>1, Zenon
<1>3. StartBoard \in [Player -> Nat] BY MenAssumption DEF StartBoard
<1>4. State(ms) BY <1>1, <1>2, <1>3 DEF State
<1>5. Games(<<>>)
  <2>1. Listed(<<>>) /\ Len(<<>>) = 0 BY ListedOne
  <2> QED BY <2>1 DEF Games
<1>6. Match.ms = ms /\ Match.games = <<>> /\ Match.cur = 0 /\ Match.last = 0 BY DEF Match, Init
<1>7. GoodMatch(Match) BY <1>1, <1>4, <1>5, <1>6 DEF GoodMatch
<1>8. Turned(ms) BY <1>1 DEF Turned
<1>9. NextTurnAssert BY DEF Init, NextTurnAssert
<1>10. Limits(lMatch)
  <2>1. lMatch = <<>> /\ Len(<<>>) = 0 BY ListedOne DEF Init
  <2> QED BY <2>1 DEF Limits
<1> QED BY <1>7, <1>8, <1>9, <1>10 DEF Valid

LEMMA MatchSame ==
  ASSUME Valid, UNCHANGED <<ms, lMatch, plGame, plLastMove>>
  PROVE  Valid'
<1>1. Match.ms = ms /\ Match.games = lMatch /\ Match.cur = plGame /\ Match.last = plLastMove BY DEF Match
<1>2. Become(Match) BY <1>1 DEF Become
<1> QED BY <1>1, <1>2, Becomes DEF Valid

(* One step of play.                                                         *)
LEMMA NextTurnValid ==
  ASSUME Shown, Valid, NextTurn
  PROVE  Valid' /\ LimitsKept /\ fNextTurn' = FALSE
<1>1. CASE NextTurnPlaying BY <1>1, MatchSame DEF NextTurnPlaying, LimitsKept
<1>2. CASE NextTurnGameOver BY <1>2, GameOverValid DEF NextTurnGameOver, LimitsKept
<1>3. ASSUME NEW o \in Opening, NextTurnNewGame(o[1], o[2]) PROVE Valid' /\ LimitsKept /\ fNextTurn' = FALSE
  BY <1>3, NextGameValid DEF NextTurnNewGame
<1> QED BY <1>1, <1>2, <1>3 DEF NextTurn

LEMMA BeginValid ==
  ASSUME Shown, Valid, Begin
  PROVE  Valid' /\ LimitsKept /\ Ready /\ UNCHANGED fNextTurn
<1>1. PICK o \in Opening : \/ \E n \in MatchLengths : CommandNewMatch(n, o[1], o[2])
                           \/ CommandNewGame(o[1], o[2])
  BY DEF Begin
<1>2. ASSUME NEW n \in MatchLengths, CommandNewMatch(n, o[1], o[2])
      PROVE  Valid' /\ LimitsKept /\ Ready /\ UNCHANGED fNextTurn
  <2>1. Valid' /\ LimitsKept BY <1>2, NewMatchValid
  <2>2. Ready /\ UNCHANGED fNextTurn BY <1>2 DEF CommandNewMatch
  <2> QED BY <2>1, <2>2
<1>3. CASE CommandNewGame(o[1], o[2])
  <2>1. Valid' /\ LimitsKept BY <1>3, NewGameCommandValid
  <2>2. Ready /\ UNCHANGED fNextTurn BY <1>3 DEF CommandNewGame
  <2> QED BY <2>1, <2>2
<1> QED BY <1>1, <1>2, <1>3

LEMMA TakeTurnValid ==
  ASSUME Valid, TakeTurn
  PROVE  Valid' /\ LimitsKept /\ Ready /\ (UNCHANGED fNextTurn \/ NextTurnAssert')
<1>1. CASE CommandRoll BY <1>1, RollAdds, AddsValid DEF CommandRoll, CanRoll, Playing
<1>2. CASE CommandDouble BY <1>2, DoubleAdds, AddsValid DEF CommandDouble, Playing
<1>3. ASSUME NEW moved \in 0..1, CommandRollAndMove(moved) PROVE Valid' /\ LimitsKept /\ Ready /\ NextTurnAssert'
  BY <1>3, RollAndMoveAdds, RollAndMoveValid DEF CommandRollAndMove, CanRoll, Playing
<1>4. ASSUME NEW moved \in 0..1, CommandMove(moved) PROVE Valid' /\ LimitsKept /\ Ready /\ NextTurnAssert'
  BY <1>4, MoveAdds, AddsValid DEF CommandMove, Playing
<1> QED BY <1>1, <1>2, <1>3, <1>4 DEF TakeTurn

LEMMA StillPlaying ==
  ASSUME GameStatus(ms.anBoard) = 0, ms.gs = "PLAYING"
  PROVE  NextTurnAssert
BY DEF NextTurnAssert, GameEnded

LEMMA AnswerResignationValid ==
  ASSUME Valid, AnswerResignation
  PROVE  Valid' /\ LimitsKept /\ Ready /\ NextTurnAssert'
<1>1. CASE CommandAgree BY <1>1, AgreeAdds, AddsValid DEF CommandAgree, Playing
<1>2. CASE CommandDecline
  <2>1. Valid' /\ LimitsKept /\ GameStatus(ms'.anBoard) = 0 /\ ms'.gs = "PLAYING" BY <1>2, DeclineValid
  <2>2. (GameStatus(ms.anBoard) = 0 /\ ms.gs = "PLAYING")' BY <2>1 DEF GameStatus
  <2>3. NextTurnAssert' BY <2>2, StillPlaying, PTL
  <2> QED BY <1>2, <2>1, <2>3 DEF CommandDecline, Playing
<1> QED BY <1>1, <1>2 DEF AnswerResignation

LEMMA SettledValid ==
  ASSUME Valid, Settled, AnswerDouble \/ OfferResignation
  PROVE  Valid' /\ LimitsKept /\ Ready /\ NextTurnAssert'
<1>1. CASE CommandRedouble BY <1>1, RedoubleAdds, AddsValid DEF CommandRedouble, Playing
<1>2. CASE CommandTake BY <1>2, AnswerAdds, AddsValid DEF CommandTake, Playing
<1>3. CASE CommandDrop BY <1>3, AnswerAdds, AddsValid DEF CommandDrop, Playing
<1>4. ASSUME NEW k \in 0..3, CommandResign(k) PROVE Valid' /\ LimitsKept /\ Ready /\ NextTurnAssert'
  <2>1. Valid' /\ LimitsKept /\ GameStatus(ms'.anBoard) = 0 /\ ms'.gs = "PLAYING" BY <1>4, ResignValid
  <2>2. (GameStatus(ms.anBoard) = 0 /\ ms.gs = "PLAYING")' BY <2>1 DEF GameStatus
  <2>3. NextTurnAssert' BY <2>2, StillPlaying, PTL
  <2> QED BY <1>4, <2>1, <2>3 DEF CommandResign, Playing
<1> QED BY <1>1, <1>2, <1>3, <1>4 DEF AnswerDouble, OfferResignation

LEMMA NavigateValid ==
  ASSUME Valid, Settled, Navigate
  PROVE  /\ Valid' /\ Retold(lMatch', lMatch) /\ Ready /\ (UNCHANGED fNextTurn \/ fNextTurn' = (fX /\ fNextTurn))
         /\ UNCHANGED fCrawfordState /\ (Marked(Match) \/ ~HasNext => Marked(Match)')
<1>1. CASE CommandNext BY <1>1, NextValid DEF CommandNext, Steer
<1>2. CASE CommandPrevious BY <1>2, PreviousValid DEF CommandPrevious, Steer
<1>3. CASE CommandNextRoll BY <1>3, NextRollValid DEF CommandNextRoll, Steer
<1>4. CASE CommandPreviousRoll BY <1>4, PreviousRollValid DEF CommandPreviousRoll, Steer
<1>5. ASSUME NEW g \in 1..Len(lMatch), ChangeGame(g)
      PROVE  /\ Valid' /\ Retold(lMatch', lMatch) /\ (UNCHANGED fNextTurn \/ fNextTurn' = (fX /\ fNextTurn))
             /\ UNCHANGED fCrawfordState /\ Marked(Match)'
  BY <1>5, ChangeGameValid DEF ChangeGame, Steer
<1>6. CASE CommandNextGame
  <2>1. plGame + 1 \in 1..Len(lMatch) /\ ChangeGame(plGame + 1) /\ Ready
    BY <1>6, MatchIs DEF CommandNextGame
  <2> QED BY <1>5, <2>1
<1>7. CASE CommandPreviousGame
  <2>1. plGame \in 1..Len(lMatch) /\ plGame > 1 BY <1>7, AtCursor DEF CommandPreviousGame
  <2>2. plGame - 1 \in 1..Len(lMatch) /\ ChangeGame(plGame - 1) /\ Ready
    BY <1>7, <2>1, MatchIs DEF CommandPreviousGame
  <2> QED BY <1>5, <2>2
<1>8. CASE CommandFirstMove
  <2>1. plGame \in 1..Len(lMatch) /\ ChangeGame(plGame) /\ Ready BY <1>8, AtCursor DEF CommandFirstMove
  <2> QED BY <1>5, <2>1
<1> QED BY <1>1, <1>2, <1>3, <1>4, <1>6, <1>7, <1>8 DEF Navigate

LEMMA StepValid ==
  ASSUME Shown, Valid, [Play \/ Review]_vars
  PROVE  Valid' /\ LimitsKept /\ (~fX => (NextTurnAssert => NextTurnAssert'))
<1>1. Ready /\ ~fX => ~fNextTurn BY DEF Ready
<1>2. ~fNextTurn' => NextTurnAssert' BY DEF NextTurnAssert
<1>3. CASE NextTurn BY <1>2, <1>3, NextTurnValid
<1>4. CASE Begin
  <2>1. Valid' /\ LimitsKept /\ Ready /\ UNCHANGED fNextTurn BY <1>4, BeginValid
  <2> QED BY <1>1, <1>2, <2>1
<1>5. CASE TakeTurn
  <2>1. Valid' /\ LimitsKept /\ Ready /\ (UNCHANGED fNextTurn \/ NextTurnAssert') BY <1>5, TakeTurnValid
  <2>2. CASE UNCHANGED fNextTurn BY <1>1, <1>2, <2>1, <2>2
  <2>3. CASE NextTurnAssert' BY <2>1, <2>3
  <2> QED BY <2>1, <2>2, <2>3
<1>6. CASE AnswerResignation BY <1>6, AnswerResignationValid
<1>7. CASE Settled /\ (AnswerDouble \/ OfferResignation) BY <1>7, SettledValid
<1>8. CASE Review
  <2>1. Valid' /\ Retold(lMatch', lMatch) /\ Ready /\ (UNCHANGED fNextTurn \/ fNextTurn' = (fX /\ fNextTurn))
    BY <1>8, NavigateValid DEF Review
  <2>2. LimitsKept
    <3>1. Games(lMatch) BY MatchIs
    <3>2. Games(lMatch)' BY <2>1, MatchIs, PTL
    <3> QED BY <2>1, <3>1, <3>2, RetoldLimits DEF LimitsKept
  <2>3. CASE UNCHANGED fNextTurn BY <1>1, <1>2, <2>1, <2>3, <2>2
  <2>4. CASE fNextTurn' = (fX /\ fNextTurn)
    <3>1. ~fX => ~fNextTurn' BY <2>4
    <3> QED BY <1>2, <2>1, <2>2, <3>1
  <2> QED BY <2>1, <2>3, <2>4
<1>9. CASE UNCHANGED vars
  <2>1. Valid' BY <1>9, MatchSame DEF vars
  <2>2. NextTurnAssert => NextTurnAssert'
    BY <1>9 DEF vars, NextTurnAssert, GameEnded, Winner
  <2> QED BY <1>9, <2>1, <2>2 DEF vars, LimitsKept
<1> QED BY <1>3, <1>4, <1>5, <1>6, <1>7, <1>8, <1>9 DEF Play

LEMMA AlwaysValid ==
  ASSUME Shown
  PROVE  ReplaySpec => []Valid
<1>1. Init => Valid BY InitValid
<1>2. Valid /\ [Play \/ Review]_vars => Valid' BY StepValid
<1> QED BY <1>1, <1>2, PTL DEF ReplaySpec

LEMMA AlwaysLimited ==
  ASSUME Shown
  PROVE  ReplaySpec => [](Valid /\ Limits(lMatch))
<1>1. Init => Valid /\ Limits(lMatch) BY InitValid
<1>2. Valid /\ Limits(lMatch) /\ [Play \/ Review]_vars => Valid' /\ Limits(lMatch)'
  BY StepValid DEF LimitsKept
<1> QED BY <1>1, <1>2, PTL DEF ReplaySpec

LEMMA ValidReplay ==
  Valid => LiveIsReplay
<1> SUFFICES ASSUME Valid, plLastMove > 1, ms.gs = "PLAYING" => ms.fResigned = 0
             PROVE  Position(ms) = Position(CalculateBoard(ms, lMatch[plGame], plLastMove).ms)
  BY DEF LiveIsReplay
<1> DEFINE G == lMatch[plGame]  k == plLastMove  a == CalculateBoard(ms, G, k)
<1>1. plGame # 0
  <2> SUFFICES ASSUME plGame = 0 PROVE FALSE OBVIOUS
  <2>1. Match.cur = 0 /\ Match.last = plLastMove /\ Match.games = lMatch BY DEF Match
  <2>2. 0 \notin 1..Len(lMatch) BY MatchIs
  <2>3. plLastMove = 0 BY <2>1, <2>2 DEF Valid, GoodMatch
  <2> QED BY <2>3
<1>2. plGame \in 1..Len(lMatch) /\ k \in 1..Len(G) /\ k # 1 /\ k > 1 /\ Match.ms = ms /\ Match.games = lMatch
      /\ Match.cur = plGame /\ Match.last = k /\ Unresigned(ms)
  BY <1>1, AtCursor DEF Settled
<1>3. State(ms) /\ GoodGame(G) BY <1>2, MatchIs DEF Games
<1>4. Alike(Un(ms), Replayed(G, k))
  <2>1. plGame # 0 /\ Related(ms, G, k) BY <1>1, <1>2 DEF Valid, GoodMatch
  <2> QED BY <1>2, <2>1 DEF Related, Near
<1>5. Un(ms) = ms BY <1>2, <1>3, UnIs
<1>6. a.ms = Replayed(G, k) BY <1>2, <1>3, CalculatedNear
<1>7. Alike(ms, a.ms) BY <1>4, <1>5, <1>6
<1> QED BY <1>7, AlikeIs

LEMMA OddEven ==
  ASSUME NEW n \in Nat
  PROVE  /\ n % 2 = 0 => (n + 0) % 2 = 0 /\ (n + 1) % 2 # 0
         /\ n % 2 # 0 => (n + 0) % 2 # 0 /\ (n + 1) % 2 = 0
OBVIOUS

LEMMA ValidTurn ==
  Valid => WhoseTurn
<1> SUFFICES ASSUME Valid, ms.gs = "PLAYING"
             PROVE  LET handed == Flag(ms.fDoubled) + ms.cBeavers + Flag(ms.fResigned # 0)
                    IN  ms.fTurn = IF handed % 2 = 0 THEN ms.fMove ELSE Not(ms.fMove)
  BY DEF WhoseTurn
<1> DEFINE u == Un(ms)  n == Flag(ms.fDoubled) + ms.cBeavers
<1>1. State(ms) /\ OnTurn(u) /\ ms.fTurn \in Player BY InPlay
<1>2. u.fMove = ms.fMove /\ u.fDoubled = ms.fDoubled /\ u.cBeavers = ms.cBeavers BY <1>1, UnIs DEF Fields
<1>3. n \in Nat BY <1>1 DEF State, Flag
<1>4. u.fTurn = (IF n % 2 = 0 THEN ms.fMove ELSE Not(ms.fMove)) /\ ms.fMove \in Player
  BY <1>1, <1>2 DEF OnTurn
<1> HIDE DEF n
<1>5. CASE ms.fResigned = 0
  <2>1. u = ms BY <1>1, <1>5, UnIs DEF Unresigned
  <2>2. Flag(ms.fResigned # 0) = 0 BY <1>5 DEF Flag
  <2>3. n % 2 = 0 <=> (n + 0) % 2 = 0 BY <1>3, OddEven
  <2> QED BY <1>4, <2>1, <2>2, <2>3 DEF n
<1>6. CASE ms.fResigned # 0
  <2>1. u = [ms EXCEPT !.fTurn = Not(@)] BY <1>6 DEF Un
  <2>2. u.fTurn = Not(ms.fTurn) BY <1>1, <2>1 DEF State, Fields
  <2>3. Flag(ms.fResigned # 0) = 1 BY <1>6 DEF Flag
  <2>4. n % 2 = 0 <=> ~((n + 1) % 2 = 0) BY <1>3, OddEven
  <2>5. ms.fTurn = Not(u.fTurn) BY <1>1, <2>2, NotTwice
  <2>6. ms.fTurn = IF (n + 1) % 2 = 0 THEN ms.fMove ELSE Not(ms.fMove)
    BY <1>4, <2>4, <2>5, NotTwice
  <2> QED BY <2>3, <2>6 DEF n
<1> QED BY <1>5, <1>6

(* Until the first double the cube is where the opening roll left it.        *)
LEMMA NoDoubles ==
  ASSUME NEW G, Begun(G), NEW k \in 1..Len(G), \A j \in 1..k : G[j].mt # "DOUBLE"
  PROVE  ~Replayed(G, k).fDoubled /\ Replayed(G, k).nCube = TwoTo[G[1].nAutoDoubles]
<1> DEFINE x == TwoTo[G[1].nAutoDoubles]
           P(i) == ~Replayed(G, i).fDoubled /\ Replayed(G, i).nCube = x
           Bad == {i \in 1..k : ~P(i)}
<1> SUFFICES P(k) OBVIOUS
<1>1. Records(G) /\ Len(G) \in Nat /\ k \in Nat /\ 1 \in 1..k BY DEF Begun, Records
<1>2. P(1)
  <2>1. Replayed(G, 1) = ApplyMoveRecord(Blank, G[1], G[1]).ms BY <1>1, BlankIs, FirstStep DEF Replayed
  <2>2. IsInfo(G[1]) BY <1>1 DEF Records
  <2> QED BY <2>1, <2>2, BlankIs, InfoSets
<1>3. ASSUME NEW i \in Nat \ {0}, i < k, P(i) PROVE P(i + 1)
  <2> DEFINE m == Replayed(G, i)  r == G[i + 1]  f == FixMatchState(m, r)
  <2>1. i < Len(G) /\ i + 1 \in 1..k BY <1>1, <1>3
  <2>2. State(m) /\ IsMove(r) /\ Replayed(G, i + 1) = Applied(f, r) BY <1>1, <2>1, ReplayedNext
  <2>3. r.mt # "DOUBLE" BY <2>1
  <2>4. ~m.fDoubled /\ m.nCube = x BY <1>3
  <2> HIDE DEF m, r
  <2>5. State(f) /\ f.nCube = m.nCube /\ f.fDoubled = m.fDoubled
    <3>1. r.fPlayer \in Player BY <2>2 DEF IsMove
    <3>2. State(f) /\ \A y \in Fields \ {"anBoard", "fMove", "fTurn"} : f[y] = m[y] BY <2>2, <3>1, FixIs
    <3> HIDE DEF f
    <3> QED BY <3>2 DEF Fields
  <2> HIDE DEF f, x
  <2> DEFINE a == Applied(f, r)
  <2>6. a.nCube = f.nCube /\ (a.fDoubled => f.fDoubled) BY <2>2, <2>3, <2>4, <2>5, CubeNext
  <2>7. Replayed(G, i + 1) = a BY <2>2
  <2> HIDE DEF a
  <2> QED BY <2>4, <2>5, <2>6, <2>7
<1> HIDE DEF P
<1>4. Bad = {}
  <2> SUFFICES ASSUME Bad # {} PROVE FALSE OBVIOUS
  <2>1. PICK i \in Bad : \A n \in Bad : i <= n
    <3> HIDE DEF Bad
    <3>1. Bad \in SUBSET Nat BY <1>1 DEF Bad
    <3> QED BY <3>1, LeastNumber
  <2>2. i \in 1..k /\ ~P(i) OBVIOUS
  <2>3. i # 1 BY <1>2, <2>2
  <2>4. i - 1 \in 1..k /\ i - 1 \in Nat \ {0} /\ i - 1 < k /\ (i - 1) + 1 = i /\ ~(i <= i - 1)
    BY <1>1, <2>2, <2>3
  <2>5. P(i - 1)
    <3>1. i - 1 \notin Bad
      <4> HIDE DEF Bad
      <4> QED BY <2>1, <2>4
    <3> QED BY <2>4, <3>1
  <2> DEFINE h == i - 1
  <2>6. h \in Nat \ {0} /\ h < k /\ P(h) /\ h + 1 = i BY <2>4, <2>5
  <2> HIDE DEF h, Bad
  <2>7. P(h + 1) BY <1>3, <2>6
  <2> QED BY <2>2, <2>6, <2>7
<1>5. k \in 1..k BY <1>1
<1> QED BY <1>4, <1>5

LEMMA ValidLimits ==
  Valid /\ Limits(lMatch) => CubeLimits
<1> SUFFICES ASSUME Valid, Limits(lMatch), plGame # 0
             PROVE  /\ lMatch[plGame][1].nAutoDoubles <= cAutoDoubles /\ ms.nCube <= MAX_CUBE
                    /\ (\A k \in 1..plLastMove : lMatch[plGame][k].mt \notin {"DOUBLE", "SETCUBEVAL"})
                         => ms.nCube = TwoTo[lMatch[plGame][1].nAutoDoubles]
  BY DEF CubeLimits
<1> DEFINE G == lMatch[plGame]  k == plLastMove
<1>1. plGame \in 1..Len(lMatch) /\ k \in 1..Len(G) /\ Near(ms, G, k)
  <2>1. Match.ms = ms /\ Match.games = lMatch /\ Match.cur = plGame /\ Match.last = k BY DEF Match
  <2> QED BY <2>1 DEF Valid, GoodMatch, Related
<1>2. Begun(G) BY <1>1, MatchIs DEF Games, GoodGame
<1>3. Limited(G) BY <1>1 DEF Limits
<1> HIDE DEF G, k
<1>4. G[1].nAutoDoubles <= cAutoDoubles BY <1>3 DEF Limited
<1>5. ms.nCube <= MAX_CUBE
  <2>1. CubeOK(ms) BY <1>1, <1>2, <1>3, NearLimited
  <2>2. ms.nCube \in Nat BY <2>1, PowerIs DEF CubeOK
  <2>3. MAX_CUBE \in Nat BY CubeAssumption
  <2> QED BY <2>1, <2>2, <2>3 DEF CubeOK, Stake
<1>6. ASSUME \A j \in 1..k : G[j].mt \notin {"DOUBLE", "SETCUBEVAL"} PROVE ms.nCube = TwoTo[G[1].nAutoDoubles]
  <2>1. Replayed(G, k).nCube = TwoTo[G[1].nAutoDoubles] BY <1>1, <1>2, <1>6, NoDoubles
  <2> QED BY <1>1, <1>2, <2>1, NearCube
<1> QED BY <1>4, <1>5, <1>6 DEF G, k

-----------------------------------------------------------------------------
(* Matches that are only played on from the last position.  The results that *)
(* are noted are those of the records, and each game begins with the score   *)
(* that the one before it has ended at.                                      *)
Continues(l, g) ==
  /\ l[g][1].i = g - 1
  /\ g > 1 => Ended(Final(l[g - 1])) /\ l[g][1].anScore = Final(l[g - 1]).anScore
Chained(l) == \A g \in 1..Len(l) : Continues(l, g)
Past(l) == AllTold(l) /\ Chained(l)

LEMMA PastResults ==
  ASSUME Valid, Past(lMatch)
  PROVE  ResultIsReplayed
<1>1. State(ms) /\ Games(lMatch) /\ Len(lMatch) \in Nat /\ DOMAIN lMatch = 1..Len(lMatch)
  <2>1. State(ms) /\ Games(lMatch) /\ Len(lMatch) \in Nat BY MatchIs
  <2>2. lMatch = [k \in 1..Len(lMatch) |-> lMatch[k]] BY <2>1, ListedIs DEF Games
  <2>3. DOMAIN lMatch = 1..Len(lMatch) BY <2>2
  <2> QED BY <2>1, <2>3
<1>2. ASSUME NEW g \in 1..Len(lMatch)
      PROVE  CalculateBoard(ms, Wiped(lMatch[g]), Len(Wiped(lMatch[g]))).info = lMatch[g][1]
  <2> DEFINE G == lMatch[g]
  <2>1. GoodGame(G) /\ Told(G) BY <1>1 DEF Games, Past, AllTold
  <2> HIDE DEF G
  <2>2. Len(Wiped(G)) = Len(G) BY <2>1, WipedIs DEF GoodGame
  <2>3. CalculateBoard(ms, Wiped(G), Len(G)).info = G[1] BY <1>1, <2>1, ToldIs
  <2> QED BY <2>2, <2>3 DEF G
<1> QED BY <1>1, <1>2 DEF ResultIsReplayed, Wiped

LEMMA PastChain ==
  ASSUME Valid, Past(lMatch)
  PROVE  MatchChain
<1>1. Games(lMatch) /\ Len(lMatch) \in Nat /\ DOMAIN lMatch = 1..Len(lMatch)
  <2>1. Games(lMatch) /\ Len(lMatch) \in Nat BY MatchIs
  <2>2. lMatch = [k \in 1..Len(lMatch) |-> lMatch[k]] BY <2>1, ListedIs DEF Games
  <2>3. DOMAIN lMatch = 1..Len(lMatch) BY <2>2
  <2> QED BY <2>1, <2>3
<1>2. ASSUME NEW g \in 1..Len(lMatch)
      PROVE  /\ lMatch[g][1].i = g - 1
             /\ g > 1 => LET before == lMatch[g - 1][1]
                         IN  /\ before.fWinner # None
                             /\ lMatch[g][1].anScore =
                                  [before.anScore EXCEPT ![before.fWinner] = @ + before.nPoints]
  <2>1. Continues(lMatch, g) BY DEF Past, Chained
  <2> SUFFICES ASSUME g > 1
               PROVE  LET before == lMatch[g - 1][1]
                      IN  /\ before.fWinner # None
                          /\ lMatch[g][1].anScore =
                               [before.anScore EXCEPT ![before.fWinner] = @ + before.nPoints]
    BY <2>1 DEF Continues
  <2> DEFINE G == lMatch[g - 1]
  <2>2. g - 1 \in 1..Len(lMatch) BY <1>1
  <2>3. GoodGame(G) /\ Told(G) BY <1>1, <2>2 DEF Games, Past, AllTold
  <2>4. Ended(Final(G)) /\ lMatch[g][1].anScore = Final(G).anScore BY <2>1 DEF Continues
  <2> HIDE DEF G
  <2>5. /\ G[1].fWinner \in Player
        /\ Final(G).anScore = [G[1].anScore EXCEPT ![G[1].fWinner] = @ + G[1].nPoints]
    BY <2>3, <2>4, ToldEnded
  <2>6. G[1].fWinner # None BY <2>5 DEF Player, None
  <2> QED BY <2>4, <2>5, <2>6 DEF G
<1> QED BY <1>1, <1>2 DEF MatchChain

(* At the last record the match state is the one that the game has led to.   *)
OnLast(s) == s.cur # 0 /\ s.cur = Len(s.games) /\ s.last = Len(s.games[s.cur])

LEMMA LastIs ==
  ASSUME NEW s, GoodMatch(s), OnLast(s)
  PROVE  LET G == s.games[s.cur]
         IN  /\ s.cur \in 1..Len(s.games) /\ GoodGame(G) /\ Sound(Final(G))
             /\ s.ms.gs = Final(G).gs /\ s.ms.anScore = Final(G).anScore /\ s.ms.cGames = Final(G).cGames
             /\ s.ms.nMatchTo = Final(G).nMatchTo
             /\ s.ms.gs # "PLAYING" <=> Ended(Final(G))
<1> DEFINE G == s.games[s.cur]  n == s.last  m == s.ms
<1>1. s.cur = Len(s.games) /\ n = Len(G) BY DEF OnLast
<1>2. s.cur \in 1..Len(s.games) /\ Games(s.games) /\ Related(m, G, n) /\ State(m)
  BY DEF GoodMatch, OnLast
<1>3. GoodGame(G) BY <1>2 DEF Games
<1> HIDE DEF G, m
<1>4. n > 1 /\ n \in 2..Len(G) BY <1>1, <1>3 DEF GoodGame, Begun, Records
<1>5. Alike(Un(m), Replayed(G, n)) /\ Sound(Replayed(G, n)) BY <1>2, <1>3, <1>4 DEF Related, Near, GoodGame, Begun
<1>6. Alike(Un(m), Final(G)) /\ Sound(Final(G)) BY <1>1, <1>5 DEF Final
<1>7. Un(m).gs = m.gs /\ Un(m).anScore = m.anScore /\ Un(m).cGames = m.cGames /\ Un(m).nMatchTo = m.nMatchTo
  BY <1>2, UnIs DEF Fields
<1>8. /\ m.gs = Final(G).gs /\ m.anScore = Final(G).anScore /\ m.cGames = Final(G).cGames
      /\ m.nMatchTo = Final(G).nMatchTo
  BY <1>6, <1>7 DEF Alike
<1>9. m.gs # "PLAYING" <=> Ended(Final(G)) BY <1>6, <1>8 DEF Sound, Ended
<1> QED BY <1>2, <1>3, <1>6, <1>8, <1>9 DEF G, m

LEMMA AtEndIs ==
  ASSUME Valid, AtEnd, plGame # 0
  PROVE  /\ GoodMatch(Match) /\ OnLast(Match) /\ Match.ms = ms /\ Match.games = lMatch /\ Match.cur = plGame
         /\ Match.last = plLastMove
BY DEF Valid, Match, OnLast, AtEnd, AtLastMove

(* A record is added to the last game.                                       *)
LEMMA AddedPast ==
  ASSUME NEW s, Open(s), NEW r, Fits(s, r), s.cur = Len(s.games), Chained(s.games),
         \A g \in 1..(s.cur - 1) : Told(s.games[g]), Cleaned(s.games[s.cur][1]) = s.games[s.cur][1]
  PROVE  Past(AddMoveRecord(s, r).games)
<1> DEFINE t == AddMoveRecord(s, r).games  l == s.games  c == s.cur
<1>1. Len(t) = c /\ (\A g \in 1..(c - 1) : t[g] = l[g]) /\ SameGame(t[c][1], l[c][1])
  BY Added DEF Extends
<1>2. Told(t[c]) BY AddedTold
<1>3. c \in 1..Len(l) /\ Len(l) \in Nat /\ c \in Nat
  <2>1. Listed(l) BY DEF Open
  <2>2. Len(l) \in Nat BY <2>1, ListedIs
  <2> QED BY <2>2 DEF Open
<1>4. /\ Chained(l) /\ \A g \in 1..(c - 1) : Told(l[g])
      /\ c = Len(l)
  OBVIOUS
<1> HIDE DEF t, l, c
<1>5. AllTold(t)
  <2> SUFFICES ASSUME NEW g \in 1..c PROVE Told(t[g]) BY <1>1 DEF AllTold
  <2>1. g = c \/ g \in 1..(c - 1) BY <1>3
  <2> QED BY <1>1, <1>2, <1>4, <2>1
<1>6. Chained(t)
  <2> SUFFICES ASSUME NEW g \in 1..c PROVE Continues(t, g) BY <1>1 DEF Chained
  <2>1. Continues(l, g) BY <1>4 DEF Chained
  <2>2. g > 1 => g - 1 \in 1..(c - 1) /\ t[g - 1] = l[g - 1] BY <1>1, <1>3
  <2>3. g = c \/ g \in 1..(c - 1) BY <1>3
  <2>4. t[g][1].i = l[g][1].i /\ t[g][1].anScore = l[g][1].anScore
    <3>1. CASE g = c BY <1>1, <3>1 DEF SameGame, InfoFields
    <3>2. CASE g \in 1..(c - 1) BY <1>1, <3>2
    <3> QED BY <2>3, <3>1, <3>2
  <2> QED BY <2>1, <2>2, <2>4 DEF Continues
<1> QED BY <1>5, <1>6 DEF Past, t

(* The last game of a list that is not empty.                                *)
LEMMA LastGame ==
  ASSUME NEW l, Games(l), l # <<>>
  PROVE  Len(l) \in Nat /\ Len(l) # 0 /\ Len(l) \in 1..Len(l) /\ 1 \in 1..Len(l)
<1>1. Len(l) \in Nat /\ l = [k \in 1..Len(l) |-> l[k]] BY ListedIs DEF Games
<1>2. Len(l) # 0
  <2> SUFFICES ASSUME Len(l) = 0 PROVE FALSE OBVIOUS
  <2>1. 1..Len(l) = {} BY <1>1
  <2>2. l = [k \in {} |-> l[k]] BY <1>1, <2>1
  <2>3. l = <<>> BY <2>2
  <2> QED BY <2>3
<1> QED BY <1>1, <1>2

(* NewGame after a game that has ended: m is the match state.                *)
MayBegin(l, m) ==
  /\ m.cGames = Len(l)
  /\ l # <<>> => Ended(Final(l[Len(l)])) /\ m.anScore = Final(l[Len(l)]).anScore

LEMMA CrawfordSame ==
  ASSUME NEW m, State(m), NEW state
  PROVE  LET c == Crawford(m, state)
         IN  \A f \in Fields \ {"fCrawford", "fPostCrawford"} : c[f] = m[f]
<1>1. PICK x, y : Crawford(m, state) = [m EXCEPT !.fCrawford = x, !.fPostCrawford = y]
                  \/ Crawford(m, state) = [m EXCEPT !.fPostCrawford = x, !.fCrawford = y]
                  \/ Crawford(m, state) = m
  BY DEF Crawford
<1> QED BY <1>1 DEF State, Fields

LEMMA NotedClean ==
  ASSUME NEW i, NEW nMatch, NEW anScore, NEW crawford, NEW jacoby, NEW n \in Nat
  PROVE  LET d == Noted(Info(i, nMatch, anScore, crawford, jacoby), n)
         IN  /\ IsInfo(d) /\ Cleaned(d) = d /\ d.i = i /\ d.anScore = anScore /\ d.nMatch = nMatch
             /\ d.fCrawfordGame = crawford
<1> DEFINE d == Noted(Info(i, nMatch, anScore, crawford, jacoby), n)
<1>1. IsInfo(d) BY InfoIs, NotedIs
<1>2. /\ d.i = i /\ d.anScore = anScore /\ d.nMatch = nMatch /\ d.fCrawfordGame = crawford
      /\ d.fWinner = None /\ d.nPoints = 0 /\ d.fResigned = FALSE
  BY DEF Noted, Info
<1> HIDE DEF d
<1>3. Cleaned(d) = d BY <1>1, <1>2 DEF IsInfo, InfoFields, Cleaned, ResultNoted
<1> QED BY <1>1, <1>2, <1>3 DEF d

LEMMA ChainedMore ==
  ASSUME NEW l, Games(l), Past(l), NEW m, MayBegin(l, m), NEW info, IsInfo(info), info.i = m.cGames,
         l # <<>> => info.anScore = m.anScore
  PROVE  LET L == Append(l, <<info>>)
         IN  Chained(L) /\ Len(L) = Len(l) + 1 /\ L[Len(l) + 1] = <<info>>
             /\ \A g \in 1..Len(l) : L[g] = l[g] /\ Told(L[g])
<1> DEFINE G == <<info>>  L == Append(l, G)  n == Len(l)
<1>1. Listed(l) /\ n \in Nat BY ListedIs DEF Games
<1>2. Len(L) = n + 1 /\ L[n + 1] = G /\ \A g \in 1..n : L[g] = l[g] BY <1>1, ListedAppend
<1>3. G[1] = info OBVIOUS
<1>4. n # 0 => l # <<>>
  <2> SUFFICES ASSUME l = <<>> PROVE n = 0 OBVIOUS
  <2> QED BY ListedOne
<1>5. m.cGames = n /\ (n # 0 => Ended(Final(l[n])) /\ info.anScore = Final(l[n]).anScore)
  BY <1>4 DEF MayBegin
<1> HIDE DEF G, L, n
<1>6. Chained(L)
  <2> SUFFICES ASSUME NEW g \in 1..(n + 1) PROVE Continues(L, g) BY <1>2 DEF Chained
  <2>1. CASE g = n + 1
    <3>1. L[g][1].i = g - 1 BY <1>1, <1>2, <1>3, <1>5, <2>1
    <3>2. ASSUME g > 1 PROVE Ended(Final(L[g - 1])) /\ L[g][1].anScore = Final(L[g - 1]).anScore
      <4>1. n # 0 /\ g - 1 = n /\ n \in 1..n BY <1>1, <2>1, <3>2
      <4>2. L[g - 1] = l[n] /\ L[g] = G BY <1>2, <2>1, <4>1
      <4> QED BY <1>3, <1>5, <4>1, <4>2
    <3> QED BY <3>1, <3>2 DEF Continues
  <2>2. CASE g # n + 1
    <3>1. g \in 1..n /\ (g > 1 => g - 1 \in 1..n) BY <1>1, <2>2
    <3>2. Continues(l, g) BY <3>1 DEF Past, Chained, n
    <3>3. L[g] = l[g] /\ (g > 1 => L[g - 1] = l[g - 1]) BY <1>2, <3>1
    <3> QED BY <3>2, <3>3 DEF Continues
  <2> QED BY <2>1, <2>2
<1>7. \A g \in 1..n : Told(l[g]) BY DEF Past, AllTold, n
<1> QED BY <1>2, <1>6, <1>7 DEF L, G, n

LEMMA NewGamePast ==
  ASSUME Shown, NEW s, Games(s.games), State(s.ms), Past(s.games), MayBegin(s.games, s.ms),
         NEW state, NEW p \in Player \cup {None}, NEW rolls \in Nat
  PROVE  LET t == NewGame(s, state, p, rolls)
         IN  Past(t.games) /\ (t.cur = 0 => t.ms.cGames = 0)
<1> DEFINE l == s.games
           m == Crawford(s.ms, state)
           info == Info(m.cGames, m.nMatchTo, m.anScore, m.fCrawford, m.fJacoby /\ m.nMatchTo = 0)
           begun == ApplyMoveRecord(m, info, info)
           doubles == AutoDoubles(m, rolls)
           noted == Noted(info, doubles)
           rolled == [ms |-> [begun.ms EXCEPT !.nCube = IF fDisplay THEN TwoTo[doubles] ELSE @],
                      games |-> Append(l, <<noted>>), cur |-> Len(l) + 1, last |-> 1]
           t == NewGame(s, state, p, rolls)
<1>1. /\ p # None => t = AddMoveRecord(rolled, Rec("SETDICE", p))
      /\ p = None /\ l = <<>> => t = [ms |-> begun.ms, games |-> <<>>, cur |-> 0, last |-> 0]
      /\ p = None /\ l # <<>> =>
           t = [ms |-> CalculateBoard(begun.ms, l[1], 1).ms, games |-> l, cur |-> 1, last |-> 1]
  BY DEF NewGame
<1>2. State(m) /\ m.cGames = s.ms.cGames /\ m.anScore = s.ms.anScore
  <2>1. State(m) /\ \A f \in Fields \ {"fCrawford", "fPostCrawford"} : m[f] = s.ms[f] BY CrawfordIs, CrawfordSame
  <2> HIDE DEF m
  <2> QED BY <2>1 DEF Fields
<1> HIDE DEF t, m
<1>3. IsInfo(info) /\ info.nAutoDoubles = 0 /\ info.i = m.cGames
  BY InfoIs DEF Info
<1>4. doubles \in Nat BY AutoDoublesIs
<1>5. IsInfo(noted) /\ Cleaned(noted) = noted /\ noted.i = m.cGames /\ noted.anScore = m.anScore
  <2> HIDE DEF doubles
  <2> QED BY <1>4, NotedClean
<1>6. Open(rolled) /\ rolled.last = 1 /\ Unresigned(rolled.ms)
  <2> HIDE DEF info
  <2> QED BY <1>2, <1>3, NewGameRolled
<1>7. rolled.games = Append(l, <<noted>>) /\ rolled.cur = Len(l) + 1 OBVIOUS
<1>8. begun.ms.cGames = m.cGames
  <2> HIDE DEF info
  <2> QED BY <1>2, <1>3, InfoSets
<1> HIDE DEF rolled, begun, noted, l
<1>9. Games(l) /\ Past(l) /\ MayBegin(l, s.ms) BY DEF l
<1>10. CASE p # None
  <2> DEFINE r == Rec("SETDICE", p)
  <2>1. p \in Player /\ r.mt = "SETDICE" /\ r.fPlayer = p BY <1>10 DEF Rec
  <2> HIDE DEF r
  <2>2. IsMove(r) /\ Opener(r) BY <2>1 DEF IsMove, Kinds, Opener
  <2>3. Fits(rolled, r) BY <1>6, <2>2 DEF Fits
  <2>4. /\ Chained(rolled.games) /\ Len(rolled.games) = Len(l) + 1 /\ rolled.games[Len(l) + 1] = <<noted>>
        /\ \A g \in 1..Len(l) : Told(rolled.games[g])
    BY <1>2, <1>5, <1>7, <1>9, ChainedMore
  <2>5. rolled.cur = Len(rolled.games) /\ rolled.games[rolled.cur][1] = noted
    BY <1>7, <2>4
  <2>6. \A g \in 1..(rolled.cur - 1) : Told(rolled.games[g])
    <3>1. Len(l) \in Nat BY <1>9, ListedIs DEF Games
    <3> QED BY <1>7, <2>4, <3>1
  <2>7. Past(AddMoveRecord(rolled, r).games) BY <1>5, <1>6, <2>3, <2>4, <2>5, <2>6, AddedPast
  <2>8. t = AddMoveRecord(rolled, r) BY <1>1, <1>10 DEF r
  <2>9. t.cur = rolled.cur BY <1>6, <2>3, <2>8, Added
  <2>10. t.cur # 0
    <3>1. Len(l) \in Nat BY <1>9, ListedIs DEF Games
    <3> QED BY <1>7, <2>9, <3>1
  <2> QED BY <2>7, <2>8, <2>10 DEF t
<1>11. CASE p = None /\ l = <<>>
  <2> DEFINE z == begun.ms
  <2>1. t = [ms |-> z, games |-> <<>>, cur |-> 0, last |-> 0] BY <1>1, <1>11
  <2> HIDE DEF z
  <2>2. t.ms = z /\ t.games = <<>> BY <2>1
  <2>3. z.cGames = 0 BY <1>2, <1>8, <1>9, <1>11, ListedOne DEF MayBegin, z
  <2> QED BY <1>9, <1>11, <2>2, <2>3 DEF t
<1>12. CASE p = None /\ l # <<>>
  <2> DEFINE z == CalculateBoard(begun.ms, l[1], 1).ms
  <2>1. t = [ms |-> z, games |-> l, cur |-> 1, last |-> 1] BY <1>1, <1>12
  <2> HIDE DEF z
  <2>2. t.games = l /\ t.cur = 1 BY <2>1
  <2> QED BY <1>9, <2>2 DEF t
<1> QED BY <1>10, <1>11, <1>12

-----------------------------------------------------------------------------
(* What each command does to the games.                                      *)
LEMMA AddedOn ==
  ASSUME NEW s, GoodMatch(s), OnLast(s), Past(s.games), Open(s), s.ms.gs = "PLAYING", NEW r, Fits(s, r)
  PROVE  LET t == AddMoveRecord(s, r)
         IN  GoodMatch(t) /\ OnLast(t) /\ Past(t.games) /\ t.cur = s.cur
<1> DEFINE t == AddMoveRecord(s, r)  c == s.cur  G == s.games[c]
<1>1. GoodMatch(t) /\ t.cur = c /\ Len(t.games) = c /\ t.last = Len(t.games[c]) BY Added
<1>2. c # 0 /\ c = Len(s.games) BY DEF OnLast
<1>3. c \in 1..Len(s.games) /\ GoodGame(G) /\ ~Ended(Final(G)) BY LastIs
<1>4. Told(G) BY <1>3 DEF Past, AllTold
<1> HIDE DEF G
<1>5. Cleaned(G[1]) = G[1] BY <1>3, <1>4, ToldUnended
<1>6. Chained(s.games) /\ \A g \in 1..(c - 1) : Told(s.games[g])
  <2>1. \A g \in 1..(c - 1) : g \in 1..Len(s.games) BY <1>2, <1>3
  <2> QED BY <2>1 DEF Past, AllTold
<1>7. Past(t.games) BY <1>2, <1>5, <1>6, AddedPast DEF G
<1>8. OnLast(t) BY <1>1, <1>2 DEF OnLast
<1> QED BY <1>1, <1>7, <1>8

(* A match whose past is known.                                              *)
GoodPast == Past(lMatch) /\ (plGame = 0 => ms.cGames = 0)

LEMMA AddsPast ==
  ASSUME Valid, GoodPast, AtEnd, Adds
  PROVE  GoodPast'
<1>1. PICK r : Fits(Match, r) /\ Become(AddMoveRecord(Match, r)) BY DEF Adds
<1>2. Open(Match) /\ ms.gs = "PLAYING" BY InPlay DEF Adds
<1>3. plGame # 0 BY <1>2, PlayingOn DEF Valid, Match
<1> DEFINE s == Match  t == AddMoveRecord(s, r)
<1>4. GoodMatch(s) /\ OnLast(s) /\ s.ms = ms /\ s.games = lMatch /\ s.cur = plGame BY <1>3, AtEndIs
<1>5. Become(t) /\ Open(s) /\ Fits(s, r) BY <1>1, <1>2
<1> HIDE DEF s
<1>6. Past(t.games) /\ t.cur = s.cur BY <1>2, <1>4, <1>5, AddedOn DEF GoodPast
<1> HIDE DEF t
<1>7. lMatch' = t.games /\ plGame' = t.cur BY <1>5 DEF Become
<1> QED BY <1>3, <1>4, <1>6, <1>7 DEF GoodPast

LEMMA RollsPast ==
  ASSUME Valid, GoodPast, AtEnd, NEW moved \in 0..1, RollsAndMoves(moved)
  PROVE  GoodPast'
<1> DEFINE s == Match  t == RollDice  r == Rec("SETDICE", ms.fTurn)  n == Normal(t.ms.fTurn, moved)
           u == AddMoveRecord(t, n)
<1>1. /\ ms.gs = "PLAYING" /\ Open(s) /\ Fits(s, r) /\ t = AddMoveRecord(s, r)
      /\ Open(t) /\ Fits(t, n) /\ t.ms.gs = "PLAYING" /\ Become(u)
  BY DEF RollsAndMoves
<1>2. plGame # 0 BY <1>1, PlayingOn DEF Valid, Match
<1>3. GoodMatch(s) /\ OnLast(s) /\ s.ms = ms /\ s.games = lMatch /\ s.cur = plGame BY <1>2, AtEndIs
<1> HIDE DEF s, t, r, n
<1>4. GoodMatch(t) /\ OnLast(t) /\ Past(t.games) /\ t.cur = s.cur BY <1>1, <1>3, AddedOn DEF GoodPast
<1>5. Past(u.games) /\ u.cur = t.cur BY <1>1, <1>4, AddedOn
<1> HIDE DEF u
<1>6. lMatch' = u.games /\ plGame' = u.cur BY <1>1 DEF Become
<1> QED BY <1>2, <1>3, <1>4, <1>5, <1>6 DEF GoodPast

LEMMA NewGameGoodPast ==
  ASSUME Shown, NEW s, Games(s.games), State(s.ms), Past(s.games), MayBegin(s.games, s.ms), NEW state,
         NEW o \in Opening, Become(NewGame(s, state, o[1], o[2]))
  PROVE  GoodPast'
<1> DEFINE p == o[1]  rolls == o[2]  t == NewGame(s, state, p, rolls)
<1>1. p \in Player \cup {None} /\ rolls \in Nat BY BoundsAssumption DEF Opening
<1>2. Become(t) OBVIOUS
<1> HIDE DEF p, rolls
<1>3. Past(t.games) /\ (t.cur = 0 => t.ms.cGames = 0) BY <1>1, NewGamePast
<1> HIDE DEF t
<1> QED BY <1>2, <1>3 DEF Become, GoodPast

LEMMA NoPast == Past(<<>>) /\ Games(<<>>) /\ Len(<<>>) = 0
<1>1. Len(<<>>) = 0 /\ Listed(<<>>) BY ListedOne
<1> QED BY <1>1 DEF Past, AllTold, Chained, Games

LEMMA NewMatchPast ==
  ASSUME Shown, Valid, NEW o \in Opening, NEW n \in MatchLengths, CommandNewMatch(n, o[1], o[2])
  PROVE  GoodPast'
<1> DEFINE m == [ms EXCEPT !.nMatchTo = n, !.cGames = 0, !.anScore = [q \in Player |-> 0],
                           !.fMove = None, !.fTurn = None, !.fCrawford = FALSE,
                           !.fPostCrawford = FALSE, !.gs = "NONE", !.fJacoby = fJacoby]
           s == [ms |-> m, games |-> <<>>, cur |-> 0, last |-> 0]
<1>1. Become(NewGame(s, -1, o[1], o[2])) BY DEF CommandNewMatch
<1>2. State(m) /\ m.cGames = 0
  <2>1. State(ms) BY MatchIs
  <2> QED BY <2>1 DEF State, Fields
<1> HIDE DEF m
<1>3. s.ms = m /\ s.games = <<>> OBVIOUS
<1> HIDE DEF s
<1>4. Games(s.games) /\ Past(s.games) /\ MayBegin(s.games, s.ms) BY <1>2, <1>3, NoPast DEF MayBegin
<1> QED BY <1>1, <1>2, <1>3, <1>4, NewGameGoodPast

(* A match of which the last game has ended.                                 *)
LEMMA PastEnded ==
  ASSUME Valid, GoodPast, AtEnd, ms.gs # "PLAYING"
  PROVE  MayBegin(lMatch, ms)
<1>1. CASE plGame = 0
  <2>1. lMatch = <<>>
    <3>1. Len(lMatch) \in Nat BY MatchIs
    <3>2. Match.cur = plGame /\ Match.games = lMatch BY DEF Match
    <3>3. 0 \notin 1..Len(lMatch) BY <3>1
    <3> QED BY <1>1, <3>2, <3>3 DEF Valid, GoodMatch
  <2>2. ms.cGames = 0 BY <1>1 DEF GoodPast
  <2> QED BY <2>1, <2>2, NoPast DEF MayBegin
<1>2. CASE plGame # 0
  <2> DEFINE s == Match  G == lMatch[plGame]
  <2>1. GoodMatch(s) /\ OnLast(s) /\ s.ms = ms /\ s.games = lMatch /\ s.cur = plGame BY <1>2, AtEndIs
  <2> HIDE DEF s
  <2>2. /\ plGame \in 1..Len(lMatch) /\ GoodGame(G) /\ Ended(Final(G)) /\ ms.anScore = Final(G).anScore
        /\ ms.cGames = Final(G).cGames /\ plGame = Len(lMatch)
    BY <2>1, LastIs DEF OnLast
  <2>3. Told(G) /\ G[1].i = plGame - 1 BY <2>2 DEF GoodPast, Past, AllTold, Chained, Continues
  <2> HIDE DEF G
  <2>4. Final(G).cGames = G[1].i + 1 BY <2>2, <2>3, ToldEnded
  <2>5. Len(lMatch) \in Nat BY MatchIs
  <2>6. ms.cGames = Len(lMatch) BY <2>2, <2>3, <2>4, <2>5
  <2> QED BY <2>2, <2>6 DEF MayBegin, G
<1> QED BY <1>1, <1>2

(* The first games of a match.                                               *)
LEMMA PastCut ==
  ASSUME NEW l, Games(l), Past(l), NEW n \in 0..Len(l)
  PROVE  LET t == SubSeq(l, 1, n)
         IN  Games(t) /\ Past(t) /\ Len(t) = n /\ \A g \in 1..n : t[g] = l[g]
<1> DEFINE t == SubSeq(l, 1, n)
<1>1. Listed(l) /\ Len(l) \in Nat BY ListedIs DEF Games
<1>2. Listed(t) /\ Len(t) = n /\ \A g \in 1..n : t[g] = l[g] BY <1>1, ListedCut
<1> HIDE DEF t
<1>3. \A g \in 1..n : g \in 1..Len(l) /\ (g > 1 => g - 1 \in 1..n) BY <1>1
<1>4. Games(t) BY <1>2, <1>3 DEF Games
<1>5. Past(t)
  <2>1. AllTold(t) BY <1>2, <1>3 DEF Past, AllTold
  <2>2. ASSUME NEW g \in 1..n PROVE Continues(t, g)
    <3>1. Continues(l, g) /\ t[g] = l[g] /\ (g > 1 => t[g - 1] = l[g - 1]) BY <1>2, <1>3 DEF Past, Chained
    <3> QED BY <3>1 DEF Continues
  <2> QED BY <1>2, <2>1, <2>2 DEF Past, Chained
<1> QED BY <1>2, <1>4, <1>5 DEF t

(* A game that is discarded leaves the match as it was before it.            *)
LEMMA PastDiscarded ==
  ASSUME Valid, GoodPast, AtEnd, ms.gs = "PLAYING"
  PROVE  LET t == SubSeq(lMatch, 1, plGame - 1)
         IN  /\ Games(t) /\ Past(t) /\ MayBegin(t, ms) /\ Len(t) = plGame - 1 /\ plGame \in 1..Len(lMatch)
             /\ \A g \in 1..(plGame - 1) : t[g] = lMatch[g]
<1>1. plGame # 0 BY PlayingOn DEF Valid, Match
<1> DEFINE s == Match  G == lMatch[plGame]  n == plGame - 1  t == SubSeq(lMatch, 1, n)
<1>2. GoodMatch(s) /\ OnLast(s) /\ s.ms = ms /\ s.games = lMatch /\ s.cur = plGame BY <1>1, AtEndIs
<1> HIDE DEF s
<1>3. /\ plGame \in 1..Len(lMatch) /\ GoodGame(G) /\ ~Ended(Final(G)) /\ ms.anScore = Final(G).anScore
      /\ ms.cGames = Final(G).cGames
  BY <1>2, LastIs
<1>4. Told(G) /\ Continues(lMatch, plGame) BY <1>3 DEF GoodPast, Past, AllTold, Chained
<1>5. AsBefore(Final(G), G[1])
  <2> HIDE DEF G
  <2> QED BY <1>3, <1>4, ToldUnended
<1>6. Games(lMatch) /\ Len(lMatch) \in Nat BY MatchIs
<1>7. n \in 0..Len(lMatch) /\ (n # 0 => n \in 1..n /\ plGame > 1 /\ n = plGame - 1) BY <1>3, <1>6
<1>8. /\ ms.cGames = n /\ ms.anScore = G[1].anScore
      /\ (plGame > 1 => Ended(Final(lMatch[n])) /\ ms.anScore = Final(lMatch[n]).anScore)
  BY <1>3, <1>4, <1>5 DEF AsBefore, Continues
<1> HIDE DEF n, G, t
<1>9. Games(t) /\ Past(t) /\ Len(t) = n /\ \A g \in 1..n : t[g] = lMatch[g] BY <1>6, <1>7, PastCut DEF GoodPast, t
<1>10. MayBegin(t, ms)
  <2> SUFFICES ASSUME t # <<>> PROVE Ended(Final(t[n])) /\ ms.anScore = Final(t[n]).anScore
    BY <1>8, <1>9 DEF MayBegin
  <2>1. n # 0 BY <1>9, LastGame
  <2> QED BY <1>7, <1>8, <1>9, <2>1
<1> QED BY <1>3, <1>9, <1>10 DEF t, n

LEMMA NewGameCommandPast ==
  ASSUME Shown, Valid, GoodPast, AtEnd, NEW o \in Opening, CommandNewGame(o[1], o[2])
  PROVE  GoodPast'
<1> DEFINE games == IF ms.gs = "PLAYING" \/ ~AtLastMove THEN SubSeq(lMatch, 1, plGame - 1) ELSE lMatch
           s == [Match EXCEPT !.games = games]
<1>1. Become(NewGame(s, fCrawfordState, o[1], o[2])) BY DEF CommandNewGame
<1>2. State(ms) /\ Games(lMatch) BY MatchIs
<1>3. Games(games) /\ Past(games) /\ MayBegin(games, ms)
  <2>1. CASE ms.gs = "PLAYING"
    <3>1. games = SubSeq(lMatch, 1, plGame - 1) BY <2>1
    <3> HIDE DEF games
    <3> QED BY <2>1, <3>1, PastDiscarded
  <2>2. CASE ms.gs # "PLAYING"
    <3>1. games = lMatch BY <2>2 DEF AtEnd
    <3> HIDE DEF games
    <3> QED BY <1>2, <2>2, <3>1, PastEnded DEF GoodPast
  <2> QED BY <2>1, <2>2
<1> HIDE DEF games
<1>4. s.ms = ms /\ s.games = games BY DEF Match
<1> HIDE DEF s
<1> QED BY <1>1, <1>2, <1>3, <1>4, NewGameGoodPast

LEMMA NextGamePast ==
  ASSUME Shown, Valid, GoodPast, AtEnd, NEW o \in Opening, NextTurnNewGame(o[1], o[2])
  PROVE  GoodPast'
<1> DEFINE m == EndOfGame  s == [Match EXCEPT !.ms = m]
<1>1. Become(NewGame(s, fCrawfordState', o[1], o[2])) /\ GameEnded BY DEF NextTurnNewGame
<1>2. State(m) /\ \A f \in Fields \ {"fResigned", "fCrawford", "fPostCrawford"} : m[f] = ms[f]
  BY MatchIs, EndOfGameIs
<1>3. ms.gs # "PLAYING" BY <1>1, InPlay DEF GameEnded
<1> HIDE DEF m
<1>4. MayBegin(lMatch, m)
  <2>1. m.cGames = ms.cGames /\ m.anScore = ms.anScore BY <1>2 DEF Fields
  <2> QED BY <1>3, <2>1, PastEnded DEF MayBegin
<1>5. s.ms = m /\ s.games = lMatch BY DEF Match
<1> HIDE DEF s
<1>6. Games(lMatch) BY MatchIs
<1> QED BY <1>1, <1>2, <1>4, <1>5, <1>6, NewGameGoodPast DEF GoodPast

(* One step of play from the last position.                                  *)
LEMMA SamePast ==
  ASSUME GoodPast, UNCHANGED <<lMatch, plGame>>, plGame # 0
  PROVE  GoodPast'
BY DEF GoodPast

LEMMA PlayPast ==
  ASSUME Shown, Valid, GoodPast, AtEnd, Play
  PROVE  GoodPast'
<1>1. ms.gs = "PLAYING" => plGame # 0 BY PlayingOn DEF Valid, Match
<1>2. CASE NextTurn
  <2>1. CASE NextTurnPlaying BY <2>1, SamePast DEF NextTurnPlaying
  <2>2. CASE NextTurnGameOver BY <2>2, SamePast DEF NextTurnGameOver
  <2>3. ASSUME NEW o \in Opening, NextTurnNewGame(o[1], o[2]) PROVE GoodPast' BY <2>3, NextGamePast
  <2> QED BY <1>2, <2>1, <2>2, <2>3 DEF NextTurn
<1>3. CASE Begin
  <2>1. ASSUME NEW o \in Opening, NEW n \in MatchLengths, CommandNewMatch(n, o[1], o[2]) PROVE GoodPast'
    BY <2>1, NewMatchPast
  <2>2. ASSUME NEW o \in Opening, CommandNewGame(o[1], o[2]) PROVE GoodPast' BY <2>2, NewGameCommandPast
  <2> QED BY <1>3, <2>1, <2>2 DEF Begin
<1>4. CASE TakeTurn
  <2>1. CASE CommandRoll BY <2>1, RollAdds, AddsPast
  <2>2. CASE CommandDouble BY <2>2, DoubleAdds, AddsPast
  <2>3. ASSUME NEW moved \in 0..1, CommandRollAndMove(moved) PROVE GoodPast' BY <2>3, RollAndMoveAdds, RollsPast
  <2>4. ASSUME NEW moved \in 0..1, CommandMove(moved) PROVE GoodPast' BY <2>4, MoveAdds, AddsPast
  <2> QED BY <1>4, <2>1, <2>2, <2>3, <2>4 DEF TakeTurn
<1>5. CASE AnswerResignation
  <2>1. CASE CommandAgree BY <2>1, AgreeAdds, AddsPast
  <2>2. CASE CommandDecline BY <1>1, <2>2, SamePast DEF CommandDecline, Playing
  <2> QED BY <1>5, <2>1, <2>2 DEF AnswerResignation
<1>6. CASE Settled /\ (AnswerDouble \/ OfferResignation)
  <2>1. CASE CommandRedouble BY <1>6, <2>1, RedoubleAdds, AddsPast
  <2>2. CASE CommandTake \/ CommandDrop BY <1>6, <2>2, AnswerAdds, AddsPast
  <2>3. ASSUME NEW k \in 0..3, CommandResign(k) PROVE GoodPast' BY <1>1, <2>3, SamePast DEF CommandResign, Playing
  <2> QED BY <1>6, <2>1, <2>2, <2>3 DEF AnswerDouble, OfferResignation
<1> QED BY <1>2, <1>3, <1>4, <1>5, <1>6 DEF Play

(* Going through the match changes none of its games.                        *)
LEMMA ReviewSame ==
  ASSUME Valid, AllTold(lMatch), Review
  PROVE  lMatch' = lMatch /\ plGame # 0 /\ plGame' # 0
<1>1. Valid' /\ Retold(lMatch', lMatch) BY NavigateValid DEF Review
<1>2. lMatch' = lMatch BY <1>1 DEF Retold
<1>3. plGame # 0
  BY DEF Review, Navigate, CommandNext, CommandPrevious, CommandNextRoll, CommandPreviousRoll,
         CommandNextGame, CommandPreviousGame, CommandFirstMove, HasNext
<1>4. Len(lMatch) \in Nat /\ plGame \in 1..Len(lMatch)
  <2>1. Len(lMatch) \in Nat BY MatchIs
  <2> QED BY <1>3, <2>1 DEF Valid, GoodMatch, Match
<1>5. lMatch # <<>>
  <2> SUFFICES ASSUME lMatch = <<>> PROVE FALSE OBVIOUS
  <2>1. Len(lMatch) = 0 BY ListedOne
  <2> QED BY <1>4, <2>1
<1>6. plGame' # 0
  <2> SUFFICES ASSUME plGame' = 0 PROVE FALSE OBVIOUS
  <2>1. Len(lMatch') \in Nat /\ 0 \notin 1..Len(lMatch') BY <1>2, <1>4
  <2>2. lMatch' = <<>> BY <1>1, <2>1 DEF Valid, GoodMatch, Match
  <2> QED BY <1>2, <1>5, <2>2
<1> QED BY <1>2, <1>3, <1>6

HistoryInv == Valid /\ (Reviewing => GoodPast)

LEMMA HistoryStep ==
  ASSUME Shown, HistoryInv, [HistoryNext]_<<vars, way>>
  PROVE  HistoryInv'
<1>1. Valid BY DEF HistoryInv
<1>2. way' = way /\ [Play \/ Review]_vars BY DEF HistoryNext
<1>3. Valid' BY <1>1, <1>2, StepValid
<1>4. ASSUME Reviewing, GoodPast PROVE GoodPast'
  <2>1. CASE Review
    <3>1. AllTold(lMatch) BY <1>4 DEF GoodPast, Past
    <3> QED BY <1>1, <1>4, <2>1, <3>1, ReviewSame DEF GoodPast
  <2>2. CASE Play /\ AtEnd BY <1>1, <1>4, <2>2, PlayPast
  <2>3. CASE UNCHANGED vars BY <1>4, <2>3 DEF vars, GoodPast
  <2> QED BY <1>4, <2>1, <2>2, <2>3 DEF HistoryNext, Reviewing
<1> QED BY <1>2, <1>3, <1>4 DEF HistoryInv, Reviewing

LEMMA AlwaysPast ==
  ASSUME Shown
  PROVE  HistorySpec => []HistoryInv
<1>1. HistoryInit => HistoryInv
  <2>1. Init => Past(lMatch) /\ ms.cGames = 0 BY NoPast DEF Init
  <2> QED BY <2>1, InitValid DEF HistoryInit, HistoryInv, GoodPast
<1>2. HistoryInv /\ [HistoryNext]_<<vars, way>> => HistoryInv' BY HistoryStep
<1> QED BY <1>1, <1>2, PTL DEF HistorySpec

-----------------------------------------------------------------------------
(* The Crawford game: the first in which a player wants one point.           *)
Scores(m, n) ==
  /\ n \in Nat /\ m \in [Player -> Nat]
  /\ n > 0 => \A p \in Player : m[p] < n
NextC(G) == G[1].nMatch > 0 /\ OneShort(G[1].nMatch, Final(G).anScore) /\ ~Short(G[1])
OnceAt(l, g) ==
  /\ l[g][1].nMatch = l[1][1].nMatch /\ Scores(l[g][1].anScore, l[g][1].nMatch)
  /\ g = 1 => ~l[g][1].fCrawfordGame /\ \A p \in Player : l[g][1].anScore[p] = 0
  /\ g > 1 => (l[g][1].fCrawfordGame <=> NextC(l[g - 1]))
  /\ \A h \in 1..g : Short(l[h][1]) => Short(l[g][1])
  /\ l[g][1].fCrawfordGame => \A k \in 2..Len(l[g]) : l[g][k].mt # "DOUBLE"
Once(l) == \A g \in 1..Len(l) : OnceAt(l, g)

LEMMA TwoPlayers ==
  /\ Player = {0, 1} /\ 0 \in Player /\ 1 \in Player
  /\ \A info : OnePointShort(info) <=> Short(info)
BY DEF Player, OnePointShort, Short, OneShort

(* The Crawford game is played at one point from the match.                  *)
LEMMA OnceShort ==
  ASSUME NEW l, Len(l) \in Nat, Chained(l), Once(l), NEW g \in 1..Len(l)
  PROVE  /\ l[g][1].fCrawfordGame => Short(l[g][1]) /\ l[g][1].nMatch > 0 /\ g > 1
         /\ g > 1 => (l[g][1].fCrawfordGame <=> l[g][1].nMatch > 0 /\ Short(l[g][1]) /\ ~Short(l[g - 1][1]))
<1>1. OnceAt(l, g) /\ Continues(l, g) BY DEF Once, Chained
<1>2. CASE g = 1 BY <1>1, <1>2 DEF OnceAt
<1>3. CASE g # 1
  <2>1. g > 1 /\ g - 1 \in 1..Len(l) BY <1>3
  <2>2. OnceAt(l, g - 1) BY <2>1 DEF Once
  <2>3. l[g - 1][1].nMatch = l[g][1].nMatch BY <1>1, <2>2 DEF OnceAt
  <2>4. l[g][1].anScore = Final(l[g - 1]).anScore BY <1>1, <2>1 DEF Continues
  <2>5. l[g][1].fCrawfordGame <=> NextC(l[g - 1]) BY <1>1, <2>1 DEF OnceAt
  <2>6. NextC(l[g - 1]) <=> l[g][1].nMatch > 0 /\ Short(l[g][1]) /\ ~Short(l[g - 1][1])
    BY <2>3, <2>4 DEF NextC, Short
  <2> QED BY <2>1, <2>5, <2>6
<1> QED BY <1>2, <1>3

LEMMA OnceRule ==
  ASSUME Valid, GoodPast, Once(lMatch)
  PROVE  CrawfordRule
<1>1. Games(lMatch) /\ Len(lMatch) \in Nat /\ DOMAIN lMatch = 1..Len(lMatch)
  <2>1. Games(lMatch) /\ Len(lMatch) \in Nat BY MatchIs
  <2>2. lMatch = [k \in 1..Len(lMatch) |-> lMatch[k]] BY <2>1, ListedIs DEF Games
  <2>3. DOMAIN lMatch = 1..Len(lMatch) BY <2>2
  <2> QED BY <2>1, <2>3
<1> SUFFICES ASSUME NEW g \in 1..Len(lMatch)
             PROVE  LET info == lMatch[g][1]
                    IN  /\ info.fCrawfordGame <=>
                             /\ info.nMatch > 1 /\ OnePointShort(info)
                             /\ \A h \in 1..(g - 1) : ~OnePointShort(lMatch[h][1])
                        /\ info.fCrawfordGame => \A k \in DOMAIN lMatch[g] : lMatch[g][k].mt # "DOUBLE"
  BY <1>1 DEF CrawfordRule
<1> DEFINE l == lMatch  i == l[g][1]
<1>2. OnceAt(l, g) BY DEF Once
<1>3. /\ i.fCrawfordGame => Short(i) /\ i.nMatch > 0 /\ g > 1
      /\ g > 1 => (i.fCrawfordGame <=> i.nMatch > 0 /\ Short(i) /\ ~Short(l[g - 1][1]))
  BY <1>1, OnceShort DEF GoodPast, Past
<1>4. i.nMatch \in Nat /\ i.anScore \in [Player -> Nat] BY <1>2 DEF OnceAt, Scores
<1>5. ASSUME i.fCrawfordGame PROVE i.nMatch > 1 /\ Short(i) /\ \A h \in 1..(g - 1) : ~Short(l[h][1])
  <2>1. g > 1 /\ g - 1 \in 1..Len(l) BY <1>1, <1>3, <1>5
  <2>2. OnceAt(l, g - 1) /\ ~Short(l[g - 1][1]) BY <1>3, <1>5, <2>1 DEF Once
  <2>3. l[g - 1][1].nMatch = i.nMatch BY <1>2, <2>2 DEF OnceAt
  <2>4. i.nMatch # 1
    <3> SUFFICES ASSUME i.nMatch = 1 PROVE FALSE OBVIOUS
    <3> DEFINE z == l[g - 1][1]
    <3>1. z.nMatch = 1 /\ z.anScore \in [Player -> Nat] /\ \A p \in Player : z.anScore[p] < 1
      BY <2>2, <2>3 DEF OnceAt, Scores
    <3> HIDE DEF z
    <3>2. z.anScore[0] \in Nat /\ z.anScore[0] < 1 BY <3>1, TwoPlayers
    <3>3. z.anScore[0] = 1 - 1 BY <3>2
    <3>4. Short(z) BY <3>1, <3>3 DEF Short, OneShort
    <3> QED BY <2>2, <3>4 DEF z
  <2>5. \A h \in 1..(g - 1) : ~Short(l[h][1]) BY <2>2 DEF OnceAt
  <2> QED BY <1>3, <1>4, <1>5, <2>4, <2>5
<1>6. ASSUME i.nMatch > 1, Short(i), \A h \in 1..(g - 1) : ~Short(l[h][1]) PROVE i.fCrawfordGame
  <2>1. CASE g = 1
    <3>1. i.anScore[0] = 0 /\ i.anScore[1] = 0 BY <1>2, <2>1, TwoPlayers DEF OnceAt
    <3>2. ~Short(i) BY <1>4, <1>6, <3>1 DEF Short, OneShort
    <3> QED BY <1>6, <3>2
  <2>2. CASE g # 1
    <3>1. g > 1 /\ g - 1 \in 1..(g - 1) BY <1>1, <2>2
    <3>2. ~Short(l[g - 1][1]) BY <1>6, <3>1
    <3>3. i.nMatch > 0 BY <1>4, <1>6
    <3> QED BY <1>3, <1>6, <3>1, <3>2, <3>3
  <2> QED BY <2>1, <2>2
<1>7. ASSUME i.fCrawfordGame, NEW k \in DOMAIN lMatch[g] PROVE lMatch[g][k].mt # "DOUBLE"
  <2> DEFINE G == lMatch[g]
  <2>1. GoodGame(G) BY <1>1 DEF Games
  <2>2. \A j \in 2..Len(G) : G[j].mt # "DOUBLE" BY <1>2, <1>7 DEF OnceAt
  <2> HIDE DEF G
  <2>3. Len(G) \in Nat /\ G = [j \in 1..Len(G) |-> G[j]] /\ G[1].mt = "GAMEINFO"
    BY <2>1, ListedIs DEF GoodGame, Begun, Records, IsInfo
  <2>4. DOMAIN G = 1..Len(G) BY <2>3
  <2>5. k \in 1..Len(G) BY <2>4 DEF G
  <2>6. k = 1 \/ k \in 2..Len(G) BY <2>3, <2>5
  <2> QED BY <2>2, <2>3, <2>6 DEF G
<1> HIDE DEF i
<1>8. OnePointShort(i) <=> Short(i) BY TwoPlayers
<1>9. \A h \in 1..(g - 1) : OnePointShort(lMatch[h][1]) <=> Short(l[h][1]) BY TwoPlayers
<1> QED BY <1>5, <1>6, <1>7, <1>8, <1>9 DEF i

(* A record is added to the last game.                                       *)
LEMMA AddedOnce ==
  ASSUME NEW s, Open(s), NEW r, Fits(s, r), s.cur = Len(s.games), Once(s.games), Marked(s),
         r.mt = "DOUBLE" => (s.ms.fCrawford => s.ms.nMatchTo = 0),
         s.games[s.cur][1].fCrawfordGame => s.games[s.cur][1].nMatch > 0
  PROVE  LET t == AddMoveRecord(s, r)
         IN  Once(t.games) /\ Marked(t) /\ SameGame(t.games[s.cur][1], s.games[s.cur][1])
<1> DEFINE t == AddMoveRecord(s, r)  l == s.games  c == s.cur  u == t.games  G == l[c]  H == u[c]
           f == FixMatchState(s.ms, r)
<1>1. /\ t.cur = c /\ Len(u) = c /\ (\A g \in 1..(c - 1) : u[g] = l[g]) /\ t.ms = Applied(f, r)
      /\ Extends(H, G, r) /\ t.last = Len(H) /\ t.last \in Nat
  BY Added
<1>2. State(s.ms) /\ c \in 1..Len(l) /\ Len(l) \in Nat /\ c = Len(l) /\ IsMove(r) /\ r.fPlayer \in Player
  <2>1. Listed(l) BY DEF Open
  <2>2. Len(l) \in Nat BY <2>1, ListedIs
  <2> QED BY <2>2 DEF Open, Near, Fits, IsMove
<1>3. InGame(s.ms, G[1]) BY DEF Marked
<1>4. InGame(t.ms, G[1])
  <2>1. State(f) BY <1>2, FixIs
  <2>2. SameMatch(f, s.ms) BY <1>2, FixMatch
  <2> HIDE DEF f, t, G
  <2>3. SameMatch(t.ms, f) BY <1>1, <1>2, <2>1, OutcomeIs
  <2>4. SameMatch(t.ms, s.ms) BY <2>2, <2>3 DEF SameMatch
  <2> QED BY <1>3, <2>4, StaysInGame
<1>5. r.mt = "DOUBLE" => ~G[1].fCrawfordGame
  <2>1. G[1].fCrawfordGame => G[1].nMatch > 0 OBVIOUS
  <2>2. r.mt = "DOUBLE" => (s.ms.fCrawford => s.ms.nMatchTo = 0) OBVIOUS
  <2> HIDE DEF G
  <2> QED BY <1>3, <2>1, <2>2 DEF InGame, Flagged
<1>6. Once(l) OBVIOUS
<1> HIDE DEF t, l, c, f, u, G, H
<1>7. SameGame(H[1], G[1]) /\ \A k \in 2..Len(H) : H[k] = r \/ \E j \in 2..Len(G) : H[k] = G[j]
  <2> DEFINE n == Len(H) - 1
  <2>1. n \in 1..Len(G) /\ SameGame(H[1], G[1]) /\ H[n + 1] = r /\ \A k \in 2..n : H[k] = G[k] BY <1>1 DEF Extends
  <2>2. ASSUME NEW k \in 2..Len(H) PROVE H[k] = r \/ \E j \in 2..Len(G) : H[k] = G[j]
    <3>1. CASE k = n + 1 BY <2>1, <3>1
    <3>2. CASE k # n + 1
      <4>1. k \in 2..n BY <1>1, <3>2
      <4>2. Len(G) \in Nat
        <5>1. Begun(G) BY DEF Open, G, l, c
        <5> QED BY <5>1 DEF Begun, Records
      <4>3. k \in 2..Len(G) BY <1>1, <2>1, <4>1, <4>2
      <4> HIDE DEF n
      <4> QED BY <2>1, <4>1, <4>3
    <3> QED BY <3>1, <3>2
  <2> QED BY <2>1, <2>2
<1>8. /\ H[1].nMatch = G[1].nMatch /\ H[1].anScore = G[1].anScore /\ H[1].fCrawfordGame = G[1].fCrawfordGame
      /\ Short(H[1]) <=> Short(G[1])
  BY <1>7 DEF SameGame, InfoFields, Short
<1>9. \A g \in 1..c : /\ u[g][1].nMatch = l[g][1].nMatch /\ u[g][1].anScore = l[g][1].anScore
                      /\ u[g][1].fCrawfordGame = l[g][1].fCrawfordGame /\ (Short(u[g][1]) <=> Short(l[g][1]))
  <2> TAKE g \in 1..c
  <2>1. CASE g = c BY <1>8, <2>1 DEF G, H
  <2>2. CASE g # c
    <3>1. g \in 1..(c - 1) BY <1>2, <2>2
    <3> QED BY <1>1, <3>1
  <2> QED BY <2>1, <2>2
<1>10. ASSUME NEW g \in 1..c PROVE OnceAt(u, g)
  <2>1. OnceAt(l, g) BY <1>2, <1>6, <1>10 DEF Once
  <2>2. 1 \in 1..c /\ (\A h \in 1..g : h \in 1..c) BY <1>2
  <2>3. g > 1 => u[g - 1] = l[g - 1]
    <3> SUFFICES ASSUME g > 1 PROVE u[g - 1] = l[g - 1] OBVIOUS
    <3>1. g - 1 \in 1..(c - 1) BY <1>2
    <3> QED BY <1>1, <3>1
  <2>4. u[g][1].fCrawfordGame => \A k \in 2..Len(u[g]) : u[g][k].mt # "DOUBLE"
    <3>1. CASE g = c
      <4> SUFFICES ASSUME H[1].fCrawfordGame, NEW k \in 2..Len(H) PROVE H[k].mt # "DOUBLE" BY <3>1 DEF H
      <4>1. \A j \in 2..Len(G) : G[j].mt # "DOUBLE" BY <1>8, <2>1, <3>1 DEF OnceAt, G
      <4> QED BY <1>5, <1>7, <1>8, <4>1
    <3>2. CASE g # c
      <4>1. g \in 1..(c - 1) BY <1>2, <3>2
      <4>2. u[g] = l[g] BY <1>1, <4>1
      <4> QED BY <2>1, <4>2 DEF OnceAt
    <3> QED BY <3>1, <3>2
  <2>5. u[g][1].nMatch = u[1][1].nMatch /\ Scores(u[g][1].anScore, u[g][1].nMatch)
    BY <1>9, <2>1, <2>2 DEF OnceAt
  <2>6. g = 1 => ~u[g][1].fCrawfordGame /\ \A p \in Player : u[g][1].anScore[p] = 0 BY <1>9, <2>1 DEF OnceAt
  <2>7. g > 1 => (u[g][1].fCrawfordGame <=> NextC(u[g - 1])) BY <1>9, <2>1, <2>3 DEF OnceAt
  <2>8. \A h \in 1..g : Short(u[h][1]) => Short(u[g][1]) BY <1>9, <2>1, <2>2 DEF OnceAt
  <2> QED BY <2>4, <2>5, <2>6, <2>7, <2>8 DEF OnceAt
<1>11. Once(u) BY <1>1, <1>10 DEF Once
<1>12. Marked(t)
  <2>1. InGame(t.ms, H[1]) BY <1>4, <1>7, InGameSame
  <2> QED BY <1>1, <2>1 DEF Marked, H, u
<1> QED BY <1>7, <1>11, <1>12 DEF t, l, c, u, G, H

(* Who wants one point before a game wants one point after it.               *)
LEMMA StaysShort ==
  ASSUME NEW G, GoodGame(G), Told(G), Ended(Final(G)), Scores(G[1].anScore, G[1].nMatch), Short(G[1]),
         NEW info, info.nMatch = G[1].nMatch, info.anScore = Final(G).anScore, Scores(info.anScore, info.nMatch)
  PROVE  Short(info)
<1> DEFINE i == G[1]  w == i.fWinner  k == i.nPoints  x == i.anScore  y == info.anScore  n == i.nMatch
<1>1. w \in Player /\ k \in Nat /\ y = [x EXCEPT ![w] = @ + k] BY ToldEnded
<1>2. n \in Nat /\ x \in [Player -> Nat] /\ y \in [Player -> Nat] /\ (n > 0 => y[0] < n /\ y[1] < n)
      /\ OneShort(n, x) /\ info.nMatch = n
  BY TwoPlayers DEF Scores, Short
<1> HIDE DEF w, k, x, y, n, i
<1>3. x[0] \in Nat /\ x[1] \in Nat /\ y[0] \in Nat /\ y[1] \in Nat BY <1>2, TwoPlayers
<1>4. y[0] >= x[0] /\ y[1] >= x[1]
  <2>1. \A p \in Player : y[p] = IF p = w THEN x[p] + k ELSE x[p] BY <1>1, <1>2
  <2>2. (y[0] = x[0] + k \/ y[0] = x[0]) /\ (y[1] = x[1] + k \/ y[1] = x[1]) BY <2>1, TwoPlayers
  <2> QED BY <1>1, <1>3, <2>2
<1>5. n > 0 BY <1>2, <1>3 DEF OneShort
<1>6. OneShort(n, y) BY <1>2, <1>3, <1>4, <1>5 DEF OneShort
<1> QED BY <1>2, <1>6 DEF Short, y

(* A game is begun after the last one.                                       *)
LEMMA OnceMore ==
  ASSUME NEW l, Games(l), Past(l), Once(l), NEW m, MayBegin(l, m), NEW info, info.anScore = m.anScore,
         Scores(info.anScore, info.nMatch),
         l # <<>> => info.nMatch = l[1][1].nMatch /\ (info.fCrawfordGame <=> NextC(l[Len(l)])),
         l = <<>> => ~info.fCrawfordGame /\ \A p \in Player : info.anScore[p] = 0
  PROVE  Once(Append(l, <<info>>))
<1> DEFINE G == <<info>>  L == Append(l, G)  n == Len(l)
<1>1. Listed(l) /\ n \in Nat BY ListedIs DEF Games
<1>2. Len(L) = n + 1 /\ L[n + 1] = G /\ \A g \in 1..n : L[g] = l[g] BY <1>1, ListedAppend
<1>3. G[1] = info /\ Len(G) = 1 BY ListedOne
<1>4. n = 0 \/ (l # <<>> /\ n \in 1..n /\ 1 \in 1..n) BY <1>1, LastGame, ListedOne
<1>5. n = 0 => l = <<>>
  <2> SUFFICES ASSUME l # <<>> PROVE n # 0 OBVIOUS
  <2> QED BY LastGame
<1> HIDE DEF G, L, n
<1>6. OnceAt(L, n + 1)
  <2>1. CASE n = 0
    <3>1. L[1] = G /\ n + 1 = 1 /\ \A h \in 1..1 : h = 1 BY <1>2, <2>1
    <3>2. ~info.fCrawfordGame /\ \A p \in Player : info.anScore[p] = 0 BY <1>5, <2>1
    <3> QED BY <1>3, <3>1, <3>2 DEF OnceAt
  <2>2. CASE n # 0
    <3>1. l # <<>> /\ n \in 1..n /\ 1 \in 1..n BY <1>4, <2>2
    <3>2. L[1] = l[1] /\ L[n] = l[n] /\ L[n + 1] = G BY <1>2, <3>1
    <3>3. info.nMatch = l[1][1].nMatch /\ (info.fCrawfordGame <=> NextC(l[n])) BY <3>1 DEF n
    <3>4. OnceAt(l, n) /\ GoodGame(l[n]) /\ Told(l[n]) BY <3>1 DEF Once, Games, Past, AllTold, n
    <3>5. Ended(Final(l[n])) /\ info.anScore = Final(l[n]).anScore BY <3>1 DEF MayBegin, n
    <3>6. Short(l[n][1]) => Short(info)
      <4> DEFINE K == l[n]
      <4>1. K[1].nMatch = info.nMatch /\ Scores(K[1].anScore, K[1].nMatch) BY <3>3, <3>4 DEF OnceAt
      <4> HIDE DEF K
      <4>2. Short(K[1]) => Short(info) BY <3>4, <3>5, <4>1, StaysShort DEF K
      <4> QED BY <4>2 DEF K
    <3>7. \A h \in 1..(n + 1) : Short(L[h][1]) => Short(L[n + 1][1])
      <4> TAKE h \in 1..(n + 1)
      <4>1. h = n + 1 \/ h \in 1..n BY <1>1
      <4>2. \A j \in 1..n : Short(l[j][1]) => Short(l[n][1]) BY <3>4 DEF OnceAt
      <4> QED BY <1>2, <1>3, <3>2, <3>6, <4>1, <4>2
    <3>8. (n + 1) - 1 = n /\ n + 1 # 1 BY <1>1, <2>2
    <3>9. \A k \in 2..Len(L[n + 1]) : FALSE
      <4>1. Len(L[n + 1]) = 1 BY <1>3, <3>2
      <4>2. \A k \in 2..1 : FALSE OBVIOUS
      <4> QED BY <4>1, <4>2
    <3> QED BY <1>3, <3>2, <3>3, <3>7, <3>8, <3>9 DEF OnceAt
  <2> QED BY <2>1, <2>2
<1>7. ASSUME NEW g \in 1..n PROVE OnceAt(L, g)
  <2>1. OnceAt(l, g) BY <1>7 DEF Once, n
  <2>2. 1 \in 1..n /\ (g > 1 => g - 1 \in 1..n) /\ \A h \in 1..g : h \in 1..n BY <1>1
  <2>3. L[g] = l[g] /\ L[1] = l[1] /\ (g > 1 => L[g - 1] = l[g - 1]) /\ \A h \in 1..g : L[h] = l[h] BY <1>2, <2>2
  <2> QED BY <2>1, <2>3 DEF OnceAt
<1>8. \A g \in 1..(n + 1) : g = n + 1 \/ g \in 1..n BY <1>1
<1> QED BY <1>2, <1>6, <1>7, <1>8 DEF Once, L, G

LEMMA DicePlaying ==
  ASSUME NEW m, State(m), NEW r, r.mt = "SETDICE", r.fPlayer \in Player
  PROVE  Applied(m, r).gs = "PLAYING" /\ FixMatchState(m, r) = m
<1> DEFINE c == Cleared(m)  d == ApplySetDice(c, r)
<1>1. State(c) /\ c.gs = "PLAYING" BY ClearedIs
<1> HIDE DEF c
<1>2. \A f \in Fields \ {"anBoard", "fMove", "fTurn", "fDoubled", "dice"} : d[f] = c[f] BY <1>1, SetDiceIs
<1>3. Applied(m, r) = d BY SetDiceApplied DEF c
<1> HIDE DEF d
<1>4. Applied(m, r).gs = "PLAYING" BY <1>1, <1>2, <1>3 DEF Fields
<1> QED BY <1>4 DEF FixMatchState

(* The state that a new game begins in has its length and Crawford flags.    *)
LEMMA BegunMarked ==
  ASSUME NEW m, State(m), NEW info, IsInfo(info), NEW n, NEW x, NEW d \in Nat
  PROVE  InGame([ApplyMoveRecord(m, info, info).ms EXCEPT !.nCube = IF x THEN n ELSE @], Noted(info, d))
<1> DEFINE b == ApplyMoveRecord(m, info, info).ms  e == [b EXCEPT !.nCube = IF x THEN n ELSE @]  i == Noted(info, d)
<1>1. InGame(b, info) /\ State(b) BY InfoFlags, InfoApplied DEF Started
<1>2. \A f \in InfoFields \ {"nAutoDoubles"} : i[f] = info[f] BY NotedIs
<1> HIDE DEF b, i
<1>3. e.nMatchTo = b.nMatchTo /\ e.fCrawford = b.fCrawford /\ e.fPostCrawford = b.fPostCrawford
  BY <1>1 DEF State, Fields
<1> HIDE DEF e
<1>4. InGame(e, info) BY <1>1, <1>3, StaysInGame DEF SameMatch
<1>6. i.nMatch = info.nMatch /\ i.fCrawfordGame = info.fCrawfordGame /\ i.anScore = info.anScore
  BY <1>2 DEF InfoFields
<1>7. InGame(e, i) BY <1>4, <1>6 DEF InGame, Flagged, Short
<1> QED BY <1>7 DEF e, b, i

LEMMA NewGameOnce ==
  ASSUME Shown, NEW s, Games(s.games), State(s.ms), Past(s.games), MayBegin(s.games, s.ms), Once(s.games),
         Scores(s.ms.anScore, s.ms.nMatchTo), NEW state, NEW p \in Player \cup {None}, NEW rolls \in Nat,
         s.games # <<>> => /\ s.ms.nMatchTo = s.games[1][1].nMatch
                           /\ Crawford(s.ms, state).fCrawford <=> NextC(s.games[Len(s.games)]),
         s.games = <<>> => ~Crawford(s.ms, state).fCrawford /\ s.ms.anScore = [q \in Player |-> 0]
  PROVE  LET t == NewGame(s, state, p, rolls)
         IN  /\ Once(t.games)
             /\ p # None => /\ Marked(t) /\ OnLast(t) /\ Len(t.games) = Len(s.games) + 1 /\ t.ms.gs = "PLAYING"
                            /\ t.games[t.cur][1].fCrawfordGame <=> Crawford(s.ms, state).fCrawford
             /\ p = None /\ s.games = <<>> => /\ t.cur = 0 /\ t.games = <<>> /\ ~t.ms.fCrawford
                                              /\ t.ms.nMatchTo = s.ms.nMatchTo /\ t.ms.anScore = s.ms.anScore
             /\ p = None /\ s.games # <<>> => t.cur = 1 /\ t.games = s.games /\ Marked(t)
<1> DEFINE l == s.games
           m == Crawford(s.ms, state)
           info == Info(m.cGames, m.nMatchTo, m.anScore, m.fCrawford, m.fJacoby /\ m.nMatchTo = 0)
           begun == ApplyMoveRecord(m, info, info)
           doubles == AutoDoubles(m, rolls)
           noted == Noted(info, doubles)
           b == [begun.ms EXCEPT !.nCube = IF fDisplay THEN TwoTo[doubles] ELSE @]
           rolled == [ms |-> b, games |-> Append(l, <<noted>>), cur |-> Len(l) + 1, last |-> 1]
           t == NewGame(s, state, p, rolls)
<1>1. /\ p # None => t = AddMoveRecord(rolled, Rec("SETDICE", p))
      /\ p = None /\ l = <<>> => t = [ms |-> begun.ms, games |-> <<>>, cur |-> 0, last |-> 0]
      /\ p = None /\ l # <<>> =>
           t = [ms |-> CalculateBoard(begun.ms, l[1], 1).ms, games |-> l, cur |-> 1, last |-> 1]
  BY DEF NewGame
<1>2. State(m) /\ m.cGames = s.ms.cGames /\ m.anScore = s.ms.anScore /\ m.nMatchTo = s.ms.nMatchTo
  <2>1. State(m) /\ \A f \in Fields \ {"fCrawford", "fPostCrawford"} : m[f] = s.ms[f] BY CrawfordIs, CrawfordSame
  <2> HIDE DEF m
  <2> QED BY <2>1 DEF Fields
<1>20. /\ l # <<>> => s.ms.nMatchTo = l[1][1].nMatch /\ (m.fCrawford <=> NextC(l[Len(l)]))
       /\ l = <<>> => ~m.fCrawford /\ s.ms.anScore = [q \in Player |-> 0]
  OBVIOUS
<1> HIDE DEF t, m
<1>3. IsInfo(info) /\ info.nAutoDoubles = 0
  BY InfoIs
<1>4. doubles \in Nat BY AutoDoublesIs
<1>5. /\ IsInfo(noted) /\ Cleaned(noted) = noted /\ noted.i = m.cGames /\ noted.anScore = m.anScore
      /\ noted.nMatch = m.nMatchTo /\ noted.fCrawfordGame = m.fCrawford
  <2> HIDE DEF doubles
  <2> QED BY <1>4, NotedClean
<1>6. Open(rolled) /\ rolled.last = 1 /\ Unresigned(rolled.ms)
  <2> HIDE DEF info
  <2> QED BY <1>2, <1>3, NewGameRolled
<1>7. rolled.games = Append(l, <<noted>>) /\ rolled.cur = Len(l) + 1 /\ rolled.ms = b OBVIOUS
<1>8. begun.ms.anScore = m.anScore /\ begun.ms.nMatchTo = m.nMatchTo /\ begun.ms.fCrawford = m.fCrawford
      /\ State(begun.ms)
  <2>1. info.anScore = m.anScore /\ info.nMatch = m.nMatchTo /\ info.fCrawfordGame = m.fCrawford BY DEF Info
  <2> HIDE DEF info
  <2>2. State(begun.ms) BY <1>2, <1>3, InfoApplied DEF Started
  <2>3. InGame(begun.ms, info) /\ AsBefore(begun.ms, info) BY <1>2, <1>3, InfoFlags
  <2> HIDE DEF begun
  <2> QED BY <2>1, <2>2, <2>3 DEF InGame, AsBefore, Flagged
<1>9. InGame(b, noted)
  <2> HIDE DEF info, doubles
  <2> DEFINE n == TwoTo[doubles]
  <2> HIDE DEF n
  <2>1. InGame([begun.ms EXCEPT !.nCube = IF fDisplay THEN n ELSE @], noted) BY <1>2, <1>3, <1>4, BegunMarked
  <2> QED BY <2>1 DEF n
<1> HIDE DEF rolled, begun, b, noted, l
<1>10. Games(l) /\ Past(l) /\ Once(l) /\ MayBegin(l, s.ms) /\ Len(l) \in Nat /\ Scores(s.ms.anScore, s.ms.nMatchTo)
  BY ListedIs DEF l, Games
<1>11. CASE p # None
  <2> DEFINE r == Rec("SETDICE", p)
  <2>1. p \in Player /\ r.mt = "SETDICE" /\ r.fPlayer = p BY <1>11 DEF Rec
  <2> HIDE DEF r
  <2>2. IsMove(r) /\ Opener(r) BY <2>1 DEF IsMove, Kinds, Opener
  <2>3. Fits(rolled, r) BY <1>6, <2>2 DEF Fits
  <2>4. Once(rolled.games)
    <3>1. Once(Append(l, <<noted>>))
      <4>1. noted.anScore = s.ms.anScore /\ Scores(noted.anScore, noted.nMatch) BY <1>2, <1>5, <1>10
      <4>2. l # <<>> => noted.nMatch = l[1][1].nMatch /\ (noted.fCrawfordGame <=> NextC(l[Len(l)]))
        BY <1>2, <1>5, <1>20
      <4>3. l = <<>> => ~noted.fCrawfordGame /\ \A q \in Player : noted.anScore[q] = 0
        BY <1>2, <1>5, <1>20
      <4> QED BY <1>10, <4>1, <4>2, <4>3, OnceMore
    <3> QED BY <1>7, <3>1
  <2>5. Len(rolled.games) = Len(l) + 1 /\ rolled.games[Len(l) + 1] = <<noted>>
    <3>1. Listed(l) BY <1>10 DEF Games
    <3> QED BY <1>7, <3>1, ListedAppend
  <2>6. rolled.cur = Len(rolled.games) /\ rolled.games[rolled.cur][1] = noted BY <1>7, <2>5
  <2>7. Marked(rolled) BY <1>7, <1>9, <2>6 DEF Marked
  <2>8. noted.fCrawfordGame => noted.nMatch > 0
    <3>1. l # <<>> => (NextC(l[Len(l)]) => l[Len(l)][1].nMatch > 0) BY DEF NextC
    <3>2. l # <<>> => l[Len(l)][1].nMatch = l[1][1].nMatch BY <1>10, LastGame DEF Once, OnceAt
    <3> QED BY <1>2, <1>5, <1>20, <3>1, <3>2
  <2> DEFINE a == AddMoveRecord(rolled, r)
  <2>9. Once(a.games) /\ Marked(a) /\ SameGame(a.games[rolled.cur][1], rolled.games[rolled.cur][1])
    <3>1. rolled.games[rolled.cur][1].fCrawfordGame => rolled.games[rolled.cur][1].nMatch > 0 BY <2>6, <2>8
    <3>2. r.mt # "DOUBLE" BY <2>1
    <3> HIDE DEF a
    <3> QED BY <1>6, <2>3, <2>4, <2>6, <2>7, <3>1, <3>2, AddedOnce DEF a
  <2>10. /\ a.cur = rolled.cur /\ Len(a.games) = rolled.cur /\ a.last = Len(a.games[rolled.cur])
         /\ a.ms = Applied(FixMatchState(rolled.ms, r), r)
    BY <1>6, <2>3, Added
  <2>11. a = t BY <1>1, <1>11 DEF r
  <2> HIDE DEF a
  <2>12. OnLast(t) /\ Len(t.games) = Len(l) + 1 BY <1>7, <1>10, <2>10, <2>11 DEF OnLast
  <2>13. t.ms.gs = "PLAYING"
    <3>1. State(rolled.ms) BY <1>6 DEF Open, Near
    <3> QED BY <2>1, <2>10, <2>11, <3>1, DicePlaying
  <2>14. t.games[t.cur][1].fCrawfordGame = m.fCrawford
    BY <1>5, <2>6, <2>9, <2>10, <2>11 DEF SameGame, InfoFields
  <2> QED BY <1>11, <2>9, <2>11, <2>12, <2>13, <2>14 DEF t, l, m
<1>12. CASE p = None /\ l = <<>>
  <2> DEFINE z == begun.ms
  <2>1. t = [ms |-> z, games |-> <<>>, cur |-> 0, last |-> 0] BY <1>1, <1>12
  <2> HIDE DEF z
  <2>2. t.ms = z /\ t.games = <<>> /\ t.cur = 0 BY <2>1
  <2>3. ~z.fCrawford /\ z.nMatchTo = s.ms.nMatchTo /\ z.anScore = s.ms.anScore BY <1>2, <1>8, <1>12, <1>20 DEF z
  <2>4. Once(t.games) BY <1>10, <1>12, <2>2
  <2> QED BY <1>12, <2>2, <2>3, <2>4 DEF t, l
<1>13. CASE p = None /\ l # <<>>
  <2> DEFINE B == begun.ms  G == l[1]  z == CalculateBoard(B, G, 1).ms
  <2>1. t = [ms |-> z, games |-> l, cur |-> 1, last |-> 1] BY <1>1, <1>13
  <2>2. GoodGame(G) BY <1>10, <1>13, LastGame DEF Games
  <2>3. State(B) BY <1>8
  <2> HIDE DEF B, G
  <2>4. 1 \in 1..Len(G) /\ 1 \in Nat \ {0} BY <2>2 DEF GoodGame, Begun, Records
  <2>5. InGame(z, G[1])
    <3>1. InGame(CalculateBoard(B, G, 1).ms, CalculateBoard(B, G, 1).info)
          /\ SameGame(CalculateBoard(B, G, 1).info, G[1])
      BY <2>2, <2>3, <2>4, CalculatedNear
    <3> DEFINE y == CalculateBoard(B, G, 1).info
    <3>2. InGame(z, y) /\ SameGame(y, G[1]) BY <3>1
    <3> HIDE DEF z, y
    <3> QED BY <3>2, InGameSame
  <2> HIDE DEF z
  <2>6. t.ms = z /\ t.games = l /\ t.cur = 1 BY <2>1
  <2>7. Marked(t) BY <2>5, <2>6 DEF Marked, G
  <2> QED BY <1>10, <1>13, <2>6, <2>7 DEF t, l
<1> QED BY <1>11, <1>12, <1>13 DEF l

(* The score and the length of the match at the last record.                 *)
LEMMA EndScores ==
  ASSUME Valid, GoodPast, Once(lMatch), AtEnd, plGame # 0
  PROVE  LET i == lMatch[plGame][1]
         IN  /\ plGame = Len(lMatch) /\ plGame \in 1..Len(lMatch) /\ lMatch # <<>>
             /\ ms.nMatchTo = i.nMatch /\ Scores(i.anScore, i.nMatch) /\ i.nMatch = lMatch[1][1].nMatch
             /\ i.fCrawfordGame => Short(i) /\ i.nMatch > 0
             /\ ms.gs # "PLAYING" <=> Ended(Final(lMatch[plGame]))
             /\ ms.gs = "PLAYING" => ms.anScore = i.anScore
             /\ ms.gs # "PLAYING" => /\ i.fWinner \in Player /\ ms.anScore = Final(lMatch[plGame]).anScore
                                     /\ \E k \in Nat : ms.anScore = [i.anScore EXCEPT ![i.fWinner] = @ + k]
             /\ ms.anScore \in [Player -> Nat]
<1> DEFINE s == Match  G == lMatch[plGame]  i == G[1]
<1>1. GoodMatch(s) /\ OnLast(s) /\ s.ms = ms /\ s.games = lMatch /\ s.cur = plGame BY AtEndIs
<1> HIDE DEF s
<1>2. /\ plGame \in 1..Len(lMatch) /\ GoodGame(G) /\ ms.anScore = Final(G).anScore
      /\ ms.nMatchTo = Final(G).nMatchTo /\ (ms.gs # "PLAYING" <=> Ended(Final(G))) /\ plGame = Len(lMatch)
  BY <1>1, LastIs DEF OnLast
<1>3. Len(lMatch) \in Nat BY MatchIs
<1>4. Told(G) /\ OnceAt(lMatch, plGame) /\ Chained(lMatch) BY <1>2 DEF GoodPast, Past, AllTold, Once
<1>5. lMatch # <<>>
  <2> SUFFICES ASSUME lMatch = <<>> PROVE FALSE OBVIOUS
  <2>1. Len(lMatch) = 0 BY ListedOne
  <2> QED BY <1>2, <2>1
<1>6. i.fCrawfordGame => Short(i) /\ i.nMatch > 0 BY <1>2, <1>3, <1>4, OnceShort
<1>7. Scores(i.anScore, i.nMatch) /\ i.nMatch = lMatch[1][1].nMatch BY <1>4 DEF OnceAt
<1> HIDE DEF i, G
<1>8. ms.nMatchTo = i.nMatch
  <2>1. Len(G) \in 1..Len(G) BY <1>2 DEF GoodGame, Begun, Records
  <2>2. GoneOn(Blank, G, Len(G)) BY <1>2, <2>1, BlankIs, GoingOn DEF GoodGame
  <2> QED BY <1>2, <2>2 DEF GoneOn, InGame, Final, Replayed, i
<1>9. ms.gs = "PLAYING" => ms.anScore = i.anScore
  <2> SUFFICES ASSUME ms.gs = "PLAYING" PROVE ms.anScore = i.anScore OBVIOUS
  <2>1. AsBefore(Final(G), G[1]) BY <1>2, <1>4, ToldUnended
  <2> QED BY <1>2, <2>1 DEF AsBefore, i
<1>10. ms.gs # "PLAYING" => i.fWinner \in Player /\ \E k \in Nat : ms.anScore = [i.anScore EXCEPT ![i.fWinner] = @ + k]
  <2> SUFFICES ASSUME ms.gs # "PLAYING"
               PROVE  i.fWinner \in Player /\ \E k \in Nat : ms.anScore = [i.anScore EXCEPT ![i.fWinner] = @ + k]
    OBVIOUS
  <2>1. /\ i.fWinner \in Player /\ i.nPoints \in Nat
        /\ Final(G).anScore = [i.anScore EXCEPT ![i.fWinner] = @ + i.nPoints]
    BY <1>2, <1>4, ToldEnded DEF i
  <2> QED BY <1>2, <2>1
<1>11. ms.anScore \in [Player -> Nat]
  <2>1. i.anScore \in [Player -> Nat] BY <1>7 DEF Scores
  <2>2. CASE ms.gs = "PLAYING" BY <1>9, <2>1, <2>2
  <2>3. CASE ms.gs # "PLAYING"
    <3>1. PICK k \in Nat : ms.anScore = [i.anScore EXCEPT ![i.fWinner] = @ + k] BY <1>10, <2>3
    <3> DEFINE x == i.anScore  w == i.fWinner  y == ms.anScore
    <3>2. x \in [Player -> Nat] /\ w \in Player /\ y = [x EXCEPT ![w] = @ + k] BY <1>10, <2>1, <2>3, <3>1
    <3> HIDE DEF x, w, y
    <3>3. x[w] + k \in Nat BY <3>2
    <3>4. y \in [Player -> Nat] BY <3>2, <3>3
    <3> QED BY <3>4 DEF y
  <2> QED BY <2>2, <2>3
<1> QED BY <1>2, <1>5, <1>6, <1>7, <1>8, <1>9, <1>10, <1>11 DEF i, G

(* When a game has ended, whether the next one is the Crawford game.         *)
LEMMA FlagsIs ==
  ASSUME NEW m
  PROVE  Flags(m) \in Nat /\ (Flags(m) % 2 = 1 <=> m.fCrawford)
<1>1. Flags(m) = (IF m.fCrawford THEN 1 ELSE 0) + 2 * (IF m.fPostCrawford THEN 1 ELSE 0) BY DEF Flags, Flag
<1>2. CASE m.fCrawford
  <2>1. Flags(m) = 1 \/ Flags(m) = 3 BY <1>1, <1>2
  <2>2. 1 % 2 = 1 /\ 3 % 2 = 1 OBVIOUS
  <2> QED BY <1>2, <2>1, <2>2
<1>3. CASE ~m.fCrawford
  <2>1. Flags(m) = 0 \/ Flags(m) = 2 BY <1>1, <1>3
  <2>2. 0 % 2 = 0 /\ 2 % 2 = 0 OBVIOUS
  <2> QED BY <1>3, <2>1, <2>2
<1> QED BY <1>2, <1>3

LEMMA OtherPlayer ==
  ASSUME NEW w \in Player
  PROVE  Not(w) \in Player /\ Not(w) # w /\ \A p \in Player : p = w \/ p = Not(w)
BY DEF Player, Not

LEMMA EndOfGameCrawford ==
  ASSUME fAutoCrawford, Valid, GoodPast, Once(lMatch), AtEnd, plGame # 0, ms.gs # "PLAYING", Marked(Match)
  PROVE  /\ EndOfGame.fCrawford <=> NextC(lMatch[plGame])
         /\ Flags(EndOfGame) \in Nat /\ (Flags(EndOfGame) % 2 = 1 <=> NextC(lMatch[plGame]))
<1> DEFINE G == lMatch[plGame]  i == G[1]  w == i.fWinner  o == Not(w)  n == i.nMatch  x == i.anScore  y == ms.anScore
           s == IF fX /\ fDisplay THEN [ms EXCEPT !.fResigned = 0] ELSE ms
           post == ms.fPostCrawford \/ (ms.fCrawford /\ y[w] < ms.nMatchTo)
           crawford == ~post /\ ~ms.fCrawford /\ y[w] = ms.nMatchTo - 1 /\ y[o] # ms.nMatchTo - 1
<1>1. EndOfGame = IF ms.nMatchTo > 0 /\ fAutoCrawford THEN [s EXCEPT !.fPostCrawford = post, !.fCrawford = crawford]
                  ELSE s
  BY DEF EndOfGame, Winner
<1>2. State(ms) BY MatchIs
<1>3. State(s) /\ s.fCrawford = ms.fCrawford
  <2>1. State(s) /\ \A f \in Fields \ {"fResigned"} : s[f] = ms[f] BY <1>2 DEF State, Fields
  <2> HIDE DEF s
  <2> QED BY <2>1 DEF Fields
<1>4. /\ ms.nMatchTo = n /\ Scores(x, n) /\ (i.fCrawfordGame => Short(i) /\ n > 0)
      /\ w \in Player /\ y = Final(G).anScore /\ \E k \in Nat : y = [x EXCEPT ![w] = @ + k]
  BY EndScores
<1>5. InGame(ms, i) BY DEF Marked, Match
<1> HIDE DEF s, post, crawford
<1>6. EndOfGame.fCrawford = IF n > 0 THEN crawford ELSE ms.fCrawford
  <2>1. [s EXCEPT !.fPostCrawford = post, !.fCrawford = crawford].fCrawford = crawford BY <1>3 DEF State, Fields
  <2> QED BY <1>1, <1>3, <1>4, <2>1
<1>7. PICK k \in Nat : y = [x EXCEPT ![w] = @ + k] BY <1>4
<1> HIDE DEF y, x, n, w, i, G
<1>8. o \in Player /\ o # w /\ \A p \in Player : p = w \/ p = o BY <1>4, OtherPlayer
<1> HIDE DEF o
<1>9. y[o] = x[o] /\ x \in [Player -> Nat] BY <1>4, <1>7, <1>8 DEF Scores
<1>10. /\ OneShort(n, x) <=> x[w] = n - 1 \/ x[o] = n - 1
       /\ OneShort(n, y) <=> y[w] = n - 1 \/ y[o] = n - 1
  <2>1. (w = 0 /\ o = 1) \/ (w = 1 /\ o = 0) BY <1>4, <1>8 DEF Player
  <2> QED BY <2>1 DEF OneShort
<1>11. NextC(G) <=> n > 0 /\ OneShort(n, y) /\ ~OneShort(n, x) BY <1>4 DEF NextC, Short, i, n, x
<1>12. Short(i) <=> OneShort(n, x) BY DEF Short, n, x
<1>13. CASE n > 0
  <2>1. crawford <=> ~ms.fPostCrawford /\ ~ms.fCrawford /\ y[w] = n - 1 /\ y[o] # n - 1
    BY <1>4 DEF crawford, post
  <2>2. ms.fCrawford = i.fCrawfordGame /\ ms.fPostCrawford = (~i.fCrawfordGame /\ Short(i)) BY <1>5 DEF InGame, Flagged
  <2>3. ~ms.fPostCrawford /\ ~ms.fCrawford <=> ~Short(i) BY <1>4, <2>2
  <2>4. crawford <=> NextC(G) BY <1>9, <1>10, <1>11, <1>12, <1>13, <2>1, <2>3
  <2> QED BY <1>6, <1>13, <2>4, FlagsIs DEF G
<1>14. CASE ~(n > 0)
  <2>1. ~ms.fCrawford BY <1>4, <1>5, <1>14 DEF InGame, Flagged
  <2>2. ~NextC(G) BY <1>11, <1>14
  <2>3. EndOfGame.fCrawford <=> NextC(G) BY <1>6, <1>14, <2>1, <2>2
  <2> QED BY <2>3, FlagsIs DEF G
<1> QED BY <1>13, <1>14

(* The Crawford flag of a game that is begun.                                *)
LEMMA CrawfordFlag ==
  ASSUME fAutoCrawford, NEW m, State(m), NEW state
  PROVE  /\ state \in Nat => (Crawford(m, state).fCrawford <=> state % 2 = 1)
         /\ state = -1 /\ ~m.fCrawford /\ m.anScore = [q \in Player |-> 0] /\ m.nMatchTo \in Nat =>
              ~Crawford(m, state).fCrawford
<1>1. ASSUME state \in Nat PROVE Crawford(m, state).fCrawford <=> state % 2 = 1
  <2>1. Crawford(m, state) = [m EXCEPT !.fCrawford = state % 2 = 1, !.fPostCrawford = state \div 2 = 1]
    BY <1>1 DEF Crawford
  <2> DEFINE c == (state % 2 = 1)  d == (state \div 2 = 1)
  <2>2. Crawford(m, state) = [m EXCEPT !.fCrawford = c, !.fPostCrawford = d] BY <2>1
  <2> HIDE DEF c, d
  <2>3. Crawford(m, state).fCrawford = c BY <2>2 DEF State, Fields
  <2> QED BY <2>3 DEF c
<1>2. ASSUME state = -1, ~m.fCrawford, m.anScore = [q \in Player |-> 0], m.nMatchTo \in Nat
      PROVE  ~Crawford(m, state).fCrawford
  <2>1. CASE m.nMatchTo > 0
    <3> DEFINE top == Maximum(m.anScore[0], m.anScore[1])  low == Minimum(m.anScore[0], m.anScore[1])
               post == m.fPostCrawford \/ (m.fCrawford /\ top < m.nMatchTo)
               c == ~post /\ ~m.fCrawford /\ top = m.nMatchTo - 1 /\ low < m.nMatchTo - 1
    <3>6. ~(state >= 0) /\ m.nMatchTo > 0 /\ fAutoCrawford BY <1>2, <2>1
    <3>1. Crawford(m, state) = [m EXCEPT !.fPostCrawford = post, !.fCrawford = c] BY <3>6, Zenon DEF Crawford
    <3>2. m.anScore[0] = 0 /\ m.anScore[1] = 0 BY <1>2, TwoPlayers
    <3>3. top = 0 /\ low = 0 BY <3>2 DEF Maximum, Minimum
    <3> HIDE DEF top, low
    <3>4. ~c BY <1>2, <3>3
    <3> HIDE DEF post, c
    <3>5. Crawford(m, state).fCrawford = c BY <3>1 DEF State, Fields
    <3> QED BY <3>4, <3>5
  <2>2. CASE ~(m.nMatchTo > 0)
    <3>1. Crawford(m, state) = m BY <1>2, <2>2 DEF Crawford
    <3> QED BY <1>2, <3>1
  <2> QED BY <2>1, <2>2
<1> QED BY <1>1, <1>2

-----------------------------------------------------------------------------
(* What fCrawfordState tells of the game to come.  A game that has ended is  *)
(* Done when NextTurn has seen it: fCrawfordState then tells whether the     *)
(* next is the Crawford game.  Otherwise it tells it of the last game, which *)
(* may yet be discarded.                                                     *)
Done == lMatch # <<>> /\ Ended(Final(lMatch[Len(lMatch)])) /\ ~fNextTurn
Tells(c, b) == c \in Nat /\ (c % 2 = 1 <=> b)
Due == IF Done THEN Tells(fCrawfordState, NextC(lMatch[Len(lMatch)]))
       ELSE \/ fCrawfordState = -1 /\ Len(lMatch) = 1
            \/ Tells(fCrawfordState, lMatch[Len(lMatch)][1].fCrawfordGame)
Unbegun == /\ fCrawfordState = -1 /\ ~ms.fCrawford /\ ms.nMatchTo \in Nat
           /\ ms.anScore = [q \in Player |-> 0]
FlagInv ==
  /\ Once(lMatch)
  /\ plGame = 0 => Unbegun
  /\ plGame # 0 => Marked(Match) \/ (AtEnd /\ Done)
  /\ lMatch # <<>> => Due

LEMMA HasGame ==
  ASSUME Valid
  PROVE  plGame = 0 <=> lMatch = <<>>
<1>1. Len(lMatch) \in Nat BY MatchIs
<1>2. Match.cur = plGame /\ Match.games = lMatch BY DEF Match
<1>3. 0 \notin 1..Len(lMatch) BY <1>1
<1>4. lMatch = <<>> => plGame \notin 1..Len(lMatch)
  <2>1. Len(<<>>) = 0 /\ 1..0 = {} BY ListedOne
  <2> QED BY <2>1
<1> QED BY <1>2, <1>3, <1>4 DEF Valid, GoodMatch

(* A record is added, and NextTurn is due if it has ended the game.          *)
LEMMA AddsFlags ==
  ASSUME Valid, GoodPast, FlagInv, AtEnd, NEW s, GoodMatch(s), OnLast(s), Past(s.games), Once(s.games), Marked(s),
         Open(s), s.ms.gs = "PLAYING", Len(s.games) = Len(lMatch), Len(lMatch) \in Nat, ms.gs = "PLAYING",
         SameGame(s.games[s.cur][1], lMatch[Len(lMatch)][1]),
         NEW r, Fits(s, r), r.mt = "DOUBLE" => (s.ms.fCrawford => s.ms.nMatchTo = 0),
         Become(AddMoveRecord(s, r)), fCrawfordState' = fCrawfordState, fNextTurn' \/ ms'.gs = "PLAYING"
  PROVE  FlagInv'
<1> DEFINE t == AddMoveRecord(s, r)  n == Len(lMatch)
<1>1. plGame # 0 BY PlayingOn DEF Valid, Match
<1>2. n # 0 /\ ~Done /\ lMatch # <<>> /\ n \in 1..n
  <2>1. plGame \in 1..n /\ (ms.gs # "PLAYING" <=> Ended(Final(lMatch[plGame]))) /\ plGame = n /\ lMatch # <<>>
    BY <1>1, EndScores DEF FlagInv
  <2> QED BY <2>1 DEF Done
<1>3. s.cur = n /\ s.cur \in 1..Len(s.games) BY <1>2 DEF OnLast
<1>4. s.games[s.cur][1].fCrawfordGame => s.games[s.cur][1].nMatch > 0
  <2>1. Chained(s.games) BY DEF Past
  <2> QED BY <1>3, <2>1, OnceShort
<1>5. Once(t.games) /\ Marked(t) /\ SameGame(t.games[s.cur][1], s.games[s.cur][1]) BY <1>3, <1>4, AddedOnce DEF OnLast
<1>6. GoodMatch(t) /\ OnLast(t) /\ t.cur = s.cur /\ Len(t.games) = n BY <1>3, AddedOn, Added
<1>7. Become(t) OBVIOUS
<1> HIDE DEF t
<1>8. lMatch' = t.games /\ plGame' = n /\ ms' = t.ms /\ plLastMove' = t.last BY <1>3, <1>6, <1>7 DEF Become
<1>9. Marked(Match)' BY <1>5, <1>6, <1>7 DEF Marked, Match, Become
<1>10. ~Done'
  <2> SUFFICES ASSUME ms'.gs = "PLAYING" PROVE ~Ended(Final(t.games[n])) BY <1>6, <1>8 DEF Done
  <2> QED BY <1>3, <1>6, <1>8, LastIs
<1>11. Due'
  <2>1. (fCrawfordState = -1 /\ n = 1) \/ Tells(fCrawfordState, lMatch[n][1].fCrawfordGame) BY <1>2 DEF FlagInv, Due
  <2>2. t.games[n][1].fCrawfordGame = lMatch[n][1].fCrawfordGame BY <1>3, <1>5 DEF SameGame, InfoFields
  <2>3. (fCrawfordState' = -1 /\ Len(lMatch') = 1) \/ Tells(fCrawfordState', lMatch'[n][1].fCrawfordGame)
    BY <1>6, <1>8, <2>1, <2>2
  <2> HIDE DEF n
  <2>4. Len(lMatch') = n BY <1>6, <1>8
  <2> QED BY <1>10, <2>3, <2>4 DEF Due
<1> QED BY <1>2, <1>5, <1>8, <1>9, <1>11 DEF FlagInv

(* A match in play, at its last record.                                      *)
LEMMA PlayingFlags ==
  ASSUME Valid, GoodPast, FlagInv, AtEnd, ms.gs = "PLAYING"
  PROVE  /\ plGame # 0 /\ ~Done /\ Marked(Match) /\ GoodMatch(Match) /\ OnLast(Match) /\ Match.ms = ms
         /\ Match.games = lMatch /\ Match.cur = plGame /\ plGame = Len(lMatch) /\ Len(lMatch) \in Nat
         /\ Open(Match) /\ lMatch # <<>>
<1>1. plGame # 0 BY PlayingOn DEF Valid, Match
<1>2. GoodMatch(Match) /\ OnLast(Match) /\ Match.ms = ms /\ Match.games = lMatch /\ Match.cur = plGame BY <1>1, AtEndIs
<1>3. (ms.gs # "PLAYING" <=> Ended(Final(lMatch[plGame]))) /\ plGame = Len(lMatch) /\ lMatch # <<>>
  BY <1>1, EndScores DEF FlagInv
<1>4. ~Done BY <1>3 DEF Done
<1>5. Marked(Match) BY <1>1, <1>4 DEF FlagInv
<1>6. Len(lMatch) \in Nat BY MatchIs
<1> QED BY <1>1, <1>2, <1>3, <1>4, <1>5, <1>6, InPlay

LEMMA ReflSame ==
  ASSUME NEW x
  PROVE  SameGame(x, x)
BY DEF SameGame

LEMMA ActFlags ==
  ASSUME Valid, GoodPast, FlagInv, AtEnd, Adds, fCrawfordState' = fCrawfordState, fNextTurn' \/ ms'.gs = "PLAYING"
  PROVE  FlagInv'
<1>1. PICK r : /\ Fits(Match, r) /\ Become(AddMoveRecord(Match, r))
               /\ r.mt = "DOUBLE" => MayDouble(ms) /\ (ms.fCrawford => ms.nMatchTo = 0)
  BY DEF Adds
<1>2. ms.gs = "PLAYING" BY DEF Adds
<1> DEFINE s == Match
<1>3. /\ GoodMatch(s) /\ OnLast(s) /\ s.ms = ms /\ s.games = lMatch /\ s.cur = Len(lMatch) /\ Marked(s) /\ Open(s)
      /\ Len(lMatch) \in Nat
  BY <1>2, PlayingFlags
<1>4. Fits(s, r) /\ Become(AddMoveRecord(s, r)) BY <1>1
<1> HIDE DEF s
<1>5. Past(s.games) /\ Once(s.games) BY <1>3 DEF GoodPast, FlagInv
<1>6. SameGame(s.games[s.cur][1], lMatch[Len(lMatch)][1]) BY <1>3, ReflSame
<1>7. r.mt = "DOUBLE" => (s.ms.fCrawford => s.ms.nMatchTo = 0) BY <1>1, <1>3
<1> QED BY <1>2, <1>3, <1>4, <1>5, <1>6, <1>7, AddsFlags

LEMMA RollFlags ==
  ASSUME Valid, GoodPast, FlagInv, AtEnd, CommandRoll
  PROVE  FlagInv'
<1> DEFINE s == Match  r == Rec("SETDICE", ms.fTurn)
<1>1. Adds /\ fCrawfordState' = fCrawfordState /\ Become(AddMoveRecord(s, r)) BY RollAdds DEF CommandRoll, RollDice
<1>2. Open(s) /\ Fits(s, r) BY RollFits DEF CommandRoll
<1>3. r.mt = "SETDICE" BY DEF Rec
<1> HIDE DEF s, r
<1>4. AddMoveRecord(s, r).ms = Applied(FixMatchState(s.ms, r), r) BY <1>2, Added
<1>5. State(s.ms) /\ r.fPlayer \in Player BY <1>2 DEF Open, Near, Fits, IsMove
<1>6. AddMoveRecord(s, r).ms.gs = "PLAYING" BY <1>3, <1>4, <1>5, DicePlaying
<1>7. ms'.gs = "PLAYING" BY <1>1, <1>6 DEF Become
<1> QED BY <1>1, <1>7, ActFlags

LEMMA RollAndMoveFlags ==
  ASSUME Valid, GoodPast, FlagInv, AtEnd, NEW moved \in 0..1, CommandRollAndMove(moved)
  PROVE  FlagInv'
<1> DEFINE s == Match  t == RollDice  r == Rec("SETDICE", ms.fTurn)  n == Normal(t.ms.fTurn, moved)
<1>1. /\ ms.gs = "PLAYING" /\ Open(s) /\ Fits(s, r) /\ r.mt = "SETDICE" /\ t = AddMoveRecord(s, r)
      /\ Open(t) /\ Fits(t, n) /\ n.mt = "NORMAL" /\ t.ms.gs = "PLAYING" /\ Become(AddMoveRecord(t, n))
  BY RollAndMoveAdds DEF RollsAndMoves
<1>2. fNextTurn' /\ fCrawfordState' = fCrawfordState BY DEF CommandRollAndMove
<1>3. /\ GoodMatch(s) /\ OnLast(s) /\ s.ms = ms /\ s.games = lMatch /\ s.cur = Len(lMatch) /\ Marked(s)
      /\ Len(lMatch) \in Nat
  BY <1>1, PlayingFlags
<1> HIDE DEF s, t, r, n
<1>4. Past(s.games) /\ Once(s.games) BY <1>3 DEF GoodPast, FlagInv
<1>5. GoodMatch(t) /\ OnLast(t) /\ Past(t.games) /\ t.cur = s.cur BY <1>1, <1>3, <1>4, AddedOn
<1>6. Once(t.games) /\ Marked(t) /\ SameGame(t.games[s.cur][1], s.games[s.cur][1])
  <2>1. s.cur = Len(s.games) /\ s.cur \in 1..Len(s.games) BY <1>1, <1>3 DEF Open
  <2>2. Chained(s.games) /\ Len(s.games) \in Nat BY <1>3, <1>4 DEF Past
  <2>3. s.games[s.cur][1].fCrawfordGame => s.games[s.cur][1].nMatch > 0 BY <1>4, <2>1, <2>2, OnceShort
  <2>4. r.mt # "DOUBLE" BY <1>1
  <2> QED BY <1>1, <1>3, <1>4, <2>1, <2>3, <2>4, AddedOnce
<1>7. Len(t.games) = Len(lMatch) BY <1>3, <1>5 DEF OnLast
<1>8. SameGame(t.games[t.cur][1], lMatch[Len(lMatch)][1]) BY <1>3, <1>5, <1>6
<1>9. n.mt # "DOUBLE" BY <1>1
<1> QED BY <1>1, <1>2, <1>3, <1>5, <1>6, <1>7, <1>8, <1>9, AddsFlags

(* A new game.                                                               *)
LEMMA NewGameFlags ==
  ASSUME Shown, NEW s, Games(s.games), State(s.ms), Past(s.games), MayBegin(s.games, s.ms), Once(s.games),
         Scores(s.ms.anScore, s.ms.nMatchTo), NEW state, NEW o \in Opening,
         Become(NewGame(s, state, o[1], o[2])),
         s.games # <<>> => /\ s.ms.nMatchTo = s.games[1][1].nMatch /\ ~fNextTurn'
                           /\ Crawford(s.ms, state).fCrawford <=> NextC(s.games[Len(s.games)]),
         s.games = <<>> => ~Crawford(s.ms, state).fCrawford /\ s.ms.anScore = [q \in Player |-> 0],
         \/ fCrawfordState' = -1 /\ s.games = <<>>
         \/ Tells(fCrawfordState', Crawford(s.ms, state).fCrawford) /\ (s.games = <<>> => o[1] # None)
  PROVE  FlagInv'
<1> DEFINE p == o[1]  rolls == o[2]  t == NewGame(s, state, p, rolls)  l == s.games
           c == Crawford(s.ms, state).fCrawford
<1>1. p \in Player \cup {None} /\ rolls \in Nat BY BoundsAssumption DEF Opening
<1>2. Become(t) OBVIOUS
<1>12. l # <<>> => /\ s.ms.nMatchTo = l[1][1].nMatch /\ ~fNextTurn'
                   /\ c <=> NextC(l[Len(l)])
  OBVIOUS
<1>13. l = <<>> => ~c /\ s.ms.anScore = [q \in Player |-> 0] OBVIOUS
<1>14. \/ fCrawfordState' = -1 /\ l = <<>>
       \/ Tells(fCrawfordState', c) /\ (l = <<>> => p # None)
  OBVIOUS
<1>3. /\ l # <<>> => s.ms.nMatchTo = l[1][1].nMatch /\ ~fNextTurn' /\ (c <=> NextC(l[Len(l)]))
      /\ l = <<>> => ~c /\ s.ms.anScore = [q \in Player |-> 0]
      /\ (fCrawfordState' = -1 /\ l = <<>>) \/ (Tells(fCrawfordState', c) /\ (l = <<>> => p # None))
  <2> HIDE DEF l, c, p
  <2> QED BY <1>12, <1>13, <1>14
<1> HIDE DEF p, rolls
<1>4. /\ Once(t.games)
      /\ p # None => /\ Marked(t) /\ OnLast(t) /\ Len(t.games) = Len(l) + 1 /\ t.ms.gs = "PLAYING"
                     /\ t.games[t.cur][1].fCrawfordGame <=> c
      /\ p = None /\ l = <<>> => /\ t.cur = 0 /\ t.games = <<>> /\ ~t.ms.fCrawford
                                 /\ t.ms.nMatchTo = s.ms.nMatchTo /\ t.ms.anScore = s.ms.anScore
      /\ p = None /\ l # <<>> => t.cur = 1 /\ t.games = l /\ Marked(t)
  BY <1>1, <1>3, NewGameOnce
<1>5. GoodMatch(t) BY <1>1, NewGameGood
<1>6. Len(l) \in Nat /\ Games(l) /\ MayBegin(l, s.ms) /\ s.ms.nMatchTo \in Nat BY ListedIs DEF Games, Scores
<1> HIDE DEF t, l, c
<1>7. lMatch' = t.games /\ plGame' = t.cur /\ ms' = t.ms /\ plLastMove' = t.last BY <1>2 DEF Become
<1>8. Marked(t) => Marked(Match)' BY <1>7 DEF Marked, Match
<1>9. CASE p # None
  <2>1. /\ Marked(t) /\ OnLast(t) /\ Len(t.games) = Len(l) + 1 /\ t.ms.gs = "PLAYING"
        /\ (t.games[t.cur][1].fCrawfordGame <=> c)
    BY <1>4, <1>9
  <2>2. t.cur # 0 /\ t.cur = Len(t.games) /\ ~Ended(Final(t.games[t.cur])) BY <1>5, <2>1, LastIs DEF OnLast
  <2>3. ~Done' BY <1>7, <2>2 DEF Done
  <2>4. \/ fCrawfordState' = -1 /\ Len(lMatch') = 1
        \/ Tells(fCrawfordState', lMatch'[Len(lMatch')][1].fCrawfordGame)
    <3>1. l = <<>> => Len(lMatch') = 1
      <4>1. Len(<<>>) = 0 BY ListedOne
      <4> QED BY <1>7, <2>1, <4>1
    <3>2. lMatch'[Len(lMatch')][1].fCrawfordGame <=> c BY <1>7, <2>1, <2>2
    <3> QED BY <1>3, <3>1, <3>2 DEF Tells
  <2>5. Due' BY <2>3, <2>4 DEF Due
  <2> QED BY <1>4, <1>7, <1>8, <2>1, <2>2, <2>5 DEF FlagInv
<1>10. CASE p = None /\ l = <<>>
  <2>1. /\ t.cur = 0 /\ t.games = <<>> /\ ~t.ms.fCrawford /\ t.ms.nMatchTo = s.ms.nMatchTo
        /\ t.ms.anScore = s.ms.anScore
    BY <1>4, <1>10
  <2>2. Unbegun' BY <1>3, <1>6, <1>7, <1>10, <2>1 DEF Unbegun
  <2> QED BY <1>4, <1>7, <2>1, <2>2 DEF FlagInv
<1>11. CASE p = None /\ l # <<>>
  <2>1. t.cur = 1 /\ t.games = l /\ Marked(t) BY <1>4, <1>11
  <2>2. Done' BY <1>3, <1>6, <1>7, <1>11, <2>1 DEF Done, MayBegin
  <2>3. Tells(fCrawfordState', NextC(l[Len(l)])) BY <1>3, <1>11 DEF Tells
  <2>4. Due' BY <1>7, <2>1, <2>2, <2>3 DEF Due
  <2> QED BY <1>4, <1>7, <1>8, <2>1, <2>4 DEF FlagInv
<1> QED BY <1>9, <1>10, <1>11

LEMMA ZeroScores ==
  ASSUME NEW n \in Nat
  PROVE  Scores([q \in Player |-> 0], n)
BY DEF Scores

LEMMA NewMatchFlags ==
  ASSUME Shown, fAutoCrawford, Valid, NEW o \in Opening, NEW n \in MatchLengths, CommandNewMatch(n, o[1], o[2])
  PROVE  FlagInv'
<1> DEFINE m == [ms EXCEPT !.nMatchTo = n, !.cGames = 0, !.anScore = [q \in Player |-> 0],
                           !.fMove = None, !.fTurn = None, !.fCrawford = FALSE,
                           !.fPostCrawford = FALSE, !.gs = "NONE", !.fJacoby = fJacoby]
           s == [ms |-> m, games |-> <<>>, cur |-> 0, last |-> 0]
<1>1. Become(NewGame(s, -1, o[1], o[2])) /\ fCrawfordState' = -1 BY DEF CommandNewMatch
<1>2. State(m) /\ m.cGames = 0 /\ m.nMatchTo = n /\ ~m.fCrawford /\ m.anScore = [q \in Player |-> 0]
  <2>1. State(ms) BY MatchIs
  <2> QED BY <2>1 DEF State, Fields
<1> HIDE DEF m
<1>3. s.ms = m /\ s.games = <<>> OBVIOUS
<1> HIDE DEF s
<1>4. Games(s.games) /\ Past(s.games) /\ MayBegin(s.games, s.ms) /\ Once(s.games)
  BY <1>2, <1>3, NoPast DEF MayBegin, Once
<1>5. n \in Nat BY MatchLengthsAssumption
<1>6. Scores(s.ms.anScore, s.ms.nMatchTo) BY <1>2, <1>3, <1>5, ZeroScores
<1> DEFINE state == -1
<1>7. ~Crawford(s.ms, state).fCrawford
  <2>1. state = -1 OBVIOUS
  <2> HIDE DEF state
  <2> QED BY <1>2, <1>3, <1>5, <2>1, CrawfordFlag
<1>8. Become(NewGame(s, state, o[1], o[2])) BY <1>1
<1> HIDE DEF state
<1> QED BY <1>1, <1>2, <1>3, <1>4, <1>6, <1>7, <1>8, NewGameFlags

(* The games that have ended are Done when a command is read.                *)
LEMMA NewGameCommandFlags ==
  ASSUME Shown, fAutoCrawford, ~fX, Valid, GoodPast, FlagInv, AtEnd, NEW o \in Opening, CommandNewGame(o[1], o[2])
  PROVE  FlagInv'
<1> DEFINE games == IF ms.gs = "PLAYING" \/ ~AtLastMove THEN SubSeq(lMatch, 1, plGame - 1) ELSE lMatch
           s == [Match EXCEPT !.games = games]
<1>1. /\ Become(NewGame(s, fCrawfordState, o[1], o[2])) /\ ~fNextTurn /\ ~fNextTurn' /\ fCrawfordState' = fCrawfordState
      /\ ms.nMatchTo > 0 => \A q \in Player : ms.anScore[q] < ms.nMatchTo
      /\ o[1] = None => games # <<>> \/ plGame = 0
  BY DEF CommandNewGame, Ready
<1>2. State(ms) /\ Games(lMatch) /\ Len(lMatch) \in Nat BY MatchIs
<1>3. s.ms = ms /\ s.games = games BY DEF Match
<1> DEFINE c == Crawford(ms, fCrawfordState).fCrawford
<1>4. CASE plGame = 0
  <2>1. lMatch = <<>> /\ Unbegun BY <1>4, HasGame DEF FlagInv
  <2>2. ms.gs # "PLAYING" BY <1>4, PlayingOn DEF Valid, Match
  <2>3. games = <<>> BY <2>1, <2>2 DEF AtEnd
  <2>4. ~c BY <1>2, <2>1, CrawfordFlag DEF Unbegun
  <2>5. Games(games) /\ Past(games) /\ MayBegin(games, ms) /\ Once(games)
    <3> HIDE DEF games
    <3>1. ms.cGames = 0 BY <1>4 DEF GoodPast
    <3> QED BY <2>3, <3>1, NoPast DEF MayBegin, Once
  <2>6. Scores(ms.anScore, ms.nMatchTo) /\ ms.anScore = [q \in Player |-> 0] /\ fCrawfordState = -1
    BY <2>1, ZeroScores DEF Unbegun
  <2> HIDE DEF s, games
  <2> QED BY <1>1, <1>2, <1>3, <2>3, <2>4, <2>5, <2>6, NewGameFlags
<1>5. CASE plGame # 0 /\ ms.gs # "PLAYING"
  <2>1. games = lMatch BY <1>5 DEF AtEnd
  <2> DEFINE i == lMatch[plGame][1]
  <2>2. /\ plGame = Len(lMatch) /\ lMatch # <<>> /\ ms.nMatchTo = i.nMatch /\ Scores(i.anScore, i.nMatch)
        /\ i.nMatch = lMatch[1][1].nMatch /\ Ended(Final(lMatch[plGame])) /\ ms.anScore \in [Player -> Nat]
    BY <1>5, EndScores DEF FlagInv
  <2>3. Done BY <1>1, <2>2 DEF Done
  <2>4. Tells(fCrawfordState, NextC(lMatch[Len(lMatch)])) BY <2>2, <2>3 DEF FlagInv, Due
  <2>5. c <=> NextC(lMatch[Len(lMatch)]) BY <1>2, <2>4, CrawfordFlag DEF Tells
  <2>6. Scores(ms.anScore, ms.nMatchTo) BY <1>1, <2>2 DEF Scores
  <2>7. Past(lMatch) /\ MayBegin(lMatch, ms) /\ Once(lMatch) BY <1>5, PastEnded DEF GoodPast, FlagInv
  <2>8. Tells(fCrawfordState, c) BY <2>4, <2>5 DEF Tells
  <2> HIDE DEF s, games, c
  <2> QED BY <1>1, <1>2, <1>3, <2>1, <2>2, <2>5, <2>6, <2>7, <2>8, NewGameFlags DEF c
<1>6. CASE plGame # 0 /\ ms.gs = "PLAYING"
  <2> DEFINE n == plGame - 1  t == SubSeq(lMatch, 1, plGame - 1)
  <2>1. games = t BY <1>6
  <2>2. /\ Games(t) /\ Past(t) /\ MayBegin(t, ms) /\ Len(t) = n /\ plGame \in 1..Len(lMatch)
        /\ \A g \in 1..n : t[g] = lMatch[g]
    BY <1>6, PastDiscarded
  <2> DEFINE i == lMatch[plGame][1]
  <2>3. /\ plGame = Len(lMatch) /\ lMatch # <<>> /\ ms.nMatchTo = i.nMatch /\ Scores(i.anScore, i.nMatch)
        /\ i.nMatch = lMatch[1][1].nMatch /\ ~Ended(Final(lMatch[plGame])) /\ ms.anScore = i.anScore
    BY <1>6, EndScores DEF FlagInv
  <2>4. ~Done /\ Marked(Match) BY <1>6, PlayingFlags
  <2>5. (fCrawfordState = -1 /\ plGame = 1) \/ Tells(fCrawfordState, i.fCrawfordGame) BY <2>3, <2>4 DEF FlagInv, Due
  <2>6. OnceAt(lMatch, plGame) /\ ms.fCrawford = i.fCrawfordGame
    BY <2>2, <2>4 DEF FlagInv, Once, Marked, InGame, Flagged, Match
  <2> HIDE DEF t, games, s
  <2>7. n \in Nat /\ n + 1 = plGame /\ (n # 0 => plGame > 1 /\ n \in 1..n /\ 1 \in 1..n) /\ (n = 0 => plGame = 1)
    BY <1>2, <2>2
  <2>8. t = <<>> <=> n = 0 BY <2>2, LastGame, ListedOne
  <2>9. Once(t)
    <3> SUFFICES ASSUME NEW g \in 1..n PROVE OnceAt(t, g) BY <2>2 DEF Once
    <3>1. g \in 1..Len(lMatch) /\ 1 \in 1..n /\ (g > 1 => g - 1 \in 1..n) /\ \A h \in 1..g : h \in 1..n
      BY <1>2, <2>2, <2>7
    <3>2. OnceAt(lMatch, g) BY <3>1 DEF FlagInv, Once
    <3> HIDE DEF n
    <3>3. /\ t[g] = lMatch[g] /\ t[1] = lMatch[1] /\ (g > 1 => t[g - 1] = lMatch[g - 1])
          /\ \A h \in 1..g : t[h] = lMatch[h]
      BY <2>2, <3>1
    <3> QED BY <3>2, <3>3 DEF OnceAt
  <2>10. Scores(ms.anScore, ms.nMatchTo) BY <2>3
  <2>11. CASE n = 0
    <3>1. t = <<>> BY <2>8, <2>11
    <3>2. ~i.fCrawfordGame /\ \A q \in Player : i.anScore[q] = 0 BY <2>6, <2>7, <2>11 DEF OnceAt
    <3>3. ms.anScore = [q \in Player |-> 0] BY <2>3, <3>2 DEF Scores
    <3>4. ~c /\ (fCrawfordState = -1 \/ Tells(fCrawfordState, c))
      <4>1. ms.nMatchTo \in Nat BY <2>3 DEF Scores
      <4>2. CASE fCrawfordState = -1 BY <1>2, <2>6, <3>2, <3>3, <4>1, <4>2, CrawfordFlag
      <4>3. CASE Tells(fCrawfordState, i.fCrawfordGame) BY <1>2, <3>2, <4>3, CrawfordFlag DEF Tells
      <4> QED BY <2>5, <4>2, <4>3
    <3>5. o[1] # None BY <1>1, <1>6, <2>1, <3>1
    <3> HIDE DEF c
    <3> QED BY <1>1, <1>2, <1>3, <2>1, <2>2, <2>9, <2>10, <3>1, <3>3, <3>4, <3>5, NewGameFlags DEF c
  <2>12. CASE n # 0
    <3>1. t # <<>> /\ t[1] = lMatch[1] /\ t[Len(t)] = lMatch[n] BY <2>2, <2>7, <2>8, <2>12
    <3>2. i.fCrawfordGame <=> NextC(lMatch[n]) BY <2>6, <2>7, <2>12 DEF OnceAt
    <3>3. Tells(fCrawfordState, i.fCrawfordGame) BY <2>5, <2>7, <2>12
    <3>4. c <=> NextC(t[Len(t)]) BY <1>2, <3>1, <3>2, <3>3, CrawfordFlag DEF Tells
    <3>5. Tells(fCrawfordState, c) BY <3>1, <3>2, <3>3, <3>4 DEF Tells
    <3>6. ms.nMatchTo = t[1][1].nMatch BY <2>3, <3>1
    <3> HIDE DEF c
    <3> QED BY <1>1, <1>2, <1>3, <2>1, <2>2, <2>9, <2>10, <3>1, <3>4, <3>5, <3>6, NewGameFlags DEF c
  <2> QED BY <2>11, <2>12
<1> QED BY <1>4, <1>5, <1>6

(* NextTurn after a game.                                                    *)
LEMMA EndedMarked ==
  ASSUME Valid, FlagInv, fNextTurn, plGame # 0, GameEnded
  PROVE  Marked(Match) /\ ms.gs # "PLAYING"
BY InPlay DEF FlagInv, Done, GameEnded

LEMMA NextGameFlags ==
  ASSUME Shown, fAutoCrawford, Valid, GoodPast, FlagInv, AtEnd, NEW o \in Opening, NextTurnNewGame(o[1], o[2])
  PROVE  FlagInv'
<1> DEFINE m == EndOfGame  s == [Match EXCEPT !.ms = m]  i == lMatch[plGame][1]
<1>1. /\ Become(NewGame(s, fCrawfordState', o[1], o[2])) /\ GameEnded /\ fNextTurn /\ plGame # 0
      /\ ~MatchOver /\ ~fNextTurn' /\ fCrawfordState' = Flags(m)
  BY DEF NextTurnNewGame
<1>2. State(m) /\ \A f \in Fields \ {"fResigned", "fCrawford", "fPostCrawford"} : m[f] = ms[f]
  BY MatchIs, EndOfGameIs
<1>3. Marked(Match) /\ ms.gs # "PLAYING" BY <1>1, EndedMarked
<1>4. /\ plGame = Len(lMatch) /\ lMatch # <<>> /\ ms.nMatchTo = i.nMatch /\ Scores(i.anScore, i.nMatch)
      /\ i.nMatch = lMatch[1][1].nMatch /\ ms.anScore \in [Player -> Nat] /\ i.fWinner \in Player
      /\ \E k \in Nat : ms.anScore = [i.anScore EXCEPT ![i.fWinner] = @ + k]
  BY <1>1, <1>3, EndScores DEF FlagInv
<1>5. (Flags(m) \in Nat) /\ (Flags(m) % 2 = 1 <=> NextC(lMatch[plGame])) BY <1>1, <1>3, EndOfGameCrawford DEF FlagInv
<1>6. ~MatchOver <=> ~(ms.nMatchTo > 0 /\ ms.anScore[i.fWinner] >= ms.nMatchTo) BY DEF MatchOver, Winner
<1> HIDE DEF m
<1>7. Scores(ms.anScore, ms.nMatchTo)
  <2> DEFINE x == i.anScore  y == ms.anScore  w == i.fWinner  n == ms.nMatchTo
  <2>1. PICK k \in Nat : y = [x EXCEPT ![w] = @ + k] BY <1>4
  <2>2. n \in Nat /\ x \in [Player -> Nat] /\ (n > 0 => \A p \in Player : x[p] < n) /\ w \in Player
        /\ y \in [Player -> Nat] /\ ~(n > 0 /\ y[w] >= n)
    BY <1>1, <1>4, <1>6 DEF Scores
  <2> HIDE DEF x, y, w, n
  <2>3. ASSUME n > 0, NEW p \in Player PROVE y[p] < n
    <3>1. CASE p = w
      <4>1. y[w] \in Nat BY <2>2
      <4> QED BY <2>2, <2>3, <3>1, <4>1
    <3>2. CASE p # w
      <4>1. y[p] = x[p] BY <2>1, <2>2, <3>2
      <4> QED BY <2>2, <2>3, <4>1
    <3> QED BY <3>1, <3>2
  <2> QED BY <2>2, <2>3 DEF Scores, y, n
<1>8. m.cGames = ms.cGames /\ m.anScore = ms.anScore /\ m.nMatchTo = ms.nMatchTo BY <1>2 DEF Fields
<1>9. s.ms = m /\ s.games = lMatch BY DEF Match
<1>10. Games(lMatch) /\ Past(lMatch) /\ MayBegin(lMatch, m) /\ Once(lMatch)
  BY <1>3, <1>8, MatchIs, PastEnded DEF GoodPast, FlagInv, MayBegin
<1> DEFINE state == Flags(m)  c == Crawford(m, state).fCrawford
<1>11. c <=> NextC(lMatch[Len(lMatch)])
  <2> HIDE DEF state
  <2>1. c <=> state % 2 = 1 BY <1>2, <1>5, CrawfordFlag DEF state
  <2> QED BY <1>4, <1>5, <2>1 DEF state
<1>12. Tells(state, c) BY <1>4, <1>5, <1>11 DEF Tells
<1> HIDE DEF s, state, c
<1>13. Become(NewGame(s, state, o[1], o[2])) /\ fCrawfordState' = state BY <1>1 DEF state
<1>14. ms.nMatchTo = lMatch[1][1].nMatch BY <1>4
<1> HIDE DEF i
<1> QED BY <1>1, <1>2, <1>4, <1>7, <1>8, <1>9, <1>10, <1>11, <1>12, <1>13, <1>14, NewGameFlags DEF c

(* Nothing of the match changes but the turn, or what NextTurn sets.         *)
LEMMA SameFlags ==
  ASSUME FlagInv, plGame # 0, UNCHANGED <<lMatch, plGame, plLastMove, fCrawfordState>>, SameMatch(ms', ms),
         Done' <=> Done
  PROVE  FlagInv'
<1>1. AtEnd => AtEnd' BY DEF AtEnd, AtLastMove
<1>2. Once(lMatch') /\ plGame' # 0 BY DEF FlagInv
<1>3. Marked(Match) => Marked(Match)'
  <2> SUFFICES ASSUME InGame(ms, lMatch[plGame][1]) PROVE InGame(ms', lMatch[plGame][1])
    BY DEF Marked, Match
  <2> QED BY StaysInGame
<1>4. lMatch' # <<>> => Due' BY DEF FlagInv, Due
<1> QED BY <1>1, <1>2, <1>3, <1>4 DEF FlagInv

LEMMA TurnFlags ==
  ASSUME Valid, GoodPast, FlagInv, AtEnd, NextTurnAssert, NextTurnPlaying
  PROVE  FlagInv'
<1>1. fNextTurn /\ plGame # 0 /\ ~GameEnded /\ UNCHANGED <<ms, lMatch, plGame, plLastMove, fCrawfordState>>
  BY DEF NextTurnPlaying
<1>2. ms.gs = "PLAYING" BY <1>1 DEF NextTurnAssert
<1>3. ~Ended(Final(lMatch[Len(lMatch)])) BY <1>1, <1>2, EndScores DEF FlagInv
<1>4. ~Done /\ ~Done' BY <1>1, <1>3 DEF Done
<1>5. SameMatch(ms', ms) BY <1>1 DEF SameMatch
<1> QED BY <1>1, <1>4, <1>5, SameFlags

LEMMA OverFlags ==
  ASSUME fAutoCrawford, Valid, GoodPast, FlagInv, AtEnd, NextTurnGameOver
  PROVE  FlagInv'
<1>1. /\ fNextTurn /\ plGame # 0 /\ GameEnded /\ ms' = EndOfGame /\ fCrawfordState' = Flags(EndOfGame)
      /\ fNextTurn' = FALSE /\ UNCHANGED <<lMatch, plGame, plLastMove>>
  BY DEF NextTurnGameOver
<1>2. Marked(Match) /\ ms.gs # "PLAYING" BY <1>1, EndedMarked
<1>3. plGame = Len(lMatch) /\ lMatch # <<>> /\ Ended(Final(lMatch[plGame])) BY <1>1, <1>2, EndScores DEF FlagInv
<1>4. Flags(EndOfGame) \in Nat /\ (Flags(EndOfGame) % 2 = 1 <=> NextC(lMatch[plGame]))
  BY <1>1, <1>2, EndOfGameCrawford DEF FlagInv
<1>5. Done' BY <1>1, <1>3 DEF Done
<1>6. Tells(fCrawfordState', NextC(lMatch[Len(lMatch)])) BY <1>1, <1>3, <1>4 DEF Tells
<1>7. Due' BY <1>1, <1>5, <1>6 DEF Due
<1>8. AtEnd' BY <1>1 DEF AtEnd, AtLastMove
<1>9. Once(lMatch') /\ plGame' # 0 BY <1>1 DEF FlagInv
<1> QED BY <1>5, <1>7, <1>8, <1>9 DEF FlagInv

LEMMA OfferFlags ==
  ASSUME Valid, GoodPast, FlagInv, AtEnd, NEW k \in 0..3, CommandResign(k) \/ CommandDecline
  PROVE  FlagInv'
<1>1. ms.gs = "PLAYING" /\ UNCHANGED <<lMatch, plGame, plLastMove, fCrawfordState>>
  BY DEF CommandResign, CommandDecline, Playing
<1>2. plGame # 0 /\ ~Ended(Final(lMatch[Len(lMatch)]))
  <2>1. plGame # 0 BY <1>1, PlayingFlags
  <2> QED BY <1>1, <2>1, EndScores DEF FlagInv
<1>3. ~Done /\ ~Done' BY <1>1, <1>2 DEF Done
<1>4. State(ms) BY MatchIs
<1>5. SameMatch(ms', ms)
  <2>1. CASE ms' = [ms EXCEPT !.fResigned = 0] BY <1>4, <2>1 DEF SameMatch, State, Fields
  <2>2. CASE ms' = [ms EXCEPT !.fResigned = k, !.fTurn = Not(@)] BY <1>4, <2>2 DEF SameMatch, State, Fields
  <2>3. CASE ms' = [ms EXCEPT !.fResignationDeclined = ms.fResigned, !.fResigned = 0, !.fTurn = Not(@)]
    BY <1>4, <2>3 DEF SameMatch, State, Fields
  <2> QED BY <2>1, <2>2, <2>3 DEF CommandResign, CommandDecline
<1> QED BY <1>1, <1>2, <1>3, <1>5, SameFlags

LEMMA ReviewFlags ==
  ASSUME ~fX, Valid, GoodPast, FlagInv, Review
  PROVE  FlagInv'
<1>1. /\ Ready /\ (UNCHANGED fNextTurn \/ fNextTurn' = (fX /\ fNextTurn)) /\ UNCHANGED fCrawfordState
      /\ Marked(Match) \/ ~HasNext => Marked(Match)'
  BY NavigateValid DEF Review
<1>2. lMatch' = lMatch /\ plGame # 0 /\ plGame' # 0 BY ReviewSame DEF GoodPast, Past
<1>3. ~fNextTurn /\ ~fNextTurn'
  <2>1. ~fNextTurn BY <1>1 DEF Ready
  <2>2. CASE UNCHANGED fNextTurn BY <2>1, <2>2
  <2>3. CASE fNextTurn' = (fX /\ fNextTurn)
    <3>1. ~fNextTurn' BY <2>3
    <3> QED BY <2>1, <3>1
  <2> QED BY <1>1, <2>2, <2>3
<1>4. Done' <=> Done BY <1>2, <1>3 DEF Done
<1>5. AtEnd => ~HasNext
  <2> SUFFICES ASSUME AtEnd, HasNext PROVE FALSE OBVIOUS
  <2>1. plLastMove = Len(lMatch[plGame]) BY <1>2 DEF AtEnd, AtLastMove
  <2>2. Len(lMatch[plGame]) \in Nat BY <1>2, AtCursor DEF Review
  <2> QED BY <2>1, <2>2 DEF HasNext
<1>6. Marked(Match)' BY <1>1, <1>2, <1>5 DEF FlagInv
<1>7. Once(lMatch') BY <1>2 DEF FlagInv
<1>8. lMatch' # <<>> => Due' BY <1>1, <1>2, <1>4 DEF FlagInv, Due
<1> QED BY <1>2, <1>6, <1>7, <1>8 DEF FlagInv

(* One step of play from the last position, at the terminal.                 *)
LEMMA PlayFlags ==
  ASSUME Shown, fAutoCrawford, ~fX, Valid, GoodPast, FlagInv, NextTurnAssert, AtEnd, Play
  PROVE  FlagInv'
<1>1. CASE NextTurn
  <2>1. CASE NextTurnPlaying BY <2>1, TurnFlags
  <2>2. CASE NextTurnGameOver BY <2>2, OverFlags
  <2>3. ASSUME NEW o \in Opening, NextTurnNewGame(o[1], o[2]) PROVE FlagInv' BY <2>3, NextGameFlags
  <2> QED BY <1>1, <2>1, <2>2, <2>3 DEF NextTurn
<1>2. CASE Begin
  <2>1. ASSUME NEW o \in Opening, NEW n \in MatchLengths, CommandNewMatch(n, o[1], o[2]) PROVE FlagInv'
    BY <2>1, NewMatchFlags
  <2>2. ASSUME NEW o \in Opening, CommandNewGame(o[1], o[2]) PROVE FlagInv' BY <2>2, NewGameCommandFlags
  <2> QED BY <1>2, <2>1, <2>2 DEF Begin
<1>3. CASE TakeTurn
  <2>1. CASE CommandRoll BY <2>1, RollFlags
  <2>2. CASE CommandDouble BY <2>2, DoubleAdds, ActFlags DEF CommandDouble, Act
  <2>3. ASSUME NEW moved \in 0..1, CommandRollAndMove(moved) PROVE FlagInv' BY <2>3, RollAndMoveFlags
  <2>4. ASSUME NEW moved \in 0..1, CommandMove(moved) PROVE FlagInv' BY <2>4, MoveAdds, ActFlags DEF CommandMove, Act
  <2> QED BY <1>3, <2>1, <2>2, <2>3, <2>4 DEF TakeTurn
<1>4. CASE AnswerResignation
  <2>1. CASE CommandAgree BY <2>1, AgreeAdds, ActFlags DEF CommandAgree, Act
  <2>2. CASE CommandDecline
    <3>1. 0 \in 0..3 OBVIOUS
    <3> QED BY <2>2, <3>1, OfferFlags
  <2> QED BY <1>4, <2>1, <2>2 DEF AnswerResignation
<1>5. CASE Settled /\ (AnswerDouble \/ OfferResignation)
  <2>1. CASE CommandRedouble BY <1>5, <2>1, RedoubleAdds, ActFlags DEF CommandRedouble, Act
  <2>2. CASE CommandTake BY <1>5, <2>2, AnswerAdds, ActFlags DEF CommandTake, Act
  <2>3. CASE CommandDrop BY <1>5, <2>3, AnswerAdds, ActFlags DEF CommandDrop, Act
  <2>4. ASSUME NEW k \in 0..3, CommandResign(k) PROVE FlagInv' BY <2>4, OfferFlags
  <2> QED BY <1>5, <2>1, <2>2, <2>3, <2>4 DEF AnswerDouble, OfferResignation
<1> QED BY <1>1, <1>2, <1>3, <1>4, <1>5 DEF Play

CrawfordInv == Valid /\ NextTurnAssert /\ (Reviewing => GoodPast /\ FlagInv)

LEMMA CrawfordStep ==
  ASSUME Shown, fAutoCrawford, ~fX, CrawfordInv, [HistoryNext]_<<vars, way>>
  PROVE  CrawfordInv'
<1>1. Valid /\ NextTurnAssert BY DEF CrawfordInv
<1>2. way' = way /\ [Play \/ Review]_vars BY DEF HistoryNext
<1>3. Valid' /\ NextTurnAssert' BY <1>1, <1>2, StepValid
<1>4. ASSUME Reviewing PROVE GoodPast'
  <2>1. HistoryInv BY DEF CrawfordInv, HistoryInv
  <2>2. HistoryInv' BY <2>1, HistoryStep
  <2> QED BY <1>2, <1>4, <2>2 DEF HistoryInv, Reviewing
<1>5. ASSUME Reviewing, GoodPast, FlagInv PROVE FlagInv'
  <2>1. CASE Review BY <1>1, <1>5, <2>1, ReviewFlags
  <2>2. CASE Play /\ AtEnd BY <1>1, <1>5, <2>2, PlayFlags
  <2>3. CASE UNCHANGED vars
    <3>1. UNCHANGED <<ms, lMatch, plGame, plLastMove, fCrawfordState, fNextTurn>> BY <2>3 DEF vars
    <3>2. AtEnd' <=> AtEnd BY <3>1 DEF AtEnd, AtLastMove
    <3>3. Done' <=> Done BY <3>1 DEF Done
    <3>4. Due' <=> Due BY <3>1, <3>3 DEF Due
    <3>5. Marked(Match) => Marked(Match)' BY <3>1 DEF Marked, Match
    <3>6. Unbegun => Unbegun' BY <3>1 DEF Unbegun
    <3> QED BY <1>5, <3>1, <3>2, <3>3, <3>4, <3>5, <3>6 DEF FlagInv
  <2> QED BY <1>5, <2>1, <2>2, <2>3 DEF HistoryNext, Reviewing
<1> QED BY <1>2, <1>3, <1>4, <1>5 DEF CrawfordInv, Reviewing

LEMMA CrawfordInit ==
  HistoryInit => CrawfordInv
<1> SUFFICES ASSUME HistoryInit PROVE CrawfordInv OBVIOUS
<1>1. Valid /\ NextTurnAssert BY InitValid DEF HistoryInit
<1>2. lMatch = <<>> /\ plGame = 0 /\ Unbegun /\ ms.cGames = 0 BY DEF HistoryInit, Init, Unbegun
<1>3. GoodPast BY <1>2, NoPast DEF GoodPast
<1>4. Once(lMatch)
  <2>1. Len(<<>>) = 0 BY ListedOne
  <2> QED BY <1>2, <2>1 DEF Once
<1> QED BY <1>1, <1>2, <1>3, <1>4 DEF CrawfordInv, FlagInv

-----------------------------------------------------------------------------
(* Wherever a match has been played or gone back to, the position shown is   *)
(* the one that ApplyMoveRecord makes of the records up to the cursor (if    *)
(* the doubles of the opening roll are shown or there are none).             *)
THEOREM PlayIsReplay ==
  ASSUME Shown
  PROVE  ReplaySpec => []LiveIsReplay
BY AlwaysValid, ValidReplay, PTL

(* fTurn follows from fMove, the doubles, the beavers and the resignation.   *)
THEOREM TurnsFollow ==
  ASSUME Shown
  PROVE  ReplaySpec => []WhoseTurn
BY AlwaysValid, ValidTurn, PTL

(* On a terminal, NextTurn finds a winner when the game has ended and a game *)
(* in play when it has not.                                                  *)
THEOREM NextTurnSafe ==
  ASSUME Shown, ~fX
  PROVE  ReplaySpec => []NextTurnAssert
<1>1. Init => Valid /\ NextTurnAssert BY InitValid
<1>2. (Valid /\ NextTurnAssert) /\ [Play \/ Review]_vars => (Valid /\ NextTurnAssert)' BY StepValid
<1> QED BY <1>1, <1>2, PTL DEF ReplaySpec

(* The automatic doubles stay within cAutoDoubles and the cube within        *)
(* MAX_CUBE; until a player doubles the cube is at the automatic doubles.    *)
THEOREM CubeWithinLimits ==
  ASSUME Shown
  PROVE  ReplaySpec => []CubeLimits
BY AlwaysLimited, ValidLimits, PTL

(* As long as nothing is played on from an earlier position, the winner and  *)
(* the points in the game-info record of each game are those that its        *)
(* records lead to, whatever the players go back to look at.                 *)
THEOREM ResultsReplay ==
  ASSUME Shown
  PROVE  HistorySpec => []Results
<1>1. HistoryInv => Results BY PastResults DEF HistoryInv, GoodPast, Results
<1> QED BY <1>1, AlwaysPast, PTL

(* ... and each game begins with the number and the score that the games     *)
(* before it lead to.                                                        *)
THEOREM GamesChain ==
  ASSUME Shown
  PROVE  HistorySpec => []Chain
<1>1. HistoryInv => Chain BY PastChain DEF HistoryInv, GoodPast, Chain
<1> QED BY <1>1, AlwaysPast, PTL

(* At the terminal, with the Crawford rule in force and nothing played on    *)
(* from an earlier position, the Crawford game is the one after the game in  *)
(* which a player has come to one point short of the match, that game only,  *)
(* and no double is made in it.                                              *)
THEOREM CrawfordGame ==
  ASSUME Shown, fAutoCrawford, ~fX
  PROVE  HistorySpec => []Crawford1
<1>1. CrawfordInv => Crawford1 BY OnceRule DEF CrawfordInv, FlagInv, Crawford1
<1>2. CrawfordInv /\ [HistoryNext]_<<vars, way>> => CrawfordInv' BY CrawfordStep
<1> QED BY <1>1, <1>2, CrawfordInit, PTL DEF HistorySpec
=============================================================================
