------------------------------- MODULE Moves -------------------------------
(* The rules of movement: eval.c.  A move is a sequence of at most four steps*)
(* <<from, to>> on the points of the player on roll, anMove up to its end    *)
(* mark; to is -1 when the man is borne off.                                 *)
EXTENDS PositionId

MaxOf(S) == CHOOSE m \in S : \A n \in S : n <= m

anChequers == [STANDARD |-> 15, NACKGAMMON |-> 15, HYPERGAMMON_1 |-> 1,
               HYPERGAMMON_2 |-> 2, HYPERGAMMON_3 |-> 3]

SwapSides(board) == [s \in Side |-> board[1 - s]]

PipCount(board) ==
  [s \in Side |-> LET pips[i \in 0 .. 25] ==
                        IF i = 0 THEN 0 ELSE pips[i - 1] + board[s][i - 1] * i
                  IN  pips[25]]

(* Mutant: a man that was hit does not come to the bar.                      *)
ApplySubMoveNoBar(board, iSrc, nRoll, fCheckLegal) ==
  LET iDest == iSrc - nRoll
      lifted == [board EXCEPT ![1][iSrc] = @ - 1]
  IN  IF iDest < 0 THEN [rc |-> 0, board |-> lifted]
      ELSE [rc |-> 0, board |-> [lifted EXCEPT ![1][iDest] = @ + 1, ![0][23 - iDest] = 0]]

(* One man moves.  The men are lifted before the point is found to be held.  *)
ApplySubMove(board, iSrc, nRoll, fCheckLegal) ==
  LET iDest == iSrc - nRoll
      lifted == [board EXCEPT ![1][iSrc] = @ - 1]
  IN  IF \/ fCheckLegal /\ nRoll \notin 1 .. 6
         \/ iSrc \notin Point \/ iDest >= iSrc \/ board[1][iSrc] < 1
        THEN [rc |-> -1, board |-> board]
      ELSE IF iDest < 0 THEN [rc |-> 0, board |-> lifted]
      ELSE IF board[0][23 - iDest] > 1 THEN [rc |-> -1, board |-> lifted]
      ELSE IF board[0][23 - iDest] = 1
        THEN [rc |-> 0, board |-> [lifted EXCEPT ![1][iDest] = 1, ![0][23 - iDest] = 0,
                                                 ![0][Bar] = @ + 1]]
      ELSE [rc |-> 0, board |-> [lifted EXCEPT ![1][iDest] = @ + 1]]

(* The steps are applied until one of them fails.                            *)
ApplyMove(board, anMove, fCheckLegal) ==
  LET after[i \in 0 .. Len(anMove)] ==
        IF i = 0 THEN [rc |-> 0, board |-> board]
        ELSE IF after[i - 1].rc # 0 THEN after[i - 1]
        ELSE ApplySubMove(after[i - 1].board, anMove[i][1], anMove[i][1] - anMove[i][2],
                          fCheckLegal)
  IN  after[Len(anMove)]

-----------------------------------------------------------------------------
(* Generating the legal moves of a roll.                                     *)

(* Mutant: a man may be borne off by a larger number from any point.         *)
LegalMoveAnyOff(board, iSrc, nPips) ==
  LET iDest == iSrc - nPips
      nBack == MaxOf({0} \cup {i \in 1 .. 24 : board[1][i] > 0})
  IN  IF iDest >= 0 THEN board[0][23 - iDest] < 2 ELSE nBack <= 5

LegalMove(board, iSrc, nPips) ==
  LET iDest == iSrc - nPips
      nBack == MaxOf({0} \cup {i \in 1 .. 24 : board[1][i] > 0})
  IN  IF iDest >= 0 THEN board[0][23 - iDest] < 2
      ELSE nBack <= 5 /\ (iSrc = nBack \/ iDest = -1)

(* The points the next man may come from: the bar first; after a double not  *)
(* from behind the man moved before.                                         *)
Sources(board, iPip, nPips) ==
  IF board[1][Bar] > 0
    THEN {i \in {Bar} : board[0][nPips - 1] < 2}
    ELSE {i \in 0 .. iPip : board[1][i] > 0 /\ LegalMove(board, i, nPips)}

Off(iDest) == IF iDest > -1 THEN iDest ELSE -1
Node == [board : [Side -> [Point -> Nat]], iPip : 0 .. 23, anMove : Seq(Point \X (-1 .. 23)), cPips : Nat]

(* All that is handed to SaveMoves from one call of GenerateMovesSub on: the *)
(* moves that cannot be continued, and with fPartial the others too.         *)
GenerateMovesSub(anRoll, board, fPartial) ==
  LET sub[n \in Node] ==
        LET d == Len(n.anMove) + 1
            nPips == IF d > 4 THEN 0 ELSE anRoll[d]
            After(i) ==
              [board |-> ApplySubMove(n.board, i, nPips, TRUE).board,
               iPip |-> IF i # Bar /\ anRoll[1] = anRoll[2] THEN i ELSE 23,
               anMove |-> Append(n.anMove, <<i, Off(i - nPips)>>),
               cPips |-> n.cPips + nPips]
            Saved(i) == LET below == sub[After(i)]
                        IN  IF below = {} \/ fPartial THEN below \cup {After(i)} ELSE below
        IN  IF nPips = 0 THEN {} ELSE UNION {Saved(i) : i \in Sources(n.board, n.iPip, nPips)}
  IN  sub[[board |-> board, iPip |-> 23, anMove |-> <<>>, cPips |-> 0]]

(* The order in which moves are saved: the roll as it was thrown before the  *)
(* roll swapped, men farther back first, a longer move before its beginning. *)
Rank(save) ==
  LET from(i) == IF i > Len(save.anMove) THEN 0 ELSE save.anMove[i][1] + 1
  IN  ((from(1) * 32 + from(2)) * 32 + from(3)) * 32 + from(4)
                + IF save.swapped THEN 0 ELSE 32 * 32 * 32 * 32

(* SaveMoves on all of them.  A move that plays fewer men or fewer pips than *)
(* another is not legal; a move that plays more men plays more pips, so that *)
(* it does not matter in which order they come.                              *)
Kept(saves, fPartial) ==
  {p \in saves : fPartial \/ \A q \in saves : /\ Len(q.anMove) <= Len(p.anMove)
                                               /\ q.cPips <= p.cPips}

(* One move to a position: of those that play the most pips, the first.      *)
OneToKey(saves) ==
  LET toSame(p) == {q \in saves : q.board = p.board}
      most(p) == {q \in toSame(p) : \A r \in toSame(p) : r.cPips <= q.cPips}
  IN  {p \in saves : p \in most(p) /\ \A q \in most(p) : Rank(q) <= Rank(p)}

(* movelist.amMoves as a set.                                                *)
GenerateMoves(board, n0, n1, fPartial) ==
  LET Roll(a, b) == <<a, b, IF a = b THEN a ELSE 0, IF a = b THEN a ELSE 0>>
      Saves(a, b, swapped) == {[board |-> p.board, anMove |-> p.anMove, cPips |-> p.cPips,
                                swapped |-> swapped] : p \in GenerateMovesSub(Roll(a, b), board, fPartial)}
      saves == Saves(n0, n1, FALSE) \cup IF n0 = n1 THEN {} ELSE Saves(n1, n0, TRUE)
  IN  {[key |-> PositionKey(p.board), anMove |-> p.anMove, cPips |-> p.cPips]
          : p \in OneToKey(Kept(saves, fPartial))}

-----------------------------------------------------------------------------
(* What kind of position it is, and how a game ended.                        *)

Back(side) == MaxOf({-1} \cup {i \in Point : side[i] > 0})

(* Mutant: only the men of the player on roll are counted.                   *)
isBearoffOwn(pbc, board) ==
  /\ \A s \in Side : Back(board[s]) >= 0
  /\ Back(board[0]) + Back(board[1]) <= 22
  /\ Total(board[1]) <= pbc.nChequers
  /\ \A s \in Side : Back(board[s]) < pbc.nPoints

(* A bear-off database for so many points and men, in memory.                *)
isBearoff(pbc, board) ==
  /\ \A s \in Side : Back(board[s]) >= 0
  /\ Back(board[0]) + Back(board[1]) <= 22
  /\ \A s \in Side : Total(board[s]) <= pbc.nChequers /\ Back(board[s]) < pbc.nPoints

pbc1 == [nPoints |-> 6, nChequers |-> 15]
pbc2 == [nPoints |-> 6, nChequers |-> 6]

(* Fewer than seven men, not counting those piled up on the last two points. *)
Crashed(side) ==
  LET tot == Total(side)
      N == 6
  IN  \/ tot <= N
      \/ side[0] > 1 /\ (tot <= N + side[0] \/ (1 + tot - (side[0] + side[1]) <= N /\ side[1] > 1))
      \/ side[0] <= 1 /\ tot <= N + side[1] - 1

ClassifyPosition(board, bgv) ==
  IF \E s \in Side : Back(board[s]) < 0 THEN "OVER"
  ELSE IF bgv \notin {"STANDARD", "NACKGAMMON"} THEN bgv
  ELSE IF Back(board[0]) + Back(board[1]) > 22
    THEN IF \E s \in Side : Crashed(board[s]) THEN "CRASHED" ELSE "CONTACT"
  ELSE IF isBearoff(pbc2, board) THEN "BEAROFF2"
  ELSE IF isBearoff(pbc1, board) THEN "BEAROFF1"
  ELSE "RACE"

(* Mutant: men in the winner's home board are not looked for on the bar.     *)
EvalOverNoBar(board, bgv) ==
  LET lost == board[IF Total(board[0]) = 0 THEN 1 ELSE 0]
      gammon == Total(lost) = anChequers[bgv]
  IN  [gammon |-> gammon, backgammon |-> gammon /\ \E i \in 18 .. 23 : lost[i] > 0]

(* A side without men has won; the loser loses a gammon if he still has all  *)
(* his men, a backgammon if one of them is in the winner's home or on the bar*)
EvalOver(board, bgv) ==
  LET lost == board[IF Total(board[0]) = 0 THEN 1 ELSE 0]
      gammon == Total(lost) = anChequers[bgv]
  IN  [gammon |-> gammon, backgammon |-> gammon /\ \E i \in 18 .. 24 : lost[i] > 0]

GameStatus(board, bgv) ==
  LET over == EvalOver(board, bgv)
  IN  IF ClassifyPosition(board, bgv) # "OVER" THEN 0
      ELSE IF over.backgammon THEN 3 ELSE IF over.gammon THEN 2 ELSE 1
=============================================================================
