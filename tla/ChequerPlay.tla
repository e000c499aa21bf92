---------------------------- MODULE ChequerPlay ----------------------------
(* The men in a game: dice are rolled, the legal moves of the roll are       *)
(* generated (eval.c), one of them is typed and played (play.c), until a side*)
(* has none left.  The board is always that of the player on roll.           *)
EXTENDS MoveNotation

CONSTANT Starts   \* positions, and for how many turns of which rolls they are played on

(* -1 turns stand for a game played to its end.                              *)
ASSUME StartsAssumption ==
  \A s \in Starts : /\ s.bgv \in DOMAIN anChequers
                    /\ s.anBoard \in TanBoard /\ CheckPosition(s.anBoard)
                    /\ s.turns \in Nat \cup {-1} /\ s.rolls \subseteq (1 .. 6) \X (1 .. 6)

VARIABLES anBoard, bgv,
          anDice,         \* <<0, 0>> before the roll
          ml,             \* the legal moves of the roll
          status,         \* what the game was won with: 1, 2 or 3; 0 while it is played
          anMove,         \* the last move played
          rolls, turns    \* the rolls tried, the turns left

vars == <<anBoard, bgv, anDice, ml, status, anMove, rolls, turns>>

(* The positions a game begins with, as InitBoard spells them.               *)
Letter(n) == {b \in 0 .. 5 : (n \div 2 ^ b) % 2 = 1}
StartID(variation) ==
  LET letters == CASE variation = "STANDARD" -> <<56, 7, 15, 48, 0, 19, 3, 32, 28, 63, 0, 1, 12, 0>>
                   [] variation = "NACKGAMMON" -> <<56, 3, 37, 56, 0, 3, 27, 32, 14, 23, 32, 0, 13, 32>>
                   [] variation = "HYPERGAMMON_1" -> <<0, 0, 2, 0, 0, 0, 0, 0, 0, 32, 0, 0, 0, 0>>
                   [] variation = "HYPERGAMMON_2" -> <<0, 0, 1, 0, 0, 16, 0, 0, 2, 32, 0, 0, 0, 0>>
                   [] variation = "HYPERGAMMON_3" -> <<0, 0, 2, 32, 0, 32, 0, 0, 10, 32, 0, 0, 0, 0>>
  IN  [i \in 1 .. L_POSITIONID |-> Letter(letters[i])]
InitBoard(variation) == PositionFromID(StartID(variation)).board

(* PlayMove: the steps of the record, an empty point passed over, all men on *)
(* a point that is reached sent to the bar; then the other side is on roll.  *)
PlayMove(board, an) ==
  LET Hit(b, dest) == IF dest < 0 THEN b
                      ELSE [b EXCEPT ![1][dest] = @ + 1, ![0][Bar] = @ + b[0][23 - dest],
                                     ![0][23 - dest] = 0]
      after[i \in 0 .. Len(an)] ==
        IF i = 0 THEN board
        ELSE IF after[i - 1][1][an[i][1]] = 0 THEN after[i - 1]
        ELSE Hit([after[i - 1] EXCEPT ![1][an[i][1]] = @ - 1], an[i][2])
  IN  SwapSides(after[Len(an)])

Init ==
  \E s \in Starts :
    /\ anBoard = s.anBoard /\ bgv = s.bgv /\ rolls = s.rolls /\ turns = s.turns
    /\ anDice = <<0, 0>> /\ ml = {} /\ status = 0 /\ anMove = <<>>

RollDice ==
  /\ status = 0 /\ anDice = <<0, 0>> /\ turns # 0
  /\ \E roll \in rolls :
       /\ anDice' = roll
       /\ ml' = GenerateMoves(anBoard, roll[1], roll[2], FALSE)
  /\ anMove' = <<>>
  /\ turns' = IF turns > 0 THEN turns - 1 ELSE turns
  /\ UNCHANGED <<anBoard, bgv, status, rolls>>

(* ApplyMoveRecord of the record of a move.                                  *)
Played(an) ==
  /\ anBoard' = PlayMove(anBoard, an)
  /\ status' = GameStatus(anBoard', bgv)
  /\ anMove' = an /\ anDice' = <<0, 0>> /\ ml' = {}
  /\ UNCHANGED <<bgv, rolls, turns>>

(* A move of the list is typed as it was shown.                              *)
CommandMove ==
  \E m \in ml : \E found \in parse_move_is_legal(anBoard, ml, FormatMove(anBoard, m.anMove)) :
    Played(found.anMove)

CommandMoveNone == anDice # <<0, 0>> /\ ml = {} /\ Played(<<>>)

Next == RollDice \/ CommandMove \/ CommandMoveNone
Spec == Init /\ [][Next]_vars

-----------------------------------------------------------------------------
(* The rules of the game, as people play it.                                 *)

(* One man moved by one die: from the bar while there is a man on it, not to *)
(* a point held by two men, off the board when all are home, by the exact    *)
(* number or from the rearmost point by a larger one.                        *)
Blocked(b, to) == b[0][23 - to] > 1
Steppable(b, die) ==
  {i \in Point :
     /\ b[1][i] > 0 /\ (i = Bar \/ b[1][Bar] = 0)
     /\ IF i >= die THEN ~Blocked(b, i - die)
        ELSE /\ \A j \in 6 .. Bar : b[1][j] = 0
             /\ i + 1 = die \/ \A j \in i + 1 .. 5 : b[1][j] = 0}
StepTo(b, i, die) ==
  [s \in Side |-> [p \in Point |->
     IF s = 1 THEN b[1][p] + (IF p = i - die THEN 1 ELSE 0) - (IF p = i THEN 1 ELSE 0)
     ELSE IF p = Bar THEN b[0][Bar] + IF i >= die THEN b[0][23 - (i - die)] ELSE 0
     ELSE IF i >= die /\ p = 23 - (i - die) THEN 0 ELSE b[0][p]]]
OneDie(boards, die) == UNION {{StepTo(b, i, die) : i \in Steppable(b, die)} : b \in boards}

(* As many dice as can be are played, and the larger one if it is either.    *)
LegalPositions(b, d1, d2) ==
  IF d1 = d2
    THEN LET after[n \in 0 .. 4] == IF n = 0 THEN {b} ELSE OneDie(after[n - 1], d1)
             played == MaxOf({n \in 0 .. 4 : after[n] # {}})
         IN  IF played = 0 THEN {} ELSE after[played]
    ELSE LET both == OneDie(OneDie({b}, d1), d2) \cup OneDie(OneDie({b}, d2), d1)
             larger == OneDie({b}, IF d1 > d2 THEN d1 ELSE d2)
         IN  IF both # {} THEN both
             ELSE IF larger # {} THEN larger
             ELSE OneDie({b}, IF d1 > d2 THEN d2 ELSE d1)

(* The positions on the way, those of every order of the dice.               *)
OnTheWay(b, d1, d2) ==
  IF d1 = d2
    THEN LET after[n \in 0 .. 4] == IF n = 0 THEN {b} ELSE OneDie(after[n - 1], d1)
         IN  UNION {after[n] : n \in 1 .. 4}
    ELSE UNION {LET one == OneDie({b}, r[1]) IN one \cup OneDie(one, r[2]) : r \in {<<d1, d2>>, <<d2, d1>>}}

Rolled == anDice # <<0, 0>>
Position(m) == PositionFromKey(m.key)

(* The moves generated lead to exactly the positions the rules allow, each   *)
(* once: GenerateMovesSub tries doubles in one order only and SaveMoves      *)
(* weeds out the moves that play too little.  The list for dragging a man    *)
(* holds every position on the way of a move too, so that no legal way of    *)
(* moving the men by hand is refused.                                        *)
MovesAreLegal ==
  Rolled => /\ {Position(m) : m \in ml} = LegalPositions(anBoard, anDice[1], anDice[2])
            /\ \A m, n \in ml : m.key = n.key => m = n
            /\ {Position(m) : m \in GenerateMoves(anBoard, anDice[1], anDice[2], TRUE)}
                 = OnTheWay(anBoard, anDice[1], anDice[2])

(* A move recorded in the list leads to its position when ApplyMove applies  *)
(* it, checking or not, and when PlayMove plays it: the three ways to carry  *)
(* out a move agree on hits and on men borne off.                            *)
MovesAgree ==
  \A m \in ml : /\ \A check \in BOOLEAN : ApplyMove(anBoard, m.anMove, check)
                                            = [rc |-> 0, board |-> Position(m)]
                /\ PlayMove(anBoard, m.anMove) = PositionFromKeySwapped(m.key)

(* A move that is shown and typed again is read as a move to the same        *)
(* position, however its steps were joined and counted.                      *)
TextReadsBack ==
  \A m \in ml : LET found == parse_move_is_legal(anBoard, ml, FormatMove(anBoard, m.anMove))
                IN  found # {} /\ \A f \in found : f.key = m.key

(* A position of the game is legal, its key and its id give it back, and     *)
(* loading it from a file leaves it as it is; a position with men where they *)
(* cannot be is made legal.                                                  *)
Misplaced == {[anBoard EXCEPT ![s][i] = n] : s \in Side, i \in {0, 18, 24}, n \in {3, 15}}
PositionsLoad ==
  ml = {} => /\ PositionFromID(PositionID(anBoard)) = [board |-> anBoard, legal |-> TRUE]
             /\ PositionFromKey(PositionKey(anBoard)) = anBoard
             /\ ClosestLegalPosition(anBoard) = anBoard
             /\ \A b \in Misplaced : CheckPosition(ClosestLegalPosition(b))

(* The game is over when a side has no men left; it counts double if the     *)
(* loser has borne off none, three times if one of them has not even left    *)
(* the winner's home board.                                                  *)
ResultByRules ==
  LET Lost(s) == Total(anBoard[1 - s]) = 0
      Worth(side) == IF Total(side) < anChequers[bgv] THEN 1
                     ELSE IF \E i \in Point : side[i] > 0 /\ (i = Bar \/ 23 - i \in 0 .. 5) THEN 3 ELSE 2
  IN  status = IF Lost(1) THEN Worth(anBoard[1]) ELSE IF Lost(0) THEN Worth(anBoard[0]) ELSE 0

(* Once the sides have passed each other no man is hit any more, and the     *)
(* position goes only to classes with better databases: rollouts stop at     *)
(* them and evaluations use a net that knows no contact.                     *)
ClassRank == [OVER |-> 0, BEAROFF2 |-> 1, BEAROFF1 |-> 2, RACE |-> 3, CRASHED |-> 4, CONTACT |-> 4]
Class(b) == ClassRank[ClassifyPosition(b, "STANDARD")]
RaceStays == [][Class(anBoard) < 4 => /\ Class(anBoard') <= Class(anBoard)
                                      /\ anBoard'[0][Bar] + anBoard'[1][Bar] = 0]_vars
=============================================================================
