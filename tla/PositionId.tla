----------------------------- MODULE PositionId -----------------------------
(* Boards, and the forms they are kept and passed on in: positionid.c.  A    *)
(* board gives for each side the men on its points 0..23 and on its bar, 24; *)
(* side 1 is the player on roll, and its point i is point 23 - i of side 0.  *)
EXTENDS Integers, Sequences, FiniteSets

Side == {0, 1}
Bar == 24
Point == 0 .. Bar
AllMen == 15
TanBoard == [Side -> [Point -> 0 .. AllMen]]

(* The men on the points below j, and all of them.                           *)
UpTo(side, j) == LET men[i \in 0 .. 25] == IF i = 0 THEN 0 ELSE men[i - 1] + side[i - 1]
                 IN  men[j]
Total(side) == UpTo(side, 25)

-----------------------------------------------------------------------------
(* The key of a board: seven words of eight hexadecimal digits, a word given *)
(* by its digits.  A digit holds at most 15 men, so nothing is carried.      *)

Word(side, first) == [d \in 0 .. 7 |-> side[first + d] % 16]

PositionKey(board) ==
  [i \in 0 .. 6 |-> IF i < 3 THEN Word(board[1], 8 * i)
                    ELSE IF i < 6 THEN Word(board[0], 8 * (i - 3))
                    ELSE [d \in 0 .. 7 |-> IF d > 1 THEN 0 ELSE board[d][Bar] % 16]]

SideFromKey(key, word, bar) ==
  [i \in Point |-> IF i = Bar THEN key[6][bar] ELSE key[word + i \div 8][i % 8]]

PositionFromKey(key) == [s \in Side |-> IF s = 1 THEN SideFromKey(key, 0, 1)
                                        ELSE SideFromKey(key, 3, 0)]

PositionFromKeySwapped(key) == [s \in Side |-> IF s = 0 THEN SideFromKey(key, 0, 1)
                                               ELSE SideFromKey(key, 3, 0)]

-----------------------------------------------------------------------------
(* The position id: every point as a run of ones, as many as there are men,  *)
(* closed by a zero, in ten bytes, then six bits to a letter.  A byte is the *)
(* set of its bits that are one, a letter the set of the bits it stands for. *)

Byte == 0 .. 9
L_POSITIONID == 14
Shl(bits, n, width) == {b + n : b \in bits} \cap (0 .. width - 1)
Shr(bits, n) == {b - n : b \in bits} \cap Nat

(* Mutant: an empty point gets no zero of its own behind another one.        *)
RunStartTight(board, s, i) ==
  IF s = 0 THEN i + UpTo(board[0], i)
  ELSE 24 + Total(board[0]) + i + UpTo(board[1], i)

(* Where the run of point i of side s begins: after its men and one zero for *)
(* each of the points before it.                                             *)
RunStart(board, s, i) ==
  IF s = 0 THEN i + UpTo(board[0], i)
  ELSE 25 + Total(board[0]) + i + UpTo(board[1], i)

oldPositionKey(board) ==
  LET Run(s, i) == LET first == RunStart(board, s, i)
                   IN  first .. first + board[s][i] - 1
      held == {p \in Side \X Point : board[p[1]][p[2]] > 0}
      ones == UNION {Run(p[1], p[2]) : p \in held}
  IN  [k \in Byte |-> {n - 8 * k : n \in ones \cap (8 * k .. 8 * k + 7)}]

(* A one belongs to the point whose number is that of the zeros before it; a *)
(* one behind the fiftieth zero ends the reading.                            *)
oldPositionFromKey(auch) ==
  LET ones == UNION {{8 * k + b : b \in auch[k]} : k \in Byte}
      place == {<<n, n - Cardinality({m \in ones : m < n})>> : n \in ones}
  IN  [s \in Side |-> [i \in Point |-> Cardinality({q \in place : q[2] = 25 * s + i})]]

oldPositionIDFromKey(auch) ==
  LET Group(p) == <<Shr(auch[p], 2),
                    Shl(auch[p] \cap {0, 1}, 4, 6) \cup Shr(auch[p + 1], 4),
                    Shl(auch[p + 1] \cap (0 .. 3), 2, 6) \cup Shr(auch[p + 2], 6),
                    auch[p + 2] \cap (0 .. 5)>>
  IN  Group(0) \o Group(3) \o Group(6) \o <<Shr(auch[9], 2), Shl(auch[9] \cap {0, 1}, 4, 6)>>

PositionID(board) == oldPositionIDFromKey(oldPositionKey(board))

(* Is it a position of a game: not too many men, no point of both sides, and *)
(* not both sides on the bar against closed boards?                          *)
CheckPosition(board) ==
  /\ \A s \in Side : Total(board[s]) <= AllMen
  /\ \A i \in 0 .. 23 : board[0][i] = 0 \/ board[1][23 - i] = 0
  /\ \/ \E i \in 0 .. 5 : board[0][i] < 2 \/ board[1][i] < 2
     \/ \E s \in Side : board[s][Bar] = 0

PositionFromID(id) ==
  LET p(i) == id[i + 1]
      Group(q, k) == CASE k = 0 -> Shl(p(q), 2, 8) \cup Shr(p(q + 1), 4)
                       [] k = 1 -> Shl(p(q + 1), 4, 8) \cup Shr(p(q + 2), 2)
                       [] k = 2 -> Shl(p(q + 2), 6, 8) \cup p(q + 3)
      key == [k \in Byte |-> Group(4 * (k \div 3), k % 3)]
      board == oldPositionFromKey(key)
  IN  [board |-> board, legal |-> CheckPosition(board)]

(* No side keeps more than fifteen men, counted from its first point on.     *)
Limited(side) ==
  LET Left(j) == AllMen - UpTo(side, j)
  IN  [j \in Point |-> IF Left(j) < 0 THEN 0 ELSE IF side[j] <= Left(j) THEN side[j] ELSE Left(j)]

(* No point is held by both sides.                                           *)
Apart(board) ==
  [board EXCEPT ![1] = [j \in Point |-> IF j # Bar /\ board[0][23 - j] > 0 THEN 0 ELSE @[j]]]

(* What loading a file makes of a position nobody could have reached.        *)
ClosestLegalPosition(board) ==
  LET apart == Apart([s \in Side |-> Limited(board[s])])
      closed == \A i \in 0 .. 5 : apart[0][i] > 1 /\ apart[1][i] > 1
  IN  IF closed /\ apart[0][Bar] > 0 THEN [apart EXCEPT ![1][Bar] = 0] ELSE apart

-----------------------------------------------------------------------------
(* The number of a bear-off position among those with at most nChequers men  *)
(* on nPoints points: the men and the gaps between points are a row of bits, *)
(* and the row is numbered by the combinations below it.  fBits is the set   *)
(* of bits that are one, a board a function on 0 .. nPoints - 1.             *)

(* Pascal's triangle, row by row; rows and columns count from 1.  (The code  *)
(* has 40 rows; the largest database it makes, of 13 points and 15 men, is   *)
(* numbered by the 28th, and the 33rd is the last that 31 bits hold.)        *)
MAX_N == 33
anCombination ==
  LET row[i \in 1 .. MAX_N] ==
        IF i = 1 THEN [j \in 1 .. MAX_N |-> IF j = 1 THEN 1 ELSE 0]
        ELSE LET above == row[i - 1]
             IN  [j \in 1 .. MAX_N |-> IF j = 1 THEN i ELSE above[j - 1] + above[j]]
  IN  row
Combination(n, r) == anCombination[n][r]

(* With ones bits to come below bit size, from the highest on; of fewer bits *)
(* than ones (n < r), which no row has, the functions are as of as many.     *)
PositionF(bits, size, ones) ==
  LET f[n \in 0 .. size] ==
        [r \in 0 .. ones |->
           IF n <= r \/ r = 0 THEN 0
           ELSE IF n - 1 \in bits THEN Combination(n - 1, r) + f[n - 1][r - 1] ELSE f[n - 1][r]]
  IN  f[size][ones]

PositionInv(id, size, ones) ==
  LET f[n \in 0 .. size] ==
        [r \in 0 .. ones |-> [i \in 0 .. id |->
           IF r = 0 THEN {}
           ELSE IF n <= r THEN 0 .. n - 1
           ELSE LET nC == Combination(n - 1, r)
                IN  IF i >= nC THEN {n - 1} \cup f[n - 1][r - 1][i - nC] ELSE f[n - 1][r][i]]]
  IN  f[size][ones][id]

(* The bit that closes point i: the men and the gaps of the points above it. *)
GapBits(side, nPoints) ==
  LET above[i \in 0 .. nPoints] == IF i = nPoints THEN 0 ELSE above[i + 1] + side[i] + 1
  IN  {above[i] - 1 : i \in 0 .. nPoints - 1}

PositionBearoff(side, nPoints, nChequers) ==
  PositionF(GapBits(side, nPoints), nChequers + nPoints, nPoints)

(* The men of a point are the zeros between its bit and the one below it.    *)
PositionFromBearoff(id, nPoints, nChequers) ==
  LET size == nChequers + nPoints
      bits == PositionInv(id, size, nPoints)
      Below(z) == Cardinality({b \in bits : b < z})
  IN  [j \in 0 .. nPoints - 1 |->
         Cardinality({z \in (0 .. size - 1) \ bits : Below(z) = nPoints - 1 - j})]
=============================================================================
