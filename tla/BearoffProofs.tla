---------------------------- MODULE BearoffProofs ----------------------------
(* Proofs about the bear-off databases: a thread that reads a finished one    *)
(* gets the record of its position; and while one is made, the hash table and *)
(* the file written so far give no lookup the record of another position.     *)
(*                                                                            *)
(* The first part is about the numbers of positions: Combination is a table,  *)
(* Pascal's triangle, filled row by row, so that a database has positions at  *)
(* all, and the number of each gives it back (NumbersGiveBack); CalcPosition  *)
(* numbers the square of two-sided positions by diagonals: one number each    *)
(* (CalcInjective), a larger one for a larger sum (CalcOrder), and the next   *)
(* one for the next step of the loops.                                        *)
(*                                                                            *)
(* MakingInv says that what has been written is what the loops have come to,  *)
(* each record in its place: where a record is an index, it Holds if the      *)
(* elements it points at are those of its position.  ReadInv adds what a      *)
(* thread that reads relies on: as long as no read has failed, only the one   *)
(* that holds the lock is between its seek and its read (Exclusive), and what *)
(* it asks for and has got is of its own position (Served).  LookupInv adds   *)
(* that an element of the hash table is the record that its key is the number *)
(* of, and that the positions still to be looked up have been written.  For   *)
(* the last, moves must lead to smaller numbers (ComparedDown): the ones of a *)
(* row come lower when a man is moved down, such a row has a smaller number,  *)
(* every move of the rules moves men down, four deep, and so do the heuristic *)
(* ones, which find a man to move.                                            *)
EXTENDS BearoffRead, Numbers

-----------------------------------------------------------------------------
(* Pascal's triangle.                                                        *)
Row == [1..MAX_N -> Nat]
PascalRow(i, row) ==
  /\ row \in Row /\ row[1] = i /\ row[i] = 1
  /\ \A j \in 1..MAX_N : j > i => row[j] = 0
  /\ \A j \in 1..(i - 1) : row[j] >= 2 /\ row[i - j] = row[j]

LEMMA PascalFirst == PascalRow(1, [j \in 1..MAX_N |-> IF j = 1 THEN 1 ELSE 0])
BY DEF PascalRow, Row, MAX_N

LEMMA PascalNext ==
  ASSUME NEW i \in 1..(MAX_N - 1), NEW above, PascalRow(i, above)
  PROVE  PascalRow(i + 1, [j \in 1..MAX_N |-> IF j = 1 THEN i + 1 ELSE above[j - 1] + above[j]])
<1> DEFINE row == [j \in 1..MAX_N |-> IF j = 1 THEN i + 1 ELSE above[j - 1] + above[j]]
<1>1. above \in [1..MAX_N -> Nat] /\ above[1] = i /\ above[i] = 1 BY DEF PascalRow, Row
<1>2. \A j \in 1..MAX_N : j > i => above[j] = 0 BY DEF PascalRow
<1>3. \A j \in 1..(i - 1) : above[j] >= 2 /\ above[i - j] = above[j] BY DEF PascalRow
<1>4. \A j \in 1..MAX_N : row[j] = IF j = 1 THEN i + 1 ELSE above[j - 1] + above[j] OBVIOUS
<1>5. row \in Row
  <2>1. ASSUME NEW j \in 1..MAX_N, j # 1 PROVE above[j - 1] + above[j] \in Nat
    <3>1. j - 1 \in 1..MAX_N BY <2>1 DEF MAX_N
    <3> QED BY <1>1, <3>1
  <2> QED BY <2>1 DEF Row
<1> HIDE DEF row
<1>6. row[1] = i + 1 BY <1>4 DEF MAX_N
<1>7. row[i + 1] = 1
  <2>1. i + 1 \in 1..MAX_N /\ i + 1 > i /\ i + 1 # 1 /\ (i + 1) - 1 = i BY DEF MAX_N
  <2>2. row[i + 1] = above[i] + above[i + 1] BY <1>4, <2>1
  <2>3. above[i + 1] = 0 BY <1>2, <2>1
  <2> QED BY <1>1, <2>2, <2>3
<1>8. ASSUME NEW j \in 1..MAX_N, j > i + 1 PROVE row[j] = 0
  <2>1. j - 1 \in 1..MAX_N /\ j - 1 > i BY <1>8 DEF MAX_N
  <2>2. above[j - 1] = 0 /\ above[j] = 0 BY <1>2, <1>8, <2>1
  <2> QED BY <1>4, <1>8, <2>2
<1>9. ASSUME NEW j \in 1..i PROVE row[j] >= 2 /\ row[i + 1 - j] = row[j]
  <2>1. i + 1 \in 1..MAX_N /\ j \in 1..MAX_N /\ i + 1 - j \in 1..MAX_N BY DEF MAX_N
  <2>2. CASE j = 1
    <3>1. CASE i = 1 BY <1>6, <2>2, <3>1
    <3>2. CASE i > 1
      <4>1. row[i] = above[i - 1] + above[i] BY <1>4, <2>1, <2>2, <3>2
      <4>2. above[i - 1] = above[1]
        <5>1. 1 \in 1..(i - 1) BY <3>2
        <5> QED BY <1>3, <5>1
      <4> QED BY <1>1, <1>6, <2>2, <3>2, <4>1, <4>2
    <3> QED BY <3>1, <3>2
  <2>3. CASE j = i /\ j # 1
    <3>1. row[i] = above[i - 1] + above[i] BY <1>4, <2>1, <2>3
    <3>2. above[i - 1] = above[1]
      <4>1. 1 \in 1..(i - 1) BY <2>3
      <4> QED BY <1>3, <4>1
    <3> QED BY <1>1, <1>6, <2>3, <3>1, <3>2
  <2>4. CASE j # 1 /\ j # i
    <3>1. row[j] = above[j - 1] + above[j] /\ row[i + 1 - j] = above[i - j] + above[i + 1 - j]
      <4>1. i + 1 - j # 1 /\ (i + 1 - j) - 1 = i - j BY <2>4
      <4> QED BY <1>4, <2>1, <2>4, <4>1
    <3>2. above[j] >= 2 /\ above[i - j] = above[j]
      <4>1. j \in 1..(i - 1) BY <2>4
      <4> QED BY <1>3, <4>1
    <3>3. above[j - 1] >= 2 /\ above[i + 1 - j] = above[j - 1]
      <4>1. j - 1 \in 1..(i - 1) /\ i - (j - 1) = i + 1 - j BY <2>4
      <4> QED BY <1>3, <4>1
    <3>4. above[j] \in Nat /\ above[j - 1] \in Nat
      <4>1. j - 1 \in 1..MAX_N BY <2>4, <2>1 DEF MAX_N
      <4> QED BY <1>1, <2>1, <4>1
    <3> QED BY <3>1, <3>2, <3>3, <3>4
  <2> QED BY <2>2, <2>3, <2>4
<1>10. PascalRow(i + 1, row)
  <2>1. \A j \in 1..(i + 1 - 1) : row[j] >= 2 /\ row[i + 1 - j] = row[j] BY <1>9
  <2> QED BY <1>5, <1>6, <1>7, <1>8, <2>1 DEF PascalRow
<1> QED BY <1>10 DEF row

LEMMA PascalTable ==
  /\ anCombination[1] = [j \in 1..MAX_N |-> IF j = 1 THEN 1 ELSE 0]
  /\ \A i \in 1..(MAX_N - 1) :
        anCombination[i + 1] = [j \in 1..MAX_N |-> IF j = 1 THEN i + 1
                                                   ELSE anCombination[i][j - 1] + anCombination[i][j]]
<1> DEFINE first == [j \in 1..MAX_N |-> IF j = 1 THEN 1 ELSE 0]
           Below(above) == [j \in 1..MAX_N |-> IF j = 1 THEN above[1] + 1 ELSE above[j - 1] + above[j]]
           F == [above \in Row |-> Below(above)]
           Is(f) == f = [i \in 1..MAX_N |->
                           IF i = 1 THEN [j \in 1..MAX_N |-> IF j = 1 THEN 1 ELSE 0]
                           ELSE LET above == f[i - 1]
                                IN  [j \in 1..MAX_N |-> IF j = 1 THEN i ELSE above[j - 1] + above[j]]]
<1>1. first \in Row BY DEF Row
<1>2. F \in [Row -> Row]
  <2>1. ASSUME NEW above \in Row PROVE Below(above) \in Row
    <3>1. ASSUME NEW j \in 1..MAX_N, j # 1 PROVE above[j - 1] + above[j] \in Nat
      <4>1. j - 1 \in 1..MAX_N BY <3>1 DEF MAX_N
      <4> QED BY <4>1 DEF Row
    <3>2. above[1] + 1 \in Nat BY DEF Row, MAX_N
    <3> QED BY <3>1, <3>2 DEF Row
  <2> HIDE DEF Below
  <2> QED BY <2>1
<1>3. PICK g \in [Nat -> Row] : \A n \in Nat : Follows(g, first, F, n)
  <2> HIDE DEF F, first
  <2> QED BY <1>1, <1>2, Sequence
<1>4. g[0] = first /\ \A n \in Nat : g[n + 1] = Below(g[n])
  <2>1. g[0] = first
    <3> HIDE DEF F, first
    <3> QED BY <1>3 DEF Follows
  <2>2. ASSUME NEW n \in Nat PROVE g[n + 1] = Below(g[n])
    <3>1. g[n + 1] = F[g[n]]
      <4> HIDE DEF F, first
      <4>1. n + 1 \in Nat /\ n + 1 # 0 /\ (n + 1) - 1 = n OBVIOUS
      <4> QED BY <1>3, <4>1 DEF Follows
    <3> HIDE DEF Below
    <3> QED BY <3>1
  <2> HIDE DEF Below, first
  <2> QED BY <2>1, <2>2
<1>5. \A n \in 0..(MAX_N - 1) : PascalRow(n + 1, g[n])
  <2> DEFINE Bad == {n \in Nat : n <= MAX_N - 1 /\ ~PascalRow(n + 1, g[n])}
  <2>1. SUFFICES ASSUME Bad # {} PROVE FALSE BY DEF MAX_N
  <2>2. PICK m \in Bad : \A k \in Bad : m <= k
    <3> HIDE DEF Bad
    <3>1. Bad \in SUBSET Nat BY DEF Bad
    <3> QED BY <2>1, <3>1, LeastNumber
  <2>3. m \in Nat /\ m <= MAX_N - 1 /\ ~PascalRow(m + 1, g[m]) OBVIOUS
  <2>4. m # 0
    <3>1. PascalRow(1, first) BY PascalFirst
    <3> HIDE DEF first
    <3> QED BY <1>4, <2>3, <3>1
  <2>5. m - 1 \in Nat /\ m - 1 \notin Bad
    <3> HIDE DEF Bad
    <3> QED BY <2>2, <2>3, <2>4
  <2>6. PascalRow(m, g[m - 1])
    <3> HIDE DEF first, Below
    <3>1. m - 1 <= MAX_N - 1 /\ (m - 1) + 1 = m BY <2>3, <2>4 DEF MAX_N
    <3> QED BY <2>5, <3>1
  <2>7. PascalRow(m + 1, [j \in 1..MAX_N |-> IF j = 1 THEN m + 1 ELSE g[m - 1][j - 1] + g[m - 1][j]])
    <3>1. m \in 1..(MAX_N - 1) BY <2>3, <2>4 DEF MAX_N
    <3> QED BY <2>6, <3>1, PascalNext
  <2>8. g[m] = Below(g[m - 1])
    <3> HIDE DEF Below
    <3>1. (m - 1) + 1 = m BY <2>3
    <3> QED BY <1>4, <2>5, <3>1
  <2>9. g[m - 1][1] = m BY <2>6 DEF PascalRow
  <2>10. g[m] = [j \in 1..MAX_N |-> IF j = 1 THEN m + 1 ELSE g[m - 1][j - 1] + g[m - 1][j]]
    BY <2>8, <2>9
  <2> QED BY <2>3, <2>7, <2>10
<1> DEFINE f == [i \in 1..MAX_N |-> g[i - 1]]
<1>6. Is(f)
  <2>1. ASSUME NEW i \in 1..MAX_N
        PROVE  g[i - 1] = IF i = 1 THEN [j \in 1..MAX_N |-> IF j = 1 THEN 1 ELSE 0]
                          ELSE [j \in 1..MAX_N |-> IF j = 1 THEN i ELSE f[i - 1][j - 1] + f[i - 1][j]]
    <3>1. CASE i = 1 BY <1>4, <3>1
    <3>2. CASE i # 1
      <4>1. i - 2 \in Nat /\ i - 2 \in 0..(MAX_N - 1) /\ (i - 2) + 1 = i - 1 /\ i - 1 \in 1..MAX_N
        BY <3>2 DEF MAX_N
      <4>2. g[i - 1] = Below(g[i - 2])
        <5> HIDE DEF Below
        <5> QED BY <1>4, <4>1
      <4>3. PascalRow(i - 1, g[i - 2])
        <5> HIDE DEF first, Below
        <5> QED BY <1>5, <4>1
      <4>4. g[i - 2][1] = i - 1 BY <4>3 DEF PascalRow
      <4>5. f[i - 1] = g[i - 2]
        <5>1. (i - 1) - 1 = i - 2 OBVIOUS
        <5> QED BY <4>1, <5>1
      <4> HIDE DEF f
      <4>6. g[i - 2][1] + 1 = i BY <4>4
      <4>7. g[i - 1] = [j \in 1..MAX_N |-> IF j = 1 THEN i ELSE g[i - 2][j - 1] + g[i - 2][j]]
        BY <4>2, <4>6
      <4> QED BY <3>2, <4>5, <4>7
    <3> QED BY <3>1, <3>2
  <2>2. f = [i \in 1..MAX_N |-> IF i = 1 THEN [j \in 1..MAX_N |-> IF j = 1 THEN 1 ELSE 0]
                                ELSE [j \in 1..MAX_N |-> IF j = 1 THEN i ELSE f[i - 1][j - 1] + f[i - 1][j]]]
    <3> DEFINE R(i) == IF i = 1 THEN [j \in 1..MAX_N |-> IF j = 1 THEN 1 ELSE 0]
                       ELSE [j \in 1..MAX_N |-> IF j = 1 THEN i ELSE f[i - 1][j - 1] + f[i - 1][j]]
    <3>1. \A i \in 1..MAX_N : g[i - 1] = R(i) BY <2>1
    <3> HIDE DEF R
    <3>2. f = [i \in 1..MAX_N |-> R(i)] BY <3>1
    <3> QED BY <3>2 DEF R
  <2> HIDE DEF f
  <2> QED BY <2>2
<1>7. anCombination = CHOOSE h : Is(h) BY DEF anCombination
<1> HIDE DEF Is
<1>8. Is(anCombination) BY <1>6, <1>7
<1> HIDE DEF f
<1>9. PICK c : c = anCombination OBVIOUS
<1>10. Is(c) BY <1>8, <1>9
<1>11. c = [i \in 1..MAX_N |->
              IF i = 1 THEN [j \in 1..MAX_N |-> IF j = 1 THEN 1 ELSE 0]
              ELSE [j \in 1..MAX_N |-> IF j = 1 THEN i ELSE c[i - 1][j - 1] + c[i - 1][j]]]
  BY <1>10 DEF Is
<1>12. c[1] = first BY <1>11, SMTT(30) DEF MAX_N
<1>13. ASSUME NEW i \in 1..(MAX_N - 1)
       PROVE  c[i + 1] = [j \in 1..MAX_N |-> IF j = 1 THEN i + 1 ELSE c[i][j - 1] + c[i][j]]
  <2>1. i + 1 \in 1..MAX_N /\ i + 1 # 1 /\ (i + 1) - 1 = i BY DEF MAX_N
  <2> QED BY <1>11, <2>1
<1>14. c[1] = [j \in 1..MAX_N |-> IF j = 1 THEN 1 ELSE 0] BY <1>12
<1> QED BY <1>9, <1>13, <1>14

LEMMA PascalRows == \A i \in 1..MAX_N : PascalRow(i, anCombination[i])
<1>1. PICK c : c = anCombination OBVIOUS
<1>2. c[1] = [j \in 1..MAX_N |-> IF j = 1 THEN 1 ELSE 0] BY <1>1, PascalTable
<1>3. ASSUME NEW i \in 1..(MAX_N - 1)
      PROVE  c[i + 1] = [j \in 1..MAX_N |-> IF j = 1 THEN i + 1 ELSE c[i][j - 1] + c[i][j]]
  BY <1>1, PascalTable
<1>4. \A i \in 1..MAX_N : PascalRow(i, c[i])
  <2> DEFINE Bad == {n \in Nat : n \in 1..MAX_N /\ ~PascalRow(n, c[n])}
  <2>1. SUFFICES ASSUME Bad # {} PROVE FALSE BY DEF MAX_N
  <2>2. PICK m \in Bad : \A k \in Bad : m <= k
    <3> HIDE DEF Bad
    <3>1. Bad \in SUBSET Nat BY DEF Bad
    <3> QED BY <2>1, <3>1, LeastNumber
  <2>3. m \in 1..MAX_N /\ ~PascalRow(m, c[m]) OBVIOUS
  <2>4. m # 1 BY <1>2, <2>3, PascalFirst
  <2>5. m - 1 \in 1..(MAX_N - 1) /\ m - 1 \in 1..MAX_N /\ m - 1 \in Nat /\ m - 1 \notin Bad /\ (m - 1) + 1 = m
    <3> HIDE DEF Bad
    <3> QED BY <2>2, <2>3, <2>4 DEF MAX_N
  <2>6. PascalRow(m - 1, c[m - 1]) BY <2>5
  <2> HIDE DEF Bad
  <2>7. ASSUME NEW i \in 1..(MAX_N - 1), PascalRow(i, c[i]) PROVE PascalRow(i + 1, c[i + 1])
    <3> DEFINE next == [j \in 1..MAX_N |-> IF j = 1 THEN i + 1 ELSE c[i][j - 1] + c[i][j]]
    <3>1. PascalRow(i + 1, next) BY <2>7, PascalNext
    <3>2. c[i + 1] = next BY <1>3
    <3> HIDE DEF next
    <3> QED BY <3>1, <3>2
  <2>8. PascalRow((m - 1) + 1, c[(m - 1) + 1]) BY <2>5, <2>6, <2>7
  <2> QED BY <2>3, <2>5, <2>8
<1> QED BY <1>1, <1>4

(* The sum of the two entries above.                                         *)
LEMMA PascalSum ==
  ASSUME NEW n \in 2..MAX_N, NEW r \in 2..MAX_N
  PROVE  Combination(n, r) = Combination(n - 1, r - 1) + Combination(n - 1, r)
<1>1. PICK c : c = anCombination OBVIOUS
<1>2. n - 1 \in 1..(MAX_N - 1) /\ (n - 1) + 1 = n BY DEF MAX_N
<1>3. c[(n - 1) + 1] = [j \in 1..MAX_N |-> IF j = 1 THEN (n - 1) + 1 ELSE c[n - 1][j - 1] + c[n - 1][j]]
  BY <1>1, <1>2, PascalTable
<1>4. r \in 1..MAX_N /\ r # 1 BY DEF MAX_N
<1>5. c[n][r] = c[n - 1][r - 1] + c[n - 1][r] BY <1>2, <1>3, <1>4
<1> QED BY <1>1, <1>5 DEF Combination

(* Choosing the men or choosing the points makes as many positions.          *)
LEMMA Combinations ==
  ASSUME NEW a \in Nat \ {0}, NEW b \in Nat \ {0}, a + b <= MAX_N
  PROVE  /\ Combination(a + b, a) \in Nat /\ Combination(a + b, a) >= 2
         /\ Combination(a + b, b) = Combination(a + b, a)
<1>1. a + b \in 1..MAX_N /\ a \in 1..(a + b - 1) /\ a + b - a = b /\ a \in 1..MAX_N BY DEF MAX_N
<1>2. PascalRow(a + b, anCombination[a + b]) BY <1>1, PascalRows
<1>3. anCombination[a + b] \in [1..MAX_N -> Nat] BY <1>2 DEF PascalRow, Row
<1>4. anCombination[a + b][a] >= 2 /\ anCombination[a + b][a + b - a] = anCombination[a + b][a]
  BY <1>1, <1>2 DEF PascalRow
<1> QED BY <1>1, <1>3, <1>4 DEF Combination

-----------------------------------------------------------------------------
(* The numbers of one-sided positions: PositionInv chooses bits for a number *)
(* as PositionF adds up combinations for bits, and the board with the men of *)
(* the zeros between them has those bits for its row.                        *)

(* Rows that are defined each by its number and the one before it.           *)
RowsOf(g, a, F) == g[0] = a /\ \A n \in Nat : g[n + 1] = F[n + 1][g[n]]

LEMMA Rows ==
  ASSUME NEW S, NEW a \in S, NEW F \in [Nat -> [S -> S]]
  PROVE  \E g \in [Nat -> S] : RowsOf(g, a, F)
<1> DEFINE P == Nat \X S
           G == [p \in P |-> <<p[1] + 1, F[p[1] + 1][p[2]]>>]
<1>1. <<0, a>> \in P OBVIOUS
<1>2. G \in [P -> P]
  <2>1. ASSUME NEW p \in P PROVE <<p[1] + 1, F[p[1] + 1][p[2]]>> \in P
    <3>1. p[1] \in Nat /\ p[2] \in S OBVIOUS
    <3>2. p[1] + 1 \in Nat /\ F[p[1] + 1] \in [S -> S] BY <3>1
    <3> QED BY <3>1, <3>2
  <2> HIDE DEF P
  <2> QED BY <2>1
<1>3. PICK f \in [Nat -> P] : \A n \in Nat : Follows(f, <<0, a>>, G, n)
  <2> HIDE DEF G, P
  <2> QED BY <1>1, <1>2, Sequence
<1>4. f[0] = <<0, a>>
  <2> HIDE DEF G, P
  <2>1. Follows(f, <<0, a>>, G, 0) BY <1>3
  <2> QED BY <2>1 DEF Follows
<1>5. ASSUME NEW n \in Nat PROVE f[n + 1] = <<f[n][1] + 1, F[f[n][1] + 1][f[n][2]]>>
  <2>1. f[n + 1] = G[f[n]]
    <3> HIDE DEF G, P
    <3>1. n + 1 \in Nat /\ n + 1 # 0 /\ (n + 1) - 1 = n OBVIOUS
    <3> QED BY <1>3, <3>1 DEF Follows
  <2>2. f[n] \in P BY <1>3
  <2> HIDE DEF P
  <2> QED BY <2>1, <2>2
<1>6. \A n \in Nat : f[n][1] = n
  <2> DEFINE Bad == {n \in Nat : f[n][1] # n}
  <2> SUFFICES ASSUME Bad # {} PROVE FALSE OBVIOUS
  <2>1. PICK m \in Bad : \A k \in Bad : m <= k
    <3> HIDE DEF Bad
    <3>1. Bad \in SUBSET Nat BY DEF Bad
    <3> QED BY <3>1, LeastNumber
  <2>2. m \in Nat /\ f[m][1] # m OBVIOUS
  <2>3. m # 0 BY <1>4, <2>2
  <2>4. m - 1 \in Nat /\ m - 1 \notin Bad
    <3> HIDE DEF Bad
    <3> QED BY <2>1, <2>2, <2>3
  <2>5. f[m - 1][1] = m - 1 BY <2>4
  <2>6. f[(m - 1) + 1] = <<f[m - 1][1] + 1, F[(m - 1) + 1][f[m - 1][2]]>> BY <1>5, <2>4
  <2>7. (m - 1) + 1 = m BY <2>2
  <2>8. f[m][1] = f[m - 1][1] + 1 BY <2>6, <2>7
  <2> QED BY <2>2, <2>5, <2>7, <2>8
<1> DEFINE g == [n \in Nat |-> f[n][2]]
<1>7. g \in [Nat -> S] BY <1>3
<1>8. g[0] = a BY <1>4
<1>9. ASSUME NEW n \in Nat PROVE g[n + 1] = F[n + 1][g[n]]
  <2>1. f[n + 1][2] = F[n + 1][f[n][2]] BY <1>5, <1>6
  <2> QED BY <2>1
<1> HIDE DEF g
<1> QED BY <1>7, <1>8, <1>9 DEF RowsOf

(* What PositionF and PositionInv compute, row by row.                       *)
Numbering(f, bits, size, ones) ==
  \A n \in 0..size : \A r \in 0..ones :
     f[n][r] = IF n <= r \/ r = 0 THEN 0
               ELSE IF n - 1 \in bits THEN Combination(n - 1, r) + f[n - 1][r - 1] ELSE f[n - 1][r]
Choosing(f, id, size, ones) ==
  \A n \in 0..size : \A r \in 0..ones : \A i \in 0..id :
     f[n][r][i] = IF r = 0 THEN {}
                  ELSE IF n <= r THEN 0..(n - 1)
                  ELSE IF i >= Combination(n - 1, r)
                    THEN {n - 1} \cup f[n - 1][r - 1][i - Combination(n - 1, r)]
                  ELSE f[n - 1][r][i]

LEMMA CombinationType ==
  ASSUME NEW n \in 1..MAX_N, NEW r \in 1..MAX_N
  PROVE  Combination(n, r) \in Nat
<1>1. PascalRow(n, anCombination[n]) BY PascalRows
<1> QED BY <1>1 DEF PascalRow, Row, Combination

LEMMA PositionFIs ==
  ASSUME NEW bits, NEW size \in 0..MAX_N, NEW ones \in 0..MAX_N
  PROVE  \E f : Numbering(f, bits, size, ones) /\ PositionF(bits, size, ones) = f[size][ones]
<1> DEFINE S == [0..ones -> Nat]
           Value(n, row, r) == IF n <= r \/ r = 0 THEN 0
                               ELSE IF n - 1 \in bits THEN Combination(n - 1, r) + row[r - 1] ELSE row[r]
           Next1(n, row) == [r \in 0..ones |-> IF n > size THEN 0 ELSE Value(n, row, r)]
           F == [n \in Nat |-> [row \in S |-> Next1(n, row)]]
           zero == [r \in 0..ones |-> 0]
<1>1. zero \in S OBVIOUS
<1>2. ASSUME NEW n \in Nat, NEW row \in S PROVE Next1(n, row) \in S
  <2>1. ASSUME NEW r \in 0..ones, n <= size PROVE Value(n, row, r) \in Nat
    <3>1. CASE n <= r \/ r = 0 BY <3>1
    <3>2. CASE ~(n <= r \/ r = 0)
      <4>1. n - 1 \in 1..MAX_N /\ r \in 1..MAX_N /\ r - 1 \in 0..ones BY <2>1, <3>2 DEF MAX_N
      <4>2. Combination(n - 1, r) \in Nat BY <4>1, CombinationType
      <4>3. row[r] \in Nat /\ row[r - 1] \in Nat BY <4>1
      <4> QED BY <3>2, <4>2, <4>3
    <3> QED BY <3>1, <3>2
  <2> HIDE DEF Value
  <2> QED BY <2>1
<1>3. F \in [Nat -> [S -> S]]
  <2> HIDE DEF S, Next1
  <2> QED BY <1>2
<1>4. PICK g \in [Nat -> S] : RowsOf(g, zero, F)
  <2> HIDE DEF F, S, zero
  <2> QED BY <1>1, <1>3, Rows
<1>5. ASSUME NEW n \in 1..size PROVE g[n] = Next1(n, g[n - 1])
  <2>1. n - 1 \in Nat /\ (n - 1) + 1 = n OBVIOUS
  <2>2. g[n] = F[n][g[n - 1]]
    <3> HIDE DEF F, S, zero
    <3> QED BY <1>4, <2>1 DEF RowsOf
  <2>3. n \in Nat /\ g[n - 1] \in S
    <3> HIDE DEF F, S, zero
    <3> QED BY <2>1
  <2> HIDE DEF Next1, S
  <2> QED BY <2>2, <2>3
<1>6. ASSUME NEW n \in 0..size, NEW r \in 0..ones PROVE g[n][r] = Value(n, g[n - 1], r)
  <2>1. CASE n = 0
    <3>1. g[0] = zero
      <4> HIDE DEF F, S, zero
      <4> QED BY <1>4 DEF RowsOf
    <3> QED BY <2>1, <3>1
  <2>2. CASE n # 0
    <3>1. n \in 1..size /\ ~(n > size) BY <2>2
    <3>2. g[n] = Next1(n, g[n - 1]) BY <1>5, <3>1
    <3> HIDE DEF Value
    <3> QED BY <3>1, <3>2
  <2> QED BY <2>1, <2>2
<1> DEFINE Def(f) == f = [n \in 0..size |-> [r \in 0..ones |->
             IF n <= r \/ r = 0 THEN 0
             ELSE IF n - 1 \in bits THEN Combination(n - 1, r) + f[n - 1][r - 1] ELSE f[n - 1][r]]]
           f == [n \in 0..size |-> [r \in 0..ones |-> g[n][r]]]
<1>7. Def(f)
  <2> DEFINE R(n, r) == IF n <= r \/ r = 0 THEN 0
                        ELSE IF n - 1 \in bits THEN Combination(n - 1, r) + f[n - 1][r - 1] ELSE f[n - 1][r]
  <2>1. ASSUME NEW n \in 0..size, NEW r \in 0..ones PROVE g[n][r] = R(n, r)
    <3> HIDE DEF S, F, zero
    <3>1. CASE n <= r \/ r = 0 BY <1>6, <3>1
    <3>2. CASE ~(n <= r \/ r = 0)
      <4>1. n - 1 \in 0..size /\ r - 1 \in 0..ones BY <3>2
      <4>2. f[n - 1][r] = g[n - 1][r] /\ f[n - 1][r - 1] = g[n - 1][r - 1] BY <4>1
      <4> HIDE DEF f
      <4> QED BY <1>6, <3>2, <4>2
    <3> QED BY <3>1, <3>2
  <2> HIDE DEF R
  <2>2. f = [n \in 0..size |-> [r \in 0..ones |-> R(n, r)]] BY <2>1
  <2> HIDE DEF f
  <2> QED BY <2>2 DEF R
<1> HIDE DEF f
<1> DEFINE h == CHOOSE h : Def(h)
<1>8. Def(h) BY <1>7
<1>9. PositionF(bits, size, ones) = h[size][ones] BY DEF PositionF
<1> HIDE DEF h
<1>10. Numbering(h, bits, size, ones) BY <1>8 DEF Numbering
<1> QED BY <1>9, <1>10

LEMMA PositionInvIs ==
  ASSUME NEW id \in Nat, NEW size \in 0..MAX_N, NEW ones \in 0..MAX_N
  PROVE  \E f : Choosing(f, id, size, ones) /\ PositionInv(id, size, ones) = f[size][ones][id]
<1> DEFINE S == [0..ones -> [0..id -> SUBSET Int]]
           Value(n, row, r, i) ==
             IF r = 0 THEN {}
             ELSE IF n <= r THEN 0..(n - 1)
             ELSE IF i >= Combination(n - 1, r)
               THEN {n - 1} \cup row[r - 1][i - Combination(n - 1, r)]
             ELSE row[r][i]
           Next1(n, row) == [r \in 0..ones |-> [i \in 0..id |-> IF n > size THEN {} ELSE Value(n, row, r, i)]]
           F == [n \in Nat |-> [row \in S |-> Next1(n, row)]]
           zero == [r \in 0..ones |-> [i \in 0..id |-> IF r = 0 THEN {} ELSE 0..(0 - 1)]]
<1>1. zero \in S OBVIOUS
<1>2. ASSUME NEW n \in Nat, NEW row \in S PROVE Next1(n, row) \in S
  <2>1. ASSUME NEW r \in 0..ones, NEW i \in 0..id, n <= size PROVE Value(n, row, r, i) \in SUBSET Int
    <3>1. CASE n <= r \/ r = 0 BY <3>1
    <3>2. CASE ~(n <= r \/ r = 0)
      <4>1. n - 1 \in 1..MAX_N /\ r \in 1..MAX_N /\ r - 1 \in 0..ones BY <2>1, <3>2 DEF MAX_N
      <4>2. PICK c \in Nat : c = Combination(n - 1, r) BY <4>1, CombinationType
      <4>3. row[r][i] \in SUBSET Int
        <5>1. row[r] \in [0..id -> SUBSET Int] OBVIOUS
        <5> QED BY <5>1
      <4>4. CASE i >= c
        <5>1. i - c \in 0..id BY <4>4
        <5>2. row[r - 1] \in [0..id -> SUBSET Int] BY <4>1
        <5>3. row[r - 1][i - c] \in SUBSET Int BY <5>1, <5>2
        <5> QED BY <3>2, <4>2, <4>4, <5>3
      <4>5. CASE ~(i >= c) BY <3>2, <4>2, <4>3, <4>5
      <4> QED BY <4>4, <4>5
    <3> QED BY <3>1, <3>2
  <2> HIDE DEF Value
  <2> QED BY <2>1
<1>3. F \in [Nat -> [S -> S]]
  <2> HIDE DEF S, Next1
  <2> QED BY <1>2
<1>4. PICK g \in [Nat -> S] : RowsOf(g, zero, F)
  <2> HIDE DEF F, S, zero
  <2> QED BY <1>1, <1>3, Rows
<1>5. ASSUME NEW n \in 1..size PROVE g[n] = Next1(n, g[n - 1])
  <2>1. n - 1 \in Nat /\ (n - 1) + 1 = n OBVIOUS
  <2>2. g[n] = F[n][g[n - 1]]
    <3> HIDE DEF F, S, zero
    <3> QED BY <1>4, <2>1 DEF RowsOf
  <2>3. n \in Nat /\ g[n - 1] \in S
    <3> HIDE DEF F, S, zero
    <3> QED BY <2>1
  <2> HIDE DEF Next1, S
  <2> QED BY <2>2, <2>3
<1>6. ASSUME NEW n \in 0..size, NEW r \in 0..ones, NEW i \in 0..id
      PROVE  g[n][r][i] = Value(n, g[n - 1], r, i)
  <2>1. CASE n = 0
    <3>1. n <= r BY <2>1
    <3>2. Value(n, g[n - 1], r, i) = IF r = 0 THEN {} ELSE 0..(0 - 1) BY <2>1, <3>1
    <3>3. g[0] = zero
      <4> HIDE DEF F, S, zero
      <4> QED BY <1>4 DEF RowsOf
    <3>4. g[0][r][i] = IF r = 0 THEN {} ELSE 0..(0 - 1) BY <3>3
    <3> QED BY <2>1, <3>2, <3>4
  <2>2. CASE n # 0
    <3>1. n \in 1..size /\ ~(n > size) BY <2>2
    <3>2. g[n] = Next1(n, g[n - 1]) BY <1>5, <3>1
    <3> HIDE DEF Value
    <3> QED BY <3>1, <3>2
  <2> QED BY <2>1, <2>2
<1> DEFINE Def(f) == f = [n \in 0..size |-> [r \in 0..ones |-> [i \in 0..id |->
             IF r = 0 THEN {}
             ELSE IF n <= r THEN 0..(n - 1)
             ELSE LET nC == Combination(n - 1, r)
                  IN  IF i >= nC THEN {n - 1} \cup f[n - 1][r - 1][i - nC] ELSE f[n - 1][r][i]]]]
           f == [n \in 0..size |-> [r \in 0..ones |-> [i \in 0..id |-> g[n][r][i]]]]
<1>7. Def(f)
  <2> DEFINE R(n, r, i) == IF r = 0 THEN {}
                           ELSE IF n <= r THEN 0..(n - 1)
                           ELSE LET nC == Combination(n - 1, r)
                                IN  IF i >= nC THEN {n - 1} \cup f[n - 1][r - 1][i - nC] ELSE f[n - 1][r][i]
  <2>1. ASSUME NEW n \in 0..size, NEW r \in 0..ones, NEW i \in 0..id PROVE g[n][r][i] = R(n, r, i)
    <3> HIDE DEF S, F, zero
    <3>1. CASE n <= r \/ r = 0
      <4> HIDE DEF f
      <4> QED BY <1>6, <3>1
    <3>2. CASE ~(n <= r \/ r = 0)
      <4>1. n - 1 \in 0..size /\ r - 1 \in 0..ones /\ n - 1 \in 1..MAX_N /\ r \in 1..MAX_N BY <3>2 DEF MAX_N
      <4>2. PICK c \in Nat : c = Combination(n - 1, r) BY <4>1, CombinationType
      <4>3. f[n - 1][r][i] = g[n - 1][r][i] BY <4>1
      <4>4. i >= c => f[n - 1][r - 1][i - c] = g[n - 1][r - 1][i - c]
        <5> SUFFICES ASSUME i >= c PROVE f[n - 1][r - 1][i - c] = g[n - 1][r - 1][i - c] OBVIOUS
        <5>1. i - c \in 0..id OBVIOUS
        <5> QED BY <4>1, <5>1
      <4> HIDE DEF f
      <4>5. g[n][r][i] = Value(n, g[n - 1], r, i) BY <1>6
      <4> QED BY <3>2, <4>2, <4>3, <4>4, <4>5
    <3> QED BY <3>1, <3>2
  <2> HIDE DEF R
  <2>2. f = [n \in 0..size |-> [r \in 0..ones |-> [i \in 0..id |-> R(n, r, i)]]] BY <2>1
  <2> HIDE DEF f
  <2> QED BY <2>2 DEF R
<1> HIDE DEF f
<1> DEFINE h == CHOOSE h : Def(h)
<1>8. Def(h) BY <1>7
<1>9. PositionInv(id, size, ones) = h[size][ones][id] BY DEF PositionInv
<1> HIDE DEF h
<1>10. Choosing(h, id, size, ones)
  <2> SUFFICES ASSUME NEW n \in 0..size, NEW r \in 0..ones, NEW i \in 0..id
               PROVE  h[n][r][i] = IF r = 0 THEN {}
                                   ELSE IF n <= r THEN 0..(n - 1)
                                   ELSE IF i >= Combination(n - 1, r)
                                     THEN {n - 1} \cup h[n - 1][r - 1][i - Combination(n - 1, r)]
                                   ELSE h[n - 1][r][i]
    BY DEF Choosing
  <2> DEFINE R(m, q, k) == IF q = 0 THEN {}
                           ELSE IF m <= q THEN 0..(m - 1)
                           ELSE LET nC == Combination(m - 1, q)
                                IN  IF k >= nC THEN {m - 1} \cup h[m - 1][q - 1][k - nC] ELSE h[m - 1][q][k]
  <2>1. h = [m \in 0..size |-> [q \in 0..ones |-> [k \in 0..id |-> R(m, q, k)]]] BY <1>8
  <2> HIDE DEF R
  <2>2. h[n] = [q \in 0..ones |-> [k \in 0..id |-> R(n, q, k)]] BY <2>1
  <2>3. h[n][r][i] = R(n, r, i) BY <2>2
  <2> QED BY <2>3 DEF R
<1> QED BY <1>9, <1>10

(* So many ways there are to choose r of n bits.                             *)
Ways(n, r) == IF r = 0 \/ n <= r THEN 1 ELSE Combination(n, r)

LEMMA OneColumn ==
  ASSUME NEW n \in 1..MAX_N
  PROVE  Combination(n, 1) = n /\ Combination(n, n) = 1
<1>1. PascalRow(n, anCombination[n]) BY PascalRows
<1> QED BY <1>1 DEF PascalRow, Combination

LEMMA WaysSum ==
  ASSUME NEW n \in 1..MAX_N, NEW r \in 1..MAX_N, r < n
  PROVE  /\ n - 1 \in 1..MAX_N /\ Combination(n - 1, r) = Ways(n - 1, r)
         /\ Ways(n, r) = Ways(n - 1, r - 1) + Ways(n - 1, r)
<1>1. n - 1 \in 1..MAX_N /\ n \in 2..MAX_N /\ r <= n - 1 BY DEF MAX_N
<1>2. Combination(n - 1, r) = Ways(n - 1, r)
  <2>1. CASE n - 1 <= r
    <3>1. n - 1 = r BY <1>1, <2>1
    <3> QED BY <1>1, <3>1, OneColumn DEF Ways
  <2>2. CASE ~(n - 1 <= r) BY <2>2 DEF Ways
  <2> QED BY <2>1, <2>2
<1>3. Ways(n, r) = Combination(n, r) BY DEF Ways
<1>4. CASE r = 1
  <2>1. Combination(n, 1) = n /\ Combination(n - 1, 1) = n - 1 BY <1>1, OneColumn
  <2>2. Ways(n - 1, r - 1) = 1 BY <1>4 DEF Ways
  <2> QED BY <1>1, <1>2, <1>3, <1>4, <2>1, <2>2
<1>5. CASE r # 1
  <2>1. r \in 2..MAX_N /\ r - 1 \in 1..MAX_N /\ r - 1 # 0 /\ ~(n - 1 <= r - 1) BY <1>5 DEF MAX_N
  <2>2. Ways(n - 1, r - 1) = Combination(n - 1, r - 1) BY <2>1 DEF Ways
  <2>3. Combination(n, r) = Combination(n - 1, r - 1) + Combination(n - 1, r) BY <1>1, <2>1, PascalSum
  <2> QED BY <1>1, <1>2, <1>3, <2>2, <2>3
<1> QED BY <1>4, <1>5

(* The bits that PositionInv chooses for i, and what PositionF makes of them.*)
Chosen(f, h, bits, id, n, r) ==
  \A i \in 0..id : i < Ways(n, r) =>
    /\ h[n][r][i] \subseteq 0..(n - 1) /\ Cardinality(h[n][r][i]) = r
    /\ bits \cap (0..(n - 1)) = h[n][r][i] => f[n][r] = i

LEMMA ChosenNext ==
  ASSUME NEW f, NEW h, NEW bits, NEW id \in Nat, NEW size \in 0..MAX_N, NEW ones \in 0..MAX_N,
         Numbering(f, bits, size, ones), Choosing(h, id, size, ones),
         NEW n \in 1..size, NEW r \in 1..ones, r < n,
         Chosen(f, h, bits, id, n - 1, r), Chosen(f, h, bits, id, n - 1, r - 1)
  PROVE  Chosen(f, h, bits, id, n, r)
<1> SUFFICES ASSUME NEW i \in 0..id, i < Ways(n, r)
             PROVE  /\ h[n][r][i] \subseteq 0..(n - 1) /\ Cardinality(h[n][r][i]) = r
                    /\ bits \cap (0..(n - 1)) = h[n][r][i] => f[n][r] = i
  BY DEF Chosen
<1>1. n \in 1..MAX_N /\ r \in 1..MAX_N /\ n \in 0..size /\ r \in 0..ones BY DEF MAX_N
<1>2. n - 1 \in 1..MAX_N /\ Combination(n - 1, r) = Ways(n - 1, r) BY <1>1, WaysSum
<1>3. Ways(n, r) = Ways(n - 1, r - 1) + Ways(n - 1, r) BY <1>1, WaysSum
<1>4. PICK c \in Nat : c = Combination(n - 1, r) BY <1>1, <1>2, CombinationType
<1>5. Ways(n - 1, r - 1) \in Nat
  <2>1. CASE r - 1 = 0 \/ n - 1 <= r - 1 BY <2>1 DEF Ways
  <2>2. CASE ~(r - 1 = 0 \/ n - 1 <= r - 1)
    <3>1. r - 1 \in 1..MAX_N BY <1>1, <2>2 DEF MAX_N
    <3> QED BY <1>2, <2>2, <3>1, CombinationType DEF Ways
  <2> QED BY <2>1, <2>2
<1>6. h[n][r][i] = IF i >= c THEN {n - 1} \cup h[n - 1][r - 1][i - c] ELSE h[n - 1][r][i]
  <2>1. ~(n <= r) /\ r # 0 OBVIOUS
  <2>2. h[n][r][i] = IF r = 0 THEN {}
                     ELSE IF n <= r THEN 0..(n - 1)
                     ELSE IF i >= Combination(n - 1, r)
                       THEN {n - 1} \cup h[n - 1][r - 1][i - Combination(n - 1, r)]
                     ELSE h[n - 1][r][i]
    BY <1>1 DEF Choosing
  <2> QED BY <1>4, <2>1, <2>2
<1>7. f[n][r] = IF n - 1 \in bits THEN c + f[n - 1][r - 1] ELSE f[n - 1][r]
  <2>1. ~(n <= r \/ r = 0) OBVIOUS
  <2>2. f[n][r] = IF n <= r \/ r = 0 THEN 0
                  ELSE IF n - 1 \in bits THEN Combination(n - 1, r) + f[n - 1][r - 1] ELSE f[n - 1][r]
    BY <1>1 DEF Numbering
  <2> QED BY <1>4, <2>1, <2>2
<1>8. CASE i >= c
  <2> DEFINE below == h[n - 1][r - 1][i - c]
  <2>1. i - c \in 0..id /\ i - c < Ways(n - 1, r - 1) BY <1>2, <1>3, <1>4, <1>5, <1>8
  <2>2. /\ below \subseteq 0..((n - 1) - 1) /\ Cardinality(below) = r - 1
        /\ bits \cap (0..((n - 1) - 1)) = below => f[n - 1][r - 1] = i - c
    BY <2>1 DEF Chosen
  <2>3. h[n][r][i] = {n - 1} \cup below BY <1>6, <1>8
  <2> HIDE DEF below
  <2>4. n - 1 \notin below /\ below \subseteq 0..(n - 1) /\ n - 1 \in 0..(n - 1) BY <2>2
  <2>5. Cardinality({n - 1} \cup below) = r
    <3>1. IsFiniteSet(below)
      <4>1. 0 \in Int /\ n - 1 \in Int OBVIOUS
      <4>2. IsFiniteSet(0..(n - 1)) BY <4>1, FS_Interval
      <4> QED BY <2>4, <4>2, FS_Subset
    <3>2. Cardinality(below \cup {n - 1}) = Cardinality(below) + 1 BY <2>4, <3>1, FS_AddElement
    <3>3. below \cup {n - 1} = {n - 1} \cup below OBVIOUS
    <3> QED BY <2>2, <3>2, <3>3
  <2>6. ASSUME bits \cap (0..(n - 1)) = {n - 1} \cup below PROVE f[n][r] = i
    <3>1. n - 1 \in bits BY <2>6
    <3>2. bits \cap (0..((n - 1) - 1)) = below BY <2>2, <2>4, <2>6
    <3>3. f[n - 1][r - 1] = i - c BY <2>2, <3>2
    <3> QED BY <1>7, <3>1, <3>3
  <2> QED BY <2>3, <2>4, <2>5, <2>6
<1>9. CASE ~(i >= c)
  <2>1. i < Ways(n - 1, r) BY <1>2, <1>4, <1>9
  <2>2. /\ h[n - 1][r][i] \subseteq 0..((n - 1) - 1) /\ Cardinality(h[n - 1][r][i]) = r
        /\ bits \cap (0..((n - 1) - 1)) = h[n - 1][r][i] => f[n - 1][r] = i
    BY <2>1 DEF Chosen
  <2>3. h[n][r][i] = h[n - 1][r][i] BY <1>6, <1>9
  <2>4. n - 1 \notin h[n][r][i] /\ h[n][r][i] \subseteq 0..(n - 1) /\ n - 1 \in 0..(n - 1) BY <2>2, <2>3
  <2>5. ASSUME bits \cap (0..(n - 1)) = h[n][r][i] PROVE f[n][r] = i
    <3>1. n - 1 \notin bits BY <2>4, <2>5
    <3>2. bits \cap (0..((n - 1) - 1)) = h[n - 1][r][i] BY <2>2, <2>3, <2>4, <2>5
    <3> QED BY <1>7, <2>2, <3>1, <3>2
  <2> QED BY <2>2, <2>3, <2>4, <2>5
<1> QED BY <1>8, <1>9

LEMMA ChosenAll ==
  ASSUME NEW f, NEW h, NEW bits, NEW id \in Nat, NEW size \in 0..MAX_N, NEW ones \in 0..MAX_N,
         Numbering(f, bits, size, ones), Choosing(h, id, size, ones)
  PROVE  \A n \in 0..size : \A r \in 0..ones : r <= n => Chosen(f, h, bits, id, n, r)
<1> DEFINE Row1(n) == \A r \in 0..ones : r <= n => Chosen(f, h, bits, id, n, r)
           Bad == {n \in Nat : n <= size /\ ~Row1(n)}
<1> SUFFICES ASSUME Bad # {} PROVE FALSE
  <2>1. \A n \in 0..size : n \in Nat /\ n <= size OBVIOUS
  <2> QED BY <2>1
<1>1. PICK m \in Bad : \A k \in Bad : m <= k
  <2> HIDE DEF Bad
  <2>1. Bad \in SUBSET Nat BY DEF Bad
  <2> QED BY <2>1, LeastNumber
<1>2. m \in Nat /\ m <= size /\ ~Row1(m) OBVIOUS
<1>3. PICK r \in 0..ones : r <= m /\ ~Chosen(f, h, bits, id, m, r) BY <1>2
<1>4. m \in 0..size BY <1>2
<1>5. CASE r = 0 \/ m = r
  <2>1. Ways(m, r) = 1 BY <1>5 DEF Ways
  <2>2. \A i \in 0..id : h[m][r][i] = IF r = 0 THEN {} ELSE 0..(m - 1)
    <3> SUFFICES ASSUME NEW i \in 0..id PROVE h[m][r][i] = IF r = 0 THEN {} ELSE 0..(m - 1) OBVIOUS
    <3>1. h[m][r][i] = IF r = 0 THEN {}
                       ELSE IF m <= r THEN 0..(m - 1)
                       ELSE IF i >= Combination(m - 1, r)
                         THEN {m - 1} \cup h[m - 1][r - 1][i - Combination(m - 1, r)]
                       ELSE h[m - 1][r][i]
      <4> HIDE DEF Bad, Row1
      <4>1. \A n \in 0..size : \A q \in 0..ones : \A k \in 0..id :
              h[n][q][k] = IF q = 0 THEN {}
                           ELSE IF n <= q THEN 0..(n - 1)
                           ELSE IF k >= Combination(n - 1, q)
                             THEN {n - 1} \cup h[n - 1][q - 1][k - Combination(n - 1, q)]
                           ELSE h[n - 1][q][k]
        BY DEF Choosing
      <4> QED BY <1>4, <4>1, ZenonT(30)
    <3>2. r # 0 => m <= r BY <1>3, <1>5
    <3> QED BY <3>1, <3>2
  <2>3. f[m][r] = 0 BY <1>3, <1>4, <1>5 DEF Numbering
  <2>4. Cardinality({}) = 0 BY FS_EmptySet
  <2>5. r # 0 => Cardinality(0..(m - 1)) = m
    <3> SUFFICES ASSUME r # 0 PROVE Cardinality(0..(m - 1)) = m OBVIOUS
    <3>1. 0 \in Int /\ m - 1 \in Int /\ ~(0 > m - 1) /\ (m - 1) - 0 + 1 = m BY <1>3, <1>4
    <3> QED BY <3>1, FS_Interval
  <2>6. ASSUME NEW i \in 0..id, i < 1
        PROVE  /\ h[m][r][i] \subseteq 0..(m - 1) /\ Cardinality(h[m][r][i]) = r
               /\ f[m][r] = i
    BY <1>3, <1>5, <2>2, <2>3, <2>4, <2>5, <2>6
  <2> QED BY <1>3, <2>1, <2>6 DEF Chosen
<1>6. CASE ~(r = 0 \/ m = r)
  <2>1. m \in 1..size /\ r \in 1..ones /\ r < m /\ m - 1 \in Nat /\ m - 1 <= size BY <1>3, <1>4, <1>6
  <2>2. m - 1 \notin Bad
    <3> HIDE DEF Bad
    <3> QED BY <1>1, <1>2, <2>1
  <2>3. Row1(m - 1) BY <2>1, <2>2
  <2>4. r - 1 \in 0..ones /\ r - 1 <= m - 1 /\ r <= m - 1 BY <2>1
  <2>5. Chosen(f, h, bits, id, m - 1, r) /\ Chosen(f, h, bits, id, m - 1, r - 1) BY <1>3, <2>3, <2>4
  <2> HIDE DEF Bad, Row1
  <2>6. Chosen(f, h, bits, id, m, r) BY <2>1, <2>5, ChosenNext
  <2> QED BY <1>3, <2>6
<1> QED BY <1>5, <1>6

(* PositionInv chooses so many of the bits as there are to choose, and       *)
(* PositionF numbers its choice as it was numbered.                          *)
LEMMA NumberOfChoice ==
  ASSUME NEW size \in 1..MAX_N, NEW ones \in 1..MAX_N, ones < size,
         NEW id \in Nat, id < Combination(size, ones)
  PROVE  /\ PositionInv(id, size, ones) \subseteq 0..(size - 1)
         /\ Cardinality(PositionInv(id, size, ones)) = ones
         /\ PositionF(PositionInv(id, size, ones), size, ones) = id
<1>1. size \in 0..MAX_N /\ ones \in 0..MAX_N BY DEF MAX_N
<1>2. PICK h : Choosing(h, id, size, ones) /\ PositionInv(id, size, ones) = h[size][ones][id]
  BY <1>1, PositionInvIs
<1> DEFINE bits == PositionInv(id, size, ones)
<1>3. PICK f : Numbering(f, bits, size, ones) /\ PositionF(bits, size, ones) = f[size][ones]
  <2> HIDE DEF bits
  <2> QED BY <1>1, PositionFIs
<1>4. Chosen(f, h, bits, id, size, ones)
  <2>1. size \in 0..size /\ ones \in 0..ones /\ ones <= size OBVIOUS
  <2> HIDE DEF bits
  <2> QED BY <1>1, <1>2, <1>3, <2>1, ChosenAll
<1>5. id \in 0..id /\ id < Ways(size, ones) BY DEF Ways
<1>6. bits = h[size][ones][id] BY <1>2
<1> HIDE DEF bits
<1>7. /\ bits \subseteq 0..(size - 1) /\ Cardinality(bits) = ones
      /\ bits \cap (0..(size - 1)) = bits => f[size][ones] = id
  BY <1>4, <1>5, <1>6 DEF Chosen
<1>8. bits \cap (0..(size - 1)) = bits BY <1>7
<1> QED BY <1>3, <1>7, <1>8 DEF bits

-----------------------------------------------------------------------------
(* A board and its row of bits: the men of a point are the zeros that come   *)
(* after so many ones, and the point is closed by the next one.              *)
OnesBelow(bits, z) == Cardinality({b \in bits : b < z})

LEMMA OnesFacts ==
  ASSUME NEW size \in Nat, NEW bits \in SUBSET (0..(size - 1))
  PROVE  /\ IsFiniteSet(bits)
         /\ \A z \in Int : OnesBelow(bits, z) \in 0..Cardinality(bits)
         /\ \A y \in Int, z \in Int : y <= z => OnesBelow(bits, y) <= OnesBelow(bits, z)
         /\ \A y \in bits, z \in Int : y < z => OnesBelow(bits, y) + 1 <= OnesBelow(bits, z)
<1> DEFINE below(z) == {b \in bits : b < z}
<1>1. IsFiniteSet(bits)
  <2>1. 0 \in Int /\ size - 1 \in Int OBVIOUS
  <2>2. IsFiniteSet(0..(size - 1)) BY <2>1, FS_Interval
  <2> QED BY <2>2, FS_Subset
<1>2. \A S \in SUBSET bits : IsFiniteSet(S) /\ Cardinality(S) \in Nat /\ Cardinality(S) <= Cardinality(bits)
  BY <1>1, FS_Subset, FS_CardinalityType
<1>3. \A z : below(z) \in SUBSET bits OBVIOUS
<1>4. \A z : OnesBelow(bits, z) = Cardinality(below(z)) BY DEF OnesBelow
<1>5. ASSUME NEW y \in Int, NEW z \in Int, y <= z PROVE OnesBelow(bits, y) <= OnesBelow(bits, z)
  <2>0. \A b \in bits : b \in Int OBVIOUS
  <2>1. below(y) \subseteq below(z)
    <3>1. \A b \in bits : b < y => b < z BY <1>5, <2>0
    <3> QED BY <3>1
  <2>2. IsFiniteSet(below(z)) BY <1>2, <1>3
  <2> HIDE DEF below
  <2>3. Cardinality(below(y)) <= Cardinality(below(z)) BY <2>1, <2>2, FS_Subset
  <2> QED BY <1>4, <2>3
<1>6. ASSUME NEW y \in bits, NEW z \in Int, y < z PROVE OnesBelow(bits, y) + 1 <= OnesBelow(bits, z)
  <2>0. \A b \in bits : b \in Int OBVIOUS
  <2>1. below(y) \cup {y} \subseteq below(z) /\ y \notin below(y)
    <3>1. \A b \in bits : b < y => b < z BY <1>6, <2>0
    <3>2. ~(y < y) BY <2>0
    <3> QED BY <1>6, <3>1, <3>2
  <2>2. IsFiniteSet(below(z)) /\ IsFiniteSet(below(y)) BY <1>2, <1>3
  <2> HIDE DEF below
  <2>3. Cardinality(below(y) \cup {y}) = Cardinality(below(y)) + 1 BY <2>1, <2>2, FS_AddElement
  <2>4. Cardinality(below(y) \cup {y}) <= Cardinality(below(z)) BY <2>1, <2>2, FS_Subset
  <2> QED BY <1>4, <2>3, <2>4
<1>7. Cardinality(bits) \in Nat BY <1>1, FS_CardinalityType
<1> HIDE DEF below
<1>8. \A z \in Int : OnesBelow(bits, z) \in 0..Cardinality(bits) BY <1>2, <1>3, <1>4, <1>7
<1> QED BY <1>1, <1>5, <1>6, <1>8

(* Every number of ones below is that of one bit.                            *)
LEMMA BitOf ==
  ASSUME NEW size \in Nat, NEW bits \in SUBSET (0..(size - 1))
  PROVE  /\ \A b \in bits : OnesBelow(bits, b) \in 0..(Cardinality(bits) - 1)
         /\ \A k \in 0..(Cardinality(bits) - 1) : \E b \in bits : OnesBelow(bits, b) = k
<1> DEFINE p == Cardinality(bits)
           ranks == 0..(p - 1)
           rank == [b \in bits |-> OnesBelow(bits, b)]
<1>1. IsFiniteSet(bits) /\ p \in Nat BY OnesFacts, FS_CardinalityType
<1>2. \A b \in bits : OnesBelow(bits, b) \in ranks
  <2> TAKE b \in bits
  <2>1. b \in Int /\ size \in Int /\ b < size OBVIOUS
  <2>2. OnesBelow(bits, b) + 1 <= OnesBelow(bits, size) BY <2>1, OnesFacts
  <2>3. OnesBelow(bits, size) \in 0..p /\ OnesBelow(bits, b) \in 0..p BY <2>1, OnesFacts
  <2> HIDE DEF p
  <2> QED BY <1>1, <2>2, <2>3
<1>3. rank \in [bits -> ranks] BY <1>2
<1>4. \A b \in bits, d \in bits : rank[b] = rank[d] => b = d
  <2> SUFFICES ASSUME NEW b \in bits, NEW d \in bits, b < d PROVE rank[b] # rank[d] OBVIOUS
  <2>1. d \in Int OBVIOUS
  <2>2. OnesBelow(bits, b) + 1 <= OnesBelow(bits, d) BY <2>1, OnesFacts
  <2> QED BY <1>2, <2>2
<1>5. IsFiniteSet(ranks) /\ Cardinality(ranks) = p
  <2>1. 0 \in Int /\ p - 1 \in Int BY <1>1
  <2> HIDE DEF p
  <2>2. IsFiniteSet(ranks) /\ Cardinality(ranks) = IF 0 > p - 1 THEN 0 ELSE (p - 1) - 0 + 1 BY <2>1, FS_Interval
  <2> QED BY <1>1, <2>2
<1>6. rank \in Injection(bits, ranks)
  <2> HIDE DEF rank, ranks
  <2> QED BY <1>3, <1>4 DEF Injection, IsInjective
<1>7. rank \in Surjection(bits, ranks)
  <2> HIDE DEF rank, ranks
  <2> QED BY <1>1, <1>5, <1>6, FS_Injection
<1>8. \A k \in ranks : \E b \in bits : rank[b] = k
  <2> HIDE DEF rank, ranks
  <2> QED BY <1>7 DEF Surjection
<1> QED BY <1>2, <1>8

(* The place of the row that ends point i, and of those above it.            *)
LEMMA RowOfSide ==
  ASSUME NEW p \in Nat \ {0}, NEW size \in Nat, NEW bits \in SUBSET (0..(size - 1)),
         Cardinality(bits) = p, NEW side,
         \A j \in 0..(p - 1) :
            side[j] = Cardinality({z \in (0..(size - 1)) \ bits : OnesBelow(bits, z) = p - 1 - j})
  PROVE  GapBits(side, p) = bits
<1> DEFINE upTo(i) == {z \in 0..(size - 1) : OnesBelow(bits, z) <= p - 1 - i}
           here(i) == {z \in 0..(size - 1) : OnesBelow(bits, z) = p - 1 - i}
           men(i) == {z \in (0..(size - 1)) \ bits : OnesBelow(bits, z) = p - 1 - i}
           Def(f) == f = [i \in 0..p |-> IF i = p THEN 0 ELSE f[i + 1] + side[i] + 1]
           g == [i \in 0..p |-> Cardinality(upTo(i))]
           f == CHOOSE h : Def(h)
<1>1. IsFiniteSet(0..(size - 1))
  <2>1. 0 \in Int /\ size - 1 \in Int OBVIOUS
  <2> QED BY <2>1, FS_Interval
<1>2. \A z \in Int : OnesBelow(bits, z) \in 0..p BY OnesFacts
<1>3. \A i : /\ upTo(i) \subseteq 0..(size - 1) /\ IsFiniteSet(upTo(i)) /\ Cardinality(upTo(i)) \in Nat
             /\ men(i) \subseteq 0..(size - 1) /\ IsFiniteSet(men(i)) /\ Cardinality(men(i)) \in Nat
  <2> TAKE i
  <2>1. upTo(i) \subseteq 0..(size - 1) /\ men(i) \subseteq 0..(size - 1) OBVIOUS
  <2> HIDE DEF upTo, men
  <2> QED BY <1>1, <2>1, FS_Subset, FS_CardinalityType
<1>4. upTo(p) = {}
  <2> SUFFICES ASSUME NEW z \in upTo(p) PROVE FALSE OBVIOUS
  <2>1. z \in Int /\ OnesBelow(bits, z) <= p - 1 - p OBVIOUS
  <2> HIDE DEF upTo
  <2> QED BY <1>2, <2>1
<1>5. ASSUME NEW i \in 0..(p - 1)
      PROVE  Cardinality(upTo(i)) = Cardinality(upTo(i + 1)) + side[i] + 1
  <2>1. PICK b \in bits : OnesBelow(bits, b) = p - 1 - i
    <3>1. p - 1 - i \in 0..(Cardinality(bits) - 1) OBVIOUS
    <3> QED BY <3>1, BitOf
  <2>2. ASSUME NEW d \in bits, OnesBelow(bits, d) = p - 1 - i PROVE d = b
    <3>1. b \in Int /\ d \in Int OBVIOUS
    <3>2. b < d => OnesBelow(bits, b) + 1 <= OnesBelow(bits, d) BY <3>1, OnesFacts
    <3>3. d < b => OnesBelow(bits, d) + 1 <= OnesBelow(bits, b) BY <3>1, OnesFacts
    <3> QED BY <2>1, <2>2, <3>1, <3>2, <3>3
  <2>3. \A z \in 0..(size - 1) : OnesBelow(bits, z) \in Int
    <3>1. \A z \in 0..(size - 1) : z \in Int OBVIOUS
    <3> QED BY <1>2, <3>1
  <2>4. upTo(i) = (upTo(i + 1) \cup men(i)) \cup {b}
    <3>1. b \in 0..(size - 1) OBVIOUS
    <3>2. ASSUME NEW z \in 0..(size - 1)
          PROVE  z \in upTo(i) <=> z \in upTo(i + 1) \/ z \in men(i) \/ z = b
      <4>1. OnesBelow(bits, z) <= p - 1 - i <=> OnesBelow(bits, z) <= p - 1 - (i + 1) \/ OnesBelow(bits, z) = p - 1 - i
        BY <2>3
      <4>2. OnesBelow(bits, z) = p - 1 - i <=> z \in men(i) \/ z = b BY <2>1, <2>2
      <4> QED BY <4>1, <4>2
    <3>3. upTo(i) \subseteq 0..(size - 1) /\ upTo(i + 1) \subseteq 0..(size - 1) /\ men(i) \subseteq 0..(size - 1)
      BY <1>3
    <3> HIDE DEF upTo, men
    <3> QED BY <3>1, <3>2, <3>3
  <2>5. b \notin upTo(i + 1) \cup men(i)
    <3>1. ~(p - 1 - i <= p - 1 - (i + 1)) OBVIOUS
    <3> QED BY <2>1, <3>1
  <2>6. upTo(i + 1) \cap men(i) = {}
    <3> SUFFICES ASSUME NEW z \in upTo(i + 1), z \in men(i) PROVE FALSE OBVIOUS
    <3>1. OnesBelow(bits, z) <= p - 1 - (i + 1) /\ OnesBelow(bits, z) = p - 1 - i OBVIOUS
    <3> HIDE DEF upTo, men
    <3> QED BY <3>1
  <2>7. side[i] = Cardinality(men(i)) OBVIOUS
  <2> HIDE DEF upTo, men
  <2>8. IsFiniteSet(upTo(i + 1) \cup men(i)) BY <1>3, FS_Union
  <2>9. Cardinality(upTo(i + 1) \cup men(i)) = Cardinality(upTo(i + 1)) + Cardinality(men(i))
    <3>1. Cardinality(upTo(i + 1) \cup men(i)) =
            Cardinality(upTo(i + 1)) + Cardinality(men(i)) - Cardinality(upTo(i + 1) \cap men(i))
      BY <1>3, FS_Union
    <3>2. Cardinality({}) = 0 BY FS_EmptySet
    <3> QED BY <1>3, <2>6, <3>1, <3>2
  <2>10. Cardinality(upTo(i)) = Cardinality(upTo(i + 1) \cup men(i)) + 1 BY <2>4, <2>5, <2>8, FS_AddElement
  <2> QED BY <2>7, <2>9, <2>10
<1>6. Def(g)
  <2>1. ASSUME NEW i \in 0..p PROVE Cardinality(upTo(i)) = IF i = p THEN 0 ELSE g[i + 1] + side[i] + 1
    <3> HIDE DEF upTo
    <3>1. CASE i = p BY <1>4, <3>1, FS_EmptySet
    <3>2. CASE i # p
      <4>1. i + 1 \in 0..p /\ i \in 0..(p - 1) BY <3>2
      <4>2. g[i + 1] = Cardinality(upTo(i + 1)) BY <4>1
      <4> QED BY <1>5, <3>2, <4>1, <4>2
    <3> QED BY <3>1, <3>2
  <2> DEFINE R(i) == IF i = p THEN 0 ELSE g[i + 1] + side[i] + 1
  <2>2. \A i \in 0..p : Cardinality(upTo(i)) = R(i) BY <2>1
  <2> HIDE DEF R, upTo
  <2>3. g = [i \in 0..p |-> R(i)] BY <2>2
  <2> HIDE DEF g
  <2> QED BY <2>3 DEF R
<1>7. Def(f) BY <1>6
<1>8. GapBits(side, p) = {f[i] - 1 : i \in 0..(p - 1)} BY DEF GapBits
<1> HIDE DEF f
<1>9. \A i \in 0..p : f[i] = IF i = p THEN 0 ELSE f[i + 1] + side[i] + 1 BY <1>7
<1> HIDE DEF g, Def
<1>10. \A i \in 0..p : f[i] = Cardinality(upTo(i))
  <2> DEFINE Bad == {k \in Nat : k <= p /\ f[p - k] # Cardinality(upTo(p - k))}
  <2>1. ASSUME Bad = {}, NEW i \in 0..p PROVE f[i] = Cardinality(upTo(i))
    <3>1. p - i \in Nat /\ p - i <= p /\ p - (p - i) = i OBVIOUS
    <3>2. p - i \notin Bad BY <2>1
    <3> HIDE DEF upTo
    <3> QED BY <3>1, <3>2
  <2>2. SUFFICES ASSUME Bad # {} PROVE FALSE BY <2>1
  <2>3. PICK k \in Bad : \A m \in Bad : k <= m
    <3> HIDE DEF Bad
    <3>1. Bad \in SUBSET Nat BY DEF Bad
    <3> QED BY <2>2, <3>1, LeastNumber
  <2> HIDE DEF upTo
  <2>4. k \in Nat /\ k <= p /\ f[p - k] # Cardinality(upTo(p - k)) OBVIOUS
  <2>5. k # 0
    <3>1. f[p] = 0 BY <1>9
    <3>2. Cardinality(upTo(p)) = 0 BY <1>4, FS_EmptySet
    <3> QED BY <2>4, <3>1, <3>2
  <2>6. k - 1 \in Nat /\ k - 1 <= p /\ k - 1 \notin Bad
    <3> HIDE DEF Bad
    <3> QED BY <2>3, <2>4, <2>5
  <2>7. f[p - (k - 1)] = Cardinality(upTo(p - (k - 1))) BY <2>6
  <2>8. p - k \in 0..(p - 1) /\ p - k \in 0..p /\ p - k # p /\ (p - k) + 1 = p - (k - 1) BY <2>4, <2>5
  <2>9. f[p - k] = f[(p - k) + 1] + side[p - k] + 1 BY <1>9, <2>8
  <2>10. Cardinality(upTo(p - k)) = Cardinality(upTo((p - k) + 1)) + side[p - k] + 1 BY <1>5, <2>8
  <2> QED BY <2>4, <2>7, <2>8, <2>9, <2>10
<1>11. ASSUME NEW b \in bits, NEW i \in 0..(p - 1), OnesBelow(bits, b) = p - 1 - i PROVE Cardinality(upTo(i)) - 1 = b
  <2>1. b \in Int /\ 0 <= b /\ b < size OBVIOUS
  <2>2. upTo(i) = 0..b
    <3>1. ASSUME NEW z \in 0..(size - 1) PROVE OnesBelow(bits, z) <= p - 1 - i <=> z <= b
      <4>1. z \in Int OBVIOUS
      <4>2. z <= b => OnesBelow(bits, z) <= OnesBelow(bits, b) BY <2>1, <4>1, OnesFacts
      <4>3. b < z => OnesBelow(bits, b) + 1 <= OnesBelow(bits, z) BY <4>1, OnesFacts
      <4>4. OnesBelow(bits, z) \in Int /\ OnesBelow(bits, b) \in Int BY <1>2, <2>1, <4>1
      <4> QED BY <1>11, <2>1, <4>1, <4>2, <4>3, <4>4
    <3>2. \A z \in 0..b : z \in 0..(size - 1) BY <2>1
    <3> QED BY <3>1, <3>2
  <2>3. Cardinality(0..b) = b + 1
    <3>1. 0 \in Int /\ ~(0 > b) BY <2>1
    <3> QED BY <2>1, <3>1, FS_Interval
  <2> HIDE DEF upTo
  <2> QED BY <2>1, <2>2, <2>3
<1> HIDE DEF upTo
<1>12. ASSUME NEW i \in 0..(p - 1) PROVE f[i] - 1 \in bits
  <2>1. p - 1 - i \in 0..(Cardinality(bits) - 1) /\ i \in 0..p OBVIOUS
  <2>2. PICK b \in bits : OnesBelow(bits, b) = p - 1 - i BY <2>1, BitOf
  <2> QED BY <1>10, <1>11, <2>1, <2>2
<1>13. ASSUME NEW b \in bits PROVE \E i \in 0..(p - 1) : f[i] - 1 = b
  <2>1. OnesBelow(bits, b) \in 0..(p - 1) BY BitOf
  <2>2. PICK i \in 0..(p - 1) : OnesBelow(bits, b) = p - 1 - i
    <3>1. p - 1 - OnesBelow(bits, b) \in 0..(p - 1) /\ OnesBelow(bits, b) = p - 1 - (p - 1 - OnesBelow(bits, b)) BY <2>1
    <3> QED BY <3>1
  <2>3. i \in 0..p OBVIOUS
  <2> QED BY <1>10, <1>11, <2>2, <2>3
<1>14. {f[i] - 1 : i \in 0..(p - 1)} \subseteq bits BY <1>12
<1>15. bits \subseteq {f[i] - 1 : i \in 0..(p - 1)} BY <1>13
<1> QED BY <1>8, <1>14, <1>15

LEMMA NumbersOf ==
  ASSUME NEW nPoints \in Nat \ {0}, NEW nChequers \in Nat \ {0}, nPoints + nChequers <= MAX_N,
         NEW id \in Nat, id < Combination(nPoints + nChequers, nPoints), NEW side,
         \A j \in 0..(nPoints - 1) : side[j] = PositionFromBearoff(id, nPoints, nChequers)[j]
  PROVE  PositionBearoff(side, nPoints, nChequers) = id
<1> DEFINE size == nPoints + nChequers
           bits == PositionInv(id, size, nPoints)
<1>1. size \in 1..MAX_N /\ nPoints \in 1..MAX_N /\ nPoints < size /\ size \in Nat BY DEF MAX_N
<1>2. bits \subseteq 0..(size - 1) /\ Cardinality(bits) = nPoints /\ PositionF(bits, size, nPoints) = id
  <2> HIDE DEF size
  <2> QED BY <1>1, NumberOfChoice DEF size
<1>3. nChequers + nPoints = size OBVIOUS
<1>4. PositionFromBearoff(id, nPoints, nChequers) =
        [j \in 0..(nPoints - 1) |->
           Cardinality({z \in (0..(size - 1)) \ bits : OnesBelow(bits, z) = nPoints - 1 - j})]
  BY <1>3 DEF PositionFromBearoff, OnesBelow
<1> HIDE DEF size, bits
<1>5. \A j \in 0..(nPoints - 1) :
        side[j] = Cardinality({z \in (0..(size - 1)) \ bits : OnesBelow(bits, z) = nPoints - 1 - j})
  BY <1>4
<1>6. GapBits(side, nPoints) = bits BY <1>1, <1>2, <1>5, RowOfSide
<1> QED BY <1>2, <1>3, <1>6 DEF PositionBearoff

(* Whatever the number of points and of men, PositionFromBearoff makes of a  *)
(* number a position whose number PositionBearoff says it is: no two numbers *)
(* have the same position, and each has one.                                 *)
THEOREM NumbersGiveBack ==
  ASSUME NEW nPoints \in Nat \ {0}, NEW nChequers \in Nat \ {0}, nPoints + nChequers <= MAX_N,
         NEW id \in Nat, id < Combination(nPoints + nChequers, nPoints)
  PROVE  PositionBearoff(PositionFromBearoff(id, nPoints, nChequers), nPoints, nChequers) = id
<1> QED BY NumbersOf DEF MAX_N

-----------------------------------------------------------------------------
(* The order of the square: the diagonals above the middle, T(d) positions   *)
(* before the one of sum d, and those below it as they are from the end.     *)
T(n) == (n * (n + 1)) \div 2

LEMMA Even ==
  ASSUME NEW n \in Nat
  PROVE  \E k \in Nat : n * (n + 1) = 2 * k
<1> DEFINE Bad == {m \in Nat : ~\E k \in Nat : m * (m + 1) = 2 * k}
<1> SUFFICES ASSUME Bad # {} PROVE FALSE OBVIOUS
<1>1. PICK m \in Bad : \A k \in Bad : m <= k
  <2> HIDE DEF Bad
  <2>1. Bad \in SUBSET Nat BY DEF Bad
  <2> QED BY <2>1, LeastNumber
<1>2. m \in Nat /\ ~\E k \in Nat : m * (m + 1) = 2 * k OBVIOUS
<1>3. m # 0 BY <1>2
<1>4. m - 1 \in Nat /\ m - 1 \notin Bad
  <2> HIDE DEF Bad
  <2> QED BY <1>1, <1>2, <1>3
<1>5. PICK k \in Nat : (m - 1) * ((m - 1) + 1) = 2 * k BY <1>4
<1>6. m * (m + 1) = (m - 1) * ((m - 1) + 1) + 2 * m BY <1>2
<1>7. m * (m + 1) = 2 * (k + m) BY <1>2, <1>5, <1>6
<1>8. k + m \in Nat BY <1>2
<1> QED BY <1>2, <1>7, <1>8

LEMMA Triangle ==
  ASSUME NEW n \in Nat
  PROVE  T(n) \in Nat /\ 2 * T(n) = n * (n + 1)
<1>1. PICK k \in Nat : n * (n + 1) = 2 * k BY Even
<1>2. (2 * k) \div 2 = k OBVIOUS
<1>3. T(n) = k BY <1>1, <1>2 DEF T
<1> QED BY <1>1, <1>3

LEMMA TriangleNext ==
  ASSUME NEW n \in Nat
  PROVE  T(n + 1) = T(n) + n + 1
<1>1. 2 * T(n) = n * (n + 1) /\ T(n) \in Nat BY Triangle
<1>2. 2 * T(n + 1) = (n + 1) * ((n + 1) + 1) /\ T(n + 1) \in Nat BY Triangle
<1>3. (n + 1) * ((n + 1) + 1) = n * (n + 1) + 2 * (n + 1) OBVIOUS
<1> QED BY <1>1, <1>2, <1>3

LEMMA TriangleSquare ==
  ASSUME NEW n \in Nat \ {0}
  PROVE  T(n) + T(n - 1) = n * n
<1>1. 2 * T(n) = n * (n + 1) /\ T(n) \in Nat BY Triangle
<1>2. 2 * T(n - 1) = (n - 1) * ((n - 1) + 1) /\ T(n - 1) \in Nat
  <2>1. n - 1 \in Nat OBVIOUS
  <2> QED BY <2>1, Triangle
<1>3. n * (n + 1) + (n - 1) * ((n - 1) + 1) = 2 * (n * n) OBVIOUS
<1>4. PICK s \in Nat : s = n * n OBVIOUS
<1>5. 2 * T(n) + 2 * T(n - 1) = 2 * s BY <1>1, <1>2, <1>3, <1>4
<1>6. T(n) \in Nat /\ T(n - 1) \in Nat BY <1>1, <1>2
<1>7. T(n) + T(n - 1) = s BY <1>5, <1>6
<1> QED BY <1>4, <1>7

(* A later diagonal begins behind an earlier one.                            *)
LEMMA TriangleOrder ==
  ASSUME NEW a \in Nat, NEW b \in Nat, a < b
  PROVE  T(a) + a + 1 <= T(b)
<1> DEFINE Bad == {m \in Nat : a < m /\ ~(T(a) + a + 1 <= T(m))}
<1> SUFFICES ASSUME Bad # {} PROVE FALSE OBVIOUS
<1>1. PICK m \in Bad : \A k \in Bad : m <= k
  <2> HIDE DEF Bad
  <2>1. Bad \in SUBSET Nat BY DEF Bad
  <2> QED BY <2>1, LeastNumber
<1>2. m \in Nat /\ a < m /\ ~(T(a) + a + 1 <= T(m)) OBVIOUS
<1>3. m # a + 1 BY <1>2, TriangleNext, Triangle
<1>4. m - 1 \in Nat /\ a < m - 1 /\ m - 1 \notin Bad
  <2> HIDE DEF Bad
  <2> QED BY <1>1, <1>2, <1>3
<1>5. T(a) + a + 1 <= T(m - 1) BY <1>4
<1>6. T(m) = T(m - 1) + m
  <2>1. (m - 1) + 1 = m BY <1>2
  <2>2. T((m - 1) + 1) = T(m - 1) + (m - 1) + 1 BY <1>4, TriangleNext
  <2>3. T(m - 1) \in Nat BY <1>4, Triangle
  <2> QED BY <1>2, <2>1, <2>2, <2>3
<1>7. T(a) \in Nat /\ T(m - 1) \in Nat BY <1>4, Triangle
<1> QED BY <1>2, <1>5, <1>6, <1>7

(* CalcPosition above the diagonal and below it.                             *)
LEMMA Upper ==
  ASSUME NEW n \in Nat \ {0}, NEW u \in 0..(n - 1), NEW t \in 0..(n - 1), u + t < n
  PROVE  CalcPosition(u, t, n) = T(u + t) + t
BY DEF CalcPosition, T

LEMMA Lower ==
  ASSUME NEW n \in Nat \ {0}, NEW u \in 0..(n - 1), NEW t \in 0..(n - 1), ~(u + t < n)
  PROVE  LET d == 2 * (n - 1) - u - t
         IN  d \in 0..(n - 2) /\ n - 1 - t \in 0..d
             /\ CalcPosition(u, t, n) = n * n - (T(d) + n - 1 - t) - 1
BY DEF CalcPosition, T

LEMMA UpperBelow ==
  ASSUME NEW n \in Nat \ {0}, NEW u \in 0..(n - 1), NEW t \in 0..(n - 1), u + t < n
  PROVE  CalcPosition(u, t, n) \in Nat /\ CalcPosition(u, t, n) < T(u + t + 1)
         /\ CalcPosition(u, t, n) < T(n)
<1>1. CalcPosition(u, t, n) = T(u + t) + t BY Upper
<1>2. u + t \in Nat /\ T(u + t) \in Nat /\ T(u + t + 1) = T(u + t) + u + t + 1 BY Triangle, TriangleNext
<1>3. T(u + t) + u + t + 1 <= T(n) BY <1>2, TriangleOrder
<1>4. T(n) \in Nat BY Triangle
<1> QED BY <1>1, <1>2, <1>3, <1>4

LEMMA LowerAbove ==
  ASSUME NEW n \in Nat \ {0}, NEW u \in 0..(n - 1), NEW t \in 0..(n - 1), ~(u + t < n)
  PROVE  CalcPosition(u, t, n) \in Nat /\ CalcPosition(u, t, n) >= T(n)
         /\ CalcPosition(u, t, n) < n * n
<1> DEFINE d == 2 * (n - 1) - u - t
<1>1. d \in 0..(n - 2) /\ n - 1 - t \in 0..d /\ CalcPosition(u, t, n) = n * n - (T(d) + n - 1 - t) - 1
  BY Lower
<1> HIDE DEF d
<1>2. d \in Nat /\ n - 1 \in Nat /\ d < n - 1 BY <1>1
<1>3. T(d) + d + 1 <= T(n - 1) BY <1>2, TriangleOrder
<1>4. T(n) + T(n - 1) = n * n BY TriangleSquare
<1>5. T(d) \in Nat /\ T(n) \in Nat /\ T(n - 1) \in Nat BY <1>2, Triangle
<1>6. PICK s \in Nat : s = n * n OBVIOUS
<1> QED BY <1>1, <1>2, <1>3, <1>4, <1>5, <1>6

LEMMA CalcRange ==
  ASSUME NEW n \in Nat \ {0}, NEW u \in 0..(n - 1), NEW t \in 0..(n - 1)
  PROVE  CalcPosition(u, t, n) \in Nat /\ CalcPosition(u, t, n) < n * n
<1>1. CASE u + t < n
  <2>1. CalcPosition(u, t, n) \in Nat /\ CalcPosition(u, t, n) < T(n) BY <1>1, UpperBelow
  <2>2. T(n) + T(n - 1) = n * n BY TriangleSquare
  <2>3. T(n) \in Nat /\ T(n - 1) \in Nat
    <3>1. n - 1 \in Nat OBVIOUS
    <3> QED BY <3>1, Triangle
  <2>4. PICK s \in Nat : s = n * n OBVIOUS
  <2> QED BY <2>1, <2>2, <2>3, <2>4
<1>2. CASE ~(u + t < n) BY <1>2, LowerAbove
<1> QED BY <1>1, <1>2

(* Positions of smaller sums come first.                                     *)
LEMMA CalcOrder ==
  ASSUME NEW n \in Nat \ {0}, NEW u \in 0..(n - 1), NEW t \in 0..(n - 1),
         NEW v \in 0..(n - 1), NEW w \in 0..(n - 1), u + t < v + w
  PROVE  CalcPosition(u, t, n) < CalcPosition(v, w, n)
<1>1. CASE v + w < n
  <2>1. u + t < n BY <1>1
  <2>2. CalcPosition(u, t, n) \in Nat /\ CalcPosition(u, t, n) < T(u + t + 1) BY <2>1, UpperBelow
  <2>3. CalcPosition(v, w, n) = T(v + w) + w BY <1>1, Upper
  <2>4. u + t \in Nat /\ v + w \in Nat OBVIOUS
  <2>5. T(u + t) + u + t + 1 <= T(v + w)
    <3>1. T(u + t) + (u + t) + 1 <= T(v + w) BY <2>4, TriangleOrder
    <3>2. T(u + t) \in Nat BY <2>4, Triangle
    <3> QED BY <3>1, <3>2
  <2>6. T(u + t + 1) = T(u + t) + (u + t) + 1 BY <2>4, TriangleNext
  <2>7. T(u + t) \in Nat /\ T(v + w) \in Nat BY <2>4, Triangle
  <2> QED BY <2>2, <2>3, <2>5, <2>6, <2>7
<1>2. CASE u + t < n /\ ~(v + w < n)
  <2>1. CalcPosition(u, t, n) \in Nat /\ CalcPosition(u, t, n) < T(n) BY <1>2, UpperBelow
  <2>2. CalcPosition(v, w, n) \in Nat /\ CalcPosition(v, w, n) >= T(n) BY <1>2, LowerAbove
  <2>3. T(n) \in Nat BY Triangle
  <2> QED BY <2>1, <2>2, <2>3
<1>3. CASE ~(u + t < n)
  <2> DEFINE d == 2 * (n - 1) - u - t
             e == 2 * (n - 1) - v - w
  <2>1. d \in 0..(n - 2) /\ n - 1 - t \in 0..d /\ CalcPosition(u, t, n) = n * n - (T(d) + n - 1 - t) - 1
    BY <1>3, Lower
  <2>2. e \in 0..(n - 2) /\ n - 1 - w \in 0..e /\ CalcPosition(v, w, n) = n * n - (T(e) + n - 1 - w) - 1
    <3>1. ~(v + w < n) BY <1>3
    <3> QED BY <3>1, Lower
  <2>3. e < d OBVIOUS
  <2> HIDE DEF d, e
  <2>4. d \in Nat /\ e \in Nat BY <2>1, <2>2
  <2>5. T(e) + e + 1 <= T(d) BY <2>3, <2>4, TriangleOrder
  <2>6. T(d) \in Nat /\ T(e) \in Nat BY <2>4, Triangle
  <2>7. PICK s \in Nat : s = n * n OBVIOUS
  <2> QED BY <2>1, <2>2, <2>5, <2>6, <2>7
<1> QED BY <1>1, <1>2, <1>3

LEMMA CalcInjective ==
  ASSUME NEW n \in Nat \ {0}, NEW u \in 0..(n - 1), NEW t \in 0..(n - 1),
         NEW v \in 0..(n - 1), NEW w \in 0..(n - 1),
         CalcPosition(u, t, n) = CalcPosition(v, w, n)
  PROVE  u = v /\ t = w
<1>1. CalcPosition(u, t, n) \in Nat /\ CalcPosition(v, w, n) \in Nat BY CalcRange
<1>2. u + t = v + w
  <2>1. ~(u + t < v + w) BY <1>1, CalcOrder
  <2>2. ~(v + w < u + t) BY <1>1, CalcOrder
  <2> QED BY <2>1, <2>2
<1>3. CASE u + t < n
  <2>1. CalcPosition(u, t, n) = T(u + t) + t BY <1>3, Upper
  <2>2. CalcPosition(v, w, n) = T(u + t) + w BY <1>2, <1>3, Upper
  <2>3. T(u + t) \in Nat
    <3>1. u + t \in Nat OBVIOUS
    <3> QED BY <3>1, Triangle
  <2>4. T(u + t) + t = T(u + t) + w BY <2>1, <2>2
  <2>5. t = w BY <2>3, <2>4
  <2> QED BY <1>2, <2>5
<1>4. CASE ~(u + t < n)
  <2> DEFINE d == 2 * (n - 1) - u - t
             e == 2 * (n - 1) - v - w
  <2>1. d \in 0..(n - 2) /\ n - 1 - t \in 0..d /\ CalcPosition(u, t, n) = n * n - (T(d) + n - 1 - t) - 1
    BY <1>4, Lower
  <2>2. e \in 0..(n - 2) /\ n - 1 - w \in 0..e /\ CalcPosition(v, w, n) = n * n - (T(e) + n - 1 - w) - 1
    <3>1. ~(v + w < n) BY <1>2, <1>4
    <3> QED BY <3>1, Lower
  <2>3. e = d BY <1>2
  <2> HIDE DEF d, e
  <2>4. T(d) \in Nat /\ d \in Nat
    <3>1. d \in Nat BY <2>1
    <3> QED BY <3>1, Triangle
  <2>5. PICK s \in Nat : s = n * n OBVIOUS
  <2>6. n * n - (T(d) + n - 1 - t) - 1 = n * n - (T(d) + n - 1 - w) - 1 BY <2>1, <2>2, <2>3
  <2>7. t = w BY <2>4, <2>5, <2>6
  <2> QED BY <1>2, <2>7
<1> QED BY <1>3, <1>4

(* Along a diagonal, and from one to the next.                               *)
LEMMA CalcAbove ==
  ASSUME NEW n \in Nat \ {0}, NEW i \in 0..(n - 1), NEW j \in 0..i
  PROVE  i - j \in 0..(n - 1) /\ j \in 0..(n - 1) /\ CalcPosition(i - j, j, n) = T(i) + j
<1>1. i - j \in 0..(n - 1) /\ j \in 0..(n - 1) /\ (i - j) + j < n /\ (i - j) + j = i OBVIOUS
<1>2. CalcPosition(i - j, j, n) = T((i - j) + j) + j BY <1>1, Upper
<1> QED BY <1>1, <1>2

LEMMA CalcBelow ==
  ASSUME NEW n \in Nat \ {0}, NEW i \in Nat, NEW j \in 0..(n - 1), i < j
  PROVE  i + n - j \in 0..(n - 1) /\ n - 2 - i \in Nat
         /\ CalcPosition(i + n - j, j, n) = n * n - (T(n - 2 - i) + n - 1 - j) - 1
<1> DEFINE u == i + n - j
<1>1. u \in 0..(n - 1) /\ ~(u + j < n) /\ 2 * (n - 1) - u - j = n - 2 - i OBVIOUS
<1> HIDE DEF u
<1>2. LET d == 2 * (n - 1) - u - j
      IN  d \in 0..(n - 2) /\ n - 1 - j \in 0..d
          /\ CalcPosition(u, j, n) = n * n - (T(d) + n - 1 - j) - 1
  BY <1>1, Lower
<1>3. n - 2 - i \in 0..(n - 2) /\ CalcPosition(u, j, n) = n * n - (T(n - 2 - i) + n - 1 - j) - 1
  BY <1>1, <1>2
<1> QED BY <1>1, <1>3 DEF u

(* The loops of generate_ts go through the square in that order.             *)
LEMMA CalcFollows ==
  ASSUME NEW n \in Nat \ {0}, n >= 2
  PROVE  /\ CalcPosition(0, 0, n) = 0
         /\ \A i \in 0..(n - 1), j \in 0..(n - 1) : j < i =>
              CalcPosition(i - (j + 1), j + 1, n) = CalcPosition(i - j, j, n) + 1
         /\ \A i \in 0..(n - 2) : CalcPosition(i + 1, 0, n) = CalcPosition(0, i, n) + 1
         /\ CalcPosition(n - 1, 1, n) = CalcPosition(0, n - 1, n) + 1
         /\ \A i \in 0..(n - 1), j \in 0..(n - 1) : i < j /\ j < n - 1 =>
              CalcPosition(i + n - (j + 1), j + 1, n) = CalcPosition(i + n - j, j, n) + 1
         /\ \A i \in 0..(n - 3) :
              CalcPosition(n - 1, i + 2, n) = CalcPosition(i + 1, n - 1, n) + 1
         /\ CalcPosition(n - 1, n - 1, n) = n * n - 1
<1>1. T(0) = 0 BY Triangle
<1>2. CalcPosition(0, 0, n) = 0
  <2>1. CalcPosition(0 - 0, 0, n) = T(0) + 0 BY CalcAbove
  <2> QED BY <1>1, <2>1
<1>3. ASSUME NEW i \in 0..(n - 1), NEW j \in 0..(n - 1), j < i
      PROVE  CalcPosition(i - (j + 1), j + 1, n) = CalcPosition(i - j, j, n) + 1
  <2>1. j \in 0..i /\ j + 1 \in 0..i BY <1>3
  <2>2. CalcPosition(i - j, j, n) = T(i) + j BY <2>1, CalcAbove
  <2>3. CalcPosition(i - (j + 1), j + 1, n) = T(i) + (j + 1) BY <2>1, CalcAbove
  <2>4. T(i) \in Nat
    <3>1. i \in Nat OBVIOUS
    <3> QED BY <3>1, Triangle
  <2> QED BY <2>2, <2>3, <2>4
<1>4. ASSUME NEW i \in 0..(n - 2) PROVE CalcPosition(i + 1, 0, n) = CalcPosition(0, i, n) + 1
  <2>1. i \in 0..(n - 1) /\ i + 1 \in 0..(n - 1) /\ i \in 0..i /\ 0 \in 0..(i + 1) /\ i - i = 0 /\ i \in Nat
        /\ (i + 1) - 0 = i + 1 OBVIOUS
  <2>2. CalcPosition(0, i, n) = T(i) + i
    <3>1. CalcPosition(i - i, i, n) = T(i) + i BY <2>1, CalcAbove
    <3> QED BY <2>1, <3>1
  <2>3. CalcPosition(i + 1, 0, n) = T(i + 1) + 0
    <3>1. CalcPosition((i + 1) - 0, 0, n) = T(i + 1) + 0 BY <2>1, CalcAbove
    <3> QED BY <2>1, <3>1
  <2>4. T(i) \in Nat /\ T(i + 1) = T(i) + i + 1 BY <2>1, Triangle, TriangleNext
  <2> QED BY <2>2, <2>3, <2>4
<1>5. PICK s \in Nat : s = n * n OBVIOUS
<1>6. CalcPosition(n - 1, 1, n) = CalcPosition(0, n - 1, n) + 1
  <2>1. n - 1 \in 0..(n - 1) /\ n - 1 \in Nat /\ (n - 1) - (n - 1) = 0 /\ 0 + n - 1 = n - 1 /\ n - 2 - 0 = n - 2
        /\ n - 2 \in Nat /\ (n - 1) + 1 = n /\ (n - 2) + 1 = n - 1 OBVIOUS
  <2>2. CalcPosition(0, n - 1, n) = T(n - 1) + (n - 1)
    <3>1. n - 1 \in 0..(n - 1) OBVIOUS
    <3>2. CalcPosition((n - 1) - (n - 1), n - 1, n) = T(n - 1) + (n - 1) BY <3>1, CalcAbove
    <3> QED BY <2>1, <3>2
  <2>3. CalcPosition(n - 1, 1, n) = n * n - (T(n - 2) + n - 1 - 1) - 1
    <3>1. 1 \in 0..(n - 1) OBVIOUS
    <3>2. CalcPosition(0 + n - 1, 1, n) = n * n - (T(n - 2 - 0) + n - 1 - 1) - 1 BY <3>1, CalcBelow
    <3> QED BY <2>1, <3>2
  <2>4. T(n) + T(n - 1) = n * n BY TriangleSquare
  <2>5. T(n) = T(n - 1) + (n - 1) + 1
    <3>1. T((n - 1) + 1) = T(n - 1) + (n - 1) + 1 BY <2>1, TriangleNext
    <3> QED BY <2>1, <3>1
  <2>6. T(n - 1) = T(n - 2) + (n - 2) + 1
    <3>1. T((n - 2) + 1) = T(n - 2) + (n - 2) + 1 BY <2>1, TriangleNext
    <3> QED BY <2>1, <3>1
  <2>7. T(n) \in Nat /\ T(n - 1) \in Nat /\ T(n - 2) \in Nat BY <2>1, Triangle
  <2> QED BY <1>5, <2>2, <2>3, <2>4, <2>5, <2>6, <2>7
<1>7. ASSUME NEW i \in 0..(n - 1), NEW j \in 0..(n - 1), i < j, j < n - 1
      PROVE  CalcPosition(i + n - (j + 1), j + 1, n) = CalcPosition(i + n - j, j, n) + 1
  <2>1. i \in Nat /\ n - 2 - i \in Nat /\ j + 1 \in 0..(n - 1) /\ i < j + 1 BY <1>7
  <2>2. CalcPosition(i + n - j, j, n) = n * n - (T(n - 2 - i) + n - 1 - j) - 1 BY <1>7, <2>1, CalcBelow
  <2>3. CalcPosition(i + n - (j + 1), j + 1, n) = n * n - (T(n - 2 - i) + n - 1 - (j + 1)) - 1
    BY <2>1, CalcBelow
  <2>4. T(n - 2 - i) \in Nat BY <2>1, Triangle
  <2> QED BY <1>5, <2>2, <2>3, <2>4
<1>8. ASSUME NEW i \in 0..(n - 3)
      PROVE  CalcPosition(n - 1, i + 2, n) = CalcPosition(i + 1, n - 1, n) + 1
  <2>1. i \in Nat /\ i + 1 \in Nat /\ n - 1 \in 0..(n - 1) /\ i + 2 \in 0..(n - 1) /\ i < n - 1 /\ i + 1 < i + 2
        /\ n - 3 - i \in Nat /\ n - 2 - i = (n - 3 - i) + 1 /\ n - 2 - (i + 1) = n - 3 - i
        /\ i + n - (n - 1) = i + 1 /\ (i + 1) + n - (i + 2) = n - 1 OBVIOUS
  <2>2. CalcPosition(i + 1, n - 1, n) = n * n - (T(n - 2 - i) + n - 1 - (n - 1)) - 1
    <3>1. CalcPosition(i + n - (n - 1), n - 1, n) = n * n - (T(n - 2 - i) + n - 1 - (n - 1)) - 1
      BY <2>1, CalcBelow
    <3> QED BY <2>1, <3>1
  <2>3. CalcPosition(n - 1, i + 2, n) = n * n - (T(n - 3 - i) + n - 1 - (i + 2)) - 1
    <3>1. CalcPosition((i + 1) + n - (i + 2), i + 2, n) = n * n - (T(n - 2 - (i + 1)) + n - 1 - (i + 2)) - 1
      BY <2>1, CalcBelow
    <3> QED BY <2>1, <3>1
  <2>4. T(n - 2 - i) = T(n - 3 - i) + (n - 3 - i) + 1
    <3>1. T((n - 3 - i) + 1) = T(n - 3 - i) + (n - 3 - i) + 1 BY <2>1, TriangleNext
    <3> QED BY <2>1, <3>1
  <2>5. T(n - 3 - i) \in Nat BY <2>1, Triangle
  <2> QED BY <1>5, <2>2, <2>3, <2>4, <2>5
<1>9. CalcPosition(n - 1, n - 1, n) = n * n - 1
  <2>1. n - 2 \in Nat /\ n - 2 < n - 1 /\ n - 1 \in 0..(n - 1) /\ n - 2 - (n - 2) = 0
        /\ (n - 2) + n - (n - 1) = n - 1 OBVIOUS
  <2>2. CalcPosition((n - 2) + n - (n - 1), n - 1, n) = n * n - (T(n - 2 - (n - 2)) + n - 1 - (n - 1)) - 1
    BY <2>1, CalcBelow
  <2>3. CalcPosition(n - 1, n - 1, n) = n * n - (T(0) + n - 1 - (n - 1)) - 1 BY <2>1, <2>2
  <2> QED BY <1>1, <1>5, <2>3
<1> QED BY <1>2, <1>3, <1>4, <1>6, <1>7, <1>8, <1>9

-----------------------------------------------------------------------------
(* Making a database: what has been written is what was to be written, in    *)
(* the order of the loops.                                                   *)
Position == 0..(nPos - 1)
Compressed == job.kind = "one" /\ job.fCompress

(* What a record is, and what tells that it is the one of position k.  An    *)
(* index is right as long as the elements it points at are those of k, and   *)
(* no offset has overflowed.                                                 *)
Index == [offset : Nat, count : Nat]
Entry == IF Two(job) THEN Position \X Position ELSE IF Compressed THEN Index ELSE Position
IndexOf(e, k) ==
  /\ e \in Index /\ e.count > 0 /\ e.offset + e.count <= Len(tmp)
  /\ SubSeq(tmp, e.offset + 1, e.offset + e.count) = Elements(job, k)
Holds(e, k) == IF Compressed THEN Fits => IndexOf(e, k) ELSE e = k

SquareHeld == \A u \in Position, t \in Position :
                CalcPosition(u, t, nPos) < Len(file) => file[CalcPosition(u, t, nPos) + 1] = <<u, t>>
RowHeld == \A k \in 0..(Len(file) - 1) : Holds(file[k + 1], k)
FileInv == phase \in {"making", "written"} =>
             file \in Seq(Entry) /\ IF Two(job) THEN SquareHeld ELSE RowHeld

Loops == IF Two(job) THEN /\ at.i < nPos /\ at.j < nPos
                          /\ IF at.below THEN at.i < at.j ELSE at.j <= at.i
                     ELSE at.i < nPos /\ at.j = 0 /\ at.below = FALSE
Reached == IF Two(job) THEN CalcPosition(Us, Them, nPos) ELSE at.i
ProgressInv ==
  /\ phase = "making" => Loops /\ Len(file) = Reached
  /\ phase = "written" => Len(file) = IF Two(job) THEN nPos * nPos ELSE nPos

OutputInv ==
  phase = "done" =>
    /\ output \in Seq(Entry) /\ Len(output) = IF Two(job) THEN nPos * nPos ELSE nPos
    /\ IF Two(job) THEN Fits => \A u \in Position, t \in Position : output[u * nPos + t + 1] = <<u, t>>
                   ELSE \A k \in Position : Holds(output[k + 1], k)

MakingInv ==
  /\ job \in Jobs /\ phase \in {"making", "written", "done", "stopped"}
  /\ at \in [i : Nat, j : Nat, below : BOOLEAN]
  /\ tmp \in Seq(Nat \X Nat) /\ npos = Len(tmp)
  /\ FileInv /\ ProgressInv /\ OutputInv

LEMMA JobFacts ==
  ASSUME NEW j \in Jobs
  PROVE  /\ j.kind \in {"one", "two", "heuristic"} /\ (Two(j) <=> j.kind = "two")
         /\ j.fHeader \in BOOLEAN /\ j.fCompress \in BOOLEAN /\ j.fGammon \in BOOLEAN /\ j.fCubeful \in BOOLEAN
         /\ j.nHash \in Nat /\ (j.kind = "heuristic" => j.nHash = 0)
         /\ j.nWord \in Nat \ {0} /\ j.nWord % 8 = 0
         /\ Count(j) \in Nat /\ Count(j) >= 2
         /\ Count(j) = Combination(j.nPoints + j.nChequers, j.nPoints)
<1>1. j.nPoints \in Nat \ {0} /\ j.nChequers \in Nat \ {0} /\ j.nPoints + j.nChequers <= MAX_N
  BY JobsAssumption
<1>2. LET a == j.nPoints  b == j.nChequers
      IN  /\ Combination(a + b, a) \in Nat /\ Combination(a + b, a) >= 2
          /\ Combination(a + b, b) = Combination(a + b, a)
  BY <1>1, Combinations
<1>3. /\ Count(j) \in Nat /\ Count(j) >= 2
      /\ Count(j) = Combination(j.nPoints + j.nChequers, j.nPoints)
  <2>1. CASE Two(j) BY <1>2, <2>1 DEF Count
  <2>2. CASE ~Two(j) BY <1>2, <2>2 DEF Count
  <2> QED BY <2>1, <2>2
<1> QED BY <1>3, JobsAssumption DEF Two

LEMMA PosFacts ==
  ASSUME job \in Jobs
  PROVE  nPos \in Nat /\ nPos >= 2 /\ nPos \in Nat \ {0}
<1>1. Count(job) \in Nat /\ Count(job) >= 2 BY JobFacts
<1> QED BY <1>1 DEF nPos

LEMMA SizeFacts ==
  ASSUME job \in Jobs
  PROVE  /\ RecordSize(job) \in Nat \ {0} /\ (Two(job) => RecordSize(job) \in {2, 8})
         /\ (~Two(job) => RecordSize(job) \in {6, 8, 64, 128})
BY JobFacts DEF RecordSize

LEMMA Small ==
  ASSUME NEW m \in Nat \ {0}, NEW x \in Nat, x < m
  PROVE  x % m = x
OBVIOUS

LEMMA Remainder ==
  ASSUME NEW m \in Nat \ {0}, NEW x \in Nat
  PROVE  x % m \in Nat /\ x % m <= x
<1>1. CASE x < m BY <1>1, Small
<1>2. CASE x >= m
  <2>1. x % m \in 0..(m - 1) OBVIOUS
  <2> QED BY <1>2, <2>1
<1> QED BY <1>1, <1>2

(* What overflows and what does not.                                         *)
LEMMA WordFacts ==
  ASSUME job \in Jobs
  PROVE  /\ job.nWord \in Nat \ {0} /\ Half \in Nat \ {0} /\ job.nWord = 2 * Half
         /\ \A x \in Nat : x < Half => Signed(x) = x
<1>1. job.nWord \in Nat \ {0} /\ job.nWord % 8 = 0 BY JobFacts
<1>2. PICK w \in Nat \ {0} : w = job.nWord /\ w % 8 = 0 BY <1>1
<1>3. Half = w \div 2 BY <1>2 DEF Half
<1>4. w \div 2 \in Nat \ {0} /\ w = 2 * (w \div 2) BY <1>2
<1>5. ASSUME NEW x \in Nat, x < Half PROVE Signed(x) = x
  <2>1. x + Half \in Nat /\ x + Half < w BY <1>3, <1>4, <1>5
  <2>2. (x + Half) % w = x + Half BY <1>2, <2>1, Small
  <2>3. (x + Half) - Half = x BY <1>3, <1>4
  <2> QED BY <1>2, <2>2, <2>3 DEF Signed
<1> QED BY <1>2, <1>3, <1>4, <1>5

LEMMA FitsSame ==
  ASSUME job' = job, tmp' = tmp
  PROVE  Fits' <=> Fits
BY DEF Fits, Half, nPos

LEMMA FitsKept ==
  ASSUME job \in Jobs, job' = job, tmp \in Seq(Nat \X Nat), NEW els \in Seq(Nat \X Nat), tmp' = tmp \o els, Fits'
  PROVE  Fits
<1>1. CASE Two(job) BY <1>1 DEF Fits, Half, nPos
<1>2. CASE ~Two(job)
  <2>1. Len(tmp') = Len(tmp) + Len(els) /\ Len(tmp) \in Nat /\ Len(els) \in Nat OBVIOUS
  <2>2. PICK size \in Nat : size = nPos * RecordSize(job)
    <3>1. nPos \in Nat /\ RecordSize(job) \in Nat BY PosFacts, SizeFacts
    <3> QED BY <3>1
  <2>3. 40 + size + 2 * Len(tmp') <= job.nWord BY <1>2, <2>2 DEF Fits, nPos
  <2>4. job.nWord \in Nat BY WordFacts
  <2>5. 40 + size + 2 * Len(tmp) <= job.nWord BY <2>1, <2>3, <2>4
  <2> QED BY <1>2, <2>2, <2>5 DEF Fits
<1> QED BY <1>1, <1>2

(* Of a database that fits the records and the keys are within bounds.       *)
LEMMA FitsFacts ==
  ASSUME job \in Jobs, tmp \in Seq(Nat \X Nat), Fits
  PROVE  /\ Two(job) => /\ 40 + RecordSize(job) * (nPos * nPos) <= Half
                        /\ nPos * nPos < Half
         /\ ~Two(job) => /\ 40 + RecordSize(job) * nPos + 2 * Len(tmp) <= job.nWord
                         /\ nPos < Half /\ Len(tmp) < Half
<1>1. nPos \in Nat /\ RecordSize(job) \in Nat \ {0} /\ Len(tmp) \in Nat BY PosFacts, SizeFacts
<1>2. Half \in Nat \ {0} /\ job.nWord = 2 * Half BY WordFacts
<1>3. PICK h \in Nat : h = Half BY <1>2
<1>4. CASE Two(job)
  <2>1. PICK n \in Nat : n = nPos * nPos BY <1>1
  <2>2. RecordSize(job) = 2 \/ RecordSize(job) = 8 BY <1>4, SizeFacts
  <2>3. 40 + n * RecordSize(job) <= h BY <1>3, <1>4, <2>1 DEF Fits
  <2>4. 40 + RecordSize(job) * n <= h /\ n < h BY <2>2, <2>3
  <2> QED BY <1>3, <1>4, <2>1, <2>4
<1>5. CASE ~Two(job)
  <2>1. PICK n \in Nat : n = nPos BY <1>1
  <2>2. RecordSize(job) \in {6, 8, 64, 128} BY <1>5, SizeFacts
  <2>3. 40 + n * RecordSize(job) + 2 * Len(tmp) <= 2 * h BY <1>2, <1>3, <1>5, <2>1 DEF Fits
  <2>4. 40 + RecordSize(job) * n + 2 * Len(tmp) <= 2 * h /\ n < h /\ Len(tmp) < h
    <3>1. PICK l \in Nat : l = Len(tmp) BY <1>1
    <3>2. CASE RecordSize(job) = 6 BY <2>3, <3>1, <3>2
    <3>3. CASE RecordSize(job) = 8 BY <2>3, <3>1, <3>3
    <3>4. CASE RecordSize(job) = 64 BY <2>3, <3>1, <3>4
    <3>5. CASE RecordSize(job) = 128 BY <2>3, <3>1, <3>5
    <3> QED BY <2>2, <3>2, <3>3, <3>4, <3>5
  <2> QED BY <1>2, <1>3, <1>5, <2>1, <2>4
<1> QED BY <1>4, <1>5

LEMMA Inside ==
  ASSUME job \in Jobs, at \in [i : Nat, j : Nat, below : BOOLEAN], Loops
  PROVE  Us \in Position /\ Them \in Position
<1>1. nPos \in Nat /\ nPos >= 2 BY PosFacts
<1>2. at.i \in Nat /\ at.j \in Nat /\ at.below \in BOOLEAN OBVIOUS
<1> QED BY <1>1, <1>2 DEF Loops, Us, Them, Position

LEMMA ElementsOf ==
  ASSUME job \in Jobs, job.kind = "one", NEW k \in Position
  PROVE  /\ Elements(job, k) \in Seq(Nat \X Nat) /\ Len(Elements(job, k)) \in Nat \ {0}
         /\ \A i \in 1..Len(Elements(job, k)) : Elements(job, k)[i] = <<k, i>>
<1>1. k \in 0..(Count(job) - 1) /\ k \in Nat
  <2>1. nPos \in Nat BY PosFacts
  <2> QED BY <2>1 DEF Position, nPos
<1>2. NonZero(k, 0) \in Nat \ {0} /\ NonZero(k, 1) \in Nat BY <1>1, NonZeroAssumption
<1> DEFINE n == NonZero(k, 0) + (IF job.fGammon THEN NonZero(k, 1) ELSE 0)
<1>3. n \in Nat \ {0} BY <1>2
<1>4. Elements(job, k) = [i \in 1..n |-> <<k, i>>] BY DEF Elements
<1> HIDE DEF n
<1> QED BY <1>1, <1>3, <1>4

LEMMA SubSeqOld ==
  ASSUME NEW S, NEW s \in Seq(S), NEW t \in Seq(S), NEW a \in Nat, NEW n \in Nat, a + n <= Len(s)
  PROVE  SubSeq(s \o t, a + 1, a + n) = SubSeq(s, a + 1, a + n)
<1>1. s \o t \in Seq(S) /\ Len(s \o t) = Len(s) + Len(t) OBVIOUS
<1>2. SubSeq(s \o t, a + 1, a + n) \in Seq(S) /\ Len(SubSeq(s \o t, a + 1, a + n)) = n BY <1>1
<1>3. SubSeq(s, a + 1, a + n) \in Seq(S) /\ Len(SubSeq(s, a + 1, a + n)) = n OBVIOUS
<1>4. ASSUME NEW i \in 1..n
      PROVE  SubSeq(s \o t, a + 1, a + n)[i] = SubSeq(s, a + 1, a + n)[i]
  BY <1>1
<1> QED BY <1>2, <1>3, <1>4

LEMMA SubSeqNew ==
  ASSUME NEW S, NEW s \in Seq(S), NEW t \in Seq(S)
  PROVE  SubSeq(s \o t, Len(s) + 1, Len(s) + Len(t)) = t
<1>1. s \o t \in Seq(S) /\ Len(s \o t) = Len(s) + Len(t) /\ Len(s) \in Nat /\ Len(t) \in Nat OBVIOUS
<1>2. /\ SubSeq(s \o t, Len(s) + 1, Len(s) + Len(t)) \in Seq(S)
      /\ Len(SubSeq(s \o t, Len(s) + 1, Len(s) + Len(t))) = Len(t)
  BY <1>1
<1>3. ASSUME NEW i \in 1..Len(t) PROVE SubSeq(s \o t, Len(s) + 1, Len(s) + Len(t))[i] = t[i]
  BY <1>1
<1> QED BY <1>1, <1>2, <1>3

(* Whoever writes nothing.                                                   *)
LEMMA NothingWritten ==
  ASSUME MakingInv, UNCHANGED <<job, at, file, tmp, npos, output>>, phase' \in {phase, "stopped"}
  PROVE  MakingInv'
<1>1. job' = job /\ at' = at /\ file' = file /\ tmp' = tmp /\ npos' = npos /\ output' = output OBVIOUS
<1>2. nPos' = nPos /\ Entry' = Entry /\ Loops' = Loops /\ Reached' = Reached
  BY <1>1 DEF Entry, Loops, Reached, Us, Them, Position, Compressed, nPos
<1> (Fits' <=> Fits) BY <1>1, FitsSame
<1>3. (SquareHeld' <=> SquareHeld) /\ (RowHeld' <=> RowHeld)
  BY <1>1 DEF SquareHeld, RowHeld, Holds, IndexOf, Compressed, Position, nPos
<1>4. FileInv' BY <1>1, <1>2, <1>3 DEF FileInv, MakingInv
<1>5. ProgressInv' BY <1>1, <1>2 DEF ProgressInv, MakingInv
<1>6. OutputInv'
  BY <1>1, <1>2 DEF OutputInv, MakingInv, Holds, IndexOf, Compressed, Position, nPos
<1> QED BY <1>1, <1>4, <1>5, <1>6 DEF MakingInv

LEMMA MakingInit ==
  ASSUME Init
  PROVE  MakingInv
<1>1. /\ job \in Jobs /\ at = [i |-> 0, j |-> 0, below |-> FALSE] /\ file = <<>> /\ tmp = <<>> /\ npos = 0
      /\ phase = "making"
  BY DEF Init, First
<1>2. nPos \in Nat /\ nPos >= 2 /\ nPos \in Nat \ {0} BY <1>1, PosFacts
<1>3. Loops BY <1>1, <1>2 DEF Loops
<1>4. Us = 0 /\ Them = 0 BY <1>1 DEF Us, Them
<1>5. CalcPosition(0, 0, nPos) = 0 BY <1>2, CalcFollows
<1>6. Reached = 0 BY <1>1, <1>4, <1>5 DEF Reached
<1>7. ProgressInv BY <1>1, <1>3, <1>6 DEF ProgressInv
<1>8. SquareHeld
  <2>1. \A u \in Position, t \in Position : CalcPosition(u, t, nPos) \in Nat
    BY <1>2, CalcRange DEF Position
  <2>2. Len(file) = 0 BY <1>1
  <2> QED BY <2>1, <2>2 DEF SquareHeld
<1>9. RowHeld BY <1>1 DEF RowHeld
<1>10. FileInv BY <1>1, <1>8, <1>9 DEF FileInv
<1> QED BY <1>1, <1>7, <1>10 DEF MakingInv, OutputInv

(* What Write does, the file first.                                          *)
LEMMA WriteFacts ==
  ASSUME MakingInv, Write
  PROVE  /\ phase = "making" /\ job' = job /\ output' = output
         /\ file \in Seq(Entry) /\ Loops /\ Len(file) = Reached
         /\ IF Two(job) THEN SquareHeld ELSE RowHeld
         /\ Us \in Position /\ Them \in Position
         /\ Compressed => /\ tmp' = tmp \o Elements(job, Us)
                          /\ file' = Append(file, [offset |-> npos % job.nWord, count |-> Len(Elements(job, Us))])
                          /\ npos' = npos + Len(Elements(job, Us))
         /\ ~Compressed => file' = Append(file, Record) /\ tmp' = tmp /\ npos' = npos
         /\ IF at = Last THEN phase' = "written" /\ at' = at ELSE at' = NextPosition /\ phase' = phase
<1>1. phase = "making" /\ job' = job /\ output' = output
      /\ IF at = Last THEN phase' = "written" /\ at' = at ELSE at' = NextPosition /\ phase' = phase
  BY DEF Write
<1>2. file \in Seq(Entry) /\ Loops /\ Len(file) = Reached /\ IF Two(job) THEN SquareHeld ELSE RowHeld
  BY <1>1 DEF MakingInv, FileInv, ProgressInv
<1>3. Us \in Position /\ Them \in Position BY <1>2, Inside DEF MakingInv
<1>4. Compressed => /\ tmp' = tmp \o Elements(job, Us)
                    /\ file' = Append(file, [offset |-> npos % job.nWord, count |-> Len(Elements(job, Us))])
                    /\ npos' = npos + Len(Elements(job, Us))
  BY DEF Write, WriteRecord, WriteIndex, Compressed
<1>5. ~Compressed => file' = Append(file, Record) /\ tmp' = tmp /\ npos' = npos
  BY DEF Write, WriteRecord, Compressed
<1> QED BY <1>1, <1>2, <1>3, <1>4, <1>5

LEMMA WriteSquare ==
  ASSUME MakingInv, Write, Two(job)
  PROVE  /\ file' \in Seq(Entry)' /\ Len(file') = Len(file) + 1 /\ SquareHeld'
         /\ tmp' = tmp /\ npos' = npos
<1>1. /\ job' = job /\ file \in Seq(Entry) /\ Len(file) = Reached /\ SquareHeld
      /\ Us \in Position /\ Them \in Position
  BY WriteFacts
<1>2. ~Compressed BY DEF Compressed, Two
<1>3. file' = Append(file, <<Us, Them>>) /\ tmp' = tmp /\ npos' = npos
  BY <1>2, WriteFacts DEF Record
<1>4. Entry = Position \X Position /\ Entry' = Entry /\ nPos' = nPos /\ Position' = Position
  BY <1>1 DEF Entry, Position, Compressed, nPos
<1>5. file' \in Seq(Entry) /\ Len(file') = Len(file) + 1 /\ Len(file) \in Nat
  BY <1>1, <1>3, <1>4
<1>6. nPos \in Nat \ {0} BY PosFacts DEF MakingInv
<1>7. Len(file) = CalcPosition(Us, Them, nPos) BY <1>1 DEF Reached
<1>8. ASSUME NEW u \in Position, NEW t \in Position, CalcPosition(u, t, nPos) < Len(file')
      PROVE  file'[CalcPosition(u, t, nPos) + 1] = <<u, t>>
  <2>1. CalcPosition(u, t, nPos) \in Nat BY <1>6, CalcRange DEF Position
  <2>2. CASE CalcPosition(u, t, nPos) < Len(file)
    <3>1. file[CalcPosition(u, t, nPos) + 1] = <<u, t>> BY <1>1, <2>2 DEF SquareHeld
    <3> QED BY <1>1, <1>3, <1>4, <2>1, <2>2, <3>1
  <2>3. CASE CalcPosition(u, t, nPos) = Len(file)
    <3>1. CalcPosition(u, t, nPos) = CalcPosition(Us, Them, nPos) BY <1>7, <2>3
    <3>2. u = Us /\ t = Them
      <4> HIDE DEF Us, Them
      <4> QED BY <1>1, <1>6, <3>1, CalcInjective DEF Position
    <3>3. file'[Len(file) + 1] = <<Us, Them>> BY <1>1, <1>3, <1>4
    <3> QED BY <2>3, <3>2, <3>3
  <2> QED BY <1>5, <1>8, <2>1, <2>2, <2>3
<1>9. SquareHeld'
  <2>1. \A u \in Position, t \in Position : CalcPosition(u, t, nPos) < Len(file') =>
          file'[CalcPosition(u, t, nPos) + 1] = <<u, t>>
    BY <1>8
  <2> QED BY <1>4, <2>1 DEF SquareHeld
<1> QED BY <1>3, <1>4, <1>5, <1>9

(* Elements that are added leave those that are there alone.                 *)
LEMMA IndexKept ==
  ASSUME tmp \in Seq(Nat \X Nat), NEW els \in Seq(Nat \X Nat), tmp' = tmp \o els, job' = job,
         NEW e, NEW k, IndexOf(e, k)
  PROVE  IndexOf(e, k)'
<1>1. e \in Index /\ e.count > 0 /\ e.offset + e.count <= Len(tmp)
      /\ SubSeq(tmp, e.offset + 1, e.offset + e.count) = Elements(job, k)
  BY DEF IndexOf
<1>2. e.offset \in Nat /\ e.count \in Nat BY <1>1 DEF Index
<1>3. SubSeq(tmp \o els, e.offset + 1, e.offset + e.count) = SubSeq(tmp, e.offset + 1, e.offset + e.count)
  BY <1>1, <1>2, SubSeqOld
<1>4. Len(tmp \o els) = Len(tmp) + Len(els) /\ Len(tmp) \in Nat /\ Len(els) \in Nat OBVIOUS
<1>5. e.offset + e.count <= Len(tmp \o els) BY <1>1, <1>2, <1>4
<1> QED BY <1>1, <1>3, <1>5 DEF IndexOf

LEMMA IndexNew ==
  ASSUME tmp \in Seq(Nat \X Nat), NEW els \in Seq(Nat \X Nat), tmp' = tmp \o els, job' = job,
         NEW k, els = Elements(job, k), Len(els) > 0,
         NEW e \in Index, e.offset = Len(tmp), e.count = Len(els)
  PROVE  IndexOf(e, k)'
<1>1. SubSeq(tmp \o els, Len(tmp) + 1, Len(tmp) + Len(els)) = els BY SubSeqNew
<1>2. Len(tmp \o els) = Len(tmp) + Len(els) /\ Len(tmp) \in Nat /\ Len(els) \in Nat OBVIOUS
<1>3. e.offset + e.count <= Len(tmp \o els) BY <1>2
<1> QED BY <1>1, <1>3 DEF IndexOf

LEMMA WriteRow ==
  ASSUME MakingInv, Write, ~Two(job)
  PROVE  /\ file' \in Seq(Entry)' /\ Len(file') = Len(file) + 1 /\ RowHeld'
         /\ tmp' \in Seq(Nat \X Nat) /\ npos' = Len(tmp')
<1>1. /\ job' = job /\ file \in Seq(Entry) /\ Len(file) = Reached /\ RowHeld /\ Us \in Position
  BY WriteFacts
<1>2. Us = Len(file) /\ Len(file) \in Nat BY <1>1 DEF Reached, Us
<1>3. tmp \in Seq(Nat \X Nat) /\ npos = Len(tmp) /\ npos \in Nat BY DEF MakingInv
<1>4. nPos' = nPos /\ Entry' = Entry /\ Position' = Position /\ Compressed' = Compressed
  BY <1>1 DEF Entry, Position, Compressed, nPos
<1>5. CASE Compressed
  <2> PICK els : els = Elements(job, Us) OBVIOUS
  <2> PICK new : new = [offset |-> npos % job.nWord, count |-> Len(els)] OBVIOUS
  <2>1. tmp' = tmp \o els /\ file' = Append(file, new) /\ npos' = npos + Len(els)
    BY <1>5, WriteFacts
  <2>2. els \in Seq(Nat \X Nat) /\ Len(els) \in Nat \ {0}
    BY <1>1, <1>5, ElementsOf DEF MakingInv, Compressed
  <2>3. Entry = Index BY <1>5 DEF Entry
  <2>4. new \in Index /\ new.offset = npos % job.nWord /\ new.count = Len(els)
    <3>1. npos % job.nWord \in Nat BY <1>3, WordFacts DEF MakingInv
    <3> QED BY <2>2, <3>1 DEF Index
  <2>5. file' \in Seq(Entry) /\ Len(file') = Len(file) + 1 BY <1>1, <2>1, <2>3, <2>4
  <2>6. tmp' \in Seq(Nat \X Nat) /\ npos' = Len(tmp') /\ Len(tmp') = Len(tmp) + Len(els)
    BY <1>3, <2>1, <2>2
  <2>7. ASSUME NEW k \in 0..(Len(file') - 1) PROVE Holds(file[k + 1], k)'
    <3>1. CASE k < Len(file)
      <4>1. k \in 0..(Len(file) - 1) /\ k + 1 \in 1..Len(file) BY <1>2, <3>1
      <4>2. file'[k + 1] = file[k + 1] BY <1>1, <2>1, <2>3, <2>4, <4>1
      <4> PICK e : e = file[k + 1] OBVIOUS
      <4>3. ASSUME Fits' PROVE IndexOf(e, k)'
        <5>1. Fits BY <1>1, <1>3, <2>1, <2>2, <4>3, FitsKept DEF MakingInv
        <5>2. IndexOf(e, k) BY <1>1, <1>5, <4>1, <5>1 DEF RowHeld, Holds
        <5> QED BY <1>1, <1>3, <2>1, <2>2, <5>2, IndexKept
      <4> QED BY <1>4, <1>5, <4>2, <4>3 DEF Holds
    <3>2. CASE k = Len(file)
      <4>1. file'[k + 1] = new BY <1>1, <2>1, <2>3, <2>4, <3>2
      <4>2. els = Elements(job, k) BY <1>2, <3>2
      <4>3. ASSUME Fits' PROVE IndexOf(new, k)'
        <5>1. Fits /\ job \in Jobs BY <1>1, <1>3, <2>1, <2>2, <4>3, FitsKept DEF MakingInv
        <5>2. Len(tmp) < Half /\ Half \in Nat /\ job.nWord = 2 * Half /\ job.nWord \in Nat \ {0}
          BY <1>3, <5>1, FitsFacts, WordFacts
        <5>3. npos < job.nWord BY <1>3, <5>2
        <5>4. Len(els) > 0 /\ new.offset = Len(tmp) BY <1>3, <2>2, <2>4, <5>2, <5>3, Small
        <5> QED BY <1>1, <1>3, <2>1, <2>2, <2>4, <4>2, <5>4, IndexNew
      <4> QED BY <1>4, <1>5, <4>1, <4>3 DEF Holds
    <3> QED BY <1>2, <2>5, <3>1, <3>2
  <2>8. RowHeld' BY <2>7 DEF RowHeld
  <2> QED BY <1>4, <2>5, <2>6, <2>8
<1>6. CASE ~Compressed
  <2>1. file' = Append(file, Us) /\ tmp' = tmp /\ npos' = npos BY <1>6, WriteFacts DEF Record
  <2>2. Entry = Position BY <1>6 DEF Entry
  <2>3. file' \in Seq(Entry) /\ Len(file') = Len(file) + 1 BY <1>1, <2>1, <2>2
  <2>4. ASSUME NEW k \in 0..(Len(file') - 1) PROVE file'[k + 1] = k
    <3>1. CASE k < Len(file)
      <4>1. k \in 0..(Len(file) - 1) /\ k + 1 \in 1..Len(file) BY <1>2, <3>1
      <4>2. file[k + 1] = k BY <1>1, <1>6, <4>1 DEF RowHeld, Holds
      <4> QED BY <1>1, <2>1, <2>2, <4>1, <4>2
    <3>2. CASE k = Len(file) BY <1>1, <1>2, <2>1, <2>2, <3>2
    <3> QED BY <1>2, <2>3, <3>1, <3>2
  <2>5. RowHeld' BY <1>4, <1>6, <2>4 DEF RowHeld, Holds
  <2> QED BY <1>3, <1>4, <2>1, <2>3, <2>5
<1> QED BY <1>5, <1>6

(* Then the loops.                                                           *)
LEMMA WriteReached ==
  ASSUME MakingInv, Write
  PROVE  /\ at' \in [i : Nat, j : Nat, below : BOOLEAN]
         /\ at = Last => Reached + 1 = IF Two(job) THEN nPos * nPos ELSE nPos
         /\ at # Last => Loops' /\ Reached' = Reached + 1
<1>1. /\ job' = job /\ Loops
      /\ IF at = Last THEN phase' = "written" /\ at' = at ELSE at' = NextPosition /\ phase' = phase
  BY WriteFacts
<1>2. nPos' = nPos BY <1>1 DEF nPos
<1>3. nPos \in Nat /\ nPos >= 2 /\ nPos \in Nat \ {0} BY PosFacts DEF MakingInv
<1>4. at \in [i : Nat, j : Nat, below : BOOLEAN] BY DEF MakingInv
<1>5. at.i \in Nat /\ at.j \in Nat /\ at.below \in BOOLEAN BY <1>4
<1>6. CASE ~Two(job)
  <2>1. at.i < nPos /\ at.j = 0 /\ at.below = FALSE BY <1>1, <1>6 DEF Loops
  <2>2. Last = [i |-> nPos - 1, j |-> 0, below |-> FALSE] BY <1>6 DEF Last, First
  <2>3. at = Last <=> at.i = nPos - 1 BY <1>4, <2>1, <2>2
  <2>4. CASE at = Last BY <1>1, <1>3, <1>4, <1>6, <2>3, <2>4 DEF Reached
  <2>5. CASE at # Last
    <3>1. at' = [at EXCEPT !.i = @ + 1] BY <1>1, <1>6, <2>5 DEF NextPosition
    <3>2. at' \in [i : Nat, j : Nat, below : BOOLEAN] BY <1>4, <3>1
    <3>3. at'.i = at.i + 1 /\ at'.j = 0 /\ at'.below = FALSE BY <1>4, <2>1, <3>1
    <3>4. at'.i < nPos BY <1>3, <1>5, <2>1, <2>3, <2>5, <3>3
    <3> QED BY <1>1, <1>2, <1>6, <2>5, <3>2, <3>3, <3>4 DEF Loops, Reached
  <2> QED BY <2>4, <2>5
<1>7. CASE Two(job)
  <2> DEFINE n == nPos  i == at.i  j == at.j
  <2>1. at.i < nPos /\ at.j < nPos /\ IF at.below THEN at.i < at.j ELSE at.j <= at.i
    BY <1>1, <1>7 DEF Loops
  <2>2. Last = [i |-> nPos - 2, j |-> nPos - 1, below |-> TRUE] BY <1>7 DEF Last
  <2>3. at = Last <=> at.i = nPos - 2 /\ at.j = nPos - 1 /\ at.below = TRUE BY <1>4, <2>2
  <2>4. Reached = CalcPosition(IF at.below THEN at.i + nPos - at.j ELSE at.i - at.j, at.j, nPos)
    BY <1>7 DEF Reached, Us, Them
  <2>5. Reached' = CalcPosition(IF at'.below THEN at'.i + nPos - at'.j ELSE at'.i - at'.j, at'.j, nPos)
    BY <1>1, <1>2, <1>7 DEF Reached, Us, Them
  <2>6. Loops' <=> /\ at'.i < nPos /\ at'.j < nPos
                   /\ IF at'.below THEN at'.i < at'.j ELSE at'.j <= at'.i
    BY <1>1, <1>2, <1>7 DEF Loops
  <2>7. at # Last => at' = IF at.j < (IF at.below THEN nPos - 1 ELSE at.i) THEN [at EXCEPT !.j = @ + 1]
                           ELSE IF at.below THEN [at EXCEPT !.i = @ + 1, !.j = at.i + 2]
                           ELSE IF at.i < nPos - 1 THEN [at EXCEPT !.i = @ + 1, !.j = 0]
                           ELSE [i |-> 0, j |-> 1, below |-> TRUE]
    BY <1>1, <1>7 DEF NextPosition
  <2>8. /\ \A a \in 0..(n - 1), b \in 0..(n - 1) : b < a =>
             CalcPosition(a - (b + 1), b + 1, n) = CalcPosition(a - b, b, n) + 1
        /\ \A a \in 0..(n - 2) : CalcPosition(a + 1, 0, n) = CalcPosition(0, a, n) + 1
        /\ CalcPosition(n - 1, 1, n) = CalcPosition(0, n - 1, n) + 1
        /\ \A a \in 0..(n - 1), b \in 0..(n - 1) : a < b /\ b < n - 1 =>
             CalcPosition(a + n - (b + 1), b + 1, n) = CalcPosition(a + n - b, b, n) + 1
        /\ \A a \in 0..(n - 3) :
             CalcPosition(n - 1, a + 2, n) = CalcPosition(a + 1, n - 1, n) + 1
        /\ CalcPosition(n - 1, n - 1, n) = n * n - 1
    BY <1>3, CalcFollows
  <2>9. CASE at = Last
    <3>1. Reached = CalcPosition(nPos - 1, nPos - 1, nPos)
      <4>1. at.i + nPos - at.j = nPos - 1 BY <1>3, <2>3, <2>9
      <4> QED BY <2>3, <2>4, <2>9, <4>1
    <3>2. Reached = nPos * nPos - 1 BY <2>8, <3>1
    <3>3. Reached + 1 = nPos * nPos
      <4>1. PICK s \in Nat : s = nPos * nPos BY <1>3
      <4> QED BY <3>2, <4>1
    <3> QED BY <1>1, <1>4, <1>7, <2>9, <3>3
  <2>10. CASE at # Last /\ ~at.below /\ at.j < at.i
    <3>1. at' = [at EXCEPT !.j = @ + 1] BY <2>7, <2>10
    <3>2. at' \in [i : Nat, j : Nat, below : BOOLEAN] BY <1>4, <3>1
    <3>3. at'.i = at.i /\ at'.j = at.j + 1 /\ at'.below = at.below BY <1>4, <3>1
    <3>4. Reached' = CalcPosition(i - (j + 1), j + 1, n) /\ Reached = CalcPosition(i - j, j, n)
      BY <2>4, <2>5, <2>10, <3>3
    <3>5. Reached' = Reached + 1
      <4>1. i \in 0..(n - 1) /\ j \in 0..(n - 1) /\ j < i BY <1>3, <1>5, <2>1, <2>10
      <4> QED BY <2>8, <3>4, <4>1
    <3>6. Loops' BY <1>3, <1>5, <2>1, <2>6, <2>10, <3>3
    <3> QED BY <2>10, <3>2, <3>5, <3>6
  <2>11. CASE ~at.below /\ at.j = at.i /\ at.i < nPos - 1
    <3>1. at # Last BY <2>3, <2>11
    <3>2. at' = [at EXCEPT !.i = @ + 1, !.j = 0] BY <1>5, <2>7, <2>11, <3>1
    <3>3. at' \in [i : Nat, j : Nat, below : BOOLEAN]
      <4>1. [at EXCEPT !.i = @ + 1] \in [i : Nat, j : Nat, below : BOOLEAN] BY <1>4
      <4>2. at' = [[at EXCEPT !.i = @ + 1] EXCEPT !.j = 0] BY <3>2
      <4> QED BY <4>1, <4>2
    <3>4. at'.i = at.i + 1 /\ at'.j = 0 /\ at'.below = at.below BY <1>4, <3>2
    <3>5. Reached' = CalcPosition(i + 1, 0, n) /\ Reached = CalcPosition(0, i, n)
      <4>1. (i + 1) - 0 = i + 1 /\ i - i = 0 BY <1>5
      <4> QED BY <2>4, <2>5, <2>11, <3>4, <4>1
    <3>6. Reached' = Reached + 1 BY <1>3, <1>5, <2>8, <2>11, <3>5
    <3>7. Loops' BY <1>3, <1>5, <2>6, <2>11, <3>4
    <3> QED BY <3>1, <3>3, <3>6, <3>7
  <2>12. CASE ~at.below /\ at.j = at.i /\ at.i = nPos - 1
    <3>1. at # Last BY <2>3, <2>12
    <3>2. at' = [i |-> 0, j |-> 1, below |-> TRUE] BY <1>3, <1>5, <2>7, <2>12, <3>1
    <3>3. Reached' = CalcPosition(n - 1, 1, n) /\ Reached = CalcPosition(0, n - 1, n)
      <4>1. 0 + n - 1 = n - 1 /\ (n - 1) - (n - 1) = 0 BY <1>3
      <4>2. at'.i = 0 /\ at'.j = 1 /\ at'.below = TRUE BY <3>2
      <4>3. Reached' = CalcPosition(0 + n - 1, 1, n) BY <2>5, <4>2
      <4>4. Reached = CalcPosition((n - 1) - (n - 1), n - 1, n) BY <2>4, <2>12
      <4> QED BY <4>1, <4>3, <4>4
    <3>4. Reached' = Reached + 1 BY <2>8, <3>3
    <3>5. Loops' BY <1>3, <2>6, <3>2
    <3>6. at' \in [i : Nat, j : Nat, below : BOOLEAN] BY <3>2
    <3> QED BY <3>1, <3>4, <3>5, <3>6
  <2>13. CASE at.below /\ at.j < nPos - 1
    <3>1. at # Last BY <1>3, <1>5, <2>3, <2>13
    <3>2. at' = [at EXCEPT !.j = @ + 1] BY <2>7, <2>13, <3>1
    <3>3. at' \in [i : Nat, j : Nat, below : BOOLEAN] BY <1>4, <3>2
    <3>4. at'.i = at.i /\ at'.j = at.j + 1 /\ at'.below = at.below BY <1>4, <3>2
    <3>5. Reached' = CalcPosition(i + n - (j + 1), j + 1, n) /\ Reached = CalcPosition(i + n - j, j, n)
      BY <2>4, <2>5, <2>13, <3>4
    <3>6. Reached' = Reached + 1 BY <1>3, <1>5, <2>1, <2>8, <2>13, <3>5
    <3>7. Loops' BY <1>3, <1>5, <2>1, <2>6, <2>13, <3>4
    <3> QED BY <3>1, <3>3, <3>6, <3>7
  <2>14. CASE at # Last /\ at.below /\ at.j = nPos - 1
    <3>1. at.i <= nPos - 3 BY <1>3, <1>5, <2>1, <2>3, <2>14
    <3>2. at' = [at EXCEPT !.i = @ + 1, !.j = at.i + 2] BY <1>3, <2>7, <2>14
    <3>3. at' \in [i : Nat, j : Nat, below : BOOLEAN]
      <4>1. [at EXCEPT !.i = @ + 1] \in [i : Nat, j : Nat, below : BOOLEAN] BY <1>4
      <4>2. PICK a \in [i : Nat, j : Nat, below : BOOLEAN] : a = [at EXCEPT !.i = @ + 1] BY <4>1
      <4>3. at' = [a EXCEPT !.j = at.i + 2] BY <3>2, <4>2
      <4>4. at.i + 2 \in Nat BY <1>5
      <4> QED BY <4>3, <4>4
    <3>4. at'.i = at.i + 1 /\ at'.j = at.i + 2 /\ at'.below = at.below BY <1>4, <3>2
    <3>5. Reached' = CalcPosition(n - 1, i + 2, n) /\ Reached = CalcPosition(i + 1, n - 1, n)
      <4>1. (i + 1) + n - (i + 2) = n - 1 /\ i + n - (n - 1) = i + 1 BY <1>3, <1>5
      <4>2. Reached' = CalcPosition((i + 1) + n - (i + 2), i + 2, n) BY <2>5, <2>14, <3>4
      <4>3. Reached = CalcPosition(i + n - (n - 1), n - 1, n) BY <2>4, <2>14
      <4> QED BY <4>1, <4>2, <4>3
    <3>6. Reached' = Reached + 1 BY <1>3, <1>5, <2>8, <3>1, <3>5
    <3>7. Loops' BY <1>3, <1>5, <2>6, <2>14, <3>1, <3>4
    <3> QED BY <2>14, <3>3, <3>6, <3>7
  <2> QED
    <3>1. \/ at = Last
          \/ at # Last /\ ~at.below /\ at.j < at.i
          \/ ~at.below /\ at.j = at.i /\ at.i < nPos - 1
          \/ ~at.below /\ at.j = at.i /\ at.i = nPos - 1
          \/ at.below /\ at.j < nPos - 1
          \/ at # Last /\ at.below /\ at.j = nPos - 1
      BY <1>3, <1>5, <2>1
    <3> QED BY <2>9, <2>10, <2>11, <2>12, <2>13, <2>14, <3>1
<1> QED BY <1>6, <1>7

LEMMA Written ==
  ASSUME MakingInv, Write
  PROVE  MakingInv'
<1>1. /\ phase = "making" /\ job' = job /\ Len(file) = Reached
      /\ IF at = Last THEN phase' = "written" /\ at' = at ELSE at' = NextPosition /\ phase' = phase
  BY WriteFacts
<1>2. nPos' = nPos BY <1>1 DEF nPos
<1>3. /\ at' \in [i : Nat, j : Nat, below : BOOLEAN]
      /\ at = Last => Reached + 1 = IF Two(job) THEN nPos * nPos ELSE nPos
      /\ at # Last => Loops' /\ Reached' = Reached + 1
  BY WriteReached
<1>4. /\ file' \in Seq(Entry)' /\ Len(file') = Len(file) + 1
      /\ IF Two(job) THEN SquareHeld' ELSE RowHeld'
      /\ tmp' \in Seq(Nat \X Nat) /\ npos' = Len(tmp')
  <2>1. CASE Two(job) BY <2>1, WriteSquare DEF MakingInv
  <2>2. CASE ~Two(job) BY <2>2, WriteRow
  <2> QED BY <2>1, <2>2
<1>5. FileInv' BY <1>1, <1>4 DEF FileInv
<1>6. ProgressInv'
  <2>1. CASE at = Last BY <1>1, <1>2, <1>3, <1>4, <2>1 DEF ProgressInv
  <2>2. CASE at # Last BY <1>1, <1>2, <1>3, <1>4, <2>2 DEF ProgressInv
  <2> QED BY <2>1, <2>2
<1>7. phase' \in {"making", "written"} BY <1>1
<1>8. OutputInv' BY <1>7 DEF OutputInv
<1> QED BY <1>1, <1>3, <1>4, <1>5, <1>6, <1>7, <1>8 DEF MakingInv

(* The sorted file: record u * nPos + t is that of <<u, t>>.                 *)
LEMMA Finished ==
  ASSUME MakingInv, Finish
  PROVE  MakingInv'
<1>1. phase = "written" /\ phase' = "done" /\ job' = job /\ at' = at /\ tmp' = tmp /\ npos' = npos
      /\ output' = IF Two(job) THEN [k \in 1..(nPos * nPos) |-> file[SortedFrom(k)]] ELSE file
  BY DEF Finish
<1> (Fits' <=> Fits) BY <1>1, FitsSame
<1>2. /\ file \in Seq(Entry) /\ Len(file) = IF Two(job) THEN nPos * nPos ELSE nPos
      /\ IF Two(job) THEN SquareHeld ELSE RowHeld
  BY <1>1 DEF MakingInv, FileInv, ProgressInv
<1>3. nPos' = nPos /\ Entry' = Entry /\ Position' = Position /\ Compressed' = Compressed
  BY <1>1 DEF Entry, Position, Compressed, nPos
<1>4. nPos \in Nat /\ nPos >= 2 /\ nPos \in Nat \ {0} BY PosFacts DEF MakingInv
<1>5. OutputInv'
  <2>1. CASE Two(job)
    <3> DEFINE Of(k) == file[SortedFrom(k)]
    <3>1. ASSUME NEW u \in Position, NEW t \in Position
          PROVE  /\ u * nPos + t + 1 \in 1..(nPos * nPos)
                 /\ (u * nPos + t) \div nPos = u /\ (u * nPos + t) % nPos = t
      <4>1. u \in Nat /\ t \in Nat /\ u <= nPos - 1 /\ t < nPos BY <1>4 DEF Position
      <4>2. u * nPos <= (nPos - 1) * nPos BY <1>4, <4>1
      <4>3. (nPos - 1) * nPos = nPos * nPos - nPos BY <1>4
      <4>4. PICK p \in Nat : p = u * nPos BY <1>4, <4>1
      <4>5. PICK s \in Nat : s = nPos * nPos BY <1>4
      <4>6. p + t + 1 \in 1..s BY <1>4, <4>1, <4>2, <4>3, <4>4, <4>5
      <4>7. (u * nPos + t) \div nPos = u BY <1>4, <4>1
      <4>8. (u * nPos + t) % nPos = t BY <1>4, <4>1
      <4> QED BY <4>4, <4>5, <4>6, <4>7, <4>8
    <3>2. ASSUME NEW k \in 1..(nPos * nPos)
          PROVE  (k - 1) \div nPos \in Position /\ (k - 1) % nPos \in Position
      <4>1. PICK s \in Nat : s = nPos * nPos BY <1>4
      <4>2. k \in Nat /\ k - 1 \in Nat /\ k - 1 < nPos * nPos BY <4>1
      <4>3. (k - 1) % nPos \in 0..(nPos - 1) BY <1>4, <4>2
      <4>4. (k - 1) \div nPos \in Nat BY <1>4, <4>2
      <4>5. k - 1 = nPos * ((k - 1) \div nPos) + ((k - 1) % nPos) BY <1>4, <4>2
      <4>6. (k - 1) \div nPos < nPos
        <5> SUFFICES ASSUME (k - 1) \div nPos >= nPos PROVE FALSE BY <1>4, <4>4
        <5>1. PICK q \in Nat : q = (k - 1) \div nPos BY <4>4
        <5>2. nPos * q >= nPos * nPos BY <1>4, <5>1
        <5> QED BY <1>4, <4>2, <4>3, <4>5, <5>1, <5>2
      <4> QED BY <1>4, <4>3, <4>4, <4>6 DEF Position
    <3>3. \A u \in Position, t \in Position :
            /\ CalcPosition(u, t, nPos) + 1 \in 1..Len(file)
            /\ file[CalcPosition(u, t, nPos) + 1] = <<u, t>>
      <4> SUFFICES ASSUME NEW u \in Position, NEW t \in Position
                   PROVE  /\ CalcPosition(u, t, nPos) + 1 \in 1..Len(file)
                          /\ file[CalcPosition(u, t, nPos) + 1] = <<u, t>>
        OBVIOUS
      <4>1. CalcPosition(u, t, nPos) \in Nat /\ CalcPosition(u, t, nPos) < nPos * nPos
        BY <1>4, CalcRange DEF Position
      <4>2. Len(file) = nPos * nPos /\ Len(file) \in Nat BY <1>2, <2>1
      <4>3. CalcPosition(u, t, nPos) < Len(file) BY <4>1, <4>2
      <4> QED BY <1>2, <2>1, <4>1, <4>2, <4>3 DEF SquareHeld
    <3>4. Entry = Position \X Position BY <2>1 DEF Entry
    <3>5. output' = [k \in 1..(nPos * nPos) |-> Of(k)] BY <1>1, <2>1
    <3>6. \A k \in 1..(nPos * nPos) :
            /\ Of(k) \in Entry
            /\ Fits => SortedFrom(k) = CalcPosition((k - 1) \div nPos, (k - 1) % nPos, nPos) + 1
      <4> SUFFICES ASSUME NEW k \in 1..(nPos * nPos)
                   PROVE  /\ Of(k) \in Entry
                          /\ Fits => SortedFrom(k) = CalcPosition((k - 1) \div nPos, (k - 1) % nPos, nPos) + 1
        OBVIOUS
      <4>1. PICK u \in Position, t \in Position : u = (k - 1) \div nPos /\ t = (k - 1) % nPos BY <3>2
      <4>2. PICK c \in Nat : c = CalcPosition(u, t, nPos) /\ c < nPos * nPos
        BY <1>4, CalcRange DEF Position
      <4>3. PICK w \in Nat \ {0} : w = job.nWord BY WordFacts DEF MakingInv
      <4>4. PICK size \in {2, 8} : size = RecordSize(job) BY <2>1, SizeFacts DEF MakingInv
      <4>5. SortedFrom(k) = ((size * c) % w) \div size + 1 BY <4>1, <4>2, <4>3, <4>4 DEF SortedFrom
      <4>6. (size * c) % w \in Nat /\ (size * c) % w <= size * c
        <5>1. PICK y \in Nat : y = size * c BY <4>2, <4>4
        <5> QED BY <4>3, <5>1, Remainder
      <4>7. PICK x \in Nat : x = (size * c) % w /\ x <= size * c BY <4>6
      <4>8. x \div size \in Nat /\ x \div size <= c BY <4>2, <4>4, <4>7, SMTT(30)
      <4>9. Len(file) = nPos * nPos /\ Len(file) \in Nat BY <1>2, <2>1
      <4>10. SortedFrom(k) \in 1..Len(file)
        <5>1. PICK m \in Nat : m = Len(file) /\ m = nPos * nPos BY <4>9
        <5>2. PICK q \in Nat : q = x \div size /\ q <= c BY <4>8
        <5>3. SortedFrom(k) = q + 1 BY <4>5, <4>7, <5>2
        <5>4. c < m BY <4>2, <5>1
        <5> QED BY <5>1, <5>2, <5>3, <5>4
      <4>11. Of(k) \in Entry BY <1>2, <4>10
      <4>12. ASSUME Fits PROVE SortedFrom(k) = c + 1
        <5>1. PICK m \in Nat : m = nPos * nPos BY <4>9
        <5>2. 40 + size * m <= Half /\ w = 2 * Half /\ Half \in Nat
          BY <2>1, <4>3, <4>4, <4>12, <5>1, FitsFacts, WordFacts DEF MakingInv
        <5>3. size * c \in Nat /\ size * c < w BY <4>2, <4>4, <5>1, <5>2
        <5>4. (size * c) % w = size * c BY <4>3, <5>3, Small
        <5>5. (size * c) \div size = c BY <4>2, <4>4
        <5> QED BY <4>5, <5>4, <5>5
      <4> HIDE DEF Of
      <4> QED BY <4>1, <4>2, <4>11, <4>12
    <3>7. ASSUME Fits PROVE \A u \in Position, t \in Position : Of(u * nPos + t + 1) = <<u, t>>
      <4> SUFFICES ASSUME NEW u \in Position, NEW t \in Position PROVE Of(u * nPos + t + 1) = <<u, t>>
        OBVIOUS
      <4>1. (u * nPos + t + 1) - 1 = u * nPos + t
        <5>1. PICK p \in Nat : p = u * nPos BY <1>4 DEF Position
        <5> QED BY <1>4, <5>1 DEF Position
      <4>2. ((u * nPos + t + 1) - 1) \div nPos = u /\ ((u * nPos + t + 1) - 1) % nPos = t BY <3>1, <4>1
      <4>3. u * nPos + t + 1 \in 1..(nPos * nPos) BY <3>1
      <4>4. SortedFrom(u * nPos + t + 1) = CalcPosition(u, t, nPos) + 1 BY <3>6, <3>7, <4>2, <4>3
      <4> QED BY <3>3, <4>4
    <3> HIDE DEF Of
    <3>8. nPos * nPos \in Nat BY <1>4
    <3>9. output' \in Seq(Entry) /\ Len(output') = nPos * nPos
      <4>1. PICK s \in Nat : s = nPos * nPos BY <3>8
      <4>2. output' \in [1..s -> Entry] BY <3>5, <3>6, <4>1
      <4> QED BY <4>1, <4>2
    <3>10. Fits => \A u \in Position, t \in Position : output'[u * nPos + t + 1] = <<u, t>>
      BY <3>1, <3>5, <3>7
    <3>11. (Fits => \A u \in Position, t \in Position : output[u * nPos + t + 1] = <<u, t>>)'
      BY <1>3, <3>10
    <3>12. (output \in Seq(Entry) /\ Len(output) = nPos * nPos)' BY <1>3, <3>9
    <3>13. Two(job)' BY <1>1, <2>1
    <3> QED BY <3>11, <3>12, <3>13 DEF OutputInv
  <2>2. CASE ~Two(job)
    <3>1. output' = file BY <1>1, <2>2
    <3>2. \A k \in Position : Holds(file[k + 1], k) BY <1>2, <2>2 DEF RowHeld, Position
    <3>3. \A k \in Position : Holds(output[k + 1], k)'
      BY <1>1, <1>3, <3>1, <3>2 DEF Holds, IndexOf
    <3> QED BY <1>1, <1>2, <1>3, <2>2, <3>1, <3>3 DEF OutputInv
  <2> QED BY <2>1, <2>2
<1>6. FileInv' /\ ProgressInv' BY <1>1 DEF FileInv, ProgressInv
<1> QED BY <1>1, <1>5, <1>6 DEF MakingInv

LEMMA MakingStep ==
  ASSUME MakingInv, Generate
  PROVE  MakingInv'
<1>1. CASE Write BY <1>1, Written
<1>2. CASE Finish BY <1>2, Finished
<1>3. CASE ~Write /\ ~Finish
  <2>1. UNCHANGED <<job, at, file, tmp, npos, output>> /\ phase' \in {phase, "stopped"}
    <3>1. CASE Roll BY <3>1 DEF Roll
    <3>2. CASE BadIndex BY <3>2 DEF BadIndex, Stop
    <3>3. ASSUME NEW j \in todo, LookupKnown(j) \/ LookupHit(j) \/ LookupMiss(j)
          PROVE  UNCHANGED <<job, at, file, tmp, npos, output>> /\ phase' \in {phase, "stopped"}
      <4>1. CASE LookupKnown(j) BY <4>1 DEF LookupKnown, Looked
      <4>2. CASE LookupHit(j) BY <4>2 DEF LookupHit, Looked
      <4>3. CASE LookupMiss(j) BY <4>3 DEF LookupMiss, Looked, Stop
      <4> QED BY <3>3, <4>1, <4>2, <4>3
    <3> QED BY <1>3, <3>1, <3>2, <3>3 DEF Generate
  <2> QED BY <2>1, NothingWritten
<1> QED BY <1>1, <1>2, <1>3

-----------------------------------------------------------------------------
(* Reading the finished file.                                                *)
LEMMA FoundSomething == \A x : Found(x) # None
<1>1. ASSUME NEW x, Found(x) = None PROVE FALSE
  <2>1. DOMAIN [rc |-> "found", of |-> x] = {"rc", "of"} OBVIOUS
  <2>2. DOMAIN [none |-> TRUE] = {"none"} OBVIOUS
  <2>3. "rc" \in DOMAIN [rc |-> "found", of |-> x] /\ "rc" \notin DOMAIN [none |-> TRUE] BY <2>1, <2>2
  <2> QED BY <1>1, <2>3 DEF Found, None
<1> QED BY <1>1

LEMMA RecordThere ==
  ASSUME job \in Jobs, output \in Seq(Entry), NEW k \in Nat, k < Len(output)
  PROVE  Contents(40 + RecordSize(job) * k, RecordSize(job)) = Found(output[k + 1])
<1> DEFINE size == RecordSize(job)
           from == 40 + size * k
           behind == 40 + size * Len(output)
<1>1. size \in Nat \ {0} /\ Len(output) \in Nat BY SizeFacts
<1> HIDE DEF size
<1>2. size * k + size <= size * Len(output)
  <2>1. size * (k + 1) <= size * Len(output) BY <1>1
  <2>2. size * (k + 1) = size * k + size BY <1>1
  <2> QED BY <2>1, <2>2
<1>3. size * k \in Nat /\ size * Len(output) \in Nat BY <1>1
<1>4. from < behind /\ from + size <= behind
  <2>1. PICK p \in Nat, q \in Nat : p = size * k /\ q = size * Len(output) BY <1>3
  <2> QED BY <1>1, <1>2, <2>1
<1>5. from - 40 = size * k
  <2>1. PICK p \in Nat : p = size * k BY <1>3
  <2> QED BY <2>1
<1>6. (size * k) % size = 0 /\ (size * k) \div size = k BY <1>1
<1>7. ReadAt(output, 40, from, size) = Found(output[k + 1])
  <2>1. ~(from + size > behind) /\ ~(from < 0) /\ ~(from < 40)
    <3>1. PICK p \in Nat, q \in Nat : p = size * k /\ q = size * Len(output) BY <1>3
    <3> QED BY <1>1, <1>4, <3>1
  <2>2. (from - 40) % size = 0 /\ (from - 40) \div size = k BY <1>5, <1>6
  <2> HIDE DEF from
  <2> QED BY <2>1, <2>2 DEF ReadAt, size
<1> QED BY <1>4, <1>7 DEF Contents, size

LEMMA ElementsThere ==
  ASSUME MakingInv, job.kind = "one", output \in Seq(Entry),
         NEW k \in Position, NEW e, IndexOf(e, k)
  PROVE  Contents(40 + RecordSize(job) * Len(output) + 2 * e.offset, 2 * e.count) = Found(k)
<1> DEFINE behind == 40 + RecordSize(job) * Len(output)
           els == Elements(job, k)
<1>1. e.offset \in Nat /\ e.count \in Nat /\ e.count > 0 /\ e.offset + e.count <= Len(tmp)
      /\ SubSeq(tmp, e.offset + 1, e.offset + e.count) = els
  BY DEF IndexOf, Index
<1>2. els \in Seq(Nat \X Nat) /\ Len(els) \in Nat \ {0} /\ els[1] = <<k, 1>>
  BY ElementsOf DEF MakingInv
<1>3. behind \in Nat
  <2>1. RecordSize(job) \in Nat /\ Len(output) \in Nat BY SizeFacts DEF MakingInv
  <2> QED BY <2>1
<1>4. Decode(els) = Found(k)
  <2>1. els # <<>> BY <1>2
  <2>2. els[1][1] = k BY <1>2
  <2> HIDE DEF els
  <2>3. els = Elements(job, k) BY DEF els
  <2> QED BY <2>1, <2>2, <2>3 DEF Decode
<1> HIDE DEF behind, els
<1>5. ~(behind + 2 * e.offset < behind) /\ (behind + 2 * e.offset) - behind = 2 * e.offset BY <1>1, <1>3
<1>6. (2 * e.offset) % 2 = 0 /\ (2 * e.offset) \div 2 = e.offset /\ (2 * e.count) \div 2 = e.count
      /\ 2 * e.count # 0
  BY <1>1, SMTT(30)
<1>7. ~(e.offset + e.count > Len(tmp)) BY <1>1 DEF MakingInv
<1>8. Contents(behind + 2 * e.offset, 2 * e.count) = Decode(SubSeq(tmp, e.offset + 1, e.offset + e.count))
  BY <1>5, <1>6, <1>7 DEF Contents, behind
<1> QED BY <1>1, <1>4, <1>8 DEF behind

(* Whose turn it is to use the file, and what each thread has of its record. *)
Exclusive == \A r \in Reader : /\ pc[r] \in {"seek", "read", "release"} => lock = r
                               /\ pc[r] = "read" => pfPos = offset[r]
Opened ==
  pbc # None => /\ phase = "done" /\ job.kind # "heuristic"
                /\ pbc = [bt |-> IF Two(job) THEN "TS" ELSE "OS", nPoints |-> job.nPoints,
                          nChequers |-> job.nChequers, fCubeful |-> job.fCubeful,
                          fGammon |-> job.fGammon, fCompressed |-> job.fCompress]

Wants(r) == IF Two(job) THEN wants[r] ELSE wants[r][1]
Before(r) == pc[r] \in {"lock", "seek", "read"}
Served(r) ==
  /\ pc[r] = "idle" => index[r] = None /\ answer[r] = None
  /\ pc[r] # "idle" => pbc # None /\ wants[r] \in Asked(job)
  /\ Before(r) => answer[r] = None
  /\ Before(r) /\ index[r] = None =>
       offset[r] = Place(wants[r]).from /\ nBytes[r] = Place(wants[r]).bytes
  /\ index[r] # None => /\ Compressed /\ index[r] = Found(index[r].of)
                        /\ IndexOf(index[r].of, wants[r][1])
  /\ Before(r) /\ index[r] # None =>
       offset[r] = SecondPlace(index[r].of.offset) /\ nBytes[r] = 2 * index[r].of.count
  /\ pc[r] = "release" => IF answer[r] = None THEN index[r] # None ELSE answer[r] = Found(Wants(r))
  /\ pc[r] = "answer" => answer[r] = Found(Wants(r))

ReaderTypes ==
  /\ failures \in Nat
  /\ pc \in [Reader -> {"idle", "lock", "seek", "read", "release", "answer"}]
  /\ wants = [r \in Reader |-> wants[r]] /\ offset = [r \in Reader |-> offset[r]]
  /\ nBytes = [r \in Reader |-> nBytes[r]] /\ index = [r \in Reader |-> index[r]]
  /\ answer = [r \in Reader |-> answer[r]]
ReadInv == /\ ReaderTypes /\ Opened
           /\ failures = 0 /\ Fits => Exclusive /\ \A r \in Reader : Served(r)

LEMMA OpenFacts ==
  ASSUME MakingInv, Opened, pbc # None
  PROVE  /\ phase = "done" /\ job.kind \in {"one", "two"} /\ (Two(job) <=> job.kind = "two")
         /\ (pbc.fCompressed /\ pbc.bt = "OS") <=> Compressed
         /\ output \in Seq(Entry) /\ Len(output) = IF Two(job) THEN nPos * nPos ELSE nPos
         /\ \A w : /\ Place(w).bytes = RecordSize(job)
                   /\ ~Two(job) => Place(w).from = (40 + w[1] * RecordSize(job)) % job.nWord
                   /\ Two(job) => Place(w).from = (40 + (w[1] * nPos + w[2]) * RecordSize(job)) % job.nWord
         /\ Compressed => \A x : SecondPlace(x) = (40 + RecordSize(job) * Len(output) + 2 * x) % job.nWord
<1>1. phase = "done" /\ job.kind \in {"one", "two"} /\ (Two(job) <=> job.kind = "two")
      /\ job.fCompress \in BOOLEAN /\ job.fGammon \in BOOLEAN /\ job.fCubeful \in BOOLEAN
  BY JobFacts DEF Opened, MakingInv
<1>2. /\ pbc.bt = (IF Two(job) THEN "TS" ELSE "OS") /\ pbc.nPoints = job.nPoints
      /\ pbc.nChequers = job.nChequers /\ pbc.fCubeful = job.fCubeful
      /\ pbc.fGammon = job.fGammon /\ pbc.fCompressed = job.fCompress
  BY DEF Opened
<1>3. Number = nPos
  <2>1. Count(job) = Combination(job.nPoints + job.nChequers, job.nPoints) BY JobFacts DEF MakingInv
  <2> QED BY <1>2, <2>1 DEF Number, nPos
<1>4. (pbc.fCompressed /\ pbc.bt = "OS") <=> Compressed BY <1>1, <1>2 DEF Compressed
<1>5. output \in Seq(Entry) /\ Len(output) = IF Two(job) THEN nPos * nPos ELSE nPos
  BY <1>1 DEF MakingInv, OutputInv
<1>6. ASSUME NEW w
      PROVE  /\ Place(w).bytes = RecordSize(job)
             /\ ~Two(job) => Place(w).from = (40 + w[1] * RecordSize(job)) % job.nWord
             /\ Two(job) => Place(w).from = (40 + (w[1] * nPos + w[2]) * RecordSize(job)) % job.nWord
  <2>1. CASE Two(job)
    <3>1. pbc.bt = "TS" BY <1>2, <2>1
    <3>2. CASE job.fCubeful BY <1>2, <1>3, <2>1, <3>1, <3>2 DEF Place, RecordSize
    <3>3. CASE ~job.fCubeful BY <1>2, <1>3, <2>1, <3>1, <3>3 DEF Place, RecordSize
    <3> QED BY <3>2, <3>3
  <2>2. CASE ~Two(job) /\ job.fCompress
    <3>1. pbc.bt = "OS" /\ pbc.bt # "TS" BY <1>2, <2>2
    <3>2. CASE job.fGammon BY <1>2, <2>2, <3>1, <3>2 DEF Place, RecordSize, IndexSize
    <3>3. CASE ~job.fGammon BY <1>2, <2>2, <3>1, <3>3 DEF Place, RecordSize, IndexSize
    <3> QED BY <3>2, <3>3
  <2>3. CASE ~Two(job) /\ ~job.fCompress
    <3>1. pbc.bt = "OS" /\ pbc.bt # "TS" BY <1>2, <2>3
    <3>2. CASE job.fGammon BY <1>2, <2>3, <3>1, <3>2 DEF Place, RecordSize
    <3>3. CASE ~job.fGammon BY <1>2, <2>3, <3>1, <3>3 DEF Place, RecordSize
    <3> QED BY <3>2, <3>3
  <2> QED BY <2>1, <2>2, <2>3
<1>7. Compressed => \A x : SecondPlace(x) = (40 + RecordSize(job) * Len(output) + 2 * x) % job.nWord
  <2> SUFFICES ASSUME Compressed, NEW x
               PROVE  SecondPlace(x) = (40 + RecordSize(job) * Len(output) + 2 * x) % job.nWord
    OBVIOUS
  <2>1. ~Two(job) /\ job.fCompress BY <1>1 DEF Compressed
  <2>2. IndexSize = RecordSize(job) BY <1>2, <2>1 DEF IndexSize, RecordSize
  <2>3. Len(output) = nPos BY <1>5, <2>1
  <2>4. RecordSize(job) \in Nat /\ nPos \in Nat BY SizeFacts, PosFacts DEF MakingInv
  <2>5. nPos * RecordSize(job) = RecordSize(job) * nPos BY <2>4
  <2> QED BY <1>3, <2>2, <2>3, <2>5 DEF SecondPlace
<1> QED BY <1>1, <1>4, <1>5, <1>6, <1>7

(* Of a file that fits the offset of a record is as it is computed.          *)
LEMMA WithinWord ==
  ASSUME MakingInv, Opened, pbc # None, Fits, NEW k \in Nat, k < Len(output)
  PROVE  (40 + k * RecordSize(job)) % job.nWord = 40 + RecordSize(job) * k
<1>1. output \in Seq(Entry) /\ Len(output) = (IF Two(job) THEN nPos * nPos ELSE nPos) BY OpenFacts
<1>2. PICK l \in Nat : l = Len(output) BY <1>1
<1>3. PICK w \in Nat \ {0} : w = job.nWord BY WordFacts DEF MakingInv
<1>4. job \in Jobs /\ tmp \in Seq(Nat \X Nat) BY DEF MakingInv
<1>5. PICK size \in Nat \ {0} : size = RecordSize(job) BY <1>4, SizeFacts
<1>6. 40 + size * l <= w
  <2>1. Half \in Nat /\ w = 2 * Half BY <1>3, <1>4, WordFacts
  <2>2. PICK p \in Nat : p = size * l BY <1>2, <1>5
  <2>3. CASE Two(job)
    <3>1. 40 + p <= Half BY <1>1, <1>2, <1>4, <1>5, <2>2, <2>3, FitsFacts
    <3> QED BY <2>1, <2>2, <3>1
  <2>4. CASE ~Two(job)
    <3>1. 40 + p + 2 * Len(tmp) <= w BY <1>1, <1>2, <1>3, <1>4, <1>5, <2>2, <2>4, FitsFacts
    <3>2. Len(tmp) \in Nat BY <1>4
    <3> QED BY <1>3, <2>2, <3>1, <3>2
  <2> QED BY <2>3, <2>4
<1>7. size * k < size * l BY <1>2, <1>5
<1>8. PICK x \in Nat : x = size * k /\ k * size = x BY <1>5
<1>9. PICK y \in Nat : y = size * l BY <1>2, <1>5
<1>10. 40 + x < w BY <1>6, <1>7, <1>8, <1>9
<1>11. (40 + x) % w = 40 + x BY <1>3, <1>10, Small
<1> QED BY <1>3, <1>5, <1>8, <1>11

(* At the place of a position is its record.                                 *)
LEMMA PlaceRight ==
  ASSUME MakingInv, Opened, pbc # None, Fits, NEW w \in Asked(job)
  PROVE  /\ ~Compressed => Contents(Place(w).from, Place(w).bytes) = Found(IF Two(job) THEN w ELSE w[1])
         /\ Compressed => /\ w[1] \in Position
                          /\ \E e : /\ Contents(Place(w).from, Place(w).bytes) = Found(e)
                                    /\ IndexOf(e, w[1])
<1>1. /\ phase = "done" /\ job.kind \in {"one", "two"} /\ (Two(job) <=> job.kind = "two")
      /\ output \in Seq(Entry) /\ Len(output) = (IF Two(job) THEN nPos * nPos ELSE nPos)
      /\ Place(w).bytes = RecordSize(job)
      /\ ~Two(job) => Place(w).from = (40 + w[1] * RecordSize(job)) % job.nWord
      /\ Two(job) => Place(w).from = (40 + (w[1] * nPos + w[2]) * RecordSize(job)) % job.nWord
  BY OpenFacts
<1>2. nPos \in Nat /\ nPos >= 2 BY PosFacts DEF MakingInv
<1>3. job \in Jobs /\ RecordSize(job) \in Nat \ {0} BY SizeFacts DEF MakingInv
<1>4. CASE Two(job)
  <2>1. w \in Position \X Position BY <1>3, <1>4, AskedAssumption DEF Position, nPos
  <2>2. PICK u \in Position, t \in Position : w = <<u, t>> BY <2>1
  <2>3. u \in Nat /\ t \in Nat /\ u <= nPos - 1 /\ t <= nPos - 1 BY <1>2 DEF Position
  <2>4. output[u * nPos + t + 1] = <<u, t>> BY <1>1, <1>4 DEF MakingInv, OutputInv
  <2>5. u * nPos + t \in Nat /\ u * nPos + t < nPos * nPos
    <3>1. u * nPos <= (nPos - 1) * nPos BY <1>2, <2>3
    <3>2. (nPos - 1) * nPos = nPos * nPos - nPos BY <1>2
    <3>3. PICK p \in Nat, s \in Nat : p = u * nPos /\ s = nPos * nPos BY <1>2, <2>3
    <3> QED BY <1>2, <2>3, <3>1, <3>2, <3>3
  <2>6. PICK k \in Nat : k = u * nPos + t BY <2>5
  <2>7. Place(w).from = 40 + RecordSize(job) * k
    <3>1. Place(w).from = (40 + k * RecordSize(job)) % job.nWord BY <1>1, <1>4, <2>2, <2>6
    <3>2. k < Len(output) BY <1>1, <1>4, <2>5, <2>6
    <3> QED BY <1>4, <2>6, <3>1, <3>2, WithinWord
  <2>8. k < Len(output) BY <1>1, <1>4, <2>5, <2>6
  <2>9. Contents(40 + RecordSize(job) * k, RecordSize(job)) = Found(output[k + 1])
    BY <1>1, <1>3, <2>8, RecordThere
  <2>10. output[k + 1] = w BY <2>2, <2>4, <2>6
  <2>11. ~Compressed BY <1>1, <1>4 DEF Compressed
  <2> QED BY <1>1, <1>4, <2>7, <2>9, <2>10, <2>11
<1>5. CASE ~Two(job)
  <2>1. PICK k \in Position : w = <<k>> BY <1>3, <1>5, AskedAssumption DEF Position, nPos
  <2>2. k \in Nat /\ k < Len(output) /\ w[1] = k BY <1>1, <1>2, <1>5, <2>1 DEF Position
  <2>3. Contents(40 + RecordSize(job) * k, RecordSize(job)) = Found(output[k + 1])
    BY <1>1, <1>3, <2>2, RecordThere
  <2>4. Place(w).from = 40 + RecordSize(job) * k
    <3>1. Place(w).from = (40 + k * RecordSize(job)) % job.nWord BY <1>1, <1>5, <2>2
    <3> QED BY <2>2, <3>1, WithinWord
  <2>5. Holds(output[k + 1], k) BY <1>1, <1>5 DEF MakingInv, OutputInv
  <2>6. CASE Compressed
    <3>1. IndexOf(output[k + 1], k) BY <2>5, <2>6 DEF Holds
    <3> QED BY <1>1, <2>2, <2>3, <2>4, <2>6, <3>1
  <2>7. CASE ~Compressed
    <3>1. output[k + 1] = k BY <2>5, <2>7 DEF Holds
    <3> QED BY <1>1, <1>5, <2>2, <2>3, <2>4, <2>7, <3>1
  <2> QED BY <2>6, <2>7
<1> QED BY <1>4, <1>5

(* And behind the index are its elements.                                    *)
LEMMA SecondPartRight ==
  ASSUME MakingInv, Opened, pbc # None, Compressed, Fits, NEW w \in Asked(job), NEW e, IndexOf(e, w[1])
  PROVE  Contents(SecondPlace(e.offset), 2 * e.count) = Found(w[1])
<1>1. w[1] \in Position BY PlaceRight
<1>2. /\ SecondPlace(e.offset) = (40 + RecordSize(job) * Len(output) + 2 * e.offset) % job.nWord
      /\ output \in Seq(Entry) /\ job.kind = "one" /\ ~Two(job) /\ Len(output) = nPos
  BY OpenFacts DEF Compressed
<1>3. Contents(40 + RecordSize(job) * Len(output) + 2 * e.offset, 2 * e.count) = Found(w[1])
  BY <1>1, <1>2, ElementsThere
<1>4. e.offset \in Nat /\ e.count \in Nat /\ e.count > 0 /\ e.offset + e.count <= Len(tmp)
  BY DEF IndexOf, Index
<1>5. job \in Jobs /\ tmp \in Seq(Nat \X Nat) /\ Len(tmp) \in Nat BY DEF MakingInv
<1>6. 40 + RecordSize(job) * Len(output) + 2 * Len(tmp) <= job.nWord BY <1>2, <1>5, FitsFacts
<1>7. PICK p \in Nat : p = RecordSize(job) * Len(output) BY <1>2, <1>5, SizeFacts
<1>8. PICK x \in Nat : x = 40 + p + 2 * e.offset BY <1>4
<1>9. job.nWord \in Nat \ {0} BY <1>5, WordFacts
<1>10. x < job.nWord
  <2>1. PICK l \in Nat, m \in Nat : l = Len(tmp) /\ m = job.nWord /\ 40 + p + 2 * l <= m
    BY <1>5, <1>6, <1>7, <1>9
  <2>2. e.offset < l BY <1>4, <2>1
  <2> QED BY <1>4, <1>8, <2>1, <2>2
<1>11. x % job.nWord = x BY <1>9, <1>10, Small
<1> QED BY <1>2, <1>3, <1>7, <1>8, <1>11

(* A step that changes nothing of a thread, and what has been made.          *)
LEMMA Untouched ==
  ASSUME NEW r, job' = job, tmp' = tmp, pbc' = pbc, Served(r),
         pc'[r] = pc[r], wants'[r] = wants[r], offset'[r] = offset[r], nBytes'[r] = nBytes[r],
         index'[r] = index[r], answer'[r] = answer[r]
  PROVE  Served(r)'
<1>1. Place(wants[r])' = Place(wants[r]) /\ \A x : SecondPlace(x)' = SecondPlace(x)
  BY DEF Place, SecondPlace, Number, IndexSize
<1>2. Wants(r)' = Wants(r) /\ Before(r)' = Before(r) BY DEF Wants, Before
<1>3. index[r] # None => (IndexOf(index[r].of, wants[r][1])' <=> IndexOf(index[r].of, wants[r][1]))
  BY DEF IndexOf
<1>4. Compressed' = Compressed BY DEF Compressed
<1> QED BY <1>1, <1>2, <1>3, <1>4 DEF Served

(* What the steps of the readers leave alone.                                *)
LEMMA FileKept ==
  ASSUME MakingInv, UNCHANGED vars
  PROVE  MakingInv'
BY NothingWritten DEF vars

LEMMA OpenedKept ==
  ASSUME Opened, UNCHANGED <<job, phase, pbc>>
  PROVE  Opened'
BY DEF Opened

LEMMA ReadInit ==
  ASSUME InitRead
  PROVE  ReadInv
BY FoundSomething DEF InitRead, ReadInv, ReaderTypes, Opened, Exclusive, Served, Before

LEMMA FitsBefore ==
  ASSUME MakingInv, Generate, Fits'
  PROVE  Fits
<1>1. CASE Write
  <2>1. job \in Jobs /\ job' = job /\ tmp \in Seq(Nat \X Nat) /\ Us \in Position BY <1>1, WriteFacts DEF MakingInv
  <2>2. CASE Compressed
    <3>1. PICK els : els = Elements(job, Us) OBVIOUS
    <3>2. els \in Seq(Nat \X Nat) BY <2>1, <2>2, <3>1, ElementsOf DEF Compressed
    <3>3. tmp' = tmp \o els BY <1>1, <2>2, <3>1, WriteFacts
    <3> QED BY <2>1, <3>2, <3>3, FitsKept
  <2>3. CASE ~Compressed
    <3>1. tmp' = tmp BY <1>1, <2>3, WriteFacts
    <3> QED BY <2>1, <3>1, FitsSame
  <2> QED BY <2>2, <2>3
<1>2. CASE ~Write
  <2>1. job' = job /\ tmp' = tmp
    <3>1. CASE Roll BY <3>1 DEF Roll
    <3>2. CASE BadIndex BY <3>2 DEF BadIndex, Stop
    <3>3. CASE Finish BY <3>3 DEF Finish
    <3>4. ASSUME NEW j \in todo, LookupKnown(j) \/ LookupHit(j) \/ LookupMiss(j)
          PROVE  job' = job /\ tmp' = tmp
      BY <3>4 DEF LookupKnown, LookupHit, LookupMiss, Looked, Stop
    <3> QED BY <1>2, <3>1, <3>2, <3>3, <3>4 DEF Generate
  <2> QED BY <2>1, FitsSame
<1> QED BY <1>1, <1>2

LEMMA Making ==
  ASSUME MakingInv, ReadInv, Generate, UNCHANGED readers
  PROVE  ReadInv'
<1>1. phase # "done"
  BY DEF Generate, Roll, Write, Finish, BadIndex, LookupKnown, LookupHit, LookupMiss
<1>2. pbc = None /\ pbc' = None BY <1>1 DEF ReadInv, Opened, readers, file_vars
<1>3. Opened' BY <1>2 DEF Opened
<1>4. ReaderTypes' BY DEF ReadInv, ReaderTypes, readers, file_vars
<1>5. ASSUME failures' = 0, Fits' PROVE Exclusive' /\ \A r \in Reader : Served(r)'
  <2>1. failures = 0 /\ Fits BY <1>5, FitsBefore DEF readers, file_vars
  <2>2. Exclusive' BY <2>1 DEF ReadInv, Exclusive, readers, file_vars
  <2>3. ASSUME NEW r \in Reader PROVE Served(r)'
    <3>1. pc[r] = "idle" /\ index[r] = None /\ answer[r] = None BY <1>2, <2>1 DEF ReadInv, Served
    <3>2. pc'[r] = "idle" /\ index'[r] = None /\ answer'[r] = None BY <3>1 DEF readers
    <3> QED BY <3>2 DEF Served, Before
  <2> QED BY <2>2, <2>3
<1> QED BY <1>3, <1>4, <1>5 DEF ReadInv

LEMMA Opening ==
  ASSUME MakingInv, ReadInv, BearoffInit
  PROVE  ReadInv'
<1>1. pbc = None /\ UNCHANGED vars
      /\ UNCHANGED <<pfPos, lock, failures, pc, wants, offset, nBytes, index, answer>>
  BY DEF BearoffInit
<1>2. Opened' BY <1>1 DEF BearoffInit, Opened, vars
<1>3. ReaderTypes' BY <1>1 DEF ReadInv, ReaderTypes
<1>4. ASSUME failures' = 0, Fits' PROVE Exclusive' /\ \A r \in Reader : Served(r)'
  <2>1. failures = 0 /\ Fits BY <1>1, <1>4, FitsSame DEF vars
  <2>2. Exclusive' BY <1>1, <2>1 DEF ReadInv, Exclusive
  <2>3. ASSUME NEW r \in Reader PROVE Served(r)'
    <3>1. pc[r] = "idle" /\ index[r] = None /\ answer[r] = None BY <1>1, <2>1 DEF ReadInv, Served
    <3>2. pc'[r] = "idle" /\ index'[r] = None /\ answer'[r] = None BY <1>1, <3>1
    <3> QED BY <3>2 DEF Served, Before
  <2> QED BY <2>2, <2>3
<1> QED BY <1>2, <1>3, <1>4 DEF ReadInv

(* A step of one thread: the others are served as before.                    *)
LEMMA OthersServed ==
  ASSUME MakingInv, ReadInv, NEW r \in Reader, UNCHANGED vars, pbc' = pbc, failures' = failures,
         ReaderTypes',
         \A q \in Reader : q # r =>
           /\ pc'[q] = pc[q] /\ wants'[q] = wants[q] /\ offset'[q] = offset[q]
           /\ nBytes'[q] = nBytes[q] /\ index'[q] = index[q] /\ answer'[q] = answer[q],
         failures = 0 /\ Fits => Exclusive' /\ Served(r)'
  PROVE  ReadInv'
<1>1. job' = job /\ tmp' = tmp /\ phase' = phase BY DEF vars
<1>2. Opened' BY <1>1, OpenedKept DEF ReadInv
<1>3. ASSUME failures' = 0, Fits' PROVE Exclusive' /\ \A q \in Reader : Served(q)'
  <2>1. failures = 0 /\ Fits BY <1>1, <1>3, FitsSame
  <2>2. ASSUME NEW q \in Reader PROVE Served(q)'
    <3>1. CASE q = r BY <2>1, <3>1
    <3>2. CASE q # r
      <4>1. Served(q) BY <2>1 DEF ReadInv
      <4> QED BY <1>1, <3>2, <4>1, Untouched
    <3> QED BY <3>1, <3>2
  <2> QED BY <2>1, <2>2
<1> QED BY <1>2, <1>3 DEF ReadInv

LEMMA Asking ==
  ASSUME MakingInv, ReadInv, NEW r \in Reader, NEW w \in Asked(job), Ask(r, w)
  PROVE  ReadInv'
<1>1. /\ pbc # None /\ pc[r] = "idle" /\ UNCHANGED vars /\ pbc' = pbc /\ failures' = failures
      /\ pc' = [pc EXCEPT ![r] = "lock"] /\ wants' = [wants EXCEPT ![r] = w]
      /\ offset' = [offset EXCEPT ![r] = Place(w).from]
      /\ nBytes' = [nBytes EXCEPT ![r] = Place(w).bytes]
      /\ pfPos' = pfPos /\ lock' = lock /\ index' = index /\ answer' = answer
  BY DEF Ask, Reading
<1>2. ReaderTypes BY DEF ReadInv
<1>3. ReaderTypes' BY <1>1, <1>2 DEF ReaderTypes
<1>4. pc'[r] = "lock" /\ wants'[r] = w /\ offset'[r] = Place(w).from /\ nBytes'[r] = Place(w).bytes
  BY <1>1, <1>2 DEF ReaderTypes
<1>5. \A q \in Reader : q # r =>
        /\ pc'[q] = pc[q] /\ wants'[q] = wants[q] /\ offset'[q] = offset[q]
        /\ nBytes'[q] = nBytes[q] /\ index'[q] = index[q] /\ answer'[q] = answer[q]
  BY <1>1, <1>2 DEF ReaderTypes
<1>6. ASSUME failures = 0, Fits PROVE Exclusive' /\ Served(r)'
  <2>1. Exclusive /\ index[r] = None /\ answer[r] = None BY <1>1, <1>6 DEF ReadInv, Served
  <2>2. Exclusive' BY <1>1, <1>4, <1>5, <2>1 DEF Exclusive
  <2>3. job' = job BY <1>1 DEF vars
  <2>4. Place(w)' = Place(w) BY <1>1, <2>3 DEF Place, Number, IndexSize
  <2>5. Served(r)' BY <1>1, <1>4, <2>1, <2>3, <2>4 DEF Served, Before
  <2> QED BY <2>2, <2>5
<1> QED BY <1>1, <1>3, <1>5, <1>6, OthersServed

LEMMA Locking ==
  ASSUME MakingInv, ReadInv, NEW r \in Reader, MT_Exclusive(r)
  PROVE  ReadInv'
<1>1. /\ pc[r] = "lock" /\ lock = None /\ UNCHANGED vars /\ pbc' = pbc /\ failures' = failures
      /\ pc' = [pc EXCEPT ![r] = "seek"] /\ lock' = r
      /\ pfPos' = pfPos /\ wants' = wants /\ offset' = offset /\ nBytes' = nBytes
      /\ index' = index /\ answer' = answer
  BY DEF MT_Exclusive, Reading
<1>2. ReaderTypes BY DEF ReadInv
<1>3. ReaderTypes' BY <1>1, <1>2 DEF ReaderTypes
<1>4. pc'[r] = "seek" /\ \A q \in Reader : q # r => pc'[q] = pc[q] BY <1>1, <1>2 DEF ReaderTypes
<1>5. ASSUME failures = 0, Fits PROVE Exclusive' /\ Served(r)'
  <2>1. Exclusive /\ Served(r) BY <1>5 DEF ReadInv
  <2>2. Exclusive' BY <1>1, <1>4, <2>1, ReaderAssumption DEF Exclusive
  <2>3. job' = job /\ tmp' = tmp BY <1>1 DEF vars
  <2>4. Place(wants[r])' = Place(wants[r]) /\ \A x : SecondPlace(x)' = SecondPlace(x)
    BY <1>1, <2>3 DEF Place, SecondPlace, Number, IndexSize
  <2>5. index[r] # None => (IndexOf(index[r].of, wants[r][1])' <=> IndexOf(index[r].of, wants[r][1]))
    BY <1>1, <2>3 DEF IndexOf
  <2>6. Compressed' = Compressed BY <2>3 DEF Compressed
  <2>7. Served(r)' BY <1>1, <1>4, <2>1, <2>3, <2>4, <2>5, <2>6 DEF Served, Before
  <2> QED BY <2>2, <2>7
<1> QED BY <1>1, <1>3, <1>4, <1>5, OthersServed

LEMMA Seeking ==
  ASSUME MakingInv, ReadInv, NEW r \in Reader, Seek(r)
  PROVE  ReadInv'
<1>1. /\ pc[r] = "seek" /\ UNCHANGED vars /\ pbc' = pbc /\ failures' = failures
      /\ pc' = [pc EXCEPT ![r] = "read"] /\ pfPos' = offset[r]
      /\ lock' = lock /\ wants' = wants /\ offset' = offset /\ nBytes' = nBytes
      /\ index' = index /\ answer' = answer
  BY DEF Seek, Reading
<1>2. ReaderTypes BY DEF ReadInv
<1>3. ReaderTypes' BY <1>1, <1>2 DEF ReaderTypes
<1>4. pc'[r] = "read" /\ \A q \in Reader : q # r => pc'[q] = pc[q] BY <1>1, <1>2 DEF ReaderTypes
<1>5. ASSUME failures = 0, Fits PROVE Exclusive' /\ Served(r)'
  <2>1. Exclusive /\ Served(r) BY <1>5 DEF ReadInv
  <2>2. Exclusive' BY <1>1, <1>4, <2>1 DEF Exclusive
  <2>3. job' = job /\ tmp' = tmp BY <1>1 DEF vars
  <2>4. Place(wants[r])' = Place(wants[r]) /\ \A x : SecondPlace(x)' = SecondPlace(x)
    BY <1>1, <2>3 DEF Place, SecondPlace, Number, IndexSize
  <2>5. index[r] # None => (IndexOf(index[r].of, wants[r][1])' <=> IndexOf(index[r].of, wants[r][1]))
    BY <1>1, <2>3 DEF IndexOf
  <2>6. Compressed' = Compressed BY <2>3 DEF Compressed
  <2>7. Served(r)' BY <1>1, <1>4, <2>1, <2>3, <2>4, <2>5, <2>6 DEF Served, Before
  <2> QED BY <2>2, <2>7
<1> QED BY <1>1, <1>3, <1>4, <1>5, OthersServed

(* The lock has kept the place of the file.                                  *)
LEMMA TheRead ==
  ASSUME MakingInv, ReadInv, NEW r \in Reader, Read(r)
  PROVE  ReadInv'
<1>1. /\ pc[r] = "read" /\ UNCHANGED vars /\ pbc' = pbc /\ failures' = failures
      /\ pc' = [pc EXCEPT ![r] = "release"] /\ Got(r, Contents(pfPos, nBytes[r]))
      /\ lock' = lock /\ wants' = wants /\ offset' = offset /\ nBytes' = nBytes
  BY DEF Read, Reading
<1>2. ReaderTypes BY DEF ReadInv
<1> DEFINE First2 == FirstOfTwo(r) /\ Contents(pfPos, nBytes[r]) # Garbled
<1>3. /\ index' = [index EXCEPT ![r] = IF First2 THEN Contents(pfPos, nBytes[r]) ELSE @]
      /\ answer' = [answer EXCEPT ![r] = IF First2 THEN @ ELSE Contents(pfPos, nBytes[r])]
  <2>1. CASE First2 BY <1>1, <1>2, <2>1 DEF Got, ReaderTypes
  <2>2. CASE ~First2 BY <1>1, <1>2, <2>2 DEF Got, ReaderTypes
  <2> QED BY <2>1, <2>2
<1>4. ReaderTypes' BY <1>1, <1>2, <1>3 DEF ReaderTypes
<1>5. /\ pc'[r] = "release"
      /\ index'[r] = IF First2 THEN Contents(pfPos, nBytes[r]) ELSE index[r]
      /\ answer'[r] = IF First2 THEN answer[r] ELSE Contents(pfPos, nBytes[r])
  BY <1>1, <1>2, <1>3 DEF ReaderTypes
<1>6. \A q \in Reader : q # r => pc'[q] = pc[q] /\ index'[q] = index[q] /\ answer'[q] = answer[q]
  BY <1>1, <1>2, <1>3 DEF ReaderTypes
<1>7. ASSUME failures = 0, Fits PROVE Exclusive' /\ Served(r)'
  <2>1. Exclusive /\ Served(r) /\ Opened BY <1>7 DEF ReadInv
  <2>2. Exclusive'
    <3>1. lock = r BY <1>1, <2>1 DEF Exclusive
    <3>2. \A q \in Reader : q # r => pc[q] \notin {"seek", "read", "release"} BY <2>1, <3>1 DEF Exclusive
    <3> QED BY <1>1, <1>5, <1>6, <3>1, <3>2 DEF Exclusive
  <2>3. job' = job /\ tmp' = tmp BY <1>1 DEF vars
  <2>4. /\ pbc # None /\ wants[r] \in Asked(job) /\ answer[r] = None /\ pfPos = offset[r]
        /\ index[r] = None => offset[r] = Place(wants[r]).from /\ nBytes[r] = Place(wants[r]).bytes
        /\ index[r] # None => /\ Compressed /\ index[r] = Found(index[r].of)
                              /\ IndexOf(index[r].of, wants[r][1])
                              /\ offset[r] = SecondPlace(index[r].of.offset)
                              /\ nBytes[r] = 2 * index[r].of.count
    BY <1>1, <2>1 DEF Served, Before, Exclusive
  <2>5. FirstOfTwo(r) <=> Compressed /\ index[r] = None
    <3>1. (pbc.fCompressed /\ pbc.bt = "OS") <=> Compressed BY <2>1, <2>4, OpenFacts
    <3> QED BY <3>1 DEF FirstOfTwo
  <2>6. Wants(r)' = Wants(r) /\ Compressed' = Compressed /\ ~Before(r)'
    BY <1>1, <1>5, <2>3 DEF Wants, Compressed, Before
  <2>7. CASE Compressed /\ index[r] = None
    <3>1. PICK e : Contents(pfPos, nBytes[r]) = Found(e) /\ IndexOf(e, wants[r][1])
      BY <1>7, <2>1, <2>4, <2>7, PlaceRight
    <3> Found(e) # Garbled BY DEF Found, Garbled
    <3>2. index'[r] = Found(e) /\ answer'[r] = None BY <1>5, <2>4, <2>5, <2>7, <3>1
    <3>3. Found(e).of = e BY DEF Found
    <3>4. IndexOf(e, wants[r][1])' BY <1>1, <2>3, <3>1 DEF IndexOf
    <3>5. index'[r] # None BY <3>2, FoundSomething
    <3>6. index'[r] = Found(index'[r].of) /\ index'[r].of = e BY <3>2, <3>3
    <3>7. IndexOf(index[r].of, wants[r][1])' BY <3>4, <3>6 DEF IndexOf
    <3> QED BY <1>1, <1>5, <2>2, <2>3, <2>4, <2>6, <2>7, <3>2, <3>5, <3>6, <3>7 DEF Served
  <2>8. CASE ~(Compressed /\ index[r] = None)
    <3>1. Contents(pfPos, nBytes[r]) = Found(Wants(r))
      <4>1. CASE index[r] = None
        <5>1. ~Compressed BY <2>8, <4>1
        <5> QED BY <1>7, <2>1, <2>4, <4>1, <5>1, PlaceRight DEF Wants
      <4>2. CASE index[r] # None
        <5>1. Compressed /\ IndexOf(index[r].of, wants[r][1]) BY <2>4, <4>2
        <5>2. Contents(SecondPlace(index[r].of.offset), 2 * index[r].of.count) = Found(wants[r][1])
          BY <1>7, <2>1, <2>4, <5>1, SecondPartRight
        <5>3. ~Two(job) BY <5>1 DEF Compressed, Two
        <5> QED BY <2>4, <4>2, <5>2, <5>3 DEF Wants
      <4> QED BY <4>1, <4>2
    <3>2. index'[r] = index[r] /\ answer'[r] = Found(Wants(r)) BY <1>5, <2>5, <2>8, <3>1
    <3>3. answer'[r] # None BY <3>2, FoundSomething
    <3>4. index[r] # None => (IndexOf(index[r].of, wants[r][1])' <=> IndexOf(index[r].of, wants[r][1]))
      BY <1>1, <2>3, <3>2 DEF IndexOf
    <3> QED BY <1>1, <1>5, <2>2, <2>3, <2>4, <2>6, <3>2, <3>3, <3>4 DEF Served
  <2> QED BY <2>7, <2>8
<1> QED BY <1>1, <1>4, <1>5, <1>6, <1>7, OthersServed

LEMMA Releasing ==
  ASSUME MakingInv, ReadInv, NEW r \in Reader, MT_Release(r)
  PROVE  ReadInv'
<1>1. /\ pc[r] = "release" /\ UNCHANGED vars /\ pbc' = pbc /\ failures' = failures
      /\ lock' = None /\ pfPos' = pfPos /\ wants' = wants /\ index' = index /\ answer' = answer
      /\ Continue(r)
  BY DEF MT_Release, Reading
<1>2. ReaderTypes BY DEF ReadInv
<1>3. \/ /\ answer[r] # None /\ offset' = offset /\ nBytes' = nBytes /\ pc' = [pc EXCEPT ![r] = "answer"]
      \/ /\ answer[r] = None /\ pc' = [pc EXCEPT ![r] = "lock"]
         /\ offset' = [offset EXCEPT ![r] = SecondPlace(index[r].of.offset)]
         /\ nBytes' = [nBytes EXCEPT ![r] = 2 * index[r].of.count]
  BY <1>1 DEF Continue
<1>4. ReaderTypes' BY <1>1, <1>2, <1>3 DEF ReaderTypes
<1>5. \/ /\ answer[r] # None /\ pc'[r] = "answer"
      \/ /\ answer[r] = None /\ pc'[r] = "lock"
         /\ offset'[r] = SecondPlace(index[r].of.offset)
         /\ nBytes'[r] = 2 * index[r].of.count
  BY <1>2, <1>3 DEF ReaderTypes
<1>6. \A q \in Reader : q # r => pc'[q] = pc[q] /\ offset'[q] = offset[q] /\ nBytes'[q] = nBytes[q]
  BY <1>2, <1>3 DEF ReaderTypes
<1>7. ASSUME failures = 0, Fits PROVE Exclusive' /\ Served(r)'
  <2>1. Exclusive /\ Served(r) BY <1>7 DEF ReadInv
  <2>2. lock = r /\ \A q \in Reader : q # r => pc[q] \notin {"seek", "read", "release"}
    BY <1>1, <2>1 DEF Exclusive
  <2>3. pc'[r] \notin {"seek", "read", "release"} BY <1>5
  <2>4. Exclusive' BY <1>6, <2>2, <2>3 DEF Exclusive
  <2>5. job' = job /\ tmp' = tmp BY <1>1 DEF vars
  <2>6. (\A x : SecondPlace(x)' = SecondPlace(x)) /\ Compressed' = Compressed /\ Wants(r)' = Wants(r)
    BY <1>1, <2>5 DEF SecondPlace, Number, IndexSize, Compressed, Wants
  <2>7. index[r] # None => (IndexOf(index[r].of, wants[r][1])' <=> IndexOf(index[r].of, wants[r][1]))
    BY <1>1, <2>5 DEF IndexOf
  <2>8. /\ pbc # None /\ wants[r] \in Asked(job)
        /\ index[r] # None => /\ Compressed /\ index[r] = Found(index[r].of)
                              /\ IndexOf(index[r].of, wants[r][1])
        /\ IF answer[r] = None THEN index[r] # None ELSE answer[r] = Found(Wants(r))
    BY <1>1, <2>1 DEF Served
  <2>9. CASE answer[r] # None
    <3>1. pc'[r] = "answer" BY <1>5, <2>9
    <3> QED BY <1>1, <2>4, <2>5, <2>6, <2>7, <2>8, <2>9, <3>1 DEF Served, Before
  <2>10. CASE answer[r] = None
    <3>1. pc'[r] = "lock" /\ offset'[r] = SecondPlace(index[r].of.offset) /\ nBytes'[r] = 2 * index[r].of.count
      BY <1>5, <2>10
    <3> QED BY <1>1, <2>4, <2>5, <2>6, <2>7, <2>8, <2>10, <3>1 DEF Served, Before
  <2> QED BY <2>9, <2>10
<1> QED BY <1>1, <1>4, <1>6, <1>7, OthersServed

LEMMA Answering ==
  ASSUME MakingInv, ReadInv, NEW r \in Reader, Answered(r)
  PROVE  ReadInv'
<1>1. /\ pc[r] = "answer" /\ UNCHANGED vars /\ pbc' = pbc /\ failures' = failures
      /\ pc' = [pc EXCEPT ![r] = "idle"] /\ wants' = [wants EXCEPT ![r] = <<>>]
      /\ index' = [index EXCEPT ![r] = None] /\ answer' = [answer EXCEPT ![r] = None]
      /\ pfPos' = pfPos /\ lock' = lock /\ offset' = offset /\ nBytes' = nBytes
  BY DEF Answered, Reading
<1>2. ReaderTypes BY DEF ReadInv
<1>3. ReaderTypes' BY <1>1, <1>2 DEF ReaderTypes
<1>4. pc'[r] = "idle" /\ index'[r] = None /\ answer'[r] = None BY <1>1, <1>2 DEF ReaderTypes
<1>5. \A q \in Reader : q # r =>
        /\ pc'[q] = pc[q] /\ wants'[q] = wants[q] /\ offset'[q] = offset[q]
        /\ nBytes'[q] = nBytes[q] /\ index'[q] = index[q] /\ answer'[q] = answer[q]
  BY <1>1, <1>2 DEF ReaderTypes
<1>6. ASSUME failures = 0, Fits PROVE Exclusive' /\ Served(r)'
  <2>1. Exclusive BY <1>6 DEF ReadInv
  <2>2. Exclusive' BY <1>1, <1>4, <1>5, <2>1 DEF Exclusive
  <2>3. Served(r)' BY <1>4 DEF Served, Before
  <2> QED BY <2>2, <2>3
<1> QED BY <1>1, <1>3, <1>5, <1>6, OthersServed

(* Of what comes after a read that has failed nothing more is said.          *)
LEMMA Failing ==
  ASSUME MakingInv, ReadInv, NEW r \in Reader, ReadFails(r)
  PROVE  ReadInv'
<1>1. /\ UNCHANGED vars /\ pbc' = pbc /\ failures' = failures + 1 /\ wants' = wants
      /\ pc' = [pc EXCEPT ![r] = IF FirstOfTwo(r) THEN "lock" ELSE "answer"]
      /\ Got(r, IF FirstOfTwo(r) THEN Found([offset |-> 0, count |-> 0]) ELSE Garbled)
  BY DEF ReadFails
<1>2. ReaderTypes BY DEF ReadInv
<1>3. failures' \in Nat /\ failures' # 0 BY <1>1, <1>2 DEF ReaderTypes
<1>4. pc' \in [Reader -> {"idle", "lock", "seek", "read", "release", "answer"}]
  <2>1. (IF FirstOfTwo(r) THEN "lock" ELSE "answer") \in {"idle", "lock", "seek", "read", "release", "answer"}
    OBVIOUS
  <2> QED BY <1>1, <1>2, <2>1 DEF ReaderTypes
<1>5. index' = [q \in Reader |-> index'[q]] /\ answer' = [q \in Reader |-> answer'[q]]
  <2>1. PICK data : Got(r, data) BY <1>1
  <2>2. CASE FirstOfTwo(r) /\ data # Garbled BY <1>2, <2>1, <2>2 DEF Got, ReaderTypes
  <2>3. CASE ~(FirstOfTwo(r) /\ data # Garbled) BY <1>2, <2>1, <2>3 DEF Got, ReaderTypes
  <2> QED BY <2>2, <2>3
<1>6. offset' = [q \in Reader |-> offset'[q]] /\ nBytes' = [q \in Reader |-> nBytes'[q]]
  <2>1. CASE FirstOfTwo(r) BY <1>2, <2>1 DEF ReadFails, ReaderTypes
  <2>2. CASE ~FirstOfTwo(r) BY <1>2, <2>2 DEF ReadFails, ReaderTypes
  <2> QED BY <2>1, <2>2
<1>7. ReaderTypes' BY <1>1, <1>2, <1>3, <1>4, <1>5, <1>6 DEF ReaderTypes
<1>8. Opened' BY <1>1, OpenedKept DEF ReadInv, vars
<1> QED BY <1>3, <1>7, <1>8 DEF ReadInv

LEMMA BearoffStep ==
  ASSUME MakingInv, ReadInv, [Next]_allvars
  PROVE  MakingInv' /\ ReadInv'
<1>1. CASE Generate /\ UNCHANGED readers BY <1>1, MakingStep, Making
<1>2. CASE BearoffInit
  <2>1. UNCHANGED vars BY <1>2 DEF BearoffInit
  <2> QED BY <1>2, <2>1, FileKept, Opening
<1>3. ASSUME NEW r \in Reader, ReaderStep(r) \/ ReadFails(r) \/ \E w \in Asked(job) : Ask(r, w)
      PROVE  MakingInv' /\ ReadInv'
  <2>1. UNCHANGED vars
    BY <1>3 DEF ReaderStep, MT_Exclusive, Seek, Read, MT_Release, Answered, ReadFails, Ask, Reading
  <2>2. MakingInv' BY <2>1, FileKept
  <2>3. CASE MT_Exclusive(r) BY <2>2, <2>3, Locking
  <2>4. CASE Seek(r) BY <2>2, <2>4, Seeking
  <2>5. CASE Read(r) BY <2>2, <2>5, TheRead
  <2>6. CASE MT_Release(r) BY <2>2, <2>6, Releasing
  <2>7. CASE Answered(r) BY <2>2, <2>7, Answering
  <2>8. CASE ReadFails(r) BY <2>2, <2>8, Failing
  <2>9. ASSUME NEW w \in Asked(job), Ask(r, w) PROVE MakingInv' /\ ReadInv' BY <2>2, <2>9, Asking
  <2> QED BY <1>3, <2>3, <2>4, <2>5, <2>6, <2>7, <2>8, <2>9 DEF ReaderStep
<1>4. CASE UNCHANGED allvars
  <2>1. UNCHANGED vars /\ UNCHANGED readers BY <1>4 DEF allvars
  <2>2. MakingInv' BY <2>1, FileKept
  <2>3. job' = job /\ tmp' = tmp /\ phase' = phase /\ pbc' = pbc /\ failures' = failures /\ pfPos' = pfPos
        /\ lock' = lock /\ pc' = pc /\ wants' = wants /\ offset' = offset /\ nBytes' = nBytes
        /\ index' = index /\ answer' = answer
    BY <2>1 DEF vars, readers, file_vars
  <2>4. ReaderTypes' BY <2>3 DEF ReadInv, ReaderTypes
  <2>5. Opened' BY <2>3, OpenedKept DEF ReadInv
  <2>6. ASSUME failures' = 0, Fits' PROVE Exclusive' /\ \A r \in Reader : Served(r)'
    <3>1. failures = 0 /\ Fits BY <2>3, <2>6, FitsSame
    <3>2. Exclusive' BY <2>3, <3>1 DEF ReadInv, Exclusive
    <3>3. ASSUME NEW r \in Reader PROVE Served(r)'
      <4>1. Served(r) BY <3>1 DEF ReadInv
      <4> QED BY <2>3, <4>1, Untouched
    <3> QED BY <3>2, <3>3
  <2> QED BY <2>2, <2>4, <2>5, <2>6 DEF ReadInv
<1> QED BY <1>1, <1>2, <1>3, <1>4 DEF Next

LEMMA BearoffInvariant == Spec => [](MakingInv /\ ReadInv)
<1>1. InitRead => MakingInv /\ ReadInv BY MakingInit, ReadInit DEF InitRead
<1>2. MakingInv /\ ReadInv /\ [Next]_allvars => (MakingInv /\ ReadInv)' BY BearoffStep
<1> QED BY <1>1, <1>2, PTL DEF Spec

(* A thread that reads a database gets the record of the position that it    *)
(* evaluates, from where the program that made the database has put it,      *)
(* however the reads of the others come between its own: the lock covers the *)
(* seek and the read, and what is read by the index is still the right one.  *)
THEOREM ReadersGetTheirs == Spec => []ReadsRight
<1>1. MakingInv /\ ReadInv => ReadsRight BY DEF ReadInv, Served, ReadsRight, Wants
<1> QED BY <1>1, BearoffInvariant, PTL

-----------------------------------------------------------------------------
(* A row whose ones are lower has a smaller number.                          *)
LEMMA OnesNext ==
  ASSUME NEW size \in Nat, NEW bits \in SUBSET (0..(size - 1)), NEW n \in Nat \ {0}
  PROVE  OnesBelow(bits, n) = OnesBelow(bits, n - 1) + (IF n - 1 \in bits THEN 1 ELSE 0)
<1> DEFINE below(z) == {b \in bits : b < z}
<1>1. IsFiniteSet(below(n - 1))
  <2>1. below(n - 1) \subseteq bits OBVIOUS
  <2> HIDE DEF below
  <2> QED BY <2>1, OnesFacts, FS_Subset
<1>2. n - 1 \notin below(n - 1) OBVIOUS
<1>3. below(n) = IF n - 1 \in bits THEN below(n - 1) \cup {n - 1} ELSE below(n - 1)
  <2>1. ASSUME NEW b \in bits PROVE b < n <=> b < n - 1 \/ b = n - 1
    <3>1. b \in Int OBVIOUS
    <3> QED BY <3>1
  <2> QED BY <2>1
<1>4. OnesBelow(bits, n) = Cardinality(below(n)) /\ OnesBelow(bits, n - 1) = Cardinality(below(n - 1))
  BY DEF OnesBelow
<1>5. OnesBelow(bits, n - 1) \in Int
  <2>1. n - 1 \in Int OBVIOUS
  <2>2. OnesBelow(bits, n - 1) \in 0..Cardinality(bits) BY <2>1, OnesFacts
  <2> QED BY <2>2
<1> HIDE DEF below
<1>6. Cardinality(below(n - 1) \cup {n - 1}) = Cardinality(below(n - 1)) + 1 BY <1>1, <1>2, FS_AddElement
<1> QED BY <1>3, <1>4, <1>5, <1>6

LEMMA OnesZero ==
  ASSUME NEW size \in Nat, NEW bits \in SUBSET (0..(size - 1))
  PROVE  OnesBelow(bits, 0) = 0
<1>1. {b \in bits : b < 0} = {}
  <2>1. \A b \in bits : b \in Int /\ ~(b < 0) OBVIOUS
  <2> QED BY <2>1
<1> QED BY <1>1, FS_EmptySet DEF OnesBelow

LEMMA OnesSlow ==
  ASSUME NEW size \in Nat, NEW bits \in SUBSET (0..(size - 1)), NEW y \in Nat, NEW n \in Nat
  PROVE  y <= n => OnesBelow(bits, n) \in Nat /\ OnesBelow(bits, n) <= OnesBelow(bits, y) + (n - y)
<1> DEFINE Bad == {k \in Nat : y <= k /\ ~(OnesBelow(bits, k) <= OnesBelow(bits, y) + (k - y))}
<1>0. \A k \in Nat : OnesBelow(bits, k) \in Nat
  <2> TAKE k \in Nat
  <2>1. k \in Int OBVIOUS
  <2>2. OnesBelow(bits, k) \in 0..Cardinality(bits) BY <2>1, OnesFacts
  <2> QED BY <2>2
<1>1. SUFFICES ASSUME Bad # {} PROVE FALSE BY <1>0
<1>2. PICK m \in Bad : \A k \in Bad : m <= k
  <2> HIDE DEF Bad
  <2>1. Bad \in SUBSET Nat BY DEF Bad
  <2> QED BY <1>1, <2>1, LeastNumber
<1>3. m \in Nat /\ y <= m /\ ~(OnesBelow(bits, m) <= OnesBelow(bits, y) + (m - y)) OBVIOUS
<1>4. m # y BY <1>0, <1>3
<1>5. m - 1 \in Nat /\ m # 0 /\ y <= m - 1 /\ m - 1 \notin Bad
  <2> HIDE DEF Bad
  <2> QED BY <1>2, <1>3, <1>4
<1>6. OnesBelow(bits, m - 1) <= OnesBelow(bits, y) + ((m - 1) - y) BY <1>5
<1>7. OnesBelow(bits, m) = OnesBelow(bits, m - 1) + (IF m - 1 \in bits THEN 1 ELSE 0)
  <2> HIDE DEF Bad
  <2> QED BY <1>3, <1>5, OnesNext
<1> HIDE DEF Bad
<1> QED BY <1>0, <1>3, <1>5, <1>6, <1>7

LEMMA WaysType ==
  ASSUME NEW n \in 0..MAX_N, NEW r \in 0..MAX_N
  PROVE  Ways(n, r) \in Nat
<1>1. CASE r = 0 \/ n <= r BY <1>1 DEF Ways
<1>2. CASE ~(r = 0 \/ n <= r)
  <2>1. n \in 1..MAX_N /\ r \in 1..MAX_N BY <1>2 DEF MAX_N
  <2> QED BY <1>2, <2>1, CombinationType DEF Ways
<1> QED BY <1>1, <1>2

(* What PositionF has added up from bit n - 1 on down.                       *)
Below(f, bits, n) == f[n][OnesBelow(bits, n)]

(* One bit more: the step of PositionF.                                      *)
LEMMA BelowNext ==
  ASSUME NEW size \in 0..MAX_N, NEW ones \in 0..MAX_N, NEW bits \in SUBSET (0..(size - 1)), NEW f,
         Numbering(f, bits, size, ones), NEW n \in 0..size, OnesBelow(bits, n) <= ones
  PROVE  LET r == OnesBelow(bits, n)
         IN  /\ r \in 0..n /\ r \in 0..ones
             /\ r = 0 \/ r = n => f[n][r] = 0 /\ Ways(n, r) = 1
             /\ r # 0 /\ r # n =>
                  /\ n # 0 /\ OnesBelow(bits, n - 1) <= ones
                  /\ Ways(n, r) = Ways(n - 1, r - 1) + Ways(n - 1, r)
                  /\ Ways(n, r) \in Nat /\ Ways(n - 1, r - 1) \in Nat /\ Ways(n - 1, r) \in Nat
                  /\ IF n - 1 \in bits THEN /\ OnesBelow(bits, n - 1) = r - 1
                                            /\ f[n][r] = Ways(n - 1, r) + f[n - 1][r - 1]
                     ELSE OnesBelow(bits, n - 1) = r /\ f[n][r] = f[n - 1][r]
<1> DEFINE r == OnesBelow(bits, n)
<1>1. size \in Nat /\ n \in Nat /\ n \in 0..MAX_N BY DEF MAX_N
<1>2. r \in Nat /\ r <= n /\ r <= ones
  <2>1. 0 \in Nat /\ 0 <= n BY <1>1
  <2>2. OnesBelow(bits, n) \in Nat /\ OnesBelow(bits, n) <= OnesBelow(bits, 0) + (n - 0) BY <1>1, <2>1, OnesSlow
  <2>3. OnesBelow(bits, 0) = 0 BY <1>1, OnesZero
  <2> QED BY <1>1, <2>2, <2>3
<1>3. r # 0 => OnesBelow(bits, n) = OnesBelow(bits, n - 1) + (IF n - 1 \in bits THEN 1 ELSE 0)
  <2> SUFFICES ASSUME r # 0 PROVE OnesBelow(bits, n) = OnesBelow(bits, n - 1) + (IF n - 1 \in bits THEN 1 ELSE 0)
    OBVIOUS
  <2>1. n \in Nat \ {0} BY <1>1, <1>2
  <2> HIDE DEF r
  <2> QED BY <1>1, <2>1, OnesNext
<1>4. f[n][r] = IF n <= r \/ r = 0 THEN 0
                ELSE IF n - 1 \in bits THEN Combination(n - 1, r) + f[n - 1][r - 1] ELSE f[n - 1][r]
  <2>1. r \in 0..ones BY <1>2
  <2> HIDE DEF r
  <2> QED BY <2>1 DEF Numbering
<1>5. r = 0 \/ r = n => f[n][r] = 0 /\ Ways(n, r) = 1
  <2> HIDE DEF r
  <2> QED BY <1>1, <1>2, <1>4 DEF Ways
<1>6. ASSUME r # 0, r # n
      PROVE  /\ n # 0 /\ OnesBelow(bits, n - 1) <= ones
             /\ Ways(n, r) = Ways(n - 1, r - 1) + Ways(n - 1, r)
             /\ Ways(n, r) \in Nat /\ Ways(n - 1, r - 1) \in Nat /\ Ways(n - 1, r) \in Nat
             /\ IF n - 1 \in bits THEN /\ OnesBelow(bits, n - 1) = r - 1
                                       /\ f[n][r] = Ways(n - 1, r) + f[n - 1][r - 1]
                ELSE OnesBelow(bits, n - 1) = r /\ f[n][r] = f[n - 1][r]
  <2>1. n \in 1..MAX_N /\ r \in 1..MAX_N /\ r < n /\ n - 1 \in 0..MAX_N /\ r - 1 \in 0..MAX_N /\ r \in 0..MAX_N
    BY <1>1, <1>2, <1>6 DEF MAX_N
  <2>2. /\ Combination(n - 1, r) = Ways(n - 1, r)
        /\ Ways(n, r) = Ways(n - 1, r - 1) + Ways(n - 1, r)
    <3> HIDE DEF r
    <3> QED BY <2>1, WaysSum
  <2>3. Ways(n, r) \in Nat /\ Ways(n - 1, r - 1) \in Nat /\ Ways(n - 1, r) \in Nat
    <3>1. n \in 0..MAX_N BY <1>1
    <3> HIDE DEF r
    <3> QED BY <2>1, <3>1, WaysType
  <2>4. OnesBelow(bits, n - 1) \in Int
    <3>1. n - 1 \in Int BY <1>1
    <3>2. OnesBelow(bits, n - 1) \in 0..Cardinality(bits) BY <1>1, <3>1, OnesFacts
    <3> QED BY <3>2
  <2>5. r = OnesBelow(bits, n - 1) + (IF n - 1 \in bits THEN 1 ELSE 0) BY <1>3, <1>6
  <2> HIDE DEF r
  <2> QED BY <1>2, <1>4, <1>6, <2>1, <2>2, <2>3, <2>4, <2>5
<1>7. r \in 0..n /\ r \in 0..ones BY <1>1, <1>2
<1> QED BY <1>5, <1>6, <1>7

LEMMA BelowWays ==
  ASSUME NEW size \in 0..MAX_N, NEW ones \in 0..MAX_N, NEW bits \in SUBSET (0..(size - 1)), NEW f,
         Numbering(f, bits, size, ones)
  PROVE  \A n \in 0..size : OnesBelow(bits, n) <= ones =>
            Below(f, bits, n) \in Nat /\ Below(f, bits, n) < Ways(n, OnesBelow(bits, n))
<1> DEFINE r(n) == OnesBelow(bits, n)
           Right(n) == r(n) <= ones => f[n][r(n)] \in Nat /\ f[n][r(n)] < Ways(n, r(n))
           Bad == {n \in Nat : n <= size /\ ~Right(n)}
<1>1. ASSUME Bad = {}, NEW n \in 0..size PROVE Right(n)
  <2>1. n \in Nat /\ n <= size OBVIOUS
  <2> HIDE DEF Right
  <2> QED BY <1>1, <2>1
<1>2. SUFFICES ASSUME Bad # {} PROVE FALSE BY <1>1 DEF Below
<1>3. PICK m \in Bad : \A k \in Bad : m <= k
  <2> HIDE DEF Bad
  <2>1. Bad \in SUBSET Nat BY DEF Bad
  <2> QED BY <1>2, <2>1, LeastNumber
<1>4. m \in 0..size /\ r(m) <= ones /\ ~(f[m][r(m)] \in Nat /\ f[m][r(m)] < Ways(m, r(m))) OBVIOUS
<1>5. m # 0 => Right(m - 1)
  <2> SUFFICES ASSUME m # 0 PROVE Right(m - 1) OBVIOUS
  <2>1. m - 1 \in Nat /\ m - 1 <= size BY <1>4
  <2>2. m - 1 \notin Bad
    <3> HIDE DEF Bad
    <3> QED BY <1>3, <1>4, <2>1
  <2> HIDE DEF Right
  <2> QED BY <2>1, <2>2
<1>6. /\ r(m) = 0 \/ r(m) = m => f[m][r(m)] = 0 /\ Ways(m, r(m)) = 1
      /\ r(m) # 0 /\ r(m) # m =>
           /\ m # 0 /\ r(m - 1) <= ones
           /\ Ways(m, r(m)) = Ways(m - 1, r(m) - 1) + Ways(m - 1, r(m))
           /\ Ways(m, r(m)) \in Nat /\ Ways(m - 1, r(m) - 1) \in Nat /\ Ways(m - 1, r(m)) \in Nat
           /\ IF m - 1 \in bits THEN /\ r(m - 1) = r(m) - 1
                                     /\ f[m][r(m)] = Ways(m - 1, r(m)) + f[m - 1][r(m) - 1]
              ELSE r(m - 1) = r(m) /\ f[m][r(m)] = f[m - 1][r(m)]
  <2> HIDE DEF Bad, Right
  <2> QED BY <1>4, BelowNext
<1>7. m # 0 /\ r(m - 1) <= ones => f[m - 1][r(m - 1)] \in Nat /\ f[m - 1][r(m - 1)] < Ways(m - 1, r(m - 1))
  BY <1>5
<1> HIDE DEF Bad, Right, r
<1>8. CASE r(m) = 0 \/ r(m) = m BY <1>4, <1>6, <1>8
<1>9. CASE ~(r(m) = 0 \/ r(m) = m)
  <2>1. CASE m - 1 \in bits BY <1>4, <1>6, <1>7, <1>9, <2>1
  <2>2. CASE m - 1 \notin bits BY <1>4, <1>6, <1>7, <1>9, <2>2
  <2> QED BY <2>1, <2>2
<1> QED BY <1>8, <1>9

(* The ones of the second row are as low as those of the first, or lower.    *)
NoHigher(bits, others, n) == \A z \in 0..n : OnesBelow(bits, z) <= OnesBelow(others, z)
Differ(bits, others, n) == \E z \in 0..n : OnesBelow(bits, z) < OnesBelow(others, z)

LEMMA BelowOrder ==
  ASSUME NEW size \in 0..MAX_N, NEW ones \in 0..MAX_N,
         NEW bits \in SUBSET (0..(size - 1)), NEW f, Numbering(f, bits, size, ones),
         NEW others \in SUBSET (0..(size - 1)), NEW g, Numbering(g, others, size, ones)
  PROVE  \A n \in 0..size :
            /\ OnesBelow(bits, n) <= ones /\ OnesBelow(others, n) = OnesBelow(bits, n)
            /\ NoHigher(bits, others, n) /\ Differ(bits, others, n)
            => Below(g, others, n) < Below(f, bits, n)
<1> DEFINE r(n) == OnesBelow(bits, n)
           q(n) == OnesBelow(others, n)
           If(n) == r(n) <= ones /\ q(n) = r(n) /\ NoHigher(bits, others, n) /\ Differ(bits, others, n)
           Bad == {n \in Nat : n <= size /\ If(n) /\ ~(g[n][q(n)] < f[n][r(n)])}
<1>1. ASSUME Bad = {}, NEW n \in 0..size, If(n) PROVE g[n][q(n)] < f[n][r(n)]
  <2>1. n \in Nat /\ n <= size OBVIOUS
  <2> HIDE DEF If
  <2> QED BY <1>1, <2>1
<1>2. SUFFICES ASSUME Bad # {} PROVE FALSE BY <1>1 DEF Below
<1>3. PICK m \in Bad : \A k \in Bad : m <= k
  <2> HIDE DEF Bad
  <2>1. Bad \in SUBSET Nat BY DEF Bad
  <2> QED BY <1>2, <2>1, LeastNumber
<1>4. m \in Nat /\ m \in 0..size /\ If(m) /\ ~(g[m][q(m)] < f[m][r(m)])
  <2> HIDE DEF If
  <2> QED OBVIOUS
<1>5. m # 0 /\ If(m - 1) => g[m - 1][q(m - 1)] < f[m - 1][r(m - 1)]
  <2> SUFFICES ASSUME m # 0, If(m - 1) PROVE g[m - 1][q(m - 1)] < f[m - 1][r(m - 1)] OBVIOUS
  <2>1. m - 1 \in Nat /\ m - 1 <= size BY <1>4
  <2>2. m - 1 \notin Bad
    <3> HIDE DEF Bad
    <3> QED BY <1>3, <1>4, <2>1
  <2> HIDE DEF If
  <2> QED BY <2>1, <2>2
<1> HIDE DEF Bad
<1>6. r(m) <= ones /\ q(m) = r(m) /\ NoHigher(bits, others, m) BY <1>4
<1>7. PICK z \in 0..m : r(z) < q(z) BY <1>4 DEF Differ
<1>8. \A k \in 0..size : r(k) \in Int /\ q(k) \in Int
  <2> TAKE k \in 0..size
  <2>1. size \in Nat /\ k \in Int BY DEF MAX_N
  <2>2. r(k) \in 0..Cardinality(bits) /\ q(k) \in 0..Cardinality(others) BY <2>1, OnesFacts
  <2> QED BY <2>2
<1>9. /\ r(m) = 0 \/ r(m) = m => f[m][r(m)] = 0 /\ Ways(m, r(m)) = 1
      /\ r(m) # 0 /\ r(m) # m =>
           /\ m # 0 /\ r(m - 1) <= ones
           /\ Ways(m, r(m)) = Ways(m - 1, r(m) - 1) + Ways(m - 1, r(m))
           /\ Ways(m, r(m)) \in Nat /\ Ways(m - 1, r(m) - 1) \in Nat /\ Ways(m - 1, r(m)) \in Nat
           /\ IF m - 1 \in bits THEN /\ r(m - 1) = r(m) - 1
                                     /\ f[m][r(m)] = Ways(m - 1, r(m)) + f[m - 1][r(m) - 1]
              ELSE r(m - 1) = r(m) /\ f[m][r(m)] = f[m - 1][r(m)]
  <2> HIDE DEF If
  <2> QED BY <1>4, <1>6, BelowNext
<1>10. q(m) # 0 /\ q(m) # m =>
           IF m - 1 \in others THEN /\ q(m - 1) = q(m) - 1 /\ q(m - 1) <= ones
                                    /\ g[m][q(m)] = Ways(m - 1, q(m)) + g[m - 1][q(m) - 1]
           ELSE q(m - 1) = q(m) /\ g[m][q(m)] = g[m - 1][q(m)] /\ q(m - 1) <= ones
  <2>1. q(m) <= ones BY <1>6
  <2> HIDE DEF If
  <2> QED BY <1>4, <2>1, BelowNext
<1>11. CASE r(m) = 0
  <2>1. z \in Int /\ m \in Int /\ z <= m /\ size \in Nat BY <1>4 DEF MAX_N
  <2>2. q(z) <= q(m) BY <2>1, OnesFacts
  <2>3. r(z) \in 0..Cardinality(bits) BY <2>1, OnesFacts
  <2>4. z \in 0..size BY <1>4
  <2> HIDE DEF r, q
  <2> QED BY <1>6, <1>7, <1>8, <1>11, <2>2, <2>3, <2>4, <1>4
<1>12. CASE r(m) = m
  <2>1. z \in Nat /\ m \in Nat /\ z <= m /\ 0 <= z /\ 0 \in Nat /\ size \in Nat BY <1>4 DEF MAX_N
  <2>2. r(m) <= r(z) + (m - z) BY <2>1, OnesSlow
  <2>3. q(z) <= q(0) + (z - 0) BY <2>1, OnesSlow
  <2>4. q(0) = 0 BY <2>1, OnesZero
  <2>5. z \in 0..size BY <1>4
  <2> HIDE DEF r, q
  <2> QED BY <1>7, <1>8, <1>12, <2>1, <2>2, <2>3, <2>4, <2>5
<1>13. CASE r(m) # 0 /\ r(m) # m
  <2>1. m # 0 /\ m - 1 \in 0..size /\ m - 1 \in 0..m BY <1>4, <1>9, <1>13
  <2>2. r(m - 1) <= q(m - 1) BY <1>6, <2>1 DEF NoHigher
  <2>3. NoHigher(bits, others, m - 1) BY <1>4, <1>6, <2>1 DEF NoHigher
  <2>4. r(m - 1) = q(m - 1) => If(m - 1)
    <3> SUFFICES ASSUME r(m - 1) = q(m - 1) PROVE If(m - 1) OBVIOUS
    <3>1. z # m
      <4>1. m \in 0..size BY <1>4
      <4> HIDE DEF r, q, If
      <4> QED BY <1>6, <1>7, <1>8, <4>1
    <3>2. z \in 0..(m - 1) BY <1>4, <3>1
    <3>3. Differ(bits, others, m - 1) BY <1>7, <3>2 DEF Differ
    <3> QED BY <1>9, <1>13, <2>3, <3>3
  <2>5. /\ f[m - 1][r(m - 1)] \in Nat
        /\ q(m - 1) <= ones => g[m - 1][q(m - 1)] \in Nat /\ g[m - 1][q(m - 1)] < Ways(m - 1, q(m - 1))
    <3>1. \A n \in 0..size : OnesBelow(bits, n) <= ones =>
            f[n][OnesBelow(bits, n)] \in Nat /\ f[n][OnesBelow(bits, n)] < Ways(n, OnesBelow(bits, n))
      BY BelowWays DEF Below
    <3>2. \A n \in 0..size : OnesBelow(others, n) <= ones =>
            g[n][OnesBelow(others, n)] \in Nat /\ g[n][OnesBelow(others, n)] < Ways(n, OnesBelow(others, n))
      BY BelowWays DEF Below
    <3> HIDE DEF If
    <3> QED BY <1>9, <1>13, <2>1, <3>1, <3>2
  <2>6. r(m) \in Int /\ q(m) \in Int /\ r(m - 1) \in Int /\ q(m - 1) \in Int BY <1>4, <1>8, <2>1
  <2> HIDE DEF r, q, If
  <2>7. CASE m - 1 \in bits /\ m - 1 \in others
    <3>1. q(m - 1) = r(m - 1) /\ If(m - 1) BY <1>6, <1>9, <1>10, <1>13, <2>4, <2>7
    <3>2. g[m - 1][q(m) - 1] < f[m - 1][r(m) - 1] BY <1>5, <1>9, <1>10, <1>6, <1>13, <2>1, <2>7, <3>1
    <3>3. f[m - 1][r(m) - 1] \in Nat /\ g[m - 1][q(m) - 1] \in Nat BY <1>6, <1>9, <1>10, <1>13, <2>5, <2>7
    <3> QED BY <1>4, <1>6, <1>9, <1>10, <1>13, <2>7, <3>2, <3>3
  <2>8. CASE m - 1 \in bits /\ m - 1 \notin others
    <3>1. f[m][r(m)] = Ways(m - 1, r(m)) + f[m - 1][r(m) - 1] /\ f[m - 1][r(m) - 1] \in Nat
      BY <1>9, <1>13, <2>5, <2>8
    <3>2. g[m][q(m)] = g[m - 1][q(m)] /\ g[m - 1][q(m)] \in Nat /\ g[m - 1][q(m)] < Ways(m - 1, q(m))
      BY <1>6, <1>10, <1>13, <2>5, <2>8
    <3>3. Ways(m - 1, r(m)) \in Nat BY <1>9, <1>13
    <3> QED BY <1>4, <1>6, <3>1, <3>2, <3>3
  <2>9. CASE m - 1 \notin bits /\ m - 1 \in others
    BY <1>6, <1>9, <1>10, <1>13, <2>2, <2>6, <2>9
  <2>10. CASE m - 1 \notin bits /\ m - 1 \notin others
    <3>1. q(m - 1) = r(m - 1) /\ If(m - 1) BY <1>6, <1>9, <1>10, <1>13, <2>4, <2>10
    <3>2. g[m - 1][q(m)] < f[m - 1][r(m)] BY <1>5, <1>9, <1>10, <1>6, <1>13, <2>1, <2>10, <3>1
    <3> QED BY <1>4, <1>6, <1>9, <1>10, <1>13, <2>10, <3>2
  <2> QED BY <2>7, <2>8, <2>9, <2>10
<1> QED BY <1>11, <1>12, <1>13

(* Two rows of as many ones: the one whose ones are lower has the smaller    *)
(* number.                                                                   *)
LEMMA NumberOrder ==
  ASSUME NEW size \in 0..MAX_N, NEW ones \in 0..MAX_N,
         NEW bits \in SUBSET (0..(size - 1)), Cardinality(bits) = ones,
         NEW others \in SUBSET (0..(size - 1)), Cardinality(others) = ones,
         NoHigher(bits, others, size), Differ(bits, others, size)
  PROVE  PositionF(others, size, ones) < PositionF(bits, size, ones)
<1>1. PICK f : Numbering(f, bits, size, ones) /\ PositionF(bits, size, ones) = f[size][ones] BY PositionFIs
<1>2. PICK g : Numbering(g, others, size, ones) /\ PositionF(others, size, ones) = g[size][ones] BY PositionFIs
<1>3. OnesBelow(bits, size) = ones /\ OnesBelow(others, size) = ones
  <2>1. \A b \in bits \cup others : b < size
    <3>1. size \in Int BY DEF MAX_N
    <3> QED BY <3>1
  <2>2. {b \in bits : b < size} = bits /\ {b \in others : b < size} = others BY <2>1
  <2> QED BY <2>2 DEF OnesBelow
<1>4. size \in 0..size /\ ones <= ones BY DEF MAX_N
<1>5. Below(g, others, size) < Below(f, bits, size) BY <1>1, <1>2, <1>3, <1>4, BelowOrder
<1> QED BY <1>1, <1>2, <1>3, <1>5 DEF Below

LEMMA NumberType ==
  ASSUME NEW size \in 0..MAX_N, NEW ones \in 0..MAX_N,
         NEW bits \in SUBSET (0..(size - 1)), Cardinality(bits) = ones
  PROVE  PositionF(bits, size, ones) \in Nat
<1>1. PICK f : Numbering(f, bits, size, ones) /\ PositionF(bits, size, ones) = f[size][ones] BY PositionFIs
<1>3. OnesBelow(bits, size) = ones
  <2>1. \A b \in bits : b < size
    <3>1. size \in Int BY DEF MAX_N
    <3> QED BY <3>1
  <2>2. {b \in bits : b < size} = bits BY <2>1
  <2> QED BY <2>2 DEF OnesBelow
<1>4. size \in 0..size /\ ones <= ones BY DEF MAX_N
<1>5. Below(f, bits, size) \in Nat BY <1>1, <1>3, <1>4, BelowWays
<1> QED BY <1>1, <1>3, <1>5 DEF Below

-----------------------------------------------------------------------------
(* The row of a board: how far up the one of a point is, counted from the    *)
(* highest point down.                                                       *)
Closes(side, p) ==
  CHOOSE above : above = [i \in 0..p |-> IF i = p THEN 0 ELSE above[i + 1] + side[i] + 1]

LEMMA ClosesIs ==
  ASSUME NEW p \in Nat, NEW side, \A i \in 0..(p - 1) : side[i] \in Nat
  PROVE  /\ Closes(side, p) \in [0..p -> Nat] /\ Closes(side, p)[p] = 0
         /\ \A i \in 0..(p - 1) : Closes(side, p)[i] = Closes(side, p)[i + 1] + side[i] + 1
<1> DEFINE Men(k) == IF k \in 1..p THEN side[p - k] ELSE 0
           F == [k \in Nat |-> [x \in Nat |-> x + Men(k) + 1]]
           Def(above) == above = [i \in 0..p |-> IF i = p THEN 0 ELSE above[i + 1] + side[i] + 1]
<1>1. \A k \in Nat : Men(k) \in Nat
  <2> TAKE k \in Nat
  <2>1. k \in 1..p => p - k \in 0..(p - 1) OBVIOUS
  <2> QED BY <2>1
<1>2. F \in [Nat -> [Nat -> Nat]]
  <2> HIDE DEF Men
  <2> QED BY <1>1
<1>3. PICK g \in [Nat -> Nat] : RowsOf(g, 0, F)
  <2> HIDE DEF F
  <2> QED BY <1>2, Rows
<1>4. g[0] = 0 /\ \A k \in Nat : g[k + 1] = F[k + 1][g[k]] BY <1>3 DEF RowsOf
<1>5. \A k \in 1..p : g[k] = g[k - 1] + side[p - k] + 1
  <2> TAKE k \in 1..p
  <2>1. k - 1 \in Nat /\ (k - 1) + 1 = k /\ k \in Nat OBVIOUS
  <2>2. g[k] = F[k][g[k - 1]]
    <3> HIDE DEF F
    <3> QED BY <1>4, <2>1
  <2>3. g[k - 1] \in Nat BY <2>1
  <2> QED BY <2>1, <2>2, <2>3
<1> DEFINE f == [i \in 0..p |-> g[p - i]]
<1>6. Def(f)
  <2>1. ASSUME NEW i \in 0..p PROVE g[p - i] = IF i = p THEN 0 ELSE f[i + 1] + side[i] + 1
    <3> HIDE DEF F
    <3>1. CASE i = p BY <1>4, <3>1
    <3>2. CASE i # p
      <4>1. p - i \in 1..p /\ p - (p - i) = i /\ i + 1 \in 0..p /\ p - (i + 1) = (p - i) - 1 BY <3>2
      <4>2. f[i + 1] = g[(p - i) - 1] BY <4>1
      <4>3. g[p - i] = g[(p - i) - 1] + side[p - (p - i)] + 1 BY <1>5, <4>1
      <4> HIDE DEF f
      <4> QED BY <3>2, <4>1, <4>2, <4>3
    <3> QED BY <3>1, <3>2
  <2> DEFINE R(i) == IF i = p THEN 0 ELSE f[i + 1] + side[i] + 1
  <2>2. \A i \in 0..p : g[p - i] = R(i) BY <2>1
  <2> HIDE DEF R
  <2>3. f = [i \in 0..p |-> R(i)] BY <2>2
  <2> HIDE DEF f
  <2> QED BY <2>3 DEF R
<1> HIDE DEF f, F
<1>7. Def(Closes(side, p)) BY <1>6 DEF Closes
<1>8. PICK h : h = Closes(side, p) OBVIOUS
<1>9. h = [i \in 0..p |-> IF i = p THEN 0 ELSE h[i + 1] + side[i] + 1] BY <1>7, <1>8
<1>10. \A i \in 0..p : h[i] = IF i = p THEN 0 ELSE h[i + 1] + side[i] + 1 BY <1>9
<1>11. \A i \in 0..p : h[i] \in Nat
  <2> DEFINE Bad == {k \in Nat : k <= p /\ h[p - k] \notin Nat}
  <2>1. ASSUME Bad = {}, NEW i \in 0..p PROVE h[i] \in Nat
    <3>1. p - i \in Nat /\ p - i <= p /\ p - (p - i) = i OBVIOUS
    <3>2. p - i \notin Bad BY <2>1
    <3> QED BY <3>1, <3>2
  <2>2. SUFFICES ASSUME Bad # {} PROVE FALSE BY <2>1
  <2>3. PICK k \in Bad : \A m \in Bad : k <= m
    <3> HIDE DEF Bad
    <3>1. Bad \in SUBSET Nat BY DEF Bad
    <3> QED BY <2>2, <3>1, LeastNumber
  <2>4. k \in Nat /\ k <= p /\ h[p - k] \notin Nat OBVIOUS
  <2>5. k # 0 BY <1>10, <2>4
  <2>6. k - 1 \in Nat /\ k - 1 <= p /\ k - 1 \notin Bad
    <3> HIDE DEF Bad
    <3> QED BY <2>3, <2>4, <2>5
  <2>7. h[p - (k - 1)] \in Nat BY <2>6
  <2>8. p - k \in 0..(p - 1) /\ p - k \in 0..p /\ p - k # p /\ (p - k) + 1 = p - (k - 1) BY <2>4, <2>5
  <2>9. h[p - k] = h[(p - k) + 1] + side[p - k] + 1 BY <1>10, <2>8
  <2> HIDE DEF Bad
  <2> QED BY <2>4, <2>7, <2>8, <2>9
<1>12. h \in [0..p -> Nat]
  <2> DEFINE R(i) == IF i = p THEN 0 ELSE h[i + 1] + side[i] + 1
  <2>1. h = [i \in 0..p |-> R(i)] BY <1>9
  <2>2. \A i \in 0..p : h[i] \in Nat BY <1>11
  <2> HIDE DEF R
  <2>3. DOMAIN h = 0..p BY <2>1
  <2>4. h = [i \in 0..p |-> h[i]] BY <2>1
  <2> QED BY <2>2, <2>4
<1>13. \A i \in 0..(p - 1) : h[i] = h[i + 1] + side[i] + 1
  <2> TAKE i \in 0..(p - 1)
  <2>1. i \in 0..p /\ i # p OBVIOUS
  <2> QED BY <1>10, <2>1
<1>14. h[p] = 0 BY <1>10
<1> QED BY <1>8, <1>12, <1>13, <1>14

LEMMA GapBitsIs ==
  ASSUME NEW p \in Nat, NEW side
  PROVE  GapBits(side, p) = {Closes(side, p)[i] - 1 : i \in 0..(p - 1)}
BY DEF GapBits, Closes

LEMMA ClosesFalls ==
  ASSUME NEW p \in Nat, NEW side, \A i \in 0..(p - 1) : side[i] \in Nat
  PROVE  \A i \in 0..p, j \in 0..p : i <= j => Closes(side, p)[j] + (j - i) <= Closes(side, p)[i]
<1>1. PICK h : h = Closes(side, p) OBVIOUS
<1>2. h \in [0..p -> Nat] /\ \A i \in 0..(p - 1) : h[i] = h[i + 1] + side[i] + 1 BY <1>1, ClosesIs
<1>3. SUFFICES ASSUME NEW j \in 0..p PROVE \A i \in 0..j : h[j] + (j - i) <= h[i] BY <1>1
<1> DEFINE Bad == {k \in Nat : k <= j /\ ~(h[j] + k <= h[j - k])}
<1>4. ASSUME Bad = {}, NEW i \in 0..j PROVE h[j] + (j - i) <= h[i]
  <2>1. j - i \in Nat /\ j - i <= j /\ j - (j - i) = i OBVIOUS
  <2>2. j - i \notin Bad BY <1>4
  <2> QED BY <2>1, <2>2
<1>5. SUFFICES ASSUME Bad # {} PROVE FALSE BY <1>4
<1>6. PICK k \in Bad : \A m \in Bad : k <= m
  <2> HIDE DEF Bad
  <2>1. Bad \in SUBSET Nat BY DEF Bad
  <2> QED BY <1>5, <2>1, LeastNumber
<1>7. k \in Nat /\ k <= j /\ ~(h[j] + k <= h[j - k]) OBVIOUS
<1>8. h[j] \in Nat BY <1>2
<1>9. k # 0 BY <1>7, <1>8
<1>10. k - 1 \in Nat /\ k - 1 <= j /\ k - 1 \notin Bad
  <2> HIDE DEF Bad
  <2> QED BY <1>6, <1>7, <1>9
<1>11. h[j] + (k - 1) <= h[j - (k - 1)] BY <1>10
<1>12. j - k \in 0..(p - 1) /\ (j - k) + 1 = j - (k - 1) /\ j - (k - 1) \in 0..p BY <1>7, <1>9
<1>13. h[j - k] = h[(j - k) + 1] + side[j - k] + 1 /\ side[j - k] \in Nat BY <1>2, <1>12
<1>14. h[j - (k - 1)] \in Nat BY <1>2, <1>12
<1> HIDE DEF Bad
<1> QED BY <1>7, <1>8, <1>11, <1>12, <1>13, <1>14

(* The ones below a place are those of so many points.                       *)
LEMMA RowOnes ==
  ASSUME NEW p \in Nat, NEW side, \A i \in 0..(p - 1) : side[i] \in Nat, NEW z \in Int
  PROVE  /\ IsFiniteSet({i \in 0..(p - 1) : Closes(side, p)[i] - 1 < z})
         /\ OnesBelow(GapBits(side, p), z) = Cardinality({i \in 0..(p - 1) : Closes(side, p)[i] - 1 < z})
<1>1. PICK h : h = Closes(side, p) OBVIOUS
<1> DEFINE points == {i \in 0..(p - 1) : h[i] - 1 < z}
           ones == {b \in GapBits(side, p) : b < z}
           place == [i \in points |-> h[i] - 1]
<1>2. \A i \in 0..p : h[i] \in Nat BY <1>1, ClosesIs
<1>3. \A i \in 0..p, j \in 0..p : i <= j => h[j] + (j - i) <= h[i] BY <1>1, ClosesFalls
<1>4. GapBits(side, p) = {h[i] - 1 : i \in 0..(p - 1)} BY <1>1, GapBitsIs
<1>5. \A i \in points : place[i] \in ones BY <1>4
<1>6. \A b \in ones : \E i \in points : place[i] = b
  <2> TAKE b \in ones
  <2>1. b \in GapBits(side, p) /\ b < z OBVIOUS
  <2>2. PICK i \in 0..(p - 1) : b = h[i] - 1 BY <1>4, <2>1
  <2>3. i \in points BY <2>1, <2>2
  <2> QED BY <2>2, <2>3
<1>7. \A i \in points, j \in points : place[i] = place[j] => i = j
  <2> SUFFICES ASSUME NEW i \in points, NEW j \in points, h[i] - 1 = h[j] - 1 PROVE i = j OBVIOUS
  <2>1. i \in 0..p /\ j \in 0..p OBVIOUS
  <2>2. h[i] \in Nat /\ h[j] \in Nat BY <1>2, <2>1
  <2>3. i <= j => h[j] + (j - i) <= h[i] BY <1>3, <2>1
  <2>4. j <= i => h[i] + (i - j) <= h[j] BY <1>3, <2>1
  <2> QED BY <2>1, <2>2, <2>3, <2>4
<1>8. IsFiniteSet(points)
  <2>1. 0 \in Int /\ p - 1 \in Int OBVIOUS
  <2>2. IsFiniteSet(0..(p - 1)) BY <2>1, FS_Interval
  <2>3. points \subseteq 0..(p - 1) OBVIOUS
  <2> HIDE DEF points
  <2> QED BY <2>2, <2>3, FS_Subset
<1>9. place \in Bijection(points, ones)
  <2>1. place \in [points -> ones]
    <3> HIDE DEF points, ones
    <3> QED BY <1>5
  <2> HIDE DEF points, ones, place
  <2>2. place \in Injection(points, ones) BY <1>7, <2>1 DEF Injection, IsInjective
  <2>3. place \in Surjection(points, ones) BY <1>6, <2>1 DEF Surjection
  <2> QED BY <2>2, <2>3 DEF Bijection
<1>10. Cardinality(points) = Cardinality(ones)
  <2> HIDE DEF points, ones, place
  <2>1. ExistsBijection(points, ones) BY <1>9 DEF ExistsBijection
  <2> QED BY <1>8, <2>1, FS_Bijection
<1>11. OnesBelow(GapBits(side, p), z) = Cardinality(ones) BY DEF OnesBelow
<1>12. points = {i \in 0..(p - 1) : Closes(side, p)[i] - 1 < z} BY <1>1
<1> HIDE DEF points, ones
<1> QED BY <1>8, <1>10, <1>11, <1>12

LEMMA RowFits ==
  ASSUME NEW p \in Nat \ {0}, NEW side, \A i \in 0..(p - 1) : side[i] \in Nat,
         NEW size \in Nat, Closes(side, p)[0] <= size
  PROVE  GapBits(side, p) \in SUBSET (0..(size - 1)) /\ Cardinality(GapBits(side, p)) = p
<1>1. PICK h : h = Closes(side, p) OBVIOUS
<1>2. \A i \in 0..p : h[i] \in Nat BY <1>1, ClosesIs
<1>3. \A i \in 0..p, j \in 0..p : i <= j => h[j] + (j - i) <= h[i] BY <1>1, ClosesFalls
<1>4. GapBits(side, p) = {h[i] - 1 : i \in 0..(p - 1)} BY <1>1, GapBitsIs
<1>5. h[0] <= size BY <1>1
<1>6. \A i \in 0..(p - 1) : h[i] - 1 \in 0..(size - 1)
  <2> TAKE i \in 0..(p - 1)
  <2>1. i \in 0..p /\ 0 \in 0..p /\ p \in 0..p /\ 0 <= i /\ i <= p OBVIOUS
  <2>2. h[i] + (i - 0) <= h[0] /\ h[p] + (p - i) <= h[i] BY <1>3, <2>1
  <2>3. h[i] \in Nat /\ h[0] \in Nat /\ h[p] \in Nat BY <1>2, <2>1
  <2> QED BY <1>5, <2>2, <2>3
<1>7. GapBits(side, p) \in SUBSET (0..(size - 1)) BY <1>4, <1>6
<1>8. OnesBelow(GapBits(side, p), size) = Cardinality({i \in 0..(p - 1) : h[i] - 1 < size})
  <2>1. size \in Int OBVIOUS
  <2> QED BY <1>1, <2>1, RowOnes
<1>9. {i \in 0..(p - 1) : h[i] - 1 < size} = 0..(p - 1)
  <2>1. \A i \in 0..(p - 1) : h[i] - 1 < size BY <1>6
  <2> QED BY <2>1
<1>10. Cardinality(0..(p - 1)) = p
  <2>1. 0 \in Int /\ p - 1 \in Int /\ ~(0 > p - 1) /\ (p - 1) - 0 + 1 = p OBVIOUS
  <2> QED BY <2>1, FS_Interval
<1>11. {b \in GapBits(side, p) : b < size} = GapBits(side, p)
  <2>1. \A b \in GapBits(side, p) : b < size BY <1>7
  <2> QED BY <2>1
<1> QED BY <1>7, <1>8, <1>9, <1>10, <1>11 DEF OnesBelow

(* A side comes lower if no place of its row is higher and one is lower.     *)
ComesLower(t, s, p) ==
  /\ \A i \in 0..p : Closes(t, p)[i] <= Closes(s, p)[i]
  /\ \E i \in 0..(p - 1) : Closes(t, p)[i] < Closes(s, p)[i]

LEMMA LowerNumber ==
  ASSUME NEW p \in Nat \ {0}, NEW c \in Nat, p + c <= MAX_N,
         NEW s, \A i \in 0..(p - 1) : s[i] \in Nat, NEW t, \A i \in 0..(p - 1) : t[i] \in Nat,
         Closes(s, p)[0] <= p + c, ComesLower(t, s, p)
  PROVE  PositionBearoff(t, p, c) \in Nat /\ PositionBearoff(t, p, c) < PositionBearoff(s, p, c)
<1> DEFINE size == p + c
           bits == GapBits(s, p)
           others == GapBits(t, p)
           old(z) == {i \in 0..(p - 1) : Closes(s, p)[i] - 1 < z}
           new(z) == {i \in 0..(p - 1) : Closes(t, p)[i] - 1 < z}
<1>1. size \in 0..MAX_N /\ size \in Nat /\ p \in 0..MAX_N BY DEF MAX_N
<1>2. /\ \A i \in 0..p : Closes(s, p)[i] \in Nat
      /\ \A i \in 0..p : Closes(t, p)[i] \in Nat
  BY ClosesIs
<1>3. \A i \in 0..p : Closes(t, p)[i] <= Closes(s, p)[i] BY DEF ComesLower
<1>4. Closes(t, p)[0] <= size
  <2>1. 0 \in 0..p OBVIOUS
  <2>2. Closes(t, p)[0] <= Closes(s, p)[0] /\ Closes(t, p)[0] \in Nat /\ Closes(s, p)[0] \in Nat BY <1>2, <1>3, <2>1
  <2> QED BY <2>2
<1>5. bits \in SUBSET (0..(size - 1)) /\ Cardinality(bits) = p
  <2>1. Closes(s, p)[0] <= size OBVIOUS
  <2> HIDE DEF size
  <2> QED BY <1>1, <2>1, RowFits
<1>6. others \in SUBSET (0..(size - 1)) /\ Cardinality(others) = p
  <2> HIDE DEF size
  <2> QED BY <1>1, <1>4, RowFits
<1>7. ASSUME NEW z \in Int
      PROVE  /\ OnesBelow(bits, z) = Cardinality(old(z)) /\ OnesBelow(others, z) = Cardinality(new(z))
             /\ IsFiniteSet(new(z)) /\ old(z) \subseteq new(z)
             /\ Cardinality(old(z)) \in Nat /\ Cardinality(new(z)) \in Nat
  <2>1. OnesBelow(bits, z) = Cardinality(old(z)) /\ IsFiniteSet(old(z)) BY RowOnes
  <2>2. OnesBelow(others, z) = Cardinality(new(z)) /\ IsFiniteSet(new(z)) BY RowOnes
  <2>3. ASSUME NEW i \in 0..(p - 1), Closes(s, p)[i] - 1 < z PROVE Closes(t, p)[i] - 1 < z
    <3>1. i \in 0..p OBVIOUS
    <3>2. Closes(t, p)[i] <= Closes(s, p)[i] /\ Closes(t, p)[i] \in Nat /\ Closes(s, p)[i] \in Nat BY <1>2, <1>3, <3>1
    <3> QED BY <2>3, <3>2
  <2>4. old(z) \subseteq new(z) BY <2>3
  <2> HIDE DEF old, new
  <2>5. Cardinality(old(z)) \in Nat /\ Cardinality(new(z)) \in Nat BY <2>1, <2>2, FS_CardinalityType
  <2> QED BY <2>1, <2>2, <2>4, <2>5
<1>8. NoHigher(bits, others, size)
  <2> SUFFICES ASSUME NEW z \in 0..size PROVE OnesBelow(bits, z) <= OnesBelow(others, z) BY DEF NoHigher
  <2>1. z \in Int OBVIOUS
  <2> HIDE DEF old, new, bits, others
  <2>2. IsFiniteSet(new(z)) /\ old(z) \subseteq new(z) BY <1>7, <2>1
  <2>3. Cardinality(old(z)) <= Cardinality(new(z)) BY <2>2, FS_Subset
  <2> QED BY <1>7, <2>1, <2>3
<1>9. Differ(bits, others, size)
  <2>1. PICK i \in 0..(p - 1) : Closes(t, p)[i] < Closes(s, p)[i] BY DEF ComesLower
  <2>2. i \in 0..p OBVIOUS
  <2> DEFINE z == Closes(s, p)[i] - 1
  <2>3. z \in 0..(size - 1)
    <3>1. bits = {Closes(s, p)[k] - 1 : k \in 0..(p - 1)} BY GapBitsIs
    <3>2. Closes(s, p)[i] - 1 \in bits BY <3>1
    <3> HIDE DEF bits, size
    <3> QED BY <1>5, <3>2
  <2>4. i \in new(z) /\ i \notin old(z)
    <3>1. Closes(s, p)[i] \in Nat /\ Closes(t, p)[i] \in Nat BY <1>2, <2>2
    <3> QED BY <2>1, <3>1
  <2>5. z \in Int /\ z \in 0..size BY <1>1, <2>3
  <2> HIDE DEF old, new, bits, others, z, size
  <2>6. IsFiniteSet(new(z)) /\ old(z) \subseteq new(z) BY <1>7, <2>5
  <2>7. Cardinality(old(z)) <= Cardinality(new(z)) /\ Cardinality(old(z)) # Cardinality(new(z))
    BY <2>4, <2>6, FS_Subset
  <2>8. OnesBelow(bits, z) < OnesBelow(others, z) BY <1>7, <2>5, <2>7
  <2> QED BY <2>5, <2>8 DEF Differ
<1>10. c + p = size OBVIOUS
<1>11. PositionBearoff(s, p, c) = PositionF(bits, size, p) /\ PositionBearoff(t, p, c) = PositionF(others, size, p)
  BY <1>10 DEF PositionBearoff
<1> HIDE DEF bits, others, size
<1> QED BY <1>1, <1>5, <1>6, <1>8, <1>9, <1>11, NumberOrder, NumberType

LEMMA LowerAgain ==
  ASSUME NEW p \in Nat, NEW s, NEW t, NEW u,
         \A i \in 0..(p - 1) : s[i] \in Nat, \A i \in 0..(p - 1) : t[i] \in Nat,
         \A i \in 0..(p - 1) : u[i] \in Nat, ComesLower(t, s, p), ComesLower(u, t, p)
  PROVE  ComesLower(u, s, p)
<1>1. /\ \A i \in 0..p : Closes(s, p)[i] \in Nat
      /\ \A i \in 0..p : Closes(t, p)[i] \in Nat
      /\ \A i \in 0..p : Closes(u, p)[i] \in Nat
  BY ClosesIs
<1>2. \A i \in 0..p : Closes(t, p)[i] <= Closes(s, p)[i] /\ Closes(u, p)[i] <= Closes(t, p)[i] BY DEF ComesLower
<1>3. PICK i \in 0..(p - 1) : Closes(t, p)[i] < Closes(s, p)[i] BY DEF ComesLower
<1>4. \A k \in 0..p : Closes(u, p)[k] <= Closes(s, p)[k] BY <1>1, <1>2
<1>5. i \in 0..p OBVIOUS
<1>6. Closes(u, p)[i] < Closes(s, p)[i] BY <1>1, <1>2, <1>3, <1>5
<1> QED BY <1>4, <1>6 DEF ComesLower

(* A man is moved from point from to point to, or borne off.                 *)
Moves1(t, s, p, from, to) ==
  /\ from \in 0..(p - 1) /\ to \in Int /\ to < from
  /\ t[from] = s[from] - 1
  /\ \A i \in 0..(p - 1) : i # from => t[i] <= s[i] + (IF i = to THEN 1 ELSE 0)

LEMMA MoveLowers ==
  ASSUME NEW p \in Nat, NEW s, NEW t, NEW from, NEW to,
         \A i \in 0..(p - 1) : s[i] \in Nat, \A i \in 0..(p - 1) : t[i] \in Nat, Moves1(t, s, p, from, to),
         \A i \in 0..(p - 1) : i > to /\ i # from => t[i] = s[i]
  PROVE  ComesLower(t, s, p)
<1>1. PICK h : h = Closes(s, p) OBVIOUS
<1>2. PICK g : g = Closes(t, p) OBVIOUS
<1>3. /\ h[p] = 0 /\ \A i \in 0..p : h[i] \in Nat
      /\ \A i \in 0..(p - 1) : h[i] = h[i + 1] + s[i] + 1
  BY <1>1, ClosesIs
<1>4. /\ g[p] = 0 /\ \A i \in 0..p : g[i] \in Nat
      /\ \A i \in 0..(p - 1) : g[i] = g[i + 1] + t[i] + 1
  BY <1>2, ClosesIs
<1>5. from \in 0..(p - 1) /\ to \in Int /\ to < from /\ t[from] = s[from] - 1 BY DEF Moves1
<1>6. \A i \in 0..(p - 1) : i # from => t[i] <= s[i] + (IF i = to THEN 1 ELSE 0) BY DEF Moves1
<1> DEFINE Right(i) == /\ i > from => g[i] = h[i]
                       /\ i <= from /\ i > to => g[i] = h[i] - 1
                       /\ i <= to => g[i] <= h[i]
           Bad == {k \in Nat : k <= p /\ ~Right(p - k)}
<1>7. \A i \in 0..p : Right(i)
  <2>1. ASSUME Bad = {}, NEW i \in 0..p PROVE Right(i)
    <3>1. p - i \in Nat /\ p - i <= p /\ p - (p - i) = i OBVIOUS
    <3>2. p - i \notin Bad BY <2>1
    <3> HIDE DEF Right
    <3> QED BY <3>1, <3>2
  <2>2. SUFFICES ASSUME Bad # {} PROVE FALSE
    <3> HIDE DEF Bad, Right
    <3> QED BY <2>1
  <2>3. PICK k \in Bad : \A m \in Bad : k <= m
    <3> HIDE DEF Bad
    <3>1. Bad \in SUBSET Nat BY DEF Bad
    <3> QED BY <2>2, <3>1, LeastNumber
  <2>4. k \in Nat /\ k <= p /\ ~Right(p - k)
    <3> HIDE DEF Right
    <3> QED OBVIOUS
  <2>5. k # 0
    <3>1. p > from BY <1>5
    <3>2. Right(p) BY <1>3, <1>4, <1>5, <3>1
    <3>3. k = 0 => p - k = p OBVIOUS
    <3> HIDE DEF Right
    <3> QED BY <2>4, <3>2, <3>3
  <2>6. k - 1 \in Nat /\ k - 1 <= p /\ k - 1 \notin Bad
    <3> HIDE DEF Bad
    <3> QED BY <2>3, <2>4, <2>5
  <2>7. Right(p - (k - 1))
    <3> HIDE DEF Right
    <3> QED BY <2>6
  <2>8. PICK i \in 0..(p - 1) : i = p - k BY <2>4, <2>5
  <2>9. p - (k - 1) = i + 1 /\ i + 1 \in 0..p /\ i \in 0..p BY <2>4, <2>8
  <2>10. ~Right(i) /\ Right(i + 1)
    <3> HIDE DEF Right
    <3> QED BY <2>4, <2>7, <2>8, <2>9
  <2> HIDE DEF Bad
  <2>11. h[i] = h[i + 1] + s[i] + 1 /\ g[i] = g[i + 1] + t[i] + 1 BY <1>3, <1>4
  <2>12. h[i] \in Nat /\ h[i + 1] \in Nat /\ g[i] \in Nat /\ g[i + 1] \in Nat /\ s[i] \in Nat /\ t[i] \in Nat
    BY <1>3, <1>4, <2>9
  <2>13. CASE i > from
    <3>1. t[i] = s[i] /\ g[i + 1] = h[i + 1] BY <1>5, <2>10, <2>13
    <3> QED BY <1>5, <2>10, <2>11, <2>13, <3>1
  <2>14. CASE i = from
    <3>1. g[i + 1] = h[i + 1] BY <1>5, <2>10, <2>14
    <3> QED BY <1>5, <2>10, <2>11, <2>12, <2>14, <3>1
  <2>15. CASE i < from /\ i > to
    <3>1. t[i] = s[i] /\ g[i + 1] = h[i + 1] - 1 BY <1>5, <2>10, <2>15
    <3> QED BY <1>5, <2>10, <2>11, <2>12, <2>15, <3>1
  <2>16. CASE i = to
    <3>1. t[i] <= s[i] + 1 /\ g[i + 1] = h[i + 1] - 1 BY <1>5, <1>6, <2>10, <2>16
    <3> QED BY <1>5, <2>10, <2>11, <2>12, <2>16, <3>1
  <2>17. CASE i < to
    <3>1. t[i] <= s[i] /\ g[i + 1] <= h[i + 1] BY <1>5, <1>6, <2>10, <2>17
    <3> QED BY <1>5, <2>10, <2>11, <2>12, <2>17, <3>1
  <2>18. i > from \/ i = from \/ (i < from /\ i > to) \/ i = to \/ i < to BY <1>5
  <2> QED BY <2>13, <2>14, <2>15, <2>16, <2>17, <2>18
<1>8. g[from] < h[from]
  <2>1. from \in 0..p BY <1>5
  <2>2. g[from] = h[from] - 1 BY <1>5, <1>7, <2>1
  <2> QED BY <1>3, <1>4, <2>1, <2>2
<1>9. \A i \in 0..p : g[i] <= h[i]
  <2> TAKE i \in 0..p
  <2>1. g[i] \in Nat /\ h[i] \in Nat BY <1>3, <1>4
  <2> QED BY <1>5, <1>7, <2>1
<1> QED BY <1>1, <1>2, <1>5, <1>8, <1>9 DEF ComesLower

(* Only the men on the points of the row count.                              *)
LEMMA SameRow ==
  ASSUME NEW p \in Nat, NEW s, NEW t, \A i \in 0..(p - 1) : s[i] \in Nat,
         \A i \in 0..(p - 1) : t[i] = s[i]
  PROVE  GapBits(t, p) = GapBits(s, p)
<1>1. PICK h : h = Closes(s, p) OBVIOUS
<1>2. PICK g : g = Closes(t, p) OBVIOUS
<1>3. /\ h[p] = 0 /\ \A i \in 0..p : h[i] \in Nat
      /\ \A i \in 0..(p - 1) : h[i] = h[i + 1] + s[i] + 1
  BY <1>1, ClosesIs
<1>4. /\ g[p] = 0 /\ \A i \in 0..p : g[i] \in Nat
      /\ \A i \in 0..(p - 1) : g[i] = g[i + 1] + t[i] + 1
  BY <1>2, ClosesIs
<1>5. \A i \in 0..p : g[i] = h[i]
  <2> DEFINE Bad == {k \in Nat : k <= p /\ g[p - k] # h[p - k]}
  <2>1. ASSUME Bad = {}, NEW i \in 0..p PROVE g[i] = h[i]
    <3>1. p - i \in Nat /\ p - i <= p /\ p - (p - i) = i OBVIOUS
    <3>2. p - i \notin Bad BY <2>1
    <3> QED BY <3>1, <3>2
  <2>2. SUFFICES ASSUME Bad # {} PROVE FALSE BY <2>1
  <2>3. PICK k \in Bad : \A m \in Bad : k <= m
    <3> HIDE DEF Bad
    <3>1. Bad \in SUBSET Nat BY DEF Bad
    <3> QED BY <2>2, <3>1, LeastNumber
  <2>4. k \in Nat /\ k <= p /\ g[p - k] # h[p - k] OBVIOUS
  <2>5. k # 0 BY <1>3, <1>4, <2>4
  <2>6. k - 1 \in Nat /\ k - 1 <= p /\ k - 1 \notin Bad
    <3> HIDE DEF Bad
    <3> QED BY <2>3, <2>4, <2>5
  <2>7. g[p - (k - 1)] = h[p - (k - 1)] BY <2>6
  <2>8. p - k \in 0..(p - 1) /\ (p - k) + 1 = p - (k - 1) BY <2>4, <2>5
  <2>9. h[p - k] = h[(p - k) + 1] + s[p - k] + 1 /\ g[p - k] = g[(p - k) + 1] + t[p - k] + 1 BY <1>3, <1>4, <2>8
  <2> HIDE DEF Bad
  <2> QED BY <2>4, <2>7, <2>8, <2>9
<1>6. \A i \in 0..(p - 1) : i \in 0..p OBVIOUS
<1>7. GapBits(s, p) = {h[i] - 1 : i \in 0..(p - 1)} /\ GapBits(t, p) = {g[i] - 1 : i \in 0..(p - 1)}
  BY <1>1, <1>2, GapBitsIs
<1>8. \A i \in 0..(p - 1) : g[i] - 1 = h[i] - 1 BY <1>5, <1>6
<1> QED BY <1>7, <1>8

(* As many men as the row has room for.                                      *)
LEMMA MenFit ==
  ASSUME NEW p \in Nat, NEW s, \A i \in 0..(p - 1) : s[i] \in Nat
  PROVE  \A i \in 0..(p - 1) : s[i] + p <= Closes(s, p)[0]
<1>1. PICK h : h = Closes(s, p) OBVIOUS
<1>2. /\ h[p] = 0 /\ \A i \in 0..p : h[i] \in Nat
      /\ \A i \in 0..(p - 1) : h[i] = h[i + 1] + s[i] + 1
  BY <1>1, ClosesIs
<1>3. \A i \in 0..p, j \in 0..p : i <= j => h[j] + (j - i) <= h[i] BY <1>1, ClosesFalls
<1> SUFFICES ASSUME NEW i \in 0..(p - 1) PROVE s[i] + p <= h[0] BY <1>1
<1>4. 0 \in 0..p /\ i \in 0..p /\ i + 1 \in 0..p /\ p \in 0..p /\ 0 <= i /\ i + 1 <= p OBVIOUS
<1>5. h[i] + (i - 0) <= h[0] /\ h[p] + (p - (i + 1)) <= h[i + 1] BY <1>3, <1>4
<1>6. h[0] \in Nat /\ h[i] \in Nat /\ h[i + 1] \in Nat /\ s[i] \in Nat BY <1>2, <1>4
<1> QED BY <1>2, <1>4, <1>5, <1>6

(* The key of a board gives the points of the player on roll back.           *)
LEMMA KeyGivesBack ==
  ASSUME NEW board, NEW i \in 0..23, board[1][i] \in 0..15
  PROVE  PositionFromKey(PositionKey(board))[1][i] = board[1][i]
<1> DEFINE key == PositionKey(board)
<1>1. i \in Point /\ i # Bar /\ i \div 8 \in 0..2 /\ i % 8 \in 0..7 /\ 8 * (i \div 8) + (i % 8) = i
  <2>1. i \in Point /\ i # Bar /\ i \in Int BY DEF Point, Bar
  <2>2. i \div 8 \in 0..2 OBVIOUS
  <2>3. i % 8 \in 0..7 OBVIOUS
  <2>4. 8 * (i \div 8) + (i % 8) = i OBVIOUS
  <2> QED BY <2>1, <2>2, <2>3, <2>4
<1>2. key[i \div 8] = Word(board[1], 8 * (i \div 8))
  <2>1. i \div 8 \in 0..6 /\ i \div 8 < 3 BY <1>1
  <2> QED BY <2>1 DEF PositionKey
<1>3. key[i \div 8][i % 8] = board[1][8 * (i \div 8) + (i % 8)] % 16 BY <1>1, <1>2 DEF Word
<1>4. board[1][i] % 16 = board[1][i] OBVIOUS
<1> HIDE DEF key
<1>5. SideFromKey(key, 0, 1)[i] = key[0 + (i \div 8)][i % 8] BY <1>1 DEF SideFromKey
<1>6. PositionFromKey(key)[1] = SideFromKey(key, 0, 1) BY DEF PositionFromKey, Side
<1>7. 0 + (i \div 8) = i \div 8 BY <1>1
<1> QED BY <1>1, <1>3, <1>4, <1>5, <1>6, <1>7 DEF key

-----------------------------------------------------------------------------
(* Moves lead down.                                                          *)
AnyBoard == [Side -> [Point -> Nat]]
Within(board, p) == \A k \in p..Bar : board[1][k] = 0
LeadsDown(new, old) ==
  \A p \in 1..Bar : Within(old, p) => Within(new, p) /\ ComesLower(new[1], old[1], p)

LEMMA LeadsDownAgain ==
  ASSUME NEW a \in AnyBoard, NEW b \in AnyBoard, NEW c \in AnyBoard, LeadsDown(b, a), LeadsDown(c, b)
  PROVE  LeadsDown(c, a)
<1> SUFFICES ASSUME NEW p \in 1..Bar, Within(a, p) PROVE Within(c, p) /\ ComesLower(c[1], a[1], p)
  BY DEF LeadsDown
<1>1. Within(b, p) /\ ComesLower(b[1], a[1], p) BY DEF LeadsDown
<1>2. Within(c, p) /\ ComesLower(c[1], b[1], p) BY <1>1 DEF LeadsDown
<1>3. \A i \in 0..(p - 1) : a[1][i] \in Nat /\ b[1][i] \in Nat /\ c[1][i] \in Nat
  <2> TAKE i \in 0..(p - 1)
  <2>1. i \in Point /\ 1 \in Side BY DEF Point, Side, Bar
  <2> QED BY <2>1 DEF AnyBoard
<1>4. p \in Nat BY DEF Bar
<1>5. ComesLower(c[1], a[1], p) BY <1>1, <1>2, <1>3, <1>4, LowerAgain
<1> QED BY <1>2, <1>5

LEMMA ManDown ==
  ASSUME NEW b \in AnyBoard, NEW new \in AnyBoard, NEW i \in Point, b[1][i] >= 1, NEW to \in Int, to < i,
         new[1][i] = b[1][i] - 1,
         \A k \in Point : k # i => new[1][k] <= b[1][k] + (IF k = to THEN 1 ELSE 0),
         \A k \in Point : k # i /\ k # to => new[1][k] = b[1][k]
  PROVE  LeadsDown(new, b)
<1> SUFFICES ASSUME NEW p \in 1..Bar, Within(b, p) PROVE Within(new, p) /\ ComesLower(new[1], b[1], p)
  BY DEF LeadsDown
<1>1. \A k \in Point : b[1][k] \in Nat /\ new[1][k] \in Nat
  <2>1. 1 \in Side BY DEF Side
  <2> QED BY <2>1 DEF AnyBoard
<1>2. i \in 0..(p - 1)
  <2>1. i \in p..Bar => b[1][i] = 0 BY DEF Within
  <2>2. i \in 0..Bar BY DEF Point
  <2> QED BY <2>1, <2>2 DEF Bar
<1>3. Within(new, p)
  <2> SUFFICES ASSUME NEW k \in p..Bar PROVE new[1][k] = 0 BY DEF Within
  <2>1. k \in Point /\ k # i /\ k # to BY <1>2 DEF Point, Bar
  <2>2. b[1][k] = 0 BY DEF Within
  <2> QED BY <2>1, <2>2
<1>4. \A k \in 0..(p - 1) : k \in Point BY DEF Point, Bar
<1> DEFINE s == b[1]
           t == new[1]
<1>5. p \in Nat BY DEF Bar
<1>6. \A k \in 0..(p - 1) : s[k] \in Nat /\ t[k] \in Nat BY <1>1, <1>4
<1>7. Moves1(t, s, p, i, to) BY <1>2, <1>4 DEF Moves1
<1>8. \A k \in 0..(p - 1) : k > to /\ k # i => t[k] = s[k] BY <1>4
<1> HIDE DEF s, t
<1>9. ComesLower(t, s, p) BY <1>5, <1>6, <1>7, <1>8, MoveLowers
<1> QED BY <1>3, <1>9 DEF s, t

LEMMA SubMoveDown ==
  ASSUME NEW b \in AnyBoard, NEW i \in Point, b[1][i] >= 1, NEW n \in 1..6
  PROVE  LET new == ApplySubMove(b, i, n, TRUE).board
         IN  new \in AnyBoard /\ LeadsDown(new, b)
<1> DEFINE to == i - n
           lifted == [b EXCEPT ![1][i] = @ - 1]
<1>1. 0 \in Side /\ 1 \in Side /\ 0 # 1 /\ i \in Int /\ to \in Int /\ to < i /\ Bar \in Point
  BY DEF Side, Point, Bar
<1>2. b[0] \in [Point -> Nat] /\ b[1] \in [Point -> Nat] BY <1>1 DEF AnyBoard
<1>3. lifted = [b EXCEPT ![1] = [b[1] EXCEPT ![i] = b[1][i] - 1]] BY <1>1, <1>2 DEF AnyBoard
<1>4. [b[1] EXCEPT ![i] = b[1][i] - 1] \in [Point -> Nat]
  <2>1. b[1][i] - 1 \in Nat BY <1>2
  <2> QED BY <1>2, <2>1
<1>5. lifted \in AnyBoard /\ lifted[0] = b[0] /\ lifted[1] = [b[1] EXCEPT ![i] = b[1][i] - 1]
  BY <1>1, <1>3, <1>4 DEF AnyBoard
<1>6. lifted[1][i] = b[1][i] - 1 /\ \A k \in Point : k # i => lifted[1][k] = b[1][k] BY <1>2, <1>5
<1> HIDE DEF lifted
<1>7. LeadsDown(lifted, b)
  <2>1. \A k \in Point : k # i => lifted[1][k] <= b[1][k] + (IF k = to THEN 1 ELSE 0)
    <3> TAKE k \in Point
    <3>1. b[1][k] \in Nat BY <1>2
    <3> QED BY <1>6, <3>1
  <2>2. \A k \in Point : k # i /\ k # to => lifted[1][k] = b[1][k] BY <1>6
  <2> HIDE DEF to
  <2> QED BY <1>1, <1>5, <1>6, <2>1, <2>2, ManDown
<1> DEFINE hit == [lifted EXCEPT ![1][to] = 1, ![0][23 - to] = 0, ![0][Bar] = @ + 1]
           moved == [lifted EXCEPT ![1][to] = @ + 1]
<1>8. ASSUME to >= 0 PROVE moved \in AnyBoard /\ LeadsDown(moved, b)
  <2>1. to \in Point /\ to # i BY <1>1, <1>8 DEF Point, Bar
  <2>2. lifted[1] \in [Point -> Nat] /\ lifted[1][to] = b[1][to] BY <1>1, <1>5, <1>6, <2>1 DEF AnyBoard
  <2>3. [lifted[1] EXCEPT ![to] = lifted[1][to] + 1] \in [Point -> Nat] BY <2>1, <2>2
  <2>4. moved = [lifted EXCEPT ![1] = [lifted[1] EXCEPT ![to] = lifted[1][to] + 1]] BY <1>1, <1>5, <2>1, <2>2 DEF AnyBoard
  <2>5. moved \in AnyBoard /\ moved[1] = [lifted[1] EXCEPT ![to] = lifted[1][to] + 1]
    BY <1>1, <1>5, <2>3, <2>4 DEF AnyBoard
  <2> HIDE DEF moved, to
  <2>6. moved[1][i] = b[1][i] - 1 /\ moved[1][to] = b[1][to] + 1 BY <1>1, <1>6, <2>1, <2>2, <2>5
  <2>7. \A k \in Point : k # i /\ k # to => moved[1][k] = b[1][k] BY <1>6, <2>2, <2>5
  <2>8. \A k \in Point : k # i => moved[1][k] <= b[1][k] + (IF k = to THEN 1 ELSE 0)
    <3> TAKE k \in Point
    <3>1. b[1][k] \in Nat BY <1>2
    <3> QED BY <2>6, <2>7, <3>1
  <2> QED BY <1>1, <2>5, <2>6, <2>7, <2>8, ManDown
<1>9. ASSUME to >= 0 PROVE hit \in AnyBoard /\ LeadsDown(hit, b)
  <2>1. to \in Point /\ to # i /\ 23 - to \in Point BY <1>1, <1>9 DEF Point, Bar
  <2>2. lifted[1] \in [Point -> Nat] /\ lifted[1][to] = b[1][to] /\ lifted[0] \in [Point -> Nat]
    BY <1>1, <1>5, <1>6, <2>1 DEF AnyBoard
  <2> DEFINE mine == [lifted[1] EXCEPT ![to] = 1]
             opp == [lifted[0] EXCEPT ![23 - to] = 0]
             his == [opp EXCEPT ![Bar] = opp[Bar] + 1]
  <2>3. mine \in [Point -> Nat] BY <2>1, <2>2
  <2>4. opp \in [Point -> Nat] BY <2>1, <2>2
  <2>5. his \in [Point -> Nat]
    <3> HIDE DEF opp
    <3>1. opp[Bar] + 1 \in Nat BY <1>1, <2>4
    <3> QED BY <2>4, <3>1
  <2>6. hit = [[lifted EXCEPT ![1] = mine] EXCEPT ![0] = his] BY <1>1, <1>5, <2>1, <2>2 DEF AnyBoard
  <2>7. hit \in AnyBoard /\ hit[1] = mine
    <3> HIDE DEF mine, his, hit
    <3> QED BY <1>1, <1>5, <2>3, <2>5, <2>6 DEF AnyBoard
  <2> HIDE DEF hit, to, opp, his
  <2>8. hit[1][i] = b[1][i] - 1 /\ hit[1][to] = 1 BY <1>1, <1>6, <2>1, <2>2, <2>7
  <2>9. \A k \in Point : k # i /\ k # to => hit[1][k] = b[1][k] BY <1>6, <2>2, <2>7
  <2>10. \A k \in Point : k # i => hit[1][k] <= b[1][k] + (IF k = to THEN 1 ELSE 0)
    <3> TAKE k \in Point
    <3>1. b[1][k] \in Nat BY <1>2
    <3> QED BY <2>8, <2>9, <3>1
  <2> HIDE DEF mine
  <2> QED BY <1>1, <2>7, <2>8, <2>9, <2>10, ManDown
<1> DEFINE new == ApplySubMove(b, i, n, TRUE).board
<1>10. \/ new = lifted
       \/ to >= 0 /\ new = hit
       \/ to >= 0 /\ new = moved
  <2>1. ~(TRUE /\ n \notin 1..6) /\ ~(i \notin Point) /\ ~(to >= i) /\ ~(b[1][i] < 1)
    <3>1. b[1][i] \in Nat BY <1>2
    <3> QED BY <1>1, <3>1
  <2>2. ApplySubMove(b, i, n, TRUE) =
          IF to < 0 THEN [rc |-> 0, board |-> lifted]
          ELSE IF b[0][23 - to] > 1 THEN [rc |-> -1, board |-> lifted]
          ELSE IF b[0][23 - to] = 1 THEN [rc |-> 0, board |-> hit]
          ELSE [rc |-> 0, board |-> moved]
    BY <2>1 DEF ApplySubMove, lifted
  <2> DEFINE rec(x, y) == [rc |-> x, board |-> y]
  <2>3. \A x, y : rec(x, y).board = y OBVIOUS
  <2>4. \/ ApplySubMove(b, i, n, TRUE) = rec(0, lifted)
        \/ ApplySubMove(b, i, n, TRUE) = rec(-1, lifted)
        \/ to >= 0 /\ ApplySubMove(b, i, n, TRUE) = rec(0, hit)
        \/ to >= 0 /\ ApplySubMove(b, i, n, TRUE) = rec(0, moved)
    <3> HIDE DEF hit, moved, to
    <3>1. CASE to < 0 BY <2>2, <3>1
    <3>2. CASE ~(to < 0)
      <4>1. to >= 0 BY <1>1, <3>2
      <4>2. CASE b[0][23 - to] > 1 BY <2>2, <3>2, <4>2
      <4>3. CASE ~(b[0][23 - to] > 1) /\ b[0][23 - to] = 1 BY <2>2, <3>2, <4>1, <4>3
      <4>4. CASE ~(b[0][23 - to] > 1) /\ b[0][23 - to] # 1 BY <2>2, <3>2, <4>1, <4>4
      <4> QED BY <4>2, <4>3, <4>4
    <3> QED BY <3>1, <3>2
  <2> HIDE DEF hit, moved, rec
  <2> QED BY <2>3, <2>4
<1> HIDE DEF new, hit, moved
<1> QED BY <1>5, <1>7, <1>8, <1>9, <1>10 DEF new

(* The nodes of the search of GenerateMovesSub.                              *)
PipsOf(anRoll, n) == IF Len(n.anMove) + 1 > 4 THEN 0 ELSE anRoll[Len(n.anMove) + 1]
NextNode(anRoll, n, i) ==
  [board |-> ApplySubMove(n.board, i, PipsOf(anRoll, n), TRUE).board,
   iPip |-> IF i # Bar /\ anRoll[1] = anRoll[2] THEN i ELSE 23,
   anMove |-> Append(n.anMove, <<i, Off(i - PipsOf(anRoll, n))>>),
   cPips |-> n.cPips + PipsOf(anRoll, n)]
SubOf(anRoll, fPartial, f, n) ==
  IF PipsOf(anRoll, n) = 0 THEN {}
  ELSE UNION {IF f[NextNode(anRoll, n, i)] = {} \/ fPartial
                THEN f[NextNode(anRoll, n, i)] \cup {NextNode(anRoll, n, i)}
              ELSE f[NextNode(anRoll, n, i)] : i \in Sources(n.board, n.iPip, PipsOf(anRoll, n))}
Roll4 == {<<a, b, c, d>> : a \in 1..6, b \in 1..6, c \in 0..6, d \in 0..6}

LEMMA SourceFacts ==
  ASSUME NEW b \in AnyBoard, NEW iPip \in 0..23, NEW n, NEW i \in Sources(b, iPip, n)
  PROVE  i \in Point /\ b[1][i] >= 1
<1>1. b[1] \in [Point -> Nat]
  <2>1. 1 \in Side BY DEF Side
  <2> QED BY <2>1 DEF AnyBoard
<1>2. Bar \in Point /\ \A k \in 0..iPip : k \in Point BY DEF Point, Bar
<1>3. b[1][i] > 0 /\ i \in Point
  <2>1. CASE b[1][Bar] > 0 BY <1>2, <2>1 DEF Sources
  <2>2. CASE ~(b[1][Bar] > 0) BY <1>2, <2>2 DEF Sources
  <2> QED BY <2>1, <2>2
<1> QED BY <1>1, <1>3

LEMMA NextFacts ==
  ASSUME NEW anRoll \in Roll4, NEW n \in Node, PipsOf(anRoll, n) # 0,
         NEW i \in Sources(n.board, n.iPip, PipsOf(anRoll, n))
  PROVE  /\ NextNode(anRoll, n, i) \in Node
         /\ Len(NextNode(anRoll, n, i).anMove) = Len(n.anMove) + 1
         /\ Len(n.anMove) < 4
         /\ LeadsDown(NextNode(anRoll, n, i).board, n.board)
<1> DEFINE pips == PipsOf(anRoll, n)
           next == ApplySubMove(n.board, i, pips, TRUE).board
           step == <<i, Off(i - pips)>>
<1>1. n.board \in AnyBoard /\ n.iPip \in 0..23 /\ n.anMove \in Seq(Point \X (-1..23)) /\ n.cPips \in Nat
  BY DEF Node, AnyBoard
<1>2. Len(n.anMove) \in Nat BY <1>1
<1>3. Len(n.anMove) < 4 BY <1>2 DEF PipsOf
<1>4. pips \in 1..6
  <2>1. PICK a \in 1..6, b \in 1..6, c \in 0..6, d \in 0..6 : anRoll = <<a, b, c, d>> BY DEF Roll4
  <2>2. pips = anRoll[Len(n.anMove) + 1] BY <1>2, <1>3 DEF PipsOf
  <2>3. Len(n.anMove) + 1 \in 1..4 BY <1>2, <1>3
  <2>4. \A k \in 1..4 : anRoll[k] \in 0..6 BY <2>1
  <2>5. pips \in 0..6 BY <2>2, <2>3, <2>4
  <2> QED BY <2>5
<1>5. i \in Point /\ n.board[1][i] >= 1 BY <1>1, SourceFacts
<1> HIDE DEF pips
<1>6. next \in AnyBoard /\ LeadsDown(next, n.board) BY <1>1, <1>4, <1>5, SubMoveDown
<1>7. step \in Point \X (-1..23)
  <2>1. Off(i - pips) \in -1..23 BY <1>4, <1>5 DEF Off, Point, Bar
  <2> QED BY <1>5, <2>1
<1> HIDE DEF next, step
<1>8. Append(n.anMove, step) \in Seq(Point \X (-1..23)) /\ Len(Append(n.anMove, step)) = Len(n.anMove) + 1
  BY <1>1, <1>7
<1>9. (IF i # Bar /\ anRoll[1] = anRoll[2] THEN i ELSE 23) \in 0..23 BY <1>5 DEF Point, Bar
<1>10. n.cPips + pips \in Nat BY <1>1, <1>4
<1>11. NextNode(anRoll, n, i) =
         [board |-> next, iPip |-> IF i # Bar /\ anRoll[1] = anRoll[2] THEN i ELSE 23,
          anMove |-> Append(n.anMove, step), cPips |-> n.cPips + pips]
  BY DEF NextNode, next, step, pips
<1> QED BY <1>3, <1>6, <1>8, <1>9, <1>10, <1>11 DEF Node, AnyBoard

LEMMA SubAgrees ==
  ASSUME NEW anRoll \in Roll4, NEW fPartial, NEW f, NEW g, NEW k \in Nat,
         \A m \in Node : Len(m.anMove) >= k + 1 => f[m] = g[m]
  PROVE  \A n \in Node : Len(n.anMove) >= k => SubOf(anRoll, fPartial, f, n) = SubOf(anRoll, fPartial, g, n)
<1> SUFFICES ASSUME NEW n \in Node, Len(n.anMove) >= k
             PROVE  SubOf(anRoll, fPartial, f, n) = SubOf(anRoll, fPartial, g, n)
  OBVIOUS
<1>1. CASE PipsOf(anRoll, n) = 0 BY <1>1 DEF SubOf
<1>2. CASE PipsOf(anRoll, n) # 0
  <2>1. ASSUME NEW i \in Sources(n.board, n.iPip, PipsOf(anRoll, n))
        PROVE  f[NextNode(anRoll, n, i)] = g[NextNode(anRoll, n, i)]
    <3>1. NextNode(anRoll, n, i) \in Node /\ Len(NextNode(anRoll, n, i).anMove) = Len(n.anMove) + 1
      BY <1>2, NextFacts
    <3>2. Len(n.anMove) \in Nat BY DEF Node
    <3>3. Len(NextNode(anRoll, n, i).anMove) >= k + 1 BY <3>1, <3>2
    <3> QED BY <3>1, <3>3
  <2> QED BY <1>2, <2>1 DEF SubOf
<1> QED BY <1>1, <1>2

(* Four steps at most: the search that GenerateMovesSub defines is there.    *)
LEMMA SearchIs ==
  ASSUME NEW anRoll \in Roll4, NEW fPartial
  PROVE  \E f : f = [n \in Node |-> SubOf(anRoll, fPartial, f, n)]
<1> DEFINE Over4(f) == [n \in Node |-> SubOf(anRoll, fPartial, f, n)]
           Same(f, g, k) == \A m \in Node : Len(m.anMove) >= k => f[m] = g[m]
           f0 == [n \in Node |-> {}]
           f1 == Over4(f0)
           f2 == Over4(f1)
           f3 == Over4(f2)
           f4 == Over4(f3)
<1>1. ASSUME NEW f, NEW g, NEW k \in Nat, Same(f, g, k + 1) PROVE Same(Over4(f), Over4(g), k)
  <2>1. \A m \in Node : Len(m.anMove) >= k + 1 => f[m] = g[m] BY <1>1
  <2>2. \A n \in Node : Len(n.anMove) >= k => SubOf(anRoll, fPartial, f, n) = SubOf(anRoll, fPartial, g, n)
    BY <2>1, SubAgrees
  <2> QED BY <2>2
<1>2. Same(f0, f1, 4)
  <2> SUFFICES ASSUME NEW m \in Node, Len(m.anMove) >= 4 PROVE SubOf(anRoll, fPartial, f0, m) = {} OBVIOUS
  <2>1. Len(m.anMove) \in Nat BY DEF Node
  <2>2. PipsOf(anRoll, m) = 0 BY <2>1 DEF PipsOf
  <2> QED BY <2>2 DEF SubOf
<1> HIDE DEF Same, Over4, f0
<1>3. Same(f1, f2, 3) BY <1>1, <1>2
<1>4. Same(f2, f3, 2) BY <1>1, <1>3
<1>5. Same(f3, f4, 1) BY <1>1, <1>4
<1>6. Same(f4, Over4(f4), 0) BY <1>1, <1>5
<1> HIDE DEF f1, f2, f3
<1>7. f4 = Over4(f4)
  <2>1. \A m \in Node : f4[m] = Over4(f4)[m]
    <3> TAKE m \in Node
    <3>1. Len(m.anMove) \in Nat BY DEF Node
    <3> HIDE DEF f4
    <3> QED BY <1>6, <3>1 DEF Same
  <2>2. f4 = [n \in Node |-> f4[n]] BY DEF f4, Over4
  <2>3. Over4(f4) = [n \in Node |-> Over4(f4)[n]]
    <3> HIDE DEF f4
    <3> QED BY DEF Over4
  <2> HIDE DEF f4
  <2> QED BY <2>1, <2>2, <2>3
<1> HIDE DEF f4
<1> QED BY <1>7 DEF Over4

(* What a search saves comes of moving men down.                             *)
LEMMA SearchDown ==
  ASSUME NEW anRoll \in Roll4, NEW fPartial, NEW f, f = [n \in Node |-> SubOf(anRoll, fPartial, f, n)]
  PROVE  \A n \in Node : \A s \in f[n] : s \in Node /\ LeadsDown(s.board, n.board)
<1> DEFINE Right(n) == \A s \in f[n] : s \in Node /\ LeadsDown(s.board, n.board)
           From(k) == \A n \in Node : Len(n.anMove) >= k => Right(n)
<1>1. \A n \in Node : f[n] = SubOf(anRoll, fPartial, f, n) OBVIOUS
<1>2. \A n \in Node : Len(n.anMove) \in Nat BY DEF Node
<1>3. From(4)
  <2> SUFFICES ASSUME NEW n \in Node, Len(n.anMove) >= 4 PROVE f[n] = {} OBVIOUS
  <2>1. PipsOf(anRoll, n) = 0 BY <1>2 DEF PipsOf
  <2> QED BY <1>1, <2>1 DEF SubOf
<1>4. ASSUME NEW k \in Nat, From(k + 1) PROVE From(k)
  <2> SUFFICES ASSUME NEW n \in Node, Len(n.anMove) >= k, NEW s \in f[n]
               PROVE  s \in Node /\ LeadsDown(s.board, n.board)
    OBVIOUS
  <2>1. s \in SubOf(anRoll, fPartial, f, n) BY <1>1
  <2>2. PipsOf(anRoll, n) # 0 BY <2>1 DEF SubOf
  <2>3. PICK i \in Sources(n.board, n.iPip, PipsOf(anRoll, n)) :
          s \in f[NextNode(anRoll, n, i)] \/ s = NextNode(anRoll, n, i)
    BY <2>1, <2>2 DEF SubOf
  <2> DEFINE next == NextNode(anRoll, n, i)
  <2>4. next \in Node /\ Len(next.anMove) = Len(n.anMove) + 1 /\ LeadsDown(next.board, n.board)
    BY <2>2, NextFacts
  <2>5. s \in f[next] \/ s = next BY <2>3
  <2> HIDE DEF next
  <2>6. CASE s = next BY <2>4, <2>6
  <2>7. CASE s \in f[next]
    <3>1. Len(next.anMove) >= k + 1 BY <1>2, <2>4
    <3>2. Right(next)
      <4> HIDE DEF Right
      <4> QED BY <1>4, <2>4, <3>1
    <3>3. s \in Node /\ LeadsDown(s.board, next.board) BY <2>7, <3>2
    <3>4. s.board \in AnyBoard /\ next.board \in AnyBoard /\ n.board \in AnyBoard BY <2>4, <3>3 DEF Node, AnyBoard
    <3> QED BY <2>4, <3>3, <3>4, LeadsDownAgain
  <2> QED BY <2>5, <2>6, <2>7
<1> HIDE DEF From
<1>5. From(3) BY <1>3, <1>4
<1>6. From(2) BY <1>4, <1>5
<1>7. From(1) BY <1>4, <1>6
<1>8. From(0) BY <1>4, <1>7
<1> QED BY <1>2, <1>8 DEF From

LEMMA SubDown ==
  ASSUME NEW anRoll \in Roll4, NEW fPartial, NEW board \in AnyBoard
  PROVE  \A s \in GenerateMovesSub(anRoll, board, fPartial) :
            s.board \in AnyBoard /\ LeadsDown(s.board, board)
<1> DEFINE Def(f) == f = [n \in Node |-> SubOf(anRoll, fPartial, f, n)]
           f == CHOOSE h : Def(h)
           start == [board |-> board, iPip |-> 23, anMove |-> <<>>, cPips |-> 0]
<1>1. Def(f)
  <2>1. \E h : Def(h) BY SearchIs
  <2> HIDE DEF Def
  <2> QED BY <2>1
<1>2. GenerateMovesSub(anRoll, board, fPartial) = f[start]
  BY DEF GenerateMovesSub, SubOf, NextNode, PipsOf
<1>3. start \in Node BY DEF Node, AnyBoard
<1>4. start.board = board OBVIOUS
<1> HIDE DEF f, start
<1>5. \A s \in f[start] : s \in Node /\ LeadsDown(s.board, start.board) BY <1>1, <1>3, SearchDown
<1>6. \A s \in Node : s.board \in AnyBoard BY DEF Node, AnyBoard
<1> QED BY <1>2, <1>4, <1>5, <1>6

LEMMA MovesDown ==
  ASSUME NEW board \in AnyBoard, NEW a \in 1..6, NEW b \in 1..6, NEW fPartial,
         NEW m \in GenerateMoves(board, a, b, fPartial)
  PROVE  \E new \in AnyBoard : m.key = PositionKey(new) /\ LeadsDown(new, board)
<1> DEFINE Four(x, y) == <<x, y, IF x = y THEN x ELSE 0, IF x = y THEN x ELSE 0>>
           Saves(x, y, swapped) ==
             {[board |-> p.board, anMove |-> p.anMove, cPips |-> p.cPips, swapped |-> swapped] :
                p \in GenerateMovesSub(Four(x, y), board, fPartial)}
           saves == Saves(a, b, FALSE) \cup IF a = b THEN {} ELSE Saves(b, a, TRUE)
<1>1. GenerateMoves(board, a, b, fPartial) =
        {[key |-> PositionKey(p.board), anMove |-> p.anMove, cPips |-> p.cPips] : p \in OneToKey(Kept(saves, fPartial))}
  BY DEF GenerateMoves
<1>2. OneToKey(Kept(saves, fPartial)) \subseteq saves
  <2> HIDE DEF saves
  <2> QED BY DEF OneToKey, Kept
<1>3. ASSUME NEW x \in 1..6, NEW y \in 1..6, NEW swapped, NEW p \in Saves(x, y, swapped)
      PROVE  p.board \in AnyBoard /\ LeadsDown(p.board, board)
  <2>1. Four(x, y) \in Roll4 BY DEF Roll4
  <2>2. PICK q \in GenerateMovesSub(Four(x, y), board, fPartial) : p.board = q.board OBVIOUS
  <2> HIDE DEF Four
  <2> QED BY <2>1, <2>2, SubDown
<1>4. \A p \in saves : p.board \in AnyBoard /\ LeadsDown(p.board, board)
  <2> HIDE DEF Saves
  <2> QED BY <1>3
<1> HIDE DEF saves
<1>5. PICK p \in saves : m = [key |-> PositionKey(p.board), anMove |-> p.anMove, cPips |-> p.cPips] BY <1>1, <1>2
<1>6. m.key = PositionKey(p.board) BY <1>5
<1> QED BY <1>4, <1>5, <1>6

-----------------------------------------------------------------------------
(* The moves that AllMoves holds.                                            *)

(* SubSeq of a function on so many numbers has its values.                   *)
LEMMA TupleOf ==
  ASSUME NEW n \in Nat, NEW f, f = [k \in 1..n |-> f[k]]
  PROVE  \A k \in 1..n : SubSeq(f, 1, n)[k] = f[k]
<1> DEFINE S == {f[k] : k \in 1..n}
<1>1. \A k \in 1..n : f[k] \in S OBVIOUS
<1> HIDE DEF S
<1>2. f \in [1..n -> S] BY <1>1
<1>3. f \in Seq(S) /\ Len(f) = n BY <1>2
<1>4. \A k \in 1..n : SubSeq(f, 1, n)[k] = f[1 + k - 1]
  BY <1>3
<1>5. \A k \in 1..n : 1 + k - 1 = k OBVIOUS
<1> QED BY <1>4, <1>5

(* The side of a number has a row that fits, and men enough for a digit.     *)
LEMMA SideOf ==
  ASSUME NEW p \in Nat \ {0}, NEW c \in Nat \ {0}, p + c <= MAX_N,
         NEW id \in Nat, id < Combination(p + c, p), NEW side,
         \A j \in 0..(p - 1) : side[j] = PositionFromBearoff(id, p, c)[j]
  PROVE  /\ \A j \in 0..(p - 1) : side[j] \in Nat
         /\ Closes(side, p)[0] <= p + c
         /\ PositionBearoff(side, p, c) = id
<1> DEFINE size == p + c
           bits == PositionInv(id, size, p)
           men(j) == {z \in (0..(size - 1)) \ bits : OnesBelow(bits, z) = p - 1 - j}
<1>1. size \in 1..MAX_N /\ p \in 1..MAX_N /\ p < size /\ size \in Nat BY DEF MAX_N
<1>2. bits \subseteq 0..(size - 1) /\ Cardinality(bits) = p
  <2> HIDE DEF size
  <2> QED BY <1>1, NumberOfChoice DEF size
<1>3. c + p = size OBVIOUS
<1>4. PositionFromBearoff(id, p, c) = [j \in 0..(p - 1) |-> Cardinality(men(j))]
  BY <1>3 DEF PositionFromBearoff, OnesBelow
<1> HIDE DEF size, bits
<1>5. \A j \in 0..(p - 1) : side[j] = Cardinality(men(j)) BY <1>4
<1>6. GapBits(side, p) = bits BY <1>1, <1>2, <1>5, RowOfSide
<1>7. \A j \in 0..(p - 1) : side[j] \in Nat
  <2> TAKE j \in 0..(p - 1)
  <2>1. IsFiniteSet(0..(size - 1))
    <3>1. 0 \in Int /\ size - 1 \in Int BY <1>1
    <3> QED BY <3>1, FS_Interval
  <2>2. men(j) \subseteq 0..(size - 1) OBVIOUS
  <2> HIDE DEF men
  <2>3. IsFiniteSet(men(j)) BY <2>1, <2>2, FS_Subset
  <2> QED BY <1>5, <2>3, FS_CardinalityType
<1>8. Closes(side, p)[0] - 1 \in bits
  <2>1. 0 \in 0..(p - 1) OBVIOUS
  <2> QED BY <1>6, <2>1, GapBitsIs
<1>9. Closes(side, p)[0] \in Nat
  <2>1. 0 \in 0..p OBVIOUS
  <2> QED BY <1>7, <2>1, ClosesIs
<1>10. Closes(side, p)[0] <= size BY <1>1, <1>2, <1>8, <1>9
<1> QED BY <1>7, <1>10, NumbersOf DEF size

(* A move of the rules leads to a smaller number.                            *)
LEMMA MoveNumber ==
  ASSUME NEW p \in 1..Bar, NEW c \in 1..AllMen, p + c <= MAX_N,
         NEW us \in Nat, us < Combination(p + c, p),
         NEW board \in AnyBoard, Within(board, p),
         \A j \in 0..(p - 1) : board[1][j] = PositionFromBearoff(us, p, c)[j],
         NEW a \in 1..6, NEW b \in 1..6, NEW fPartial, NEW m \in GenerateMoves(board, a, b, fPartial)
  PROVE  PositionBearoff(PositionFromKey(m.key)[1], p, c) \in 0..(us - 1)
<1>0. p \in Nat \ {0} /\ c \in Nat \ {0} /\ c \in Nat /\ p \in Nat /\ p <= 24 /\ c <= 15 BY DEF Bar, AllMen
<1>1. PICK new \in AnyBoard : m.key = PositionKey(new) /\ LeadsDown(new, board) BY MovesDown
<1>2. ComesLower(new[1], board[1], p) BY <1>1 DEF LeadsDown
<1> DEFINE s == board[1]
           t == new[1]
           back == PositionFromKey(m.key)[1]
<1>3. \A j \in 0..(p - 1) : s[j] \in Nat /\ t[j] \in Nat
  <2> TAKE j \in 0..(p - 1)
  <2>1. j \in Point /\ 1 \in Side BY <1>0 DEF Point, Side, Bar
  <2> QED BY <2>1 DEF AnyBoard
<1>4. ComesLower(t, s, p) BY <1>2
<1>5. \A j \in 0..(p - 1) : s[j] = PositionFromBearoff(us, p, c)[j] OBVIOUS
<1> HIDE DEF s
<1>6. Closes(s, p)[0] <= p + c /\ PositionBearoff(s, p, c) = us BY <1>0, <1>5, SideOf
<1>7. \A j \in 0..(p - 1) : t[j] \in 0..15 /\ j \in 0..23
  <2> TAKE j \in 0..(p - 1)
  <2> HIDE DEF t
  <2>1. t[j] + p <= Closes(t, p)[0] BY <1>0, <1>3, MenFit
  <2>2. 0 \in 0..p BY <1>0
  <2>3. Closes(t, p)[0] <= Closes(s, p)[0] BY <1>4, <2>2 DEF ComesLower
  <2>4. Closes(t, p)[0] \in Nat /\ Closes(s, p)[0] \in Nat BY <1>0, <1>3, <2>2, ClosesIs
  <2>5. t[j] \in Nat BY <1>3
  <2> QED BY <1>0, <1>6, <2>1, <2>3, <2>4, <2>5
<1>8. \A j \in 0..(p - 1) : back[j] = t[j]
  <2> TAKE j \in 0..(p - 1)
  <2>1. j \in 0..23 /\ new[1][j] \in 0..15 BY <1>7
  <2> QED BY <1>1, <2>1, KeyGivesBack
<1> HIDE DEF back, t
<1>9. GapBits(back, p) = GapBits(t, p) BY <1>0, <1>3, <1>8, SameRow
<1>10. PositionBearoff(back, p, c) = PositionBearoff(t, p, c) BY <1>9 DEF PositionBearoff
<1>11. PositionBearoff(t, p, c) \in Nat /\ PositionBearoff(t, p, c) < PositionBearoff(s, p, c)
  BY <1>0, <1>3, <1>4, <1>6, LowerNumber
<1> QED BY <1>6, <1>10, <1>11 DEF back

(* A throw and its number among the twenty-one.                              *)
Thrown == {r \in (1..6) \X (1..6) : r[2] <= r[1]}

LEMMA OrdinalIs ==
  ASSUME NEW r \in Thrown
  PROVE  /\ Ordinal(r) \in 1..21
         /\ \A q \in Thrown : Ordinal(q) = Ordinal(r) => q = r
<1> DEFINE before(a) == IF a = 1 THEN 0 ELSE IF a = 2 THEN 1 ELSE IF a = 3 THEN 3
                        ELSE IF a = 4 THEN 6 ELSE IF a = 5 THEN 10 ELSE 15
<1>1. ASSUME NEW q \in Thrown
      PROVE  q = <<q[1], q[2]>> /\ q[1] \in 1..6 /\ q[2] \in 1..6 /\ q[2] <= q[1] /\ Ordinal(q) = before(q[1]) + q[2]
  <2>1. q = <<q[1], q[2]>> /\ q[1] \in 1..6 /\ q[2] \in 1..6 /\ q[2] <= q[1] BY DEF Thrown
  <2>2. \A a \in 1..6 : (a * (a - 1)) \div 2 = before(a)
    <3> TAKE a \in 1..6
    <3>1. CASE a = 1 BY <3>1
    <3>2. CASE a = 2 BY <3>2
    <3>3. CASE a = 3 BY <3>3
    <3>4. CASE a = 4 BY <3>4
    <3>5. CASE a = 5 BY <3>5
    <3>6. CASE a = 6 BY <3>6
    <3> QED BY <3>1, <3>2, <3>3, <3>4, <3>5, <3>6
  <2>3. (q[1] * (q[1] - 1)) \div 2 = before(q[1]) BY <2>1, <2>2
  <2> QED BY <2>1, <2>3 DEF Ordinal
<1>2. Ordinal(r) \in 1..21 BY <1>1
<1>3. ASSUME NEW q \in Thrown, Ordinal(q) = Ordinal(r) PROVE q = r
  <2> DEFINE a == q[1]  b == q[2]  d == r[1]  e == r[2]
  <2>1. a \in 1..6 /\ b \in 1..6 /\ b <= a /\ Ordinal(q) = before(a) + b /\ q = <<a, b>> BY <1>1
  <2>2. d \in 1..6 /\ e \in 1..6 /\ e <= d /\ Ordinal(r) = before(d) + e /\ r = <<d, e>> BY <1>1
  <2> HIDE DEF a, b, d, e
  <2>3. \A x \in 1..6, y \in 1..6 : x < y => before(x) + x <= before(y) /\ before(y) \in Nat
    <3> TAKE x \in 1..6, y \in 1..6
    <3>1. CASE x = 1 BY <3>1
    <3>2. CASE x = 2 BY <3>2
    <3>3. CASE x = 3 BY <3>3
    <3>4. CASE x = 4 BY <3>4
    <3>5. CASE x = 5 BY <3>5
    <3>6. CASE x = 6 BY <3>6
    <3> QED BY <3>1, <3>2, <3>3, <3>4, <3>5, <3>6
  <2>4. before(a) \in Nat /\ before(d) \in Nat OBVIOUS
  <2> HIDE DEF before
  <2>5. before(a) + b = before(d) + e BY <1>3, <2>1, <2>2
  <2>6. ~(a < d)
    <3>1. a < d => before(a) + a <= before(d) BY <2>1, <2>2, <2>3
    <3> QED BY <2>1, <2>2, <2>4, <2>5, <3>1
  <2>7. ~(d < a)
    <3>1. d < a => before(d) + d <= before(a) BY <2>1, <2>2, <2>3
    <3> QED BY <2>1, <2>2, <2>4, <2>5, <3>1
  <2>8. a = d /\ b = e BY <2>1, <2>2, <2>4, <2>5, <2>6, <2>7
  <2> QED BY <2>1, <2>2, <2>8
<1> QED BY <1>2, <1>3

LEMMA NthIs ==
  ASSUME NEW r \in Thrown
  PROVE  Nth(Ordinal(r)) = r
<1> DEFINE throws == {q \in (1..6) \X (1..6) : q[2] <= q[1] /\ Ordinal(q) = Ordinal(r)}
           P(q) == q[2] <= q[1] /\ Ordinal(q) = Ordinal(r)
<1>1. r \in (1..6) \X (1..6) /\ P(r) BY DEF Thrown
<1>2. Nth(Ordinal(r)) = CHOOSE q \in (1..6) \X (1..6) : P(q) BY DEF Nth
<1>3. \A q \in (1..6) \X (1..6) : P(q) => q = r
  <2> TAKE q \in (1..6) \X (1..6)
  <2>1. P(q) => q \in Thrown BY DEF Thrown
  <2> QED BY <2>1, OrdinalIs
<1> HIDE DEF P
<1> QED BY <1>1, <1>2, <1>3

(* What AllMoves gives for a position and a throw.                           *)
LEMMA MovesOf ==
  ASSUME NEW size, size[1] \in 1..Bar, size[2] \in 1..AllMen, size[1] + size[2] <= MAX_N, size[3] \in BOOLEAN,
         NEW us \in 1..(Combination(size[1] + size[2], size[1]) - 1), NEW them,
         IF size[3] THEN them \in 1..(Combination(size[1] + size[2], size[1]) - 1) ELSE them = 1,
         NEW r \in Thrown
  PROVE  AllMoves(size)[us][them][Ordinal(r)] \subseteq 0..(us - 1)
<1> DEFINE p == size[1]
           c == size[2]
           two == size[3]
           ids == Combination(p + c, p) - 1
           others == IF two THEN ids ELSE 1
           side == [id \in 1..ids |-> Side1(size, id)]
           sides == SubSeq(side, 1, ids)
           board(u, t) == [s \in Side |-> IF s = 1 THEN sides[u] ELSE IF two THEN sides[t] ELSE NoMen]
           After(u, t, q) ==
             {PositionBearoff(PositionFromKey(m.key)[1], p, c) : m \in GenerateMoves(board(u, t), q[1], q[2], FALSE)}
           row(u, t) == [k \in 1..21 |-> After(u, t, Nth(k))]
           block(u) == [t \in 1..others |-> SubSeq(row(u, t), 1, 21)]
           all == [u \in 1..ids |-> SubSeq(block(u), 1, others)]
<1>1. AllMoves(size) = SubSeq(all, 1, ids) BY DEF AllMoves
<1>2. p \in Nat \ {0} /\ c \in Nat \ {0} /\ p + c \in Nat BY DEF Bar, AllMen
<1>3. Combination(p + c, p) \in Nat /\ Combination(p + c, p) >= 2 BY <1>2, Combinations
<1>4. ids \in Nat /\ others \in Nat /\ us \in 1..ids /\ them \in 1..others /\ 21 \in Nat BY <1>3
<1>5. \A id \in 1..ids : sides[id] = Side1(size, id)
  <2>1. side = [k \in 1..ids |-> side[k]] OBVIOUS
  <2> HIDE DEF side, ids
  <2>2. \A k \in 1..ids : sides[k] = side[k] BY <1>4, <2>1, TupleOf
  <2> QED BY <2>2 DEF side
<1>6. AllMoves(size)[us] = SubSeq(block(us), 1, others)
  <2>1. all = [k \in 1..ids |-> all[k]] OBVIOUS
  <2>2. all[us] = SubSeq(block(us), 1, others) BY <1>4
  <2> HIDE DEF all, ids, block, others
  <2>3. SubSeq(all, 1, ids)[us] = all[us] BY <1>4, <2>1, TupleOf
  <2> QED BY <1>1, <2>2, <2>3
<1>7. SubSeq(block(us), 1, others)[them] = SubSeq(row(us, them), 1, 21)
  <2>1. block(us) = [k \in 1..others |-> block(us)[k]] OBVIOUS
  <2>2. block(us)[them] = SubSeq(row(us, them), 1, 21) BY <1>4
  <2> HIDE DEF block, others
  <2> QED BY <1>4, <2>1, <2>2, TupleOf
<1>8. SubSeq(row(us, them), 1, 21)[Ordinal(r)] = After(us, them, r)
  <2>1. row(us, them) = [k \in 1..21 |-> row(us, them)[k]] OBVIOUS
  <2>2. Ordinal(r) \in 1..21 /\ Nth(Ordinal(r)) = r BY OrdinalIs, NthIs
  <2>3. row(us, them)[Ordinal(r)] = After(us, them, r)
    <3> HIDE DEF After
    <3> QED BY <2>2
  <2> HIDE DEF row, After
  <2> QED BY <1>4, <2>1, <2>2, <2>3, TupleOf
<1>9. AllMoves(size)[us][them][Ordinal(r)] = After(us, them, r)
  <2> HIDE DEF After, row, block
  <2> QED BY <1>6, <1>7, <1>8
<1>10. ASSUME NEW id \in 1..ids
       PROVE  /\ Side1(size, id) \in [Point -> Nat]
              /\ \A k \in p..Bar : Side1(size, id)[k] = 0
              /\ \A j \in 0..(p - 1) : Side1(size, id)[j] = PositionFromBearoff(id, p, c)[j]
  <2>1. Side1(size, id) = [k \in Point |-> IF k < p THEN PositionFromBearoff(id, p, c)[k] ELSE 0]
    BY DEF Side1, Pad
  <2>2. id \in Nat /\ id < Combination(p + c, p) BY <1>3
  <2>3. \A j \in 0..(p - 1) : PositionFromBearoff(id, p, c)[j] \in Nat BY <1>2, <2>2, SideOf
  <2>4. \A k \in Point : k < p => k \in 0..(p - 1) BY DEF Point
  <2>5. \A k \in p..Bar : k \in Point /\ ~(k < p) BY DEF Point, Bar
  <2>6. \A j \in 0..(p - 1) : j \in Point /\ j < p BY DEF Point, Bar
  <2>7. Side1(size, id) \in [Point -> Nat] BY <2>1, <2>3, <2>4
  <2> QED BY <2>1, <2>5, <2>6, <2>7
<1>11. board(us, them) \in AnyBoard /\ board(us, them)[1] = Side1(size, us)
  <2>1. NoMen \in [Point -> Nat] BY DEF NoMen
  <2>2. sides[us] \in [Point -> Nat] /\ (two => sides[them] \in [Point -> Nat])
    <3>1. two => them \in 1..ids BY <1>4
    <3> HIDE DEF sides, ids
    <3> QED BY <1>4, <1>5, <1>10, <3>1
  <2>3. sides[us] = Side1(size, us)
    <3> HIDE DEF sides, ids
    <3> QED BY <1>4, <1>5
  <2> HIDE DEF sides
  <2> QED BY <2>1, <2>2, <2>3 DEF AnyBoard, Side
<1>12. After(us, them, r) \subseteq 0..(us - 1)
  <2>1. r[1] \in 1..6 /\ r[2] \in 1..6 BY DEF Thrown
  <2>2. us \in Nat /\ us < Combination(p + c, p) BY <1>3, <1>4
  <2>3. PICK b \in AnyBoard : b = board(us, them) BY <1>11
  <2>4. Within(b, p) /\ \A j \in 0..(p - 1) : b[1][j] = PositionFromBearoff(us, p, c)[j]
    <3> HIDE DEF ids, board
    <3> QED BY <1>4, <1>10, <1>11, <2>3 DEF Within
  <2>5. \A m \in GenerateMoves(b, r[1], r[2], FALSE) : PositionBearoff(PositionFromKey(m.key)[1], p, c) \in 0..(us - 1)
    BY <2>1, <2>2, <2>4, MoveNumber
  <2> HIDE DEF board
  <2> QED BY <2>3, <2>5
<1> HIDE DEF After
<1> QED BY <1>9, <1>12

-----------------------------------------------------------------------------
(* The heuristic moves lead down as well.  A side is a tuple here.           *)
Men6 == [1..6 -> Nat]

(* What is least by some measure.                                            *)
LEMMA LeastBy ==
  ASSUME NEW S, S # {}, NEW f, \A p \in S : f[p] \in Nat
  PROVE  \E p \in S : \A q \in S : f[p] <= f[q]
<1> DEFINE values == {f[p] : p \in S}
<1>1. values \in SUBSET Nat /\ values # {} OBVIOUS
<1>2. PICK m \in values : \A k \in values : m <= k
  <2> HIDE DEF values
  <2> QED BY <1>1, LeastNumber
<1>3. PICK p \in S : m = f[p] OBVIOUS
<1>4. \A q \in S : f[q] \in values OBVIOUS
<1> HIDE DEF values
<1> QED BY <1>2, <1>3, <1>4

LEMMA MostBy ==
  ASSUME NEW S, S # {}, NEW f, NEW bound \in Nat, \A p \in S : f[p] \in Nat /\ f[p] <= bound
  PROVE  \E p \in S : \A q \in S : f[q] <= f[p]
<1> DEFINE g == [p \in S |-> bound - f[p]]
<1>1. \A p \in S : g[p] \in Nat OBVIOUS
<1>2. PICK p \in S : \A q \in S : g[p] <= g[q]
  <2> HIDE DEF g
  <2> QED BY <1>1, LeastBy
<1>3. \A q \in S : bound - f[p] <= bound - f[q] BY <1>2
<1>4. \A q \in S : f[q] \in Nat /\ f[p] \in Nat OBVIOUS
<1> HIDE DEF g
<1>5. \A q \in S : f[q] <= f[p] BY <1>3, <1>4
<1> QED BY <1>5

(* No point has more men than all of them have.                              *)
LEMMA MenBound ==
  ASSUME NEW side \in Men6
  PROVE  \E bound \in Nat : \A p \in 1..6 : side[p] \in Nat /\ side[p] <= bound
<1>1. \A p \in 1..6 : side[p] \in Nat BY DEF Men6
<1> DEFINE bound == side[1] + side[2] + side[3] + side[4] + side[5] + side[6]
<1>2. side[1] \in Nat /\ side[2] \in Nat /\ side[3] \in Nat /\ side[4] \in Nat /\ side[5] \in Nat /\ side[6] \in Nat
  BY <1>1
<1>3. bound \in Nat BY <1>2
<1>4. \A p \in 1..6 : side[p] <= bound
  <2> TAKE p \in 1..6
  <2>1. p = 1 \/ p = 2 \/ p = 3 \/ p = 4 \/ p = 5 \/ p = 6 OBVIOUS
  <2> QED BY <1>2, <2>1
<1> HIDE DEF bound
<1> QED BY <1>1, <1>3, <1>4

LEMMA HighestIs ==
  ASSUME NEW side \in Men6
  PROVE  /\ Highest(side) \in 1..6
         /\ \A p \in 1..6 : side[p] > 0 => p <= Highest(side)
         /\ side[Highest(side)] = 0 => \A p \in 1..6 : side[p] = 0
<1> DEFINE held == {1} \cup {p \in 1..6 : side[p] > 0}
           id == [p \in held |-> p]
<1>1. \A p \in held : id[p] \in Nat /\ id[p] <= 6 OBVIOUS
<1>2. PICK m \in held : \A q \in held : id[q] <= id[m]
  <2>1. held # {} /\ 6 \in Nat OBVIOUS
  <2> HIDE DEF held, id
  <2> QED BY <1>1, <2>1, MostBy
<1>3. \A q \in held : q <= m BY <1>2
<1>4. MaxOf(held) \in held /\ \A q \in held : q <= MaxOf(held)
  <2> HIDE DEF held
  <2> QED BY <1>3 DEF MaxOf
<1>5. Highest(side) = MaxOf(held) BY DEF Highest
<1>6. Highest(side) \in 1..6 BY <1>4, <1>5
<1>7. \A p \in 1..6 : side[p] > 0 => p <= Highest(side) BY <1>4, <1>5
<1>8. \A p \in 1..6 : side[p] \in Nat BY DEF Men6
<1>9. ASSUME side[Highest(side)] = 0, NEW p \in 1..6 PROVE side[p] = 0
  <2>1. SUFFICES ASSUME side[p] > 0 PROVE FALSE BY <1>8
  <2>2. Highest(side) = 1 BY <1>4, <1>5, <1>9
  <2>3. p <= 1 BY <1>7, <2>1, <2>2
  <2>4. p = 1 BY <2>3
  <2> QED BY <1>9, <2>1, <2>2, <2>4
<1> QED BY <1>6, <1>7, <1>9

LEMMA FirstFullestIs ==
  ASSUME NEW side \in Men6, NEW points \in SUBSET (1..6), points # {}
  PROVE  FirstFullest(side, points) \in points
<1>1. PICK bound \in Nat : \A p \in 1..6 : side[p] \in Nat /\ side[p] <= bound BY MenBound
<1>2. \A p \in points : p \in 1..6 OBVIOUS
<1>3. PICK m \in points : \A q \in points : side[q] <= side[m] BY <1>1, <1>2, MostBy
<1> DEFINE most == {p \in points : side[p] = side[m]}
           id == [p \in most |-> p]
<1>4. PICK p \in most : \A q \in most : id[p] <= id[q]
  <2>1. most # {} /\ \A k \in most : id[k] \in Nat BY <1>2
  <2> HIDE DEF most, id
  <2> QED BY <2>1, LeastBy
<1>5. p \in points /\ \A q \in points : side[q] < side[p] \/ (side[q] = side[p] /\ p <= q)
  <2> SUFFICES ASSUME NEW q \in points PROVE side[q] < side[p] \/ (side[q] = side[p] /\ p <= q) OBVIOUS
  <2>1. side[q] \in Nat /\ side[m] \in Nat /\ side[q] <= side[m] /\ side[p] = side[m] BY <1>1, <1>2, <1>3
  <2>2. side[q] = side[m] => p <= q BY <1>4
  <2> QED BY <2>1, <2>2
<1> QED BY <1>5 DEF FirstFullest

LEMMA FullestIs ==
  ASSUME NEW side \in Men6, NEW die \in 1..6, NEW points \in SUBSET ((die + 1)..6), points # {}
  PROVE  /\ Fullest(side, die, points) \in points
         /\ \A q \in points : side[q] <= side[Fullest(side, die, points)]
<1> DEFINE better(p, q) == \/ side[p] > side[q]
                           \/ side[p] = side[q] /\ side[p - die] < side[q - die]
           Best(p) == \A q \in points : ~better(q, p) /\ (better(p, q) \/ p <= q)
<1>1. PICK bound \in Nat : \A p \in 1..6 : side[p] \in Nat /\ side[p] <= bound BY MenBound
<1>2. \A p \in points : p \in 1..6 /\ p - die \in 1..6 /\ p \in Nat
  <2> TAKE p \in points
  <2>1. p \in (die + 1)..6 OBVIOUS
  <2> QED BY <2>1
<1>3. PICK m \in points : \A q \in points : side[q] <= side[m] BY <1>1, <1>2, MostBy
<1> DEFINE most == {p \in points : side[p] = side[m]}
           before == [p \in most |-> side[p - die]]
<1>4. PICK l \in most : \A q \in most : before[l] <= before[q]
  <2>1. most # {} /\ \A k \in most : before[k] \in Nat BY <1>1, <1>2
  <2> HIDE DEF most, before
  <2> QED BY <2>1, LeastBy
<1> DEFINE least == {p \in most : side[p - die] = side[l - die]}
           id == [p \in least |-> p]
<1>5. PICK p \in least : \A q \in least : id[p] <= id[q]
  <2>1. least # {} /\ \A k \in least : id[k] \in Nat BY <1>2
  <2> HIDE DEF least, id
  <2> QED BY <2>1, LeastBy
<1>6. p \in points /\ Best(p)
  <2> SUFFICES ASSUME NEW q \in points PROVE ~better(q, p) /\ (better(p, q) \/ p <= q) OBVIOUS
  <2>1. side[q] \in Nat /\ side[m] \in Nat /\ side[q] <= side[m] /\ side[p] = side[m] BY <1>1, <1>2, <1>3
  <2>2. side[q - die] \in Nat /\ side[l - die] \in Nat /\ side[p - die] = side[l - die] BY <1>1, <1>2
  <2>3. side[q] = side[m] => side[l - die] <= side[q - die] BY <1>4
  <2>4. side[q] = side[m] /\ side[q - die] = side[l - die] => p <= q BY <1>5
  <2> QED BY <2>1, <2>2, <2>3, <2>4
<1>7. Fullest(side, die, points) = CHOOSE k \in points : Best(k) BY DEF Fullest
<1> DEFINE full == Fullest(side, die, points)
<1>8. full \in points /\ Best(full)
  <2> HIDE DEF Best
  <2> QED BY <1>6, <1>7
<1> HIDE DEF full
<1>9. \A q \in points : ~(side[q] > side[full]) /\ side[q] \in Nat /\ side[full] \in Nat BY <1>1, <1>2, <1>8
<1>10. \A q \in points : side[q] <= side[full] BY <1>9
<1> QED BY <1>8, <1>10 DEF full

(* Dice added up from one of them on.                                        *)
SumFrom(dice, i) ==
  CHOOSE sum : sum = [j \in i..Len(dice) |-> IF j = i THEN dice[i] ELSE sum[j - 1] + dice[j]]

LEMMA SumIs ==
  ASSUME NEW dice, Len(dice) \in Nat, NEW i \in 1..Len(dice), \A k \in 1..Len(dice) : dice[k] \in 1..6
  PROVE  \A j \in i..Len(dice) : SumFrom(dice, i)[j] \in Nat /\ SumFrom(dice, i)[j] >= 1
<1> DEFINE L == Len(dice)
           Die(n) == IF i + n \in 1..L THEN dice[i + n] ELSE 0
           F == [n \in Nat |-> [x \in Nat |-> x + Die(n)]]
           Def(sum) == sum = [j \in i..L |-> IF j = i THEN dice[i] ELSE sum[j - 1] + dice[j]]
<1>1. \A n \in Nat : Die(n) \in Nat OBVIOUS
<1>2. F \in [Nat -> [Nat -> Nat]]
  <2>1. ASSUME NEW n \in Nat PROVE [x \in Nat |-> x + Die(n)] \in [Nat -> Nat]
    <3>1. Die(n) \in Nat BY <1>1
    <3> HIDE DEF Die
    <3> QED BY <3>1
  <2> HIDE DEF Die
  <2> QED BY <2>1
<1>3. dice[i] \in Nat /\ dice[i] >= 1 /\ i \in Nat /\ L \in Nat OBVIOUS
<1>4. PICK g \in [Nat -> Nat] : RowsOf(g, dice[i], F)
  <2> HIDE DEF F
  <2> QED BY <1>2, <1>3, Rows
<1>5. g[0] = dice[i] /\ \A n \in Nat : g[n + 1] = F[n + 1][g[n]] BY <1>4 DEF RowsOf
<1> DEFINE f == [j \in i..L |-> g[j - i]]
<1>6. Def(f)
  <2> DEFINE R(j) == IF j = i THEN dice[i] ELSE f[j - 1] + dice[j]
  <2>1. ASSUME NEW j \in i..L PROVE g[j - i] = R(j)
    <3>1. CASE j = i
      <4>1. j - i = 0 BY <1>3, <3>1
      <4> HIDE DEF f, F
      <4> QED BY <1>5, <3>1, <4>1
    <3>2. CASE j # i
      <4>1. j - 1 \in i..L /\ (j - 1) - i \in Nat /\ ((j - 1) - i) + 1 = j - i /\ i + (j - i) = j /\ j \in 1..L
            /\ j - i \in Nat
        BY <1>3, <3>2
      <4>2. g[((j - 1) - i) + 1] = F[((j - 1) - i) + 1][g[(j - 1) - i]]
        <5> HIDE DEF F
        <5> QED BY <1>5, <4>1
      <4>3. g[j - i] = F[j - i][g[(j - 1) - i]]
        <5> HIDE DEF F
        <5> QED BY <4>1, <4>2
      <4>4. Die(j - i) = dice[j] BY <4>1
      <4>5. g[(j - 1) - i] \in Nat BY <4>1
      <4>6. F[j - i][g[(j - 1) - i]] = g[(j - 1) - i] + Die(j - i)
        <5> HIDE DEF Die
        <5> QED BY <4>1, <4>5
      <4>7. f[j - 1] = g[(j - 1) - i] BY <4>1
      <4> HIDE DEF f, F, Die
      <4> QED BY <3>2, <4>3, <4>4, <4>6, <4>7
    <3> QED BY <3>1, <3>2
  <2>2. \A j \in i..L : g[j - i] = R(j) BY <2>1
  <2> HIDE DEF R, F
  <2>3. f = [j \in i..L |-> R(j)] BY <2>2
  <2> HIDE DEF f
  <2> QED BY <2>3 DEF R
<1> HIDE DEF f, F
<1>7. PICK h : h = SumFrom(dice, i) OBVIOUS
<1>8. Def(h) BY <1>6, <1>7 DEF SumFrom
<1>9. \A j \in i..L : h[j] = IF j = i THEN dice[i] ELSE h[j - 1] + dice[j] BY <1>8
<1>10. \A j \in i..L : h[j] \in Nat /\ h[j] >= 1
  <2> DEFINE Bad == {j \in Nat : j \in i..L /\ ~(h[j] \in Nat /\ h[j] >= 1)}
  <2>0. ASSUME Bad = {}, NEW j \in i..L PROVE h[j] \in Nat /\ h[j] >= 1
    <3>1. j \in Nat BY <1>3
    <3>2. j \notin Bad BY <2>0
    <3> QED BY <3>1, <3>2
  <2>1. SUFFICES ASSUME Bad # {} PROVE FALSE
    <3> HIDE DEF Bad
    <3> QED BY <2>0
  <2>2. PICK j \in Bad : \A k \in Bad : j <= k
    <3> HIDE DEF Bad
    <3>1. Bad \in SUBSET Nat BY DEF Bad
    <3> QED BY <2>1, <3>1, LeastNumber
  <2>3. j \in Nat /\ j \in i..L /\ ~(h[j] \in Nat /\ h[j] >= 1) OBVIOUS
  <2>4. j # i BY <1>3, <1>9, <2>3
  <2>5. j - 1 \in Nat /\ j - 1 \in i..L /\ j - 1 \notin Bad
    <3>1. j - 1 \in Nat /\ j - 1 \in i..L BY <1>3, <2>3, <2>4
    <3>2. ~(j <= j - 1) BY <2>3
    <3> HIDE DEF Bad
    <3> QED BY <2>2, <3>1, <3>2
  <2>6. h[j - 1] \in Nat /\ h[j - 1] >= 1 BY <2>5
  <2>7. h[j] = h[j - 1] + dice[j] BY <1>9, <2>3, <2>4
  <2>8. dice[j] \in 1..6 BY <1>3, <2>3
  <2> HIDE DEF Bad
  <2>9. h[j - 1] + dice[j] \in Nat /\ h[j - 1] + dice[j] >= 1
    <3>1. \A x \in Nat, y \in 1..6 : x >= 1 => x + y \in Nat /\ x + y >= 1 OBVIOUS
    <3> QED BY <2>6, <2>8, <3>1
  <2> QED BY <2>3, <2>7, <2>9
<1> QED BY <1>7, <1>10

(* Whichever rule applies, there is a man on the point that is played.       *)
LEMMA PointPlayed ==
  ASSUME NEW side \in Men6, side[Highest(side)] # 0, NEW dice, Len(dice) \in Nat,
         NEW i \in 1..Len(dice), \A k \in 1..Len(dice) : dice[k] \in 1..6
  PROVE  PointToPlay(side, dice, i) \in 1..6 /\ side[PointToPlay(side, dice, i)] >= 1
<1> DEFINE die == dice[i]
           top == Highest(side)
           sum == SumFrom(dice, i)
           later == {j \in (i + 1)..Len(dice) : sum[j] <= 6 /\ side[sum[j]] > 0}
           latest == CHOOSE j \in later : \A k \in later : j <= k
           gaps == {p \in (die + 1)..top : side[p] >= 2 /\ side[p - die] = 0}
           point == PointToPlay(side, dice, i)
<1>1. point = IF side[die] > 0 THEN die
              ELSE IF die > top THEN top
              ELSE IF later # {} THEN sum[CHOOSE j \in later : \A k \in later : j <= k]
              ELSE IF gaps # {} THEN FirstFullest(side, gaps)
              ELSE Fullest(side, die, (die + 1)..top)
  BY DEF PointToPlay, SumFrom
<1>2. \A p \in 1..6 : side[p] \in Nat BY DEF Men6
<1>3. die \in 1..6 /\ i \in Nat OBVIOUS
<1>4. top \in 1..6 /\ side[top] >= 1 BY <1>2, HighestIs
<1>5. CASE side[die] > 0 BY <1>1, <1>2, <1>3, <1>5
<1>6. CASE ~(side[die] > 0) /\ die > top BY <1>1, <1>4, <1>6
<1>7. CASE ~(side[die] > 0) /\ ~(die > top) /\ later # {}
  <2>1. \A j \in later : j \in Nat /\ j \in i..Len(dice) BY <1>3
  <2>2. latest \in later
    <3> DEFINE id == [j \in later |-> j]
    <3>1. PICK j \in later : \A k \in later : id[j] <= id[k]
      <4>1. \A k \in later : id[k] \in Nat BY <2>1
      <4> HIDE DEF later, id
      <4> QED BY <1>7, <4>1, LeastBy
    <3>2. \A k \in later : j <= k BY <3>1
    <3> HIDE DEF later, id
    <3> QED BY <3>2
  <2>3. latest \in i..Len(dice) /\ sum[latest] <= 6 /\ side[sum[latest]] > 0
    <3> HIDE DEF latest, sum
    <3> QED BY <2>1, <2>2
  <2>4. sum[latest] \in Nat /\ sum[latest] >= 1
    <3> HIDE DEF latest
    <3> QED BY <2>3, SumIs
  <2>5. point = sum[latest]
    <3> HIDE DEF point, sum, gaps, later
    <3> QED BY <1>1, <1>7
  <2> HIDE DEF sum, latest, point
  <2>6. sum[latest] \in 1..6 BY <2>3, <2>4
  <2>7. side[sum[latest]] \in Nat BY <1>2, <2>6
  <2> QED BY <2>3, <2>5, <2>6, <2>7 DEF point
<1>8. CASE ~(side[die] > 0) /\ ~(die > top) /\ later = {} /\ gaps # {}
  <2>1. gaps \in SUBSET (1..6) BY <1>3, <1>4
  <2>2. point = FirstFullest(side, gaps)
    <3> HIDE DEF point, gaps, later
    <3> QED BY <1>1, <1>8
  <2>3. \A p \in gaps : p \in 1..6 /\ side[p] >= 2 BY <2>1
  <2>4. point \in gaps
    <3> HIDE DEF point, gaps
    <3> QED BY <1>8, <2>1, <2>2, FirstFullestIs
  <2> HIDE DEF point, gaps
  <2>5. point \in 1..6 /\ side[point] >= 2 BY <2>3, <2>4
  <2> QED BY <1>2, <2>5 DEF point
<1>9. CASE ~(side[die] > 0) /\ ~(die > top) /\ later = {} /\ gaps = {}
  <2>1. point = Fullest(side, die, (die + 1)..top)
    <3> HIDE DEF point, gaps, later
    <3> QED BY <1>1, <1>9
  <2>2. (die + 1)..top \in SUBSET ((die + 1)..6) BY <1>3, <1>4
  <2>3. top # die
    <3>1. top = die => side[die] >= 1 BY <1>4
    <3>2. side[die] \in Nat BY <1>2, <1>3
    <3> QED BY <1>9, <3>1, <3>2
  <2>4. top \in (die + 1)..top BY <1>3, <1>4, <1>9, <2>3
  <2> HIDE DEF point, die, top
  <2>5. point \in (die + 1)..top /\ side[top] <= side[point]
    <3>1. (die + 1)..top # {} BY <2>4
    <3> QED BY <1>3, <2>1, <2>2, <2>4, <3>1, FullestIs
  <2>6. point \in 1..6 BY <1>3, <1>4, <2>5
  <2>7. side[point] \in Nat /\ side[top] \in Nat BY <1>2, <1>4, <2>6
  <2> QED BY <1>4, <2>5, <2>6, <2>7 DEF point, top
<1> HIDE DEF point, later, gaps
<1> QED BY <1>5, <1>6, <1>7, <1>8, <1>9

(* One man is played, if there is one.                                       *)
PlayOf(side, dice, i) ==
  LET p == PointToPlay(side, dice, i)
      lifted == [side EXCEPT ![p] = @ - 1]
  IN  IF side[Highest(side)] = 0 THEN side
      ELSE IF p > dice[i] THEN [lifted EXCEPT ![p - dice[i]] = @ + 1] ELSE lifted
FromZero(side) == [k \in 0..5 |-> side[k + 1]]

LEMMA PlayDown ==
  ASSUME NEW side \in Men6, NEW dice, Len(dice) \in Nat,
         NEW i \in 1..Len(dice), \A k \in 1..Len(dice) : dice[k] \in 1..6
  PROVE  /\ PlayOf(side, dice, i) \in Men6
         /\ IF side[Highest(side)] = 0 THEN PlayOf(side, dice, i) = side
            ELSE ComesLower(FromZero(PlayOf(side, dice, i)), FromZero(side), 6)
<1>1. CASE side[Highest(side)] = 0 BY <1>1 DEF PlayOf
<1>2. CASE side[Highest(side)] # 0
  <2> DEFINE p == PointToPlay(side, dice, i)
             die == dice[i]
             lifted == [side EXCEPT ![p] = side[p] - 1]
             moved == [lifted EXCEPT ![p - die] = lifted[p - die] + 1]
             new == PlayOf(side, dice, i)
  <2>1. p \in 1..6 /\ side[p] >= 1 /\ die \in 1..6 BY <1>2, PointPlayed
  <2>2. new = IF p > die THEN moved ELSE lifted BY <1>2 DEF PlayOf
  <2> HIDE DEF p, die, new
  <2>3. \A k \in 1..6 : side[k] \in Nat BY DEF Men6
  <2>4. lifted \in Men6 /\ lifted[p] = side[p] - 1 /\ \A k \in 1..6 : k # p => lifted[k] = side[k]
    <3>1. side[p] - 1 \in Nat BY <2>1, <2>3
    <3> QED BY <2>1, <3>1 DEF Men6
  <2>5. ASSUME p > die
        PROVE  /\ moved \in Men6 /\ moved[p] = side[p] - 1 /\ moved[p - die] = side[p - die] + 1
               /\ \A k \in 1..6 : k # p /\ k # p - die => moved[k] = side[k]
    <3>1. p - die \in 1..6 /\ p - die # p BY <2>1, <2>5
    <3> HIDE DEF lifted
    <3>2. lifted[p - die] = side[p - die] /\ side[p - die] + 1 \in Nat BY <2>3, <2>4, <3>1
    <3>3. lifted[p - die] + 1 \in Nat BY <3>2
    <3>4. moved \in Men6 BY <2>4, <3>1, <3>3 DEF Men6
    <3> QED BY <2>1, <2>4, <3>1, <3>2, <3>4 DEF Men6
  <2> HIDE DEF lifted, moved
  <2>6. /\ new \in Men6 /\ new[p] = side[p] - 1
        /\ \A k \in 1..6 : k # p => new[k] <= side[k] + (IF k = p - die THEN 1 ELSE 0)
        /\ \A k \in 1..6 : k # p /\ k # p - die => new[k] = side[k]
    <3>1. CASE p > die
      <4>1. /\ new \in Men6 /\ new[p] = side[p] - 1 /\ new[p - die] = side[p - die] + 1
            /\ \A k \in 1..6 : k # p /\ k # p - die => new[k] = side[k]
        BY <2>2, <2>5, <3>1
      <4>2. \A k \in 1..6 : k # p => new[k] <= side[k] + (IF k = p - die THEN 1 ELSE 0)
        <5> SUFFICES ASSUME NEW k \in 1..6, k # p PROVE new[k] <= side[k] + (IF k = p - die THEN 1 ELSE 0)
          OBVIOUS
        <5>1. side[k] \in Nat BY <2>3
        <5>2. CASE k = p - die BY <4>1, <5>1, <5>2
        <5>3. CASE k # p - die BY <4>1, <5>1, <5>3
        <5> QED BY <5>2, <5>3
      <4> QED BY <4>1, <4>2
    <3>2. CASE ~(p > die)
      <4>1. new \in Men6 /\ new[p] = side[p] - 1 /\ \A k \in 1..6 : k # p => new[k] = side[k]
        BY <2>2, <2>4, <3>2
      <4>2. \A k \in 1..6 : k # p => new[k] <= side[k] + (IF k = p - die THEN 1 ELSE 0)
        <5> SUFFICES ASSUME NEW k \in 1..6, k # p PROVE new[k] <= side[k] + (IF k = p - die THEN 1 ELSE 0)
          OBVIOUS
        <5>1. side[k] \in Nat /\ new[k] = side[k] BY <2>3, <4>1
        <5> QED BY <5>1
      <4> QED BY <4>1, <4>2
    <3> QED BY <3>1, <3>2
  <2> DEFINE s == FromZero(side)
             t == FromZero(new)
             from == p - 1
             to == p - 1 - die
  <2>7. \A k \in 0..5 : k + 1 \in 1..6 /\ s[k] = side[k + 1] /\ t[k] = new[k + 1] BY DEF FromZero
  <2>8. from \in 0..5 /\ from + 1 = p /\ to \in Int /\ to < from /\ to + 1 = p - die BY <2>1
  <2>9. \A k \in 0..5 : s[k] \in Nat /\ t[k] \in Nat
    <3>1. \A k \in 1..6 : new[k] \in Nat BY <2>6 DEF Men6
    <3> HIDE DEF s, t
    <3> QED BY <2>3, <2>7, <3>1
  <2> HIDE DEF s, t, from, to
  <2>10. t[from] = s[from] - 1 BY <2>6, <2>7, <2>8
  <2>11. \A k \in 0..5 : k # from => t[k] <= s[k] + (IF k = to THEN 1 ELSE 0)
    <3> SUFFICES ASSUME NEW k \in 0..5, k # from PROVE t[k] <= s[k] + (IF k = to THEN 1 ELSE 0) OBVIOUS
    <3>1. k + 1 \in 1..6 /\ k + 1 # p /\ (k = to <=> k + 1 = p - die) BY <2>7, <2>8
    <3> QED BY <2>6, <2>7, <3>1
  <2>12. \A k \in 0..5 : k > to /\ k # from => t[k] = s[k]
    <3> SUFFICES ASSUME NEW k \in 0..5, k # from, k > to PROVE t[k] = s[k] OBVIOUS
    <3>1. k + 1 \in 1..6 /\ k + 1 # p /\ k + 1 # p - die BY <2>7, <2>8
    <3> QED BY <2>6, <2>7, <3>1
  <2>13. 6 - 1 = 5 OBVIOUS
  <2>14. Moves1(t, s, 6, from, to) BY <2>8, <2>10, <2>11, <2>13 DEF Moves1
  <2>15. ComesLower(t, s, 6) BY <2>9, <2>12, <2>13, <2>14, MoveLowers
  <2> QED BY <1>2, <2>6, <2>15 DEF s, t, new
<1> QED BY <1>1, <1>2

(* All the dice are played.                                                  *)
LEMMA DiceOf ==
  ASSUME NEW r \in Thrown
  PROVE  Len(Dice(r)) \in Nat /\ Len(Dice(r)) >= 1 /\ \A k \in 1..Len(Dice(r)) : Dice(r)[k] \in 1..6
<1>1. PICK a \in 1..6, b \in 1..6 : r = <<a, b>> BY DEF Thrown
<1>2. r[1] = a /\ r[2] = b BY <1>1
<1>3. CASE a = b
  <2>1. Dice(r) = <<a, a, a, a>> BY <1>2, <1>3 DEF Dice
  <2>2. Len(<<a, a, a, a>>) = 4 OBVIOUS
  <2>3. \A k \in 1..4 : <<a, a, a, a>>[k] \in 1..6 OBVIOUS
  <2> QED BY <2>1, <2>2, <2>3
<1>4. CASE a # b
  <2>1. Dice(r) = <<a, b>> BY <1>1, <1>2, <1>4 DEF Dice
  <2>2. Len(<<a, b>>) = 2 OBVIOUS
  <2>3. \A k \in 1..2 : <<a, b>>[k] \in 1..6 OBVIOUS
  <2> QED BY <2>1, <2>2, <2>3
<1> QED BY <1>3, <1>4

LEMMA HeuristicDown ==
  ASSUME NEW side \in Men6, side[Highest(side)] # 0, NEW r \in Thrown
  PROVE  HeuristicBearoff(side, r) \in Men6 /\ ComesLower(FromZero(HeuristicBearoff(side, r)), FromZero(side), 6)
<1> DEFINE dice == Dice(r)
           L == Len(dice)
           Def(f) == f = [i \in 0..L |-> IF i = 0 THEN side ELSE PlayOf(f[i - 1], dice, i)]
           played == CHOOSE f : Def(f)
           F == [n \in Nat |-> [b \in Men6 |-> IF n \in 1..L THEN PlayOf(b, dice, n) ELSE b]]
<1>1. HeuristicBearoff(side, r) = played[L] BY DEF HeuristicBearoff, PlayOf
<1>2. L \in Nat /\ L >= 1 /\ \A k \in 1..L : dice[k] \in 1..6 BY DiceOf
<1> HIDE DEF dice
<1>3. \A n \in Nat, b \in Men6 : n \in 1..L => PlayOf(b, dice, n) \in Men6 BY <1>2, PlayDown
<1>4. F \in [Nat -> [Men6 -> Men6]]
  <2> HIDE DEF L
  <2>1. ASSUME NEW n \in Nat
        PROVE  [b \in Men6 |-> IF n \in 1..L THEN PlayOf(b, dice, n) ELSE b] \in [Men6 -> Men6]
    BY <1>3
  <2> QED BY <2>1
<1>5. PICK g \in [Nat -> Men6] : RowsOf(g, side, F)
  <2> HIDE DEF F
  <2> QED BY <1>4, Rows
<1>6. g[0] = side /\ \A n \in Nat : g[n + 1] = F[n + 1][g[n]] BY <1>5 DEF RowsOf
<1> DEFINE f == [i \in 0..L |-> g[i]]
<1>7. Def(f)
  <2> DEFINE R(i) == IF i = 0 THEN side ELSE PlayOf(f[i - 1], dice, i)
  <2>1. ASSUME NEW i \in 0..L PROVE g[i] = R(i)
    <3>1. CASE i = 0 BY <1>6, <3>1
    <3>2. CASE i # 0
      <4>1. i - 1 \in Nat /\ (i - 1) + 1 = i /\ i \in 1..L /\ i \in Nat /\ i - 1 \in 0..L BY <1>2, <3>2
      <4>2. g[i] = F[i][g[i - 1]]
        <5> HIDE DEF F
        <5> QED BY <1>6, <4>1
      <4>3. g[i - 1] \in Men6 BY <4>1
      <4>4. F[i][g[i - 1]] = PlayOf(g[i - 1], dice, i) BY <4>1, <4>3
      <4>5. f[i - 1] = g[i - 1] BY <4>1
      <4> HIDE DEF F, f
      <4> QED BY <3>2, <4>2, <4>4, <4>5
    <3> QED BY <3>1, <3>2
  <2>2. \A i \in 0..L : g[i] = R(i) BY <2>1
  <2> HIDE DEF R, F
  <2>3. f = [i \in 0..L |-> R(i)] BY <2>2
  <2> HIDE DEF f
  <2> QED BY <2>3 DEF R
<1> HIDE DEF f, F
<1>8. Def(played) BY <1>7
<1> HIDE DEF played
<1>9. \A i \in 0..L : played[i] = IF i = 0 THEN side ELSE PlayOf(played[i - 1], dice, i) BY <1>8
<1> HIDE DEF Def
<1> DEFINE Right(x) == x \in Men6 /\ ComesLower(FromZero(x), FromZero(side), 6)
<1>10. \A b \in Men6 : \A k \in 0..5 : FromZero(b)[k] \in Nat
  <2> TAKE b \in Men6
  <2> TAKE k \in 0..5
  <2>1. k + 1 \in 1..6 OBVIOUS
  <2> QED BY <2>1 DEF FromZero, Men6
<1>11. Right(played[1])
  <2>1. 1 \in 0..L /\ 0 \in 0..L /\ 1 \in 1..L /\ 1 - 1 = 0 BY <1>2
  <2>2. played[0] = side BY <1>9, <2>1
  <2>3. played[1] = PlayOf(played[0], dice, 1)
    <3> HIDE DEF L
    <3> QED BY <1>9, <2>1
  <2> QED BY <1>2, <2>1, <2>2, <2>3, PlayDown
<1>12. ASSUME NEW i \in 2..L, Right(played[i - 1]) PROVE Right(played[i])
  <2>1. i \in 0..L /\ i # 0 /\ i \in 1..L BY <1>2
  <2>2. played[i] = PlayOf(played[i - 1], dice, i) BY <1>9, <2>1
  <2>3. PICK b \in Men6 : b = played[i - 1] /\ ComesLower(FromZero(b), FromZero(side), 6) BY <1>12
  <2>4. CASE b[Highest(b)] = 0
    <3>1. PlayOf(b, dice, i) = b BY <1>2, <2>1, <2>4, PlayDown
    <3> QED BY <2>2, <2>3, <3>1
  <2>5. CASE b[Highest(b)] # 0
    <3>1. PICK x : x = PlayOf(b, dice, i) OBVIOUS
    <3>2. x \in Men6 /\ ComesLower(FromZero(x), FromZero(b), 6) BY <1>2, <2>1, <2>5, <3>1, PlayDown
    <3>3. 6 \in Nat /\ 6 - 1 = 5 OBVIOUS
    <3>4. \A k \in 0..(6 - 1) : FromZero(x)[k] \in Nat /\ FromZero(b)[k] \in Nat /\ FromZero(side)[k] \in Nat
      BY <1>10, <3>2, <3>3
    <3>5. ComesLower(FromZero(x), FromZero(side), 6) BY <2>3, <3>2, <3>3, <3>4, LowerAgain
    <3> QED BY <2>2, <2>3, <3>1, <3>2, <3>5
  <2> QED BY <2>4, <2>5
<1>13. \A i \in 1..L : Right(played[i])
  <2> DEFINE Bad == {i \in Nat : i \in 1..L /\ ~Right(played[i])}
  <2> HIDE DEF Right
  <2>1. ASSUME Bad = {}, NEW i \in 1..L PROVE Right(played[i])
    <3>1. i \in Nat /\ i \notin Bad BY <2>1
    <3> QED BY <3>1
  <2>2. SUFFICES ASSUME Bad # {} PROVE FALSE
    <3> HIDE DEF Bad
    <3> QED BY <2>1
  <2>3. PICK i \in Bad : \A k \in Bad : i <= k
    <3> HIDE DEF Bad
    <3>1. Bad \in SUBSET Nat BY DEF Bad
    <3> QED BY <2>2, <3>1, LeastNumber
  <2>4. i \in 1..L /\ ~Right(played[i]) OBVIOUS
  <2>5. i # 1 BY <1>11, <2>4
  <2>6. i \in 2..L /\ i - 1 \in 1..L /\ i - 1 \in Nat /\ ~(i <= i - 1) BY <1>2, <2>4, <2>5
  <2>7. i - 1 \notin Bad
    <3> HIDE DEF Bad
    <3> QED BY <2>3, <2>6
  <2>8. Right(played[i - 1]) BY <2>6, <2>7
  <2> QED BY <1>12, <2>4, <2>6, <2>8
<1>14. L \in 1..L BY <1>2
<1>15. Right(played[L])
  <2> HIDE DEF Right, L
  <2> QED BY <1>13, <1>14
<1> QED BY <1>1, <1>15

(* A side with fewer men comes lower; so the one without men has number 0.   *)
LEMMA FewerLowers ==
  ASSUME NEW p \in Nat, NEW s, NEW t,
         \A i \in 0..(p - 1) : s[i] \in Nat /\ t[i] \in Nat /\ t[i] <= s[i],
         NEW k \in 0..(p - 1), t[k] < s[k]
  PROVE  ComesLower(t, s, p)
<1>0. (\A i \in 0..(p - 1) : s[i] \in Nat) /\ (\A i \in 0..(p - 1) : t[i] \in Nat) OBVIOUS
<1>1. PICK h : h = Closes(s, p) OBVIOUS
<1>2. PICK g : g = Closes(t, p) OBVIOUS
<1>3. /\ h[p] = 0 /\ \A i \in 0..p : h[i] \in Nat
      /\ \A i \in 0..(p - 1) : h[i] = h[i + 1] + s[i] + 1
  BY <1>0, <1>1, ClosesIs
<1>4. /\ g[p] = 0 /\ \A i \in 0..p : g[i] \in Nat
      /\ \A i \in 0..(p - 1) : g[i] = g[i + 1] + t[i] + 1
  BY <1>0, <1>2, ClosesIs
<1>5. \A i \in 0..p : g[i] <= h[i]
  <2> DEFINE Bad == {n \in Nat : n <= p /\ ~(g[p - n] <= h[p - n])}
  <2>1. ASSUME Bad = {}, NEW i \in 0..p PROVE g[i] <= h[i]
    <3>1. p - i \in Nat /\ p - i <= p /\ p - (p - i) = i OBVIOUS
    <3>2. p - i \notin Bad BY <2>1
    <3> QED BY <3>1, <3>2
  <2>2. SUFFICES ASSUME Bad # {} PROVE FALSE BY <2>1
  <2>3. PICK n \in Bad : \A m \in Bad : n <= m
    <3> HIDE DEF Bad
    <3>1. Bad \in SUBSET Nat BY DEF Bad
    <3> QED BY <2>2, <3>1, LeastNumber
  <2>4. n \in Nat /\ n <= p /\ ~(g[p - n] <= h[p - n]) OBVIOUS
  <2>5. n # 0
    <3>1. n = 0 => p - n = p OBVIOUS
    <3> HIDE DEF Bad
    <3> QED BY <1>3, <1>4, <2>4, <3>1
  <2>6. n - 1 \in Nat /\ n - 1 <= p /\ n - 1 \notin Bad
    <3> HIDE DEF Bad
    <3> QED BY <2>3, <2>4, <2>5
  <2>7. g[p - (n - 1)] <= h[p - (n - 1)] BY <2>6
  <2>8. PICK i \in 0..(p - 1) : i = p - n BY <2>4, <2>5
  <2>9. p - (n - 1) = i + 1 /\ i + 1 \in 0..p /\ i \in 0..p BY <2>4, <2>8
  <2>10. ~(g[i] <= h[i]) /\ g[i + 1] <= h[i + 1] BY <2>4, <2>7, <2>8, <2>9
  <2> HIDE DEF Bad
  <2>11. h[i] = h[i + 1] + s[i] + 1 /\ g[i] = g[i + 1] + t[i] + 1 BY <1>3, <1>4
  <2>12. h[i + 1] \in Nat /\ g[i + 1] \in Nat /\ s[i] \in Nat /\ t[i] \in Nat /\ t[i] <= s[i] BY <1>3, <1>4, <2>9
  <2> QED BY <2>10, <2>11, <2>12
<1>6. g[k] < h[k]
  <2>1. k + 1 \in 0..p OBVIOUS
  <2>2. g[k + 1] <= h[k + 1] BY <1>5, <2>1
  <2>3. h[k] = h[k + 1] + s[k] + 1 /\ g[k] = g[k + 1] + t[k] + 1 BY <1>3, <1>4
  <2>4. h[k + 1] \in Nat /\ g[k + 1] \in Nat /\ s[k] \in Nat /\ t[k] \in Nat BY <1>3, <1>4, <2>1
  <2> QED BY <2>2, <2>3, <2>4
<1> QED BY <1>1, <1>2, <1>5, <1>6 DEF ComesLower

LEMMA NoMenFirst ==
  ASSUME NEW p \in Nat \ {0}, NEW c \in Nat \ {0}, p + c <= MAX_N,
         NEW side, \A j \in 0..(p - 1) : side[j] = 0
  PROVE  PositionBearoff(side, p, c) = 0
<1>1. Combination(p + c, p) >= 2 /\ Combination(p + c, p) \in Nat BY Combinations
<1>2. PICK s : s = PositionFromBearoff(0, p, c) OBVIOUS
<1>3. /\ \A j \in 0..(p - 1) : s[j] \in Nat
      /\ Closes(s, p)[0] <= p + c
      /\ PositionBearoff(s, p, c) = 0
  <2>1. 0 \in Nat /\ 0 < Combination(p + c, p) BY <1>1
  <2>2. \A j \in 0..(p - 1) : s[j] = PositionFromBearoff(0, p, c)[j] BY <1>2
  <2>3. \A j \in 0..(p - 1) : s[j] \in Nat BY <2>1, <2>2, SideOf
  <2>4. Closes(s, p)[0] <= p + c /\ PositionBearoff(s, p, c) = 0 BY <2>1, <2>2, SideOf
  <2> QED BY <2>3, <2>4
<1>4. CASE \A j \in 0..(p - 1) : s[j] = 0
  <2>1. \A j \in 0..(p - 1) : side[j] = s[j] BY <1>4
  <2>2. GapBits(side, p) = GapBits(s, p) BY <1>3, <2>1, SameRow
  <2> QED BY <1>3, <2>2 DEF PositionBearoff
<1>5. CASE \E j \in 0..(p - 1) : s[j] # 0
  <2>1. PICK k \in 0..(p - 1) : s[k] # 0 BY <1>5
  <2>2. \A j \in 0..(p - 1) : s[j] \in Nat /\ side[j] \in Nat /\ side[j] <= s[j] BY <1>3
  <2>3. side[k] < s[k] BY <2>1, <2>2
  <2>4. ComesLower(side, s, p) BY <2>2, <2>3, FewerLowers
  <2>5. PositionBearoff(side, p, c) \in Nat /\ PositionBearoff(side, p, c) < PositionBearoff(s, p, c)
    <3>1. c \in Nat /\ \A j \in 0..(p - 1) : side[j] \in Nat BY <2>2
    <3> QED BY <1>3, <2>4, <3>1, LowerNumber
  <2> QED BY <1>3, <2>5
<1> QED BY <1>4, <1>5

(* The heuristic move leads to a smaller number.                             *)
LEMMA HeuristicNumber ==
  ASSUME NEW c \in Nat \ {0}, 6 + c <= MAX_N, NEW us \in Nat \ {0}, us < Combination(6 + c, 6),
         NEW r \in Thrown
  PROVE  HeuristicMove(c, us, r) \subseteq 0..(us - 1)
<1> DEFINE side == PositionFromBearoff(us, 6, c)
           tuple == <<side[0], side[1], side[2], side[3], side[4], side[5]>>
           after == HeuristicBearoff(tuple, r)
           back == [k \in 0..5 |-> after[k + 1]]
<1>1. HeuristicMove(c, us, r) = {PositionBearoff(back, 6, c)} BY DEF HeuristicMove
<1>2. 6 \in Nat \ {0} /\ 6 \in Nat /\ 6 - 1 = 5 /\ c \in Nat /\ us \in Nat OBVIOUS
<1>3. /\ \A j \in 0..5 : side[j] \in Nat
      /\ Closes(side, 6)[0] <= 6 + c
      /\ PositionBearoff(side, 6, c) = us
  <2> HIDE DEF side
  <2>1. PICK p \in Nat \ {0} : p = 6 BY <1>2
  <2>2. c \in Nat \ {0} /\ p + c <= MAX_N /\ us \in Nat /\ us < Combination(p + c, p) BY <1>2, <2>1
  <2>3. \A j \in 0..(p - 1) : side[j] = PositionFromBearoff(us, p, c)[j] BY <2>1 DEF side
  <2>4. \A j \in 0..(p - 1) : side[j] \in Nat BY <2>2, <2>3, SideOf
  <2>5. Closes(side, p)[0] <= p + c /\ PositionBearoff(side, p, c) = us BY <2>2, <2>3, SideOf
  <2> QED BY <1>2, <2>1, <2>4, <2>5
<1> HIDE DEF side
<1>4. tuple \in Men6 /\ \A k \in 0..5 : tuple[k + 1] = side[k]
  <2>1. \A k \in 1..6 : tuple[k] = side[k - 1]
    <3> TAKE k \in 1..6
    <3>1. k = 1 \/ k = 2 \/ k = 3 \/ k = 4 \/ k = 5 \/ k = 6 OBVIOUS
    <3> QED BY <3>1
  <2>2. DOMAIN tuple = 1..6 OBVIOUS
  <2>3. tuple = [k \in 1..6 |-> tuple[k]] OBVIOUS
  <2> HIDE DEF tuple
  <2>4. \A k \in 1..6 : k - 1 \in 0..5 OBVIOUS
  <2>5. \A k \in 1..6 : tuple[k] \in Nat BY <1>3, <2>1, <2>4
  <2>6. \A k \in 0..5 : k + 1 \in 1..6 /\ (k + 1) - 1 = k OBVIOUS
  <2>7. \A k \in 0..5 : tuple[k + 1] = side[k] BY <2>1, <2>6
  <2> QED BY <2>3, <2>5, <2>7 DEF Men6
<1> HIDE DEF tuple
<1>5. \A k \in 0..5 : FromZero(tuple)[k] = side[k] BY <1>4 DEF FromZero
<1>6. tuple[Highest(tuple)] # 0
  <2> SUFFICES ASSUME tuple[Highest(tuple)] = 0 PROVE FALSE OBVIOUS
  <2>1. \A k \in 1..6 : tuple[k] = 0 BY <1>4, HighestIs
  <2>2. \A k \in 0..5 : k + 1 \in 1..6 OBVIOUS
  <2>3. \A k \in 0..(6 - 1) : side[k] = 0 BY <1>2, <1>4, <2>1, <2>2
  <2>4. PositionBearoff(side, 6, c) = 0 BY <1>2, <2>3, NoMenFirst
  <2> QED BY <1>3, <2>4
<1>7. after \in Men6 /\ ComesLower(FromZero(after), FromZero(tuple), 6) BY <1>4, <1>6, HeuristicDown
<1>8. back = FromZero(after) BY DEF FromZero
<1> HIDE DEF after, back
<1>9. \A k \in 0..(6 - 1) : back[k] \in Nat
  <2> TAKE k \in 0..(6 - 1)
  <2>1. k + 1 \in 1..6 /\ k \in 0..5 BY <1>2
  <2> QED BY <1>7, <1>8, <2>1 DEF FromZero, Men6
<1>10. PICK s : s = FromZero(tuple) OBVIOUS
<1>11. \A k \in 0..(6 - 1) : s[k] \in Nat /\ s[k] = side[k] BY <1>2, <1>3, <1>5, <1>10
<1>12. Closes(s, 6)[0] <= 6 + c /\ PositionBearoff(s, 6, c) = us
  <2>1. PICK p \in Nat \ {0} : p = 6 BY <1>2
  <2>2. c \in Nat \ {0} /\ p + c <= MAX_N /\ us \in Nat /\ us < Combination(p + c, p) BY <1>2, <2>1
  <2>3. \A k \in 0..(p - 1) : s[k] = PositionFromBearoff(us, p, c)[k] BY <1>2, <1>11, <2>1 DEF side
  <2>4. Closes(s, p)[0] <= p + c /\ PositionBearoff(s, p, c) = us BY <2>2, <2>3, SideOf
  <2> QED BY <2>1, <2>4
<1>13. PositionBearoff(back, 6, c) \in Nat /\ PositionBearoff(back, 6, c) < PositionBearoff(s, 6, c)
  <2>1. ComesLower(back, s, 6) BY <1>7, <1>8, <1>10
  <2>2. \A k \in 0..(6 - 1) : s[k] \in Nat BY <1>11
  <2> QED BY <1>2, <1>9, <1>12, <2>1, <2>2, LowerNumber
<1> QED BY <1>1, <1>12, <1>13

LEMMA HeuristicOf ==
  ASSUME NEW c \in Nat \ {0}, 6 + c <= MAX_N, NEW us \in 1..(Combination(6 + c, 6) - 1), NEW r \in Thrown,
         NEW m \in Heuristic, m.nChequers = c
  PROVE  m.to[us][Ordinal(r)] \subseteq 0..(us - 1)
<1>1. PICK d \in {j.nChequers : j \in {k \in Jobs : k.kind = "heuristic"}} :
        m = [nChequers |-> d,
             to |-> LET ids == Combination(6 + d, 6) - 1
                    IN  SubSeq([u \in 1..ids |->
                          SubSeq([k \in 1..21 |-> HeuristicMove(d, u, Nth(k))], 1, 21)], 1, ids)]
  BY DEF Heuristic
<1> DEFINE ids == Combination(6 + c, 6) - 1
           row(u) == [k \in 1..21 |-> HeuristicMove(c, u, Nth(k))]
           all == [u \in 1..ids |-> SubSeq(row(u), 1, 21)]
<1>2. d = c BY <1>1
<1>3. m.to = SubSeq(all, 1, ids) BY <1>1, <1>2
<1>4. Combination(6 + c, 6) \in Nat /\ Combination(6 + c, 6) >= 2
  <2>1. 6 \in Nat \ {0} OBVIOUS
  <2> QED BY <2>1, Combinations
<1>5. ids \in Nat /\ us \in 1..ids /\ 21 \in Nat BY <1>4
<1>6. m.to[us] = SubSeq(row(us), 1, 21)
  <2>1. all = [k \in 1..ids |-> all[k]] OBVIOUS
  <2>2. all[us] = SubSeq(row(us), 1, 21) BY <1>5
  <2> HIDE DEF all, ids, row
  <2>3. SubSeq(all, 1, ids)[us] = all[us] BY <1>5, <2>1, TupleOf
  <2> QED BY <1>3, <2>2, <2>3
<1>7. SubSeq(row(us), 1, 21)[Ordinal(r)] = HeuristicMove(c, us, r)
  <2>1. row(us) = [k \in 1..21 |-> row(us)[k]] OBVIOUS
  <2>2. Ordinal(r) \in 1..21 /\ Nth(Ordinal(r)) = r BY OrdinalIs, NthIs
  <2>3. row(us)[Ordinal(r)] = HeuristicMove(c, us, r) BY <2>2
  <2> HIDE DEF row
  <2> QED BY <1>5, <2>1, <2>2, <2>3, TupleOf
<1>8. us \in Nat \ {0} /\ us < Combination(6 + c, 6) BY <1>4
<1>9. HeuristicMove(c, us, r) \subseteq 0..(us - 1) BY <1>8, HeuristicNumber
<1> HIDE DEF row
<1> QED BY <1>6, <1>7, <1>9

(* What BearOff, BearOff2 and GenerateBearoff look at for a throw.           *)
LEMMA ComparedDown ==
  ASSUME MakingInv, phase = "making", ~Over, NEW r \in Thrown
  PROVE  Compared(r) \subseteq 0..(Us - 1)
<1> DEFINE p == job.nPoints
           c == job.nChequers
<1>1. job \in Jobs /\ Us \in Position /\ Them \in Position BY Inside DEF MakingInv, ProgressInv
<1>2. /\ p \in Nat \ {0} /\ c \in Nat \ {0} /\ p <= Bar /\ c <= AllMen /\ p + c <= MAX_N
      /\ job.kind = "heuristic" => p = 6
  BY <1>1, JobsAssumption
<1>3. nPos = Combination(p + c, p) /\ nPos \in Nat /\ nPos >= 2 BY <1>1, JobFacts DEF nPos
<1>4. Us # 0 /\ (Two(job) => Them # 0) BY DEF Over
<1> HIDE DEF p, c
<1>5. Us \in 1..(Combination(p + c, p) - 1) /\ (Two(job) => Them \in 1..(Combination(p + c, p) - 1))
  <2>1. \A k \in Position : k # 0 => k \in 1..(nPos - 1) BY <1>3 DEF Position
  <2> HIDE DEF nPos, Us, Them
  <2> QED BY <1>1, <1>3, <1>4, <2>1
<1>6. CASE job.kind = "heuristic"
  <2> DEFINE ThisOne(m) == m.nChequers = job.nChequers
             moves == CHOOSE m \in Heuristic : ThisOne(m)
  <2>1. \E m \in Heuristic : ThisOne(m)
    <3> DEFINE To(d) == LET ids == Combination(6 + d, 6) - 1
                        IN  SubSeq([u \in 1..ids |->
                              SubSeq([k \in 1..21 |-> HeuristicMove(d, u, Nth(k))], 1, 21)], 1, ids)
               Of(d) == [nChequers |-> d, to |-> To(d)]
    <3>1. job.nChequers \in {j.nChequers : j \in {k \in Jobs : k.kind = "heuristic"}} BY <1>1, <1>6
    <3>2. Heuristic = {Of(d) : d \in {j.nChequers : j \in {k \in Jobs : k.kind = "heuristic"}}}
      BY DEF Heuristic
    <3>3. Of(job.nChequers).nChequers = job.nChequers
      <4> HIDE DEF To
      <4> QED OBVIOUS
    <3> HIDE DEF Of
    <3>4. Of(job.nChequers) \in Heuristic BY <3>1, <3>2
    <3> QED BY <3>3, <3>4
  <2>2. moves \in Heuristic /\ ThisOne(moves)
    <3> HIDE DEF ThisOne
    <3> QED BY <2>1
  <2>3. Compared(r) = moves.to[Us][Ordinal(r)] BY <1>6 DEF Compared
  <2> HIDE DEF moves, Us
  <2>4. p = 6 /\ 6 + c <= MAX_N /\ Us \in 1..(Combination(6 + c, 6) - 1) BY <1>2, <1>5, <1>6
  <2>5. moves.nChequers = c BY <2>2 DEF c
  <2>6. moves.to[Us][Ordinal(r)] \subseteq 0..(Us - 1) BY <1>2, <2>2, <2>4, <2>5, HeuristicOf
  <2> QED BY <2>3, <2>6
<1>7. CASE job.kind # "heuristic"
  <2> DEFINE size == Size(job)
             ThisOne(m) == m.size = size
             moves == CHOOSE m \in Moved : ThisOne(m)
             them == IF Two(job) THEN Them ELSE 1
  <2>1. size[1] = p /\ size[2] = c /\ size[3] = Two(job) /\ size[3] \in BOOLEAN BY DEF Size, Two, p, c
  <2>2. [size |-> size, to |-> AllMoves(size)] \in Moved BY <1>1 DEF Moved
  <2>3. \E m \in Moved : ThisOne(m)
    <3>1. [size |-> size, to |-> AllMoves(size)].size = size OBVIOUS
    <3> QED BY <2>2, <3>1
  <2>4. moves \in Moved /\ ThisOne(moves)
    <3> HIDE DEF ThisOne
    <3> QED BY <2>3
  <2>5. \A m \in Moved : m.to = AllMoves(m.size) BY DEF Moved
  <2>6. moves.to = AllMoves(size)
    <3>1. moves.size = size BY <2>4
    <3> HIDE DEF moves, size
    <3> QED BY <2>4, <2>5, <3>1
  <2>7. Compared(r) = moves.to[Us][them][Ordinal(r)] BY <1>7 DEF Compared, Legal
  <2> HIDE DEF moves, size, Us, Them
  <2>8. size[1] \in 1..Bar /\ size[2] \in 1..AllMen /\ size[1] + size[2] <= MAX_N BY <1>2, <2>1 DEF Bar, AllMen
  <2>9. Us \in 1..(Combination(size[1] + size[2], size[1]) - 1) BY <1>5, <2>1
  <2>10. IF size[3] THEN them \in 1..(Combination(size[1] + size[2], size[1]) - 1) ELSE them = 1 BY <1>5, <2>1
  <2> HIDE DEF them
  <2>11. AllMoves(size)[Us][them][Ordinal(r)] \subseteq 0..(Us - 1) BY <2>1, <2>8, <2>9, <2>10, MovesOf
  <2> QED BY <2>6, <2>7, <2>11
<1> QED BY <1>6, <1>7

-----------------------------------------------------------------------------
(* Looking records up while a database is made.                              *)
Sound == Fits /\ (job.kind = "one" => job.fHeader)

(* An element of the hash table holds the record of the position that its    *)
(* key is the number of.                                                     *)
Entered(e) ==
  \/ e = None
  \/ IF Two(job) THEN \E u \in Position, t \in Position :
                        e = [key |-> nPos * u + t, of |-> Found(<<u, t>>)]
                 ELSE \E k \in Position : e = [key |-> k, of |-> Found(k)]
HashInv ==
  phase = "making" =>
    /\ hash = [k \in 0..(job.nHash - 1) |-> hash[k]]
    /\ \A k \in 0..(job.nHash - 1) : Sound => Entered(hash[k])
TodoInv ==
  /\ roll \in Thrown \cup {<<0, 0>>}
  /\ phase = "making" /\ roll # <<0, 0>> => ~Over
  /\ phase = "making" /\ todo # {} => ~Over /\ todo \subseteq 0..(Us - 1)
StopInv == phase = "stopped" => KnownToStop
LookupInv == HashInv /\ TodoInv /\ LookupRight /\ StopInv

LEMMA KeyFacts ==
  ASSUME NEW n \in Nat \ {0}, NEW u \in 0..(n - 1), NEW t \in 0..(n - 1)
  PROVE  n * u + t \in Nat /\ (n * u + t) \div n = u /\ (n * u + t) % n = t
<1>1. u \in Nat /\ t \in Nat /\ t < n OBVIOUS
<1>2. PICK p \in Nat : p = n * u BY <1>1
<1>3. n * u + t \in Nat BY <1>1, <1>2
<1>4. (n * u + t) \div n = u BY <1>1
<1>5. (n * u + t) % n = t BY <1>1
<1> QED BY <1>3, <1>4, <1>5

LEMMA KeyFits ==
  ASSUME MakingInv, Fits, NEW u \in Position, NEW t \in Position
  PROVE  IF Two(job) THEN nPos * u + t < Half ELSE t < Half
<1>1. nPos \in Nat \ {0} /\ nPos \in Nat /\ job \in Jobs BY PosFacts DEF MakingInv
<1>2. PICK h \in Nat : h = Half BY <1>1, WordFacts
<1>3. u \in Nat /\ t \in Nat /\ u <= nPos - 1 /\ t < nPos BY <1>1 DEF Position
<1>4. CASE Two(job)
  <2>1. nPos * nPos < h BY <1>1, <1>2, <1>4, FitsFacts DEF MakingInv
  <2>2. nPos * u <= nPos * (nPos - 1) BY <1>1, <1>3
  <2>3. nPos * (nPos - 1) = nPos * nPos - nPos BY <1>1
  <2>4. PICK p \in Nat, s \in Nat : p = nPos * u /\ s = nPos * nPos BY <1>1, <1>3
  <2>5. p + t < h BY <1>1, <1>2, <1>3, <2>1, <2>2, <2>3, <2>4
  <2> QED BY <1>2, <1>4, <2>4, <2>5
<1>5. CASE ~Two(job)
  <2>1. nPos < h BY <1>1, <1>2, <1>5, FitsFacts DEF MakingInv
  <2> QED BY <1>1, <1>2, <1>3, <1>5, <2>1
<1> QED BY <1>4, <1>5

LEMMA LookedUp ==
  ASSUME MakingInv, LookupInv, phase = "making", NEW j \in todo
  PROVE  /\ j \in Position /\ j \in 0..(Us - 1) /\ Us \in Position /\ Them \in Position
         /\ job \in Jobs /\ nPos \in Nat \ {0} /\ nPos \in Nat
         /\ KeyOf(j) \in Nat /\ (Fits => ~(KeyOf(j) >= Half))
<1>1. Us \in Position /\ Them \in Position /\ job \in Jobs BY Inside DEF MakingInv, ProgressInv
<1>2. nPos \in Nat \ {0} /\ nPos \in Nat BY <1>1, PosFacts
<1>3. j \in 0..(Us - 1) BY DEF LookupInv, TodoInv
<1>4. j \in Position
  <2> HIDE DEF Us
  <2> QED BY <1>1, <1>2, <1>3 DEF Position
<1>5. KeyOf(j) \in Nat
  <2>1. CASE Two(job)
    <3>1. KeyOf(j) = nPos * Them + j BY <2>1 DEF KeyOf
    <3> HIDE DEF Them
    <3>2. nPos * Them + j \in Nat BY <1>1, <1>2, <1>4, KeyFacts DEF Position
    <3> QED BY <3>1, <3>2
  <2>2. CASE ~Two(job) BY <1>2, <1>4, <2>2 DEF KeyOf, Position
  <2> QED BY <2>1, <2>2
<1>6. ASSUME Fits PROVE ~(KeyOf(j) >= Half)
  <2>1. Half \in Nat BY <1>1, WordFacts
  <2>2. PICK u \in Position : u = Them BY <1>1
  <2>3. KeyOf(j) = IF Two(job) THEN nPos * u + j ELSE j BY <2>2 DEF KeyOf
  <2>4. KeyOf(j) < Half BY <1>4, <1>6, <2>3, KeyFits
  <2> QED BY <1>5, <2>1, <2>4
<1> QED BY <1>1, <1>2, <1>3, <1>4, <1>5, <1>6

(* What is found under a key is the record of its position.                  *)
LEMMA HitRight ==
  ASSUME MakingInv, LookupInv, phase = "making", Sound, NEW j \in todo, job.nHash > 0,
         XhashLookup(KeyOf(j)) # None
  PROVE  XhashLookup(KeyOf(j)).of = Found(Wanted(j))
<1>1. /\ j \in Position /\ Them \in Position /\ job \in Jobs /\ nPos \in Nat \ {0} /\ KeyOf(j) \in Nat
  BY LookedUp
<1>2. job.nHash \in Nat /\ job.nHash > 0 BY <1>1, JobFacts
<1>3. XhashPosition(KeyOf(j)) \in 0..(job.nHash - 1) BY <1>1, <1>2 DEF XhashPosition
<1>4. PICK e : e = hash[XhashPosition(KeyOf(j))] OBVIOUS
<1>5. Entered(e) BY <1>3, <1>4 DEF LookupInv, HashInv
<1>6. e # None /\ e.key = KeyOf(j) /\ XhashLookup(KeyOf(j)) = e BY <1>4 DEF XhashLookup
<1>7. CASE Two(job)
  <2>1. PICK u \in Position, t \in Position : e = [key |-> nPos * u + t, of |-> Found(<<u, t>>)]
    BY <1>5, <1>6, <1>7 DEF Entered
  <2>2. e.key = nPos * u + t /\ e.of = Found(<<u, t>>) BY <2>1
  <2>3. nPos * u + t = nPos * Them + j BY <1>6, <1>7, <2>2 DEF KeyOf
  <2> HIDE DEF Them
  <2>4. (nPos * u + t) \div nPos = u /\ (nPos * u + t) % nPos = t BY <1>1, KeyFacts DEF Position
  <2>5. (nPos * Them + j) \div nPos = Them /\ (nPos * Them + j) % nPos = j BY <1>1, KeyFacts DEF Position
  <2>6. u = Them /\ t = j BY <2>3, <2>4, <2>5
  <2> QED BY <1>6, <1>7, <2>2, <2>6 DEF Wanted
<1>8. CASE ~Two(job)
  <2>1. PICK k \in Position : e = [key |-> k, of |-> Found(k)] BY <1>5, <1>6, <1>8 DEF Entered
  <2>2. e.key = k /\ e.of = Found(k) BY <2>1
  <2> QED BY <1>6, <1>8, <2>2 DEF Wanted, KeyOf
<1> QED BY <1>7, <1>8

(* The file has the positions that have been computed, and a move leads to   *)
(* one of them.  Where a record is shorter than what is read, the read may   *)
(* go beyond the end.                                                        *)
LEMMA SquareLookup ==
  ASSUME MakingInv, LookupInv, phase = "making", Two(job), Fits, NEW j \in todo,
         NEW record \in TSLookup(Them, j)
  PROVE  record = Found(Wanted(j)) \/ (record = Exit /\ ~job.fCubeful)
<1>1. /\ j \in Position /\ j \in 0..(Us - 1) /\ Us \in Position /\ Them \in Position
      /\ job \in Jobs /\ nPos \in Nat \ {0}
  BY LookedUp
<1>2. file \in Seq(Entry) /\ SquareHeld /\ Len(file) = CalcPosition(Us, Them, nPos)
  BY DEF MakingInv, FileInv, ProgressInv, Reached
<1>3. PICK k : k = CalcPosition(Them, j, nPos) OBVIOUS
<1>4. k \in Nat BY <1>1, <1>3, CalcRange DEF Position
<1>5. k < Len(file)
  <2> HIDE DEF Us, Them
  <2>1. Them + j < Us + Them BY <1>1 DEF Position
  <2>2. CalcPosition(Them, j, nPos) < CalcPosition(Us, Them, nPos) BY <1>1, <2>1, CalcOrder DEF Position
  <2> QED BY <1>2, <1>3, <2>2
<1>6. file[k + 1] = Wanted(j) BY <1>1, <1>2, <1>3, <1>5 DEF SquareHeld, Wanted
<1>7. record = ReadAt(file, 0, k * RecordSize(job), 8)
  <2>1. PICK n \in Nat : n = nPos * nPos BY <1>1
  <2>2. PICK h \in Nat : h = Half BY <1>1, WordFacts
  <2>3. PICK size \in {2, 8} : size = RecordSize(job) BY <1>1, SizeFacts
  <2>4. 40 + size * n <= h /\ n < h BY <1>1, <2>1, <2>2, <2>3, FitsFacts DEF MakingInv
  <2>5. k < n BY <1>1, <1>3, <2>1, CalcRange DEF Position
  <2>6. k * size < h BY <1>4, <2>3, <2>4, <2>5
  <2> QED BY <1>3, <2>1, <2>2, <2>3, <2>4, <2>6 DEF TSLookup
<1>8. Len(file) \in Nat BY <1>2
<1>9. CASE job.fCubeful
  <2>1. RecordSize(job) = 8 BY <1>9 DEF RecordSize
  <2>2. ~(k * 8 + 8 > 0 + 8 * Len(file)) /\ ~(k * 8 < 0) /\ (k * 8 - 0) % 8 = 0 /\ (k * 8 - 0) \div 8 + 1 = k + 1
    BY <1>4, <1>5, <1>8
  <2>3. record = Found(file[k + 1]) BY <1>7, <2>1, <2>2 DEF ReadAt
  <2> QED BY <1>6, <2>3
<1>10. CASE ~job.fCubeful
  <2>1. RecordSize(job) = 2 BY <1>10 DEF RecordSize
  <2>2. ~(k * 2 < 0) /\ (k * 2 - 0) % 2 = 0 /\ (k * 2 - 0) \div 2 + 1 = k + 1 BY <1>4
  <2>3. record = Exit \/ record = Found(file[k + 1]) BY <1>7, <2>1, <2>2 DEF ReadAt
  <2> QED BY <1>6, <1>10, <2>3
<1> QED BY <1>9, <1>10

LEMMA RowLookup ==
  ASSUME MakingInv, LookupInv, phase = "making", job.kind = "one", job.fHeader, Fits, NEW j \in todo,
         NEW record \in OSLookup(j)
  PROVE  record = Found(j)
<1>1. j \in Position /\ j \in 0..(Us - 1) /\ job \in Jobs BY LookedUp
<1>2. ~Two(job) BY DEF Two
<1>3. file \in Seq(Entry) /\ RowHeld /\ Len(file) = at.i /\ Us = at.i /\ Len(file) \in Nat
  BY <1>2 DEF MakingInv, FileInv, ProgressInv, Reached, Us
<1>4. j \in Nat /\ j < Len(file) /\ j \in 0..(Len(file) - 1) BY <1>1, <1>3
<1>5. Holds(file[j + 1], j) BY <1>3, <1>4 DEF RowHeld
<1>6. OSHeader = 40 BY DEF OSHeader, Flag
<1> DEFINE size == RecordSize(job)
<1>7. size \in Nat \ {0} BY <1>1, SizeFacts
<1>8. ReadAt(file, OSHeader, RowSeek(j), size) = Found(file[j + 1])
  <2> HIDE DEF size
  <2>1. j * size + size <= size * Len(file)
    <3>1. (j + 1) * size <= Len(file) * size BY <1>3, <1>4, <1>7
    <3>2. (j + 1) * size = j * size + size /\ Len(file) * size = size * Len(file) BY <1>3, <1>4, <1>7
    <3> QED BY <3>1, <3>2
  <2> j * size \in Nat /\ size * Len(file) \in Nat BY <1>3, <1>4, <1>7
  <2>2. PICK p \in Nat, q \in Nat : p = j * size /\ q = size * Len(file) OBVIOUS
  <2>3. ~(40 + j * size + size > 40 + size * Len(file)) /\ ~(40 + j * size < 0) /\ ~(40 + j * size < 40)
    BY <1>7, <2>1, <2>2
  <2>4. (40 + j * size) - 40 = j * size BY <2>2
  <2>5. (j * size) % size = 0 /\ (j * size) \div size = j BY <1>4, <1>7
  <2>6. RowSeek(j) = 40 + j * size
    <3>1. PICK w \in Nat \ {0} : w = job.nWord BY <1>1, WordFacts
    <3>2. PICK n \in Nat : n = nPos BY <1>1, PosFacts
    <3>3. j < n BY <1>1, <3>2 DEF Position
    <3>4. 40 + size * n + 2 * Len(tmp) <= w BY <1>1, <1>2, <3>1, <3>2, FitsFacts DEF MakingInv, size
    <3>5. tmp \in Seq(Nat \X Nat) BY DEF MakingInv
    <3>6. PICK l \in Nat : l = Len(tmp) BY <3>5
    <3>7. size * j < size * n BY <1>4, <1>7, <3>2, <3>3
    <3>8. PICK x \in Nat, y \in Nat : x = size * j /\ y = size * n /\ j * size = x BY <1>4, <1>7, <3>2
    <3>9. 40 + x < w BY <3>1, <3>4, <3>6, <3>7, <3>8
    <3>10. (40 + x) % w = 40 + x BY <3>1, <3>8, <3>9, Small
    <3> QED BY <3>1, <3>8, <3>10 DEF RowSeek, size
  <2> QED BY <1>6, <2>3, <2>4, <2>5, <2>6 DEF ReadAt, size
<1> HIDE DEF size
<1>9. Found(file[j + 1]) # Exit /\ Found(file[j + 1]) # Garbled /\ Found(file[j + 1]).of = file[j + 1]
  BY DEF Found, Exit, Garbled
<1>10. CASE ~job.fCompress
  <2>1. record = Found(file[j + 1]) BY <1>8, <1>10 DEF OSLookup, size
  <2>2. file[j + 1] = j BY <1>5, <1>10 DEF Holds, Compressed
  <2> QED BY <2>1, <2>2
<1>11. CASE job.fCompress
  <2>1. PICK e : e = file[j + 1] OBVIOUS
  <2>2. IndexOf(e, j) BY <1>5, <1>11, <2>1 DEF Holds, Compressed
  <2>3. e.offset \in Nat /\ e.count \in Nat /\ ~(e.offset + e.count > Len(tmp))
        /\ ~(Signed(e.offset) < 0)
        /\ SubSeq(tmp, e.offset + 1, e.offset + e.count) = Elements(job, j)
    <3>1. /\ e \in Index /\ e.offset + e.count <= Len(tmp)
          /\ SubSeq(tmp, e.offset + 1, e.offset + e.count) = Elements(job, j)
      BY <2>2 DEF IndexOf
    <3>2. e.offset \in Nat /\ e.count \in Nat BY <3>1 DEF Index
    <3>3. tmp \in Seq(Nat \X Nat) BY DEF MakingInv
    <3>4. Len(tmp) \in Nat BY <3>3
    <3>5. Len(tmp) < Half /\ Half \in Nat BY <1>1, <1>2, <3>3, FitsFacts, WordFacts
    <3>6. e.offset < Half BY <3>1, <3>2, <3>4, <3>5
    <3>7. Signed(e.offset) = e.offset BY <1>1, <3>2, <3>6, WordFacts
    <3> QED BY <3>1, <3>2, <3>4, <3>7
  <2>4. record = Decode(SubSeq(tmp, e.offset + 1, e.offset + e.count))
    BY <1>8, <1>9, <1>11, <2>1, <2>3 DEF OSLookup, size
  <2>5. Elements(job, j) # <<>> /\ Elements(job, j)[1][1] = j
    <3>1. /\ Elements(job, j) \in Seq(Nat \X Nat) /\ Len(Elements(job, j)) \in Nat \ {0}
          /\ \A i \in 1..Len(Elements(job, j)) : Elements(job, j)[i] = <<j, i>>
      BY <1>1, ElementsOf
    <3>2. Elements(job, j)[1] = <<j, 1>> BY <3>1
    <3> QED BY <3>1, <3>2
  <2>6. record = Decode(Elements(job, j)) BY <2>3, <2>4
  <2>7. Decode(Elements(job, j)) = Found(j) BY <2>5 DEF Decode
  <2> QED BY <2>6, <2>7
<1> QED BY <1>10, <1>11

(* Every lookup, whether the table has the record or not.                    *)
LEMMA KnownRight ==
  ASSUME MakingInv, LookupInv, Sound, NEW j \in todo, LookupKnown(j)
  PROVE  got'.want = Wanted(j) /\ got'.of = Found(Wanted(j))
<1>1. phase = "making" BY DEF LookupKnown
<1>2. j \in Position /\ j \in 0..(Us - 1) BY <1>1, LookedUp
<1>3. PICK record \in IF NoLookup(j) THEN {Found(j)} ELSE InMemory(j) : Looked(j, record)
  BY DEF LookupKnown
<1>4. ~Two(job) BY DEF LookupKnown, NoLookup, Two
<1>5. record = Found(j)
  <2>1. CASE NoLookup(j) BY <1>3, <2>1
  <2>2. CASE ~NoLookup(j)
    <3>1. job.kind = "heuristic" BY <2>2 DEF LookupKnown
    <3>2. RowHeld /\ Len(file) = at.i /\ Us = at.i /\ at.i \in Nat
      BY <1>1, <1>4 DEF MakingInv, FileInv, ProgressInv, Reached, Us
    <3>3. j < Len(file) /\ j \in 0..(Len(file) - 1) BY <1>2, <3>2
    <3>4. file[j + 1] = j BY <3>1, <3>2, <3>3 DEF RowHeld, Holds, Compressed
    <3> QED BY <1>3, <2>2, <3>3, <3>4 DEF InMemory
  <2> QED BY <2>1, <2>2
<1>6. got' = [want |-> Wanted(j), of |-> record] BY <1>3 DEF Looked
<1>7. Wanted(j) = j BY <1>4 DEF Wanted
<1> QED BY <1>5, <1>6, <1>7

LEMMA FileRight ==
  ASSUME MakingInv, LookupInv, phase = "making", Sound, NEW j \in todo, ~NoLookup(j),
         job.kind # "heuristic",
         NEW record \in IF Two(job) THEN TSLookup(Them, j) ELSE OSLookup(j)
  PROVE  record = Found(Wanted(j)) \/ (record = Exit /\ KnownToStop)
<1>1. CASE Two(job)
  <2>1. record = Found(Wanted(j)) \/ (record = Exit /\ ~job.fCubeful) BY <1>1, SquareLookup DEF Sound
  <2> QED BY <1>1, <2>1 DEF KnownToStop
<1>2. CASE ~Two(job)
  <2>1. job.kind = "one" /\ job.fHeader /\ Fits BY <1>2, JobFacts DEF Sound, MakingInv
  <2>2. record = Found(j) BY <1>2, <2>1, RowLookup
  <2> QED BY <1>2, <2>2 DEF Wanted
<1> QED BY <1>1, <1>2

(* The table after a record has been added.                                  *)
LEMMA Added ==
  ASSUME MakingInv, LookupInv, phase = "making", job' = job, job.nHash > 0, Fits' => Fits,
         NEW key \in Nat, NEW record, XhashAdd(key, record),
         Sound => Entered([key |-> key, of |-> record])
  PROVE  /\ hash' = [k \in 0..(job'.nHash - 1) |-> hash'[k]]
         /\ \A k \in 0..(job'.nHash - 1) : Sound' => Entered(hash[k])'
<1>1. hash = [k \in 0..(job.nHash - 1) |-> hash[k]]
      /\ \A k \in 0..(job.nHash - 1) : Sound => Entered(hash[k])
  BY DEF LookupInv, HashInv
<1>2. job.nHash \in Nat BY JobFacts DEF MakingInv
<1>3. PICK n : n = key % job.nHash OBVIOUS
<1>4. PICK e : e = [key |-> key, of |-> record] OBVIOUS
<1>5. hash' = hash \/ hash' = [hash EXCEPT ![n] = e] BY <1>3, <1>4 DEF XhashAdd, XhashPosition
<1>6. ASSUME NEW k \in 0..(job.nHash - 1), Sound PROVE Entered(hash[k])'
  <2>1. hash'[k] = hash[k] \/ hash'[k] = e BY <1>1, <1>5
  <2>2. Entered(hash'[k]) BY <1>1, <1>4, <1>6, <2>1
  <2> QED BY <2>2 DEF Entered, Position, nPos
<1>7. Sound' => Sound BY DEF Sound
<1>8. hash' = [k \in 0..(job.nHash - 1) |-> hash'[k]] BY <1>1, <1>5
<1> QED BY <1>6, <1>7, <1>8

LEMMA LookupInitial ==
  ASSUME Init
  PROVE  LookupInv
<1>1. /\ job \in Jobs /\ hash = [k \in 0..(job.nHash - 1) |-> None] /\ got = None /\ roll = <<0, 0>>
      /\ todo = {} /\ phase = "making"
  BY DEF Init
<1>2. HashInv BY <1>1 DEF HashInv, Entered
<1> QED BY <1>1, <1>2 DEF LookupInv, TodoInv, LookupRight, StopInv

(* What a lookup and a step that looks nothing up leave of the table.        *)
LEMMA TableKept ==
  ASSUME LookupInv, job' = job, hash' = hash, Fits' => Fits, phase' = "making" => phase = "making"
  PROVE  HashInv'
<1>1. ASSUME phase' = "making"
      PROVE  /\ hash' = [k \in 0..(job'.nHash - 1) |-> hash'[k]]
             /\ \A k \in 0..(job'.nHash - 1) : Sound' => Entered(hash[k])'
  <2>1. Sound' => Sound BY DEF Sound
  <2> QED BY <1>1, <2>1 DEF LookupInv, HashInv, Entered, Position, nPos
<1> QED BY <1>1 DEF HashInv

LEMMA TodoKept ==
  ASSUME LookupInv, job' = job, at' = at, roll' = roll, todo' \subseteq todo,
         phase' = "making" => phase = "making"
  PROVE  TodoInv'
<1>1. Us' = Us /\ (Over' <=> Over) BY DEF Us, Over, Them, nPos
<1>2. todo' # {} => todo # {} OBVIOUS
<1> HIDE DEF Us, Over
<1>3. ASSUME phase' = "making", todo' # {} PROVE ~Over' /\ todo' \subseteq 0..(Us' - 1)
  BY <1>1, <1>2, <1>3 DEF LookupInv, TodoInv
<1>4. ASSUME phase' = "making", roll' # <<0, 0>> PROVE ~Over' BY <1>1, <1>4 DEF LookupInv, TodoInv
<1> QED BY <1>3, <1>4 DEF LookupInv, TodoInv

LEMMA StopKept ==
  ASSUME LookupInv, job' = job, Fits' => Fits, phase' = "stopped" => phase = "stopped" \/ KnownToStop
  PROVE  StopInv'
BY DEF LookupInv, StopInv, KnownToStop, Two

LEMMA Stopping ==
  ASSUME LookupInv, Stop, KnownToStop
  PROVE  LookupInv'
<1>1. phase' = "stopped" /\ job' = job /\ at' = at /\ roll' = roll /\ todo' = todo /\ hash' = hash
      /\ got' = got /\ tmp' = tmp
  BY DEF Stop
<1> (Fits' <=> Fits) BY <1>1, FitsSame
<1>2. HashInv' BY <1>1 DEF HashInv
<1>3. TodoInv' BY <1>1 DEF LookupInv, TodoInv
<1>4. LookupRight' BY <1>1 DEF LookupInv, LookupRight
<1>5. StopInv' BY <1>1, StopKept
<1> QED BY <1>2, <1>3, <1>4, <1>5 DEF LookupInv

LEMMA LookedRight ==
  ASSUME job' = job, NEW j, NEW record, Looked(j, record), Sound => record = Found(Wanted(j))
  PROVE  LookupRight'
<1>1. got' = [want |-> Wanted(j), of |-> record] /\ tmp' = tmp BY DEF Looked
<1> (Fits' <=> Fits) BY <1>1, FitsSame
<1>2. got'.want = Wanted(j) /\ got'.of = record BY <1>1
<1>3. CASE Sound BY <1>2, <1>3 DEF LookupRight
<1>4. CASE ~Sound BY <1>4 DEF LookupRight, Sound
<1> QED BY <1>3, <1>4

(* The record of the position wanted is entered under its key.               *)
LEMMA EnteredWanted ==
  ASSUME MakingInv, LookupInv, phase = "making", NEW j \in todo
  PROVE  Entered([key |-> KeyOf(j), of |-> Found(Wanted(j))])
<1>1. j \in Position /\ Them \in Position BY LookedUp
<1>2. CASE Two(job) BY <1>1, <1>2 DEF Entered, KeyOf, Wanted
<1>3. CASE ~Two(job) BY <1>1, <1>3 DEF Entered, KeyOf, Wanted
<1> QED BY <1>2, <1>3

LEMMA LookedStep ==
  ASSUME MakingInv, LookupInv, phase = "making", NEW j \in todo, NEW record, Looked(j, record),
         Sound => record = Found(Wanted(j)), HashInv'
  PROVE  LookupInv'
<1>1. job' = job /\ at' = at /\ roll' = roll /\ todo' \subseteq todo /\ phase' = phase /\ tmp' = tmp
  BY DEF Looked
<1> (Fits' <=> Fits) BY <1>1, FitsSame
<1>2. LookupRight' BY <1>1, LookedRight
<1>3. TodoInv' BY <1>1, TodoKept
<1>4. StopInv' BY <1>1, StopKept
<1> QED BY <1>2, <1>3, <1>4 DEF LookupInv

LEMMA LookupStep ==
  ASSUME MakingInv, LookupInv, NEW j \in todo, LookupKnown(j) \/ LookupHit(j) \/ LookupMiss(j)
  PROVE  LookupInv'
<1>1. phase = "making" BY DEF LookupKnown, LookupHit, LookupMiss
<1> (Fits' <=> Fits)
  <2>1. job' = job /\ tmp' = tmp BY DEF LookupKnown, LookupHit, LookupMiss, Looked, Stop
  <2> QED BY <2>1, FitsSame
<1>2. CASE LookupKnown(j)
  <2>1. PICK record : Looked(j, record) BY <1>2 DEF LookupKnown
  <2>2. got' = [want |-> Wanted(j), of |-> record] /\ job' = job /\ phase' = phase BY <2>1 DEF Looked
  <2>3. Sound => record = Found(Wanted(j))
    <3>1. Sound => got'.of = Found(Wanted(j)) BY <1>2, KnownRight
    <3> QED BY <2>2, <3>1
  <2>4. hash' = hash BY <1>2 DEF LookupKnown
  <2>5. HashInv' BY <2>2, <2>4, TableKept
  <2> QED BY <1>1, <2>1, <2>3, <2>5, LookedStep
<1>3. CASE LookupHit(j)
  <2>1. /\ job.nHash > 0 /\ XhashLookup(KeyOf(j)) # None /\ Looked(j, XhashLookup(KeyOf(j)).of)
        /\ hash' = hash
    BY <1>3 DEF LookupHit
  <2>2. PICK record : record = XhashLookup(KeyOf(j)).of OBVIOUS
  <2>3. Looked(j, record) BY <2>1, <2>2
  <2>4. Sound => record = Found(Wanted(j)) BY <1>1, <2>1, <2>2, HitRight
  <2>5. job' = job /\ phase' = phase BY <2>3 DEF Looked
  <2>6. HashInv' BY <2>1, <2>5, TableKept
  <2> QED BY <1>1, <2>3, <2>4, <2>6, LookedStep
<1>4. CASE LookupMiss(j)
  <2>1. ~NoLookup(j) /\ job.nHash > 0 BY <1>4 DEF LookupMiss
  <2>2. PICK record \in (IF Two(job) THEN TSLookup(Them, j) ELSE OSLookup(j))
                       \cup (IF KeyOf(j) >= Half THEN {Exit} ELSE {}) :
          IF record = Exit THEN Stop ELSE Looked(j, record) /\ XhashAdd(KeyOf(j), record)
    BY <1>4 DEF LookupMiss
  <2>3. job.kind # "heuristic" BY <2>1, JobFacts DEF MakingInv
  <2>4. Sound => record = Found(Wanted(j)) \/ (record = Exit /\ KnownToStop)
    <3>1. Sound => record \in IF Two(job) THEN TSLookup(Them, j) ELSE OSLookup(j)
      BY <1>1, <2>2, LookedUp DEF Sound
    <3> QED BY <1>1, <2>1, <2>3, <3>1, FileRight
  <2>5. Found(Wanted(j)) # Exit BY DEF Found, Exit
  <2>6. CASE record = Exit
    <3>1. ~Sound => KnownToStop BY DEF Sound, KnownToStop
    <3>2. KnownToStop BY <2>4, <2>5, <2>6, <3>1
    <3> QED BY <2>2, <2>6, <3>2, Stopping
  <2>7. CASE record # Exit
    <3>1. Looked(j, record) /\ XhashAdd(KeyOf(j), record) BY <2>2, <2>7
    <3>2. Sound => record = Found(Wanted(j)) BY <2>4, <2>7
    <3>3. job' = job /\ phase' = phase BY <3>1 DEF Looked
    <3>4. KeyOf(j) \in Nat BY <1>1, LookedUp
    <3>5. Sound => Entered([key |-> KeyOf(j), of |-> record]) BY <1>1, <3>2, EnteredWanted
    <3>6. HashInv'
      <4>1. PICK key \in Nat : key = KeyOf(j) BY <3>4
      <4>2. XhashAdd(key, record) /\ (Sound => Entered([key |-> key, of |-> record]))
        BY <3>1, <3>5, <4>1
      <4>3. /\ hash' = [k \in 0..(job'.nHash - 1) |-> hash'[k]]
            /\ \A k \in 0..(job'.nHash - 1) : Sound' => Entered(hash[k])'
        BY <1>1, <2>1, <3>3, <4>2, Added
      <4> QED BY <4>3 DEF HashInv
    <3> QED BY <1>1, <3>1, <3>2, <3>6, LookedStep
  <2> QED BY <2>6, <2>7
<1> QED BY <1>2, <1>3, <1>4

(* The moves of the next roll lead to positions that have been computed.     *)
LEMMA RollStep ==
  ASSUME MakingInv, LookupInv, Roll
  PROVE  LookupInv'
<1>1. /\ phase = "making" /\ phase' = phase /\ ~Over /\ roll' = NextRoll /\ todo' = Compared(NextRoll)
      /\ got' = None /\ job' = job /\ at' = at /\ hash' = hash /\ roll # <<6, 6>> /\ tmp' = tmp
  BY DEF Roll
<1> (Fits' <=> Fits) BY <1>1, FitsSame
<1>2. roll \in Thrown \cup {<<0, 0>>} BY DEF LookupInv, TodoInv
<1>3. NextRoll \in Thrown
  <2>1. CASE roll = <<0, 0>>
    <3>1. NextRoll = <<1, 1>> BY <2>1 DEF NextRoll
    <3> QED BY <3>1 DEF Thrown
  <2>2. CASE roll \in Thrown
    <3>1. roll = <<roll[1], roll[2]>> /\ roll[1] \in 1..6 /\ roll[2] \in 1..6 /\ roll[2] <= roll[1]
      BY <2>2 DEF Thrown
    <3>2. CASE roll[2] < roll[1]
      <4>1. NextRoll = <<roll[1], roll[2] + 1>> BY <3>2 DEF NextRoll
      <4>2. roll[2] + 1 \in 1..6 /\ roll[2] + 1 <= roll[1] BY <3>1, <3>2
      <4> QED BY <3>1, <4>1, <4>2 DEF Thrown
    <3>3. CASE ~(roll[2] < roll[1])
      <4>1. NextRoll = <<roll[1] + 1, 1>> BY <3>3 DEF NextRoll
      <4>2. roll[1] # 6 BY <1>1, <3>1, <3>3
      <4>3. roll[1] + 1 \in 1..6 /\ 1 <= roll[1] + 1 BY <3>1, <4>2
      <4> QED BY <4>1, <4>3 DEF Thrown
    <3> QED BY <3>2, <3>3
  <2> QED BY <1>2, <2>1, <2>2
<1>4. Us' = Us /\ (Over' <=> Over) BY <1>1 DEF Us, Over, Them, nPos
<1>5. Compared(NextRoll) \subseteq 0..(Us - 1) BY <1>1, <1>3, ComparedDown
<1>6. TodoInv'
  <2> HIDE DEF Us, Over, Compared
  <2> QED BY <1>1, <1>3, <1>4, <1>5 DEF TodoInv
<1>7. HashInv' BY <1>1, TableKept
<1>8. StopInv' BY <1>1, StopKept
<1> QED BY <1>1, <1>6, <1>7, <1>8 DEF LookupInv, LookupRight

LEMMA WriteStep ==
  ASSUME MakingInv, LookupInv, Write
  PROVE  LookupInv'
<1>1. /\ phase = "making" /\ job' = job /\ Us \in Position /\ Them \in Position
      /\ phase' \in {"making", "written"}
  BY WriteFacts
<1> Fits' => Fits BY FitsBefore DEF Generate
<1>2. roll' = <<0, 0>> /\ got' = None /\ todo' = {}
  BY DEF Write, Ready, LookupInv, TodoInv
<1>3. TodoInv' BY <1>2 DEF TodoInv
<1>4. StopInv' BY <1>1, StopKept
<1>5. HashInv'
  <2>1. CASE job.kind = "heuristic"
    <3>1. hash' = hash BY <2>1 DEF Write
    <3> QED BY <1>1, <3>1, TableKept
  <2>2. CASE job.kind # "heuristic"
    <3>1. job.nHash > 0 /\ XhashAdd(IF Two(job) THEN Us * nPos + Them ELSE Us, Found(Record))
      BY <2>2 DEF Write, WriteKey
    <3>2. PICK key, record : /\ key = IF Two(job) THEN Us * nPos + Them ELSE Us
                             /\ record = Found(Record)
      OBVIOUS
    <3>3. nPos \in Nat \ {0} /\ nPos \in Nat BY PosFacts DEF MakingInv
    <3>4. Us * nPos = nPos * Us /\ Us \in Nat /\ nPos * Us + Them \in Nat
      <4> HIDE DEF Us, Them
      <4> QED BY <1>1, <3>3, KeyFacts DEF Position
    <3>5. key \in Nat BY <3>2, <3>4
    <3>6. Entered([key |-> key, of |-> record])
      <4>1. CASE Two(job)
        <5>1. key = nPos * Us + Them /\ record = Found(<<Us, Them>>) BY <3>2, <3>4, <4>1 DEF Record
        <5> HIDE DEF Us, Them
        <5> QED BY <1>1, <4>1, <5>1 DEF Entered
      <4>2. CASE ~Two(job) BY <1>1, <3>2, <4>2 DEF Entered, Record
      <4> QED BY <4>1, <4>2
    <3>7. XhashAdd(key, record) BY <3>1, <3>2
    <3>8. /\ hash' = [k \in 0..(job'.nHash - 1) |-> hash'[k]]
          /\ \A k \in 0..(job'.nHash - 1) : Sound' => Entered(hash[k])'
      BY <1>1, <3>1, <3>5, <3>6, <3>7, Added
    <3> QED BY <3>8 DEF HashInv
  <2> QED BY <2>1, <2>2
<1> QED BY <1>2, <1>3, <1>4, <1>5 DEF LookupInv, LookupRight

LEMMA LookupNext ==
  ASSUME MakingInv, LookupInv, [Next]_allvars
  PROVE  LookupInv'
<1>1. CASE Roll BY <1>1, RollStep
<1>2. CASE Write BY <1>2, WriteStep
<1>3. CASE Finish
  <2>1. phase' = "done" /\ job' = job /\ roll' = roll /\ got' = got /\ tmp' = tmp BY <1>3 DEF Finish
  <2> (Fits' <=> Fits) BY <2>1, FitsSame
  <2>2. StopInv' BY <2>1, StopKept
  <2> QED BY <2>1, <2>2 DEF LookupInv, HashInv, TodoInv, LookupRight
<1>4. CASE BadIndex
  <2>1. Stop /\ phase = "making" /\ (job.nHash = 0 \/ WriteKey >= Half) BY <1>4 DEF BadIndex
  <2>2. CASE job.nHash = 0 BY <2>1, <2>2, Stopping DEF KnownToStop
  <2>3. CASE WriteKey >= Half
    <3>1. Us \in Position /\ Them \in Position /\ job \in Jobs BY <2>1, Inside DEF MakingInv, ProgressInv
    <3>2. nPos \in Nat /\ Half \in Nat BY <3>1, PosFacts, WordFacts
    <3>3. PICK u \in Position, t \in Position : u = Us /\ t = Them BY <3>1
    <3>4. u \in Nat /\ t \in Nat /\ WriteKey = (IF Two(job) THEN nPos * u + t ELSE u)
      <4>1. u \in Nat /\ t \in Nat BY <3>2 DEF Position
      <4>2. u * nPos = nPos * u BY <3>2, <4>1
      <4>3. WriteKey = IF Two(job) THEN u * nPos + t ELSE u BY <3>3 DEF WriteKey
      <4> QED BY <4>1, <4>2, <4>3
    <3>5. ASSUME Fits PROVE WriteKey < Half
      <4>1. CASE Two(job) BY <3>4, <3>5, <4>1, KeyFits
      <4>2. CASE ~Two(job) BY <3>4, <3>5, <4>2, KeyFits
      <4> QED BY <4>1, <4>2
    <3>6. WriteKey \in Nat
      <4>1. nPos * u \in Nat BY <3>2, <3>4
      <4> QED BY <3>4, <4>1
    <3>7. ~Fits BY <2>3, <3>2, <3>5, <3>6
    <3> QED BY <2>1, <3>7, Stopping DEF KnownToStop
  <2> QED BY <2>1, <2>2, <2>3
<1>5. ASSUME NEW j \in todo, LookupKnown(j) \/ LookupHit(j) \/ LookupMiss(j) PROVE LookupInv'
  BY <1>5, LookupStep
<1>6. CASE UNCHANGED vars
  <2>1. job' = job /\ at' = at /\ roll' = roll /\ todo' = todo /\ hash' = hash /\ got' = got /\ phase' = phase
        /\ tmp' = tmp
    BY <1>6 DEF vars
  <2> (Fits' <=> Fits) BY <2>1, FitsSame
  <2>2. HashInv' BY <2>1, TableKept
  <2>3. TodoInv' BY <2>1, TodoKept
  <2>4. StopInv' BY <2>1, StopKept
  <2> QED BY <2>1, <2>2, <2>3, <2>4 DEF LookupInv, LookupRight
<1>7. Generate \/ UNCHANGED vars
  <2>1. CASE BearoffInit BY <2>1 DEF BearoffInit
  <2>2. CASE UNCHANGED allvars BY <2>2 DEF allvars
  <2>3. ASSUME NEW r \in Reader, ReaderStep(r) \/ ReadFails(r) \/ \E w \in Asked(job) : Ask(r, w)
        PROVE  UNCHANGED vars
    BY <2>3 DEF ReaderStep, ReadFails, Ask, MT_Exclusive, Seek, Read, MT_Release, Answered, Reading
  <2> QED BY <2>1, <2>2, <2>3 DEF Next
<1> QED BY <1>1, <1>2, <1>3, <1>4, <1>5, <1>6, <1>7 DEF Generate

LEMMA LookupInvariant == Spec => [](MakingInv /\ LookupInv)
<1>1. Init => LookupInv BY LookupInitial
<1>2. MakingInv /\ LookupInv /\ [Next]_allvars => LookupInv' BY LookupNext
<1>3. InitRead => Init BY DEF InitRead
<1>4. Spec => []MakingInv BY BearoffInvariant
<1> QED BY <1>1, <1>2, <1>3, <1>4, PTL DEF Spec

(* Whatever database is made, the hash table and the file written so far     *)
(* never give a lookup the record of another position than the one wanted.   *)
THEOREM LookupsRight == Spec => []LookupRight
<1>1. LookupInv => LookupRight BY DEF LookupInv
<1> QED BY <1>1, LookupInvariant, PTL

(* Making a database fails only for a reason that can be told from what it   *)
(* was asked to make.                                                        *)
THEOREM GenerationStops == Spec => [](phase = "stopped" => KnownToStop)
<1>1. LookupInv => (phase = "stopped" => KnownToStop) BY DEF LookupInv, StopInv
<1> QED BY <1>1, LookupInvariant, PTL

(* The moves that are compared for a roll, those of the rules or the         *)
(* heuristic one, lead to positions with smaller numbers: their records have *)
(* been written.                                                             *)
THEOREM MovesLeadDown == Spec => []Descend
<1>1. MakingInv /\ LookupInv => Descend
  <2> SUFFICES ASSUME MakingInv, LookupInv, phase = "making", roll # <<0, 0>>
               PROVE  Compared(roll) \subseteq 0..(Us - 1)
    BY DEF Descend
  <2>1. ~Over /\ roll \in Thrown BY DEF LookupInv, TodoInv
  <2> QED BY <2>1, ComparedDown
<1> QED BY <1>1, LookupInvariant, PTL

(* The number of a position that is computed gives the position back.        *)
THEOREM NumbersReturn == Spec => []NumberReturns
<1>1. MakingInv => NumberReturns
  <2> SUFFICES ASSUME MakingInv, phase = "making"
               PROVE  PositionBearoff(Side1(Size(job), Us), job.nPoints, job.nChequers) = Us
    BY DEF NumberReturns
  <2> DEFINE p == job.nPoints
             c == job.nChequers
             side == Side1(Size(job), Us)
  <2>1. job \in Jobs /\ Us \in Position BY Inside DEF MakingInv, ProgressInv
  <2>2. p \in Nat \ {0} /\ c \in Nat \ {0} /\ p <= Bar /\ p + c <= MAX_N BY <2>1, JobsAssumption
  <2>3. Us \in Nat /\ Us < Combination(p + c, p)
    <3>1. nPos = Combination(p + c, p) /\ nPos \in Nat BY <2>1, JobFacts DEF nPos
    <3> HIDE DEF Us, nPos
    <3> QED BY <2>1, <3>1 DEF Position
  <2>4. side = [k \in Point |-> IF k < p THEN PositionFromBearoff(Us, p, c)[k] ELSE 0]
    BY DEF Side1, Pad, Size
  <2>5. \A k \in 0..(p - 1) : k \in Point /\ k < p BY <2>2 DEF Point, Bar
  <2>6. \A k \in 0..(p - 1) : side[k] = PositionFromBearoff(Us, p, c)[k]
    <3> HIDE DEF side, Us
    <3> QED BY <2>4, <2>5
  <2> HIDE DEF side, Us, p, c
  <2>7. PositionBearoff(side, p, c) = Us BY <2>2, <2>3, <2>6, NumbersOf
  <2> QED BY <2>7 DEF side, p, c
<1> QED BY <1>1, BearoffInvariant, PTL
=============================================================================
