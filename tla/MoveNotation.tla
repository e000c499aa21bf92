---------------------------- MODULE MoveNotation ----------------------------
(* Moves as people write them, "13/11*/9(2)": FormatMove and ParseMove of    *)
(* drawboard.c, and what play.c does with a move that was typed.  A text is a*)
(* sequence of tokens; names of points are their numbers 0 (off) .. 25 (bar),*)
(* and blanks and the stars of hits are left out: reading skips them.        *)
EXTENDS Moves, TLC

Pt(n) == [t |-> "point", n |-> n]
Slash == [t |-> "/", n |-> 0]
Times(n) == [t |-> "(", n |-> n]

Descending(p, q) == p[1] > q[1] \/ (p[1] = q[1] /\ p[2] > q[2])
CanonicalMoveOrder(an) == SortSeq(an, Descending)

Present(chain) == chain # <<>>
Compact(chains) == SelectSeq(chains, Present)

(* Mutant: the point where a blot was hit on the way is elided as well.      *)
JoinEliding(board, chains) ==
  LET pairs == [k \in 1 .. 16 |-> <<1 + (k - 1) \div 4, 1 + ((k - 1) % 4)>>]
      joined[k \in 0 .. 16] ==
        IF k = 0 THEN SubSeq(chains \o <<<<>>, <<>>, <<>>, <<>>>>, 1, 4)
        ELSE LET c == joined[k - 1]
                 i == pairs[k][1]
                 j == pairs[k][2]
             IN  IF j >= i /\ c[i] # <<>> /\ c[j] # <<>> /\ c[i][Len(c[i])] = c[j][1]
                   THEN [c EXCEPT ![i] = Append(SubSeq(@, 1, Len(@) - 1), c[j][Len(c[j])]),
                                  ![j] = <<>>]
                   ELSE c
  IN  Compact(joined[16])

(* The steps of one man are joined: a step that begins where the one before  *)
(* it ended continues it, and the point between is kept only if a man was    *)
(* hit there.                                                                *)
Join(board, chains) ==
  LET pairs == [k \in 1 .. 16 |-> <<1 + (k - 1) \div 4, 1 + ((k - 1) % 4)>>]
      Through(chain, to) == IF board[0][24 - chain[Len(chain)]] > 0 THEN Append(chain, to)
                            ELSE [chain EXCEPT ![Len(chain)] = to]
      joined[k \in 0 .. 16] ==
        IF k = 0 THEN SubSeq(chains \o <<<<>>, <<>>, <<>>, <<>>>>, 1, 4)
        ELSE LET c == joined[k - 1]
                 i == pairs[k][1]
                 j == pairs[k][2]
             IN  IF j >= i /\ c[i] # <<>> /\ c[j] # <<>> /\ c[i][Len(c[i])] = c[j][1]
                   THEN [c EXCEPT ![i] = Through(@, c[j][Len(c[j])]), ![j] = <<>>]
                   ELSE c
  IN  Compact(joined[16])

(* A chain with the number of men that make it, where it stands first.       *)
Counted(chains) ==
  LET same(i) == {j \in 1 .. Len(chains) : chains[j] = chains[i]}
      first == SelectSeq([i \in 1 .. Len(chains) |-> i], LAMBDA i : \A j \in same(i) : i <= j)
  IN  [k \in 1 .. Len(first) |-> [chain |-> chains[first[k]], men |-> Cardinality(same(first[k]))]]

FormatMove(board, anMove) ==
  LET steps == SortSeq([i \in 1 .. Len(anMove) |-> <<anMove[i][1] + 1, anMove[i][2] + 1>>], Descending)
      groups == Counted(Join(board, steps))
      Points(chain) == [k \in 1 .. 2 * Len(chain) - 1 |->
                          IF k % 2 = 1 THEN Pt(chain[(k + 1) \div 2]) ELSE Slash]
      Text(g) == Points(g.chain) \o IF g.men > 1 THEN <<Times(g.men)>> ELSE <<>>
      text[k \in 0 .. Len(groups)] == IF k = 0 THEN <<>> ELSE text[k - 1] \o Text(groups[k])
  IN  text[Len(groups)]

-----------------------------------------------------------------------------
(* ParseMove: the points that were written, anUser, with the set fl of those *)
(* that a slash precedes, counted from 0; then the steps they stand for.     *)

Unreadable == [ok |-> FALSE, anUser |-> <<>>, fl |-> {}]

(* A count behind a group repeats it, slashes and all, n times more.         *)
Repeat(st, n) ==
  LET c == Len(st.anUser)
      iBegin == MaxOf({k \in 0 .. c - 1 : k \notin st.fl})
      size == c - iBegin
      Again(k) == IF k < c THEN k ELSE iBegin + ((k - iBegin) % size)
  IN  IF n < 1 \/ c < 2 \/ c \in st.fl \/ c + size * n > 8 THEN Unreadable
      ELSE [ok |-> TRUE,
            anUser |-> [k \in 1 .. c + size * n |-> st.anUser[Again(k - 1) + 1]],
            fl |-> st.fl \cup {k \in c .. c + size * n - 1 : Again(k) \in st.fl}]

ReadToken(st, token) ==
  LET c == Len(st.anUser)
  IN  CASE ~st.ok -> st
        [] st.ok /\ token.t = "point" ->
             IF c = 8 \/ token.n \notin 0 .. 25 THEN Unreadable
             ELSE [st EXCEPT !.anUser = Append(@, token.n)]
        [] st.ok /\ token.t = "/" ->
             IF c = 0 \/ c \in st.fl THEN Unreadable ELSE [st EXCEPT !.fl = @ \cup {c}]
        [] st.ok /\ token.t = "(" -> Repeat(st, token.n - 1)

(* A point is where a step begins or ends; one with a slash before and behind*)
(* it ends a step and begins the next.  an is the list the code fills, flat. *)
Steps(st) ==
  LET fill[j \in 0 .. Len(st.anUser)] ==
        IF j = 0 THEN [ok |-> TRUE, an |-> <<>>]
        ELSE LET f == fill[j - 1]
                 n == st.anUser[j]
                 ends == Len(f.an) % 2 = 1
                 through == ends /\ j \in st.fl
             IN  IF \/ ~f.ok \/ Len(f.an) = 8 \/ n = (IF ends THEN 25 ELSE 0)
                    \/ through /\ (Len(f.an) = 7 \/ n \in {0, 25})
                   THEN [f EXCEPT !.ok = FALSE]
                   ELSE [f EXCEPT !.an = @ \o IF through THEN <<n, n>> ELSE <<n>>]
  IN  fill[Len(st.anUser)]

ParseMove(text) ==
  LET read[k \in 0 .. Len(text)] ==
        IF k = 0 THEN [ok |-> TRUE, anUser |-> <<>>, fl |-> {}]
        ELSE ReadToken(read[k - 1], text[k])
      st == read[Len(text)]
      f == Steps(st)
  IN  IF ~st.ok \/ Len(st.anUser) \in st.fl \/ ~f.ok \/ Len(f.an) % 2 = 1
        THEN [ok |-> FALSE, an |-> <<>>]
        ELSE [ok |-> TRUE, an |-> CanonicalMoveOrder([i \in 1 .. Len(f.an) \div 2 |->
                                                        <<f.an[2 * i - 1], f.an[2 * i]>>])]

(* From points 0 .. 25 to the points -1 .. 24 of a move.                     *)
parsemove_to_anmove(an) ==
  CanonicalMoveOrder([i \in 1 .. Len(an) |-> <<an[i][1] - 1, an[i][2] - 1>>])

(* The legal moves that lead to the position which the steps typed lead to;  *)
(* the first of them is played.  Steps that fail are not applied.            *)
parse_move_is_legal(board, ml, text) ==
  LET parsed == ParseMove(text)
      typed == ApplyMove(board, parsemove_to_anmove(parsed.an), FALSE).board
  IN  {m \in ml : parsed.ok /\ ApplyMove(board, m.anMove, FALSE).board = typed}
=============================================================================
