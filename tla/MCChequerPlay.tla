---------------------------- MODULE MCChequerPlay ----------------------------
(* ChequerPlay from chosen positions.  A game of one man a side is played to *)
(* its end with every roll; the other positions are those in which the rules *)
(* of movement get difficult, played on for a turn or two.                   *)
EXTENDS ChequerPlay

Every == {r \in (1 .. 6) \X (1 .. 6) : r[1] >= r[2]}
Few == {<<1, 1>>, <<3, 3>>, <<2, 1>>, <<1, 2>>, <<6, 5>>}

Put(own, opp) == [s \in Side |-> [i \in Point |->
                    LET men == IF s = 1 THEN own ELSE opp
                    IN  IF i \in DOMAIN men THEN men[i] ELSE 0]]
On(i, n) == [p \in {i} |-> n]
With(f, g) == [p \in DOMAIN f \cup DOMAIN g |-> IF p \in DOMAIN f THEN f[p] ELSE g[p]]
Each(points, n) == [p \in points |-> n]

From(variation, board, n, R) == [bgv |-> variation, anBoard |-> board, turns |-> n, rolls |-> R]
Game(board, n, R) == From("STANDARD", board, n, R)

(* The last men, borne off by exact and by larger numbers, from the bar on.  *)
BearingOff == Put(With(Each({0, 2, 3, 5}, 2), On(4, 1)), Each({0, 1, 5}, 2))
LastMan == Put(With(On(8, 1), Each({1, 3}, 1)), On(2, 1))
(* Both sides have men on the bar and blots in their home.                   *)
BothOnBar == Put(With(On(24, 2), Each({5, 3, 1}, 1)), With(On(24, 1), Each({5, 4, 2}, 1)))
(* A man on the bar against a closed home.                                   *)
ClosedOut == Put(With(On(24, 1), Each({4, 5}, 2)), Each(0 .. 5, 2))
(* A wall before the man, so that often only one die can be played.          *)
Walled == Put(With(On(20, 1), On(11, 2)), With(Each({5, 7, 8, 9}, 2), On(14, 2)))
(* Blots in a row, to be hit on the way.                                     *)
Picks == Put(With(On(12, 3), On(4, 1)), With(Each(12 .. 18, 1), Each({20, 21}, 2)))

MCStarts == {From("HYPERGAMMON_1", InitBoard("HYPERGAMMON_1"), -1, Every),
             From("HYPERGAMMON_2", InitBoard("HYPERGAMMON_2"), 2, Every),
             From("HYPERGAMMON_3", InitBoard("HYPERGAMMON_3"), 1, Every),
             Game(InitBoard("STANDARD"), 1, Every),
             From("NACKGAMMON", InitBoard("NACKGAMMON"), 1, Few),
             Game(BearingOff, 2, Few), Game(LastMan, 2, Every), Game(BothOnBar, 2, Few),
             Game(ClosedOut, 2, Every), Game(Walled, 1, Every), Game(Picks, 1, Every)}
=============================================================================
