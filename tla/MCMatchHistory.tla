---------------------------- MODULE MCMatchHistory ----------------------------
(* Match with going back to earlier positions: players who only look at them *)
(* and play on from the last one ("review"), and players who also play on    *)
(* from an earlier one ("replay").                                           *)
EXTENDS MCMatch

CONSTANTS Lengths,      \* bounds of the model, for each way: the length of the match
          RecordsOf     \* and the number of records in each of its games

VARIABLE way
ASSUME LengthsAssumption == Lengths \in [{"review", "replay"} -> MatchLengths]
ASSUME RecordsOfAssumption ==
  \A w \in {"review", "replay"} : RecordsOf[w] \in Seq(1..MaxRecords) /\ Len(RecordsOf[w]) \in 1..MaxGames

AtEnd == plGame = Len(lMatch) /\ AtLastMove
Within == /\ ms'.nMatchTo = Lengths[way]
          /\ Len(lMatch') <= Len(RecordsOf[way])
          /\ \A g \in DOMAIN lMatch' : Len(lMatch'[g]) <= RecordsOf[way][g]

HistoryNext == /\ Review \/ (Play /\ (way = "review" => AtEnd))
               /\ Within /\ UNCHANGED way

HistoryInit == Init /\ way \in {"review", "replay"}

HistorySpec == HistoryInit /\ [][HistoryNext]_<<vars, way>>

(* While nothing is played on from an earlier position ...                   *)
Reviewing == way = "review"

(* ... the result in a game's record is the one that its moves lead to,      *)
Results == Reviewing => ResultIsReplayed

(* each game begins with the score the games before it lead to,              *)
Chain == Reviewing => MatchChain

(* and exactly one game is played without the cube, the first in which a     *)
(* player wants one point.                                                   *)
Crawford1 == Reviewing => CrawfordRule

MCLengths == [w \in {"review", "replay"} |-> IF w = "review" THEN 3 ELSE 2]
MCRecordsOf == [w \in {"review", "replay"} |-> IF w = "review" THEN <<4, 4, 2>> ELSE <<4, 3>>]
=============================================================================
