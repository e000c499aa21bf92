------------------------------ MODULE MCAnalysis ------------------------------
(* Two games: a move, and a double that is dropped; a roll that cannot be    *)
(* played by a player who may not double, and a double not answered yet.     *)
EXTENDS Analysis

Rec(mt, player, cube, legal) == [mt |-> mt, fPlayer |-> player, cube |-> cube, legal |-> legal]

MCGames ==
  << <<Rec("NORMAL", 0, TRUE, TRUE), Rec("DOUBLE", 1, TRUE, TRUE), Rec("DROP", 0, TRUE, TRUE)>>,
     <<Rec("NORMAL", 1, FALSE, FALSE), Rec("DOUBLE", 0, TRUE, TRUE)>> >>

(* A game of two moves, for more commands.                                   *)
MCOneGame == << <<Rec("NORMAL", 0, TRUE, TRUE), Rec("NORMAL", 1, FALSE, TRUE)>> >>

Choice(cube, chequer, players, fCube, fMove, autosave) ==
  [cube |-> cube, chequer |-> chequer, afAnalysePlayers |-> players,
   fAnalyseCube |-> fCube, fAnalyseMove |-> fMove, fAutoSave |-> autosave]

MCSettings ==
  {Choice(1, 2, Player, TRUE, TRUE, TRUE), Choice(2, 1, Player, TRUE, TRUE, FALSE),
   Choice(1, 1, {0}, TRUE, FALSE, TRUE), Choice(1, 3, {1}, FALSE, TRUE, FALSE)}

MCLevels == {Choice(1, 1, Player, TRUE, TRUE, FALSE), Choice(2, 2, Player, TRUE, TRUE, TRUE)}
=============================================================================
