-------------------------------- MODULE Match --------------------------------
(* A match in progress: play.c.  The match is a list of games, a game a list *)
(* of move records whose first is its MOVE_GAMEINFO, and the match state ms  *)
(* is kept up to date record by record; "previous" and "next" move the       *)
(* cursor plLastMove and compute ms anew.                                    *)
(*                                                                           *)
(* The board is abstracted to how many men each side has left: anBoard[1] is *)
(* the side on roll (fMove), anBoard[0] the other, as in the code, so that a *)
(* forgotten SwapSides shows.  Dice are rolled or not.  Both players give    *)
(* commands; a computer player gives the same ones.                          *)
EXTENDS Integers, Sequences, FiniteSets, SequencesExt

CONSTANTS Men,            \* men of each side at the start (15 in the game)
          MatchLengths,   \* the lengths of the matches begun, 0 for a session
          MAX_CUBE, MAXSCORE, nBeavers, cAutoDoubles,
          fAutoGame, fAutoCrawford, fJacoby, fDisplay,   \* settings
          fX,             \* is NextTurn called when idle (GTK), or at once?
          MaxRecords, MaxGames, MaxRolls                  \* bounds of the model

ASSUME MenAssumption == Men \in Nat \ {0}
ASSUME SettingsAssumption == {fAutoGame, fAutoCrawford, fJacoby, fDisplay, fX} \subseteq BOOLEAN
ASSUME CubeAssumption == {MAX_CUBE, MAXSCORE, nBeavers, cAutoDoubles} \subseteq Nat
ASSUME MatchLengthsAssumption == MatchLengths \subseteq Nat
ASSUME BoundsAssumption == MaxRecords \in Nat /\ MaxGames \in Nat /\ MaxRolls \in Nat

Player == {0, 1}
None == -1
Not(p) == IF p = 0 THEN 1 ELSE 0    \* C's !p, for which !(-1) is 0
Maximum(a, b) == IF a > b THEN a ELSE b
Minimum(a, b) == IF a < b THEN a ELSE b
Flag(b) == IF b THEN 1 ELSE 0
TwoTo[n \in Nat] == IF n = 0 THEN 1 ELSE 2 * TwoTo[n - 1]    \* C's 1 << n
(* MAX_CUBE is 1 << 12 and MAXSCORE is 64 (backgammon.h, matchequity.h).     *)
ASSUME CubePowerAssumption == MAXSCORE <= MAX_CUBE /\ \E n \in 0..MAX_CUBE : MAX_CUBE = TwoTo[n]

VARIABLES
  ms,              \* the matchstate
  lMatch,          \* the games
  plGame,          \* which game is current, 0 if there is none
  plLastMove,      \* the last record of it that is in ms, 0 for NULL
  fCrawfordState,  \* what NextTurn leaves for NewGame
  fNextTurn        \* is NextTurn to be called?

vars == <<ms, lMatch, plGame, plLastMove, fCrawfordState, fNextTurn>>

-----------------------------------------------------------------------------
(* Move records.                                                             *)

Info(i, nMatch, anScore, crawford, jacoby) ==
  [mt |-> "GAMEINFO", fPlayer |-> 0, i |-> i, nMatch |-> nMatch, anScore |-> anScore,
   fCrawfordGame |-> crawford, fJacoby |-> jacoby, fWinner |-> None, nPoints |-> 0,
   fResigned |-> FALSE, nAutoDoubles |-> 0]
Rec(mt, p) == [mt |-> mt, fPlayer |-> p]
Normal(p, off) == [mt |-> "NORMAL", fPlayer |-> p, off |-> off]
Resignation(p, n) == [mt |-> "RESIGN", fPlayer |-> p, nResigned |-> n]

Setup == {"SETBOARD", "SETDICE", "SETCUBEVAL", "SETCUBEPOS"}    \* from MOVE_SETBOARD on

StartBoard == [s \in Player |-> Men]
SwapSides(m) == [m EXCEPT !.anBoard = [s \in Player |-> m.anBoard[Not(s)]]]

(* 0 while both sides have men, else 1 for a game and 2 for a gammon: the    *)
(* loser has borne off nothing.                                              *)
GameStatus(board) == IF board[0] > 0 /\ board[1] > 0 THEN 0
                     ELSE IF board[0] = Men \/ board[1] = Men THEN 2 ELSE 1

PlayMove(m, r) ==
  LET turned == IF m.fMove # None /\ r.fPlayer # m.fMove THEN SwapSides(m) ELSE m
      moved == [turned EXCEPT !.anBoard[1] = Maximum(@ - r.off, 0),
                              !.fMove = Not(r.fPlayer), !.fTurn = Not(r.fPlayer)]
  IN  SwapSides(moved)

FixMatchState(m, r) ==
  IF r.mt \in {"NORMAL", "DOUBLE"} /\ m.fTurn # r.fPlayer
    THEN [SwapSides(m) EXCEPT !.fMove = r.fPlayer, !.fTurn = r.fPlayer]
    ELSE m

-----------------------------------------------------------------------------
(* ApplyMoveRecord: what a record does to the match state and to the         *)
(* game-info record of its game.                                             *)

Same(m, info) == [ms |-> m, info |-> info]

(* The ends of ApplyMoveRecord that set pmgi, with ApplyGameOver.            *)
GameOver(m, info, gs, winner, points, resigned) ==
  [ms |-> [m EXCEPT !.gs = gs, !.anScore[winner] = @ + points, !.cGames = @ + 1],
   info |-> [info EXCEPT !.fWinner = winner, !.nPoints = points, !.fResigned = resigned]]

ApplyInfo(m, r) ==
  LET atMatchPoint == r.anScore[0] = r.nMatch - 1 \/ r.anScore[1] = r.nMatch - 1
  IN  [m EXCEPT !.anBoard = StartBoard, !.nMatchTo = r.nMatch, !.anScore = r.anScore,
                !.cGames = r.i, !.gs = "NONE", !.fMove = None, !.fTurn = None,
                !.fCubeOwner = None, !.dice = FALSE, !.cBeavers = 0, !.fDoubled = FALSE,
                !.nCube = TwoTo[r.nAutoDoubles], !.fCrawford = r.fCrawfordGame,
                !.fPostCrawford = ~r.fCrawfordGame /\ atMatchPoint, !.fJacoby = r.fJacoby]

ApplyDouble(m, r) ==
  LET onRoll == IF m.fMove < 0 THEN [m EXCEPT !.fMove = r.fPlayer] ELSE m
  IN  IF m.nCube >= MAX_CUBE THEN onRoll
      ELSE IF m.fDoubled
        THEN [onRoll EXCEPT !.cBeavers = @ + 1, !.nCube = 2 * @, !.fCubeOwner = Not(onRoll.fMove),
                            !.fTurn = Not(r.fPlayer)]
        ELSE [onRoll EXCEPT !.fDoubled = TRUE, !.fTurn = Not(r.fPlayer)]

ApplyTake(m) ==
  IF ~m.fDoubled THEN m
  ELSE [m EXCEPT !.nCube = 2 * @, !.cBeavers = 0, !.fDoubled = FALSE,
                 !.fCubeOwner = Not(m.fMove), !.fTurn = m.fMove]

ApplyNormal(m, info, r) ==
  LET played == [PlayMove([m EXCEPT !.fDoubled = FALSE], r) EXCEPT !.dice = FALSE]
      status == GameStatus(played.anBoard)
      n == IF m.fJacoby /\ m.fCubeOwner = None /\ m.nMatchTo = 0 THEN 1 ELSE status
  IN  IF status = 0 THEN Same(played, info)
      ELSE GameOver(played, info, "OVER", r.fPlayer, m.nCube * n, FALSE)

(* Mutant: the sides are not exchanged for a roll of the other player.       *)
ApplySetDiceAsIs(m, r) == [m EXCEPT !.dice = TRUE, !.fTurn = r.fPlayer, !.fMove = r.fPlayer,
                                    !.fDoubled = FALSE]

ApplySetDice(m, r) ==
  LET turned == IF m.fMove # r.fPlayer THEN SwapSides(m) ELSE m
  IN  [turned EXCEPT !.dice = TRUE, !.fTurn = r.fPlayer, !.fMove = r.fPlayer,
                     !.fDoubled = FALSE]

(* A board is recorded as player 0 sees it.                                  *)
ApplySetBoard(m, r) ==
  LET set == [m EXCEPT !.anBoard = r.board, !.fMove = Maximum(@, 0),
                       !.fTurn = IF m.fMove < 0 THEN 0 ELSE @]
  IN  IF set.fMove = 1 THEN SwapSides(set) ELSE set

(* A cube that is set cancels a double.                                      *)
CubeSet(m) == [m EXCEPT !.fMove = Maximum(@, 0), !.fTurn = Maximum(m.fMove, 0), !.fDoubled = FALSE]

ApplyMoveRecord(before, info, r) ==
  LET m == [before EXCEPT !.gs = "PLAYING", !.fResigned = 0, !.fResignationDeclined = 0]
  IN  CASE r.mt = "GAMEINFO" -> Same(ApplyInfo(m, r), r)
        [] r.mt = "DOUBLE" -> Same(ApplyDouble(m, r), info)
        [] r.mt = "TAKE" -> Same(ApplyTake(m), info)
        [] r.mt = "DROP" -> IF ~m.fDoubled THEN Same(m, info)
                            ELSE GameOver([m EXCEPT !.fDoubled = FALSE, !.cBeavers = 0],
                                          info, "DROP", Not(r.fPlayer), m.nCube, FALSE)
        [] r.mt = "NORMAL" -> ApplyNormal(m, info, r)
        [] r.mt = "RESIGN" -> GameOver([m EXCEPT !.fResigned = r.nResigned], info, "RESIGNED",
                                       Not(r.fPlayer), m.nCube * r.nResigned, TRUE)
        [] r.mt = "SETDICE" -> Same(ApplySetDice(m, r), info)
        [] r.mt = "SETBOARD" -> Same(ApplySetBoard(m, r), info)
        [] r.mt = "SETCUBEVAL" -> Same([CubeSet(m) EXCEPT !.nCube = r.nCube], info)
        [] r.mt = "SETCUBEPOS" -> Same([CubeSet(m) EXCEPT !.fCubeOwner = r.fCubeOwner], info)

(* CalculateBoard: apply the records of the game up to the k-th, looking     *)
(* ahead to the next one after each.                                         *)
ReplayStep(game, s, k) ==
  LET a == ApplyMoveRecord(s.ms, s.info, game[k])
  IN  IF k < Len(game) THEN [a EXCEPT !.ms = FixMatchState(@, game[k + 1])] ELSE a
CalculateBoard(m, game, k) ==
  FoldLeft(LAMBDA s, j : ReplayStep(game, s, j), Same(m, game[1]), [j \in 1..k |-> j])

-----------------------------------------------------------------------------
(* The match as the commands change it: ms and the record lists together.    *)

Match == [ms |-> ms, games |-> lMatch, cur |-> plGame, last |-> plLastMove]
Become(s) == ms' = s.ms /\ lMatch' = s.games /\ plGame' = s.cur /\ plLastMove' = s.last

(* AddMoveRecord: later games and records go, the roll that a move completes *)
(* and a set-up record that this one replaces go, then r is applied.         *)
AddMoveRecord(s, r) ==
  LET game == SubSeq(s.games[s.cur], 1, s.last)
      old == game[s.last]
      elided == \/ r.mt = "NORMAL" /\ old.mt = "SETDICE" /\ old.fPlayer = r.fPlayer
                \/ r.mt \in Setup /\ old.mt = r.mt /\ old.fPlayer = r.fPlayer
      kept == IF elided THEN Front(game) ELSE game
      a == ApplyMoveRecord(FixMatchState(s.ms, r), kept[1], r)
  IN  [ms |-> a.ms, cur |-> s.cur, last |-> Len(kept) + 1,
       games |-> Append(SubSeq(s.games, 1, s.cur - 1),
                        Append([kept EXCEPT ![1] = a.info], r))]

(* NewGame: the Crawford flags, the game-info record, the opening rolls.     *)
(* Equal dice double the cube of a session, `rolls' times if the limit       *)
(* allows; the shift of ms.nCube is an argument of the message that is       *)
(* printed only under fDisplay.  p wins the opening roll, or is None if the  *)
(* dice cannot be had or the user interrupts: then the new game is taken     *)
(* back, and it is the first game of the list that is gone back to.  state   *)
(* is fCrawfordState.                                                        *)
Crawford(m, state) ==
  LET top == Maximum(m.anScore[0], m.anScore[1])
      post == m.fPostCrawford \/ (m.fCrawford /\ top < m.nMatchTo)
      crawford == /\ ~post /\ ~m.fCrawford /\ top = m.nMatchTo - 1
                  /\ Minimum(m.anScore[0], m.anScore[1]) < m.nMatchTo - 1
  IN  IF state >= 0
        THEN [m EXCEPT !.fCrawford = state % 2 = 1, !.fPostCrawford = state \div 2 = 1]
      ELSE IF m.nMatchTo > 0 /\ fAutoCrawford
        THEN [m EXCEPT !.fPostCrawford = post, !.fCrawford = crawford]
      ELSE m

(* Mutant: one automatic double more than the limit.                         *)
AutoDoublesMore(m, rolls) ==
  IF m.nMatchTo > 0 THEN 0
  ELSE Cardinality({k \in 0..(rolls - 1) : TwoTo[k] <= TwoTo[cAutoDoubles] /\ TwoTo[k] < MAX_CUBE})

AutoDoubles(m, rolls) ==
  LET cube(k) == IF fDisplay THEN TwoTo[k] ELSE 1
  IN  IF m.nMatchTo > 0 THEN 0
      ELSE Cardinality({k \in 0..(rolls - 1) : cube(k) < TwoTo[cAutoDoubles] /\ cube(k) < MAX_CUBE})

(* The game-info record notes the automatic doubles.                         *)
Noted(info, doubles) == [info EXCEPT !.nAutoDoubles = doubles]

NewGame(s, state, p, rolls) ==
  LET m == Crawford(s.ms, state)
      info == Info(m.cGames, m.nMatchTo, m.anScore, m.fCrawford, m.fJacoby /\ m.nMatchTo = 0)
      begun == ApplyMoveRecord(m, info, info)
      doubles == AutoDoubles(m, rolls)
      rolled == [ms |-> [begun.ms EXCEPT !.nCube = IF fDisplay THEN TwoTo[doubles] ELSE @],
                 games |-> Append(s.games, <<Noted(info, doubles)>>),
                 cur |-> Len(s.games) + 1, last |-> 1]
  IN  IF p # None THEN AddMoveRecord(rolled, Rec("SETDICE", p))
      ELSE IF s.games = <<>> THEN [ms |-> begun.ms, games |-> <<>>, cur |-> 0, last |-> 0]
      ELSE [ms |-> CalculateBoard(begun.ms, s.games[1], 1).ms, games |-> s.games, cur |-> 1, last |-> 1]

Init ==
  /\ ms = [anBoard |-> StartBoard, nMatchTo |-> 0, anScore |-> [p \in Player |-> 0], cGames |-> 0, gs |-> "NONE",
           fMove |-> None, fTurn |-> None, fCubeOwner |-> None, nCube |-> 1, dice |-> FALSE,
           fDoubled |-> FALSE, cBeavers |-> 0, fResigned |-> 0, fResignationDeclined |-> 0,
           fCrawford |-> FALSE, fPostCrawford |-> FALSE, fJacoby |-> fJacoby]
  /\ lMatch = <<>> /\ plGame = 0 /\ plLastMove = 0
  /\ fCrawfordState = -1 /\ fNextTurn = FALSE

-----------------------------------------------------------------------------
(* Commands.  TurnDone asks for NextTurn, which the terminal's loop calls    *)
(* before it reads another command and GTK when it is idle.                  *)

(* Mutant: a command is read while NextTurn is due.                          *)
AlwaysReady == TRUE
Ready == fX \/ ~fNextTurn
Playing == Ready /\ ms.gs = "PLAYING"
Room == plLastMove < MaxRecords

AtLastMove ==      \* move_is_last_in_match
  plLastMove = IF plGame = 0 THEN 0 ELSE Len(lMatch[plGame])

(* ClearMatch, CommandNewMatch or CommandNewSession, and the new game.       *)
CommandNewMatch(n, p, rolls) ==
  /\ Ready
  /\ LET m == [ms EXCEPT !.nMatchTo = n, !.cGames = 0, !.anScore = [q \in Player |-> 0],
                         !.fMove = None, !.fTurn = None, !.fCrawford = FALSE,
                         !.fPostCrawford = FALSE, !.gs = "NONE", !.fJacoby = fJacoby]
     IN  Become(NewGame([ms |-> m, games |-> <<>>, cur |-> 0, last |-> 0], -1, p, rolls))
  /\ fCrawfordState' = -1
  /\ UNCHANGED fNextTurn

(* Mutant: the game in progress is not discarded.                            *)
NewGameKeeping(p, rolls) ==
  /\ Ready
  /\ ms.nMatchTo > 0 => \A q \in Player : ms.anScore[q] < ms.nMatchTo
  /\ Len(lMatch) < MaxGames
  /\ Become(NewGame(Match, fCrawfordState, p, rolls))
  /\ UNCHANGED <<fCrawfordState, fNextTurn>>

(* If the only game is discarded and the dice then fail, plLastMove is a     *)
(* freed record; that is left out.                                           *)
CommandNewGame(p, rolls) ==
  /\ Ready
  /\ ms.nMatchTo > 0 => \A q \in Player : ms.anScore[q] < ms.nMatchTo
  /\ LET games == IF ms.gs = "PLAYING" \/ ~AtLastMove
                    THEN SubSeq(lMatch, 1, plGame - 1) ELSE lMatch
     IN  /\ Len(games) < MaxGames
         /\ p = None => games # <<>> \/ plGame = 0
         /\ Become(NewGame([Match EXCEPT !.games = games], fCrawfordState, p, rolls))
  /\ UNCHANGED <<fCrawfordState, fNextTurn>>

(* The dice are rolled; the move is played at once if there is no choice     *)
(* (moved is what it bears off), and is left to the player otherwise.        *)
RollDice == AddMoveRecord(Match, Rec("SETDICE", ms.fTurn))
CanRoll == Playing /\ Room /\ ~ms.fDoubled /\ ms.fResigned = 0 /\ ~ms.dice

CommandRoll == CanRoll /\ Become(RollDice) /\ UNCHANGED <<fCrawfordState, fNextTurn>>

CommandRollAndMove(moved) ==
  /\ CanRoll
  /\ Become(AddMoveRecord(RollDice, Normal(RollDice.ms.fTurn, moved)))
  /\ fNextTurn' = TRUE /\ UNCHANGED fCrawfordState

(* The commands that end in AddMoveRecord and TurnDone.                      *)
Act(s, r) == Become(AddMoveRecord(s, r)) /\ fNextTurn' = TRUE /\ UNCHANGED fCrawfordState

CommandMove(moved) ==
  /\ Playing /\ Room /\ ms.dice /\ ms.fResigned = 0 /\ ~ms.fDoubled
  /\ Act(Match, Normal(ms.fTurn, moved))

(* Mutant: no test of the Crawford game.                                     *)
DoubleInCrawford ==
  /\ Playing /\ Room
  /\ ~ms.fDoubled /\ ms.fTurn = ms.fMove /\ ~ms.dice
  /\ ~(ms.fCubeOwner >= 0 /\ ms.fCubeOwner # ms.fTurn)
  /\ ms.nCube < (IF ms.nMatchTo > 0 THEN MAXSCORE ELSE MAX_CUBE)
  /\ ms.nMatchTo > 0 => ms.nCube < ms.nMatchTo - ms.anScore[ms.fTurn]
  /\ Act(Match, Rec("DOUBLE", ms.fTurn))

CommandDouble ==
  /\ Playing /\ Room /\ ~ms.fCrawford
  /\ ~ms.fDoubled /\ ms.fTurn = ms.fMove /\ ~ms.dice
  /\ ~(ms.fCubeOwner >= 0 /\ ms.fCubeOwner # ms.fTurn)
  /\ ms.nCube < (IF ms.nMatchTo > 0 THEN MAXSCORE ELSE MAX_CUBE)
  /\ ms.nMatchTo > 0 => ms.nCube < ms.nMatchTo - ms.anScore[ms.fTurn]
  /\ Act(Match, Rec("DOUBLE", ms.fTurn))

(* Mutant: recorded for the player on roll.                                  *)
RedoubleByMover ==
  /\ Playing /\ Room /\ ms.nMatchTo = 0 /\ ms.cBeavers < nBeavers /\ ms.fDoubled
  /\ ms.nCube < MAX_CUBE \div 2
  /\ Act([Match EXCEPT !.ms.fCubeOwner = Not(ms.fMove)], Rec("DOUBLE", ms.fMove))

CommandRedouble ==
  /\ Playing /\ Room /\ ms.nMatchTo = 0 /\ ms.cBeavers < nBeavers /\ ms.fDoubled
  /\ ms.nCube < MAX_CUBE \div 2
  /\ Act([Match EXCEPT !.ms.fCubeOwner = Not(ms.fMove)], Rec("DOUBLE", ms.fTurn))

(* LinkToDouble: the last record is the double that is answered.             *)
AfterDouble == lMatch[plGame][plLastMove].mt = "DOUBLE"
CommandTake == Playing /\ Room /\ ms.fDoubled /\ AfterDouble /\ Act(Match, Rec("TAKE", ms.fTurn))
CommandDrop == Playing /\ Room /\ ms.fDoubled /\ AfterDouble /\ Act(Match, Rec("DROP", ms.fTurn))

(* An offer to resign k games; an offer already declined is refused and      *)
(* leaves no resignation at all, like a word that is not understood (k = 0). *)
CommandResign(k) ==
  /\ Playing
  /\ IF k = 0 \/ k <= ms.fResignationDeclined
       THEN ms' = [ms EXCEPT !.fResigned = 0] /\ UNCHANGED fNextTurn
       ELSE ms' = [ms EXCEPT !.fResigned = k, !.fTurn = Not(@)] /\ fNextTurn' = TRUE
  /\ UNCHANGED <<lMatch, plGame, plLastMove, fCrawfordState>>

CommandAgree ==
  /\ Playing /\ Room /\ ms.fResigned # 0
  /\ Act(Match, Resignation(Not(ms.fTurn), ms.fResigned))

CommandDecline ==
  /\ Playing /\ ms.fResigned # 0
  /\ ms' = [ms EXCEPT !.fResignationDeclined = ms.fResigned, !.fResigned = 0, !.fTurn = Not(@)]
  /\ fNextTurn' = TRUE
  /\ UNCHANGED <<lMatch, plGame, plLastMove, fCrawfordState>>

-----------------------------------------------------------------------------
(* NextTurn.                                                                 *)

GameEnded == GameStatus(ms.anBoard) # 0 \/ ms.gs \in {"DROP", "RESIGNED"}
Winner == lMatch[plGame][1].fWinner

(* GTK lowers the flag of a resignation, then the Crawford flags of the game *)
(* to come are set, and a copy is left for NewGame.                          *)
EndOfGame ==
  LET shown == IF fX /\ fDisplay THEN [ms EXCEPT !.fResigned = 0] ELSE ms
      post == ms.fPostCrawford \/ (ms.fCrawford /\ ms.anScore[Winner] < ms.nMatchTo)
      crawford == /\ ~post /\ ~ms.fCrawford /\ ms.anScore[Winner] = ms.nMatchTo - 1
                  /\ ms.anScore[Not(Winner)] # ms.nMatchTo - 1
  IN  IF ms.nMatchTo > 0 /\ fAutoCrawford
        THEN [shown EXCEPT !.fPostCrawford = post, !.fCrawford = crawford] ELSE shown
Flags(m) == Flag(m.fCrawford) + 2 * Flag(m.fPostCrawford)

NextTurnPlaying ==
  /\ fNextTurn /\ plGame # 0 /\ ~GameEnded
  /\ fNextTurn' = FALSE
  /\ UNCHANGED <<ms, lMatch, plGame, plLastMove, fCrawfordState>>

MatchOver == ms.nMatchTo > 0 /\ ms.anScore[Winner] >= ms.nMatchTo

NextTurnGameOver ==
  /\ fNextTurn /\ plGame # 0 /\ GameEnded /\ Winner # None
  /\ MatchOver \/ ~fAutoGame
  /\ ms' = EndOfGame /\ fCrawfordState' = Flags(EndOfGame)
  /\ fNextTurn' = FALSE
  /\ UNCHANGED <<lMatch, plGame, plLastMove>>

NextTurnNewGame(p, rolls) ==
  /\ fNextTurn /\ plGame # 0 /\ GameEnded /\ Winner # None
  /\ ~MatchOver /\ fAutoGame
  /\ Len(lMatch) < MaxGames
  /\ fCrawfordState' = Flags(EndOfGame)
  /\ Become(NewGame([Match EXCEPT !.ms = EndOfGame], fCrawfordState', p, rolls))
  /\ fNextTurn' = FALSE

-----------------------------------------------------------------------------
(* Moving through the match.                                                 *)

HasNext == plGame # 0 /\ plLastMove < Len(lMatch[plGame])

(* Mutant: the result of a game is forgotten when it is gone through.        *)
GoToAfresh(g, k) ==
  LET a == CalculateBoard(ms, lMatch[g], k)
  IN  [ms |-> a.ms, cur |-> g, last |-> k,
       games |-> [lMatch EXCEPT ![g][1] = [a.info EXCEPT !.fWinner = None]]]

(* CalculateBoard with the cursor at the k-th record of game g.              *)
GoTo(g, k) == LET a == CalculateBoard(ms, lMatch[g], k)
              IN  [ms |-> a.ms, games |-> [lMatch EXCEPT ![g][1] = a.info], cur |-> g, last |-> k]
Steer(s) == Become(s) /\ UNCHANGED <<fCrawfordState, fNextTurn>>

Forward(s) ==
  LET game == s.games[s.cur]
      k == s.last + 1
      a == ReplayStep(game, Same(FixMatchState(s.ms, game[k]), game[1]), k)
  IN  [s EXCEPT !.ms = a.ms, !.games[s.cur][1] = a.info, !.last = k]
CommandNext == Ready /\ HasNext /\ Steer(Forward(Match))

Back == GoTo(plGame, IF plLastMove > 1 THEN plLastMove - 1 ELSE 1)
CommandPrevious == Ready /\ plGame # 0 /\ Steer(Back)

(* "next roll" shows the dice of the move to come, "previous roll" takes     *)
(* them back.                                                                *)
(* Mutant: the roll is shown on the board after the move.                    *)
NextRollAfter(s) ==
  LET r == s.games[s.cur][s.last + 1]
      a == CalculateBoard(s.ms, s.games[s.cur], s.last + 1)
      shown == [a.ms EXCEPT !.gs = "PLAYING", !.fMove = r.fPlayer, !.fTurn = r.fPlayer,
                            !.dice = TRUE]
  IN  IF r.mt # "NORMAL" \/ s.ms.dice THEN Forward(s)
      ELSE [s EXCEPT !.ms = shown, !.games[s.cur][1] = a.info]

NextRoll(s) ==
  LET r == s.games[s.cur][s.last + 1]
      a == CalculateBoard(s.ms, s.games[s.cur], s.last)
      shown == [a.ms EXCEPT !.gs = "PLAYING", !.fMove = r.fPlayer, !.fTurn = r.fPlayer,
                            !.dice = TRUE]
  IN  IF r.mt # "NORMAL" \/ s.ms.dice THEN Forward(s)
      ELSE [s EXCEPT !.ms = shown, !.games[s.cur][1] = a.info]

CommandNextRoll == Ready /\ HasNext /\ Steer(NextRoll(Match))

CommandPreviousRoll ==
  /\ Ready /\ plGame # 0
  /\ Steer(IF ms.dice THEN [GoTo(plGame, plLastMove) EXCEPT !.ms.dice = FALSE]
           ELSE IF plLastMove > 1 /\ lMatch[plGame][plLastMove].mt = "NORMAL" THEN NextRoll(Back)
           ELSE Back)

(* ChangeGame: the first record of the other game, with the player of the    *)
(* second put on roll by SetTurn, which also forgets the terminal's NextTurn. *)
SetTurn(m, p) ==
  [(IF m.fTurn # p THEN SwapSides(m) ELSE m)
     EXCEPT !.fTurn = p, !.fMove = p, !.fDoubled = FALSE, !.dice = FALSE]

ChangeGame(g) ==
  LET s == GoTo(g, 1)
      p == lMatch[g][2].fPlayer
  IN  IF s.ms.fTurn # p
        THEN /\ Become([s EXCEPT !.ms = SetTurn(s.ms, p)])
             /\ fNextTurn' = (fX /\ fNextTurn)
             /\ UNCHANGED fCrawfordState
        ELSE Steer(s)

CommandNextGame == Ready /\ plGame \in 1..(Len(lMatch) - 1) /\ ChangeGame(plGame + 1)
CommandPreviousGame == Ready /\ plGame > 1 /\ ChangeGame(plGame - 1)
CommandFirstMove == Ready /\ plGame # 0 /\ ChangeGame(plGame)

-----------------------------------------------------------------------------
(* Who wins the opening roll after how many equal dice, if they can be had.  *)
Opening == (Player \X (0..MaxRolls)) \cup {<<None, 0>>}

NextTurn == \/ NextTurnPlaying \/ NextTurnGameOver
            \/ \E o \in Opening : NextTurnNewGame(o[1], o[2])

Begin == \E o \in Opening : \/ \E n \in MatchLengths : CommandNewMatch(n, o[1], o[2])
                             \/ CommandNewGame(o[1], o[2])

TakeTurn == \/ CommandRoll \/ CommandDouble
            \/ \E moved \in 0..1 : CommandRollAndMove(moved) \/ CommandMove(moved)

AnswerDouble == CommandRedouble \/ CommandTake \/ CommandDrop
AnswerResignation == CommandAgree \/ CommandDecline

Navigate == \/ CommandNext \/ CommandPrevious \/ CommandNextRoll \/ CommandPreviousRoll
            \/ CommandNextGame \/ CommandPreviousGame \/ CommandFirstMove

OfferResignation == \E k \in 0..3 : CommandResign(k)

Next == \/ NextTurn \/ Begin \/ TakeTurn \/ AnswerDouble
        \/ OfferResignation \/ AnswerResignation \/ Navigate

Spec == Init /\ [][Next]_vars

-----------------------------------------------------------------------------
(* The position that play has led to is the one that its records lead to     *)
(* when "previous" and "next", or a file that is loaded, apply them again:   *)
(* board, cube, turn and score.  (Once a resignation has ended the game it   *)
(* does not matter who was on roll.)                                         *)
Turn(m) == IF m.gs = "RESIGNED" THEN <<>> ELSE <<m.anBoard, m.fMove, m.fTurn>>
Position(m) == <<m.gs, Turn(m), m.fCubeOwner, m.nCube, m.fDoubled, m.cBeavers,
                 m.anScore, m.cGames, m.nMatchTo, m.fJacoby>>
LiveIsReplay ==
  plLastMove > 1 /\ (ms.gs = "PLAYING" => ms.fResigned = 0) =>
    Position(ms) = Position(CalculateBoard(ms, lMatch[plGame], plLastMove).ms)

(* "who won (-1 = unfinished)", "how many points were scored": the result in *)
(* the game-info record, which is what is shown, saved and added to the      *)
(* score, is the one that the game's records give.                           *)
ResultIsReplayed ==
  \A g \in DOMAIN lMatch :
    LET info == lMatch[g][1]
        blank == [lMatch[g] EXCEPT ![1].fWinner = None, ![1].nPoints = 0, ![1].fResigned = FALSE]
    IN  CalculateBoard(ms, blank, Len(blank)).info = info

(* "match score BEFORE the game", "ordinal number of the game": the games of *)
(* the list follow on, each from the score that the one before it ended at.  *)
MatchChain ==
  \A g \in DOMAIN lMatch :
    /\ lMatch[g][1].i = g - 1
    /\ g > 1 => LET before == lMatch[g - 1][1]
                IN  /\ before.fWinner # None
                    /\ lMatch[g][1].anScore =
                         [before.anScore EXCEPT ![before.fWinner] = @ + before.nPoints]

(* The Crawford game is the game after the one in which a player has come to *)
(* one point short of the match, that game only, and there is no double in   *)
(* it.                                                                       *)
OnePointShort(info) == \E p \in Player : info.anScore[p] = info.nMatch - 1
CrawfordRule ==
  \A g \in DOMAIN lMatch :
    LET info == lMatch[g][1]
    IN  /\ info.fCrawfordGame <=>
             /\ info.nMatch > 1 /\ OnePointShort(info)
             /\ \A h \in 1..(g - 1) : ~OnePointShort(lMatch[h][1])
        /\ info.fCrawfordGame => \A k \in DOMAIN lMatch[g] : lMatch[g][k].mt # "DOUBLE"

(* The assertion of NextTurn after the test of the end of the game, and what *)
(* it takes for granted before it when it uses pmgi->fWinner as an index.    *)
NextTurnAssert == fNextTurn /\ plGame # 0 => IF GameEnded THEN Winner # None
                                              ELSE ms.gs = "PLAYING"

(* fTurn, "whose turn it is", follows from fMove: a double hands the turn to *)
(* the other player, a beaver back again, and "the player offering the       *)
(* resignation is the inverse".                                              *)
WhoseTurn ==
  ms.gs = "PLAYING" =>
    LET handed == Flag(ms.fDoubled) + ms.cBeavers + Flag(ms.fResigned # 0)
    IN  ms.fTurn = IF handed % 2 = 0 THEN ms.fMove ELSE Not(ms.fMove)

(* Automatic doubles are "used (up to a limit of cAutoDoubles)", and each of *)
(* them doubles the stakes: until a player doubles, or sets the cube, it is  *)
(* at 2 to the number of them.  No mixture of automatic doubles, doubles and *)
(* beavers takes it beyond MAX_CUBE, although each has a test of its own.    *)
CubeLimits ==
  plGame # 0 =>
    LET n == lMatch[plGame][1].nAutoDoubles
    IN  /\ n <= cAutoDoubles /\ ms.nCube <= MAX_CUBE
        /\ (\A k \in 1..plLastMove : lMatch[plGame][k].mt \notin {"DOUBLE", "SETCUBEVAL"})
             => ms.nCube = TwoTo[n]
=============================================================================
