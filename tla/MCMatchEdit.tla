----------------------------- MODULE MCMatchEdit -----------------------------
(* Play in which the position is edited now and then.  A resignation and a   *)
(* beaver are answered before anything is edited, and while a double is      *)
(* offered nothing is set that may cancel it without a record that stays:    *)
(* the README says what goes wrong otherwise.                                *)
EXTENDS MatchEdit, MCMatch

CONSTANTS MaxEdits,        \* bound of the model: how often the position is edited
          MaxMatchRecords  \* bound of the model: records of a match, which has no beavers
ASSUME MaxEditsAssumption == MaxEdits \in Nat
ASSUME MaxMatchRecordsAssumption == MaxMatchRecords \in 1..MaxRecords

VARIABLES edits,
          recorded   \* history: do the records hold what was set?

OnRollKnown ==
  /\ plLastMove' \notin {0, plLastMove}
  /\ lMatch'[plGame'][plLastMove'].mt \in {"SETDICE", "NORMAL", "DOUBLE"}
PositionKept == Position(ms') = Position(ms) \/ lMatch' # lMatch

Edit ==
  /\ edits < MaxEdits /\ edits' = edits + 1
  /\ Settled /\ ms.cBeavers = 0
  /\ \/ EditRecorded /\ recorded' = (recorded \/ OnRollKnown)
     \/ ~ms.fDoubled /\ CommandSetDice /\ recorded' = (recorded \/ OnRollKnown)
     \/ ~ms.fDoubled /\ EditInPlace /\ recorded' = (recorded /\ PositionKept)
     \/ Load /\ recorded' = ms'.dice
  /\ <<ms, lMatch>>' # <<ms, lMatch>>

PlayOn ==
  /\ \/ NextTurn \/ TakeTurn \/ AnswerResignation
     \/ Settled /\ (AnswerDouble \/ CommandResign(1))
     \/ ms.gs # "PLAYING" /\ Begin
  /\ ms'.nMatchTo > 0 => plLastMove' <= MaxMatchRecords
  /\ recorded' = (recorded \/ OnRollKnown) /\ UNCHANGED edits

EditInit == Init /\ edits = 0 /\ recorded = FALSE

EditSpec == EditInit /\ [][Edit \/ PlayOn]_<<vars, edits, recorded>>

(* Whatever was edited, the position is the one that the records lead to, so *)
(* that "previous" and "next", or saving and loading, do not change it.  A   *)
(* player who was put on roll without a record is known again from the next  *)
(* roll, move or double on.                                                  *)
EditsAreReplayed == recorded => LiveIsReplay
=============================================================================
