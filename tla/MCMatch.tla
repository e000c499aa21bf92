------------------------------- MODULE MCMatch -------------------------------
(* Match as two players use it.                                              *)
EXTENDS Match

(* Two players who go back to no earlier position, and answer a resignation  *)
(* by "agree" or "decline" before they do anything else.                     *)
Settled == ms.gs = "PLAYING" => ms.fResigned = 0
Play == \/ NextTurn \/ Begin \/ TakeTurn \/ AnswerResignation
        \/ Settled /\ (AnswerDouble \/ OfferResignation)

(* They also look at earlier positions and play on from there.               *)
Review == Settled /\ Navigate
ReplaySpec == Init /\ [][Play \/ Review]_vars
=============================================================================
