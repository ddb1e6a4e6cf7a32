---------------------------- MODULE MCGameSession ----------------------------
(* Two groups, each with an administrator; the second has an old game.     *)
EXTENDS GameSession, TLC
CONSTANTS g1, g2, u1, u2
MCAdmin == g1 :> {u1} @@ g2 :> {u2}
=============================================================================
