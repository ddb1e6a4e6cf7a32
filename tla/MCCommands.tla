------------------------------ MODULE MCCommands ------------------------------
(***************************************************************************)
(* What the commands work with: shared games, identities, character cards  *)
(* kept in step with the cloud, and dice expressions.  As modelled they    *)
(* share no state and are checked for safety in one run: the initial state *)
(* says which of them runs, the others stay as they start.  (Their states  *)
(* are added up, not multiplied.)                                          *)
(***************************************************************************)
EXTENDS MCGameSession, IdentityBinding, CloudCards, DiceExpression

CONSTANTS d1, d2, oA, ctx1, ctx2, fld1, fld2

VARIABLE mode
commandVars == <<mode, gameVars, identityVars, cloudVars, diceVars>>

(* Two endpoints with virtual numbers, one with the real number 1.         *)
MCRealNumber == oA :> 1
MCTables == <<"main">>

(* Adapters, or fields of a card, may be exchanged.                        *)
Swaps == Permutations({ctx1, ctx2}) \cup Permutations({fld1, fld2})

(* Up to two operators over zero, one, three, minus three; three operators *)
(* over two and three, which is where brackets can be lost.                *)
Leaf(S) == [kind : {"number"}, value : S]
Pair(T, U) == Operations(T, U) \cup Rolls(T, U)
One == Leaf({0, 1, 3}) \cup Negated(Leaf({3}))
Two == Pair(One, One)
Three == Pair(One, Two) \cup Pair(Two, One)
Digit == Leaf({2, 3})
Digits2 == Pair(Digit, Digit)
Digits4 == Pair(Digit, Pair(Digit, Digits2) \cup Pair(Digits2, Digit)) \cup Pair(Digits2, Digits2)
             \cup Pair(Pair(Digit, Digits2) \cup Pair(Digits2, Digit), Digit)
MCTrees == One \cup Two \cup Three \cup Digits4 \cup Negated(Two) \cup Negated(Three)

-----------------------------------------------------------------------------
CommandsInit ==
    /\ mode \in {"game", "identity", "cloud", "dice"}
    /\ GameInit
    /\ IdentityInit /\ (mode # "identity" => kind = "user")
    /\ CloudInit
    /\ DiceInit
    /\ mode # "dice" => tree = MakeNumber(0) /\ dice = [checked |-> FALSE, faces |-> "low"]

GameRuns == mode = "game" /\ GameNext /\ UNCHANGED <<mode, identityVars, cloudVars, diceVars>>
IdentityRuns ==
    mode = "identity" /\ IdentityNext /\ UNCHANGED <<mode, gameVars, cloudVars, diceVars>>
CloudRuns == mode = "cloud" /\ CloudNext /\ UNCHANGED <<mode, gameVars, identityVars, diceVars>>
DiceRuns == mode = "dice" /\ DiceNext /\ UNCHANGED <<mode, gameVars, identityVars, cloudVars>>

CommandsNext == GameRuns \/ IdentityRuns \/ CloudRuns \/ DiceRuns
CommandsSpec == CommandsInit /\ [][CommandsNext]_commandVars

-----------------------------------------------------------------------------
(* The variables of all four keep their types.                             *)
CommandsTypeOK == GameTypeOK /\ IdentityTypeOK /\ CloudTypeOK /\ DiceTypeOK
=============================================================================
