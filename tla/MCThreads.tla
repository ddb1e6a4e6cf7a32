------------------------------ MODULE MCThreads ------------------------------
(***************************************************************************)
(* The parts whose threads meet without a common lock: the causal rules,   *)
(* the Gateway connection and the processes of the built-in login.  As     *)
(* modelled they share no state and are checked for safety in one run: the *)
(* initial state says which of them runs, the others stay as they start.   *)
(* (Their states are added up, not multiplied.)                            *)
(***************************************************************************)
EXTENDS CausalRules, GatewaySession, MCBuiltinLogin, TLC

CONSTANTS a1, a2, u1, u2, r1, r2

VARIABLE mode
threadVars == <<mode, causalVars, gatewayVars, loginVars>>

(* Two adapters in the same group, one of which also serves a user alone.  *)
(* The first rule fires once per user and falls through to the second.     *)
MCServes == a1 :> {u1, u2} @@ a2 :> {u2}
Once == [on |-> TRUE, prio |-> 2, cap |-> 1]
Always == [on |-> TRUE, prio |-> 1, cap |-> 0]
MCRow == {Once, Always, [Once EXCEPT !.on = FALSE], [Always EXCEPT !.on = FALSE]}
MCStored == {r1 :> Once @@ r2 :> Always, r1 :> Once @@ r2 :> NoRow}

(* The threads that serve the two settings pages may be exchanged.         *)
Swaps == Permutations({t1, t2})

-----------------------------------------------------------------------------
ThreadsInit ==
    /\ mode \in {"causal", "gateway", "login"}
    /\ CausalInit /\ (mode # "causal" => db[r2] = NoRow)
    /\ GatewayInit /\ (mode # "gateway" => platform = "discord")
    /\ LoginInit

CausalRuns == mode = "causal" /\ CausalNext /\ UNCHANGED <<mode, gatewayVars, loginVars>>
GatewayRuns == mode = "gateway" /\ GatewayNext /\ UNCHANGED <<mode, causalVars, loginVars>>
LoginRuns == mode = "login" /\ LoginNext /\ UNCHANGED <<mode, causalVars, gatewayVars>>

ThreadsNext == CausalRuns \/ GatewayRuns \/ LoginRuns
ThreadsSpec == ThreadsInit /\ [][ThreadsNext]_threadVars

-----------------------------------------------------------------------------
(* The variables of all three keep their types.                            *)
ThreadsTypeOK == CausalTypeOK /\ GatewayTypeOK /\ LoginTypeOK
=============================================================================
