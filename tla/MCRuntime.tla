------------------------------ MODULE MCRuntime ------------------------------
(***************************************************************************)
(* What starts, stops and reloads at run time: the Lua runtime and the     *)
(* adapters.  As modelled they share no state and are checked for safety   *)
(* in one run: the initial state says which of them runs, the other stays  *)
(* as it starts.  (Their states are added up, not multiplied.)             *)
(***************************************************************************)
EXTENDS LuaRuntime, MCAdapterLifecycle

CONSTANTS rule1, rule2, key1, key2, c1, c2

VARIABLE mode
runtimeVars == <<mode, luaVars, adapterVars>>

(* Two rules with a lock in common, one of them with a second.  Either two *)
(* messages may queue, or one may, and a callback that finds the runtime   *)
(* busy is armed again.                                                    *)
MCNeeds == rule1 :> {key1} @@ rule2 :> {key1, key2}
LuaBusy == INSTANCE LuaRuntime WITH MaxQueue <- 1, MaxArmed <- 1

(* Two threads, or two places for coroutines, may be exchanged.            *)
Swaps == Permutations({p1, p2}) \cup Permutations({c1, c2})

-----------------------------------------------------------------------------
RuntimeInit ==
    /\ mode \in {"queue", "busy", "adapters"}
    /\ LuaInit /\ AdaptersInit /\ (mode # "adapters" => rows[i1] = "on")

QueueRuns == mode = "queue" /\ LuaNext /\ UNCHANGED <<mode, adapterVars>>
BusyRuns == mode = "busy" /\ LuaBusy!LuaNext /\ UNCHANGED <<mode, adapterVars>>
AdaptersRun == mode = "adapters" /\ AdaptersNext /\ UNCHANGED <<mode, luaVars>>

RuntimeNext == QueueRuns \/ BusyRuns \/ AdaptersRun
RuntimeSpec == RuntimeInit /\ [][RuntimeNext]_runtimeVars

-----------------------------------------------------------------------------
(* The variables of both keep their types (LuaBusy allows more callbacks   *)
(* at once; the other properties of LuaRuntime do not depend on what       *)
(* differs between its two instances).                                     *)
RuntimeTypeOK ==
    /\ mode # "busy" => LuaTypeOK
    /\ mode = "busy" => LuaBusy!LuaTypeOK
    /\ AdaptersTypeOK
=============================================================================
