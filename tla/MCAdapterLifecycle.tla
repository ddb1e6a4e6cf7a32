------------------------- MODULE MCAdapterLifecycle -------------------------
(* Two adapters, one of which may be enabled when the program starts.      *)
EXTENDS AdapterLifecycle, TLC
CONSTANTS i1, i2, p1, p2
MCStored == {i1 :> "on" @@ i2 :> "off", i1 :> "off" @@ i2 :> "absent"}
=============================================================================
