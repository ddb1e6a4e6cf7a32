--------------------------- MODULE MCBuiltinLogin ---------------------------
(* Two callers, one of which forgets the account.                          *)
EXTENDS BuiltinLogin
CONSTANTS t1, t2
=============================================================================
