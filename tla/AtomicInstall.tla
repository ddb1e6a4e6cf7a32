---------------------------- MODULE AtomicInstall ----------------------------
(***************************************************************************)
(* What a program update promises: the installed files change only by the  *)
(* installation of one whole package, in one step, and every package gets  *)
(* at most one verdict, which is final.                                    *)
(***************************************************************************)
EXTENDS Integers

CONSTANTS Path, Package, Absent

VARIABLES
  installed,  \* content of every program path
  offer,      \* content of the package offered for installation, if any
  verdict     \* what was decided about each package
avars == <<installed, offer, verdict>>

None == [p \in Path |-> Absent]

Init == /\ installed \in [Path -> {0, Absent}]
        /\ offer = None
        /\ verdict = [k \in Package |-> "none"]

(* A new package replaces the one on offer.                                *)
Offer(k) ==
  /\ verdict[k] = "none"
  /\ offer' \in [Path -> {k, Absent}] /\ offer' # None
  /\ UNCHANGED <<installed, verdict>>

Decide(k, v) ==
  /\ \E p \in Path : offer[p] = k
  /\ verdict[k] = "none" /\ verdict' = [verdict EXCEPT ![k] = v]
  /\ offer' = None

Install(k) ==
  /\ Decide(k, "installed")
  /\ installed' = [p \in Path |-> IF offer[p] # Absent THEN offer[p] ELSE installed[p]]

Refuse(k) ==
  /\ Decide(k, "rejected") \/ Decide(k, "rolledback")
  /\ UNCHANGED installed

Next == \E k \in Package : Offer(k) \/ Install(k) \/ Refuse(k)
Spec == Init /\ [][Next]_avars
=============================================================================
