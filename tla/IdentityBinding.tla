--------------------------- MODULE IdentityBinding ---------------------------
(***************************************************************************)
(* The registry of public numbers (core/identity/identity_binding.h).      *)
(*                                                                         *)
(* A chat platform knows a person by an endpoint; Dice Next knows a person *)
(* by a public number, under which everything about that person is stored. *)
(* An OneBot endpoint has its real QQ number.  A Discord, KOOK or official *)
(* QQ endpoint is given a virtual number when it is first seen, and .bind  *)
(* merges that identity into the one of a real number: its endpoints are   *)
(* moved, then the rows of each table, then the identity is removed.       *)
(*                                                                         *)
(* The registry's mutex makes one operation wait for another, but nothing  *)
(* is a transaction, so an operation can end after any of its writes; and  *)
(* a message handler keeps the number it was given and writes with it      *)
(* later, outside the mutex.  Numbers are abstract: the real ones are      *)
(* below FirstVirtual.  The model has one kind of identity at a time,      *)
(* users or groups, and the tables that merge() rewrites.                  *)
(***************************************************************************)
EXTENDS Naturals, Sequences, FiniteSets

CONSTANTS
    Native,        \* endpoints that are given virtual numbers
    Real,          \* endpoints that have a real number
    RealNumber,    \* RealNumber[e]: the real number of endpoint e \in Real
    RealNumbers,   \* the real numbers people bind to
    FirstVirtual,  \* every real number is below, every virtual one above
    Tables,        \* the tables merge() rewrites, in that order (a sequence)
    MaxIds,        \* bound: identities ever created
    MaxFailures    \* bound: operations that end early

VARIABLES
    kind,          \* "user" or "group"
    ids,           \* identities: id -> [number, virtual]
    lastId,        \* the autoincrement of that table
    link,          \* identity_endpoints: endpoint -> identity, 0 for none
    rows,          \* [table, endpoint] -> the number its data is stored under
    inflight,      \* endpoint -> the number its message's handler works with
    operation,     \* the operation that holds the mutex
    owner,         \* whose endpoint it is, as far as binding has told
    amiss,         \* what has gone wrong so far (see PeopleApart)
    failures

identityVars == <<kind, ids, lastId, link, rows, inflight, operation, owner, amiss, failures>>

Endpoints == Native \cup Real
Numbers == RealNumbers \cup (FirstVirtual + 1)..(FirstVirtual + MaxIds)
TableSet == {Tables[i] : i \in 1..Len(Tables)}
NoNumber == 0
NoOperation == [at |-> "idle"]
Misses == {"late", "halfway", "rebound"}

Existing == DOMAIN ids
Number(e) == IF link[e] \in Existing THEN ids[link[e]].number ELSE NoNumber
Add(i, number, virtual) ==
    [j \in Existing \cup {i} |-> IF j = i THEN [number |-> number, virtual |-> virtual]
                                          ELSE ids[j]]
FindByPublic(number) == {i \in Existing : ids[i].number = number}

\* nextVirtual: one more than the greatest virtual number in use.
NextVirtual ==
    LET used == {ids[i].number : i \in Existing} \cup {FirstVirtual}
        top == CHOOSE n \in used : \A m \in used : m <= n
    IN top + 1

-----------------------------------------------------------------------------
\* A message arrives: ensureEndpoint gives its handler the public number.  A
\* known endpoint needs nothing; a real one may find its identity reserved by
\* a binding; otherwise the identity is created, and in a second write linked.
Observe(e) ==
    /\ operation = NoOperation /\ inflight[e] = NoNumber
    /\ IF link[e] # 0
       THEN /\ inflight' = [inflight EXCEPT ![e] = Number(e)]
            /\ UNCHANGED <<ids, lastId, link, operation>>
       ELSE LET reserved == IF e \in Real THEN FindByPublic(RealNumber[e]) ELSE {} IN
            IF reserved # {}
            THEN /\ operation' = [at |-> "linking", endpoint |-> e, id |-> CHOOSE i \in reserved : TRUE]
                 /\ UNCHANGED <<ids, lastId, link, inflight>>
            ELSE /\ lastId < MaxIds
                 /\ lastId' = lastId + 1
                 /\ ids' = IF e \in Real THEN Add(lastId', RealNumber[e], FALSE)
                                         ELSE Add(lastId', NextVirtual, TRUE)
                 /\ operation' = [at |-> "linking", endpoint |-> e, id |-> lastId']
                 /\ UNCHANGED <<link, inflight>>
    /\ UNCHANGED <<kind, rows, owner, amiss, failures>>

\* ensureEndpoint, the second write.
LinkEndpoint ==
    /\ operation.at = "linking"
    /\ link' = [link EXCEPT ![operation.endpoint] = operation.id]
    /\ inflight' = [inflight EXCEPT ![operation.endpoint] = ids[operation.id].number]
    /\ operation' = NoOperation
    /\ UNCHANGED <<kind, ids, lastId, rows, owner, amiss, failures>>

\* The handler stores something about the sender under the number it was given,
\* which by now may no longer be the sender's.
Store(e, t) ==
    /\ inflight[e] # NoNumber
    /\ rows' = [rows EXCEPT ![<<t, e>>] = inflight[e]]
    /\ amiss' = IF inflight[e] = Number(e) THEN amiss ELSE amiss \cup {"late"}
    /\ UNCHANGED <<kind, ids, lastId, link, inflight, operation, owner, failures>>

Replied(e) ==
    /\ inflight[e] # NoNumber
    /\ inflight' = [inflight EXCEPT ![e] = NoNumber]
    /\ UNCHANGED <<kind, ids, lastId, link, rows, operation, owner, amiss, failures>>

-----------------------------------------------------------------------------
\* bindPlatformToQQ / bindOfficialToQQ: endpoint e is said to belong to the real
\* number n.  `reject' is rejectRebind: a verified binding leaves an endpoint
\* alone that has another real number, .bind in a QQ window does not.
Bind(e, n, reject) ==
    /\ operation = NoOperation
    /\ link[e] # 0
    /\ LET source == link[e]
           other == ~ids[source].virtual /\ ids[source].number # n
           found == FindByPublic(n)
           target == IF found = {} THEN lastId + 1 ELSE CHOOSE i \in found : TRUE IN
       /\ ~(reject /\ other)
       /\ IF found = {}
          THEN target <= MaxIds /\ lastId' = target /\ ids' = Add(target, n, FALSE)
          ELSE UNCHANGED <<ids, lastId>>
       /\ operation' = IF source = target THEN NoOperation
                ELSE [at |-> "merging", source |-> source, target |-> target,
                      todo |-> <<"endpoints">> \o Tables \o <<"identity">>]
       /\ amiss' = IF other THEN amiss \cup {"rebound"} ELSE amiss
    /\ owner' = [owner EXCEPT ![e] = n]
    /\ UNCHANGED <<kind, link, rows, inflight, failures>>

\* merge(): what `todo' says is next.
Merging(what) == operation.at = "merging" /\ Head(operation.todo) = what
Finishes == operation' = IF Tail(operation.todo) = <<>> THEN NoOperation ELSE [operation EXCEPT !.todo = Tail(@)]

\* Mutant: only one endpoint is moved.
MergeEndpointOnce ==
    /\ Merging("endpoints")
    /\ \E e \in Endpoints : link[e] = operation.source /\ link' = [link EXCEPT ![e] = operation.target]
    /\ Finishes
    /\ UNCHANGED <<kind, ids, lastId, rows, inflight, owner, amiss, failures>>

\* The endpoints are moved one by one.
MergeEndpoint ==
    /\ Merging("endpoints")
    /\ LET left == {e \in Endpoints : link[e] = operation.source} IN
       /\ \E e \in left : link' = [link EXCEPT ![e] = operation.target]
       /\ IF Cardinality(left) = 1 THEN Finishes ELSE UNCHANGED operation
    /\ UNCHANGED <<kind, ids, lastId, rows, inflight, owner, amiss, failures>>

\* Mutant: a table is forgotten.
MergeTableForgotten(t) ==
    /\ Merging(t)
    /\ Finishes
    /\ UNCHANGED <<kind, ids, lastId, link, rows, inflight, owner, amiss, failures>>

\* The rows of one table are renumbered.
MergeTable(t) ==
    /\ Merging(t)
    /\ rows' = [x \in DOMAIN rows |->
                  IF x[1] = t /\ rows[x] = ids[operation.source].number
                  THEN ids[operation.target].number ELSE rows[x]]
    /\ Finishes
    /\ UNCHANGED <<kind, ids, lastId, link, inflight, owner, amiss, failures>>

\* The merged identity is removed.
MergeIdentity ==
    /\ Merging("identity")
    /\ ids' = [i \in Existing \ {operation.source} |-> ids[i]]
    /\ Finishes
    /\ UNCHANGED <<kind, lastId, link, rows, inflight, owner, amiss, failures>>

\* A write fails: what the operation has written stays (catch (...) {}).
Fail ==
    /\ failures < MaxFailures /\ operation # NoOperation
    /\ failures' = failures + 1
    /\ operation' = NoOperation
    /\ amiss' = IF operation.at = "merging" THEN amiss \cup {"halfway"} ELSE amiss
    /\ UNCHANGED <<kind, ids, lastId, link, rows, inflight, owner>>

\* The program ends and starts: the handlers are gone, and attach() removes the
\* settings of groups whose virtual number no identity has.
Restart ==
    /\ failures < MaxFailures
    /\ failures' = failures + 1
    /\ operation' = NoOperation
    /\ inflight' = [e \in Endpoints |-> NoNumber]
    /\ amiss' = IF operation.at = "merging" THEN amiss \cup {"halfway"} ELSE amiss
    /\ rows' = [x \in DOMAIN rows |->
                  IF kind = "group" /\ x[1] = Tables[1] /\ rows[x] > FirstVirtual
                       /\ FindByPublic(rows[x]) = {}
                  THEN NoNumber ELSE rows[x]]
    /\ UNCHANGED <<kind, ids, lastId, link, owner>>

-----------------------------------------------------------------------------
IdentityInit ==
    /\ kind \in {"user", "group"}
    /\ ids = [i \in {} |-> NoNumber] /\ lastId = 0
    /\ link = [e \in Endpoints |-> 0]
    /\ rows = [x \in TableSet \X Endpoints |-> NoNumber]
    /\ inflight = [e \in Endpoints |-> NoNumber]
    /\ operation = NoOperation
    /\ owner = [e \in Endpoints |-> IF e \in Real THEN RealNumber[e] ELSE NoNumber]
    /\ amiss = {} /\ failures = 0

IdentityNext ==
    \/ \E e \in Endpoints : Observe(e) \/ Replied(e) \/ \E t \in TableSet : Store(e, t)
    \/ \E e \in Native, n \in RealNumbers, reject \in BOOLEAN :
          Bind(e, n, reject)
    \/ LinkEndpoint \/ MergeEndpoint \/ MergeIdentity
    \/ \E t \in TableSet : MergeTable(t)
    \/ Fail \/ Restart

IdentitySpec == IdentityInit /\ [][IdentityNext]_identityVars

-----------------------------------------------------------------------------
IdentityTypeOK ==
    /\ kind \in {"user", "group"}
    /\ Existing \subseteq 1..MaxIds
    /\ \A i \in Existing : ids[i] \in [number : Numbers, virtual : BOOLEAN]
    /\ lastId \in 0..MaxIds
    /\ link \in [Endpoints -> 0..MaxIds]
    /\ rows \in [TableSet \X Endpoints -> Numbers \cup {NoNumber}]
    /\ inflight \in [Endpoints -> Numbers \cup {NoNumber}]
    /\ operation.at \in {"idle", "linking", "merging"}
    /\ owner \in [Endpoints -> Numbers \cup {NoNumber}]
    /\ amiss \subseteq Misses /\ failures \in 0..MaxFailures

\* Wherever an operation stops, every endpoint still leads to an identity, and a
\* public number leads to one identity only: nobody is left without a number
\* (their messages would be handled under an empty one), and no lookup by number
\* can answer with the wrong row.
EndpointsResolve ==
    /\ \A e \in Endpoints : link[e] # 0 => link[e] \in Existing
    /\ \A i, j \in Existing : ids[i].number = ids[j].number => i = j

\* Numbers keep people apart and keep people's data with them: endpoints with one
\* number have one owner, and what was stored about an endpoint is stored under
\* its present number -- unless a merge ended halfway, a handler stored something
\* under a number merged away meanwhile, or .bind moved an endpoint (and everyone
\* it shared its real number with) to another real number.
PeopleApart ==
    amiss = {} /\ operation = NoOperation =>
        /\ \A e, f \in Endpoints :
              e # f /\ link[e] = link[f] /\ link[e] # 0 => owner[e] = owner[f] /\ owner[e] # NoNumber
        /\ \A t \in TableSet, e \in Endpoints : rows[<<t, e>>] \in {NoNumber, Number(e)}

==============================================================================
