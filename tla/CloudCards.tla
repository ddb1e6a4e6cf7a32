------------------------------ MODULE CloudCards ------------------------------
(***************************************************************************)
(* Cloud character cards (service/cloud_card_service.cpp) and the local    *)
(* store they are kept in step with (core/character/card_store.cpp).       *)
(*                                                                         *)
(* A player pulls a card of the account centre into the local store and    *)
(* pushes local changes back.  For each context (adapter, robot, sender) a *)
(* link remembers which local card goes with which cloud card, the data    *)
(* that were last the same on both sides, and their revision.  One worker  *)
(* does one command at a time, but every HTTP request lasts seconds, in    *)
(* which the player edits on, other clients change the cloud card, and     *)
(* answers get lost.  An import compares the card with what it was before  *)
(* the request; an upload names the revision of the link, and the account  *)
(* centre merges field by field or refuses.                                *)
(*                                                                         *)
(* A card is a function from fields to edits: an edit is a value together  *)
(* with the fact that it was typed once, so `past' can tell whether who    *)
(* typed it had the overwritten one before them.  Names, locks (fields     *)
(* like others, except that a locked card is refused) and authorisation    *)
(* (without it nothing changes) are left out.                              *)
(***************************************************************************)
EXTENDS Naturals, Sequences

CONSTANTS
    Contexts,      \* adapters the player uses
    Fields,        \* fields of a card
    MaxCards,      \* bound: rows of local cards ever made
    MaxClouds,     \* bound: cloud cards
    MaxEdits,      \* bound: edits ever typed
    MaxFaults      \* bound: answers lost, restarts

VARIABLES
    local,         \* character_cards: id -> data, Gone for none
    lastCard,      \* the autoincrement of that table
    cloud,         \* cloud card -> the documents of its revisions
    links,         \* [context, cloud card] -> link
    command,       \* what the worker does
    writer,        \* a writer that does not take the store's mutex
    past,          \* edit -> the edits it replaced, directly or through others
    lastEdit,
    raced,         \* such a writer has overwritten what it had not read
    faults

cloudVars == <<local, lastCard, cloud, links, command, writer, past, lastEdit, raced, faults>>
ghosts == <<past, lastEdit, raced>>

Cards == 1..MaxCards
Clouds == 1..MaxClouds
Edits == 1..MaxEdits
Gone == [f \in Fields |-> 0]
NoLink == [card |-> 0, data |-> Gone, rev |-> 0]
NoCommand == [at |-> "idle"]
NoWriter == [card |-> 0, data |-> Gone]

Newest(c) == cloud[c][Len(cloud[c])]
OnCloud == {c \in Clouds : cloud[c] # <<>>}
Local == {l \in Cards : local[l] # Gone}

-----------------------------------------------------------------------------
\* Somebody types a new value over `old'.
Typed(old) ==
    /\ lastEdit < MaxEdits
    /\ lastEdit' = lastEdit + 1
    /\ past' = [past EXCEPT ![lastEdit'] = {old} \cup past[old]]

\* .st and the like: read, changed and written under the store's mutex.
EditLocal(l, f) ==
    /\ l \in Local
    /\ Typed(local[l][f])
    /\ local' = [local EXCEPT ![l][f] = lastEdit']
    /\ UNCHANGED <<lastCard, cloud, links, command, writer, raced, faults>>

DeleteCard(l) ==
    /\ l \in Local
    /\ local' = [local EXCEPT ![l] = Gone]
    /\ UNCHANGED <<lastCard, cloud, links, command, writer, ghosts, faults>>

\* Another client edits the card in the cloud.
EditCloud(c, f) ==
    /\ c \in OnCloud
    /\ Typed(Newest(c)[f])
    /\ cloud' = [cloud EXCEPT ![c] = Append(@, [Newest(c) EXCEPT ![f] = lastEdit'])]
    /\ UNCHANGED <<local, lastCard, links, command, writer, raced, faults>>

\* Locks and texts of a card, and the panel, change a card without the mutex:
\* they read the whole card ...
ReadUnlocked(l) ==
    /\ writer = NoWriter /\ l \in Local
    /\ writer' = [card |-> l, data |-> local[l]]
    /\ UNCHANGED <<local, lastCard, cloud, links, command, ghosts, faults>>

\* ... and write it back with one field changed.
WriteUnlocked(f) ==
    /\ writer # NoWriter /\ writer.card \in Local
    /\ Typed(writer.data[f])
    /\ local' = [local EXCEPT ![writer.card] = [writer.data EXCEPT ![f] = lastEdit']]
    /\ raced' = (raced \/ local[writer.card] # writer.data)
    /\ writer' = NoWriter
    /\ UNCHANGED <<lastCard, cloud, links, command, faults>>

\* The card is gone meanwhile: the panel updates no row; saveRawCardJson makes a
\* new one, which is like creating a card, and left out.
WriteNothing ==
    /\ writer # NoWriter /\ writer.card \notin Local
    /\ writer' = NoWriter
    /\ UNCHANGED <<local, lastCard, cloud, links, command, ghosts, faults>>

-----------------------------------------------------------------------------
\* Mutant: the card is taken as it is now.
SnapshotUncompared(l, data) == l \in Local

\* importSnapshot with an expected snapshot: the row must be what it was.
SnapshotHolds(l, data) == local[l] = data

\* pull, before the request.  The linked card must be as the link left it, unless
\* another name asks for a separate copy; without a link a new card is made.
Pull(x, c, copy) ==
    /\ command = NoCommand /\ c \in OnCloud
    /\ LET link == links[<<x, c>>] IN
       /\ link # NoLink /\ ~copy => link.card \in Local /\ local[link.card] = link.data
       /\ copy => link # NoLink
       /\ command' = [at |-> "asking", upload |-> FALSE, ctx |-> x, cloud |-> c,
                 card |-> IF copy \/ link = NoLink THEN 0 ELSE link.card,
                 data |-> link.data, base |-> link.rev, links |-> ~copy,
                 doc |-> Gone, rev |-> 0]
    /\ UNCHANGED <<local, lastCard, cloud, links, writer, ghosts, faults>>

LinkedTo(x, l) == {c \in Clouds : links[<<x, c>>].card = l}

\* push and sync, before the request: the snapshot and the link of its row.  A card
\* without a link is uploaded as a new one.
Push(x, l) ==
    /\ command = NoCommand /\ l \in Local
    /\ LET found == LinkedTo(x, l)
           c == IF found = {} THEN 0 ELSE CHOOSE d \in found : TRUE IN
       command' = [at |-> "asking", upload |-> TRUE, ctx |-> x, cloud |-> c, card |-> l,
              data |-> local[l], base |-> IF c = 0 THEN 0 ELSE links[<<x, c>>].rev,
              links |-> TRUE, doc |-> Gone, rev |-> 0]
    /\ UNCHANGED <<local, lastCard, cloud, links, writer, ghosts, faults>>

\* Mutant: the newest revision is named instead of the link's.
BaseNewest == Newest(command.cloud)

\* The revision the upload is based on.
Base == cloud[command.cloud][command.base]

\* The account centre's three-way merge: a field changed on one side only is taken
\* from there; a field changed differently on both refuses the upload (409).
Conflict == \E f \in Fields :
    Newest(command.cloud)[f] # Base[f] /\ command.data[f] # Base[f] /\ command.data[f] # Newest(command.cloud)[f]
Merged == [f \in Fields |-> IF command.data[f] = Base[f] THEN Newest(command.cloud)[f] ELSE command.data[f]]

Answered(c, document, revision) ==
    command' = [command EXCEPT !.at = "importing", !.cloud = c, !.doc = document, !.rev = revision]

\* The account centre serves the request, and its answer arrives.
ServeGet ==
    /\ command.at = "asking" /\ ~command.upload
    /\ Answered(command.cloud, Newest(command.cloud), Len(cloud[command.cloud]))
    /\ UNCHANGED <<local, lastCard, cloud, links, writer, ghosts, faults>>

ServePut ==
    /\ command.at = "asking" /\ command.upload /\ command.cloud # 0
    /\ IF Conflict THEN command' = NoCommand /\ UNCHANGED cloud
       ELSE /\ cloud' = IF Merged = Newest(command.cloud) THEN cloud
                        ELSE [cloud EXCEPT ![command.cloud] = Append(@, Merged)]
            /\ Answered(command.cloud, Merged, Len(cloud'[command.cloud]))
    /\ UNCHANGED <<local, lastCard, links, writer, ghosts, faults>>

ServePost ==
    /\ command.at = "asking" /\ command.upload /\ command.cloud = 0
    /\ \E c \in Clouds \ OnCloud :
          /\ \A d \in Clouds : d < c => d \in OnCloud
          /\ cloud' = [cloud EXCEPT ![c] = <<command.data>>]
          /\ Answered(c, command.data, 1)
    /\ UNCHANGED <<local, lastCard, links, writer, ghosts, faults>>

\* The document replaces the local card, or becomes a new one (whose name may be
\* taken).
Import ==
    /\ command.at = "importing"
    /\ command.card # 0 => SnapshotHolds(command.card, command.data)
    /\ command.card = 0 => lastCard < MaxCards
    /\ LET l == IF command.card = 0 THEN lastCard + 1 ELSE command.card IN
       /\ local' = [local EXCEPT ![l] = command.doc]
       /\ lastCard' = IF command.card = 0 THEN l ELSE lastCard
       /\ command' = IF command.links THEN [command EXCEPT !.at = "linking", !.card = l, !.data = command.doc]
                ELSE NoCommand
    /\ UNCHANGED <<cloud, links, writer, ghosts, faults>>

\* Mutant: the link advances although the local card did not.
ImportRefusedLinks ==
    /\ command.at = "importing"
    /\ command.card # 0 => ~SnapshotHolds(command.card, command.data)
    /\ command' = IF command.upload THEN [command EXCEPT !.at = "linking"] ELSE NoCommand
    /\ UNCHANGED <<local, lastCard, cloud, links, writer, ghosts, faults>>

\* The card has changed (or is gone, or the name is taken).  A first upload is
\* remembered with what was uploaded; otherwise the link stays, and with it the
\* base of the next merge.
ImportRefused ==
    /\ command.at = "importing"
    /\ command.card # 0 => ~SnapshotHolds(command.card, command.data)
    /\ command' = IF command.upload /\ command.base = 0 THEN [command EXCEPT !.at = "linking"] ELSE NoCommand
    /\ UNCHANGED <<local, lastCard, cloud, links, writer, ghosts, faults>>

\* saveLink, in another database than the card.
SaveLink ==
    /\ command.at = "linking"
    /\ links' = [links EXCEPT ![<<command.ctx, command.cloud>>] = [card |-> command.card, data |-> command.data, rev |-> command.rev]]
    /\ command' = NoCommand
    /\ UNCHANGED <<local, lastCard, cloud, writer, ghosts, faults>>

\* The request does not arrive, its answer is lost, saving fails, or the program is
\* restarted: the command ends where it is (nothing is retried).
Interrupt ==
    /\ faults < MaxFaults /\ command # NoCommand
    /\ faults' = faults + 1
    /\ command' = NoCommand
    /\ writer' \in {writer, NoWriter}
    /\ UNCHANGED <<local, lastCard, cloud, links, ghosts>>

-----------------------------------------------------------------------------
\* One local card, one cloud card that is not linked to it.
CloudInit ==
    /\ local = [l \in Cards |-> IF l = 1 THEN [f \in Fields |-> 1] ELSE Gone]
    /\ lastCard = 1
    /\ cloud = [c \in Clouds |-> IF c = 1 THEN <<[f \in Fields |-> 2]>> ELSE <<>>]
    /\ links = [x \in Contexts \X Clouds |-> NoLink]
    /\ command = NoCommand /\ writer = NoWriter
    /\ past = [e \in Edits |-> {}] /\ lastEdit = 2
    /\ raced = FALSE /\ faults = 0

CloudNext ==
    \/ \E l \in Cards :
          DeleteCard(l) \/ ReadUnlocked(l) \/ \E f \in Fields : EditLocal(l, f)
    \/ \E f \in Fields : WriteUnlocked(f) \/ \E c \in Clouds : EditCloud(c, f)
    \/ WriteNothing
    \/ \E x \in Contexts :
          \/ \E c \in Clouds, copy \in BOOLEAN : Pull(x, c, copy)
          \/ \E l \in Cards : Push(x, l)
    \/ ServeGet \/ ServePut \/ ServePost
    \/ Import \/ ImportRefused \/ SaveLink \/ Interrupt

CloudSpec == CloudInit /\ [][CloudNext]_cloudVars

-----------------------------------------------------------------------------
Data == [Fields -> 0..MaxEdits]

CloudTypeOK ==
    /\ local \in [Cards -> Data] /\ lastCard \in Cards
    /\ cloud \in [Clouds -> Seq(Data)]
    /\ links \in [Contexts \X Clouds -> [card : 0..MaxCards, data : Data, rev : Nat]]
    /\ command.at \in {"idle", "asking", "importing", "linking"}
    /\ writer \in [card : 0..MaxCards, data : Data]
    /\ past \in [Edits -> SUBSET Edits] /\ lastEdit \in Edits
    /\ raced \in BOOLEAN /\ faults \in 0..MaxFaults

\* New data overwrite old ones field by field only with what was typed over them.
Overwrites(old, new) == \A f \in Fields : old[f] = new[f] \/ old[f] \in past'[new[f]]

\* No edit is lost unseen, on either side: a value disappears from a local card or
\* from the newest revision of a cloud card only for one that was typed by somebody
\* who had it before them -- whatever is edited during a request, whichever answers
\* are lost and in whatever order two contexts pull and push.  (Deleting a card is
\* its owner's wish; a writer without the mutex that wrote what it had read too
\* early ends the promise.)
KeepsEdits ==
    ~raced' => /\ \A l \in Cards :
                     local[l] # Gone /\ local'[l] # Gone => Overwrites(local[l], local'[l])
               /\ \A c \in OnCloud : Overwrites(Newest(c), cloud'[c][Len(cloud'[c])])
EditsKept == [][KeepsEdits]_cloudVars

\* The base of the next merge is the common ancestor it is taken for: what a link
\* remembers is the revision it names, and everything now in the linked card has
\* been typed over it.  A base too new would let the next upload undo an edit of
\* somebody else in the cloud.
BaseIsAncestor ==
    ~raced => \A x \in Contexts, c \in Clouds :
        LET link == links[<<x, c>>] IN
        link # NoLink =>
            /\ link.data = cloud[c][link.rev]
            /\ link.card \in Local =>
                  \A f \in Fields : \/ link.data[f] = local[link.card][f]
                                    \/ link.data[f] \in past[local[link.card][f]]

==============================================================================
