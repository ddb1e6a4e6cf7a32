-------------------------- MODULE AdapterLifecycle --------------------------
(***************************************************************************)
(* AdapterManager (adapter/adapter_manager.h) and those who use it: the    *)
(* requests of the panel that create, edit, delete and reconnect adapters  *)
(* on the HTTP threads, and main.cpp, which registers the enabled rows,    *)
(* starts them half a second later on the event loop, and stops them.      *)
(*                                                                         *)
(* A request is a list of steps still to do; one step is one critical      *)
(* section of mutex_ or startMutex_, one call of the adapter or one        *)
(* statement on the table.  An object is a number, given out in order;     *)
(* `start` and `stop` of an object are taken as one step each.             *)
(***************************************************************************)
EXTENDS Integers, Sequences, FiniteSets

CONSTANTS
  Id,          \* rows of the adapters table
  Panel,       \* HTTP threads
  Stored,      \* the ids whose rows the program may start with
  MaxObj,      \* bound: adapter objects
  MaxRequests  \* bound: requests of the panel

ASSUME AdaptersAssumption ==
  /\ Id # {} /\ IsFiniteSet(Id) /\ MaxObj \in Nat /\ MaxRequests \in Nat
  /\ Stored \subseteq [Id -> {"absent", "off", "on"}]
  /\ \A table \in Stored : Cardinality({i \in Id : table[i] = "on"}) <= MaxObj

VARIABLES
  rows,      \* the table: absent, off or on
  adapters,  \* adapters_: the object registered under an id, or Nobody
  started,   \* started_
  boot,      \* startAll: wait, lock, starting (holds startMutex_), done
  toStart,   \* the objects startAll copied and has not come to
  req,       \* what each HTTP thread has left to do
  \* the adapters themselves
  live,      \* started and not stopped since
  linked,    \* connected_
  failed,    \* the last start() returned false
  \* the world
  made, requests, down,
  \* history
  owner,     \* the id an object was made for
  starts,    \* successful starts by the manager since the last stop
  copied,    \* what startAll found registered
  raced      \* ids two requests worked on at once

manager == <<rows, adapters, started>>
booting == <<boot, toStart, copied>>
links == <<live, linked, failed, starts>>
world == <<made, requests, down, owner, raced>>
adapterVars == <<manager, booting, req, links, world>>

Obj == 1..MaxObj
Nobody == 0
Step == {"get", "halt", "forget", "erase", "find", "put", "start", "resume", "save", "remove"}
NoRequest == [todo |-> <<>>, id |-> CHOOSE i \in Id : TRUE, obj |-> Nobody, row |-> "absent"]
Registered == {adapters[i] : i \in Id} \ {Nobody}

AdaptersTypeOK ==
  /\ rows \in [Id -> {"absent", "off", "on"}] /\ adapters \in [Id -> {Nobody} \cup Obj]
  /\ \A i \in Id : adapters[i] # Nobody => owner[adapters[i]] = i
  /\ boot \in {"wait", "lock", "starting", "done"} /\ toStart \subseteq copied
  /\ req \in [Panel -> [todo : Seq(Step), id : Id, obj : {Nobody} \cup Obj,
                       row : {"absent", "off", "on"}]]
  /\ \A p \in Panel : req[p].obj <= made
  /\ linked \subseteq live /\ live \cup failed \cup started \cup copied \subseteq 1..made
  /\ made \in 0..MaxObj /\ requests \in 0..MaxRequests /\ down \in BOOLEAN
  /\ owner \in [Obj -> Id] /\ starts \in [Obj -> Nat] /\ raced \subseteq Id

(* main registers an object for every enabled row.                         *)
AdaptersInit ==
  /\ rows \in Stored
  /\ LET On == {i \in Id : rows[i] = "on"} IN
     \E map \in [On -> 1..Cardinality(On)] :
       /\ \A i, j \in On : map[i] = map[j] => i = j
       /\ made = Cardinality(On)
       /\ adapters = [i \in Id |-> IF i \in On THEN map[i] ELSE Nobody]
       /\ owner = [o \in Obj |-> CHOOSE i \in Id : (\E j \in On : map[j] = o) => adapters[i] = o]
  /\ started = {} /\ boot = "wait" /\ toStart = {} /\ copied = {}
  /\ req = [p \in Panel |-> NoRequest]
  /\ live = {} /\ linked = {} /\ failed = {} /\ starts = [o \in Obj |-> 0]
  /\ requests = 0 /\ down = FALSE /\ raced = {}

-----------------------------------------------------------------------------
(* An adapter.                                                             *)

(* start(): nothing if connected; otherwise it begins to connect, or fails *)
(* (Milky cannot reach its API, a token is missing).                       *)
Starts(o, n) ==
  \/ o \in linked /\ UNCHANGED links
  \/ /\ o \notin linked /\ live' = live \cup {o} /\ failed' = failed \ {o}
     /\ starts' = [starts EXCEPT ![o] = @ + n] /\ UNCHANGED linked
  \/ o \notin linked /\ failed' = failed \cup {o} /\ UNCHANGED <<live, linked, starts>>

(* stop().                                                                 *)
Stops(o) ==
  /\ live' = live \ {o} /\ linked' = linked \ {o} /\ starts' = [starts EXCEPT ![o] = 0]
  /\ UNCHANGED failed

(* The platform answers, or the connection breaks; the adapter tries again *)
(* by itself.                                                              *)
Connect == \E o \in live \ linked :
  linked' = linked \cup {o} /\ UNCHANGED <<manager, booting, req, live, failed, starts, world>>
Disconnect == \E o \in linked :
  linked' = linked \ {o} /\ UNCHANGED <<manager, booting, req, live, failed, starts, world>>

-----------------------------------------------------------------------------
(* startAll.  It holds startMutex_ from the first start to the last.       *)

Free == boot # "starting"

BootCopy ==
  /\ boot = "wait" /\ ~down /\ boot' = "lock"
  /\ toStart' = Registered /\ copied' = Registered
  /\ UNCHANGED <<manager, req, links, world>>

BootLock == boot = "lock" /\ boot' = "starting"
            /\ UNCHANGED <<manager, toStart, copied, req, links, world>>

BootStart ==
  /\ boot = "starting" /\ \E o \in toStart :
       /\ toStart' = toStart \ {o}
       /\ IF o \in started THEN UNCHANGED <<started, links>>
          ELSE /\ Starts(o, 1)
               /\ started' = IF o \in failed' THEN started ELSE started \cup {o}
  /\ UNCHANGED <<rows, adapters, boot, copied, req, world>>

BootDone == boot = "starting" /\ toStart = {} /\ boot' = "done"
            /\ UNCHANGED <<manager, toStart, copied, req, links, world>>

-----------------------------------------------------------------------------
(* The requests.                                                           *)

StopAdapter == <<"get", "halt", "forget">>
UnregisterAdapter == <<"erase", "forget">>
RegisterAdapter == <<"find", "forget", "put">>
StartAdapter == <<"get", "start">>

(* Mutant: an adapter that is switched off is only unregistered.           *)
EditsUnstopped(was, to) ==
  CASE was = "off" /\ to = "on" -> RegisterAdapter \o StartAdapter
    [] was = "on" /\ to = "on" -> StopAdapter \o UnregisterAdapter \o RegisterAdapter \o StartAdapter
    [] was = "on" /\ to = "off" -> UnregisterAdapter
    [] OTHER -> <<>>

(* What PUT does once the row is saved; on to on with other settings.      *)
Edits(was, to) ==
  CASE was = "off" /\ to = "on" -> RegisterAdapter \o StartAdapter
    [] was = "on" /\ to = "on" -> StopAdapter \o UnregisterAdapter \o RegisterAdapter \o StartAdapter
    [] was = "on" /\ to = "off" -> StopAdapter \o UnregisterAdapter
    [] OTHER -> <<>>

Begin(p, i, o, row, todo) ==
  /\ req[p].todo = <<>> /\ requests < MaxRequests /\ ~down
  /\ req' = [req EXCEPT ![p] = [todo |-> todo, id |-> i, obj |-> o, row |-> row]]
  /\ requests' = requests + 1
  /\ raced' = IF \E q \in Panel : req[q].todo # <<>> /\ req[q].id = i THEN raced \cup {i} ELSE raced
  /\ UNCHANGED <<adapters, started, booting, links, made, down, owner>>

(* POST /api/adapters.                                                     *)
Post(p) == \E i \in Id, row \in {"off", "on"} :
  /\ rows[i] = "absent" /\ rows' = [rows EXCEPT ![i] = row]
  /\ Begin(p, i, Nobody, row, Edits("off", row))

(* PUT /api/adapters/{id}: the row is read here and saved later.           *)
Put(p) == \E i \in Id, row \in {"off", "on"} :
  /\ rows[i] # "absent" /\ Begin(p, i, Nobody, row, <<"save">> \o Edits(rows[i], row))
  /\ UNCHANGED rows

(* DELETE /api/adapters/{id}.                                              *)
Delete(p) == \E i \in Id :
  /\ rows[i] # "absent"
  /\ Begin(p, i, Nobody, "absent", StopAdapter \o UnregisterAdapter \o <<"remove">>)
  /\ UNCHANGED rows

(* POST /api/adapters/{id}/reconnect.                                      *)
Reconnect(p) == \E i \in Id :
  /\ rows[i] # "absent"
  /\ Begin(p, i, adapters[i], "on",
       IF adapters[i] # Nobody THEN <<"resume">>
       ELSE (IF rows[i] = "off" THEN <<"save">> ELSE <<>>) \o RegisterAdapter \o StartAdapter)
  /\ UNCHANGED rows

-----------------------------------------------------------------------------
(* Their steps.                                                            *)

Now(p, step) == req[p].todo # <<>> /\ Head(req[p].todo) = step
Done(p, o) == LET rest == Tail(req[p].todo) IN
  req' = [req EXCEPT ![p] = IF rest = <<>> THEN NoRequest ELSE [@ EXCEPT !.todo = rest, !.obj = o]]

(* getAdapter, and registerAdapter's look at whom it replaces.             *)
Get(p) ==
  /\ Now(p, "get") \/ Now(p, "find")
  /\ Done(p, adapters[req[p].id]) /\ UNCHANGED <<manager, booting, links, world>>

(* Nobody was found: stop, forget and start do nothing.                    *)
Skip(p) ==
  /\ \E step \in {"halt", "forget", "start"} : Now(p, step)
  /\ req[p].obj = Nobody /\ Done(p, Nobody) /\ UNCHANGED <<manager, booting, links, world>>

Halt(p) ==
  /\ Now(p, "halt") /\ req[p].obj # Nobody /\ Stops(req[p].obj)
  /\ Done(p, req[p].obj) /\ UNCHANGED <<manager, booting, world>>

(* forgetStarted.                                                          *)
Forget(p) ==
  /\ Now(p, "forget") /\ req[p].obj # Nobody /\ Free
  /\ started' = started \ {req[p].obj} /\ Done(p, req[p].obj)
  /\ UNCHANGED <<rows, adapters, booting, links, world>>

(* Mutant: only a connected adapter is removed.                            *)
EraseLinked(p) ==
  /\ Now(p, "erase")
  /\ LET i == req[p].id  o == adapters[i] IN
       /\ IF o \in linked THEN Stops(o) /\ adapters' = [adapters EXCEPT ![i] = Nobody]
          ELSE UNCHANGED <<links, adapters>>
       /\ Done(p, o)
  /\ UNCHANGED <<rows, started, booting, world>>

(* unregisterAdapter.                                                      *)
Erase(p) ==
  /\ Now(p, "erase")
  /\ LET i == req[p].id  o == adapters[i] IN
       /\ adapters' = [adapters EXCEPT ![i] = Nobody]
       /\ IF o \in linked THEN Stops(o) ELSE UNCHANGED links
       /\ Done(p, o)
  /\ UNCHANGED <<rows, started, booting, world>>

(* registerAdapter: the new object takes the id; one it replaces is not    *)
(* stopped.                                                                *)
Register(p) ==
  /\ Now(p, "put") /\ made < MaxObj /\ made' = made + 1
  /\ adapters' = [adapters EXCEPT ![req[p].id] = made + 1]
  /\ owner' = [owner EXCEPT ![made + 1] = req[p].id]
  /\ Done(p, Nobody) /\ UNCHANGED <<rows, started, booting, links, requests, down, raced>>

(* startAdapter, once it has the object: started_ is not consulted.        *)
Start(p) ==
  /\ Now(p, "start") /\ req[p].obj # Nobody /\ Free /\ Starts(req[p].obj, 1)
  /\ started' = IF req[p].obj \in failed' THEN started ELSE started \cup {req[p].obj}
  /\ Done(p, Nobody) /\ UNCHANGED <<rows, adapters, booting, world>>

(* resumeConnection, which the manager does not see.                       *)
ResumeConnection(p) ==
  /\ Now(p, "resume") /\ Starts(req[p].obj, 0) /\ Done(p, Nobody)
  /\ UNCHANGED <<manager, booting, world>>

Save(p) ==
  /\ Now(p, "save") \/ Now(p, "remove")
  /\ rows' = [rows EXCEPT ![req[p].id] = IF @ = "absent" THEN @ ELSE req[p].row]
  /\ Done(p, Nobody) /\ UNCHANGED <<adapters, started, booting, links, world>>

(* main after the event loop has ended: stopAll.                           *)
StopAll ==
  /\ ~down /\ Free /\ (\A p \in Panel : req[p].todo = <<>>) /\ down' = TRUE
  /\ live' = live \ Registered /\ linked' = linked \ Registered
  /\ starts' = [o \in Obj |-> IF o \in Registered THEN 0 ELSE starts[o]] /\ started' = {}
  /\ boot' = "done" /\ toStart' = {}
  /\ UNCHANGED <<rows, adapters, copied, req, failed, made, requests, owner, raced>>

Request(p) == Post(p) \/ Put(p) \/ Delete(p) \/ Reconnect(p)
RequestStep(p) == Get(p) \/ Skip(p) \/ Halt(p) \/ Forget(p) \/ Erase(p) \/ Register(p)
                  \/ Start(p) \/ ResumeConnection(p) \/ Save(p)
StartAll == BootCopy \/ BootLock \/ BootStart \/ BootDone

AdaptersNext == (\E p \in Panel : Request(p) \/ RequestStep(p)) \/ StartAll \/ StopAll \/ Connect \/ Disconnect
AdaptersSpec == AdaptersInit /\ [][AdaptersNext]_adapterVars

-----------------------------------------------------------------------------
Quiet == \A p \in Panel : req[p].todo = <<>>
Alone(o) == owner[o] \notin raced

(* api_service.h:3076-3091, 3105-3107, 3172-3182.  Once the start-up is    *)
(* over and no request is under way, an adapter no two requests worked on  *)
(* at once is registered exactly if its row is enabled, and then runs      *)
(* unless its start failed, whatever startAll did in between.              *)
RowsInForce ==
  Quiet /\ boot = "done" /\ ~down => \A i \in Id \ raced :
    IF rows[i] = "on" THEN adapters[i] \in live \cup failed ELSE adapters[i] = Nobody

(* adapter_manager.h:82-88, 115-122.  An adapter runs unobserved, neither  *)
(* stopped by the panel nor at the end of main, only if startAll had       *)
(* copied it before it was removed, or two requests raced for its id.      *)
NoOrphan == Quiet => \A o \in live \ copied : Alone(o) => o \in Registered /\ ~down

(* main.cpp:4932-4934: "start each exactly ONCE here".  No adapter is      *)
(* started twice without a stop in between.                                *)
StartedOnce == \A o \in Obj : Alone(o) => starts[o] <= 1
=============================================================================
