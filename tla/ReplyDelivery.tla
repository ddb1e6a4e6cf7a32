---------------------------- MODULE ReplyDelivery ----------------------------
(***************************************************************************)
(* From a message's reply to what the adapter is asked to send (main.cpp,  *)
(* the message handler and its finishReply).                               *)
(*                                                                         *)
(* Adapter threads run the handler concurrently.  A reply is finished on   *)
(* that thread, on the single AI worker (ai_worker.h), or, when a template *)
(* asked for a delay, by a timer of the event loop and then the worker of  *)
(* a bounded executor (deferred_reply_queue.h, bounded_executor.h).  After *)
(* every segment the onMessageSend hooks of the JS plugins run, which      *)
(* throws ScriptBusy when another thread keeps the JS runtime.             *)
(*                                                                         *)
(* One action is one critical section, or one call that leaves the         *)
(* process.  The group and what a message asks for are chosen when it      *)
(* arrives; the reply itself is only its number of segments.               *)
(***************************************************************************)
EXTENDS Integers, Sequences, FiniteSets, SequencesExt

CONSTANTS
  Msg,         \* messages
  Group,       \* groups they come from
  NSegs,       \* bound: segments of a reply
  DelayCap,    \* DeferredReplyQueue: replies waiting (256)
  CallbackCap, \* BoundedExecutor: callbacks queued (256)
  AiCap,       \* aiwork::Worker: jobs queued (16)
  MaxNotices,  \* bound: announcements set
  MaxChanges,  \* bound: permissions changed, connections lost or restored
  MaxRetries,  \* bound: retries of one delayed reply
  Asked        \* what the replies ask for, and their segments

ASSUME BoundAssumption ==
  /\ {NSegs, DelayCap, CallbackCap, AiCap} \subseteq Nat \ {0}
  /\ {MaxNotices, MaxChanges, MaxRetries} \subseteq Nat
  /\ IsFiniteSet(Msg)

Notice == 1..MaxNotices
Way == {"inline", "ai", "delay"}

ASSUME AskedAssumption == Asked \subseteq [Msg -> [way : Way, segs : 1..NSegs]]

VARIABLES
  \* per message
  st,       \* where it is
  way,      \* what its reply asks for, then how it is delivered
  group,
  segs,     \* segments of its reply
  next,     \* finishReply: the segment to send; segs + 1: the announcement
  carried,  \* the announcement it took, 0 for none
  retries,
  authority, \* a delayed reply's snapshot
  \* shared
  notice, pushed,  \* BroadcastManager
  tickets, open,   \* DeferredReplyQueue::State
  callbacks, ai,   \* the two queues
  \* the world
  grant,    \* permission settings and account, as a delayed reply sees them
  connected,
  proc,     \* the process: up, then the steps of its shutdown
  \* history and budgets
  sent,     \* how often each segment was sent
  missed,   \* found no connected adapter
  notices, changes

message == <<st, way, group, segs, next, carried, retries, authority>>
queues == <<tickets, open, callbacks, ai>>
world == <<grant, connected, proc, notices, changes>>
history == <<sent, missed>>
vars == <<message, notice, pushed, queues, world, history>>

St == {"new", "prepared", "timer", "queued", "ai", "sending", "over"}

TypeOK ==
  /\ st \in [Msg -> St] /\ way \in [Msg -> Way] /\ group \in [Msg -> Group]
  /\ segs \in [Msg -> 1..NSegs] /\ next \in [Msg -> 1..NSegs + 2]
  /\ missed \in [Msg -> BOOLEAN]
  /\ carried \in [Msg -> {0} \cup Notice]
  /\ retries \in [Msg -> 0..MaxRetries] /\ authority \in [Msg -> {0, 1}]
  /\ notice \in {0} \cup Notice /\ pushed \subseteq Group
  /\ tickets \in 0..DelayCap /\ {open, connected} \subseteq BOOLEAN
  /\ callbacks \in Seq(Msg) /\ Len(callbacks) <= CallbackCap
  /\ ai \in Seq(Msg) /\ Len(ai) <= AiCap
  /\ grant \in {0, 1} /\ proc \in {"up", "cancelled", "stopped", "closed"}
  /\ sent \in [Msg -> [1..NSegs -> 0..MaxRetries + 1]]
  /\ notices \in 0..MaxNotices /\ changes \in 0..MaxChanges

Init ==
  /\ st = [m \in Msg |-> "new"] /\ group \in [Msg -> Group]
  /\ \E a \in Asked : way = [m \in Msg |-> a[m].way] /\ segs = [m \in Msg |-> a[m].segs]
  /\ next = [m \in Msg |-> 1]
  /\ carried = [m \in Msg |-> 0]
  /\ retries = [m \in Msg |-> 0] /\ authority = [m \in Msg |-> 0]
  /\ notice = 0 /\ pushed = {}
  /\ tickets = 0 /\ open = TRUE /\ callbacks = <<>> /\ ai = <<>>
  /\ grant = 0 /\ connected = TRUE /\ proc = "up"
  /\ sent = [m \in Msg |-> [k \in 1..NSegs |-> 0]] /\ missed = [m \in Msg |-> FALSE]
  /\ notices = 0 /\ changes = 0

-----------------------------------------------------------------------------
(* The handler, on the adapter's thread.                                   *)

(* Mutant: the group is not marked.                                        *)
TakeUnmarked(m) ==
  /\ st[m] = "new" /\ proc # "closed"
  /\ st' = [st EXCEPT ![m] = "prepared"]
  /\ IF notice # 0 /\ group[m] \notin pushed
     THEN carried' = [carried EXCEPT ![m] = notice]
     ELSE UNCHANGED carried
  /\ UNCHANGED <<way, group, segs, next, retries, authority, notice, pushed, queues,
                 world, history>>

(* BroadcastManager::takeFor(group).                                       *)
TakeNotice(m) ==
  /\ st[m] = "new" /\ proc # "closed"
  /\ st' = [st EXCEPT ![m] = "prepared"]
  /\ IF notice # 0 /\ group[m] \notin pushed
     THEN carried' = [carried EXCEPT ![m] = notice] /\ pushed' = pushed \cup {group[m]}
     ELSE UNCHANGED <<carried, pushed>>
  /\ UNCHANGED <<way, group, segs, next, retries, authority, notice, queues, world,
                 history>>

(* Mutant: the limit is compared with > instead of >=.                     *)
PostPastLimit(m) ==
  /\ st[m] = "prepared" /\ way[m] = "delay"
  /\ authority' = [authority EXCEPT ![m] = grant]
  /\ IF open /\ tickets <= DelayCap
     THEN tickets' = tickets + 1 /\ st' = [st EXCEPT ![m] = "timer"]
     ELSE UNCHANGED tickets /\ st' = [st EXCEPT ![m] = "over"]
  /\ UNCHANGED <<way, group, segs, next, carried, retries, notice,
                 pushed, open, callbacks, ai, world, history>>

(* DeferredReplyQueue::post; a full queue drops the reply.                 *)
PostDelayed(m) ==
  /\ st[m] = "prepared" /\ way[m] = "delay"
  /\ authority' = [authority EXCEPT ![m] = grant]
  /\ IF open /\ tickets < DelayCap
     THEN tickets' = tickets + 1 /\ st' = [st EXCEPT ![m] = "timer"]
     ELSE UNCHANGED tickets /\ st' = [st EXCEPT ![m] = "over"]
  /\ UNCHANGED <<way, group, segs, next, carried, retries, notice,
                 pushed, open, callbacks, ai, world, history>>

(* Mutant: a full AI queue drops the reply.                                *)
PostAiOrDrop(m) ==
  /\ st[m] = "prepared" /\ way[m] = "ai"
  /\ IF Len(ai) < AiCap
     THEN ai' = Append(ai, m) /\ st' = [st EXCEPT ![m] = "ai"]
     ELSE UNCHANGED ai /\ st' = [st EXCEPT ![m] = "over"]
  /\ UNCHANGED <<way, group, segs, next, carried, retries, authority, notice,
                 pushed, tickets, open, callbacks, world, history>>

(* Worker::post; with a full queue the reply is finished here, unpolished. *)
PostAi(m) ==
  /\ st[m] = "prepared" /\ way[m] = "ai"
  /\ IF Len(ai) < AiCap
     THEN ai' = Append(ai, m) /\ st' = [st EXCEPT ![m] = "ai"] /\ UNCHANGED way
     ELSE UNCHANGED ai /\ st' = [st EXCEPT ![m] = "sending"] /\ way' = [way EXCEPT ![m] = "inline"]
  /\ UNCHANGED <<group, segs, next, carried, retries, authority, notice,
                 pushed, tickets, open, callbacks, world, history>>

FinishInline(m) ==
  /\ st[m] = "prepared" /\ way[m] = "inline"
  /\ st' = [st EXCEPT ![m] = "sending"]
  /\ UNCHANGED <<way, group, segs, next, carried, retries, authority,
                 notice, pushed, queues, world, history>>

-----------------------------------------------------------------------------
(* The event loop's timers and the two workers.                            *)

Sending(w) == {m \in Msg : st[m] = "sending" /\ way[m] = w}

(* Mutant: a dropped callback keeps its place in the queue.                *)
TimerLeaks(m) ==
  /\ st[m] = "timer" /\ proc = "up"
  /\ IF Len(callbacks) < CallbackCap
     THEN callbacks' = Append(callbacks, m) /\ st' = [st EXCEPT ![m] = "queued"]
     ELSE UNCHANGED callbacks /\ st' = [st EXCEPT ![m] = "over"]
  /\ UNCHANGED <<way, group, segs, next, carried, retries, authority,
                 notice, pushed, tickets, open, ai, world, history>>

(* The timer submits the callback; a full executor drops it, and with it   *)
(* the last owner of the ticket.                                           *)
TimerFires(m) ==
  /\ st[m] = "timer" /\ proc = "up"
  /\ IF Len(callbacks) < CallbackCap
     THEN callbacks' = Append(callbacks, m) /\ st' = [st EXCEPT ![m] = "queued"] /\ UNCHANGED tickets
     ELSE UNCHANGED callbacks /\ st' = [st EXCEPT ![m] = "over"] /\ tickets' = tickets - 1
  /\ UNCHANGED <<way, group, segs, next, carried, retries, authority,
                 notice, pushed, open, ai, world, history>>

(* The callback: still the same connection, account and permissions?       *)
RunDelayed(m) ==
  /\ callbacks # <<>> /\ m = Head(callbacks) /\ Sending("delay") = {}
  /\ callbacks' = Tail(callbacks)
  /\ IF open /\ connected /\ authority[m] = grant
     THEN st' = [st EXCEPT ![m] = "sending"] /\ UNCHANGED tickets
     ELSE st' = [st EXCEPT ![m] = "over"] /\ tickets' = tickets - 1
  /\ UNCHANGED <<way, group, segs, next, carried, retries, authority,
                 notice, pushed, open, ai, world, history>>

RunAi(m) ==
  /\ ai # <<>> /\ m = Head(ai) /\ Sending("ai") = {}
  /\ ai' = Tail(ai) /\ st' = [st EXCEPT ![m] = "sending"]
  /\ UNCHANGED <<way, group, segs, next, carried, retries, authority,
                 notice, pushed, tickets, open, callbacks, world, history>>

-----------------------------------------------------------------------------
(* finishReply.                                                            *)

Release(m) == tickets' = IF way[m] = "delay" THEN tickets - 1 ELSE tickets

(* The runtime stays with another thread for 100 ms: ScriptBusy leaves     *)
(* finishReply.  routeMessage and the AI worker drop what was left to      *)
(* send; runPluginCallback has the callback run again, from its start.     *)
HookBusy(m) ==
  IF way[m] = "delay"
  THEN /\ retries[m] < MaxRetries /\ retries' = [retries EXCEPT ![m] = @ + 1]
       /\ st' = [st EXCEPT ![m] = "timer"] /\ next' = [next EXCEPT ![m] = 1]
  ELSE /\ st' = [st EXCEPT ![m] = "over"] /\ UNCHANGED <<next, retries>>

(* onMessageSend after what was just sent: it runs, or it cannot.          *)
Hook(m) ==
  \/ next' = [next EXCEPT ![m] = @ + 1] /\ UNCHANGED <<st, retries>>
  \/ HookBusy(m)

(* A segment is handed to the adapter the message came from.  Only the     *)
(* first one looks for it; without one the reply is given up.              *)
Send(m) ==
  /\ st[m] = "sending" /\ next[m] <= segs[m]
  /\ IF next[m] = 1 /\ ~connected
     THEN /\ missed' = [missed EXCEPT ![m] = TRUE]
          /\ next' = [next EXCEPT ![m] = segs[m] + 1]
          /\ UNCHANGED <<sent, st, retries>>
     ELSE /\ sent' = [sent EXCEPT ![m][next[m]] = @ + 1]
          /\ Hook(m) /\ UNCHANGED missed
  /\ UNCHANGED <<way, group, segs, carried, authority, notice, pushed, queues, world>>

(* The announcement follows as a message of its own.                       *)
SendNotice(m) ==
  /\ st[m] = "sending" /\ next[m] = segs[m] + 1 /\ carried[m] # 0
  /\ Hook(m)
  /\ UNCHANGED <<way, group, segs, carried, authority, notice, pushed, queues, world,
                 history>>

Finish(m) ==
  /\ st[m] = "sending"
  /\ next[m] = segs[m] + 2 \/ (next[m] = segs[m] + 1 /\ carried[m] = 0)
  /\ st' = [st EXCEPT ![m] = "over"] /\ Release(m)
  /\ UNCHANGED <<way, group, segs, next, carried, retries, authority,
                 notice, pushed, open, callbacks, ai, world, history>>

-----------------------------------------------------------------------------
(* The panel, the plugins, the connection and the shutdown.                *)

SetNotice ==
  /\ notices < MaxNotices /\ notices' = notices + 1
  /\ notice' = notices' /\ pushed' = {}
  /\ UNCHANGED <<message, queues, grant, connected, proc, changes, history>>

CancelNotice ==
  /\ notice # 0 /\ notice' = 0 /\ pushed' = {}
  /\ UNCHANGED <<message, queues, world, history>>

Change ==
  /\ changes < MaxChanges /\ changes' = changes + 1
  /\ \/ grant' = 1 - grant /\ UNCHANGED connected
     \/ connected' = ~connected /\ UNCHANGED grant
  /\ UNCHANGED <<message, notice, pushed, queues, proc, notices, history>>

(* deferredReplies.cancel, then deferredCallbacks->stop, which clears the  *)
(* queue and joins the worker; then the adapters and the database.         *)
Cancel ==
  /\ proc = "up" /\ proc' = "cancelled" /\ open' = FALSE
  /\ UNCHANGED <<message, notice, pushed, tickets, callbacks, ai, grant, connected,
                 notices, changes, history>>

StopCallbacks ==
  /\ proc = "cancelled" /\ proc' = "stopped" /\ callbacks' = <<>>
  /\ st' = [m \in Msg |-> IF st[m] = "queued" THEN "over" ELSE st[m]]
  /\ tickets' = tickets - Len(callbacks)
  /\ UNCHANGED <<way, group, segs, next, carried, retries, authority,
                 notice, pushed, open, ai, grant, connected, notices, changes, history>>

(* Mutant: the worker is not joined.                                       *)
CloseUnjoined ==
  /\ proc = "stopped" /\ proc' = "closed"
  /\ UNCHANGED <<message, notice, pushed, queues, grant, connected, notices,
                 changes, history>>

Close ==
  /\ proc = "stopped" /\ Sending("delay") = {}
  /\ proc' = "closed"
  /\ UNCHANGED <<message, notice, pushed, queues, grant, connected, notices,
                 changes, history>>

Handle(m) == TakeNotice(m) \/ PostDelayed(m) \/ PostAi(m) \/ FinishInline(m)
Deliver(m) == \/ TimerFires(m) \/ RunDelayed(m) \/ RunAi(m)
              \/ Send(m) \/ SendNotice(m) \/ Finish(m)

Next == \/ \E m \in Msg : Handle(m) \/ Deliver(m)
        \/ SetNotice \/ CancelNotice \/ Change
        \/ Cancel \/ StopCallbacks \/ Close

(* Threads run; a message need not arrive.                                 *)
Fairness == \A m \in Msg : WF_vars(st[m] # "new" /\ Handle(m)) /\ WF_vars(Deliver(m))
Spec == Init /\ [][Next]_vars /\ Fairness

-----------------------------------------------------------------------------
(* deferred_reply_queue.h:32-38, 50-60.  Every reply admitted to the       *)
(* queue, and no other, counts against its limit, wherever it is: timer,   *)
(* executor, running, waiting for a retry.  Nothing leaks a place.         *)
TicketsCounted ==
  proc = "up" => tickets = Cardinality({m \in Msg : /\ way[m] = "delay"
                                                    /\ st[m] \in {"timer", "queued", "sending"}})

(* broadcast_manager.h:5-8.  No two replies carry the same announcement to *)
(* the same group, however messages, set and cancel interleave.            *)
NoticeTakenOnce ==
  \A m, n \in Msg : carried[m] # 0 /\ carried[m] = carried[n] /\ group[m] = group[n] => m = n

(* main.cpp:5335-5338.  Once the database is closed no delayed reply is    *)
(* being finished or can still start.                                      *)
DelayedDrained ==
  proc = "closed" => \A m \in Msg : way[m] = "delay" => st[m] \notin {"queued", "sending"}

(* main.cpp:2275-2276.  A reply nobody delayed reaches the adapter however *)
(* full the AI queue is and whatever the plugins do, unless the adapter    *)
(* was not connected when it was sent, or the process ended first.         *)
CommandAnswered ==
  \A m \in Msg : (st[m] = "prepared" /\ way[m] # "delay") ~> (sent[m][1] >= 1 \/ missed[m] \/ proc = "closed")

(* bounded_executor.h:57-59.  A callback that is run again has had no      *)
(* effect yet: no segment is sent twice.                                   *)
SentOnce == \A m \in Msg : \A k \in 1..NSegs : sent[m][k] <= 1
=============================================================================
