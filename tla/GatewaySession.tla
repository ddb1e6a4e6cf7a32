---------------------------- MODULE GatewaySession ----------------------------
(***************************************************************************)
(* The long connection of the Discord, KOOK and official QQ adapters       *)
(* (adapter/discord_adapter.h, kook_adapter.h, qq_official_adapter.h over  *)
(* qq_gateway_socket.h): REST requests lead to a Gateway address, a socket *)
(* with a thread of its own runs the session, and a lost session is made   *)
(* again five seconds later.  (QQ's webhook mode has no such connection;   *)
(* the addresses the platforms answer with are taken to be well formed.)   *)
(*                                                                         *)
(* Requests, timers and sockets outlive stop(): their handlers look at     *)
(* stopping_, which the next start() clears, so what an earlier session    *)
(* left behind can act on the next one.  A socket's callback looks at      *)
(* stopping_ and acts in two steps; connectGateway stops the old socket    *)
(* and stores the new one in two steps, because stop() and, on Discord,    *)
(* another request's thread use gateway_ at the same time without a lock.  *)
(*                                                                         *)
(* `blame' records the known ways in which the flags the panel shows come  *)
(* to be wrong; the properties say that there are no others.               *)
(***************************************************************************)
EXTENDS Naturals, FiniteSets

CONSTANTS
    Sockets,       \* the sockets that can be made, one per connectGateway: 1..n
    MaxStops,      \* bound: calls of stop()
    MaxPending     \* bound: requests of one kind, and reconnect timers, at once

VARIABLES
    platform,      \* "discord", "kook" or "qq_official"
    connected, connecting, stopping,    \* the adapter's atomic flags
    session,       \* sessionId_ and seq_ are set
    beat,          \* heartbeatTimer_ / pingTimer_ is armed
    tokenTimer,    \* accessTokenTimer_ is armed
    gateway,       \* gateway_: the adapter's socket, 0 for none
    sock,          \* what each socket's thread does
    requests,      \* REST requests of the connection under way, by kind
    timers,        \* reconnect timers under way
    opening,       \* threads between the two steps of connectGateway
    stops,         \* calls of stop() so far
    blame          \* see above

gatewayVars == <<platform, connected, connecting, stopping, session, beat, tokenTimer,
          gateway, sock, requests, timers, opening, stops, blame>>

flags == <<connected, connecting, stopping>>
loop == <<requests, timers, opening, tokenTimer>>

Platforms == {"discord", "kook", "qq_official"}
Kinds == {"self", "token", "profile", "url"}
Blames == {"ordered", "refused", "stale", "overlap", "mute"}
Frames == {"hello", "ready", "resumed", "invalid", "reconnect", "error", "close"}
None == "none"

UnusedSocket == [phase |-> "unused", stopped |-> FALSE, frame |-> None]
QQ == platform = "qq_official"

\* socket->stop(), of the adapter's socket if it has one.
StopSocket(g) == [s \in Sockets |-> IF s = g THEN [sock[s] EXCEPT !.stopped = TRUE]
                                             ELSE sock[s]]

\* What start() asks for first, and what a lost connection asks for.
FirstRequest == CASE platform = "discord" -> "url"
           [] platform = "kook" -> "self"
           [] OTHER -> "token"
Ask(k) == requests[k] < MaxPending /\ requests' = [requests EXCEPT ![k] = @ + 1]
Answered(k) == [requests EXCEPT ![k] = @ - 1]

-----------------------------------------------------------------------------
\* start(): nothing while the flags say that the adapter is already at work.
Start ==
    /\ ~connecting /\ ~connected
    /\ Ask(FirstRequest)
    /\ stopping' = FALSE
    /\ connecting' = TRUE
    /\ UNCHANGED <<platform, connected, session, beat, tokenTimer, gateway, sock,
                   timers, opening, stops, blame>>

\* stop(): the flags, the repeating timers, the socket.  The session id stays,
\* and so do requests and reconnect timers.
Stop ==
    /\ stops < MaxStops
    /\ stops' = stops + 1
    /\ stopping' = TRUE /\ connecting' = FALSE /\ connected' = FALSE
    /\ beat' = FALSE
    /\ tokenTimer' = FALSE
    /\ sock' = StopSocket(gateway)
    /\ gateway' = 0
    /\ blame' = IF opening > 0 THEN blame \cup {"overlap"} ELSE blame
    /\ UNCHANGED <<platform, session, requests, timers, opening>>

-----------------------------------------------------------------------------
\* Mutant: the previous socket goes on.
ConnectBeside ==
    /\ opening < IF platform = "discord" THEN 2 ELSE 1
    /\ opening' = opening + 1
    /\ blame' = IF opening > 0 THEN blame \cup {"overlap"} ELSE blame
    /\ UNCHANGED <<gateway, sock>>

\* connectGateway, first step: the previous socket is told to stop.  KOOK and QQ
\* connect on the event loop, one at a time; Discord on the request's thread.
Connect ==
    /\ opening < IF platform = "discord" THEN 2 ELSE 1
    /\ sock' = StopSocket(gateway)
    /\ opening' = opening + 1
    /\ blame' = IF opening > 0 THEN blame \cup {"overlap"} ELSE blame
    /\ UNCHANGED gateway

\* connectGateway, second step: the new socket is stored and its thread started.
OpenSocket ==
    /\ opening > 0
    /\ \E s \in Sockets :
          /\ sock[s] = UnusedSocket
          /\ \A t \in Sockets : t < s => sock[t] # UnusedSocket
          /\ sock' = [sock EXCEPT ![s].phase = "dialing"]
          /\ gateway' = s
    /\ opening' = opening - 1
    /\ UNCHANGED <<platform, flags, session, beat, tokenTimer, requests, timers,
                   stops, blame>>

\* The address of the Gateway arrives.  QQ does not look at stopping_ here.
UrlAnswered ==
    /\ requests["url"] > 0
    /\ requests' = Answered("url")
    /\ IF stopping /\ ~QQ
       THEN UNCHANGED <<gateway, sock, opening, blame>>
       ELSE Connect
    /\ UNCHANGED <<platform, flags, session, beat, tokenTimer, timers, stops>>

\* KOOK's own account arrives, then its Gateway is asked for.
SelfAnswered ==
    /\ requests["self"] > 0
    /\ requests' = [Answered("self") EXCEPT !["url"] = IF stopping THEN @ ELSE @ + 1]
    /\ requests'["url"] <= MaxPending
    /\ UNCHANGED <<platform, flags, session, beat, tokenTimer, gateway, sock, timers,
                   opening, stops, blame>>

\* QQ's token arrives: its refresh is armed, and unless connected the connection
\* goes on with the robot's profile.
TokenAnswered ==
    /\ requests["token"] > 0
    /\ requests' = [Answered("token") EXCEPT
                      !["profile"] = IF stopping \/ connected THEN @ ELSE @ + 1]
    /\ requests'["profile"] <= MaxPending
    /\ tokenTimer' = (tokenTimer \/ ~stopping)
    /\ UNCHANGED <<platform, flags, session, beat, gateway, sock, timers, opening,
                   stops, blame>>

\* The profile (and, if it lacks one, the share link) arrives or fails: either
\* way the connection goes on unless stopped or connected meanwhile.
ProfileAnswered ==
    /\ requests["profile"] > 0
    /\ requests' = [Answered("profile") EXCEPT
                      !["url"] = IF stopping \/ connected THEN @ ELSE @ + 1]
    /\ requests'["url"] <= MaxPending
    /\ UNCHANGED <<platform, flags, session, beat, tokenTimer, gateway, sock, timers,
                   opening, stops, blame>>

\* Mutant: a failed request leaves the flags alone.
RequestLostQuietly == UNCHANGED flags

\* What a failed request does to the flags: Discord and KOOK clear connecting_,
\* KOOK both when not even the name was resolved, QQ's fail() both.
RequestLost ==
    /\ connecting' = FALSE
    /\ connected' \in CASE platform = "discord" -> {connected}
                         [] platform = "kook" -> {connected, FALSE}
                         [] OTHER -> {FALSE}
    /\ UNCHANGED stopping

\* A request fails: even of a stopped adapter, save for QQ's token.
RequestFails(k) ==
    /\ k # "profile" /\ requests[k] > 0
    /\ requests' = Answered(k)
    /\ IF k = "token" /\ stopping THEN UNCHANGED flags ELSE RequestLost
    /\ UNCHANGED <<platform, session, beat, tokenTimer, gateway, sock, timers, opening,
                   stops, blame>>

\* KOOK answers with a code, Discord with something unreadable: restRequest
\* calls nobody back and leaves connecting_ as it is.
RequestRefused(k) ==
    /\ ~QQ /\ requests[k] > 0
    /\ requests' = Answered(k)
    /\ blame' = blame \cup {"refused"}
    /\ UNCHANGED <<platform, flags, session, beat, tokenTimer, gateway, sock, timers,
                   opening, stops>>

\* The request that sends a reply fails: restRequest treats it like the others.
ReplyFails ==
    /\ ~QQ
    /\ RequestLost
    /\ UNCHANGED <<platform, session, beat, gateway, sock, loop,
                   stops, blame>>

\* The five seconds are over.
ReconnectTimer ==
    /\ timers > 0
    /\ timers' = timers - 1
    /\ IF stopping \/ QQ THEN UNCHANGED requests ELSE Ask("url")
    /\ IF ~stopping /\ QQ THEN Connect ELSE UNCHANGED <<gateway, sock, opening, blame>>
    /\ UNCHANGED <<platform, flags, session, beat, tokenTimer, stops>>

TokenTimer ==
    /\ tokenTimer /\ ~stopping
    /\ tokenTimer' = FALSE
    /\ Ask("token")
    /\ UNCHANGED <<platform, flags, session, beat, gateway, sock, timers, opening,
                   stops, blame>>

-----------------------------------------------------------------------------
\* The socket's thread.  The platform greets an open connection, answers with a
\* new or the resumed session, may declare it invalid or order a reconnect, and
\* may close at any time.  A thread told to stop ends without a word.
\* After a frame that is too large the thread reports an error and ends.
NextFrames(phase) ==
    LET oversized == {<<"error", "failed">>} IN
    CASE phase = "open" ->
            {<<"hello", IF platform = "kook" THEN "ready" ELSE "greeted">>} \cup oversized
      [] phase = "greeted" -> {<<"ready", "ready">>, <<"invalid", "greeted">>} \cup oversized
                                 \cup (IF session THEN {<<"resumed", "ready">>} ELSE {})
      [] phase = "ready" -> {<<"reconnect", "ready">>} \cup oversized
      [] OTHER -> {}

\* Every callback looks at stopping_ first; what it does then is a later step.
Admitted(f) == IF stopping THEN None ELSE f

\* Dialling succeeds, fails in TCP (an error, no close), or later (an error,
\* then the close that every ended socket reports).
Dial(s) ==
    /\ sock[s].phase = "dialing" /\ ~sock[s].stopped
    /\ \E next \in {<<"open", None>>, <<"over", "error">>, <<"failed", "error">>} :
          sock' = [sock EXCEPT ![s].phase = next[1], ![s].frame = Admitted(next[2])]
    /\ UNCHANGED <<platform, flags, session, beat, gateway, loop, stops, blame>>

Read(s) ==
    /\ ~sock[s].stopped /\ sock[s].frame = None
    /\ \E f \in NextFrames(sock[s].phase) :
          sock' = [sock EXCEPT ![s].frame = Admitted(f[1]), ![s].phase = f[2]]
    /\ UNCHANGED <<platform, flags, session, beat, gateway, loop, stops, blame>>

End(s) ==
    /\ sock[s].phase \notin {"unused", "over"} /\ sock[s].frame = None
    /\ sock[s].phase = "dialing" => sock[s].stopped
    /\ sock' = [sock EXCEPT ![s].phase = "over",
                            ![s].frame = IF sock[s].stopped THEN None ELSE Admitted("close")]
    /\ UNCHANGED <<platform, flags, session, beat, gateway, loop, stops, blame>>

\* stop() came between the reading of the frame and that look at stopping_.
Drop(s) ==
    /\ stopping /\ sock[s].frame # None
    /\ sock' = [sock EXCEPT ![s].frame = None]
    /\ UNCHANGED <<platform, flags, session, beat, gateway, loop, stops, blame>>

Handling(s, frames) ==
    /\ sock[s].frame \in frames
    /\ sock' = [sock EXCEPT ![s].frame = None]
    /\ UNCHANGED <<platform, stopping, gateway, requests, opening, tokenTimer, stops>>

\* fail(): both flags, and nothing is tried again.  A KOOK greeting may refuse, too.
HandleError(s) ==
    /\ Handling(s, {"error"} \cup IF platform = "kook" THEN {"hello"} ELSE {})
    /\ connecting' = FALSE /\ connected' = FALSE
    /\ UNCHANGED <<session, beat, timers, blame>>

\* scheduleReconnect: five seconds, then again.  (When stop() has come between
\* the handler's look at stopping_ and here, connecting_ is set on a stopped adapter.)
Reconnect ==
    /\ timers < MaxPending
    /\ connected' = FALSE /\ connecting' = TRUE
    /\ timers' = timers + 1
    /\ blame' = IF stopping THEN blame \cup {"stale"} ELSE blame
    /\ UNCHANGED <<session, beat>>

HandleClose(s) == Handling(s, {"close"}) /\ Reconnect

\* A session is there: the greeting on KOOK, READY or RESUMED elsewhere.  QQ arms
\* its heartbeat at READY only, the others at the greeting.
Established(s) ==
    /\ Handling(s, {"ready", "resumed"} \cup IF platform = "kook" THEN {"hello"} ELSE {})
    /\ connected' = TRUE /\ connecting' = FALSE
    /\ session' = TRUE
    /\ beat' = (beat \/ platform = "kook" \/ (QQ /\ sock[s].frame = "ready"))
    /\ blame' = blame \cup (IF sock[s].stopped THEN {"stale"} ELSE {})
                      \cup (IF QQ /\ ~beat' THEN {"mute"} ELSE {})
    /\ UNCHANGED timers

\* The greeting elsewhere: identify, or resume with the session id kept.
HandleHello(s) ==
    /\ platform # "kook" /\ Handling(s, {"hello"})
    /\ beat' = (beat \/ ~QQ)
    /\ UNCHANGED <<connected, connecting, session, timers, blame>>

\* The session is invalid: Discord identifies anew, QQ has no such case.
HandleInvalid(s) ==
    /\ Handling(s, {"invalid"})
    /\ session' = (session /\ QQ)
    /\ UNCHANGED <<connected, connecting, beat, timers, blame>>

\* The platform orders a reconnect.  QQ schedules one and leaves the socket; the
\* others stop the socket, and a stopped socket reports no close.
HandleOrder(s) ==
    \/ QQ /\ Handling(s, {"reconnect"}) /\ Reconnect
    \/ /\ ~QQ /\ sock[s].frame = "reconnect"
       /\ sock' = [StopSocket(gateway) EXCEPT ![s].frame = None]
       /\ session' = (session /\ platform = "discord")
       /\ blame' = blame \cup {"ordered"}
       /\ UNCHANGED <<platform, flags, beat, gateway, loop, stops>>

Handle(s) ==
    \/ HandleError(s) \/ HandleClose(s) \/ Established(s)
    \/ HandleHello(s) \/ HandleInvalid(s) \/ HandleOrder(s)

-----------------------------------------------------------------------------
GatewayInit ==
    /\ platform \in Platforms
    /\ connected = FALSE /\ connecting = FALSE /\ stopping = FALSE
    /\ session = FALSE /\ beat = FALSE /\ tokenTimer = FALSE
    /\ gateway = 0
    /\ sock = [s \in Sockets |-> UnusedSocket]
    /\ requests = [k \in Kinds |-> 0]
    /\ timers = 0 /\ opening = 0 /\ stops = 0
    /\ blame = {}

GatewayNext ==
    \/ Start \/ Stop \/ OpenSocket
    \/ UrlAnswered \/ SelfAnswered \/ TokenAnswered \/ ProfileAnswered
    \/ \E k \in Kinds : RequestFails(k) \/ RequestRefused(k)
    \/ ReplyFails \/ ReconnectTimer \/ TokenTimer
    \/ \E s \in Sockets : Dial(s) \/ Read(s) \/ End(s) \/ Drop(s) \/ Handle(s)

GatewaySpec == GatewayInit /\ [][GatewayNext]_gatewayVars

-----------------------------------------------------------------------------
GatewayTypeOK ==
    /\ platform \in Platforms
    /\ {connected, connecting, stopping, session, beat, tokenTimer} \subseteq BOOLEAN
    /\ gateway \in Sockets \cup {0}
    /\ sock \in [Sockets -> [phase : {"unused", "dialing", "open", "greeted", "ready",
                                      "failed", "over"},
                             stopped : BOOLEAN, frame : Frames \cup {None}]]
    /\ requests \in [Kinds -> 0..MaxPending]
    /\ timers \in 0..MaxPending /\ opening \in 0..2
    /\ stops \in 0..MaxStops
    /\ blame \subseteq Blames

Running(s) == sock[s].phase \notin {"unused", "over"} /\ ~sock[s].stopped

\* The socket still runs, or the handler that reports its end is still to come.
Held(s) == Running(s) \/ sock[s].frame \in {"error", "close"}

\* Some session is up, or ending, or about to replace the one that was.
Live == opening > 0 \/ \E s \in Sockets : Held(s)
Underway == Live \/ timers > 0 \/ \E k \in Kinds : requests[k] > 0

\* A robot has at most one session at a time, so no message reaches it twice:
\* the only socket not told to stop is the adapter's own, unless two connects, or
\* a connect and a stop, have overlapped.
OneSession ==
    "overlap" \notin blame => \A s \in Sockets : Running(s) => s = gateway

\* The panel's flags never claim what nobody is working on: an adapter that is
\* connecting has a request, a timer or a socket at work, and a connected one has
\* a running socket or the handler of its end, and a heartbeat.  (While a flag is
\* set start() does nothing, so a false one keeps the adapter down for good.)
FlagsTrue ==
    blame = {} => /\ connecting => Underway
                  /\ connected => beat /\ Live

==============================================================================
