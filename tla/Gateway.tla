------------------------------ MODULE Gateway -------------------------------
(***************************************************************************)
(* The one connection to the OpenClaw gateway and what is served from it:  *)
(* GatewayConnection (services/openclaw_client.py) with its reader, its    *)
(* pending requests and its queue of events; the supervisor of             *)
(* SharedGateway that reconnects; and, in SynapseHub (services/            *)
(* synapse_hub.py), the shared sessions.list snapshot behind its lock, the *)
(* resync after a reconnect, the status poll, the connecting browsers and  *)
(* the hub's stop.                                                         *)
(*                                                                         *)
(* Everything runs on one event loop, so a step lasts from one await that  *)
(* really suspends to the next.  An answer and what its waiter does with   *)
(* it are one step: the waiter is due long before a new socket can open.   *)
(* What an event does to the runs is in HubRuns; here it is handled at     *)
(* once, and may spawn a task that asks for the history (a terminal        *)
(* event): no handler awaits anything on the reader's path.                *)
(***************************************************************************)
EXTENDS Naturals, FiniteSets, Sequences, SequencesExt

CONSTANTS
    Client,       \* browsers
    Poll,         \* the status poll
    Terminal,     \* the task a terminal event spawns
    None,
    MaxConns,     \* bound: connections to the gateway
    MaxEvents,    \* bound: events of the gateway
    MaxBadFrames, \* bound: frames that end the reader while the socket is open
    MaxVisits     \* bound: connects of browsers

ASSUME GatewayAssumption ==
    /\ IsFiniteSet(Client)
    /\ Client \cap (Nat \cup {Poll, Terminal, None}) = {}
    /\ Nat \cap {Poll, Terminal, None} = {}
    /\ None \notin BOOLEAN
    /\ Poll # Terminal
    /\ {MaxConns, MaxEvents, MaxBadFrames, MaxVisits} \subseteq Nat

(* Who asks the gateway: the poll, a browser that connects, the resync of  *)
(* a connection, named by its number, for the snapshot; the handling of a  *)
(* terminal event for the history.                                         *)
Resync == 1 .. MaxConns
Task == {Poll, Terminal} \cup Client \cup Resync

VARIABLES
    (* the gateway and the socket *)
    gatewayUp,
    socket,    \* none, open, closed
    (* GatewayConnection *)
    listener,  \* none, on, ended
    pending,   \* requests under way: whose, on which connection
    events,    \* events not yet taken
    (* SharedGateway *)
    sup,       \* connecting, backoff, reading, closing, hanging up, ended
    nconn,     \* number of connections so far
    conn,      \* the current one or None
    connected,
    last,      \* _last_status
    (* SynapseHub *)
    running,
    cache,     \* the connection the snapshot was fetched on, or None
    lockq,     \* _sessions_lock: its holder and those who wait
    task,      \* Task -> off, starts, waits (in lockq), asks, replays, calls
    rows,      \* Resync -> the connection its rows were fetched on, or None
    (* ConnectionManager and the browsers *)
    joined,    \* browsers with a channel
    told,      \* Client -> what it was last told of the gateway, or None
    (* bounds *)
    nevents, bad, visits

socketVars == <<gatewayUp, socket>>
connVars == <<listener, pending, events>>
gatewayVars == <<sup, nconn, conn, connected, last>>
hubVars == <<running, cache, lockq, task, rows>>
clientVars == <<joined, told>>
counters == <<nevents, bad, visits>>
vars == <<socketVars, connVars, gatewayVars, hubVars, clientVars, counters>>

Init ==
    /\ gatewayUp \in BOOLEAN
    /\ socket = "none"
    /\ listener = "none"
    /\ pending = {}
    /\ events = 0
    /\ sup = "connecting"
    /\ nconn = 0
    /\ conn = None
    /\ connected = FALSE
    /\ last = None
    /\ running = TRUE
    /\ cache = None
    /\ lockq = <<>>
    /\ task = [t \in Task |-> "off"]
    /\ rows = [n \in Resync |-> None]
    /\ joined = {}
    /\ told = [c \in Client |-> None]
    /\ nevents = 0
    /\ bad = 0
    /\ visits = 0

-----------------------------------------------------------------------------
(* agent_statuses and _cached_sessions.                                    *)

Goes(t, where) == task' = [task EXCEPT ![t] = where]

(* What a task does with the rows it has, fetched on connection from, or   *)
(* None: the poll and the resync broadcast them, the resync goes on to     *)
(* replay the history, the browser is told that it is connected.           *)
HasRows(t, from) ==
    /\ Goes(t, IF t \in Resync THEN "replays" ELSE "off")
    /\ rows' = IF t \in Resync THEN [rows EXCEPT ![t] = from] ELSE rows
    /\ told' = IF t \in Client /\ t \in joined THEN [told EXCEPT ![t] = connected] ELSE told

(* The first look: offline, a snapshot that has not expired, or the lock.  *)
Looks(t) ==
    IF ~connected THEN HasRows(t, None) /\ UNCHANGED lockq
    ELSE IF cache # None THEN HasRows(t, cache) /\ UNCHANGED lockq
    ELSE /\ Goes(t, "waits")
         /\ lockq' = Append(lockq, t)
         /\ UNCHANGED <<told, rows>>

Pending(t) == \E n \in Resync : <<t, n>> \in pending
Answerable(t) == <<t, nconn>> \in pending /\ socket = "open" /\ listener = "on"

Holder(t) == lockq # <<>> /\ Head(lockq) = t

(* A request is sent, on the current connection, or raises at once.        *)
Sendable == conn # None /\ socket # "closed"

(* With the lock: the second look, then sessions.list, which raises at     *)
(* once without a connection or on a closed socket.                        *)
Asks(t) ==
    /\ task[t] = "waits" /\ Holder(t)
    /\ IF cache # None \/ ~Sendable
       THEN /\ HasRows(t, cache)
            /\ lockq' = Tail(lockq)
            /\ UNCHANGED pending
       ELSE /\ Goes(t, "asks")
            /\ pending' = pending \cup {<<t, nconn>>}
            /\ UNCHANGED <<told, rows, lockq>>
    /\ UNCHANGED <<socketVars, listener, events, gatewayVars, running, cache, joined, counters>>

(* The reader reads the answer. *)
Answered(t) ==
    /\ task[t] = "asks" /\ Answerable(t)
    /\ cache' = conn
    /\ pending' = {p \in pending : p[1] # t}
    /\ lockq' = Tail(lockq)
    /\ HasRows(t, conn)
    /\ UNCHANGED <<socketVars, listener, events, gatewayVars, running, joined, counters>>

(* The request has failed, with its connection or by its timeout of 5 s.   *)
Failed(t) ==
    /\ task[t] = "asks"
    /\ pending' = {p \in pending : p[1] # t}
    /\ lockq' = Tail(lockq)
    /\ HasRows(t, None)
    /\ UNCHANGED <<socketVars, listener, events, gatewayVars, running, cache, joined, counters>>

ConnectionError(t) == ~Pending(t) /\ Failed(t)
Timeout(t) == Pending(t) /\ Failed(t)

SnapshotExpires ==
    /\ cache # None
    /\ cache' = None
    /\ UNCHANGED <<socketVars, connVars, gatewayVars, running, lockq, task, rows, clientVars,
                   counters>>

-----------------------------------------------------------------------------
(* Status changes: SharedGateway._emit_status, SynapseHub._on_gateway_status *)

Emit(b) ==
    IF b = last THEN UNCHANGED <<last, told, task>>
    ELSE /\ last' = b
         /\ told' = [c \in Client |-> IF c \in joined THEN b ELSE told[c]]
         /\ IF b THEN Goes(nconn', "starts") ELSE UNCHANGED task

(* Defect: the resync takes the snapshot that is there. *)
ResyncFromCache(n) ==
    /\ task[n] = "starts"
    /\ Looks(n)
    /\ UNCHANGED <<socketVars, connVars, gatewayVars, running, cache, joined, counters>>

(* _resync_after_reconnect drops the snapshot first. *)
ResyncStarts(n) ==
    /\ task[n] = "starts"
    /\ cache' = None
    /\ IF connected THEN /\ Goes(n, "waits")
                         /\ lockq' = Append(lockq, n)
                         /\ UNCHANGED <<told, rows>>
       ELSE HasRows(n, None) /\ UNCHANGED lockq
    /\ UNCHANGED <<socketVars, connVars, gatewayVars, running, joined, counters>>

(* _status_poll_loop, when there is a browser to tell. *)
PollTicks ==
    /\ running /\ task[Poll] = "off"
    /\ connected /\ joined # {}
    /\ Looks(Poll)
    /\ UNCHANGED <<socketVars, connVars, gatewayVars, running, cache, joined, counters>>

-----------------------------------------------------------------------------
(* Other requests: the history for a resync or a terminal event, and what  *)
(* a browser asks for on its socket (HubRuns).                             *)

Calls(t) ==
    /\ \/ task[t] = "replays"
       \/ t \in joined /\ task[t] = "off" /\ told[t] # None
    /\ IF ~Sendable
       THEN t \notin Client /\ Goes(t, "off") /\ UNCHANGED pending
       ELSE Goes(t, "calls") /\ pending' = pending \cup {<<t, nconn>>}
    /\ UNCHANGED <<socketVars, listener, events, gatewayVars, running, cache, lockq, rows,
                   clientVars, counters>>

CallAnswered(t) ==
    /\ task[t] = "calls" /\ Answerable(t)
    /\ pending' = {p \in pending : p[1] # t}
    /\ Goes(t, "off")
    /\ UNCHANGED <<socketVars, listener, events, gatewayVars, running, cache, lockq, rows,
                   clientVars, counters>>

CallFails(t) ==
    /\ task[t] = "calls"
    /\ pending' = {p \in pending : p[1] # t}
    /\ Goes(t, "off")
    /\ UNCHANGED <<socketVars, listener, events, gatewayVars, running, cache, lockq, rows,
                   clientVars, counters>>

CallError(t) == ~Pending(t) /\ CallFails(t)
CallTimeout(t) == Pending(t) /\ CallFails(t)

-----------------------------------------------------------------------------
(* The gateway and GatewayConnection._listen.                              *)

EventComes ==
    /\ socket = "open" /\ listener = "on"
    /\ nevents < MaxEvents
    /\ nevents' = nevents + 1
    /\ events' = events + 1
    /\ UNCHANGED <<socketVars, listener, pending, gatewayVars, hubVars, clientVars, bad, visits>>

SocketCloses ==
    /\ socket = "open"
    /\ nconn < MaxConns
    /\ socket' = "closed"
    /\ gatewayUp' \in BOOLEAN
    /\ UNCHANGED <<connVars, gatewayVars, hubVars, clientVars, counters>>

GatewayReturns ==
    /\ ~gatewayUp
    /\ gatewayUp' = TRUE
    /\ UNCHANGED <<socket, connVars, gatewayVars, hubVars, clientVars, counters>>

(* Defect: the reader leaves the requests to close. *)
ListenerEndsOnly ==
    /\ listener = "on" /\ socket = "closed"
    /\ listener' = "ended"
    /\ UNCHANGED <<socketVars, pending, events, gatewayVars, hubVars, clientVars, counters>>

(* The socket has closed: all pending requests fail, and the sentinel      *)
(* follows the events in the queue.                                        *)
ListenerEnds ==
    /\ listener = "on" /\ socket = "closed"
    /\ listener' = "ended"
    /\ pending' = {}
    /\ UNCHANGED <<socketVars, events, gatewayVars, hubVars, clientVars, counters>>

(* The same when a frame raises in the reader, with the socket still open. *)
BadFrame ==
    /\ listener = "on" /\ socket = "open"
    /\ bad < MaxBadFrames /\ nconn < MaxConns
    /\ bad' = bad + 1
    /\ listener' = "ended"
    /\ pending' = {}
    /\ UNCHANGED <<socketVars, events, gatewayVars, hubVars, clientVars, nevents, visits>>

-----------------------------------------------------------------------------
(* SharedGateway._supervise.                                               *)

(* GatewayConnection.connect: the socket is open and has said hello, the   *)
(* reader runs, the queue of events is new.                                *)
Opens ==
    /\ gatewayUp
    /\ socket' = "open"
    /\ listener' = "on"
    /\ events' = 0

Connects ==
    /\ sup = "connecting"
    /\ nconn < MaxConns
    /\ Opens
    /\ sup' = "reading"
    /\ nconn' = nconn + 1
    /\ conn' = nconn + 1
    /\ connected' = TRUE
    /\ Emit(TRUE)
    /\ UNCHANGED <<gatewayUp, pending, running, cache, lockq, rows, joined, counters>>

(* Defect: a gateway that is away ends the supervisor. *)
ConnectFailsForGood ==
    /\ sup = "connecting" /\ ~gatewayUp
    /\ sup' = "ended"
    /\ Emit(FALSE)
    /\ UNCHANGED <<socketVars, connVars, nconn, conn, connected, running, cache, lockq, rows,
                   joined, counters>>

ConnectFails ==
    /\ sup = "connecting" /\ ~gatewayUp
    /\ sup' = "backoff"
    /\ Emit(FALSE)
    /\ UNCHANGED <<socketVars, connVars, nconn, conn, connected, running, cache, lockq, rows,
                   joined, counters>>

Retries ==
    /\ sup = "backoff"
    /\ sup' = "connecting"
    /\ UNCHANGED <<socketVars, connVars, nconn, conn, connected, last, hubVars, clientVars,
                   counters>>

(* next_event: the next of the queue, or the sentinel behind all of them,  *)
(* which stays there and raises ConnectionError.                           *)
NextEvent == events > 0 /\ events' = events - 1
Sentinel == events = 0 /\ listener = "ended"

(* An event is handled at once, or spawns the task of a terminal event.    *)
TakesEvent ==
    /\ sup = "reading" /\ NextEvent
    /\ \/ UNCHANGED task
       \/ task[Terminal] = "off" /\ Goes(Terminal, "replays")
    /\ UNCHANGED <<socketVars, listener, pending, gatewayVars, running, cache, lockq, rows,
                   clientVars, counters>>

(* Defect: clients are not told that the connection was lost. *)
LosesConnectionQuietly ==
    /\ sup = "reading" /\ Sentinel
    /\ sup' = "closing"
    /\ conn' = None
    /\ connected' = FALSE
    /\ UNCHANGED <<socketVars, connVars, nconn, last, hubVars, clientVars, counters>>

(* The clients are told, the finally begins to close the connection.       *)
LosesConnection ==
    /\ sup = "reading" /\ Sentinel
    /\ sup' = "closing"
    /\ conn' = None
    /\ connected' = FALSE
    /\ Emit(FALSE)
    /\ UNCHANGED <<socketVars, connVars, nconn, running, cache, lockq, rows, joined, counters>>

(* close: the listener is awaited, then the closing of the socket; then    *)
(* what is still pending fails, and the loop goes round while running.     *)
ListenerAwaited ==
    /\ sup = "closing"
    /\ sup' = "hanging up"
    /\ listener' = "ended"
    /\ pending' = IF listener = "on" THEN {} ELSE pending
    /\ UNCHANGED <<socketVars, events, nconn, conn, connected, last, hubVars, clientVars, counters>>

HungUp ==
    /\ sup = "hanging up"
    /\ socket' = "none"
    /\ listener' = "none"
    /\ pending' = {}
    /\ sup' = IF running THEN "connecting" ELSE "ended"
    /\ UNCHANGED <<gatewayUp, events, nconn, conn, connected, last, hubVars, clientVars, counters>>

-----------------------------------------------------------------------------
(* SynapseHub.stop: the poll and the spawned tasks are cancelled, then the *)
(* supervisor, which is awaited; then the channels are shut down.          *)

Cancelled == {Poll, Terminal} \cup Resync

(* The cancellation reaches the supervisor at its await: it ends at once,  *)
(* or closes its connection first; in close it is suppressed while the     *)
(* listener is awaited, and ends the supervisor with the closing socket.   *)
StopsGateway ==
    CASE sup \in {"connecting", "backoff", "ended"} ->
            sup' = "ended" /\ UNCHANGED <<conn, connected>>
      [] sup = "reading" ->
            sup' = "closing" /\ conn' = None /\ connected' = FALSE
      [] sup = "closing" -> UNCHANGED <<sup, conn, connected>>
      [] sup = "hanging up" -> sup' = "ended" /\ UNCHANGED <<conn, connected>>

(* A queue has the order of another one that has all its tasks. *)
InOrder(q, p) ==
    \A i, j \in 1 .. Len(q), k, l \in 1 .. Len(p) :
        i < j /\ q[i] = p[k] /\ q[j] = p[l] => k < l

(* Who is cancelled leaves the lock, or the queue for it. *)
LeaveLock(gone) ==
    \E q \in SeqOf(ToSet(lockq) \ gone, Len(lockq)) :
        /\ ToSet(q) = ToSet(lockq) \ gone
        /\ InOrder(q, lockq)
        /\ lockq' = q

Stop ==
    /\ running
    /\ running' = FALSE
    /\ task' = [t \in Task |-> IF t \in Cancelled THEN "off" ELSE task[t]]
    /\ LeaveLock(Cancelled)
    /\ pending' = {p \in pending : p[1] \notin Cancelled}
    /\ StopsGateway
    /\ UNCHANGED <<socketVars, listener, events, nconn, last, cache, rows, clientVars, counters>>

ShutdownAll ==
    /\ ~running /\ sup = "ended" /\ joined # {}
    /\ joined' = {}
    /\ told' = [c \in Client |-> None]
    /\ UNCHANGED <<socketVars, connVars, gatewayVars, hubVars, counters>>

-----------------------------------------------------------------------------
(* handle_connect and handle_disconnect.                                   *)

Visits(c) ==
    /\ running /\ c \notin joined /\ task[c] = "off"
    /\ visits < MaxVisits
    /\ visits' = visits + 1
    /\ joined' = joined \cup {c}
    /\ IF connected /\ cache = None
       THEN /\ Goes(c, "waits")
            /\ lockq' = Append(lockq, c)
            /\ UNCHANGED told
       ELSE /\ told' = [told EXCEPT ![c] = connected]
            /\ UNCHANGED <<task, lockq>>
    /\ UNCHANGED <<socketVars, connVars, gatewayVars, running, cache, rows, nevents, bad>>

Leaves(c) ==
    /\ c \in joined /\ task[c] = "off"
    /\ joined' = joined \ {c}
    /\ told' = [told EXCEPT ![c] = None]
    /\ UNCHANGED <<socketVars, connVars, gatewayVars, hubVars, counters>>

-----------------------------------------------------------------------------
(* What a task does next: only a browser's requests are its user's choice. *)
TaskStep(t) ==
    \/ Asks(t) \/ Answered(t) \/ ConnectionError(t) \/ CallAnswered(t) \/ CallError(t)
    \/ t \in Resync /\ ResyncStarts(t)
    \/ t \notin Client /\ Calls(t)

Supervises ==
    \/ Connects \/ ConnectFails \/ Retries \/ TakesEvent \/ LosesConnection \/ ListenerAwaited
    \/ HungUp

Next ==
    \/ \E t \in Task : TaskStep(t) \/ Timeout(t) \/ CallTimeout(t)
    \/ \E c \in Client : Calls(c)
    \/ SnapshotExpires \/ PollTicks
    \/ EventComes \/ SocketCloses \/ GatewayReturns \/ ListenerEnds \/ BadFrame
    \/ Supervises
    \/ Stop \/ ShutdownAll
    \/ \E c \in Client : Visits(c) \/ Leaves(c)

Spec == Init /\ [][Next]_vars

(* The gateway answers what it has received while the socket is open, and  *)
(* comes back.  A socket that closes ends its reader.  The event loop runs *)
(* what is due; nothing waits for a timeout.                               *)
Fairness ==
    /\ \A t \in Task : WF_vars(TaskStep(t))
    /\ WF_vars(ListenerEnds)
    /\ WF_vars(GatewayReturns)
    /\ WF_vars(Supervises)
    /\ WF_vars(ShutdownAll)

FairSpec == Spec /\ Fairness

-----------------------------------------------------------------------------
(* Properties.                                                             *)

(* Types, and: connected is told by the connection in use.                 *)
TypeOK ==
    /\ {gatewayUp, connected, running} \subseteq BOOLEAN
    /\ socket \in {"none", "open", "closed"}
    /\ listener \in {"none", "on", "ended"}
    /\ pending \subseteq Task \X Resync
    /\ sup \in {"connecting", "backoff", "reading", "closing", "hanging up", "ended"}
    /\ conn \in {None, nconn}
    /\ connected <=> conn # None
    /\ last \in BOOLEAN \cup {None}
    /\ cache \in Resync \cup {None}
    /\ task \in [Task -> {"off", "starts", "waits", "asks", "replays", "calls"}]
    /\ rows \in [Resync -> Resync \cup {None}]
    /\ joined \subseteq Client
    /\ told \in [Client -> BOOLEAN \cup {None}]
    /\ {nconn, events, nevents, bad, visits} \subseteq Nat

(* The lock of the sessions snapshot is queued for by the tasks that wait  *)
(* or ask, and only its holder asks.                                       *)
OneAsks ==
    /\ ToSet(lockq) = {t \in Task : task[t] \in {"waits", "asks"}}
    /\ \A t \in Task : task[t] = "asks" => Holder(t)

(* While the hub runs, every browser that was told something of the        *)
(* gateway was told what holds: the status in its first frame and the      *)
(* changes broadcast since, which are only sent when they are changes, add *)
(* up.                                                                     *)
ToldIsTrue ==
    running => \A c \in Client : told[c] \in {None, connected}

(* A resync shows no snapshot of an earlier connection ("force a fresh     *)
(* snapshot post-reconnect"), though its fetch is shared with tasks that   *)
(* have waited since before, and may itself have been late.                *)
ResyncIsFresh ==
    \A n \in Resync : rows[n] # None => rows[n] >= n

(* No request is left to its timeout by a socket that has closed: not one  *)
(* sent before, and not one sent by a browser, a resync or the task of a   *)
(* terminal event while its end was still to be noticed.                   *)
NobodyWaitsOnTheDead ==
    listener = "ended" /\ bad = 0 => pending = {}

(* The connection, its lock and its requests are well formed, and no       *)
(* request is left behind.                                                 *)
Inv == TypeOK /\ OneAsks /\ NobodyWaitsOnTheDead

(* Every request, of the poll, a resync, a terminal event or a browser,    *)
(* and every wait for the shared snapshot comes to an end without its      *)
(* timeout, whatever the connection does: also when the reader has died    *)
(* under an open socket.                                                   *)
RequestsEnd ==
    \A t \in Task : task[t] # "off" ~> (task[t] = "off" \/ ~running)

(* A stop ends the supervisor and the browsers' channels, wherever the     *)
(* cancellation meets the supervisor: also in close, which suppresses it.  *)
StopEnds ==
    ~running ~> (sup = "ended" /\ joined = {})

(* The gateway is reached again after every loss.                          *)
Reconnects ==
    []<>(running => socket = "open" /\ listener = "on")

(* Nothing hangs: requests and a stop come to their end, losses are made   *)
(* good.                                                                   *)
NothingHangs == RequestsEnd /\ StopEnds /\ Reconnects
=============================================================================
