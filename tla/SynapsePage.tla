---------------------------- MODULE SynapsePage -----------------------------
(***************************************************************************)
(* A Synapse page and its connection to the hub, end to end: the page with *)
(* its successive sockets, reconnect timer and watchdog (static/           *)
(* synapse.js), the websocket endpoint of each socket (api/routers/        *)
(* synapse.py), handle_connect, the frames subscribe and message,          *)
(* _send_history, the resync (services/synapse_hub.py) and the             *)
(* ConnectionManager, which keeps one channel per client id.               *)
(*                                                                         *)
(* The page has one pane on one agent.  A socket may die on both sides     *)
(* without a word; the endpoint of a socket the page has left may still be *)
(* connecting when that of the next has registered; the gateway may go     *)
(* away under a request.  How a run's reply finds its watchers is in       *)
(* HubRuns, the queue of a channel in ClientChannel.  PageProofs extends   *)
(* this module and Models, so names that both need begin with SP here.     *)
(***************************************************************************)
EXTENDS Naturals, FiniteSets, Sequences

CONSTANTS
    Message,     \* what the user sends
    Nil,
    MaxSockets,  \* bound: sockets the page opens
    MaxMishaps    \* bound: dead sockets, outages, refused connects, impatient reconnects

(* What an endpoint is at when it is not sending a message.                *)
EndpointState == {"none", "connecting", "receiving", "history", "refused", "ended"}

ASSUME SynapsePageAssumption ==
    /\ IsFiniteSet(Message)
    /\ Nil \notin Message \cup Nat
    /\ Message \cap EndpointState = {}
    /\ MaxSockets \in Nat \ {0}
    /\ MaxMishaps \in Nat

Socket == 1 .. MaxSockets

VARIABLES
    (* the page *)
    wsEpoch,   \* the current socket
    ws,        \* Socket -> none, connecting, open, closed
    timer,     \* reconnectTimer is set
    messages,  \* what the pane shows: <<"user", m>>, <<"reply", m>>
    awaited,   \* pendingRunId: the message whose reply is awaited, or Nil
    (* the network *)
    dead,      \* sockets that deliver nothing any more
    up,        \* Socket -> frames on their way to the endpoint
    (* the endpoints *)
    ep,        \* Socket -> none, connecting, receiving, history, refused, a message, ended
    closed,    \* sockets the server has closed
    (* ConnectionManager *)
    channel,   \* the socket of the client's channel, or Nil
    subscribed,
    down,      \* frames of the channel the page has not had
    (* the hub and the gateway *)
    connected,
    resync,    \* _resync_after_reconnect: none, due, asked, refused
    run,       \* Message -> none, typed, running, ended, done
    wiped,     \* the last history frame is empty because the gateway was late
    (* bounds *)
    mishaps

pageVars == <<wsEpoch, ws, timer, messages, awaited>>
networkVars == <<dead, up>>
endpointVars == <<ep, closed>>
managerVars == <<channel, subscribed, down>>
hubVars == <<connected, resync, run, wiped>>
spVars == <<pageVars, networkVars, endpointVars, managerVars, hubVars, mishaps>>

SPInit ==
    /\ wsEpoch = 1
    /\ ws = [e \in Socket |-> IF e = 1 THEN "connecting" ELSE "none"]
    /\ timer = FALSE
    /\ messages = {}
    /\ awaited = Nil
    /\ dead = {}
    /\ up = [e \in Socket |-> <<>>]
    /\ ep = [e \in Socket |-> IF e = 1 THEN "connecting" ELSE "none"]
    /\ closed = {}
    /\ channel = Nil
    /\ subscribed = FALSE
    /\ down = <<>>
    /\ connected = TRUE
    /\ resync = "none"
    /\ run = [m \in Message |-> "none"]
    /\ wiped = FALSE
    /\ mishaps = 0

Mishap == mishaps < MaxMishaps /\ mishaps' = mishaps + 1

(* What chat.history holds. *)
Transcript ==
    {<<"user", m>> : m \in {n \in Message : run[n] \in {"running", "ended", "done"}}}
        \cup {<<"reply", m>> : m \in {n \in Message : run[n] \in {"ended", "done"}}}

Frame(type, what) == [type |-> type, what |-> what]
SendToClient(f) == down' = IF channel = Nil THEN down ELSE Append(down, f)

-----------------------------------------------------------------------------
(* The page: connectSynapse and the callbacks of the current socket.       *)

ConnectSynapse ==
    /\ wsEpoch < MaxSockets
    /\ wsEpoch' = wsEpoch + 1
    /\ ws' = [ws EXCEPT ![wsEpoch] = "closed", ![wsEpoch + 1] = "connecting"]
    /\ ep' = [ep EXCEPT ![wsEpoch + 1] = "connecting"]
    /\ timer' = FALSE
    /\ UNCHANGED <<messages, awaited, networkVars, closed, managerVars, hubVars>>

TimerFires == timer /\ ConnectSynapse /\ UNCHANGED mishaps

(* The button, or the page is shown or online again. *)
ReconnectNow == Mishap /\ ConnectSynapse

(* Defect: the panes do not subscribe on a new socket. *)
OnOpenOnly ==
    LET e == wsEpoch IN
    /\ ws[e] = "connecting" /\ e \notin dead \cup closed
    /\ ep[e] # "connecting"
    /\ ws' = [ws EXCEPT ![e] = "open"]
    /\ up' = IF e = 1 THEN [up EXCEPT ![e] = Append(@, Frame("subscribe", Nil))] ELSE up
    /\ UNCHANGED <<wsEpoch, timer, messages, awaited, dead, endpointVars, managerVars,
                   hubVars, mishaps>>

(* The endpoint has accepted: the pane subscribes. *)
OnOpen ==
    LET e == wsEpoch IN
    /\ ws[e] = "connecting" /\ e \notin dead \cup closed
    /\ ep[e] # "connecting"
    /\ ws' = [ws EXCEPT ![e] = "open"]
    /\ up' = [up EXCEPT ![e] = Append(@, Frame("subscribe", Nil))]
    /\ UNCHANGED <<wsEpoch, timer, messages, awaited, dead, endpointVars, managerVars,
                   hubVars, mishaps>>

(* Nothing is heard, not even a pong: those go through the channel. *)
Stalled(e) == e \in dead \/ channel # e

(* Defect: there is no watchdog, so a socket that dies stays. *)
OnSocketCloseOnly ==
    /\ ws[wsEpoch] \in {"connecting", "open"}
    /\ wsEpoch \in closed \ dead
    /\ ws' = [ws EXCEPT ![wsEpoch] = "closed"]
    /\ timer' = TRUE
    /\ UNCHANGED <<wsEpoch, messages, awaited, networkVars, endpointVars, managerVars,
                   hubVars, mishaps>>

(* The server has closed the socket, the browser gives up connecting, or   *)
(* the watchdog closes it; then the close event sets the timer.            *)
OnSocketClose ==
    LET e == wsEpoch IN
    /\ \/ ws[e] \in {"connecting", "open"} /\ e \in closed
       \/ ws[e] = "connecting" /\ e \in dead
       \/ ws[e] = "open" /\ Stalled(e)
    /\ ws' = [ws EXCEPT ![e] = "closed"]
    /\ timer' = TRUE
    /\ UNCHANGED <<wsEpoch, messages, awaited, networkVars, endpointVars, managerVars,
                   hubVars, mishaps>>

IsSocketOpen == ws[wsEpoch] = "open"
SendFrame(f) == up' = IF IsSocketOpen THEN [up EXCEPT ![wsEpoch] = Append(@, f)] ELSE up

(* sendPaneMessage: shown and awaited, also when the socket is not open    *)
(* and the frame is not sent.                                              *)
SendFromPane(m) ==
    /\ run[m] = "none"
    /\ run' = [run EXCEPT ![m] = "typed"]
    /\ messages' = messages \cup {<<"user", m>>}
    /\ awaited' = m
    /\ SendFrame(Frame("message", m))
    /\ UNCHANGED <<wsEpoch, ws, timer, dead, endpointVars, managerVars, connected, resync, wiped,
                   mishaps>>

SetHistory(history) == messages' = history /\ awaited' = Nil
MarkAck(m) == awaited' = m /\ UNCHANGED messages
AppendAgentMessage(m) == messages' = messages \cup {<<"reply", m>>} /\ awaited' = Nil
AppendSystem == awaited' = Nil /\ UNCHANGED messages

OnFrame ==
    LET f == Head(down) IN
    /\ down # <<>>
    /\ channel = wsEpoch /\ ws[wsEpoch] = "open" /\ wsEpoch \notin dead
    /\ down' = Tail(down)
    /\ CASE f.type = "history" -> SetHistory(f.what)
         [] f.type = "ack" -> MarkAck(f.what)
         [] f.type = "message" -> AppendAgentMessage(f.what)
         [] OTHER -> AppendSystem
    /\ UNCHANGED <<wsEpoch, ws, timer, networkVars, endpointVars, channel, subscribed,
                   hubVars, mishaps>>

-----------------------------------------------------------------------------
(* The endpoint: handle_connect, then one frame after the other.           *)

(* ConnectionManager.connect, once the socket is accepted, whichever of    *)
(* the page's it is: the channel that is there is shut down.               *)
Connects(e) ==
    /\ ep[e] = "connecting"
    /\ channel' = e
    /\ down' = <<>>
    /\ closed' = IF channel = Nil THEN closed ELSE closed \cup {channel}
    /\ ep' = [ep EXCEPT ![e] = "receiving"]
    /\ UNCHANGED <<pageVars, networkVars, subscribed, hubVars, mishaps>>

(* Accepting a socket that is gone may raise. *)
AcceptRaises(e) ==
    /\ ep[e] = "connecting"
    /\ ws[e] = "closed" \/ e \in dead
    /\ ep' = [ep EXCEPT ![e] = "ended"]
    /\ closed' = closed \cup {e}
    /\ UNCHANGED <<pageVars, networkVars, managerVars, hubVars, mishaps>>

(* _connect_rate_exceeded: the socket is closed and not registered, and    *)
(* the endpoint goes on to receive.                                        *)
Refuses(e) ==
    /\ ep[e] = "connecting"
    /\ Mishap
    /\ ep' = [ep EXCEPT ![e] = "receiving"]
    /\ closed' = closed \cup {e}
    /\ UNCHANGED <<pageVars, networkVars, managerVars, hubVars>>

(* handle_frame: ConnectionManager.subscribe and the start of              *)
(* _send_history, or _handle_message until chat.send is out.               *)
Receives(e) ==
    LET f == Head(up[e]) IN
    /\ ep[e] = "receiving" /\ up[e] # <<>> /\ e \notin dead \cup closed
    /\ up' = [up EXCEPT ![e] = Tail(@)]
    /\ \/ /\ f.type = "subscribe" /\ connected
          /\ subscribed' = TRUE
          /\ ep' = [ep EXCEPT ![e] = "history"]
          /\ UNCHANGED down
       \/ /\ f.type = "subscribe" /\ ~connected
          /\ subscribed' = TRUE
          /\ SendToClient(Frame("history", {}))
          /\ UNCHANGED ep
       \/ /\ f.type = "message" /\ connected
          /\ ep' = [ep EXCEPT ![e] = f.what]
          /\ UNCHANGED <<subscribed, down>>
       \/ /\ f.type = "message" /\ ~connected
          /\ SendToClient(Frame("error", Nil))
          /\ UNCHANGED <<subscribed, ep>>
    /\ UNCHANGED <<pageVars, dead, closed, channel, hubVars, mishaps>>

(* The answer of chat.history, to whichever socket is the client's now. *)
SubscribeAnswered(e) ==
    /\ ep[e] = "history"
    /\ ep' = [ep EXCEPT ![e] = "receiving"]
    /\ SendToClient(Frame("history", Transcript))
    /\ wiped' = FALSE
    /\ UNCHANGED <<pageVars, networkVars, closed, channel, subscribed, connected, resync,
                   run, mishaps>>

(* The gateway has gone under the request: an empty history. *)
SubscribeRefused(e) ==
    /\ ep[e] = "refused"
    /\ ep' = [ep EXCEPT ![e] = "receiving"]
    /\ SendToClient(Frame("history", {}))
    /\ UNCHANGED <<pageVars, networkVars, closed, channel, subscribed, hubVars, mishaps>>

(* chat.history takes more than its 30 s. *)
SubscribeTimesOut(e) ==
    /\ ep[e] = "history"
    /\ Mishap
    /\ ep' = [ep EXCEPT ![e] = "receiving"]
    /\ SendToClient(Frame("history", {}))
    /\ wiped' = TRUE
    /\ UNCHANGED <<pageVars, networkVars, closed, channel, subscribed, connected, resync, run>>

SendAccepted(e) ==
    /\ ep[e] \in Message
    /\ run' = [run EXCEPT ![ep[e]] = "running"]
    /\ SendToClient(Frame("ack", ep[e]))
    /\ ep' = [ep EXCEPT ![e] = "receiving"]
    /\ UNCHANGED <<pageVars, networkVars, closed, channel, subscribed, connected, resync,
                   wiped, mishaps>>

(* Defect: the cleanup does not ask whose socket is registered. *)
EndpointEndsAny(e) ==
    /\ ep[e] = "receiving"
    /\ \/ e \in dead \cup closed
       \/ ws[e] = "closed" /\ up[e] = <<>>
    /\ ep' = [ep EXCEPT ![e] = "ended"]
    /\ closed' = closed \cup {e}
    /\ channel' = Nil
    /\ subscribed' = FALSE
    /\ down' = <<>>
    /\ UNCHANGED <<pageVars, networkVars, hubVars, mishaps>>

(* The socket is gone: handle_disconnect unregisters the client, unless    *)
(* another socket of its is registered by now.                             *)
EndpointEnds(e) ==
    /\ ep[e] = "receiving"
    /\ \/ e \in dead \cup closed
       \/ ws[e] = "closed" /\ up[e] = <<>>
    /\ ep' = [ep EXCEPT ![e] = "ended"]
    /\ closed' = closed \cup {e}
    /\ IF channel = e
       THEN channel' = Nil /\ subscribed' = FALSE /\ down' = <<>>
       ELSE UNCHANGED managerVars
    /\ UNCHANGED <<pageVars, networkVars, hubVars, mishaps>>

-----------------------------------------------------------------------------
(* The hub: a run ends, the gateway comes and goes.                        *)

(* The gateway ends the run; without a connection nobody is told. *)
RunEnds(m) ==
    /\ run[m] = "running"
    /\ run' = [run EXCEPT ![m] = IF connected THEN "ended" ELSE "done"]
    /\ UNCHANGED <<pageVars, networkVars, endpointVars, managerVars, connected, resync,
                   wiped, mishaps>>

(* _deliver_terminal (HubRuns): the reply to those who watch the agent. *)
DeliverTerminal(m) ==
    /\ run[m] = "ended"
    /\ run' = [run EXCEPT ![m] = "done"]
    /\ IF subscribed THEN SendToClient(Frame("message", m)) ELSE UNCHANGED down
    /\ UNCHANGED <<pageVars, networkVars, endpointVars, channel, subscribed, connected,
                   resync, wiped, mishaps>>

(* _on_gateway_status(FALSE): every request fails, the one that was to     *)
(* send a message with an error frame, whether or not it was accepted.     *)
(* The error frame that is broadcast names no message and changes no pane; *)
(* it is left out.                                                         *)
GatewayDrops ==
    /\ connected
    /\ Mishap
    /\ connected' = FALSE
    /\ resync' = IF resync = "asked" THEN "refused" ELSE resync
    /\ LET sending == {e \in Socket : ep[e] \in Message} IN
       /\ ep' = [e \in Socket |-> IF e \in sending THEN "receiving"
                                  ELSE IF ep[e] = "history" THEN "refused" ELSE ep[e]]
       /\ IF sending = {} THEN UNCHANGED down ELSE SendToClient(Frame("error", Nil))
       /\ \E accepted \in SUBSET {ep[e] : e \in sending} :
             run' = [m \in Message |-> IF m \in accepted THEN "running" ELSE run[m]]
    /\ UNCHANGED <<pageVars, networkVars, closed, channel, subscribed, wiped>>

(* The supervisor connects again, at once or, when that fails, after a     *)
(* pause; the hello of a new socket takes at least a round trip, and the   *)
(* requests that failed with the old one have raised by then.              *)
GatewayBack ==
    /\ ~connected /\ resync = "none"
    /\ \A e \in Socket : ep[e] # "refused"
    /\ connected' = TRUE
    /\ resync' = "due"
    /\ UNCHANGED <<pageVars, networkVars, endpointVars, managerVars, run, wiped, mishaps>>

(* Defect: the resync broadcasts the statuses and replays no history. *)
ResyncAsksNothing ==
    /\ resync = "due"
    /\ resync' = "none"
    /\ UNCHANGED <<pageVars, networkVars, endpointVars, managerVars, connected, run,
                   wiped, mishaps>>

(* _resync_after_reconnect, when it has the statuses: the client is there  *)
(* and watches the agent, or it is passed over.                            *)
ResyncAsks ==
    /\ resync = "due"
    /\ resync' = IF ~subscribed \/ channel = Nil THEN "none"
                 ELSE IF connected THEN "asked" ELSE "refused"
    /\ UNCHANGED <<pageVars, networkVars, endpointVars, managerVars, connected, run,
                   wiped, mishaps>>

ResyncAnswered ==
    /\ resync \in {"asked", "refused"}
    /\ resync' = "none"
    /\ SendToClient(Frame("history", IF resync = "asked" THEN Transcript ELSE {}))
    /\ wiped' = (wiped /\ resync = "refused")
    /\ UNCHANGED <<pageVars, networkVars, endpointVars, channel, subscribed, connected,
                   run, mishaps>>

ResyncTimesOut ==
    /\ resync = "asked"
    /\ Mishap
    /\ resync' = "none"
    /\ SendToClient(Frame("history", {}))
    /\ wiped' = TRUE
    /\ UNCHANGED <<pageVars, networkVars, endpointVars, channel, subscribed, connected, run>>

(* A socket stops carrying anything, and neither side is told. *)
LinkDies(e) ==
    /\ ep[e] \notin {"none", "ended"} /\ e \notin dead
    /\ Mishap
    /\ dead' = dead \cup {e}
    /\ UNCHANGED <<pageVars, up, endpointVars, managerVars, hubVars>>

-----------------------------------------------------------------------------
PageStep == TimerFires \/ OnOpen \/ OnSocketClose \/ OnFrame

EndpointStep(e) ==
    \/ Connects(e) \/ AcceptRaises(e) \/ Receives(e)
    \/ SubscribeAnswered(e) \/ SubscribeRefused(e) \/ SendAccepted(e) \/ EndpointEnds(e)

HubStep ==
    \/ \E m \in Message : RunEnds(m) \/ DeliverTerminal(m)
    \/ GatewayBack \/ ResyncAsks \/ ResyncAnswered

Environment ==
    \/ ReconnectNow \/ GatewayDrops \/ ResyncTimesOut
    \/ \E m \in Message : SendFromPane(m)
    \/ \E e \in Socket : Refuses(e) \/ SubscribeTimesOut(e) \/ LinkDies(e)

SPNext == PageStep \/ (\E e \in Socket : EndpointStep(e)) \/ HubStep \/ Environment

SPSpec == SPInit /\ [][SPNext]_spVars

(* Timers fire, endpoints and tasks run on, frames are delivered, runs end *)
(* and the gateway comes back; nobody has to send or to reconnect.         *)
SPFairness ==
    /\ WF_spVars(TimerFires) /\ WF_spVars(OnOpen) /\ WF_spVars(OnSocketClose) /\ WF_spVars(OnFrame)
    /\ \A e \in Socket : WF_spVars(EndpointStep(e))
    /\ \A m \in Message : WF_spVars(RunEnds(m)) /\ WF_spVars(DeliverTerminal(m))
    /\ WF_spVars(GatewayBack) /\ WF_spVars(ResyncAsks) /\ WF_spVars(ResyncAnswered)

SPFairSpec == SPSpec /\ SPFairness

-----------------------------------------------------------------------------
(* Properties.                                                             *)

(* Types, and: a registered socket has an endpoint that runs on, so that   *)
(* somebody will unregister it; a socket the page has left behind stays    *)
(* left.                                                                   *)
SPTypeOK ==
    /\ wsEpoch \in Socket /\ timer \in BOOLEAN
    /\ ws \in [Socket -> {"none", "connecting", "open", "closed"}]
    /\ messages \subseteq ({"user", "reply"} \X Message)
    /\ awaited \in Message \cup {Nil}
    /\ dead \subseteq Socket /\ closed \subseteq Socket
    /\ ep \in [Socket -> Message \cup EndpointState]
    /\ channel # Nil => channel \in Socket /\ ep[channel] \notin {"none", "connecting", "ended"}
    /\ subscribed \in BOOLEAN /\ connected \in BOOLEAN /\ wiped \in BOOLEAN
    /\ resync \in {"none", "due", "asked", "refused"}
    /\ run \in [Message -> {"none", "typed", "running", "ended", "done"}]
    /\ \A e \in 1 .. wsEpoch - 1 : ws[e] = "closed"
    /\ mishaps \in 0 .. MaxMishaps

(* Nothing is on its way between the page and the hub, and the page is     *)
(* joined: its current socket is open and is the registered one.           *)
AtRest ==
    /\ ws[wsEpoch] = "open" /\ channel = wsEpoch
    /\ up[wsEpoch] = <<>> /\ down = <<>>
    /\ ep[wsEpoch] = "receiving" /\ \A e \in Socket : ep[e] # "history"
    /\ connected /\ resync = "none"

(* At rest nothing is owed: the pane shows the reply of every run that is  *)
(* over (but for a wiped history), whichever sockets and connections it    *)
(* passed, and awaits no reply but of a run that goes on.                  *)
NothingOwed ==
    AtRest =>
        /\ \A m \in Message : run[m] = "done" => <<"reply", m>> \in messages \/ wiped
        /\ awaited # Nil => run[awaited] \in {"running", "ended"}

(* The page and the hub are well formed, and at rest they agree.           *)
SPInv == SPTypeOK /\ NothingOwed

(* "a stale socket's cleanup must not evict the fresh socket": a client    *)
(* loses its channel only when the endpoint of that very socket ends, and  *)
(* its subscriptions only then, however the endpoints overlap.             *)
EvictedByItsOwn ==
    [][/\ (channel' = Nil) => (channel = Nil \/ ep'[channel] = "ended")
       /\ (subscribed /\ ~subscribed') => (channel # Nil /\ ep'[channel] = "ended")]_spVars

(* Once the mishaps are over, the page has its current socket open, that   *)
(* socket is the client's channel, and the pane is subscribed.             *)
Settles == <>[](ws[wsEpoch] = "open" /\ channel = wsEpoch /\ subscribed)

(* In the end the pane shows the reply of every run that is over, also one *)
(* that ended while the socket or the gateway was away; except after a     *)
(* history the gateway was too late with, which empties the pane.  The     *)
(* placeholder of an awaited reply goes away, also when the message was    *)
(* typed into a closed socket, lost with it, or refused.                   *)
ReplyShown ==
    /\ <>[](\A m \in Message : run[m] = "done" => (<<"reply", m>> \in messages \/ wiped))
    /\ (awaited # Nil) ~> (awaited = Nil)

=============================================================================
