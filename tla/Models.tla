------------------------------- MODULE Models -------------------------------
(***************************************************************************)
(* The model an agent's session runs with: chosen in a pane (static/       *)
(* synapse.js), set through the socket or by PUT, or brought along by a    *)
(* message or a voice turn, and patched into the session by                *)
(* sessions.patch; SynapseHub (services/synapse_hub.py) remembers in       *)
(* _selected_models what it patched last and spares a message the patch    *)
(* when its model is already there.                                        *)
(*                                                                         *)
(* One agent.  Every request to the gateway is awaited, so the gateway     *)
(* takes up requests of other handlers in between, and answers in the      *)
(* order in which it has taken them up.  A socket closes with what is      *)
(* under way on it; its endpoint finishes the frame it is at.              *)
(***************************************************************************)
EXTENDS Naturals, Sequences, SequencesExt

CONSTANTS
    Client,    \* browsers, each with one pane for the agent
    Voice,     \* the voice bridge
    Model,     \* what the catalog has
    Default,   \* the configured model of the agent, or None
    None,
    MaxOps,    \* bound: what users do
    MaxDrops,  \* bound: sockets that close
    MaxFaults  \* bound: requests that fail or time out

ASSUME ModelsAssumption ==
    /\ Default \in Model \cup {None}
    /\ None \notin Model
    /\ Voice \notin Client
    /\ {MaxOps, MaxDrops, MaxFaults} \subseteq Nat

VARIABLES
    (* the gateway *)
    session,   \* model override of the main session, or None
    answers,   \* operations answered and not yet read
    (* the hub *)
    selected,  \* _selected_models of the agent, or None
    ops,       \* what users did, in order, and how far it is
    (* the pages and their sockets *)
    pane,      \* Client -> model, modelExplicit, pendingModel
    open,
    sock,      \* Client -> number of its socket
    outbox,    \* Client -> replies on their way
    (* history *)
    stray,     \* the override was changed and no answer will be recorded
    lost,      \* Client -> the answer to its choice was lost with a socket
    drops, faults

gateway == <<session, answers, stray>>
page == <<pane, open, sock, outbox, lost>>
counters == <<drops, faults>>
vars == <<gateway, selected, ops, page, counters>>

Init ==
    /\ session = None
    /\ answers = <<>>
    /\ selected = None
    /\ ops = <<>>
    /\ pane = [c \in Client |-> [model |-> Default, explicit |-> FALSE, pending |-> None]]
    /\ open = [c \in Client |-> TRUE]
    /\ sock = [c \in Client |-> 0]
    /\ outbox = [c \in Client |-> <<>>]
    /\ stray = FALSE
    /\ lost = [c \in Client |-> FALSE]
    /\ drops = 0
    /\ faults = 0

(* at: queued on its socket; patch, reset, send, the request under way;    *)
(* answer, answered but unread; late, given up but still to be taken up.   *)
Op(who, kind, model, at) ==
    [who |-> who, kind |-> kind, model |-> model, at |-> at, raced |-> FALSE,
     sock |-> IF who \in Client THEN sock[who] ELSE 0]

(* What is done is forgotten, but for its place.                           *)
Done == [who |-> None, kind |-> "done", model |-> None, at |-> "over", raced |-> FALSE, sock |-> 0]

Ops == 1 .. Len(ops)
Adds(op) == Len(ops) < MaxOps /\ ops' = Append(ops, op)
Goes(n, at) == ops' = [ops EXCEPT ![n].at = at]
Ends(n) == ops' = [ops EXCEPT ![n] = Done]
Running(n) == ops[n].at \in {"patch", "reset", "send", "answer"}
Sends(n) == ops[n].kind \in {"message", "voice"}

(* The gateway has changed the override and the hub has yet to read so.    *)
Unrecorded == \E n \in Ops : ops[n].at = "answer"

-----------------------------------------------------------------------------
(* The page.                                                               *)

(* _set_agent_model: sessions.patch, for the socket and for PUT.           *)
SetAgentModel(op) == [op EXCEPT !.at = "patch"]

(* setPaneModel, from the picker or a preset button: through the socket if *)
(* it is open, else by PUT, which goes to the gateway at once.             *)
SetPaneModel(c, m) ==
    /\ m # pane[c].model
    /\ Adds(IF open[c] THEN Op(c, "set", m, "queued")
            ELSE SetAgentModel(Op(c, "put", m, "queued")))
    /\ pane' = [pane EXCEPT ![c].pending = m]
    /\ lost' = [lost EXCEPT ![c] = FALSE]
    /\ UNCHANGED <<gateway, selected, open, sock, outbox, counters>>

(* sendPaneMessage names a model only if it was confirmed in the pane.     *)
SendPaneMessage(c) ==
    /\ open[c]
    /\ Adds(Op(c, "message", IF pane[c].explicit THEN pane[c].model ELSE None, "queued"))
    /\ UNCHANGED <<gateway, selected, page, counters>>

SendReset(c) ==
    /\ open[c]
    /\ Adds(Op(c, "reset", None, "queued"))
    /\ UNCHANGED <<gateway, selected, page, counters>>

ConfirmModel(c, m) ==
    pane' = [pane EXCEPT ![c] = [model |-> m, explicit |-> TRUE, pending |-> None]]

ClearPendingModel(c) == pane' = [pane EXCEPT ![c].pending = None]

(* onFrame: model_set, or an error of set_model.                           *)
OnReply(c) ==
    /\ outbox[c] # <<>>
    /\ outbox' = [outbox EXCEPT ![c] = Tail(@)]
    /\ IF Head(outbox[c]) = None THEN ClearPendingModel(c) ELSE ConfirmModel(c, Head(outbox[c]))
    /\ UNCHANGED <<gateway, selected, ops, open, sock, lost, counters>>

(* The endpoint still reads the frames that have been received before the  *)
(* close, which are the first of those under way.                          *)
SocketCloses(c) ==
    /\ open[c]
    /\ drops < MaxDrops
    /\ drops' = drops + 1
    /\ open' = [open EXCEPT ![c] = FALSE]
    /\ outbox' = [outbox EXCEPT ![c] = <<>>]
    /\ \E received \in 0 .. Len(ops) :
         ops' = [n \in Ops |->
             IF ops[n].who = c /\ ops[n].at = "queued" /\ n > received THEN Done ELSE ops[n]]
    /\ lost' = [lost EXCEPT ![c] =
         /\ pane[c].pending # None
         /\ ~\E n \in Ops : ops[n].who = c /\ ops[n].kind = "put" /\ Running(n)]
    /\ UNCHANGED <<gateway, selected, pane, sock, faults>>

Reconnects(c) ==
    /\ ~open[c]
    /\ open' = [open EXCEPT ![c] = TRUE]
    /\ sock' = [sock EXCEPT ![c] = @ + 1]
    /\ UNCHANGED <<gateway, selected, ops, pane, outbox, lost, counters>>

-----------------------------------------------------------------------------
(* The hub.                                                                *)

(* _message_model: what the message asks for, else the configured model.   *)
MessageModel(requested) == IF requested # None THEN requested ELSE Default

(* _ensure_agent_model: nothing to patch, or sessions.patch comes first.   *)
EnsureAgentModel(op) ==
    LET m == MessageModel(op.model) IN
    IF m = None \/ selected = m
    THEN [op EXCEPT !.model = m, !.at = "send", !.raced = Unrecorded \/ stray]
    ELSE [op EXCEPT !.model = m, !.at = "patch"]

(* An endpoint takes the next frame of its socket when it is done with the *)
(* one before.                                                             *)
DispatchClientFrame(n) ==
    /\ ops[n].at = "queued"
    /\ \A k \in Ops : ops[k].who = ops[n].who /\ ops[k].sock = ops[n].sock =>
          ~Running(k) /\ (ops[k].at = "queued" => n <= k)
    /\ ops' = [ops EXCEPT ![n] =
         CASE @.kind = "message" -> EnsureAgentModel(@)
           [] @.kind = "set" -> SetAgentModel(@)
           [] @.kind = "reset" -> [@ EXCEPT !.at = "reset"]]
    /\ UNCHANGED <<gateway, selected, page, counters>>

(* send_voice_message: one turn at a time, with the model the voice        *)
(* session was started with, into the main session of the agent (which is  *)
(* the one that is patched, also if the voice has a session of its own).   *)
SendVoiceMessage(m) ==
    /\ \A n \in Ops : ops[n].kind = "voice" => ~Running(n)
    /\ Adds(EnsureAgentModel(Op(Voice, "voice", m, "send")))
    /\ UNCHANGED <<gateway, selected, page, counters>>

(* _patched_model: what the gateway says it has set.                       *)
PatchedModel(n) == ops[n].model

Reply(c, m) == outbox' = IF open[c] THEN [outbox EXCEPT ![c] = Append(@, m)] ELSE outbox

Reads(n) ==
    /\ answers # <<>> /\ n = Head(answers)
    /\ answers' = Tail(answers)
    /\ UNCHANGED <<session, stray, counters>>

(* _handle_set_model.                                                      *)
SetAnswered(n) ==
    /\ Reads(n) /\ ops[n].kind = "set"
    /\ selected' = PatchedModel(n)
    /\ Reply(ops[n].who, PatchedModel(n))
    /\ Ends(n)
    /\ UNCHANGED <<pane, open, sock, lost>>

(* synapse_set_agent_model: the page is answered, the hub is not told.     *)
PutAnswered(n) ==
    /\ Reads(n) /\ ops[n].kind = "put"
    /\ ConfirmModel(ops[n].who, PatchedModel(n))
    /\ Ends(n)
    /\ UNCHANGED <<selected, open, sock, outbox, lost>>

MessagePatched(n) ==
    /\ Reads(n) /\ Sends(n)
    /\ selected' = PatchedModel(n)
    /\ Goes(n, "send")
    /\ UNCHANGED page

(* Defect: the model of the old session is remembered. *)
ResetAnsweredOnly(n) ==
    /\ Reads(n) /\ ops[n].kind = "reset"
    /\ Ends(n)
    /\ UNCHANGED <<selected, page>>

ResetAnswered(n) ==
    /\ Reads(n) /\ ops[n].kind = "reset"
    /\ selected' = None
    /\ Ends(n)
    /\ UNCHANGED page

(* Nobody waits for the answer to n any more, if there is one.             *)
Discards(n) ==
    \/ n \notin ToSet(answers) /\ UNCHANGED answers
    \/ \E i \in 1 .. Len(answers) : answers[i] = n /\ answers' = RemoveAt(answers, i)

(* A request fails or times out: before the gateway takes it up, which it  *)
(* may still do, or afterwards.  The frame is answered with an error, and  *)
(* a message is not sent.                                                  *)
Fails(n) ==
    /\ faults < MaxFaults
    /\ faults' = faults + 1
    /\ Running(n)
    /\ stray' = (stray \/ ops[n].at = "answer")
    /\ Discards(n)
    /\ \/ Ends(n)
       \/ ops[n].at \in {"patch", "reset"} /\ Goes(n, "late")
    /\ UNCHANGED <<session, selected, open, sock, lost, drops>>

(* Defect: the error does not say which operation failed. *)
SetFailsPlainly(n) ==
    /\ Fails(n) /\ ops[n].kind = "set"
    /\ UNCHANGED <<pane, outbox>>

SetFails(n) ==
    /\ Fails(n) /\ ops[n].kind = "set"
    /\ Reply(ops[n].who, None)
    /\ UNCHANGED pane

PutFails(n) ==
    /\ Fails(n) /\ ops[n].kind = "put"
    /\ ClearPendingModel(ops[n].who)
    /\ UNCHANGED outbox

MessageFails(n) ==
    /\ Fails(n) /\ (Sends(n) \/ ops[n].kind = "reset")
    /\ UNCHANGED <<pane, outbox>>

-----------------------------------------------------------------------------
(* The gateway.                                                            *)

(* The override changes under whoever is about to send.                    *)
Changes(n, m, after) ==
    /\ session' = m
    /\ ops' = [k \in Ops |->
         IF k = n THEN after
         ELSE [ops[k] EXCEPT !.raced = @ \/ (m # session /\ Sends(k) /\ Running(k))]]
    /\ UNCHANGED <<selected, page, counters>>

(* sessions.patch, sessions.reset (which drops the override).              *)
TakesUp(n) ==
    /\ ops[n].at \in {"patch", "reset"}
    /\ Changes(n, ops[n].model, [ops[n] EXCEPT !.at = "answer", !.raced = FALSE])
    /\ answers' = Append(answers, n)
    /\ stray' = (ops[n].kind = "put")

TakesUpLate(n) ==
    /\ ops[n].at = "late"
    /\ Changes(n, ops[n].model, Done)
    /\ stray' = TRUE
    /\ UNCHANGED answers

(* chat.send: the run has the model of its session.                        *)
TakesMessage(n) ==
    /\ ops[n].at = "send"
    /\ Ends(n)
    /\ UNCHANGED <<gateway, selected, page, counters>>

-----------------------------------------------------------------------------
Answered(n) == SetAnswered(n) \/ PutAnswered(n) \/ MessagePatched(n) \/ ResetAnswered(n)

Next ==
    \/ \E c \in Client :
        \/ \E m \in Model : SetPaneModel(c, m)
        \/ SendPaneMessage(c) \/ SendReset(c) \/ OnReply(c)
        \/ SocketCloses(c) \/ Reconnects(c)
    \/ \E m \in Model \cup {None} : SendVoiceMessage(m)
    \/ \E n \in Ops :
        \/ DispatchClientFrame(n) \/ Answered(n)
        \/ SetFails(n) \/ PutFails(n) \/ MessageFails(n)
        \/ TakesUp(n) \/ TakesUpLate(n) \/ TakesMessage(n)

Spec == Init /\ [][Next]_vars

(* The event loop runs what is ready, the gateway takes up what it is      *)
(* asked (or the request times out), pages read their sockets.             *)
Fairness ==
    /\ \A c \in Client : WF_vars(OnReply(c))
    /\ WF_vars(\E n \in Ops : DispatchClientFrame(n))
    /\ WF_vars(\E n \in Ops : Answered(n))
    /\ WF_vars(\E n \in Ops : TakesUp(n) \/ TakesMessage(n))

FairSpec == Spec /\ Fairness

-----------------------------------------------------------------------------
(* Properties.                                                             *)

(* Types of the operations and the panes; only what changes the override   *)
(* is answered.                                                            *)
TypeOK ==
    /\ {session, selected} \subseteq Model \cup {None}
    /\ \A n \in Ops :
        /\ ops[n].who \in Client \cup {Voice, None}
        /\ ops[n].kind \in {"done", "set", "put", "message", "voice", "reset"}
        /\ ops[n].at \in {"queued", "patch", "reset", "send", "answer", "late", "over"}
        /\ ops[n].at = "answer" <=> n \in ToSet(answers)
    /\ pane \in [Client -> [model : Model \cup {None}, explicit : BOOLEAN,
                            pending : Model \cup {None}]]
    /\ \A c \in Client : ToSet(outbox[c]) \subseteq Model \cup {None}
    /\ {stray} \cup {lost[c] : c \in Client} \subseteq BOOLEAN

(* What the hub remembers is the override the gateway has, until the next  *)
(* change is answered: through failed patches, resets and the patches of   *)
(* several handlers.  Only a PUT, and a patch that is taken up after it    *)
(* was given up, change it behind the hub.                                 *)
Coherent ==
    selected # None => selected = session \/ Unrecorded \/ stray

(* A message that is about to be sent meets a session with its model,      *)
(* whether its patch was spared, answered or preceded by a failure, unless *)
(* another handler changed it meanwhile or it was changed behind the hub.  *)
RunsAsAsked ==
    \A n \in Ops :
        ops[n].at = "send" /\ ops[n].model # None /\ ~ops[n].raced => session = ops[n].model

(* A picker that waits has something to wait for, until the answer is lost *)
(* with a socket: its operation, queued or with the gateway, or a reply on *)
(* the open socket; and only a PUT while the socket is closed.             *)
PickHeld ==
    \A c \in Client : pane[c].pending # None /\ ~lost[c] =>
        LET Held == {n \in Ops : ops[n].who = c /\ ops[n].at \in {"queued", "patch", "answer"}} IN
        IF open[c] THEN outbox[c] # <<>> \/ \E n \in Held : ops[n].kind \in {"set", "put"}
        ELSE \E n \in Held : ops[n].kind = "put"

(* Operations are well formed, the hub remembers the model of the session, *)
(* messages meet theirs, and no picker waits for nothing.                  *)
Inv == TypeOK /\ Coherent /\ RunsAsAsked /\ PickHeld

(* A pane whose picker waits for an answer gets one, a model or an error,  *)
(* unless the socket closed while it waited.                               *)
PickEnds ==
    \A c \in Client : pane[c].pending # None ~> pane[c].pending = None \/ lost[c]

(* A message of a pane runs with the model confirmed there, whatever other *)
(* handlers do.                                                            *)
NeverOverridden ==
    \A n \in Ops : ops[n].at = "send" /\ ops[n].model # None => session = ops[n].model
=============================================================================
