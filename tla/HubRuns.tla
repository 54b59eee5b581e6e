------------------------------- MODULE HubRuns ------------------------------
(***************************************************************************)
(* How the Synapse hub (class SynapseHub of services/synapse_hub.py)       *)
(* follows the runs of one agent: messages from browser panes, a voice     *)
(* turn, runs started elsewhere, abort and reset, the orphan reaper, and   *)
(* the terminal tasks that deliver replies.                                *)
(*                                                                         *)
(* The hub is one event loop: everything between two awaits is one step.   *)
(* Answers and events of the gateway arrive on one socket (wire).  Events  *)
(* are handled in order, on a queue that is drained without an await; an   *)
(* answer only resolves a future (answers), and whoever awaits it resumes  *)
(* some time later, when the events that came behind it may have been      *)
(* handled.  A terminal event only spawns a task, and the tasks start in   *)
(* order, some time later.  The agent has its main session, which the      *)
(* panes share, and side sessions (voice, cron) that must not reach the    *)
(* panes.  One agent is modelled: the maps of the hub are keyed by run or  *)
(* by agent and nothing crosses agents.                                    *)
(***************************************************************************)
EXTENDS Naturals, Sequences, FiniteSets, SequencesExt

CONSTANTS
    Client,       \* browser clients; each has a pane subscribed to the agent
    Voice,        \* the voice session
    VoiceClient,  \* the client whose pane the voice session is bound to
    VoiceKey,     \* the session the voice bridge speaks to
    Run,          \* run ids of the gateway
    None,
    Slow,         \* a turn and a run may outlive the timeouts of the hub
    MaxDeltas,    \* bound: deltas of a run
    MaxWire,      \* bound: frames received and not handled
    MaxStops,     \* bound: aborts and resets
    MaxCancels,   \* bound: cancelled voice turns
    MaxFaults     \* bound: lost sockets, failed requests, replays, tabs closed

Actor == Client \cup {Voice}
Key   == {"main", "voice", "cron"}

ASSUME HubAssumption ==
    /\ VoiceClient \in Client
    /\ Voice \notin Client
    /\ VoiceKey \in {"main", "voice"}
    /\ None \notin Run \cup Client
    /\ Slow \in BOOLEAN
    /\ {MaxDeltas, MaxWire, MaxStops, MaxCancels, MaxFaults} \subseteq Nat

VARIABLES
    (* the gateway *)
    phase,      \* Run -> free, live, streaming, stopping, over
    kind,       \* Run -> chat, voice or other (dispatch, cron, another UI)
    key,        \* Run -> the session it runs in
    emitted,    \* Run -> number of deltas streamed
    latest,     \* Key -> the run whose reply ends the session's history
    (* between the gateway and the hub *)
    wire,       \* frames received and not handled
    asked,      \* fallback tasks whose chat.history request is at the gateway
    (* the hub *)
    answers,    \* answers read: futures resolved, their handlers not resumed
    conn,       \* Client -> it has a channel
    pc,         \* Actor -> what its handler awaits
    sent,       \* Actor -> the run its chat.send started
    active,     \* self._active_runs: Run -> entry or None
    waiter,     \* self._voice_waiters: Run -> none, pending or done
    last,       \* self._last_delivered_text: Key -> text or None
    tasks,      \* terminal tasks not started
    fetching,   \* terminal tasks awaiting chat.history
    (* history *)
    log,        \* message frames sent
    heard,      \* who received text of which run
    forgotten,  \* runs dropped by an abort or a reset
    missed,     \* runs the hub may not have followed from start to end
    stops, cancels, faults

gateway == <<phase, kind, key, emitted, latest>>
hub == <<answers, conn, pc, sent, active, waiter, last, tasks, fetching>>
history == <<log, heard, forgotten, missed, stops, cancels, faults>>
vars == <<gateway, wire, asked, hub, history>>

Text(r, full) == [of |-> r, full |-> full]
Entry(c, pane, n) == [client |-> c, pane |-> pane, acc |-> n]
Event(r, state, text) == [type |-> "event", run |-> r, state |-> state, text |-> text]
Response(a) == [type |-> "res", to |-> a]
LastReply(t, text) == [type |-> "history", task |-> t, text |-> text]

Init ==
    /\ phase = [r \in Run |-> "free"]
    /\ kind = [r \in Run |-> "other"]
    /\ key = [r \in Run |-> "main"]
    /\ emitted = [r \in Run |-> 0]
    /\ latest = [k \in Key |-> None]
    /\ wire = <<>>
    /\ asked = {}
    /\ answers = {}
    /\ conn = [c \in Client |-> TRUE]
    /\ pc = [a \in Actor |-> "idle"]
    /\ sent = [a \in Actor |-> None]
    /\ active = [r \in Run |-> None]
    /\ waiter = [r \in Run |-> "none"]
    /\ last = [k \in Key |-> None]
    /\ tasks = <<>>
    /\ fetching = {}
    /\ log = {}
    /\ heard = {}
    /\ forgotten = {}
    /\ missed = {}
    /\ stops = 0
    /\ cancels = 0
    /\ faults = 0

Asking == {"sending", "aborting", "clearing", "resetting"}

Audience == {c \in Client : conn[c]}
Stopping == stops < MaxStops /\ stops' = stops + 1
Cancelling == cancels < MaxCancels /\ cancels' = cancels + 1
Failing == faults < MaxFaults /\ faults' = faults + 1

(* From here on nothing is promised of the runs rs.                        *)
Misses(rs) == missed' = missed \cup rs

-----------------------------------------------------------------------------
(* The gateway (external): it starts a run for a chat.send, answers,       *)
(* streams, and ends the run; chat.abort stops the runs of a session.      *)

Accepts(r, kd, k) ==
    /\ phase[r] = "free"
    /\ phase' = [phase EXCEPT ![r] = "live"]
    /\ kind' = [kind EXCEPT ![r] = kd]
    /\ key' = [key EXCEPT ![r] = k]
    /\ UNCHANGED <<emitted, latest>>

(* Somebody else's run: a dispatch, a cron job, another user interface. *)
OtherRun(r, k) ==
    /\ Accepts(r, "other", k)
    /\ UNCHANGED <<wire, asked, hub, history>>

Emit(frame) ==
    /\ Len(wire) < MaxWire
    /\ wire' = Append(wire, frame)

(* A handler awaits one answer at a time. *)
Answers(a, where) ==
    /\ pc[a] \in where
    /\ Response(a) \notin answers /\ ~Contains(wire, Response(a))
    /\ Emit(Response(a))

(* chat.send may be answered before the run starts, or late. *)
AnswerSend(a) ==
    /\ Answers(a, {"sending"})
    /\ UNCHANGED <<gateway, asked, hub, history>>

Starts(r) ==
    /\ phase[r] = "live"
    /\ phase' = [phase EXCEPT ![r] = "streaming"]
    /\ Emit(Event(r, "started", None))
    /\ UNCHANGED <<kind, key, emitted, latest, asked, hub, history>>

Streams(r) ==
    /\ phase[r] = "streaming"
    /\ emitted[r] < MaxDeltas
    /\ emitted' = [emitted EXCEPT ![r] = @ + 1]
    /\ Emit(Event(r, "delta", None))
    /\ UNCHANGED <<phase, kind, key, latest, asked, hub, history>>

(* A final event may carry the reply or not, which is in the history       *)
(* either way; a run may end without one.  An aborted event may carry what *)
(* the run had said so far, an error event some text as well.              *)
Final(r, replied, inline) ==
    /\ phase[r] \in {"streaming", "stopping"}
    /\ emitted[r] > 0 \/ inline => replied
    /\ phase' = [phase EXCEPT ![r] = "over"]
    /\ latest' = IF replied THEN [latest EXCEPT ![key[r]] = r] ELSE latest
    /\ Emit(Event(r, "final", IF inline THEN Text(r, TRUE) ELSE None))
    /\ UNCHANGED <<kind, key, emitted, asked, hub, history>>

Aborted(r, inline) ==
    /\ phase[r] = "stopping"
    /\ inline => emitted[r] > 0
    /\ phase' = [phase EXCEPT ![r] = "over"]
    /\ Emit(Event(r, "aborted", IF inline THEN Text(r, FALSE) ELSE None))
    /\ UNCHANGED <<kind, key, emitted, latest, asked, hub, history>>

Errs(r, inline) ==
    /\ phase[r] \in {"live", "streaming"}
    /\ phase' = [phase EXCEPT ![r] = "over"]
    /\ Emit(Event(r, "error", IF inline THEN Text(r, FALSE) ELSE None))
    /\ UNCHANGED <<kind, key, emitted, latest, asked, hub, history>>

(* The gateway repeats the end of a run, with its reply or without. *)
Replays(r, inline) ==
    /\ phase[r] = "over"
    /\ latest[key[r]] = r
    /\ Failing
    /\ Emit(Event(r, "final", IF inline THEN Text(r, TRUE) ELSE None))
    /\ Misses({r})
    /\ UNCHANGED <<gateway, asked, hub, log, heard, forgotten, stops, cancels>>

Stopped(phases, k) ==
    [r \in Run |-> IF key[r] = k /\ phases[r] \in {"live", "streaming"}
                   THEN "stopping" ELSE phases[r]]

(* chat.abort is done and answered; the aborted events come when they do. *)
AnswerAbort(c) ==
    /\ Answers(c, {"aborting", "clearing"})
    /\ phase' = Stopped(phase, "main")
    /\ UNCHANGED <<kind, key, emitted, latest, asked, hub, history>>

AnswerReset(c) ==
    /\ Answers(c, {"resetting"})
    /\ latest' = [latest EXCEPT !["main"] = None]
    /\ UNCHANGED <<phase, kind, key, emitted, asked, hub, history>>

(* chat.history for the fallback of a terminal task. *)
AnswerHistory(t) ==
    /\ t \in asked
    /\ asked' = asked \ {t}
    /\ Emit(LastReply(t, IF latest[t.key] = None THEN None ELSE Text(latest[t.key], TRUE)))
    /\ UNCHANGED <<gateway, hub, history>>

-----------------------------------------------------------------------------
(* Requests of the browser.  The endpoint handles the frames of a client   *)
(* one after the other.                                                    *)

Await(a, where) == pc' = [pc EXCEPT ![a] = where]

Sends(a, r, kd, k) ==
    /\ pc[a] = "idle"
    /\ Accepts(r, kd, k)
    /\ Await(a, "sending")
    /\ sent' = [sent EXCEPT ![a] = r]

(* _handle_message up to chat.send. *)
Message(c, r) ==
    /\ conn[c]
    /\ Sends(c, r, "chat", "main")
    /\ UNCHANGED <<wire, asked, answers, conn, active, waiter, last, tasks, fetching, history>>

(* send_voice_message up to chat.send, for the next turn of the voice      *)
(* session; it refuses when the client has no channel.                     *)
VoiceTurn(r) ==
    /\ conn[VoiceClient]
    /\ Sends(Voice, r, "voice", VoiceKey)
    /\ UNCHANGED <<wire, asked, answers, conn, active, waiter, last, tasks, fetching, history>>

Abort(c) ==
    /\ conn[c]
    /\ pc[c] = "idle"
    /\ Stopping
    /\ Await(c, "aborting")
    /\ UNCHANGED <<gateway, wire, asked, answers, conn, sent, active, waiter, last, tasks, fetching,
                  log, heard, forgotten, missed, cancels, faults>>

Reset(c) ==
    /\ conn[c]
    /\ pc[c] = "idle"
    /\ Stopping
    /\ Await(c, "clearing")
    /\ UNCHANGED <<gateway, wire, asked, answers, conn, sent, active, waiter, last, tasks, fetching,
                  log, heard, forgotten, missed, cancels, faults>>

(* The handler of a has stopped waiting for its answer. *)
Unheeded(a) == RemoveFirst(wire, Response(a))
Deafens(a) ==
    /\ wire' = Unheeded(a)
    /\ answers' = answers \ {Response(a)}

(* _cancel_active: a turn that awaits its reply cancels the future; one    *)
(* that awaits chat.send never learns of its run.  The run goes on.        *)
CancelActive ==
    /\ Cancelling
    /\ Await(Voice, "idle")
    /\ sent' = [sent EXCEPT ![Voice] = None]
    /\ waiter' = [r \in Run |-> IF r = sent[Voice] /\ waiter[r] = "pending"
                               THEN "done" ELSE waiter[r]]
    /\ Deafens(Voice)
    /\ UNCHANGED <<kind, key, emitted, latest, asked, conn, active, last, tasks, fetching,
                  log, heard, forgotten, missed, stops, faults>>

(* The user speaks again: the turn under way is cancelled (its successor   *)
(* is a VoiceTurn).                                                        *)
SpeaksAgain ==
    /\ pc[Voice] # "idle"
    /\ CancelActive
    /\ UNCHANGED phase

(* The user interrupts: _barge_in also aborts what runs in the session. *)
BargeIn ==
    /\ CancelActive
    /\ phase' = Stopped(phase, VoiceKey)

(* The browser goes away, its handler runs on; and comes back. *)
Leaves(c) ==
    /\ conn[c]
    /\ Failing
    /\ conn' = [conn EXCEPT ![c] = FALSE]
    /\ UNCHANGED <<gateway, wire, asked, answers, pc, sent, active, waiter, last, tasks, fetching,
                  log, heard, forgotten, missed, stops, cancels>>

Returns(c) ==
    /\ ~conn[c]
    /\ conn' = [conn EXCEPT ![c] = TRUE]
    /\ UNCHANGED <<gateway, wire, asked, answers, pc, sent, active, waiter, last, tasks, fetching,
                  history>>

(* A request times out or is refused: the handler reports an error.  What  *)
(* it asked for may have been done (landed) or not; a run that was not     *)
(* started by then never is.                                               *)
RequestFails(a, landed) ==
    /\ pc[a] \in Asking
    /\ Response(a) \notin answers
    /\ Failing
    /\ Await(a, "idle")
    /\ sent' = [sent EXCEPT ![a] = None]
    /\ Misses({sent[a]} \ {None})
    /\ Deafens(a)
    /\ phase' = CASE pc[a] = "sending" /\ ~landed ->
                       [phase EXCEPT ![sent[a]] = IF @ = "live" THEN "over" ELSE @]
                  [] pc[a] \in {"aborting", "clearing"} /\ landed -> Stopped(phase, "main")
                  [] OTHER -> phase
    /\ latest' = IF landed /\ pc[a] = "resetting" THEN [latest EXCEPT !["main"] = None] ELSE latest
    /\ UNCHANGED <<kind, key, emitted, asked, conn, active, waiter, last, tasks, fetching,
                  log, heard, forgotten, stops, cancels>>

(* The bridge waits 90 seconds for the reply. *)
TurnTimesOut ==
    /\ pc[Voice] = "waiting"
    /\ waiter[sent[Voice]] = "pending"
    /\ Slow
    /\ waiter' = [waiter EXCEPT ![sent[Voice]] = "done"]
    /\ Misses({sent[Voice]})
    /\ UNCHANGED <<gateway, wire, asked, answers, conn, pc, sent, active, last, tasks, fetching,
                  log, heard, forgotten, stops, cancels, faults>>

(* The reply, or its failure, reaches the voice turn. *)
TurnEnds ==
    /\ pc[Voice] = "waiting"
    /\ waiter[sent[Voice]] = "done"
    /\ Await(Voice, "idle")
    /\ sent' = [sent EXCEPT ![Voice] = None]
    /\ UNCHANGED <<gateway, wire, asked, answers, conn, active, waiter, last, tasks, fetching,
                  history>>

-----------------------------------------------------------------------------
(* The reader of the connection gives an answer to its future, ...         *)
Resolves ==
    /\ wire # <<>>
    /\ Head(wire).type # "event"
    /\ answers' = answers \cup {Head(wire)}
    /\ wire' = Tail(wire)
    /\ UNCHANGED <<gateway, asked, conn, pc, sent, active, waiter, last, tasks, fetching, history>>

(* ... and the handler resumes when the loop comes to it.                  *)
Resumes(answer) ==
    /\ answer \in answers
    /\ answers' = answers \ {answer}

(* chat.send answered: the run is registered, whatever is tracked for it. *)
MessageSent(c) ==
    /\ pc[c] = "sending"
    /\ Resumes(Response(c))
    /\ active' = [active EXCEPT ![sent[c]] = Entry(c, FALSE, 0)]
    /\ Await(c, "idle")
    /\ sent' = [sent EXCEPT ![c] = None]
    /\ UNCHANGED <<gateway, wire, asked, conn, waiter, last, tasks, fetching, history>>

VoiceSent ==
    /\ pc[Voice] = "sending"
    /\ Resumes(Response(Voice))
    /\ active' = [active EXCEPT ![sent[Voice]] = Entry(VoiceClient, TRUE, 0)]
    /\ waiter' = [waiter EXCEPT ![sent[Voice]] = "pending"]
    /\ Await(Voice, "waiting")
    /\ UNCHANGED <<gateway, wire, asked, conn, sent, last, tasks, fetching, history>>

(* _drop_agent_runs. *)
DropRuns ==
    /\ active' = [r \in Run |-> None]
    /\ forgotten' = forgotten \cup {r \in Run : active[r] # None}

AbortDone(c) ==
    /\ pc[c] \in {"aborting", "clearing"}
    /\ Resumes(Response(c))
    /\ DropRuns
    /\ Await(c, IF pc[c] = "clearing" THEN "resetting" ELSE "idle")
    /\ UNCHANGED <<gateway, wire, asked, conn, sent, waiter, last, tasks, fetching,
                  log, heard, missed, stops, cancels, faults>>

ResetDone(c) ==
    /\ pc[c] = "resetting"
    /\ Resumes(Response(c))
    /\ last' = [last EXCEPT !["main"] = None]
    /\ Await(c, "idle")
    /\ UNCHANGED <<gateway, wire, asked, conn, sent, active, waiter, tasks, fetching, history>>

(* Defect: every session of the agent is taken for the main one. *)
RelayedByPrefix(r) == TRUE

(* Events go to _handle_chat_event.  An event belongs to the agent if its  *)
(* run is tracked or it is of the agent's main session.                    *)
Relayed(r) == active[r] # None \/ key[r] = "main"

(* The handler that is to register the run has not resumed yet. *)
Unregistered(r) == \E a \in Actor : pc[a] = "sending" /\ sent[a] = r

Reads(r, state) ==
    /\ wire # <<>>
    /\ Head(wire).type = "event"
    /\ Head(wire).run = r
    /\ Head(wire).state = state
    /\ wire' = Tail(wire)
    /\ Misses(IF Unregistered(r) THEN {r} ELSE {})
    /\ UNCHANGED answers

RunStarted(r) ==
    /\ Reads(r, "started")
    /\ active' = IF active[r] = None /\ Relayed(r)
                 THEN [active EXCEPT ![r] = Entry(None, FALSE, 0)] ELSE active
    /\ UNCHANGED <<gateway, asked, conn, pc, sent, waiter, last, tasks, fetching,
                  log, heard, forgotten, stops, cancels, faults>>

(* Defect: the pane of a voice run is not looked at. *)
ChunkToAll(r) == Audience

(* A chunk of a voice run goes to its pane; while that client has no       *)
(* channel it goes where the chunks of every other run go.                 *)
ChunkTo(r) ==
    IF active[r] # None /\ active[r].pane /\ conn[active[r].client]
    THEN {active[r].client} ELSE Audience

(* Defect: the deltas of a run replace each other. *)
DeltaReplaces(r) ==
    /\ Reads(r, "delta")
    /\ active' = IF active[r] # None THEN [active EXCEPT ![r].acc = 1] ELSE active
    /\ heard' = IF Relayed(r) THEN heard \cup {<<c, r>> : c \in ChunkTo(r)} ELSE heard
    /\ UNCHANGED <<gateway, asked, conn, pc, sent, waiter, last, tasks, fetching,
                  log, forgotten, stops, cancels, faults>>

Delta(r) ==
    /\ Reads(r, "delta")
    /\ active' = IF active[r] # None THEN [active EXCEPT ![r].acc = @ + 1] ELSE active
    /\ heard' = IF Relayed(r) THEN heard \cup {<<c, r>> : c \in ChunkTo(r)} ELSE heard
    /\ UNCHANGED <<gateway, asked, conn, pc, sent, waiter, last, tasks, fetching,
                  log, forgotten, stops, cancels, faults>>

Terminal(r, state) ==
    /\ state \in {"final", "aborted", "error"}
    /\ Reads(r, state)
    /\ tasks' = IF Relayed(r) THEN Append(tasks, Head(wire)) ELSE tasks
    /\ UNCHANGED <<gateway, asked, conn, pc, sent, active, waiter, last, fetching,
                  log, heard, forgotten, stops, cancels, faults>>

-----------------------------------------------------------------------------
(* _handle_terminal.                                                       *)

(* delivery_key: only a voice entry carries a session key of its own. *)
DeliveryKey(r, entry) == IF entry # None /\ entry.pane THEN key[r] ELSE "main"

(* Defect: an end with nothing to say is dropped although its run is tracked. *)
SuppressedWhenMute(entry, k, text) ==
    text = None \/ (entry = None /\ text = last[k])

(* From the suppression of stray frames to the end: no await. *)
Suppressed(entry, k, text) == entry = None /\ (text = None \/ text = last[k])

Deliver(t, text) ==
    LET to == IF t.entry # None /\ t.entry.pane
              THEN {c \in {t.entry.client} : conn[c]} ELSE Audience
    IN IF Suppressed(t.entry, t.key, text) THEN UNCHANGED <<waiter, last, log, heard>>
       ELSE /\ waiter' = [waiter EXCEPT ![t.run] = IF @ = "pending" THEN "done" ELSE @]
            /\ last' = IF text # None THEN [last EXCEPT ![t.key] = text] ELSE last
            /\ log' = log \cup {[run |-> t.run, state |-> t.state, text |-> text,
                                 dropped |-> t.run \in forgotten]}
            /\ heard' = IF text # None THEN heard \cup {<<c, text.of>> : c \in to} ELSE heard

(* The text a terminal event brings, or the run's own streamed text. *)
OwnText(e, entry) ==
    IF e.text # None THEN e.text
    ELSE IF e.state = "final" /\ entry # None /\ entry.acc > 0
         THEN Text(e.run, entry.acc = emitted[e.run])
    ELSE None

(* nth tells the tasks of a run that is reported twice apart. *)
Task(e) == [run |-> e.run, state |-> e.state, entry |-> active[e.run],
            key |-> DeliveryKey(e.run, active[e.run]),
            nth |-> CHOOSE n \in 0..Cardinality(fetching) :
                        \A t \in fetching : t.run = e.run => t.nth # n]

NeedsHistory(e) == e.state = "final" /\ OwnText(e, active[e.run]) = None

(* Defect: the task reads the run and leaves it tracked. *)
TaskLeavesRun ==
    /\ tasks # <<>>
    /\ tasks' = Tail(tasks)
    /\ IF NeedsHistory(Head(tasks))
       THEN /\ fetching' = fetching \cup {Task(Head(tasks))}
            /\ asked' = asked \cup {Task(Head(tasks))}
            /\ UNCHANGED <<waiter, last, log, heard>>
       ELSE /\ Deliver(Task(Head(tasks)), OwnText(Head(tasks), active[Head(tasks).run]))
            /\ UNCHANGED <<fetching, asked>>
    /\ UNCHANGED <<gateway, wire, answers, conn, pc, sent, active, forgotten, missed,
                  stops, cancels, faults>>

(* The task starts: it takes the run and delivers, or asks for the history *)
(* when a final event left it without a text.                              *)
TaskStarts ==
    /\ tasks # <<>>
    /\ tasks' = Tail(tasks)
    /\ active' = [active EXCEPT ![Head(tasks).run] = None]
    /\ IF NeedsHistory(Head(tasks))
       THEN /\ fetching' = fetching \cup {Task(Head(tasks))}
            /\ asked' = asked \cup {Task(Head(tasks))}
            /\ UNCHANGED <<waiter, last, log, heard>>
       ELSE /\ Deliver(Task(Head(tasks)), OwnText(Head(tasks), active[Head(tasks).run]))
            /\ UNCHANGED <<fetching, asked>>
    /\ UNCHANGED <<gateway, wire, answers, conn, pc, sent, forgotten, missed,
                  stops, cancels, faults>>

(* _history_fallback_text: the last assistant message, unless it is what   *)
(* was delivered last by the time the answer is here.                      *)
Fresh(k, text) == IF text = last[k] THEN None ELSE text

Fetched(t) ==
    /\ t \in fetching
    /\ \E reply \in answers :
         /\ reply.type = "history" /\ reply.task = t
         /\ Resumes(reply)
         /\ Deliver(t, Fresh(t.key, reply.text))
    /\ fetching' = fetching \ {t}
    /\ UNCHANGED <<gateway, wire, asked, conn, pc, sent, active, tasks, forgotten, missed,
                  stops, cancels, faults>>

(* A future of the task that is not resolved. *)
Unanswered(t) == \A a \in answers : a.type = "history" => a.task # t

FetchFails(t) ==
    /\ t \in fetching
    /\ Unanswered(t)
    /\ Failing
    /\ asked' = asked \ {t}
    /\ wire' = RemoveFirstMatch(wire, LAMBDA f : f.type = "history" /\ f.task = t)
    /\ fetching' = fetching \ {t}
    /\ Deliver(t, None)
    /\ UNCHANGED <<gateway, answers, conn, pc, sent, active, tasks, forgotten, missed,
                  stops, cancels>>

-----------------------------------------------------------------------------

(* _reap_orphan_runs, for a run older than RUN_ORPHAN_TIMEOUT. *)
Reap(r) ==
    /\ active[r] # None
    /\ Slow
    /\ active' = [active EXCEPT ![r] = None]
    /\ Misses({r})
    /\ UNCHANGED <<gateway, wire, asked, answers, conn, pc, sent, waiter, last, tasks, fetching,
                  log, heard, forgotten, stops, cancels, faults>>

(* The gateway socket breaks and is opened again: the frames that had not  *)
(* arrived are lost, and every pending request fails; the hub keeps its    *)
(* runs (_on_gateway_status).  A failed chat.history is read as no text.   *)
SocketLost(n) ==
    LET kept == SubSeq(wire, 1, n)
        lost == {wire[i] : i \in n+1..Len(wire)}
        failed == {t \in fetching : /\ Unanswered(t)
                                    /\ \A i \in 1..n : kept[i].type = "history" => kept[i].task # t}
        fails == {a \in Actor : /\ pc[a] \in Asking /\ Response(a) \notin answers
                                /\ ~Contains(kept, Response(a))}
    IN /\ Failing
       /\ wire' = kept
       /\ answers' = answers \cup {LastReply(t, None) : t \in failed}
       /\ asked' = {}
       /\ pc' = [a \in Actor |-> IF a \in fails THEN "idle" ELSE pc[a]]
       /\ sent' = [a \in Actor |-> IF a \in fails THEN None ELSE sent[a]]
       /\ Misses({f.run : f \in {g \in lost : g.type = "event"}}
                   \cup ({sent[a] : a \in fails} \ {None}))
       /\ UNCHANGED <<gateway, conn, active, waiter, last, tasks, fetching,
                     log, heard, forgotten, stops, cancels>>

-----------------------------------------------------------------------------
(* The specification.                                                      *)

RunEnds(r) ==
    \/ \E replied, inline \in BOOLEAN : Final(r, replied, inline)
    \/ \E inline \in BOOLEAN : Aborted(r, inline) \/ Errs(r, inline)

GatewayStep ==
    \/ \E r \in Run, k \in {"main", "cron"} : OtherRun(r, k)
    \/ \E a \in Actor : AnswerSend(a)
    \/ \E c \in Client : AnswerAbort(c) \/ AnswerReset(c)
    \/ \E r \in Run : Starts(r) \/ Streams(r) \/ RunEnds(r)
    \/ \E r \in Run, inline \in BOOLEAN : Replays(r, inline)
    \/ \E t \in asked : AnswerHistory(t)

UserStep ==
    \/ \E c \in Client, r \in Run : Message(c, r)
    \/ \E r \in Run : VoiceTurn(r)
    \/ \E c \in Client : Abort(c) \/ Reset(c) \/ Leaves(c) \/ Returns(c)
    \/ SpeaksAgain \/ BargeIn

(* The reader handles the frame at the head of the wire. *)
Reader ==
    \/ Resolves
    \/ \E r \in Run : RunStarted(r) \/ Delta(r)
    \/ \E r \in Run, state \in {"final", "aborted", "error"} : Terminal(r, state)

(* What awaited an answer goes on. *)
Resumed ==
    \/ \E c \in Client : MessageSent(c) \/ AbortDone(c) \/ ResetDone(c)
    \/ VoiceSent
    \/ \E t \in fetching : Fetched(t)

Failure ==
    \/ \E a \in Actor, landed \in BOOLEAN : RequestFails(a, landed)
    \/ \E t \in fetching : FetchFails(t)
    \/ \E n \in 0..Len(wire) : SocketLost(n)

Next ==
    \/ GatewayStep
    \/ UserStep
    \/ Reader
    \/ Resumed
    \/ TaskStarts
    \/ TurnEnds
    \/ TurnTimesOut
    \/ \E r \in Run : Reap(r)
    \/ Failure

Spec == Init /\ [][Next]_vars

(* The event loop runs what is ready, a turn and a run are given up when   *)
(* their time is over, and the gateway answers and ends what it started.   *)
Fairness ==
    /\ WF_vars(Reader)
    /\ WF_vars(Resumed)
    /\ WF_vars(TaskStarts)
    /\ WF_vars(TurnEnds)
    /\ WF_vars(TurnTimesOut)
    /\ \A r \in Run : WF_vars(Reap(r)) /\ WF_vars(Starts(r)) /\ WF_vars(RunEnds(r))
    /\ \A a \in Actor : WF_vars(AnswerSend(a))
    /\ \A c \in Client : WF_vars(AnswerAbort(c)) /\ WF_vars(AnswerReset(c))
    /\ WF_vars(\E t \in asked : AnswerHistory(t))

FairSpec == Spec /\ Fairness

-----------------------------------------------------------------------------
(* Properties.                                                             *)

Texts == [of : Run, full : BOOLEAN]
Entries == [client : Client \cup {None}, pane : BOOLEAN, acc : 0..MaxDeltas]
Tasks == [run : Run, state : {"final"}, entry : Entries \cup {None}, key : Key,
          nth : Nat]
Events == [type : {"event"}, run : Run, text : Texts \cup {None},
           state : {"started", "delta", "final", "aborted", "error"}]

(* None is not one of the values it stands for the lack of. *)
ASSUME NoneAssumption == None \notin Texts \cup Entries

Replies == [type : {"res"}, to : Actor]
             \cup [type : {"history"}, task : Tasks, text : Texts \cup {None}]
Frames == Events \cup Replies

(* Type invariant of the hub's maps and of what is on its way to them: an  *)
(* entry never counts more text than a run streams, a tracked voice run    *)
(* has a client, and only a final event is worth a look at the history     *)
(* (_handle_chat_event, _handle_terminal).                                 *)
TypeOK ==
    /\ phase \in [Run -> {"free", "live", "streaming", "stopping", "over"}]
    /\ kind \in [Run -> {"chat", "voice", "other"}] /\ key \in [Run -> Key]
    /\ emitted \in [Run -> 0..MaxDeltas] /\ latest \in [Key -> Run \cup {None}]
    /\ wire \in Seq(Frames) /\ answers \subseteq Replies
    /\ asked \subseteq fetching /\ fetching \subseteq Tasks
    /\ pc \in [Actor -> Asking \cup {"idle", "waiting"}] /\ sent \in [Actor -> Run \cup {None}]
    /\ \A a \in Actor : sent[a] # None <=> pc[a] \in {"sending", "waiting"}
    /\ active \in [Run -> Entries \cup {None}]
    /\ \A r \in Run : active[r] # None /\ active[r].pane => active[r].client = VoiceClient
    /\ waiter \in [Run -> {"none", "pending", "done"}]
    /\ last \in [Key -> Texts \cup {None}]
    /\ tasks \in Seq(Events)
    /\ conn \in [Client -> BOOLEAN] /\ heard \subseteq Client \X Run
    /\ forgotten \subseteq Run /\ missed \subseteq Run /\ stops \in 0..MaxStops
    /\ cancels \in 0..MaxCancels /\ faults \in 0..MaxFaults

(* "Loose prefix matching would relay cron/voice session output into the   *)
(* live conversation": whatever fails, is stopped or comes late, no pane   *)
(* is given a word of a run in a cron session (_handle_chat_event,         *)
(* _handle_terminal and its fallback).                                     *)
CronStaysOut == \A r \in Run : key[r] = "cron" => \A c \in Client : <<c, r>> \notin heard

(* The hub's maps are well formed and no cron session is heard.            *)
Inv == TypeOK /\ CronStaysOut

(* A voice session of its own is heard in the pane it is bound to and in   *)
(* no other, while that pane is there and nobody aborts or resets the      *)
(* agent: through stray deltas of cancelled turns, replies found in the    *)
(* history and runs of the other sessions (_handle_chat_event).            *)
VoiceStaysPrivate ==
    \A r \in Run : kind[r] = "voice" /\ key[r] = "voice" =>
        \A c \in Client : <<c, r>> \in heard => c = VoiceClient \/ r \in forgotten

(* The hub tracks a run only as long as it is under way or its end is: no  *)
(* entry of _active_runs is left to the reaper, whatever is stopped or     *)
(* fails in between, but those of runs that are missed: one whose events   *)
(* came before its registration (synapse_hub.py:841, 909), were lost with  *)
(* the socket or repeated, whose chat.send failed, or that was given up.   *)
EndOf(r, frames) ==
    \E i \in 1..Len(frames) :
        /\ frames[i].type = "event" /\ frames[i].run = r
        /\ frames[i].state \in {"final", "aborted", "error"}

TrackedRunEnds ==
    \A r \in Run : active[r] # None /\ r \notin missed =>
        phase[r] # "over" \/ EndOf(r, wire) \/ EndOf(r, tasks)

(* What still reports the end of a run: the event, the task that has it,   *)
(* or the task that looks for its text.  And the message frame that did.   *)
EndDue(r) == EndOf(r, wire) \/ EndOf(r, tasks) \/ \E t \in fetching : t.run = r
Announced(r) == \E m \in log : m.run = r

(* Somebody is to be told of the end: the panes, or the turn that waits.   *)
Owed(r) ==
    /\ r \notin forgotten \cup missed
    /\ kind[r] = "chat" \/ (pc[Voice] = "waiting" /\ sent[Voice] = r)

(* The end of a run is told, once, through all that can happen between the *)
(* event, its task and the answer of chat.history: the end of a run of a   *)
(* pane or of a waiting turn is on its way or was announced, what was      *)
(* announced is not on its way any more, and a turn has its reply when its *)
(* own run was announced and not before (_handle_terminal).                *)
ToldOnce ==
    /\ \A r \in Run : Owed(r) /\ phase[r] = "over" => EndDue(r) \/ Announced(r)
    /\ \A r \in Run : Announced(r) /\ r \notin missed => ~EndDue(r)
    /\ pc[Voice] = "waiting" /\ sent[Voice] \notin missed =>
         (waiter[sent[Voice]] = "done" <=> Announced(sent[Voice]))

(* The hub keeps no run that is over, and tells of the end of each.        *)
RunsEnd == TrackedRunEnds /\ ToldOnce

(* The reply shown for a finished run is a whole reply: what the hub       *)
(* accumulated from the deltas (acc_text) is all the gateway streamed,     *)
(* although a tracked run may be dropped or ended by others between any    *)
(* two of them.  A reply is cut only if deltas were lost or came before    *)
(* the registration of the run, which starts it over (synapse_hub.py:909). *)
FullReply ==
    \A m \in log : m.state = "final" /\ m.text # None => m.text.full \/ m.run \in missed

(* The docstring of _drop_agent_runs: runs are dropped "so stray terminals *)
(* from the old session can't deliver into the fresh one".                 *)
DroppedStaysOut == \A m \in log : ~m.dropped

(* "The fallback never re-delivers the previous reply"                     *)
(* (synapse_hub.py:1144): what the panes are shown from the history they   *)
(* were not shown before.                                                  *)
FallbackNotRepeated ==
    [][\A t \in fetching \ fetching', m \in log' \ log :
           m.run = t.run /\ m.text # None => \A l \in log : l.text # m.text]_vars

(* "Prefer this run's own streamed text" (synapse_hub.py:1142): the reply  *)
(* shown for a run is all it streamed.                                     *)
ReplyNeverCut == \A m \in log : m.state = "final" /\ m.text # None => m.text.full

(* A run started from a pane ends in the panes: with a message frame that  *)
(* ends the stream, unless an abort or a reset dropped the run or events   *)
(* of the run came before its registration.                                *)
EndAnnounced ==
    \A r \in Run : (phase[r] = "over" /\ kind[r] = "chat")
                    ~> (r \in forgotten \cup missed \/ \E m \in log : m.run = r)

(* A voice turn gets its answer when its run ends; it is not the 90        *)
(* seconds of the bridge that end it (Slow is FALSE in the run), with the  *)
(* same exceptions.                                                        *)
VoiceAnswered ==
    \A r \in Run : (pc[Voice] = "waiting" /\ sent[Voice] = r)
                    ~> (sent[Voice] # r \/ r \in forgotten \cup missed)

(* The pane and the voice turn are both told of the end of their run.      *)
EndsAreTold == EndAnnounced /\ VoiceAnswered

=============================================================================
