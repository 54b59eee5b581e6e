----------------------------- MODULE VoiceBridge ----------------------------
(***************************************************************************)
(* The voice bridge (services/voice_bridge.py): a manager that starts and  *)
(* stops bridge sessions, each an asyncio task that keeps one agent        *)
(* attached to the Ether-Voice appliance, and the turns of each session,   *)
(* which are tasks of their own.                                           *)
(*                                                                         *)
(* What is hard is cancellation.  A task is cancelled at the await it is   *)
(* in: the CancelledError is raised there, passes the handlers around it,  *)
(* and may be swallowed on its way.  A task that awaits another task       *)
(* passes a cancellation on to that task and does not see it itself.       *)
(*                                                                         *)
(* One binding (agent, session, pane, client) is modelled: sessions of     *)
(* different bindings share nothing.  The hub (send_voice_message and the  *)
(* future it returns) and the appliance are environment.                   *)
(***************************************************************************)
EXTENDS Naturals, FiniteSets

CONSTANTS
    MaxBridges, \* bound: bridge sessions, numbered as they are created
    MaxTurns,   \* bound: user turns
    MaxEvents,  \* bound: barge-ins and error events of the appliance
    MaxStops,   \* bound: calls of stop that find the task
    MaxFaults   \* bound: connections refused, rejected or dropped

Bridge == 1 .. MaxBridges
Turn   == 1 .. MaxTurns

ASSUME VoiceAssumption ==
    {MaxBridges, MaxTurns, MaxEvents, MaxStops, MaxFaults} \subseteq Nat

VARIABLES
    (* VoiceBridgeManager *)
    rec,        \* Bridge -> record.state
    tracked,    \* sessions with an entry in self._tasks
    stopping,   \* sessions whose stop() awaits the task
    (* VoiceBridgeSession *)
    pc,         \* Bridge -> what run() awaits
    bcancel,    \* Bridge -> a cancellation is to be raised in run()
    result,     \* Bridge -> how the task ended
    finished,   \* sessions whose done callback has run
    ws,         \* Bridge -> self.voice_ws: a connection number, 0 for None
    active,     \* Bridge -> self.active_task: a turn, 0 for None
    (* the turns: _run_turn *)
    owner,      \* Turn -> the session that heard it
    tpc,        \* Turn -> what it awaits
    tcancel,    \* Turn -> a cancellation is to be raised in it
    via,        \* Turn -> the connection its pending send is on
    (* the appliance *)
    link,       \* Bridge -> number of the open connection, or 0
    dialled,    \* Bridge -> connections opened so far
    ended,      \* Turn -> the connection its end_of_turn was sent on, or 0
    events, stops, faults

manager == <<rec, tracked, stopping>>
session == <<pc, bcancel, result, finished, ws, active>>
turns == <<owner, tpc, tcancel, via>>
counters == <<events, stops, faults>>
vars == <<manager, session, turns, link, dialled, ended, counters>>

Terminal == {"stopped", "disconnected", "error"}
Stage    == {"saying", "ending", "apologising", "closing", "aborting"}
TurnOver == {"done", "cancelled", "failed", "lost"}

Init ==
    /\ rec = [b \in Bridge |-> "none"]
    /\ tracked = {}
    /\ stopping = {}
    /\ pc = [b \in Bridge |-> "none"]
    /\ bcancel = [b \in Bridge |-> FALSE]
    /\ result = [b \in Bridge |-> "none"]
    /\ finished = {}
    /\ ws = [b \in Bridge |-> 0]
    /\ active = [b \in Bridge |-> 0]
    /\ owner = [t \in Turn |-> 0]
    /\ tpc = [t \in Turn |-> "none"]
    /\ tcancel = [t \in Turn |-> FALSE]
    /\ via = [t \in Turn |-> 0]
    /\ link = [b \in Bridge |-> 0]
    /\ dialled = [b \in Bridge |-> 0]
    /\ ended = [t \in Turn |-> 0]
    /\ events = 0
    /\ stops = 0
    /\ faults = 0

Failing == faults < MaxFaults /\ faults' = faults + 1

Mark(b, state) == rec' = [rec EXCEPT ![b] = state]
Goto(b, where) == pc' = [pc EXCEPT ![b] = where]

Running(t) == t # 0 /\ tpc[t] \notin {"none", "heard"} \cup TurnOver
Busy(b) == active[b] # 0 /\ Running(active[b])

(* run() of b takes its next step by itself: no cancellation is due. *)
At(b, where) == pc[b] = where /\ ~bcancel[b]

-----------------------------------------------------------------------------
(* The manager.                                                            *)

(* _live_for_binding *)
Live == {b \in Bridge : rec[b] \notin Terminal \cup {"none"}}

(* Sessions and turns are numbered in the order they come. *)
FirstFree(n, state) == state[n] = "none" /\ \A m \in 1 .. (n - 1) : state[m] # "none"

(* start: a live record is returned as it is, which changes nothing that   *)
(* is modelled.                                                            *)
Start(b) ==
    /\ Live = {}
    /\ FirstFree(b, rec)
    /\ Mark(b, "starting")
    /\ Goto(b, "spawned")
    /\ tracked' = tracked \cup {b}
    /\ UNCHANGED <<stopping, bcancel, result, finished, ws, active, turns, link, dialled,
                  ended, counters>>

(* stop up to its await.  A task inside _cancel_active awaits its turn, so *)
(* task.cancel() cancels the turn (once more) and leaves the task alone;   *)
(* what is raised there, by the turn or in the task, is suppressed.        *)
Passive(b) == pc[b] \in {"turning", "barging"}

Stop(b) ==
    /\ b \in tracked
    /\ stops < MaxStops
    /\ stops' = stops + 1
    /\ tracked' = tracked \ {b}
    /\ stopping' = stopping \cup {b}
    /\ IF Passive(b) /\ Busy(b)
       THEN tcancel' = [tcancel EXCEPT ![active[b]] = TRUE] /\ UNCHANGED bcancel
       ELSE bcancel' = [bcancel EXCEPT ![b] = TRUE] /\ UNCHANGED tcancel
    /\ UNCHANGED <<rec, pc, result, finished, ws, active, owner, tpc, via, link, dialled, ended,
                  events, faults>>

(* stop of a session whose task was taken by an earlier stop or is over. *)
StopAgain(b) ==
    /\ rec[b] # "none"
    /\ b \notin tracked
    /\ Mark(b, "stopped")
    /\ UNCHANGED <<tracked, stopping, session, turns, link, dialled, ended, counters>>

(* _finish, the done callback. *)
Finish(b) ==
    /\ pc[b] = "over"
    /\ b \notin finished
    /\ finished' = finished \cup {b}
    /\ tracked' = tracked \ {b}
    /\ rec' = [rec EXCEPT ![b] = IF @ = "stopped" \/ result[b] = "cancelled"
                                 THEN "stopped" ELSE "error"]
    /\ UNCHANGED <<stopping, pc, bcancel, result, ws, active, turns, link, dialled, ended,
                  counters>>

(* stop after its await; an exception of the task leaves stop as it is. *)
StopReturns(b) ==
    /\ b \in stopping
    /\ b \in finished
    /\ stopping' = stopping \ {b}
    /\ rec' = IF result[b] = "cancelled" THEN [rec EXCEPT ![b] = "stopped"] ELSE rec
    /\ UNCHANGED <<tracked, session, turns, link, dialled, ended, counters>>

-----------------------------------------------------------------------------
(* A turn.  Frames go out on whatever connection the session has now: none *)
(* (the frame is skipped), a dead one (send raises; the error path of      *)
(* _run_turn meets it again and the task dies), or an open one, on which   *)
(* the turn then awaits the write.                                         *)

Speaks(t, stage) ==
    LET b == owner[t] IN
    \/ /\ ws[b] = 0
       /\ tpc' = [tpc EXCEPT ![t] = "done"]
       /\ Mark(b, "waiting_audio")
       /\ UNCHANGED <<via, ended>>
    \/ /\ ws[b] \notin {0, link[b]}
       /\ tpc' = [tpc EXCEPT ![t] = "failed"]
       /\ UNCHANGED <<rec, via, ended>>
    \/ /\ ws[b] # 0 /\ ws[b] = link[b]
       /\ tpc' = [tpc EXCEPT ![t] = stage]
       /\ via' = [via EXCEPT ![t] = ws[b]]
       /\ ended' = IF stage \in {"saying", "apologising"} THEN ended
                   ELSE [ended EXCEPT ![t] = ws[b]]
       /\ UNCHANGED rec

TurnAt(t, where) == tpc[t] = where /\ ~tcancel[t]

(* _stream_openclaw_turn up to send_voice_message. *)
TurnBegins(t) ==
    /\ TurnAt(t, "spawned")
    /\ tpc' = [tpc EXCEPT ![t] = "asking"]
    /\ Mark(owner[t], "thinking")
    /\ UNCHANGED <<tracked, stopping, session, owner, tcancel, via, link, dialled, ended, counters>>

RunAccepted(t) ==
    /\ TurnAt(t, "asking")
    /\ tpc' = [tpc EXCEPT ![t] = "waiting"]
    /\ UNCHANGED <<manager, session, owner, tcancel, via, link, dialled, ended, counters>>

(* The hub refuses, the gateway fails, or nothing came for 90 seconds. *)
TurnFails(t) ==
    /\ TurnAt(t, "asking") \/ TurnAt(t, "waiting")
    /\ Speaks(t, "apologising")
    /\ UNCHANGED <<tracked, stopping, session, owner, tcancel, link, dialled, counters>>

(* The future is resolved, with or without a text to speak. *)
Replied(t) ==
    /\ TurnAt(t, "waiting")
    /\ Speaks(t, "saying") \/ Speaks(t, "ending")
    /\ UNCHANGED <<tracked, stopping, session, owner, tcancel, link, dialled, counters>>

SendDone(t) ==
    /\ tpc[t] \in Stage
    /\ ~tcancel[t]
    /\ via[t] = link[owner[t]]
    /\ \/ tpc[t] = "saying" /\ Speaks(t, "ending")
       \/ tpc[t] = "apologising" /\ Speaks(t, "closing")
       \/ /\ tpc[t] \in {"ending", "closing", "aborting"}
          /\ tpc' = [tpc EXCEPT ![t] = "done"]
          /\ Mark(owner[t], "waiting_audio")
          /\ UNCHANGED <<via, ended>>
    /\ UNCHANGED <<tracked, stopping, session, owner, tcancel, link, dialled, counters>>

SendFails(t) ==
    /\ tpc[t] \in Stage
    /\ ~tcancel[t]
    /\ via[t] # link[owner[t]]
    /\ IF tpc[t] \in {"apologising", "closing"}
       THEN /\ tpc' = [tpc EXCEPT ![t] = "failed"]
            /\ UNCHANGED <<rec, via, ended>>
       ELSE Speaks(t, "apologising")
    /\ UNCHANGED <<tracked, stopping, session, owner, tcancel, link, dialled, counters>>

(* The CancelledError is raised in the turn.  Only the await of the reply  *)
(* has a handler of its own, which ends the turn; elsewhere nothing more   *)
(* is sent.                                                                *)
TurnCancelled(t) ==
    /\ tcancel[t]
    /\ Running(t)
    /\ tcancel' = [tcancel EXCEPT ![t] = FALSE]
    /\ IF tpc[t] = "waiting"
       THEN Speaks(t, "aborting")
       ELSE /\ tpc' = [tpc EXCEPT ![t] = "cancelled"]
            /\ UNCHANGED <<rec, via, ended>>
    /\ UNCHANGED <<tracked, stopping, session, owner, link, dialled, counters>>

-----------------------------------------------------------------------------
(* run() and _connect_once.                                                *)

Connecting(b, from) ==
    /\ At(b, from)
    /\ Goto(b, "connecting")
    /\ Mark(b, "connecting")
    /\ UNCHANGED <<tracked, stopping, bcancel, result, finished, ws, active, turns, link,
                  dialled, ended, counters>>

Begins(b) == Connecting(b, "spawned")
Retries(b) == Connecting(b, "backoff")

Connected(b) ==
    /\ At(b, "connecting")
    /\ dialled' = [dialled EXCEPT ![b] = @ + 1]
    /\ link' = [link EXCEPT ![b] = dialled'[b]]
    /\ ws' = [ws EXCEPT ![b] = dialled'[b]]
    /\ Goto(b, "hello")
    /\ UNCHANGED <<manager, bcancel, result, finished, active, turns, ended, counters>>

ConnectFails(b) ==
    /\ At(b, "connecting")
    /\ Failing
    /\ Goto(b, "backoff")
    /\ Mark(b, "reconnecting")
    /\ UNCHANGED <<tracked, stopping, bcancel, result, finished, ws, active, turns, link,
                  dialled, ended, events, stops>>

(* _handle_welcome *)
Welcomed(b) ==
    /\ At(b, "hello")
    /\ link[b] = ws[b]
    /\ Goto(b, "listening")
    /\ Mark(b, "waiting_audio")
    /\ UNCHANGED <<tracked, stopping, bcancel, result, finished, ws, active, turns, link,
                  dialled, ended, counters>>

(* Leaving the connection's block awaits its close.  A connection that was *)
(* never welcomed stays in voice_ws.                                       *)
LeavesConnection(b, keep) ==
    /\ link' = [link EXCEPT ![b] = 0]
    /\ ws' = IF keep THEN ws ELSE [ws EXCEPT ![b] = 0]
    /\ Goto(b, "hanging_up")

(* A hello the appliance has yet to answer: nothing limits that wait.      *)
AwaitsWelcome(b) == At(b, "hello") /\ link[b] = ws[b]

(* The appliance rejects the hello, or has dropped the connection.         *)
NotWelcomed(b) ==
    /\ At(b, "hello")
    /\ IF AwaitsWelcome(b) THEN Failing ELSE UNCHANGED faults
    /\ LeavesConnection(b, TRUE)
    /\ UNCHANGED <<manager, bcancel, result, finished, active, turns, dialled, ended,
                  events, stops>>

StreamEnds(b) ==
    /\ At(b, "listening")
    /\ link[b] # ws[b]
    /\ LeavesConnection(b, FALSE)
    /\ UNCHANGED <<manager, bcancel, result, finished, active, turns, dialled, ended, counters>>

(* Defect: a stream that ends cleanly ends run(). *)
HungUpForGood(b) ==
    /\ At(b, "hanging_up")
    /\ Goto(b, "over")
    /\ result' = [result EXCEPT ![b] = "cancelled"]
    /\ Mark(b, "reconnecting")
    /\ UNCHANGED <<tracked, stopping, bcancel, finished, ws, active, turns, link,
                  dialled, ended, counters>>

(* The close is done: run() logs the error or the end and backs off. *)
HungUp(b) ==
    /\ At(b, "hanging_up")
    /\ Goto(b, "backoff")
    /\ Mark(b, "reconnecting")
    /\ UNCHANGED <<tracked, stopping, bcancel, result, finished, ws, active, turns, link,
                  dialled, ended, counters>>

(* The new task is spawned. *)
Spawns(b, t) ==
    /\ tpc' = [tpc EXCEPT ![t] = "spawned"]
    /\ active' = [active EXCEPT ![b] = t]

(* Defect: the turn before is cancelled but not awaited. *)
UserTurnNoAwait(b, t) ==
    /\ At(b, "listening")
    /\ link[b] = ws[b]
    /\ FirstFree(t, tpc)
    /\ owner' = [owner EXCEPT ![t] = b]
    /\ Mark(b, "heard")
    /\ tcancel' = IF Busy(b) THEN [tcancel EXCEPT ![active[b]] = TRUE] ELSE tcancel
    /\ Spawns(b, t)
    /\ UNCHANGED <<pc, tracked, stopping, bcancel, result, finished, ws, via, link, dialled,
                  ended, counters>>

(* _start_turn: the turn before is cancelled and awaited, then the new one *)
(* is spawned.                                                             *)
UserTurn(b, t) ==
    /\ At(b, "listening")
    /\ link[b] = ws[b]
    /\ FirstFree(t, tpc)
    /\ owner' = [owner EXCEPT ![t] = b]
    /\ Mark(b, "heard")
    /\ IF Busy(b)
       THEN /\ tcancel' = [tcancel EXCEPT ![active[b]] = TRUE]
            /\ tpc' = [tpc EXCEPT ![t] = "heard"]
            /\ Goto(b, "turning")
            /\ UNCHANGED active
       ELSE /\ Spawns(b, t)
            /\ UNCHANGED <<pc, tcancel>>
    /\ UNCHANGED <<tracked, stopping, bcancel, result, finished, ws, via, link, dialled,
                  ended, counters>>

(* _barge_in up to its first await. *)
BargeIn(b) ==
    /\ At(b, "listening")
    /\ link[b] = ws[b]
    /\ events < MaxEvents
    /\ events' = events + 1
    /\ tcancel' = IF Busy(b) THEN [tcancel EXCEPT ![active[b]] = TRUE] ELSE tcancel
    /\ Goto(b, IF Busy(b) THEN "barging" ELSE "chat_abort")
    /\ UNCHANGED <<manager, bcancel, result, finished, ws, active, owner, tpc, via, link,
                  dialled, ended, stops, faults>>

(* _cancel_active returns: the awaited turn was cancelled or came to its   *)
(* end, or a cancellation of run() itself was suppressed.                  *)
TurnGone(b) ==
    /\ Passive(b)
    /\ ~Busy(b)
    /\ tpc[active[b]] # "failed" \/ bcancel[b]
    /\ bcancel' = [bcancel EXCEPT ![b] = FALSE]
    /\ \/ /\ pc[b] = "turning"
          /\ \E t \in Turn : owner[t] = b /\ tpc[t] = "heard" /\ Spawns(b, t)
          /\ Goto(b, "listening")
       \/ /\ pc[b] = "barging"
          /\ Goto(b, "chat_abort")
          /\ UNCHANGED <<tpc, active>>
    /\ UNCHANGED <<manager, result, finished, ws, owner, tcancel, via, link, dialled,
                  ended, counters>>

(* The awaited turn died of its second failed send: the exception ends the *)
(* connection, and the new turn is never started.                          *)
TurnGoneBadly(b) ==
    /\ Passive(b)
    /\ ~Busy(b)
    /\ tpc[active[b]] = "failed" /\ ~bcancel[b]
    /\ tpc' = [t \in Turn |-> IF owner[t] = b /\ tpc[t] = "heard" THEN "lost" ELSE tpc[t]]
    /\ LeavesConnection(b, FALSE)
    /\ UNCHANGED <<manager, bcancel, result, finished, active, owner, tcancel, via, dialled,
                  ended, counters>>

(* chat.abort is answered, or fails, which is suppressed. *)
AbortDone(b) ==
    /\ At(b, "chat_abort")
    /\ Goto(b, "listening")
    /\ UNCHANGED <<manager, bcancel, result, finished, ws, active, turns, link, dialled,
                  ended, counters>>

ErrorEvent(b) ==
    /\ At(b, "listening")
    /\ link[b] = ws[b]
    /\ events < MaxEvents
    /\ events' = events + 1
    /\ Mark(b, "error")
    /\ UNCHANGED <<tracked, stopping, session, turns, link, dialled, ended, stops, faults>>

(* The appliance restarts, or the network goes. *)
Dropped(b) ==
    /\ link[b] # 0
    /\ Failing
    /\ link' = [link EXCEPT ![b] = 0]
    /\ UNCHANGED <<manager, session, turns, dialled, ended, events, stops>>

(* The CancelledError is raised in run().  Inside the connection's block   *)
(* the close is awaited first.                                             *)
Cancelled(b) ==
    /\ bcancel[b]
    /\ ~Passive(b)
    /\ bcancel' = [bcancel EXCEPT ![b] = FALSE]
    /\ CASE pc[b] = "spawned" ->
            /\ Goto(b, "over")
            /\ result' = [result EXCEPT ![b] = "cancelled"]
            /\ UNCHANGED <<ws, link>>
         [] pc[b] \in {"hello", "listening", "chat_abort"} ->
            /\ link' = [link EXCEPT ![b] = 0]
            /\ ws' = IF pc[b] = "hello" THEN ws ELSE [ws EXCEPT ![b] = 0]
            /\ Goto(b, "leaving")
            /\ UNCHANGED result
         [] OTHER ->
            /\ Goto(b, "leaving")
            /\ UNCHANGED <<result, ws, link>>
    /\ UNCHANGED <<manager, finished, active, turns, dialled, ended, counters>>

(* Defect: the turn is cancelled and not awaited. *)
LeavesNoAwait(b) ==
    /\ pc[b] = "leaving"
    /\ tcancel' = IF Busy(b) THEN [tcancel EXCEPT ![active[b]] = TRUE] ELSE tcancel
    /\ Goto(b, "over")
    /\ result' = [result EXCEPT ![b] = "cancelled"]
    /\ ws' = [ws EXCEPT ![b] = 0]
    /\ UNCHANGED <<manager, bcancel, finished, active, owner, tpc, via, link, dialled, ended,
                  counters>>

(* The finally block of run(): _cancel_active, then the task is over. *)
Leaves(b) ==
    /\ pc[b] = "leaving"
    /\ IF Busy(b)
       THEN /\ tcancel' = [tcancel EXCEPT ![active[b]] = TRUE]
            /\ Goto(b, "final")
            /\ UNCHANGED <<result, ws>>
       ELSE /\ Goto(b, "over")
            /\ result' = [result EXCEPT ![b] = "cancelled"]
            /\ ws' = [ws EXCEPT ![b] = 0]
            /\ UNCHANGED tcancel
    /\ UNCHANGED <<manager, bcancel, finished, active, owner, tpc, via, link, dialled, ended,
                  counters>>

Ends(b) ==
    /\ pc[b] = "final"
    /\ ~Busy(b)
    /\ Goto(b, "over")
    /\ result' = [result EXCEPT ![b] = IF tpc[active[b]] = "failed" THEN "failed" ELSE "cancelled"]
    /\ ws' = [ws EXCEPT ![b] = 0]
    /\ UNCHANGED <<manager, bcancel, finished, active, turns, link, dialled, ended, counters>>

-----------------------------------------------------------------------------
TurnStep(t) ==
    \/ TurnBegins(t) \/ RunAccepted(t) \/ TurnFails(t) \/ Replied(t)
    \/ SendDone(t) \/ SendFails(t) \/ TurnCancelled(t)

(* What the appliance answers to the hello, if it does. *)
Greets(b) == Welcomed(b) \/ (AwaitsWelcome(b) /\ NotWelcomed(b))

(* What run() of b does by itself, and its end. *)
SessionStep(b) ==
    \/ Begins(b) \/ Retries(b) \/ Connected(b) \/ (~AwaitsWelcome(b) /\ NotWelcomed(b))
    \/ StreamEnds(b) \/ HungUp(b) \/ TurnGone(b) \/ TurnGoneBadly(b) \/ AbortDone(b)
    \/ Cancelled(b) \/ Leaves(b) \/ Ends(b) \/ Finish(b)

Next ==
    \/ \E b \in Bridge :
        \/ Start(b) \/ Stop(b) \/ StopAgain(b) \/ StopReturns(b) \/ SessionStep(b) \/ Greets(b)
        \/ ConnectFails(b) \/ BargeIn(b) \/ ErrorEvent(b) \/ Dropped(b)
        \/ \E t \in Turn : UserTurn(b, t)
    \/ \E t \in Turn : TurnStep(t)

Spec == Init /\ [][Next]_vars

(* The loop runs what is ready; a connection attempt and a close come to   *)
(* an end (the library's timeouts), as does a write (its pings), and a     *)
(* turn waits 90 seconds at most.  The appliance may stay silent.          *)
Fairness ==
    /\ \A b \in Bridge : WF_vars(SessionStep(b)) /\ WF_vars(StopReturns(b))
    /\ \A t \in Turn : WF_vars(TurnStep(t))

FairSpec == Spec /\ Fairness

-----------------------------------------------------------------------------
(* Properties.                                                             *)

(* Types, with the phases of run() (pc) and of a turn (tpc) as they are    *)
(* named above.                                                            *)
TypeOK ==
    /\ rec \in [Bridge -> Terminal \cup {"none", "starting", "connecting", "reconnecting",
                                         "waiting_audio", "heard", "thinking"}]
    /\ tracked \subseteq Bridge
    /\ stopping \subseteq Bridge
    /\ pc \in [Bridge -> {"none", "spawned", "connecting", "hello", "listening", "turning",
                          "barging", "chat_abort", "hanging_up", "backoff", "leaving",
                          "final", "over"}]
    /\ bcancel \in [Bridge -> BOOLEAN]
    /\ result \in [Bridge -> {"none", "cancelled", "failed"}]
    /\ finished \subseteq Bridge
    /\ ws \in [Bridge -> Nat]
    /\ active \in [Bridge -> {0} \cup Turn]
    /\ owner \in [Turn -> {0} \cup Bridge]
    /\ tpc \in [Turn -> {"none", "heard", "spawned", "asking", "waiting"} \cup Stage \cup TurnOver]
    /\ tcancel \in [Turn -> BOOLEAN]
    /\ via \in [Turn -> Nat]
    /\ link \in [Bridge -> Nat]
    /\ dialled \in [Bridge -> Nat]
    /\ ended \in [Turn -> Nat]
    /\ {events, stops, faults} \subseteq Nat

(* Whatever is said or ended is the session's newest turn, no earlier turn *)
(* of it is still at work, and its end was not told on this connection:    *)
(* a user who speaks again never hears the old answer under the new turn.  *)
(* _start_turn cancels and awaits the old turn, whose handlers may send    *)
(* on; after a failed write a turn speaks again, on the next connection.   *)
OneVoice ==
    [][\A t \in Turn : tpc'[t] \in Stage /\ tpc'[t] # tpc[t] =>
            /\ active[owner[t]] = t
            /\ ended[t] # via'[t]
            /\ \A u \in Turn \ {t} : owner[u] = owner[t] => ~Running(u)]_vars

(* A session whose task is over and reaped stays so: its record has an end *)
(* state, it is not tracked and no turn of it runs on, which would send and *)
(* mark the dead record as listening.                                      *)
OverIsQuiet ==
    \A b \in finished :
        /\ rec[b] \in Terminal
        /\ b \notin tracked
        /\ \A t \in Turn : owner[t] = b => ~Running(t)

(* Sessions are well formed, and the finished ones are quiet.              *)
Inv == TypeOK /\ OverIsQuiet

(* A session nobody stops comes back to listening, whatever the network    *)
(* and its turns do ("the agent silently detaches" otherwise), unless the  *)
(* appliance keeps the connection and never answers a hello; one with a    *)
(* cancellation due comes to its end, also in that silence, through the    *)
(* close of the connection and the end of its turn, unless it meets run()  *)
(* inside _cancel_active, where it is suppressed.                          *)
ListensOrEnds ==
    \A b \in Bridge :
        \/ <>[]AwaitsWelcome(b)
        \/ (pc[b] \notin {"none", "over"}) ~>
               (At(b, "listening") \/ (pc[b] = "over" /\ b \in stopping))

(* stop comes to its end ("Only stops on cancellation (MANAGER.stop)").    *)
StopStops ==
    \A b \in Bridge : (b \in stopping) ~> (b \notin stopping)

(* Every turn that is over was ended with an end_of_turn, as long as the   *)
(* connection held and nobody stopped the session ("Always send            *)
(* end_of_turn after final, abort, or error").                             *)
TurnsAreEnded ==
    \A t \in Turn : tpc[t] \in TurnOver /\ faults = 0 /\ stops = 0 => ended[t] # 0
=============================================================================
