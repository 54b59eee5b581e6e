------------------------- MODULE VoiceBridgeProofs --------------------------
(***************************************************************************)
(* Proofs about VoiceBridge, for any number of bridge sessions, turns,     *)
(* events, stops and lost connections.                                     *)
(***************************************************************************)
EXTENDS VoiceBridge, TLAPS

-----------------------------------------------------------------------------
(* The inductive invariant.                                                *)

RecState == Terminal \cup {"none", "starting", "connecting", "reconnecting",
                           "waiting_audio", "heard", "thinking"}
Phase == {"none", "spawned", "connecting", "hello", "listening", "turning", "barging",
          "chat_abort", "hanging_up", "backoff", "leaving", "final", "over"}
TurnPhase == {"none", "heard", "spawned", "asking", "waiting"} \cup Stage \cup TurnOver

(* What no step has to look at. *)
Loose ==
    /\ stopping \subseteq Bridge
    /\ bcancel \in [Bridge -> BOOLEAN]
    /\ result \in [Bridge -> {"none", "cancelled", "failed"}]
    /\ ws \in [Bridge -> Nat] /\ link \in [Bridge -> Nat] /\ dialled \in [Bridge -> Nat]
    /\ tcancel \in [Turn -> BOOLEAN]
    /\ events \in Nat /\ stops \in Nat /\ faults \in Nat

Typed ==
    /\ rec \in [Bridge -> RecState]
    /\ tracked \subseteq Bridge
    /\ pc \in [Bridge -> Phase]
    /\ finished \subseteq Bridge
    /\ active \in [Bridge -> {0} \cup Turn]
    /\ owner \in [Turn -> {0} \cup Bridge]
    /\ tpc \in [Turn -> TurnPhase]
    /\ via \in [Turn -> Nat]
    /\ ended \in [Turn -> Nat]

(* A session's active turn is its own, and no other turn of it runs.       *)
ActiveInv ==
    /\ \A b \in Bridge : active[b] # 0 =>
          owner[active[b]] = b /\ tpc[active[b]] \notin {"none", "heard"}
    /\ \A t \in Turn : Running(t) => owner[t] \in Bridge /\ active[owner[t]] = t

(* One turn at most is about to be spawned, by a session that waits for    *)
(* the turn before.                                                        *)
HeardInv ==
    /\ \A t \in Turn : tpc[t] = "heard" => owner[t] \in Bridge /\ pc[owner[t]] = "turning"
    /\ \A t, u \in Turn :
          tpc[t] = "heard" /\ tpc[u] = "heard" /\ owner[t] = owner[u] => t = u

OverInv ==
    /\ \A b \in Bridge : rec[b] = "none" => pc[b] = "none"
    /\ \A b \in Bridge : pc[b] \in {"none", "spawned", "over"} => ~Busy(b)
    /\ \A b \in finished : pc[b] = "over" /\ rec[b] \in Terminal /\ b \notin tracked

(* On which connection the end of a turn was told, by where the turn is.   *)
Told(phase, end, sent) ==
    /\ phase \in {"none", "heard", "spawned", "asking", "waiting", "saying"} => end = 0
    /\ phase = "apologising" => end # sent
    /\ phase \in {"ending", "closing", "aborting"} => end = sent

ToldInv == \A t \in Turn : Told(tpc[t], ended[t], via[t])

Core == Typed /\ ActiveInv /\ HeardInv /\ OverInv /\ ToldInv
Base == Core /\ Loose

(* A session is cancelled by one stop, and runs until then. *)
StopInv ==
    \A b \in Bridge :
        /\ b \in tracked => pc[b] \notin {"none", "leaving", "final", "over"} /\ ~bcancel[b]
        /\ bcancel[b] => pc[b] \notin {"none", "leaving", "final", "over"}

VoiceInv == Base /\ StopInv

Works(phase) == phase \notin {"none", "heard"} \cup TurnOver

LEMMA Numbers ==
    /\ Bridge \subseteq Nat /\ Turn \subseteq Nat /\ 0 \notin Bridge /\ 0 \notin Turn
BY DEF Bridge, Turn

LEMMA Runs == \A t \in Turn : Running(t) <=> Works(tpc[t])
BY Numbers DEF Running, Works

-----------------------------------------------------------------------------
(* Steps of a turn.                                                        *)

(* A turn that runs goes on or comes to its end, and may mark the record.  *)
LEMMA TurnMoves ==
    ASSUME Core, NEW t \in Turn, Running(t),
           NEW s \in {"asking", "waiting"} \cup Stage \cup TurnOver,
           tpc' = [tpc EXCEPT ![t] = s],
           \/ rec' = rec
           \/ \E m \in RecState \ {"none"} : rec' = [rec EXCEPT ![owner[t]] = m],
           via' \in [Turn -> Nat], ended' \in [Turn -> Nat],
           \A u \in Turn \ {t} : via'[u] = via[u] /\ ended'[u] = ended[u],
           Told(s, ended'[t], via'[t]),
           UNCHANGED <<tracked, pc, finished, active, owner>>
    PROVE  Core'
<1>1. /\ Typed /\ owner[t] \in Bridge /\ active[owner[t]] = t /\ t # 0
      /\ tpc[t] \notin {"none", "heard"}
    BY Numbers, Runs DEF Core, ActiveInv, Works
<1>2. s \in TurnPhase /\ s \notin {"none", "heard"}
    BY DEF TurnPhase, Stage, TurnOver
<1>3. \A u \in Turn : tpc'[u] = IF u = t THEN s ELSE tpc[u]
    BY <1>1 DEF Typed
<1>4. pc[owner[t]] \notin {"none", "spawned", "over"}
    BY <1>1 DEF Core, OverInv, Busy
<1>5. \A b \in Bridge : rec'[b] = rec[b] \/ (b = owner[t] /\ rec'[b] # "none")
    BY <1>1 DEF Typed
<1>6. Typed'
    BY <1>1, <1>2 DEF Typed
<1>7. \A u \in Turn : u # t => (Running(u)' <=> Running(u))
    BY <1>3 DEF Running
<1>8. ActiveInv'
    <2>1. ASSUME NEW b \in Bridge, active[b] # 0
          PROVE  owner[active[b]] = b /\ tpc'[active[b]] \notin {"none", "heard"}
        <3>1. active[b] \in Turn
            BY <1>1, <2>1 DEF Typed
        <3>2. owner[active[b]] = b /\ tpc[active[b]] \notin {"none", "heard"}
            BY <2>1 DEF Core, ActiveInv
        <3> QED BY <1>2, <1>3, <3>1, <3>2
    <2>2. ASSUME NEW u \in Turn, Running(u)' PROVE owner[u] \in Bridge /\ active[owner[u]] = u
        <3>1. CASE u = t
            BY <1>1, <3>1
        <3>2. CASE u # t
            BY <1>7, <2>2, <3>2 DEF Core, ActiveInv
        <3> QED BY <3>1, <3>2
    <2> QED BY <2>1, <2>2 DEF ActiveInv
<1>9. HeardInv'
    <2>1. \A u \in Turn : tpc'[u] = "heard" => tpc[u] = "heard"
        BY <1>2, <1>3
    <2> QED BY <2>1 DEF Core, HeardInv
<1>10. OverInv'
    <2>1. \A b \in Bridge : rec'[b] = "none" => pc[b] = "none"
        BY <1>5 DEF Core, OverInv
    <2>2. ASSUME NEW b \in Bridge, pc[b] \in {"none", "spawned", "over"} PROVE ~Busy(b)'
        <3>1. ~Busy(b) /\ active[b] \in {0} \cup Turn
            BY <1>1, <2>2 DEF Core, OverInv, Typed
        <3>2. active[b] # t
            BY <1>1, <1>4, <2>2 DEF Core, ActiveInv
        <3> QED BY <1>7, <3>1, <3>2 DEF Busy
    <2>3. ASSUME NEW b \in finished
          PROVE  pc[b] = "over" /\ rec'[b] \in Terminal /\ b \notin tracked
        <3>1. b \in Bridge /\ b # owner[t] /\ rec[b] \in Terminal
            BY <1>1, <1>4 DEF Core, OverInv, Typed
        <3> QED BY <1>5, <3>1 DEF Core, OverInv
    <2> QED BY <2>1, <2>2, <2>3 DEF OverInv
<1>11. ToldInv'
    <2>1. ASSUME NEW u \in Turn PROVE Told(tpc'[u], ended'[u], via'[u])
        <3>1. CASE u = t
            BY <1>3, <3>1
        <3>2. CASE u # t
            BY <1>3, <3>2 DEF Core, ToldInv
        <3> QED BY <3>1, <3>2
    <2> QED BY <2>1 DEF ToldInv
<1> QED BY <1>6, <1>8, <1>9, <1>10, <1>11 DEF Core

(* A frame goes out on the session's connection, if there is one.          *)
LEMMA SpeaksKeeps ==
    ASSUME Core, Loose, NEW t \in Turn, Running(t), NEW stage \in Stage, Speaks(t, stage),
           ws[owner[t]] # 0 /\ ws[owner[t]] = link[owner[t]] =>
               /\ stage = "saying" => ended[t] = 0
               /\ stage = "apologising" => ended[t] # ws[owner[t]],
           UNCHANGED <<tracked, pc, finished, active, owner>>
    PROVE  Core'
<1> DEFINE b == owner[t]
<1>1. /\ Typed /\ b \in Bridge /\ ws[b] \in Nat
    BY DEF Core, ActiveInv, Loose
<1>2. CASE /\ ws[b] = 0 /\ tpc' = [tpc EXCEPT ![t] = "done"]
           /\ Mark(b, "waiting_audio") /\ UNCHANGED <<via, ended>>
    <2>1. /\ rec' = [rec EXCEPT ![owner[t]] = "waiting_audio"]
          /\ "waiting_audio" \in RecState \ {"none"}
        BY <1>2 DEF Mark, RecState
    <2>2. "done" \in TurnOver /\ Told("done", ended'[t], via'[t])
        BY DEF TurnOver, Told
    <2> QED BY <1>1, <1>2, <2>1, <2>2, TurnMoves DEF Typed
<1>3. CASE /\ ws[b] \notin {0, link[b]} /\ tpc' = [tpc EXCEPT ![t] = "failed"]
           /\ UNCHANGED <<rec, via, ended>>
    <2>1. "failed" \in TurnOver /\ Told("failed", ended'[t], via'[t])
        BY DEF TurnOver, Told
    <2> QED BY <1>1, <1>3, <2>1, TurnMoves DEF Typed
<1>4. CASE /\ ws[b] # 0 /\ ws[b] = link[b] /\ tpc' = [tpc EXCEPT ![t] = stage]
           /\ via' = [via EXCEPT ![t] = ws[b]]
           /\ ended' = IF stage \in {"saying", "apologising"} THEN ended
                       ELSE [ended EXCEPT ![t] = ws[b]]
           /\ UNCHANGED rec
    <2>1. /\ via' \in [Turn -> Nat] /\ via'[t] = ws[b]
          /\ \A u \in Turn \ {t} : via'[u] = via[u]
        BY <1>1, <1>4 DEF Typed
    <2>2. /\ ended' \in [Turn -> Nat]
          /\ ended'[t] = IF stage \in {"saying", "apologising"} THEN ended[t] ELSE ws[b]
          /\ \A u \in Turn \ {t} : ended'[u] = ended[u]
        BY <1>1, <1>4 DEF Typed
    <2>3. Told(stage, ended'[t], via'[t])
        BY <1>4, <2>1, <2>2 DEF Told, Stage
    <2> QED BY <1>4, <2>1, <2>2, <2>3, TurnMoves
<1> QED BY <1>2, <1>3, <1>4 DEF Speaks

LEMMA TurnSteps ==
    ASSUME Base, NEW t \in Turn, TurnStep(t)
    PROVE  Base'
<1>1. /\ Core /\ Loose /\ Typed /\ Told(tpc[t], ended[t], via[t])
      /\ tpc[t] \in TurnPhase
    BY DEF Base, Core, ToldInv, Typed
<1>2. ASSUME TurnBegins(t) PROVE Base'
    <2>1. /\ tpc[t] = "spawned" /\ tpc' = [tpc EXCEPT ![t] = "asking"]
          /\ rec' = [rec EXCEPT ![owner[t]] = "thinking"]
          /\ UNCHANGED <<tracked, stopping, pc, bcancel, result, finished, ws, active, owner,
                         tcancel, via, link, dialled, ended, events, stops, faults>>
        BY <1>2 DEF TurnBegins, TurnAt, Mark, session, counters
    <2>2. Running(t) /\ "thinking" \in RecState \ {"none"} /\ Told("asking", ended'[t], via'[t])
        BY <1>1, <2>1, Runs DEF Works, TurnOver, RecState, Told
    <2>3. Core'
        BY <1>1, <2>1, <2>2, TurnMoves DEF Typed
    <2> QED BY <1>1, <2>1, <2>3 DEF Base, Loose
<1>3. ASSUME RunAccepted(t) PROVE Base'
    <2>1. /\ tpc[t] = "asking" /\ tpc' = [tpc EXCEPT ![t] = "waiting"] /\ rec' = rec
          /\ UNCHANGED <<tracked, stopping, pc, bcancel, result, finished, ws, active, owner,
                         tcancel, via, link, dialled, ended, events, stops, faults>>
        BY <1>3 DEF RunAccepted, TurnAt, manager, session, counters
    <2>2. Running(t) /\ Told("waiting", ended'[t], via'[t])
        BY <1>1, <2>1, Runs DEF Works, TurnOver, Told
    <2>3. Core'
        BY <1>1, <2>1, <2>2, TurnMoves DEF Typed
    <2> QED BY <1>1, <2>1, <2>3 DEF Base, Loose
<1>4. ASSUME TurnFails(t) PROVE Base'
    <2>1. /\ tpc[t] \in {"asking", "waiting"} /\ Speaks(t, "apologising")
          /\ UNCHANGED <<tracked, stopping, pc, bcancel, result, finished, ws, active, owner,
                         tcancel, link, dialled, events, stops, faults>>
        BY <1>4 DEF TurnFails, TurnAt, session, counters
    <2>2. Running(t) /\ ended[t] = 0 /\ "apologising" \in Stage
        BY <1>1, <2>1, Runs DEF Works, TurnOver, Told, Stage
    <2>3. Core'
        BY <1>1, <2>1, <2>2, SpeaksKeeps
    <2> QED BY <1>1, <2>1, <2>3 DEF Base, Loose
<1>5. ASSUME Replied(t) PROVE Base'
    <2>1. /\ tpc[t] = "waiting" /\ (Speaks(t, "saying") \/ Speaks(t, "ending"))
          /\ UNCHANGED <<tracked, stopping, pc, bcancel, result, finished, ws, active, owner,
                         tcancel, link, dialled, events, stops, faults>>
        BY <1>5 DEF Replied, TurnAt, session, counters
    <2>2. Running(t) /\ ended[t] = 0 /\ "saying" \in Stage /\ "ending" \in Stage
        BY <1>1, <2>1, Runs DEF Works, TurnOver, Told, Stage
    <2>3. CASE Speaks(t, "saying")
        <3>1. Core'
            BY <1>1, <2>1, <2>2, <2>3, SpeaksKeeps
        <3> QED BY <1>1, <2>1, <3>1 DEF Base, Loose
    <2>4. CASE Speaks(t, "ending")
        <3>1. Core'
            BY <1>1, <2>1, <2>2, <2>4, SpeaksKeeps
        <3> QED BY <1>1, <2>1, <3>1 DEF Base, Loose
    <2> QED BY <2>1, <2>3, <2>4
<1>6. ASSUME SendDone(t) PROVE Base'
    <2>1. /\ tpc[t] \in Stage /\ via[t] = link[owner[t]]
          /\ UNCHANGED <<tracked, stopping, pc, bcancel, result, finished, ws, active, owner,
                         tcancel, link, dialled, events, stops, faults>>
        BY <1>6 DEF SendDone, session, counters
    <2>2. Running(t) /\ {"ending", "closing"} \subseteq Stage
        BY <1>1, <2>1, Runs DEF Works, TurnOver, Stage
    <2>3. ASSUME Speaks(t, "ending") PROVE Core'
        BY <1>1, <2>1, <2>2, <2>3, SpeaksKeeps
    <2>4. ASSUME Speaks(t, "closing") PROVE Core'
        BY <1>1, <2>1, <2>2, <2>4, SpeaksKeeps
    <2>5. ASSUME tpc' = [tpc EXCEPT ![t] = "done"], Mark(owner[t], "waiting_audio"),
                 UNCHANGED <<via, ended>>
          PROVE  Core'
        <3>1. /\ rec' = [rec EXCEPT ![owner[t]] = "waiting_audio"]
              /\ "waiting_audio" \in RecState \ {"none"}
            BY <2>5 DEF Mark, RecState
        <3>2. "done" \in TurnOver /\ Told("done", ended'[t], via'[t])
            BY DEF TurnOver, Told
        <3> QED BY <1>1, <2>1, <2>2, <2>5, <3>1, <3>2, TurnMoves DEF Typed
    <2>6. Core'
        BY <1>6, <2>3, <2>4, <2>5 DEF SendDone
    <2> QED BY <1>1, <2>1, <2>6 DEF Base, Loose
<1>7. ASSUME SendFails(t) PROVE Base'
    <2>1. /\ tpc[t] \in Stage /\ via[t] # link[owner[t]]
          /\ UNCHANGED <<tracked, stopping, pc, bcancel, result, finished, ws, active, owner,
                         tcancel, link, dialled, events, stops, faults>>
        BY <1>7 DEF SendFails, session, counters
    <2>2. Running(t) /\ "apologising" \in Stage
        BY <1>1, <2>1, Runs DEF Works, TurnOver, Stage
    <2>3. CASE tpc[t] \in {"apologising", "closing"}
        <3>1. tpc' = [tpc EXCEPT ![t] = "failed"] /\ UNCHANGED <<rec, via, ended>>
            BY <1>7, <2>3 DEF SendFails
        <3>2. "failed" \in TurnOver /\ Told("failed", ended'[t], via'[t])
            BY DEF TurnOver, Told
        <3>3. Core'
            BY <1>1, <2>1, <2>2, <3>1, <3>2, TurnMoves DEF Typed
        <3> QED BY <1>1, <2>1, <3>3 DEF Base, Loose
    <2>4. CASE tpc[t] \notin {"apologising", "closing"}
        <3>1. Speaks(t, "apologising")
            BY <1>7, <2>4 DEF SendFails
        <3>2. ended[t] = 0 \/ ended[t] = via[t]
            BY <1>1, <2>1, <2>4 DEF Stage, Told
        <3>3. Core'
            BY <1>1, <2>1, <2>2, <3>1, <3>2, SpeaksKeeps
        <3> QED BY <1>1, <2>1, <3>3 DEF Base, Loose
    <2> QED BY <2>3, <2>4
<1>8. ASSUME TurnCancelled(t) PROVE Base'
    <2>1. /\ Running(t) /\ tcancel' = [tcancel EXCEPT ![t] = FALSE]
          /\ UNCHANGED <<tracked, stopping, pc, bcancel, result, finished, ws, active, owner,
                         link, dialled, events, stops, faults>>
        BY <1>8 DEF TurnCancelled, session, counters
    <2>2. Loose'
        BY <1>1, <2>1 DEF Loose
    <2>3. CASE tpc[t] = "waiting"
        <3>1. Speaks(t, "aborting") /\ "aborting" \in Stage
            BY <1>8, <2>3 DEF TurnCancelled, Stage
        <3>2. Core'
            BY <1>1, <2>1, <3>1, SpeaksKeeps
        <3> QED BY <2>2, <3>2 DEF Base
    <2>4. CASE tpc[t] # "waiting"
        <3>1. tpc' = [tpc EXCEPT ![t] = "cancelled"] /\ UNCHANGED <<rec, via, ended>>
            BY <1>8, <2>4 DEF TurnCancelled
        <3>2. "cancelled" \in TurnOver /\ Told("cancelled", ended'[t], via'[t])
            BY DEF TurnOver, Told
        <3>3. Core'
            BY <1>1, <2>1, <3>1, <3>2, TurnMoves DEF Typed
        <3> QED BY <2>2, <3>3 DEF Base
    <2> QED BY <2>3, <2>4
<1> QED BY <1>2, <1>3, <1>4, <1>5, <1>6, <1>7, <1>8 DEF TurnStep

-----------------------------------------------------------------------------
(* Steps of a session.                                                     *)

(* run() goes on, with its turns as they are, and may mark the record.     *)
LEMMA SessionMoves ==
    ASSUME Core, NEW b \in Bridge, pc[b] \notin {"none", "turning", "over"},
           NEW w \in Phase \ {"none", "turning"}, pc' = [pc EXCEPT ![b] = w],
           w \in {"spawned", "over"} => ~Busy(b),
           \/ rec' = rec
           \/ \E m \in RecState \ {"none"} : rec' = [rec EXCEPT ![b] = m],
           UNCHANGED <<tracked, finished, active, owner, tpc, via, ended>>
    PROVE  Core'
<1>1. Typed
    BY DEF Core
<1>2. \A c \in Bridge : pc'[c] = IF c = b THEN w ELSE pc[c]
    BY <1>1 DEF Typed
<1>3. \A c \in Bridge : rec'[c] = rec[c] \/ (c = b /\ rec'[c] # "none")
    BY <1>1 DEF Typed
<1>4. \A c \in Bridge : rec'[c] \in RecState
    BY <1>1 DEF Typed
<1>5. Typed'
    BY <1>1 DEF Typed
<1>6. ActiveInv' /\ ToldInv'
    BY DEF Core, ActiveInv, ToldInv, Running
<1>7. HeardInv'
    BY <1>2 DEF Core, HeardInv
<1>8. OverInv'
    <2>1. \A c \in Bridge : rec'[c] = "none" => pc'[c] = "none"
        BY <1>2, <1>3 DEF Core, OverInv
    <2>2. \A c \in Bridge : pc'[c] \in {"none", "spawned", "over"} => ~Busy(c)'
        BY <1>2 DEF Core, OverInv, Busy, Running
    <2>3. \A c \in finished : pc'[c] = "over" /\ rec'[c] \in Terminal /\ c \notin tracked
        BY <1>1, <1>2, <1>3 DEF Core, OverInv, Typed
    <2> QED BY <2>1, <2>2, <2>3 DEF OverInv
<1> QED BY <1>5, <1>6, <1>7, <1>8 DEF Core

(* A turn that was heard is spawned, once the turn before is over.         *)
LEMMA SpawnKeeps ==
    ASSUME Core, NEW b \in Bridge, pc[b] \in {"listening", "turning"}, ~Busy(b),
           NEW t \in Turn, tpc[t] \in {"none", "heard"}, Spawns(b, t),
           tpc[t] = "none" => pc[b] = "listening" /\ owner' = [owner EXCEPT ![t] = b],
           tpc[t] = "heard" => owner[t] = b /\ UNCHANGED owner,
           pc' = [pc EXCEPT ![b] = "listening"],
           rec' \in [Bridge -> RecState],
           \A c \in Bridge : rec'[c] = rec[c] \/ (c = b /\ rec'[c] # "none"),
           UNCHANGED <<tracked, finished, via, ended>>
    PROVE  Core'
<1>1. Typed /\ t # 0
    BY Numbers DEF Core
<1>2. /\ \A u \in Turn : tpc'[u] = IF u = t THEN "spawned" ELSE tpc[u]
      /\ \A c \in Bridge : active'[c] = IF c = b THEN t ELSE active[c]
      /\ \A c \in Bridge : pc'[c] = IF c = b THEN "listening" ELSE pc[c]
    BY <1>1 DEF Typed, Spawns
<1>3. owner'[t] = b /\ \A u \in Turn : u # t => owner'[u] = owner[u]
    BY <1>1 DEF Typed
<1>4. Typed'
    <2>1. "spawned" \in TurnPhase /\ "listening" \in Phase
        BY DEF TurnPhase, Phase
    <2>2. tpc' \in [Turn -> TurnPhase] /\ active' \in [Bridge -> {0} \cup Turn]
        BY <1>1, <2>1 DEF Typed, Spawns
    <2>3. owner' \in [Turn -> {0} \cup Bridge]
        BY <1>1 DEF Typed
    <2>4. pc' \in [Bridge -> Phase]
        BY <1>1, <2>1 DEF Typed
    <2> QED BY <1>1, <2>2, <2>3, <2>4 DEF Typed
<1>5. \A u \in Turn : u # t => (Running(u)' <=> Running(u))
    BY <1>2 DEF Running
<1>6. ASSUME NEW u \in Turn, Running(u) PROVE owner[u] # b
    BY Numbers, <1>6 DEF Core, ActiveInv, Busy
<1>7. \A c \in Bridge : active[c] # t
    BY <1>1 DEF Core, ActiveInv
<1>8. ActiveInv'
    <2>1. ASSUME NEW c \in Bridge, active'[c] # 0
          PROVE  owner'[active'[c]] = c /\ tpc'[active'[c]] \notin {"none", "heard"}
        <3>1. CASE c = b
            BY <1>2, <1>3, <3>1
        <3>2. CASE c # b
            <4>1. active'[c] = active[c] /\ active[c] \in Turn \ {t}
                BY <1>1, <1>2, <1>7, <2>1, <3>2 DEF Typed
            <4>2. owner[active[c]] = c /\ tpc[active[c]] \notin {"none", "heard"}
                BY <2>1, <4>1 DEF Core, ActiveInv
            <4> QED BY <1>2, <1>3, <4>1, <4>2
        <3> QED BY <3>1, <3>2
    <2>2. ASSUME NEW u \in Turn, Running(u)'
          PROVE  owner'[u] \in Bridge /\ active'[owner'[u]] = u
        <3>1. CASE u = t
            BY <1>2, <1>3, <3>1
        <3>2. CASE u # t
            <4>1. Running(u) /\ owner'[u] = owner[u] /\ owner[u] # b
                BY <1>3, <1>5, <1>6, <2>2, <3>2
            <4>2. owner[u] \in Bridge /\ active[owner[u]] = u
                BY <4>1 DEF Core, ActiveInv
            <4> QED BY <1>2, <4>1, <4>2
        <3> QED BY <3>1, <3>2
    <2> QED BY <2>1, <2>2 DEF ActiveInv
<1>9. HeardInv'
    <2>1. ASSUME NEW u \in Turn, tpc'[u] = "heard"
          PROVE  /\ u # t /\ tpc[u] = "heard" /\ owner'[u] = owner[u]
                 /\ owner[u] \in Bridge /\ pc'[owner[u]] = "turning"
        <3>1. u # t /\ tpc[u] = "heard" /\ owner'[u] = owner[u]
            BY <1>2, <1>3, <2>1
        <3>2. owner[u] \in Bridge /\ pc[owner[u]] = "turning"
            BY <3>1 DEF Core, HeardInv
        <3>3. owner[u] # b
            <4>1. CASE tpc[t] = "heard"
                BY <3>1, <4>1 DEF Core, HeardInv
            <4>2. CASE tpc[t] # "heard"
                BY <3>2, <4>2
            <4> QED BY <4>1, <4>2
        <3> QED BY <1>2, <3>1, <3>2, <3>3
    <2>2. \A u, v \in Turn :
              tpc'[u] = "heard" /\ tpc'[v] = "heard" /\ owner'[u] = owner'[v] => u = v
        BY <2>1 DEF Core, HeardInv
    <2> QED BY <2>1, <2>2 DEF HeardInv
<1>10. OverInv'
    <2>1. \A c \in Bridge : rec'[c] = "none" => pc'[c] = "none"
        BY <1>2 DEF Core, OverInv
    <2>2. ASSUME NEW c \in Bridge, pc'[c] \in {"none", "spawned", "over"} PROVE ~Busy(c)'
        <3>1. c # b /\ pc[c] \in {"none", "spawned", "over"} /\ active'[c] = active[c]
            BY <1>2, <2>2
        <3>2. ~Busy(c) /\ active[c] \in {0} \cup Turn
            BY <1>1, <3>1 DEF Core, OverInv, Typed
        <3> QED BY <1>5, <1>7, <3>1, <3>2 DEF Busy
    <2>3. ASSUME NEW c \in finished
          PROVE  pc'[c] = "over" /\ rec'[c] \in Terminal /\ c \notin tracked
        <3>1. c \in Bridge /\ c # b /\ pc[c] = "over"
            BY <1>1 DEF Core, OverInv, Typed
        <3> QED BY <1>2, <3>1 DEF Core, OverInv
    <2> QED BY <2>1, <2>2, <2>3 DEF OverInv
<1>11. ToldInv'
    <2>1. Told("spawned", ended[t], via[t])
        BY DEF Core, ToldInv, Told
    <2> QED BY <1>2, <2>1 DEF Core, ToldInv
<1> QED BY <1>4, <1>8, <1>9, <1>10, <1>11 DEF Core

(* A turn is heard while the one before runs. *)
LEMMA HearKeeps ==
    ASSUME Core, NEW b \in Bridge, pc[b] = "listening",
           NEW t \in Turn, tpc[t] = "none", tpc' = [tpc EXCEPT ![t] = "heard"],
           owner' = [owner EXCEPT ![t] = b], pc' = [pc EXCEPT ![b] = "turning"],
           rec' = [rec EXCEPT ![b] = "heard"],
           UNCHANGED <<tracked, finished, active, via, ended>>
    PROVE  Core'
<1>1. Typed
    BY DEF Core
<1>2. /\ \A u \in Turn : tpc'[u] = IF u = t THEN "heard" ELSE tpc[u]
      /\ \A u \in Turn : owner'[u] = IF u = t THEN b ELSE owner[u]
      /\ \A c \in Bridge : pc'[c] = IF c = b THEN "turning" ELSE pc[c]
      /\ \A c \in Bridge : rec'[c] = IF c = b THEN "heard" ELSE rec[c]
    BY <1>1 DEF Typed
<1>3. Typed'
    <2>1. "heard" \in TurnPhase /\ "turning" \in Phase /\ "heard" \in RecState
        BY DEF TurnPhase, Phase, RecState
    <2>2. tpc' \in [Turn -> TurnPhase] /\ owner' \in [Turn -> {0} \cup Bridge]
        BY <1>1, <2>1 DEF Typed
    <2>3. pc' \in [Bridge -> Phase] /\ rec' \in [Bridge -> RecState]
        BY <1>1, <2>1 DEF Typed
    <2> QED BY <1>1, <2>2, <2>3 DEF Typed
<1>4. \A u \in Turn : Running(u)' <=> Running(u)
    BY <1>2 DEF Running
<1>5. \A c \in Bridge : active[c] # t
    BY DEF Core, ActiveInv, Typed, Turn
<1>6. ActiveInv'
    <2>1. ASSUME NEW c \in Bridge, active[c] # 0
          PROVE  owner'[active[c]] = c /\ tpc'[active[c]] \notin {"none", "heard"}
        <3>1. active[c] \in Turn \ {t}
            BY <1>1, <1>5, <2>1 DEF Typed
        <3> QED BY <1>2, <2>1, <3>1 DEF Core, ActiveInv
    <2>2. ASSUME NEW u \in Turn, Running(u)
          PROVE  owner'[u] \in Bridge /\ active[owner'[u]] = u
        <3>1. u # t
            BY <2>2 DEF Running
        <3> QED BY <1>2, <2>2, <3>1 DEF Core, ActiveInv
    <2> QED BY <1>4, <2>1, <2>2 DEF ActiveInv
<1>7. HeardInv'
    <2>1. ASSUME NEW u \in Turn, u # t, tpc[u] = "heard"
          PROVE  owner[u] \in Bridge /\ pc[owner[u]] = "turning" /\ owner[u] # b
        BY <2>1 DEF Core, HeardInv
    <2>2. \A u \in Turn : tpc'[u] = "heard" => owner'[u] \in Bridge /\ pc'[owner'[u]] = "turning"
        BY <1>2, <2>1
    <2>3. \A u, v \in Turn :
              tpc'[u] = "heard" /\ tpc'[v] = "heard" /\ owner'[u] = owner'[v] => u = v
        BY <1>2, <2>1 DEF Core, HeardInv
    <2> QED BY <2>2, <2>3 DEF HeardInv
<1>8. OverInv'
    <2>1. \A c \in Bridge : rec'[c] = "none" => pc'[c] = "none"
        BY <1>2 DEF Core, OverInv
    <2>2. ASSUME NEW c \in Bridge, pc'[c] \in {"none", "spawned", "over"} PROVE ~Busy(c)'
        <3>1. ~Busy(c) /\ active[c] \in {0} \cup Turn
            BY <1>1, <1>2, <2>2 DEF Core, OverInv, Typed
        <3> QED BY <1>4, <3>1 DEF Busy
    <2>3. \A c \in finished : pc'[c] = "over" /\ rec'[c] \in Terminal /\ c \notin tracked
        BY <1>1, <1>2 DEF Core, OverInv, Typed
    <2> QED BY <2>1, <2>2, <2>3 DEF OverInv
<1>9. ToldInv'
    <2>1. Told("heard", ended[t], via[t])
        BY DEF Core, ToldInv, Told
    <2> QED BY <1>2, <2>1 DEF Core, ToldInv
<1> QED BY <1>3, <1>6, <1>7, <1>8, <1>9 DEF Core

(* The turn that was heard is lost with the connection. *)
LEMMA LoseKeeps ==
    ASSUME Core, NEW b \in Bridge, Passive(b),
           tpc' = [t \in Turn |-> IF owner[t] = b /\ tpc[t] = "heard" THEN "lost" ELSE tpc[t]],
           pc' = [pc EXCEPT ![b] = "hanging_up"],
           UNCHANGED <<rec, tracked, finished, active, owner, via, ended>>
    PROVE  Core'
<1>1. Typed /\ pc[b] \in {"turning", "barging"}
    BY DEF Core, Passive
<1>2. /\ \A u \in Turn : tpc'[u] = IF owner[u] = b /\ tpc[u] = "heard" THEN "lost" ELSE tpc[u]
      /\ \A c \in Bridge : pc'[c] = IF c = b THEN "hanging_up" ELSE pc[c]
    BY <1>1 DEF Typed
<1>3. Typed'
    <2>1. "lost" \in TurnPhase /\ "hanging_up" \in Phase
        BY DEF TurnPhase, TurnOver, Phase
    <2>2. \A u \in Turn : tpc[u] \in TurnPhase
        BY <1>1 DEF Typed
    <2>3. tpc' \in [Turn -> TurnPhase]
        BY <2>1, <2>2
    <2>4. pc' \in [Bridge -> Phase]
        BY <1>1, <2>1 DEF Typed
    <2> QED BY <1>1, <2>3, <2>4 DEF Typed
<1>4. \A u \in Turn : Running(u)' <=> Running(u)
    BY <1>2 DEF Running, TurnOver
<1>5. \A u \in Turn : tpc'[u] = "none" => tpc[u] = "none"
    BY <1>2
<1>6. \A u \in Turn : tpc'[u] = "heard" => tpc[u] = "heard" /\ owner[u] # b
    BY <1>2
<1>7. ActiveInv'
    <2>1. ASSUME NEW c \in Bridge, active[c] # 0
          PROVE  owner[active[c]] = c /\ tpc'[active[c]] \notin {"none", "heard"}
        <3>1. active[c] \in Turn
            BY <1>1, <2>1 DEF Typed
        <3> QED BY <1>5, <1>6, <2>1, <3>1 DEF Core, ActiveInv
    <2> QED BY <1>4, <2>1 DEF Core, ActiveInv
<1>8. HeardInv'
    BY <1>2, <1>6 DEF Core, HeardInv
<1>9. OverInv'
    <2>1. \A c \in Bridge : rec[c] = "none" => pc'[c] = "none"
        BY <1>1, <1>2 DEF Core, OverInv
    <2>2. ASSUME NEW c \in Bridge, pc'[c] \in {"none", "spawned", "over"} PROVE ~Busy(c)'
        <3>1. ~Busy(c) /\ active[c] \in {0} \cup Turn
            BY <1>1, <1>2, <2>2 DEF Core, OverInv, Typed
        <3> QED BY <1>4, <3>1 DEF Busy
    <2>3. \A c \in finished : pc'[c] = "over" /\ rec[c] \in Terminal /\ c \notin tracked
        BY <1>1, <1>2 DEF Core, OverInv, Typed
    <2> QED BY <2>1, <2>2, <2>3 DEF OverInv
<1>10. ToldInv'
    <2>1. ASSUME NEW u \in Turn PROVE Told(tpc'[u], ended[u], via[u])
        <3>1. Told("lost", ended[u], via[u]) /\ Told(tpc[u], ended[u], via[u])
            BY DEF Core, ToldInv, Told
        <3> QED BY <1>2, <3>1
    <2> QED BY <2>1 DEF ToldInv
<1> QED BY <1>3, <1>7, <1>8, <1>9, <1>10 DEF Core

-----------------------------------------------------------------------------
(* Steps of the manager and of the appliance.                              *)

(* run() and its turns stay where they are. *)
LEMMA RecordKeeps ==
    ASSUME Core, rec' \in [Bridge -> RecState],
           \A c \in Bridge : rec'[c] = "none" => rec[c] = "none",
           tracked' \subseteq Bridge, finished' \subseteq Bridge,
           \A c \in finished' : pc[c] = "over" /\ rec'[c] \in Terminal /\ c \notin tracked',
           UNCHANGED <<pc, active, owner, tpc, via, ended>>
    PROVE  Core'
<1>1. Typed'
    BY DEF Core, Typed
<1>2. ActiveInv' /\ HeardInv' /\ ToldInv'
    BY DEF Core, ActiveInv, HeardInv, ToldInv, Running
<1>3. OverInv'
    BY DEF Core, OverInv, Busy, Running
<1> QED BY <1>1, <1>2, <1>3 DEF Core

LEMMA StartStep ==
    ASSUME Base, NEW b \in Bridge, Start(b)
    PROVE  Base'
<1>1. /\ Core /\ Typed /\ Loose
      /\ rec[b] = "none" /\ rec' = [rec EXCEPT ![b] = "starting"]
      /\ pc' = [pc EXCEPT ![b] = "spawned"] /\ tracked' = tracked \cup {b}
      /\ UNCHANGED <<stopping, bcancel, result, finished, ws, active, owner, tpc, tcancel, via,
                     link, dialled, ended, events, stops, faults>>
    BY DEF Base, Core, Start, FirstFree, Mark, Goto, turns, counters
<1>2. /\ pc[b] = "none" /\ b \notin finished
    BY <1>1 DEF Core, OverInv, Terminal
<1>3. /\ \A c \in Bridge : rec'[c] = IF c = b THEN "starting" ELSE rec[c]
      /\ \A c \in Bridge : pc'[c] = IF c = b THEN "spawned" ELSE pc[c]
    BY <1>1 DEF Typed
<1>4. Typed'
    <2>1. "starting" \in RecState /\ "spawned" \in Phase
        BY DEF RecState, Phase
    <2> QED BY <1>1, <2>1 DEF Typed
<1>5. ActiveInv' /\ ToldInv'
    BY <1>1 DEF Core, ActiveInv, ToldInv, Running
<1>6. HeardInv'
    BY <1>1, <1>2, <1>3 DEF Core, HeardInv
<1>7. OverInv'
    <2>1. \A c \in Bridge : rec'[c] = "none" => pc'[c] = "none"
        BY <1>1, <1>3 DEF Core, OverInv
    <2>2. \A c \in Bridge : pc'[c] \in {"none", "spawned", "over"} => ~Busy(c)'
        BY <1>1, <1>3 DEF Core, OverInv, Busy, Running
    <2>3. \A c \in finished : pc'[c] = "over" /\ rec'[c] \in Terminal /\ c \notin tracked'
        BY <1>1, <1>2, <1>3 DEF Core, OverInv, Typed
    <2> QED BY <1>1, <2>1, <2>2, <2>3 DEF OverInv
<1>8. Core' /\ Loose'
    BY <1>1, <1>4, <1>5, <1>6, <1>7 DEF Core, Loose
<1> QED BY <1>8 DEF Base

LEMMA StopSteps ==
    ASSUME Base, NEW b \in Bridge, Stop(b) \/ StopAgain(b) \/ StopReturns(b) \/ Finish(b)
    PROVE  Base'
<1>1. /\ Core /\ Typed /\ Loose
      /\ \A c \in finished : pc[c] = "over" /\ rec[c] \in Terminal /\ c \notin tracked
      /\ finished \subseteq Bridge /\ tracked \subseteq Bridge /\ rec \in [Bridge -> RecState]
    BY DEF Base, Core, OverInv, Typed
<1>2. "stopped" \in Terminal /\ "error" \in Terminal /\ Terminal \subseteq RecState
      /\ "none" \notin Terminal
    BY DEF Terminal, RecState
<1>3. ASSUME Stop(b) PROVE Base'
    <2>1. /\ tracked' = tracked \ {b} /\ stopping' = stopping \cup {b}
          /\ \/ tcancel' = [tcancel EXCEPT ![active[b]] = TRUE] /\ UNCHANGED bcancel
             \/ bcancel' = [bcancel EXCEPT ![b] = TRUE] /\ UNCHANGED tcancel
          /\ stops' = stops + 1
          /\ UNCHANGED <<rec, pc, result, finished, ws, active, owner, tpc, via, link, dialled,
                         ended, events, faults>>
        BY <1>3 DEF Stop
    <2>2. Core'
        BY <1>1, <2>1, RecordKeeps
    <2>3. bcancel' \in [Bridge -> BOOLEAN] /\ tcancel' \in [Turn -> BOOLEAN]
        BY <1>1, <2>1 DEF Loose
    <2>4. Loose'
        BY <1>1, <2>1, <2>3 DEF Loose
    <2> QED BY <2>2, <2>4 DEF Base
<1>4. ASSUME StopAgain(b) PROVE Base'
    <2>1. /\ rec' = [rec EXCEPT ![b] = "stopped"]
          /\ UNCHANGED <<tracked, stopping, pc, bcancel, result, finished, ws, active, owner, tpc,
                         tcancel, via, link, dialled, ended, events, stops, faults>>
        BY <1>4 DEF StopAgain, Mark, session, turns, counters
    <2>2. /\ rec' \in [Bridge -> RecState]
          /\ \A c \in Bridge : rec'[c] = IF c = b THEN "stopped" ELSE rec[c]
        BY <1>1, <1>2, <2>1
    <2>3. \A c \in finished : rec'[c] \in Terminal
        BY <1>1, <1>2, <2>2
    <2>4. Core'
        BY <1>1, <1>2, <2>1, <2>2, <2>3, RecordKeeps
    <2>5. Loose'
        BY <1>1, <2>1 DEF Loose
    <2> QED BY <2>4, <2>5 DEF Base
<1>5. ASSUME StopReturns(b) PROVE Base'
    <2>1. /\ stopping' = stopping \ {b}
          /\ rec' = [rec EXCEPT ![b] = "stopped"] \/ rec' = rec
          /\ UNCHANGED <<tracked, pc, bcancel, result, finished, ws, active, owner, tpc,
                         tcancel, via, link, dialled, ended, events, stops, faults>>
        BY <1>5 DEF StopReturns, session, turns, counters
    <2>2. /\ rec' \in [Bridge -> RecState]
          /\ \A c \in Bridge : rec'[c] = rec[c] \/ rec'[c] = "stopped"
        BY <1>1, <1>2, <2>1
    <2>3. \A c \in finished : rec'[c] \in Terminal
        BY <1>1, <1>2, <2>2
    <2>4. Core'
        BY <1>1, <1>2, <2>1, <2>2, <2>3, RecordKeeps
    <2>5. Loose'
        BY <1>1, <2>1 DEF Loose
    <2> QED BY <2>4, <2>5 DEF Base
<1>6. ASSUME Finish(b) PROVE Base'
    <2> DEFINE m == IF rec[b] = "stopped" \/ result[b] = "cancelled" THEN "stopped" ELSE "error"
    <2>1. /\ pc[b] = "over" /\ finished' = finished \cup {b} /\ tracked' = tracked \ {b}
          /\ rec' = [rec EXCEPT ![b] = m]
          /\ UNCHANGED <<stopping, pc, bcancel, result, ws, active, owner, tpc,
                         tcancel, via, link, dialled, ended, events, stops, faults>>
        BY <1>6 DEF Finish, turns, counters
    <2>2. m \in Terminal
        BY <1>2
    <2> HIDE DEF m
    <2>3. /\ rec' \in [Bridge -> RecState]
          /\ \A c \in Bridge : rec'[c] = IF c = b THEN m ELSE rec[c]
        BY <1>1, <1>2, <2>1, <2>2
    <2>4. \A c \in finished' : pc[c] = "over" /\ rec'[c] \in Terminal /\ c \notin tracked'
        BY <1>1, <2>1, <2>2, <2>3
    <2>5. finished' \subseteq Bridge /\ tracked' \subseteq Bridge
        BY <1>1, <2>1
    <2>6. Core'
        BY <1>1, <1>2, <2>1, <2>2, <2>3, <2>4, <2>5, RecordKeeps
    <2>7. Loose'
        BY <1>1, <2>1 DEF Loose
    <2> QED BY <2>6, <2>7 DEF Base
<1> QED BY <1>3, <1>4, <1>5, <1>6

LEMMA AmbientSteps ==
    ASSUME Base, NEW b \in Bridge, ErrorEvent(b) \/ Dropped(b)
    PROVE  Base'
<1>1. /\ Core /\ Typed /\ Loose
      /\ \A c \in finished : pc[c] = "over" /\ rec[c] \in Terminal /\ c \notin tracked
      /\ finished \subseteq Bridge /\ tracked \subseteq Bridge /\ rec \in [Bridge -> RecState]
    BY DEF Base, Core, OverInv, Typed
<1>2. ASSUME ErrorEvent(b) PROVE Base'
    <2>1. /\ rec' = [rec EXCEPT ![b] = "error"] /\ events' = events + 1
          /\ UNCHANGED <<tracked, stopping, pc, bcancel, result, finished, ws, active, owner, tpc,
                         tcancel, via, link, dialled, ended, stops, faults>>
        BY <1>2 DEF ErrorEvent, Mark, session, turns
    <2>2. "error" \in Terminal /\ "error" \in RecState
        BY DEF Terminal, RecState
    <2>3. /\ rec' \in [Bridge -> RecState]
          /\ \A c \in Bridge : rec'[c] = IF c = b THEN "error" ELSE rec[c]
        BY <1>1, <2>1, <2>2
    <2>4. \A c \in finished : rec'[c] \in Terminal
        BY <1>1, <2>2, <2>3
    <2>5. Core'
        BY <1>1, <2>1, <2>3, <2>4, RecordKeeps
    <2>6. Loose'
        BY <1>1, <2>1 DEF Loose
    <2> QED BY <2>5, <2>6 DEF Base
<1>3. ASSUME Dropped(b) PROVE Base'
    <2>1. /\ link' = [link EXCEPT ![b] = 0] /\ faults' = faults + 1
          /\ UNCHANGED <<rec, tracked, stopping, pc, bcancel, result, finished, ws, active, owner,
                         tpc, tcancel, via, dialled, ended, events, stops>>
        BY <1>3 DEF Dropped, Failing, manager, session, turns
    <2>2. Core'
        BY <1>1, <2>1, RecordKeeps
    <2>3. Loose'
        BY <1>1, <2>1 DEF Loose
    <2> QED BY <2>2, <2>3 DEF Base
<1> QED BY <1>2, <1>3

-----------------------------------------------------------------------------
(* The connection loop.                                                    *)

LEMMA LoopSteps ==
    ASSUME Base, NEW b \in Bridge,
           \/ Begins(b) \/ Retries(b) \/ Connected(b) \/ Welcomed(b) \/ NotWelcomed(b)
           \/ StreamEnds(b) \/ HungUp(b) \/ AbortDone(b) \/ ConnectFails(b)
    PROVE  Base'
<1>1. Core /\ Typed /\ Loose
    BY DEF Base, Core
<1>2. /\ UNCHANGED <<tracked, stopping, finished, result, bcancel, active, owner, tpc, tcancel,
                     via, ended, events, stops>>
      /\ faults' = faults \/ faults' = faults + 1
    BY DEF Begins, Retries, Connecting, Connected, Welcomed, NotWelcomed, StreamEnds, HungUp,
           AbortDone, ConnectFails, Failing, manager, session, turns, counters
<1>f. faults' \in Nat
    BY <1>1, <1>2 DEF Loose
<1>3. pc[b] \in {"spawned", "backoff", "connecting", "hello", "listening", "hanging_up",
                 "chat_abort"}
    BY DEF Begins, Retries, Connecting, Connected, Welcomed, NotWelcomed, StreamEnds, HungUp,
           AbortDone, ConnectFails, At
<1>4. \E w \in {"connecting", "hello", "listening", "hanging_up", "backoff"} :
          pc' = [pc EXCEPT ![b] = w]
    BY DEF Begins, Retries, Connecting, Connected, Welcomed, NotWelcomed, StreamEnds, HungUp,
           AbortDone, ConnectFails, LeavesConnection, Goto
<1>5. \/ rec' = rec
      \/ \E m \in {"connecting", "reconnecting", "waiting_audio"} : rec' = [rec EXCEPT ![b] = m]
    BY DEF Begins, Retries, Connecting, Connected, Welcomed, NotWelcomed, StreamEnds, HungUp,
           AbortDone, ConnectFails, Mark, manager
<1>6. Core'
    <2>1. PICK w \in {"connecting", "hello", "listening", "hanging_up", "backoff"} :
              pc' = [pc EXCEPT ![b] = w]
        BY <1>4
    <2>2. w \in Phase \ {"none", "turning"} /\ w \notin {"spawned", "over"}
        BY <2>1 DEF Phase
    <2>3. \/ rec' = rec
          \/ \E m \in RecState \ {"none"} : rec' = [rec EXCEPT ![b] = m]
        BY <1>5 DEF RecState
    <2> QED BY <1>1, <1>2, <1>3, <2>1, <2>2, <2>3, SessionMoves
<1>7. /\ ws' \in [Bridge -> Nat] /\ link' \in [Bridge -> Nat] /\ dialled' \in [Bridge -> Nat]
    <2>1. CASE Connected(b)
        <3>1. dialled[b] + 1 \in Nat
            BY <1>1 DEF Loose
        <3>2. dialled' \in [Bridge -> Nat] /\ dialled'[b] \in Nat
            BY <1>1, <2>1, <3>1 DEF Connected, Loose
        <3> QED BY <1>1, <2>1, <3>2 DEF Connected, Loose
    <2>2. CASE NotWelcomed(b) \/ StreamEnds(b)
        BY <1>1, <2>2 DEF NotWelcomed, StreamEnds, LeavesConnection, Loose
    <2>3. CASE \/ Begins(b) \/ Retries(b) \/ Welcomed(b) \/ HungUp(b) \/ AbortDone(b)
               \/ ConnectFails(b)
        BY <1>1, <2>3 DEF Begins, Retries, Connecting, Welcomed, HungUp, AbortDone, ConnectFails,
                          Loose
    <2> QED BY <2>1, <2>2, <2>3
<1>8. Loose'
    BY <1>1, <1>2, <1>f, <1>7 DEF Loose
<1> QED BY <1>6, <1>8 DEF Base

LEMMA LeaveSteps ==
    ASSUME Base, StopInv, NEW b \in Bridge, Cancelled(b) \/ Leaves(b) \/ Ends(b)
    PROVE  Base'
<1>1. Core /\ Typed /\ Loose
    BY DEF Base, Core
<1>2. ASSUME Cancelled(b) PROVE Base'
    <2>1. /\ bcancel[b] /\ pc[b] \notin {"turning", "barging"}
          /\ bcancel' = [bcancel EXCEPT ![b] = FALSE]
          /\ UNCHANGED <<rec, tracked, stopping, finished, active, owner, tpc, tcancel, via,
                         dialled, ended, events, stops, faults>>
        BY <1>2 DEF Cancelled, Passive, manager, turns, counters
    <2>2. pc[b] \notin {"none", "leaving", "final", "over"}
        BY <2>1 DEF StopInv
    <2>3. CASE pc[b] = "spawned"
        <3>1. /\ pc' = [pc EXCEPT ![b] = "over"] /\ result' = [result EXCEPT ![b] = "cancelled"]
              /\ UNCHANGED <<ws, link>>
            BY <1>2, <2>3 DEF Cancelled, Goto
        <3>2. ~Busy(b) /\ "over" \in Phase
            BY <2>3 DEF Base, Core, OverInv, Phase
        <3>3. Core'
            BY <1>1, <2>1, <2>2, <3>1, <3>2, SessionMoves
        <3>4. Loose'
            BY <1>1, <2>1, <3>1 DEF Loose
        <3> QED BY <3>3, <3>4 DEF Base
    <2>4. CASE pc[b] # "spawned"
        <3>1. /\ pc' = [pc EXCEPT ![b] = "leaving"] /\ result' = result
              /\ link' = [link EXCEPT ![b] = 0] \/ link' = link
              /\ ws' = [ws EXCEPT ![b] = 0] \/ ws' = ws
            BY <1>2, <2>4 DEF Cancelled, Goto
        <3>2. "leaving" \in Phase
            BY DEF Phase
        <3>3. Core'
            BY <1>1, <2>1, <2>2, <3>1, <3>2, SessionMoves
        <3>4. Loose'
            BY <1>1, <2>1, <3>1 DEF Loose
        <3> QED BY <3>3, <3>4 DEF Base
    <2> QED BY <2>3, <2>4
<1>3. ASSUME Leaves(b) PROVE Base'
    <2>1. /\ pc[b] = "leaving"
          /\ UNCHANGED <<rec, tracked, stopping, bcancel, finished, active, owner, tpc, via, link,
                         dialled, ended, events, stops, faults>>
        BY <1>3 DEF Leaves, manager, counters
    <2>2. /\ tcancel' \in [Turn -> BOOLEAN] /\ ws' \in [Bridge -> Nat]
          /\ result' \in [Bridge -> {"none", "cancelled", "failed"}]
        <3>1. /\ tcancel' = [tcancel EXCEPT ![active[b]] = TRUE] \/ tcancel' = tcancel
              /\ ws' = [ws EXCEPT ![b] = 0] \/ ws' = ws
              /\ result' = [result EXCEPT ![b] = "cancelled"] \/ result' = result
            BY <1>3 DEF Leaves
        <3>2. tcancel' \in [Turn -> BOOLEAN]
            BY <1>1, <3>1 DEF Loose
        <3> QED BY <1>1, <3>1, <3>2 DEF Loose
    <2>3. \/ pc' = [pc EXCEPT ![b] = "final"]
          \/ pc' = [pc EXCEPT ![b] = "over"] /\ ~Busy(b)
        BY <1>3 DEF Leaves, Goto
    <2>4. "final" \in Phase /\ "over" \in Phase
        BY DEF Phase
    <2>5. CASE pc' = [pc EXCEPT ![b] = "final"]
        <3>1. Core'
            BY <1>1, <2>1, <2>4, <2>5, SessionMoves
        <3> QED BY <1>1, <2>1, <2>2, <3>1 DEF Base, Loose
    <2>6. CASE pc' = [pc EXCEPT ![b] = "over"] /\ ~Busy(b)
        <3>1. Core'
            BY <1>1, <2>1, <2>4, <2>6, SessionMoves
        <3> QED BY <1>1, <2>1, <2>2, <3>1 DEF Base, Loose
    <2> QED BY <2>3, <2>5, <2>6
<1>4. ASSUME Ends(b) PROVE Base'
    <2>1. /\ pc[b] = "final" /\ ~Busy(b) /\ pc' = [pc EXCEPT ![b] = "over"]
          /\ UNCHANGED <<rec, tracked, stopping, bcancel, finished, active, owner, tpc, tcancel,
                         via, link, dialled, ended, events, stops, faults>>
        BY <1>4 DEF Ends, Goto, manager, turns, counters
    <2>2. /\ ws' \in [Bridge -> Nat]
          /\ result' \in [Bridge -> {"none", "cancelled", "failed"}]
        BY <1>1, <1>4 DEF Ends, Loose
    <2>3. Core'
        <3>1. "over" \in Phase
            BY DEF Phase
        <3> QED BY <1>1, <2>1, <3>1, SessionMoves
    <2> QED BY <1>1, <2>1, <2>2, <2>3 DEF Base, Loose
<1> QED BY <1>2, <1>3, <1>4

(* _start_turn, _barge_in and _cancel_active. *)
LEMMA ListenSteps ==
    ASSUME Base, NEW b \in Bridge, \/ \E t \in Turn : UserTurn(b, t)
                                   \/ BargeIn(b) \/ TurnGone(b) \/ TurnGoneBadly(b)
    PROVE  Base'
<1>1. Core /\ Typed /\ Loose
    BY DEF Base, Core
<1>2. ASSUME NEW t \in Turn, UserTurn(b, t) PROVE Base'
    <2>1. /\ pc[b] = "listening" /\ tpc[t] = "none" /\ owner' = [owner EXCEPT ![t] = b]
          /\ rec' = [rec EXCEPT ![b] = "heard"]
          /\ UNCHANGED <<tracked, stopping, bcancel, result, finished, ws, via, link, dialled,
                         ended, events, stops, faults>>
        BY <1>2 DEF UserTurn, At, FirstFree, Mark, counters
    <2>2. /\ rec' \in [Bridge -> RecState]
          /\ \A c \in Bridge : rec'[c] = rec[c] \/ (c = b /\ rec'[c] # "none")
        <3>1. "heard" \in RecState
            BY DEF RecState
        <3> QED BY <1>1, <2>1, <3>1 DEF Typed
    <2>3. CASE Busy(b)
        <3>1. /\ tcancel' = [tcancel EXCEPT ![active[b]] = TRUE]
              /\ tpc' = [tpc EXCEPT ![t] = "heard"] /\ pc' = [pc EXCEPT ![b] = "turning"]
              /\ UNCHANGED active
            BY <1>2, <2>3 DEF UserTurn, Goto
        <3>2. Core'
            BY <1>1, <2>1, <3>1, HearKeeps
        <3>3. Loose'
            BY <1>1, <2>1, <3>1 DEF Loose
        <3> QED BY <3>2, <3>3 DEF Base
    <2>4. CASE ~Busy(b)
        <3>1. Spawns(b, t) /\ UNCHANGED <<pc, tcancel>>
            BY <1>2, <2>4 DEF UserTurn
        <3>2. pc' = [pc EXCEPT ![b] = "listening"]
            BY <1>1, <2>1, <3>1 DEF Typed
        <3>3. Core'
            BY <1>1, <2>1, <2>2, <2>4, <3>1, <3>2, SpawnKeeps
        <3>4. Loose'
            BY <1>1, <2>1, <3>1 DEF Loose
        <3> QED BY <3>3, <3>4 DEF Base
    <2> QED BY <2>3, <2>4
<1>3. ASSUME BargeIn(b) PROVE Base'
    <2>1. /\ pc[b] = "listening" /\ events' = events + 1
          /\ tcancel' = [tcancel EXCEPT ![active[b]] = TRUE] \/ tcancel' = tcancel
          /\ \E w \in {"barging", "chat_abort"} : pc' = [pc EXCEPT ![b] = w]
          /\ UNCHANGED <<rec, tracked, stopping, bcancel, result, finished, ws, active, owner, tpc,
                         via, link, dialled, ended, stops, faults>>
        BY <1>3 DEF BargeIn, At, Goto, manager
    <2>2. PICK w \in {"barging", "chat_abort"} : pc' = [pc EXCEPT ![b] = w]
        BY <2>1
    <2>3. w \in Phase \ {"none", "turning"} /\ w \notin {"spawned", "over"}
        BY DEF Phase
    <2>4. Core'
        BY <1>1, <2>1, <2>2, <2>3, SessionMoves
    <2>5. tcancel' \in [Turn -> BOOLEAN]
        BY <1>1, <2>1 DEF Loose
    <2>6. Loose'
        BY <1>1, <2>1, <2>5 DEF Loose
    <2> QED BY <2>4, <2>6 DEF Base
<1>4. ASSUME TurnGone(b) PROVE Base'
    <2>1. /\ pc[b] \in {"turning", "barging"} /\ ~Busy(b)
          /\ bcancel' = [bcancel EXCEPT ![b] = FALSE]
          /\ UNCHANGED <<rec, tracked, stopping, result, finished, ws, owner, tcancel, via, link,
                         dialled, ended, events, stops, faults>>
        BY <1>4 DEF TurnGone, Passive, manager, counters
    <2>2. Loose'
        BY <1>1, <2>1 DEF Loose
    <2>3. ASSUME pc[b] = "turning", NEW t \in Turn, owner[t] = b, tpc[t] = "heard", Spawns(b, t),
                 pc' = [pc EXCEPT ![b] = "listening"]
          PROVE  Core'
        <3>1. /\ rec' \in [Bridge -> RecState]
              /\ \A c \in Bridge : rec'[c] = rec[c] \/ (c = b /\ rec'[c] # "none")
            BY <1>1, <2>1 DEF Typed
        <3> QED BY <1>1, <2>1, <2>3, <3>1, SpawnKeeps
    <2>4. ASSUME pc[b] = "barging", pc' = [pc EXCEPT ![b] = "chat_abort"],
                 UNCHANGED <<tpc, active>>
          PROVE  Core'
        <3>1. "chat_abort" \in Phase
            BY DEF Phase
        <3> QED BY <1>1, <2>1, <2>4, <3>1, SessionMoves
    <2>5. Core'
        BY <1>4, <2>3, <2>4 DEF TurnGone, Goto
    <2> QED BY <2>2, <2>5 DEF Base
<1>5. ASSUME TurnGoneBadly(b) PROVE Base'
    <2>1. /\ Passive(b)
          /\ tpc' = [t \in Turn |-> IF owner[t] = b /\ tpc[t] = "heard" THEN "lost" ELSE tpc[t]]
          /\ pc' = [pc EXCEPT ![b] = "hanging_up"]
          /\ link' = [link EXCEPT ![b] = 0] /\ ws' = [ws EXCEPT ![b] = 0]
          /\ UNCHANGED <<rec, tracked, stopping, bcancel, result, finished, active, owner, tcancel,
                         via, dialled, ended, events, stops, faults>>
        BY <1>5 DEF TurnGoneBadly, LeavesConnection, Goto, manager, counters
    <2>2. Core'
        BY <1>1, <2>1, LoseKeeps
    <2>3. Loose'
        BY <1>1, <2>1 DEF Loose
    <2> QED BY <2>2, <2>3 DEF Base
<1> QED BY <1>2, <1>3, <1>4, <1>5

-----------------------------------------------------------------------------
(* One stop, one cancellation.                                             *)

LEMMA StopNext ==
    ASSUME VoiceInv, [Next]_vars
    PROVE  StopInv'
<1>1. /\ Typed /\ bcancel \in [Bridge -> BOOLEAN] /\ StopInv
      /\ \A c \in Bridge : rec[c] = "none" => pc[c] = "none"
    BY DEF VoiceInv, Base, Core, Loose, OverInv
<1>2. ASSUME NEW b \in Bridge, Start(b) PROVE StopInv'
    <2>1. /\ tracked' = tracked \cup {b} /\ bcancel' = bcancel
          /\ \A c \in Bridge : pc'[c] = IF c = b THEN "spawned" ELSE pc[c]
          /\ pc[b] = "none"
        BY <1>1, <1>2 DEF Start, FirstFree, Goto, Typed
    <2> QED BY <1>1, <2>1 DEF StopInv
<1>3. ASSUME NEW b \in Bridge, Stop(b) PROVE StopInv'
    <2>1. /\ b \in tracked /\ tracked' = tracked \ {b} /\ pc' = pc
          /\ \A c \in Bridge : bcancel'[c] = bcancel[c] \/ c = b
        BY <1>1, <1>3 DEF Stop
    <2> QED BY <1>1, <2>1 DEF StopInv
<1>4. ASSUME NEW b \in Bridge, StopAgain(b) \/ StopReturns(b) \/ Finish(b) \/ ErrorEvent(b)
                               \/ Dropped(b)
      PROVE  StopInv'
    <2>1. tracked' \subseteq tracked /\ UNCHANGED <<pc, bcancel>>
        BY <1>4 DEF StopAgain, StopReturns, Finish, ErrorEvent, Dropped, manager, session
    <2> QED BY <1>1, <2>1 DEF StopInv
<1>5. ASSUME NEW b \in Bridge,
             \/ Begins(b) \/ Retries(b) \/ Connected(b) \/ Welcomed(b) \/ NotWelcomed(b)
             \/ StreamEnds(b) \/ HungUp(b) \/ AbortDone(b) \/ ConnectFails(b) \/ BargeIn(b)
             \/ TurnGone(b) \/ TurnGoneBadly(b)
             \/ \E t \in Turn : UserTurn(b, t)
      PROVE  StopInv'
    <2>1. /\ tracked' = tracked
          /\ bcancel' = bcancel \/ bcancel' = [bcancel EXCEPT ![b] = FALSE]
        BY <1>5 DEF Begins, Retries, Connecting, Connected, Welcomed, NotWelcomed, StreamEnds,
                    HungUp, AbortDone, ConnectFails, BargeIn, TurnGone, TurnGoneBadly, UserTurn,
                    manager
    <2>2. \/ pc' = pc
          \/ \E w \in {"connecting", "hello", "listening", "hanging_up", "backoff", "turning",
                       "barging", "chat_abort"} : pc' = [pc EXCEPT ![b] = w]
        BY <1>5 DEF Begins, Retries, Connecting, Connected, Welcomed, NotWelcomed, StreamEnds,
                    HungUp, AbortDone, ConnectFails, BargeIn, TurnGone, TurnGoneBadly, UserTurn,
                    LeavesConnection, Goto
    <2>3. \A c \in Bridge : bcancel'[c] => bcancel[c]
        BY <1>1, <2>1
    <2>4. \A c \in Bridge : pc'[c] = pc[c] \/ pc'[c] \notin {"none", "leaving", "final", "over"}
        BY <1>1, <2>2 DEF Typed
    <2> QED BY <1>1, <2>1, <2>3, <2>4 DEF StopInv
<1>6. ASSUME NEW b \in Bridge, Cancelled(b) \/ Leaves(b) \/ Ends(b) PROVE StopInv'
    <2>1. /\ tracked' = tracked
          /\ b \notin tracked /\ bcancel'[b] = FALSE
          /\ \A c \in Bridge : c # b => pc'[c] = pc[c] /\ bcancel'[c] = bcancel[c]
        <3>1. CASE Cancelled(b)
            <4>1. /\ bcancel[b] /\ bcancel' = [bcancel EXCEPT ![b] = FALSE] /\ tracked' = tracked
                  /\ \E w \in {"over", "leaving"} : pc' = [pc EXCEPT ![b] = w]
                BY <3>1 DEF Cancelled, Goto, manager
            <4>2. b \notin tracked
                BY <1>1, <4>1 DEF StopInv
            <4> QED BY <1>1, <4>1, <4>2 DEF Typed
        <3>2. CASE Leaves(b) \/ Ends(b)
            <4>1. /\ pc[b] \in {"leaving", "final"} /\ bcancel' = bcancel /\ tracked' = tracked
                  /\ \E w \in {"over", "final"} : pc' = [pc EXCEPT ![b] = w]
                BY <3>2 DEF Leaves, Ends, Goto, manager
            <4>2. b \notin tracked /\ ~bcancel[b]
                BY <1>1, <4>1 DEF StopInv
            <4> QED BY <1>1, <4>1, <4>2 DEF Typed
        <3> QED BY <1>6, <3>1, <3>2
    <2> QED BY <1>1, <2>1 DEF StopInv
<1>7. ASSUME NEW t \in Turn, TurnStep(t) PROVE StopInv'
    <2>1. UNCHANGED <<tracked, pc, bcancel>>
        BY <1>7 DEF TurnStep, TurnBegins, RunAccepted, TurnFails, Replied, SendDone, SendFails,
                    TurnCancelled, session, manager
    <2> QED BY <1>1, <2>1 DEF StopInv
<1>8. CASE UNCHANGED vars
    <2>1. UNCHANGED <<tracked, pc, bcancel>>
        BY <1>8 DEF vars, manager, session
    <2> QED BY <1>1, <2>1 DEF StopInv
<1> QED BY <1>2, <1>3, <1>4, <1>5, <1>6, <1>7, <1>8 DEF Next, SessionStep, Greets

-----------------------------------------------------------------------------
(* The invariant.                                                          *)

LEMMA VoiceInit == Init => VoiceInv
<1> SUFFICES ASSUME Init PROVE VoiceInv
    OBVIOUS
<1>1. Typed
    <2>1. "none" \in RecState /\ "none" \in Phase /\ "none" \in TurnPhase
        BY DEF RecState, Phase, TurnPhase
    <2> QED BY <2>1 DEF Init, Typed
<1>2. \A t \in Turn : tpc[t] = "none" /\ ended[t] = 0
    BY DEF Init
<1>3. \A b \in Bridge : active[b] = 0 /\ pc[b] = "none"
    BY DEF Init
<1>4. ActiveInv /\ HeardInv
    BY <1>2, <1>3 DEF ActiveInv, HeardInv, Running
<1>5. OverInv
    BY <1>3 DEF Init, OverInv, Busy
<1>6. ToldInv
    BY <1>2 DEF ToldInv, Told
<1>7. Loose
    BY DEF Init, Loose
<1>8. StopInv
    BY DEF Init, StopInv
<1> QED BY <1>1, <1>4, <1>5, <1>6, <1>7, <1>8 DEF VoiceInv, Base, Core

LEMMA VoiceNext == VoiceInv /\ [Next]_vars => VoiceInv'
<1> SUFFICES ASSUME VoiceInv, [Next]_vars PROVE VoiceInv'
    OBVIOUS
<1>1. Base /\ StopInv
    BY DEF VoiceInv
<1>2. ASSUME NEW b \in Bridge, SessionStep(b) \/ Greets(b) PROVE Base'
    BY <1>1, <1>2, LoopSteps, LeaveSteps, ListenSteps, StopSteps DEF SessionStep, Greets
<1>3. ASSUME NEW b \in Bridge, \/ Start(b) \/ Stop(b) \/ StopAgain(b) \/ StopReturns(b)
                               \/ ConnectFails(b) \/ BargeIn(b) \/ ErrorEvent(b) \/ Dropped(b)
      PROVE  Base'
    BY <1>1, <1>3, StartStep, StopSteps, LoopSteps, ListenSteps, AmbientSteps
<1>4. ASSUME NEW b \in Bridge, NEW t \in Turn, UserTurn(b, t) PROVE Base'
    BY <1>1, <1>4, ListenSteps
<1>5. ASSUME NEW t \in Turn, TurnStep(t) PROVE Base'
    BY <1>1, <1>5, TurnSteps
<1>6. ASSUME UNCHANGED vars PROVE Base'
    <2>1. UNCHANGED <<rec, tracked, stopping, pc, bcancel, result, finished, ws, active, owner,
                      tpc, tcancel, via, link, dialled, ended, events, stops, faults>>
        BY <1>6 DEF vars, manager, session, turns, counters
    <2>2. Typed' /\ Loose'
        BY <1>1, <2>1 DEF Base, Core, Typed, Loose
    <2>3. ActiveInv' /\ HeardInv' /\ ToldInv'
        BY <1>1, <2>1 DEF Base, Core, ActiveInv, HeardInv, ToldInv, Running
    <2>4. OverInv'
        BY <1>1, <2>1 DEF Base, Core, OverInv, Busy, Running
    <2>5. Core'
        BY <2>2, <2>3, <2>4 DEF Core
    <2> QED BY <2>2, <2>5 DEF Base
<1>7. Base'
    BY <1>2, <1>3, <1>4, <1>5, <1>6 DEF Next
<1> QED BY <1>7, StopNext DEF VoiceInv

(* VoiceBridge.Inv: a session whose task is over and reaped is not tracked, *)
(* its record has an end state, and no turn of it runs on, however stop,    *)
(* barge-ins, new turns and lost connections cancel each other's tasks.     *)
THEOREM BridgeCorrect == Spec => []Inv
<1>1. VoiceInv => Inv
    <2> SUFFICES ASSUME VoiceInv PROVE Inv
        OBVIOUS
    <2>1. Typed /\ Loose /\ ActiveInv /\ OverInv
        BY DEF VoiceInv, Base, Core
    <2>2. TypeOK
        BY <2>1 DEF TypeOK, Typed, Loose, RecState, Phase, TurnPhase
    <2>3. OverIsQuiet
        <3>1. SUFFICES ASSUME NEW b \in finished
                       PROVE  /\ rec[b] \in Terminal /\ b \notin tracked
                              /\ \A t \in Turn : owner[t] = b => ~Running(t)
            BY DEF OverIsQuiet
        <3>2. /\ b \in Bridge /\ pc[b] = "over" /\ rec[b] \in Terminal /\ b \notin tracked
              /\ ~Busy(b)
            BY <2>1 DEF Typed, OverInv
        <3>3. ASSUME NEW t \in Turn, owner[t] = b PROVE ~Running(t)
            BY <2>1, <3>2, <3>3, Numbers DEF ActiveInv, Busy
        <3> QED BY <3>2, <3>3
    <2> QED BY <2>2, <2>3 DEF Inv
<1> QED BY <1>1, VoiceInit, VoiceNext, PTL DEF Spec

-----------------------------------------------------------------------------
(* One voice at a time.                                                    *)

Speaking(t) == tpc'[t] \in Stage /\ tpc'[t] # tpc[t]

LEMMA SpokenOn ==
    ASSUME Base, NEW t \in Turn, NEW stage, Speaks(t, stage), tpc'[t] \in Stage
    PROVE  via'[t] = ws[owner[t]] /\ ws[owner[t]] # 0 /\ ws[owner[t]] = link[owner[t]]
<1>1. tpc \in [Turn -> TurnPhase] /\ via \in [Turn -> Nat]
    BY DEF Base, Core, Typed
<1>2. "done" \notin Stage /\ "failed" \notin Stage
    BY DEF Stage
<1>3. tpc' # [tpc EXCEPT ![t] = "done"] /\ tpc' # [tpc EXCEPT ![t] = "failed"]
    BY <1>1, <1>2
<1> QED BY <1>1, <1>3 DEF Speaks

(* A turn that speaks anew has not told its end on this connection. *)
LEMMA SpeaksAnew ==
    ASSUME Base, NEW t \in Turn, TurnStep(t), Speaking(t)
    PROVE  Running(t) /\ ended[t] # via'[t]
<1>1. /\ tpc \in [Turn -> TurnPhase] /\ Told(tpc[t], ended[t], via[t]) /\ tpc[t] \in TurnPhase
    BY DEF Base, Core, ToldInv, Typed
<1>2. tpc'[t] \in Stage /\ tpc'[t] # tpc[t]
    BY DEF Speaking
<1>3. CASE TurnBegins(t) \/ RunAccepted(t)
    <2>1. tpc'[t] \in {"asking", "waiting"}
        BY <1>1, <1>3 DEF TurnBegins, RunAccepted
    <2> QED BY <1>2, <2>1 DEF Stage
<1>4. CASE TurnFails(t) \/ Replied(t)
    <2>1. tpc[t] \in {"asking", "waiting"} /\ \E stage \in Stage : Speaks(t, stage)
        BY <1>4 DEF TurnFails, Replied, TurnAt, Stage
    <2>2. Running(t) /\ ended[t] = 0
        BY <1>1, <2>1, Runs DEF Works, TurnOver, Told
    <2> QED BY <1>2, <2>1, <2>2, SpokenOn
<1>5. CASE SendDone(t)
    <2>1. tpc[t] \in Stage /\ via[t] = link[owner[t]]
        BY <1>5 DEF SendDone
    <2>2. Running(t)
        BY <2>1, Runs DEF Works, TurnOver, Stage
    <2>3. /\ tpc[t] \in {"saying", "apologising"}
          /\ \E stage \in Stage : Speaks(t, stage)
        <3>1. tpc' # [tpc EXCEPT ![t] = "done"]
            BY <1>1, <1>2 DEF Stage
        <3> QED BY <1>5, <3>1 DEF SendDone, Stage
    <2>4. /\ via'[t] = ws[owner[t]] /\ ws[owner[t]] # 0 /\ ws[owner[t]] = link[owner[t]]
        BY <1>2, <2>3, SpokenOn
    <2> QED BY <1>1, <2>1, <2>2, <2>3, <2>4 DEF Told
<1>6. CASE SendFails(t)
    <2>1. tpc[t] \in Stage /\ via[t] # link[owner[t]]
        BY <1>6 DEF SendFails
    <2>2. Running(t)
        BY <2>1, Runs DEF Works, TurnOver, Stage
    <2>3. /\ tpc[t] \notin {"apologising", "closing"}
          /\ Speaks(t, "apologising")
        <3>1. tpc' # [tpc EXCEPT ![t] = "failed"]
            BY <1>1, <1>2 DEF Stage
        <3> QED BY <1>6, <3>1 DEF SendFails
    <2>4. /\ via'[t] = ws[owner[t]] /\ ws[owner[t]] # 0 /\ ws[owner[t]] = link[owner[t]]
        BY <1>2, <2>3, SpokenOn
    <2> QED BY <1>1, <2>1, <2>2, <2>3, <2>4 DEF Told, Stage
<1>7. CASE TurnCancelled(t)
    <2>1. Running(t)
        BY <1>7 DEF TurnCancelled
    <2>2. tpc[t] = "waiting" /\ Speaks(t, "aborting")
        <3>1. tpc' # [tpc EXCEPT ![t] = "cancelled"]
            BY <1>1, <1>2 DEF Stage
        <3> QED BY <1>7, <3>1 DEF TurnCancelled
    <2>3. /\ via'[t] = ws[owner[t]] /\ ws[owner[t]] # 0
        BY <1>2, <2>2, SpokenOn
    <2> QED BY <1>1, <2>1, <2>2, <2>3 DEF Told
<1> QED BY <1>3, <1>4, <1>5, <1>6, <1>7 DEF TurnStep

(* Other turns than the one that takes a step say nothing. *)
LEMMA OnlySpeaker ==
    ASSUME Base, [Next]_vars, NEW t \in Turn, Speaking(t)
    PROVE  TurnStep(t)
<1>1. tpc \in [Turn -> TurnPhase]
    BY DEF Base, Core, Typed
<1>2. tpc'[t] \in Stage /\ tpc'[t] # tpc[t] /\ tpc' # tpc
    BY DEF Speaking
<1>3. ASSUME NEW u \in Turn, TurnStep(u) PROVE u = t
    <2>1. \E s \in TurnPhase : tpc' = [tpc EXCEPT ![u] = s]
        <3>1. \A stage \in Stage :
                  Speaks(u, stage) => \E s \in TurnPhase : tpc' = [tpc EXCEPT ![u] = s]
            BY DEF Speaks, TurnPhase, Stage, TurnOver
        <3> QED BY <1>3, <3>1 DEF TurnStep, TurnBegins, RunAccepted, TurnFails, Replied,
                        SendDone, SendFails, TurnCancelled, TurnPhase, Stage, TurnOver
    <2> QED BY <1>1, <1>2, <2>1
<1>4. ASSUME NEW b \in Bridge,
             \/ Start(b) \/ Stop(b) \/ StopAgain(b) \/ StopReturns(b)
             \/ ConnectFails(b) \/ BargeIn(b) \/ ErrorEvent(b) \/ Dropped(b)
             \/ Begins(b) \/ Retries(b) \/ Connected(b) \/ Welcomed(b) \/ NotWelcomed(b)
             \/ StreamEnds(b) \/ HungUp(b) \/ AbortDone(b)
             \/ Cancelled(b) \/ Leaves(b) \/ Ends(b) \/ Finish(b)
      PROVE  FALSE
    <2>1. tpc' = tpc
        BY <1>4 DEF Start, Stop, StopAgain, StopReturns, ConnectFails, BargeIn, ErrorEvent,
                    Dropped, Begins, Retries, Connecting, Connected, Welcomed, NotWelcomed,
                    StreamEnds, HungUp, AbortDone, Cancelled, Leaves, Ends, Finish, turns
    <2> QED BY <1>2, <2>1
<1>5. ASSUME NEW b \in Bridge,
             \/ TurnGone(b) \/ TurnGoneBadly(b) \/ \E u \in Turn : UserTurn(b, u)
      PROVE  FALSE
    <2>1. tpc'[t] = tpc[t] \/ tpc'[t] \in {"heard", "spawned", "lost"}
        BY <1>1, <1>5 DEF TurnGone, TurnGoneBadly, UserTurn, Spawns
    <2> QED BY <1>2, <2>1 DEF Stage
<1>6. CASE UNCHANGED vars
    BY <1>2, <1>6 DEF vars, turns
<1> QED BY <1>3, <1>4, <1>5, <1>6 DEF Next, SessionStep, Greets

(* VoiceBridge.OneVoice: what is said or ended is the session's newest     *)
(* turn, no earlier turn of it is at work, and its end was not told on     *)
(* this connection.                                                        *)
THEOREM OneVoiceCorrect == Spec => OneVoice
<1>1. ASSUME VoiceInv, [Next]_vars, NEW t \in Turn, Speaking(t)
      PROVE  /\ active[owner[t]] = t
             /\ ended[t] # via'[t]
             /\ \A u \in Turn \ {t} : owner[u] = owner[t] => ~Running(u)
    <2>1. Base /\ ActiveInv
        BY <1>1 DEF VoiceInv, Base, Core
    <2>2. Running(t) /\ ended[t] # via'[t]
        BY <1>1, <2>1, OnlySpeaker, SpeaksAnew
    <2> QED BY <2>1, <2>2 DEF ActiveInv
<1>2. VoiceInv /\ [Next]_vars =>
          [\A t \in Turn : tpc'[t] \in Stage /\ tpc'[t] # tpc[t] =>
            /\ active[owner[t]] = t
            /\ ended[t] # via'[t]
            /\ \A u \in Turn \ {t} : owner[u] = owner[t] => ~Running(u)]_vars
    BY <1>1 DEF Speaking
<1> QED BY <1>2, VoiceInit, VoiceNext, PTL DEF Spec, OneVoice

=============================================================================
