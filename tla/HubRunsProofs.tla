---------------------------- MODULE HubRunsProofs ---------------------------
(***************************************************************************)
(* Proofs about HubRuns, for any number of clients and runs, and any       *)
(* bounds.                                                                 *)
(***************************************************************************)
EXTENDS HubRuns, FiniteSetTheorems, WellFoundedInduction, TLAPS

-----------------------------------------------------------------------------
(* Sequences.                                                              *)

(* A set of numbers has a least one. *)
LEMMA LeastNumber ==
    ASSUME NEW T, T \subseteq Nat, T # {}
    PROVE  \E x \in T : \A y \in T : x <= y
<1> DEFINE R == OpToRel(<, Nat)
<1>1. IsWellFoundedOn(R, Nat)
    BY NatLessThanWellFounded
<1>2. \A x, y \in Nat : x < y => <<x, y>> \in R
    BY DEF OpToRel
<1> HIDE DEF R
<1>3. PICK x \in T : \A y \in T : ~ (<<y, x>> \in R)
    BY <1>1, WFMin
<1>4. \A y \in T : x \in Nat /\ y \in Nat /\ ~ (y < x)
    BY <1>2, <1>3
<1>5. \A y \in T : x <= y
    BY <1>4
<1> QED BY <1>5

LEMMA LeastIndex ==
    ASSUME NEW n \in Nat, NEW I, I \subseteq 1 .. n, I # {}
    PROVE  Min(I) \in I
<1>1. I \subseteq Nat
    OBVIOUS
<1>2. \E x \in I : \A y \in I : x <= y
    BY <1>1, LeastNumber
<1> QED BY <1>2 DEF Min

LEMMA Concatenated ==
    ASSUME NEW S, NEW a \in Seq(S), NEW b \in Seq(S)
    PROVE  /\ a \o b \in Seq(S)
           /\ Len(a \o b) = Len(a) + Len(b)
           /\ \A i \in 1 .. Len(a) + Len(b) :
                (a \o b)[i] = IF i <= Len(a) THEN a[i] ELSE b[i - Len(a)]
OBVIOUS

(* A sequence without its k-th element. *)
LEMMA RemovedAt ==
    ASSUME NEW S, NEW s \in Seq(S), NEW k \in 1 .. Len(s)
    PROVE  /\ RemoveAt(s, k) \in Seq(S)
           /\ Len(RemoveAt(s, k)) = Len(s) - 1
           /\ \A i \in 1 .. Len(s) - 1 :
                RemoveAt(s, k)[i] = IF i < k THEN s[i] ELSE s[i + 1]
<1> DEFINE a == SubSeq(s, 1, k - 1)
           b == SubSeq(s, k + 1, Len(s))
<1>1. a \in Seq(S) /\ Len(a) = k - 1 /\ \A i \in 1 .. k - 1 : a[i] = s[i]
    OBVIOUS
<1>2. b \in Seq(S) /\ Len(b) = Len(s) - k /\ \A i \in 1 .. Len(s) - k : b[i] = s[k + i]
    OBVIOUS
<1>3. RemoveAt(s, k) = a \o b
    BY DEF RemoveAt
<1> HIDE DEF a, b
<1>4. Len(s) \in Nat /\ k \in Nat /\ 1 <= k /\ k <= Len(s)
    OBVIOUS
<1>5. a \o b \in Seq(S)
    BY <1>1, <1>2
<1>6. /\ Len(a \o b) = Len(a) + Len(b)
      /\ \A i \in 1 .. Len(a) + Len(b) :
            (a \o b)[i] = IF i <= Len(a) THEN a[i] ELSE b[i - Len(a)]
    BY <1>1, <1>2, Concatenated
<1>7. Len(a \o b) = Len(s) - 1
    BY <1>1, <1>2, <1>4, <1>6
<1>8. ASSUME NEW i \in 1 .. Len(s) - 1, i < k PROVE (a \o b)[i] = s[i]
    BY <1>1, <1>2, <1>4, <1>6, <1>8
<1>9. ASSUME NEW i \in 1 .. Len(s) - 1, ~(i < k) PROVE (a \o b)[i] = s[i + 1]
    <2>1. (a \o b)[i] = b[i - Len(a)]
        BY <1>1, <1>2, <1>4, <1>6, <1>9
    <2>2. i - Len(a) \in 1 .. Len(s) - k /\ k + (i - Len(a)) = i + 1
        BY <1>1, <1>4, <1>9
    <2> QED BY <1>2, <2>1, <2>2
<1> QED BY <1>3, <1>5, <1>7, <1>8, <1>9

(* The sequence v is w without its k-th element. *)
Within(v, w, k) ==
    \E g \in [1 .. Len(v) -> 1 .. Len(w)] :
        /\ \A i \in 1 .. Len(v) : g[i] # k /\ v[i] = w[g[i]]
        /\ \A i, j \in 1 .. Len(v) : i < j => g[i] < g[j]
        /\ \A j \in 1 .. Len(w) : j = k \/ \E i \in 1 .. Len(v) : g[i] = j

LEMMA WithinSame ==
    ASSUME NEW S, NEW w \in Seq(S)
    PROVE  Within(w, w, 0)
<1> DEFINE g == [i \in 1 .. Len(w) |-> i]
<1>1. g \in [1 .. Len(w) -> 1 .. Len(w)]
    OBVIOUS
<1>2. \A i \in 1 .. Len(w) : g[i] # 0 /\ w[i] = w[g[i]]
    OBVIOUS
<1>3. \A i, j \in 1 .. Len(w) : i < j => g[i] < g[j]
    OBVIOUS
<1>4. \A j \in 1 .. Len(w) : \E i \in 1 .. Len(w) : g[i] = j
    OBVIOUS
<1> HIDE DEF g
<1> QED BY <1>1, <1>2, <1>3, <1>4 DEF Within

LEMMA WithinTail ==
    ASSUME NEW S, NEW w \in Seq(S), w # <<>>
    PROVE  Within(Tail(w), w, 1)
<1> DEFINE v == Tail(w)
           g == [i \in 1 .. Len(v) |-> i + 1]
<1>1. Len(v) = Len(w) - 1 /\ Len(w) \in Nat \ {0} /\ \A i \in 1 .. Len(w) - 1 : v[i] = w[i + 1]
    OBVIOUS
<1> HIDE DEF v
<1>2. g \in [1 .. Len(v) -> 1 .. Len(w)]
    BY <1>1
<1>3. \A i \in 1 .. Len(v) : g[i] # 1 /\ v[i] = w[g[i]]
    BY <1>1
<1>4. \A i, j \in 1 .. Len(v) : i < j => g[i] < g[j]
    BY <1>1
<1>5. ASSUME NEW j \in 1 .. Len(w), j # 1 PROVE \E i \in 1 .. Len(v) : g[i] = j
    <2>1. j - 1 \in 1 .. Len(v) /\ (j - 1) + 1 = j
        BY <1>1, <1>5
    <2> QED BY <2>1
<1> HIDE DEF g
<1> QED BY <1>2, <1>3, <1>4, <1>5 DEF Within, v

LEMMA WithinRemoved ==
    ASSUME NEW S, NEW w \in Seq(S), NEW k \in 1 .. Len(w)
    PROVE  Within(RemoveAt(w, k), w, k)
<1> DEFINE v == RemoveAt(w, k)
           g == [i \in 1 .. Len(v) |-> IF i < k THEN i ELSE i + 1]
<1> HIDE DEF g
<1>0. /\ Len(v) = Len(w) - 1
      /\ \A i \in 1 .. Len(w) - 1 : v[i] = IF i < k THEN w[i] ELSE w[i + 1]
    BY RemovedAt
<1> HIDE DEF v
<1>1. /\ Len(v) = Len(w) - 1 /\ Len(w) \in Nat /\ k \in Nat
      /\ \A i \in 1 .. Len(w) - 1 : v[i] = IF i < k THEN w[i] ELSE w[i + 1]
    BY <1>0
<1> USE DEF g
<1>2. g \in [1 .. Len(v) -> 1 .. Len(w)]
    BY <1>1
<1>3. \A i \in 1 .. Len(v) : g[i] # k /\ v[i] = w[g[i]]
    BY <1>1
<1>4. \A i, j \in 1 .. Len(v) : i < j => g[i] < g[j]
    BY <1>1
<1>5. ASSUME NEW j \in 1 .. Len(w), j # k PROVE \E i \in 1 .. Len(v) : g[i] = j
    <2>1. CASE j < k
        <3>1. j \in 1 .. Len(v)
            BY <1>1, <2>1
        <3> QED BY <2>1, <3>1
    <2>2. CASE ~ (j < k)
        <3>1. j - 1 \in 1 .. Len(v) /\ ~ (j - 1 < k) /\ (j - 1) + 1 = j
            BY <1>1, <1>5, <2>2
        <3> QED BY <3>1
    <2> QED BY <2>1, <2>2
<1> HIDE DEF g
<1> QED BY <1>2, <1>3, <1>4, <1>5 DEF Within, v

(* The frames without an answer nobody waits for. *)
LEMMA UnheededFrames ==
    ASSUME wire \in Seq(Frames), NEW a
    PROVE  \/ Unheeded(a) = wire /\ ~Contains(wire, Response(a))
           \/ \E k \in 1 .. Len(wire) :
                wire[k] = Response(a) /\ Unheeded(a) = RemoveAt(wire, k)
<1> DEFINE I == {i \in 1 .. Len(wire) : wire[i] = Response(a)}
<1>1. CASE I = {}
    BY <1>1 DEF Unheeded, RemoveFirst, Contains
<1>2. CASE I # {}
    <2>1. Min(I) \in I
        <3>1. Len(wire) \in Nat /\ I \subseteq 1 .. Len(wire)
            OBVIOUS
        <3> HIDE DEF I
        <3> QED BY <1>2, <3>1, LeastIndex
    <2>2. Unheeded(a) = RemoveAt(wire, Min(I))
        BY <1>2 DEF Unheeded, RemoveFirst, SelectInSeq
    <2> QED BY <2>1, <2>2
<1> QED BY <1>1, <1>2

(* The frames without the answer to a history request. *)
Unfetched(t) == RemoveFirstMatch(wire, LAMBDA f : f.type = "history" /\ f.task = t)

LEMMA UnfetchedFrames ==
    ASSUME wire \in Seq(Frames), NEW t
    PROVE  \/ /\ Unfetched(t) = wire
              /\ \A i \in 1 .. Len(wire) : ~ (wire[i].type = "history" /\ wire[i].task = t)
           \/ \E k \in 1 .. Len(wire) :
                /\ wire[k].type = "history" /\ wire[k].task = t
                /\ Unfetched(t) = RemoveAt(wire, k)
<1> DEFINE I == {i \in 1 .. Len(wire) : wire[i].type = "history" /\ wire[i].task = t}
<1>1. CASE I = {}
    BY <1>1 DEF Unfetched, RemoveFirstMatch
<1>2. CASE I # {}
    <2>1. Min(I) \in I
        <3>1. Len(wire) \in Nat /\ I \subseteq 1 .. Len(wire)
            OBVIOUS
        <3> HIDE DEF I
        <3> QED BY <1>2, <3>1, LeastIndex
    <2>2. Unfetched(t) = RemoveAt(wire, Min(I))
        BY <1>2 DEF Unfetched, RemoveFirstMatch, SelectInSeq
    <2> QED BY <2>1, <2>2
<1> QED BY <1>1, <1>2

-----------------------------------------------------------------------------
(* The steps.                                                              *)

LEMMA NextCases ==
    ASSUME [Next]_vars
    PROVE  \/ GatewayStep \/ UserStep \/ Reader \/ Resumed \/ TaskStarts \/ TurnEnds \/ TurnTimesOut
           \/ (\E r \in Run : Reap(r)) \/ Failure \/ UNCHANGED vars
BY DEF Next

(* The gateway changes nothing in the hub. *)
LEMMA GatewayKeeps ==
    ASSUME GatewayStep
    PROVE  UNCHANGED <<hub, log, heard, forgotten, stops, cancels>>
BY DEF GatewayStep, OtherRun, AnswerSend, Answers, AnswerAbort, AnswerReset, Starts, Streams,
       RunEnds, Final, Aborted, Errs, Replays, AnswerHistory, history

(* A browser or the user changes who waits for what. *)
LEMMA UserKeeps ==
    ASSUME UserStep
    PROVE  UNCHANGED <<emitted, latest, asked, active, last, tasks, fetching, log, heard,
                       forgotten>>
BY DEF UserStep, Message, VoiceTurn, Sends, Accepts, Abort, Reset, Leaves, Returns, SpeaksAgain,
       BargeIn, CancelActive, gateway, history

(* The reader takes the head of the wire. *)
LEMMA ReaderKeeps ==
    ASSUME Reader
    PROVE  /\ wire # <<>> /\ wire' = Tail(wire)
           /\ UNCHANGED <<gateway, asked, conn, pc, sent, waiter, last, fetching, log, forgotten,
                          stops, cancels, faults>>
BY DEF Reader, Resolves, RunStarted, Delta, Terminal, Reads, history

(* Whoever resumes takes an answer. *)
LEMMA ResumedKeeps ==
    ASSUME Resumed
    PROVE  /\ UNCHANGED <<gateway, wire, asked, conn, tasks, missed, stops, cancels, faults>>
           /\ answers' \subseteq answers
BY DEF Resumed, MessageSent, AbortDone, ResetDone, VoiceSent, Fetched, Resumes, DropRuns, history

(* What a terminal task leaves alone. *)
LEMMA TaskKeeps ==
    ASSUME TaskStarts
    PROVE  UNCHANGED <<gateway, wire, answers, conn, pc, sent, forgotten, missed,
                       stops, cancels, faults>>
BY DEF TaskStarts

(* A failure takes nothing from the hub but what its handlers wait for. *)
LEMMA FailureKeeps ==
    ASSUME Failure
    PROVE  UNCHANGED <<kind, key, emitted, conn, active, tasks, forgotten, stops, cancels>>
BY DEF Failure, RequestFails, FetchFails, SocketLost, gateway

-----------------------------------------------------------------------------
(* The types, but for those of the frames.                                 *)

Phases == {"free", "live", "streaming", "stopping", "over"}

TypeRuns ==
    /\ phase \in [Run -> Phases]
    /\ kind \in [Run -> {"chat", "voice", "other"}] /\ key \in [Run -> Key]
    /\ emitted \in [Run -> 0..MaxDeltas] /\ latest \in [Key -> Run \cup {None}]
TypeFrames ==
    /\ wire \in Seq(Frames) /\ answers \subseteq Replies
    /\ asked \subseteq fetching /\ fetching \subseteq Tasks
TypeHandlers ==
    /\ pc \in [Actor -> Asking \cup {"idle", "waiting"}] /\ sent \in [Actor -> Run \cup {None}]
    /\ \A a \in Actor : sent[a] # None <=> pc[a] \in {"sending", "waiting"}
TypeActive ==
    /\ active \in [Run -> Entries \cup {None}]
    /\ \A r \in Run : active[r] # None /\ active[r].pane => active[r].client = VoiceClient
TypeReplies ==
    /\ waiter \in [Run -> {"none", "pending", "done"}]
    /\ last \in [Key -> Texts \cup {None}]
    /\ tasks \in Seq(Events) /\ heard \subseteq Client \X Run
TypeRest ==
    /\ conn \in [Client -> BOOLEAN] /\ forgotten \subseteq Run /\ missed \subseteq Run
    /\ stops \in 0..MaxStops /\ cancels \in 0..MaxCancels /\ faults \in 0..MaxFaults

LEMMA TypeParts ==
    TypeOK <=> /\ TypeRuns /\ TypeFrames /\ TypeHandlers /\ TypeActive /\ TypeReplies /\ TypeRest
BY DEF TypeOK, TypeRuns, TypeFrames, TypeHandlers, TypeActive, TypeReplies, TypeRest, Phases

(* None is none of the things it stands for the lack of. *)
LEMMA Apart ==
    /\ None \notin Run \cup Client
    /\ VoiceClient \in Client /\ Voice \notin Client /\ VoiceKey \in {"main", "voice"}
    /\ VoiceKey \in Key /\ "main" \in Key /\ Voice \in Actor /\ Client \subseteq Actor
    /\ MaxDeltas \in Nat /\ MaxStops \in Nat /\ MaxCancels \in Nat /\ MaxFaults \in Nat
BY HubAssumption DEF Key, Actor

LEMMA StopTyped ==
    ASSUME NEW ph \in [Run -> Phases], NEW k
    PROVE  Stopped(ph, k) \in [Run -> Phases]
BY DEF Stopped, Phases

LEMMA RunsStep ==
    ASSUME TypeOK, [Next]_vars
    PROVE  TypeRuns'
<1>1. TypeRuns /\ TypeHandlers /\ TypeFrames
    BY TypeParts
<1>2. CASE GatewayStep
    <2>1. ASSUME NEW r \in Run, NEW k \in {"main", "cron"}, OtherRun(r, k) PROVE TypeRuns'
        BY <1>1, <2>1 DEF OtherRun, Accepts, TypeRuns, Phases, Key
    <2>2. ASSUME NEW a \in Actor, AnswerSend(a) PROVE TypeRuns'
        BY <1>1, <2>2 DEF AnswerSend, TypeRuns, gateway
    <2>3. ASSUME NEW c \in Client, AnswerAbort(c) PROVE TypeRuns'
        BY <1>1, <2>3, StopTyped DEF AnswerAbort, TypeRuns
    <2>4. ASSUME NEW c \in Client, AnswerReset(c) PROVE TypeRuns'
        BY <1>1, <2>4 DEF AnswerReset, TypeRuns
    <2>5. ASSUME NEW r \in Run, Starts(r) PROVE TypeRuns'
        BY <1>1, <2>5 DEF Starts, TypeRuns, Phases
    <2>6. ASSUME NEW r \in Run, Streams(r) PROVE TypeRuns'
        <3>1. emitted[r] + 1 \in 0..MaxDeltas
            BY <1>1, <2>6, Apart DEF Streams, TypeRuns
        <3> QED BY <1>1, <2>6, <3>1 DEF Streams, TypeRuns
    <2>7. ASSUME NEW r \in Run, NEW replied \in BOOLEAN, NEW inline \in BOOLEAN,
                 Final(r, replied, inline)
          PROVE  TypeRuns'
        <3>1. phase' \in [Run -> Phases] /\ UNCHANGED <<kind, key, emitted>>
            BY <1>1, <2>7 DEF Final, TypeRuns, Phases
        <3>2. latest' \in [Key -> Run \cup {None}]
            BY <1>1, <2>7 DEF Final, TypeRuns
        <3> QED BY <1>1, <3>1, <3>2 DEF TypeRuns
    <2>8. ASSUME NEW r \in Run, NEW inline \in BOOLEAN, Aborted(r, inline) PROVE TypeRuns'
        BY <1>1, <2>8 DEF Aborted, TypeRuns, Phases
    <2>9. ASSUME NEW r \in Run, NEW inline \in BOOLEAN, Errs(r, inline) PROVE TypeRuns'
        BY <1>1, <2>9 DEF Errs, TypeRuns, Phases
    <2>10. ASSUME NEW r \in Run, NEW inline \in BOOLEAN, Replays(r, inline) PROVE TypeRuns'
        BY <1>1, <2>10 DEF Replays, TypeRuns, gateway
    <2>11. ASSUME NEW t \in asked, AnswerHistory(t) PROVE TypeRuns'
        BY <1>1, <2>11 DEF AnswerHistory, TypeRuns, gateway
    <2> QED BY <1>2, <2>1, <2>2, <2>3, <2>4, <2>5, <2>6, <2>7, <2>8, <2>9, <2>10, <2>11
            DEF GatewayStep, RunEnds
<1>3. CASE UserStep
    <2>1. ASSUME NEW a \in Actor, NEW r \in Run, NEW kd \in {"chat", "voice"}, NEW k \in Key,
                 Sends(a, r, kd, k)
          PROVE  TypeRuns'
        BY <1>1, <2>1 DEF Sends, Accepts, TypeRuns, Phases
    <2>2. ASSUME NEW c \in Client, NEW r \in Run, Message(c, r) PROVE TypeRuns'
        BY <2>1, <2>2, Apart DEF Message
    <2>3. ASSUME NEW r \in Run, VoiceTurn(r) PROVE TypeRuns'
        BY <2>1, <2>3, Apart DEF VoiceTurn
    <2>4. CASE SpeaksAgain \/ BargeIn
        BY <1>1, <2>4, StopTyped DEF SpeaksAgain, BargeIn, CancelActive, TypeRuns
    <2>5. ASSUME NEW c \in Client, Abort(c) \/ Reset(c) \/ Leaves(c) \/ Returns(c) PROVE TypeRuns'
        BY <1>1, <2>5 DEF Abort, Reset, Leaves, Returns, TypeRuns, gateway
    <2> QED BY <1>3, <2>2, <2>3, <2>4, <2>5 DEF UserStep
<1>4. CASE Reader \/ Resumed
    BY <1>1, <1>4, ReaderKeeps, ResumedKeeps DEF TypeRuns, gateway
<1>5. CASE Failure
    <2>1. ASSUME NEW a \in Actor, NEW landed \in BOOLEAN, RequestFails(a, landed) PROVE TypeRuns'
        <3>1. phase' \in [Run -> Phases]
            <4>1. phase' \in {phase, Stopped(phase, "main"),
                               [phase EXCEPT ![sent[a]] = IF @ = "live" THEN "over" ELSE @]}
                BY <2>1 DEF RequestFails
            <4>2. [phase EXCEPT ![sent[a]] = IF @ = "live" THEN "over" ELSE @] \in [Run -> Phases]
                BY <1>1 DEF TypeRuns, Phases
            <4> QED BY <1>1, <4>1, <4>2, StopTyped DEF TypeRuns
        <3>2. latest' \in [Key -> Run \cup {None}]
            BY <1>1, <2>1 DEF RequestFails, TypeRuns
        <3> QED BY <1>1, <2>1, <3>1, <3>2 DEF RequestFails, TypeRuns
    <2>2. ASSUME NEW t \in fetching, FetchFails(t) PROVE TypeRuns'
        BY <1>1, <2>2 DEF FetchFails, TypeRuns, gateway
    <2>3. ASSUME NEW n \in 0..Len(wire), SocketLost(n) PROVE TypeRuns'
        BY <1>1, <2>3 DEF SocketLost, TypeRuns, gateway
    <2> QED BY <1>5, <2>1, <2>2, <2>3 DEF Failure
<1>6. CASE TaskStarts \/ TurnEnds \/ TurnTimesOut \/ (\E r \in Run : Reap(r)) \/ UNCHANGED vars
    BY <1>1, <1>6, TaskKeeps DEF TurnEnds, TurnTimesOut, Reap, TypeRuns, gateway, vars
<1> QED BY <1>2, <1>3, <1>4, <1>5, <1>6, NextCases

-----------------------------------------------------------------------------
(* Runs the gateway knows: they keep their session and their kind.         *)

Known(r) == phase[r] # "free"

KnownStays ==
    \A r \in Run : Known(r) => phase'[r] # "free" /\ key'[r] = key[r] /\ kind'[r] = kind[r]

LEMMA StopKnown ==
    ASSUME NEW ph \in [Run -> Phases], NEW k, NEW r \in Run, ph[r] # "free"
    PROVE  Stopped(ph, k)[r] # "free"
BY DEF Stopped

LEMMA RunsStay ==
    ASSUME TypeOK, [Next]_vars
    PROVE  KnownStays
<1> SUFFICES ASSUME NEW r \in Run, Known(r)
             PROVE  phase'[r] # "free" /\ key'[r] = key[r] /\ kind'[r] = kind[r]
    BY DEF KnownStays
<1>1. TypeRuns
    BY TypeParts
<1>2. ASSUME NEW r2 \in Run, NEW kd, NEW k, Accepts(r2, kd, k)
      PROVE  phase'[r] # "free" /\ key'[r] = key[r] /\ kind'[r] = kind[r]
    BY <1>1, <1>2 DEF Accepts, Known, TypeRuns
<1>3. CASE GatewayStep
    <2>1. ASSUME NEW r2 \in Run, NEW k \in {"main", "cron"}, OtherRun(r2, k)
          PROVE  phase'[r] # "free" /\ key'[r] = key[r] /\ kind'[r] = kind[r]
        BY <1>2, <2>1 DEF OtherRun
    <2>2. CASE \E a \in Actor : AnswerSend(a)
        BY <2>2 DEF AnswerSend, gateway, Known
    <2>3. CASE \E c \in Client : AnswerAbort(c) \/ AnswerReset(c)
        BY <1>1, <2>3, StopKnown DEF AnswerAbort, AnswerReset, Known, TypeRuns
    <2>4. CASE \E r2 \in Run : Starts(r2) \/ Streams(r2) \/ RunEnds(r2)
        BY <1>1, <2>4 DEF Starts, Streams, RunEnds, Final, Aborted, Errs, Known, TypeRuns
    <2>5. CASE \/ \E r2 \in Run, inline \in BOOLEAN : Replays(r2, inline)
               \/ \E t \in asked : AnswerHistory(t)
        BY <2>5 DEF Replays, AnswerHistory, gateway, Known
    <2> QED BY <1>3, <2>1, <2>2, <2>3, <2>4, <2>5 DEF GatewayStep
<1>4. CASE UserStep
    <2>1. CASE \E c \in Client, r2 \in Run : Message(c, r2) \/ VoiceTurn(r2)
        BY <1>2, <2>1 DEF Message, VoiceTurn, Sends
    <2>2. CASE SpeaksAgain \/ BargeIn
        BY <1>1, <2>2, StopKnown DEF SpeaksAgain, BargeIn, CancelActive, TypeRuns, Known
    <2>3. CASE \E c \in Client : Abort(c) \/ Reset(c) \/ Leaves(c) \/ Returns(c)
        BY <2>3 DEF Abort, Reset, Leaves, Returns, gateway, Known
    <2> QED BY <1>4, <2>1, <2>2, <2>3, Apart DEF UserStep
<1>5. CASE Failure
    <2>1. ASSUME NEW a \in Actor, NEW landed \in BOOLEAN, RequestFails(a, landed)
          PROVE  phase'[r] # "free"
        BY <1>1, <2>1, StopKnown DEF RequestFails, TypeRuns, Known
    <2>2. ASSUME NEW t \in fetching, FetchFails(t) PROVE phase'[r] # "free"
        BY <2>2 DEF FetchFails, gateway, Known
    <2>3. ASSUME NEW n \in 0..Len(wire), SocketLost(n) PROVE phase'[r] # "free"
        BY <2>3 DEF SocketLost, gateway, Known
    <2> QED BY <1>5, <2>1, <2>2, <2>3, FailureKeeps DEF Failure
<1>6. CASE Reader \/ Resumed \/ TaskStarts \/ TurnEnds \/ TurnTimesOut
           \/ (\E r2 \in Run : Reap(r2)) \/ UNCHANGED vars
    BY <1>6, ReaderKeeps, ResumedKeeps, TaskKeeps
    DEF TurnEnds, TurnTimesOut, Reap, gateway, vars, Known
<1> QED BY <1>3, <1>4, <1>5, <1>6, NextCases

-----------------------------------------------------------------------------
(* The deltas of a run that are still on the wire, counted from each frame *)
(* to the end.                                                             *)

Delta1(f, r) == IF f.type = "event" /\ f.run = r /\ f.state = "delta" THEN 1 ELSE 0

Counts(n, w, r) ==
    /\ n[Len(w) + 1] = 0
    /\ \A i \in 1 .. Len(w) : n[i] = n[i + 1] + Delta1(w[i], r)
    /\ \A i, j \in 1 .. Len(w) + 1 : i <= j => n[j] <= n[i]

(* Where the count changes there is a delta. *)
Jumps(n, w, r) ==
    \A i, j \in 1 .. Len(w) + 1 :
        i <= j /\ n[i] # n[j] => \E l \in i .. j - 1 : Delta1(w[l], r) = 1

Deltas(w, r, d) == \E n \in [1 .. Len(w) + 1 -> Nat] : Counts(n, w, r) /\ Jumps(n, w, r) /\ n[1] = d

LEMMA NoDeltas ==
    ASSUME NEW r
    PROVE  Deltas(<<>>, r, 0)
<1> DEFINE n == [i \in 1 .. 1 |-> 0]
<1>1. n \in [1 .. Len(<<>>) + 1 -> Nat] /\ Counts(n, <<>>, r) /\ Jumps(n, <<>>, r)
      /\ n[1] = 0
    BY DEF Counts, Jumps
<1> QED BY <1>1 DEF Deltas

LEMMA DeltaNumber == ASSUME NEW f, NEW r PROVE Delta1(f, r) \in {0, 1}
BY DEF Delta1

LEMMA DeltaAppended ==
    ASSUME NEW S, NEW w \in Seq(S), NEW f \in S, NEW r, NEW d \in Nat, Deltas(w, r, d)
    PROVE  Deltas(Append(w, f), r, d + Delta1(f, r))
<1> DEFINE x == Delta1(f, r)
           v == Append(w, f)
<1>1. PICK n \in [1 .. Len(w) + 1 -> Nat] : Counts(n, w, r) /\ Jumps(n, w, r) /\ n[1] = d
    BY DEF Deltas
<1>2. x \in Nat /\ Len(w) \in Nat
    BY DeltaNumber
<1>3. Len(v) = Len(w) + 1 /\ v[Len(w) + 1] = f /\ \A i \in 1 .. Len(w) : v[i] = w[i]
    OBVIOUS
<1>x. Delta1(f, r) = x
    OBVIOUS
<1> HIDE DEF x, v
<1> DEFINE m == [i \in 1 .. Len(w) + 2 |-> IF i <= Len(w) + 1 THEN n[i] + x ELSE 0]
<1>m. \A i \in 1 .. Len(w) + 2 : m[i] = IF i <= Len(w) + 1 THEN n[i] + x ELSE 0
    OBVIOUS
<1>4. m \in [1 .. Len(v) + 1 -> Nat] /\ m[1] = d + x /\ m[Len(v) + 1] = 0
    BY <1>1, <1>2, <1>3
<1> HIDE DEF m
<1>5. ASSUME NEW i \in 1 .. Len(v) PROVE m[i] = m[i + 1] + Delta1(v[i], r)
    <2>1. CASE i = Len(w) + 1
        BY <1>m, <1>1, <1>2, <1>3, <1>x, <2>1 DEF Counts
    <2>2. CASE i \in 1 .. Len(w)
        <3>1. n[i] = n[i + 1] + Delta1(w[i], r) /\ Delta1(w[i], r) \in Nat
            BY <1>1, <2>2, DeltaNumber DEF Counts
        <3>2. n[i] \in Nat /\ n[i + 1] \in Nat
            BY <1>1, <1>2, <2>2
        <3>3. v[i] = w[i] /\ m[i] = n[i] + x /\ m[i + 1] = n[i + 1] + x
            <4>1. i \in 1 .. Len(w) + 2 /\ i <= Len(w) + 1
                BY <1>2, <2>2
            <4>2. i + 1 \in 1 .. Len(w) + 2 /\ i + 1 <= Len(w) + 1
                BY <1>2, <2>2
            <4>3. m[i] = n[i] + x
                BY <1>m, <4>1
            <4>4. m[i + 1] = n[i + 1] + x
                BY <1>m, <4>2
            <4> QED BY <1>3, <2>2, <4>3, <4>4
        <3> QED BY <1>2, <3>1, <3>2, <3>3
    <2> QED BY <1>2, <1>3, <2>1, <2>2
<1>6. ASSUME NEW i \in 1 .. Len(v) + 1, NEW j \in 1 .. Len(v) + 1, i <= j PROVE m[j] <= m[i]
    <2>1. CASE j = Len(w) + 2
        <3>1. m[j] = 0 /\ m[i] \in Nat
            BY <1>m, <1>3, <1>4, <2>1
        <3> QED BY <3>1
    <2>2. CASE j # Len(w) + 2
        <3>0. Len(v) = Len(w) + 1 /\ Len(w) \in Nat
            BY <1>2, <1>3
        <3>1. i \in 1 .. Len(w) + 1 /\ j \in 1 .. Len(w) + 1
            BY <1>6, <2>2, <3>0
        <3>2. n[j] <= n[i] /\ n[i] \in Nat /\ n[j] \in Nat
            BY <1>1, <1>6, <3>1 DEF Counts
        <3>3. m[i] = n[i] + x /\ m[j] = n[j] + x
            BY <1>m, <1>2, <3>1
        <3> QED BY <1>2, <3>2, <3>3
    <2> QED BY <2>1, <2>2
<1>y. ASSUME NEW i \in 1 .. Len(v) + 1, NEW j \in 1 .. Len(v) + 1, i <= j, m[i] # m[j]
      PROVE  \E l \in i .. j - 1 : Delta1(v[l], r) = 1
    <2>1. i \in 1 .. Len(w) + 1 /\ i \in Nat /\ j \in Nat
        BY <1>2, <1>3, <1>y
    <2>2. CASE j \in 1 .. Len(w) + 1
        <3>1. n[i] # n[j]
            BY <1>m, <1>y, <2>1, <2>2
        <3>2. PICK l \in i .. j - 1 : Delta1(w[l], r) = 1
            BY <1>1, <1>y, <2>1, <2>2, <3>1 DEF Jumps
        <3>3. l \in 1 .. Len(w)
            BY <1>2, <2>1, <2>2
        <3> QED BY <1>3, <3>2, <3>3
    <2>3. CASE j = Len(w) + 2 /\ x = 1
        <3>1. Len(w) + 1 \in i .. j - 1
            BY <1>2, <2>1, <2>3
        <3> QED BY <1>3, <1>x, <2>3, <3>1
    <2>4. CASE j = Len(w) + 2 /\ x = 0
        <3>0. Len(w) + 1 \in 1 .. Len(w) + 1 /\ i <= Len(w) + 1 /\ (Len(w) + 1) - 1 = Len(w)
            BY <1>2, <2>1
        <3>1. n[i] # n[Len(w) + 1]
            <4>1. n[Len(w) + 1] = 0 /\ n[i] \in Nat
                BY <1>1, <2>1 DEF Counts
            <4>2. m[i] = n[i] + x /\ m[j] = 0
                BY <1>m, <1>2, <2>1, <2>4
            <4> QED BY <1>y, <2>4, <4>1, <4>2
        <3>2. PICK l \in i .. Len(w) : Delta1(w[l], r) = 1
            BY <1>1, <2>1, <3>0, <3>1 DEF Jumps
        <3>3. l \in 1 .. Len(w) /\ l \in i .. j - 1
            BY <1>2, <2>1, <2>4
        <3> QED BY <1>3, <3>2, <3>3
    <2>5. x \in {0, 1}
        BY DeltaNumber, <1>x
    <2>6. j \in 1 .. Len(w) + 1 \/ j = Len(w) + 2
        BY <1>2, <1>3
    <2> QED BY <2>2, <2>3, <2>4, <2>5, <2>6
<1>7. Counts(m, v, r) /\ Jumps(m, v, r)
    BY <1>4, <1>5, <1>6, <1>y DEF Counts, Jumps
<1> QED BY <1>4, <1>7, <1>x DEF Deltas, v

LEMMA DeltaTaken ==
    ASSUME NEW S, NEW w \in Seq(S), w # <<>>, NEW r, NEW d \in Nat, Deltas(w, r, d)
    PROVE  /\ d - Delta1(Head(w), r) \in Nat
           /\ Deltas(Tail(w), r, d - Delta1(Head(w), r))
<1> DEFINE v == Tail(w)
<1>1. PICK n \in [1 .. Len(w) + 1 -> Nat] : Counts(n, w, r) /\ Jumps(n, w, r) /\ n[1] = d
    BY DEF Deltas
<1>2. Len(w) \in Nat \ {0} /\ Head(w) = w[1]
    OBVIOUS
<1>3. Len(v) = Len(w) - 1 /\ \A i \in 1 .. Len(w) - 1 : v[i] = w[i + 1]
    OBVIOUS
<1> HIDE DEF v
<1> DEFINE m == [i \in 1 .. Len(w) |-> n[i + 1]]
<1>m. \A i \in 1 .. Len(w) : m[i] = n[i + 1]
    OBVIOUS
<1>4. m \in [1 .. Len(v) + 1 -> Nat] /\ m[Len(v) + 1] = 0
    BY <1>1, <1>2, <1>3 DEF Counts
<1> HIDE DEF m
<1>5. m[1] = d - Delta1(Head(w), r) /\ m[1] \in Nat
    <2>1. n[1] = n[2] + Delta1(w[1], r) /\ n[1] \in Nat /\ n[2] \in Nat
        BY <1>1, <1>2 DEF Counts
    <2>2. m[1] = n[2] /\ Delta1(w[1], r) \in Nat
        BY <1>m, <1>2, DeltaNumber
    <2> QED BY <1>1, <1>2, <2>1, <2>2
<1>6. ASSUME NEW i \in 1 .. Len(v) PROVE m[i] = m[i + 1] + Delta1(v[i], r)
    <2>1. n[i + 1] = n[i + 2] + Delta1(w[i + 1], r)
        BY <1>1, <1>2, <1>3 DEF Counts
    <2> QED BY <1>m, <1>2, <1>3, <2>1
<1>7. ASSUME NEW i \in 1 .. Len(v) + 1, NEW j \in 1 .. Len(v) + 1, i <= j PROVE m[j] <= m[i]
    <2>1. i + 1 \in 1 .. Len(w) + 1 /\ j + 1 \in 1 .. Len(w) + 1 /\ i + 1 <= j + 1
        BY <1>2, <1>3, <1>7
    <2>2. m[i] = n[i + 1] /\ m[j] = n[j + 1]
        BY <1>m, <1>2, <1>3
    <2>3. n[j + 1] <= n[i + 1]
        BY <1>1, <2>1 DEF Counts
    <2> QED BY <2>2, <2>3
<1>y. ASSUME NEW i \in 1 .. Len(v) + 1, NEW j \in 1 .. Len(v) + 1, i <= j, m[i] # m[j]
      PROVE  \E l \in i .. j - 1 : Delta1(v[l], r) = 1
    <2>1. i + 1 \in 1 .. Len(w) + 1 /\ j + 1 \in 1 .. Len(w) + 1 /\ i + 1 <= j + 1
        BY <1>2, <1>3, <1>y
    <2>2. m[i] = n[i + 1] /\ m[j] = n[j + 1]
        BY <1>m, <1>2, <1>3
    <2>3. PICK l \in i + 1 .. (j + 1) - 1 : Delta1(w[l], r) = 1
        BY <1>1, <1>y, <2>1, <2>2 DEF Jumps
    <2>4. l - 1 \in i .. j - 1 /\ l - 1 \in 1 .. Len(w) - 1 /\ (l - 1) + 1 = l
        BY <1>2, <1>3
    <2> QED BY <1>3, <2>3, <2>4
<1>8. Counts(m, v, r) /\ Jumps(m, v, r)
    BY <1>4, <1>6, <1>7, <1>y DEF Counts, Jumps
<1> QED BY <1>4, <1>5, <1>8 DEF Deltas, v

LEMMA DeltaUnwanted ==
    ASSUME NEW S, NEW w \in Seq(S), NEW k \in 1 .. Len(w), w[k].type # "event",
           NEW r, NEW d \in Nat, Deltas(w, r, d)
    PROVE  Deltas(RemoveAt(w, k), r, d)
<1> DEFINE v == RemoveAt(w, k)
<1>1. PICK n \in [1 .. Len(w) + 1 -> Nat] : Counts(n, w, r) /\ Jumps(n, w, r) /\ n[1] = d
    BY DEF Deltas
<1>2. Len(w) \in Nat /\ k \in Nat /\ 1 <= k /\ k <= Len(w)
    OBVIOUS
<1>3. /\ Len(v) = Len(w) - 1
      /\ \A i \in 1 .. Len(w) - 1 : v[i] = IF i < k THEN w[i] ELSE w[i + 1]
    BY RemovedAt
<1>4. n[k] = n[k + 1] /\ n[k] \in Nat
    <2>a. k \in 1 .. Len(w) + 1 /\ k + 1 \in 1 .. Len(w) + 1
        BY <1>2
    <2>b. n[k] \in Nat /\ n[k + 1] \in Nat
        BY <2>a
    <2>1. n[k] = n[k + 1] + Delta1(w[k], r)
        BY <1>1 DEF Counts
    <2>2. Delta1(w[k], r) = 0
        BY DEF Delta1
    <2> QED BY <2>b, <2>1, <2>2
<1> HIDE DEF v
<1> DEFINE m == [i \in 1 .. Len(w) |-> IF i < k THEN n[i] ELSE n[i + 1]]
<1>m. \A i \in 1 .. Len(w) : m[i] = IF i < k THEN n[i] ELSE n[i + 1]
    OBVIOUS
<1>5. m \in [1 .. Len(v) + 1 -> Nat] /\ m[Len(v) + 1] = 0
    BY <1>1, <1>2, <1>3 DEF Counts
<1> HIDE DEF m
<1>6. m[1] = d
    BY <1>m, <1>1, <1>2, <1>4
<1>7. ASSUME NEW i \in 1 .. Len(v) PROVE m[i] = m[i + 1] + Delta1(v[i], r)
    <2>1. CASE i < k
        <3>1. n[i] = n[i + 1] + Delta1(w[i], r) /\ v[i] = w[i] /\ m[i] = n[i]
            BY <1>m, <1>1, <1>2, <1>3, <2>1 DEF Counts
        <3>a. i + 1 \in 1 .. Len(w) /\ i + 1 <= k
            BY <1>2, <1>3, <2>1
        <3>b. m[i + 1] = IF i + 1 < k THEN n[i + 1] ELSE n[(i + 1) + 1]
            BY <1>m, <3>a
        <3>2. m[i + 1] = n[i + 1]
            <4>1. CASE i + 1 < k
                BY <3>b, <4>1
            <4>2. CASE i + 1 = k
                BY <1>2, <1>4, <3>b, <4>2
            <4> QED BY <1>2, <3>a, <4>1, <4>2
        <3> QED BY <3>1, <3>2
    <2>2. CASE ~ (i < k)
        <3>a. i + 1 \in 1 .. Len(w) /\ (i + 1) + 1 = i + 2 /\ v[i] = w[i + 1]
            BY <1>2, <1>3, <2>2
        <3>1. n[i + 1] = n[i + 2] + Delta1(w[i + 1], r) /\ v[i] = w[i + 1]
            BY <1>1, <3>a DEF Counts
        <3>2. m[i] = n[i + 1] /\ m[i + 1] = n[i + 2]
            BY <1>m, <1>2, <1>3, <2>2
        <3> QED BY <3>1, <3>2
    <2> QED BY <2>1, <2>2
<1>8. ASSUME NEW i \in 1 .. Len(v) + 1, NEW j \in 1 .. Len(v) + 1, i <= j PROVE m[j] <= m[i]
    <2> DEFINE a == IF i < k THEN i ELSE i + 1
               b == IF j < k THEN j ELSE j + 1
    <2>1. a \in 1 .. Len(w) + 1 /\ b \in 1 .. Len(w) + 1 /\ a <= b
        BY <1>2, <1>3, <1>8
    <2>2. m[i] = n[a] /\ m[j] = n[b]
        BY <1>m, <1>2, <1>3
    <2> HIDE DEF a, b
    <2>3. n[b] <= n[a]
        BY <1>1, <2>1 DEF Counts
    <2> QED BY <2>2, <2>3
<1>y. ASSUME NEW i \in 1 .. Len(v) + 1, NEW j \in 1 .. Len(v) + 1, i <= j, m[i] # m[j]
      PROVE  \E l \in i .. j - 1 : Delta1(v[l], r) = 1
    <2> DEFINE a == IF i < k THEN i ELSE i + 1
               b == IF j < k THEN j ELSE j + 1
    <2>1. a \in 1 .. Len(w) + 1 /\ b \in 1 .. Len(w) + 1 /\ a <= b
        BY <1>2, <1>3, <1>y
    <2>2. m[i] = n[a] /\ m[j] = n[b]
        BY <1>m, <1>2, <1>3
    <2>a. i <= a /\ b <= j + 1 /\ (j < k => b = j) /\ (~ (i < k) => a = i + 1)
        BY <1>2, <1>3
    <2> HIDE DEF a, b
    <2>3. PICK l \in a .. b - 1 : Delta1(w[l], r) = 1
        BY <1>1, <1>y, <2>1, <2>2 DEF Jumps
    <2>4. l # k /\ l \in 1 .. Len(w)
        BY <1>2, <2>1, <2>3 DEF Delta1
    <2>5. CASE l < k
        <3>1. l \in i .. j - 1 /\ l \in 1 .. Len(w) - 1
            BY <1>2, <1>3, <2>1, <2>a, <2>5
        <3> QED BY <1>3, <2>3, <2>5, <3>1
    <2>6. CASE k < l
        <3>1. l - 1 \in i .. j - 1 /\ l - 1 \in 1 .. Len(w) - 1 /\ ~ (l - 1 < k)
              /\ (l - 1) + 1 = l
            BY <1>2, <1>3, <2>1, <2>4, <2>a, <2>6
        <3> QED BY <1>3, <2>3, <3>1
    <2> QED BY <1>2, <2>4, <2>5, <2>6
<1>9. Counts(m, v, r) /\ Jumps(m, v, r)
    BY <1>5, <1>7, <1>8, <1>y DEF Counts, Jumps
<1> QED BY <1>5, <1>6, <1>9 DEF Deltas, v

(* No delta, no count. *)
LEMMA DeltaNone ==
    ASSUME NEW w, Len(w) \in Nat, NEW r, NEW d \in Nat, Deltas(w, r, d),
           \A i \in 1 .. Len(w) : Delta1(w[i], r) = 0
    PROVE  d = 0
<1>1. PICK n \in [1 .. Len(w) + 1 -> Nat] : Counts(n, w, r) /\ Jumps(n, w, r) /\ n[1] = d
    BY DEF Deltas
<1>2. 1 \in 1 .. Len(w) + 1 /\ Len(w) + 1 \in 1 .. Len(w) + 1 /\ 1 <= Len(w) + 1
      /\ n[Len(w) + 1] = 0 /\ (Len(w) + 1) - 1 = Len(w)
    BY <1>1 DEF Counts
<1>3. n[1] # 0 => \E l \in 1 .. Len(w) : Delta1(w[l], r) = 1
    BY <1>1, <1>2 DEF Jumps
<1> QED BY <1>1, <1>3

LEMMA DeltaCut ==
    ASSUME NEW S, NEW w \in Seq(S), NEW k \in 0 .. Len(w), NEW r, NEW d \in Nat, Deltas(w, r, d)
    PROVE  \E e \in 0 .. d : Deltas(SubSeq(w, 1, k), r, e)
<1> DEFINE v == SubSeq(w, 1, k)
<1>1. PICK n \in [1 .. Len(w) + 1 -> Nat] : Counts(n, w, r) /\ Jumps(n, w, r) /\ n[1] = d
    BY DEF Deltas
<1>2. Len(w) \in Nat /\ k \in Nat /\ 0 <= k /\ k <= Len(w)
    OBVIOUS
<1>3. Len(v) = k /\ \A i \in 1 .. k : v[i] = w[i]
    OBVIOUS
<1> HIDE DEF v
<1>4. /\ n[k + 1] \in Nat /\ n[1] \in Nat /\ n[k + 1] <= n[1]
      /\ \A i \in 1 .. k + 1 : n[i] \in Nat /\ n[k + 1] <= n[i]
    <2>1. k + 1 \in 1 .. Len(w) + 1 /\ 1 \in 1 .. Len(w) + 1 /\ 1 <= k + 1
        BY <1>2
    <2>2. ASSUME NEW i \in 1 .. k + 1 PROVE n[i] \in Nat /\ n[k + 1] <= n[i]
        <3>1. i \in 1 .. Len(w) + 1 /\ i <= k + 1
            BY <1>2
        <3> QED BY <1>1, <2>1, <3>1 DEF Counts
    <2> QED BY <1>1, <2>1, <2>2
<1> DEFINE m == [i \in 1 .. k + 1 |-> n[i] - n[k + 1]]
<1>5. \A i \in 1 .. k + 1 : m[i] = n[i] - n[k + 1]
    OBVIOUS
<1>6. m \in [1 .. Len(v) + 1 -> Nat] /\ m[Len(v) + 1] = 0
    BY <1>2, <1>3, <1>4
<1> HIDE DEF m
<1>7. m[1] \in 0 .. d
    BY <1>1, <1>2, <1>4, <1>5
<1>8. ASSUME NEW i \in 1 .. Len(v) PROVE m[i] = m[i + 1] + Delta1(v[i], r)
    <2>1. /\ i \in 1 .. Len(w) /\ i \in 1 .. k /\ i \in 1 .. k + 1 /\ i + 1 \in 1 .. k + 1
          /\ i \in 1 .. Len(w) + 1 /\ i + 1 \in 1 .. Len(w) + 1
        BY <1>2, <1>3
    <2>2. n[i] = n[i + 1] + Delta1(w[i], r) /\ n[i] \in Nat /\ n[i + 1] \in Nat
        BY <1>1, <2>1 DEF Counts
    <2>3. v[i] = w[i] /\ Delta1(w[i], r) \in Nat
        BY <1>3, <2>1, DeltaNumber
    <2>4. m[i] = n[i] - n[k + 1] /\ m[i + 1] = n[i + 1] - n[k + 1]
        BY <1>5, <2>1
    <2> QED BY <1>4, <2>2, <2>3, <2>4
<1>9. ASSUME NEW i \in 1 .. Len(v) + 1, NEW j \in 1 .. Len(v) + 1, i <= j PROVE m[j] <= m[i]
    <2>1. i \in 1 .. Len(w) + 1 /\ j \in 1 .. Len(w) + 1 /\ i \in 1 .. k + 1 /\ j \in 1 .. k + 1
        BY <1>2, <1>3
    <2>2. n[j] <= n[i] /\ n[i] \in Nat /\ n[j] \in Nat
        BY <1>1, <1>9, <2>1 DEF Counts
    <2> QED BY <1>4, <1>5, <2>1, <2>2
<1>10. ASSUME NEW i \in 1 .. Len(v) + 1, NEW j \in 1 .. Len(v) + 1, i <= j, m[i] # m[j]
       PROVE  \E l \in i .. j - 1 : Delta1(v[l], r) = 1
    <2>1. i \in 1 .. Len(w) + 1 /\ j \in 1 .. Len(w) + 1 /\ i \in 1 .. k + 1 /\ j \in 1 .. k + 1
        BY <1>2, <1>3
    <2>2. n[i] # n[j]
        BY <1>5, <1>10, <2>1
    <2>3. PICK l \in i .. j - 1 : Delta1(w[l], r) = 1
        BY <1>1, <1>10, <2>1, <2>2 DEF Jumps
    <2>4. l \in 1 .. k
        BY <1>2, <2>1
    <2> QED BY <1>3, <2>3, <2>4
<1>11. Counts(m, v, r) /\ Jumps(m, v, r)
    BY <1>6, <1>8, <1>9, <1>10 DEF Counts, Jumps
<1>12. Deltas(v, r, m[1])
    BY <1>6, <1>11 DEF Deltas
<1> QED BY <1>7, <1>12 DEF v

-----------------------------------------------------------------------------
(* The frames on the wire.                                                 *)

(* A text is of a run of the session that it is to be delivered in. *)
TextOf(text, k) == text # None => Known(text.of) /\ key[text.of] = k

(* A frame is of a run the gateway knows. *)
FrameKnown(f) ==
    /\ f.type = "event" => Known(f.run) /\ (f.text # None => f.text.of = f.run)
    /\ f.type = "history" => TextOf(f.text, f.task.key)

WireKnown == \A i \in 1 .. Len(wire) : FrameKnown(wire[i])
AnswersKnown == \A f \in answers : FrameKnown(f)
LatestKnown == \A k \in Key : latest[k] # None => Known(latest[k]) /\ key[latest[k]] = k

(* What can happen to the wire. *)
Arrives(f) ==
    /\ f \in Frames /\ FrameKnown(f) /\ wire' = Append(wire, f)
    /\ \A r \in Run : emitted'[r] = emitted[r] + Delta1(f, r)
Unwanted ==
    /\ \E k \in 1 .. Len(wire) : wire[k].type # "event" /\ wire' = RemoveAt(wire, k)
    /\ UNCHANGED emitted
Lost ==
    /\ \E n \in 0 .. Len(wire) : wire' = SubSeq(wire, 1, n)
    /\ UNCHANGED emitted /\ Failing

LEMMA EventArrives ==
    ASSUME TypeOK, NEW r \in Run, Known(r),
           NEW state \in {"started", "delta", "final", "aborted", "error"},
           NEW text \in Texts \cup {None}, text # None => text.of = r,
           Emit(Event(r, state, text)),
           \A q \in Run : emitted'[q] = IF state = "delta" /\ q = r THEN emitted[q] + 1
                                        ELSE emitted[q]
    PROVE  Arrives(Event(r, state, text))
<1>1. Event(r, state, text) \in Events
    BY DEF Event, Events
<1>2. FrameKnown(Event(r, state, text))
    BY DEF FrameKnown, Event
<1>3. ASSUME NEW q \in Run
      PROVE  emitted'[q] = emitted[q] + Delta1(Event(r, state, text), q)
    <2>1. emitted[q] \in Nat
        BY TypeParts DEF TypeRuns
    <2>2. Delta1(Event(r, state, text), q) = IF state = "delta" /\ q = r THEN 1 ELSE 0
        BY DEF Delta1, Event
    <2> QED BY <2>1, <2>2
<1> QED BY <1>1, <1>2, <1>3 DEF Arrives, Emit, Frames

LEMMA TextTyped ==
    ASSUME NEW r \in Run, NEW full \in BOOLEAN
    PROVE  Text(r, full) \in Texts /\ Text(r, full).of = r
BY DEF Text, Texts

LEMMA UnheededForm ==
    ASSUME TypeOK, NEW a, wire' = Unheeded(a), UNCHANGED emitted
    PROVE  UNCHANGED <<wire, emitted>> \/ Unwanted
<1>1. CASE wire' = wire
    BY <1>1
<1>2. CASE \E k \in 1 .. Len(wire) : wire[k] = Response(a) /\ wire' = RemoveAt(wire, k)
    BY <1>2 DEF Unwanted, Response
<1> QED BY <1>1, <1>2, TypeParts, UnheededFrames DEF TypeFrames

LEMMA WireForm ==
    ASSUME TypeOK, LatestKnown, [Next]_vars
    PROVE  Reader \/ UNCHANGED <<wire, emitted>> \/ Unwanted \/ Lost \/ \E f \in Frames : Arrives(f)
<1>1. TypeRuns /\ TypeFrames
    BY TypeParts
<1>2. CASE GatewayStep
    <2>1. ASSUME NEW a \in Actor, Emit(Response(a)), UNCHANGED emitted
          PROVE  \E f \in Frames : Arrives(f)
        <3>1. Response(a) \in Frames /\ FrameKnown(Response(a))
            BY <2>1 DEF Response, Frames, Replies, FrameKnown
        <3>2. \A q \in Run : Delta1(Response(a), q) = 0 /\ emitted[q] \in Nat
            BY <1>1 DEF Response, Delta1, TypeRuns
        <3> QED BY <2>1, <3>1, <3>2 DEF Arrives, Emit
    <2>2. ASSUME NEW r \in Run, Known(r),
                 NEW state \in {"started", "delta", "final", "aborted", "error"},
                 NEW text \in Texts \cup {None}, text # None => text.of = r,
                 Emit(Event(r, state, text)),
                 \A q \in Run : emitted'[q] = IF state = "delta" /\ q = r THEN emitted[q] + 1
                                              ELSE emitted[q]
          PROVE  \E f \in Frames : Arrives(f)
        <3>1. Arrives(Event(r, state, text))
            BY <2>2, EventArrives
        <3> QED BY <3>1 DEF Arrives
    <2>3. ASSUME NEW r \in Run, NEW k \in {"main", "cron"}, OtherRun(r, k)
          PROVE  UNCHANGED <<wire, emitted>>
        BY <2>3 DEF OtherRun, Accepts
    <2>4. ASSUME NEW a \in Actor, AnswerSend(a) PROVE \E f \in Frames : Arrives(f)
        BY <2>1, <2>4 DEF AnswerSend, Answers, gateway
    <2>5. ASSUME NEW c \in Client, AnswerAbort(c) \/ AnswerReset(c)
          PROVE  \E f \in Frames : Arrives(f)
        BY <2>1, <2>5, Apart DEF AnswerAbort, AnswerReset, Answers
    <2>6. ASSUME NEW r \in Run, Starts(r) \/ Streams(r)
          PROVE  \E f \in Frames : Arrives(f)
        <3>1. CASE Starts(r)
            BY <2>2, <3>1 DEF Starts, Known
        <3>2. CASE Streams(r)
            <4>1. \A q \in Run : emitted'[q] = IF q = r THEN emitted[q] + 1 ELSE emitted[q]
                BY <1>1, <3>2 DEF Streams, TypeRuns
            <4> QED BY <2>2, <3>2, <4>1 DEF Streams, Known
        <3> QED BY <2>6, <3>1, <3>2
    <2>7. ASSUME NEW r \in Run, NEW replied \in BOOLEAN, NEW inline \in BOOLEAN,
                 Final(r, replied, inline)
          PROVE  \E f \in Frames : Arrives(f)
        <3>1. CASE inline
            BY <2>2, <2>7, <3>1, TextTyped DEF Final, Known
        <3>2. CASE ~inline
            BY <2>2, <2>7, <3>2 DEF Final, Known
        <3> QED BY <3>1, <3>2
    <2>8. ASSUME NEW r \in Run, NEW inline \in BOOLEAN, Aborted(r, inline) \/ Errs(r, inline)
          PROVE  \E f \in Frames : Arrives(f)
        <3>1. CASE inline
            BY <2>2, <2>8, <3>1, TextTyped DEF Aborted, Errs, Known
        <3>2. CASE ~inline
            BY <2>2, <2>8, <3>2 DEF Aborted, Errs, Known
        <3> QED BY <3>1, <3>2
    <2>9. ASSUME NEW r \in Run, NEW inline \in BOOLEAN, Replays(r, inline)
          PROVE  \E f \in Frames : Arrives(f)
        <3>1. CASE inline
            BY <2>2, <2>9, <3>1, TextTyped DEF Replays, Known, gateway
        <3>2. CASE ~inline
            BY <2>2, <2>9, <3>2 DEF Replays, Known, gateway
        <3> QED BY <3>1, <3>2
    <2>10. ASSUME NEW t \in asked, AnswerHistory(t) PROVE \E f \in Frames : Arrives(f)
        <3> DEFINE text == IF latest[t.key] = None THEN None ELSE Text(latest[t.key], TRUE)
        <3>1. t \in Tasks /\ t.key \in Key /\ latest[t.key] \in Run \cup {None}
            BY <1>1 DEF TypeFrames, TypeRuns, Tasks
        <3>2. text \in Texts \cup {None}
            BY <3>1, TextTyped
        <3>3. TextOf(text, t.key)
            BY <3>1, TextTyped DEF LatestKnown, TextOf
        <3>4. Emit(LastReply(t, text))
            BY <2>10 DEF AnswerHistory
        <3> HIDE DEF text
        <3>5. LastReply(t, text) \in Frames
            BY <3>1, <3>2 DEF LastReply, Frames, Replies
        <3>6. FrameKnown(LastReply(t, text))
            BY <3>3 DEF LastReply, FrameKnown
        <3>7. \A q \in Run : Delta1(LastReply(t, text), q) = 0 /\ emitted[q] \in Nat
            BY <1>1 DEF LastReply, Delta1, TypeRuns
        <3>8. UNCHANGED emitted
            BY <2>10 DEF AnswerHistory, gateway
        <3> QED BY <3>4, <3>5, <3>6, <3>7, <3>8 DEF Arrives, Emit
    <2> QED BY <1>2, <2>3, <2>4, <2>5, <2>6, <2>7, <2>8, <2>9, <2>10 DEF GatewayStep, RunEnds
<1>3. CASE UserStep
    <2>1. CASE SpeaksAgain \/ BargeIn
        BY <1>3, <2>1, UserKeeps, UnheededForm DEF SpeaksAgain, BargeIn, CancelActive, Deafens
    <2>2. CASE \/ \E c \in Client, r \in Run : Message(c, r) \/ VoiceTurn(r)
               \/ \E c \in Client : Abort(c) \/ Reset(c) \/ Leaves(c) \/ Returns(c)
        BY <1>3, <2>2, UserKeeps DEF Message, VoiceTurn, Abort, Reset, Leaves, Returns
    <2> QED BY <1>3, <2>1, <2>2, Apart DEF UserStep
<1>4. CASE Reader
    BY <1>4
<1>5. CASE Failure
    <2>1. ASSUME NEW a \in Actor, NEW landed \in BOOLEAN, RequestFails(a, landed)
          PROVE  UNCHANGED <<wire, emitted>> \/ Unwanted
        BY <2>1, UnheededForm DEF RequestFails, Deafens
    <2>2. ASSUME NEW t \in fetching, FetchFails(t)
          PROVE  UNCHANGED <<wire, emitted>> \/ Unwanted
        <3>1. wire' = Unfetched(t)
            BY <2>2 DEF FetchFails, Unfetched
        <3>2. \/ wire' = wire
              \/ \E k \in 1 .. Len(wire) : wire[k].type = "history" /\ wire' = RemoveAt(wire, k)
            BY <1>1, <3>1, UnfetchedFrames DEF TypeFrames
        <3>3. UNCHANGED emitted
            BY <2>2 DEF FetchFails, gateway
        <3> QED BY <3>2, <3>3 DEF Unwanted
    <2>3. ASSUME NEW n \in 0..Len(wire), SocketLost(n) PROVE Lost
        BY <2>3 DEF SocketLost, Lost, gateway
    <2> QED BY <1>5, <2>1, <2>2, <2>3 DEF Failure
<1>6. CASE Resumed \/ TaskStarts \/ TurnEnds \/ TurnTimesOut \/ (\E r \in Run : Reap(r))
           \/ UNCHANGED vars
    BY <1>6, ResumedKeeps, TaskKeeps DEF TurnEnds, TurnTimesOut, Reap, vars, gateway
<1> QED BY <1>2, <1>3, <1>4, <1>5, <1>6, NextCases

(* A frame on the wire was there before, or has just arrived.              *)
LEMMA WireStep ==
    ASSUME TypeOK, LatestKnown, [Next]_vars
    PROVE  /\ wire' \in Seq(Frames)
           /\ \A i \in 1 .. Len(wire') :
                 \/ \E j \in 1 .. Len(wire) : wire'[i] = wire[j]
                 \/ wire'[i] \in Frames /\ FrameKnown(wire'[i])
<1>1. wire \in Seq(Frames) /\ Len(wire) \in Nat
    BY TypeParts DEF TypeFrames
<1>2. CASE UNCHANGED <<wire, emitted>>
    BY <1>1, <1>2
<1>3. CASE Reader
    <2>1. wire # <<>> /\ wire' = Tail(wire)
        BY <1>3, ReaderKeeps
    <2> QED BY <1>1, <2>1
<1>4. CASE Unwanted
    <2>1. PICK k \in 1 .. Len(wire) : wire' = RemoveAt(wire, k)
        BY <1>4 DEF Unwanted
    <2>2. /\ wire' \in Seq(Frames) /\ Len(wire') = Len(wire) - 1
          /\ \A i \in 1 .. Len(wire) - 1 : wire'[i] = IF i < k THEN wire[i] ELSE wire[i + 1]
        BY <1>1, <2>1, RemovedAt
    <2>3. ASSUME NEW i \in 1 .. Len(wire') PROVE \E j \in 1 .. Len(wire) : wire'[i] = wire[j]
        <3>1. i \in 1 .. Len(wire) /\ i + 1 \in 1 .. Len(wire) /\ i \in 1 .. Len(wire) - 1
            BY <1>1, <2>2
        <3> QED BY <2>2, <3>1
    <2> QED BY <2>2, <2>3
<1>5. CASE Lost
    <2>1. PICK n \in 0 .. Len(wire) : wire' = SubSeq(wire, 1, n)
        BY <1>5 DEF Lost
    <2>2. wire' \in Seq(Frames) /\ Len(wire') = n /\ \A i \in 1 .. n : wire'[i] = wire[i]
        BY <1>1, <2>1
    <2> QED BY <1>1, <2>2
<1>6. ASSUME NEW f \in Frames, Arrives(f)
      PROVE  /\ wire' \in Seq(Frames)
             /\ \A i \in 1 .. Len(wire') :
                   \/ \E j \in 1 .. Len(wire) : wire'[i] = wire[j]
                   \/ wire'[i] \in Frames /\ FrameKnown(wire'[i])
    <2>1. wire' \in Seq(Frames) /\ Len(wire') = Len(wire) + 1
        BY <1>1, <1>6 DEF Arrives
    <2>2. ASSUME NEW i \in 1 .. Len(wire')
          PROVE  (i \in 1 .. Len(wire) /\ wire'[i] = wire[i]) \/ wire'[i] = f
        BY <1>1, <1>6, <2>1 DEF Arrives
    <2> QED BY <1>6, <2>1, <2>2 DEF Arrives
<1> QED BY <1>2, <1>3, <1>4, <1>5, <1>6, WireForm

(* An answer was there before, or was on the wire, or tells a task that    *)
(* its request was lost.                                                   *)
LEMMA AnswersStep ==
    ASSUME TypeOK, [Next]_vars
    PROVE  /\ answers' \subseteq Replies
           /\ \A f \in answers' : \/ f \in answers
                                  \/ \E i \in 1 .. Len(wire) : f = wire[i]
                                  \/ FrameKnown(f)
<1>1. wire \in Seq(Frames) /\ answers \subseteq Replies /\ fetching \subseteq Tasks
    BY TypeParts DEF TypeFrames
<1>2. CASE answers' \subseteq answers
    BY <1>1, <1>2
<1>3. CASE Reader
    <2>1. CASE Resolves
        <3>1. wire # <<>> /\ Head(wire).type # "event" /\ answers' = answers \cup {Head(wire)}
            BY <2>1 DEF Resolves
        <3>2. 1 \in 1 .. Len(wire) /\ Head(wire) = wire[1] /\ Head(wire) \in Frames
            BY <1>1, <3>1
        <3>3. Head(wire) \in Replies
            BY <3>1, <3>2 DEF Frames, Events
        <3> QED BY <1>1, <3>1, <3>2, <3>3
    <2>2. CASE \/ \E r \in Run : RunStarted(r) \/ Delta(r)
               \/ \E r \in Run, state \in {"final", "aborted", "error"} : Terminal(r, state)
        BY <1>2, <2>2 DEF RunStarted, Delta, Terminal, Reads
    <2> QED BY <1>3, <2>1, <2>2 DEF Reader
<1>4. CASE Failure
    <2>1. ASSUME NEW n \in 0..Len(wire), SocketLost(n)
          PROVE  /\ answers' \subseteq Replies
                 /\ \A f \in answers' : f \in answers \/ FrameKnown(f)
        <3>1. \A f \in answers' : f \in answers \/ \E t \in fetching : f = LastReply(t, None)
            BY <2>1 DEF SocketLost
        <3>2. \A t \in fetching : LastReply(t, None) \in Replies /\ FrameKnown(LastReply(t, None))
            BY <1>1 DEF LastReply, Replies, FrameKnown, TextOf
        <3> QED BY <1>1, <3>1, <3>2
    <2>2. CASE \/ \E a \in Actor, landed \in BOOLEAN : RequestFails(a, landed)
               \/ \E t \in fetching : FetchFails(t)
        BY <1>2, <2>2 DEF RequestFails, FetchFails, Deafens
    <2> QED BY <1>4, <2>1, <2>2 DEF Failure
<1>5. CASE UserStep
    BY <1>2, <1>5 DEF UserStep, Message, VoiceTurn, Abort, Reset, Leaves, Returns, SpeaksAgain,
           BargeIn, CancelActive, Deafens
<1>6. CASE GatewayStep \/ Resumed \/ TaskStarts \/ TurnEnds \/ TurnTimesOut
           \/ (\E r \in Run : Reap(r)) \/ UNCHANGED vars
    BY <1>2, <1>6, GatewayKeeps, ResumedKeeps, TaskKeeps DEF TurnEnds, TurnTimesOut, Reap, hub, vars
<1> QED BY <1>3, <1>4, <1>5, <1>6, NextCases

LEMMA WireKnownStep ==
    ASSUME TypeOK, WireKnown, AnswersKnown, LatestKnown, [Next]_vars
    PROVE  WireKnown' /\ AnswersKnown'
<1>1. KnownStays
    BY RunsStay
<1>2. wire \in Seq(Frames)
    BY TypeParts DEF TypeFrames
<1>3. ASSUME NEW i \in 1 .. Len(wire') PROVE wire'[i] \in Frames /\ FrameKnown(wire'[i])
    BY <1>2, <1>3, WireStep DEF WireKnown
<1>4. ASSUME NEW f \in Frames, FrameKnown(f)
      PROVE  /\ f.type = "event" => phase'[f.run] # "free" /\ (f.text # None => f.text.of = f.run)
             /\ f.type = "history" /\ f.text # None =>
                    phase'[f.text.of] # "free" /\ key'[f.text.of] = f.task.key
    <2>1. f.type = "event" => f.run \in Run
        BY DEF Frames, Events, Replies
    <2>2. f.type = "history" /\ f.text # None => f.text.of \in Run
        BY DEF Frames, Texts, Events, Replies
    <2> QED BY <1>1, <1>4, <2>1, <2>2 DEF KnownStays, FrameKnown, TextOf
<1>5. ASSUME NEW f \in answers' PROVE f \in Frames /\ FrameKnown(f)
    <2>1. answers' \subseteq Frames
        BY AnswersStep DEF Frames
    <2> QED BY <1>2, <1>5, <2>1, AnswersStep DEF WireKnown, AnswersKnown
<1>6. WireKnown'
    BY <1>3, <1>4 DEF WireKnown, FrameKnown, TextOf, Known
<1>7. AnswersKnown'
    BY <1>4, <1>5 DEF AnswersKnown, FrameKnown, TextOf, Known
<1> QED BY <1>6, <1>7

-----------------------------------------------------------------------------
(* The invariant: what the hub's maps hold is about runs the gateway knows *)
(* and about the sessions they run in.                                     *)

(* A handler waits for a run of its own session. *)
SentKnown ==
    \A a \in Actor : sent[a] # None =>
        /\ Known(sent[a])
        /\ key[sent[a]] = IF a = Voice THEN VoiceKey ELSE "main"
        /\ kind[sent[a]] = IF a = Voice THEN "voice" ELSE "chat"

(* A tracked run is of the voice session if its entry says so, else of the *)
(* main one.                                                               *)
ActiveKnown ==
    \A r \in Run : active[r] # None =>
        Known(r) /\ key[r] = IF active[r].pane THEN VoiceKey ELSE "main"

(* A terminal task is of the end of a run that does not belong to cron. *)
TasksKnown ==
    \A i \in 1 .. Len(tasks) :
        /\ FrameKnown(tasks[i])
        /\ key[tasks[i].run] # "cron"
        /\ tasks[i].state \in {"final", "aborted", "error"}

(* A pane that an entry names is the one of the voice session. *)
Bound(entry) == entry # None /\ entry.pane => entry.client = VoiceClient

FetchingKnown ==
    /\ IsFiniteSet(fetching)
    /\ \A t \in fetching :
        /\ t.key = IF t.entry # None /\ t.entry.pane THEN VoiceKey ELSE "main"
        /\ Bound(t.entry)

HeardKnown == \A r \in Run, c \in Client : <<c, r>> \in heard => Known(r) /\ key[r] # "cron"

KnownInv ==
    /\ SentKnown /\ ActiveKnown /\ WireKnown /\ AnswersKnown /\ TasksKnown /\ FetchingKnown
    /\ LatestKnown /\ HeardKnown

(* An entry counts no more than what was streamed and has arrived. *)
AccOf(act, r) == IF act[r] = None THEN 0 ELSE act[r].acc
CountOK ==
    \A r \in Run : \E d \in Nat : Deltas(wire, r, d) /\ AccOf(active, r) + d <= emitted[r]

(* A frame with a history is of a task that awaits it, and a task has one  *)
(* at most, on the wire or among the answers.                              *)
IsHistory(f) == f.type = "history"
HistoryOK(w, open) ==
    /\ \A i \in 1 .. Len(w) : IsHistory(w[i]) => w[i].task \in open
    /\ \A i, j \in 1 .. Len(w) :
          IsHistory(w[i]) /\ IsHistory(w[j]) /\ w[i].task = w[j].task => i = j

Histories(ans) == {f \in ans : IsHistory(f)}
Served(ans) == {f.task : f \in Histories(ans)}
OneEach(ans) == \A f, g \in Histories(ans) : f.task = g.task => f = g
HistoryInv ==
    /\ Served(answers) \subseteq fetching \ asked
    /\ OneEach(answers)
    /\ HistoryOK(wire, (fetching \ asked) \ Served(answers))

HubInv == TypeOK /\ KnownInv /\ CountOK /\ HistoryInv

-----------------------------------------------------------------------------
(* Delivery.                                                               *)

(* What a delivery does: it may resolve the turn that waits, remember the  *)
(* text, and give it to the panes of the task.                             *)
LEMMA Delivered ==
    ASSUME TypeReplies, conn \in [Client -> BOOLEAN],
           NEW t, t.run \in Run, t.key \in Key, Bound(t.entry),
           NEW text \in Texts \cup {None}, Deliver(t, text)
    PROVE  /\ waiter' \in [Run -> {"none", "pending", "done"}]
           /\ last' \in [Key -> Texts \cup {None}]
           /\ heard' \subseteq Client \X Run
           /\ \A c, r : <<c, r>> \in heard' => \/ <<c, r>> \in heard
                                               \/ text # None /\ r = text.of
<1> DEFINE to == IF t.entry # None /\ t.entry.pane
                 THEN {c \in {t.entry.client} : conn[c]} ELSE Audience
<1>1. to \subseteq Client
    BY Apart DEF Bound, Audience
<1>2. CASE Suppressed(t.entry, t.key, text)
    BY <1>2 DEF Deliver, TypeReplies
<1>3. CASE ~ Suppressed(t.entry, t.key, text)
    <2>1. /\ waiter' = [waiter EXCEPT ![t.run] = IF @ = "pending" THEN "done" ELSE @]
          /\ last' = IF text # None THEN [last EXCEPT ![t.key] = text] ELSE last
          /\ heard' = IF text # None THEN heard \cup {<<c, text.of>> : c \in to} ELSE heard
        BY <1>3 DEF Deliver
    <2> HIDE DEF to
    <2>2. text # None => text.of \in Run
        BY DEF Texts
    <2>3. waiter' \in [Run -> {"none", "pending", "done"}]
        BY <2>1 DEF TypeReplies
    <2>4. last' \in [Key -> Texts \cup {None}]
        BY <2>1 DEF TypeReplies
    <2>5. heard' \subseteq Client \X Run
        BY <1>1, <2>1, <2>2 DEF TypeReplies
    <2>6. \A c, r : <<c, r>> \in heard' => \/ <<c, r>> \in heard
                                           \/ text # None /\ r = text.of
        BY <2>1
    <2> QED BY <2>3, <2>4, <2>5, <2>6
<1> QED BY <1>2, <1>3

(* The number that tells the tasks of a run apart exists. *)
LEMMA TaskNumber ==
    ASSUME IsFiniteSet(fetching), NEW r
    PROVE  \E n \in 0..Cardinality(fetching) : \A t \in fetching : t.run = r => t.nth # n
<1> DEFINE C == Cardinality(fetching)
<1>1. C \in Nat
    BY FS_CardinalityType
<1>2. SUFFICES ASSUME \A n \in 0..C : \E t \in fetching : t.run = r /\ t.nth = n
               PROVE  FALSE
    OBVIOUS
<1>3. IsFiniteSet(0..C) /\ Cardinality(0..C) = C + 1
    BY <1>1, FS_Interval
<1> DEFINE f == [n \in 0..C |-> CHOOSE t \in fetching : t.run = r /\ t.nth = n]
<1>4. \A n \in 0..C : f[n] \in fetching /\ f[n].nth = n
    BY <1>2
<1>5. f \in [0..C -> fetching]
    BY <1>4
<1>6. Cardinality(fetching) < Cardinality(0..C)
    BY <1>1, <1>3
<1> HIDE DEF f
<1>7. \E x, y \in 0..C : x # y /\ f[x] = f[y]
    BY <1>3, <1>5, <1>6, FS_PigeonHole
<1> QED BY <1>4, <1>7

(* A terminal task that asks for the history. *)
LEMMA TaskForm ==
    ASSUME TypeOK, KnownInv, NEW e \in Events, FrameKnown(e), key[e.run] # "cron"
    PROVE  /\ Task(e).run = e.run /\ Task(e).run \in Run /\ Task(e).key \in Key
           /\ Task(e).entry = active[e.run] /\ Task(e).state = e.state
           /\ Task(e).nth \in Nat
           /\ Bound(Task(e).entry)
           /\ Task(e).key = IF Task(e).entry # None /\ Task(e).entry.pane
                            THEN VoiceKey ELSE "main"
           /\ NeedsHistory(e) => Task(e) \in Tasks
<1>1. e.run \in Run
    BY DEF Events
<1>2. active[e.run] \in Entries \cup {None} /\ Bound(active[e.run])
    BY <1>1, TypeParts DEF TypeActive, Bound
<1>3. DeliveryKey(e.run, active[e.run])
        = IF active[e.run] # None /\ active[e.run].pane THEN VoiceKey ELSE "main"
    BY <1>1 DEF DeliveryKey, KnownInv, ActiveKnown
<1> DEFINE nth == CHOOSE n \in 0..Cardinality(fetching) :
                        \A t \in fetching : t.run = e.run => t.nth # n
<1>4. nth \in 0..Cardinality(fetching)
    BY TaskNumber DEF KnownInv, FetchingKnown
<1>5. nth \in Nat
    BY <1>4, FS_CardinalityType DEF KnownInv, FetchingKnown
<1>6. Task(e) = [run |-> e.run, state |-> e.state, entry |-> active[e.run],
                 key |-> DeliveryKey(e.run, active[e.run]), nth |-> nth]
    BY DEF Task
<1> HIDE DEF nth
<1>7. NeedsHistory(e) => e.state = "final"
    BY DEF NeedsHistory
<1> QED BY <1>1, <1>2, <1>3, <1>5, <1>6, <1>7, Apart DEF Tasks

LEMMA OwnTextForm ==
    ASSUME TypeOK, NEW e \in Events, FrameKnown(e)
    PROVE  /\ OwnText(e, active[e.run]) \in Texts \cup {None}
           /\ OwnText(e, active[e.run]) # None => OwnText(e, active[e.run]).of = e.run
<1>1. e.run \in Run /\ e.text \in Texts \cup {None}
    BY DEF Events
<1>2. e.text # None => e.text.of = e.run
    BY DEF FrameKnown, Events
<1>3. (active[e.run].acc = emitted[e.run]) \in BOOLEAN
    OBVIOUS
<1>4. CASE e.text # None
    BY <1>1, <1>2, <1>4 DEF OwnText
<1>5. CASE e.text = None /\ e.state = "final" /\ active[e.run] # None /\ active[e.run].acc > 0
    <2>1. OwnText(e, active[e.run]) = Text(e.run, active[e.run].acc = emitted[e.run])
        BY <1>5 DEF OwnText
    <2> QED BY <1>1, <1>3, <2>1, TextTyped
<1>6. CASE e.text = None /\ ~ (e.state = "final" /\ active[e.run] # None /\ active[e.run].acc > 0)
    BY <1>6 DEF OwnText
<1> QED BY <1>4, <1>5, <1>6

(* A terminal task starts: what it delivers. *)
LEMMA StartedTask ==
    ASSUME TypeOK, KnownInv, tasks # <<>>
    PROVE  /\ Head(tasks) \in Events /\ FrameKnown(Head(tasks)) /\ Head(tasks).run \in Run
           /\ key[Head(tasks).run] # "cron" /\ Known(Head(tasks).run)
           /\ Tail(tasks) \in Seq(Events)
           /\ \A i \in 1 .. Len(Tail(tasks)) :
                 i + 1 \in 1 .. Len(tasks) /\ Tail(tasks)[i] = tasks[i + 1]
<1>1. tasks \in Seq(Events)
    BY TypeParts DEF TypeReplies
<1>2. 1 \in 1 .. Len(tasks) /\ Head(tasks) = tasks[1] /\ Head(tasks) \in Events
    BY <1>1
<1>3. FrameKnown(Head(tasks)) /\ key[Head(tasks).run] # "cron"
    BY <1>2 DEF KnownInv, TasksKnown
<1>4. Known(Head(tasks).run) /\ Head(tasks).run \in Run
    BY <1>2, <1>3 DEF FrameKnown, Events
<1>5. Tail(tasks) \in Seq(Events)
    BY <1>1
<1>6. \A i \in 1 .. Len(Tail(tasks)) :
         i + 1 \in 1 .. Len(tasks) /\ Tail(tasks)[i] = tasks[i + 1]
    BY <1>1
<1> QED BY <1>2, <1>3, <1>4, <1>5, <1>6

-----------------------------------------------------------------------------
(* The types, step by step.                                                *)

LEMMA HandlersStep ==
    ASSUME TypeOK, [Next]_vars
    PROVE  TypeHandlers'
<1>1. TypeHandlers
    BY TypeParts
<1>2. CASE GatewayStep
    BY <1>1, <1>2, GatewayKeeps DEF TypeHandlers, hub
<1>3. CASE UserStep
    <2>1. ASSUME NEW a \in Actor, NEW r \in Run, NEW kd, NEW k, Sends(a, r, kd, k)
          PROVE  TypeHandlers'
        <3>1. pc' = [pc EXCEPT ![a] = "sending"] /\ sent' = [sent EXCEPT ![a] = r] /\ r # None
            BY <2>1, Apart DEF Sends, Await
        <3> QED BY <1>1, <3>1 DEF TypeHandlers, Asking
    <2>2. ASSUME NEW c \in Client, NEW r \in Run, Message(c, r) PROVE TypeHandlers'
        BY <2>1, <2>2, Apart DEF Message
    <2>3. ASSUME NEW r \in Run, VoiceTurn(r) PROVE TypeHandlers'
        BY <2>1, <2>3, Apart DEF VoiceTurn
    <2>4. ASSUME NEW c \in Client, Abort(c) \/ Reset(c) PROVE TypeHandlers'
        <3>1. c \in Actor /\ pc[c] = "idle" /\ UNCHANGED sent
              /\ \E where \in {"aborting", "clearing"} : pc' = [pc EXCEPT ![c] = where]
            BY <2>4, Apart DEF Abort, Reset, Await
        <3> QED BY <1>1, <3>1 DEF TypeHandlers, Asking
    <2>5. CASE SpeaksAgain \/ BargeIn
        BY <1>1, <2>5, Apart DEF SpeaksAgain, BargeIn, CancelActive, Await, TypeHandlers
    <2>6. ASSUME NEW c \in Client, Leaves(c) \/ Returns(c) PROVE TypeHandlers'
        BY <1>1, <2>6 DEF Leaves, Returns, TypeHandlers
    <2> QED BY <1>3, <2>2, <2>3, <2>4, <2>5, <2>6 DEF UserStep
<1>4. CASE Resumed
    <2>1. ASSUME NEW c \in Client, MessageSent(c) PROVE TypeHandlers'
        BY <1>1, <2>1, Apart DEF MessageSent, Await, TypeHandlers
    <2>2. ASSUME NEW c \in Client, AbortDone(c) \/ ResetDone(c) PROVE TypeHandlers'
        <3>1. c \in Actor /\ pc[c] \in {"aborting", "clearing", "resetting"} /\ UNCHANGED sent
              /\ \E where \in {"idle", "resetting"} : pc' = [pc EXCEPT ![c] = where]
            BY <2>2, Apart DEF AbortDone, ResetDone, Await
        <3> QED BY <1>1, <3>1 DEF TypeHandlers, Asking
    <2>3. CASE VoiceSent
        BY <1>1, <2>3, Apart DEF VoiceSent, Await, TypeHandlers
    <2>4. CASE \E t \in fetching : Fetched(t)
        BY <1>1, <2>4 DEF Fetched, TypeHandlers
    <2> QED BY <1>4, <2>1, <2>2, <2>3, <2>4 DEF Resumed
<1>5. CASE TurnEnds
    BY <1>1, <1>5, Apart DEF TurnEnds, Await, TypeHandlers
<1>6. CASE Failure
    <2>1. ASSUME NEW a \in Actor, NEW landed \in BOOLEAN, RequestFails(a, landed)
          PROVE  TypeHandlers'
        BY <1>1, <2>1 DEF RequestFails, Await, TypeHandlers
    <2>2. ASSUME NEW t \in fetching, FetchFails(t) PROVE TypeHandlers'
        BY <1>1, <2>2 DEF FetchFails, TypeHandlers
    <2>3. ASSUME NEW n \in 0..Len(wire), SocketLost(n) PROVE TypeHandlers'
        <3> DEFINE fails(a) == /\ pc[a] \in Asking /\ Response(a) \notin answers
                               /\ ~Contains(SubSeq(wire, 1, n), Response(a))
        <3>1. /\ pc' = [a \in Actor |-> IF fails(a) THEN "idle" ELSE pc[a]]
              /\ sent' = [a \in Actor |-> IF fails(a) THEN None ELSE sent[a]]
            BY <2>3 DEF SocketLost
        <3> HIDE DEF fails
        <3> QED BY <1>1, <3>1 DEF TypeHandlers
    <2> QED BY <1>6, <2>1, <2>2, <2>3 DEF Failure
<1>7. CASE Reader \/ TaskStarts \/ TurnTimesOut \/ (\E r \in Run : Reap(r)) \/ UNCHANGED vars
    BY <1>1, <1>7, ReaderKeeps, TaskKeeps DEF TurnTimesOut, Reap, vars, hub, TypeHandlers
<1> QED BY <1>2, <1>3, <1>4, <1>5, <1>6, <1>7, NextCases

(* Nothing is promised of ever more runs. *)
LEMMA MissedStep ==
    ASSUME TypeOK, [Next]_vars
    PROVE  missed \subseteq missed' /\ (missed \subseteq Run => missed' \subseteq Run)
<1>1. TypeHandlers /\ TypeFrames
    BY TypeParts
<1>2. ASSUME NEW rs \in SUBSET Run, missed' = missed \cup rs
      PROVE  missed \subseteq missed' /\ (missed \subseteq Run => missed' \subseteq Run)
    BY <1>2
<1>3. CASE UNCHANGED missed
    BY <1>3
<1>4. CASE GatewayStep
    <2>1. UNCHANGED missed \/ \E r \in Run : missed' = missed \cup {r}
        BY <1>4 DEF GatewayStep, OtherRun, AnswerSend, AnswerAbort, AnswerReset, Starts, Streams,
               RunEnds, Final, Aborted, Errs, Replays, Misses, AnswerHistory, history
    <2> QED BY <1>2, <1>3, <2>1
<1>5. CASE UserStep
    <2>1. UNCHANGED missed
        BY <1>5 DEF UserStep, Message, VoiceTurn, Abort, Reset, Leaves, Returns, SpeaksAgain,
               BargeIn, CancelActive, history
    <2> QED BY <1>3, <2>1
<1>6. CASE Reader
    <2>1. \/ UNCHANGED missed
          \/ \E r \in Run : missed' = missed \cup (IF Unregistered(r) THEN {r} ELSE {})
        BY <1>6 DEF Reader, Resolves, RunStarted, Delta, Terminal, Reads, Misses, history
    <2> QED BY <1>2, <1>3, <2>1
<1>7. CASE Failure
    <2>1. ASSUME NEW a \in Actor, NEW landed \in BOOLEAN, RequestFails(a, landed)
          PROVE  \E rs \in SUBSET Run : missed' = missed \cup rs
        BY <1>1, <2>1 DEF RequestFails, Misses, TypeHandlers
    <2>2. ASSUME NEW t \in fetching, FetchFails(t) PROVE UNCHANGED missed
        BY <2>2 DEF FetchFails
    <2>3. ASSUME NEW n \in 0..Len(wire), SocketLost(n)
          PROVE  \E rs \in SUBSET Run : missed' = missed \cup rs
        <3> DEFINE lost == {wire[i] : i \in n+1..Len(wire)}
                   fails == {a \in Actor : /\ pc[a] \in Asking /\ Response(a) \notin answers
                                           /\ ~Contains(SubSeq(wire, 1, n), Response(a))}
        <3>1. missed' = missed \cup ({f.run : f \in {g \in lost : g.type = "event"}}
                                       \cup ({sent[a] : a \in fails} \ {None}))
            BY <2>3 DEF SocketLost, Misses
        <3>2. \A f \in lost : f.type = "event" => f.run \in Run
            <4>1. lost \subseteq Frames
                BY <1>1 DEF TypeFrames
            <4> QED BY <4>1 DEF Frames, Events, Replies
        <3>3. \A a \in fails : sent[a] \in Run \cup {None}
            BY <1>1 DEF TypeHandlers
        <3> HIDE DEF lost, fails
        <3> QED BY <3>1, <3>2, <3>3
    <2> QED BY <1>2, <1>3, <1>7, <2>1, <2>2, <2>3 DEF Failure
<1>8. CASE TurnTimesOut
    <2>1. sent[Voice] \in Run
        BY <1>1, <1>8, Apart DEF TurnTimesOut, TypeHandlers
    <2> QED BY <1>2, <1>8, <2>1 DEF TurnTimesOut, Misses
<1>9. CASE \E r \in Run : Reap(r)
    BY <1>2, <1>9 DEF Reap, Misses
<1> QED BY <1>3, <1>4, <1>5, <1>6, <1>7, <1>8, <1>9, NextCases, ResumedKeeps, TaskKeeps
        DEF TurnEnds, history, vars

LEMMA RestStep ==
    ASSUME TypeOK, [Next]_vars
    PROVE  TypeRest'
<1>1. TypeRest
    BY TypeParts
<1>2. \/ UNCHANGED stops /\ UNCHANGED cancels
      \/ Stopping /\ UNCHANGED cancels
      \/ Cancelling /\ UNCHANGED stops
    <2>1. CASE UserStep
        BY <2>1 DEF UserStep, Message, VoiceTurn, Abort, Reset, Leaves, Returns, SpeaksAgain,
               BargeIn, CancelActive, history
    <2> QED BY <2>1, NextCases, GatewayKeeps, ReaderKeeps, ResumedKeeps, TaskKeeps, FailureKeeps
            DEF TurnEnds, TurnTimesOut, Reap, history, vars
<1>3. UNCHANGED faults \/ Failing
    <2>1. CASE GatewayStep
        BY <2>1 DEF GatewayStep, OtherRun, AnswerSend, AnswerAbort, AnswerReset, Starts, Streams,
               RunEnds, Final, Aborted, Errs, Replays, AnswerHistory, history
    <2>2. CASE UserStep
        BY <2>2 DEF UserStep, Message, VoiceTurn, Abort, Reset, Leaves, Returns, SpeaksAgain,
               BargeIn, CancelActive, history
    <2>3. CASE Failure
        BY <2>3 DEF Failure, RequestFails, FetchFails, SocketLost
    <2> QED BY <2>1, <2>2, <2>3, NextCases, ReaderKeeps, ResumedKeeps, TaskKeeps
            DEF TurnEnds, TurnTimesOut, Reap, history, vars
<1>4. stops' \in 0..MaxStops /\ cancels' \in 0..MaxCancels /\ faults' \in 0..MaxFaults
    BY <1>1, <1>2, <1>3, Apart DEF Stopping, Cancelling, Failing, TypeRest
<1>5. conn' \in [Client -> BOOLEAN]
    <2>1. CASE UserStep
        BY <1>1, <2>1 DEF UserStep, Message, VoiceTurn, Abort, Reset, Leaves, Returns, SpeaksAgain,
               BargeIn, CancelActive, TypeRest
    <2> QED BY <1>1, <2>1, NextCases, GatewayKeeps, ReaderKeeps, ResumedKeeps, TaskKeeps,
            FailureKeeps
            DEF TurnEnds, TurnTimesOut, Reap, hub, vars, TypeRest
<1>6. forgotten' \subseteq Run
    <2>1. CASE Resumed
        BY <1>1, <2>1 DEF Resumed, MessageSent, AbortDone, ResetDone, VoiceSent, Fetched, DropRuns,
               TypeRest, history
    <2> QED BY <1>1, <2>1, NextCases, GatewayKeeps, UserKeeps, ReaderKeeps, TaskKeeps, FailureKeeps
            DEF TurnEnds, TurnTimesOut, Reap, history, vars, TypeRest
<1>7. missed' \subseteq Run
    BY <1>1, MissedStep DEF TypeRest
<1> QED BY <1>4, <1>5, <1>6, <1>7 DEF TypeRest

-----------------------------------------------------------------------------
(* The counts.                                                             *)

(* The deltas on the way change with what the gateway streams and what the *)
(* reader takes; a lost socket may lose some.                              *)
LEMMA DeltasStep ==
    ASSUME TypeOK, KnownInv, [Next]_vars, NEW r \in Run, NEW d \in Nat, Deltas(wire, r, d)
    PROVE  \/ /\ Reader /\ UNCHANGED emitted
              /\ d - Delta1(Head(wire), r) \in Nat
              /\ Deltas(wire', r, d - Delta1(Head(wire), r))
           \/ /\ ~Reader /\ emitted'[r] >= emitted[r]
              /\ Deltas(wire', r, d + (emitted'[r] - emitted[r]))
           \/ ~Reader /\ Lost /\ \E e \in 0..d : Deltas(wire', r, e)
<1>1. wire \in Seq(Frames) /\ emitted[r] \in Nat
    BY TypeParts DEF TypeFrames, TypeRuns
<1>2. CASE Reader
    <2>1. wire # <<>> /\ wire' = Tail(wire) /\ UNCHANGED emitted
        BY <1>2, ReaderKeeps DEF gateway
    <2> QED BY <1>1, <1>2, <2>1, DeltaTaken
<1>3. CASE ~Reader
    <2>1. UNCHANGED <<wire, emitted>> \/ Unwanted \/ Lost \/ \E f \in Frames : Arrives(f)
        BY <1>3, WireForm DEF KnownInv
    <2>2. CASE UNCHANGED <<wire, emitted>>
        <3>1. d + (emitted'[r] - emitted[r]) = d
            BY <1>1, <2>2
        <3>2. Deltas(wire', r, d + (emitted'[r] - emitted[r]))
            BY <2>2, <3>1
        <3> QED BY <1>1, <1>3, <2>2, <3>2
    <2>3. CASE Unwanted
        <3>1. PICK k \in 1 .. Len(wire) : wire[k].type # "event" /\ wire' = RemoveAt(wire, k)
            BY <2>3 DEF Unwanted
        <3>2. Deltas(wire', r, d)
            BY <1>1, <3>1, DeltaUnwanted
        <3>3. emitted'[r] = emitted[r] /\ d + (emitted'[r] - emitted[r]) = d
            BY <1>1, <2>3 DEF Unwanted
        <3>4. Deltas(wire', r, d + (emitted'[r] - emitted[r]))
            BY <3>2, <3>3
        <3> QED BY <1>1, <1>3, <3>3, <3>4
    <2>4. CASE Lost
        <3>1. PICK n \in 0 .. Len(wire) : wire' = SubSeq(wire, 1, n)
            BY <2>4 DEF Lost
        <3>2. \E e \in 0 .. d : Deltas(SubSeq(wire, 1, n), r, e)
            BY <1>1, DeltaCut
        <3> QED BY <1>3, <2>4, <3>1, <3>2
    <2>5. ASSUME NEW f \in Frames, Arrives(f)
          PROVE  emitted'[r] >= emitted[r] /\ Deltas(wire', r, d + (emitted'[r] - emitted[r]))
        <3>1. emitted'[r] = emitted[r] + Delta1(f, r) /\ wire' = Append(wire, f)
            BY <2>5 DEF Arrives
        <3>2. Delta1(f, r) \in {0, 1}
            BY DeltaNumber
        <3>3. emitted'[r] - emitted[r] = Delta1(f, r) /\ emitted'[r] >= emitted[r]
            BY <1>1, <3>1, <3>2
        <3>4. Deltas(Append(wire, f), r, d + Delta1(f, r))
            BY <1>1, DeltaAppended
        <3> QED BY <3>1, <3>3, <3>4
    <2> QED BY <1>3, <2>1, <2>2, <2>3, <2>4, <2>5
<1> QED BY <1>2, <1>3

(* What an entry counts grows by the delta that is read, or the entry is   *)
(* new or gone.                                                            *)
LEMMA AccStep ==
    ASSUME TypeOK, [Next]_vars, NEW r \in Run
    PROVE  /\ AccOf(active, r) \in Nat /\ AccOf(active', r) \in Nat
           /\ \/ AccOf(active', r) <= AccOf(active, r)
              \/ /\ Reader /\ Delta1(Head(wire), r) = 1
                 /\ AccOf(active', r) = AccOf(active, r) + 1
<1>1. TypeActive /\ TypeHandlers
    BY TypeParts
<1>2. AccOf(active, r) \in Nat /\ (active[r] # None => AccOf(active, r) = active[r].acc)
    BY <1>1 DEF TypeActive, Entries, AccOf
<1>3. CASE active'[r] = active[r]
    BY <1>2, <1>3 DEF AccOf
<1>4. CASE active'[r] = None
    BY <1>2, <1>4 DEF AccOf
<1>5. ASSUME NEW c, NEW pane, active'[r] = Entry(c, pane, 0)
      PROVE  AccOf(active', r) = 0
    BY <1>5 DEF AccOf, Entry
<1>6. CASE Reader \/ Resumed
    <2>1. ASSUME NEW a \in Actor, NEW c, NEW pane, pc[a] = "sending",
                 active' = [active EXCEPT ![sent[a]] = Entry(c, pane, 0)]
          PROVE  AccOf(active', r) = 0 \/ active'[r] = active[r]
        <3>1. CASE r = sent[a]
            BY <1>1, <1>5, <2>1, <3>1 DEF TypeActive
        <3>2. CASE r # sent[a]
            BY <1>1, <2>1, <3>2 DEF TypeActive
        <3> QED BY <3>1, <3>2
    <2>2. ASSUME NEW c \in Client, MessageSent(c)
          PROVE  AccOf(active', r) = 0 \/ active'[r] = active[r]
        BY <2>1, <2>2, Apart DEF MessageSent
    <2>3. ASSUME VoiceSent PROVE AccOf(active', r) = 0 \/ active'[r] = active[r]
        BY <2>1, <2>3, Apart DEF VoiceSent
    <2>4. ASSUME NEW c \in Client, AbortDone(c) PROVE active'[r] = None
        BY <2>4 DEF AbortDone, DropRuns
    <2>5. ASSUME NEW r2 \in Run, RunStarted(r2)
          PROVE  AccOf(active', r) = 0 \/ active'[r] = active[r]
        <3>1. CASE r = r2 /\ active'[r] = Entry(None, FALSE, 0)
            BY <1>5, <3>1
        <3>2. CASE ~ (r = r2 /\ active'[r] = Entry(None, FALSE, 0))
            BY <1>1, <2>5, <3>2 DEF RunStarted, TypeActive
        <3> QED BY <3>1, <3>2
    <2>6. ASSUME NEW r2 \in Run, Delta(r2)
          PROVE  \/ active'[r] \in {active[r], None}
                 \/ Reader /\ Delta1(Head(wire), r) = 1 /\ AccOf(active', r) = AccOf(active, r) + 1
        <3>1. CASE active[r2] # None /\ r = r2
            <4>1. active' = [active EXCEPT ![r].acc = @ + 1]
                BY <2>6, <3>1 DEF Delta
            <4>2. active'[r] = [active[r] EXCEPT !.acc = active[r].acc + 1]
                BY <1>1, <4>1 DEF TypeActive
            <4>3. active[r] \in Entries
                BY <1>1, <3>1 DEF TypeActive
            <4>4. active'[r].acc = active[r].acc + 1
                BY <4>2, <4>3 DEF Entries
            <4>5. Delta1(Head(wire), r) = 1
                BY <2>6, <3>1 DEF Delta, Reads, Delta1
            <4>6. CASE active'[r] = None
                BY <4>6
            <4>7. CASE active'[r] # None
                BY <1>2, <2>6, <3>1, <4>4, <4>5, <4>7 DEF AccOf, Reader
            <4> QED BY <4>6, <4>7
        <3>2. CASE ~ (active[r2] # None /\ r = r2)
            BY <1>1, <2>6, <3>2 DEF Delta, TypeActive
        <3> QED BY <3>1, <3>2
    <2>7. ASSUME \/ Resolves \/ \E c \in Client : ResetDone(c)
                 \/ \E r2 \in Run, state \in {"final", "aborted", "error"} : Terminal(r2, state)
                 \/ \E t \in fetching : Fetched(t)
          PROVE  active'[r] = active[r]
        BY <2>7 DEF Resolves, ResetDone, Terminal, Fetched
    <2>8. \/ AccOf(active', r) = 0 \/ active'[r] = active[r] \/ active'[r] = None
          \/ Reader /\ Delta1(Head(wire), r) = 1 /\ AccOf(active', r) = AccOf(active, r) + 1
        <3>1. CASE \E c \in Client : MessageSent(c) \/ AbortDone(c) \/ ResetDone(c)
            BY <2>2, <2>4, <2>7, <3>1
        <3>2. CASE \E r2 \in Run : RunStarted(r2) \/ Delta(r2)
            BY <2>5, <2>6, <3>2
        <3>3. CASE \/ Resolves
                   \/ \E r2 \in Run, state \in {"final", "aborted", "error"} : Terminal(r2, state)
                   \/ \E t \in fetching : Fetched(t)
            BY <2>7, <3>3
        <3> QED BY <1>6, <2>3, <3>1, <3>2, <3>3 DEF Reader, Resumed
    <2>9. CASE AccOf(active', r) = 0
        BY <1>2, <2>9
    <2> QED BY <1>2, <1>3, <1>4, <1>6, <2>8, <2>9
<1>7. CASE TaskStarts \/ \E r2 \in Run : Reap(r2)
    <2>1. active'[r] \in {active[r], None}
        BY <1>1, <1>7 DEF TaskStarts, Reap, TypeActive
    <2> QED BY <1>3, <1>4, <2>1
<1>8. CASE GatewayStep \/ UserStep \/ TurnEnds \/ TurnTimesOut \/ Failure \/ UNCHANGED vars
    <2>1. UNCHANGED active
        BY <1>8, GatewayKeeps, UserKeeps, FailureKeeps DEF TurnEnds, TurnTimesOut, hub, vars
    <2> QED BY <1>3, <2>1
<1> QED BY <1>6, <1>7, <1>8, NextCases

LEMMA CountStep ==
    ASSUME TypeOK, KnownInv, CountOK, [Next]_vars
    PROVE  CountOK'
<1> SUFFICES ASSUME NEW r \in Run
             PROVE  \E e \in Nat : Deltas(wire', r, e) /\ AccOf(active', r) + e <= emitted'[r]
    BY DEF CountOK, AccOf
<1>1. PICK d \in Nat : Deltas(wire, r, d) /\ AccOf(active, r) + d <= emitted[r]
    BY DEF CountOK
<1>2. emitted[r] \in Nat
    BY TypeParts DEF TypeRuns
<1>2a. emitted'[r] \in Nat
    BY RunsStep DEF TypeRuns
<1>3. /\ AccOf(active, r) \in Nat /\ AccOf(active', r) \in Nat
      /\ \/ AccOf(active', r) <= AccOf(active, r)
         \/ /\ Reader /\ Delta1(Head(wire), r) = 1
            /\ AccOf(active', r) = AccOf(active, r) + 1
    BY AccStep
<1>4. CASE /\ Reader /\ UNCHANGED emitted
           /\ d - Delta1(Head(wire), r) \in Nat
           /\ Deltas(wire', r, d - Delta1(Head(wire), r))
    <2> DEFINE e == d - Delta1(Head(wire), r)
    <2>1. Delta1(Head(wire), r) \in {0, 1}
        BY DeltaNumber
    <2>2. AccOf(active', r) + e <= emitted'[r]
        BY <1>1, <1>2, <1>3, <1>4, <2>1
    <2>3. e \in Nat /\ Deltas(wire', r, e)
        BY <1>4
    <2> HIDE DEF e
    <2> QED BY <2>2, <2>3
<1>5. CASE /\ ~Reader /\ emitted'[r] >= emitted[r]
           /\ Deltas(wire', r, d + (emitted'[r] - emitted[r]))
    <2> DEFINE e == d + (emitted'[r] - emitted[r])
    <2>1. e \in Nat
        BY <1>2, <1>2a, <1>5
    <2>2. AccOf(active', r) + e <= emitted'[r]
        BY <1>1, <1>2, <1>2a, <1>3, <1>5
    <2>3. Deltas(wire', r, e)
        BY <1>5
    <2> HIDE DEF e
    <2> QED BY <2>1, <2>2, <2>3
<1>6. CASE ~Reader /\ Lost /\ \E e \in 0..d : Deltas(wire', r, e)
    <2>1. PICK e \in 0..d : Deltas(wire', r, e)
        BY <1>6
    <2>2. e \in Nat /\ emitted'[r] = emitted[r]
        BY <1>6 DEF Lost
    <2>3. AccOf(active', r) + e <= emitted'[r]
        BY <1>1, <1>2, <1>3, <1>6, <2>2
    <2> QED BY <2>1, <2>2, <2>3
<1> QED BY <1>1, <1>4, <1>5, <1>6, DeltasStep

-----------------------------------------------------------------------------
(* What is tracked.                                                        *)

(* One more delta in an entry. *)
Longer(entry) == [entry EXCEPT !.acc = entry.acc + 1]

(* An entry stays, goes, counts a delta more, or is new: registered by the *)
(* handler that sent for the run, or found on the main session.            *)
EntryMoves(r) ==
    \/ active'[r] = active[r]
    \/ active'[r] = None
    \/ \E c \in Client \cup {None} : active'[r] = Entry(c, FALSE, 0) /\ Known(r) /\ key[r] = "main"
    \/ active'[r] = Entry(VoiceClient, TRUE, 0) /\ Known(r) /\ key[r] = VoiceKey
    \/ active[r] # None /\ active'[r] = Longer(active[r]) /\ active[r].acc < MaxDeltas

LEMMA EventRead ==
    ASSUME TypeOK, WireKnown, NEW r \in Run, NEW state, Reads(r, state)
    PROVE  /\ wire # <<>> /\ wire' = Tail(wire)
           /\ Head(wire) \in Events /\ FrameKnown(Head(wire)) /\ Known(r)
           /\ Head(wire).type = "event" /\ Head(wire).run = r /\ Head(wire).state = state
<1>1. /\ wire # <<>> /\ Head(wire).type = "event" /\ Head(wire).run = r
      /\ Head(wire).state = state /\ wire' = Tail(wire)
    BY DEF Reads
<1>2. wire \in Seq(Frames)
    BY TypeParts DEF TypeFrames
<1>3. 1 \in 1 .. Len(wire) /\ Head(wire) = wire[1] /\ Head(wire) \in Frames
    BY <1>1, <1>2
<1>4. FrameKnown(Head(wire))
    BY <1>3 DEF WireKnown
<1>5. Head(wire) \in Events
    BY <1>1, <1>3 DEF Frames, Replies
<1> QED BY <1>1, <1>4, <1>5 DEF FrameKnown

LEMMA ActiveMoves ==
    ASSUME HubInv, [Next]_vars
    PROVE  active' = [r \in Run |-> active'[r]] /\ \A r \in Run : EntryMoves(r)
<1>1. TypeActive /\ TypeHandlers /\ TypeRuns
    BY TypeParts DEF HubInv
<1>2. ASSUME UNCHANGED active
      PROVE  active' = [r \in Run |-> active'[r]] /\ \A r \in Run : EntryMoves(r)
    BY <1>1, <1>2 DEF TypeActive, EntryMoves
<1>3. CASE Reader \/ Resumed
    <2>1. ASSUME NEW c \in Client, MessageSent(c)
          PROVE  active' = [r \in Run |-> active'[r]] /\ \A r \in Run : EntryMoves(r)
        <3>1. active' = [active EXCEPT ![sent[c]] = Entry(c, FALSE, 0)] /\ pc[c] = "sending"
            BY <2>1 DEF MessageSent
        <3>2. sent[c] \in Run /\ Known(sent[c]) /\ key[sent[c]] = "main"
            BY <1>1, <3>1, Apart DEF TypeHandlers, HubInv, KnownInv, SentKnown
        <3> QED BY <1>1, <3>1, <3>2 DEF TypeActive, EntryMoves
    <2>2. ASSUME VoiceSent
          PROVE  active' = [r \in Run |-> active'[r]] /\ \A r \in Run : EntryMoves(r)
        <3>1. /\ active' = [active EXCEPT ![sent[Voice]] = Entry(VoiceClient, TRUE, 0)]
              /\ pc[Voice] = "sending"
            BY <2>2 DEF VoiceSent
        <3>2. sent[Voice] \in Run /\ Known(sent[Voice]) /\ key[sent[Voice]] = VoiceKey
            BY <1>1, <3>1, Apart DEF TypeHandlers, HubInv, KnownInv, SentKnown
        <3> QED BY <1>1, <3>1, <3>2 DEF TypeActive, EntryMoves
    <2>3. ASSUME NEW c \in Client, AbortDone(c)
          PROVE  active' = [r \in Run |-> active'[r]] /\ \A r \in Run : EntryMoves(r)
        BY <2>3 DEF AbortDone, DropRuns, EntryMoves
    <2>4. ASSUME NEW r2 \in Run, RunStarted(r2)
          PROVE  active' = [r \in Run |-> active'[r]] /\ \A r \in Run : EntryMoves(r)
        <3>1. Known(r2)
            BY <2>4, EventRead DEF RunStarted, HubInv, KnownInv
        <3>2. CASE active[r2] = None /\ Relayed(r2)
            <4>1. active' = [active EXCEPT ![r2] = Entry(None, FALSE, 0)] /\ key[r2] = "main"
                BY <2>4, <3>2 DEF RunStarted, Relayed
            <4> QED BY <1>1, <3>1, <4>1 DEF TypeActive, EntryMoves
        <3>3. CASE ~ (active[r2] = None /\ Relayed(r2))
            BY <1>2, <2>4, <3>3 DEF RunStarted
        <3> QED BY <3>2, <3>3
    <2>5. ASSUME NEW r2 \in Run, Delta(r2)
          PROVE  active' = [r \in Run |-> active'[r]] /\ \A r \in Run : EntryMoves(r)
        <3>1. CASE active[r2] # None
            <4>1. active' = [active EXCEPT ![r2].acc = @ + 1]
                BY <2>5, <3>1 DEF Delta
            <4>2. active'[r2] = Longer(active[r2])
                BY <1>1, <4>1 DEF TypeActive, Longer
            <4>3. active[r2].acc < MaxDeltas
                <5>1. Reads(r2, "delta")
                    BY <2>5 DEF Delta
                <5>2. wire # <<>> /\ Delta1(Head(wire), r2) = 1
                    BY <5>1 DEF Reads, Delta1
                <5>3. PICK d \in Nat : Deltas(wire, r2, d) /\ AccOf(active, r2) + d <= emitted[r2]
                    BY DEF HubInv, CountOK
                <5>4. d - 1 \in Nat
                    BY <5>2, <5>3, DeltaTaken, TypeParts DEF HubInv, TypeFrames
                <5>5. active[r2].acc \in Nat /\ AccOf(active, r2) = active[r2].acc
                    BY <1>1, <3>1 DEF TypeActive, Entries, AccOf
                <5>6. emitted[r2] \in 0..MaxDeltas
                    BY <1>1 DEF TypeRuns
                <5> QED BY <5>3, <5>4, <5>5, <5>6, Apart
            <4>4. \A r \in Run : r # r2 => active'[r] = active[r]
                BY <1>1, <4>1 DEF TypeActive
            <4>5. active' = [r \in Run |-> active'[r]]
                BY <1>1, <4>1 DEF TypeActive
            <4> QED BY <3>1, <4>2, <4>3, <4>4, <4>5 DEF EntryMoves
        <3>2. CASE active[r2] = None
            BY <1>2, <2>5, <3>2 DEF Delta
        <3> QED BY <3>1, <3>2
    <2>6. CASE \/ Resolves \/ \E c \in Client : ResetDone(c)
               \/ \E r2 \in Run, state \in {"final", "aborted", "error"} : Terminal(r2, state)
               \/ \E t \in fetching : Fetched(t)
        BY <1>2, <2>6 DEF Resolves, ResetDone, Terminal, Fetched
    <2>7. CASE \E c \in Client : MessageSent(c) \/ AbortDone(c)
        BY <2>1, <2>3, <2>7
    <2>8. CASE \E r2 \in Run : RunStarted(r2) \/ Delta(r2)
        BY <2>4, <2>5, <2>8
    <2> QED BY <1>3, <2>2, <2>6, <2>7, <2>8 DEF Reader, Resumed
<1>4. CASE TaskStarts
    <2>1. active' = [active EXCEPT ![Head(tasks).run] = None]
        BY <1>4 DEF TaskStarts
    <2> QED BY <1>1, <2>1 DEF TypeActive, EntryMoves
<1>5. CASE \E r2 \in Run : Reap(r2)
    <2>1. PICK r2 \in Run : active' = [active EXCEPT ![r2] = None]
        BY <1>5 DEF Reap
    <2> QED BY <1>1, <2>1 DEF TypeActive, EntryMoves
<1>6. CASE GatewayStep \/ UserStep \/ TurnEnds \/ TurnTimesOut \/ Failure \/ UNCHANGED vars
    <2>1. UNCHANGED active
        BY <1>6, GatewayKeeps, UserKeeps, FailureKeeps DEF TurnEnds, TurnTimesOut, hub, vars
    <2> QED BY <1>2, <2>1
<1> QED BY <1>3, <1>4, <1>5, <1>6, NextCases

LEMMA ActiveStep ==
    ASSUME HubInv, [Next]_vars
    PROVE  TypeActive' /\ ActiveKnown'
<1> SUFFICES ASSUME NEW r \in Run
             PROVE  /\ active'[r] \in Entries \cup {None}
                    /\ active'[r] # None /\ active'[r].pane => active'[r].client = VoiceClient
                    /\ active'[r] # None =>
                          /\ phase'[r] # "free"
                          /\ key'[r] = IF active'[r].pane THEN VoiceKey ELSE "main"
    BY ActiveMoves DEF TypeActive, ActiveKnown, Known
<1>1. /\ active[r] \in Entries \cup {None}
      /\ active[r] # None /\ active[r].pane => active[r].client = VoiceClient
      /\ active[r] # None => Known(r) /\ key[r] = IF active[r].pane THEN VoiceKey ELSE "main"
    BY TypeParts DEF HubInv, TypeActive, KnownInv, ActiveKnown
<1>2. Known(r) => phase'[r] # "free" /\ key'[r] = key[r]
    BY RunsStay DEF KnownStays, HubInv
<1>3. EntryMoves(r)
    BY ActiveMoves
<1>4. CASE active'[r] = active[r] \/ active'[r] = None
    BY <1>1, <1>2, <1>4
<1>5. ASSUME NEW c \in Client \cup {None}, active'[r] = Entry(c, FALSE, 0), Known(r),
             key[r] = "main"
      PROVE  /\ active'[r] \in Entries
             /\ active'[r] # None /\ active'[r].pane => active'[r].client = VoiceClient
             /\ active'[r] # None =>
                   /\ phase'[r] # "free"
                   /\ key'[r] = IF active'[r].pane THEN VoiceKey ELSE "main"
    BY <1>2, <1>5, Apart DEF Entry, Entries
<1>6. CASE active'[r] = Entry(VoiceClient, TRUE, 0) /\ Known(r) /\ key[r] = VoiceKey
    BY <1>2, <1>6, Apart DEF Entry, Entries
<1>7. CASE active[r] # None /\ active'[r] = Longer(active[r]) /\ active[r].acc < MaxDeltas
    <2>1. /\ active[r] \in Entries /\ active[r].acc + 1 \in 0..MaxDeltas
        BY <1>1, <1>7, Apart DEF Entries
    <2>2. /\ active'[r] \in Entries /\ active'[r].pane = active[r].pane
          /\ active'[r].client = active[r].client
        BY <1>7, <2>1 DEF Longer, Entries
    <2> QED BY <1>1, <1>2, <1>7, <2>2
<1> QED BY <1>3, <1>4, <1>5, <1>6, <1>7 DEF EntryMoves

-----------------------------------------------------------------------------
(* The histories on their way.                                             *)

LEMMA SameServed ==
    ASSUME NEW a, NEW b, Histories(a) = Histories(b)
    PROVE  Served(a) = Served(b) /\ (OneEach(b) => OneEach(a))
BY DEF Served, OneEach

LEMMA HistoryWithin ==
    ASSUME NEW w, NEW v, NEW k, Within(v, w, k), NEW open, HistoryOK(w, open), NEW rest,
           Len(v) \in Nat,
           \A i \in 1 .. Len(w) : i # k /\ IsHistory(w[i]) => w[i].task \in rest
    PROVE  HistoryOK(v, rest)
<1>1. PICK g \in [1 .. Len(v) -> 1 .. Len(w)] :
         /\ \A i \in 1 .. Len(v) : g[i] # k /\ v[i] = w[g[i]]
         /\ \A i, j \in 1 .. Len(v) : i < j => g[i] < g[j]
    BY DEF Within
<1>2. ASSUME NEW i \in 1 .. Len(v), IsHistory(v[i]) PROVE v[i].task \in rest
    BY <1>1, <1>2
<1>3. ASSUME NEW i \in 1 .. Len(v), NEW j \in 1 .. Len(v),
             IsHistory(v[i]), IsHistory(v[j]), v[i].task = v[j].task, i # j
      PROVE  FALSE
    <2>1. g[i] = g[j]
        BY <1>1, <1>3 DEF HistoryOK
    <2>2. i < j \/ j < i
        BY <1>3
    <2>3. ~ (g[i] < g[i])
        OBVIOUS
    <2> QED BY <1>1, <2>1, <2>2, <2>3
<1> QED BY <1>2, <1>3 DEF HistoryOK

LEMMA HistoryAppended ==
    ASSUME NEW w \in Seq(Frames), NEW f, NEW open, HistoryOK(w, open), NEW rest, f \in Frames,
           open \subseteq rest, IsHistory(f) => f.task \in rest \ open
    PROVE  HistoryOK(Append(w, f), rest)
<1> DEFINE v == Append(w, f)
<1>1. /\ Len(v) = Len(w) + 1 /\ Len(w) \in Nat /\ v[Len(w) + 1] = f
      /\ \A i \in 1 .. Len(w) : v[i] = w[i]
    OBVIOUS
<1> HIDE DEF v
<1>2. ASSUME NEW i \in 1 .. Len(v), IsHistory(v[i]) PROVE v[i].task \in rest
    BY <1>1, <1>2 DEF HistoryOK
<1>3. ASSUME NEW i \in 1 .. Len(v), NEW j \in 1 .. Len(v),
             IsHistory(v[i]), IsHistory(v[j]), v[i].task = v[j].task
      PROVE  i = j
    <2>1. CASE i \in 1 .. Len(w) /\ j \in 1 .. Len(w)
        BY <1>1, <1>3, <2>1 DEF HistoryOK
    <2>2. CASE i = Len(w) + 1 /\ j \in 1 .. Len(w)
        BY <1>1, <1>3, <2>2 DEF HistoryOK
    <2>3. CASE i \in 1 .. Len(w) /\ j = Len(w) + 1
        BY <1>1, <1>3, <2>3 DEF HistoryOK
    <2>4. CASE i = Len(w) + 1 /\ j = Len(w) + 1
        BY <2>4
    <2> QED BY <1>1, <2>1, <2>2, <2>3, <2>4
<1> QED BY <1>2, <1>3 DEF HistoryOK, v

(* What the lost socket leaves. *)
LEMMA HistoryCut ==
    ASSUME NEW w \in Seq(Frames), NEW n \in 0 .. Len(w), NEW open, HistoryOK(w, open), NEW rest,
           \A i \in 1 .. n : IsHistory(w[i]) => w[i].task \in rest
    PROVE  HistoryOK(SubSeq(w, 1, n), rest)
<1> DEFINE v == SubSeq(w, 1, n)
<1>1. /\ Len(v) = n /\ \A i \in 1 .. n : v[i] = w[i] /\ i \in 1 .. Len(w)
    OBVIOUS
<1> HIDE DEF v
<1>2. HistoryOK(v, rest)
    BY <1>1 DEF HistoryOK
<1> QED BY <1>2 DEF v

(* A step that opens and closes no request for a history. *)
LEMMA HistoryKeeps ==
    ASSUME TypeOK, HistoryInv, UNCHANGED <<fetching, asked>>,
           Histories(answers') = Histories(answers),
           \/ UNCHANGED wire
           \/ wire # <<>> /\ wire' = Tail(wire)
           \/ \E k \in 1 .. Len(wire) : wire' = RemoveAt(wire, k)
           \/ \E f \in Frames : wire' = Append(wire, f) /\ ~ IsHistory(f)
    PROVE  HistoryInv'
<1> DEFINE open == (fetching \ asked) \ Served(answers)
<1>1. wire \in Seq(Frames) /\ HistoryOK(wire, open)
    BY TypeParts DEF TypeFrames, HistoryInv
<1>2. SUFFICES HistoryOK(wire', open)
    BY SameServed DEF HistoryInv
<1> HIDE DEF open
<1>3. \A i \in 1 .. Len(wire) : IsHistory(wire[i]) => wire[i].task \in open
    BY <1>1 DEF HistoryOK
<1>4. CASE UNCHANGED wire
    BY <1>1, <1>4
<1>5. CASE wire # <<>> /\ wire' = Tail(wire)
    <2>1. Within(wire', wire, 1) /\ Len(wire') \in Nat
        BY <1>1, <1>5, WithinTail
    <2> QED BY <1>1, <1>3, <2>1, HistoryWithin
<1>6. CASE \E k \in 1 .. Len(wire) : wire' = RemoveAt(wire, k)
    <2>1. PICK k \in 1 .. Len(wire) : wire' = RemoveAt(wire, k)
        BY <1>6
    <2>2. Within(wire', wire, k)
        BY <1>1, <2>1, WithinRemoved
    <2>3. Len(wire') \in Nat
        BY <1>1, <2>1, RemovedAt
    <2> QED BY <1>1, <1>3, <2>2, <2>3, HistoryWithin
<1>7. CASE \E f \in Frames : wire' = Append(wire, f) /\ ~ IsHistory(f)
    BY <1>1, <1>7, HistoryAppended
<1> QED BY <1>4, <1>5, <1>6, <1>7

(* A new task is none of those that wait. *)
LEMMA TaskIsNew ==
    ASSUME TypeOK, KnownInv, NEW e
    PROVE  Task(e) \notin fetching
<1> DEFINE nth == CHOOSE n \in 0..Cardinality(fetching) :
                        \A t \in fetching : t.run = e.run => t.nth # n
<1>1. \A t \in fetching : t.run = e.run => t.nth # nth
    BY TaskNumber DEF KnownInv, FetchingKnown
<1>2. Task(e) = [run |-> e.run, state |-> e.state, entry |-> active[e.run],
                 key |-> DeliveryKey(e.run, active[e.run]), nth |-> nth]
    BY DEF Task
<1> HIDE DEF nth
<1>3. Task(e).run = e.run /\ Task(e).nth = nth
    BY <1>2
<1> QED BY <1>1, <1>3

LEMMA FramesStep ==
    ASSUME HubInv, [Next]_vars
    PROVE  TypeFrames' /\ HistoryInv'
<1> DEFINE Open == (fetching \ asked) \ Served(answers)
<1>1. /\ wire \in Seq(Frames) /\ asked \subseteq fetching /\ fetching \subseteq Tasks
      /\ HistoryInv /\ HistoryOK(wire, Open) /\ OneEach(answers)
      /\ Served(answers) \subseteq fetching \ asked /\ TypeOK /\ KnownInv
    BY TypeParts DEF HubInv, TypeFrames, HistoryInv
<1>2. wire' \in Seq(Frames) /\ answers' \subseteq Replies
    BY <1>1, WireStep, AnswersStep DEF KnownInv
<1>3. \A i \in 1 .. Len(wire) : IsHistory(wire[i]) => wire[i].task \in Open
    BY <1>1 DEF HistoryOK
<1> HIDE DEF Open
<1>4. ASSUME UNCHANGED <<fetching, asked, wire>>, Histories(answers') = Histories(answers)
      PROVE  TypeFrames' /\ HistoryInv'
    BY <1>1, <1>2, <1>4, HistoryKeeps DEF TypeFrames
<1>5. ASSUME NEW a, UNCHANGED <<fetching, asked>>, Deafens(a)
      PROVE  TypeFrames' /\ HistoryInv'
    <2>1. UNCHANGED wire \/ \E k \in 1 .. Len(wire) : wire' = RemoveAt(wire, k)
        BY <1>1, <1>5, UnheededFrames DEF Deafens
    <2>2. Histories(answers') = Histories(answers)
        BY <1>5 DEF Deafens, Histories, IsHistory, Response
    <2>3. HistoryInv'
        BY <1>1, <1>5, <2>1, <2>2, HistoryKeeps
    <2> QED BY <1>1, <1>2, <1>5, <2>3 DEF TypeFrames
<1>6. CASE GatewayStep
    <2>1. ASSUME NEW f, f.type # "history", Emit(f), UNCHANGED <<fetching, asked, answers>>
          PROVE  TypeFrames' /\ HistoryInv'
        <3>1. f \in Frames
            <4>1. wire' = Append(wire, f) /\ wire'[Len(wire) + 1] = f
                BY <1>1, <2>1 DEF Emit
            <4>2. Len(wire') = Len(wire) + 1 /\ Len(wire) \in Nat
                BY <1>1, <4>1
            <4> QED BY <1>2, <4>1, <4>2
        <3>2. HistoryInv'
            BY <1>1, <2>1, <3>1, HistoryKeeps DEF Emit, IsHistory
        <3> QED BY <1>1, <1>2, <2>1, <3>2 DEF TypeFrames
    <2>2. ASSUME NEW t \in asked, AnswerHistory(t)
          PROVE  TypeFrames' /\ HistoryInv'
        <3>1. PICK text : Emit(LastReply(t, text))
            BY <2>2 DEF AnswerHistory
        <3> DEFINE f == LastReply(t, text)
        <3>2. f.type = "history" /\ f.task = t
            BY DEF LastReply
        <3> HIDE DEF f
        <3>3. wire' = Append(wire, f)
            BY <3>1 DEF Emit, f
        <3>4. f \in Frames
            <4>1. wire'[Len(wire) + 1] = f /\ Len(wire') = Len(wire) + 1 /\ Len(wire) \in Nat
                BY <1>1, <3>3
            <4> QED BY <1>2, <4>1
        <3>5. asked' = asked \ {t} /\ UNCHANGED <<fetching, answers>>
            BY <2>2 DEF AnswerHistory, hub
        <3> DEFINE rest == (fetching \ asked') \ Served(answers)
        <3>6. Open \subseteq rest /\ f.task \in rest \ Open
            BY <1>1, <2>2, <3>2, <3>5 DEF Open
        <3> HIDE DEF rest
        <3>7. HistoryOK(wire', rest)
            BY <1>1, <3>3, <3>4, <3>6, HistoryAppended
        <3>8. Served(answers) \subseteq fetching' \ asked'
            BY <1>1, <3>5
        <3> QED BY <1>1, <1>2, <3>5, <3>7, <3>8 DEF TypeFrames, HistoryInv, rest
    <2>3. ASSUME NEW r \in Run, NEW k \in {"main", "cron"}, OtherRun(r, k)
          PROVE  TypeFrames' /\ HistoryInv'
        BY <1>4, <2>3 DEF OtherRun, hub
    <2>4. ASSUME \/ \E a \in Actor : AnswerSend(a)
                 \/ \E c \in Client : AnswerAbort(c) \/ AnswerReset(c)
          PROVE  TypeFrames' /\ HistoryInv'
        BY <2>1, <2>4 DEF AnswerSend, AnswerAbort, AnswerReset, Answers, Response, hub
    <2>5. ASSUME \/ \E r \in Run : Starts(r) \/ Streams(r) \/ RunEnds(r)
                 \/ \E r \in Run, inline \in BOOLEAN : Replays(r, inline)
          PROVE  TypeFrames' /\ HistoryInv'
        BY <2>1, <2>5 DEF Starts, Streams, RunEnds, Final, Aborted, Errs, Replays, Event, hub
    <2> QED BY <1>6, <2>2, <2>3, <2>4, <2>5 DEF GatewayStep
<1>7. CASE UserStep
    <2>1. CASE SpeaksAgain \/ BargeIn
        BY <1>5, <1>7, <2>1, UserKeeps DEF SpeaksAgain, BargeIn, CancelActive
    <2>2. CASE \/ \E c \in Client, r \in Run : Message(c, r) \/ VoiceTurn(r)
               \/ \E c \in Client : Abort(c) \/ Reset(c) \/ Leaves(c) \/ Returns(c)
        BY <1>4, <1>7, <2>2, UserKeeps DEF Message, VoiceTurn, Abort, Reset, Leaves, Returns
    <2> QED BY <1>7, <2>1, <2>2, Apart DEF UserStep
<1>8. CASE Reader
    <2>1. wire # <<>> /\ wire' = Tail(wire) /\ UNCHANGED <<asked, fetching>>
        BY <1>8, ReaderKeeps
    <2>2. ASSUME Histories(answers') = Histories(answers) PROVE TypeFrames' /\ HistoryInv'
        BY <1>1, <1>2, <2>1, <2>2, HistoryKeeps DEF TypeFrames
    <2>3. CASE Resolves /\ IsHistory(Head(wire))
        <3> DEFINE f == Head(wire)
        <3>1. f = wire[1] /\ IsHistory(f) /\ answers' = answers \cup {f} /\ 1 \in 1 .. Len(wire)
            BY <1>1, <2>1, <2>3 DEF Resolves
        <3> HIDE DEF f
        <3>2. f.task \in Open
            BY <1>3, <3>1
        <3>3. Histories(answers') = Histories(answers) \cup {f}
            BY <3>1 DEF Histories
        <3>4. Served(answers') = Served(answers) \cup {f.task}
            BY <3>3 DEF Served
        <3>5. OneEach(answers')
            BY <1>1, <3>2, <3>3 DEF OneEach, Served, Open
        <3>6. Served(answers') \subseteq fetching' \ asked'
            BY <1>1, <2>1, <3>2, <3>4 DEF Open
        <3> DEFINE rest == Open \ {f.task}
        <3>7. \A i \in 1 .. Len(wire) : i # 1 /\ IsHistory(wire[i]) => wire[i].task \in rest
            BY <1>1, <1>3, <3>1 DEF HistoryOK
        <3>8. Within(wire', wire, 1) /\ Len(wire') \in Nat
            BY <1>1, <2>1, WithinTail
        <3> HIDE DEF rest
        <3>9. HistoryOK(wire', rest)
            BY <1>1, <3>7, <3>8, HistoryWithin
        <3>10. rest = (fetching' \ asked') \ Served(answers')
            BY <2>1, <3>4 DEF rest, Open
        <3> QED BY <1>1, <1>2, <2>1, <3>5, <3>6, <3>9, <3>10 DEF TypeFrames, HistoryInv
    <2>4. CASE Resolves /\ ~IsHistory(Head(wire))
        <3>1. Histories(answers') = Histories(answers)
            BY <2>4 DEF Resolves, Histories
        <3> QED BY <2>2, <3>1
    <2>5. CASE \/ \E r \in Run : RunStarted(r) \/ Delta(r)
               \/ \E r \in Run, state \in {"final", "aborted", "error"} : Terminal(r, state)
        <3>1. UNCHANGED answers
            BY <2>5 DEF RunStarted, Delta, Terminal, Reads
        <3> QED BY <2>2, <3>1
    <2> QED BY <1>8, <2>3, <2>4, <2>5 DEF Reader
<1>9. CASE Resumed
    <2>1. UNCHANGED <<wire, asked>>
        BY <1>9, ResumedKeeps
    <2>2. ASSUME NEW a, Resumes(Response(a)), UNCHANGED fetching PROVE TypeFrames' /\ HistoryInv'
        <3>1. Histories(answers') = Histories(answers)
            BY <2>2 DEF Resumes, Histories, IsHistory, Response
        <3> QED BY <1>4, <2>1, <2>2, <3>1
    <2>3. ASSUME NEW t \in fetching, Fetched(t) PROVE TypeFrames' /\ HistoryInv'
        <3>1. PICK f \in answers : IsHistory(f) /\ f.task = t /\ answers' = answers \ {f}
            BY <2>3 DEF Fetched, Resumes, IsHistory
        <3>2. fetching' = fetching \ {t}
            BY <2>3 DEF Fetched
        <3>3. Histories(answers') = Histories(answers) \ {f} /\ f \in Histories(answers)
            BY <3>1 DEF Histories
        <3>4. Served(answers') = Served(answers) \ {t} /\ t \in Served(answers)
            BY <1>1, <3>1, <3>3 DEF Served, OneEach
        <3>5. OneEach(answers')
            BY <1>1, <3>3 DEF OneEach
        <3>6. Served(answers') \subseteq fetching' \ asked' /\ asked' \subseteq fetching'
            BY <1>1, <2>1, <3>2, <3>4
        <3>7. (fetching' \ asked') \ Served(answers') = Open
            BY <2>1, <3>2, <3>4 DEF Open
        <3> QED BY <1>1, <1>2, <2>1, <3>2, <3>5, <3>6, <3>7 DEF TypeFrames, HistoryInv
    <2>4. CASE \/ \E c \in Client : MessageSent(c) \/ AbortDone(c) \/ ResetDone(c)
               \/ VoiceSent
        BY <2>2, <2>4 DEF MessageSent, AbortDone, ResetDone, VoiceSent
    <2> QED BY <1>9, <2>3, <2>4 DEF Resumed
<1>10. CASE TaskStarts
    <2>1. UNCHANGED <<wire, answers>>
        BY <1>10, TaskKeeps
    <2>2. CASE UNCHANGED <<fetching, asked>>
        BY <1>4, <2>1, <2>2
    <2>3. CASE /\ NeedsHistory(Head(tasks))
               /\ fetching' = fetching \cup {Task(Head(tasks))}
               /\ asked' = asked \cup {Task(Head(tasks))}
        <3>1. tasks # <<>>
            BY <1>10 DEF TaskStarts
        <3> DEFINE t == Task(Head(tasks))
        <3>2. t \in Tasks
            BY <1>1, <2>3, <3>1, StartedTask, TaskForm
        <3>3. t \notin fetching
            BY <1>1, TaskIsNew
        <3> HIDE DEF t
        <3>4. fetching' \ asked' = fetching \ asked
            BY <2>3, <3>3 DEF t
        <3>5. HistoryInv'
            BY <1>1, <2>1, <3>4 DEF HistoryInv
        <3>6. asked' \subseteq fetching' /\ fetching' \subseteq Tasks
            BY <1>1, <2>3, <3>2 DEF t
        <3> QED BY <1>2, <3>5, <3>6 DEF TypeFrames
    <2> QED BY <1>10, <2>2, <2>3 DEF TaskStarts
<1>11. CASE Failure
    <2>1. ASSUME NEW a \in Actor, NEW landed \in BOOLEAN, RequestFails(a, landed)
          PROVE  TypeFrames' /\ HistoryInv'
        BY <1>5, <2>1 DEF RequestFails
    <2>2. ASSUME NEW t \in fetching, FetchFails(t)
          PROVE  TypeFrames' /\ HistoryInv'
        <3>1. /\ wire' = Unfetched(t) /\ fetching' = fetching \ {t} /\ asked' = asked \ {t}
              /\ UNCHANGED answers
            BY <2>2 DEF FetchFails, Unfetched
        <3>2. t \notin Served(answers)
            BY <2>2 DEF FetchFails, Unanswered, Served, Histories, IsHistory
        <3> DEFINE rest == Open \ {t}
        <3>3. rest = (fetching' \ asked') \ Served(answers')
            BY <3>1 DEF Open
        <3>4. Served(answers') \subseteq fetching' \ asked' /\ asked' \subseteq fetching'
            BY <1>1, <3>1, <3>2
        <3>5. ASSUME HistoryOK(wire', rest) PROVE TypeFrames' /\ HistoryInv'
            <4> HIDE DEF rest
            <4> QED BY <1>1, <1>2, <3>1, <3>3, <3>4, <3>5 DEF TypeFrames, HistoryInv
        <3>6. CASE /\ wire' = wire
                   /\ \A i \in 1 .. Len(wire) : ~ (wire[i].type = "history" /\ wire[i].task = t)
            <4>1. Within(wire', wire, 0) /\ Len(wire') \in Nat
                BY <1>1, <3>6, WithinSame
            <4>2. \A i \in 1 .. Len(wire) : i # 0 /\ IsHistory(wire[i]) => wire[i].task \in rest
                BY <1>3, <3>6 DEF IsHistory
            <4> HIDE DEF rest
            <4> QED BY <1>1, <3>5, <4>1, <4>2, HistoryWithin
        <3>7. CASE \E k \in 1 .. Len(wire) :
                       /\ wire[k].type = "history" /\ wire[k].task = t
                       /\ wire' = RemoveAt(wire, k)
            <4>1. PICK k \in 1 .. Len(wire) :
                       /\ wire[k].type = "history" /\ wire[k].task = t
                       /\ wire' = RemoveAt(wire, k)
                BY <3>7
            <4>2. Within(wire', wire, k) /\ Len(wire') \in Nat
                BY <1>1, <4>1, WithinRemoved, RemovedAt
            <4>3. \A i \in 1 .. Len(wire) : i # k /\ IsHistory(wire[i]) => wire[i].task \in rest
                BY <1>1, <1>3, <4>1 DEF IsHistory, HistoryOK
            <4> HIDE DEF rest
            <4> QED BY <1>1, <3>5, <4>2, <4>3, HistoryWithin
        <3> QED BY <1>1, <3>1, <3>6, <3>7, UnfetchedFrames
    <2>3. ASSUME NEW n \in 0..Len(wire), SocketLost(n)
          PROVE  TypeFrames' /\ HistoryInv'
        <3> DEFINE kept == SubSeq(wire, 1, n)
                   failed == {t \in fetching : /\ Unanswered(t)
                                               /\ \A i \in 1..n : kept[i].type = "history" =>
                                                                      kept[i].task # t}
        <3>1. /\ wire' = kept /\ asked' = {} /\ UNCHANGED fetching
              /\ answers' = answers \cup {LastReply(t, None) : t \in failed}
            BY <2>3 DEF SocketLost
        <3>2. \A i \in 1..n : kept[i] = wire[i] /\ i \in 1 .. Len(wire)
            BY <1>1
        <3>3. /\ failed \subseteq fetching
              /\ \A t \in failed : t \notin Served(answers)
              /\ \A t \in failed : \A i \in 1..n : IsHistory(wire[i]) => wire[i].task # t
            BY <3>2 DEF Unanswered, Served, Histories, IsHistory
        <3>4. kept = SubSeq(wire, 1, n)
            OBVIOUS
        <3> HIDE DEF failed, kept
        <3>5. Histories(answers') = Histories(answers) \cup {LastReply(t, None) : t \in failed}
            BY <3>1 DEF Histories, IsHistory, LastReply
        <3>6. Served(answers') = Served(answers) \cup failed
            <4>1. \A t \in failed : LastReply(t, None).task = t
                BY DEF LastReply
            <4>2. Served(answers') = {f.task : f \in Histories(answers')}
                BY DEF Served
            <4>3. Served(answers) = {f.task : f \in Histories(answers)}
                BY DEF Served
            <4> QED BY <3>5, <4>1, <4>2, <4>3
        <3>7. OneEach(answers')
            BY <1>1, <3>3, <3>5 DEF OneEach, Served, LastReply
        <3>8. Served(answers') \subseteq fetching' \ asked'
            BY <1>1, <3>1, <3>3, <3>6
        <3> DEFINE rest == (fetching' \ asked') \ Served(answers')
        <3>9. \A i \in 1 .. n : IsHistory(wire[i]) => wire[i].task \in rest
            BY <1>3, <3>1, <3>2, <3>3, <3>6 DEF Open
        <3> HIDE DEF rest
        <3>10. HistoryOK(wire', rest)
            BY <1>1, <3>1, <3>4, <3>9, HistoryCut
        <3> QED BY <1>1, <1>2, <3>1, <3>7, <3>8, <3>10 DEF TypeFrames, HistoryInv, rest
    <2> QED BY <1>11, <2>1, <2>2, <2>3 DEF Failure
<1>12. CASE TurnEnds \/ TurnTimesOut \/ (\E r \in Run : Reap(r)) \/ UNCHANGED vars
    BY <1>4, <1>12 DEF TurnEnds, TurnTimesOut, Reap, vars, hub
<1> QED BY <1>6, <1>7, <1>8, <1>9, <1>10, <1>11, <1>12, NextCases

-----------------------------------------------------------------------------
(* What the gateway and the handlers know of the runs.                     *)

LEMMA LatestStep ==
    ASSUME TypeOK, LatestKnown, [Next]_vars
    PROVE  LatestKnown'
<1>1. TypeRuns /\ KnownStays
    BY TypeParts, RunsStay
<1>2. ASSUME \A k \in Key : \/ latest'[k] \in {latest[k], None}
                            \/ latest'[k] \in Run /\ Known(latest'[k]) /\ key[latest'[k]] = k
      PROVE  LatestKnown'
    <2>1. SUFFICES ASSUME NEW k \in Key, latest'[k] # None
                   PROVE  phase'[latest'[k]] # "free" /\ key'[latest'[k]] = k
        BY DEF LatestKnown, Known
    <2>2. latest'[k] \in Run /\ Known(latest'[k]) /\ key[latest'[k]] = k
        BY <1>1, <1>2, <2>1 DEF LatestKnown, TypeRuns
    <2> QED BY <1>1, <2>2 DEF KnownStays
<1>3. CASE UNCHANGED latest
    BY <1>2, <1>3
<1>4. CASE latest' = [latest EXCEPT !["main"] = None]
    BY <1>1, <1>2, <1>4 DEF TypeRuns
<1>5. ASSUME NEW r \in Run, NEW replied \in BOOLEAN, NEW inline \in BOOLEAN,
             Final(r, replied, inline)
      PROVE  LatestKnown'
    <2>1. Known(r) /\ key[r] \in Key
        BY <1>1, <1>5 DEF Final, Known, TypeRuns
    <2>2. CASE replied
        <3>1. latest' = [latest EXCEPT ![key[r]] = r]
            BY <1>5, <2>2 DEF Final
        <3> QED BY <1>1, <1>2, <2>1, <3>1 DEF TypeRuns
    <2>3. CASE ~replied
        BY <1>3, <1>5, <2>3 DEF Final
    <2> QED BY <2>2, <2>3
<1>6. CASE GatewayStep
    <2>1. \/ UNCHANGED latest \/ latest' = [latest EXCEPT !["main"] = None]
          \/ \E r \in Run, replied, inline \in BOOLEAN : Final(r, replied, inline)
        BY <1>6 DEF GatewayStep, OtherRun, Accepts, AnswerSend, AnswerAbort, AnswerReset, Starts,
               Streams, RunEnds, Aborted, Errs, Replays, AnswerHistory, gateway
    <2> QED BY <1>3, <1>4, <1>5, <2>1
<1>7. CASE Failure
    <2>1. UNCHANGED latest \/ latest' = [latest EXCEPT !["main"] = None]
        BY <1>7 DEF Failure, RequestFails, FetchFails, SocketLost, gateway
    <2> QED BY <1>3, <1>4, <2>1
<1>8. CASE UserStep \/ Reader \/ Resumed \/ TaskStarts \/ TurnEnds \/ TurnTimesOut
           \/ (\E r \in Run : Reap(r)) \/ UNCHANGED vars
    <2>1. UNCHANGED latest
        BY <1>8, UserKeeps, ReaderKeeps, ResumedKeeps, TaskKeeps
        DEF TurnEnds, TurnTimesOut, Reap, gateway, vars
    <2> QED BY <1>3, <2>1
<1> QED BY <1>6, <1>7, <1>8, NextCases

(* A handler keeps its run, gives it up, or has just started it. *)
LEMMA SentStep ==
    ASSUME TypeOK, SentKnown, [Next]_vars
    PROVE  SentKnown'
<1>1. TypeRuns /\ TypeHandlers /\ KnownStays
    BY TypeParts, RunsStay
<1> DEFINE Own(a, r) == /\ phase'[r] # "free"
                        /\ key'[r] = IF a = Voice THEN VoiceKey ELSE "main"
                        /\ kind'[r] = IF a = Voice THEN "voice" ELSE "chat"
<1>2. ASSUME \A a \in Actor : sent'[a] \in {sent[a], None} \/ Own(a, sent'[a])
      PROVE  SentKnown'
    <2>1. SUFFICES ASSUME NEW a \in Actor, sent'[a] # None PROVE Own(a, sent'[a])
        BY DEF SentKnown, Known
    <2>2. ASSUME sent'[a] = sent[a] PROVE Own(a, sent'[a])
        <3>1. sent[a] \in Run
            BY <1>1, <2>1, <2>2 DEF TypeHandlers
        <3> QED BY <1>1, <2>1, <2>2, <3>1 DEF SentKnown, KnownStays
    <2> HIDE DEF Own
    <2> QED BY <1>2, <2>1, <2>2
<1>3. ASSUME NEW a \in Actor, NEW r \in Run, NEW kd, NEW k, Sends(a, r, kd, k),
             kd = IF a = Voice THEN "voice" ELSE "chat", k = IF a = Voice THEN VoiceKey ELSE "main"
      PROVE  SentKnown'
    <2>1. /\ phase'[r] # "free" /\ kind'[r] = kd /\ key'[r] = k
          /\ sent' = [sent EXCEPT ![a] = r]
        BY <1>1, <1>3 DEF Sends, Accepts, TypeRuns
    <2>2. \A b \in Actor : IF b = a THEN sent'[b] = r ELSE sent'[b] = sent[b]
        BY <1>1, <2>1 DEF TypeHandlers
    <2>3. Own(a, r)
        BY <1>3, <2>1
    <2> HIDE DEF Own
    <2> QED BY <1>2, <2>2, <2>3
<1>4. ASSUME \A a \in Actor : sent'[a] \in {sent[a], None} PROVE SentKnown'
    BY <1>2, <1>4
<1> HIDE DEF Own
<1>5. CASE UserStep
    <2>1. ASSUME NEW c \in Client, NEW r \in Run, Message(c, r) PROVE SentKnown'
        BY <1>3, <2>1, Apart DEF Message
    <2>2. ASSUME NEW r \in Run, VoiceTurn(r) PROVE SentKnown'
        BY <1>3, <2>2, Apart DEF VoiceTurn
    <2>3. CASE \/ \E c \in Client : Abort(c) \/ Reset(c) \/ Leaves(c) \/ Returns(c)
               \/ SpeaksAgain \/ BargeIn
        BY <1>1, <1>4, <2>3 DEF Abort, Reset, Leaves, Returns, SpeaksAgain, BargeIn, CancelActive,
               TypeHandlers
    <2> QED BY <1>5, <2>1, <2>2, <2>3 DEF UserStep
<1>6. CASE Resumed
    <2>1. UNCHANGED sent \/ \E c \in Client : sent' = [sent EXCEPT ![c] = None]
        BY <1>6 DEF Resumed, MessageSent, AbortDone, ResetDone, VoiceSent, Fetched
    <2> QED BY <1>1, <1>4, <2>1 DEF TypeHandlers
<1>7. CASE Failure
    <2>1. UNCHANGED sent \/ (\E a \in Actor : sent' = [sent EXCEPT ![a] = None])
          \/ \A a \in Actor : sent'[a] \in {sent[a], None}
        <3>1. ASSUME NEW n \in 0..Len(wire), SocketLost(n)
              PROVE  \A a \in Actor : sent'[a] \in {sent[a], None}
            <4> DEFINE fails(a) == /\ pc[a] \in Asking /\ Response(a) \notin answers
                                   /\ ~Contains(SubSeq(wire, 1, n), Response(a))
            <4>1. sent' = [a \in Actor |-> IF fails(a) THEN None ELSE sent[a]]
                BY <3>1 DEF SocketLost
            <4> HIDE DEF fails
            <4> QED BY <4>1
        <3> QED BY <1>7, <3>1 DEF Failure, RequestFails, FetchFails
    <2> QED BY <1>1, <1>4, <2>1 DEF TypeHandlers
<1>8. CASE \/ GatewayStep \/ Reader \/ TaskStarts \/ TurnEnds \/ TurnTimesOut
           \/ \E r \in Run : Reap(r)
           \/ UNCHANGED vars
    <2>1. UNCHANGED sent \/ sent' = [sent EXCEPT ![Voice] = None]
        BY <1>8, GatewayKeeps, ReaderKeeps, TaskKeeps DEF TurnEnds, TurnTimesOut, Reap, hub, vars
    <2> QED BY <1>1, <1>4, <2>1 DEF TypeHandlers
<1> QED BY <1>5, <1>6, <1>7, <1>8, NextCases

(* The tasks that await a history are finitely many, and deliver into the  *)
(* session of their run.                                                   *)
LEMMA FetchingStep ==
    ASSUME HubInv, [Next]_vars
    PROVE  FetchingKnown'
<1>1. FetchingKnown /\ TypeOK /\ KnownInv
    BY DEF HubInv, KnownInv
<1>2. CASE UNCHANGED fetching
    BY <1>1, <1>2 DEF FetchingKnown
<1>3. ASSUME NEW t, fetching' = fetching \ {t} PROVE FetchingKnown'
    <2>1. IsFiniteSet(fetching')
        BY <1>1, <1>3, FS_RemoveElement DEF FetchingKnown
    <2> QED BY <1>1, <1>3, <2>1 DEF FetchingKnown
<1>4. ASSUME tasks # <<>>, fetching' = fetching \cup {Task(Head(tasks))} PROVE FetchingKnown'
    <2> DEFINE t == Task(Head(tasks))
    <2>1. /\ t.key = IF t.entry # None /\ t.entry.pane THEN VoiceKey ELSE "main"
          /\ Bound(t.entry)
        BY <1>1, <1>4, StartedTask, TaskForm
    <2> HIDE DEF t
    <2>2. fetching' = fetching \cup {t}
        BY <1>4 DEF t
    <2>3. IsFiniteSet(fetching')
        BY <1>1, <2>2, FS_AddElement DEF FetchingKnown
    <2> QED BY <1>1, <2>1, <2>2, <2>3 DEF FetchingKnown
<1>5. \/ UNCHANGED fetching
      \/ \E t \in fetching : fetching' = fetching \ {t}
      \/ tasks # <<>> /\ fetching' = fetching \cup {Task(Head(tasks))}
    <2>1. CASE Resumed
        BY <2>1 DEF Resumed, MessageSent, AbortDone, ResetDone, VoiceSent, Fetched
    <2>2. CASE TaskStarts
        BY <2>2 DEF TaskStarts
    <2>3. CASE Failure
        BY <2>3 DEF Failure, RequestFails, FetchFails, SocketLost
    <2> QED BY <2>1, <2>2, <2>3, NextCases, GatewayKeeps, UserKeeps, ReaderKeeps
            DEF TurnEnds, TurnTimesOut, Reap, hub, vars
<1> QED BY <1>2, <1>3, <1>4, <1>5

-----------------------------------------------------------------------------
(* What the panes hear.                                                    *)

(* What a pane is given is of the voice session or of the main one. *)
Heard == \A c \in Client, r \in Run :
            <<c, r>> \in heard' => <<c, r>> \in heard \/ (Known(r) /\ key[r] # "cron")

LEMMA NotCron ==
    ASSUME TypeOK, ActiveKnown, NEW r \in Run, Relayed(r)
    PROVE  key[r] # "cron"
BY Apart DEF ActiveKnown, Relayed

LEMMA DeltaHeard ==
    ASSUME HubInv, NEW r \in Run, Delta(r)
    PROVE  heard' \subseteq Client \X Run /\ Heard
<1>1. TypeReplies /\ TypeActive
    BY TypeParts DEF HubInv
<1>2. heard' = IF Relayed(r) THEN heard \cup {<<c, r>> : c \in ChunkTo(r)} ELSE heard
    BY DEF Delta
<1>3. ChunkTo(r) \subseteq Client
    BY <1>1, Apart DEF ChunkTo, Audience, TypeActive
<1>4. Known(r)
    BY EventRead DEF Delta, HubInv, KnownInv
<1>5. Relayed(r) => key[r] # "cron"
    BY NotCron DEF HubInv, KnownInv
<1>6. heard' \subseteq Client \X Run
    BY <1>1, <1>2, <1>3 DEF TypeReplies
<1>7. Heard
    BY <1>2, <1>4, <1>5 DEF Heard
<1> QED BY <1>6, <1>7

(* The three deliveries: at the start of a task, with the history, without *)
(* it.                                                                     *)
Typed ==
    /\ waiter' \in [Run -> {"none", "pending", "done"}]
    /\ last' \in [Key -> Texts \cup {None}]
    /\ heard' \subseteq Client \X Run

LEMMA StartDelivers ==
    ASSUME HubInv, TaskStarts
    PROVE  Typed /\ Heard
<1>1. TypeReplies /\ TypeRest /\ TypeOK /\ KnownInv /\ tasks # <<>>
    BY TypeParts DEF HubInv, TaskStarts
<1> DEFINE e == Head(tasks)
           text == OwnText(e, active[e.run])
           t == Task(e)
<1>2. UNCHANGED <<waiter, last, log, heard>> \/ Deliver(t, text)
    BY DEF TaskStarts
<1>3. CASE UNCHANGED <<waiter, last, log, heard>>
    BY <1>1, <1>3 DEF TypeReplies, Typed, Heard
<1>4. ASSUME Deliver(t, text) PROVE Typed /\ Heard
    <2>1. e \in Events /\ FrameKnown(e) /\ key[e.run] # "cron" /\ Known(e.run) /\ e.run \in Run
        BY <1>1, StartedTask
    <2>2. t.run \in Run /\ t.key \in Key /\ Bound(t.entry)
        BY <1>1, <2>1, TaskForm
    <2>3. text \in Texts \cup {None} /\ (text # None => text.of = e.run)
        BY <1>1, <2>1, OwnTextForm
    <2> HIDE DEF t, text, e
    <2>4. Typed /\ \A c, r : <<c, r>> \in heard' => \/ <<c, r>> \in heard
                                                    \/ text # None /\ r = text.of
        BY <1>1, <1>4, <2>2, <2>3, Delivered DEF TypeRest, Typed
    <2> QED BY <2>1, <2>3, <2>4 DEF Heard
<1> QED BY <1>2, <1>3, <1>4

LEMMA FetchDelivers ==
    ASSUME HubInv, NEW t \in fetching, Fetched(t) \/ FetchFails(t)
    PROVE  Typed /\ Heard
<1>1. TypeReplies /\ TypeRest /\ TypeFrames /\ KnownInv
    BY TypeParts DEF HubInv
<1>2. t.run \in Run /\ t.key \in Key /\ Bound(t.entry) /\ t.key # "cron"
    BY <1>1, Apart DEF TypeFrames, Tasks, KnownInv, FetchingKnown
<1>3. ASSUME NEW text \in Texts \cup {None}, Deliver(t, text), TextOf(text, t.key)
      PROVE  Typed /\ Heard
    <2>1. Typed /\ \A c, r : <<c, r>> \in heard' => \/ <<c, r>> \in heard
                                                    \/ text # None /\ r = text.of
        BY <1>1, <1>2, <1>3, Delivered DEF TypeRest, Typed
    <2> QED BY <1>2, <1>3, <2>1 DEF Heard, TextOf
<1>4. CASE Fetched(t)
    <2>1. PICK f \in answers : /\ f.type = "history" /\ f.task = t
                              /\ Deliver(t, Fresh(t.key, f.text))
        BY <1>4 DEF Fetched
    <2>3. FrameKnown(f)
        BY <1>1 DEF KnownInv, AnswersKnown
    <2>4. f.text \in Texts \cup {None}
        BY <1>1, <2>1 DEF TypeFrames, Replies
    <2>5. Fresh(t.key, f.text) \in {f.text, None}
        BY DEF Fresh
    <2>6. TextOf(f.text, t.key) /\ TextOf(None, t.key)
        BY <2>1, <2>3 DEF FrameKnown, TextOf
    <2> QED BY <1>3, <2>1, <2>4, <2>5, <2>6
<1>5. CASE FetchFails(t)
    BY <1>3, <1>5 DEF FetchFails, TextOf
<1> QED BY <1>4, <1>5

LEMMA RepliesStep ==
    ASSUME HubInv, [Next]_vars
    PROVE  TypeReplies' /\ Heard
<1>1. TypeReplies /\ TypeHandlers /\ TypeOK /\ KnownInv
    BY TypeParts DEF HubInv
<1>2. ASSUME waiter' \in [Run -> {"none", "pending", "done"}],
             last' \in [Key -> Texts \cup {None}], tasks' \in Seq(Events), UNCHANGED heard
      PROVE  TypeReplies' /\ Heard
    BY <1>1, <1>2 DEF TypeReplies, Heard
<1>3. CASE GatewayStep
    BY <1>1, <1>2, <1>3, GatewayKeeps DEF TypeReplies, hub
<1>4. CASE UserStep
    <2>1. UNCHANGED waiter \/ CancelActive
        BY <1>4
           DEF UserStep, Message, VoiceTurn, Abort, Reset, Leaves, Returns, SpeaksAgain, BargeIn
    <2>2. waiter' \in [Run -> {"none", "pending", "done"}]
        BY <1>1, <2>1 DEF CancelActive, TypeReplies
    <2> QED BY <1>1, <1>2, <1>4, <2>2, UserKeeps DEF TypeReplies
<1>5. CASE Reader \/ Resumed
    <2>1. ASSUME NEW c \in Client, MessageSent(c) \/ AbortDone(c) PROVE TypeReplies' /\ Heard
        BY <1>1, <1>2, <2>1 DEF MessageSent, AbortDone, TypeReplies, history
    <2>2. ASSUME NEW c \in Client, ResetDone(c) PROVE TypeReplies' /\ Heard
        <3>1. last' \in [Key -> Texts \cup {None}]
            BY <1>1, <2>2 DEF ResetDone, TypeReplies
        <3> QED BY <1>1, <1>2, <2>2, <3>1 DEF ResetDone, TypeReplies, history
    <2>3. CASE VoiceSent
        <3>1. waiter' \in [Run -> {"none", "pending", "done"}]
            BY <1>1, <2>3 DEF VoiceSent, TypeReplies
        <3> QED BY <1>1, <1>2, <2>3, <3>1 DEF VoiceSent, TypeReplies, history
    <2>4. ASSUME NEW r \in Run, RunStarted(r) PROVE TypeReplies' /\ Heard
        BY <1>1, <1>2, <2>4 DEF RunStarted, TypeReplies, history
    <2>5. ASSUME NEW r \in Run, Delta(r) PROVE TypeReplies' /\ Heard
        <3>1. heard' \subseteq Client \X Run /\ Heard
            BY <2>5, DeltaHeard
        <3> QED BY <1>1, <2>5, <3>1 DEF Delta, TypeReplies
    <2>6. ASSUME NEW r \in Run, NEW state \in {"final", "aborted", "error"}, Terminal(r, state)
          PROVE  TypeReplies' /\ Heard
        <3>1. Head(wire) \in Events
            BY <1>1, <2>6, EventRead DEF Terminal, KnownInv
        <3>2. tasks' \in Seq(Events)
            BY <1>1, <2>6, <3>1 DEF Terminal, TypeReplies
        <3> QED BY <1>1, <1>2, <2>6, <3>2 DEF Terminal, TypeReplies, history
    <2>7. ASSUME NEW t \in fetching, Fetched(t) PROVE TypeReplies' /\ Heard
        BY <1>1, <2>7, FetchDelivers DEF Fetched, TypeReplies, Typed
    <2>8. CASE Resolves
        BY <1>1, <1>2, <2>8 DEF Resolves, TypeReplies, history
    <2> QED BY <1>5, <2>1, <2>2, <2>3, <2>4, <2>5, <2>6, <2>7, <2>8 DEF Reader, Resumed
<1>6. CASE TaskStarts
    <2>1. Typed /\ Heard
        BY <1>6, StartDelivers
    <2>2. tasks' \in Seq(Events)
        BY <1>1, <1>6, StartedTask DEF TaskStarts
    <2> QED BY <2>1, <2>2 DEF TypeReplies, Typed
<1>7. CASE Failure
    <2>1. ASSUME NEW t \in fetching, FetchFails(t) PROVE TypeReplies' /\ Heard
        BY <1>1, <2>1, FetchDelivers DEF FetchFails, TypeReplies, Typed
    <2>2. CASE \/ \E a \in Actor, landed \in BOOLEAN : RequestFails(a, landed)
               \/ \E n \in 0..Len(wire) : SocketLost(n)
        BY <1>1, <1>2, <2>2 DEF RequestFails, SocketLost, TypeReplies
    <2> QED BY <1>7, <2>1, <2>2 DEF Failure
<1>8. CASE TurnEnds \/ TurnTimesOut \/ (\E r \in Run : Reap(r)) \/ UNCHANGED vars
    <2>1. waiter' \in [Run -> {"none", "pending", "done"}]
        BY <1>1, <1>8 DEF TurnEnds, TurnTimesOut, Reap, vars, hub, TypeReplies
    <2> QED BY <1>1, <1>2, <1>8, <2>1 DEF TurnEnds, TurnTimesOut, Reap, vars, hub, history,
               TypeReplies
<1> QED BY <1>3, <1>4, <1>5, <1>6, <1>7, <1>8, NextCases

LEMMA HeardStep ==
    ASSUME HubInv, [Next]_vars
    PROVE  HeardKnown'
<1>1. Heard /\ KnownStays /\ HeardKnown
    BY RepliesStep, RunsStay DEF HubInv, KnownInv
<1> SUFFICES ASSUME NEW r \in Run, NEW c \in Client, <<c, r>> \in heard'
             PROVE  phase'[r] # "free" /\ key'[r] # "cron"
    BY DEF HeardKnown, Known
<1>2. Known(r) /\ key[r] # "cron"
    BY <1>1 DEF Heard, HeardKnown
<1> QED BY <1>1, <1>2 DEF KnownStays

(* The tasks are of ends that were let through. *)
LEMMA TasksStep ==
    ASSUME HubInv, [Next]_vars
    PROVE  TasksKnown'
<1>1. TypeOK /\ KnownInv /\ TasksKnown /\ KnownStays /\ tasks \in Seq(Events)
    BY TypeParts, RunsStay DEF HubInv, KnownInv, TypeReplies
<1> DEFINE Ended(e) == /\ FrameKnown(e) /\ key[e.run] # "cron"
                       /\ e.state \in {"final", "aborted", "error"}
<1>2. ASSUME tasks' \in Seq(Events), \A i \in 1 .. Len(tasks') : Ended(tasks'[i])
      PROVE  TasksKnown'
    <2>1. SUFFICES ASSUME NEW i \in 1 .. Len(tasks')
                   PROVE  /\ (FrameKnown(tasks[i]))'
                          /\ key'[tasks'[i].run] # "cron"
                          /\ tasks'[i].state \in {"final", "aborted", "error"}
        BY DEF TasksKnown
    <2> DEFINE e == tasks'[i]
    <2>2. e \in Events /\ Ended(e)
        BY <1>2
    <2> HIDE DEF e
    <2>3. e.run \in Run /\ e.type = "event"
        BY <2>2 DEF Events
    <2>4. Known(e.run) /\ (e.text # None => e.text.of = e.run)
        BY <2>2, <2>3 DEF FrameKnown
    <2>5. phase'[e.run] # "free" /\ key'[e.run] = key[e.run]
        BY <1>1, <2>3, <2>4 DEF KnownStays
    <2>6. (FrameKnown(tasks[i]))'
        BY <2>3, <2>4, <2>5 DEF FrameKnown, Known, e
    <2> QED BY <2>2, <2>5, <2>6 DEF e
<1>3. \A i \in 1 .. Len(tasks) : Ended(tasks[i])
    BY <1>1 DEF TasksKnown
<1> HIDE DEF Ended
<1>4. CASE UNCHANGED tasks
    BY <1>1, <1>2, <1>3, <1>4
<1>5. CASE TaskStarts
    <2>1. tasks # <<>> /\ tasks' = Tail(tasks)
        BY <1>5 DEF TaskStarts
    <2>2. /\ tasks' \in Seq(Events)
          /\ \A i \in 1 .. Len(tasks') : i + 1 \in 1 .. Len(tasks) /\ tasks'[i] = tasks[i + 1]
        BY <1>1, <2>1, StartedTask
    <2> QED BY <1>2, <1>3, <2>2
<1>6. ASSUME NEW r \in Run, NEW state \in {"final", "aborted", "error"}, Terminal(r, state)
      PROVE  TasksKnown'
    <2>1. CASE ~Relayed(r)
        BY <1>4, <1>6, <2>1 DEF Terminal
    <2>2. CASE Relayed(r)
        <3> DEFINE f == Head(wire)
        <3>1. f \in Events /\ FrameKnown(f) /\ f.run = r /\ f.state = state
            BY <1>1, <1>6, EventRead DEF Terminal, KnownInv
        <3>2. tasks' = Append(tasks, f)
            BY <1>6, <2>2 DEF Terminal
        <3> HIDE DEF f
        <3>3. key[r] # "cron"
            BY <1>1, <2>2, NotCron DEF KnownInv
        <3>4. Ended(f)
            BY <3>1, <3>3 DEF Ended
        <3>5. /\ tasks' \in Seq(Events) /\ Len(tasks') = Len(tasks) + 1 /\ Len(tasks) \in Nat
              /\ tasks'[Len(tasks) + 1] = f /\ \A i \in 1 .. Len(tasks) : tasks'[i] = tasks[i]
            BY <1>1, <3>1, <3>2
        <3>6. \A i \in 1 .. Len(tasks') : i \in 1 .. Len(tasks) \/ i = Len(tasks) + 1
            BY <3>5
        <3>7. \A i \in 1 .. Len(tasks') : Ended(tasks'[i])
            BY <1>3, <3>4, <3>5, <3>6
        <3> QED BY <1>2, <3>5, <3>7
    <2> QED BY <2>1, <2>2
<1>7. \/ UNCHANGED tasks \/ TaskStarts
      \/ \E r \in Run, state \in {"final", "aborted", "error"} : Terminal(r, state)
    <2>1. CASE Reader
        BY <2>1 DEF Reader, Resolves, RunStarted, Delta
    <2> QED BY <2>1, NextCases, GatewayKeeps, UserKeeps, ResumedKeeps, FailureKeeps
            DEF TurnEnds, TurnTimesOut, Reap, hub, vars
<1> QED BY <1>4, <1>5, <1>6, <1>7

-----------------------------------------------------------------------------
(* The theorems.                                                           *)

LEMMA HubInit ==
    ASSUME Init
    PROVE  HubInv
<1>1. TypeRuns /\ TypeHandlers /\ TypeActive /\ TypeReplies /\ TypeRest
    BY Apart DEF Init, TypeRuns, TypeHandlers, TypeActive, TypeReplies, TypeRest, Phases, Key
<1>2. TypeFrames
    BY DEF Init, TypeFrames
<1>3. KnownInv
    <2>1. SentKnown /\ ActiveKnown /\ LatestKnown /\ HeardKnown
        BY DEF Init, SentKnown, ActiveKnown, LatestKnown, HeardKnown
    <2>2. Len(wire) = 0 /\ Len(tasks) = 0
        BY DEF Init
    <2>3. WireKnown /\ TasksKnown /\ AnswersKnown
        BY <2>2 DEF WireKnown, TasksKnown, Init, AnswersKnown
    <2>4. FetchingKnown
        BY FS_EmptySet DEF Init, FetchingKnown
    <2> QED BY <2>1, <2>3, <2>4 DEF KnownInv
<1>4. CountOK
    <2> SUFFICES ASSUME NEW r \in Run
                 PROVE  \E d \in Nat : Deltas(wire, r, d) /\ AccOf(active, r) + d <= emitted[r]
        BY DEF CountOK
    <2>1. wire = <<>> /\ AccOf(active, r) = 0 /\ emitted[r] = 0
        BY DEF Init, AccOf
    <2>2. Deltas(wire, r, 0)
        BY <2>1, NoDeltas
    <2>3. AccOf(active, r) + 0 <= emitted[r]
        BY <2>1
    <2> QED BY <2>2, <2>3
<1>5. HistoryInv
    <2>1. Len(wire) = 0
        BY DEF Init
    <2>2. Histories(answers) = {}
        BY DEF Init, Histories
    <2> QED BY <2>1, <2>2 DEF HistoryInv, HistoryOK, Served, OneEach
<1> QED BY <1>1, <1>2, <1>3, <1>4, <1>5, TypeParts DEF HubInv

LEMMA HubStep ==
    ASSUME HubInv, [Next]_vars
    PROVE  HubInv'
<1>1. TypeRuns' /\ TypeFrames' /\ TypeHandlers' /\ TypeActive' /\ TypeReplies' /\ TypeRest'
    BY RunsStep, FramesStep, HandlersStep, ActiveStep, RepliesStep, RestStep DEF HubInv
<1>2. TypeOK'
    BY <1>1 DEF TypeOK, TypeRuns, TypeFrames, TypeHandlers, TypeActive, TypeReplies, TypeRest,
            Phases
<1>3. SentKnown' /\ ActiveKnown' /\ TasksKnown' /\ FetchingKnown' /\ HeardKnown'
    BY SentStep, ActiveStep, TasksStep, FetchingStep, HeardStep DEF HubInv, KnownInv
<1>4. WireKnown' /\ AnswersKnown' /\ LatestKnown'
    BY WireKnownStep, LatestStep DEF HubInv, KnownInv
<1>5. CountOK' /\ HistoryInv'
    BY CountStep, FramesStep DEF HubInv
<1> QED BY <1>2, <1>3, <1>4, <1>5 DEF HubInv, KnownInv

(* In every reachable state the hub's maps are well formed, what they hold *)
(* is of runs the gateway knows and of the sessions they run in, an entry  *)
(* never counts more deltas than have arrived, and a history on its way is *)
(* the only answer to a task that waits for it.                            *)
THEOREM HubInvariant == Spec => []HubInv
<1>1. Init => HubInv
    BY HubInit
<1>2. HubInv /\ [Next]_vars => HubInv'
    BY HubStep
<1> QED BY <1>1, <1>2, PTL DEF Spec

(* The hub's maps are well formed and no pane is given a word of a run in  *)
(* a cron session, whatever fails, is stopped or comes late                *)
(* (_handle_chat_event, _handle_terminal and its fallback).                *)
THEOREM HubCorrect == Spec => []Inv
<1>1. HubInv => Inv
    BY DEF HubInv, KnownInv, HeardKnown, Inv, CronStaysOut
<1> QED BY <1>1, HubInvariant, PTL

-----------------------------------------------------------------------------
(* While nothing fails: the order in which the gateway reports on a run.   *)

Quiet == MaxFaults = 0

Ends == {"final", "aborted", "error"}
Of(f, r) == f.type = "event" /\ f.run = r
Has(w, r) == \E i \in 1 .. Len(w) : Of(w[i], r)

(* Of one run, nothing comes before its start and nothing after its end. *)
Ordered(w) ==
    \A i, j \in 1 .. Len(w) :
        i < j /\ w[i].type = "event" /\ w[j].type = "event" /\ w[i].run = w[j].run
            => w[i].state \notin Ends /\ w[j].state # "started"

Early == {"free", "live"}

(* A run has reported nothing before it streams; once it is over its end   *)
(* is the last thing to arrive, and nothing follows the end that waits for *)
(* its task.                                                               *)
Flow(r) ==
    /\ phase[r] \in Early => ~Has(wire, r) /\ emitted[r] = 0
    /\ EndOf(r, wire) \/ EndOf(r, tasks) => phase[r] = "over"
    /\ phase[r] = "over" /\ Has(wire, r) => EndOf(r, wire)
    /\ EndOf(r, tasks) => ~Has(wire, r)

OneEnd(w) == \A i, j \in 1 .. Len(w) : w[i].run = w[j].run => i = j

FlowInv == Ordered(wire) /\ OneEnd(tasks) /\ \A r \in Run : Flow(r)

(* What a step does when nothing fails: the gateway reports on a run, ... *)
Reports(r, f) ==
    /\ f \in Events /\ f.run = r /\ wire' = Append(wire, f)
    /\ UNCHANGED <<hub, asked, log, heard, forgotten, missed>>
    /\ \A q \in Run : q # r => phase'[q] = phase[q] /\ emitted'[q] = emitted[q]
    /\ \/ f.state = "started" /\ phase[r] = "live" /\ phase'[r] = "streaming"
          /\ emitted'[r] = emitted[r]
       \/ f.state = "delta" /\ phase[r] = "streaming" /\ phase'[r] = "streaming"
       \/ f.state \in Ends /\ phase[r] \in {"live", "streaming", "stopping"} /\ phase'[r] = "over"
          /\ emitted'[r] = emitted[r]
    /\ f.state = "final" /\ f.text # None => f.text.full

(* ... or no run reports.                                                  *)
PhaseHolds(r) ==
    /\ phase'[r] = "over" <=> phase[r] = "over"
    /\ phase'[r] \in Early => phase[r] \in Early
Holds == UNCHANGED emitted /\ \A r \in Run : PhaseHolds(r)

LEMMA NoFailure ==
    ASSUME Quiet, TypeOK, [Next]_vars
    PROVE  ~Failure /\ ~Failing
<1>1. faults = 0 /\ MaxFaults = 0
    BY TypeParts DEF TypeRest, Quiet
<1>2. ~Failing
    BY <1>1 DEF Failing
<1> QED BY <1>2 DEF Failure, RequestFails, FetchFails, SocketLost

LEMMA StopHolds ==
    ASSUME NEW ph \in [Run -> Phases], NEW k, NEW r \in Run
    PROVE  /\ Stopped(ph, k)[r] = "over" <=> ph[r] = "over"
           /\ Stopped(ph, k)[r] \in Early => ph[r] \in Early
BY DEF Stopped, Early

(* The gateway reports, answers a handler, answers a task, or accepts a    *)
(* run.                                                                    *)
LEMMA GatewayForm ==
    ASSUME Quiet, TypeOK, GatewayStep
    PROVE  \/ \E r \in Run, f \in Events : Reports(r, f)
           \/ Holds /\ UNCHANGED wire
           \/ Holds /\ \E a \in Actor : Answers(a, Asking)
           \/ Holds /\ \E t \in asked : AnswerHistory(t)
<1>1. TypeRuns /\ TypeHandlers
    BY TypeParts
<1>2. ASSUME NEW r \in Run, NEW state \in {"started", "delta", "final", "aborted", "error"},
             NEW text \in Texts \cup {None}, Emit(Event(r, state, text)),
             UNCHANGED <<hub, asked, log, heard, forgotten, missed>>,
             \A q \in Run : q # r => phase'[q] = phase[q] /\ emitted'[q] = emitted[q],
             \/ state = "started" /\ phase[r] = "live" /\ phase'[r] = "streaming"
                /\ emitted'[r] = emitted[r]
             \/ state = "delta" /\ phase[r] = "streaming" /\ phase'[r] = "streaming"
             \/ state \in Ends /\ phase[r] \in {"live", "streaming", "stopping"}
                /\ phase'[r] = "over" /\ emitted'[r] = emitted[r],
             state = "final" /\ text # None => text.full
      PROVE  \E q \in Run, f \in Events : Reports(q, f)
    <2> DEFINE f == Event(r, state, text)
    <2>1. f \in Events /\ f.run = r /\ f.state = state /\ f.text = text
        BY DEF Event, Events
    <2>2. wire' = Append(wire, f)
        BY <1>2 DEF Emit
    <2> HIDE DEF f
    <2>3. Reports(r, f)
        BY <1>2, <2>1, <2>2 DEF Reports
    <2> QED BY <2>1, <2>3
<1>3. ASSUME NEW r \in Run, NEW k \in {"main", "cron"}, OtherRun(r, k)
      PROVE  Holds /\ UNCHANGED wire
    <2>1. phase' = [phase EXCEPT ![r] = "live"] /\ phase[r] = "free" /\ UNCHANGED <<emitted, wire>>
        BY <1>3 DEF OtherRun, Accepts
    <2> QED BY <1>1, <2>1 DEF Holds, PhaseHolds, Early, TypeRuns
<1>4. ASSUME NEW a \in Actor, AnswerSend(a)
      PROVE  Holds /\ Answers(a, Asking)
    BY <1>4 DEF AnswerSend, Answers, Asking, Holds, PhaseHolds, gateway
<1>5. ASSUME NEW c \in Client, AnswerAbort(c) \/ AnswerReset(c)
      PROVE  Holds /\ Answers(c, Asking)
    <2>1. Answers(c, Asking) /\ UNCHANGED emitted
        BY <1>5 DEF AnswerAbort, AnswerReset, Answers, Asking
    <2>2. UNCHANGED phase \/ phase' = Stopped(phase, "main")
        BY <1>5 DEF AnswerAbort, AnswerReset
    <2> QED BY <1>1, <2>1, <2>2, StopHolds DEF Holds, PhaseHolds, TypeRuns
<1>6. ASSUME NEW r \in Run, Starts(r) PROVE \E q \in Run, f \in Events : Reports(q, f)
    <2>1. /\ phase[r] = "live" /\ phase' = [phase EXCEPT ![r] = "streaming"]
          /\ Emit(Event(r, "started", None)) /\ UNCHANGED <<emitted, hub, asked, history>>
        BY <1>6 DEF Starts
    <2> QED BY <1>1, <1>2, <2>1 DEF TypeRuns, history
<1>7. ASSUME NEW r \in Run, Streams(r) PROVE \E q \in Run, f \in Events : Reports(q, f)
    <2>1. /\ phase[r] = "streaming" /\ UNCHANGED phase
          /\ emitted' = [emitted EXCEPT ![r] = @ + 1]
          /\ Emit(Event(r, "delta", None)) /\ UNCHANGED <<hub, asked, history>>
        BY <1>7 DEF Streams
    <2> QED BY <1>1, <1>2, <2>1 DEF TypeRuns, history
<1>8. ASSUME NEW r \in Run, NEW state \in Ends, NEW text \in Texts \cup {None},
             state = "final" /\ text # None => text.full,
             phase[r] \in {"live", "streaming", "stopping"}, phase' = [phase EXCEPT ![r] = "over"],
             Emit(Event(r, state, text)), UNCHANGED <<emitted, hub, asked, history>>
      PROVE  \E q \in Run, f \in Events : Reports(q, f)
    BY <1>1, <1>2, <1>8 DEF TypeRuns, history, Ends
<1>9. ASSUME NEW r \in Run, RunEnds(r) PROVE \E q \in Run, f \in Events : Reports(q, f)
    <2>1. ASSUME NEW replied \in BOOLEAN, NEW inline \in BOOLEAN, Final(r, replied, inline)
          PROVE  \E q \in Run, f \in Events : Reports(q, f)
        <3> DEFINE text == IF inline THEN Text(r, TRUE) ELSE None
        <3>1. text \in Texts \cup {None} /\ (text # None => text.full)
            BY TextTyped DEF Text
        <3>2. Emit(Event(r, "final", text))
            BY <2>1 DEF Final
        <3> HIDE DEF text
        <3>3. /\ phase[r] \in {"live", "streaming", "stopping"}
              /\ phase' = [phase EXCEPT ![r] = "over"]
              /\ UNCHANGED <<emitted, hub, asked, history>>
            BY <2>1 DEF Final
        <3> QED BY <1>8, <3>1, <3>2, <3>3 DEF Ends
    <2>2. ASSUME NEW inline \in BOOLEAN, Aborted(r, inline)
          PROVE  \E q \in Run, f \in Events : Reports(q, f)
        <3> DEFINE text == IF inline THEN Text(r, FALSE) ELSE None
        <3>1. text \in Texts \cup {None}
            BY TextTyped
        <3>2. Emit(Event(r, "aborted", text))
            BY <2>2 DEF Aborted
        <3> HIDE DEF text
        <3>3. /\ phase[r] \in {"live", "streaming", "stopping"}
              /\ phase' = [phase EXCEPT ![r] = "over"]
              /\ UNCHANGED <<emitted, hub, asked, history>>
            BY <2>2 DEF Aborted
        <3> QED BY <1>8, <3>1, <3>2, <3>3 DEF Ends
    <2>3. ASSUME NEW inline \in BOOLEAN, Errs(r, inline)
          PROVE  \E q \in Run, f \in Events : Reports(q, f)
        <3> DEFINE text == IF inline THEN Text(r, FALSE) ELSE None
        <3>1. text \in Texts \cup {None}
            BY TextTyped
        <3>2. Emit(Event(r, "error", text))
            BY <2>3 DEF Errs
        <3> HIDE DEF text
        <3>3. /\ phase[r] \in {"live", "streaming", "stopping"}
              /\ phase' = [phase EXCEPT ![r] = "over"]
              /\ UNCHANGED <<emitted, hub, asked, history>>
            BY <2>3 DEF Errs
        <3> QED BY <1>8, <3>1, <3>2, <3>3 DEF Ends
    <2> QED BY <1>9, <2>1, <2>2, <2>3 DEF RunEnds
<1>10. ASSUME NEW t \in asked, AnswerHistory(t) PROVE Holds
    BY <1>1, <1>10 DEF AnswerHistory, gateway, Holds, PhaseHolds
<1>11. ASSUME NEW r \in Run, NEW inline \in BOOLEAN, Replays(r, inline) PROVE FALSE
    <2>1. faults = 0 /\ MaxFaults = 0
        BY TypeParts DEF TypeRest, Quiet
    <2> QED BY <1>11, <2>1 DEF Replays, Failing
<1>12. CASE \E c \in Client : AnswerAbort(c) \/ AnswerReset(c)
    BY <1>5, <1>12, Apart
<1>13. CASE \E r \in Run : Starts(r) \/ Streams(r) \/ RunEnds(r)
    BY <1>6, <1>7, <1>9, <1>13
<1> QED BY <1>3, <1>4, <1>10, <1>11, <1>12, <1>13 DEF GatewayStep

(* The events on a wire that loses another frame, gets a frame, or is read. *)
LEMMA WithinEvents ==
    ASSUME NEW w, NEW v, NEW k, Within(v, w, k), Len(v) \in Nat, Len(w) \in Nat,
           k \in 1 .. Len(w) => w[k].type # "event"
    PROVE  /\ Ordered(w) => Ordered(v)
           /\ \A r : Has(v, r) <=> Has(w, r)
           /\ \A r : EndOf(r, v) <=> EndOf(r, w)
<1>1. PICK g \in [1 .. Len(v) -> 1 .. Len(w)] :
         /\ \A i \in 1 .. Len(v) : g[i] # k /\ v[i] = w[g[i]]
         /\ \A i, j \in 1 .. Len(v) : i < j => g[i] < g[j]
         /\ \A j \in 1 .. Len(w) : j = k \/ \E i \in 1 .. Len(v) : g[i] = j
    BY DEF Within
<1>2. \A i \in 1 .. Len(v) : g[i] \in 1 .. Len(w) /\ v[i] = w[g[i]]
    BY <1>1
<1>3. \A j \in 1 .. Len(w) : w[j].type = "event" => \E i \in 1 .. Len(v) : v[i] = w[j]
    BY <1>1
<1>4. ASSUME Ordered(w), NEW i \in 1 .. Len(v), NEW j \in 1 .. Len(v), i < j,
             v[i].type = "event", v[j].type = "event", v[i].run = v[j].run
      PROVE  v[i].state \notin Ends /\ v[j].state # "started"
    <2>1. g[i] < g[j] /\ g[i] \in 1 .. Len(w) /\ g[j] \in 1 .. Len(w)
        BY <1>1, <1>4
    <2> QED BY <1>2, <1>4, <2>1 DEF Ordered
<1>5. Ordered(w) => Ordered(v)
    BY <1>4 DEF Ordered
<1>6. ASSUME NEW r PROVE Has(v, r) <=> Has(w, r)
    <2>1. ASSUME Has(v, r) PROVE Has(w, r)
        BY <1>2, <2>1 DEF Has
    <2>2. ASSUME Has(w, r) PROVE Has(v, r)
        <3>1. PICK j \in 1 .. Len(w) : Of(w[j], r)
            BY <2>2 DEF Has
        <3>2. PICK i \in 1 .. Len(v) : v[i] = w[j]
            BY <1>3, <3>1 DEF Of
        <3> QED BY <3>1, <3>2 DEF Has
    <2> QED BY <2>1, <2>2
<1>7. \A r : EndOf(r, v) <=> EndOf(r, w)
    BY <1>2, <1>3 DEF EndOf
<1> QED BY <1>5, <1>6, <1>7

LEMMA AppendEvents ==
    ASSUME NEW S, NEW w \in Seq(S), NEW f \in S
    PROVE  /\ \A r : Has(Append(w, f), r) <=> Has(w, r) \/ Of(f, r)
           /\ \A r : EndOf(r, Append(w, f)) <=> EndOf(r, w) \/ (Of(f, r) /\ f.state \in Ends)
           /\ /\ Ordered(w)
              /\ \A i \in 1 .. Len(w) : f.type = "event" /\ Of(w[i], f.run) =>
                    w[i].state \notin Ends /\ f.state # "started"
              => Ordered(Append(w, f))
<1> DEFINE v == Append(w, f)
<1>1. /\ Len(v) = Len(w) + 1 /\ Len(w) \in Nat /\ v[Len(w) + 1] = f
      /\ \A i \in 1 .. Len(w) : v[i] = w[i]
    OBVIOUS
<1> HIDE DEF v
<1>2. \A i \in 1 .. Len(v) : i \in 1 .. Len(w) \/ i = Len(w) + 1
    BY <1>1
<1>3. Len(w) + 1 \in 1 .. Len(v) /\ 1 .. Len(w) \subseteq 1 .. Len(v)
    BY <1>1
<1>4. \A r : Has(v, r) <=> Has(w, r) \/ Of(f, r)
    BY <1>1, <1>2, <1>3 DEF Has
<1>5. \A r : EndOf(r, v) <=> EndOf(r, w) \/ (Of(f, r) /\ f.state \in Ends)
    BY <1>1, <1>2, <1>3 DEF EndOf, Of, Ends
<1>6. ASSUME Ordered(w),
             \A i \in 1 .. Len(w) : f.type = "event" /\ Of(w[i], f.run) =>
                    w[i].state \notin Ends /\ f.state # "started",
             NEW i \in 1 .. Len(v), NEW j \in 1 .. Len(v), i < j,
             v[i].type = "event", v[j].type = "event", v[i].run = v[j].run
      PROVE  v[i].state \notin Ends /\ v[j].state # "started"
    <2>1. i \in 1 .. Len(w)
        BY <1>1, <1>6
    <2>2. CASE j \in 1 .. Len(w)
        BY <1>1, <1>6, <2>1, <2>2 DEF Ordered
    <2>3. CASE j = Len(w) + 1
        BY <1>1, <1>6, <2>1, <2>3 DEF Of
    <2> QED BY <1>2, <2>2, <2>3
<1>7. /\ Ordered(w)
      /\ \A i \in 1 .. Len(w) : f.type = "event" /\ Of(w[i], f.run) =>
            w[i].state \notin Ends /\ f.state # "started"
      => Ordered(v)
    BY <1>6 DEF Ordered
<1> QED BY <1>4, <1>5, <1>7 DEF v

LEMMA TailEvents ==
    ASSUME NEW S, NEW w \in Seq(S), w # <<>>, Ordered(w)
    PROVE  /\ Ordered(Tail(w))
           /\ \A r : Has(w, r) <=> Has(Tail(w), r) \/ Of(Head(w), r)
           /\ \A r : EndOf(r, w) <=> EndOf(r, Tail(w)) \/ (Of(Head(w), r) /\ Head(w).state \in Ends)
           /\ \A r : Of(Head(w), r) /\ Head(w).state \in Ends => ~Has(Tail(w), r)
<1> DEFINE v == Tail(w)
           h == Head(w)
<1>1. /\ Len(v) = Len(w) - 1 /\ Len(w) \in Nat \ {0} /\ h = w[1]
      /\ \A i \in 1 .. Len(v) : v[i] = w[i + 1]
    OBVIOUS
<1> HIDE DEF v, h
<1>2. \A i \in 1 .. Len(v) : i \in Nat /\ i + 1 \in 1 .. Len(w) /\ 1 < i + 1
    BY <1>1
<1>3. \A j \in 1 .. Len(w) : j = 1 \/ (j - 1 \in 1 .. Len(v) /\ v[j - 1] = w[j])
    BY <1>1
<1>4. 1 \in 1 .. Len(w)
    BY <1>1
<1>5. ASSUME NEW i \in 1 .. Len(v), NEW j \in 1 .. Len(v), i < j,
             v[i].type = "event", v[j].type = "event", v[i].run = v[j].run
      PROVE  v[i].state \notin Ends /\ v[j].state # "started"
    <2>1. i + 1 < j + 1 /\ i + 1 \in 1 .. Len(w) /\ j + 1 \in 1 .. Len(w)
        BY <1>2, <1>5
    <2>2. v[i] = w[i + 1] /\ v[j] = w[j + 1]
        BY <1>1
    <2> QED BY <1>5, <2>1, <2>2 DEF Ordered
<1>6. Ordered(v)
    BY <1>5 DEF Ordered
<1>7. \A r : Has(w, r) <=> Has(v, r) \/ Of(h, r)
    BY <1>1, <1>2, <1>3, <1>4 DEF Has
<1>8. \A r : EndOf(r, w) <=> EndOf(r, v) \/ (Of(h, r) /\ h.state \in Ends)
    BY <1>1, <1>2, <1>3, <1>4 DEF EndOf, Of, Ends
<1>9. ASSUME NEW r, Of(h, r), h.state \in Ends, Has(v, r) PROVE FALSE
    <2>1. PICK i \in 1 .. Len(v) : Of(v[i], r)
        BY <1>9 DEF Has
    <2>2. v[i] = w[i + 1] /\ i + 1 \in 1 .. Len(w) /\ 1 < i + 1
        BY <1>1, <1>2
    <2> QED BY <1>1, <1>4, <1>9, <2>1, <2>2 DEF Ordered, Of
<1> QED BY <1>6, <1>7, <1>8, <1>9 DEF v, h

(* The replies a frame brings are whole. *)
FullFrame(f) ==
    (f.type = "history" \/ (f.type = "event" /\ f.state = "final")) /\ f.text # None => f.text.full

(* The wire when no run reports and nothing is read: it is as it was, has  *)
(* lost an answer nobody waits for, or got an answer.                      *)
Idle ==
    \/ UNCHANGED wire
    \/ \E k \in 1 .. Len(wire) : wire[k].type = "res" /\ wire' = RemoveAt(wire, k)
    \/ \E f \in Frames : f.type # "event" /\ FullFrame(f) /\ wire' = Append(wire, f)

LEMMA IdleEvents ==
    ASSUME wire \in Seq(Frames), Idle
    PROVE  /\ Ordered(wire) => Ordered(wire')
           /\ \A r : Has(wire', r) <=> Has(wire, r)
           /\ \A r : EndOf(r, wire') <=> EndOf(r, wire)
<1>1. CASE UNCHANGED wire
    BY <1>1
<1>2. CASE \E k \in 1 .. Len(wire) : wire[k].type = "res" /\ wire' = RemoveAt(wire, k)
    <2>1. PICK k \in 1 .. Len(wire) : wire[k].type = "res" /\ wire' = RemoveAt(wire, k)
        BY <1>2
    <2>2. Within(wire', wire, k) /\ Len(wire') \in Nat /\ Len(wire) \in Nat
        BY <2>1, WithinRemoved, RemovedAt
    <2>3. wire[k].type # "event"
        BY <2>1
    <2> QED BY <2>2, <2>3, WithinEvents
<1>3. CASE \E f \in Frames : f.type # "event" /\ FullFrame(f) /\ wire' = Append(wire, f)
    <2>1. PICK f \in Frames : f.type # "event" /\ wire' = Append(wire, f)
        BY <1>3
    <2> QED BY <2>1, AppendEvents DEF Of
<1> QED BY <1>1, <1>2, <1>3 DEF Idle

LEMMA IdleAnswer ==
    ASSUME HubInv, [Next]_vars, NEW f, f.type # "event", FullFrame(f), Emit(f)
    PROVE  Idle
<1>1. wire \in Seq(Frames) /\ wire' \in Seq(Frames) /\ wire' = Append(wire, f)
    BY WireStep, TypeParts DEF HubInv, TypeFrames, KnownInv, Emit
<1>2. wire'[Len(wire) + 1] = f /\ Len(wire') = Len(wire) + 1 /\ Len(wire) \in Nat
    BY <1>1
<1>3. f \in Frames
    BY <1>1, <1>2
<1> QED BY <1>1, <1>3 DEF Idle

LEMMA QuietForm ==
    ASSUME Quiet, HubInv, [Next]_vars
    PROVE  \/ \E r \in Run, f \in Events : Reports(r, f)
           \/ Holds /\ Idle /\ UNCHANGED tasks
           \/ Holds /\ Reader
           \/ Holds /\ TaskStarts /\ UNCHANGED wire
<1>1. TypeRuns /\ TypeFrames /\ TypeOK
    BY TypeParts DEF HubInv
<1>2. ASSUME UNCHANGED <<phase, emitted>> PROVE Holds
    BY <1>2 DEF Holds, PhaseHolds
<1>3. CASE GatewayStep
    <2>1. ASSUME NEW a \in Actor, Answers(a, Asking) PROVE Idle
        BY <2>1, IdleAnswer DEF Answers, Response, FullFrame
    <2>2. ASSUME NEW t \in asked, AnswerHistory(t) PROVE Idle
        <3> DEFINE text == IF latest[t.key] = None THEN None ELSE Text(latest[t.key], TRUE)
        <3>1. Emit(LastReply(t, text)) /\ (text # None => text.full)
            BY <2>2 DEF AnswerHistory, Text
        <3> HIDE DEF text
        <3>2. LastReply(t, text).type = "history" /\ FullFrame(LastReply(t, text))
            BY <3>1 DEF LastReply, FullFrame
        <3> QED BY <3>1, <3>2, IdleAnswer
    <2>3. UNCHANGED tasks
        BY <1>3, GatewayKeeps DEF hub
    <2> QED BY <1>1, <1>3, <2>1, <2>2, <2>3, GatewayForm DEF Idle
<1>4. CASE UserStep
    <2>1. ASSUME NEW a \in Actor, NEW r \in Run, NEW kd, NEW k, Sends(a, r, kd, k)
          PROVE  \A q \in Run : PhaseHolds(q)
        <3>1. phase[r] = "free" /\ phase' = [phase EXCEPT ![r] = "live"]
            BY <2>1 DEF Sends, Accepts
        <3> QED BY <1>1, <3>1 DEF PhaseHolds, Early, TypeRuns
    <2>2. CASE SpeaksAgain \/ BargeIn
        <3>1. UNCHANGED phase \/ phase' = Stopped(phase, VoiceKey)
            BY <2>2 DEF SpeaksAgain, BargeIn
        <3>2. \A q \in Run : PhaseHolds(q)
            BY <1>1, <3>1, StopHolds DEF PhaseHolds, TypeRuns
        <3>3. wire' = Unheeded(Voice)
            BY <2>2 DEF SpeaksAgain, BargeIn, CancelActive, Deafens
        <3>4. Idle
            <4>1. \/ wire' = wire
                  \/ \E k \in 1 .. Len(wire) :
                        wire[k] = Response(Voice) /\ wire' = RemoveAt(wire, k)
                BY <1>1, <3>3, UnheededFrames DEF TypeFrames
            <4> QED BY <4>1 DEF Idle, Response
        <3> QED BY <1>4, <3>2, <3>4, UserKeeps DEF Holds
    <2>3. CASE \/ \E c \in Client, r \in Run : Message(c, r)
               \/ \E r \in Run : VoiceTurn(r)
        <3>1. UNCHANGED wire /\ \A q \in Run : PhaseHolds(q)
            BY <2>1, <2>3, Apart DEF Message, VoiceTurn
        <3> QED BY <1>4, <3>1, UserKeeps DEF Holds, Idle
    <2>4. CASE \E c \in Client : Abort(c) \/ Reset(c) \/ Leaves(c) \/ Returns(c)
        BY <1>2, <2>4 DEF Abort, Reset, Leaves, Returns, gateway, Idle
    <2> QED BY <1>4, <2>2, <2>3, <2>4 DEF UserStep
<1>5. CASE Reader
    BY <1>2, <1>5, ReaderKeeps DEF gateway
<1>6. CASE TaskStarts
    BY <1>2, <1>6, TaskKeeps DEF gateway
<1>7. CASE Resumed \/ TurnEnds \/ TurnTimesOut \/ (\E r \in Run : Reap(r)) \/ UNCHANGED vars
    BY <1>2, <1>7, ResumedKeeps DEF TurnEnds, TurnTimesOut, Reap, gateway, vars, hub, Idle
<1> QED BY <1>1, <1>3, <1>4, <1>5, <1>6, <1>7, NextCases, NoFailure

-----------------------------------------------------------------------------
(* The order is kept.                                                      *)

LEMMA ReportFlows ==
    ASSUME HubInv, FlowInv, NEW r \in Run, NEW f \in Events, Reports(r, f)
    PROVE  FlowInv'
<1>1. wire \in Seq(Frames) /\ f \in Frames /\ wire' = Append(wire, f) /\ UNCHANGED tasks
    BY TypeParts DEF HubInv, TypeFrames, Reports, hub, Frames
<1>2. f.type = "event" /\ f.run = r /\ Of(f, r)
    BY DEF Reports, Events, Of
<1>3. Flow(r)
    BY DEF FlowInv
<1>4. ASSUME NEW i \in 1 .. Len(wire), Of(wire[i], r)
      PROVE  wire[i].state \notin Ends /\ f.state # "started"
    <2>1. wire[i].state \in Ends => EndOf(r, wire)
        BY <1>4 DEF EndOf, Of, Ends
    <2>2. Has(wire, r)
        BY <1>4 DEF Has
    <2>3. phase[r] # "over" /\ (f.state = "started" => phase[r] = "live")
        BY DEF Reports, Ends
    <2> QED BY <1>3, <2>1, <2>2, <2>3 DEF Flow, Early
<1>5. Ordered(wire')
    BY <1>1, <1>2, <1>4, AppendEvents DEF FlowInv
<1>6. \A q \in Run : (Has(wire', q) <=> Has(wire, q) \/ Of(f, q))
                     /\ (EndOf(q, wire') <=> EndOf(q, wire) \/ (Of(f, q) /\ f.state \in Ends))
    BY <1>1, AppendEvents
<1>7. ASSUME NEW q \in Run PROVE Flow(q)'
    <2>1. Flow(q)
        BY DEF FlowInv
    <2>2. CASE q # r
        <3>1. ~ Of(f, q) /\ phase'[q] = phase[q] /\ emitted'[q] = emitted[q]
            BY <1>2, <2>2 DEF Of, Reports
        <3>2. (Has(wire', q) <=> Has(wire, q)) /\ (EndOf(q, wire') <=> EndOf(q, wire))
            BY <1>6, <3>1
        <3> QED BY <1>1, <2>1, <3>1, <3>2 DEF Flow
    <2>3. CASE q = r
        <3>1. phase'[r] \notin Early /\ phase[r] # "over"
              /\ (phase'[r] = "over" <=> f.state \in Ends)
            BY DEF Reports, Early, Ends
        <3>2. ~EndOf(r, wire) /\ ~EndOf(r, tasks)
            BY <1>3, <3>1 DEF Flow
        <3>3. EndOf(r, wire') <=> f.state \in Ends
            BY <1>2, <1>6, <3>2
        <3> QED BY <1>1, <2>3, <3>1, <3>2, <3>3 DEF Flow
    <2> QED BY <2>2, <2>3
<1> QED BY <1>1, <1>5, <1>7 DEF FlowInv

LEMMA IdleFlows ==
    ASSUME HubInv, FlowInv, Holds, Idle, UNCHANGED tasks
    PROVE  FlowInv'
<1>1. wire \in Seq(Frames)
    BY TypeParts DEF HubInv, TypeFrames
<1>2. /\ Ordered(wire')
      /\ \A r : Has(wire', r) <=> Has(wire, r)
      /\ \A r : EndOf(r, wire') <=> EndOf(r, wire)
    BY <1>1, IdleEvents DEF FlowInv
<1>3. ASSUME NEW r \in Run PROVE Flow(r)'
    BY <1>2 DEF FlowInv, Flow, Holds, PhaseHolds
<1> QED BY <1>2, <1>3 DEF FlowInv

(* The reader hands an end to a task, or not.                              *)
LEMMA ReaderTasks ==
    ASSUME HubInv, Reader
    PROVE  \/ UNCHANGED tasks
           \/ /\ Head(wire) \in Events /\ Head(wire).state \in Ends
              /\ Relayed(Head(wire).run) /\ tasks' = Append(tasks, Head(wire))
<1>1. ASSUME NEW r \in Run, NEW state \in Ends, Terminal(r, state)
      PROVE  \/ UNCHANGED tasks
             \/ /\ Head(wire) \in Events /\ Head(wire).state \in Ends
                /\ Relayed(Head(wire).run) /\ tasks' = Append(tasks, Head(wire))
    <2>1. Head(wire) \in Events /\ Head(wire).run = r /\ Head(wire).state = state
        BY <1>1, EventRead DEF HubInv, KnownInv, Terminal
    <2> QED BY <1>1, <2>1 DEF Terminal
<1> QED BY <1>1 DEF Reader, Resolves, RunStarted, Delta, Ends

LEMMA ReaderFlows ==
    ASSUME HubInv, FlowInv, Reader
    PROVE  FlowInv'
<1>1. wire \in Seq(Frames) /\ tasks \in Seq(Events) /\ wire # <<>> /\ wire' = Tail(wire)
      /\ UNCHANGED gateway /\ Ordered(wire)
    BY TypeParts, ReaderKeeps DEF HubInv, TypeFrames, TypeReplies, FlowInv
<1> DEFINE h == Head(wire)
<1>2. /\ Ordered(wire')
      /\ \A r : Has(wire, r) <=> Has(wire', r) \/ Of(h, r)
      /\ \A r : EndOf(r, wire) <=> EndOf(r, wire') \/ (Of(h, r) /\ h.state \in Ends)
      /\ \A r : Of(h, r) /\ h.state \in Ends => ~Has(wire', r)
    BY <1>1, TailEvents
<1>3. \/ UNCHANGED tasks
      \/ h \in Events /\ h.state \in Ends /\ tasks' = Append(tasks, h)
    BY ReaderTasks
<1> HIDE DEF h
<1>4. UNCHANGED <<phase, emitted>>
    BY <1>1 DEF gateway
<1>5. CASE UNCHANGED tasks
    <2>1. ASSUME NEW r \in Run PROVE Flow(r)'
        BY <1>2, <1>4, <1>5 DEF FlowInv, Flow
    <2> QED BY <1>2, <1>5, <2>1 DEF FlowInv
<1>6. CASE h \in Events /\ h.state \in Ends /\ tasks' = Append(tasks, h)
    <2>1. /\ Len(tasks') = Len(tasks) + 1 /\ Len(tasks) \in Nat /\ tasks'[Len(tasks) + 1] = h
          /\ \A i \in 1 .. Len(tasks) : tasks'[i] = tasks[i]
        BY <1>1, <1>6
    <2>2. h.run \in Run /\ Of(h, h.run) /\ h.type = "event"
        BY <1>6 DEF Events, Of
    <2>3. \A r : EndOf(r, tasks') <=> EndOf(r, tasks) \/ Of(h, r)
        BY <1>1, <1>6, AppendEvents
    <2>4. Has(wire, h.run)
        BY <1>2, <2>2
    <2>5. ~EndOf(h.run, tasks)
        BY <2>2, <2>4 DEF FlowInv, Flow
    <2>6. \A i \in 1 .. Len(tasks) : tasks[i].run # h.run
        <3> SUFFICES ASSUME NEW i \in 1 .. Len(tasks), tasks[i].run = h.run PROVE FALSE
            OBVIOUS
        <3>1. tasks[i] \in Events
            BY <1>1
        <3>2. tasks[i].type = "event" /\ tasks[i].state \in Ends
            BY <3>1 DEF Events, HubInv, KnownInv, TasksKnown, Ends
        <3> QED BY <2>5, <3>2 DEF EndOf, Ends
    <2>7. OneEnd(tasks')
        BY <2>1, <2>6 DEF OneEnd, FlowInv
    <2>8. ASSUME NEW r \in Run PROVE Flow(r)'
        BY <1>2, <1>4, <1>6, <2>3 DEF FlowInv, Flow
    <2> QED BY <1>2, <2>7, <2>8 DEF FlowInv
<1> QED BY <1>3, <1>5, <1>6

LEMMA TaskFlows ==
    ASSUME HubInv, FlowInv, TaskStarts
    PROVE  FlowInv'
<1>1. tasks \in Seq(Events) /\ tasks # <<>> /\ tasks' = Tail(tasks)
    BY TypeParts DEF HubInv, TypeReplies, TaskStarts
<1>2. UNCHANGED <<wire, phase, emitted>>
    BY TaskKeeps DEF gateway
<1>3. /\ Len(tasks') = Len(tasks) - 1 /\ Len(tasks) \in Nat \ {0}
      /\ \A i \in 1 .. Len(tasks') : i + 1 \in 1 .. Len(tasks) /\ tasks'[i] = tasks[i + 1]
    BY <1>1
<1>4. OneEnd(tasks')
    <2> SUFFICES ASSUME NEW i \in 1 .. Len(tasks'), NEW j \in 1 .. Len(tasks'),
                        tasks'[i].run = tasks'[j].run
                 PROVE  i = j
        BY DEF OneEnd
    <2>1. i + 1 = j + 1
        BY <1>3 DEF FlowInv, OneEnd
    <2> QED BY <2>1
<1>5. \A r : EndOf(r, tasks') => EndOf(r, tasks)
    BY <1>3 DEF EndOf
<1>6. ASSUME NEW r \in Run PROVE Flow(r)'
    BY <1>2, <1>5 DEF FlowInv, Flow
<1> QED BY <1>2, <1>4, <1>6 DEF FlowInv

LEMMA FlowStep ==
    ASSUME Quiet, HubInv, FlowInv, [Next]_vars
    PROVE  FlowInv'
BY QuietForm, ReportFlows, IdleFlows, ReaderFlows, TaskFlows

-----------------------------------------------------------------------------
(* The voice session.                                                      *)

(* A delivery gives a text to the pane of the voice session only, when the *)
(* entry of its run names it.                                              *)
LEMMA DeliveredTo ==
    ASSUME NEW t, NEW text, Deliver(t, text)
    PROVE  \A c, r : <<c, r>> \in heard' =>
                \/ <<c, r>> \in heard
                \/ /\ text # None /\ r = text.of
                   /\ t.entry # None /\ t.entry.pane => c = t.entry.client
<1> DEFINE to == IF t.entry # None /\ t.entry.pane
                 THEN {c \in {t.entry.client} : conn[c]} ELSE Audience
<1>1. CASE Suppressed(t.entry, t.key, text)
    BY <1>1 DEF Deliver
<1>2. CASE ~ Suppressed(t.entry, t.key, text)
    <2>1. heard' = IF text # None THEN heard \cup {<<c, text.of>> : c \in to} ELSE heard
        BY <1>2 DEF Deliver
    <2>2. t.entry # None /\ t.entry.pane => \A c \in to : c = t.entry.client
        OBVIOUS
    <2> HIDE DEF to
    <2> QED BY <2>1, <2>2
<1> QED BY <1>1, <1>2

(* Nobody leaves while nothing fails. *)
AllHere == \A c \in Client : conn[c]

(* The end of a run that is not of the main session waits for its task     *)
(* only while the run is tracked, unless it was dropped.                   *)
VoiceTracked ==
    \A i \in 1 .. Len(tasks) :
        key[tasks[i].run] # "main" => active[tasks[i].run] # None \/ tasks[i].run \in forgotten

(* What is heard of the voice session. *)
PrivateInv ==
    \A r \in Run : key[r] = "voice" =>
        \A c \in Client : <<c, r>> \in heard => c = VoiceClient \/ r \in forgotten

VoiceInv == HubInv /\ FlowInv /\ AllHere /\ VoiceTracked /\ PrivateInv

LEMMA AllStay ==
    ASSUME Quiet, TypeOK, AllHere, [Next]_vars
    PROVE  AllHere'
<1>1. UNCHANGED conn \/ \E c \in Client : Returns(c)
    <2>1. CASE UserStep
        BY <2>1, NoFailure
           DEF UserStep, Message, VoiceTurn, Abort, Reset, Leaves, SpeaksAgain, BargeIn,
               CancelActive
    <2> QED BY <2>1, NextCases, GatewayKeeps, ReaderKeeps, ResumedKeeps, TaskKeeps, FailureKeeps
            DEF TurnEnds, TurnTimesOut, Reap, hub, vars
<1>2. ASSUME NEW c \in Client, Returns(c) PROVE FALSE
    BY <1>2 DEF Returns, AllHere
<1> QED BY <1>1, <1>2 DEF AllHere

(* A run stops being tracked when its task takes it, or when it is dropped *)
(* by an abort or a reset; the reaper has no part while nothing is slow.   *)
LEMMA Untracked ==
    ASSUME ~Slow, HubInv, [Next]_vars, NEW r \in Run, active[r] # None, active'[r] = None
    PROVE  \/ r \in forgotten'
           \/ TaskStarts /\ r = Head(tasks).run
<1>1. TypeActive /\ active[r] \in Entries
    BY TypeParts DEF HubInv, TypeActive
<1>2. CASE Reader \/ Resumed
    <2>1. ASSUME NEW c \in Client, AbortDone(c) PROVE r \in forgotten'
        BY <2>1 DEF AbortDone, DropRuns
    <2>2. ASSUME NEW c \in Client \cup {None}, NEW pane \in BOOLEAN, NEW q,
                 active' = [active EXCEPT ![q] = Entry(c, pane, 0)]
          PROVE  FALSE
        <3>1. Entry(c, pane, 0) \in Entries
            BY Apart DEF Entry, Entries
        <3>2. Entry(c, pane, 0) # None
            BY <3>1, NoneAssumption
        <3> QED BY <1>1, <2>2, <3>2 DEF TypeActive
    <2>3. ASSUME NEW c \in Client, MessageSent(c) PROVE FALSE
        BY <2>2, <2>3 DEF MessageSent
    <2>4. ASSUME VoiceSent PROVE FALSE
        BY <2>2, <2>4, Apart DEF VoiceSent
    <2>5. ASSUME NEW q \in Run, RunStarted(q) PROVE FALSE
        <3>1. active' = [active EXCEPT ![q] = Entry(None, FALSE, 0)] \/ UNCHANGED active
            BY <2>5 DEF RunStarted
        <3> QED BY <2>2, <3>1
    <2>6. ASSUME NEW q \in Run, Delta(q) PROVE FALSE
        <3>1. CASE UNCHANGED active
            BY <3>1
        <3>2. CASE active' = [active EXCEPT ![q].acc = @ + 1]
            <4>1. r = q
                BY <1>1, <3>2 DEF TypeActive
            <4>2. active'[r] = Longer(active[r])
                BY <1>1, <3>2, <4>1 DEF TypeActive, Longer
            <4>3. active[r].acc < MaxDeltas
                <5>1. wire # <<>> /\ Delta1(Head(wire), q) = 1
                    BY <2>6 DEF Delta, Reads, Delta1
                <5>2. PICK d \in Nat : Deltas(wire, q, d) /\ AccOf(active, q) + d <= emitted[q]
                    BY DEF HubInv, CountOK
                <5>3. d - 1 \in Nat
                    BY <5>1, <5>2, DeltaTaken, TypeParts DEF HubInv, TypeFrames
                <5>4. active[q].acc \in Nat /\ AccOf(active, q) = active[q].acc
                    BY <1>1, <4>1 DEF Entries, AccOf
                <5>5. emitted[q] \in 0..MaxDeltas
                    BY TypeParts DEF HubInv, TypeRuns
                <5> QED BY <4>1, <5>2, <5>3, <5>4, <5>5, Apart
            <4>4. active[r].acc + 1 \in 0..MaxDeltas
                BY <1>1, <4>3, Apart DEF Entries
            <4>5. Longer(active[r]) \in Entries
                BY <1>1, <4>4 DEF Longer, Entries
            <4> QED BY <4>2, <4>5, NoneAssumption
        <3> QED BY <2>6, <3>1, <3>2 DEF Delta
    <2>7. ASSUME \/ \E c \in Client : ResetDone(c)
                 \/ \E q \in Run, state \in {"final", "aborted", "error"} : Terminal(q, state)
                 \/ (\E t \in fetching : Fetched(t)) \/ Resolves
          PROVE  FALSE
        BY <2>7 DEF ResetDone, Terminal, Fetched, Resolves
    <2> QED BY <1>2, <2>1, <2>3, <2>4, <2>5, <2>6, <2>7 DEF Reader, Resumed
<1>3. CASE TaskStarts
    <2>1. active' = [active EXCEPT ![Head(tasks).run] = None]
        BY <1>3 DEF TaskStarts
    <2> QED BY <1>1, <1>3, <2>1 DEF TypeActive
<1>4. CASE \E q \in Run : Reap(q)
    BY <1>4 DEF Reap
<1>5. CASE GatewayStep \/ UserStep \/ TurnEnds \/ TurnTimesOut \/ Failure \/ UNCHANGED vars
    <2>1. UNCHANGED active
        BY <1>5, GatewayKeeps, UserKeeps, FailureKeeps DEF TurnEnds, TurnTimesOut, hub, vars
    <2> QED BY <2>1
<1> QED BY <1>2, <1>3, <1>4, <1>5, NextCases

LEMMA ForgottenGrows ==
    ASSUME [Next]_vars
    PROVE  forgotten \subseteq forgotten'
<1>1. CASE Resumed
    BY <1>1 DEF Resumed, MessageSent, AbortDone, ResetDone, VoiceSent, Fetched, DropRuns, history
<1> QED BY <1>1, NextCases, GatewayKeeps, UserKeeps, ReaderKeeps, TaskKeeps, FailureKeeps
        DEF TurnEnds, TurnTimesOut, Reap, history, vars

LEMMA TrackedStep ==
    ASSUME ~Slow, VoiceInv, [Next]_vars
    PROVE  VoiceTracked'
<1>1. HubInv /\ TasksKnown /\ KnownStays /\ tasks \in Seq(Events) /\ OneEnd(tasks) /\ TypeActive
    BY TypeParts, RunsStay DEF VoiceInv, HubInv, KnownInv, TypeReplies, FlowInv
<1> DEFINE Kept(e) == key'[e.run] # "main" => active'[e.run] # None \/ e.run \in forgotten'
<1>2. SUFFICES \A i \in 1 .. Len(tasks') : Kept(tasks'[i])
    BY DEF VoiceTracked
<1>3. ASSUME NEW i \in 1 .. Len(tasks), ~ (TaskStarts /\ tasks[i].run = Head(tasks).run)
      PROVE  Kept(tasks[i])
    <2> HIDE DEF Kept
    <2>0. tasks[i] \in Events
        BY <1>1
    <2>1. tasks[i].run \in Run /\ tasks[i].type = "event"
        BY <2>0 DEF Events
    <2> USE DEF Kept
    <2>2. Known(tasks[i].run)
        BY <1>1, <2>1 DEF TasksKnown, FrameKnown
    <2>3. key'[tasks[i].run] = key[tasks[i].run]
        BY <1>1, <2>1, <2>2 DEF KnownStays
    <2>4. CASE active[tasks[i].run] # None
        BY <1>1, <1>3, <2>1, <2>4, Untracked
    <2>5. CASE tasks[i].run \in forgotten
        BY <2>5, ForgottenGrows
    <2>6. CASE key[tasks[i].run] = "main"
        BY <2>3, <2>6
    <2> QED BY <2>4, <2>5, <2>6 DEF VoiceInv, VoiceTracked
<1>4. CASE UNCHANGED tasks
    <2>1. ~TaskStarts
        BY <1>1, <1>4 DEF TaskStarts
    <2> HIDE DEF Kept
    <2> QED BY <1>3, <1>4, <2>1
<1>5. CASE Reader
    <2>1. ~TaskStarts
        <3>1. Len(wire') # Len(wire)
            BY <1>1, <1>5, ReaderKeeps, TypeParts DEF HubInv, TypeFrames
        <3> QED BY <3>1, TaskKeeps
    <2>2. CASE /\ Head(wire) \in Events /\ Relayed(Head(wire).run)
               /\ tasks' = Append(tasks, Head(wire))
        <3> DEFINE h == Head(wire)
        <3>1. Kept(h)
            <4>1. \E state \in {"final", "aborted", "error"} : Terminal(h.run, state)
                <5>1. Len(tasks') # Len(tasks)
                    BY <1>1, <2>2
                <5>2. tasks' # tasks
                    BY <5>1
                <5>3. \E r \in Run, state \in {"final", "aborted", "error"} : Terminal(r, state)
                    BY <1>5, <5>2 DEF Reader, Resolves, RunStarted, Delta
                <5> QED BY <5>3 DEF Terminal, Reads
            <4>2. UNCHANGED <<active, key>>
                BY <4>1 DEF Terminal, gateway
            <4> QED BY <2>2, <4>2 DEF Relayed
        <3> HIDE DEF h
        <3>2. /\ Len(tasks') = Len(tasks) + 1 /\ Len(tasks) \in Nat /\ tasks'[Len(tasks) + 1] = h
              /\ \A i \in 1 .. Len(tasks) : tasks'[i] = tasks[i]
            BY <1>1, <2>2 DEF h
        <3>3. \A i \in 1 .. Len(tasks') : i \in 1 .. Len(tasks) \/ i = Len(tasks) + 1
            BY <3>2
        <3> HIDE DEF Kept
        <3> QED BY <1>3, <2>1, <3>1, <3>2, <3>3
    <2> QED BY <1>1, <1>4, <1>5, <2>2, ReaderTasks
<1>6. CASE TaskStarts
    <2>1. tasks # <<>> /\ tasks' = Tail(tasks)
        BY <1>6 DEF TaskStarts
    <2>2. /\ Len(tasks') = Len(tasks) - 1 /\ Len(tasks) \in Nat \ {0} /\ Head(tasks) = tasks[1]
          /\ \A i \in 1 .. Len(tasks') : i + 1 \in 1 .. Len(tasks) /\ tasks'[i] = tasks[i + 1]
        BY <1>1, <2>1
    <2>3. ASSUME NEW i \in 1 .. Len(tasks') PROVE tasks[i + 1].run # Head(tasks).run
        <3>1. i + 1 # 1 /\ 1 \in 1 .. Len(tasks)
            BY <2>2
        <3> QED BY <1>1, <2>2, <3>1 DEF OneEnd
    <2> HIDE DEF Kept
    <2> QED BY <1>3, <2>2, <2>3
<1>7. UNCHANGED tasks \/ Reader \/ TaskStarts
    BY NextCases, GatewayKeeps, UserKeeps, ResumedKeeps, FailureKeeps
       DEF TurnEnds, TurnTimesOut, Reap, hub, vars
<1> QED BY <1>4, <1>5, <1>6, <1>7

LEMMA PrivateStep ==
    ASSUME VoiceInv, [Next]_vars
    PROVE  PrivateInv'
<1>1. HubInv /\ KnownInv /\ TypeOK /\ KnownStays /\ TypeActive /\ HeardKnown /\ Heard
    BY TypeParts, RunsStay, RepliesStep DEF VoiceInv, HubInv, KnownInv
<1>2. SUFFICES ASSUME NEW r \in Run, NEW c \in Client, key'[r] = "voice", <<c, r>> \in heard'
               PROVE  c = VoiceClient \/ r \in forgotten'
    BY DEF PrivateInv
<1>3. Known(r) /\ key[r] = "voice"
    BY <1>1, <1>2 DEF Heard, HeardKnown, KnownStays
<1>4. ASSUME NEW entry, entry = active[r], entry # None
      PROVE  entry.pane /\ entry.client = VoiceClient /\ VoiceKey = "voice"
    BY <1>1, <1>3, <1>4, Apart DEF KnownInv, ActiveKnown, TypeActive
<1>5. CASE <<c, r>> \in heard
    BY <1>3, <1>5, ForgottenGrows DEF VoiceInv, PrivateInv
<1>6. CASE <<c, r>> \notin heard
    <2>1. ASSUME NEW q \in Run, Delta(q) PROVE c = VoiceClient
        <3>1. Relayed(q) /\ r = q /\ c \in ChunkTo(q)
            BY <1>2, <1>6, <2>1 DEF Delta
        <3>2. active[r] # None
            BY <1>3, <3>1 DEF Relayed
        <3>3. active[r].pane /\ active[r].client = VoiceClient /\ conn[VoiceClient]
            BY <1>4, <3>2, Apart DEF VoiceInv, AllHere
        <3> QED BY <3>1, <3>2, <3>3 DEF ChunkTo
    <2>2. ASSUME TaskStarts PROVE c = VoiceClient \/ r \in forgotten'
        <3> DEFINE e == Head(tasks)
                   t == Task(e)
                   text == OwnText(e, active[e.run])
        <3>1. tasks # <<>> /\ (heard' = heard \/ Deliver(t, text))
            BY <2>2 DEF TaskStarts
        <3>2. e \in Events /\ FrameKnown(e) /\ key[e.run] # "cron" /\ e.run \in Run /\ e = tasks[1]
              /\ 1 \in 1 .. Len(tasks)
            BY <1>1, <3>1, StartedTask, TypeParts DEF TypeReplies
        <3>3. text # None => text.of = e.run
            BY <1>1, <3>2, OwnTextForm
        <3>4. t.entry = active[e.run]
            BY DEF Task
        <3> HIDE DEF t, text
        <3>5. r = e.run /\ (t.entry # None /\ t.entry.pane => c = t.entry.client)
            BY <1>2, <1>6, <3>1, <3>3, DeliveredTo
        <3>6. active[r] # None \/ r \in forgotten
            BY <1>3, <3>2, <3>5 DEF VoiceInv, VoiceTracked
        <3> QED BY <1>4, <3>4, <3>5, <3>6, ForgottenGrows
    <2>3. ASSUME NEW t \in fetching, Fetched(t) \/ FetchFails(t) PROVE c = VoiceClient
        <3>1. PICK text : Deliver(t, text) /\ TextOf(text, t.key)
            <4>1. CASE FetchFails(t)
                BY <4>1 DEF FetchFails, TextOf
            <4>2. CASE Fetched(t)
                <5>1. PICK f \in answers : /\ f.type = "history" /\ f.task = t
                                           /\ Deliver(t, Fresh(t.key, f.text))
                    BY <4>2 DEF Fetched, Resumes
                <5>2. FrameKnown(f)
                    BY <1>1 DEF KnownInv, AnswersKnown
                <5> QED BY <5>1, <5>2 DEF FrameKnown, TextOf, Fresh
            <4> QED BY <2>3, <4>1, <4>2
        <3>2. text # None /\ r = text.of /\ (t.entry # None /\ t.entry.pane => c = t.entry.client)
            BY <1>2, <1>6, <3>1, DeliveredTo
        <3>3. t.key = "voice"
            BY <1>3, <3>1, <3>2 DEF TextOf
        <3>4. t.entry # None /\ t.entry.pane /\ t.entry.client = VoiceClient
            BY <1>1, <3>3 DEF KnownInv, FetchingKnown, Bound
        <3> QED BY <3>2, <3>4
    <2>4. \/ UNCHANGED heard \/ TaskStarts \/ (\E q \in Run : Delta(q))
          \/ \E t \in fetching : Fetched(t) \/ FetchFails(t)
        <3>1. CASE Reader
            BY <3>1 DEF Reader, Resolves, RunStarted, Terminal, history
        <3>2. CASE Resumed
            BY <3>2 DEF Resumed, MessageSent, AbortDone, ResetDone, VoiceSent, history
        <3>3. CASE Failure
            BY <3>3 DEF Failure, RequestFails, SocketLost
        <3> QED BY <3>1, <3>2, <3>3, NextCases, GatewayKeeps, UserKeeps
                DEF TurnEnds, TurnTimesOut, Reap, history, vars
    <2> QED BY <1>2, <1>6, <2>1, <2>2, <2>3, <2>4
<1> QED BY <1>5, <1>6

LEMMA FlowInit ==
    ASSUME Init
    PROVE  FlowInv
<1>1. Len(wire) = 0 /\ Len(tasks) = 0 /\ phase = [r \in Run |-> "free"]
      /\ emitted = [r \in Run |-> 0]
    BY DEF Init
<1>2. Ordered(wire) /\ OneEnd(tasks)
    BY <1>1 DEF Ordered, OneEnd
<1>3. ASSUME NEW r \in Run PROVE Flow(r)
    BY <1>1 DEF Flow, Has, EndOf, Early
<1> QED BY <1>2, <1>3 DEF FlowInv

(* While nothing fails and nothing is slow, a voice session of its own is  *)
(* heard in the pane it is bound to and in no other, unless an abort or a  *)
(* reset dropped the run (_handle_chat_event, _handle_terminal).           *)
THEOREM VoiceCorrect ==
    ASSUME Quiet, ~Slow
    PROVE  Spec => []VoiceStaysPrivate
<1>1. Init => VoiceInv
    <2> SUFFICES ASSUME Init PROVE VoiceInv
        OBVIOUS
    <2>1. AllHere /\ PrivateInv /\ Len(tasks) = 0
        BY DEF Init, AllHere, PrivateInv
    <2>2. VoiceTracked
        BY <2>1 DEF VoiceTracked
    <2> QED BY <2>1, <2>2, HubInit, FlowInit DEF VoiceInv
<1>2. VoiceInv /\ [Next]_vars => VoiceInv'
    <2> SUFFICES ASSUME VoiceInv, [Next]_vars PROVE VoiceInv'
        OBVIOUS
    <2>1. HubInv' /\ FlowInv' /\ AllHere'
        BY HubStep, FlowStep, AllStay DEF VoiceInv, HubInv
    <2>2. VoiceTracked' /\ PrivateInv'
        BY TrackedStep, PrivateStep
    <2> QED BY <2>1, <2>2 DEF VoiceInv
<1>3. VoiceInv => VoiceStaysPrivate
    BY DEF VoiceInv, PrivateInv, VoiceStaysPrivate
<1> QED BY <1>1, <1>2, <1>3, PTL DEF Spec

-----------------------------------------------------------------------------
(* A handler that awaits the answer to its chat.send.                      *)

(* While the handler waits nothing of its run is read, unless the run is   *)
(* missed: all that the run reported is on the wire.                       *)
Pending(a) ==
    pc[a] = "sending" /\ sent[a] \notin missed =>
        /\ phase[sent[a]] = "over" => Has(wire, sent[a])
        /\ Deltas(wire, sent[a], emitted[sent[a]])
SendInv == \A a \in Actor : Pending(a)

(* The handler goes on waiting. *)
Awaits(a) == pc[a] = "sending" /\ pc'[a] = "sending"

(* The reader, a task that starts and a handler that resumes are different *)
(* steps.                                                                  *)
LEMMA OneActs ==
    ASSUME TypeOK
    PROVE  ~ (Reader /\ TaskStarts) /\ ~ (Reader /\ Resumed) /\ ~ (TaskStarts /\ Resumed)
<1>1. Reader => Len(wire') # Len(wire)
    BY ReaderKeeps, TypeParts DEF TypeFrames
<1>2. TaskStarts => Len(tasks') # Len(tasks)
    BY TypeParts DEF TypeReplies, TaskStarts
<1> QED BY <1>1, <1>2, TaskKeeps, ResumedKeeps

LEMMA StillSent ==
    ASSUME Quiet, TypeOK, [Next]_vars, NEW a \in Actor, Awaits(a)
    PROVE  sent'[a] = sent[a]
<1>1. TypeHandlers
    BY TypeParts
<1>2. ASSUME NEW b \in Actor, NEW r \in Run, NEW kd, NEW k, Sends(b, r, kd, k)
      PROVE  sent'[a] = sent[a]
    <2>1. pc[b] = "idle" /\ sent' = [sent EXCEPT ![b] = r]
        BY <1>2 DEF Sends
    <2> QED BY <1>1, <2>1 DEF Awaits, TypeHandlers
<1>3. ASSUME SpeaksAgain \/ BargeIn PROVE sent'[a] = sent[a]
    <2>1. pc' = [pc EXCEPT ![Voice] = "idle"] /\ sent' = [sent EXCEPT ![Voice] = None]
        BY <1>3 DEF SpeaksAgain, BargeIn, CancelActive, Await
    <2> QED BY <1>1, <2>1 DEF Awaits, TypeHandlers
<1>4. CASE UserStep
    <2>1. ASSUME NEW c \in Client, NEW r \in Run, Message(c, r) PROVE sent'[a] = sent[a]
        BY <1>2, <2>1, Apart DEF Message
    <2>2. ASSUME NEW r \in Run, VoiceTurn(r) PROVE sent'[a] = sent[a]
        BY <1>2, <2>2, Apart DEF VoiceTurn
    <2>3. CASE \E c \in Client : Abort(c) \/ Reset(c) \/ Leaves(c) \/ Returns(c)
        BY <2>3 DEF Abort, Reset, Leaves, Returns
    <2> QED BY <1>3, <1>4, <2>1, <2>2, <2>3 DEF UserStep
<1>5. CASE TurnEnds
    <2>1. pc[Voice] = "waiting" /\ sent' = [sent EXCEPT ![Voice] = None]
        BY <1>5 DEF TurnEnds
    <2> QED BY <1>1, <2>1 DEF Awaits, TypeHandlers
<1>6. CASE Resumed
    <2>1. ASSUME NEW c \in Client, MessageSent(c) PROVE sent'[a] = sent[a]
        <3>1. pc' = [pc EXCEPT ![c] = "idle"] /\ sent' = [sent EXCEPT ![c] = None] /\ c \in Actor
            BY <2>1, Apart DEF MessageSent, Await
        <3> QED BY <1>1, <3>1 DEF Awaits, TypeHandlers
    <2> QED BY <1>6, <2>1 DEF Resumed, AbortDone, ResetDone, VoiceSent, Fetched
<1>7. CASE GatewayStep \/ Reader \/ TaskStarts \/ TurnTimesOut \/ (\E r \in Run : Reap(r))
           \/ UNCHANGED vars
    BY <1>7, GatewayKeeps, ReaderKeeps, TaskKeeps DEF TurnTimesOut, Reap, hub, vars
<1> QED BY <1>1, <1>4, <1>5, <1>6, <1>7, NextCases, NoFailure

-----------------------------------------------------------------------------
(* The deltas of a run while none is lost.                                 *)

LEMMA NoneYet ==
    ASSUME TypeOK, CountOK, NEW r \in Run, emitted[r] = 0
    PROVE  Deltas(wire, r, 0)
<1>1. PICK d \in Nat : Deltas(wire, r, d) /\ AccOf(active, r) + d <= emitted[r]
    BY DEF CountOK
<1>2. AccOf(active, r) \in Nat
    BY TypeParts DEF TypeActive, Entries, AccOf
<1>3. d = 0
    BY <1>1, <1>2
<1> QED BY <1>1, <1>3

(* While none is read, all that was streamed is on the wire. *)
LEMMA AllStreamed ==
    ASSUME Quiet, TypeOK, KnownInv, [Next]_vars, NEW r \in Run, Deltas(wire, r, emitted[r]),
           Reader => Delta1(Head(wire), r) = 0
    PROVE  Deltas(wire', r, emitted'[r])
<1>1. emitted[r] \in Nat /\ emitted'[r] \in Nat
    BY TypeParts, RunsStep DEF TypeRuns
<1>2. ~Lost
    BY NoFailure DEF Lost
<1>3. CASE /\ Reader /\ UNCHANGED emitted
           /\ Deltas(wire', r, emitted[r] - Delta1(Head(wire), r))
    <2>1. emitted[r] - Delta1(Head(wire), r) = emitted'[r]
        BY <1>1, <1>3
    <2> QED BY <1>3, <2>1
<1>4. CASE Deltas(wire', r, emitted[r] + (emitted'[r] - emitted[r]))
    <2>1. emitted[r] + (emitted'[r] - emitted[r]) = emitted'[r]
        BY <1>1
    <2> QED BY <1>4, <2>1
<1> QED BY <1>1, <1>2, <1>3, <1>4, DeltasStep

(* A run of which something is read meanwhile is missed. *)
LEMMA NotRead ==
    ASSUME NEW a \in Actor, pc[a] = "sending", sent[a] \notin missed', Reader
    PROVE  ~ Of(Head(wire), sent[a])
<1> SUFFICES ASSUME Of(Head(wire), sent[a]) PROVE FALSE
    OBVIOUS
<1>1. ~Resolves
    BY DEF Resolves, Of
<1>2. PICK r, state : Reads(r, state)
    BY <1>1 DEF Reader, RunStarted, Delta, Terminal
<1>3. r = sent[a]
    BY <1>2 DEF Reads, Of
<1>4. Unregistered(r)
    BY <1>3 DEF Unregistered
<1> QED BY <1>2, <1>3, <1>4 DEF Reads, Misses

(* What is on the wire of a run that nobody reads stays there. *)
LEMMA StaysOn ==
    ASSUME Quiet, HubInv, FlowInv, [Next]_vars, NEW r \in Run,
           Reader => ~ Of(Head(wire), r), phase[r] = "over" => Has(wire, r)
    PROVE  phase'[r] = "over" => Has(wire', r)
<1>1. wire \in Seq(Frames) /\ Ordered(wire)
    BY TypeParts DEF HubInv, TypeFrames, FlowInv
<1>2. ASSUME NEW q \in Run, NEW f \in Events, Reports(q, f)
      PROVE  phase'[r] = "over" => Has(wire', r)
    <2>1. f \in Frames /\ wire' = Append(wire, f)
        BY <1>2 DEF Reports, Frames
    <2>2. Has(wire', r) <=> Has(wire, r) \/ Of(f, r)
        BY <1>1, <2>1, AppendEvents
    <2>3. r # q => phase'[r] = phase[r]
        BY <1>2 DEF Reports
    <2>4. r = q => Of(f, r)
        BY <1>2 DEF Reports, Of, Events
    <2> QED BY <2>2, <2>3, <2>4
<1>3. CASE Holds /\ Idle
    <2>1. Has(wire', r) <=> Has(wire, r)
        BY <1>1, <1>3, IdleEvents
    <2> QED BY <1>3, <2>1 DEF Holds, PhaseHolds
<1>4. CASE Holds /\ Reader
    <2>1. wire # <<>> /\ wire' = Tail(wire)
        BY <1>4, ReaderKeeps
    <2>2. Has(wire, r) <=> Has(wire', r) \/ Of(Head(wire), r)
        BY <1>1, <2>1, TailEvents
    <2> QED BY <1>4, <2>2 DEF Holds, PhaseHolds
<1>5. CASE Holds /\ UNCHANGED wire
    BY <1>5 DEF Holds, PhaseHolds
<1> QED BY <1>2, <1>3, <1>4, <1>5, QuietForm

(* A handler begins to wait for a run of its own that is not under way.    *)
LEMMA NewlySent ==
    ASSUME Quiet, TypeOK, [Next]_vars, NEW a \in Actor, pc[a] # "sending", pc'[a] = "sending"
    PROVE  /\ sent'[a] \in Run /\ UNCHANGED <<wire, emitted>>
           /\ phase[sent'[a]] = "free" /\ phase'[sent'[a]] = "live"
<1> DEFINE Goal == /\ sent'[a] \in Run /\ UNCHANGED <<wire, emitted>>
                   /\ phase[sent'[a]] = "free" /\ phase'[sent'[a]] = "live"
<1>1. TypeHandlers /\ TypeRuns
    BY TypeParts
<1>2. ASSUME NEW b \in Actor, NEW where, pc' = [pc EXCEPT ![b] = where], where # "sending"
      PROVE  FALSE
    BY <1>1, <1>2 DEF TypeHandlers
<1>3. ASSUME NEW b \in Actor, NEW r \in Run, NEW kd, NEW k, Sends(b, r, kd, k), UNCHANGED wire
      PROVE  Goal
    <2>1. /\ pc' = [pc EXCEPT ![b] = "sending"] /\ sent' = [sent EXCEPT ![b] = r]
          /\ phase[r] = "free" /\ phase' = [phase EXCEPT ![r] = "live"]
          /\ UNCHANGED emitted
        BY <1>3 DEF Sends, Accepts, Await
    <2>2. b = a
        BY <1>1, <2>1 DEF TypeHandlers
    <2> QED BY <1>1, <1>3, <2>1, <2>2 DEF TypeHandlers, TypeRuns
<1> HIDE DEF Goal
<1> SUFFICES Goal
    BY DEF Goal
<1>4. CASE UserStep
    <2>1. ASSUME NEW c \in Client, NEW r \in Run, Message(c, r) PROVE Goal
        BY <1>3, <2>1, Apart DEF Message
    <2>2. ASSUME NEW r \in Run, VoiceTurn(r) PROVE Goal
        BY <1>3, <2>2, Apart DEF VoiceTurn
    <2>3. ASSUME NEW c \in Client, Abort(c) \/ Reset(c) PROVE FALSE
        BY <1>2, <2>3, Apart DEF Abort, Reset, Await
    <2>4. ASSUME SpeaksAgain \/ BargeIn PROVE FALSE
        <3>1. pc' = [pc EXCEPT ![Voice] = "idle"] /\ Voice \in Actor
            BY <2>4 DEF SpeaksAgain, BargeIn, CancelActive, Await, Actor
        <3> QED BY <1>2, <3>1
    <2>5. ASSUME NEW c \in Client, Leaves(c) \/ Returns(c) PROVE FALSE
        BY <2>5 DEF Leaves, Returns
    <2> QED BY <1>4, <2>1, <2>2, <2>3, <2>4, <2>5 DEF UserStep
<1>5. CASE Resumed
    <2>1. ASSUME NEW c \in Client, MessageSent(c) \/ AbortDone(c) \/ ResetDone(c) PROVE FALSE
        <3>1. c \in Actor
            BY DEF Actor
        <3>2. CASE MessageSent(c) \/ ResetDone(c)
            BY <1>2, <3>1, <3>2 DEF MessageSent, ResetDone, Await
        <3>3. CASE AbortDone(c)
            <4>1. pc' = [pc EXCEPT ![c] = IF pc[c] = "clearing" THEN "resetting" ELSE "idle"]
                BY <3>3 DEF AbortDone, Await
            <4> QED BY <1>2, <3>1, <4>1
        <3> QED BY <2>1, <3>2, <3>3
    <2>2. ASSUME VoiceSent PROVE FALSE
        BY <1>2, <2>2 DEF VoiceSent, Await, Actor
    <2>3. CASE UNCHANGED pc
        BY <2>3
    <2> QED BY <1>5, <2>1, <2>2, <2>3 DEF Resumed, Fetched
<1>6. CASE TurnEnds
    BY <1>2, <1>6 DEF TurnEnds, Await, Actor
<1>7. CASE GatewayStep \/ Reader \/ TaskStarts \/ TurnTimesOut \/ (\E r \in Run : Reap(r))
           \/ UNCHANGED vars
    BY <1>7, GatewayKeeps, ReaderKeeps, TaskKeeps DEF TurnTimesOut, Reap, hub, vars
<1> QED BY <1>4, <1>5, <1>6, <1>7, NextCases, NoFailure

LEMMA SendStep ==
    ASSUME Quiet, HubInv, FlowInv, SendInv, [Next]_vars
    PROVE  SendInv'
<1>1. TypeOK /\ KnownInv /\ TypeHandlers /\ TypeRuns /\ wire \in Seq(Frames)
    BY TypeParts DEF HubInv, TypeFrames
<1> SUFFICES ASSUME NEW a \in Actor, pc'[a] = "sending", sent'[a] \notin missed'
             PROVE  /\ phase'[sent'[a]] = "over" => Has(wire', sent'[a])
                    /\ Deltas(wire', sent'[a], emitted'[sent'[a]])
    BY DEF SendInv, Pending
<1>2. CASE pc[a] # "sending"
    <2> DEFINE r == sent'[a]
    <2>1. /\ r \in Run /\ UNCHANGED <<wire, emitted>>
          /\ phase[r] = "free" /\ phase'[r] = "live"
        BY <1>1, <1>2, NewlySent
    <2> HIDE DEF r
    <2>2. emitted[r] = 0
        BY <2>1 DEF FlowInv, Flow, Early
    <2>3. Deltas(wire, r, 0)
        BY <1>1, <2>1, <2>2, NoneYet DEF HubInv
    <2>4. Deltas(wire', r, emitted'[r])
        BY <2>1, <2>2, <2>3
    <2> QED BY <2>1, <2>4 DEF r
<1>3. CASE pc[a] = "sending"
    <2>1. Awaits(a) /\ sent[a] \in Run
        BY <1>1, <1>3 DEF Awaits, TypeHandlers
    <2>2. sent'[a] = sent[a]
        BY <1>1, <2>1, StillSent
    <2>3. sent[a] \notin missed' /\ sent[a] \notin missed
        BY <1>1, <2>2, MissedStep
    <2>4. /\ phase[sent[a]] = "over" => Has(wire, sent[a])
          /\ Deltas(wire, sent[a], emitted[sent[a]])
        BY <1>3, <2>3 DEF SendInv, Pending
    <2>5. Reader => ~ Of(Head(wire), sent[a])
        BY <1>3, <2>3, NotRead
    <2>6. phase'[sent[a]] = "over" => Has(wire', sent[a])
        BY <2>1, <2>4, <2>5, StaysOn
    <2>7. Deltas(wire', sent[a], emitted'[sent[a]])
        <3>1. Reader => Delta1(Head(wire), sent[a]) = 0
            BY <2>5 DEF Delta1, Of
        <3> QED BY <1>1, <2>1, <2>4, <3>1, AllStreamed
    <2> QED BY <2>2, <2>6, <2>7
<1> QED BY <1>2, <1>3

-----------------------------------------------------------------------------
(* The entry of a run: it stays as it is, is new, or counts a delta more.  *)

EntryStays(r) ==
    /\ active'[r] = active[r]
    /\ Reader => Delta1(Head(wire), r) = 0
    /\ TaskStarts => Head(tasks).run # r
Registers(r) ==
    /\ Resumed /\ active'[r].acc = 0
    /\ \E a \in Actor : pc[a] = "sending" /\ sent[a] = r

LEMMA EntryForm ==
    ASSUME TypeOK, [Next]_vars, NEW r \in Run, active'[r] # None
    PROVE  \/ EntryStays(r)
           \/ Registers(r)
           \/ RunStarted(r) /\ active'[r].acc = 0
           \/ Delta(r) /\ active[r] # None /\ active'[r].acc = active[r].acc + 1
<1>1. TypeActive /\ TypeHandlers
    BY TypeParts
<1> DEFINE Goal == \/ EntryStays(r)
                   \/ Registers(r)
                   \/ RunStarted(r) /\ active'[r].acc = 0
                   \/ Delta(r) /\ active[r] # None /\ active'[r].acc = active[r].acc + 1
<1> HIDE DEF Goal
<1> SUFFICES Goal
    BY DEF Goal
<1>2. CASE Reader
    <2>1. ~TaskStarts
        BY <1>2, OneActs
    <2>2. ASSUME active'[r] = active[r], Delta1(Head(wire), r) = 0 PROVE Goal
        BY <2>1, <2>2 DEF EntryStays, Goal
    <2>8. ASSUME Resolves PROVE Goal
        <3>1. Delta1(Head(wire), r) = 0 /\ UNCHANGED active
            BY <2>8 DEF Resolves, Delta1
        <3> QED BY <2>2, <3>1
    <2>9. ASSUME NEW q \in Run, RunStarted(q) PROVE Goal
        <3>1. Delta1(Head(wire), r) = 0
            BY <2>9 DEF RunStarted, Reads, Delta1
        <3>2. \/ active' = active
              \/ active' = [active EXCEPT ![q] = Entry(None, FALSE, 0)]
            BY <2>9 DEF RunStarted
        <3>3. CASE active'[r] = active[r]
            BY <2>2, <3>1, <3>3
        <3>4. CASE active'[r] # active[r]
            <4>1. q = r /\ active'[r].acc = 0
                BY <1>1, <3>2, <3>4 DEF TypeActive, Entry
            <4> QED BY <2>9, <4>1 DEF Goal
        <3> QED BY <3>3, <3>4
    <2>10. ASSUME NEW q \in Run, Delta(q) PROVE Goal
        <3>1. \/ active' = active
              \/ active[q] # None /\ active' = [active EXCEPT ![q].acc = @ + 1]
            BY <2>10 DEF Delta
        <3>2. CASE q # r
            <4>1. Delta1(Head(wire), r) = 0
                BY <2>10, <3>2 DEF Delta, Reads, Delta1
            <4> QED BY <1>1, <2>2, <3>1, <3>2, <4>1 DEF TypeActive
        <3>3. CASE q = r
            <4>1. active[r] # None /\ active' = [active EXCEPT ![r].acc = @ + 1]
                BY <2>10, <3>3 DEF Delta
            <4>2. active'[r] = Longer(active[r]) /\ active[r] \in Entries
                BY <1>1, <4>1 DEF TypeActive, Longer
            <4>3. active'[r].acc = active[r].acc + 1
                BY <4>2 DEF Longer, Entries
            <4> QED BY <2>10, <3>3, <4>1, <4>3 DEF Goal
        <3> QED BY <3>2, <3>3
    <2>11. ASSUME NEW q \in Run, NEW state \in Ends, Terminal(q, state) PROVE Goal
        <3>1. Delta1(Head(wire), r) = 0 /\ active'[r] = active[r]
            BY <2>11 DEF Terminal, Reads, Delta1, Ends
        <3> QED BY <2>2, <3>1
    <2> QED BY <1>2, <2>8, <2>9, <2>10, <2>11 DEF Reader, Ends
<1>3. CASE ~Reader /\ TaskStarts
    <2>1. active' = [active EXCEPT ![Head(tasks).run] = None]
        BY <1>3 DEF TaskStarts
    <2>2. Head(tasks).run # r /\ active'[r] = active[r]
        BY <1>1, <2>1 DEF TypeActive
    <2> QED BY <1>3, <2>2 DEF EntryStays, Goal
<1>4. CASE Resumed
    <2>1. ~Reader /\ ~TaskStarts
        BY <1>4, OneActs
    <2>2. ASSUME active'[r] = active[r] PROVE Goal
        BY <2>1, <2>2 DEF EntryStays, Goal
    <2>3. ASSUME NEW a \in Actor, NEW c, NEW pane, pc[a] = "sending",
                 active' = [active EXCEPT ![sent[a]] = Entry(c, pane, 0)]
          PROVE  Goal
        <3>1. CASE r = sent[a]
            <4>1. active'[r].acc = 0
                BY <1>1, <2>3, <3>1 DEF TypeActive, Entry
            <4> QED BY <1>4, <2>3, <3>1, <4>1 DEF Registers, Goal
        <3>2. CASE r # sent[a]
            BY <1>1, <2>2, <2>3, <3>2 DEF TypeActive
        <3> QED BY <3>1, <3>2
    <2>4. ASSUME NEW c \in Client, MessageSent(c) PROVE Goal
        BY <2>3, <2>4, Apart DEF MessageSent
    <2>5. ASSUME VoiceSent PROVE Goal
        BY <2>3, <2>5, Apart DEF VoiceSent
    <2>6. ASSUME NEW c \in Client, AbortDone(c) PROVE FALSE
        BY <2>6 DEF AbortDone, DropRuns
    <2>7. ASSUME UNCHANGED active PROVE Goal
        BY <2>2, <2>7
    <2> QED BY <1>4, <2>4, <2>5, <2>6, <2>7 DEF Resumed, ResetDone, Fetched
<1>5. CASE ~Reader /\ ~TaskStarts /\ ~Resumed
    <2>1. CASE \E q \in Run : Reap(q)
        <3>1. PICK q \in Run : active' = [active EXCEPT ![q] = None]
            BY <2>1 DEF Reap
        <3>2. active'[r] = active[r]
            BY <1>1, <3>1 DEF TypeActive
        <3> QED BY <1>5, <3>2 DEF EntryStays, Goal
    <2>2. CASE GatewayStep \/ UserStep \/ TurnEnds \/ TurnTimesOut \/ Failure \/ UNCHANGED vars
        <3>1. UNCHANGED active
            BY <2>2, GatewayKeeps, UserKeeps, FailureKeeps DEF TurnEnds, TurnTimesOut, hub, vars
        <3> QED BY <1>5, <3>1 DEF EntryStays, Goal
    <2> QED BY <1>5, <2>1, <2>2, NextCases
<1> QED BY <1>2, <1>3, <1>4, <1>5

-----------------------------------------------------------------------------
(* A tracked run is under way or its end is.                               *)

Ended(r, w, ts) == EndOf(r, w) \/ EndOf(r, ts)

(* The end of a tracked run is handed from the wire to a task. *)
LEMMA EndHanded ==
    ASSUME HubInv, FlowInv, Reader, NEW r \in Run, active[r] # None, Ended(r, wire, tasks)
    PROVE  Ended(r, wire', tasks')
<1>1. wire \in Seq(Frames) /\ tasks \in Seq(Events) /\ wire # <<>> /\ wire' = Tail(wire)
      /\ Ordered(wire)
    BY TypeParts, ReaderKeeps DEF HubInv, TypeFrames, TypeReplies, FlowInv
<1> DEFINE h == Head(wire)
<1>2. EndOf(r, wire) => EndOf(r, wire') \/ (Of(h, r) /\ h.state \in Ends)
    BY <1>1, TailEvents
<1>3. UNCHANGED tasks \/ (h \in Events /\ tasks' = Append(tasks, h))
    BY ReaderTasks
<1> HIDE DEF h
<1>4. ASSUME EndOf(r, tasks) PROVE EndOf(r, tasks')
    <2>1. h \in Events => (EndOf(r, Append(tasks, h)) <=>
                              EndOf(r, tasks) \/ (Of(h, r) /\ h.state \in Ends))
        BY <1>1, AppendEvents
    <2> QED BY <1>3, <1>4, <2>1
<1> USE DEF h
<1>5. ASSUME Of(h, r), h.state \in Ends PROVE EndOf(r, tasks')
    <2>1. Terminal(r, h.state)
        <3>1. h.type = "event" /\ h.run = r /\ h.state \notin {"started", "delta"}
            BY <1>5 DEF Of, Ends
        <3>2. ~Resolves /\ ~ \E q \in Run : RunStarted(q) \/ Delta(q)
            BY <3>1 DEF Resolves, RunStarted, Delta, Reads
        <3>6. PICK q \in Run, state \in Ends : Terminal(q, state)
            BY <3>2 DEF Reader, Ends
        <3>7. q = r /\ state = h.state
            BY <3>1, <3>6 DEF Terminal, Reads
        <3> QED BY <3>6, <3>7
    <2>2. tasks' = Append(tasks, h)
        BY <2>1 DEF Terminal, Relayed
    <2>3. h \in Events
        BY <1>1, <1>5 DEF Of, Frames, Replies
    <2> HIDE DEF h
    <2> QED BY <1>1, <1>5, <2>2, <2>3, AppendEvents
<1> QED BY <1>2, <1>4, <1>5 DEF Ended

(* A run that stays tracked does not lose its end, and gets one when it is *)
(* over.                                                                   *)
LEMMA EndStays ==
    ASSUME Quiet, HubInv, FlowInv, [Next]_vars, NEW r \in Run, active[r] # None,
           TaskStarts => Head(tasks).run # r, phase[r] = "over" => Ended(r, wire, tasks)
    PROVE  phase'[r] = "over" => Ended(r, wire', tasks')
<1>1. wire \in Seq(Frames) /\ tasks \in Seq(Events)
    BY TypeParts DEF HubInv, TypeFrames, TypeReplies
<1>2. ASSUME NEW q \in Run, NEW f \in Events, Reports(q, f)
      PROVE  phase'[r] = "over" => Ended(r, wire', tasks')
    <2>1. f \in Frames /\ wire' = Append(wire, f) /\ UNCHANGED tasks
        BY <1>2 DEF Reports, Frames, hub
    <2>2. EndOf(r, wire') <=> EndOf(r, wire) \/ (Of(f, r) /\ f.state \in Ends)
        BY <1>1, <2>1, AppendEvents
    <2>3. r # q => phase'[r] = phase[r]
        BY <1>2 DEF Reports
    <2>4. r = q /\ phase'[r] = "over" => Of(f, r) /\ f.state \in Ends
        BY <1>2 DEF Reports, Of, Events, Ends
    <2> QED BY <2>1, <2>2, <2>3, <2>4 DEF Ended
<1>3. CASE Holds /\ Idle /\ UNCHANGED tasks
    <2>1. EndOf(r, wire') <=> EndOf(r, wire)
        BY <1>1, <1>3, IdleEvents DEF FlowInv
    <2> QED BY <1>3, <2>1 DEF Holds, PhaseHolds, Ended
<1>4. CASE Holds /\ Reader
    BY <1>4, EndHanded DEF Holds, PhaseHolds
<1>5. CASE Holds /\ TaskStarts /\ UNCHANGED wire
    <2>1. tasks # <<>> /\ tasks' = Tail(tasks) /\ Head(tasks).run # r
        BY <1>5 DEF TaskStarts
    <2>2. EndOf(r, tasks) => EndOf(r, tasks')
        <3>1. /\ Len(tasks') = Len(tasks) - 1 /\ Len(tasks) \in Nat /\ Head(tasks) = tasks[1]
              /\ \A j \in 1 .. Len(tasks') : tasks'[j] = tasks[j + 1]
            BY <1>1, <2>1
        <3>2. \A i \in 1 .. Len(tasks) : i # 1 =>
                 i - 1 \in 1 .. Len(tasks') /\ tasks'[i - 1] = tasks[i]
            BY <3>1
        <3> QED BY <2>1, <3>1, <3>2 DEF EndOf
    <2> QED BY <1>5, <2>2 DEF Holds, PhaseHolds, Ended
<1> QED BY <1>2, <1>3, <1>4, <1>5, QuietForm

LEMMA TrackedEnds ==
    ASSUME Quiet, HubInv, FlowInv, SendInv, TrackedRunEnds, [Next]_vars
    PROVE  TrackedRunEnds'
<1>1. TypeOK /\ KnownInv /\ wire \in Seq(Frames) /\ Ordered(wire)
    BY TypeParts DEF HubInv, TypeFrames, FlowInv
<1> SUFFICES ASSUME NEW r \in Run, active'[r] # None, r \notin missed'
             PROVE  phase'[r] = "over" => Ended(r, wire', tasks')
    BY DEF TrackedRunEnds, Ended
<1>0. r \notin missed
    BY <1>1, MissedStep
<1>2. CASE EntryStays(r)
    <2>1. active[r] # None /\ (TaskStarts => Head(tasks).run # r)
        BY <1>2 DEF EntryStays
    <2>2. phase[r] = "over" => Ended(r, wire, tasks)
        BY <1>0, <2>1 DEF TrackedRunEnds, Ended
    <2> QED BY <2>1, <2>2, EndStays
<1>3. ASSUME Reader, ~ (Of(Head(wire), r) /\ Head(wire).state \in Ends),
             phase[r] = "over" => Has(wire, r)
      PROVE  phase'[r] = "over" => Ended(r, wire', tasks')
    <2>1. wire # <<>> /\ wire' = Tail(wire) /\ UNCHANGED phase
        BY <1>3, ReaderKeeps DEF gateway
    <2>2. EndOf(r, wire) => EndOf(r, wire')
        BY <1>1, <1>3, <2>1, TailEvents
    <2> QED BY <1>3, <2>1, <2>2 DEF FlowInv, Flow, Ended
<1>4. CASE Registers(r)
    <2>1. PICK a \in Actor : pc[a] = "sending" /\ sent[a] = r
        BY <1>4 DEF Registers
    <2>2. phase[r] = "over" => Has(wire, r)
        BY <1>0, <2>1 DEF SendInv, Pending
    <2>3. UNCHANGED <<phase, wire, tasks>>
        BY <1>4, ResumedKeeps DEF Registers, gateway
    <2> QED BY <2>2, <2>3 DEF FlowInv, Flow, Ended
<1>5. CASE RunStarted(r) \/ Delta(r)
    <2>0. wire # <<>> /\ Of(Head(wire), r) /\ Head(wire).state \notin Ends
        BY <1>5 DEF RunStarted, Delta, Reads, Of, Ends
    <2>1. Head(wire) = wire[1] /\ 1 \in 1 .. Len(wire) /\ Of(Head(wire), r)
          /\ Head(wire).state \notin Ends
        BY <1>1, <2>0
    <2>2. Has(wire, r)
        BY <2>1 DEF Has
    <2> QED BY <1>3, <1>5, <2>1, <2>2 DEF Reader
<1> QED BY <1>1, <1>2, <1>4, <1>5, EntryForm

(* While nothing fails, a tracked run is under way or its end is on the    *)
(* wire or waits for its task, unless an event of it came before it was    *)
(* registered or the run was given up: _active_runs holds nothing else     *)
(* for ever (_handle_message, _handle_chat_event, _handle_terminal).       *)
THEOREM TrackedCorrect ==
    ASSUME Quiet
    PROVE  Spec => []TrackedRunEnds
<1> DEFINE TrackedInv == HubInv /\ FlowInv /\ SendInv /\ TrackedRunEnds
<1>1. Init => TrackedInv
    <2> SUFFICES ASSUME Init PROVE TrackedInv
        OBVIOUS
    <2>1. SendInv /\ TrackedRunEnds
        BY DEF Init, SendInv, Pending, TrackedRunEnds
    <2> QED BY <2>1, HubInit, FlowInit
<1>2. TrackedInv /\ [Next]_vars => TrackedInv'
    <2> SUFFICES ASSUME HubInv, FlowInv, SendInv, TrackedRunEnds, [Next]_vars
                 PROVE  TrackedInv'
        OBVIOUS
    <2>1. HubInv' /\ FlowInv'
        BY HubStep, FlowStep
    <2>2. SendInv' /\ TrackedRunEnds'
        BY SendStep, TrackedEnds
    <2> QED BY <2>1, <2>2
<1>3. TrackedInv => TrackedRunEnds
    OBVIOUS
<1> QED BY <1>1, <1>2, <1>3, PTL DEF Spec

-----------------------------------------------------------------------------
(* What an entry has counted and what is on the wire make the whole reply. *)

Counted(r) ==
    active[r] # None /\ r \notin missed =>
        \E d \in Nat : Deltas(wire, r, d) /\ active[r].acc + d = emitted[r]

(* Before its start is read nothing of a run is. *)
StartOn(w, r) == \E i \in 1 .. Len(w) : Of(w[i], r) /\ w[i].state = "started"
Unread(r) == StartOn(wire, r) => Deltas(wire, r, emitted[r])

CountedInv == \A r \in Run : Counted(r) /\ Unread(r)

LEMMA UnreadStep ==
    ASSUME Quiet, HubInv, FlowInv, CountedInv, [Next]_vars, NEW r \in Run, StartOn(wire', r)
    PROVE  Deltas(wire', r, emitted'[r])
<1>1. TypeOK /\ KnownInv /\ CountOK /\ wire \in Seq(Frames) /\ Ordered(wire)
    BY TypeParts DEF HubInv, TypeFrames, FlowInv
<1>2. PICK i \in 1 .. Len(wire') : Of(wire'[i], r) /\ wire'[i].state = "started"
    BY DEF StartOn
<1>3. ASSUME NEW j \in 1 .. Len(wire), wire[j] = wire'[i] PROVE Deltas(wire, r, emitted[r])
    BY <1>2, <1>3 DEF StartOn, CountedInv, Unread
<1>4. CASE Reader
    <2>1. wire # <<>> /\ wire' = Tail(wire)
        BY <1>4, ReaderKeeps
    <2>2. /\ i + 1 \in 1 .. Len(wire) /\ wire[i + 1] = wire'[i] /\ 1 < i + 1
          /\ 1 \in 1 .. Len(wire) /\ Head(wire) = wire[1]
        BY <1>1, <2>1
    <2>3. ~ Of(Head(wire), r)
        BY <1>1, <1>2, <2>2 DEF Ordered, Of
    <2>4. Delta1(Head(wire), r) = 0
        BY <2>3 DEF Of, Delta1
    <2>5. Deltas(wire, r, emitted[r])
        BY <1>3, <2>2
    <2> QED BY <1>1, <2>4, <2>5, AllStreamed
<1>5. CASE ~Reader
    <2>1. ASSUME NEW q \in Run, NEW f \in Events, Reports(q, f)
          PROVE  Deltas(wire, r, emitted[r])
        <3>1. f \in Frames /\ wire' = Append(wire, f) /\ f.run = q
            BY <2>1 DEF Reports, Frames
        <3>2. CASE i \in 1 .. Len(wire)
            <4>1. wire[i] = wire'[i]
                BY <1>1, <3>1, <3>2
            <4> QED BY <1>3, <3>2, <4>1
        <3>3. CASE i \notin 1 .. Len(wire)
            <4>1. wire'[i] = f
                BY <1>1, <3>1, <3>3
            <4>2. phase[r] = "live"
                BY <1>2, <2>1, <3>1, <4>1 DEF Reports, Of, Ends
            <4> QED BY <1>1, <4>2, NoneYet DEF FlowInv, Flow, Early
        <3> QED BY <3>2, <3>3
    <2>2. ASSUME Idle PROVE Deltas(wire, r, emitted[r])
        <3>1. \E j \in 1 .. Len(wire) : wire[j] = wire'[i]
            <4>1. ASSUME NEW f \in Frames, f.type # "event", wire' = Append(wire, f)
                  PROVE  i \in 1 .. Len(wire) /\ wire[i] = wire'[i]
                <5>1. i \notin 1 .. Len(wire) => wire'[i] = f
                    BY <1>1, <4>1
                <5>2. i \in 1 .. Len(wire)
                    BY <1>2, <4>1, <5>1 DEF Of
                <5> QED BY <1>1, <4>1, <5>2
            <4>2. ASSUME NEW k \in 1 .. Len(wire), wire' = RemoveAt(wire, k)
                  PROVE  \E j \in 1 .. Len(wire) : wire[j] = wire'[i]
                <5>1. Within(wire', wire, k)
                    BY <1>1, <4>2, WithinRemoved
                <5> QED BY <5>1 DEF Within
            <4>3. CASE UNCHANGED wire
                BY <4>3
            <4> QED BY <2>2, <4>1, <4>2, <4>3 DEF Idle
        <3> QED BY <1>3, <3>1
    <2>3. ASSUME UNCHANGED wire PROVE Deltas(wire, r, emitted[r])
        BY <1>3, <2>3
    <2>4. Deltas(wire, r, emitted[r])
        BY <1>5, <2>1, <2>2, <2>3, QuietForm
    <2> QED BY <1>1, <1>5, <2>4, AllStreamed
<1> QED BY <1>4, <1>5

LEMMA CountedStep ==
    ASSUME Quiet, HubInv, SendInv, CountedInv, [Next]_vars,
           NEW r \in Run, active'[r] # None, r \notin missed'
    PROVE  \E d \in Nat : Deltas(wire', r, d) /\ active'[r].acc + d = emitted'[r]
<1>1. TypeOK /\ KnownInv /\ TypeRuns /\ TypeActive /\ wire \in Seq(Frames)
    BY TypeParts DEF HubInv, TypeFrames
<1>0. r \notin missed
    BY <1>1, MissedStep
<1>2. emitted[r] \in Nat /\ emitted'[r] \in Nat /\ ~Lost
    BY <1>1, RunsStep, NoFailure DEF TypeRuns, Lost
<1>3. active[r] # None => active[r].acc \in Nat
    BY <1>1 DEF TypeActive, Entries
<1>4. CASE EntryStays(r)
    <2>1. active[r] # None /\ active'[r] = active[r] /\ (Reader => Delta1(Head(wire), r) = 0)
        BY <1>4 DEF EntryStays
    <2>2. PICK d \in Nat : Deltas(wire, r, d) /\ active[r].acc + d = emitted[r]
        BY <1>0, <2>1 DEF CountedInv, Counted
    <2>3. CASE /\ Reader /\ UNCHANGED emitted
               /\ Deltas(wire', r, d - Delta1(Head(wire), r))
        <3>1. d - Delta1(Head(wire), r) = d
            BY <2>1, <2>3
        <3> QED BY <2>1, <2>2, <2>3, <3>1
    <2>4. CASE emitted'[r] >= emitted[r] /\ Deltas(wire', r, d + (emitted'[r] - emitted[r]))
        <3> DEFINE e == d + (emitted'[r] - emitted[r])
        <3>1. e \in Nat /\ active'[r].acc + e = emitted'[r]
            BY <1>2, <1>3, <2>1, <2>2, <2>4
        <3>2. Deltas(wire', r, e)
            BY <2>4
        <3> HIDE DEF e
        <3> QED BY <3>1, <3>2
    <2> QED BY <1>1, <1>2, <2>2, <2>3, <2>4, DeltasStep
<1>5. ASSUME active'[r].acc = 0, Deltas(wire, r, emitted[r]),
             Reader => Delta1(Head(wire), r) = 0
      PROVE  \E d \in Nat : Deltas(wire', r, d) /\ active'[r].acc + d = emitted'[r]
    <2>1. Deltas(wire', r, emitted'[r])
        BY <1>1, <1>5, AllStreamed
    <2>2. active'[r].acc + emitted'[r] = emitted'[r]
        BY <1>2, <1>5
    <2> QED BY <1>2, <2>1, <2>2
<1>6. CASE Registers(r)
    <2>1. PICK a \in Actor : pc[a] = "sending" /\ sent[a] = r
        BY <1>6 DEF Registers
    <2>2. Deltas(wire, r, emitted[r])
        BY <1>0, <2>1 DEF SendInv, Pending
    <2>3. ~Reader
        BY <1>1, <1>6, OneActs DEF Registers
    <2> QED BY <1>5, <1>6, <2>2, <2>3 DEF Registers
<1>7. CASE RunStarted(r) /\ active'[r].acc = 0
    <2>1. wire # <<>> /\ Of(Head(wire), r) /\ Head(wire).state = "started"
        BY <1>7 DEF RunStarted, Reads, Of
    <2>2. 1 \in 1 .. Len(wire) /\ Head(wire) = wire[1]
        BY <1>1, <2>1
    <2>3. StartOn(wire, r) /\ Delta1(Head(wire), r) = 0
        BY <2>1, <2>2 DEF StartOn, Delta1
    <2> QED BY <1>5, <1>7, <2>3 DEF CountedInv, Unread
<1>8. CASE Delta(r) /\ active[r] # None /\ active'[r].acc = active[r].acc + 1
    <2>1. PICK d \in Nat : Deltas(wire, r, d) /\ active[r].acc + d = emitted[r]
        BY <1>0, <1>8 DEF CountedInv, Counted
    <2>2. Reader /\ Delta1(Head(wire), r) = 1
        BY <1>8 DEF Reader, Delta, Reads, Delta1
    <2>3. UNCHANGED emitted /\ d - 1 \in Nat /\ Deltas(wire', r, d - 1)
        BY <1>1, <1>2, <2>1, <2>2, DeltasStep
    <2>4. active'[r].acc + (d - 1) = emitted'[r]
        BY <1>3, <1>8, <2>1, <2>3
    <2> QED BY <2>3, <2>4
<1> QED BY <1>1, <1>4, <1>6, <1>7, <1>8, EntryForm

-----------------------------------------------------------------------------
(* Replies are whole on the wire, with the tasks and in the panes.         *)

FullTexts ==
    /\ \A i \in 1 .. Len(wire) : FullFrame(wire[i])
    /\ \A f \in answers : FullFrame(f)
    /\ \A i \in 1 .. Len(tasks) : FullFrame(tasks[i])

(* While nothing fails an answer comes from the wire. *)
LEMMA ReadAnswers ==
    ASSUME Quiet, TypeOK, [Next]_vars, NEW f \in answers'
    PROVE  f \in answers \/ \E i \in 1 .. Len(wire) : f = wire[i]
<1>1. CASE Reader
    <2>1. CASE Resolves
        <3>1. wire # <<>> /\ answers' = answers \cup {Head(wire)}
            BY <2>1 DEF Resolves
        <3>2. 1 \in 1 .. Len(wire) /\ Head(wire) = wire[1]
            BY <3>1, TypeParts DEF TypeFrames
        <3> QED BY <3>1, <3>2
    <2>2. CASE ~Resolves
        BY <1>1, <2>2 DEF Reader, RunStarted, Delta, Terminal, Reads
    <2> QED BY <2>1, <2>2
<1>2. CASE UserStep
    BY <1>2 DEF UserStep, Message, VoiceTurn, Abort, Reset, Leaves, Returns, SpeaksAgain,
           BargeIn, CancelActive, Deafens
<1> QED BY <1>1, <1>2, NextCases, NoFailure, GatewayKeeps, ResumedKeeps, TaskKeeps
        DEF TurnEnds, TurnTimesOut, Reap, hub, vars

LEMMA FullStep ==
    ASSUME Quiet, HubInv, FullTexts, [Next]_vars
    PROVE  FullTexts'
<1>1. wire \in Seq(Frames) /\ tasks \in Seq(Events) /\ TypeOK
    BY TypeParts DEF HubInv, TypeFrames, TypeReplies
<1>0. \A f \in answers' : FullFrame(f)
    BY <1>1, ReadAnswers DEF FullTexts
<1>2. ASSUME NEW S, NEW w \in Seq(S), NEW f \in S, FullFrame(f),
             \A i \in 1 .. Len(w) : FullFrame(w[i])
      PROVE  \A i \in 1 .. Len(Append(w, f)) : FullFrame(Append(w, f)[i])
    <2>1. ASSUME NEW i \in 1 .. Len(Append(w, f))
          PROVE  (i \in 1 .. Len(w) /\ Append(w, f)[i] = w[i]) \/ Append(w, f)[i] = f
        OBVIOUS
    <2> QED BY <1>2, <2>1
<1>3. ASSUME NEW S, NEW w \in Seq(S), w # <<>>, \A i \in 1 .. Len(w) : FullFrame(w[i])
      PROVE  /\ \A i \in 1 .. Len(Tail(w)) : FullFrame(Tail(w)[i])
             /\ FullFrame(Head(w))
    <2>1. /\ 1 \in 1 .. Len(w) /\ Head(w) = w[1]
          /\ \A i \in 1 .. Len(Tail(w)) : i + 1 \in 1 .. Len(w) /\ Tail(w)[i] = w[i + 1]
        BY <1>3
    <2> QED BY <1>3, <2>1
<1>4. ASSUME NEW q \in Run, NEW f \in Events, Reports(q, f) PROVE FullTexts'
    <2>1. f \in Frames /\ wire' = Append(wire, f) /\ UNCHANGED tasks
        BY <1>4 DEF Reports, Frames, hub
    <2>2. FullFrame(f)
        BY <1>4 DEF Reports, FullFrame, Events
    <2> QED BY <1>0, <1>1, <1>2, <2>1, <2>2 DEF FullTexts
<1>5. CASE Idle /\ UNCHANGED tasks
    <2>1. ASSUME NEW f \in Frames, FullFrame(f), wire' = Append(wire, f) PROVE FullTexts'
        BY <1>0, <1>1, <1>2, <1>5, <2>1 DEF FullTexts
    <2>2. ASSUME NEW k \in 1 .. Len(wire), wire' = RemoveAt(wire, k) PROVE FullTexts'
        <3>1. Within(wire', wire, k)
            BY <1>1, <2>2, WithinRemoved
        <3>2. \A i \in 1 .. Len(wire') : \E j \in 1 .. Len(wire) : wire'[i] = wire[j]
            BY <3>1 DEF Within
        <3> QED BY <1>0, <1>5, <3>2 DEF FullTexts
    <2>3. CASE UNCHANGED wire
        BY <1>0, <1>5, <2>3 DEF FullTexts
    <2> QED BY <1>5, <2>1, <2>2, <2>3 DEF Idle
<1>6. CASE Reader
    <2>1. wire # <<>> /\ wire' = Tail(wire)
        BY <1>6, ReaderKeeps
    <2>2. FullFrame(Head(wire)) /\ \A i \in 1 .. Len(wire') : FullFrame(wire'[i])
        BY <1>1, <1>3, <2>1 DEF FullTexts
    <2>3. UNCHANGED tasks \/ (Head(wire) \in Events /\ tasks' = Append(tasks, Head(wire)))
        BY <1>6, ReaderTasks
    <2> QED BY <1>0, <1>1, <1>2, <2>2, <2>3 DEF FullTexts
<1>7. CASE TaskStarts
    <2>1. tasks # <<>> /\ tasks' = Tail(tasks) /\ UNCHANGED wire
        BY <1>7 DEF TaskStarts
    <2> QED BY <1>0, <1>1, <1>3, <2>1 DEF FullTexts
<1> QED BY <1>4, <1>5, <1>6, <1>7, QuietForm

LEMMA DeliveredLog ==
    ASSUME NEW t, NEW text, Deliver(t, text)
    PROVE  \A m \in log' : m \in log \/ (m.run = t.run /\ m.state = t.state /\ m.text = text)
<1>1. CASE Suppressed(t.entry, t.key, text)
    BY <1>1 DEF Deliver
<1>2. CASE ~ Suppressed(t.entry, t.key, text)
    <2>1. log' = log \cup {[run |-> t.run, state |-> t.state, text |-> text,
                            dropped |-> t.run \in forgotten]}
        BY <1>2 DEF Deliver
    <2> QED BY <2>1
<1> QED BY <1>1, <1>2

(* The text of the run itself is whole when its task starts. *)
LEMMA OwnTextWhole ==
    ASSUME HubInv, FlowInv, CountedInv, FullTexts, TaskStarts,
           NEW text, text = OwnText(Head(tasks), active[Head(tasks).run]),
           Head(tasks).state = "final", Head(tasks).run \notin missed, text # None
    PROVE  text.full
<1> DEFINE e == Head(tasks)
<1>1. /\ tasks # <<>> /\ tasks \in Seq(Events) /\ TypeActive /\ TypeOK /\ KnownInv
      /\ wire \in Seq(Frames)
    BY TypeParts DEF HubInv, TypeReplies, TypeFrames, TaskStarts
<1>2. e \in Events /\ e = tasks[1] /\ 1 \in 1 .. Len(tasks) /\ e.run \in Run
    BY <1>1, StartedTask
<1>3. e.type = "event" /\ FullFrame(e)
    BY <1>2 DEF Events, FullTexts
<1> HIDE DEF e
<1>4. CASE e.text # None
    BY <1>3, <1>4 DEF OwnText, FullFrame, e
<1>5. CASE e.text = None
    <2>1. /\ active[e.run] # None
          /\ text = Text(e.run, active[e.run].acc = emitted[e.run])
        BY <1>5 DEF OwnText, e
    <2>2. EndOf(e.run, tasks)
        BY <1>2, <1>3 DEF EndOf, e
    <2>3. ~Has(wire, e.run)
        BY <1>2, <2>2 DEF FlowInv, Flow
    <2>4. PICK d \in Nat : Deltas(wire, e.run, d) /\ active[e.run].acc + d = emitted[e.run]
        BY <1>2, <2>1 DEF CountedInv, Counted, e
    <2>5. \A i \in 1 .. Len(wire) : Delta1(wire[i], e.run) = 0
        BY <2>3 DEF Has, Of, Delta1
    <2>6. Len(wire) \in Nat
        BY <1>1
    <2>7. d = 0
        BY <2>4, <2>5, <2>6, DeltaNone
    <2>8. active[e.run].acc \in Nat
        BY <1>1, <1>2, <2>1 DEF TypeActive, Entries
    <2>9. active[e.run].acc = emitted[e.run]
        BY <2>4, <2>7, <2>8
    <2>10. (active[e.run].acc = emitted[e.run]) = TRUE
        BY <2>9
    <2>11. text = Text(e.run, TRUE)
        BY <2>1, <2>10
    <2> QED BY <2>11 DEF Text
<1> QED BY <1>4, <1>5

LEMMA ReplyStep ==
    ASSUME Quiet, HubInv, FlowInv, CountedInv, FullTexts, FullReply, [Next]_vars
    PROVE  FullReply'
<1> SUFFICES ASSUME NEW m \in log', m.state = "final", m.text # None, m.run \notin missed'
             PROVE  m.text.full
    BY DEF FullReply
<1>1. TypeOK /\ KnownInv /\ wire \in Seq(Frames)
    BY TypeParts DEF HubInv, TypeFrames
<1>0. m.run \notin missed
    BY <1>1, MissedStep
<1>2. CASE m \in log
    BY <1>0, <1>2 DEF FullReply
<1>3. CASE m \notin log
    <2>1. ASSUME TaskStarts PROVE m.text.full
        <3> DEFINE e == Head(tasks)
                   text == OwnText(e, active[e.run])
        <3>1. Deliver(Task(e), text)
            BY <1>3, <2>1 DEF TaskStarts
        <3>2. Task(e).state = e.state /\ Task(e).run = e.run
            BY DEF Task
        <3> HIDE DEF text
        <3>3. e.state = "final" /\ e.run \notin missed /\ m.text = text
            BY <1>0, <1>3, <3>1, <3>2, DeliveredLog
        <3> QED BY <2>1, <3>3, OwnTextWhole DEF text
    <2>2. ASSUME NEW t \in fetching, Fetched(t) PROVE m.text.full
        <3>1. PICK f \in answers : f.type = "history" /\ Deliver(t, Fresh(t.key, f.text))
            BY <2>2 DEF Fetched, Resumes
        <3>3. FullFrame(f)
            BY DEF FullTexts
        <3>4. m.text = Fresh(t.key, f.text)
            BY <1>3, <3>1, DeliveredLog
        <3>5. m.text = f.text
            BY <3>4 DEF Fresh
        <3> QED BY <3>1, <3>3, <3>5 DEF FullFrame
    <2>3. UNCHANGED log \/ TaskStarts \/ \E t \in fetching : Fetched(t)
        <3>1. CASE Resumed
            BY <3>1 DEF Resumed, MessageSent, AbortDone, ResetDone, VoiceSent, history
        <3> QED BY <1>1, <3>1, NextCases, NoFailure, GatewayKeeps, UserKeeps, ReaderKeeps
                DEF TurnEnds, TurnTimesOut, Reap, history, vars
    <2> QED BY <1>3, <2>1, <2>2, <2>3
<1> QED BY <1>2, <1>3

(* While nothing fails, every reply shown for a finished run is whole: no   *)
(* delta is missed or counted twice, whoever registers, drops, takes or     *)
(* reaps the entry meanwhile, and whether the text came with the event,     *)
(* from the entry or from the history (_handle_terminal).  The runs that    *)
(* are excepted are those of which an event was handled before the sender   *)
(* registered them, which starts their text over, and those given up.       *)
THEOREM ReplyCorrect ==
    ASSUME Quiet
    PROVE  Spec => []FullReply
<1> DEFINE ReplyInv == /\ HubInv /\ FlowInv /\ SendInv
                       /\ CountedInv /\ FullTexts /\ FullReply
<1>1. Init => ReplyInv
    <2> SUFFICES ASSUME Init PROVE ReplyInv
        OBVIOUS
    <2>1. /\ \A a \in Actor : pc[a] = "idle" /\ sent[a] = None
          /\ \A r \in Run : active[r] = None
          /\ Len(wire) = 0 /\ Len(tasks) = 0 /\ log = {}
        BY DEF Init
    <2>2. SendInv
        BY <2>1 DEF SendInv, Pending
    <2>3. CountedInv /\ FullTexts /\ FullReply
        BY <2>1 DEF Init, CountedInv, Counted, Unread, StartOn, FullTexts, FullReply
    <2> QED BY <2>2, <2>3, HubInit, FlowInit
<1>2. ReplyInv /\ [Next]_vars => ReplyInv'
    <2> SUFFICES ASSUME HubInv, FlowInv, SendInv, CountedInv, FullTexts, FullReply, [Next]_vars
                 PROVE  ReplyInv'
        OBVIOUS
    <2>1. HubInv' /\ FlowInv'
        BY HubStep, FlowStep
    <2>3. SendInv'
        BY SendStep
    <2>4. CountedInv'
        BY CountedStep, UnreadStep DEF CountedInv, Counted, Unread
    <2>5. FullTexts' /\ FullReply'
        BY FullStep, ReplyStep
    <2> QED BY <2>1, <2>3, <2>4, <2>5
<1>3. ReplyInv => FullReply
    OBVIOUS
<1> QED BY <1>1, <1>2, <1>3, PTL DEF Spec

-----------------------------------------------------------------------------
(* The end of a run is told, once.                                         *)

(* The end of a run was taken by its task. *)
Gone(r) == phase[r] = "over" /\ ~EndOf(r, wire) /\ ~EndOf(r, tasks)
Fetches(r) == \E t \in fetching : t.run = r

(* An end is in one place. *)
OnceInv ==
    /\ \A r \in Run : Announced(r) \/ Fetches(r) => Gone(r)
    /\ \A r \in Run : Announced(r) => ~Fetches(r)
    /\ \A t, u \in fetching : t.run = u.run => t = u

(* What is owed stays in the hands of the hub: the handler waits for the   *)
(* answer to its chat.send, the run is tracked, or its task has the entry. *)
Waits(r) == \E c \in Client : pc[c] = "sending" /\ sent[c] = r
Holding(r) == \E t \in fetching : t.run = r /\ t.entry # None
DueInv == \A r \in Run : Owed(r) => Waits(r) \/ active[r] # None \/ Holding(r) \/ Announced(r)

TurnInv ==
    pc[Voice] = "waiting" /\ sent[Voice] \notin missed =>
        waiter[sent[Voice]] = IF Announced(sent[Voice]) THEN "done" ELSE "pending"

(* A delivery is suppressed, or is announced and resolves the turn. *)
LEMMA Delivers ==
    ASSUME NEW t, NEW text, Deliver(t, text)
    PROVE  \/ t.entry = None /\ UNCHANGED <<waiter, log>>
           \/ /\ waiter' = [waiter EXCEPT ![t.run] = IF @ = "pending" THEN "done" ELSE @]
              /\ \A q : Announced(q)' <=> Announced(q) \/ q = t.run
<1>1. CASE Suppressed(t.entry, t.key, text)
    BY <1>1 DEF Deliver, Suppressed
<1>2. CASE ~ Suppressed(t.entry, t.key, text)
    <2> DEFINE m == [run |-> t.run, state |-> t.state, text |-> text,
                     dropped |-> t.run \in forgotten]
    <2>1. /\ waiter' = [waiter EXCEPT ![t.run] = IF @ = "pending" THEN "done" ELSE @]
          /\ log' = log \cup {m}
        BY <1>2 DEF Deliver
    <2>2. m.run = t.run
        OBVIOUS
    <2> HIDE DEF m
    <2>3. \A q : Announced(q)' <=> Announced(q) \/ q = t.run
        BY <2>1, <2>2 DEF Announced
    <2> QED BY <2>1, <2>3
<1> QED BY <1>1, <1>2

(* Where an end is taken from one place to the next. *)
LEMMA EndMoves ==
    ASSUME Quiet, HubInv, [Next]_vars
    PROVE  \/ UNCHANGED <<log, fetching>> /\ ~TaskStarts
           \/ TaskStarts /\ UNCHANGED <<log, waiter>>
              /\ fetching' = fetching \cup {Task(Head(tasks))}
           \/ TaskStarts /\ UNCHANGED fetching
              /\ \E text : Deliver(Task(Head(tasks)), text)
           \/ \E t \in fetching : Fetched(t)
<1>1. TypeOK
    BY DEF HubInv
<1>2. CASE TaskStarts
    BY <1>2 DEF TaskStarts
<1>3. CASE ~TaskStarts
    <2>1. CASE Resumed
        BY <1>3, <2>1 DEF Resumed, MessageSent, AbortDone, ResetDone, VoiceSent, history
    <2> QED BY <1>1, <1>3, <2>1, NextCases, NoFailure, GatewayKeeps, UserKeeps, ReaderKeeps
            DEF TurnEnds, TurnTimesOut, Reap, hub, history, vars
<1> QED BY <1>2, <1>3

LEMMA GoneStays ==
    ASSUME Quiet, HubInv, FlowInv, [Next]_vars, NEW r \in Run, Gone(r)
    PROVE  Gone(r)'
<1>1. wire \in Seq(Frames) /\ tasks \in Seq(Events) /\ Ordered(wire)
    BY TypeParts DEF HubInv, TypeFrames, TypeReplies, FlowInv
<1>2. phase[r] = "over" /\ ~EndOf(r, wire) /\ ~EndOf(r, tasks)
    BY DEF Gone
<1>3. ASSUME NEW q \in Run, NEW f \in Events, Reports(q, f) PROVE Gone(r)'
    <2>1. f \in Frames /\ wire' = Append(wire, f) /\ UNCHANGED tasks
        BY <1>3 DEF Reports, Frames, hub
    <2>2. q # r /\ f.run = q /\ phase'[r] = phase[r]
        BY <1>2, <1>3 DEF Reports
    <2>3. ~Of(f, r)
        BY <2>2 DEF Of
    <2>4. ~EndOf(r, wire')
        BY <1>1, <1>2, <2>1, <2>3, AppendEvents
    <2> QED BY <1>2, <2>1, <2>2, <2>4 DEF Gone
<1>4. CASE Holds /\ Idle /\ UNCHANGED tasks
    <2>1. ~EndOf(r, wire')
        BY <1>1, <1>2, <1>4, IdleEvents
    <2> QED BY <1>2, <1>4, <2>1 DEF Holds, PhaseHolds, Gone
<1>5. CASE Holds /\ Reader
    <2> DEFINE h == Head(wire)
    <2>1. wire # <<>> /\ wire' = Tail(wire)
        BY <1>5, ReaderKeeps
    <2>2. ~EndOf(r, wire') /\ ~ (Of(h, r) /\ h.state \in Ends)
        BY <1>1, <1>2, <2>1, TailEvents
    <2>3. UNCHANGED tasks \/ (h \in Events /\ tasks' = Append(tasks, h))
        BY <1>5, ReaderTasks
    <2> HIDE DEF h
    <2>4. ~EndOf(r, tasks')
        BY <1>1, <1>2, <2>2, <2>3, AppendEvents
    <2> QED BY <1>2, <1>5, <2>2, <2>4 DEF Holds, PhaseHolds, Gone
<1>6. CASE Holds /\ TaskStarts /\ UNCHANGED wire
    <2>1. tasks # <<>> /\ tasks' = Tail(tasks)
        BY <1>6 DEF TaskStarts
    <2>2. \A i \in 1 .. Len(tasks') : i + 1 \in 1 .. Len(tasks) /\ tasks'[i] = tasks[i + 1]
        BY <1>1, <2>1
    <2>3. ~EndOf(r, tasks')
        BY <1>2, <2>2 DEF EndOf
    <2> QED BY <1>2, <1>6, <2>3 DEF Holds, PhaseHolds, Gone
<1> QED BY <1>3, <1>4, <1>5, <1>6, QuietForm

(* A task takes the only end of its run. *)
LEMMA TaskTakes ==
    ASSUME HubInv, FlowInv, TaskStarts, NEW e, e = Head(tasks)
    PROVE  e \in Events /\ e.run \in Run /\ ~Gone(e.run) /\ Gone(e.run)'
<1>1. tasks \in Seq(Events) /\ tasks # <<>> /\ tasks' = Tail(tasks) /\ TypeOK /\ KnownInv
    BY TypeParts DEF HubInv, TypeReplies, TaskStarts
<1>2. /\ e \in Events /\ e.run \in Run /\ 1 \in 1 .. Len(tasks) /\ e = tasks[1]
      /\ e.type = "event" /\ e.state \in Ends
    <2>1. 1 \in 1 .. Len(tasks) /\ e = tasks[1] /\ e \in Events
        BY <1>1
    <2> QED BY <1>1, <2>1 DEF KnownInv, TasksKnown, Events, Ends
<1>3. \A i \in 1 .. Len(tasks') :
         i # 0 /\ i + 1 \in 1 .. Len(tasks) /\ i + 1 # 1 /\ tasks'[i] = tasks[i + 1]
    BY <1>1
<1>4. EndOf(e.run, tasks)
    BY <1>2 DEF EndOf, Ends
<1>5. phase[e.run] = "over" /\ ~Has(wire, e.run)
    BY <1>2, <1>4 DEF FlowInv, Flow
<1>6. ~EndOf(e.run, wire)
    BY <1>5 DEF EndOf, Has, Of
<1>7. ~EndOf(e.run, tasks')
    <2>1. \A i \in 1 .. Len(tasks') : tasks'[i].run # e.run
        BY <1>2, <1>3 DEF FlowInv, OneEnd
    <2> QED BY <2>1 DEF EndOf
<1>8. UNCHANGED <<wire, phase>>
    BY TaskKeeps DEF gateway
<1>9. ~Gone(e.run) /\ Gone(e.run)'
    BY <1>4, <1>5, <1>6, <1>7, <1>8 DEF Gone
<1> QED BY <1>2, <1>9

LEMMA TaskRun == \A e : Task(e).run = e.run /\ Task(e).entry = active[e.run]
BY DEF Task

LEMMA OnceStep ==
    ASSUME Quiet, HubInv, FlowInv, OnceInv, [Next]_vars
    PROVE  OnceInv'
<1> PICK e : e = Head(tasks)
    OBVIOUS
<1> PICK t0 : t0 = Task(e)
    OBVIOUS
<1>1. \A r \in Run : Gone(r) => Gone(r)'
    BY GoneStays
<1>2. t0.run = e.run
    BY TaskRun
<1>3. ASSUME UNCHANGED <<log, fetching>> PROVE OnceInv'
    BY <1>1, <1>3 DEF OnceInv, Announced, Fetches
<1>4. ASSUME TaskStarts
      PROVE  e.run \in Run /\ Gone(e.run)' /\ ~Announced(e.run) /\ ~Fetches(e.run)
    BY <1>4, TaskTakes DEF OnceInv
<1>5. ASSUME TaskStarts, UNCHANGED log, fetching' = fetching \cup {t0} PROVE OnceInv'
    <2>1. \A q : Announced(q)' <=> Announced(q)
        BY <1>5 DEF Announced
    <2>2. \A q : Fetches(q)' <=> Fetches(q) \/ q = e.run
        BY <1>2, <1>5 DEF Fetches
    <2>3. \A t, u \in fetching' : t.run = u.run => t = u
        BY <1>2, <1>4, <1>5 DEF OnceInv, Fetches
    <2> QED BY <1>1, <1>4, <1>5, <2>1, <2>2, <2>3 DEF OnceInv
<1>6. ASSUME TaskStarts, UNCHANGED fetching, NEW text, Deliver(t0, text) PROVE OnceInv'
    <2>1. \A q : Announced(q)' => Announced(q) \/ q = e.run
        BY <1>2, <1>6, Delivers DEF Announced
    <2>2. \A q : Fetches(q)' <=> Fetches(q)
        BY <1>6 DEF Fetches
    <2> QED BY <1>1, <1>4, <1>6, <2>1, <2>2 DEF OnceInv
<1>7. ASSUME NEW t \in fetching, Fetched(t) PROVE OnceInv'
    <2>1. fetching' = fetching \ {t} /\ \E text : Deliver(t, text)
        BY <1>7 DEF Fetched
    <2>2. \A q : Announced(q)' => Announced(q) \/ q = t.run
        BY <2>1, Delivers DEF Announced
    <2>3. \A q : Fetches(q)' => Fetches(q) /\ q # t.run
        BY <2>1 DEF Fetches, OnceInv
    <2>4. Fetches(t.run)
        BY DEF Fetches
    <2> QED BY <1>1, <2>1, <2>2, <2>3, <2>4 DEF OnceInv
<1> QED BY <1>3, <1>5, <1>6, <1>7, EndMoves

-----------------------------------------------------------------------------
(* Nobody who is owed an end is forgotten.                                 *)

(* An entry that is written is none. *)
LEMMA EntrySet ==
    ASSUME TypeOK, NEW q \in Run, NEW c \in Client \cup {None}, NEW pane \in BOOLEAN,
           active' = [active EXCEPT ![q] = Entry(c, pane, 0)]
    PROVE  active'[q] # None
<1>1. Entry(c, pane, 0) \in Entries
    BY Apart DEF Entry, Entries
<1>2. Entry(c, pane, 0) # None
    BY <1>1, NoneAssumption
<1> QED BY <1>2, TypeParts DEF TypeActive

(* The handler of a pane is resumed by the answer, and registers its run. *)
LEMMA PaneResumed ==
    ASSUME Quiet, TypeOK, [Next]_vars, NEW c \in Client, pc[c] = "sending", pc'[c] # "sending"
    PROVE  active'[sent[c]] # None
<1>1. TypeHandlers /\ c \in Actor /\ c # Voice /\ Voice \in Actor
    BY TypeParts, Apart
<1>2. sent[c] \in Run
    BY <1>1 DEF TypeHandlers
<1>3. ASSUME NEW b \in Actor, NEW where, pc' = [pc EXCEPT ![b] = where] PROVE b = c
    BY <1>1, <1>3 DEF TypeHandlers
<1>4. CASE UserStep
    <2>1. ASSUME NEW a \in Actor, NEW r \in Run, NEW kd, NEW k, Sends(a, r, kd, k) PROVE FALSE
        <3>1. pc' = [pc EXCEPT ![a] = "sending"] /\ pc[a] = "idle"
            BY <2>1 DEF Sends, Await
        <3> QED BY <1>3, <3>1
    <2>2. ASSUME NEW d \in Client, Abort(d) \/ Reset(d) PROVE FALSE
        <3>1. pc[d] = "idle" /\ \E where : pc' = [pc EXCEPT ![d] = where]
            BY <2>2 DEF Abort, Reset, Await
        <3> QED BY <1>3, <3>1, Apart
    <2>3. ASSUME SpeaksAgain \/ BargeIn PROVE FALSE
        <3>1. pc' = [pc EXCEPT ![Voice] = "idle"]
            BY <2>3 DEF SpeaksAgain, BargeIn, CancelActive, Await
        <3> QED BY <1>1, <1>3, <3>1
    <2>4. ASSUME NEW d \in Client, Leaves(d) \/ Returns(d) PROVE FALSE
        BY <2>4 DEF Leaves, Returns
    <2> QED BY <1>4, <2>1, <2>2, <2>3, <2>4, Apart DEF UserStep, Message, VoiceTurn
<1>5. CASE Resumed
    <2>1. ASSUME NEW d \in Client, AbortDone(d) \/ ResetDone(d) PROVE FALSE
        <3>1. pc[d] # "sending" /\ \E where : pc' = [pc EXCEPT ![d] = where]
            BY <2>1 DEF AbortDone, ResetDone, Await
        <3> QED BY <1>3, <3>1, Apart
    <2>2. ASSUME VoiceSent PROVE FALSE
        <3>1. pc' = [pc EXCEPT ![Voice] = "waiting"]
            BY <2>2 DEF VoiceSent, Await
        <3> QED BY <1>1, <1>3, <3>1
    <2>3. ASSUME NEW d \in Client, MessageSent(d) PROVE active'[sent[c]] # None
        <3>1. /\ pc' = [pc EXCEPT ![d] = "idle"]
              /\ active' = [active EXCEPT ![sent[d]] = Entry(d, FALSE, 0)]
            BY <2>3 DEF MessageSent, Await
        <3>2. d = c
            BY <1>3, <3>1, Apart
        <3> QED BY <1>2, <3>1, <3>2, EntrySet
    <2>4. CASE UNCHANGED pc
        BY <2>4
    <2> QED BY <1>5, <2>1, <2>2, <2>3, <2>4 DEF Resumed, Fetched
<1>6. CASE TurnEnds
    <2>1. pc' = [pc EXCEPT ![Voice] = "idle"]
        BY <1>6 DEF TurnEnds, Await
    <2> QED BY <1>1, <1>3, <2>1
<1>7. CASE GatewayStep \/ Reader \/ TaskStarts \/ TurnTimesOut \/ (\E r \in Run : Reap(r))
           \/ UNCHANGED vars
    BY <1>7, GatewayKeeps, ReaderKeeps, TaskKeeps DEF TurnTimesOut, Reap, hub, vars
<1> QED BY <1>4, <1>5, <1>6, <1>7, NextCases, NoFailure

(* A turn begins to wait when its chat.send is answered, and waits for the *)
(* same run until it ends.                                                 *)
LEMMA TurnWaits ==
    ASSUME Quiet, TypeOK, [Next]_vars, pc'[Voice] = "waiting"
    PROVE  \/ VoiceSent
           \/ /\ pc[Voice] = "waiting" /\ sent'[Voice] = sent[Voice]
              /\ ~SpeaksAgain /\ ~BargeIn
<1>1. TypeHandlers /\ Voice \in Actor /\ Voice \notin Client
    BY TypeParts, Apart
<1>2. ASSUME NEW b \in Actor, b # Voice,
             UNCHANGED pc \/ \E where : pc' = [pc EXCEPT ![b] = where],
             UNCHANGED sent \/ \E r : sent' = [sent EXCEPT ![b] = r]
      PROVE  pc[Voice] = "waiting" /\ sent'[Voice] = sent[Voice]
    BY <1>1, <1>2 DEF TypeHandlers
<1>3. ~SpeaksAgain /\ ~BargeIn
    <2>1. SpeaksAgain \/ BargeIn => pc' = [pc EXCEPT ![Voice] = "idle"]
        BY DEF SpeaksAgain, BargeIn, CancelActive, Await
    <2> QED BY <1>1, <2>1 DEF TypeHandlers
<1>4. CASE UserStep
    <2>1. ASSUME NEW d \in Client, NEW r \in Run, Message(d, r)
          PROVE  pc[Voice] = "waiting" /\ sent'[Voice] = sent[Voice]
        <3>1. pc' = [pc EXCEPT ![d] = "sending"] /\ sent' = [sent EXCEPT ![d] = r]
            BY <2>1 DEF Message, Sends, Await
        <3> QED BY <1>1, <1>2, <3>1, Apart
    <2>2. ASSUME NEW r \in Run, VoiceTurn(r) PROVE FALSE
        <3>1. pc' = [pc EXCEPT ![Voice] = "sending"]
            BY <2>2 DEF VoiceTurn, Sends, Await
        <3> QED BY <1>1, <3>1 DEF TypeHandlers
    <2>3. ASSUME NEW d \in Client, Abort(d) \/ Reset(d) \/ Leaves(d) \/ Returns(d)
          PROVE  pc[Voice] = "waiting" /\ sent'[Voice] = sent[Voice]
        <3>1. UNCHANGED sent /\ (UNCHANGED pc \/ \E where : pc' = [pc EXCEPT ![d] = where])
            BY <2>3 DEF Abort, Reset, Leaves, Returns, Await
        <3> QED BY <1>1, <1>2, <3>1, Apart
    <2> QED BY <1>3, <1>4, <2>1, <2>2, <2>3 DEF UserStep
<1>5. CASE Resumed
    <2>1. ASSUME NEW d \in Client, MessageSent(d) \/ AbortDone(d) \/ ResetDone(d)
          PROVE  pc[Voice] = "waiting" /\ sent'[Voice] = sent[Voice]
        <3>1. \E where : pc' = [pc EXCEPT ![d] = where]
            BY <2>1 DEF MessageSent, AbortDone, ResetDone, Await
        <3>2. UNCHANGED sent \/ sent' = [sent EXCEPT ![d] = None]
            BY <2>1 DEF MessageSent, AbortDone, ResetDone
        <3> QED BY <1>1, <1>2, <3>1, <3>2, Apart
    <2>2. CASE UNCHANGED <<pc, sent>>
        BY <1>3, <2>2
    <2> QED BY <1>3, <1>5, <2>1, <2>2 DEF Resumed, Fetched
<1>6. CASE TurnEnds
    <2>1. pc' = [pc EXCEPT ![Voice] = "idle"]
        BY <1>6 DEF TurnEnds, Await
    <2> QED BY <1>1, <2>1 DEF TypeHandlers
<1>7. CASE GatewayStep \/ Reader \/ TaskStarts \/ TurnTimesOut \/ (\E r \in Run : Reap(r))
           \/ UNCHANGED vars
    BY <1>3, <1>7, GatewayKeeps, ReaderKeeps, TaskKeeps DEF TurnTimesOut, Reap, hub, vars
<1> QED BY <1>4, <1>5, <1>6, <1>7, NextCases, NoFailure

(* A run becomes a pane's when its message is sent. *)
LEMMA ChatBegins ==
    ASSUME Quiet, TypeOK, [Next]_vars, NEW r \in Run, kind[r] # "chat", kind'[r] = "chat"
    PROVE  Waits(r)'
<1>1. TypeRuns /\ TypeHandlers
    BY TypeParts
<1>2. ASSUME NEW q \in Run, NEW kd, NEW k, Accepts(q, kd, k)
      PROVE  q = r /\ kd = "chat"
    <2>1. kind' = [kind EXCEPT ![q] = kd]
        BY <1>2 DEF Accepts
    <2> QED BY <1>1, <2>1 DEF TypeRuns
<1>3. ASSUME NEW c \in Client, NEW q \in Run, Message(c, q) PROVE Waits(r)'
    <2>1. /\ Accepts(q, "chat", "main")
          /\ pc' = [pc EXCEPT ![c] = "sending"] /\ sent' = [sent EXCEPT ![c] = q]
        BY <1>3 DEF Message, Sends, Await
    <2>2. q = r /\ c \in Actor
        BY <1>2, <2>1, Apart
    <2>3. pc'[c] = "sending" /\ sent'[c] = r
        BY <1>1, <2>1, <2>2 DEF TypeHandlers
    <2> QED BY <2>3 DEF Waits
<1>4. ASSUME NEW q \in Run, VoiceTurn(q) PROVE FALSE
    BY <1>2, <1>4 DEF VoiceTurn, Sends
<1>5. ASSUME NEW q \in Run, NEW k, OtherRun(q, k) PROVE FALSE
    BY <1>2, <1>5 DEF OtherRun
<1>6. \/ UNCHANGED kind
      \/ \E c \in Client, q \in Run : Message(c, q)
      \/ \E q \in Run : VoiceTurn(q)
      \/ \E q \in Run, k \in {"main", "cron"} : OtherRun(q, k)
    <2>1. CASE GatewayStep
        BY <2>1 DEF GatewayStep, AnswerSend, AnswerAbort, AnswerReset, Starts, Streams,
               RunEnds, Final, Aborted, Errs, Replays, AnswerHistory, gateway
    <2>2. CASE UserStep
        BY <2>2 DEF UserStep, Abort, Reset, Leaves, Returns, SpeaksAgain, BargeIn, CancelActive,
               gateway
    <2> QED BY <2>1, <2>2, NextCases, NoFailure, ReaderKeeps, ResumedKeeps, TaskKeeps
            DEF TurnEnds, TurnTimesOut, Reap, gateway, vars
<1> QED BY <1>3, <1>4, <1>5, <1>6

LEMMA DueFrom ==
    ASSUME Quiet, TypeOK, [Next]_vars, NEW r \in Run, Owed(r)'
    PROVE  Owed(r) \/ Waits(r)' \/ active'[r] # None
<1>1. r \notin forgotten \cup missed
    BY ForgottenGrows, MissedStep DEF Owed
<1>2. CASE kind'[r] = "chat"
    BY <1>1, <1>2, ChatBegins DEF Owed
<1>3. CASE pc'[Voice] = "waiting" /\ sent'[Voice] = r
    <2>1. CASE pc[Voice] = "waiting" /\ sent'[Voice] = sent[Voice]
        BY <1>1, <1>3, <2>1 DEF Owed
    <2>2. CASE VoiceSent
        <3>1. /\ active' = [active EXCEPT ![sent[Voice]] = Entry(VoiceClient, TRUE, 0)]
              /\ UNCHANGED sent
            BY <2>2 DEF VoiceSent
        <3> QED BY <1>3, <3>1, EntrySet, Apart
    <2> QED BY <1>3, <2>1, <2>2, TurnWaits
<1> QED BY <1>2, <1>3 DEF Owed

LEMMA DueStep ==
    ASSUME Quiet, ~Slow, HubInv, DueInv, [Next]_vars
    PROVE  DueInv'
<1>1. TypeOK
    BY DEF HubInv
<1> SUFFICES ASSUME NEW r \in Run, Owed(r)'
             PROVE  Waits(r)' \/ active'[r] # None \/ Holding(r)' \/ Announced(r)'
    BY DEF DueInv
<1>2. r \notin forgotten'
    BY DEF Owed
<1> PICK e : e = Head(tasks)
    OBVIOUS
<1> PICK t0 : t0 = Task(e)
    OBVIOUS
<1>3. t0.run = e.run /\ t0.entry = active[e.run]
    BY TaskRun
<1>4. CASE Waits(r)
    <2>1. PICK c \in Client : pc[c] = "sending" /\ sent[c] = r
        BY <1>4 DEF Waits
    <2>2. CASE pc'[c] = "sending"
        <3>1. sent'[c] = sent[c]
            BY <1>1, <2>1, <2>2, StillSent, Apart DEF Awaits
        <3> QED BY <2>1, <2>2, <3>1 DEF Waits
    <2>3. CASE pc'[c] # "sending"
        BY <1>1, <2>1, <2>3, PaneResumed
    <2> QED BY <2>2, <2>3
<1>5. CASE active[r] # None
    <2>1. CASE TaskStarts /\ r = e.run
        <3>1. t0.run = r /\ t0.entry # None
            BY <1>3, <1>5, <2>1
        <3>2. ASSUME fetching' = fetching \cup {t0} PROVE Holding(r)'
            BY <3>1, <3>2 DEF Holding
        <3>3. ASSUME NEW text, Deliver(t0, text) PROVE Announced(r)'
            BY <3>1, <3>3, Delivers
        <3>4. ASSUME NEW t \in fetching, Fetched(t) PROVE FALSE
            <4>1. Resumed
                BY <3>4 DEF Resumed
            <4> QED BY <1>1, <2>1, <4>1, OneActs
        <3> QED BY <2>1, <3>2, <3>3, <3>4, EndMoves
    <2>2. CASE ~ (TaskStarts /\ r = e.run)
        BY <1>2, <1>5, <2>2, Untracked
    <2> QED BY <2>1, <2>2
<1>6. CASE Holding(r)
    <2>1. PICK t \in fetching : t.run = r /\ t.entry # None
        BY <1>6 DEF Holding
    <2>2. CASE Fetched(t)
        <3>1. \E text : Deliver(t, text)
            BY <2>2 DEF Fetched
        <3> QED BY <2>1, <3>1, Delivers
    <2>3. CASE ~Fetched(t)
        <3>1. \A u \in fetching : Fetched(u) => fetching' = fetching \ {u}
            BY DEF Fetched
        <3>2. t \in fetching'
            BY <2>3, <3>1, EndMoves
        <3> QED BY <2>1, <3>2 DEF Holding
    <2> QED BY <2>2, <2>3
<1>7. CASE Announced(r)
    <2>1. ASSUME NEW t, NEW text, Deliver(t, text) PROVE Announced(r)'
        BY <1>7, <2>1, Delivers DEF Announced
    <2>2. ASSUME UNCHANGED log PROVE Announced(r)'
        BY <1>7, <2>2 DEF Announced
    <2>3. \A u \in fetching : Fetched(u) => \E text : Deliver(u, text)
        BY DEF Fetched
    <2> QED BY <2>1, <2>2, <2>3, EndMoves
<1>8. Owed(r) => Waits(r) \/ active[r] # None \/ Holding(r) \/ Announced(r)
    BY DEF DueInv
<1> QED BY <1>1, <1>4, <1>5, <1>6, <1>7, <1>8, DueFrom

(* The turn that waits has its reply when its run was announced. *)
LEMMA TurnStep ==
    ASSUME Quiet, ~Slow, HubInv, FlowInv, SendInv, OnceInv, TurnInv, [Next]_vars
    PROVE  TurnInv'
<1>1. TypeOK /\ TypeHandlers /\ TypeReplies /\ Voice \in Actor
    BY TypeParts, Apart DEF HubInv
<1> PICK r : r = sent'[Voice]
    OBVIOUS
<1> SUFFICES ASSUME pc'[Voice] = "waiting", r \notin missed'
             PROVE  waiter'[r] = IF Announced(r)' THEN "done" ELSE "pending"
    BY DEF TurnInv, Announced
<1>0. r \notin missed
    BY <1>1, MissedStep
<1>2. CASE VoiceSent
    <2>1. /\ pc[Voice] = "sending" /\ UNCHANGED <<sent, log>>
          /\ waiter' = [waiter EXCEPT ![sent[Voice]] = "pending"]
        BY <1>2 DEF VoiceSent, history
    <2>2. sent[Voice] \in Run /\ r = sent[Voice]
        BY <1>1, <2>1 DEF TypeHandlers
    <2>3. phase[r] = "over" => Has(wire, r)
        BY <1>0, <1>1, <2>1, <2>2 DEF SendInv, Pending
    <2>4. ~Gone(r)
        BY <2>2, <2>3 DEF Gone, FlowInv, Flow
    <2>5. ~Announced(r)
        BY <2>2, <2>4 DEF OnceInv
    <2>6. waiter'[r] = "pending"
        BY <1>1, <2>1, <2>2 DEF TypeReplies
    <2> QED BY <2>1, <2>5, <2>6 DEF Announced
<1>3. CASE ~VoiceSent
    <2>1. pc[Voice] = "waiting" /\ r = sent[Voice] /\ ~SpeaksAgain /\ ~BargeIn
        BY <1>1, <1>3, TurnWaits
    <2>2. r \in Run
        BY <1>1, <2>1 DEF TypeHandlers
    <2>3. waiter[r] = IF Announced(r) THEN "done" ELSE "pending"
        BY <1>0, <2>1 DEF TurnInv
    <2>4. ASSUME UNCHANGED <<waiter, log>>
          PROVE  waiter'[r] = IF Announced(r)' THEN "done" ELSE "pending"
        BY <2>3, <2>4 DEF Announced
    <2>5. ASSUME NEW t, NEW text, Deliver(t, text)
          PROVE  waiter'[r] = IF Announced(r)' THEN "done" ELSE "pending"
        <3>1. CASE UNCHANGED <<waiter, log>>
            BY <2>4, <3>1
        <3>2. CASE /\ waiter' = [waiter EXCEPT ![t.run] = IF @ = "pending" THEN "done" ELSE @]
                   /\ \A q : Announced(q)' <=> Announced(q) \/ q = t.run
            <4>1. CASE r = t.run
                BY <1>1, <2>2, <2>3, <3>2, <4>1 DEF TypeReplies
            <4>2. CASE r # t.run
                BY <1>1, <2>2, <2>3, <3>2, <4>2 DEF TypeReplies
            <4> QED BY <4>1, <4>2
        <3> QED BY <2>5, <3>1, <3>2, Delivers
    <2>6. UNCHANGED <<waiter, log>> \/ \E t, text : Deliver(t, text)
        <3>1. CASE Resumed
            BY <1>3, <3>1 DEF Resumed, MessageSent, AbortDone, ResetDone, Fetched, history
        <3>2. CASE UserStep
            BY <2>1, <3>2 DEF UserStep, Message, VoiceTurn, Abort, Reset, Leaves, Returns, history
        <3>3. CASE TaskStarts
            BY <3>3 DEF TaskStarts
        <3> QED BY <1>1, <3>1, <3>2, <3>3, NextCases, NoFailure, GatewayKeeps, ReaderKeeps
                DEF TurnEnds, TurnTimesOut, Reap, hub, history, vars
    <2> QED BY <2>4, <2>5, <2>6
<1> QED BY <1>2, <1>3

(* While nothing fails and nothing is slow, the end of every run is told,  *)
(* once: no entry outlives its run, the end of a run of a pane or of a     *)
(* waiting turn is on its way or announced unless an abort or a reset      *)
(* dropped the run, no end is announced twice, and a voice turn has its    *)
(* reply exactly when its own run was announced (_handle_terminal).        *)
(* Excepted are the runs an event of which came before they were           *)
(* registered.                                                             *)
THEOREM EndsCorrect ==
    ASSUME Quiet, ~Slow
    PROVE  Spec => []RunsEnd
<1> DEFINE EndsInv == /\ HubInv /\ FlowInv /\ SendInv /\ TrackedRunEnds
                      /\ OnceInv /\ DueInv /\ TurnInv
<1>1. Init => EndsInv
    <2> SUFFICES ASSUME Init PROVE EndsInv
        OBVIOUS
    <2>1. /\ \A a \in Actor : pc[a] = "idle" /\ sent[a] = None
          /\ \A r \in Run : active[r] = None /\ kind[r] = "other"
          /\ fetching = {} /\ log = {} /\ Voice \in Actor
        BY Apart DEF Init
    <2>2. SendInv /\ TrackedRunEnds
        BY <2>1 DEF SendInv, Pending, TrackedRunEnds
    <2>3. OnceInv /\ DueInv /\ TurnInv
        BY <2>1 DEF OnceInv, Announced, Fetches, DueInv, Owed, TurnInv
    <2> QED BY <2>2, <2>3, HubInit, FlowInit
<1>2. EndsInv /\ [Next]_vars => EndsInv'
    <2> SUFFICES ASSUME HubInv, FlowInv, SendInv, TrackedRunEnds, OnceInv, DueInv, TurnInv,
                        [Next]_vars
                 PROVE  EndsInv'
        OBVIOUS
    <2>1. HubInv' /\ FlowInv'
        BY HubStep, FlowStep
    <2>3. SendInv' /\ TrackedRunEnds'
        BY SendStep, TrackedEnds
    <2>4. OnceInv' /\ DueInv' /\ TurnInv'
        BY OnceStep, DueStep, TurnStep
    <2> QED BY <2>1, <2>3, <2>4
<1>3. EndsInv => RunsEnd
    <2> SUFFICES ASSUME HubInv, FlowInv, SendInv, TrackedRunEnds, OnceInv, DueInv, TurnInv
                 PROVE  RunsEnd
        OBVIOUS
    <2>1. ASSUME NEW r \in Run, Owed(r), phase[r] = "over" PROVE EndDue(r) \/ Announced(r)
        <3>1. CASE Waits(r)
            <4>1. Has(wire, r)
                BY <2>1, <3>1, Apart DEF Waits, SendInv, Pending, Owed
            <4> QED BY <2>1, <4>1 DEF FlowInv, Flow, EndDue
        <3>2. CASE active[r] # None
            BY <2>1, <3>2 DEF TrackedRunEnds, EndDue, Owed
        <3>3. CASE Holding(r)
            BY <3>3 DEF Holding, EndDue
        <3> QED BY <2>1, <3>1, <3>2, <3>3 DEF DueInv
    <2>2. ASSUME NEW r \in Run, Announced(r) PROVE ~EndDue(r)
        BY <2>2 DEF OnceInv, Gone, Fetches, EndDue
    <2>3. pc[Voice] = "waiting" /\ sent[Voice] \notin missed =>
              (waiter[sent[Voice]] = "done" <=> Announced(sent[Voice]))
        BY DEF TurnInv
    <2> QED BY <2>1, <2>2, <2>3 DEF RunsEnd, ToldOnce
<1> QED BY <1>1, <1>2, <1>3, PTL DEF Spec

=============================================================================
