---------------------------- MODULE GatewayProofs ----------------------------
(***************************************************************************)
(* Proofs about Gateway, for any number of browsers, connections, events   *)
(* and frames that end the reader.                                         *)
(***************************************************************************)
EXTENDS Gateway, TLAPS

-----------------------------------------------------------------------------
(* The steps, by who takes them.                                           *)

(* A task asks for the snapshot or for something else: the connection and  *)
(* the browsers that are there stay.                                       *)
Serves ==
    \/ \E t \in Task : \/ Asks(t) \/ Answered(t) \/ Failed(t)
                       \/ Calls(t) \/ CallAnswered(t) \/ CallFails(t)
    \/ \E n \in Resync : ResyncStarts(n)
    \/ SnapshotExpires \/ PollTicks

(* The gateway, the socket and the reader. *)
Happens == EventComes \/ SocketCloses \/ GatewayReturns \/ ListenerEnds \/ BadFrame

(* The supervisor, but for the steps that change the status. *)
GoesOn == Retries \/ TakesEvent \/ ListenerAwaited \/ HungUp

(* The browsers. *)
Browses == ShutdownAll \/ \E c \in Client : Visits(c) \/ Leaves(c)

LEMMA NextCases ==
    ASSUME [Next]_vars
    PROVE  \/ Serves \/ Happens \/ GoesOn \/ Browses
           \/ Connects \/ ConnectFails \/ LosesConnection \/ Stop \/ UNCHANGED vars
BY DEF Next, TaskStep, Task, Supervises, ConnectionError, Timeout, CallError, CallTimeout,
       Serves, Happens, GoesOn, Browses

LEMMA ServesKeeps ==
    ASSUME Serves
    PROVE  UNCHANGED <<socketVars, listener, events, gatewayVars, running, joined, counters>>
BY DEF Serves, Asks, Answered, Failed, Calls, CallAnswered, CallFails, ResyncStarts,
       SnapshotExpires, PollTicks, connVars, clientVars

LEMMA HappensKeeps ==
    ASSUME Happens
    PROVE  /\ UNCHANGED <<gatewayVars, hubVars, clientVars, visits>>
           /\ listener' \in {listener, "ended"} /\ pending' \in {pending, {}}
BY DEF Happens, EventComes, SocketCloses, GatewayReturns, ListenerEnds, BadFrame, connVars,
       counters

LEMMA GoesOnKeeps ==
    ASSUME GoesOn
    PROVE  /\ UNCHANGED <<gatewayUp, nconn, conn, connected, last, clientVars, counters>>
           /\ UNCHANGED <<running, cache, lockq, rows>>
           /\ TakesEvent \/ UNCHANGED task
BY DEF GoesOn, Retries, TakesEvent, ListenerAwaited, HungUp, socketVars, hubVars, gatewayVars

LEMMA BrowsesKeeps ==
    ASSUME Browses
    PROVE  UNCHANGED <<socketVars, connVars, gatewayVars, running, cache, rows, bad>>
BY DEF Browses, ShutdownAll, Visits, Leaves, counters, hubVars

-----------------------------------------------------------------------------
(* The supervisor and its connection.                                      *)

Sup == {"connecting", "backoff", "reading", "closing", "hanging up", "ended"}

(* It has a connection while it reads from it. *)
SupOK ==
    /\ sup \in Sup
    /\ nconn \in 0 .. MaxConns
    /\ conn \in {None, nconn}
    /\ conn # None => nconn > 0
    /\ connected \in BOOLEAN
    /\ connected <=> conn # None
    /\ sup = "reading" <=> conn # None
    /\ sup \in {"reading", "closing"} => listener # "none"

(* No connection is called None. *)
LEMMA NoneApart == MaxConns \in Nat /\ \A n \in Nat : n # None
BY GatewayAssumption

LEMMA SupInit == Init => SupOK
<1> SUFFICES ASSUME Init PROVE SupOK
    OBVIOUS
<1>1. sup = "connecting" /\ nconn = 0 /\ conn = None /\ connected = FALSE
    BY DEF Init
<1>2. nconn \in 0 .. MaxConns
    BY <1>1, NoneApart
<1> QED BY <1>1, <1>2 DEF SupOK, Sup

LEMMA SupStep == SupOK /\ [Next]_vars => SupOK'
<1> SUFFICES ASSUME SupOK, [Next]_vars PROVE SupOK'
    OBVIOUS
<1>1. CASE Serves
    BY <1>1, ServesKeeps DEF SupOK, gatewayVars
<1>2. CASE Happens
    BY <1>2, HappensKeeps DEF SupOK, gatewayVars
<1>3. CASE Browses
    BY <1>3, BrowsesKeeps DEF SupOK, gatewayVars, connVars
<1>4. CASE Connects
    <2>1. /\ sup' = "reading" /\ nconn' = nconn + 1 /\ conn' = nconn + 1 /\ connected' = TRUE
          /\ listener' = "on" /\ nconn < MaxConns
        BY <1>4 DEF Connects, Opens
    <2>2. nconn \in Nat /\ nconn + 1 \in 1 .. MaxConns
        BY <2>1, NoneApart DEF SupOK
    <2>3. nconn' \in 0 .. MaxConns /\ nconn' > 0 /\ conn' = nconn' /\ nconn' # None
        BY <2>1, <2>2, NoneApart
    <2> QED BY <2>1, <2>3 DEF SupOK, Sup
<1>5. CASE ConnectFails
    BY <1>5 DEF SupOK, Sup, ConnectFails, connVars
<1>6. CASE LosesConnection
    BY <1>6 DEF SupOK, Sup, LosesConnection, connVars
<1>7. CASE Stop
    BY <1>7 DEF SupOK, Sup, Stop, StopsGateway
<1>8. CASE GoesOn
    <2>1. CASE Retries
        BY <2>1 DEF Retries, SupOK, Sup, connVars
    <2>2. CASE TakesEvent
        BY <2>2 DEF TakesEvent, SupOK, Sup, gatewayVars, socketVars
    <2>4. CASE ListenerAwaited
        BY <2>4 DEF ListenerAwaited, SupOK, Sup
    <2>5. CASE HungUp
        BY <2>5 DEF HungUp, SupOK, Sup
    <2> QED BY <1>8, <2>1, <2>2, <2>4, <2>5 DEF GoesOn
<1>9. CASE UNCHANGED vars
    BY <1>9 DEF SupOK, vars, gatewayVars, connVars
<1> QED BY <1>1, <1>2, <1>3, <1>4, <1>5, <1>6, <1>7, <1>8, <1>9, NextCases

-----------------------------------------------------------------------------
(* The types.                                                              *)

LinkType ==
    /\ gatewayUp \in BOOLEAN
    /\ socket \in {"none", "open", "closed"} /\ listener \in {"none", "on", "ended"}
CountType == events \in Nat /\ nevents \in Nat /\ bad \in Nat /\ visits \in Nat
PendingType == pending \subseteq Task \X Resync
HubType ==
    /\ running \in BOOLEAN /\ cache \in Resync \cup {None}
    /\ task \in [Task -> {"off", "starts", "waits", "asks", "replays", "calls"}]
    /\ rows \in [Resync -> Resync \cup {None}]
ToldType ==
    /\ last \in BOOLEAN \cup {None} /\ joined \subseteq Client
    /\ told \in [Client -> BOOLEAN \cup {None}]

Shape == SupOK /\ LinkType /\ CountType /\ PendingType /\ HubType /\ ToldType

LEMMA ShapeTypes == Shape => TypeOK
<1> SUFFICES ASSUME Shape PROVE TypeOK
    OBVIOUS
<1>1. {gatewayUp, connected, running} \subseteq BOOLEAN
    BY DEF Shape, LinkType, SupOK, HubType
<1>2. {nconn, events, nevents, bad, visits} \subseteq Nat
    BY DEF Shape, SupOK, CountType
<1>3. /\ sup \in Sup /\ conn \in {None, nconn} /\ (connected <=> conn # None)
    BY DEF Shape, SupOK
<1> QED BY <1>1, <1>2, <1>3
       DEF Shape, LinkType, PendingType, HubType, ToldType, TypeOK, Sup

LEMMA ShapeInit == Init => Shape
<1> SUFFICES ASSUME Init PROVE Shape
    OBVIOUS
<1>1. LinkType /\ CountType /\ PendingType /\ ToldType
    BY DEF Init, LinkType, CountType, PendingType, ToldType
<1>2. HubType
    BY DEF Init, HubType
<1> QED BY <1>1, <1>2, SupInit DEF Shape

LEMMA LinkStep == LinkType /\ [Next]_vars => LinkType'
<1> SUFFICES ASSUME LinkType, [Next]_vars PROVE LinkType'
    OBVIOUS
<1>1. CASE Serves \/ Browses
    BY <1>1, ServesKeeps, BrowsesKeeps DEF LinkType, socketVars, connVars
<1>2. CASE Happens
    BY <1>2 DEF LinkType, Happens, EventComes, SocketCloses, GatewayReturns, ListenerEnds, BadFrame,
                socketVars, connVars
<1>3. CASE GoesOn
    BY <1>3 DEF LinkType, GoesOn, Retries, TakesEvent, ListenerAwaited, HungUp,
                socketVars, connVars
<1>4. CASE Connects \/ ConnectFails \/ LosesConnection \/ Stop \/ UNCHANGED vars
    BY <1>4 DEF LinkType, Connects, Opens, ConnectFails, LosesConnection, Stop, vars,
                socketVars, connVars
<1> QED BY <1>1, <1>2, <1>3, <1>4, NextCases

LEMMA CountStep == CountType /\ [Next]_vars => CountType'
<1> SUFFICES ASSUME CountType, [Next]_vars PROVE CountType'
    OBVIOUS
<1>1. CASE Serves
    BY <1>1, ServesKeeps DEF CountType, counters
<1>2. CASE Happens
    BY <1>2 DEF CountType, Happens, EventComes, SocketCloses, GatewayReturns, ListenerEnds, BadFrame,
                connVars, counters
<1>3. CASE GoesOn
    <2>1. ASSUME TakesEvent PROVE events' \in Nat
        BY <2>1 DEF CountType, TakesEvent, NextEvent
    <2>2. ASSUME Retries \/ ListenerAwaited \/ HungUp PROVE UNCHANGED events
        BY <2>2 DEF Retries, ListenerAwaited, HungUp, connVars
    <2>3. events' \in Nat
        BY <1>3, <2>1, <2>2 DEF CountType, GoesOn
    <2> QED BY <1>3, <2>3, GoesOnKeeps DEF CountType, counters
<1>4. CASE Browses
    <2>1. visits' \in Nat /\ UNCHANGED <<nevents, bad>>
        BY <1>4 DEF CountType, Browses, ShutdownAll, Visits, Leaves, counters
    <2> QED BY <1>4, <2>1, BrowsesKeeps DEF CountType, connVars
<1>5. CASE Connects
    <2>1. events' = 0 /\ UNCHANGED counters
        BY <1>5 DEF Connects, Opens
    <2> QED BY <2>1 DEF CountType, counters
<1>6. CASE ConnectFails \/ LosesConnection \/ Stop \/ UNCHANGED vars
    <2>1. UNCHANGED <<events, counters>>
        BY <1>6 DEF ConnectFails, LosesConnection, Stop, vars, connVars
    <2> QED BY <2>1 DEF CountType, counters
<1> QED BY <1>1, <1>2, <1>3, <1>4, <1>5, <1>6, NextCases

LEMMA PendingStep == SupOK /\ PendingType /\ [Next]_vars => PendingType'
<1> SUFFICES ASSUME SupOK, PendingType, [Next]_vars PROVE PendingType'
    OBVIOUS
<1>1. conn # None => nconn \in Resync
    BY DEF SupOK, Resync
<1>2. CASE \E t \in Task : Asks(t) \/ Calls(t)
    BY <1>1, <1>2 DEF Asks, Calls, Sendable, PendingType
<1>3. CASE \E t \in Task : Answered(t) \/ Failed(t) \/ CallAnswered(t) \/ CallFails(t)
    BY <1>3 DEF Answered, Failed, CallAnswered, CallFails, PendingType
<1>4. CASE (\E n \in Resync : ResyncStarts(n)) \/ SnapshotExpires \/ PollTicks
    BY <1>4 DEF ResyncStarts, SnapshotExpires, PollTicks, PendingType, connVars
<1>5. CASE Happens
    BY <1>5, HappensKeeps DEF PendingType
<1>6. CASE GoesOn
    <2>1. CASE TakesEvent
        BY <1>1, <2>1 DEF TakesEvent, SupOK, PendingType
    <2>2. CASE Retries \/ ListenerAwaited \/ HungUp
        BY <2>2 DEF Retries, ListenerAwaited, HungUp, PendingType, connVars
    <2> QED BY <1>6, <2>1, <2>2 DEF GoesOn
<1>7. CASE Browses
    BY <1>7, BrowsesKeeps DEF PendingType, connVars
<1>8. CASE Connects \/ ConnectFails \/ LosesConnection \/ UNCHANGED vars
    BY <1>8 DEF Connects, ConnectFails, LosesConnection, vars, PendingType, connVars
<1>9. CASE Stop
    BY <1>9 DEF Stop, PendingType
<1> QED BY <1>2, <1>3, <1>4, <1>5, <1>6, <1>7, <1>8, <1>9, NextCases DEF Serves

(* What a task does with the rows it has. *)
LEMMA HasRowsForm ==
    ASSUME HubType, ToldType, connected \in BOOLEAN,
           NEW t \in Task, NEW from \in Resync \cup {None}, HasRows(t, from)
    PROVE  /\ task' \in [Task -> {"off", "starts", "waits", "asks", "replays", "calls"}]
           /\ \A u \in Task : IF u = t THEN task'[u] \in {"off", "replays"} ELSE task'[u] = task[u]
           /\ rows' \in [Resync -> Resync \cup {None}]
           /\ \A n \in Resync : rows'[n] = IF n = t THEN from ELSE rows[n]
           /\ told' \in [Client -> BOOLEAN \cup {None}]
           /\ \A c \in Client : told'[c] = IF c = t /\ c \in joined THEN connected ELSE told[c]
<1>1. /\ task' \in [Task -> {"off", "starts", "waits", "asks", "replays", "calls"}]
      /\ \A u \in Task : IF u = t THEN task'[u] \in {"off", "replays"} ELSE task'[u] = task[u]
    BY DEF HasRows, Goes, HubType
<1>2. /\ rows' \in [Resync -> Resync \cup {None}]
      /\ \A n \in Resync : rows'[n] = IF n = t THEN from ELSE rows[n]
    BY DEF HasRows, HubType
<1>3. /\ told' \in [Client -> BOOLEAN \cup {None}]
      /\ \A c \in Client : told'[c] = IF c = t /\ c \in joined THEN connected ELSE told[c]
    BY DEF HasRows, ToldType
<1> QED BY <1>1, <1>2, <1>3

(* What the tasks may become when one of them is served: the rows of a     *)
(* resync come from the connection it asked on or from the snapshot it     *)
(* waited for, and a browser is told what holds.                           *)
Effect ==
    /\ HubType'
    /\ told' \in [Client -> BOOLEAN \cup {None}]
    /\ \A c \in Client : told'[c] = told[c] \/ (c \in joined /\ told'[c] = connected)
    /\ cache' \in {cache, conn, None}
    /\ \A n \in Resync :
         /\ task[n] = "off" => task'[n] = "off"
         /\ task'[n] = "waits" => task[n] = "waits" \/ cache' = None
         /\ \/ rows'[n] \in {rows[n], None}
            \/ task[n] # "off" /\ rows'[n] = conn
            \/ task[n] = "waits" /\ rows'[n] = cache

LEMMA RowsEffect ==
    ASSUME HubType, ToldType, connected \in BOOLEAN, conn \in Resync \cup {None},
           UNCHANGED running, cache' \in {cache, conn, None},
           NEW t \in Task, NEW from \in Resync \cup {None}, HasRows(t, from),
           t \in Resync => /\ task[t] # "off"
                           /\ from \in {None, conn} \/ (task[t] = "waits" /\ from = cache)
    PROVE  Effect
<1>1. /\ task' \in [Task -> {"off", "starts", "waits", "asks", "replays", "calls"}]
      /\ \A u \in Task : IF u = t THEN task'[u] \in {"off", "replays"} ELSE task'[u] = task[u]
      /\ rows' \in [Resync -> Resync \cup {None}]
      /\ \A n \in Resync : rows'[n] = IF n = t THEN from ELSE rows[n]
      /\ told' \in [Client -> BOOLEAN \cup {None}]
      /\ \A c \in Client : told'[c] = IF c = t /\ c \in joined THEN connected ELSE told[c]
    BY HasRowsForm
<1>2. HubType'
    BY <1>1 DEF HubType
<1>3. ASSUME NEW n \in Resync
      PROVE  /\ task[n] = "off" => task'[n] = "off"
             /\ task'[n] = "waits" => task[n] = "waits"
             /\ \/ rows'[n] \in {rows[n], None}
                \/ task[n] # "off" /\ rows'[n] = conn
                \/ task[n] = "waits" /\ rows'[n] = cache
    BY <1>1 DEF Task
<1> QED BY <1>1, <1>2, <1>3 DEF Effect

(* A move of one task that tells no rows. *)
LEMMA MoveEffect ==
    ASSUME HubType, ToldType, UNCHANGED <<running, rows, told>>,
           NEW t \in Task, NEW where \in {"off", "waits", "asks", "calls"}, Goes(t, where),
           t \in Resync => task[t] # "off",
           cache' \in {cache, None}, t \in Resync /\ where = "waits" => cache' = None
    PROVE  Effect
<1>1. HubType' /\ told' \in [Client -> BOOLEAN \cup {None}]
    BY DEF HubType, ToldType, Goes
<1>2. \A u \in Task : task'[u] = IF u = t THEN where ELSE task[u]
    BY DEF HubType, Goes
<1>3. ASSUME NEW n \in Resync
      PROVE  /\ task[n] = "off" => task'[n] = "off"
             /\ task'[n] = "waits" => task[n] = "waits" \/ cache' = None
    BY <1>2 DEF Task
<1> QED BY <1>1, <1>3 DEF Effect

LEMMA ServesEffect ==
    ASSUME Shape, Serves
    PROVE  Effect
<1>1. /\ HubType /\ ToldType /\ connected \in BOOLEAN
      /\ conn \in Resync \cup {None} /\ cache \in Resync \cup {None}
    BY DEF Shape, SupOK, Resync, HubType
<1>2. UNCHANGED running
    BY ServesKeeps
<1>3. \A n \in Resync : n \in Task /\ n \notin Client \cup {Poll, Terminal}
    BY GatewayAssumption DEF Task, Resync
<1>4. ASSUME NEW t \in Task, Asks(t) PROVE Effect
    <2>1. task[t] = "waits" /\ UNCHANGED cache
        BY <1>4 DEF Asks
    <2>2. CASE HasRows(t, cache)
        BY <1>1, <1>2, <2>1, <2>2, RowsEffect
    <2>3. CASE Goes(t, "asks") /\ UNCHANGED <<told, rows>>
        BY <1>1, <1>2, <2>1, <2>3, MoveEffect
    <2> QED BY <1>4, <2>2, <2>3 DEF Asks
<1>5. ASSUME NEW t \in Task, Answered(t) PROVE Effect
    <2>1. task[t] = "asks" /\ cache' = conn /\ HasRows(t, conn)
        BY <1>5 DEF Answered
    <2> QED BY <1>1, <1>2, <2>1, RowsEffect
<1>6. ASSUME NEW t \in Task, Failed(t) PROVE Effect
    <2>1. task[t] = "asks" /\ UNCHANGED cache /\ HasRows(t, None)
        BY <1>6 DEF Failed
    <2> QED BY <1>1, <1>2, <2>1, RowsEffect
<1>7. ASSUME NEW t \in Task, Calls(t) \/ CallAnswered(t) \/ CallFails(t) PROVE Effect
    <2>1. UNCHANGED <<cache, rows, told>>
        BY <1>7 DEF Calls, CallAnswered, CallFails, clientVars
    <2>2. PICK where \in {"off", "calls"} : Goes(t, where)
        BY <1>7 DEF Calls, CallAnswered, CallFails
    <2>3. t \in Resync => task[t] # "off"
        BY <1>1, <1>3, <1>7 DEF Calls, CallAnswered, CallFails, ToldType
    <2> QED BY <1>1, <1>2, <2>1, <2>2, <2>3, MoveEffect
<1>8. ASSUME NEW n \in Resync, ResyncStarts(n) PROVE Effect
    <2>1. task[n] = "starts" /\ cache' = None /\ n \in Task
        BY <1>3, <1>8 DEF ResyncStarts
    <2>2. CASE Goes(n, "waits") /\ UNCHANGED <<told, rows>>
        BY <1>1, <1>2, <2>1, <2>2, MoveEffect
    <2>3. CASE HasRows(n, None)
        BY <1>1, <1>2, <2>1, <2>3, RowsEffect
    <2> QED BY <1>8, <2>2, <2>3 DEF ResyncStarts
<1>9. ASSUME SnapshotExpires PROVE Effect
    BY <1>1, <1>2, <1>9 DEF SnapshotExpires, Effect, HubType, ToldType, clientVars
<1>10. ASSUME PollTicks PROVE Effect
    <2>1. UNCHANGED cache /\ Looks(Poll) /\ Poll \in Task /\ Poll \notin Resync
        BY <1>3, <1>10 DEF PollTicks, Task
    <2>2. CASE \E from \in {None, cache} : HasRows(Poll, from)
        BY <1>1, <1>2, <2>1, <2>2, RowsEffect
    <2>3. CASE Goes(Poll, "waits") /\ UNCHANGED <<told, rows>>
        BY <1>1, <1>2, <2>1, <2>3, MoveEffect
    <2> QED BY <2>1, <2>2, <2>3 DEF Looks
<1> QED BY <1>4, <1>5, <1>6, <1>7, <1>8, <1>9, <1>10 DEF Serves

(* What a change of the status does: the browsers are told, and the resync *)
(* of a new connection starts.                                             *)
LEMMA EmitForm ==
    ASSUME Shape, NEW b \in BOOLEAN, Emit(b), b => nconn' \in Resync
    PROVE  /\ last' = b
           /\ told' \in [Client -> BOOLEAN \cup {None}]
           /\ \A c \in Client : told'[c] = IF c \in joined /\ b # last THEN b ELSE told[c]
           /\ task' \in [Task -> {"off", "starts", "waits", "asks", "replays", "calls"}]
           /\ \A t \in Task : task'[t] = task[t] \/ (b /\ t = nconn' /\ task'[t] = "starts")
<1>1. HubType /\ ToldType
    BY DEF Shape
<1>2. b => nconn' \in Task
    BY DEF Task
<1>3. last' = b
    BY DEF Emit
<1>4. /\ told' \in [Client -> BOOLEAN \cup {None}]
      /\ \A c \in Client : told'[c] = IF c \in joined /\ b # last THEN b ELSE told[c]
    <2>1. CASE b = last
        BY <1>1, <2>1 DEF Emit, ToldType
    <2>2. CASE b # last
        <3>1. told' = [c \in Client |-> IF c \in joined THEN b ELSE told[c]]
            BY <2>2 DEF Emit
        <3> QED BY <1>1, <2>2, <3>1 DEF ToldType
    <2> QED BY <2>1, <2>2
<1>5. UNCHANGED task \/ (b /\ task' = [task EXCEPT ![nconn'] = "starts"])
    BY DEF Emit, Goes
<1>6. /\ task' \in [Task -> {"off", "starts", "waits", "asks", "replays", "calls"}]
      /\ \A t \in Task : task'[t] = task[t] \/ (b /\ t = nconn' /\ task'[t] = "starts")
    BY <1>1, <1>2, <1>5 DEF HubType
<1> QED BY <1>3, <1>4, <1>6

(* The steps that change the status. *)
LEMMA ConnectsForm ==
    ASSUME Shape, Connects
    PROVE  /\ nconn' = nconn + 1 /\ nconn' \in Resync
           /\ Emit(TRUE) /\ connected' = TRUE /\ connected = FALSE
           /\ UNCHANGED <<running, cache, rows, joined>>
<1>1. /\ nconn' = nconn + 1 /\ nconn < MaxConns /\ Emit(TRUE) /\ connected' = TRUE
      /\ sup = "connecting" /\ UNCHANGED <<running, cache, rows, joined>>
    BY DEF Connects
<1>2. nconn' \in Resync /\ connected = FALSE
    BY <1>1, NoneApart DEF Shape, SupOK, Resync
<1> QED BY <1>1, <1>2

LEMMA LosesForm ==
    ASSUME Shape, ConnectFails \/ LosesConnection
    PROVE  /\ UNCHANGED <<nconn, running, cache, rows, joined>>
           /\ Emit(FALSE) /\ connected' = FALSE
BY DEF ConnectFails, LosesConnection, Shape, SupOK

(* An event may spawn the task of a terminal event, when there is none. *)
LEMMA GoesOnTasks ==
    ASSUME HubType, GoesOn
    PROVE  /\ task' \in [Task -> {"off", "starts", "waits", "asks", "replays", "calls"}]
           /\ \A t \in Task : \/ task'[t] = task[t]
                              \/ t = Terminal /\ task[t] = "off" /\ task'[t] = "replays"
<1>1. CASE UNCHANGED task
    BY <1>1 DEF HubType
<1>2. CASE TakesEvent /\ task[Terminal] = "off" /\ Goes(Terminal, "replays")
    BY <1>2 DEF HubType, Goes
<1> QED BY <1>1, <1>2, GoesOnKeeps DEF TakesEvent

LEMMA HubStep == Shape /\ [Next]_vars => HubType'
<1> SUFFICES ASSUME Shape, [Next]_vars PROVE HubType'
    OBVIOUS
<1>1. HubType
    BY DEF Shape
<1>2. CASE Serves
    BY <1>2, ServesEffect DEF Effect
<1>3. CASE Happens \/ UNCHANGED vars
    BY <1>1, <1>3, HappensKeeps DEF HubType, hubVars, vars
<1>8. CASE GoesOn
    BY <1>1, <1>8, GoesOnKeeps, GoesOnTasks DEF HubType
<1>4. CASE Browses
    <2>1. UNCHANGED <<running, cache, rows>>
        BY <1>4, BrowsesKeeps
    <2>2. task' \in [Task -> {"off", "starts", "waits", "asks", "replays", "calls"}]
        BY <1>1, <1>4 DEF Browses, ShutdownAll, Visits, Leaves, Goes, HubType, hubVars
    <2> QED BY <1>1, <2>1, <2>2 DEF HubType
<1>5. CASE Connects
    BY <1>1, <1>5, ConnectsForm, EmitForm DEF HubType
<1>6. CASE ConnectFails \/ LosesConnection
    BY <1>1, <1>6, LosesForm, EmitForm DEF HubType
<1>7. CASE Stop
    BY <1>1, <1>7 DEF Stop, HubType
<1> QED BY <1>2, <1>3, <1>4, <1>5, <1>6, <1>7, <1>8, NextCases

LEMMA ToldStep == Shape /\ [Next]_vars => ToldType'
<1> SUFFICES ASSUME Shape, [Next]_vars PROVE ToldType'
    OBVIOUS
<1>1. ToldType /\ connected \in BOOLEAN
    BY DEF Shape, SupOK
<1>2. CASE Serves
    BY <1>1, <1>2, ServesEffect, ServesKeeps DEF Effect, ToldType, gatewayVars
<1>3. CASE Happens \/ GoesOn \/ UNCHANGED vars
    BY <1>1, <1>3, HappensKeeps, GoesOnKeeps DEF ToldType, clientVars, gatewayVars, vars
<1>4. CASE Browses
    <2>1. UNCHANGED last
        BY <1>4, BrowsesKeeps DEF gatewayVars
    <2>2. joined' \subseteq Client /\ told' \in [Client -> BOOLEAN \cup {None}]
        BY <1>1, <1>4 DEF Browses, ShutdownAll, Visits, Leaves, ToldType
    <2> QED BY <1>1, <2>1, <2>2 DEF ToldType
<1>5. CASE Connects
    BY <1>1, <1>5, ConnectsForm, EmitForm DEF ToldType
<1>6. CASE ConnectFails \/ LosesConnection
    BY <1>1, <1>6, LosesForm, EmitForm DEF ToldType
<1>7. CASE Stop
    BY <1>1, <1>7 DEF Stop, ToldType, clientVars
<1> QED BY <1>2, <1>3, <1>4, <1>5, <1>6, <1>7, NextCases

LEMMA ShapeStep == Shape /\ [Next]_vars => Shape'
BY SupStep, LinkStep, CountStep, PendingStep, HubStep, ToldStep DEF Shape

-----------------------------------------------------------------------------
(* The dead connection.                                                    *)

(* A reader that has ended with its socket left nobody waiting, and nobody *)
(* can send on a socket that has closed.                                   *)
DeadInv == listener = "ended" /\ bad = 0 => pending = {} /\ (conn # None => socket = "closed")

LEMMA DeadInit == Init => DeadInv
BY DEF Init, DeadInv

LEMMA DeadStep == Shape /\ DeadInv /\ [Next]_vars => DeadInv'
<1> SUFFICES ASSUME Shape, DeadInv, [Next]_vars, listener' = "ended", bad' = 0
             PROVE  pending' = {} /\ (conn' # None => socket' = "closed")
    BY DEF DeadInv
<1>1. SupOK /\ LinkType /\ CountType
    BY DEF Shape
<1>2. CASE Serves
    <2>1. UNCHANGED <<socket, listener, conn, bad>>
        BY <1>2, ServesKeeps DEF socketVars, gatewayVars, counters
    <2>2. pending = {} /\ ~Sendable
        BY <2>1 DEF DeadInv, Sendable
    <2>3. pending' \subseteq pending
        BY <1>2, <2>2 DEF Serves, Asks, Answered, Failed, Calls, CallAnswered, CallFails,
                          ResyncStarts, SnapshotExpires, PollTicks, connVars
    <2> QED BY <2>1, <2>2, <2>3 DEF DeadInv
<1>3. CASE Happens
    <2>1. UNCHANGED conn
        BY <1>3, HappensKeeps DEF gatewayVars
    <2>2. CASE EventComes \/ SocketCloses \/ GatewayReturns
        BY <1>3, <2>1, <2>2 DEF EventComes, SocketCloses, GatewayReturns, DeadInv, socketVars,
                                connVars, counters
    <2>3. CASE ListenerEnds
        BY <2>1, <2>3 DEF ListenerEnds, socketVars
    <2>4. CASE BadFrame
        BY <1>1, <2>4 DEF BadFrame, CountType
    <2> QED BY <1>3, <2>2, <2>3, <2>4 DEF Happens
<1>4. CASE GoesOn
    <2>1. UNCHANGED <<conn, bad>>
        BY <1>4, GoesOnKeeps DEF counters
    <2>2. CASE Retries
        BY <2>1, <2>2 DEF Retries, DeadInv, socketVars, connVars
    <2>3. CASE TakesEvent
        <3>1. UNCHANGED <<socket, listener>> /\ conn # None
            BY <1>1, <2>3 DEF TakesEvent, SupOK, socketVars
        <3>2. socket = "closed" /\ pending = {}
            BY <2>1, <3>1 DEF DeadInv
        <3> QED BY <2>3, <3>1, <3>2 DEF TakesEvent
    <2>4. CASE ListenerAwaited
        <3>1. conn = None /\ listener \in {"on", "ended"}
            BY <1>1, <2>4 DEF ListenerAwaited, SupOK, LinkType
        <3> QED BY <2>1, <2>4, <3>1 DEF ListenerAwaited, DeadInv
    <2>5. CASE HungUp
        BY <2>5 DEF HungUp
    <2> QED BY <1>4, <2>2, <2>3, <2>4, <2>5 DEF GoesOn
<1>5. CASE Browses
    BY <1>5, BrowsesKeeps DEF DeadInv, socketVars, connVars, gatewayVars
<1>6. CASE Connects
    BY <1>6 DEF Connects, Opens
<1>7. CASE ConnectFails
    BY <1>7 DEF ConnectFails, DeadInv, socketVars, connVars, counters
<1>8. CASE LosesConnection
    BY <1>8 DEF LosesConnection, DeadInv, socketVars, connVars, counters
<1>9. CASE Stop
    <2>1. UNCHANGED <<socket, listener, bad>> /\ pending' \subseteq pending
        BY <1>9 DEF Stop, socketVars, counters
    <2>2. conn' \in {conn, None}
        BY <1>1, <1>9 DEF Stop, StopsGateway, SupOK, Sup
    <2> QED BY <2>1, <2>2 DEF DeadInv
<1>10. CASE UNCHANGED vars
    BY <1>10 DEF DeadInv, vars, socketVars, connVars, gatewayVars, counters
<1> QED BY <1>2, <1>3, <1>4, <1>5, <1>6, <1>7, <1>8, <1>9, <1>10, NextCases

-----------------------------------------------------------------------------
(* The rows of a resync.                                                   *)

(* A resync is of a connection there has been; once it waits for the lock, *)
(* a snapshot it may find was fetched since.                               *)
WaitInv ==
    \A n \in Resync : /\ task[n] # "off" => n <= nconn
                      /\ task[n] = "waits" /\ cache # None => cache >= n
FreshInv == WaitInv /\ ResyncIsFresh

LEMMA FreshInit == Init => FreshInv
BY DEF Init, FreshInv, WaitInv, ResyncIsFresh, Task

LEMMA ResyncTasks ==
    \A n \in Resync : n \in Task /\ n \in Nat /\ n # None /\ n \notin Client \cup {Poll, Terminal}
BY GatewayAssumption DEF Task, Resync

LEMMA ServesKeepsFresh ==
    ASSUME Shape, FreshInv, Serves
    PROVE  FreshInv'
<1>1. SupOK /\ HubType
    BY DEF Shape
<1>2. Effect /\ UNCHANGED nconn
    BY ServesEffect, ServesKeeps DEF gatewayVars
<1>3. conn # None => conn = nconn
    BY <1>1 DEF SupOK
<1>4. ASSUME NEW n \in Resync
      PROVE  /\ task'[n] # "off" => n <= nconn'
             /\ task'[n] = "waits" /\ cache' # None => cache' >= n
             /\ rows'[n] # None => rows'[n] >= n
    <2>1. n \in Nat /\ nconn \in Nat
        BY <1>1, ResyncTasks DEF SupOK
    <2>2. /\ task[n] # "off" => n <= nconn
          /\ task[n] = "waits" /\ cache # None => cache >= n
          /\ rows[n] # None => rows[n] >= n
        <3>1. WaitInv /\ ResyncIsFresh
            BY DEF FreshInv
        <3>2. task[n] # "off" => n <= nconn
            BY <3>1 DEF WaitInv
        <3>3. task[n] = "waits" /\ cache # None => cache >= n
            BY <3>1 DEF WaitInv
        <3>4. rows[n] # None => rows[n] >= n
            BY <3>1 DEF ResyncIsFresh
        <3> QED BY <3>2, <3>3, <3>4
    <2>3. /\ task[n] = "off" => task'[n] = "off"
          /\ task'[n] = "waits" => task[n] = "waits" \/ cache' = None
          /\ \/ rows'[n] \in {rows[n], None}
             \/ task[n] # "off" /\ rows'[n] = conn
             \/ task[n] = "waits" /\ rows'[n] = cache
          /\ cache' \in {cache, conn, None}
        BY <1>2 DEF Effect
    <2>4. task'[n] # "off" => n <= nconn'
        BY <1>2, <2>2, <2>3
    <2>5. ASSUME task'[n] = "waits", cache' # None PROVE cache' >= n
        <3>1. task[n] = "waits" /\ cache' \in {cache, conn}
            BY <2>3, <2>5
        <3>2. CASE cache' = cache
            BY <2>2, <2>5, <3>1, <3>2
        <3>3. CASE cache' = conn
            BY <1>3, <2>1, <2>2, <2>5, <3>1, <3>3
        <3> QED BY <3>1, <3>2, <3>3
    <2>6. ASSUME rows'[n] # None PROVE rows'[n] >= n
        <3>1. CASE rows'[n] = rows[n]
            BY <2>2, <2>6, <3>1
        <3>2. CASE task[n] # "off" /\ rows'[n] = conn
            BY <1>3, <2>1, <2>2, <2>6, <3>2
        <3>3. CASE task[n] = "waits" /\ rows'[n] = cache
            BY <2>2, <2>6, <3>3
        <3> QED BY <2>3, <2>6, <3>1, <3>2, <3>3
    <2> QED BY <2>4, <2>5, <2>6
<1> QED BY <1>4 DEF FreshInv, WaitInv, ResyncIsFresh

LEMMA FreshStep == Shape /\ FreshInv /\ [Next]_vars => FreshInv'
<1> SUFFICES ASSUME Shape, FreshInv, [Next]_vars PROVE FreshInv'
    OBVIOUS
<1>1. CASE Serves
    BY <1>1, ServesKeepsFresh
<1>2. CASE Happens \/ UNCHANGED vars
    BY <1>2, HappensKeeps DEF FreshInv, WaitInv, ResyncIsFresh, hubVars, gatewayVars, vars
<1>3. ASSUME UNCHANGED <<cache, rows, nconn>>, \A n \in Resync : task'[n] \in {task[n], "off"}
      PROVE  FreshInv'
    BY <1>3 DEF FreshInv, WaitInv, ResyncIsFresh
<1>8. CASE GoesOn
    <2>1. UNCHANGED <<cache, rows, nconn>>
        BY <1>8, GoesOnKeeps
    <2>2. \A n \in Resync : task'[n] = task[n]
        BY <1>8, GoesOnTasks, ResyncTasks DEF Shape
    <2> QED BY <1>3, <2>1, <2>2
<1>4. CASE Browses
    <2>1. UNCHANGED <<cache, rows, nconn>>
        BY <1>4, BrowsesKeeps DEF gatewayVars
    <2>2. \A n \in Resync : task'[n] = task[n]
        BY <1>4, ResyncTasks DEF Shape, HubType, Browses, ShutdownAll, Visits, Leaves, Goes, hubVars
    <2> QED BY <1>3, <2>1, <2>2
<1>5. CASE Stop
    <2>1. \A n \in Resync : task'[n] = "off"
        BY <1>5, ResyncTasks DEF Stop, Cancelled
    <2> QED BY <1>3, <1>5, <2>1 DEF Stop
<1>6. CASE ConnectFails \/ LosesConnection
    <2>1. UNCHANGED <<cache, rows, nconn>> /\ \A n \in Resync : task'[n] = task[n]
        BY <1>6, LosesForm, EmitForm, ResyncTasks
    <2> QED BY <1>3, <2>1
<1>7. CASE Connects
    <2>0. nconn \in Nat
        BY DEF Shape, SupOK
    <2>1. nconn' = nconn + 1 /\ UNCHANGED <<cache, rows>>
        BY <1>7, ConnectsForm
    <2>2. \A n \in Resync : task'[n] = task[n] \/ (n = nconn' /\ task'[n] = "starts")
        BY <1>7, ConnectsForm, EmitForm, ResyncTasks
    <2>3. ASSUME NEW n \in Resync
          PROVE  /\ task'[n] # "off" => n <= nconn'
                 /\ task'[n] = "waits" /\ cache' # None => cache' >= n
        <3>1. /\ task[n] # "off" => n <= nconn
              /\ task[n] = "waits" /\ cache # None => cache >= n
            BY DEF FreshInv, WaitInv
        <3>2. n \in Nat
            BY ResyncTasks
        <3>3. CASE task'[n] = task[n]
            BY <2>0, <2>1, <3>1, <3>2, <3>3
        <3>4. CASE n = nconn' /\ task'[n] = "starts"
            BY <3>2, <3>4
        <3> QED BY <2>2, <3>3, <3>4
    <2> QED BY <2>1, <2>3 DEF FreshInv, WaitInv, ResyncIsFresh
<1> QED BY <1>1, <1>2, <1>4, <1>5, <1>6, <1>7, <1>8, NextCases

-----------------------------------------------------------------------------
(* What the browsers were told.                                            *)

(* A browser without a channel was told nothing; the status broadcast last *)
(* is the one that holds, so that every change is one.                     *)
ToldInv ==
    /\ \A c \in Client \ joined : told[c] = None
    /\ running => last \in {None, connected}
    /\ ToldIsTrue

LEMMA ToldInit == Init => ToldInv
BY DEF Init, ToldInv, ToldIsTrue

LEMMA ToldInvStep == Shape /\ ToldInv /\ [Next]_vars => ToldInv'
<1> SUFFICES ASSUME Shape, ToldInv, [Next]_vars PROVE ToldInv'
    OBVIOUS
<1>1. ToldType /\ connected \in BOOLEAN
    BY DEF Shape, SupOK
<1>2. CASE Serves
    <2>1. UNCHANGED <<last, connected, running, joined>>
        BY <1>2, ServesKeeps DEF gatewayVars
    <2>2. \A c \in Client : told'[c] = told[c] \/ (c \in joined /\ told'[c] = connected)
        BY <1>2, ServesEffect DEF Effect
    <2> QED BY <2>1, <2>2 DEF ToldInv, ToldIsTrue
<1>3. CASE Happens \/ GoesOn \/ UNCHANGED vars
    BY <1>3, HappensKeeps, GoesOnKeeps DEF ToldInv, ToldIsTrue, clientVars, gatewayVars, hubVars, vars
<1>4. CASE Browses
    <2>1. UNCHANGED <<last, connected, running>>
        BY <1>4, BrowsesKeeps DEF gatewayVars
    <2>2. ASSUME NEW c \in Client
          PROVE  /\ c \notin joined' => told'[c] = None
                 /\ told'[c] \in {told[c], None, connected}
        BY <1>1, <1>4 DEF Browses, ShutdownAll, Visits, Leaves, ToldInv, ToldType
    <2> QED BY <2>1, <2>2 DEF ToldInv, ToldIsTrue
<1>5. CASE Stop
    BY <1>5 DEF Stop, ToldInv, ToldIsTrue, clientVars
<1>6. CASE Connects
    <2>0. connected = FALSE /\ connected' = TRUE /\ UNCHANGED <<running, joined>>
        BY <1>6, ConnectsForm
    <2>1. last' = TRUE
        BY <1>6, ConnectsForm, EmitForm
    <2>2. \A c \in Client : told'[c] = IF c \in joined /\ TRUE # last THEN TRUE ELSE told[c]
        BY <1>6, ConnectsForm, EmitForm
    <2>3. running => TRUE # last
        <3>1. None # TRUE
            BY GatewayAssumption
        <3> QED BY <2>0, <3>1 DEF ToldInv
    <2>4. ASSUME NEW c \in Client
          PROVE  /\ c \notin joined => told'[c] = None
                 /\ running => told'[c] \in {None, TRUE}
        BY <2>2, <2>3 DEF ToldInv, ToldIsTrue
    <2> QED BY <2>0, <2>1, <2>4 DEF ToldInv, ToldIsTrue
<1>7. CASE ConnectFails \/ LosesConnection
    <2>1. last' = FALSE /\ connected' = FALSE /\ UNCHANGED <<running, joined>>
        BY <1>7, LosesForm, EmitForm
    <2>2. \A c \in Client : told'[c] = IF c \in joined /\ FALSE # last THEN FALSE ELSE told[c]
        BY <1>7, LosesForm, EmitForm
    <2>3. running /\ FALSE = last => connected = FALSE
        <3>1. None # FALSE
            BY GatewayAssumption
        <3> QED BY <3>1 DEF ToldInv
    <2>4. ASSUME NEW c \in Client
          PROVE  /\ c \notin joined => told'[c] = None
                 /\ running => told'[c] \in {None, FALSE}
        <3>1. /\ c \notin joined => told[c] = None
              /\ running => told[c] \in {None, connected}
            BY DEF ToldInv, ToldIsTrue
        <3>2. CASE FALSE = last
            BY <2>2, <2>3, <3>1, <3>2
        <3>3. CASE FALSE # last
            BY <2>2, <3>1, <3>3
        <3> QED BY <3>2, <3>3
    <2> QED BY <2>1, <2>4 DEF ToldInv, ToldIsTrue
<1> QED BY <1>2, <1>3, <1>4, <1>5, <1>6, <1>7, NextCases

-----------------------------------------------------------------------------
(* The lock of the snapshot.                                               *)

(* Nobody is in the queue twice, and the first one asks. *)
QueueOK(q, at) ==
    /\ q \in Seq(Task)
    /\ \A i, j \in 1 .. Len(q) : q[i] = q[j] => i = j
    /\ \A i \in 1 .. Len(q) : at[q[i]] \in {"waits", "asks"}
    /\ \A t \in Task : at[t] \in {"waits", "asks"} => \E i \in 1 .. Len(q) : q[i] = t
    /\ \A t \in Task : at[t] = "asks" => q[1] = t

LockInv == QueueOK(lockq, task)

(* Who is in the queue is told by OneAsks in terms of sets. *)
LEMMA LockTells ==
    ASSUME LockInv
    PROVE  OneAsks
<1>1. lockq \in Seq(Task) /\ ToSet(lockq) = {lockq[i] : i \in 1 .. Len(lockq)}
    BY DEF LockInv, QueueOK, ToSet
<1>2. ToSet(lockq) = {t \in Task : task[t] \in {"waits", "asks"}}
    <2>1. ASSUME NEW t \in ToSet(lockq) PROVE t \in Task /\ task[t] \in {"waits", "asks"}
        <3>1. PICK i \in 1 .. Len(lockq) : lockq[i] = t
            BY <1>1, <2>1
        <3> QED BY <1>1, <3>1 DEF LockInv, QueueOK
    <2>2. ASSUME NEW t \in Task, task[t] \in {"waits", "asks"} PROVE t \in ToSet(lockq)
        BY <1>1, <2>2 DEF LockInv, QueueOK
    <2> QED BY <2>1, <2>2
<1>3. ASSUME NEW t \in Task, task[t] = "asks" PROVE Holder(t)
    <2>1. lockq[1] = t /\ \E i \in 1 .. Len(lockq) : lockq[i] = t
        BY <1>3 DEF LockInv, QueueOK
    <2> QED BY <1>1, <2>1 DEF Holder
<1> QED BY <1>2, <1>3 DEF OneAsks

(* The queue stays while whoever is in it does. *)
LEMMA QueueStays ==
    ASSUME NEW q, NEW at, NEW to, QueueOK(q, at),
           \A t \in Task : to[t] = at[t] \/ {to[t], at[t]} \cap {"waits", "asks"} = {}
    PROVE  QueueOK(q, to)
<1>1. \A i \in 1 .. Len(q) : q[i] \in Task
    BY DEF QueueOK
<1>2. \A t \in Task : /\ to[t] \in {"waits", "asks"} <=> at[t] \in {"waits", "asks"}
                      /\ to[t] = "asks" => at[t] = "asks"
    OBVIOUS
<1> QED BY <1>1, <1>2 DEF QueueOK

(* Who was not in it comes last. *)
LEMMA QueueGrows ==
    ASSUME NEW q, NEW at, NEW to, QueueOK(q, at), NEW t \in Task,
           at[t] \notin {"waits", "asks"}, to[t] = "waits",
           \A u \in Task : u # t => to[u] = at[u]
    PROVE  QueueOK(Append(q, t), to)
<1> DEFINE p == Append(q, t)
<1>1. /\ q \in Seq(Task) /\ p \in Seq(Task) /\ Len(q) \in Nat /\ Len(p) = Len(q) + 1
      /\ \A i \in 1 .. Len(q) : p[i] = q[i] /\ q[i] \in Task
      /\ p[Len(q) + 1] = t
    BY DEF QueueOK
<1> HIDE DEF p
<1>2. \A i \in 1 .. Len(q) : q[i] # t /\ to[q[i]] \in {"waits", "asks"}
    BY <1>1 DEF QueueOK
<1>3. \A i \in 1 .. Len(p) : i \in 1 .. Len(q) \/ i = Len(q) + 1
    BY <1>1
<1>4. ASSUME NEW i \in 1 .. Len(p), NEW j \in 1 .. Len(p), p[i] = p[j] PROVE i = j
    <2>1. CASE i \in 1 .. Len(q) /\ j \in 1 .. Len(q)
        BY <1>1, <1>4, <2>1 DEF QueueOK
    <2> QED BY <1>1, <1>2, <1>3, <1>4, <2>1
<1>5. \A i \in 1 .. Len(p) : to[p[i]] \in {"waits", "asks"}
    BY <1>1, <1>2, <1>3
<1>6. ASSUME NEW u \in Task, to[u] \in {"waits", "asks"} PROVE \E i \in 1 .. Len(p) : p[i] = u
    <2>1. CASE u = t
        <3>1. Len(q) + 1 \in 1 .. Len(p)
            BY <1>1
        <3> QED BY <1>1, <2>1, <3>1
    <2>2. CASE u # t
        <3>1. PICK i \in 1 .. Len(q) : q[i] = u
            BY <1>6, <2>2 DEF QueueOK
        <3>2. i \in 1 .. Len(p)
            BY <1>1
        <3> QED BY <1>1, <3>1, <3>2
    <2> QED BY <2>1, <2>2
<1>7. ASSUME NEW u \in Task, to[u] = "asks" PROVE p[1] = u
    <2>1. u # t /\ at[u] = "asks"
        BY <1>7
    <2>2. q[1] = u /\ \E i \in 1 .. Len(q) : q[i] = u
        BY <2>1 DEF QueueOK
    <2>3. 1 \in 1 .. Len(q)
        BY <1>1, <2>2
    <2> QED BY <1>1, <2>2, <2>3
<1>8. QueueOK(p, to)
    BY <1>1, <1>4, <1>5, <1>6, <1>7 DEF QueueOK
<1> QED BY <1>8 DEF p

(* The first one leaves it. *)
LEMMA QueueMoves ==
    ASSUME NEW q, NEW at, NEW to, QueueOK(q, at), q # <<>>,
           to[q[1]] \notin {"waits", "asks"},
           \A u \in Task : u # q[1] => to[u] = at[u]
    PROVE  QueueOK(Tail(q), to)
<1> DEFINE p == Tail(q)
<1>1. /\ q \in Seq(Task) /\ p \in Seq(Task) /\ Len(q) \in Nat /\ Len(q) > 0
      /\ Len(p) = Len(q) - 1
      /\ \A i \in 1 .. Len(p) : i + 1 \in 1 .. Len(q) /\ p[i] = q[i + 1]
    BY DEF QueueOK
<1> HIDE DEF p
<1>2. 1 \in 1 .. Len(q) /\ q[1] \in Task
    BY <1>1
<1>3. \A i \in 1 .. Len(p) : p[i] # q[1] /\ p[i] \in Task
    <2>1. SUFFICES ASSUME NEW i \in 1 .. Len(p), q[i + 1] = q[1] PROVE FALSE
        BY <1>1
    <2>2. i + 1 = 1
        BY <1>1, <1>2, <2>1 DEF QueueOK
    <2> QED BY <1>1, <2>2
<1>4. \A i, j \in 1 .. Len(p) : p[i] = p[j] => i = j
    BY <1>1 DEF QueueOK
<1>5. \A i \in 1 .. Len(p) : to[p[i]] \in {"waits", "asks"}
    BY <1>1, <1>3 DEF QueueOK
<1>6. ASSUME NEW u \in Task, to[u] \in {"waits", "asks"} PROVE \E i \in 1 .. Len(p) : p[i] = u
    <2>1. u # q[1] /\ at[u] \in {"waits", "asks"}
        BY <1>6
    <2>2. PICK i \in 1 .. Len(q) : q[i] = u
        BY <2>1 DEF QueueOK
    <2>3. i - 1 \in 1 .. Len(p) /\ (i - 1) + 1 = i
        BY <1>1, <2>1, <2>2
    <2> QED BY <1>1, <2>2, <2>3
<1>7. ASSUME NEW u \in Task, to[u] = "asks" PROVE p[1] = u
    <2>1. u # q[1] /\ at[u] = "asks"
        BY <1>7
    <2> QED BY <2>1 DEF QueueOK
<1>8. QueueOK(p, to)
    BY <1>1, <1>4, <1>5, <1>6, <1>7 DEF QueueOK
<1> QED BY <1>8 DEF p

(* The first one waits no more, and has the lock. *)
LEMMA QueueAsks ==
    ASSUME NEW q, NEW at, NEW to, QueueOK(q, at), q # <<>>, at[q[1]] = "waits",
           to[q[1]] = "asks", \A u \in Task : u # q[1] => to[u] = at[u]
    PROVE  QueueOK(q, to)
<1>1. q \in Seq(Task) /\ 1 \in 1 .. Len(q) /\ q[1] \in Task
      /\ \A i \in 1 .. Len(q) : q[i] \in Task
    BY DEF QueueOK
<1>2. \A u \in Task : u # q[1] => at[u] # "asks"
    BY DEF QueueOK
<1>3. \A u \in Task : to[u] \in {"waits", "asks"} <=> at[u] \in {"waits", "asks"}
    OBVIOUS
<1>4. \A u \in Task : to[u] = "asks" => q[1] = u
    BY <1>2
<1> QED BY <1>1, <1>3, <1>4 DEF QueueOK

(* Who is cancelled leaves it, and the others stay in order. *)
LEMMA QueueLoses ==
    ASSUME NEW q, NEW at, NEW to, QueueOK(q, at), NEW gone, NEW p,
           p \in SeqOf(ToSet(q) \ gone, Len(q)), ToSet(p) = ToSet(q) \ gone, InOrder(p, q),
           \A t \in Task : t \in gone => to[t] \notin {"waits", "asks"},
           \A t \in Task : t \notin gone => to[t] = at[t]
    PROVE  QueueOK(p, to)
<1>1. q \in Seq(Task) /\ Len(q) \in Nat /\ \A i \in 1 .. Len(q) : q[i] \in Task
    BY DEF QueueOK
<1>2. PICK m \in 0 .. Len(q) : p \in [1 .. m -> ToSet(q) \ gone]
    BY DEF SeqOf
<1>3. ToSet(q) = {q[i] : i \in 1 .. Len(q)} /\ ToSet(q) \subseteq Task
    BY <1>1 DEF ToSet
<1>4. p \in Seq(Task) /\ Len(p) = m /\ m \in Nat
    <2>1. p \in [1 .. m -> Task] /\ m \in Nat
        BY <1>1, <1>2, <1>3
    <2>2. p \in Seq(Task)
        BY <2>1
    <2> QED BY <2>1, <2>2
<1>5. ToSet(p) = {p[i] : i \in 1 .. Len(p)}
    BY <1>4 DEF ToSet
<1>6. \A i \in 1 .. Len(p) : /\ p[i] \in Task /\ p[i] \notin gone
                             /\ \E k \in 1 .. Len(q) : q[k] = p[i]
    BY <1>2, <1>3, <1>4
<1>7. ASSUME NEW i \in 1 .. Len(p), NEW j \in 1 .. Len(p), p[i] = p[j], i < j PROVE FALSE
    <2>1. PICK k \in 1 .. Len(q) : q[k] = p[i]
        BY <1>6
    <2>2. k < k
        BY <1>7, <2>1 DEF InOrder
    <2> QED BY <1>1, <2>2
<1>8. \A i, j \in 1 .. Len(p) : p[i] = p[j] => i = j
    BY <1>4, <1>7
<1>9. \A i \in 1 .. Len(p) : to[p[i]] \in {"waits", "asks"}
    BY <1>6 DEF QueueOK
<1>10. ASSUME NEW t \in Task, to[t] \in {"waits", "asks"} PROVE \E i \in 1 .. Len(p) : p[i] = t
    <2>1. t \notin gone /\ at[t] \in {"waits", "asks"}
        BY <1>10
    <2>2. t \in ToSet(q)
        BY <1>3, <2>1 DEF QueueOK
    <2> QED BY <1>5, <2>1, <2>2
<1>11. ASSUME NEW t \in Task, to[t] = "asks" PROVE p[1] = t
    <2>1. at[t] = "asks"
        BY <1>11
    <2>2. q[1] = t /\ 1 \in 1 .. Len(q)
        BY <1>1, <2>1 DEF QueueOK
    <2>3. PICK i \in 1 .. Len(p) : p[i] = t
        BY <1>10, <1>11
    <2>4. 1 \in 1 .. Len(p)
        BY <1>4, <2>3
    <2>5. PICK k \in 1 .. Len(q) : q[k] = p[1]
        BY <1>6, <2>4
    <2>6. 1 < i => k < 1
        BY <2>2, <2>3, <2>4, <2>5 DEF InOrder
    <2>7. i = 1
        BY <1>1, <1>4, <2>3, <2>5, <2>6
    <2> QED BY <2>3, <2>7
<1> QED BY <1>4, <1>8, <1>9, <1>10, <1>11 DEF QueueOK

LEMMA LockInit == Init => LockInv
<1> SUFFICES ASSUME Init PROVE LockInv
    OBVIOUS
<1>1. lockq = <<>> /\ task = [t \in Task |-> "off"]
    BY DEF Init
<1>2. lockq \in Seq(Task) /\ Len(lockq) = 0
    BY <1>1
<1> QED BY <1>1, <1>2 DEF LockInv, QueueOK

(* The tasks that are served. *)
LEMMA ServesKeepsLock ==
    ASSUME Shape, LockInv, Serves
    PROVE  LockInv'
<1>1. /\ HubType /\ ToldType /\ connected \in BOOLEAN
      /\ conn \in Resync \cup {None} /\ cache \in Resync \cup {None}
    BY DEF Shape, SupOK, Resync, HubType
<1>2. QueueOK(lockq, task)
    BY DEF LockInv
<1>3. \A n \in Resync : n \in Task
    BY DEF Task
(* A task that has the rows is not in the queue. *)
<1>r. ASSUME NEW t \in Task, NEW from \in Resync \cup {None}, HasRows(t, from)
      PROVE  /\ task'[t] \in {"off", "replays"}
             /\ \A u \in Task : u # t => task'[u] = task[u]
    BY <1>1, <1>r, HasRowsForm
<1>g. ASSUME NEW t \in Task, NEW w, Goes(t, w)
      PROVE  task'[t] = w /\ \A u \in Task : u # t => task'[u] = task[u]
    BY <1>1, <1>g DEF Goes, HubType
(* The holder has its rows. *)
<1>h. ASSUME NEW t \in Task, NEW from \in Resync \cup {None}, HasRows(t, from), Holder(t),
             lockq' = Tail(lockq)
      PROVE  LockInv'
    <2>1. lockq # <<>> /\ lockq[1] = t
        BY <1>h, <1>2 DEF Holder, QueueOK
    <2>2. /\ task'[lockq[1]] \notin {"waits", "asks"}
          /\ \A u \in Task : u # lockq[1] => task'[u] = task[u]
        BY <1>h, <1>r, <2>1
    <2>3. QueueOK(Tail(lockq), task')
        BY <1>2, <2>1, <2>2, QueueMoves
    <2> QED BY <1>h, <2>3 DEF LockInv
(* Another one has. *)
<1>o. ASSUME NEW t \in Task, task[t] \notin {"waits", "asks"}, UNCHANGED lockq,
             task'[t] \notin {"waits", "asks"}, \A u \in Task : u # t => task'[u] = task[u]
      PROVE  LockInv'
    <2>1. QueueOK(lockq, task')
        BY <1>2, <1>o, QueueStays
    <2> QED BY <1>o, <2>1 DEF LockInv
(* One begins to wait. *)
<1>w. ASSUME NEW t \in Task, task[t] \notin {"waits", "asks"}, lockq' = Append(lockq, t),
             Goes(t, "waits")
      PROVE  LockInv'
    <2>1. QueueOK(Append(lockq, t), task')
        BY <1>2, <1>g, <1>w, QueueGrows
    <2> QED BY <1>w, <2>1 DEF LockInv
<1>4. ASSUME NEW t \in Task, Asks(t) PROVE LockInv'
    <2>1. task[t] = "waits" /\ Holder(t) /\ lockq # <<>> /\ lockq[1] = t
        BY <1>2, <1>4 DEF Asks, Holder, QueueOK
    <2>2. CASE HasRows(t, cache) /\ lockq' = Tail(lockq)
        BY <1>1, <1>h, <2>1, <2>2
    <2>3. CASE Goes(t, "asks") /\ UNCHANGED lockq
        <3>1. task'[lockq[1]] = "asks" /\ \A u \in Task : u # lockq[1] => task'[u] = task[u]
            BY <1>g, <2>1, <2>3
        <3>2. QueueOK(lockq, task')
            BY <1>2, <2>1, <3>1, QueueAsks
        <3> QED BY <2>3, <3>2 DEF LockInv
    <2> QED BY <1>4, <2>2, <2>3 DEF Asks
<1>5. ASSUME NEW t \in Task, Answered(t) \/ Failed(t) PROVE LockInv'
    <2>1. task[t] = "asks" /\ lockq' = Tail(lockq)
          /\ \E from \in Resync \cup {None} : HasRows(t, from)
        BY <1>1, <1>5 DEF Answered, Failed
    <2>2. Holder(t)
        <3>1. lockq[1] = t /\ \E i \in 1 .. Len(lockq) : lockq[i] = t
            BY <1>2, <2>1 DEF QueueOK
        <3> QED BY <1>2, <3>1 DEF Holder, QueueOK
    <2> QED BY <1>h, <2>1, <2>2
<1>6. ASSUME NEW t \in Task, Calls(t) \/ CallAnswered(t) \/ CallFails(t) PROVE LockInv'
    <2>1. task[t] \in {"off", "replays", "calls"} /\ UNCHANGED lockq
        BY <1>6 DEF Calls, CallAnswered, CallFails
    <2>2. PICK where \in {"off", "calls"} : Goes(t, where)
        BY <1>6 DEF Calls, CallAnswered, CallFails
    <2> QED BY <1>g, <1>o, <2>1, <2>2
<1>7. ASSUME NEW n \in Resync, ResyncStarts(n) PROVE LockInv'
    <2>1. task[n] = "starts" /\ n \in Task
        BY <1>3, <1>7 DEF ResyncStarts
    <2>2. CASE Goes(n, "waits") /\ lockq' = Append(lockq, n)
        BY <1>w, <2>1, <2>2
    <2>3. CASE HasRows(n, None) /\ UNCHANGED lockq
        BY <1>o, <1>r, <2>1, <2>3
    <2> QED BY <1>7, <2>2, <2>3 DEF ResyncStarts
<1>8. ASSUME SnapshotExpires PROVE LockInv'
    BY <1>8 DEF SnapshotExpires, LockInv
<1>9. ASSUME PollTicks PROVE LockInv'
    <2>1. task[Poll] = "off" /\ Looks(Poll) /\ Poll \in Task
        BY <1>9 DEF PollTicks, Task
    <2>2. CASE (\E from \in {None, cache} : HasRows(Poll, from)) /\ UNCHANGED lockq
        BY <1>1, <1>o, <1>r, <2>1, <2>2
    <2>3. CASE Goes(Poll, "waits") /\ lockq' = Append(lockq, Poll)
        BY <1>w, <2>1, <2>3
    <2> QED BY <2>1, <2>2, <2>3 DEF Looks
<1> QED BY <1>4, <1>5, <1>6, <1>7, <1>8, <1>9 DEF Serves

LEMMA LockStep == Shape /\ FreshInv /\ LockInv /\ [Next]_vars => LockInv'
<1> SUFFICES ASSUME Shape, FreshInv, LockInv, [Next]_vars PROVE LockInv'
    OBVIOUS
<1>1. HubType /\ QueueOK(lockq, task)
    BY DEF Shape, LockInv
<1>2. CASE Serves
    BY <1>2, ServesKeepsLock
<1>3. CASE Happens \/ UNCHANGED vars
    BY <1>3, HappensKeeps DEF LockInv, hubVars, vars
<1>7. CASE GoesOn
    <2>1. UNCHANGED lockq
        BY <1>7, GoesOnKeeps
    <2>2. QueueOK(lockq, task')
        BY <1>1, <1>7, GoesOnTasks, QueueStays
    <2> QED BY <2>1, <2>2 DEF LockInv
<1>4. CASE Browses
    <2>1. ASSUME NEW c \in Client, Visits(c) PROVE LockInv'
        <3>1. c \in Task /\ task[c] = "off"
            BY <2>1 DEF Visits, Task
        <3>2. CASE Goes(c, "waits") /\ lockq' = Append(lockq, c)
            <4>1. task'[c] = "waits" /\ \A u \in Task : u # c => task'[u] = task[u]
                BY <1>1, <3>1, <3>2 DEF Goes, HubType
            <4>2. QueueOK(Append(lockq, c), task')
                BY <1>1, <3>1, <4>1, QueueGrows
            <4> QED BY <3>2, <4>2 DEF LockInv
        <3>3. CASE UNCHANGED <<task, lockq>>
            BY <3>3 DEF LockInv
        <3> QED BY <2>1, <3>2, <3>3 DEF Visits
    <2>2. ASSUME ShutdownAll \/ \E c \in Client : Leaves(c) PROVE LockInv'
        BY <2>2 DEF ShutdownAll, Leaves, LockInv, hubVars
    <2> QED BY <1>4, <2>1, <2>2 DEF Browses
<1>5. CASE Connects \/ ConnectFails \/ LosesConnection
    <2>1. UNCHANGED lockq
        BY <1>5 DEF Connects, ConnectFails, LosesConnection
    <2>2. \A t \in Task : task'[t] = task[t] \/ (task[t] = "off" /\ task'[t] = "starts")
        <3>1. CASE Connects
            <4>0. nconn \in Nat
                BY DEF Shape, SupOK
            <4>1. nconn' = nconn + 1 /\ nconn' \in Resync
                BY <3>1, ConnectsForm
            <4>2. ~ (nconn' <= nconn)
                BY <4>0, <4>1
            <4>3. task[nconn'] = "off"
                BY <4>1, <4>2 DEF FreshInv, WaitInv
            <4> QED BY <3>1, <4>1, <4>3, ConnectsForm, EmitForm
        <3>2. CASE ConnectFails \/ LosesConnection
            BY <3>2, LosesForm, EmitForm
        <3> QED BY <1>5, <3>1, <3>2
    <2>3. QueueOK(lockq, task')
        BY <1>1, <2>2, QueueStays
    <2> QED BY <2>1, <2>3 DEF LockInv
<1>6. CASE Stop
    <2>1. PICK q \in SeqOf(ToSet(lockq) \ Cancelled, Len(lockq)) :
              ToSet(q) = ToSet(lockq) \ Cancelled /\ InOrder(q, lockq) /\ lockq' = q
        BY <1>6 DEF Stop, LeaveLock
    <2>2. /\ \A t \in Task : t \in Cancelled => task'[t] \notin {"waits", "asks"}
          /\ \A t \in Task : t \notin Cancelled => task'[t] = task[t]
        BY <1>6 DEF Stop
    <2>3. QueueOK(q, task')
        BY <1>1, <2>1, <2>2, QueueLoses
    <2> QED BY <2>1, <2>3 DEF LockInv
<1> QED BY <1>2, <1>3, <1>4, <1>5, <1>6, <1>7, NextCases

-----------------------------------------------------------------------------
(* The invariant and what it gives.                                        *)

LinkInv == Shape /\ DeadInv /\ FreshInv /\ ToldInv /\ LockInv

(* The inductive invariant: the types with the supervisor's connection,    *)
(* the dead connection, the snapshot a resync may find, what was told, and *)
(* the queue of the lock.                                                  *)
THEOREM LinkInvariant == Spec => []LinkInv
<1>1. Init => LinkInv
    BY ShapeInit, DeadInit, FreshInit, ToldInit, LockInit DEF LinkInv
<1>2. LinkInv /\ [Next]_vars => LinkInv'
    BY ShapeStep, DeadStep, FreshStep, ToldInvStep, LockStep DEF LinkInv
<1> QED BY <1>1, <1>2, PTL DEF Spec

(* The connection, the requests and the snapshot keep their types, and the *)
(* hub is connected when it has a connection.                              *)
THEOREM TypeCorrect == Spec => []TypeOK
<1>1. LinkInv => TypeOK
    BY ShapeTypes DEF LinkInv
<1> QED BY <1>1, LinkInvariant, PTL

(* No request is left to its timeout by a socket that has closed           *)
(* (GatewayConnection._listen, request, close).                            *)
THEOREM DeadCorrect == Spec => []NobodyWaitsOnTheDead
<1>1. LinkInv => NobodyWaitsOnTheDead
    BY DEF LinkInv, DeadInv, NobodyWaitsOnTheDead
<1> QED BY <1>1, LinkInvariant, PTL

(* The lock of the sessions snapshot is held by the task that asks, and    *)
(* queued for by those that wait (_cached_sessions).                       *)
THEOREM LockCorrect == Spec => []OneAsks
<1>1. LinkInv => OneAsks
    BY LockTells DEF LinkInv
<1> QED BY <1>1, LinkInvariant, PTL

(* All of it together. *)
THEOREM LinkCorrect == Spec => []Inv
<1>1. TypeOK /\ OneAsks /\ NobodyWaitsOnTheDead => Inv
    BY DEF Inv
<1> QED BY <1>1, TypeCorrect, LockCorrect, DeadCorrect, PTL

(* A resync shows no snapshot of an earlier connection                     *)
(* (_resync_after_reconnect, _cached_sessions).                            *)
THEOREM ResyncCorrect == Spec => []ResyncIsFresh
<1>1. LinkInv => ResyncIsFresh
    BY DEF LinkInv, FreshInv
<1> QED BY <1>1, LinkInvariant, PTL

(* What a browser was told of the gateway holds, while the hub runs        *)
(* (_emit_status, handle_connect).                                         *)
THEOREM ToldCorrect == Spec => []ToldIsTrue
<1>1. LinkInv => ToldIsTrue
    BY DEF LinkInv, ToldInv
<1> QED BY <1>1, LinkInvariant, PTL
=============================================================================
