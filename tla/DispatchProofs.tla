--------------------------- MODULE DispatchProofs ---------------------------
(***************************************************************************)
(* Proofs about Dispatch, for any number of items, requests, runs and      *)
(* sources, and any bounds.                                                *)
(***************************************************************************)
EXTENDS Dispatch, TLAPS

-----------------------------------------------------------------------------
(* The inductive invariant.                                                *)

(* Where each transaction may stand, and what it holds there. *)
PlaceOK ==
    /\ \A h \in Handler : pc[h] \in {"idle", "patching", "sending", "accepted"}
    /\ pc[Worker] \in {"idle", "listed", "sending", "accepted"}
    /\ pc[Subscriber] \in {"idle", "applying"}
    /\ \A p \in Txn : pc[p] \notin {"idle", "listed"} => at[p] \in Item
    /\ \A p \in Txn : pc[p] \in {"patching", "applying"} => work[p][at[p]] \in Row
    /\ \A p \in Txn : pc[p] = "accepted" => run[p] \in Run
    /\ \A i \in Item : dirty[i] # {} => work[Worker][i] \in Row

(* No item is deleted under a row lock, a dispatch or a job. *)
Sent(p) == pc[p] \in {"sending", "accepted"}

ItemsStay ==
    /\ \A p \in Txn : Sent(p) => Exists(at[p])
    /\ \A i \in Item : dirty[i] # {} => Exists(i)
    /\ \A j \in jobs \cup fresh : Exists(j.item)

(* A run belongs to one dispatch in flight or to one job, written or not. *)
Awaited(p, r) == pc[p] = "accepted" /\ run[p] = r

RunsOwned ==
    /\ \A p \in Txn : pc[p] = "accepted" => outcome[run[p]] # "free"
    /\ \A p, q \in Txn : pc[p] = "accepted" /\ Awaited(q, run[p]) => p = q
    /\ \A p \in Txn : \A j \in jobs \cup fresh : Awaited(p, j.run) => j.run = None
    /\ \A j \in jobs \cup fresh : j.run # None => outcome[j.run] # "free"
    /\ \A j, k \in fresh : j.run = k.run /\ j.run # None => j = k
    /\ \A j \in jobs, k \in fresh : j.run = k.run => j.run = None

(* An event says what its run did. *)
Bears(ended, e) ==
    /\ ended[e.run] # "free"
    /\ e.status # "running" => ended[e.run] = e.status
EventTrue(e) == Bears(outcome, e)

EventsTrue ==
    /\ \A n \in 1 .. Len(stream) : EventTrue(stream[n])
    /\ pc[Subscriber] = "applying" =>
         /\ evt \in Event
         /\ EventTrue(evt)
         /\ \E j \in JobOf(evt.run) : j.item = at[Subscriber]

(* A job the worker has not committed has just been answered. *)
FreshTrue ==
    \A j \in fresh : IF j.run = None THEN j.status \in {"pending", "failed"}
                     ELSE j.status = "dispatched"

(* What the worker has flushed and not committed. *)
FlushedTrue ==
    \A i \in Item :
        /\ "session" \in dirty[i] =>
             \/ work[Worker][i].session = None
             \/ \E j \in fresh : j.item = i /\ j.run = work[Worker][i].session
        /\ "status" \in dirty[i] => work[Worker][i].status \in {"running", "pending"}

(* A row is locked only during a worker pass. *)
LocksEnd == pc[Worker] = "idle" => dirty = Clean

Shape == TypeOK /\ PlaceOK
DispatchInv ==
    /\ LocksEnd /\ Shape /\ ItemsStay /\ RunsOwned /\ EventsTrue /\ FreshTrue /\ FlushedTrue
    /\ SessionHasJob /\ OneJobPerRun /\ JobTellsOutcome

-----------------------------------------------------------------------------
(* The steps, by what they do.                                             *)

(* A request or the worker writes what the gateway answered. *)
Answers(p) == Online(p) \/ Offline(p)

(* The worker lists the queue. *)
Lists == StartPass \/ StartRetry \/ StartArchive

(* The gateway, the stream, and an event nobody waits for. *)
Streams ==
    \/ IgnoreEvent \/ Disconnect \/ Reconnect
    \/ \E r \in Run, s \in Source, st \in EventStatus : Report(r, s, st)

(* A transaction ends and leaves nothing behind. *)
Gone(p) ==
    /\ pc[p] # "idle"
    /\ Reset(p)
    /\ IF p = Worker THEN EndPass ELSE UNCHANGED pass
    /\ UNCHANGED <<table, gateway, edits>>

GivenUp(p) ==
    /\ Gone(p)
    /\ evt' \in {evt, None}
    /\ evt' # evt => p = Subscriber
    /\ failures' \in {failures, failures + 1}
    /\ failures' # failures => failures < MaxFailures

LEMMA Apart ==
    /\ Worker \in Txn /\ Subscriber \in Txn /\ Handler \subseteq Txn
    /\ Worker # Subscriber /\ Worker \notin Handler /\ Subscriber \notin Handler
    /\ \A p \in Txn : p \in Handler \/ p = Worker \/ p = Subscriber
    /\ None \notin Run /\ None \notin Item
    /\ MaxEdits \in Nat /\ MaxFailures \in Nat /\ MaxStream \in Nat
    /\ MoveTo \subseteq Column /\ GivenAgent \subseteq AgentKind
    /\ Unborn # Deleted /\ Unborn \notin Row /\ Deleted \notin Row
BY DispatchAssumption, NoRowAssumption DEF Txn

LEMMA GivenUpCases ==
    /\ \A h \in Handler : PatchFails(h) => GivenUp(h)
    /\ PassFails => GivenUp(Worker)
    /\ \A p \in Txn : Rollback(p) => GivenUp(p)
<1>1. ASSUME NEW h \in Handler, PatchFails(h) PROVE GivenUp(h)
    BY <1>1, Apart DEF PatchFails, GivenUp, Gone, counts
<1>2. ASSUME PassFails PROVE GivenUp(Worker)
    BY <1>2, Apart DEF PassFails, GivenUp, Gone, counts
<1>3. ASSUME NEW p \in Txn, Rollback(p) PROVE GivenUp(p)
    BY <1>3, Apart DEF Rollback, GivenUp, Gone
<1> QED BY <1>1, <1>2, <1>3

LEMMA NextCases ==
    ASSUME [Next]_vars
    PROVE  \/ \E i \in Item, c \in MoveTo, a \in GivenAgent : Create(i, c, a)
           \/ \E i \in Item : Delete(i) \/ DispatchUnknown(i) \/ PassSends(i) \/ Archive(i)
           \/ \E h \in Handler, i \in Item : LoadPatch(h, i) \/ BeginDispatch(h, i)
           \/ \E h \in Handler : ApplyPatch(h)
           \/ \E p \in Handler \cup {Worker} : Accept(p) \/ Answers(p) \/ Reject(p)
           \/ Lists \/ CommitPass \/ TakeEvent \/ ApplyEvent \/ Streams
           \/ \E p \in Txn : GivenUp(p)
           \/ UNCHANGED vars
BY GivenUpCases, Apart
   DEF Next, Answers, Lists, Streams, DispatchQueueItem, DispatchQueueItemAuto, DispatchTo

-----------------------------------------------------------------------------
(* The rows.                                                               *)

LEMMA OverlayRow ==
    ASSUME NEW old \in Row, NEW new \in Row, NEW fs
    PROVE  /\ Overlay(old, new, fs) \in Row
           /\ Overlay(old, new, fs).session = IF "session" \in fs THEN new.session ELSE old.session
           /\ Overlay(old, new, fs).status = IF "status" \in fs THEN new.status ELSE old.status
BY DEF Overlay, Row

LEMMA RowFields ==
    ASSUME NEW row \in Row
    PROVE  /\ row.column \in Column /\ row.session \in Run \cup {None}
           /\ row.status \in ItemStatus /\ row.agent \in AgentKind
BY DEF Row

LEMMA Born ==
    ASSUME TypeOK, NEW i \in Item
    PROVE  /\ Exists(i) <=> items[i] \in Row
           /\ items[i] \in Row \cup {Unborn, Deleted}
BY Apart DEF TypeOK, Exists, MaybeRow

(* What a PATCH makes of a row: it is done only if it was, or the request  *)
(* says so.                                                                *)
LEMMA PatchedRow ==
    ASSUME NEW old \in Row,
           NEW c \in MoveTo \cup {old.column}, NEW a \in GivenAgent \cup {old.agent},
           NEW s \in GivenSession \cup {old.session}, NEW st \in GivenStatus \cup {None},
           NEW relevant \in BOOLEAN
    PROVE  /\ Patch(old, c, a, s, st, relevant) \in Row
           /\ LET new == Patch(old, c, a, s, st, relevant) IN
                new.status \in {old.status, "needs_update", "none"} \/ "status" \in Named(st)
<1>1. c \in Column /\ a \in AgentKind /\ s \in Run \cup {None} /\ old.status \in ItemStatus
    BY Apart, RowFields, DispatchAssumption
<1>2. st # None => st \in ItemStatus
    BY DispatchAssumption
<1>3. (IF relevant /\ old.column = "active" /\ c = "active" /\ st \in {None, "none"}
       THEN "needs_update" ELSE IF st = None THEN old.status ELSE st) \in ItemStatus
    BY <1>1, <1>2 DEF ItemStatus
<1>4. Patch(old, c, a, s, st, relevant) \in Row
    BY <1>1, <1>3 DEF Patch, Row
<1> QED BY <1>4 DEF Patch, Named

(* What an event makes of a row. *)
LEMMA EventRow ==
    ASSUME NEW old \in Row, NEW s \in EventStatus
    PROVE  /\ ItemAfter(old, s) \in Row
           /\ ItemAfter(old, s).session = old.session
           /\ ItemAfter(old, s).status = "done" <=> s = "completed"
<1>1. CASE s = "running"
    BY <1>1 DEF ItemAfter, Row, ItemStatus, Column
<1>2. CASE s = "completed"
    BY <1>2 DEF ItemAfter, Row, ItemStatus, Column
<1>3. CASE s = "failed"
    BY <1>3 DEF ItemAfter, Row, ItemStatus, Column
<1> QED BY <1>1, <1>2, <1>3 DEF EventStatus

(* The rows as the worker will leave them. *)
LEMMA ListedRows ==
    ASSUME TypeOK, PlaceOK, ItemsStay
    PROVE  /\ Listed \in [Item -> MaybeRow]
           /\ \A i \in Item : dirty[i] = {} => Listed[i] = items[i]
           /\ \A i \in Item : dirty[i] # {} =>
                /\ items[i] \in Row /\ work[Worker][i] \in Row /\ Listed[i] \in Row
                /\ Listed[i] = Overlay(items[i], work[Worker][i], dirty[i])
<1>1. ASSUME NEW i \in Item, dirty[i] # {}
      PROVE  /\ items[i] \in Row /\ work[Worker][i] \in Row
             /\ Overlay(items[i], work[Worker][i], dirty[i]) \in Row
    <2>1. items[i] \in Row
        BY <1>1, Born DEF ItemsStay
    <2>2. work[Worker][i] \in Row
        BY <1>1 DEF PlaceOK
    <2> QED BY <2>1, <2>2, OverlayRow
<1>2. \A i \in Item : items[i] \in MaybeRow
    BY DEF TypeOK
<1> QED BY <1>1, <1>2 DEF Listed, MaybeRow

(* What an answer writes: the row of the item and its job. *)
Answered(p, new, job) ==
    /\ Sent(p)
    /\ new \in Row /\ job \in JobRow
    /\ job.item = at[p] /\ job.run = new.session
    /\ \/ pc[p] = "accepted" /\ new.status = "running" /\ job.status = "dispatched"
          /\ job.run = run[p]
       \/ new.status = "pending" /\ job.status = "pending" /\ job.run = None
    /\ Answer(p, new, job)

LEMMA AnswersWrite ==
    ASSUME PlaceOK, NEW p \in Handler \cup {Worker}, Answers(p)
    PROVE  \E new, job : Answered(p, new, job)
<1>1. CASE Online(p)
    <2> DEFINE new == [column |-> "active", session |-> run[p], status |-> "running",
                       agent |-> "known"]
               job == Job(at[p], "dispatched", run[p])
    <2>1. at[p] \in Item /\ run[p] \in Run /\ Sent(p)
        BY <1>1, Apart DEF Online, PlaceOK, Sent
    <2>2. new \in Row /\ job \in JobRow
        BY <2>1 DEF Row, JobRow, Column, ItemStatus, AgentKind, Job, JobStatus
    <2>3. Answered(p, new, job)
        BY <1>1, <2>1, <2>2 DEF Answered, Online, Job
    <2> QED BY <2>3
<1>2. CASE Offline(p)
    <2> DEFINE new == [column |-> "active", session |-> None, status |-> "pending",
                       agent |-> "known"]
               job == Job(at[p], "pending", None)
    <2>1. at[p] \in Item /\ Sent(p)
        BY <1>2, Apart DEF Offline, GivesUp, PlaceOK, Sent
    <2>2. new \in Row /\ job \in JobRow
        BY <2>1 DEF Row, JobRow, Column, ItemStatus, AgentKind, Job, JobStatus
    <2>3. Answered(p, new, job)
        BY <1>2, <2>1, <2>2 DEF Answered, Offline, Job
    <2> QED BY <2>3
<1> QED BY <1>1, <1>2 DEF Answers

-----------------------------------------------------------------------------
(* Types.                                                                  *)

LEMMA TypeInit == Init => TypeOK
<1> SUFFICES ASSUME Init PROVE TypeOK
    OBVIOUS
<1>1. items \in [Item -> MaybeRow] /\ work \in [Txn -> [Item -> MaybeRow]]
    BY DEF Init, NoRows, MaybeRow
<1>2. stream \in Seq(Event)
    BY DEF Init
<1> QED BY <1>1, <1>2, Apart DEF Init, TypeOK, Clean

(* The variables of a group of the module keep their types. *)
TypeTable ==
    /\ items \in [Item -> MaybeRow] /\ jobs \subseteq JobRow
    /\ given \in [Item -> SUBSET {"session", "status"}]
TypeSession ==
    /\ pc \in [Txn -> {"idle", "patching", "sending", "accepted", "listed", "applying"}]
    /\ at \in [Txn -> Item \cup {None}]
    /\ run \in [Txn -> Run \cup {None}]
    /\ work \in [Txn -> [Item -> MaybeRow]]
TypePass ==
    /\ dirty \in [Item -> SUBSET Field] /\ fresh \subseteq JobRow
    /\ stage \in {"route", "retry", "archive"} /\ todo \subseteq Item
TypeGateway ==
    /\ outcome \in [Run -> {"free", "live", "completed", "failed"}]
    /\ said \in [Run -> [Source -> 0..2]]
    /\ stream \in Seq(Event)
    /\ up \in BOOLEAN
TypeRest ==
    /\ evt \in Event \cup {None}
    /\ edits \in 0..MaxEdits /\ failures \in 0..MaxFailures

LEMMA TypeParts ==
    /\ TypeOK => TypeTable /\ TypeSession /\ TypePass /\ TypeGateway /\ TypeRest
    /\ TypeTable' /\ TypeSession' /\ TypePass' /\ TypeGateway' /\ TypeRest' => TypeOK'
BY DEF TypeOK, TypeTable, TypeSession, TypePass, TypeGateway, TypeRest

LEMMA ResetTyped ==
    ASSUME TypeSession, NEW p \in Txn, Reset(p)
    PROVE  TypeSession'
<1>1. NoRows \in [Item -> MaybeRow]
    BY DEF NoRows, MaybeRow
<1> QED BY <1>1 DEF TypeSession, Reset

LEMMA EndPassTyped == EndPass => TypePass'
BY DEF EndPass, TypePass, Clean

LEMMA TypeKept ==
    /\ TypeTable /\ UNCHANGED table => TypeTable'
    /\ TypeSession /\ UNCHANGED session => TypeSession'
    /\ TypePass /\ UNCHANGED pass => TypePass'
    /\ TypeGateway /\ UNCHANGED gateway => TypeGateway'
    /\ TypeRest /\ UNCHANGED <<evt, counts>> => TypeRest'
BY DEF TypeTable, TypeSession, TypePass, TypeGateway, TypeRest, table, session, pass, gateway,
       counts

(* One more event, or one less. *)
LEMMA StreamTyped ==
    ASSUME stream \in Seq(Event)
    PROVE  /\ stream # <<>> => Head(stream) \in Event /\ Tail(stream) \in Seq(Event)
           /\ \A e \in Event : Append(stream, e) \in Seq(Event)
OBVIOUS

(* An UPDATE writes a row: of the session and the status only what the     *)
(* writer has changed, and a column it leaves alone stays given by a user. *)
Keeps(i, f) == f \in given[i] => f \in given'[i]

Rewritten(i, row) ==
    /\ i \in Item /\ items[i] \in Row /\ row \in Row
    /\ items' = [items EXCEPT ![i] = row]
    /\ given' \in [Item -> SUBSET {"session", "status"}]
    /\ \A k \in Item : k # i => given'[k] = given[k]

Updated(i, row, old, new, named) ==
    /\ Rewritten(i, row)
    /\ \/ row.session = items[i].session /\ Keeps(i, "session")
       \/ /\ row.session = new.session /\ old.session # new.session
          /\ "session" \in named => "session" \in given'[i]
    /\ \/ row.status = items[i].status /\ Keeps(i, "status")
       \/ /\ row.status = new.status /\ old.status # new.status
          /\ "status" \in named => "status" \in given'[i]

LEMMA WrittenRow ==
    ASSUME TypeOK, NEW p \in Txn, NEW i \in Item, NEW new \in Row, Exists(i),
           NEW named \in SUBSET {"session", "status"}, WriteThrough(p, i, new, named)
    PROVE  \E row : Updated(i, row, work[p][i], new, named)
<1> DEFINE old == work[p][i]
           written == Differs(old, new)
           row == Overlay(items[i], new, written)
<1>1. items[i] \in Row
    BY Born
<1>2. items' = [items EXCEPT ![i] = row]
      /\ given' = [given EXCEPT ![i] = (@ \ written) \cup (written \cap named)]
    BY DEF WriteThrough
<1>3. "session" \in written => old.session # new.session
    BY DEF Differs
<1>4. "status" \in written => old.status # new.status
    BY DEF Differs
<1>5. given \in [Item -> SUBSET {"session", "status"}]
    BY DEF TypeOK
<1> HIDE DEF written, old
<1>6. /\ given' \in [Item -> SUBSET {"session", "status"}]
      /\ \A k \in Item : k # i => given'[k] = given[k]
      /\ given'[i] = (given[i] \ written) \cup (written \cap named)
    BY <1>2, <1>5
<1>7. Rewritten(i, row)
    BY <1>1, <1>2, <1>6, OverlayRow DEF Rewritten
<1>8. Updated(i, row, old, new, named)
    BY <1>1, <1>3, <1>4, <1>6, <1>7, OverlayRow DEF Updated, Keeps
<1> QED BY <1>8 DEF old

LEMMA ApplyPatchWrites ==
    ASSUME TypeOK, PlaceOK, NEW h \in Handler, ApplyPatch(h)
    PROVE  \E row : /\ Rewritten(at[h], row)
                    /\ \/ row.session = items[at[h]].session /\ Keeps(at[h], "session")
                       \/ "session" \in given'[at[h]]
                    /\ \/ row.status = items[at[h]].status /\ Keeps(at[h], "status")
                       \/ row.status # "done" \/ "status" \in given'[at[h]]
<1> DEFINE i == at[h]
           old == work[h][i]
<1>1. h \in Txn /\ i \in Item /\ old \in Row /\ Exists(i)
    BY Apart DEF ApplyPatch, PlaceOK
<1>2. PICK c \in MoveTo \cup {old.column}, a \in GivenAgent \cup {old.agent},
           s \in GivenSession \cup {old.session}, st \in GivenStatus \cup {None},
           relevant \in BOOLEAN :
           WriteThrough(h, i, Patch(old, c, a, s, st, relevant), Named(st))
    BY DEF ApplyPatch
<1> DEFINE new == Patch(old, c, a, s, st, relevant)
<1>3. new \in Row /\ (new.status \in {old.status, "needs_update", "none"} \/ "status" \in Named(st))
    BY <1>1, PatchedRow
<1>4. "session" \in Named(st) /\ Named(st) \in SUBSET {"session", "status"}
    BY DEF Named
<1>5. WriteThrough(h, i, new, Named(st))
    BY <1>2
<1> HIDE DEF new
<1>6. PICK row : Updated(i, row, old, new, Named(st))
    BY <1>1, <1>3, <1>4, <1>5, WrittenRow
<1>7. /\ Rewritten(i, row)
      /\ \/ row.session = items[i].session /\ Keeps(i, "session")
         \/ "session" \in given'[i]
      /\ \/ row.status = items[i].status /\ Keeps(i, "status")
         \/ row.status # "done" \/ "status" \in given'[i]
    BY <1>3, <1>4, <1>6 DEF Updated
<1> QED BY <1>7

LEMMA AnswerWrites ==
    ASSUME TypeOK, PlaceOK, ItemsStay, NEW p \in Handler, NEW new, NEW job,
           Answered(p, new, job)
    PROVE  /\ \E row : Updated(at[p], row, work[p][at[p]], new, {})
           /\ jobs' = jobs \cup {job} /\ Reset(p)
           /\ UNCHANGED <<pass, evt, gateway, counts>>
<1>1. p \in Txn /\ p # Worker /\ at[p] \in Item /\ Exists(at[p]) /\ new \in Row
    BY Apart DEF Answered, Sent, PlaceOK, ItemsStay
<1>2. AnswerRequest(p, new, job) /\ UNCHANGED <<evt, gateway, counts>>
    BY <1>1 DEF Answered, Answer
<1> QED BY <1>1, <1>2, WrittenRow DEF AnswerRequest

LEMMA AnswerFlushes ==
    ASSUME NEW new, NEW job, Answered(Worker, new, job)
    PROVE  AnswerPass(new, job) /\ UNCHANGED <<evt, gateway, counts>>
BY Apart DEF Answered, Answer

LEMMA ApplyEventWrites ==
    ASSUME TypeOK, PlaceOK, ItemsStay, EventsTrue, ApplyEvent
    PROVE  \/ UNCHANGED <<items, given>>
           \/ \E row : /\ Rewritten(at[Subscriber], row)
                       /\ row.session = items[at[Subscriber]].session
                       /\ Keeps(at[Subscriber], "session")
                       /\ \/ /\ row.status = items[at[Subscriber]].status
                             /\ Keeps(at[Subscriber], "status")
                          \/ row.status = "done" <=> evt.status = "completed"
<1> DEFINE i == at[Subscriber]
           old == work[Subscriber][i]
           new == ItemAfter(old, evt.status)
<1>1. /\ i \in Item /\ old \in Row /\ evt \in Event
      /\ evt.run \in Run /\ evt.status \in EventStatus
    BY Apart DEF ApplyEvent, PlaceOK, EventsTrue, Event
<1>2. Exists(i)
    BY <1>1 DEF ApplyEvent, EventsTrue, ItemsStay, JobOf
<1>3. new \in Row /\ new.session = old.session
      /\ (new.status = "done" <=> evt.status = "completed")
    BY <1>1, EventRow
<1>4. UNCHANGED <<items, given>> \/ WriteThrough(Subscriber, i, new, {})
    BY DEF ApplyEvent
<1> HIDE DEF new
<1>5. CASE WriteThrough(Subscriber, i, new, {})
    <2>1. PICK row : Updated(i, row, old, new, {})
        BY <1>1, <1>2, <1>3, <1>5, WrittenRow, Apart
    <2>2. /\ Rewritten(i, row) /\ row.session = items[i].session /\ Keeps(i, "session")
          /\ \/ row.status = items[i].status /\ Keeps(i, "status")
             \/ row.status = "done" <=> evt.status = "completed"
        BY <1>3, <2>1 DEF Updated
    <2> QED BY <2>2
<1> QED BY <1>4, <1>5

LEMMA CreateTyped ==
    ASSUME TypeOK, NEW i \in Item, NEW c \in MoveTo, NEW a \in GivenAgent, Create(i, c, a)
    PROVE  TypeOK'
<1>1. [column |-> c, session |-> None, status |-> "none", agent |-> a] \in Row
    BY Apart DEF Row, ItemStatus
<1>2. TypeTable'
    BY <1>1, TypeParts DEF Create, TypeTable, MaybeRow
<1> QED BY <1>2, TypeParts, TypeKept DEF Create

LEMMA DeleteTyped ==
    ASSUME TypeOK, NEW i \in Item, Delete(i)
    PROVE  TypeOK'
<1>1. TypeTable'
    BY TypeParts DEF Delete, Remove, TypeTable, MaybeRow
<1> QED BY <1>1, TypeParts, TypeKept DEF Delete

LEMMA DispatchUnknownTyped ==
    ASSUME TypeOK, NEW i \in Item, DispatchUnknown(i)
    PROVE  TypeOK'
<1>1. TypeTable'
    BY TypeParts DEF DispatchUnknown, TypeTable, Job, JobRow, JobStatus
<1>2. TypeRest'
    BY TypeParts, Apart DEF DispatchUnknown, TypeRest
<1> QED BY <1>1, <1>2, TypeParts, TypeKept DEF DispatchUnknown

LEMMA PassSendsTyped ==
    ASSUME TypeOK, NEW i \in Item, PassSends(i)
    PROVE  TypeOK'
<1>1. TypeSession'
    BY TypeParts DEF PassSends, TypeSession, Begin
<1>2. TypePass'
    BY TypeParts DEF PassSends, TypePass, Job, JobRow, JobStatus
<1> QED BY <1>1, <1>2, TypeParts, TypeKept DEF PassSends, counts

LEMMA ArchiveTyped ==
    ASSUME TypeOK, NEW i \in Item, Archive(i)
    PROVE  TypeOK'
<1> DEFINE new == [work[Worker][i] EXCEPT !.column = "parked"]
<1>1. work[Worker][i] \in Row
    BY DEF Archive, ArchiveCandidates
<1>2. new \in Row
    BY <1>1 DEF Row, Column
<1>3. Flush(i, new)
    BY DEF Archive
<1> HIDE DEF new
<1>4. UNCHANGED <<table, pc, at, run, fresh, stage, todo, evt, gateway, counts>>
    BY DEF Archive
<1>5. work' \in [Txn -> [Item -> MaybeRow]]
    <2>1. work' = [work EXCEPT ![Worker] = [@ EXCEPT ![i] = new]]
        BY <1>3 DEF Flush
    <2>2. new \in MaybeRow
        BY <1>2 DEF MaybeRow
    <2>3. work \in [Txn -> [Item -> MaybeRow]]
        BY TypeParts DEF TypeSession
    <2> QED BY <2>1, <2>2, <2>3
<1>6. TypeSession'
    BY <1>4, <1>5, TypeParts DEF TypeSession
<1>7. TypePass'
    BY <1>3, <1>4, TypeParts DEF Flush, TypePass, Differs, Field
<1> QED BY <1>4, <1>6, <1>7, TypeParts, TypeKept

LEMMA BeginTyped ==
    ASSUME TypeOK, NEW h \in Handler, NEW i \in Item, LoadPatch(h, i) \/ BeginDispatch(h, i)
    PROVE  TypeOK'
<1>1. /\ Load(h, i) /\ UNCHANGED run /\ h \in Txn
      /\ \E where \in {"patching", "sending"} : Begin(h, i, where)
    BY Apart DEF LoadPatch, BeginDispatch
<1>2. work' \in [Txn -> [Item -> MaybeRow]]
    <2> DEFINE mine == [work[h] EXCEPT ![i] = items[i]]
    <2>1. mine \in [Item -> MaybeRow]
        BY <1>1 DEF TypeOK
    <2>2. work' = [work EXCEPT ![h] = mine]
        BY <1>1 DEF Load
    <2> HIDE DEF mine
    <2> QED BY <2>1, <2>2 DEF TypeOK
<1>3. TypeSession'
    BY <1>1, <1>2, TypeParts DEF Begin, TypeSession
<1>4. TypeRest'
    BY TypeParts, Apart DEF LoadPatch, BeginDispatch, TypeRest, counts
<1> QED BY <1>3, <1>4, TypeParts, TypeKept DEF LoadPatch, BeginDispatch

LEMMA ApplyPatchTyped ==
    ASSUME TypeOK, PlaceOK, NEW h \in Handler, ApplyPatch(h)
    PROVE  TypeOK'
<1>1. TypeTable'
    <2>1. UNCHANGED jobs
        BY DEF ApplyPatch
    <2> QED BY <2>1, ApplyPatchWrites, TypeParts DEF Rewritten, TypeTable, MaybeRow
<1>2. TypeSession'
    BY TypeParts, ResetTyped, Apart DEF ApplyPatch
<1> QED BY <1>1, <1>2, TypeParts, TypeKept DEF ApplyPatch

LEMMA AcceptTyped ==
    ASSUME TypeOK, NEW p \in Txn, Accept(p)
    PROVE  TypeOK'
<1>1. TypeSession'
    BY TypeParts DEF Accept, TypeSession
<1>2. TypeGateway'
    BY TypeParts DEF Accept, TypeGateway
<1> QED BY <1>1, <1>2, TypeParts, TypeKept DEF Accept

LEMMA AnswersTyped ==
    ASSUME TypeOK, PlaceOK, ItemsStay, NEW p \in Handler \cup {Worker}, Answers(p)
    PROVE  TypeOK'
<1>1. PICK new, job : Answered(p, new, job)
    BY AnswersWrite
<1>2. new \in Row /\ job \in JobRow /\ p \in Txn /\ at[p] \in Item
    BY <1>1, Apart DEF Answered, Sent, PlaceOK
<1>3. CASE p \in Handler
    <2>1. TypeTable'
        BY <1>1, <1>2, <1>3, AnswerWrites, TypeParts DEF Updated, Rewritten, TypeTable, MaybeRow
    <2>2. TypeSession' /\ UNCHANGED <<pass, evt, gateway, counts>>
        BY <1>1, <1>2, <1>3, AnswerWrites, TypeParts, ResetTyped
    <2> QED BY <2>1, <2>2, TypeParts, TypeKept
<1>4. CASE p = Worker
    <2>1. AnswerPass(new, job) /\ UNCHANGED <<evt, gateway, counts>>
        BY <1>1, <1>4, AnswerFlushes
    <2>2. TypeSession'
        BY <1>2, <1>4, <2>1, TypeParts DEF AnswerPass, Flush, Begin, TypeSession, MaybeRow
    <2>3. TypePass'
        BY <1>2, <1>4, <2>1, TypeParts DEF AnswerPass, Flush, TypePass, Differs, Field
    <2> QED BY <2>1, <2>2, <2>3, TypeParts, TypeKept DEF AnswerPass
<1> QED BY <1>3, <1>4

LEMMA RejectTyped ==
    ASSUME TypeOK, PlaceOK, NEW p \in Handler \cup {Worker}, Reject(p)
    PROVE  TypeOK'
<1>1. Job(at[p], "failed", None) \in JobRow /\ p \in Txn
    BY Apart DEF Reject, PlaceOK, Job, JobRow, JobStatus
<1>2. TypeRest'
    BY TypeParts, Apart DEF Reject, TypeRest
<1>3. TypeTable'
    BY <1>1, TypeParts DEF Reject, TypeTable
<1>4. TypeSession'
    <2>1. CASE Reset(p)
        BY <1>1, <2>1, TypeParts, ResetTyped
    <2>2. CASE Begin(Worker, None, "listed") /\ UNCHANGED <<run, work>>
        BY <2>2, TypeParts DEF Begin, TypeSession
    <2> QED BY <2>1, <2>2 DEF Reject
<1>5. TypePass'
    BY <1>1, TypeParts DEF Reject, TypePass, pass
<1> QED BY <1>2, <1>3, <1>4, <1>5, TypeParts, TypeKept DEF Reject

LEMMA ListsTyped ==
    ASSUME TypeOK, PlaceOK, ItemsStay, Lists
    PROVE  TypeOK'
<1>1. PICK s \in {"route", "retry", "archive"}, c \in SUBSET Item : Enter(s, c)
    BY DEF Lists, StartPass, StartRetry, StartArchive, RouteCandidates, RetryCandidates
<1>2. UNCHANGED <<table, at, run, dirty, fresh, evt, gateway, counts>>
    BY DEF Lists, StartPass, StartRetry, StartArchive
<1>3. pc' \in {pc, [pc EXCEPT ![Worker] = "listed"]}
    BY DEF Lists, StartPass, StartRetry, StartArchive
<1>4. TypeSession'
    BY <1>1, <1>2, <1>3, ListedRows, TypeParts, Apart DEF Enter, TypeSession
<1>5. TypePass'
    BY <1>1, <1>2, TypeParts DEF Enter, TypePass
<1> QED BY <1>2, <1>4, <1>5, TypeParts, TypeKept

LEMMA CommitPassTyped ==
    ASSUME TypeOK, PlaceOK, ItemsStay, CommitPass
    PROVE  TypeOK'
<1>1. TypeTable'
    BY ListedRows, TypeParts DEF CommitPass, TypeTable, TypePass
<1>2. TypeSession' /\ TypePass'
    BY TypeParts, ResetTyped, EndPassTyped, Apart DEF CommitPass
<1> QED BY <1>1, <1>2, TypeParts, TypeKept DEF CommitPass

LEMMA TakeEventTyped ==
    ASSUME TypeOK, TakeEvent
    PROVE  TypeOK'
<1>1. Head(stream) \in Event /\ Tail(stream) \in Seq(Event)
    BY StreamTyped, TypeParts DEF TakeEvent, TypeGateway
<1>2. PICK j \in JobOf(Head(stream).run) :
         Begin(Subscriber, j.item, "applying") /\ Load(Subscriber, j.item)
    BY DEF TakeEvent
<1>3. j.item \in Item
    BY <1>2, TypeParts DEF JobOf, TypeTable, JobRow
<1>4. TypeSession'
    BY <1>2, <1>3, TypeParts, Apart DEF TakeEvent, Begin, Load, TypeSession, TypeTable
<1>5. TypeGateway' /\ TypeRest'
    BY <1>1, TypeParts DEF TakeEvent, TypeGateway, TypeRest, counts
<1> QED BY <1>4, <1>5, TypeParts, TypeKept DEF TakeEvent

LEMMA ApplyEventTyped ==
    ASSUME TypeOK, PlaceOK, ItemsStay, EventsTrue, ApplyEvent
    PROVE  TypeOK'
<1>1. items' \in [Item -> MaybeRow] /\ given' \in [Item -> SUBSET {"session", "status"}]
    BY ApplyEventWrites DEF Rewritten, TypeOK, MaybeRow
<1>2. jobs' \subseteq JobRow
    <2>1. PICK j \in JobOf(evt.run) : Mark(j, evt.status)
        BY DEF ApplyEvent
    <2>2. j \in JobRow /\ evt.status \in EventStatus
        BY <2>1 DEF ApplyEvent, EventsTrue, Event, JobOf, TypeOK
    <2>3. Job(j.item, evt.status, j.run) \in JobRow
        BY <2>2 DEF Job, JobRow, JobStatus, EventStatus
    <2> QED BY <2>1, <2>3 DEF Mark, TypeOK
<1>3. TypeSession'
    BY TypeParts, ResetTyped, Apart DEF ApplyEvent
<1>4. TypeRest'
    BY TypeParts DEF ApplyEvent, TypeRest, counts
<1> QED BY <1>1, <1>2, <1>3, <1>4, TypeParts, TypeKept DEF ApplyEvent, TypeTable

LEMMA StreamsTyped ==
    ASSUME TypeOK, Streams
    PROVE  TypeOK'
<1>1. stream \in Seq(Event)
    BY DEF TypeOK
<1>2. CASE IgnoreEvent
    <2>1. TypeGateway'
        BY <1>1, <1>2, StreamTyped, TypeParts DEF IgnoreEvent, TypeGateway
    <2> QED BY <1>2, <2>1, TypeParts, TypeKept DEF IgnoreEvent
<1>3. CASE Disconnect
    <2>1. up' \in BOOLEAN
        BY <1>3 DEF Disconnect
    <2>2. stream' \in Seq(Event)
        <3>1. <<>> \in Seq(Event)
            OBVIOUS
        <3>2. stream' = stream \/ stream' = <<>>
            BY <1>3 DEF Disconnect
        <3> QED BY <1>1, <3>1, <3>2
    <2>3. UNCHANGED <<outcome, said>>
        BY <1>3 DEF Disconnect
    <2>4. TypeGateway'
        BY <2>1, <2>2, <2>3, TypeParts DEF TypeGateway
    <2>5. TypeRest'
        BY <1>3, TypeParts, Apart DEF Disconnect, TypeRest
    <2> QED BY <1>3, <2>4, <2>5, TypeParts, TypeKept DEF Disconnect
<1>4. CASE Reconnect
    <2>1. TypeGateway'
        BY <1>4, TypeParts DEF Reconnect, TypeGateway
    <2> QED BY <1>4, <2>1, TypeParts, TypeKept DEF Reconnect
<1>5. ASSUME NEW r \in Run, NEW s \in Source, NEW st \in EventStatus, Report(r, s, st)
      PROVE  TypeOK'
    <2>1. [run |-> r, status |-> st] \in Event
        BY DEF Event
    <2>2. stream' \in Seq(Event)
        BY <1>1, <1>5, <2>1, StreamTyped DEF Report
    <2>3. outcome' \in [Run -> {"free", "live", "completed", "failed"}]
        BY <1>5 DEF Report, TypeOK, EventStatus
    <2>4. said' \in [Run -> [Source -> 0..2]]
        <3>1. said[r][s] < 2
            BY <1>5 DEF Report
        <3> QED BY <1>5, <3>1 DEF Report, TypeOK
    <2>5. TypeGateway'
        BY <1>5, <2>2, <2>3, <2>4, TypeParts DEF Report, TypeGateway
    <2> QED BY <1>5, <2>5, TypeParts, TypeKept DEF Report
<1> QED BY <1>2, <1>3, <1>4, <1>5 DEF Streams

LEMMA GivenUpTyped ==
    ASSUME TypeOK, NEW p \in Txn, GivenUp(p)
    PROVE  TypeOK'
<1>1. TypeSession'
    BY TypeParts, ResetTyped DEF GivenUp, Gone
<1>2. TypePass'
    BY TypeParts, TypeKept, EndPassTyped DEF GivenUp, Gone
<1>3. TypeRest'
    BY TypeParts, Apart DEF GivenUp, Gone, TypeRest
<1> QED BY <1>1, <1>2, <1>3, TypeParts, TypeKept DEF GivenUp, Gone

LEMMA TypeStep ==
    ASSUME TypeOK, PlaceOK, ItemsStay, EventsTrue, [Next]_vars
    PROVE  TypeOK'
<1>1. ASSUME UNCHANGED vars PROVE TypeOK'
    BY <1>1, TypeParts, TypeKept DEF vars
<1> QED
    BY <1>1, NextCases, Apart, CreateTyped, DeleteTyped, DispatchUnknownTyped, PassSendsTyped,
       ArchiveTyped, BeginTyped, ApplyPatchTyped, AcceptTyped, AnswersTyped, RejectTyped,
       ListsTyped, CommitPassTyped, TakeEventTyped, ApplyEventTyped, StreamsTyped, GivenUpTyped

-----------------------------------------------------------------------------
(* Where the transactions stand.                                           *)

LEMMA PlaceInit == Init => PlaceOK
BY Apart DEF Init, PlaceOK, Clean

(* What one transaction does leaves the others where they are. *)
LEMMA PlaceMoves ==
    ASSUME TypeOK, PlaceOK, NEW p \in Txn,
           \A q \in Txn \ {p} : pc'[q] = pc[q] /\ at'[q] = at[q] /\ run'[q] = run[q]
                                /\ work'[q] = work[q],
           \/ pc'[p] = "idle"
           \/ p = Worker /\ pc'[p] = "listed"
           \/ /\ at'[p] \in Item
              /\ \/ p \in Handler /\ pc'[p] = "patching" /\ work'[p][at'[p]] \in Row
                 \/ p = Subscriber /\ pc'[p] = "applying" /\ work'[p][at'[p]] \in Row
                 \/ p # Subscriber /\ pc'[p] = "sending"
                 \/ p # Subscriber /\ pc'[p] = "accepted" /\ run'[p] \in Run,
           \A i \in Item : dirty'[i] # {} => work'[Worker][i] \in Row
    PROVE  PlaceOK'
<1>1. \A h \in Handler : pc'[h] \in {"idle", "patching", "sending", "accepted"}
    BY Apart DEF PlaceOK
<1>2. pc'[Worker] \in {"idle", "listed", "sending", "accepted"}
    BY Apart DEF PlaceOK
<1>3. pc'[Subscriber] \in {"idle", "applying"}
    BY Apart DEF PlaceOK
<1>4. \A q \in Txn : pc'[q] \notin {"idle", "listed"} => at'[q] \in Item
    BY DEF PlaceOK
<1>5. \A q \in Txn : pc'[q] \in {"patching", "applying"} => work'[q][at'[q]] \in Row
    BY DEF PlaceOK
<1>6. \A q \in Txn : pc'[q] = "accepted" => run'[q] \in Run
    BY DEF PlaceOK
<1> QED BY <1>1, <1>2, <1>3, <1>4, <1>5, <1>6 DEF PlaceOK

LEMMA ResetMoves ==
    ASSUME TypeOK, NEW p \in Txn, Reset(p)
    PROVE  /\ pc'[p] = "idle" /\ work'[p] = NoRows
           /\ \A q \in Txn \ {p} : pc'[q] = pc[q] /\ at'[q] = at[q] /\ run'[q] = run[q]
                                   /\ work'[q] = work[q]
BY DEF Reset, TypeOK

LEMMA BeginMoves ==
    ASSUME TypeOK, NEW p \in Txn, NEW i, NEW where, Begin(p, i, where)
    PROVE  /\ pc'[p] = where /\ at'[p] = i
           /\ \A q \in Txn \ {p} : pc'[q] = pc[q] /\ at'[q] = at[q]
BY DEF Begin, TypeOK

LEMMA LoadMoves ==
    ASSUME TypeOK, NEW p \in Txn, NEW i \in Item, Load(p, i)
    PROVE  work'[p][i] = items[i] /\ \A q \in Txn \ {p} : work'[q] = work[q]
BY DEF Load, TypeOK

LEMMA FlushMoves ==
    ASSUME TypeOK, NEW i \in Item, NEW new, Flush(i, new)
    PROVE  /\ work'[Worker][i] = new
           /\ dirty'[i] = dirty[i] \cup Differs(work[Worker][i], new) \cup {"other"}
           /\ \A k \in Item \ {i} : work'[Worker][k] = work[Worker][k] /\ dirty'[k] = dirty[k]
           /\ \A q \in Txn \ {Worker} : work'[q] = work[q]
BY Apart DEF Flush, TypeOK

LEMMA PlaceStep ==
    ASSUME TypeOK, PlaceOK, ItemsStay, EventsTrue, [Next]_vars
    PROVE  PlaceOK'
<1>1. ASSUME UNCHANGED <<session, dirty>> PROVE PlaceOK'
    BY <1>1 DEF PlaceOK, session
<1>2. ASSUME NEW i \in Item, NEW c \in MoveTo, NEW a \in GivenAgent, Create(i, c, a)
      PROVE  PlaceOK'
    BY <1>1, <1>2 DEF Create, pass
<1>3. ASSUME NEW i \in Item, Delete(i) \/ DispatchUnknown(i) PROVE PlaceOK'
    BY <1>1, <1>3 DEF Delete, DispatchUnknown, pass
<1>4. ASSUME Streams \/ UNCHANGED vars PROVE PlaceOK'
    BY <1>1, <1>4 DEF Streams, IgnoreEvent, Disconnect, Reconnect, Report, vars, pass
<1>5. ASSUME NEW i \in Item, PassSends(i) PROVE PlaceOK'
    <2>1. UNCHANGED <<run, work, dirty>> /\ pc[Worker] = "listed"
        BY <1>5 DEF PassSends
    <2>2. CASE Begin(Worker, i, "sending")
        BY <2>1, <2>2, BeginMoves, PlaceMoves, Apart DEF PlaceOK
    <2>3. CASE UNCHANGED <<pc, at>>
        BY <2>1, <2>3 DEF PlaceOK
    <2> QED BY <1>5, <2>2, <2>3 DEF PassSends
<1>6. ASSUME NEW i \in Item, Archive(i) PROVE PlaceOK'
    <2> DEFINE new == [work[Worker][i] EXCEPT !.column = "parked"]
    <2>1. Flush(i, new) /\ UNCHANGED <<pc, at, run>> /\ pc[Worker] = "listed"
          /\ work[Worker][i] \in Row
        BY <1>6 DEF Archive, ArchiveCandidates
    <2>2. new \in Row
        BY <2>1 DEF Row, Column
    <2> HIDE DEF new
    <2>3. \A k \in Item : dirty'[k] # {} => work'[Worker][k] \in Row
        BY <2>1, <2>2, FlushMoves DEF PlaceOK
    <2> QED BY <2>1, <2>3, FlushMoves, PlaceMoves, Apart
<1>7. ASSUME NEW h \in Handler, NEW i \in Item, LoadPatch(h, i) \/ BeginDispatch(h, i)
      PROVE  PlaceOK'
    <2>1. h \in Txn /\ h # Worker /\ h # Subscriber
        BY Apart
    <2>2. Load(h, i) /\ Exists(i) /\ UNCHANGED <<run, dirty>>
        BY <1>7 DEF LoadPatch, BeginDispatch, pass
    <2>3. \/ Begin(h, i, "patching") \/ Begin(h, i, "sending")
        BY <1>7 DEF LoadPatch, BeginDispatch
    <2>4. work'[h][i] \in Row
        BY <2>1, <2>2, LoadMoves, Born
    <2>5. \A k \in Item : dirty'[k] # {} => work'[Worker][k] \in Row
        BY <2>1, <2>2, LoadMoves, Apart DEF PlaceOK
    <2> QED BY <2>1, <2>2, <2>3, <2>4, <2>5, LoadMoves, BeginMoves, PlaceMoves
<1>8. ASSUME NEW p \in Txn, Reset(p), p # Worker, UNCHANGED dirty PROVE PlaceOK'
    <2>1. \A k \in Item : dirty'[k] # {} => work'[Worker][k] \in Row
        BY <1>8, ResetMoves, Apart DEF PlaceOK
    <2> QED BY <1>8, <2>1, ResetMoves, PlaceMoves
<1>9. ASSUME Reset(Worker), dirty' = Clean PROVE PlaceOK'
    <2>1. \A k \in Item : dirty'[k] = {}
        BY <1>9 DEF Clean
    <2> QED BY <1>9, <2>1, ResetMoves, PlaceMoves, Apart
<1>10. ASSUME NEW h \in Handler, ApplyPatch(h) PROVE PlaceOK'
    BY <1>8, <1>10, Apart DEF ApplyPatch, pass
<1>11. ASSUME NEW p \in Handler \cup {Worker}, Accept(p) PROVE PlaceOK'
    <2>1. /\ p \in Txn /\ p # Subscriber /\ at[p] \in Item /\ run'[p] \in Run
          /\ pc'[p] = "accepted" /\ UNCHANGED <<at, work, dirty>>
          /\ \A q \in Txn \ {p} : pc'[q] = pc[q] /\ run'[q] = run[q]
        <3>1. p \in Txn /\ p # Subscriber /\ pc[p] = "sending" /\ at[p] \in Item
            BY <1>11, Apart DEF Accept, PlaceOK
        <3> QED BY <1>11, <3>1 DEF Accept, TypeOK, pass
    <2>2. \A k \in Item : dirty'[k] # {} => work'[Worker][k] \in Row
        BY <2>1 DEF PlaceOK
    <2> QED BY <2>1, <2>2, PlaceMoves
<1>12. ASSUME NEW p \in Handler \cup {Worker}, Answers(p) PROVE PlaceOK'
    <2>1. PICK new, job : Answered(p, new, job)
        BY <1>12, AnswersWrite
    <2>2. CASE p \in Handler
        BY <1>8, <2>1, <2>2, AnswerWrites, Apart DEF pass
    <2>3. CASE p = Worker
        <3>1. AnswerPass(new, job) /\ new \in Row /\ at[p] \in Item
            BY <2>1, <2>3, AnswerFlushes, Apart DEF Answered, Sent, PlaceOK
        <3>2. /\ pc'[Worker] = "listed"
              /\ \A q \in Txn \ {Worker} : pc'[q] = pc[q] /\ at'[q] = at[q] /\ run'[q] = run[q]
            BY <3>1, BeginMoves, Apart DEF AnswerPass, TypeOK
        <3>3. /\ \A q \in Txn \ {Worker} : work'[q] = work[q]
              /\ \A k \in Item : dirty'[k] # {} => work'[Worker][k] \in Row
            BY <2>3, <3>1, FlushMoves DEF AnswerPass, PlaceOK
        <3> QED BY <3>2, <3>3, PlaceMoves, Apart
    <2> QED BY <2>2, <2>3
<1>13. ASSUME NEW p \in Handler \cup {Worker}, Reject(p) PROVE PlaceOK'
    <2>1. CASE p \in Handler
        BY <1>8, <1>13, <2>1, Apart DEF Reject, pass
    <2>2. CASE p = Worker
        <3>1. Begin(Worker, None, "listed") /\ UNCHANGED <<run, work, dirty>>
            BY <1>13, <2>2, Apart DEF Reject
        <3>2. \A k \in Item : dirty'[k] # {} => work'[Worker][k] \in Row
            BY <3>1 DEF PlaceOK
        <3> QED BY <3>1, <3>2, BeginMoves, PlaceMoves, Apart
    <2> QED BY <2>1, <2>2
<1>14. ASSUME Lists PROVE PlaceOK'
    <2>1. /\ pc[Worker] \in {"idle", "listed"} /\ UNCHANGED <<at, run, dirty>>
          /\ pc' \in {pc, [pc EXCEPT ![Worker] = "listed"]}
          /\ work' = [work EXCEPT ![Worker] = Listed]
        BY <1>14 DEF Lists, StartPass, StartRetry, StartArchive, Enter
    <2>2. \A k \in Item : dirty'[k] # {} => work'[Worker][k] \in Row
        BY <2>1, ListedRows, Apart DEF TypeOK
    <2>3. \A q \in Txn \ {Worker} : work'[q] = work[q] /\ pc'[q] = pc[q]
        BY <2>1 DEF TypeOK
    <2>4. pc'[Worker] \in {"idle", "listed"}
        BY <2>1, Apart DEF TypeOK
    <2> QED BY <2>1, <2>2, <2>3, <2>4, PlaceMoves, Apart
<1>15. ASSUME CommitPass PROVE PlaceOK'
    BY <1>9, <1>15 DEF CommitPass, EndPass
<1>16. ASSUME TakeEvent PROVE PlaceOK'
    <2>1. PICK j \in JobOf(Head(stream).run) :
             Begin(Subscriber, j.item, "applying") /\ Load(Subscriber, j.item)
        BY <1>16 DEF TakeEvent
    <2>2. j.item \in Item /\ Exists(j.item) /\ UNCHANGED <<run, dirty>>
        BY <1>16, <2>1 DEF TakeEvent, JobOf, TypeOK, JobRow, ItemsStay, pass
    <2>3. work'[Subscriber][j.item] \in Row
        BY <2>1, <2>2, LoadMoves, Born, Apart
    <2>4. \A k \in Item : dirty'[k] # {} => work'[Worker][k] \in Row
        BY <2>1, <2>2, LoadMoves, Apart DEF PlaceOK
    <2> QED BY <2>1, <2>2, <2>3, <2>4, LoadMoves, BeginMoves, PlaceMoves, Apart
<1>17. ASSUME ApplyEvent PROVE PlaceOK'
    BY <1>8, <1>17, Apart DEF ApplyEvent, pass
<1>18. ASSUME NEW p \in Txn, GivenUp(p) PROVE PlaceOK'
    BY <1>8, <1>9, <1>18 DEF GivenUp, Gone, EndPass, pass
<1> QED
    BY NextCases, <1>2, <1>3, <1>4, <1>5, <1>6, <1>7, <1>10, <1>11, <1>12, <1>13, <1>14,
       <1>15, <1>16, <1>17, <1>18

-----------------------------------------------------------------------------
(* Items that somebody works with stay.                                    *)

LEMMA StayInit == Init => ItemsStay
BY DEF Init, ItemsStay, Clean, Sent

(* The only step that takes an item away is its deletion. *)
LEMMA LivesOn ==
    ASSUME TypeOK, PlaceOK, ItemsStay, EventsTrue, [Next]_vars,
           NEW i \in Item, Exists(i)
    PROVE  Exists(i)' \/ Delete(i)
<1>1. items[i] \in Row
    BY Born
<1>2. ASSUME UNCHANGED items PROVE Exists(i)'
    BY <1>2 DEF Exists
<1>3. ASSUME NEW k, NEW row, Rewritten(k, row) PROVE Exists(i)'
    BY <1>1, <1>3, Apart DEF Rewritten, Exists, TypeOK
<1>4. ASSUME NEW k \in Item, NEW c \in MoveTo, NEW a \in GivenAgent, Create(k, c, a)
      PROVE  Exists(i)'
    BY <1>4, Apart DEF Create, Exists, TypeOK
<1>5. ASSUME NEW k \in Item, Delete(k), k # i PROVE Exists(i)'
    BY <1>5 DEF Delete, Remove, Exists, TypeOK
<1>6. ASSUME NEW h \in Handler, ApplyPatch(h) PROVE Exists(i)'
    BY <1>3, <1>6, ApplyPatchWrites
<1>7. ASSUME NEW p \in Handler \cup {Worker}, Answers(p) PROVE Exists(i)'
    <2>1. PICK new, job : Answered(p, new, job)
        BY <1>7, AnswersWrite
    <2>2. CASE p \in Handler
        BY <1>3, <2>1, <2>2, AnswerWrites DEF Updated
    <2>3. CASE p = Worker
        BY <1>2, <2>1, <2>3, AnswerFlushes DEF AnswerPass, table
    <2> QED BY <2>2, <2>3
<1>8. ASSUME CommitPass PROVE Exists(i)'
    <2>1. items' = Listed /\ Listed[i] \in Row
        BY <1>1, <1>8, ListedRows DEF CommitPass
    <2> QED BY <2>1, Apart DEF Exists
<1>9. ASSUME ApplyEvent PROVE Exists(i)'
    BY <1>2, <1>3, <1>9, ApplyEventWrites
<1>10. ASSUME NEW k \in Item,
              DispatchUnknown(k) \/ PassSends(k) \/ Archive(k) PROVE Exists(i)'
    BY <1>2, <1>10 DEF DispatchUnknown, PassSends, Archive, table
<1>11. ASSUME NEW h \in Handler, NEW k \in Item, LoadPatch(h, k) \/ BeginDispatch(h, k)
       PROVE  Exists(i)'
    BY <1>2, <1>11 DEF LoadPatch, BeginDispatch, table
<1>12. ASSUME NEW p \in Handler \cup {Worker}, Accept(p) \/ Reject(p) PROVE Exists(i)'
    BY <1>2, <1>12 DEF Accept, Reject, table
<1>13. ASSUME Lists \/ TakeEvent \/ Streams \/ UNCHANGED vars PROVE Exists(i)'
    BY <1>2, <1>13 DEF Lists, StartPass, StartRetry, StartArchive, TakeEvent, Streams,
       IgnoreEvent, Disconnect, Reconnect, Report, vars, table
<1>14. ASSUME NEW p \in Txn, GivenUp(p) PROVE Exists(i)'
    BY <1>2, <1>14 DEF GivenUp, Gone, table
<1> QED
    BY NextCases, <1>4, <1>5, <1>6, <1>7, <1>8, <1>9, <1>10, <1>11, <1>12, <1>13, <1>14

(* An item somebody works with cannot be deleted. *)
LEMMA Undeleted ==
    ASSUME TypeOK, NEW i \in Item, Delete(i)
    PROVE  /\ dirty[i] = {}
           /\ \A p \in Txn : ~(Sent(p) /\ at[p] = i)
           /\ \A j \in jobs \cup fresh : j.item # i
BY DEF Delete, Remove, Locked, KeyHeld, Sent

(* What comes into somebody's hands exists. *)
LEMMA StayIf ==
    ASSUME TypeOK, PlaceOK, ItemsStay, EventsTrue, [Next]_vars,
           \A p \in Txn : Sent(p)' =>
               \/ Sent(p) /\ at'[p] = at[p]
               \/ \E i \in Item : i = at'[p] /\ Exists(i)',
           \A i \in Item : dirty'[i] # {} => dirty[i] # {} \/ Exists(i)',
           \A j \in jobs' \cup fresh' :
               \/ j \in jobs \cup fresh
               \/ j.item \in Item /\ Exists(j.item)'
    PROVE  ItemsStay'
<1>1. ASSUME NEW p \in Txn, Sent(p)' PROVE Exists(at[p])'
    <2>1. CASE Sent(p) /\ at'[p] = at[p]
        <3> DEFINE i == at[p]
        <3>1. i \in Item /\ Exists(i)
            BY <2>1 DEF Sent, PlaceOK, ItemsStay
        <3>2. items'[i] \notin {Unborn, Deleted}
            BY <2>1, <3>1, LivesOn, Undeleted DEF Exists
        <3> QED BY <2>1, <3>2 DEF Exists
    <2>2. CASE \E i \in Item : i = at'[p] /\ Exists(i)'
        BY <2>2 DEF Exists
    <2> QED BY <1>1, <2>1, <2>2
<1>2. ASSUME NEW i \in Item, dirty'[i] # {} PROVE Exists(i)'
    <2>1. CASE dirty[i] # {}
        BY <2>1, LivesOn, Undeleted DEF ItemsStay
    <2> QED BY <1>2, <2>1
<1>3. ASSUME NEW j \in jobs' \cup fresh' PROVE Exists(j.item)'
    <2>1. CASE j \in jobs \cup fresh
        <3>1. j.item \in Item /\ Exists(j.item)
            BY <2>1 DEF ItemsStay, TypeOK, JobRow
        <3> QED BY <2>1, <3>1, LivesOn, Undeleted
    <2> QED BY <1>3, <2>1
<1> QED BY <1>1, <1>2, <1>3 DEF ItemsStay

LEMMA StayStep ==
    ASSUME TypeOK, PlaceOK, ItemsStay, EventsTrue, [Next]_vars
    PROVE  ItemsStay'
<1>1. ASSUME UNCHANGED <<pc, at, jobs, dirty, fresh>> PROVE ItemsStay'
    BY <1>1, StayIf DEF Sent
<1>2. ASSUME NEW i \in Item, NEW c \in MoveTo, NEW a \in GivenAgent, Create(i, c, a)
      PROVE  ItemsStay'
    BY <1>1, <1>2 DEF Create, session, pass
<1>3. ASSUME NEW i \in Item, Delete(i) PROVE ItemsStay'
    BY <1>1, <1>3 DEF Delete, Remove, session, pass
<1>4. ASSUME Streams \/ UNCHANGED vars PROVE ItemsStay'
    BY <1>1, <1>4 DEF Streams, IgnoreEvent, Disconnect, Reconnect, Report, vars, session, pass,
       table
<1>5. ASSUME NEW i \in Item, DispatchUnknown(i) PROVE ItemsStay'
    <2>1. Exists(i)' /\ UNCHANGED <<pc, at, dirty, fresh>>
          /\ jobs' = jobs \cup {Job(i, "failed", None)}
        BY <1>5 DEF DispatchUnknown, Exists, session, pass
    <2> QED BY <2>1, StayIf DEF Sent, Job
<1>6. ASSUME NEW i \in Item, PassSends(i) PROVE ItemsStay'
    <2>1. Exists(i)' /\ UNCHANGED <<jobs, dirty>>
        BY <1>6 DEF PassSends, Exists, table
    <2>2. CASE Begin(Worker, i, "sending") /\ UNCHANGED fresh
        BY <2>1, <2>2, StayIf, BeginMoves, Apart DEF Sent
    <2>3. CASE fresh' = fresh \cup {Job(i, "failed", None)} /\ UNCHANGED <<pc, at>>
        BY <2>1, <2>3, StayIf DEF Sent, Job
    <2> QED BY <1>6, <2>2, <2>3 DEF PassSends
<1>7. ASSUME NEW i \in Item, Archive(i) PROVE ItemsStay'
    <2>1. Exists(i)' /\ UNCHANGED <<pc, at, jobs, fresh>>
        BY <1>7 DEF Archive, Exists, table
    <2>2. \A k \in Item : dirty'[k] # {} => dirty[k] # {} \/ k = i
        BY <1>7, FlushMoves DEF Archive
    <2> QED BY <2>1, <2>2, StayIf DEF Sent
<1>8. ASSUME NEW h \in Handler, NEW i \in Item, LoadPatch(h, i) \/ BeginDispatch(h, i)
      PROVE  ItemsStay'
    <2>1. Exists(i)' /\ UNCHANGED <<jobs, dirty, fresh>>
        BY <1>8 DEF LoadPatch, BeginDispatch, Exists, table, pass
    <2>2. \/ Begin(h, i, "patching") \/ Begin(h, i, "sending")
        BY <1>8 DEF LoadPatch, BeginDispatch
    <2> QED BY <2>1, <2>2, StayIf, BeginMoves, Apart DEF Sent
<1>9. ASSUME NEW p \in Txn, Reset(p), dirty' \in {dirty, Clean},
             jobs' \cup fresh' \subseteq jobs \cup fresh
      PROVE  ItemsStay'
    <2>1. \A q \in Txn : Sent(q)' => Sent(q) /\ at'[q] = at[q]
        BY <1>9, ResetMoves DEF Sent
    <2>2. \A k \in Item : dirty'[k] # {} => dirty[k] # {}
        BY <1>9 DEF Clean
    <2> QED BY <1>9, <2>1, <2>2, StayIf
<1>10. ASSUME NEW h \in Handler, ApplyPatch(h) PROVE ItemsStay'
    BY <1>9, <1>10, Apart DEF ApplyPatch, pass
<1>11. ASSUME NEW p \in Handler \cup {Worker}, Accept(p) PROVE ItemsStay'
    <2>1. \A q \in Txn : Sent(q)' => Sent(q)
        BY <1>11, Apart DEF Accept, Sent, TypeOK
    <2> QED BY <1>11, <2>1, StayIf DEF Accept, table, pass
<1>12. ASSUME NEW p \in Handler \cup {Worker}, Sent(p), NEW job, job.item = at[p],
              \A q \in Txn : Sent(q)' => Sent(q) /\ at'[q] = at[q],
              \A i \in Item : dirty'[i] # {} => dirty[i] # {} \/ i = at[p],
              jobs' \cup fresh' \subseteq jobs \cup fresh \cup {job}
       PROVE  ItemsStay'
    <2>1. PICK i \in Item : i = at[p]
        BY <1>12, Apart DEF Sent, PlaceOK
    <2>2. Exists(i)
        BY <1>12, <2>1, Apart DEF ItemsStay
    <2>3. Exists(i)'
        BY <1>12, <2>1, <2>2, LivesOn, Undeleted, Apart
    <2>4. \A k \in Item : dirty'[k] # {} => dirty[k] # {} \/ Exists(k)'
        BY <1>12, <2>1, <2>3
    <2>5. \A j \in jobs' \cup fresh' :
             \/ j \in jobs \cup fresh
             \/ j.item \in Item /\ Exists(j.item)'
        BY <1>12, <2>1, <2>3
    <2> QED BY <1>12, <2>4, <2>5, StayIf
<1>13. ASSUME NEW p \in Handler \cup {Worker}, Answers(p) PROVE ItemsStay'
    <2>1. PICK new, job : Answered(p, new, job)
        BY <1>13, AnswersWrite
    <2>2. Sent(p) /\ job.item = at[p] /\ p \in Txn /\ at[p] \in Item
        BY <2>1, Apart DEF Answered, Sent, PlaceOK
    <2>3. CASE p \in Handler
        <3>1. Reset(p) /\ jobs' = jobs \cup {job} /\ UNCHANGED <<dirty, fresh>>
            BY <2>1, <2>3, AnswerWrites DEF pass
        <3>2. \A q \in Txn : Sent(q)' => Sent(q) /\ at'[q] = at[q]
            BY <2>2, <3>1, ResetMoves DEF Sent
        <3> QED BY <1>12, <2>2, <3>1, <3>2
    <2>4. CASE p = Worker
        <3>1. AnswerPass(new, job)
            BY <2>1, <2>4, AnswerFlushes
        <3>2. \A q \in Txn : Sent(q)' => Sent(q) /\ at'[q] = at[q]
            BY <3>1, BeginMoves, Apart DEF AnswerPass, Sent
        <3>3. \A i \in Item : dirty'[i] # {} => dirty[i] # {} \/ i = at[p]
            BY <2>2, <2>4, <3>1, FlushMoves DEF AnswerPass
        <3>4. fresh' = fresh \cup {job} /\ UNCHANGED jobs
            BY <3>1 DEF AnswerPass, table
        <3> QED BY <1>12, <2>2, <3>2, <3>3, <3>4
    <2> QED BY <2>3, <2>4
<1>14. ASSUME NEW p \in Handler \cup {Worker}, Reject(p) PROVE ItemsStay'
    <2> DEFINE job == Job(at[p], "failed", None)
    <2>1. Sent(p) /\ job.item = at[p] /\ p \in Txn /\ UNCHANGED dirty
          /\ jobs' \cup fresh' \subseteq jobs \cup fresh \cup {job}
        BY <1>14, Apart DEF Reject, Sent, Job, pass
    <2>2. \/ Reset(p) \/ Begin(Worker, None, "listed")
        BY <1>14 DEF Reject
    <2>3. \A q \in Txn : Sent(q)' => Sent(q) /\ at'[q] = at[q]
        BY <2>1, <2>2, ResetMoves, BeginMoves, Apart DEF Sent
    <2> HIDE DEF job
    <2> QED BY <1>12, <2>1, <2>3
<1>15. ASSUME Lists PROVE ItemsStay'
    <2>1. UNCHANGED <<at, jobs, dirty, fresh>>
          /\ pc' \in {pc, [pc EXCEPT ![Worker] = "listed"]}
        BY <1>15 DEF Lists, StartPass, StartRetry, StartArchive, table
    <2>2. \A q \in Txn : Sent(q)' => Sent(q)
        BY <2>1, Apart DEF Sent, TypeOK
    <2> QED BY <2>1, <2>2, StayIf
<1>16. ASSUME CommitPass PROVE ItemsStay'
    BY <1>9, <1>16, Apart DEF CommitPass, EndPass
<1>17. ASSUME TakeEvent PROVE ItemsStay'
    <2>1. /\ UNCHANGED <<jobs, dirty, fresh>>
          /\ \E i : Begin(Subscriber, i, "applying")
        BY <1>17 DEF TakeEvent, table, pass
    <2>2. \A q \in Txn : Sent(q)' => Sent(q) /\ at'[q] = at[q]
        BY <2>1, BeginMoves, Apart DEF Sent
    <2> QED BY <2>1, <2>2, StayIf
<1>18. ASSUME ApplyEvent PROVE ItemsStay'
    <2>1. PICK j \in JobOf(evt.run) : Mark(j, evt.status)
        BY <1>18 DEF ApplyEvent
    <2>2. j \in jobs /\ j.item \in Item /\ Exists(j.item)
        BY <2>1 DEF JobOf, TypeOK, JobRow, ItemsStay
    <2>3. Exists(j.item)'
        BY <2>2, LivesOn, Undeleted
    <2>4. Reset(Subscriber) /\ UNCHANGED <<dirty, fresh>>
        BY <1>18 DEF ApplyEvent, pass
    <2>5. \A q \in Txn : Sent(q)' => Sent(q) /\ at'[q] = at[q]
        BY <2>4, ResetMoves, Apart DEF Sent
    <2>6. \A k \in jobs' : k \in jobs \/ k.item = j.item
        BY <2>1 DEF Mark, Job
    <2> QED BY <2>2, <2>3, <2>4, <2>5, <2>6, StayIf
<1>19. ASSUME NEW p \in Txn, GivenUp(p) PROVE ItemsStay'
    BY <1>9, <1>19 DEF GivenUp, Gone, EndPass, pass, table
<1> QED
    BY NextCases, <1>2, <1>3, <1>4, <1>5, <1>6, <1>7, <1>8, <1>10, <1>11, <1>13, <1>14,
       <1>15, <1>16, <1>17, <1>18, <1>19

-----------------------------------------------------------------------------
(* Whose a run is.                                                         *)

Owned == RunsOwned /\ OneJobPerRun

LEMMA OwnInit == Init => Owned
BY DEF Init, Owned, RunsOwned, OneJobPerRun

(* The gateway never takes back that a run started or how it ended. *)
LEMMA OutcomeStays ==
    ASSUME TypeOK, [Next]_vars, NEW r \in Run
    PROVE  /\ outcome[r] # "free" => outcome'[r] # "free"
           /\ outcome[r] \in {"completed", "failed"} => outcome'[r] = outcome[r]
<1>1. CASE outcome' = outcome
    BY <1>1
<1>2. ASSUME NEW p, Accept(p)
      PROVE  \/ outcome'[r] = outcome[r]
             \/ outcome[r] = "free" /\ outcome'[r] = "live"
    BY <1>2 DEF Accept, TypeOK
<1>3. ASSUME NEW q \in Run, NEW s \in Source, NEW st \in EventStatus, Report(q, s, st)
      PROVE  /\ outcome[r] # "free" => outcome'[r] # "free"
             /\ outcome[r] \in {"completed", "failed"} => outcome'[r] = outcome[r]
    <2>1. CASE q # r
        BY <1>3, <2>1 DEF Report, TypeOK
    <2>2. CASE q = r /\ st = "running"
        BY <1>3, <2>2 DEF Report, TypeOK
    <2>3. CASE q = r /\ st # "running"
        <3>1. outcome'[r] = st /\ st \in Ending(r)
            BY <1>3, <2>3 DEF Report, TypeOK
        <3> QED BY <2>3, <3>1 DEF Ending, EventStatus
    <2> QED BY <2>1, <2>2, <2>3
<1>4. \/ UNCHANGED outcome
      \/ \E p \in Handler \cup {Worker} : Accept(p)
      \/ \E q \in Run, s \in Source, st \in EventStatus : Report(q, s, st)
    <2>1. ASSUME NEW p \in Handler \cup {Worker}, Answers(p) PROVE UNCHANGED outcome
        BY <2>1 DEF Answers, Online, Offline, Answer, gateway
    <2>2. ASSUME NEW p \in Txn, GivenUp(p) PROVE UNCHANGED outcome
        BY <2>2 DEF GivenUp, Gone, gateway
    <2>3. ASSUME NEW i \in Item, Delete(i) \/ DispatchUnknown(i) \/ PassSends(i) \/ Archive(i)
          PROVE  UNCHANGED outcome
        BY <2>3 DEF Delete, DispatchUnknown, PassSends, Archive, gateway
    <2>4. ASSUME NEW i \in Item, NEW c \in MoveTo, NEW a \in GivenAgent, Create(i, c, a)
          PROVE  UNCHANGED outcome
        BY <2>4 DEF Create, gateway
    <2>5. ASSUME NEW h \in Handler, NEW i \in Item, LoadPatch(h, i) \/ BeginDispatch(h, i)
          PROVE  UNCHANGED outcome
        BY <2>5 DEF LoadPatch, BeginDispatch, gateway
    <2>6. ASSUME NEW h \in Handler, ApplyPatch(h) PROVE UNCHANGED outcome
        BY <2>6 DEF ApplyPatch, gateway
    <2>7. ASSUME NEW p \in Handler \cup {Worker}, Reject(p) PROVE UNCHANGED outcome
        BY <2>7 DEF Reject, gateway
    <2>8. ASSUME Lists \/ CommitPass \/ TakeEvent \/ ApplyEvent \/ UNCHANGED vars
          PROVE  UNCHANGED outcome
        BY <2>8 DEF Lists, StartPass, StartRetry, StartArchive, CommitPass, TakeEvent,
           ApplyEvent, vars, gateway
    <2>9. ASSUME IgnoreEvent \/ Disconnect \/ Reconnect PROVE UNCHANGED outcome
        BY <2>9 DEF IgnoreEvent, Disconnect, Reconnect
    <2> QED
        BY NextCases, <2>1, <2>2, <2>3, <2>4, <2>5, <2>6, <2>7, <2>8, <2>9 DEF Streams
<1> QED BY <1>1, <1>2, <1>3, <1>4

(* Nobody comes by a run. *)
LEMMA OwnSame ==
    ASSUME TypeOK, PlaceOK, Owned, [Next]_vars,
           \A p \in Txn : pc'[p] = "accepted" => pc[p] = "accepted" /\ run'[p] = run[p],
           \A j \in jobs' : j \in jobs \/ j.run = None,
           \A j \in fresh' : j \in fresh \/ j.run = None
    PROVE  (\A j, k \in jobs' : j.run = k.run /\ j.run # None => j = k) /\ RunsOwned'
<1>1. \A p \in Txn : pc'[p] = "accepted" => outcome'[run'[p]] # "free"
    BY OutcomeStays DEF Owned, RunsOwned, PlaceOK
<1>2. \A p, q \in Txn : pc'[p] = "accepted" /\ Awaited(q, run[p])' => p = q
    BY DEF Owned, RunsOwned, Awaited
<1>3. \A p \in Txn : \A j \in jobs' \cup fresh' : Awaited(p, j.run)' => j.run = None
    BY DEF Owned, RunsOwned, Awaited
<1>4. \A j \in jobs' \cup fresh' : j.run # None => outcome'[j.run] # "free"
    BY OutcomeStays DEF Owned, RunsOwned, TypeOK, JobRow
<1>5. /\ \A j, k \in fresh' : j.run = k.run /\ j.run # None => j = k
      /\ \A j \in jobs', k \in fresh' : j.run = k.run => j.run = None
      /\ \A j, k \in jobs' : j.run = k.run /\ j.run # None => j = k
    BY DEF Owned, RunsOwned, OneJobPerRun
<1> QED BY <1>1, <1>2, <1>3, <1>4, <1>5 DEF RunsOwned, Awaited

(* A dispatch hands its run over to its job. *)
LEMMA OwnHandedOver ==
    ASSUME TypeOK, PlaceOK, Owned, [Next]_vars, NEW p \in Txn, NEW job \in JobRow,
           Awaited(p, job.run) \/ job.run = None,
           pc'[p] # "accepted",
           \A q \in Txn \ {p} : pc'[q] = pc[q] /\ run'[q] = run[q],
           \/ jobs' = jobs \cup {job} /\ fresh' = fresh
           \/ jobs' = jobs /\ fresh' = fresh \cup {job}
    PROVE  (\A j, k \in jobs' : j.run = k.run /\ j.run # None => j = k) /\ RunsOwned'
<1>1. CASE job.run = None
    BY <1>1, OwnSame
<1>2. CASE job.run # None
    <2>1. Awaited(p, job.run) /\ job.run \in Run /\ outcome[job.run] # "free"
        BY <1>2 DEF JobRow, Owned, RunsOwned, Awaited
    <2>2. \A j \in jobs \cup fresh : j.run # job.run
        BY <1>2, <2>1 DEF Owned, RunsOwned, Awaited
    <2>3. \A q \in Txn \ {p} : ~Awaited(q, job.run)
        BY <2>1 DEF Owned, RunsOwned, Awaited
    <2>4. \A q \in Txn : pc'[q] = "accepted" =>
             q # p /\ pc[q] = "accepted" /\ run'[q] = run[q]
        OBVIOUS
    <2>5. \A q \in Txn : pc'[q] = "accepted" => outcome'[run'[q]] # "free"
        BY <2>4, OutcomeStays DEF Owned, RunsOwned, PlaceOK
    <2>6. \A q, t \in Txn : pc'[q] = "accepted" /\ Awaited(t, run[q])' => q = t
        BY <2>4 DEF Owned, RunsOwned, Awaited
    <2>7. \A q \in Txn : \A j \in jobs' \cup fresh' : Awaited(q, j.run)' => j.run = None
        BY <2>3, <2>4 DEF Owned, RunsOwned, Awaited
    <2>8. \A j \in jobs' \cup fresh' : j.run # None => outcome'[j.run] # "free"
        BY <2>1, OutcomeStays DEF Owned, RunsOwned, TypeOK, JobRow
    <2>9. /\ \A j, k \in fresh' : j.run = k.run /\ j.run # None => j = k
          /\ \A j \in jobs', k \in fresh' : j.run = k.run => j.run = None
          /\ \A j, k \in jobs' : j.run = k.run /\ j.run # None => j = k
        BY <2>2 DEF Owned, RunsOwned, OneJobPerRun
    <2> QED BY <2>5, <2>6, <2>7, <2>8, <2>9 DEF RunsOwned, Awaited
<1> QED BY <1>1, <1>2

LEMMA OwnStep ==
    ASSUME TypeOK, PlaceOK, ItemsStay, EventsTrue, Owned, [Next]_vars
    PROVE  (\A j, k \in jobs' : j.run = k.run /\ j.run # None => j = k) /\ RunsOwned'
<1> DEFINE Goal == (\A j, k \in jobs' : j.run = k.run /\ j.run # None => j = k) /\ RunsOwned'
<1> SUFFICES Goal
    OBVIOUS
<1>1. ASSUME UNCHANGED <<pc, run, jobs, fresh>> PROVE Goal
    BY <1>1, OwnSame
<1>2. ASSUME NEW i \in Item, NEW c \in MoveTo, NEW a \in GivenAgent, Create(i, c, a)
      PROVE  Goal
    BY <1>1, <1>2 DEF Create, session, pass
<1>3. ASSUME NEW i \in Item, Delete(i) \/ Archive(i) PROVE Goal
    BY <1>1, <1>3 DEF Delete, Remove, Archive, session, pass, table
<1>4. ASSUME Streams \/ UNCHANGED vars PROVE Goal
    BY <1>1, <1>4 DEF Streams, IgnoreEvent, Disconnect, Reconnect, Report, vars, session, pass,
       table
<1>5. ASSUME NEW i \in Item, DispatchUnknown(i) PROVE Goal
    BY <1>5, OwnSame DEF DispatchUnknown, session, pass, Job
<1>6. ASSUME NEW i \in Item, PassSends(i) PROVE Goal
    <2>1. UNCHANGED <<jobs, run>> /\ \A j \in fresh' : j \in fresh \/ j.run = None
        BY <1>6 DEF PassSends, table, Job
    <2>2. \A q \in Txn : pc'[q] = "accepted" => pc[q] = "accepted"
        BY <1>6, BeginMoves, Apart DEF PassSends
    <2> QED BY <2>1, <2>2, OwnSame
<1>7. ASSUME NEW h \in Handler, NEW i \in Item, LoadPatch(h, i) \/ BeginDispatch(h, i)
      PROVE  Goal
    <2>1. UNCHANGED <<jobs, fresh, run>>
        BY <1>7 DEF LoadPatch, BeginDispatch, table, pass
    <2>2. \A q \in Txn : pc'[q] = "accepted" => pc[q] = "accepted"
        BY <1>7, BeginMoves, Apart DEF LoadPatch, BeginDispatch
    <2> QED BY <2>1, <2>2, OwnSame
<1>8. ASSUME NEW p \in Txn, Reset(p), \A j \in jobs' : j \in jobs \/ j.run = None,
             fresh' \subseteq fresh
      PROVE  Goal
    BY <1>8, OwnSame, ResetMoves
<1>9. ASSUME NEW h \in Handler, ApplyPatch(h) PROVE Goal
    BY <1>8, <1>9, Apart DEF ApplyPatch, pass
<1>10. ASSUME NEW p \in Handler \cup {Worker}, Accept(p) PROVE Goal
    <2>1. PICK r \in Run : /\ outcome[r] = "free" /\ outcome' = [outcome EXCEPT ![r] = "live"]
                           /\ run' = [run EXCEPT ![p] = r]
        BY <1>10 DEF Accept
    <2>2. /\ p \in Txn /\ pc'[p] = "accepted" /\ run'[p] = r /\ pc[p] = "sending"
          /\ \A q \in Txn \ {p} : pc'[q] = pc[q] /\ run'[q] = run[q]
          /\ UNCHANGED <<jobs, fresh>>
        BY <1>10, <2>1, Apart DEF Accept, TypeOK, table, pass
    <2>3. outcome'[r] # "free"
        BY <2>1 DEF TypeOK
    <2>4. \A q \in Txn : ~Awaited(q, r)
        BY <2>1 DEF Owned, RunsOwned, Awaited
    <2>5. \A j \in jobs \cup fresh : j.run # r
        BY <2>1, Apart DEF Owned, RunsOwned
    <2>6. \A q \in Txn : pc'[q] = "accepted" => outcome'[run'[q]] # "free"
        BY <2>2, <2>3, OutcomeStays DEF Owned, RunsOwned, PlaceOK
    <2>7. \A q, t \in Txn : pc'[q] = "accepted" /\ Awaited(t, run[q])' => q = t
        BY <2>2, <2>4 DEF Owned, RunsOwned, Awaited
    <2>8. \A q \in Txn : \A j \in jobs' \cup fresh' : Awaited(q, j.run)' => j.run = None
        BY <2>2, <2>5 DEF Owned, RunsOwned, Awaited
    <2>9. \A j \in jobs' \cup fresh' : j.run # None => outcome'[j.run] # "free"
        BY <2>2, OutcomeStays DEF Owned, RunsOwned, TypeOK, JobRow
    <2> QED BY <2>2, <2>6, <2>7, <2>8, <2>9 DEF RunsOwned, Awaited, Owned, OneJobPerRun
<1>11. ASSUME NEW p \in Handler \cup {Worker}, Answers(p) PROVE Goal
    <2>1. PICK new, job : Answered(p, new, job)
        BY <1>11, AnswersWrite
    <2>2. job \in JobRow /\ p \in Txn /\ (Awaited(p, job.run) \/ job.run = None)
        BY <2>1, Apart DEF Answered, Awaited
    <2>3. CASE p \in Handler
        <3>1. Reset(p) /\ jobs' = jobs \cup {job} /\ fresh' = fresh
            BY <2>1, <2>3, AnswerWrites DEF pass
        <3> QED BY <2>2, <3>1, ResetMoves, OwnHandedOver
    <2>4. CASE p = Worker
        <3>1. AnswerPass(new, job)
            BY <2>1, <2>4, AnswerFlushes
        <3>2. /\ pc'[p] # "accepted"
              /\ \A q \in Txn \ {p} : pc'[q] = pc[q] /\ run'[q] = run[q]
              /\ jobs' = jobs /\ fresh' = fresh \cup {job}
            BY <2>2, <2>4, <3>1, BeginMoves DEF AnswerPass, table, TypeOK
        <3> QED BY <2>2, <3>2, OwnHandedOver
    <2> QED BY <2>3, <2>4
<1>12. ASSUME NEW p \in Handler \cup {Worker}, Reject(p) PROVE Goal
    <2>1. CASE p \in Handler
        BY <1>8, <1>12, <2>1, Apart DEF Reject, pass, Job
    <2>2. CASE p = Worker
        <3>1. /\ Begin(Worker, None, "listed") /\ UNCHANGED <<jobs, run>>
              /\ \A j \in fresh' : j \in fresh \/ j.run = None
            BY <1>12, <2>2, Apart DEF Reject, Job
        <3>2. \A q \in Txn : pc'[q] = "accepted" => pc[q] = "accepted"
            BY <3>1, BeginMoves, Apart
        <3> QED BY <3>1, <3>2, OwnSame
    <2> QED BY <2>1, <2>2
<1>13. ASSUME Lists PROVE Goal
    <2>1. UNCHANGED <<jobs, fresh, run>> /\ pc' \in {pc, [pc EXCEPT ![Worker] = "listed"]}
        BY <1>13 DEF Lists, StartPass, StartRetry, StartArchive, table
    <2>2. \A q \in Txn : pc'[q] = "accepted" => pc[q] = "accepted"
        BY <2>1, Apart DEF TypeOK
    <2> QED BY <2>1, <2>2, OwnSame
<1>14. ASSUME CommitPass PROVE Goal
    <2>1. Reset(Worker) /\ jobs' = jobs \cup fresh /\ fresh' = {}
        BY <1>14 DEF CommitPass, EndPass
    <2>2. \A q \in Txn : pc'[q] = "accepted" => pc[q] = "accepted" /\ run'[q] = run[q]
        BY <2>1, ResetMoves, Apart
    <2>3. \A q \in Txn : pc'[q] = "accepted" => outcome'[run'[q]] # "free"
        BY <2>2, OutcomeStays DEF Owned, RunsOwned, PlaceOK
    <2>4. \A q, t \in Txn : pc'[q] = "accepted" /\ Awaited(t, run[q])' => q = t
        BY <2>2 DEF Owned, RunsOwned, Awaited
    <2>5. \A q \in Txn : \A j \in jobs' \cup fresh' : Awaited(q, j.run)' => j.run = None
        BY <2>1, <2>2 DEF Owned, RunsOwned, Awaited
    <2>6. \A j \in jobs' \cup fresh' : j.run # None => outcome'[j.run] # "free"
        BY <2>1, OutcomeStays DEF Owned, RunsOwned, TypeOK, JobRow
    <2>7. \A j, k \in jobs' : j.run = k.run /\ j.run # None => j = k
        BY <2>1 DEF Owned, RunsOwned, OneJobPerRun
    <2> QED BY <2>1, <2>3, <2>4, <2>5, <2>6, <2>7 DEF RunsOwned, Awaited
<1>15. ASSUME TakeEvent PROVE Goal
    <2>1. UNCHANGED <<jobs, fresh, run>> /\ \E i : Begin(Subscriber, i, "applying")
        BY <1>15 DEF TakeEvent, table, pass
    <2>2. \A q \in Txn : pc'[q] = "accepted" => pc[q] = "accepted"
        BY <2>1, BeginMoves, Apart
    <2> QED BY <2>1, <2>2, OwnSame
<1>16. ASSUME ApplyEvent PROVE Goal
    <2>1. PICK j \in JobOf(evt.run) : Mark(j, evt.status)
        BY <1>16 DEF ApplyEvent
    <2> DEFINE marked == Job(j.item, evt.status, j.run)
    <2>2. /\ j \in jobs /\ marked.run = j.run /\ jobs' = (jobs \ {j}) \cup {marked}
          /\ fresh' = fresh /\ Reset(Subscriber)
        BY <1>16, <2>1 DEF ApplyEvent, Mark, JobOf, Job, pass
    <2> HIDE DEF marked
    <2>3. \A q \in Txn : pc'[q] = "accepted" => pc[q] = "accepted" /\ run'[q] = run[q]
        BY <2>2, ResetMoves, Apart
    <2>4. \A k \in jobs' : \E l \in jobs : l.run = k.run
        BY <2>2
    <2>5. \A q \in Txn : pc'[q] = "accepted" => outcome'[run'[q]] # "free"
        BY <2>3, OutcomeStays DEF Owned, RunsOwned, PlaceOK
    <2>6. \A q, t \in Txn : pc'[q] = "accepted" /\ Awaited(t, run[q])' => q = t
        BY <2>3 DEF Owned, RunsOwned, Awaited
    <2>7. \A q \in Txn : \A k \in jobs' \cup fresh' : Awaited(q, k.run)' => k.run = None
        BY <2>2, <2>3, <2>4 DEF Owned, RunsOwned, Awaited
    <2>8. \A k \in jobs' \cup fresh' : k.run # None => outcome'[k.run] # "free"
        <3>1. \A k \in jobs \cup fresh : k.run # None => outcome'[k.run] # "free"
            BY OutcomeStays DEF Owned, RunsOwned, TypeOK, JobRow
        <3> QED BY <2>2, <2>4, <3>1
    <2>9. /\ \A k, l \in fresh' : k.run = l.run /\ k.run # None => k = l
          /\ \A k \in jobs', l \in fresh' : k.run = l.run => k.run = None
          /\ \A k, l \in jobs' : k.run = l.run /\ k.run # None => k = l
        BY <2>2 DEF Owned, RunsOwned, OneJobPerRun
    <2> QED BY <2>5, <2>6, <2>7, <2>8, <2>9 DEF RunsOwned, Awaited
<1>17. ASSUME NEW p \in Txn, GivenUp(p) PROVE Goal
    <2>1. Reset(p) /\ jobs' = jobs /\ (fresh' = fresh \/ fresh' = {})
        BY <1>17 DEF GivenUp, Gone, EndPass, pass, table
    <2> QED BY <1>8, <2>1
<1> QED
    BY NextCases, <1>2, <1>3, <1>4, <1>5, <1>6, <1>7, <1>9, <1>10, <1>11, <1>12, <1>13,
       <1>14, <1>15, <1>16, <1>17

-----------------------------------------------------------------------------
(* The history: a step adds jobs or marks one.                             *)

LEMMA JobsGrow ==
    ASSUME PlaceOK, [Next]_vars
    PROVE  \/ jobs \subseteq jobs'
           \/ ApplyEvent
<1>1. ASSUME NEW i \in Item, NEW c \in MoveTo, NEW a \in GivenAgent, Create(i, c, a)
      PROVE  jobs \subseteq jobs'
    BY <1>1 DEF Create
<1>2. ASSUME NEW i \in Item, Delete(i) \/ DispatchUnknown(i) \/ PassSends(i) \/ Archive(i)
      PROVE  jobs \subseteq jobs'
    BY <1>2 DEF Delete, Remove, DispatchUnknown, PassSends, Archive, table
<1>3. ASSUME NEW h \in Handler, NEW i \in Item, LoadPatch(h, i) \/ BeginDispatch(h, i)
      PROVE  jobs \subseteq jobs'
    BY <1>3 DEF LoadPatch, BeginDispatch, table
<1>4. ASSUME NEW h \in Handler, ApplyPatch(h) PROVE jobs \subseteq jobs'
    BY <1>4 DEF ApplyPatch
<1>5. ASSUME NEW p \in Handler \cup {Worker}, Accept(p) \/ Reject(p) PROVE jobs \subseteq jobs'
    BY <1>5 DEF Accept, Reject, table
<1>6. ASSUME NEW p \in Handler \cup {Worker}, Answers(p) PROVE jobs \subseteq jobs'
    BY <1>6 DEF Answers, Online, Offline, Answer, AnswerRequest, AnswerPass, table
<1>7. ASSUME Lists \/ CommitPass \/ TakeEvent \/ Streams \/ UNCHANGED vars
      PROVE  jobs \subseteq jobs'
    BY <1>7 DEF Lists, StartPass, StartRetry, StartArchive, CommitPass, TakeEvent, Streams,
       IgnoreEvent, Disconnect, Reconnect, Report, vars, table
<1>8. ASSUME NEW p \in Txn, GivenUp(p) PROVE jobs \subseteq jobs'
    BY <1>8 DEF GivenUp, Gone, table
<1> QED BY NextCases, <1>1, <1>2, <1>3, <1>4, <1>5, <1>6, <1>7, <1>8

LEMMA JobsKept ==
    ASSUME PlaceOK, [Next]_vars, NEW j \in jobs
    PROVE  \E k \in jobs' : k.item = j.item /\ k.run = j.run
<1>1. CASE jobs \subseteq jobs'
    BY <1>1
<1>2. CASE ApplyEvent
    <2>1. PICK m \in JobOf(evt.run) : Mark(m, evt.status)
        BY <1>2 DEF ApplyEvent
    <2> DEFINE marked == Job(m.item, evt.status, m.run)
    <2>2. /\ jobs' = (jobs \ {m}) \cup {marked} /\ marked.item = m.item /\ marked.run = m.run
        BY <2>1 DEF Mark, Job
    <2> HIDE DEF marked
    <2>3. marked \in jobs' /\ (j # m => j \in jobs')
        BY <2>2
    <2> QED BY <2>2, <2>3
<1> QED BY <1>1, <1>2, JobsGrow

-----------------------------------------------------------------------------
(* What the stream and the subscriber know is true.                        *)

LEMMA EventStays ==
    ASSUME TypeOK, [Next]_vars, NEW e \in Event, EventTrue(e)
    PROVE  Bears(outcome', e)
<1>1. e.run \in Run /\ e.status \in EventStatus
    BY DEF Event
<1>2. outcome'[e.run] # "free"
    BY <1>1, OutcomeStays DEF EventTrue, Bears
<1>3. e.status # "running" => outcome'[e.run] = e.status
    BY <1>1, OutcomeStays DEF EventTrue, Bears, EventStatus
<1> QED BY <1>2, <1>3 DEF Bears

(* Only the subscriber touches its own transaction. *)
LEMMA SubscriberStays ==
    ASSUME TypeOK, PlaceOK, [Next]_vars, pc'[Subscriber] = "applying"
    PROVE  \/ TakeEvent
           \/ pc[Subscriber] = "applying" /\ at'[Subscriber] = at[Subscriber] /\ evt' = evt
<1> DEFINE Same == pc[Subscriber] = "applying" /\ at'[Subscriber] = at[Subscriber] /\ evt' = evt
<1>1. ASSUME NEW p \in Txn, p # Subscriber, Reset(p), UNCHANGED evt PROVE Same
    BY <1>1, ResetMoves, Apart
<1>2. ASSUME NEW p \in Txn, p # Subscriber, NEW i, NEW where, Begin(p, i, where), UNCHANGED evt
      PROVE  Same
    BY <1>2, BeginMoves, Apart
<1>3. ASSUME UNCHANGED <<pc, at, evt>> PROVE Same
    BY <1>3
<1>4. ASSUME NEW i \in Item, NEW c \in MoveTo, NEW a \in GivenAgent, Create(i, c, a)
      PROVE  Same
    BY <1>3, <1>4 DEF Create, session
<1>5. ASSUME NEW i \in Item, Delete(i) \/ DispatchUnknown(i) \/ Archive(i) PROVE Same
    BY <1>3, <1>5 DEF Delete, DispatchUnknown, Archive, session
<1>6. ASSUME NEW i \in Item, PassSends(i) PROVE Same
    BY <1>2, <1>3, <1>6, Apart DEF PassSends
<1>7. ASSUME NEW h \in Handler, NEW i \in Item, LoadPatch(h, i) \/ BeginDispatch(h, i)
      PROVE  Same
    BY <1>2, <1>7, Apart DEF LoadPatch, BeginDispatch
<1>8. ASSUME NEW h \in Handler, ApplyPatch(h) PROVE Same
    BY <1>1, <1>8, Apart DEF ApplyPatch
<1>9. ASSUME NEW p \in Handler \cup {Worker}, Accept(p) PROVE Same
    BY <1>9, Apart DEF Accept, TypeOK
<1>10. ASSUME NEW p \in Handler \cup {Worker}, Answers(p) PROVE Same
    <2>1. PICK new, job : Answered(p, new, job)
        BY <1>10, AnswersWrite
    <2>2. Answer(p, new, job)
        BY <2>1 DEF Answered
    <2> QED BY <1>1, <1>2, <2>2, Apart DEF Answer, AnswerRequest, AnswerPass
<1>11. ASSUME NEW p \in Handler \cup {Worker}, Reject(p) PROVE Same
    BY <1>1, <1>2, <1>11, Apart DEF Reject
<1>12. ASSUME Lists PROVE Same
    BY <1>12, Apart DEF Lists, StartPass, StartRetry, StartArchive, TypeOK
<1>13. ASSUME CommitPass PROVE Same
    BY <1>1, <1>13, Apart DEF CommitPass
<1>14. ASSUME ApplyEvent PROVE FALSE
    BY <1>14, ResetMoves, Apart DEF ApplyEvent
<1>15. ASSUME Streams \/ UNCHANGED vars PROVE Same
    BY <1>3, <1>15 DEF Streams, IgnoreEvent, Disconnect, Reconnect, Report, vars, session
<1>16. ASSUME NEW p \in Txn, GivenUp(p) PROVE Same
    BY <1>1, <1>16, ResetMoves, Apart DEF GivenUp, Gone
<1> QED
    BY NextCases, <1>4, <1>5, <1>6, <1>7, <1>8, <1>9, <1>10, <1>11, <1>12, <1>13, <1>14,
       <1>15, <1>16

LEMMA StreamStays ==
    ASSUME PlaceOK, [Next]_vars
    PROVE  UNCHANGED stream \/ Streams \/ TakeEvent
<1>1. ASSUME NEW i \in Item, NEW c \in MoveTo, NEW a \in GivenAgent, Create(i, c, a)
      PROVE  UNCHANGED stream
    BY <1>1 DEF Create, gateway
<1>2. ASSUME NEW i \in Item, Delete(i) \/ DispatchUnknown(i) \/ PassSends(i) \/ Archive(i)
      PROVE  UNCHANGED stream
    BY <1>2 DEF Delete, DispatchUnknown, PassSends, Archive, gateway
<1>3. ASSUME NEW h \in Handler, NEW i \in Item, LoadPatch(h, i) \/ BeginDispatch(h, i)
      PROVE  UNCHANGED stream
    BY <1>3 DEF LoadPatch, BeginDispatch, gateway
<1>4. ASSUME NEW h \in Handler, ApplyPatch(h) PROVE UNCHANGED stream
    BY <1>4 DEF ApplyPatch, gateway
<1>5. ASSUME NEW p \in Handler \cup {Worker}, Accept(p) \/ Answers(p) \/ Reject(p)
      PROVE  UNCHANGED stream
    BY <1>5 DEF Accept, Answers, Online, Offline, Answer, Reject, gateway
<1>6. ASSUME Lists \/ CommitPass \/ ApplyEvent \/ UNCHANGED vars PROVE UNCHANGED stream
    BY <1>6 DEF Lists, StartPass, StartRetry, StartArchive, CommitPass, ApplyEvent, vars,
       gateway
<1>7. ASSUME NEW p \in Txn, GivenUp(p) PROVE UNCHANGED stream
    BY <1>7 DEF GivenUp, Gone, gateway
<1> QED BY NextCases, <1>1, <1>2, <1>3, <1>4, <1>5, <1>6, <1>7

(* The entries of a stream that loses its head or gets one more event. *)
LEMMA StreamEntries ==
    ASSUME stream \in Seq(Event)
    PROVE  /\ \A n \in 1 .. Len(stream) : stream[n] \in Event
           /\ stream # <<>> =>
                /\ Head(stream) = stream[1] /\ Len(stream) >= 1
                /\ \A n \in 1 .. Len(Tail(stream)) :
                     n + 1 \in 1 .. Len(stream) /\ Tail(stream)[n] = stream[n + 1]
           /\ \A e \in Event : \A n \in 1 .. Len(Append(stream, e)) :
                \/ Append(stream, e)[n] = e
                \/ n \in 1 .. Len(stream) /\ Append(stream, e)[n] = stream[n]
OBVIOUS

LEMMA EventsInit == Init => EventsTrue
BY Apart DEF Init, EventsTrue

LEMMA EventsStep ==
    ASSUME TypeOK, PlaceOK, EventsTrue, [Next]_vars
    PROVE  EventsTrue'
<1>1. stream \in Seq(Event)
    BY DEF TypeOK
<1>2. \A n \in 1 .. Len(stream) : Bears(outcome', stream[n])
    BY <1>1, StreamEntries, EventStays DEF EventsTrue
<1>3. ASSUME stream # <<>>, stream' = Tail(stream)
      PROVE  \A n \in 1 .. Len(stream') : Bears(outcome', stream'[n])
    BY <1>1, <1>2, <1>3, StreamEntries
<1>4. ASSUME stream' = stream \/ stream' = <<>>
      PROVE  \A n \in 1 .. Len(stream') : Bears(outcome', stream'[n])
    BY <1>2, <1>4
<1>5. ASSUME NEW r \in Run, NEW s \in Source, NEW st \in EventStatus, Report(r, s, st)
      PROVE  \A n \in 1 .. Len(stream') : Bears(outcome', stream'[n])
    <2> DEFINE e == [run |-> r, status |-> st]
    <2>1. e \in Event /\ e.run = r /\ e.status = st
        BY DEF Event
    <2>2. outcome[r] # "free" /\ outcome' = [outcome EXCEPT ![r] = IF st = "running" THEN @ ELSE st]
        BY <1>5 DEF Report
    <2>3. outcome'[r] # "free" /\ (st # "running" => outcome'[r] = st)
        BY <2>2 DEF TypeOK, EventStatus
    <2>4. stream' = stream \/ stream' = Append(stream, e)
        BY <1>5 DEF Report
    <2> HIDE DEF e
    <2>5. CASE stream' = Append(stream, e)
        BY <1>1, <1>2, <2>1, <2>3, <2>5, StreamEntries DEF Bears
    <2> QED BY <1>4, <2>4, <2>5
<1>6. \A n \in 1 .. Len(stream') : Bears(outcome', stream'[n])
    <2>1. CASE Streams
        BY <1>3, <1>4, <1>5, <2>1 DEF Streams, IgnoreEvent, Disconnect, Reconnect
    <2>2. CASE TakeEvent
        BY <1>3, <2>2 DEF TakeEvent
    <2> QED BY <1>4, <2>1, <2>2, StreamStays
<1>7. ASSUME pc'[Subscriber] = "applying"
      PROVE  /\ evt' \in Event /\ Bears(outcome', evt')
             /\ \E k \in jobs' : k.run = evt'.run /\ k.item = at'[Subscriber]
    <2>1. CASE TakeEvent
        <3>1. evt' = Head(stream) /\ stream # <<>> /\ UNCHANGED jobs
            BY <2>1 DEF TakeEvent, table
        <3>2. Head(stream) = stream[1] /\ 1 \in 1 .. Len(stream) /\ stream[1] \in Event
            BY <1>1, <3>1, StreamEntries
        <3>3. Bears(outcome', stream[1])
            BY <1>2, <3>2
        <3>4. PICK j \in JobOf(Head(stream).run) : Begin(Subscriber, j.item, "applying")
            BY <2>1 DEF TakeEvent
        <3>5. at'[Subscriber] = j.item
            BY <3>4, BeginMoves, Apart
        <3> QED BY <3>1, <3>2, <3>3, <3>4, <3>5 DEF JobOf
    <2>2. CASE pc[Subscriber] = "applying" /\ at'[Subscriber] = at[Subscriber] /\ evt' = evt
        <3>1. evt \in Event /\ EventTrue(evt)
            BY <2>2 DEF EventsTrue
        <3>2. PICK j \in jobs : j.run = evt.run /\ j.item = at[Subscriber]
            BY <2>2 DEF EventsTrue, JobOf
        <3>3. \E k \in jobs' : k.item = j.item /\ k.run = j.run
            BY JobsKept
        <3>4. Bears(outcome', evt)
            BY <3>1, EventStays
        <3> QED BY <2>2, <3>1, <3>2, <3>3, <3>4
    <2> QED BY <1>7, <2>1, <2>2, SubscriberStays
<1> QED BY <1>6, <1>7 DEF EventsTrue, EventTrue, JobOf

-----------------------------------------------------------------------------
(* What the worker has written and not committed.                          *)

(* What a step does with it. *)
LEMMA WorkerMoves ==
    ASSUME TypeOK, PlaceOK, [Next]_vars
    PROVE  \/ /\ UNCHANGED dirty /\ work'[Worker] = work[Worker]
              /\ \/ fresh' = fresh
                 \/ \E i \in Item : fresh' = fresh \cup {Job(i, "failed", None)}
           \/ \E new, job : Answered(Worker, new, job)
           \/ Lists
           \/ \E i \in Item : Archive(i)
           \/ dirty' = Clean /\ fresh' = {}
<1> DEFINE Kept ==
        /\ UNCHANGED dirty /\ work'[Worker] = work[Worker]
        /\ \/ fresh' = fresh
           \/ \E i \in Item : fresh' = fresh \cup {Job(i, "failed", None)}
<1>1. ASSUME UNCHANGED <<dirty, fresh, work>> PROVE Kept
    BY <1>1
<1>2. ASSUME NEW p \in Txn, p # Worker, Reset(p), UNCHANGED <<dirty, fresh>> PROVE Kept
    BY <1>2, ResetMoves, Apart
<1>3. ASSUME NEW i \in Item, NEW c \in MoveTo, NEW a \in GivenAgent, Create(i, c, a)
      PROVE  Kept
    BY <1>1, <1>3 DEF Create, session, pass
<1>4. ASSUME NEW i \in Item, Delete(i) \/ DispatchUnknown(i) PROVE Kept
    BY <1>1, <1>4 DEF Delete, DispatchUnknown, session, pass
<1>5. ASSUME NEW i \in Item, PassSends(i) PROVE Kept
    BY <1>5 DEF PassSends
<1>6. ASSUME NEW h \in Handler, NEW i \in Item, LoadPatch(h, i) \/ BeginDispatch(h, i)
      PROVE  Kept
    <2>1. h \in Txn /\ h # Worker /\ Load(h, i) /\ UNCHANGED <<dirty, fresh>>
        BY <1>6, Apart DEF LoadPatch, BeginDispatch, pass
    <2> QED BY <2>1, LoadMoves, Apart
<1>7. ASSUME NEW h \in Handler, ApplyPatch(h) PROVE Kept
    BY <1>2, <1>7, Apart DEF ApplyPatch, pass
<1>8. ASSUME NEW p \in Handler \cup {Worker}, Accept(p) PROVE Kept
    BY <1>1, <1>8 DEF Accept, pass
<1>9. ASSUME NEW p \in Handler \cup {Worker}, Answers(p)
      PROVE  Kept \/ \E new, job : Answered(Worker, new, job)
    <2>1. PICK new, job : Answered(p, new, job)
        BY <1>9, AnswersWrite
    <2>2. CASE p \in Handler
        <3>1. Answer(p, new, job) /\ p \in Txn /\ p # Worker
            BY <2>1, <2>2, Apart DEF Answered
        <3> QED BY <1>2, <3>1 DEF Answer, AnswerRequest, pass
    <2> QED BY <2>1, <2>2
<1>10. ASSUME NEW p \in Handler \cup {Worker}, Reject(p) PROVE Kept
    <2>1. CASE p \in Handler
        BY <1>2, <1>10, <2>1, Apart DEF Reject, pass
    <2>2. CASE p = Worker
        BY <1>10, <2>2, Apart DEF Reject, PlaceOK
    <2> QED BY <2>1, <2>2
<1>11. ASSUME CommitPass PROVE dirty' = Clean /\ fresh' = {}
    BY <1>11 DEF CommitPass, EndPass
<1>12. ASSUME TakeEvent PROVE Kept
    <2>1. PICK j \in JobOf(Head(stream).run) : Load(Subscriber, j.item)
        BY <1>12 DEF TakeEvent
    <2>2. j.item \in Item /\ UNCHANGED <<dirty, fresh>>
        BY <1>12, <2>1 DEF TakeEvent, JobOf, TypeOK, JobRow, pass
    <2> QED BY <2>1, <2>2, LoadMoves, Apart
<1>13. ASSUME ApplyEvent PROVE Kept
    BY <1>2, <1>13, Apart DEF ApplyEvent, pass
<1>14. ASSUME Streams \/ UNCHANGED vars PROVE Kept
    BY <1>1, <1>14 DEF Streams, IgnoreEvent, Disconnect, Reconnect, Report, vars, session, pass
<1>15. ASSUME NEW p \in Txn, GivenUp(p) PROVE Kept \/ (dirty' = Clean /\ fresh' = {})
    BY <1>2, <1>15 DEF GivenUp, Gone, EndPass, pass
<1> HIDE DEF Kept
<1>16. \/ Kept \/ (\E new, job : Answered(Worker, new, job)) \/ Lists
       \/ (\E i \in Item : Archive(i)) \/ (dirty' = Clean /\ fresh' = {})
    BY NextCases, <1>3, <1>4, <1>5, <1>6, <1>7, <1>8, <1>9, <1>10, <1>11, <1>12, <1>13,
       <1>14, <1>15
<1> QED BY <1>16 DEF Kept

LEMMA FreshInit == Init => FreshTrue
BY DEF Init, FreshTrue

LEMMA FreshStep ==
    ASSUME TypeOK, PlaceOK, FreshTrue, [Next]_vars
    PROVE  FreshTrue'
<1>1. ASSUME fresh' \subseteq fresh PROVE FreshTrue'
    BY <1>1 DEF FreshTrue
<1>2. ASSUME NEW i \in Item, fresh' = fresh \cup {Job(i, "failed", None)} PROVE FreshTrue'
    BY <1>2 DEF FreshTrue, Job
<1>3. ASSUME NEW new, NEW job, Answered(Worker, new, job) PROVE FreshTrue'
    <2>1. fresh' = fresh \cup {job}
        BY <1>3, AnswerFlushes DEF AnswerPass
    <2>2. IF job.run = None THEN job.status = "pending" ELSE job.status = "dispatched"
        BY <1>3, Apart DEF Answered, PlaceOK
    <2> QED BY <2>1, <2>2 DEF FreshTrue
<1>4. ASSUME NEW i \in Item, Archive(i) PROVE FreshTrue'
    BY <1>1, <1>4 DEF Archive
<1>5. ASSUME Lists PROVE FreshTrue'
    BY <1>1, <1>5 DEF Lists, StartPass, StartRetry, StartArchive
<1> QED BY <1>1, <1>2, <1>3, <1>4, <1>5, WorkerMoves

LEMMA FlushedInit == Init => FlushedTrue
BY DEF Init, FlushedTrue, Clean

LEMMA FlushedStep ==
    ASSUME TypeOK, PlaceOK, ItemsStay, FlushedTrue, [Next]_vars
    PROVE  FlushedTrue'
<1> DEFINE Flushed(i) ==
        /\ "session" \in dirty'[i] =>
             \/ work'[Worker][i].session = None
             \/ \E j \in fresh' : j.item = i /\ j.run = work'[Worker][i].session
        /\ "status" \in dirty'[i] => work'[Worker][i].status \in {"running", "pending"}
<1>1. ASSUME NEW i \in Item, fresh \subseteq fresh', dirty'[i] = dirty[i],
             "session" \in dirty[i] => work'[Worker][i].session = work[Worker][i].session,
             "status" \in dirty[i] => work'[Worker][i].status = work[Worker][i].status
      PROVE  Flushed(i)
    BY <1>1 DEF FlushedTrue
<1>2. ASSUME UNCHANGED dirty, work'[Worker] = work[Worker], fresh \subseteq fresh',
             NEW i \in Item
      PROVE  Flushed(i)
    BY <1>1, <1>2
<1>3. ASSUME NEW new, NEW job, Answered(Worker, new, job), NEW i \in Item PROVE Flushed(i)
    <2>1. Flush(at[Worker], new) /\ fresh' = fresh \cup {job} /\ at[Worker] \in Item
        BY <1>3, AnswerFlushes, Apart DEF AnswerPass, Answered, Sent, PlaceOK
    <2>2. CASE i # at[Worker]
        BY <1>1, <2>1, <2>2, FlushMoves
    <2>3. CASE i = at[Worker]
        <3>1. work'[Worker][i] = new
            BY <2>1, <2>3, FlushMoves
        <3>2. job.item = i /\ job.run = new.session /\ new.status \in {"running", "pending"}
            BY <1>3, <2>3 DEF Answered
        <3> QED BY <2>1, <3>1, <3>2
    <2> QED BY <2>2, <2>3
<1>4. ASSUME NEW k \in Item, Archive(k), NEW i \in Item PROVE Flushed(i)
    <2> DEFINE new == [work[Worker][k] EXCEPT !.column = "parked"]
    <2>1. Flush(k, new) /\ fresh' = fresh /\ work[Worker][k] \in Row
        BY <1>4 DEF Archive, ArchiveCandidates
    <2>2. new.session = work[Worker][k].session /\ new.status = work[Worker][k].status
        BY <2>1 DEF Row
    <2> HIDE DEF new
    <2>3. CASE i # k
        BY <1>1, <2>1, <2>3, FlushMoves
    <2>4. CASE i = k
        <3>1. "session" \notin Differs(work[Worker][k], new)
              /\ "status" \notin Differs(work[Worker][k], new)
            BY <2>2 DEF Differs
        <3>2. work'[Worker][i] = new
              /\ ("session" \in dirty'[i] => "session" \in dirty[i])
              /\ ("status" \in dirty'[i] => "status" \in dirty[i])
            BY <2>1, <2>4, <3>1, FlushMoves
        <3> QED BY <2>1, <2>2, <2>4, <3>2 DEF FlushedTrue
    <2> QED BY <2>3, <2>4
<1>5. ASSUME Lists, NEW i \in Item PROVE Flushed(i)
    <2>1. UNCHANGED <<dirty, fresh>> /\ work' = [work EXCEPT ![Worker] = Listed]
        BY <1>5 DEF Lists, StartPass, StartRetry, StartArchive, Enter
    <2>2. work'[Worker] = Listed
        BY <2>1, Apart DEF TypeOK
    <2>3. "session" \in dirty[i] => Listed[i].session = work[Worker][i].session
        BY ListedRows, OverlayRow
    <2>4. "status" \in dirty[i] => Listed[i].status = work[Worker][i].status
        BY ListedRows, OverlayRow
    <2> QED BY <1>1, <2>1, <2>2, <2>3, <2>4
<1>6. ASSUME dirty' = Clean, NEW i \in Item PROVE Flushed(i)
    BY <1>6 DEF Clean
<1>7. ASSUME NEW i \in Item PROVE Flushed(i)
    BY <1>2, <1>3, <1>4, <1>5, <1>6, WorkerMoves
<1> QED BY <1>7 DEF FlushedTrue

LEMMA LocksInit == Init => LocksEnd
BY DEF Init, LocksEnd

LEMMA LocksStep ==
    ASSUME TypeOK, PlaceOK, LocksEnd, [Next]_vars
    PROVE  LocksEnd'
<1>1. ASSUME UNCHANGED dirty, pc'[Worker] = "idle" => pc[Worker] = "idle" PROVE LocksEnd'
    BY <1>1 DEF LocksEnd, Clean
<1>2. ASSUME pc'[Worker] # "idle" PROVE LocksEnd'
    BY <1>2 DEF LocksEnd
<1>3. ASSUME UNCHANGED <<pc, dirty>> PROVE LocksEnd'
    BY <1>1, <1>3
<1>4. ASSUME NEW p \in Txn, p # Worker, Reset(p), UNCHANGED dirty PROVE LocksEnd'
    BY <1>1, <1>4, ResetMoves, Apart
<1>5. ASSUME NEW i \in Item, NEW c \in MoveTo, NEW a \in GivenAgent, Create(i, c, a)
      PROVE  LocksEnd'
    BY <1>3, <1>5 DEF Create, session, pass
<1>6. ASSUME NEW i \in Item, Delete(i) \/ DispatchUnknown(i) PROVE LocksEnd'
    BY <1>3, <1>6 DEF Delete, DispatchUnknown, session, pass
<1>7. ASSUME NEW i \in Item, PassSends(i) PROVE LocksEnd'
    <2>1. CASE Begin(Worker, i, "sending")
        BY <1>2, <2>1, BeginMoves, Apart
    <2>2. CASE UNCHANGED <<pc, at>>
        BY <1>3, <1>7, <2>2 DEF PassSends
    <2> QED BY <1>7, <2>1, <2>2 DEF PassSends
<1>8. ASSUME NEW i \in Item, Archive(i) PROVE LocksEnd'
    BY <1>2, <1>8 DEF Archive
<1>9. ASSUME NEW h \in Handler, NEW i \in Item, LoadPatch(h, i) \/ BeginDispatch(h, i)
      PROVE  LocksEnd'
    <2>1. UNCHANGED dirty /\ \E where : Begin(h, i, where)
        BY <1>9 DEF LoadPatch, BeginDispatch, pass
    <2> QED BY <1>1, <2>1, BeginMoves, Apart
<1>10. ASSUME NEW h \in Handler, ApplyPatch(h) PROVE LocksEnd'
    BY <1>4, <1>10, Apart DEF ApplyPatch, pass
<1>11. ASSUME NEW p \in Handler \cup {Worker}, Accept(p) PROVE LocksEnd'
    <2>1. UNCHANGED dirty /\ (pc'[Worker] = "idle" => pc[Worker] = "idle")
        BY <1>11, Apart DEF Accept, pass, TypeOK
    <2> QED BY <1>1, <2>1
<1>12. ASSUME NEW p \in Handler \cup {Worker}, Answers(p) PROVE LocksEnd'
    <2>1. PICK new, job : Answer(p, new, job)
        BY <1>12, AnswersWrite DEF Answered
    <2>2. CASE p \in Handler /\ AnswerRequest(p, new, job)
        BY <1>4, <2>2, Apart DEF AnswerRequest, pass
    <2>3. CASE AnswerPass(new, job)
        BY <1>2, <2>3, BeginMoves, Apart DEF AnswerPass
    <2> QED BY <2>1, <2>2, <2>3 DEF Answer
<1>13. ASSUME NEW p \in Handler \cup {Worker}, Reject(p) PROVE LocksEnd'
    <2>1. CASE p \in Handler /\ Reset(p) /\ UNCHANGED pass
        BY <1>4, <2>1, Apart DEF pass
    <2>2. CASE Begin(Worker, None, "listed")
        BY <1>2, <2>2, BeginMoves, Apart
    <2> QED BY <1>13, <2>1, <2>2 DEF Reject
<1>14. ASSUME Lists PROVE LocksEnd'
    <2>1. pc'[Worker] = "listed"
        BY <1>14, Apart DEF Lists, StartPass, StartRetry, StartArchive, TypeOK
    <2> QED BY <1>2, <2>1
<1>15. ASSUME dirty' = Clean PROVE LocksEnd'
    BY <1>15 DEF LocksEnd, Clean
<1>16. ASSUME CommitPass PROVE LocksEnd'
    BY <1>15, <1>16 DEF CommitPass, EndPass
<1>17. ASSUME TakeEvent PROVE LocksEnd'
    <2>1. UNCHANGED dirty /\ \E i : Begin(Subscriber, i, "applying")
        BY <1>17 DEF TakeEvent, pass
    <2> QED BY <1>1, <2>1, BeginMoves, Apart
<1>18. ASSUME ApplyEvent PROVE LocksEnd'
    BY <1>4, <1>18, Apart DEF ApplyEvent, pass
<1>19. ASSUME Streams \/ UNCHANGED vars PROVE LocksEnd'
    BY <1>3, <1>19 DEF Streams, IgnoreEvent, Disconnect, Reconnect, Report, vars, session, pass
<1>20. ASSUME NEW p \in Txn, GivenUp(p) PROVE LocksEnd'
    BY <1>4, <1>15, <1>20 DEF GivenUp, Gone, EndPass, pass
<1> QED
    BY NextCases, <1>5, <1>6, <1>7, <1>8, <1>9, <1>10, <1>11, <1>12, <1>13, <1>14, <1>16,
       <1>17, <1>18, <1>19, <1>20

-----------------------------------------------------------------------------
(* What a step leaves in the tables.                                       *)

Committed == Shape /\ ItemsStay /\ EventsTrue /\ FreshTrue /\ FlushedTrue

(* A row keeps its session or takes that of a job, and becomes done only   *)
(* by a run that has completed, unless a PATCH says otherwise.             *)
LEMMA RowMoves ==
    ASSUME Committed, [Next]_vars, NEW i \in Item, items'[i] \in Row
    PROVE  /\ \/ Exists(i) /\ items'[i].session = items[i].session /\ Keeps(i, "session")
              \/ items'[i].session = None \/ "session" \in given'[i]
              \/ \E j \in jobs' : j.item = i /\ j.run = items'[i].session
           /\ \/ Exists(i) /\ items'[i].status = items[i].status /\ Keeps(i, "status")
              \/ items'[i].status # "done" \/ "status" \in given'[i]
              \/ \E j \in jobs' : j.item = i /\ j.run # None /\ outcome'[j.run] = "completed"
<1> USE DEF Committed, Shape
<1> DEFINE Session ==
              \/ Exists(i) /\ items'[i].session = items[i].session /\ Keeps(i, "session")
              \/ items'[i].session = None \/ "session" \in given'[i]
              \/ \E j \in jobs' : j.item = i /\ j.run = items'[i].session
           Status ==
              \/ Exists(i) /\ items'[i].status = items[i].status /\ Keeps(i, "status")
              \/ items'[i].status # "done" \/ "status" \in given'[i]
              \/ \E j \in jobs' : j.item = i /\ j.run # None /\ outcome'[j.run] = "completed"
<1>1. ASSUME items'[i] = items[i], given'[i] = given[i] PROVE Session /\ Status
    BY <1>1, Born DEF Keeps
<1>2. ASSUME UNCHANGED <<items, given>> PROVE Session /\ Status
    BY <1>1, <1>2
<1>3. ASSUME NEW k \in Item, NEW row, items' = [items EXCEPT ![k] = row],
             \A m \in Item : m # k => given'[m] = given[m]
      PROVE  (i # k => Session /\ Status) /\ (i = k => items'[i] = row)
    BY <1>1, <1>3 DEF TypeOK
<1>4. ASSUME NEW k \in Item, NEW c \in MoveTo, NEW a \in GivenAgent, Create(k, c, a)
      PROVE  Session /\ Status
    <2> DEFINE row == [column |-> c, session |-> None, status |-> "none", agent |-> a]
    <2>1. /\ items' = [items EXCEPT ![k] = row] /\ row.session = None /\ row.status = "none"
          /\ UNCHANGED given
        BY <1>4 DEF Create
    <2> HIDE DEF row
    <2> QED BY <1>3, <2>1
<1>5. ASSUME NEW k \in Item, Delete(k) PROVE Session /\ Status
    <2>1. items' = [items EXCEPT ![k] = Deleted] /\ UNCHANGED given
        BY <1>5 DEF Delete, Remove
    <2> QED BY <1>3, <2>1, Apart
<1>6. ASSUME NEW h \in Handler, ApplyPatch(h) PROVE Session /\ Status
    <2>1. PICK row : /\ Rewritten(at[h], row)
                     /\ \/ row.session = items[at[h]].session /\ Keeps(at[h], "session")
                        \/ "session" \in given'[at[h]]
                     /\ \/ row.status = items[at[h]].status /\ Keeps(at[h], "status")
                        \/ row.status # "done" \/ "status" \in given'[at[h]]
        BY <1>6, ApplyPatchWrites
    <2>2. PICK k \in Item : /\ k = at[h] /\ items[k] \in Row /\ items' = [items EXCEPT ![k] = row]
                            /\ \A m \in Item : m # k => given'[m] = given[m]
        BY <2>1 DEF Rewritten
    <2>3. CASE i = k
        BY <1>3, <2>1, <2>2, <2>3, Born
    <2> QED BY <1>3, <2>2, <2>3
<1>7. ASSUME NEW p \in Handler \cup {Worker}, Answers(p) PROVE Session /\ Status
    <2>1. PICK new, job : Answered(p, new, job)
        BY <1>7, AnswersWrite
    <2>2. CASE p = Worker
        BY <1>2, <2>1, <2>2, AnswerFlushes DEF AnswerPass, table
    <2>3. CASE p \in Handler
        <3>1. PICK row : Updated(at[p], row, work[p][at[p]], new, {})
            BY <2>1, <2>3, AnswerWrites
        <3>2. jobs' = jobs \cup {job}
            BY <2>1, <2>3, AnswerWrites
        <3>3. PICK k \in Item : k = at[p] /\ items[k] \in Row
                                /\ items' = [items EXCEPT ![k] = row]
                                /\ \A m \in Item : m # k => given'[m] = given[m]
            BY <3>1 DEF Updated, Rewritten
        <3>4. /\ \/ row.session = items[k].session /\ Keeps(k, "session")
                 \/ row.session = new.session
              /\ \/ row.status = items[k].status /\ Keeps(k, "status")
                 \/ row.status = new.status
            BY <3>1, <3>3 DEF Updated
        <3>5. job.item = k /\ job.run = new.session /\ new.status # "done"
            BY <2>1, <3>3 DEF Answered
        <3>6. CASE i = k
            <4>1. items'[i] = row /\ Exists(i)
                BY <1>3, <3>3, <3>6, Born
            <4>2. Session
                BY <3>2, <3>4, <3>5, <3>6, <4>1
            <4>3. Status
                BY <3>4, <3>5, <3>6, <4>1
            <4> QED BY <4>2, <4>3
        <3> QED BY <1>3, <3>3, <3>6
    <2> QED BY <2>2, <2>3
<1>8. ASSUME CommitPass PROVE Session /\ Status
    <2>1. /\ items' = Listed /\ jobs' = jobs \cup fresh
          /\ given'[i] = given[i] \ dirty[i]
        BY <1>8 DEF CommitPass
    <2>2. CASE dirty[i] = {}
        BY <1>1, <2>1, <2>2, ListedRows
    <2>3. CASE dirty[i] # {}
        <3> DEFINE mine == work[Worker][i]
        <3>1. /\ items[i] \in Row /\ mine \in Row
              /\ items'[i] = Overlay(items[i], mine, dirty[i]) /\ Exists(i)
            BY <2>1, <2>3, ListedRows, Born
        <3>2. /\ items'[i].session = IF "session" \in dirty[i] THEN mine.session
                                     ELSE items[i].session
              /\ items'[i].status = IF "status" \in dirty[i] THEN mine.status
                                    ELSE items[i].status
            BY <3>1, OverlayRow
        <3>3. /\ "session" \in dirty[i] => \/ mine.session = None
                                           \/ \E j \in fresh : j.item = i /\ j.run = mine.session
              /\ "status" \in dirty[i] => mine.status \in {"running", "pending"}
            BY DEF FlushedTrue
        <3> HIDE DEF mine
        <3>4. Session
            BY <2>1, <3>1, <3>2, <3>3 DEF Keeps
        <3>5. Status
            BY <2>1, <3>1, <3>2, <3>3 DEF Keeps
        <3> QED BY <3>4, <3>5
    <2> QED BY <2>2, <2>3
<1>9. ASSUME ApplyEvent PROVE Session /\ Status
    <2>1. CASE UNCHANGED <<items, given>>
        BY <1>2, <2>1
    <2>2. CASE ~ UNCHANGED <<items, given>>
        <3>1. PICK row : /\ Rewritten(at[Subscriber], row)
                         /\ row.session = items[at[Subscriber]].session
                         /\ Keeps(at[Subscriber], "session")
                         /\ \/ /\ row.status = items[at[Subscriber]].status
                               /\ Keeps(at[Subscriber], "status")
                            \/ row.status = "done" <=> evt.status = "completed"
            BY <1>9, <2>2, ApplyEventWrites
        <3>2. PICK k \in Item : k = at[Subscriber] /\ items[k] \in Row
                                /\ items' = [items EXCEPT ![k] = row]
                                /\ \A m \in Item : m # k => given'[m] = given[m]
            BY <3>1 DEF Rewritten
        <3>3. /\ evt \in Event /\ EventTrue(evt)
              /\ \E j \in jobs : j.run = evt.run /\ j.item = k
            BY <1>9, <3>2 DEF ApplyEvent, EventsTrue, JobOf
        <3>4. PICK j \in jobs' : j.run = evt.run /\ j.item = k
            BY <3>3, JobsKept
        <3>5. evt.run # None /\ Bears(outcome', evt)
            BY <3>3, EventStays, Apart DEF Event
        <3>6. CASE i = k
            <4>1. items'[i] = row /\ Exists(i)
                BY <1>3, <3>2, <3>6, Born
            <4>2. Session
                BY <3>1, <3>2, <3>6, <4>1
            <4>3. Status
                BY <3>1, <3>2, <3>4, <3>5, <3>6, <4>1 DEF Bears
            <4> QED BY <4>2, <4>3
        <3> QED BY <1>3, <3>2, <3>6
    <2> QED BY <2>1, <2>2
<1>10. ASSUME NEW k \in Item, DispatchUnknown(k) \/ PassSends(k) \/ Archive(k)
       PROVE  Session /\ Status
    BY <1>2, <1>10 DEF DispatchUnknown, PassSends, Archive, table
<1>11. ASSUME NEW h \in Handler, NEW k \in Item, LoadPatch(h, k) \/ BeginDispatch(h, k)
       PROVE  Session /\ Status
    BY <1>2, <1>11 DEF LoadPatch, BeginDispatch, table
<1>12. ASSUME NEW p \in Handler \cup {Worker}, Accept(p) \/ Reject(p) PROVE Session /\ Status
    BY <1>2, <1>12 DEF Accept, Reject, table
<1>13. ASSUME Lists \/ TakeEvent \/ Streams \/ UNCHANGED vars PROVE Session /\ Status
    BY <1>2, <1>13 DEF Lists, StartPass, StartRetry, StartArchive, TakeEvent, Streams,
       IgnoreEvent, Disconnect, Reconnect, Report, vars, table
<1>14. ASSUME NEW p \in Txn, GivenUp(p) PROVE Session /\ Status
    BY <1>2, <1>14 DEF GivenUp, Gone, table
<1> QED
    BY NextCases, <1>4, <1>5, <1>6, <1>7, <1>8, <1>9, <1>10, <1>11, <1>12, <1>13, <1>14

(* A job is an old one, what a dispatch leaves, or what an event says. *)
Says(j) ==
    IF j.run = None THEN j.status \in {"pending", "failed"}
    ELSE \/ j.status = "dispatched"
         \/ evt \in Event /\ EventTrue(evt) /\ j.run = evt.run /\ j.status = evt.status

LEMMA JobMoves ==
    ASSUME Committed, [Next]_vars, NEW j \in jobs'
    PROVE  j \in jobs \/ Says(j)
<1> USE DEF Committed, Shape
<1>1. ASSUME NEW i, jobs' = jobs \cup {Job(i, "failed", None)} PROVE j \in jobs \/ Says(j)
    BY <1>1 DEF Says, Job
<1>2. ASSUME NEW i \in Item, NEW c \in MoveTo, NEW a \in GivenAgent, Create(i, c, a)
      PROVE  j \in jobs
    BY <1>2 DEF Create
<1>3. ASSUME NEW i \in Item, Delete(i) \/ PassSends(i) \/ Archive(i) PROVE j \in jobs
    BY <1>3 DEF Delete, Remove, PassSends, Archive, table
<1>4. ASSUME NEW i \in Item, DispatchUnknown(i) PROVE j \in jobs \/ Says(j)
    BY <1>1, <1>4 DEF DispatchUnknown
<1>5. ASSUME NEW h \in Handler, NEW i \in Item, LoadPatch(h, i) \/ BeginDispatch(h, i)
      PROVE  j \in jobs
    BY <1>5 DEF LoadPatch, BeginDispatch, table
<1>6. ASSUME NEW h \in Handler, ApplyPatch(h) PROVE j \in jobs
    BY <1>6 DEF ApplyPatch
<1>7. ASSUME NEW p \in Handler \cup {Worker}, Accept(p) PROVE j \in jobs
    BY <1>7 DEF Accept, table
<1>8. ASSUME NEW p \in Handler \cup {Worker}, Reject(p) PROVE j \in jobs \/ Says(j)
    BY <1>1, <1>8 DEF Reject
<1>9. ASSUME NEW p \in Handler \cup {Worker}, Answers(p) PROVE j \in jobs \/ Says(j)
    <2>1. PICK new, job : Answered(p, new, job)
        BY <1>9, AnswersWrite
    <2>2. jobs' = jobs \/ jobs' = jobs \cup {job}
        BY <2>1, AnswerWrites, AnswerFlushes DEF AnswerPass, table
    <2>3. IF job.run = None THEN job.status = "pending" ELSE job.status = "dispatched"
        BY <2>1, Apart DEF Answered, PlaceOK
    <2> QED BY <2>2, <2>3 DEF Says
<1>10. ASSUME CommitPass PROVE j \in jobs \/ Says(j)
    BY <1>10 DEF CommitPass, FreshTrue, Says
<1>11. ASSUME ApplyEvent PROVE j \in jobs \/ Says(j)
    <2>1. PICK m \in JobOf(evt.run) : Mark(m, evt.status)
        BY <1>11 DEF ApplyEvent
    <2>2. evt \in Event /\ EventTrue(evt)
        BY <1>11 DEF ApplyEvent, EventsTrue
    <2>3. evt.run # None
        BY <2>2, Apart DEF Event
    <2>4. j \in jobs \/ (j.run = evt.run /\ j.status = evt.status)
        BY <2>1 DEF Mark, Job, JobOf
    <2> QED BY <2>2, <2>3, <2>4 DEF Says
<1>12. ASSUME Lists \/ TakeEvent \/ Streams \/ UNCHANGED vars PROVE j \in jobs
    BY <1>12 DEF Lists, StartPass, StartRetry, StartArchive, TakeEvent, Streams,
       IgnoreEvent, Disconnect, Reconnect, Report, vars, table
<1>13. ASSUME NEW p \in Txn, GivenUp(p) PROVE j \in jobs
    BY <1>13 DEF GivenUp, Gone, table
<1> QED
    BY NextCases, <1>2, <1>3, <1>4, <1>5, <1>6, <1>7, <1>8, <1>9, <1>10, <1>11, <1>12, <1>13

-----------------------------------------------------------------------------
(* The invariant.                                                          *)

LEMMA DispatchInit == Init => DispatchInv
<1> SUFFICES ASSUME Init PROVE DispatchInv
    OBVIOUS
<1>1. SessionHasJob /\ JobTellsOutcome
    BY DEF Init, SessionHasJob, JobTellsOutcome, Exists, NoRows
<1> QED
    BY <1>1, LocksInit, TypeInit, PlaceInit, StayInit, OwnInit, EventsInit, FreshInit,
       FlushedInit
       DEF DispatchInv, Shape, Owned

LEMMA DispatchStep == DispatchInv /\ [Next]_vars => DispatchInv'
<1> SUFFICES ASSUME DispatchInv, [Next]_vars PROVE DispatchInv'
    OBVIOUS
<1>1. Committed /\ Owned /\ SessionHasJob /\ JobTellsOutcome
    BY DEF DispatchInv, Committed, Owned
<1>11. LocksEnd'
    BY LocksStep DEF DispatchInv, Shape
<1>2. TypeOK /\ PlaceOK /\ ItemsStay /\ EventsTrue /\ FreshTrue /\ FlushedTrue
    BY <1>1 DEF Committed, Shape
<1>3. TypeOK'
    BY <1>2, TypeStep
<1>4. PlaceOK'
    BY <1>2, PlaceStep
<1>5. ItemsStay'
    BY <1>2, StayStep
<1>6. RunsOwned' /\ \A j, k \in jobs' : j.run = k.run /\ j.run # None => j = k
    BY <1>1, <1>2, OwnStep
<1>7. OneJobPerRun'
    BY <1>6 DEF OneJobPerRun
<1>8. EventsTrue' /\ FreshTrue' /\ FlushedTrue'
    BY <1>2, EventsStep, FreshStep, FlushedStep
<1>9. SessionHasJob'
    <2>1. ASSUME NEW i \in Item, items'[i] \notin {Unborn, Deleted}, items'[i].session # None,
                 "session" \notin given'[i]
          PROVE  \E j \in jobs' : j.item = i /\ j.run = items'[i].session
        <3>1. items'[i] \in Row
            BY <1>3, <2>1 DEF TypeOK, MaybeRow
        <3>2. CASE Exists(i) /\ items'[i].session = items[i].session /\ Keeps(i, "session")
            <4>1. PICK j \in jobs : j.item = i /\ j.run = items[i].session
                BY <1>1, <2>1, <3>2 DEF SessionHasJob, Keeps
            <4>2. \E k \in jobs' : k.item = j.item /\ k.run = j.run
                BY <1>2, JobsKept
            <4> QED BY <3>2, <4>1, <4>2
        <3> QED BY <1>1, <2>1, <3>1, <3>2, RowMoves
    <2>2. \A j \in jobs' : items'[j.item] \notin {Unborn, Deleted}
        BY <1>5 DEF ItemsStay, Exists
    <2> QED BY <2>1, <2>2 DEF SessionHasJob, Exists
<1>10. JobTellsOutcome'
    <2>1. ASSUME NEW j \in jobs'
          PROVE  IF j.run = None THEN j.status \in {"pending", "failed"}
                 ELSE /\ outcome'[j.run] # "free"
                      /\ j.status \in {"completed", "failed"} => outcome'[j.run] = j.status
        <3>1. j.run # None => outcome'[j.run] # "free"
            BY <1>6 DEF RunsOwned
        <3>2. CASE j \in jobs
            <4>1. j.run \in Run \cup {None}
                BY <1>2, <3>2 DEF TypeOK, JobRow
            <4>2. IF j.run = None THEN j.status \in {"pending", "failed"}
                  ELSE j.status \in {"completed", "failed"} => outcome[j.run] = j.status
                BY <1>1, <3>2 DEF JobTellsOutcome
            <4> QED BY <1>2, <3>1, <4>1, <4>2, OutcomeStays
        <3>3. CASE Says(j)
            <4>1. CASE evt \in Event /\ EventTrue(evt) /\ j.run = evt.run /\ j.status = evt.status
                  /\ j.run # None
                BY <1>2, <3>1, <4>1, EventStays DEF Bears
            <4> QED BY <3>1, <3>3, <4>1 DEF Says
        <3> QED BY <1>1, <3>2, <3>3, JobMoves
    <2>2. ASSUME NEW i \in Item, items'[i] \notin {Unborn, Deleted}, items'[i].status = "done",
                 "status" \notin given'[i]
          PROVE  \E j \in jobs' : j.item = i /\ j.run # None /\ outcome'[j.run] = "completed"
        <3>1. items'[i] \in Row
            BY <1>3, <2>2 DEF TypeOK, MaybeRow
        <3>2. CASE Exists(i) /\ items'[i].status = items[i].status /\ Keeps(i, "status")
            <4>1. PICK j \in jobs : j.item = i /\ j.run # None /\ outcome[j.run] = "completed"
                BY <1>1, <2>2, <3>2 DEF JobTellsOutcome, Keeps
            <4>2. outcome'[j.run] = "completed"
                BY <1>2, <4>1, OutcomeStays DEF TypeOK, JobRow
            <4>3. \E k \in jobs' : k.item = j.item /\ k.run = j.run
                BY <1>2, JobsKept
            <4> QED BY <4>1, <4>2, <4>3
        <3> QED BY <1>1, <2>2, <3>1, <3>2, RowMoves
    <2> QED BY <2>1, <2>2 DEF JobTellsOutcome, Exists
<1> QED BY <1>3, <1>4, <1>5, <1>6, <1>7, <1>8, <1>9, <1>10, <1>11
    DEF DispatchInv, Shape

LEMMA DispatchInvariant == Spec => []DispatchInv
BY DispatchInit, DispatchStep, PTL DEF Spec

-----------------------------------------------------------------------------
(* What follows.                                                           *)

(* The rows stay consistent whatever the requests, the worker, the         *)
(* subscriber and their rollbacks do at the same time: an item that names  *)
(* a run has the job of that run, every job has its item                   *)
(* (dispatch_service.py:134-157), and no two jobs have one run, which      *)
(* get_by_run_id (dispatch_repo.py:65-72) relies on.  No transaction waits *)
(* for a row that is gone or for a lock that nobody will give back.        *)
THEOREM DispatchCorrect == Spec => []Inv
<1>1. ASSUME DispatchInv PROVE Inv
    <2>1. \A i \in Item : Locked(i) => pc[Worker] # "idle" /\ Exists(i)
        BY <1>1 DEF DispatchInv, LocksEnd, ItemsStay, Locked, Clean
    <2>2. ASSUME NEW p \in Txn, pc[p] = "applying" PROVE p = Subscriber
        BY <1>1, <2>2 DEF DispatchInv, Shape, PlaceOK, Txn
    <2>3. pc[Subscriber] = "applying" => \E j \in JobOf(evt.run) : j.item = at[Subscriber]
        BY <1>1 DEF DispatchInv, EventsTrue
    <2>4. pc[Subscriber] = "applying" => Exists(at[Subscriber])
        BY <1>1, <2>3 DEF DispatchInv, ItemsStay, JobOf
    <2>5. \A p \in Txn : pc[p] \in {"sending", "accepted", "applying"} => Exists(at[p])
        BY <1>1, <2>2, <2>4 DEF DispatchInv, ItemsStay, Sent
    <2> QED BY <1>1, <2>1, <2>3, <2>5 DEF DispatchInv, Shape, Inv, NobodyStuck
<1> QED BY <1>1, DispatchInvariant, PTL

(* A job is completed or failed only as its run really ended, and an item  *)
(* is done only by a run dispatched for it that has completed, however     *)
(* events are delayed, lost or applied to rows that changed meanwhile      *)
(* (dispatch_service.py:168-211, dispatch_subscriber.py).                  *)
THEOREM OutcomeCorrect == Spec => []JobTellsOutcome
<1>1. DispatchInv => JobTellsOutcome
    BY DEF DispatchInv
<1> QED BY <1>1, DispatchInvariant, PTL

(* No step cuts the dispatch history: a job with a run stays, with its     *)
(* item and its run, whoever deletes items.                                *)
THEOREM HistoryCorrect == Spec => HistoryKept
<1>1. ASSUME DispatchInv, [Next]_vars
      PROVE  \A j \in jobs : j.run # None => \E k \in jobs' : k.item = j.item /\ k.run = j.run
    BY <1>1, JobsKept DEF DispatchInv, Shape
<1>2. DispatchInv /\ [Next]_vars =>
        [\A j \in jobs : j.run # None => \E k \in jobs' : k.item = j.item /\ k.run = j.run]_vars
    BY <1>1
<1> QED BY <1>2, DispatchInvariant, PTL DEF Spec, HistoryKept
=============================================================================
