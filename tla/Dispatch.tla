------------------------------ MODULE Dispatch ------------------------------
(***************************************************************************)
(* Handing queue items to agents: the HTTP handlers of the agent queue,    *)
(* dispatch_service.dispatch, the queue worker script and the subscriber   *)
(* that mirrors run events into PostgreSQL, all on the tables queue_items  *)
(* and dispatch_jobs.                                                      *)
(*                                                                         *)
(* Each of them works in a database transaction held open across awaits    *)
(* (READ COMMITTED): it loads rows into the identity map of its session    *)
(* (work), a flush sends the attributes whose value differs from the       *)
(* loaded one and locks the row, an INSERT of a job holds the item's key,  *)
(* and nothing is visible to the others before the commit.  A handler and  *)
(* the subscriber commit right after their last flush, which is one step   *)
(* here; the worker's flushed writes (dirty, fresh) and their locks last   *)
(* until its pass ends.                                                    *)
(***************************************************************************)
EXTENDS Naturals, Sequences, FiniteSets

CONSTANTS
    Item,         \* ids of queue items; an id is never reused
    Handler,      \* HTTP requests in progress at the same time
    Worker,       \* the pass of scripts/queue_worker.py
    Subscriber,   \* the task of services/dispatch_subscriber.py
    Run,          \* run ids of the gateway
    Source,       \* the event names that report on a run: "chat", "agent"
    None, Unborn, Deleted,
    MoveTo,       \* bound: the columns a user may choose
    GivenAgent,   \* bound: the agents a user may choose
    GivenSession, \* bound: the sessions and statuses a PATCH may name
    GivenStatus,
    MaxStream,    \* bound: run events not yet read by the subscriber
    MaxEdits,     \* bound: edits of items by users
    MaxFailures   \* bound: rejections, rollbacks and disconnections

(* "queued" stands for queued and urgent, "parked" for ideas, backlog and  *)
(* archive; an agent is in AGENT_REGISTRY ("known") or not.                *)
Column    == {"queued", "active", "review", "done", "parked"}
AgentKind == {"none", "known", "unknown"}
ItemStatus == {"none", "pending", "running", "done", "failed", "needs_update"}
EventStatus == {"running", "completed", "failed"}
JobStatus  == {"pending", "dispatched", "running", "completed", "failed"}

Txn == Handler \cup {Worker, Subscriber}

ASSUME DispatchAssumption ==
    /\ Worker # Subscriber
    /\ {Worker, Subscriber} \cap Handler = {}
    /\ None \notin Run \cup Item
    /\ Unborn # Deleted
    /\ Source \subseteq {"chat", "agent"}
    /\ MoveTo \subseteq Column
    /\ GivenAgent \subseteq AgentKind
    /\ GivenSession \subseteq Run \cup {None}
    /\ GivenStatus \subseteq ItemStatus
    /\ {MaxStream, MaxEdits, MaxFailures} \subseteq Nat

Row == [column : Column, session : Run \cup {None}, status : ItemStatus, agent : AgentKind]
Field == {"column", "session", "status", "agent", "other"}
JobRow == [item : Item, status : JobStatus, run : Run \cup {None}]

ASSUME NoRowAssumption == {Unborn, Deleted} \cap Row = {}

VARIABLES
    items,    \* queue_items, committed: Item -> Row, Unborn or Deleted
    jobs,     \* dispatch_jobs, committed (equal rows without a run count once)
    given,    \* history: Item -> its columns that hold what a PATCH has named
    pc,       \* Txn -> where the transaction stands
    at,       \* Txn -> the item being handled
    run,      \* Txn -> the run the gateway gave this send
    work,     \* Txn -> the rows in the session's identity map
    dirty,    \* Item -> the fields the worker has flushed: a row lock
    fresh,    \* the jobs the worker has inserted and not committed
    stage,    \* the worker's stage: route, retry, archive
    todo,     \* the worker's remaining candidates
    evt,      \* the run event the subscriber is applying
    outcome,  \* the gateway's runs: free, live, completed, failed
    said,     \* Run -> Source -> number of statuses reported
    stream,   \* run events sent to the subscriber and not read
    up,       \* the subscriber is connected to the gateway
    edits, failures    \* how much of the bounds is used

table == <<items, jobs, given>>
session == <<pc, at, run, work>>
pass == <<stage, todo, dirty, fresh>>
gateway == <<outcome, said, stream, up>>
counts == <<edits, failures>>
vars == <<table, session, pass, evt, gateway, counts>>

Job(i, s, r) == [item |-> i, status |-> s, run |-> r]
NoRows == [i \in Item |-> Unborn]
Clean  == [i \in Item |-> {}]
Exists(i) == items[i] \notin {Unborn, Deleted}

Init ==
    /\ items = NoRows
    /\ jobs = {}
    /\ given = Clean
    /\ pc = [p \in Txn |-> "idle"]
    /\ at = [p \in Txn |-> None]
    /\ run = [p \in Txn |-> None]
    /\ work = [p \in Txn |-> NoRows]
    /\ dirty = Clean
    /\ fresh = {}
    /\ stage = "route"
    /\ todo = {}
    /\ evt = None
    /\ outcome = [r \in Run |-> "free"]
    /\ said = [r \in Run |-> [s \in Source |-> 0]]
    /\ stream = <<>>
    /\ up = TRUE
    /\ edits = 0
    /\ failures = 0

-----------------------------------------------------------------------------
(* Transactions.                                                           *)

(* "other" stands for notes and the timestamps, which are not modelled but *)
(* make every dispatch an UPDATE.                                          *)
Differs(old, new) == {f \in Field \ {"other"} : old[f] # new[f]}
Overlay(old, new, fs) ==
    [column  |-> IF "column" \in fs THEN new.column ELSE old.column,
     session |-> IF "session" \in fs THEN new.session ELSE old.session,
     status  |-> IF "status" \in fs THEN new.status ELSE old.status,
     agent   |-> IF "agent" \in fs THEN new.agent ELSE old.agent]

(* The worker has updated the row and not committed: others wait. *)
Locked(i) == dirty[i] # {}

(* A job inserted for the item keeps it from being deleted. *)
KeyHeld(i) ==
    \/ \E p \in Txn : at[p] = i /\ pc[p] \in {"sending", "accepted"}
    \/ \E j \in fresh : j.item = i

(* The end of a transaction, committed or not. *)
Reset(p) ==
    /\ pc' = [pc EXCEPT ![p] = "idle"]
    /\ at' = [at EXCEPT ![p] = None]
    /\ run' = [run EXCEPT ![p] = None]
    /\ work' = [work EXCEPT ![p] = NoRows]

EndPass ==
    /\ stage' = "route"
    /\ todo' = {}
    /\ dirty' = Clean
    /\ fresh' = {}

Begin(p, i, where) ==
    /\ pc' = [pc EXCEPT ![p] = where]
    /\ at' = [at EXCEPT ![p] = i]

(* session.get: load the row. *)
Load(p, i) == work' = [work EXCEPT ![p] = [@ EXCEPT ![i] = items[i]]]

(* The worker flushes an item: UPDATE of the attributes that changed. *)
Flush(i, new) ==
    /\ work' = [work EXCEPT ![Worker] = [@ EXCEPT ![i] = new]]
    /\ dirty' = [dirty EXCEPT ![i] = @ \cup Differs(work[Worker][i], new) \cup {"other"}]

(* The rows as the worker sees them and as its commit will leave them. *)
Listed ==
    [i \in Item |-> IF dirty[i] = {} THEN items[i]
                    ELSE Overlay(items[i], work[Worker][i], dirty[i])]

(* An UPDATE of one row and the commit right after it; named are the       *)
(* columns whose value a user has given.                                   *)
WriteThrough(p, i, new, named) ==
    LET written == Differs(work[p][i], new) IN
    /\ ~Locked(i)
    /\ items' = [items EXCEPT ![i] = Overlay(@, new, written)]
    /\ given' = [given EXCEPT ![i] = (@ \ written) \cup (written \cap named)]

-----------------------------------------------------------------------------
(* The defects the properties are measured against: each is a form of the  *)
(* definition it is named after that a plausible mistake would give.       *)

(* The job is not written with the item. *)
AnswerRowOnly(h, new, job) ==
    /\ WriteThrough(h, at[h], new, {})
    /\ UNCHANGED jobs
    /\ Reset(h)
    /\ UNCHANGED pass

(* Deleting an item deletes its jobs. *)
DeleteCascades(i) ==
    /\ Exists(i)
    /\ ~KeyHeld(i)
    /\ items' = [items EXCEPT ![i] = Deleted]
    /\ jobs' = {j \in jobs : j.item # i}
    /\ UNCHANGED given

(* mark_completed is called without the error. *)
MarkWithoutError(j, s) ==
    jobs' = (jobs \ {j}) \cup {Job(j.item, IF s = "failed" THEN "completed" ELSE s, j.run)}

(* Once the request is sent there is no timeout. *)
TimeoutOnConnectOnly(p) == pc[p] = "sending"

-----------------------------------------------------------------------------
(* The HTTP handlers of the agent queue that do not send anything.         *)

(* POST /api/queue. *)
Create(i, c, a) ==
    /\ items[i] = Unborn
    /\ items' = [items EXCEPT ![i] =
                   [column |-> c, session |-> None, status |-> "none", agent |-> a]]
    /\ UNCHANGED <<jobs, given, session, pass, evt, gateway, counts>>

(* DELETE: the INSERT of a job holds it up, a committed job makes it fail  *)
(* on the foreign key.                                                     *)
Remove(i) ==
    /\ Exists(i)
    /\ ~KeyHeld(i)
    /\ \A j \in jobs : j.item # i
    /\ items' = [items EXCEPT ![i] = Deleted]
    /\ UNCHANGED <<jobs, given>>

Delete(i) ==
    /\ ~Locked(i)
    /\ Remove(i)
    /\ UNCHANGED <<session, pass, evt, gateway, counts>>

(* PATCH: load the row, ... *)
LoadPatch(h, i) ==
    /\ pc[h] = "idle"
    /\ Exists(i)
    /\ Begin(h, i, "patching")
    /\ Load(h, i)
    /\ edits < MaxEdits
    /\ edits' = edits + 1
    /\ UNCHANGED <<table, run, pass, evt, gateway, failures>>

(* ... decide on it and write what the request names: the column, the      *)
(* fields a prompt depends on (the agent is one; an edit of these marks    *)
(* active work), and the session and its status, which nothing checks.     *)
(* None: the request does not name the status; "none": it names null.      *)
Patch(old, c, a, s, st, relevant) ==
    [column |-> c, session |-> s, agent |-> a,
     status |-> IF relevant /\ old.column = "active" /\ c = "active" /\ st \in {None, "none"}
                THEN "needs_update"
                ELSE IF st = None THEN old.status ELSE st]

Named(st) == {"session"} \cup (IF st \in {None, "none"} THEN {} ELSE {"status"})

ApplyPatch(h) ==
    LET i   == at[h]
        old == work[h][i]
    IN
    /\ pc[h] = "patching"
    /\ Exists(i)
    /\ \E c \in MoveTo \cup {old.column}, a \in GivenAgent \cup {old.agent},
          s \in GivenSession \cup {old.session}, st \in GivenStatus \cup {None},
          relevant \in BOOLEAN :
         /\ a # old.agent => relevant
         /\ WriteThrough(h, i, Patch(old, c, a, s, st, relevant), Named(st))
    /\ Reset(h)
    /\ UNCHANGED <<jobs, pass, evt, gateway, counts>>

(* The row was deleted meanwhile: the UPDATE matches nothing and fails. *)
PatchFails(h) ==
    /\ pc[h] = "patching"
    /\ ~Exists(at[h])
    /\ Reset(h)
    /\ UNCHANGED <<table, pass, evt, gateway, counts>>

-----------------------------------------------------------------------------
(* dispatch(): load the item, insert the job, await send_to_agent, write   *)
(* the result.  Nothing is visible before the commit but the locks, so a   *)
(* request that fails before the send is no step at all.                   *)

BeginDispatch(h, i) ==
    /\ pc[h] = "idle"
    /\ Exists(i)
    /\ Begin(h, i, "sending")
    /\ Load(h, i)
    /\ UNCHANGED <<table, run, pass, evt, gateway, counts>>

(* An agent that is not in the registry: the job is created and failed. *)
DispatchUnknown(i) ==
    /\ Exists(i)
    /\ failures < MaxFailures
    /\ failures' = failures + 1
    /\ UNCHANGED edits
    /\ jobs' = jobs \cup {Job(i, "failed", None)}
    /\ UNCHANGED <<items, given, session, pass, evt, gateway>>

(* Whatever the tags and the title of an item say, the agent suggested for *)
(* it is one of the registry.                                              *)
SuggestAgent == "known"

DispatchTo(h, i, agent) ==
    \/ agent = "known" /\ BeginDispatch(h, i)
    \/ agent = "unknown" /\ pc[h] = "idle" /\ DispatchUnknown(i)

(* POST /api/queue/{id}/dispatch: the request names the agent. *)
DispatchQueueItem(h, i) == \E agent \in AgentKind \ {"none"} : DispatchTo(h, i, agent)

(* POST /api/queue/{id}/dispatch/auto: the server chooses it. *)
DispatchQueueItemAuto(h, i) == DispatchTo(h, i, SuggestAgent)

(* A handler writes the item and the job and get_session commits. *)
AnswerRequest(h, new, job) ==
    /\ WriteThrough(h, at[h], new, {})
    /\ jobs' = jobs \cup {job}
    /\ Reset(h)
    /\ UNCHANGED pass

(* The worker flushes both and goes on. *)
AnswerPass(new, job) ==
    /\ Flush(at[Worker], new)
    /\ fresh' = fresh \cup {job}
    /\ Begin(Worker, None, "listed")
    /\ run' = [run EXCEPT ![Worker] = None]
    /\ UNCHANGED <<table, stage, todo>>

Answer(p, new, job) ==
    /\ \/ p \in Handler /\ AnswerRequest(p, new, job)
       \/ p = Worker /\ AnswerPass(new, job)
    /\ UNCHANGED <<evt, gateway, counts>>

(* The gateway starts a run; its answer is on the way. *)
Accept(p) ==
    /\ pc[p] = "sending"
    /\ \E r \in Run :
         /\ outcome[r] = "free"
         /\ outcome' = [outcome EXCEPT ![r] = "live"]
         /\ run' = [run EXCEPT ![p] = r]
    /\ pc' = [pc EXCEPT ![p] = "accepted"]
    /\ UNCHANGED <<table, at, work, pass, evt, said, stream, up, counts>>

(* The answer carries the run id. *)
Online(p) ==
    /\ pc[p] = "accepted"
    /\ Answer(p, [column |-> "active", session |-> run[p], status |-> "running", agent |-> "known"],
              Job(at[p], "dispatched", run[p]))

(* No gateway configured, no connection, or no answer in five seconds,     *)
(* although the gateway may have started the run.                          *)
GivesUp(p) == pc[p] \in {"sending", "accepted"}

Offline(p) ==
    /\ GivesUp(p)
    /\ Answer(p, [column |-> "active", session |-> None, status |-> "pending", agent |-> "known"],
              Job(at[p], "pending", None))

(* The gateway refuses the connection or the request: the job fails and    *)
(* the item is left as it was.                                             *)
Reject(p) ==
    /\ pc[p] = "sending"
    /\ failures < MaxFailures
    /\ failures' = failures + 1
    /\ UNCHANGED edits
    /\ \/ /\ p \in Handler
          /\ jobs' = jobs \cup {Job(at[p], "failed", None)}
          /\ Reset(p)
          /\ UNCHANGED pass
       \/ /\ p = Worker
          /\ fresh' = fresh \cup {Job(at[p], "failed", None)}
          /\ Begin(Worker, None, "listed")
          /\ UNCHANGED <<jobs, run, work, stage, todo, dirty>>
    /\ UNCHANGED <<items, given, evt, gateway>>

-----------------------------------------------------------------------------
(* The queue worker: one transaction for the whole pass.                   *)

RouteCandidates(rows) ==
    {i \in Item : /\ rows[i] \in Row
                  /\ rows[i].column = "queued"
                  /\ rows[i].session = None
                  /\ rows[i].status \notin {"running", "done"}}

RetryCandidates(rows) ==
    {i \in Item : /\ rows[i] \in Row
                  /\ rows[i].column = "active"
                  /\ rows[i].agent # "none"
                  /\ \/ rows[i].status = "needs_update"
                     \/ rows[i].status = "pending" /\ rows[i].session = None}

(* Which of them are old enough is left open. *)
ArchiveCandidates(rows) ==
    {i \in Item : /\ rows[i] \in Row
                  /\ \/ rows[i].column = "done"
                     \/ rows[i].column = "review" /\ rows[i].status = "done"}

(* flag_stale_active adds a note to them, right before the commit. *)
StaleCandidates(rows) == {i \in Item : rows[i] \in Row /\ rows[i].column = "active"}

(* list_items at the start of a stage. *)
Enter(s, candidates) ==
    /\ stage' = s
    /\ todo' = candidates
    /\ work' = [work EXCEPT ![Worker] = Listed]

StartPass ==
    /\ pc[Worker] = "idle"
    /\ pc' = [pc EXCEPT ![Worker] = "listed"]
    /\ Enter("route", RouteCandidates(Listed))
    /\ UNCHANGED <<table, at, run, dirty, fresh, evt, gateway, counts>>

(* dispatch() takes the row from the identity map, so the snapshot the     *)
(* candidates were chosen from is also what the result is compared with;   *)
(* an item without an agent goes to the one suggested for it.              *)
Target(row) == IF row.agent = "none" THEN SuggestAgent ELSE row.agent

PassSends(i) ==
    /\ pc[Worker] = "listed"
    /\ i \in todo
    /\ Exists(i)
    /\ todo' = todo \ {i}
    /\ \/ /\ Target(work[Worker][i]) = "known"
          /\ Begin(Worker, i, "sending")
          /\ UNCHANGED fresh
       \/ /\ Target(work[Worker][i]) = "unknown"
          /\ fresh' = fresh \cup {Job(i, "failed", None)}
          /\ UNCHANGED <<pc, at>>
    /\ UNCHANGED <<table, run, work, dirty, stage, evt, gateway, counts>>

StartRetry ==
    /\ pc[Worker] = "listed" /\ stage = "route" /\ todo = {}
    /\ Enter("retry", RetryCandidates(Listed))
    /\ UNCHANGED <<table, pc, at, run, dirty, fresh, evt, gateway, counts>>

StartArchive ==
    /\ pc[Worker] = "listed" /\ stage = "retry" /\ todo = {}
    /\ Enter("archive", {})
    /\ UNCHANGED <<table, pc, at, run, dirty, fresh, evt, gateway, counts>>

Archive(i) ==
    /\ pc[Worker] = "listed" /\ stage = "archive"
    /\ i \in ArchiveCandidates(work[Worker])
    /\ Exists(i)
    /\ Flush(i, [work[Worker][i] EXCEPT !.column = "parked"])
    /\ UNCHANGED <<table, pc, at, run, fresh, stage, todo, evt, gateway, counts>>

CommitPass ==
    /\ pc[Worker] = "listed" /\ stage = "archive"
    /\ items' = Listed
    /\ jobs' = jobs \cup fresh
    /\ given' = [i \in Item |-> given[i] \ dirty[i]]
    /\ Reset(Worker)
    /\ EndPass
    /\ UNCHANGED <<evt, gateway, counts>>

(* An item of the snapshot is gone: the INSERT of its job breaks the       *)
(* foreign key, or its UPDATE matches no row.  The whole pass is undone,   *)
(* whatever it has sent.                                                   *)
PassFails ==
    /\ pc[Worker] = "listed"
    /\ \E i \in IF stage = "archive"
               THEN ArchiveCandidates(work[Worker]) \cup StaleCandidates(work[Worker])
               ELSE todo : ~Exists(i)
    /\ Reset(Worker)
    /\ EndPass
    /\ UNCHANGED <<table, evt, gateway, counts>>

-----------------------------------------------------------------------------
(* The subscriber: one session per event, one event after the other.       *)

JobOf(r) == {j \in jobs : j.run = r}

(* The event of a run no committed job has is ignored. *)
IgnoreEvent ==
    /\ pc[Subscriber] = "idle"
    /\ stream # <<>>
    /\ JobOf(Head(stream).run) = {}
    /\ stream' = Tail(stream)
    /\ UNCHANGED <<table, session, pass, evt, outcome, said, up, counts>>

(* get_by_run_id and get_item; item_is_current is decided here. *)
TakeEvent ==
    /\ pc[Subscriber] = "idle"
    /\ stream # <<>>
    /\ \E j \in JobOf(Head(stream).run) :
         /\ Begin(Subscriber, j.item, "applying")
         /\ Load(Subscriber, j.item)
    /\ evt' = Head(stream)
    /\ stream' = Tail(stream)
    /\ UNCHANGED <<table, run, pass, outcome, said, up, counts>>

Mark(j, s) == jobs' = (jobs \ {j}) \cup {Job(j.item, s, j.run)}

ItemAfter(old, s) ==
    CASE s = "running"   -> [old EXCEPT !.status = "running"]
      [] s = "completed" -> [old EXCEPT !.status = "done", !.column = "review"]
      [] s = "failed"    -> [old EXCEPT !.status = "failed"]

(* mark_running or mark_completed, the item if the run is its current one, *)
(* and the commit.                                                         *)
ApplyEvent ==
    /\ pc[Subscriber] = "applying"
    /\ \E j \in JobOf(evt.run) : Mark(j, evt.status)
    /\ LET i   == at[Subscriber]
           old == work[Subscriber][i]
           new == ItemAfter(old, evt.status)
           same == Differs(old, new) = {} /\ evt.status # "completed"
       IN IF old.session # evt.run \/ same THEN UNCHANGED <<items, given>>
          ELSE WriteThrough(Subscriber, i, new, {})
    /\ Reset(Subscriber)
    /\ evt' = None
    /\ UNCHANGED <<pass, gateway, counts>>

-----------------------------------------------------------------------------
(* The gateway and what fails.                                             *)

(* _run_status_event: each source reports that the run runs, then how it   *)
(* ended; two sources are not ordered with each other.  While the          *)
(* subscriber is not connected nobody hears it.                            *)
Ending(r) == IF outcome[r] = "live" THEN {"completed", "failed"} ELSE {outcome[r]}

Report(r, s, status) ==
    /\ outcome[r] # "free"
    /\ said[r][s] < 2
    /\ status \in (IF said[r][s] = 0 THEN {"running"} ELSE Ending(r))
    /\ outcome' = [outcome EXCEPT ![r] = IF status = "running" THEN @ ELSE status]
    /\ said' = [said EXCEPT ![r][s] = @ + 1]
    /\ IF up THEN /\ Len(stream) < MaxStream
                  /\ stream' = Append(stream, [run |-> r, status |-> status])
             ELSE UNCHANGED stream
    /\ UNCHANGED <<table, session, pass, evt, up, counts>>

(* The stream errors; what was received may still be read or not. *)
Disconnect ==
    /\ up
    /\ failures < MaxFailures
    /\ failures' = failures + 1
    /\ UNCHANGED edits
    /\ up' = FALSE
    /\ stream' \in {stream, <<>>}
    /\ UNCHANGED <<table, session, pass, evt, outcome, said>>

(* Five seconds later it is subscribed again. *)
Reconnect ==
    /\ ~up
    /\ pc[Subscriber] = "idle"
    /\ stream = <<>>
    /\ up' = TRUE
    /\ UNCHANGED <<table, session, pass, evt, outcome, said, stream, counts>>

(* An exception, a cancelled request or a restart: rollback. *)
Rollback(p) ==
    /\ pc[p] # "idle"
    /\ failures < MaxFailures
    /\ failures' = failures + 1
    /\ UNCHANGED edits
    /\ Reset(p)
    /\ IF p = Worker THEN EndPass ELSE UNCHANGED pass
    /\ evt' = IF p = Subscriber THEN None ELSE evt
    /\ UNCHANGED <<table, gateway>>

Next ==
    \/ \E i \in Item :
         \/ \E c \in MoveTo, a \in GivenAgent : Create(i, c, a)
         \/ Delete(i)
         \/ PassSends(i)
         \/ Archive(i)
    \/ \E h \in Handler :
         \/ \E i \in Item :
              LoadPatch(h, i) \/ DispatchQueueItem(h, i) \/ DispatchQueueItemAuto(h, i)
         \/ ApplyPatch(h)
         \/ PatchFails(h)
    \/ \E p \in Handler \cup {Worker} : Accept(p) \/ Online(p) \/ Offline(p) \/ Reject(p)
    \/ StartPass \/ StartRetry \/ StartArchive \/ CommitPass \/ PassFails
    \/ IgnoreEvent \/ TakeEvent \/ ApplyEvent
    \/ \E r \in Run, s \in Source, st \in EventStatus : Report(r, s, st)
    \/ Disconnect \/ Reconnect
    \/ \E p \in Txn : Rollback(p)

Spec == Init /\ [][Next]_vars

(* The gateway's runs end and are reported; send_to_agent gives up after   *)
(* five seconds; row locks are granted in turn; and the worker is run      *)
(* again and again.  The gateway need not ever accept or answer a send.    *)
PassStep ==
    \/ StartPass \/ StartRetry \/ StartArchive \/ CommitPass \/ PassFails
    \/ \E i \in Item : PassSends(i)

Fairness ==
    /\ \A h \in Handler : SF_vars(ApplyPatch(h)) /\ WF_vars(PatchFails(h))
    /\ \A p \in Handler \cup {Worker} : SF_vars(Offline(p))
    /\ WF_vars(PassStep)
    /\ WF_vars(IgnoreEvent \/ TakeEvent)
    /\ SF_vars(ApplyEvent)
    /\ WF_vars(Reconnect)
    /\ \A r \in Run, s \in Source : SF_vars(\E st \in EventStatus : Report(r, s, st))

FairSpec == Spec /\ Fairness

-----------------------------------------------------------------------------
(* Properties.                                                             *)

MaybeRow == Row \cup {Unborn, Deleted}
Event == [run : Run, status : EventStatus]

(* Type invariant: the columns hold the values db/orm/agents.py declares,  *)
(* among them only the statuses the services write.                        *)
TypeOK ==
    /\ items \in [Item -> MaybeRow]
    /\ jobs \subseteq JobRow
    /\ given \in [Item -> SUBSET {"session", "status"}]
    /\ pc \in [Txn -> {"idle", "patching", "sending", "accepted", "listed", "applying"}]
    /\ at \in [Txn -> Item \cup {None}]
    /\ run \in [Txn -> Run \cup {None}]
    /\ work \in [Txn -> [Item -> MaybeRow]]
    /\ dirty \in [Item -> SUBSET Field]
    /\ fresh \subseteq JobRow
    /\ stage \in {"route", "retry", "archive"}
    /\ todo \subseteq Item
    /\ evt \in Event \cup {None}
    /\ outcome \in [Run -> {"free", "live", "completed", "failed"}]
    /\ said \in [Run -> [Source -> 0..2]]
    /\ stream \in Seq(Event)
    /\ up \in BOOLEAN
    /\ edits \in 0..MaxEdits
    /\ failures \in 0..MaxFailures

(* A queue item that names a run has the job of that run, unless a PATCH   *)
(* has written the name there since: the item and the job are written in   *)
(* one transaction (dispatch_service.py:134-157), so no crash, lost race,  *)
(* edit of other columns or deletion leaves a session without a dispatch   *)
(* history or a job without its item.                                      *)
SessionHasJob ==
    /\ \A i \in Item : Exists(i) /\ items[i].session # None /\ "session" \notin given[i] =>
         \E j \in jobs : j.item = i /\ j.run = items[i].session
    /\ \A j \in jobs : Exists(j.item)

(* At most one job has a given run id, whatever is dispatched at the same  *)
(* time: get_by_run_id (dispatch_repo.py:65-72) raises if it finds two,    *)
(* and the subscriber would lose every event of the run.                   *)
OneJobPerRun ==
    \A j, k \in jobs : j.run = k.run /\ j.run # None => j = k

(* Whoever waits can go on: a row stays locked only during a worker pass,  *)
(* the item a dispatch or an event is about to write has not been deleted  *)
(* meanwhile (the foreign key of its job keeps it), and the job of the     *)
(* event is still that of the item.                                        *)
NobodyStuck ==
    /\ \A i \in Item : Locked(i) => pc[Worker] # "idle" /\ Exists(i)
    /\ \A p \in Txn : pc[p] \in {"sending", "accepted", "applying"} => Exists(at[p])
    /\ pc[Subscriber] = "applying" => \E j \in JobOf(evt.run) : j.item = at[Subscriber]

(* The rows stay consistent: types, items with the jobs they name and jobs *)
(* with their items, one job for a run; and no transaction waits for what  *)
(* cannot come.                                                            *)
Inv == TypeOK /\ SessionHasJob /\ OneJobPerRun /\ NobodyStuck

(* A job is marked completed or failed only as its run really ended,       *)
(* however events are delayed and sessions rolled back; a job that never   *)
(* had a run is pending or failed.  An item is done only if a run          *)
(* dispatched for it has completed, or a PATCH has called it done: no      *)
(* rejected, failed or unanswered dispatch does, nor an event that comes   *)
(* late or twice.                                                          *)
JobTellsOutcome ==
    /\ \A j \in jobs :
         IF j.run = None THEN j.status \in {"pending", "failed"}
         ELSE /\ outcome[j.run] # "free"
              /\ j.status \in {"completed", "failed"} => outcome[j.run] = j.status
    /\ \A i \in Item : Exists(i) /\ items[i].status = "done" /\ "status" \notin given[i] =>
         \E j \in jobs : j.item = i /\ j.run # None /\ outcome[j.run] = "completed"

(* The dispatch history is never cut: a job with a run stays, with its     *)
(* item and run (GET /api/queue/{id}/status), whoever deletes items.       *)
HistoryKept ==
    [][\A j \in jobs : j.run # None =>
         \E k \in jobs' : k.item = j.item /\ k.run = j.run]_vars

(* Every request, every worker pass and every event is done with in the    *)
(* end: the row locks cannot deadlock, and a gateway that never answers    *)
(* holds no transaction open for ever.                                     *)
RequestsAnswered ==
    \A p \in Txn : (pc[p] # "idle") ~> (pc[p] = "idle")

(* "A later run can re-dispatch the same item" (dispatch_service.py:88-90):*)
(* an item left pending without a session is sent again by the worker,     *)
(* unless a user or another dispatch changes it first.                     *)
Waiting(i) ==
    /\ Exists(i)
    /\ items[i].column = "active" /\ items[i].agent = "known"
    /\ items[i].status = "pending" /\ items[i].session = None

PendingTried ==
    \A i \in Item : Waiting(i) ~> (~Waiting(i) \/ (pc[Worker] = "sending" /\ at[Worker] = i))

(* Requests are answered, and pending items are tried again.               *)
Served == RequestsAnswered /\ PendingTried

-----------------------------------------------------------------------------
(* What the repository says of dispatching and the code does not keep.     *)

(* "The mark_* helpers below capture every legal transition"               *)
(* (dispatch_repo.py:12-13): a completed or failed job never runs again.    *)
NoJobReopens ==
    [][\A j \in jobs, k \in jobs' :
         j.run # None /\ k.run = j.run /\ j.status \in {"completed", "failed"}
           => k.status # "running"]_vars

(* "Late events from an old run should not move a redispatched item"       *)
(* (test_dispatch_subscriber.py:104): an item becomes done only when the   *)
(* run it names has completed.                                             *)
DoneByCurrentRun ==
    [][\A i \in Item :
         (Exists(i) /\ items'[i] \in Row /\ items[i].status # "done" /\ items'[i].status = "done")
           => items[i].session # None /\ outcome[items[i].session] = "completed"]_vars

(* "Prompt-affecting edits to active work are picked up by the worker"     *)
(* (test_dispatch.py:238): the needs_update mark goes only when the item   *)
(* is dispatched again, or by another edit.                                *)
UpdatePickedUp ==
    [][\A i \in Item :
         (Exists(i) /\ items'[i] \in Row /\ items[i].status = "needs_update"
            /\ items'[i].status \in {"running", "done"})
           => items'[i].session # items[i].session]_vars

(* "A later run can re-dispatch the same item" (dispatch_service.py:88-90):*)
(* an item with a known agent left active and pending is one the worker    *)
(* would take.                                                             *)
PendingIsRetryable ==
    \A i \in Item :
      (Exists(i) /\ items[i].column = "active" /\ items[i].status = "pending"
         /\ items[i].agent = "known")
        => i \in RetryCandidates(items)

(* A successful dispatch leaves the item active and running                *)
(* (test_dispatch.py:157-160).                                             *)
DispatchedIsActive ==
    [][\A i \in Item :
         (Exists(i) /\ items'[i] \in Row /\ items'[i].session \notin {items[i].session, None})
           => items'[i].column = "active" /\ items'[i].status = "running"]_vars

(* The subscriber "mirrors Synapse run-status into PostgreSQL"             *)
(* (dispatch_subscriber.py:1): the job of a run that has ended says so in  *)
(* the end.                                                                *)
OutcomeMirrored ==
    \A r \in Run : \A o \in {"completed", "failed"} :
      (outcome[r] = o /\ JobOf(r) # {}) ~> (\E j \in JobOf(r) : j.status = o)
=============================================================================
