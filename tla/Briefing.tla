------------------------------- MODULE Briefing -----------------------------
(***************************************************************************)
(* Snoozes and the daily briefing: the snooze rows and the briefing flag   *)
(* of legacy tasks (services/snooze_service.py, repositories/              *)
(* snooze_repo.py), the sweep loops with their Redis lock, the decision on *)
(* a triaged email, and the briefing that is assembled from all of them    *)
(* and cached in Redis, day by day (services/briefing_service.py, cache/   *)
(* briefing_cache.py).                                                     *)
(*                                                                         *)
(* Every request and every sweep is one READ COMMITTED transaction:        *)
(* select, flush (which takes the row locks), invalidate the cache (not on *)
(* the deprecated route), commit.  A build reads block after block, each   *)
(* from what is committed then, and stores the whole.  Other transactions  *)
(* and builds fall between any two of these steps.                         *)
(*                                                                         *)
(* One email is modelled, today and one other day, and of Project-Box the  *)
(* version of its list of tasks.                                           *)
(***************************************************************************)
EXTENDS Naturals, FiniteSets

CONSTANTS
    Item,         \* what can be snoozed: a task
    Handler,      \* requests under way: snoozes, un-snooze, email, manual sweep
    Loop,         \* sweep loops, one per server process
    Reader,       \* briefing requests under way
    None,
    Slow,         \* a sweep may outlast the lock of its loop
    RedisReturns, \* a Redis outage ends
    MaxWrites,    \* bound: snoozes, un-snoozes, email decisions, manual sweeps
    MaxBuilds,    \* bound: briefings built
    MaxLists,     \* bound: changes of what Project-Box answers
    MaxFaults     \* bound: Redis outages and crashes of a sweeping process

ASSUME BriefingAssumption ==
    /\ IsFiniteSet(Loop)
    /\ Handler \cap Loop = {}
    /\ None \notin Item \cup Handler \cup Loop \cup Reader
    /\ None \notin [id : Nat, wake : Nat, due : BOOLEAN]
    /\ {Slow, RedisReturns} \subseteq BOOLEAN
    /\ {MaxWrites, MaxBuilds, MaxLists, MaxFaults} \subseteq Nat

Tx == Handler \cup Loop

(* The dates a briefing is asked for: today's, or any other.               *)
Day == {"today", "other"}

(* final_decision and the label the classifier gives with it.              *)
Decision == {"decision", "review", "other"}
Tier == {"partner", "blocked", "unknown"}

VARIABLES
    (* PostgreSQL, committed *)
    row,      \* Item -> its snooze row or None
    visible,  \* Item -> show_in_briefing of the legacy task
    dec,      \* final_decision of the email ("other" if it is handled)
    (* transactions *)
    pc,       \* Tx -> idle, selected, flushed, invalidated
    tx,       \* Tx -> what it has read and written
    (* Redis *)
    up,
    cache,    \* Day -> the cached briefing or None
    lock,     \* LOCK_KEY is set
    vault,    \* Project-Box: the version of the list it answers with
    (* builds *)
    at,       \* Reader -> the step of its build
    day,      \* Reader -> the day it builds for
    draft,    \* Reader -> the blocks read so far
    raced,    \* Reader -> a write was being published during the build
    (* history *)
    orphaned, \* Item -> why a hidden task may have no row: see Commit
    writes, begun, outages, crashes

database == <<row, visible, dec>>
redis == <<up, cache, lock>>
builds == <<at, day, draft, raced>>
counters == <<writes, begun, outages, crashes>>
vars == <<database, pc, tx, redis, vault, builds, orphaned, counters>>

(* A row: its primary key, the request that set its wake time, and whether *)
(* that time has come.                                                     *)
Row(id, wake) == [id |-> id, wake |-> wake, due |-> FALSE]

(* A transaction: its item and the number of its request, what its select  *)
(* found, the rows it deletes, the row it writes, the flags it writes, the *)
(* decision it writes.                                                     *)
NoTx == [op |-> "none", item |-> None, n |-> 0, got |-> {},
         del |-> {}, put |-> None, flag |-> {}, dec |-> None]

(* What the blocks are made of.  That a wake time has come since is no     *)
(* write, and shows when the entry expires.                                *)
Rows == [i \in Item |-> IF row[i] = None THEN None ELSE <<row[i].id, row[i].wake>>]
DecisionsBlock == dec = "decision"
PeopleBlock == dec = "review"

(* The runway and the stale block show the tasks of Project-Box that are   *)
(* not snoozed.  While it does not answer, the list has no tasks.          *)
TasksBlock == [snoozed |-> Rows, tasks |-> vault]

NoBlocks ==
    [decisions |-> None, people |-> None, runway |-> None, stale |-> None, awake |-> None]

Init ==
    /\ row = [i \in Item |-> None]
    /\ visible = [i \in Item |-> TRUE]
    /\ dec = "review"
    /\ pc = [h \in Tx |-> "idle"]
    /\ tx = [h \in Tx |-> NoTx]
    /\ up = TRUE
    /\ cache = [d \in Day |-> None]
    /\ lock = FALSE
    /\ vault = 0
    /\ at = [r \in Reader |-> "idle"]
    /\ day = [r \in Reader |-> "today"]
    /\ draft = [r \in Reader |-> NoBlocks]
    /\ raced = [r \in Reader |-> FALSE]
    /\ orphaned = [i \in Item |-> "no"]
    /\ writes = 0
    /\ begun = 0
    /\ outages = 0
    /\ crashes = 0

Writing == writes < MaxWrites /\ writes' = writes + 1
Expired(i) == row[i] # None /\ row[i].due

(* Locks last from the flush to the end of the transaction.  That the      *)
(* update of a legacy task waits for another one is left out: what it will *)
(* write was settled when the task was loaded.                             *)
Flushed(h) == pc[h] \in {"flushed", "invalidated"}
RowFree(i) == \A h \in Tx : Flushed(h) => /\ \A d \in tx[h].del : d[1] # i
                                          /\ tx[h].put = None \/ tx[h].item # i

(* What a flush adds to a transaction: the rows it deletes by the keys it  *)
(* has selected, whatever they hold by now; the flags of legacy tasks that *)
(* were loaded other than wanted.                                          *)
Removes(t) == [t EXCEPT !.del = t.got]

SetVisibility(t, items, b) ==
    [t EXCEPT !.flag = {<<i, b>> : i \in {j \in items : visible[j] # b}}]

Goes(h, where) == pc' = [pc EXCEPT ![h] = where]

(* Rollback, or the end of a transaction that wrote nothing. *)
Over(h) ==
    /\ Goes(h, "idle")
    /\ tx' = [tx EXCEPT ![h] = NoTx]

-----------------------------------------------------------------------------
(* create_snooze: upsert, hide the legacy task, invalidate.                *)

Selects(h, op, i, n, found) ==
    /\ pc[h] = "idle"
    /\ Goes(h, "selected")
    /\ tx' = [tx EXCEPT ![h] = [NoTx EXCEPT !.op = op, !.item = i, !.n = n, !.got = found]]

Snooze(h, i) ==
    /\ Writing
    /\ Selects(h, "create", i, writes + 1,
               IF row[i] = None THEN {} ELSE {<<i, row[i].id>>})
    /\ UNCHANGED <<database, redis, vault, builds, orphaned, begun, outages, crashes>>

(* The flush of the upsert: an update of the row that was found, or an     *)
(* insert.  It fails when the row is gone, or another one has the key.     *)
Found(h) == IF tx[h].got = {} THEN None ELSE (CHOOSE g \in tx[h].got : TRUE)[2]

CurrentId(i) == IF row[i] = None THEN None ELSE row[i].id

UpsertFlush(h) ==
    LET i == tx[h].item
        n == tx[h].n
    IN
    /\ pc[h] = "selected" /\ tx[h].op = "create"
    /\ RowFree(i)
    /\ IF Found(h) # CurrentId(i)
       THEN Over(h)
       ELSE /\ Goes(h, "flushed")
            /\ tx' = [tx EXCEPT ![h] =
                 [SetVisibility(tx[h], {i}, FALSE) EXCEPT
                    !.put = Row(IF Found(h) = None THEN n ELSE Found(h), n)]]
    /\ UNCHANGED <<database, redis, vault, builds, orphaned, counters>>

(* remove_snooze: the row found by its key is deleted; if it is gone by    *)
(* then, nothing is.  The flag is left alone.                              *)
Unsnooze(h, i) ==
    /\ row[i] # None
    /\ Writing
    /\ Selects(h, "remove", i, 0, {<<i, row[i].id>>})
    /\ UNCHANGED <<database, redis, vault, builds, orphaned, begun, outages, crashes>>

RemoveFlush(h) ==
    /\ pc[h] = "selected" /\ tx[h].op = "remove"
    /\ RowFree(tx[h].item)
    /\ Goes(h, "flushed")
    /\ tx' = [tx EXCEPT ![h] = Removes(tx[h])]
    /\ UNCHANGED <<database, redis, vault, builds, orphaned, counters>>

(* POST /api/tasks/{id}/snooze: task_service.snooze hides the legacy task, *)
(* with its own wake time and no snooze row, and invalidates nothing.      *)
LegacySnooze(h, i) ==
    /\ pc[h] = "idle"
    /\ Writing
    /\ Goes(h, "flushed")
    /\ tx' = [tx EXCEPT ![h] = SetVisibility([NoTx EXCEPT !.op = "legacy", !.item = i], {i}, FALSE)]
    /\ UNCHANGED <<database, redis, vault, builds, orphaned, begun, outages, crashes>>

(* The flush of a decision on the email, by hand or by the classifier. *)
Decides(h, d) ==
    /\ pc[h] = "idle"
    /\ Writing
    /\ \A g \in Tx : Flushed(g) => tx[g].dec = None
    /\ Goes(h, "flushed")
    /\ tx' = [tx EXCEPT ![h] = [NoTx EXCEPT !.op = "email", !.dec = d]]
    /\ UNCHANGED <<database, redis, vault, builds, orphaned, begun, outages, crashes>>

(* set_email_decision: any decision may be written, also the one there is, *)
(* or the email is marked as handled, which hides it like any other.       *)
SetDecision(h) == \E d \in Decision : Decides(h, d)

(* The tier of the sender: its contact, else its domain, else unknown.     *)
ResolveTier(contact, domain) ==
    IF contact # None THEN contact ELSE IF domain # None THEN domain ELSE "unknown"

(* The rules of the classifier, first match first.  Converted, dropped and *)
(* newsletter mail is in no block of the briefing.                         *)
Classify(tier, dropHint, newsletter, converted) ==
    IF converted \/ tier = "blocked" \/ dropHint \/ newsletter THEN "other"
    ELSE IF tier = "partner" THEN "decision" ELSE "review"

(* classify_email: the tier is read anew, the rest is the email's own.     *)
Verdicts ==
    {Classify(ResolveTier(contact, domain), dropHint, newsletter, converted) :
        contact \in Tier \cup {None}, domain \in Tier \cup {None},
        dropHint \in BOOLEAN, newsletter \in BOOLEAN, converted \in BOOLEAN}

AutoClassify(h) == \E d \in Verdicts : Decides(h, d)

-----------------------------------------------------------------------------
(* sweep_once, called by a loop that has the lock or by POST /sweep.       *)

SweepSelects(h) ==
    LET found == {<<i, row[i].id>> : i \in {j \in Item : Expired(j)}} IN
    IF found = {} THEN UNCHANGED <<pc, tx>> ELSE Selects(h, "sweep", None, 0, found)

(* Defect: the lock is set whether or not it is held. *)
LoopTicksWithoutNX(h) ==
    /\ pc[h] = "idle"
    /\ lock' = IF up THEN TRUE ELSE lock
    /\ SweepSelects(h)
    /\ UNCHANGED <<database, up, cache, vault, builds, orphaned, counters>>

(* _try_acquire_lock: SET NX EX; without Redis it is taken for granted. *)
LoopTicks(h) ==
    /\ pc[h] = "idle"
    /\ ~up \/ ~lock
    /\ lock' = IF up THEN TRUE ELSE lock
    /\ SweepSelects(h)
    /\ UNCHANGED <<database, up, cache, vault, builds, orphaned, counters>>

SweepNow(h) ==
    /\ pc[h] = "idle"
    /\ Writing
    /\ SweepSelects(h)
    /\ UNCHANGED <<database, redis, vault, builds, orphaned, begun, outages, crashes>>

(* Defect: the tasks stay hidden. *)
SweepFlushKeepsHidden(h) ==
    LET swept == {g[1] : g \in tx[h].got} IN
    /\ pc[h] = "selected" /\ tx[h].op = "sweep"
    /\ \A i \in swept : RowFree(i)
    /\ Goes(h, "flushed")
    /\ tx' = [tx EXCEPT ![h] = Removes(tx[h])]
    /\ UNCHANGED <<database, redis, vault, builds, orphaned, counters>>

(* The rows are deleted, and the legacy tasks of all that were found       *)
(* become visible.                                                         *)
SweepFlush(h) ==
    LET swept == {g[1] : g \in tx[h].got} IN
    /\ pc[h] = "selected" /\ tx[h].op = "sweep"
    /\ \A i \in swept : RowFree(i)
    /\ Goes(h, "flushed")
    /\ tx' = [tx EXCEPT ![h] = SetVisibility(Removes(tx[h]), swept, TRUE)]
    /\ UNCHANGED <<database, redis, vault, builds, orphaned, counters>>

-----------------------------------------------------------------------------
(* The end of a transaction: briefing_cache.invalidate, which raises when  *)
(* Redis is away and so rolls everything back; then the commit.  A snooze  *)
(* and a sweep clear every day, a decision on an email only today's; the   *)
(* deprecated route none.                                                  *)

Clears(h) == IF tx[h].op = "legacy" THEN {} ELSE IF tx[h].op = "email" THEN {"today"} ELSE Day

Building == {r \in Reader : at[r] # "idle"}

(* The keys are deleted; what is being built for one of these days will    *)
(* be stored after that.                                                   *)
Drops(h) ==
    /\ cache' = [d \in Day |-> IF d \in Clears(h) THEN None ELSE cache[d]]
    /\ raced' = [r \in Reader |-> raced[r] \/ (r \in Building /\ day[r] \in Clears(h))]

(* Defect: without Redis the invalidation is skipped, the write kept. *)
InvalidateOrSkip(h) ==
    /\ pc[h] = "flushed" /\ tx[h].op # "legacy"
    /\ Goes(h, "invalidated")
    /\ IF up THEN Drops(h) ELSE UNCHANGED <<cache, raced>>
    /\ UNCHANGED <<database, tx, up, lock, vault, at, day, draft, orphaned, counters>>

Invalidate(h) ==
    /\ pc[h] = "flushed" /\ tx[h].op # "legacy"
    /\ \/ up /\ Drops(h) /\ Goes(h, "invalidated") /\ UNCHANGED tx
       \/ ~up /\ Over(h) /\ UNCHANGED <<cache, raced>>
    /\ UNCHANGED <<database, up, lock, vault, at, day, draft, orphaned, counters>>

Commit(h) ==
    LET t == tx[h] IN
    /\ pc[h] = (IF t.op = "legacy" THEN "flushed" ELSE "invalidated")
    /\ row' = [i \in Item |->
         IF t.put # None /\ t.item = i THEN t.put
         ELSE IF <<i, CurrentId(i)>> \in t.del THEN None ELSE row[i]]
    /\ visible' = [i \in Item |->
         IF \E b \in BOOLEAN : <<i, b>> \in t.flag THEN <<i, TRUE>> \in t.flag ELSE visible[i]]
    /\ dec' = IF t.dec = None THEN dec ELSE t.dec
    /\ orphaned' = CASE t.op = "remove" -> [orphaned EXCEPT ![t.item] = "unsnoozed"]
                     [] t.op = "legacy" -> [orphaned EXCEPT ![t.item] = "hidden"]
                     [] t.op = "create" -> [orphaned EXCEPT ![t.item] = "no"]
                     [] OTHER -> orphaned
    /\ Over(h)
    /\ UNCHANGED <<redis, vault, builds, counters>>

(* The process of a loop dies in its sweep and is started again. *)
Crash(h) ==
    /\ pc[h] # "idle"
    /\ outages + crashes < MaxFaults
    /\ crashes' = crashes + 1
    /\ Over(h)
    /\ UNCHANGED <<database, redis, vault, builds, orphaned, writes, begun, outages>>

-----------------------------------------------------------------------------
(* build_briefing.                                                         *)

Publishing(d) == \E h \in Tx : pc[h] = "invalidated" /\ d \in Clears(h)

(* The build begins, and reads its first block.                            *)
Begins(r, d) ==
    /\ at[r] = "idle"
    /\ begun < MaxBuilds
    /\ begun' = begun + 1
    /\ at' = [at EXCEPT ![r] = "people"]
    /\ day' = [day EXCEPT ![r] = d]
    /\ draft' = [draft EXCEPT ![r].decisions = DecisionsBlock]
    /\ raced' = [raced EXCEPT ![r] = Publishing(d)]
    /\ UNCHANGED <<database, pc, tx, redis, vault, orphaned, writes, outages, crashes>>

(* A request that finds the day in the cache is answered with it, and that *)
(* changes nothing; without Redis nothing is found; a refresh, or no_cache *)
(* with any date, never looks.                                             *)
GetToday(r, d) == (up => cache[d] = None) /\ Begins(r, d)
RefreshToday(r, d) == Begins(r, d)

Reads(r, block, shown, next) ==
    /\ at[r] = block
    /\ at' = [at EXCEPT ![r] = next]
    /\ draft' = [draft EXCEPT ![r][block] = shown]
    /\ UNCHANGED <<database, pc, tx, redis, vault, day, raced, orphaned, counters>>

ReadPeople(r) == Reads(r, "people", PeopleBlock, "runway")
ReadRunway(r) == Reads(r, "runway", TasksBlock, "stale")
ReadStale(r) == Reads(r, "stale", TasksBlock, "awake")
ReadAwake(r) == Reads(r, "awake", Rows, "store")

Store(r) ==
    /\ at[r] = "store"
    /\ at' = [at EXCEPT ![r] = "idle"]
    /\ cache' = IF up THEN [cache EXCEPT ![day[r]] = [blocks |-> draft[r], raced |-> raced[r]]]
                      ELSE cache
    /\ day' = [day EXCEPT ![r] = "today"]
    /\ draft' = [draft EXCEPT ![r] = NoBlocks]
    /\ raced' = [raced EXCEPT ![r] = FALSE]
    /\ UNCHANGED <<database, pc, tx, up, lock, vault, orphaned, counters>>

-----------------------------------------------------------------------------
(* Time and failures.                                                      *)

WakeTimePasses(i) ==
    /\ row[i] # None /\ ~row[i].due
    /\ row' = [row EXCEPT ![i].due = TRUE]
    /\ UNCHANGED <<visible, dec, pc, tx, redis, vault, builds, orphaned, counters>>

CacheExpires(d) ==
    /\ cache[d] # None
    /\ cache' = [cache EXCEPT ![d] = None]
    /\ UNCHANGED <<database, pc, tx, up, lock, vault, builds, orphaned, counters>>

(* A task is created, updated or deleted in Project-Box, by this server or *)
(* by others, or it is away or back: nothing of it clears the briefing.    *)
BoxWrites ==
    /\ vault < MaxLists
    /\ vault' = vault + 1
    /\ UNCHANGED <<database, pc, tx, redis, builds, orphaned, counters>>

Sweeping == {h \in Loop : pc[h] # "idle"}

(* Defect: the lock is only given up by a sweep that finds nothing. *)
LockNeedsRelease ==
    /\ lock
    /\ Sweeping = {} /\ crashes = 0
    /\ lock' = FALSE
    /\ UNCHANGED <<database, pc, tx, up, cache, vault, builds, orphaned, counters>>

LockExpires ==
    /\ lock
    /\ Slow \/ Sweeping = {}
    /\ lock' = FALSE
    /\ UNCHANGED <<database, pc, tx, up, cache, vault, builds, orphaned, counters>>

RedisFails ==
    /\ up
    /\ outages + crashes < MaxFaults
    /\ outages' = outages + 1
    /\ up' = FALSE
    /\ UNCHANGED <<database, pc, tx, cache, lock, vault, builds, orphaned, writes, begun, crashes>>

RedisBack ==
    /\ ~up
    /\ RedisReturns
    /\ up' = TRUE
    /\ UNCHANGED <<database, pc, tx, cache, lock, vault, builds, orphaned, counters>>

-----------------------------------------------------------------------------
TxStep(h) ==
    \/ UpsertFlush(h) \/ RemoveFlush(h) \/ SweepFlush(h) \/ Invalidate(h) \/ Commit(h)

BuildStep(r) ==
    ReadPeople(r) \/ ReadRunway(r) \/ ReadStale(r) \/ ReadAwake(r) \/ Store(r)

Next ==
    \/ \E h \in Handler :
        \/ \E i \in Item : Snooze(h, i) \/ Unsnooze(h, i) \/ LegacySnooze(h, i)
        \/ SetDecision(h) \/ AutoClassify(h)
        \/ SweepNow(h)
    \/ \E h \in Loop : LoopTicks(h) \/ Crash(h)
    \/ \E h \in Tx : TxStep(h)
    \/ \E r \in Reader, d \in Day : GetToday(r, d) \/ RefreshToday(r, d)
    \/ \E r \in Reader : BuildStep(r)
    \/ \E i \in Item : WakeTimePasses(i)
    \/ \E d \in Day : CacheExpires(d)
    \/ BoxWrites \/ LockExpires \/ RedisFails \/ RedisBack

Spec == Init /\ [][Next]_vars

(* Requests come to their end: PostgreSQL grants a lock in turn, whoever   *)
(* else wants it.  Some loop finds the lock free when its minute is over.  *)
(* Redis expires the lock, and comes back if it does.                      *)
Fairness ==
    /\ \A h \in Tx : SF_vars(TxStep(h))
    /\ WF_vars(\E h \in Loop : LoopTicks(h))
    /\ WF_vars(LockExpires)
    /\ WF_vars(RedisBack)

FairSpec == Spec /\ Fairness

-----------------------------------------------------------------------------
(* Properties.                                                             *)

SnoozeItem == {None} \cup [id : Nat, wake : Nat, due : BOOLEAN]

Snoozes == [Item -> {None} \cup (Nat \X Nat)]
Tasks == [snoozed : Snoozes, tasks : Nat]
Draft == [decisions : BOOLEAN \cup {None}, people : BOOLEAN \cup {None},
          runway : Tasks \cup {None}, stale : Tasks \cup {None}, awake : Snoozes \cup {None}]

(* Types: the rows of the three tables, the transactions on them, the      *)
(* readers and what is in Redis.                                           *)
TypeOK ==
    /\ row \in [Item -> SnoozeItem]
    /\ visible \in [Item -> BOOLEAN]
    /\ dec \in Decision
    /\ pc \in [Tx -> {"idle", "selected", "flushed", "invalidated"}]
    /\ tx \in [Tx -> [op : {"none", "create", "remove", "legacy", "email", "sweep"},
                     item : Item \cup {None}, n : Nat, got : SUBSET (Item \X Nat),
                     del : SUBSET (Item \X Nat), put : SnoozeItem,
                     flag : SUBSET (Item \X BOOLEAN), dec : Decision \cup {None}]]
    /\ {up, lock} \subseteq BOOLEAN
    /\ cache \in [Day -> {None} \cup [blocks : Draft, raced : BOOLEAN]]
    /\ at \in [Reader -> {"idle", "people", "runway", "stale", "awake", "store"}]
    /\ day \in [Reader -> Day]
    /\ draft \in [Reader -> Draft]
    /\ raced \in [Reader -> BOOLEAN]
    /\ orphaned \in [Item -> {"no", "unsnoozed", "hidden"}]
    /\ {vault, writes, begun, outages, crashes} \subseteq Nat

(* What a briefing shows of the snoozes, and of the email.                 *)
ShowsSnoozes(b) == b.runway.snoozed = Rows /\ b.stale.snoozed = Rows /\ b.awake = Rows
ShowsEmail(b) == b.decisions = DecisionsBlock /\ b.people = PeopleBlock

(* A cached briefing shows the snoozes that are committed, whatever its    *)
(* day, and today's also the decisions on the emails, unless its build met *)
(* a write between that write's invalidation and its commit, or was under  *)
(* way at the invalidation.  So every such write that is kept has cleared  *)
(* what shows it, also when Redis fails in the middle of it.  Nothing is   *)
(* said of the tasks of Project-Box, nor of the emails under another date. *)
FreshUnlessRaced ==
    \A d \in Day : cache[d] # None /\ ~cache[d].raced =>
        /\ ShowsSnoozes(cache[d].blocks)
        /\ d = "today" => ShowsEmail(cache[d].blocks)

(* A legacy task that is hidden has a snooze that will bring it back, or   *)
(* it is known why it has none: its snooze was removed by a user (which    *)
(* leaves it hidden), or it was hidden by the deprecated route (which      *)
(* writes no row).  So no overlap of snoozes, sweeps and these two loses a *)
(* row and keeps the flag.                                                 *)
HiddenComesBack ==
    \A i \in Item : ~visible[i] => row[i] # None \/ orphaned[i] # "no"

(* The loops of several processes do not sweep at the same time, as long   *)
(* as Redis is there and no sweep outlasts its lock: also not after a      *)
(* crash, or when the lock is taken and nothing is found.                  *)
OneLoopSweeps ==
    ~Slow /\ outages = 0 => Cardinality(Sweeping) <= 1

(* Rows, transactions and the lock are well formed, and one loop sweeps.   *)
Inv == TypeOK /\ OneLoopSweeps

(* A snooze whose time has come is swept (or renewed), whatever crashes,   *)
(* outages and overlapping sweeps there are.                               *)
Wakes ==
    \A i \in Item : Expired(i) ~> ~Expired(i)

(* Only expired snoozes are swept ("Delete snooze rows whose wake_at is in *)
(* the past; return what we removed").                                     *)
SweepTakesExpired ==
    [][\A i \in Item :
           row[i] # None /\ row'[i] = None => Expired(i) \/ orphaned'[i] = "unsnoozed"]_vars

(* Un-snoozing shows the legacy task again ("delete the row, restore       *)
(* visibility").                                                           *)
UnsnoozeRestores ==
    \A i \in Item : orphaned[i] = "unsnoozed" => visible[i]

(* A task that is snoozed on the deprecated route wakes ("Snooze a legacy  *)
(* kanban task", and the answer names the time).                           *)
DeprecatedWakes ==
    \A i \in Item : orphaned[i] = "hidden" ~> visible[i]

(* The response of a write comes after the briefing is invalidated, so     *)
(* what is cached for today between writes is what is committed ("Set a    *)
(* manual triage decision and invalidate today's briefing cache").         *)
Idle == \A h \in Tx : pc[h] = "idle"
WritesAreShown ==
    Idle /\ cache["today"] # None => /\ ShowsSnoozes(cache["today"].blocks)
                                    /\ ShowsEmail(cache["today"].blocks)

(* The same of the tasks: the runway and the stale block show the list     *)
(* that Project-Box has ("Project-Box is now the source of truth for       *)
(* tasks").                                                                *)
TasksAreShown ==
    cache["today"] # None => \A b \in {"runway", "stale"} : cache["today"].blocks[b].tasks = vault

(* A briefing that is asked for by its date shows the decisions as well.   *)
EveryDayIsShown ==
    \A d \in Day : Idle /\ cache[d] # None /\ ~cache[d].raced => ShowsEmail(cache[d].blocks)
=============================================================================
