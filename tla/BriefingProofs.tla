---------------------------- MODULE BriefingProofs ---------------------------
(***************************************************************************)
(* Proofs about Briefing, for every set of items, requests, sweep loops    *)
(* and readers.                                                            *)
(***************************************************************************)
EXTENDS Briefing, FiniteSetTheorems, TLAPS

-----------------------------------------------------------------------------
(* Types.                                                                  *)

(* What the record of a transaction may hold. *)
TxRecord ==
    [op : {"none", "create", "remove", "legacy", "email", "sweep"},
     item : Item \cup {None}, n : Nat, got : SUBSET (Item \X Nat),
     del : SUBSET (Item \X Nat), put : SnoozeItem,
     flag : SUBSET (Item \X BOOLEAN), dec : Decision \cup {None}]

PcType == pc \in [Tx -> {"idle", "selected", "flushed", "invalidated"}]
TxType == tx \in [Tx -> TxRecord]
DbType == row \in [Item -> SnoozeItem] /\ visible \in [Item -> BOOLEAN] /\ dec \in Decision
Entry == [blocks : Draft, raced : BOOLEAN]
RedisType == up \in BOOLEAN /\ lock \in BOOLEAN /\ cache \in [Day -> {None} \cup Entry]
BuildType == /\ at \in [Reader -> {"idle", "people", "runway", "stale", "awake", "store"}]
             /\ day \in [Reader -> Day]
             /\ draft \in [Reader -> Draft]
             /\ raced \in [Reader -> BOOLEAN]
OrphanType == orphaned \in [Item -> {"no", "unsnoozed", "hidden"}]
CountType == {vault, writes, begun, outages, crashes} \subseteq Nat

(* The parts of the type invariant, one for each group of variables. *)
LEMMA TypeParts ==
    TypeOK <=> /\ DbType /\ PcType /\ TxType /\ RedisType /\ BuildType
               /\ OrphanType /\ CountType
BY DEF TypeOK, DbType, PcType, TxType, RedisType, Entry, BuildType, OrphanType, CountType,
       TxRecord

(* The record of a transaction that does not run has its type. *)
LEMMA NoTxTyped == NoTx \in TxRecord
BY DEF NoTx, TxRecord, SnoozeItem, Decision

(* Ending a transaction keeps the types of the transactions. *)
LEMMA OverTyped ==
    ASSUME PcType, TxType, NEW h \in Tx, Over(h)
    PROVE  PcType' /\ TxType'
BY NoTxTyped DEF PcType, TxType, Over, Goes

(* So does beginning one with what its select found. *)
LEMMA SelectsTyped ==
    ASSUME PcType, TxType, NEW h \in Tx, NEW op \in {"create", "remove", "sweep"},
           NEW i \in Item \cup {None}, NEW n \in Nat, NEW found \in SUBSET (Item \X Nat),
           Selects(h, op, i, n, found)
    PROVE  PcType' /\ TxType'
<1>1. [NoTx EXCEPT !.op = op, !.item = i, !.n = n, !.got = found] \in TxRecord
    BY NoTxTyped DEF TxRecord
<1> QED BY <1>1 DEF PcType, TxType, Selects, Goes

(* Whatever rows a select finds, their keys are numbers. *)
LEMMA SelectTyped ==
    ASSUME DbType, NEW I \in SUBSET Item, \A i \in I : row[i] # None
    PROVE  {<<i, row[i].id>> : i \in I} \in SUBSET (Item \X Nat)
BY DEF DbType, SnoozeItem

(* The flags of legacy tasks are written as Booleans. *)
LEMMA FlagTyped ==
    ASSUME NEW t \in TxRecord, NEW I \in SUBSET Item, NEW b \in BOOLEAN
    PROVE  SetVisibility(t, I, b) \in TxRecord
BY DEF TxRecord, SetVisibility

(* A row that is written has its type, and is not None. *)
LEMMA RowTyped ==
    ASSUME NEW id \in Nat, NEW wake \in Nat
    PROVE  Row(id, wake) \in SnoozeItem /\ Row(id, wake) # None
<1>1. Row(id, wake) \in [id : Nat, wake : Nat, due : BOOLEAN]
    BY DEF Row
<1>2. None \notin [id : Nat, wake : Nat, due : BOOLEAN]
    BY BriefingAssumption
<1> QED BY <1>1, <1>2, Zenon DEF SnoozeItem

(* The key a select found is a number. *)
LEMMA FoundTyped ==
    ASSUME TxType, NEW h \in Tx
    PROVE  Found(h) \in Nat \cup {None}
<1>1. tx[h].got \in SUBSET (Item \X Nat)
    BY DEF TxType, TxRecord
<1>2. CASE tx[h].got = {}
    BY <1>2 DEF Found
<1>3. CASE tx[h].got # {}
    <2>1. (CHOOSE g \in tx[h].got : TRUE) \in Item \X Nat
        BY <1>1, <1>3
    <2> QED BY <1>3, <2>1 DEF Found
<1> QED BY <1>2, <1>3

(* What a block shows of the snoozes has its type, and so has a block.     *)
LEMMA ShownTyped ==
    ASSUME DbType, CountType
    PROVE  Rows \in Snoozes /\ TasksBlock \in Tasks
<1>1. ASSUME NEW i \in Item
      PROVE  (IF row[i] = None THEN None ELSE <<row[i].id, row[i].wake>>)
                \in {None} \cup (Nat \X Nat)
    BY <1>1 DEF DbType, SnoozeItem
<1>2. Rows \in Snoozes
    BY <1>1 DEF Rows, Snoozes
<1> HIDE DEF Rows
<1> QED BY <1>2 DEF TasksBlock, Tasks, CountType

LEMMA NoBlocksTyped == NoBlocks \in Draft
BY DEF NoBlocks, Draft

(* The types hold at the start. *)
LEMMA TypeInit == Init => TypeOK
<1> SUFFICES ASSUME Init PROVE TypeOK
    OBVIOUS
<1>1. DbType
    BY DEF Init, DbType, SnoozeItem, Decision
<1>2. PcType /\ BuildType
    BY NoBlocksTyped DEF Init, PcType, BuildType, Day
<1>3. TxType
    BY NoTxTyped DEF Init, TxType
<1>4. RedisType
    <2>1. up \in BOOLEAN /\ lock \in BOOLEAN
        BY Zenon DEF Init
    <2>2. cache \in [Day -> {None} \cup Entry]
        BY DEF Init
    <2> QED BY <2>1, <2>2 DEF RedisType
<1>5. OrphanType /\ CountType
    BY DEF Init, OrphanType, CountType
<1> QED BY <1>1, <1>2, <1>3, <1>4, <1>5, TypeParts


(* A snooze and an un-snooze have an item.  The deprecated route and a     *)
(* decision on an email write no row, and that route no decision.  A       *)
(* transaction that has only selected has written nothing, and has found   *)
(* no row but its item's if it is no sweep.                                *)
WritesOK(t) ==
    /\ t.op \in {"create", "remove", "legacy"} => t.item \in Item
    /\ t.op \in {"legacy", "email"} => t.put = None /\ t.del = {}
    /\ t.op = "legacy" => t.dec = None

SelectedOK(h) ==
    /\ WritesOK(tx[h])
    /\ pc[h] = "selected" =>
        /\ tx[h].op \in {"create", "remove", "sweep"}
        /\ tx[h].del = {} /\ tx[h].put = None /\ tx[h].flag = {}
        /\ tx[h].op # "sweep" => \A d \in tx[h].got : d[1] = tx[h].item

SelectedInv == \A h \in Tx : SelectedOK(h)

Shape == TypeOK /\ SelectedInv

(* The end of a transaction keeps what holds of the selected ones. *)
LEMMA OverSelected ==
    ASSUME PcType, TxType, SelectedInv, NEW h \in Tx, Over(h)
    PROVE  SelectedInv'
BY DEF PcType, TxType, SelectedInv, SelectedOK, WritesOK, Over, Goes, NoTx

(* So does a select, when what it found is of its item or it is a sweep. *)
LEMMA SelectsSelected ==
    ASSUME PcType, TxType, SelectedInv,
           NEW h \in Tx, NEW op \in {"create", "remove", "sweep"},
           NEW i, NEW n, NEW found,
           Selects(h, op, i, n, found),
           op # "sweep" => i \in Item /\ \A d \in found : d[1] = i
    PROVE  SelectedInv'
<1> DEFINE new == [NoTx EXCEPT !.op = op, !.item = i, !.n = n, !.got = found]
<1>1. /\ new.op = op /\ new.item = i /\ new.got = found
      /\ new.del = {} /\ new.put = None /\ new.flag = {}
    BY DEF NoTx
<1>2. tx' = [tx EXCEPT ![h] = new]
    BY DEF Selects
<1>3. tx'[h] = new
    BY <1>2 DEF TxType
<1>4. ASSUME NEW g \in Tx
      PROVE  SelectedOK(g)'
    <2>1. CASE g = h
        BY <1>1, <1>3, <2>1 DEF SelectedOK, WritesOK
    <2>2. CASE g # h
        BY <1>2, <2>2 DEF SelectedInv, SelectedOK, PcType, TxType, Selects, Goes
    <2> QED BY <2>1, <2>2
<1> QED BY <1>4 DEF SelectedInv

(* And a step that takes a transaction past its select. *)
LEMMA GoesSelected ==
    ASSUME PcType, TxType, SelectedInv, NEW h \in Tx, NEW to \in {"flushed", "invalidated"},
           NEW t, WritesOK(t),
           Goes(h, to), tx' = [tx EXCEPT ![h] = t]
    PROVE  SelectedInv'
BY DEF PcType, TxType, SelectedInv, SelectedOK, Goes

(* The flush of a snooze keeps the types. *)
LEMMA UpsertShape ==
    ASSUME Shape, NEW h \in Tx, UpsertFlush(h)
    PROVE  PcType' /\ TxType' /\ SelectedInv'
<1> DEFINE t == tx[h]
           new == [SetVisibility(t, {t.item}, FALSE) EXCEPT
                     !.put = Row(IF Found(h) = None THEN t.n ELSE Found(h), t.n)]
<1>1. PcType /\ TxType /\ SelectedInv
    BY TypeParts DEF Shape
<1>2. CASE Found(h) # CurrentId(t.item)
    <2>1. Over(h)
        BY <1>2 DEF UpsertFlush
    <2> QED BY <1>1, <2>1, OverTyped, OverSelected
<1>3. CASE Found(h) = CurrentId(t.item)
    <2>1. t \in TxRecord
        BY <1>1 DEF TxType
    <2>2. t.item \in Item /\ t.n \in Nat
        BY <1>1, <2>1 DEF UpsertFlush, SelectedInv, SelectedOK, WritesOK, TxRecord
    <2>3. Row(IF Found(h) = None THEN t.n ELSE Found(h), t.n) \in SnoozeItem
        BY <1>1, <2>2, FoundTyped, RowTyped
    <2>4. SetVisibility(t, {t.item}, FALSE) \in TxRecord
        BY <2>1, <2>2, FlagTyped
    <2>5. new \in TxRecord
        BY <2>3, <2>4 DEF TxRecord
    <2>6. Goes(h, "flushed") /\ tx' = [tx EXCEPT ![h] = new]
        BY <1>3 DEF UpsertFlush
    <2>7. PcType' /\ TxType'
        BY <1>1, <2>5, <2>6 DEF PcType, TxType, Goes
    <2>8. new.op = t.op /\ new.item = t.item /\ t.op = "create"
        BY <2>1 DEF SetVisibility, TxRecord, UpsertFlush
    <2> HIDE DEF new
    <2>9. WritesOK(new)
        BY <2>2, <2>8 DEF WritesOK
    <2> QED BY <1>1, <2>6, <2>7, <2>9, GoesSelected
<1> QED BY <1>2, <1>3

(* So do the flushes of an un-snooze and of a sweep. *)
LEMMA DeleteShape ==
    ASSUME Shape, NEW h \in Tx, RemoveFlush(h) \/ SweepFlush(h)
    PROVE  PcType' /\ TxType' /\ SelectedInv'
<1> DEFINE swept == {g[1] : g \in tx[h].got}
<1>1. PcType /\ TxType /\ SelectedInv
    BY TypeParts DEF Shape
<1>2. tx[h] \in TxRecord
    BY <1>1 DEF TxType
<1>3. Removes(tx[h]) \in TxRecord
    BY <1>2 DEF Removes, TxRecord
<1>4. swept \in SUBSET Item
    BY <1>2 DEF TxRecord
<1>5. SetVisibility(Removes(tx[h]), swept, TRUE) \in TxRecord
    BY <1>3, <1>4, FlagTyped
<1>6. PICK new \in TxRecord : /\ Goes(h, "flushed") /\ tx' = [tx EXCEPT ![h] = new]
                              /\ new.op = tx[h].op /\ new.item = tx[h].item
                              /\ new.op \in {"remove", "sweep"}
    <2>1. Removes(tx[h]).op = tx[h].op /\ Removes(tx[h]).item = tx[h].item
        BY <1>2 DEF Removes, TxRecord
    <2>2. /\ SetVisibility(Removes(tx[h]), swept, TRUE).op = tx[h].op
          /\ SetVisibility(Removes(tx[h]), swept, TRUE).item = tx[h].item
        BY <1>2 DEF SetVisibility, Removes, TxRecord
    <2> QED BY <1>3, <1>5, <2>1, <2>2 DEF RemoveFlush, SweepFlush
<1>7. PcType' /\ TxType'
    BY <1>1, <1>6 DEF PcType, TxType, Goes
<1>8. WritesOK(new)
    BY <1>1, <1>6 DEF SelectedInv, SelectedOK, WritesOK
<1> QED BY <1>1, <1>6, <1>7, <1>8, GoesSelected

(* And the flushes of a decision on the email, and of the deprecated route. *)
LEMMA StraightShape ==
    ASSUME Shape, NEW h \in Tx, NEW t \in TxRecord, WritesOK(t),
           Goes(h, "flushed"), tx' = [tx EXCEPT ![h] = t]
    PROVE  PcType' /\ TxType' /\ SelectedInv'
<1>1. PcType /\ TxType /\ SelectedInv
    BY TypeParts DEF Shape
<1>2. PcType' /\ TxType'
    BY <1>1 DEF PcType, TxType, Goes
<1> QED BY <1>1, <1>2, GoesSelected

LEMMA DecidesShape ==
    ASSUME Shape, NEW h \in Tx, NEW d \in Decision, Decides(h, d)
    PROVE  PcType' /\ TxType' /\ SelectedInv'
<1> DEFINE t == [NoTx EXCEPT !.op = "email", !.dec = d]
<1>1. t \in TxRecord
    BY NoTxTyped DEF TxRecord
<1>2. t.op = "email" /\ t.put = None /\ t.del = {}
    BY DEF NoTx
<1>3. Goes(h, "flushed") /\ tx' = [tx EXCEPT ![h] = t]
    BY DEF Decides
<1> HIDE DEF t
<1>4. WritesOK(t)
    BY <1>2 DEF WritesOK
<1> QED BY <1>1, <1>3, <1>4, StraightShape

LEMMA LegacyShape ==
    ASSUME Shape, NEW h \in Tx, NEW i \in Item, LegacySnooze(h, i)
    PROVE  PcType' /\ TxType' /\ SelectedInv'
<1> DEFINE new == [NoTx EXCEPT !.op = "legacy", !.item = i]
           t == SetVisibility(new, {i}, FALSE)
<1>1. new \in TxRecord
    BY NoTxTyped DEF TxRecord
<1>2. t \in TxRecord
    BY <1>1, FlagTyped
<1>3. t.op = "legacy" /\ t.item = i /\ t.put = None /\ t.del = {} /\ t.dec = None
    BY DEF NoTx, SetVisibility
<1>4. Goes(h, "flushed") /\ tx' = [tx EXCEPT ![h] = t]
    BY DEF LegacySnooze
<1> HIDE DEF t
<1>5. WritesOK(t)
    BY <1>3 DEF WritesOK
<1> QED BY <1>2, <1>4, <1>5, StraightShape

(* The classifier gives one of the decisions.                              *)
LEMMA VerdictIsDecision == Verdicts \subseteq Decision
BY DEF Verdicts, Classify, Decision

(* The select of a sweep keeps the types, whatever it finds. *)
LEMMA SweepShape ==
    ASSUME Shape, NEW h \in Tx, SweepSelects(h)
    PROVE  PcType' /\ TxType' /\ SelectedInv'
<1> DEFINE expired == {j \in Item : Expired(j)}
           found == {<<i, row[i].id>> : i \in expired}
<1>1. PcType /\ TxType /\ SelectedInv /\ DbType
    BY TypeParts DEF Shape
<1>2. CASE found = {}
    <2>1. UNCHANGED <<pc, tx>>
        BY <1>2 DEF SweepSelects
    <2> QED BY <1>1, <2>1 DEF PcType, TxType, SelectedInv, SelectedOK
<1>3. CASE found # {}
    <2>1. Selects(h, "sweep", None, 0, found)
        BY <1>3 DEF SweepSelects
    <2>2. expired \in SUBSET Item /\ \A i \in expired : row[i] # None
        BY DEF Expired
    <2>3. found \in SUBSET (Item \X Nat)
        BY <1>1, <2>2, SelectTyped
    <2>4. PcType' /\ TxType'
        BY <1>1, <2>1, <2>3, SelectsTyped
    <2>5. SelectedInv'
        BY <1>1, <2>1, SelectsSelected
    <2> QED BY <2>4, <2>5
<1> QED BY <1>2, <1>3

(* And the selects of a snooze and of an un-snooze. *)
LEMMA SnoozeShape ==
    ASSUME Shape, NEW h \in Tx, NEW i \in Item, Snooze(h, i) \/ Unsnooze(h, i)
    PROVE  PcType' /\ TxType' /\ SelectedInv'
<1>1. PcType /\ TxType /\ SelectedInv /\ DbType /\ CountType
    BY TypeParts DEF Shape
<1>2. row[i] # None => {<<i, row[i].id>>} \in SUBSET (Item \X Nat)
    BY <1>1 DEF DbType, SnoozeItem
<1>3. PICK op \in {"create", "remove", "sweep"}, n \in Nat, found \in SUBSET (Item \X Nat) :
         Selects(h, op, i, n, found) /\ \A d \in found : d[1] = i
    <2>1. CASE Snooze(h, i)
        <3> DEFINE found == IF row[i] = None THEN {} ELSE {<<i, row[i].id>>}
        <3>1. Selects(h, "create", i, writes + 1, found)
            BY <2>1 DEF Snooze
        <3>2. found \in SUBSET (Item \X Nat) /\ \A d \in found : d[1] = i
            BY <1>2
        <3>3. writes + 1 \in Nat
            BY <1>1 DEF CountType
        <3> HIDE DEF found
        <3> QED BY <3>1, <3>2, <3>3
    <2>2. CASE Unsnooze(h, i)
        <3> DEFINE found == {<<i, row[i].id>>}
        <3>1. Selects(h, "remove", i, 0, found) /\ row[i] # None
            BY <2>2 DEF Unsnooze
        <3>2. found \in SUBSET (Item \X Nat) /\ \A d \in found : d[1] = i
            BY <1>2, <3>1
        <3> HIDE DEF found
        <3> QED BY <3>1, <3>2
    <2> QED BY <2>1, <2>2
<1>4. PcType' /\ TxType'
    BY <1>1, <1>3, SelectsTyped
<1>5. SelectedInv'
    BY <1>1, <1>3, SelectsSelected
<1> QED BY <1>4, <1>5

(* The steps of Next, by what they are: what a request begins with, what a *)
(* build does, and what happens outside.                                   *)
Requests(h) ==
    \/ \E i \in Item : Snooze(h, i) \/ Unsnooze(h, i) \/ LegacySnooze(h, i)
    \/ SetDecision(h) \/ AutoClassify(h) \/ SweepNow(h)

Builds(r) ==
    (\E d \in Day : GetToday(r, d) \/ RefreshToday(r, d)) \/ BuildStep(r)

Outside == BoxWrites \/ LockExpires \/ RedisFails \/ RedisBack

LEMMA Steps ==
    ASSUME [Next]_vars
    PROVE  \/ \E h \in Handler : Requests(h)
           \/ \E h \in Loop : LoopTicks(h) \/ Crash(h)
           \/ \E h \in Tx : TxStep(h)
           \/ \E r \in Reader : Builds(r)
           \/ \E i \in Item : WakeTimePasses(i)
           \/ \E d \in Day : CacheExpires(d)
           \/ Outside \/ UNCHANGED vars
BY DEF Next, Requests, Builds, Outside

(* A request leaves the tables, the cache and the builds alone. *)
LEMMA RequestQuiet ==
    ASSUME NEW h \in Handler, Requests(h)
    PROVE  /\ UNCHANGED <<database, redis, vault, builds, orphaned, begun, outages, crashes>>
           /\ writes' = writes + 1
BY DEF Requests, Snooze, Unsnooze, LegacySnooze, SetDecision, AutoClassify, Decides, SweepNow,
       Writing

(* So does the flush of a transaction, and the rest too. *)
LEMMA FlushQuiet ==
    ASSUME NEW h \in Tx, UpsertFlush(h) \/ RemoveFlush(h) \/ SweepFlush(h)
    PROVE  UNCHANGED <<database, redis, vault, builds, orphaned, counters>>
BY DEF UpsertFlush, RemoveFlush, SweepFlush

(* A build touches what is cached and its own blocks.                      *)
LEMMA BuildQuiet ==
    ASSUME NEW r \in Reader, Builds(r)
    PROVE  /\ UNCHANGED <<database, pc, tx, up, lock, vault, orphaned, writes, outages, crashes>>
           /\ begun' \in {begun, begun + 1}
           /\ Store(r) \/ UNCHANGED cache
BY DEF Builds, GetToday, RefreshToday, Begins, BuildStep, ReadPeople, ReadRunway, ReadStale,
       ReadAwake, Reads, Store, redis, counters

(* The transactions and what they have selected, after any step. *)
LEMMA TxShape ==
    ASSUME Shape, [Next]_vars
    PROVE  PcType' /\ TxType' /\ SelectedInv'
<1>1. PcType /\ TxType /\ SelectedInv
    BY TypeParts DEF Shape
<1>2. ASSUME UNCHANGED <<pc, tx>>
      PROVE  PcType' /\ TxType' /\ SelectedInv'
    BY <1>1, <1>2 DEF PcType, TxType, SelectedInv, SelectedOK
<1>3. ASSUME NEW h \in Tx, Over(h)
      PROVE  PcType' /\ TxType' /\ SelectedInv'
    BY <1>1, <1>3, OverTyped, OverSelected
<1>4. CASE \E h \in Handler : Requests(h)
    <2> PICK h \in Handler : Requests(h)
        BY <1>4
    <2>1. h \in Tx
        BY DEF Tx
    <2>2. CASE \E i \in Item : Snooze(h, i) \/ Unsnooze(h, i)
        BY <2>1, <2>2, SnoozeShape
    <2>3. CASE \E i \in Item : LegacySnooze(h, i)
        BY <2>1, <2>3, LegacyShape
    <2>4. CASE SetDecision(h) \/ AutoClassify(h)
        BY <2>1, <2>4, DecidesShape, VerdictIsDecision DEF SetDecision, AutoClassify
    <2>5. CASE SweepNow(h)
        BY <2>1, <2>5, SweepShape DEF SweepNow
    <2> QED BY <2>2, <2>3, <2>4, <2>5 DEF Requests
<1>5. CASE \E h \in Loop : LoopTicks(h) \/ Crash(h)
    BY <1>3, <1>5, SweepShape DEF LoopTicks, Crash, Tx
<1>6. CASE \E h \in Tx : TxStep(h)
    <2> PICK h \in Tx : TxStep(h)
        BY <1>6
    <2>1. CASE UpsertFlush(h) \/ RemoveFlush(h) \/ SweepFlush(h)
        BY <2>1, UpsertShape, DeleteShape
    <2>2. CASE Invalidate(h)
        <3>1. CASE Goes(h, "invalidated") /\ UNCHANGED tx
            BY <1>1, <3>1 DEF PcType, TxType, SelectedInv, SelectedOK, Goes
        <3>2. CASE Over(h)
            BY <1>3, <3>2
        <3> QED BY <2>2, <3>1, <3>2 DEF Invalidate
    <2>3. CASE Commit(h)
        BY <1>3, <2>3 DEF Commit
    <2> QED BY <2>1, <2>2, <2>3 DEF TxStep
<1>7. CASE \E r \in Reader : Builds(r)
    BY <1>2, <1>7, BuildQuiet
<1>8. CASE \/ \E i \in Item : WakeTimePasses(i)
           \/ \E d \in Day : CacheExpires(d)
           \/ Outside \/ UNCHANGED vars
    BY <1>2, <1>8 DEF WakeTimePasses, CacheExpires, Outside, BoxWrites, LockExpires, RedisFails,
                      RedisBack, vars
<1> QED BY <1>4, <1>5, <1>6, <1>7, <1>8, Steps

(* The database changes when a transaction commits, or when a wake time    *)
(* comes.                                                                  *)
LEMMA DatabaseChanges ==
    ASSUME [Next]_vars
    PROVE  \/ UNCHANGED <<database, orphaned>>
           \/ \E h \in Tx : Commit(h)
           \/ \E i \in Item : WakeTimePasses(i)
<1>1. CASE \E h \in Handler : Requests(h)
    BY <1>1, RequestQuiet
<1>2. CASE \E h \in Loop : LoopTicks(h) \/ Crash(h)
    BY <1>2 DEF LoopTicks, Crash
<1>3. CASE \E h \in Tx : TxStep(h)
    BY <1>3, FlushQuiet DEF TxStep, Invalidate
<1>4. CASE \E r \in Reader : Builds(r)
    BY <1>4, BuildQuiet
<1>5. CASE (\E d \in Day : CacheExpires(d)) \/ Outside \/ UNCHANGED vars
    BY <1>5 DEF CacheExpires, Outside, BoxWrites, LockExpires, RedisFails, RedisBack, vars,
                database
<1> QED BY <1>1, <1>2, <1>3, <1>4, <1>5, Steps

(* The tables keep their types. *)
LEMMA DbShape ==
    ASSUME Shape, [Next]_vars
    PROVE  DbType' /\ OrphanType'
<1>1. DbType /\ TxType /\ PcType /\ OrphanType /\ SelectedInv
    BY TypeParts DEF Shape
<1>2. CASE UNCHANGED <<database, orphaned>>
    BY <1>1, <1>2 DEF DbType, OrphanType, database
<1>3. CASE \E h \in Tx : Commit(h)
    <2> PICK h \in Tx : Commit(h)
        BY <1>3
    <2>1. tx[h] \in TxRecord
        BY <1>1 DEF TxType
    <2>2. row' \in [Item -> SnoozeItem]
        BY <1>1, <2>1 DEF Commit, DbType, TxRecord, SnoozeItem
    <2>3. ASSUME NEW i \in Item
          PROVE  (IF \E b \in BOOLEAN : <<i, b>> \in tx[h].flag
                  THEN <<i, TRUE>> \in tx[h].flag ELSE visible[i]) \in BOOLEAN
        <3>1. visible[i] \in BOOLEAN
            BY <1>1 DEF DbType
        <3>2. (<<i, TRUE>> \in tx[h].flag) \in BOOLEAN
            OBVIOUS
        <3> QED BY <3>1, <3>2, Zenon
    <2>4. visible' \in [Item -> BOOLEAN]
        BY <2>3 DEF Commit
    <2>5. dec' \in Decision
        BY <1>1, <2>1 DEF Commit, DbType, TxRecord
    <2>6. OrphanType'
        <3>1. \/ orphaned' = orphaned
              \/ \E why \in {"no", "unsnoozed", "hidden"} :
                    orphaned' = [orphaned EXCEPT ![tx[h].item] = why]
            BY DEF Commit
        <3> QED BY <1>1, <3>1 DEF OrphanType
    <2> QED BY <2>2, <2>4, <2>5, <2>6 DEF DbType
<1>4. CASE \E i \in Item : WakeTimePasses(i)
    <2>1. DbType'
        BY <1>1, <1>4 DEF WakeTimePasses, DbType, SnoozeItem
    <2> QED BY <1>1, <1>4, <2>1 DEF WakeTimePasses, OrphanType
<1> QED BY <1>2, <1>3, <1>4, DatabaseChanges

(* What Redis holds keeps its types. *)
LEMMA RedisShape ==
    ASSUME Shape, [Next]_vars
    PROVE  RedisType'
<1>1. RedisType /\ BuildType
    BY TypeParts DEF Shape
<1>2. CASE UNCHANGED redis
    BY <1>1, <1>2 DEF RedisType, redis
<1>3. CASE \E h \in Handler : Requests(h)
    BY <1>2, <1>3, RequestQuiet
<1>4. CASE \E h \in Loop : LoopTicks(h)
    <2>1. UNCHANGED <<up, cache>>
        BY <1>4 DEF LoopTicks
    <2>2. lock' \in BOOLEAN
        <3>1. lock' = TRUE \/ lock' = lock
            BY <1>4 DEF LoopTicks
        <3> QED BY <1>1, <3>1 DEF RedisType
    <2> QED BY <1>1, <2>1, <2>2 DEF RedisType
<1>5. CASE \E h \in Tx : TxStep(h)
    <2> PICK h \in Tx : TxStep(h)
        BY <1>5
    <2>1. CASE UpsertFlush(h) \/ RemoveFlush(h) \/ SweepFlush(h) \/ Commit(h)
        BY <1>2, <2>1, FlushQuiet DEF Commit
    <2>2. CASE Invalidate(h)
        <3>1. UNCHANGED <<up, lock>> /\ (Drops(h) \/ cache' = cache)
            BY <2>2 DEF Invalidate
        <3>2. cache' \in [Day -> {None} \cup Entry]
            BY <1>1, <3>1 DEF Drops, RedisType
        <3> QED BY <1>1, <3>1, <3>2 DEF RedisType
    <2> QED BY <2>1, <2>2 DEF TxStep
<1>6. CASE \E h \in Loop : Crash(h)
    BY <1>2, <1>6 DEF Crash
<1>7. CASE \E r \in Reader : Builds(r)
    <2> PICK r \in Reader : Builds(r)
        BY <1>7
    <2>1. CASE Store(r)
        <3>1. UNCHANGED <<up, lock>>
            BY <2>1 DEF Store
        <3>2. [blocks |-> draft[r], raced |-> raced[r]] \in Entry
            BY <1>1 DEF BuildType, Entry
        <3>3. \/ cache' = [cache EXCEPT ![day[r]] = [blocks |-> draft[r], raced |-> raced[r]]]
              \/ cache' = cache
            BY <2>1 DEF Store
        <3>4. cache' \in [Day -> {None} \cup Entry]
            BY <1>1, <3>2, <3>3 DEF RedisType
        <3> QED BY <1>1, <3>1, <3>4 DEF RedisType
    <2>2. CASE UNCHANGED cache
        BY <1>2, <2>2, BuildQuiet DEF redis
    <2> QED BY <2>1, <2>2, BuildQuiet
<1>8. CASE \E d \in Day : CacheExpires(d)
    BY <1>1, <1>8 DEF CacheExpires, RedisType
<1>9. CASE LockExpires
    BY <1>1, <1>9, Zenon DEF LockExpires, RedisType
<1>10. CASE RedisFails \/ RedisBack
    <2>1. (up' = TRUE \/ up' = FALSE) /\ UNCHANGED <<cache, lock>>
        BY <1>10 DEF RedisFails, RedisBack
    <2>2. up' \in BOOLEAN
        BY <2>1
    <2> QED BY <1>1, <2>1, <2>2 DEF RedisType
<1>11. CASE (\E i \in Item : WakeTimePasses(i)) \/ BoxWrites \/ UNCHANGED vars
    BY <1>2, <1>11 DEF WakeTimePasses, BoxWrites, vars
<1> QED BY <1>3, <1>4, <1>5, <1>6, <1>7, <1>8, <1>9, <1>10, <1>11, Steps DEF Outside

(* The builds keep theirs. *)
LEMMA BuildShape ==
    ASSUME Shape, [Next]_vars
    PROVE  BuildType'
<1>1. BuildType /\ DbType /\ CountType
    BY TypeParts DEF Shape
<1>2. CASE UNCHANGED builds
    BY <1>1, <1>2 DEF BuildType, builds
<1>3. CASE \E h \in Tx : Invalidate(h)
    <2> PICK h \in Tx : Invalidate(h)
        BY <1>3
    <2>1. UNCHANGED <<at, day, draft>> /\ (Drops(h) \/ raced' = raced)
        BY DEF Invalidate
    <2>2. ASSUME NEW r \in Reader
          PROVE  (raced[r] \/ (r \in Building /\ day[r] \in Clears(h))) \in BOOLEAN
        OBVIOUS
    <2>3. raced' \in [Reader -> BOOLEAN]
        <3>1. CASE Drops(h)
            BY <2>2, <3>1 DEF Drops
        <3>2. CASE raced' = raced
            BY <1>1, <3>2 DEF BuildType
        <3> QED BY <2>1, <3>1, <3>2
    <2> QED BY <1>1, <2>1, <2>3 DEF BuildType
<1>4. CASE \E r \in Reader, d \in Day : Begins(r, d)
    <2> PICK r \in Reader, d \in Day : Begins(r, d)
        BY <1>4
    <2>1. at' = [at EXCEPT ![r] = "people"] /\ day' = [day EXCEPT ![r] = d]
          /\ draft' = [draft EXCEPT ![r].decisions = DecisionsBlock]
          /\ raced' = [raced EXCEPT ![r] = Publishing(d)]
        BY DEF Begins
    <2>2. Publishing(d) \in BOOLEAN /\ DecisionsBlock \in BOOLEAN
        BY DEF Publishing, DecisionsBlock
    <2> HIDE DEF Publishing, DecisionsBlock
    <2>3. draft' \in [Reader -> Draft]
        BY <1>1, <2>1, <2>2 DEF BuildType, Draft
    <2> QED BY <1>1, <2>1, <2>2, <2>3 DEF BuildType
<1>5. CASE \E r \in Reader : ReadPeople(r) \/ ReadRunway(r) \/ ReadStale(r) \/ ReadAwake(r)
    <2> PICK r \in Reader : ReadPeople(r) \/ ReadRunway(r) \/ ReadStale(r) \/ ReadAwake(r)
        BY <1>5
    <2>1. PeopleBlock \in BOOLEAN /\ Rows \in Snoozes /\ TasksBlock \in Tasks
        BY <1>1, ShownTyped DEF PeopleBlock
    <2>2. UNCHANGED <<day, raced>>
        BY DEF ReadPeople, ReadRunway, ReadStale, ReadAwake, Reads
    <2>3. at' \in [Reader -> {"idle", "people", "runway", "stale", "awake", "store"}]
        BY <1>1 DEF ReadPeople, ReadRunway, ReadStale, ReadAwake, Reads, BuildType
    <2>4. \/ draft' = [draft EXCEPT ![r]["people"] = PeopleBlock]
          \/ draft' = [draft EXCEPT ![r]["runway"] = TasksBlock]
          \/ draft' = [draft EXCEPT ![r]["stale"] = TasksBlock]
          \/ draft' = [draft EXCEPT ![r]["awake"] = Rows]
        BY DEF ReadPeople, ReadRunway, ReadStale, ReadAwake, Reads
    <2> HIDE DEF PeopleBlock, TasksBlock, Rows
    <2>5. draft[r] \in Draft
        BY <1>1 DEF BuildType
    <2>6. /\ [draft[r] EXCEPT !["people"] = PeopleBlock] \in Draft
          /\ [draft[r] EXCEPT !["runway"] = TasksBlock] \in Draft
          /\ [draft[r] EXCEPT !["stale"] = TasksBlock] \in Draft
          /\ [draft[r] EXCEPT !["awake"] = Rows] \in Draft
        BY <2>1, <2>5 DEF Draft
    <2>7. draft' \in [Reader -> Draft]
        BY <1>1, <2>4, <2>6 DEF BuildType
    <2> QED BY <1>1, <2>2, <2>3, <2>7 DEF BuildType
<1>6. CASE \E r \in Reader : Store(r)
    BY <1>1, <1>6, NoBlocksTyped DEF Store, BuildType, Day
<1>7. CASE \E h \in Handler : Requests(h)
    BY <1>2, <1>7, RequestQuiet
<1>8. CASE \E h \in Loop : LoopTicks(h) \/ Crash(h)
    BY <1>2, <1>8 DEF LoopTicks, Crash
<1>9. CASE \E h \in Tx : UpsertFlush(h) \/ RemoveFlush(h) \/ SweepFlush(h) \/ Commit(h)
    BY <1>2, <1>9, FlushQuiet DEF Commit
<1>10. CASE \/ \E i \in Item : WakeTimePasses(i)
            \/ \E d \in Day : CacheExpires(d)
            \/ Outside \/ UNCHANGED vars
    BY <1>2, <1>10 DEF WakeTimePasses, CacheExpires, Outside, BoxWrites, LockExpires, RedisFails,
                       RedisBack, vars
<1> QED BY <1>3, <1>4, <1>5, <1>6, <1>7, <1>8, <1>9, <1>10, Steps
        DEF TxStep, Builds, BuildStep, GetToday, RefreshToday

(* The counters keep theirs. *)
LEMMA CountShape ==
    ASSUME Shape, [Next]_vars
    PROVE  CountType'
<1>1. CountType
    BY TypeParts DEF Shape
<1>2. /\ vault' \in {vault, vault + 1} /\ writes' \in {writes, writes + 1}
      /\ begun' \in {begun, begun + 1} /\ outages' \in {outages, outages + 1}
      /\ crashes' \in {crashes, crashes + 1}
    <2>1. CASE \E h \in Handler : Requests(h)
        BY <2>1, RequestQuiet
    <2>2. CASE \E h \in Loop : LoopTicks(h) \/ Crash(h)
        BY <2>2 DEF LoopTicks, Crash, counters
    <2>3. CASE \E h \in Tx : TxStep(h)
        BY <2>3, FlushQuiet DEF TxStep, Invalidate, Commit, counters
    <2>4. CASE \E r \in Reader : Builds(r)
        BY <2>4, BuildQuiet
    <2>5. CASE \/ \E i \in Item : WakeTimePasses(i)
               \/ \E d \in Day : CacheExpires(d)
               \/ Outside \/ UNCHANGED vars
        BY <2>5 DEF WakeTimePasses, CacheExpires, Outside, BoxWrites, LockExpires, RedisFails,
                    RedisBack, vars, counters
    <2> QED BY <2>1, <2>2, <2>3, <2>4, <2>5, Steps
<1> QED BY <1>1, <1>2 DEF CountType

(* Types are inductive, with what the transactions have selected. *)
LEMMA ShapeInit == Init => Shape
<1>1. Init => SelectedInv
    BY DEF Init, SelectedInv, SelectedOK, WritesOK, NoTx
<1> QED BY <1>1, TypeInit DEF Shape

LEMMA ShapeStep == Shape /\ [Next]_vars => Shape'
<1> SUFFICES ASSUME Shape, [Next]_vars PROVE Shape'
    OBVIOUS
<1>1. PcType' /\ TxType' /\ SelectedInv'
    BY TxShape
<1>2. DbType' /\ OrphanType'
    BY DbShape
<1>3. RedisType' /\ BuildType' /\ CountType'
    BY RedisShape, BuildShape, CountShape
<1>4. TypeOK'
    BY <1>1, <1>2, <1>3
       DEF TypeOK, DbType, PcType, TxType, RedisType, Entry, BuildType, OrphanType, CountType,
           TxRecord
<1> QED BY <1>1, <1>4 DEF Shape

-----------------------------------------------------------------------------
(* One loop sweeps.                                                        *)

(* While Redis has been there and no sweep outlasts its lock, a loop that  *)
(* sweeps is the only one, and has the lock.                               *)
LoopInv ==
    ~Slow /\ outages = 0 =>
        /\ up
        /\ \A g \in Loop : pc[g] # "idle" => lock
        /\ \A g, h \in Loop : pc[g] # "idle" /\ pc[h] # "idle" => g = h

(* A step after which nothing runs that did not run before keeps LoopInv,  *)
(* if it keeps Redis and the lock.                                         *)
LEMMA QuietKeepsLoops ==
    ASSUME LoopInv, UNCHANGED <<up, lock>>, outages' = 0 => outages = 0,
           \A g \in Loop : pc'[g] # "idle" => pc[g] # "idle"
    PROVE  LoopInv'
BY DEF LoopInv

(* Every step of a request or a build keeps LoopInv, and so do those of a  *)
(* transaction that runs.                                                  *)
LEMMA OthersKeepLoops ==
    ASSUME Shape, LoopInv,
           \/ \E h \in Handler : Requests(h)
           \/ \E h \in Loop : Crash(h)
           \/ \E h \in Tx : TxStep(h)
           \/ \E r \in Reader : Builds(r)
           \/ \E i \in Item : WakeTimePasses(i)
           \/ \E d \in Day : CacheExpires(d)
           \/ BoxWrites \/ UNCHANGED vars
    PROVE  LoopInv'
<1>1. PcType /\ BriefingAssumption
    BY TypeParts, BriefingAssumption DEF Shape
<1>2. UNCHANGED <<up, lock, outages>>
    <2>1. CASE \E h \in Handler : Requests(h)
        BY <2>1, RequestQuiet DEF redis
    <2>2. CASE \E h \in Tx : TxStep(h)
        BY <2>2, FlushQuiet DEF TxStep, Invalidate, Commit, redis, counters
    <2>3. CASE \E r \in Reader : Builds(r)
        BY <2>3, BuildQuiet
    <2>4. CASE \/ \E h \in Loop : Crash(h)
               \/ \E i \in Item : WakeTimePasses(i)
               \/ \E d \in Day : CacheExpires(d)
               \/ BoxWrites \/ UNCHANGED vars
        BY <2>4 DEF Crash, WakeTimePasses, CacheExpires, BoxWrites, vars, redis, counters
    <2> QED BY <2>1, <2>2, <2>3, <2>4
<1>3. ASSUME NEW g \in Loop, pc[g] = "idle"
      PROVE  pc'[g] = "idle"
    <2>1. CASE \E h \in Handler : Requests(h)
        <3> PICK h \in Handler : Requests(h)
            BY <2>1
        <3>1. UNCHANGED pc \/ \E to : Goes(h, to)
            BY DEF Requests, Snooze, Unsnooze, LegacySnooze, SetDecision, AutoClassify, Decides,
                   SweepNow, SweepSelects, Selects
        <3> QED BY <1>1, <1>3, <3>1 DEF Goes, PcType, BriefingAssumption, Tx
    <2>2. CASE \E h \in Loop : Crash(h)
        BY <1>1, <1>3, <2>2 DEF Crash, Over, Goes, PcType, Tx
    <2>3. CASE \E h \in Tx : TxStep(h)
        <3> PICK h \in Tx : TxStep(h)
            BY <2>3
        <3>1. pc[h] # "idle"
            BY DEF TxStep, UpsertFlush, RemoveFlush, SweepFlush, Invalidate, Commit
        <3>2. \E to : Goes(h, to)
            BY DEF TxStep, UpsertFlush, RemoveFlush, SweepFlush, Invalidate, Commit, Over
        <3> QED BY <1>1, <1>3, <3>1, <3>2 DEF Goes, PcType, Tx
    <2>4. CASE \E r \in Reader : Builds(r)
        BY <1>3, <2>4, BuildQuiet
    <2>5. CASE \/ \E i \in Item : WakeTimePasses(i)
               \/ \E d \in Day : CacheExpires(d)
               \/ BoxWrites \/ UNCHANGED vars
        BY <1>3, <2>5 DEF WakeTimePasses, CacheExpires, BoxWrites, vars
    <2> QED BY <2>1, <2>2, <2>3, <2>4, <2>5
<1> QED BY <1>2, <1>3, QuietKeepsLoops

(* LoopInv is inductive: a loop begins only when the lock is free, so when *)
(* no other sweeps, and the lock of one that sweeps does not expire.       *)
LEMMA LoopStep == Shape /\ LoopInv /\ [Next]_vars => LoopInv'
<1> SUFFICES ASSUME Shape, LoopInv, [Next]_vars PROVE LoopInv'
    OBVIOUS
<1>1. PcType /\ CountType
    BY TypeParts DEF Shape
<1>2. CASE \E h \in Loop : LoopTicks(h)
    <2> PICK h \in Loop : LoopTicks(h)
        BY <1>2
    <2>1. UNCHANGED <<up, outages>> /\ pc[h] = "idle" /\ (~up \/ ~lock)
          /\ lock' = IF up THEN TRUE ELSE lock
        BY DEF LoopTicks, counters
    <2>2. \A g \in Loop : g # h => pc'[g] = pc[g]
        BY <1>1 DEF LoopTicks, SweepSelects, Selects, Goes, PcType, Tx
    <2>3. ASSUME ~Slow, outages = 0
          PROVE  up /\ lock' /\ \A g \in Loop : pc[g] = "idle"
        BY <2>1, <2>3 DEF LoopInv
    <2> QED BY <2>1, <2>2, <2>3 DEF LoopInv
<1>3. CASE LockExpires
    <2>1. UNCHANGED <<up, pc, outages>> /\ (Slow \/ Sweeping = {})
        BY <1>3 DEF LockExpires, counters
    <2>2. ~Slow => \A g \in Loop : pc[g] = "idle"
        BY <2>1 DEF Sweeping
    <2> QED BY <2>1, <2>2 DEF LoopInv
<1>4. CASE RedisFails
    <2>1. outages' # 0
        BY <1>1, <1>4 DEF RedisFails, CountType
    <2> QED BY <2>1 DEF LoopInv
<1>5. CASE RedisBack
    <2>1. ~up /\ up' /\ UNCHANGED <<pc, lock, outages>>
        BY <1>5 DEF RedisBack, counters
    <2> QED BY <2>1 DEF LoopInv
<1> QED BY <1>2, <1>3, <1>4, <1>5, OthersKeepLoops, Steps DEF Outside

(* So never two loops sweep. *)
LEMMA LoopsAlone == LoopInv => OneLoopSweeps
<1> SUFFICES ASSUME LoopInv, ~Slow, outages = 0
             PROVE  Cardinality(Sweeping) <= 1
    BY DEF OneLoopSweeps
<1>1. CASE Sweeping = {}
    BY <1>1, FS_EmptySet
<1>2. CASE Sweeping # {}
    <2> PICK h : h \in Sweeping
        BY <1>2
    <2>1. Sweeping = {h}
        BY DEF Sweeping, LoopInv
    <2> QED BY <2>1, FS_Singleton
<1> QED BY <1>1, <1>2

-----------------------------------------------------------------------------
(* The cached briefing.                                                    *)

(* What a build that met no write has read is what is committed. *)
DraftOK(r) ==
    at[r] # "idle" /\ ~raced[r] =>
        /\ day[r] = "today" => draft[r].decisions = DecisionsBlock
        /\ day[r] = "today" /\ at[r] # "people" => draft[r].people = PeopleBlock
        /\ at[r] \in {"stale", "awake", "store"} => draft[r].runway.snoozed = Rows
        /\ at[r] \in {"awake", "store"} => draft[r].stale.snoozed = Rows
        /\ at[r] = "store" => draft[r].awake = Rows

DraftInv == \A r \in Reader : DraftOK(r)

(* While a write of a day is being published, nothing of that day that is  *)
(* cached or under way passes for fresh.                                   *)
PublishInv ==
    \A d \in Day : Publishing(d) =>
        /\ cache[d] # None => cache[d].raced
        /\ \A r \in Reader : at[r] # "idle" /\ day[r] = d => raced[r]

FreshInv == DraftInv /\ PublishInv /\ FreshUnlessRaced

(* What is shown of the snoozes is the rows, and not the time that passes. *)
LEMMA RowsKept ==
    ASSUME DbType, UNCHANGED row \/ \E i \in Item : WakeTimePasses(i)
    PROVE  Rows' = Rows
<1>1. CASE UNCHANGED row
    BY <1>1 DEF Rows
<1>2. CASE \E i \in Item : WakeTimePasses(i)
    <2> PICK i \in Item : WakeTimePasses(i)
        BY <1>2
    <2>1. row' = [row EXCEPT ![i].due = TRUE] /\ row[i] # None
        BY DEF WakeTimePasses
    <2>2. row'[i] # None
        <3>1. row[i] \in [id : Nat, wake : Nat, due : BOOLEAN]
            BY <2>1 DEF DbType, SnoozeItem
        <3>2. row'[i] \in [id : Nat, wake : Nat, due : BOOLEAN]
            BY <2>1, <3>1 DEF DbType
        <3>3. None \notin [id : Nat, wake : Nat, due : BOOLEAN]
            BY BriefingAssumption
        <3> QED BY <3>2, <3>3
    <2>3. ASSUME NEW j \in Item
          PROVE  (IF row'[j] = None THEN None ELSE <<row'[j].id, row'[j].wake>>)
                    = IF row[j] = None THEN None ELSE <<row[j].id, row[j].wake>>
        <3>1. CASE j = i
            <4>1. row'[i].id = row[i].id /\ row'[i].wake = row[i].wake
                BY <2>1 DEF DbType, SnoozeItem
            <4> QED BY <2>1, <2>2, <3>1, <4>1
        <3>2. CASE j # i
            BY <2>1, <3>2 DEF DbType
        <3> QED BY <3>1, <3>2
    <2> QED BY <2>3 DEF Rows
<1> QED BY <1>1, <1>2

(* What is shown of the email is its decision. *)
LEMMA EmailKept ==
    ASSUME dec' = dec
    PROVE  DecisionsBlock' = DecisionsBlock /\ PeopleBlock' = PeopleBlock
BY DEF DecisionsBlock, PeopleBlock

(* A transaction that goes anywhere but past its invalidation publishes    *)
(* nothing.                                                                *)
LEMMA PublishesLess ==
    ASSUME PcType, TxType, NEW h \in Tx, NEW to \in {"idle", "selected", "flushed"},
           Goes(h, to), \A g \in Tx : g # h => tx'[g] = tx[g], NEW d \in Day, Publishing(d)'
    PROVE  Publishing(d)
<1>1. PICK g \in Tx : pc'[g] = "invalidated" /\ d \in Clears(g)'
    BY DEF Publishing
<1>2. g # h /\ pc[g] = "invalidated"
    BY <1>1 DEF Goes, PcType
<1>3. d \in Clears(g)
    BY <1>1, <1>2 DEF Clears
<1> QED BY <1>2, <1>3 DEF Publishing

(* A step that writes nothing, and publishes nothing new, keeps FreshInv. *)
LEMMA QuietKeepsFresh ==
    ASSUME FreshInv, Rows' = Rows, dec' = dec, UNCHANGED builds,
           \A d \in Day : cache'[d] = cache[d] \/ cache'[d] = None,
           \A d \in Day : Publishing(d)' => Publishing(d)
    PROVE  FreshInv'
<1>1. UNCHANGED <<at, day, draft, raced>>
    BY DEF builds
<1>2. DecisionsBlock' = DecisionsBlock /\ PeopleBlock' = PeopleBlock
    BY EmailKept
<1>3. DraftInv'
    BY <1>1, <1>2 DEF FreshInv, DraftInv, DraftOK
<1>4. PublishInv'
    BY <1>1 DEF FreshInv, PublishInv
<1>5. FreshUnlessRaced'
    BY <1>2 DEF FreshInv, FreshUnlessRaced, ShowsSnoozes, ShowsEmail
<1> QED BY <1>3, <1>4, <1>5 DEF FreshInv

(* An invalidation drops what is cached of its days and marks every build  *)
(* of them.                                                                *)
LEMMA InvalidateKeepsFresh ==
    ASSUME Shape, FreshInv, NEW h \in Tx, Invalidate(h)
    PROVE  FreshInv'
<1>1. DbType /\ PcType /\ TxType /\ BuildType /\ RedisType
    BY TypeParts DEF Shape
<1>2. Rows' = Rows /\ dec' = dec
    BY <1>1, RowsKept DEF Invalidate, database
<1>3. CASE up
    <2>1. Drops(h) /\ Goes(h, "invalidated") /\ UNCHANGED <<tx, at, day, draft>>
        BY <1>3 DEF Invalidate
    <2>2. \A d \in Day : cache'[d] = IF d \in Clears(h) THEN None ELSE cache[d]
        BY <2>1 DEF Drops
    <2>3. ASSUME NEW r \in Reader
          PROVE  raced'[r] <=> (raced[r] \/ (at[r] # "idle" /\ day[r] \in Clears(h)))
        BY <2>1 DEF Drops, Building
    <2>4. DecisionsBlock' = DecisionsBlock /\ PeopleBlock' = PeopleBlock
        BY <1>2, EmailKept
    <2>5. DraftInv'
        BY <1>2, <2>1, <2>3, <2>4 DEF FreshInv, DraftInv, DraftOK
    <2>6. ASSUME NEW d \in Day, Publishing(d)'
          PROVE  Publishing(d) \/ d \in Clears(h)
        <3>1. PICK g \in Tx : pc'[g] = "invalidated" /\ d \in Clears(g)'
            BY <2>6 DEF Publishing
        <3>2. d \in Clears(g)
            BY <2>1, <3>1 DEF Clears
        <3>3. g = h \/ pc[g] = "invalidated"
            BY <1>1, <2>1, <3>1 DEF Goes, PcType
        <3> QED BY <3>2, <3>3 DEF Publishing
    <2>7. PublishInv'
        BY <2>1, <2>2, <2>3, <2>6 DEF FreshInv, PublishInv
    <2>8. FreshUnlessRaced'
        BY <1>2, <2>2, <2>4 DEF FreshInv, FreshUnlessRaced, ShowsSnoozes, ShowsEmail
    <2> QED BY <2>5, <2>7, <2>8 DEF FreshInv
<1>4. CASE ~up
    <2>1. Over(h) /\ UNCHANGED <<cache, builds>>
        BY <1>4 DEF Invalidate, builds
    <2>2. \A d \in Day : Publishing(d)' => Publishing(d)
        BY <1>1, <2>1, PublishesLess DEF Over, TxType
    <2> QED BY <1>2, <2>1, <2>2, QuietKeepsFresh
<1> QED BY <1>3, <1>4

(* What a transaction writes at its commit, by its kind: the deprecated    *)
(* route nothing that is shown, a decision only what shows it.             *)
LEMMA CommitWrites ==
    ASSUME Shape, NEW h \in Tx, Commit(h)
    PROVE  /\ tx[h].op = "legacy" => Rows' = Rows /\ dec' = dec
           /\ tx[h].op = "email" => Rows' = Rows /\ Publishing("today")
           /\ tx[h].op \notin {"legacy", "email"} => \A d \in Day : Publishing(d)
<1>1. DbType /\ SelectedInv
    BY TypeParts DEF Shape
<1>2. ASSUME tx[h].op \in {"legacy", "email"}
      PROVE  Rows' = Rows
    <2>1. tx[h].put = None /\ tx[h].del = {}
        BY <1>1, <1>2 DEF SelectedInv, SelectedOK, WritesOK
    <2>2. row' = row
        BY <1>1, <2>1 DEF Commit, DbType
    <2> QED BY <1>1, <2>2, RowsKept
<1>3. tx[h].op = "legacy" => dec' = dec
    BY <1>1 DEF SelectedInv, SelectedOK, WritesOK, Commit
<1>4. tx[h].op # "legacy" => pc[h] = "invalidated"
    BY DEF Commit
<1>5. tx[h].op = "email" => "today" \in Clears(h)
    BY DEF Clears
<1>6. tx[h].op \notin {"legacy", "email"} => \A d \in Day : d \in Clears(h)
    BY DEF Clears
<1> QED BY <1>2, <1>3, <1>4, <1>5, <1>6 DEF Publishing

(* A commit changes the tables when nothing that would show it passes for  *)
(* fresh.                                                                  *)
LEMMA CommitKeepsFresh ==
    ASSUME Shape, FreshInv, NEW h \in Tx, Commit(h)
    PROVE  FreshInv'
<1>1. PcType /\ TxType
    BY TypeParts DEF Shape
<1>2. UNCHANGED <<cache, at, day, draft, raced, builds>> /\ Over(h)
    BY DEF Commit, redis, builds
<1>3. \A d \in Day : Publishing(d)' => Publishing(d)
    BY <1>1, <1>2, PublishesLess DEF Over, TxType
<1>4. PublishInv'
    BY <1>2, <1>3 DEF FreshInv, PublishInv
<1>5. CASE tx[h].op = "legacy"
    BY <1>2, <1>3, <1>5, CommitWrites, QuietKeepsFresh
<1>6. CASE tx[h].op = "email"
    <2>1. Rows' = Rows /\ Publishing("today")
        BY <1>6, CommitWrites
    <2>2. /\ cache["today"] # None => cache["today"].raced
          /\ \A r \in Reader : at[r] # "idle" /\ day[r] = "today" => raced[r]
        BY <2>1 DEF FreshInv, PublishInv, Day
    <2>3. DraftInv'
        BY <1>2, <2>1, <2>2 DEF FreshInv, DraftInv, DraftOK
    <2>4. FreshUnlessRaced'
        BY <1>2, <2>1, <2>2 DEF FreshInv, FreshUnlessRaced, ShowsSnoozes
    <2> QED BY <1>4, <2>3, <2>4 DEF FreshInv
<1>7. CASE tx[h].op \notin {"legacy", "email"}
    <2>1. \A d \in Day : Publishing(d)
        BY <1>7, CommitWrites
    <2>2. \A d \in Day : /\ cache[d] # None => cache[d].raced
                         /\ \A r \in Reader : at[r] # "idle" /\ day[r] = d => raced[r]
        BY <2>1 DEF FreshInv, PublishInv
    <2>3. \A r \in Reader : day[r] \in Day
        BY TypeParts DEF Shape, BuildType
    <2>4. \A r \in Reader : at[r] # "idle" => raced[r]
        BY <2>2, <2>3
    <2>5. DraftInv'
        BY <1>2, <2>4 DEF DraftInv, DraftOK
    <2>6. FreshUnlessRaced'
        BY <1>2, <2>2 DEF FreshUnlessRaced
    <2> QED BY <1>4, <2>5, <2>6 DEF FreshInv
<1> QED BY <1>5, <1>6, <1>7

(* A build starts from what is committed, or is marked.                    *)
LEMMA BeginsKeepsFresh ==
    ASSUME Shape, FreshInv, NEW r \in Reader, NEW e \in Day, Begins(r, e)
    PROVE  FreshInv'
<1>1. DbType /\ PcType /\ BuildType
    BY TypeParts DEF Shape
<1>2. Rows' = Rows /\ dec' = dec /\ UNCHANGED <<cache, pc, tx>>
    BY <1>1, RowsKept DEF Begins, redis, database
<1>3. \A d \in Day : Publishing(d)' <=> Publishing(d)
    BY <1>2 DEF Publishing, Clears
<1>4. at' = [at EXCEPT ![r] = "people"] /\ raced' = [raced EXCEPT ![r] = Publishing(e)]
      /\ day' = [day EXCEPT ![r] = e]
      /\ draft' = [draft EXCEPT ![r].decisions = DecisionsBlock]
    BY DEF Begins
<1>5. draft'[r].decisions = DecisionsBlock
    BY <1>1, <1>4 DEF BuildType, Draft
<1>6. \A q \in Reader : q # r => /\ draft'[q] = draft[q] /\ at'[q] = at[q]
                                 /\ day'[q] = day[q] /\ raced'[q] = raced[q]
    BY <1>1, <1>4 DEF BuildType
<1>7. at'[r] = "people" /\ day'[r] = e /\ (Publishing(e) => raced'[r])
    BY <1>1, <1>4 DEF BuildType
<1>8. DecisionsBlock' = DecisionsBlock /\ PeopleBlock' = PeopleBlock
    BY <1>2, EmailKept
<1>9. DraftInv'
    <2>1. ASSUME NEW q \in Reader PROVE DraftOK(q)'
        <3>1. CASE q = r
            BY <1>5, <1>7, <1>8, <3>1 DEF DraftOK
        <3>2. CASE q # r
            BY <1>2, <1>6, <1>8, <3>2 DEF FreshInv, DraftInv, DraftOK
        <3> QED BY <3>1, <3>2
    <2> QED BY <2>1 DEF DraftInv
<1>10. PublishInv'
    BY <1>2, <1>3, <1>6, <1>7 DEF FreshInv, PublishInv
<1>11. FreshUnlessRaced'
    BY <1>2, <1>8 DEF FreshInv, FreshUnlessRaced, ShowsSnoozes, ShowsEmail
<1> QED BY <1>9, <1>10, <1>11 DEF FreshInv

(* A block that is read is what is committed. *)
LEMMA ReadsKeepsFresh ==
    ASSUME Shape, FreshInv, NEW r \in Reader,
           ReadPeople(r) \/ ReadRunway(r) \/ ReadStale(r) \/ ReadAwake(r)
    PROVE  FreshInv'
<1>1. DbType /\ BuildType
    BY TypeParts DEF Shape
<1>2. PICK b, shown, next : Reads(r, b, shown, next)
    BY DEF ReadPeople, ReadRunway, ReadStale, ReadAwake
<1>3. Rows' = Rows /\ dec' = dec /\ UNCHANGED <<cache, pc, tx, day, raced>>
    BY <1>1, <1>2, RowsKept DEF Reads, redis, database
<1>4. \A q \in Reader : q # r => draft'[q] = draft[q] /\ at'[q] = at[q]
    BY <1>1, <1>2 DEF Reads, BuildType
<1>5. at[r] # "idle"
    BY DEF ReadPeople, ReadRunway, ReadStale, ReadAwake, Reads
<1>6. DecisionsBlock' = DecisionsBlock /\ PeopleBlock' = PeopleBlock
    BY <1>3, EmailKept
<1>7. draft[r] \in Draft
    BY <1>1 DEF BuildType
<1>8. DraftOK(r)'
    <2>1. CASE ReadPeople(r)
        <3>1. at[r] = "people" /\ at'[r] = "runway"
              /\ draft'[r] = [draft[r] EXCEPT !["people"] = PeopleBlock]
            BY <1>1, <2>1 DEF ReadPeople, Reads, BuildType
        <3>2. draft'[r].people = PeopleBlock /\ draft'[r].decisions = draft[r].decisions
            BY <1>7, <3>1 DEF Draft
        <3> QED BY <1>3, <1>6, <3>1, <3>2 DEF FreshInv, DraftInv, DraftOK
    <2>2. CASE ReadRunway(r)
        <3>1. at[r] = "runway" /\ at'[r] = "stale"
              /\ draft'[r] = [draft[r] EXCEPT !["runway"] = TasksBlock]
            BY <1>1, <2>2 DEF ReadRunway, Reads, BuildType
        <3>2. /\ draft'[r].runway = TasksBlock /\ draft'[r].people = draft[r].people
              /\ draft'[r].decisions = draft[r].decisions
            BY <1>7, <3>1 DEF Draft
        <3>3. TasksBlock.snoozed = Rows
            BY DEF TasksBlock
        <3> QED BY <1>3, <1>6, <3>1, <3>2, <3>3 DEF FreshInv, DraftInv, DraftOK
    <2>3. CASE ReadStale(r)
        <3>1. at[r] = "stale" /\ at'[r] = "awake"
              /\ draft'[r] = [draft[r] EXCEPT !["stale"] = TasksBlock]
            BY <1>1, <2>3 DEF ReadStale, Reads, BuildType
        <3>2. /\ draft'[r].stale = TasksBlock /\ draft'[r].people = draft[r].people
              /\ draft'[r].decisions = draft[r].decisions /\ draft'[r].runway = draft[r].runway
            BY <1>7, <3>1 DEF Draft
        <3>3. TasksBlock.snoozed = Rows
            BY DEF TasksBlock
        <3> QED BY <1>3, <1>6, <3>1, <3>2, <3>3 DEF FreshInv, DraftInv, DraftOK
    <2>4. CASE ReadAwake(r)
        <3>1. at[r] = "awake" /\ at'[r] = "store"
              /\ draft'[r] = [draft[r] EXCEPT !["awake"] = Rows]
            BY <1>1, <2>4 DEF ReadAwake, Reads, BuildType
        <3>2. /\ draft'[r].awake = Rows /\ draft'[r].people = draft[r].people
              /\ draft'[r].decisions = draft[r].decisions /\ draft'[r].runway = draft[r].runway
              /\ draft'[r].stale = draft[r].stale
            BY <1>7, <3>1 DEF Draft
        <3> QED BY <1>3, <1>6, <3>1, <3>2 DEF FreshInv, DraftInv, DraftOK
    <2> QED BY <2>1, <2>2, <2>3, <2>4
<1>9. \A q \in Reader : q # r => DraftOK(q)'
    BY <1>3, <1>4, <1>6 DEF FreshInv, DraftInv, DraftOK
<1>10. DraftInv'
    BY <1>8, <1>9 DEF DraftInv
<1>11. \A d \in Day : Publishing(d)' <=> Publishing(d)
    BY <1>3 DEF Publishing, Clears
<1>12. PublishInv'
    BY <1>3, <1>4, <1>5, <1>11 DEF FreshInv, PublishInv
<1>13. FreshUnlessRaced'
    BY <1>3, <1>6 DEF FreshInv, FreshUnlessRaced, ShowsSnoozes, ShowsEmail
<1> QED BY <1>10, <1>12, <1>13 DEF FreshInv

(* What is stored at the end of a build is what is committed, or is marked. *)
LEMMA StoreKeepsFresh ==
    ASSUME Shape, FreshInv, NEW r \in Reader, Store(r)
    PROVE  FreshInv'
<1>1. DbType /\ BuildType /\ RedisType
    BY TypeParts DEF Shape
<1>2. Rows' = Rows /\ dec' = dec /\ UNCHANGED <<pc, tx>>
    BY <1>1, RowsKept DEF Store, database
<1>3. \A d \in Day : Publishing(d)' <=> Publishing(d)
    BY <1>2 DEF Publishing, Clears
<1>4. at[r] = "store"
    BY DEF Store
<1>5. \A q \in Reader : q # r => /\ draft'[q] = draft[q] /\ at'[q] = at[q]
                                 /\ day'[q] = day[q] /\ raced'[q] = raced[q]
    BY <1>1 DEF Store, BuildType
<1>6. at'[r] = "idle"
    BY <1>1 DEF Store, BuildType
<1>7. DecisionsBlock' = DecisionsBlock /\ PeopleBlock' = PeopleBlock
    BY <1>2, EmailKept
<1>8. DraftInv'
    BY <1>2, <1>5, <1>6, <1>7 DEF FreshInv, DraftInv, DraftOK
<1> DEFINE entry == [blocks |-> draft[r], raced |-> raced[r]]
<1>9. day[r] \in Day
    BY <1>1 DEF BuildType
<1>10. \A d \in Day : cache'[d] = cache[d] \/ (d = day[r] /\ cache'[d] = entry)
    BY <1>1 DEF Store, RedisType
<1>11. entry.blocks = draft[r] /\ entry.raced = raced[r]
    OBVIOUS
<1> HIDE DEF entry
<1>12. PublishInv'
    <2> SUFFICES ASSUME NEW d \in Day, Publishing(d)'
                 PROVE  /\ cache'[d] # None => cache'[d].raced
                        /\ \A q \in Reader : at'[q] # "idle" /\ day'[q] = d => raced'[q]
        BY DEF PublishInv
    <2>1. Publishing(d)
        BY <1>3
    <2>2. cache'[d] # None => cache'[d].raced
        BY <1>4, <1>10, <1>11, <2>1 DEF FreshInv, PublishInv
    <2>3. \A q \in Reader : at'[q] # "idle" /\ day'[q] = d => raced'[q]
        BY <1>5, <1>6, <2>1 DEF FreshInv, PublishInv
    <2> QED BY <2>2, <2>3
<1>13. FreshUnlessRaced'
    <2>1. ASSUME NEW d \in Day, cache'[d] # None, ~cache'[d].raced, NEW b, b = cache'[d].blocks
          PROVE  /\ b.runway.snoozed = Rows' /\ b.stale.snoozed = Rows' /\ b.awake = Rows'
                 /\ d = "today" => b.decisions = DecisionsBlock' /\ b.people = PeopleBlock'
        <3>1. CASE cache'[d] = cache[d]
            BY <1>2, <1>7, <2>1, <3>1 DEF FreshInv, FreshUnlessRaced, ShowsSnoozes, ShowsEmail
        <3>2. CASE d = day[r] /\ cache'[d] = entry
            BY <1>2, <1>4, <1>7, <1>11, <2>1, <3>2 DEF FreshInv, DraftInv, DraftOK
        <3> QED BY <1>10, <3>1, <3>2
    <2> QED BY <2>1 DEF FreshUnlessRaced, ShowsSnoozes, ShowsEmail
<1> QED BY <1>8, <1>12, <1>13 DEF FreshInv

(* Nothing is cached at the start, and no build is under way. *)
LEMMA FreshInit == Init => FreshInv
BY DEF Init, FreshInv, DraftInv, DraftOK, PublishInv, Publishing, FreshUnlessRaced

(* FreshInv is inductive. *)
LEMMA FreshStep == Shape /\ FreshInv /\ [Next]_vars => FreshInv'
<1> SUFFICES ASSUME Shape, FreshInv, [Next]_vars PROVE FreshInv'
    OBVIOUS
<1>1. DbType /\ PcType /\ TxType /\ RedisType
    BY TypeParts DEF Shape
<1>2. ASSUME UNCHANGED <<builds, cache, database>>,
             \/ UNCHANGED <<pc, tx>>
             \/ \E h \in Tx, to \in {"idle", "selected", "flushed"} :
                    Goes(h, to) /\ \A g \in Tx : g # h => tx'[g] = tx[g]
      PROVE  FreshInv'
    <2>1. Rows' = Rows /\ dec' = dec
        BY <1>1, <1>2, RowsKept DEF database
    <2>2. \A d \in Day : Publishing(d)' => Publishing(d)
        <3>1. CASE UNCHANGED <<pc, tx>>
            BY <3>1 DEF Publishing, Clears
        <3>2. CASE ~UNCHANGED <<pc, tx>>
            BY <1>1, <1>2, <3>2, PublishesLess
        <3> QED BY <3>1, <3>2
    <2> QED BY <1>2, <2>1, <2>2, QuietKeepsFresh
<1>3. CASE \E h \in Handler : Requests(h)
    <2> PICK h \in Handler : Requests(h)
        BY <1>3
    <2>1. UNCHANGED <<builds, cache, database>>
        BY RequestQuiet DEF redis
    <2>2. \/ UNCHANGED <<pc, tx>>
          \/ \E to \in {"selected", "flushed"} :
                Goes(h, to) /\ \A g \in Tx : g # h => tx'[g] = tx[g]
        BY <1>1 DEF Requests, Snooze, Unsnooze, LegacySnooze, SetDecision, AutoClassify, Decides,
                    SweepNow, SweepSelects, Selects, TxType
    <2> QED BY <1>2, <2>1, <2>2 DEF Tx
<1>4. CASE \E h \in Loop : LoopTicks(h) \/ Crash(h)
    <2> PICK h \in Loop : LoopTicks(h) \/ Crash(h)
        BY <1>4
    <2>1. UNCHANGED <<builds, cache, database>>
        BY DEF LoopTicks, Crash, redis
    <2>2. \/ UNCHANGED <<pc, tx>>
          \/ \E to \in {"idle", "selected"} :
                Goes(h, to) /\ \A g \in Tx : g # h => tx'[g] = tx[g]
        BY <1>1 DEF LoopTicks, Crash, Over, SweepSelects, Selects, TxType
    <2> QED BY <1>2, <2>1, <2>2 DEF Tx
<1>5. CASE \E h \in Tx : UpsertFlush(h) \/ RemoveFlush(h) \/ SweepFlush(h)
    <2> PICK h \in Tx : UpsertFlush(h) \/ RemoveFlush(h) \/ SweepFlush(h)
        BY <1>5
    <2>1. UNCHANGED <<builds, cache, database>>
        BY FlushQuiet DEF redis
    <2>2. \E to \in {"idle", "flushed"} : Goes(h, to) /\ \A g \in Tx : g # h => tx'[g] = tx[g]
        BY <1>1 DEF UpsertFlush, RemoveFlush, SweepFlush, Over, TxType
    <2> QED BY <1>2, <2>1, <2>2
<1>6. CASE \E h \in Tx : Invalidate(h) \/ Commit(h)
    BY <1>6, InvalidateKeepsFresh, CommitKeepsFresh
<1>7. CASE \E r \in Reader : Builds(r)
    BY <1>7, BeginsKeepsFresh, ReadsKeepsFresh, StoreKeepsFresh
       DEF Builds, BuildStep, GetToday, RefreshToday
<1>8. CASE \E d \in Day : CacheExpires(d)
    <2>1. UNCHANGED <<database, pc, tx, builds>>
        BY <1>8 DEF CacheExpires
    <2>2. \A d \in Day : cache'[d] = cache[d] \/ cache'[d] = None
        BY <1>1, <1>8 DEF CacheExpires, RedisType
    <2>3. \A d \in Day : Publishing(d)' => Publishing(d)
        BY <2>1 DEF Publishing, Clears
    <2>4. Rows' = Rows /\ dec' = dec
        BY <1>1, <2>1, RowsKept DEF database
    <2> QED BY <2>1, <2>2, <2>3, <2>4, QuietKeepsFresh
<1>9. CASE \E i \in Item : WakeTimePasses(i)
    <2>1. UNCHANGED <<dec, cache, pc, tx, builds>>
        BY <1>9 DEF WakeTimePasses, redis
    <2>2. \A d \in Day : Publishing(d)' => Publishing(d)
        BY <2>1 DEF Publishing, Clears
    <2>3. Rows' = Rows
        BY <1>1, <1>9, RowsKept
    <2> QED BY <2>1, <2>2, <2>3, QuietKeepsFresh
<1>10. CASE Outside \/ UNCHANGED vars
    BY <1>2, <1>10 DEF Outside, BoxWrites, LockExpires, RedisFails, RedisBack, vars, redis
<1> QED BY <1>3, <1>4, <1>5, <1>6, <1>7, <1>8, <1>9, <1>10, Steps DEF TxStep

-----------------------------------------------------------------------------
(* Hidden tasks.                                                           *)

(* The rows a transaction has locked once it is flushed. *)
Locks(t, i) == (\E d \in t.del : d[1] = i) \/ (t.put # None /\ t.item = i)

(* What a flushed transaction writes, by its kind: a snooze hides the task *)
(* of the row it puts, the deprecated route hides a task, an un-snooze     *)
(* only deletes its row, a decision does neither, and a sweep shows what   *)
(* it deletes, or the deprecated route has hidden it since.                *)
WellFlushed(t) ==
    /\ t.op \in {"create", "remove", "legacy", "email", "sweep"}
    /\ t.op = "create" => /\ t.put # None /\ t.del = {}
                          /\ \A f \in t.flag : f[1] = t.item
    /\ t.op # "create" => t.put = None
    /\ t.op = "remove" => t.flag = {} /\ \A d \in t.del : d[1] = t.item
    /\ t.op = "legacy" => t.del = {} /\ \A f \in t.flag : f[1] = t.item
    /\ t.op = "email" => t.flag = {} /\ t.del = {}
    /\ t.op = "sweep" =>
           /\ \A f \in t.flag : f[2] = TRUE /\ \E d \in t.del : d[1] = f[1]
           /\ \A d \in t.del : \/ visible[d[1]] = TRUE \/ <<d[1], TRUE>> \in t.flag
                              \/ orphaned[d[1]] # "no"

RowLocks ==
    \A g, h \in Tx, i \in Item :
        g # h /\ Flushed(g) /\ Flushed(h) => ~(Locks(tx[g], i) /\ Locks(tx[h], i))

FlushedInv == \A h \in Tx : Flushed(h) => WellFlushed(tx[h])

HiddenInv == RowLocks /\ FlushedInv /\ HiddenComesBack

(* A transaction stays well formed while its record and the flags are as   *)
(* they were.                                                              *)
LEMMA WellFlushedKept ==
    ASSUME NEW g, NEW t, tx'[g] = t, WellFlushed(t), UNCHANGED <<visible, orphaned>>
    PROVE  WellFlushed(tx[g])'
<1>1. visible' = visible /\ orphaned' = orphaned
    OBVIOUS
<1>2. t.op = "sweep" =>
           /\ \A f \in t.flag : f[2] = TRUE /\ \E d \in t.del : d[1] = f[1]
           /\ \A d \in t.del : \/ visible'[d[1]] = TRUE \/ <<d[1], TRUE>> \in t.flag
                              \/ orphaned'[d[1]] # "no"
    BY <1>1 DEF WellFlushed
<1> QED BY <1>2 DEF WellFlushed

(* Steps that change no table and flush nothing keep HiddenInv. *)
LEMMA QuietKeepsHidden ==
    ASSUME HiddenInv, UNCHANGED <<visible, orphaned>>,
           \A i \in Item : row[i] # None => row'[i] # None,
           \A h \in Tx : Flushed(h)' => Flushed(h) /\ tx'[h] = tx[h]
    PROVE  HiddenInv'
<1>1. RowLocks'
    BY DEF HiddenInv, RowLocks, Locks
<1>2. FlushedInv'
    BY WellFlushedKept DEF HiddenInv, FlushedInv
<1>3. HiddenComesBack'
    BY DEF HiddenInv, HiddenComesBack
<1> QED BY <1>1, <1>2, <1>3 DEF HiddenInv

(* The end of a transaction that is rolled back does, and so does a select. *)
LEMMA EndKeepsHidden ==
    ASSUME Shape, HiddenInv, UNCHANGED <<database, orphaned>>, NEW h \in Tx,
           Over(h) \/ \E op, i, n, found : Selects(h, op, i, n, found)
    PROVE  HiddenInv'
<1>1. PcType /\ TxType
    BY TypeParts DEF Shape
<1>2. ASSUME NEW g \in Tx, Flushed(g)'
      PROVE  Flushed(g) /\ tx'[g] = tx[g]
    BY <1>1, <1>2 DEF Over, Selects, Goes, Flushed, PcType, TxType
<1> QED BY <1>2, QuietKeepsHidden DEF database

(* A flush keeps HiddenInv when the rows it locks were free. *)
LEMMA FlushKeepsHidden ==
    ASSUME Shape, HiddenInv, UNCHANGED <<database, orphaned>>, NEW h \in Tx,
           NEW t, Goes(h, "flushed"), tx' = [tx EXCEPT ![h] = t],
           WellFlushed(t), \A i \in Item : Locks(t, i) => RowFree(i)
    PROVE  HiddenInv'
<1>1. PcType /\ TxType
    BY TypeParts DEF Shape
<1>2. \A g \in Tx : g # h => (Flushed(g)' <=> Flushed(g)) /\ tx'[g] = tx[g]
    BY <1>1 DEF Goes, Flushed, PcType, TxType
<1>3. tx'[h] = t
    BY <1>1 DEF TxType
<1>4. ASSUME NEW i \in Item, Locks(t, i), NEW g \in Tx, Flushed(g)
      PROVE  ~Locks(tx[g], i)
    BY <1>4 DEF RowFree, Locks
<1>5. RowLocks'
    BY <1>2, <1>3, <1>4 DEF HiddenInv, RowLocks, Locks
<1>6. FlushedInv'
    <2>1. ASSUME NEW g \in Tx, Flushed(g)'
          PROVE  WellFlushed(tx[g])'
        <3>1. CASE g = h
            BY <1>3, <3>1, WellFlushedKept DEF database
        <3>2. CASE g # h
            BY <1>2, <2>1, <3>2, WellFlushedKept DEF HiddenInv, FlushedInv, database
        <3> QED BY <3>1, <3>2
    <2> QED BY <2>1 DEF FlushedInv
<1>7. HiddenComesBack'
    BY DEF HiddenInv, HiddenComesBack, database
<1> QED BY <1>5, <1>6, <1>7 DEF HiddenInv

(* The flush of a snooze. *)
LEMMA UpsertKeepsHidden ==
    ASSUME Shape, HiddenInv, NEW h \in Tx, UpsertFlush(h)
    PROVE  HiddenInv'
<1> DEFINE t == tx[h]
           new == [SetVisibility(t, {t.item}, FALSE) EXCEPT
                     !.put = Row(IF Found(h) = None THEN t.n ELSE Found(h), t.n)]
<1>1. PcType /\ TxType /\ SelectedInv /\ UNCHANGED <<database, orphaned>>
    BY TypeParts DEF Shape, UpsertFlush
<1>2. CASE Found(h) # CurrentId(t.item)
    BY <1>1, <1>2, EndKeepsHidden DEF UpsertFlush
<1>3. CASE Found(h) = CurrentId(t.item)
    <2>1. t \in TxRecord /\ t.op = "create" /\ t.del = {} /\ t.item \in Item
        BY <1>1 DEF TxType, UpsertFlush, SelectedInv, SelectedOK, WritesOK
    <2>2. t.n \in Nat
        BY <2>1 DEF TxRecord
    <2>3. Row(IF Found(h) = None THEN t.n ELSE Found(h), t.n) # None
        BY <1>1, <2>2, FoundTyped, RowTyped
    <2>4. new.op = "create" /\ new.item = t.item /\ new.del = {} /\ new.put # None
          /\ \A f \in new.flag : f[1] = t.item
        <3>1. /\ new.op = "create" /\ new.item = t.item /\ new.del = {} /\ new.put # None
              /\ new.flag = {<<i, FALSE>> : i \in {j \in {t.item} : visible[j] # FALSE}}
            BY <2>1, <2>3 DEF SetVisibility, TxRecord
        <3> HIDE DEF new
        <3>2. ASSUME NEW f \in new.flag PROVE f[1] = t.item
            <4>1. PICK i \in {t.item} : f = <<i, FALSE>>
                BY <3>1
            <4> QED BY <4>1
        <3> QED BY <3>1, <3>2
    <2>5. Goes(h, "flushed") /\ tx' = [tx EXCEPT ![h] = new] /\ RowFree(t.item)
        BY <1>3 DEF UpsertFlush
    <2> HIDE DEF new
    <2>6. WellFlushed(new)
        BY <2>4 DEF WellFlushed
    <2>7. \A i \in Item : Locks(new, i) => RowFree(i)
        BY <2>4, <2>5 DEF Locks
    <2> QED BY <1>1, <2>5, <2>6, <2>7, FlushKeepsHidden
<1> QED BY <1>2, <1>3

(* The flush of an un-snooze. *)
LEMMA RemoveKeepsHidden ==
    ASSUME Shape, HiddenInv, NEW h \in Tx, RemoveFlush(h)
    PROVE  HiddenInv'
<1> DEFINE t == tx[h]
           new == Removes(t)
<1>1. TxType /\ SelectedInv /\ UNCHANGED <<database, orphaned>>
    BY TypeParts DEF Shape, RemoveFlush
<1>2. /\ t \in TxRecord /\ t.op = "remove" /\ t.put = None /\ t.flag = {}
      /\ \A d \in t.got : d[1] = t.item
    BY <1>1 DEF TxType, RemoveFlush, SelectedInv, SelectedOK
<1>3. /\ new.op = "remove" /\ new.item = t.item /\ new.put = None /\ new.flag = {}
      /\ new.del = t.got
    BY <1>2 DEF Removes, TxRecord
<1>4. Goes(h, "flushed") /\ tx' = [tx EXCEPT ![h] = new] /\ RowFree(t.item)
    BY DEF RemoveFlush
<1> HIDE DEF new
<1>5. WellFlushed(new)
    BY <1>2, <1>3 DEF WellFlushed
<1>6. \A i \in Item : Locks(new, i) => RowFree(i)
    BY <1>2, <1>3, <1>4 DEF Locks
<1> QED BY <1>1, <1>4, <1>5, <1>6, FlushKeepsHidden

(* The flush of a sweep: what it deletes is visible, or will be. *)
LEMMA SweepKeepsHidden ==
    ASSUME Shape, HiddenInv, NEW h \in Tx, SweepFlush(h)
    PROVE  HiddenInv'
<1> DEFINE t == tx[h]
           swept == {g[1] : g \in t.got}
           new == SetVisibility(Removes(t), swept, TRUE)
<1>1. TxType /\ SelectedInv /\ DbType /\ UNCHANGED <<database, orphaned>>
    BY TypeParts DEF Shape, SweepFlush
<1>2. t \in TxRecord /\ t.op = "sweep" /\ t.put = None
    BY <1>1 DEF TxType, SweepFlush, SelectedInv, SelectedOK
<1>3. /\ new.op = "sweep" /\ new.put = None /\ new.del = t.got
      /\ new.flag = {<<i, TRUE>> : i \in {j \in swept : visible[j] # TRUE}}
    BY <1>2 DEF SetVisibility, Removes, TxRecord
<1>4. Goes(h, "flushed") /\ tx' = [tx EXCEPT ![h] = new] /\ \A i \in swept : RowFree(i)
    BY DEF SweepFlush
<1> HIDE DEF new
<1>5. ASSUME NEW f \in new.flag
      PROVE  f[2] = TRUE /\ \E d \in new.del : d[1] = f[1]
    <2>1. PICK i \in swept : f = <<i, TRUE>>
        BY <1>3
    <2>2. PICK d \in t.got : d[1] = i
        BY <2>1
    <2> QED BY <1>3, <2>1, <2>2
<1>6. \A d \in new.del : visible[d[1]] = TRUE \/ <<d[1], TRUE>> \in new.flag
    BY <1>3
<1>7. WellFlushed(new)
    BY <1>3, <1>5, <1>6 DEF WellFlushed
<1>8. \A i \in Item : Locks(new, i) => RowFree(i)
    BY <1>3, <1>4 DEF Locks
<1> QED BY <1>1, <1>4, <1>7, <1>8, FlushKeepsHidden

(* The flush of a decision. *)
LEMMA DecidesKeepsHidden ==
    ASSUME Shape, HiddenInv, NEW h \in Tx, NEW d, Decides(h, d)
    PROVE  HiddenInv'
<1> DEFINE new == [NoTx EXCEPT !.op = "email", !.dec = d]
<1>1. new.op = "email" /\ new.put = None /\ new.flag = {} /\ new.del = {}
    BY DEF NoTx
<1>2. /\ Goes(h, "flushed") /\ tx' = [tx EXCEPT ![h] = new]
      /\ UNCHANGED <<database, orphaned>>
    BY DEF Decides
<1> HIDE DEF new
<1>3. WellFlushed(new)
    BY <1>1 DEF WellFlushed
<1>4. \A i \in Item : ~Locks(new, i)
    BY <1>1 DEF Locks
<1> QED BY <1>2, <1>3, <1>4, FlushKeepsHidden

(* The flush of the deprecated route locks no row. *)
LEMMA LegacyKeepsHidden ==
    ASSUME Shape, HiddenInv, NEW h \in Tx, NEW j \in Item, LegacySnooze(h, j)
    PROVE  HiddenInv'
<1> DEFINE new == SetVisibility([NoTx EXCEPT !.op = "legacy", !.item = j], {j}, FALSE)
<1>1. /\ new.op = "legacy" /\ new.item = j /\ new.put = None /\ new.del = {}
      /\ new.flag = {<<i, FALSE>> : i \in {k \in {j} : visible[k] # FALSE}}
    BY DEF NoTx, SetVisibility
<1>2. /\ Goes(h, "flushed") /\ tx' = [tx EXCEPT ![h] = new]
      /\ UNCHANGED <<database, orphaned>>
    BY DEF LegacySnooze
<1> HIDE DEF new
<1>3. ASSUME NEW f \in new.flag PROVE f[1] = j
    <2>1. PICK i \in {j} : f = <<i, FALSE>>
        BY <1>1
    <2> QED BY <2>1
<1>4. WellFlushed(new)
    BY <1>1, <1>3 DEF WellFlushed
<1>5. \A i \in Item : ~Locks(new, i)
    BY <1>1 DEF Locks
<1> QED BY <1>2, <1>4, <1>5, FlushKeepsHidden

(* A commit: what it deletes is visible afterwards, or it is known why     *)
(* not; other transactions have locked other rows, and what the deprecated *)
(* route hides in between is known.                                        *)
LEMMA CommitKeepsHidden ==
    ASSUME Shape, HiddenInv, NEW h \in Tx, Commit(h)
    PROVE  HiddenInv'
<1> DEFINE t == tx[h]
<1>1. PcType /\ TxType /\ DbType /\ OrphanType /\ SelectedInv
    BY TypeParts DEF Shape
<1>2. t \in TxRecord /\ Flushed(h) /\ WellFlushed(t) /\ Over(h)
    BY <1>1 DEF Commit, Flushed, TxType, HiddenInv, FlushedInv
<1>3. /\ row' = [i \in Item |->
             IF t.put # None /\ t.item = i THEN t.put
             ELSE IF <<i, CurrentId(i)>> \in t.del THEN None ELSE row[i]]
      /\ visible' = [i \in Item |->
             IF \E b \in BOOLEAN : <<i, b>> \in t.flag THEN <<i, TRUE>> \in t.flag
             ELSE visible[i]]
    BY DEF Commit
<1>4. /\ t.op = "remove" => orphaned' = [orphaned EXCEPT ![t.item] = "unsnoozed"]
      /\ t.op = "legacy" => orphaned' = [orphaned EXCEPT ![t.item] = "hidden"]
      /\ t.op = "create" => orphaned' = [orphaned EXCEPT ![t.item] = "no"]
      /\ t.op \in {"email", "sweep"} => orphaned' = orphaned
    BY DEF Commit
<1>5. \A g \in Tx : Flushed(g)' => g # h /\ Flushed(g) /\ tx'[g] = tx[g]
    BY <1>1, <1>2 DEF Over, Goes, Flushed, PcType, TxType
<1>6. t.op \in {"create", "remove", "legacy"} => t.item \in Item
    BY <1>1 DEF SelectedInv, SelectedOK, WritesOK
<1>7. ASSUME NEW i \in Item, ~Locks(t, i)
      PROVE  /\ row'[i] = row[i]
             /\ (visible'[i] = visible[i] /\ orphaned'[i] = orphaned[i]) \/ orphaned'[i] # "no"
    <2>1. row'[i] = row[i]
        BY <1>3, <1>7 DEF Locks
    <2>2. CASE t.op \in {"legacy", "remove"} /\ t.item = i
        <3>1. orphaned'[i] # "no"
            BY <1>1, <1>4, <2>2 DEF OrphanType
        <3> QED BY <2>1, <3>1
    <2>3. CASE ~(t.op \in {"legacy", "remove"} /\ t.item = i)
        <3>1. t.op = "create" => t.item # i
            BY <1>2, <1>7 DEF WellFlushed, Locks
        <3>2. orphaned'[i] = orphaned[i]
            BY <1>1, <1>2, <1>4, <1>6, <2>3, <3>1 DEF OrphanType, WellFlushed
        <3>3. \A f \in t.flag : f[1] # i
            BY <1>2, <1>7, <2>3, <3>1 DEF WellFlushed, Locks
        <3>4. ~\E b \in BOOLEAN : <<i, b>> \in t.flag
            BY <3>3
        <3> QED BY <1>3, <2>1, <3>2, <3>4
    <2> QED BY <2>2, <2>3
<1>8. RowLocks'
    BY <1>5 DEF HiddenInv, RowLocks, Locks
<1>9. ASSUME NEW g \in Tx, Flushed(g)'
      PROVE  WellFlushed(tx[g])'
    <2>1. g # h /\ Flushed(g) /\ tx'[g] = tx[g] /\ WellFlushed(tx[g])
        BY <1>5, <1>9 DEF HiddenInv, FlushedInv
    <2>2. tx[g] \in TxRecord
        BY <1>1 DEF TxType
    <2>3. ASSUME NEW d \in tx[g].del
          PROVE  \/ visible'[d[1]] = visible[d[1]] /\ orphaned'[d[1]] = orphaned[d[1]]
                 \/ orphaned'[d[1]] # "no"
        <3>1. d[1] \in Item /\ Locks(tx[g], d[1])
            BY <2>2, <2>3 DEF TxRecord, Locks
        <3>2. ~Locks(t, d[1])
            BY <1>2, <2>1, <3>1 DEF HiddenInv, RowLocks
        <3> QED BY <1>7, <3>1, <3>2
    <2>4. tx[g].op = "sweep" =>
             \A d \in tx[g].del : \/ visible'[d[1]] = TRUE \/ <<d[1], TRUE>> \in tx[g].flag
                                 \/ orphaned'[d[1]] # "no"
        BY <2>1, <2>3 DEF WellFlushed
    <2> QED BY <2>1, <2>4 DEF WellFlushed
<1>10. ASSUME NEW i \in Item, ~visible'[i]
       PROVE  row'[i] # None \/ orphaned'[i] # "no"
    <2>1. CASE ~Locks(t, i)
        BY <1>7, <1>10, <2>1 DEF HiddenInv, HiddenComesBack
    <2>2. CASE t.put # None /\ t.item = i
        BY <1>3, <2>2
    <2>3. CASE \E d \in t.del : d[1] = i
        <3>1. CASE t.op = "remove"
            <4>1. t.item = i
                BY <1>2, <2>3, <3>1 DEF WellFlushed
            <4> QED BY <1>1, <1>4, <3>1, <4>1 DEF OrphanType
        <3>2. CASE t.op = "sweep"
            <4>1. visible[i] = TRUE \/ <<i, TRUE>> \in t.flag \/ orphaned[i] # "no"
                BY <1>2, <2>3, <3>2 DEF WellFlushed
            <4>2. \A b \in BOOLEAN : <<i, b>> \in t.flag => b = TRUE
                BY <1>2, <3>2 DEF WellFlushed
            <4>3. visible'[i] \/ orphaned[i] # "no"
                BY <1>3, <4>1, <4>2
            <4> QED BY <1>4, <1>10, <3>2, <4>3
        <3>3. t.op \in {"remove", "sweep"}
            BY <1>2, <2>3 DEF WellFlushed
        <3> QED BY <3>1, <3>2, <3>3
    <2> QED BY <2>1, <2>2, <2>3 DEF Locks
<1> QED BY <1>8, <1>9, <1>10 DEF HiddenInv, FlushedInv, HiddenComesBack

(* HiddenInv is inductive. *)
LEMMA HiddenInit == Init => HiddenInv
BY DEF Init, HiddenInv, RowLocks, FlushedInv, HiddenComesBack, Flushed

LEMMA HiddenStep == Shape /\ HiddenInv /\ [Next]_vars => HiddenInv'
<1> SUFFICES ASSUME Shape, HiddenInv, [Next]_vars PROVE HiddenInv'
    OBVIOUS
<1>1. PcType /\ TxType /\ DbType
    BY TypeParts DEF Shape
<1>2. ASSUME UNCHANGED <<database, orphaned, pc, tx>>
      PROVE  HiddenInv'
    BY <1>2, QuietKeepsHidden DEF database, Flushed
<1>3. ASSUME NEW h \in Tx, SweepSelects(h), UNCHANGED <<database, orphaned>>
      PROVE  HiddenInv'
    BY <1>2, <1>3, EndKeepsHidden DEF SweepSelects
<1>4. CASE \E h \in Handler : Requests(h)
    <2> PICK h \in Handler : Requests(h)
        BY <1>4
    <2>1. h \in Tx /\ UNCHANGED <<database, orphaned>>
        BY RequestQuiet DEF Tx
    <2>2. CASE \E i \in Item : Snooze(h, i) \/ Unsnooze(h, i)
        <3>1. \E op, i, n, found : Selects(h, op, i, n, found)
            BY <2>2 DEF Snooze, Unsnooze
        <3> QED BY <2>1, <3>1, EndKeepsHidden
    <2>3. CASE \E i \in Item : LegacySnooze(h, i)
        BY <2>1, <2>3, LegacyKeepsHidden
    <2>4. CASE SetDecision(h) \/ AutoClassify(h)
        BY <2>1, <2>4, DecidesKeepsHidden DEF SetDecision, AutoClassify
    <2>5. CASE SweepNow(h)
        BY <1>3, <2>1, <2>5 DEF SweepNow
    <2> QED BY <2>2, <2>3, <2>4, <2>5 DEF Requests
<1>5. CASE \E h \in Loop : LoopTicks(h) \/ Crash(h)
    BY <1>3, <1>5, EndKeepsHidden DEF LoopTicks, Crash, Tx
<1>6. CASE \E h \in Tx : UpsertFlush(h) \/ RemoveFlush(h) \/ SweepFlush(h) \/ Commit(h)
    BY <1>6, UpsertKeepsHidden, RemoveKeepsHidden, SweepKeepsHidden, CommitKeepsHidden
<1>7. CASE \E h \in Tx : Invalidate(h)
    <2> PICK h \in Tx : Invalidate(h)
        BY <1>7
    <2>1. UNCHANGED <<database, orphaned>>
        BY DEF Invalidate
    <2>2. CASE up
        <3>1. \A g \in Tx : Flushed(g)' => Flushed(g) /\ tx'[g] = tx[g]
            BY <1>1, <2>2 DEF Invalidate, Goes, Flushed, PcType
        <3> QED BY <2>1, <3>1, QuietKeepsHidden DEF database
    <2>3. CASE ~up
        BY <2>1, <2>3, EndKeepsHidden DEF Invalidate
    <2> QED BY <2>2, <2>3
<1>8. CASE \E r \in Reader : Builds(r)
    BY <1>2, <1>8, BuildQuiet
<1>9. CASE \E i \in Item : WakeTimePasses(i)
    <2> PICK i \in Item : WakeTimePasses(i)
        BY <1>9
    <2>1. row' = [row EXCEPT ![i].due = TRUE] /\ row[i] # None
          /\ UNCHANGED <<visible, orphaned, pc, tx>>
        BY DEF WakeTimePasses
    <2>2. row'[i] \in [id : Nat, wake : Nat, due : BOOLEAN]
        BY <1>1, <2>1 DEF DbType, SnoozeItem
    <2>3. row'[i] # None
        BY <2>2, BriefingAssumption
    <2>4. \A j \in Item : row[j] # None => row'[j] # None
        BY <1>1, <2>1, <2>3 DEF DbType
    <2> QED BY <2>1, <2>4, QuietKeepsHidden DEF Flushed
<1>10. CASE (\E d \in Day : CacheExpires(d)) \/ Outside \/ UNCHANGED vars
    BY <1>2, <1>10 DEF CacheExpires, Outside, BoxWrites, LockExpires, RedisFails, RedisBack, vars
<1> QED BY <1>4, <1>5, <1>6, <1>7, <1>8, <1>9, <1>10, Steps DEF TxStep

-----------------------------------------------------------------------------
(* The theorems.                                                           *)

(* The inductive invariant of the module. *)
BriefingInv == Shape /\ LoopInv /\ FreshInv /\ HiddenInv

LEMMA BriefingInvariant == Spec => []BriefingInv
<1>1. Init => BriefingInv
    <2>1. Init => LoopInv
        BY DEF Init, LoopInv, Tx
    <2> QED BY <2>1, ShapeInit, FreshInit, HiddenInit DEF BriefingInv
<1>2. BriefingInv /\ [Next]_vars => BriefingInv'
    BY ShapeStep, LoopStep, FreshStep, HiddenStep DEF BriefingInv
<1> QED BY <1>1, <1>2, PTL DEF Spec

(* Rows, transactions, the lock and the cache are always well formed, and  *)
(* the sweep loops of several processes take turns (snooze_service         *)
(* _try_acquire_lock and run_sweeper).                                     *)
THEOREM BriefingCorrect == Spec => []Inv
<1>1. BriefingInv => Inv
    BY LoopsAlone DEF BriefingInv, Shape, Inv
<1> QED BY <1>1, BriefingInvariant, PTL

(* A cached briefing of any day shows the committed snoozes, and today's   *)
(* the committed decision on the email, unless its build met a write that  *)
(* was being published: every path that writes what is shown has cleared   *)
(* the days that show it before it commits (briefing_cache.invalidate).    *)
(* The tasks of Project-Box are not among it, nor the emails under another *)
(* date: nothing clears the cache for them.                                *)
THEOREM FreshCorrect == Spec => []FreshUnlessRaced
<1>1. BriefingInv => FreshUnlessRaced
    BY DEF BriefingInv, FreshInv
<1> QED BY <1>1, BriefingInvariant, PTL

(* A hidden task has a snooze that brings it back, or its snooze was       *)
(* removed by a user, or the deprecated route hid it without one: the row  *)
(* locks keep overlapping snoozes, sweeps and these two from losing a row  *)
(* and keeping the flag.                                                   *)
THEOREM HiddenCorrect == Spec => []HiddenComesBack
<1>1. BriefingInv => HiddenComesBack
    BY DEF BriefingInv, HiddenInv
<1> QED BY <1>1, BriefingInvariant, PTL
=============================================================================
