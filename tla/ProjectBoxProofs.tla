--------------------------- MODULE ProjectBoxProofs --------------------------
(***************************************************************************)
(* Proofs about ProjectBox, for every set of requests and file names and   *)
(* every number of focus sessions.                                         *)
(***************************************************************************)
EXTENDS ProjectBox, FiniteSetTheorems, TLAPS

-----------------------------------------------------------------------------
(* The requests.                                                           *)

Op == {"none", "list", "update", "create", "archive", "convert", "start", "stop"}
Place == {"idle", "fetch", "store", "call", "answered", "pair", "save", "clear"}
ReqRecord == [op : Op, task : Task \cup {None}, list : TaskList \cup {None},
              session : Session \cup {None}]

(* What a request is and knows at each place of its way. *)
WellReq(where, r) ==
    /\ r.op = "none" <=> where = "idle"
    /\ where \in {"fetch", "store"} =>
           r.op \in {"list", "update", "start"} /\ (r.op # "list" => r.task \in Task)
    /\ where = "store" => r.list # None
    /\ where = "call" =>
           /\ r.op \in {"update", "create", "archive", "convert", "stop"}
           /\ r.op \in {"update", "archive", "stop"} => r.task \in Task
           /\ r.op = "update" => r.list # None /\ r.list.tasks[r.task] # None
           /\ r.op = "stop" => r.session \in Session
    /\ where = "answered" =>
           r.op \in {"update", "create", "archive", "convert", "stop"} /\ r.task \in Task
    /\ where = "pair" => r.op = "convert" /\ r.task \in Task
    /\ where = "save" => r.op = "start" /\ r.task \in Task
    /\ where = "clear" => r.op = "stop" /\ (r.session # None => r.task \in Task)

PcType == pc \in [Handler -> Place]
ReqType == req \in [Handler -> ReqRecord]
ReqInv == \A h \in Handler : WellReq(pc[h], req[h])
VaultType == vault \in [Task -> Note \cup {None}] /\ unused \subseteq {t \in Task : vault[t] = None}
RedisType == /\ up \in BOOLEAN /\ cache \in TaskList \cup {None}
             /\ focus \in [session : Session, task : Task] \cup {None}
EmailType == /\ email \in [converted : BOOLEAN, task : Task \cup {None}] /\ made \subseteq Task
             /\ excused \in BOOLEAN /\ overlap \in BOOLEAN
CountType == {requests, sessions, edits, faults} \subseteq Nat

Shape == PcType /\ ReqType /\ ReqInv /\ VaultType /\ RedisType /\ EmailType /\ CountType

(* The parts give the type invariant. *)
LEMMA ShapeTypes == Shape => TypeOK
<1> SUFFICES ASSUME Shape PROVE TypeOK
    OBVIOUS
<1>1. PcType /\ ReqType /\ ReqInv /\ VaultType /\ RedisType /\ EmailType /\ CountType
    BY DEF Shape
<1>2. pc \in [Handler -> {"idle", "fetch", "store", "call", "answered", "pair", "save", "clear"}]
    BY <1>1 DEF PcType, Place
<1>3. \A h \in Handler :
        /\ req[h].op = "none" <=> pc[h] = "idle"
        /\ pc[h] = "call" /\ req[h].op = "update" =>
               req[h].list # None /\ req[h].list.tasks[req[h].task] # None
    BY <1>1 DEF ReqInv, WellReq
<1>4. {up, excused, overlap} \subseteq BOOLEAN
    BY <1>1 DEF RedisType, EmailType
<1> QED BY <1>1, <1>2, <1>3, <1>4
       DEF TypeOK, ReqType, VaultType, RedisType, EmailType, CountType, ReqRecord, Op

(* None is no note, no list and no session. *)
LEMMA NoneApart ==
    None \notin Task \cup Session \cup Note \cup TaskList \cup [session : Session, task : Task]
BY ProjectBoxAssumption

(* A new note is a note, and the request of nobody is well formed. *)
LEMMA NewTyped == NewNote \in Note
BY DEF NewNote, Note

LEMMA NoReqTyped == NoReq \in ReqRecord /\ WellReq("idle", NoReq)
BY DEF NoReq, ReqRecord, Op, WellReq

(* Marking a list stale changes nothing else of it. *)
LEMMA StaleFacts ==
    ASSUME NEW l \in TaskList \cup {None}
    PROVE  /\ Stale(l) \in TaskList \cup {None}
           /\ Stale(l) = None <=> l = None
           /\ l # None => Stale(l).stale = TRUE /\ Stale(l).tasks = l.tasks
<1>1. CASE l = None
    BY <1>1 DEF Stale
<1>2. CASE l # None
    <2>1. l \in TaskList /\ Stale(l) = [l EXCEPT !.stale = TRUE]
        BY <1>2 DEF Stale
    <2>2. Stale(l) \in TaskList /\ Stale(l).stale = TRUE /\ Stale(l).tasks = l.tasks
        BY <2>1 DEF TaskList
    <2> QED BY <1>2, <2>2, NoneApart
<1> QED BY <1>1, <1>2

(* A request whose list is marked stale is as well formed as before. *)
LEMMA StaleReq ==
    ASSUME NEW r \in ReqRecord, NEW where, WellReq(where, r)
    PROVE  /\ [r EXCEPT !.list = Stale(@)] \in ReqRecord
           /\ WellReq(where, [r EXCEPT !.list = Stale(@)])
<1> DEFINE s == [r EXCEPT !.list = Stale(@)]
<1>1. /\ s.op = r.op /\ s.task = r.task /\ s.session = r.session /\ s.list = Stale(r.list)
      /\ r.list \in TaskList \cup {None}
    BY DEF ReqRecord
<1>2. s \in ReqRecord
    BY <1>1, StaleFacts DEF ReqRecord
<1>3. (s.list = None <=> r.list = None) /\ (r.list # None => s.list.tasks = r.list.tasks)
    BY <1>1, StaleFacts
<1> HIDE DEF s
<1>4. WellReq(where, s)
    BY <1>1, <1>3 DEF WellReq
<1> QED BY <1>2, <1>4 DEF s

(* A request that goes to a place where it is well formed. *)
LEMMA BecomesShape ==
    ASSUME PcType, ReqType, ReqInv, NEW h \in Handler, NEW where \in Place,
           NEW r \in ReqRecord, Becomes(h, where, r),
           where # "idle" => WellReq(where, r)
    PROVE  PcType' /\ ReqType' /\ ReqInv'
<1> DEFINE new == IF where = "idle" THEN NoReq ELSE r
<1>1. new \in ReqRecord /\ WellReq(where, new)
    BY NoReqTyped
<1>2. pc' = [pc EXCEPT ![h] = where] /\ req' = [req EXCEPT ![h] = new]
    BY DEF Becomes
<1> HIDE DEF new
<1>3. PcType' /\ ReqType'
    BY <1>1, <1>2 DEF PcType, ReqType
<1>4. ASSUME NEW g \in Handler PROVE WellReq(pc[g], req[g])'
    <2>1. CASE g = h
        <3>1. pc'[g] = where /\ req'[g] = new
            BY <1>2, <2>1 DEF PcType, ReqType
        <3> QED BY <1>1, <3>1 DEF WellReq
    <2>2. CASE g # h
        <3>1. pc'[g] = pc[g] /\ req'[g] = req[g]
            BY <1>2, <2>2 DEF PcType, ReqType
        <3> QED BY <3>1 DEF WellReq, ReqInv
    <2> QED BY <2>1, <2>2
<1> QED BY <1>3, <1>4 DEF ReqInv

(* What remains of a request at its place. *)
LEMMA BecomesFacts ==
    ASSUME PcType, ReqType, NEW h \in Handler, NEW where, NEW r, Becomes(h, where, r)
    PROVE  /\ pc'[h] = where /\ req'[h] = IF where = "idle" THEN NoReq ELSE r
           /\ \A g \in Handler : g # h => pc'[g] = pc[g] /\ req'[g] = req[g]
BY DEF PcType, ReqType, Becomes

(* Where a request goes with the list it has. *)
LEMMA WithListCases ==
    ASSUME NEW h, NEW r, WithList(h, r), r.op \in {"list", "update", "start"}
    PROVE  \/ Over(h)
           \/ r.op = "update" /\ r.list.tasks[r.task] # None /\ Becomes(h, "call", r)
           \/ r.op = "start" /\ r.list.tasks[r.task] # None /\ Becomes(h, "save", r)
BY DEF WithList

(* What the load of a list does: the list is in the cache, or is fetched.  *)
LEMMA LoadsForm ==
    ASSUME Shape, NEW h \in Handler, NEW op \in {"list", "update", "start"},
           NEW t \in Task \cup {None}, op # "list" => t \in Task, Loads(h, op, t)
    PROVE  \E where \in {"idle", "fetch", "call", "save"}, r \in ReqRecord :
              /\ Becomes(h, where, r) /\ (where # "idle" => WellReq(where, r))
              /\ r.op = op /\ r.session = None
              /\ r.list # None => /\ cache # None /\ r.list.tasks = cache.tasks
                                  /\ r.list.stale = (cache.stale \/ Unpublished # {})
<1> DEFINE r == [NoReq EXCEPT !.op = op, !.task = t]
           l == List(cache.tasks, cache.stale \/ Unpublished # {})
           rl == [r EXCEPT !.list = l]
<1>1. r.op = op /\ r.task = t /\ r.list = None /\ r.session = None /\ r \in ReqRecord
    BY DEF NoReq, ReqRecord, Op
<1>2. CASE Becomes(h, "fetch", r)
    <2>1. WellReq("fetch", r)
        BY <1>1 DEF WellReq
    <2> QED BY <1>1, <1>2, <2>1
<1>3. CASE cache # None /\ WithList(h, rl)
    <2>1. cache \in TaskList
        BY <1>3 DEF Shape, RedisType
    <2>2. (cache.stale \/ Unpublished # {}) \in BOOLEAN
        OBVIOUS
    <2>3. l \in TaskList /\ l.tasks = cache.tasks
          /\ l.stale = (cache.stale \/ Unpublished # {})
        BY <2>1, <2>2 DEF List, TaskList
    <2> HIDE DEF l
    <2>4. /\ rl.op = op /\ rl.task = t /\ rl.session = None /\ rl.list = l /\ rl \in ReqRecord
        BY <1>1, <2>3 DEF ReqRecord
    <2> HIDE DEF rl
    <2>5. CASE Over(h)
        BY <1>3, <2>3, <2>4, <2>5 DEF Over, Becomes
    <2>6. CASE rl.op = "update" /\ rl.list.tasks[rl.task] # None /\ Becomes(h, "call", rl)
        <3>1. WellReq("call", rl)
            BY <2>3, <2>4, <2>6, NoneApart DEF WellReq
        <3> QED BY <1>3, <2>3, <2>4, <2>6, <3>1
    <2>7. CASE rl.op = "start" /\ rl.list.tasks[rl.task] # None /\ Becomes(h, "save", rl)
        <3>1. WellReq("save", rl)
            BY <2>4, <2>7 DEF WellReq
        <3> QED BY <1>3, <2>3, <2>4, <2>7, <3>1
    <2> QED BY <1>3, <2>4, <2>5, <2>6, <2>7, WithListCases
<1> QED BY <1>2, <1>3 DEF Loads

(* What the rest of a load does: the notes are fetched as they are, and    *)
(* stored.                                                                 *)
LEMMA FetchForm ==
    ASSUME Shape, NEW h \in Handler, Fetch(h)
    PROVE  \/ Over(h)
           \/ \E r \in ReqRecord :
                 /\ Becomes(h, "store", r) /\ WellReq("store", r)
                 /\ r.op = req[h].op /\ r.op \in {"list", "update", "start"}
                 /\ r.list # None /\ r.list.tasks = vault
<1> DEFINE r == [req[h] EXCEPT !.list = List(vault, FALSE)]
<1>1. CASE Becomes(h, "store", r)
    <2>1. req[h] \in ReqRecord /\ WellReq("fetch", req[h])
        BY DEF Shape, ReqType, ReqInv, Fetch
    <2>2. List(vault, FALSE) \in TaskList /\ List(vault, FALSE).tasks = vault
        BY DEF Shape, VaultType, TaskList, List
    <2>3. /\ r.op = req[h].op /\ r.task = req[h].task /\ r.list = List(vault, FALSE)
          /\ r \in ReqRecord
        BY <2>1, <2>2 DEF ReqRecord
    <2>4. r.list # None /\ r.list.tasks = vault
        BY <2>2, <2>3, NoneApart
    <2> HIDE DEF r
    <2>5. WellReq("store", r) /\ r.op \in {"list", "update", "start"}
        BY <2>1, <2>3, <2>4 DEF WellReq
    <2> QED BY <1>1, <2>3, <2>4, <2>5
<1>2. CASE Over(h)
    BY <1>2
<1> QED BY <1>1, <1>2 DEF Fetch

LEMMA StoreForm ==
    ASSUME Shape, NEW h \in Handler, Store(h)
    PROVE  /\ \/ Over(h)
              \/ \E where \in {"call", "save"} :
                    Becomes(h, where, req[h]) /\ WellReq(where, req[h])
           /\ req[h] \in ReqRecord /\ req[h].list \in TaskList
           /\ req[h].op \in {"list", "update", "start"}
<1>1. /\ req[h] \in ReqRecord /\ WellReq("store", req[h]) /\ WithList(h, req[h])
    BY DEF Shape, ReqType, ReqInv, Store
<1>2. req[h].list \in TaskList /\ req[h].op \in {"list", "update", "start"}
    BY <1>1 DEF WellReq, ReqRecord
<1>3. CASE req[h].op = "update" /\ req[h].list.tasks[req[h].task] # None
           /\ Becomes(h, "call", req[h])
    <2>1. WellReq("call", req[h])
        BY <1>1, <1>3 DEF WellReq
    <2> QED BY <1>1, <1>2, <1>3, <2>1
<1>4. CASE req[h].op = "start" /\ req[h].list.tasks[req[h].task] # None
           /\ Becomes(h, "save", req[h])
    <2>1. WellReq("save", req[h])
        BY <1>1, <1>4 DEF WellReq
    <2> QED BY <1>1, <1>2, <1>4, <2>1
<1> QED BY <1>1, <1>2, <1>3, <1>4, WithListCases

(* The four kinds of writes Project-Box makes. *)
LEMMA WrittenCases ==
    ASSUME Shape, NEW h \in Handler, pc[h] = "call", ~Refused(h), NEW w \in Written(h)
    PROVE  /\ w[1] \in [Task -> Note \cup {None}] /\ w[2] \in Task
           /\ \A t \in Task : t # w[2] => w[1][t] = vault[t]
           /\ \/ /\ req[h].op \in {"create", "convert"}
                 /\ w[2] \in unused /\ w[1][w[2]] = NewNote
              \/ /\ req[h].op = "update" /\ w[2] = req[h].task
                 /\ vault[w[2]] # None
                 /\ w[1] = [vault EXCEPT ![req[h].task] = Merged(h)]
              \/ /\ req[h].op = "archive" /\ w[1][w[2]] = None
              \/ /\ req[h].op = "stop" /\ w[2] = req[h].task
                 /\ vault[w[2]] # None
                 /\ w[1][w[2]] = [vault[w[2]] EXCEPT !.timeEntries[req[h].session] = @ + 1]
<1>1. /\ vault \in [Task -> Note \cup {None}] /\ unused \subseteq Task
      /\ req[h] \in ReqRecord /\ WellReq("call", req[h])
    BY DEF Shape, VaultType, ReqType, ReqInv
<1>2. req[h].op \in {"update", "create", "archive", "convert", "stop"}
    BY <1>1 DEF WellReq
<1>3. CASE req[h].op \in {"create", "convert"}
    <2>1. PICK u \in unused : w = <<[vault EXCEPT ![u] = NewNote], u>>
        BY <1>3 DEF Written
    <2> QED BY <1>1, <1>3, <2>1, NewTyped
<1>4. CASE req[h].op = "update"
    <2>1. w = <<[vault EXCEPT ![req[h].task] = Merged(h)], req[h].task>>
        BY <1>4 DEF Written
    <2>2. req[h].task \in Task /\ vault[req[h].task] # None
        BY <1>1, <1>4 DEF WellReq, Refused
    <2>3. Merged(h) \in Note
        <3>1. /\ req[h].list \in TaskList /\ req[h].list.tasks[req[h].task] # None
            BY <1>1, <1>4 DEF WellReq, ReqRecord
        <3>2. req[h].list.tasks[req[h].task] \in Note
            BY <2>2, <3>1 DEF TaskList
        <3> QED BY <3>2 DEF Merged, Note
    <2> QED BY <1>1, <1>4, <2>1, <2>2, <2>3
<1>5. CASE req[h].op = "archive"
    <2>1. w = <<[vault EXCEPT ![req[h].task] = None], req[h].task>>
        BY <1>5 DEF Written
    <2>2. req[h].task \in Task
        BY <1>1, <1>5 DEF WellReq
    <2> QED BY <1>1, <1>5, <2>1, <2>2
<1>6. CASE req[h].op = "stop"
    <2> DEFINE t == req[h].task
    <2>1. w = <<[vault EXCEPT ![t].timeEntries[req[h].session] = @ + 1], t>>
        BY <1>6 DEF Written
    <2>2. t \in Task /\ vault[t] # None /\ req[h].session \in Session
        BY <1>1, <1>6 DEF WellReq, Refused
    <2>3. vault[t] \in Note
        BY <1>1, <2>2
    <2>4. [vault[t] EXCEPT !.timeEntries[req[h].session] = @ + 1] \in Note
        BY <2>2, <2>3 DEF Note
    <2>5. /\ w[1] = [vault EXCEPT ![t] = [vault[t] EXCEPT !.timeEntries[req[h].session] = @ + 1]]
          /\ w[2] = t
        BY <2>1
    <2> HIDE DEF t
    <2> QED BY <1>1, <1>6, <2>2, <2>4, <2>5 DEF t
<1> QED BY <1>2, <1>3, <1>4, <1>5, <1>6

(* After a write the request is answered or lost, and the other requests   *)
(* have stale lists.                                                       *)
LEMMA WritesForm ==
    ASSUME Shape, NEW h \in Handler, Writes(h)
    PROVE  \E w \in Written(h) :
              /\ vault' = w[1] /\ unused' = unused \ {w[2]}
              /\ made' = IF req[h].op = "convert" THEN made \cup {w[2]} ELSE made
              /\ \/ /\ pc' = [pc EXCEPT ![h] = "answered"]
                    /\ req'[h] = [req[h] EXCEPT !.task = w[2], !.list = None]
                    /\ UNCHANGED <<cache, excused>>
                 \/ /\ pc' = [pc EXCEPT ![h] = "idle"] /\ req'[h] = NoReq
                    /\ cache' = Stale(cache)
                    /\ excused' = (excused \/ req[h].op = "convert")
              /\ \A g \in Handler : g # h => req'[g] = [req[g] EXCEPT !.list = Stale(@)]
              /\ req' = [g \in Handler |-> req'[g]]
<1> PICK w \in Written(h) :
        /\ vault' = w[1] /\ unused' = unused \ {w[2]}
        /\ made' = IF req[h].op = "convert" THEN made \cup {w[2]} ELSE made
        /\ Answered(h, w[2]) \/ Lost(h)
    BY DEF Writes
<1>1. CASE Answered(h, w[2])
    BY <1>1 DEF Answered
<1>2. CASE Lost(h)
    BY <1>2 DEF Lost
<1> QED BY <1>1, <1>2

LEMMA WritesShape ==
    ASSUME Shape, NEW h \in Handler, Writes(h)
    PROVE  PcType' /\ ReqType' /\ ReqInv' /\ VaultType' /\ made' \subseteq Task
<1>1. PcType /\ ReqType /\ ReqInv /\ VaultType /\ made \subseteq Task
    BY DEF Shape, EmailType
<1>2. pc[h] = "call" /\ ~Refused(h)
    BY DEF Writes
<1>3. PICK w \in Written(h) :
              /\ vault' = w[1] /\ unused' = unused \ {w[2]}
              /\ made' = IF req[h].op = "convert" THEN made \cup {w[2]} ELSE made
              /\ \/ /\ pc' = [pc EXCEPT ![h] = "answered"]
                    /\ req'[h] = [req[h] EXCEPT !.task = w[2], !.list = None]
                 \/ /\ pc' = [pc EXCEPT ![h] = "idle"] /\ req'[h] = NoReq
              /\ \A g \in Handler : g # h => req'[g] = [req[g] EXCEPT !.list = Stale(@)]
              /\ req' = [g \in Handler |-> req'[g]]
    BY WritesForm
<1>4. /\ w[1] \in [Task -> Note \cup {None}] /\ w[2] \in Task
      /\ \A t \in Task : t # w[2] => w[1][t] = vault[t]
    BY <1>2, WrittenCases
<1>5. req[h] \in ReqRecord /\ WellReq("call", req[h])
    BY <1>1, <1>2 DEF ReqType, ReqInv
<1>6. ASSUME NEW g \in Handler
      PROVE  pc'[g] \in Place /\ req'[g] \in ReqRecord /\ WellReq(pc'[g], req'[g])
    <2>1. CASE g # h
        <3>1. pc'[g] = pc[g] /\ req'[g] = [req[g] EXCEPT !.list = Stale(@)]
            BY <1>1, <1>3, <2>1 DEF PcType
        <3>2. pc[g] \in Place /\ req[g] \in ReqRecord /\ WellReq(pc[g], req[g])
            BY <1>1 DEF PcType, ReqType, ReqInv
        <3> QED BY <3>1, <3>2, StaleReq
    <2>2. CASE g = h /\ pc' = [pc EXCEPT ![h] = "idle"] /\ req'[h] = NoReq
        <3>1. pc'[g] = "idle" /\ req'[g] = NoReq
            BY <1>1, <2>2 DEF PcType
        <3> QED BY <3>1, NoReqTyped DEF Place
    <2>3. CASE g = h /\ pc' = [pc EXCEPT ![h] = "answered"]
               /\ req'[h] = [req[h] EXCEPT !.task = w[2], !.list = None]
        <3> DEFINE r == [req[h] EXCEPT !.task = w[2], !.list = None]
        <3>1. pc'[g] = "answered" /\ req'[g] = r
            BY <1>1, <2>3 DEF PcType
        <3>2. r \in ReqRecord /\ r.op = req[h].op /\ r.task = w[2]
            BY <1>4, <1>5 DEF ReqRecord
        <3> HIDE DEF r
        <3>3. WellReq("answered", r)
            BY <1>4, <1>5, <3>2 DEF WellReq
        <3> QED BY <3>1, <3>2, <3>3 DEF Place
    <2> QED BY <1>3, <2>1, <2>2, <2>3
<1>7. PcType' /\ ReqType'
    <2>1. pc' = [g \in Handler |-> pc'[g]]
        BY <1>1, <1>3 DEF PcType
    <2> QED BY <1>3, <1>6, <2>1 DEF PcType, ReqType
<1>8. ReqInv'
    BY <1>6 DEF ReqInv, WellReq
<1>9. VaultType'
    BY <1>1, <1>3, <1>4 DEF VaultType
<1>10. made' \subseteq Task
    BY <1>1, <1>3, <1>4
<1> QED BY <1>7, <1>8, <1>9, <1>10

(* A hand edit of a note. *)
LEMMA EditShape ==
    ASSUME Shape, NEW t \in Task, Edit(t)
    PROVE  PcType' /\ ReqType' /\ ReqInv' /\ VaultType' /\ RedisType'
<1>1. PcType /\ ReqType /\ ReqInv /\ VaultType /\ RedisType
    BY DEF Shape
<1>2. /\ vault[t] # None /\ vault' = [vault EXCEPT ![t].content = @ + 1]
      /\ req' = [h \in Handler |-> [req[h] EXCEPT !.list = Stale(@)]]
      /\ cache' = Stale(cache) /\ UNCHANGED <<unused, pc, up, focus>>
    BY DEF Edit
<1>3. ASSUME NEW g \in Handler
      PROVE  req'[g] \in ReqRecord /\ WellReq(pc[g], req'[g])
    <2>1. req[g] \in ReqRecord /\ WellReq(pc[g], req[g])
        BY <1>1 DEF ReqType, ReqInv
    <2> QED BY <1>2, <2>1, StaleReq
<1>4. PcType' /\ ReqType' /\ ReqInv'
    <2>1. PcType'
        BY <1>1, <1>2 DEF PcType
    <2>2. ReqType'
        BY <1>2, <1>3 DEF ReqType
    <2>3. ASSUME NEW g \in Handler PROVE WellReq(pc[g], req[g])'
        BY <1>2, <1>3 DEF WellReq
    <2> QED BY <2>1, <2>2, <2>3 DEF ReqInv
<1>5. VaultType'
    <2>1. vault[t] \in Note
        BY <1>1, <1>2 DEF VaultType
    <2>2. [vault[t] EXCEPT !.content = @ + 1] \in Note
        BY <2>1 DEF Note
    <2>3. vault' = [vault EXCEPT ![t] = [vault[t] EXCEPT !.content = @ + 1]]
        BY <1>2
    <2> QED BY <1>1, <1>2, <2>2, <2>3 DEF VaultType
<1>6. RedisType'
    BY <1>1, <1>2, StaleFacts DEF RedisType
<1> QED BY <1>4, <1>5, <1>6

(* The steps of one request but the write, each a move of this request. *)
Moves(h) ==
    \/ ListTasks(h)
    \/ \E t \in Task : UpdateTask(h, t) \/ StartFocus(h, t) \/ Archive(h, t)
    \/ Fetch(h) \/ Store(h) \/ Create(h) \/ Convert(h) \/ Rejected(h) \/ Invalidate(h) \/ Pairs(h)
    \/ FocusSave(h) \/ FocusStop(h) \/ FocusClear(h)

(* The steps that touch neither a request nor a note. *)
Outside == CacheExpires \/ FocusExpires \/ RedisFails \/ RedisBack \/ UNCHANGED vars

LEMMA NextCases ==
    ASSUME [Next]_vars
    PROVE  \/ \E h \in Handler : Moves(h) \/ Writes(h)
           \/ \E t \in Task : Edit(t)
           \/ Outside
BY DEF Next, Moves, Outside

LEMMA MovesForm ==
    ASSUME Shape, NEW h \in Handler, Moves(h)
    PROVE  \E where \in Place, r \in ReqRecord :
              Becomes(h, where, r) /\ (where # "idle" => WellReq(where, r))
<1>0. NoReq \in ReqRecord /\ "idle" \in Place
    BY NoReqTyped DEF Place
<1>1. CASE Over(h)
    BY <1>0, <1>1 DEF Over
<1>2. req[h] \in ReqRecord /\ WellReq(pc[h], req[h])
    BY DEF Shape, ReqType, ReqInv
<1>3. CASE \/ ListTasks(h)
           \/ \E t \in Task : UpdateTask(h, t) \/ StartFocus(h, t)
    <2>1. PICK op \in {"list", "update", "start"}, t \in Task \cup {None} :
             (op # "list" => t \in Task) /\ Loads(h, op, t)
        BY <1>3 DEF ListTasks, UpdateTask, StartFocus
    <2>2. PICK where \in {"idle", "fetch", "call", "save"}, r \in ReqRecord :
             Becomes(h, where, r) /\ (where # "idle" => WellReq(where, r))
        BY <2>1, LoadsForm
    <2> QED BY <2>2 DEF Place
<1>4. CASE Fetch(h)
    BY <1>1, <1>4, FetchForm DEF Place
<1>5. CASE Store(h)
    <2>1. CASE \E where \in {"call", "save"} : Becomes(h, where, req[h]) /\ WellReq(where, req[h])
        BY <1>2, <2>1 DEF Place
    <2> QED BY <1>1, <1>5, <2>1, StoreForm
<1>6. CASE \E t \in Task : Create(h) \/ Archive(h, t) \/ Convert(h)
    <2>1. \A op \in {"create", "archive"}, t \in Task \cup {None} :
             LET r == [NoReq EXCEPT !.op = op, !.task = t]
             IN r \in ReqRecord /\ r.op = op /\ r.task = t
        BY DEF NoReq, ReqRecord, Op
    <2>2. /\ [NoReq EXCEPT !.op = "convert"] \in ReqRecord
          /\ [NoReq EXCEPT !.op = "convert"].op = "convert"
        BY DEF NoReq, ReqRecord, Op
    <2>3. PICK r \in ReqRecord : /\ Becomes(h, "call", r)
                                 /\ r.op \in {"create", "archive", "convert"}
                                 /\ r.op = "archive" => r.task \in Task
        <3>1. CASE Convert(h)
            BY <2>2, <3>1 DEF Convert
        <3>2. CASE Create(h)
            <4>1. Becomes(h, "call", [NoReq EXCEPT !.op = "create", !.task = None])
                BY <3>2 DEF Create, Begins
            <4> DEFINE r == [NoReq EXCEPT !.op = "create", !.task = None]
            <4>2. r \in ReqRecord /\ r.op = "create" /\ r.task = None
                BY <2>1
            <4> HIDE DEF r
            <4>3. Becomes(h, "call", r)
                BY <4>1 DEF r
            <4> QED BY <4>2, <4>3
        <3>3. CASE \E t \in Task : Archive(h, t)
            <4>1. PICK t \in Task :
                    Becomes(h, "call", [NoReq EXCEPT !.op = "archive", !.task = t])
                BY <3>3 DEF Archive, Begins
            <4> DEFINE r == [NoReq EXCEPT !.op = "archive", !.task = t]
            <4>2. r \in ReqRecord /\ r.op = "archive" /\ r.task = t
                BY <2>1
            <4> HIDE DEF r
            <4>3. Becomes(h, "call", r)
                BY <4>1 DEF r
            <4> QED BY <4>2, <4>3
        <3> QED BY <1>6, <3>1, <3>2, <3>3
    <2>4. WellReq("call", r)
        BY <2>3 DEF WellReq
    <2> QED BY <2>3, <2>4 DEF Place
<1>7. CASE Rejected(h)
    BY <1>1, <1>7 DEF Rejected
<1>8. CASE Invalidate(h)
    <2>1. CASE req[h].op = "convert"
        <3>1. WellReq("pair", req[h])
            BY <1>2, <1>8, <2>1 DEF WellReq, Invalidate
        <3> QED BY <1>2, <1>8, <2>1, <3>1 DEF Invalidate, Place
    <2> QED BY <1>1, <1>8, <2>1 DEF Invalidate
<1>9. CASE Pairs(h)
    BY <1>1, <1>9 DEF Pairs
<1>10. CASE FocusSave(h)
    BY <1>1, <1>10 DEF FocusSave
<1>11. CASE FocusStop(h)
    <2> DEFINE r == [NoReq EXCEPT !.op = "stop", !.session = GetSession("session"),
                                  !.task = GetSession("task")]
    <2>1. focus \in [session : Session, task : Task] \cup {None}
        BY DEF Shape, RedisType
    <2>2. /\ GetSession("session") \in Session \cup {None}
          /\ GetSession("task") \in Task \cup {None}
          /\ GetSession("session") # None => GetSession("task") \in Task
        BY <2>1 DEF GetSession
    <2>3. r \in ReqRecord /\ r.op = "stop" /\ (r.session # None => r.task \in Task)
        BY <2>2 DEF NoReq, ReqRecord, Op
    <2>4. Becomes(h, "clear", r)
        BY <1>11 DEF FocusStop
    <2> HIDE DEF r
    <2>5. WellReq("clear", r)
        BY <2>3 DEF WellReq
    <2> QED BY <2>3, <2>4, <2>5 DEF Place
<1>12. CASE FocusClear(h)
    <2>1. CASE up /\ req[h].session # None
        <3>1. WellReq("call", req[h])
            BY <1>2, <1>12, <2>1 DEF WellReq, FocusClear, ReqRecord
        <3> QED BY <1>2, <1>12, <2>1, <3>1 DEF FocusClear, Place
    <2> QED BY <1>1, <1>12, <2>1 DEF FocusClear
<1>13. \/ ListTasks(h) \/ \E t \in Task : UpdateTask(h, t) \/ StartFocus(h, t)
       \/ Fetch(h) \/ Store(h)
       \/ \E t \in Task : Create(h) \/ Archive(h, t) \/ Convert(h)
       \/ Rejected(h) \/ Invalidate(h) \/ Pairs(h)
       \/ FocusSave(h) \/ FocusStop(h) \/ FocusClear(h)
    BY ProjectBoxAssumption DEF Moves
<1> QED BY <1>3, <1>4, <1>5, <1>6, <1>7, <1>8, <1>9, <1>10, <1>11, <1>12, <1>13

(* The notes are left alone by all these, and by what happens outside. *)
LEMMA MovesQuiet ==
    ASSUME NEW h \in Handler, Moves(h)
    PROVE  UNCHANGED <<vault, unused, made>>
BY DEF Moves, ListTasks, UpdateTask, StartFocus, Loads, Fetch, Store, Create, Archive, Begins,
       Convert, Rejected, Invalidate, Pairs, FocusSave, FocusStop, FocusClear, service, history

LEMMA OutsideQuiet ==
    ASSUME Outside
    PROVE  UNCHANGED <<service, pc, req, email, history, requests, sessions, edits>>
BY DEF Outside, CacheExpires, FocusExpires, RedisFails, RedisBack, vars, counters

(* The requests and the notes after any step. *)
LEMMA ReqShape ==
    ASSUME Shape, [Next]_vars
    PROVE  PcType' /\ ReqType' /\ ReqInv' /\ VaultType' /\ made' \subseteq Task
<1>1. PcType /\ ReqType /\ ReqInv /\ VaultType /\ made \subseteq Task
    BY DEF Shape, EmailType
<1>2. CASE \E h \in Handler : Moves(h)
    <2> PICK h \in Handler : Moves(h)
        BY <1>2
    <2>1. PcType' /\ ReqType' /\ ReqInv'
        BY <1>1, MovesForm, BecomesShape
    <2> QED BY <1>1, <2>1, MovesQuiet DEF VaultType
<1>3. CASE \E h \in Handler : Writes(h)
    BY <1>3, WritesShape
<1>4. CASE \E t \in Task : Edit(t)
    BY <1>1, <1>4, EditShape DEF Edit, history
<1>5. CASE Outside
    <2>1. UNCHANGED <<service, pc, req, history>>
        BY <1>5, OutsideQuiet
    <2> QED BY <1>1, <2>1
           DEF PcType, ReqType, ReqInv, WellReq, VaultType, service, history
<1> QED BY <1>2, <1>3, <1>4, <1>5, NextCases

(* Redis, the email and the counters after any step. *)
LEMMA RedisShape ==
    ASSUME Shape, [Next]_vars
    PROVE  RedisType'
<1>1. RedisType /\ CountType
    BY DEF Shape
<1>2. CASE UNCHANGED redis
    BY <1>1, <1>2 DEF RedisType, redis
<1>3. CASE \E h \in Handler : Moves(h)
    <2> PICK h \in Handler : Moves(h)
        BY <1>3
    <2>1. CASE Store(h)
        <3>1. req[h].list \in TaskList
            BY <2>1, StoreForm
        <3> QED BY <1>1, <2>1, <3>1 DEF Store, RedisType
    <2>2. CASE Invalidate(h)
        BY <1>1, <2>2, StaleFacts DEF Invalidate, RedisType
    <2>3. CASE FocusSave(h)
        <3>1. req[h].task \in Task
            BY <2>3 DEF Shape, ReqInv, WellReq, FocusSave
        <3>2. focus' \in {focus, [session |-> sessions + 1, task |-> req[h].task]}
              /\ (focus' # focus => sessions < MaxSessions) /\ UNCHANGED <<up, cache>>
            BY <2>3 DEF FocusSave, SaveSession
        <3>3. sessions < MaxSessions => sessions + 1 \in Session
            BY <1>1, ProjectBoxAssumption DEF Session, CountType
        <3> QED BY <1>1, <3>1, <3>2, <3>3 DEF RedisType
    <2>4. CASE FocusClear(h)
        BY <1>1, <2>4 DEF FocusClear, ClearSession, RedisType
    <2>5. CASE ~(Store(h) \/ Invalidate(h) \/ FocusSave(h) \/ FocusClear(h))
        <3>1. UNCHANGED redis
            BY <2>5 DEF Moves, ListTasks, UpdateTask, StartFocus, Loads, Fetch, Create, Archive,
                        Begins, Convert, Rejected, Pairs, FocusStop
        <3> QED BY <1>2, <3>1
    <2> QED BY <2>1, <2>2, <2>3, <2>4, <2>5
<1>4. CASE \E h \in Handler : Writes(h)
    <2>1. UNCHANGED <<up, focus>> /\ (cache' = cache \/ cache' = Stale(cache))
        BY <1>4 DEF Writes, Answered, Lost
    <2> QED BY <1>1, <2>1, StaleFacts DEF RedisType
<1>5. CASE \E t \in Task : Edit(t)
    BY <1>5, EditShape
<1>6. CASE Outside
    <2>1. up' \in BOOLEAN
        BY <1>1, <1>6
           DEF Outside, CacheExpires, FocusExpires, RedisFails, RedisBack, vars, RedisType, redis
    <2>2. cache' \in {cache, None} /\ focus' \in {focus, None}
        BY <1>6
           DEF Outside, CacheExpires, FocusExpires, RedisFails, RedisBack, vars, redis
    <2> QED BY <1>1, <2>1, <2>2 DEF RedisType
<1> QED BY <1>3, <1>4, <1>5, <1>6, NextCases

LEMMA EmailShape ==
    ASSUME Shape, [Next]_vars
    PROVE  EmailType'
<1>1. EmailType /\ ReqInv
    BY DEF Shape
<1>2. made' \subseteq Task
    BY ReqShape
<1>3. CASE UNCHANGED <<email, excused, overlap>>
    BY <1>1, <1>2, <1>3 DEF EmailType
<1>4. CASE \E h \in Handler : Moves(h)
    <2> PICK h \in Handler : Moves(h)
        BY <1>4
    <2>1. CASE Convert(h)
        <3>1. (excused \/ Busy("convert") # {}) \in BOOLEAN
            OBVIOUS
        <3>2. excused' = (excused \/ Busy("convert") # {}) /\ UNCHANGED <<email, overlap>>
            BY <2>1 DEF Convert
        <3> QED BY <1>1, <1>2, <3>1, <3>2 DEF EmailType
    <2>2. CASE Pairs(h)
        <3>1. req[h].task \in Task
            BY <1>1, <2>2 DEF ReqInv, WellReq, Pairs
        <3>2. (excused \/ ~up) \in BOOLEAN
            OBVIOUS
        <3>3. /\ email' = IF up THEN [converted |-> TRUE, task |-> req[h].task] ELSE email
              /\ excused' = (excused \/ ~up) /\ UNCHANGED overlap
            BY <2>2 DEF Pairs
        <3> QED BY <1>1, <1>2, <3>1, <3>2, <3>3 DEF EmailType
    <2>3. CASE FocusStop(h)
        <3>1. (overlap \/ \E g \in Handler : pc[g] = "clear") \in BOOLEAN
            OBVIOUS
        <3>2. /\ overlap' = (overlap \/ \E g \in Handler : pc[g] = "clear")
              /\ UNCHANGED <<email, excused>>
            BY <2>3 DEF FocusStop
        <3> QED BY <1>1, <1>2, <3>1, <3>2 DEF EmailType
    <2>4. CASE ~(Convert(h) \/ Pairs(h) \/ FocusStop(h))
        <3>1. UNCHANGED <<email, excused, overlap>>
            BY <2>4 DEF Moves, ListTasks, UpdateTask, StartFocus, Loads, Fetch, Store, Create,
                        Archive, Begins, Rejected, Invalidate, FocusSave, FocusClear, history
        <3> QED BY <1>3, <3>1
    <2> QED BY <2>1, <2>2, <2>3, <2>4
<1>5. CASE \E h \in Handler : Writes(h)
    <2> PICK h \in Handler : Writes(h)
        BY <1>5
    <2>1. (excused \/ req[h].op = "convert") \in BOOLEAN
        OBVIOUS
    <2>2. (excused' = (excused \/ req[h].op = "convert") \/ excused' = excused)
          /\ UNCHANGED <<email, overlap>>
        BY DEF Writes, Answered, Lost
    <2> QED BY <1>1, <1>2, <2>1, <2>2 DEF EmailType
<1>6. CASE \E t \in Task : Edit(t)
    BY <1>3, <1>6 DEF Edit, history
<1>7. CASE Outside
    BY <1>3, <1>7, OutsideQuiet DEF history
<1> QED BY <1>4, <1>5, <1>6, <1>7, NextCases

LEMMA CountShape ==
    ASSUME Shape, [Next]_vars
    PROVE  CountType'
<1>1. CountType
    BY DEF Shape
<1>2. CASE /\ requests' \in {requests, requests + 1} /\ sessions' \in {sessions, sessions + 1}
           /\ edits' \in {edits, edits + 1} /\ faults' \in {faults, faults + 1}
    BY <1>1, <1>2 DEF CountType
<1>3. CASE \E h \in Handler : Moves(h)
    BY <1>2, <1>3
       DEF Moves, ListTasks, UpdateTask, StartFocus, Loads, Fetch, Store, Create, Archive, Begins,
           Convert, Rejected, Invalidate, Pairs, FocusSave, FocusStop, FocusClear, counters,
           Requested, Fails
<1>4. CASE \E h \in Handler : Writes(h)
    BY <1>2, <1>4 DEF Writes, Answered, Lost, Fails
<1>5. CASE \E t \in Task : Edit(t)
    BY <1>2, <1>5 DEF Edit
<1>6. CASE Outside
    BY <1>2, <1>6
       DEF Outside, CacheExpires, FocusExpires, RedisFails, RedisBack, Fails, vars, counters
<1> QED BY <1>3, <1>4, <1>5, <1>6, NextCases

(* The types and the places of the requests are inductive. *)
LEMMA ShapeInit == Init => Shape
<1> SUFFICES ASSUME Init PROVE Shape
    OBVIOUS
<1>1. PcType /\ ReqType /\ ReqInv
    BY NoReqTyped DEF Init, PcType, Place, ReqType, ReqInv
<1>2. VaultType
    BY NewTyped DEF Init, VaultType
<1>3. RedisType /\ CountType
    BY DEF Init, RedisType, CountType
<1>4. EmailType
    BY DEF Init, EmailType
<1> QED BY <1>1, <1>2, <1>3, <1>4 DEF Shape

LEMMA ShapeStep == Shape /\ [Next]_vars => Shape'
BY ReqShape, RedisShape, EmailShape, CountShape DEF Shape

-----------------------------------------------------------------------------
(* The conversion of the email.                                            *)

(* A conversion that has had its answer made the task it is about. *)
MadeInv ==
    \A h \in Handler :
        req[h].op = "convert" /\ pc[h] \in {"answered", "pair"} => req[h].task \in made

(* Until something excuses a second task, one conversion runs at a time,   *)
(* it made its task if it was answered, and one that is over has paired    *)
(* the email if it made one.                                               *)
OneInv ==
    ~excused =>
        /\ \A g, h \in Handler : req[g].op = "convert" /\ req[h].op = "convert" => g = h
        /\ \A h \in Handler : req[h].op = "convert" =>
               made = IF pc[h] = "call" THEN {} ELSE {req[h].task}
        /\ (\A h \in Handler : req[h].op # "convert") =>
               made = {} \/ (email.converted /\ email.task # None /\ made = {email.task})

ConvertInv == MadeInv /\ NeverDropped /\ OneInv

(* A step that is none of the conversion's leaves it where it is, or ends  *)
(* it before its call.                                                     *)
LEMMA QuietKeepsConvert ==
    ASSUME ConvertInv, UNCHANGED <<email, excused, made>>,
           \A h \in Handler :
               /\ req'[h].op = "convert" =>
                      req[h].op = "convert" /\ pc'[h] = pc[h] /\ req'[h].task = req[h].task
               /\ req[h].op = "convert" /\ req'[h].op # "convert" => pc[h] = "call"
    PROVE  ConvertInv'
<1>1. MadeInv'
    BY DEF ConvertInv, MadeInv
<1>2. NeverDropped'
    BY DEF ConvertInv, NeverDropped
<1>3. OneInv'
    <2> SUFFICES ASSUME ~excused'
                 PROVE  /\ \A g, h \in Handler :
                             req'[g].op = "convert" /\ req'[h].op = "convert" => g = h
                        /\ \A h \in Handler : req'[h].op = "convert" =>
                             made' = IF pc'[h] = "call" THEN {} ELSE {req'[h].task}
                        /\ (\A h \in Handler : req'[h].op # "convert") =>
                             \/ made' = {}
                             \/ email'.converted /\ email'.task # None /\ made' = {email'.task}
        BY DEF OneInv
    <2>1. ~excused
        OBVIOUS
    <2>2. ASSUME \A h \in Handler : req'[h].op # "convert"
          PROVE  made = {} \/ (email.converted /\ email.task # None /\ made = {email.task})
        <3>1. CASE \A h \in Handler : req[h].op # "convert"
            BY <2>1, <3>1 DEF ConvertInv, OneInv
        <3>2. CASE \E h \in Handler : req[h].op = "convert"
            BY <2>1, <2>2, <3>2 DEF ConvertInv, OneInv
        <3> QED BY <3>1, <3>2
    <2>3. \A h \in Handler : req'[h].op = "convert" =>
             made' = IF pc'[h] = "call" THEN {} ELSE {req'[h].task}
        BY <2>1 DEF ConvertInv, OneInv
    <2>4. \A g, h \in Handler : req'[g].op = "convert" /\ req'[h].op = "convert" => g = h
        BY <2>1 DEF ConvertInv, OneInv
    <2> QED BY <2>2, <2>3, <2>4
<1> QED BY <1>1, <1>2, <1>3 DEF ConvertInv

(* The moves of the other requests are such steps, and so is a refusal.    *)
LEMMA MovesKeepConvert ==
    ASSUME Shape, ConvertInv, NEW h \in Handler, Moves(h),
           ~Convert(h), ~Pairs(h), ~(Invalidate(h) /\ req[h].op = "convert")
    PROVE  ConvertInv'
<1>1. PcType /\ ReqType /\ ReqInv
    BY DEF Shape
<1>2. UNCHANGED <<email, excused, made>>
    BY DEF Moves, ListTasks, UpdateTask, StartFocus, Loads, Fetch, Store, Create, Archive,
           Begins, Rejected, Invalidate, FocusSave, FocusStop, FocusClear, history
<1>3. NoReq.op = "none"
    BY DEF NoReq
<1>4. WellReq(pc[h], req[h])
    BY <1>1 DEF ReqInv
<1>5. PICK where, r : /\ Becomes(h, where, r)
                      /\ where # "idle" => r.op # "convert"
                      /\ req[h].op = "convert" => pc[h] = "call"
    <2>1. CASE Over(h) /\ (req[h].op = "convert" => pc[h] = "call")
        BY <2>1 DEF Over
    <2>2. CASE ListTasks(h) \/ \E t \in Task : UpdateTask(h, t) \/ StartFocus(h, t)
        <3>1. PICK op \in {"list", "update", "start"}, t \in Task \cup {None} :
                 (op # "list" => t \in Task) /\ Loads(h, op, t)
            BY <2>2 DEF ListTasks, UpdateTask, StartFocus
        <3>2. PICK where \in {"idle", "fetch", "call", "save"}, r \in ReqRecord :
                 Becomes(h, where, r) /\ r.op = op
            BY <3>1, LoadsForm
        <3>3. req[h].op # "convert"
            BY <1>4, <3>1 DEF Loads, WellReq
        <3> QED BY <3>2, <3>3
    <2>3. CASE Fetch(h)
        <3>1. req[h].op # "convert"
            BY <1>4, <2>3 DEF Fetch, WellReq
        <3> QED BY <2>1, <2>3, <3>1, FetchForm
    <2>4. CASE Store(h)
        <3>1. req[h].op # "convert"
            BY <2>4, StoreForm
        <3> QED BY <2>1, <2>4, <3>1, StoreForm
    <2>5. CASE \E t \in Task : Create(h) \/ Archive(h, t)
        <3>1. PICK op, t : op \in {"create", "archive"} /\ Begins(h, op, t)
            BY <2>5 DEF Create, Archive
        <3>2. [NoReq EXCEPT !.op = op, !.task = t].op = op
            BY DEF NoReq
        <3>3. Becomes(h, "call", [NoReq EXCEPT !.op = op, !.task = t]) /\ pc[h] = "idle"
            BY <3>1 DEF Begins
        <3>4. req[h].op # "convert"
            BY <1>4, <3>3 DEF WellReq
        <3> DEFINE r == [NoReq EXCEPT !.op = op, !.task = t]
        <3>5. Becomes(h, "call", r) /\ r.op # "convert"
            BY <3>1, <3>2, <3>3
        <3> HIDE DEF r
        <3> QED BY <3>4, <3>5
    <2>6. CASE Rejected(h)
        BY <2>1, <2>6 DEF Rejected
    <2>7. CASE Invalidate(h)
        BY <2>1, <2>7 DEF Invalidate
    <2>8. CASE FocusSave(h)
        <3>1. req[h].op # "convert" /\ Over(h)
            BY <1>4, <2>8 DEF FocusSave, WellReq
        <3> QED BY <2>1, <3>1
    <2>9. CASE FocusStop(h)
        <3> DEFINE r == [NoReq EXCEPT !.op = "stop", !.session = GetSession("session"),
                                      !.task = GetSession("task")]
        <3>1. Becomes(h, "clear", r) /\ pc[h] = "idle" /\ r.op # "convert"
            BY <2>9 DEF FocusStop, NoReq
        <3>2. req[h].op # "convert"
            BY <1>4, <3>1 DEF WellReq
        <3> HIDE DEF r
        <3> QED BY <3>1, <3>2
    <2>10. CASE FocusClear(h)
        <3>1. req[h].op # "convert"
            BY <1>4, <2>10 DEF FocusClear, WellReq
        <3> QED BY <2>1, <2>10, <3>1 DEF FocusClear
    <2> QED BY <2>2, <2>3, <2>4, <2>5, <2>6, <2>7, <2>8, <2>9, <2>10, ProjectBoxAssumption
           DEF Moves
<1>6. /\ req'[h].op # "convert"
      /\ \A g \in Handler : g # h => pc'[g] = pc[g] /\ req'[g] = req[g]
    BY <1>1, <1>3, <1>5, BecomesFacts
<1> QED BY <1>2, <1>5, <1>6, QuietKeepsConvert

(* A conversion begins: nothing was made, unless it has an excuse.         *)
LEMMA ConvertKeepsConvert ==
    ASSUME Shape, ConvertInv, NEW h \in Handler, Convert(h)
    PROVE  ConvertInv'
<1> DEFINE r == [NoReq EXCEPT !.op = "convert"]
<1>1. PcType /\ ReqType /\ ReqInv /\ EmailType
    BY DEF Shape
<1>2. /\ pc[h] = "idle" /\ ~(email.converted /\ email.task # None) /\ Becomes(h, "call", r)
      /\ excused' = (excused \/ Busy("convert") # {}) /\ UNCHANGED <<email, made>>
    BY DEF Convert
<1>3. r.op = "convert" /\ req[h].op = "none"
    BY <1>1, <1>2 DEF NoReq, ReqInv, WellReq
<1> HIDE DEF r
<1>4. /\ pc'[h] = "call" /\ req'[h].op = "convert"
      /\ \A g \in Handler : g # h => pc'[g] = pc[g] /\ req'[g] = req[g]
    BY <1>1, <1>2, <1>3, BecomesFacts
<1>5. MadeInv'
    BY <1>2, <1>4 DEF ConvertInv, MadeInv
<1>6. NeverDropped'
    BY <1>2 DEF ConvertInv, NeverDropped
<1>7. ASSUME ~excused'
      PROVE  (\A g \in Handler : req[g].op # "convert") /\ made = {}
    <2>1. ~excused /\ Busy("convert") = {}
        BY <1>2, <1>7
    <2>2. \A g \in Handler : req[g].op # "convert"
        BY <2>1 DEF Busy
    <2> QED BY <1>2, <2>1, <2>2 DEF ConvertInv, OneInv
<1>8. OneInv'
    BY <1>2, <1>4, <1>7 DEF OneInv
<1> QED BY <1>5, <1>6, <1>8 DEF ConvertInv

(* It is answered, and goes on to its pairing. *)
LEMMA InvalidateKeepsConvert ==
    ASSUME Shape, ConvertInv, NEW h \in Handler, Invalidate(h), req[h].op = "convert"
    PROVE  ConvertInv'
<1>1. PcType /\ ReqType
    BY DEF Shape
<1>2. /\ pc[h] = "answered" /\ Becomes(h, "pair", req[h])
      /\ UNCHANGED <<email, made, excused>>
    BY DEF Invalidate, history
<1>3. /\ pc'[h] = "pair" /\ req'[h] = req[h]
      /\ \A g \in Handler : g # h => pc'[g] = pc[g] /\ req'[g] = req[g]
    BY <1>1, <1>2, BecomesFacts
<1>4. MadeInv'
    BY <1>2, <1>3 DEF ConvertInv, MadeInv
<1>5. NeverDropped'
    BY <1>2 DEF ConvertInv, NeverDropped
<1>6. \A g \in Handler : req'[g] = req[g] /\ (pc'[g] = "call" <=> pc[g] = "call")
    BY <1>2, <1>3
<1>7. OneInv'
    BY <1>2, <1>6 DEF ConvertInv, OneInv
<1> QED BY <1>4, <1>5, <1>7 DEF ConvertInv

(* The pairing names the task that was made. *)
LEMMA PairsKeepsConvert ==
    ASSUME Shape, ConvertInv, NEW h \in Handler, Pairs(h)
    PROVE  ConvertInv'
<1>1. PcType /\ ReqType /\ ReqInv
    BY DEF Shape
<1>2. /\ pc[h] = "pair" /\ Over(h) /\ UNCHANGED made
      /\ email' = IF up THEN [converted |-> TRUE, task |-> req[h].task] ELSE email
      /\ excused' = (excused \/ ~up)
    BY DEF Pairs
<1>3. req[h].op = "convert" /\ req[h].task \in Task
    BY <1>1, <1>2 DEF ReqInv, WellReq
<1>4. req[h].task \in made
    BY <1>2, <1>3 DEF ConvertInv, MadeInv
<1>5. NoReq.op = "none"
    BY DEF NoReq
<1>6. /\ req'[h].op = "none"
      /\ \A g \in Handler : g # h => pc'[g] = pc[g] /\ req'[g] = req[g]
    BY <1>1, <1>2, <1>5, BecomesFacts DEF Over
<1>7. MadeInv'
    BY <1>2, <1>6 DEF ConvertInv, MadeInv
<1>8. NeverDropped'
    BY <1>2, <1>4 DEF ConvertInv, NeverDropped
<1>9. OneInv'
    <2> SUFFICES ASSUME ~excused'
                 PROVE  /\ \A g \in Handler : req'[g].op # "convert"
                        /\ email'.converted /\ email'.task # None /\ made' = {email'.task}
        BY DEF OneInv
    <2>1. ~excused /\ up
        BY <1>2
    <2>2. /\ \A g \in Handler : req[g].op = "convert" => g = h
          /\ made = {req[h].task}
        BY <1>2, <1>3, <2>1 DEF ConvertInv, OneInv
    <2>3. email'.converted /\ email'.task = req[h].task
        BY <1>2, <2>1
    <2>4. req[h].task # None
        BY <1>3, NoneApart
    <2> QED BY <1>2, <1>6, <2>2, <2>3, <2>4
<1> QED BY <1>7, <1>8, <1>9 DEF ConvertInv

(* The call of a conversion makes its task; that of another makes none.    *)
LEMMA WritesKeepsConvert ==
    ASSUME Shape, ConvertInv, NEW h \in Handler, Writes(h)
    PROVE  ConvertInv'
<1>1. PcType /\ ReqType /\ ReqInv
    BY DEF Shape
<1>2. pc[h] = "call" /\ UNCHANGED email
    BY DEF Writes
<1>3. PICK w \in Written(h) :
          /\ made' = IF req[h].op = "convert" THEN made \cup {w[2]} ELSE made
          /\ \/ /\ pc' = [pc EXCEPT ![h] = "answered"]
                /\ req'[h] = [req[h] EXCEPT !.task = w[2], !.list = None]
                /\ UNCHANGED excused
             \/ /\ pc' = [pc EXCEPT ![h] = "idle"] /\ req'[h] = NoReq
                /\ excused' = (excused \/ req[h].op = "convert")
          /\ \A g \in Handler : g # h => req'[g] = [req[g] EXCEPT !.list = Stale(@)]
    BY WritesForm
<1>4. \A g \in Handler : g # h =>
         pc'[g] = pc[g] /\ req'[g].op = req[g].op /\ req'[g].task = req[g].task
    BY <1>1, <1>3 DEF PcType, ReqType, ReqRecord
<1>8. /\ [req[h] EXCEPT !.task = w[2], !.list = None].op = req[h].op
      /\ [req[h] EXCEPT !.task = w[2], !.list = None].task = w[2]
      /\ NoReq.op = "none"
    BY <1>1 DEF NoReq, ReqType, ReqRecord
<1>5. CASE req[h].op # "convert"
    <2>1. req'[h].op # "convert"
        BY <1>3, <1>5, <1>8
    <2>2. UNCHANGED <<made, excused>>
        <3>1. made' = made
            BY <1>3, <1>5
        <3>2. excused' = excused \/ excused' = (excused \/ req[h].op = "convert")
            BY <1>3
        <3>3. excused \in BOOLEAN
            BY DEF Shape, EmailType
        <3>4. excused' = excused
            BY <1>5, <3>2, <3>3
        <3> QED BY <3>1, <3>4
    <2> QED BY <1>2, <1>4, <1>5, <2>1, <2>2, QuietKeepsConvert
<1>6. CASE req[h].op = "convert" /\ req'[h] = NoReq
    <2>1. req'[h].op = "none" /\ made' = made \cup {w[2]} /\ excused'
        <3>1. NoReq.op = "none"
            BY DEF NoReq
        <3>2. [req[h] EXCEPT !.task = w[2], !.list = None].op = "convert"
            BY <1>1, <1>6 DEF ReqType, ReqRecord
        <3> QED BY <1>3, <1>6, <3>1, <3>2
    <2>2. MadeInv'
        BY <1>4, <2>1 DEF ConvertInv, MadeInv
    <2>3. NeverDropped'
        BY <1>2, <2>1 DEF ConvertInv, NeverDropped
    <2>4. OneInv'
        BY <2>1 DEF OneInv
    <2> QED BY <2>2, <2>3, <2>4 DEF ConvertInv
<1>7. CASE req[h].op = "convert" /\ req'[h] # NoReq
    <2>1. /\ pc'[h] = "answered" /\ req'[h].op = "convert" /\ req'[h].task = w[2]
          /\ made' = made \cup {w[2]} /\ UNCHANGED excused
        <3>1. /\ pc' = [pc EXCEPT ![h] = "answered"]
              /\ req'[h] = [req[h] EXCEPT !.task = w[2], !.list = None]
              /\ UNCHANGED excused
            BY <1>3, <1>7
        <3>2. pc'[h] = "answered"
            BY <1>1, <3>1 DEF PcType
        <3> QED BY <1>3, <1>7, <1>8, <3>1, <3>2
    <2>2. MadeInv'
        <3> SUFFICES ASSUME NEW g \in Handler, req'[g].op = "convert",
                            pc'[g] \in {"answered", "pair"}
                     PROVE  req'[g].task \in made'
            BY DEF MadeInv
        <3>1. CASE g = h
            BY <2>1, <3>1
        <3>2. CASE g # h
            BY <1>4, <2>1, <3>2 DEF ConvertInv, MadeInv
        <3> QED BY <3>1, <3>2
    <2>3. NeverDropped'
        BY <1>2, <2>1 DEF ConvertInv, NeverDropped
    <2>4. OneInv'
        <3> SUFFICES ASSUME ~excused'
                     PROVE  /\ \A f, g \in Handler :
                                req'[f].op = "convert" /\ req'[g].op = "convert" => f = g
                            /\ \A g \in Handler : req'[g].op = "convert" =>
                                 made' = IF pc'[g] = "call" THEN {} ELSE {req'[g].task}
                            /\ ~\A g \in Handler : req'[g].op # "convert"
            BY DEF OneInv
        <3>1. /\ \A g \in Handler : req[g].op = "convert" => g = h
              /\ made = {}
            BY <1>2, <1>7, <2>1 DEF ConvertInv, OneInv
        <3>2. \A g \in Handler : req'[g].op = "convert" => g = h
            BY <1>4, <3>1
        <3>3. made' = {w[2]}
            BY <2>1, <3>1
        <3> QED BY <2>1, <3>2, <3>3
    <2> QED BY <2>2, <2>3, <2>4 DEF ConvertInv
<1> QED BY <1>5, <1>6, <1>7

(* ConvertInv is inductive, and gives both properties. *)
LEMMA ConvertStep == Shape /\ ConvertInv /\ [Next]_vars => ConvertInv'
<1> SUFFICES ASSUME Shape, ConvertInv, [Next]_vars PROVE ConvertInv'
    OBVIOUS
<1>1. ReqType
    BY DEF Shape
<1>2. CASE \E h \in Handler : Moves(h)
    BY <1>2, MovesKeepConvert, ConvertKeepsConvert, InvalidateKeepsConvert, PairsKeepsConvert
<1>3. CASE \E h \in Handler : Writes(h)
    BY <1>3, WritesKeepsConvert
<1>4. CASE \E t \in Task : Edit(t)
    <2>1. /\ req' = [h \in Handler |-> [req[h] EXCEPT !.list = Stale(@)]]
          /\ UNCHANGED <<pc, email, made, excused>>
        BY <1>4 DEF Edit, history
    <2>2. \A h \in Handler : req'[h].op = req[h].op /\ req'[h].task = req[h].task
        BY <1>1, <2>1 DEF ReqType, ReqRecord
    <2> QED BY <2>1, <2>2, QuietKeepsConvert
<1>5. CASE Outside
    BY <1>5, OutsideQuiet, QuietKeepsConvert DEF history
<1> QED BY <1>2, <1>3, <1>4, <1>5, NextCases

LEMMA ConvertInit == Init => ConvertInv
<1> SUFFICES ASSUME Init PROVE ConvertInv
    OBVIOUS
<1>1. \A h \in Handler : req[h].op = "none"
    BY DEF Init, NoReq
<1>2. ~email.converted /\ made = {}
    BY DEF Init
<1> QED BY <1>1, <1>2 DEF ConvertInv, MadeInv, NeverDropped, OneInv

LEMMA OneTaskMade ==
    ASSUME Shape, ConvertInv
    PROVE  OneTask
<1> SUFFICES ASSUME ~excused PROVE Cardinality(made) <= 1
    BY DEF OneTask
<1>1. made = {} \/ \E t : made = {t}
    <2>1. CASE \A h \in Handler : req[h].op # "convert"
        BY <2>1 DEF ConvertInv, OneInv
    <2>2. CASE \E h \in Handler : req[h].op = "convert"
        BY <2>2 DEF ConvertInv, OneInv
    <2> QED BY <2>1, <2>2
<1>2. CASE made = {}
    <2>1. Cardinality({}) = 0
        BY FS_EmptySet
    <2> QED BY <1>2, <2>1
<1>3. CASE \E t : made = {t}
    <2> PICK t : made = {t}
        BY <1>3
    <2>1. Cardinality({t}) = 1
        BY FS_Singleton
    <2> QED BY <2>1
<1> QED BY <1>1, <1>2, <1>3

-----------------------------------------------------------------------------
(* The cached list.                                                        *)

(* A list that has no reason to be stale is what Project-Box holds. *)
ListInv ==
    \A h \in Handler :
        req[h].list # None /\ ~req[h].list.stale => req[h].list.tasks = vault

FreshInv == ListInv /\ FreshUnlessRaced

(* Where the list of a request, and the cached one, come from in a move.   *)
LEMMA MovesLists ==
    ASSUME Shape, NEW h \in Handler, Moves(h)
    PROVE  /\ \/ req'[h].list = None
              \/ req'[h].list = req[h].list
              \/ /\ cache # None /\ req'[h].list.tasks = cache.tasks
                 /\ req'[h].list.stale = (cache.stale \/ Unpublished # {})
              \/ req'[h].list.tasks = vault
           /\ \A g \in Handler : g # h => req'[g] = req[g] /\ pc'[g] = pc[g]
           /\ \/ cache' = cache
              \/ Invalidate(h) /\ cache' \in {None, Stale(cache)}
              \/ Store(h) /\ cache' = req[h].list
           /\ pc[h] = "answered" => Invalidate(h)
<1>1. PcType /\ ReqType /\ ReqInv
    BY DEF Shape
<1>2. NoReq.list = None
    BY DEF NoReq
<1>3. PICK where, r : /\ Becomes(h, where, r)
                      /\ \/ where = "idle" \/ r.list = None \/ r.list = req[h].list
                         \/ /\ cache # None /\ r.list.tasks = cache.tasks
                            /\ r.list.stale = (cache.stale \/ Unpublished # {})
                         \/ r.list.tasks = vault
    <2>1. CASE Over(h)
        BY <2>1 DEF Over
    <2>2. CASE ListTasks(h) \/ \E t \in Task : UpdateTask(h, t) \/ StartFocus(h, t)
        <3>1. PICK op \in {"list", "update", "start"}, t \in Task \cup {None} :
                 (op # "list" => t \in Task) /\ Loads(h, op, t)
            BY <2>2 DEF ListTasks, UpdateTask, StartFocus
        <3>2. PICK where \in {"idle", "fetch", "call", "save"}, r \in ReqRecord :
                 /\ Becomes(h, where, r)
                 /\ r.list # None => /\ cache # None /\ r.list.tasks = cache.tasks
                                     /\ r.list.stale = (cache.stale \/ Unpublished # {})
            BY <3>1, LoadsForm
        <3> QED BY <3>2
    <2>3. CASE Fetch(h)
        BY <2>1, <2>3, FetchForm
    <2>4. CASE Store(h)
        BY <2>1, <2>4, StoreForm
    <2>5. CASE \E t \in Task : Create(h) \/ Archive(h, t)
        <3>1. PICK op, t : op \in {"create", "archive"} /\ Begins(h, op, t)
            BY <2>5 DEF Create, Archive
        <3> DEFINE r == [NoReq EXCEPT !.op = op, !.task = t]
        <3>2. Becomes(h, "call", r) /\ r.list = None
            BY <3>1 DEF Begins, NoReq
        <3> HIDE DEF r
        <3> QED BY <3>2
    <2>6. CASE Convert(h)
        <3> DEFINE r == [NoReq EXCEPT !.op = "convert"]
        <3>1. Becomes(h, "call", r) /\ r.list = None
            BY <2>6 DEF Convert, NoReq
        <3> HIDE DEF r
        <3> QED BY <3>1
    <2>7. CASE FocusStop(h)
        <3> DEFINE r == [NoReq EXCEPT !.op = "stop", !.session = GetSession("session"),
                                      !.task = GetSession("task")]
        <3>1. Becomes(h, "clear", r) /\ r.list = None
            BY <2>7 DEF FocusStop, NoReq
        <3> HIDE DEF r
        <3> QED BY <3>1
    <2>8. CASE Rejected(h) \/ Invalidate(h) \/ Pairs(h) \/ FocusSave(h) \/ FocusClear(h)
        BY <2>1, <2>8 DEF Rejected, Invalidate, Pairs, FocusSave, FocusClear
    <2> QED BY <2>2, <2>3, <2>4, <2>5, <2>6, <2>7, <2>8, ProjectBoxAssumption DEF Moves
<1>4. /\ req'[h] = IF where = "idle" THEN NoReq ELSE r
      /\ \A g \in Handler : g # h => req'[g] = req[g] /\ pc'[g] = pc[g]
    BY <1>1, <1>3, BecomesFacts
<1>5. \/ cache' = cache
      \/ Invalidate(h) /\ cache' \in {None, Stale(cache)}
      \/ Store(h) /\ cache' = req[h].list
    BY DEF Moves, ListTasks, UpdateTask, StartFocus, Loads, Fetch, Store, Create, Archive,
           Begins, Convert, Rejected, Invalidate, Pairs, FocusSave, FocusStop, FocusClear, redis
<1>6. pc[h] = "answered" => Invalidate(h)
    BY DEF Moves, ListTasks, UpdateTask, StartFocus, Loads, Fetch, Store, Create, Archive,
           Begins, Convert, Rejected, Pairs, FocusSave, FocusStop, FocusClear
<1> QED BY <1>2, <1>3, <1>4, <1>5, <1>6

(* A move reads and stores fresh lists as fresh ones only, and the last    *)
(* request to drop the cached list drops it.                               *)
LEMMA MovesKeepFresh ==
    ASSUME Shape, FreshInv, NEW h \in Handler, Moves(h)
    PROVE  FreshInv'
<1>1. PcType /\ ReqType /\ RedisType
    BY DEF Shape
<1>2. UNCHANGED vault
    BY MovesQuiet
<1>3. ListInv'
    <2>1. ASSUME req'[h].list # None, ~req'[h].list.stale
          PROVE  req'[h].list.tasks = vault
        <3>1. CASE req'[h].list = req[h].list
            BY <2>1, <3>1 DEF FreshInv, ListInv
        <3>2. CASE /\ cache # None /\ req'[h].list.tasks = cache.tasks
                   /\ req'[h].list.stale = (cache.stale \/ Unpublished # {})
            <4>1. ~cache.stale /\ Unpublished = {}
                BY <2>1, <3>2
            <4> QED BY <3>2, <4>1 DEF FreshInv, FreshUnlessRaced
        <3> QED BY <2>1, <3>1, <3>2, MovesLists
    <2>2. \A g \in Handler : g # h => req'[g] = req[g]
        BY MovesLists
    <2> QED BY <1>2, <2>1, <2>2 DEF FreshInv, ListInv
<1>4. FreshUnlessRaced'
    <2> SUFFICES ASSUME cache' # None, ~cache'.stale, Unpublished' = {}
                 PROVE  cache'.tasks = vault
        BY <1>2 DEF FreshUnlessRaced
    <2>1. CASE Store(h) /\ cache' = req[h].list
        BY <2>1 DEF FreshInv, ListInv
    <2>2. cache' # Stale(cache) \/ cache = None
        BY <1>1, StaleFacts DEF RedisType
    <2>3. CASE Invalidate(h)
        <3>1. cache' = None \/ cache' = Stale(cache)
            BY <2>3 DEF Invalidate
        <3>2. Stale(None) = None
            BY DEF Stale
        <3> QED BY <2>2, <3>1, <3>2
    <2>4. CASE cache' = cache /\ ~Invalidate(h)
        <3>1. Unpublished = {}
            <4>1. pc[h] # "answered" /\ \A g \in Handler : g # h => pc'[g] = pc[g]
                BY <2>4, MovesLists
            <4>2. \A g \in Handler : pc'[g] # "answered"
                BY DEF Unpublished
            <4> QED BY <4>1, <4>2 DEF Unpublished
        <3> QED BY <2>4, <3>1 DEF FreshInv, FreshUnlessRaced
    <2> QED BY <2>1, <2>3, <2>4, MovesLists
<1> QED BY <1>3, <1>4 DEF FreshInv

(* What changes a note marks every list that is read, and the cached one   *)
(* unless it is about to be dropped.                                       *)
LEMMA WritesKeepFresh ==
    ASSUME Shape, FreshInv,
           (\E h \in Handler : Writes(h)) \/ \E t \in Task : Edit(t)
    PROVE  FreshInv'
<1>1. PcType /\ ReqType /\ RedisType
    BY DEF Shape
<1>2. ASSUME NEW g \in Handler
      PROVE  [req[g] EXCEPT !.list = Stale(@)].list = Stale(req[g].list)
             /\ req[g].list \in TaskList \cup {None}
    BY <1>1 DEF ReqType, ReqRecord
<1>3. ASSUME NEW g \in Handler, req'[g].list # None
      PROVE  req'[g].list.stale
    <2>1. CASE req'[g] = [req[g] EXCEPT !.list = Stale(@)]
        <3>1. req'[g].list = Stale(req[g].list) /\ req[g].list \in TaskList \cup {None}
            BY <1>2, <2>1
        <3> DEFINE l == req[g].list
        <3>2. l \in TaskList \cup {None} /\ Stale(l) # None
            BY <1>3, <3>1
        <3> HIDE DEF l
        <3>3. Stale(l).stale = TRUE
            BY <3>2, StaleFacts
        <3> QED BY <3>1, <3>3 DEF l
    <2>3. CASE \E t \in Task : Edit(t)
        BY <2>1, <2>3 DEF Edit
    <2>4. CASE \E h \in Handler : Writes(h)
        <3>1. PICK h \in Handler : Writes(h)
            BY <2>4
        <3>2. PICK w \in Written(h) :
                 /\ \/ req'[h] = [req[h] EXCEPT !.task = w[2], !.list = None]
                    \/ req'[h] = NoReq
                 /\ \A f \in Handler : f # h => req'[f] = [req[f] EXCEPT !.list = Stale(@)]
            BY <3>1, WritesForm
        <3>3. [req[h] EXCEPT !.task = w[2], !.list = None].list = None /\ NoReq.list = None
            BY <1>1 DEF NoReq, ReqType, ReqRecord
        <3>4. g # h
            BY <1>3, <3>2, <3>3
        <3> QED BY <2>1, <3>2, <3>4
    <2> QED BY <2>3, <2>4
<1>4. ListInv'
    BY <1>3 DEF ListInv
<1>5. FreshUnlessRaced'
    <2> SUFFICES ASSUME cache' # None, ~cache'.stale PROVE Unpublished' # {}
        BY DEF FreshUnlessRaced
    <2>1. cache' # Stale(cache)
        <3>1. cache \in TaskList \cup {None}
            BY <1>1 DEF RedisType
        <3> QED BY <3>1, StaleFacts
    <2>2. PICK h \in Handler : Writes(h)
        BY <2>1 DEF Edit
    <2>3. pc' = [pc EXCEPT ![h] = "answered"]
        BY <2>1, <2>2, WritesForm
    <2>4. pc'[h] = "answered"
        BY <1>1, <2>3 DEF PcType
    <2> QED BY <2>4 DEF Unpublished
<1> QED BY <1>4, <1>5 DEF FreshInv

LEMMA FreshInit == Init => FreshInv
<1>1. NoReq.list = None
    BY DEF NoReq
<1> QED BY <1>1 DEF Init, FreshInv, ListInv, FreshUnlessRaced

(* FreshInv is inductive. *)
LEMMA FreshStep == Shape /\ FreshInv /\ [Next]_vars => FreshInv'
<1> SUFFICES ASSUME Shape, FreshInv, [Next]_vars PROVE FreshInv'
    OBVIOUS
<1>1. CASE Outside
    <2>1. UNCHANGED <<vault, pc, req>>
        BY <1>1, OutsideQuiet DEF service
    <2>2. cache' \in {cache, None}
        BY <1>1 DEF Outside, CacheExpires, FocusExpires, RedisFails, RedisBack, vars, redis
    <2>3. ListInv'
        BY <2>1 DEF FreshInv, ListInv
    <2>4. FreshUnlessRaced'
        BY <2>1, <2>2 DEF FreshInv, FreshUnlessRaced, Unpublished
    <2> QED BY <2>3, <2>4 DEF FreshInv
<1> QED BY <1>1, NextCases, MovesKeepFresh, WritesKeepFresh

(* An update whose list has no reason to be stale changes one field. *)
LEMMA UpdateStep ==
    ASSUME Shape, FreshInv, [Next]_vars,
           NEW h \in Handler, pc[h] = "call", req[h].op = "update", ~req[h].list.stale,
           vault' # vault, pc'[h] # "call"
    PROVE  vault' = [vault EXCEPT ![req[h].task].status = "done"]
<1>1. PcType /\ ReqType /\ ReqInv
    BY DEF Shape
<1>2. PICK g \in Handler : Writes(g)
    BY NextCases, MovesQuiet, OutsideQuiet DEF Edit, service
<1>3. g = h
    <2>1. \E to : pc' = [pc EXCEPT ![g] = to]
        BY <1>2, WritesForm
    <2> QED BY <1>1, <2>1 DEF PcType
<1>4. req[h].list # None
    BY <1>1 DEF ReqInv, WellReq
<1>5. req[h].list.tasks = vault
    BY <1>4 DEF FreshInv, ListInv
<1>6. vault' = [vault EXCEPT ![req[h].task] = Merged(h)]
    <2>1. PICK w \in Written(h) : vault' = w[1]
        BY <1>2, <1>3, WritesForm
    <2> QED BY <2>1 DEF Written
<1> QED BY <1>5, <1>6 DEF Merged

-----------------------------------------------------------------------------
(* The time of a focus session.                                            *)

(* The notes, and every copy of them that is cached or read. *)
IsBoard(L) ==
    \/ L = vault
    \/ \E h \in Handler : req[h].list # None /\ L = req[h].list.tasks
    \/ cache # None /\ L = cache.tasks

On(L, t, s) == L[t] # None /\ L[t].timeEntries[s] # 0

(* A session that may yet be logged: it is in focus, or a stop has read    *)
(* it, or calls Project-Box with it.                                       *)
Clearing(h, s) == pc[h] = "clear" /\ req[h].session = s
Held(s) == (focus # None /\ focus.session = s) \/ \E h \in Handler : Clearing(h, s)
Logging(h, s) == pc[h] = "call" /\ req[h].op = "stop" /\ req[h].session = s

(* Without overlapping stops a session is in one of these places, or in    *)
(* one note.                                                               *)
OnOneTask(s) ==
    \A L, M : IsBoard(L) /\ IsBoard(M) =>
        \A t, u \in Task : On(L, t, s) /\ On(M, u, s) => t = u
OnOnce(s) ==
    \A L, t : IsBoard(L) /\ t \in Task /\ On(L, t, s) => L[t].timeEntries[s] = 1 /\ s <= sessions
OneLogs(s) == \A g, h \in Handler : Logging(g, s) /\ Logging(h, s) => g = h
LogsAlone(s) == \A h \in Handler : Logging(h, s) => ~Held(s)
NotYetOn(s) ==
    Held(s) \/ (\E h \in Handler : Logging(h, s)) =>
        s <= sessions /\ \A L, t : IsBoard(L) /\ t \in Task => ~On(L, t, s)
OnePlace(s) == OnOneTask(s) /\ OnOnce(s) /\ OneLogs(s) /\ LogsAlone(s) /\ NotYetOn(s)

LogInv ==
    ~overlap =>
        /\ \A g, h \in Handler : pc[g] = "clear" /\ pc[h] = "clear" => g = h
        /\ \A s \in Session : OnePlace(s)

(* What a board says of a session, a board of the state before says.       *)
Copied(L, s) ==
    \A t \in Task : On(L, t, s) =>
        \E M : IsBoard(M) /\ On(M, t, s) /\ M[t].timeEntries[s] = L[t].timeEntries[s]

(* A session stays in one place when no place is added to where it is.     *)
LEMMA PlaceKept ==
    ASSUME NEW s \in Session, OnePlace(s), CountType, CountType', sessions' >= sessions,
           s \in Nat,
           Held(s)' => Held(s), \A h \in Handler : Logging(h, s)' => Logging(h, s),
           \A L : IsBoard(L)' => Copied(L, s)
    PROVE  OnePlace(s)'
<1>1. sessions \in Nat /\ sessions' \in Nat
    BY DEF CountType
<1>2. ASSUME NEW L, IsBoard(L)', NEW t \in Task, On(L, t, s)
      PROVE  \E M : IsBoard(M) /\ On(M, t, s) /\ M[t].timeEntries[s] = L[t].timeEntries[s]
    BY <1>2 DEF Copied
<1>0. OnOneTask(s) /\ OnOnce(s) /\ OneLogs(s) /\ LogsAlone(s) /\ NotYetOn(s)
    BY DEF OnePlace
<1>3. ASSUME NEW L, NEW M, NEW t \in Task, NEW u \in Task,
             IsBoard(L)', On(L, t, s), IsBoard(M)', On(M, u, s)
      PROVE  t = u
    <2>1. PICK N : IsBoard(N) /\ On(N, t, s)
        BY <1>2, <1>3
    <2>2. PICK O : IsBoard(O) /\ On(O, u, s)
        BY <1>2, <1>3
    <2> QED BY <1>0, <2>1, <2>2 DEF OnOneTask
<1>4. ASSUME NEW L, NEW t \in Task, IsBoard(L)', On(L, t, s)
      PROVE  L[t].timeEntries[s] = 1 /\ s <= sessions'
    <2>1. PICK N : IsBoard(N) /\ On(N, t, s) /\ N[t].timeEntries[s] = L[t].timeEntries[s]
        BY <1>2, <1>4
    <2>2. N[t].timeEntries[s] = 1 /\ s <= sessions
        BY <1>0, <2>1 DEF OnOnce
    <2> QED BY <1>1, <2>1, <2>2
<1>5. \A g, h \in Handler : Logging(g, s)' /\ Logging(h, s)' => g = h
    BY <1>0 DEF OneLogs
<1>6. \A h \in Handler : Logging(h, s)' => ~Held(s)'
    BY <1>0 DEF LogsAlone
<1>7. ASSUME Held(s)' \/ \E h \in Handler : Logging(h, s)'
      PROVE  s <= sessions' /\ \A L, t : IsBoard(L)' /\ t \in Task => ~On(L, t, s)
    <2>1. s <= sessions /\ \A L, t : IsBoard(L) /\ t \in Task => ~On(L, t, s)
        BY <1>0, <1>7 DEF NotYetOn
    <2>2. ASSUME NEW L, NEW t \in Task, IsBoard(L)' PROVE ~On(L, t, s)
        BY <1>2, <2>1, <2>2
    <2> QED BY <1>1, <2>1, <2>2
<1> QED
    <2>1. OnOneTask(s)'
        BY <1>3 DEF OnOneTask, On
    <2>2. OnOnce(s)'
        BY <1>4 DEF OnOnce, On
    <2>3. OneLogs(s)' /\ LogsAlone(s)'
        BY <1>5, <1>6 DEF OneLogs, LogsAlone
    <2>4. NotYetOn(s)'
        BY <1>7 DEF NotYetOn, On
    <2> QED BY <2>1, <2>2, <2>3, <2>4 DEF OnePlace

(* A session that no board has, and that is held or is logged by one stop, *)
(* is in one place.                                                        *)
LEMMA PlaceFound ==
    ASSUME NEW s \in Session, s <= sessions',
           \A L, t : IsBoard(L)' /\ t \in Task => ~On(L, t, s),
           \A g, h \in Handler : Logging(g, s)' /\ Logging(h, s)' => g = h,
           \A h \in Handler : Logging(h, s)' => ~Held(s)'
    PROVE  OnePlace(s)'
<1>1. OnOneTask(s)'
    BY DEF OnOneTask, On
<1>2. OnOnce(s)'
    BY DEF OnOnce, On
<1>3. OneLogs(s)' /\ LogsAlone(s)'
    BY DEF OneLogs, LogsAlone
<1>4. NotYetOn(s)'
    BY DEF NotYetOn, On
<1> QED BY <1>1, <1>2, <1>3, <1>4 DEF OnePlace

(* A board that was there before is copied. *)
LEMMA OldBoard ==
    ASSUME NEW L, NEW s, IsBoard(L)
    PROVE  Copied(L, s)
BY DEF Copied

(* A move copies boards only. *)
LEMMA MovesBoards ==
    ASSUME Shape, NEW h \in Handler, Moves(h), NEW L, IsBoard(L)'
    PROVE  IsBoard(L)
<1>1. UNCHANGED vault
    BY MovesQuiet
<1>2. CASE L = vault'
    BY <1>1, <1>2 DEF IsBoard
<1>3. CASE \E g \in Handler : req'[g].list # None /\ L = req'[g].list.tasks
    <2> PICK g \in Handler : req'[g].list # None /\ L = req'[g].list.tasks
        BY <1>3
    <2>1. CASE g # h
        <3>1. req'[g] = req[g]
            BY <2>1, MovesLists
        <3> QED BY <3>1 DEF IsBoard
    <2>2. CASE g = h
        <3>1. \/ req'[h].list = req[h].list
              \/ cache # None /\ req'[h].list.tasks = cache.tasks
              \/ req'[h].list.tasks = vault
            BY <2>2, MovesLists
        <3> QED BY <2>2, <3>1 DEF IsBoard
    <2> QED BY <2>1, <2>2
<1>4. CASE cache' # None /\ L = cache'.tasks
    <2>1. CASE cache' = cache
        BY <1>4, <2>1 DEF IsBoard
    <2>2. CASE cache' \in {None, Stale(cache)}
        <3>1. cache \in TaskList \cup {None}
            BY DEF Shape, RedisType
        <3>2. cache' = Stale(cache)
            BY <1>4, <2>2
        <3>3. cache # None /\ cache'.tasks = cache.tasks
            BY <1>4, <3>1, <3>2, StaleFacts
        <3> QED BY <1>4, <3>3 DEF IsBoard
    <2>3. CASE Store(h) /\ cache' = req[h].list
        BY <1>4, <2>3 DEF IsBoard
    <2> QED BY <2>1, <2>2, <2>3, MovesLists
<1> QED BY <1>2, <1>3, <1>4 DEF IsBoard

(* A step that begins no session and no stop, and that copies boards only. *)
LEMMA QuietKeepsLog ==
    ASSUME CountType, CountType', LogInv, UNCHANGED overlap, sessions' >= sessions,
           focus' = focus \/ focus' = None,
           \A h \in Handler :
               /\ pc'[h] = "clear" => pc[h] = "clear" /\ req'[h].session = req[h].session
               /\ pc'[h] = "call" /\ req'[h].op = "stop" =>
                      pc[h] = "call" /\ req[h].op = "stop" /\ req'[h].session = req[h].session,
           \A L : \A s \in Session : IsBoard(L)' => Copied(L, s)
    PROVE  LogInv'
<1> SUFFICES ASSUME ~overlap'
             PROVE  /\ \A g, h \in Handler : pc'[g] = "clear" /\ pc'[h] = "clear" => g = h
                    /\ \A s \in Session : OnePlace(s)'
    BY DEF LogInv
<1>1. ~overlap
    OBVIOUS
<1>2. \A g, h \in Handler : pc'[g] = "clear" /\ pc'[h] = "clear" => g = h
    BY <1>1 DEF LogInv
<1>3. ASSUME NEW s \in Session PROVE OnePlace(s)'
    <2>1. OnePlace(s) /\ s \in Nat
        BY <1>1, ProjectBoxAssumption DEF LogInv, Session
    <2>2. Held(s)' => Held(s)
        BY DEF Held, Clearing
    <2>3. \A h \in Handler : Logging(h, s)' => Logging(h, s)
        BY DEF Logging
    <2> QED BY <2>1, <2>2, <2>3, PlaceKept
<1> QED BY <1>2, <1>3

(* The moves that have no part in a focus session are such steps. *)
LEMMA MovesKeepLog ==
    ASSUME Shape, CountType', LogInv, NEW h \in Handler, Moves(h),
           ~FocusSave(h), ~FocusStop(h), ~FocusClear(h)
    PROVE  LogInv'
<1>1. PcType /\ ReqType /\ ReqInv /\ CountType
    BY DEF Shape
<1>2. UNCHANGED <<overlap, sessions, focus>>
    BY DEF Moves, ListTasks, UpdateTask, StartFocus, Loads, Fetch, Store, Create, Archive,
           Begins, Convert, Rejected, Invalidate, Pairs, history, counters, redis
<1>3. NoReq.op = "none"
    BY DEF NoReq
<1>4. PICK where, r : /\ Becomes(h, where, r)
                      /\ where # "clear" /\ (where = "call" => r.op # "stop")
    <2>1. CASE Over(h)
        BY <2>1 DEF Over
    <2>2. CASE ListTasks(h) \/ \E t \in Task : UpdateTask(h, t) \/ StartFocus(h, t)
        <3>1. PICK op \in {"list", "update", "start"}, t \in Task \cup {None} :
                 (op # "list" => t \in Task) /\ Loads(h, op, t)
            BY <2>2 DEF ListTasks, UpdateTask, StartFocus
        <3>2. PICK where \in {"idle", "fetch", "call", "save"}, r \in ReqRecord :
                 Becomes(h, where, r) /\ r.op = op
            BY <3>1, LoadsForm
        <3> QED BY <3>2
    <2>3. CASE Fetch(h)
        BY <2>1, <2>3, FetchForm
    <2>4. CASE Store(h)
        <3>1. req[h].op # "stop"
            BY <2>4, StoreForm
        <3> QED BY <2>1, <2>4, <3>1, StoreForm
    <2>5. CASE \E t \in Task : Create(h) \/ Archive(h, t)
        <3>1. PICK op, t : op \in {"create", "archive"} /\ Begins(h, op, t)
            BY <2>5 DEF Create, Archive
        <3> DEFINE r == [NoReq EXCEPT !.op = op, !.task = t]
        <3>2. Becomes(h, "call", r) /\ r.op # "stop"
            BY <3>1 DEF Begins, NoReq
        <3> HIDE DEF r
        <3> QED BY <3>2
    <2>6. CASE Convert(h)
        <3> DEFINE r == [NoReq EXCEPT !.op = "convert"]
        <3>1. Becomes(h, "call", r) /\ r.op # "stop"
            BY <2>6 DEF Convert, NoReq
        <3> HIDE DEF r
        <3> QED BY <3>1
    <2>7. CASE Rejected(h) \/ Invalidate(h) \/ Pairs(h)
        BY <2>1, <2>7 DEF Rejected, Invalidate, Pairs
    <2> QED BY <2>2, <2>3, <2>4, <2>5, <2>6, <2>7, ProjectBoxAssumption DEF Moves
<1>5. /\ pc'[h] = where /\ (where # "idle" => req'[h] = r)
      /\ \A g \in Handler : g # h => pc'[g] = pc[g] /\ req'[g] = req[g]
    BY <1>1, <1>4, BecomesFacts
<1>6. \A L : \A s \in Session : IsBoard(L)' => Copied(L, s)
    BY MovesBoards, OldBoard
<1>7. \A g \in Handler :
         /\ pc'[g] = "clear" => pc[g] = "clear" /\ req'[g].session = req[g].session
         /\ pc'[g] = "call" /\ req'[g].op = "stop" =>
                pc[g] = "call" /\ req[g].op = "stop" /\ req'[g].session = req[g].session
    BY <1>4, <1>5
<1>8. sessions' >= sessions
    BY <1>1, <1>2 DEF CountType
<1> QED BY <1>1, <1>2, <1>6, <1>7, <1>8, QuietKeepsLog

(* A session that begins is new: nothing of it was logged. *)
LEMMA SaveKeepsLog ==
    ASSUME Shape, CountType', LogInv, NEW h \in Handler, FocusSave(h)
    PROVE  LogInv'
<1>1. PcType /\ ReqType /\ ReqInv /\ CountType
    BY DEF Shape
<1>2. Over(h) /\ UNCHANGED overlap /\ Moves(h)
    BY DEF FocusSave, history, Moves
<1>3. NoReq.op = "none"
    BY DEF NoReq
<1>4. /\ pc'[h] = "idle"
      /\ \A g \in Handler : g # h => pc'[g] = pc[g] /\ req'[g] = req[g]
    BY <1>1, <1>2, BecomesFacts DEF Over
<1>5. \A L : IsBoard(L)' => IsBoard(L)
    BY <1>2, MovesBoards
<1>6. CASE UNCHANGED <<sessions, focus>>
    <2>1. \A L : \A s \in Session : IsBoard(L)' => Copied(L, s)
        BY <1>5, OldBoard
    <2>2. sessions' >= sessions
        BY <1>1, <1>6 DEF CountType
    <2> QED BY <1>1, <1>2, <1>4, <1>6, <2>1, <2>2, QuietKeepsLog
<1>7. CASE sessions' = sessions + 1 /\ focus' = [session |-> sessions + 1, task |-> req[h].task]
    <2> SUFFICES ASSUME ~overlap'
                 PROVE  /\ \A f, g \in Handler : pc'[f] = "clear" /\ pc'[g] = "clear" => f = g
                        /\ \A s \in Session : OnePlace(s)'
        BY DEF LogInv
    <2>1. ~overlap /\ sessions \in Nat
        BY <1>1, <1>2 DEF CountType
    <2>2. \A f, g \in Handler : pc'[f] = "clear" /\ pc'[g] = "clear" => f = g
        BY <1>4, <2>1 DEF LogInv
    <2>3. ASSUME NEW s \in Session PROVE OnePlace(s)'
        <3>1. OnePlace(s) /\ s \in Nat
            BY <2>1, ProjectBoxAssumption DEF LogInv, Session
        <3>2. \A g \in Handler : Logging(g, s)' => Logging(g, s)
            BY <1>4 DEF Logging
        <3>3. CASE s # sessions + 1
            <4>1. Held(s)' => Held(s)
                BY <1>4, <1>7, <3>3 DEF Held, Clearing
            <4>2. \A L : IsBoard(L)' => Copied(L, s)
                BY <1>5, OldBoard
            <4>3. sessions' >= sessions
                BY <1>7, <2>1
            <4> QED BY <1>1, <3>1, <3>2, <4>1, <4>2, <4>3, PlaceKept
        <3>4. CASE s = sessions + 1
            <4>1. ~(s <= sessions)
                BY <2>1, <3>4
            <4>2. \A L, t : IsBoard(L)' /\ t \in Task => ~On(L, t, s)
                BY <1>5, <3>1, <4>1 DEF OnePlace, OnOnce
            <4>3. \A g \in Handler : ~Logging(g, s)'
                BY <3>1, <3>2, <4>1 DEF OnePlace, NotYetOn
            <4>4. s <= sessions'
                BY <1>7, <2>1, <3>4
            <4>5. \A f, g \in Handler : Logging(f, s)' /\ Logging(g, s)' => f = g
                BY <4>3
            <4>6. \A g \in Handler : Logging(g, s)' => ~Held(s)'
                BY <4>3
            <4> QED BY <4>2, <4>4, <4>5, <4>6, PlaceFound
        <3> QED BY <3>3, <3>4
    <2> QED BY <2>2, <2>3
<1> QED BY <1>6, <1>7 DEF FocusSave, SaveSession

(* A stop reads the session that is in focus; no other stop is under way.  *)
LEMMA StopKeepsLog ==
    ASSUME Shape, CountType', LogInv, NEW h \in Handler, FocusStop(h)
    PROVE  LogInv'
<1> DEFINE r == [NoReq EXCEPT !.op = "stop", !.session = GetSession("session"),
                              !.task = GetSession("task")]
<1>1. PcType /\ ReqType /\ ReqInv /\ CountType /\ RedisType
    BY DEF Shape
<1>2. /\ Becomes(h, "clear", r) /\ UNCHANGED <<focus, sessions>> /\ Moves(h)
      /\ overlap' = (overlap \/ \E g \in Handler : pc[g] = "clear")
    BY DEF FocusStop, redis, Moves
<1>3. r.session = IF focus = None THEN None ELSE focus.session
    BY DEF NoReq, GetSession
<1> HIDE DEF r
<1>4. /\ pc'[h] = "clear" /\ req'[h] = r
      /\ \A g \in Handler : g # h => pc'[g] = pc[g] /\ req'[g] = req[g]
    BY <1>1, <1>2, BecomesFacts
<1> SUFFICES ASSUME ~overlap'
             PROVE  /\ \A f, g \in Handler : pc'[f] = "clear" /\ pc'[g] = "clear" => f = g
                    /\ \A s \in Session : OnePlace(s)'
    BY DEF LogInv
<1>5. ~overlap /\ \A g \in Handler : pc[g] # "clear"
    BY <1>2
<1>6. \A f, g \in Handler : pc'[f] = "clear" /\ pc'[g] = "clear" => f = g
    BY <1>4, <1>5
<1>7. ASSUME NEW s \in Session PROVE OnePlace(s)'
    <2>1. OnePlace(s) /\ s \in Nat
        BY <1>5, ProjectBoxAssumption DEF LogInv, Session
    <2>2. \A g \in Handler : Logging(g, s)' => Logging(g, s)
        BY <1>4 DEF Logging
    <2>3. Held(s)' => Held(s)
        <3>1. s # None
            BY NoneApart
        <3> QED BY <1>2, <1>3, <1>4, <3>1 DEF Held, Clearing
    <2>4. \A L : IsBoard(L)' => Copied(L, s)
        BY <1>2, MovesBoards, OldBoard
    <2>5. sessions' >= sessions
        BY <1>1, <1>2 DEF CountType
    <2> QED BY <1>1, <2>1, <2>2, <2>3, <2>4, <2>5, PlaceKept
<1> QED BY <1>6, <1>7

(* It takes the session away, and goes on to log it; or Redis is away, and *)
(* it is not logged.                                                       *)
LEMMA ClearKeepsLog ==
    ASSUME Shape, CountType', LogInv, NEW h \in Handler, FocusClear(h)
    PROVE  LogInv'
<1>1. PcType /\ ReqType /\ ReqInv /\ CountType /\ RedisType
    BY DEF Shape
<1>2. /\ pc[h] = "clear" /\ focus' = (IF up THEN None ELSE focus)
      /\ UNCHANGED <<overlap, sessions>> /\ Moves(h)
      /\ IF up /\ req[h].session # None THEN Becomes(h, "call", req[h]) ELSE Over(h)
    BY DEF FocusClear, ClearSession, history, counters, Moves
<1>3. \A L : IsBoard(L)' => IsBoard(L)
    BY <1>2, MovesBoards
<1>4. \A L : \A s \in Session : IsBoard(L)' => Copied(L, s)
    BY <1>3, OldBoard
<1>5. sessions' >= sessions
    BY <1>1, <1>2 DEF CountType
<1>6. CASE Over(h)
    <2>1. /\ pc'[h] = "idle"
          /\ \A g \in Handler : g # h => pc'[g] = pc[g] /\ req'[g] = req[g]
        BY <1>1, <1>6, BecomesFacts DEF Over
    <2>2. \A g \in Handler :
             /\ pc'[g] = "clear" => pc[g] = "clear" /\ req'[g].session = req[g].session
             /\ pc'[g] = "call" /\ req'[g].op = "stop" =>
                    pc[g] = "call" /\ req[g].op = "stop" /\ req'[g].session = req[g].session
        BY <2>1
    <2> QED BY <1>1, <1>2, <1>4, <1>5, <2>2, QuietKeepsLog
<1>7. CASE up /\ Becomes(h, "call", req[h])
    <2>1. /\ pc'[h] = "call" /\ req'[h] = req[h] /\ focus' = None
          /\ \A g \in Handler : g # h => pc'[g] = pc[g] /\ req'[g] = req[g]
        BY <1>1, <1>2, <1>7, BecomesFacts
    <2> SUFFICES ASSUME ~overlap'
                 PROVE  /\ \A f, g \in Handler : pc'[f] = "clear" /\ pc'[g] = "clear" => f = g
                        /\ \A s \in Session : OnePlace(s)'
        BY DEF LogInv
    <2>2. ~overlap /\ \A g \in Handler : pc[g] = "clear" => g = h
        BY <1>2 DEF LogInv
    <2>3. \A g \in Handler : pc'[g] # "clear"
        BY <2>1, <2>2
    <2>4. ASSUME NEW s \in Session PROVE OnePlace(s)'
        <3>1. OnePlace(s) /\ s \in Nat
            BY <2>2, ProjectBoxAssumption DEF LogInv, Session
        <3>2. ~Held(s)'
            BY <2>1, <2>3 DEF Held, Clearing
        <3>3. CASE req[h].session # s
            <4>1. \A g \in Handler : Logging(g, s)' => Logging(g, s)
                BY <2>1, <3>3 DEF Logging
            <4> QED BY <1>1, <1>4, <1>5, <3>1, <3>2, <4>1, PlaceKept
        <3>4. CASE req[h].session = s
            <4>1. Held(s)
                BY <1>2, <3>4 DEF Held, Clearing
            <4>2. \A g \in Handler : ~Logging(g, s)
                BY <3>1, <4>1 DEF OnePlace, LogsAlone
            <4>3. s <= sessions /\ \A L, t : IsBoard(L) /\ t \in Task => ~On(L, t, s)
                BY <3>1, <4>1 DEF OnePlace, NotYetOn
            <4>4. \A g \in Handler : Logging(g, s)' => g = h
                BY <2>1, <4>2 DEF Logging
            <4>5. \A L, t : IsBoard(L)' /\ t \in Task => ~On(L, t, s)
                BY <1>3, <4>3
            <4>6. \A f, g \in Handler : Logging(f, s)' /\ Logging(g, s)' => f = g
                BY <4>4
            <4>7. \A g \in Handler : Logging(g, s)' => ~Held(s)'
                BY <3>2
            <4>8. s <= sessions'
                BY <1>2, <4>3
            <4> QED BY <4>5, <4>6, <4>7, <4>8, PlaceFound
        <3> QED BY <3>3, <3>4
    <2> QED BY <2>3, <2>4
<1> QED BY <1>2, <1>6, <1>7

(* Steps that mark the other lists stale leave no board but the old ones   *)
(* and the notes themselves.                                               *)
LEMMA StaleBoards ==
    ASSUME Shape, \A g \in Handler : req'[g].list \in {None, Stale(req[g].list)},
           cache' \in {cache, Stale(cache)}, NEW L, IsBoard(L)', L # vault'
    PROVE  IsBoard(L)
<1>1. ReqType /\ RedisType
    BY DEF Shape
<1>2. CASE \E g \in Handler : req'[g].list # None /\ L = req'[g].list.tasks
    <2> PICK g \in Handler : req'[g].list # None /\ L = req'[g].list.tasks
        BY <1>2
    <2>1. req[g].list \in TaskList \cup {None}
        BY <1>1 DEF ReqType, ReqRecord
    <2>2. req'[g].list = Stale(req[g].list)
        OBVIOUS
    <2>3. req[g].list # None /\ L = req[g].list.tasks
        BY <2>1, <2>2, StaleFacts
    <2> QED BY <2>3 DEF IsBoard
<1>3. CASE cache' # None /\ L = cache'.tasks
    <2>1. cache \in TaskList \cup {None}
        BY <1>1 DEF RedisType
    <2>2. cache # None /\ L = cache.tasks
        BY <1>3, <2>1, StaleFacts
    <2> QED BY <2>2 DEF IsBoard
<1> QED BY <1>2, <1>3 DEF IsBoard

(* What a write does to the boards and to the stops under way. *)
LEMMA WritesBoards ==
    ASSUME Shape, NEW h \in Handler, Writes(h)
    PROVE  /\ UNCHANGED <<overlap, sessions, focus>>
           /\ \A L : IsBoard(L)' /\ L # vault' => IsBoard(L)
           /\ pc'[h] \in {"answered", "idle"}
           /\ \A g \in Handler : g # h =>
                 pc'[g] = pc[g] /\ req'[g].op = req[g].op /\ req'[g].session = req[g].session
<1>1. PcType /\ ReqType
    BY DEF Shape
<1>2. UNCHANGED <<overlap, sessions, focus>>
    BY DEF Writes
<1>3. PICK w \in Written(h) :
              /\ \/ /\ pc' = [pc EXCEPT ![h] = "answered"]
                    /\ req'[h] = [req[h] EXCEPT !.task = w[2], !.list = None]
                    /\ UNCHANGED cache
                 \/ /\ pc' = [pc EXCEPT ![h] = "idle"] /\ req'[h] = NoReq
                    /\ cache' = Stale(cache)
              /\ \A g \in Handler : g # h => req'[g] = [req[g] EXCEPT !.list = Stale(@)]
    BY WritesForm
<1>4. req[h] \in ReqRecord
    BY <1>1 DEF ReqType
<1>5. req'[h].list = None
    <2>1. NoReq.list = None
        BY DEF NoReq
    <2>2. [req[h] EXCEPT !.task = w[2], !.list = None].list = None
        BY <1>4 DEF ReqRecord
    <2> QED BY <1>3, <2>1, <2>2
<1>6. ASSUME NEW g \in Handler, g # h
      PROVE  /\ pc'[g] = pc[g] /\ req'[g].op = req[g].op /\ req'[g].session = req[g].session
             /\ req'[g].list = Stale(req[g].list)
    <2>1. req[g] \in ReqRecord /\ req'[g] = [req[g] EXCEPT !.list = Stale(@)]
        BY <1>1, <1>3, <1>6 DEF ReqType
    <2>2. /\ req'[g].op = req[g].op /\ req'[g].session = req[g].session
          /\ req'[g].list = Stale(req[g].list)
        BY <2>1 DEF ReqRecord
    <2>3. pc'[g] = pc[g]
        BY <1>1, <1>3, <1>6 DEF PcType
    <2> QED BY <2>2, <2>3
<1>7. \A g \in Handler : req'[g].list \in {None, Stale(req[g].list)}
    BY <1>5, <1>6
<1>8. cache' \in {cache, Stale(cache)}
    BY <1>3
<1>9. pc'[h] \in {"answered", "idle"}
    BY <1>1, <1>3 DEF PcType
<1> QED BY <1>2, <1>6, <1>7, <1>8, <1>9, StaleBoards

(* A write that logs no time copies what the notes or its own list say.    *)
LEMMA WriteCopies ==
    ASSUME Shape, NEW h \in Handler, pc[h] = "call", ~Refused(h), NEW w \in Written(h),
           NEW s \in Session, req[h].op # "stop" \/ s # req[h].session
    PROVE  Copied(w[1], s)
<1> SUFFICES ASSUME NEW t \in Task, On(w[1], t, s)
             PROVE  \E M : /\ IsBoard(M) /\ On(M, t, s)
                           /\ M[t].timeEntries[s] = w[1][t].timeEntries[s]
    BY DEF Copied
<1>1. /\ \A u \in Task : u # w[2] => w[1][u] = vault[u]
      /\ w[2] \in Task /\ vault \in [Task -> Note \cup {None}]
    BY WrittenCases DEF Shape, VaultType
<1>2. IsBoard(vault)
    BY DEF IsBoard
<1>3. CASE t # w[2]
    BY <1>1, <1>2, <1>3 DEF On
<1>4. CASE t = w[2] /\ req[h].op \in {"create", "convert"} /\ w[1][w[2]] = NewNote
    BY <1>4 DEF On, NewNote
<1>5. CASE t = w[2] /\ req[h].op = "archive" /\ w[1][w[2]] = None
    BY <1>5 DEF On
<1>6. CASE t = w[2] /\ req[h].op = "update" /\ w[2] = req[h].task
           /\ w[1] = [vault EXCEPT ![req[h].task] = Merged(h)]
    <2> DEFINE M == req[h].list.tasks
    <2>1. req[h] \in ReqRecord /\ WellReq("call", req[h])
        BY DEF Shape, ReqType, ReqInv
    <2>2. req[h].list # None /\ req[h].list \in TaskList /\ M[t] # None
        BY <1>6, <2>1 DEF WellReq, ReqRecord
    <2>3. M[t] \in Note
        BY <2>2 DEF TaskList
    <2>4. w[1][t] = [M[t] EXCEPT !.status = "done"]
        BY <1>1, <1>6 DEF Merged
    <2>5. IsBoard(M)
        BY <2>2 DEF IsBoard
    <2> HIDE DEF M
    <2>6. w[1][t].timeEntries = M[t].timeEntries
        BY <2>3, <2>4 DEF Note
    <2>7. M[t] # None
        BY <2>3, NoneApart
    <2> QED BY <2>5, <2>6, <2>7 DEF On
<1>7. CASE t = w[2] /\ req[h].op = "stop" /\ vault[w[2]] # None
           /\ w[1][w[2]] = [vault[w[2]] EXCEPT !.timeEntries[req[h].session] = @ + 1]
    <2>1. vault[t] \in Note /\ s # req[h].session
        BY <1>1, <1>7
    <2>2. w[1][t].timeEntries[s] = vault[t].timeEntries[s]
        BY <1>7, <2>1 DEF Note
    <2> QED BY <1>2, <1>7, <2>2 DEF On
<1> QED BY <1>3, <1>4, <1>5, <1>6, <1>7, WrittenCases

(* A write that logs a session that no note has leaves it in one note.     *)
LEMMA WriteLogs ==
    ASSUME Shape, NEW h \in Handler, Writes(h), req[h].op = "stop",
           NEW s \in Session, req[h].session = s, OnePlace(s)
    PROVE  OnePlace(s)'
<1>1. pc[h] = "call" /\ ~Refused(h) /\ VaultType
    BY DEF Writes, Shape
<1>2. PICK w \in Written(h) : vault' = w[1]
    BY WritesForm
<1>3. /\ w[2] \in Task /\ vault[w[2]] # None
      /\ \A t \in Task : t # w[2] => vault'[t] = vault[t]
      /\ vault'[w[2]] = [vault[w[2]] EXCEPT !.timeEntries[s] = @ + 1]
    BY <1>1, <1>2, WrittenCases
<1>4. /\ UNCHANGED <<overlap, sessions, focus>>
      /\ \A L : IsBoard(L)' /\ L # vault' => IsBoard(L)
      /\ pc'[h] \in {"answered", "idle"}
      /\ \A g \in Handler : g # h =>
            pc'[g] = pc[g] /\ req'[g].op = req[g].op /\ req'[g].session = req[g].session
    BY WritesBoards
<1>5. Logging(h, s)
    BY <1>1 DEF Logging
<1>6. /\ s <= sessions /\ ~Held(s) /\ (\A g \in Handler : Logging(g, s) => g = h)
      /\ \A L, t : IsBoard(L) /\ t \in Task => ~On(L, t, s)
    <2>1. OneLogs(s) /\ LogsAlone(s) /\ NotYetOn(s)
        BY DEF OnePlace
    <2>2. s <= sessions /\ \A L, t : IsBoard(L) /\ t \in Task => ~On(L, t, s)
        BY <1>5, <2>1 DEF NotYetOn
    <2>3. ~Held(s) /\ \A g \in Handler : Logging(g, s) => g = h
        BY <1>5, <2>1 DEF OneLogs, LogsAlone
    <2> QED BY <2>2, <2>3
<1>7. ~Held(s)' /\ \A g \in Handler : ~Logging(g, s)'
    BY <1>4, <1>6 DEF Held, Clearing, Logging
<1>8. ASSUME NEW t \in Task, On(vault, t, s)'
      PROVE  t = w[2] /\ vault'[t].timeEntries[s] = 1
    <2>1. IsBoard(vault)
        BY DEF IsBoard
    <2>2. ~On(vault, t, s) /\ ~On(vault, w[2], s)
        BY <1>3, <1>6, <2>1
    <2>3. t = w[2]
        BY <1>3, <1>8, <2>2 DEF On
    <2>4. vault[w[2]] \in Note /\ vault[w[2]].timeEntries[s] = 0
        BY <1>1, <1>3, <2>2 DEF VaultType, On
    <2>5. vault'[w[2]].timeEntries[s] = 1
        BY <1>3, <2>4 DEF Note
    <2> QED BY <2>3, <2>5
<1>9. ASSUME NEW L, IsBoard(L)', NEW t \in Task, On(L, t, s)
      PROVE  L = vault'
    BY <1>4, <1>6, <1>9
<1>10. OnOneTask(s)'
    <2> SUFFICES ASSUME NEW L, NEW M, IsBoard(L)', IsBoard(M)', NEW t \in Task, NEW u \in Task,
                        On(L, t, s), On(M, u, s)
                 PROVE  t = u
        BY DEF OnOneTask, On
    <2>1. L = vault' /\ M = vault'
        BY <1>9
    <2>2. On(vault, t, s)' /\ On(vault, u, s)'
        BY <2>1 DEF On
    <2> QED BY <1>8, <2>2
<1>11. OnOnce(s)'
    <2> SUFFICES ASSUME NEW L, IsBoard(L)', NEW t \in Task, On(L, t, s)
                 PROVE  L[t].timeEntries[s] = 1 /\ s <= sessions'
        BY DEF OnOnce, On
    <2>1. L = vault'
        BY <1>9
    <2>2. On(vault, t, s)'
        BY <2>1 DEF On
    <2> QED BY <1>4, <1>6, <1>8, <2>1, <2>2
<1>12. OneLogs(s)' /\ LogsAlone(s)' /\ NotYetOn(s)'
    BY <1>7 DEF OneLogs, LogsAlone, NotYetOn
<1> QED BY <1>10, <1>11, <1>12 DEF OnePlace

(* A write keeps every session in one place. *)
LEMMA WritesKeepLog ==
    ASSUME Shape, CountType', LogInv, NEW h \in Handler, Writes(h)
    PROVE  LogInv'
<1>1. pc[h] = "call" /\ ~Refused(h) /\ CountType
    BY DEF Writes, Shape
<1>2. /\ UNCHANGED <<overlap, sessions, focus>>
      /\ \A L : IsBoard(L)' /\ L # vault' => IsBoard(L)
      /\ pc'[h] \in {"answered", "idle"}
      /\ \A g \in Handler : g # h =>
            pc'[g] = pc[g] /\ req'[g].op = req[g].op /\ req'[g].session = req[g].session
    BY WritesBoards
<1> SUFFICES ASSUME ~overlap'
             PROVE  /\ \A f, g \in Handler : pc'[f] = "clear" /\ pc'[g] = "clear" => f = g
                    /\ \A s \in Session : OnePlace(s)'
    BY DEF LogInv
<1>3. \A f, g \in Handler : pc'[f] = "clear" /\ pc'[g] = "clear" => f = g
    BY <1>2 DEF LogInv
<1>4. ASSUME NEW s \in Session PROVE OnePlace(s)'
    <2>1. OnePlace(s) /\ s \in Nat
        BY <1>2, ProjectBoxAssumption DEF LogInv, Session
    <2>2. CASE req[h].op = "stop" /\ req[h].session = s
        BY <2>1, <2>2, WriteLogs
    <2>3. CASE req[h].op # "stop" \/ s # req[h].session
        <3>1. PICK w \in Written(h) : vault' = w[1]
            BY WritesForm
        <3>2. Copied(w[1], s)
            BY <1>1, <2>3, WriteCopies
        <3>3. \A L : IsBoard(L)' => Copied(L, s)
            BY <1>2, <3>1, <3>2, OldBoard
        <3>4. (Held(s)' => Held(s)) /\ \A g \in Handler : Logging(g, s)' => Logging(g, s)
            BY <1>2 DEF Held, Clearing, Logging
        <3>5. sessions' >= sessions
            BY <1>1, <1>2 DEF CountType
        <3> QED BY <1>1, <2>1, <3>3, <3>4, <3>5, PlaceKept
    <2> QED BY <2>2, <2>3
<1> QED BY <1>3, <1>4

(* A hand edit logs no time. *)
LEMMA EditKeepsLog ==
    ASSUME Shape, CountType', LogInv, NEW t \in Task, Edit(t)
    PROVE  LogInv'
<1>1. PcType /\ ReqType /\ VaultType /\ CountType
    BY DEF Shape
<1>2. /\ vault[t] # None /\ vault' = [vault EXCEPT ![t].content = @ + 1]
      /\ req' = [h \in Handler |-> [req[h] EXCEPT !.list = Stale(@)]]
      /\ cache' = Stale(cache) /\ UNCHANGED <<pc, focus, overlap, sessions>>
    BY DEF Edit, history
<1>3. \A g \in Handler :
         /\ req'[g].list = Stale(req[g].list) /\ req'[g].op = req[g].op
         /\ req'[g].session = req[g].session
    BY <1>1, <1>2 DEF ReqType, ReqRecord
<1>4. ASSUME NEW s \in Session PROVE Copied(vault', s)
    <2> SUFFICES ASSUME NEW u \in Task, On(vault', u, s)
                 PROVE  /\ IsBoard(vault) /\ On(vault, u, s)
                        /\ vault[u].timeEntries[s] = vault'[u].timeEntries[s]
        BY DEF Copied
    <2>1. IsBoard(vault)
        BY DEF IsBoard
    <2>2. vault' = [vault EXCEPT ![t] = [vault[t] EXCEPT !.content = @ + 1]]
        BY <1>2
    <2>3. CASE u = t
        <3>1. vault[t] \in Note
            BY <1>1, <1>2 DEF VaultType
        <3>2. vault'[u] = [vault[t] EXCEPT !.content = @ + 1]
            BY <1>1, <2>2, <2>3 DEF VaultType
        <3>3. vault'[u].timeEntries = vault[t].timeEntries
            BY <3>1, <3>2 DEF Note
        <3> QED BY <1>2, <2>1, <2>3, <3>3 DEF On
    <2>4. CASE u # t
        <3>1. vault'[u] = vault[u]
            BY <1>1, <2>2, <2>4 DEF VaultType
        <3> QED BY <2>1, <3>1 DEF On
    <2> QED BY <2>3, <2>4
<1>5. \A L : \A s \in Session : IsBoard(L)' => Copied(L, s)
    <2>1. \A L : IsBoard(L)' /\ L # vault' => IsBoard(L)
        BY <1>2, <1>3, StaleBoards
    <2> QED BY <1>4, <2>1, OldBoard
<1>6. sessions' >= sessions
    BY <1>1, <1>2 DEF CountType
<1> QED BY <1>1, <1>2, <1>3, <1>5, <1>6, QuietKeepsLog

(* The steps outside of the requests add no board and no session. *)
LEMMA OutsideKeepsLog ==
    ASSUME Shape, CountType', LogInv, Outside
    PROVE  LogInv'
<1>1. CountType
    BY DEF Shape
<1>2. /\ UNCHANGED <<vault, pc, req, overlap, sessions>>
      /\ cache' \in {cache, None} /\ focus' \in {focus, None}
    BY DEF Outside, CacheExpires, FocusExpires, RedisFails, RedisBack, vars, service, redis,
           history, counters
<1>3. \A L : IsBoard(L)' => IsBoard(L)
    BY <1>2 DEF IsBoard
<1>4. \A L : \A s \in Session : IsBoard(L)' => Copied(L, s)
    BY <1>3, OldBoard
<1>5. sessions' >= sessions
    BY <1>1, <1>2 DEF CountType
<1> QED BY <1>1, <1>2, <1>4, <1>5, QuietKeepsLog

LEMMA LogInit == Init => LogInv
<1> SUFFICES ASSUME Init, NEW s \in Session PROVE OnePlace(s)
    BY DEF LogInv, Init
<1>1. \A g \in Handler : pc[g] = "idle" /\ req[g].list = None
    BY DEF Init, NoReq
<1>2. \A L : IsBoard(L) => L = vault
    BY <1>1 DEF IsBoard, Init
<1>3. \A t \in Task : ~On(vault, t, s)
    BY DEF Init, On, NewNote
<1>4. \A L, t : IsBoard(L) /\ t \in Task => ~On(L, t, s)
    BY <1>2, <1>3
<1>5. ~Held(s) /\ \A g \in Handler : ~Logging(g, s)
    BY <1>1 DEF Held, Clearing, Logging, Init
<1> QED BY <1>4, <1>5 DEF OnePlace, OnOneTask, OnOnce, OneLogs, LogsAlone, NotYetOn

LEMMA LogStep == Shape /\ LogInv /\ [Next]_vars => LogInv'
<1> SUFFICES ASSUME Shape, LogInv, [Next]_vars PROVE LogInv'
    OBVIOUS
<1>1. CountType'
    BY ShapeStep DEF Shape
<1>2. ASSUME NEW h \in Handler, Moves(h) PROVE LogInv'
    BY <1>1, <1>2, MovesKeepLog, SaveKeepsLog, StopKeepsLog, ClearKeepsLog
<1>3. ASSUME NEW h \in Handler, Writes(h) PROVE LogInv'
    BY <1>1, <1>3, WritesKeepLog
<1>4. ASSUME NEW t \in Task, Edit(t) PROVE LogInv'
    BY <1>1, <1>4, EditKeepsLog
<1>5. CASE Outside
    BY <1>1, <1>5, OutsideKeepsLog
<1> QED BY <1>2, <1>3, <1>4, <1>5, NextCases

(* A session in one place is logged once, on one task. *)
LEMMA LoggedOnceMade == Shape /\ LogInv => LoggedOnce
<1> SUFFICES ASSUME Shape, LogInv, ~overlap, NEW s \in Session, NEW t \in Notes, NEW u \in Notes
             PROVE  /\ vault[t].timeEntries[s] <= 1
                    /\ vault[t].timeEntries[s] + vault[u].timeEntries[s] > 1 => t = u
    BY DEF LoggedOnce
<1>1. OnOneTask(s) /\ OnOnce(s) /\ IsBoard(vault)
    BY DEF LogInv, OnePlace, IsBoard
<1>2. t \in Task /\ u \in Task /\ vault[t] \in Note /\ vault[u] \in Note
    BY DEF Notes, Shape, VaultType
<1>3. vault[t].timeEntries[s] \in Nat /\ vault[u].timeEntries[s] \in Nat
    BY <1>2 DEF Note
<1>4. vault[t] # None /\ vault[u] # None
    BY <1>2, NoneApart
<1>5. /\ On(vault, t, s) => vault[t].timeEntries[s] = 1
      /\ On(vault, u, s) => vault[u].timeEntries[s] = 1
      /\ On(vault, t, s) /\ On(vault, u, s) => t = u
    BY <1>1, <1>2 DEF OnOneTask, OnOnce
<1>6. /\ vault[t].timeEntries[s] # 0 => vault[t].timeEntries[s] = 1
      /\ vault[u].timeEntries[s] # 0 => vault[u].timeEntries[s] = 1
      /\ vault[t].timeEntries[s] # 0 /\ vault[u].timeEntries[s] # 0 => t = u
    BY <1>4, <1>5 DEF On
<1> DEFINE a == vault[t].timeEntries[s]
           b == vault[u].timeEntries[s]
<1>7. /\ a \in Nat /\ b \in Nat
      /\ (a # 0 => a = 1) /\ (b # 0 => b = 1) /\ (a # 0 /\ b # 0 => t = u)
    BY <1>3, <1>6
<1> HIDE DEF a, b
<1>8. a <= 1
    BY <1>7
<1>9. a + b > 1 => a # 0 /\ b # 0
    BY <1>7
<1> QED BY <1>7, <1>8, <1>9 DEF a, b

-----------------------------------------------------------------------------
(* The invariant and what it gives.                                        *)

BoxInv == Shape /\ ConvertInv /\ FreshInv /\ LogInv

(* The inductive invariant: well formed requests and notes, the tasks made *)
(* for the email, the lists with no reason to be stale, the one place of   *)
(* each focus session.                                                     *)
THEOREM BoxInvariant == Spec => []BoxInv
<1>1. Init => BoxInv
    BY ShapeInit, ConvertInit, FreshInit, LogInit DEF BoxInv
<1>2. BoxInv /\ [Next]_vars => BoxInv'
    BY ShapeStep, ConvertStep, FreshStep, LogStep DEF BoxInv
<1> QED BY <1>1, <1>2, PTL DEF Spec

(* Notes, requests and the email are well formed; an email is taken off    *)
(* the list only with a task that was made for it (convert_to_task).       *)
THEOREM BoxCorrect == Spec => []Inv
<1>1. BoxInv => Inv
    BY ShapeTypes DEF BoxInv, ConvertInv, Inv
<1> QED BY <1>1, BoxInvariant, PTL

(* No path but the known ones leaves an old list to be served (list_tasks, *)
(* projectbox_cache.invalidate).                                           *)
THEOREM FreshBoxCorrect == Spec => []FreshUnlessRaced
<1>1. BoxInv => FreshUnlessRaced
    BY DEF BoxInv, FreshInv
<1> QED BY <1>1, BoxInvariant, PTL

(* An email becomes one task, unless conversions overlap, an answer is     *)
(* lost or the pairing is rolled back (convert_to_task).                   *)
THEOREM OneTaskCorrect == Spec => []OneTask
<1>1. BoxInv => OneTask
    BY OneTaskMade DEF BoxInv
<1> QED BY <1>1, BoxInvariant, PTL

(* The time of a focus session is logged at most once, on one task, unless *)
(* two stops overlap (focus_service.stop).                                 *)
THEOREM LoggedOnceCorrect == Spec => []LoggedOnce
<1>1. BoxInv => LoggedOnce
    BY LoggedOnceMade DEF BoxInv
<1> QED BY <1>1, BoxInvariant, PTL

(* An update whose list had no reason to be stale changes one field of one *)
(* note (update_task).                                                     *)
THEOREM UpdateCorrect == Spec => UpdateKeepsRest
<1> DEFINE Kept ==
        \A h \in Handler :
            /\ pc[h] = "call" /\ req[h].op = "update" /\ ~req[h].list.stale
            /\ vault' # vault /\ pc'[h] # "call"
            => vault' = [vault EXCEPT ![req[h].task].status = "done"]
<1>1. BoxInv /\ [Next]_vars => [Kept]_vars
    <2> SUFFICES ASSUME BoxInv, [Next]_vars PROVE Kept
        OBVIOUS
    <2>1. Shape /\ FreshInv
        BY DEF BoxInv
    <2> QED BY <2>1, UpdateStep
<1>2. Spec => [][Kept]_vars
    BY <1>1, BoxInvariant, PTL DEF Spec
<1> QED BY <1>2 DEF UpdateKeepsRest
=============================================================================
