----------------------------- MODULE ProjectBox -----------------------------
(***************************************************************************)
(* Tasks in Project-Box, an outside service over a directory of notes: the *)
(* client with its cached list (services/projectbox_client.py, cache/      *)
(* projectbox_cache.py, api/routers/projectbox.py and tasks.py), the email *)
(* that becomes a task (email_service.convert_to_task), and the focus      *)
(* session that logs its time on one (services/focus_service.py, cache/    *)
(* focus_cache.py).                                                        *)
(*                                                                         *)
(* A request is a line of awaited steps: load the list, fetch it, store    *)
(* it, call the service, invalidate the list, write the email or the       *)
(* session.  Any other request, an edit of the notes by hand, the end of   *)
(* an entry's time to live and an outage of Redis fall between two steps.  *)
(***************************************************************************)
EXTENDS Naturals, FiniteSets

CONSTANTS
    Handler,     \* requests under way
    Task,        \* file names Project-Box can give
    First,       \* the task that is there at the start
    None,
    MaxRequests, \* bound: requests
    MaxSessions, \* bound: focus sessions
    MaxEdits,    \* bound: edits of a note outside the program
    MaxFaults    \* bound: calls without an answer, outages of Redis

Session == 1 .. MaxSessions

(* A note, and the list of all of them as it was fetched.                  *)
Note == [status : {"open", "done"}, content : Nat, timeEntries : [Session -> Nat]]
TaskList == [tasks : [Task -> Note \cup {None}], stale : BOOLEAN]

ASSUME ProjectBoxAssumption ==
    /\ First \in Task
    /\ None \notin Task \cup Session
    /\ None \notin Note \cup TaskList \cup [session : Session, task : Task]
    /\ {MaxRequests, MaxSessions, MaxEdits, MaxFaults} \subseteq Nat

VARIABLES
    (* Project-Box *)
    vault,    \* Task -> its note, or None
    unused,   \* file names not yet given
    (* requests *)
    pc,       \* Handler -> idle, fetch, store, call, answered, pair, save, clear
    req,      \* Handler -> what the request is and has read
    (* Redis *)
    up,
    cache,    \* the cached list or None
    focus,    \* the focus session or None
    (* PostgreSQL *)
    email,    \* converted_to_task and projectbox_filename of a triaged email
    (* history *)
    made,     \* tasks created for the email
    excused,  \* a conversion overlapped another, or failed after its create
    overlap,  \* two stops overlapped
    requests, sessions, edits, faults

service == <<vault, unused>>
redis == <<up, cache, focus>>
history == <<made, excused, overlap>>
counters == <<requests, sessions, edits, faults>>
vars == <<service, pc, req, redis, email, history, counters>>

(* A new note: the field an update sets, one it leaves alone, and how      *)
(* often the time of each focus session is logged in it.                   *)
NewNote == [status |-> "open", content |-> 0, timeEntries |-> [s \in Session |-> 0]]

(* A list as it was fetched.  It is stale on known grounds when a write    *)
(* came in while it was under way, an answer was lost, the notes were      *)
(* edited by hand, or Redis was away when it should have been dropped.     *)
List(tasks, stale) == [tasks |-> tasks, stale |-> stale]

NoReq == [op |-> "none", task |-> None, list |-> None, session |-> None]

Init ==
    /\ vault = [t \in Task |-> IF t = First THEN NewNote ELSE None]
    /\ unused = Task \ {First}
    /\ pc = [h \in Handler |-> "idle"]
    /\ req = [h \in Handler |-> NoReq]
    /\ up = TRUE
    /\ cache = None
    /\ focus = None
    /\ email = [converted |-> FALSE, task |-> None]
    /\ made = {}
    /\ excused = FALSE
    /\ overlap = FALSE
    /\ requests = 0
    /\ sessions = 0
    /\ edits = 0
    /\ faults = 0

Requested == requests < MaxRequests /\ requests' = requests + 1
Fails == faults < MaxFaults /\ faults' = faults + 1
Busy(op) == {h \in Handler : req[h].op = op}

Becomes(h, where, what) ==
    /\ pc' = [pc EXCEPT ![h] = where]
    /\ req' = [req EXCEPT ![h] = IF where = "idle" THEN NoReq ELSE what]

Over(h) == Becomes(h, "idle", NoReq)

(* Writes that Project-Box has made and whose requests have yet to drop    *)
(* the cached list.                                                        *)
Unpublished == {h \in Handler : pc[h] = "answered"}

Stale(list) == IF list = None THEN None ELSE [list EXCEPT !.stale = TRUE]

-----------------------------------------------------------------------------
(* list_tasks: the cached list, or a fresh one that is stored.             *)

(* Where a request goes with the list it has: get_task finds the task or   *)
(* answers 404.                                                            *)
WithList(h, r) ==
    IF r.op = "list" \/ r.list.tasks[r.task] = None
    THEN Over(h)
    ELSE Becomes(h, IF r.op = "update" THEN "call" ELSE "save", r)

Loads(h, op, t) ==
    LET r == [NoReq EXCEPT !.op = op, !.task = t] IN
    /\ pc[h] = "idle"
    /\ Requested
    /\ \/ /\ up /\ cache # None
          /\ WithList(h, [r EXCEPT !.list =
                 List(cache.tasks, cache.stale \/ Unpublished # {})])
       \/ /\ ~up \/ cache = None \/ op = "list" \* no_cache
          /\ Becomes(h, "fetch", r)
    /\ UNCHANGED <<service, redis, email, history, sessions, edits, faults>>

(* The requests that begin with the list: the list itself, an update of a  *)
(* task, the start of a focus session on one.                              *)
ListTasks(h) == Loads(h, "list", None)
UpdateTask(h, t) == Loads(h, "update", t)
StartFocus(h, t) == Loads(h, "start", t)

Fetch(h) ==
    /\ pc[h] = "fetch"
    /\ \/ /\ Becomes(h, "store", [req[h] EXCEPT !.list = List(vault, FALSE)])
          /\ UNCHANGED faults
       \/ /\ Fails
          /\ Over(h)
    /\ UNCHANGED <<service, redis, email, history, requests, sessions, edits>>

Store(h) ==
    /\ pc[h] = "store"
    /\ cache' = IF up THEN req[h].list ELSE cache
    /\ WithList(h, req[h])
    /\ UNCHANGED <<service, up, focus, email, history, counters>>

-----------------------------------------------------------------------------
(* Calls that write.                                                       *)

(* Defect: only what the caller supplies is sent. *)
PatchOnly(h) == [NewNote EXCEPT !.status = "done"]

(* Project-Box rewrites the whole note: what was read and the new status.  *)
Merged(h) == [req[h].list.tasks[req[h].task] EXCEPT !.status = "done"]

(* What Project-Box answers with 404. *)
Refused(h) ==
    /\ req[h].op \in {"update", "archive", "stop"}
    /\ vault[req[h].task] = None

(* The notes after the write, and the task it is about. *)
Written(h) ==
    LET t == req[h].task IN
    CASE req[h].op \in {"create", "convert"} ->
            {<<[vault EXCEPT ![u] = NewNote], u>> : u \in unused}
      [] req[h].op = "update" -> {<<[vault EXCEPT ![t] = Merged(h)], t>>}
      [] req[h].op = "archive" -> {<<[vault EXCEPT ![t] = None], t>>}
      [] req[h].op = "stop" ->
            {<<[vault EXCEPT ![t].timeEntries[req[h].session] = @ + 1], t>>}

(* The answer comes, or it is lost: for the program both a lost answer and *)
(* a call that was never received mean that Project-Box is offline.        *)
Answered(h, t) ==
    /\ pc' = [pc EXCEPT ![h] = "answered"]
    /\ req' = [g \in Handler |->
         IF g = h THEN [req[h] EXCEPT !.task = t, !.list = None]
         ELSE [req[g] EXCEPT !.list = Stale(@)]]
    /\ UNCHANGED <<cache, excused, faults>>

Lost(h) ==
    /\ Fails
    /\ pc' = [pc EXCEPT ![h] = "idle"]
    /\ req' = [g \in Handler |-> IF g = h THEN NoReq ELSE [req[g] EXCEPT !.list = Stale(@)]]
    /\ cache' = Stale(cache)
    /\ excused' = (excused \/ req[h].op = "convert")

Writes(h) ==
    /\ pc[h] = "call" /\ ~Refused(h)
    /\ \E w \in Written(h) :
        /\ vault' = w[1]
        /\ unused' = unused \ {w[2]}
        /\ made' = IF req[h].op = "convert" THEN made \cup {w[2]} ELSE made
        /\ Answered(h, w[2]) \/ Lost(h)
    /\ UNCHANGED <<up, focus, email, overlap, requests, sessions, edits>>

(* Defect: a conversion goes on although Project-Box is offline. *)
RejectedStillPairs(h) ==
    /\ pc[h] = "call"
    /\ \/ Refused(h) /\ UNCHANGED faults
       \/ Fails
    /\ IF req[h].op = "convert" THEN Becomes(h, "pair", req[h]) ELSE Over(h)
    /\ UNCHANGED <<service, redis, email, history, requests, sessions, edits>>

(* A 404, or nobody is there: nothing is written, and the request ends.    *)
Rejected(h) ==
    /\ pc[h] = "call"
    /\ \/ Refused(h) /\ UNCHANGED faults
       \/ Fails
    /\ Over(h)
    /\ UNCHANGED <<service, redis, email, history, requests, sessions, edits>>

(* Defect: time entries are appended behind the cached list. *)
InvalidateButTime(h) ==
    /\ pc[h] = "answered"
    /\ cache' = IF req[h].op = "stop" THEN cache ELSE IF up THEN None ELSE Stale(cache)
    /\ IF req[h].op = "convert" THEN Becomes(h, "pair", req[h]) ELSE Over(h)
    /\ UNCHANGED <<service, up, focus, email, history, counters>>

(* projectbox_cache.invalidate, which fails quietly without Redis. *)
Invalidate(h) ==
    /\ pc[h] = "answered"
    /\ cache' = IF up THEN None ELSE Stale(cache)
    /\ IF req[h].op = "convert" THEN Becomes(h, "pair", req[h]) ELSE Over(h)
    /\ UNCHANGED <<service, up, focus, email, history, counters>>

Begins(h, op, t) ==
    /\ pc[h] = "idle"
    /\ Requested
    /\ Becomes(h, "call", [NoReq EXCEPT !.op = op, !.task = t])
    /\ UNCHANGED <<service, redis, email, history, sessions, edits, faults>>

Create(h) == Begins(h, "create", None)
Archive(h, t) == Begins(h, "archive", t)

-----------------------------------------------------------------------------
(* convert_to_task.                                                        *)

(* Defect: the pairing that is there is not looked at. *)
ConvertAnyway(h) ==
    /\ pc[h] = "idle"
    /\ Requested
    /\ Becomes(h, "call", [NoReq EXCEPT !.op = "convert"])
    /\ excused' = (excused \/ Busy("convert") # {})
    /\ UNCHANGED <<service, redis, email, made, overlap, sessions, edits, faults>>

Convert(h) ==
    /\ pc[h] = "idle"
    /\ Requested
    /\ ~(email.converted /\ email.task # None)
    /\ Becomes(h, "call", [NoReq EXCEPT !.op = "convert"])
    /\ excused' = (excused \/ Busy("convert") # {})
    /\ UNCHANGED <<service, redis, email, made, overlap, sessions, edits, faults>>

(* The row is written under its lock, today's briefing is invalidated, the *)
(* transaction commits; without Redis the invalidation raises and the      *)
(* pairing is rolled back.                                                 *)
Pairs(h) ==
    /\ pc[h] = "pair"
    /\ email' = IF up THEN [converted |-> TRUE, task |-> req[h].task] ELSE email
    /\ excused' = (excused \/ ~up)
    /\ Over(h)
    /\ UNCHANGED <<service, redis, made, overlap, counters>>

-----------------------------------------------------------------------------
(* The focus session: one key in Redis; without Redis start and stop fail. *)

SaveSession(session) == up /\ focus' = session
ClearSession == focus' = IF up THEN None ELSE focus
GetSession(field) == IF focus = None THEN None ELSE focus[field]

FocusSave(h) ==
    /\ pc[h] = "save"
    /\ \/ /\ sessions < MaxSessions
          /\ sessions' = sessions + 1
          /\ SaveSession([session |-> sessions + 1, task |-> req[h].task])
       \/ ~up /\ UNCHANGED <<sessions, focus>>
    /\ Over(h)
    /\ UNCHANGED <<service, up, cache, email, history, requests, edits, faults>>

FocusStop(h) ==
    /\ pc[h] = "idle"
    /\ up
    /\ Requested
    /\ Becomes(h, "clear",
           [NoReq EXCEPT !.op = "stop", !.session = GetSession("session"),
                         !.task = GetSession("task")])
    /\ overlap' = (overlap \/ \E g \in Handler : pc[g] = "clear")
    /\ UNCHANGED <<service, redis, email, made, excused, sessions, edits, faults>>

(* Defect: the session is not cleared. *)
FocusClearNothing(h) ==
    /\ pc[h] = "clear"
    /\ IF up /\ req[h].session # None THEN Becomes(h, "call", req[h]) ELSE Over(h)
    /\ UNCHANGED <<service, redis, email, history, counters>>

(* Whatever session is there by now is cleared; the one that was read is   *)
(* logged.                                                                 *)
FocusClear(h) ==
    /\ pc[h] = "clear"
    /\ ClearSession
    /\ IF up /\ req[h].session # None THEN Becomes(h, "call", req[h]) ELSE Over(h)
    /\ UNCHANGED <<service, up, cache, email, history, counters>>

-----------------------------------------------------------------------------
(* What happens besides.                                                   *)

(* A note is edited in Obsidian. *)
Edit(t) ==
    /\ vault[t] # None
    /\ edits < MaxEdits
    /\ edits' = edits + 1
    /\ vault' = [vault EXCEPT ![t].content = @ + 1]
    /\ req' = [h \in Handler |-> [req[h] EXCEPT !.list = Stale(@)]]
    /\ cache' = Stale(cache)
    /\ UNCHANGED <<unused, pc, up, focus, email, history, requests, sessions, faults>>

CacheExpires ==
    /\ cache # None
    /\ cache' = None
    /\ UNCHANGED <<service, pc, req, up, focus, email, history, counters>>

FocusExpires ==
    /\ focus # None
    /\ focus' = None
    /\ UNCHANGED <<service, pc, req, up, cache, email, history, counters>>

RedisFails ==
    /\ up
    /\ Fails
    /\ up' = FALSE
    /\ UNCHANGED <<service, pc, req, cache, focus, email, history, requests, sessions, edits>>

RedisBack ==
    /\ ~up
    /\ up' = TRUE
    /\ UNCHANGED <<service, pc, req, cache, focus, email, history, counters>>

-----------------------------------------------------------------------------
Next ==
    \/ \E h \in Handler :
        \/ ListTasks(h)
        \/ \E t \in Task : UpdateTask(h, t) \/ StartFocus(h, t) \/ Archive(h, t)
        \/ Fetch(h) \/ Store(h)
        \/ Create(h) \/ Convert(h) \/ Writes(h) \/ Rejected(h) \/ Invalidate(h)
        \/ Pairs(h)
        \/ FocusSave(h) \/ FocusStop(h) \/ FocusClear(h)
    \/ \E t \in Task : Edit(t)
    \/ CacheExpires \/ FocusExpires \/ RedisFails \/ RedisBack

Spec == Init /\ [][Next]_vars

-----------------------------------------------------------------------------
(* Properties.                                                             *)

(* Types of the notes, the requests and the email; an update that is sent  *)
(* merges a task the list it read has.                                     *)
TypeOK ==
    /\ vault \in [Task -> Note \cup {None}]
    /\ unused \subseteq {t \in Task : vault[t] = None}
    /\ pc \in [Handler -> {"idle", "fetch", "store", "call", "answered", "pair", "save", "clear"}]
    /\ req \in [Handler -> [op : {"none", "list", "update", "create", "archive", "convert",
                                  "start", "stop"},
                            task : Task \cup {None}, list : TaskList \cup {None},
                            session : Session \cup {None}]]
    /\ \A h \in Handler :
        /\ req[h].op = "none" <=> pc[h] = "idle"
        /\ pc[h] = "call" /\ req[h].op = "update" =>
               req[h].list # None /\ req[h].list.tasks[req[h].task] # None
    /\ {up, excused, overlap} \subseteq BOOLEAN
    /\ cache \in TaskList \cup {None}
    /\ focus \in [session : Session, task : Task] \cup {None}
    /\ email \in [converted : BOOLEAN, task : Task \cup {None}]
    /\ made \subseteq Task
    /\ {requests, sessions, edits, faults} \subseteq Nat

(* The cached list is what Project-Box holds, but between a write and its  *)
(* invalidation, and where it is stale on known grounds: no other path     *)
(* leaves an old list to be served.                                        *)
FreshUnlessRaced ==
    cache # None /\ ~cache.stale /\ Unpublished = {} => cache.tasks = vault

(* An update sends the whole note back.  One whose list had no reason to   *)
(* be stale changes nothing but the field it was asked to change: not the  *)
(* content, and no time entry a focus session has logged.                  *)
UpdateKeepsRest ==
    [][\A h \in Handler :
        /\ pc[h] = "call" /\ req[h].op = "update" /\ ~req[h].list.stale
        /\ vault' # vault /\ pc'[h] # "call"
        => vault' = [vault EXCEPT ![req[h].task].status = "done"]]_vars

(* An email is converted once, however often the request is made again:    *)
(* after an offline answer, after its end.  Only overlapping conversions,  *)
(* a lost answer and a rolled back pairing make a second task.             *)
OneTask == ~excused => Cardinality(made) <= 1

(* An email is taken off the list only when a task was made for it.        *)
NeverDropped == email.converted => email.task \in made

(* Notes, requests and the email are well formed, the email paired last.   *)
Inv == TypeOK /\ NeverDropped

(* The time of a focus session is logged at most once, on one task, unless *)
(* two stops overlap.                                                      *)
Notes == {t \in Task : vault[t] # None}
LoggedOnce ==
    ~overlap =>
        \A s \in Session, t, u \in Notes :
            /\ vault[t].timeEntries[s] <= 1
            /\ vault[t].timeEntries[s] + vault[u].timeEntries[s] > 1 => t = u

(* The update merges what it read "so Project-Box's rewrite whole          *)
(* frontmatter semantics don't silently drop unspecified fields".          *)
FieldsKept ==
    [][\A t \in Task : vault[t] # None /\ vault'[t] # None =>
        \A s \in Session : vault'[t].timeEntries[s] >= vault[t].timeEntries[s]]_vars
=============================================================================
