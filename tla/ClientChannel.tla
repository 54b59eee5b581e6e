--------------------------- MODULE ClientChannel ---------------------------
(***************************************************************************)
(* The outbound pipe of one browser client (class _ClientChannel of        *)
(* services/synapse_hub.py): a bounded queue filled by offer(), which      *)
(* never blocks, and drained by one sender task that awaits                *)
(* websocket.send_json.                                                    *)
(*                                                                         *)
(* Under backpressure a text chunk is appended to the chunk frame of the   *)
(* same run that is still queued, a status snapshot replaces the queued    *)
(* one of the same key, and a control frame that does not fit closes the   *)
(* client.  Frames are mutable objects addressed from two dictionaries, so *)
(* the model keeps object identities (Frame), the objects (obj) and the    *)
(* two dictionaries of references.                                         *)
(***************************************************************************)
EXTENDS Naturals, Sequences, FiniteSets

CONSTANTS
    Run,          \* (agentId, runId) keys of chunk frames
    Agent,        \* agents with a status of their own
    All,          \* the "__all__" key of status_all snapshots
    Frame,        \* identities of frame objects
    None,         \* no frame
    Capacity,     \* CLIENT_QUEUE_MAXSIZE
    MaxDeltas,    \* bound: deltas offered per run
    MaxStatuses,  \* bound: status snapshots offered
    MaxControls   \* bound: control frames offered

StatusKey == Agent \cup {All}

ASSUME ChannelAssumption ==
    /\ Capacity \in Nat \ {0}
    /\ {MaxDeltas, MaxStatuses, MaxControls} \subseteq Nat
    /\ None \notin Frame
    /\ All \notin Agent

ASSUME FiniteKeys == IsFiniteSet(Run) /\ IsFiniteSet(Agent)

VARIABLES
    queue,         \* self.queue: references to the queued frames
    obj,           \* the frame each reference names
    queuedChunks,  \* self._queued_chunks: Run -> reference or None
    queuedStatus,  \* self._queued_status: StatusKey -> reference or None
    sending,       \* the frame send_json is writing, or None
    closed,        \* self.closed; the sender task runs exactly while it is FALSE
    socket,        \* the websocket: open, gone (the peer left), closing, closed
    offered,       \* Run -> number of deltas offered (history)
    accepted,      \* Run -> the deltas that were not dropped (history)
    dropped,       \* Run -> STATS["client_chunk_drops"], split by run
    statusNo,      \* number of status snapshots offered (history)
    marks,         \* per control frame, what had been accepted before it (history)
    wText,         \* Run -> the deltas handed to the socket (history)
    wStatus,       \* StatusKey -> number of the last snapshot handed over (history)
    wControl,      \* the control frames handed to the socket (history)
    view           \* Agent -> number of the snapshot the browser shows (history)

dicts == <<queuedChunks, queuedStatus>>
history == <<offered, accepted, dropped, statusNo, marks>>
written == <<wText, wStatus, wControl, view>>
vars == <<queue, obj, dicts, sending, closed, socket, history, written>>

Chunk(r, text) == [kind |-> "chunk", key |-> r, text |-> text, no |-> 0]
Status(k, n)   == [kind |-> "status", key |-> k, text |-> <<>>, no |-> n]
Control(n)     == [kind |-> "control", key |-> None, text |-> <<>>, no |-> n]
Blank          == [kind |-> "blank", key |-> None, text |-> <<>>, no |-> 0]

Object ==
    [kind : {"chunk", "status", "control", "blank"},
     key : Run \cup StatusKey \cup {None}, text : Seq(Nat), no : Nat]

Queued == {queue[i] : i \in 1..Len(queue)}

(* A reference some part of the program still holds. *)
Held ==
    Queued \cup {sending} \cup {queuedChunks[r] : r \in Run}
           \cup {queuedStatus[k] : k \in StatusKey}

(* The object a new frame gets; which free one it is makes no difference. *)
NewFrames == IF Frame \subseteq Held THEN {} ELSE {CHOOSE f \in Frame : f \notin Held}

Full == Len(queue) >= Capacity

Init ==
    /\ queue = <<>>
    /\ obj = [f \in Frame |-> Blank]
    /\ queuedChunks = [r \in Run |-> None]
    /\ queuedStatus = [k \in StatusKey |-> None]
    /\ sending = None
    /\ closed = FALSE
    /\ socket = "open"
    /\ offered = [r \in Run |-> 0]
    /\ accepted = [r \in Run |-> <<>>]
    /\ dropped = [r \in Run |-> 0]
    /\ statusNo = 0
    /\ marks = <<>>
    /\ wText = [r \in Run |-> <<>>]
    /\ wStatus = [k \in StatusKey |-> 0]
    /\ wControl = <<>>
    /\ view = [a \in Agent |-> 0]

-----------------------------------------------------------------------------
(* The defects the properties are measured against: each is a form of the  *)
(* definition it is named after that a plausible mistake would give.       *)

CoalesceReplaces(r, d) ==
    /\ queuedChunks[r] # None
    /\ obj' = [obj EXCEPT ![queuedChunks[r]].text = <<d>>]
    /\ accepted' = [accepted EXCEPT ![r] = Append(@, d)]
    /\ UNCHANGED <<queue, dicts, dropped>>

UntrackNothing(f) == UNCHANGED dicts

ControlJumpsQueue(n) ==
    /\ ~Full
    /\ \E f \in NewFrames :
         /\ queue' = <<f>> \o queue
         /\ obj' = [obj EXCEPT ![f] = Control(n)]
    /\ UNCHANGED <<closed, socket>>

ControlAlwaysPut(n) ==
    /\ \E f \in NewFrames :
         /\ queue' = Append(queue, f)
         /\ obj' = [obj EXCEPT ![f] = Control(n)]
    /\ UNCHANGED <<closed, socket>>

PutChunkUntracked(r, d) ==
    /\ queuedChunks[r] = None
    /\ ~Full
    /\ \E f \in NewFrames :
         /\ queue' = Append(queue, f)
         /\ obj' = [obj EXCEPT ![f] = Chunk(r, <<d>>)]
    /\ accepted' = [accepted EXCEPT ![r] = Append(@, d)]
    /\ UNCHANGED <<dicts, dropped>>

ShutdownWithoutClose ==
    /\ closed' = TRUE
    /\ UNCHANGED socket
-----------------------------------------------------------------------------
(* offer(): the three kinds of frame.  It returns at once when closed.     *)

(* _offer_chunk: append to the queued frame of the run, in place. *)
CoalesceChunk(r, d) ==
    /\ queuedChunks[r] # None
    /\ obj' = [obj EXCEPT ![queuedChunks[r]].text = Append(@, d)]
    /\ accepted' = [accepted EXCEPT ![r] = Append(@, d)]
    /\ UNCHANGED <<queue, dicts, dropped>>

(* _offer_chunk: queue a private copy and remember it for coalescing. *)
PutChunk(r, d) ==
    /\ queuedChunks[r] = None
    /\ ~Full
    /\ \E f \in NewFrames :
         /\ queue' = Append(queue, f)
         /\ obj' = [obj EXCEPT ![f] = Chunk(r, <<d>>)]
         /\ queuedChunks' = [queuedChunks EXCEPT ![r] = f]
    /\ accepted' = [accepted EXCEPT ![r] = Append(@, d)]
    /\ UNCHANGED <<queuedStatus, dropped>>

(* _offer_chunk: QueueFull, the delta is dropped and counted. *)
DropChunk(r) ==
    /\ queuedChunks[r] = None
    /\ Full
    /\ dropped' = [dropped EXCEPT ![r] = @ + 1]
    /\ UNCHANGED <<queue, obj, dicts, accepted>>

OfferChunk(r) ==
    /\ ~closed
    /\ offered[r] < MaxDeltas
    /\ offered' = [offered EXCEPT ![r] = @ + 1]
    /\ \/ CoalesceChunk(r, offered[r] + 1)
       \/ PutChunk(r, offered[r] + 1)
       \/ DropChunk(r)
    /\ UNCHANGED <<sending, closed, socket, statusNo, marks, written>>

(* _offer_status: replace the queued snapshot of the key, in place. *)
ReplaceStatus(k, n) ==
    /\ queuedStatus[k] # None
    /\ obj' = [obj EXCEPT ![queuedStatus[k]].no = n]
    /\ UNCHANGED <<queue, dicts>>

PutStatus(k, n) ==
    /\ queuedStatus[k] = None
    /\ ~Full
    /\ \E f \in NewFrames :
         /\ queue' = Append(queue, f)
         /\ obj' = [obj EXCEPT ![f] = Status(k, n)]
         /\ queuedStatus' = [queuedStatus EXCEPT ![k] = f]
    /\ UNCHANGED queuedChunks

(* _offer_status: QueueFull, the snapshot is ignored. *)
IgnoreStatus(k) ==
    /\ queuedStatus[k] = None
    /\ Full
    /\ UNCHANGED <<queue, obj, dicts>>

OfferStatus(k) ==
    /\ ~closed
    /\ statusNo < MaxStatuses
    /\ statusNo' = statusNo + 1
    /\ \/ ReplaceStatus(k, statusNo + 1)
       \/ PutStatus(k, statusNo + 1)
       \/ IgnoreStatus(k)
    /\ UNCHANGED <<sending, closed, socket, offered, accepted, dropped, marks, written>>

(* shutdown() up to its first await: the sender is cancelled and a task    *)
(* that closes the websocket is created.                                   *)
CancelAndClose ==
    /\ closed' = TRUE
    /\ socket' = IF socket = "open" THEN "closing" ELSE socket

(* _offer_control: put_nowait. *)
PutControl(n) ==
    /\ ~Full
    /\ \E f \in NewFrames :
         /\ queue' = Append(queue, f)
         /\ obj' = [obj EXCEPT ![f] = Control(n)]
    /\ UNCHANGED <<closed, socket>>

(* _offer_control: QueueFull, the client is shut down. *)
ForceClose(n) ==
    /\ Full
    /\ CancelAndClose
    /\ UNCHANGED <<queue, obj>>

OfferControl ==
    /\ ~closed
    /\ Len(marks) < MaxControls
    /\ marks' = Append(marks, [r \in Run |-> Len(accepted[r])])
    /\ \/ PutControl(Len(marks) + 1)
       \/ ForceClose(Len(marks) + 1)
    /\ UNCHANGED <<dicts, sending, offered, accepted, dropped, statusNo, written>>

-----------------------------------------------------------------------------
(* The sender task.                                                        *)

(* _untrack: forget the reference if it is this very frame. *)
Untrack(f) ==
    /\ queuedChunks' = [r \in Run |-> IF queuedChunks[r] = f THEN None ELSE queuedChunks[r]]
    /\ queuedStatus' = [k \in StatusKey |->
                          IF queuedStatus[k] = f THEN None ELSE queuedStatus[k]]

(* What the browser makes of a frame: it applies frames in the order they  *)
(* arrive, and a status_all snapshot sets every agent (synapse.js).        *)
Deliver(o) ==
    /\ wText' = IF o.kind = "chunk" THEN [wText EXCEPT ![o.key] = @ \o o.text] ELSE wText
    /\ wStatus' = IF o.kind = "status" THEN [wStatus EXCEPT ![o.key] = o.no] ELSE wStatus
    /\ view' = [a \in Agent |->
                  IF o.kind = "status" /\ o.key \in {a, All} THEN o.no ELSE view[a]]
    /\ wControl' = IF o.kind = "control" THEN Append(wControl, o.no) ELSE wControl

(* queue.get(), _untrack and the synchronous part of send_json, which      *)
(* serializes the frame: there is no await between them.                   *)
Get ==
    /\ ~closed
    /\ sending = None
    /\ queue # <<>>
    /\ sending' = Head(queue)
    /\ queue' = Tail(queue)
    /\ Untrack(Head(queue))
    /\ Deliver(obj[Head(queue)])
    /\ UNCHANGED <<obj, closed, socket, history>>

(* send_json returned: the frame object is garbage. *)
SendDone ==
    /\ ~closed
    /\ sending # None
    /\ sending' = None
    /\ obj' = [obj EXCEPT ![sending] = Blank]
    /\ UNCHANGED <<queue, dicts, closed, socket, history, written>>

(* send_json raised because the peer is gone: the sender stops and marks   *)
(* the channel closed; it does not close the websocket.                    *)
SendFails ==
    /\ ~closed
    /\ sending # None
    /\ socket # "open"
    /\ closed' = TRUE
    /\ UNCHANGED <<queue, obj, dicts, sending, socket, history, written>>

(* shutdown() called by the connection manager: eviction, disconnect, stop. *)
Shutdown ==
    /\ ~closed
    /\ CancelAndClose
    /\ UNCHANGED <<queue, obj, dicts, sending, history, written>>

(* The task created by shutdown(): await websocket.close(), errors         *)
(* suppressed.                                                             *)
CloseSocket ==
    /\ socket = "closing"
    /\ socket' = "closed"
    /\ UNCHANGED <<queue, obj, dicts, sending, closed, history, written>>

(* The browser goes away on its own. *)
PeerGone ==
    /\ socket = "open"
    /\ socket' = "gone"
    /\ UNCHANGED <<queue, obj, dicts, sending, closed, history, written>>

Next ==
    \/ \E r \in Run : OfferChunk(r)
    \/ \E k \in StatusKey : OfferStatus(k)
    \/ OfferControl
    \/ Get
    \/ SendDone
    \/ SendFails
    \/ Shutdown
    \/ CloseSocket
    \/ PeerGone

Spec == Init /\ [][Next]_vars

(* The event loop keeps running the sender and the close task, and a write *)
(* either completes or fails (the server's ping timeout ends a dead peer). *)
Fairness ==
    /\ WF_vars(Get)
    /\ WF_vars(SendDone \/ SendFails)
    /\ WF_vars(CloseSocket)

FairSpec == Spec /\ Fairness

-----------------------------------------------------------------------------
(* Properties.                                                             *)

(* Type invariant: what __init__ (synapse_hub.py:332-344) declares, with    *)
(* the queue inside its bound and every reference to a frame or to None.   *)
TypeOK ==
    /\ queue \in Seq(Frame)
    /\ Len(queue) <= Capacity
    /\ obj \in [Frame -> Object]
    /\ queuedChunks \in [Run -> Frame \cup {None}]
    /\ queuedStatus \in [StatusKey -> Frame \cup {None}]
    /\ sending \in Frame \cup {None}
    /\ closed \in BOOLEAN
    /\ socket \in {"open", "gone", "closing", "closed"}
    /\ offered \in [Run -> Nat]
    /\ accepted \in [Run -> Seq(Nat)]
    /\ dropped \in [Run -> Nat]
    /\ statusNo \in Nat
    /\ marks \in Seq([Run -> Nat])
    /\ wText \in [Run -> Seq(Nat)]
    /\ wStatus \in [StatusKey -> Nat]
    /\ wControl \in Seq(Nat)
    /\ view \in [Agent -> Nat]

ChunkQueued(r)  == queuedChunks[r] \in Queued /\ obj[queuedChunks[r]].kind = "chunk"
                     /\ obj[queuedChunks[r]].key = r
StatusQueued(k) == queuedStatus[k] \in Queued /\ obj[queuedStatus[k]].kind = "status"
                     /\ obj[queuedStatus[k]].key = k

(* The two dictionaries name exactly the chunk and status frames that are  *)
(* still in the queue: "a tracked frame is guaranteed not to have been     *)
(* serialized yet" (comment at synapse_hub.py:337-339), and no frame of a  *)
(* run or key sits in the queue untracked, which would let a second one    *)
(* for the same run queue up behind it.                                    *)
TrackingExact ==
    /\ \A r \in Run : queuedChunks[r] # None => ChunkQueued(r)
    /\ \A k \in StatusKey : queuedStatus[k] # None => StatusQueued(k)
    /\ \A f \in Queued :
         /\ obj[f].kind = "chunk" => queuedChunks[obj[f].key] = f
         /\ obj[f].kind = "status" => queuedStatus[obj[f].key] = f
    /\ sending \notin Queued

PendingText(r) == IF queuedChunks[r] = None THEN <<>> ELSE obj[queuedChunks[r]].text

(* Coalescing is lossless (docstring at synapse_hub.py:326): for each run  *)
(* the text handed to the socket followed by the text still queued is the  *)
(* text accepted, each delta once and in order, and the only deltas not    *)
(* accepted are the ones counted in client_chunk_drops.                    *)
TextConserved ==
    \A r \in Run :
      /\ wText[r] \o PendingText(r) = accepted[r]
      /\ offered[r] = Len(accepted[r]) + dropped[r]
      /\ \A i \in 1..Len(accepted[r]) : \A j \in 1..(i - 1) : accepted[r][j] < accepted[r][i]

QueuedControls == {f \in Queued : obj[f].kind = "control"}

(* Control frames are never dropped (synapse_hub.py:327-329): while the    *)
(* channel is open every control frame offered was either handed over or   *)
(* is queued, and they are handed over in the order they were offered.     *)
ControlNeverLost ==
    /\ \A i \in 1..Len(wControl) : wControl[i] = i
    /\ ~closed => Len(wControl) + Cardinality(QueuedControls) = Len(marks)

(* Text accepted before a control frame reaches the socket before it: a    *)
(* reply's last deltas never arrive after the message that replaces the    *)
(* streaming bubble.                                                       *)
TextBeforeControl ==
    \A i \in 1..Len(wControl) : \A r \in Run :
        marks[wControl[i]][r] <= Len(wText[r])

(* Only a flood of control frames wedges a client ("a client whose queue   *)
(* fills with control frames is force-closed"): however fast the runs      *)
(* stream, a full queue holds control frames but for one frame per key.    *)
WedgedByControlOnly ==
    Full => Cardinality(QueuedControls) + Cardinality(Run) + Cardinality(StatusKey) >= Capacity

(* The browser's view of an agent never goes back to an older snapshot:    *)
(* what the docstring's "status/status_all snapshots are replaced          *)
(* latest-wins" (synapse_hub.py:326-327) says of the two kinds together.   *)
ViewNeverRegresses == [][\A a \in Agent : view'[a] >= view[a]]_vars

(* Nothing accepted is stranded: every control frame and every accepted    *)
(* delta reaches the socket, unless the socket itself ends, in which case  *)
(* the browser reconnects and reloads the history.                         *)
SocketEnded == socket \in {"gone", "closed"}
NothingStranded ==
    /\ \A n \in 1..MaxControls : (Len(marks) >= n) ~> (Len(wControl) >= n \/ SocketEnded)
    /\ \A r \in Run : \A n \in 1..MaxDeltas :
         (Len(accepted[r]) >= n) ~> (Len(wText[r]) >= n \/ SocketEnded)

-----------------------------------------------------------------------------
(* The refinement.                                                         *)

PendingStatus(k) == IF queuedStatus[k] = None THEN 0 ELSE obj[queuedStatus[k]].no

Contract == INSTANCE ClientContract WITH
    pendText    <- [r \in Run |-> PendingText(r)],
    gotText     <- wText,
    lost        <- dropped,
    pendControl <- [i \in 1..Cardinality(QueuedControls) |-> Len(wControl) + i],
    gotControl  <- wControl,
    latest      <- statusNo,
    pendStatus  <- [k \in StatusKey |-> PendingStatus(k)],
    gotStatus   <- wStatus,
    open        <- ~closed

(* The channel implements the contract of ClientContract: queueing,        *)
(* in-place coalescing and the sender task are invisible to the hub but    *)
(* for what the contract allows.                                           *)
ImplementsContract == Contract!Spec
=============================================================================
