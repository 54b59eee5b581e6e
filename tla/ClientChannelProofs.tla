------------------------ MODULE ClientChannelProofs ------------------------
(* Safety of ClientChannel for every capacity, set of runs and set of keys, *)
(* and its refinement of ClientContract.                                    *)
EXTENDS ClientChannel, SequenceTheorems, FiniteSetTheorems, TLAPS

Elems(s) == {s[i] : i \in 1..Len(s)}
Distinct(s) == \A i, j \in 1..Len(s) : s[i] = s[j] => i = j

(* Appending a new element keeps a sequence free of duplicates. *)
LEMMA AppendDistinct ==
    ASSUME NEW S, NEW s \in Seq(S), NEW e \in S, Distinct(s), e \notin Elems(s)
    PROVE  /\ Distinct(Append(s, e))
           /\ Elems(Append(s, e)) = Elems(s) \cup {e}
  BY DEF Distinct, Elems

(* Taking the head of a duplicate-free sequence removes that element.      *)
LEMMA TailDistinct ==
    ASSUME NEW S, NEW s \in Seq(S), s # <<>>, Distinct(s)
    PROVE  /\ Head(s) \in Elems(s)
           /\ Distinct(Tail(s))
           /\ Elems(Tail(s)) = Elems(s) \ {Head(s)}
<1>1. /\ Len(s) \in Nat /\ Len(s) >= 1
      /\ Head(s) = s[1]
      /\ Tail(s) \in Seq(S) /\ Len(Tail(s)) = Len(s) - 1
      /\ \A i \in 1..Len(Tail(s)) : Tail(s)[i] = s[i + 1]
  OBVIOUS
<1>2. Head(s) \in Elems(s)
  BY <1>1 DEF Elems
<1>3. Distinct(Tail(s))
  BY <1>1 DEF Distinct
<1>4. Elems(Tail(s)) \subseteq Elems(s) \ {Head(s)}
  BY <1>1 DEF Elems, Distinct
<1>5. ASSUME NEW e \in Elems(s), e # Head(s)
      PROVE  e \in Elems(Tail(s))
  <2>1. PICK i \in 1..Len(s) : e = s[i]
    BY DEF Elems
  <2>2. i - 1 \in 1..Len(Tail(s)) /\ Tail(s)[i - 1] = s[i]
    BY <1>1, <1>5, <2>1
  <2>3. QED
    BY <2>1, <2>2 DEF Elems
<1>6. QED
  BY <1>2, <1>3, <1>4, <1>5

-----------------------------------------------------------------------------
(* The frames the program creates are frame objects.                       *)
LEMMA FramesAreObjects ==
    /\ Blank \in Object
    /\ \A n \in Nat : Control(n) \in Object
    /\ \A r \in Run : \A t \in Seq(Nat) : Chunk(r, t) \in Object
    /\ \A k \in StatusKey : \A n \in Nat : Status(k, n) \in Object
  BY DEF Blank, Control, Chunk, Status, Object

(* Mutating a field of a frame object in place leaves a frame object.      *)
LEMMA ObjectUpdate ==
    ASSUME NEW o \in Object
    PROVE  /\ \A t \in Seq(Nat) : [o EXCEPT !.text = t] \in Object
           /\ \A n \in Nat : [o EXCEPT !.no = n] \in Object
  BY DEF Object

(* Appending to a text, and a text of one delta.                           *)
LEMMA TextAppend ==
    ASSUME NEW d \in Nat
    PROVE  /\ <<d>> \in Seq(Nat)
           /\ \A s \in Seq(Nat) : Append(s, d) \in Seq(Nat)
  OBVIOUS

(* Counting an accepted delta keeps the types of the two counts.           *)
LEMMA AcceptTypes ==
    ASSUME TypeOK, NEW r \in Run, NEW d \in Nat,
           accepted' = [accepted EXCEPT ![r] = Append(@, d)],
           offered' = [offered EXCEPT ![r] = d]
    PROVE  accepted' \in [Run -> Seq(Nat)] /\ offered' \in [Run -> Nat]
<1>1. accepted \in [Run -> Seq(Nat)] /\ offered \in [Run -> Nat]
  BY DEF TypeOK
<1>2. Append(accepted[r], d) \in Seq(Nat)
  BY <1>1, TextAppend
<1>3. QED
  BY <1>1, <1>2

(* An allocation returns an object nothing refers to.                      *)
LEMMA NewFramesFree == \A f \in NewFrames : f \in Frame /\ f \notin Held
  BY DEF NewFrames

(* Every variable keeps its type and the queue never exceeds its bound.    *)
LEMMA TypeStep == TypeOK /\ [Next]_vars => TypeOK'
<1> SUFFICES ASSUME TypeOK, [Next]_vars PROVE TypeOK'
  OBVIOUS
<1> USE ChannelAssumption, FramesAreObjects, NewFramesFree
<1>1. ASSUME NEW r \in Run, OfferChunk(r) PROVE TypeOK'
  <2> DEFINE d == offered[r] + 1
  <2>1. d \in Nat
    BY DEF TypeOK
  <2>2. CASE CoalesceChunk(r, d)
    <3> DEFINE q == queuedChunks[r]
               u == [obj[q] EXCEPT !.text = Append(obj[q].text, d)]
    <3>0. q \in Frame /\ obj[q] \in Object
      BY <2>2 DEF TypeOK, CoalesceChunk
    <3>s. obj[q].text \in Seq(Nat)
      BY <3>0 DEF Object
    <3>t. Append(obj[q].text, d) \in Seq(Nat)
      BY <2>1, <3>s, TextAppend
    <3>a. u \in Object
      BY <3>0, <3>t, ObjectUpdate
    <3>b. obj' = [obj EXCEPT ![q] = u]
      BY <2>2 DEF CoalesceChunk
    <3>1. obj' \in [Frame -> Object]
      BY <3>0, <3>a, <3>b DEF TypeOK
    <3>c. accepted' = [accepted EXCEPT ![r] = Append(@, d)] /\ offered' = [offered EXCEPT ![r] = d]
      BY <1>1, <2>2 DEF CoalesceChunk, OfferChunk
    <3>2. accepted' \in [Run -> Seq(Nat)] /\ offered' \in [Run -> Nat]
      BY <2>1, <3>c, AcceptTypes
    <3>3. QED
      BY <1>1, <2>2, <3>1, <3>2 DEF TypeOK, CoalesceChunk, OfferChunk, dicts, written
  <2>3. CASE PutChunk(r, d)
    <3>a. accepted' = [accepted EXCEPT ![r] = Append(@, d)] /\ offered' = [offered EXCEPT ![r] = d]
      BY <1>1, <2>3 DEF PutChunk, OfferChunk
    <3>1. accepted' \in [Run -> Seq(Nat)] /\ offered' \in [Run -> Nat]
      BY <2>1, <3>a, AcceptTypes
    <3>2. PICK f \in NewFrames : /\ queue' = Append(queue, f)
                                 /\ obj' = [obj EXCEPT ![f] = Chunk(r, <<d>>)]
                                 /\ queuedChunks' = [queuedChunks EXCEPT ![r] = f]
      BY <2>3 DEF PutChunk
    <3>c. Chunk(r, <<d>>) \in Object
      BY <2>1, TextAppend, FramesAreObjects
    <3>3. obj' \in [Frame -> Object] /\ queuedChunks' \in [Run -> Frame \cup {None}]
      BY <3>2, <3>c DEF TypeOK
    <3>4. queue' \in Seq(Frame) /\ Len(queue') <= Capacity
      BY <2>3, <3>2 DEF TypeOK, PutChunk, Full
    <3>5. QED
      BY <1>1, <2>3, <3>1, <3>3, <3>4 DEF TypeOK, PutChunk, OfferChunk, written
  <2>4. CASE DropChunk(r)
    <3>1. dropped' \in [Run -> Nat] /\ offered' \in [Run -> Nat]
      BY <1>1, <2>1, <2>4 DEF TypeOK, DropChunk, OfferChunk
    <3>2. QED
      BY <1>1, <2>4, <3>1 DEF TypeOK, DropChunk, OfferChunk, dicts, written
  <2>5. QED
    BY <1>1, <2>2, <2>3, <2>4 DEF OfferChunk
<1>2. ASSUME NEW k \in StatusKey, OfferStatus(k) PROVE TypeOK'
  <2> DEFINE n == statusNo + 1
  <2>1. n \in Nat
    BY DEF TypeOK
  <2>2. CASE ReplaceStatus(k, n)
    <3> DEFINE q == queuedStatus[k]
               u == [obj[q] EXCEPT !.no = n]
    <3>0. q \in Frame /\ obj[q] \in Object
      BY <2>2 DEF TypeOK, ReplaceStatus
    <3>a. u \in Object
      BY <2>1, <3>0, ObjectUpdate
    <3>b. obj' = [obj EXCEPT ![q] = u]
      BY <2>2 DEF ReplaceStatus
    <3>1. obj' \in [Frame -> Object]
      BY <3>0, <3>a, <3>b DEF TypeOK
    <3>2. QED
      BY <1>2, <2>1, <2>2, <3>1 DEF TypeOK, ReplaceStatus, OfferStatus, dicts, written
  <2>3. CASE PutStatus(k, n)
    <3>1. PICK f \in NewFrames : /\ queue' = Append(queue, f)
                                 /\ obj' = [obj EXCEPT ![f] = Status(k, n)]
                                 /\ queuedStatus' = [queuedStatus EXCEPT ![k] = f]
      BY <2>3 DEF PutStatus
    <3>2. obj' \in [Frame -> Object] /\ queuedStatus' \in [StatusKey -> Frame \cup {None}]
      BY <2>1, <3>1 DEF TypeOK
    <3>3. queue' \in Seq(Frame) /\ Len(queue') <= Capacity
      BY <2>3, <3>1 DEF TypeOK, PutStatus, Full
    <3>4. QED
      BY <1>2, <2>1, <2>3, <3>2, <3>3 DEF TypeOK, PutStatus, OfferStatus, written
  <2>4. CASE IgnoreStatus(k)
    BY <1>2, <2>1, <2>4 DEF TypeOK, IgnoreStatus, OfferStatus, dicts, written
  <2>5. QED
    BY <1>2, <2>2, <2>3, <2>4 DEF OfferStatus
<1>3. CASE OfferControl
  <2> DEFINE n == Len(marks) + 1
  <2>1. n \in Nat /\ marks' \in Seq([Run -> Nat])
    BY <1>3 DEF TypeOK, OfferControl
  <2>2. CASE PutControl(n)
    <3>1. PICK f \in NewFrames : /\ queue' = Append(queue, f)
                                 /\ obj' = [obj EXCEPT ![f] = Control(n)]
      BY <2>2 DEF PutControl
    <3>2. obj' \in [Frame -> Object]
      BY <2>1, <3>1 DEF TypeOK
    <3>3. queue' \in Seq(Frame) /\ Len(queue') <= Capacity
      BY <2>2, <3>1 DEF TypeOK, PutControl, Full
    <3>4. QED
      BY <1>3, <2>1, <2>2, <3>2, <3>3 DEF TypeOK, PutControl, OfferControl, dicts, written
  <2>3. CASE ForceClose(n)
    BY <1>3, <2>1, <2>3
    DEF TypeOK, ForceClose, CancelAndClose, OfferControl, dicts, written
  <2>4. QED
    BY <1>3, <2>2, <2>3 DEF OfferControl
<1>4. CASE Get
  <2> DEFINE f == Head(queue)
  <2>1. f \in Frame /\ queue' \in Seq(Frame) /\ Len(queue') <= Capacity
    BY <1>4 DEF TypeOK, Get
  <2>2. obj[f] \in Object
    BY <2>1 DEF TypeOK
  <2>3. /\ queuedChunks' \in [Run -> Frame \cup {None}]
        /\ queuedStatus' \in [StatusKey -> Frame \cup {None}]
    BY <1>4 DEF TypeOK, Get, Untrack
  <2>4. /\ wText' \in [Run -> Seq(Nat)]
        /\ wStatus' \in [StatusKey -> Nat]
        /\ wControl' \in Seq(Nat)
        /\ view' \in [Agent -> Nat]
    <3> DEFINE o == obj[f]
    <3>1. o.kind \in {"chunk", "status", "control", "blank"} /\ o.text \in Seq(Nat) /\ o.no \in Nat
      BY <2>2 DEF Object
    <3>2. Deliver(o)
      BY <1>4 DEF Get
    <3> HIDE DEF o, f
    <3>3. wText' \in [Run -> Seq(Nat)]
      <4>1. CASE o.kind = "chunk"
        <5>1. wText' = [r \in Run |-> IF r = o.key THEN wText[r] \o o.text ELSE wText[r]]
          BY <3>2, <4>1 DEF TypeOK, Deliver
        <5>2. \A r \in Run : wText[r] \o o.text \in Seq(Nat)
          BY <3>1 DEF TypeOK
        <5>3. QED
          BY <5>1, <5>2 DEF TypeOK
      <4>2. CASE o.kind # "chunk"
        BY <3>2, <4>2 DEF TypeOK, Deliver
      <4>3. QED
        BY <4>1, <4>2
    <3>4a. wStatus' \in [StatusKey -> Nat]
      BY <3>1, <3>2 DEF TypeOK, Deliver
    <3>4b. wControl' \in Seq(Nat)
      <4>1. Append(wControl, o.no) \in Seq(Nat)
        BY <3>1 DEF TypeOK
      <4>2. QED
        BY <3>2, <4>1 DEF TypeOK, Deliver
    <3>4c. view' \in [Agent -> Nat]
      BY <3>1, <3>2 DEF TypeOK, Deliver
    <3>4. wStatus' \in [StatusKey -> Nat] /\ wControl' \in Seq(Nat) /\ view' \in [Agent -> Nat]
      BY <3>4a, <3>4b, <3>4c
    <3>5. QED
      BY <3>3, <3>4
  <2>5. QED
    BY <1>4, <2>1, <2>3, <2>4 DEF TypeOK, Get, history
<1>5. CASE SendDone
  BY <1>5 DEF TypeOK, SendDone, dicts, history, written
<1>6. CASE SendFails
  BY <1>6 DEF TypeOK, SendFails, dicts, history, written
<1>7. CASE Shutdown
  BY <1>7 DEF TypeOK, Shutdown, CancelAndClose, dicts, history, written
<1>8. CASE CloseSocket
  BY <1>8 DEF TypeOK, CloseSocket, dicts, history, written
<1>9. CASE PeerGone
  BY <1>9 DEF TypeOK, PeerGone, dicts, history, written
<1>10. CASE UNCHANGED vars
  BY <1>10 DEF TypeOK, vars, dicts, history, written
<1>11. QED
  BY <1>1, <1>2, <1>3, <1>4, <1>5, <1>6, <1>7, <1>8, <1>9, <1>10 DEF Next

(* The constructor leaves every variable in its type.                      *)
LEMMA TypeInit == Init => TypeOK
<1> SUFFICES ASSUME Init PROVE TypeOK
  OBVIOUS
<1>1. queue \in Seq(Frame) /\ Len(queue) <= Capacity
  BY ChannelAssumption DEF Init
<1>2. obj \in [Frame -> Object]
  BY FramesAreObjects DEF Init
<1>3. /\ queuedChunks \in [Run -> Frame \cup {None}]
      /\ queuedStatus \in [StatusKey -> Frame \cup {None}]
      /\ sending \in Frame \cup {None}
      /\ closed \in BOOLEAN
      /\ socket \in {"open", "gone", "closing", "closed"}
  BY DEF Init
<1>4. /\ offered \in [Run -> Nat]
      /\ accepted \in [Run -> Seq(Nat)]
      /\ dropped \in [Run -> Nat]
      /\ statusNo \in Nat
      /\ marks \in Seq([Run -> Nat])
  BY DEF Init
<1>5. /\ wText \in [Run -> Seq(Nat)]
      /\ wStatus \in [StatusKey -> Nat]
      /\ wControl \in Seq(Nat)
      /\ view \in [Agent -> Nat]
  BY DEF Init
<1>6. QED
  BY <1>1, <1>2, <1>3, <1>4, <1>5 DEF TypeOK

(* The type invariant holds in every reachable state of every instance.    *)
THEOREM TypeCorrect == Spec => []TypeOK
  BY TypeInit, TypeStep, PTL DEF Spec


-----------------------------------------------------------------------------
(* The dictionaries name exactly the queued frames: the invariant needs    *)
(* that no frame is queued twice and that frames carry keys of their kind. *)
Tracking ==
    /\ TrackingExact
    /\ Distinct(queue)
    /\ \A f \in Queued :
         /\ obj[f].kind = "chunk" => obj[f].key \in Run
         /\ obj[f].kind = "status" => obj[f].key \in StatusKey

(* The queued references are the elements of the queue.                    *)
LEMMA QueuedIsElems == Queued = Elems(queue) /\ Queued' = Elems(queue')
  BY DEF Queued, Elems

(* Putting a new frame of the right shape at the end keeps Tracking, given *)
(* that exactly its own key, if it has one, is redirected to it.           *)
LEMMA PutKeepsTracking ==
    ASSUME TypeOK, Tracking, NEW f \in NewFrames, NEW o \in Object,
           queue' = Append(queue, f),
           obj' = [obj EXCEPT ![f] = o],
           UNCHANGED sending,
           \/ /\ o.kind = "control"
              /\ UNCHANGED <<queuedChunks, queuedStatus>>
           \/ /\ o.kind = "chunk" /\ o.key \in Run
              /\ queuedChunks[o.key] = None
              /\ queuedChunks' = [queuedChunks EXCEPT ![o.key] = f]
              /\ UNCHANGED queuedStatus
           \/ /\ o.kind = "status" /\ o.key \in StatusKey
              /\ queuedStatus[o.key] = None
              /\ queuedStatus' = [queuedStatus EXCEPT ![o.key] = f]
              /\ UNCHANGED queuedChunks
    PROVE  Tracking'
<1> USE ChannelAssumption
<1>1. /\ f \in Frame /\ f \notin Queued /\ f # sending /\ f # None
      /\ \A r \in Run : queuedChunks[r] # f
      /\ \A k \in StatusKey : queuedStatus[k] # f
  BY NewFramesFree DEF Held
<1>2. Distinct(queue') /\ Queued' = Queued \cup {f}
  BY <1>1, AppendDistinct, QueuedIsElems DEF TypeOK, Tracking
<1>3. /\ Queued \subseteq Frame
      /\ obj'[f] = o
      /\ \A g \in Frame : g # f => obj'[g] = obj[g]
  BY <1>1 DEF TypeOK, Queued
<1>4. sending' \notin Queued'
  BY <1>1, <1>2 DEF Tracking, TrackingExact
<1>5. \A r \in Run : queuedChunks'[r] # None => ChunkQueued(r)'
  <2> SUFFICES ASSUME NEW r \in Run, queuedChunks'[r] # None
               PROVE  ChunkQueued(r)'
    OBVIOUS
  <2>1. CASE queuedChunks'[r] = f
    BY <1>1, <1>2, <1>3, <2>1 DEF ChunkQueued, TypeOK
  <2>2. CASE queuedChunks'[r] # f
    <3>1. queuedChunks'[r] = queuedChunks[r]
      BY <2>2 DEF TypeOK
    <3>2. ChunkQueued(r)
      BY <3>1 DEF Tracking, TrackingExact
    <3>3. QED
      BY <1>1, <1>2, <1>3, <3>1, <3>2 DEF ChunkQueued
  <2>3. QED
    BY <2>1, <2>2
<1>6. \A k \in StatusKey : queuedStatus'[k] # None => StatusQueued(k)'
  <2> SUFFICES ASSUME NEW k \in StatusKey, queuedStatus'[k] # None
               PROVE  StatusQueued(k)'
    OBVIOUS
  <2>1. CASE queuedStatus'[k] = f
    BY <1>1, <1>2, <1>3, <2>1 DEF StatusQueued, TypeOK
  <2>2. CASE queuedStatus'[k] # f
    <3>1. queuedStatus'[k] = queuedStatus[k]
      BY <2>2 DEF TypeOK
    <3>2. StatusQueued(k)
      BY <3>1 DEF Tracking, TrackingExact
    <3>3. QED
      BY <1>1, <1>2, <1>3, <3>1, <3>2 DEF StatusQueued
  <2>3. QED
    BY <2>1, <2>2
<1>7. ASSUME NEW g \in Queued'
      PROVE  /\ obj'[g].kind = "chunk" =>
                  obj'[g].key \in Run /\ queuedChunks'[obj'[g].key] = g
             /\ obj'[g].kind = "status" =>
                  obj'[g].key \in StatusKey /\ queuedStatus'[obj'[g].key] = g
  <2>1. CASE g = f
    <3>1. obj'[g] = o
      BY <1>3, <2>1
    <3>2. o.kind = "chunk" => o.key \in Run /\ queuedChunks'[o.key] = f
      BY DEF TypeOK
    <3>3. o.kind = "status" => o.key \in StatusKey /\ queuedStatus'[o.key] = f
      BY DEF TypeOK
    <3>4. QED
      BY <2>1, <3>1, <3>2, <3>3
  <2>2. CASE g # f
    <3>1. g \in Queued /\ obj'[g] = obj[g]
      BY <1>2, <1>3, <1>7, <2>2
    <3>2. obj[g].kind = "chunk" => obj[g].key \in Run /\ queuedChunks[obj[g].key] = g
      BY <3>1 DEF Tracking, TrackingExact
    <3>3. obj[g].kind = "status" => obj[g].key \in StatusKey /\ queuedStatus[obj[g].key] = g
      BY <3>1 DEF Tracking, TrackingExact
    <3>4. g # None
      BY <1>3, <3>1
    <3>5. QED
      BY <3>1, <3>2, <3>3, <3>4 DEF TypeOK
  <2>3. QED
    BY <2>1, <2>2
<1>8. QED
  BY <1>2, <1>4, <1>5, <1>6, <1>7 DEF Tracking, TrackingExact

(* A step that leaves queue, dictionaries and sender alone and neither     *)
(* moves nor retypes a queued frame keeps Tracking.                        *)
LEMMA MutationKeepsTracking ==
    ASSUME Tracking, UNCHANGED <<queue, queuedChunks, queuedStatus>>,
           sending' \in {sending, None}, None \notin Queued,
           \A f \in Queued : obj'[f].kind = obj[f].kind /\ obj'[f].key = obj[f].key
    PROVE  Tracking'
<1>1. Queued' = Queued
  BY DEF Queued
<1>2. \A r \in Run : queuedChunks'[r] # None => ChunkQueued(r)'
  BY <1>1 DEF Tracking, TrackingExact, ChunkQueued
<1>3. \A k \in StatusKey : queuedStatus'[k] # None => StatusQueued(k)'
  BY <1>1 DEF Tracking, TrackingExact, StatusQueued
<1>4. QED
  BY <1>1, <1>2, <1>3 DEF Tracking, TrackingExact, Distinct

(* Writing into the text or the number of a frame leaves its kind and key. *)
LEMMA EditKeepsShape ==
    ASSUME TypeOK, NEW q \in Frame,
           \/ \E t : obj' = [obj EXCEPT ![q] = [obj[q] EXCEPT !.text = t]]
           \/ \E n : obj' = [obj EXCEPT ![q] = [obj[q] EXCEPT !.no = n]]
    PROVE  \A f \in Queued : obj'[f].kind = obj[f].kind /\ obj'[f].key = obj[f].key
<1> SUFFICES ASSUME NEW f \in Queued
             PROVE  obj'[f].kind = obj[f].kind /\ obj'[f].key = obj[f].key
  OBVIOUS
<1>1. f \in Frame /\ obj \in [Frame -> Object] /\ obj[q] \in Object
  BY DEF TypeOK, Queued
<1>2. CASE \E t : obj' = [obj EXCEPT ![q] = [obj[q] EXCEPT !.text = t]]
  <2>1. PICK t : obj' = [obj EXCEPT ![q] = [obj[q] EXCEPT !.text = t]]
    BY <1>2
  <2>2. obj'[f] = IF f = q THEN [obj[q] EXCEPT !.text = t] ELSE obj[f]
    BY <1>1, <2>1
  <2>3. QED
    BY <1>1, <2>2 DEF Object
<1>3. CASE \E n : obj' = [obj EXCEPT ![q] = [obj[q] EXCEPT !.no = n]]
  <2>1. PICK n : obj' = [obj EXCEPT ![q] = [obj[q] EXCEPT !.no = n]]
    BY <1>3
  <2>2. obj'[f] = IF f = q THEN [obj[q] EXCEPT !.no = n] ELSE obj[f]
    BY <1>1, <2>1
  <2>3. QED
    BY <1>1, <2>2 DEF Object
<1>4. QED
  BY <1>2, <1>3

(* The sender taking a frame keeps Tracking: _untrack forgets exactly it.  *)
LEMMA GetKeepsTracking ==
    ASSUME TypeOK, Tracking, Get
    PROVE  /\ Tracking'
           /\ Head(queue) \in Queued
           /\ \A r \in Run : queuedChunks'[r] =
                IF queuedChunks[r] = Head(queue) THEN None ELSE queuedChunks[r]
<1> USE ChannelAssumption
<1> DEFINE h == Head(queue)
<1>1. /\ h \in Queued
      /\ Distinct(queue')
      /\ Queued' = Queued \ {h}
  BY TailDistinct, QueuedIsElems DEF TypeOK, Tracking, Get
<1>2. Queued \subseteq Frame
  BY DEF TypeOK, Queued
<1>3. /\ \A r \in Run : queuedChunks'[r] =
                IF queuedChunks[r] = h THEN None ELSE queuedChunks[r]
      /\ \A k \in StatusKey : queuedStatus'[k] =
                IF queuedStatus[k] = h THEN None ELSE queuedStatus[k]
      /\ obj' = obj /\ sending' = h
  BY DEF Get, Untrack
<1> HIDE DEF h
<1>4. \A r \in Run : queuedChunks'[r] # None => ChunkQueued(r)'
  BY <1>1, <1>3 DEF Tracking, TrackingExact, ChunkQueued
<1>5. \A k \in StatusKey : queuedStatus'[k] # None => StatusQueued(k)'
  BY <1>1, <1>3 DEF Tracking, TrackingExact, StatusQueued
<1>6. \A f \in Queued' :
         /\ obj'[f].kind = "chunk" => obj'[f].key \in Run /\ queuedChunks'[obj'[f].key] = f
         /\ obj'[f].kind = "status" => obj'[f].key \in StatusKey
                                         /\ queuedStatus'[obj'[f].key] = f
  BY <1>1, <1>3 DEF Tracking, TrackingExact
<1>7. Tracking'
  BY <1>1, <1>3, <1>4, <1>5, <1>6 DEF Tracking, TrackingExact
<1>8. QED
  BY <1>1, <1>3, <1>7 DEF h

(* Every step keeps the dictionaries exact.                                *)
LEMMA TrackingStep == TypeOK /\ Tracking /\ [Next]_vars => Tracking'
<1> SUFFICES ASSUME TypeOK, Tracking, [Next]_vars PROVE Tracking'
  OBVIOUS
<1> USE ChannelAssumption
<1>0. Queued \subseteq Frame /\ None \notin Queued
  BY DEF TypeOK, Queued
<1>1. ASSUME NEW r \in Run, OfferChunk(r) PROVE Tracking'
  <2> DEFINE d == offered[r] + 1
  <2>1. d \in Nat
    BY DEF TypeOK
  <2>2. CASE CoalesceChunk(r, d)
    <3>1. queuedChunks[r] \in Frame
      BY <2>2 DEF CoalesceChunk, TypeOK
    <3>a. \E t : obj' = [obj EXCEPT ![queuedChunks[r]] = [obj[queuedChunks[r]] EXCEPT !.text = t]]
      BY <2>2 DEF CoalesceChunk
    <3>2. \A f \in Queued : obj'[f].kind = obj[f].kind /\ obj'[f].key = obj[f].key
      BY <3>1, <3>a, EditKeepsShape
    <3>3. QED
      BY <1>0, <1>1, <2>2, <3>2, MutationKeepsTracking DEF CoalesceChunk, OfferChunk, dicts
  <2>3. CASE PutChunk(r, d)
    <3>1. PICK f \in NewFrames : /\ queue' = Append(queue, f)
                                 /\ obj' = [obj EXCEPT ![f] = Chunk(r, <<d>>)]
                                 /\ queuedChunks' = [queuedChunks EXCEPT ![r] = f]
      BY <2>3 DEF PutChunk
    <3>2. Chunk(r, <<d>>) \in Object
      BY <2>1, TextAppend, FramesAreObjects
    <3>3. Chunk(r, <<d>>).kind = "chunk" /\ Chunk(r, <<d>>).key = r
      BY DEF Chunk
    <3>4. QED
      BY <1>1, <2>3, <3>1, <3>2, <3>3, PutKeepsTracking DEF PutChunk, OfferChunk
  <2>4. CASE DropChunk(r)
    BY <1>0, <1>1, <2>4, MutationKeepsTracking DEF DropChunk, OfferChunk, dicts
  <2>5. QED
    BY <1>1, <2>2, <2>3, <2>4 DEF OfferChunk
<1>2. ASSUME NEW k \in StatusKey, OfferStatus(k) PROVE Tracking'
  <2> DEFINE n == statusNo + 1
  <2>1. n \in Nat
    BY DEF TypeOK
  <2>2. CASE ReplaceStatus(k, n)
    <3>1. queuedStatus[k] \in Frame
      BY <2>2 DEF ReplaceStatus, TypeOK
    <3>a. obj' = [obj EXCEPT ![queuedStatus[k]] = [obj[queuedStatus[k]] EXCEPT !.no = n]]
      BY <2>2 DEF ReplaceStatus
    <3>2. \A f \in Queued : obj'[f].kind = obj[f].kind /\ obj'[f].key = obj[f].key
      BY <3>1, <3>a, EditKeepsShape
    <3>3. QED
      BY <1>0, <1>2, <2>2, <3>2, MutationKeepsTracking DEF ReplaceStatus, OfferStatus, dicts
  <2>3. CASE PutStatus(k, n)
    <3>1. PICK f \in NewFrames : /\ queue' = Append(queue, f)
                                 /\ obj' = [obj EXCEPT ![f] = Status(k, n)]
                                 /\ queuedStatus' = [queuedStatus EXCEPT ![k] = f]
      BY <2>3 DEF PutStatus
    <3>2. Status(k, n) \in Object
      BY <2>1, FramesAreObjects
    <3>3. Status(k, n).kind = "status" /\ Status(k, n).key = k
      BY DEF Status
    <3>4. QED
      BY <1>2, <2>3, <3>1, <3>2, <3>3, PutKeepsTracking DEF PutStatus, OfferStatus
  <2>4. CASE IgnoreStatus(k)
    BY <1>0, <1>2, <2>4, MutationKeepsTracking DEF IgnoreStatus, OfferStatus, dicts
  <2>5. QED
    BY <1>2, <2>2, <2>3, <2>4 DEF OfferStatus
<1>3. CASE OfferControl
  <2> DEFINE n == Len(marks) + 1
  <2>1. n \in Nat
    BY DEF TypeOK
  <2>2. CASE PutControl(n)
    <3>1. PICK f \in NewFrames : /\ queue' = Append(queue, f)
                                 /\ obj' = [obj EXCEPT ![f] = Control(n)]
      BY <2>2 DEF PutControl
    <3>2. Control(n) \in Object
      BY <2>1, FramesAreObjects
    <3>3. Control(n).kind = "control"
      BY DEF Control
    <3>4. QED
      BY <1>3, <3>1, <3>2, <3>3, PutKeepsTracking DEF OfferControl, dicts
  <2>3. CASE ForceClose(n)
    BY <1>0, <1>3, <2>3, MutationKeepsTracking DEF ForceClose, OfferControl, dicts
  <2>4. QED
    BY <1>3, <2>2, <2>3 DEF OfferControl
<1>4. CASE Get
  BY <1>4, GetKeepsTracking
<1>5. CASE SendDone
  <2>1. sending \notin Queued /\ sending \in Frame
    BY <1>5 DEF Tracking, TrackingExact, SendDone, TypeOK
  <2>2. \A f \in Queued : obj'[f] = obj[f]
    BY <1>0, <1>5, <2>1 DEF SendDone, TypeOK
  <2>3. QED
    BY <1>0, <1>5, <2>2, MutationKeepsTracking DEF SendDone, dicts
<1>6. CASE SendFails \/ Shutdown \/ CloseSocket \/ PeerGone \/ UNCHANGED vars
  BY <1>0, <1>6, MutationKeepsTracking
  DEF SendFails, Shutdown, CloseSocket, PeerGone, vars, dicts
<1>7. QED
  BY <1>1, <1>2, <1>3, <1>4, <1>5, <1>6 DEF Next

(* Nothing is queued and nothing tracked at first.                         *)
LEMMA TrackingInit == Init => Tracking
  BY DEF Init, Tracking, TrackingExact, Distinct, Queued

(* A tracked frame is always still in the queue, every queued chunk or     *)
(* status frame is tracked, and the frame being written is neither.        *)
THEOREM TrackingCorrect == Spec => []TrackingExact
<1>1. Tracking => TrackingExact
  BY DEF Tracking
<1>2. QED
  BY <1>1, TrackingInit, TrackingStep, TypeCorrect, PTL DEF Spec

-----------------------------------------------------------------------------
(* Text: what the socket got, then what is pending, is what was accepted.  *)
Increasing(s) == \A i \in 1..Len(s) : \A j \in 1..(i - 1) : s[j] < s[i]

TextInv ==
    \A r \in Run :
      /\ wText[r] \o PendingText(r) = accepted[r]
      /\ offered[r] = Len(accepted[r]) + dropped[r]
      /\ Increasing(accepted[r])
      /\ \A i \in 1..Len(accepted[r]) : accepted[r][i] <= offered[r]

(* Appending one delta to the second of two texts appends it to both.      *)
LEMMA ConcatAppend ==
    ASSUME NEW s \in Seq(Nat), NEW t \in Seq(Nat), NEW d \in Nat
    PROVE  /\ s \o Append(t, d) = Append(s \o t, d)
           /\ s \o <<d>> = Append(s, d)
           /\ s \o <<>> = s
<1>1. <<d>> \in Seq(Nat)
  BY TextAppend
<1>2. Append(t, d) = t \o <<d>> /\ Append(s, d) = s \o <<d>>
  BY AppendIsConcat, Zenon
<1>3. s \o t \in Seq(Nat)
  BY ConcatProperties, Zenon
<1>4. Append(s \o t, d) = (s \o t) \o <<d>>
  BY <1>3, AppendIsConcat, Zenon
<1>5. (s \o t) \o <<d>> = s \o (t \o <<d>>)
  BY <1>1, ConcatAssociative, SMT
<1>6. s \o <<>> = s
  BY ConcatEmptySeq, Zenon
<1>7. QED
  BY <1>2, <1>4, <1>5, <1>6, Zenon

(* Accepting the next delta keeps the accepted deltas increasing.          *)
LEMMA AppendIncreasing ==
    ASSUME NEW s \in Seq(Nat), NEW n \in Nat, Increasing(s),
           \A i \in 1..Len(s) : s[i] <= n
    PROVE  /\ Increasing(Append(s, n + 1))
           /\ \A i \in 1..Len(Append(s, n + 1)) : Append(s, n + 1)[i] <= n + 1
           /\ Len(Append(s, n + 1)) = Len(s) + 1
  BY DEF Increasing

(* The text waiting in the queue is a sequence of deltas.                  *)
LEMMA PendingIsText ==
    ASSUME TypeOK, NEW r \in Run PROVE PendingText(r) \in Seq(Nat)
  BY DEF TypeOK, PendingText, Object

(* A step that accepts one delta of one run and leaves the socket alone.   *)
LEMMA AcceptKeepsText ==
    ASSUME TypeOK, TextInv, NEW r \in Run, NEW d \in Nat, d = offered[r] + 1,
           offered' = [offered EXCEPT ![r] = d],
           accepted' = [accepted EXCEPT ![r] = Append(@, d)],
           UNCHANGED <<dropped, wText>>,
           PendingText(r)' = Append(PendingText(r), d),
           \A s \in Run \ {r} : PendingText(s)' = PendingText(s)
    PROVE  TextInv'
<1>1. /\ offered[r] \in Nat /\ dropped[r] \in Nat
      /\ wText[r] \in Seq(Nat) /\ accepted[r] \in Seq(Nat) /\ PendingText(r) \in Seq(Nat)
  BY PendingIsText DEF TypeOK
<1>2. /\ offered'[r] = d /\ accepted'[r] = Append(accepted[r], d)
      /\ wText'[r] = wText[r] /\ dropped'[r] = dropped[r]
      /\ \A s \in Run \ {r} : /\ offered'[s] = offered[s] /\ accepted'[s] = accepted[s]
                              /\ wText'[s] = wText[s] /\ dropped'[s] = dropped[s]
  BY DEF TypeOK
<1>3. wText[r] \o PendingText(r) = accepted[r]
  BY DEF TextInv
<1>4. wText[r] \o Append(PendingText(r), d) = Append(accepted[r], d)
  <2>1. wText[r] \o Append(PendingText(r), d) = Append(wText[r] \o PendingText(r), d)
    BY <1>1, ConcatAppend
  <2>2. QED
    BY <1>3, <2>1, Zenon
<1>5. /\ Increasing(Append(accepted[r], d))
      /\ \A i \in 1..Len(Append(accepted[r], d)) : Append(accepted[r], d)[i] <= d
      /\ Len(Append(accepted[r], d)) = Len(accepted[r]) + 1
  BY <1>1, AppendIncreasing DEF TextInv
<1>6. offered[r] = Len(accepted[r]) + dropped[r] /\ Len(accepted[r]) \in Nat
  BY <1>1 DEF TextInv
<1>7. d = Len(Append(accepted[r], d)) + dropped[r]
  BY <1>1, <1>5, <1>6
<1>8. ASSUME NEW s \in Run
      PROVE /\ (wText[s] \o PendingText(s) = accepted[s])'
            /\ (offered[s] = Len(accepted[s]) + dropped[s])'
            /\ Increasing(accepted[s])'
            /\ (\A i \in 1..Len(accepted[s]) : accepted[s][i] <= offered[s])'
  <2>1. CASE s = r
    <3>1. /\ wText'[r] \o PendingText(r)' = accepted'[r]
          /\ offered'[r] = Len(accepted'[r]) + dropped'[r]
      BY <1>2, <1>4, <1>7
    <3>2. /\ Increasing(accepted'[r])
          /\ \A i \in 1..Len(accepted'[r]) : accepted'[r][i] <= offered'[r]
      BY <1>2, <1>5, Zenon DEF Increasing
    <3>3. QED
      BY <2>1, <3>1, <3>2, Zenon DEF Increasing
  <2>2. CASE s # r
    <3>1. /\ offered'[s] = offered[s] /\ accepted'[s] = accepted[s]
          /\ wText'[s] = wText[s] /\ dropped'[s] = dropped[s]
          /\ PendingText(s)' = PendingText(s)
      BY <1>2, <2>2
    <3>2. /\ wText[s] \o PendingText(s) = accepted[s]
          /\ offered[s] = Len(accepted[s]) + dropped[s]
          /\ Increasing(accepted[s])
          /\ \A i \in 1..Len(accepted[s]) : accepted[s][i] <= offered[s]
      BY DEF TextInv
    <3>3. QED
      BY <3>1, <3>2, Zenon DEF Increasing
  <2>3. QED
    BY <2>1, <2>2
<1>9. QED
  BY <1>8 DEF TextInv

(* A step that changes no text.                                            *)
LEMMA QuietKeepsText ==
    ASSUME TextInv, UNCHANGED <<offered, accepted, dropped, wText>>,
           \A s \in Run : PendingText(s)' = PendingText(s)
    PROVE  TextInv'
  BY DEF TextInv, Increasing

(* Writing a frame moves the pending text of its run, if it is a chunk, to *)
(* the socket, and touches no other text.                                  *)
LEMMA GetMovesText ==
    ASSUME TypeOK, Tracking, Get, NEW r \in Run
    PROVE  \/ /\ queuedChunks[r] = Head(queue)
              /\ wText'[r] = wText[r] \o PendingText(r)
              /\ PendingText(r)' = <<>>
           \/ /\ queuedChunks[r] # Head(queue)
              /\ wText'[r] = wText[r]
              /\ PendingText(r)' = PendingText(r)
<1> DEFINE h == Head(queue)
<1>0. h \in Queued /\ queuedChunks'[r] = IF queuedChunks[r] = h THEN None ELSE queuedChunks[r]
  BY GetKeepsTracking
<1>a. h \in Frame /\ h # None
  BY <1>0, ChannelAssumption DEF TypeOK, Queued
<1>b. obj' = obj
  BY DEF Get
<1>1. /\ h \in Queued /\ h \in Frame /\ h # None /\ obj' = obj
      /\ queuedChunks'[r] = IF queuedChunks[r] = h THEN None ELSE queuedChunks[r]
  BY <1>0, <1>a, <1>b
<1>2. wText' = IF obj[h].kind = "chunk" THEN [wText EXCEPT ![obj[h].key] = @ \o obj[h].text]
                                        ELSE wText
  BY DEF Get, Deliver
<1>3. obj[h].kind = "chunk" => obj[h].key \in Run /\ queuedChunks[obj[h].key] = h
  BY <1>1 DEF Tracking, TrackingExact
<1>4. queuedChunks[r] = h => obj[h].kind = "chunk" /\ obj[h].key = r
  BY <1>1 DEF Tracking, TrackingExact, ChunkQueued
<1>5. wText \in [Run -> Seq(Nat)]
  BY DEF TypeOK
<1> HIDE DEF h
<1>6. CASE queuedChunks[r] = h
  <2>1. wText'[r] = wText[r] \o obj[h].text
    BY <1>2, <1>4, <1>5, <1>6
  <2>2. PendingText(r) = obj[h].text /\ PendingText(r)' = <<>>
    BY <1>1, <1>6 DEF PendingText
  <2>3. QED
    BY <1>6, <2>1, <2>2 DEF h
<1>7. CASE queuedChunks[r] # h
  <2>1. wText'[r] = wText[r]
    BY <1>2, <1>3, <1>5, <1>7
  <2>2. PendingText(r)' = PendingText(r)
    BY <1>1, <1>7 DEF PendingText
  <2>3. QED
    BY <1>7, <2>1, <2>2 DEF h
<1>8. QED
  BY <1>6, <1>7

(* The sender taking a frame conserves the text of every run.              *)
LEMMA GetKeepsText ==
    ASSUME TypeOK, Tracking, TextInv, Get
    PROVE  TextInv'
<1>1. ASSUME NEW r \in Run
      PROVE  wText'[r] \o PendingText(r)' = wText[r] \o PendingText(r)
  <2>1. /\ wText[r] \in Seq(Nat) /\ PendingText(r) \in Seq(Nat)
        /\ wText[r] \o PendingText(r) \in Seq(Nat)
    BY PendingIsText, ConcatProperties DEF TypeOK
  <2>2. (wText[r] \o PendingText(r)) \o <<>> = wText[r] \o PendingText(r)
    BY <2>1, ConcatEmptySeq
  <2>3. QED
    BY <2>2, GetMovesText, Zenon
<1>2. UNCHANGED <<offered, accepted, dropped>>
  BY DEF Get, history
<1>3. QED
  BY <1>1, <1>2 DEF TextInv, Increasing

(* Appending to the queued frame of one run leaves the others' text alone. *)
LEMMA CoalesceAppends ==
    ASSUME TypeOK, Tracking, NEW r \in Run, NEW d \in Nat, CoalesceChunk(r, d)
    PROVE  /\ PendingText(r)' = Append(PendingText(r), d)
           /\ \A s \in Run \ {r} : PendingText(s)' = PendingText(s)
<1> DEFINE q == queuedChunks[r]
<1>1. q \in Frame /\ q # None /\ queuedChunks' = queuedChunks
  BY DEF CoalesceChunk, TypeOK, dicts
<1>2. obj' = [obj EXCEPT ![q] = [obj[q] EXCEPT !.text = Append(obj[q].text, d)]]
  BY DEF CoalesceChunk
<1>3. obj[q] \in Object
  BY <1>1 DEF TypeOK
<1>4. obj'[q].text = Append(obj[q].text, d)
  BY <1>1, <1>2, <1>3 DEF TypeOK, Object
<1>5. ASSUME NEW s \in Run \ {r}, queuedChunks[s] # None
      PROVE  queuedChunks[s] # q
  BY <1>1, <1>5 DEF Tracking, TrackingExact, ChunkQueued
<1>6. \A f \in Frame : f # q => obj'[f] = obj[f]
  BY <1>2 DEF TypeOK
<1>7. \A s \in Run : queuedChunks[s] # None => queuedChunks[s] \in Frame
  BY DEF TypeOK
<1> HIDE DEF q
<1>8. PendingText(r)' = Append(PendingText(r), d)
  BY <1>1, <1>4 DEF PendingText, q
<1>9. QED
  BY <1>1, <1>5, <1>6, <1>7, <1>8 DEF PendingText

(* Storing a frame in a fresh object changes no pending text.              *)
LEMMA FreshKeepsPending ==
    ASSUME TypeOK, NEW f \in NewFrames, NEW o, obj' = [obj EXCEPT ![f] = o],
           NEW s \in Run, queuedChunks'[s] = queuedChunks[s]
    PROVE  PendingText(s)' = PendingText(s)
  BY NewFramesFree DEF Held, PendingText, TypeOK

(* Counting one more offered and one more dropped keeps the balance and    *)
(* the bound on the accepted deltas.                                       *)
LEMMA LossCounts ==
    ASSUME NEW seq \in Seq(Nat), NEW o \in Nat, NEW l \in Nat, o = Len(seq) + l,
           \A i \in 1..Len(seq) : seq[i] <= o
    PROVE  /\ o + 1 = Len(seq) + (l + 1)
           /\ \A i \in 1..Len(seq) : seq[i] <= o + 1
<1>1. Len(seq) \in Nat
  OBVIOUS
<1>2. ASSUME NEW i \in 1..Len(seq) PROVE seq[i] <= o + 1
  <2>1. seq[i] \in Nat /\ seq[i] <= o
    OBVIOUS
  <2>2. QED
    BY <2>1
<1>3. QED
  BY <1>1, <1>2

(* Every step conserves text.                                              *)
LEMMA TextStep == TypeOK /\ Tracking /\ TextInv /\ [Next]_vars => TextInv'
<1> SUFFICES ASSUME TypeOK, Tracking, TextInv, [Next]_vars PROVE TextInv'
  OBVIOUS
<1> USE ChannelAssumption
<1>1. ASSUME NEW r \in Run, OfferChunk(r) PROVE TextInv'
  <2> DEFINE d == offered[r] + 1
  <2>1. d \in Nat /\ offered' = [offered EXCEPT ![r] = d] /\ wText' = wText
    BY <1>1 DEF TypeOK, OfferChunk, written
  <2>2. CASE CoalesceChunk(r, d)
    <3>1. accepted' = [accepted EXCEPT ![r] = Append(@, d)] /\ dropped' = dropped
      BY <2>2 DEF CoalesceChunk
    <3>2. /\ PendingText(r)' = Append(PendingText(r), d)
          /\ \A s \in Run \ {r} : PendingText(s)' = PendingText(s)
      BY <2>1, <2>2, CoalesceAppends
    <3>3. QED
      BY <2>1, <3>1, <3>2, AcceptKeepsText
  <2>3. CASE PutChunk(r, d)
    <3>1. PICK f \in NewFrames : /\ obj' = [obj EXCEPT ![f] = Chunk(r, <<d>>)]
                                 /\ queuedChunks' = [queuedChunks EXCEPT ![r] = f]
      BY <2>3 DEF PutChunk
    <3>2. accepted' = [accepted EXCEPT ![r] = Append(@, d)] /\ dropped' = dropped
      BY <2>3 DEF PutChunk
    <3>3. \A s \in Run \ {r} : PendingText(s)' = PendingText(s)
      BY <3>1, FreshKeepsPending DEF TypeOK
    <3>4. PendingText(r) = <<>> /\ PendingText(r)' = <<d>>
      BY <2>3, <3>1, NewFramesFree DEF PutChunk, PendingText, TypeOK, Chunk
    <3>5. PendingText(r)' = Append(PendingText(r), d)
      BY <3>4
    <3>6. QED
      BY <2>1, <3>2, <3>3, <3>5, AcceptKeepsText
  <2>4. CASE DropChunk(r)
    <3>1. UNCHANGED <<accepted, queuedChunks, obj>> /\ dropped' = [dropped EXCEPT ![r] = @ + 1]
      BY <2>4 DEF DropChunk, dicts
    <3>2. \A s \in Run : PendingText(s)' = PendingText(s)
      BY <3>1 DEF PendingText
    <3>3. ASSUME NEW s \in Run
          PROVE  /\ wText'[s] \o PendingText(s)' = accepted'[s]
                 /\ offered'[s] = Len(accepted'[s]) + dropped'[s]
                 /\ Increasing(accepted'[s])
                 /\ \A i \in 1..Len(accepted'[s]) : accepted'[s][i] <= offered'[s]
      <4>1. /\ wText'[s] \o PendingText(s)' = accepted'[s]
            /\ Increasing(accepted'[s]) /\ accepted'[s] = accepted[s]
        BY <2>1, <3>1, <3>2 DEF TextInv
      <4>2. offered[s] \in Nat /\ dropped[s] \in Nat /\ accepted[s] \in Seq(Nat)
        BY DEF TypeOK
      <4>3. /\ offered[s] = Len(accepted[s]) + dropped[s]
            /\ \A i \in 1..Len(accepted[s]) : accepted[s][i] <= offered[s]
        BY DEF TextInv
      <4>4. CASE s = r
        <5>1. offered'[s] = offered[s] + 1 /\ dropped'[s] = dropped[s] + 1
          BY <2>1, <3>1, <4>4 DEF TypeOK
        <5>2. /\ offered[s] + 1 = Len(accepted[s]) + (dropped[s] + 1)
              /\ \A i \in 1..Len(accepted[s]) : accepted[s][i] <= offered[s] + 1
          BY <4>2, <4>3, LossCounts
        <5>3. QED
          BY <4>1, <5>1, <5>2, Zenon
      <4>5. CASE s # r
        <5>1. offered'[s] = offered[s] /\ dropped'[s] = dropped[s]
          BY <2>1, <3>1, <4>5 DEF TypeOK
        <5>2. QED
          BY <4>1, <4>3, <5>1, Zenon
      <4>6. QED
        BY <4>4, <4>5
    <3>4. QED
      BY <3>3 DEF TextInv, Increasing
  <2>5. QED
    BY <1>1, <2>2, <2>3, <2>4 DEF OfferChunk
<1>2. ASSUME NEW k \in StatusKey, OfferStatus(k) PROVE TextInv'
  <2> DEFINE n == statusNo + 1
  <2>1. UNCHANGED <<offered, accepted, dropped, wText>>
    BY <1>2 DEF OfferStatus, written
  <2>2. CASE ReplaceStatus(k, n)
    <3>1. queuedStatus[k] \in Frame /\ obj[queuedStatus[k]].kind = "status"
      BY <2>2 DEF ReplaceStatus, TypeOK, Tracking, TrackingExact, StatusQueued
    <3>2. ASSUME NEW s \in Run PROVE PendingText(s)' = PendingText(s)
      <4>1. queuedChunks[s] # None => queuedChunks[s] # queuedStatus[k]
        BY <3>1 DEF Tracking, TrackingExact, ChunkQueued
      <4>2. QED
        BY <2>2, <4>1 DEF ReplaceStatus, TypeOK, PendingText, dicts
    <3>3. QED
      BY <2>1, <3>2, QuietKeepsText
  <2>3. CASE PutStatus(k, n)
    <3>1. \A s \in Run : PendingText(s)' = PendingText(s)
      BY <2>3, FreshKeepsPending DEF PutStatus
    <3>2. QED
      BY <2>1, <3>1, QuietKeepsText
  <2>4. CASE IgnoreStatus(k)
    BY <2>1, <2>4, QuietKeepsText DEF IgnoreStatus, PendingText, dicts
  <2>5. QED
    BY <1>2, <2>2, <2>3, <2>4 DEF OfferStatus
<1>3. CASE OfferControl
  <2>1. UNCHANGED <<offered, accepted, dropped, wText, queuedChunks>>
    BY <1>3 DEF OfferControl, written, dicts
  <2>2. \A s \in Run : PendingText(s)' = PendingText(s)
    BY <1>3, <2>1, FreshKeepsPending DEF OfferControl, PutControl, ForceClose, PendingText
  <2>3. QED
    BY <2>1, <2>2, QuietKeepsText
<1>4. CASE Get
  BY <1>4, GetKeepsText
<1>5. CASE SendDone
  <2>1. sending \notin Queued
    BY DEF Tracking, TrackingExact
  <2>2. \A s \in Run : PendingText(s)' = PendingText(s)
    BY <1>5, <2>1 DEF SendDone, PendingText, TypeOK, Tracking, TrackingExact, ChunkQueued, dicts
  <2>3. QED
    BY <1>5, <2>2, QuietKeepsText DEF SendDone, history, written
<1>6. CASE SendFails \/ Shutdown \/ CloseSocket \/ PeerGone \/ UNCHANGED vars
  BY <1>6, QuietKeepsText
  DEF SendFails, Shutdown, CloseSocket, PeerGone, vars, dicts, history, written, PendingText
<1>7. QED
  BY <1>1, <1>2, <1>3, <1>4, <1>5, <1>6 DEF Next

(* No text has been offered at first.                                      *)
LEMMA TextInit == Init => TextInv
<1> SUFFICES ASSUME Init, NEW r \in Run
             PROVE  /\ wText[r] \o PendingText(r) = accepted[r]
                    /\ offered[r] = Len(accepted[r]) + dropped[r]
                    /\ Increasing(accepted[r])
                    /\ \A i \in 1..Len(accepted[r]) : accepted[r][i] <= offered[r]
  BY DEF TextInv
<1>1. wText[r] = <<>> /\ PendingText(r) = <<>> /\ accepted[r] = <<>>
      /\ offered[r] = 0 /\ dropped[r] = 0
  BY DEF Init, PendingText
<1>2. QED
  BY <1>1 DEF Increasing

(* Coalescing loses, repeats and reorders nothing: per run the text on the *)
(* socket followed by the text in the queue is the text accepted, and what *)
(* was not accepted was counted as dropped.                                *)
THEOREM TextCorrect == Spec => []TextConserved
<1>1. TypeOK /\ Tracking /\ TextInv /\ [Next]_vars => (TypeOK /\ Tracking /\ TextInv)'
  BY TypeStep, TrackingStep, TextStep
<1>2. TextInv => TextConserved
  BY DEF TextInv, TextConserved, Increasing
<1>3. QED
  BY <1>1, <1>2, TypeInit, TrackingInit, TextInit, PTL DEF Spec

-----------------------------------------------------------------------------
(* Order: what keeps control frames numbered in the order of the queue and *)
(* every text a control frame must follow in front of it.                  *)
IsControl(f) == obj[f].kind = "control"
Taken == Len(wControl) + Cardinality(QueuedControls)

(* The control frames in the queue are the next ones, in order, and while  *)
(* the channel is open they are all that were offered.                     *)
ControlInv ==
    /\ \A i \in 1..Len(wControl) : wControl[i] = i
    /\ IsFiniteSet(QueuedControls)
    /\ \A f \in QueuedControls : obj[f].no \in (Len(wControl) + 1)..Taken
    /\ \A n \in (Len(wControl) + 1)..Taken : \E f \in QueuedControls : obj[f].no = n
    /\ \A i, j \in 1..Len(queue) :
         i < j /\ IsControl(queue[i]) /\ IsControl(queue[j])
           => obj[queue[i]].no < obj[queue[j]].no
    /\ Taken <= Len(marks)
    /\ ~closed => Taken = Len(marks)

(* A control frame with no chunk of a run before it in the queue follows   *)
(* text of the run that is all on the socket.                              *)
BarrierInv ==
    /\ \A n \in 1..Len(marks) : \A r \in Run : marks[n][r] <= Len(accepted[r])
    /\ \A i \in 1..Len(wControl) : \A r \in Run : marks[i][r] <= Len(wText[r])
    /\ \A i \in 1..Len(queue) : IsControl(queue[i]) =>
         \A r \in Run : (\A j \in 1..i : queue[j] # queuedChunks[r])
                          => marks[obj[queue[i]].no][r] <= Len(wText[r])

(* Queued frames are no garbage: a chunk has text, a status is numbered.   *)
ShapeInv ==
    \A f \in Queued :
      \/ obj[f].kind = "chunk" /\ obj[f].text # <<>>
      \/ obj[f].kind = "status" /\ obj[f].no \in 1..statusNo
      \/ IsControl(f)

(* What appending a new frame does to the queue and the objects.           *)
LEMMA PutFacts ==
    ASSUME TypeOK, NEW f \in NewFrames, NEW o \in Object,
           queue' = Append(queue, f), obj' = [obj EXCEPT ![f] = o]
    PROVE  /\ f \in Frame /\ f \notin Queued /\ obj'[f] = o
           /\ Len(queue) \in Nat /\ Len(queue') = Len(queue) + 1
           /\ queue'[Len(queue) + 1] = f
           /\ \A i \in 1..Len(queue) : queue'[i] = queue[i] /\ obj'[queue[i]] = obj[queue[i]]
           /\ \A g \in Queued : obj'[g] = obj[g]
           /\ Queued' = Queued \cup {f}
<1>1. f \in Frame /\ f \notin Queued
  BY NewFramesFree DEF Held
<1>2. /\ Len(queue) \in Nat /\ Len(queue') = Len(queue) + 1
      /\ queue'[Len(queue) + 1] = f
      /\ \A i \in 1..Len(queue) : queue'[i] = queue[i]
  BY <1>1 DEF TypeOK
<1>3. Queued \subseteq Frame /\ \A i \in 1..Len(queue) : queue[i] \in Queued
  BY DEF TypeOK, Queued
<1>4. obj'[f] = o /\ \A g \in Frame : g # f => obj'[g] = obj[g]
  BY <1>1 DEF TypeOK
<1>5. Queued' = Queued \cup {f}
  BY <1>2 DEF Queued
<1>6. QED
  BY <1>1, <1>2, <1>3, <1>4, <1>5

(* What taking the head does to the queue.                                 *)
LEMMA GetFacts ==
    ASSUME TypeOK, Tracking, Get
    PROVE  /\ Len(queue) \in Nat \ {0} /\ Len(queue') = Len(queue) - 1
           /\ queue[1] = Head(queue)
           /\ \A i \in 1..Len(queue') : queue'[i] = queue[i + 1]
           /\ Head(queue) \in Queued /\ Queued' = Queued \ {Head(queue)}
           /\ UNCHANGED <<obj, closed, marks, accepted, statusNo>>
<1>1. queue \in Seq(Frame) /\ queue # <<>> /\ queue' = Tail(queue) /\ Distinct(queue)
  BY DEF TypeOK, Get, Tracking
<1>2. Head(queue) \in Queued /\ Queued' = Queued \ {Head(queue)}
  BY <1>1, TailDistinct, QueuedIsElems
<1>3. /\ Len(queue) \in Nat \ {0} /\ Len(queue') = Len(queue) - 1
      /\ queue[1] = Head(queue)
      /\ \A i \in 1..Len(queue') : queue'[i] = queue[i + 1]
  BY <1>1
<1>4. QED
  BY <1>2, <1>3 DEF Get, history

(* A step that leaves the queue alone and rewrites no control frame.       *)
LEMMA EditKeepsControl ==
    ASSUME TypeOK, ControlInv, UNCHANGED <<queue, wControl, marks>>, closed' \in {closed, TRUE},
           \A f \in Queued : /\ obj'[f].kind = obj[f].kind
                             /\ IsControl(f) => obj'[f].no = obj[f].no
    PROVE  ControlInv' /\ QueuedControls' = QueuedControls
<1>1. Queued' = Queued
  BY DEF Queued
<1>2. QueuedControls' = QueuedControls
  BY <1>1 DEF QueuedControls
<1>3. \A f \in QueuedControls : obj'[f].no = obj[f].no
  BY DEF QueuedControls, IsControl
<1>4. Taken' = Taken
  BY <1>2 DEF Taken
<1>5. \A i \in 1..Len(queue) :
         /\ obj'[queue[i]].kind = obj[queue[i]].kind
         /\ obj[queue[i]].kind = "control" => obj'[queue[i]].no = obj[queue[i]].no
  BY DEF Queued, IsControl
<1>6. \A i, j \in 1..Len(queue') :
         i < j /\ IsControl(queue[i])' /\ IsControl(queue[j])'
           => obj'[queue'[i]].no < obj'[queue'[j]].no
  BY <1>5 DEF ControlInv, IsControl
<1>7. Taken <= Len(marks) /\ (~closed' => Taken = Len(marks))
  BY DEF ControlInv, TypeOK
<1>8. QED
  BY <1>2, <1>3, <1>4, <1>6, <1>7 DEF ControlInv

(* Queueing another kind of frame leaves the control frames alone.         *)
LEMMA PutKeepsControl ==
    ASSUME TypeOK, ControlInv, NEW f \in NewFrames, NEW o \in Object, o.kind # "control",
           queue' = Append(queue, f), obj' = [obj EXCEPT ![f] = o],
           UNCHANGED <<wControl, marks, closed>>
    PROVE  ControlInv' /\ QueuedControls' = QueuedControls
<1>p. /\ f \in Frame /\ f \notin Queued /\ obj'[f] = o
      /\ Len(queue) \in Nat /\ Len(queue') = Len(queue) + 1
      /\ queue'[Len(queue) + 1] = f
      /\ \A i \in 1..Len(queue) : queue'[i] = queue[i] /\ obj'[queue[i]] = obj[queue[i]]
      /\ \A g \in Queued : obj'[g] = obj[g]
      /\ Queued' = Queued \cup {f}
  BY PutFacts
<1>1. QueuedControls' = QueuedControls
  BY <1>p DEF QueuedControls
<1>2. Taken' = Taken
  BY <1>1 DEF Taken
<1>3. \A g \in QueuedControls : obj'[g].no = obj[g].no
  BY <1>p DEF QueuedControls
<1>4. ASSUME NEW i \in 1..Len(queue'), NEW j \in 1..Len(queue'), i < j,
             IsControl(queue[i])', IsControl(queue[j])'
      PROVE  obj'[queue'[i]].no < obj'[queue'[j]].no
  <2>1. i # Len(queue) + 1 /\ j # Len(queue) + 1
    BY <1>p, <1>4 DEF IsControl
  <2>2. i \in 1..Len(queue) /\ j \in 1..Len(queue)
    BY <1>p, <2>1
  <2>3. IsControl(queue[i]) /\ IsControl(queue[j])
    BY <1>p, <1>4, <2>2 DEF IsControl
  <2>4. QED
    BY <1>p, <1>4, <2>2, <2>3 DEF ControlInv
<1>5. QED
  BY <1>1, <1>2, <1>3, <1>4 DEF ControlInv

(* A control frame joins the queue with the next number.                   *)
LEMMA PutControlKeepsControl ==
    ASSUME TypeOK, ControlInv, ~closed, NEW f \in NewFrames, NEW n, n = Len(marks) + 1,
           queue' = Append(queue, f), obj' = [obj EXCEPT ![f] = Control(n)],
           UNCHANGED <<wControl, closed>>, Len(marks') = n
    PROVE  /\ ControlInv'
           /\ Cardinality(QueuedControls)' = Cardinality(QueuedControls) + 1
<1>0. n \in Nat /\ Control(n) \in Object /\ Control(n).kind = "control" /\ Control(n).no = n
  BY FramesAreObjects DEF TypeOK, Control
<1>p. /\ f \in Frame /\ f \notin Queued /\ obj'[f] = Control(n)
      /\ Len(queue) \in Nat /\ Len(queue') = Len(queue) + 1
      /\ queue'[Len(queue) + 1] = f
      /\ \A i \in 1..Len(queue) : queue'[i] = queue[i] /\ obj'[queue[i]] = obj[queue[i]]
      /\ \A g \in Queued : obj'[g] = obj[g]
      /\ Queued' = Queued \cup {f}
  BY <1>0, PutFacts
<1> USE <1>0
<1>1. QueuedControls' = QueuedControls \cup {f} /\ f \notin QueuedControls
  BY <1>p DEF QueuedControls
<1>2. /\ IsFiniteSet(QueuedControls')
      /\ Cardinality(QueuedControls') = Cardinality(QueuedControls) + 1
      /\ Cardinality(QueuedControls) \in Nat
  BY <1>1, FS_AddElement, FS_CardinalityType DEF ControlInv
<1>3. Len(wControl) \in Nat /\ Taken \in Nat /\ Taken = Len(marks) /\ Taken' = Taken + 1
  BY <1>2 DEF Taken, TypeOK, ControlInv
<1>4. n = Taken + 1 /\ obj'[f].no = n
  BY <1>p, <1>3
<1>5. \A g \in QueuedControls : obj'[g].no = obj[g].no
  BY <1>p DEF QueuedControls
<1>6. \A g \in QueuedControls' : obj'[g].no \in (Len(wControl) + 1)..Taken'
  BY <1>1, <1>2, <1>3, <1>4, <1>5 DEF ControlInv, Taken
<1>7. ASSUME NEW m \in (Len(wControl) + 1)..Taken'
      PROVE  \E g \in QueuedControls' : obj'[g].no = m
  <2>1. CASE m = n
    BY <1>1, <1>4, <2>1
  <2>2. CASE m # n
    <3>1. m \in (Len(wControl) + 1)..Taken
      BY <1>3, <1>4, <2>2
    <3>2. PICK g \in QueuedControls : obj[g].no = m
      BY <3>1 DEF ControlInv
    <3>3. QED
      BY <1>1, <1>5, <3>2
  <2>3. QED
    BY <2>1, <2>2
<1>8. ASSUME NEW i \in 1..Len(queue'), NEW j \in 1..Len(queue'), i < j,
             IsControl(queue[i])', IsControl(queue[j])'
      PROVE  obj'[queue'[i]].no < obj'[queue'[j]].no
  <2>1. i \in 1..Len(queue) /\ IsControl(queue[i])
    BY <1>p, <1>8 DEF IsControl
  <2>2. queue[i] \in QueuedControls
    BY <2>1 DEF QueuedControls, Queued, IsControl
  <2>3. obj'[queue'[i]].no = obj[queue[i]].no /\ obj[queue[i]].no \in (Len(wControl) + 1)..Taken
    BY <1>p, <2>1, <2>2 DEF ControlInv
  <2>4. CASE j = Len(queue) + 1
    BY <1>p, <1>3, <1>4, <2>3, <2>4
  <2>5. CASE j # Len(queue) + 1
    <3>1. j \in 1..Len(queue) /\ IsControl(queue[j]) /\ obj'[queue'[j]].no = obj[queue[j]].no
      BY <1>p, <1>8, <2>5 DEF IsControl
    <3>2. QED
      BY <1>8, <2>1, <2>3, <3>1 DEF ControlInv
  <2>6. QED
    BY <2>4, <2>5
<1>9. wControl' = wControl /\ Taken' = Len(marks')
  BY <1>3, <1>4
<1>10. \A i \in 1..Len(wControl') : wControl'[i] = i
  BY <1>9 DEF ControlInv
<1>11. \A i, j \in 1..Len(queue') :
         i < j /\ IsControl(queue[i])' /\ IsControl(queue[j])'
           => obj'[queue'[i]].no < obj'[queue'[j]].no
  BY <1>8
<1>12. Taken' <= Len(marks')
  BY <1>3, <1>9
<1>13. QED
  BY <1>2, <1>6, <1>7, <1>9, <1>10, <1>11, <1>12 DEF ControlInv

(* The sender takes control frames in the order of their numbers.          *)
LEMMA GetKeepsControl ==
    ASSUME TypeOK, Tracking, ControlInv, Get
    PROVE  /\ ControlInv'
           /\ \/ /\ IsControl(Head(queue))
                 /\ obj[Head(queue)].no = Len(wControl) + 1
                 /\ wControl' = Append(wControl, Len(wControl) + 1)
                 /\ Cardinality(QueuedControls) \in Nat \ {0}
                 /\ Cardinality(QueuedControls)' = Cardinality(QueuedControls) - 1
              \/ /\ ~IsControl(Head(queue))
                 /\ wControl' = wControl
                 /\ QueuedControls' = QueuedControls
<1> DEFINE h == Head(queue)
<1>1. /\ Len(queue) \in Nat \ {0} /\ Len(queue') = Len(queue) - 1
      /\ queue[1] = h
      /\ \A i \in 1..Len(queue') : queue'[i] = queue[i + 1]
      /\ h \in Queued /\ Queued' = Queued \ {h}
      /\ UNCHANGED <<obj, closed, marks>>
  BY GetFacts
<1>2. wControl' = IF obj[h].kind = "control" THEN Append(wControl, obj[h].no) ELSE wControl
  BY DEF Get, Deliver
<1>3. /\ wControl \in Seq(Nat) /\ Len(wControl) \in Nat
      /\ IsFiniteSet(QueuedControls) /\ Cardinality(QueuedControls) \in Nat
      /\ closed \in BOOLEAN /\ Len(marks) \in Nat
  BY FS_CardinalityType DEF TypeOK, ControlInv
<1> HIDE DEF h
<1>4. QueuedControls' = QueuedControls \ {h} /\ (h \in QueuedControls <=> IsControl(h))
  BY <1>1 DEF QueuedControls, IsControl
<1>5. ASSUME NEW i \in 1..Len(queue'), NEW j \in 1..Len(queue'), i < j,
             IsControl(queue[i])', IsControl(queue[j])'
      PROVE  obj'[queue'[i]].no < obj'[queue'[j]].no
  <2>1. /\ i + 1 \in 1..Len(queue) /\ j + 1 \in 1..Len(queue) /\ i + 1 < j + 1
        /\ IsControl(queue[i + 1]) /\ IsControl(queue[j + 1])
    BY <1>1, <1>5 DEF IsControl
  <2>2. QED
    BY <1>1, <1>5, <2>1 DEF ControlInv
<1>6. CASE ~IsControl(h)
  <2>1. wControl' = wControl /\ QueuedControls' = QueuedControls
    BY <1>2, <1>4, <1>6 DEF IsControl
  <2>2. Taken' = Taken
    BY <2>1 DEF Taken
  <2>3. ControlInv'
    BY <1>1, <1>5, <2>1, <2>2 DEF ControlInv
  <2>4. QED
    BY <1>6, <2>1, <2>3 DEF h
<1>7. CASE IsControl(h)
  <2> DEFINE n == Len(wControl) + 1
  <2>1. /\ h \in QueuedControls
        /\ IsFiniteSet(QueuedControls')
        /\ Cardinality(QueuedControls') = Cardinality(QueuedControls) - 1
        /\ Cardinality(QueuedControls) # 0
    BY <1>3, <1>4, <1>7, FS_RemoveElement, FS_EmptySet
  <2>2. obj[h].no \in n..Taken /\ Taken \in Nat
    BY <1>3, <2>1 DEF ControlInv, Taken
  <2>3. ASSUME NEW g \in QueuedControls, g # h
        PROVE  obj[h].no < obj[g].no
    <3>1. PICK j \in 1..Len(queue) : g = queue[j]
      BY DEF QueuedControls, Queued
    <3>2. j # 1 /\ IsControl(queue[1]) /\ IsControl(queue[j])
      BY <1>1, <1>7, <2>3, <3>1 DEF QueuedControls, IsControl
    <3>3. 1 \in 1..Len(queue) /\ 1 < j
      BY <1>1, <3>2
    <3>4. QED
      BY <1>1, <3>1, <3>2, <3>3 DEF ControlInv
  <2>4. obj[h].no = n
    <3>1. n \in n..Taken
      BY <1>3, <2>2
    <3>2. PICK g \in QueuedControls : obj[g].no = n
      BY <3>1 DEF ControlInv
    <3>3. QED
      BY <1>3, <2>2, <2>3, <3>2
  <2>5. wControl' = Append(wControl, n) /\ Len(wControl') = n
    BY <1>2, <1>3, <1>7, <2>4 DEF IsControl
  <2>6. Taken' = Taken
    BY <1>3, <2>1, <2>5 DEF Taken
  <2>7. \A i \in 1..Len(wControl') : wControl'[i] = i
    BY <1>3, <2>5 DEF ControlInv
  <2>8. \A f \in QueuedControls' : obj'[f].no \in (Len(wControl') + 1)..Taken'
    <3> SUFFICES ASSUME NEW f \in QueuedControls'
                 PROVE  obj[f].no \in (n + 1)..Taken
      BY <1>1, <2>5, <2>6
    <3>1. f \in QueuedControls /\ f # h
      BY <1>4
    <3>2. obj[f].no \in n..Taken /\ n < obj[f].no
      BY <2>3, <2>4, <3>1 DEF ControlInv
    <3>3. QED
      BY <1>3, <2>2, <3>2
  <2>9. \A m \in (Len(wControl') + 1)..Taken' : \E f \in QueuedControls' : obj'[f].no = m
    <3> SUFFICES ASSUME NEW m \in (n + 1)..Taken
                 PROVE  \E f \in QueuedControls' : obj[f].no = m
      BY <1>1, <2>5, <2>6
    <3>1. m \in n..Taken /\ m # n
      BY <1>3, <2>2
    <3>2. PICK f \in QueuedControls : obj[f].no = m
      BY <3>1 DEF ControlInv
    <3>3. f # h
      BY <2>4, <3>1, <3>2
    <3>4. QED
      BY <1>4, <3>2, <3>3
  <2>10. Taken' <= Len(marks') /\ (~closed' => Taken' = Len(marks'))
    BY <1>1, <2>6 DEF ControlInv
  <2>11. ControlInv'
    BY <1>5, <2>1, <2>7, <2>8, <2>9, <2>10 DEF ControlInv
  <2>12. QED
    BY <1>3, <1>7, <2>1, <2>4, <2>5, <2>11 DEF h
<1>8. QED
  BY <1>6, <1>7

(* Coalescing and replacing edit one tracked frame and nothing else.       *)
LEMMA EditFacts ==
    ASSUME TypeOK, Tracking, NEW q \in Frame, NEW u,
           \/ \E r \in Run : q = queuedChunks[r]
           \/ \E k \in StatusKey : q = queuedStatus[k],
           obj' = [obj EXCEPT ![q] = u], u.kind = obj[q].kind
    PROVE  /\ ~IsControl(q) /\ obj'[q] = u
           /\ \A f \in Queued : /\ obj'[f].kind = obj[f].kind
                                /\ f # q => obj'[f] = obj[f]
                                /\ IsControl(f) => obj'[f].no = obj[f].no
<1>1. ~IsControl(q)
  BY ChannelAssumption
  DEF IsControl, Tracking, TrackingExact, ChunkQueued, StatusQueued
<1>2. \A f \in Queued : f \in Frame
  BY DEF TypeOK, Queued
<1>3. obj'[q] = u /\ \A f \in Queued : f # q => obj'[f] = obj[f]
  BY <1>2 DEF TypeOK
<1>4. QED
  BY <1>1, <1>3 DEF IsControl

(* Every step keeps the control frames in order and counted.               *)
LEMMA ControlStep == TypeOK /\ Tracking /\ ControlInv /\ [Next]_vars => ControlInv'
<1> SUFFICES ASSUME TypeOK, Tracking, ControlInv, [Next]_vars PROVE ControlInv'
  OBVIOUS
<1>1. ASSUME NEW r \in Run, OfferChunk(r) PROVE ControlInv'
  <2> DEFINE d == offered[r] + 1
             q == queuedChunks[r]
  <2>1. d \in Nat /\ UNCHANGED <<wControl, marks, closed>>
    BY <1>1 DEF TypeOK, OfferChunk, written
  <2>2. CASE CoalesceChunk(r, d)
    <3>1. /\ q \in Frame /\ queue' = queue
          /\ obj' = [obj EXCEPT ![q] = [obj[q] EXCEPT !.text = Append(obj[q].text, d)]]
          /\ [obj[q] EXCEPT !.text = Append(obj[q].text, d)].kind = obj[q].kind
      BY <2>2 DEF CoalesceChunk, TypeOK, Object
    <3>2. \A f \in Queued : /\ obj'[f].kind = obj[f].kind
                            /\ IsControl(f) => obj'[f].no = obj[f].no
      BY <3>1, EditFacts
    <3>3. QED
      BY <2>1, <3>1, <3>2, EditKeepsControl
  <2>3. CASE PutChunk(r, d)
    <3>1. Chunk(r, <<d>>) \in Object /\ Chunk(r, <<d>>).kind # "control"
      BY <2>1, TextAppend, FramesAreObjects DEF Chunk
    <3>2. QED
      BY <2>1, <2>3, <3>1, PutKeepsControl DEF PutChunk
  <2>4. CASE DropChunk(r)
    BY <2>1, <2>4, EditKeepsControl DEF DropChunk
  <2>5. QED
    BY <1>1, <2>2, <2>3, <2>4 DEF OfferChunk
<1>2. ASSUME NEW k \in StatusKey, OfferStatus(k) PROVE ControlInv'
  <2> DEFINE n == statusNo + 1
             q == queuedStatus[k]
  <2>1. n \in Nat /\ UNCHANGED <<wControl, marks, closed>>
    BY <1>2 DEF TypeOK, OfferStatus, written
  <2>2. CASE ReplaceStatus(k, n)
    <3>1. /\ q \in Frame /\ queue' = queue
          /\ obj' = [obj EXCEPT ![q] = [obj[q] EXCEPT !.no = n]]
          /\ [obj[q] EXCEPT !.no = n].kind = obj[q].kind
      BY <2>2 DEF ReplaceStatus, TypeOK, Object
    <3>2. \A f \in Queued : /\ obj'[f].kind = obj[f].kind
                            /\ IsControl(f) => obj'[f].no = obj[f].no
      BY <3>1, EditFacts
    <3>3. QED
      BY <2>1, <3>1, <3>2, EditKeepsControl
  <2>3. CASE PutStatus(k, n)
    <3>1. Status(k, n) \in Object /\ Status(k, n).kind # "control"
      BY <2>1, FramesAreObjects DEF Status
    <3>2. QED
      BY <2>1, <2>3, <3>1, PutKeepsControl DEF PutStatus
  <2>4. CASE IgnoreStatus(k)
    BY <2>1, <2>4, EditKeepsControl DEF IgnoreStatus
  <2>5. QED
    BY <1>2, <2>2, <2>3, <2>4 DEF OfferStatus
<1>3. CASE OfferControl
  <2> DEFINE n == Len(marks) + 1
  <2>1. ~closed /\ wControl' = wControl /\ Len(marks') = n /\ n \in Nat
    BY <1>3 DEF OfferControl, written, TypeOK
  <2>2. CASE PutControl(n)
    BY <2>1, <2>2, PutControlKeepsControl DEF PutControl
  <2>3. CASE ForceClose(n)
    <3>1. UNCHANGED <<queue, obj, wControl>> /\ closed' = TRUE
      BY <2>1, <2>3 DEF ForceClose, CancelAndClose
    <3>2. Queued' = Queued /\ QueuedControls' = QueuedControls /\ Taken' = Taken
      BY <3>1 DEF Queued, QueuedControls, Taken
    <3>3. Taken \in Nat /\ Taken <= Len(marks')
      BY <2>1, FS_CardinalityType DEF ControlInv, Taken, TypeOK
    <3>4. QED
      BY <3>1, <3>2, <3>3 DEF ControlInv, IsControl
  <2>4. QED
    BY <1>3, <2>2, <2>3 DEF OfferControl
<1>4. CASE Get
  BY <1>4, GetKeepsControl
<1>5. CASE SendDone
  <2>1. \A f \in Queued : f \in Frame /\ f # sending
    BY DEF Tracking, TrackingExact, TypeOK, Queued
  <2>2. \A f \in Queued : obj'[f] = obj[f]
    BY <1>5, <2>1 DEF SendDone, TypeOK
  <2>3. QED
    BY <1>5, <2>2, EditKeepsControl DEF SendDone, history, written
<1>6. CASE SendFails \/ Shutdown \/ CloseSocket \/ PeerGone \/ UNCHANGED vars
  <2>1. UNCHANGED <<queue, obj, wControl, marks>> /\ closed' \in {closed, TRUE}
    BY <1>6
    DEF SendFails, Shutdown, CancelAndClose, CloseSocket, PeerGone, vars, history, written
  <2>2. QED
    BY <2>1, EditKeepsControl
<1>7. QED
  BY <1>1, <1>2, <1>3, <1>4, <1>5, <1>6 DEF Next

(* No frame in the queue is garbage, after any step.                       *)
LEMMA ShapeStep == TypeOK /\ Tracking /\ ShapeInv /\ [Next]_vars => ShapeInv'
<1> SUFFICES ASSUME TypeOK, Tracking, ShapeInv, [Next]_vars PROVE ShapeInv'
  OBVIOUS
<1>0. \A f \in Queued : f \in Frame
  BY DEF TypeOK, Queued
<1>1. ASSUME NEW r \in Run, OfferChunk(r) PROVE ShapeInv'
  <2> DEFINE d == offered[r] + 1
             q == queuedChunks[r]
  <2>1. d \in Nat /\ statusNo' = statusNo
    BY <1>1 DEF TypeOK, OfferChunk
  <2>2. CASE CoalesceChunk(r, d)
    <3> DEFINE u == [obj[q] EXCEPT !.text = Append(obj[q].text, d)]
    <3>a. q \in Frame /\ obj[q] \in Object /\ queue' = queue /\ obj' = [obj EXCEPT ![q] = u]
      BY <2>2 DEF CoalesceChunk, TypeOK
    <3>b. obj[q].kind = "chunk"
      BY <2>2 DEF CoalesceChunk, Tracking, TrackingExact, ChunkQueued
    <3>c. obj[q].text \in Seq(Nat)
      BY <3>a DEF Object
    <3>d. Append(obj[q].text, d) # <<>>
      BY <2>1, <3>c, AppendProperties
    <3>1. /\ q \in Frame /\ queue' = queue
          /\ obj' = [obj EXCEPT ![q] = u]
          /\ u.kind = obj[q].kind /\ obj[q].kind = "chunk"
          /\ u.text # <<>>
      BY <3>a, <3>b, <3>d DEF Object
    <3>2. Queued' = Queued /\ obj'[q] = u /\ \A f \in Queued : f # q => obj'[f] = obj[f]
      BY <1>0, <3>1 DEF Queued, TypeOK
    <3>3. QED
      BY <2>1, <3>1, <3>2 DEF ShapeInv, IsControl
  <2>3. CASE PutChunk(r, d)
    <3> DEFINE o == Chunk(r, <<d>>)
    <3>1. PICK f \in NewFrames : queue' = Append(queue, f) /\ obj' = [obj EXCEPT ![f] = o]
      BY <2>3 DEF PutChunk
    <3>2. o \in Object /\ o.kind = "chunk" /\ o.text # <<>>
      BY <2>1, TextAppend, FramesAreObjects DEF Chunk
    <3>3. Queued' = Queued \cup {f} /\ obj'[f] = o /\ \A g \in Queued : obj'[g] = obj[g]
      BY <3>1, <3>2, PutFacts
    <3>4. QED
      BY <2>1, <3>2, <3>3 DEF ShapeInv, IsControl
  <2>4. CASE DropChunk(r)
    BY <2>1, <2>4 DEF DropChunk, ShapeInv, Queued, IsControl
  <2>5. QED
    BY <1>1, <2>2, <2>3, <2>4 DEF OfferChunk
<1>2. ASSUME NEW k \in StatusKey, OfferStatus(k) PROVE ShapeInv'
  <2> DEFINE n == statusNo + 1
             q == queuedStatus[k]
  <2>1. n \in Nat /\ statusNo' = n /\ n \in 1..n /\ 1..statusNo \subseteq 1..n
    BY <1>2 DEF TypeOK, OfferStatus
  <2>2. CASE ReplaceStatus(k, n)
    <3> DEFINE u == [obj[q] EXCEPT !.no = n]
    <3>1. /\ q \in Frame /\ queue' = queue
          /\ obj' = [obj EXCEPT ![q] = u]
          /\ u.kind = obj[q].kind /\ obj[q].kind = "status"
          /\ u.no = n
      BY <2>2 DEF ReplaceStatus, TypeOK, Object, Tracking, TrackingExact, StatusQueued
    <3>2. Queued' = Queued /\ obj'[q] = u /\ \A f \in Queued : f # q => obj'[f] = obj[f]
      BY <1>0, <3>1 DEF Queued, TypeOK
    <3>3. QED
      BY <2>1, <3>1, <3>2 DEF ShapeInv, IsControl
  <2>3. CASE PutStatus(k, n)
    <3> DEFINE o == Status(k, n)
    <3>1. PICK f \in NewFrames : queue' = Append(queue, f) /\ obj' = [obj EXCEPT ![f] = o]
      BY <2>3 DEF PutStatus
    <3>2. o \in Object /\ o.kind = "status" /\ o.no = n
      BY <2>1, FramesAreObjects DEF Status
    <3>3. Queued' = Queued \cup {f} /\ obj'[f] = o /\ \A g \in Queued : obj'[g] = obj[g]
      BY <3>1, <3>2, PutFacts
    <3>4. QED
      BY <2>1, <3>2, <3>3 DEF ShapeInv, IsControl
  <2>4. CASE IgnoreStatus(k)
    BY <2>1, <2>4 DEF IgnoreStatus, ShapeInv, Queued, IsControl
  <2>5. QED
    BY <1>2, <2>2, <2>3, <2>4 DEF OfferStatus
<1>3. CASE OfferControl
  <2> DEFINE n == Len(marks) + 1
  <2>1. n \in Nat /\ statusNo' = statusNo
    BY <1>3 DEF OfferControl, TypeOK
  <2>2. CASE PutControl(n)
    <3> DEFINE o == Control(n)
    <3>1. PICK f \in NewFrames : queue' = Append(queue, f) /\ obj' = [obj EXCEPT ![f] = o]
      BY <2>2 DEF PutControl
    <3>2. o \in Object /\ o.kind = "control"
      BY <2>1, FramesAreObjects DEF Control
    <3>3. Queued' = Queued \cup {f} /\ obj'[f] = o /\ \A g \in Queued : obj'[g] = obj[g]
      BY <3>1, <3>2, PutFacts
    <3>4. QED
      BY <2>1, <3>2, <3>3 DEF ShapeInv, IsControl
  <2>3. CASE ForceClose(n)
    BY <2>1, <2>3 DEF ForceClose, ShapeInv, Queued, IsControl
  <2>4. QED
    BY <1>3, <2>2, <2>3 DEF OfferControl
<1>4. CASE Get
  <2>1. Queued' \subseteq Queued /\ UNCHANGED <<obj, statusNo>>
    BY <1>4, GetFacts
  <2>2. QED
    BY <2>1 DEF ShapeInv, IsControl
<1>5. CASE SendDone
  <2>1. Queued' = Queued /\ statusNo' = statusNo /\ \A f \in Queued : obj'[f] = obj[f]
    BY <1>0, <1>5 DEF SendDone, TypeOK, Tracking, TrackingExact, Queued, history
  <2>2. QED
    BY <2>1 DEF ShapeInv, IsControl
<1>6. CASE SendFails \/ Shutdown \/ CloseSocket \/ PeerGone \/ UNCHANGED vars
  BY <1>6
  DEF SendFails, Shutdown, CloseSocket, PeerGone, vars, history, ShapeInv, Queued, IsControl
<1>7. QED
  BY <1>1, <1>2, <1>3, <1>4, <1>5, <1>6 DEF Next

(* The text of a run with no chunk in the queue is all on the socket, and  *)
(* never is more on the socket than was accepted.                          *)
LEMMA TextLengths ==
    ASSUME TypeOK, TextInv, NEW r \in Run
    PROVE  /\ Len(wText[r]) \in Nat /\ Len(PendingText(r)) \in Nat
           /\ Len(accepted[r]) = Len(wText[r]) + Len(PendingText(r))
           /\ queuedChunks[r] = None => Len(accepted[r]) = Len(wText[r])
<1>1. wText[r] \in Seq(Nat) /\ PendingText(r) \in Seq(Nat)
  BY PendingIsText DEF TypeOK
<1>2. wText[r] \o PendingText(r) = accepted[r]
  BY DEF TextInv
<1>3. Len(wText[r] \o PendingText(r)) = Len(wText[r]) + Len(PendingText(r))
  BY <1>1, ConcatProperties
<1>4. queuedChunks[r] = None => Len(PendingText(r)) = 0
  BY DEF PendingText
<1>5. QED
  BY <1>1, <1>2, <1>3, <1>4

(* The barrier of one place of the queue.                                  *)
Barrier(i) ==
    IsControl(queue[i]) =>
      \A r \in Run : (\A j \in 1..i : queue[j] # queuedChunks[r])
                       => marks[obj[queue[i]].no][r] <= Len(wText[r])

(* Accepting text and leaving the marks and the socket alone keeps the     *)
(* bounds on the marks; what remains to be seen are the barriers.          *)
LEMMA MarksStayBounded ==
    ASSUME TypeOK, TextInv, TextInv', TypeOK', BarrierInv, UNCHANGED <<marks, wText, wControl>>,
           \A r \in Run : Len(accepted[r]) <= Len(accepted'[r]),
           \A i \in 1..Len(queue') : Barrier(i)'
    PROVE  BarrierInv'
<1>1. /\ Len(marks) \in Nat
      /\ \A n \in 1..Len(marks) : \A r \in Run : marks[n][r] \in Nat
      /\ \A r \in Run : Len(accepted[r]) \in Nat /\ Len(accepted'[r]) \in Nat
  BY DEF TypeOK
<1>2. \A n \in 1..Len(marks') : \A r \in Run : marks'[n][r] <= Len(accepted'[r])
  BY <1>1 DEF BarrierInv
<1>3. \A i \in 1..Len(wControl') : \A r \in Run : marks'[i][r] <= Len(wText'[r])
  BY DEF BarrierInv
<1>4. QED
  BY <1>2, <1>3 DEF BarrierInv, Barrier

(* A step that leaves the queue, the chunk dictionary and the numbers of   *)
(* the control frames alone keeps every barrier.                           *)
LEMMA EditKeepsBarriers ==
    ASSUME BarrierInv, UNCHANGED <<queue, queuedChunks, marks, wText>>,
           \A f \in Queued : /\ obj'[f].kind = obj[f].kind
                             /\ IsControl(f) => obj'[f].no = obj[f].no
    PROVE  \A i \in 1..Len(queue') : Barrier(i)'
<1>1. \A i \in 1..Len(queue) : queue[i] \in Queued
  BY DEF Queued
<1>2. ASSUME NEW i \in 1..Len(queue'), IsControl(queue[i])', NEW r \in Run,
             \A j \in 1..i : queue'[j] # queuedChunks'[r]
      PROVE  marks'[obj'[queue'[i]].no][r] <= Len(wText'[r])
  <2>1. i \in 1..Len(queue) /\ IsControl(queue[i]) /\ obj'[queue[i]].no = obj[queue[i]].no
    BY <1>1, <1>2 DEF IsControl
  <2>2. QED
    BY <1>2, <2>1 DEF BarrierInv
<1>3. QED
  BY <1>2 DEF Barrier

(* A frame that is no control frame, at the end of the queue, is in front  *)
(* of no barrier.                                                          *)
LEMMA PutKeepsBarriers ==
    ASSUME TypeOK, BarrierInv, NEW f \in NewFrames, NEW o \in Object, o.kind # "control",
           queue' = Append(queue, f), obj' = [obj EXCEPT ![f] = o],
           \A r \in Run : queuedChunks'[r] \in {queuedChunks[r], f},
           \A r \in Run : queuedChunks'[r] # queuedChunks[r] => queuedChunks[r] = None,
           UNCHANGED <<marks, wText>>
    PROVE  \A i \in 1..Len(queue') : Barrier(i)'
<1>1. /\ obj'[f] = o
      /\ Len(queue) \in Nat /\ Len(queue') = Len(queue) + 1
      /\ queue'[Len(queue) + 1] = f
      /\ \A i \in 1..Len(queue) : queue'[i] = queue[i] /\ obj'[queue[i]] = obj[queue[i]]
  BY PutFacts
<1>2. \A i \in 1..Len(queue) : queue[i] # None
  BY ChannelAssumption DEF TypeOK
<1>3. ASSUME NEW i \in 1..Len(queue'), IsControl(queue[i])', NEW r \in Run,
             \A j \in 1..i : queue'[j] # queuedChunks'[r]
      PROVE  marks'[obj'[queue'[i]].no][r] <= Len(wText'[r])
  <2>1. i # Len(queue) + 1
    BY <1>1, <1>3 DEF IsControl
  <2>2. i \in 1..Len(queue) /\ IsControl(queue[i]) /\ obj'[queue'[i]].no = obj[queue[i]].no
    BY <1>1, <1>3, <2>1 DEF IsControl
  <2>3. \A j \in 1..i : j \in 1..Len(queue) /\ queue[j] # queuedChunks[r]
    BY <1>1, <1>2, <1>3, <2>2
  <2>4. QED
    BY <2>2, <2>3 DEF BarrierInv
<1>4. QED
  BY <1>3 DEF Barrier

(* A control frame with the present lengths as its mark is a barrier where *)
(* it is put: what it must follow is in front of it or on the socket.      *)
LEMMA PutControlKeepsBarriers ==
    ASSUME TypeOK, Tracking, TextInv, ControlInv, BarrierInv,
           OfferControl, PutControl(Len(marks) + 1)
    PROVE  BarrierInv'
<1> DEFINE n == Len(marks) + 1
           m == [r \in Run |-> Len(accepted[r])]
<1>1. PICK f \in NewFrames : queue' = Append(queue, f) /\ obj' = [obj EXCEPT ![f] = Control(n)]
  BY DEF PutControl
<1>2. n \in Nat /\ Control(n) \in Object /\ Control(n).no = n /\ Control(n).kind = "control"
  BY FramesAreObjects DEF TypeOK, Control
<1>3. /\ f \in Frame /\ f \notin Queued /\ obj'[f] = Control(n)
      /\ Len(queue) \in Nat /\ Len(queue') = Len(queue) + 1
      /\ queue'[Len(queue) + 1] = f
      /\ \A i \in 1..Len(queue) : queue'[i] = queue[i] /\ obj'[queue[i]] = obj[queue[i]]
  BY <1>1, <1>2, PutFacts
<1>4. UNCHANGED <<queuedChunks, accepted, wText, wControl>> /\ marks' = Append(marks, m)
  BY DEF OfferControl, dicts, written
<1>5. /\ m \in [Run -> Nat] /\ marks \in Seq([Run -> Nat])
      /\ Len(marks') = n /\ marks'[n] = m /\ \A i \in 1..Len(marks) : marks'[i] = marks[i]
  <2>1. m \in [Run -> Nat] /\ marks \in Seq([Run -> Nat])
    BY DEF TypeOK
  <2> HIDE DEF m
  <2>2. QED
    BY <1>4, <2>1
<1> HIDE DEF m
<1>6. \A i \in 1..Len(marks') : \A r \in Run : marks'[i][r] <= Len(accepted'[r])
  <2>1. \A r \in Run : m[r] <= Len(accepted[r])
    BY DEF m, TypeOK
  <2>2. ASSUME NEW i \in 1..Len(marks'), NEW r \in Run
        PROVE  marks'[i][r] <= Len(accepted'[r])
    <3>1. CASE i = n
      BY <1>4, <1>5, <2>1, <3>1
    <3>2. CASE i # n
      <4>1. i \in 1..Len(marks)
        BY <1>2, <1>5, <3>2 DEF TypeOK
      <4>2. QED
        BY <1>4, <1>5, <4>1 DEF BarrierInv
    <3>3. QED
      BY <3>1, <3>2
  <2>3. QED
    BY <2>2
<1>7. ASSUME NEW i \in 1..Len(wControl'), NEW r \in Run
      PROVE  marks'[i][r] <= Len(wText'[r])
  <2>1. i \in 1..Len(marks)
    <3>1. Cardinality(QueuedControls) \in Nat /\ Len(wControl) \in Nat /\ Taken <= Len(marks)
      BY FS_CardinalityType DEF ControlInv, TypeOK
    <3>2. QED
      BY <1>2, <1>4, <3>1 DEF Taken
  <2>2. QED
    BY <1>4, <1>5, <2>1 DEF BarrierInv
<1>8. ASSUME NEW i \in 1..Len(queue'), IsControl(queue[i])', NEW r \in Run,
             \A j \in 1..i : queue'[j] # queuedChunks'[r]
      PROVE  marks'[obj'[queue'[i]].no][r] <= Len(wText'[r])
  <2>1. CASE i = Len(queue) + 1
    <3>1. \A j \in 1..Len(queue) : queue[j] # queuedChunks[r]
      BY <1>3, <1>4, <1>8, <2>1
    <3>2. queuedChunks[r] = None
      BY <3>1 DEF Tracking, TrackingExact, ChunkQueued, Queued
    <3>3. Len(accepted[r]) = Len(wText[r]) /\ Len(wText[r]) \in Nat
      BY <3>2, TextLengths
    <3>4. marks'[obj'[queue'[i]].no][r] = Len(accepted[r])
      BY <1>2, <1>3, <1>5, <2>1 DEF m
    <3>5. QED
      BY <1>4, <3>3, <3>4
  <2>2. CASE i # Len(queue) + 1
    <3>1. i \in 1..Len(queue) /\ IsControl(queue[i]) /\ obj'[queue'[i]].no = obj[queue[i]].no
      BY <1>3, <1>8, <2>2 DEF IsControl
    <3>2. \A j \in 1..i : queue[j] # queuedChunks[r]
      BY <1>3, <1>4, <1>8, <3>1
    <3>3. marks[obj[queue[i]].no][r] <= Len(wText[r])
      BY <3>1, <3>2 DEF BarrierInv
    <3>4. obj[queue[i]].no \in 1..Len(marks)
      <4>1. queue[i] \in QueuedControls
        BY <3>1 DEF QueuedControls, Queued, IsControl
      <4>2. obj[queue[i]].no \in (Len(wControl) + 1)..Taken /\ Taken <= Len(marks)
        BY <4>1 DEF ControlInv
      <4>3. Len(wControl) \in Nat /\ Len(marks) \in Nat /\ Taken \in Nat
        BY FS_CardinalityType DEF TypeOK, ControlInv, Taken
      <4>4. QED
        BY <4>2, <4>3
    <3>5. QED
      BY <1>4, <1>5, <3>1, <3>3, <3>4
  <2>3. QED
    BY <2>1, <2>2
<1>9. QED
  BY <1>6, <1>7, <1>8 DEF BarrierInv

(* Taking the head: a chunk puts the text of its run on the socket, which  *)
(* is at least any mark; a control frame at the head has nothing in front. *)
LEMMA GetKeepsBarriers ==
    ASSUME TypeOK, Tracking, TextInv, ControlInv, BarrierInv, Get
    PROVE  BarrierInv'
<1> DEFINE h == Head(queue)
<1>1. /\ Len(queue) \in Nat \ {0} /\ Len(queue') = Len(queue) - 1
      /\ queue[1] = h
      /\ \A i \in 1..Len(queue') : queue'[i] = queue[i + 1]
      /\ h \in Queued /\ Queued' = Queued \ {h}
      /\ UNCHANGED <<obj, closed, marks, accepted>>
  BY GetFacts
<1>2. \A r \in Run : queuedChunks'[r] = IF queuedChunks[r] = h THEN None ELSE queuedChunks[r]
  BY GetKeepsTracking
<1>3. ASSUME NEW r \in Run
      PROVE  /\ Len(wText[r]) \in Nat /\ Len(wText'[r]) \in Nat
             /\ Len(wText[r]) <= Len(wText'[r])
             /\ queuedChunks[r] = h => Len(wText'[r]) = Len(accepted[r])
             /\ \A i \in 1..Len(marks) : marks[i][r] \in Nat
  <2>1. wText[r] \in Seq(Nat) /\ PendingText(r) \in Seq(Nat)
    BY PendingIsText DEF TypeOK
  <2>2. \/ queuedChunks[r] = h /\ wText'[r] = wText[r] \o PendingText(r)
        \/ queuedChunks[r] # h /\ wText'[r] = wText[r]
    BY GetMovesText
  <2>3. wText[r] \o PendingText(r) = accepted[r]
    BY DEF TextInv
  <2>4. /\ Len(wText[r] \o PendingText(r)) = Len(wText[r]) + Len(PendingText(r))
        /\ Len(wText[r]) \in Nat /\ Len(PendingText(r)) \in Nat
    BY <2>1, ConcatProperties
  <2>5. \A i \in 1..Len(marks) : marks[i][r] \in Nat
    BY DEF TypeOK
  <2>6. QED
    BY <2>2, <2>3, <2>4, <2>5
<1>4. \/ /\ IsControl(h) /\ obj[h].no = Len(wControl) + 1
         /\ wControl' = Append(wControl, Len(wControl) + 1)
      \/ ~IsControl(h) /\ wControl' = wControl
  BY GetKeepsControl
<1>a. h \in Frame /\ h # None
  BY <1>1, ChannelAssumption DEF TypeOK, Queued
<1> HIDE DEF h
<1>5. /\ Len(wControl) \in Nat /\ wControl \in Seq(Nat)
      /\ \A f \in QueuedControls : obj[f].no \in 1..Len(marks)
      /\ Len(wControl) <= Len(marks)
  <2>1. Cardinality(QueuedControls) \in Nat /\ Len(wControl) \in Nat /\ Len(marks) \in Nat
        /\ wControl \in Seq(Nat)
    BY FS_CardinalityType DEF ControlInv, TypeOK
  <2>2. QED
    BY <2>1 DEF ControlInv, Taken
<1>6. \A n \in 1..Len(marks') : \A r \in Run : marks'[n][r] <= Len(accepted'[r])
  BY <1>1 DEF BarrierInv
<1>7. ASSUME NEW n \in 1..Len(wControl'), NEW r \in Run
      PROVE  marks'[n][r] <= Len(wText'[r])
  <2>1. CASE n \in 1..Len(wControl)
    <3>1. marks[n][r] <= Len(wText[r]) /\ n \in 1..Len(marks)
      BY <1>5, <2>1 DEF BarrierInv, TypeOK
    <3>2. QED
      BY <1>1, <1>3, <3>1
  <2>2. CASE n \notin 1..Len(wControl)
    <3>1. IsControl(h) /\ n = obj[h].no
      BY <1>4, <1>5, <2>2
    <3>2. 1 \in 1..Len(queue) /\ IsControl(queue[1])
      BY <1>1, <3>1
    <3>3. \A j \in 1..1 : queue[j] # queuedChunks[r]
      <4>1. queue[1] # queuedChunks[r]
        BY <1>1, <1>a, <3>1 DEF Tracking, TrackingExact, ChunkQueued, IsControl
      <4>2. QED
        BY <4>1
    <3>4. marks[n][r] <= Len(wText[r])
      BY <1>1, <3>1, <3>2, <3>3 DEF BarrierInv
    <3>5. n \in 1..Len(marks)
      BY <1>1, <1>5, <3>1 DEF QueuedControls, IsControl
    <3>6. QED
      BY <1>1, <1>3, <3>4, <3>5
  <2>3. QED
    BY <2>1, <2>2
<1>8. ASSUME NEW i \in 1..Len(queue'), IsControl(queue[i])', NEW r \in Run,
             \A j \in 1..i : queue'[j] # queuedChunks'[r]
      PROVE  marks'[obj'[queue'[i]].no][r] <= Len(wText'[r])
  <2>1. /\ i + 1 \in 1..Len(queue) /\ IsControl(queue[i + 1])
        /\ queue'[i] = queue[i + 1]
    BY <1>1, <1>8 DEF IsControl
  <2>2. obj[queue[i + 1]].no \in 1..Len(marks)
    BY <1>5, <2>1 DEF QueuedControls, Queued, IsControl
  <2>3. CASE queuedChunks[r] = h
    BY <1>1, <1>3, <2>1, <2>2, <2>3 DEF BarrierInv
  <2>4. CASE queuedChunks[r] # h
    <3>1. ASSUME NEW j \in 1..(i + 1) PROVE queue[j] # queuedChunks[r]
      <4>1. CASE j = 1
        BY <1>1, <2>4, <4>1
      <4>2. CASE j # 1
        <5>1. j - 1 \in 1..i /\ j - 1 \in 1..Len(queue') /\ queue'[j - 1] = queue[j]
          BY <1>1, <4>2
        <5>2. QED
          BY <1>2, <1>8, <2>4, <5>1
      <4>3. QED
        BY <4>1, <4>2
    <3>2. marks[obj[queue[i + 1]].no][r] <= Len(wText[r])
      BY <2>1, <3>1 DEF BarrierInv
    <3>3. marks'[obj'[queue'[i]].no][r] = marks[obj[queue[i + 1]].no][r]
      BY <1>1, <2>1
    <3>4. marks[obj[queue[i + 1]].no][r] \in Nat
      BY <1>3, <2>2
    <3>5. Len(wText[r]) \in Nat /\ Len(wText'[r]) \in Nat /\ Len(wText[r]) <= Len(wText'[r])
      BY <1>3
    <3>6. QED
      BY <3>2, <3>3, <3>4, <3>5
  <2>5. QED
    BY <2>3, <2>4
<1>9. QED
  BY <1>6, <1>7, <1>8 DEF BarrierInv

(* Every step keeps the barriers.                                          *)
LEMMA BarrierStep ==
    /\ TypeOK /\ Tracking /\ TextInv /\ ControlInv /\ BarrierInv /\ [Next]_vars
    => BarrierInv'
<1> SUFFICES ASSUME TypeOK, Tracking, TextInv, ControlInv, BarrierInv, [Next]_vars
             PROVE  BarrierInv'
  OBVIOUS
<1>0. TypeOK' /\ TextInv'
  BY TypeStep, TextStep
<1>1. ASSUME NEW r \in Run, OfferChunk(r) PROVE BarrierInv'
  <2> DEFINE d == offered[r] + 1
             q == queuedChunks[r]
  <2>1. d \in Nat /\ UNCHANGED <<wControl, marks, wText>>
    BY <1>1 DEF TypeOK, OfferChunk, written
  <2>2. \A s \in Run : Len(accepted[s]) <= Len(accepted'[s])
    <3>1. \A s \in Run : accepted[s] \in Seq(Nat) /\ Len(accepted[s]) \in Nat
      BY DEF TypeOK
    <3>2. accepted' = [accepted EXCEPT ![r] = Append(@, d)] \/ accepted' = accepted
      BY <1>1 DEF OfferChunk, CoalesceChunk, PutChunk, DropChunk
    <3>3. CASE accepted' = [accepted EXCEPT ![r] = Append(@, d)]
      <4>1. accepted'[r] = Append(accepted[r], d)
            /\ \A s \in Run : s # r => accepted'[s] = accepted[s]
        BY <3>3 DEF TypeOK
      <4>2. Len(Append(accepted[r], d)) = Len(accepted[r]) + 1
        BY <2>1, <3>1
      <4>3. ASSUME NEW s \in Run PROVE Len(accepted[s]) <= Len(accepted'[s])
        <5>1. CASE s = r
          BY <3>1, <4>1, <4>2, <5>1
        <5>2. CASE s # r
          BY <3>1, <4>1, <5>2
        <5>3. QED
          BY <5>1, <5>2
      <4>4. QED
        BY <4>3
    <3>4. CASE accepted' = accepted
      BY <3>1, <3>4
    <3>5. QED
      BY <3>2, <3>3, <3>4
  <2>3. CASE CoalesceChunk(r, d)
    <3>1. /\ q \in Frame /\ queue' = queue /\ queuedChunks' = queuedChunks
          /\ obj' = [obj EXCEPT ![q] = [obj[q] EXCEPT !.text = Append(obj[q].text, d)]]
          /\ [obj[q] EXCEPT !.text = Append(obj[q].text, d)].kind = obj[q].kind
      BY <2>3 DEF CoalesceChunk, TypeOK, Object, dicts
    <3>2. \A f \in Queued : /\ obj'[f].kind = obj[f].kind
                            /\ IsControl(f) => obj'[f].no = obj[f].no
      BY <3>1, EditFacts
    <3>3. \A i \in 1..Len(queue') : Barrier(i)'
      BY <2>1, <3>1, <3>2, EditKeepsBarriers
    <3>4. QED
      BY <1>0, <2>1, <2>2, <3>3, MarksStayBounded
  <2>4. CASE PutChunk(r, d)
    <3>1. PICK f \in NewFrames : /\ queue' = Append(queue, f)
                                 /\ obj' = [obj EXCEPT ![f] = Chunk(r, <<d>>)]
                                 /\ queuedChunks' = [queuedChunks EXCEPT ![r] = f]
      BY <2>4 DEF PutChunk
    <3>2. Chunk(r, <<d>>) \in Object /\ Chunk(r, <<d>>).kind # "control"
      BY <2>1, TextAppend, FramesAreObjects DEF Chunk
    <3>3. \A s \in Run : /\ queuedChunks'[s] \in {queuedChunks[s], f}
                         /\ queuedChunks'[s] # queuedChunks[s] => queuedChunks[s] = None
      BY <2>4, <3>1 DEF PutChunk, TypeOK
    <3>4. \A i \in 1..Len(queue') : Barrier(i)'
      BY <2>1, <3>1, <3>2, <3>3, PutKeepsBarriers
    <3>5. QED
      BY <1>0, <2>1, <2>2, <3>4, MarksStayBounded
  <2>5. CASE DropChunk(r)
    <3>1. UNCHANGED <<queue, obj, queuedChunks>>
      BY <2>5 DEF DropChunk, dicts
    <3>2. \A i \in 1..Len(queue') : Barrier(i)'
      BY <2>1, <3>1, EditKeepsBarriers
    <3>3. QED
      BY <1>0, <2>1, <2>2, <3>2, MarksStayBounded
  <2>6. QED
    BY <1>1, <2>3, <2>4, <2>5 DEF OfferChunk
<1>2. ASSUME NEW k \in StatusKey, OfferStatus(k) PROVE BarrierInv'
  <2> DEFINE n == statusNo + 1
             q == queuedStatus[k]
  <2>1. n \in Nat /\ UNCHANGED <<wControl, marks, wText, accepted>>
    BY <1>2 DEF TypeOK, OfferStatus, written
  <2>2. \A s \in Run : Len(accepted[s]) <= Len(accepted'[s])
    <3>1. \A s \in Run : accepted[s] \in Seq(Nat) /\ Len(accepted[s]) \in Nat
      BY DEF TypeOK
    <3>2. QED
      BY <2>1, <3>1
  <2>3. CASE ReplaceStatus(k, n)
    <3>1. /\ q \in Frame /\ queue' = queue /\ queuedChunks' = queuedChunks
          /\ obj' = [obj EXCEPT ![q] = [obj[q] EXCEPT !.no = n]]
          /\ [obj[q] EXCEPT !.no = n].kind = obj[q].kind
      BY <2>3 DEF ReplaceStatus, TypeOK, Object, dicts
    <3>2. \A f \in Queued : /\ obj'[f].kind = obj[f].kind
                            /\ IsControl(f) => obj'[f].no = obj[f].no
      BY <3>1, EditFacts
    <3>3. \A i \in 1..Len(queue') : Barrier(i)'
      BY <2>1, <3>1, <3>2, EditKeepsBarriers
    <3>4. QED
      BY <1>0, <2>1, <2>2, <3>3, MarksStayBounded
  <2>4. CASE PutStatus(k, n)
    <3>1. PICK f \in NewFrames : /\ queue' = Append(queue, f)
                                 /\ obj' = [obj EXCEPT ![f] = Status(k, n)]
      BY <2>4 DEF PutStatus
    <3>2. Status(k, n) \in Object /\ Status(k, n).kind # "control"
      BY <2>1, FramesAreObjects DEF Status
    <3>3. queuedChunks' = queuedChunks
      BY <2>4 DEF PutStatus
    <3>4. \A i \in 1..Len(queue') : Barrier(i)'
      BY <2>1, <3>1, <3>2, <3>3, PutKeepsBarriers
    <3>5. QED
      BY <1>0, <2>1, <2>2, <3>4, MarksStayBounded
  <2>5. CASE IgnoreStatus(k)
    <3>1. UNCHANGED <<queue, obj, queuedChunks>>
      BY <2>5 DEF IgnoreStatus, dicts
    <3>2. \A i \in 1..Len(queue') : Barrier(i)'
      BY <2>1, <3>1, EditKeepsBarriers
    <3>3. QED
      BY <1>0, <2>1, <2>2, <3>2, MarksStayBounded
  <2>6. QED
    BY <1>2, <2>3, <2>4, <2>5 DEF OfferStatus
<1>3. CASE OfferControl /\ PutControl(Len(marks) + 1)
  BY <1>3, PutControlKeepsBarriers
<1>4. CASE OfferControl /\ ForceClose(Len(marks) + 1)
  <2> DEFINE m == [r \in Run |-> Len(accepted[r])]
  <2>1. /\ UNCHANGED <<queue, obj, queuedChunks, accepted, wText, wControl>>
        /\ marks' = Append(marks, m)
    BY <1>4 DEF OfferControl, ForceClose, dicts, written
  <2>2. /\ m \in [Run -> Nat] /\ marks \in Seq([Run -> Nat]) /\ Len(marks) \in Nat
        /\ \A r \in Run : m[r] <= Len(accepted[r])
    BY DEF TypeOK
  <2> HIDE DEF m
  <2>3. /\ Len(marks') = Len(marks) + 1 /\ marks'[Len(marks) + 1] = m
        /\ \A i \in 1..Len(marks) : marks'[i] = marks[i]
    BY <2>1, <2>2
  <2>4. ASSUME NEW i \in 1..Len(marks'), NEW r \in Run
        PROVE  marks'[i][r] <= Len(accepted'[r])
    <3>1. CASE i = Len(marks) + 1
      BY <2>1, <2>2, <2>3, <3>1
    <3>2. CASE i # Len(marks) + 1
      <4>1. i \in 1..Len(marks)
        BY <2>2, <2>3, <3>2
      <4>2. QED
        BY <2>1, <2>3, <4>1 DEF BarrierInv
    <3>3. QED
      BY <3>1, <3>2
  <2>5. /\ Len(wControl) \in Nat /\ Len(wControl) <= Taken
        /\ Taken \in Nat /\ Taken <= Len(marks)
    BY FS_CardinalityType DEF TypeOK, ControlInv, Taken
  <2>6. \A i \in 1..Len(wControl') : \A r \in Run : marks'[i][r] <= Len(wText'[r])
    BY <2>1, <2>2, <2>3, <2>5 DEF BarrierInv
  <2>7. \A i \in 1..Len(queue') : Barrier(i)'
    <3> SUFFICES ASSUME NEW i \in 1..Len(queue), IsControl(queue[i]), NEW r \in Run,
                        \A j \in 1..i : queue[j] # queuedChunks[r]
                 PROVE  marks'[obj[queue[i]].no][r] <= Len(wText[r])
      BY <2>1 DEF Barrier, IsControl
    <3>1. obj[queue[i]].no \in (Len(wControl) + 1)..Taken
      BY DEF ControlInv, QueuedControls, Queued, IsControl
    <3>2. obj[queue[i]].no \in 1..Len(marks)
      BY <2>2, <2>5, <3>1
    <3>3. QED
      BY <2>3, <3>2 DEF BarrierInv
  <2>8. QED
    BY <2>4, <2>6, <2>7 DEF BarrierInv, Barrier
<1>5. CASE Get
  BY <1>5, GetKeepsBarriers
<1>6. CASE SendDone \/ SendFails \/ Shutdown \/ CloseSocket \/ PeerGone \/ UNCHANGED vars
  <2>1. UNCHANGED <<queue, queuedChunks, wControl, marks, accepted, wText>>
    BY <1>6
    DEF SendDone, SendFails, Shutdown, CloseSocket, PeerGone, vars, dicts, history, written
  <2>2. \A f \in Queued : obj'[f] = obj[f]
    <3>1. \A f \in Queued : f \in Frame /\ f # sending
      BY DEF Tracking, TrackingExact, TypeOK, Queued
    <3>2. QED
      BY <1>6, <3>1
      DEF SendDone, SendFails, Shutdown, CloseSocket, PeerGone, vars, TypeOK
  <2>3. \A i \in 1..Len(queue') : Barrier(i)'
    BY <2>1, <2>2, EditKeepsBarriers
  <2>4. \A r \in Run : Len(accepted[r]) <= Len(accepted'[r])
    <3>1. \A r \in Run : accepted[r] \in Seq(Nat) /\ Len(accepted[r]) \in Nat
      BY DEF TypeOK
    <3>2. QED
      BY <2>1, <3>1
  <2>5. QED
    BY <1>0, <2>1, <2>3, <2>4, MarksStayBounded
<1>7. QED
  BY <1>1, <1>2, <1>3, <1>4, <1>5, <1>6 DEF Next, OfferControl

(* The inductive invariant of the channel.                                 *)
ChannelInv == TypeOK /\ Tracking /\ TextInv /\ ControlInv /\ BarrierInv /\ ShapeInv

LEMMA ChannelInit == Init => ChannelInv
<1> SUFFICES ASSUME Init PROVE ChannelInv
  OBVIOUS
<1>1. TypeOK /\ Tracking /\ TextInv
  BY TypeInit, TrackingInit, TextInit
<1>2. Queued = {} /\ QueuedControls = {} /\ Len(wControl) = 0 /\ Len(marks) = 0
      /\ Len(queue) = 0
  BY DEF Init, Queued, QueuedControls
<1>3. Taken = 0
  BY <1>2, FS_EmptySet DEF Taken
<1>4. ControlInv /\ BarrierInv /\ ShapeInv
  BY <1>2, <1>3, FS_EmptySet DEF ControlInv, BarrierInv, ShapeInv
<1>5. QED
  BY <1>1, <1>4 DEF ChannelInv

LEMMA ChannelStep == ChannelInv /\ [Next]_vars => ChannelInv'
  BY TypeStep, TrackingStep, TextStep, ControlStep, BarrierStep, ShapeStep DEF ChannelInv

LEMMA ChannelInvariant == Spec => []ChannelInv
  BY ChannelInit, ChannelStep, PTL DEF Spec

(* Control frames are handed over in the order they were offered, and none *)
(* is lost while the channel is open.                                      *)
THEOREM ControlCorrect == Spec => []ControlNeverLost
<1>1. ChannelInv => ControlNeverLost
  BY DEF ChannelInv, ControlInv, ControlNeverLost, Taken
<1>2. QED
  BY <1>1, ChannelInvariant, PTL

(* No control frame overtakes text that was accepted before it, however    *)
(* the chunks in front of it are merged.                                   *)
THEOREM OrderCorrect == Spec => []TextBeforeControl
<1>1. ChannelInv => TextBeforeControl
  BY DEF ChannelInv, ControlInv, BarrierInv, TextBeforeControl
<1>2. QED
  BY <1>1, ChannelInvariant, PTL

-----------------------------------------------------------------------------
(* A full queue.                                                           *)
QueuedOf(kind) == {f \in Queued : obj[f].kind = kind}

(* Frames of one kind are no more than the keys, since each key tracks one.*)
LEMMA OneFramePerKey ==
    ASSUME ChannelInv, FiniteKeys
    PROVE  /\ IsFiniteSet(QueuedOf("chunk"))
           /\ Cardinality(QueuedOf("chunk")) <= Cardinality(Run)
           /\ IsFiniteSet(QueuedOf("status"))
           /\ Cardinality(QueuedOf("status")) <= Cardinality(StatusKey)
<1>1. /\ \A f \in QueuedOf("chunk") : obj[f].key \in Run /\ queuedChunks[obj[f].key] = f
      /\ \A f \in QueuedOf("status") : obj[f].key \in StatusKey /\ queuedStatus[obj[f].key] = f
  BY DEF ChannelInv, Tracking, TrackingExact, QueuedOf
<1>2. IsFiniteSet(Run) /\ IsFiniteSet(StatusKey)
  BY FiniteKeys, FS_AddElement, FS_Singleton, FS_Union DEF StatusKey
<1>3. IsFiniteSet(QueuedOf("chunk")) /\ Cardinality(QueuedOf("chunk")) <= Cardinality(Run)
  <2> DEFINE g == [f \in QueuedOf("chunk") |-> obj[f].key]
  <2>1. g \in Injection(QueuedOf("chunk"), Run)
    BY <1>1 DEF Injection, IsInjective
  <2>2. QED
    BY <1>2, <2>1, FS_Injection DEF ExistsInjection
<1>4. IsFiniteSet(QueuedOf("status")) /\ Cardinality(QueuedOf("status")) <= Cardinality(StatusKey)
  <2> DEFINE g == [f \in QueuedOf("status") |-> obj[f].key]
  <2>1. g \in Injection(QueuedOf("status"), StatusKey)
    BY <1>1 DEF Injection, IsInjective
  <2>2. QED
    BY <1>2, <2>1, FS_Injection DEF ExistsInjection
<1>5. QED
  BY <1>3, <1>4

(* A full queue holds Capacity different frames.                           *)
LEMMA QueueCounts ==
    ASSUME ChannelInv
    PROVE  IsFiniteSet(Queued) /\ Cardinality(Queued) = Len(queue)
<1> DEFINE g == [i \in 1..Len(queue) |-> queue[i]]
<1>1. Len(queue) \in Nat /\ Distinct(queue)
  BY DEF ChannelInv, TypeOK, Tracking
<1>2. g \in Bijection(1..Len(queue), Queued)
  BY <1>1 DEF Queued, Distinct, Bijection, Injection, Surjection, IsInjective
<1>3. ExistsBijection(1..Len(queue), Queued)
  BY <1>2 DEF ExistsBijection
<1>4. QED
  BY <1>1, <1>3, FS_CountingElements, FS_NatBijection

(* Only a flood of control frames fills the queue: but for one chunk frame *)
(* per run and one status frame per key, all of a full queue is control.   *)
THEOREM WedgeCorrect == Spec => []WedgedByControlOnly
<1>1. ASSUME ChannelInv, Full
      PROVE  Cardinality(QueuedControls) + Cardinality(Run) + Cardinality(StatusKey) >= Capacity
  <2>1. IsFiniteSet(Queued) /\ Cardinality(Queued) = Len(queue) /\ Len(queue) >= Capacity
    BY <1>1, QueueCounts DEF Full
  <2> DEFINE C == QueuedOf("chunk")
             S == QueuedOf("status")
             O == QueuedControls
  <2>2. Queued = (C \cup S) \cup O
    BY <1>1 DEF ChannelInv, ShapeInv, QueuedOf, QueuedControls, IsControl
  <2>3. /\ IsFiniteSet(C) /\ Cardinality(C) <= Cardinality(Run)
        /\ IsFiniteSet(S) /\ Cardinality(S) <= Cardinality(StatusKey)
        /\ IsFiniteSet(O)
    BY <1>1, OneFramePerKey, FiniteKeys DEF ChannelInv, ControlInv
  <2>4. IsFiniteSet(Run) /\ IsFiniteSet(StatusKey)
    BY FiniteKeys, FS_Singleton, FS_Union DEF StatusKey
  <2> HIDE DEF C, S, O
  <2>5. /\ IsFiniteSet(C \cup S)
        /\ Cardinality(C \cup S) = Cardinality(C) + Cardinality(S) - Cardinality(C \cap S)
        /\ Cardinality(Queued) = Cardinality(C \cup S) + Cardinality(O)
                                   - Cardinality((C \cup S) \cap O)
    BY <2>2, <2>3, FS_Union
  <2>6. IsFiniteSet(C \cap S) /\ IsFiniteSet((C \cup S) \cap O)
    BY <2>3, <2>5, FS_Intersection
  <2>7. /\ Cardinality(C) \in Nat /\ Cardinality(S) \in Nat /\ Cardinality(O) \in Nat
        /\ Cardinality(C \cap S) \in Nat /\ Cardinality((C \cup S) \cap O) \in Nat
        /\ Cardinality(Run) \in Nat /\ Cardinality(StatusKey) \in Nat
        /\ Cardinality(C \cup S) \in Nat
    BY <2>3, <2>4, <2>5, <2>6, FS_CardinalityType
  <2>8. Capacity \in Nat /\ Len(queue) \in Nat
    BY <1>1, ChannelAssumption DEF ChannelInv, TypeOK
  <2>9. Cardinality(O) + Cardinality(Run) + Cardinality(StatusKey) >= Capacity
    BY <2>1, <2>3, <2>5, <2>7, <2>8
  <2>10. QED
    BY <2>9 DEF O
<1>2. ChannelInv => WedgedByControlOnly
  BY <1>1 DEF WedgedByControlOnly
<1>3. QED
  BY <1>2, ChannelInvariant, PTL

-----------------------------------------------------------------------------
(* The refinement: each step of the channel is a step of the contract.     *)

PendTexts == [r \in Run |-> PendingText(r)]
PendStats == [k \in StatusKey |-> PendingStatus(k)]
PendControls == [i \in 1..Cardinality(QueuedControls) |-> Len(wControl) + i]

(* The first states agree.                                                 *)
LEMMA RefineInit == Init => Contract!Init
<1> SUFFICES ASSUME Init PROVE Contract!Init
  OBVIOUS
<1>a. Len(queue) = 0 /\ Len(wControl) = 0
  BY DEF Init
<1>b. QueuedControls = {}
  BY <1>a DEF QueuedControls, Queued
<1>1. Cardinality(QueuedControls) = 0 /\ Len(wControl) = 0
  BY <1>a, <1>b, FS_EmptySet
<1>2. PendControls = <<>>
  BY <1>1 DEF PendControls
<1>3. \A r \in Run : PendingText(r) = <<>>
  BY DEF Init, PendingText
<1>4. \A k \in StatusKey : PendingStatus(k) = 0
  BY DEF Init, PendingStatus
<1>5. QED
  BY <1>2, <1>3, <1>4 DEF Contract!Init, Contract!TextInit, PendControls, Init

(* The next delta is numbered as in the contract, and so is a mark.        *)
LEMMA NextNumbers ==
    ASSUME ChannelInv
    PROVE  /\ \A r \in Run : Contract!TextLen(r) + dropped[r] + 1 = offered[r] + 1
           /\ Contract!NewMark = Append(marks, [r \in Run |-> Len(accepted[r])])
<1>1. ASSUME NEW r \in Run
      PROVE  /\ Contract!TextLen(r) = Len(accepted[r])
             /\ Contract!TextLen(r) + dropped[r] + 1 = offered[r] + 1
  <2>1. Contract!TextLen(r) = Len(wText[r]) + Len(PendingText(r))
    BY DEF Contract!TextLen
  <2>2. Len(accepted[r]) = Len(wText[r]) + Len(PendingText(r))
    BY TextLengths DEF ChannelInv
  <2>3. offered[r] = Len(accepted[r]) + dropped[r]
    BY DEF ChannelInv, TextInv
  <2>4. QED
    BY <2>1, <2>2, <2>3
<1>2. QED
  BY <1>1 DEF Contract!NewMark

(* Pending statuses depend on the dictionary and the objects it names.     *)
LEMMA StatusUnchanged ==
    ASSUME ChannelInv, UNCHANGED queuedStatus, \A f \in Queued : obj'[f] = obj[f]
    PROVE  PendStats' = PendStats
<1>1. \A k \in StatusKey : queuedStatus[k] # None => queuedStatus[k] \in Queued
  BY DEF ChannelInv, Tracking, TrackingExact, StatusQueued
<1>2. QED
  BY <1>1 DEF PendStats, PendingStatus

(* Offering a chunk accepts or loses one delta.                            *)
LEMMA RefineChunk ==
    ASSUME ChannelInv, NEW r \in Run, OfferChunk(r)
    PROVE  Contract!AcceptText(r) \/ Contract!LoseText(r)
<1> DEFINE d == offered[r] + 1
<1>1. /\ d \in Nat /\ closed = FALSE /\ closed' = FALSE
      /\ UNCHANGED <<wControl, wText, wStatus, marks, statusNo>>
  BY DEF ChannelInv, TypeOK, OfferChunk, written
<1>2. TypeOK /\ Tracking /\ ControlInv
  BY DEF ChannelInv
<1>3. CASE CoalesceChunk(r, d)
  <2> DEFINE q == queuedChunks[r]
  <2>1. /\ q \in Frame /\ queue' = queue /\ UNCHANGED <<queuedChunks, queuedStatus, dropped>>
        /\ obj' = [obj EXCEPT ![q] = [obj[q] EXCEPT !.text = Append(obj[q].text, d)]]
        /\ [obj[q] EXCEPT !.text = Append(obj[q].text, d)].kind = obj[q].kind
        /\ [obj[q] EXCEPT !.text = Append(obj[q].text, d)].no = obj[q].no
    BY <1>2, <1>3 DEF CoalesceChunk, TypeOK, Object, dicts
  <2>2. \A f \in Queued : /\ obj'[f].kind = obj[f].kind
                          /\ f # q => obj'[f] = obj[f]
                          /\ IsControl(f) => obj'[f].no = obj[f].no
    BY <1>2, <2>1, EditFacts
  <2>3. QueuedControls' = QueuedControls
    BY <1>1, <1>2, <2>1, <2>2, EditKeepsControl
  <2>4. /\ PendingText(r)' = Append(PendingText(r), d)
        /\ \A s \in Run \ {r} : PendingText(s)' = PendingText(s)
    BY <1>1, <1>2, <1>3, CoalesceAppends
  <2>5. obj'[q].no = obj[q].no
    BY <2>1 DEF ChannelInv, TypeOK
  <2>6. \A k \in StatusKey : queuedStatus[k] # None => queuedStatus[k] \in Queued
    BY DEF ChannelInv, Tracking, TrackingExact, StatusQueued
  <2>7. PendStats' = PendStats
    BY <2>1, <2>2, <2>5, <2>6 DEF PendStats, PendingStatus
  <2>8. PendTexts' = [PendTexts EXCEPT ![r] = Append(@, d)]
    BY <2>4 DEF PendTexts
  <2>9. d = Contract!TextLen(r) + dropped[r] + 1
    BY NextNumbers
  <2>10. PendControls' = PendControls
    BY <1>1, <2>3 DEF PendControls
  <2>11. QED
    BY <1>1, <2>1, <2>7, <2>8, <2>9, <2>10
    DEF Contract!AcceptText, Contract!control, Contract!status, PendTexts, PendStats, PendControls
<1>4. CASE PutChunk(r, d)
  <2>1. PICK f \in NewFrames : /\ queue' = Append(queue, f)
                               /\ obj' = [obj EXCEPT ![f] = Chunk(r, <<d>>)]
                               /\ queuedChunks' = [queuedChunks EXCEPT ![r] = f]
    BY <1>4 DEF PutChunk
  <2>2. Chunk(r, <<d>>) \in Object /\ Chunk(r, <<d>>).kind # "control"
    BY <1>1, TextAppend, FramesAreObjects DEF Chunk
  <2>3. QueuedControls' = QueuedControls
    BY <1>1, <1>2, <2>1, <2>2, PutKeepsControl
  <2>4. UNCHANGED <<queuedStatus, dropped>> /\ \A g \in Queued : obj'[g] = obj[g]
    BY <1>2, <1>4, <2>1, <2>2, PutFacts DEF PutChunk
  <2>5. \A s \in Run \ {r} : PendingText(s)' = PendingText(s)
    BY <1>2, <2>1, FreshKeepsPending DEF TypeOK
  <2>6. PendingText(r) = <<>> /\ PendingText(r)' = <<d>>
    BY <1>2, <1>4, <2>1, NewFramesFree, ChannelAssumption
    DEF PutChunk, PendingText, TypeOK, Chunk
  <2>b. PendingText(r)' = Append(PendingText(r), d)
    BY <2>6
  <2>7. PendTexts' = [PendTexts EXCEPT ![r] = Append(@, d)]
    BY <2>5, <2>b DEF PendTexts
  <2>8. d = Contract!TextLen(r) + dropped[r] + 1
    BY NextNumbers
  <2>9. PendStats' = PendStats
    BY <2>4, StatusUnchanged
  <2>10. PendControls' = PendControls
    BY <1>1, <2>3 DEF PendControls
  <2>11. QED
    BY <1>1, <2>4, <2>7, <2>8, <2>9, <2>10
    DEF Contract!AcceptText, Contract!control, Contract!status, PendTexts, PendStats, PendControls
<1>5. CASE DropChunk(r)
  <2>1. UNCHANGED <<queue, obj, queuedChunks, queuedStatus>>
        /\ dropped' = [dropped EXCEPT ![r] = @ + 1]
    BY <1>5 DEF DropChunk, dicts
  <2>2. PendTexts' = PendTexts /\ PendStats' = PendStats /\ PendControls' = PendControls
    BY <1>1, <2>1
    DEF PendTexts, PendingText, PendStats, PendingStatus, PendControls, QueuedControls, Queued
  <2>3. QED
    BY <1>1, <2>1, <2>2
    DEF Contract!LoseText, Contract!control, Contract!status, PendTexts, PendStats, PendControls
<1>6. QED
  BY <1>3, <1>4, <1>5 DEF OfferChunk

(* Offering a status, whether it is queued, replaces or is ignored.        *)
LEMMA RefineStatus ==
    ASSUME ChannelInv, NEW k \in StatusKey, OfferStatus(k)
    PROVE  Contract!OfferStatus(k)
<1> DEFINE n == statusNo + 1
<1>1. /\ n \in Nat /\ statusNo \in Nat /\ statusNo' = n /\ closed = FALSE /\ closed' = FALSE
      /\ UNCHANGED <<wControl, wText, wStatus, marks, dropped>>
  BY DEF ChannelInv, TypeOK, OfferStatus, written
<1>2. TypeOK /\ Tracking /\ ControlInv
  BY DEF ChannelInv
<1>3. PendStats \in [StatusKey -> 0..statusNo]
  <2> SUFFICES ASSUME NEW j \in StatusKey PROVE PendingStatus(j) \in 0..statusNo
    BY DEF PendStats
  <2>1. CASE queuedStatus[j] = None
    BY <1>2, <2>1 DEF PendingStatus, TypeOK
  <2>2. CASE queuedStatus[j] # None
    <3>1. queuedStatus[j] \in Queued /\ obj[queuedStatus[j]].kind = "status"
      BY <1>2, <2>2 DEF Tracking, TrackingExact, StatusQueued
    <3>2. obj[queuedStatus[j]].no \in 1..statusNo
      BY <3>1 DEF ChannelInv, ShapeInv, IsControl
    <3>3. QED
      BY <1>2, <2>2, <3>2 DEF PendingStatus, TypeOK
  <2>3. QED
    BY <2>1, <2>2
<1>4. CASE ReplaceStatus(k, n)
  <2> DEFINE q == queuedStatus[k]
  <2>1. /\ q \in Frame /\ q # None /\ UNCHANGED <<queue, queuedChunks, queuedStatus>>
        /\ obj' = [obj EXCEPT ![q] = [obj[q] EXCEPT !.no = n]]
        /\ [obj[q] EXCEPT !.no = n].kind = obj[q].kind
        /\ [obj[q] EXCEPT !.no = n].no = n
    BY <1>2, <1>4 DEF ReplaceStatus, TypeOK, Object, dicts
  <2>2. \A f \in Queued : /\ obj'[f].kind = obj[f].kind
                          /\ f # q => obj'[f] = obj[f]
                          /\ IsControl(f) => obj'[f].no = obj[f].no
    BY <1>2, <2>1, EditFacts
  <2>3. QueuedControls' = QueuedControls
    BY <1>1, <1>2, <2>1, <2>2, EditKeepsControl
  <2>4. q \in Queued /\ obj[q].kind = "status" /\ obj[q].key = k
    BY <1>2, <2>1 DEF Tracking, TrackingExact, StatusQueued
  <2>5. obj'[q].no = n
    BY <1>2, <2>1 DEF TypeOK
  <2>6. \A s \in Run : queuedChunks[s] # None => queuedChunks[s] \in Queued /\ queuedChunks[s] # q
    BY <1>2, <2>4 DEF Tracking, TrackingExact, ChunkQueued
  <2>7. \A j \in StatusKey \ {k} :
          queuedStatus[j] # None => queuedStatus[j] \in Queued /\ queuedStatus[j] # q
    BY <1>2, <2>4 DEF Tracking, TrackingExact, StatusQueued
  <2>8. PendTexts' = PendTexts
    BY <2>1, <2>2, <2>6 DEF PendTexts, PendingText
  <2>a. PendingStatus(k)' = n
    BY <2>1, <2>5 DEF PendingStatus
  <2>b. \A j \in StatusKey \ {k} : PendingStatus(j)' = PendingStatus(j)
    BY <2>1, <2>2, <2>7 DEF PendingStatus
  <2>9. PendStats' = [PendStats EXCEPT ![k] = n]
    BY <2>a, <2>b DEF PendStats
  <2>10. PendControls' = PendControls
    BY <1>1, <2>3 DEF PendControls
  <2>11. PendStats[k] # n
    BY <1>1, <1>3
  <2>12. PendStats' # PendStats
    BY <2>9, <2>11, <1>3
  <2>13. QED
    BY <1>1, <2>8, <2>9, <2>10, <2>12
    DEF Contract!OfferStatus, Contract!text, Contract!control, PendTexts, PendStats, PendControls
<1>5. CASE PutStatus(k, n)
  <2>1. PICK f \in NewFrames : /\ queue' = Append(queue, f)
                               /\ obj' = [obj EXCEPT ![f] = Status(k, n)]
                               /\ queuedStatus' = [queuedStatus EXCEPT ![k] = f]
    BY <1>5 DEF PutStatus
  <2>2. Status(k, n) \in Object /\ Status(k, n).kind # "control" /\ Status(k, n).no = n
    BY <1>1, FramesAreObjects DEF Status
  <2>3. QueuedControls' = QueuedControls
    BY <1>1, <1>2, <2>1, <2>2, PutKeepsControl
  <2>4. /\ queuedChunks' = queuedChunks
        /\ f \in Frame /\ f # None /\ obj'[f] = Status(k, n)
        /\ \A g \in Queued : obj'[g] = obj[g]
    BY <1>2, <1>5, <2>1, <2>2, PutFacts, ChannelAssumption DEF PutStatus
  <2>5. PendTexts' = PendTexts
    BY <1>2, <2>1, <2>4, FreshKeepsPending DEF PendTexts
  <2>6. \A j \in StatusKey : queuedStatus[j] # None => queuedStatus[j] \in Queued
    BY <1>2 DEF Tracking, TrackingExact, StatusQueued
  <2>7. queuedStatus'[k] = f /\ \A j \in StatusKey \ {k} : queuedStatus'[j] = queuedStatus[j]
    BY <1>2, <2>1 DEF TypeOK
  <2>8. PendStats' = [PendStats EXCEPT ![k] = n]
    BY <2>2, <2>4, <2>6, <2>7 DEF PendStats, PendingStatus
  <2>9. PendControls' = PendControls
    BY <1>1, <2>3 DEF PendControls
  <2>10. PendStats' # PendStats
    <3>1. PendStats[k] # n
      BY <1>1, <1>3
    <3>2. QED
      BY <2>8, <3>1, <1>3
  <2>11. QED
    BY <1>1, <2>5, <2>8, <2>9, <2>10
    DEF Contract!OfferStatus, Contract!text, Contract!control, PendTexts, PendStats, PendControls
<1>6. CASE IgnoreStatus(k)
  <2>1. UNCHANGED <<queue, obj, queuedChunks, queuedStatus>> /\ queuedStatus[k] = None
    BY <1>6 DEF IgnoreStatus, dicts
  <2>2. PendTexts' = PendTexts /\ PendStats' = PendStats /\ PendControls' = PendControls
    BY <1>1, <2>1
    DEF PendTexts, PendingText, PendStats, PendingStatus, PendControls, QueuedControls, Queued
  <2>3. PendStats[k] = 0
    BY <2>1 DEF PendStats, PendingStatus
  <2>4. QED
    BY <1>1, <2>2, <2>3
    DEF Contract!OfferStatus, Contract!text, Contract!control, PendTexts, PendStats, PendControls
<1>7. QED
  BY <1>4, <1>5, <1>6 DEF OfferStatus

(* Offering a control frame queues it or closes the client.                *)
LEMMA RefineControl ==
    ASSUME ChannelInv, OfferControl
    PROVE  Contract!AcceptControl \/ Contract!Close
<1> DEFINE n == Len(marks) + 1
<1>1. /\ n \in Nat /\ closed = FALSE
      /\ UNCHANGED <<queuedChunks, queuedStatus, wControl, wText, wStatus, dropped, statusNo>>
      /\ marks' = Append(marks, [r \in Run |-> Len(accepted[r])])
  BY DEF ChannelInv, TypeOK, OfferControl, dicts, written
<1>2. TypeOK /\ Tracking /\ ControlInv
  BY DEF ChannelInv
<1>3. marks' = Contract!NewMark /\ Len(marks') = n
  <2>1. marks' = Contract!NewMark
    BY <1>1, NextNumbers
  <2>2. Len(marks') = n
    <3> DEFINE m == [r \in Run |-> Len(accepted[r])]
    <3>1. m \in [Run -> Nat] /\ marks \in Seq([Run -> Nat])
      BY <1>2 DEF TypeOK
    <3> HIDE DEF m
    <3>2. marks' = Append(marks, m)
      BY <1>1 DEF m
    <3>3. QED
      BY <3>1, <3>2
  <2>3. QED
    BY <2>1, <2>2
<1>4. CASE PutControl(n)
  <2>1. PICK f \in NewFrames : queue' = Append(queue, f) /\ obj' = [obj EXCEPT ![f] = Control(n)]
    BY <1>4 DEF PutControl
  <2>2. Control(n) \in Object
    BY <1>1, FramesAreObjects
  <2>3. closed' = FALSE
    BY <1>1, <1>4 DEF PutControl
  <2>4. \A g \in Queued : obj'[g] = obj[g]
    BY <1>2, <2>1, <2>2, PutFacts
  <2>5. Cardinality(QueuedControls)' = Cardinality(QueuedControls) + 1
    BY <1>1, <1>2, <1>3, <2>1, <2>3, PutControlKeepsControl
  <2>6. PendTexts' = PendTexts
    BY <1>1, <1>2, <2>1, FreshKeepsPending DEF PendTexts
  <2>7. PendStats' = PendStats
    BY <1>1, <2>4, StatusUnchanged
  <2>8. /\ Len(wControl) \in Nat /\ Cardinality(QueuedControls) \in Nat
        /\ Len(wControl) + Cardinality(QueuedControls) = Len(marks)
    BY <1>1, <1>2, FS_CardinalityType DEF ControlInv, Taken, TypeOK
  <2>9. PendControls' = Append(PendControls, n)
    <3> DEFINE c == Cardinality(QueuedControls)
    <3>1. PendControls' = [i \in 1..(c + 1) |-> Len(wControl) + i]
      BY <1>1, <2>5 DEF PendControls
    <3>2. PendControls = [i \in 1..c |-> Len(wControl) + i] /\ c \in Nat
      BY <2>8 DEF PendControls
    <3>3. Len(wControl) + (c + 1) = n
      BY <2>8
    <3> HIDE DEF c, n
    <3>4. Append(PendControls, n) =
            [i \in 1..(c + 1) |-> IF i = c + 1 THEN n ELSE Len(wControl) + i]
      BY <3>2, <2>8
    <3>5. QED
      BY <3>1, <3>3, <3>4
  <2>10. Contract!AcceptControl
    BY <1>1, <1>3, <2>3, <2>6, <2>7, <2>9
    DEF Contract!AcceptControl, Contract!text, Contract!status, PendTexts, PendStats, PendControls
  <2>11. QED
    BY <2>10
<1>5. CASE ForceClose(n)
  <2>1. UNCHANGED <<queue, obj>> /\ closed' = TRUE
    BY <1>5 DEF ForceClose, CancelAndClose
  <2>2. PendTexts' = PendTexts /\ PendStats' = PendStats /\ PendControls' = PendControls
    BY <1>1, <2>1
    DEF PendTexts, PendingText, PendStats, PendingStatus, PendControls, QueuedControls, Queued
  <2>3. Contract!Close
    BY <1>1, <1>3, <2>1, <2>2
    DEF Contract!Close, Contract!text, Contract!status, PendTexts, PendStats, PendControls
  <2>4. QED
    BY <2>3
<1>6. QED
  BY <1>4, <1>5 DEF OfferControl

(* Taking a frame delivers it: the text of a run, a status, or the next    *)
(* control frame, whose mark is no more than what is on the socket.        *)
LEMMA RefineGet ==
    ASSUME ChannelInv, Get
    PROVE  \/ \E r \in Run : Contract!DeliverText(r)
           \/ Contract!DeliverControl
           \/ \E k \in StatusKey : Contract!DeliverStatus(k)
<1> DEFINE h == Head(queue)
<1>1. TypeOK /\ Tracking /\ TextInv /\ ControlInv /\ BarrierInv /\ ShapeInv
  BY DEF ChannelInv
<1>2. /\ Len(queue) \in Nat \ {0} /\ queue[1] = h
      /\ h \in Queued /\ UNCHANGED <<obj, closed, marks, accepted, statusNo>>
  BY <1>1, GetFacts
<1>3. closed = FALSE /\ closed' = FALSE /\ UNCHANGED dropped
  BY <1>1, <1>2 DEF Get, TypeOK, history
<1>4. /\ \A r \in Run : queuedChunks'[r] =
            IF queuedChunks[r] = h THEN None ELSE queuedChunks[r]
      /\ \A k \in StatusKey : queuedStatus'[k] =
            IF queuedStatus[k] = h THEN None ELSE queuedStatus[k]
  BY DEF Get, Untrack
<1>5. /\ wText' = IF obj[h].kind = "chunk" THEN [wText EXCEPT ![obj[h].key] = @ \o obj[h].text]
                                           ELSE wText
      /\ wStatus' = IF obj[h].kind = "status" THEN [wStatus EXCEPT ![obj[h].key] = obj[h].no]
                                              ELSE wStatus
  BY DEF Get, Deliver
<1>6. \/ /\ IsControl(h) /\ obj[h].no = Len(wControl) + 1
         /\ wControl' = Append(wControl, Len(wControl) + 1)
         /\ Cardinality(QueuedControls) \in Nat \ {0}
         /\ Cardinality(QueuedControls)' = Cardinality(QueuedControls) - 1
      \/ ~IsControl(h) /\ wControl' = wControl /\ QueuedControls' = QueuedControls
  BY <1>1, GetKeepsControl
<1>7. h \in Frame /\ h # None
  BY <1>1, <1>2, ChannelAssumption DEF TypeOK, Queued
<1>8. /\ obj[h].kind = "chunk" => obj[h].key \in Run /\ queuedChunks[obj[h].key] = h
      /\ obj[h].kind = "status" => obj[h].key \in StatusKey /\ queuedStatus[obj[h].key] = h
      /\ \A r \in Run : queuedChunks[r] = h => obj[h].kind = "chunk" /\ obj[h].key = r
      /\ \A k \in StatusKey : queuedStatus[k] = h => obj[h].kind = "status" /\ obj[h].key = k
  BY <1>1, <1>2, <1>7 DEF Tracking, TrackingExact, ChunkQueued, StatusQueued
<1> HIDE DEF h
<1>9. /\ ~IsControl(h) => PendControls' = PendControls
      /\ obj[h].kind # "status" => PendStats' = PendStats
      /\ obj[h].kind # "chunk" => PendTexts' = PendTexts
  <2>1. ~IsControl(h) => PendControls' = PendControls
    BY <1>6 DEF PendControls
  <2>2. ASSUME obj[h].kind # "status" PROVE PendStats' = PendStats
    <3>1. \A k \in StatusKey : queuedStatus'[k] = queuedStatus[k]
      BY <1>4, <1>8, <2>2
    <3>2. QED
      BY <1>2, <3>1 DEF PendStats, PendingStatus
  <2>3. ASSUME obj[h].kind # "chunk" PROVE PendTexts' = PendTexts
    <3>1. \A r \in Run : queuedChunks'[r] = queuedChunks[r]
      BY <1>4, <1>8, <2>3
    <3>2. QED
      BY <1>2, <3>1 DEF PendTexts, PendingText
  <2>4. QED
    BY <2>1, <2>2, <2>3
<1>10. CASE obj[h].kind = "chunk" /\ obj[h].text # <<>>
  <2>1. PICK r \in Run : r = obj[h].key /\ queuedChunks[r] = h
    BY <1>8, <1>10
  <2>2. ~IsControl(h) /\ wControl' = wControl /\ wStatus' = wStatus
    BY <1>5, <1>6, <1>10 DEF IsControl
  <2>3. PendingText(r) = obj[h].text /\ PendTexts[r] = obj[h].text
    BY <1>7, <2>1 DEF PendingText, PendTexts
  <2>4. wText' = [wText EXCEPT ![r] = @ \o PendTexts[r]]
    BY <1>5, <1>10, <2>1, <2>3
  <2>5. PendingText(r)' = <<>>
    BY <1>4, <2>1 DEF PendingText
  <2>6. \A s \in Run \ {r} : PendingText(s)' = PendingText(s)
    BY <1>2, <1>4, <1>8, <2>1 DEF PendingText
  <2>7. PendTexts' = [PendTexts EXCEPT ![r] = <<>>]
    BY <2>5, <2>6 DEF PendTexts
  <2>8. PendStats' = PendStats /\ PendControls' = PendControls
    BY <1>9, <1>10, <2>2
  <2>9. Contract!DeliverText(r)
    BY <1>2, <1>3, <1>10, <2>2, <2>3, <2>4, <2>7, <2>8
    DEF Contract!DeliverText, Contract!control, Contract!status, PendTexts, PendStats, PendControls
  <2>10. QED
    BY <2>1, <2>9
<1>11. CASE obj[h].kind = "status" /\ obj[h].no \in 1..statusNo
  <2>1. PICK k \in StatusKey : k = obj[h].key /\ queuedStatus[k] = h
    BY <1>8, <1>11
  <2>2. ~IsControl(h) /\ wControl' = wControl /\ wText' = wText
    BY <1>5, <1>6, <1>11 DEF IsControl
  <2>3. PendStats[k] = obj[h].no /\ obj[h].no # 0
    BY <1>1, <1>7, <1>11, <2>1 DEF PendStats, PendingStatus, TypeOK
  <2>4. wStatus' = [wStatus EXCEPT ![k] = PendStats[k]]
    BY <1>5, <1>11, <2>1, <2>3
  <2>5. PendingStatus(k)' = 0
    BY <1>4, <2>1 DEF PendingStatus
  <2>6. \A j \in StatusKey \ {k} : PendingStatus(j)' = PendingStatus(j)
    BY <1>2, <1>4, <1>8, <2>1 DEF PendingStatus
  <2>7. PendStats' = [PendStats EXCEPT ![k] = 0]
    BY <2>5, <2>6 DEF PendStats
  <2>8. PendTexts' = PendTexts /\ PendControls' = PendControls
    BY <1>9, <1>11, <2>2
  <2>9. Contract!DeliverStatus(k)
    BY <1>2, <1>3, <2>2, <2>3, <2>4, <2>7, <2>8
    DEF Contract!DeliverStatus, Contract!text, Contract!control, PendTexts, PendStats, PendControls
  <2>10. QED
    BY <2>1, <2>9
<1>12. CASE IsControl(h)
  <2> DEFINE c == Cardinality(QueuedControls)
             n == Len(wControl) + 1
  <2>1. /\ obj[h].no = n /\ wControl' = Append(wControl, n)
        /\ c \in Nat \ {0} /\ Cardinality(QueuedControls)' = c - 1
    BY <1>6, <1>12
  <2>2. wText' = wText /\ wStatus' = wStatus
    BY <1>5, <1>12 DEF IsControl
  <2>3. wControl \in Seq(Nat) /\ Len(wControl) \in Nat /\ Len(wControl') = n
    BY <1>1, <2>1 DEF TypeOK
  <2>4. /\ PendControls = [i \in 1..c |-> Len(wControl) + i]
        /\ PendControls' = [i \in 1..(c - 1) |-> n + i]
    BY <2>1, <2>3 DEF PendControls
  <2>5. PendControls # <<>> /\ Head(PendControls) = n /\ PendControls' = Tail(PendControls)
    <3> DEFINE l == Len(wControl)
               s == [i \in 1..c |-> l + i]
    <3> HIDE DEF c, l
    <3>1. l \in Nat /\ c \in Nat \ {0} /\ n = l + 1
      BY <2>1, <2>3 DEF l
    <3>2. s \in Seq(Nat) /\ Len(s) = c
      BY <3>1
    <3>3. s # <<>> /\ Head(s) = l + 1
      BY <3>1, <3>2
    <3>4. Tail(s) = [i \in 1..(c - 1) |-> s[i + 1]]
      BY <3>1, <3>2
    <3>5. \A i \in 1..(c - 1) : s[i + 1] = (l + 1) + i
      BY <3>1
    <3>6. Tail(s) = [i \in 1..(c - 1) |-> (l + 1) + i]
      BY <3>4, <3>5
    <3>7. PendControls = s /\ PendControls' = [i \in 1..(c - 1) |-> (l + 1) + i]
      BY <2>4, <3>1 DEF l
    <3>8. QED
      BY <3>1, <3>3, <3>6, <3>7
  <2>6. \A r \in Run : marks[n][r] <= Len(wText[r])
    <3> SUFFICES ASSUME NEW r \in Run PROVE marks[obj[queue[1]].no][r] <= Len(wText[r])
      BY <1>2, <2>1
    <3>1. 1 \in 1..Len(queue) /\ IsControl(queue[1])
      BY <1>2, <1>12
    <3>2. \A j \in 1..1 : queue[j] # queuedChunks[r]
      <4>1. queue[1] # queuedChunks[r]
        BY <1>2, <1>8, <1>12 DEF IsControl
      <4>2. QED
        BY <4>1
    <3>3. QED
      BY <1>1, <3>1, <3>2 DEF BarrierInv
  <2>7. PendTexts' = PendTexts /\ PendStats' = PendStats
    BY <1>9, <1>12 DEF IsControl
  <2>8. Contract!DeliverControl
    BY <1>2, <1>3, <2>1, <2>2, <2>5, <2>6, <2>7
    DEF Contract!DeliverControl, Contract!text, Contract!status, PendTexts, PendStats, PendControls
  <2>9. QED
    BY <2>8
<1>13. QED
  BY <1>1, <1>2, <1>10, <1>11, <1>12 DEF ShapeInv

(* The other steps close the channel or do not concern the contract.       *)
LEMMA RefineRest ==
    ASSUME ChannelInv,
           SendDone \/ SendFails \/ Shutdown \/ CloseSocket \/ PeerGone \/ UNCHANGED vars
    PROVE  Contract!Close \/ UNCHANGED Contract!vars
<1>1. /\ UNCHANGED <<queue, queuedChunks, queuedStatus, dropped, statusNo, marks>>
      /\ UNCHANGED <<wText, wStatus, wControl>>
  BY DEF SendDone, SendFails, Shutdown, CloseSocket, PeerGone, vars, dicts, history, written
<1>2. closed \in BOOLEAN /\ (closed' = closed \/ (closed = FALSE /\ closed' = TRUE))
  BY DEF ChannelInv, TypeOK, SendDone, SendFails, Shutdown, CancelAndClose, CloseSocket, PeerGone,
         vars
<1>3. \A f \in Queued : obj'[f] = obj[f]
  <2>1. TypeOK /\ Tracking
    BY DEF ChannelInv
  <2>2. \A f \in Queued : f \in Frame /\ f # sending
    BY <2>1 DEF Tracking, TrackingExact, TypeOK, Queued
  <2>3. QED
    BY <2>1, <2>2
    DEF SendDone, SendFails, Shutdown, CloseSocket, PeerGone, vars, TypeOK
<1>4. PendStats' = PendStats
  BY <1>1, <1>3, StatusUnchanged
<1>5. PendTexts' = PendTexts
  <2>1. \A r \in Run : queuedChunks[r] # None => queuedChunks[r] \in Queued
    BY DEF ChannelInv, Tracking, TrackingExact, ChunkQueued
  <2>2. QED
    BY <1>1, <1>3, <2>1 DEF PendTexts, PendingText
<1>6. PendControls' = PendControls
  <2>1. QueuedControls' = QueuedControls
    BY <1>1, <1>3 DEF QueuedControls, Queued
  <2>2. QED
    BY <1>1, <2>1 DEF PendControls
<1>7. CASE closed' = closed
  BY <1>1, <1>4, <1>5, <1>6, <1>7
  DEF Contract!vars, Contract!text, Contract!control, Contract!status,
      PendTexts, PendStats, PendControls
<1>8. CASE closed = FALSE /\ closed' = TRUE
  BY <1>1, <1>4, <1>5, <1>6, <1>8
  DEF Contract!Close, Contract!text, Contract!status, PendTexts, PendStats, PendControls
<1>9. QED
  BY <1>2, <1>7, <1>8

(* Every step of the channel is a step of the contract or none.            *)
LEMMA RefineStep == ChannelInv /\ [Next]_vars => [Contract!Next]_(Contract!vars)
<1> SUFFICES ASSUME ChannelInv, [Next]_vars PROVE [Contract!Next]_(Contract!vars)
  OBVIOUS
<1>1. ASSUME NEW r \in Run, OfferChunk(r) PROVE Contract!Next
  BY <1>1, RefineChunk DEF Contract!Next
<1>2. ASSUME NEW k \in StatusKey, OfferStatus(k) PROVE Contract!Next
  BY <1>2, RefineStatus DEF Contract!Next
<1>3. CASE OfferControl
  BY <1>3, RefineControl DEF Contract!Next
<1>4. CASE Get
  BY <1>4, RefineGet DEF Contract!Next
<1>5. CASE SendDone \/ SendFails \/ Shutdown \/ CloseSocket \/ PeerGone \/ UNCHANGED vars
  BY <1>5, RefineRest DEF Contract!Next
<1>6. QED
  BY <1>1, <1>2, <1>3, <1>4, <1>5 DEF Next

(* Queue, coalescing in place and sender implement the contract: streams   *)
(* of text and of control frames, delivered whole, in order and each       *)
(* control frame after the text accepted before it.                        *)
THEOREM ContractImplemented == Spec => ImplementsContract
  BY RefineInit, RefineStep, ChannelInvariant, PTL DEF Spec, ImplementsContract, Contract!Spec
=============================================================================
