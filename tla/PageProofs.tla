----------------------------- MODULE PageProofs -----------------------------
(***************************************************************************)
(* Proofs about the Synapse page and the hub: about Models, for any number *)
(* of browsers, models, operations, closed sockets and failed requests,    *)
(* and, in the second half, about SynapsePage, for any number of messages, *)
(* sockets and mishaps.                                                    *)
(***************************************************************************)
EXTENDS Models, SynapsePage, TLAPS

-----------------------------------------------------------------------------
(* The inductive invariant.                                                *)

Choice == Model \cup {None}
OpRec == [who : Client \cup {Voice, None},
          kind : {"done", "set", "put", "message", "voice", "reset"},
          model : Choice,
          at : {"queued", "patch", "reset", "send", "answer", "late", "over"},
          raced : BOOLEAN,
          sock : Nat]

(* What waits on a socket is no PUT and no voice turn, only messages and   *)
(* turns are sent, and a PUT is with the gateway until it is over.         *)
WellFormed(op) ==
    /\ op \in OpRec
    /\ op.at = "queued" => op.kind \in {"set", "message", "reset"}
    /\ op.at = "send" => op.kind \in {"message", "voice"}
    /\ op.kind = "put" => op.at \in {"patch", "answer", "late"}

OpsOK == ops \in Seq(OpRec) /\ \A n \in Ops : WellFormed(ops[n])

ModelType ==
    /\ session \in Choice /\ selected \in Choice /\ stray \in BOOLEAN
    /\ sock \in [Client -> Nat] /\ lost \in [Client -> BOOLEAN]

PageType ==
    /\ pane \in [Client -> [model : Choice, explicit : BOOLEAN, pending : Choice]]
    /\ outbox \in [Client -> Seq(Choice)]

(* The answers are those of the operations that have been answered, each   *)
(* of them once.                                                           *)
Awaited(o, a) ==
    /\ a \in Seq(Nat)
    /\ \A i \in 1 .. Len(a) : a[i] \in 1 .. Len(o) /\ o[a[i]].at = "answer"
    /\ \A i, j \in 1 .. Len(a) : a[i] = a[j] => i = j
    /\ \A n \in 1 .. Len(o) : o[n].at = "answer" => \E i \in 1 .. Len(a) : a[i] = n

(* Unless it was changed behind the hub, the override is the one the hub   *)
(* remembers, or the one the last answer will tell it.                     *)
Recorded(o, a, override, known) ==
    IF a = <<>> THEN known # None => known = override
    ELSE LET last == o[a[Len(a)]] IN override = last.model /\ last.kind # "put"

(* A message that is about to be sent, or will be when it has read that    *)
(* its patch is done.                                                      *)
Meets(op, override) ==
    /\ op.kind \in {"message", "voice"} /\ op.at \in {"send", "answer"}
    /\ op.model # None /\ ~op.raced
    => override = op.model

AnswersInv == Awaited(ops, answers)
RecordInv == ~stray => Recorded(ops, answers, session, selected)
RunInv == \A n \in Ops : Meets(ops[n], session)

Shape == ModelType /\ PageType /\ OpsOK
ModelsInv == Shape /\ AnswersInv /\ RecordInv /\ RunInv

LEMMA NoneApart == None \notin Model /\ Voice \notin Client /\ Default \in Choice
BY ModelsAssumption DEF Choice

LEMMA DoneForm == WellFormed(Done) /\ Done.at = "over" /\ Done.kind = "done"
BY DEF Done, WellFormed, OpRec, Choice

LEMMA Answering == AnswersInv /\ answers # <<>> => Unrecorded
<1> SUFFICES ASSUME AnswersInv, answers # <<>> PROVE Unrecorded
    OBVIOUS
<1>1. 1 \in 1 .. Len(answers)
    BY DEF AnswersInv, Awaited
<1> QED BY <1>1 DEF AnswersInv, Awaited, Unrecorded, Ops

-----------------------------------------------------------------------------
(* The operations.                                                         *)

(* A new operation has not been answered. *)
LEMMA AddKeeps ==
    ASSUME ModelsInv, NEW op, WellFormed(op), op.at # "answer", Meets(op, session),
           ops' = Append(ops, op), UNCHANGED <<gateway, selected>>
    PROVE  OpsOK' /\ AnswersInv' /\ RecordInv' /\ RunInv'
<1>1. /\ ops \in Seq(OpRec) /\ op \in OpRec /\ Len(ops) \in Nat
      /\ UNCHANGED <<session, answers, stray, selected>>
    BY DEF ModelsInv, Shape, OpsOK, WellFormed, gateway
<1>2. /\ ops' \in Seq(OpRec) /\ Len(ops') = Len(ops) + 1
      /\ ops'[Len(ops) + 1] = op
      /\ \A n \in 1 .. Len(ops) : ops'[n] = ops[n]
    BY <1>1
<1>3. \A n \in 1 .. Len(ops') : n \in 1 .. Len(ops) \/ n = Len(ops) + 1
    BY <1>1, <1>2
<1>4. \A n \in 1 .. Len(ops) : n \in 1 .. Len(ops')
    BY <1>1, <1>2
<1>5. OpsOK'
    BY <1>2, <1>3 DEF ModelsInv, Shape, OpsOK, Ops
<1>6. RunInv'
    BY <1>1, <1>2, <1>3 DEF ModelsInv, RunInv, Ops
<1>a. Awaited(ops, answers)
    BY DEF ModelsInv, AnswersInv
<1>7. Awaited(ops', answers)
    <2>1. \A i \in 1 .. Len(answers) :
              answers[i] \in 1 .. Len(ops') /\ ops'[answers[i]].at = "answer"
        BY <1>2, <1>4, <1>a DEF Awaited
    <2>2. \A n \in 1 .. Len(ops') :
              ops'[n].at = "answer" => n \in 1 .. Len(ops) /\ ops[n].at = "answer"
        BY <1>2, <1>3
    <2> QED BY <1>a, <2>1, <2>2 DEF Awaited
<1>8. AnswersInv'
    BY <1>1, <1>7 DEF AnswersInv
<1>9. RecordInv'
    <2>1. SUFFICES ASSUME ~stray PROVE Recorded(ops', answers, session, selected)
        BY <1>1 DEF RecordInv
    <2>2. Recorded(ops, answers, session, selected)
        BY <2>1 DEF ModelsInv, RecordInv
    <2>3. CASE answers = <<>>
        BY <2>2, <2>3 DEF Recorded
    <2>4. CASE answers # <<>>
        <3>1. answers[Len(answers)] \in 1 .. Len(ops)
            BY <1>a, <2>4 DEF Awaited
        <3> QED BY <1>2, <2>2, <2>4, <3>1 DEF Recorded
    <2> QED BY <2>3, <2>4
<1> QED BY <1>5, <1>6, <1>8, <1>9

(* Operations that go on without an answer. *)
LEMMA GoOnKeeps ==
    ASSUME ModelsInv, ops' \in Seq(OpRec), Len(ops') = Len(ops),
           \A n \in Ops : \/ ops'[n] = ops[n]
                          \/ /\ ops[n].at # "answer" /\ ops'[n].at # "answer"
                             /\ WellFormed(ops'[n]) /\ Meets(ops'[n], session),
           UNCHANGED <<session, answers, selected>>, stray' = stray
    PROVE  OpsOK' /\ AnswersInv' /\ RecordInv' /\ RunInv'
<1>1. Len(ops') = Len(ops) /\ Awaited(ops, answers)
    BY DEF ModelsInv, AnswersInv
<1>2. OpsOK'
    BY <1>1 DEF ModelsInv, Shape, OpsOK, Ops
<1>3. RunInv'
    BY <1>1 DEF ModelsInv, RunInv, Ops
<1>4. \A n \in 1 .. Len(ops) : ops'[n].at = "answer" <=> ops[n].at = "answer"
    BY DEF Ops
<1>5. Awaited(ops', answers)
    BY <1>1, <1>4 DEF Awaited
<1>6. \A i \in 1 .. Len(answers) : ops'[answers[i]] = ops[answers[i]]
    BY <1>1 DEF Awaited, Ops
<1>7. RecordInv'
    <2>1. SUFFICES ASSUME ~stray PROVE Recorded(ops', answers, session, selected)
        BY DEF RecordInv
    <2>2. Recorded(ops, answers, session, selected)
        BY <2>1 DEF ModelsInv, RecordInv
    <2>3. CASE answers = <<>>
        BY <2>2, <2>3 DEF Recorded
    <2>4. CASE answers # <<>>
        <3>1. Len(answers) \in 1 .. Len(answers)
            BY <1>1, <2>4 DEF Awaited
        <3> QED BY <1>6, <2>2, <2>4, <3>1 DEF Recorded
    <2> QED BY <2>3, <2>4
<1> QED BY <1>2, <1>3, <1>5, <1>7 DEF AnswersInv

(* One operation goes on without an answer. *)
LEMMA OneGoesOn ==
    ASSUME ModelsInv, NEW n \in Ops, NEW op, ops' = [ops EXCEPT ![n] = op],
           ops[n].at # "answer", op.at # "answer", WellFormed(op), Meets(op, session),
           UNCHANGED <<session, answers, selected>>, stray' = stray
    PROVE  OpsOK' /\ AnswersInv' /\ RecordInv' /\ RunInv'
<1>1. ops \in Seq(OpRec) /\ op \in OpRec /\ n \in 1 .. Len(ops)
    BY DEF ModelsInv, Shape, OpsOK, WellFormed, Ops
<1>2. ops' \in Seq(OpRec) /\ Len(ops') = Len(ops)
    BY <1>1
<1>3. \A k \in Ops : ops'[k] = IF k = n THEN op ELSE ops[k]
    BY <1>1 DEF Ops
<1> QED BY <1>2, <1>3, GoOnKeeps

(* The first answer is read: the operation is over or goes on to its send, *)
(* and the hub remembers the model, if it is told of it.                   *)
LEMMA ReadKeeps ==
    ASSUME ModelsInv, NEW n \in Ops, Reads(n), NEW op, ops' = [ops EXCEPT ![n] = op],
           op.at # "answer", WellFormed(op), Meets(op, session),
           \/ selected' \in {ops[n].model, None}
           \/ ops[n].kind = "put" /\ UNCHANGED selected
    PROVE  OpsOK' /\ AnswersInv' /\ RecordInv' /\ RunInv'
<1>1. /\ ops \in Seq(OpRec) /\ op \in OpRec /\ n \in 1 .. Len(ops) /\ Len(ops) \in Nat
      /\ Awaited(ops, answers)
    BY DEF ModelsInv, AnswersInv, Shape, OpsOK, WellFormed, Ops
<1>2. /\ answers \in Seq(Nat) /\ answers # <<>> /\ n = answers[1] /\ answers' = Tail(answers)
      /\ UNCHANGED <<session, stray>>
    BY <1>1 DEF Reads, Awaited
<1>3. /\ ops' \in Seq(OpRec) /\ Len(ops') = Len(ops)
      /\ \A k \in 1 .. Len(ops) : ops'[k] = IF k = n THEN op ELSE ops[k]
    BY <1>1
<1>4. /\ answers' \in Seq(Nat) /\ Len(answers) \in Nat /\ Len(answers) > 0
      /\ Len(answers') = Len(answers) - 1
      /\ \A i \in 1 .. Len(answers') : i + 1 \in 1 .. Len(answers) /\ answers'[i] = answers[i + 1]
    BY <1>2
<1>5. OpsOK'
    BY <1>3 DEF ModelsInv, Shape, OpsOK, Ops
<1>6. RunInv'
    BY <1>2, <1>3 DEF ModelsInv, RunInv, Ops
<1>7. \A i \in 1 .. Len(answers') : answers'[i] # n
    <2>1. SUFFICES ASSUME NEW i \in 1 .. Len(answers'), answers[i + 1] = answers[1] PROVE FALSE
        BY <1>2, <1>4
    <2>2. 1 \in 1 .. Len(answers) /\ i + 1 \in 1 .. Len(answers)
        BY <1>4
    <2>3. i + 1 = 1
        BY <1>1, <2>1, <2>2 DEF Awaited
    <2> QED BY <1>4, <2>3
<1>8. Awaited(ops', answers')
    <2>1. ASSUME NEW i \in 1 .. Len(answers')
          PROVE  answers'[i] \in 1 .. Len(ops) /\ ops[answers'[i]].at = "answer"
        <3>1. i + 1 \in 1 .. Len(answers) /\ answers'[i] = answers[i + 1]
            BY <1>4
        <3>2. answers[i + 1] \in 1 .. Len(ops) /\ ops[answers[i + 1]].at = "answer"
            BY <1>1, <3>1 DEF Awaited
        <3> QED BY <3>1, <3>2
    <2>2. \A i \in 1 .. Len(answers') :
              answers'[i] \in 1 .. Len(ops') /\ ops'[answers'[i]].at = "answer"
        BY <1>3, <1>7, <2>1
    <2>3. ASSUME NEW i \in 1 .. Len(answers'), NEW j \in 1 .. Len(answers'),
                 answers'[i] = answers'[j]
          PROVE  i = j
        <3>1. /\ i + 1 \in 1 .. Len(answers) /\ answers'[i] = answers[i + 1]
              /\ j + 1 \in 1 .. Len(answers) /\ answers'[j] = answers[j + 1]
            BY <1>4
        <3>2. i + 1 = j + 1
            BY <1>1, <2>3, <3>1 DEF Awaited
        <3> QED BY <1>4, <3>2
    <2>4. ASSUME NEW k \in 1 .. Len(ops'), ops'[k].at = "answer"
          PROVE  \E i \in 1 .. Len(answers') : answers'[i] = k
        <3>1. k # n /\ k \in 1 .. Len(ops) /\ ops[k].at = "answer"
            BY <1>3, <2>4
        <3>2. PICK i \in 1 .. Len(answers) : answers[i] = k
            BY <1>1, <3>1 DEF Awaited
        <3>3. i - 1 \in 1 .. Len(answers') /\ (i - 1) + 1 = i
            BY <1>2, <1>4, <3>1, <3>2
        <3> QED BY <1>4, <3>2, <3>3
    <2> QED BY <1>4, <2>2, <2>3, <2>4 DEF Awaited
<1>9. RecordInv'
    <2>1. SUFFICES ASSUME ~stray PROVE Recorded(ops', answers', session, selected')
        BY <1>2 DEF RecordInv
    <2>2. /\ session = ops[answers[Len(answers)]].model
          /\ ops[answers[Len(answers)]].kind # "put"
        BY <1>2, <2>1 DEF ModelsInv, RecordInv, Recorded
    <2>3. CASE answers' = <<>>
        <3>1. Len(answers) = 1
            BY <1>4, <2>3
        <3> QED BY <1>2, <2>2, <2>3, <3>1 DEF Recorded
    <2>4. CASE answers' # <<>>
        <3>1. Len(answers') \in 1 .. Len(answers') /\ Len(answers') + 1 = Len(answers)
            BY <1>4, <2>4
        <3>2. answers'[Len(answers')] = answers[Len(answers)]
            BY <1>4, <3>1
        <3>3. answers'[Len(answers')] \in 1 .. Len(ops) /\ answers'[Len(answers')] # n
            BY <1>3, <1>7, <1>8, <3>1 DEF Awaited
        <3>4. ops'[answers'[Len(answers')]] = ops[answers[Len(answers)]]
            BY <1>3, <3>2, <3>3
        <3> QED BY <2>2, <2>4, <3>4 DEF Recorded
    <2> QED BY <2>3, <2>4
<1> QED BY <1>5, <1>6, <1>8, <1>9 DEF AnswersInv


LEMMA RemoveAtFacts ==
    ASSUME NEW S, NEW s \in Seq(S), NEW i \in 1 .. Len(s)
    PROVE  /\ RemoveAt(s, i) \in Seq(S) /\ Len(RemoveAt(s, i)) = Len(s) - 1
           /\ \A j \in 1 .. Len(s) - 1 :
                  RemoveAt(s, i)[j] = IF j < i THEN s[j] ELSE s[j + 1]
<1> DEFINE a == SubSeq(s, 1, i - 1)
           b == SubSeq(s, i + 1, Len(s))
<1>0. Len(s) \in Nat /\ i \in Nat /\ 1 <= i /\ i <= Len(s)
    OBVIOUS
<1>1. a \in Seq(S) /\ Len(a) = i - 1 /\ \A j \in 1 .. i - 1 : a[j] = s[j]
    BY <1>0
<1>2. b \in Seq(S) /\ Len(b) = Len(s) - i /\ \A j \in 1 .. Len(s) - i : b[j] = s[i + j]
    BY <1>0
<1>3. RemoveAt(s, i) = a \o b
    BY DEF RemoveAt
<1> HIDE DEF a, b
<1>c. a \in Seq(S) /\ b \in Seq(S)
    BY <1>1, <1>2
<1>a. a \o b \in Seq(S)
    BY <1>c
<1>b. /\ Len(a \o b) = Len(a) + Len(b)
      /\ \A j \in 1 .. Len(a) + Len(b) :
             (a \o b)[j] = IF j <= Len(a) THEN a[j] ELSE b[j - Len(a)]
    BY <1>c
<1>4. /\ a \o b \in Seq(S) /\ Len(a \o b) = Len(s) - 1
      /\ \A j \in 1 .. Len(s) - 1 : (a \o b)[j] = IF j <= i - 1 THEN a[j] ELSE b[j - (i - 1)]
    <2>1. Len(a) + Len(b) = Len(s) - 1
        BY <1>0, <1>1, <1>2
    <2> QED BY <1>a, <1>b, <1>1, <2>1
<1>5. ASSUME NEW j \in 1 .. Len(s) - 1
      PROVE  (a \o b)[j] = IF j < i THEN s[j] ELSE s[j + 1]
    <2>1. CASE j < i
        <3>1. j \in 1 .. i - 1 /\ j <= i - 1
            BY <1>0, <2>1
        <3>2. (a \o b)[j] = a[j] /\ a[j] = s[j]
            BY <1>1, <1>4, <3>1
        <3> QED BY <2>1, <3>2
    <2>2. CASE ~(j < i)
        <3>1. j - (i - 1) \in 1 .. Len(s) - i /\ i + (j - (i - 1)) = j + 1
            BY <1>0, <2>2
        <3>2. b[j - (i - 1)] = s[j + 1]
            BY <1>2, <3>1
        <3>3. ~(j <= i - 1)
            BY <1>0, <2>2
        <3>4. (a \o b)[j] = b[j - (i - 1)]
            BY <1>4, <3>3
        <3> QED BY <2>2, <3>2, <3>4
    <2> QED BY <2>1, <2>2
<1> QED BY <1>3, <1>4, <1>5

(* The answer to an operation that is given up is not read. *)
LEMMA DiscardKeeps ==
    ASSUME ModelsInv, NEW n \in Ops, ops[n].at = "answer", Discards(n), Ends(n), stray',
           UNCHANGED <<session, selected>>
    PROVE  OpsOK' /\ AnswersInv' /\ RecordInv' /\ RunInv'
<1>1. /\ ops \in Seq(OpRec) /\ n \in 1 .. Len(ops) /\ Len(ops) \in Nat
      /\ Awaited(ops, answers) /\ answers \in Seq(Nat)
    BY DEF ModelsInv, AnswersInv, Shape, OpsOK, Ops, Awaited
<1>2. PICK d \in 1 .. Len(answers) : answers[d] = n /\ answers' = RemoveAt(answers, d)
    <2>1. \E i \in 1 .. Len(answers) : answers[i] = n
        BY <1>1 DEF Awaited
    <2>2. n \in ToSet(answers)
        BY <2>1 DEF ToSet
    <2> QED BY <2>2 DEF Discards
<1>d. Done \in OpRec
    BY DoneForm DEF WellFormed
<1>3. /\ ops' \in Seq(OpRec) /\ Len(ops') = Len(ops)
      /\ \A k \in 1 .. Len(ops) : ops'[k] = IF k = n THEN Done ELSE ops[k]
    BY <1>1, <1>d DEF Ends
<1>4. /\ answers' \in Seq(Nat) /\ Len(answers') = Len(answers) - 1
      /\ \A j \in 1 .. Len(answers) - 1 :
             answers'[j] = IF j < d THEN answers[j] ELSE answers[j + 1]
    BY <1>1, <1>2, RemoveAtFacts
<1>5. /\ Len(answers) \in Nat /\ d \in Nat /\ 1 <= d /\ d <= Len(answers)
    BY <1>1, <1>2
<1>6. OpsOK'
    BY <1>3, DoneForm DEF ModelsInv, Shape, OpsOK, Ops
<1>7. RunInv'
    BY <1>3, DoneForm DEF ModelsInv, RunInv, Ops, Meets
<1>8. ASSUME NEW j \in 1 .. Len(answers')
      PROVE  \E i \in 1 .. Len(answers) :
                 i # d /\ answers'[j] = answers[i] /\ i = (IF j < d THEN j ELSE j + 1)
    <2>1. CASE j < d
        BY <1>4, <1>5, <2>1
    <2>2. CASE ~(j < d)
        BY <1>4, <1>5, <2>2
    <2> QED BY <2>1, <2>2
<1>9. Awaited(ops', answers')
    <2>1. ASSUME NEW j \in 1 .. Len(answers')
          PROVE  answers'[j] \in 1 .. Len(ops') /\ ops'[answers'[j]].at = "answer"
        <3>1. PICK i \in 1 .. Len(answers) : i # d /\ answers'[j] = answers[i]
            BY <1>8
        <3>2. answers[i] # n
            BY <1>1, <1>2, <3>1 DEF Awaited
        <3>3. answers[i] \in 1 .. Len(ops) /\ ops[answers[i]].at = "answer"
            BY <1>1 DEF Awaited
        <3> QED BY <1>3, <3>1, <3>2, <3>3
    <2>2. ASSUME NEW j \in 1 .. Len(answers'), NEW k \in 1 .. Len(answers'),
                 answers'[j] = answers'[k]
          PROVE  j = k
        <3>1. PICK x \in 1 .. Len(answers) :
                  answers'[j] = answers[x] /\ x = (IF j < d THEN j ELSE j + 1)
            BY <1>8
        <3>2. PICK y \in 1 .. Len(answers) :
                  answers'[k] = answers[y] /\ y = (IF k < d THEN k ELSE k + 1)
            BY <1>8
        <3>3. x = y
            BY <1>1, <2>2, <3>1, <3>2 DEF Awaited
        <3> QED BY <1>4, <1>5, <3>1, <3>2, <3>3
    <2>3. ASSUME NEW k \in 1 .. Len(ops'), ops'[k].at = "answer"
          PROVE  \E j \in 1 .. Len(answers') : answers'[j] = k
        <3>1. k # n /\ k \in 1 .. Len(ops) /\ ops[k].at = "answer"
            BY <1>3, <2>3, DoneForm
        <3>2. PICK i \in 1 .. Len(answers) : answers[i] = k
            BY <1>1, <3>1 DEF Awaited
        <3>3. i # d
            BY <1>2, <3>1, <3>2
        <3>4. CASE i < d
            <4>1. i \in 1 .. Len(answers') /\ answers'[i] = answers[i]
                BY <1>4, <1>5, <3>4
            <4> QED BY <3>2, <4>1
        <3>5. CASE ~(i < d)
            <4>1. i - 1 \in 1 .. Len(answers') /\ ~(i - 1 < d) /\ (i - 1) + 1 = i
                BY <1>4, <1>5, <3>3, <3>5
            <4>2. answers'[i - 1] = answers[i]
                BY <1>4, <1>5, <4>1
            <4> QED BY <3>2, <4>1, <4>2
        <3> QED BY <3>4, <3>5
    <2> QED BY <1>4, <2>1, <2>2, <2>3 DEF Awaited
<1> QED BY <1>6, <1>7, <1>9 DEF AnswersInv, RecordInv

(* The override changes: a message that is about to be sent is told.       *)
LEMMA ChangeForm ==
    ASSUME ModelsInv, NEW n \in Ops, NEW after, WellFormed(after),
           Changes(n, ops[n].model, after)
    PROVE  /\ OpsOK' /\ Len(ops') = Len(ops)
           /\ session' = ops[n].model /\ session' \in Choice
           /\ ops'[n] = after
           /\ \A k \in Ops : k # n =>
                /\ ops'[k].at = ops[k].at /\ ops'[k].kind = ops[k].kind
                /\ ops'[k].model = ops[k].model
                /\ Meets(ops'[k], session')
<1> DEFINE m == ops[n].model
           marked(k) == [ops[k] EXCEPT !.raced = @ \/ (m # session /\ Sends(k) /\ Running(k))]
           next(k) == IF k = n THEN after ELSE marked(k)
<1>1. /\ ops \in Seq(OpRec) /\ Len(ops) \in Nat /\ \A k \in Ops : WellFormed(ops[k])
      /\ Ops = 1 .. Len(ops) /\ after \in OpRec
    BY DEF ModelsInv, Shape, OpsOK, WellFormed, Ops
<1>2. session' = m /\ ops' = [k \in Ops |-> next(k)]
    BY DEF Changes
<1>3. \A k \in Ops : ops[k] \in OpRec
    BY <1>1
<1>4. ASSUME NEW k \in Ops
      PROVE  /\ marked(k) \in OpRec
             /\ marked(k).at = ops[k].at /\ marked(k).kind = ops[k].kind
             /\ marked(k).model = ops[k].model
             /\ marked(k).raced = (ops[k].raced \/ (m # session /\ Sends(k) /\ Running(k)))
    <2> DEFINE flag == m # session /\ Sends(k) /\ Running(k)
    <2>1. flag \in BOOLEAN
        OBVIOUS
    <2>2. ops[k] \in OpRec
        BY <1>3
    <2> HIDE DEF flag
    <2>3. [ops[k] EXCEPT !.raced = @ \/ flag] \in OpRec
        BY <2>1, <2>2 DEF OpRec
    <2>4. /\ [ops[k] EXCEPT !.raced = @ \/ flag].at = ops[k].at
          /\ [ops[k] EXCEPT !.raced = @ \/ flag].kind = ops[k].kind
          /\ [ops[k] EXCEPT !.raced = @ \/ flag].model = ops[k].model
          /\ [ops[k] EXCEPT !.raced = @ \/ flag].raced = (ops[k].raced \/ flag)
        BY <2>2 DEF OpRec
    <2> QED BY <2>3, <2>4 DEF flag
<1>5. ASSUME NEW k \in Ops
      PROVE  WellFormed(marked(k)) /\ Meets(marked(k), m)
    <2>1. WellFormed(ops[k])
        BY <1>1
    <2>2. WellFormed(marked(k))
        BY <1>4, <2>1 DEF WellFormed
    <2>3. SUFFICES ASSUME ops[k].kind \in {"message", "voice"}, ops[k].at \in {"send", "answer"},
                          ops[k].model # None, ~marked(k).raced
                   PROVE  m = ops[k].model
        BY <1>4, <2>2 DEF Meets
    <2>4. Sends(k) /\ Running(k)
        BY <2>3 DEF Sends, Running
    <2>5. ~ops[k].raced /\ m = session
        BY <1>4, <2>3, <2>4
    <2>6. Meets(ops[k], session)
        BY DEF ModelsInv, RunInv
    <2> QED BY <2>3, <2>5, <2>6 DEF Meets
<1> HIDE DEF marked
<1>6. \A k \in Ops : next(k) \in OpRec
    BY <1>1, <1>4
<1>7. /\ \A k \in Ops : k # n => ops'[k] = marked(k)
      /\ ops'[n] = after
    BY <1>2
<1> HIDE DEF next
<1>8. ops' \in Seq(OpRec) /\ Len(ops') = Len(ops)
    BY <1>1, <1>2, <1>6
<1>9. OpsOK'
    <2>1. \A k \in 1 .. Len(ops') : WellFormed(ops'[k])
        BY <1>1, <1>5, <1>7, <1>8
    <2> QED BY <1>8, <2>1 DEF OpsOK, Ops
<1>10. m \in Choice
    BY <1>3 DEF OpRec
<1>11. ASSUME NEW k \in Ops, k # n
       PROVE  /\ ops'[k].at = ops[k].at /\ ops'[k].kind = ops[k].kind
              /\ ops'[k].model = ops[k].model
              /\ Meets(ops'[k], session')
    BY <1>2, <1>4, <1>5, <1>7, <1>11
<1> QED BY <1>2, <1>7, <1>8, <1>9, <1>10, <1>11

LEMMA TakeKeeps ==
    ASSUME ModelsInv, NEW n \in Ops, TakesUp(n)
    PROVE  OpsOK' /\ AnswersInv' /\ RecordInv' /\ RunInv' /\ session' \in Choice
<1> DEFINE after == [ops[n] EXCEPT !.at = "answer", !.raced = FALSE]
<1>1. /\ ops \in Seq(OpRec) /\ Len(ops) \in Nat /\ WellFormed(ops[n]) /\ ops[n] \in OpRec
      /\ n \in 1 .. Len(ops) /\ n \in Nat /\ Ops = 1 .. Len(ops)
      /\ Awaited(ops, answers) /\ answers \in Seq(Nat) /\ Len(answers) \in Nat
    <2>1. /\ ops \in Seq(OpRec) /\ WellFormed(ops[n]) /\ Awaited(ops, answers)
          /\ Ops = 1 .. Len(ops)
        BY DEF ModelsInv, AnswersInv, Shape, OpsOK, Ops
    <2>2. ops[n] \in OpRec
        BY <2>1 DEF WellFormed
    <2>3. answers \in Seq(Nat)
        BY <2>1 DEF Awaited
    <2>4. Len(ops) \in Nat /\ Len(answers) \in Nat
        BY <2>1, <2>3
    <2>5. n \in 1 .. Len(ops) /\ n \in Nat
        BY <2>1, <2>4
    <2> QED BY <2>1, <2>2, <2>3, <2>4, <2>5
<1>2. /\ ops[n].at \in {"patch", "reset"} /\ Changes(n, ops[n].model, after)
      /\ answers' = Append(answers, n) /\ stray' = (ops[n].kind = "put")
    BY DEF TakesUp
<1>3. /\ after.at = "answer" /\ after.kind = ops[n].kind /\ after.model = ops[n].model
      /\ WellFormed(after)
    BY <1>1 DEF WellFormed, OpRec
<1> HIDE DEF after
<1>4. /\ OpsOK' /\ Len(ops') = Len(ops)
      /\ session' = ops[n].model /\ session' \in Choice
      /\ ops'[n] = after
      /\ \A k \in Ops : k # n =>
            /\ ops'[k].at = ops[k].at /\ ops'[k].kind = ops[k].kind
            /\ ops'[k].model = ops[k].model
            /\ Meets(ops'[k], session')
    BY <1>2, <1>3, ChangeForm
<1>5. RunInv'
    <2>1. Meets(ops'[n], session')
        BY <1>3, <1>4 DEF Meets
    <2> QED BY <1>1, <1>4, <2>1 DEF RunInv, Ops
<1>6. /\ Len(answers') = Len(answers) + 1 /\ answers' \in Seq(Nat)
      /\ answers'[Len(answers) + 1] = n
      /\ \A i \in 1 .. Len(answers) : answers'[i] = answers[i]
      /\ \A i \in 1 .. Len(answers') : i \in 1 .. Len(answers) \/ i = Len(answers) + 1
      /\ \A i \in 1 .. Len(answers) : i \in 1 .. Len(answers')
      /\ Len(answers) + 1 \in 1 .. Len(answers')
    <2>1. answers' \in Seq(Nat) /\ Len(answers') = Len(answers) + 1
        BY <1>1, <1>2
    <2>2. /\ answers'[Len(answers) + 1] = n
          /\ \A i \in 1 .. Len(answers) : answers'[i] = answers[i]
        BY <1>1, <1>2
    <2> QED BY <1>1, <2>1, <2>2
<1>7. \A i \in 1 .. Len(answers) :
          answers[i] \in 1 .. Len(ops) /\ ops[answers[i]].at = "answer" /\ answers[i] # n
    BY <1>1, <1>2 DEF Awaited
<1>8. Awaited(ops', answers')
    <2>1. ASSUME NEW i \in 1 .. Len(answers')
          PROVE  answers'[i] \in 1 .. Len(ops') /\ ops'[answers'[i]].at = "answer"
        <3>1. CASE i \in 1 .. Len(answers)
            <4>1. /\ answers'[i] = answers[i] /\ answers[i] \in 1 .. Len(ops)
                  /\ ops[answers[i]].at = "answer" /\ answers[i] # n
                BY <1>6, <1>7, <3>1
            <4>2. ops'[answers[i]].at = ops[answers[i]].at
                BY <1>1, <1>4, <4>1
            <4> QED BY <1>4, <4>1, <4>2
        <3>2. CASE i = Len(answers) + 1
            BY <1>1, <1>3, <1>4, <1>6, <3>2
        <3> QED BY <1>6, <3>1, <3>2
    <2>2. ASSUME NEW i \in 1 .. Len(answers'), NEW j \in 1 .. Len(answers'),
                 answers'[i] = answers'[j]
          PROVE  i = j
        <3>1. CASE i \in 1 .. Len(answers) /\ j \in 1 .. Len(answers)
            BY <1>1, <1>6, <2>2, <3>1 DEF Awaited
        <3>2. CASE i \notin 1 .. Len(answers) \/ j \notin 1 .. Len(answers)
            BY <1>6, <1>7, <2>2, <3>2
        <3> QED BY <3>1, <3>2
    <2>3. ASSUME NEW k \in 1 .. Len(ops'), ops'[k].at = "answer"
          PROVE  \E i \in 1 .. Len(answers') : answers'[i] = k
        <3>1. CASE k = n
            BY <1>6, <3>1
        <3>2. CASE k # n
            <4>1. k \in 1 .. Len(ops) /\ ops[k].at = "answer"
                BY <1>1, <1>4, <2>3, <3>2
            <4>2. PICK i \in 1 .. Len(answers) : answers[i] = k
                BY <1>1, <4>1 DEF Awaited
            <4> QED BY <1>6, <4>2
        <3> QED BY <3>1, <3>2
    <2> QED BY <1>6, <2>1, <2>2, <2>3 DEF Awaited
<1>9. RecordInv'
    <2>1. SUFFICES ASSUME ops[n].kind # "put"
                   PROVE  Recorded(ops', answers', session', selected')
        BY <1>2 DEF RecordInv
    <2>2. answers' # <<>> /\ answers'[Len(answers')] = n
        BY <1>1, <1>2, <1>6
    <2> QED BY <1>3, <1>4, <2>1, <2>2 DEF Recorded
<1> QED BY <1>4, <1>5, <1>8, <1>9 DEF AnswersInv

LEMMA TakeLateKeeps ==
    ASSUME ModelsInv, NEW n \in Ops, TakesUpLate(n)
    PROVE  OpsOK' /\ AnswersInv' /\ RecordInv' /\ RunInv' /\ session' \in Choice
<1>1. /\ Ops = 1 .. Len(ops) /\ Awaited(ops, answers)
      /\ ops[n].at = "late" /\ Changes(n, ops[n].model, Done)
      /\ answers' = answers /\ stray'
    BY DEF ModelsInv, AnswersInv, Ops, TakesUpLate
<1>2. /\ OpsOK' /\ Len(ops') = Len(ops)
      /\ session' = ops[n].model /\ session' \in Choice
      /\ ops'[n] = Done
      /\ \A k \in Ops : k # n => ops'[k].at = ops[k].at /\ Meets(ops'[k], session')
    BY <1>1, DoneForm, ChangeForm
<1>3. RunInv'
    <2>1. Meets(ops'[n], session')
        BY <1>2, DoneForm DEF Meets
    <2> QED BY <1>1, <1>2, <2>1 DEF RunInv, Ops
<1>4. \A k \in 1 .. Len(ops) : ops'[k].at = "answer" <=> ops[k].at = "answer"
    BY <1>1, <1>2, DoneForm
<1>5. Awaited(ops', answers)
    BY <1>1, <1>2, <1>4 DEF Awaited
<1> QED BY <1>1, <1>2, <1>3, <1>5 DEF AnswersInv, RecordInv

(* A message whose patch is spared finds the model it needs in the session. *)
LEMMA EnsureForm ==
    ASSUME ModelsInv, NEW op, WellFormed(op), op.kind \in {"message", "voice"}
    PROVE  /\ WellFormed(EnsureAgentModel(op)) /\ EnsureAgentModel(op).at # "answer"
           /\ Meets(EnsureAgentModel(op), session)
<1> DEFINE m == MessageModel(op.model)
           flag == Unrecorded \/ stray
           spared == [op EXCEPT !.model = m, !.at = "send", !.raced = flag]
           patched == [op EXCEPT !.model = m, !.at = "patch"]
<1>1. op \in OpRec /\ stray \in BOOLEAN
    BY DEF ModelsInv, Shape, ModelType, WellFormed
<1>2. m \in Choice
    BY <1>1, NoneApart DEF OpRec, MessageModel
<1>3. flag \in BOOLEAN
    BY DEF Unrecorded
<1>4. EnsureAgentModel(op) = IF m = None \/ selected = m THEN spared ELSE patched
    BY DEF EnsureAgentModel
<1>5. flag \/ answers = <<>>
    BY Answering DEF ModelsInv
<1> HIDE DEF m, flag
<1>6. /\ spared \in OpRec /\ spared.model = m /\ spared.at = "send" /\ spared.raced = flag
      /\ spared.kind = op.kind
    BY <1>1, <1>2, <1>3 DEF OpRec
<1>7. /\ patched \in OpRec /\ patched.at = "patch"
    BY <1>1, <1>2 DEF OpRec
<1> HIDE DEF spared, patched
<1>8. CASE m = None \/ selected = m
    <2>1. EnsureAgentModel(op) = spared
        BY <1>4, <1>8
    <2>2. WellFormed(spared)
        BY <1>6 DEF WellFormed
    <2>3. ASSUME m # None, ~flag PROVE session = m
        <3>1. ~stray /\ answers = <<>> /\ selected = m
            BY <1>5, <1>8, <2>3 DEF flag
        <3>2. Recorded(ops, answers, session, selected)
            BY <3>1 DEF ModelsInv, RecordInv
        <3> QED BY <2>3, <3>1, <3>2 DEF Recorded
    <2>4. Meets(spared, session)
        BY <1>6, <2>3 DEF Meets
    <2> QED BY <1>6, <2>1, <2>2, <2>4
<1>9. CASE ~(m = None \/ selected = m)
    BY <1>4, <1>7, <1>9 DEF WellFormed, Meets
<1> QED BY <1>8, <1>9

LEMMA OpForm ==
    ASSUME ModelType, NEW who \in Client \cup {Voice},
           NEW kind \in {"set", "put", "message", "voice", "reset"}, NEW m \in Choice,
           NEW at \in {"queued", "send"}
    PROVE  /\ Op(who, kind, m, at) \in OpRec
           /\ Op(who, kind, m, at).kind = kind /\ Op(who, kind, m, at).at = at
<1>1. (IF who \in Client THEN sock[who] ELSE 0) \in Nat
    BY DEF ModelType
<1> QED BY <1>1 DEF Op, OpRec

LEMMA PatchForm ==
    ASSUME NEW op \in OpRec
    PROVE  WellFormed(SetAgentModel(op)) /\ SetAgentModel(op).at = "patch"
BY DEF SetAgentModel, WellFormed, OpRec

LEMMA ReplyKeeps ==
    ASSUME PageType, NEW c, NEW m \in Choice, Reply(c, m)
    PROVE  outbox' \in [Client -> Seq(Choice)]
<1>1. \A d \in Client : Append(outbox[d], m) \in Seq(Choice)
    BY DEF PageType
<1> QED BY <1>1 DEF PageType, Reply

LEMMA ConfirmKeeps ==
    ASSUME PageType, NEW c, NEW m \in Choice, ConfirmModel(c, m)
    PROVE  pane' \in [Client -> [model : Choice, explicit : BOOLEAN, pending : Choice]]
<1>1. None \in Choice
    BY DEF Choice
<1> QED BY <1>1 DEF PageType, ConfirmModel

LEMMA ClearKeeps ==
    ASSUME PageType, NEW c, ClearPendingModel(c)
    PROVE  pane' \in [Client -> [model : Choice, explicit : BOOLEAN, pending : Choice]]
<1>1. None \in Choice
    BY DEF Choice
<1>2. \A d \in Client : [pane[d] EXCEPT !.pending = None]
                            \in [model : Choice, explicit : BOOLEAN, pending : Choice]
    BY <1>1 DEF PageType
<1> DEFINE next(d) == IF d = c THEN [pane[d] EXCEPT !.pending = None] ELSE pane[d]
<1>3. pane' = [d \in Client |-> next(d)]
    BY DEF PageType, ClearPendingModel
<1>4. \A d \in Client : pane[d] \in [model : Choice, explicit : BOOLEAN, pending : Choice]
    BY DEF PageType
<1>5. \A d \in Client : next(d) \in [model : Choice, explicit : BOOLEAN, pending : Choice]
    BY <1>2, <1>4
<1> HIDE DEF next
<1> QED BY <1>3, <1>5

-----------------------------------------------------------------------------
(* The steps.                                                              *)

LEMMA PaneSteps ==
    ASSUME ModelsInv, NEW c \in Client,
           \/ \E m \in Model : SetPaneModel(c, m)
           \/ SendPaneMessage(c) \/ SendReset(c) \/ OnReply(c)
           \/ SocketCloses(c) \/ Reconnects(c)
    PROVE  ModelsInv'
<1>1. /\ ModelType /\ PageType /\ Model \subseteq Choice /\ None \in Choice
      /\ ops \in Seq(OpRec) /\ \A n \in Ops : WellFormed(ops[n])
    BY DEF ModelsInv, Shape, OpsOK, Choice
<1>2. ASSUME NEW m \in Model, SetPaneModel(c, m) PROVE ModelsInv'
    <2> DEFINE op == IF open[c] THEN Op(c, "set", m, "queued")
                     ELSE SetAgentModel(Op(c, "put", m, "queued"))
    <2>1. /\ Op(c, "set", m, "queued") \in OpRec
          /\ Op(c, "set", m, "queued").kind = "set" /\ Op(c, "set", m, "queued").at = "queued"
          /\ Op(c, "put", m, "queued") \in OpRec
        BY <1>1, OpForm
    <2>2. WellFormed(op) /\ op.at # "answer" /\ Meets(op, session)
        BY <2>1, PatchForm DEF WellFormed, Meets
    <2>3. ops' = Append(ops, op) /\ UNCHANGED <<gateway, selected>>
        BY <1>2 DEF SetPaneModel, Adds
    <2> HIDE DEF op
    <2>4. OpsOK' /\ AnswersInv' /\ RecordInv' /\ RunInv'
        BY <2>2, <2>3, AddKeeps
    <2>5. [pane[c] EXCEPT !.pending = m] \in [model : Choice, explicit : BOOLEAN, pending : Choice]
        BY <1>1 DEF PageType
    <2>6. PageType'
        BY <1>1, <1>2, <2>5 DEF PageType, SetPaneModel
    <2>7. ModelType'
        BY <1>1, <1>2 DEF ModelType, SetPaneModel, gateway
    <2> QED BY <2>4, <2>6, <2>7 DEF ModelsInv, Shape
<1>3. ASSUME SendPaneMessage(c) PROVE ModelsInv'
    <2> DEFINE m == IF pane[c].explicit THEN pane[c].model ELSE None
               op == Op(c, "message", m, "queued")
    <2>1. m \in Choice
        BY <1>1 DEF PageType
    <2> HIDE DEF m
    <2>2. op \in OpRec /\ op.kind = "message" /\ op.at = "queued"
        BY <1>1, <2>1, OpForm
    <2>3. WellFormed(op) /\ op.at # "answer" /\ Meets(op, session)
        BY <2>2 DEF WellFormed, Meets
    <2>4. ops' = Append(ops, op) /\ UNCHANGED <<gateway, selected>>
        BY <1>3 DEF SendPaneMessage, Adds, m
    <2> HIDE DEF op
    <2>5. OpsOK' /\ AnswersInv' /\ RecordInv' /\ RunInv'
        BY <2>3, <2>4, AddKeeps
    <2>6. ModelType' /\ PageType'
        BY <1>1, <1>3 DEF ModelType, PageType, SendPaneMessage, gateway, page
    <2> QED BY <2>5, <2>6 DEF ModelsInv, Shape
<1>4. ASSUME SendReset(c) PROVE ModelsInv'
    <2> DEFINE op == Op(c, "reset", None, "queued")
    <2>1. op \in OpRec /\ op.kind = "reset" /\ op.at = "queued"
        BY <1>1, OpForm
    <2>2. WellFormed(op) /\ op.at # "answer" /\ Meets(op, session)
        BY <2>1 DEF WellFormed, Meets
    <2>3. ops' = Append(ops, op) /\ UNCHANGED <<gateway, selected>>
        BY <1>4 DEF SendReset, Adds
    <2> HIDE DEF op
    <2>4. OpsOK' /\ AnswersInv' /\ RecordInv' /\ RunInv'
        BY <2>2, <2>3, AddKeeps
    <2>5. ModelType' /\ PageType'
        BY <1>1, <1>4 DEF ModelType, PageType, SendReset, gateway, page
    <2> QED BY <2>4, <2>5 DEF ModelsInv, Shape
<1>5. ASSUME OnReply(c) PROVE ModelsInv'
    <2>1. outbox[c] \in Seq(Choice) /\ outbox[c] # <<>>
        BY <1>1, <1>5 DEF PageType, OnReply
    <2>2. Head(outbox[c]) \in Choice /\ Tail(outbox[c]) \in Seq(Choice)
        BY <2>1
    <2>3. outbox' \in [Client -> Seq(Choice)]
        BY <1>1, <1>5, <2>2 DEF PageType, OnReply
    <2>4. ClearPendingModel(c) \/ ConfirmModel(c, Head(outbox[c]))
        BY <1>5 DEF OnReply
    <2>5. PageType'
        BY <1>1, <2>2, <2>3, <2>4, ClearKeeps, ConfirmKeeps DEF PageType
    <2>6. ModelType'
        BY <1>1, <1>5 DEF ModelType, OnReply, gateway
    <2>7. UNCHANGED <<session, answers, stray, selected, ops>>
        BY <1>5 DEF OnReply, gateway
    <2>8. OpsOK' /\ AnswersInv' /\ RecordInv' /\ RunInv'
        BY <2>7 DEF ModelsInv, Shape, OpsOK, AnswersInv, RecordInv, RunInv, Ops
    <2> QED BY <2>5, <2>6, <2>8 DEF ModelsInv, Shape
<1>6. ASSUME SocketCloses(c) PROVE ModelsInv'
    <2>0. PICK received \in 0 .. Len(ops) :
              ops' = [n \in Ops |-> IF ops[n].who = c /\ ops[n].at = "queued" /\ n > received
                                    THEN Done ELSE ops[n]]
        BY <1>6 DEF SocketCloses
    <2> DEFINE unheld == pane[c].pending # None
                      /\ ~\E n \in Ops : ops[n].who = c /\ ops[n].kind = "put" /\ Running(n)
               next(n) == IF ops[n].who = c /\ ops[n].at = "queued" /\ n > received
                          THEN Done ELSE ops[n]
    <2>1. unheld \in BOOLEAN
        OBVIOUS
    <2>2. lost' = [lost EXCEPT ![c] = unheld]
        BY <1>6 DEF SocketCloses
    <2> HIDE DEF unheld
    <2>3. ModelType'
        BY <1>1, <1>6, <2>1, <2>2 DEF ModelType, SocketCloses, gateway
    <2>4. <<>> \in Seq(Choice)
        OBVIOUS
    <2>5. PageType'
        BY <1>1, <1>6, <2>4 DEF PageType, SocketCloses
    <2>6. ops' = [n \in 1 .. Len(ops) |-> next(n)]
        BY <2>0 DEF Ops
    <2>7. \A n \in 1 .. Len(ops) : next(n) \in OpRec
        BY <1>1, DoneForm DEF WellFormed, Ops
    <2>8. \A n \in Ops : ops[n].at = "queued" \/ next(n) = ops[n]
        OBVIOUS
    <2>9. \A n \in Ops : next(n) = Done \/ next(n) = ops[n]
        OBVIOUS
    <2> HIDE DEF next
    <2>10. ops' \in Seq(OpRec) /\ Len(ops') = Len(ops) /\ \A n \in Ops : ops'[n] = next(n)
        BY <1>1, <2>6, <2>7 DEF Ops
    <2>11. Meets(Done, session)
        BY DoneForm DEF Meets
    <2>12. \A n \in Ops : \/ ops'[n] = ops[n]
                          \/ /\ ops[n].at # "answer" /\ ops'[n].at # "answer"
                             /\ WellFormed(ops'[n]) /\ Meets(ops'[n], session)
        BY <2>8, <2>9, <2>10, <2>11, DoneForm
    <2>13. UNCHANGED <<session, answers, selected>> /\ stray' = stray
        BY <1>6 DEF SocketCloses, gateway
    <2>14. OpsOK' /\ AnswersInv' /\ RecordInv' /\ RunInv'
        BY <2>10, <2>12, <2>13, GoOnKeeps
    <2> QED BY <2>3, <2>5, <2>14 DEF ModelsInv, Shape
<1>7. ASSUME Reconnects(c) PROVE ModelsInv'
    <2>1. sock[c] + 1 \in Nat
        BY <1>1 DEF ModelType
    <2>2. ModelType'
        BY <1>1, <1>7, <2>1 DEF ModelType, Reconnects, gateway
    <2>3. PageType'
        BY <1>1, <1>7 DEF PageType, Reconnects
    <2>4. UNCHANGED <<session, answers, stray, selected, ops>>
        BY <1>7 DEF Reconnects, gateway
    <2>5. OpsOK' /\ AnswersInv' /\ RecordInv' /\ RunInv'
        BY <2>4 DEF ModelsInv, Shape, OpsOK, AnswersInv, RecordInv, RunInv, Ops
    <2> QED BY <2>2, <2>3, <2>5 DEF ModelsInv, Shape
<1> QED BY <1>2, <1>3, <1>4, <1>5, <1>6, <1>7

LEMMA VoiceStep ==
    ASSUME ModelsInv, NEW m \in Choice, SendVoiceMessage(m)
    PROVE  ModelsInv'
<1> DEFINE op == Op(Voice, "voice", m, "send")
           sent == EnsureAgentModel(op)
<1>1. ModelType /\ PageType
    BY DEF ModelsInv, Shape
<1>2. op \in OpRec /\ op.kind = "voice" /\ op.at = "send"
    BY <1>1, OpForm
<1> HIDE DEF op
<1>3. WellFormed(sent) /\ sent.at # "answer" /\ Meets(sent, session)
    BY <1>2, EnsureForm DEF WellFormed
<1>4. ops' = Append(ops, sent) /\ UNCHANGED <<gateway, selected>> /\ UNCHANGED page
    BY DEF SendVoiceMessage, Adds, op
<1> HIDE DEF sent
<1>5. OpsOK' /\ AnswersInv' /\ RecordInv' /\ RunInv'
    BY <1>3, <1>4, AddKeeps
<1>6. ModelType' /\ PageType'
    BY <1>1, <1>4 DEF ModelType, PageType, gateway, page
<1> QED BY <1>5, <1>6 DEF ModelsInv, Shape

LEMMA DispatchStep ==
    ASSUME ModelsInv, NEW n \in Ops, DispatchClientFrame(n)
    PROVE  ModelsInv'
<1> DEFINE op == ops[n]
           next == CASE op.kind = "message" -> EnsureAgentModel(op)
                     [] op.kind = "set" -> SetAgentModel(op)
                     [] op.kind = "reset" -> [op EXCEPT !.at = "reset"]
<1>1. ModelType /\ PageType /\ WellFormed(op) /\ op \in OpRec /\ op.at = "queued"
    BY DEF ModelsInv, Shape, OpsOK, WellFormed, DispatchClientFrame
<1>2. op.kind \in {"message", "set", "reset"}
    BY <1>1 DEF WellFormed
<1>3. /\ ops' = [ops EXCEPT ![n] = next]
      /\ UNCHANGED <<gateway, selected>> /\ UNCHANGED page
    BY DEF DispatchClientFrame
<1>4. WellFormed(next) /\ next.at # "answer" /\ Meets(next, session)
    <2>1. CASE op.kind = "message"
        <3>1. next = EnsureAgentModel(op)
            BY <2>1
        <3> QED BY <1>1, <2>1, <3>1, EnsureForm
    <2>2. CASE op.kind = "set"
        <3>1. next = SetAgentModel(op)
            BY <2>2
        <3>2. WellFormed(SetAgentModel(op)) /\ SetAgentModel(op).at = "patch"
            BY <1>1, PatchForm
        <3> QED BY <3>1, <3>2 DEF Meets
    <2>3. CASE op.kind = "reset"
        <3>1. next = [op EXCEPT !.at = "reset"]
            BY <2>3
        <3>2. /\ [op EXCEPT !.at = "reset"] \in OpRec /\ [op EXCEPT !.at = "reset"].at = "reset"
              /\ [op EXCEPT !.at = "reset"].kind = "reset"
            BY <1>1, <2>3 DEF OpRec
        <3>3. next \in OpRec /\ next.at = "reset" /\ next.kind = "reset"
            BY <3>1, <3>2
        <3> QED BY <3>3 DEF WellFormed, Meets
    <2> QED BY <1>2, <2>1, <2>2, <2>3
<1>5. ops[n].at # "answer"
    BY <1>1
<1> HIDE DEF op, next
<1>6. UNCHANGED <<session, answers, selected>> /\ stray' = stray
    BY <1>3 DEF gateway
<1>7. OpsOK' /\ AnswersInv' /\ RecordInv' /\ RunInv'
    BY <1>3, <1>4, <1>5, <1>6, OneGoesOn
<1>8. ModelType' /\ PageType'
    BY <1>1, <1>3 DEF ModelType, PageType, gateway, page
<1> QED BY <1>7, <1>8 DEF ModelsInv, Shape

LEMMA AnsweredSteps ==
    ASSUME ModelsInv, NEW n \in Ops, Answered(n)
    PROVE  ModelsInv'
<1>1. /\ ModelType /\ PageType /\ WellFormed(ops[n]) /\ ops[n] \in OpRec /\ ops[n].model \in Choice
      /\ None \in Choice
    BY DEF ModelsInv, Shape, OpsOK, WellFormed, OpRec, Choice
<1>2. ops[n].at = "answer"
    <2>1. Reads(n) /\ Awaited(ops, answers)
        BY DEF Answered, SetAnswered, PutAnswered, MessagePatched, ResetAnswered, ModelsInv,
               AnswersInv
    <2>2. 1 \in 1 .. Len(answers) /\ n = answers[1]
        BY <2>1 DEF Reads, Awaited
    <2> QED BY <2>1, <2>2 DEF Awaited
<1>3. WellFormed(Done) /\ Done.at # "answer" /\ Meets(Done, session)
    BY DoneForm DEF Meets
<1>4. ASSUME SetAnswered(n) PROVE ModelsInv'
    <2>1. /\ Reads(n) /\ ops' = [ops EXCEPT ![n] = Done] /\ selected' = ops[n].model
          /\ UNCHANGED <<session, stray, pane, open, sock, lost>>
          /\ Reply(ops[n].who, ops[n].model)
        BY <1>4 DEF SetAnswered, Ends, PatchedModel, Reads
    <2>2. OpsOK' /\ AnswersInv' /\ RecordInv' /\ RunInv'
        BY <1>3, <2>1, ReadKeeps
    <2>3. outbox' \in [Client -> Seq(Choice)]
        BY <1>1, <2>1, ReplyKeeps
    <2>4. ModelType' /\ PageType'
        BY <1>1, <2>1, <2>3 DEF ModelType, PageType
    <2> QED BY <2>2, <2>4 DEF ModelsInv, Shape
<1>5. ASSUME PutAnswered(n) PROVE ModelsInv'
    <2>1. /\ Reads(n) /\ ops[n].kind = "put" /\ ops' = [ops EXCEPT ![n] = Done]
          /\ UNCHANGED <<selected, session, stray, open, sock, outbox, lost>>
          /\ ConfirmModel(ops[n].who, ops[n].model)
        BY <1>5 DEF PutAnswered, Ends, PatchedModel, Reads
    <2>2. OpsOK' /\ AnswersInv' /\ RecordInv' /\ RunInv'
        BY <1>3, <2>1, ReadKeeps
    <2>3. pane' \in [Client -> [model : Choice, explicit : BOOLEAN, pending : Choice]]
        BY <1>1, <2>1, ConfirmKeeps
    <2>4. ModelType' /\ PageType'
        BY <1>1, <2>1, <2>3 DEF ModelType, PageType
    <2> QED BY <2>2, <2>4 DEF ModelsInv, Shape
<1>6. ASSUME MessagePatched(n) PROVE ModelsInv'
    <2> DEFINE op == [ops[n] EXCEPT !.at = "send"]
    <2>1. /\ Reads(n) /\ ops[n].kind \in {"message", "voice"} /\ selected' = ops[n].model
          /\ UNCHANGED <<session, stray>> /\ UNCHANGED page
        BY <1>6 DEF MessagePatched, PatchedModel, Sends, Reads
    <2>2. ops' = [ops EXCEPT ![n] = op]
        BY <1>6 DEF MessagePatched, Goes
    <2>3. /\ op \in OpRec /\ op.at = "send" /\ op.kind = ops[n].kind /\ op.model = ops[n].model
          /\ op.raced = ops[n].raced
        BY <1>1 DEF OpRec
    <2> HIDE DEF op
    <2>4. Meets(ops[n], session)
        BY DEF ModelsInv, RunInv
    <2>5. WellFormed(op) /\ op.at # "answer" /\ Meets(op, session)
        BY <1>2, <2>1, <2>3, <2>4 DEF WellFormed, Meets
    <2>6. OpsOK' /\ AnswersInv' /\ RecordInv' /\ RunInv'
        BY <2>1, <2>2, <2>5, ReadKeeps
    <2>7. ModelType' /\ PageType'
        BY <1>1, <2>1 DEF ModelType, PageType, page
    <2> QED BY <2>6, <2>7 DEF ModelsInv, Shape
<1>7. ASSUME ResetAnswered(n) PROVE ModelsInv'
    <2>1. /\ Reads(n) /\ ops' = [ops EXCEPT ![n] = Done] /\ selected' = None
          /\ UNCHANGED <<session, stray>> /\ UNCHANGED page
        BY <1>7 DEF ResetAnswered, Ends, Reads
    <2>2. OpsOK' /\ AnswersInv' /\ RecordInv' /\ RunInv'
        BY <1>3, <2>1, ReadKeeps
    <2>3. ModelType' /\ PageType'
        BY <1>1, <2>1 DEF ModelType, PageType, page
    <2> QED BY <2>2, <2>3 DEF ModelsInv, Shape
<1> QED BY <1>4, <1>5, <1>6, <1>7 DEF Answered

(* An operation that fails is over, and if it was answered nobody reads it. *)
LEMMA FailKeeps ==
    ASSUME ModelsInv, NEW n \in Ops, Fails(n)
    PROVE  /\ OpsOK' /\ AnswersInv' /\ RecordInv' /\ RunInv' /\ ModelType'
           /\ ops[n] \in OpRec
<1>1. /\ ModelType /\ WellFormed(ops[n]) /\ ops[n] \in OpRec /\ Awaited(ops, answers)
    BY DEF ModelsInv, Shape, OpsOK, WellFormed, AnswersInv
<1>2. /\ stray' = (stray \/ ops[n].at = "answer") /\ Discards(n)
      /\ \/ Ends(n)
         \/ ops[n].at \in {"patch", "reset"} /\ Goes(n, "late")
      /\ UNCHANGED <<session, selected, open, sock, lost>>
    BY DEF Fails
<1>3. ModelType'
    BY <1>1, <1>2 DEF ModelType
<1>4. CASE ops[n].at = "answer"
    <2>1. Ends(n) /\ stray'
        BY <1>2, <1>4
    <2>2. OpsOK' /\ AnswersInv' /\ RecordInv' /\ RunInv'
        BY <1>2, <1>4, <2>1, DiscardKeeps
    <2> QED BY <1>1, <1>3, <2>2
<1>5. CASE ops[n].at # "answer"
    <2> DEFINE late == [ops[n] EXCEPT !.at = "late"]
    <2>1. answers' = answers /\ stray' = stray
        <3>1. \A i \in 1 .. Len(answers) : answers[i] # n
            BY <1>1, <1>5 DEF Awaited
        <3>2. answers' = answers
            BY <1>2, <3>1 DEF Discards
        <3>3. stray \in BOOLEAN
            BY <1>1 DEF ModelType
        <3> QED BY <1>2, <1>5, <3>2, <3>3
    <2>2. WellFormed(Done) /\ Done.at # "answer" /\ Meets(Done, session)
        BY DoneForm DEF Meets
    <2>3. late \in OpRec /\ late.at = "late"
        BY <1>1 DEF OpRec
    <2>4. WellFormed(late) /\ late.at # "answer" /\ Meets(late, session)
        BY <2>3 DEF WellFormed, Meets
    <2>5. ops' = [ops EXCEPT ![n] = Done] \/ ops' = [ops EXCEPT ![n] = late]
        BY <1>2 DEF Ends, Goes
    <2> HIDE DEF late
    <2>6. CASE ops' = [ops EXCEPT ![n] = Done]
        <3>1. OpsOK' /\ AnswersInv' /\ RecordInv' /\ RunInv'
            BY <1>2, <1>5, <2>1, <2>2, <2>6, OneGoesOn
        <3> QED BY <1>1, <1>3, <3>1
    <2>7. CASE ops' = [ops EXCEPT ![n] = late]
        <3>1. OpsOK' /\ AnswersInv' /\ RecordInv' /\ RunInv'
            BY <1>2, <1>5, <2>1, <2>4, <2>7, OneGoesOn
        <3> QED BY <1>1, <1>3, <3>1
    <2> QED BY <2>5, <2>6, <2>7
<1> QED BY <1>4, <1>5

LEMMA FailedSteps ==
    ASSUME ModelsInv, NEW n \in Ops, SetFails(n) \/ PutFails(n) \/ MessageFails(n)
    PROVE  ModelsInv'
<1>1. PageType /\ None \in Choice
    BY DEF ModelsInv, Shape, Choice
<1>2. Fails(n)
    BY DEF SetFails, PutFails, MessageFails
<1>3. OpsOK' /\ AnswersInv' /\ RecordInv' /\ RunInv' /\ ModelType'
    BY <1>2, FailKeeps
<1>4. CASE SetFails(n)
    <2>1. Reply(ops[n].who, None) /\ UNCHANGED pane
        BY <1>4 DEF SetFails
    <2>2. PageType'
        BY <1>1, <2>1, ReplyKeeps DEF PageType
    <2> QED BY <1>3, <2>2 DEF ModelsInv, Shape
<1>5. CASE PutFails(n)
    <2>1. ClearPendingModel(ops[n].who) /\ UNCHANGED outbox
        BY <1>5 DEF PutFails
    <2>2. PageType'
        BY <1>1, <2>1, ClearKeeps DEF PageType
    <2> QED BY <1>3, <2>2 DEF ModelsInv, Shape
<1>6. CASE MessageFails(n)
    <2>1. UNCHANGED <<pane, outbox>>
        BY <1>6 DEF MessageFails
    <2>2. PageType'
        BY <1>1, <2>1 DEF PageType
    <2> QED BY <1>3, <2>2 DEF ModelsInv, Shape
<1> QED BY <1>4, <1>5, <1>6

LEMMA TakenSteps ==
    ASSUME ModelsInv, NEW n \in Ops, TakesUp(n) \/ TakesUpLate(n) \/ TakesMessage(n)
    PROVE  ModelsInv'
<1>1. ModelType /\ PageType
    BY DEF ModelsInv, Shape
<1>2. CASE TakesUp(n) \/ TakesUpLate(n)
    <2>1. OpsOK' /\ AnswersInv' /\ RecordInv' /\ RunInv' /\ session' \in Choice
        BY <1>2, TakeKeeps, TakeLateKeeps
    <2>2. UNCHANGED <<selected, page>> /\ stray' \in BOOLEAN
        BY <1>2 DEF TakesUp, TakesUpLate, Changes
    <2>3. ModelType' /\ PageType'
        BY <1>1, <2>1, <2>2 DEF ModelType, PageType, page
    <2> QED BY <2>1, <2>3 DEF ModelsInv, Shape
<1>3. CASE TakesMessage(n)
    <2>1. /\ ops[n].at # "answer" /\ ops' = [ops EXCEPT ![n] = Done]
          /\ UNCHANGED <<session, answers, selected>> /\ stray' = stray /\ UNCHANGED page
        BY <1>3 DEF TakesMessage, Ends, gateway
    <2>2. WellFormed(Done) /\ Done.at # "answer" /\ Meets(Done, session)
        BY DoneForm DEF Meets
    <2>3. OpsOK' /\ AnswersInv' /\ RecordInv' /\ RunInv'
        BY <2>1, <2>2, OneGoesOn
    <2>4. ModelType' /\ PageType'
        BY <1>1, <2>1 DEF ModelType, PageType, page
    <2> QED BY <2>3, <2>4 DEF ModelsInv, Shape
<1> QED BY <1>2, <1>3

LEMMA ModelsInit == Init => ModelsInv
<1> SUFFICES ASSUME Init PROVE ModelsInv
    OBVIOUS
<1>1. None \in Choice /\ Default \in Choice
    BY NoneApart DEF Choice
<1>2. ModelType
    BY <1>1 DEF ModelType, Init
<1>3. PageType
    <2>1. <<>> \in Seq(Choice)
        OBVIOUS
    <2> QED BY <1>1, <2>1 DEF PageType, Init
<1>4. ops = <<>> /\ ops \in Seq(OpRec) /\ Len(ops) = 0 /\ Ops = {}
    BY DEF Init, Ops
<1>5. OpsOK /\ RunInv
    BY <1>4 DEF OpsOK, RunInv
<1>6. answers = <<>> /\ answers \in Seq(Nat) /\ Len(answers) = 0
    BY DEF Init
<1>7. AnswersInv
    BY <1>4, <1>6 DEF AnswersInv, Awaited
<1>8. RecordInv
    BY DEF RecordInv, Recorded, Init
<1> QED BY <1>2, <1>3, <1>5, <1>7, <1>8 DEF ModelsInv, Shape

LEMMA ModelsNext == ModelsInv /\ [Next]_vars => ModelsInv'
<1> SUFFICES ASSUME ModelsInv, [Next]_vars PROVE ModelsInv'
    OBVIOUS
<1>1. ASSUME NEW c \in Client,
             \/ \E m \in Model : SetPaneModel(c, m)
             \/ SendPaneMessage(c) \/ SendReset(c) \/ OnReply(c)
             \/ SocketCloses(c) \/ Reconnects(c)
      PROVE  ModelsInv'
    BY <1>1, PaneSteps
<1>2. ASSUME NEW m \in Model \cup {None}, SendVoiceMessage(m) PROVE ModelsInv'
    BY <1>2, VoiceStep DEF Choice
<1>3. ASSUME NEW n \in Ops,
             \/ DispatchClientFrame(n) \/ Answered(n)
             \/ SetFails(n) \/ PutFails(n) \/ MessageFails(n)
             \/ TakesUp(n) \/ TakesUpLate(n) \/ TakesMessage(n)
      PROVE  ModelsInv'
    BY <1>3, DispatchStep, AnsweredSteps, FailedSteps, TakenSteps
<1>4. CASE UNCHANGED vars
    <2>1. /\ UNCHANGED <<session, answers, stray, selected, ops>>
          /\ UNCHANGED <<pane, open, sock, outbox, lost>>
        BY <1>4 DEF vars, gateway, page
    <2> QED BY <2>1 DEF ModelsInv, Shape, ModelType, PageType, OpsOK, AnswersInv, RecordInv,
                        RunInv, Ops
<1> QED BY <1>1, <1>2, <1>3, <1>4 DEF Next

-----------------------------------------------------------------------------
(* Pickers.                                                                *)

(* What a picker may wait for: its operation, until it is answered or has  *)
(* failed.                                                                 *)
Held(op, c, kinds) ==
    op.who = c /\ op.kind \in kinds /\ op.at \in {"queued", "patch", "answer"}

HeldFor(c) ==
    \/ \E n \in Ops : Held(ops[n], c, {"put"})
    \/ open[c] /\ (outbox[c] # <<>> \/ \E n \in Ops : Held(ops[n], c, {"set"}))

HeldInv == \A c \in Client : pane[c].pending # None /\ ~lost[c] => HeldFor(c)

(* The operation of a picker that waits is not ended by the step. *)
Stays(n) ==
    \A c \in Client, kind \in {"set", "put"} : Held(ops[n], c, {kind}) => Held(ops'[n], c, {kind})

LEMMA HeldFollows == HeldInv => PickHeld
<1> SUFFICES ASSUME HeldInv, NEW c \in Client, pane[c].pending # None, ~lost[c]
             PROVE  LET Waiting == {n \in Ops : ops[n].who = c
                                                 /\ ops[n].at \in {"queued", "patch", "answer"}} IN
                    IF open[c]
                    THEN outbox[c] # <<>> \/ \E n \in Waiting : ops[n].kind \in {"set", "put"}
                    ELSE \E n \in Waiting : ops[n].kind = "put"
    BY DEF PickHeld
<1>1. HeldFor(c)
    BY DEF HeldInv
<1> QED BY <1>1 DEF HeldFor, Held

(* Operations that go on, and perhaps a new one; the pane of c still waits *)
(* for what it has waited for, on the socket it had.                       *)
LEMMA HeldGoesOn ==
    ASSUME NEW c \in Client, HeldFor(c), \A n \in Ops : n \in Ops' /\ Stays(n),
           open[c] => open'[c], outbox[c] # <<>> => outbox'[c] # <<>>
    PROVE  HeldFor(c)'
<1>1. ASSUME NEW kind \in {"set", "put"}, \E n \in Ops : Held(ops[n], c, {kind})
      PROVE  \E n \in Ops' : Held(ops'[n], c, {kind})
    BY <1>1 DEF Stays
<1> QED BY <1>1 DEF HeldFor

(* A step of operations that nobody waits for, in no pane.                 *)
LEMMA OthersGoOn ==
    ASSUME HeldInv, \A n \in Ops : n \in Ops' /\ Stays(n), UNCHANGED page
    PROVE  HeldInv'
<1>1. UNCHANGED <<pane, open, outbox, lost>>
    BY DEF page
<1> SUFFICES ASSUME NEW c \in Client, pane[c].pending # None, ~lost[c] PROVE HeldFor(c)'
    BY <1>1 DEF HeldInv
<1>2. HeldFor(c)
    BY DEF HeldInv
<1> QED BY <1>1, <1>2, HeldGoesOn

LEMMA AddsStay ==
    ASSUME ModelsInv, NEW op, Adds(op)
    PROVE  /\ \A n \in Ops : n \in Ops' /\ Stays(n)
           /\ Len(ops) + 1 \in Ops' /\ ops'[Len(ops) + 1] = op
<1>1. ops \in Seq(OpRec) /\ Len(ops) \in Nat /\ ops' = Append(ops, op)
    BY DEF ModelsInv, Shape, OpsOK, Adds
<1>2. /\ Len(ops') = Len(ops) + 1 /\ ops'[Len(ops) + 1] = op
      /\ \A n \in 1 .. Len(ops) : ops'[n] = ops[n]
    BY <1>1
<1>3. Len(ops) + 1 \in 1 .. Len(ops') /\ \A n \in 1 .. Len(ops) : n \in 1 .. Len(ops')
    BY <1>1, <1>2
<1> QED BY <1>2, <1>3 DEF Ops, Stays

LEMMA OneStays ==
    ASSUME ModelsInv, NEW n \in Ops, NEW op, ops' = [ops EXCEPT ![n] = op]
    PROVE  /\ \A k \in Ops : k \in Ops' /\ (k # n => ops'[k] = ops[k] /\ Stays(k))
           /\ ops'[n] = op
<1>1. ops \in Seq(OpRec) /\ n \in 1 .. Len(ops)
    BY DEF ModelsInv, Shape, OpsOK, Ops
<1>2. /\ Len(ops') = Len(ops)
      /\ \A k \in 1 .. Len(ops) : ops'[k] = IF k = n THEN op ELSE ops[k]
    BY <1>1
<1> QED BY <1>1, <1>2 DEF Ops, Stays

LEMMA PickInit == Init => HeldInv
BY DEF Init, HeldInv

LEMMA PickPane ==
    ASSUME ModelsInv, HeldInv, NEW c \in Client,
           \/ \E m \in Model : SetPaneModel(c, m)
           \/ SendPaneMessage(c) \/ SendReset(c) \/ OnReply(c)
           \/ SocketCloses(c) \/ Reconnects(c)
    PROVE  HeldInv'
<1>1. /\ ModelType /\ PageType /\ Model \subseteq Choice /\ None \in Choice
      /\ ops \in Seq(OpRec) /\ \A n \in Ops : WellFormed(ops[n])
    BY DEF ModelsInv, Shape, OpsOK, Choice
<1>2. ASSUME NEW m \in Model, SetPaneModel(c, m) PROVE HeldInv'
    <2> DEFINE op == IF open[c] THEN Op(c, "set", m, "queued")
                     ELSE SetAgentModel(Op(c, "put", m, "queued"))
    <2>1. IF open[c] THEN Held(op, c, {"set"}) ELSE Held(op, c, {"put"})
        <3>1. CASE open[c]
            BY <3>1 DEF Held, Op
        <3>2. CASE ~open[c]
            BY <3>2 DEF Held, Op, SetAgentModel
        <3> QED BY <3>1, <3>2
    <2>2. Adds(op) /\ UNCHANGED <<open, outbox>>
        BY <1>2 DEF SetPaneModel
    <2> HIDE DEF op
    <2>3. /\ \A n \in Ops : n \in Ops' /\ Stays(n)
          /\ Len(ops) + 1 \in Ops' /\ ops'[Len(ops) + 1] = op
        BY <2>2, AddsStay
    <2>4. \A d \in Client : d # c => pane'[d] = pane[d] /\ lost'[d] = lost[d]
        BY <1>1, <1>2 DEF SetPaneModel, PageType, ModelType
    <2>5. HeldFor(c)'
        BY <2>1, <2>2, <2>3 DEF HeldFor
    <2>6. ASSUME NEW d \in Client, d # c, pane'[d].pending # None, ~lost'[d] PROVE HeldFor(d)'
        <3>1. HeldFor(d)
            BY <2>4, <2>6 DEF HeldInv
        <3> QED BY <2>2, <2>3, <3>1, HeldGoesOn
    <2> QED BY <2>5, <2>6 DEF HeldInv
<1>3. ASSUME SendPaneMessage(c) \/ SendReset(c) PROVE HeldInv'
    <2>1. PICK op : Adds(op) /\ UNCHANGED page
        BY <1>3 DEF SendPaneMessage, SendReset
    <2> QED BY <2>1, AddsStay, OthersGoOn
<1>4. ASSUME OnReply(c) PROVE HeldInv'
    <2>1. \E m : ClearPendingModel(c) \/ ConfirmModel(c, m)
        BY <1>4 DEF OnReply
    <2>2. pane'[c].pending = None /\ \A d \in Client : d # c => pane'[d] = pane[d]
        BY <1>1, <2>1 DEF PageType, ClearPendingModel, ConfirmModel
    <2>3. /\ UNCHANGED <<ops, open, lost>>
          /\ \A d \in Client : d # c => outbox'[d] = outbox[d]
        BY <1>1, <1>4 DEF PageType, OnReply
    <2>4. ASSUME NEW d \in Client, pane'[d].pending # None, ~lost'[d] PROVE HeldFor(d)'
        <3>1. HeldFor(d) /\ outbox'[d] = outbox[d]
            BY <2>2, <2>3, <2>4 DEF HeldInv
        <3> QED BY <2>3, <3>1 DEF HeldFor, Ops
    <2> QED BY <2>4 DEF HeldInv
<1>5. ASSUME SocketCloses(c) PROVE HeldInv'
    <2>0. PICK received \in 0 .. Len(ops) :
              ops' = [n \in Ops |-> IF ops[n].who = c /\ ops[n].at = "queued" /\ n > received
                                    THEN Done ELSE ops[n]]
        BY <1>5 DEF SocketCloses
    <2> DEFINE unheld == /\ pane[c].pending # None
                         /\ ~\E n \in Ops : ops[n].who = c /\ ops[n].kind = "put" /\ Running(n)
               next(n) == IF ops[n].who = c /\ ops[n].at = "queued" /\ n > received
                          THEN Done ELSE ops[n]
    <2>1. ops' = [n \in 1 .. Len(ops) |-> next(n)]
        BY <2>0 DEF Ops
    <2>2. \A n \in 1 .. Len(ops) : next(n) \in OpRec
        BY <1>1, DoneForm DEF WellFormed, Ops
    <2>3. \A n \in Ops : next(n) = ops[n] \/ (ops[n].who = c /\ ops[n].at = "queued")
        OBVIOUS
    <2> HIDE DEF next
    <2>4. Ops' = Ops /\ \A n \in Ops : ops'[n] = next(n)
        BY <1>1, <2>1, <2>2 DEF Ops
    <2>5. /\ \A n \in Ops : ops[n].kind = "put" => ops[n].at # "queued" /\ ops'[n] = ops[n]
          /\ \A n \in Ops : ops[n].who # c => ops'[n] = ops[n]
        BY <1>1, <2>3, <2>4 DEF WellFormed
    <2>6. lost' = [lost EXCEPT ![c] = unheld]
        BY <1>5 DEF SocketCloses
    <2>7. pane' = pane
        BY <1>5 DEF SocketCloses
    <2>8. ASSUME pane'[c].pending # None, ~lost'[c] PROVE HeldFor(c)'
        <3>1. ~unheld
            BY <1>1, <2>6, <2>8 DEF ModelType
        <3>2. PICK n \in Ops : ops[n].who = c /\ ops[n].kind = "put" /\ Running(n)
            BY <2>7, <2>8, <3>1
        <3>3. ops[n].at \in {"patch", "answer"}
            BY <1>1, <3>2 DEF WellFormed, Running
        <3>4. Held(ops'[n], c, {"put"})
            BY <2>5, <3>2, <3>3 DEF Held
        <3> QED BY <2>4, <3>4 DEF HeldFor
    <2> HIDE DEF unheld
    <2>9. ASSUME NEW d \in Client, d # c, pane'[d].pending # None, ~lost'[d] PROVE HeldFor(d)'
        <3>1. lost'[d] = lost[d] /\ outbox'[d] = outbox[d] /\ open'[d] = open[d]
            BY <1>1, <1>5, <2>6, <2>9 DEF ModelType, PageType, SocketCloses
        <3>2. HeldFor(d)
            BY <2>7, <2>9, <3>1 DEF HeldInv
        <3>3. \A n \in Ops, kinds \in SUBSET {"set", "put"} :
                  Held(ops[n], d, kinds) => Held(ops'[n], d, kinds)
            BY <2>5, <2>9 DEF Held
        <3> QED BY <2>4, <3>1, <3>2, <3>3 DEF HeldFor
    <2> QED BY <2>8, <2>9 DEF HeldInv
<1>6. ASSUME Reconnects(c) PROVE HeldInv'
    <2>1. UNCHANGED <<ops, pane, outbox, lost>> /\ open' = [open EXCEPT ![c] = TRUE]
        BY <1>6 DEF Reconnects
    <2>2. ASSUME NEW d \in Client, pane[d].pending # None, ~lost[d] PROVE HeldFor(d)'
        <3>1. HeldFor(d)
            BY <2>2 DEF HeldInv
        <3> QED BY <2>1, <3>1, HeldGoesOn DEF Ops, Stays
    <2> QED BY <2>1, <2>2 DEF HeldInv
<1> QED BY <1>2, <1>3, <1>4, <1>5, <1>6

LEMMA PickVoice ==
    ASSUME ModelsInv, HeldInv, NEW m, SendVoiceMessage(m)
    PROVE  HeldInv'
<1>1. PICK op : Adds(op) /\ UNCHANGED page
    BY DEF SendVoiceMessage
<1> QED BY <1>1, AddsStay, OthersGoOn

(* The picker of a set that goes on still waits for it.                    *)
LEMMA PickDispatch ==
    ASSUME ModelsInv, HeldInv, NEW n \in Ops, DispatchClientFrame(n)
    PROVE  HeldInv'
<1> DEFINE op == ops[n]
           next == CASE op.kind = "message" -> EnsureAgentModel(op)
                     [] op.kind = "set" -> SetAgentModel(op)
                     [] op.kind = "reset" -> [op EXCEPT !.at = "reset"]
<1>1. WellFormed(op) /\ op \in OpRec /\ op.at = "queued"
    BY DEF ModelsInv, Shape, OpsOK, WellFormed, DispatchClientFrame
<1>2. op.kind \in {"message", "set", "reset"}
    BY <1>1 DEF WellFormed
<1>3. ops' = [ops EXCEPT ![n] = next] /\ UNCHANGED page
    BY DEF DispatchClientFrame
<1>4. op.kind = "set" => next.who = op.who /\ next.kind = "set" /\ next.at = "patch"
    <2>1. SUFFICES ASSUME op.kind = "set"
                   PROVE  LET set == SetAgentModel(op) IN
                          set.who = op.who /\ set.kind = "set" /\ set.at = "patch"
        BY <2>1
    <2> QED BY <1>1, <2>1 DEF SetAgentModel, OpRec
<1> HIDE DEF next
<1>5. /\ \A k \in Ops : k \in Ops' /\ (k # n => ops'[k] = ops[k] /\ Stays(k))
      /\ ops'[n] = next
    BY <1>3, OneStays
<1>6. Stays(n)
    BY <1>2, <1>4, <1>5 DEF Stays, Held
<1> QED BY <1>3, <1>5, <1>6, OthersGoOn

(* An operation that nobody waits for ends, or goes on. *)
LEMMA NoPicker ==
    ASSUME ModelsInv, HeldInv, NEW n \in Ops, NEW op, ops' = [ops EXCEPT ![n] = op],
           ops[n].kind \notin {"set", "put"} \/ ops[n].at \notin {"queued", "patch", "answer"},
           UNCHANGED page
    PROVE  HeldInv'
<1>1. \A k \in Ops : k \in Ops' /\ (k # n => Stays(k))
    BY OneStays
<1>2. Stays(n)
    BY DEF Stays, Held
<1> QED BY <1>1, <1>2, OthersGoOn

(* The operation is over for its pane: with a reply on the way, or with no *)
(* picker that waits.                                                      *)
LEMMA Settled ==
    ASSUME ModelsInv, HeldInv, NEW n \in Ops, NEW op, ops' = [ops EXCEPT ![n] = op],
           UNCHANGED <<open, lost>>,
           \A c \in Client : c # ops[n].who => pane'[c] = pane[c],
           \A c \in Client : outbox[c] # <<>> => outbox'[c] # <<>>,
           ops[n].who \in Client =>
               \/ pane'[ops[n].who].pending = None
               \/ /\ ops[n].kind = "set" /\ UNCHANGED pane
                  /\ open[ops[n].who] => outbox'[ops[n].who] # <<>>
    PROVE  HeldInv'
<1>1. \A k \in Ops : k \in Ops' /\ (k # n => ops'[k] = ops[k] /\ Stays(k))
    BY OneStays
<1>2. ASSUME NEW c \in Client, pane'[c].pending # None, ~lost'[c] PROVE HeldFor(c)'
    <2>1. CASE c # ops[n].who
        <3>1. HeldFor(c)
            BY <1>2, <2>1 DEF HeldInv
        <3>2. Stays(n) \/ \A kind \in {"set", "put"} : ~Held(ops[n], c, {kind})
            BY <2>1 DEF Held
        <3>3. ASSUME NEW kind \in {"set", "put"}, NEW k \in Ops, Held(ops[k], c, {kind})
              PROVE  k \in Ops' /\ Held(ops'[k], c, {kind})
            BY <1>1, <2>1, <3>3 DEF Held
        <3> QED BY <3>1, <3>3 DEF HeldFor
    <2>2. CASE c = ops[n].who
        <3>1. /\ ops[n].kind = "set" /\ UNCHANGED pane
              /\ open[c] => outbox'[c] # <<>>
            BY <1>2, <2>2
        <3>2. HeldFor(c)
            BY <1>2, <3>1 DEF HeldInv
        <3>3. CASE open[c]
            BY <3>1, <3>3 DEF HeldFor
        <3>4. CASE ~open[c]
            <4>1. PICK k \in Ops : Held(ops[k], c, {"put"})
                BY <3>2, <3>4 DEF HeldFor
            <4>2. k # n
                BY <3>1, <4>1 DEF Held
            <4> QED BY <1>1, <4>1, <4>2 DEF HeldFor
        <3> QED BY <3>3, <3>4
    <2> QED BY <2>1, <2>2
<1> QED BY <1>2 DEF HeldInv

LEMMA ReplyArrives ==
    ASSUME PageType, NEW c, NEW m \in Choice, Reply(c, m)
    PROVE  /\ \A d \in Client : outbox[d] # <<>> => outbox'[d] # <<>>
           /\ c \in Client /\ open[c] => outbox'[c] # <<>>
<1>1. \A d \in Client : Append(outbox[d], m) # <<>>
    BY DEF PageType
<1>2. \A d \in Client :
          outbox'[d] = IF open[c] /\ d = c THEN Append(outbox[d], m) ELSE outbox[d]
    BY DEF PageType, Reply
<1> QED BY <1>1, <1>2

LEMMA PaneSettled ==
    ASSUME PageType, NEW c, NEW m, ClearPendingModel(c) \/ ConfirmModel(c, m)
    PROVE  /\ \A d \in Client : d # c => pane'[d] = pane[d]
           /\ c \in Client => pane'[c].pending = None
BY DEF PageType, ClearPendingModel, ConfirmModel

LEMMA PickAnswered ==
    ASSUME ModelsInv, HeldInv, NEW n \in Ops, Answered(n)
    PROVE  HeldInv'
<1>1. PageType /\ ops[n] \in OpRec /\ ops[n].model \in Choice
    BY DEF ModelsInv, Shape, OpsOK, WellFormed, OpRec
<1>2. ASSUME SetAnswered(n) PROVE HeldInv'
    <2>1. /\ ops[n].kind = "set" /\ ops' = [ops EXCEPT ![n] = Done]
          /\ UNCHANGED <<pane, open, lost>> /\ Reply(ops[n].who, ops[n].model)
        BY <1>2 DEF SetAnswered, Ends, PatchedModel
    <2>2. /\ \A d \in Client : outbox[d] # <<>> => outbox'[d] # <<>>
          /\ ops[n].who \in Client /\ open[ops[n].who] => outbox'[ops[n].who] # <<>>
        BY <1>1, <2>1, ReplyArrives
    <2> QED BY <2>1, <2>2, Settled
<1>3. ASSUME PutAnswered(n) PROVE HeldInv'
    <2>1. /\ ops' = [ops EXCEPT ![n] = Done]
          /\ UNCHANGED <<open, outbox, lost>> /\ ConfirmModel(ops[n].who, ops[n].model)
        BY <1>3 DEF PutAnswered, Ends, PatchedModel
    <2>2. /\ \A d \in Client : d # ops[n].who => pane'[d] = pane[d]
          /\ ops[n].who \in Client => pane'[ops[n].who].pending = None
        BY <1>1, <2>1, PaneSettled
    <2> QED BY <2>1, <2>2, Settled
<1>4. ASSUME MessagePatched(n) \/ ResetAnswered(n) PROVE HeldInv'
    <2>1. ops[n].kind \notin {"set", "put"} /\ UNCHANGED page
        BY <1>4 DEF MessagePatched, ResetAnswered, Sends
    <2>2. PICK op : ops' = [ops EXCEPT ![n] = op]
        BY <1>4 DEF MessagePatched, ResetAnswered, Goes, Ends
    <2> QED BY <2>1, <2>2, NoPicker
<1> QED BY <1>2, <1>3, <1>4 DEF Answered

LEMMA PickFailed ==
    ASSUME ModelsInv, HeldInv, NEW n \in Ops, SetFails(n) \/ PutFails(n) \/ MessageFails(n)
    PROVE  HeldInv'
<1>1. PageType /\ None \in Choice
    BY DEF ModelsInv, Shape, Choice
<1>2. Fails(n)
    BY DEF SetFails, PutFails, MessageFails
<1>3. UNCHANGED <<open, sock, lost>> /\ (Ends(n) \/ Goes(n, "late"))
    BY <1>2 DEF Fails
<1>4. PICK op : ops' = [ops EXCEPT ![n] = op]
    BY <1>3 DEF Ends, Goes
<1>5. ASSUME SetFails(n) PROVE HeldInv'
    <2>1. ops[n].kind = "set" /\ UNCHANGED pane /\ Reply(ops[n].who, None)
        BY <1>5 DEF SetFails
    <2>2. /\ \A d \in Client : outbox[d] # <<>> => outbox'[d] # <<>>
          /\ ops[n].who \in Client /\ open[ops[n].who] => outbox'[ops[n].who] # <<>>
        BY <1>1, <2>1, ReplyArrives
    <2> QED BY <1>3, <1>4, <2>1, <2>2, Settled
<1>6. ASSUME PutFails(n) PROVE HeldInv'
    <2>1. UNCHANGED outbox /\ ClearPendingModel(ops[n].who)
        BY <1>6 DEF PutFails
    <2>2. /\ \A d \in Client : d # ops[n].who => pane'[d] = pane[d]
          /\ ops[n].who \in Client => pane'[ops[n].who].pending = None
        BY <1>1, <2>1, PaneSettled
    <2> QED BY <1>3, <1>4, <2>1, <2>2, Settled
<1>7. ASSUME MessageFails(n) PROVE HeldInv'
    <2>1. ops[n].kind \notin {"set", "put"} /\ UNCHANGED page
        BY <1>3, <1>7 DEF MessageFails, Sends, page
    <2> QED BY <1>4, <2>1, NoPicker
<1> QED BY <1>5, <1>6, <1>7

LEMMA PickTaken ==
    ASSUME ModelsInv, HeldInv, NEW n \in Ops, TakesUp(n) \/ TakesUpLate(n) \/ TakesMessage(n)
    PROVE  HeldInv'
<1>1. ops \in Seq(OpRec) /\ \A k \in Ops : ops[k] \in OpRec
    BY DEF ModelsInv, Shape, OpsOK, WellFormed
<1>2. ASSUME NEW after, Changes(n, ops[n].model, after), Held(ops[n], ops[n].who, {ops[n].kind})
                 => after.who = ops[n].who /\ after.kind = ops[n].kind /\ after.at = "answer"
      PROVE  HeldInv'
    <2> DEFINE marked(k) == [ops[k] EXCEPT !.raced =
                                 @ \/ (ops[n].model # session /\ Sends(k) /\ Running(k))]
    <2>1. /\ ops' = [k \in Ops |-> IF k = n THEN after ELSE marked(k)]
          /\ UNCHANGED page
        BY <1>2 DEF Changes
    <2>2. \A k \in Ops : /\ marked(k).who = ops[k].who /\ marked(k).kind = ops[k].kind
                         /\ marked(k).at = ops[k].at
        BY <1>1 DEF OpRec
    <2> HIDE DEF marked
    <2>3. Ops' = Ops /\ \A k \in Ops : ops'[k] = IF k = n THEN after ELSE marked(k)
        <3>1. ops' = [k \in 1 .. Len(ops) |-> IF k = n THEN after ELSE marked(k)]
              /\ Len(ops) \in Nat
            BY <1>1, <2>1 DEF Ops
        <3>2. Len(ops') = Len(ops)
            BY <3>1
        <3> QED BY <3>1, <3>2 DEF Ops
    <2>4. \A k \in Ops : Stays(k)
        <3>1. ASSUME NEW k \in Ops, k # n PROVE Stays(k)
            BY <2>2, <2>3, <3>1 DEF Stays, Held
        <3>2. Stays(n)
            BY <1>2, <2>3 DEF Stays, Held
        <3> QED BY <3>1, <3>2
    <2> QED BY <2>1, <2>3, <2>4, OthersGoOn
<1>3. ASSUME TakesUp(n) PROVE HeldInv'
    <2> DEFINE after == [ops[n] EXCEPT !.at = "answer", !.raced = FALSE]
    <2>1. Changes(n, ops[n].model, after)
        BY <1>3 DEF TakesUp
    <2>2. after.who = ops[n].who /\ after.kind = ops[n].kind /\ after.at = "answer"
        BY <1>1 DEF OpRec
    <2> HIDE DEF after
    <2> QED BY <1>2, <2>1, <2>2
<1>4. ASSUME TakesUpLate(n) PROVE HeldInv'
    <2>1. Changes(n, ops[n].model, Done) /\ ~Held(ops[n], ops[n].who, {ops[n].kind})
        BY <1>4 DEF TakesUpLate, Held
    <2> QED BY <1>2, <2>1
<1>5. ASSUME TakesMessage(n) PROVE HeldInv'
    <2>1. ops[n].at = "send" /\ ops' = [ops EXCEPT ![n] = Done] /\ UNCHANGED page
        BY <1>5 DEF TakesMessage, Ends
    <2> QED BY <2>1, NoPicker
<1> QED BY <1>3, <1>4, <1>5

LEMMA PickNext == ModelsInv /\ HeldInv /\ [Next]_vars => HeldInv'
<1> SUFFICES ASSUME ModelsInv, HeldInv, [Next]_vars PROVE HeldInv'
    OBVIOUS
<1>1. ASSUME NEW c \in Client,
             \/ \E m \in Model : SetPaneModel(c, m)
             \/ SendPaneMessage(c) \/ SendReset(c) \/ OnReply(c)
             \/ SocketCloses(c) \/ Reconnects(c)
      PROVE  HeldInv'
    BY <1>1, PickPane
<1>2. ASSUME NEW m \in Model \cup {None}, SendVoiceMessage(m) PROVE HeldInv'
    BY <1>2, PickVoice
<1>3. ASSUME NEW n \in Ops,
             \/ DispatchClientFrame(n) \/ Answered(n)
             \/ SetFails(n) \/ PutFails(n) \/ MessageFails(n)
             \/ TakesUp(n) \/ TakesUpLate(n) \/ TakesMessage(n)
      PROVE  HeldInv'
    BY <1>3, PickDispatch, PickAnswered, PickFailed, PickTaken
<1>4. CASE UNCHANGED vars
    <2>1. UNCHANGED <<ops, pane, open, outbox, lost>>
        BY <1>4 DEF vars, page
    <2> QED BY <2>1 DEF HeldInv, HeldFor, Ops
<1> QED BY <1>1, <1>2, <1>3, <1>4 DEF Next

-----------------------------------------------------------------------------
(* What follows.                                                           *)

LEMMA ModelsTyped == ModelsInv => TypeOK
<1> SUFFICES ASSUME ModelsInv PROVE TypeOK
    OBVIOUS
<1>1. /\ ModelType /\ PageType /\ Awaited(ops, answers) /\ ops \in Seq(OpRec)
      /\ \A n \in Ops : ops[n] \in OpRec
    BY DEF ModelsInv, Shape, OpsOK, WellFormed, AnswersInv
<1>2. ToSet(answers) = {answers[i] : i \in 1 .. Len(answers)}
    BY <1>1 DEF Awaited, ToSet
<1>3. ASSUME NEW n \in Ops
      PROVE  /\ ops[n].who \in Client \cup {Voice, None}
             /\ ops[n].kind \in {"done", "set", "put", "message", "voice", "reset"}
             /\ ops[n].at \in {"queued", "patch", "reset", "send", "answer", "late", "over"}
    BY <1>1 DEF OpRec
<1>4. ASSUME NEW n \in Ops
      PROVE  ops[n].at = "answer" <=> n \in ToSet(answers)
    <2>1. ops[n].at = "answer" => \E i \in 1 .. Len(answers) : answers[i] = n
        BY <1>1 DEF Awaited, Ops
    <2>2. ASSUME NEW i \in 1 .. Len(answers), answers[i] = n PROVE ops[n].at = "answer"
        BY <1>1, <2>2 DEF Awaited
    <2> QED BY <1>2, <2>1, <2>2
<1>5. ASSUME NEW c \in Client PROVE ToSet(outbox[c]) \subseteq Model \cup {None}
    <2>1. outbox[c] \in Seq(Choice)
        BY <1>1 DEF PageType
    <2> QED BY <2>1 DEF ToSet, Choice
<1> QED BY <1>1, <1>3, <1>4, <1>5 DEF TypeOK, ModelType, PageType, Choice

(* Models.Inv: operations are well formed, what _selected_models remembers *)
(* is the override of the session until the next change is answered, a     *)
(* message whose patch was spared or answered meets its model there, and a *)
(* picker that waits (setPaneModel) has an operation or a reply to wait    *)
(* for.                                                                    *)
THEOREM ModelsCorrect == Spec => []Inv
<1>1. ModelsInv /\ HeldInv => Inv
    <2> SUFFICES ASSUME ModelsInv, HeldInv PROVE Inv
        OBVIOUS
    <2>1. Coherent
        <3>1. SUFFICES ASSUME selected # None, ~Unrecorded, ~stray PROVE selected = session
            BY DEF Coherent
        <3>2. answers = <<>>
            BY <3>1, Answering DEF ModelsInv
        <3> QED BY <3>1, <3>2 DEF ModelsInv, RecordInv, Recorded
    <2>2. RunsAsAsked
        <3>1. SUFFICES ASSUME NEW n \in Ops, ops[n].at = "send", ops[n].model # None,
                              ~ops[n].raced
                       PROVE  session = ops[n].model
            BY DEF RunsAsAsked
        <3>2. ops[n].kind \in {"message", "voice"} /\ Meets(ops[n], session)
            BY <3>1 DEF ModelsInv, Shape, OpsOK, WellFormed, RunInv
        <3> QED BY <3>1, <3>2 DEF Meets
    <2> QED BY <2>1, <2>2, ModelsTyped, HeldFollows DEF Inv
<1>2. Init => ModelsInv /\ HeldInv
    BY ModelsInit, PickInit
<1>3. ModelsInv /\ HeldInv /\ [Next]_vars => ModelsInv' /\ HeldInv'
    BY ModelsNext, PickNext
<1> QED BY <1>1, <1>2, <1>3, PTL DEF Spec

-----------------------------------------------------------------------------
(* The connection of the page (SynapsePage).                               *)

Shown == {"user", "reply"} \X Message

(* What a page sends, and what it is sent. *)
Upward ==
    {Frame("subscribe", Nil)} \cup {Frame("message", m) : m \in Message}
Downward ==
    {Frame("history", h) : h \in SUBSET Shown}
        \cup {Frame("ack", m) : m \in Message}
        \cup {Frame("message", m) : m \in Message}
        \cup {Frame("error", Nil)}

ShownType ==
    /\ timer \in BOOLEAN
    /\ messages \subseteq Shown
    /\ awaited \in Message \cup {Nil}
    /\ subscribed \in BOOLEAN
    /\ up \in [Socket -> Seq(Upward)]
    /\ down \in Seq(Downward)

HubType ==
    /\ connected \in BOOLEAN
    /\ wiped \in BOOLEAN
    /\ resync \in {"none", "due", "asked", "refused"}
    /\ run \in [Message -> {"none", "typed", "running", "ended", "done"}]
    /\ mishaps \in 0 .. MaxMishaps

(* The page has left every socket before the current one. *)
SocketType ==
    /\ wsEpoch \in Socket
    /\ ws \in [Socket -> {"none", "connecting", "open", "closed"}]
    /\ \A e \in 1 .. wsEpoch - 1 : ws[e] = "closed"
    /\ dead \subseteq Socket /\ closed \subseteq Socket

(* A socket the page has not opened has no endpoint, so a new one is not   *)
(* the registered one; and the registered one has an endpoint that runs.   *)
EndpointInv ==
    /\ ep \in [Socket -> Message \cup EndpointState]
    /\ \A e \in Socket : e > wsEpoch => ep[e] = "none"
    /\ channel # Nil => channel \in Socket
                         /\ ep[channel] \notin {"none", "connecting", "ended"}

PageInv == ShownType /\ HubType /\ SocketType /\ EndpointInv

LEMMA PageTypes == PageInv => SPTypeOK
BY DEF PageInv, ShownType, HubType, SocketType, EndpointInv, SPTypeOK, Shown

LEMMA PageStart == SPInit => PageInv
<1> SUFFICES ASSUME SPInit PROVE PageInv
    OBVIOUS
<1>1. 1 \in Socket
    BY SynapsePageAssumption DEF Socket
<1>2. ShownType
    <2>1. up \in [Socket -> Seq(Upward)] /\ down \in Seq(Downward)
        BY DEF SPInit
    <2> QED BY <2>1 DEF SPInit, ShownType
<1>3. HubType
    <2>1. run \in [Message -> {"none", "typed", "running", "ended", "done"}]
        BY DEF SPInit
    <2>2. mishaps \in 0 .. MaxMishaps
        BY SynapsePageAssumption DEF SPInit
    <2> QED BY <2>1, <2>2 DEF SPInit, HubType
<1>4. SocketType
    BY <1>1 DEF SPInit, SocketType
<1>5. EndpointInv
    <2>1. ep \in [Socket -> Message \cup EndpointState]
        BY DEF SPInit, EndpointState
    <2>2. ASSUME NEW e \in Socket, e > wsEpoch PROVE ep[e] = "none"
        BY <2>2 DEF SPInit
    <2> QED BY <2>1, <2>2 DEF SPInit, EndpointInv
<1> QED BY <1>2, <1>3, <1>4, <1>5 DEF PageInv

-----------------------------------------------------------------------------
(* The steps of the page.                                                  *)

(* A frame of the hub joins those on their way, if anybody is connected.   *)
LEMMA Sending ==
    ASSUME down \in Seq(Downward), NEW f \in Downward, SendToClient(f)
    PROVE  down' \in Seq(Downward)
BY DEF SendToClient

LEMMA SomeHistory ==
    ASSUME NEW h, h \subseteq Shown PROVE Frame("history", h) \in Downward
BY DEF Downward

LEMMA TranscriptShown == Transcript \subseteq Shown
BY DEF Transcript, Shown

LEMMA FaultCounts ==
    ASSUME mishaps \in 0 .. MaxMishaps, Mishap
    PROVE  mishaps' \in 0 .. MaxMishaps
BY SynapsePageAssumption DEF Mishap

(* What a frame of the hub does to the pane. *)
LEMMA FrameRead ==
    ASSUME PageInv, OnFrame
    PROVE  /\ messages' \subseteq Shown
           /\ awaited' \in Message \cup {Nil}
           /\ down' \in Seq(Downward)
<1> DEFINE f == Head(down)
<1>1. f \in Downward /\ down' = Tail(down) /\ Tail(down) \in Seq(Downward)
    BY DEF PageInv, ShownType, OnFrame
<1>2. messages \subseteq Shown /\ awaited \in Message \cup {Nil}
    BY DEF PageInv, ShownType
<1>3. CASE f.type = "history"
    <2>1. f.what \subseteq Shown
        BY <1>1, <1>3 DEF Downward, Frame
    <2>2. messages' = f.what /\ awaited' = Nil
        BY <1>3 DEF OnFrame, SetHistory
    <2> QED BY <1>1, <2>1, <2>2
<1>4. CASE f.type = "ack"
    <2>1. f.what \in Message
        BY <1>1, <1>4 DEF Downward, Frame
    <2>2. awaited' = f.what /\ messages' = messages
        BY <1>4 DEF OnFrame, MarkAck
    <2> QED BY <1>1, <1>2, <2>1, <2>2
<1>5. CASE f.type = "message"
    <2>1. f.what \in Message
        BY <1>1, <1>5 DEF Downward, Frame
    <2>2. messages' = messages \cup {<<"reply", f.what>>} /\ awaited' = Nil
        BY <1>5 DEF OnFrame, AppendAgentMessage
    <2>3. <<"reply", f.what>> \in Shown
        BY <2>1 DEF Shown
    <2> QED BY <1>1, <1>2, <2>2, <2>3
<1>6. CASE f.type \notin {"history", "ack", "message"}
    <2>1. awaited' = Nil /\ messages' = messages
        BY <1>6 DEF OnFrame, AppendSystem
    <2> QED BY <1>1, <1>2, <2>1
<1> QED BY <1>3, <1>4, <1>5, <1>6

(* The next socket has no endpoint yet, so it is not the registered one.   *)
LEMMA ConnectStep ==
    ASSUME PageInv, ConnectSynapse PROVE SocketType' /\ EndpointInv'
<1> DEFINE n == wsEpoch + 1
<1>1. /\ wsEpoch \in Socket /\ n \in Socket
      /\ wsEpoch' = n
      /\ wsEpoch \in Nat
      /\ Socket = 1 .. MaxSockets /\ MaxSockets \in Nat
    BY SynapsePageAssumption DEF ConnectSynapse, PageInv, SocketType, Socket
<1>2. ep[n] = "none"
    BY <1>1 DEF PageInv, EndpointInv
<1>3. /\ ws' = [ws EXCEPT ![wsEpoch] = "closed", ![n] = "connecting"]
      /\ ep' = [ep EXCEPT ![n] = "connecting"]
      /\ UNCHANGED <<dead, closed, channel>>
    BY DEF ConnectSynapse, networkVars, managerVars
<1>4. SocketType'
    <2>1. ws' \in [Socket -> {"none", "connecting", "open", "closed"}]
        BY <1>1, <1>3 DEF PageInv, SocketType
    <2>2. ASSUME NEW e \in 1 .. n - 1 PROVE ws'[e] = "closed"
        <3>1. e \in Socket /\ e # n /\ e \in Nat /\ (e = wsEpoch \/ e \in 1 .. wsEpoch - 1)
            BY <1>1
        <3>2. e # wsEpoch => ws[e] = "closed"
            BY <3>1 DEF PageInv, SocketType
        <3> QED BY <1>3, <3>1, <3>2 DEF PageInv, SocketType
    <2>3. dead' \subseteq Socket /\ closed' \subseteq Socket
        BY <1>3 DEF PageInv, SocketType
    <2> QED BY <1>1, <2>1, <2>2, <2>3 DEF SocketType
<1>5. EndpointInv'
    <2>1. ep' \in [Socket -> Message \cup EndpointState]
        BY <1>1, <1>3 DEF PageInv, EndpointInv, EndpointState
    <2>2. ASSUME NEW e \in Socket, e > n PROVE ep'[e] = "none"
        <3>1. e > wsEpoch /\ e # n
            BY <1>1, <2>2
        <3> QED BY <1>3, <3>1 DEF PageInv, EndpointInv
    <2>3. ASSUME channel # Nil
          PROVE  channel \in Socket /\ ep'[channel] \notin {"none", "connecting", "ended"}
        <3>1. channel \in Socket /\ ep[channel] \notin {"none", "connecting", "ended"}
            BY <2>3 DEF PageInv, EndpointInv
        <3> QED BY <1>2, <1>3, <3>1
    <2> QED BY <1>1, <1>3, <2>1, <2>2, <2>3 DEF EndpointInv
<1> QED BY <1>4, <1>5

(* Only the state of the current socket changes. *)
LEMMA CurrentSocket ==
    ASSUME PageInv,
           NEW s \in {"open", "closed"}, ws' = [ws EXCEPT ![wsEpoch] = s],
           UNCHANGED <<wsEpoch, dead, closed>>
    PROVE  SocketType'
<1>1. wsEpoch \in Socket /\ wsEpoch \in Nat
    BY SynapsePageAssumption DEF PageInv, SocketType, Socket
<1>2. ASSUME NEW e \in 1 .. wsEpoch - 1 PROVE ws'[e] = "closed"
    <2>1. e # wsEpoch /\ e \in Socket /\ ws[e] = "closed"
        BY <1>1, SynapsePageAssumption DEF PageInv, SocketType, Socket
    <2> QED BY <2>1 DEF PageInv, SocketType
<1>3. ws' \in [Socket -> {"none", "connecting", "open", "closed"}]
    BY <1>1 DEF PageInv, SocketType
<1> QED BY <1>1, <1>2, <1>3 DEF PageInv, SocketType

(* One endpoint moves on, and which socket is registered does not change.  *)
LEMMA EndpointMoves ==
    ASSUME PageInv, NEW e \in Socket, NEW s \in Message \cup EndpointState,
           ep[e] # "none", ep' = [ep EXCEPT ![e] = s],
           channel = e => s \notin {"none", "connecting", "ended"},
           UNCHANGED <<wsEpoch, channel>>
    PROVE  EndpointInv'
<1>1. ep' \in [Socket -> Message \cup EndpointState]
    BY DEF PageInv, EndpointInv
<1>2. ASSUME NEW x \in Socket, x > wsEpoch PROVE ep'[x] = "none"
    BY <1>2 DEF PageInv, EndpointInv
<1>3. ASSUME channel # Nil
      PROVE  channel \in Socket /\ ep'[channel] \notin {"none", "connecting", "ended"}
    BY <1>3 DEF PageInv, EndpointInv
<1> QED BY <1>1, <1>2, <1>3 DEF EndpointInv

LEMMA ConnectAgain ==
    ASSUME PageInv, TimerFires \/ ReconnectNow
    PROVE  PageInv'
<1>1. ConnectSynapse
    BY DEF TimerFires, ReconnectNow
<1>2. ShownType'
    BY <1>1 DEF PageInv, ShownType, ConnectSynapse, networkVars, managerVars
<1>3. mishaps' \in 0 .. MaxMishaps
    BY FaultCounts DEF PageInv, HubType, TimerFires, ReconnectNow
<1>4. HubType'
    BY <1>1, <1>3 DEF PageInv, HubType, ConnectSynapse, hubVars
<1> QED BY <1>1, <1>2, <1>4, ConnectStep DEF PageInv

(* A frame joins those on their way to the hub. *)
LEMMA FrameSent ==
    ASSUME PageInv, NEW f \in Upward,
           up' = [up EXCEPT ![wsEpoch] = Append(up[wsEpoch], f)]
    PROVE  up' \in [Socket -> Seq(Upward)]
<1>1. up \in [Socket -> Seq(Upward)] /\ wsEpoch \in Socket
    BY DEF PageInv, ShownType, SocketType
<1>2. Append(up[wsEpoch], f) \in Seq(Upward)
    BY <1>1
<1> QED BY <1>1, <1>2

LEMMA OpenStep == ASSUME PageInv, OnOpen PROVE PageInv'
<1>1. SocketType'
    BY CurrentSocket DEF OnOpen, endpointVars
<1>2. EndpointInv' /\ HubType'
    BY DEF PageInv, EndpointInv, HubType, OnOpen, endpointVars, managerVars,
           hubVars
<1>3. up' \in [Socket -> Seq(Upward)]
    <2>1. Frame("subscribe", Nil) \in Upward
        BY DEF Upward
    <2>2. up' = [up EXCEPT ![wsEpoch] = Append(up[wsEpoch], Frame("subscribe", Nil))]
        BY DEF OnOpen
    <2> QED BY <2>1, <2>2, FrameSent
<1>4. ShownType'
    BY <1>3 DEF PageInv, ShownType, OnOpen, managerVars
<1> QED BY <1>1, <1>2, <1>4 DEF PageInv

LEMMA CloseStep == ASSUME PageInv, OnSocketClose PROVE PageInv'
<1>1. SocketType'
    BY CurrentSocket DEF OnSocketClose, endpointVars, networkVars
<1>2. EndpointInv' /\ HubType'
    BY DEF PageInv, EndpointInv, HubType, OnSocketClose, endpointVars,
           managerVars, hubVars
<1>3. ShownType'
    BY DEF PageInv, ShownType, OnSocketClose, networkVars, managerVars
<1> QED BY <1>1, <1>2, <1>3 DEF PageInv

LEMMA SendStep ==
    ASSUME PageInv, NEW m \in Message, SendFromPane(m) PROVE PageInv'
<1>1. SocketType' /\ EndpointInv'
    BY DEF PageInv, SocketType, EndpointInv, SendFromPane, endpointVars,
           managerVars
<1>2. run' \in [Message -> {"none", "typed", "running", "ended", "done"}]
    BY DEF PageInv, HubType, SendFromPane
<1>3. HubType'
    BY <1>2 DEF PageInv, HubType, SendFromPane
<1>4. up' \in [Socket -> Seq(Upward)]
    <2>1. Frame("message", m) \in Upward
        BY DEF Upward
    <2>2. \/ up' = [up EXCEPT ![wsEpoch] = Append(up[wsEpoch], Frame("message", m))]
          \/ up' = up
        BY DEF SendFromPane, SendFrame
    <2> QED BY <2>1, <2>2, FrameSent DEF PageInv, ShownType
<1>5. messages' \subseteq Shown
    <2>1. <<"user", m>> \in Shown
        BY DEF Shown
    <2> QED BY <2>1 DEF PageInv, ShownType, SendFromPane
<1>6. ShownType'
    BY <1>4, <1>5 DEF PageInv, ShownType, SendFromPane, managerVars
<1> QED BY <1>1, <1>3, <1>6 DEF PageInv

LEMMA FrameStep == ASSUME PageInv, OnFrame PROVE PageInv'
<1>1. SocketType' /\ EndpointInv' /\ HubType'
    BY DEF PageInv, SocketType, EndpointInv, HubType, OnFrame, networkVars,
           endpointVars, hubVars
<1>2. ShownType'
    BY FrameRead DEF PageInv, ShownType, OnFrame, networkVars
<1> QED BY <1>1, <1>2 DEF PageInv

-----------------------------------------------------------------------------
(* The steps of an endpoint.                                               *)

LEMMA ConnectsStep ==
    ASSUME PageInv, NEW e \in Socket, Connects(e) PROVE PageInv'
<1>1. HubType'
    BY DEF PageInv, HubType, Connects, hubVars
<1>2. ShownType'
    BY DEF PageInv, ShownType, Connects, pageVars, networkVars
<1>3. SocketType'
    <2>1. closed' \subseteq Socket
        BY DEF PageInv, SocketType, EndpointInv, Connects
    <2> QED BY <2>1 DEF PageInv, SocketType, Connects, pageVars, networkVars
<1>4. EndpointInv'
    <2>1. ep' = [ep EXCEPT ![e] = "receiving"] /\ ep[e] = "connecting" /\ channel' = e
        BY DEF Connects
    <2>2. ep' \in [Socket -> Message \cup EndpointState]
        BY <2>1 DEF PageInv, EndpointInv, EndpointState
    <2>3. ASSUME NEW x \in Socket, x > wsEpoch PROVE ep'[x] = "none"
        BY <2>1, <2>3 DEF PageInv, EndpointInv
    <2>4. ep'[e] = "receiving" /\ wsEpoch' = wsEpoch
        BY <2>1 DEF PageInv, EndpointInv, Connects, pageVars
    <2> QED BY <2>1, <2>2, <2>3, <2>4 DEF EndpointInv
<1> QED BY <1>1, <1>2, <1>3, <1>4 DEF PageInv

LEMMA RaisesStep ==
    ASSUME PageInv, NEW e \in Socket, AcceptRaises(e) PROVE PageInv'
<1>1. ShownType' /\ HubType'
    BY DEF PageInv, ShownType, HubType, AcceptRaises, pageVars, networkVars,
           managerVars, hubVars
<1>2. SocketType'
    BY DEF PageInv, SocketType, AcceptRaises, pageVars, networkVars
<1>3. EndpointInv'
    <2>1. channel # e
        BY SynapsePageAssumption DEF PageInv, EndpointInv, AcceptRaises, Socket
    <2>2. "ended" \in EndpointState /\ UNCHANGED <<wsEpoch, channel>>
        BY DEF EndpointState, AcceptRaises, pageVars, managerVars
    <2> QED BY <2>1, <2>2, EndpointMoves DEF AcceptRaises
<1> QED BY <1>1, <1>2, <1>3 DEF PageInv

LEMMA RefusesStep ==
    ASSUME PageInv, NEW e \in Socket, Refuses(e) PROVE PageInv'
<1>1. ShownType'
    BY DEF PageInv, ShownType, Refuses, pageVars, networkVars, managerVars
<1>2. HubType'
    <2>1. mishaps' \in 0 .. MaxMishaps
        BY FaultCounts DEF PageInv, HubType, Refuses
    <2> QED BY <2>1 DEF PageInv, HubType, Refuses, hubVars
<1>3. SocketType'
    BY DEF PageInv, SocketType, Refuses, pageVars, networkVars
<1>4. EndpointInv'
    <2>1. "receiving" \in EndpointState /\ UNCHANGED <<wsEpoch, channel>>
        BY DEF EndpointState, Refuses, pageVars, managerVars
    <2> QED BY <2>1, EndpointMoves DEF Refuses
<1> QED BY <1>1, <1>2, <1>3, <1>4 DEF PageInv

LEMMA ReceivesStep ==
    ASSUME PageInv, NEW e \in Socket, Receives(e) PROVE PageInv'
<1> DEFINE f == Head(up[e])
<1>1. f \in Upward /\ Tail(up[e]) \in Seq(Upward)
    BY DEF PageInv, ShownType, Receives
<1>2. HubType' /\ SocketType'
    BY DEF PageInv, HubType, SocketType, Receives, pageVars, hubVars
<1>3. ShownType'
    <2>1. up' \in [Socket -> Seq(Upward)]
        BY <1>1 DEF PageInv, ShownType, Receives
    <2>2. Frame("history", {}) \in Downward /\ Frame("error", Nil) \in Downward
        BY SomeHistory DEF Downward
    <2>3. down' \in Seq(Downward)
        <3>1. \/ SendToClient(Frame("history", {}))
              \/ SendToClient(Frame("error", Nil))
              \/ down' = down
            BY DEF Receives
        <3>2. down \in Seq(Downward)
            BY DEF PageInv, ShownType
        <3> QED BY <2>2, <3>1, <3>2, Sending
    <2>4. subscribed' \in BOOLEAN
        BY DEF PageInv, ShownType, Receives
    <2> QED BY <2>1, <2>3, <2>4 DEF PageInv, ShownType, Receives, pageVars
<1>4. EndpointInv'
    <2>1. ep[e] = "receiving" /\ UNCHANGED <<wsEpoch, channel>>
        BY DEF Receives, pageVars
    <2>2. CASE ep' = [ep EXCEPT ![e] = "history"]
        <3>1. "history" \in EndpointState
            BY DEF EndpointState
        <3> QED BY <2>1, <2>2, <3>1, EndpointMoves
    <2>3. CASE f.type = "message" /\ ep' = [ep EXCEPT ![e] = f.what]
        <3>1. f.what \in Message
            BY <1>1, <2>3 DEF Upward, Frame
        <3>2. f.what \notin {"none", "connecting", "ended"}
            BY <3>1, SynapsePageAssumption DEF EndpointState
        <3> QED BY <2>1, <2>3, <3>1, <3>2, EndpointMoves
    <2>4. CASE ep' = ep
        BY <2>1, <2>4 DEF PageInv, EndpointInv
    <2> QED BY <2>2, <2>3, <2>4 DEF Receives
<1> QED BY <1>2, <1>3, <1>4 DEF PageInv

(* The endpoint goes on to receive, and the client is sent a frame. *)
LEMMA BackToReceiving ==
    ASSUME PageInv, NEW e \in Socket, ep[e] # "none",
           ep' = [ep EXCEPT ![e] = "receiving"],
           NEW f \in Downward, SendToClient(f),
           UNCHANGED <<pageVars, networkVars, closed, channel, subscribed>>
    PROVE  ShownType' /\ SocketType' /\ EndpointInv'
<1>1. down' \in Seq(Downward)
    BY Sending DEF PageInv, ShownType
<1>2. ShownType' /\ SocketType'
    BY <1>1 DEF PageInv, ShownType, SocketType, pageVars, networkVars
<1>3. "receiving" \in EndpointState /\ UNCHANGED <<wsEpoch, channel>>
    BY DEF EndpointState, pageVars
<1> QED BY <1>2, <1>3, EndpointMoves

LEMMA AnsweredStep ==
    ASSUME PageInv, NEW e \in Socket, SubscribeAnswered(e) PROVE PageInv'
<1>1. HubType'
    BY DEF PageInv, HubType, SubscribeAnswered
<1>2. Frame("history", Transcript) \in Downward
    BY TranscriptShown, SomeHistory
<1> QED BY <1>1, <1>2, BackToReceiving DEF PageInv, SubscribeAnswered

LEMMA RefusedStep ==
    ASSUME PageInv, NEW e \in Socket, SubscribeRefused(e) PROVE PageInv'
<1>1. HubType'
    BY DEF PageInv, HubType, SubscribeRefused, hubVars
<1>2. Frame("history", {}) \in Downward
    BY SomeHistory
<1> QED BY <1>1, <1>2, BackToReceiving DEF PageInv, SubscribeRefused

LEMMA TimesOutStep ==
    ASSUME PageInv, NEW e \in Socket, SubscribeTimesOut(e)
    PROVE  PageInv'
<1>1. mishaps' \in 0 .. MaxMishaps
    BY FaultCounts DEF PageInv, HubType, SubscribeTimesOut
<1>2. HubType'
    BY <1>1 DEF PageInv, HubType, SubscribeTimesOut
<1>3. Frame("history", {}) \in Downward
    BY SomeHistory
<1> QED BY <1>2, <1>3, BackToReceiving DEF PageInv, SubscribeTimesOut

LEMMA AcceptedStep ==
    ASSUME PageInv, NEW e \in Socket, SendAccepted(e) PROVE PageInv'
<1>1. ep[e] \in Message
    BY DEF SendAccepted
<1>2. run' \in [Message -> {"none", "typed", "running", "ended", "done"}]
    BY <1>1 DEF PageInv, HubType, SendAccepted
<1>3. HubType'
    BY <1>2 DEF PageInv, HubType, SendAccepted
<1>4. Frame("ack", ep[e]) \in Downward /\ ep[e] # "none"
    BY <1>1, SynapsePageAssumption DEF Downward, EndpointState
<1> QED BY <1>3, <1>4, BackToReceiving DEF PageInv, SendAccepted

(* The client is unregistered if it is this socket that is registered. *)
LEMMA EndsStep ==
    ASSUME PageInv, NEW e \in Socket, EndpointEnds(e) PROVE PageInv'
<1>1. HubType'
    BY DEF PageInv, HubType, EndpointEnds, hubVars
<1>2. SocketType'
    BY DEF PageInv, SocketType, EndpointEnds, pageVars, networkVars
<1>3. ShownType'
    <2>1. /\ down' \in {down, <<>>}
          /\ subscribed' \in {subscribed, FALSE}
        BY DEF EndpointEnds, managerVars
    <2>2. down' \in Seq(Downward)
        <3>1. down \in Seq(Downward) /\ <<>> \in Seq(Downward)
            BY DEF PageInv, ShownType
        <3> QED BY <2>1, <3>1
    <2>3. subscribed' \in BOOLEAN
        BY <2>1 DEF PageInv, ShownType
    <2> QED BY <2>2, <2>3 DEF PageInv, ShownType, EndpointEnds, pageVars, networkVars
<1>4. EndpointInv'
    <2>1. ep' = [ep EXCEPT ![e] = "ended"] /\ ep[e] = "receiving" /\ wsEpoch' = wsEpoch
        BY DEF EndpointEnds, pageVars
    <2>2. CASE channel = e
        <3>1. channel' = Nil
            BY <2>2 DEF EndpointEnds
        <3>2. ep' \in [Socket -> Message \cup EndpointState]
            BY <2>1 DEF PageInv, EndpointInv, EndpointState
        <3>3. ASSUME NEW x \in Socket, x > wsEpoch PROVE ep'[x] = "none"
            BY <2>1, <3>3 DEF PageInv, EndpointInv
        <3> QED BY <2>1, <3>1, <3>2, <3>3 DEF EndpointInv
    <2>3. CASE channel # e
        <3>1. "ended" \in EndpointState /\ channel' = channel
            BY <2>3 DEF EndpointState, EndpointEnds, managerVars
        <3> QED BY <2>1, <2>3, <3>1, EndpointMoves
    <2> QED BY <2>2, <2>3
<1> QED BY <1>1, <1>2, <1>3, <1>4 DEF PageInv

LEMMA EndpointStepInv ==
    ASSUME PageInv, NEW e \in Socket, EndpointStep(e) PROVE PageInv'
BY ConnectsStep, RaisesStep, ReceivesStep, AnsweredStep, RefusedStep, AcceptedStep, EndsStep
   DEF EndpointStep

-----------------------------------------------------------------------------
(* The steps of the hub and of the environment.                            *)

(* Nothing moves but the hub, which may send the client a frame. *)
LEMMA HubMoves ==
    ASSUME PageInv, HubType', NEW f \in Downward, SendToClient(f) \/ down' = down,
           UNCHANGED <<pageVars, networkVars, endpointVars, channel, subscribed>>
    PROVE  PageInv'
<1>1. down' \in Seq(Downward)
    BY Sending DEF PageInv, ShownType
<1>2. ShownType' /\ SocketType'
    BY <1>1 DEF PageInv, ShownType, SocketType, pageVars, networkVars,
                endpointVars
<1>3. EndpointInv'
    BY DEF PageInv, EndpointInv, pageVars, endpointVars
<1> QED BY <1>2, <1>3 DEF PageInv

LEMMA AnError == Frame("error", Nil) \in Downward
BY DEF Downward

LEMMA RunStep ==
    ASSUME PageInv, NEW m \in Message, RunEnds(m) \/ DeliverTerminal(m)
    PROVE  PageInv'
<1>1. run' \in [Message -> {"none", "typed", "running", "ended", "done"}]
    <2>1. \E s \in {"ended", "done"} : run' = [run EXCEPT ![m] = s]
        BY DEF RunEnds, DeliverTerminal
    <2> QED BY <2>1 DEF PageInv, HubType
<1>2. HubType'
    BY <1>1 DEF PageInv, HubType, RunEnds, DeliverTerminal
<1>3. Frame("message", m) \in Downward
    BY DEF Downward
<1>4. SendToClient(Frame("message", m)) \/ down' = down
    BY DEF RunEnds, DeliverTerminal, managerVars
<1>5. UNCHANGED <<pageVars, networkVars, endpointVars, channel, subscribed>>
    BY DEF RunEnds, DeliverTerminal, managerVars
<1> QED BY <1>2, <1>3, <1>4, <1>5, HubMoves

LEMMA ResyncStep ==
    ASSUME PageInv,
           \/ GatewayBack \/ ResyncAsks
           \/ ResyncAnswered \/ ResyncTimesOut
    PROVE  PageInv'
<1>1. UNCHANGED <<pageVars, networkVars, endpointVars, channel, subscribed>>
    BY DEF GatewayBack, ResyncAsks, ResyncAnswered, ResyncTimesOut,
           managerVars
<1>2. HubType'
    <2>1. mishaps' \in 0 .. MaxMishaps
        BY FaultCounts DEF PageInv, HubType, GatewayBack, ResyncAsks,
                           ResyncAnswered, ResyncTimesOut
    <2>2. wiped' \in BOOLEAN
        BY DEF PageInv, HubType, GatewayBack, ResyncAsks,
               ResyncAnswered, ResyncTimesOut
    <2>3. /\ connected' \in BOOLEAN
          /\ resync' \in {"none", "due", "asked", "refused"}
          /\ run' = run
        BY DEF PageInv, HubType, GatewayBack, ResyncAsks,
               ResyncAnswered, ResyncTimesOut
    <2> QED BY <2>1, <2>2, <2>3 DEF PageInv, HubType
<1>3. \E h \in SUBSET Shown : SendToClient(Frame("history", h)) \/ down' = down
    <2>1. \/ SendToClient(Frame("history", Transcript))
          \/ SendToClient(Frame("history", {}))
          \/ down' = down
        BY DEF GatewayBack, ResyncAsks, ResyncAnswered, ResyncTimesOut,
               managerVars
    <2> QED BY <2>1, TranscriptShown
<1>4. PICK h \in SUBSET Shown : SendToClient(Frame("history", h)) \/ down' = down
    BY <1>3
<1>5. Frame("history", h) \in Downward
    BY SomeHistory
<1> QED BY <1>1, <1>2, <1>4, <1>5, HubMoves

(* The endpoints whose requests have failed go on, which none that is      *)
(* registered does by ending.                                              *)
LEMMA DropsStep == ASSUME PageInv, GatewayDrops PROVE PageInv'
<1> DEFINE Sender == {e \in Socket : ep[e] \in Message}
<1>1. /\ ep' = [e \in Socket |-> IF e \in Sender THEN "receiving"
                                     ELSE IF ep[e] = "history" THEN "refused" ELSE ep[e]]
      /\ \E accepted \in SUBSET {ep[e] : e \in Sender} :
            run' = [m \in Message |-> IF m \in accepted THEN "running" ELSE run[m]]
      /\ down' = down \/ SendToClient(Frame("error", Nil))
    BY DEF GatewayDrops
<1>2. HubType'
    <2>1. mishaps' \in 0 .. MaxMishaps
        BY FaultCounts DEF PageInv, HubType, GatewayDrops
    <2>2. run' \in [Message -> {"none", "typed", "running", "ended", "done"}]
        BY <1>1 DEF PageInv, HubType
    <2>3. /\ resync' \in {"none", "due", "asked", "refused"}
          /\ connected' = FALSE
          /\ wiped' = wiped
        BY DEF PageInv, HubType, GatewayDrops
    <2> QED BY <2>1, <2>2, <2>3 DEF PageInv, HubType
<1>3. ShownType' /\ SocketType'
    <2>1. down' \in Seq(Downward)
        BY <1>1, AnError, Sending DEF PageInv, ShownType
    <2>2. UNCHANGED <<pageVars, networkVars, closed, channel, subscribed>>
        BY DEF GatewayDrops
    <2> QED BY <2>1, <2>2 DEF PageInv, ShownType, SocketType, pageVars, networkVars
<1>4. EndpointInv'
    <2>1. \A e \in Socket :
              /\ ep'[e] \in {ep[e], "receiving", "refused"}
              /\ ep[e] = "none" => ep'[e] = "none"
        BY <1>1, SynapsePageAssumption DEF EndpointState
    <2>2. ep' \in [Socket -> Message \cup EndpointState]
        <3>1. \A e \in Socket : ep'[e] \in Message \cup EndpointState
            BY <2>1 DEF PageInv, EndpointInv, EndpointState
        <3> QED BY <1>1, <3>1
    <2>3. wsEpoch' = wsEpoch /\ channel' = channel
        BY DEF GatewayDrops, pageVars
    <2>4. ASSUME NEW e \in Socket, e > wsEpoch PROVE ep'[e] = "none"
        BY <2>1, <2>4 DEF PageInv, EndpointInv
    <2>5. ASSUME channel # Nil
          PROVE  channel \in Socket /\ ep'[channel] \notin {"none", "connecting", "ended"}
        BY <2>1, <2>5 DEF PageInv, EndpointInv
    <2> QED BY <2>2, <2>3, <2>4, <2>5 DEF EndpointInv
<1> QED BY <1>2, <1>3, <1>4 DEF PageInv

LEMMA DiesStep ==
    ASSUME PageInv, NEW e \in Socket, LinkDies(e) PROVE PageInv'
<1>1. HubType'
    <2>1. mishaps' \in 0 .. MaxMishaps
        BY FaultCounts DEF PageInv, HubType, LinkDies
    <2> QED BY <2>1 DEF PageInv, HubType, LinkDies, hubVars
<1>2. ShownType' /\ SocketType' /\ EndpointInv'
    BY DEF PageInv, ShownType, SocketType, EndpointInv, LinkDies, pageVars,
           endpointVars, managerVars
<1> QED BY <1>1, <1>2 DEF PageInv

LEMMA PageStay == ASSUME PageInv, UNCHANGED spVars PROVE PageInv'
<1>1. UNCHANGED <<wsEpoch, ws, timer, messages, awaited, dead, up, ep, closed, channel,
                  subscribed, down, connected, resync, run, wiped, mishaps>>
    BY DEF spVars, pageVars, networkVars, endpointVars, managerVars,
           hubVars
<1> QED BY <1>1 DEF PageInv, ShownType, HubType, SocketType, EndpointInv

LEMMA PageStepInv == ASSUME PageInv, [SPNext]_spVars PROVE PageInv'
<1>1. ASSUME PageStep PROVE PageInv'
    BY <1>1, ConnectAgain, OpenStep, CloseStep, FrameStep DEF PageStep
<1>2. ASSUME NEW e \in Socket, EndpointStep(e) PROVE PageInv'
    BY <1>2, EndpointStepInv
<1>3. ASSUME HubStep PROVE PageInv'
    BY <1>3, RunStep, ResyncStep DEF HubStep
<1>4. ASSUME Environment PROVE PageInv'
    BY <1>4, ConnectAgain, DropsStep, ResyncStep, SendStep, RefusesStep, TimesOutStep, DiesStep
       DEF Environment
<1> QED BY <1>1, <1>2, <1>3, <1>4, PageStay DEF SPNext

(* Only the end of the endpoint of the registered socket takes the channel *)
(* and the subscriptions away.                                             *)
LEMMA Unregistered ==
    ASSUME PageInv, SPNext,
           (channel # Nil /\ channel' = Nil) \/ (subscribed /\ ~subscribed')
    PROVE  channel # Nil /\ ep'[channel] = "ended"
<1>1. PICK e \in Socket : EndpointEnds(e) /\ channel = e
    <2>1. ASSUME PageStep PROVE FALSE
        BY <2>1 DEF PageStep, TimerFires, ConnectSynapse, OnOpen,
                    OnSocketClose, OnFrame, managerVars
    <2>2. ASSUME HubStep PROVE FALSE
        BY <2>2 DEF HubStep, RunEnds, DeliverTerminal, GatewayBack,
                    ResyncAsks, ResyncAnswered, managerVars
    <2>3. ASSUME Environment PROVE FALSE
        BY <2>3 DEF Environment, ReconnectNow, ConnectSynapse,
                    GatewayDrops, ResyncTimesOut, SendFromPane,
                    Refuses, SubscribeTimesOut, LinkDies, managerVars
    <2>4. ASSUME NEW e \in Socket, EndpointStep(e), ~EndpointEnds(e)
          PROVE  FALSE
        <3>1. e # Nil
            BY SynapsePageAssumption DEF Socket
        <3> QED BY <2>4, <3>1 DEF EndpointStep, Connects, AcceptRaises,
                    Receives, SubscribeAnswered, SubscribeRefused,
                    SendAccepted, managerVars
    <2>5. ASSUME NEW e \in Socket, EndpointEnds(e) PROVE channel = e
        BY <2>5 DEF EndpointEnds, managerVars
    <2> QED BY <2>1, <2>2, <2>3, <2>4, <2>5 DEF SPNext
<1>2. e # Nil
    BY SynapsePageAssumption DEF Socket
<1>3. ep'[e] = "ended"
    BY <1>1 DEF PageInv, EndpointInv, EndpointEnds
<1> QED BY <1>1, <1>2, <1>3

-----------------------------------------------------------------------------
(* What the page is owed.                                                  *)

Joined == channel = wsEpoch /\ ws[wsEpoch] = "open"
Subscribing == \E i \in 1 .. Len(up[wsEpoch]) : up[wsEpoch][i].type = "subscribe"

(* A history is still to come, which will show and clear everything.       *)
HistoryDue ==
    \/ ~Joined \/ Subscribing
    \/ ~connected \/ resync \in {"due", "asked"}
    \/ \E e \in Socket : ep[e] = "history"

(* A frame shows the reply of m, or a history without it takes it away.    *)
Gives(f, m) ==
    \/ f.type = "message" /\ f.what = m
    \/ f.type = "history" /\ <<"reply", m>> \in f.what
Takes(f, m) == f.type = "history" /\ <<"reply", m>> \notin f.what

(* The pane shows the reply when it has read d. *)
ShowsIn(d, shown, m) ==
    \/ <<"reply", m>> \in shown /\ \A j \in 1 .. Len(d) : ~Takes(d[j], m)
    \/ \E i \in 1 .. Len(d) : Gives(d[i], m) /\ \A j \in i + 1 .. Len(d) : ~Takes(d[j], m)

ReplyInv ==
    \A m \in Message : run[m] = "done" => wiped \/ HistoryDue \/ ShowsIn(down, messages, m)

(* Something will still answer m. *)
Expected(m) ==
    \/ HistoryDue \/ run[m] \in {"running", "ended"} \/ ep[wsEpoch] = m
    \/ \E i \in 1 .. Len(up[wsEpoch]) : up[wsEpoch][i] = Frame("message", m)

(* What the pane awaits when it has read all that is on its way. *)
AwaitInv ==
    /\ down = <<>> /\ awaited # Nil => Expected(awaited)
    /\ down # <<>> /\ down[Len(down)].type = "ack" => Expected(down[Len(down)].what)

(* An accepted socket is not open before; a page that is joined and has    *)
(* nothing to subscribe is subscribed; requests fail without a connection. *)
JoinInv ==
    /\ \A e \in Socket : ep[e] = "connecting" => ws[e] # "open"
    /\ Joined => Subscribing \/ subscribed
    /\ connected => resync # "refused" /\ \A e \in Socket : ep[e] # "refused"

OwedInv == JoinInv /\ ReplyInv /\ AwaitInv

(* A history that is to come settles both. *)
LEMMA DueSettles == ASSUME HistoryDue' PROVE ReplyInv' /\ AwaitInv'
BY DEF ReplyInv, AwaitInv, Expected

LEMMA OwedAtRest == PageInv /\ OwedInv => NothingOwed
<1> SUFFICES ASSUME PageInv, OwedInv, AtRest PROVE
        /\ \A m \in Message : run[m] = "done" => <<"reply", m>> \in messages \/ wiped
        /\ awaited # Nil => run[awaited] \in {"running", "ended"}
    BY DEF NothingOwed
<1>1. Len(up[wsEpoch]) = 0 /\ Len(down) = 0
    BY DEF AtRest
<1>2. ~HistoryDue
    BY <1>1 DEF AtRest, HistoryDue, Joined, Subscribing
<1>3. ASSUME NEW m \in Message, run[m] = "done" PROVE <<"reply", m>> \in messages \/ wiped
    BY <1>1, <1>2, <1>3 DEF OwedInv, ReplyInv, ShowsIn
<1>4. ASSUME awaited # Nil PROVE run[awaited] \in {"running", "ended"}
    <2>1. Expected(awaited)
        BY <1>4 DEF AtRest, OwedInv, AwaitInv
    <2>2. awaited \in Message
        BY <1>4 DEF PageInv, ShownType
    <2>3. ep[wsEpoch] # awaited
        BY <2>2, SynapsePageAssumption DEF AtRest, EndpointState
    <2> QED BY <1>1, <1>2, <2>1, <2>3 DEF Expected
<1> QED BY <1>3, <1>4

LEMMA OwedInit == SPInit => OwedInv
<1> SUFFICES ASSUME SPInit PROVE OwedInv
    OBVIOUS
<1>1. 1 \in Socket
    BY SynapsePageAssumption DEF Socket
<1>2. ~Joined
    BY <1>1 DEF SPInit, Joined
<1>3. JoinInv
    BY <1>1, <1>2 DEF SPInit, JoinInv
<1> QED BY <1>2, <1>3 DEF OwedInv, ReplyInv, AwaitInv, Expected, HistoryDue

(* While no frame of the hub comes, what is awaited is only answered. *)
LEMMA AwaitKept ==
    ASSUME PageInv, AwaitInv, UNCHANGED <<down, awaited>>,
           \A m \in Message : Expected(m) => Expected(m)'
    PROVE  AwaitInv'
<1>1. ASSUME down # <<>>, down[Len(down)].type = "ack"
      PROVE  Expected(down[Len(down)].what)'
    <2>1. PICK x : x = down[Len(down)].what
        OBVIOUS
    <2>2. down[Len(down)] \in Downward
        BY <1>1 DEF PageInv, ShownType
    <2>3. x \in Message
        BY <1>1, <2>1, <2>2 DEF Downward, Frame
    <2>4. Expected(x)'
        BY <1>1, <2>1, <2>3 DEF AwaitInv
    <2> QED BY <2>1, <2>4 DEF Expected
<1>2. ASSUME down = <<>>, awaited # Nil PROVE Expected(awaited)'
    <2>1. PICK x : x = awaited
        OBVIOUS
    <2>2. x \in Message
        BY <1>2, <2>1 DEF PageInv, ShownType
    <2>3. Expected(x)'
        BY <1>2, <2>1, <2>2 DEF AwaitInv
    <2> QED BY <2>1, <2>3 DEF Expected
<1> QED BY <1>1, <1>2 DEF AwaitInv

-----------------------------------------------------------------------------
(* Frames on their way.                                                    *)

(* A frame that is no history without the reply leaves it to be shown. *)
LEMMA ShownStays ==
    ASSUME NEW S, NEW d \in Seq(S), NEW f \in S, NEW shown, NEW m,
           ShowsIn(d, shown, m), ~Takes(f, m)
    PROVE  ShowsIn(Append(d, f), shown, m)
<1> DEFINE a == Append(d, f)
<1>1. /\ Len(d) \in Nat /\ Len(a) = Len(d) + 1 /\ a[Len(a)] = f
      /\ \A i \in 1 .. Len(d) : a[i] = d[i]
    OBVIOUS
<1> HIDE DEF a
<1>2. \A j \in 1 .. Len(a) : j = Len(a) \/ j \in 1 .. Len(d)
    BY <1>1
<1>3. CASE <<"reply", m>> \in shown /\ \A j \in 1 .. Len(d) : ~Takes(d[j], m)
    <2>1. \A j \in 1 .. Len(a) : ~Takes(a[j], m)
        BY <1>1, <1>2, <1>3
    <2> QED BY <1>3, <2>1 DEF ShowsIn, a
<1>4. ASSUME NEW i \in 1 .. Len(d), Gives(d[i], m),
             \A j \in i + 1 .. Len(d) : ~Takes(d[j], m)
      PROVE  ShowsIn(a, shown, m)
    <2>1. i \in 1 .. Len(a) /\ Gives(a[i], m)
        BY <1>1, <1>4
    <2>2. ASSUME NEW j \in i + 1 .. Len(a) PROVE ~Takes(a[j], m)
        <3>1. j = Len(a) \/ (j \in 1 .. Len(d) /\ j \in i + 1 .. Len(d))
            BY <1>1
        <3> QED BY <1>1, <1>4, <3>1
    <2> QED BY <2>1, <2>2 DEF ShowsIn
<1> QED BY <1>3, <1>4 DEF ShowsIn, a

(* A frame that gives the reply shows it. *)
LEMMA LastShows ==
    ASSUME NEW S, NEW d \in Seq(S), NEW f \in S, NEW shown, NEW m, Gives(f, m)
    PROVE  ShowsIn(Append(d, f), shown, m)
<1> DEFINE a == Append(d, f)
<1>1. /\ Len(d) \in Nat /\ Len(a) = Len(d) + 1 /\ a[Len(a)] = f
    OBVIOUS
<1> HIDE DEF a
<1>2. Len(a) \in 1 .. Len(a) /\ Gives(a[Len(a)], m)
    BY <1>1
<1>3. \A j \in Len(a) + 1 .. Len(a) : FALSE
    BY <1>1
<1> QED BY <1>2, <1>3 DEF ShowsIn, a

LEMMA TailOf ==
    ASSUME NEW S, NEW d \in Seq(S), d # <<>>
    PROVE  /\ Len(d) \in Nat \ {0} /\ Len(Tail(d)) = Len(d) - 1
           /\ \A i \in 1 .. Len(d) - 1 : Tail(d)[i] = d[i + 1]
           /\ Len(d) # 1 => Tail(d) # <<>>
<1>1. /\ Len(d) \in Nat \ {0} /\ Len(Tail(d)) = Len(d) - 1
      /\ \A i \in 1 .. Len(d) - 1 : Tail(d)[i] = d[i + 1]
    OBVIOUS
<1>2. ASSUME Len(d) # 1 PROVE Tail(d) # <<>>
    <2>1. Len(Tail(d)) # 0 /\ Len(<<>>) = 0
        BY <1>1, <1>2
    <2> QED BY <2>1
<1> QED BY <1>1, <1>2

(* Reading the first frame keeps what the pane will show. *)
LEMMA ReadShows ==
    ASSUME NEW S, NEW d \in Seq(S), d # <<>>, NEW shown, NEW after, NEW m,
           ShowsIn(d, shown, m),
           Gives(d[1], m) => <<"reply", m>> \in after,
           <<"reply", m>> \in shown /\ ~Takes(d[1], m) => <<"reply", m>> \in after
    PROVE  ShowsIn(Tail(d), after, m)
<1> DEFINE t == Tail(d)
<1>1. /\ Len(d) \in Nat \ {0} /\ Len(t) = Len(d) - 1
      /\ \A i \in 1 .. Len(t) : t[i] = d[i + 1]
    BY TailOf
<1> HIDE DEF t
<1>2. CASE <<"reply", m>> \in shown /\ \A j \in 1 .. Len(d) : ~Takes(d[j], m)
    <2>1. 1 \in 1 .. Len(d)
        BY <1>1
    <2>2. <<"reply", m>> \in after
        BY <1>2, <2>1
    <2>3. ASSUME NEW j \in 1 .. Len(t) PROVE ~Takes(t[j], m)
        <3>1. j + 1 \in 1 .. Len(d) /\ t[j] = d[j + 1]
            BY <1>1
        <3> QED BY <1>2, <3>1
    <2> QED BY <2>2, <2>3 DEF ShowsIn, t
<1>3. ASSUME NEW i \in 1 .. Len(d), Gives(d[i], m),
             \A j \in i + 1 .. Len(d) : ~Takes(d[j], m)
      PROVE  ShowsIn(t, after, m)
    <2>1. CASE i = 1
        <3>1. <<"reply", m>> \in after
            BY <1>3, <2>1
        <3>2. ASSUME NEW j \in 1 .. Len(t) PROVE ~Takes(t[j], m)
            <4>1. j + 1 \in i + 1 .. Len(d) /\ t[j] = d[j + 1]
                BY <1>1, <2>1
            <4> QED BY <1>3, <4>1
        <3> QED BY <3>1, <3>2 DEF ShowsIn
    <2>2. CASE i # 1
        <3>1. i - 1 \in 1 .. Len(t) /\ t[i - 1] = d[i - 1 + 1] /\ i - 1 + 1 = i
            BY <1>1, <2>2
        <3>2. Gives(t[i - 1], m)
            BY <1>3, <3>1
        <3>3. ASSUME NEW j \in (i - 1) + 1 .. Len(t) PROVE ~Takes(t[j], m)
            <4>1. j + 1 \in i + 1 .. Len(d) /\ t[j] = d[j + 1]
                BY <1>1, <3>1
            <4> QED BY <1>3, <4>1
        <3> QED BY <3>1, <3>2, <3>3 DEF ShowsIn
    <2> QED BY <2>1, <2>2
<1> QED BY <1>2, <1>3 DEF ShowsIn, t

-----------------------------------------------------------------------------
(* The steps of the page.                                                  *)

LEMMA OwedConnect ==
    ASSUME PageInv, OwedInv, TimerFires \/ ReconnectNow
    PROVE  OwedInv'
<1> DEFINE n == wsEpoch + 1
<1>1. /\ wsEpoch' = n /\ n \in Socket /\ wsEpoch \in Socket
      /\ ws' = [ws EXCEPT ![wsEpoch] = "closed", ![n] = "connecting"]
      /\ ep' = [ep EXCEPT ![n] = "connecting"]
      /\ UNCHANGED <<connected, resync>>
    BY SynapsePageAssumption DEF TimerFires, ReconnectNow, ConnectSynapse, hubVars, Socket,
           PageInv, SocketType
<1>2. ws \in [Socket -> {"none", "connecting", "open", "closed"}]
    BY DEF PageInv, SocketType
<1>3. ws'[n] = "connecting" /\ \A x \in Socket : ws'[x] \in {ws[x], "closed", "connecting"}
    BY <1>1, <1>2
<1>4. ~Joined'
    BY <1>1, <1>3 DEF Joined
<1>5. \A x \in Socket : x # n => ep'[x] = ep[x]
    BY <1>1 DEF PageInv, EndpointInv
<1>6. ep'[n] = "connecting"
    BY <1>1 DEF PageInv, EndpointInv
<1>7. JoinInv'
    <2>1. ASSUME NEW x \in Socket, ep'[x] = "connecting" PROVE ws'[x] # "open"
        BY <1>3, <1>5, <2>1 DEF OwedInv, JoinInv
    <2>2. connected' => resync' # "refused" /\ \A x \in Socket : ep'[x] # "refused"
        BY <1>1, <1>5, <1>6 DEF OwedInv, JoinInv
    <2> QED BY <1>4, <2>1, <2>2 DEF JoinInv
<1> QED BY <1>4, <1>7, DueSettles DEF HistoryDue, OwedInv

LEMMA OwedOpen == ASSUME PageInv, OwedInv, OnOpen PROVE OwedInv'
<1> DEFINE f == Frame("subscribe", Nil)
<1>1. /\ wsEpoch' = wsEpoch /\ wsEpoch \in Socket /\ ep[wsEpoch] # "connecting"
      /\ ws' = [ws EXCEPT ![wsEpoch] = "open"]
      /\ up' = [up EXCEPT ![wsEpoch] = Append(up[wsEpoch], f)]
      /\ UNCHANGED <<ep, connected, resync>>
    BY DEF OnOpen, endpointVars, hubVars, PageInv, SocketType
<1>2. Subscribing'
    <2>1. up[wsEpoch] \in Seq(Upward) /\ f \in Upward
        BY <1>1 DEF PageInv, ShownType, Upward
    <2>2. up'[wsEpoch] = Append(up[wsEpoch], f)
        BY <1>1 DEF PageInv, ShownType
    <2>3. Len(up'[wsEpoch]) \in 1 .. Len(up'[wsEpoch]) /\ up'[wsEpoch][Len(up'[wsEpoch])] = f
        BY <2>1, <2>2
    <2>4. f.type = "subscribe"
        BY DEF Frame
    <2> QED BY <1>1, <2>3, <2>4 DEF Subscribing
<1>3. JoinInv'
    <2>1. \A x \in Socket : x # wsEpoch => ws'[x] = ws[x]
        BY <1>1 DEF PageInv, SocketType
    <2> QED BY <1>1, <1>2, <2>1 DEF OwedInv, JoinInv
<1> QED BY <1>2, <1>3, DueSettles DEF HistoryDue, OwedInv

LEMMA OwedClose == ASSUME PageInv, OwedInv, OnSocketClose PROVE OwedInv'
<1>1. /\ wsEpoch' = wsEpoch /\ wsEpoch \in Socket
      /\ ws' = [ws EXCEPT ![wsEpoch] = "closed"]
      /\ UNCHANGED <<ep, connected, resync>>
    BY DEF OnSocketClose, endpointVars, hubVars, PageInv, SocketType
<1>2. ws'[wsEpoch] = "closed" /\ \A x \in Socket : ws'[x] \in {ws[x], "closed"}
    BY <1>1 DEF PageInv, SocketType
<1>3. ~Joined'
    BY <1>1, <1>2 DEF Joined
<1>4. JoinInv'
    BY <1>1, <1>2, <1>3 DEF OwedInv, JoinInv
<1> QED BY <1>3, <1>4, DueSettles DEF HistoryDue, OwedInv

LEMMA OwedSend ==
    ASSUME PageInv, OwedInv, NEW m \in Message, SendFromPane(m)
    PROVE  OwedInv'
<1> DEFINE f == Frame("message", m)
           u == up[wsEpoch]
           v == up'[wsEpoch]
<1>1. /\ UNCHANGED <<wsEpoch, ws, channel, subscribed, down, ep, connected, resync, wiped>>
      /\ run[m] = "none" /\ run' = [run EXCEPT ![m] = "typed"]
      /\ messages' = messages \cup {<<"user", m>>} /\ awaited' = m
    BY DEF SendFromPane, endpointVars, managerVars
<1>2. u \in Seq(Upward) /\ f \in Upward /\ wsEpoch \in Socket
    BY DEF PageInv, ShownType, SocketType, Upward
<1>3. IF ws[wsEpoch] = "open" THEN v = Append(u, f) ELSE v = u
    BY <1>2 DEF SendFromPane, SendFrame, IsSocketOpen, PageInv, ShownType
<1>4. /\ Len(u) \in Nat /\ Len(v) \in Nat /\ Len(u) <= Len(v)
      /\ \A i \in 1 .. Len(u) : i \in 1 .. Len(v) /\ v[i] = u[i]
    BY <1>2, <1>3
<1>5. Subscribing => Subscribing'
    BY <1>1, <1>4 DEF Subscribing
<1>6. HistoryDue => HistoryDue'
    BY <1>1, <1>5 DEF HistoryDue, Joined
<1>7. \A x \in Message : run'[x] = run[x] \/ (x = m /\ run'[x] = "typed")
    BY <1>1 DEF PageInv, HubType
<1>8. JoinInv'
    BY <1>1, <1>5 DEF OwedInv, JoinInv, Joined
<1>9. CASE HistoryDue
    BY <1>6, <1>8, <1>9, DueSettles DEF OwedInv
<1>10. CASE ~HistoryDue
    <2>1. ReplyInv'
        <3>1. SUFFICES ASSUME NEW x \in Message, run'[x] = "done"
                       PROVE  wiped' \/ ShowsIn(down', messages', x)
            BY DEF ReplyInv
        <3>2. run[x] = "done"
            BY <1>7, <3>1
        <3>3. wiped \/ ShowsIn(down, messages, x)
            BY <1>10, <3>2 DEF OwedInv, ReplyInv
        <3> QED BY <1>1, <3>3 DEF ShowsIn
    <2>2. ASSUME NEW x \in Message, Expected(x) PROVE Expected(x)'
        <3>1. run[x] \in {"running", "ended"} => run'[x] \in {"running", "ended"}
            BY <1>1, <1>7
        <3>2. ASSUME NEW i \in 1 .. Len(u), u[i] = Frame("message", x)
              PROVE  \E j \in 1 .. Len(v) : v[j] = Frame("message", x)
            BY <1>4, <3>2
        <3> QED BY <1>1, <1>6, <2>2, <3>1, <3>2 DEF Expected
    <2>3. Expected(m)'
        <3>1. ws[wsEpoch] = "open"
            BY <1>10 DEF HistoryDue, Joined
        <3>2. Len(v) \in 1 .. Len(v) /\ v[Len(v)] = f
            BY <1>2, <1>3, <3>1
        <3> QED BY <1>1, <3>2 DEF Expected
    <2>4. AwaitInv'
        <3>1. PICK x : x = down[Len(down)].what
            OBVIOUS
        <3>2. ASSUME down # <<>>, down[Len(down)].type = "ack" PROVE Expected(x)'
            <4>1. down[Len(down)] \in Downward
                BY <3>2 DEF PageInv, ShownType
            <4>2. x \in Message
                BY <3>1, <3>2, <4>1 DEF Downward, Frame
            <4>3. Expected(x)
                BY <3>1, <3>2 DEF OwedInv, AwaitInv
            <4> QED BY <2>2, <4>2, <4>3
        <3>3. down' # <<>> /\ down'[Len(down')].type = "ack" => Expected(down[Len(down)].what)'
            BY <1>1, <3>1, <3>2 DEF Expected
        <3> QED BY <1>1, <2>3, <3>3 DEF AwaitInv
    <2> QED BY <1>8, <2>1, <2>4 DEF OwedInv
<1> QED BY <1>9, <1>10

LEMMA OwedFrame == ASSUME PageInv, OwedInv, OnFrame PROVE OwedInv'
<1>1. /\ UNCHANGED <<wsEpoch, ws, channel, subscribed, up, ep, connected, resync, wiped, run>>
      /\ down # <<>> /\ down' = Tail(down)
    BY DEF OnFrame, networkVars, endpointVars, hubVars
<1>2. down \in Seq(Downward) /\ down[1] \in Downward /\ Head(down) = down[1]
    BY <1>1 DEF PageInv, ShownType
<1>3. (HistoryDue <=> HistoryDue') /\ (\A x : Expected(x) <=> Expected(x)')
    BY <1>1 DEF HistoryDue, Joined, Subscribing, Expected
<1>4. JoinInv'
    BY <1>1 DEF OwedInv, JoinInv, Joined, Subscribing
<1>5. /\ down[1].type = "history" => messages' = down[1].what /\ awaited' = Nil
      /\ down[1].type = "ack" => messages' = messages /\ awaited' = down[1].what
      /\ down[1].type = "message" =>
            messages' = messages \cup {<<"reply", down[1].what>>} /\ awaited' = Nil
      /\ down[1].type \notin {"history", "ack", "message"} =>
            messages' = messages /\ awaited' = Nil
    BY <1>2 DEF OnFrame, SetHistory, MarkAck, AppendAgentMessage,
                AppendSystem
<1>6. ReplyInv'
    <2>1. SUFFICES ASSUME NEW x \in Message, run[x] = "done", ~HistoryDue, ~wiped
                   PROVE  ShowsIn(Tail(down), messages', x)
        BY <1>1, <1>3 DEF ReplyInv
    <2>2. ShowsIn(down, messages, x)
        BY <2>1 DEF OwedInv, ReplyInv
    <2>3. Gives(down[1], x) => <<"reply", x>> \in messages'
        BY <1>5 DEF Gives
    <2>4. <<"reply", x>> \in messages /\ ~Takes(down[1], x) => <<"reply", x>> \in messages'
        BY <1>5 DEF Takes
    <2> QED BY <1>1, <1>2, <2>2, <2>3, <2>4, ReadShows
<1>7. AwaitInv'
    <2>1. CASE Len(down) = 1
        <3>1. down' = <<>>
            BY <1>1, <1>2, <2>1
        <3>2. awaited' # Nil => Expected(awaited')
            BY <1>1, <1>5, <2>1 DEF OwedInv, AwaitInv
        <3>3. awaited' # Nil => Expected(awaited)'
            BY <1>1, <1>3, <3>2 DEF HistoryDue, Joined, Subscribing, Expected
        <3> QED BY <3>1, <3>3 DEF AwaitInv
    <2>2. CASE Len(down) # 1
        <3>1. /\ Len(down) \in Nat \ {0} /\ Len(Tail(down)) = Len(down) - 1
              /\ \A i \in 1 .. Len(down) - 1 : Tail(down)[i] = down[i + 1]
            <4>1. down \in Seq(Downward) /\ down # <<>>
                BY <1>1, <1>2
            <4> QED BY <4>1, TailOf
        <3>2. down' # <<>> /\ down'[Len(down')] = down[Len(down)]
            <4>1. /\ Len(down) - 1 \in 1 .. Len(down) - 1
                  /\ Len(down) - 1 + 1 = Len(down)
                BY <2>2, <3>1
            <4>2. Tail(down)[Len(Tail(down))] = down[Len(down)] /\ Len(Tail(down)) # 0
                BY <3>1, <4>1
            <4>3. Tail(down) # <<>>
                BY <1>1, <1>2, <2>2, TailOf
            <4> QED BY <1>1, <4>2, <4>3, Zenon
        <3>3. PICK x : x = down[Len(down)].what
            OBVIOUS
        <3>4. down[Len(down)].type = "ack" => Expected(x)'
            BY <1>1, <1>3, <3>3 DEF OwedInv, AwaitInv
        <3>5. down[Len(down)].type = "ack" => Expected(down[Len(down)].what)'
            BY <3>2, <3>3, <3>4 DEF Expected
        <3> QED BY <3>2, <3>5 DEF AwaitInv
    <2> QED BY <2>1, <2>2
<1> QED BY <1>4, <1>6, <1>7 DEF OwedInv

-----------------------------------------------------------------------------
(* The steps of an endpoint.                                               *)

(* A history of all that is over, or an empty one that wipes, settles both *)
(* as it is sent.                                                          *)
LEMMA HistorySent ==
    ASSUME PageInv, NEW h, h \subseteq Shown,
           SendToClient(Frame("history", h)), UNCHANGED <<channel, wsEpoch, run>>,
           h = Transcript \/ wiped' = TRUE
    PROVE  ReplyInv' /\ AwaitInv'
<1> DEFINE f == Frame("history", h)
<1>1. CASE channel = Nil
    <2>1. ~Joined'
        BY <1>1, SynapsePageAssumption DEF Joined, Socket, PageInv, SocketType
    <2> QED BY <2>1, DueSettles DEF HistoryDue
<1>2. CASE channel # Nil
    <2>1. /\ down' = Append(down, f) /\ down \in Seq(Downward) /\ f \in Downward
          /\ f.type = "history" /\ f.what = h
        BY <1>2, SomeHistory DEF SendToClient, Frame, PageInv, ShownType
    <2>2. down' # <<>> /\ down'[Len(down')] = f
        BY <2>1
    <2>3. AwaitInv'
        BY <2>1, <2>2 DEF AwaitInv
    <2>4. ASSUME NEW m \in Message, run'[m] = "done", ~wiped'
          PROVE  ShowsIn(down', messages', m)
        <3>1. <<"reply", m>> \in h
            BY <2>4 DEF Transcript
        <3>2. Gives(f, m)
            BY <2>1, <3>1 DEF Gives
        <3> QED BY <2>1, <3>2, LastShows
    <2> QED BY <2>3, <2>4 DEF ReplyInv
<1> QED BY <1>1, <1>2

LEMMA OwedConnects ==
    ASSUME PageInv, OwedInv, NEW e \in Socket, Connects(e)
    PROVE  OwedInv'
<1>1. /\ ep[e] = "connecting" /\ channel' = e /\ ep' = [ep EXCEPT ![e] = "receiving"]
      /\ UNCHANGED <<wsEpoch, ws, subscribed, connected, resync>>
    BY DEF Connects, pageVars, hubVars
<1>2. ~Joined'
    BY <1>1 DEF Joined, OwedInv, JoinInv
<1>3. JoinInv'
    <2>1. \A x \in Socket : ep'[x] \in {ep[x], "receiving"}
        BY <1>1 DEF PageInv, EndpointInv
    <2> QED BY <1>1, <1>2, <2>1 DEF OwedInv, JoinInv
<1> QED BY <1>2, <1>3, DueSettles DEF HistoryDue, OwedInv

(* An endpoint that asks for nothing goes on or ends. *)
LEMMA OwedIdle ==
    ASSUME PageInv, OwedInv, NEW e \in Socket,
           ep[e] \in {"connecting", "receiving"},
           NEW s \in {"receiving", "ended"}, ep' = [ep EXCEPT ![e] = s],
           UNCHANGED <<pageVars, networkVars, managerVars, hubVars>>
    PROVE  OwedInv'
<1>1. UNCHANGED <<wsEpoch, ws, messages, awaited, up, channel, subscribed, down, connected,
                  resync, run, wiped>>
    BY DEF pageVars, networkVars, managerVars, hubVars
<1>2. \A x \in Socket : IF x = e THEN ep'[x] = s ELSE ep'[x] = ep[x]
    BY DEF PageInv, EndpointInv
<1>3. /\ \A x \in Socket : ep[x] = "history" <=> ep'[x] = "history"
      /\ \A m \in Message : ep[e] # m
      /\ \A x \in Socket : ep'[x] \in {"connecting", "refused"} => ep'[x] = ep[x]
    BY <1>2, SynapsePageAssumption DEF EndpointState
<1>4. HistoryDue <=> HistoryDue'
    BY <1>1, <1>3 DEF HistoryDue, Joined, Subscribing
<1>5. JoinInv'
    BY <1>1, <1>3 DEF OwedInv, JoinInv, Joined, Subscribing
<1>6. ReplyInv'
    BY <1>1, <1>4 DEF OwedInv, ReplyInv
<1>7. ASSUME NEW m \in Message, Expected(m) PROVE Expected(m)'
    <2>1. wsEpoch \in Socket
        BY DEF PageInv, SocketType
    <2>2. ep[wsEpoch] = m => ep'[wsEpoch] = m
        BY <1>2, <1>3, <2>1
    <2> QED BY <1>1, <1>4, <1>7, <2>2 DEF Expected
<1> QED BY <1>1, <1>5, <1>6, <1>7, AwaitKept DEF OwedInv

(* An endpoint takes a frame of its socket: a subscribe is answered with a *)
(* history or there is no connection, and a message is sent on.            *)
LEMMA OwedReceives ==
    ASSUME PageInv, OwedInv, NEW e \in Socket, Receives(e)
    PROVE  OwedInv'
<1> DEFINE f == Head(up[e])
           u == up[wsEpoch]
           v == up'[wsEpoch]
<1>1. /\ UNCHANGED <<wsEpoch, ws, messages, awaited, channel, connected, resync, run, wiped>>
      /\ ep[e] = "receiving" /\ up[e] # <<>> /\ up' = [up EXCEPT ![e] = Tail(up[e])]
    BY DEF Receives, pageVars, hubVars
<1>2. /\ wsEpoch \in Socket /\ up[e] \in Seq(Upward)
      /\ u \in Seq(Upward) /\ f \in Upward /\ f = up[e][1]
      /\ v = IF e = wsEpoch THEN Tail(up[e]) ELSE u
    BY <1>1 DEF PageInv, ShownType, SocketType
<1>3. \A i \in 1 .. Len(u) : (e = wsEpoch /\ u[i] = f) \/ \E j \in 1 .. Len(v) : v[j] = u[i]
    <2>1. CASE e = wsEpoch
        <3>1. /\ Len(u) \in Nat \ {0} /\ Len(v) = Len(u) - 1
              /\ \A i \in 1 .. Len(u) - 1 : v[i] = u[i + 1]
            <4>1. u \in Seq(Upward) /\ u # <<>> /\ v = Tail(u)
                BY <1>1, <1>2, <2>1
            <4> QED BY <4>1, TailOf
        <3>2. ASSUME NEW i \in 1 .. Len(u), i # 1
              PROVE  \E j \in 1 .. Len(v) : v[j] = u[i]
            <4>1. i - 1 \in 1 .. Len(v) /\ i - 1 + 1 = i
                BY <3>1, <3>2
            <4> QED BY <3>1, <4>1
        <3> QED BY <1>2, <2>1, <3>2
    <2>2. CASE e # wsEpoch
        BY <1>2, <2>2
    <2> QED BY <2>1, <2>2
<1> HIDE DEF u, v, f
<1>4. f \in Upward /\ (f.type = "subscribe" \/ (f.type = "message" /\ f.what \in Message
                                                /\ f = Frame("message", f.what)))
    BY <1>2 DEF Upward, Frame
<1>5. CASE f.type = "subscribe"
    <2>1. subscribed' = TRUE
        BY <1>5 DEF Receives, f
    <2>2. \/ connected /\ ep' = [ep EXCEPT ![e] = "history"]
          \/ ~connected /\ ep' = ep
        BY <1>5 DEF Receives, f
    <2>3. \A x \in Socket : ep'[x] \in {ep[x], "history"}
        BY <2>2 DEF PageInv, EndpointInv
    <2>4. HistoryDue'
        <3>1. connected => ep'[e] = "history"
            BY <2>2 DEF PageInv, EndpointInv
        <3> QED BY <1>1, <3>1 DEF HistoryDue
    <2>5. JoinInv'
        BY <1>1, <2>1, <2>3 DEF OwedInv, JoinInv
    <2> QED BY <2>4, <2>5, DueSettles DEF OwedInv
<1>6. CASE f.type = "message"
    <2>1. UNCHANGED subscribed
        BY <1>6 DEF Receives, f
    <2>2. \/ connected /\ ep' = [ep EXCEPT ![e] = f.what] /\ down' = down
          \/ ~connected /\ ep' = ep
        BY <1>6 DEF Receives, f
    <2>3. \A x \in Socket : ep'[x] = ep[x] \/ (x = e /\ ep'[x] = f.what)
        BY <2>2 DEF PageInv, EndpointInv
    <2>4. f.what \notin {"connecting", "refused"}
        BY <1>4, <1>6, SynapsePageAssumption DEF EndpointState
    <2>5. Subscribing => Subscribing'
        <3>1. Subscribing <=> \E i \in 1 .. Len(u) : u[i].type = "subscribe"
            BY DEF Subscribing, u
        <3>2. Subscribing' <=> \E i \in 1 .. Len(v) : v[i].type = "subscribe"
            BY <1>1 DEF Subscribing, v
        <3> QED BY <1>3, <1>6, <3>1, <3>2
    <2>6. JoinInv'
        BY <1>1, <2>1, <2>3, <2>4, <2>5 DEF OwedInv, JoinInv, Joined
    <2>7. CASE ~connected
        <3>1. HistoryDue'
            BY <1>1, <2>7 DEF HistoryDue
        <3> QED BY <2>6, <3>1, DueSettles DEF OwedInv
    <2>8. CASE connected
        <3>1. ep' = [ep EXCEPT ![e] = f.what] /\ down' = down
            BY <2>2, <2>8
        <3>2. \A x \in Socket : ep[x] = "history" => ep'[x] = "history"
            BY <1>1, <3>1 DEF PageInv, EndpointInv
        <3>3. HistoryDue => HistoryDue'
            BY <1>1, <2>5, <3>2 DEF HistoryDue, Joined
        <3>4. ReplyInv'
            BY <1>1, <3>1, <3>3 DEF OwedInv, ReplyInv
        <3>5. ASSUME NEW m \in Message, Expected(m) PROVE Expected(m)'
            <4>1. ep[wsEpoch] = m => ep'[wsEpoch] = m
                <5>1. ep[wsEpoch] = m => wsEpoch # e
                    BY <1>1, SynapsePageAssumption DEF EndpointState
                <5> QED BY <1>2, <3>1, <5>1 DEF PageInv, EndpointInv
            <4>2. ASSUME NEW i \in 1 .. Len(u), u[i] = Frame("message", m)
                  PROVE  \/ ep'[wsEpoch] = m
                         \/ \E j \in 1 .. Len(v) : v[j] = Frame("message", m)
                <5>1. CASE e = wsEpoch /\ u[i] = f
                    <6>1. f.what = m
                        BY <4>2, <5>1 DEF Frame
                    <6> QED BY <1>2, <3>1, <5>1, <6>1 DEF PageInv, EndpointInv
                <5> QED BY <1>3, <4>2, <5>1
            <4> QED BY <1>1, <3>3, <3>5, <4>1, <4>2 DEF Expected, u, v
        <3> QED BY <1>1, <2>6, <3>1, <3>4, <3>5, AwaitKept DEF OwedInv
    <2> QED BY <2>7, <2>8
<1> QED BY <1>4, <1>5, <1>6

(* An endpoint goes back to receive: what joins and subscribes stays. *)
LEMMA JoinKept ==
    ASSUME PageInv, OwedInv, NEW e \in Socket,
           ep' = [ep EXCEPT ![e] = "receiving"],
           UNCHANGED <<wsEpoch, ws, up, channel, subscribed, connected, resync>>
    PROVE  JoinInv'
<1>1. \A x \in Socket : ep'[x] \in {ep[x], "receiving"}
    BY DEF PageInv, EndpointInv
<1> QED BY <1>1 DEF OwedInv, JoinInv, Joined, Subscribing

LEMMA OwedAnswered ==
    ASSUME PageInv, OwedInv, NEW e \in Socket, SubscribeAnswered(e)
    PROVE  OwedInv'
<1>1. /\ UNCHANGED <<wsEpoch, ws, up, channel, subscribed, connected, resync, run>>
      /\ ep' = [ep EXCEPT ![e] = "receiving"]
      /\ SendToClient(Frame("history", Transcript))
    BY DEF SubscribeAnswered, pageVars, networkVars
<1>2. JoinInv'
    BY <1>1, JoinKept
<1> QED BY <1>1, <1>2, TranscriptShown, HistorySent DEF OwedInv

LEMMA OwedRefused ==
    ASSUME PageInv, OwedInv, NEW e \in Socket, SubscribeRefused(e)
    PROVE  OwedInv'
<1>1. /\ UNCHANGED <<wsEpoch, ws, up, channel, subscribed, connected, resync, run>>
      /\ ep' = [ep EXCEPT ![e] = "receiving"] /\ ep[e] = "refused"
    BY DEF SubscribeRefused, pageVars, networkVars, hubVars
<1>2. JoinInv'
    BY <1>1, JoinKept
<1>3. HistoryDue'
    BY <1>1 DEF OwedInv, JoinInv, HistoryDue
<1> QED BY <1>2, <1>3, DueSettles DEF OwedInv

LEMMA OwedTimesOut ==
    ASSUME PageInv, OwedInv, NEW e \in Socket, SubscribeTimesOut(e)
    PROVE  OwedInv'
<1>1. /\ UNCHANGED <<wsEpoch, ws, up, channel, subscribed, connected, resync, run>>
      /\ ep' = [ep EXCEPT ![e] = "receiving"] /\ wiped' = TRUE
      /\ SendToClient(Frame("history", {}))
    BY DEF SubscribeTimesOut, pageVars, networkVars
<1>2. JoinInv'
    BY <1>1, JoinKept
<1>3. ReplyInv' /\ AwaitInv'
    BY <1>1, HistorySent
<1> QED BY <1>2, <1>3 DEF OwedInv

(* A frame that is no history joins those on their way. *)
LEMMA FrameShows ==
    ASSUME PageInv, Joined, Nil \notin Nat, wsEpoch \in Nat,
           NEW f \in Downward, f.type # "history", SendToClient(f),
           NEW m, ShowsIn(down, messages, m), UNCHANGED messages
    PROVE  ShowsIn(down', messages', m)
<1>1. channel # Nil
    BY DEF Joined
<1>2. down' = Append(down, f) /\ down \in Seq(Downward)
    BY <1>1 DEF SendToClient, PageInv, ShownType
<1>3. ~Takes(f, m)
    BY DEF Takes
<1> QED BY <1>2, <1>3, ShownStays

(* The run of a message has begun, and its frame is acknowledged. *)
LEMMA OwedAccepted ==
    ASSUME PageInv, OwedInv, NEW e \in Socket, SendAccepted(e)
    PROVE  OwedInv'
<1> DEFINE m == ep[e]
           f == Frame("ack", m)
<1>1. /\ UNCHANGED <<wsEpoch, ws, messages, up, channel, subscribed, connected, resync, wiped>>
      /\ m \in Message
      /\ ep' = [ep EXCEPT ![e] = "receiving"] /\ run' = [run EXCEPT ![m] = "running"]
      /\ SendToClient(f)
    BY DEF SendAccepted, pageVars, networkVars
<1>2. f \in Downward /\ f.type = "ack" /\ f.what = m
    BY <1>1 DEF Downward, Frame
<1>3. run'[m] = "running" /\ \A x \in Message : run'[x] \in {run[x], "running"}
    BY <1>1 DEF PageInv, HubType
<1> HIDE DEF m, f
<1>4. JoinInv'
    BY <1>1, JoinKept
<1>5. HistoryDue => HistoryDue'
    <2>1. \A x \in Socket : ep[x] = "history" => ep'[x] = "history"
        <3>1. ep[e] # "history"
            BY <1>1, SynapsePageAssumption DEF m, EndpointState
        <3> QED BY <1>1, <3>1 DEF PageInv, EndpointInv
    <2> QED BY <1>1, <2>1 DEF HistoryDue, Joined, Subscribing
<1>6. CASE HistoryDue
    BY <1>4, <1>5, <1>6, DueSettles DEF OwedInv
<1>7. CASE ~HistoryDue
    <2>1. Joined /\ wsEpoch \in Nat /\ Nil \notin Nat
        BY <1>7, SynapsePageAssumption DEF HistoryDue, PageInv, SocketType, Socket
    <2>2. ReplyInv'
        <3>1. SUFFICES ASSUME NEW x \in Message, run'[x] = "done", ~wiped
                       PROVE  ShowsIn(down', messages', x)
            BY <1>1 DEF ReplyInv
        <3>2. ShowsIn(down, messages, x)
            BY <1>3, <1>7, <3>1 DEF OwedInv, ReplyInv
        <3> QED BY <1>1, <1>2, <2>1, <3>2, FrameShows
    <2>3. down' = Append(down, f) /\ down \in Seq(Downward)
        BY <1>1, <2>1 DEF Joined, SendToClient, PageInv, ShownType
    <2>4. down' # <<>> /\ down'[Len(down')] = f
        BY <1>2, <2>3
    <2>5. Expected(down[Len(down)].what)'
        BY <1>2, <1>3, <2>4 DEF Expected
    <2>6. AwaitInv'
        BY <2>4, <2>5 DEF AwaitInv
    <2> QED BY <1>4, <2>2, <2>6 DEF OwedInv
<1> QED BY <1>6, <1>7

LEMMA OwedEnds ==
    ASSUME PageInv, OwedInv, NEW e \in Socket, EndpointEnds(e)
    PROVE  OwedInv'
<1>1. CASE channel = e
    <2>1. /\ channel' = Nil /\ ep' = [ep EXCEPT ![e] = "ended"]
          /\ UNCHANGED <<wsEpoch, ws, connected, resync>>
        BY <1>1 DEF EndpointEnds, pageVars, hubVars
    <2>2. ~Joined'
        BY <2>1, SynapsePageAssumption DEF Joined, PageInv, SocketType, Socket
    <2>3. \A x \in Socket : ep'[x] \in {ep[x], "ended"}
        BY <2>1 DEF PageInv, EndpointInv
    <2>4. JoinInv'
        BY <2>1, <2>2, <2>3 DEF OwedInv, JoinInv
    <2> QED BY <2>2, <2>4, DueSettles DEF HistoryDue, OwedInv
<1>2. CASE channel # e
    <2>1. UNCHANGED <<pageVars, networkVars, managerVars, hubVars>>
        BY <1>2 DEF EndpointEnds
    <2> QED BY <2>1, OwedIdle DEF EndpointEnds
<1> QED BY <1>1, <1>2

LEMMA OwedEndpoint ==
    ASSUME PageInv, OwedInv, NEW e \in Socket, EndpointStep(e)
    PROVE  OwedInv'
<1>1. ASSUME AcceptRaises(e) PROVE OwedInv'
    BY <1>1, OwedIdle DEF AcceptRaises
<1> QED BY <1>1, OwedConnects, OwedReceives, OwedAnswered, OwedRefused, OwedAccepted, OwedEnds
        DEF EndpointStep

-----------------------------------------------------------------------------
(* The steps of the hub and of the environment.                            *)

LEMMA OwedRunEnds ==
    ASSUME PageInv, OwedInv, NEW m \in Message, RunEnds(m)
    PROVE  OwedInv'
<1>1. /\ UNCHANGED <<wsEpoch, ws, messages, awaited, up, ep, channel, subscribed, down,
                     connected, resync, wiped>>
      /\ run' = [run EXCEPT ![m] = IF connected THEN "ended" ELSE "done"]
    BY DEF RunEnds, pageVars, networkVars, endpointVars, managerVars
<1>2. JoinInv' /\ (HistoryDue <=> HistoryDue')
    BY <1>1 DEF OwedInv, JoinInv, HistoryDue, Joined, Subscribing
<1>3. CASE ~connected
    <2>1. HistoryDue'
        BY <1>1, <1>3 DEF HistoryDue
    <2> QED BY <1>2, <2>1, DueSettles DEF OwedInv
<1>4. CASE connected
    <2>1. \A x \in Message : run'[x] \in {run[x], "ended"}
        BY <1>1, <1>4 DEF PageInv, HubType
    <2>2. ReplyInv'
        BY <1>1, <1>2, <2>1 DEF OwedInv, ReplyInv
    <2>3. ASSUME NEW x \in Message, Expected(x) PROVE Expected(x)'
        BY <1>1, <1>2, <2>1, <2>3 DEF Expected
    <2> QED BY <1>1, <1>2, <2>2, <2>3, AwaitKept DEF OwedInv
<1> QED BY <1>3, <1>4

LEMMA OwedDelivered ==
    ASSUME PageInv, OwedInv, NEW m \in Message, DeliverTerminal(m)
    PROVE  OwedInv'
<1> DEFINE f == Frame("message", m)
<1>1. /\ UNCHANGED <<wsEpoch, ws, messages, awaited, up, ep, channel, subscribed,
                     connected, resync, wiped>>
      /\ run' = [run EXCEPT ![m] = "done"]
      /\ subscribed => SendToClient(f)
    BY DEF DeliverTerminal, pageVars, networkVars, endpointVars
<1>2. JoinInv' /\ (HistoryDue <=> HistoryDue')
    BY <1>1 DEF OwedInv, JoinInv, HistoryDue, Joined, Subscribing
<1>3. f \in Downward /\ f.type = "message" /\ f.what = m
    BY DEF Downward, Frame
<1> HIDE DEF f
<1>4. CASE HistoryDue
    BY <1>2, <1>4, DueSettles DEF OwedInv
<1>5. CASE ~HistoryDue
    <2>1. Joined /\ subscribed /\ wsEpoch \in Nat /\ Nil \notin Nat
        BY <1>5, SynapsePageAssumption DEF HistoryDue, OwedInv, JoinInv, PageInv, SocketType,
                    Socket
    <2>2. down' = Append(down, f) /\ down \in Seq(Downward)
        BY <1>1, <2>1 DEF Joined, SendToClient, PageInv, ShownType
    <2>3. ReplyInv'
        <3>1. SUFFICES ASSUME NEW x \in Message, run'[x] = "done", ~wiped
                       PROVE  ShowsIn(down', messages', x)
            BY <1>1 DEF ReplyInv
        <3>2. CASE x = m
            <4>1. Gives(f, x)
                BY <1>3, <3>2 DEF Gives
            <4> QED BY <1>3, <2>2, <4>1, LastShows
        <3>3. CASE x # m
            <4>1. run[x] = "done"
                BY <1>1, <3>1, <3>3 DEF PageInv, HubType
            <4>2. ShowsIn(down, messages, x)
                BY <1>5, <3>1, <4>1 DEF OwedInv, ReplyInv
            <4> QED BY <1>1, <1>3, <2>1, <4>2, FrameShows
        <3> QED BY <3>2, <3>3
    <2>4. down' # <<>> /\ down'[Len(down')] = f
        BY <1>3, <2>2
    <2>5. AwaitInv'
        BY <1>3, <2>4 DEF AwaitInv
    <2> QED BY <1>2, <2>3, <2>5 DEF OwedInv
<1> QED BY <1>4, <1>5

LEMMA OwedDrops == ASSUME PageInv, OwedInv, GatewayDrops PROVE OwedInv'
<1>1. /\ UNCHANGED <<wsEpoch, ws, up, channel, subscribed>> /\ connected' = FALSE
      /\ \A x \in Socket : ep'[x] \in {ep[x], "receiving", "refused"}
    BY DEF GatewayDrops, pageVars, networkVars
<1>2. JoinInv'
    BY <1>1 DEF OwedInv, JoinInv, Joined, Subscribing
<1>3. HistoryDue'
    BY <1>1 DEF HistoryDue
<1> QED BY <1>2, <1>3, DueSettles DEF OwedInv

LEMMA OwedBack == ASSUME PageInv, OwedInv, GatewayBack PROVE OwedInv'
<1>1. /\ UNCHANGED <<wsEpoch, ws, up, ep, channel, subscribed>> /\ resync' = "due"
      /\ \A x \in Socket : ep[x] # "refused"
    BY DEF GatewayBack, pageVars, networkVars, endpointVars,
           managerVars
<1>2. JoinInv'
    BY <1>1 DEF OwedInv, JoinInv, Joined, Subscribing
<1>3. HistoryDue'
    BY <1>1 DEF HistoryDue
<1> QED BY <1>2, <1>3, DueSettles DEF OwedInv

(* A client that the resync passes over has yet to subscribe. *)
LEMMA OwedAsks == ASSUME PageInv, OwedInv, ResyncAsks PROVE OwedInv'
<1>1. /\ UNCHANGED <<wsEpoch, ws, up, ep, channel, subscribed, connected>>
      /\ resync' = IF ~subscribed \/ channel = Nil THEN "none"
                   ELSE IF connected THEN "asked" ELSE "refused"
    BY DEF ResyncAsks, pageVars, networkVars, endpointVars,
           managerVars
<1>2. JoinInv'
    BY <1>1 DEF OwedInv, JoinInv, Joined, Subscribing
<1>3. HistoryDue'
    <2>1. CASE ~subscribed \/ channel = Nil
        <3>1. ~Joined \/ Subscribing
            BY <2>1, SynapsePageAssumption DEF OwedInv, JoinInv, Joined, PageInv, SocketType,
                        Socket
        <3> QED BY <1>1, <3>1 DEF HistoryDue, Joined, Subscribing
    <2>2. CASE ~(~subscribed \/ channel = Nil)
        BY <1>1, <2>2 DEF HistoryDue
    <2> QED BY <2>1, <2>2
<1> QED BY <1>2, <1>3, DueSettles DEF OwedInv

LEMMA OwedResynced ==
    ASSUME PageInv, OwedInv, ResyncAnswered \/ ResyncTimesOut
    PROVE  OwedInv'
<1>1. /\ UNCHANGED <<wsEpoch, ws, up, ep, channel, subscribed, connected, run>>
      /\ resync' = "none"
    BY DEF ResyncAnswered, ResyncTimesOut, pageVars, networkVars,
           endpointVars
<1>2. JoinInv'
    BY <1>1 DEF OwedInv, JoinInv, Joined, Subscribing
<1>3. CASE resync = "refused"
    <2>1. HistoryDue'
        BY <1>1, <1>3 DEF OwedInv, JoinInv, HistoryDue
    <2> QED BY <1>2, <2>1, DueSettles DEF OwedInv
<1>4. CASE resync # "refused"
    <2>1. \/ SendToClient(Frame("history", Transcript))
          \/ SendToClient(Frame("history", {})) /\ wiped' = TRUE
        BY <1>4 DEF ResyncAnswered, ResyncTimesOut
    <2>2. PICK h \in {Transcript, {}} :
              /\ SendToClient(Frame("history", h))
              /\ h = Transcript \/ wiped' = TRUE
        BY <2>1
    <2>3. h \subseteq Shown
        BY TranscriptShown
    <2>4. ReplyInv' /\ AwaitInv'
        BY <1>1, <2>2, <2>3, HistorySent
    <2> QED BY <1>2, <2>4 DEF OwedInv
<1> QED BY <1>3, <1>4

LEMMA OwedStay ==
    ASSUME PageInv, OwedInv,
           (\E e \in Socket : LinkDies(e)) \/ UNCHANGED spVars
    PROVE  OwedInv'
<1>1. UNCHANGED <<wsEpoch, ws, messages, awaited, up, ep, channel, subscribed, down,
                  connected, resync, run, wiped>>
    BY DEF LinkDies, spVars, pageVars, networkVars, endpointVars,
           managerVars, hubVars
<1> QED BY <1>1 DEF OwedInv, JoinInv, ReplyInv, AwaitInv, Expected, HistoryDue, Joined,
                    Subscribing

LEMMA OwedStep ==
    ASSUME PageInv, OwedInv, [SPNext]_spVars PROVE OwedInv'
<1>1. ASSUME PageStep PROVE OwedInv'
    BY <1>1, OwedConnect, OwedOpen, OwedClose, OwedFrame DEF PageStep
<1>2. ASSUME NEW e \in Socket, EndpointStep(e) PROVE OwedInv'
    BY <1>2, OwedEndpoint
<1>3. ASSUME HubStep PROVE OwedInv'
    BY <1>3, OwedRunEnds, OwedDelivered, OwedBack, OwedAsks, OwedResynced DEF HubStep
<1>4. ASSUME NEW e \in Socket, Refuses(e) PROVE OwedInv'
    BY <1>4, OwedIdle DEF Refuses
<1>5. ASSUME Environment PROVE OwedInv'
    BY <1>4, <1>5, OwedConnect, OwedDrops, OwedResynced, OwedSend, OwedTimesOut, OwedStay
       DEF Environment
<1> QED BY <1>1, <1>2, <1>3, <1>5, OwedStay DEF SPNext

-----------------------------------------------------------------------------
(* The page and the hub are well formed, and nothing of theirs goes wrong. *)
LEMMA PageInvariant == SPSpec => [](PageInv /\ OwedInv)
<1>1. SPInit => PageInv /\ OwedInv
    BY PageStart, OwedInit
<1>2. PageInv /\ OwedInv /\ [SPNext]_spVars => PageInv' /\ OwedInv'
    BY PageStepInv, OwedStep
<1> QED BY <1>1, <1>2, PTL DEF SPSpec

(* A registered socket has an endpoint that runs on and will unregister    *)
(* it; and a page that is joined, with nothing on its way, shows the reply *)
(* of every run that is over and awaits none but of a run that goes on,    *)
(* whatever sockets, connections and requests were lost before             *)
(* (_send_history, _resync_after_reconnect, onOpen).                       *)
THEOREM PageCorrect == SPSpec => []SPInv
<1>1. PageInv /\ OwedInv => SPInv
    BY PageTypes, OwedAtRest DEF SPInv
<1> QED BY <1>1, PageInvariant, PTL

(* "A stale socket's cleanup must not evict the fresh socket": a client    *)
(* loses its channel and its subscriptions only by the end of the endpoint *)
(* of that very socket (ConnectionManager.disconnect).                     *)
THEOREM EvictionCorrect == SPSpec => EvictedByItsOwn
<1> DEFINE Own == /\ (channel' = Nil) => (channel = Nil \/ ep'[channel] = "ended")
                  /\ (subscribed /\ ~subscribed') => (channel # Nil /\ ep'[channel] = "ended")
<1>1. PageInv /\ OwedInv /\ [SPNext]_spVars => [Own]_spVars
    BY Unregistered
<1> QED BY <1>1, PageInvariant, PTL DEF SPSpec, EvictedByItsOwn

=============================================================================
