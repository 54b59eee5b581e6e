-------------------------- MODULE ClientContract ---------------------------
(***************************************************************************)
(* What the hub may rely on when it offers frames to a browser client,     *)
(* with no queue, no frame objects and no sender: per run a stream of text *)
(* that is delivered whole and in order, one stream of control frames, per *)
(* key the latest status.  A control frame is delivered after all the text *)
(* accepted before it.  Loss is visible: a lost delta is counted, a        *)
(* control frame is lost only by closing.                                  *)
(***************************************************************************)
EXTENDS Naturals, Sequences

CONSTANTS Run, StatusKey

VARIABLES
    pendText, gotText,        \* Run -> deltas accepted and not yet / already delivered
    lost,                     \* Run -> deltas lost
    pendControl, gotControl,  \* control frames accepted and not yet / already delivered
    marks,                    \* per control frame, the length of each text it must follow
    latest,                   \* number of status snapshots offered
    pendStatus, gotStatus,    \* StatusKey -> snapshot to deliver / last delivered (0: none)
    open

text == <<pendText, gotText, lost>>
control == <<pendControl, gotControl, marks>>
status == <<latest, pendStatus, gotStatus>>
vars == <<text, control, status, open>>

TextInit == /\ pendText = [r \in Run |-> <<>>]
            /\ gotText = [r \in Run |-> <<>>]
            /\ lost = [r \in Run |-> 0]

Init ==
    /\ TextInit
    /\ <<pendControl, gotControl, marks>> = <<<<>>, <<>>, <<>>>>
    /\ latest = 0
    /\ pendStatus = [k \in StatusKey |-> 0]
    /\ gotStatus = [k \in StatusKey |-> 0]
    /\ open = TRUE

TextLen(r) == Len(gotText[r]) + Len(pendText[r])

(* Deltas are numbered as offered: the next one follows all accepted and   *)
(* all lost ones.                                                          *)
AcceptText(r) ==
    /\ open
    /\ pendText' = [pendText EXCEPT ![r] = Append(@, TextLen(r) + lost[r] + 1)]
    /\ UNCHANGED <<gotText, lost, control, status, open>>

LoseText(r) ==
    /\ open
    /\ lost' = [lost EXCEPT ![r] = @ + 1]
    /\ UNCHANGED <<pendText, gotText, control, status, open>>

DeliverText(r) ==
    /\ open
    /\ pendText[r] # <<>>
    /\ gotText' = [gotText EXCEPT ![r] = @ \o pendText[r]]
    /\ pendText' = [pendText EXCEPT ![r] = <<>>]
    /\ UNCHANGED <<lost, control, status, open>>

NewMark == Append(marks, [r \in Run |-> TextLen(r)])

AcceptControl ==
    /\ open
    /\ pendControl' = Append(pendControl, Len(marks) + 1)
    /\ marks' = NewMark
    /\ UNCHANGED <<text, gotControl, status, open>>

DeliverControl ==
    /\ open
    /\ pendControl # <<>>
    /\ \A r \in Run : marks[Head(pendControl)][r] <= Len(gotText[r])
    /\ gotControl' = Append(gotControl, Head(pendControl))
    /\ pendControl' = Tail(pendControl)
    /\ UNCHANGED <<text, marks, status, open>>

OfferStatus(k) ==
    /\ open
    /\ latest' = latest + 1
    /\ pendStatus' \in {pendStatus, [pendStatus EXCEPT ![k] = latest + 1]}
    /\ pendStatus[k] # 0 => pendStatus' # pendStatus
    /\ UNCHANGED <<text, control, gotStatus, open>>

DeliverStatus(k) ==
    /\ open
    /\ pendStatus[k] # 0
    /\ gotStatus' = [gotStatus EXCEPT ![k] = pendStatus[k]]
    /\ pendStatus' = [pendStatus EXCEPT ![k] = 0]
    /\ UNCHANGED <<text, control, latest, open>>

(* The client is closed, or a control frame it has no room for closes it. *)
Close ==
    /\ open
    /\ open' = FALSE
    /\ marks' \in {marks, NewMark}
    /\ UNCHANGED <<text, pendControl, gotControl, status>>

Next ==
    \/ \E r \in Run : AcceptText(r) \/ LoseText(r) \/ DeliverText(r)
    \/ AcceptControl \/ DeliverControl
    \/ \E k \in StatusKey : OfferStatus(k) \/ DeliverStatus(k)
    \/ Close

Spec == Init /\ [][Next]_vars
=============================================================================
