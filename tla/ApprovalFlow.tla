---------------------------- MODULE ApprovalFlow ----------------------------
(***************************************************************************)
(* The approval of payments in the interface (src/ui/src/App.tsx) and the  *)
(* decision it rests on (src/sidecar/src/policy.ts).  A window prepares a  *)
(* payment; if the sidecar says that it needs no approval the window pays  *)
(* at once, else the user reviews it.  Other windows save policies while a *)
(* window awaits an answer.                                                *)
(*                                                                         *)
(* A window's at says what it awaits: "prepare" and "pay" the sidecar,     *)
(* "prepared", "paid" and "failed" an answer on its way, "refresh" the     *)
(* three reads after a payment.  A window is busy unless at is "idle".     *)
(***************************************************************************)
EXTENDS Naturals

CONSTANTS
    Windows,
    Payments,
    Amount,         \* of each payment
    Policies,       \* the policies users save
    Default,        \* DEFAULT_POLICY
    None,
    AnswersLost     \* may the bridge lose the answer to a payment?

ASSUME FlowAssumption ==
    /\ Amount \in [Payments -> Nat]
    /\ Policies \subseteq [autoPay : BOOLEAN, approvalThreshold : Nat]
    /\ Default \in Policies /\ None \notin Policies /\ None \notin Payments
    /\ AnswersLost \in BOOLEAN

VARIABLES
    policy,         \* the sidecar's policy
    windows,        \* what each window awaits and shows
    prepared,       \* history: the policy a payment was prepared under
    settled,        \* history: the policy a payment was signed under
    reviewed,       \* history: payments a user approved
    rejected        \* history: payments a user rejected

vars == <<policy, windows, prepared, settled, reviewed, rejected>>

\* payment is the one its requests are about, dialog (pending) the one under
\* review, asks requiresApproval.
WindowAt(places, payments) ==
    [at : places, payment : payments, dialog : Payments \cup {None}, asks : BOOLEAN,
     message : {"none", "error", "notice", "settled", "notSettled"}]
Window == WindowAt({"idle", "prepare"}, Payments \cup {None})
            \cup WindowAt({"prepared", "pay", "paid", "failed", "refresh"}, Payments)

TypeOK ==
    /\ policy \in Policies
    /\ windows \in [Windows -> Window]
    /\ prepared \in [Payments -> Policies \cup {None}]
    /\ settled \in [Payments -> Policies \cup {None}]
    /\ reviewed \in SUBSET Payments
    /\ rejected \in SUBSET Payments

Init ==
    /\ policy = Default
    /\ windows = [w \in Windows |-> [at |-> "idle", payment |-> None, dialog |-> None,
                                      asks |-> FALSE, message |-> "none"]]
    /\ prepared = [p \in Payments |-> None]
    /\ settled = [p \in Payments |-> None]
    /\ reviewed = {}
    /\ rejected = {}

At(w, place) == windows[w].at = place
Busy(w) == ~At(w, "idle")

\* decidePayment, of a payment that is not blocked.
NeedsApproval(p, amount) == ~p.autoPay \/ amount > p.approvalThreshold

(***************************************************************************)
(* Policies.                                                               *)
(***************************************************************************)
SavePolicy(w, p) ==
    /\ ~Busy(w) /\ windows[w].dialog = None
    /\ policy' = p
    /\ UNCHANGED <<windows, prepared, settled, reviewed, rejected>>

(***************************************************************************)
(* handlePrepare.                                                          *)
(***************************************************************************)
Prepare(w) ==
    /\ ~Busy(w) /\ windows[w].dialog = None
    /\ windows' = [windows EXCEPT ![w].at = "prepare", ![w].message = "none"]
    /\ UNCHANGED <<policy, prepared, settled, reviewed, rejected>>

\* #stagePayment answers with a payment and whether it requires approval.
Stage(w, p) ==
    /\ At(w, "prepare")
    /\ prepared[p] = None
    /\ prepared' = [prepared EXCEPT ![p] = policy]
    /\ windows' = [windows EXCEPT ![w].at = "prepared", ![w].payment = p,
                                  ![w].asks = NeedsApproval(policy, Amount[p])]
    /\ UNCHANGED <<policy, settled, reviewed, rejected>>

\* Nothing to pay, a blocked payment, or no answer.
NothingStaged(w, message) ==
    /\ At(w, "prepare")
    /\ windows' = [windows EXCEPT ![w].at = "idle", ![w].message = message]
    /\ UNCHANGED <<policy, prepared, settled, reviewed, rejected>>

\* Mutant: the window does not wait for a review.
PreparedUnasked(w) ==
    /\ At(w, "prepared")
    /\ windows' = [windows EXCEPT ![w].at = "pay"]
    /\ UNCHANGED <<policy, prepared, settled, reviewed, rejected>>

Prepared(w) ==
    /\ At(w, "prepared")
    /\ windows' = IF windows[w].asks
                  THEN [windows EXCEPT ![w].at = "idle", ![w].dialog = windows[w].payment]
                  ELSE [windows EXCEPT ![w].at = "pay"]
    /\ UNCHANGED <<policy, prepared, settled, reviewed, rejected>>

(***************************************************************************)
(* The dialog, and handlePay.                                              *)
(***************************************************************************)
Approve(w) ==
    /\ ~Busy(w) /\ windows[w].dialog # None
    /\ windows' = [windows EXCEPT ![w].at = "pay", ![w].message = "none"]
    /\ reviewed' = reviewed \cup {windows[w].dialog}
    /\ UNCHANGED <<policy, prepared, settled, rejected>>

Reject(w) ==
    /\ ~Busy(w) /\ windows[w].dialog # None
    /\ rejected' = rejected \cup {windows[w].dialog}
    /\ windows' = [windows EXCEPT ![w].dialog = None]
    /\ UNCHANGED <<policy, prepared, settled, reviewed>>

\* pay in the sidecar: the decision is made again, but only "blocked" counts.
SidecarPays(w) ==
    /\ At(w, "pay")
    /\ settled' = [settled EXCEPT ![windows[w].payment] = policy]
    /\ windows' = [windows EXCEPT ![w].at = "paid"]
    /\ UNCHANGED <<policy, prepared, reviewed, rejected>>

\* Blocked, expired, or refused by the wallet or the service.
SidecarRefuses(w) ==
    /\ At(w, "pay")
    /\ windows' = [windows EXCEPT ![w].at = "failed"]
    /\ UNCHANGED <<policy, prepared, settled, reviewed, rejected>>

Paid(w) ==
    /\ At(w, "paid")
    /\ windows' = [windows EXCEPT ![w].at = "refresh", ![w].dialog = None]
    /\ UNCHANGED <<policy, prepared, settled, reviewed, rejected>>

Refreshed(w) ==
    /\ At(w, "refresh")
    /\ windows' = [windows EXCEPT ![w].at = "idle", ![w].message = "settled"]
    /\ UNCHANGED <<policy, prepared, settled, reviewed, rejected>>

\* The catch of handlePay, and the one of run around handlePrepare.
CatchMessage(w) == IF windows[w].payment \in reviewed THEN "notSettled" ELSE "error"

\* Mutant: busy is not reset when an action throws.
ThrowsBusy(w) ==
    /\ \/ At(w, "failed") \/ At(w, "refresh")
       \/ AnswersLost /\ At(w, "paid")
    /\ windows' = [windows EXCEPT ![w].at = "failed", ![w].dialog = None,
                                  ![w].message = CatchMessage(w)]
    /\ UNCHANGED <<policy, prepared, settled, reviewed, rejected>>

Throws(w) ==
    /\ \/ At(w, "failed") \/ At(w, "refresh")
       \/ AnswersLost /\ At(w, "paid")
    /\ windows' = [windows EXCEPT ![w].at = "idle", ![w].dialog = None,
                                  ![w].message = CatchMessage(w)]
    /\ UNCHANGED <<policy, prepared, settled, reviewed, rejected>>

\* Everything a window awaits is answered, or its request is given up.
Answer(w) ==
    \/ \E p \in Payments : Stage(w, p)
    \/ NothingStaged(w, "notice") \/ NothingStaged(w, "error")
    \/ Prepared(w) \/ SidecarPays(w) \/ SidecarRefuses(w)
    \/ Paid(w) \/ Refreshed(w) \/ Throws(w)

Next ==
    \E w \in Windows :
        \/ \E p \in Policies : SavePolicy(w, p)
        \/ Prepare(w) \/ Approve(w) \/ Reject(w)
        \/ Answer(w)

Spec == Init /\ [][Next]_vars /\ \A w \in Windows : WF_vars(Answer(w))

(***************************************************************************)
(* Properties.                                                             *)
(***************************************************************************)
\* A payment nobody reviewed was, when it was prepared, one the policy lets pass
\* without review, and never one a user rejected (App.tsx:104-112,
\* App-approval-dialog.tsx:29-33, policy.ts:115-122).
OnlyAllowedUnreviewed ==
    \A p \in Payments :
        settled[p] # None =>
            /\ p \notin rejected
            /\ p \in reviewed \/ (prepared[p].autoPay /\ Amount[p] <= prepared[p].approvalThreshold)

\* A payment under review is one no other window shows or pays: the user of one
\* window never approves what another has paid or rejected (client.ts:408-426).
ReviewedOnce ==
    \A w \in Windows :
        windows[w].dialog # None /\ ~Busy(w) =>
            /\ settled[windows[w].dialog] = None
            /\ windows[w].dialog \notin rejected
            /\ \A v \in Windows \ {w} : windows[v].dialog # windows[w].dialog

\* The interface becomes usable again after every action, whatever fails
\* (App.tsx:72-82, 117-143).
BusyEnds == \A w \in Windows : Busy(w) ~> ~Busy(w)

\* "Charges above this always need review." (App-policy-panel.tsx:122) and "Every
\* limit is enforced again immediately before signing." (App-policy-panel.tsx:67).
AboveThresholdReviewed ==
    \A p \in Payments :
        (settled[p] # None /\ p \notin reviewed) =>
            settled[p].autoPay /\ Amount[p] <= settled[p].approvalThreshold

\* What must be reviewed is, by the user of one window (App.tsx:104-143,
\* client.ts:408-426).
ReviewsHold == TypeOK /\ OnlyAllowedUnreviewed /\ ReviewedOnce
=============================================================================
