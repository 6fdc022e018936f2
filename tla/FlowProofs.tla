------------------------------ MODULE FlowProofs ------------------------------
(***************************************************************************)
(* The approval dialog, the requests the sidecar makes and answers, and    *)
(* the versions and the notes of releases, without bounds.                 *)
(*                                                                         *)
(* ApprovalFlow: ReviewsHold, for any windows, payments and policies.      *)
(* GovernedFetch: RedirectsSafe, for any origins, any limit on redirects   *)
(* and any changes of the policy.  ReplayStore: ReplaySafe, for any number *)
(* of processes and keys.  ServiceCatalog: CacheIsRecent, for any calls    *)
(* and limits.  ReleaseVersions: VersionsOrdered, for any runs and         *)
(* re-runs, dates, bumps and tags of others.  ReleaseNotes: NotesComplete, *)
(* for any changes of any size and any limits.                             *)
(***************************************************************************)
EXTENDS ApprovalFlow, GovernedFetch, ReplayStore, ServiceCatalog, ReleaseVersions, ReleaseNotes,
        FiniteSetTheorems, SequenceTheorems, RecursionLemmas, TLAPS

USE FlowAssumption

(***************************************************************************)
(* ApprovalFlow: the inductive invariant.                                  *)
(***************************************************************************)
\* A window holds the payment it shows, and the one its requests are about.
Underway(w) == windows[w].at \notin {"idle", "prepare"}
Holds(w, p) == windows[w].dialog = p \/ (Underway(w) /\ windows[w].payment = p)

\* A payment is staged for one window, and stays there.
OneHolder ==
    \A p \in Payments : \A v, w \in Windows :
        Holds(v, p) /\ Holds(w, p) => v = w
HeldIsPrepared ==
    \A p \in Payments : \A w \in Windows : Holds(w, p) => prepared[p] # None
DialogIsOfPayment ==
    \A w \in Windows :
        windows[w].dialog # None =>
            /\ windows[w].dialog = windows[w].payment
            /\ ~At(w, "prepare") /\ ~At(w, "refresh")

DecidedIsPrepared ==
    \A p \in Payments : settled[p] # None \/ p \in rejected => prepared[p] # None

\* Until it is paid or rejected, the payment a window holds is open.
Open(w) ==
    At(w, "prepared") \/ At(w, "pay") \/ (At(w, "idle") /\ windows[w].dialog # None)
OpenIsUndecided ==
    \A w \in Windows :
        Open(w) => settled[windows[w].payment] = None /\ windows[w].payment \notin rejected

\* What is about to be paid was reviewed, or needed no review when prepared.
Unreviewed(p) == ~NeedsApproval(prepared[p], Amount[p])
AskedAsPrepared ==
    \A w \in Windows :
        /\ At(w, "prepared") => (~windows[w].asks => Unreviewed(windows[w].payment))
        /\ At(w, "pay") =>
              windows[w].payment \in reviewed \/ Unreviewed(windows[w].payment)

FlowInv ==
    /\ TypeOK /\ OneHolder /\ HeldIsPrepared /\ DecidedIsPrepared /\ DialogIsOfPayment
    /\ OpenIsUndecided /\ AskedAsPrepared /\ OnlyAllowedUnreviewed

(***************************************************************************)
(* What a window is made of.                                               *)
(***************************************************************************)
Places == {"idle", "prepare", "prepared", "pay", "paid", "failed", "refresh"}

LEMMA WindowFields ==
    ASSUME NEW x \in Window
    PROVE  /\ x \in WindowAt(Places, Payments \cup {None})
           /\ x.at \notin {"idle", "prepare"} => x.payment \in Payments
BY DEF Window, WindowAt, Places

LEMMA IsWindow ==
    ASSUME NEW x \in WindowAt(Places, Payments \cup {None}),
           x.at \notin {"idle", "prepare"} => x.payment \in Payments
    PROVE  x \in Window
<1>1. CASE x.at \in {"idle", "prepare"}
  BY <1>1 DEF Window, WindowAt, Places
<1>2. CASE x.at \notin {"idle", "prepare"}
  BY <1>2 DEF Window, WindowAt, Places
<1> QED BY <1>1, <1>2

\* A step changes one window, and the invariant's parts look at each window alone
\* or at two.
LEMMA WindowChanges ==
    ASSUME TypeOK, NEW w \in Windows, NEW x \in Window,
           windows' = [windows EXCEPT ![w] = x]
    PROVE  /\ windows' \in [Windows -> Window]
           /\ windows'[w] = x
           /\ \A v \in Windows \ {w} : windows'[v] = windows[v]
BY DEF TypeOK

(***************************************************************************)
(* The invariant holds.                                                    *)
(***************************************************************************)
LEMMA InitFlow == Init => FlowInv
<1> SUFFICES ASSUME Init PROVE FlowInv
  OBVIOUS
<1> DEFINE x == [at |-> "idle", payment |-> None, dialog |-> None,
                 asks |-> FALSE, message |-> "none"]
<1>1. x \in Window
  BY DEF Window, WindowAt
<1>2. windows \in [Windows -> Window] /\ \A w \in Windows : windows[w] = x
  BY <1>1 DEF Init
<1>3. TypeOK
  <2>1. policy \in Policies /\ reviewed \in SUBSET Payments /\ rejected \in SUBSET Payments
    BY DEF Init
  <2>2. /\ prepared \in [Payments -> Policies \cup {None}]
        /\ settled \in [Payments -> Policies \cup {None}]
    BY DEF Init
  <2> QED BY <1>2, <2>1, <2>2 DEF TypeOK
<1>4. x.at = "idle" /\ x.dialog = None
  OBVIOUS
<1> HIDE DEF x
<1>5. \A w \in Windows : ~Underway(w) /\ windows[w].dialog = None /\ At(w, "idle")
  BY <1>2, <1>4 DEF Underway, At
<1> QED BY <1>3, <1>5
        DEF Init, FlowInv, OneHolder, HeldIsPrepared, Holds, DialogIsOfPayment,
            OpenIsUndecided, Open, At, AskedAsPrepared, OnlyAllowedUnreviewed, DecidedIsPrepared

\* A step of one window that neither prepares nor settles nor rejects anything
\* keeps the invariant when the window holds no more than before, holds it open
\* only if it did, and pays only what it may.
LEMMA WindowMoves ==
    ASSUME FlowInv, NEW w \in Windows, NEW x \in Window,
           windows' = [windows EXCEPT ![w] = x],
           UNCHANGED <<policy, prepared, settled, rejected>>,
           reviewed \subseteq reviewed', reviewed' \in SUBSET Payments,
           \A p \in Payments : Holds(w, p)' => Holds(w, p),
           x.dialog # None => x.dialog = x.payment /\ x.at \notin {"prepare", "refresh"},
           Open(w)' => Open(w) /\ x.payment = windows[w].payment,
           x.at = "prepared" => (~x.asks => Unreviewed(x.payment)),
           x.at = "pay" => x.payment \in reviewed' \/ Unreviewed(x.payment)
    PROVE  FlowInv'
<1>1. /\ windows' \in [Windows -> Window] /\ windows'[w] = x
      /\ \A v \in Windows \ {w} : windows'[v] = windows[v]
  BY WindowChanges DEF FlowInv
<1>2. TypeOK'
  BY <1>1 DEF FlowInv, TypeOK
<1>3. \A v \in Windows : \A p \in Payments : Holds(v, p)' => Holds(v, p)
  BY <1>1 DEF Holds, Underway
<1>4. OneHolder' /\ HeldIsPrepared' /\ DecidedIsPrepared'
  BY <1>3 DEF FlowInv, OneHolder, HeldIsPrepared, DecidedIsPrepared
<1>5. DialogIsOfPayment'
  BY <1>1 DEF FlowInv, DialogIsOfPayment, At
<1>6. OpenIsUndecided'
  BY <1>1 DEF FlowInv, OpenIsUndecided, Open, At
<1>7. AskedAsPrepared'
  BY <1>1 DEF FlowInv, AskedAsPrepared, At, Unreviewed
<1>8. OnlyAllowedUnreviewed'
  BY DEF FlowInv, OnlyAllowedUnreviewed
<1> QED BY <1>2, <1>4, <1>5, <1>6, <1>7, <1>8 DEF FlowInv

LEMMA StageKeeps ==
    ASSUME FlowInv, NEW w \in Windows, NEW p \in Payments, Stage(w, p)
    PROVE  FlowInv'
<1> DEFINE x == [windows[w] EXCEPT !.at = "prepared", !.payment = p,
                                   !.asks = NeedsApproval(policy, Amount[p])]
<1>1. /\ prepared[p] = None /\ prepared' = [prepared EXCEPT ![p] = policy]
      /\ windows' = [windows EXCEPT ![w] = x] /\ At(w, "prepare")
      /\ UNCHANGED <<policy, settled, reviewed, rejected>>
  BY DEF Stage
<1>2. windows[w] \in Window /\ windows[w] \in WindowAt(Places, Payments \cup {None})
  BY WindowFields DEF FlowInv, TypeOK
<1>3. x.at = "prepared" /\ x.payment = p /\ x.dialog = windows[w].dialog
      /\ x.asks = NeedsApproval(policy, Amount[p])
  BY <1>2 DEF WindowAt
<1>4. x \in Window
  <2>1. NeedsApproval(policy, Amount[p]) \in BOOLEAN
    BY DEF NeedsApproval, FlowInv, TypeOK
  <2>2. x \in WindowAt(Places, Payments \cup {None})
    BY <1>2, <2>1 DEF WindowAt, Places
  <2> QED BY <1>3, <2>2, IsWindow
<1>5. /\ windows' \in [Windows -> Window] /\ windows'[w] = x
      /\ \A v \in Windows \ {w} : windows'[v] = windows[v]
  BY <1>1, <1>4, WindowChanges DEF FlowInv
<1>6. prepared' \in [Payments -> Policies \cup {None}] /\ prepared'[p] = policy
      /\ policy # None /\ \A q \in Payments \ {p} : prepared'[q] = prepared[q]
  BY <1>1 DEF FlowInv, TypeOK
<1>7. TypeOK'
  BY <1>1, <1>5, <1>6 DEF FlowInv, TypeOK
<1>8. x.dialog = None
  BY <1>1, <1>3 DEF FlowInv, DialogIsOfPayment
<1>9. \A v \in Windows : ~Holds(v, p)
  BY <1>1 DEF FlowInv, HeldIsPrepared
<1>10. \A v \in Windows, q \in Payments :
         Holds(v, q)' => (v = w /\ q = p) \/ (v # w /\ q # p /\ Holds(v, q))
  BY <1>3, <1>5, <1>8, <1>9 DEF Holds, Underway
<1>11. OneHolder' /\ HeldIsPrepared' /\ DecidedIsPrepared'
  BY <1>1, <1>6, <1>10
     DEF FlowInv, OneHolder, HeldIsPrepared, DecidedIsPrepared
<1>12. DialogIsOfPayment'
  BY <1>5, <1>8 DEF FlowInv, DialogIsOfPayment, At
<1>13. settled[p] = None /\ p \notin rejected
  BY <1>1 DEF FlowInv, DecidedIsPrepared
<1>14. OpenIsUndecided'
  BY <1>1, <1>3, <1>5, <1>13 DEF FlowInv, OpenIsUndecided, Open, At
<1>15. AskedAsPrepared'
  <2> SUFFICES ASSUME NEW v \in Windows
               PROVE  /\ At(v, "prepared")' => (~windows'[v].asks => Unreviewed(windows[v].payment)')
                      /\ At(v, "pay")' => windows'[v].payment \in reviewed'
                                            \/ Unreviewed(windows[v].payment)'
    BY DEF AskedAsPrepared
  <2>1. CASE v = w
    BY <2>1, <1>3, <1>5, <1>6 DEF At, Unreviewed
  <2>2. CASE v # w
    <3>1. windows'[v] = windows[v]
      BY <2>2, <1>5
    <3>2. CASE At(v, "prepared") \/ At(v, "pay")
      <4>1. windows[v].payment \in Payments
        BY <3>2, WindowFields DEF FlowInv, TypeOK, At
      <4>2. Holds(v, windows[v].payment)
        BY <3>2 DEF Holds, Underway, At
      <4>3. prepared'[windows[v].payment] = prepared[windows[v].payment]
        BY <4>1, <4>2, <1>6, <1>9
      <4> QED BY <3>1, <4>3, <1>1 DEF FlowInv, AskedAsPrepared, At, Unreviewed
    <3> QED BY <3>1, <3>2 DEF At
  <2> QED BY <2>1, <2>2
<1>16. OnlyAllowedUnreviewed'
  BY <1>1, <1>6, <1>13 DEF FlowInv, OnlyAllowedUnreviewed
<1> QED BY <1>7, <1>11, <1>12, <1>14, <1>15, <1>16 DEF FlowInv

\* Who pays or rejects a payment alone holds it.
LEMMA OpenIsHeld ==
    ASSUME FlowInv, NEW w \in Windows, Open(w)
    PROVE  /\ windows[w].payment \in Payments /\ Holds(w, windows[w].payment)
           /\ \A v \in Windows \ {w} : ~Holds(v, windows[w].payment)
<1>1. windows[w].payment \in Payments
  <2>1. CASE At(w, "prepared") \/ At(w, "pay")
    BY <2>1, WindowFields DEF FlowInv, TypeOK, At
  <2>2. CASE At(w, "idle") /\ windows[w].dialog # None
    BY <2>2, WindowFields DEF FlowInv, TypeOK, DialogIsOfPayment, WindowAt
  <2> QED BY <2>1, <2>2 DEF Open
<1>2. Holds(w, windows[w].payment)
  BY DEF Open, Holds, Underway, At, FlowInv, DialogIsOfPayment
<1> QED BY <1>1, <1>2 DEF FlowInv, OneHolder

LEMMA SidecarPaysKeeps ==
    ASSUME FlowInv, NEW w \in Windows, SidecarPays(w)
    PROVE  FlowInv'
<1> DEFINE p == windows[w].payment
           x == [windows[w] EXCEPT !.at = "paid"]
<1>1. /\ At(w, "pay") /\ settled' = [settled EXCEPT ![p] = policy]
      /\ windows' = [windows EXCEPT ![w] = x]
      /\ UNCHANGED <<policy, prepared, reviewed, rejected>>
  BY DEF SidecarPays
<1>2. /\ windows[w] \in Window /\ windows[w] \in WindowAt(Places, Payments \cup {None})
      /\ p \in Payments
  BY <1>1, WindowFields DEF FlowInv, TypeOK, At
<1>3. x.at = "paid" /\ x.payment = p /\ x.dialog = windows[w].dialog
  BY <1>2 DEF WindowAt
<1>4. x \in Window
  <2>1. x \in WindowAt(Places, Payments \cup {None})
    BY <1>2 DEF WindowAt, Places
  <2> QED BY <1>2, <1>3, <2>1, IsWindow
<1>5. /\ windows' \in [Windows -> Window] /\ windows'[w] = x
      /\ \A v \in Windows \ {w} : windows'[v] = windows[v]
  BY <1>1, <1>4, WindowChanges DEF FlowInv
<1>6. /\ settled' \in [Payments -> Policies \cup {None}] /\ settled'[p] = policy
      /\ \A q \in Payments \ {p} : settled'[q] = settled[q]
  BY <1>1, <1>2 DEF FlowInv, TypeOK
<1>7. Open(w) /\ Holds(w, p) /\ \A v \in Windows \ {w} : ~Holds(v, p)
  BY <1>1, OpenIsHeld DEF Open
<1>8. TypeOK'
  BY <1>1, <1>5, <1>6 DEF FlowInv, TypeOK
<1>9. \A v \in Windows, q \in Payments : Holds(v, q)' => Holds(v, q)
  BY <1>1, <1>3, <1>5 DEF Holds, Underway, At
<1>10. OneHolder' /\ HeldIsPrepared' /\ DecidedIsPrepared'
  BY <1>1, <1>2, <1>6, <1>7, <1>9 DEF FlowInv, OneHolder, HeldIsPrepared, DecidedIsPrepared
<1>11. DialogIsOfPayment'
  BY <1>3, <1>5 DEF FlowInv, DialogIsOfPayment, At
<1>12. OpenIsUndecided'
  <2> SUFFICES ASSUME NEW v \in Windows, Open(v)'
               PROVE  settled'[windows'[v].payment] = None
                      /\ windows'[v].payment \notin rejected'
    BY DEF OpenIsUndecided
  <2>1. v # w
    BY <1>3, <1>5 DEF Open, At
  <2>2. windows'[v] = windows[v] /\ Open(v)
    BY <2>1, <1>5 DEF Open, At
  <2>3. windows[v].payment \in Payments \ {p}
    BY <2>1, <2>2, <1>7, OpenIsHeld
  <2> QED BY <2>2, <2>3, <1>1, <1>6 DEF FlowInv, OpenIsUndecided
<1>13. AskedAsPrepared'
  BY <1>1, <1>3, <1>5 DEF FlowInv, AskedAsPrepared, At, Unreviewed
<1>14. OnlyAllowedUnreviewed'
  <2>1. p \notin rejected
    BY <1>7 DEF FlowInv, OpenIsUndecided
  <2>2. prepared[p] \in Policies
    BY <1>2, <1>7 DEF FlowInv, HeldIsPrepared, TypeOK
  <2>3. Unreviewed(p) => prepared[p].autoPay /\ Amount[p] <= prepared[p].approvalThreshold
    BY <1>2, <2>2 DEF Unreviewed, NeedsApproval
  <2>4. p \in reviewed \/ Unreviewed(p)
    BY <1>1 DEF FlowInv, AskedAsPrepared
  <2> QED BY <1>1, <1>6, <2>1, <2>3, <2>4 DEF FlowInv, OnlyAllowedUnreviewed
<1> QED BY <1>8, <1>10, <1>11, <1>12, <1>13, <1>14 DEF FlowInv

LEMMA RejectKeeps ==
    ASSUME FlowInv, NEW w \in Windows, Reject(w)
    PROVE  FlowInv'
<1> DEFINE p == windows[w].dialog
           x == [windows[w] EXCEPT !.dialog = None]
<1>1. /\ At(w, "idle") /\ p # None /\ rejected' = rejected \cup {p}
      /\ windows' = [windows EXCEPT ![w] = x]
      /\ UNCHANGED <<policy, prepared, settled, reviewed>>
  BY DEF Reject, Busy
<1>2. windows[w] \in Window /\ windows[w] \in WindowAt(Places, Payments \cup {None})
  BY WindowFields DEF FlowInv, TypeOK
<1>3. x.at = "idle" /\ x.dialog = None
  BY <1>1, <1>2 DEF WindowAt, At
<1>4. x \in Window
  <2>1. x \in WindowAt(Places, Payments \cup {None})
    BY <1>2 DEF WindowAt, Places
  <2> QED BY <1>3, <2>1, IsWindow
<1>5. /\ windows' \in [Windows -> Window] /\ windows'[w] = x
      /\ \A v \in Windows \ {w} : windows'[v] = windows[v]
  BY <1>1, <1>4, WindowChanges DEF FlowInv
<1>6. Open(w) /\ p = windows[w].payment /\ p \in Payments
  BY <1>1, OpenIsHeld DEF Open, FlowInv, DialogIsOfPayment
<1>7. \A v \in Windows \ {w} : ~Holds(v, p)
  BY <1>6, OpenIsHeld
<1>8. settled[p] = None /\ prepared[p] # None
  BY <1>6, OpenIsHeld DEF FlowInv, OpenIsUndecided, HeldIsPrepared
<1>9. TypeOK'
  BY <1>1, <1>5, <1>6 DEF FlowInv, TypeOK
<1>10. \A v \in Windows, q \in Payments : Holds(v, q)' => Holds(v, q)
  BY <1>3, <1>5 DEF Holds, Underway
<1>11. OneHolder' /\ HeldIsPrepared' /\ DecidedIsPrepared'
  BY <1>1, <1>8, <1>10 DEF FlowInv, OneHolder, HeldIsPrepared, DecidedIsPrepared
<1>12. DialogIsOfPayment'
  BY <1>3, <1>5 DEF FlowInv, DialogIsOfPayment, At
<1>13. OpenIsUndecided'
  <2> SUFFICES ASSUME NEW v \in Windows, Open(v)'
               PROVE  settled'[windows'[v].payment] = None
                      /\ windows'[v].payment \notin rejected'
    BY DEF OpenIsUndecided
  <2>1. v # w
    BY <1>3, <1>5 DEF Open, At
  <2>2. windows'[v] = windows[v] /\ Open(v)
    BY <2>1, <1>5 DEF Open, At
  <2>3. windows[v].payment \in Payments \ {p}
    BY <2>1, <2>2, <1>7, OpenIsHeld
  <2> QED BY <2>2, <2>3, <1>1 DEF FlowInv, OpenIsUndecided
<1>14. AskedAsPrepared'
  BY <1>1, <1>3, <1>5 DEF FlowInv, AskedAsPrepared, At, Unreviewed
<1>15. OnlyAllowedUnreviewed'
  BY <1>1, <1>8 DEF FlowInv, OnlyAllowedUnreviewed
<1> QED BY <1>9, <1>11, <1>12, <1>13, <1>14, <1>15 DEF FlowInv

\* The steps that WindowMoves is about.
LEMMA MoveKeeps ==
    ASSUME FlowInv, NEW w \in Windows,
           \/ Prepare(w) \/ Prepared(w) \/ Approve(w) \/ SidecarRefuses(w)
           \/ Paid(w) \/ Refreshed(w) \/ Throws(w)
           \/ \E message \in {"notice", "error"} : NothingStaged(w, message)
    PROVE  FlowInv'
<1> DEFINE old == windows[w]
<1>1. /\ old \in Window /\ old \in WindowAt(Places, Payments \cup {None})
      /\ Underway(w) => old.payment \in Payments
  BY WindowFields DEF FlowInv, TypeOK, Underway
<1>2. /\ old.dialog # None => old.dialog = old.payment /\ old.at \notin {"prepare", "refresh"}
      /\ old.dialog \in Payments \cup {None}
  BY <1>1 DEF FlowInv, DialogIsOfPayment, At, WindowAt
<1>3. CASE Prepare(w)
  <2> DEFINE x == [old EXCEPT !.at = "prepare", !.message = "none"]
  <2>1. /\ windows' = [windows EXCEPT ![w] = x] /\ old.at = "idle" /\ old.dialog = None
        /\ UNCHANGED <<policy, prepared, settled, reviewed, rejected>>
    BY <1>3 DEF Prepare, Busy, At
  <2>2. /\ x \in WindowAt(Places, Payments \cup {None})
        /\ x.at = "prepare" /\ x.dialog = None /\ x.payment = old.payment
    BY <1>1, <2>1 DEF WindowAt, Places
  <2>3. x \in Window
    BY <2>2, IsWindow
  <2>4. windows'[w] = x
    BY <2>1 DEF FlowInv, TypeOK
  <2> QED BY <2>1, <2>2, <2>3, <2>4, WindowMoves DEF Holds, Underway, Open, At, FlowInv, TypeOK
<1>4. CASE Prepared(w) /\ old.asks
  <2> DEFINE x == [old EXCEPT !.at = "idle", !.dialog = old.payment]
  <2>1. /\ windows' = [windows EXCEPT ![w] = x] /\ old.at = "prepared"
        /\ UNCHANGED <<policy, prepared, settled, reviewed, rejected>>
    BY <1>4 DEF Prepared, At
  <2>2. /\ x \in WindowAt(Places, Payments \cup {None})
        /\ x.at = "idle" /\ x.dialog = old.payment /\ x.payment = old.payment
    BY <1>1, <2>1 DEF WindowAt, Places, Underway
  <2>3. x \in Window
    BY <2>2, IsWindow
  <2>4. windows'[w] = x
    BY <2>1 DEF FlowInv, TypeOK
  <2> QED BY <2>1, <2>2, <2>3, <2>4, WindowMoves DEF Holds, Underway, Open, At, FlowInv, TypeOK
<1>5. CASE Prepared(w) /\ ~old.asks
  <2> DEFINE x == [old EXCEPT !.at = "pay"]
  <2>1. /\ windows' = [windows EXCEPT ![w] = x] /\ old.at = "prepared"
        /\ UNCHANGED <<policy, prepared, settled, reviewed, rejected>>
    BY <1>5 DEF Prepared, At
  <2>2. /\ x \in WindowAt(Places, Payments \cup {None})
        /\ x.at = "pay" /\ x.dialog = old.dialog /\ x.payment = old.payment
    BY <1>1, <2>1 DEF WindowAt, Places
  <2>3. x \in Window
    BY <1>1, <2>1, <2>2, IsWindow DEF Underway
  <2>4. windows'[w] = x
    BY <2>1 DEF FlowInv, TypeOK
  <2>5. Unreviewed(old.payment)
    BY <1>5, <2>1 DEF FlowInv, AskedAsPrepared, At
  <2> QED BY <1>2, <2>1, <2>2, <2>3, <2>4, <2>5, WindowMoves
          DEF Holds, Underway, Open, At, FlowInv, TypeOK
<1>6. CASE Approve(w)
  <2> DEFINE x == [old EXCEPT !.at = "pay", !.message = "none"]
  <2>1. /\ windows' = [windows EXCEPT ![w] = x] /\ old.at = "idle" /\ old.dialog # None
        /\ reviewed' = reviewed \cup {old.dialog}
        /\ UNCHANGED <<policy, prepared, settled, rejected>>
    BY <1>6 DEF Approve, Busy, At
  <2>2. /\ x \in WindowAt(Places, Payments \cup {None})
        /\ x.at = "pay" /\ x.dialog = old.dialog /\ x.payment = old.payment
    BY <1>1, <2>1 DEF WindowAt, Places
  <2>3. x \in Window
    BY <1>2, <2>1, <2>2, IsWindow
  <2>4. windows'[w] = x
    BY <2>1 DEF FlowInv, TypeOK
  <2>5. reviewed \subseteq reviewed' /\ reviewed' \in SUBSET Payments
    BY <1>2, <2>1 DEF FlowInv, TypeOK
  <2>6. x.payment \in reviewed'
    BY <1>2, <2>1, <2>2
  <2> HIDE DEF x
  <2> QED BY <1>2, <2>6, <2>1, <2>2, <2>3, <2>4, <2>5, WindowMoves DEF Holds, Underway, Open, At
<1>7. CASE SidecarRefuses(w)
  <2> DEFINE x == [old EXCEPT !.at = "failed"]
  <2>1. /\ windows' = [windows EXCEPT ![w] = x] /\ old.at = "pay"
        /\ UNCHANGED <<policy, prepared, settled, reviewed, rejected>>
    BY <1>7 DEF SidecarRefuses, At
  <2>2. /\ x \in WindowAt(Places, Payments \cup {None})
        /\ x.at = "failed" /\ x.dialog = old.dialog /\ x.payment = old.payment
    BY <1>1, <2>1 DEF WindowAt, Places
  <2>3. x \in Window
    BY <1>1, <2>1, <2>2, IsWindow DEF Underway
  <2>4. windows'[w] = x
    BY <2>1 DEF FlowInv, TypeOK
  <2> QED BY <1>2, <2>1, <2>2, <2>3, <2>4, WindowMoves
          DEF Holds, Underway, Open, At, FlowInv, TypeOK
<1>8. CASE Paid(w)
  <2> DEFINE x == [old EXCEPT !.at = "refresh", !.dialog = None]
  <2>1. /\ windows' = [windows EXCEPT ![w] = x] /\ old.at = "paid"
        /\ UNCHANGED <<policy, prepared, settled, reviewed, rejected>>
    BY <1>8 DEF Paid, At
  <2>2. /\ x \in WindowAt(Places, Payments \cup {None})
        /\ x.at = "refresh" /\ x.dialog = None /\ x.payment = old.payment
    BY <1>1, <2>1 DEF WindowAt, Places
  <2>3. x \in Window
    BY <1>1, <2>1, <2>2, IsWindow DEF Underway
  <2>4. windows'[w] = x
    BY <2>1 DEF FlowInv, TypeOK
  <2> QED BY <2>1, <2>2, <2>3, <2>4, WindowMoves DEF Holds, Underway, Open, At, FlowInv, TypeOK
<1>9. ASSUME NEW m \in {"notice", "error", "settled"},
             windows' = [windows EXCEPT ![w] = [old EXCEPT !.at = "idle", !.message = m]],
             old.at \in {"prepare", "refresh"},
             UNCHANGED <<policy, prepared, settled, reviewed, rejected>>
      PROVE  FlowInv'
  <2> DEFINE x == [old EXCEPT !.at = "idle", !.message = m]
  <2>1. old.dialog = None
    BY <1>2, <1>9
  <2>2. /\ x \in WindowAt(Places, Payments \cup {None})
        /\ x.at = "idle" /\ x.dialog = None /\ x.payment = old.payment
    BY <1>1, <1>9, <2>1 DEF WindowAt, Places
  <2>3. x \in Window
    BY <2>2, IsWindow
  <2>4. windows'[w] = x
    BY <1>9 DEF FlowInv, TypeOK
  <2> QED BY <1>9, <2>2, <2>3, <2>4, WindowMoves DEF Holds, Underway, Open, At, FlowInv, TypeOK
<1>10. CASE Throws(w)
  <2> DEFINE x == [old EXCEPT !.at = "idle", !.dialog = None, !.message = CatchMessage(w)]
  <2>1. /\ windows' = [windows EXCEPT ![w] = x]
        /\ UNCHANGED <<policy, prepared, settled, reviewed, rejected>>
    BY <1>10 DEF Throws
  <2>2. CatchMessage(w) \in {"notSettled", "error"}
    BY DEF CatchMessage
  <2>3. /\ x \in WindowAt(Places, Payments \cup {None})
        /\ x.at = "idle" /\ x.dialog = None /\ x.payment = old.payment
    BY <1>1, <2>2 DEF WindowAt, Places
  <2>4. x \in Window
    BY <2>3, IsWindow
  <2>5. windows'[w] = x
    BY <2>1 DEF FlowInv, TypeOK
  <2> HIDE DEF x
  <2> QED BY <2>1, <2>3, <2>4, <2>5, WindowMoves DEF Holds, Underway, Open, At, FlowInv, TypeOK
<1>11. ASSUME NEW message \in {"notice", "error"}, NothingStaged(w, message) PROVE FlowInv'
  BY <1>9, <1>11 DEF NothingStaged, At
<1>12. CASE Refreshed(w)
  BY <1>9, <1>12 DEF Refreshed, At
<1> QED BY <1>3, <1>4, <1>5, <1>6, <1>7, <1>8, <1>10, <1>11, <1>12

LEMMA NextFlow == FlowInv /\ [Next]_vars => FlowInv'
<1> SUFFICES ASSUME FlowInv, [Next]_vars PROVE FlowInv'
  OBVIOUS
<1>1. ASSUME NEW w \in Windows, NEW p \in Policies, SavePolicy(w, p) PROVE FlowInv'
  BY <1>1 DEF SavePolicy, FlowInv, TypeOK, OneHolder, HeldIsPrepared, DecidedIsPrepared,
              Holds, Underway, DialogIsOfPayment, OpenIsUndecided, Open, At,
              AskedAsPrepared, Unreviewed, OnlyAllowedUnreviewed
<1>2. ASSUME NEW w \in Windows, Reject(w) \/ Answer(w) \/ Prepare(w) \/ Approve(w)
      PROVE  FlowInv'
  BY <1>2, MoveKeeps, StageKeeps, SidecarPaysKeeps, RejectKeeps DEF Answer
<1>3. CASE UNCHANGED vars
  BY <1>3 DEF vars, FlowInv, TypeOK, OneHolder, HeldIsPrepared, DecidedIsPrepared,
              Holds, Underway, DialogIsOfPayment, OpenIsUndecided, Open, At,
              AskedAsPrepared, Unreviewed, OnlyAllowedUnreviewed
<1> QED BY <1>1, <1>2, <1>3 DEF Next

(***************************************************************************)
(* The theorem.                                                            *)
(***************************************************************************)
\* What is paid unreviewed needed no review when it was prepared, and nothing is
\* under review in two windows, or paid or rejected in one while another reviews
\* it (App.tsx:104-143, client.ts:408-426).
THEOREM ReviewsHoldCorrect == Spec => []ReviewsHold
<1>1. FlowInv => ReviewsHold
  <2> SUFFICES ASSUME FlowInv PROVE ReviewedOnce
    BY DEF FlowInv, ReviewsHold
  <2> SUFFICES ASSUME NEW w \in Windows, windows[w].dialog # None, ~Busy(w)
               PROVE  /\ settled[windows[w].dialog] = None
                      /\ windows[w].dialog \notin rejected
                      /\ \A v \in Windows \ {w} : windows[v].dialog # windows[w].dialog
    BY DEF ReviewedOnce
  <2>1. Open(w) /\ windows[w].dialog = windows[w].payment
    BY DEF Busy, Open, FlowInv, DialogIsOfPayment
  <2>2. \A v \in Windows \ {w} : ~Holds(v, windows[w].dialog)
    BY <2>1, OpenIsHeld
  <2> QED BY <2>1, <2>2 DEF FlowInv, OpenIsUndecided, Holds
<1> QED BY <1>1, InitFlow, NextFlow, PTL DEF Spec

HIDE FlowAssumption
USE ReplayAssumption

(***************************************************************************)
(* GovernedFetch: the inductive invariant.                                 *)
(***************************************************************************)
FetchTypeOK ==
    /\ allowed \in SUBSET Origins
    /\ pc \in {"idle", "check", "body", "answer", "ended"}
    /\ request \in Requests
    /\ original \in Requests
    /\ sent \in SUBSET Requests
    /\ late \in Nat

\* The hop at hand keeps to the original's origin, and is whole or a GET.
HopAtHome == request.target.origin = original.target.origin
HopWhole ==
    \/ request.method = original.method /\ request.body = original.body
    \/ request.method = "GET" /\ ~request.body

\* Once its check is over the target is plain.
Checked == pc \in {"body", "answer"} => request.target.plain

\* A hop was late at most once: afterwards its check fails, so none is waiting
\* for its body, and the next policy that lists the origin starts anew.
LateOnce ==
    /\ late <= 1
    /\ late = 1 => original.target.origin \notin allowed /\ pc # "body"

FetchInv ==
    /\ FetchTypeOK /\ HopAtHome /\ HopWhole /\ Checked /\ LateOnce
    /\ CredentialsStayHome /\ WholeOrGet

\* The next hop is a request again: a body only goes with a method that has one.
LEMMA NextHopIsRequest ==
    ASSUME request \in Requests, NEW status \in Statuses, NEW location \in Targets
    PROVE  NextHop(status, location) \in Requests
<1> DEFINE hop == NextHop(status, location)
<1>1. hop.target = location /\ hop.target \in Targets
  BY DEF NextHop
<1>2. hop.method \in {"GET", "HEAD", "POST", "PUT"} /\ hop.body \in BOOLEAN
  BY DEF NextHop, Requests
<1>3. hop \in [target : Targets, method : {"GET", "HEAD", "POST", "PUT"}, body : BOOLEAN]
  BY <1>1, <1>2 DEF NextHop
<1>4. ASSUME hop.body PROVE hop.method \in {"POST", "PUT"}
  BY <1>4 DEF NextHop, Requests
<1> QED BY <1>3, <1>4 DEF Requests

LEMMA InitFetch == FetchInit => FetchInv
BY DEF FetchInit, FetchInv, FetchTypeOK, HopAtHome, HopWhole, Checked, LateOnce,
       CredentialsStayHome, WholeOrGet, Requests

LEMMA NextFetch ==
    ASSUME FetchInv, [FetchNext]_fetchVars
    PROVE  FetchInv'
<1> USE DEF FetchInv
<1>1. ASSUME NEW origins \in SUBSET Origins, SaveAllowed(origins) PROVE FetchInv'
  BY <1>1 DEF SaveAllowed, FetchTypeOK, HopAtHome, HopWhole, Checked, LateOnce,
              CredentialsStayHome, WholeOrGet
<1>2. CASE BeginFetch
  BY <1>2 DEF BeginFetch, FetchTypeOK, HopAtHome, HopWhole, Checked, LateOnce,
              CredentialsStayHome, WholeOrGet
<1>3. CASE Check
  <2>1. request.target.plain /\ original.target.origin \in allowed
    BY <1>3 DEF Check, IsAllowed, HopAtHome
  <2>2. CASE request.body
    BY <1>3, <2>1, <2>2 DEF Check, FetchTypeOK, HopAtHome, HopWhole, Checked, LateOnce,
              CredentialsStayHome, WholeOrGet
  <2>3. CASE ~request.body
    <3>1. /\ pc' = "answer" /\ sent' = sent \cup {request} /\ late' = late
          /\ UNCHANGED <<allowed, request, original>>
      BY <1>3, <2>1, <2>3 DEF Check, Send, HopAtHome
    <3> QED BY <2>1, <3>1 DEF FetchTypeOK, HopAtHome, HopWhole, Checked, LateOnce,
              CredentialsStayHome, WholeOrGet
  <2> QED BY <2>2, <2>3
<1>4. CASE ReadBody
  <2>1. /\ pc = "body" /\ pc' = "answer" /\ sent' = sent \cup {request}
        /\ UNCHANGED <<allowed, request, original>>
    BY <1>4 DEF ReadBody, Send
  <2>2. late' = IF original.target.origin \in allowed THEN late ELSE late + 1
    BY <1>4 DEF ReadBody, Send, HopAtHome
  <2>3. late = 0
    BY <2>1 DEF LateOnce, FetchTypeOK
  <2> QED BY <2>1, <2>2, <2>3 DEF FetchTypeOK, HopAtHome, HopWhole, Checked, LateOnce,
              CredentialsStayHome, WholeOrGet
<1>5. CASE EndFetch
  BY <1>5 DEF EndFetch, FetchTypeOK, HopAtHome, HopWhole, Checked, LateOnce,
              CredentialsStayHome, WholeOrGet
<1>6. ASSUME NEW status \in Statuses, NEW location \in Targets \cup {NoLocation},
             Followed(status, location)
      PROVE  FetchInv'
  <2>1. location \in Targets /\ location.origin = original.target.origin
    BY <1>6 DEF Followed
  <2>2. /\ request' = NextHop(status, location) /\ pc' = "check"
        /\ UNCHANGED <<allowed, original, sent, late>>
    BY <1>6 DEF Followed
  <2>3. request' \in Requests
    BY <2>1, <2>2, NextHopIsRequest DEF FetchTypeOK
  <2>4. HopAtHome'
    BY <2>1, <2>2 DEF HopAtHome, NextHop
  <2>5. HopWhole'
    <3>1. CASE SwitchToGet(status)
      <4>1. request'.method = "GET" /\ ~request'.body
        BY <2>2, <3>1 DEF NextHop
      <4> QED BY <4>1 DEF HopWhole
    <3>2. CASE ~SwitchToGet(status)
      <4>1. request.body \in BOOLEAN
        BY DEF FetchTypeOK, Requests
      <4>2. request'.method = request.method /\ request'.body = request.body
        BY <2>2, <3>2, <4>1 DEF NextHop
      <4> QED BY <2>2, <4>2 DEF HopWhole
    <3> QED BY <3>1, <3>2
  <2> QED BY <2>2, <2>3, <2>4, <2>5 DEF FetchTypeOK, Checked, LateOnce,
              CredentialsStayHome, WholeOrGet
<1>7. CASE UNCHANGED fetchVars
  BY <1>7 DEF fetchVars, FetchTypeOK, HopAtHome, HopWhole, Checked, LateOnce,
              CredentialsStayHome, WholeOrGet
<1>8. Blocked \/ HopFails => EndFetch
  BY DEF Blocked, HopFails
<1>9. ASSUME NEW status \in Statuses, NEW location \in Targets \cup {NoLocation},
             Returned(status, location) \/ Refused(status, location)
      PROVE  EndFetch
  BY <1>9 DEF Returned, Refused
<1> QED
  BY <1>1, <1>2, <1>3, <1>4, <1>5, <1>6, <1>7, <1>8, <1>9 DEF FetchNext, Fetch, AnswerHop

(***************************************************************************)
(* GovernedFetch: the theorem.                                             *)
(***************************************************************************)
\* No hop leaves the origin the caller named, is half a request, or is the second
\* one after the origin left the policy (network.ts:158-204), whatever the server
\* answers.
THEOREM RedirectsSafeCorrect == FetchSpec => []RedirectsSafe
<1>1. FetchInv => RedirectsSafe
  BY DEF FetchInv, RedirectsSafe, LateOnce, RevocationHonoured
<1>2. FetchInv /\ [FetchNext]_fetchVars => FetchInv'
  BY NextFetch
<1> QED BY <1>1, <1>2, InitFetch, PTL DEF FetchSpec

(***************************************************************************)
(* ReplayStore: the inductive invariant.                                   *)
(***************************************************************************)
\* A transaction holds the lock and has been counted, so what it read is current.
Locked == \A p \in Processes : call[p] # Nil => lock = p /\ calls[p] # 0
RowIsCurrent == \A p \in Processes : call[p] # Nil => call[p].row = mppx_kv[call[p].key]

\* A claim that still runs is covered by the marker in the table.
Covered ==
    \A c \in claims :
        \/ c.until <= clock
        \/ mppx_kv[c.key] \in Marker /\ c.until <= mppx_kv[c.key].expires

ReplayInv == ReplayTypeOK /\ Locked /\ RowIsCurrent /\ Covered /\ NoUpdateLost /\ ClaimedOnce

(***************************************************************************)
(* What the values of the table tell.                                      *)
(***************************************************************************)
LEMMA StateHasItsUpdates ==
    ASSUME NEW s \in SUBSET Updates
    PROVE  /\ [type |-> "state", updates |-> s] \in State
           /\ UpdatesIn([type |-> "state", updates |-> s]) = s
BY DEF State, UpdatesIn

LEMMA MarkerHasNoUpdates ==
    ASSUME NEW e \in 0..(MaxTime + 1)
    PROVE  /\ [type |-> "mppx:replay", expires |-> e] \in Marker
           /\ UpdatesIn([type |-> "mppx:replay", expires |-> e]) = {}
BY DEF Marker, UpdatesIn

LEMMA NoneHasNoUpdates == UpdatesIn(Nil) = {}
BY DEF UpdatesIn

LEMMA UpdatesAreUpdates ==
    ASSUME NEW row \in Values
    PROVE  UpdatesIn(row) \in SUBSET Updates
BY DEF Values, State, UpdatesIn, Marker

\* A claimable row is a marker that has expired, or none.
LEMMA ClaimableIsOver ==
    ASSUME NEW row \in Values, Claimable(row)
    PROVE  /\ UpdatesIn(row) = {}
           /\ row \in Marker => row.expires <= clock
<1>1. CASE row = Nil
  BY <1>1, NoneHasNoUpdates
<1>2. CASE row \in Marker
  BY <1>2 DEF Marker, Claimable, UpdatesIn
<1>3. CASE row \in State
  BY <1>3 DEF State, Claimable
<1> QED BY <1>1, <1>2, <1>3 DEF Values

LEMMA CallFields ==
    ASSUME ReplayTypeOK, NEW p \in Processes, call[p] # Nil
    PROVE  /\ call[p] \in Call
           /\ call[p].key \in Keys
           /\ call[p].expires \in 0..(MaxTime + 1)
           /\ call[p].row \in Values
BY DEF ReplayTypeOK, Call

\* Values a write may leave in the table keep its type.
LEMMA WriteKeepsTable ==
    ASSUME ReplayTypeOK, NEW k \in Keys, NEW v \in Values, NEW s \in SUBSET Updates
    PROVE  /\ [mppx_kv EXCEPT ![k] = v] \in [Keys -> Values]
           /\ [applied EXCEPT ![k] = s] \in [Keys -> SUBSET Updates]
BY DEF ReplayTypeOK

\* A value written over a key, with its claims forgotten.
LEMMA OverwriteIsSafe ==
    ASSUME ReplayInv, NEW k \in Keys, NEW v \in Values, NEW s \in SUBSET Updates,
           UpdatesIn(v) = s,
           mppx_kv' = [mppx_kv EXCEPT ![k] = v],
           applied' = [applied EXCEPT ![k] = s],
           claims' = Overwritten(k),
           UNCHANGED clock
    PROVE  /\ mppx_kv' \in [Keys -> Values] /\ applied' \in [Keys -> SUBSET Updates]
           /\ claims' \in SUBSET Claim
           /\ Covered' /\ NoUpdateLost' /\ ClaimedOnce'
<1>1. mppx_kv' \in [Keys -> Values] /\ applied' \in [Keys -> SUBSET Updates]
  BY WriteKeepsTable DEF ReplayInv
<1>2. claims' \in SUBSET Claim /\ claims' \subseteq claims
  BY DEF ReplayInv, ReplayTypeOK, Overwritten
<1>3. ClaimedOnce'
  BY <1>2 DEF ClaimedOnce, ReplayInv
<1>4. NoUpdateLost'
  BY DEF NoUpdateLost, ReplayInv, ReplayTypeOK
<1>5. Covered'
  <2> SUFFICES ASSUME NEW c \in claims'
               PROVE  \/ c.until <= clock'
                      \/ mppx_kv'[c.key] \in Marker /\ c.until <= mppx_kv'[c.key].expires
    BY DEF Covered
  <2>1. c \in claims /\ c.key # k /\ c.key \in Keys
    BY DEF Overwritten, ReplayInv, ReplayTypeOK, Claim
  <2>2. mppx_kv'[c.key] = mppx_kv[c.key]
    BY <2>1 DEF ReplayInv, ReplayTypeOK
  <2> QED BY <2>1, <2>2 DEF ReplayInv, Covered
<1> QED BY <1>1, <1>2, <1>3, <1>4, <1>5

\* Ending a transaction frees the lock; nobody else was in one.
LEMMA EndIsSafe ==
    ASSUME ReplayInv, NEW p \in Processes, call[p] # Nil, End(p), UNCHANGED calls
    PROVE  /\ Locked' /\ RowIsCurrent'
           /\ lock' \in Processes \cup {Nil} /\ call' \in [Processes -> Call \cup {Nil}]
<1>1. \A q \in Processes : call'[q] = Nil
  BY DEF End, ReplayInv, ReplayTypeOK, Locked
<1>2. lock' \in Processes \cup {Nil} /\ call' \in [Processes -> Call \cup {Nil}]
  BY DEF End, ReplayInv, ReplayTypeOK
<1> QED BY <1>1, <1>2 DEF Locked, RowIsCurrent

(***************************************************************************)
(* The invariant holds.                                                    *)
(***************************************************************************)
LEMMA InitReplay == ReplayInit => ReplayInv
BY NoneHasNoUpdates
   DEF ReplayInit, ReplayInv, ReplayTypeOK, Values, Locked, RowIsCurrent, Covered, NoUpdateLost,
       ClaimedOnce

LEMMA BeginKeeps ==
    ASSUME ReplayInv, NEW p \in Processes, NEW op \in {"tryClaim", "update"},
           NEW k \in Keys, NEW e \in (clock + 1)..(MaxTime + 1), Begin(p, op, k, e)
    PROVE  ReplayInv'
<1> DEFINE new == [op |-> op, key |-> k, expires |-> e, row |-> mppx_kv[k]]
<1>1. e \in 0..(MaxTime + 1) /\ mppx_kv[k] \in Values
  BY DEF ReplayInv, ReplayTypeOK
<1>2. new \in Call
  BY <1>1 DEF Call
<1>3. call' = [call EXCEPT ![p] = new] /\ lock = Nil /\ lock' = p
  BY DEF Begin
<1>4. call' \in [Processes -> Call \cup {Nil}]
  BY <1>2, <1>3 DEF ReplayInv, ReplayTypeOK
<1>5. calls' \in [Processes -> 0..MaxCalls] /\ calls'[p] # 0
  BY DEF Begin, ReplayInv, ReplayTypeOK
<1>6. \A q \in Processes : call[q] = Nil
  BY <1>3 DEF ReplayInv, Locked
<1>7. call'[p] = new /\ \A q \in Processes \ {p} : call'[q] = Nil
  BY <1>3, <1>6 DEF ReplayInv, ReplayTypeOK
<1>8. Locked' /\ RowIsCurrent'
  <2>1. mppx_kv' = mppx_kv
    BY DEF Begin
  <2> QED BY <1>3, <1>5, <1>7, <2>1 DEF Locked, RowIsCurrent
<1> QED BY <1>3, <1>4, <1>5, <1>8
        DEF Begin, ReplayInv, ReplayTypeOK, Covered, NoUpdateLost, ClaimedOnce

LEMMA TryClaimKeeps ==
    ASSUME ReplayInv, NEW p \in Processes, TryClaim(p)
    PROVE  ReplayInv'
<1> DEFINE k == call[p].key
           e == call[p].expires
           marker == [type |-> "mppx:replay", expires |-> e]
           new == [key |-> k, by |-> Id(p), from |-> clock, until |-> e]
<1>1. call[p] # Nil /\ Claimable(call[p].row) /\ End(p)
  BY DEF TryClaim, In
<1>2. k \in Keys /\ e \in 0..(MaxTime + 1) /\ call[p].row \in Values
  BY <1>1, CallFields DEF ReplayInv
<1>3. call[p].row = mppx_kv[k]
  BY <1>1 DEF ReplayInv, RowIsCurrent
<1>4. /\ mppx_kv' = [mppx_kv EXCEPT ![k] = marker] /\ claims' = claims \cup {new}
      /\ UNCHANGED <<calls, clock, applied>>
  BY DEF TryClaim
<1>5. marker \in Marker /\ UpdatesIn(marker) = {} /\ marker.expires = e
  BY <1>2, MarkerHasNoUpdates
<1>6. UpdatesIn(mppx_kv[k]) = {} /\ (mppx_kv[k] \in Marker => mppx_kv[k].expires <= clock)
  BY <1>1, <1>2, <1>3, ClaimableIsOver
<1>7. Id(p) \in Updates
  <2>1. calls[p] \in 1..MaxCalls
    BY <1>1 DEF ReplayInv, Locked, ReplayTypeOK
  <2> QED BY <2>1 DEF Id, Updates
<1>8. new \in Claim /\ claims \subseteq Claim
  BY <1>2, <1>7 DEF Claim, ReplayInv, ReplayTypeOK
<1>9. mppx_kv' \in [Keys -> Values] /\ mppx_kv'[k] = marker
  BY <1>2, <1>4, <1>5 DEF ReplayInv, ReplayTypeOK, Values
<1>10. \A c \in claims : c.key = k => c.until <= clock
  <2> SUFFICES ASSUME NEW c \in claims, c.key = k PROVE c.until <= clock
    OBVIOUS
  <2>1. c.until <= clock \/ (mppx_kv[k] \in Marker /\ c.until <= mppx_kv[k].expires)
    BY DEF ReplayInv, Covered
  <2>2. c.until \in Nat /\ clock \in Nat
    BY <1>8 DEF Claim, ReplayInv, ReplayTypeOK
  <2>3. mppx_kv[k] \in Marker => mppx_kv[k].expires \in Nat
    BY DEF Marker
  <2> QED BY <1>6, <2>1, <2>2, <2>3
<1>11. ClaimedOnce'
  <2> SUFFICES ASSUME NEW c \in claims', NEW d \in claims', c.key = d.key, c # d
               PROVE  c.until <= d.from \/ d.until <= c.from
    BY DEF ClaimedOnce
  <2>1. CASE c \in claims /\ d \in claims
    BY <2>1 DEF ReplayInv, ClaimedOnce
  <2>2. CASE c = new /\ d \in claims
    BY <2>2, <1>10
  <2>3. CASE d = new /\ c \in claims
    BY <2>3, <1>10
  <2> QED BY <1>4, <2>1, <2>2, <2>3
<1>12. NoUpdateLost'
  BY <1>2, <1>4, <1>5, <1>6, <1>9 DEF NoUpdateLost, ReplayInv, ReplayTypeOK
<1>13. Covered'
  <2> SUFFICES ASSUME NEW c \in claims'
               PROVE  \/ c.until <= clock'
                      \/ mppx_kv'[c.key] \in Marker /\ c.until <= mppx_kv'[c.key].expires
    BY DEF Covered
  <2>1. CASE c = new
    <3>1. c.until = e /\ c.key = k
      BY <2>1
    <3>2. e <= marker.expires
      BY <1>2, <1>5
    <3> QED BY <1>5, <1>9, <3>1, <3>2
  <2>2. CASE c \in claims /\ c.key = k
    BY <2>2, <1>4, <1>10
  <2>3. CASE c \in claims /\ c.key # k
    <3>1. mppx_kv'[c.key] = mppx_kv[c.key]
      BY <2>3, <1>4, <1>8 DEF ReplayInv, ReplayTypeOK, Claim
    <3> QED BY <2>3, <3>1, <1>4 DEF ReplayInv, Covered
  <2> QED BY <1>4, <2>1, <2>2, <2>3
<1>14. /\ Locked' /\ RowIsCurrent'
       /\ lock' \in Processes \cup {Nil} /\ call' \in [Processes -> Call \cup {Nil}]
  BY <1>1, <1>4, EndIsSafe
<1>15. ReplayTypeOK'
  BY <1>4, <1>8, <1>9, <1>14 DEF ReplayTypeOK, ReplayInv
<1> QED BY <1>11, <1>12, <1>13, <1>14, <1>15 DEF ReplayInv

\* A transaction that writes nothing.
LEMMA RollbackKeeps ==
    ASSUME ReplayInv, NEW p \in Processes, call[p] # Nil, End(p),
           UNCHANGED <<mppx_kv, calls, clock, claims, applied>>
    PROVE  ReplayInv'
<1>1. /\ Locked' /\ RowIsCurrent'
      /\ lock' \in Processes \cup {Nil} /\ call' \in [Processes -> Call \cup {Nil}]
  BY EndIsSafe
<1> QED BY <1>1 DEF ReplayInv, ReplayTypeOK, Covered, NoUpdateLost, ClaimedOnce

LEMMA UpdateKeeps ==
    ASSUME ReplayInv, NEW p \in Processes,
           UpdateSets(p) \/ UpdateDeletes(p)
    PROVE  ReplayInv'
<1> DEFINE k == call[p].key
           new == UpdatesIn(call[p].row) \cup {Id(p)}
<1>1. call[p] # Nil /\ End(p) /\ UNCHANGED <<calls, clock>> /\ claims' = Overwritten(k)
  BY DEF UpdateSets, UpdateDeletes, In
<1>2. k \in Keys /\ call[p].row \in Values
  BY <1>1, CallFields DEF ReplayInv
<1>3. Id(p) \in Updates
  <2>1. calls[p] \in 1..MaxCalls
    BY <1>1 DEF ReplayInv, Locked, ReplayTypeOK
  <2> QED BY <2>1 DEF Id, Updates
<1>4. \E v \in Values, s \in SUBSET Updates :
        /\ UpdatesIn(v) = s
        /\ mppx_kv' = [mppx_kv EXCEPT ![k] = v]
        /\ applied' = [applied EXCEPT ![k] = s]
  <2>1. CASE UpdateSets(p)
    <3>1. new \in SUBSET Updates
      BY <1>2, <1>3, UpdatesAreUpdates
    <3>2. call[p].row = mppx_kv[k]
      BY <1>1 DEF ReplayInv, RowIsCurrent
    <3>3. applied[k] = UpdatesIn(call[p].row)
      BY <1>2, <3>2 DEF ReplayInv, NoUpdateLost
    <3>4. applied' = [applied EXCEPT ![k] = new]
      BY <2>1, <3>3 DEF UpdateSets
    <3>5. mppx_kv' = [mppx_kv EXCEPT ![k] = [type |-> "state", updates |-> new]]
      BY <2>1 DEF UpdateSets
    <3> QED BY <3>1, <3>4, <3>5, StateHasItsUpdates DEF Values
  <2>2. CASE UpdateDeletes(p)
    <3>1. /\ mppx_kv' = [mppx_kv EXCEPT ![k] = Nil]
          /\ applied' = [applied EXCEPT ![k] = {}]
      BY <2>2 DEF UpdateDeletes
    <3> QED BY <3>1, NoneHasNoUpdates DEF Values
  <2> QED BY <2>1, <2>2
<1>5. /\ mppx_kv' \in [Keys -> Values] /\ applied' \in [Keys -> SUBSET Updates]
      /\ claims' \in SUBSET Claim
      /\ Covered' /\ NoUpdateLost' /\ ClaimedOnce'
  BY <1>1, <1>2, <1>4, OverwriteIsSafe
<1>6. /\ Locked' /\ RowIsCurrent'
      /\ lock' \in Processes \cup {Nil} /\ call' \in [Processes -> Call \cup {Nil}]
  BY <1>1, EndIsSafe
<1> QED BY <1>1, <1>5, <1>6 DEF ReplayInv, ReplayTypeOK

LEMMA StatementKeeps ==
    ASSUME ReplayInv, NEW p \in Processes, NEW k \in Keys,
           Put(p, k) \/ Delete(p, k)
    PROVE  ReplayInv'
<1>1. \E v \in Values, s \in SUBSET Updates :
        /\ UpdatesIn(v) = s
        /\ mppx_kv' = [mppx_kv EXCEPT ![k] = v]
        /\ applied' = [applied EXCEPT ![k] = s]
  <2>1. CASE Put(p, k)
    BY <2>1, StateHasItsUpdates DEF Put, Values
  <2>2. CASE Delete(p, k)
    BY <2>2, NoneHasNoUpdates DEF Delete, Values
  <2> QED BY <2>1, <2>2
<1>2. claims' = Overwritten(k) /\ lock = Nil /\ UNCHANGED <<lock, call, calls, clock>>
  BY DEF Put, Delete
<1>3. /\ mppx_kv' \in [Keys -> Values] /\ applied' \in [Keys -> SUBSET Updates]
      /\ claims' \in SUBSET Claim
      /\ Covered' /\ NoUpdateLost' /\ ClaimedOnce'
  BY <1>1, <1>2, OverwriteIsSafe
<1>4. Locked' /\ RowIsCurrent'
  <2>1. \A q \in Processes : call[q] = Nil
    BY <1>2 DEF ReplayInv, Locked
  <2> QED BY <1>2, <2>1 DEF Locked, RowIsCurrent
<1> QED BY <1>2, <1>3, <1>4 DEF ReplayInv, ReplayTypeOK

LEMMA TickKeeps == ASSUME ReplayInv, Tick PROVE ReplayInv'
<1>1. clock' \in 0..MaxTime /\ clock' = clock + 1
  BY DEF Tick, ReplayInv, ReplayTypeOK
<1>2. Covered'
  <2> SUFFICES ASSUME NEW c \in claims'
               PROVE  \/ c.until <= clock'
                      \/ mppx_kv'[c.key] \in Marker /\ c.until <= mppx_kv'[c.key].expires
    BY DEF Covered
  <2>1. c \in claims /\ c.until \in Nat /\ clock \in Nat /\ mppx_kv' = mppx_kv
    BY DEF Tick, ReplayInv, ReplayTypeOK, Claim
  <2> QED BY <1>1, <2>1 DEF ReplayInv, Covered
<1> QED BY <1>1, <1>2 DEF Tick, ReplayInv, ReplayTypeOK, Locked, RowIsCurrent, NoUpdateLost, ClaimedOnce

LEMMA NextReplay ==
    ASSUME ReplayInv, [ReplayNext]_replayVars
    PROVE  ReplayInv'
<1>1. CASE Tick
  BY <1>1, TickKeeps
<1>2. ASSUME NEW p \in Processes, Step(p) PROVE ReplayInv'
  <2>1. ASSUME ClaimRefused(p) \/ Rollback(p)
        PROVE  /\ call[p] # Nil /\ End(p)
               /\ UNCHANGED <<mppx_kv, calls, clock, claims, applied>>
    BY <2>1 DEF ClaimRefused, Rollback, In
  <2> QED BY <1>2, <2>1, BeginKeeps, TryClaimKeeps, RollbackKeeps, UpdateKeeps, StatementKeeps
          DEF Step
<1>3. CASE UNCHANGED replayVars
  BY <1>3 DEF replayVars, ReplayInv, ReplayTypeOK, Locked, RowIsCurrent, Covered, NoUpdateLost, ClaimedOnce
<1> QED BY <1>1, <1>2, <1>3 DEF ReplayNext

(***************************************************************************)
(* ReplayStore: the theorem.                                               *)
(***************************************************************************)
\* Granted claims of a key never overlap and no update is lost, however many
\* processes share the table (store.ts:513-560).
THEOREM ReplaySafeCorrect == ReplaySpec => []ReplaySafe
<1>1. ReplayInv => ReplaySafe
  BY DEF ReplayInv, ReplaySafe
<1>2. ReplayInv /\ [ReplayNext]_replayVars => ReplayInv'
  BY NextReplay
<1>3. ReplayInit => ReplayInv
  BY InitReplay
<1> QED BY <1>1, <1>2, <1>3, PTL DEF ReplaySpec

(***************************************************************************)
(* ServiceCatalog: the inductive invariant.                                *)
(***************************************************************************)
\* A fetch runs within its limit, and its answer was made while it ran.
FetchInTime ==
    \A c \in Listings :
        /\ list[c].at = "idle" => list[c].made = NoList
        /\ list[c].at = "fetch" =>
              /\ list[c].began <= now /\ now <= list[c].began + Limit
              /\ list[c].made # NoList => list[c].began <= list[c].made /\ list[c].made <= now

\* So what the cache holds was made at most a fetch before it was stored.
CacheInTime ==
    cached # NoList =>
        cached.services <= cached.at /\ cached.at <= now /\ cached.at <= cached.services + Limit

CatalogInv == CatalogTypeOK /\ FetchInTime /\ CacheInTime

Hows == {"none", "fresh", "cache", "stale", "unavailable", "malformed"}
Times == (0..MaxNow) \cup {NoList}

LEMMA EndsKeepsType ==
    ASSUME CatalogTypeOK, NEW c \in Listings, NEW how \in Hows, NEW services \in Times,
           Ends(c, how, services)
    PROVE  list' \in [Listings -> Listing]
<1>1. list[c] \in Listing
  BY DEF CatalogTypeOK
<1>2. [list[c] EXCEPT !.at = "ended", !.how = how, !.services = services] \in Listing
  BY <1>1 DEF Listing, Hows, Times
<1> QED BY <1>2 DEF CatalogTypeOK, Ends

LEMMA InitCatalog == CatalogInit => CatalogInv
BY CatalogAssumption
   DEF CatalogInit, CatalogInv, CatalogTypeOK, FetchInTime, CacheInTime, Listing, Idle

LEMMA NextCatalog == CatalogInv /\ [CatalogNext]_catalogVars => CatalogInv'
<1> SUFFICES ASSUME CatalogInv, [CatalogNext]_catalogVars PROVE CatalogInv'
  OBVIOUS
<1> USE CatalogAssumption DEF CatalogInv
<1>1. ASSUME NEW c \in Listings, Lists(c) PROVE CatalogInv'
  <2>1. CASE ListCached(c)
    <3>1. CatalogTypeOK'
      <4>1. list[c] \in Listing
        BY DEF CatalogTypeOK
      <4>2. [list[c] EXCEPT !.at = "ended", !.began = now, !.how = "cache",
                            !.services = cached.services] \in Listing
        BY <2>1, <4>1 DEF ListCached, Fresh, CatalogTypeOK, Listing
      <4> QED BY <2>1, <4>2 DEF ListCached, CatalogTypeOK
    <3>2. FetchInTime'
      BY <2>1 DEF ListCached, Fresh, CatalogTypeOK, Listing, FetchInTime
    <3>3. CacheInTime'
      BY <2>1 DEF ListCached, Fresh, CatalogTypeOK, Listing, FetchInTime, CacheInTime
    <3> QED BY <3>1, <3>2, <3>3
  <2>2. CASE \E force \in BOOLEAN : ListFetches(c, force)
    <3>1. CatalogTypeOK'
      <4>1. list[c] \in Listing
        BY DEF CatalogTypeOK
      <4>2. [list[c] EXCEPT !.at = "fetch", !.began = now] \in Listing
        BY <4>1 DEF CatalogTypeOK, Listing
      <4> QED BY <2>2, <4>2 DEF ListFetches, CatalogTypeOK
    <3>2. FetchInTime'
      BY <2>2 DEF ListFetches, CatalogTypeOK, Listing, FetchInTime
    <3>3. CacheInTime'
      BY <2>2 DEF ListFetches, CatalogTypeOK, Listing, FetchInTime, CacheInTime
    <3> QED BY <3>1, <3>2, <3>3
  <2>3. CASE ServerAnswers(c)
    <3>1. CatalogTypeOK'
      BY <2>3 DEF ServerAnswers, CatalogTypeOK, Listing
    <3>2. FetchInTime'
      BY <2>3 DEF ServerAnswers, CatalogTypeOK, Listing, FetchInTime
    <3>3. CacheInTime'
      BY <2>3 DEF ServerAnswers, CatalogTypeOK, Listing, FetchInTime, CacheInTime
    <3> QED BY <3>1, <3>2, <3>3
  <2>4. CASE Fetched(c)
    <3>1. CatalogTypeOK'
      BY <2>4, EndsKeepsType DEF Fetched, Arrived, CatalogTypeOK, Listing, Hows, Times
    <3>2. FetchInTime'
      BY <2>4 DEF Fetched, Arrived, Ends, CatalogTypeOK, Listing, FetchInTime
    <3>3. CacheInTime'
      BY <2>4 DEF Fetched, Arrived, Ends, CatalogTypeOK, Listing, FetchInTime, CacheInTime
    <3> QED BY <3>1, <3>2, <3>3
  <2>5. CASE Malformed(c)
    <3>1. CatalogTypeOK'
      BY <2>5, EndsKeepsType DEF Malformed, CatalogTypeOK, Listing, Hows, Times
    <3>2. FetchInTime'
      BY <2>5 DEF Malformed, Ends, CatalogTypeOK, Listing, FetchInTime
    <3>3. CacheInTime'
      BY <2>5 DEF Malformed, Ends, CatalogTypeOK, Listing, FetchInTime, CacheInTime
    <3> QED BY <3>1, <3>2, <3>3
  <2>6. CASE Stale(c)
    <3>1. CatalogTypeOK'
      BY <2>6, EndsKeepsType DEF Stale, CatalogTypeOK, Listing, Hows, Times
    <3>2. FetchInTime'
      BY <2>6 DEF Stale, Ends, CatalogTypeOK, Listing, FetchInTime
    <3>3. CacheInTime'
      BY <2>6 DEF Stale, Ends, CatalogTypeOK, Listing, FetchInTime, CacheInTime
    <3> QED BY <3>1, <3>2, <3>3
  <2>7. CASE Unavailable(c)
    <3>1. CatalogTypeOK'
      BY <2>7, EndsKeepsType DEF Unavailable, CatalogTypeOK, Listing, Hows, Times
    <3>2. FetchInTime'
      BY <2>7 DEF Unavailable, Ends, CatalogTypeOK, Listing, FetchInTime
    <3>3. CacheInTime'
      BY <2>7 DEF Unavailable, Ends, CatalogTypeOK, Listing, FetchInTime, CacheInTime
    <3> QED BY <3>1, <3>2, <3>3
  <2>8. CASE Again(c)
    <3>1. CatalogTypeOK'
      BY <2>8 DEF Again, Idle, CatalogTypeOK, Listing
    <3>2. FetchInTime'
      BY <2>8 DEF Again, Idle, CatalogTypeOK, Listing, FetchInTime
    <3>3. CacheInTime'
      BY <2>8 DEF Again, Idle, CatalogTypeOK, Listing, FetchInTime, CacheInTime
    <3> QED BY <3>1, <3>2, <3>3
  <2> QED BY <1>1, <2>1, <2>2, <2>3, <2>4, <2>5, <2>6, <2>7, <2>8 DEF Lists
<1>2. CASE CatalogTick
  BY <1>2 DEF CatalogTick, CatalogTypeOK, Listing, FetchInTime, CacheInTime
<1>3. CASE UNCHANGED catalogVars
  BY <1>3 DEF catalogVars, CatalogTypeOK, FetchInTime, CacheInTime
<1> QED BY <1>1, <1>2, <1>3 DEF CatalogNext

(***************************************************************************)
(* ServiceCatalog: the theorem.                                            *)
(***************************************************************************)
\* What the cache serves as fresh was made by the server at most its lifetime and
\* one fetch ago, however calls overlap and fail (services.ts:97-123).
THEOREM CacheIsRecentCorrect == CatalogSpec => []CacheIsRecent
<1>1. CatalogInv => CacheIsRecent
  BY CatalogAssumption
     DEF CatalogInv, CatalogTypeOK, CacheInTime, CacheIsRecent, RecentWhenFresh, Fresh
<1> QED BY <1>1, InitCatalog, NextCatalog, PTL DEF CatalogSpec

(***************************************************************************)
(* Least and greatest numbers.                                             *)
(***************************************************************************)
LEMMA MinIsLeast ==
    ASSUME NEW S \in SUBSET Nat, S # {}
    PROVE  Min(S) \in S /\ \A n \in S : Min(S) <= n
BY LeastNatural DEF Min

\* A finite set of numbers has a greatest: a smallest set without one would stay
\* one without any of its elements.
LEMMA MaxIsGreatest ==
    ASSUME NEW S \in SUBSET Nat, IsFiniteSet(S), S # {}
    PROVE  Max(S) \in S /\ \A n \in S : n <= Max(S)
<1> DEFINE Bounded(T) == \E m \in T : \A n \in T : n <= m
           Cards == {k \in Nat : \E T \in SUBSET Nat :
                        IsFiniteSet(T) /\ T # {} /\ Cardinality(T) = k /\ ~Bounded(T)}
<1>1. ASSUME Cards # {} PROVE FALSE
  <2>1. Cards \in SUBSET Nat
    OBVIOUS
  <2> HIDE DEF Cards
  <2>2. PICK k \in Cards : \A j \in Cards : k <= j
    BY <1>1, <2>1, LeastNatural
  <2> USE DEF Cards
  <2>3. PICK T \in SUBSET Nat : IsFiniteSet(T) /\ T # {} /\ Cardinality(T) = k /\ ~Bounded(T)
    BY <2>2
  <2>4. PICK x \in T : TRUE
    BY <2>3
  <2> DEFINE U == T \ {x}
  <2>5. IsFiniteSet(U) /\ Cardinality(U) = k - 1 /\ U \in SUBSET Nat
    BY <2>3, <2>4, FS_RemoveElement
  <2>6. Cardinality(U) \in Nat /\ k \in Nat
    BY <2>2, <2>5, FS_CardinalityType
  <2>7. ~(Cardinality(U) \in Cards)
    BY <2>2, <2>5, <2>6
  <2>8. U = {} \/ Bounded(U)
    BY <2>5, <2>6, <2>7
  <2>9. CASE U = {}
    BY <2>3, <2>4, <2>9
  <2>10. CASE Bounded(U)
    <3>1. PICK m \in U : \A n \in U : n <= m
        BY <2>10
    <3>2. CASE x <= m
        BY <2>3, <2>4, <3>1, <3>2
    <3>3. CASE ~(x <= m)
        <4>1. \A n \in T : n <= x
            BY <2>3, <2>4, <3>1, <3>3
        <4> QED  BY <2>3, <2>4, <4>1
    <3> QED  BY <3>2, <3>3
  <2> QED  BY <2>8, <2>9, <2>10
<1>2. Cardinality(S) \in Nat
    BY FS_CardinalityType
<1>3. Bounded(S)
    BY <1>1, <1>2
<1>4. \E m \in S : \A n \in S : m >= n
    BY <1>3
<1> QED  BY <1>4 DEF Max

(***************************************************************************)
(* ReleaseVersions: the next version.                                      *)
(***************************************************************************)
Tags == Versions \cup {NoVersion}

LEMMA StablesFinite ==
    ASSUME NEW tags \in SUBSET Tags, IsFiniteSet(tags)
    PROVE  IsFiniteSet(Stables(tags)) /\ Cardinality(Stables(tags)) \in Nat
<1>1. Stables(tags) \in SUBSET tags
    BY DEF Stables
<1> QED  BY <1>1, FS_Subset, FS_CardinalityType

\* The loop ends before its bound, at the first base that no stable has.
LEMMA BaseIsFree ==
    ASSUME NEW tree \in Versions, NEW tags \in SUBSET Tags, IsFiniteSet(tags)
    PROVE  \E n \in Nat :
              /\ ResolveBase(tree, tags) = Version(tree.major, tree.minor, tree.patch + n, <<>>)
              /\ Version(tree.major, tree.minor, tree.patch + n, <<>>) \notin tags
              /\ \A k \in Nat : k < n =>
                    Version(tree.major, tree.minor, tree.patch + k, <<>>) \in tags
<1> DEFINE stable == Stables(tags)
           bound == Cardinality(stable)
           Patched(n) == Version(tree.major, tree.minor, tree.patch + n, <<>>)
           stops == {n \in 0..(bound + 1) : n > bound \/ Patched(n) \notin stable}
<1>1. bound \in Nat /\ IsFiniteSet(stable)
    BY StablesFinite
<1>2. tree.major \in Nat /\ tree.minor \in Nat /\ tree.patch \in Nat
    BY DEF Versions
<1>3. \A n \in Nat : Patched(n) \in Versions /\ Patched(n).patch = tree.patch + n
                     /\ Patched(n).prerelease = <<>>
    BY <1>2 DEF Version, Versions
<1>4. \A n \in Nat : Patched(n) \in stable <=> Patched(n) \in tags
    BY <1>3, VersionAssumption DEF Stables, VersionAssumption
<1> HIDE DEF stable, bound
<1>5. stops \in SUBSET Nat /\ bound + 1 \in stops
    BY <1>1
<1>6. Min(stops) \in stops /\ \A n \in stops : Min(stops) <= n
    <2> HIDE DEF stops
    <2> QED  BY <1>5, MinIsLeast
<1>7. ResolveBase(tree, tags) = Patched(Min(stops))
    BY DEF ResolveBase, stable, bound
<1>8. PICK n \in 0..(bound + 1) : n = Min(stops)
    BY <1>6
<1>9. n > bound \/ Patched(n) \notin stable
    BY <1>6, <1>8
<1>10. \A k \in Nat : k < n => k <= bound /\ Patched(k) \in stable
    BY <1>1, <1>6, <1>8
<1>11. ASSUME n > bound PROVE FALSE
  <2>1. \A k \in 0..bound : Patched(k) \in stable
    BY <1>1, <1>10, <1>11
  <2> DEFINE f == [k \in 0..bound |-> Patched(k)]
  <2>2. f \in [0..bound -> stable]
    BY <2>1
  <2>3. IsFiniteSet(0..bound) /\ Cardinality(0..bound) = bound + 1
    BY <1>1, FS_Interval
  <2>4. Cardinality(stable) < Cardinality(0..bound)
    BY <1>1, <2>3 DEF bound
  <2>5. PICK x, y \in 0..bound : x # y /\ f[x] = f[y]
    <3> HIDE DEF f
    <3> QED  BY <1>1, <2>2, <2>3, <2>4, FS_PigeonHole
  <2>6. x \in Nat /\ y \in Nat /\ Patched(x) = Patched(y)
    BY <1>1, <2>5
  <2>7. tree.patch + x = tree.patch + y
    BY <1>3, <2>6
  <2> QED  BY <1>2, <2>5, <2>6, <2>7
<1>12. n \in Nat
    BY <1>1
<1>13. Patched(n) \notin tags /\ \A k \in Nat : k < n => Patched(k) \in tags
    BY <1>4, <1>9, <1>10, <1>11, <1>12
<1>14. ResolveBase(tree, tags) = Patched(n)
    BY <1>7, <1>8
<1> QED
    BY <1>12, <1>13, <1>14

\* The next ordinal is above all that were published on the base.
LEMMA OrdinalIsNext ==
    ASSUME NEW base, NEW tags \in SUBSET Tags, IsFiniteSet(tags)
    PROVE  /\ NextBetaOrdinal(base, tags) \in Nat
           /\ \A n \in Ordinals(base, tags) : n < NextBetaOrdinal(base, tags)
<1> DEFINE W == {w \in tags \ {NoVersion} :
                    /\ BaseOf(w) = base
                    /\ Len(w.prerelease) >= 2
                    /\ w.prerelease[1] = Name(Rank.beta) /\ w.prerelease[2].numeric}
           f == [w \in W |-> w.prerelease[2].value]
<1>1. Ordinals(base, tags) = {w.prerelease[2].value : w \in W}
    BY DEF Ordinals
<1>2. IsFiniteSet(W)
    BY FS_Subset
<1>3. \A w \in W : w.prerelease[2].value \in Nat
  <2> SUFFICES ASSUME NEW w \in W PROVE w.prerelease[2].value \in Nat
    OBVIOUS
  <2>1. w.prerelease \in Seq(Identifiers) /\ Len(w.prerelease) >= 2
    BY DEF Tags, Versions
  <2>2. w.prerelease[2] \in Identifiers
    BY <2>1
  <2> QED  BY <2>2 DEF Identifiers
<1>4. f \in Surjection(W, Ordinals(base, tags))
    BY <1>1 DEF Surjection
<1>5. IsFiniteSet(Ordinals(base, tags)) /\ Ordinals(base, tags) \in SUBSET Nat
  <2>1. Ordinals(base, tags) \in SUBSET Nat
    BY <1>1, <1>3
  <2> HIDE DEF f, W
  <2> QED  BY <1>2, <1>4, <2>1, FS_Surjection
<1>6. IsFiniteSet({0} \cup Ordinals(base, tags))
    BY <1>5, FS_AddElement
<1> DEFINE S == {0} \cup Ordinals(base, tags)
<1>7. Max(S) \in S /\ \A n \in S : n <= Max(S)
  <2>1. S \in SUBSET Nat /\ S # {} /\ IsFiniteSet(S)
    BY <1>5, <1>6
  <2> HIDE DEF S
  <2> QED  BY <2>1, MaxIsGreatest
<1> QED
    BY <1>5, <1>7 DEF NextBetaOrdinal

(***************************************************************************)
(* ReleaseVersions: precedence.                                            *)
(***************************************************************************)
\* The identifiers at the first place where two lists differ decide.
LEMMA FirstDifferenceDecides ==
    ASSUME NEW a \in Seq(Identifiers), NEW b \in Seq(Identifiers),
           NEW k \in DOMAIN a \cap DOMAIN b, a[k] # b[k],
           \A i \in DOMAIN a \cap DOMAIN b : i < k => a[i] = b[i]
    PROVE  CompareLists(a, b) = CompareIdentifiers(a[k], b[k])
<1> DEFINE differ == {i \in DOMAIN a \cap DOMAIN b : a[i] # b[i]}
<1>1. differ \in SUBSET Nat /\ k \in differ
    OBVIOUS
<1>2. Min(differ) \in differ /\ Min(differ) <= k
  <2> HIDE DEF differ
  <2> QED  BY <1>1, MinIsLeast
<1>3. Min(differ) = k
    BY <1>1, <1>2
<1> QED
    BY <1>1, <1>3 DEF CompareLists

\* A higher base is newer, whatever the prereleases are.
LowerBase(v, w) ==
    \/ v.major < w.major
    \/ v.major = w.major /\ v.minor < w.minor
    \/ v.major = w.major /\ v.minor = w.minor /\ v.patch < w.patch

LEMMA HigherBaseIsNewer ==
    ASSUME NEW v \in Versions, NEW w \in Versions, LowerBase(v, w)
    PROVE  IsNewer(v, w)
<1>1. v # NoVersion /\ w # NoVersion
    BY VersionAssumption DEF VersionAssumption
<1>2. /\ v.major \in Nat /\ v.minor \in Nat /\ v.patch \in Nat
      /\ w.major \in Nat /\ w.minor \in Nat /\ w.patch \in Nat
    BY DEF Versions
<1>3. CASE v.major < w.major
  <2>1. w.major # v.major /\ Sign(w.major, v.major) = 1
    BY <1>2, <1>3 DEF Sign
  <2> QED  BY <1>1, <2>1 DEF IsNewer, ComparePrecedence
<1>4. CASE v.major = w.major /\ v.minor < w.minor
  <2>1. w.minor # v.minor /\ Sign(w.minor, v.minor) = 1
    BY <1>2, <1>4 DEF Sign
  <2> QED  BY <1>1, <1>4, <2>1 DEF IsNewer, ComparePrecedence
<1>5. CASE v.major = w.major /\ v.minor = w.minor /\ v.patch < w.patch
  <2>1. w.patch # v.patch /\ Sign(w.patch, v.patch) = 1
    BY <1>2, <1>5 DEF Sign
  <2> QED  BY <1>1, <1>5, <2>1 DEF IsNewer, ComparePrecedence
<1> QED  BY <1>3, <1>4, <1>5 DEF LowerBase

\* On one base the prereleases decide.
LEMMA SameBaseDecides ==
    ASSUME NEW v \in Versions, NEW w \in Versions,
           v.major = w.major, v.minor = w.minor, v.patch = w.patch
    PROVE  IsNewer(v, w) <=> ComparePrerelease(w.prerelease, v.prerelease) > 0
BY VersionAssumption
DEF VersionAssumption, Versions, IsNewer, ComparePrecedence

LEMMA StableIsNewer ==
    ASSUME NEW v \in Versions, NEW w \in Versions, v.prerelease # <<>>, w = BaseOf(v)
    PROVE  IsNewer(v, w)
<1>1. /\ w.major = v.major /\ w.minor = v.minor /\ w.patch = v.patch
      /\ w.prerelease = <<>>
    BY DEF BaseOf, Version
<1> QED  BY <1>1, SameBaseDecides DEF ComparePrerelease

\* A later one of the prereleases of a channel.
LEMMA LaterBetaIsNewer ==
    ASSUME NEW x \in Nat, NEW m \in Nat, NEW n \in Nat, m < n
    PROVE  ComparePrerelease(<<Name(x), Numeric(n)>>, <<Name(x), Numeric(m)>>) > 0
<1> DEFINE a == <<Name(x), Numeric(n)>>
           b == <<Name(x), Numeric(m)>>
<1>1. a \in Seq(Identifiers) /\ b \in Seq(Identifiers) /\ a # <<>> /\ b # <<>>
    BY DEF Identifiers, Name, Numeric
<1>2. DOMAIN a = {1, 2} /\ DOMAIN b = {1, 2}
    OBVIOUS
<1>3. a[1] = b[1] /\ a[2] = Numeric(n) /\ b[2] = Numeric(m)
    OBVIOUS
<1>4. Numeric(n) # Numeric(m) /\ CompareIdentifiers(Numeric(n), Numeric(m)) = 1
    BY DEF Numeric, CompareIdentifiers, Sign
<1> HIDE DEF a, b
<1>5. CompareLists(a, b) = 1
    BY <1>1, <1>2, <1>3, <1>4, FirstDifferenceDecides
<1>6. ComparePrerelease(a, b) = CompareLists(a, b)
    BY <1>1 DEF ComparePrerelease
<1> QED  BY <1>5, <1>6 DEF a, b

LEMMA LaterRollingIsNewer ==
    ASSUME NEW x \in Nat, NEW d \in Nat, NEW e \in Nat, NEW q \in Nat, NEW r \in Nat,
           d <= e, q < r
    PROVE  ComparePrerelease(<<Name(x), Numeric(e), Numeric(r)>>,
                             <<Name(x), Numeric(d), Numeric(q)>>) > 0
<1> DEFINE a == <<Name(x), Numeric(e), Numeric(r)>>
           b == <<Name(x), Numeric(d), Numeric(q)>>
<1>1. a \in Seq(Identifiers) /\ b \in Seq(Identifiers) /\ a # <<>> /\ b # <<>>
    BY DEF Identifiers, Name, Numeric
<1>2. DOMAIN a = {1, 2, 3} /\ DOMAIN b = {1, 2, 3}
    OBVIOUS
<1>3. /\ a[1] = b[1] /\ a[2] = Numeric(e) /\ b[2] = Numeric(d)
      /\ a[3] = Numeric(r) /\ b[3] = Numeric(q)
    OBVIOUS
<1>4. Numeric(r) # Numeric(q) /\ CompareIdentifiers(Numeric(r), Numeric(q)) = 1
    BY DEF Numeric, CompareIdentifiers, Sign
<1>5. d < e => Numeric(e) # Numeric(d) /\ CompareIdentifiers(Numeric(e), Numeric(d)) = 1
    BY DEF Numeric, CompareIdentifiers, Sign
<1> HIDE DEF a, b
<1>6. ASSUME d < e PROVE CompareLists(a, b) = 1
  <2>1. a[2] # b[2] /\ CompareIdentifiers(a[2], b[2]) = 1
    BY <1>3, <1>5, <1>6
  <2>2. 2 \in DOMAIN a \cap DOMAIN b
        /\ \A i \in DOMAIN a \cap DOMAIN b : i < 2 => a[i] = b[i]
    BY <1>2, <1>3
  <2>3. CompareLists(a, b) = CompareIdentifiers(a[2], b[2])
    BY <1>1, <2>1, <2>2, FirstDifferenceDecides
  <2> QED  BY <2>1, <2>3
<1>7. ASSUME d = e PROVE CompareLists(a, b) = 1
  <2>1. a[2] = b[2] /\ a[3] # b[3]
    BY <1>3, <1>4, <1>7
  <2>2. 3 \in DOMAIN a \cap DOMAIN b
        /\ \A i \in DOMAIN a \cap DOMAIN b : i < 3 => a[i] = b[i]
    BY <1>2, <1>3, <2>1
  <2>3. CompareLists(a, b) = CompareIdentifiers(a[3], b[3])
    BY <1>1, <2>1, <2>2, FirstDifferenceDecides
  <2> QED  BY <1>3, <1>4, <2>3
<1>8. CompareLists(a, b) = 1
    BY <1>6, <1>7
<1>9. ComparePrerelease(a, b) = CompareLists(a, b)
    BY <1>1 DEF ComparePrerelease
<1> QED  BY <1>8, <1>9 DEF a, b

(***************************************************************************)
(* ReleaseVersions: the version of a release.                              *)
(***************************************************************************)
\* What is asked of the version of a release.
OnFirstFreeBase(v, channel, tree, tags, build, date) ==
    /\ v \in Versions
    /\ v.major = tree.major /\ v.minor = tree.minor
    /\ v.patch >= tree.patch
    /\ BaseOf(v) \notin tags
    /\ \A p \in tree.patch..(v.patch - 1) :
            Version(tree.major, tree.minor, p, <<>>) \in tags
    /\ channel = "stable" => v.prerelease = <<>>
    /\ channel = "beta" =>
            v.prerelease = <<Name(Rank.beta), Numeric(NextBetaOrdinal(BaseOf(v), tags))>>
    /\ channel \in {"nightly", "canary"} =>
            v.prerelease = <<Name(Rank[channel]), Numeric(date), Numeric(build)>>

LEMMA NextIsOnBase ==
    ASSUME NEW tree \in Versions, NEW tags \in SUBSET Tags, IsFiniteSet(tags),
           NEW channel \in Channels, NEW build \in Nat, NEW date \in Nat
    PROVE  OnFirstFreeBase(NextVersion(channel, tree, tags, build, date),
                           channel, tree, tags, build, date)
<1> DEFINE base == ResolveBase(tree, tags)
           beta == <<Name(Rank.beta), Numeric(NextBetaOrdinal(base, tags))>>
           rolling == <<Name(Rank[channel]), Numeric(date), Numeric(build)>>
           prerelease ==
              CASE channel = "stable" -> <<>>
                [] channel = "beta" -> beta
                [] OTHER -> rolling
<1> DEFINE v == NextVersion(channel, tree, tags, build, date)
<1>1. PICK n \in Nat :
            /\ base = Version(tree.major, tree.minor, tree.patch + n, <<>>)
            /\ Version(tree.major, tree.minor, tree.patch + n, <<>>) \notin tags
            /\ \A k \in Nat : k < n =>
                    Version(tree.major, tree.minor, tree.patch + k, <<>>) \in tags
    BY BaseIsFree
<1>2. tree.major \in Nat /\ tree.minor \in Nat /\ tree.patch \in Nat
    BY DEF Versions
<1>3. base.major = tree.major /\ base.minor = tree.minor /\ base.patch = tree.patch + n
    BY <1>1 DEF Version
<1>4. v = Version(base.major, base.minor, base.patch, prerelease)
    BY DEF NextVersion
<1>5. /\ v.major = tree.major /\ v.minor = tree.minor /\ v.patch = tree.patch + n
      /\ v.prerelease = prerelease
    BY <1>3, <1>4 DEF Version
<1>6. BaseOf(v) = base
    BY <1>1, <1>5 DEF BaseOf
<1>7. NextBetaOrdinal(base, tags) \in Nat
    BY OrdinalIsNext
<1>8. /\ channel = "stable" => prerelease = <<>>
      /\ channel = "beta" => prerelease = beta
      /\ channel \in {"nightly", "canary"} => prerelease = rolling
    OBVIOUS
<1>9. prerelease \in Seq(Identifiers)
  <2>1. beta \in Seq(Identifiers)
    BY <1>7 DEF Identifiers, Name, Numeric, Rank
  <2>2. ASSUME channel \in {"nightly", "canary"} PROVE rolling \in Seq(Identifiers)
    <3>1. Rank[channel] \in Nat
        BY <2>2 DEF Rank
    <3> QED  BY <3>1 DEF Identifiers, Name, Numeric
  <2>3. channel = "stable" \/ channel = "beta" \/ channel \in {"nightly", "canary"}
    BY DEF Channels
  <2>4. <<>> \in Seq(Identifiers)
    OBVIOUS
  <2> HIDE DEF beta, rolling, prerelease
  <2> QED  BY <1>8, <2>1, <2>2, <2>3, <2>4
<1> HIDE DEF prerelease, base, v
<1>10. v \in Versions
    BY <1>2, <1>3, <1>4, <1>9 DEF Version, Versions
<1>11. ASSUME NEW p \in tree.patch..(v.patch - 1)
       PROVE  Version(tree.major, tree.minor, p, <<>>) \in tags
  <2>1. PICK k \in Nat : p = tree.patch + k /\ k < n
    <3>1. p - tree.patch \in Nat /\ p - tree.patch < n /\ p = tree.patch + (p - tree.patch)
        BY <1>2, <1>5
    <3> QED  BY <3>1
  <2> QED  BY <1>1, <2>1
<1>12. OnFirstFreeBase(v, channel, tree, tags, build, date)
    BY <1>1, <1>2, <1>5, <1>6, <1>8, <1>10, <1>11 DEF OnFirstFreeBase
<1> QED
    BY <1>12 DEF v

(***************************************************************************)
(* ReleaseVersions: the inductive invariant.                               *)
(***************************************************************************)
VersionTypeOK ==
    /\ inTree \in Versions
    /\ published \in SUBSET Tags /\ IsFiniteSet(published)
    /\ day \in Nat /\ run \in Nat

\* What the runs made: rolling prereleases name a past date and an earlier run.
OwnPrerelease(p) ==
    \/ p = <<>>
    \/ \E n \in Nat : p = <<Name(Rank.beta), Numeric(n)>>
    \/ \E c \in {"nightly", "canary"}, d \in 0..day, r \in 0..run :
            p = <<Name(Rank[c]), Numeric(d), Numeric(r)>>

\* A base was reached over stables, or the tree has left it behind.
BaseReached(v) ==
    \/ v.major < inTree.major
    \/ v.major = inTree.major /\ v.minor < inTree.minor
    \/ /\ v.major = inTree.major /\ v.minor = inTree.minor
       /\ \A p \in inTree.patch..(v.patch - 1) :
                Version(v.major, v.minor, p, <<>>) \in published

OwnTags ==
    \A v \in published \ ForeignTags :
        v \in Versions /\ OwnPrerelease(v.prerelease) /\ BaseReached(v)

VersionInv == VersionTypeOK /\ OwnTags /\ ReleasesIncrease /\ BaseIsFirstFree

LEMMA InitVersion == VersionInit => VersionInv
<1> SUFFICES ASSUME VersionInit PROVE VersionInv
    OBVIOUS
<1>1. VersionTypeOK
    BY VersionAssumption, FS_EmptySet DEF VersionAssumption, VersionInit, VersionTypeOK
<1>2. OwnTags
    BY DEF VersionInit, OwnTags
<1>3. ReleasesIncrease /\ BaseIsFirstFree
    BY DEF VersionInit, ReleasesIncrease, BaseIsFirstFree
<1> QED  BY <1>1, <1>2, <1>3 DEF VersionInv

\* A release whose run lists every tag and has a new number is newer than all that
\* the runs of its channel have released.
LEMMA NewestOfItsChannel ==
    ASSUME VersionInv, NEW channel \in Channels,
           NEW v \in Versions,
           v = NextVersion(channel, inTree, published, run + 1, day),
           NEW w \in published \ {NoVersion},
           w \notin ForeignTags, IsOf(w, channel)
    PROVE  IsNewer(w, v)
<1>1. /\ inTree \in Versions /\ published \in SUBSET Tags /\ IsFiniteSet(published)
      /\ day \in Nat /\ run \in Nat /\ run + 1 \in Nat
    BY DEF VersionInv, VersionTypeOK
<1>2. /\ v.major = inTree.major /\ v.minor = inTree.minor
      /\ v.patch >= inTree.patch
      /\ BaseOf(v) \notin published
      /\ channel = "stable" => v.prerelease = <<>>
      /\ channel = "beta" =>
            v.prerelease =
                <<Name(Rank.beta), Numeric(NextBetaOrdinal(BaseOf(v), published))>>
      /\ channel \in {"nightly", "canary"} =>
            v.prerelease = <<Name(Rank[channel]), Numeric(day), Numeric(run + 1)>>
  <2>1. OnFirstFreeBase(v, channel, inTree, published, run + 1, day)
    BY <1>1, NextIsOnBase
  <2> QED  BY <2>1 DEF OnFirstFreeBase
<1>3. w \in Versions
    BY DEF VersionInv, OwnTags
<1>4. OwnPrerelease(w.prerelease) /\ BaseReached(w)
    BY DEF VersionInv, OwnTags
<1>5. /\ w.major \in Nat /\ w.minor \in Nat /\ w.patch \in Nat
      /\ v.major \in Nat /\ v.minor \in Nat /\ v.patch \in Nat
      /\ inTree.patch \in Nat
    BY <1>1, <1>3 DEF Versions
<1>6. LowerBase(w, v) \/ (w.major = v.major /\ w.minor = v.minor /\ w.patch = v.patch)
  <2>1. CASE w.major < inTree.major \/ (w.major = inTree.major /\ w.minor < inTree.minor)
    BY <1>2, <2>1 DEF LowerBase
  <2>2. CASE /\ w.major = inTree.major /\ w.minor = inTree.minor
             /\ \A p \in inTree.patch..(w.patch - 1) :
                    Version(w.major, w.minor, p, <<>>) \in published
    <3>1. ~(v.patch < w.patch)
      <4>1. ASSUME v.patch < w.patch
            PROVE  Version(w.major, w.minor, v.patch, <<>>) \in published
        <5>1. v.patch \in inTree.patch..(w.patch - 1)
            BY <1>2, <1>5, <4>1
        <5> QED  BY <2>2, <5>1
      <4> QED  BY <1>2, <2>2, <4>1 DEF BaseOf
    <3> QED  BY <1>2, <1>5, <2>2, <3>1 DEF LowerBase
  <2> QED  BY <1>4, <2>1, <2>2 DEF BaseReached
<1>7. CASE LowerBase(w, v)
    BY <1>3, <1>7, HigherBaseIsNewer
<1>8. CASE w.major = v.major /\ w.minor = v.minor /\ w.patch = v.patch
  <2>1. BaseOf(w) = BaseOf(v)
    BY <1>8 DEF BaseOf
  <2>2. w.prerelease # <<>>
    <3>1. w.prerelease = <<>> => w = BaseOf(w)
        BY <1>3 DEF Versions, BaseOf, Version
    <3> QED  BY <1>2, <2>1, <3>1
  <2>3. channel # "stable" /\ w.prerelease[1] = Name(Rank[channel])
    BY <2>2 DEF IsOf
  <2>4. ComparePrerelease(v.prerelease, w.prerelease) > 0
    <3>1. CASE \E n \in Nat : w.prerelease = <<Name(Rank.beta), Numeric(n)>>
      <4>1. PICK n \in Nat : w.prerelease = <<Name(Rank.beta), Numeric(n)>>
        BY <3>1
      <4>2. Name(Rank[channel]) = Name(Rank.beta)
        BY <2>3, <4>1
      <4>3. channel = "beta"
        BY <2>3, <4>2 DEF Channels, Rank, Name
      <4>4. n \in Ordinals(BaseOf(v), published)
        <5>1. Len(w.prerelease) = 2 /\ w.prerelease[1] = Name(Rank.beta)
            BY <4>1
        <5>2. w.prerelease[2] = Numeric(n)
            BY <4>1
        <5>3. w.prerelease[2].numeric /\ w.prerelease[2].value = n
            BY <5>2 DEF Numeric
        <5> QED  BY <2>1, <5>1, <5>3 DEF Ordinals
      <4>5. /\ NextBetaOrdinal(BaseOf(v), published) \in Nat
            /\ n < NextBetaOrdinal(BaseOf(v), published)
        BY <1>1, <4>4, OrdinalIsNext
      <4>6. Rank.beta \in Nat
        BY DEF Rank
      <4> QED  BY <1>2, <4>1, <4>3, <4>5, <4>6, LaterBetaIsNewer
    <3>2. CASE \E c \in {"nightly", "canary"}, d \in 0..day, r \in 0..run :
                    w.prerelease = <<Name(Rank[c]), Numeric(d), Numeric(r)>>
      <4>1. PICK c \in {"nightly", "canary"}, d \in 0..day, r \in 0..run :
                    w.prerelease = <<Name(Rank[c]), Numeric(d), Numeric(r)>>
        BY <3>2
      <4>2. Name(Rank[channel]) = Name(Rank[c])
        BY <2>3, <4>1
      <4>3. channel = c /\ Rank[c] \in Nat
        BY <2>3, <4>2 DEF Channels, Rank, Name
      <4>4. d \in Nat /\ r \in Nat /\ d <= day /\ r < run + 1
        BY <1>1
      <4>5. PICK x \in Nat : x = Rank[channel]
        BY <4>3
      <4>6. PICK build \in Nat : build = run + 1
        BY <1>1
      <4>7. /\ v.prerelease = <<Name(x), Numeric(day), Numeric(build)>>
            /\ w.prerelease = <<Name(x), Numeric(d), Numeric(r)>>
        BY <1>2, <4>1, <4>3, <4>5, <4>6
      <4> QED  BY <1>1, <4>4, <4>6, <4>7, LaterRollingIsNewer
    <3> QED  BY <1>4, <2>2, <3>1, <3>2 DEF OwnPrerelease
  <2> QED  BY <1>3, <1>8, <2>4, SameBaseDecides
<1> QED  BY <1>6, <1>7, <1>8

LEMMA ReleaseKeeps ==
    ASSUME VersionInv, NEW channel \in Channels, NEW number \in 1..(run + 1),
           NEW listed \in SUBSET published, Release(channel, number, listed)
    PROVE  VersionInv'
<1>1. /\ inTree \in Versions /\ published \in SUBSET Tags /\ IsFiniteSet(published)
      /\ day \in Nat /\ run \in Nat /\ number \in Nat
      /\ listed \in SUBSET Tags /\ IsFiniteSet(listed)
    BY FS_Subset DEF VersionInv, VersionTypeOK
<1>2. PICK v : v = NextVersion(channel, inTree, listed, number, day)
    OBVIOUS
<1>3. /\ v \in Versions
      /\ v.major = inTree.major /\ v.minor = inTree.minor
      /\ v.patch >= inTree.patch
      /\ BaseOf(v) \notin listed
      /\ \A p \in inTree.patch..(v.patch - 1) :
                Version(inTree.major, inTree.minor, p, <<>>) \in listed
      /\ channel = "stable" => v.prerelease = <<>>
      /\ channel = "beta" =>
            v.prerelease =
                <<Name(Rank.beta), Numeric(NextBetaOrdinal(BaseOf(v), listed))>>
      /\ channel \in {"nightly", "canary"} =>
            v.prerelease = <<Name(Rank[channel]), Numeric(day), Numeric(number)>>
  <2>1. OnFirstFreeBase(v, channel, inTree, listed, number, day)
    BY <1>1, <1>2, NextIsOnBase
  <2> QED  BY <2>1 DEF OnFirstFreeBase
<1>4. /\ run' = IF number > run THEN number ELSE run
      /\ published' = published \cup {v}
      /\ inTree' = inTree /\ day' = day
      /\ last' = [version |-> v, channel |-> channel, tree |-> inTree, first |-> number > run,
                  sighted |-> listed = published, before |-> published]
    BY <1>2 DEF Release
<1>10. run' \in Nat /\ run <= run' /\ number <= run'
    BY <1>1, <1>4
<1>5. VersionTypeOK'
    BY <1>1, <1>3, <1>4, <1>10, FS_AddElement DEF VersionTypeOK, Tags
<1>6. OwnTags'
  <2> SUFFICES ASSUME NEW w \in published' \ ForeignTags
               PROVE  w \in Versions /\ OwnPrerelease(w.prerelease)' /\ BaseReached(w)'
    BY DEF OwnTags
  <2>1. CASE w \in published
    <3>1. w \in Versions /\ OwnPrerelease(w.prerelease) /\ BaseReached(w)
        BY <2>1 DEF VersionInv, OwnTags
    <3>2. BaseReached(w)'
        BY <1>4, <3>1 DEF BaseReached
    <3>3. OwnPrerelease(w.prerelease)'
      <4>1. 0..run \subseteq 0..run'
        BY <1>1, <1>10
      <4> QED  BY <1>4, <3>1, <4>1 DEF OwnPrerelease
    <3> QED  BY <3>1, <3>2, <3>3
  <2>2. CASE w = v
    <3>1. BaseReached(v)'
        BY <1>3, <1>4 DEF BaseReached
    <3>2. OwnPrerelease(v.prerelease)'
      <4>1. NextBetaOrdinal(BaseOf(v), listed) \in Nat
        BY <1>1, OrdinalIsNext
      <4>2. day' \in 0..day' /\ number \in 0..run'
        BY <1>1, <1>4, <1>10
      <4>3. channel \in {"nightly", "canary"} =>
                v.prerelease = <<Name(Rank[channel]), Numeric(day'), Numeric(number)>>
        BY <1>3, <1>4
      <4> QED  BY <1>3, <4>1, <4>2, <4>3 DEF OwnPrerelease, Channels
    <3> QED  BY <1>3, <2>2, <3>1, <3>2
  <2> QED  BY <1>4, <2>1, <2>2
<1>7. /\ last'.version = v /\ last'.channel = channel /\ last'.tree = inTree
      /\ last'.sighted = (listed = published) /\ last'.before = published
      /\ last'.first = (number > run)
    BY <1>4
<1>8. ReleasesIncrease'
  <2> SUFFICES ASSUME listed = published, number > run,
                      NEW w \in published \ {NoVersion}, w \notin ForeignTags, IsOf(w, channel)
               PROVE  IsNewer(w, v)
    BY <1>7 DEF ReleasesIncrease
  <2>1. v = NextVersion(channel, inTree, published, run + 1, day)
    <3>1. number = run + 1
        BY <1>1
    <3> QED  BY <1>2, <3>1
  <2> QED  BY <1>3, <2>1, NewestOfItsChannel
<1>9. BaseIsFirstFree'
  <2> SUFFICES ASSUME listed = published
               PROVE  LET base == BaseOf(v)
                          taken == {w \in published \ {NoVersion} : IsOf(w, "stable")}
                      IN /\ base \notin taken
                         /\ base.major = inTree.major /\ base.minor = inTree.minor
                         /\ \A patch \in inTree.patch..(base.patch - 1) :
                                Version(base.major, base.minor, patch, <<>>) \in taken
    BY <1>7 DEF BaseIsFirstFree
  <2>1. /\ BaseOf(v).major = v.major /\ BaseOf(v).minor = v.minor
        /\ BaseOf(v).patch = v.patch
    BY DEF BaseOf, Version
  <2>2. ASSUME NEW p \in inTree.patch..(v.patch - 1)
        PROVE  Version(v.major, v.minor, p, <<>>) \in
                    {w \in published \ {NoVersion} : IsOf(w, "stable")}
    <3>1. Version(v.major, v.minor, p, <<>>) \in published
        BY <1>3
    <3>2. Version(v.major, v.minor, p, <<>>) \in Versions
        BY <1>1, <1>3 DEF Version, Versions
    <3>3. Version(v.major, v.minor, p, <<>>) # NoVersion
        BY <3>2, VersionAssumption DEF VersionAssumption
    <3>4. IsOf(Version(v.major, v.minor, p, <<>>), "stable")
        BY DEF IsOf, Version
    <3> QED  BY <3>1, <3>3, <3>4
  <2> QED  BY <1>3, <2>1, <2>2
<1> QED  BY <1>5, <1>6, <1>8, <1>9 DEF VersionInv

\* Nothing is said of the releases after the other steps.
LEMMA NoneLast ==
    ASSUME last' = NoVersion
    PROVE  ReleasesIncrease' /\ BaseIsFirstFree'
BY DEF ReleasesIncrease, BaseIsFirstFree

LEMMA ForeignTagKeeps ==
    ASSUME VersionInv, NEW tag \in ForeignTags, ForeignTag(tag)
    PROVE  VersionInv'
<1>1. published' = published \cup {tag}
      /\ inTree' = inTree /\ day' = day /\ run' = run /\ last' = NoVersion
    BY DEF ForeignTag
<1>2. VersionTypeOK'
    BY <1>1, VersionAssumption, FS_AddElement
    DEF VersionAssumption, VersionInv, VersionTypeOK, Tags
<1>3. OwnTags'
  <2> SUFFICES ASSUME NEW w \in published' \ ForeignTags
               PROVE  w \in Versions /\ OwnPrerelease(w.prerelease)' /\ BaseReached(w)'
    BY DEF OwnTags
  <2>1. w \in Versions /\ OwnPrerelease(w.prerelease) /\ BaseReached(w)
    BY <1>1 DEF VersionInv, OwnTags
  <2>2. BaseReached(w)'
    BY <1>1, <2>1 DEF BaseReached
  <2>3. OwnPrerelease(w.prerelease)'
    BY <1>1, <2>1 DEF OwnPrerelease
  <2> QED  BY <2>1, <2>2, <2>3
<1> QED  BY <1>1, <1>2, <1>3, NoneLast DEF VersionInv

LEMMA BumpKeeps ==
    ASSUME VersionInv, NEW version \in Bumps, Bump(version)
    PROVE  VersionInv'
<1>1. published' = published
      /\ inTree' = version /\ day' = day /\ run' = run /\ last' = NoVersion
    BY DEF Bump
<1>2. version \in Versions /\ version.prerelease = <<>>
    BY VersionAssumption DEF VersionAssumption
<1>3. VersionTypeOK'
    BY <1>1, <1>2 DEF VersionInv, VersionTypeOK
<1>4. inTree \in Versions
    BY DEF VersionInv, VersionTypeOK
<1>5. /\ version.major \in Nat /\ version.minor \in Nat /\ version.patch \in Nat
      /\ inTree.major \in Nat /\ inTree.minor \in Nat /\ inTree.patch \in Nat
    BY <1>2, <1>4 DEF Versions
<1>6. \/ inTree.major < version.major
      \/ inTree.major = version.major /\ inTree.minor < version.minor
      \/ /\ inTree.major = version.major /\ inTree.minor = version.minor
         /\ inTree.patch <= version.patch
  <2>1. ComparePrecedence(version, inTree) > 0
    BY DEF Bump, IsNewer
  <2>2. version # NoVersion /\ inTree # NoVersion
    BY <1>2, <1>4, VersionAssumption DEF VersionAssumption
  <2>3. CASE version.major # inTree.major
    <3>1. Sign(version.major, inTree.major) > 0
        BY <2>1, <2>2, <2>3 DEF ComparePrecedence
    <3> QED  BY <1>5, <2>3, <3>1 DEF Sign
  <2>4. CASE version.major = inTree.major /\ version.minor # inTree.minor
    <3>1. Sign(version.minor, inTree.minor) > 0
        BY <2>1, <2>2, <2>4 DEF ComparePrecedence
    <3> QED  BY <1>5, <2>4, <3>1 DEF Sign
  <2>5. CASE /\ version.major = inTree.major /\ version.minor = inTree.minor
             /\ version.patch # inTree.patch
    <3>1. Sign(version.patch, inTree.patch) > 0
        BY <2>1, <2>2, <2>5 DEF ComparePrecedence
    <3> QED  BY <1>5, <2>5, <3>1 DEF Sign
  <2>6. CASE /\ version.major = inTree.major /\ version.minor = inTree.minor
             /\ version.patch = inTree.patch
    BY <1>5, <2>6
  <2> QED  BY <2>3, <2>4, <2>5, <2>6
<1>7. OwnTags'
  <2> SUFFICES ASSUME NEW w \in published \ ForeignTags
               PROVE  w \in Versions /\ OwnPrerelease(w.prerelease)' /\ BaseReached(w)'
    BY <1>1 DEF OwnTags
  <2>1. w \in Versions /\ OwnPrerelease(w.prerelease) /\ BaseReached(w)
    BY DEF VersionInv, OwnTags
  <2>2. w.major \in Nat /\ w.minor \in Nat /\ w.patch \in Nat
    BY <2>1 DEF Versions
  <2>3. BaseReached(w)'
    <3>1. version.patch..(w.patch - 1) \subseteq inTree.patch..(w.patch - 1)
                \/ version.patch < inTree.patch
        BY <1>5, <2>2
    <3> QED  BY <1>1, <1>5, <1>6, <2>1, <2>2, <3>1 DEF BaseReached
  <2>4. OwnPrerelease(w.prerelease)'
    BY <1>1, <2>1 DEF OwnPrerelease
  <2> QED  BY <2>1, <2>3, <2>4
<1> QED  BY <1>1, <1>3, <1>7, NoneLast DEF VersionInv

LEMMA PruneKeeps ==
    ASSUME VersionInv, NEW tag \in published, Prune(tag)
    PROVE  VersionInv'
<1>1. published' = published \ {tag} /\ tag.prerelease # <<>>
      /\ inTree' = inTree /\ day' = day /\ run' = run /\ last' = NoVersion
    BY DEF Prune
<1>2. VersionTypeOK'
    BY <1>1, FS_Subset DEF VersionInv, VersionTypeOK
<1>3. OwnTags'
  <2> SUFFICES ASSUME NEW w \in published' \ ForeignTags
               PROVE  w \in Versions /\ OwnPrerelease(w.prerelease)' /\ BaseReached(w)'
    BY DEF OwnTags
  <2>1. w \in Versions /\ OwnPrerelease(w.prerelease) /\ BaseReached(w)
    BY <1>1 DEF VersionInv, OwnTags
  <2>2. \A p : Version(w.major, w.minor, p, <<>>) # tag
    BY <1>1 DEF Version
  <2>3. BaseReached(w)'
    BY <1>1, <2>1, <2>2 DEF BaseReached
  <2>4. OwnPrerelease(w.prerelease)'
    BY <1>1, <2>1 DEF OwnPrerelease
  <2> QED  BY <2>1, <2>3, <2>4
<1> QED  BY <1>1, <1>2, <1>3, NoneLast DEF VersionInv

LEMMA NextDayKeeps ==
    ASSUME VersionInv, NextDay
    PROVE  VersionInv'
<1>1. published' = published
      /\ inTree' = inTree /\ day' = day + 1 /\ run' = run /\ last' = NoVersion
    BY DEF NextDay
<1>2. VersionTypeOK'
    BY <1>1 DEF VersionInv, VersionTypeOK
<1>3. OwnTags'
  <2> SUFFICES ASSUME NEW w \in published \ ForeignTags
               PROVE  w \in Versions /\ OwnPrerelease(w.prerelease)' /\ BaseReached(w)'
    BY <1>1 DEF OwnTags
  <2>1. w \in Versions /\ OwnPrerelease(w.prerelease) /\ BaseReached(w)
    BY DEF VersionInv, OwnTags
  <2>2. BaseReached(w)'
    BY <1>1, <2>1 DEF BaseReached
  <2>3. 0..day \subseteq 0..(day + 1)
    BY DEF VersionInv, VersionTypeOK
  <2>4. OwnPrerelease(w.prerelease)'
    BY <1>1, <2>1, <2>3 DEF OwnPrerelease
  <2> QED  BY <2>1, <2>2, <2>4
<1> QED  BY <1>1, <1>2, <1>3, NoneLast DEF VersionInv

LEMMA NextVersionInv == VersionInv /\ [VersionNext]_versionVars => VersionInv'
<1> SUFFICES ASSUME VersionInv, [VersionNext]_versionVars PROVE VersionInv'
    OBVIOUS
<1>1. ASSUME NEW channel \in Channels, NEW number \in 1..(run + 1),
             NEW listed \in SUBSET published, Release(channel, number, listed)
      PROVE  VersionInv'
    BY <1>1, ReleaseKeeps
<1>2. ASSUME NEW tag \in ForeignTags, ForeignTag(tag) PROVE VersionInv'
    BY <1>2, ForeignTagKeeps
<1>3. ASSUME NEW version \in Bumps, Bump(version) PROVE VersionInv'
    BY <1>3, BumpKeeps
<1>4. ASSUME NEW tag \in published, Prune(tag) PROVE VersionInv'
    BY <1>4, PruneKeeps
<1>5. CASE NextDay
    BY <1>5, NextDayKeeps
<1>6. CASE UNCHANGED versionVars
    BY <1>6
    DEF versionVars, VersionInv, VersionTypeOK, OwnTags, OwnPrerelease, BaseReached,
        ReleasesIncrease, BaseIsFirstFree
<1> QED  BY <1>1, <1>2, <1>3, <1>4, <1>5, <1>6 DEF VersionNext

\* Precedence alone orders a prerelease below its stable.
LEMMA PrereleasesBelow == VersionInv => BelowItsStable
<1> SUFFICES ASSUME VersionInv, NEW v \in published \ {NoVersion},
                    NEW s \in published \ {NoVersion},
                    v.prerelease # <<>>, s = BaseOf(v)
             PROVE  IsNewer(v, s)
    BY DEF BelowItsStable
<1>1. v \in Versions /\ s \in Versions
    BY DEF VersionInv, VersionTypeOK, Tags
<1> QED  BY <1>1, StableIsNewer

\* A new run that saw all tags releases a version newer than all its channel has
\* released, prereleases are older than the stable they lead to, and a release is
\* on the first free base, whatever runs, re-runs, days, bumps and tags of others,
\* stables among them, came before (next-version.mjs:24-46).
THEOREM VersionsOrderedCorrect == VersionSpec => []VersionsOrdered
<1>1. VersionInv => VersionsOrdered
    BY PrereleasesBelow DEF VersionInv, VersionsOrdered
<1> QED
    BY <1>1, InitVersion, NextVersionInv, PTL DEF VersionSpec

(***************************************************************************)
(* ReleaseNotes: the size of a batch.                                      *)
(***************************************************************************)
\* The sizes of the descriptions of a batch, one after the other.
InBatch(b, sizes) == [i \in 1 .. Len(b) |-> sizes[b[i]]]

LEMMA InBatchIs ==
    ASSUME NEW D, NEW sizes \in [D -> Nat], NEW b \in Seq(D)
    PROVE  \A i \in 1 .. Len(b) : InBatch(b, sizes)[i] = sizes[b[i]] /\ InBatch(b, sizes)[i] \in Nat
<1> TAKE i \in 1 .. Len(b)
<1>1. b[i] \in D
  OBVIOUS
<1> QED BY <1>1 DEF InBatch

LEMMA SumBytesIs ==
    ASSUME NEW D, NEW sizes \in [D -> Nat], NEW b \in Seq(D)
    PROVE  \E f : Sums(InBatch(b, sizes), Len(b), f) /\ SumBytes(b, sizes) = f[Len(b)]
<1> DEFINE Follows(f) == f = [n \in 0 .. Len(b) |-> IF n = 0 THEN 0 ELSE f[n - 1] + sizes[b[n]]]
           sum == CHOOSE f : Follows(f)
<1>1. \A f : Sums(InBatch(b, sizes), Len(b), f) <=> Follows(f)
  <2>1. \A i \in 0 .. Len(b) : i # 0 => InBatch(b, sizes)[i] = sizes[b[i]]
    <3> TAKE i \in 0 .. Len(b)
    <3>1. i # 0 => i \in 1 .. Len(b)
      OBVIOUS
    <3> QED BY <3>1, InBatchIs
  <2> QED BY <2>1 DEF Sums
<1>2. SumBytes(b, sizes) = sum[Len(b)]
  BY DEF SumBytes
<1> HIDE DEF Follows
<1>3. \E f : Follows(f)
  <2>1. Len(b) \in Nat
    OBVIOUS
  <2>2. \E f : Sums(InBatch(b, sizes), Len(b), f)
    BY <2>1, InBatchIs, SumIsDefined
  <2> QED BY <1>1, <2>2
<1>4. Follows(sum)
  BY <1>3
<1> QED BY <1>1, <1>2, <1>4

LEMMA SumBytesGrows ==
    ASSUME NEW D, NEW sizes \in [D -> Nat], NEW b \in Seq(D), NEW i \in D
    PROVE  /\ SumBytes(b, sizes) \in Nat
           /\ SumBytes(Append(b, i), sizes) = SumBytes(b, sizes) + sizes[i]
<1> DEFINE c == Append(b, i)
           k == Len(b)
<1>1. c \in Seq(D) /\ Len(c) = k + 1 /\ c[k + 1] = i /\ k \in Nat
  OBVIOUS
<1>2. \A j \in 1 .. k : c[j] = b[j]
  OBVIOUS
<1> HIDE DEF c, k
<1>3. PICK e : Sums(InBatch(b, sizes), k, e) /\ SumBytes(b, sizes) = e[k]
  BY SumBytesIs DEF k
<1>4. PICK f : Sums(InBatch(c, sizes), k + 1, f) /\ SumBytes(c, sizes) = f[k + 1]
  BY <1>1, SumBytesIs
<1>5. \A j \in 1 .. k + 1 : InBatch(c, sizes)[j] = sizes[c[j]] /\ InBatch(c, sizes)[j] \in Nat
  BY <1>1, InBatchIs
<1>6. IsPart(InBatch(b, sizes), k, InBatch(c, sizes), 0)
  <2> SUFFICES ASSUME NEW j \in 1 .. k
               PROVE  InBatch(b, sizes)[j] = InBatch(c, sizes)[0 + j]
    BY DEF IsPart
  <2>1. j \in 1 .. k + 1 /\ 0 + j = j /\ j \in 1 .. Len(b)
    BY <1>1 DEF k
  <2>2. InBatch(b, sizes)[j] = sizes[b[j]]
    BY <2>1, InBatchIs
  <2>3. InBatch(c, sizes)[j] = sizes[c[j]]
    BY <1>5, <2>1
  <2> QED BY <1>2, <2>1, <2>2, <2>3
<1>7. /\ f[0] = 0 /\ \A j \in 0 .. k + 1 : f[j] \in Nat
      /\ \A j \in 1 .. k + 1 : f[j] = f[j - 1] + InBatch(c, sizes)[j]
  BY <1>1, <1>4, <1>5, SumIsNatural
<1>8. \A j \in 0 .. k : f[0 + j] = f[0] + e[j]
  <2>1. k + 1 \in Nat /\ 0 \in Nat /\ 0 + k <= k + 1
    BY <1>1
  <2>2. AreNaturals(InBatch(c, sizes), k + 1)
    BY <1>5 DEF AreNaturals
  <2> QED BY <1>1, <1>3, <1>4, <1>6, <2>1, <2>2, SumOfPart
<1>9. \A j \in 1 .. k : InBatch(b, sizes)[j] \in Nat
  BY InBatchIs DEF k
<1>10. e[k] \in Nat
  <2>1. k \in 0 .. k
    BY <1>1
  <2> QED BY <1>1, <1>3, <1>9, <2>1, SumIsNatural
<1>11. f[k] = e[k]
  BY <1>1, <1>7, <1>8, <1>10
<1>12. f[k + 1] = f[k] + sizes[i]
  <2>1. k + 1 \in 1 .. k + 1 /\ (k + 1) - 1 = k
    BY <1>1
  <2> QED BY <1>1, <1>5, <1>7, <2>1
<1> QED BY <1>3, <1>4, <1>10, <1>11, <1>12 DEF c

\* A part of a batch is not larger than the batch.
LEMMA PartIsSmaller ==
    ASSUME NEW D, NEW sizes \in [D -> Nat], NEW b \in Seq(D), NEW c \in Seq(D),
           NEW o \in Nat, o + Len(c) <= Len(b), \A i \in 1 .. Len(c) : c[i] = b[o + i]
    PROVE  SumBytes(c, sizes) <= SumBytes(b, sizes)
<1>1. PICK n \in Nat, k \in Nat : n = Len(b) /\ k = Len(c) /\ o + k <= n
  OBVIOUS
<1>2. PICK f : Sums(InBatch(b, sizes), n, f) /\ SumBytes(b, sizes) = f[n]
  BY <1>1, SumBytesIs
<1>3. PICK e : Sums(InBatch(c, sizes), k, e) /\ SumBytes(c, sizes) = e[k]
  BY <1>1, SumBytesIs
<1>4. /\ \A i \in 1 .. n : InBatch(b, sizes)[i] = sizes[b[i]] /\ InBatch(b, sizes)[i] \in Nat
      /\ \A i \in 1 .. k : InBatch(c, sizes)[i] = sizes[c[i]] /\ InBatch(c, sizes)[i] \in Nat
  BY <1>1, InBatchIs
<1>5. IsPart(InBatch(c, sizes), k, InBatch(b, sizes), o)
  <2> SUFFICES ASSUME NEW i \in 1 .. k
               PROVE  InBatch(c, sizes)[i] = InBatch(b, sizes)[o + i]
    BY DEF IsPart
  <2>1. PICK j \in 1 .. n : j = o + i
    BY <1>1
  <2>2. InBatch(c, sizes)[i] = sizes[c[i]] /\ InBatch(b, sizes)[j] = sizes[b[j]]
    BY <1>4
  <2>3. c[i] = b[j]
    BY <1>1, <2>1
  <2> QED BY <2>1, <2>2, <2>3
<1>6. f[o + k] = f[o] + e[k]
  <2>1. \A i \in 0 .. k : f[o + i] = f[o] + e[i]
    <3>1. AreNaturals(InBatch(b, sizes), n)
      BY <1>4 DEF AreNaturals
    <3> QED BY <1>1, <1>2, <1>3, <1>5, <3>1, SumOfPart
  <2> QED BY <1>1, <2>1
<1>7. f[o + k] <= f[n]
  <2>1. o + k \in 0 .. n /\ n \in o + k .. n
    BY <1>1
  <2>2. \A i \in o + k .. n : f[o + k] <= f[i]
    BY <1>1, <1>2, <1>4, <2>1, SumGrows
  <2> QED BY <2>1, <2>2
<1>8. f[o] \in Nat /\ e[k] \in Nat /\ f[n] \in Nat
  <2>1. o \in 0 .. n /\ n \in 0 .. n /\ k \in 0 .. k
    BY <1>1
  <2> QED BY <1>1, <1>2, <1>3, <1>4, <2>1, SumIsNatural
<1> QED BY <1>2, <1>3, <1>6, <1>7, <1>8

(***************************************************************************)
(* ReleaseNotes: batches.                                                  *)
(***************************************************************************)
AllFit(sizes) == \A i \in 1 .. N : sizes[i] <= BatchBytes

IsBatch(b, sizes) ==
    /\ b \in Seq(1 .. N) /\ b # <<>> /\ Len(b) <= BatchSize
    /\ IsInjective(b)
    /\ AllFit(sizes) => SumBytes(b, sizes) <= BatchBytes

\* The batches of q divide S among them.
Parts(q, S, sizes) ==
    /\ q \in Seq(Seq(1 .. N))
    /\ \A j \in 1 .. Len(q) : IsBatch(q[j], sizes) /\ ToSet(q[j]) \subseteq S
    /\ \A i, j \in 1 .. Len(q) : i # j => ToSet(q[i]) \cap ToSet(q[j]) = {}
    /\ \A x \in S : \E j \in 1 .. Len(q) : x \in ToSet(q[j])

LEMMA BatchGrows ==
    ASSUME NEW sizes \in [1 .. N -> Nat], NEW b \in Seq(1 .. N), NEW i \in 1 .. N,
           i \notin ToSet(b), IsInjective(b), Len(b) < BatchSize, BatchSize \in Nat,
           AllFit(sizes) => SumBytes(b, sizes) + sizes[i] <= BatchBytes
    PROVE  IsBatch(Append(b, i), sizes) /\ ToSet(Append(b, i)) = ToSet(b) \cup {i}
<1> DEFINE c == Append(b, i)
           k == Len(b)
<1>1. /\ c \in Seq(1 .. N) /\ k \in Nat /\ Len(c) = k + 1 /\ c[k + 1] = i
      /\ \A j \in 1 .. k : c[j] = b[j]
  <2>1. PICK D : D = 1 .. N
    OBVIOUS
  <2>2. b \in Seq(D) /\ i \in D
    BY <2>1
  <2>3. c \in Seq(D) /\ k \in Nat /\ Len(c) = k + 1 /\ c[k + 1] = i
    BY <2>2
  <2>4. \A j \in 1 .. k : c[j] = b[j]
    BY <2>2
  <2> QED BY <2>1, <2>3, <2>4
<1>0. DOMAIN c = 1 .. k + 1 /\ DOMAIN b = 1 .. k
  BY <1>1
<1> HIDE DEF c, k
<1>2. ToSet(c) = ToSet(b) \cup {i}
  BY <1>0, <1>1 DEF ToSet
<1>3. IsInjective(c)
  <2>1. \A j \in 1 .. k : b[j] # i
    BY <1>0 DEF ToSet
  <2>2. \A x, y \in 1 .. k : b[x] = b[y] => x = y
    BY <1>0 DEF IsInjective
  <2>3. ASSUME NEW x \in 1 .. k + 1, NEW y \in 1 .. k + 1, c[x] = c[y] PROVE x = y
    <3>1. (x \in 1 .. k \/ x = k + 1) /\ (y \in 1 .. k \/ y = k + 1)
      BY <1>1
    <3> QED BY <1>1, <2>1, <2>2, <2>3, <3>1
  <2> QED BY <1>0, <2>3 DEF IsInjective
<1>4. AllFit(sizes) => SumBytes(c, sizes) <= BatchBytes
  <2>1. PICK D : D = 1 .. N
    OBVIOUS
  <2>2. sizes \in [D -> Nat] /\ b \in Seq(D) /\ i \in D
    BY <2>1
  <2>3. SumBytes(Append(b, i), sizes) = SumBytes(b, sizes) + sizes[i]
    BY <2>2, SumBytesGrows
  <2> QED BY <2>3 DEF c
<1>5. c # <<>> /\ Len(c) <= BatchSize
  BY <1>1 DEF k
<1> QED BY <1>1, <1>2, <1>3, <1>4, <1>5 DEF IsBatch, c

LEMMA NoBytes ==
    ASSUME NEW D, NEW sizes \in [D -> Nat]
    PROVE  SumBytes(<<>>, sizes) = 0
<1>1. <<>> \in Seq(D) /\ Len(<<>>) = 0
  OBVIOUS
<1>2. PICK f : Sums(InBatch(<<>>, sizes), 0, f) /\ SumBytes(<<>>, sizes) = f[0]
  BY <1>1, SumBytesIs
<1> QED BY <1>2 DEF Sums

LEMMA OneIsBatch ==
    ASSUME NEW sizes \in [1 .. N -> Nat], NEW i \in 1 .. N, BatchSize \in Nat \ {0}
    PROVE  IsBatch(<<i>>, sizes) /\ ToSet(<<i>>) = {i}
<1>1. <<>> \in Seq(1 .. N) /\ Len(<<>>) = 0 /\ DOMAIN <<>> = {}
  OBVIOUS
<1>2. i \notin ToSet(<<>>) /\ IsInjective(<<>>) /\ ToSet(<<>>) = {}
  BY <1>1 DEF ToSet, IsInjective
<1>3. AllFit(sizes) => SumBytes(<<>>, sizes) + sizes[i] <= BatchBytes
  <2>1. SumBytes(<<>>, sizes) = 0 /\ sizes[i] \in Nat
    BY NoBytes
  <2> QED BY <2>1 DEF AllFit
<1>4. Append(<<>>, i) = <<i>>
  OBVIOUS
<1>5. PICK e \in Seq(1 .. N) :
        /\ e = <<>> /\ i \notin ToSet(e) /\ IsInjective(e) /\ Len(e) < BatchSize
        /\ AllFit(sizes) => SumBytes(e, sizes) + sizes[i] <= BatchBytes
  <2>1. PICK e \in Seq(1 .. N) : e = <<>>
    BY <1>1
  <2>2. Len(e) < BatchSize
    BY <1>1, <2>1
  <2>3. i \notin ToSet(e) /\ IsInjective(e)
    BY <1>2, <2>1
  <2>4. AllFit(sizes) => SumBytes(e, sizes) + sizes[i] <= BatchBytes
    BY <1>3, <2>1
  <2> QED BY <2>1, <2>2, <2>3, <2>4
<1>6. IsBatch(Append(e, i), sizes) /\ ToSet(Append(e, i)) = ToSet(e) \cup {i}
  BY <1>5, BatchGrows
<1> QED BY <1>2, <1>4, <1>5, <1>6

\* Another element, at the end or in the place of the last.
LEMMA AppendIs ==
    ASSUME NEW D, NEW q \in Seq(D), NEW c \in D
    PROVE  /\ Append(q, c) \in Seq(D) /\ Len(Append(q, c)) = Len(q) + 1
           /\ Append(q, c)[Len(q) + 1] = c /\ \A j \in 1 .. Len(q) : Append(q, c)[j] = q[j]
<1>1. Append(q, c) \in Seq(D) /\ Len(Append(q, c)) = Len(q) + 1
  OBVIOUS
<1>2. Append(q, c)[Len(q) + 1] = c
  OBVIOUS
<1>3. \A j \in 1 .. Len(q) : Append(q, c)[j] = q[j]
  OBVIOUS
<1> QED BY <1>1, <1>2, <1>3

LEMMA ReplaceLast ==
    ASSUME NEW D, NEW q \in Seq(D), q # <<>>, NEW c \in D
    PROVE  /\ Len(q) \in Nat \ {0}
           /\ Front(q) \o <<c>> \in Seq(D) /\ Len(Front(q) \o <<c>>) = Len(q)
           /\ (Front(q) \o <<c>>)[Len(q)] = c
           /\ \A j \in 1 .. Len(q) - 1 : (Front(q) \o <<c>>)[j] = q[j]
<1>1. PICK l \in Nat : l = Len(q) - 1 /\ Len(q) = l + 1
  BY EmptySeq
<1>2. PICK f \in Seq(D) : f = Front(q) /\ Len(f) = l /\ \A j \in 1 .. l : f[j] = q[j]
  <2>1. SubSeq(q, 1, l) \in Seq(D) /\ Len(SubSeq(q, 1, l)) = l
    BY <1>1, SubSeqProperties
  <2>2. \A j \in 1 .. l : SubSeq(q, 1, l)[j] = q[j]
    BY <1>1, SubSeqProperties
  <2>3. Front(q) = SubSeq(q, 1, l)
    BY <1>1 DEF Front
  <2> QED BY <2>1, <2>2, <2>3
<1>3. f \o <<c>> = Append(f, c)
  OBVIOUS
<1> QED BY <1>1, <1>2, <1>3, AppendIs

\* A description more: it joins the last batch or begins one.
LEMMA AddedParts ==
    ASSUME NEW sizes \in [1 .. N -> Nat], BatchSize \in Nat \ {0},
           NEW r, NEW S \in SUBSET (1 .. N), Parts(r, S, sizes), NEW i \in (1 .. N) \ S
    PROVE  Parts(Added(r, i, sizes), S \cup {i}, sizes)
<1> DEFINE L == Len(r)
<1>1. /\ r \in Seq(Seq(1 .. N)) /\ L \in Nat /\ \A j \in 1 .. L : r[j] \in Seq(1 .. N)
      /\ \A j \in 1 .. L : IsBatch(r[j], sizes) /\ ToSet(r[j]) \subseteq S
      /\ \A j, k \in 1 .. L : j # k => ToSet(r[j]) \cap ToSet(r[k]) = {}
      /\ \A x \in S : \E j \in 1 .. L : x \in ToSet(r[j])
  <2>1. r \in Seq(Seq(1 .. N)) /\ L \in Nat
    BY DEF Parts
  <2>2. PICK D : D = Seq(1 .. N)
    OBVIOUS
  <2>3. \A j \in 1 .. L : r[j] \in D
    BY <2>1, <2>2
  <2> QED BY <2>1, <2>2, <2>3 DEF Parts
<1>2. CASE Fits(r, i, sizes)
  <2>1. L \in 1 .. L /\ Last(r) = r[L]
    <3>1. r # <<>>
      BY <1>2 DEF Fits
    <3> QED BY <1>1, <3>1, EmptySeq DEF Last
  <2>2. PICK b \in Seq(1 .. N) : b = r[L]
    BY <1>1, <2>1
  <2>3. IsBatch(Append(b, i), sizes) /\ ToSet(Append(b, i)) = ToSet(b) \cup {i} /\ Append(b, i) \in Seq(1 .. N)
    <3>1. i \notin ToSet(b) /\ IsInjective(b)
      BY <1>1, <2>1, <2>2 DEF IsBatch
    <3>2. Len(b) < BatchSize /\ SumBytes(b, sizes) + sizes[i] <= BatchBytes
      BY <1>2, <2>1, <2>2 DEF Fits
    <3>3. IsBatch(Append(b, i), sizes) /\ ToSet(Append(b, i)) = ToSet(b) \cup {i}
      BY <3>1, <3>2, BatchGrows
    <3> QED BY <3>3 DEF IsBatch
  <2>4. PICK c \in Seq(1 .. N) : c = Append(b, i)
    BY <2>3
  <2>5. PICK D : D = Seq(1 .. N)
    OBVIOUS
  <2>6. PICK q \in Seq(D) :
          /\ q = Front(r) \o <<c>>
          /\ Len(q) = L /\ q[L] = c /\ \A j \in 1 .. L - 1 : q[j] = r[j]
    <3>1. r \in Seq(D) /\ r # <<>> /\ c \in D
      BY <1>1, <1>2, <2>5 DEF Fits
    <3> DEFINE f == Front(r) \o <<c>>
    <3>2. /\ f \in Seq(D) /\ Len(f) = Len(r) /\ f[Len(r)] = c
          /\ \A j \in 1 .. Len(r) - 1 : f[j] = r[j]
      BY <3>1, ReplaceLast
    <3> HIDE DEF f
    <3> f \in Seq(D)
      BY <3>2
    <3> WITNESS f \in Seq(D)
    <3> QED BY <3>2 DEF f
  <2>7. Added(r, i, sizes) = q
    BY <1>2, <2>1, <2>2, <2>4, <2>6 DEF Added
  <2> HIDE DEF L
  <2>8. \A j \in 1 .. L : j = L \/ j \in 1 .. L - 1
    BY <1>1
  <2>9. ASSUME NEW j \in 1 .. L
        PROVE  IsBatch(q[j], sizes) /\ ToSet(q[j]) = ToSet(r[j]) \cup IF j = L THEN {i} ELSE {}
    <3>1. CASE j = L
      BY <2>2, <2>3, <2>4, <2>6, <3>1
    <3>2. CASE j # L
      <4>1. j \in 1 .. L - 1
        BY <2>8, <3>2
      <4>2. q[j] = r[j]
        BY <2>6, <4>1
      <4> QED BY <1>1, <3>2, <4>2
    <3> QED BY <3>1, <3>2
  <2>10. ASSUME NEW j \in 1 .. L, NEW k \in 1 .. L, j # k PROVE ToSet(q[j]) \cap ToSet(q[k]) = {}
    <3>1. ToSet(r[j]) \cap ToSet(r[k]) = {} /\ i \notin ToSet(r[j]) /\ i \notin ToSet(r[k])
      BY <1>1, <2>10
    <3>2. ~(j = L /\ k = L)
      BY <2>10
    <3>3. /\ ToSet(q[j]) = ToSet(r[j]) \cup IF j = L THEN {i} ELSE {}
          /\ ToSet(q[k]) = ToSet(r[k]) \cup IF k = L THEN {i} ELSE {}
      BY <2>9
    <3> QED BY <3>1, <3>2, <3>3
  <2>11. ASSUME NEW x \in S \cup {i} PROVE \E j \in 1 .. L : x \in ToSet(q[j])
    BY <1>1, <2>1, <2>9
  <2>12. ASSUME NEW j \in 1 .. L PROVE ToSet(q[j]) \subseteq S \cup {i}
    BY <1>1, <2>9
  <2>13. q \in Seq(Seq(1 .. N)) /\ Len(q) = L
    BY <2>5, <2>6
  <2> QED BY <2>7, <2>9, <2>10, <2>11, <2>12, <2>13 DEF Parts
<1>3. CASE ~Fits(r, i, sizes)
  <2>1. IsBatch(<<i>>, sizes) /\ ToSet(<<i>>) = {i} /\ <<i>> \in Seq(1 .. N)
    BY OneIsBatch
  <2>2. PICK c \in Seq(1 .. N) : c = <<i>>
    BY <2>1
  <2>3. PICK D : D = Seq(1 .. N)
    OBVIOUS
  <2>4. PICK q \in Seq(D) :
          /\ q = Append(r, c)
          /\ Len(q) = L + 1 /\ q[L + 1] = c /\ \A j \in 1 .. L : q[j] = r[j]
    <3>1. r \in Seq(D) /\ c \in D
      BY <1>1, <2>3
    <3> DEFINE f == Append(r, c)
    <3>2. /\ f \in Seq(D) /\ Len(f) = Len(r) + 1 /\ f[Len(r) + 1] = c
          /\ \A j \in 1 .. Len(r) : f[j] = r[j]
      BY <3>1, AppendIs
    <3> HIDE DEF f
    <3> f \in Seq(D)
      BY <3>2
    <3> WITNESS f \in Seq(D)
    <3> QED BY <3>2 DEF f
  <2>5. Added(r, i, sizes) = q
    BY <1>3, <2>2, <2>4 DEF Added
  <2> HIDE DEF L
  <2>6. \A j \in 1 .. L + 1 : j = L + 1 \/ j \in 1 .. L
    BY <1>1
  <2>7. ASSUME NEW j \in 1 .. L + 1
        PROVE  IsBatch(q[j], sizes) /\ ToSet(q[j]) = IF j = L + 1 THEN {i} ELSE ToSet(r[j])
    BY <2>1, <2>2, <2>4, <2>6, <1>1
  <2>8. ASSUME NEW j \in 1 .. L + 1, NEW k \in 1 .. L + 1, j # k
        PROVE  ToSet(q[j]) \cap ToSet(q[k]) = {}
    <3>1. /\ ToSet(q[j]) = IF j = L + 1 THEN {i} ELSE ToSet(r[j])
          /\ ToSet(q[k]) = IF k = L + 1 THEN {i} ELSE ToSet(r[k])
      BY <2>7
    <3>2. /\ j \in 1 .. L => ToSet(r[j]) \subseteq S
          /\ k \in 1 .. L => ToSet(r[k]) \subseteq S
          /\ j \in 1 .. L /\ k \in 1 .. L => ToSet(r[j]) \cap ToSet(r[k]) = {}
      BY <1>1, <2>8
    <3> QED BY <2>6, <2>8, <3>1, <3>2
  <2>9. ASSUME NEW x \in S \cup {i} PROVE \E j \in 1 .. L + 1 : x \in ToSet(q[j])
    <3>1. L + 1 \in 1 .. L + 1 /\ \A j \in 1 .. L : j \in 1 .. L + 1 /\ j # L + 1
      BY <1>1
    <3> QED BY <1>1, <2>7, <3>1
  <2>10. ASSUME NEW j \in 1 .. L + 1 PROVE ToSet(q[j]) \subseteq S \cup {i}
    BY <1>1, <2>6, <2>7
  <2>11. q \in Seq(Seq(1 .. N)) /\ Len(q) = L + 1
    BY <2>3, <2>4
  <2> QED BY <2>5, <2>7, <2>8, <2>9, <2>10, <2>11 DEF Parts
<1> QED BY <1>2, <1>3

LEMMA NoParts ==
    ASSUME NEW sizes
    PROVE  Parts(<<>>, {}, sizes)
<1>1. <<>> \in Seq(Seq(1 .. N)) /\ Len(<<>>) = 0
  OBVIOUS
<1> QED BY <1>1 DEF Parts

\* batches divides all descriptions.
LEMMA BatchesParts ==
    ASSUME NEW sizes \in [1 .. N -> Nat], BatchSize \in Nat \ {0}, N \in Nat
    PROVE  Parts(Batches(sizes), 1 .. N, sizes)
<1> DEFINE Results(i) == {r \in Seq(Seq(1 .. N)) : Parts(r, 1 .. i, sizes)}
           add == [i \in 0 .. N |-> [r \in Results(i) |-> Added(r, i + 1, sizes)]]
           kept == [i \in 0 .. N |-> Results(i)]
           Follows(f) == f = [n \in 0 .. N |-> IF n = 0 THEN <<>> ELSE Added(f[n - 1], n, sizes)]
           made == CHOOSE f : Follows(f)
<1>1. Batches(sizes) = made[N]
  BY DEF Batches
<1>2. ASSUME NEW i \in 0 .. N - 1, NEW r \in Results(i) PROVE Added(r, i + 1, sizes) \in Results(i + 1)
  <2>1. 1 .. i \in SUBSET (1 .. N) /\ i + 1 \in (1 .. N) \ (1 .. i)
    OBVIOUS
  <2>2. (1 .. i) \cup {i + 1} = 1 .. i + 1
    OBVIOUS
  <2>3. Parts(Added(r, i + 1, sizes), (1 .. i) \cup {i + 1}, sizes)
    BY <2>1, AddedParts
  <2>4. Parts(Added(r, i + 1, sizes), 1 .. i + 1, sizes)
    BY <2>2, <2>3
  <2> QED BY <2>4 DEF Parts
<1>3. <<>> \in Results(0)
  <2>1. 1 .. 0 = {}
    OBVIOUS
  <2> QED BY <2>1, NoParts DEF Parts
<1> HIDE DEF Results
<1>4. \E f : Follows(f)
  <2>1. PICK f : Rounds(<<>>, add, N, f)
    <3> HIDE DEF add
    <3> QED BY LoopIsDefined
  <2>2. \A i \in 0 .. N - 1 : \A r \in kept[i] : add[i][r] = Added(r, i + 1, sizes) /\ add[i][r] \in kept[i + 1]
    <3> TAKE i \in 0 .. N - 1
    <3>1. i \in 0 .. N /\ i + 1 \in 0 .. N
      OBVIOUS
    <3>2. kept[i] = Results(i) /\ kept[i + 1] = Results(i + 1)
      BY <3>1
    <3> TAKE r \in kept[i]
    <3>3. add[i][r] = Added(r, i + 1, sizes)
      BY <3>1, <3>2
    <3> QED BY <1>2, <3>2, <3>3
  <2>3. <<>> \in kept[0]
    BY <1>3
  <2> HIDE DEF add, kept
  <2>4. \A i \in 0 .. N : f[i] \in kept[i]
    BY <2>1, <2>2, <2>3, LoopKeeps
  <2>5. \A n \in 0 .. N : n # 0 => add[n - 1][f[n - 1]] = Added(f[n - 1], n, sizes)
    <3> TAKE n \in 0 .. N
    <3> HAVE n # 0
    <3>1. PICK i \in 0 .. N - 1 : i = n - 1 /\ i + 1 = n
      OBVIOUS
    <3>2. f[i] \in kept[i]
      BY <2>4
    <3> QED BY <2>2, <3>1, <3>2
  <2>6. f = [n \in 0 .. N |-> IF n = 0 THEN <<>> ELSE add[n - 1][f[n - 1]]]
    BY <2>1 DEF Rounds
  <2>7. \A n \in 0 .. N : (IF n = 0 THEN <<>> ELSE add[n - 1][f[n - 1]])
                          = (IF n = 0 THEN <<>> ELSE Added(f[n - 1], n, sizes))
    BY <2>5
  <2>8. Follows(f)
    BY <2>6, <2>7, Zenon
  <2> HIDE DEF Follows
  <2> QED BY <2>8
<1> HIDE DEF Follows
<1>5. Follows(made)
  BY <1>4
<1> HIDE DEF made
<1>6. \A n \in 0 .. N : made[n] = IF n = 0 THEN <<>> ELSE Added(made[n - 1], n, sizes)
  BY <1>5 DEF Follows
<1> DEFINE Odd == {n \in 0 .. N : made[n] \notin Results(n)}
<1>7. ASSUME Odd # {} PROVE FALSE
  <2>1. PICK n \in Odd : \A k \in Odd : n <= k
    <3>1. Odd \in SUBSET Nat
      OBVIOUS
    <3> QED BY <1>7, <3>1, LeastNatural
  <2>2. n \in 0 .. N /\ made[n] \notin Results(n)
    OBVIOUS
  <2>3. n # 0
    BY <1>3, <1>6, <2>2
  <2>4. PICK i \in 0 .. N - 1 : i = n - 1 /\ i + 1 = n /\ i \notin Odd
    BY <2>1, <2>2, <2>3
  <2>5. made[i] \in Results(i)
    BY <2>4
  <2>6. Added(made[i], i + 1, sizes) \in Results(i + 1)
    BY <1>2, <2>5
  <2>7. made[n] = Added(made[i], n, sizes)
    BY <1>6, <2>2, <2>3, <2>4
  <2> QED BY <2>2, <2>4, <2>6, <2>7
<1>8. made[N] \in Results(N)
  BY <1>7
<1> QED BY <1>1, <1>8 DEF Results

\* A batch reviewed.
LEMMA TailParts ==
    ASSUME NEW sizes, NEW q, NEW S, Parts(q, S, sizes), q # <<>>
    PROVE  Parts(Tail(q), S \ ToSet(Head(q)), sizes) /\ Len(Tail(q)) = Len(q) - 1
<1>1. PICK D : D = Seq(1 .. N)
  OBVIOUS
<1>2. q \in Seq(D) /\ q # <<>>
  BY <1>1 DEF Parts
<1>3. PICK l \in Nat : Len(q) = l + 1 /\ l = Len(q) - 1
  BY <1>2, EmptySeq
<1>4. PICK t \in Seq(D) : t = Tail(q) /\ Len(t) = l /\ \A j \in 1 .. l : t[j] = q[j + 1]
  <2>1. Tail(q) \in Seq(D) /\ Len(Tail(q)) = l
    BY <1>2, <1>3
  <2>2. \A j \in 1 .. l : Tail(q)[j] = q[j + 1]
    BY <1>2, <1>3
  <2> QED BY <2>1, <2>2
<1>5. Head(q) = q[1] /\ 1 \in 1 .. l + 1 /\ \A j \in 1 .. l : j + 1 \in 1 .. l + 1 /\ j + 1 # 1
  BY <1>2, <1>3
<1>6. /\ \A j \in 1 .. l + 1 : IsBatch(q[j], sizes) /\ ToSet(q[j]) \subseteq S
      /\ \A i, j \in 1 .. l + 1 : i # j => ToSet(q[i]) \cap ToSet(q[j]) = {}
      /\ \A x \in S : \E j \in 1 .. l + 1 : x \in ToSet(q[j])
  BY <1>3 DEF Parts
<1>7. ASSUME NEW j \in 1 .. l PROVE IsBatch(t[j], sizes) /\ ToSet(t[j]) \subseteq S \ ToSet(Head(q))
  BY <1>4, <1>5, <1>6
<1>8. ASSUME NEW i \in 1 .. l, NEW j \in 1 .. l, i # j PROVE ToSet(t[i]) \cap ToSet(t[j]) = {}
  <2>1. i + 1 # j + 1 /\ i + 1 \in 1 .. l + 1 /\ j + 1 \in 1 .. l + 1
    BY <1>8
  <2> QED BY <1>4, <1>6, <2>1
<1>9. ASSUME NEW x \in S \ ToSet(Head(q)) PROVE \E j \in 1 .. l : x \in ToSet(t[j])
  <2>1. PICK k \in 1 .. l + 1 : x \in ToSet(q[k])
    BY <1>6
  <2>2. k # 1
    BY <1>5, <2>1
  <2>3. PICK j \in 1 .. l : k = j + 1
    BY <2>2
  <2> QED BY <1>4, <2>1, <2>3
<1>10. t \in Seq(Seq(1 .. N))
  BY <1>1
<1> QED BY <1>3, <1>4, <1>7, <1>8, <1>9, <1>10 DEF Parts

\* The part of a batch between two places.
Between(b, o, e) == SubSeq(b, o + 1, e)

LEMMA PartIsBatch ==
    ASSUME NEW sizes \in [1 .. N -> Nat], BatchSize \in Nat, BatchBytes \in Nat, NEW b, IsBatch(b, sizes),
           NEW o \in Nat, NEW e \in Nat, o < e, e <= Len(b)
    PROVE  /\ IsBatch(Between(b, o, e), sizes)
           /\ ToSet(Between(b, o, e)) = {b[i] : i \in o + 1 .. e}
<1>1. PICK D : D = 1 .. N
  OBVIOUS
<1>2. b \in Seq(D) /\ Len(b) \in Nat
  BY <1>1 DEF IsBatch
<1>3. PICK k \in Nat \ {0} : k = e - o /\ o + k = e
  OBVIOUS
<1>4. PICK c \in Seq(D) :
        /\ c = Between(b, o, e) /\ Len(c) = k /\ DOMAIN c = 1 .. k
        /\ \A i \in 1 .. k : c[i] = b[o + i]
  <2>1. SubSeq(b, o + 1, e) \in Seq(D) /\ Len(SubSeq(b, o + 1, e)) = k
    BY <1>2, <1>3, SubSeqProperties
  <2>2. \A i \in 1 .. k : SubSeq(b, o + 1, e)[i] = b[o + i]
    BY <1>2, <1>3
  <2>3. DOMAIN SubSeq(b, o + 1, e) = 1 .. k
    BY <2>1
  <2> QED BY <2>1, <2>2, <2>3 DEF Between
<1>5. \A i \in 1 .. k : o + i \in o + 1 .. e /\ o + i \in DOMAIN b
  BY <1>2, <1>3
<1>6. ToSet(c) = {b[i] : i \in o + 1 .. e}
  <2>1. \A i \in o + 1 .. e : i - o \in 1 .. k /\ o + (i - o) = i
    BY <1>3
  <2>2. \A x \in ToSet(c) : x \in {b[i] : i \in o + 1 .. e}
    <3> TAKE x \in ToSet(c)
    <3>1. PICK i \in 1 .. k : x = c[i]
      BY <1>4 DEF ToSet
    <3>2. PICK h \in o + 1 .. e : h = o + i
      BY <1>5
    <3>3. x = b[h]
      BY <1>4, <3>1, <3>2
    <3> QED BY <3>3
  <2>3. \A i \in o + 1 .. e : b[i] \in ToSet(c)
    <3> TAKE i \in o + 1 .. e
    <3>1. PICK h \in 1 .. k : o + h = i
      BY <2>1
    <3> QED BY <1>4, <3>1 DEF ToSet
  <2> QED BY <2>2, <2>3
<1>7. IsInjective(c)
  <2>1. \A x, y \in DOMAIN b : b[x] = b[y] => x = y
    BY DEF IsBatch, IsInjective
  <2>2. ASSUME NEW x \in 1 .. k, NEW y \in 1 .. k, c[x] = c[y] PROVE x = y
    <3>1. o + x = o + y
      BY <1>4, <1>5, <2>1, <2>2
    <3> QED BY <3>1
  <2> QED BY <1>4, <2>2 DEF IsInjective
<1>8. AllFit(sizes) => SumBytes(c, sizes) <= BatchBytes
  <2>1. SumBytes(c, sizes) <= SumBytes(b, sizes)
    BY <1>1, <1>2, <1>3, <1>4, PartIsSmaller
  <2>2. SumBytes(c, sizes) \in Nat /\ SumBytes(b, sizes) \in Nat
    <3>1. PICK i \in D : TRUE
      <4>1. 1 \in 1 .. Len(b)
        BY <1>2, <1>3
      <4> QED BY <1>2, <4>1
    <3> QED BY <1>1, <1>2, <3>1, SumBytesGrows
  <2> QED BY <2>1, <2>2 DEF IsBatch
<1>9. c # <<>> /\ Len(c) <= BatchSize
  <2>1. Len(b) <= BatchSize
    BY DEF IsBatch
  <2> QED BY <1>2, <1>3, <1>4, <2>1
<1> QED BY <1>1, <1>4, <1>6, <1>7, <1>8, <1>9 DEF IsBatch

\* The halves of a batch are batches, and share it.
LEMMA HalvesAreBatches ==
    ASSUME NEW sizes \in [1 .. N -> Nat], BatchSize \in Nat, BatchBytes \in Nat, NEW b, IsBatch(b, sizes),
           Len(b) >= 2
    PROVE  \E x, y \in Seq(1 .. N) :
              /\ Halves(b) = <<x, y>> /\ IsBatch(x, sizes) /\ IsBatch(y, sizes)
              /\ ToSet(x) \cap ToSet(y) = {} /\ ToSet(b) = ToSet(x) \cup ToSet(y)
<1>1. b \in Seq(1 .. N) /\ Len(b) \in Nat /\ DOMAIN b = 1 .. Len(b)
  BY DEF IsBatch
<1>2. PICK m \in Nat : m = (Len(b) + 1) \div 2 /\ 0 < m /\ m < Len(b)
  BY <1>1
<1>3. Halves(b) = <<SubSeq(b, 1, m), SubSeq(b, m + 1, Len(b))>>
  BY <1>2 DEF Halves
<1>4. /\ IsBatch(SubSeq(b, 1, m), sizes) /\ ToSet(SubSeq(b, 1, m)) = {b[i] : i \in 1 .. m}
  <2>1. PICK o \in Nat : o = 0 /\ o < m /\ m <= Len(b)
    BY <1>1, <1>2
  <2>2. /\ IsBatch(Between(b, o, m), sizes) /\ ToSet(Between(b, o, m)) = {b[i] : i \in o + 1 .. m}
    BY <1>2, <2>1, PartIsBatch
  <2>3. o + 1 = 1
    BY <2>1
  <2>4. Between(b, o, m) = SubSeq(b, 1, m)
    BY <2>3 DEF Between
  <2> QED BY <2>2, <2>3, <2>4
<1>5. /\ IsBatch(SubSeq(b, m + 1, Len(b)), sizes)
      /\ ToSet(SubSeq(b, m + 1, Len(b))) = {b[i] : i \in m + 1 .. Len(b)}
  <2>1. PICK n \in Nat : n = Len(b)
    BY <1>1
  <2>2. m \in Nat /\ m < n /\ n <= Len(b)
    BY <1>2, <2>1
  <2>3. /\ IsBatch(Between(b, m, n), sizes)
        /\ ToSet(Between(b, m, n)) = {b[i] : i \in m + 1 .. n}
    BY <2>2, PartIsBatch
  <2> QED BY <2>1, <2>3 DEF Between
<1> DEFINE x == SubSeq(b, 1, m)
           y == SubSeq(b, m + 1, Len(b))
<1> HIDE DEF x, y
<1>6. IsBatch(x, sizes) /\ IsBatch(y, sizes) /\ Halves(b) = <<x, y>>
  BY <1>3, <1>4, <1>5 DEF x, y
<1>7. ToSet(x) \cap ToSet(y) = {}
  <2>1. \A i, j \in 1 .. Len(b) : b[i] = b[j] => i = j
    BY <1>1 DEF IsBatch, IsInjective
  <2>2. ASSUME NEW i \in 1 .. m, NEW j \in m + 1 .. Len(b) PROVE b[i] # b[j]
    <3>1. i \in 1 .. Len(b) /\ j \in 1 .. Len(b) /\ i # j
      BY <1>1, <1>2
    <3> QED BY <2>1, <3>1
  <2> QED BY <1>4, <1>5, <2>2 DEF x, y
<1>8. ToSet(b) = ToSet(x) \cup ToSet(y)
  <2>1. 1 .. Len(b) = (1 .. m) \cup (m + 1 .. Len(b))
    BY <1>1, <1>2
  <2>2. ToSet(b) = {b[i] : i \in 1 .. Len(b)}
    BY <1>1 DEF ToSet
  <2> QED BY <1>4, <1>5, <2>1, <2>2 DEF x, y
<1>9. x \in Seq(1 .. N) /\ y \in Seq(1 .. N)
  BY <1>6 DEF IsBatch
<1> QED BY <1>6, <1>7, <1>8, <1>9

\* Two elements in the place of the first.
LEMMA TwoForTheFirst ==
    ASSUME NEW D, NEW q \in Seq(D), q # <<>>, NEW x \in D, NEW y \in D
    PROVE  /\ <<x, y>> \o Tail(q) \in Seq(D) /\ Len(<<x, y>> \o Tail(q)) = Len(q) + 1
           /\ (<<x, y>> \o Tail(q))[1] = x /\ (<<x, y>> \o Tail(q))[2] = y
           /\ \A j \in 2 .. Len(q) : (<<x, y>> \o Tail(q))[j + 1] = q[j]
<1>1. PICK l \in Nat : Len(q) = l + 1
  BY EmptySeq
<1>2. PICK t \in Seq(D) : t = Tail(q) /\ Len(t) = l /\ \A j \in 1 .. l : t[j] = q[j + 1]
  <2>1. Tail(q) \in Seq(D) /\ Len(Tail(q)) = l
    BY <1>1
  <2>2. \A j \in 1 .. l : Tail(q)[j] = q[j + 1]
    BY <1>1
  <2> QED BY <2>1, <2>2
<1>3. PICK p \in Seq(D) : p = <<x, y>> /\ Len(p) = 2 /\ p[1] = x /\ p[2] = y
  <2>1. <<x, y>> \in Seq(D)
    OBVIOUS
  <2>2. Len(<<x, y>>) = 2 /\ <<x, y>>[1] = x /\ <<x, y>>[2] = y
    OBVIOUS
  <2> QED BY <2>1, <2>2
<1>4. p \o t \in Seq(D) /\ Len(p \o t) = l + 2
  BY <1>2, <1>3, ConcatProperties
<1>5. \A i \in 1 .. l + 2 : (p \o t)[i] = IF i <= 2 THEN p[i] ELSE t[i - 2]
  BY <1>2, <1>3, ConcatProperties
<1>6. (p \o t)[1] = x /\ (p \o t)[2] = y
  BY <1>3, <1>5
<1>7. ASSUME NEW j \in 2 .. l + 1 PROVE (p \o t)[j + 1] = q[j]
  <2>1. PICK i \in 1 .. l : i = j - 1 /\ i + 1 = j
    OBVIOUS
  <2>2. j + 1 \in 1 .. l + 2 /\ ~(j + 1 <= 2) /\ (j + 1) - 2 = i
    BY <2>1
  <2> QED BY <1>2, <1>5, <2>1, <2>2
<1> QED BY <1>1, <1>2, <1>3, <1>4, <1>6, <1>7

\* A batch split.
LEMMA SplitParts ==
    ASSUME NEW sizes \in [1 .. N -> Nat], BatchSize \in Nat, BatchBytes \in Nat,
           NEW q, NEW S, Parts(q, S, sizes), q # <<>>, Len(Head(q)) >= 2
    PROVE  /\ Parts(Halves(Head(q)) \o Tail(q), S, sizes)
           /\ Len(Halves(Head(q)) \o Tail(q)) = Len(q) + 1
<1>1. PICK D : D = Seq(1 .. N)
  OBVIOUS
<1>2. q \in Seq(D) /\ q # <<>>
  BY <1>1 DEF Parts
<1>3. PICK l \in Nat \ {0} : Len(q) = l
  BY <1>2, EmptySeq
<1>4. /\ \A j \in 1 .. l : IsBatch(q[j], sizes) /\ ToSet(q[j]) \subseteq S
      /\ \A i, j \in 1 .. l : i # j => ToSet(q[i]) \cap ToSet(q[j]) = {}
      /\ \A z \in S : \E j \in 1 .. l : z \in ToSet(q[j])
  BY <1>3 DEF Parts
<1>5. Head(q) = q[1] /\ 1 \in 1 .. l
  BY <1>2, <1>3
<1>6. PICK x \in D, y \in D :
        /\ Halves(q[1]) = <<x, y>> /\ IsBatch(x, sizes) /\ IsBatch(y, sizes)
        /\ ToSet(x) \cap ToSet(y) = {} /\ ToSet(q[1]) = ToSet(x) \cup ToSet(y)
  BY <1>1, <1>4, <1>5, HalvesAreBatches
<1>7. PICK r \in Seq(D) :
        /\ r = Halves(Head(q)) \o Tail(q) /\ Len(r) = l + 1 /\ r[1] = x /\ r[2] = y
        /\ \A j \in 2 .. l : r[j + 1] = q[j]
  <2> DEFINE r == <<x, y>> \o Tail(q)
  <2>1. /\ r \in Seq(D) /\ Len(r) = Len(q) + 1 /\ r[1] = x /\ r[2] = y
        /\ \A j \in 2 .. Len(q) : r[j + 1] = q[j]
    BY <1>2, <1>6, TwoForTheFirst
  <2>2. r = Halves(Head(q)) \o Tail(q)
    BY <1>5, <1>6
  <2> HIDE DEF r
  <2> QED BY <1>3, <2>1, <2>2
<1>8. \A i \in 1 .. l + 1 : i = 1 \/ i = 2 \/ \E j \in 2 .. l : i = j + 1 /\ j \in 1 .. l
  <2> TAKE i \in 1 .. l + 1
  <2>1. i # 1 /\ i # 2 => i - 1 \in 2 .. l /\ i = (i - 1) + 1 /\ i - 1 \in 1 .. l
    OBVIOUS
  <2> QED BY <2>1
<1>9. \A j \in 2 .. l : ToSet(q[j]) \cap ToSet(q[1]) = {}
  <2> TAKE j \in 2 .. l
  <2>1. j \in 1 .. l /\ j # 1
    OBVIOUS
  <2> QED BY <1>4, <1>5, <2>1
<1>10. ASSUME NEW i \in 1 .. l + 1 PROVE IsBatch(r[i], sizes) /\ ToSet(r[i]) \subseteq S
  <2>1. CASE i = 1 \/ i = 2
    BY <1>4, <1>5, <1>6, <1>7, <2>1
  <2>2. CASE \E j \in 2 .. l : i = j + 1 /\ j \in 1 .. l
    BY <1>4, <1>7, <2>2
  <2> QED BY <1>8, <2>1, <2>2
<1>11. ASSUME NEW i \in 1 .. l + 1, NEW k \in 1 .. l + 1, i # k
       PROVE  ToSet(r[i]) \cap ToSet(r[k]) = {}
  <2>1. ASSUME NEW f \in {1, 2}, NEW j \in 2 .. l
        PROVE  ToSet(r[f]) \cap ToSet(q[j]) = {}
    <3>1. ToSet(q[j]) \cap ToSet(q[1]) = {} /\ ToSet(q[1]) = ToSet(x) \cup ToSet(y)
      BY <1>6, <1>9
    <3>2. r[f] = x \/ r[f] = y
      BY <1>7
    <3> QED BY <3>1, <3>2
  <2>2. CASE i \in {1, 2} /\ k \in {1, 2}
    <3>1. (i = 1 /\ k = 2) \/ (i = 2 /\ k = 1)
      BY <1>11, <2>2
    <3>2. r[1] = x /\ r[2] = y /\ ToSet(x) \cap ToSet(y) = {}
      BY <1>6, <1>7
    <3>3. ToSet(r[1]) \cap ToSet(r[2]) = {} /\ ToSet(r[2]) \cap ToSet(r[1]) = {}
      BY <3>2
    <3> QED BY <3>1, <3>3
  <2>3. CASE i \in {1, 2} /\ k \notin {1, 2}
    <3>1. PICK j \in 2 .. l : k = j + 1
      BY <1>8, <2>3
    <3>2. r[k] = q[j]
      BY <1>7, <3>1
    <3> QED BY <2>1, <2>3, <3>2
  <2>4. CASE i \notin {1, 2} /\ k \in {1, 2}
    <3>1. PICK j \in 2 .. l : i = j + 1
      BY <1>8, <2>4
    <3>2. r[i] = q[j]
      BY <1>7, <3>1
    <3> QED BY <2>1, <2>4, <3>2
  <2>5. CASE i \notin {1, 2} /\ k \notin {1, 2}
    <3>1. PICK j \in 2 .. l : i = j + 1 /\ j \in 1 .. l
      BY <1>8, <2>5
    <3>2. PICK h \in 2 .. l : k = h + 1 /\ h \in 1 .. l
      BY <1>8, <2>5
    <3>3. j # h
      BY <1>11, <3>1, <3>2
    <3>4. r[i] = q[j] /\ r[k] = q[h]
      BY <1>7, <3>1, <3>2
    <3>5. ToSet(q[j]) \cap ToSet(q[h]) = {}
      BY <1>4, <3>1, <3>2, <3>3
    <3> QED BY <3>4, <3>5
  <2> QED BY <2>2, <2>3, <2>4, <2>5
<1>12. ASSUME NEW z \in S PROVE \E i \in 1 .. l + 1 : z \in ToSet(r[i])
  <2>1. PICK j \in 1 .. l : z \in ToSet(q[j])
    BY <1>4
  <2>2. CASE j = 1
    <3>1. 1 \in 1 .. l + 1 /\ 2 \in 1 .. l + 1
      BY <1>3
    <3> QED BY <1>6, <1>7, <2>1, <2>2, <3>1
  <2>3. CASE j # 1
    <3>1. j \in 2 .. l /\ j + 1 \in 1 .. l + 1
      BY <2>3
    <3> QED BY <1>7, <2>1, <3>1
  <2> QED BY <2>2, <2>3
<1>13. r \in Seq(Seq(1 .. N))
  BY <1>1
<1> QED BY <1>3, <1>7, <1>10, <1>11, <1>12, <1>13 DEF Parts

\* Two sequences without a common element, one after the other.
LEMMA JoinIs ==
    ASSUME NEW D, NEW a \in Seq(D), NEW b \in Seq(D), IsInjective(a), IsInjective(b),
           ToSet(a) \cap ToSet(b) = {}
    PROVE  /\ a \o b \in Seq(D) /\ Len(a \o b) = Len(a) + Len(b)
           /\ IsInjective(a \o b) /\ ToSet(a \o b) = ToSet(a) \cup ToSet(b)
<1>1. PICK m \in Nat, n \in Nat :
        m = Len(a) /\ n = Len(b) /\ DOMAIN a = 1 .. m /\ DOMAIN b = 1 .. n
  OBVIOUS
<1>2. PICK c \in Seq(D) :
        /\ c = a \o b /\ Len(c) = m + n /\ DOMAIN c = 1 .. m + n
        /\ \A i \in 1 .. m + n : c[i] = IF i <= m THEN a[i] ELSE b[i - m]
  <2>1. /\ a \o b \in Seq(D) /\ Len(a \o b) = m + n
        /\ \A i \in 1 .. m + n : (a \o b)[i] = IF i <= m THEN a[i] ELSE b[i - m]
    BY <1>1, ConcatProperties
  <2>2. DOMAIN (a \o b) = 1 .. m + n
    BY <2>1
  <2> QED BY <2>1, <2>2
<1>3. \A i \in 1 .. m : i \in 1 .. m + n /\ c[i] = a[i]
  BY <1>2
<1>4. \A j \in 1 .. n : m + j \in 1 .. m + n /\ c[m + j] = b[j]
  <2> TAKE j \in 1 .. n
  <2>1. m + j \in 1 .. m + n /\ ~(m + j <= m) /\ (m + j) - m = j
    BY <1>1
  <2> QED BY <1>2, <2>1
<1>5. \A i \in 1 .. m + n : i \in 1 .. m \/ \E j \in 1 .. n : i = m + j
  <2> TAKE i \in 1 .. m + n
  <2>1. ~(i <= m) => i - m \in 1 .. n /\ i = m + (i - m)
    OBVIOUS
  <2> QED BY <2>1
<1>6. /\ \A i \in 1 .. m : a[i] \in ToSet(a)
      /\ \A j \in 1 .. n : b[j] \in ToSet(b)
      /\ \A i \in 1 .. m, j \in 1 .. n : a[i] # b[j]
  BY <1>1 DEF ToSet
<1>7. IsInjective(c)
  <2>1. /\ \A i, k \in 1 .. m : a[i] = a[k] => i = k
        /\ \A i, k \in 1 .. n : b[i] = b[k] => i = k
    BY <1>1 DEF IsInjective
  <2>2. ASSUME NEW i \in 1 .. m + n, NEW k \in 1 .. m + n, c[i] = c[k] PROVE i = k
    <3>1. CASE i \in 1 .. m /\ k \in 1 .. m
      BY <1>3, <2>1, <2>2, <3>1
    <3>2. CASE i \in 1 .. m /\ k \notin 1 .. m
      <4>1. PICK j \in 1 .. n : k = m + j
        BY <1>5, <3>2
      <4> QED BY <1>3, <1>4, <1>6, <2>2, <3>2, <4>1
    <3>3. CASE i \notin 1 .. m /\ k \in 1 .. m
      <4>1. PICK j \in 1 .. n : i = m + j
        BY <1>5, <3>3
      <4> QED BY <1>3, <1>4, <1>6, <2>2, <3>3, <4>1
    <3>4. CASE i \notin 1 .. m /\ k \notin 1 .. m
      <4>1. PICK j \in 1 .. n, h \in 1 .. n : i = m + j /\ k = m + h
        BY <1>5, <3>4
      <4>2. c[i] = b[j] /\ c[k] = b[h]
        BY <1>4, <4>1
      <4>3. j = h
        BY <2>1, <2>2, <4>2
      <4> QED BY <4>1, <4>3
    <3> QED BY <3>1, <3>2, <3>3, <3>4
  <2> QED BY <1>2, <2>2 DEF IsInjective
<1>8. ToSet(c) = ToSet(a) \cup ToSet(b)
  <2>1. /\ \A x : x \in ToSet(a) <=> \E i \in 1 .. m : x = a[i]
        /\ \A x : x \in ToSet(b) <=> \E j \in 1 .. n : x = b[j]
        /\ \A x : x \in ToSet(c) <=> \E i \in 1 .. m + n : x = c[i]
    BY <1>1, <1>2 DEF ToSet
  <2>2. ASSUME NEW x \in ToSet(c) PROVE x \in ToSet(a) \cup ToSet(b)
    <3>1. PICK i \in 1 .. m + n : x = c[i]
      BY <2>1
    <3>2. CASE i \in 1 .. m
      BY <1>3, <1>6, <3>1, <3>2
    <3>3. CASE i \notin 1 .. m
      <4>1. PICK j \in 1 .. n : i = m + j
        BY <1>5, <3>3
      <4> QED BY <1>4, <1>6, <3>1, <4>1
    <3> QED BY <3>2, <3>3
  <2>3. ASSUME NEW x \in ToSet(a) PROVE x \in ToSet(c)
    BY <1>3, <2>1
  <2>4. ASSUME NEW x \in ToSet(b) PROVE x \in ToSet(c)
    <3>1. PICK j \in 1 .. n : x = b[j]
      BY <2>1
    <3>2. m + j \in 1 .. m + n /\ x = c[m + j]
      BY <1>4, <3>1
    <3> QED BY <2>1, <3>2
  <2> QED BY <2>2, <2>3, <2>4
<1> QED BY <1>1, <1>2, <1>7, <1>8

\* No more batches are left than descriptions.
LEMMA CountParts ==
    ASSUME N \in Nat, NEW sizes, NEW c \in Seq(1 .. N), IsInjective(c), NEW q,
           Parts(q, (1 .. N) \ ToSet(c), sizes)
    PROVE  /\ Len(c) + Len(q) <= N
           /\ q = <<>> => Len(c) = N /\ ToSet(c) = 1 .. N
<1>1. PICK D : D = 1 .. N
  OBVIOUS
<1>2. PICK k \in Nat : k = Len(c) /\ DOMAIN c = 1 .. k /\ \A i \in 1 .. k : c[i] \in D
  BY <1>1
<1>3. PICK l \in Nat : l = Len(q)
  BY DEF Parts
<1>4. \A i, j \in 1 .. k : c[i] = c[j] => i = j
  BY <1>2 DEF IsInjective
<1>5. \A i \in 1 .. k : c[i] \in ToSet(c)
  BY <1>2 DEF ToSet
<1>6. \A j \in 1 .. l : q[j][1] \in ToSet(q[j]) /\ q[j][1] \in D \ ToSet(c)
  <2> TAKE j \in 1 .. l
  <2>1. IsBatch(q[j], sizes) /\ ToSet(q[j]) \subseteq D \ ToSet(c)
    BY <1>1, <1>3 DEF Parts
  <2>2. PICK b \in Seq(D) : b = q[j] /\ b # <<>>
    BY <1>1, <2>1 DEF IsBatch
  <2>3. 1 \in DOMAIN b
    BY <2>2, EmptySeq
  <2> QED BY <2>1, <2>2, <2>3 DEF ToSet
<1>7. \A i, j \in 1 .. l : q[i][1] = q[j][1] => i = j
  <2> SUFFICES ASSUME NEW i \in 1 .. l, NEW j \in 1 .. l, q[i][1] = q[j][1], i # j
               PROVE  FALSE
    OBVIOUS
  <2>1. ToSet(q[i]) \cap ToSet(q[j]) = {}
    BY <1>3 DEF Parts
  <2>2. q[i][1] \in ToSet(q[i]) /\ q[j][1] \in ToSet(q[j])
    BY <1>6
  <2> QED BY <2>1, <2>2
<1> DEFINE h == [i \in 1 .. k + l |-> IF i <= k THEN c[i] ELSE q[i - k][1]]
<1>8. \A i \in 1 .. k + l : (i <= k => i \in 1 .. k) /\ (~(i <= k) => i - k \in 1 .. l)
  OBVIOUS
<1>9. h \in Injection(1 .. k + l, D)
  <2>1. h \in [1 .. k + l -> D]
    BY <1>2, <1>6, <1>8
  <2>2. ASSUME NEW i \in 1 .. k + l, NEW j \in 1 .. k + l, h[i] = h[j] PROVE i = j
    <3>1. /\ h[i] = IF i <= k THEN c[i] ELSE q[i - k][1]
          /\ h[j] = IF j <= k THEN c[j] ELSE q[j - k][1]
      OBVIOUS
    <3> HIDE DEF h
    <3>2. CASE i <= k /\ j <= k
      BY <1>4, <1>8, <2>2, <3>1, <3>2
    <3>3. CASE i <= k /\ ~(j <= k)
      BY <1>5, <1>6, <1>8, <2>2, <3>1, <3>3
    <3>4. CASE ~(i <= k) /\ j <= k
      BY <1>5, <1>6, <1>8, <2>2, <3>1, <3>4
    <3>5. CASE ~(i <= k) /\ ~(j <= k)
      <4>1. i - k = j - k
        BY <1>7, <1>8, <2>2, <3>1, <3>5
      <4> QED BY <4>1
    <3> QED BY <3>2, <3>3, <3>4, <3>5
  <2> HIDE DEF h
  <2> QED BY <2>1, <2>2 DEF Injection, IsInjective
<1> HIDE DEF h
<1>10. IsFiniteSet(D) /\ Cardinality(D) = N
  BY <1>1, FS_Interval
<1>11. Cardinality(1 .. k + l) = k + l
  <2>1. 1 \in Int /\ k + l \in Int
    OBVIOUS
  <2> QED BY <2>1, FS_Interval
<1>12. k + l <= N
  BY <1>9, <1>10, <1>11, FS_Injection
<1>13. ASSUME q = <<>> PROVE k = N /\ ToSet(c) = 1 .. N
  <2>1. l = 0
    BY <1>3, <1>13
  <2>2. \A x \in D : x \in ToSet(c)
    BY <1>1, <1>3, <2>1 DEF Parts
  <2>3. ToSet(c) = D
    BY <1>1, <2>2 DEF ToSet
  <2>4. c \in Surjection(1 .. k, D)
    <3>1. c \in [1 .. k -> D] /\ ToSet(c) = {c[i] : i \in 1 .. k}
      BY <1>1, <1>2 DEF ToSet
    <3> QED BY <2>3, <3>1 DEF Surjection
  <2>5. IsFiniteSet(1 .. k) /\ Cardinality(1 .. k) = k
    BY FS_Interval
  <2>6. N <= k
    BY <1>10, <2>4, <2>5, FS_Surjection
  <2> QED BY <1>1, <1>12, <2>1, <2>3, <2>6
<1> QED BY <1>2, <1>3, <1>12, <1>13

(***************************************************************************)
(* ReleaseNotes: the inductive invariant.                                  *)
(***************************************************************************)
\* What is left to review and what is covered, in the requests it may have cost.
Parted == Len(todo) + 2 * Len(changes)

\* The last request for a batch that ends the review.
LastRequest == IF phase \in {"plain", "failed"} /\ todo # <<>> THEN 1 ELSE 0

NoteTypeOK ==
    /\ bytes \in [1 .. N -> Sizes]
    /\ phase \in {"review", "merge", "published", "plain", "failed"}
    /\ attempt \in 0 .. Attempts - 1
    /\ changes \in Seq(1 .. N) /\ IsInjective(changes)
    /\ requests \in Nat

\* The batches left divide the descriptions that no answer covers.
LeftIsParted == Parts(todo, (1 .. N) \ ToSet(changes), bytes)
AllReviewedAtMerge == phase \in {"merge", "published"} => todo = <<>>
NoRetryWithoutBatch == todo = <<>> => attempt = 0
RequestsCounted == requests + Attempts <= Attempts * Parted + attempt + LastRequest

NoteInv ==
    /\ NoteTypeOK /\ LeftIsParted /\ AllReviewedAtMerge /\ NoRetryWithoutBatch
    /\ RequestsCounted

LEMMA InitNote == NoteInit => NoteInv
<1> SUFFICES ASSUME NoteInit PROVE NoteInv
  OBVIOUS
<1>1. N \in Nat \ {0} /\ BatchSize \in Nat \ {0} /\ Attempts \in Nat \ {0} /\ Sizes \subseteq Nat
  BY NotesAssumption
<1>2. /\ bytes \in [1 .. N -> Sizes] /\ bytes \in [1 .. N -> Nat] /\ todo = Batches(bytes)
      /\ phase = "review" /\ attempt = 0 /\ changes = <<>> /\ requests = 0
  BY <1>1 DEF NoteInit
<1>3. /\ changes \in Seq(1 .. N) /\ Len(changes) = 0 /\ DOMAIN changes = {}
  BY <1>2
<1>4. IsInjective(changes) /\ ToSet(changes) = {}
  BY <1>3 DEF ToSet, IsInjective
<1>5. Parts(todo, 1 .. N, bytes)
  BY <1>1, <1>2, BatchesParts
<1>6. LeftIsParted
  BY <1>4, <1>5 DEF LeftIsParted
<1>7. todo # <<>> /\ Len(todo) \in Nat \ {0}
  <2>1. \E j \in 1 .. Len(todo) : 1 \in ToSet(todo[j])
    <3>1. 1 \in 1 .. N
      BY <1>1
    <3> QED BY <1>5, <3>1 DEF Parts
  <2>2. Len(todo) \in Nat
    BY <1>5 DEF Parts
  <2> QED BY <2>1, <2>2
<1>8. RequestsCounted
  <2>1. PICK k \in Nat : Len(todo) = k + 1
    BY <1>7
  <2>2. Parted = k + 1
    BY <1>3, <2>1 DEF Parted
  <2>3. Attempts * (k + 1) = Attempts * k + Attempts /\ Attempts * k \in Nat
    BY <1>1
  <2>4. LastRequest = 0
    BY <1>2 DEF LastRequest
  <2> QED BY <1>1, <1>2, <2>2, <2>3, <2>4 DEF RequestsCounted
<1>9. NoteTypeOK
  BY <1>1, <1>2, <1>3, <1>4 DEF NoteTypeOK
<1> QED BY <1>2, <1>6, <1>7, <1>8, <1>9 DEF NoteInv, AllReviewedAtMerge, NoRetryWithoutBatch

\* What the steps of the review find.
LEMMA ReviewFacts ==
    ASSUME NoteInv, todo # <<>>
    PROVE  /\ Attempts \in Nat \ {0} /\ attempt \in Nat /\ requests \in Nat /\ attempt < Attempts
           /\ Len(todo) \in Nat \ {0} /\ Len(changes) \in Nat /\ Parted \in Nat
           /\ phase \notin {"plain", "failed"} => LastRequest = 0
<1>1. Attempts \in Nat \ {0}
  BY NotesAssumption
<1>2. todo \in Seq(Seq(1 .. N)) /\ changes \in Seq(1 .. N)
  BY DEF NoteInv, LeftIsParted, Parts, NoteTypeOK
<1>3. Len(todo) \in Nat \ {0} /\ Len(changes) \in Nat
  BY <1>2, EmptySeq
<1>4. attempt \in Nat /\ requests \in Nat /\ attempt < Attempts
  BY <1>1 DEF NoteInv, NoteTypeOK
<1> QED BY <1>1, <1>3, <1>4 DEF Parted, LastRequest

\* A further request is within the next of the attempts.
LEMMA RequestMore ==
    ASSUME NEW A \in Nat, NEW k \in Nat, NEW m \in Nat, k < m,
           NEW r \in Nat, NEW a \in Nat, a < A, r + A <= A * k + a
    PROVE  (r + 1) + A <= A * m
<1>1. A * (k + 1) = A * k + A /\ A * k \in Nat
  OBVIOUS
<1>2. A * (k + 1) <= A * m
  <2>1. PICK d \in Nat : m = (k + 1) + d
    <3>1. m - (k + 1) \in Nat /\ m = (k + 1) + (m - (k + 1))
      OBVIOUS
    <3> QED BY <3>1
  <2>2. A * m = A * (k + 1) + A * d /\ A * d \in Nat /\ A * (k + 1) \in Nat
    BY <2>1
  <2> QED BY <2>2
<1>3. PICK p \in Nat, n \in Nat : p = A * k /\ n = A * m
  BY <1>1
<1> QED BY <1>1, <1>2, <1>3

\* Nothing but the end of the review.
LEMMA EndKeeps ==
    ASSUME NoteInv, phase \in {"review", "merge"}, FallsBack,
           UNCHANGED <<bytes, todo, attempt, changes>>,
           \/ UNCHANGED requests
           \/ todo # <<>> /\ requests' = requests + 1
    PROVE  NoteInv'
<1>1. NoteTypeOK' /\ LeftIsParted' /\ AllReviewedAtMerge' /\ NoRetryWithoutBatch'
  BY DEF FallsBack, NoteInv, NoteTypeOK, LeftIsParted, AllReviewedAtMerge, NoRetryWithoutBatch
<1>2. RequestsCounted'
  <2>1. /\ requests + Attempts <= Attempts * Parted + attempt + LastRequest
        /\ requests \in Nat /\ Attempts \in Nat /\ attempt \in Nat
    BY NotesAssumption DEF NoteInv, RequestsCounted, NoteTypeOK
  <2>2. Attempts * Parted \in Nat
    <3>1. todo \in Seq(Seq(1 .. N)) /\ changes \in Seq(1 .. N)
      BY DEF NoteInv, LeftIsParted, Parts, NoteTypeOK
    <3>2. PICK l \in Nat, k \in Nat : l = Len(todo) /\ k = Len(changes)
      BY <3>1
    <3> QED BY <2>1, <3>2 DEF Parted
  <2>3. PICK p \in Nat : p = Attempts * Parted
    BY <2>2
  <2>4. (Attempts * Parted)' = p
    BY <2>3 DEF Parted
  <2>5. LastRequest = 0 /\ LastRequest' = IF todo # <<>> THEN 1 ELSE 0
    BY DEF FallsBack, LastRequest
  <2> QED BY <2>1, <2>3, <2>4, <2>5 DEF RequestsCounted
<1> QED BY <1>1, <1>2 DEF NoteInv

LEMMA AllReviewedKeeps ==
    ASSUME NoteInv, AllReviewed
    PROVE  NoteInv'
<1>1. NoteTypeOK' /\ LeftIsParted' /\ AllReviewedAtMerge' /\ NoRetryWithoutBatch'
  BY DEF AllReviewed, NoteInv, NoteTypeOK, LeftIsParted, AllReviewedAtMerge, NoRetryWithoutBatch
<1>2. RequestsCounted'
  BY DEF AllReviewed, NoteInv, RequestsCounted, LastRequest, Parted
<1> QED BY <1>1, <1>2 DEF NoteInv

\* A merge leaves what is reviewed alone.
LEMMA MergeKeeps ==
    ASSUME NoteInv, MergeRound \/ Publish
    PROVE  NoteInv'
<1>1. /\ phase = "merge" /\ phase' \in {"merge", "published", "plain", "failed"}
      /\ UNCHANGED <<bytes, todo, attempt, changes, requests>>
  BY DEF MergeRound, FallsBack, Publish
<1>2. todo = <<>>
  BY <1>1 DEF NoteInv, AllReviewedAtMerge
<1>3. NoteTypeOK' /\ LeftIsParted' /\ AllReviewedAtMerge' /\ NoRetryWithoutBatch'
  BY <1>1, <1>2 DEF NoteInv, NoteTypeOK, LeftIsParted, AllReviewedAtMerge, NoRetryWithoutBatch
<1>4. RequestsCounted'
  BY <1>1, <1>2 DEF NoteInv, RequestsCounted, LastRequest, Parted
<1> QED BY <1>3, <1>4 DEF NoteInv

LEMMA ReviewedKeeps ==
    ASSUME NoteInv, NEW entries \in Answers, NEW h \in Nat, Reviewed(entries, h)
    PROVE  NoteInv'
<1>1. /\ phase = "review" /\ todo # <<>>
      /\ IsInjective(entries) /\ ToSet(entries) = ToSet(Head(todo))
      /\ changes' = changes \o entries /\ todo' = Tail(todo) /\ attempt' = 0
      /\ requests' = requests + 1 /\ bytes' = bytes /\ phase' = phase
  BY DEF Reviewed, Reviewing, Covers
<1>2. entries \in Seq(1 .. N) /\ Len(entries) \in Nat \ {0}
  <2>1. PICK D : D = 1 .. N
    OBVIOUS
  <2>2. PICK n \in 1 .. N : entries \in [1 .. n -> D]
    BY <2>1 DEF Answers
  <2>3. n \in Nat \ {0}
    BY NotesAssumption
  <2>4. entries \in Seq(D) /\ Len(entries) = n
    BY <2>2, <2>3
  <2> QED BY <2>1, <2>3, <2>4
<1>3. changes \in Seq(1 .. N) /\ IsInjective(changes)
  BY DEF NoteInv, NoteTypeOK
<1>4. Parts(todo, (1 .. N) \ ToSet(changes), bytes)
  BY DEF NoteInv, LeftIsParted
<1>5. ToSet(changes) \cap ToSet(entries) = {}
  <2>1. PICK D : D = Seq(1 .. N)
    OBVIOUS
  <2>2. todo \in Seq(D)
    BY <1>4, <2>1 DEF Parts
  <2>3. 1 \in 1 .. Len(todo) /\ Head(todo) = todo[1]
    BY <1>1, <2>2, EmptySeq
  <2>4. ToSet(todo[1]) \subseteq (1 .. N) \ ToSet(changes)
    BY <1>4, <2>3 DEF Parts
  <2> QED BY <1>1, <2>3, <2>4
<1>6. /\ changes' \in Seq(1 .. N) /\ Len(changes') = Len(changes) + Len(entries)
      /\ IsInjective(changes') /\ ToSet(changes') = ToSet(changes) \cup ToSet(entries)
  BY <1>1, <1>2, <1>3, <1>5, JoinIs
<1>7. LeftIsParted' /\ Len(todo') = Len(todo) - 1
  <2>1. /\ Parts(Tail(todo), ((1 .. N) \ ToSet(changes)) \ ToSet(Head(todo)), bytes)
        /\ Len(Tail(todo)) = Len(todo) - 1
    BY <1>1, <1>4, TailParts
  <2>2. ((1 .. N) \ ToSet(changes)) \ ToSet(Head(todo)) = (1 .. N) \ ToSet(changes')
    BY <1>1, <1>6
  <2> QED BY <1>1, <2>1, <2>2 DEF LeftIsParted
<1>8. RequestsCounted'
  <2>1. /\ Attempts \in Nat \ {0} /\ attempt \in Nat /\ requests \in Nat /\ attempt < Attempts
        /\ Len(todo) \in Nat \ {0} /\ Len(changes) \in Nat /\ Parted \in Nat /\ LastRequest = 0
    BY <1>1, ReviewFacts
  <2>2. requests + Attempts <= Attempts * Parted + attempt
    <3>1. requests + Attempts <= Attempts * Parted + attempt + LastRequest
      BY DEF NoteInv, RequestsCounted
    <3>2. PICK p \in Nat : p = Attempts * Parted
      BY <2>1
    <3> QED BY <2>1, <3>1, <3>2
  <2>3. PICK k \in Nat, m \in Nat : k = Parted /\ m = Parted' /\ k < m
    <3>1. Parted' = (Len(todo) - 1) + 2 * (Len(changes) + Len(entries))
      BY <1>6, <1>7 DEF Parted
    <3> QED BY <1>2, <2>1, <3>1 DEF Parted
  <2>4. (requests + 1) + Attempts <= Attempts * m
    BY <2>1, <2>2, <2>3, RequestMore
  <2>5. LastRequest' = 0
    BY <1>1 DEF LastRequest
  <2>6. Attempts * m \in Nat
    BY <2>1
  <2> QED BY <1>1, <2>3, <2>4, <2>5, <2>6 DEF RequestsCounted
<1>9. NoteTypeOK'
  <2>1. 0 \in 0 .. Attempts - 1
    BY NotesAssumption
  <2> QED BY <1>1, <1>6, <2>1 DEF NoteInv, NoteTypeOK
<1> QED BY <1>1, <1>7, <1>8, <1>9 DEF NoteInv, AllReviewedAtMerge, NoRetryWithoutBatch

LEMMA RetriedKeeps ==
    ASSUME NoteInv, Reviewing, Retried, requests' = requests + 1, UNCHANGED <<bytes, changes>>
    PROVE  NoteInv'
<1>1. /\ phase = "review" /\ todo # <<>> /\ phase' = phase /\ todo' = todo
      /\ attempt + 1 < Attempts /\ attempt' = attempt + 1
  BY DEF Reviewing, Retried
<1>2. /\ Attempts \in Nat \ {0} /\ attempt \in Nat /\ requests \in Nat /\ Parted \in Nat
      /\ LastRequest = 0
  BY <1>1, ReviewFacts
<1>3. RequestsCounted'
  <2>1. requests + Attempts <= Attempts * Parted + attempt + LastRequest
    BY DEF NoteInv, RequestsCounted
  <2>2. PICK p \in Nat : p = Attempts * Parted
    BY <1>2
  <2>3. (Attempts * Parted)' = p
    BY <1>1, <2>2 DEF Parted
  <2>4. LastRequest' = 0
    BY <1>1 DEF LastRequest
  <2> QED BY <1>1, <1>2, <2>1, <2>2, <2>3, <2>4 DEF RequestsCounted
<1>4. NoteTypeOK'
  BY <1>1, <1>2 DEF NoteInv, NoteTypeOK
<1>5. LeftIsParted'
  BY <1>1 DEF NoteInv, LeftIsParted
<1> QED BY <1>1, <1>3, <1>4, <1>5 DEF NoteInv, AllReviewedAtMerge, NoRetryWithoutBatch

LEMMA SplitKeeps ==
    ASSUME NoteInv, Reviewing, Split, requests' = requests + 1, UNCHANGED <<bytes, changes>>
    PROVE  NoteInv'
<1>1. /\ phase = "review" /\ todo # <<>> /\ phase' = phase /\ Len(Head(todo)) >= 2
      /\ todo' = Halves(Head(todo)) \o Tail(todo) /\ attempt' = 0
  BY DEF Reviewing, Split
<1>2. /\ BatchSize \in Nat /\ BatchBytes \in Nat /\ bytes \in [1 .. N -> Nat]
      /\ Parts(todo, (1 .. N) \ ToSet(changes), bytes)
  BY NotesAssumption DEF NoteInv, NoteTypeOK, LeftIsParted
<1>3. /\ Parts(todo', (1 .. N) \ ToSet(changes), bytes)
      /\ Len(todo') = Len(todo) + 1
  BY <1>1, <1>2, SplitParts
<1>4. /\ Attempts \in Nat \ {0} /\ attempt \in Nat /\ requests \in Nat /\ attempt < Attempts
      /\ Len(todo) \in Nat \ {0} /\ Len(changes) \in Nat /\ Parted \in Nat /\ LastRequest = 0
  BY <1>1, ReviewFacts
<1>5. RequestsCounted'
  <2>1. requests + Attempts <= Attempts * Parted + attempt
    <3>1. requests + Attempts <= Attempts * Parted + attempt + LastRequest
      BY DEF NoteInv, RequestsCounted
    <3>2. PICK p \in Nat : p = Attempts * Parted
      BY <1>4
    <3> QED BY <1>4, <3>1, <3>2
  <2>2. PICK k \in Nat, m \in Nat : k = Parted /\ m = Parted' /\ k < m
    <3>1. Parted' = (Len(todo) + 1) + 2 * Len(changes)
      BY <1>3 DEF Parted
    <3> QED BY <1>4, <3>1 DEF Parted
  <2>3. (requests + 1) + Attempts <= Attempts * m
    BY <1>4, <2>1, <2>2, RequestMore
  <2>4. LastRequest' = 0
    BY <1>1 DEF LastRequest
  <2>5. Attempts * m \in Nat
    BY <1>4
  <2> QED BY <1>1, <2>2, <2>3, <2>4, <2>5 DEF RequestsCounted
<1>6. NoteTypeOK'
  <2>1. 0 \in 0 .. Attempts - 1
    BY NotesAssumption
  <2> QED BY <1>1, <1>4, <2>1 DEF NoteInv, NoteTypeOK
<1>7. LeftIsParted'
  BY <1>3 DEF LeftIsParted
<1> QED BY <1>1, <1>5, <1>6, <1>7 DEF NoteInv, AllReviewedAtMerge, NoRetryWithoutBatch

LEMMA NextNote == NoteInv /\ [NoteNext]_noteVars => NoteInv'
<1> SUFFICES ASSUME NoteInv, [NoteNext]_noteVars PROVE NoteInv'
  OBVIOUS
<1>1. CASE TooLong
  BY <1>1, EndKeeps DEF TooLong, Fallback
<1>2. CASE AllReviewed
  BY <1>2, AllReviewedKeeps
<1>3. ASSUME NEW entries \in Answers, NEW h \in 0 .. MaxHighlights, Reviewed(entries, h)
      PROVE  NoteInv'
  BY <1>3, ReviewedKeeps
<1>4. CASE Unusable
  <2>1. CASE Retried
    BY <1>4, <2>1, RetriedKeeps DEF Unusable
  <2>2. CASE Split
    BY <1>4, <2>2, SplitKeeps DEF Unusable
  <2>3. CASE GivenUp
    BY <1>4, <2>3, EndKeeps DEF Unusable, Reviewing, GivenUp
  <2> QED BY <1>4, <2>1, <2>2, <2>3 DEF Unusable
<1>5. CASE Unanswered
  <2>1. CASE Retried
    BY <1>5, <2>1, RetriedKeeps DEF Unanswered
  <2>2. CASE GivenUp
    BY <1>5, <2>2, EndKeeps DEF Unanswered, Reviewing, GivenUp
  <2> QED BY <1>5, <2>1, <2>2 DEF Unanswered
<1>6. CASE Denied
  BY <1>6, EndKeeps DEF Denied, Reviewing, Fallback
<1>7. CASE MergeRound \/ Publish
  BY <1>7, MergeKeeps
<1>8. CASE MergeFails
  BY <1>8, EndKeeps DEF MergeFails, Fallback
<1>9. CASE UNCHANGED noteVars
  BY <1>9 DEF noteVars, NoteInv, NoteTypeOK, LeftIsParted, AllReviewedAtMerge, NoRetryWithoutBatch,
     RequestsCounted, Parted, LastRequest
<1> QED BY <1>1, <1>2, <1>3, <1>4, <1>5, <1>6, <1>7, <1>8, <1>9 DEF NoteNext

LEMMA NotesAreComplete == NoteInv => NotesComplete
<1> SUFFICES ASSUME NoteInv PROVE NotesComplete
  OBVIOUS
<1>1. N \in Nat \ {0} /\ Attempts \in Nat \ {0}
  BY NotesAssumption
<1>2. /\ changes \in Seq(1 .. N) /\ IsInjective(changes)
      /\ Parts(todo, (1 .. N) \ ToSet(changes), bytes)
  BY DEF NoteInv, NoteTypeOK, LeftIsParted
<1>3. /\ Len(changes) + Len(todo) <= N
      /\ todo = <<>> => Len(changes) = N /\ ToSet(changes) = 1 .. N
  BY <1>1, <1>2, CountParts
<1>4. EveryChangeOnce
  <2>1. ToSet(Descriptions) = 1 .. N
    BY DEF Descriptions, ToSet
  <2> QED BY <1>2, <1>3, <2>1 DEF EveryChangeOnce, Covers, NoteInv, AllReviewedAtMerge
<1>5. BatchesDisjoint
  <2> SUFFICES ASSUME \A i \in 1 .. N : bytes[i] <= BatchBytes
               PROVE  /\ \A b \in ToSet(todo) :
                            /\ b # <<>> /\ Len(b) <= BatchSize /\ SumBytes(b, bytes) <= BatchBytes
                            /\ IsInjective(b) /\ ToSet(b) \cap ToSet(changes) = {}
                      /\ \A i, j \in DOMAIN todo : i # j => ToSet(todo[i]) \cap ToSet(todo[j]) = {}
    BY <1>2 DEF BatchesDisjoint
  <2>1. DOMAIN todo = 1 .. Len(todo)
    BY <1>2 DEF Parts
  <2>2. ASSUME NEW b \in ToSet(todo)
        PROVE  /\ b # <<>> /\ Len(b) <= BatchSize /\ SumBytes(b, bytes) <= BatchBytes
               /\ IsInjective(b) /\ ToSet(b) \cap ToSet(changes) = {}
    <3>1. PICK i \in 1 .. Len(todo) : b = todo[i]
      BY <2>1 DEF ToSet
    <3>2. IsBatch(b, bytes) /\ ToSet(b) \subseteq (1 .. N) \ ToSet(changes)
      BY <1>2, <3>1 DEF Parts
    <3>3. AllFit(bytes)
      BY DEF AllFit
    <3> QED BY <3>2, <3>3 DEF IsBatch
  <2>3. \A i, j \in DOMAIN todo : i # j => ToSet(todo[i]) \cap ToSet(todo[j]) = {}
    BY <1>2, <2>1 DEF Parts
  <2> QED BY <2>2, <2>3
<1>6. RequestsBounded
  <2>1. PICK l \in Nat, k \in Nat : l = Len(todo) /\ k = Len(changes) /\ Parted = l + 2 * k
    <3>1. todo \in Seq(Seq(1 .. N))
      BY <1>2 DEF Parts
    <3> QED BY <1>2, <3>1 DEF Parted
  <2>2. attempt \in Nat /\ attempt < Attempts /\ requests \in Nat
    BY <1>1 DEF NoteInv, NoteTypeOK
  <2>3. requests + Attempts <= Attempts * (l + 2 * k) + attempt + LastRequest
    BY <2>1 DEF NoteInv, RequestsCounted
  <2>4. Attempts * (2 * N - 1) + Attempts = Attempts * (2 * N)
    <3>1. PICK n \in Nat : n = 2 * N - 1 /\ n + 1 = 2 * N
      BY <1>1
    <3>2. Attempts * (n + 1) = Attempts * n + Attempts
      BY <1>1
    <3> QED BY <3>1, <3>2
  <2>5. requests + Attempts <= Attempts * (2 * N)
    <3>1. CASE todo = <<>>
      <4>1. attempt = 0 /\ LastRequest = 0
        BY <3>1 DEF NoteInv, NoRetryWithoutBatch, LastRequest
      <4>2. l + 2 * k = 2 * N
        BY <1>1, <1>3, <2>1, <3>1
      <4>3. Attempts * (2 * N) \in Nat
        BY <1>1
      <4> QED BY <2>2, <2>3, <4>1, <4>2, <4>3
    <3>2. CASE todo # <<>>
      <4>1. l + 2 * k + 1 <= 2 * N
        <5>1. l # 0
          BY <1>2, <2>1, <3>2, EmptySeq DEF Parts
        <5> QED BY <1>1, <1>3, <2>1, <5>1
      <4>2. PICK d \in Nat : 2 * N = (l + 2 * k + 1) + d
        <5>1. PICK m \in Nat, n \in Nat : m = l + 2 * k + 1 /\ n = 2 * N
          BY <1>1, <2>1
        <5>2. n - m \in Nat /\ n = m + (n - m)
          BY <4>1, <5>1
        <5> QED BY <5>1, <5>2
      <4>3. PICK m \in Nat : m = l + 2 * k
        BY <2>1
      <4>4. Attempts * (2 * N) = Attempts * m + Attempts + Attempts * d
        <5>1. Attempts * ((m + 1) + d) = Attempts * m + Attempts + Attempts * d
          BY <1>1
        <5> QED BY <4>2, <4>3, <5>1
      <4>5. Attempts * m \in Nat /\ Attempts * d \in Nat
        BY <1>1
      <4>6. LastRequest \in {0, 1}
        BY DEF LastRequest
      <4>7. PICK p \in Nat, e \in Nat : p = Attempts * m /\ e = Attempts * d
        BY <4>5
      <4> QED BY <1>1, <2>2, <2>3, <4>3, <4>4, <4>6, <4>7
    <3> QED BY <3>1, <3>2
  <2>6. PICK p \in Nat : p = Attempts * (2 * N - 1)
    <3>1. PICK n \in Nat : n = 2 * N - 1
      BY <1>1
    <3> QED BY <1>1, <3>1
  <2> QED BY <1>1, <2>2, <2>4, <2>5, <2>6 DEF RequestsBounded
<1> QED BY <1>4, <1>5, <1>6 DEF NotesComplete

\* Once every batch is reviewed each change is covered exactly once, batches keep to
\* the limits and share nothing, and the requests are bounded, for any number of
\* changes of any size and any limits (rolling-notes.mjs:235-273,
\* notes-batches.mjs:2-35, 246-304).
THEOREM NotesCompleteCorrect == NoteSpec => []NotesComplete
<1>1. NoteInit => NoteInv
  BY InitNote
<1>2. NoteInv /\ [NoteNext]_noteVars => NoteInv'
  BY NextNote
<1>3. NoteInv => NotesComplete
  BY NotesAreComplete
<1> QED BY <1>1, <1>2, <1>3, PTL DEF NoteSpec
=============================================================================
