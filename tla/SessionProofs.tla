----------------------------- MODULE SessionProofs -----------------------------
(***************************************************************************)
(* What the sidecar's requests do towards Core's storage and towards an    *)
(* MCP server, for any requests, values, calls and answers.                *)
(*                                                                         *)
(* Wallet: challenges rest on what Core holds, a value in custody is       *)
(* written over only where a read was lost or began before it was there,   *)
(* and challenges and addresses stay with custody while no value is drawn  *)
(* for a name that has one.                                                *)
(* McpSession: tool calls and credentials stay in their sessions, and a    *)
(* call ends with what the server said under its id.                       *)
(***************************************************************************)
EXTENDS Wallet, McpSession, TLAPS

USE WalletAssumption

(***************************************************************************)
(* Wallet: the inductive invariant.                                        *)
(***************************************************************************)
PCs == {"read", "seal", "set", "faucet", "report"}

\* What a call remembers fits where it stands.
Fits(c) ==
    /\ c.name = "server-secret" => c.op = "paid" /\ c.account \in Values
    /\ c.pc \in {"seal", "set"} =>
          /\ c.value \in drawn
          /\ c.op = "create" \/ (c.op = "paid" /\ c.name = "server-secret")
CallsFit == \A r \in Requests : InProgress(r) => Fits(calls[r])

\* A value is drawn before it is sent, and storage has held what it holds.
DrawnFirst ==
    /\ \A w \in writes : w.value \in drawn
    /\ \A n \in Names, v \in Values : <<n, v>> \in held => v \in drawn
StorageHeld == \A n \in Names : storage[n] # Nothing => <<n, storage[n]>> \in held

\* Accounts and endpoints rest on custody, as the challenges made from them.
Custodied(key) == key = EnvKey \/ <<"wallet", key>> \in held
RestsOnCustody(b) == <<"server-secret", b.secret>> \in held /\ Custodied(b.recipient)
AccountsRest ==
    \A r \in Requests :
        InProgress(r) /\ calls[r].name = "server-secret" => Custodied(calls[r].account)
EndpointRests == endpoint # Nothing => RestsOnCustody(endpoint)

\* Storage never loses a value.
LateStays ==
    \A r \in Requests : InProgress(r) => \A n \in calls[r].late : storage[n] # Nothing

\* No value drawn for a name that has one.  What Core has not written, the one
\* request at work on its name awaits, and storage has no value under that name;
\* and everything said agrees with storage.
Writing(r) == At(r, "seal") \/ At(r, "set")
OneDraw ==
    \A r, q \in Requests :
        Writing(r) /\ Writing(q) /\ calls[r].name = calls[q].name
            => r = q
WriteAwaited ==
    \A w \in writes :
        /\ Found(w.name) = Nothing
        /\ \A u \in writes : u.name = w.name => u = w
        /\ \A r \in Requests :
              Writing(r) /\ calls[r].name = w.name => At(r, "set") /\ calls[r].value = w.value
SealingFirst ==
    \A r \in Requests :
        At(r, "seal") =>
            Found(calls[r].name) = Nothing /\ <<calls[r].name, calls[r].value>> \notin held
StoredIsThere ==
    \A r \in Requests :
        At(r, "set") =>
            IF <<calls[r].name, calls[r].value>> \in held
            THEN Found(calls[r].name) = calls[r].value
            ELSE Found(calls[r].name) = Nothing
Agrees(b) == b.secret = storage["server-secret"] /\ b.recipient = Found("wallet")
AccountsAgree ==
    \A r \in Requests :
        InProgress(r) /\ calls[r].name = "server-secret" => calls[r].account = Found("wallet")
AllAgree ==
    /\ endpoint # Nothing => Agrees(endpoint)
    /\ \A b \in issued : Agrees(b)
    /\ \A key \in reported : key = Found("wallet")
KeptInv ==
    sole =>
        /\ OneDraw /\ WriteAwaited /\ SealingFirst /\ StoredIsThere
        /\ AccountsAgree /\ AllAgree

CustodyInv ==
    /\ TypeOK /\ CallsFit /\ DrawnFirst /\ StorageHeld
    /\ AccountsRest /\ EndpointRests /\ ChallengesRestOnCustody
    /\ LateStays /\ ReplacedOnlyUnread

(***************************************************************************)
(* What the steps of a request do to its call.                             *)
(***************************************************************************)
LEMMA CallFields ==
    ASSUME TypeOK, NEW r \in Requests, InProgress(r)
    PROVE  /\ calls[r] \in Call
           /\ calls[r].op \in Ops /\ calls[r].pc \in PCs /\ calls[r].name \in Names
           /\ calls[r].account \in Maybe /\ calls[r].value \in Maybe
           /\ calls[r].late \in SUBSET Names /\ calls[r].unread \in BOOLEAN
BY DEF TypeOK, InProgress, Call, PCs

LEMMA Finishes ==
    ASSUME TypeOK, NEW r \in Requests, Finish(r)
    PROVE  /\ calls' \in [Requests -> Call \cup {Waiting, Over}]
           /\ ~InProgress(r)'
           /\ \A q \in Requests \ {r} : calls'[q] = calls[q]
BY DEF TypeOK, Finish, InProgress

LEMMA Goes ==
    ASSUME TypeOK, NEW r \in Requests, InProgress(r), NEW label \in PCs, Goto(r, label)
    PROVE  /\ calls' \in [Requests -> Call \cup {Waiting, Over}]
           /\ calls'[r].pc = label /\ calls'[r].op = calls[r].op
           /\ calls'[r].name = calls[r].name /\ calls'[r].account = calls[r].account
           /\ calls'[r].value = calls[r].value /\ calls'[r].late = calls[r].late
           /\ calls'[r].unread = calls[r].unread
           /\ \A q \in Requests \ {r} : calls'[q] = calls[q]
<1> DEFINE x == [calls[r] EXCEPT !.pc = label]
<1>1. x \in Call
  BY CallFields DEF Call, PCs
<1>2. calls' = [calls EXCEPT ![r] = x]
  BY DEF Goto
<1>3. /\ x.pc = label /\ x.op = calls[r].op /\ x.name = calls[r].name
      /\ x.account = calls[r].account /\ x.value = calls[r].value /\ x.late = calls[r].late
      /\ x.unread = calls[r].unread
  BY CallFields DEF Call
<1> HIDE DEF x
<1> QED BY <1>1, <1>2, <1>3 DEF TypeOK

\* The read of the wallet is followed by the read of the secret.
LEMMA GoesOnToSecret ==
    ASSUME TypeOK, NEW r \in Requests, InProgress(r), NEW key \in Values,
           calls' = [calls EXCEPT ![r].name = "server-secret", ![r].account = key]
    PROVE  /\ calls' \in [Requests -> Call \cup {Waiting, Over}]
           /\ calls'[r].name = "server-secret" /\ calls'[r].account = key
           /\ calls'[r].op = calls[r].op /\ calls'[r].pc = calls[r].pc
           /\ calls'[r].value = calls[r].value /\ calls'[r].late = calls[r].late
           /\ \A q \in Requests \ {r} : calls'[q] = calls[q]
<1> DEFINE x == [calls[r] EXCEPT !.name = "server-secret", !.account = key]
<1>1. x \in Call
  BY CallFields DEF Call, Names, Maybe
<1>2. calls' = [calls EXCEPT ![r] = x]
  OBVIOUS
<1>3. /\ x.name = "server-secret" /\ x.account = key /\ x.op = calls[r].op
      /\ x.pc = calls[r].pc /\ x.value = calls[r].value /\ x.late = calls[r].late
  BY CallFields DEF Call
<1> HIDE DEF x
<1> QED BY <1>1, <1>2, <1>3 DEF TypeOK

LEMMA Draws ==
    ASSUME TypeOK, NEW r \in Requests, InProgress(r), NEW v \in Values,
           NEW unread \in BOOLEAN,
           calls' = [calls EXCEPT ![r].pc = "seal", ![r].value = v, ![r].unread = unread]
    PROVE  /\ calls' \in [Requests -> Call \cup {Waiting, Over}]
           /\ calls'[r].pc = "seal" /\ calls'[r].value = v /\ calls'[r].unread = unread
           /\ calls'[r].op = calls[r].op /\ calls'[r].name = calls[r].name
           /\ calls'[r].account = calls[r].account /\ calls'[r].late = calls[r].late
           /\ \A q \in Requests \ {r} : calls'[q] = calls[q]
<1> DEFINE x == [calls[r] EXCEPT !.pc = "seal", !.value = v, !.unread = unread]
<1>1. x \in Call
  BY CallFields DEF Call, Maybe
<1>2. calls' = [calls EXCEPT ![r] = x]
  OBVIOUS
<1>3. /\ x.pc = "seal" /\ x.value = v /\ x.unread = unread /\ x.op = calls[r].op /\ x.name = calls[r].name
      /\ x.account = calls[r].account /\ x.late = calls[r].late
  BY CallFields DEF Call
<1> HIDE DEF x
<1>4. calls' \in [Requests -> Call \cup {Waiting, Over}] /\ calls'[r] = x
  BY <1>1, <1>2 DEF TypeOK
<1>5. \A q \in Requests \ {r} : calls'[q] = calls[q]
  BY <1>2 DEF TypeOK
<1> QED BY <1>3, <1>4, <1>5, Zenon

LEMMA Arrives ==
    ASSUME TypeOK, NEW r \in Requests, NEW op \in Ops, Arrive(r, op)
    PROVE  /\ calls' \in [Requests -> Call \cup {Waiting, Over}]
           /\ calls'[r].pc \in {"read", "report"} /\ calls'[r].name = "wallet"
           /\ \A n \in calls'[r].late : storage[n] # Nothing
           /\ \A q \in Requests \ {r} : calls'[q] = calls[q]
<1> DEFINE x == [op |-> op, pc |-> IF op = "status" THEN "report" ELSE "read", name |-> "wallet",
                 account |-> Nothing, value |-> Nothing,
                 late |-> {n \in Names : storage[n] # Nothing}, unread |-> FALSE]
<1>1. x \in Call
  BY DEF Call, Names, Maybe
<1>2. calls' = [calls EXCEPT ![r] = x]
  BY DEF Arrive
<1>3. /\ x.pc \in {"read", "report"} /\ x.name = "wallet"
      /\ \A n \in x.late : storage[n] # Nothing
  OBVIOUS
<1> HIDE DEF x
<1> QED BY <1>1, <1>2, <1>3 DEF TypeOK

LEMMA FoundIsCustodied ==
    ASSUME TypeOK, StorageHeld, Found("wallet") # Nothing
    PROVE  Found("wallet") \in Values /\ Custodied(Found("wallet"))
BY DEF TypeOK, StorageHeld, Found, FromEnv, Custodied, Names, Maybe

\* The endpoint a request creates.
LEMMA Binds ==
    ASSUME CustodyInv, NEW r \in Requests, InProgress(r), calls[r].name = "server-secret",
           NEW secret \in Values, <<"server-secret", secret>> \in held, Bind(r, secret),
           UNCHANGED held
    PROVE  /\ endpoint' \in Binding /\ issued' \in SUBSET Binding
           /\ endpoint'.secret = secret /\ endpoint'.recipient = calls[r].account
           /\ issued' = issued \cup {endpoint'}
           /\ EndpointRests' /\ ChallengesRestOnCustody'
           /\ Finish(r)
<1>1. /\ endpoint' = [recipient |-> calls[r].account, secret |-> secret]
      /\ issued' = issued \cup {endpoint'} /\ Finish(r)
  BY DEF Bind
<1>2. calls[r].account \in Values /\ Custodied(calls[r].account)
  BY DEF CustodyInv, CallsFit, Fits, AccountsRest
<1>3. endpoint' \in Binding /\ endpoint'.secret = secret
      /\ endpoint'.recipient = calls[r].account
  BY <1>1, <1>2 DEF Binding
<1>4. RestsOnCustody(endpoint')
  BY <1>2, <1>3 DEF RestsOnCustody
<1>5. EndpointRests'
  BY <1>4 DEF EndpointRests, RestsOnCustody, Custodied
<1>6. ChallengesRestOnCustody'
  BY <1>1, <1>4 DEF CustodyInv, ChallengesRestOnCustody, RestsOnCustody, Custodied
<1> QED BY <1>1, <1>3, <1>5, <1>6 DEF CustodyInv, TypeOK

(***************************************************************************)
(* Custody.                                                                *)
(***************************************************************************)
LEMMA InitCustody == Init => CustodyInv
<1> SUFFICES ASSUME Init PROVE CustodyInv
  OBVIOUS
<1>1. \A r \in Requests : ~InProgress(r)
  BY DEF Init, InProgress
<1>2. TypeOK
  BY DEF Init, TypeOK, Maybe
<1> QED BY <1>1, <1>2
        DEF Init, CustodyInv, CallsFit, DrawnFirst, StorageHeld, AccountsRest, EndpointRests,
            ChallengesRestOnCustody, LateStays, ReplacedOnlyUnread, At

LEMMA SaidTheSame ==
    ASSUME CustodyInv, UNCHANGED <<endpoint, issued, held>>
    PROVE  /\ endpoint' \in Binding \cup {Nothing} /\ issued' \in SUBSET Binding
           /\ EndpointRests' /\ ChallengesRestOnCustody'
BY DEF CustodyInv, TypeOK, EndpointRests, RestsOnCustody, Custodied, ChallengesRestOnCustody

\* A step of one request, that leaves storage alone.
LEMMA RequestKeepsCustody ==
    ASSUME CustodyInv, NEW r \in Requests,
           calls' \in [Requests -> Call \cup {Waiting, Over}],
           \A q \in Requests \ {r} : calls'[q] = calls[q],
           UNCHANGED <<storage, held>>, sole' \in BOOLEAN,
           writes' \in SUBSET Write, \A w \in writes' : w.value \in drawn',
           drawn \subseteq drawn', drawn' \in SUBSET Values,
           reported' \in SUBSET Values,
           endpoint' \in Binding \cup {Nothing}, issued' \in SUBSET Binding,
           EndpointRests', ChallengesRestOnCustody',
           InProgress(r)' =>
              /\ Fits(calls[r])'
              /\ calls'[r].name = "server-secret" => Custodied(calls'[r].account)
              /\ \A n \in calls'[r].late : storage[n] # Nothing
              /\ calls'[r].pc \in {"seal", "set"} /\ calls'[r].name \in calls'[r].late
                    => calls'[r].unread
    PROVE  CustodyInv'
<1>1. TypeOK'
  BY DEF CustodyInv, TypeOK
<1>2. CallsFit'
  BY DEF CustodyInv, CallsFit, Fits, InProgress
<1>3. DrawnFirst' /\ StorageHeld'
  BY DEF CustodyInv, DrawnFirst, StorageHeld
<1>4. AccountsRest'
  BY DEF CustodyInv, AccountsRest, Custodied, InProgress
<1>5. LateStays' /\ ReplacedOnlyUnread'
  BY DEF CustodyInv, LateStays, ReplacedOnlyUnread, InProgress, At
<1> QED BY <1>1, <1>2, <1>3, <1>4, <1>5 DEF CustodyInv

\* A request that is over afterwards.
LEMMA FinishKeepsCustody ==
    ASSUME CustodyInv, NEW r \in Requests, Finish(r),
           UNCHANGED <<storage, writes, drawn, held, sole>>,
           reported' \in SUBSET Values,
           endpoint' \in Binding \cup {Nothing}, issued' \in SUBSET Binding,
           EndpointRests', ChallengesRestOnCustody'
    PROVE  CustodyInv'
<1>1. /\ calls' \in [Requests -> Call \cup {Waiting, Over}] /\ ~InProgress(r)'
      /\ \A q \in Requests \ {r} : calls'[q] = calls[q]
  BY Finishes DEF CustodyInv
<1>2. writes' \in SUBSET Write /\ \A w \in writes' : w.value \in drawn'
  BY DEF CustodyInv, TypeOK, DrawnFirst
<1>3. drawn \subseteq drawn' /\ drawn' \in SUBSET Values /\ sole' \in BOOLEAN
  BY DEF CustodyInv, TypeOK
<1> QED BY <1>1, <1>2, <1>3, RequestKeepsCustody

\* A request that goes on, to a place that asks no more of it.
LEMMA GotoKeepsCustody ==
    ASSUME CustodyInv, NEW r \in Requests, InProgress(r), NEW label \in PCs, Goto(r, label),
           UNCHANGED <<storage, drawn, held, endpoint, issued, reported, sole>>,
           writes' \in SUBSET Write, \A w \in writes' : w.value \in drawn,
           label \in {"seal", "set"} => calls[r].pc \in {"seal", "set"}
    PROVE  CustodyInv'
<1>1. /\ calls' \in [Requests -> Call \cup {Waiting, Over}]
      /\ calls'[r].pc = label /\ calls'[r].op = calls[r].op
      /\ calls'[r].name = calls[r].name /\ calls'[r].account = calls[r].account
      /\ calls'[r].value = calls[r].value /\ calls'[r].late = calls[r].late
      /\ calls'[r].unread = calls[r].unread
      /\ \A q \in Requests \ {r} : calls'[q] = calls[q]
  BY Goes DEF CustodyInv
<1>2. /\ Fits(calls[r])'
      /\ calls'[r].name = "server-secret" => Custodied(calls'[r].account)
      /\ \A n \in calls'[r].late : storage[n] # Nothing
      /\ calls'[r].pc \in {"seal", "set"} /\ calls'[r].name \in calls'[r].late
            => calls'[r].unread
  BY <1>1 DEF CustodyInv, CallsFit, Fits, AccountsRest, LateStays, ReplacedOnlyUnread, At
<1>3. drawn' \in SUBSET Values /\ reported' \in SUBSET Values /\ sole' \in BOOLEAN
  BY DEF CustodyInv, TypeOK
<1> QED BY <1>1, <1>2, <1>3, SaidTheSame, RequestKeepsCustody

LEMMA HandlerKeepsCustody ==
    ASSUME CustodyInv, NEW r \in Requests, Handler(r)
    PROVE  CustodyInv'
<1>1. reported \in SUBSET Values /\ drawn \in SUBSET Values /\ sole \in BOOLEAN
      /\ writes \in SUBSET Write /\ \A w \in writes : w.value \in drawn
  BY DEF CustodyInv, TypeOK, DrawnFirst
<1>2. ASSUME Finish(r), UNCHANGED <<storage, writes, endpoint, drawn, held, issued, sole>>,
             reported' \in SUBSET Values
      PROVE  CustodyInv'
  BY <1>2, SaidTheSame, FinishKeepsCustody
<1>3. ASSUME InProgress(r), NEW label \in {"faucet", "report"}, Goto(r, label),
             UNCHANGED <<storage, writes, endpoint, drawn, held, reported, issued, sole>>
      PROVE  CustodyInv'
  BY <1>1, <1>3, GotoKeepsCustody DEF PCs
<1>4. ASSUME InProgress(r), calls[r].name = "server-secret",
             NEW secret \in Values, <<"server-secret", secret>> \in held, Bind(r, secret),
             UNCHANGED <<storage, writes, drawn, held, reported, sole>>
      PROVE  CustodyInv'
  <2>1. /\ endpoint' \in Binding /\ issued' \in SUBSET Binding
        /\ EndpointRests' /\ ChallengesRestOnCustody' /\ Finish(r)
    BY <1>4, Binds
  <2> QED BY <1>1, <1>4, <2>1, FinishKeepsCustody
<1>5. CASE FoundWallet(r)
  <2>1. CASE Finish(r)
    BY <1>1, <1>2, <1>5, <2>1 DEF FoundWallet
  <2>2. CASE Goto(r, "faucet")
    BY <1>3, <1>5, <2>2 DEF FoundWallet, At
  <2>3. CASE /\ calls[r].op = "paid"
             /\ calls' = [calls EXCEPT ![r].name = "server-secret",
                                       ![r].account = Found("wallet")]
    <3>1. InProgress(r) /\ calls[r].pc = "read" /\ Found("wallet") # Nothing
          /\ UNCHANGED <<storage, writes, endpoint, drawn, held, reported, issued, sole>>
      BY <1>5 DEF FoundWallet, At
    <3>2. Found("wallet") \in Values /\ Custodied(Found("wallet"))
      BY <3>1, FoundIsCustodied DEF CustodyInv
    <3>3. /\ calls' \in [Requests -> Call \cup {Waiting, Over}]
          /\ calls'[r].name = "server-secret" /\ calls'[r].account = Found("wallet")
          /\ calls'[r].op = "paid" /\ calls'[r].pc = "read"
          /\ calls'[r].late = calls[r].late
          /\ \A q \in Requests \ {r} : calls'[q] = calls[q]
      BY <2>3, <3>1, <3>2, GoesOnToSecret DEF CustodyInv
    <3>4. Fits(calls[r])' /\ \A n \in calls'[r].late : storage[n] # Nothing
      BY <3>1, <3>2, <3>3 DEF Fits, CustodyInv, LateStays
    <3> QED BY <1>1, <3>1, <3>2, <3>3, <3>4, SaidTheSame, RequestKeepsCustody
  <2> QED BY <1>5, <2>1, <2>2, <2>3 DEF FoundWallet
<1>6. CASE FoundSecret(r)
  <2>1. storage["server-secret"] \in Values
        /\ <<"server-secret", storage["server-secret"]>> \in held
    BY <1>6 DEF FoundSecret, CustodyInv, TypeOK, StorageHeld, Names, Maybe
  <2> QED BY <1>4, <1>6, <2>1 DEF FoundSecret, At
<1>7. CASE NoWallet(r)
  BY <1>1, <1>2, <1>7 DEF NoWallet
<1>8. CASE Draw(r)
  <2> DEFINE unread == Found(calls[r].name) # Nothing
  <2> PICK v \in Values \ drawn :
          /\ drawn' = drawn \cup {v}
          /\ calls' = [calls EXCEPT ![r].pc = "seal", ![r].value = v, ![r].unread = unread]
    BY <1>8 DEF Draw
  <2>1. /\ InProgress(r)
        /\ calls[r].op = "create" \/ calls[r].name = "server-secret"
        /\ sole' \in BOOLEAN
        /\ UNCHANGED <<storage, writes, endpoint, held, reported, issued>>
    BY <1>1, <1>8 DEF Draw, At
  <2>2. /\ calls' \in [Requests -> Call \cup {Waiting, Over}]
        /\ calls'[r].pc = "seal" /\ calls'[r].value = v /\ calls'[r].unread = unread
        /\ calls'[r].op = calls[r].op /\ calls'[r].name = calls[r].name
        /\ calls'[r].account = calls[r].account /\ calls'[r].late = calls[r].late
        /\ \A q \in Requests \ {r} : calls'[q] = calls[q]
    BY <2>1, Draws DEF CustodyInv
  <2>3. Fits(calls[r]) /\ calls[r].name \in Names
    BY <2>1, CallFields DEF CustodyInv, CallsFit
  <2>4. Fits(calls[r])'
    BY <2>1, <2>2, <2>3 DEF Fits
  <2>5. calls[r].name \in calls[r].late => unread
    <3>1. calls[r].name \in calls[r].late => storage[calls[r].name] # Nothing
      BY <2>1 DEF CustodyInv, LateStays
    <3> QED BY <3>1 DEF Found, FromEnv
  <2>6. /\ calls'[r].name = "server-secret" => Custodied(calls'[r].account)
        /\ \A n \in calls'[r].late : storage[n] # Nothing
    BY <2>1, <2>2 DEF CustodyInv, AccountsRest, LateStays
  <2>7. writes' \in SUBSET Write /\ \A w \in writes' : w.value \in drawn'
    BY <1>1, <2>1
  <2> HIDE DEF unread
  <2> QED BY <1>1, <2>1, <2>2, <2>4, <2>5, <2>6, <2>7, SaidTheSame, RequestKeepsCustody
<1>9. CASE Sealed(r)
  <2> DEFINE w == [name |-> calls[r].name, value |-> calls[r].value]
  <2>1. InProgress(r) /\ calls[r].pc = "seal" /\ writes' = writes \cup {w} /\ Goto(r, "set")
        /\ UNCHANGED <<storage, endpoint, drawn, held, reported, issued, sole>>
    BY <1>9 DEF Sealed, At
  <2>2. w.value \in drawn /\ w \in Write
    BY <1>1, <2>1, CallFields DEF CustodyInv, CallsFit, Fits, Write
  <2> QED BY <1>1, <2>1, <2>2, GotoKeepsCustody DEF PCs
<1>10. CASE Stored(r)
  <2>1. /\ InProgress(r) /\ calls[r].pc = "set"
        /\ <<calls[r].name, calls[r].value>> \in held
        /\ UNCHANGED <<storage, writes, drawn, held, reported, sole>>
    BY <1>10 DEF Stored, At
  <2>2. CASE Goto(r, "report") /\ UNCHANGED <<endpoint, issued>>
    BY <1>3, <2>1, <2>2
  <2>3. CASE calls[r].op = "paid" /\ Bind(r, calls[r].value)
    <3>1. calls[r].name = "server-secret" /\ calls[r].value \in Values
      BY <1>1, <2>1, <2>3 DEF CustodyInv, CallsFit, Fits
    <3> QED BY <1>4, <2>1, <2>3, <3>1
  <2> QED BY <1>10, <2>2, <2>3 DEF Stored
<1>11. CASE Funded(r)
  BY <1>3, <1>11 DEF Funded, At
<1>12. CASE Report(r)
  <2>1. Reads("wallet") \subseteq Values \cup {Nothing}
    BY DEF Reads, Found, FromEnv, CustodyInv, TypeOK, Maybe, Names
  <2>2. reported' \in SUBSET Values
    BY <1>1, <1>12, <2>1 DEF Report
  <2> QED BY <1>2, <1>12, <2>2 DEF Report
<1>13. CASE CallFails(r)
  BY <1>1, <1>2, <1>13 DEF CallFails
<1> QED BY <1>5, <1>6, <1>7, <1>8, <1>9, <1>10, <1>11, <1>12, <1>13 DEF Handler

LEMMA NextCustody == CustodyInv /\ [Next]_vars => CustodyInv'
<1> SUFFICES ASSUME CustodyInv, [Next]_vars PROVE CustodyInv'
  OBVIOUS
<1>1. reported \in SUBSET Values /\ drawn \in SUBSET Values /\ sole \in BOOLEAN
      /\ writes \in SUBSET Write /\ \A w \in writes : w.value \in drawn
  BY DEF CustodyInv, TypeOK, DrawnFirst
<1>2. ASSUME NEW r \in Requests, NEW op \in Ops, Arrive(r, op) PROVE CustodyInv'
  <2>1. /\ calls' \in [Requests -> Call \cup {Waiting, Over}]
        /\ calls'[r].pc \in {"read", "report"} /\ calls'[r].name = "wallet"
        /\ \A n \in calls'[r].late : storage[n] # Nothing
        /\ \A q \in Requests \ {r} : calls'[q] = calls[q]
    BY <1>2, Arrives DEF CustodyInv
  <2>2. Fits(calls[r])'
    BY <2>1 DEF Fits
  <2>3. UNCHANGED <<storage, writes, endpoint, drawn, held, reported, issued, sole>>
    BY <1>2 DEF Arrive
  <2> QED BY <1>1, <2>1, <2>2, <2>3, SaidTheSame, RequestKeepsCustody
<1>3. ASSUME NEW r \in Requests, PaidAgain(r) PROVE CustodyInv'
  <2>1. /\ Finish(r) /\ endpoint # Nothing /\ issued' = issued \cup {endpoint}
        /\ UNCHANGED <<storage, writes, endpoint, drawn, held, reported, sole>>
    BY <1>3 DEF PaidAgain
  <2>2. endpoint \in Binding /\ RestsOnCustody(endpoint)
    BY <2>1 DEF CustodyInv, TypeOK, EndpointRests
  <2>3. issued' \in SUBSET Binding /\ endpoint' \in Binding \cup {Nothing}
    BY <2>1, <2>2 DEF CustodyInv, TypeOK
  <2>4. EndpointRests' /\ ChallengesRestOnCustody'
    BY <2>1, <2>2
       DEF CustodyInv, EndpointRests, RestsOnCustody, Custodied, ChallengesRestOnCustody
  <2> QED BY <1>1, <2>1, <2>3, <2>4, FinishKeepsCustody
<1>4. ASSUME NEW r \in Requests, Handler(r) PROVE CustodyInv'
  BY <1>4, HandlerKeepsCustody
<1>5. ASSUME NEW w \in writes, CoreStores(w) PROVE CustodyInv'
  <2>1. w.name \in Names /\ w.value \in Values /\ w.value \in drawn
    BY <1>1 DEF Write
  <2>2. /\ writes' = writes \ {w} /\ storage' = [storage EXCEPT ![w.name] = w.value]
        /\ held' = held \cup {<<w.name, w.value>>}
        /\ UNCHANGED <<calls, endpoint, drawn, reported, issued, sole>>
    BY <1>5 DEF CoreStores
  <2>3. TypeOK'
    <3>1. storage' \in [Names -> Maybe] /\ held' \in SUBSET (Names \X Values)
      BY <2>1, <2>2 DEF CustodyInv, TypeOK, Maybe
    <3> QED BY <2>2, <3>1 DEF CustodyInv, TypeOK
  <2>4. CallsFit'
    BY <2>2 DEF CustodyInv, CallsFit, Fits, InProgress
  <2>5. DrawnFirst'
    BY <2>1, <2>2 DEF CustodyInv, DrawnFirst
  <2>6. StorageHeld'
    BY <2>1, <2>2 DEF CustodyInv, TypeOK, StorageHeld
  <2>7. AccountsRest' /\ EndpointRests' /\ ChallengesRestOnCustody'
    BY <2>2 DEF CustodyInv, AccountsRest, EndpointRests, RestsOnCustody, Custodied,
                ChallengesRestOnCustody, InProgress
  <2>8. LateStays' /\ ReplacedOnlyUnread'
    BY <2>1, <2>2
       DEF CustodyInv, TypeOK, Call, LateStays, ReplacedOnlyUnread, InProgress, At
  <2> QED BY <2>3, <2>4, <2>5, <2>6, <2>7, <2>8 DEF CustodyInv
<1>6. ASSUME NEW w \in writes, CoreRefuses(w) PROVE CustodyInv'
  BY <1>6 DEF CoreRefuses, CustodyInv, TypeOK, CallsFit, Fits, InProgress, DrawnFirst,
              StorageHeld, AccountsRest, EndpointRests, RestsOnCustody, Custodied,
              ChallengesRestOnCustody, LateStays, ReplacedOnlyUnread, At
<1>7. CASE Restart
  <2>1. calls' \in [Requests -> Call \cup {Waiting, Over}]
        /\ \A r \in Requests : ~InProgress(r)'
    BY <1>7 DEF Restart, CustodyInv, TypeOK, InProgress
  <2>2. endpoint' = Nothing /\ UNCHANGED <<storage, writes, drawn, held, reported, issued, sole>>
    BY <1>7 DEF Restart
  <2>3. TypeOK'
    BY <2>1, <2>2 DEF CustodyInv, TypeOK
  <2> QED BY <2>1, <2>2, <2>3
          DEF CustodyInv, CallsFit, DrawnFirst, StorageHeld, AccountsRest, EndpointRests,
              Custodied, ChallengesRestOnCustody, LateStays, ReplacedOnlyUnread, At
<1>8. CASE UNCHANGED vars
  BY <1>8 DEF vars, CustodyInv, TypeOK, CallsFit, Fits, InProgress, DrawnFirst,
              StorageHeld, AccountsRest, EndpointRests, RestsOnCustody, Custodied,
              ChallengesRestOnCustody, LateStays, ReplacedOnlyUnread, At
<1> QED BY <1>2, <1>3, <1>4, <1>5, <1>6, <1>7, <1>8 DEF Next

(***************************************************************************)
(* No value drawn for a name that has one.                                 *)
(***************************************************************************)
LEMMA InitKept == Init => KeptInv
<1> SUFFICES ASSUME Init PROVE KeptInv
  OBVIOUS
<1>1. \A r \in Requests : ~InProgress(r)
  BY DEF Init, InProgress
<1> QED BY <1>1 DEF Init, KeptInv, OneDraw, Writing, WriteAwaited, SealingFirst, StoredIsThere,
                    AccountsAgree, AllAgree, At

\* What storage finds stays while storage does.
LEMMA FoundStays ==
    ASSUME UNCHANGED storage
    PROVE  \A name : Found(name)' = Found(name)
BY DEF Found, FromEnv

\* A step of one request that neither draws nor sends a value, and after which
\* the request is not where it would.
LEMMA RequestKeepsKept ==
    ASSUME KeptInv, sole, NEW r \in Requests,
           \A q \in Requests \ {r} : calls'[q] = calls[q],
           ~Writing(r)', UNCHANGED <<storage, writes, held>>, AllAgree',
           InProgress(r)' /\ calls'[r].name = "server-secret" => calls'[r].account = Found("wallet")
    PROVE  KeptInv'
<1>1. \A q \in Requests :
          /\ Writing(q)' => q # r /\ Writing(q)
          /\ At(q, "seal")' => q # r /\ At(q, "seal")
          /\ At(q, "set")' => q # r /\ At(q, "set")
  BY DEF Writing, At, InProgress
<1>2. OneDraw'
  BY <1>1 DEF KeptInv, OneDraw
<1>3. WriteAwaited'
  <2> SUFFICES ASSUME NEW w \in writes
               PROVE  /\ Found(w.name)' = Nothing
                      /\ \A u \in writes : u.name = w.name => u = w
                      /\ \A q \in Requests :
                            Writing(q)' /\ calls'[q].name = w.name
                                => At(q, "set")' /\ calls'[q].value = w.value
    BY DEF WriteAwaited
  <2>1. Found(w.name)' = Nothing /\ \A u \in writes : u.name = w.name => u = w
    BY FoundStays DEF KeptInv, WriteAwaited
  <2>2. ASSUME NEW q \in Requests, Writing(q)', calls'[q].name = w.name
        PROVE  At(q, "set")' /\ calls'[q].value = w.value
    <3>1. q # r /\ Writing(q) /\ calls'[q] = calls[q]
      BY <1>1, <2>2
    <3>2. At(q, "set") /\ calls[q].value = w.value
      BY <2>2, <3>1 DEF KeptInv, WriteAwaited
    <3> QED BY <3>1, <3>2 DEF At, InProgress
  <2> QED BY <2>1, <2>2
<1>4. SealingFirst' /\ StoredIsThere'
  BY <1>1, FoundStays DEF KeptInv, SealingFirst, StoredIsThere
<1>5. AccountsAgree'
  BY FoundStays DEF KeptInv, AccountsAgree, InProgress
<1> QED BY <1>2, <1>3, <1>4, <1>5 DEF KeptInv

\* The request is over, and what it said agrees with storage.
LEMMA FinishKeepsKept ==
    ASSUME TypeOK, sole, KeptInv, NEW r \in Requests, InProgress(r), Finish(r),
           UNCHANGED <<storage, writes, held>>, AllAgree'
    PROVE  KeptInv'
<1>1. ~InProgress(r)' /\ \A q \in Requests \ {r} : calls'[q] = calls[q]
  BY Finishes
<1>2. ~Writing(r)'
  BY <1>1 DEF Writing, At
<1> QED BY <1>1, <1>2, RequestKeepsKept

\* A value drawn where custody had none, and none was on its way there.
LEMMA DrawKeepsKept ==
    ASSUME CustodyInv, KeptInv, sole, sole', NEW r \in Requests, InProgress(r), Draw(r)
    PROVE  KeptInv'
<1> DEFINE unread == Found(calls[r].name) # Nothing
           name == calls[r].name
<1> PICK v \in Values \ drawn :
        /\ drawn' = drawn \cup {v}
        /\ calls' = [calls EXCEPT ![r].pc = "seal", ![r].value = v, ![r].unread = unread]
  BY DEF Draw
<1>1. /\ calls[r].pc = "read" /\ Found(name) = Nothing /\ ~OnItsWay(name)
      /\ UNCHANGED <<storage, writes, endpoint, held, reported, issued>>
  BY DEF Draw, At
<1>2. /\ calls'[r].pc = "seal" /\ calls'[r].value = v
      /\ calls'[r].name = name /\ calls'[r].account = calls[r].account
      /\ \A q \in Requests \ {r} : calls'[q] = calls[q]
  BY Draws DEF CustodyInv
<1>3. name \in Names /\ <<name, v>> \notin held
  BY CallFields DEF CustodyInv, DrawnFirst
<1> HIDE DEF unread, name
<1>4. \A q \in Requests \ {r} :
          /\ Writing(q)' <=> Writing(q)
          /\ At(q, "seal")' <=> At(q, "seal")
          /\ At(q, "set")' <=> At(q, "set")
          /\ calls'[q] = calls[q]
  BY <1>2 DEF Writing, At, InProgress
<1>5. /\ \A w \in writes : w.name # name
      /\ \A q \in Requests : Writing(q) => calls[q].name # name
  BY <1>1 DEF OnItsWay, Writing
<1>6. ~At(r, "set")'
  BY <1>2 DEF At
<1>7. OneDraw'
  BY <1>2, <1>4, <1>5 DEF KeptInv, OneDraw
<1>8. WriteAwaited'
  <2>1. \A w \in writes : Found(w.name)' = Nothing /\ \A u \in writes : u.name = w.name => u = w
    BY <1>1, FoundStays DEF KeptInv, WriteAwaited
  <2>2. ASSUME NEW w \in writes, NEW q \in Requests, Writing(q)', calls'[q].name = w.name
        PROVE  At(q, "set")' /\ calls'[q].value = w.value
    <3>1. q # r
      BY <1>2, <1>5, <2>2
    <3> QED BY <1>4, <2>2, <3>1 DEF KeptInv, WriteAwaited
  <2> QED BY <1>1, <2>1, <2>2 DEF WriteAwaited
<1>9. SealingFirst'
  <2> SUFFICES ASSUME NEW q \in Requests, At(q, "seal")'
               PROVE  /\ Found(calls[q].name)' = Nothing
                      /\ <<calls'[q].name, calls'[q].value>> \notin held
    BY <1>1 DEF SealingFirst
  <2>1. CASE q = r
    <3>1. calls'[q].name = name /\ calls'[q].value = v
      BY <1>2, <2>1
    <3>2. Found(calls[q].name)' = Nothing
      BY <1>1, <3>1 DEF Found, FromEnv
    <3> QED BY <1>3, <3>1, <3>2
  <2>2. CASE q # r
    <3>1. calls'[q] = calls[q] /\ At(q, "seal")
      BY <1>4, <2>2
    <3>2. Found(calls[q].name) = Nothing /\ <<calls[q].name, calls[q].value>> \notin held
      BY <3>1 DEF KeptInv, SealingFirst
    <3> QED BY <1>1, <3>1, <3>2 DEF Found, FromEnv
  <2> QED BY <2>1, <2>2
<1>10. StoredIsThere'
  <2> SUFFICES ASSUME NEW q \in Requests, At(q, "set")'
               PROVE  IF <<calls'[q].name, calls'[q].value>> \in held
                      THEN Found(calls[q].name)' = calls'[q].value
                      ELSE Found(calls[q].name)' = Nothing
    BY <1>1 DEF StoredIsThere
  <2>1. calls'[q] = calls[q] /\ At(q, "set")
    BY <1>4, <1>6
  <2> QED BY <1>1, <2>1 DEF KeptInv, StoredIsThere, Found, FromEnv
<1>11. AccountsAgree'
  BY <1>1, <1>2, <1>4, FoundStays DEF KeptInv, AccountsAgree, InProgress, name
<1>12. AllAgree'
  BY <1>1, FoundStays DEF KeptInv, AllAgree, Agrees
<1> QED BY <1>7, <1>8, <1>9, <1>10, <1>11, <1>12 DEF KeptInv

LEMMA SealedKeepsKept ==
    ASSUME CustodyInv, KeptInv, sole, NEW r \in Requests, InProgress(r), Sealed(r)
    PROVE  KeptInv'
<1> DEFINE w == [name |-> calls[r].name, value |-> calls[r].value]
<1>1. calls[r].pc = "seal" /\ writes' = writes \cup {w} /\ Goto(r, "set")
      /\ UNCHANGED <<storage, endpoint, drawn, held, reported, issued, sole>>
  BY DEF Sealed, At
<1>2. /\ calls'[r].pc = "set" /\ calls'[r].name = calls[r].name
      /\ calls'[r].account = calls[r].account /\ calls'[r].value = calls[r].value
      /\ \A q \in Requests \ {r} : calls'[q] = calls[q]
  BY <1>1, Goes DEF CustodyInv, PCs
<1>3. At(r, "seal") /\ Writing(r) /\ ~At(r, "set") /\ ~At(r, "seal")'
  BY <1>1, <1>2 DEF Writing, At
<1>4. Found(calls[r].name) = Nothing /\ <<calls[r].name, calls[r].value>> \notin held
  BY <1>3 DEF KeptInv, SealingFirst
<1>5. w.name = calls[r].name /\ w.value = calls[r].value
  OBVIOUS
<1>6. \A u \in writes : u.name # calls[r].name
  BY <1>3 DEF KeptInv, WriteAwaited
<1> HIDE DEF w
<1>7. \A q \in Requests \ {r} :
          /\ Writing(q)' <=> Writing(q)
          /\ At(q, "seal")' <=> At(q, "seal")
          /\ At(q, "set")' <=> At(q, "set")
          /\ calls'[q] = calls[q]
  BY <1>2 DEF Writing, At, InProgress
<1>8. \A q \in Requests \ {r} : Writing(q) => calls[q].name # calls[r].name
  BY <1>3 DEF KeptInv, OneDraw
<1>9. OneDraw'
  BY <1>2, <1>3, <1>7 DEF KeptInv, OneDraw
<1>10. WriteAwaited'
  <2> SUFFICES ASSUME NEW u \in writes'
               PROVE  /\ Found(u.name)' = Nothing
                      /\ \A x \in writes' : x.name = u.name => x = u
                      /\ \A q \in Requests :
                            Writing(q)' /\ calls'[q].name = u.name
                                => At(q, "set")' /\ calls'[q].value = u.value
    BY DEF WriteAwaited
  <2>1. CASE u = w
    <3>1. Found(u.name)' = Nothing
      BY <1>1, <1>4, <1>5, <2>1 DEF Found, FromEnv
    <3>2. \A x \in writes' : x.name = u.name => x = u
      BY <1>1, <1>5, <1>6, <2>1
    <3>3. \A q \in Requests : Writing(q)' /\ calls'[q].name = u.name => q = r
      BY <1>5, <1>7, <1>8, <2>1
    <3>4. Writing(r)' => At(r, "set")' /\ calls'[r].value = u.value
      BY <1>2, <1>3, <1>5, <2>1 DEF Writing
    <3> QED BY <3>1, <3>2, <3>3, <3>4
  <2>2. CASE u # w
    <3>1. u \in writes /\ u.name # calls[r].name
      BY <1>1, <1>6, <2>2
    <3>2. Found(u.name)' = Nothing
      BY <1>1, <3>1 DEF KeptInv, WriteAwaited, Found, FromEnv
    <3>3. \A x \in writes' : x.name = u.name => x = u
      BY <1>1, <1>5, <3>1 DEF KeptInv, WriteAwaited
    <3>4. ASSUME NEW q \in Requests, Writing(q)', calls'[q].name = u.name
          PROVE  At(q, "set")' /\ calls'[q].value = u.value
      <4>1. q # r
        BY <1>2, <3>1, <3>4
      <4> QED BY <1>7, <3>1, <3>4, <4>1 DEF KeptInv, WriteAwaited
    <3> QED BY <3>2, <3>3, <3>4
  <2> QED BY <2>1, <2>2
<1>11. SealingFirst'
  <2> SUFFICES ASSUME NEW q \in Requests, At(q, "seal")'
               PROVE  /\ Found(calls[q].name)' = Nothing
                      /\ <<calls'[q].name, calls'[q].value>> \notin held
    BY <1>1 DEF SealingFirst
  <2>1. calls'[q] = calls[q] /\ At(q, "seal")
    BY <1>3, <1>7
  <2>2. Found(calls[q].name) = Nothing /\ <<calls[q].name, calls[q].value>> \notin held
    BY <2>1 DEF KeptInv, SealingFirst
  <2> QED BY <1>1, <2>1, <2>2 DEF Found, FromEnv
<1>12. StoredIsThere'
  <2> SUFFICES ASSUME NEW q \in Requests, At(q, "set")'
               PROVE  IF <<calls'[q].name, calls'[q].value>> \in held
                      THEN Found(calls[q].name)' = calls'[q].value
                      ELSE Found(calls[q].name)' = Nothing
    BY <1>1 DEF StoredIsThere
  <2>1. CASE q = r
    <3>1. <<calls'[q].name, calls'[q].value>> \notin held
      BY <1>2, <1>4, <2>1
    <3>2. Found(calls[q].name)' = Nothing
      BY <1>1, <1>2, <1>4, <2>1 DEF Found, FromEnv
    <3> QED BY <3>1, <3>2
  <2>2. CASE q # r
    <3>1. calls'[q] = calls[q] /\ At(q, "set")
      BY <1>7, <2>2
    <3> QED BY <1>1, <3>1 DEF KeptInv, StoredIsThere, Found, FromEnv
  <2> QED BY <2>1, <2>2
<1>13. AccountsAgree'
  BY <1>1, <1>2, <1>7, FoundStays DEF KeptInv, AccountsAgree, InProgress
<1>14. AllAgree'
  BY <1>1, FoundStays DEF KeptInv, AllAgree, Agrees
<1> QED BY <1>9, <1>10, <1>11, <1>12, <1>13, <1>14 DEF KeptInv

LEMMA HandlerKeepsKept ==
    ASSUME CustodyInv, KeptInv, sole, sole', NEW r \in Requests, Handler(r)
    PROVE  KeptInv'
<1>1. InProgress(r)
  BY DEF Handler, FoundWallet, FoundSecret, NoWallet, Draw, Sealed, Stored, Funded, Report,
         CallFails, At
<1>4. ASSUME UNCHANGED <<storage, endpoint, issued, reported>> PROVE AllAgree'
  BY <1>4, FoundStays DEF KeptInv, AllAgree, Agrees
<1>5. ASSUME Finish(r), UNCHANGED <<storage, writes, endpoint, drawn, held, issued, reported, sole>>
      PROVE  KeptInv'
  BY <1>1, <1>4, <1>5, FinishKeepsKept DEF CustodyInv
<1>6. ASSUME NEW label \in {"faucet", "report"}, Goto(r, label),
             UNCHANGED <<storage, writes, endpoint, drawn, held, issued, reported, sole>>
      PROVE  KeptInv'
  <2>1. /\ calls'[r].pc = label /\ calls'[r].name = calls[r].name
        /\ calls'[r].account = calls[r].account
        /\ \A q \in Requests \ {r} : calls'[q] = calls[q]
    BY <1>1, <1>6, Goes DEF CustodyInv, PCs
  <2>2. ~Writing(r)'
    BY <2>1 DEF Writing, At
  <2>3. calls'[r].name = "server-secret" => calls'[r].account = Found("wallet")
    BY <1>1, <2>1 DEF KeptInv, AccountsAgree
  <2> QED BY <1>4, <1>6, <2>1, <2>2, <2>3, RequestKeepsKept
<1>7. ASSUME calls[r].name = "server-secret",
             NEW secret \in Values, <<"server-secret", secret>> \in held,
             secret = storage["server-secret"], Bind(r, secret),
             UNCHANGED <<storage, writes, drawn, held, reported, sole>>
      PROVE  KeptInv'
  <2>1. /\ endpoint'.secret = secret /\ endpoint'.recipient = calls[r].account
        /\ issued' = issued \cup {endpoint'} /\ Finish(r)
    BY <1>1, <1>7, Binds
  <2>2. calls[r].account = Found("wallet")
    BY <1>1, <1>7 DEF KeptInv, AccountsAgree
  <2>3. AllAgree'
    BY <1>7, <2>1, <2>2, FoundStays DEF KeptInv, AllAgree, Agrees
  <2> QED BY <1>1, <1>7, <2>1, <2>3, FinishKeepsKept DEF CustodyInv
<1>8. CASE FoundWallet(r)
  <2>1. /\ calls[r].pc = "read" /\ Found("wallet") # Nothing
        /\ UNCHANGED <<storage, writes, endpoint, drawn, held, reported, issued, sole>>
    BY <1>8 DEF FoundWallet, At
  <2>2. CASE Finish(r)
    BY <1>5, <2>1, <2>2
  <2>3. CASE Goto(r, "faucet")
    BY <1>6, <2>1, <2>3
  <2>4. CASE calls' = [calls EXCEPT ![r].name = "server-secret",
                                    ![r].account = Found("wallet")]
    <3>1. Found("wallet") \in Values
      BY <2>1, FoundIsCustodied DEF CustodyInv
    <3>2. /\ calls'[r].name = "server-secret" /\ calls'[r].account = Found("wallet")
          /\ calls'[r].pc = calls[r].pc
          /\ \A q \in Requests \ {r} : calls'[q] = calls[q]
      BY <1>1, <2>4, <3>1, GoesOnToSecret DEF CustodyInv
    <3>3. ~Writing(r)'
      BY <2>1, <3>2 DEF Writing, At
    <3> QED BY <1>4, <2>1, <3>2, <3>3, RequestKeepsKept
  <2> QED BY <1>8, <2>2, <2>3, <2>4 DEF FoundWallet
<1>9. CASE FoundSecret(r)
  <2>1. storage["server-secret"] \in Values
        /\ <<"server-secret", storage["server-secret"]>> \in held
    BY <1>9 DEF FoundSecret, CustodyInv, TypeOK, StorageHeld, Names, Maybe
  <2> QED BY <1>7, <1>9, <2>1 DEF FoundSecret, At
<1>10. CASE NoWallet(r) \/ CallFails(r)
  BY <1>5, <1>10 DEF NoWallet, CallFails
<1>11. CASE Draw(r)
  BY <1>1, <1>11, DrawKeepsKept
<1>12. CASE Sealed(r)
  BY <1>1, <1>12, SealedKeepsKept
<1>13. CASE Stored(r)
  <2>1. /\ calls[r].pc = "set" /\ <<calls[r].name, calls[r].value>> \in held
        /\ UNCHANGED <<storage, writes, drawn, held, reported, sole>>
    BY <1>13 DEF Stored, At
  <2>2. Found(calls[r].name) = calls[r].value
    BY <1>1, <2>1 DEF KeptInv, StoredIsThere, At
  <2>3. CASE Goto(r, "report") /\ UNCHANGED <<endpoint, issued>>
    BY <1>6, <2>1, <2>2, <2>3
  <2>4. CASE calls[r].op = "paid" /\ Bind(r, calls[r].value)
    <3>1. calls[r].name = "server-secret" /\ calls[r].value \in Values
      BY <1>1, <2>1, <2>4 DEF CustodyInv, CallsFit, Fits, TypeOK
    <3>2. storage["server-secret"] = calls[r].value
      BY <2>2, <3>1 DEF Found, FromEnv
    <3> QED BY <1>7, <2>1, <2>4, <3>1, <3>2
  <2> QED BY <1>13, <2>3, <2>4 DEF Stored
<1>14. CASE Funded(r)
  BY <1>6, <1>14 DEF Funded, At
<1>15. CASE Report(r)
  <2>1. /\ reported' \subseteq reported \cup {Found("wallet")} /\ Finish(r)
        /\ UNCHANGED <<storage, writes, endpoint, drawn, held, issued, sole>>
    BY <1>15 DEF Report, Reads
  <2>2. AllAgree'
    BY <2>1, FoundStays DEF KeptInv, AllAgree, Agrees
  <2> QED BY <1>1, <2>1, <2>2, FinishKeepsKept DEF CustodyInv
<1> QED BY <1>8, <1>9, <1>10, <1>11, <1>12, <1>13, <1>14, <1>15 DEF Handler

LEMMA CoreStoresKeepsKept ==
    ASSUME CustodyInv, KeptInv, sole, NEW w \in writes, CoreStores(w)
    PROVE  KeptInv'
<1>1. w.name \in Names /\ w.value \in Values
  BY DEF CustodyInv, TypeOK, Write
<1>2. /\ writes' = writes \ {w} /\ storage' = [storage EXCEPT ![w.name] = w.value]
      /\ held' = held \cup {<<w.name, w.value>>}
      /\ UNCHANGED <<calls, endpoint, drawn, reported, issued, sole>>
  BY DEF CoreStores
<1>3. /\ Found(w.name) = Nothing
      /\ \A u \in writes' : u.name # w.name
      /\ \A r \in Requests :
            Writing(r) /\ calls[r].name = w.name => At(r, "set") /\ calls[r].value = w.value
  BY <1>2 DEF KeptInv, WriteAwaited
<1>4. /\ storage[w.name] = Nothing /\ (w.name = "wallet" => EnvKey = Nothing)
      /\ Found(w.name)' = w.value
      /\ \A n \in Names \ {w.name} : storage'[n] = storage[n] /\ Found(n)' = Found(n)
  BY <1>1, <1>2, <1>3 DEF Found, FromEnv, CustodyInv, TypeOK, Names
<1>5. \A b \in Binding : Agrees(b) => Agrees(b)'
  BY <1>1, <1>3, <1>4 DEF Agrees, Binding, Names, Found, FromEnv
<1>6. AllAgree'
  <2>1. endpoint \in Binding \cup {Nothing} /\ issued \subseteq Binding
    BY DEF CustodyInv, TypeOK
  <2>2. \A key \in reported' : key = Found("wallet")'
    <3> SUFFICES ASSUME NEW key \in reported PROVE key = Found("wallet")'
      BY <1>2
    <3>1. key = Found("wallet") /\ key \in Values
      BY DEF KeptInv, AllAgree, CustodyInv, TypeOK
    <3> QED BY <1>1, <1>3, <1>4, <3>1 DEF Names
  <2> QED BY <1>2, <1>5, <2>1, <2>2 DEF KeptInv, AllAgree, Agrees
<1>7. \A r \in Requests :
          /\ Writing(r)' <=> Writing(r)
          /\ At(r, "seal")' <=> At(r, "seal")
          /\ At(r, "set")' <=> At(r, "set")
          /\ InProgress(r)' <=> InProgress(r)
          /\ calls'[r] = calls[r]
  BY <1>2 DEF Writing, At, InProgress
<1>8. OneDraw'
  BY <1>7 DEF KeptInv, OneDraw
<1>9. WriteAwaited'
  <2> SUFFICES ASSUME NEW u \in writes'
               PROVE  /\ Found(u.name)' = Nothing
                      /\ \A x \in writes' : x.name = u.name => x = u
                      /\ \A q \in Requests :
                            Writing(q)' /\ calls'[q].name = u.name
                                => At(q, "set")' /\ calls'[q].value = u.value
    BY DEF WriteAwaited
  <2>1. u \in writes /\ u.name # w.name /\ u.name \in Names
    BY <1>2, <1>3 DEF CustodyInv, TypeOK, Write
  <2>2. Found(u.name)' = Nothing
    BY <1>4, <2>1 DEF KeptInv, WriteAwaited
  <2>3. /\ \A x \in writes' : x.name = u.name => x = u
        /\ \A q \in Requests :
              Writing(q) /\ calls[q].name = u.name => At(q, "set") /\ calls[q].value = u.value
    BY <1>2, <2>1 DEF KeptInv, WriteAwaited
  <2> QED BY <1>7, <2>2, <2>3
<1>10. SealingFirst' /\ StoredIsThere'
  <2> SUFFICES ASSUME NEW r \in Requests, Writing(r)
               PROVE  /\ At(r, "seal") =>
                            /\ Found(calls[r].name)' = Nothing
                            /\ <<calls[r].name, calls[r].value>> \notin held'
                      /\ At(r, "set") =>
                            IF <<calls[r].name, calls[r].value>> \in held'
                            THEN Found(calls[r].name)' = calls[r].value
                            ELSE Found(calls[r].name)' = Nothing
    BY <1>2, <1>7 DEF SealingFirst, StoredIsThere, Writing
  <2>1. calls[r].name \in Names
    BY CallFields DEF CustodyInv, Writing, At
  <2>2. CASE calls[r].name = w.name
    <3>1. At(r, "set") /\ ~At(r, "seal") /\ calls[r].value = w.value
      BY <1>3, <2>2 DEF At
    <3>2. <<calls[r].name, calls[r].value>> \in held'
      BY <1>2, <2>2, <3>1
    <3>3. Found(calls[r].name)' = calls[r].value
      BY <1>2, <1>4, <2>2, <3>1 DEF Found, FromEnv
    <3> QED BY <3>1, <3>2, <3>3
  <2>3. CASE calls[r].name # w.name
    <3>1. <<calls[r].name, calls[r].value>> \in held'
              <=> <<calls[r].name, calls[r].value>> \in held
      BY <1>2, <2>3
    <3>2. Found(calls[r].name)' = Found(calls[r].name)
      BY <1>2, <1>4, <2>1, <2>3 DEF Found, FromEnv
    <3> QED BY <3>1, <3>2 DEF KeptInv, SealingFirst, StoredIsThere
  <2> QED BY <2>2, <2>3
<1>11. AccountsAgree'
  <2> SUFFICES ASSUME NEW r \in Requests, InProgress(r), calls[r].name = "server-secret"
               PROVE  calls[r].account = Found("wallet")'
    BY <1>7 DEF AccountsAgree
  <2>1. calls[r].account = Found("wallet") /\ calls[r].account \in Values
    BY DEF KeptInv, AccountsAgree, CustodyInv, CallsFit, Fits
  <2> QED BY <1>1, <1>3, <1>4, <2>1 DEF Names
<1> QED BY <1>6, <1>8, <1>9, <1>10, <1>11 DEF KeptInv

LEMMA NextKept == CustodyInv /\ KeptInv /\ [Next]_vars => KeptInv'
<1> SUFFICES ASSUME CustodyInv, KeptInv, [Next]_vars PROVE KeptInv'
  OBVIOUS
<1>1. sole' => sole
  BY DEF Next, Arrive, PaidAgain, Handler, FoundWallet, FoundSecret, NoWallet, Draw, Sealed,
         Stored, Funded, Report, CallFails, CoreStores, CoreRefuses, Restart, vars
<1> SUFFICES ASSUME sole, sole' PROVE KeptInv'
  BY <1>1 DEF KeptInv
<1>2. ASSUME NEW r \in Requests, NEW op \in Ops, Arrive(r, op) PROVE KeptInv'
  <2>1. UNCHANGED <<storage, writes, endpoint, drawn, held, reported, issued, sole>>
    BY <1>2 DEF Arrive
  <2>2. /\ calls'[r].pc \in {"read", "report"} /\ calls'[r].name = "wallet"
        /\ \A q \in Requests \ {r} : calls'[q] = calls[q]
    BY <1>2, Arrives DEF CustodyInv
  <2>3. ~Writing(r)'
    BY <2>2 DEF Writing, At
  <2>4. AllAgree'
    BY <2>1, FoundStays DEF KeptInv, AllAgree, Agrees
  <2> QED BY <2>1, <2>2, <2>3, <2>4, RequestKeepsKept
<1>3. ASSUME NEW r \in Requests, PaidAgain(r) PROVE KeptInv'
  <2>1. /\ Finish(r) /\ endpoint # Nothing /\ issued' = issued \cup {endpoint}
        /\ UNCHANGED <<storage, writes, endpoint, drawn, held, reported, sole>>
    BY <1>3 DEF PaidAgain
  <2>2. ~InProgress(r)' /\ \A q \in Requests \ {r} : calls'[q] = calls[q]
    BY <2>1, Finishes DEF CustodyInv
  <2>3. AllAgree'
    BY <2>1, FoundStays DEF KeptInv, AllAgree, Agrees
  <2>4. ~Writing(r)'
    BY <2>2 DEF Writing, At
  <2> QED BY <2>1, <2>2, <2>3, <2>4, RequestKeepsKept
<1>4. ASSUME NEW w \in writes, CoreRefuses(w) PROVE KeptInv'
  <2>1. /\ writes' = writes \ {w}
        /\ UNCHANGED <<storage, calls, endpoint, drawn, held, reported, issued, sole>>
    BY <1>4 DEF CoreRefuses
  <2> QED BY <2>1, FoundStays
          DEF KeptInv, OneDraw, Writing, WriteAwaited, SealingFirst, StoredIsThere, AccountsAgree,
              AllAgree, Agrees, At, InProgress
<1>5. CASE Restart
  <2>1. /\ \A q \in Requests : ~InProgress(q)'
        /\ endpoint' = Nothing
        /\ UNCHANGED <<storage, writes, drawn, held, reported, issued, sole>>
    BY <1>5 DEF Restart, InProgress
  <2>2. OneDraw' /\ SealingFirst' /\ StoredIsThere' /\ AccountsAgree'
    BY <2>1 DEF OneDraw, Writing, SealingFirst, StoredIsThere, AccountsAgree, At
  <2>3. WriteAwaited'
    BY <2>1, FoundStays DEF KeptInv, WriteAwaited, Writing, At
  <2>4. AllAgree'
    <3>1. storage' = storage /\ issued' = issued /\ reported' = reported
      BY <2>1
    <3>2. \A b \in issued : Agrees(b)'
      BY <3>1 DEF KeptInv, AllAgree, Agrees, Found, FromEnv
    <3>3. \A key \in reported : key = Found("wallet")'
      BY <3>1 DEF KeptInv, AllAgree, Found, FromEnv
    <3> QED BY <2>1, <3>1, <3>2, <3>3 DEF AllAgree
  <2> QED BY <2>2, <2>3, <2>4 DEF KeptInv
<1>6. CASE UNCHANGED vars
  BY <1>6, FoundStays DEF vars, KeptInv, OneDraw, Writing, WriteAwaited, SealingFirst, StoredIsThere,
              AccountsAgree, AllAgree, Agrees, At, InProgress
<1> QED BY <1>2, <1>3, <1>4, <1>5, <1>6, HandlerKeepsKept, CoreStoresKeepsKept DEF Next

(***************************************************************************)
(* The theorems.                                                           *)
(***************************************************************************)
\* Every challenge rests on a secret and a wallet that custody has held, however
\* requests, Core's writes and restarts interleave (wallet.ts:182-184).
THEOREM ChallengesRestCorrect == Spec => []ChallengesRestOnCustody
<1>1. CustodyInv => ChallengesRestOnCustody
  BY DEF CustodyInv
<1> QED BY <1>1, InitCustody, NextCustody, PTL DEF Spec

\* A create or a first use of the paid endpoint that meets a value in custody
\* writes another only if the answer to its read was lost (wallet.ts:74-78,
\* 153-161, 177-184), for any overlap, late write and restart.
THEOREM ReplacedOnlyUnreadCorrect == Spec => []ReplacedOnlyUnread
<1>1. CustodyInv => ReplacedOnlyUnread
  BY DEF CustodyInv
<1> QED BY <1>1, InitCustody, NextCustody, PTL DEF Spec

\* Every challenge and every reported address stays with custody, whatever
\* requests overlap, fail or are written late, for as long as no value is drawn
\* for a name that has one, in custody or on its way there (wallet.ts:153-185).
THEOREM KeptUnlessDrawnTwiceCorrect == Spec => []KeptUnlessDrawnTwice
<1>1. KeptInv => KeptUnlessDrawnTwice
  BY DEF KeptInv, AllAgree, Agrees, KeptUnlessDrawnTwice, ChallengesStayBound, ReportedKeysKept
<1> QED BY <1>1, InitCustody, NextCustody, InitKept, NextKept, PTL DEF Spec

(***************************************************************************)
(* McpSession: sessions and outcomes.                                      *)
(***************************************************************************)
Agreed(session) == \E a \in agreed : a.session = session

\* The server asked for this payment in a tool call on this session.
AskedOn(session, ch) ==
    \E q \in posts :
        /\ q.method = "call" /\ q.credential = None /\ q.session = session
        /\ \E s \in said : s.call = q.call /\ s.says.challenge = ch

\* What a call may fail with on its way, and what only its tools/call settles.
Codes ==
    Failures \cup {"invalid_request", "unsupported_mcp_version", "mcp_discovery_failed",
                  "mcp_initialize_failed", "egress_failed"}
Settled == {"paid", "payment_required", "payment_failed", "challenge_changed"}
Outcomes ==
    Codes \cup Settled \cup {"invalid_mcp_response", "mcp_tool_error", "ready", "missing_receipt"}

ToolCallState ==
    [pc : {"idle", "discover", "initialize", "initialized", "call", "ended"},
     session : Sessions \cup {NoSession}, credential : Challenges \cup {None},
     outcome : Outcomes \cup {None}]

McpTypeOK ==
    /\ toolCalls \in [Calls -> ToolCallState]
    /\ pending \in SUBSET [call : Calls, challenge : Challenges, session : Sessions]

CallsPosted ==
    \A c \in Calls :
        toolCalls[c].pc = "call" =>
            /\ toolCalls[c].session \in Sessions
            /\ Agreed(toolCalls[c].session)
            /\ [call |-> c, method |-> "call", session |-> toolCalls[c].session,
                credential |-> toolCalls[c].credential] \in posts

LegacyNotified == \A c \in Calls : toolCalls[c].pc = "initialized" => toolCalls[c].session \in Sessions

ParkedWereAsked == \A p \in pending : Agreed(p.session) /\ AskedOn(p.session, p.challenge)

CredentialsWereAsked ==
    \A p \in posts :
        p.credential # None => p.method = "call" /\ AskedOn(p.session, p.credential)

McpInv ==
    /\ McpTypeOK /\ CallsPosted /\ LegacyNotified
    /\ ParkedWereAsked /\ ToolCallsAgreed /\ CredentialsWereAsked
    /\ OutcomeWasSaid

\* The message a tool call answers with is one the server sent under its id.
LEMMA AnswerWasSent ==
    ASSUME NEW hasId \in BOOLEAN, NEW a \in Answers["call"][hasId],
           Asks(a.says) \/ a.says.content = "receipt"
    PROVE  /\ a.says \in a.own
           /\ a.says \in Envelopes
<1>1. PICK r \in Responses :
          /\ a.says = Posted(r, "call", hasId)
          /\ a.own = {piece.says : piece \in {q \in Range(r.body) : q.id = "own"}}
  BY DEF Answers
<1> DEFINE matching == {i \in DOMAIN r.body : Matches(r.body[i], "call")}
<1>2. r.body \in Bodies
  BY DEF Responses
<1>3. matching # {} /\ a.says = r.body[Min(matching)].says
  BY <1>1 DEF Posted, Failure, Failures, NoMessage, Said, Asks
<1>4. \A n \in Noise : n.id # "own"
  <2>1. \A e : [id |-> "other", says |-> e].id = "other" /\ [id |-> "junk", says |-> e].id = "junk"
    OBVIOUS
  <2> QED BY <2>1, Zenon DEF Noise
<1>5. /\ DOMAIN r.body \subseteq {1, 2}
      /\ \A i \in DOMAIN r.body : r.body[i].id = "own" => r.body[i].says \in Envelopes
  BY <1>2, <1>4 DEF Bodies, Own
<1>6. Min(matching) \in matching
  <2> DEFINE least == IF 1 \in matching THEN 1 ELSE 2
  <2>1. least \in matching /\ \A y \in matching : least <= y
    BY <1>3, <1>5
  <2> HIDE DEF matching, least
  <2> QED BY <2>1 DEF Min
<1>7. r.body[Min(matching)].id = "own"
  BY <1>6 DEF Matches
<1> QED BY <1>1, <1>3, <1>5, <1>6, <1>7 DEF Range

LEMMA ModernIsSession == Modern \in Sessions
BY DEF Sessions

LEMMA WhatEnvelopesCarry ==
    ASSUME NEW e \in Envelopes
    PROVE  /\ Asks(e) => e.challenge \in Challenges
           /\ e.content = "receipt" => e = Said("receipt", None)
BY DEF Envelopes, Carries, Said, Asks

LEMMA McpInvInit == McpInit => McpInv
BY McpAssumption
   DEF McpInit, McpInv, McpTypeOK, ToolCallState, CallsPosted, LegacyNotified, ParkedWereAsked,
       ToolCallsAgreed, CredentialsWereAsked, OutcomeWasSaid, Idle, NewCall

\* What was agreed, posted and said stays.
LEMMA HistoryStays ==
    ASSUME posts \subseteq posts', agreed \subseteq agreed', said \subseteq said'
    PROVE  /\ \A session : Agreed(session) => Agreed(session)'
           /\ \A session, ch : AskedOn(session, ch) => AskedOn(session, ch)'
BY DEF Agreed, AskedOn

LEMMA FailKeeps ==
    ASSUME McpInv, NEW c \in Calls, NEW code \in Codes, Fail(c, code), UNCHANGED said
    PROVE  McpInv'
<1> USE DEF McpInv, Fail, End
<1>1. McpTypeOK'
  BY DEF McpTypeOK, ToolCallState, Outcomes
<1>2. CallsPosted' /\ LegacyNotified'
  BY DEF McpTypeOK, ToolCallState, CallsPosted, LegacyNotified, Agreed
<1>3. ParkedWereAsked' /\ ToolCallsAgreed' /\ CredentialsWereAsked'
  BY HistoryStays DEF ParkedWereAsked, ToolCallsAgreed, CredentialsWereAsked
<1>4. OutcomeWasSaid'
  BY DEF McpTypeOK, ToolCallState, OutcomeWasSaid, Codes, Failures
<1> QED BY <1>1, <1>2, <1>3, <1>4

LEMMA NegotiationKeeps ==
    ASSUME McpInv, NEW c \in Calls, NEW pc \in {"discover", "initialize", "initialized"},
           NEW session \in Sessions \cup {NoSession}, pc = "initialized" => session \in Sessions,
           toolCalls' = [toolCalls EXCEPT ![c] = NewCall(pc, session, None)],
           Post(c, pc, session, None), UNCHANGED <<pending, agreed, said>>
    PROVE  McpInv'
<1> USE DEF McpInv, NewCall, Post
<1>1. McpTypeOK'
  BY DEF McpTypeOK, ToolCallState
<1>2. CallsPosted' /\ LegacyNotified'
  BY DEF McpTypeOK, ToolCallState, CallsPosted, LegacyNotified, Agreed
<1>3. ParkedWereAsked' /\ ToolCallsAgreed' /\ CredentialsWereAsked'
  BY HistoryStays DEF ParkedWereAsked, ToolCallsAgreed, CredentialsWereAsked
<1>4. OutcomeWasSaid'
  BY McpAssumption DEF McpTypeOK, ToolCallState, OutcomeWasSaid
<1> QED BY <1>1, <1>2, <1>3, <1>4

LEMMA CallToolKeeps ==
    ASSUME McpInv, NEW c \in Calls, NEW session \in Sessions,
           NEW credential \in Challenges \cup {None},
           CallTool(c, session, credential),
           agreed \subseteq agreed', Agreed(session)',
           credential # None => AskedOn(session, credential),
           pending' \subseteq pending, UNCHANGED said
    PROVE  McpInv'
<1> USE DEF McpInv, CallTool, NewCall, Post
<1>1. McpTypeOK'
  BY DEF McpTypeOK, ToolCallState
<1>2. CallsPosted' /\ LegacyNotified'
  BY HistoryStays DEF McpTypeOK, ToolCallState, CallsPosted, LegacyNotified
<1>3. ParkedWereAsked'
  BY HistoryStays DEF ParkedWereAsked
<1>4. ToolCallsAgreed'
  BY DEF ToolCallsAgreed, Agreed
<1>5. CredentialsWereAsked'
  BY HistoryStays DEF CredentialsWereAsked
<1>6. OutcomeWasSaid'
  BY McpAssumption DEF McpTypeOK, ToolCallState, OutcomeWasSaid
<1> QED BY <1>1, <1>2, <1>3, <1>4, <1>5, <1>6

LEMMA CalledKeeps ==
    ASSUME McpInv, NEW c \in Calls, NEW hasId \in BOOLEAN, NEW a \in Answers["call"][hasId],
           Called(c, a)
    PROVE  McpInv'
<1> DEFINE e == a.says
           outcome == OutcomeOf(c, e)
<1>1. /\ toolCalls[c].pc = "call"
      /\ End(c, outcome)
      /\ pending' = pending \cup
            (IF outcome = "payment_required"
             THEN {[call |-> c, challenge |-> e.challenge, session |-> toolCalls[c].session]}
             ELSE {})
      /\ said' = said \cup {[call |-> c, says |-> own] : own \in a.own}
      /\ UNCHANGED <<posts, agreed>>
  BY DEF Called
<1>2. outcome \in Outcomes
  BY DEF OutcomeOf, Outcomes, Codes, Settled
<1>3. outcome = "paid" => e = Said("receipt", None) /\ e \in a.own
  BY AnswerWasSent, WhatEnvelopesCarry DEF OutcomeOf, Failures, Asks, Errors
<1>4. outcome \in {"payment_required", "payment_failed", "challenge_changed"} =>
          Asks(e) /\ e \in a.own /\ e.challenge \in Challenges
  BY AnswerWasSent, WhatEnvelopesCarry DEF OutcomeOf, Failures
<1>5. outcome = "payment_required" => toolCalls[c].credential = None
  BY DEF OutcomeOf, Failures
<1> HIDE DEF e, outcome
<1>6. McpTypeOK'
  <2>1. toolCalls' \in [Calls -> ToolCallState]
    BY <1>1, <1>2 DEF McpInv, McpTypeOK, ToolCallState, End
  <2>2. pending' \in SUBSET [call : Calls, challenge : Challenges, session : Sessions]
    <3>1. outcome = "payment_required" =>
              [call |-> c, challenge |-> e.challenge, session |-> toolCalls[c].session]
                  \in [call : Calls, challenge : Challenges, session : Sessions]
      BY <1>1, <1>4 DEF McpInv, CallsPosted
    <3> QED BY <1>1, <3>1 DEF McpInv, McpTypeOK
  <2> QED BY <2>1, <2>2 DEF McpTypeOK
<1>7. CallsPosted' /\ LegacyNotified'
  BY <1>1 DEF McpInv, McpTypeOK, ToolCallState, CallsPosted, LegacyNotified, Agreed, End
<1>8. ToolCallsAgreed' /\ CredentialsWereAsked'
  BY <1>1, HistoryStays DEF McpInv, ToolCallsAgreed, CredentialsWereAsked
<1>9. ParkedWereAsked'
  <2>1. PICK session \in Sessions : session = toolCalls[c].session
    BY <1>1 DEF McpInv, CallsPosted
  <2>2. outcome = "payment_required" => Agreed(session)' /\ AskedOn(session, a.says.challenge)'
    <3>1. Agreed(session)'
      BY <1>1, <2>1 DEF McpInv, CallsPosted, Agreed
    <3>2. ASSUME outcome = "payment_required" PROVE AskedOn(session, a.says.challenge)'
      <4>1. [call |-> c, method |-> "call", session |-> session, credential |-> None] \in posts'
        BY <1>1, <1>5, <2>1, <3>2 DEF McpInv, CallsPosted
      <4>2. [call |-> c, says |-> a.says] \in said'
        BY <1>1, <1>4, <3>2 DEF e
      <4> QED BY <4>1, <4>2 DEF AskedOn
    <3> QED BY <3>1, <3>2
  <2> QED BY <1>1, <2>1, <2>2, HistoryStays DEF McpInv, ParkedWereAsked, e
<1>10. OutcomeWasSaid'
  BY <1>1, <1>3, <1>4 DEF McpInv, McpTypeOK, ToolCallState, OutcomeWasSaid, End
<1> QED BY <1>6, <1>7, <1>8, <1>9, <1>10 DEF McpInv

LEMMA McpInvStep == McpInv /\ [McpNext]_mcpVars => McpInv'
<1> SUFFICES ASSUME McpInv, [McpNext]_mcpVars PROVE McpInv'
  OBVIOUS
<1>1. ASSUME NEW c \in Calls, Prepare(c) PROVE McpInv'
  <2>1. CASE Fail(c, "invalid_request")
    BY <1>1, <2>1, FailKeeps DEF Prepare, Codes
  <2>2. CASE ~Fail(c, "invalid_request")
    BY <1>1, <2>2, ModernIsSession, NegotiationKeeps DEF Prepare
  <2> QED BY <2>1, <2>2
<1>2. ASSUME NEW c \in Calls, NEW p \in pending, Pay(c, p) PROVE McpInv'
  <2>1. p.session \in Sessions /\ p.challenge \in Challenges
    BY DEF McpInv, McpTypeOK
  <2>2. Agreed(p.session)' /\ AskedOn(p.session, p.challenge)
    BY <1>2 DEF Pay, McpInv, ParkedWereAsked, Agreed
  <2> QED BY <1>2, <2>1, <2>2, CallToolKeeps DEF Pay
<1>3. ASSUME NEW c \in Calls, NEW a, Discovered(c, a) PROVE McpInv'
  <2>1. CASE \E code \in Codes : Fail(c, code)
    BY <1>3, <2>1, FailKeeps DEF Discovered
  <2>2. CASE /\ toolCalls' = [toolCalls EXCEPT ![c] = NewCall("initialize", NoSession, None)]
             /\ Post(c, "initialize", NoSession, None)
             /\ UNCHANGED <<pending, agreed>>
    BY <1>3, <2>2, NegotiationKeeps DEF Discovered
  <2>3. CASE /\ CallTool(c, Modern, None)
             /\ agreed' = agreed \cup {[call |-> c, session |-> Modern]}
             /\ UNCHANGED pending
    <3>1. PICK session \in Sessions : session = Modern
      BY ModernIsSession
    <3>2. CallTool(c, session, None)
      BY <2>3, <3>1 DEF CallTool, Post
    <3>3. [call |-> c, session |-> session] \in agreed'
      BY <2>3, <3>1
    <3>4. Agreed(session)'
      BY <3>3 DEF Agreed
    <3> QED BY <1>3, <2>3, <3>2, <3>4, CallToolKeeps DEF Discovered
  <2> QED BY <1>3, <2>1, <2>2, <2>3 DEF Discovered, Codes
<1>4. ASSUME NEW c \in Calls, NEW a, NEW id \in SessionIds \cup {None}, Initialized(c, a, id)
      PROVE  McpInv'
  <2>1. CASE \E code \in Codes : Fail(c, code)
    BY <1>4, <2>1, FailKeeps DEF Initialized
  <2>2. CASE /\ toolCalls' = [toolCalls EXCEPT ![c] = NewCall("initialized", Legacy(id), None)]
             /\ Post(c, "initialized", Legacy(id), None)
             /\ UNCHANGED <<pending, agreed>>
    <3>1. Legacy(id) \in Sessions
      BY DEF Sessions
    <3> QED BY <1>4, <2>2, <3>1, NegotiationKeeps DEF Initialized
  <2> QED BY <1>4, <2>1, <2>2 DEF Initialized, Codes
<1>5. ASSUME NEW c \in Calls, NEW a, Notified(c, a) PROVE McpInv'
  <2>1. CASE a.says.content \in Failures
    <3>1. a.says.content \in Codes
      BY <2>1 DEF Codes
    <3> QED BY <1>5, <2>1, <3>1, FailKeeps DEF Notified
  <2>2. CASE a.says.content \notin Failures
    <3>1. PICK session \in Sessions : session = toolCalls[c].session
      BY <1>5 DEF Notified, McpInv, LegacyNotified
    <3>2. CallTool(c, session, None)
      BY <1>5, <2>2, <3>1 DEF Notified, CallTool, Post
    <3>3. [call |-> c, session |-> session] \in agreed'
      BY <1>5, <2>2, <3>1 DEF Notified
    <3>4. Agreed(session)'
      BY <3>3 DEF Agreed
    <3> QED BY <1>5, <2>2, <3>2, <3>4, CallToolKeeps DEF Notified
  <2> QED BY <2>1, <2>2
<1>6. ASSUME NEW c \in Calls, NEW a \in Answers["call"][HasId(toolCalls[c].session)], Called(c, a)
      PROVE  McpInv'
  <2>1. PICK hasId \in BOOLEAN : hasId = HasId(toolCalls[c].session)
    BY DEF HasId
  <2> QED BY <1>6, <2>1, CalledKeeps
<1>7. ASSUME NEW c \in Calls, FetchFails(c) PROVE McpInv'
  BY <1>7, FailKeeps DEF FetchFails, Codes
<1>8. ASSUME UNCHANGED mcpVars PROVE McpInv'
  BY <1>8 DEF mcpVars, McpInv, McpTypeOK, CallsPosted, LegacyNotified, ParkedWereAsked,
          ToolCallsAgreed, CredentialsWereAsked, OutcomeWasSaid, Agreed, AskedOn
<1> QED BY <1>1, <1>2, <1>3, <1>4, <1>5, <1>6, <1>7, <1>8 DEF McpNext

LEMMA McpInvHolds == McpSpec => []McpInv
BY McpInvInit, McpInvStep, PTL DEF McpSpec

\* Whatever the server answers, tool calls run on agreed sessions and credentials
\* go out in the session of their challenge (mcp.ts:307-444, client.ts:320-326).
THEOREM CallsInSessionCorrect == McpSpec => []CallsInSession
<1>1. McpInv => CallsInSession
  BY DEF McpInv, CallsInSession, CredentialsWereAsked, CredentialInItsSession, AskedOn
<1> QED BY <1>1, McpInvHolds, PTL

\* What a call ends with is what the server said under its id (mcp.ts:124-167).
THEOREM OutcomeWasSaidCorrect == McpSpec => []OutcomeWasSaid
<1>1. McpInv => OutcomeWasSaid
  BY DEF McpInv
<1> QED BY <1>1, McpInvHolds, PTL
=============================================================================
