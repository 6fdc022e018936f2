-------------------------------- MODULE Wallet --------------------------------
(***************************************************************************)
(* The wallet and its custody (src/sidecar/src/wallet.ts) and the paid     *)
(* endpoint the server creates from them at first use (paid-endpoint.ts,   *)
(* server.ts:335-340).  Secrets live in Core's storage; every look at them *)
(* and every write is a call to Core, so other requests run in between,    *)
(* and a request that stops waiting (5 s) does not stop Core.              *)
(*                                                                         *)
(* A request's pc says what it awaits: "read" and "report" vault.get,      *)
(* "seal" and "set" the two halves of vault.set, "faucet" the faucet.      *)
(***************************************************************************)
EXTENDS Naturals, FiniteSets

CONSTANTS
    Requests,       \* requests to the server
    Values,         \* private keys and secrets, each drawn at random once
    Nothing,        \* no value
    Waiting, Over,  \* a request before it arrives and after its answer
    EnvKey,         \* MPPX_PRIVATE_KEY, or Nothing
    ReadsLost       \* may an answer of storage.get lose its body?

VARIABLES
    storage,        \* Core's storage, by name
    writes,         \* storage.set calls Core has not carried out
    calls,          \* the requests in progress
    endpoint,       \* paidEndpoint: what it is bound to, or Nothing
    drawn,          \* the values drawn
    held,           \* history: every <<name, value>> storage has held
    reported,       \* history: keys whose address a request reported
    issued,         \* history: challenges issued by paid endpoints
    sole            \* history: each value was drawn where custody had none, and
                    \* none was on its way there

vars == <<storage, writes, calls, endpoint, drawn, held, reported, issued, sole>>

ASSUME WalletAssumption ==
    /\ Nothing \notin Values
    /\ EnvKey \in Values \cup {Nothing}
    /\ ReadsLost \in BOOLEAN

Names == {"wallet", "server-secret"}
Ops == {"create", "status", "fund", "paid"}
Maybe == Values \cup {Nothing}

Write == [name : Names, value : Values]
Call == [op : Ops, pc : {"read", "seal", "set", "faucet", "report"}, name : Names,
         account : Maybe, value : Maybe,
         late : SUBSET Names,   \* history: the names custody had a value of at arrival
         unread : BOOLEAN]      \* history: the value was drawn over one not read
Binding == [recipient : Values, secret : Values]

TypeOK ==
    /\ storage \in [Names -> Maybe]
    /\ writes \in SUBSET Write
    /\ calls \in [Requests -> Call \cup {Waiting, Over}]
    /\ endpoint \in Binding \cup {Nothing}
    /\ drawn \in SUBSET Values
    /\ held \in SUBSET (Names \X Values)
    /\ reported \in SUBSET Values
    /\ issued \in SUBSET Binding
    /\ sole \in BOOLEAN

Init ==
    /\ storage = [n \in Names |-> Nothing]
    /\ writes = {}
    /\ calls = [r \in Requests |-> Waiting]
    /\ endpoint = Nothing
    /\ drawn = {EnvKey} \ {Nothing}
    /\ held = {}
    /\ reported = {}
    /\ issued = {}
    /\ sole = TRUE

InProgress(r) == calls[r] \notin {Waiting, Over}
At(r, label) == InProgress(r) /\ calls[r].pc = label

\* What is under a name: MPPX_PRIVATE_KEY comes before what custody has.
FromEnv(name) == name = "wallet" /\ EnvKey # Nothing
Found(name) == IF FromEnv(name) THEN EnvKey ELSE storage[name]

\* What #readPrivateKey and vault.get may read.  A body that is cut, that comes
\* too late or that is no envelope is no value, and that is an absent one.
Reads(name) == {Found(name)} \cup (IF ReadsLost /\ ~FromEnv(name) THEN {Nothing} ELSE {})

\* A value is on its way to custody: drawn by a request in progress, or sent.
OnItsWay(name) ==
    \/ \E w \in writes : w.name = name
    \/ \E r \in Requests : (At(r, "seal") \/ At(r, "set")) /\ calls[r].name = name

Goto(r, label) == calls' = [calls EXCEPT ![r].pc = label]
Finish(r) == calls' = [calls EXCEPT ![r] = Over]

(***************************************************************************)
(* A request arrives.  The paid endpoint, once created, answers at once.   *)
(***************************************************************************)
Arrive(r, op) ==
    /\ calls[r] = Waiting
    /\ op = "paid" => endpoint = Nothing
    /\ calls' = [calls EXCEPT ![r] =
          [op |-> op, pc |-> IF op = "status" THEN "report" ELSE "read", name |-> "wallet",
           account |-> Nothing, value |-> Nothing,
           late |-> {n \in Names : storage[n] # Nothing}, unread |-> FALSE]]
    /\ UNCHANGED <<storage, writes, endpoint, drawn, held, reported, issued, sole>>

\* charge: the endpoint answers with a challenge for what it is bound to.
PaidAgain(r) ==
    /\ calls[r] = Waiting
    /\ endpoint # Nothing
    /\ issued' = issued \cup {endpoint}
    /\ Finish(r)
    /\ UNCHANGED <<storage, writes, endpoint, drawn, held, reported, sole>>

\* createPaidEndpoint returns and the server keeps what it returned last.
Bind(r, secret) ==
    /\ endpoint' = [recipient |-> calls[r].account, secret |-> secret]
    /\ issued' = issued \cup {endpoint'}
    /\ Finish(r)

(***************************************************************************)
(* create, getAccount and getServerSecret read before they act.            *)
(***************************************************************************)
\* wallet_exists; fund goes on to the faucet.
FoundWallet(r) ==
    /\ At(r, "read") /\ calls[r].name = "wallet"
    /\ Found("wallet") # Nothing
    /\ \/ calls[r].op = "create" /\ Finish(r)
       \/ calls[r].op = "fund" /\ Goto(r, "faucet")
       \/ /\ calls[r].op = "paid"
          /\ calls' = [calls EXCEPT ![r].name = "server-secret",
                                    ![r].account = Found("wallet")]
    /\ UNCHANGED <<storage, writes, endpoint, drawn, held, reported, issued, sole>>

FoundSecret(r) ==
    /\ At(r, "read") /\ calls[r].name = "server-secret"
    /\ storage["server-secret"] # Nothing
    /\ Bind(r, storage["server-secret"])
    /\ UNCHANGED <<storage, writes, drawn, held, reported, sole>>

\* wallet_not_configured.
NoWallet(r) ==
    /\ At(r, "read") /\ calls[r].name = "wallet" /\ calls[r].op # "create"
    /\ Nothing \in Reads("wallet")
    /\ Finish(r)
    /\ UNCHANGED <<storage, writes, endpoint, drawn, held, reported, issued, sole>>

\* Mutant: the value is drawn without a look at custody.
DrawUnseen(r) ==
    /\ At(r, "read")
    /\ calls[r].op = "create" \/ calls[r].name = "server-secret"
    /\ \E v \in Values \ drawn :
          /\ drawn' = drawn \cup {v}
          /\ calls' = [calls EXCEPT ![r].pc = "seal", ![r].value = v]
    /\ sole' = (sole /\ Found(calls[r].name) = Nothing /\ ~OnItsWay(calls[r].name))
    /\ UNCHANGED <<storage, writes, endpoint, held, reported, issued>>

\* A new private key, or a new server secret, to be stored.
Draw(r) ==
    /\ At(r, "read")
    /\ calls[r].op = "create" \/ calls[r].name = "server-secret"
    /\ Nothing \in Reads(calls[r].name)
    /\ \E v \in Values \ drawn :
          /\ drawn' = drawn \cup {v}
          /\ calls' = [calls EXCEPT ![r].pc = "seal", ![r].value = v,
                                    ![r].unread = Found(calls[r].name) # Nothing]
    /\ sole' = (sole /\ Found(calls[r].name) = Nothing /\ ~OnItsWay(calls[r].name))
    /\ UNCHANGED <<storage, writes, endpoint, held, reported, issued>>

(***************************************************************************)
(* CoreSecretVault.set: crypto.seal answers, storage.set is sent, Core     *)
(* carries it out, and its answer comes, with or without its body.         *)
(***************************************************************************)
\* Mutant: everything is stored under the wallet's name.
SealedAsWallet(r) ==
    /\ At(r, "seal")
    /\ writes' = writes \cup {[name |-> "wallet", value |-> calls[r].value]}
    /\ Goto(r, "set")
    /\ UNCHANGED <<storage, endpoint, drawn, held, reported, issued, sole>>

Sealed(r) ==
    /\ At(r, "seal")
    /\ writes' = writes \cup {[name |-> calls[r].name, value |-> calls[r].value]}
    /\ Goto(r, "set")
    /\ UNCHANGED <<storage, endpoint, drawn, held, reported, issued, sole>>

CoreStores(w) ==
    /\ w \in writes
    /\ writes' = writes \ {w}
    /\ storage' = [storage EXCEPT ![w.name] = w.value]
    /\ held' = held \cup {<<w.name, w.value>>}
    /\ UNCHANGED <<calls, endpoint, drawn, reported, issued, sole>>

\* It never reached Core, or Core refused it.
CoreRefuses(w) ==
    /\ w \in writes
    /\ writes' = writes \ {w}
    /\ UNCHANGED <<storage, calls, endpoint, drawn, held, reported, issued, sole>>

\* Mutant: the secret is used without awaiting vault.set.
StoredUnawaited(r) ==
    /\ At(r, "set")
    /\ \/ calls[r].op = "create" /\ Goto(r, "report") /\ UNCHANGED <<endpoint, issued>>
       \/ calls[r].op = "paid" /\ Bind(r, calls[r].value)
    /\ UNCHANGED <<storage, writes, drawn, held, reported, sole>>

Stored(r) ==
    /\ At(r, "set")
    /\ <<calls[r].name, calls[r].value>> \in held
    /\ \/ calls[r].op = "create" /\ Goto(r, "report") /\ UNCHANGED <<endpoint, issued>>
       \/ calls[r].op = "paid" /\ Bind(r, calls[r].value)
    /\ UNCHANGED <<storage, writes, drawn, held, reported, sole>>

(***************************************************************************)
(* fund and status.                                                        *)
(***************************************************************************)
Funded(r) ==
    /\ At(r, "faucet")
    /\ Goto(r, "report")
    /\ UNCHANGED <<storage, writes, endpoint, drawn, held, reported, issued, sole>>

\* The balance may be missing, the address is not.
Report(r) ==
    /\ At(r, "report")
    /\ \E key \in Reads("wallet") : reported' = reported \cup ({key} \ {Nothing})
    /\ Finish(r)
    /\ UNCHANGED <<storage, writes, endpoint, drawn, held, issued, sole>>

(***************************************************************************)
(* Core refuses, does not answer in time, or answers crypto.seal or        *)
(* crypto.open without a value; what was sent it may still do.             *)
(***************************************************************************)
CallFails(r) ==
    /\ InProgress(r)
    /\ Finish(r)
    /\ UNCHANGED <<storage, writes, endpoint, drawn, held, reported, issued, sole>>

\* The sidecar stops, or crashes, and starts again.
Restart ==
    /\ calls' = [r \in Requests |-> IF InProgress(r) THEN Over ELSE calls[r]]
    /\ endpoint' = Nothing
    /\ UNCHANGED <<storage, writes, drawn, held, reported, issued, sole>>

Handler(r) ==
    \/ FoundWallet(r) \/ FoundSecret(r) \/ NoWallet(r) \/ Draw(r)
    \/ Sealed(r) \/ Stored(r) \/ Funded(r) \/ Report(r) \/ CallFails(r)

Next ==
    \/ \E r \in Requests :
          \/ \E op \in Ops : Arrive(r, op)
          \/ PaidAgain(r)
          \/ Handler(r)
    \/ \E w \in writes : CoreStores(w) \/ CoreRefuses(w)
    \/ Restart

Spec == Init /\ [][Next]_vars

(***************************************************************************)
(* Properties.                                                             *)
(***************************************************************************)
\* Whoever pays a challenge pays a wallet, and relies on a secret, that Core
\* holds or held: a crash of the sidecar cannot make either vanish
\* (wallet.ts:182-184, paid-endpoint.ts:14-29).
ChallengesRestOnCustody ==
    \A ch \in issued :
        /\ <<"server-secret", ch.secret>> \in held
        /\ ch.recipient = EnvKey \/ <<"wallet", ch.recipient>> \in held

\* A create, or a first use of the paid endpoint, that arrives when custody
\* already has its wallet or its secret gets as far as writing another one only
\* if the answer to its read was lost, whatever runs beside it, restarts or is
\* written late (wallet.ts:74-78, 127-128, 153-161, 177-184).
ReplacedOnlyUnread ==
    \A r \in Requests :
        (At(r, "seal") \/ At(r, "set")) /\ calls[r].name \in calls[r].late
            => calls[r].unread

\* Every challenge issued can be verified with the secret in custody, and pays
\* the wallet in custody (paid-endpoint.test.ts:78: "The challenge is bound to
\* this server's persisted secret.").
ChallengesStayBound ==
    \A ch \in issued : ch.secret = storage["server-secret"] /\ ch.recipient = Found("wallet")

\* An address the user was shown, and may have funded, stays the address of the
\* key in custody (wallet.ts:153-163: "A payment wallet is already configured.").
ReportedKeysKept == \A key \in reported : key = Found("wallet")

\* Challenges and reported addresses stay with custody, through overlapping
\* requests, failures, restarts, writes that end late and reads that are lost,
\* for as long as no value is drawn for a name that has one, in custody or on its
\* way there (wallet.ts:153-185, paid-endpoint.ts:14-29).
KeptUnlessDrawnTwice == sole => ChallengesStayBound /\ ReportedKeysKept
=============================================================================
