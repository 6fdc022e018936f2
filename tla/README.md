# A verification of ryu-mpp

TLA+ modules, TLC configurations and TLAPS proofs for the payment sidecar of
`ryu-mpp`: a local service that pays HTTP and MCP merchants from a wallet, under
a spending policy, and keeps a sealed payment history. Paths below are relative
to the repository root `src/`.

Check one run with `tlc -config <file>.cfg <module>.tla`, the proofs with
`tlapm <module>.tla`.

## 1. Inventory

| Component | Source | State | Operations | Where it is hard |
|---|---|---|---|---|
| Spending policy | `sidecar/src/policy.ts` | none (a saved policy is a row of the ledger's database) | `validatePolicy`, `decidePayment` | read at several moments of one payment |
| Payment ledger | `sidecar/src/store.ts` | SQLite: `settings`, `payment_reservations`, `payment_receipts`, `mppx_kv`, `user_version` | open (migrate, unseal, recover), `setPolicy`, `getBudget`, `reserve`, `markSubmitted`, `commit`, `release`, replay keys | several processes, midnight, retries, crash between two calls, old databases |
| Payment protocol | `sidecar/src/client.ts` | in-memory approvals `#pending`; a call's locals | `prepare`, `prepareMcp`, `pay` | every await: the policy, the clock and other calls move on; failures after the money may be gone |
| Sealing of stored values | `packages/sidecar-runtime/src/content-seal.ts`, key state in `seal.ts` | sealed columns, `ryu_content_seal` (state, cursor and key check value per column and store), free pages and WAL | `open` (key state, `migrate`, scrub), `sealText`, `openText` | crash between batches, keys that change between starts, rollbacks, steps that fail |
| Key capture | `packages/sidecar-runtime/src/seal.ts` | environment, standalone root file, pinned key check value | `capturePluginKeys`, `loadOrCreateStandaloneRoot`, `pinStandaloneKcv` | two first starts at once, a lost root |
| Sealed append log | `sealed-log.ts` | a file of framed records | create, append, open (scan, truncate), compact | torn tails, partial appends |
| Sealed files | `sealed-file.ts` | file, temporary file | streaming writer, seal in place | crash between write, verify and rename |
| Content cipher, blind index | `content.ts`, `blind-index.ts` | none | seal, open, index | formats and cryptography |
| Wallet and custody | `sidecar/src/wallet.ts` | secrets in Core's vault | `create`, `getAccount`, `getServerSecret`, `fund` | check and store across awaits |
| Governed fetch | `sidecar/src/network.ts` | none | request with redirects under the policy | policy read per hop, limits, timeouts |
| MCP transport | `sidecar/src/mcp.ts` | session id and protocol version | negotiate, legacy initialise, call | two protocols, retries |
| Paid endpoint | `sidecar/src/paid-endpoint.ts` | SDK state over `mppx_kv` | charge a caller | replayed credentials |
| HTTP server | `sidecar/src/server.ts` | lazily created paid endpoint | routes | first use raced by two requests |
| Service catalog | `sidecar/src/services.ts` | cache with expiry | list | stale fallback, concurrent refresh |
| Service runtime | `effect-http.ts`, `index.ts`, `branding.ts` | process | start, stop | mostly I/O |
| User interface | `ui/src/` | prepared payment, busy flag | prepare, approve, save policy | pays without asking on a decision taken earlier |
| Release scripts, workflows | `scripts/`, `.github/` | none | next version, notes | pure algorithms |

How they interact. The UI (and Ryu's agents) call the server's routes. `prepare`
sends a request through the governed fetch or the MCP transport, captures the
merchant's challenge, checks it against the policy and the budget in the ledger
and parks it behind a single-use approval token. `pay` spends the token, awaits
the wallet's account from custody, decides again, reserves the amount in the
ledger, marks the reservation submitted, lets the payment SDK create a signed
credential (which in push mode already broadcasts the payment), sends it, and
commits the receipt. The ledger seals origins, payees and references through
`StoreSeal`, whose key was captured at process start.

What makes each component correct:

* policy and ledger: what was spent or may still be spent on a UTC day never
  exceeds a cap the user had set; a row only moves forward; receipts and
  settlement agree; keys and challenges are used once;
* protocol: once a credential exists, its amount stays counted whatever fails or
  crashes; one credential per challenge and key; the policy saved at the moment
  of the payment is honoured; receipts belong to payments; calls end;
* sealing: nothing readable remains once a key is held, freed plaintext is
  scrubbed or remembered, another key never seals over the data, the recorded
  key opens everything, opening ends;
* files and log: old or new content after a crash, never neither; a torn tail
  does not hide committed records;
* key capture: an installation goes on with one key, or refuses to start;
* cipher and file format: a value opens whole, in its place and under its key, or
  not at all;
* wallet: what a challenge rests on is in custody, and a wallet that is there is
  not replaced;
* MCP transport: credentials stay in the session of their challenge, and only an
  answer to the request at hand counts;
* governed fetch: no hop leaves the origin and the policy, and every fetch ends;
* interface: what needs a review gets one, and a window becomes usable again;
* releases: versions increase, and notes tell every change once.

## 2. Modules

| Module | Models | Kind |
|---|---|---|
| `SpendingPolicy` | `policy.ts`: the limits and what is blocked | operators |
| `PaymentStore` | `store.ts`: the ledger under any sequence of calls by any number of processes | state machine |
| `PaymentClient` | `client.ts` over the ledger: calls, approvals, awaits, crashes | state machine, extends `PaymentStore` |
| `GovernedSpending` | what the sidecar promises about the user's money | abstract specification, refined by `PaymentClient` |
| `StoreSeal` | `content-seal.ts` and the key state of `seal.ts`: one process, many keys | state machine |
| `SharedSeal` | `migrate` of `content-seal.ts`: many processes, one key | state machine |
| `KeyCapture` | `capturePluginKeys` of `seal.ts` | state machine |
| `RecordLog` | what an append-only log promises | abstract specification, refined by `SealedLog` |
| `SealedLog` | `sealed-log.ts` | state machine |
| `SealedFile` | `sealFileInPlace` and the writer of `sealed-file.ts` | state machine |
| `SealedFileFormat` | encoder and reader of `sealed-file.ts` | state machine over data |
| `ContentCipher` | class `ContentCipher` of `content.ts` | state machine over data |
| `Wallet` | `wallet.ts`, and the paid endpoint's first use (`paid-endpoint.ts`, `server.ts`) | state machine |
| `McpSession` | `mcp.ts` as `client.ts` uses it | state machine |
| `GovernedFetch` | the redirect loop of `network.ts` | state machine |
| `ApprovalFlow` | the payment handlers of `App.tsx`, `requiresApproval` of `policy.ts` | state machine |
| `ReplayStore` | `mppxStore` of `store.ts` | state machine |
| `ServiceCatalog` | `list` of `services.ts` | state machine |
| `ReleaseVersions` | `next-version.mjs`, and the workflows that publish under it | state machine |
| `ReleaseNotes` | `notes-batches.mjs` and `rolling-notes.mjs` | state machine |
| `PaymentStoreProofs`, `StoreSealProofs`, `SealedLogProofs` | theorems about the module of that name | proofs |
| `PaymentClientProofs` | theorems about `PaymentClient`, and that it implements `GovernedSpending` | proofs |
| `SessionProofs` | theorems about `Wallet` and `McpSession` | proofs |
| `FlowProofs` | theorems about `ApprovalFlow`, `GovernedFetch`, `ReplayStore`, `ServiceCatalog`, `ReleaseVersions` and `ReleaseNotes` | proofs |
| `AtRestProofs` | theorems about `KeyCapture`, `SealedFile`, `SealedFileFormat`, `ContentCipher` and `SharedSeal` | proofs |
| `RecursionLemmas` | lemmas about loops and sums given by recursive functions, which the proofs above cite | proofs |
| `MCPaymentStore`, `MCPaymentClient`, `MCStoreSeal`, `MCSealedLog`, `MCApprovalFlow`, `MCAtRest`, `MCSessions`, `MCFlows` | small instances | model checking |

Definitions named as variants in a comment that starts with *Mutant* are faulty
versions of the definition after them; no specification uses them. They are the
bugs the properties are meant to catch: putting one in place of the definition
makes TLC report the property violated.

`MCAtRest`, `MCSessions` and `MCFlows` each check several components that share
no state. What one of them does alone is then all it can do beside the others, so
a behaviour lets one component run (`component` names it) and leaves the others
in an initial state: the run's states are the sum of the components' states, not
their product. The components whose theorems are in section 4 are extended by these
modules, so that the runs check the definitions the theorems are about and evaluate the
assumptions they use; names that would clash carry the component's (`FileInit`,
`SharedNext`, `catalogVars`).

### PaymentStore

`reservations` is the table, as a function of the challenge (its hash is
`UNIQUE` and rows are never deleted); a row keeps its idempotency key, status,
submission mark and the two times the code compares. `receipts` is the set of
challenges with a receipt row. `handles` says how far each process has come in
the constructor: `migrated` after `#migrate`, then, after `StoreSeal.open` and
recovery, `writable` or `refusing` (a store whose key is missing or different
refuses to seal; `StoreSeal` has the detail, and here the choice is free).
`granted` is a history variable: the most permissive cap a reservation of a day
was admitted under. Each operation is one SQLite transaction or statement, so
it is one action; a crash may come between any two. The clock is a counter of
coarse ticks; a day has `DayLength` ticks, and midnight is crossed within the
bound. `Total` is the sum of amounts over a set of challenges, given as a
constant with the two equations that define it, so that the proofs need no
recursion.

### PaymentClient

One process runs one JavaScript thread. Code between two awaits is not
interleaved with other code of the same process (`Idle`), but it makes several
database calls, and other processes, the clock and a crash come between those:
`Decide`, `Reserve`, `Submit` are separate actions although no await separates
them. (`Decide` reads policy and budget in one step, which the code does with two
`SELECT`s: `reserve` checks the cap again in its transaction.) Every await (`account`, `create`, `signed`, `send`) may fail. A crash
loses approvals and calls; the database survives. `ReserveFails` and
`SubmitFails` are always possible, because SQLite may fail as well as the
checks. `signed` is a history variable: the credentials the SDK has created.

`pay` ignores whether the policy asks for approval: the token is the approval.
That decision (`requiresApproval`) matters to the UI only; `ApprovalFlow` has it.

`GovernedSpending` is the promise to the user, without calls, tokens or rows:
money is set aside for a challenge within a cap the user had saved, put at risk,
paid at most once, and released only if it was never at risk; midnight starts a
new day, on which what was held before no longer counts. An amount of zero may be
set aside past an exceeded cap: what is available is never negative, and zero is
not more than it. The proof of the refinement brought this case out.

### StoreSeal and SharedSeal

A value is its row's content reduced to the root it is sealed under, `Plain` or
`Absent`; that a value opens only under its root is the assumption on the
cipher. Columns are migrated in order, each in batches with a cursor recorded in
the same transaction. A history of keys that successive starts receive is chosen
at first; the environment moves through it while the process is down, and an
older build, which writes plaintext, may run between two starts of it. `residue`
is where plaintext that was sealed may still be found: the code takes WAL and
free pages to hold it after every batch that seals plaintext.

In `StoreSeal` one process has the store open at a time, so the compare-and-swap
of a batch always matches and a batch is one action. `SharedSeal` has several
processes on one column: the query of a batch (`Select`) and its transaction
(`WriteBatch`) are separate steps, each row is written only if it still holds
what was read, and the cursor that a process resumes at may be another's. It has
one key and no scrub.

### KeyCapture

Each start of the app runs once through `capturePluginKeys`: under Core, with a
master key, standalone, or in compat mode. Every look at a file and every write
(root file created, root file written, pin renamed into place) is a step, and a
crash may come between any two. Installations differ in `setup`: starts one at a
time with several values of `RYU_MASTER_KEY` and a root file that may be lost, or
starts that race without a master key. What is promised of keys is promised to the
careful (`Careful`): starts come one at a time, or they race where there is no master
key and nobody loses the root file. Section 5 has what happens to others.

### SealedLog and RecordLog

A log file is a sequence of cells: the header, and for each record a length and
as many body cells as the record is long. `file` is what readers see, `disk` what
a power loss leaves; between a write and its sync anything from the one to the
other may survive, in the order it was written. A writer is synchronous, so only a
failing call or a crash shows the inside of one: a write may leave a torn frame. `openAppend` scans under
each candidate key, decides between the current and a retired one, and truncates
a torn tail. The scan's loop is a function of the number of its rounds (`Positions`), of
which as many are enough as a log may hold records (`MaxRecords`). `RecordLog` is the promise: an append extends the log, a crash takes
only the latest records that were not durable. `SealedLog` implements it with the
recoverable records as the log.

### SealedFile and SealedFileFormat

In `SealedFile` each step is one system call: remove a stale temporary file,
create it exclusively, copy, sync, read back, rename, sync the directory. `dir`
and `cache` are what processes see, `dirs` and `safe` what a power loss may leave:
a rename is durable only after the sync of the directory, content only after
the sync of the file. `SealedFileFormat` follows the streaming encoder through any sequence of
pushes, and the reader, which derives every offset from the file's size alone.
A byte is its position, so a wrong slice shows. The loop of `push` is a function of the
number of its rounds (`Fill`), the offsets of chunks are the sums of their lengths (`Offset`),
and the reader goes from chunk to chunk by a recursive function (`Read`).

### ContentCipher

A derived key is the sequence of what it is derived from, so that two keys are
equal exactly if they were derived alike; an envelope opens under its own key and
context. Stored values come in all forms `openText` and `openBytes` tell apart:
plaintext, sealed, the prefix of an envelope with nothing behind it, a newer
version, and (for bytes) the magic of a sealed file or log.

### Wallet

A request awaits Core at every look at the vault, and Core stores in two steps
(seal, then set), which it may carry out late or although the sidecar has died.
`pc` names what a request awaits: `read`, `report`, `seal`, `set`, `faucet`. The
first use of the paid endpoint binds a secret and a recipient. Requests overlap as
they like. A write goes on after the request that sent it has given up, and may end
after a later request has stored and bound its own value. `#rpc` takes an answer whose
body is cut, late or no envelope for one without a result, and `get` takes that for
"nothing stored" (`Reads`); `CallFails` is for what throws: an answer that is not
2xx, none in time, or one of `crypto` without a value. For `storage.set` an answer without
a body is a success, as the status alone decides; that Core answers 2xx only
after it has stored is the assumption on Core. `sole` is a history variable: every
value was drawn for a name that had none, neither in custody nor on its way there.
With it holds what otherwise need not: challenges and reported addresses stay with
custody (`KeptUnlessDrawnTwice`). Section 5 names the ways in which two values are drawn.

### McpSession

`pc` of a call is the method it awaits an answer to: discovery, then either the
tool call or the legacy handshake (`initialize`, `initialized`) and the tool call
on a session. A server answers anything, with other requests' answers in the
stream; sessions expire. A call with a credential continues on the session its
challenge came from.

### GovernedFetch

One fetch: each hop is checked against the policy as it is at that moment
(`check`), its body is read (`body`, an await at which the policy may change), sent,
and its answer followed. Size limits and timeouts are ways in which a hop fails.

### ApprovalFlow

Windows of the interface: `at` is what a window awaits (`prepare`, `prepared`,
`pay`, `paid`, `failed`, `refresh`), and it is busy unless that is `idle`. The bridge
may lose an answer. The sidecar's side is reduced to the policy at the two
moments that decide, and `PaymentClient` has the rest.

### ReplayStore, ServiceCatalog

`ReplayStore`: a transaction takes SQLite's write lock, reads a row, decides and
writes or fails; replay markers expire. `ServiceCatalog`: calls of `list` overlap,
the server answers them in any order, and a failing fetch falls back on the cache.

### ReleaseVersions, ReleaseNotes

`ReleaseVersions`: a run lists the published tags, perhaps not all of them, computes
its version as `next-version.mjs` does, and publishes; stable releases, prereleases,
and a bumped tree come in any order. A run of a rolling channel may be run again
under its number, also after later ones, and uses a release again that has its tag.
Others push tags (`ForeignTags`), stable ones among them, as `release.yml` expects.
What is claimed of the order of releases (`ReleasesIncrease`) is claimed of the runs
themselves: a new run that saw all tags comes out above what its channel has released.
That it comes out above all stables is not, because it need not: `BaseIsFirstFree` says
which base it takes, and section 5 what follows. Version tags are taken to have no
leading zeros, the two rolling workflows share one run number, and a prune may delete
any rolling prerelease but the last of its channel (the code keeps 14, by creation).
`ReleaseNotes`: the recursion of `reviewWithSplitting` is the sequence of the batches
still to review (`todo`); `batches` adds the descriptions one by one (`Added`),
`requests` is a history variable (of reviews; merges of highlights are not counted),
and what fails ends with the plain notes or, where notes of a model are required
(`--require-ai`), with none (`FallsBack`).

## 3. Runs

| Run | Instance | Shows |
|---|---|---|
| `store` | 3 challenges of 2, 2 and 1 units, 3 keys (symmetric), caps 2 and 3, 1 process, 2-tick days, 3 ticks; 190,668 states | the ledger's invariants under any calls |
| `one_process` | 2 challenges of two origins, 2 keys, 2 policies of which one forbids an origin and lowers the cap, 2 tokens, 2 calls, 4 ticks over midnight; fair; 355,744 states | the protocol's properties, the refinement of `GovernedSpending`, and that calls end |
| `two_processes` | as above with 2 processes and one policy, 3 ticks, symmetry over processes, tokens and calls; 127,113 states | the same promise, and one credential, when processes race |
| `seal` | 2 columns of 3 rows, batches of 2; histories: a key that comes and goes, one rotation, a key lost in a rotation between older builds; fair; 922,635 states | sealing, scrub, no way back to plaintext, recorded keys, opening ends |
| `at_rest` | capture: 4 starts, 2 master keys, 3 roots; log: records of 1 and 3 cells, at most 3, one rotation, power losses; file: one sealer, 4 files; format: chunks of 1 to 5 bytes, a tag of 2, up to 12 bytes; cipher: 2 roots, stores, labels and contexts, labels nested twice; shared store: 2 processes, 3 rows, batches of 2, one rewrite of a row; symmetry over keys and processes; 73,433 states | the data at rest survives, opens whole or not at all, and stays sealed |
| `sessions` | wallet: 3 requests, 3 values, restarts; MCP: 3 calls, 2 challenges, 2 session ids (symmetric); reads of custody may be lost, writes may end late; 158,624 states | custody and sessions when requests overlap |
| `flows` | 2 windows, 2 payments, 3 policies, answers may be lost; 2 origins, 3 redirects, 2 policy saves; 2 processes with 2 transactions each on one key; catalog with TTL 2, 4 ticks; 3 release runs and their re-runs on 2 days, 3 tags, stables of others; notes of 4 descriptions of sizes 1, 2, 4 in batches of 3, 2 attempts; fair; 246,291 states | reviews, redirects, replay markers, cache, versions, notes; windows recover and fetches end |
| `refusing_store`, `seal_two_rotations`, `wallet_two_creates`, `log_failed_append`, `approval_stale` | as the run of the same module, or smaller; in `log_failed_append` writes may fail halfway (`WriteFailures`) | disagreements with the documentation, section 5 |

Why the bounds are enough. Two calls are the least that can race, and three
challenges the least of which two fit under a cap and three do not. Two keys and
two challenges give every combination of an equal and a different key and
challenge, which is all that `reserve` tells apart. Four ticks hold an approval's
lifetime, a stale reservation and a midnight, in either order. Three rows in
batches of two give a full and a partial batch and a crash between them; two
columns give a crash between two columns; two processes on them give a write
between another's query and its transaction, and a cursor taken over. Four starts
allow a first one, a crash, a loss and a recovery. Records of two sizes are the
least with which an overwritten torn frame leaves a rest; three records give an
index behind a truncated one. Twelve bytes in chunks of up to five give full, partial
and exact final chunks. Three requests to the wallet are two that race, or of which one has left a
write to end late, and one that comes after both. Three redirects reach the limit. Two transactions of two processes give
a claim between the read and the write of another. Four descriptions in batches of
three are split twice.

The symmetries permute sets whose members no definition distinguishes, and no run
with symmetry checks liveness. The properties named in section 4 are proved for
every value of these constants.

`at_rest` does not let writes to the log fail (`WriteFailures`), nor a power loss leave
zeros where data was not synced (`ZeroFill`), and has one sealer of a file: with failing writes
the log breaks its promise (`log_failed_append`), zeros may make a lone record one that
does not open, and two sealers disturb each other (section 5). `at_rest`, `sessions` and `flows` do not check
deadlock, because their components really end: starts are used up, calls and
fetches answer, releases reach their bound. Deadlock is checked everywhere else.

Fairness. `CallsEnd` assumes that each call, once it can continue, does. The
event loop runs handlers that are ready; the wallet RPC and the paid request
have timeouts in the code (`wallet.ts`, `network.ts`); that the payment SDK
answers is an assumption, for the code sets no timeout of its own on
`createCredential`. `OpenEnds` assumes that the opening process runs:
`open` is synchronous and waits for nothing. `BusyEnds` assumes that what each
window awaits is answered or fails, as the bridge's requests do; not that
a user ever reviews a payment. `FetchEnds` assumes that the fetch takes its
steps: each hop has a timeout.

## 4. Proofs

All eight modules with theorems are checked by TLAPS without unproved leaves. The
assumptions are the named ones of the modules that declare the constants:
`ChallengeAssumption` (`SpendingPolicy`), `StoreAssumption` and `TotalAssumption`
(`PaymentStore`), `ClientAssumption`, `SealAssumption`, `WalletAssumption`,
`McpAssumption`, `FlowAssumption`, `ReplayAssumption`, `CatalogAssumption`,
`VersionAssumption`, `CaptureAssumption`, `LogAssumption`, `FileAssumption`,
`FormatAssumption`, `CipherAssumption`, `SharedAssumption` and `NotesAssumption`. They say that markers
such as "no row" are no members of the data sets, that bounds are numbers (the limits of
`NotesAssumption` positive, as the scripts demand), and, in `VersionAssumption`, that the tree holds stable
versions; the tags of others may be any. TLC evaluates all of them on the instances.

Three predicates on the constants are hypotheses of some theorems besides. `Undisturbed` (`SealedFile`): one
sealer at most works on a file and its owner does not write meanwhile; without it
the properties fail, as section 5 says. `AtMostOneRotation` (`StoreSeal`): a history
without older builds delivers an old key, then a new one, and never the old one again;
with two rotations the code breaks the property (`seal_two_rotations`), and with a
history that rolls a rotation back it would as well. `Reliable` (`SealedLogProofs`): no
append to a log fails halfway while its writer goes on, and a power loss leaves no zeros where
data was not synced; without the first the code breaks the promise (`log_failed_append`), without
the second as section 5 says. Crashes and power losses that tear the tail are allowed. The runs `at_rest` and `seal` satisfy the
hypotheses, so each theorem covers what its run checks.

Several of the proofs need induction where the prover has none: they take a smallest
counterexample instead (`LeastNatural`, from the well-foundedness of the naturals).
`RecursionLemmas` does so once for what the modules compute by recursive functions:
a loop is defined and keeps what each round keeps (`LoopIsDefined`, `LoopKeeps`), a sum is
defined, a number, and grows (`SumIsDefined`, `SumIsNatural`, `SumGrows`), and the sum of
a part is a difference of sums (`SumOfPart`).

* **Types** (`StoreTypeCorrect`, `TypeCorrect`, `SealTypeCorrect`). In
  `StoreSeal` types are only inductive together with `KeyHeld`: a migration that
  runs holds a root.
* **Ledger** (`LedgerCorrect`, `RowsNeverReturn`). The ledger invariant is
  inductive with types; that rows never return needs in addition that submission
  and settlement agree.
* **Daily cap** (`DailyCapCorrect`). Only days up to today have rows counted, and
  a reservation adds to today's. The arithmetic rests on `TotalMonotone`: a part
  of a set of challenges costs at most the whole. It is proved from the two
  equations of `Total` by taking a smallest counterexample, as induction over
  sets is out of the prover's reach.
* **Protocol over ledger** (`ClientUsesLedger`). Every step of the protocol is a
  ledger operation or leaves the ledger alone, so the ledger's theorems carry
  over to it.
* **Money stays counted, one credential, receipts are paid**
  (`MoneyStaysCountedCorrect`, `OneCredentialCorrect`, `ReceiptsArePaidCorrect`).
  The properties alone are not inductive: they need that a call between
  `markSubmitted` and its end owns a pending submitted row under its key
  (`InFlightOwnsRow`), that no two calls are there for one challenge
  (`OneOwner`), that it has not signed yet while it waits to (`UnsignedYet`), and
  that a call about to submit has its key on its row (`SubmittingOwnsKey`).
* **Sealing** (`NoPlaintextAfterSealingCorrect`). A value is sealed only together
  with a record of its key (`RecordsKeys`), and a start that finds any record
  does not take the compatibility mode.
* **Plaintext sealed on open** (`PlaintextSealedOnOpenCorrect`, for histories
  without rollbacks). The migration leaves no plaintext behind its cursor
  (`MigrationLeavesNothing`): `BatchHasNoGap` and `QueryFindsRows` say what the
  ordered, limited query returns. That new plaintext never appears behind a
  cursor uses `RecordsKeys`.

* **Scrub remembered** (`ScrubRememberedCorrect`, for histories without rollbacks).
  `ScrubKept`: a store that records a key holds no plaintext value, and while freed
  plaintext is left it records a pending scrub; a migration on its way to the first
  record, and every scrub under way, has the scrub pending in memory.
* **Refinement** (`ImplementsGovernedSpendingCorrect`: `Spec` implies
  `GovernedSpending`). What is held is what a row of the day holds back, what is
  paid is what has been signed. One lemma for each action says which abstract step it is;
  `MoneyInv` supplies that what is signed has a submitted row. `DaysPass` gives
  midnight.
* **Policy honoured** (`PolicyHonouredCorrect`, for one process, `Procs = {p}`). Between
  `Decide` and `Submit` no other code of the process runs, so the saved policy still
  admits what the call has decided to pay (`PolicyInv`). With several processes it is not, and
  the property is not claimed.
* **Custody** (`ChallengesRestCorrect`, `ReplacedOnlyUnreadCorrect`,
  `KeptUnlessDrawnTwiceCorrect`). `CustodyInv` follows a value from Core's storage
  through a request and the endpoint into a challenge, and says that a name which had a
  value still has one (`LateStays`). `KeptInv` says what `sole` means later: one
  request at most writes to a name (`OneDraw`), a write that is still to end is the only
  one to its name, which has no value (`WriteAwaited`), so whatever was read, bound, reported
  or issued is what storage has now (`AccountsAgree`, `AllAgree`).
* **Reviews** (`ReviewsHoldCorrect`). `FlowInv`: a payment is in one window (`OneHolder`), was
  prepared before it is held or decided (`HeldIsPrepared`, `DecidedIsPrepared`), a dialog shows
  the window's payment (`DialogIsOfPayment`), an open one is undecided
  (`OpenIsUndecided`), and a window asks as the policy said (`AskedAsPrepared`).
* **Redirects** (`RedirectsSafeCorrect`, no assumption). `FetchInv`: the hop at hand is on the
  caller's origin (`HopAtHome`) and whole or a `GET` (`HopWhole`), it was checked
  (`Checked`), and after a late hop none follows (`LateOnce`).
* **Replay** (`ReplaySafeCorrect`). `ReplayInv`: only the holder of the write lock is in a
  transaction (`Locked`), so the row it read is the table's (`RowIsCurrent`), and the
  row's expiry covers every granted claim (`Covered`).

* **Recorded key** (`RecordedKeyCorrect`, for `AtMostOneRotation`). `RotationKept`: until the
  new key is delivered the store is as it was sealed (`NotYetRotated`); from then on no row
  behind a recorded or a running cursor is under the old key, the columns before the
  one at hand have none, and the new key is recorded only when no row is left
  (`Rotating`).
* **One key for ever** (`KeysKeptCorrect`). `OneByOneKept` says for each point between two
  file accesses what the two files may hold while one start runs; `RacingKept`, that starts
  that race share the root from the moment it is written, because only one of
  them creates the file.
* **Sealed log** (`LogKeptCorrect`, `ImplementsRecordLogCorrect`, for `Reliable`). `LogInv`: either
  there is no header and nothing was appended (`Bare`), or the file is a header, the frames of the
  records and perhaps a part of one more frame (`Shape`), the disk is a beginning of it, what was
  answered for ends within that (`Stored`), and an open writer stands at the end of a complete
  file (`Opened`). `ScanShape` says that the loop of the scan, shown to be defined by `LoopIsDefined`, finds
  just these records; `WrongKeyRefused`, that no other key opens a log that has any;
  `BeginningShape`, that what a power loss leaves is again a log, of the records that end
  in it. Each step then adds a record, makes records durable or drops undurable ones
  (`Evolves`), which are the steps of `RecordLog`.
* **Sealing a file in place** (`IntactCorrect`, `AnsweredSealedCorrect`, for `Undisturbed`).
  Every directory a power loss may leave names a whole file (`AlwaysWhole`); the copy
  is no directory's file until it is complete and synced (`CopyIsApart`), and `SealerInv`
  says what each step of the sealer has established.
* **Content cipher** (`OpensExactlyCorrect`). A derived key is a sequence that tells its root,
  store and labels apart (`KeySequence`), so every key a cipher holds is derived from its own root
  in the cipher's place (`KeysInPlace`), and a stored value is the original or one
  envelope around it (`StoredIsOriginal`, `SealedAtHome`).
* **Format of sealed files** (`FormatExactCorrect`, no hypothesis). The encoder's state is determined
  by the bytes pushed: `m` full chunks are sealed and `filled` bytes buffered, of
  `m * chunkSize + filled` in all (`FormatInv`); `FillTakesAll` shows it for every number of rounds
  of `push`. So the offset of a chunk is its index times the length of a sealed
  chunk, and `DivideBack` and `SameQuotient` show that the reader's division of the size names these
  chunks for the whole size only: of any shorter one the last chunk it looks for is cut, or is not
  sealed as a last chunk. `Read` is then exact by a smallest counterexample on the bytes left.
* **Processes that migrate together** (`SharedSafeCorrect`). Old plaintext lies ahead of the
  recorded cursor and of everybody's own (`OldIsAhead`), and a batch that reaches over a
  row of it has read it as it still is (`BatchIsCurrent`), so the batch seals it; the
  lemmas on the ordered, limited query say that it skips no row.
* **MCP sessions** (`CallsInSessionCorrect`, `OutcomeWasSaidCorrect`). `McpInv`: a call under way
  was posted on an agreed session (`CallsPosted`), a parked challenge was asked on its
  session (`ParkedWereAsked`), and so were the credentials that were sent
  (`CredentialsWereAsked`). `AnswerWasSent` takes the outcome of a response back to a
  message with the id of the request, for every body in `Bodies`.
* **Catalog** (`CacheIsRecentCorrect`). A fetch under way, and the list that is cached, are no
  older than the time limit of a request (`FetchInTime`, `CacheInTime`).
* **Versions** (`VersionsOrderedCorrect`). `OwnTags`: what the runs published names a past
  date and a run up to the newest, and lies on a base that was reached over published
  stables (`BaseReached`), which are never pruned. So a base cannot sink, whatever
  stables others push; a new run's number is above those of all re-runs. `BaseIsFree` (by the pigeonhole principle: the
  loop is bounded by the number of stables) and `OrdinalIsNext` say what the next version is.

* **Release notes** (`NotesCompleteCorrect`, no hypothesis). `NoteInv`: the batches left divide
  the descriptions that no answer covers (`LeftIsParted`), nothing is left when highlights are
  merged, and requests are paid for (`RequestsCounted`): a request and its retries count
  for the batch, and a split, which adds a batch, or an answer, which turns a batch into
  covered descriptions of twice its worth, makes room for the next. `BatchesParts` says that `batches`
  divides all descriptions, `SplitParts` that two halves divide what their batch did, and
  `CountParts` (by an injection into the descriptions) that no more batches are left than descriptions.

Every invariant and action property that a passing run checks is stated by a theorem.
Of the liveness properties `CallsEnd`, `OpenEnds`, `BusyEnds` and `FetchEnds`
nothing is proved, nor could it be here: they need `ENABLED` and fairness.

## 5. Where code and documentation disagree

Shown by a run:

1. `refusing_store`: `README.md` says that a store sealed under a different key
   refuses new payments. `reserve` seals only when it inserts; a retry of a
   reservation that survived a crash goes through on a refusing store, is signed
   and sent, and its receipt cannot be committed.
2. `seal_two_rotations`: under a retired key every column is said to be
   rescanned. A cursor left by an interrupted rotation is reused under the next
   key, and rows before it keep the key in between.
3. `wallet_two_creates`: "A payment wallet is already configured." is what the second of
   two creates is to be told. Two that overlap both find no wallet, and the second
   overwrites the key whose address the first has reported.
4. `log_failed_append`: committed records of a log are said to be recoverable. After an
   append that failed halfway, a shorter one leaves the rest of the torn frame behind it, and
   the log is refused with every record that was synced.
5. `approval_stale`: "Charges above this always need review." A payment prepared
   without review is paid without one after the threshold was lowered below it.

Found while modelling, and described here only:

* a first migration that crashed leaves only column records, which
  `storeKeyState` does not look at: an unrelated key then seals the rest
  (`seal.ts:559`);
* a row that an older build adds before the cursor of an interrupted migration is
  sealed only by the open after the next (`content-seal.ts:424`), and a crash between
  a batch that seals such plaintext again and the store's record forgets the scrub
  (`content-seal.ts:494`);
* a WAL checkpoint that another connection blocks reports `busy` in its row and does
  not raise, so the scrub counts as done (`content-seal.ts:536`);
* two first uses may store two server secrets (`wallet.ts:178`);
* an answer of `storage.get` whose body is lost is read as "nothing stored"
  (`wallet.ts:74-78`, `127-128`): a later `create` then replaces the key of a wallet that is
  there, against "A payment wallet is already configured.", and a first use replaces
  the server secret;
* a `storage.set` that was given up after 5 s (`wallet.ts:125`) may be carried out after
  the retry has stored, reported or bound its own value, which it replaces;
* overlapping first starts with two different master keys both find no pinned value,
  both go on, and only the second's is pinned (`seal.ts:465`);
* a log whose only record has its whole length but does not open is refused as sealed
  under a wrong key, although a power loss may have left it so (`sealed-log.ts:195`);
* two sealers of one file share the name of the temporary file
  (`sealed-file.ts:714`), and what is appended to the original while it is copied is
  lost (`sealed-file.ts:720`);
* a 404 to the call that carries the credential is reported as a session that
  "expired before payment" (`mcp.ts:222`);
* a read that fails after a settled payment produces the message that the payment
  did not settle (`App.tsx:127-135`);
* `resolveBase` stops at the first gap (`next-version.mjs:215`), although the comments
  say that it goes past every published stable (`next-version.mjs:40-43`, `194-196`,
  `nightly.yml:84-87`). With 0.5.2 pushed by hand and 0.5.1 in the tree a prerelease
  is on 0.5.1, older than a stable that is out;
* a run that is run again keeps its number (`nightly.yml:109-112`): after later runs of
  the day it publishes a version older than what its channel has;
* a charge of amount zero passes a daily cap that is already exceeded.

## 6. Not modelled, and the plan

| Part | Why |
|---|---|
| Challenge validation (`validation.ts`, schemas) | parsing and hashing of one value, no state; `PaymentClient` takes a challenge as an atomic value |
| Service runtime (`effect-http.ts`, `index.ts`, `branding.ts`) | process start and stop, configuration: I/O |
| HTTP server | routing and body limits; its one piece of state, the paid endpoint, is in `Wallet` |
| Paid endpoint | verification of credentials is the SDK's; its binding is in `Wallet`, its store is `ReplayStore` |
| Cryptography | ChaCha20-Poly1305 and HKDF are assumed: a value opens under its key and context only |
| Blind index | no store of this app uses it |
| Refusal of newer formats (`refuseNewerFormat`) | one comparison on open |
| Rendering, service list, receipt details, `fragmentPairs`, text of the notes, build workflows | wording and layout |

Left of the plan: several processes under several keys, that is `SharedSeal` with the
key states and the scrub of `StoreSeal`, where a blocked checkpoint could be stated
as a run.
