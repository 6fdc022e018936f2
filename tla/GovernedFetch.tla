---------------------------- MODULE GovernedFetch ----------------------------
(***************************************************************************)
(* The governed fetch (src/sidecar/src/network.ts): a request and the      *)
(* redirects it follows, each hop checked against the policy in force and  *)
(* sent through Core's guarded egress.  The body of a hop is read between  *)
(* the check and the send, so the policy may change in between.            *)
(***************************************************************************)
EXTENDS Naturals

CONSTANTS
    Origins,
    NoLocation,
    MAX_REDIRECTS,
    MaxSaves        \* bound: changes of the policy

VARIABLES
    allowed,        \* allowedOrigins of the stored policy
    saves,          \* changes of the policy
    pc,             \* what the fetch does next
    request,        \* the hop at hand: target, method, body
    original,       \* the request the caller made
    redirectCount,
    sent,           \* history: the hops handed to Core
    late            \* history: hops handed over since their origin left the policy

fetchVars == <<allowed, saves, pc, request, original, redirectCount, sent, late>>

\* A plain target has neither credentials nor a fragment.
Targets == [origin : Origins, plain : BOOLEAN]
Requests ==
    {r \in [target : Targets, method : {"GET", "HEAD", "POST", "PUT"}, body : BOOLEAN] :
        r.body => r.method \in {"POST", "PUT"}}

Running == pc \notin {"idle", "ended"}

FetchInit ==
    /\ allowed \in SUBSET Origins
    /\ saves = 0
    /\ pc = "idle"
    /\ request \in Requests
    /\ original = request
    /\ redirectCount = 0
    /\ sent = {}
    /\ late = 0

(***************************************************************************)
(* The user, or another window, saves a policy.                            *)
(***************************************************************************)
SaveAllowed(origins) ==
    /\ saves < MaxSaves
    /\ saves' = saves + 1
    /\ allowed' = origins
    /\ late' = IF original.target.origin \in origins THEN 0 ELSE late
    /\ UNCHANGED <<pc, request, original, redirectCount, sent>>

(***************************************************************************)
(* requestOnce.                                                            *)
(***************************************************************************)
BeginFetch ==
    /\ pc = "idle"
    /\ pc' = "check"
    /\ UNCHANGED <<allowed, saves, request, original, redirectCount, sent, late>>

IsAllowed(target) == target.plain /\ target.origin \in allowed

Send ==
    /\ pc' = "answer"
    /\ sent' = sent \cup {request}
    /\ late' = IF request.target.origin \in allowed THEN late ELSE late + 1

EndFetch == pc' = "ended" /\ UNCHANGED <<allowed, saves, request, original, redirectCount, sent, late>>

\* assertAllowedTarget under the policy of this hop.
Check ==
    /\ pc = "check"
    /\ IsAllowed(request.target)
    /\ IF request.body THEN pc' = "body" /\ UNCHANGED <<sent, late>> ELSE Send
    /\ UNCHANGED <<allowed, saves, request, original, redirectCount>>

\* invalid_target and origin_not_allowed.
Blocked == pc = "check" /\ ~IsAllowed(request.target) /\ EndFetch

\* await request.arrayBuffer().
ReadBody ==
    /\ pc = "body"
    /\ Send
    /\ UNCHANGED <<allowed, saves, request, original, redirectCount>>

\* body_too_large, egress_unavailable, egress_failed, response_too_large, and
\* the time limit on Core's answer.
HopFails == pc \in {"body", "answer"} /\ EndFetch

(***************************************************************************)
(* The loop over redirects.                                                *)
(***************************************************************************)
IsRedirect(status) == status \in {301, 302, 303, 307, 308}
SwitchToGet(status) ==
    status = 303 \/ (status \in {301, 302} /\ request.method = "POST")

NextHop(status, target) ==
    [target |-> target, body |-> request.body /\ ~SwitchToGet(status),
     method |-> IF SwitchToGet(status) THEN "GET" ELSE request.method]

\* The caller gets this response.
Returned(status, location) ==
    /\ pc = "answer"
    /\ ~IsRedirect(status) \/ (redirectCount < MAX_REDIRECTS /\ location = NoLocation)
    /\ EndFetch

\* too_many_redirects and cross_origin_redirect.
Refused(status, location) ==
    /\ pc = "answer"
    /\ IsRedirect(status)
    /\ \/ redirectCount = MAX_REDIRECTS
       \/ location # NoLocation /\ location.origin # original.target.origin
    /\ EndFetch

\* Mutant: redirects are followed to any origin on the allowlist.
FollowedAnywhere(status, location) ==
    /\ pc = "answer"
    /\ IsRedirect(status)
    /\ redirectCount < MAX_REDIRECTS
    /\ location # NoLocation
    /\ request' = NextHop(status, location)
    /\ redirectCount' = redirectCount + 1
    /\ pc' = "check"
    /\ UNCHANGED <<allowed, saves, original, sent, late>>

\* Mutant: hops are not counted.
FollowedUncounted(status, location) ==
    /\ pc = "answer"
    /\ IsRedirect(status)
    /\ location # NoLocation
    /\ location.origin = original.target.origin
    /\ request' = NextHop(status, location)
    /\ pc' = "check"
    /\ UNCHANGED <<allowed, saves, original, redirectCount, sent, late>>

Followed(status, location) ==
    /\ pc = "answer"
    /\ IsRedirect(status)
    /\ redirectCount < MAX_REDIRECTS
    /\ location # NoLocation
    /\ location.origin = original.target.origin
    /\ request' = NextHop(status, location)
    /\ redirectCount' = redirectCount + 1
    /\ pc' = "check"
    /\ UNCHANGED <<allowed, saves, original, sent, late>>

Statuses == {200, 302, 303, 307}

AnswerHop ==
    \E status \in Statuses, location \in Targets \cup {NoLocation} :
        \/ Returned(status, location)
        \/ Refused(status, location)
        \/ Followed(status, location)

Fetch == BeginFetch \/ Check \/ Blocked \/ ReadBody \/ HopFails \/ AnswerHop

FetchNext == Fetch \/ \E origins \in SUBSET Origins : SaveAllowed(origins)

\* Every await of the fetch ends: Core answers or its time limit passes.
FetchSpec == FetchInit /\ [][FetchNext]_fetchVars /\ WF_fetchVars(Fetch)

(***************************************************************************)
(* Properties.                                                             *)
(***************************************************************************)
\* No hop, and so no credential among its headers, goes to another origin than
\* the one the caller named (network.ts:158, 182-189).
CredentialsStayHome ==
    \A hop \in sent : hop.target.plain /\ hop.target.origin = original.target.origin

\* A request is repeated whole, its method with its body, or goes on as a GET
\* without one: a server never sees half of it (network.ts:190-203).
WholeOrGet ==
    \A hop \in sent :
        \/ hop.method = original.method /\ hop.body = original.body
        \/ hop.method = "GET" /\ ~hop.body

\* An origin taken off the allowlist gets at most the one hop whose check was
\* over, however many redirects it answers (network.ts:59-62, 164).
RevocationHonoured == late <= 1

\* A fetch ends, whatever the server answers and however the policy changes
\* (network.ts:159-176, 206-210).
FetchEnds == Running ~> pc = "ended"

\* Redirects keep credentials at home, requests whole, and to the policy of the
\* moment (network.ts:158-204).
RedirectsSafe == CredentialsStayHome /\ WholeOrGet /\ RevocationHonoured
=============================================================================
