----------------------------- MODULE McpSession -----------------------------
(***************************************************************************)
(* Calling a paid MCP tool (src/sidecar/src/mcp.ts) from prepareMcp and    *)
(* pay (client.ts).  A call without a session negotiates one: discovery,   *)
(* and the legacy initialization where discovery is unknown.  The session  *)
(* a challenge came on is parked with it and used again to pay.            *)
(*                                                                         *)
(* A call's pc is the method of the POST it awaits.  The server is any:    *)
(* each answer is one of Responses, with messages for other requests and   *)
(* text that is no message before the one that answers.                    *)
(***************************************************************************)
EXTENDS Naturals, Sequences, SequencesExt

CONSTANTS
    Calls,          \* calls of prepareMcp and pay
    Challenges,
    SessionIds,     \* mcp-session-id headers safeSessionId keeps
    None

ASSUME McpAssumption ==
    None \notin Challenges \cup {"paid", "payment_required", "payment_failed", "challenge_changed"}

VARIABLES
    toolCalls,      \* the calls, in progress and ended
    pending,        \* payments parked behind approval tokens
    posts,          \* history: the POSTs sent
    agreed,         \* history: sessions the server agreed to, and in which call
    said            \* history: what the server said under the id of a call's tools/call

mcpVars == <<toolCalls, pending, posts, agreed, said>>

(***************************************************************************)
(* Sessions, messages and responses.                                       *)
(***************************************************************************)
Modern == [mode |-> "modern", id |-> None]
Legacy(id) == [mode |-> "legacy", id |-> id]
Sessions == {Modern} \cup {Legacy(id) : id \in SessionIds \cup {None}}
NoSession == [mode |-> "none", id |-> None]

\* What a JSON-RPC message says: a result, an error, or neither ("empty").  Of
\* the results, "versions" lists the version of this client, "receipt" and
\* "required" carry a receipt or a challenge in _meta; "e_unknown" is -32601 or
\* -32600, "e_version" -32022, "e_required" the payment code with a challenge
\* that parses, "e_badRequired" without one.
Results == {"versions", "object", "receipt", "required"}
Errors == {"e_unknown", "e_version", "e_required", "e_badRequired", "e_other"}
Carries(content) == IF content \in {"required", "e_required"} THEN Challenges ELSE {None}

Said(content, ch) == [content |-> content, challenge |-> ch]
Envelopes == UNION {{Said(content, ch) : ch \in Carries(content)} :
                        content \in Results \cup Errors \cup {"empty"}}
NoMessage == Said("nothing", None)

\* A piece of a body is a message with the id of the request or another id, or
\* no message ("junk").
Own(e) == [id |-> "own", says |-> e]
Noise == {[id |-> "other", says |-> e] : e \in {x \in Envelopes : x.content \in {"receipt", "e_required"}}}
            \cup {[id |-> "junk", says |-> NoMessage]}
Bodies == {<<>>} \cup {<<n>> : n \in Noise} \cup {<<Own(e)>> : e \in Envelopes}
            \cup {<<n, Own(e)>> : n \in Noise, e \in Envelopes}
Responses == [status : {200, 400, 404, 405, 500}, body : Bodies]

(***************************************************************************)
(* postMcp and parseEnvelopeText: what a POST comes to.                    *)
(***************************************************************************)
Failures == {"mcp_session_expired", "invalid_mcp_response", "mcp_http_error"}
Failure(code) == Said(code, None)

\* Mutant: the first message is taken whatever it answers.
MatchesAny(piece, method) == piece.id # "junk"

\* A notification has no id: any message answers it.
Matches(piece, method) ==
    piece.id = "own" \/ (method = "initialized" /\ piece.id # "junk")

MayLackEnvelope(method, status) == method = "discover" /\ status \in {400, 404, 405}

\* hasId: the POST carries the session id of a legacy session.
Posted(r, method, hasId) ==
    LET matching == {i \in DOMAIN r.body : Matches(r.body[i], method)}
    IN  IF r.status = 404 /\ hasId THEN Failure("mcp_session_expired")
        ELSE IF matching # {} THEN r.body[Min(matching)].says
        ELSE IF MayLackEnvelope(method, r.status) THEN NoMessage
        ELSE IF r.body # <<>> THEN Failure("invalid_mcp_response")
        ELSE IF r.status # 200 THEN Failure("mcp_http_error")
        ELSE NoMessage

\* The answers a POST may get, as far as a call sees them: the status, what the
\* POST comes to, and what the server said under the id of the request.
Answers ==
    [method \in {"discover", "initialize", "initialized", "call"} |-> [hasId \in BOOLEAN |->
        {[status |-> r.status, says |-> Posted(r, method, hasId),
          own |-> {piece.says : piece \in {q \in Range(r.body) : q.id = "own"}}] : r \in Responses}]]

HasId(session) == session.mode = "legacy" /\ session.id # None

(***************************************************************************)
(* Calls.                                                                  *)
(***************************************************************************)
NewCall(pc, session, credential) ==
    [pc |-> pc, session |-> session, credential |-> credential, outcome |-> None]

Idle == NewCall("idle", NoSession, None)

McpInit ==
    /\ toolCalls = [c \in Calls |-> Idle]
    /\ pending = {}
    /\ posts = {}
    /\ agreed = {}
    /\ said = {}

Post(c, method, session, credential) ==
    posts' = posts \cup {[call |-> c, method |-> method, session |-> session,
                          credential |-> credential]}

End(c, outcome) == toolCalls' = [toolCalls EXCEPT ![c].pc = "ended", ![c].outcome = outcome]

Fail(c, code) == End(c, code) /\ UNCHANGED <<pending, posts, agreed>>

\* callMcpTool once the session is there.
CallTool(c, session, credential) ==
    /\ toolCalls' = [toolCalls EXCEPT ![c] = NewCall("call", session, credential)]
    /\ Post(c, "call", session, credential)

\* prepareMcp: an invalid request goes nowhere, a valid one to the server.
Prepare(c) ==
    /\ toolCalls[c] = Idle
    /\ \/ Fail(c, "invalid_request")
       \/ /\ toolCalls' = [toolCalls EXCEPT ![c] = NewCall("discover", Modern, None)]
          /\ Post(c, "discover", Modern, None)
          /\ UNCHANGED <<pending, agreed>>
    /\ UNCHANGED said

\* Mutant: pay negotiates a session of its own.
PayRenegotiating(c, p) ==
    /\ toolCalls[c] = Idle
    /\ p \in pending
    /\ pending' = pending \ {p}
    /\ \E id \in SessionIds : CallTool(c, Legacy(id), p.challenge)
    /\ UNCHANGED <<agreed, said>>

\* pay, from the signed credential on; PaymentClient has what precedes it.
Pay(c, p) ==
    /\ toolCalls[c] = Idle
    /\ p \in pending
    /\ pending' = pending \ {p}
    /\ CallTool(c, p.session, p.challenge)
    /\ UNCHANGED <<agreed, said>>

(***************************************************************************)
(* negotiateMcp and initializeLegacy.                                      *)
(***************************************************************************)
IsUnknown(e, status) ==
    \/ status \in {404, 405}
    \/ e.content \in {"e_unknown", "e_required", "e_badRequired"}
    \/ status = 400 /\ e.content \in Errors \cup {"nothing"}

Discovered(c, a) ==
    LET e == a.says
    IN  /\ toolCalls[c].pc = "discover"
        /\ IF e.content \in Failures THEN Fail(c, e.content)
           ELSE IF e.content = "e_version" THEN Fail(c, "unsupported_mcp_version")
           ELSE IF IsUnknown(e, a.status)
           THEN /\ toolCalls' = [toolCalls EXCEPT ![c] = NewCall("initialize", NoSession, None)]
                /\ Post(c, "initialize", NoSession, None)
                /\ UNCHANGED <<pending, agreed>>
           ELSE IF a.status = 200 /\ e.content = "versions"
           THEN /\ CallTool(c, Modern, None)
                /\ agreed' = agreed \cup {[call |-> c, session |-> Modern]}
                /\ UNCHANGED pending
           ELSE Fail(c, "mcp_discovery_failed")
        /\ UNCHANGED said

\* Any object is a result; the session id comes in a header, or is dropped.
Initialized(c, a, id) ==
    LET e == a.says
    IN  /\ toolCalls[c].pc = "initialize"
        /\ CASE e.content \in Failures -> Fail(c, e.content)
             [] e.content \in Results ->
                    /\ toolCalls' = [toolCalls EXCEPT ![c] = NewCall("initialized", Legacy(id), None)]
                    /\ Post(c, "initialized", Legacy(id), None)
                    /\ UNCHANGED <<pending, agreed>>
             [] OTHER -> Fail(c, "mcp_initialize_failed")
        /\ UNCHANGED said

Notified(c, a) ==
    /\ toolCalls[c].pc = "initialized"
    /\ IF a.says.content \in Failures
       THEN Fail(c, a.says.content)
       ELSE /\ CallTool(c, toolCalls[c].session, None)
            /\ agreed' = agreed \cup {[call |-> c, session |-> toolCalls[c].session]}
            /\ UNCHANGED pending
    /\ UNCHANGED said

(***************************************************************************)
(* The answer to tools/call, and what prepareMcp and pay make of it.       *)
(***************************************************************************)
Asks(e) == e.content \in {"required", "e_required"}

OutcomeOf(c, e) ==
    CASE e.content \in Failures -> e.content
      [] e.content \in {"nothing", "empty"} -> "invalid_mcp_response"
      [] Asks(e) -> IF toolCalls[c].credential = None THEN "payment_required"
                    ELSE IF e.challenge = toolCalls[c].credential THEN "payment_failed"
                    ELSE "challenge_changed"
      [] e.content \in Errors \ {"e_required"} -> "mcp_tool_error"
      [] OTHER -> IF toolCalls[c].credential = None THEN "ready"
                  ELSE IF e.content = "receipt" THEN "paid"
                  ELSE "missing_receipt"

Called(c, a) ==
    LET e == a.says
        outcome == OutcomeOf(c, e)
    IN  /\ toolCalls[c].pc = "call"
        /\ End(c, outcome)
        /\ pending' = pending \cup
              (IF outcome = "payment_required"
               THEN {[call |-> c, challenge |-> e.challenge, session |-> toolCalls[c].session]}
               ELSE {})
        /\ said' = said \cup {[call |-> c, says |-> own] : own \in a.own}
        /\ UNCHANGED <<posts, agreed>>

\* The governed fetch refuses, or nobody answers in time.
FetchFails(c) ==
    /\ toolCalls[c].pc \notin {"idle", "ended"}
    /\ Fail(c, "egress_failed")
    /\ UNCHANGED said

McpNext ==
    \E c \in Calls :
        \/ Prepare(c)
        \/ \E p \in pending : Pay(c, p)
        \/ \E a \in Answers["discover"][FALSE] : Discovered(c, a)
        \/ \E a \in Answers["initialize"][FALSE], id \in SessionIds \cup {None} :
              Initialized(c, a, id)
        \/ \E a \in Answers["initialized"][HasId(toolCalls[c].session)] : Notified(c, a)
        \/ \E a \in Answers["call"][HasId(toolCalls[c].session)] : Called(c, a)
        \/ FetchFails(c)

McpSpec == McpInit /\ [][McpNext]_mcpVars

(***************************************************************************)
(* Properties.                                                             *)
(***************************************************************************)
\* Every tool call runs on a session whose handshake the server completed, in
\* the call itself or in the call its challenge came from (mcp.ts:307-424).
ToolCallsAgreed ==
    \A p \in posts : p.method = "call" => \E a \in agreed : a.session = p.session

\* A credential goes out in a tool call only, and on the very session on which
\* the server asked for that payment (client.ts:320-326, mcp.ts:424-444).
CredentialInItsSession ==
    \A p \in posts :
        p.credential # None =>
            /\ p.method = "call"
            /\ \E q \in posts :
                  /\ q.method = "call" /\ q.credential = None /\ q.session = p.session
                  /\ \E s \in said : s.call = q.call /\ s.says.challenge = p.credential

\* A payment is settled, changed or parked only on what the server said in
\* answer to this very call, whatever else was in the stream (mcp.ts:124-167,
\* mcp.test.ts:22: "correlates the requested id in SSE").
OutcomeWasSaid ==
    \A c \in Calls :
        /\ toolCalls[c].outcome = "paid" => [call |-> c, says |-> Said("receipt", None)] \in said
        /\ toolCalls[c].outcome \in {"payment_required", "payment_failed", "challenge_changed"}
              => \E s \in said : s.call = c /\ Asks(s.says)

\* Tool calls run on agreed sessions and credentials in the session of their
\* challenge (mcp.ts:307-444, client.ts:320-326).
CallsInSession == ToolCallsAgreed /\ CredentialInItsSession
=============================================================================
