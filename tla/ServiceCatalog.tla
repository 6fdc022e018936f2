--------------------------- MODULE ServiceCatalog ---------------------------
(***************************************************************************)
(* The cached catalog of paid services (src/sidecar/src/services.ts).      *)
(* Lists of services are named by the time their server made them.  Calls  *)
(* of list overlap, and answers of the server arrive in any order.         *)
(***************************************************************************)
EXTENDS Naturals

CONSTANTS
    Listings,
    NoList,
    CACHE_TTL,
    Limit,          \* the governed fetch answers or gives up within this time
    MaxNow          \* bound: the clock

ASSUME CatalogAssumption ==
    /\ CACHE_TTL \in Nat /\ Limit \in Nat /\ MaxNow \in Nat
    /\ NoList \notin Nat

VARIABLES
    now,
    cached,         \* the cache: when it was stored, and the services
    list            \* each call of list

catalogVars == <<now, cached, list>>

\* made is when the server made its answer; how and what the call answered:
\* a fresh list, the cache, the cache for want of a list, or an error.
Listing == [at : {"idle", "fetch", "ended"}, began : 0..MaxNow, made : (0..MaxNow) \cup {NoList},
            how : {"none", "fresh", "cache", "stale", "unavailable", "malformed"},
            services : (0..MaxNow) \cup {NoList}]

Idle == [at |-> "idle", began |-> 0, made |-> NoList, how |-> "none", services |-> NoList]

CatalogTypeOK ==
    /\ now \in 0..MaxNow
    /\ cached \in [at : 0..MaxNow, services : 0..MaxNow] \cup {NoList}
    /\ list \in [Listings -> Listing]

CatalogInit ==
    /\ now = 0
    /\ cached = NoList
    /\ list = [c \in Listings |-> Idle]

Ends(c, how, services) ==
    list' = [list EXCEPT ![c].at = "ended", ![c].how = how, ![c].services = services]

Fresh == cached # NoList /\ now - cached.at < CACHE_TTL

(***************************************************************************)
(* list.                                                                   *)
(***************************************************************************)
ListCached(c) ==
    /\ list[c].at = "idle"
    /\ Fresh
    /\ list' = [list EXCEPT ![c].at = "ended", ![c].began = now, ![c].how = "cache",
                            ![c].services = cached.services]
    /\ UNCHANGED <<now, cached>>

\* A call that is forced, or finds no cache or one that is too old.
ListFetches(c, force) ==
    /\ list[c].at = "idle"
    /\ force \/ ~Fresh
    /\ list' = [list EXCEPT ![c].at = "fetch", ![c].began = now]
    /\ UNCHANGED <<now, cached>>

ServerAnswers(c) ==
    /\ list[c].at = "fetch" /\ list[c].made = NoList
    /\ list' = [list EXCEPT ![c].made = now]
    /\ UNCHANGED <<now, cached>>

Arrived(c) == list[c].at = "fetch" /\ list[c].made # NoList

Fetched(c) ==
    /\ Arrived(c)
    /\ cached' = [at |-> now, services |-> list[c].made]
    /\ Ends(c, "fresh", list[c].made)
    /\ UNCHANGED now

\* response.json or parseCatalogServices throws, and the cache is not asked.
Malformed(c) ==
    /\ Arrived(c)
    /\ Ends(c, "malformed", NoList)
    /\ UNCHANGED <<now, cached>>

\* Mutant: the list served for want of a fresh one counts as stored now.
StaleRestamped(c) ==
    /\ list[c].at = "fetch"
    /\ cached # NoList
    /\ cached' = [cached EXCEPT !.at = now]
    /\ Ends(c, "stale", cached.services)
    /\ UNCHANGED now

\* The fetch throws or answers with an error status.
Stale(c) ==
    /\ list[c].at = "fetch"
    /\ cached # NoList
    /\ Ends(c, "stale", cached.services)
    /\ UNCHANGED <<now, cached>>

Unavailable(c) ==
    /\ list[c].at = "fetch"
    /\ cached = NoList
    /\ Ends(c, "unavailable", NoList)
    /\ UNCHANGED <<now, cached>>

\* A caller calls again.
Again(c) ==
    /\ list[c].at = "ended"
    /\ list' = [list EXCEPT ![c] = Idle]
    /\ UNCHANGED <<now, cached>>

\* A fetch ends before its time limit has passed.
CatalogTick ==
    /\ now < MaxNow
    /\ \A c \in Listings : list[c].at = "fetch" => now - list[c].began < Limit
    /\ now' = now + 1
    /\ UNCHANGED <<cached, list>>

Lists(c) ==
    \/ ListCached(c) \/ \E force \in BOOLEAN : ListFetches(c, force)
    \/ ServerAnswers(c) \/ Fetched(c) \/ Malformed(c) \/ Stale(c) \/ Unavailable(c)
    \/ Again(c)

CatalogNext == CatalogTick \/ \E c \in Listings : Lists(c)

CatalogSpec == CatalogInit /\ [][CatalogNext]_catalogVars

(***************************************************************************)
(* Properties.                                                             *)
(***************************************************************************)
\* A list from the cache is never older than the cache may be by more than the
\* time a fetch may take, however calls overlap and fail (services.ts:97-123).
RecentWhenFresh == Fresh => now - cached.services < CACHE_TTL + Limit

\* The types hold, and the cache is recent (services.ts:97-123).
CacheIsRecent == CatalogTypeOK /\ RecentWhenFresh
=============================================================================
