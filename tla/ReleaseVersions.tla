-------------------------- MODULE ReleaseVersions --------------------------
(***************************************************************************)
(* The versions of releases (src/scripts/next-version.mjs) and the runs    *)
(* that publish under them.  A version is its numbers and the identifiers  *)
(* of its prerelease; a tag that parseVersion refuses is NoVersion.  An    *)
(* identifier that is not numeric is named by its rank in ASCII order.  A  *)
(* run lists the published tags, perhaps not all of them, and may be run   *)
(* again under its number.  Others push tags too, stable ones among them   *)
(* (release.yml:4-12).                                                     *)
(***************************************************************************)
EXTENDS Integers, Sequences, FiniteSets, FiniteSetsExt

CONSTANTS
    NoVersion,
    InTree,         \* the version of the tree to begin with
    Bumps,          \* the versions bump-version.sh is called with
    ForeignTags,    \* tags that are not made by these runs
    MaxDay,         \* bound: UTC dates
    MaxRuns,        \* bound: numbered runs of the workflows
    MaxTags         \* bound: published tags

VARIABLES
    inTree,         \* the version in the tree
    published,      \* the tags of the releases
    day,            \* the UTC date
    run,            \* GITHUB_RUN_NUMBER of the newest run
    last            \* history: the release just made, and what was published before it

versionVars == <<inTree, published, day, run, last>>

Channels == {"stable", "beta", "nightly", "canary"}
Rank == [beta |-> 1, canary |-> 2, nightly |-> 3]
Numeric(n) == [numeric |-> TRUE, value |-> n]
Name(n) == [numeric |-> FALSE, value |-> n]
Version(major, minor, patch, prerelease) ==
    [major |-> major, minor |-> minor, patch |-> patch, prerelease |-> prerelease]

(***************************************************************************)
(* Precedence.                                                             *)
(***************************************************************************)
Sign(a, b) == CASE a < b -> -1 [] a > b -> 1 [] OTHER -> 0

CompareIdentifiers(left, right) ==
    IF left.numeric = right.numeric THEN Sign(left.value, right.value)
    ELSE IF left.numeric THEN -1 ELSE 1

\* The first identifiers that differ decide, else the shorter list is lower.
CompareLists(a, b) ==
    LET differ == {i \in DOMAIN a \cap DOMAIN b : a[i] # b[i]} IN
    IF differ # {} THEN CompareIdentifiers(a[Min(differ)], b[Min(differ)])
    ELSE Sign(Len(a), Len(b))

ComparePrerelease(a, b) ==
    CASE a = <<>> /\ b # <<>> -> 1
      [] a # <<>> /\ b = <<>> -> -1
      [] OTHER -> CompareLists(a, b)

ComparePrecedence(a, b) ==
    IF a = NoVersion THEN IF b = NoVersion THEN 0 ELSE -1
    ELSE IF b = NoVersion THEN 1
    ELSE IF a.major # b.major THEN Sign(a.major, b.major)
    ELSE IF a.minor # b.minor THEN Sign(a.minor, b.minor)
    ELSE IF a.patch # b.patch THEN Sign(a.patch, b.patch)
    ELSE ComparePrerelease(a.prerelease, b.prerelease)

IsNewer(current, candidate) == ComparePrecedence(candidate, current) > 0

BaseOf(v) == Version(v.major, v.minor, v.patch, <<>>)

Identifiers == [numeric : BOOLEAN, value : Nat]
Versions == [major : Nat, minor : Nat, patch : Nat, prerelease : Seq(Identifiers)]

ASSUME VersionAssumption ==
    /\ NoVersion \notin Versions
    /\ InTree \in Versions /\ InTree.prerelease = <<>>
    /\ \A v \in Bumps : v \in Versions /\ v.prerelease = <<>>
    /\ ForeignTags \subseteq Versions \cup {NoVersion}
    /\ {MaxDay, MaxRuns, MaxTags} \subseteq Nat

(***************************************************************************)
(* The next version.                                                       *)
(***************************************************************************)
Stables(tags) == {v \in tags \ {NoVersion} : v.prerelease = <<>>}

\* The loop that bumps the patch while it is taken, at most once for each stable.
ResolveBase(tree, tags) ==
    LET stable == Stables(tags)
        Patched(n) == Version(tree.major, tree.minor, tree.patch + n, <<>>)
        bumps == Min({n \in 0..(Cardinality(stable) + 1) :
                        n > Cardinality(stable) \/ Patched(n) \notin stable})
    IN Patched(bumps)

Ordinals(base, tags) ==
    {v.prerelease[2].value : v \in
        {w \in tags \ {NoVersion} :
            /\ BaseOf(w) = base
            /\ Len(w.prerelease) >= 2
            /\ w.prerelease[1] = Name(Rank.beta) /\ w.prerelease[2].numeric}}

\* Mutant: the highest ordinal is used again.
NextBetaOrdinalAgain(base, tags) == Max({1} \cup Ordinals(base, tags))

NextBetaOrdinal(base, tags) == Max({0} \cup Ordinals(base, tags)) + 1

NextVersion(channel, tree, tags, build, date) ==
    LET base == ResolveBase(tree, tags)
        prerelease ==
            CASE channel = "stable" -> <<>>
              [] channel = "beta" -> <<Name(Rank.beta), Numeric(NextBetaOrdinal(base, tags))>>
              [] OTHER -> <<Name(Rank[channel]), Numeric(date), Numeric(build)>>
    IN Version(base.major, base.minor, base.patch, prerelease)

(***************************************************************************)
(* Releases.                                                               *)
(***************************************************************************)
VersionInit ==
    /\ inTree = InTree
    /\ published = {}
    /\ day = 1
    /\ run = 0
    /\ last = NoVersion

Rolling == {"canary", "nightly"}

\* A numbered run, which sees some or all of the tags (publishedTags), publishes.
\* A run of a rolling channel that is run again keeps its number; if its version is
\* published already, that release is used again.
Release(channel, number, listed) ==
    LET v == NextVersion(channel, inTree, listed, number, day) IN
    /\ number = run + 1 \/ (number \in 1..run /\ channel \in Rolling)
    /\ number <= MaxRuns
    /\ Cardinality(published) < MaxTags
    /\ run' = IF number > run THEN number ELSE run
    /\ published' = published \cup {v}
    /\ last' = [version |-> v, channel |-> channel, tree |-> inTree, first |-> number > run,
                sighted |-> listed = published, before |-> published]
    /\ UNCHANGED <<inTree, day>>

\* Somebody pushes a tag: a stable one, or one the script has to read past.
ForeignTag(tag) ==
    /\ Cardinality(published) < MaxTags
    /\ published' = published \cup {tag}
    /\ last' = NoVersion
    /\ UNCHANGED <<inTree, day, run>>

\* bump-version.sh.
Bump(version) ==
    /\ IsNewer(inTree, version)
    /\ inTree' = version
    /\ last' = NoVersion
    /\ UNCHANGED <<published, day, run>>

\* A prerelease of a rolling channel is deleted: those that were created last stay.
Prune(tag) ==
    /\ tag # NoVersion /\ tag.prerelease # <<>>
    /\ tag.prerelease[1] \in {Name(Rank[channel]) : channel \in Rolling}
    /\ \E v \in published \ {tag, NoVersion} :
            v.prerelease # <<>> /\ v.prerelease[1] = tag.prerelease[1]
    /\ published' = published \ {tag}
    /\ last' = NoVersion
    /\ UNCHANGED <<inTree, day, run>>

NextDay ==
    /\ day < MaxDay
    /\ day' = day + 1
    /\ last' = NoVersion
    /\ UNCHANGED <<inTree, published, run>>

VersionNext ==
    \/ \E channel \in Channels, number \in 1..(run + 1), listed \in SUBSET published :
            Release(channel, number, listed)
    \/ \E tag \in ForeignTags : ForeignTag(tag)
    \/ \E version \in Bumps : Bump(version)
    \/ \E tag \in published : Prune(tag)
    \/ NextDay

VersionSpec == VersionInit /\ [][VersionNext]_versionVars

(***************************************************************************)
(* Properties.                                                             *)
(***************************************************************************)
IsOf(v, channel) ==
    IF channel = "stable" THEN v.prerelease = <<>>
    ELSE v.prerelease # <<>> /\ v.prerelease[1] = Name(Rank[channel])

\* A run that saw all tags and is not run again releases a version newer than all
\* its channel has released, also when other runs saw less or were run again, and
\* whatever stables are pushed (next-version.mjs:24-33).
ReleasesIncrease ==
    last # NoVersion /\ last.sighted /\ last.first =>
        \A v \in last.before \ (ForeignTags \cup {NoVersion}) :
            IsOf(v, last.channel) => IsNewer(v, last.version)

\* Every prerelease is older than the stable it leads to (next-version.mjs:30-32).
BelowItsStable ==
    \A v, s \in published \ {NoVersion} :
        v.prerelease # <<>> /\ s = BaseOf(v) => IsNewer(v, s)

\* The base is the first one from the version in the tree on that no stable has
\* taken, whatever prereleases there are; stables above a gap do not raise it
\* (next-version.mjs:206-225).
BaseIsFirstFree ==
    last # NoVersion /\ last.sighted =>
        LET base == BaseOf(last.version)
            taken == {v \in last.before \ {NoVersion} : IsOf(v, "stable")}
        IN /\ base \notin taken
           /\ base.major = last.tree.major /\ base.minor = last.tree.minor
           /\ \A patch \in last.tree.patch..(base.patch - 1) :
                    Version(base.major, base.minor, patch, <<>>) \in taken

\* Releases increase, below their stables, on the first free base
\* (next-version.mjs:24-46).
VersionsOrdered == ReleasesIncrease /\ BelowItsStable /\ BaseIsFirstFree
=============================================================================
