------------------------------- MODULE MCFlows -------------------------------
(***************************************************************************)
(* Small instances of the modules about approvals, requests and releases:  *)
(* ApprovalFlow.tla, GovernedFetch.tla, ReplayStore.tla,                   *)
(* ServiceCatalog.tla, ReleaseVersions.tla, ReleaseNotes.tla.              *)
(*                                                                         *)
(* The components share no state, so what one of them does alone is all it *)
(* can do beside the others: a behaviour lets one component run and leaves *)
(* the others in an initial state.                                         *)
(***************************************************************************)
EXTENDS MCApprovalFlow, GovernedFetch, ReplayStore, ServiceCatalog, ReleaseVersions, ReleaseNotes

VARIABLE component      \* the component that runs

allVars == <<component, vars, fetchVars, replayVars, catalogVars, versionVars, noteVars>>

\* The versions of the instance: tags that are no version, no ordinal, an ordinal that
\* is not numeric, and a stable ahead of the tree.
MCVersion(minor, patch, prerelease) == Version(0, minor, patch, prerelease)
MCInTree == MCVersion(5, 1, <<>>)
MCBumps == {MCVersion(5, 2, <<>>), MCVersion(6, 0, <<>>)}
MCForeign == {NoVersion, MCVersion(5, 1, <<Name(1)>>), MCVersion(5, 1, <<Name(1), Name(4)>>),
              MCVersion(5, 2, <<>>)}

MCInit ==
    /\ component \in {"approval", "fetch", "replay", "catalog", "versions", "notes"}
    /\ Init /\ FetchInit /\ ReplayInit /\ CatalogInit /\ VersionInit /\ NoteInit
    /\ component # "fetch" =>
          /\ allowed = {}
          /\ request = CHOOSE r \in Requests : TRUE
    /\ component # "notes" => bytes = [i \in 1..N |-> 1]

Approving(A) ==
    /\ component = "approval" /\ A
    /\ UNCHANGED <<component, fetchVars, replayVars, catalogVars, versionVars, noteVars>>
FetchRuns(A) ==
    /\ component = "fetch" /\ A
    /\ UNCHANGED <<component, vars, replayVars, catalogVars, versionVars, noteVars>>

MCNext ==
    \/ Approving(Next)
    \/ FetchRuns(FetchNext)
    \/ /\ component = "replay" /\ ReplayNext
       /\ UNCHANGED <<component, vars, fetchVars, catalogVars, versionVars, noteVars>>
    \/ /\ component = "catalog" /\ CatalogNext
       /\ UNCHANGED <<component, vars, fetchVars, replayVars, versionVars, noteVars>>
    \/ /\ component = "versions" /\ VersionNext
       /\ UNCHANGED <<component, vars, fetchVars, replayVars, catalogVars, noteVars>>
    \/ /\ component = "notes" /\ NoteNext
       /\ UNCHANGED <<component, vars, fetchVars, replayVars, catalogVars, versionVars>>

\* The fairness of ApprovalFlow and GovernedFetch.
MCSpec ==
    /\ MCInit /\ [][MCNext]_allVars
    /\ \A w \in Windows : WF_allVars(Approving(Answer(w)))
    /\ WF_allVars(FetchRuns(Fetch))
=============================================================================
