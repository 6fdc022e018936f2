----------------------------- MODULE MCStoreSeal -----------------------------
(***************************************************************************)
(* Histories of delivered keys for StoreSeal.tla.                          *)
(***************************************************************************)
EXTENDS StoreSeal

CONSTANTS A, B, C

MCRoots == {A, B, C}
Deliver(root, retired) == [root |-> root, retired |-> retired]

Life(under, keys, old) == [sealedUnder |-> under, deliveries |-> keys, oldBuilds |-> old]

\* An older Core delivers no key to a store that was never sealed, then keys
\* come and go.
KeyComesAndGoes ==
    Life(NoKey, <<Deliver(NoKey, {}), Deliver(A, {}), Deliver(NoKey, {}), Deliver(A, {})>>, FALSE)

\* A rotation that reaches its end, whatever interrupts it; then the old key
\* is forgotten, or nothing is delivered.
OneRotation ==
    Life(A, <<Deliver(A, {}), Deliver(B, {A}), Deliver(NoKey, {}), Deliver(B, {A}), Deliver(B, {})>>,
            FALSE)

\* A key is lost in the middle of a rotation, between runs of older builds.
LostInRotation == Life(A, <<Deliver(B, {A}), Deliver(C, {A})>>, TRUE)

\* A second rotation before the first has ended.
TwoRotations == Life(A, <<Deliver(B, {A}), Deliver(C, {A, B})>>, FALSE)

MCHistories == {KeyComesAndGoes, OneRotation, LostInRotation}
MCTwoRotations == {TwoRotations}
=============================================================================
