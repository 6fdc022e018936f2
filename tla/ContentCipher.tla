---------------------------- MODULE ContentCipher ----------------------------
(***************************************************************************)
(* The content cipher of a store                                           *)
(* (src/packages/sidecar-runtime/src/content.ts, class ContentCipher): how *)
(* a cipher is put together from a root, retired roots and labels, and     *)
(* what its seal and open do with every form a stored value can have.  A   *)
(* derived key is the sequence it is derived from; an envelope opens under *)
(* its own key and context only.                                           *)
(***************************************************************************)
EXTENDS Naturals, Sequences

CONSTANTS
    Roots, Stores, Labels, Contexts,
    MaxLabels,      \* bound: subciphers of subciphers
    Words,          \* strings that are no envelope
    Refused         \* a ContentSealError

VARIABLES
    cipher,         \* store, label chain, current and retired keys
    stored,         \* a stored TEXT value
    original,       \* history: the string that value stands for
    home            \* history: context, store, root and labels it was sealed with

cipherVars == <<cipher, stored, original, home>>

(***************************************************************************)
(* Putting a cipher together.                                              *)
(***************************************************************************)
\* deriveContentKey, then deriveSubKey for each label.
Key(root, store, labels) == <<root, store>> \o labels
Candidate(root, store, labels, retired) ==
    [key |-> Key(root, store, labels), retired |-> retired, root |-> root]

FromRoot(root, store) ==
    [store |-> store, labels |-> <<>>,
     current |-> Candidate(root, store, <<>>, FALSE), retired |-> {}]

\* The list replaces an earlier one; the current root is never retired.
WithRetiredRoots(c, roots) ==
    [c EXCEPT !.retired =
        {Candidate(r, c.store, c.labels, TRUE) : r \in roots \ {c.current.root}}]

Subcipher(c, label) ==
    LET Derive(k) == [k EXCEPT !.key = Append(@, label)]
    IN  [c EXCEPT !.labels = Append(@, label),
                  !.current = Derive(@),
                  !.retired = {Derive(k) : k \in @}]

(***************************************************************************)
(* seal and open.  A stored TEXT or BLOB is sealed under this version,     *)
(* or one of: "word", nothing that looks like an envelope; "ours", the     *)
(* prefix or magic of this version and no envelope behind it; "other", the *)
(* magic of a sealed file or log; "newer", the family of the prefix or     *)
(* magic and another version.                                              *)
(***************************************************************************)
Plain(kind, form, word) == [kind |-> kind, form |-> form, word |-> word]
Sealed(key, ctx, plain) ==
    [kind |-> plain.kind, form |-> "v1", key |-> key, context |-> ctx, plain |-> plain]

Plaintexts ==
    {Plain(kind, "word", w) : kind \in {"text", "bytes"}, w \in Words}
        \cup {Plain("text", form, "x") : form \in {"ours", "newer"}}
        \cup {Plain("bytes", form, "x") : form \in {"ours", "other", "newer"}}

SealText(c, text, ctx) == Sealed(c.current.key, ctx, text)

\* already_a_ryu_envelope: bytes that start with a known magic.
SealBytes(c, bytes, ctx) ==
    IF bytes.form \in {"ours", "other"} THEN Refused ELSE Sealed(c.current.key, ctx, bytes)

Seal(c, plain, ctx) ==
    IF plain.kind = "text" THEN SealText(c, plain, ctx) ELSE SealBytes(c, plain, ctx)

\* Mutant: the context is not bound into the associated data.
OpensUnbound(k, sealed, ctx) == sealed.key = k.key

Opens(k, sealed, ctx) == sealed.key = k.key /\ sealed.context = ctx

\* #open: the current key first, then the retired ones.
OpenSealed(c, sealed, ctx) ==
    IF \E k \in {c.current} \cup c.retired : Opens(k, sealed, ctx)
    THEN [value |-> sealed.plain, needsReseal |-> ~Opens(c.current, sealed, ctx)]
    ELSE Refused

Legacy(plain) == [value |-> plain, needsReseal |-> plain.word # ""]

OpenText(c, text, ctx) ==
    CASE text.form = "v1" -> OpenSealed(c, text, ctx)
      [] text.form \in {"ours", "newer"} -> Refused
      [] OTHER -> Legacy(text)

OpenBytes(c, bytes, ctx) ==
    CASE bytes.form = "v1" -> OpenSealed(c, bytes, ctx)
      [] bytes.form \in {"ours", "other", "newer"} -> Refused
      [] OTHER -> Legacy(bytes)

Open(c, value, ctx) ==
    IF value.kind = "text" THEN OpenText(c, value, ctx) ELSE OpenBytes(c, value, ctx)

Envelopes ==
    [kind : {"text", "bytes"}, form : {"v1"}, key : Seq(Roots \cup Stores \cup Labels),
     context : Contexts, plain : Plaintexts]

ASSUME CipherAssumption == MaxLabels \in Nat /\ Refused \notin Envelopes

(***************************************************************************)
(* A value across ciphers.                                                 *)
(***************************************************************************)
CipherInit ==
    /\ \E r \in Roots, s \in Stores : cipher = FromRoot(r, s)
    /\ \E p \in Plaintexts : stored = p /\ original = p
    /\ home = Refused

\* Another start, another root.
Start(root, store) ==
    /\ cipher' = FromRoot(root, store)
    /\ UNCHANGED <<stored, original, home>>

Retire(roots) ==
    /\ cipher' = WithRetiredRoots(cipher, roots)
    /\ UNCHANGED <<stored, original, home>>

Label(label) ==
    /\ Len(cipher.labels) < MaxLabels
    /\ cipher' = Subcipher(cipher, label)
    /\ UNCHANGED <<stored, original, home>>

Home(ctx) == [context |-> ctx, store |-> cipher.store,
              root |-> cipher.current.root, labels |-> cipher.labels]

Write(plain, ctx) ==
    /\ Seal(cipher, plain, ctx) # Refused
    /\ stored' = Seal(cipher, plain, ctx)
    /\ original' = plain
    /\ home' = Home(ctx)
    /\ UNCHANGED cipher

\* What a reader does with a value it is told to seal again.
Reseal(ctx) ==
    LET opened == Open(cipher, stored, ctx)
    IN  /\ opened # Refused
        /\ opened.needsReseal
        /\ stored' = Seal(cipher, opened.value, ctx)
        /\ home' = Home(ctx)
        /\ UNCHANGED <<cipher, original>>

CipherNext ==
    \/ \E r \in Roots, s \in Stores : Start(r, s)
    \/ \E roots \in SUBSET Roots : Retire(roots)
    \/ \E l \in Labels : Label(l)
    \/ \E ctx \in Contexts :
          \/ \E plain \in Plaintexts : Write(plain, ctx)
          \/ Reseal(ctx)

CipherSpec == CipherInit /\ [][CipherNext]_cipherVars

(***************************************************************************)
(* Properties.                                                             *)
(***************************************************************************)
Holds(root) == root = cipher.current.root \/ \E k \in cipher.retired : k.root = root

\* A sealed value, whatever its content looks like, opens exactly in its place:
\* the same store, labels and context, under a cipher that still has its root,
\* in whatever order that cipher was put together (content.ts:394-440, 489-577).
OpensInItsPlaceOnly ==
    home # Refused =>
        \A ctx \in Contexts :
            LET opened == Open(cipher, stored, ctx)
            IN  IF /\ home.context = ctx /\ home.store = cipher.store
                   /\ home.labels = cipher.labels /\ Holds(home.root)
                THEN opened = [value |-> original, needsReseal |-> home.root # cipher.current.root]
                ELSE opened = Refused

\* What opens can be sealed again, and that settles it: it opens to the same
\* value and does not ask to be sealed again under that cipher
\* (content.ts:109-120, 526-577).
ResealSettles ==
    \A ctx \in Contexts :
        LET opened == Open(cipher, stored, ctx)
        IN  (opened # Refused /\ opened.needsReseal) =>
                LET again == Seal(cipher, opened.value, ctx)
                IN  /\ again # Refused
                    /\ Open(cipher, again, ctx) = [value |-> opened.value, needsReseal |-> FALSE]

\* Values open in their place only, and what opens can be sealed again, once
\* (content.ts:109-120, 394-440, 489-577).
OpensExactly == OpensInItsPlaceOnly /\ ResealSettles
=============================================================================
