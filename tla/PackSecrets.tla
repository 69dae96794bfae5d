----------------------------- MODULE PackSecrets -----------------------------
(***************************************************************************)
(* The secrets of a Project Pack, the tokens of channels.* and the values  *)
(* of integrations.*: sealed with AES-GCM when a pack is stored, masked in *)
(* what is shown, opened when the owner asks for them.  A pack is edited   *)
(* as a whole: it is read, changed and put back.                           *)
(***************************************************************************)
CONSTANTS
    Channels,      \* channels.*.token and channels.*.bot_token of the pack
    Integrations,  \* keys of integrations
    Clients,       \* programs that read and write the pack for its owner
    Secrets,       \* what an owner types
    Keys           \* values of SISTEM_SECRETS_KEY over the restarts of the api

ASSUME KindsAssumption == Channels \cap Integrations = {}
ASSUME KeysAssumption == Keys \cap {"clear", "prefixed", "other"} = {}

VARIABLES
    key,     \* the key the api runs with
    stored,  \* the pack in projects.pack
    last,    \* the pack of the last POST or PUT, as it was sent
    copy     \* copy[c]: the pack client c was shown last

vars == <<key, stored, last, copy>>

Fields == Channels \cup Integrations

\* A value is a text, and how it is written: sealed under a key, or readable, as a
\* string in the clear, as one that was typed with the prefix SECRET_MARK though it
\* is no ciphertext, or as something that is no string.
Texts == Secrets \cup {"absent", "", "****", "****DECRYPT_FAIL"}
Clear(t) == [text |-> t, under |-> "clear"]
Sealed(t, k) == [text |-> t, under |-> k]

\* What a client sends or is shown, and what the database may have.
Readable == {Clear(t) : t \in Texts} \cup [text : Secrets, under : {"prefixed", "other"}]
Values == Readable \cup [text : Texts, under : Keys]

IsMarked(v) == v.under \in Keys \cup {"prefixed"}

-----------------------------------------------------------------------------
(* security.py *)

\* Mutant: the channel tokens are left as they are.
LeftUnlessIntegration(p, f) ==
    f \in Channels \/ p[f].text \in {"absent", ""} \/ IsMarked(p[f])
                  \/ p[f].under = "other"

\* A value that has the prefix, or is no string, is left as it is.
Left(p, f) == p[f].text \in {"absent", ""} \/ IsMarked(p[f]) \/ p[f].under = "other"

\* encrypt_pack_secrets
Encrypt(p) == [f \in Fields |-> IF Left(p, f) THEN p[f] ELSE Sealed(p[f].text, key)]

\* decrypt_pack_secrets: the tag of AES-GCM tells a wrong key.
Decrypt(p) ==
    [f \in Fields |->
        IF ~IsMarked(p[f]) THEN p[f]
        ELSE IF p[f].under = key THEN Clear(p[f].text)
        ELSE Clear("****DECRYPT_FAIL")]

\* mask_pack_secrets: a token that is not empty, an integration that is there.
Mask(p) ==
    [f \in Fields |->
        IF p[f].text = "absent" \/ (f \in Channels /\ p[f].text = "")
        THEN p[f] ELSE Clear("****")]

-----------------------------------------------------------------------------
(* Actions *)

\* A client types in some fields of the pack it has, and leaves the others.  The
\* schema has integrations of strings only, and leaves open what the token of
\* some channels is.
Typed(p) ==
    {q \in [Fields -> Readable] :
        \A f \in Fields : \/ q[f] = p[f]
                          \/ /\ q[f].text \in Secrets \cup {"", "absent"}
                             /\ f \in Integrations => q[f].under # "other"}

Blank == [f \in Fields |-> Clear("absent")]

\* POST of a pack that was made by hand.
Init ==
    /\ key \in Keys
    /\ last \in Typed(Blank)
    /\ stored = Encrypt(last)
    /\ copy = [c \in Clients |-> Mask(stored)]

View(c, p) == copy' = [copy EXCEPT ![c] = p] /\ UNCHANGED <<key, stored, last>>

\* Mutant: the pack is shown as it lies in the database.
ShowStored(c) == View(c, stored)

\* GET, and sistem_project_context of MCP.
Show(c) == View(c, Mask(stored))

\* GET with include_secrets.
Reveal(c) == View(c, Decrypt(stored))

\* PUT: the whole pack is replaced, and the answer shows it masked.
Replace(c, sent, kept) ==
    /\ last' = sent
    /\ stored' = kept
    /\ copy' = [copy EXCEPT ![c] = Mask(kept)]
    /\ UNCHANGED key

\* Mutant: the pack is masked in place, with no copy of it made first.
PutMasksInPlace(c) == \E p \in Typed(copy[c]) : Replace(c, p, Mask(Encrypt(p)))

Put(c) == \E p \in Typed(copy[c]) : Replace(c, p, Encrypt(p))

\* The api is started again with another key.
ChangeKey(k) ==
    /\ key' = k
    /\ UNCHANGED <<stored, last, copy>>

Next ==
    \/ \E c \in Clients : Show(c) \/ Reveal(c) \/ Put(c)
    \/ \E k \in Keys : ChangeKey(k)

Spec == Init /\ [][Next]_vars

-----------------------------------------------------------------------------
(* Properties *)

\* Type correctness; no client is shown a value as it lies in the database.
TypeOK ==
    /\ key \in Keys
    /\ stored \in [Fields -> Values]
    /\ last \in [Fields -> Readable]
    /\ copy \in [Clients -> [Fields -> Readable]]

\* Whatever is edited, under whatever key, and put back from whatever view, a
\* secret lies readable in the database only if it was last sent in one of the two
\* forms that encrypt_pack_secrets passes over: with the prefix, or as no string.
StringsAreSealed ==
    \A f \in Fields : stored[f].under \notin Keys =>
        stored[f].text \in {"absent", ""} \/ last[f].under \in {"prefixed", "other"}

\* What was sent last is what is kept, as it was sent or sealed: the key it was
\* sealed under, when the api runs with it again, opens it.
LastPutIsKept ==
    \A f \in Fields : IF stored[f].under \in Keys THEN stored[f].text = last[f].text
                       ELSE stored[f] = last[f]
=============================================================================
