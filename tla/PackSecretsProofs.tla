--------------------------- MODULE PackSecretsProofs ---------------------------
(***************************************************************************)
(* Proofs about PackSecrets, for every shape of a pack, every number of    *)
(* clients, and every sequence of keys.                                    *)
(***************************************************************************)
EXTENDS PackSecrets, TLAPS

\* A value is sealed only if it says something; masking relies on it.
SealedSaysSomething ==
    \A f \in Fields : stored[f].under \in Keys => stored[f].text \notin {"absent", ""}

SecretsInv == TypeOK /\ SealedSaysSomething /\ StringsAreSealed /\ LastPutIsKept

\* A key is no way of writing a value readably.
LEMMA KeysApart == \A k \in Keys : k \notin {"clear", "prefixed", "other"}
  BY KeysAssumption

LEMMA ReadableForm ==
    ASSUME NEW v \in Readable
    PROVE  v \in Values /\ v.text \in Texts /\ v.under \in {"clear", "prefixed", "other"}
  <1>1. v \in Values
    BY DEF Values
  <1>2. CASE v \in {Clear(t) : t \in Texts}
    <2>1. PICK t \in Texts : v = Clear(t)
      BY <1>2
    <2> QED
      BY <1>1, <2>1 DEF Clear
  <1>3. CASE v \in [text : Secrets, under : {"prefixed", "other"}]
    <2>1. v.text \in Secrets /\ v.under \in {"prefixed", "other"}
      BY <1>3
    <2> QED
      BY <1>1, <2>1 DEF Texts
  <1> QED
    BY <1>2, <1>3 DEF Readable

LEMMA ReadableIfNotSealed ==
    ASSUME NEW v \in Values, v.under \notin Keys
    PROVE  v \in Readable
  BY DEF Values

\* Encrypt leaves or seals a value, and leaves only what is no secret or is written
\* in one of the forms it passes over.
LEMMA EncryptField ==
    ASSUME NEW p \in [Fields -> Readable], key \in Keys, NEW f \in Fields
    PROVE  /\ Encrypt(p)[f] \in Values
           /\ Encrypt(p)[f].text = p[f].text
           /\ Encrypt(p)[f].under \notin Keys =>
                 /\ Encrypt(p)[f] = p[f]
                 /\ p[f].text \in {"absent", ""} \/ p[f].under \in {"prefixed", "other"}
           /\ Encrypt(p)[f].under \in Keys => p[f].text \notin {"absent", ""}
  <1>1. /\ p[f] \in Values /\ p[f].text \in Texts
        /\ p[f].under \in {"clear", "prefixed", "other"} /\ p[f].under \notin Keys
    BY ReadableForm, KeysApart
  <1>2. CASE Left(p, f)
    <2>1. Encrypt(p)[f] = p[f]
      BY <1>2 DEF Encrypt
    <2>2. p[f].text \in {"absent", ""} \/ p[f].under \in {"prefixed", "other"}
      BY <1>1, <1>2 DEF Left, IsMarked
    <2> QED
      BY <1>1, <2>1, <2>2
  <1>3. CASE ~Left(p, f)
    <2>1. Encrypt(p)[f] = Sealed(p[f].text, key) /\ p[f].text \notin {"absent", ""}
      BY <1>3 DEF Encrypt, Left
    <2>2. /\ Sealed(p[f].text, key) \in Values
          /\ Sealed(p[f].text, key).text = p[f].text /\ Sealed(p[f].text, key).under = key
      BY <1>1 DEF Sealed, Values
    <2> QED
      BY <2>1, <2>2
  <1> QED
    BY <1>2, <1>3

\* The mask shows no ciphertext, as long as what is empty is not sealed.
LEMMA MaskClear ==
    ASSUME NEW p \in [Fields -> Values],
           \A f \in Fields : p[f].under \in Keys => p[f].text \notin {"absent", ""}
    PROVE  Mask(p) \in [Fields -> Readable]
  <1>1. Clear("****") \in Readable
    BY DEF Readable, Texts
  <1>2. \A f \in Fields : p[f].text \in {"absent", ""} => p[f] \in Readable
    BY ReadableIfNotSealed
  <1> QED
    BY <1>1, <1>2 DEF Mask

\* Opening a value with the right key or the wrong one shows no ciphertext either.
LEMMA DecryptClear ==
    ASSUME NEW p \in [Fields -> Values]
    PROVE  Decrypt(p) \in [Fields -> Readable]
  <1>1. Clear("****DECRYPT_FAIL") \in Readable
    BY DEF Readable, Texts
  <1>2. ASSUME NEW f \in Fields PROVE Clear(p[f].text) \in Readable
    <2>1. p[f].text \in Texts
      BY ReadableForm DEF Values
    <2> QED
      BY <2>1 DEF Readable
  <1>3. \A f \in Fields : ~IsMarked(p[f]) => p[f] \in Readable
    BY ReadableIfNotSealed DEF IsMarked
  <1> QED
    BY <1>1, <1>2, <1>3 DEF Decrypt

\* What a POST or a PUT leaves in the database.
LEMMA StoredAfter ==
    ASSUME NEW p \in [Fields -> Readable], key \in Keys,
           last' = p, stored' = Encrypt(p)
    PROVE  /\ stored' \in [Fields -> Values]
           /\ SealedSaysSomething' /\ StringsAreSealed' /\ LastPutIsKept'
  <1>1. stored' \in [Fields -> Values]
    <2>1. \A f \in Fields : Encrypt(p)[f] \in Values
      BY EncryptField
    <2> QED
      BY <2>1 DEF Encrypt
  <1> QED
    BY <1>1, EncryptField DEF SealedSaysSomething, StringsAreSealed, LastPutIsKept

LEMMA SecretsInit == Init => SecretsInv
  <1> SUFFICES ASSUME Init PROVE SecretsInv
    OBVIOUS
  <1>1. key \in Keys /\ last \in [Fields -> Readable] /\ stored = Encrypt(last)
    BY DEF Init, Typed
  <1>2. stored \in [Fields -> Values]
    <2>1. \A f \in Fields : Encrypt(last)[f] \in Values
      BY <1>1, EncryptField
    <2> QED
      BY <1>1, <2>1 DEF Encrypt
  <1>3. SealedSaysSomething /\ StringsAreSealed /\ LastPutIsKept
    BY <1>1, EncryptField DEF SealedSaysSomething, StringsAreSealed, LastPutIsKept
  <1>4. Mask(stored) \in [Fields -> Readable]
    BY <1>2, <1>3, MaskClear DEF SealedSaysSomething
  <1> QED
    BY <1>1, <1>2, <1>3, <1>4 DEF Init, SecretsInv, TypeOK

LEMMA SecretsStep == SecretsInv /\ [Next]_vars => SecretsInv'
  <1> SUFFICES ASSUME SecretsInv, [Next]_vars PROVE SecretsInv'
    OBVIOUS
  <1>a. /\ key \in Keys /\ stored \in [Fields -> Values] /\ last \in [Fields -> Readable]
        /\ copy \in [Clients -> [Fields -> Readable]]
        /\ SealedSaysSomething /\ StringsAreSealed /\ LastPutIsKept
    BY DEF SecretsInv, TypeOK
  <1>b. ASSUME key' \in Keys, UNCHANGED <<stored, last>>,
               copy' \in [Clients -> [Fields -> Readable]]
        PROVE  SecretsInv'
    BY <1>a, <1>b
    DEF SecretsInv, TypeOK, SealedSaysSomething, StringsAreSealed, LastPutIsKept
  <1>1. ASSUME NEW c \in Clients, Show(c) PROVE SecretsInv'
    <2>1. Mask(stored) \in [Fields -> Readable]
      BY <1>a, MaskClear DEF SealedSaysSomething
    <2> QED
      BY <1>a, <1>b, <1>1, <2>1 DEF Show, View
  <1>2. ASSUME NEW c \in Clients, Reveal(c) PROVE SecretsInv'
    <2>1. Decrypt(stored) \in [Fields -> Readable]
      BY <1>a, DecryptClear
    <2> QED
      BY <1>a, <1>b, <1>2, <2>1 DEF Reveal, View
  <1>3. ASSUME NEW c \in Clients, Put(c) PROVE SecretsInv'
    <2>1. PICK p \in Typed(copy[c]) : Replace(c, p, Encrypt(p))
      BY <1>3 DEF Put
    <2>2. p \in [Fields -> Readable]
      BY DEF Typed
    <2>3. last' = p /\ stored' = Encrypt(p) /\ key' = key
      BY <2>1 DEF Replace
    <2>4. stored' \in [Fields -> Values] /\ SealedSaysSomething' /\ StringsAreSealed' /\ LastPutIsKept'
      BY <1>a, <2>2, <2>3, StoredAfter
    <2>5. Mask(stored') \in [Fields -> Readable]
      BY <2>4, MaskClear DEF SealedSaysSomething
    <2>6. copy' = [copy EXCEPT ![c] = Mask(stored')]
      BY <2>1, <2>3 DEF Replace
    <2> QED
      BY <1>a, <2>2, <2>3, <2>4, <2>5, <2>6 DEF SecretsInv, TypeOK
  <1>4. ASSUME NEW k \in Keys, ChangeKey(k) PROVE SecretsInv'
    BY <1>a, <1>b, <1>4 DEF ChangeKey
  <1>5. CASE UNCHANGED vars
    BY <1>a, <1>b, <1>5 DEF vars
  <1> QED
    BY <1>1, <1>2, <1>3, <1>4, <1>5 DEF Next

\* Type correctness; no client is ever shown a ciphertext.
THEOREM TypeCorrect == Spec => []TypeOK
  <1>1. SecretsInv => TypeOK
    BY DEF SecretsInv
  <1> QED
    BY <1>1, SecretsInit, SecretsStep, PTL DEF Spec

\* A secret lies readable in the database only if it was last sent with the prefix or
\* as no string, from whatever view the pack was edited and under whatever key.
THEOREM StringsSealed == Spec => []StringsAreSealed
  <1>1. SecretsInv => StringsAreSealed
    BY DEF SecretsInv
  <1> QED
    BY <1>1, SecretsInit, SecretsStep, PTL DEF Spec

\* What was sent last is what the database has, in the clear or sealed.
THEOREM LastPutKept == Spec => []LastPutIsKept
  <1>1. SecretsInv => LastPutIsKept
    BY DEF SecretsInv
  <1> QED
    BY <1>1, SecretsInit, SecretsStep, PTL DEF Spec
=============================================================================
