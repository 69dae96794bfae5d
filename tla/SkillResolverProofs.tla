------------------------- MODULE SkillResolverProofs -------------------------
(***************************************************************************)
(* Proofs about SkillResolver: for every table of projects, in whatever    *)
(* order, and every command, the passes of _auto_project find what the     *)
(* definition of the best match asks for.                                  *)
(***************************************************************************)
EXTENDS SkillResolver, SequenceTheorems, FiniteSetTheorems, WellFoundedInduction, TLAPS

-----------------------------------------------------------------------------
(* Least and greatest indices *)

Less == {ss \in Nat \X Nat : ss[1] < ss[2]}

LEMMA LessWellFounded == IsWellFoundedOn(Less, Nat)
  <1>1. OpToRel(<, Nat) = Less
    BY DEF OpToRel, Less
  <1> QED
    BY <1>1, NatLessThanWellFounded

LEMMA MinInSet ==
    ASSUME NEW I \in SUBSET Nat, I # {}
    PROVE  Min(I) \in I /\ \A i \in I : Min(I) <= i
  <1>1. PICK x \in I : \A y \in I : ~(<<y, x>> \in Less)
    BY LessWellFounded, WFMin
  <1>2. ASSUME NEW y \in I PROVE x <= y
    <2>1. x \in Nat /\ y \in Nat
      OBVIOUS
    <2>2. ~(y < x)
      BY <1>1, <2>1 DEF Less
    <2> QED
      BY <2>1, <2>2
  <1> QED
    BY <1>2 DEF Min

LEMMA MaxInSet ==
    ASSUME NEW n \in Nat, NEW J \in SUBSET (1..n), J # {}
    PROVE  Max(J) \in J
  <1> DEFINE I == {n - j : j \in J}
  <1>1. I \in SUBSET Nat /\ I # {}
    <2>1. \A j \in 1..n : n - j \in Nat
      OBVIOUS
    <2> QED
      BY <2>1
  <1>2. Min(I) \in I /\ \A i \in I : Min(I) <= i
    BY <1>1, MinInSet
  <1>3. PICK x \in J : Min(I) = n - x
    BY <1>2
  <1>4. ASSUME NEW y \in J PROVE x >= y
    <2>1. n - y \in I /\ x \in Nat /\ y \in Nat
      OBVIOUS
    <2>2. n - x <= n - y
      BY <1>2, <1>3, <2>1
    <2> QED
      BY <2>1, <2>2
  <1> QED
    BY <1>4 DEF Max

-----------------------------------------------------------------------------
(* The passes *)

\* A pass over the projects finds one of its hits if there is any.
LEMMA FirstIsHit ==
    ASSUME NEW known \in Seq(Projects), NEW hits \in SUBSET ToSet(known)
    PROVE  IF hits = {} THEN First(known, hits) = None
                        ELSE First(known, hits) \in SlugsOf(hits)
  <1> DEFINE I == {i \in 1..Len(known) : known[i] \in hits}
             i0 == SelectInSeq(known, LAMBDA p : p \in hits)
  <1>1. i0 = IF I # {} THEN Min(I) ELSE 0
    BY DEF SelectInSeq
  <1>2. I \in SUBSET Nat /\ 0 \notin I
    OBVIOUS
  <1>3. I = {} <=> hits = {}
    BY LenProperties DEF ToSet
  <1>4. First(known, hits) = IF i0 = 0 THEN None ELSE known[i0].slug
    BY DEF First
  <1>5. CASE hits = {}
    BY <1>1, <1>3, <1>4, <1>5
  <1>6. CASE hits # {}
    <2>1. i0 \in I
      BY <1>1, <1>2, <1>3, <1>6, MinInSet
    <2> HIDE DEF i0
    <2>2. known[i0] \in hits /\ i0 # 0
      BY <1>2, <2>1
    <2> QED
      BY <1>4, <1>6, <2>2 DEF SlugsOf
  <1> QED
    BY <1>5, <1>6

\* The projects of the i-th niche of NicheHints, and those of the first niche
\* that the text has a key word of and the user has a project of.
OfKey(q, rows, i) == {p \in rows : NicheHints[i] \in q.keys /\ p.niche = NicheHints[i]}
FirstKeys(q, rows) ==
    {i \in DOMAIN NicheHints :
        OfKey(q, rows, i) # {} /\ \A j \in 1..i - 1 : OfKey(q, rows, j) = {}}
Keyable(q, rows) == UNION {OfKey(q, rows, i) : i \in FirstKeys(q, rows)}

\* The last pass finds a project of the first niche it can.
LEMMA KeyedIsHit ==
    ASSUME NEW known \in Seq(Projects), NEW q \in Commands
    PROVE  IF Keyable(q, ToSet(known)) = {} THEN Keyed(q, known) = None
           ELSE Keyed(q, known) \in SlugsOf(Keyable(q, ToSet(known)))
  <1> DEFINE rows == ToSet(known)
             I == {i \in 1..Len(NicheHints) : OfKey(q, rows, i) # {}}
             hit(n) == n \in q.keys /\ \E p \in rows : p.niche = n
             i0 == SelectInSeq(NicheHints, hit)
             J == {k \in 1..Len(known) : known[k].niche = NicheHints[i0]}
             k0 == SelectLastInSeq(known, LAMBDA p : p.niche = NicheHints[i0])
  <1>1. i0 = IF I # {} THEN Min(I) ELSE 0
    <2>1. I = {i \in 1..Len(NicheHints) : hit(NicheHints[i])}
      BY DEF OfKey
    <2> QED
      BY <2>1 DEF SelectInSeq
  <1>2. I \in SUBSET Nat /\ 0 \notin I
    OBVIOUS
  <1>3. DOMAIN NicheHints = 1..Len(NicheHints) /\ Len(NicheHints) \in Nat
    BY NichesAssumption, LenProperties
  <1>4. Keyed(q, known) = IF i0 = 0 THEN None ELSE known[k0].slug
    BY DEF Keyed
  <1>5. CASE I = {}
    <2>1. Keyable(q, rows) = {}
      BY <1>3, <1>5 DEF Keyable, FirstKeys
    <2> QED
      BY <1>1, <1>4, <1>5, <2>1
  <1>6. CASE I # {}
    <2>1. i0 \in I /\ \A i \in I : i0 <= i
      BY <1>1, <1>2, <1>6, MinInSet
    <2>2. k0 = IF J # {} THEN Max(J) ELSE 0
      BY DEF SelectLastInSeq
    <2> HIDE DEF i0
    <2>3. i0 # 0 /\ i0 \in 1..Len(NicheHints) /\ OfKey(q, rows, i0) # {}
      BY <1>2, <2>1
    <2>4. i0 \in FirstKeys(q, rows)
      <3>1. ASSUME NEW j \in 1..i0 - 1 PROVE OfKey(q, rows, j) = {}
        BY <1>3, <2>1, <2>3
      <3> QED
        BY <1>3, <2>3, <3>1 DEF FirstKeys
    <2>5. Len(known) \in Nat /\ DOMAIN known = 1..Len(known)
      BY LenProperties
    <2>6. J # {}
      BY <2>3, <2>5 DEF OfKey, ToSet
    <2>7. Max(J) \in J
      BY <2>5, <2>6, MaxInSet
    <2>8. k0 \in J
      BY <2>2, <2>6, <2>7
    <2> HIDE DEF k0
    <2>9. known[k0] \in OfKey(q, rows, i0)
      BY <2>3, <2>5, <2>8 DEF OfKey, ToSet
    <2>10. known[k0] \in Keyable(q, rows)
      BY <2>4, <2>9 DEF Keyable
    <2> QED
      BY <1>4, <2>3, <2>10 DEF SlugsOf
  <1> QED
    BY <1>5, <1>6

\* The first of two answers that is one.
LEMMA OrElseIs == \A a, b : OrElse(a, b) = IF a # None THEN a ELSE b
  BY DEF OrElse

\* The switcher answers with a best match, and with no project when none matches.
LEMMA AutoIsBest ==
    ASSUME NEW known \in Seq(Projects), NEW q \in Commands
    PROVE  IF Candidates(q, ToSet(known)) = {} THEN AutoProject(q, known) = None
           ELSE AutoProject(q, known) \in SlugsOf(Candidates(q, ToSet(known)))
  <1> DEFINE rows == ToSet(known)
             slug == {p \in rows : BySlug(q, p)}
             name == {p \in rows : ByName(q, p)}
             niche == {p \in rows : ByNiche(q, p)}
             key == Keyable(q, rows)
             found == Keyed(q, known)
  <1>1. Candidates(q, rows) = IF slug # {} THEN slug ELSE IF name # {} THEN name
                              ELSE IF niche # {} THEN niche ELSE key
    BY DEF Candidates, Keyable, FirstKeys, OfKey
  <1>2. AutoProject(q, known) =
           OrElse(First(known, slug), OrElse(First(known, name),
           OrElse(First(known, niche), found)))
    BY DEF AutoProject
  <1>3. rows \subseteq Projects
    BY ElementOfSeq, LenProperties DEF ToSet
  <1>4. \A hits \in SUBSET rows :
           IF hits = {} THEN First(known, hits) = None
                        ELSE First(known, hits) \in SlugsOf(hits) /\ First(known, hits) # None
    <2>1. \A hits \in SUBSET rows : None \notin SlugsOf(hits)
      BY <1>3, NoneAssumption DEF SlugsOf, Projects
    <2> QED
      BY <2>1, FirstIsHit
  <1>5. IF key = {} THEN found = None ELSE found \in SlugsOf(key)
    BY KeyedIsHit
  <1>6. slug \in SUBSET rows /\ name \in SUBSET rows /\ niche \in SUBSET rows
    OBVIOUS
  <1> HIDE DEF rows, slug, name, niche, key, found
  <1>7. AutoProject(q, known) =
           IF slug # {} THEN First(known, slug)
           ELSE IF name # {} THEN First(known, name)
           ELSE IF niche # {} THEN First(known, niche) ELSE found
    BY <1>2, <1>4, <1>6, OrElseIs
  <1>8. IF Candidates(q, rows) = {} THEN AutoProject(q, known) = None
        ELSE AutoProject(q, known) \in SlugsOf(Candidates(q, rows))
    BY <1>1, <1>4, <1>5, <1>6, <1>7
  <1> QED
    BY <1>8 DEF rows

-----------------------------------------------------------------------------
(* The table *)

\* What the table and the last command are.
Typed ==
    /\ table \in Seq(Projects)
    /\ asked \in Commands \cup {None}

LEMMA InsertKeepsSeq ==
    ASSUME NEW s \in Seq(Projects), NEW i \in 1..Len(s) + 1, NEW e \in Projects
    PROVE  InsertAt(s, i, e) \in Seq(Projects)
  <1>1. Len(s) \in Nat /\ \A k \in 1..Len(s) : s[k] \in Projects
    BY LenProperties, ElementOfSeq
  <1>2. SubSeq(s, 1, i - 1) \in Seq(Projects) /\ SubSeq(s, i, Len(s)) \in Seq(Projects)
    BY <1>1, SubSeqProperties
  <1>3. <<e>> \in Seq(Projects)
    OBVIOUS
  <1> QED
    BY <1>2, <1>3, ConcatProperties DEF InsertAt

LEMMA RemoveKeepsSeq ==
    ASSUME NEW s \in Seq(Projects), NEW k \in 1..Len(s)
    PROVE  RemoveAt(s, k) \in Seq(Projects) /\ Len(RemoveAt(s, k)) = Len(s) - 1
  <1>1. Len(s) \in Nat /\ \A j \in 1..Len(s) : s[j] \in Projects
    BY LenProperties, ElementOfSeq
  <1>2. /\ SubSeq(s, 1, k - 1) \in Seq(Projects) /\ SubSeq(s, k + 1, Len(s)) \in Seq(Projects)
        /\ Len(SubSeq(s, 1, k - 1)) = k - 1 /\ Len(SubSeq(s, k + 1, Len(s))) = Len(s) - k
    <2>1. k \in Int /\ \A j \in 1..k - 1 : s[j] \in Projects
      BY <1>1
    <2>2. \A j \in k + 1..Len(s) : s[j] \in Projects
      BY <1>1
    <2>3. SubSeq(s, 1, k - 1) \in Seq(Projects) /\ Len(SubSeq(s, 1, k - 1)) = k - 1
      BY <1>1, <2>1, SubSeqProperties
    <2>4. SubSeq(s, k + 1, Len(s)) \in Seq(Projects) /\ Len(SubSeq(s, k + 1, Len(s))) = Len(s) - k
      BY <1>1, <2>1, <2>2, SubSeqProperties
    <2> QED
      BY <2>3, <2>4
  <1>3. /\ RemoveAt(s, k) \in Seq(Projects)
        /\ Len(RemoveAt(s, k)) = Len(SubSeq(s, 1, k - 1)) + Len(SubSeq(s, k + 1, Len(s)))
    BY <1>2, ConcatProperties DEF RemoveAt
  <1>4. Len(s) \in Nat /\ k \in Nat /\ (k - 1) + (Len(s) - k) = Len(s) - 1
    BY <1>1
  <1> QED
    BY <1>2, <1>3, <1>4

LEMMA TypedStep == Typed /\ [Next]_vars => Typed'
  <1> SUFFICES ASSUME Typed, [Next]_vars PROVE Typed'
    OBVIOUS
  <1>a. Len(table) \in Nat
    BY LenProperties DEF Typed
  <1>1. ASSUME NEW q \in Commands, Ask(q) PROVE Typed'
    BY <1>1 DEF Ask, Typed
  <1>2. ASSUME NEW p \in Projects, Create(p) PROVE Typed'
    BY <1>2, InsertKeepsSeq DEF Create, Typed
  <1>3. ASSUME NEW p \in Projects, Update(p) PROVE Typed'
    <2>1. PICK k \in 1..Len(table), i \in 1..Len(table) :
             table' = InsertAt(RemoveAt(table, k), i, p)
      BY <1>3 DEF Update
    <2>2. /\ RemoveAt(table, k) \in Seq(Projects)
          /\ Len(RemoveAt(table, k)) = Len(table) - 1
      BY RemoveKeepsSeq DEF Typed
    <2>3. i \in 1..Len(RemoveAt(table, k)) + 1
      BY <1>a, <2>2
    <2>4. table' \in Seq(Projects)
      BY <2>1, <2>2, <2>3, InsertKeepsSeq
    <2> QED
      BY <1>3, <2>4 DEF Update, Typed
  <1>4. ASSUME NEW s \in Slugs, Delete(s) PROVE Typed'
    BY <1>4, RemoveKeepsSeq DEF Delete, Typed
  <1>5. CASE UNCHANGED vars
    BY <1>5 DEF vars, Typed
  <1> QED
    BY <1>1, <1>2, <1>3, <1>4, <1>5 DEF Next

-----------------------------------------------------------------------------
(* The answers *)

\* In every table and for every command the answer is a project with a match of
\* the strongest kind there is, and none only when nothing matches.
THEOREM BestMatch == Spec => AnswerIsBestMatch
  <1> DEFINE best == SlugsOf(Candidates(asked', ToSet(table)))
             Told == asked' # None /\ table' = table =>
                        \/ asked'.explicit # None \/ asked'.hint # None
                        \/ IF best = {} THEN answer'.project = None
                                        ELSE answer'.project \in best
  <1>1. ASSUME Typed, [Next]_vars PROVE [Told]_vars
    <2>1. ASSUME NEW q \in Commands, Ask(q) PROVE Told
      <3>1. /\ asked' = q /\ answer' = Resolve(q, table) /\ table \in Seq(Projects)
        BY <1>1, <2>1 DEF Ask, Typed
      <3>2. SUFFICES ASSUME q.explicit = None, q.hint = None
                     PROVE  IF SlugsOf(Candidates(q, ToSet(table))) = {}
                              THEN Resolve(q, table).project = None
                              ELSE Resolve(q, table).project
                                      \in SlugsOf(Candidates(q, ToSet(table)))
        BY <3>1
      <3>3. Resolve(q, table).project = AutoProject(q, table)
        BY <3>2 DEF Resolve, OrElse
      <3>4. SlugsOf(Candidates(q, ToSet(table))) = {} <=> Candidates(q, ToSet(table)) = {}
        BY DEF SlugsOf
      <3> QED
        BY <3>1, <3>3, <3>4, AutoIsBest
    <2>2. ASSUME UNCHANGED <<asked, answer>>, table' = table PROVE [Told]_vars
      BY <2>2 DEF vars
    <2> QED
      BY <1>1, <2>1, <2>2 DEF Next, Create, Update, Delete, vars
  <1>2. Init => Typed
    BY EmptySeq DEF Init, Typed
  <1> QED
    BY <1>1, <1>2, TypedStep, PTL DEF Spec, AnswerIsBestMatch

\* A list has finitely many projects.
LEMMA RowsFinite ==
    ASSUME NEW known \in Seq(Projects)
    PROVE  IsFiniteSet(ToSet(known))
  <1>1. Len(known) \in Nat /\ DOMAIN known = 1..Len(known)
    BY LenProperties
  <1>2. known \in Surjection(1..Len(known), ToSet(known))
    BY <1>1 DEF ToSet, Surjection
  <1>3. IsFiniteSet(1..Len(known))
    BY <1>1, FS_Interval
  <1> QED
    BY <1>2, <1>3, FS_Surjection

LEMMA TwoIsMany ==
    ASSUME NEW S, IsFiniteSet(S), NEW a \in S, NEW b \in S, a # b
    PROVE  Cardinality(S) > 1
  <1>1. IsFiniteSet({a}) /\ Cardinality({a}) = 1
    BY FS_Singleton
  <1>2. Cardinality({a} \cup {b}) = 2
    BY <1>1, FS_AddElement
  <1>3. {a} \cup {b} \in SUBSET S
    OBVIOUS
  <1>4. Cardinality({a} \cup {b}) <= Cardinality(S) /\ Cardinality(S) \in Nat
    BY <1>3, FS_Subset, FS_CardinalityType
  <1> QED
    BY <1>2, <1>4

\* A table that changes its order only answers a command otherwise only when two
\* projects match it equally well.
THEOREM OrderOnTies == Spec => OrderMattersOnlyOnTies
  <1> DEFINE Same == Resolve(asked, table') = Resolve(asked, table)
             Ties == Cardinality(Candidates(asked, ToSet(table))) > 1
             Kept == asked # None /\ ToSet(table') = ToSet(table) => Same \/ Ties
  <1>1. ASSUME Typed, Typed' PROVE Kept
    <2> DEFINE rows == ToSet(table)
               best == Candidates(asked, rows)
    <2> SUFFICES ASSUME asked # None, ToSet(table') = rows, ~Ties PROVE Same
      OBVIOUS
    <2>1. table \in Seq(Projects) /\ table' \in Seq(Projects) /\ asked \in Commands
      BY <1>1 DEF Typed
    <2>2. best \subseteq rows
      BY DEF Candidates
    <2>3. IsFiniteSet(best)
      BY <2>1, <2>2, RowsFinite, FS_Subset
    <2>4. \A a, b \in best : a = b
      BY <2>3, TwoIsMany
    <2>5. \A a, b \in SlugsOf(best) : a = b
      BY <2>4 DEF SlugsOf
    <2>6. /\ IF best = {} THEN AutoProject(asked, table) = None
                        ELSE AutoProject(asked, table) \in SlugsOf(best)
          /\ IF best = {} THEN AutoProject(asked, table') = None
                        ELSE AutoProject(asked, table') \in SlugsOf(best)
      <3>1. \A known \in Seq(Projects) : ToSet(known) = rows =>
               IF best = {} THEN AutoProject(asked, known) = None
                            ELSE AutoProject(asked, known) \in SlugsOf(best)
        BY <2>1, AutoIsBest
      <3> QED
        BY <2>1, <3>1
    <2>7. AutoProject(asked, table') = AutoProject(asked, table)
      BY <2>5, <2>6
    <2> QED
      BY <2>7 DEF Resolve
  <1>2. Init => Typed
    BY EmptySeq DEF Init, Typed
  <1> QED
    BY <1>1, <1>2, TypedStep, PTL DEF Spec, OrderMattersOnlyOnTies

=============================================================================
