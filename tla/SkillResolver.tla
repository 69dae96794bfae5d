---------------------------- MODULE SkillResolver ----------------------------
(***************************************************************************)
(* The resolver of POST /command: which project a text is about, and which *)
(* skill it asks for.  The projects come from a SELECT without ORDER BY,   *)
(* so their order is the order of the heap, which any PUT may change.      *)
(***************************************************************************)
EXTENDS Naturals, FiniteSets, SequencesExt

CONSTANTS
    Slugs,        \* slugs of projects of one user
    Within,       \* pairs <<s, t>>: s stands in t between word boundaries, as
                  \* "auto" does in "auto-2": a hyphen is a boundary
    Words,        \* words of five letters or more a project's name may have
    Niches,       \* niches, in lower case
    ShortNiches,  \* those of less than four letters, not looked for as such
    NicheHints,   \* _NICHE_HINTS: the niches that have key words, in order
    Rules,        \* RULES, in order
    None,         \* no slug, word, command or answer
    MaxProjects,  \* bound: projects the user has at a time
    MaxClues      \* bound: things in one command that match something

ASSUME WithinAssumption == Within \subseteq Slugs \X Slugs
ASSUME NichesAssumption ==
    /\ ShortNiches \subseteq Niches
    /\ NicheHints \in Seq(Niches)
ASSUME NoneAssumption == None \notin Slugs
ASSUME BoundsAssumption == MaxProjects \in Nat \ {0} /\ MaxClues \in Nat

VARIABLES
    table,  \* rows of projects, in the order a SELECT meets them
    asked,  \* the last command
    answer  \* its Resolution

vars == <<table, asked, answer>>

Projects == [slug : Slugs, word : Words \cup {None}, niche : Niches]

\* A command.  explicit: the project_id of the body; hint: the slug that "project="
\* or "для проекта" stands before, first in the text; slugs, words, niches: the
\* slugs, name words and niches in the text; keys: the niches whose pattern matches
\* it; rules: the rules with a pattern that does.
Commands ==
    {q \in [explicit : Slugs \cup {None}, hint : Slugs \cup {None},
            slugs : SUBSET Slugs, words : SUBSET Words, niches : SUBSET Niches,
            keys : SUBSET ToSet(NicheHints), rules : SUBSET ToSet(Rules)] :
        /\ q.hint # None => q.hint \in q.slugs
        /\ Cardinality({q.explicit} \ {None}) + Cardinality(q.slugs)
             + Cardinality(q.words) + Cardinality(q.niches)
             + Cardinality(q.keys) + Cardinality(q.rules) <= MaxClues}

Resolutions == [project : Slugs \cup {None}, rule : ToSet(Rules) \cup {"fallback"},
                sure : BOOLEAN]

Init ==
    /\ table = << >>
    /\ asked = None
    /\ answer = None

SlugsOf(rows) == {p.slug : p \in rows}

-----------------------------------------------------------------------------
(* Resolution *)

\* \b slug \b in the lowered text.
BySlug(q, p) == \E s \in q.slugs : s = p.slug \/ <<p.slug, s>> \in Within
ByName(q, p) == p.word \in q.words
ByNiche(q, p) == p.niche \in q.niches \ ShortNiches

\* The slug of the first row of known that is a hit, or None.
First(known, hits) ==
    LET i == SelectInSeq(known, LAMBDA p : p \in hits)
    IN  IF i = 0 THEN None ELSE known[i].slug

\* by_niche is a dict: of two projects of a niche it keeps the later.
Keyed(q, known) ==
    LET hit(n) == n \in q.keys /\ \E p \in ToSet(known) : p.niche = n
        i == SelectInSeq(NicheHints, hit)
    IN  IF i = 0 THEN None
        ELSE known[SelectLastInSeq(known, LAMBDA p : p.niche = NicheHints[i])].slug

\* The first of the answers that is one.
OrElse(a, b) == IF a # None THEN a ELSE b

\* Mutant: names are tried before slugs.
AutoNameFirst(q, known) ==
    OrElse(First(known, {p \in ToSet(known) : ByName(q, p)}),
    OrElse(First(known, {p \in ToSet(known) : BySlug(q, p)}),
    OrElse(First(known, {p \in ToSet(known) : ByNiche(q, p)}), Keyed(q, known))))

\* Mutant: one pass over the projects that tries all three on each.
AutoOnePass(q, known) ==
    OrElse(First(known, {p \in ToSet(known) :
                     BySlug(q, p) \/ ByName(q, p) \/ ByNiche(q, p)}),
           Keyed(q, known))

\* _auto_project: a pass over all projects for each kind of match.
AutoProject(q, known) ==
    OrElse(First(known, {p \in ToSet(known) : BySlug(q, p)}),
    OrElse(First(known, {p \in ToSet(known) : ByName(q, p)}),
    OrElse(First(known, {p \in ToSet(known) : ByNiche(q, p)}), Keyed(q, known))))

\* The first rule with a pattern that matches; else a fallback of confidence 0.2.
Rule(q) ==
    LET i == SelectInSeq(Rules, LAMBDA r : r \in q.rules)
    IN  IF i = 0 THEN "fallback" ELSE Rules[i]

\* A project_id of the body, then a hint, known or not, then the switcher.
Resolve(q, known) ==
    [project |-> OrElse(q.explicit, OrElse(q.hint, AutoProject(q, known))),
     rule |-> Rule(q),
     sure |-> Rule(q) # "fallback"]

-----------------------------------------------------------------------------
(* Actions *)

Ask(q) ==
    /\ asked' = q
    /\ answer' = Resolve(q, table)
    /\ UNCHANGED table

\* An inserted row is put where Postgres finds room.
Create(p) ==
    /\ Len(table) < MaxProjects
    /\ p.slug \notin SlugsOf(ToSet(table))
    /\ \E i \in 1..Len(table) + 1 : table' = InsertAt(table, i, p)
    /\ UNCHANGED <<asked, answer>>

\* So is the new version of an updated one: a PUT may reorder the table.
Update(p) ==
    /\ \E k \in 1..Len(table) :
          /\ table[k].slug = p.slug
          /\ \E i \in 1..Len(table) :
                table' = InsertAt(RemoveAt(table, k), i, p)
    /\ UNCHANGED <<asked, answer>>

Delete(s) ==
    /\ \E k \in 1..Len(table) : table[k].slug = s /\ table' = RemoveAt(table, k)
    /\ UNCHANGED <<asked, answer>>

Next ==
    \/ \E q \in Commands : Ask(q)
    \/ \E p \in Projects : Create(p) \/ Update(p)
    \/ \E s \in Slugs : Delete(s)

Spec == Init /\ [][Next]_vars

-----------------------------------------------------------------------------
(* Properties *)

\* The kinds of match, from the strongest; the last asks for the first niche of
\* NicheHints that is matched and that the user has a project of.
Candidates(q, rows) ==
    LET slug == {p \in rows : BySlug(q, p)}
        name == {p \in rows : ByName(q, p)}
        niche == {p \in rows : ByNiche(q, p)}
        key(i) == {p \in rows : NicheHints[i] \in q.keys /\ p.niche = NicheHints[i]}
        best == {i \in DOMAIN NicheHints :
                    key(i) # {} /\ \A j \in 1..i - 1 : key(j) = {}}
    IN  IF slug # {} THEN slug
        ELSE IF name # {} THEN name
        ELSE IF niche # {} THEN niche
        ELSE UNION {key(i) : i \in best}

\* Each answer for a text that names no project by hint or body is a project
\* with a match of the strongest kind any project has, and no project only when
\* none has any.
AnswerIsBestMatch ==
    [][LET best == SlugsOf(Candidates(asked', ToSet(table)))
       IN  asked' # None /\ table' = table =>
              \/ asked'.explicit # None \/ asked'.hint # None
              \/ IF best = {} THEN answer'.project = None
                              ELSE answer'.project \in best]_vars

\* A row that moves, because its project was touched, does not change where a
\* command goes, unless two projects match it equally.
OrderMattersOnlyOnTies ==
    [][asked # None /\ ToSet(table') = ToSet(table) =>
          \/ Resolve(asked, table') = Resolve(asked, table)
          \/ Cardinality(Candidates(asked, ToSet(table))) > 1]_vars
=============================================================================
