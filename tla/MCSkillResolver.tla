--------------------------- MODULE MCSkillResolver ---------------------------
(* Small instances of SkillResolver: "auto" stands within "auto-2".          *)
EXTENDS SkillResolver

MCWithin == {<<"auto", "auto-2">>}
MCNicheHints == <<"cars", "sup">>
MCRules == <<"audit">>
=============================================================================
