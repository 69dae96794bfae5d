CONSTANTS
    Slugs = {"auto", "auto-2", "surf"}
    Within <- MCWithin
    Words = {"marina"}
    Niches = {"cars", "sup"}
    ShortNiches = {"sup"}
    NicheHints <- MCNicheHints
    Rules <- MCRules
    None = None
    MaxProjects = 2
    MaxClues = 2
SPECIFICATION Spec
PROPERTIES
    AnswerIsBestMatch
    OrderMattersOnlyOnTies
