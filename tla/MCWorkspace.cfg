CONSTANTS
    NoFile = NoFile  Bootstrap = Bootstrap
    plain = plain  rules = rules  dir = dir  inner = inner  doc = doc  hidden = hidden
    c1 = c1  c2 = c2
    Path <- MCPath
    Content <- MCContent
    RootDocs = {doc}
    Inside <- MCInside
    Tracked = {plain, hidden}
    Excluded = {hidden}
    Rules = rules
    Hides <- MCHides
    StartTrees <- MCStartTrees
    StartRemotes <- MCStartRemotes
    Foreign <- MCForeign
    Kinds = {"sync", "audit"}
    Reports = {"positive", "negative", "malformed", "missing"}
    Repairs = {"none", "unusable", "positive", "negative"}
    MaxEdits = 1
    MaxWork = 2
    MaxFaults = 1
SPECIFICATION FairSpec
INVARIANTS RefusedMeansUntouched SyncedMeansWholeResult NewerLocalChangesSurvive
INVARIANTS OnlyProjectFilesChange VerifiedMeansAudited
PROPERTIES CallEnds
CHECK_DEADLOCK FALSE
