SPECIFICATION OneWayOutSpec
CONSTANTS
    wb = wb  owid = owid  wiki = wiki
    f1 = f1  f2 = f2  f3 = f3
    v1 = v1  v2 = v2  bad = bad
    NoRow = NoRow  NoRun = NoRun
    Procs = {p1, p2}
    Sources = {wb, owid}
    SourceOrder <- TwoSources
    Facts = {f1, f2}
    Values = {v1, v2, bad}
    Refused = {bad}
    Publications <- TwoPartFeed
SYMMETRY AnyOrder
INVARIANTS LedgerInv LedgerMatchesData VerdictMatchesData StatusAgrees
PROPERTIES KeepsPromise ReportMovesWithLoads
