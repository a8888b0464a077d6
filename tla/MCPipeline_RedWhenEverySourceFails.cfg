SPECIFICATION Spec
CONSTANTS
    wb = wb  owid = owid  wiki = wiki
    f1 = f1  f2 = f2  f3 = f3
    v1 = v1  v2 = v2  bad = bad
    NoRow = NoRow
    Procs = {p1}
    Sources = {wb, owid, wiki}
    SourceOrder <- ThreeSources
    Facts = {f1, f2}
    Values = {v1, v2, bad}
    Refused = {bad}
    Publications <- OneFigureFeed
INVARIANTS RedWhenEverySourceFails
