SPECIFICATION FairInvocationSpec
CONSTANTS
    p1 = p1  p2 = p2
    wb = wb  owid = owid
    f1 = f1  v1 = v1
    NoRow = NoRow
    NoOne = NoOne
    Procs = {p1, p2}
    Sources = {wb, owid}
    SourceOrder <- TwoSources
    Facts = {f1}
    Values = {v1}
    Refused = {}
    Publications <- OneFigureFeed
    Ships <- OldAndNew
INVARIANTS SchemaFirst CodeIsHonest NobodyHeldUp
PROPERTIES EveryInvocationEnds
