SPECIFICATION CalmSpec
CONSTANTS
    m1 = m1  m2 = m2  m3 = m3
    NoOne = NoOne
    Migrators = {m1, m2, m3}
    Ships <- MixedReleases
INVARIANTS StartingTogether
