SPECIFICATION WholeSpec
CONSTANTS
    p1 = p1  p2 = p2
    NonInt = NonInt
    HTTPError = HTTPError
    Missing = Missing
    Garbled = Garbled
    Fractional = Fractional
    Unset = Unset
    NotFinite = NotFinite
    NotAnObject = NotAnObject
    Unparseable = Unparseable
    NoTable = NoTable
    NoName = NoName
    OtherName = OtherName
    Malformed = Malformed
    NoRow = NoRow
    Providers = {"CIA", "WB", "none"}
    Statuses = {200}
    Codes = {"BOL", "PER", "LAC"}
    Aggregates = {"LAC"}
    Spellings <- SomeSpellings
    ThisYear = 1961
    COUNTRY_NAME_TO_ISO3 <- SomeNames
    Envs <- SomeEnvs
    PAGE_SIZE = 2
    MAX_PAGES = 2
    Tables <- SomeTables
    OddTotals = {NonInt}
    Downloads <- SomeDownloads
    Articles <- SomeArticles
    Procs = {p1, p2}
    watched = p1
    Publications <- OtherFeed
INVARIANTS LoadsAreAccepted
PROPERTIES LandsWhatWasServed LedgerCountsDocument
CONSTRAINT OthersFirstSource
