SPECIFICATION Spec
CONSTANTS
    NonInt = NonInt
    HTTPError = HTTPError
    Missing = Missing
    Garbled = Garbled
    Fractional = Fractional
    Unset = Unset
    NotFinite = NotFinite
    NotAnObject = NotAnObject
    Unparseable = Unparseable
    NoTable = NoTable
    NoName = NoName
    OtherName = OtherName
    Malformed = Malformed
    Providers = {"CIA", "WB", "IMF", "none"}
    Statuses = {200, 404, 429, 503}
    Codes <- SomeCodes
    Aggregates = {"LAC"}
    Spellings <- SomeSpellings
    ThisYear = 2026
    COUNTRY_NAME_TO_ISO3 <- SomeNames
    Envs <- PlainEnv
    PAGE_SIZE = 2
    MAX_PAGES = 3
    Tables <- AllTables
    OddTotals <- Misreports
    Downloads <- AllDownloads
    Articles <- AllArticles
INVARIANTS BlanksAreNotRejections
