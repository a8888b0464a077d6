----------------------------- MODULE Extraction -----------------------------
(***************************************************************************)
(* What the three sources have in common: a configuration read once, a     *)
(* document fetched through fetch_text, its rows classified one by one,    *)
(* and an ExtractionResult returned or SourceUnavailable raised            *)
(* (sources/base.py, domain/records.py, domain/errors.py).                 *)
(***************************************************************************)
EXTENDS HttpFetch, Config, FiniteSets

CONSTANTS Envs      \* the environments a command may start in

VARIABLES
    env,
    published,      \* what the publisher serves at this moment
    pc,
    rows,           \* the rows read so far
    done,           \* how many of them are classified
    observations,
    rejections,
    skipped

(* Read once at the start, and never changed.                              *)
config == Config(env)

Wants(iso3) == config.country_filter = {} \/ iso3 \in config.country_filter

extraction == <<rows, done, observations, rejections, skipped>>
extractionVars == <<fetchVars, env, published, pc, extraction>>

ExtractionInit ==
    /\ FetchInit
    /\ env \in Envs
    /\ pc = "configure"
    /\ rows = <<>>
    /\ done = 0
    /\ observations = <<>>
    /\ rejections = 0
    /\ skipped = 0

Goes(from, to) ==
    /\ pc = from
    /\ pc' = to
    /\ UNCHANGED env

Configured ==
    /\ Configures(env)
    /\ Goes("configure", "request")
    /\ UNCHANGED <<fetchVars, published, extraction>>

ConfigurationError ==
    /\ ~Configures(env)
    /\ Goes("configure", "refused")
    /\ UNCHANGED <<fetchVars, published, extraction>>

Requests ==
    /\ Goes("request", "fetching")
    /\ FetchBegins(config.http_max_retries)
    /\ UNCHANGED <<published, extraction>>

Fetching ==
    /\ pc = "fetching"
    /\ config.http_timeout_seconds # NotFinite
    /\ FetchStep
    /\ UNCHANGED <<env, published, pc, extraction>>

(* The socket refuses the timeout with an error that is no HTTPError.      *)
FetchBlowsUp ==
    /\ Goes("fetching", "raised")
    /\ config.http_timeout_seconds = NotFinite
    /\ UNCHANGED <<fetchVars, published, extraction>>

(* Faulty: a document that could not be fetched is asked for again.        *)
FetchRaisesRetried ==
    /\ Goes("fetching", "request")
    /\ fetch.state = "unavailable"
    /\ UNCHANGED <<fetchVars, published, extraction>>

FetchRaises ==
    /\ Goes("fetching", "raised")
    /\ fetch.state = "unavailable"
    /\ UNCHANGED <<fetchVars, published, extraction>>

Starts == \/ Configured \/ ConfigurationError \/ Requests \/ Fetching
          \/ FetchBlowsUp \/ FetchRaises

-----------------------------------------------------------------------------
(* The steps each source fills in                                          *)

Receives(some) ==
    /\ Goes("fetching", "reading")
    /\ fetch.state = "body"
    /\ rows' = rows \o some
    /\ UNCHANGED <<fetchVars, published, done, observations, rejections, skipped>>

DocumentRaises ==
    /\ Goes("fetching", "raised")
    /\ fetch.state = "body"
    /\ UNCHANGED <<fetchVars, published, extraction>>

NextRow == rows[done + 1]
AllRead == done = Len(rows)

(* One row joins the observations, is rejected, or is skipped.             *)
Takes(fate, observation) ==
    /\ pc = "reading"
    /\ ~AllRead
    /\ done' = done + 1
    /\ \/ /\ fate = "observed"
          /\ observations' = Append(observations, observation)
          /\ UNCHANGED <<rejections, skipped>>
       \/ /\ fate = "rejected"
          /\ rejections' = rejections + 1
          /\ UNCHANGED <<observations, skipped>>
       \/ /\ fate = "skipped"
          /\ skipped' = skipped + 1
          /\ UNCHANGED <<observations, rejections>>
    /\ UNCHANGED <<fetchVars, env, published, pc, rows>>

Ends(how) ==
    /\ Goes("reading", how)
    /\ AllRead
    /\ UNCHANGED <<fetchVars, published, extraction>>

Ended == pc \in {"returned", "raised", "refused"}
=============================================================================
