------------------------------- MODULE Config -------------------------------
(***************************************************************************)
(* The environment a command starts in and the configuration load_config   *)
(* makes of it, or refuses to make (config.py).  A variable is Unset also  *)
(* when it holds only blanks.                                              *)
(***************************************************************************)
EXTENDS Observation

CONSTANTS
    Unset,
    NotFinite       \* nan or inf, where a number is read with float()

ASSUME UnsetAssumption == Unset \notin Int /\ NotFinite \notin Int

VALID_LOG_LEVELS == {"CRITICAL", "ERROR", "WARNING", "INFO", "DEBUG"}

(* _read_int, and _read_float whose comparison with the minimum is false   *)
(* for nan.                                                                *)
ReadsInt(raw, minimum) == raw = Unset \/ (raw \in Int /\ raw >= minimum)
ReadsFloat(raw, minimum) == raw = NotFinite \/ ReadsInt(raw, minimum)

OrDefault(raw, default) == IF raw = Unset THEN default ELSE raw

(* What load_config lets pass; anything else is a ConfigurationError.      *)
Configures(env) ==
    /\ env.database_url # Unset
    /\ Upper(OrDefault(env.log_level, "INFO")) \in VALID_LOG_LEVELS
    /\ ReadsFloat(env.http_timeout_seconds, 1)
    /\ ReadsInt(env.http_max_retries, 0)
    /\ ReadsInt(env.min_year, 1960)

(* COUNTRY_FILTER is a list between commas; empty places in it are dropped *)
(* and an empty list wants every country.                                  *)
Config(env) ==
    [http_timeout_seconds |-> OrDefault(env.http_timeout_seconds, 30),
     http_max_retries     |-> OrDefault(env.http_max_retries, 3),
     country_filter       |-> {Upper(env.country_filter[i]) :
                                   i \in {j \in DOMAIN env.country_filter :
                                              env.country_filter[j] # Unset}},
     min_year             |-> OrDefault(env.min_year, 2010)]
=============================================================================
