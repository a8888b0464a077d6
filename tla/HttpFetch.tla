------------------------------ MODULE HttpFetch ------------------------------
(***************************************************************************)
(* One fetch at a time through sources/http.py's fetch_text: a GET, the    *)
(* statuses worth another attempt, the wait before it, and the budget.     *)
(***************************************************************************)
EXTENDS Integers

CONSTANTS
    Statuses,       \* the statuses the server may answer with
    HTTPError       \* no answer: connection refused, DNS failure, timeout

ASSUME StatusesAssumption == Statuses \subseteq Nat /\ HTTPError \notin Nat

RETRYABLE_STATUSES == {408, 425, 429, 500, 502, 503, 504}

VARIABLES
    fetch,      \* state, attempt, attempts and last answer of the fetch
    gets,       \* history: requests sent for this fetch
    waited      \* history: seconds slept in this fetch

fetchVars == <<fetch, gets, waited>>

(* What active.get(url) comes back with.                                   *)
Answers == Statuses \cup {HTTPError}

Answered(answer) == answer # HTTPError /\ answer < 400
WorthRetrying(answer) == answer = HTTPError \/ answer \in RETRYABLE_STATUSES

(* Faulty: the first attempt is not counted.                               *)
attemptsUncounted(max_retries) == max_retries + 2

attempts(max_retries) == max_retries + 1

FetchInit ==
    /\ fetch = [state |-> "idle", attempt |-> 1, attempts |-> 1, last |-> HTTPError]
    /\ gets = 0
    /\ waited = 0

FetchBegins(max_retries) ==
    /\ fetch' = [state |-> "sending", attempt |-> 1,
                 attempts |-> attempts(max_retries), last |-> HTTPError]
    /\ gets' = 0
    /\ waited' = 0

Get(answer, outcome) ==
    /\ fetch.state = "sending"
    /\ gets' = gets + 1
    /\ fetch' = [state |-> outcome, attempt |-> fetch.attempt,
                 attempts |-> fetch.attempts, last |-> answer]

GetsBody(answer) ==
    /\ Answered(answer)
    /\ Get(answer, "body")
    /\ UNCHANGED waited

GetsRefusal(answer) ==
    /\ ~Answered(answer) /\ ~WorthRetrying(answer)
    /\ Get(answer, "unavailable")
    /\ UNCHANGED waited

(* Faulty: the waits grow evenly.                                          *)
BacksOffEvenly(answer) ==
    /\ WorthRetrying(answer)
    /\ fetch.attempt < fetch.attempts
    /\ Get(answer, "sleeping")
    /\ waited' = waited + fetch.attempt

BacksOff(answer) ==
    /\ WorthRetrying(answer)
    /\ fetch.attempt < fetch.attempts
    /\ Get(answer, "sleeping")
    /\ waited' = waited + 2^(fetch.attempt - 1)

SpendsBudget(answer) ==
    /\ WorthRetrying(answer)
    /\ fetch.attempt = fetch.attempts
    /\ Get(answer, "unavailable")
    /\ UNCHANGED waited

(* Faulty: a retry is not counted against the budget.                      *)
WakesUncounted ==
    /\ fetch.state = "sleeping"
    /\ fetch' = [state |-> "sending", attempt |-> fetch.attempt,
                 attempts |-> fetch.attempts, last |-> fetch.last]
    /\ UNCHANGED <<gets, waited>>

Wakes ==
    /\ fetch.state = "sleeping"
    /\ fetch' = [state |-> "sending", attempt |-> fetch.attempt + 1,
                 attempts |-> fetch.attempts, last |-> fetch.last]
    /\ UNCHANGED <<gets, waited>>

FetchStep ==
    \/ Wakes
    \/ \E answer \in Answers :
           \/ GetsBody(answer) \/ GetsRefusal(answer)
           \/ BacksOff(answer) \/ SpendsBudget(answer)

-----------------------------------------------------------------------------
(* Properties                                                              *)

FetchTypeOK ==
    /\ fetch \in [state : {"idle", "sending", "sleeping", "body", "unavailable"},
                  attempt : Nat \ {0}, attempts : Nat \ {0}, last : Answers \cup {HTTPError}]
    /\ fetch.attempt <= fetch.attempts
    /\ fetch.state = "sleeping" => fetch.attempt < fetch.attempts
    /\ gets \in Nat

(* Every request is counted once against the budget, and a fetch gives up  *)
(* neither late nor early: only an answer that will not change ends it     *)
(* while there is budget left (http.py 62-89).                             *)
CountsAttempts ==
    /\ gets = fetch.attempt - (IF fetch.state \in {"idle", "sending"} THEN 1 ELSE 0)
    /\ (fetch.state = "unavailable" /\ WorthRetrying(fetch.last)) =>
           gets = fetch.attempts
    /\ fetch.state = "body" => Answered(fetch.last)

(* The waits between the attempts double and none follows the last one, so *)
(* that a fetch sleeps 2^retries - 1 seconds at most (http.py 77-87).      *)
WaitsDouble ==
    /\ waited \in Nat
    /\ waited = 2^(IF fetch.state = "sleeping" THEN gets ELSE fetch.attempt - 1) - 1
=============================================================================
