---------------------------- MODULE CircuitBreaker ----------------------------
(***************************************************************************)
(* internal/vector/circuit_breaker.go with its callers in embed_worker.go:   *)
(* the breaker that keeps requests from an embedding server that fails.      *)
(*                                                                         *)
(* A caller asks Allow, has one request in flight, and reports its result.   *)
(* Pagers are the requests of RunFromDB (embedWithRetry, retryDeferred),     *)
(* which report nothing when the server answers with a permanent error       *)
(* (4xx); Batchers are those of processBatch, which report every error.      *)
(* (A daemon starts both goroutines but only ever gives work to RunFromDB;     *)
(* the breaker is the same for any number of callers.)                        *)
(*                                                                         *)
(* The mutex makes each method one step.  Time is counted in base cooldowns; *)
(* the HTTP client's timeout (120 s) is shorter than one (5 min), so no unit *)
(* of time passes while a request is in flight.                             *)
(***************************************************************************)
EXTENDS Naturals, FiniteSets

CONSTANTS
  Pagers, Batchers,   \* callers
  Threshold,          \* failThreshold
  BaseCooldown,       \* baseCooldown, in units of time
  BackoffMax,         \* backoffMax
  MaxCycles,          \* bound: openCycles is not counted further
  PermanentErrors     \* does the server answer 4xx?

Callers == Pagers \cup Batchers

ASSUME CallersAssumption ==
  /\ IsFiniteSet(Callers) /\ Pagers \cap Batchers = {}
  /\ Cardinality(Callers) <= Threshold
ASSUME BreakerAssumption ==
  /\ Threshold \in Nat \ {0} /\ MaxCycles \in Nat \ {0}
  /\ BaseCooldown \in Nat \ {0} /\ BackoffMax \in Nat /\ BaseCooldown <= BackoffMax
  /\ PermanentErrors \in BOOLEAN

VARIABLES
  state,     \* "closed", "open" or "halfOpen"
  fails,     \* consecutiveFail
  cycles,    \* openCycles
  cooldown,  \* currentCooldown
  elapsed,   \* time since lastOpenTime
  probing,   \* halfOpenProbing
  inFlight   \* callers whose request is in flight

vars == <<state, fails, cycles, cooldown, elapsed, probing, inFlight>>

Lesser(a, b) == IF a < b THEN a ELSE b

Init ==
  /\ state = "closed" /\ fails = 0 /\ cycles = 0
  /\ cooldown = BaseCooldown /\ elapsed = 0
  /\ probing = FALSE /\ inFlight = {}

------------------------------------------------------------------------------
(* Mutant: after some openings the circuit is disabled for good. *)
AdmitsUntilDisabled ==
  CASE state = "closed" -> TRUE
    [] state = "open"   -> elapsed > cooldown /\ cycles < MaxCycles
    [] OTHER            -> ~probing

Admits ==
  CASE state = "closed" -> TRUE
    [] state = "open"   -> elapsed > cooldown
    [] OTHER            -> ~probing

(* Mutant: the half-open state admits every caller. *)
AllowEveryProbe(c) ==
  /\ c \notin inFlight /\ (Admits \/ state = "halfOpen")
  /\ inFlight' = inFlight \cup {c}
  /\ state' = IF state = "open" THEN "halfOpen" ELSE state
  /\ probing' = (state # "closed")
  /\ UNCHANGED <<fails, cycles, cooldown, elapsed>>

(* Allow returns true and the caller sends its request. *)
Allow(c) ==
  /\ c \notin inFlight /\ Admits
  /\ inFlight' = inFlight \cup {c}
  /\ state' = IF state = "open" THEN "halfOpen" ELSE state
  /\ probing' = (state # "closed")
  /\ UNCHANGED <<fails, cycles, cooldown, elapsed>>

(* Allow returns false: the caller tries again later. *)
Denied(c) == c \notin inFlight /\ ~Admits /\ UNCHANGED vars

RecordSuccess(c) ==
  /\ c \in inFlight
  /\ inFlight' = inFlight \ {c}
  /\ state' = "closed" /\ fails' = 0 /\ cycles' = 0 /\ probing' = FALSE
  /\ cooldown' = BaseCooldown
  /\ UNCHANGED elapsed

Open ==
  /\ state' = "open"
  /\ elapsed' = 0
  /\ cycles' = Lesser(cycles + 1, MaxCycles)
  /\ cooldown' = Lesser(2 * cooldown, BackoffMax)

(* A failed probe opens the circuit at once. *)
ProbeFailure(c) ==
  /\ c \in inFlight /\ state = "halfOpen"
  /\ inFlight' = inFlight \ {c}
  /\ Open
  /\ probing' = FALSE
  /\ UNCHANGED fails

(* Mutant: opening keeps the count of failures. *)
CountedFailureKept(c) ==
  /\ c \in inFlight /\ state # "halfOpen"
  /\ inFlight' = inFlight \ {c}
  /\ probing' = FALSE
  /\ fails' = Lesser(fails + 1, Threshold)
  /\ IF fails + 1 >= Threshold
       THEN Open
       ELSE UNCHANGED <<state, cycles, cooldown, elapsed>>

(* Any other failure counts, one that arrives after the opening included. *)
CountedFailure(c) ==
  /\ c \in inFlight /\ state # "halfOpen"
  /\ inFlight' = inFlight \ {c}
  /\ probing' = FALSE
  /\ IF fails + 1 >= Threshold
       THEN fails' = 0 /\ Open
       ELSE fails' = fails + 1 /\ UNCHANGED <<state, cycles, cooldown, elapsed>>

RecordFailure(c) == ProbeFailure(c) \/ CountedFailure(c)

(* A 4xx answer to RunFromDB: the caller skips its batch and reports nothing. *)
PermanentError(c) ==
  /\ PermanentErrors /\ c \in Pagers /\ c \in inFlight
  /\ inFlight' = inFlight \ {c}
  /\ UNCHANGED <<state, fails, cycles, cooldown, elapsed, probing>>

(* Time counts while the circuit is open, and only until the cooldown is over. *)
Tick ==
  /\ state = "open" /\ inFlight = {} /\ elapsed <= cooldown
  /\ elapsed' = elapsed + 1
  /\ UNCHANGED <<state, fails, cycles, cooldown, probing, inFlight>>

Answer(c) == RecordSuccess(c) \/ RecordFailure(c) \/ PermanentError(c)

Next == Tick \/ \E c \in Callers : Allow(c) \/ Denied(c) \/ Answer(c)

(* Time passes, and a request is answered or runs into the client's timeout.   *)
(* Nothing obliges a caller to ask: RunFromDB retries a few times, and gives    *)
(* its chunks up long before a cooldown is over.                              *)
Fairness == WF_vars(Tick) /\ \A c \in Callers : WF_vars(Answer(c))

Spec     == Init /\ [][Next]_vars
FairSpec == Spec /\ Fairness

------------------------------------------------------------------------------
(* Properties *)

(* Every variable has its type. *)
TypeOK ==
  /\ state \in {"closed", "open", "halfOpen"}
  /\ fails \in 0..(Threshold - 1)
  /\ cycles \in 0..MaxCycles
  /\ cooldown \in BaseCooldown..BackoffMax
  /\ elapsed \in 0..(BackoffMax + 1)
  /\ probing \in BOOLEAN
  /\ inFlight \subseteq Callers

(* Half-open, the recovering server sees one request and no other: not the     *)
(* probe of a second caller, and no request admitted before the opening.       *)
OneProbe == state = "halfOpen" => probing /\ Cardinality(inFlight) <= 1

(* Requests that fail after the circuit has opened were part of the same       *)
(* outage: they do not escalate the cooldown again.                           *)
EscalationEarned == [][cooldown' > cooldown => state # "open"]_vars

(* An open circuit does not stay so for ever, however often it has opened and   *)
(* whatever failures arrive after the opening: a moment comes at which Allow    *)
(* admits whoever asks.  (Whether somebody still asks then is not the breaker's *)
(* doing.)                                                                    *)
CooldownEnds == state = "open" ~> Admits

------------------------------------------------------------------------------
(* What comments of the code say and the code does not do *)

(* circuit_breaker.go:36 halfOpenProbing is "true when a probe request is in   *)
(* flight": a permanent error ends the probe and leaves it set, and from then  *)
(* on Allow returns false for ever.                                           *)
ProbingIsInFlight == probing => inFlight # {}

(* circuit_breaker.go:118 "Exponential backoff: 5m -> 10m -> 20m -> 40m ->      *)
(* 60m (capped)": the first opening waits for the base cooldown.               *)
FirstOpeningWaitsBase == cycles = 1 => cooldown = BaseCooldown
=============================================================================
