------------------------ MODULE CircuitBreakerProofs ------------------------
(***************************************************************************)
(* Proofs about CircuitBreaker, for any number of callers up to the failure  *)
(* threshold and any cooldowns.                                            *)
(***************************************************************************)
EXTENDS CircuitBreaker, FiniteSetTheorems, TLAPS

(* Late failures are requests admitted before the opening: each one that has   *)
(* been counted is no longer in flight.                                       *)
Outage ==
  /\ state = "open" /\ elapsed > 0 => inFlight = {}
  /\ state = "open" => fails + Cardinality(inFlight) < Threshold
  /\ state = "halfOpen" => Cardinality(inFlight) <= 1

(* The flag of the probe and the state agree. *)
Probe ==
  /\ state = "halfOpen" => probing = TRUE
  /\ state = "closed" => probing = FALSE

Inv == TypeOK /\ Outage /\ Probe

USE CallersAssumption, BreakerAssumption

(* The requests in flight can be counted, and there are at most as many as callers. *)
LEMMA InFlightFinite ==
  ASSUME inFlight \subseteq Callers
  PROVE  IsFiniteSet(inFlight) /\ Cardinality(inFlight) \in Nat
         /\ Cardinality(inFlight) <= Threshold
  BY FS_Subset, FS_CardinalityType

(* A request more. *)
LEMMA CallerJoins ==
  ASSUME inFlight \subseteq Callers, NEW c \in Callers, c \notin inFlight
  PROVE  Cardinality(inFlight \cup {c}) = Cardinality(inFlight) + 1
  BY InFlightFinite, FS_AddElement

(* A request less. *)
LEMMA CallerLeaves ==
  ASSUME inFlight \subseteq Callers, NEW c \in inFlight
  PROVE  /\ Cardinality(inFlight \ {c}) = Cardinality(inFlight) - 1
         /\ Cardinality(inFlight \ {c}) \in Nat
  BY InFlightFinite, FS_RemoveElement, FS_CardinalityType, FS_Subset

(* The breaker starts closed, with nothing in flight. *)
LEMMA InvInit == Init => Inv
<1>1. Init => TypeOK
  <2>1. /\ 0 \in 0..(Threshold - 1) /\ 0 \in 0..MaxCycles /\ 0 \in 0..(BackoffMax + 1)
        /\ BaseCooldown \in BaseCooldown..BackoffMax
    OBVIOUS
  <2> QED
    BY <2>1 DEF Init, TypeOK
<1>2. Init => Outage
  BY FS_EmptySet DEF Init, Outage
<1>3. Init => Probe
  BY DEF Init, Probe
<1> QED
  BY <1>1, <1>2, <1>3 DEF Inv

(* Each step keeps the flag of the probe beside the state that wants it. *)
LEMMA ProbeNext == Inv /\ [Next]_vars => Probe'
<1> SUFFICES ASSUME Inv, [Next]_vars PROVE Probe'
  OBVIOUS
<1> USE DEF Inv
<1>1. CASE Tick \/ UNCHANGED vars
  BY <1>1 DEF Tick, vars, Probe
<1>2. ASSUME NEW c \in Callers, Allow(c) PROVE Probe'
  <2>1. state = "closed" \/ state' = "halfOpen"
    BY <1>2 DEF Allow, TypeOK
  <2>2. state = "closed" => state' = "closed" /\ probing' = FALSE
    BY <1>2 DEF Allow
  <2>3. state # "closed" => probing' = TRUE
    BY <1>2 DEF Allow
  <2> QED
    BY <2>1, <2>2, <2>3 DEF Probe
<1>3. ASSUME NEW c \in Callers, RecordSuccess(c) PROVE Probe'
  BY <1>3 DEF RecordSuccess, Probe
<1>4. ASSUME NEW c \in Callers, ProbeFailure(c) PROVE Probe'
  BY <1>4 DEF ProbeFailure, Open, Probe
<1>5. ASSUME NEW c \in Callers, CountedFailure(c) PROVE Probe'
  BY <1>5 DEF CountedFailure, Open, Probe
<1>6. ASSUME NEW c \in Callers, PermanentError(c) \/ Denied(c) PROVE Probe'
  BY <1>6 DEF PermanentError, Denied, vars, Probe
<1> QED
  BY <1>1, <1>2, <1>3, <1>4, <1>5, <1>6 DEF Next, Answer, RecordFailure

(* Each step keeps the types: the backoff is doubled up to its maximum only. *)
LEMMA TypeNext == Inv /\ [Next]_vars => TypeOK'
<1> SUFFICES ASSUME Inv, [Next]_vars PROVE TypeOK'
  OBVIOUS
<1> USE DEF Inv
<1>1. Open => /\ cycles' \in 0..MaxCycles /\ cooldown' \in BaseCooldown..BackoffMax
              /\ elapsed' \in 0..(BackoffMax + 1) /\ state' = "open"
  BY DEF Open, Lesser, TypeOK
<1>2. CASE Tick \/ UNCHANGED vars
  BY <1>2 DEF Tick, vars, TypeOK
<1>3. ASSUME NEW c \in Callers, Allow(c) PROVE TypeOK'
  <2>1. probing' \in BOOLEAN
    BY <1>3 DEF Allow
  <2> QED
    BY <1>3, <2>1 DEF Allow, TypeOK
<1>4. ASSUME NEW c \in Callers, RecordSuccess(c) PROVE TypeOK'
  <2>1. /\ cooldown' = BaseCooldown /\ cooldown' \in BaseCooldown..BackoffMax
        /\ cycles' = 0 /\ cycles' \in 0..MaxCycles
        /\ fails' = 0 /\ fails' \in 0..(Threshold - 1)
    BY <1>4 DEF RecordSuccess
  <2>2. probing' \in BOOLEAN /\ inFlight' \subseteq Callers /\ state' = "closed"
        /\ elapsed' = elapsed
    BY <1>4 DEF RecordSuccess, TypeOK
  <2> QED
    BY <2>1, <2>2 DEF TypeOK
<1>5. ASSUME NEW c \in Callers, ProbeFailure(c) PROVE TypeOK'
  <2>1. probing' \in BOOLEAN /\ inFlight' \subseteq Callers /\ fails' = fails
    BY <1>5 DEF ProbeFailure, TypeOK
  <2> QED
    BY <1>1, <1>5, <2>1 DEF ProbeFailure, TypeOK
<1>6. ASSUME NEW c \in Callers, CountedFailure(c) PROVE TypeOK'
  <2>1. probing' \in BOOLEAN /\ inFlight' \subseteq Callers
    BY <1>6 DEF CountedFailure, TypeOK
  <2>2. CASE fails + 1 >= Threshold
    <3>1. fails' \in 0..(Threshold - 1) /\ Open
      BY <1>6, <2>2 DEF CountedFailure
    <3> QED
      BY <1>1, <2>1, <3>1 DEF TypeOK
  <2>3. CASE ~(fails + 1 >= Threshold)
    <3>1. fails' \in 0..(Threshold - 1) /\ UNCHANGED <<state, cycles, cooldown, elapsed>>
      BY <1>6, <2>3 DEF CountedFailure, TypeOK
    <3> QED
      BY <2>1, <3>1 DEF TypeOK
  <2> QED
    BY <2>2, <2>3
<1>7. ASSUME NEW c \in Callers, PermanentError(c) \/ Denied(c) PROVE TypeOK'
  BY <1>7 DEF PermanentError, Denied, vars, TypeOK
<1> QED
  BY <1>2, <1>3, <1>4, <1>5, <1>6, <1>7 DEF Next, Answer, RecordFailure

(* Each step keeps the failures an open breaker may yet count below the threshold. *)
LEMMA OutageNext == Inv /\ [Next]_vars => Outage'
<1> SUFFICES ASSUME Inv, [Next]_vars PROVE Outage'
  OBVIOUS
<1> USE DEF Inv
<1>0. /\ inFlight \subseteq Callers /\ Cardinality(inFlight) \in Nat
      /\ Cardinality(inFlight) <= Threshold /\ Threshold \in Nat
      /\ fails \in Nat /\ fails < Threshold /\ elapsed \in Nat
  BY InFlightFinite DEF TypeOK
<1>1. CASE Tick
  <2>1. Cardinality(inFlight') = 0 /\ fails' = fails /\ state' = "open" /\ inFlight' = {}
    BY <1>1, FS_EmptySet DEF Tick
  <2> QED
    BY <1>0, <2>1 DEF Outage
<1>2. ASSUME NEW c \in Callers, Allow(c) PROVE Outage'
  <2>1. Cardinality(inFlight') = Cardinality(inFlight) + 1
    BY <1>0, <1>2, CallerJoins DEF Allow
  <2>2. CASE state = "closed"
    BY <1>2, <2>2 DEF Allow, Outage
  <2>3. CASE state = "open"
    <3>1. elapsed > cooldown /\ cooldown \in Nat
      BY <1>2, <2>3 DEF Allow, Admits, TypeOK
    <3>2. inFlight = {}
      BY <1>0, <2>3, <3>1 DEF Outage
    <3>3. Cardinality(inFlight') = 1 /\ state' = "halfOpen"
      BY <1>2, <2>1, <2>3, <3>2, FS_EmptySet DEF Allow
    <3> QED
      BY <3>3 DEF Outage
  <2>4. CASE state = "halfOpen"
    BY <1>2, <2>4 DEF Allow, Admits, Probe
  <2> QED
    BY <2>2, <2>3, <2>4 DEF TypeOK
<1>3. ASSUME NEW c \in Callers, RecordSuccess(c) PROVE Outage'
  BY <1>3 DEF RecordSuccess, Outage
<1>4. ASSUME NEW c \in Callers, ProbeFailure(c) PROVE Outage'
  <2>1. Cardinality(inFlight') = 0
    BY <1>0, <1>4, CallerLeaves DEF ProbeFailure, Outage
  <2>2. fails' = fails /\ state' = "open" /\ elapsed' = 0
    BY <1>4 DEF ProbeFailure, Open
  <2> QED
    BY <1>0, <2>1, <2>2 DEF Outage
<1>5. ASSUME NEW c \in Callers, CountedFailure(c) PROVE Outage'
  <2>1. /\ Cardinality(inFlight') = Cardinality(inFlight) - 1
        /\ Cardinality(inFlight') \in Nat /\ inFlight' \subseteq inFlight
        /\ state # "halfOpen"
    BY <1>0, <1>5, CallerLeaves DEF CountedFailure
  <2>2. CASE fails + 1 >= Threshold
    <3>1. fails' = 0 /\ state' = "open" /\ elapsed' = 0
      BY <1>5, <2>2 DEF CountedFailure, Open
    <3> QED
      BY <1>0, <2>1, <3>1 DEF Outage
  <2>3. CASE ~(fails + 1 >= Threshold)
    <3>1. fails' = fails + 1 /\ state' = state /\ elapsed' = elapsed
      BY <1>5, <2>3 DEF CountedFailure
    <3>2. state = "open" /\ elapsed > 0 => inFlight' = {}
      BY <2>1 DEF Outage
    <3> QED
      BY <1>0, <2>1, <3>1, <3>2 DEF Outage
  <2> QED
    BY <2>2, <2>3
<1>6. ASSUME NEW c \in Callers, PermanentError(c) PROVE Outage'
  <2>1. /\ Cardinality(inFlight') = Cardinality(inFlight) - 1
        /\ Cardinality(inFlight') \in Nat /\ inFlight' \subseteq inFlight
    BY <1>0, <1>6, CallerLeaves DEF PermanentError
  <2>2. UNCHANGED <<state, fails, elapsed>>
    BY <1>6 DEF PermanentError
  <2> QED
    BY <1>0, <2>1, <2>2 DEF Outage
<1>7. ASSUME NEW c \in Callers, Denied(c) PROVE Outage'
  BY <1>7 DEF Denied, vars, Outage
<1>8. CASE UNCHANGED vars
  BY <1>8 DEF vars, Outage
<1> QED
  BY <1>1, <1>2, <1>3, <1>4, <1>5, <1>6, <1>7, <1>8
  DEF Next, Answer, RecordFailure

(* The invariant of Allow, RecordSuccess and RecordFailure holds for any callers and bounds. *)
THEOREM BreakerInvariant == Spec => []Inv
<1> QED
  BY InvInit, TypeNext, OutageNext, ProbeNext, PTL DEF Spec, Inv

(* Every variable keeps its type: the count of failures stays below the        *)
(* threshold and the cooldown between its base and its maximum.               *)
THEOREM BreakerTypes == Spec => []TypeOK
<1> QED
  BY BreakerInvariant, PTL DEF Inv

(* A half-open circuit has one request in flight at most. *)
THEOREM OneProbeOnly == Spec => []OneProbe
<1>1. Inv => OneProbe
  <2>1. Inv /\ state = "halfOpen" => Cardinality(inFlight) <= 1
    BY DEF Inv, Outage
  <2>2. Inv /\ state = "halfOpen" => probing
    BY DEF Inv, Probe
  <2> QED
    BY <2>1, <2>2 DEF OneProbe
<1> QED
  BY <1>1, BreakerInvariant, PTL

(* An outage escalates the cooldown once: failures that arrive after the        *)
(* opening are fewer than the threshold.                                      *)
THEOREM EscalatesOnce == Spec => EscalationEarned
<1>1. Inv /\ [Next]_vars => [cooldown' > cooldown => state # "open"]_vars
  <2> SUFFICES ASSUME Inv, Next, state = "open"
               PROVE  ~(cooldown' > cooldown)
    OBVIOUS
  <2> USE DEF Inv
  <2>1. cooldown \in Nat /\ BaseCooldown <= cooldown /\ cooldown \in BaseCooldown..BackoffMax
    BY DEF TypeOK
  <2>2. ASSUME NEW c \in Callers, CountedFailure(c) PROVE cooldown' = cooldown
    <3>1. /\ inFlight \subseteq Callers /\ c \in inFlight
          /\ Cardinality(inFlight) \in Nat /\ Threshold \in Nat
      BY <2>2, InFlightFinite DEF TypeOK, CountedFailure
    <3>2. Cardinality(inFlight) >= 1
      <4>1. /\ Cardinality(inFlight \ {c}) = Cardinality(inFlight) - 1
            /\ Cardinality(inFlight \ {c}) \in Nat
        BY <3>1, CallerLeaves
      <4> QED
        BY <3>1, <4>1
    <3>3. fails + 1 < Threshold /\ fails \in Nat
      <4>1. fails + Cardinality(inFlight) < Threshold /\ fails \in Nat
        BY DEF TypeOK, Outage
      <4> QED
        BY <3>1, <3>2, <4>1
    <3> QED
      BY <2>2, <3>3 DEF CountedFailure
  <2>3. ASSUME NEW c \in Callers, RecordSuccess(c) PROVE cooldown' = BaseCooldown
    BY <2>3 DEF RecordSuccess
  <2>4. ASSUME NEW c \in Callers, Allow(c) \/ Denied(c) \/ PermanentError(c)
        PROVE  cooldown' = cooldown
    BY <2>4 DEF Allow, Denied, PermanentError, vars
  <2>5. Tick => cooldown' = cooldown
    BY DEF Tick
  <2>6. \A c \in Callers : ~ProbeFailure(c)
    BY DEF ProbeFailure
  <2> QED
    BY <2>1, <2>2, <2>3, <2>4, <2>5, <2>6 DEF Next, Answer, RecordFailure
<1> QED
  BY <1>1, BreakerInvariant, PTL DEF Spec, EscalationEarned
=============================================================================
