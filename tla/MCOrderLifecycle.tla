-------------------------- MODULE MCOrderLifecycle --------------------------
(* Small instances of OrderLifecycle for TLC. *)
EXTENDS OrderLifecycle, TLC

\* Order ids are interchangeable: nothing compares or orders them.
OrderIdSymmetry == Permutations(OrderIds)

Regime(faults, cancelStuck) == [faults |-> faults, cancelStuck |-> cancelStuck]

\* One regime with everything that can go wrong, and for each property with an
\* exception the regime that has everything but the exception.
SafetyRegimes ==
    { Regime(FaultKinds, TRUE),
      Regime(FaultKinds \ {"tornTable"}, TRUE),
      Regime(FaultKinds \ {"exception", "crash", "panic", "panicFail"}, TRUE),
      Regime(FaultKinds \ {"fetch", "crash", "stop"}, TRUE),
      Regime({"panic"}, FALSE) }

LivenessRegimes == {Regime({"fetch", "ambiguous", "reject", "exception"}, FALSE)}

FetchFails == {Regime({"fetch"}, TRUE)}
NothingFails == {Regime({}, TRUE)}
=============================================================================
