----------------------------- MODULE MCRiskGate -----------------------------
(* The kill switch and the risk evaluator, checked side by side: in each      *)
(* behaviour one of them moves and the other stays in one of its first states. *)
EXTENDS KillSwitch, RiskEvaluator, TLC

VARIABLE focus

RiskSymmetry == Permutations(Slots) \cup Permutations(Instruments)

Trading == {{"unhalt", "edit"}, {"user", "unhalt"}, {"fetch", "external", "panic", "unhalt"}}
UserTrades == {{"user"}}
StopsClose == {{"external"}}

MCInit ==
    /\ focus \in {"switch", "risk"}
    /\ SwitchInit /\ RiskInit
    /\ focus = "switch" => fills = "prompt"
    /\ focus = "risk" => regime = {"unhalt", "edit"} /\ stop = 0 /\ sw = Fresh

MCNext ==
    \/ focus = "switch" /\ SwitchNext /\ UNCHANGED <<focus, riskVars>>
    \/ focus = "risk" /\ RiskNext /\ UNCHANGED <<focus, switchVars>>

MCSpec == MCInit /\ [][MCNext]_<<focus, switchVars, riskVars>>

\* Both state spaces are well formed: the baseline is a balance the account had, the
\* counters of a cycle and of the day never go below zero.
TypesOK == SwitchTypeOK /\ RiskTypeOK
=============================================================================
