--------------------------- MODULE DecisionCycle ---------------------------
(***************************************************************************)
(* What a cycle decides, from its candidates to the orders it sends: the   *)
(* middle of CycleRunner.run_one with strategy/signals.py, decisions.py,   *)
(* decision_parser.py and directive_enforcer.py, and the operator who      *)
(* edits the directives (strategy/directives.py) meanwhile.                *)
(*                                                                         *)
(* The controller's lock is held for the whole cycle. An edit takes it     *)
(* twice, to look the store up and to save, and edits between the two.     *)
(* Which positions the bot owns is OrderLifecycle's subject, amounts and   *)
(* caps are RiskEvaluator's.                                               *)
(***************************************************************************)
EXTENDS Integers, FiniteSets

CONSTANTS
    Symbols,        \* instruments, by the symbol the universe gives them
    Unnamed,        \* the symbol of an LLM entry that has none
    Holdings,       \* position ids
    InstOf,         \* [Holdings -> Symbols]
    NoHolding,      \* an LLM entry without a positionId
    Crypto,         \* instruments that are exempt from flattening
    Entries,        \* entries an LLM answer is made of
    MaxEntries,     \* bound: entries of one answer
    Edits,          \* operator edits: [field, value]
    Situations      \* which directive applies to which position: sets of <<kind, position>>

Kinds == {"hold_ceiling_minutes", "no_overnight", "pre_earnings_close_hours"}
Directives == [blocked : SUBSET Symbols,     \* blocked_symbols
               barred : SUBSET Symbols,      \* those whose known sector is in blocked_sectors
               closing : SUBSET Kinds]       \* directives that close positions and are on
NoDirectives == [blocked |-> {}, barred |-> {}, closing |-> {}]
NoEdit == [field |-> "none", value |-> {}]

ASSUME DecisionAssumption ==
    /\ InstOf \in [Holdings -> Symbols] /\ NoHolding \notin Holdings /\ Unnamed \notin Symbols
    /\ Crypto \subseteq Symbols /\ MaxEntries \in Nat
    /\ Situations \subseteq SUBSET (Kinds \X Holdings)
    /\ \A e \in Edits : [NoDirectives EXCEPT ![e.field] = e.value] \in Directives
    /\ \A e \in Entries : /\ e.action \in {"BUY", "CLOSE", "MODIFY_STOPS"} /\ e.inst \in Symbols
                          /\ e.name \in Symbols \cup {Unnamed} /\ e.pid \in Holdings \cup {NoHolding}
                          /\ e.part \in {"whole", "part", "bad"}

VARIABLES
    directives,   \* DirectivesStore: the live snapshot
    edit,         \* the handler of an edit: [at |-> none, checked or applied, what |-> its edit]
    acked,        \* history: the blocks the operator was told of and has not lifted
    phase,        \* of the cycle: idle, candidates, judged; the lock is free when idle
    owned,        \* bot_owned_positions
    cands,        \* candidates left by the prescreen: [Symbols -> none, BUY, CLOSE]
    gated,        \* BUY candidates with gate_passed = False
    due,          \* positions a directive will close
    source,       \* of the requests: llm, unparsable, fallback, veto, none
    requests,     \* all_requests
    approved      \* those with an approving verdict

decisionVars == <<directives, edit, acked, phase, owned, cands, gated, due, source, requests,
                  approved>>

NoCands == [i \in Symbols |-> "none"]
Request == [action : {"BUY", "CLOSE", "MODIFY_STOPS"}, inst : Symbols,
            name : Symbols \cup {Unnamed}, pid : Holdings \cup {NoHolding},
            part : {"whole", "part", "bad"}, by : {"engine", "directive"}]

DecisionTypeOK ==
    /\ directives \in Directives
    /\ edit.at \in {"none", "checked", "applied"} /\ edit.what \in Edits \cup {NoEdit}
    /\ acked.blocked \subseteq directives.blocked /\ acked.barred \subseteq directives.barred
    /\ phase \in {"idle", "candidates", "judged"}
    /\ owned \subseteq Holdings /\ due \subseteq owned
    /\ cands \in [Symbols -> {"none", "BUY", "CLOSE"}]
    /\ gated \subseteq Symbols
    /\ source \in {"llm", "unparsable", "fallback", "veto", "none"}
    /\ approved \subseteq requests /\ requests \subseteq Request

DecisionInit ==
    /\ directives = NoDirectives
    /\ edit = [at |-> "none", what |-> NoEdit]
    /\ acked = [blocked |-> {}, barred |-> {}]
    /\ phase = "idle" /\ owned = {} /\ cands = NoCands /\ gated = {} /\ due = {}
    /\ source = "none" /\ requests = {} /\ approved = {}

-----------------------------------------------------------------------------
(* Candidates and positions. *)

HeldOn(i, held) == {p \in held : InstOf[p] = i}

\* build_candidates: a BUY for instruments without a bot position, a CLOSE for the
\* others; prescreen_candidates drops what the directives name, closes as well.
Candidates(held, strong) ==
    [i \in Symbols |->
        IF i \notin strong \/ i \in directives.blocked \cup directives.barred THEN "none"
        ELSE IF HeldOn(i, held) # {} THEN "CLOSE" ELSE "BUY"]

\* Crypto has neither a session to end nor earnings.
Triggers(kind, p, facts) ==
    /\ <<kind, p>> \in facts
    /\ kind # "hold_ceiling_minutes" => InstOf[p] \notin Crypto

\* build_directive_close_requests, by the snapshot of the directives that the cycle
\* took before the tools and the LLM ran.
DueFor(held, facts) == {p \in held : \E kind \in directives.closing : Triggers(kind, p, facts)}

\* Up to the decision: the portfolio, the candidates, the tools' verdicts.
BeginDecision(held, strong, vetoed, facts) ==
    /\ phase = "idle"
    /\ phase' = "candidates"
    /\ owned' = held
    /\ cands' = Candidates(held, strong)
    /\ gated' = {i \in vetoed : cands'[i] = "BUY"}
    /\ due' = DueFor(held, facts)
    /\ UNCHANGED <<directives, edit, acked, source, requests, approved>>

-----------------------------------------------------------------------------
(* The decision engine. *)

Buy(i, name) == [action |-> "BUY", inst |-> i, name |-> name, pid |-> NoHolding,
                 part |-> "whole", by |-> "engine"]
Close(i, p, by) == [action |-> "CLOSE", inst |-> i, name |-> i, pid |-> p,
                    part |-> "whole", by |-> by]

\* owned_by_inst keeps the last position of an instrument in the broker's order.
LastOf == [Symbols -> Holdings \cup {NoHolding}]
IsLast(last) == \A i \in Symbols : IF HeldOn(i, owned) = {} THEN last[i] = NoHolding
                                   ELSE last[i] \in HeldOn(i, owned)

\* A positionId that the bot does not own counts as none.
Resolved(e, last) == IF e.pid \in owned THEN e.pid ELSE last[e.inst]

\* parse_actions: a candidate has its own symbol, anything else the one the LLM wrote;
\* the entry may name any instrument, a vetoed one or one that is no candidate.
Parsed(e, last) ==
    LET name == IF cands[e.inst] # "none" THEN e.inst ELSE e.name
        pid == Resolved(e, last) IN
    IF e.action = "BUY" THEN {Buy(e.inst, name)}
    ELSE {[action |-> e.action, inst |-> e.inst, name |-> name, pid |-> pid,
           part |-> e.part, by |-> "engine"] : q \in {pid} \ {NoHolding}}

\* _deterministic_requests; only one of its callers passes the tools' verdicts on.
Deterministic(vetoes, last) ==
    {Buy(i, i) : i \in {j \in Symbols \ vetoes : cands[j] = "BUY"}}
    \cup {Close(i, last[i], "engine") : i \in {j \in Symbols : cands[j] = "CLOSE"}}

\* DecisionEngine.decide. An answer that does not parse is replaced without a look at
\* the tools' verdicts; without an LLM they bind. The two others ask for nothing.
Decided(how, answer, last) ==
    CASE how = "llm" -> UNION {Parsed(e, last) : e \in answer}
      [] how = "unparsable" -> Deterministic({}, last)
      [] how = "fallback" -> Deterministic(gated, last)
      [] OTHER -> {}

DirectiveCloses == {Close(InstOf[p], p, "directive") : p \in due}

\* Mutant: nothing decided, nothing done.
MergedIfDecided(decided) ==
    IF decided = {} THEN {}
    ELSE {r \in decided : /\ r.pid \notin due
                          /\ ~(r.action = "BUY" /\ r.inst \in {InstOf[p] : p \in due})}
         \cup DirectiveCloses

\* A position that a directive closes is left to it, and its instrument is not bought.
Merged(decided) ==
    {r \in decided : /\ r.pid \notin due
                     /\ ~(r.action = "BUY" /\ r.inst \in {InstOf[p] : p \in due})}
    \cup DirectiveCloses

\* The part of RiskEvaluator.evaluate that reads the directives and the ownership; it
\* reads the live directives, and goes by the symbol in the request.
Passes(r) ==
    IF r.action = "BUY" THEN r.name \notin directives.blocked
    ELSE r.pid \in owned /\ r.part # "bad"

\* From the LLM call to the verdicts. (The limits of RiskEvaluator deny some BUYs more.)
Judge(how, answer, last) ==
    /\ phase = "candidates"
    /\ how = "none" => cands = NoCands
    /\ IsLast(last)
    /\ phase' = "judged"
    /\ source' = how
    /\ requests' = Merged(Decided(how, answer, last))
    /\ approved' = {r \in requests' : Passes(r)}
    /\ UNCHANGED <<directives, edit, acked, owned, cands, gated, due>>

\* execute_all: what the broker accepts; a whole close that it accepts ends ownership.
Execute(accepted) ==
    /\ phase = "judged" /\ accepted \subseteq approved
    /\ owned' = owned \ {r.pid : r \in {q \in accepted : q.action = "CLOSE" /\ q.part = "whole"}}
    /\ phase' = "idle" /\ cands' = NoCands /\ gated' = {} /\ due' = {}
    /\ source' = "none" /\ requests' = {} /\ approved' = {}
    /\ UNCHANGED <<directives, edit, acked>>

\* A stop request or an exception ends the cycle before it sends anything.
DecisionAborts ==
    /\ phase # "idle"
    /\ phase' = "idle" /\ cands' = NoCands /\ gated' = {} /\ due' = {}
    /\ source' = "none" /\ requests' = {} /\ approved' = {}
    /\ UNCHANGED <<directives, edit, acked, owned>>

-----------------------------------------------------------------------------
(* The operator: BotController.set_directive and clear_directive. *)

\* _require_directives_store waits for the lock.
EditChecked(e) ==
    /\ edit.at = "none" /\ phase = "idle"
    /\ edit' = [at |-> "checked", what |-> e]
    /\ UNCHANGED <<directives, acked, phase, owned, cands, gated, due, source, requests, approved>>

\* set_field has only the store's own lock; one field is replaced.
EditApplied ==
    /\ edit.at = "checked"
    /\ directives' = [directives EXCEPT ![edit.what.field] = edit.what.value]
    /\ acked' = [blocked |-> acked.blocked \cap directives'.blocked,
                 barred |-> acked.barred \cap directives'.barred]
    /\ edit' = [edit EXCEPT !.at = "applied"]
    /\ UNCHANGED <<phase, owned, cands, gated, due, source, requests, approved>>

\* coerce_value refuses the value: nothing is set, nothing saved.
EditRefused ==
    /\ edit.at = "checked"
    /\ edit' = [at |-> "none", what |-> NoEdit]
    /\ UNCHANGED <<directives, acked, phase, owned, cands, gated, due, source, requests, approved>>

\* Mutant: the answer does not wait for the lock.
EditAckedAtOnce ==
    /\ edit.at = "applied"
    /\ acked' = [blocked |-> directives.blocked, barred |-> directives.barred]
    /\ edit' = [at |-> "none", what |-> NoEdit]
    /\ UNCHANGED <<directives, phase, owned, cands, gated, due, source, requests, approved>>

\* persist_state under the lock, then the answer.
EditAcked ==
    /\ edit.at = "applied" /\ phase = "idle"
    /\ acked' = [blocked |-> directives.blocked, barred |-> directives.barred]
    /\ edit' = [at |-> "none", what |-> NoEdit]
    /\ UNCHANGED <<directives, phase, owned, cands, gated, due, source, requests, approved>>

DecisionNext ==
    \/ \E held \in SUBSET Holdings, strong, vetoed \in SUBSET Symbols,
          facts \in Situations : BeginDecision(held, strong, vetoed, facts)
    \/ \E how \in {"llm", "unparsable", "fallback", "veto", "none"}, last \in LastOf :
            \E answer \in IF how = "llm" THEN {a \in SUBSET Entries : Cardinality(a) <= MaxEntries}
                          ELSE {{}} : Judge(how, answer, last)
    \/ \E accepted \in SUBSET approved : Execute(accepted)
    \/ DecisionAborts
    \/ \E e \in Edits : EditChecked(e)
    \/ EditApplied \/ EditRefused
    \/ EditAcked

\* The loop goes on; a cycle comes to its verdicts, and the broker takes a close, again
\* and again, although any one of them may fail.
ClosesPosition(p) ==
    \E accepted \in SUBSET approved :
        /\ \E r \in accepted : r.action = "CLOSE" /\ r.pid = p /\ r.part = "whole"
        /\ Execute(accepted)
DecisionFairness ==
    /\ WF_phase(phase = "idle" /\ phase' = "candidates")
    /\ SF_phase(phase = "candidates" /\ phase' = "judged")
    /\ \A p \in Holdings : SF_decisionVars(ClosesPosition(p))

DecisionSpec == DecisionInit /\ [][DecisionNext]_decisionVars /\ DecisionFairness

-----------------------------------------------------------------------------
(* Properties. *)

\* Whatever the engine asked for, and however: a position that a directive closes is the
\* target of one request, a whole close, and its instrument is not bought in the same
\* cycle (the merge in CycleRunner.run_one).
ForcedOnce ==
    phase = "judged" =>
        \A p \in due :
            /\ \E r \in approved : {q \in requests : q.pid = p} = {r} /\ r.action = "CLOSE" /\ r.part = "whole"
            /\ \A r \in requests : r.action = "BUY" => r.inst # InstOf[p]

\* Once the operator was told that a symbol or a sector is blocked, no candidate of it
\* comes up and no BUY under that symbol is approved, also in a cycle that was on its
\* way when the edit was made (BotController.set_directive, RiskEvaluator.evaluate).
AckedBlockHolds ==
    /\ \A i \in acked.blocked \cup acked.barred : cands[i] # "BUY"
    /\ \A r \in approved : r.action = "BUY" => r.name \notin acked.blocked

\* What the operator laid down is done, whatever the engine wants and whenever it was
\* laid down.
OrdersFollowDirectives == ForcedOnce /\ AckedBlockHolds

\* A position that a directive wants closed in every cycle is closed in the end: refused
\* closes are asked for again, with or without an LLM.
DueIsClosed ==
    \A p \in Holdings :
        <>[](phase # "idle" /\ p \in owned => p \in due) => []<>(p \notin owned)
=============================================================================
