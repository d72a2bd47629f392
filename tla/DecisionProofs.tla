--------------------------- MODULE DecisionProofs ---------------------------
(* What is decided and what it is decided by, for any instruments, positions, *)
(* LLM answers, edits, stop bands and settings.                               *)
EXTENDS MCDecisions, NaturalsInduction, WellFoundedInduction, TLAPS

-----------------------------------------------------------------------------
(* Orders and directives. *)

\* A snapshot, as far as the blocks go.
Blocks(d) ==
    /\ "blocked" \in DOMAIN d /\ "barred" \in DOMAIN d
    /\ d.blocked \subseteq Symbols /\ d.barred \subseteq Symbols

\* Acknowledged blocks are in force, the lock is free between cycles, and a cycle that
\* holds it sees only blocks that were acknowledged before it began.
DirectiveInv ==
    /\ due \subseteq owned
    /\ acked.blocked \subseteq directives.blocked /\ acked.barred \subseteq directives.barred
    /\ phase = "idle" => /\ \A i \in Symbols : cands[i] # "BUY"
                         /\ approved = {}
    /\ \A i \in Symbols : i \in acked.blocked \cup acked.barred => cands[i] # "BUY"
    /\ \A r \in approved : r.action = "BUY" => r.name \notin acked.blocked
    /\ Blocks(directives)
    /\ edit \in [at : {"none", "checked", "applied"}, what : Edits \cup {NoEdit}]
    /\ edit.at = "checked" => edit.what \in Edits
    /\ ForcedOnce

LEMMA DirectiveInit == DecisionInit => DirectiveInv
<1> QED
    BY DEF DecisionInit, DirectiveInv, ForcedOnce, NoCands, NoDirectives, Blocks

\* The merge gives each position that a directive closes one request, and approves it.
LEMMA MergeForces ==
    ASSUME DirectiveInv, NEW decided, NEW p \in due
    PROVE  LET r == Close(InstOf[p], p, "directive") IN
           /\ {q \in Merged(decided) : q.pid = p} = {r} /\ Passes(r)
           /\ r.action = "CLOSE" /\ r.part = "whole"
           /\ \A q \in Merged(decided) : q.action = "BUY" => q.inst # InstOf[p]
<1> DEFINE r == Close(InstOf[p], p, "directive")
<1>1. /\ r.pid = p /\ r.action = "CLOSE" /\ r.part = "whole" /\ r \in DirectiveCloses
    BY DEF Close, DirectiveCloses
<1>2. ASSUME NEW q \in DirectiveCloses PROVE q.action # "BUY" /\ (q.pid = p => q = r)
    BY DEF DirectiveCloses, Close
<1>3. ASSUME NEW q \in Merged(decided)
      PROVE  \/ q \in DirectiveCloses
             \/ q.pid # p /\ (q.action = "BUY" => q.inst # InstOf[p])
    BY DEF Merged
<1>4. r \in Merged(decided)
    BY <1>1 DEF Merged
<1>5. Passes(r)
    BY <1>1 DEF Passes, DirectiveInv
<1> HIDE DEF r
<1>6. {q \in Merged(decided) : q.pid = p} = {r}
    BY <1>1, <1>2, <1>3, <1>4
<1> QED
    BY <1>1, <1>2, <1>3, <1>5, <1>6 DEF r

\* set_field replaces one field, and the snapshot stays one.
LEMMA EditedIs ==
    ASSUME NEW d, Blocks(d), NEW e \in Edits
    PROVE  Blocks([d EXCEPT ![e.field] = e.value])
<1> DEFINE one == [NoDirectives EXCEPT ![e.field] = e.value]
           all == [d EXCEPT ![e.field] = e.value]
<1>1. one \in Directives
    BY DecisionAssumption
<1>2. /\ e.field = "blocked" => e.value = one.blocked
      /\ e.field = "barred" => e.value = one.barred
    BY DEF NoDirectives
<1>3. one.blocked \subseteq Symbols /\ one.barred \subseteq Symbols
    BY <1>1 DEF Directives
<1>4. /\ all.blocked \in {d.blocked, one.blocked}
      /\ all.barred \in {d.barred, one.barred}
      /\ "blocked" \in DOMAIN all /\ "barred" \in DOMAIN all
    BY <1>2 DEF Blocks
<1> HIDE DEF all, one
<1>5. Blocks(all)
    BY <1>3, <1>4 DEF Blocks
<1> QED
    BY <1>5 DEF all

LEMMA DirectiveNext == DirectiveInv /\ [DecisionNext]_decisionVars => DirectiveInv'
<1> SUFFICES ASSUME DirectiveInv, [DecisionNext]_decisionVars PROVE DirectiveInv'
    OBVIOUS
<1>i. ASSUME phase' = "idle", cands' = NoCands, approved' = {}, due' = {},
             UNCHANGED <<directives, edit, acked>>
      PROVE  DirectiveInv'
    BY <1>i DEF DirectiveInv, ForcedOnce, NoCands
<1>1. ASSUME NEW held \in SUBSET Holdings, NEW strong \in SUBSET Symbols,
             NEW vetoed \in SUBSET Symbols, NEW facts \in Situations,
             BeginDecision(held, strong, vetoed, facts)
      PROVE  DirectiveInv'
    <2>1. /\ phase = "idle" /\ phase' = "candidates" /\ owned' = held
          /\ cands' = Candidates(held, strong) /\ due' \subseteq held
          /\ UNCHANGED <<directives, edit, acked, requests, approved>>
        BY <1>1 DEF BeginDecision, DueFor
    <2>2. \A i \in Symbols : i \in directives.blocked \cup directives.barred => cands'[i] # "BUY"
        BY <2>1 DEF Candidates
    <2> QED
        BY <2>1, <2>2 DEF DirectiveInv, ForcedOnce
<1>2. ASSUME NEW how, NEW answer, NEW last, Judge(how, answer, last) PROVE DirectiveInv'
    <2>1. /\ phase' = "judged"
          /\ requests' = Merged(Decided(how, answer, last))
          /\ approved' = {r \in requests' : Passes(r)}
          /\ UNCHANGED <<directives, edit, acked, owned, cands, due>>
        BY <1>2 DEF Judge
    <2>2. \A r \in approved' : r.action = "BUY" => r.name \notin directives.blocked
        BY <2>1 DEF Passes
    <2>3. ASSUME NEW p \in due
          PROVE  /\ \E r \in approved' : /\ {q \in requests' : q.pid = p} = {r}
                                         /\ r.action = "CLOSE" /\ r.part = "whole"
                 /\ \A r \in requests' : r.action = "BUY" => r.inst # InstOf[p]
        <3> DEFINE r == Close(InstOf[p], p, "directive")
                   merged == Merged(Decided(how, answer, last))
        <3>1. /\ {q \in merged : q.pid = p} = {r} /\ Passes(r)
              /\ r.action = "CLOSE" /\ r.part = "whole"
              /\ \A q \in merged : q.action = "BUY" => q.inst # InstOf[p]
            BY MergeForces
        <3> HIDE DEF r, merged
        <3>2. r \in merged
            BY <3>1
        <3>3. requests' = merged
            BY <2>1 DEF merged
        <3> QED
            BY <2>1, <3>1, <3>2, <3>3
    <2>4. ForcedOnce'
        BY <2>1, <2>3 DEF ForcedOnce
    <2> QED
        BY <2>1, <2>2, <2>4 DEF DirectiveInv
<1>3. ASSUME NEW accepted \in SUBSET approved, Execute(accepted) PROVE DirectiveInv'
    BY <1>3, <1>i DEF Execute
<1>4. CASE DecisionAborts
    BY <1>4, <1>i DEF DecisionAborts
<1>5. CASE (\E e \in Edits : EditChecked(e)) \/ EditRefused
    BY <1>5 DEF EditChecked, EditRefused, DirectiveInv, ForcedOnce
<1>6. CASE EditApplied
    <2>1. /\ acked'.blocked = acked.blocked \cap directives'.blocked
          /\ acked'.barred = acked.barred \cap directives'.barred
          /\ UNCHANGED <<phase, owned, cands, due, requests, approved>>
          /\ edit' = [edit EXCEPT !.at = "applied"]
        BY <1>6 DEF EditApplied, DirectiveInv
    <2>2. Blocks(directives)'
        BY <1>6, EditedIs DEF EditApplied, DirectiveInv, Blocks
    <2> QED
        BY <2>1, <2>2 DEF DirectiveInv, ForcedOnce
<1>7. CASE EditAcked
    <2>1. /\ acked'.blocked = directives.blocked /\ acked'.barred = directives.barred
          /\ phase = "idle" /\ UNCHANGED <<directives, phase, owned, cands, due, requests, approved>>
          /\ edit' = [at |-> "none", what |-> NoEdit]
        BY <1>7 DEF EditAcked
    <2>2. \A i \in Symbols : i \in directives.blocked \cup directives.barred => cands[i] # "BUY"
        BY <2>1 DEF DirectiveInv
    <2> QED
        BY <2>1, <2>2 DEF DirectiveInv, ForcedOnce
<1>8. CASE UNCHANGED decisionVars
    BY <1>8 DEF decisionVars, DirectiveInv, ForcedOnce
<1> QED
    BY <1>1, <1>2, <1>3, <1>4, <1>5, <1>6, <1>7, <1>8 DEF DecisionNext

\* What the operator laid down is done, for every answer of the LLM and every edit, also
\* one in the middle of a cycle (CycleRunner.run_one, BotController.set_directive).
THEOREM DirectivesAreFollowed == DecisionSpec => []OrdersFollowDirectives
<1>1. DirectiveInv => OrdersFollowDirectives
    <2> SUFFICES ASSUME DirectiveInv PROVE OrdersFollowDirectives
        OBVIOUS
    <2>1. acked.blocked \cup acked.barred \subseteq Symbols
        BY DEF DirectiveInv, Blocks
    <2> QED
        BY <2>1 DEF DirectiveInv, OrdersFollowDirectives, AckedBlockHolds
<1> QED
    BY <1>1, DirectiveInit, DirectiveNext, PTL DEF DecisionSpec

-----------------------------------------------------------------------------
(* Types: requests are well formed whatever the LLM answers. *)

\* A buy, with or without a name, is a request.
LEMMA BuyIs ==
    ASSUME NEW i \in Symbols, NEW name \in Symbols \cup {Unnamed}
    PROVE  Buy(i, name) \in Request
<1> QED
    BY DEF Buy, Request

LEMMA CloseIs ==
    ASSUME NEW i \in Symbols, NEW p \in Holdings \cup {NoHolding}, NEW by \in {"engine", "directive"}
    PROVE  Close(i, p, by) \in Request
<1> QED
    BY DEF Close, Request

\* parse_actions: an entry becomes at most one request, about symbols and positions.
LEMMA ParsedIs ==
    ASSUME DecisionTypeOK, NEW e \in Entries, NEW last \in LastOf
    PROVE  Parsed(e, last) \subseteq Request
<1> DEFINE name == IF cands[e.inst] # "none" THEN e.inst ELSE e.name
           pid == Resolved(e, last)
<1>1. /\ e.inst \in Symbols /\ e.name \in Symbols \cup {Unnamed}
      /\ e.action \in {"BUY", "CLOSE", "MODIFY_STOPS"} /\ e.part \in {"whole", "part", "bad"}
    BY DecisionAssumption
<1>2. name \in Symbols \cup {Unnamed}
    BY <1>1
<1>3. pid \in Holdings \cup {NoHolding}
    BY <1>1 DEF Resolved, DecisionTypeOK, LastOf
<1> HIDE DEF name, pid
<1>4. Buy(e.inst, name) \in Request
    BY <1>1, <1>2, BuyIs
<1>5. [action |-> e.action, inst |-> e.inst, name |-> name, pid |-> pid,
       part |-> e.part, by |-> "engine"] \in Request
    BY <1>1, <1>2, <1>3 DEF Request
<1>6. Parsed(e, last) =
        IF e.action = "BUY" THEN {Buy(e.inst, name)}
        ELSE {[action |-> e.action, inst |-> e.inst, name |-> name, pid |-> pid,
               part |-> e.part, by |-> "engine"] : q \in {pid} \ {NoHolding}}
    BY DEF Parsed, name, pid
<1> QED
    BY <1>4, <1>5, <1>6

\* The deterministic path yields requests only.
LEMMA DeterministicIs ==
    ASSUME NEW vetoes, NEW last \in LastOf
    PROVE  Deterministic(vetoes, last) \subseteq Request
<1>1. \A i \in Symbols : Buy(i, i) \in Request
    BY BuyIs
<1>2. \A i \in Symbols : Close(i, last[i], "engine") \in Request
    BY CloseIs DEF LastOf
<1> QED
    BY <1>1, <1>2 DEF Deterministic

\* A decision yields requests only, on each of its paths.
LEMMA DecidedIs ==
    ASSUME DecisionTypeOK, NEW how, NEW answer, answer \subseteq Entries, NEW last \in LastOf
    PROVE  Decided(how, answer, last) \subseteq Request
<1>1. UNION {Parsed(e, last) : e \in answer} \subseteq Request
    BY ParsedIs
<1>2. Deterministic({}, last) \subseteq Request /\ Deterministic(gated, last) \subseteq Request
    BY DeterministicIs
<1> HIDE DEF Request
<1> QED
    BY <1>1, <1>2 DEF Decided

\* Merging the directives in yields requests only.
LEMMA MergedIs ==
    ASSUME DecisionTypeOK, NEW decided, decided \subseteq Request
    PROVE  Merged(decided) \subseteq Request
<1>1. \A p \in due : Close(InstOf[p], p, "directive") \in Request
    BY CloseIs, DecisionAssumption DEF DecisionTypeOK
<1>2. DirectiveCloses \subseteq Request
    BY <1>1 DEF DirectiveCloses
<1> QED
    BY <1>2 DEF Merged

\* set_field keeps the snapshot one of directives.
LEMMA EditedTyped ==
    ASSUME NEW d \in Directives, NEW e \in Edits
    PROVE  [d EXCEPT ![e.field] = e.value] \in Directives
<1> DEFINE one == [NoDirectives EXCEPT ![e.field] = e.value]
           both == [d EXCEPT ![e.field] = e.value]
<1>1. one \in Directives
    BY DecisionAssumption
<1>2. one.blocked \subseteq Symbols /\ one.barred \subseteq Symbols /\ one.closing \subseteq Kinds
    BY <1>1 DEF Directives
<1>3. /\ e.field = "blocked" => e.value = one.blocked
      /\ e.field = "barred" => e.value = one.barred
      /\ e.field = "closing" => e.value = one.closing
    BY DEF NoDirectives
<1>4. /\ d.blocked \subseteq Symbols /\ d.barred \subseteq Symbols /\ d.closing \subseteq Kinds
      /\ d = [blocked |-> d.blocked, barred |-> d.barred, closing |-> d.closing]
    BY DEF Directives
<1>5. CASE e.field = "blocked"
    <2>1. both = [d EXCEPT !.blocked = one.blocked]
        BY <1>3, <1>5
    <2> QED
        BY <1>2, <1>4, <2>1 DEF Directives
<1>6. CASE e.field = "barred"
    <2>1. both = [d EXCEPT !.barred = one.barred]
        BY <1>3, <1>6
    <2> QED
        BY <1>2, <1>4, <2>1 DEF Directives
<1>7. CASE e.field = "closing"
    <2>1. both = [d EXCEPT !.closing = one.closing]
        BY <1>3, <1>7
    <2> QED
        BY <1>2, <1>4, <2>1 DEF Directives
<1>8. CASE e.field \notin {"blocked", "barred", "closing"}
    BY <1>4, <1>8 DEF Directives
<1> QED
    BY <1>5, <1>6, <1>7, <1>8

LEMMA DecisionTypeNext ==
    DecisionTypeOK /\ DirectiveInv /\ [DecisionNext]_decisionVars => DecisionTypeOK'
<1> SUFFICES ASSUME DecisionTypeOK, DirectiveInv, [DecisionNext]_decisionVars PROVE DecisionTypeOK'
    OBVIOUS
<1>i. ASSUME phase' = "idle", cands' = NoCands, gated' = {}, due' = {}, source' = "none",
             requests' = {}, approved' = {}, owned' \subseteq owned,
             UNCHANGED <<directives, edit, acked>>
      PROVE  DecisionTypeOK'
    BY <1>i DEF DecisionTypeOK, NoCands
<1>1. ASSUME NEW held \in SUBSET Holdings, NEW strong \in SUBSET Symbols,
             NEW vetoed \in SUBSET Symbols, NEW facts \in Situations,
             BeginDecision(held, strong, vetoed, facts)
      PROVE  DecisionTypeOK'
    <2>1. /\ phase' = "candidates" /\ owned' = held /\ due' = DueFor(held, facts)
          /\ gated' \subseteq vetoed /\ cands' = Candidates(held, strong)
          /\ UNCHANGED <<directives, edit, acked, source, requests, approved>>
        BY <1>1 DEF BeginDecision
    <2>2. Candidates(held, strong) \in [Symbols -> {"none", "BUY", "CLOSE"}]
        BY DEF Candidates
    <2>3. DueFor(held, facts) \subseteq held
        BY DEF DueFor
    <2> QED
        BY <2>1, <2>2, <2>3 DEF DecisionTypeOK
<1>2. ASSUME NEW how \in {"llm", "unparsable", "fallback", "veto", "none"}, NEW last \in LastOf,
             NEW answer, answer \subseteq Entries, Judge(how, answer, last)
      PROVE  DecisionTypeOK'
    <2>1. Merged(Decided(how, answer, last)) \subseteq Request
        BY <1>2, DecidedIs, MergedIs
    <2>2. /\ phase' = "judged" /\ source' = how /\ requests' = Merged(Decided(how, answer, last))
          /\ approved' \subseteq requests'
          /\ UNCHANGED <<directives, edit, acked, owned, cands, gated, due>>
        BY <1>2 DEF Judge
    <2> QED
        BY <2>1, <2>2 DEF DecisionTypeOK
<1>3. ASSUME NEW accepted \in SUBSET approved, Execute(accepted) PROVE DecisionTypeOK'
    BY <1>3, <1>i DEF Execute
<1>4. CASE DecisionAborts
    BY <1>4, <1>i DEF DecisionAborts
<1>5. CASE \E e \in Edits : EditChecked(e)
    BY <1>5 DEF EditChecked, DecisionTypeOK
<1>6. CASE EditRefused
    BY <1>6 DEF EditRefused, DecisionTypeOK
<1>7. CASE EditApplied
    <2>1. edit.what \in Edits
        BY <1>7 DEF EditApplied, DirectiveInv
    <2>2. directives' \in Directives
        BY <1>7, <2>1, EditedTyped DEF EditApplied, DecisionTypeOK
    <2>3. /\ acked'.blocked \subseteq directives'.blocked /\ acked'.barred \subseteq directives'.barred
          /\ edit'.at = "applied" /\ edit'.what = edit.what
          /\ UNCHANGED <<phase, owned, cands, gated, due, source, requests, approved>>
        BY <1>7 DEF EditApplied, DirectiveInv
    <2> QED
        BY <2>1, <2>2, <2>3 DEF DecisionTypeOK
<1>8. CASE EditAcked
    BY <1>8 DEF EditAcked, DecisionTypeOK
<1>9. CASE UNCHANGED decisionVars
    BY <1>9 DEF decisionVars, DecisionTypeOK
<1>10. ASSUME NEW how \in {"llm", "unparsable", "fallback", "veto", "none"}, NEW last \in LastOf,
              NEW answer \in IF how = "llm" THEN {a \in SUBSET Entries : Cardinality(a) <= MaxEntries}
                             ELSE {{}}
       PROVE  answer \subseteq Entries
    OBVIOUS
<1> QED
    BY <1>1, <1>2, <1>3, <1>4, <1>5, <1>6, <1>7, <1>8, <1>9, <1>10 DEF DecisionNext

LEMMA DecisionTyped == DecisionSpec => []DecisionTypeOK
<1>1. DecisionInit => DecisionTypeOK
    BY DEF DecisionInit, DecisionTypeOK, NoCands, NoDirectives, Directives
<1> QED
    BY <1>1, DirectiveInit, DirectiveNext, DecisionTypeNext, PTL DEF DecisionSpec

-----------------------------------------------------------------------------
(* Stop bands. *)

LEMMA BandTypes ==
    ASSUME NEW b \in Band
    PROVE  /\ b.stop \in Nat \ {0} /\ b.trail \in (Nat \ {0}) \cup {Unset} /\ b.peak \in Nat
           /\ b.trail # Unset => b.trail \in Nat
           /\ Floor(b) \in Int /\ Floor(b) >= -b.stop
<1>1. /\ b.stop \in Nat \ {0} /\ b.trail \in (Nat \ {0}) \cup {Unset} /\ b.peak \in Nat
      /\ b.trail # Unset => b.trail \in Nat
    <2>1. b.stop \in StopLosses \cup {DefaultStop} /\ b.trail \in Trails \cup {Unset} /\ b.peak \in Peaks
        BY DEF Band
    <2>2. Peaks \subseteq Nat
        <3>1. ASSUME NEW m \in Peaks PROVE m \in Nat
            <4>1. m \in PriceMoves \cup {0} /\ m >= 0
                BY DEF Peaks
            <4>2. m \in Int
                BY <4>1, StopsAssumption
            <4> QED
                BY <4>1, <4>2
        <3> QED
            BY <3>1
    <2>3. /\ StopLosses \cup {DefaultStop} \subseteq Nat \ {0}
          /\ Trails \cup {Unset} \subseteq (Nat \ {0}) \cup {Unset}
        BY StopsAssumption
    <2> QED
        BY <2>1, <2>2, <2>3
<1>2. CASE b.trail = Unset \/ b.peak <= b.trail
    BY <1>1, <1>2 DEF Floor
<1>3. CASE ~(b.trail = Unset \/ b.peak <= b.trail)
    <2>1. b.trail \in Nat /\ Floor(b) = Larger(b.peak - b.trail, -b.stop)
        BY <1>1, <1>3 DEF Floor
    <2>2. b.peak - b.trail \in Int /\ -b.stop \in Int
        BY <1>1, <2>1
    <2> QED
        BY <1>1, <2>1, <2>2 DEF Larger
<1> QED
    BY <1>1, <1>2, <1>3

\* The absent band is a band.
LEMMA NoBandIs == NoBand \in Band
<1> QED
    BY StopsAssumption DEF NoBand, Band, Peaks

\* A ratcheted band is a band, and its stop is never below the one before.
LEMMA RatchetIs ==
    ASSUME NEW p \in Stopped, bands[p] \in Band \cup {Unset}, NEW move \in PriceMoves
    PROVE  /\ Ratcheted(p, move) \in Band \cup {Unset}
           /\ bands[p] # Unset => /\ Ratcheted(p, move) \in Band
                                  /\ Floor(Ratcheted(p, move)) >= Floor(bands[p])
<1>1. CASE bands[p] = Unset \/ BandOf(p).trail = Unset \/ move <= BandOf(p).peak
    <2>1. Ratcheted(p, move) = bands[p]
        BY <1>1 DEF Ratcheted
    <2> QED
        BY <2>1, BandTypes
<1>2. CASE bands[p] # Unset /\ BandOf(p).trail # Unset /\ ~(move <= BandOf(p).peak)
    <2> DEFINE b == bands[p]
               now == Ratcheted(p, move)
    <2>1. b \in Band /\ BandOf(p) = b /\ b.trail # Unset /\ ~(move <= b.peak)
        BY <1>2 DEF BandOf
    <2>2. now = [b EXCEPT !.peak = move]
        BY <1>2 DEF Ratcheted
    <2>3. /\ b.stop \in Nat /\ b.trail \in Nat /\ b.peak \in Nat /\ move \in Int
          /\ Floor(b) \in Int /\ move > b.peak
        BY <2>1, BandTypes, StopsAssumption
    <2>4. move \in Peaks
        BY <2>3 DEF Peaks
    <2>5. now \in Band
        BY <2>1, <2>2, <2>4 DEF Band
    <2>6. now.stop = b.stop /\ now.trail = b.trail /\ now.peak = move
        BY <2>1, <2>2 DEF Band
    <2> HIDE DEF b, now
    <2>7. Floor(now) >= Floor(b)
        BY <2>1, <2>3, <2>6 DEF Floor, Larger
    <2> QED
        BY <2>5, <2>7 DEF b, now
<1> QED
    BY <1>1, <1>2

LEMMA StopsTypeNext == StopsTypeOK /\ [StopsNext]_stopVars => StopsTypeOK'
<1> SUFFICES ASSUME StopsTypeOK, [StopsNext]_stopVars PROVE StopsTypeOK'
    OBVIOUS
<1>1. ASSUME NEW p \in Stopped, NEW stop \in StopLosses \cup {Unset},
             NEW trail \in Trails \cup {Unset}, ModifyStops(p, stop, trail)
      PROVE  StopsTypeOK'
    <2>1. BandOf(p) \in Band
        BY NoBandIs DEF BandOf, StopsTypeOK
    <2>2. BandAfter(BandOf(p), stop, trail) \in Band
        BY <2>1 DEF BandAfter, Given, Band
    <2> QED
        BY <1>1, <2>2 DEF ModifyStops, StopsTypeOK
<1>2. ASSUME NEW p \in Stopped, ClearBand(p) PROVE StopsTypeOK'
    BY <1>2 DEF ClearBand, StopsTypeOK
<1>3. ASSUME NEW move \in [Stopped -> PriceMoves], NEW rated \in SUBSET Stopped,
             CheckBands(move, rated)
      PROVE  StopsTypeOK'
    <2>1. \A p \in Stopped : bands[p] \in Band \cup {Unset} /\ move[p] \in PriceMoves
        BY DEF StopsTypeOK
    <2>2. \A p \in Stopped : Ratcheted(p, move[p]) \in Band \cup {Unset}
        BY <2>1, RatchetIs
    <2>3. /\ bands' = [p \in Stopped |-> IF p \in rated THEN Ratcheted(p, move[p]) ELSE bands[p]]
          /\ breached' \subseteq rated /\ UNCHANGED savedBands
        BY <1>3 DEF CheckBands
    <2> QED
        BY <2>1, <2>2, <2>3 DEF StopsTypeOK
<1>4. CASE SaveBands \/ RestoreBands \/ UNCHANGED stopVars
    BY <1>4 DEF SaveBands, RestoreBands, stopVars, StopsTypeOK
<1> QED
    BY <1>1, <1>2, <1>3, <1>4 DEF StopsNext

\* Bands are bands (DynamicStopsStore).
THEOREM StopsTypeCorrect == StopsSpec => []StopsTypeOK
<1>1. StopsInit => StopsTypeOK
    BY DEF StopsInit, StopsTypeOK
<1> QED
    BY <1>1, StopsTypeNext, PTL DEF StopsSpec

\* A stop is loosened only where its percentages change or a restart reads the saved
\* bands.
LEMMA FloorStep ==
    ASSUME StopsTypeOK, [StopsNext]_stopVars, NEW p \in Stopped, Loosened(p)
    PROVE  \/ bands'[p].stop # bands[p].stop \/ bands'[p].trail # bands[p].trail
           \/ bands' = savedBands
<1> SUFFICES ASSUME bands' # savedBands, bands'[p].stop = bands[p].stop,
                    bands'[p].trail = bands[p].trail
             PROVE  FALSE
    OBVIOUS
<1>1. bands[p] \in Band /\ bands[p] # Unset /\ bands'[p] # Unset /\ Floor(bands[p]) \in Int
    BY BandTypes DEF StopsTypeOK, Loosened
<1>2. ~(Floor(bands'[p]) >= Floor(bands[p]))
    <2>1. bands'[p] \in Band
        BY <1>1, StopsTypeNext DEF StopsTypeOK
    <2>2. Floor(bands'[p]) \in Int
        BY <2>1, BandTypes
    <2> QED
        BY <1>1, <2>2 DEF Loosened
<1>3. bands'[p] # bands[p]
    BY <1>1, <1>2
<1>4. ASSUME NEW q \in Stopped, NEW stop, NEW trail, ModifyStops(q, stop, trail) PROVE FALSE
    <2>1. q = p /\ bands'[p] = BandAfter(bands[p], stop, trail)
        <3>1. bands' = [bands EXCEPT ![q] = BandAfter(BandOf(q), stop, trail)]
            BY <1>4 DEF ModifyStops
        <3>2. q = p
            BY <1>3, <3>1 DEF StopsTypeOK
        <3>3. BandOf(p) = bands[p]
            BY <1>1 DEF BandOf
        <3> QED
            BY <3>1, <3>2, <3>3 DEF StopsTypeOK
    <2>2. bands'[p] = bands[p]
        BY <1>1, <2>1 DEF BandAfter, Band
    <2> QED
        BY <1>3, <2>2
<1>5. ASSUME NEW q \in Stopped, ClearBand(q) PROVE FALSE
    BY <1>1, <1>3, <1>5 DEF ClearBand, StopsTypeOK
<1>6. ASSUME NEW move \in [Stopped -> PriceMoves], NEW rated, CheckBands(move, rated) PROVE FALSE
    <2>1. bands'[p] = Ratcheted(p, move[p])
        BY <1>3, <1>6 DEF CheckBands
    <2>2. move[p] \in PriceMoves
        OBVIOUS
    <2> QED
        BY <1>1, <1>2, <2>1, <2>2, RatchetIs
<1>7. CASE SaveBands \/ RestoreBands \/ UNCHANGED stopVars
    BY <1>3, <1>7 DEF SaveBands, RestoreBands, stopVars
<1> QED
    BY <1>4, <1>5, <1>6, <1>7 DEF StopsNext

\* "Without ever moving wider" (dynamic_stops.py), for all prices, stops and trails.
THEOREM FloorsOnlyTighten == StopsSpec => FloorOnlyTightens
<1>1. StopsTypeOK /\ [StopsNext]_stopVars =>
        [\A p \in Stopped : Loosened(p) =>
            \/ bands'[p].stop # bands[p].stop \/ bands'[p].trail # bands[p].trail
            \/ bands' = savedBands]_stopVars
    BY FloorStep
<1> QED
    BY <1>1, StopsTypeCorrect, PTL DEF StopsSpec, FloorOnlyTightens

-----------------------------------------------------------------------------
(* Settings. *)

\* What the database has is what the process runs with, except for changes it did not
\* take and sections that the start could not read.
StoredRuns ==
    attached => \A s \in Settings :
        s \notin unsaved /\ s[1] \notin unread /\ rows[s] # NoRow => rows[s] = running[s]

\* Every step keeps the settings in the store the ones that run.
LEMMA StoredRunsNext == StoredRuns /\ [ConfigNext]_configVars => StoredRuns'
<1> SUFFICES ASSUME StoredRuns, [ConfigNext]_configVars PROVE StoredRuns'
    OBVIOUS
<1>c. ASSUME NEW new, NEW written, Change(new, written) PROVE StoredRuns'
    BY <1>c DEF Change, StoredRuns
<1>1. ASSUME NEW opens \in BOOLEAN, NEW missed, NEW blind \in BOOLEAN, NEW dumped,
             Boot(opens, missed, blind, dumped)
      PROVE  StoredRuns'
    <2>1. CASE ~opens
        BY <1>1, <2>1 DEF Boot, StoredRuns
    <2>2. CASE opens
        <3>1. /\ running' = Layered(Read(rows, missed)) /\ unread' = missed
              /\ rows' = Snapshotted(rows, running', blind, dumped)
            BY <1>1, <2>2 DEF Boot
        <3>2. \A s \in Settings : rows'[s] \in {rows[s], running'[s]}
            BY <3>1 DEF Snapshotted
        <3>3. \A s \in Settings : s[1] \notin missed /\ rows[s] # NoRow => running'[s] = rows[s]
            BY <3>1 DEF Layered, Read
        <3> QED
            BY <3>1, <3>2, <3>3 DEF StoredRuns
    <2> QED
        BY <2>1, <2>2
<1>2. ASSUME NEW s, NEW v, EditToml(s, v) PROVE StoredRuns'
    BY <1>2 DEF EditToml, StoredRuns
<1>3. ASSUME NEW s, NEW v, NEW written, EditGuardrail(s, v, written) PROVE StoredRuns'
    BY <1>3, <1>c DEF EditGuardrail
<1>4. ASSUME NEW request, NEW written, Tune(request, written) PROVE StoredRuns'
    BY <1>4, <1>c DEF Tune
<1>5. CASE UNCHANGED configVars
    BY <1>5 DEF configVars, StoredRuns
<1> QED
    BY <1>1, <1>2, <1>3, <1>4, <1>5 DEF ConfigNext, Start

\* What the operator and the tuner set survives restarts whose reads succeed, for all
\* settings, tuning blocks, failed writes and failed probes (load_config over
\* ConfigStore).
THEOREM SettingsSurvive == ConfigSpec => RestartKeepsSettings
<1>1. ConfigInit => StoredRuns
    BY DEF ConfigInit, StoredRuns
<1>2. StoredRuns =>
        [(\E s \in Settings :
              /\ Started /\ attached /\ rows[s] # NoRow /\ s[1] \notin unread'
              /\ \/ running'[s] # running[s] /\ s \notin unsaved /\ s[1] \notin unread
                 \/ rows'[s] # rows[s])
         => ~Start(TRUE)]_configVars
    <2> SUFFICES ASSUME StoredRuns, attached, Start(TRUE), NEW s \in Settings, rows[s] # NoRow,
                        s[1] \notin unread'
                 PROVE  /\ s \in unsaved \/ s[1] \in unread \/ running'[s] = running[s]
                        /\ rows'[s] = rows[s]
        OBVIOUS
    <2>1. PICK missed, blind, dumped : Boot(TRUE, missed, blind, dumped)
        BY DEF Start
    <2>2. /\ running' = Layered(Read(rows, missed)) /\ unread' = missed
          /\ rows' = Snapshotted(rows, running', blind, dumped)
        BY <2>1 DEF Boot
    <2>3. running'[s] = rows[s]
        BY <2>2 DEF Layered, Read
    <2>4. rows'[s] \in {rows[s], running'[s]}
        BY <2>2 DEF Snapshotted
    <2> QED
        BY <2>3, <2>4 DEF StoredRuns
<1> QED
    BY <1>1, <1>2, StoredRunsNext, PTL DEF ConfigSpec, RestartKeepsSettings

-----------------------------------------------------------------------------
(* Types: what is stored, is set or is asked for is a value of a setting. *)

\* A set of numbers that is not empty has a least one.
LEMMA LeastIs ==
    ASSUME NEW K \in SUBSET Nat, K # {}
    PROVE  \E k \in K : \A j \in K : k <= j
<1>1. IsWellFoundedOn({ss \in Nat \X Nat : ss[1] < ss[2]}, Nat)
    BY NatLessThanWellFounded DEF OpToRel
<1>2. PICK k \in K : \A j \in K : <<j, k>> \notin {ss \in Nat \X Nat : ss[1] < ss[2]}
    BY <1>1, WFMin
<1>3. \A j \in K : ~(j < k)
    BY <1>2
<1>4. \A j \in K : j \in Nat /\ k \in Nat
    OBVIOUS
<1> QED
    BY <1>3, <1>4

\* What is left of a tuning block: each tunable setting has the value of one of its changes.
LEMMA FirstOfIs ==
    ASSUME NEW request \in TuneRequests
    PROVE  FirstOf(request) \in [DOMAIN FirstOf(request) -> SettingValues]
<1> DEFINE named(s) == {k \in Parseable(request) : request[k].setting = s}
           first(s) == CHOOSE k \in Parseable(request) :
                          /\ request[k].setting = s
                          /\ \A j \in Parseable(request) : request[j].setting = s => k <= j
           all == {request[k].setting : k \in Parseable(request)}
<1>1. request \in Seq([setting : Settings, value : SettingValues])
    BY SettingsAssumption
<1>2. /\ Parseable(request) \subseteq Nat
      /\ \A k \in Parseable(request) : request[k].value \in SettingValues
    <2> DEFINE Changes == [setting : Settings, value : SettingValues]
    <2>1. request \in Seq(Changes)
        BY <1>1
    <2> HIDE DEF Changes
    <2>2. /\ Len(request) \in Nat /\ DOMAIN request = 1..Len(request)
          /\ \A k \in 1..Len(request) : request[k] \in Changes
        BY <2>1
    <2> USE DEF Changes
    <2>3. \A k \in 1..Len(request) : request[k].value \in SettingValues
        BY <2>2
    <2>4. Parseable(request) \subseteq 1..Len(request)
        BY <2>2 DEF Parseable
    <2> QED
        BY <2>2, <2>3, <2>4
<1>3. ASSUME NEW s \in all PROVE request[first(s)].value \in SettingValues
    <2>1. named(s) # {} /\ named(s) \in SUBSET Nat
        BY <1>2
    <2>2. PICK k \in named(s) : \A j \in named(s) : k <= j
        BY <2>1, LeastIs
    <2>3. first(s) \in Parseable(request)
        BY <2>2
    <2> QED
        BY <1>2, <2>3
<1>4. FirstOf(request) = [s \in all |-> request[first(s)].value]
    BY DEF FirstOf
<1> HIDE DEF all, first
<1> QED
    BY <1>3, <1>4

\* Changes to values of settings, in a process that has started.
LEMMA ChangeTyped ==
    ASSUME ConfigTypeOK, Started, NEW new, new \in [DOMAIN new -> SettingValues],
           DOMAIN new \subseteq Settings, NEW written, Change(new, written)
    PROVE  ConfigTypeOK'
<1> DEFINE saved == IF attached THEN written \cap DOMAIN new ELSE {}
<1>1. running \in [Settings -> SettingValues]
    BY DEF ConfigTypeOK, Started
<1>2. saved \subseteq DOMAIN new
    OBVIOUS
<1>3. /\ running' = [s \in Settings |-> IF s \in DOMAIN new THEN new[s] ELSE running[s]]
      /\ rows' = [s \in Settings |-> IF s \in saved THEN new[s] ELSE rows[s]]
      /\ unsaved' = (unsaved \cup DOMAIN new) \ saved
      /\ UNCHANGED <<toml, attached, unread>>
    BY DEF Change
<1> HIDE DEF saved
<1>4. \A s \in DOMAIN new : new[s] \in SettingValues
    OBVIOUS
<1>5. running' \in [Settings -> SettingValues]
    BY <1>1, <1>3, <1>4
<1>6. rows' \in [Settings -> SettingValues \cup {NoRow}]
    BY <1>2, <1>3, <1>4 DEF ConfigTypeOK
<1> QED
    BY <1>3, <1>5, <1>6 DEF ConfigTypeOK

LEMMA ConfigTypeNext == ConfigTypeOK /\ [ConfigNext]_configVars => ConfigTypeOK'
<1> SUFFICES ASSUME ConfigTypeOK, [ConfigNext]_configVars PROVE ConfigTypeOK'
    OBVIOUS
<1>1. ASSUME NEW opens \in BOOLEAN, NEW missed \in SUBSET Sections, NEW blind \in BOOLEAN,
             NEW dumped, Boot(opens, missed, blind, dumped)
      PROVE  ConfigTypeOK'
    <2>1. \A stored \in [Settings -> SettingValues \cup {NoRow}] :
              Layered(stored) \in [Settings -> SettingValues]
        BY DEF Layered, ConfigTypeOK
    <2>2. running' \in [Settings -> SettingValues]
        <3>1. Read(rows, missed) \in [Settings -> SettingValues \cup {NoRow}]
            BY DEF Read, ConfigTypeOK
        <3> QED
            BY <1>1, <2>1, <3>1 DEF Boot, ConfigTypeOK
    <2>3. Snapshotted(rows, running', blind, dumped) \in [Settings -> SettingValues \cup {NoRow}]
        BY <2>2 DEF Snapshotted, ConfigTypeOK
    <2>4. rows' \in [Settings -> SettingValues \cup {NoRow}]
        BY <1>1, <2>3 DEF Boot, ConfigTypeOK
    <2>5. unread' \in SUBSET Sections /\ UNCHANGED toml /\ attached' \in BOOLEAN /\ unsaved' = {}
        BY <1>1 DEF Boot
    <2> QED
        BY <2>2, <2>4, <2>5 DEF ConfigTypeOK
<1>2. ASSUME NEW s \in Settings, NEW v \in SettingValues, EditToml(s, v) PROVE ConfigTypeOK'
    BY <1>2 DEF EditToml, ConfigTypeOK
<1>3. ASSUME NEW s \in Guarded, NEW v \in SettingValues, NEW written, EditGuardrail(s, v, written)
      PROVE  ConfigTypeOK'
    <2> DEFINE new == [t \in {s} |-> v]
    <2>1. new \in [DOMAIN new -> SettingValues] /\ DOMAIN new \subseteq Settings
        BY SettingsAssumption
    <2>2. Started /\ Change(new, written)
        BY <1>3 DEF EditGuardrail
    <2> HIDE DEF new
    <2> QED
        BY <2>1, <2>2, ChangeTyped
<1>4. ASSUME NEW request \in TuneRequests, NEW written, Tune(request, written) PROVE ConfigTypeOK'
    <2> DEFINE asked == FirstOf(request)
               new == [s \in {t \in DOMAIN asked : running[t] # asked[t]} |-> asked[s]]
    <2>1. asked \in [DOMAIN asked -> SettingValues]
        BY FirstOfIs
    <2>2. DOMAIN asked \subseteq Settings
        BY SettingsAssumption DEF FirstOf, Parseable
    <2>3. Started /\ Change(new, written)
        BY <1>4 DEF Tune
    <2> HIDE DEF asked
    <2>4. new \in [DOMAIN new -> SettingValues] /\ DOMAIN new \subseteq Settings
        BY <2>1, <2>2
    <2> HIDE DEF new
    <2> QED
        BY <2>3, <2>4, ChangeTyped
<1>5. CASE UNCHANGED configVars
    BY <1>5 DEF configVars, ConfigTypeOK
<1> QED
    BY <1>1, <1>2, <1>3, <1>4, <1>5 DEF ConfigNext, Start

LEMMA ConfigTyped == ConfigSpec => []ConfigTypeOK
<1>1. ConfigInit => ConfigTypeOK
    BY DEF ConfigInit, ConfigTypeOK
<1> QED
    BY <1>1, ConfigTypeNext, PTL DEF ConfigSpec

-----------------------------------------------------------------------------
(* The three side by side. *)

\* Each part behaves by its own specification, whichever of them moves.
LEMMA StepsOfDecisions ==
    [MCNext]_<<focus, decisionVars, stopVars, configVars>> =>
        /\ [DecisionNext]_decisionVars /\ [StopsNext]_stopVars /\ [ConfigNext]_configVars
<1> QED
    BY DEF MCNext

\* Whatever the LLM answers, the operator edits, the tuner asks for and the store fails to
\* write: what is approved was requested, what a directive closes is owned, bands and
\* settings are values that a start can read back (CycleRunner.run_one, DynamicStopsStore,
\* load_config).
THEOREM DecisionsTypeCorrect == MCSpec => []TypesOK
<1>1. MCInit => DecisionInit /\ StopsInit /\ ConfigInit
    BY DEF MCInit
<1>2. MCSpec => DecisionSpec /\ StopsSpec /\ ConfigSpec
    BY <1>1, StepsOfDecisions, PTL DEF MCSpec, DecisionSpec, StopsSpec, ConfigSpec
<1>3. DecisionTypeOK /\ StopsTypeOK /\ ConfigTypeOK => TypesOK
    BY DEF TypesOK
<1> QED
    BY <1>2, <1>3, DecisionTyped, StopsTypeCorrect, ConfigTyped, PTL
=============================================================================
