---------------------------- MODULE DynamicStops ----------------------------
(***************************************************************************)
(* The stop bands of single positions, execution/dynamic_stops.py, with    *)
(* their writers: MODIFY_STOPS and closes in the executor, the check of    *)
(* the bands in PositionMonitor, the state file. Percentages are numbers;  *)
(* the take-profit side of a band changes nothing here and is left out.    *)
(*                                                                         *)
(* positions_needing_close has no caller in the cycle at this commit: what *)
(* is said of the ratchet is said of the store and its monitor.            *)
(***************************************************************************)
EXTENDS Integers

CONSTANTS
    Stopped,       \* positions
    DefaultStop,   \* default_stop_loss_pct
    StopLosses,    \* values of stop_loss_pct
    Trails,        \* values of trailing_stop_pct
    PriceMoves,    \* profit or loss of a position in percent
    Unset          \* a field that is None

ASSUME StopsAssumption ==
    /\ DefaultStop \in Nat \ {0} /\ StopLosses \subseteq Nat \ {0} /\ Trails \subseteq Nat \ {0}
    /\ PriceMoves \subseteq Int /\ Unset \notin Int

VARIABLES
    bands,       \* DynamicStopsStore._bands
    savedBands,  \* the same in the state file
    breached     \* what positions_needing_close returned last

stopVars == <<bands, savedBands, breached>>

Peaks == {m \in PriceMoves \cup {0} : m >= 0}
Band == [stop : StopLosses \cup {DefaultStop}, trail : Trails \cup {Unset}, peak : Peaks]
NoBand == [stop |-> DefaultStop, trail |-> Unset, peak |-> 0]   \* effective_band without one
BandOf(p) == IF bands[p] = Unset THEN NoBand ELSE bands[p]

StopsTypeOK ==
    /\ bands \in [Stopped -> Band \cup {Unset}]
    /\ savedBands \in [Stopped -> Band \cup {Unset}]
    /\ breached \subseteq Stopped

StopsInit ==
    /\ bands = [p \in Stopped |-> Unset] /\ savedBands = bands /\ breached = {}

Larger(x, y) == IF x > y THEN x ELSE y
Given(new, old) == IF new = Unset THEN old ELSE new

\* trailing_floor_pct: the change, from entry, at which the position is closed. Trailing
\* starts when the peak has passed it.
Floor(b) ==
    IF b.trail = Unset \/ b.peak <= b.trail THEN -b.stop ELSE Larger(b.peak - b.trail, -b.stop)

\* Mutant: a new band starts from scratch.
BandAfterFresh(b, stop, trail) ==
    [stop |-> Given(stop, b.stop), trail |-> Given(trail, b.trail), peak |-> 0]

\* set_band: a field that is not given stays, and so does the peak.
BandAfter(b, stop, trail) ==
    [stop |-> Given(stop, b.stop), trail |-> Given(trail, b.trail), peak |-> b.peak]

\* RiskEvaluator._evaluate_modify_stops wants one field; it may be the take-profit.
ModifyStops(p, stop, trail) ==
    /\ bands' = [bands EXCEPT ![p] = BandAfter(BandOf(p), stop, trail)]
    /\ UNCHANGED <<savedBands, breached>>

\* TradeExecutor._close of a whole position. Nobody clears the band of a position that
\* the broker closed.
ClearBand(p) ==
    /\ bands[p] # Unset
    /\ bands' = [bands EXCEPT ![p] = Unset]
    /\ UNCHANGED <<savedBands, breached>>

\* Mutant: the peak follows the price down.
RatchetedDown(p, move) ==
    IF bands[p] = Unset \/ BandOf(p).trail = Unset THEN bands[p]
    ELSE [bands[p] EXCEPT !.peak = move]

\* ratchet_trailing; without trailing the peak is not followed.
Ratcheted(p, move) ==
    IF bands[p] = Unset \/ BandOf(p).trail = Unset \/ move <= BandOf(p).peak THEN bands[p]
    ELSE [bands[p] EXCEPT !.peak = move]

\* positions_needing_close: each position that has a rate is ratcheted, then compared.
CheckBands(move, rated) ==
    LET now == [p \in Stopped |-> IF p \in rated THEN Ratcheted(p, move[p]) ELSE bands[p]]
        band(p) == IF now[p] = Unset THEN NoBand ELSE now[p] IN
    /\ bands' = now
    /\ breached' = {p \in rated : \/ move[p] <= -band(p).stop
                                   \/ (band(p).trail # Unset /\ move[p] <= Floor(band(p)))}
    /\ UNCHANGED savedBands

\* persist_state at the end of a cycle, or after an operator's request.
SaveBands ==
    /\ savedBands' = bands
    /\ UNCHANGED <<bands, breached>>

\* restore, in a new process: what was not saved is lost.
RestoreBands ==
    /\ bands' = savedBands /\ breached' = {}
    /\ UNCHANGED savedBands

StopsNext ==
    \/ \E p \in Stopped, stop \in StopLosses \cup {Unset}, trail \in Trails \cup {Unset} :
          ModifyStops(p, stop, trail)
    \/ \E p \in Stopped : ClearBand(p)
    \/ \E move \in [Stopped -> PriceMoves], rated \in SUBSET Stopped : CheckBands(move, rated)
    \/ SaveBands
    \/ RestoreBands

StopsSpec == StopsInit /\ [][StopsNext]_stopVars

-----------------------------------------------------------------------------
(* Properties. *)

\* "Without ever moving wider": while a position has a band, its floor comes down only
\* when a MODIFY_STOPS gives a new stop or trail, or when a crash takes back a peak that
\* was not saved. Updates of other fields, price drops and saves leave it up.
Loosened(p) == bands[p] # Unset /\ bands'[p] # Unset /\ Floor(bands'[p]) < Floor(bands[p])
FloorOnlyTightens ==
    [][\A p \in Stopped : Loosened(p) =>
          \/ bands'[p].stop # bands[p].stop \/ bands'[p].trail # bands[p].trail
          \/ bands' = savedBands]_stopVars
=============================================================================
