-------------------------- MODULE BackgroundProofs --------------------------
(***************************************************************************)
(* What the parts of MCBackground guarantee for any number of calls, days, *)
(* trades, tools and crashes: the bill of the LLM, the daily rows of the   *)
(* performance ledger, the vetoes and demotions of the tools, the trading  *)
(* hours; and all the parts together, those of the modules it extends too. *)
(***************************************************************************)
EXTENDS MCBackground, MarketDataProofs, TelegramProofs, SumProofs

-----------------------------------------------------------------------------
(* The bill. *)

\* The calls of a day whose line is still to be written.
UnwrittenOn(d) == {c \in Unwritten : call[c].day = d}

\* The file and what is still to be written cover every call that is not excused, and of
\* no day more than its calls: what a restart reads back is neither more nor less. No day
\* to come has calls, so that the first of a new day finds an empty count.
BillInv ==
    /\ \A d \in Dates :
        /\ byDay[d] <= calls[d]
        /\ Lines(d) + Cardinality(UnwrittenOn(d)) <= calls[d]
        /\ d > date => calls[d] = 0
        /\ ~late /\ d > todayIso => byDay[d] = 0
    /\ Total(calls) <= Total(byDay) + excused + unread
    /\ Total(calls) <= AllLines + Cardinality(Unwritten) + excused
    /\ ~late => Total(byType) = byDay[todayIso]

UsageSets ==
    /\ IsFiniteSet(Dates) /\ IsFiniteSet(CallTypes)
    /\ IsFiniteSet(Unwritten) /\ Cardinality(Unwritten) \in Nat
    /\ \A d \in Dates : /\ IsFiniteSet(UnwrittenOn(d))
                        /\ Cardinality(UnwrittenOn(d)) \in Nat
                        /\ Cardinality(UnwrittenOn(d)) <= Cardinality(Unwritten)

\* The sets the bill is summed over are finite.
LEMMA UsageSetsFinite == UsageSets
<1>1. IsFiniteSet(Dates) /\ IsFiniteSet(CallTypes)
    BY UsageAssumption, FS_Interval DEF Dates
<1>2. IsFiniteSet(Unwritten)
    BY UsageAssumption, FS_Subset DEF Unwritten
<1>3. \A d \in Dates : UnwrittenOn(d) \in SUBSET Unwritten
    BY DEF UnwrittenOn
<1> QED
    BY <1>1, <1>2, <1>3, FS_Subset, FS_CardinalityType DEF UsageSets

LEMMA UsageSetsFiniteNext == UsageSets'
BY UsageSetsFinite, PTL

LEMMA CountsAreNat ==
    ASSUME NEW S, IsFiniteSet(S), NEW f \in [S -> Nat]
    PROVE  Total(f) = SumOver(f, S) /\ Total(f) \in Nat
BY SumIsNat DEF Total

\* Counting one entry up raises the sum of the counts by one.
LEMMA BumpedCount ==
    ASSUME NEW S, IsFiniteSet(S), NEW f \in [S -> Nat], NEW y \in S
    PROVE  /\ [f EXCEPT ![y] = @ + 1] \in [S -> Nat]
           /\ Total([f EXCEPT ![y] = @ + 1]) = Total(f) + 1
<1> DEFINE g == [f EXCEPT ![y] = @ + 1]
<1>1. g \in [S -> Nat] /\ g[y] = f[y] + 1 /\ \A x \in S \ {y} : f[x] = g[x]
    OBVIOUS
<1> HIDE DEF g
<1>2. SumOver(g, S) = SumOver(f, S) + 1
    BY <1>1, SumBump
<1>3. Total(g) = SumOver(g, S) /\ Total(f) = SumOver(f, S)
    BY <1>1, CountsAreNat
<1> QED
    BY <1>1, <1>2, <1>3 DEF g

\* One line more of a day.
LEMMA LineAppended ==
    ASSUME NEW f \in [Dates -> [CallTypes -> Nat]], NEW d \in Dates, NEW t \in CallTypes
    PROVE  /\ [f EXCEPT ![d][t] = @ + 1] \in [Dates -> [CallTypes -> Nat]]
           /\ Total([f EXCEPT ![d][t] = @ + 1][d]) = Total(f[d]) + 1
           /\ \A e \in Dates \ {d} : [f EXCEPT ![d][t] = @ + 1][e] = f[e]
<1> DEFINE h == [f[d] EXCEPT ![t] = @ + 1]
<1>1. f[d] \in [CallTypes -> Nat]
    OBVIOUS
<1>2. h \in [CallTypes -> Nat] /\ Total(h) = Total(f[d]) + 1
    BY <1>1, UsageSetsFinite, BumpedCount DEF UsageSets
<1>3. [f EXCEPT ![d][t] = @ + 1] = [f EXCEPT ![d] = h]
    OBVIOUS
<1> HIDE DEF h
<1> QED
    BY <1>2, <1>3

\* The numbers in the invariant.
BillNumbers ==
    /\ Total(calls) \in Nat /\ Total(byDay) \in Nat /\ Total(byType) \in Nat /\ AllLines \in Nat
    /\ excused \in Nat /\ unread \in Nat
    /\ \A d \in Dates : byDay[d] \in Nat /\ calls[d] \in Nat /\ Lines(d) \in Nat

LEMMA BillNumbersAre == UsageTypeOK => BillNumbers
<1> SUFFICES ASSUME UsageTypeOK PROVE BillNumbers
    OBVIOUS
<1>1. Total(calls) \in Nat /\ Total(byDay) \in Nat /\ Total(byType) \in Nat
    BY UsageSetsFinite, CountsAreNat DEF UsageTypeOK, UsageSets
<1>2. \A d \in Dates : Lines(d) \in Nat
    BY UsageSetsFinite, CountsAreNat DEF UsageTypeOK, Lines, UsageSets
<1> DEFINE f == [d \in Dates |-> Lines(d)]
<1>3. \A d \in Dates : f[d] \in Nat
    BY <1>2
<1> HIDE DEF f
<1>4. SumOver(f, Dates) \in Nat
    BY <1>3, UsageSetsFinite, SumIsNat DEF UsageSets
<1>5. AllLines \in Nat
    BY <1>4 DEF AllLines, f
<1> QED
    BY <1>1, <1>2, <1>5 DEF BillNumbers, UsageTypeOK

LEMMA BillNumbersNext == (UsageTypeOK => BillNumbers)'
BY BillNumbersAre, PTL

-----------------------------------------------------------------------------

LEMMA UsageTypeInit == UsageInit => UsageTypeOK
<1> SUFFICES ASSUME UsageInit PROVE UsageTypeOK
    OBVIOUS
<1>1. date \in Dates /\ todayIso \in 0..date /\ badWrites \in 0..MaxBadWrites
    BY UsageAssumption DEF UsageInit, Dates
<1>2. call \in [Callers -> {NoCall} \cup
            [at : {"stamped", "counted"}, day : 0..date, type : CallTypes]]
    BY DEF UsageInit
<1>3. byDay \in [Dates -> Nat] /\ calls \in [Dates -> Nat] /\ byType \in [CallTypes -> Nat]
      /\ readable \in [Dates -> [CallTypes -> Nat]]
    BY DEF UsageInit, NoneByType
<1> QED
    BY <1>1, <1>2, <1>3 DEF UsageInit, UsageTypeOK

LEMMA UsageTypeNext == UsageTypeOK /\ [UsageNext]_usageVars => UsageTypeOK'
<1> SUFFICES ASSUME UsageTypeOK, [UsageNext]_usageVars PROVE UsageTypeOK'
    OBVIOUS
<1> USE DEF UsageTypeOK
<1>0. /\ LastDate \in Nat /\ date \in 0..LastDate /\ 0..date \in SUBSET Dates
      /\ MaxBadWrites \in Nat
    BY UsageAssumption DEF Dates
<1>1. ASSUME NEW c \in Callers, NEW type \in CallTypes, StampCall(c, type)
      PROVE  UsageTypeOK'
    BY <1>0, <1>1 DEF StampCall
<1>2. ASSUME NEW c \in Callers, CountCall(c)
      PROVE  UsageTypeOK'
    <2> DEFINE on == call[c].day
               type == call[c].type
    <2>1. /\ call[c] \in [at : {"stamped", "counted"}, day : 0..date, type : CallTypes]
          /\ on \in 0..date /\ type \in CallTypes /\ on \in Dates
        BY <1>0, <1>2 DEF CountCall, NoCall
    <2>2. call' \in [Callers -> {NoCall} \cup
                        [at : {"stamped", "counted"}, day : 0..date, type : CallTypes]]
        BY <1>2, <2>1 DEF CountCall
    <2>3. TypesOf(on) \in [CallTypes -> Nat]
        BY DEF TypesOf, NoneByType
    <2>4. byType' \in [CallTypes -> Nat]
        <3>1. byType' = [TypesOf(on) EXCEPT ![type] = @ + 1]
            BY <1>2 DEF CountCall
        <3> HIDE DEF on, type
        <3> QED
            BY <2>1, <2>3, <3>1, UsageSetsFinite, BumpedCount DEF UsageSets
    <2>5. byDay' \in [Dates -> Nat] /\ calls' \in [Dates -> Nat] /\ todayIso' \in 0..date
        BY <1>2, <2>1 DEF CountCall
    <2>6. late' \in BOOLEAN
        <3>1. (on < todayIso) \in BOOLEAN
            OBVIOUS
        <3> QED
            BY <1>2, <3>1 DEF CountCall
    <2> QED
        BY <1>2, <2>2, <2>4, <2>5, <2>6 DEF CountCall
<1>3. ASSUME NEW c \in Callers, AppendCall(c)
      PROVE  UsageTypeOK'
    <2>1. /\ call[c] \in [at : {"stamped", "counted"}, day : 0..date, type : CallTypes]
          /\ call[c].day \in Dates /\ call[c].type \in CallTypes
        BY <1>0, <1>3 DEF AppendCall, NoCall
    <2>2. call' \in [Callers -> {NoCall} \cup
                        [at : {"stamped", "counted"}, day : 0..date, type : CallTypes]]
        BY <1>3 DEF AppendCall
    <2>3. CASE Appended(c) /\ UNCHANGED badWrites
        <3>1. readable' \in [Dates -> [CallTypes -> Nat]]
            <4> DEFINE d == call[c].day
                       t == call[c].type
            <4>1. readable' \in {readable, [readable EXCEPT ![d][t] = @ + 1]}
                BY <2>3 DEF Appended
            <4>2. d \in Dates /\ t \in CallTypes
                BY <2>1
            <4> HIDE DEF d, t
            <4>3. [readable EXCEPT ![d][t] = @ + 1] \in [Dates -> [CallTypes -> Nat]]
                BY <4>2, LineAppended
            <4> QED
                BY <4>1, <4>3
        <3>2. excused' \in Nat
            BY <2>3 DEF Appended
        <3>3. UNCHANGED <<date, byDay, byType, todayIso, calls, unread, late, badWrites>> /\ torn' = FALSE
            BY <1>3, <2>3 DEF AppendCall, Appended
        <3> QED
            BY <2>2, <3>1, <3>2, <3>3
    <2>4. CASE AppendFails
        <3>1. badWrites' \in 0..MaxBadWrites /\ excused' \in Nat
            BY <1>0, <2>4 DEF AppendFails
        <3>2. torn' \in BOOLEAN
            BY <2>4 DEF AppendFails
        <3>3. UNCHANGED <<readable, date, byDay, byType, todayIso, calls, unread, late>>
            BY <1>3, <2>4 DEF AppendCall, AppendFails
        <3> QED
            BY <2>2, <3>1, <3>2, <3>3
    <2> QED
        BY <1>3, <2>3, <2>4 DEF AppendCall
<1>4. ASSUME NEW reads \in BOOLEAN, RestartUsage(reads) PROVE UsageTypeOK'
    <2>1. AllLines \in Nat /\ \A d \in Dates : Total(readable[d]) \in Nat
        BY BillNumbersAre DEF BillNumbers, Lines
    <2>2. byDay' \in [Dates -> Nat] /\ unread' \in Nat
        BY <1>4, <2>1 DEF RestartUsage, Lines
    <2>3. byType' \in [CallTypes -> Nat]
        BY <1>4 DEF RestartUsage, NoneByType
    <2>4. excused' \in Nat
        BY <1>4, UsageSetsFinite DEF RestartUsage, UsageSets, Unwritten
    <2>5. torn' \in BOOLEAN
        BY <1>4 DEF RestartUsage
    <2>6. todayIso' \in 0..date'
        BY <1>0, <1>4 DEF RestartUsage
    <2> QED
        BY <1>4, <2>2, <2>3, <2>4, <2>5, <2>6 DEF RestartUsage
<1>5. CASE DateTurns
    <2>1. date' \in Dates /\ 0..date \subseteq 0..date'
        BY <1>0, <1>5 DEF DateTurns, Dates
    <2> QED
        BY <1>5, <2>1 DEF DateTurns
<1>6. CASE UNCHANGED usageVars
    BY <1>6 DEF usageVars
<1> QED
    BY <1>1, <1>2, <1>3, <1>4, <1>5, <1>6 DEF UsageNext

LEMMA UsageTyped == UsageSpec => []UsageTypeOK
<1> QED
    BY UsageTypeInit, UsageTypeNext, PTL DEF UsageSpec

-----------------------------------------------------------------------------

\* The same for a function given its own name, the form the steps below cite.
LEMMA RaisedCount ==
    ASSUME NEW S, IsFiniteSet(S), NEW f \in [S -> Nat], NEW y \in S,
           NEW g, g = [f EXCEPT ![y] = @ + 1]
    PROVE  Total(g) = Total(f) + 1
BY BumpedCount

\* A set with one new element is larger by one.
LEMMA OneMore ==
    ASSUME NEW S, IsFiniteSet(S), NEW x, x \notin S, NEW T, T = S \cup {x}
    PROVE  Cardinality(T) = Cardinality(S) + 1
BY FS_AddElement

\* A set without one of its elements is smaller by one.
LEMMA OneLess ==
    ASSUME NEW S, IsFiniteSet(S), NEW x \in S, NEW T, T = S \ {x}
    PROVE  Cardinality(T) = Cardinality(S) - 1
BY FS_RemoveElement

LEMMA BillInit == UsageInit => BillInv
<1> SUFFICES ASSUME UsageInit PROVE BillInv
    OBVIOUS
<1>1. UsageTypeOK
    BY UsageTypeInit
<1>2. Unwritten = {} /\ \A d \in Dates : UnwrittenOn(d) = {}
    BY DEF UsageInit, Unwritten, UnwrittenOn, NoCall
<1>3. Cardinality({}) = 0
    BY FS_EmptySet
<1>4. \A d \in Dates : Lines(d) = 0
    <2> SUFFICES ASSUME NEW d \in Dates PROVE Total(NoneByType) = 0
        BY DEF UsageInit, Lines
    <2> QED
        BY UsageSetsFinite, SumOfZeros DEF UsageSets, Total, NoneByType
<1>5. AllLines = 0
    BY <1>4, UsageSetsFinite, SumOfZeros DEF UsageSets, AllLines
<1>6. Total(calls) = 0 /\ Total(byDay) = 0
    BY UsageSetsFinite, SumOfZeros DEF UsageSets, Total, UsageInit
<1>7. Total(byType) = 0
    BY UsageSetsFinite, SumOfZeros DEF UsageSets, Total, UsageInit, NoneByType
<1>8. 0 \in Dates /\ todayIso = 0 /\ \A d \in Dates : byDay[d] = 0 /\ calls[d] = 0
    BY UsageAssumption DEF UsageInit, Dates
<1>9. excused = 0 /\ unread = 0
    BY DEF UsageInit
<1>10. ASSUME NEW d \in Dates
       PROVE  /\ byDay[d] <= calls[d] /\ byDay[d] = 0 /\ calls[d] = 0
              /\ Lines(d) + Cardinality(UnwrittenOn(d)) <= calls[d]
    BY <1>2, <1>3, <1>4, <1>8
<1>11. /\ Total(calls) <= Total(byDay) + excused + unread
       /\ Total(calls) <= AllLines + Cardinality(Unwritten) + excused
    BY <1>2, <1>3, <1>5, <1>6, <1>9
<1> QED
    BY <1>7, <1>8, <1>10, <1>11 DEF BillInv

\* A call is counted: one more of its day, and one more line to be written.
LEMMA BillCounted ==
    ASSUME UsageTypeOK, BillInv, NEW c \in Callers, CountCall(c)
    PROVE  BillInv'
<1> DEFINE on == call[c].day
           type == call[c].type
<1>1. /\ call[c] \in [at : {"stamped", "counted"}, day : 0..date, type : CallTypes]
      /\ on \in 0..date /\ on \in Dates /\ type \in CallTypes /\ call[c].at = "stamped"
    <2>1. call[c] \in [at : {"stamped", "counted"}, day : 0..date, type : CallTypes]
        BY DEF UsageTypeOK, CountCall, NoCall
    <2>2. 0..date \in SUBSET Dates
        BY UsageAssumption DEF UsageTypeOK, Dates
    <2> QED
        BY <2>1, <2>2 DEF CountCall
<1>2. /\ todayIso' = on /\ byType' = [TypesOf(on) EXCEPT ![type] = @ + 1]
      /\ byDay' = [byDay EXCEPT ![on] = @ + 1] /\ calls' = [calls EXCEPT ![on] = @ + 1]
      /\ late' = (late \/ on < todayIso)
      /\ call' = [call EXCEPT ![c].at = "counted"]
      /\ UNCHANGED <<date, readable, excused, unread>>
    BY DEF CountCall
<1>3. call'[c].at = "counted" /\ call'[c].day = on
      /\ \A b \in Callers \ {c} : call'[b] = call[b]
    BY <1>1, <1>2 DEF UsageTypeOK
<1>4. /\ Unwritten' = Unwritten \cup {c} /\ c \notin Unwritten
      /\ \A d \in Dates : /\ UnwrittenOn(d)' = IF d = on THEN UnwrittenOn(d) \cup {c}
                                               ELSE UnwrittenOn(d)
                          /\ c \notin UnwrittenOn(d)
    BY <1>1, <1>3 DEF Unwritten, UnwrittenOn
<1>n. BillNumbers /\ UsageSets
    BY BillNumbersAre, UsageSetsFinite
<1> HIDE DEF on, type
<1>5. /\ Cardinality(Unwritten') = Cardinality(Unwritten) + 1
      /\ \A d \in Dates : Cardinality(UnwrittenOn(d)') =
                IF d = on THEN Cardinality(UnwrittenOn(d)) + 1 ELSE Cardinality(UnwrittenOn(d))
    <2>1. Cardinality(Unwritten') = Cardinality(Unwritten) + 1
        BY <1>4, <1>n, OneMore DEF UsageSets
    <2>2. ASSUME NEW d \in Dates
          PROVE  Cardinality(UnwrittenOn(d)') =
                IF d = on THEN Cardinality(UnwrittenOn(d)) + 1 ELSE Cardinality(UnwrittenOn(d))
        <3>1. IsFiniteSet(UnwrittenOn(d)) /\ c \notin UnwrittenOn(d)
            BY <1>4, <1>n DEF UsageSets
        <3>2. CASE d = on
            <4>1. UnwrittenOn(d)' = UnwrittenOn(d) \cup {c}
                BY <1>4, <3>2
            <4> QED
                BY <3>1, <3>2, <4>1, OneMore
        <3>3. CASE d # on
            BY <1>4, <3>3
        <3> QED
            BY <3>2, <3>3
    <2> QED
        BY <2>1, <2>2
<1>6. byDay \in [Dates -> Nat] /\ calls \in [Dates -> Nat] /\ byType \in [CallTypes -> Nat]
    BY DEF UsageTypeOK
<1>7. Total(byDay') = Total(byDay) + 1 /\ Total(calls') = Total(calls) + 1
    <2>1. IsFiniteSet(Dates) /\ on \in Dates
        BY <1>1, <1>n DEF UsageSets
    <2>2. byDay' = [byDay EXCEPT ![on] = @ + 1] /\ calls' = [calls EXCEPT ![on] = @ + 1]
        BY <1>2
    <2> QED
        BY <1>6, <2>1, <2>2, RaisedCount
<1>8. AllLines' = AllLines /\ \A d \in Dates : Lines(d)' = Lines(d)
    BY <1>2 DEF AllLines, Lines
<1>9. /\ \A d \in Dates : /\ calls'[d] = IF d = on THEN calls[d] + 1 ELSE calls[d]
                          /\ byDay'[d] = IF d = on THEN byDay[d] + 1 ELSE byDay[d]
    BY <1>1, <1>2, <1>6
<1>t. todayIso \in Nat /\ date \in Nat /\ on \in Nat /\ on <= date /\ \A d \in Dates : d \in Nat
    BY <1>1 DEF UsageTypeOK, Dates
<1>l. ~late' => ~late /\ todayIso <= on
    <2>1. ~late' => ~late /\ ~(on < todayIso)
        BY <1>2
    <2> QED
        BY <1>t, <2>1
<1>10. ASSUME NEW d \in Dates
       PROVE  /\ byDay'[d] <= calls'[d]
              /\ Lines(d)' + Cardinality(UnwrittenOn(d)') <= calls'[d]
              /\ d > date' => calls'[d] = 0
    <2>1. /\ Lines(d)' = Lines(d) /\ Lines(d) \in Nat /\ calls[d] \in Nat /\ byDay[d] \in Nat
          /\ Cardinality(UnwrittenOn(d)) \in Nat
        BY <1>8, <1>n DEF BillNumbers, UsageSets
    <2>2. /\ byDay[d] <= calls[d] /\ Lines(d) + Cardinality(UnwrittenOn(d)) <= calls[d]
          /\ d > date => calls[d] = 0
        BY DEF BillInv
    <2>3. d > date' => d # on /\ d > date
        BY <1>2, <1>t
    <2> QED
        BY <1>5, <1>9, <2>1, <2>2, <2>3
<1>11. ASSUME NEW d \in Dates, ~late', d > todayIso'
       PROVE  byDay'[d] = 0
    <2>1. d # on /\ d > todayIso /\ ~late
        BY <1>2, <1>l, <1>t, <1>11
    <2> QED
        BY <1>9, <2>1 DEF BillInv
<1>12. ASSUME ~late' PROVE Total(byType') = byDay'[todayIso']
    <2>1. TypesOf(on) \in [CallTypes -> Nat]
        BY <1>6 DEF TypesOf, NoneByType
    <2>2. Total(byType') = Total(TypesOf(on)) + 1
        <3>1. IsFiniteSet(CallTypes) /\ type \in CallTypes
            BY <1>1, <1>n DEF UsageSets
        <3>2. byType' = [TypesOf(on) EXCEPT ![type] = @ + 1]
            BY <1>2
        <3> QED
            BY <2>1, <3>1, <3>2, RaisedCount
    <2>3. Total(TypesOf(on)) = byDay[on]
        <3>1. CASE on = todayIso
            BY <1>l, <1>12, <3>1 DEF TypesOf, BillInv
        <3>2. CASE on # todayIso
            <4>1. byDay[on] = 0
                BY <1>1, <1>l, <1>t, <1>12, <3>2 DEF BillInv
            <4>2. Total(NoneByType) = 0
                BY <1>n, SumOfZeros DEF UsageSets, Total, NoneByType
            <4> QED
                BY <3>2, <4>1, <4>2 DEF TypesOf
        <3> QED
            BY <3>1, <3>2
    <2> QED
        BY <1>1, <1>2, <1>9, <2>2, <2>3
<1>13. Total(calls') <= Total(byDay') + excused' + unread'
    BY <1>2, <1>7, <1>n DEF BillInv, BillNumbers
<1>14. Total(calls') <= AllLines' + Cardinality(Unwritten') + excused'
    BY <1>2, <1>5, <1>7, <1>8, <1>n DEF BillInv, BillNumbers, UsageSets
<1> QED
    BY <1>10, <1>11, <1>12, <1>13, <1>14 DEF BillInv

\* Its line is written, or it is excused.
LEMMA BillWritten ==
    ASSUME UsageTypeOK, UsageTypeOK', BillInv, NEW c \in Callers, AppendCall(c)
    PROVE  BillInv'
<1> DEFINE on == call[c].day
           type == call[c].type
<1>1. on \in Dates /\ type \in CallTypes /\ call[c].at = "counted"
    <2>1. call[c] \in [at : {"stamped", "counted"}, day : 0..date, type : CallTypes]
        BY DEF UsageTypeOK, AppendCall, NoCall
    <2>2. 0..date \in SUBSET Dates
        BY UsageAssumption DEF UsageTypeOK, Dates
    <2> QED
        BY <2>1, <2>2 DEF AppendCall
<1>2. /\ call' = [call EXCEPT ![c] = NoCall]
      /\ UNCHANGED <<date, byDay, byType, todayIso, calls, unread, late>>
    BY DEF AppendCall
<1>3. call'[c].at = "idle" /\ \A b \in Callers \ {c} : call'[b] = call[b]
    BY <1>2 DEF UsageTypeOK, NoCall
<1>4. /\ Unwritten' = Unwritten \ {c} /\ c \in Unwritten
      /\ \A d \in Dates : /\ UnwrittenOn(d)' = UnwrittenOn(d) \ {c}
                          /\ c \in UnwrittenOn(d) <=> d = on
    BY <1>1, <1>3 DEF Unwritten, UnwrittenOn
<1>n. BillNumbers /\ UsageSets /\ BillNumbers'
    BY BillNumbersAre, BillNumbersNext, UsageSetsFinite
<1>5. /\ Cardinality(Unwritten') = Cardinality(Unwritten) - 1
      /\ \A d \in Dates : Cardinality(UnwrittenOn(d)') =
                IF d = on THEN Cardinality(UnwrittenOn(d)) - 1 ELSE Cardinality(UnwrittenOn(d))
    <2>1. Cardinality(Unwritten') = Cardinality(Unwritten) - 1
        BY <1>4, <1>n, OneLess DEF UsageSets
    <2>2. ASSUME NEW d \in Dates
          PROVE  Cardinality(UnwrittenOn(d)') =
                IF d = on THEN Cardinality(UnwrittenOn(d)) - 1 ELSE Cardinality(UnwrittenOn(d))
        <3>1. IsFiniteSet(UnwrittenOn(d)) /\ UnwrittenOn(d)' = UnwrittenOn(d) \ {c}
            BY <1>4, <1>n DEF UsageSets
        <3>2. CASE d = on
            <4>1. c \in UnwrittenOn(d)
                BY <1>4, <3>2
            <4> QED
                BY <3>1, <3>2, <4>1, OneLess
        <3>3. CASE d # on
            <4>1. UnwrittenOn(d)' = UnwrittenOn(d)
                BY <1>4, <3>1, <3>3
            <4> QED
                BY <3>3, <4>1
        <3> QED
            BY <3>2, <3>3
    <2> QED
        BY <2>1, <2>2
<1>6. \/ /\ \A d \in Dates : Lines(d)' = Lines(d)
         /\ AllLines' = AllLines /\ excused' = excused + 1
      \/ /\ \A d \in Dates : Lines(d)' = IF d = on THEN Lines(d) + 1 ELSE Lines(d)
         /\ AllLines' = AllLines + 1 /\ excused' = excused
    <2>1. CASE readable' = readable /\ excused' = excused + 1
        BY <2>1 DEF Lines, AllLines
    <2>2. CASE readable' = [readable EXCEPT ![on][type] = @ + 1] /\ excused' = excused
        <3>1. /\ Total(readable'[on]) = Total(readable[on]) + 1
              /\ \A d \in Dates \ {on} : readable'[d] = readable[d]
            <4> HIDE DEF on, type
            <4>1. readable \in [Dates -> [CallTypes -> Nat]]
                BY DEF UsageTypeOK
            <4> QED
                BY <1>1, <2>2, <4>1, LineAppended
        <3>2. \A d \in Dates : Lines(d)' = IF d = on THEN Lines(d) + 1 ELSE Lines(d)
            BY <1>1, <3>1 DEF Lines
        <3> DEFINE f == [d \in Dates |-> Lines(d)]
                   g == [d \in Dates |-> Total(readable'[d])]
        <3>3. /\ \A d \in Dates : f[d] \in Nat
              /\ g[on] = f[on] + 1 /\ \A d \in Dates \ {on} : f[d] = g[d]
            BY <1>1, <1>n, <3>1 DEF BillNumbers, Lines
        <3>4. AllLines = SumOver(f, Dates) /\ AllLines' = SumOver(g, Dates)
            BY DEF AllLines, Lines
        <3> HIDE DEF f, g, on, type
        <3>5. SumOver(g, Dates) = SumOver(f, Dates) + 1
            BY <1>1, <1>n, <3>3, SumBump DEF UsageSets
        <3> QED
            BY <2>2, <3>2, <3>4, <3>5
    <2> QED
        BY <2>1, <2>2 DEF AppendCall, Appended, AppendFails
<1> HIDE DEF on, type
<1>7. ASSUME NEW d \in Dates
      PROVE  Lines(d)' + Cardinality(UnwrittenOn(d)') <= calls[d]
    <2>1. Lines(d)' <= (IF d = on THEN Lines(d) + 1 ELSE Lines(d))
        BY <1>6, <1>n DEF BillNumbers
    <2>2. /\ Lines(d) \in Nat /\ calls[d] \in Nat /\ Cardinality(UnwrittenOn(d)) \in Nat
          /\ Lines(d)' \in Nat /\ Lines(d) + Cardinality(UnwrittenOn(d)) <= calls[d]
        BY <1>n DEF BillNumbers, UsageSets, BillInv
    <2> QED
        BY <1>5, <2>1, <2>2
<1>8. Total(calls) <= Total(byDay) + excused' + unread'
    BY <1>2, <1>6, <1>n DEF BillInv, BillNumbers
<1>9. Total(calls) <= AllLines' + Cardinality(Unwritten') + excused'
    BY <1>5, <1>6, <1>n DEF BillInv, BillNumbers, UsageSets
<1> QED
    BY <1>2, <1>7, <1>8, <1>9 DEF BillInv

\* What a new process reads is the bill but for what was under way.
LEMMA BillReadBack ==
    ASSUME UsageTypeOK, UsageTypeOK', BillInv, NEW reads \in BOOLEAN, RestartUsage(reads)
    PROVE  BillInv'
<1>1. /\ byDay' = [d \in Dates |-> IF reads THEN Lines(d) ELSE 0] /\ todayIso' = date
      /\ byType' = (IF reads THEN readable[date] ELSE NoneByType)
      /\ unread' = (IF reads THEN 0 ELSE AllLines)
      /\ call' = [c \in Callers |-> NoCall]
      /\ excused' = excused + Cardinality(Unwritten) /\ late' = FALSE
      /\ UNCHANGED <<date, readable, calls>>
    BY DEF RestartUsage
<1>n. BillNumbers /\ UsageSets /\ BillNumbers'
    BY BillNumbersAre, BillNumbersNext, UsageSetsFinite
<1>2. Unwritten' = {} /\ \A d \in Dates : UnwrittenOn(d)' = {}
    BY <1>1 DEF Unwritten, UnwrittenOn, NoCall
<1>3. Cardinality({}) = 0
    BY FS_EmptySet
<1>4. AllLines' = AllLines
      /\ \A d \in Dates : Lines(d)' = Lines(d) /\ byDay'[d] = IF reads THEN Lines(d) ELSE 0
    BY <1>1 DEF AllLines, Lines
<1>5. Total(byDay') + unread' = AllLines
    <2>1. CASE reads
        <3>1. byDay' = [d \in Dates |-> Lines(d)] /\ unread' = 0
            BY <1>1, <2>1
        <3>2. Total(byDay') = AllLines
            BY <3>1 DEF Total, AllLines
        <3> QED
            BY <1>n, <3>1, <3>2 DEF BillNumbers
    <2>2. CASE ~reads
        <3>1. byDay' = [d \in Dates |-> 0] /\ unread' = AllLines
            BY <1>1, <2>2
        <3>2. Total(byDay') = 0
            BY <1>n, <3>1, SumOfZeros DEF Total, UsageSets
        <3> QED
            BY <1>n, <3>1, <3>2 DEF BillNumbers
    <2> QED
        BY <2>1, <2>2
<1>6. ASSUME NEW d \in Dates
      PROVE  /\ byDay'[d] <= calls[d]
             /\ Lines(d)' + Cardinality(UnwrittenOn(d)') <= calls[d]
             /\ d > date => byDay'[d] = 0
    <2>1. /\ Lines(d) \in Nat /\ calls[d] \in Nat /\ Cardinality(UnwrittenOn(d)) \in Nat
          /\ Lines(d) + Cardinality(UnwrittenOn(d)) <= calls[d]
          /\ d > date => calls[d] = 0
        BY <1>n DEF BillNumbers, UsageSets, BillInv
    <2>2. byDay'[d] = Lines(d) \/ byDay'[d] = 0
        BY <1>4
    <2>3. Lines(d)' = Lines(d) /\ Cardinality(UnwrittenOn(d)') = 0
        BY <1>2, <1>3, <1>4
    <2> QED
        BY <2>1, <2>2, <2>3
<1>7. Total(byType') = byDay'[todayIso']
    <2>1. date \in Dates
        BY DEF UsageTypeOK
    <2>2. CASE reads
        BY <1>1, <1>4, <2>1, <2>2 DEF Lines
    <2>3. CASE ~reads
        <3>1. Total(NoneByType) = 0
            BY <1>n, SumOfZeros DEF UsageSets, Total, NoneByType
        <3> QED
            BY <1>1, <1>4, <2>1, <2>3, <3>1
    <2> QED
        BY <2>2, <2>3
<1>8. /\ Total(calls) <= Total(byDay') + excused' + unread'
      /\ Total(calls) <= AllLines' + Cardinality(Unwritten') + excused'
    BY <1>1, <1>2, <1>3, <1>4, <1>5, <1>n DEF BillInv, BillNumbers, UsageSets
<1> QED
    BY <1>1, <1>6, <1>7, <1>8 DEF BillInv

\* Every step keeps the bill: day bucket, month file and memory never count more than
\* was called, nor less unexcused.
LEMMA BillNext == UsageTypeOK /\ BillInv /\ [UsageNext]_usageVars => BillInv'
<1> SUFFICES ASSUME UsageTypeOK, BillInv, [UsageNext]_usageVars PROVE BillInv'
    OBVIOUS
<1>t. UsageTypeOK'
    BY UsageTypeNext
<1>1. ASSUME NEW c \in Callers, NEW type \in CallTypes, StampCall(c, type)
      PROVE  BillInv'
    <2>1. UNCHANGED <<date, byDay, byType, todayIso, readable, calls, excused, unread, late>>
        BY <1>1 DEF StampCall
    <2>2. \A b \in Callers : call'[b].at = "counted" <=> call[b].at = "counted"
        BY <1>1 DEF StampCall, UsageTypeOK
    <2>3. \A b \in Callers : call[b].at = "counted" => call'[b] = call[b]
        BY <1>1 DEF StampCall, UsageTypeOK
    <2>4. Unwritten' = Unwritten
        BY <2>2 DEF Unwritten
    <2>5. \A d \in Dates : UnwrittenOn(d)' = UnwrittenOn(d)
        BY <2>3, <2>4 DEF UnwrittenOn, Unwritten
    <2> QED
        BY <2>1, <2>4, <2>5 DEF BillInv, Lines, AllLines
<1>2. ASSUME NEW c \in Callers, CountCall(c) PROVE BillInv'
    BY <1>2, BillCounted
<1>3. ASSUME NEW c \in Callers, AppendCall(c) PROVE BillInv'
    BY <1>3, <1>t, BillWritten
<1>4. ASSUME NEW reads \in BOOLEAN, RestartUsage(reads) PROVE BillInv'
    BY <1>4, <1>t, BillReadBack
<1>5. CASE DateTurns
    <2>1. /\ date' = date + 1
          /\ UNCHANGED <<call, byDay, byType, todayIso, readable, calls, excused, unread, late>>
        BY <1>5 DEF DateTurns
    <2>2. \A d \in Dates : d > date' => d > date
        BY <2>1 DEF UsageTypeOK, Dates
    <2> QED
        BY <2>1, <2>2 DEF BillInv, Lines, AllLines, Unwritten, UnwrittenOn
<1>6. CASE UNCHANGED usageVars
    BY <1>6 DEF usageVars, BillInv, Lines, AllLines, Unwritten, UnwrittenOn
<1> QED
    BY <1>1, <1>2, <1>3, <1>4, <1>5, <1>6 DEF UsageNext

\* The bill survives any number of restarts, failed writes and torn lines: no call is
\* counted twice, none is missing from the file but those a crash or a write excuses, nor
\* from the totals but those and what the process could not read (LLMUsageTracker._restore),
\* and the types of a day add up to the day (record).
THEOREM BillIsKept == UsageSpec => []UsageSurvives
<1>1. BillInv => UsageSurvives
    BY DEF BillInv, UsageSurvives
<1> QED
    BY <1>1, UsageTypeInit, UsageTypeNext, BillInit, BillNext, PTL DEF UsageSpec

-----------------------------------------------------------------------------
(* The tools. *)

\* A gate of always_include is never left out and comes before whatever vetoes with it.
LEMMA AlwaysSelected ==
    ASSUME NEW asset, NEW r, NEW g \in Always, Applies(g, asset)
    PROVE  g \in Selected(asset, r)
BY ToolsAssumption DEF Selected, Demoted

\* Every step keeps the verdict bound by the gates that always run.
LEMMA GatesNext ==
    AlwaysGatesDecide /\ [StackNext]_stackVars => AlwaysGatesDecide'
<1> SUFFICES ASSUME AlwaysGatesDecide, [StackNext]_stackVars PROVE AlwaysGatesDecide'
    OBVIOUS
<1>1. ASSUME NEW i \in Quoted, NEW act \in {"BUY", "CLOSE"}, NEW asset \in Assets,
             NEW r \in Regimes, NEW says \in [Gates -> Says],
             NEW sign \in [Scorers -> Signs \cup {Raises}],
             EvaluateCandidate(i, act, asset, r, says, sign)
      PROVE  AlwaysGatesDecide'
    <2>1. /\ verdict'.act = act /\ verdict'.asset = asset /\ verdict'.says = says
          /\ verdict'.passed = (Vetoing(Selected(asset, r), act, says) = {})
        BY <1>1 DEF EvaluateCandidate
    <2>2. ASSUME NEW g \in Gates \cap Always, act = "BUY", Applies(g, asset), says[g] = "veto"
          PROVE  Vetoing(Selected(asset, r), act, says) # {}
        BY <2>2, AlwaysSelected DEF Vetoing
    <2> QED
        BY <2>1, <2>2 DEF AlwaysGatesDecide, SaidVeto, Applies
<1>2. ASSUME NEW now \in [Quoted -> Prices \cup {NoPrice}], NEW written \in BOOLEAN,
             Settle(now, written)
      PROVE  AlwaysGatesDecide'
    BY <1>2 DEF Settle, AlwaysGatesDecide, SaidVeto, NoVerdict
<1>3. CASE SkipCycle
    BY <1>3 DEF SkipCycle, AlwaysGatesDecide, SaidVeto, Applies
<1>4. CASE RestartStack
    BY <1>4 DEF RestartStack, AlwaysGatesDecide, SaidVeto, NoVerdict
<1>5. CASE UNCHANGED stackVars
    BY <1>5 DEF stackVars, AlwaysGatesDecide, SaidVeto, Applies
<1> QED
    BY <1>1, <1>2, <1>3, <1>4, <1>5 DEF StackNext

\* A BUY that an applicable gate of always_include objects to is vetoed, whatever the
\* demotions, the budget, the regime and the other tools (ToolSelector.select, ToolRunner).
THEOREM AlwaysIncludedGatesDecide == StackSpec => []AlwaysGatesDecide
<1>1. StackInit => AlwaysGatesDecide
    BY DEF StackInit, AlwaysGatesDecide, SaidVeto, NoVerdict
<1> QED
    BY <1>1, GatesNext, PTL DEF StackSpec

-----------------------------------------------------------------------------

\* A window is what deque(maxlen = rolling_window) can hold.
Windows == {w \in Seq(BOOLEAN) : Len(w) <= Window}

\* The scores, by cycle, and none of a cycle that has not begun.
ScoresInv ==
    /\ scores \in [Cycles -> SUBSET Score] /\ cycleIndex \in 1..MaxCycle
    /\ \A c \in Cycles : c > cycleIndex => scores[c] = {}

LEMMA ScoresInit == StackInit => ScoresInv
BY StackBoundsAssumption DEF StackInit, ScoresInv, NoScores, Cycles

\* No step scores a cycle that has not begun.
LEMMA ScoresNext == ScoresInv /\ [StackNext]_stackVars => ScoresInv'
<1> SUFFICES ASSUME ScoresInv, [StackNext]_stackVars PROVE ScoresInv'
    OBVIOUS
<1>1. ASSUME NEW i \in Quoted, NEW act \in {"BUY", "CLOSE"}, NEW asset \in Assets,
             NEW r \in Regimes, NEW says \in [Gates -> Says],
             NEW sign \in [Scorers -> Signs \cup {Raises}],
             EvaluateCandidate(i, act, asset, r, says, sign)
      PROVE  ScoresInv'
    <2> DEFINE ran == Run(Selected(asset, r), r, act, says)
               scored == {t \in ran \cap Scorers : sign[t] # Raises}
               new == {[inst |-> i, tool |-> t, sign |-> sign[t]] : t \in scored}
    <2>1. new \in SUBSET Score
        BY ToolsAssumption DEF Score, Signs, Raises
    <2>2. scores' = [scores EXCEPT ![cycleIndex] = @ \cup new] /\ cycleIndex' = cycleIndex
        BY <1>1 DEF EvaluateCandidate
    <2>3. cycleIndex \in Cycles
        BY DEF ScoresInv, Cycles
    <2> HIDE DEF new
    <2>4. scores' \in [Cycles -> SUBSET Score]
        BY <2>1, <2>2, <2>3 DEF ScoresInv
    <2>5. \A c \in Cycles : c > cycleIndex => scores'[c] = scores[c]
        BY <2>2, <2>3 DEF ScoresInv, Cycles
    <2> QED
        BY <2>2, <2>4, <2>5 DEF ScoresInv
<1>2. ASSUME NEW now \in [Quoted -> Prices \cup {NoPrice}], NEW written \in BOOLEAN,
             Settle(now, written)
      PROVE  ScoresInv'
    <2>1. /\ scores' = Forget(scores, cycleIndex, {}) /\ cycleIndex' = cycleIndex + 1
          /\ cycleIndex < MaxCycle
        BY <1>2 DEF Settle
    <2>2. \A c \in Cycles : scores'[c] = {} \/ scores'[c] = scores[c]
        BY <2>1 DEF Forget
    <2>3. scores' \in [Cycles -> SUBSET Score]
        BY <2>1 DEF Forget, ScoresInv
    <2>4. cycleIndex' \in 1..MaxCycle /\ \A c \in Cycles : c > cycleIndex' => c > cycleIndex
        BY <2>1, StackBoundsAssumption DEF ScoresInv, Cycles
    <2> QED
        BY <2>2, <2>3, <2>4 DEF ScoresInv
<1>3. CASE SkipCycle
    BY <1>3, StackBoundsAssumption DEF SkipCycle, ScoresInv, Cycles
<1>4. CASE RestartStack
    BY <1>4 DEF RestartStack, ScoresInv, NoScores
<1>5. CASE UNCHANGED stackVars
    BY <1>5 DEF stackVars, ScoresInv
<1> QED
    BY <1>1, <1>2, <1>3, <1>4, <1>5 DEF StackNext

\* No outcome, no change: the fold over nothing returns the window it began with.
LEMMA NothingBumped ==
    ASSUME NEW w, NEW outcomes, NEW t, NEW was, NEW now,
           {s \in outcomes : s.tool = t} = {}
    PROVE  Bumped(w, outcomes, t, was, now) = w
<1> DEFINE mine == SetToSeq({})
           D == DOMAIN mine
           rec(g, s) == IF s = {} THEN w ELSE Bump(g[s \ {Max(s)}], Hit(mine[Max(s)], was, now))
           iter == CHOOSE g : g = [s \in SUBSET D |-> rec(g, s)]
<1>1. D = {}
    <2> DEFINE F == [1..Cardinality({}) -> {}]
    <2>1. 1..Cardinality({}) = {}
        BY FS_EmptySet
    <2>2. \A g \in F : DOMAIN g = {}
        BY <2>1
    <2>3. [x \in {} |-> x] \in F /\ IsInjective([x \in {} |-> x])
        BY <2>1 DEF IsInjective
    <2>4. SetToSeq({}) \in F
        BY <2>3 DEF SetToSeq
    <2> QED
        BY <2>2, <2>4
<1>2. Bumped(w, outcomes, t, was, now) = iter[D]
    BY DEF Bumped, FoldLeft, MapThenFoldSet
<1>3. iter[{}] = w
    <2> DEFINE g0 == [s \in SUBSET D |-> w]
    <2>1. SUBSET D = {{}}
        BY <1>1
    <2>2. g0 = [s \in SUBSET D |-> rec(g0, s)]
        BY <2>1
    <2> HIDE DEF g0
    <2>3. iter = [s \in SUBSET D |-> rec(iter, s)]
        BY <2>2
    <2> HIDE DEF iter
    <2> QED
        BY <2>1, <2>3
<1> QED
    BY <1>1, <1>2, <1>3

\* A demoted tool stays demoted: it is not selected, so it has no score and no outcome,
\* and a restart reads the same windows back (ToolSelector.select, ToolPerformanceLog).
LEMMA OutStaysOut ==
    ASSUME ScoresInv, [StackNext]_stackVars, NEW t \in Tools, OutForGood(t)
    PROVE  OutForGood(t)'
<1>0. Demoted(t) /\ BelowRate(logged[t]) /\ t \notin Always /\ BelowRate(rolling[t])
    BY DEF OutForGood, Demoted
<1>s. /\ cycleIndex \in Cycles /\ cycleIndex - 1 \in Cycles
      /\ \A s \in scores[cycleIndex] \cup scores[cycleIndex - 1] : s.tool # t
    <2>1. cycleIndex \in Cycles /\ cycleIndex - 1 \in Cycles
        BY StackBoundsAssumption DEF ScoresInv, Cycles
    <2>2. /\ \A s \in scores[cycleIndex] : s.tool # t
          /\ \A s \in scores[cycleIndex - 1] : s.tool # t
        BY DEF OutForGood, Outstanding
    <2> QED
        BY <2>1, <2>2
<1>1. ASSUME NEW i \in Quoted, NEW act \in {"BUY", "CLOSE"}, NEW asset \in Assets,
             NEW r \in Regimes, NEW says \in [Gates -> Says],
             NEW sign \in [Scorers -> Signs \cup {Raises}],
             EvaluateCandidate(i, act, asset, r, says, sign)
      PROVE  OutForGood(t)'
    <2> DEFINE ran == Run(Selected(asset, r), r, act, says)
               scored == {u \in ran \cap Scorers : sign[u] # Raises}
               new == {[inst |-> i, tool |-> u, sign |-> sign[u]] : u \in scored}
    <2>1. t \notin scored
        BY <1>0 DEF Selected, Run, Demoted
    <2>2. \A s \in new : s.tool # t
        BY <2>1
    <2>3. scores' = [scores EXCEPT ![cycleIndex] = @ \cup new]
          /\ UNCHANGED <<rolling, logged, cycleIndex>>
        BY <1>1 DEF EvaluateCandidate
    <2> HIDE DEF new
    <2>4. scores'[cycleIndex] = scores[cycleIndex] \cup new
          /\ scores'[cycleIndex - 1] = scores[cycleIndex - 1]
        BY <1>s, <2>3 DEF ScoresInv, Cycles
    <2>5. ~Outstanding(t)'
        BY <1>s, <2>2, <2>3, <2>4 DEF Outstanding
    <2> QED
        BY <1>0, <2>3, <2>5 DEF OutForGood, Demoted
<1>2. ASSUME NEW now \in [Quoted -> Prices \cup {NoPrice}], NEW written \in BOOLEAN,
             Settle(now, written)
      PROVE  OutForGood(t)'
    <2> DEFINE was == closes[cycleIndex - 1]
               outcomes == Outcomes(was, now)
    <2>1. {s \in outcomes : s.tool = t} = {}
        BY <1>s DEF Outcomes
    <2>2. /\ rolling' = [u \in Tools |-> Bumped(rolling[u], outcomes, u, was, now)]
          /\ logged' = IF written
                       THEN [u \in Tools |-> Bumped(logged[u], outcomes, u, was, now)]
                       ELSE logged
          /\ scores' = Forget(scores, cycleIndex, {}) /\ cycleIndex' = cycleIndex + 1
          /\ cycleIndex < MaxCycle
        BY <1>2 DEF Settle
    <2> HIDE DEF outcomes, was
    <2>3. rolling'[t] = rolling[t] /\ logged'[t] = logged[t]
        BY <2>1, <2>2, NothingBumped
    <2>4. cycleIndex + 1 \in Cycles /\ cycleIndex + 1 > cycleIndex
        BY <2>2, StackBoundsAssumption DEF ScoresInv, Cycles
    <2>5. scores'[cycleIndex] \subseteq scores[cycleIndex] /\ scores'[cycleIndex + 1] = {}
        BY <1>s, <2>2, <2>4 DEF Forget, ScoresInv
    <2>6. cycleIndex' - 1 = cycleIndex
        BY <2>2 DEF ScoresInv
    <2>7. ~Outstanding(t)'
        BY <1>s, <2>2, <2>5, <2>6 DEF Outstanding
    <2> QED
        BY <1>0, <2>3, <2>7 DEF OutForGood, Demoted
<1>3. CASE SkipCycle
    <2>1. cycleIndex' = cycleIndex + 1 /\ cycleIndex < MaxCycle
          /\ UNCHANGED <<rolling, logged, scores>>
        BY <1>3 DEF SkipCycle
    <2>2. scores[cycleIndex + 1] = {} /\ cycleIndex' - 1 = cycleIndex
        BY <2>1, StackBoundsAssumption DEF ScoresInv, Cycles
    <2>3. ~Outstanding(t)'
        BY <1>s, <2>1, <2>2 DEF Outstanding
    <2> QED
        BY <1>0, <2>1, <2>3 DEF OutForGood, Demoted
<1>4. CASE RestartStack
    <2>1. rolling' = logged /\ logged' = logged /\ scores' = NoScores /\ cycleIndex' = cycleIndex
        BY <1>4 DEF RestartStack
    <2>2. ~Outstanding(t)'
        BY <1>s, <2>1 DEF Outstanding, NoScores
    <2> QED
        BY <1>0, <2>1, <2>2 DEF OutForGood, Demoted
<1>5. CASE UNCHANGED stackVars
    BY <1>5 DEF stackVars, OutForGood, Demoted, Outstanding
<1> QED
    BY <1>1, <1>2, <1>3, <1>4, <1>5 DEF StackNext

\* Demotion feeds on itself for any tools, hit rates, budgets, cycles and restarts: a tool
\* that is out, with nothing outstanding, is out for good (ToolSelector.select).
THEOREM NoWayBack == StackSpec => DemotionIsFinal
<1>1. ScoresInv /\ [StackNext]_stackVars
      => [\A t \in Tools : OutForGood(t) => OutForGood(t)']_stackVars
    BY OutStaysOut
<1> QED
    BY <1>1, ScoresInit, ScoresNext, PTL DEF StackSpec, DemotionIsFinal

-----------------------------------------------------------------------------
(* The types of the tools: the windows that the outcomes of a cycle leave. *)

\* The largest of a nonempty set of numbers is one of them, by induction on the bound.
LEMMA MaxIsElement ==
    ASSUME NEW n \in Nat
    PROVE  \A s \in SUBSET (1..n) : s # {} => Max(s) \in s
<1> DEFINE D == 1..n
           G == {T \in SUBSET D : T # {} => \E x \in T : \A y \in T : x >= y}
<1>1. IsFiniteSet(D)
    BY FS_Interval
<1>2. {} \in G
    OBVIOUS
<1>3. ASSUME NEW T \in SUBSET D, NEW x \in D \ T, T \in G
      PROVE  T \cup {x} \in G
    <2>1. CASE T = {}
        BY <2>1
    <2>2. CASE T # {}
        <3>1. PICK m \in T : \A y \in T : m >= y
            BY <1>3, <2>2
        <3>2. CASE m >= x
            BY <3>1, <3>2
        <3>3. CASE ~(m >= x)
            <4>1. \A y \in T \cup {x} : x >= y
                BY <3>1, <3>3
            <4> QED
                BY <4>1
        <3> QED
            BY <3>2, <3>3
    <2> QED
        BY <2>1, <2>2
<1> HIDE DEF G
<1>4. \A T \in SUBSET D : T \in G
    BY <1>1, <1>2, <1>3, SetInduction
<1> USE DEF G
<1>5. ASSUME NEW s \in SUBSET D, s # {} PROVE Max(s) \in s
    BY <1>4, <1>5 DEF Max
<1> QED
    BY <1>5

\* A rolling window never outgrows its length, whatever is appended.
LEMMA BumpKeepsLength ==
    ASSUME NEW w \in Windows, NEW hit \in BOOLEAN
    PROVE  Bump(w, hit) \in Windows
<1>1. w \in Seq(BOOLEAN) /\ Len(w) <= Window /\ Len(w) \in Nat /\ Window \in Nat \ {0}
    BY StackBoundsAssumption DEF Windows
<1>2. Append(w, hit) \in Seq(BOOLEAN) /\ Len(Append(w, hit)) = Len(w) + 1
    BY <1>1
<1> DEFINE l == Append(w, hit)
<1>3. CASE Len(l) > Window
    <2>1. l \in Seq(BOOLEAN) /\ l # <<>>
        BY <1>1, <1>2
    <2>2. Tail(l) \in Seq(BOOLEAN) /\ Len(Tail(l)) = Len(l) - 1
        BY <2>1
    <2>3. Len(Tail(l)) <= Window
        BY <1>1, <1>2, <2>2
    <2> QED
        BY <1>3, <2>2, <2>3 DEF Bump, Windows
<1>4. CASE ~(Len(l) > Window)
    BY <1>1, <1>2, <1>4 DEF Bump, Windows
<1> QED
    BY <1>3, <1>4

\* There are finitely many scores, so the votes over them can be counted.
LEMMA ScoresAreFinite == IsFiniteSet(Score)
<1> DEFINE P == (Quoted \X Tools) \X Signs
           M == [s \in Score |-> <<<<s.inst, s.tool>>, s.sign>>]
<1>1. IsFiniteSet(Quoted) /\ IsFiniteSet(Tools)
    BY ToolsAssumption
<1>2. IsFiniteSet(Signs)
    <2>1. Signs = -1..1
        BY DEF Signs
    <2>2. IsFiniteSet(-1..1)
        <3>1. -1 \in Int /\ 1 \in Int
            OBVIOUS
        <3> QED
            BY <3>1, FS_Interval, Zenon
    <2> QED
        BY <2>1, <2>2
<1>3. IsFiniteSet(P)
    BY <1>1, <1>2, FS_Product
<1>4. M \in [Score -> P]
    BY DEF Score
<1>5. ASSUME NEW a \in Score, NEW b \in Score, M[a] = M[b] PROVE a = b
    <2>1. a.inst = b.inst /\ a.tool = b.tool /\ a.sign = b.sign
        BY <1>5
    <2> QED
        BY <2>1 DEF Score
<1>6. M \in Injection(Score, P)
    BY <1>4, <1>5 DEF Injection, IsInjective
<1> HIDE DEF M, P
<1> QED
    BY <1>3, <1>6, FS_Injection

\* The fold over any finite set of outcomes leaves a window.
LEMMA BumpedIsWindow ==
    ASSUME NEW w \in Windows, NEW outcomes \in SUBSET Score, NEW t, NEW was, NEW now
    PROVE  Bumped(w, outcomes, t, was, now) \in Windows
<1> DEFINE M == {s \in outcomes : s.tool = t}
           mine == SetToSeq(M)
           n == Cardinality(M)
           hit(i) == Hit(mine[i], was, now)
           rec(g, s) == IF s = {} THEN w ELSE Bump(g[s \ {Max(s)}], hit(Max(s)))
           iter == CHOOSE g : g = [s \in SUBSET DOMAIN mine |-> rec(g, s)]
<1>1. n \in Nat /\ DOMAIN mine = 1..n
    <2>1. IsFiniteSet(M)
        BY ScoresAreFinite, FS_Subset
    <2> HIDE DEF M
    <2>2. n \in Nat /\ ExistsBijection(1..n, M)
        BY <2>1, FS_CardinalityType
    <2>3. PICK f \in [1..n -> M] : IsInjective(f)
        BY <2>2 DEF ExistsBijection, Bijection, Injection
    <2>4. mine \in [1..n -> M]
        BY <2>3 DEF SetToSeq
    <2> QED
        BY <2>2, <2>4
<1>2. Bumped(w, outcomes, t, was, now) = iter[DOMAIN mine]
    BY DEF Bumped, FoldLeft, MapThenFoldSet
<1>3. \A i : hit(i) \in BOOLEAN
    BY DEF Hit
<1> HIDE DEF hit, mine, n
<1> DEFINE D == 1..n
           bump == [i \in D |-> [v \in Windows |-> Bump(v, hit(i))]]
           pick == [s \in SUBSET D |-> Max(s)]
<1>4. IsFiniteSet(D)
    BY <1>1, FS_Interval
<1>5. bump \in [D -> [Windows -> Windows]]
    BY <1>3, BumpKeepsLength
<1>6. \A s \in SUBSET D : s # {} => pick[s] \in s
    BY <1>1, MaxIsElement
<1>7. PICK g \in [SUBSET D -> Windows] : Solves(g, D, w, bump, pick)
    <2> HIDE DEF D, bump, pick
    <2> QED
        BY <1>4, <1>5, <1>6, SubsetRecursion, Zenon
<1>8. g = [s \in SUBSET D |-> rec(g, s)]
    <2>1. ASSUME NEW s \in SUBSET D PROVE g[s] = rec(g, s)
        <3>1. CASE s = {}
            BY <1>7, <3>1 DEF Solves
        <3>2. CASE s # {}
            <4>1. pick[s] = Max(s) /\ Max(s) \in D /\ g[s \ {Max(s)}] \in Windows
                BY <1>6, <3>2
            <4>2. g[s] = bump[Max(s)][g[s \ {Max(s)}]]
                BY <1>7, <3>2, <4>1 DEF Solves
            <4> QED
                BY <3>2, <4>1, <4>2
        <3> QED
            BY <3>1, <3>2
    <2> QED
        BY <2>1
<1>9. iter = [s \in SUBSET D |-> rec(iter, s)]
    BY <1>1, <1>8
<1> HIDE DEF iter
<1> DEFINE G == {s \in SUBSET D : iter[s] \in Windows}
<1>10. ASSUME NEW s \in SUBSET D, \A u \in SUBSET s : u # s => u \in G
       PROVE  s \in G
    <2>1. iter[s] = rec(iter, s)
        BY <1>9
    <2>2. CASE s = {}
        BY <2>1, <2>2
    <2>3. CASE s # {}
        <3>1. Max(s) \in s
            BY <1>6, <2>3
        <3>2. s \ {Max(s)} \in G
            BY <1>10, <3>1
        <3> QED
            BY <1>3, <2>1, <2>3, <3>2, BumpKeepsLength
    <2> QED
        BY <2>2, <2>3
<1>11. D \in G
    <2> HIDE DEF G, D
    <2>1. \A s \in SUBSET D : s \in G
        BY <1>4, <1>10, StrongSetInduction
    <2> QED
        BY <2>1
<1> QED
    BY <1>1, <1>2, <1>11

\* The windows of the file are as long as those in memory: both take the same outcomes.
WindowsKept == /\ rolling \in [Tools -> Windows] /\ logged \in [Tools -> Windows]

LEMMA WindowsInit == StackInit => WindowsKept
BY StackBoundsAssumption DEF StackInit, WindowsKept, Windows

\* The hit windows of the tools keep their bounded length.
LEMMA WindowsNext ==
    WindowsKept /\ ScoresInv /\ [StackNext]_stackVars => WindowsKept'
<1> SUFFICES ASSUME WindowsKept, ScoresInv, [StackNext]_stackVars PROVE WindowsKept'
    OBVIOUS
<1>1. ASSUME NEW now \in [Quoted -> Prices \cup {NoPrice}], NEW written \in BOOLEAN,
             Settle(now, written)
      PROVE  WindowsKept'
    <2> DEFINE was == closes[cycleIndex - 1]
               outcomes == Outcomes(was, now)
    <2>1. outcomes \in SUBSET Score
        <3>1. cycleIndex - 1 \in Cycles
            BY StackBoundsAssumption DEF ScoresInv, Cycles
        <3>2. scores[cycleIndex - 1] \in SUBSET Score
            BY <3>1 DEF ScoresInv
        <3> QED
            BY <3>2 DEF Outcomes
    <2>2. /\ rolling' = [t \in Tools |-> Bumped(rolling[t], outcomes, t, was, now)]
          /\ logged' = IF written
                       THEN [t \in Tools |-> Bumped(logged[t], outcomes, t, was, now)]
                       ELSE logged
        BY <1>1 DEF Settle
    <2> HIDE DEF outcomes, was
    <2>3. \A t \in Tools : /\ Bumped(rolling[t], outcomes, t, was, now) \in Windows
                           /\ Bumped(logged[t], outcomes, t, was, now) \in Windows
        BY <2>1, BumpedIsWindow DEF WindowsKept
    <2>4. rolling' \in [Tools -> Windows]
        BY <2>2, <2>3
    <2>5. logged' \in [Tools -> Windows]
        BY <2>2, <2>3 DEF WindowsKept
    <2> QED
        BY <2>4, <2>5 DEF WindowsKept
<1>2. CASE RestartStack
    BY <1>2 DEF RestartStack, WindowsKept
<1>3. CASE UNCHANGED <<rolling, logged>>
    BY <1>3 DEF WindowsKept
<1> QED
    BY <1>1, <1>2, <1>3 DEF StackNext, EvaluateCandidate, SkipCycle, stackVars

ClosesTyped == closes \in [Cycles -> [Quoted -> Prices \cup {NoPrice}]]

\* The closing prices keep their types.
LEMMA RestTyped ==
    /\ StackInit => ClosesTyped
    /\ ClosesTyped /\ ScoresInv /\ [StackNext]_stackVars => ClosesTyped'
<1>1. StackInit => ClosesTyped
    BY DEF StackInit, NoCloses, ClosesTyped
<1>2. ASSUME ClosesTyped, ScoresInv, [StackNext]_stackVars PROVE ClosesTyped'
    <2>1. ASSUME NEW now \in [Quoted -> Prices \cup {NoPrice}], NEW written \in BOOLEAN,
                 Settle(now, written)
          PROVE  ClosesTyped'
        <3> DEFINE with == [closes EXCEPT ![cycleIndex] = now]
        <3>1. with \in [Cycles -> [Quoted -> Prices \cup {NoPrice}]]
            BY <1>2 DEF ClosesTyped
        <3>2. closes' = Forget(with, cycleIndex, [i \in Quoted |-> NoPrice])
            BY <2>1 DEF Settle
        <3> HIDE DEF with
        <3> QED
            BY <3>1, <3>2 DEF Forget, ClosesTyped
    <2>2. CASE RestartStack
        BY <2>2 DEF RestartStack, NoCloses, ClosesTyped
    <2>3. CASE UNCHANGED closes
        BY <1>2, <2>3 DEF ClosesTyped
    <2> QED
        BY <1>2, <2>1, <2>2, <2>3 DEF StackNext, EvaluateCandidate, SkipCycle, stackVars
<1> QED
    BY <1>1, <1>2

VerdictTyped == evaluated \in SUBSET Quoted /\ verdict.ran \in SUBSET Tools
                /\ verdict.passed \in BOOLEAN

LEMMA VerdictInit == StackInit => VerdictTyped
<1> SUFFICES ASSUME StackInit PROVE VerdictTyped
    OBVIOUS
<1>1. evaluated \in SUBSET Quoted /\ verdict.ran \in SUBSET Tools
    BY DEF StackInit, NoVerdict
<1>2. verdict.passed \in BOOLEAN
    BY DEF StackInit, NoVerdict
<1> QED
    BY <1>1, <1>2 DEF VerdictTyped

\* The verdict on a tool keeps its type.
LEMMA VerdictNext == VerdictTyped /\ [StackNext]_stackVars => VerdictTyped'
<1> SUFFICES ASSUME VerdictTyped, [StackNext]_stackVars PROVE VerdictTyped'
    OBVIOUS
<1>1. ASSUME NEW i \in Quoted, NEW act \in {"BUY", "CLOSE"}, NEW asset \in Assets,
             NEW r \in Regimes, NEW says \in [Gates -> Says],
             NEW sign \in [Scorers -> Signs \cup {Raises}],
             EvaluateCandidate(i, act, asset, r, says, sign)
      PROVE  VerdictTyped'
    <2> DEFINE selected == Selected(asset, r)
               ran == Run(selected, r, act, says)
    <2>1. ran \in SUBSET Tools
        BY DEF Selected, Run
    <2>2. evaluated' = evaluated \cup {i} /\ verdict'.ran = ran
        BY <1>1 DEF EvaluateCandidate
    <2>3. verdict'.passed = (Vetoing(selected, act, says) = {})
        BY <1>1 DEF EvaluateCandidate
    <2>4. verdict'.passed \in BOOLEAN
        BY <2>3
    <2>5. evaluated' \in SUBSET Quoted /\ verdict'.ran \in SUBSET Tools
        BY <2>1, <2>2 DEF VerdictTyped
    <2> QED
        BY <2>4, <2>5 DEF VerdictTyped
<1>2. CASE evaluated' = {} /\ verdict' = NoVerdict
    <2>1. evaluated' \in SUBSET Quoted /\ verdict'.ran \in SUBSET Tools
        BY <1>2 DEF NoVerdict
    <2>2. verdict'.passed \in BOOLEAN
        BY <1>2 DEF NoVerdict
    <2> QED
        BY <2>1, <2>2 DEF VerdictTyped
<1>3. CASE UNCHANGED <<evaluated, verdict>>
    BY <1>3 DEF VerdictTyped
<1> QED
    BY <1>1, <1>2, <1>3 DEF StackNext, Settle, RestartStack, SkipCycle, stackVars

\* The windows never outgrow rolling_window, and scores and closes stay in their buckets.
LEMMA StackTyped == StackSpec => []StackTypeOK
<1>1. WindowsKept /\ ScoresInv /\ ClosesTyped /\ VerdictTyped => StackTypeOK
    <2> SUFFICES ASSUME WindowsKept, ScoresInv, ClosesTyped, VerdictTyped PROVE StackTypeOK
        OBVIOUS
    <2>1. rolling \in [Tools -> Seq(BOOLEAN)] /\ logged \in [Tools -> Seq(BOOLEAN)]
          /\ \A t \in Tools : Len(rolling[t]) <= Window
        BY DEF WindowsKept, Windows
    <2>2. cycleIndex \in Cycles
        BY DEF ScoresInv, Cycles
    <2>3. verdict.passed \in BOOLEAN
        BY DEF VerdictTyped
    <2>4. scores \in [Cycles -> SUBSET Score] /\ evaluated \subseteq Quoted
          /\ verdict.ran \subseteq Tools
        BY DEF ScoresInv, VerdictTyped
    <2> QED
        BY <2>1, <2>2, <2>3, <2>4 DEF StackTypeOK, ClosesTyped
<1> QED
    BY <1>1, WindowsInit, WindowsNext, ScoresInit, ScoresNext, RestTyped, VerdictInit,
       VerdictNext, PTL DEF StackSpec

-----------------------------------------------------------------------------
(* The accounts of a day. *)

Won(rows, S) == {t \in S : rows[t].pnl > 0}
Lost(rows, S) == {t \in S : rows[t].pnl < 0}
Even(rows, S) == S \ (Won(rows, S) \cup Lost(rows, S))

\* The statistics of a set of trades, and of none.
Account(rows, S) ==
    [realized |-> SumOver([t \in S |-> rows[t].pnl], S),
     wins |-> Cardinality(Won(rows, S)), losses |-> Cardinality(Lost(rows, S)),
     even |-> Cardinality(Even(rows, S))]

AtMost(r, a) == r.wins <= a.wins /\ r.losses <= a.losses /\ r.even <= a.even

\* The recomputed day row is the account of the trades closed that day.
LEMMA AggregateIsAccount == \A d : Aggregate(d) = Account(closedRows, ClosedOn(d))
BY DEF Aggregate, Account, Won, Lost, Even

\* The account depends only on the trades it is taken over.
LEMMA AccountOfSame ==
    ASSUME NEW f, NEW g, NEW S, \A t \in S : f[t] = g[t]
    PROVE  Account(f, S) = Account(g, S)
<1>1. [t \in S |-> f[t].pnl] = [t \in S |-> g[t].pnl]
    OBVIOUS
<1>2. Won(f, S) = Won(g, S) /\ Lost(f, S) = Lost(g, S)
    BY DEF Won, Lost
<1> QED
    BY <1>1, <1>2 DEF Account, Even

\* A day without a closed trade has an empty account.
LEMMA AccountOfNone ==
    \A f : /\ Account(f, {}).realized = 0 /\ Account(f, {}).wins = 0
           /\ Account(f, {}).losses = 0 /\ Account(f, {}).even = 0
<1> SUFFICES ASSUME NEW f
             PROVE  /\ Account(f, {}).realized = 0 /\ Account(f, {}).wins = 0
                    /\ Account(f, {}).losses = 0 /\ Account(f, {}).even = 0
    OBVIOUS
<1>1. Won(f, {}) = {} /\ Lost(f, {}) = {} /\ Even(f, {}) = {}
    BY DEF Won, Lost, Even
<1>2. Cardinality({}) = 0
    BY FS_EmptySet
<1>3. SumOver([t \in {} |-> f[t].pnl], {}) = 0
    BY SumEmpty
<1> QED
    BY <1>1, <1>2, <1>3 DEF Account

LEMMA AccountType ==
    ASSUME NEW S, IsFiniteSet(S), NEW f, \A t \in S : f[t].pnl \in Int
    PROVE  /\ Account(f, S).realized \in Int /\ Account(f, S).wins \in Nat
           /\ Account(f, S).losses \in Nat /\ Account(f, S).even \in Nat
<1>1. IsFiniteSet(Won(f, S)) /\ IsFiniteSet(Lost(f, S)) /\ IsFiniteSet(Even(f, S))
    BY FS_Subset DEF Won, Lost, Even
<1> DEFINE g == [t \in S |-> f[t].pnl]
<1>2. \A t \in S : g[t] \in Int
    OBVIOUS
<1> HIDE DEF g
<1>3. SumOver(g, S) \in Int
    BY <1>2, SumIsInt
<1> QED
    BY <1>1, <1>3, FS_CardinalityType DEF Account, g

\* A part of the trades has no more wins, losses and ties than all of them.
LEMMA AccountOfPart ==
    ASSUME NEW T, IsFiniteSet(T), NEW S \in SUBSET T, NEW f, NEW g, \A t \in S : f[t] = g[t]
    PROVE  /\ Account(f, S).wins <= Account(g, T).wins
           /\ Account(f, S).losses <= Account(g, T).losses
           /\ Account(f, S).even <= Account(g, T).even
<1>1. IsFiniteSet(Won(g, T)) /\ IsFiniteSet(Lost(g, T)) /\ IsFiniteSet(Even(g, T))
    BY FS_Subset DEF Won, Lost, Even
<1>2. Won(f, S) \in SUBSET Won(g, T)
    BY DEF Won
<1>3. Lost(f, S) \in SUBSET Lost(g, T)
    BY DEF Lost
<1>4. Even(f, S) \in SUBSET Even(g, T)
    BY DEF Even, Won, Lost
<1> QED
    BY <1>1, <1>2, <1>3, <1>4, FS_Subset DEF Account

\* One trade more is counted like record_close counts it.
GrownBy(a, b, pnl) ==
    /\ b.realized = a.realized + pnl
    /\ b.wins = IF pnl > 0 THEN a.wins + 1 ELSE a.wins
    /\ b.losses = IF pnl < 0 THEN a.losses + 1 ELSE a.losses
    /\ b.even = IF pnl = 0 THEN a.even + 1 ELSE a.even

\* One more trade in the set raises exactly the totals the incremental update raises.
LEMMA AccountGrows ==
    ASSUME NEW S, IsFiniteSet(S), NEW f, \A s \in S : f[s].pnl \in Int,
           NEW t, t \notin S, NEW g, \A s \in S : g[s] = f[s], g[t].pnl \in Int
    PROVE  GrownBy(Account(f, S), Account(g, S \cup {t}), g[t].pnl)
<1> DEFINE T == S \cup {t}
           p == g[t].pnl
<1>1. IsFiniteSet(Won(f, S)) /\ IsFiniteSet(Lost(f, S)) /\ IsFiniteSet(Even(f, S))
    BY FS_Subset DEF Won, Lost, Even
<1>2. t \notin Won(f, S) /\ t \notin Lost(f, S) /\ t \notin Even(f, S)
    BY DEF Won, Lost, Even
<1>3. Won(g, T) = IF p > 0 THEN Won(f, S) \cup {t} ELSE Won(f, S)
    BY DEF Won
<1>4. Lost(g, T) = IF p < 0 THEN Lost(f, S) \cup {t} ELSE Lost(f, S)
    BY DEF Lost
<1>5. Even(g, T) = IF p = 0 THEN Even(f, S) \cup {t} ELSE Even(f, S)
    BY DEF Even, Won, Lost
<1>6. /\ Cardinality(Won(g, T)) =
            IF p > 0 THEN Cardinality(Won(f, S)) + 1 ELSE Cardinality(Won(f, S))
      /\ Cardinality(Lost(g, T)) =
            IF p < 0 THEN Cardinality(Lost(f, S)) + 1 ELSE Cardinality(Lost(f, S))
      /\ Cardinality(Even(g, T)) =
            IF p = 0 THEN Cardinality(Even(f, S)) + 1 ELSE Cardinality(Even(f, S))
    <2> HIDE DEF T, p
    <2>2. Cardinality(Won(g, T)) =
            IF p > 0 THEN Cardinality(Won(f, S)) + 1 ELSE Cardinality(Won(f, S))
        <3>1. CASE p > 0
            <4>1. Won(g, T) = Won(f, S) \cup {t}
                BY <1>3, <3>1
            <4>2. Cardinality(Won(g, T)) = Cardinality(Won(f, S)) + 1
                BY <1>1, <1>2, <4>1, OneMore
            <4> QED
                BY <3>1, <4>2
        <3>2. CASE ~(p > 0)
            <4>1. Won(g, T) = Won(f, S)
                BY <1>3, <3>2
            <4> QED
                BY <3>2, <4>1
        <3> QED
            BY <3>1, <3>2
    <2>3. Cardinality(Lost(g, T)) =
            IF p < 0 THEN Cardinality(Lost(f, S)) + 1 ELSE Cardinality(Lost(f, S))
        <3>1. CASE p < 0
            <4>1. Lost(g, T) = Lost(f, S) \cup {t}
                BY <1>4, <3>1
            <4>2. Cardinality(Lost(g, T)) = Cardinality(Lost(f, S)) + 1
                BY <1>1, <1>2, <4>1, OneMore
            <4> QED
                BY <3>1, <4>2
        <3>2. CASE ~(p < 0)
            <4>1. Lost(g, T) = Lost(f, S)
                BY <1>4, <3>2
            <4> QED
                BY <3>2, <4>1
        <3> QED
            BY <3>1, <3>2
    <2>4. Cardinality(Even(g, T)) =
            IF p = 0 THEN Cardinality(Even(f, S)) + 1 ELSE Cardinality(Even(f, S))
        <3>1. CASE p = 0
            <4>1. Even(g, T) = Even(f, S) \cup {t}
                BY <1>5, <3>1
            <4>2. Cardinality(Even(g, T)) = Cardinality(Even(f, S)) + 1
                BY <1>1, <1>2, <4>1, OneMore
            <4> QED
                BY <3>1, <4>2
        <3>2. CASE ~(p = 0)
            <4>1. Even(g, T) = Even(f, S)
                BY <1>5, <3>2
            <4> QED
                BY <3>2, <4>1
        <3> QED
            BY <3>1, <3>2
    <2> QED
        BY <2>2, <2>3, <2>4
<1> DEFINE a == [s \in S |-> f[s].pnl]
           b == [s \in T |-> g[s].pnl]
<1>7. /\ \A s \in S : a[s] \in Int /\ b[s] = a[s]
      /\ b[t] = p /\ \A s \in S \cup {t} : b[s] \in Int
    OBVIOUS
<1>8. SumOver(b, S \cup {t}) = SumOver(a, S) + p
    <2> HIDE DEF a, b, T, p
    <2>1. SumOver(b, S \cup {t}) = SumOver(b, S) + b[t]
        <3>1. \A s \in S \cup {t} : b[s] \in Int
            BY <1>7
        <3> QED
            BY <3>1, SumAdd, Zenon
    <2>2. SumOver(b, S) = SumOver(a, S)
        BY <1>7, SumCongruent
    <2> QED
        BY <1>7, <2>1, <2>2
<1> QED
    BY <1>6, <1>8 DEF Account, GrownBy

-----------------------------------------------------------------------------
(* The types of the ledger. *)

\* What record_close keeps of a trade and counts in the row of the day.
LEMMA MarkIsBookable ==
    ASSUME LedgerTypeOK, NEW t \in Opened(open)
    PROVE  /\ t \in Trades /\ Pnl(t) \in Pnls \cup {0} /\ Pnl(t) \in Int
           /\ [pnl |-> Pnl(t), day |-> day] \in ClosedTrade
           /\ [pnl |-> Pnl(t), day |-> day] # NoTrade
           /\ Booked(t) \in [Trades -> ClosedTrade \cup {NoTrade}]
<1>1. t \in Trades /\ open[t] # NoTrade /\ open[t] \in Pnls \cup {NoTrade, Unmarked}
    BY DEF Opened, LedgerTypeOK, OpenMap
<1>2. Pnl(t) \in Pnls \cup {0}
    <2>1. CASE open[t] = Unmarked
        BY <2>1 DEF Pnl
    <2>2. CASE open[t] # Unmarked
        <3>1. open[t] \in Pnls
            BY <1>1, <2>2
        <3>2. Pnl(t) = open[t]
            BY <2>2 DEF Pnl
        <3> QED
            BY <3>1, <3>2
    <2> QED
        BY <2>1, <2>2
<1>3. Pnl(t) \in Int
    <2>1. \A p \in Pnls : p \in Int
        BY LedgerAssumption
    <2>2. CASE Pnl(t) = 0
        BY <2>2
    <2>3. CASE Pnl(t) \in Pnls
        BY <2>1, <2>3
    <2> QED
        BY <1>2, <2>2, <2>3
<1>4. [pnl |-> Pnl(t), day |-> day] \in ClosedTrade
    BY <1>2 DEF ClosedTrade, LedgerTypeOK
<1>5. [pnl |-> Pnl(t), day |-> day] # NoTrade
    BY <1>4, LedgerAssumption DEF ClosedTrade, Days
<1>6. Booked(t) \in [Trades -> ClosedTrade \cup {NoTrade}]
    BY <1>1, <1>4 DEF Booked, LedgerTypeOK
<1> QED
    BY <1>1, <1>2, <1>3, <1>4, <1>5, <1>6

LEMMA RowTodayType == LedgerTypeOK => RowToday \in DayRow /\ RowToday.day = day
BY DEF LedgerTypeOK, RowToday, Fresh, DayRow, Days

LEMMA CountedType ==
    ASSUME NEW r \in DayRow, NEW pnl \in Int
    PROVE  /\ Counted(r, pnl) \in DayRow /\ Counted(r, pnl).day = r.day
           /\ Counted(r, pnl).realized = r.realized + pnl
           /\ Counted(r, pnl).wins = (IF pnl > 0 THEN r.wins + 1 ELSE r.wins)
           /\ Counted(r, pnl).losses = (IF pnl < 0 THEN r.losses + 1 ELSE r.losses)
           /\ Counted(r, pnl).even = (IF pnl = 0 THEN r.even + 1 ELSE r.even)
<1> DEFINE s == Counted(r, pnl)
<1>1. s = [r EXCEPT !.realized = r.realized + pnl,
                    !.wins = IF pnl > 0 THEN r.wins + 1 ELSE r.wins,
                    !.losses = IF pnl < 0 THEN r.losses + 1 ELSE r.losses,
                    !.even = IF pnl = 0 THEN r.even + 1 ELSE r.even]
    BY DEF Counted
<1>2. /\ r.day \in 0..MaxDay /\ r.realized + pnl \in Int
      /\ (IF pnl > 0 THEN r.wins + 1 ELSE r.wins) \in Nat
      /\ (IF pnl < 0 THEN r.losses + 1 ELSE r.losses) \in Nat
      /\ (IF pnl = 0 THEN r.even + 1 ELSE r.even) \in Nat
    BY DEF DayRow
<1>3. /\ s \in DayRow /\ s.day = r.day
      /\ s.realized = r.realized + pnl
      /\ s.wins = (IF pnl > 0 THEN r.wins + 1 ELSE r.wins)
      /\ s.losses = (IF pnl < 0 THEN r.losses + 1 ELSE r.losses)
      /\ s.even = (IF pnl = 0 THEN r.even + 1 ELSE r.even)
    <2> DEFINE a == r.realized + pnl
               b == IF pnl > 0 THEN r.wins + 1 ELSE r.wins
               c == IF pnl < 0 THEN r.losses + 1 ELSE r.losses
               e == IF pnl = 0 THEN r.even + 1 ELSE r.even
    <2>1. a \in Int /\ b \in Nat /\ c \in Nat /\ e \in Nat
        BY <1>2
    <2>2. s = [r EXCEPT !.realized = a, !.wins = b, !.losses = c, !.even = e]
        BY <1>1
    <2> HIDE DEF a, b, c, e, s
    <2>3. /\ s \in DayRow /\ s.day = r.day
          /\ s.realized = a /\ s.wins = b /\ s.losses = c /\ s.even = e
        BY <2>1, <2>2 DEF DayRow
    <2> QED
        BY <2>3 DEF a, b, c, e
<1> QED
    BY <1>3

LEMMA LedgerTypeInit == LedgerInit => LedgerTypeOK
<1> SUFFICES ASSUME LedgerInit PROVE LedgerTypeOK
    OBVIOUS
<1>1. Fresh(0) \in DayRow /\ Fresh(0).day = 0
    BY LedgerAssumption DEF Fresh, DayRow
<1>2. day \in Days /\ 0 <= day /\ faults \in 0..MaxFaults
    BY LedgerAssumption DEF LedgerInit, Days
<1>3. open \in OpenMap /\ openRows \in OpenMap
    BY DEF LedgerInit, OpenMap
<1>4. closedRows \in [Trades -> ClosedTrade \cup {NoTrade}] /\ dayRows \in [Days -> DayRow]
    BY <1>1 DEF LedgerInit
<1>5. dirty \in BOOLEAN /\ adopted \subseteq Trades /\ broken \subseteq Days /\ failed \subseteq Days
    BY DEF LedgerInit
<1>6. row \in DayRow /\ row.day <= day
    BY <1>1, <1>2 DEF LedgerInit
<1> QED
    BY <1>2, <1>3, <1>4, <1>5, <1>6 DEF LedgerTypeOK

\* What every write of the rows keeps.
LEMMA RolloverType ==
    ASSUME LedgerTypeOK, NEW works \in BOOLEAN, NEW days \in SUBSET Days,
           Rollover(works, days)
    PROVE  dayRows' \in [Days -> DayRow] /\ failed' \in SUBSET Days
<1>1. MustRoll => row.day \in Days
    BY DEF MustRoll, LedgerTypeOK, DayRow, Days
<1>2. dayRows' \in [Days -> DayRow]
    BY <1>1 DEF Rollover, LedgerTypeOK
<1>3. failed' \in SUBSET Days
    BY <1>1 DEF Rollover, LedgerTypeOK
<1> QED
    BY <1>2, <1>3

LEMMA FaultType ==
    ASSUME LedgerTypeOK, NEW bad \in BOOLEAN, Fault(bad)
    PROVE  faults' \in 0..MaxFaults
BY LedgerAssumption DEF LedgerTypeOK, Fault

\* A table a rewrite was cut short on has rows of the old one or of the map.
LEMMA CutShortRows ==
    ASSUME LedgerTypeOK, NEW map \in OpenMap, NEW table \in CutShort(map)
    PROVE  /\ table \in OpenMap
           /\ \A u \in Trades : table[u] \in {openRows[u], map[u], NoTrade}
<1>1. CASE table = openRows
    BY <1>1 DEF LedgerTypeOK
<1>2. CASE table # openRows
    <2>1. PICK kept \in SUBSET Opened(map) :
              table = [t \in Trades |-> IF t \in kept THEN map[t] ELSE NoTrade]
        BY <1>2 DEF CutShort
    <2> QED
        BY <2>1 DEF OpenMap
<1> QED
    BY <1>1, <1>2

\* The saved table has rows of the old one or of the map, the map's if it was saved.
LEMMA SaveOpenRows ==
    ASSUME LedgerTypeOK, open' \in OpenMap, NEW saved \in BOOLEAN, SaveOpen(saved)
    PROVE  /\ openRows' \in OpenMap
           /\ \A u \in Trades : openRows'[u] \in {openRows[u], open'[u], NoTrade}
           /\ saved => openRows' = open'
<1>1. CASE saved
    BY <1>1 DEF SaveOpen
<1>2. CASE ~saved
    BY <1>2, CutShortRows DEF SaveOpen
<1> QED
    BY <1>1, <1>2

LEMMA LedgerTypeNext == LedgerTypeOK /\ [LedgerNext]_ledgerVars => LedgerTypeOK'
<1> SUFFICES ASSUME LedgerTypeOK, [LedgerNext]_ledgerVars PROVE LedgerTypeOK'
    OBVIOUS
<1>r. /\ row \in DayRow /\ day \in Days /\ {day} \in SUBSET Days /\ {} \in SUBSET Days
      /\ RowToday \in DayRow /\ RowToday.day = day
      /\ BrokenByRestart \in SUBSET Days
      /\ Fresh(0) \in DayRow /\ Fresh(0).day = 0 /\ 0 <= day
    <2>1. Fresh(0) \in DayRow /\ Fresh(0).day = 0
        BY LedgerAssumption DEF Fresh, DayRow
    <2>2. BrokenByRestart \in SUBSET Days
        BY DEF BrokenByRestart
    <2>3. 0 <= day
        BY DEF LedgerTypeOK, Days
    <2> QED
        BY <2>1, <2>2, <2>3, RowTodayType DEF LedgerTypeOK
<1>1. ASSUME NEW t \in Trades, RecordOpen(t) PROVE LedgerTypeOK'
    <2>1. PICK works \in BOOLEAN, saved \in BOOLEAN :
            Rollover(works, {}) /\ SaveOpen(saved) /\ Fault(~(works /\ saved))
        BY <1>1 DEF RecordOpen
    <2>2. /\ adopted' = adopted \cup {t} /\ open' = [open EXCEPT ![t] = Unmarked]
          /\ row' = RowToday /\ dirty' = TRUE /\ UNCHANGED <<day, closedRows, broken>>
        BY <1>1 DEF RecordOpen
    <2>3. open' \in OpenMap
        BY <2>2 DEF LedgerTypeOK, OpenMap
    <2>4. openRows' \in OpenMap
        BY <2>1, <2>3, SaveOpenRows
    <2>5. dayRows' \in [Days -> DayRow] /\ failed' \in SUBSET Days
        BY <1>r, <2>1, RolloverType
    <2>6. faults' \in 0..MaxFaults
        BY <2>1, FaultType
    <2>7. dirty' \in BOOLEAN
        BY <2>2
    <2>8. /\ row' \in DayRow /\ row'.day <= day' /\ day' \in Days
          /\ adopted' \in SUBSET Trades /\ broken' \in SUBSET Days
          /\ closedRows' \in [Trades -> ClosedTrade \cup {NoTrade}]
        BY <1>r, <2>2 DEF LedgerTypeOK, Days
    <2> QED
        BY <2>3, <2>4, <2>5, <2>6, <2>7, <2>8 DEF LedgerTypeOK
<1>2. ASSUME NEW t \in Trades, NEW appended \in BOOLEAN, NEW saved \in BOOLEAN,
             RecordClose(t, appended, saved)
      PROVE  LedgerTypeOK'
    <2>1. PICK works \in BOOLEAN :
            /\ Rollover(works, IF appended /\ saved THEN {} ELSE {day})
            /\ Fault(~(works /\ appended /\ saved))
        BY <1>2 DEF RecordClose
    <2>2. /\ t \in Opened(open) /\ open' = [open EXCEPT ![t] = NoTrade]
          /\ closedRows' = (IF appended THEN Booked(t) ELSE closedRows)
          /\ SaveOpen(saved)
          /\ row' = Counted(RowToday, Pnl(t)) /\ dirty' = TRUE
          /\ UNCHANGED <<day, adopted, broken>>
        BY <1>2 DEF RecordClose
    <2>3. open' \in OpenMap
        BY <2>2 DEF LedgerTypeOK, OpenMap
    <2>4. openRows' \in OpenMap
        BY <2>2, <2>3, SaveOpenRows
    <2>5. dayRows' \in [Days -> DayRow] /\ failed' \in SUBSET Days
        BY <1>r, <2>1, RolloverType
    <2>6. faults' \in 0..MaxFaults
        BY <2>1, FaultType
    <2>7. Pnl(t) \in Int /\ Booked(t) \in [Trades -> ClosedTrade \cup {NoTrade}]
        BY <2>2, MarkIsBookable
    <2>8. row' \in DayRow /\ row'.day = day
        BY <1>r, <2>2, <2>7, CountedType
    <2>9. closedRows' \in [Trades -> ClosedTrade \cup {NoTrade}]
        BY <2>2, <2>7 DEF LedgerTypeOK
    <2>10. dirty' \in BOOLEAN
        BY <2>2
    <2>11. /\ row'.day <= day' /\ day' \in Days
           /\ adopted' \in SUBSET Trades /\ broken' \in SUBSET Days
        BY <1>r, <2>2, <2>8 DEF LedgerTypeOK, Days
    <2> QED
        BY <2>3, <2>4, <2>5, <2>6, <2>8, <2>9, <2>10, <2>11 DEF LedgerTypeOK
<1>3. ASSUME NEW t \in Trades, CrashInClose(t)
      PROVE  LedgerTypeOK'
    <2> DEFINE rest == [open EXCEPT ![t] = NoTrade]
    <2>1. /\ t \in Opened(open) /\ closedRows' = Booked(t)
          /\ openRows' \in {rest} \cup CutShort(rest)
          /\ broken' = broken \cup BrokenByRestart \cup {day}
          /\ open' = openRows' /\ row' = Fresh(0) /\ dirty' = FALSE /\ Fault(TRUE)
          /\ UNCHANGED <<day, adopted, dayRows, failed>>
        BY <1>3 DEF CrashInClose, Restarted
    <2>5. rest \in OpenMap
        BY DEF LedgerTypeOK, OpenMap
    <2>2. openRows' \in OpenMap
        BY <2>1, <2>5, CutShortRows
    <2>3. closedRows' \in [Trades -> ClosedTrade \cup {NoTrade}]
        BY <2>1, MarkIsBookable
    <2>4. faults' \in 0..MaxFaults
        BY <2>1, FaultType
    <2> QED
        BY <1>r, <2>1, <2>2, <2>3, <2>4 DEF LedgerTypeOK
<1>4. CASE Observe
    <2>1. PICK works \in BOOLEAN, saved \in BOOLEAN :
            Rollover(works, {}) /\ SaveOpen(saved) /\ Fault(~(works /\ saved))
        BY <1>4 DEF Observe
    <2>3. open' \in OpenMap
        BY <1>4 DEF Observe, Marked
    <2>4. /\ row' = RowToday /\ dirty' = TRUE /\ UNCHANGED <<day, adopted, closedRows, broken>>
        BY <1>4 DEF Observe
    <2>5. openRows' \in OpenMap
        BY <2>1, <2>3, SaveOpenRows
    <2>6. dayRows' \in [Days -> DayRow] /\ failed' \in SUBSET Days
        BY <1>r, <2>1, RolloverType
    <2>7. faults' \in 0..MaxFaults
        BY <2>1, FaultType
    <2>8. dirty' \in BOOLEAN
        BY <2>4
    <2>9. /\ row' \in DayRow /\ row'.day <= day' /\ day' \in Days
          /\ adopted' \in SUBSET Trades /\ broken' \in SUBSET Days
          /\ closedRows' \in [Trades -> ClosedTrade \cup {NoTrade}]
        BY <1>r, <2>4 DEF LedgerTypeOK, Days
    <2> QED
        BY <2>3, <2>5, <2>6, <2>7, <2>8, <2>9 DEF LedgerTypeOK
<1>5. CASE ReadStats
    <2>1. row.day \in Days
        BY <1>5 DEF ReadStats, LedgerTypeOK, DayRow, Days
    <2>2. faults' \in 0..MaxFaults
        <3>1. Fault(FALSE) \/ Fault(TRUE)
            BY <1>5 DEF ReadStats
        <3> QED
            BY <3>1, FaultType
    <2>3. dayRows' \in [Days -> DayRow] /\ failed' \in SUBSET Days
        BY <1>5, <2>1 DEF ReadStats, LedgerTypeOK
    <2>4. dirty' = FALSE /\ UNCHANGED <<day, adopted, open, openRows, closedRows, row, broken>>
        BY <1>5 DEF ReadStats
    <2> QED
        BY <2>2, <2>3, <2>4 DEF LedgerTypeOK
<1>6. CASE LedgerRestart
    <2>1. /\ broken' = broken \cup BrokenByRestart
          /\ open' = openRows' /\ row' = Fresh(0) /\ dirty' = FALSE /\ Fault(TRUE)
          /\ UNCHANGED <<openRows, closedRows, day, adopted, dayRows, failed>>
        BY <1>6 DEF LedgerRestart, Restarted
    <2>2. faults' \in 0..MaxFaults
        BY <2>1, FaultType
    <2> QED
        BY <1>r, <2>1, <2>2 DEF LedgerTypeOK
<1>7. CASE Midnight
    <2>1. /\ day' \in Days /\ day <= day'
        BY <1>7, LedgerAssumption DEF Midnight, LedgerTypeOK, Days
    <2>2. row.day \in Int /\ row.day <= day /\ day \in Int /\ day' \in Int
        BY <2>1 DEF LedgerTypeOK, DayRow, Days
    <2>3. row.day <= day'
        BY <2>1, <2>2
    <2>4. UNCHANGED <<adopted, open, openRows, closedRows, row, dirty, dayRows, broken,
                      failed, faults>>
        BY <1>7 DEF Midnight
    <2> QED
        BY <2>1, <2>3, <2>4 DEF LedgerTypeOK
<1>8. CASE UNCHANGED ledgerVars
    BY <1>8 DEF ledgerVars, LedgerTypeOK
<1>9. CASE CrashInObserve
    <2>1. /\ broken' = broken \cup BrokenByRestart
          /\ open' = openRows' /\ row' = Fresh(0) /\ dirty' = FALSE /\ Fault(TRUE)
          /\ UNCHANGED <<closedRows, day, adopted, dayRows, failed>>
        BY <1>9 DEF CrashInObserve, Restarted
    <2>2. openRows' \in OpenMap
        BY <1>9, CutShortRows DEF CrashInObserve, Marked
    <2>3. faults' \in 0..MaxFaults
        BY <2>1, FaultType
    <2> QED
        BY <1>r, <2>1, <2>2, <2>3 DEF LedgerTypeOK
<1> QED
    BY <1>1, <1>2, <1>3, <1>4, <1>5, <1>6, <1>7, <1>8, <1>9 DEF LedgerNext

LEMMA LedgerTyped == LedgerSpec => []LedgerTypeOK
BY LedgerTypeInit, LedgerTypeNext, PTL DEF LedgerSpec

-----------------------------------------------------------------------------
(* The two accounts. *)

\* Trades that no restart can bring back, and those of a day.
Gone == {t \in Trades : open[t] = NoTrade /\ openRows[t] = NoTrade}
SettledOn(d) == ClosedOn(d) \cap Gone

\* An id is adopted once.
AdoptedOnce == \A t \in Trades : t \notin adopted => t \in Gone /\ closedRows[t] = NoTrade

\* A closed trade that may be opened again was closed on a day that a restart broke or on
\* which a write was refused: of every other day the ledger keeps what it has.
ReopenedIsExcused ==
    \A t \in Trades \ Gone : closedRows[t] # NoTrade => closedRows[t].day \in broken \cup failed

\* The rows of a day count no more than its settled trades.
RowsAreSettled ==
    \A d \in Days \ failed :
        /\ AtMost(dayRows[d], Account(closedRows, SettledOn(d)))
        /\ row.day = d => AtMost(row, Account(closedRows, SettledOn(d)))

\* On a whole day they count all that the ledger holds, in memory while the row is dirty
\* and in the table afterwards. Without a row nothing was closed on it.
WholeDays ==
    \A d \in Days \ (failed \cup broken) :
        /\ d # row.day \/ ~dirty => Totals(dayRows[d]) = Aggregate(d)
        /\ d = row.day => Totals(row) = Aggregate(d)
        /\ d >= day /\ d # row.day => ClosedOn(d) = {}

LedgerInv == AdoptedOnce /\ ReopenedIsExcused /\ RowsAreSettled /\ WholeDays

\* The sets of trades are finite and what was closed has a result.
ClosedResults ==
    \A d : /\ IsFiniteSet(ClosedOn(d)) /\ IsFiniteSet(SettledOn(d))
           /\ \A t \in ClosedOn(d) : closedRows[t].pnl \in Int

\* Every closed trade has a result to sum.
LEMMA ClosedHaveResults == LedgerTypeOK => ClosedResults
<1> SUFFICES ASSUME LedgerTypeOK, NEW d
             PROVE  /\ IsFiniteSet(ClosedOn(d)) /\ IsFiniteSet(SettledOn(d))
                    /\ \A t \in ClosedOn(d) : closedRows[t].pnl \in Int
    BY DEF ClosedResults
<1>1. ClosedOn(d) \in SUBSET Trades /\ SettledOn(d) \in SUBSET Trades
    BY DEF ClosedOn, SettledOn
<1>2. IsFiniteSet(Trades)
    BY LedgerAssumption
<1>3. IsFiniteSet(ClosedOn(d)) /\ IsFiniteSet(SettledOn(d))
    BY <1>1, <1>2, FS_Subset
<1>4. ASSUME NEW t \in ClosedOn(d) PROVE closedRows[t].pnl \in Int
    <2>1. closedRows[t] \in ClosedTrade
        BY <1>1, <1>4 DEF ClosedOn, LedgerTypeOK
    <2>2. closedRows[t].pnl \in Pnls \cup {0}
        BY <2>1 DEF ClosedTrade
    <2>3. \A p \in Pnls : p \in Int
        BY LedgerAssumption
    <2>4. CASE closedRows[t].pnl = 0
        BY <2>4
    <2> QED
        BY <2>2, <2>3, <2>4
<1> QED
    BY <1>3, <1>4

LEMMA ClosedHaveResultsNext == (LedgerTypeOK => ClosedResults)'
BY ClosedHaveResults, PTL

LEMMA LedgerInvInit == LedgerInit => LedgerInv
<1> SUFFICES ASSUME LedgerInit PROVE LedgerInv
    OBVIOUS
<1>1. \A d : ClosedOn(d) = {} /\ SettledOn(d) = {}
    BY DEF LedgerInit, ClosedOn, SettledOn
<1>2. \A t \in Trades : t \in Gone /\ closedRows[t] = NoTrade
    BY DEF LedgerInit, Gone
<1>3. row = Fresh(0) /\ \A d \in Days : dayRows[d] = Fresh(0)
    BY DEF LedgerInit
<1>4. AtMost(Fresh(0), Account(closedRows, {}))
    BY AccountOfNone DEF AtMost, Fresh
<1>5. ASSUME NEW d PROVE Totals(Fresh(0)) = Aggregate(d)
    <2>1. Aggregate(d) = Account(closedRows, {})
        BY <1>1, AggregateIsAccount
    <2> QED
        BY <2>1, AccountOfNone DEF Totals, Fresh, Account
<1>6. RowsAreSettled
    BY <1>1, <1>3, <1>4 DEF RowsAreSettled
<1>7. WholeDays
    BY <1>1, <1>3, <1>5 DEF WholeDays
<1> QED
    BY <1>2, <1>6, <1>7 DEF LedgerInv, AdoptedOnce, ReopenedIsExcused

\* A row that some trades cover is covered by more.
LEMMA CoveredByMore ==
    ASSUME NEW T, IsFiniteSet(T), NEW S \in SUBSET T, NEW f, NEW g,
           \A t \in S : f[t] = g[t], \A t \in T : g[t].pnl \in Int,
           NEW r \in DayRow, AtMost(r, Account(f, S))
    PROVE  AtMost(r, Account(g, T))
<1>1. IsFiniteSet(S) /\ \A t \in S : f[t].pnl \in Int
    BY FS_Subset
<1>2. /\ Account(f, S).wins <= Account(g, T).wins
      /\ Account(f, S).losses <= Account(g, T).losses
      /\ Account(f, S).even <= Account(g, T).even
    BY AccountOfPart
<1>3. /\ Account(f, S).wins \in Nat /\ Account(f, S).losses \in Nat /\ Account(f, S).even \in Nat
    BY <1>1, AccountType
<1>4. /\ Account(g, T).wins \in Nat /\ Account(g, T).losses \in Nat /\ Account(g, T).even \in Nat
    BY AccountType
<1>5. r.wins \in Nat /\ r.losses \in Nat /\ r.even \in Nat
    BY DEF DayRow
<1> QED
    BY <1>2, <1>3, <1>4, <1>5 DEF AtMost

\* Settled trades that stay as they are keep a row covered.
LEMMA StaysCovered ==
    ASSUME LedgerTypeOK', NEW d, NEW r \in DayRow,
           AtMost(r, Account(closedRows, SettledOn(d))),
           \A t \in SettledOn(d) : t \in SettledOn(d)' /\ closedRows'[t] = closedRows[t]
    PROVE  AtMost(r, Account(closedRows', SettledOn(d)'))
<1> DEFINE S == SettledOn(d)
           T == SettledOn(d)'
           f == closedRows
           g == closedRows'
<1>1. IsFiniteSet(T) /\ \A t \in T : g[t].pnl \in Int
    BY ClosedHaveResultsNext DEF ClosedResults, SettledOn
<1>2. S \in SUBSET T /\ \A t \in S : f[t] = g[t]
    OBVIOUS
<1>3. AtMost(r, Account(f, S))
    OBVIOUS
<1> HIDE DEF S, T, f, g
<1>4. AtMost(r, Account(g, T))
    BY <1>1, <1>2, <1>3, CoveredByMore
<1> QED
    BY <1>4 DEF T, g

\* A step that leaves the trades of a day alone leaves what the day should read alone.
LEMMA AggregateStays ==
    ASSUME NEW d, ClosedOn(d)' = ClosedOn(d),
           \A t \in ClosedOn(d) : closedRows'[t] = closedRows[t]
    PROVE  Aggregate(d)' = Aggregate(d)
<1>1. Aggregate(d) = Account(closedRows, ClosedOn(d))
    BY AggregateIsAccount
<1>2. Aggregate(d)' = Account(closedRows', ClosedOn(d)')
    BY DEF Aggregate, Account, Won, Lost, Even
<1>3. Account(closedRows, ClosedOn(d)) = Account(closedRows', ClosedOn(d))
    BY AccountOfSame
<1> QED
    BY <1>1, <1>2, <1>3

\* The row an event counts in, and the rows after the roll, tell of the days before it.
LEMMA RolledRows ==
    ASSUME LedgerTypeOK, RowsAreSettled, WholeDays, NEW works \in BOOLEAN,
           NEW days \in SUBSET Days, Rollover(works, days), NEW d \in Days \ failed'
    PROVE  /\ d \notin failed /\ dayRows'[d] \in DayRow
           /\ AtMost(dayRows'[d], Account(closedRows, SettledOn(d)))
           /\ d = day => AtMost(RowToday, Account(closedRows, SettledOn(d)))
           /\ d \notin broken => /\ d # day => Totals(dayRows'[d]) = Aggregate(d)
                                 /\ d = day => Totals(RowToday) = Aggregate(d)
                                 /\ d > day => ClosedOn(d) = {}
<1>0. /\ day \in Days /\ row \in DayRow /\ row.day \in 0..MaxDay /\ row.day <= day
      /\ dayRows \in [Days -> DayRow]
    BY DEF LedgerTypeOK, DayRow
<1>1. d \notin failed /\ (MustRoll /\ ~works => d # row.day)
    BY DEF Rollover
<1>2. MustRoll => row.day \in Days /\ row.day # day /\ dirty
    BY <1>0 DEF MustRoll, Days
<1>3. \/ dayRows'[d] = dayRows[d] /\ (d # row.day \/ d = day \/ ~dirty)
      \/ dayRows'[d] = row /\ d = row.day
    <2>1. CASE MustRoll /\ works /\ d = row.day
        <3>1. dayRows' = [dayRows EXCEPT ![row.day] = row]
            BY <2>1 DEF Rollover
        <3> QED
            BY <1>0, <2>1, <3>1
    <2>2. CASE MustRoll /\ works /\ d # row.day
        <3>1. dayRows' = [dayRows EXCEPT ![row.day] = row]
            BY <2>2 DEF Rollover
        <3> QED
            BY <1>0, <2>2, <3>1
    <2>3. CASE ~(MustRoll /\ works)
        <3>1. dayRows' = dayRows
            BY <2>3 DEF Rollover
        <3>2. d # row.day \/ d = day \/ ~dirty
            <4>1. MustRoll \/ ~dirty \/ row.day = 0 \/ row.day = day
                BY DEF MustRoll
            <4>2. d # 0
                BY DEF Days
            <4> QED
                BY <1>1, <2>3, <4>1, <4>2
        <3> QED
            BY <3>1, <3>2
    <2> QED
        BY <2>1, <2>2, <2>3
<1>4. dayRows'[d] \in DayRow
    BY <1>0, <1>3
<1>5. AtMost(dayRows'[d], Account(closedRows, SettledOn(d)))
    BY <1>1, <1>3 DEF RowsAreSettled
<1>6. ASSUME d = day PROVE AtMost(RowToday, Account(closedRows, SettledOn(d)))
    <2>1. CASE row.day = day
        BY <1>1, <1>6, <2>1 DEF RowToday, RowsAreSettled
    <2>2. CASE row.day # day
        <3>1. RowToday = Fresh(day)
            BY <2>2 DEF RowToday
        <3> DEFINE a == Account(closedRows, SettledOn(d))
        <3>2. a.wins \in Nat /\ a.losses \in Nat /\ a.even \in Nat
            <4>1. IsFiniteSet(SettledOn(d)) /\ \A t \in SettledOn(d) : closedRows[t].pnl \in Int
                BY ClosedHaveResults DEF ClosedResults, SettledOn
            <4> QED
                BY <4>1, AccountType
        <3> HIDE DEF a
        <3>3. AtMost(Fresh(day), a)
            BY <3>2 DEF AtMost, Fresh
        <3> QED
            BY <3>1, <3>3 DEF a
    <2> QED
        BY <2>1, <2>2
<1>7. ASSUME d \notin broken, d # day PROVE Totals(dayRows'[d]) = Aggregate(d)
    BY <1>1, <1>3, <1>7 DEF WholeDays
<1>8. ASSUME d \notin broken, d = day PROVE Totals(RowToday) = Aggregate(d)
    <2>1. CASE row.day = day
        BY <1>1, <1>8, <2>1 DEF RowToday, WholeDays
    <2>2. CASE row.day # day
        <3>1. RowToday = Fresh(day)
            BY <2>2 DEF RowToday
        <3>2. ClosedOn(d) = {}
            BY <1>0, <1>1, <1>8, <2>2 DEF WholeDays, Days
        <3>3. Aggregate(d) = Account(closedRows, {})
            BY <3>2, AggregateIsAccount
        <3> QED
            BY <3>1, <3>3, AccountOfNone DEF Totals, Fresh, Account
    <2> QED
        BY <2>1, <2>2
<1>9. ASSUME d \notin broken, d > day PROVE ClosedOn(d) = {}
    <2>1. d >= day /\ d # row.day
        BY <1>0, <1>9 DEF Days
    <2> QED
        BY <1>1, <1>9, <2>1 DEF WholeDays
<1> QED
    BY <1>1, <1>4, <1>5, <1>6, <1>7, <1>8, <1>9

\* An event that books nothing.
LEMMA UncountedEvent ==
    ASSUME LedgerTypeOK, LedgerTypeOK', LedgerInv, NEW works \in BOOLEAN, Rollover(works, {}),
           row' = RowToday, dirty' = TRUE, UNCHANGED <<day, closedRows, broken>>,
           \A t \in Gone : closedRows[t] # NoTrade => t \in Gone'
    PROVE  ReopenedIsExcused' /\ RowsAreSettled' /\ WholeDays'
<1>0. /\ RowToday \in DayRow /\ RowToday.day = day /\ {} \in SUBSET Days
      /\ failed \subseteq failed' /\ RowsAreSettled /\ WholeDays
    BY RowTodayType DEF Rollover, LedgerInv
<1>1. \A d : ClosedOn(d)' = ClosedOn(d)
    BY DEF ClosedOn
<1>2. ASSUME NEW d
      PROVE  \A t \in SettledOn(d) : t \in SettledOn(d)' /\ closedRows'[t] = closedRows[t]
    BY <1>1 DEF SettledOn, ClosedOn
<1>3. ASSUME NEW d \in Days \ failed'
      PROVE  /\ AtMost(dayRows'[d], Account(closedRows', SettledOn(d)'))
             /\ row'.day = d => AtMost(row', Account(closedRows', SettledOn(d)'))
    <2>1. /\ dayRows'[d] \in DayRow /\ AtMost(dayRows'[d], Account(closedRows, SettledOn(d)))
          /\ d = day => AtMost(RowToday, Account(closedRows, SettledOn(d)))
        BY <1>0, RolledRows
    <2>2. AtMost(dayRows'[d], Account(closedRows', SettledOn(d)'))
        BY <1>2, <2>1, StaysCovered
    <2>3. ASSUME d = day PROVE AtMost(RowToday, Account(closedRows', SettledOn(d)'))
        BY <1>0, <1>2, <2>1, <2>3, StaysCovered
    <2> QED
        BY <1>0, <2>2, <2>3
<1>4. ASSUME NEW d \in Days \ (failed' \cup broken')
      PROVE  /\ d # row'.day \/ ~dirty' => Totals(dayRows'[d]) = Aggregate(d)'
             /\ d = row'.day => Totals(row') = Aggregate(d)'
             /\ d >= day' /\ d # row'.day => ClosedOn(d)' = {}
    <2>1. /\ d # day => Totals(dayRows'[d]) = Aggregate(d)
          /\ d = day => Totals(RowToday) = Aggregate(d)
          /\ d > day => ClosedOn(d) = {}
        BY <1>0, RolledRows
    <2>2. Aggregate(d)' = Aggregate(d)
        BY <1>1, AggregateStays
    <2>3. d >= day /\ d # day => d > day
        BY DEF Days, LedgerTypeOK
    <2> QED
        BY <1>0, <1>1, <2>1, <2>2, <2>3
<1>5. ReopenedIsExcused'
    BY <1>0 DEF LedgerInv, ReopenedIsExcused, Gone
<1> QED
    BY <1>3, <1>4, <1>5 DEF RowsAreSettled, WholeDays

\* What Booked does to the ledger of every day.
LEMMA BookedMoves ==
    ASSUME LedgerTypeOK, NEW t \in Opened(open), closedRows' = Booked(t)
    PROVE  /\ t \in Trades \ Gone /\ closedRows'[t].pnl = Pnl(t) /\ Pnl(t) \in Int
           /\ closedRows'[t].day = day /\ closedRows'[t] # NoTrade
           /\ \A u \in Trades \ {t} : closedRows'[u] = closedRows[u]
           /\ \A d : ClosedOn(d)' = IF d = day THEN ClosedOn(d) \cup {t} ELSE ClosedOn(d) \ {t}
<1> DEFINE b == [pnl |-> Pnl(t), day |-> day]
<1>1. t \in Trades /\ Pnl(t) \in Int /\ b # NoTrade /\ t \notin Gone
    BY MarkIsBookable DEF Opened, Gone
<1>2. closedRows' = [closedRows EXCEPT ![t] = b]
    BY DEF Booked
<1>3. b.pnl = Pnl(t) /\ b.day = day
    OBVIOUS
<1> HIDE DEF b
<1>4. closedRows'[t] = b /\ \A u \in Trades \ {t} : closedRows'[u] = closedRows[u]
    BY <1>1, <1>2 DEF LedgerTypeOK
<1>5. ASSUME NEW d
      PROVE  ClosedOn(d)' = IF d = day THEN ClosedOn(d) \cup {t} ELSE ClosedOn(d) \ {t}
    BY <1>1, <1>3, <1>4 DEF ClosedOn
<1> QED
    BY <1>1, <1>3, <1>4, <1>5

\* One close more, in the ledger and in the row.
LEMMA CloseIsCounted ==
    ASSUME LedgerTypeOK, LedgerTypeOK', NEW t \in Opened(open), closedRows' = Booked(t),
           NEW S, IsFiniteSet(S), \A u \in S : u \in Trades \ {t} /\ closedRows[u].pnl \in Int,
           NEW r \in DayRow
    PROVE  /\ AtMost(r, Account(closedRows, S))
                => AtMost(Counted(r, Pnl(t)), Account(closedRows', S \cup {t}))
           /\ Totals(r) = Account(closedRows, S)
                => Totals(Counted(r, Pnl(t))) = Account(closedRows', S \cup {t})
<1> DEFINE p == Pnl(t)
           f == closedRows
           g == closedRows'
           a == Account(f, S)
           b == Account(g, S \cup {t})
           c == Counted(r, p)
<1>1. /\ p \in Int /\ g[t].pnl = p /\ t \notin S
      /\ \A u \in S : g[u] = f[u] /\ f[u].pnl \in Int
    BY BookedMoves
<1>2. /\ c.realized = r.realized + p
      /\ c.wins = (IF p > 0 THEN r.wins + 1 ELSE r.wins)
      /\ c.losses = (IF p < 0 THEN r.losses + 1 ELSE r.losses)
      /\ c.even = (IF p = 0 THEN r.even + 1 ELSE r.even)
    BY <1>1, CountedType
<1>t. /\ Totals(r) = a => /\ r.realized = a.realized /\ r.wins = a.wins
                          /\ r.losses = a.losses /\ r.even = a.even
      /\ (c.realized = b.realized /\ c.wins = b.wins /\ c.losses = b.losses /\ c.even = b.even)
            => Totals(c) = b
    <2>1. a = [realized |-> a.realized, wins |-> a.wins, losses |-> a.losses, even |-> a.even]
        BY DEF Account
    <2>2. b = [realized |-> b.realized, wins |-> b.wins, losses |-> b.losses, even |-> b.even]
        BY DEF Account
    <2> HIDE DEF a, b, c
    <2> QED
        BY <2>1, <2>2 DEF Totals
<1> HIDE DEF p, f, g
<1>3. /\ b.realized = a.realized + p
      /\ b.wins = (IF p > 0 THEN a.wins + 1 ELSE a.wins)
      /\ b.losses = (IF p < 0 THEN a.losses + 1 ELSE a.losses)
      /\ b.even = (IF p = 0 THEN a.even + 1 ELSE a.even)
    <2>1. /\ g[t].pnl \in Int /\ \A u \in S : f[u].pnl \in Int
          /\ \A u \in S : g[u] = f[u]
        BY <1>1
    <2>2. GrownBy(a, b, g[t].pnl)
        BY <1>1, <2>1, AccountGrows, Zenon
    <2> HIDE DEF a, b
    <2> QED
        BY <1>1, <2>2 DEF GrownBy
<1>4. a.wins \in Nat /\ a.losses \in Nat /\ a.even \in Nat
    BY <1>1, AccountType
<1>5. r.wins \in Nat /\ r.losses \in Nat /\ r.even \in Nat
    BY DEF DayRow
<1> HIDE DEF a, b, c
<1>6. AtMost(r, a) => AtMost(c, b)
    <2> SUFFICES ASSUME AtMost(r, a) PROVE AtMost(c, b)
        OBVIOUS
    <2>1. r.wins <= a.wins /\ r.losses <= a.losses /\ r.even <= a.even
        BY DEF AtMost
    <2>2. c.wins <= b.wins
        BY <1>2, <1>3, <1>4, <1>5, <2>1
    <2>3. c.losses <= b.losses
        BY <1>2, <1>3, <1>4, <1>5, <2>1
    <2>4. c.even <= b.even
        BY <1>2, <1>3, <1>4, <1>5, <2>1
    <2> QED
        BY <2>2, <2>3, <2>4 DEF AtMost
<1>7. Totals(r) = a => Totals(c) = b
    <2> SUFFICES ASSUME Totals(r) = a PROVE Totals(c) = b
        OBVIOUS
    <2>1. r.realized = a.realized /\ r.wins = a.wins /\ r.losses = a.losses /\ r.even = a.even
        BY <1>t
    <2>2. c.realized = b.realized /\ c.wins = b.wins /\ c.losses = b.losses /\ c.even = b.even
        BY <1>2, <1>3, <2>1
    <2> QED
        BY <1>t, <2>2
<1> QED
    BY <1>6, <1>7 DEF a, b, c, p, f, g

\* Recording an opening keeps the rows in step with the trades.
LEMMA RecordOpenKeeps ==
    ASSUME LedgerTypeOK, LedgerTypeOK', LedgerInv, NEW t \in Trades, RecordOpen(t)
    PROVE  LedgerInv'
<1>1. PICK works \in BOOLEAN, saved \in BOOLEAN : Rollover(works, {}) /\ SaveOpen(saved)
    BY DEF RecordOpen
<1>2. /\ t \notin adopted /\ adopted' = adopted \cup {t} /\ open' = [open EXCEPT ![t] = Unmarked]
      /\ row' = RowToday /\ dirty' = TRUE /\ UNCHANGED <<day, closedRows, broken>>
    BY DEF RecordOpen
<1>3. /\ closedRows[t] = NoTrade
      /\ \A u \in Trades \ {t} : open'[u] = open[u]
                                 /\ openRows'[u] \in {openRows[u], open[u], NoTrade}
    <2>1. \A u \in Trades \ {t} : open'[u] = open[u]
        BY <1>2 DEF LedgerTypeOK, OpenMap
    <2>2. \A u \in Trades : openRows'[u] \in {openRows[u], open'[u], NoTrade}
        BY <1>1, SaveOpenRows DEF LedgerTypeOK
    <2> QED
        BY <1>2, <2>1, <2>2 DEF LedgerInv, AdoptedOnce
<1>4. \A u \in Gone : u # t => u \in Gone'
    BY <1>3 DEF Gone
<1>5. \A u \in Gone : closedRows[u] # NoTrade => u \in Gone'
    BY <1>3, <1>4
<1>6. AdoptedOnce'
    BY <1>2, <1>4 DEF LedgerInv, AdoptedOnce
<1> QED
    BY <1>1, <1>2, <1>5, <1>6, UncountedEvent DEF LedgerInv

\* Marks are for open trades only.
LEMMA MarksKeepGone ==
    ASSUME NEW map \in Marked, NEW u \in Gone
    PROVE  map[u] = NoTrade
BY DEF Marked, Gone, Opened

\* An observed close keeps the rows in step with the trades.
LEMMA ObserveKeeps ==
    ASSUME LedgerTypeOK, LedgerTypeOK', LedgerInv, Observe
    PROVE  LedgerInv'
<1>1. PICK works \in BOOLEAN, saved \in BOOLEAN : Rollover(works, {}) /\ SaveOpen(saved)
    BY DEF Observe
<1>2. /\ row' = RowToday /\ dirty' = TRUE /\ UNCHANGED <<day, adopted, closedRows, broken>>
    BY DEF Observe
<1>4. \A u \in Gone : open'[u] = NoTrade
    BY MarksKeepGone DEF Observe
<1>5. \A u \in Trades : openRows'[u] \in {openRows[u], open'[u], NoTrade}
    BY <1>1, SaveOpenRows DEF LedgerTypeOK
<1>6. \A u \in Gone : u \in Gone'
    BY <1>4, <1>5 DEF Gone
<1>7. AdoptedOnce'
    BY <1>2, <1>6 DEF LedgerInv, AdoptedOnce
<1> QED
    BY <1>1, <1>2, <1>6, <1>7, UncountedEvent DEF LedgerInv

\* A close the ledger has, or whose day is one of refused writes.
LEMMA RecordCloseKeeps ==
    ASSUME LedgerTypeOK, LedgerTypeOK', LedgerInv, NEW t \in Trades, NEW appended \in BOOLEAN,
           NEW saved \in BOOLEAN, RecordClose(t, appended, saved)
    PROVE  LedgerInv'
<1> DEFINE days == IF appended /\ saved THEN {} ELSE {day}
<1>1. PICK works \in BOOLEAN : Rollover(works, days)
    BY DEF RecordClose
<1>2. /\ t \in Opened(open) /\ open' = [open EXCEPT ![t] = NoTrade]
      /\ closedRows' = (IF appended THEN Booked(t) ELSE closedRows)
      /\ SaveOpen(saved)
      /\ row' = Counted(RowToday, Pnl(t)) /\ dirty' = TRUE
      /\ UNCHANGED <<day, adopted, broken>>
    BY DEF RecordClose
<1>3. /\ RowToday \in DayRow /\ RowToday.day = day /\ day \in Days /\ days \in SUBSET Days
      /\ failed \subseteq failed' /\ (~(appended /\ saved) => day \in failed')
      /\ RowsAreSettled /\ WholeDays
    BY <1>1, RowTodayType DEF Rollover, LedgerInv, LedgerTypeOK
<1>4. t \in Trades \ Gone /\ t \in adopted
    BY <1>2 DEF Opened, Gone, LedgerInv, AdoptedOnce
<1>5. /\ \A u \in Gone : u \in Gone' /\ u # t
      /\ \A u \in Trades \ {t} : u \notin Gone' => u \notin Gone
      /\ saved => t \in Gone'
    <2>1. open'[t] = NoTrade /\ \A u \in Trades \ {t} : open'[u] = open[u]
        BY <1>2, <1>4 DEF LedgerTypeOK, OpenMap
    <2>2. /\ \A u \in Trades : openRows'[u] \in {openRows[u], open'[u], NoTrade}
          /\ saved => openRows' = open'
        BY <1>2, SaveOpenRows DEF LedgerTypeOK
    <2> QED
        BY <1>4, <2>1, <2>2 DEF Gone
<1>6. /\ \A u \in Trades \ {t} : closedRows'[u] = closedRows[u]
      /\ \A d : d # day => ClosedOn(d)' = ClosedOn(d) \ {t} \/ ClosedOn(d)' = ClosedOn(d)
      /\ \A d : ClosedOn(d) \ {t} \subseteq ClosedOn(d)'
    <2>1. CASE appended
        <3>1. closedRows' = Booked(t)
            BY <1>2, <2>1
        <3> QED
            BY <1>2, <3>1, BookedMoves
    <2>2. CASE ~appended
        <3>1. closedRows' = closedRows
            BY <1>2, <2>2
        <3> QED
            BY <3>1 DEF ClosedOn
    <2> QED
        BY <2>1, <2>2
<1>7. AdoptedOnce'
    BY <1>2, <1>4, <1>5, <1>6 DEF LedgerInv, AdoptedOnce
<1>8. ReopenedIsExcused'
    <2> SUFFICES ASSUME NEW u \in Trades \ Gone', closedRows'[u] # NoTrade
                 PROVE  closedRows'[u].day \in broken' \cup failed'
        BY DEF ReopenedIsExcused
    <2>1. CASE u # t
        <3>1. u \in Trades \ Gone /\ closedRows'[u] = closedRows[u]
            BY <1>5, <1>6, <2>1
        <3> QED
            BY <1>2, <1>3, <3>1 DEF LedgerInv, ReopenedIsExcused
    <2>2. CASE u = t /\ appended
        <3>1. closedRows'[t].day = day
            BY <1>2, <2>2, BookedMoves
        <3> QED
            BY <1>3, <1>5, <2>2, <3>1
    <2>3. CASE u = t /\ ~appended
        <3>1. closedRows' = closedRows
            BY <1>2, <2>3
        <3> QED
            BY <1>2, <1>3, <1>4, <2>3, <3>1 DEF LedgerInv, ReopenedIsExcused
    <2> QED
        BY <2>1, <2>2, <2>3
<1>9. ASSUME NEW d
      PROVE  \A u \in SettledOn(d) : u \in SettledOn(d)' /\ closedRows'[u] = closedRows[u]
    BY <1>5, <1>6 DEF SettledOn, Gone
<1>10. ASSUME NEW d \in Days \ (failed' \cup broken)
       PROVE  t \notin ClosedOn(d)
    BY <1>3, <1>4 DEF ClosedOn, LedgerInv, ReopenedIsExcused
<1>c. ASSUME day \notin failed'
      PROVE  /\ closedRows' = Booked(t)
             /\ ClosedOn(day)' = ClosedOn(day) \cup {t}
             /\ SettledOn(day) \cup {t} \in SUBSET SettledOn(day)'
             /\ t \in Gone'
    <2>1. appended /\ saved
        BY <1>3, <1>c
    <2>2. closedRows' = Booked(t)
        BY <1>2, <2>1
    <2>3. ClosedOn(day)' = ClosedOn(day) \cup {t}
        BY <1>2, <2>2, BookedMoves
    <2> QED
        BY <1>5, <1>9, <2>1, <2>2, <2>3 DEF SettledOn
<1>r. ClosedResults /\ ClosedResults'
    BY ClosedHaveResults, ClosedHaveResultsNext
<1>11. ASSUME NEW d \in Days \ failed'
       PROVE  /\ AtMost(dayRows'[d], Account(closedRows', SettledOn(d)'))
              /\ row'.day = d => AtMost(row', Account(closedRows', SettledOn(d)'))
    <2>1. /\ dayRows'[d] \in DayRow /\ AtMost(dayRows'[d], Account(closedRows, SettledOn(d)))
          /\ d = day => AtMost(RowToday, Account(closedRows, SettledOn(d)))
        BY <1>1, <1>3, RolledRows
    <2>2. AtMost(dayRows'[d], Account(closedRows', SettledOn(d)'))
        BY <1>9, <2>1, StaysCovered
    <2>3. ASSUME d = day PROVE AtMost(row', Account(closedRows', SettledOn(d)'))
        <3> DEFINE S == SettledOn(day)
                   T == SettledOn(day)'
                   g == closedRows'
        <3>1. IsFiniteSet(S) /\ \A u \in S : u \in Trades \ {t} /\ closedRows[u].pnl \in Int
            BY <1>5, <1>r DEF ClosedResults, SettledOn, ClosedOn, Gone
        <3>2. IsFiniteSet(T) /\ (\A u \in T : g[u].pnl \in Int) /\ S \cup {t} \in SUBSET T
            BY <1>c, <1>r, <2>3 DEF ClosedResults, SettledOn
        <3>3. closedRows' = Booked(t) /\ AtMost(RowToday, Account(closedRows, S))
            BY <1>c, <2>1, <2>3
        <3> HIDE DEF S, T
        <3>4. AtMost(row', Account(g, S \cup {t}))
            BY <1>2, <1>3, <3>1, <3>3, CloseIsCounted
        <3>5. row' \in DayRow
            BY DEF LedgerTypeOK
        <3> HIDE DEF g
        <3>6. AtMost(row', Account(g, T))
            BY <3>2, <3>4, <3>5, CoveredByMore
        <3>7. SettledOn(d)' = T
            BY <1>2, <2>3 DEF T, SettledOn, ClosedOn
        <3> QED
            BY <3>6, <3>7 DEF g
    <2>4. row'.day = day
        <3>1. Pnl(t) \in Int
            BY <1>2, MarkIsBookable
        <3> QED
            BY <1>2, <1>3, <3>1, CountedType
    <2> QED
        BY <2>2, <2>3, <2>4
<1>12. ASSUME NEW d \in Days \ (failed' \cup broken')
       PROVE  /\ d # row'.day \/ ~dirty' => Totals(dayRows'[d]) = Aggregate(d)'
              /\ d = row'.day => Totals(row') = Aggregate(d)'
              /\ d >= day' /\ d # row'.day => ClosedOn(d)' = {}
    <2>1. /\ d # day => Totals(dayRows'[d]) = Aggregate(d)
          /\ d = day => Totals(RowToday) = Aggregate(d)
          /\ d > day => ClosedOn(d) = {}
        BY <1>1, <1>2, <1>3, RolledRows
    <2>2. row'.day = day
        <3>1. Pnl(t) \in Int
            BY <1>2, MarkIsBookable
        <3> QED
            BY <1>2, <1>3, <3>1, CountedType
    <2>3. t \notin ClosedOn(d) /\ ClosedOn(d) \in SUBSET Trades
        BY <1>2, <1>10 DEF ClosedOn
    <2>4. CASE d # day
        <3>1. ClosedOn(d)' = ClosedOn(d) /\ \A u \in ClosedOn(d) : closedRows'[u] = closedRows[u]
            BY <1>6, <2>3, <2>4
        <3>2. Aggregate(d)' = Aggregate(d)
            BY <3>1, AggregateStays
        <3>3. d >= day' => d > day
            BY <1>2, <2>4 DEF Days, LedgerTypeOK
        <3> QED
            BY <1>2, <2>1, <2>2, <2>4, <3>1, <3>2, <3>3
    <2>5. CASE d = day
        <3> DEFINE S == ClosedOn(day)
        <3>1. IsFiniteSet(S) /\ \A u \in S : u \in Trades \ {t} /\ closedRows[u].pnl \in Int
            BY <1>r, <2>3, <2>5 DEF ClosedResults
        <3>2. closedRows' = Booked(t) /\ ClosedOn(day)' = S \cup {t}
            BY <1>c, <2>5
        <3>3. Totals(RowToday) = Account(closedRows, S)
            BY <2>1, <2>5, AggregateIsAccount
        <3>4. Aggregate(d)' = Account(closedRows', ClosedOn(d)')
            BY DEF Aggregate, Account, Won, Lost, Even
        <3>5. ClosedOn(d)' = ClosedOn(day)'
            BY <1>2, <2>5 DEF ClosedOn
        <3> HIDE DEF S
        <3>6. Totals(row') = Account(closedRows', S \cup {t})
            BY <1>2, <1>3, <3>1, <3>2, <3>3, CloseIsCounted
        <3> QED
            BY <1>2, <2>2, <2>5, <3>2, <3>4, <3>5, <3>6
    <2> QED
        BY <2>4, <2>5
<1> QED
    BY <1>7, <1>8, <1>11, <1>12 DEF LedgerInv, RowsAreSettled, WholeDays

\* What a restart takes from the rows it takes from broken days.
LEMMA RestartRows ==
    ASSUME LedgerTypeOK, LedgerTypeOK', LedgerInv, row' = Fresh(0), dirty' = FALSE,
           UNCHANGED <<day, dayRows, failed>>, broken \cup BrokenByRestart \subseteq broken',
           \A d : \A t \in SettledOn(d) : t \in SettledOn(d)' /\ closedRows'[t] = closedRows[t],
           \A d \in Days \ (failed \cup broken') :
              ClosedOn(d)' = ClosedOn(d) /\ \A t \in ClosedOn(d) : closedRows'[t] = closedRows[t]
    PROVE  RowsAreSettled' /\ WholeDays'
<1>1. row'.day = 0 /\ \A d \in Days : d # row'.day
    BY DEF Fresh, Days
<1>2. ASSUME NEW d \in Days \ failed'
      PROVE  AtMost(dayRows'[d], Account(closedRows', SettledOn(d)'))
    <2>1. dayRows[d] \in DayRow /\ AtMost(dayRows[d], Account(closedRows, SettledOn(d)))
        BY DEF LedgerInv, RowsAreSettled, LedgerTypeOK
    <2> QED
        BY <2>1, StaysCovered
<1>3. ASSUME NEW d \in Days \ (failed' \cup broken')
      PROVE  /\ Totals(dayRows'[d]) = Aggregate(d)'
             /\ d >= day' => ClosedOn(d)' = {}
    <2>1. d \in Days \ (failed \cup broken) /\ d \notin BrokenByRestart
        OBVIOUS
    <2>2. d # row.day \/ (row.day # day /\ ~dirty)
        BY <2>1 DEF BrokenByRestart
    <2>3. Totals(dayRows[d]) = Aggregate(d)
        BY <2>1, <2>2 DEF LedgerInv, WholeDays
    <2>4. ClosedOn(d)' = ClosedOn(d) /\ \A t \in ClosedOn(d) : closedRows'[t] = closedRows[t]
        BY <2>1
    <2>5. Aggregate(d)' = Aggregate(d)
        BY <2>4, AggregateStays
    <2>6. ASSUME d >= day PROVE ClosedOn(d) = {}
        <3>1. row.day \in Int /\ row.day <= day /\ day \in Int /\ d \in Int
            BY DEF LedgerTypeOK, DayRow, Days
        <3>2. d # row.day
            BY <2>2, <2>6, <3>1
        <3> QED
            BY <2>1, <2>6, <3>2 DEF LedgerInv, WholeDays
    <2> QED
        BY <2>3, <2>4, <2>5, <2>6
<1> QED
    BY <1>1, <1>2, <1>3 DEF RowsAreSettled, WholeDays

\* A restart, which reads the rows back, keeps them in step with the trades.
LEMMA RestartKeeps ==
    ASSUME LedgerTypeOK, LedgerTypeOK', LedgerInv, LedgerRestart
    PROVE  LedgerInv'
<1>1. /\ row' = Fresh(0) /\ dirty' = FALSE /\ broken' = broken \cup BrokenByRestart
      /\ open' = openRows /\ UNCHANGED <<day, adopted, openRows, closedRows, dayRows, failed>>
    BY DEF LedgerRestart, Restarted
<1>2. \A t \in Gone : t \in Gone'
    BY <1>1 DEF Gone
<1>3. \A d : ClosedOn(d)' = ClosedOn(d)
    BY <1>1 DEF ClosedOn
<1>4. \A d : \A t \in SettledOn(d) : t \in SettledOn(d)' /\ closedRows'[t] = closedRows[t]
    BY <1>1, <1>2, <1>3 DEF SettledOn
<1>5. RowsAreSettled' /\ WholeDays'
    BY <1>1, <1>3, <1>4, RestartRows
<1>6. AdoptedOnce'
    BY <1>1, <1>2 DEF LedgerInv, AdoptedOnce
<1>7. ReopenedIsExcused'
    BY <1>1, <1>2 DEF LedgerInv, ReopenedIsExcused, Gone
<1> QED
    BY <1>5, <1>6, <1>7 DEF LedgerInv

\* A rewrite that a crash cuts short loses rows, it brings no trade back.
LEMMA CrashInObserveKeeps ==
    ASSUME LedgerTypeOK, LedgerTypeOK', LedgerInv, CrashInObserve
    PROVE  LedgerInv'
<1>1. PICK map \in Marked : openRows' \in {map} \cup CutShort(map)
    BY DEF CrashInObserve
<1>2. /\ row' = Fresh(0) /\ dirty' = FALSE /\ broken' = broken \cup BrokenByRestart
      /\ open' = openRows' /\ UNCHANGED <<day, adopted, closedRows, dayRows, failed>>
    BY DEF CrashInObserve, Restarted
<1>3. \A u \in Gone : u \in Gone'
    <2>1. map \in OpenMap /\ \A u \in Gone : map[u] = NoTrade
        BY MarksKeepGone DEF Marked
    <2>2. \A u \in Trades : openRows'[u] \in {openRows[u], map[u], NoTrade}
        BY <1>1, <2>1, CutShortRows
    <2> QED
        BY <1>2, <2>1, <2>2 DEF Gone
<1>4. \A d : ClosedOn(d)' = ClosedOn(d)
    BY <1>2 DEF ClosedOn
<1>5. \A d : \A t \in SettledOn(d) : t \in SettledOn(d)' /\ closedRows'[t] = closedRows[t]
    BY <1>2, <1>3, <1>4 DEF SettledOn
<1>6. RowsAreSettled' /\ WholeDays'
    BY <1>2, <1>4, <1>5, RestartRows
<1>7. AdoptedOnce'
    BY <1>2, <1>3 DEF LedgerInv, AdoptedOnce
<1>8. ReopenedIsExcused'
    BY <1>2, <1>3 DEF LedgerInv, ReopenedIsExcused
<1> QED
    BY <1>6, <1>7, <1>8 DEF LedgerInv

\* A trade that the crash leaves in the map is in the ledger of a broken day.
LEMMA CrashKeeps ==
    ASSUME LedgerTypeOK, LedgerTypeOK', LedgerInv, NEW t \in Trades, CrashInClose(t)
    PROVE  LedgerInv'
<1> DEFINE rest == [open EXCEPT ![t] = NoTrade]
<1>1. /\ row' = Fresh(0) /\ dirty' = FALSE
      /\ broken' = broken \cup BrokenByRestart \cup {day}
      /\ t \in Opened(open) /\ closedRows' = Booked(t)
      /\ openRows' \in {rest} \cup CutShort(rest)
      /\ open' = openRows' /\ UNCHANGED <<day, adopted, dayRows, failed>>
    BY DEF CrashInClose, Restarted
<1>2. /\ t \in Trades \ Gone /\ closedRows'[t].day = day /\ closedRows'[t] # NoTrade
      /\ \A u \in Trades \ {t} : closedRows'[u] = closedRows[u]
      /\ \A d : ClosedOn(d)' = IF d = day THEN ClosedOn(d) \cup {t} ELSE ClosedOn(d) \ {t}
    BY <1>1, BookedMoves
<1>3. \A u \in Gone : u # t /\ u \in Gone'
    <2>1. rest \in OpenMap /\ \A u \in Gone : u # t /\ rest[u] = NoTrade
        BY <1>2 DEF Gone, LedgerTypeOK, OpenMap
    <2>2. \A u \in Trades : openRows'[u] \in {openRows[u], rest[u], NoTrade}
        BY <1>1, <2>1, CutShortRows
    <2> QED
        BY <1>1, <2>1, <2>2 DEF Gone
<1>4. t \in adopted
    BY <1>2 DEF LedgerInv, AdoptedOnce
<1>5. \A d : \A u \in SettledOn(d) : u \in SettledOn(d)' /\ closedRows'[u] = closedRows[u]
    <2> SUFFICES ASSUME NEW d, NEW u \in SettledOn(d)
                 PROVE  u \in SettledOn(d)' /\ closedRows'[u] = closedRows[u]
        OBVIOUS
    <2>1. u \in Trades /\ u # t /\ u \in Gone' /\ u \in ClosedOn(d)
        BY <1>3 DEF SettledOn, Gone
    <2> QED
        BY <1>2, <2>1 DEF SettledOn
<1>6. ASSUME NEW d \in Days \ (failed \cup broken')
      PROVE  ClosedOn(d)' = ClosedOn(d) /\ \A u \in ClosedOn(d) : closedRows'[u] = closedRows[u]
    <2>1. d # day /\ t \notin ClosedOn(d)
        BY <1>1, <1>2 DEF ClosedOn, LedgerInv, ReopenedIsExcused
    <2>2. ClosedOn(d) \in SUBSET Trades
        BY DEF ClosedOn
    <2> QED
        BY <1>2, <2>1, <2>2
<1>7. RowsAreSettled' /\ WholeDays'
    BY <1>1, <1>5, <1>6, RestartRows
<1>8. AdoptedOnce'
    BY <1>1, <1>2, <1>3, <1>4 DEF LedgerInv, AdoptedOnce
<1>9. ReopenedIsExcused'
    <2> SUFFICES ASSUME NEW u \in Trades \ Gone', closedRows'[u] # NoTrade
                 PROVE  closedRows'[u].day \in broken' \cup failed'
        BY DEF ReopenedIsExcused
    <2>1. CASE u = t
        BY <1>1, <1>2, <2>1
    <2>2. CASE u # t
        BY <1>1, <1>2, <1>3, <2>2 DEF LedgerInv, ReopenedIsExcused
    <2> QED
        BY <2>1, <2>2
<1> QED
    BY <1>7, <1>8, <1>9 DEF LedgerInv

\* Rows that are read are written first; one that is refused belongs to a failed day.
LEMMA ReadKeeps ==
    ASSUME LedgerTypeOK, LedgerTypeOK', LedgerInv, ReadStats
    PROVE  LedgerInv'
<1>1. /\ row.day # 0 /\ dirty /\ dirty' = FALSE
      /\ UNCHANGED <<day, adopted, open, openRows, closedRows, row, broken>>
      /\ \/ dayRows' = [dayRows EXCEPT ![row.day] = row] /\ UNCHANGED failed
         \/ failed' = failed \cup {row.day} /\ UNCHANGED dayRows
    BY DEF ReadStats
<1>2. /\ \A d : ClosedOn(d)' = ClosedOn(d) /\ SettledOn(d)' = SettledOn(d)
      /\ Gone' = Gone /\ failed \subseteq failed'
    BY <1>1 DEF ClosedOn, SettledOn, Gone
<1>3. AdoptedOnce' /\ ReopenedIsExcused'
    BY <1>1, <1>2 DEF LedgerInv, AdoptedOnce, ReopenedIsExcused
<1>4. ASSUME NEW d \in Days \ failed'
      PROVE  /\ d # row.day => dayRows'[d] = dayRows[d]
             /\ d = row.day => dayRows'[d] = row
    BY <1>1 DEF LedgerTypeOK
<1>5. RowsAreSettled'
    BY <1>1, <1>2, <1>4 DEF LedgerInv, RowsAreSettled
<1>6. ASSUME NEW d \in Days \ (failed' \cup broken')
      PROVE  /\ Totals(dayRows'[d]) = Aggregate(d)'
             /\ d = row'.day => Totals(row') = Aggregate(d)'
             /\ d >= day' /\ d # row'.day => ClosedOn(d)' = {}
    <2>1. Aggregate(d)' = Aggregate(d)
        BY <1>1, <1>2, AggregateStays
    <2>2. d \in Days \ (failed \cup broken)
        BY <1>1, <1>2
    <2> QED
        BY <1>1, <1>2, <1>4, <2>1, <2>2 DEF LedgerInv, WholeDays
<1>7. WholeDays'
    BY <1>6 DEF WholeDays
<1> QED
    BY <1>3, <1>5, <1>7 DEF LedgerInv

\* Midnight starts a new row and keeps the old ones in step with the trades.
LEMMA MidnightKeeps ==
    ASSUME LedgerTypeOK, LedgerTypeOK', LedgerInv, Midnight
    PROVE  LedgerInv'
<1>1. /\ day' = day + 1
      /\ UNCHANGED <<adopted, open, openRows, closedRows, row, dirty, dayRows, broken, failed>>
    BY DEF Midnight
<1>2. /\ \A d : ClosedOn(d)' = ClosedOn(d) /\ SettledOn(d)' = SettledOn(d)
      /\ Gone' = Gone
    BY <1>1 DEF ClosedOn, SettledOn, Gone
<1>3. \A d \in Days : d >= day' => d >= day
    BY <1>1 DEF Days, LedgerTypeOK
<1>4. \A d : Aggregate(d)' = Aggregate(d)
    BY <1>1, <1>2, AggregateStays
<1>5. AdoptedOnce' /\ ReopenedIsExcused' /\ RowsAreSettled'
    BY <1>1, <1>2 DEF LedgerInv, AdoptedOnce, ReopenedIsExcused, RowsAreSettled
<1>6. WholeDays'
    BY <1>1, <1>2, <1>3, <1>4 DEF LedgerInv, WholeDays
<1> QED
    BY <1>5, <1>6 DEF LedgerInv

\* Every step of the ledger keeps the rows in step with the trades.
LEMMA LedgerInvNext ==
    LedgerTypeOK /\ LedgerInv /\ [LedgerNext]_ledgerVars => LedgerInv'
<1> SUFFICES ASSUME LedgerTypeOK, LedgerInv, [LedgerNext]_ledgerVars PROVE LedgerInv'
    OBVIOUS
<1>t. LedgerTypeOK'
    BY LedgerTypeNext
<1>1. ASSUME NEW t \in Trades, RecordOpen(t) PROVE LedgerInv'
    BY <1>1, <1>t, RecordOpenKeeps
<1>2. ASSUME NEW t \in Trades, NEW appended \in BOOLEAN, NEW saved \in BOOLEAN,
             RecordClose(t, appended, saved)
      PROVE  LedgerInv'
    BY <1>2, <1>t, RecordCloseKeeps
<1>3. ASSUME NEW t \in Trades, CrashInClose(t)
      PROVE  LedgerInv'
    BY <1>3, <1>t, CrashKeeps
<1>4. CASE Observe
    BY <1>4, <1>t, ObserveKeeps
<1>5. CASE ReadStats
    BY <1>5, <1>t, ReadKeeps
<1>6. CASE LedgerRestart
    BY <1>6, <1>t, RestartKeeps
<1>9. CASE CrashInObserve
    BY <1>9, <1>t, CrashInObserveKeeps
<1>7. CASE Midnight
    BY <1>7, <1>t, MidnightKeeps
<1>8. CASE UNCHANGED ledgerVars
    <2>1. UNCHANGED <<day, adopted, open, openRows, closedRows, row, dirty, dayRows, broken,
                      failed>>
        BY <1>8 DEF ledgerVars
    <2>2. /\ \A d : ClosedOn(d)' = ClosedOn(d) /\ SettledOn(d)' = SettledOn(d)
          /\ Gone' = Gone
        BY <2>1 DEF ClosedOn, SettledOn, Gone
    <2>3. \A d : Aggregate(d)' = Aggregate(d)
        BY <2>1, <2>2, AggregateStays
    <2>4. AdoptedOnce' /\ ReopenedIsExcused' /\ RowsAreSettled'
        BY <2>1, <2>2 DEF LedgerInv, AdoptedOnce, ReopenedIsExcused, RowsAreSettled
    <2>5. WholeDays'
        BY <2>1, <2>2, <2>3 DEF LedgerInv, WholeDays
    <2> QED
        BY <2>4, <2>5 DEF LedgerInv
<1> QED
    BY <1>1, <1>2, <1>3, <1>4, <1>5, <1>6, <1>7, <1>8, <1>9 DEF LedgerNext

\* What settled trades cover, the ledger covers; and a day the tracker has left is whole.
LEMMA LedgerInvSuffices == LedgerTypeOK /\ LedgerInv => DaysMatchLedger
<1> SUFFICES ASSUME LedgerTypeOK, LedgerInv, NEW d \in Days \ failed
             PROVE  /\ dayRows[d].wins <= Aggregate(d).wins
                    /\ dayRows[d].losses <= Aggregate(d).losses
                    /\ dayRows[d].even <= Aggregate(d).even
                    /\ d < row.day /\ d \notin broken => Totals(dayRows[d]) = Aggregate(d)
    BY DEF DaysMatchLedger
<1>1. dayRows[d] \in DayRow /\ AtMost(dayRows[d], Account(closedRows, SettledOn(d)))
    BY DEF LedgerInv, RowsAreSettled, LedgerTypeOK
<1>2. /\ IsFiniteSet(ClosedOn(d)) /\ \A t \in ClosedOn(d) : closedRows[t].pnl \in Int
      /\ SettledOn(d) \in SUBSET ClosedOn(d)
    BY ClosedHaveResults DEF ClosedResults, SettledOn
<1>3. AtMost(dayRows[d], Account(closedRows, ClosedOn(d)))
    <2> DEFINE f == closedRows
               S == SettledOn(d)
               T == ClosedOn(d)
               r == dayRows[d]
    <2>1. /\ IsFiniteSet(T) /\ (\A t \in T : f[t].pnl \in Int) /\ S \in SUBSET T
          /\ r \in DayRow /\ AtMost(r, Account(f, S))
        BY <1>1, <1>2
    <2> HIDE DEF f, S, T, r
    <2>2. AtMost(r, Account(f, T))
        BY <2>1, CoveredByMore
    <2> QED
        BY <2>2 DEF f, T, r
<1>4. ASSUME d < row.day, d \notin broken PROVE Totals(dayRows[d]) = Aggregate(d)
    <2>1. d # row.day
        BY <1>4 DEF Days, LedgerTypeOK, DayRow
    <2> QED
        BY <1>4, <2>1 DEF LedgerInv, WholeDays
<1> QED
    BY <1>3, <1>4, AggregateIsAccount DEF AtMost

\* The daily rows and the ledger agree for any trades, results, days, refused writes,
\* rewrites cut short and restarts: the two are written apart, at different times,
\* statement by statement (PerformanceTracker.record_close, DailyRoller).
THEOREM RowsMatchLedger == LedgerSpec => []DaysMatchLedger
<1> QED
    BY LedgerTypeInit, LedgerTypeNext, LedgerInvInit, LedgerInvNext, LedgerInvSuffices, PTL
    DEF LedgerSpec

-----------------------------------------------------------------------------
(* The trading hours, for any exchanges whose clocks change on a closed day. *)

\* A slot of time lies on one day: comparing days is comparing slots.
LEMMA DayOf ==
    ASSUME NEW t \in Int
    PROVE  /\ t \div Slots \in Int
           /\ \A d \in Int : t \div Slots < d <=> t < d * Slots
           /\ \A d \in Int : t \div Slots > d <=> t >= (d + 1) * Slots
<1> QED
    BY DEF Slots

\* The weekend ends within two days.
LEMMA WeekdayComes ==
    ASSUME NEW from \in Int
    PROVE  \E d \in from..from + 2 : Weekday(d) /\ \A e \in from..d - 1 : ~Weekday(e)
<1>1. from % 7 \in 0..6
    OBVIOUS
<1>2. CASE from % 7 < 5
    BY <1>2 DEF Weekday
<1>3. CASE from % 7 = 5
    BY <1>3 DEF Weekday
<1>4. CASE from % 7 = 6
    BY <1>4 DEF Weekday
<1> QED
    BY <1>1, <1>2, <1>3, <1>4

\* The same for the local day of an exchange, whatever its offset.
LEMMA LocalIs ==
    ASSUME NEW x \in Exchanges, NEW u \in Int
    PROVE  /\ Local(x, u) \in Int /\ LocalDay(x, u) \in Int
           /\ \A d \in Int : LocalDay(x, u) < d <=> Local(x, u) < d * Slots
           /\ \A d \in Int : LocalDay(x, u) > d <=> Local(x, u) >= (d + 1) * Slots
<1>1. Local(x, u) \in Int
    BY ClockAssumption DEF Local, Slots
<1> QED
    BY <1>1, DayOf DEF LocalDay

\* A weekday of an exchange is an interval of UTC, with one offset; the times before it
\* belong to earlier local days and those after it to later ones.
LEMMA WeekdayIs ==
    ASSUME NEW x \in Exchanges, NEW d \in Int, Weekday(d)
    PROVE  \E off \in Int :
               /\ OpenOn(x, d) = d * Slots + x.open - off
               /\ CloseOn(x, d) = d * Slots + x.close - off
               /\ \A u \in Int : LocalDay(x, u) < d <=> u < d * Slots - off
               /\ \A u \in Int : LocalDay(x, u) > d <=> u >= (d + 1) * Slots - off
<1> DEFINE shiftDay == (x.shift + x.before) \div Slots
<1>1. /\ x.open \in Int /\ x.close \in Int /\ x.shift \in Int /\ x.before \in Int /\ x.after \in Int
      /\ 0 <= x.open /\ x.open < x.close /\ x.close < Slots
    BY SessionAssumption, ClockAssumption DEF Slots
<1>2. ASSUME NEW u \in Int
      PROVE  LET l == u + (IF u < x.shift THEN x.before ELSE x.after) IN
             /\ LocalDay(x, u) < d <=> l < d * Slots
             /\ LocalDay(x, u) > d <=> l >= (d + 1) * Slots
    BY LocalIs DEF Local
<1>3. CASE x.before = x.after
    <2>1. /\ OpenOn(x, d) = d * Slots + x.open - x.before
          /\ CloseOn(x, d) = d * Slots + x.close - x.before
        BY <1>1, <1>3 DEF OpenOn, CloseOn, Utc, Slots
    <2>2. ASSUME NEW u \in Int
          PROVE  /\ LocalDay(x, u) < d <=> u < d * Slots - x.before
                 /\ LocalDay(x, u) > d <=> u >= (d + 1) * Slots - x.before
        BY <1>1, <1>2, <1>3 DEF Slots
    <2> QED
        BY <1>1, <2>1, <2>2
<1>4. CASE x.before # x.after
    <2>1. ~Weekday(shiftDay) /\ shiftDay = (x.shift + x.after) \div Slots
        BY <1>4, ClockAssumption
    <2>2. /\ shiftDay \in Int
          /\ shiftDay * Slots <= x.shift + x.before /\ x.shift + x.before < (shiftDay + 1) * Slots
          /\ shiftDay * Slots <= x.shift + x.after /\ x.shift + x.after < (shiftDay + 1) * Slots
        BY <1>1, <2>1 DEF Slots
    <2>3. d # shiftDay
        BY <2>1
    <2> HIDE DEF shiftDay
    <2>4. CASE d < shiftDay
        <3>1. /\ OpenOn(x, d) = d * Slots + x.open - x.before
              /\ CloseOn(x, d) = d * Slots + x.close - x.before
            BY <1>1, <2>2, <2>4 DEF OpenOn, CloseOn, Utc, Slots
        <3>2. ASSUME NEW u \in Int
              PROVE  /\ LocalDay(x, u) < d <=> u < d * Slots - x.before
                     /\ LocalDay(x, u) > d <=> u >= (d + 1) * Slots - x.before
            BY <1>1, <1>2, <2>2, <2>4 DEF Slots
        <3> QED
            BY <1>1, <3>1, <3>2
    <2>5. CASE d > shiftDay
        <3>1. /\ OpenOn(x, d) = d * Slots + x.open - x.after
              /\ CloseOn(x, d) = d * Slots + x.close - x.after
            BY <1>1, <2>2, <2>5 DEF OpenOn, CloseOn, Utc, Slots
        <3>2. ASSUME NEW u \in Int
              PROVE  /\ LocalDay(x, u) < d <=> u < d * Slots - x.after
                     /\ LocalDay(x, u) > d <=> u >= (d + 1) * Slots - x.after
            BY <1>1, <1>2, <2>2, <2>5 DEF Slots
        <3> QED
            BY <1>1, <3>1, <3>2
    <2> QED
        BY <2>2, <2>3, <2>4, <2>5
<1> QED
    BY <1>3, <1>4

\* So a time is in the session of its own local day or in none, later sessions open
\* later, and earlier ones are over.
LEMMA SessionOf ==
    ASSUME NEW x \in Exchanges, NEW d \in Int, Weekday(d), NEW u \in Int
    PROVE  /\ OpenOn(x, d) \in Int /\ CloseOn(x, d) \in Int /\ LocalDay(x, u) \in Int
           /\ LocalDay(x, OpenOn(x, d)) = d
           /\ OpenOn(x, d) <= u /\ u < CloseOn(x, d) => LocalDay(x, u) = d
           /\ LocalDay(x, u) < d => u < OpenOn(x, d)
           /\ LocalDay(x, u) > d => OpenOn(x, d) <= u
<1>1. /\ x.open \in Int /\ x.close \in Int /\ x.shift \in Int /\ x.before \in Int /\ x.after \in Int
      /\ 0 <= x.open /\ x.open < x.close /\ x.close < Slots
    BY SessionAssumption, ClockAssumption DEF Slots
<1>2. PICK off \in Int :
          /\ OpenOn(x, d) = d * Slots + x.open - off
          /\ CloseOn(x, d) = d * Slots + x.close - off
          /\ \A v \in Int : LocalDay(x, v) < d <=> v < d * Slots - off
          /\ \A v \in Int : LocalDay(x, v) > d <=> v >= (d + 1) * Slots - off
    BY WeekdayIs
<1>3. \A v \in Int : LocalDay(x, v) \in Int
    BY LocalIs
<1>4. OpenOn(x, d) \in Int /\ CloseOn(x, d) \in Int
    BY <1>1, <1>2 DEF Slots
<1>5. LocalDay(x, OpenOn(x, d)) = d
    <2>1. ~(LocalDay(x, OpenOn(x, d)) < d) /\ ~(LocalDay(x, OpenOn(x, d)) > d)
        BY <1>1, <1>2, <1>4 DEF Slots
    <2> QED
        BY <1>3, <1>4, <2>1
<1>6. OpenOn(x, d) <= u /\ u < CloseOn(x, d) => LocalDay(x, u) = d
    <2>1. OpenOn(x, d) <= u /\ u < CloseOn(x, d) =>
              ~(LocalDay(x, u) < d) /\ ~(LocalDay(x, u) > d)
        BY <1>1, <1>2 DEF Slots
    <2> QED
        BY <1>3, <2>1
<1> QED
    BY <1>1, <1>2, <1>3, <1>4, <1>5, <1>6 DEF Slots

\* Every local day of the exploration, and the weekday after it, is one of Week.
LEMMA DaysOfWeek ==
    ASSUME SessionTypeOK, NEW x \in Exchanges
    PROVE  LocalDay(x, clock) \in -1..(Horizon \div Slots) + 1
<1>1. x.before \in -Slots..Slots /\ x.after \in -Slots..Slots /\ x.shift \in Int
    BY ClockAssumption
<1>2. clock \in Int /\ 0 <= clock /\ clock <= Horizon /\ Horizon \in Nat
    BY SessionAssumption DEF SessionTypeOK
<1>3. Local(x, clock) \in Int /\ -Slots <= Local(x, clock) /\ Local(x, clock) <= Horizon + Slots
    BY <1>1, <1>2 DEF Local, Slots
<1> QED
    BY <1>2, <1>3 DEF LocalDay, Slots

\* An exchange is open exactly during a session, and it is the session of the local day.
LEMMA OpenIsSession ==
    ASSUME SessionTypeOK, NEW x \in Exchanges
    PROVE  /\ IsOpen(x, clock) <=> InSession(x, clock) # {}
           /\ \A s \in InSession(x, clock) : /\ s.open = OpenOn(x, LocalDay(x, clock))
                                             /\ s.close = CloseOn(x, LocalDay(x, clock))
<1> DEFINE today == LocalDay(x, clock)
           days == {w \in Week : Weekday(w)}
<1>1. clock \in Int
    BY SessionAssumption DEF SessionTypeOK
<1>2. today \in Int /\ today \in Week
    BY DaysOfWeek, SessionAssumption DEF Week, Slots
<1>3. \A d \in days : d \in Int /\ Weekday(d)
    BY SessionAssumption DEF Week, Slots
<1>4. ASSUME NEW s \in InSession(x, clock)
      PROVE  today \in days /\ s.open = OpenOn(x, today) /\ s.close = CloseOn(x, today)
             /\ s.open <= clock /\ clock < s.close
    <2>1. PICK d \in days : s = [open |-> OpenOn(x, d), close |-> CloseOn(x, d)]
        BY DEF InSession, Sessions
    <2>2. s.open <= clock /\ clock < s.close /\ s.open = OpenOn(x, d) /\ s.close = CloseOn(x, d)
        BY <2>1 DEF InSession
    <2>3. today = d
        BY <1>1, <1>3, <2>2, SessionOf
    <2> QED
        BY <2>2, <2>3
<1>5. ASSUME IsOpen(x, clock) PROVE InSession(x, clock) # {}
    <2> DEFINE s == [open |-> OpenOn(x, today), close |-> CloseOn(x, today)]
    <2>1. Weekday(today) /\ OpenOn(x, today) <= clock /\ clock < CloseOn(x, today)
        BY <1>5 DEF IsOpen
    <2>2. s \in Sessions(x)
        BY <1>2, <2>1 DEF Sessions
    <2>3. s \in InSession(x, clock)
        BY <2>1, <2>2 DEF InSession
    <2> QED
        BY <2>3
<1>6. ASSUME InSession(x, clock) # {} PROVE IsOpen(x, clock)
    BY <1>3, <1>4, <1>6 DEF IsOpen
<1> QED
    BY <1>4, <1>5, <1>6

\* The next opening is the first one to come.
LEMMA NextOpenIsNext ==
    ASSUME SessionTypeOK, NEW x \in Exchanges
    PROVE  NextOpen(x, clock) = Min({s.open : s \in Sessions(x)} \ Past(x))
<1> DEFINE today == LocalDay(x, clock)
           from == IF OpenOn(x, today) <= clock THEN today + 1 ELSE today
           next == CHOOSE d \in from..from + 2 :
                       Weekday(d) /\ \A e \in from..d - 1 : ~Weekday(e)
           days == {w \in Week : Weekday(w)}
           coming == {s.open : s \in Sessions(x)} \ Past(x)
<1>1. clock \in Int /\ today \in Int /\ today \in -1..(Horizon \div Slots) + 1
    BY DaysOfWeek, SessionAssumption DEF SessionTypeOK, Slots
<1>2. from \in {today, today + 1} /\ from \in Int
    BY <1>1
<1>3. \A d \in days : d \in Int /\ Weekday(d)
    BY SessionAssumption DEF Week, Slots
<1>4. NextOpen(x, clock) = OpenOn(x, next)
    BY DEF NextOpen
<1>5. next \in from..from + 2 /\ Weekday(next) /\ \A e \in from..next - 1 : ~Weekday(e)
    <2> HIDE DEF from
    <2> QED
        BY <1>2, WeekdayComes
<1>6. \A o : o \in coming <=> \E d \in days : o = OpenOn(x, d) /\ ~(OpenOn(x, d) <= clock)
    <2> HIDE DEF days
    <2> DEFINE of(d) == [open |-> OpenOn(x, d), close |-> CloseOn(x, d)]
    <2>1. Sessions(x) = {of(d) : d \in days}
        BY DEF Sessions, days
    <2>2. \A d : of(d).open = OpenOn(x, d)
        OBVIOUS
    <2> HIDE DEF of
    <2>3. {s.open : s \in Sessions(x)} = {OpenOn(x, d) : d \in days}
        BY <2>1, <2>2
    <2>4. Past(x) = {OpenOn(x, d) : d \in {e \in days : OpenOn(x, e) <= clock}}
        BY <2>1, <2>2 DEF Past
    <2>5. \A d, e \in days : OpenOn(x, d) = OpenOn(x, e) => (OpenOn(x, d) <= clock <=> OpenOn(x, e) <= clock)
        OBVIOUS
    <2> QED
        BY <2>3, <2>4, <2>5
<1>7. next \in Int /\ next \in days /\ today <= next
    BY <1>1, <1>2, <1>5, SessionAssumption DEF Week, Slots
<1>8. OpenOn(x, next) \in Int /\ ~(OpenOn(x, next) <= clock)
    <2>1. OpenOn(x, next) \in Int /\ (today < next => clock < OpenOn(x, next))
        BY <1>1, <1>3, <1>7, SessionOf
    <2> HIDE DEF next, today
    <2>2. CASE next = today
        BY <1>1, <1>5, <1>7, <2>1, <2>2
    <2> QED
        BY <1>1, <1>7, <2>1, <2>2
<1>9. ASSUME NEW d \in days, ~(OpenOn(x, d) <= clock)
      PROVE  OpenOn(x, d) \in Int /\ OpenOn(x, next) <= OpenOn(x, d)
    <2>1. d \in Int /\ Weekday(d) /\ OpenOn(x, d) \in Int
        BY <1>1, <1>3, SessionOf
    <2>2. ~(today > d)
        BY <1>1, <1>9, <2>1, SessionOf
    <2>3. from <= d
        BY <1>1, <1>9, <2>1, <2>2
    <2>4. next <= d
        <3> HIDE DEF from, next, today
        <3> QED
            BY <1>2, <1>5, <2>1, <2>3
    <2>5. LocalDay(x, OpenOn(x, next)) = next
        BY <1>1, <1>3, <1>7, SessionOf
    <2>6. next < d => OpenOn(x, next) < OpenOn(x, d)
        BY <1>8, <2>1, <2>5, SessionOf
    <2> HIDE DEF next
    <2> QED
        BY <1>7, <1>8, <2>1, <2>4, <2>6
<1> HIDE DEF next, coming, days
<1>10. OpenOn(x, next) \in coming /\ \A o \in coming : o \in Int /\ OpenOn(x, next) <= o
    BY <1>6, <1>7, <1>8, <1>9
<1>11. Min(coming) \in coming /\ \A o \in coming : Min(coming) <= o
    BY <1>10 DEF Min
<1> QED
    BY <1>4, <1>8, <1>10, <1>11 DEF coming

\* The next opening of a closed currency market is an opening: closed just before, open
\* then.
LEMMA FxWeekIs ==
    ASSUME NEW u \in Int, ~FxOpen(u)
    PROVE  FxOpen(FxNextOpen(u)) /\ ~FxOpen(FxNextOpen(u) - 1)
<1> DEFINE q == u \div Slots
           monday == q + 7 - (q % 7)
<1>1. q \in Int
    BY DEF Slots
<1>2. FxNextOpen(u) = monday * Slots
    BY DEF FxNextOpen
<1> HIDE DEF q
<1>3. monday \in Int /\ monday % 7 = 0 /\ (monday - 1) % 7 = 6
    BY <1>1
<1> HIDE DEF monday
<1>4. (monday * Slots) \div Slots = monday /\ (monday * Slots - 1) \div Slots = monday - 1
    BY <1>3 DEF Slots
<1> QED
    BY <1>2, <1>3, <1>4 DEF FxOpen, Weekday

\* At any time, across midnight and the change of the clocks, the lookups tell of the
\* session of the local weekday (exchange_session.py, stuck_orders.py).
LEMMA SessionsAreExact == SessionTypeOK => SessionExact
<1> SUFFICES ASSUME SessionTypeOK PROVE SessionExact
    OBVIOUS
<1>1. clock \in Int
    BY SessionAssumption DEF SessionTypeOK
<1>2. ASSUME NEW x \in Exchanges
      PROVE  /\ IsOpen(x, clock) <=> InSession(x, clock) # {}
             /\ \A s \in InSession(x, clock) :
                    /\ SecondsSinceOpen(x, clock) = clock - s.open
                    /\ NeedsFlatten(x, clock) <=> s.close - clock <= FlattenWindow
             /\ ~IsOpen(x, clock) =>
                    /\ NeedsFlatten(x, clock)
                    /\ NextOpen(x, clock) = Min({s.open : s \in Sessions(x)} \ Past(x))
    <2>1. /\ IsOpen(x, clock) <=> InSession(x, clock) # {}
          /\ \A s \in InSession(x, clock) : /\ s.open = OpenOn(x, LocalDay(x, clock))
                                            /\ s.close = CloseOn(x, LocalDay(x, clock))
        BY OpenIsSession
    <2>2. NextOpen(x, clock) = Min({s.open : s \in Sessions(x)} \ Past(x))
        BY NextOpenIsNext
    <2> QED
        BY <2>1, <2>2 DEF SecondsSinceOpen, NeedsFlatten
<1>3. ~FxOpen(clock) => FxOpen(FxNextOpen(clock)) /\ ~FxOpen(FxNextOpen(clock) - 1)
    BY <1>1, FxWeekIs
<1>4. ASSUME StuckEligible(Grace, clock)
      PROVE  \E s \in InSession(Default, clock) : clock - s.open >= Grace
    <2>1. /\ IsOpen(Default, clock)
          /\ clock - OpenOn(Default, LocalDay(Default, clock)) >= Grace
        BY <1>4 DEF StuckEligible, SecondsSinceOpen
    <2>2. PICK s \in InSession(Default, clock) : s.open = OpenOn(Default, LocalDay(Default, clock))
        BY <2>1, OpenIsSession, SessionAssumption
    <2> QED
        BY <2>1, <2>2
<1> QED
    BY <1>2, <1>3, <1>4 DEF SessionExact

-----------------------------------------------------------------------------
(* All parts. In each behaviour one of them moves; the steps of the others leave it alone. *)

allVars == <<focus, marketVars, stackVars, telegramVars, commandVars,
             ledgerVars, usageVars, watchVars, cacheVars, calendarVars, clock>>

\* A step of the whole is a step or a stutter of every part.
LEMMA StepsOfParts ==
    [MCNext]_allVars =>
        /\ [MarketNext]_marketVars
        /\ [StackNext]_stackVars
        /\ [TelegramNext]_telegramVars
        /\ [CommandsNext]_commandVars
        /\ [LedgerNext]_ledgerVars
        /\ [UsageNext]_usageVars
        /\ [WatchNext]_watchVars
        /\ [CacheNext]_cacheVars
        /\ [CalendarNext]_calendarVars
        /\ [SessionNext]_clock
<1> SUFFICES ASSUME [MCNext]_allVars PROVE 
        /\ [MarketNext]_marketVars
        /\ [StackNext]_stackVars
        /\ [TelegramNext]_telegramVars
        /\ [CommandsNext]_commandVars
        /\ [LedgerNext]_ledgerVars
        /\ [UsageNext]_usageVars
        /\ [WatchNext]_watchVars
        /\ [CacheNext]_cacheVars
        /\ [CalendarNext]_calendarVars
        /\ [SessionNext]_clock
    OBVIOUS
<1>1. [MarketNext]_marketVars
    BY DEF MCNext, allVars
<1>2. [StackNext]_stackVars
    BY DEF MCNext, allVars
<1>3. [TelegramNext]_telegramVars
    BY DEF MCNext, allVars
<1>4. [CommandsNext]_commandVars
    BY DEF MCNext, allVars
<1>5. [LedgerNext]_ledgerVars
    BY DEF MCNext, allVars
<1>6. [UsageNext]_usageVars
    BY DEF MCNext, allVars
<1>7. [WatchNext]_watchVars
    BY DEF MCNext, allVars
<1>8. [CacheNext]_cacheVars
    BY DEF MCNext, allVars
<1>9. [CalendarNext]_calendarVars
    BY DEF MCNext, allVars
<1>10. [SessionNext]_clock
    BY DEF MCNext, allVars
<1> QED
    BY <1>1, <1>2, <1>3, <1>4, <1>5, <1>6, <1>7, <1>8, <1>9, <1>10

\* Every behaviour of the composition is one of each part.
LEMMA PartsBehave ==
    MCSpec => /\ MarketSpec /\ StackSpec /\ TelegramSpec /\ CommandsSpec /\ LedgerSpec
              /\ UsageSpec /\ WatchSpec /\ CacheSpec /\ CalendarSpec /\ SessionSpec
<1>1. MCInit => /\ MarketInit /\ StackInit /\ TelegramInit /\ CommandsInit /\ LedgerInit
                /\ UsageInit /\ WatchInit /\ CacheInit /\ CalendarInit /\ SessionInit
    BY DEF MCInit
<1>2. MCSpec => MCInit /\ [][MCNext]_allVars
    BY DEF MCSpec, allVars
<1> QED
    BY <1>1, <1>2, StepsOfParts, PTL
    DEF MarketSpec, StackSpec, TelegramSpec, CommandsSpec, LedgerSpec, UsageSpec, WatchSpec,
        CacheSpec, CalendarSpec, SessionSpec

\* The clock of the sessions is a number.
LEMMA SessionTyped == SessionSpec => []SessionTypeOK
<1>1. SessionInit => SessionTypeOK
    BY DEF SessionInit, SessionTypeOK
<1>2. SessionTypeOK /\ [SessionNext]_clock => SessionTypeOK'
    BY SessionAssumption DEF SessionTypeOK, SessionNext, Tick
<1> QED
    BY <1>1, <1>2, PTL DEF SessionSpec

\* The state spaces of all parts are well formed, whichever of them moves.
THEOREM BackgroundTypeCorrect == MCSpec => []TypesOK
<1>1. (/\ MarketTypeOK /\ StackTypeOK /\ TelegramTypeOK /\ CommandsTypeOK /\ LedgerTypeOK
       /\ UsageTypeOK /\ WatchTypeOK /\ CacheTypeOK /\ CalendarTypeOK /\ SessionTypeOK)
      => TypesOK
    BY DEF TypesOK
<1>2. CacheInv => CacheTypeOK
    BY DEF CacheInv
<1>3. CalendarInv => CalendarTypeOK
    BY DEF CalendarInv
<1> QED
    BY <1>1, <1>2, <1>3, PartsBehave, MarketTypeCorrect, StackTyped, TelegramTypeCorrect,
       CommandsTypeCorrect, LedgerTyped, UsageTyped, WatchTypeCorrect, CacheStays,
       CalendarStays, SessionTyped, PTL

\* No update is confirmed to Telegram before it was dispatched, and no answered command is
\* undone by a slower one or a restart, unless its own save failed or the save of a cycle
\* that had read the setting before was written after (TelegramService, BotController).
THEOREM CommandsArrive == MCSpec => []CommandsReachTheBot
<1>1. NoCommandLost /\ ConfirmedStands => CommandsReachTheBot
    BY DEF CommandsReachTheBot
<1> QED
    BY <1>1, PartsBehave, UpdatesAreNotLost, AnsweredCommandsStand, PTL

\* A symbol waits for its fundamentals no longer than the calm symbols need to have their
\* turns with what the restless ones leave of the budget, and a company among the first of
\* the universe for its earnings date no longer than half a TTL
\* (CycleRunner._refresh_fundamentals, _refresh_earnings_calendar).
THEOREM ServableGetsFetched == MCSpec => []ServableIsFetched
<1>1. FundamentalsServed /\ FrontIsLookedUp => ServableIsFetched
    BY DEF ServableIsFetched
<1> QED
    BY <1>1, PartsBehave, FundamentalsAreServed, FrontIsServed, PTL

\* What is said of trading hours is what the exchanges' own clocks say, at any time of any
\* horizon (exchange_session.session_for, stuck_orders).
THEOREM HoursAreExact == MCSpec => []SessionsExact
<1>1. SessionExact => SessionsExact
    BY DEF SessionsExact
<1> QED
    BY <1>1, PartsBehave, SessionTyped, SessionsAreExact, PTL
=============================================================================
