------------------------- MODULE WindowPurger_proofs -------------------------
(***************************************************************************)
(* Proofs about WindowPurger for any grid, any window size and any number   *)
(* of messages and signals of any age.  The trim point is shown to sweep    *)
(* every cell if the milliseconds of the window fit a Java int              *)
(* (NoOverflow): the run window_overflow has more than fit.                 *)
(***************************************************************************)
EXTENDS WindowPurger, TLAPS

LEMMA WithoutType ==
  ASSUME NEW f \in [Hours -> Nat], NEW hs
  PROVE  /\ Without(f, hs) \in [Hours -> Nat]
         /\ \A h \in hs \cap Hours : Without(f, hs)[h] = 0
  BY DEF Without

LEMMA InitType == Init => TypeOK
<1> SUFFICES ASSUME Init PROVE TypeOK
  OBVIOUS
<1>1. /\ firstMessage \in Int /\ trimPoint \in Int
      /\ latestMessage \in Hours /\ newest \in Hours /\ hour \in Hours
      /\ messages \in 0 .. MaxMessages
      /\ signals \in 0 .. MaxSignals /\ missed \in [Cells -> SUBSET Hours]
  BY WindowAssumption DEF Init, Hours
<1>2. spans \in [Cells -> SUBSET Hours] /\ counter \in CounterType /\ counted \in CounterType
  BY DEF Init, CounterType
<1> QED
  BY <1>1, <1>2 DEF Init, TypeOK

(* The steps that only the calculator thread takes: a message or a signal   *)
(* comes up, or the counting of the signal goes on.                         *)
CalculatorThread ==
  \/ \E h \in Hours : Arrive(h)
  \/ \E c \in Cells, h \in Hours : Calculate(c, h)
  \/ Calculator

LEMMA CalculatorType ==
  ASSUME TypeOK, CalculatorThread
  PROVE  TypeOK'
<1> USE WindowAssumption
<1>0. ASSUME NEW h \in Hours, Arrive(h) PROVE TypeOK'
  <2>1. messages' \in 0 .. MaxMessages /\ newest' \in Hours /\ latestMessage' \in Hours
    BY <1>0 DEF Arrive, FloorDate, TypeOK
  <2> QED
    BY <1>0, <2>1 DEF Arrive, TypeOK, gridVars, calcVars, purgeVars
<1>1. ASSUME NEW c \in Cells, NEW h \in Hours, Calculate(c, h) PROVE TypeOK'
  <2>1. signals' \in 0 .. MaxSignals
    BY <1>1 DEF Calculate, TypeOK
  <2> QED
    BY <1>1, <2>1 DEF Calculate, TypeOK, helperVars, gridVars, purgeVars
<1>2. CASE FindCell
  BY <1>2 DEF FindCell, TypeOK, helperVars, historyVars
<1>3. CASE FindSpan
  <2>1. /\ spans' \in [Cells -> SUBSET Hours] /\ missed' \in [Cells -> SUBSET Hours]
        /\ attached' \in BOOLEAN /\ disturbed' \subseteq Cells
    BY <1>3 DEF FindSpan, TypeOK
  <2> QED
    BY <1>3, <2>1 DEF FindSpan, TypeOK, helperVars, purgeVars
<1>4. CASE Count
  <2>0. cell \in Cells /\ hour \in Hours /\ counter \in CounterType /\ counted \in CounterType
    BY <1>4 DEF Count, TypeOK
  <2>1. ASSUME NEW f \in CounterType PROVE [f EXCEPT ![cell][hour] = @ + 1] \in CounterType
    BY <2>0 DEF CounterType
  <2>2. counter' \in CounterType /\ counted' \in CounterType
    BY <1>4, <2>0, <2>1 DEF Count
  <2> QED
    BY <1>4, <2>2 DEF Count, TypeOK, helperVars, purgeVars
<1> QED
  BY <1>0, <1>1, <1>2, <1>3, <1>4 DEF CalculatorThread, Calculator

LEMMA PurgeType == TypeOK /\ Purge => TypeOK'
<1> SUFFICES ASSUME TypeOK, Purge PROVE TypeOK'
  OBVIOUS
<1> USE WindowAssumption
<1>1. CASE CheckWindow
  BY <1>1 DEF CheckWindow, TypeOK, helperVars, gridVars, calcVars, historyVars
<1>2. CASE StartTrim
  <2>1. trimPoint' \in Int
    BY <1>2 DEF StartTrim, TypeOK, Hours
  <2> QED
    BY <1>2, <2>1 DEF StartTrim, TypeOK, helperVars, gridVars, calcVars, historyVars
<1>3. ASSUME NEW c \in Cells, NextCell(c) PROVE TypeOK'
  BY <1>3 DEF NextCell, TypeOK, helperVars, gridVars, calcVars, historyVars
<1>4. CASE RemoveSpans
  <2>1. visited \in Cells
    BY <1>4 DEF RemoveSpans, TypeOK
  <2>2. spans' \in [Cells -> SUBSET Hours] /\ missed' \in [Cells -> SUBSET Hours]
    BY <1>4, <2>1 DEF RemoveSpans, TypeOK
  <2>3. counter' \in CounterType
    <3>1. counter[visited] \in [Hours -> Nat]
      BY <2>1 DEF TypeOK, CounterType
    <3>2. Without(counter[visited], Expired) \in [Hours -> Nat]
      BY <3>1, WithoutType
    <3> QED
      BY <1>4, <2>1, <3>2 DEF RemoveSpans, TypeOK, CounterType
  <2>4. attached' \in BOOLEAN
    BY <1>4 DEF RemoveSpans, TypeOK
  <2> QED
    BY <1>4, <2>2, <2>3, <2>4 DEF RemoveSpans, TypeOK, helperVars, historyVars
<1>5. CASE TestCell
  BY <1>5 DEF TestCell, TypeOK, helperVars, gridVars, calcVars, historyVars
<1>6. CASE RemoveCell
  <2>1. visited \in Cells
    BY <1>6 DEF RemoveCell, TypeOK
  <2>2. counter' \in CounterType
    <3>1. Without(counter[visited], Hours) \in [Hours -> Nat]
      BY <2>1, WithoutType DEF TypeOK, CounterType
    <3> QED
      BY <1>6, <2>1, <3>1 DEF RemoveCell, TypeOK, CounterType
  <2>3. /\ spans' \in [Cells -> SUBSET Hours] /\ missed' \in [Cells -> SUBSET Hours]
        /\ grid' \subseteq Cells /\ disturbed' \subseteq Cells
    BY <1>6, <2>1 DEF RemoveCell, TypeOK
  <2>4. attached' \in BOOLEAN
    BY <1>6 DEF RemoveCell, TypeOK
  <2> QED
    BY <1>6, <2>2, <2>3, <2>4 DEF RemoveCell, TypeOK, helperVars
<1>7. CASE FinishTrim
  BY <1>7 DEF FinishTrim, TypeOK, gridVars, calcVars, historyVars
<1> QED
  BY <1>1, <1>2, <1>3, <1>4, <1>5, <1>6, <1>7 DEF Purge

LEMMA NextType == TypeOK /\ [Next]_vars => TypeOK'
<1> SUFFICES ASSUME TypeOK, [Next]_vars PROVE TypeOK'
  OBVIOUS
<1>1. CASE UNCHANGED vars
  BY <1>1 DEF TypeOK, vars, helperVars, gridVars, calcVars, purgeVars, historyVars
<1> QED
  BY <1>1, CalculatorType, PurgeType DEF Next, CalculatorThread, Quiescent

(* Every variable keeps its type, whatever the two threads do.              *)
THEOREM TypeCorrect == Spec => []TypeOK
  BY InitType, NextType, PTL DEF Spec
-----------------------------------------------------------------------------
(* The trim loop removes exactly the hours before the trim point, as long   *)
(* as the milliseconds between the two dates fit a Java int.                *)

LEMMA DivOfProduct ==
  ASSUME NEW g \in Nat, NEW m \in Nat \ {0}
  PROVE  (g * m) \div m = g
  BY Z3

LEMMA ToIntExact ==
  ASSUME NEW ms \in Nat, ms < IntSpan \div 2
  PROVE  ToInt(ms) = ms
<1>1. IntSpan \in Nat \ {0} /\ IntSpan \div 2 \in Nat /\ 2 * (IntSpan \div 2) <= IntSpan
  BY WindowAssumption, Z3
<1>2. ms + IntSpan \div 2 \in 0 .. IntSpan - 1
  BY <1>1
<1>3. (ms + IntSpan \div 2) % IntSpan = ms + IntSpan \div 2
  BY <1>1, <1>2
<1> QED
  BY <1>1, <1>3 DEF ToInt

NoOverflow == LastHour * MsPerHour < IntSpan \div 2

LEMMA GapFits ==
  ASSUME NoOverflow, NEW g \in 0 .. LastHour
  PROVE  g * MsPerHour \in Nat /\ g * MsPerHour < IntSpan \div 2
<1>1. LastHour \in Nat /\ MsPerHour \in Nat /\ IntSpan \div 2 \in Nat
  BY WindowAssumption, Z3
<1>2. g * MsPerHour \in Nat /\ g * MsPerHour <= LastHour * MsPerHour
  BY <1>1, Z3
<1> QED
  BY <1>1, <1>2 DEF NoOverflow

LEMMA HoursToRemoveExact ==
  ASSUME NoOverflow, trimPoint - firstMessage \in 0 .. LastHour
  PROVE  HoursToRemove = trimPoint - firstMessage
<1> DEFINE g == trimPoint - firstMessage
<1>1. g \in Nat /\ MsPerHour \in Nat \ {0}
  BY WindowAssumption
<1>2. ToInt(g * MsPerHour) = g * MsPerHour /\ g * MsPerHour \in Nat
  BY GapFits, ToIntExact
<1>3. (g * MsPerHour) \div MsPerHour = g
  BY <1>1, DivOfProduct
<1> HIDE DEF g
<1>4. (IF g * MsPerHour < 0 THEN 0 ELSE (g * MsPerHour) \div MsPerHour) = g
  BY <1>2, <1>3
<1> QED
  BY <1>2, <1>4 DEF HoursToRemove, g
-----------------------------------------------------------------------------
(* The strengthening of NoStaleSpans.                                       *)

Trimming == purgePc \notin {"asleep", "trim"}

(* Both dates the Purger computes lie at least a window behind the newest   *)
(* message, and never before the first hour by more than a window.          *)
DatesBounded ==
  /\ firstMessage \in 1 - MaxWindowSize .. newest + 1 - MaxWindowSize \/ firstMessage = FirstHour
  /\ Trimming => trimPoint \in 1 - MaxWindowSize .. newest + 1 - MaxWindowSize
  /\ latestMessage <= newest

(* The cell of the signal being counted is in the grid until the Purger     *)
(* removes it under the calculator.                                         *)
PendingInGrid == attached /\ calcPc \in {"span", "count"} => cell \in grid

SpansInGrid == \A c \in Cells : spans[c] # {} => c \in grid

SpansInWindow == \A c \in Cells : \A h \in spans[c] : h >= firstMessage \/ h \in missed[c]

(* While a trim is running, a span from before the trim point is in a cell  *)
(* the Purger has yet to visit or is visiting, or was put behind its back.  *)
Swept ==
  Trimming =>
    \A c \in Cells : \A h \in spans[c] :
      h >= trimPoint \/ c \in toVisit \/ (purgePc = "spans" /\ c = visited) \/ h \in missed[c]

IInv == TypeOK /\ DatesBounded /\ PendingInGrid /\ SpansInGrid /\ SpansInWindow /\ Swept

LEMMA InitIInv == Init => IInv
<1> SUFFICES ASSUME Init PROVE IInv
  OBVIOUS
<1>1. TypeOK
  BY InitType
<1> QED
  BY <1>1, WindowAssumption
     DEF Init, IInv, DatesBounded, PendingInGrid, SpansInGrid, SpansInWindow, Swept, Trimming, Hours

LEMMA IntervalGrows ==
  ASSUME NEW a \in Int, NEW b \in Int, b >= a, NEW m \in Nat
  PROVE  1 - m .. a + 1 - m \subseteq 1 - m .. b + 1 - m
  OBVIOUS

LEMMA CalculatorStep ==
  ASSUME IInv, CalculatorThread
  PROVE  IInv'
<1> USE WindowAssumption
<1>t. TypeOK'
  BY CalculatorType DEF IInv
<1>0. ASSUME NEW h \in Hours, Arrive(h) PROVE IInv'
  <2>1. UNCHANGED <<firstMessage, gridVars, calcVars, purgeVars, missed>>
    BY <1>0 DEF Arrive
  <2>2. newest' >= newest /\ h <= newest' /\ latestMessage' = h /\ newest \in Int /\ h \in Int
        /\ newest' \in Int /\ MaxWindowSize \in Nat
    BY <1>0 DEF Arrive, FloorDate, IInv, TypeOK, Hours
  <2>3. DatesBounded'
    <3>1. 1 - MaxWindowSize .. newest + 1 - MaxWindowSize \subseteq
            1 - MaxWindowSize .. newest' + 1 - MaxWindowSize
      <4> DEFINE n == newest'
      <4>1. n \in Int /\ n >= newest /\ newest \in Int /\ MaxWindowSize \in Nat
        BY <2>2
      <4> HIDE DEF n
      <4>2. 1 - MaxWindowSize .. newest + 1 - MaxWindowSize \subseteq 1 - MaxWindowSize .. n + 1 - MaxWindowSize
        BY <4>1, IntervalGrows
      <4> QED
        BY <4>2 DEF n
    <3>2. DatesBounded
      BY DEF IInv
    <3> QED
      BY <2>1, <2>2, <3>1, <3>2 DEF DatesBounded, Trimming, purgeVars
  <2> QED
    BY <1>t, <2>1, <2>3
       DEF IInv, PendingInGrid, SpansInGrid, SpansInWindow, Swept, Trimming, gridVars, calcVars, purgeVars
<1>1. ASSUME NEW c \in Cells, NEW h \in Hours, Calculate(c, h) PROVE IInv'
  <2>1. UNCHANGED <<helperVars, gridVars, purgeVars, newest, missed>> /\ calcPc' = "cell"
    BY <1>1 DEF Calculate
  <2> QED
    BY <1>t, <2>1
       DEF IInv, DatesBounded, PendingInGrid, SpansInGrid, SpansInWindow, Swept, Trimming,
           helperVars, gridVars, purgeVars
<1>2. CASE FindCell
  <2>1. /\ UNCHANGED <<firstMessage, latestMessage, newest, spans, missed, purgePc, trimPoint, visited, hour,
                       cell>>
        /\ grid' = grid \cup {cell} /\ toVisit \subseteq toVisit' /\ calcPc = "cell"
    BY <1>2 DEF FindCell, helperVars, historyVars
  <2>2. PendingInGrid'
    BY <2>1 DEF IInv, PendingInGrid
  <2> QED
    BY <1>t, <2>1, <2>2 DEF IInv, DatesBounded, SpansInGrid, SpansInWindow, Swept, Trimming
<1>3. CASE FindSpan
  <2>1. /\ UNCHANGED <<firstMessage, latestMessage, newest, grid, purgePc, trimPoint, toVisit, visited,
                       hour, cell>>
        /\ calcPc = "span" /\ calcPc' = "count" /\ (attached' => attached)
        /\ \/ spans' = spans /\ missed' = missed
           \/ /\ attached /\ spans' = [spans EXCEPT ![cell] = @ \cup {hour}]
              /\ missed' = IF BehindPurger THEN [missed EXCEPT ![cell] = @ \cup {hour}] ELSE missed
    BY <1>3 DEF FindSpan, helperVars, purgeVars
  <2>2. cell \in Cells /\ hour \in Int /\ firstMessage \in Int /\ trimPoint \in Int
    BY <2>1 DEF IInv, TypeOK, Hours
  <2>3. \A c \in Cells : /\ missed[c] \subseteq missed'[c]
                         /\ \A h \in spans'[c] :
                              h \in spans[c] \/ (h = hour /\ c = cell /\ attached
                                                 /\ (BehindPurger => h \in missed'[c]))
    BY <2>1, <2>2 DEF IInv, TypeOK
  <2>4. PendingInGrid'
    BY <2>1 DEF IInv, PendingInGrid
  <2>5. SpansInGrid'
    BY <2>1, <2>3 DEF IInv, SpansInGrid, PendingInGrid
  <2>6. SpansInWindow' /\ Swept'
    BY <2>1, <2>2, <2>3 DEF IInv, SpansInWindow, Swept, Trimming, BehindPurger, MapContended
  <2> QED
    BY <1>t, <2>1, <2>4, <2>5, <2>6 DEF IInv, DatesBounded, Trimming
<1>4. CASE Count
  <2>1. /\ UNCHANGED <<firstMessage, latestMessage, newest, grid, spans, missed, purgePc, trimPoint,
                       toVisit, visited, hour, cell>>
        /\ calcPc' = "idle"
    BY <1>4 DEF Count, helperVars, purgeVars
  <2> QED
    BY <1>t, <2>1
       DEF IInv, DatesBounded, PendingInGrid, SpansInGrid, SpansInWindow, Swept, Trimming
<1> QED
  BY <1>0, <1>1, <1>2, <1>3, <1>4 DEF CalculatorThread, Calculator

LEMMA PurgeStep ==
  ASSUME IInv, NoOverflow, Purge
  PROVE  IInv'
<1> USE WindowAssumption
<1>t. TypeOK'
  BY PurgeType DEF IInv
<1>1. CASE CheckWindow
  <2>1. purgePc' = "trim" /\ UNCHANGED <<helperVars, gridVars, calcVars, trimPoint, historyVars>>
    BY <1>1 DEF CheckWindow
  <2> QED
    BY <1>t, <2>1
       DEF IInv, DatesBounded, PendingInGrid, SpansInGrid, SpansInWindow, Swept, Trimming,
           helperVars, gridVars, calcVars, historyVars
<1>2. CASE StartTrim
  <2>1. /\ UNCHANGED <<helperVars, gridVars, calcVars, historyVars>>
        /\ trimPoint' = latestMessage + 1 - MaxWindowSize /\ toVisit' = grid /\ purgePc' = "next"
    BY <1>2 DEF StartTrim
  <2>2. DatesBounded'
    BY <2>1 DEF IInv, TypeOK, DatesBounded, Trimming, helperVars, historyVars, Hours
  <2>3. Swept'
    BY <2>1 DEF IInv, SpansInGrid, Swept, gridVars
  <2> QED
    BY <1>t, <2>1, <2>2, <2>3
       DEF IInv, PendingInGrid, SpansInGrid, SpansInWindow, helperVars, gridVars, calcVars, historyVars
<1>3. ASSUME NEW c \in Cells, NextCell(c) PROVE IInv'
  <2>1. /\ UNCHANGED <<helperVars, gridVars, calcVars, trimPoint, historyVars>>
        /\ purgePc = "next" /\ purgePc' = "spans" /\ visited' = c /\ toVisit' = toVisit \ {c}
    BY <1>3 DEF NextCell
  <2>2. Swept'
    BY <2>1 DEF IInv, Swept, Trimming, gridVars, historyVars
  <2> QED
    BY <1>t, <2>1, <2>2
       DEF IInv, DatesBounded, PendingInGrid, SpansInGrid, SpansInWindow, Trimming,
           helperVars, gridVars, calcVars, historyVars
<1>4. CASE RemoveSpans
  <2>1. /\ UNCHANGED <<helperVars, grid, calcPc, cell, hour, trimPoint, toVisit, visited, newest>>
        /\ purgePc = "spans" /\ purgePc' = "test" /\ visited \in Cells
        /\ spans' = [spans EXCEPT ![visited] = @ \ Expired]
        /\ missed' = [missed EXCEPT ![visited] = @ \ Expired]
        /\ attached' => attached
    BY <1>4 DEF RemoveSpans, IInv, TypeOK
  <2>2. \A c \in Cells : /\ spans'[c] \subseteq spans[c]
                         /\ \A h \in spans'[c] : h \in missed[c] => h \in missed'[c]
    BY <2>1 DEF IInv, TypeOK
  <2>3. \A h \in spans'[visited] : h >= trimPoint \/ h \in missed'[visited]
    <3> SUFFICES ASSUME NEW h \in spans'[visited], h \notin missed'[visited] PROVE h >= trimPoint
      OBVIOUS
    <3>1. h \in Hours /\ h >= firstMessage /\ h \notin Expired
      <4>1. h \in spans[visited] /\ h \notin missed[visited]
        BY <2>1, <2>2
      <4> QED
        BY <2>1, <4>1 DEF IInv, TypeOK, SpansInWindow
    <3>2. CASE trimPoint < firstMessage
      BY <3>1, <3>2 DEF IInv, TypeOK, Hours
    <3>3. CASE trimPoint >= firstMessage
      <4>1. Trimming
        BY <2>1 DEF Trimming
      <4>2. newest \in 0 .. LastHour
        BY DEF IInv, TypeOK, Hours
      <4>3. trimPoint - firstMessage \in 0 .. LastHour
        BY <3>3, <4>1, <4>2 DEF IInv, TypeOK, DatesBounded, Hours
      <4>4. HoursToRemove = trimPoint - firstMessage
        BY <4>3, HoursToRemoveExact
      <4> QED
        BY <3>1, <4>4 DEF Expired, IInv, TypeOK, Hours
    <3> QED
      BY <3>2, <3>3 DEF IInv, TypeOK
  <2>4. Swept'
    BY <2>1, <2>2, <2>3 DEF IInv, Swept, Trimming
  <2>5. PendingInGrid'
    BY <2>1 DEF IInv, PendingInGrid
  <2>6. SpansInGrid' /\ SpansInWindow'
    BY <2>1, <2>2 DEF IInv, SpansInGrid, SpansInWindow, helperVars
  <2> QED
    BY <1>t, <2>1, <2>4, <2>5, <2>6 DEF IInv, DatesBounded, Trimming, helperVars
<1>5. CASE TestCell
  <2>1. /\ UNCHANGED <<helperVars, gridVars, calcVars, trimPoint, toVisit, visited, historyVars>>
        /\ purgePc = "test" /\ purgePc' \in {"remove", "next"}
    BY <1>5 DEF TestCell
  <2> QED
    BY <1>t, <2>1
       DEF IInv, DatesBounded, PendingInGrid, SpansInGrid, SpansInWindow, Swept, Trimming,
           helperVars, gridVars, calcVars, historyVars
<1>6. CASE RemoveCell
  <2>1. /\ UNCHANGED <<helperVars, calcPc, cell, hour, trimPoint, toVisit, visited, newest>>
        /\ purgePc = "remove" /\ purgePc' = "next" /\ visited \in Cells
        /\ grid' = grid \ {visited}
        /\ spans' = [spans EXCEPT ![visited] = {}]
        /\ missed' = [missed EXCEPT ![visited] = {}]
        /\ attached' = (attached /\ ~(calcPc \in {"span", "count"} /\ cell = visited))
    BY <1>6 DEF RemoveCell, IInv, TypeOK
  <2>2. \A c \in Cells : /\ spans'[c] = IF c = visited THEN {} ELSE spans[c]
                         /\ c # visited => missed'[c] = missed[c]
    BY <2>1 DEF IInv, TypeOK
  <2>3. PendingInGrid'
    BY <2>1 DEF IInv, PendingInGrid
  <2>4. SpansInGrid' /\ SpansInWindow' /\ Swept'
    BY <2>1, <2>2 DEF IInv, SpansInGrid, SpansInWindow, Swept, Trimming, helperVars
  <2> QED
    BY <1>t, <2>1, <2>3, <2>4 DEF IInv, DatesBounded, Trimming, helperVars
<1>7. CASE FinishTrim
  <2>1. /\ UNCHANGED <<latestMessage, gridVars, calcVars, trimPoint, toVisit, visited, historyVars>>
        /\ purgePc = "next" /\ purgePc' = "asleep" /\ toVisit = {} /\ firstMessage' = trimPoint
    BY <1>7 DEF FinishTrim
  <2>2. DatesBounded' /\ Swept'
    BY <2>1 DEF IInv, DatesBounded, Swept, Trimming, historyVars
  <2>3. SpansInWindow'
    BY <2>1 DEF IInv, Swept, SpansInWindow, Trimming, gridVars, historyVars
  <2> QED
    BY <1>t, <2>1, <2>2, <2>3
       DEF IInv, PendingInGrid, SpansInGrid, gridVars, calcVars, historyVars
<1> QED
  BY <1>1, <1>2, <1>3, <1>4, <1>5, <1>6, <1>7 DEF Purge

LEMMA NextIInv ==
  ASSUME NoOverflow
  PROVE  IInv /\ [Next]_vars => IInv'
<1> SUFFICES ASSUME IInv, [Next]_vars PROVE IInv'
  OBVIOUS
<1>1. CASE UNCHANGED vars
  BY <1>1
     DEF IInv, TypeOK, DatesBounded, PendingInGrid, SpansInGrid, SpansInWindow, Swept, Trimming,
         vars, helperVars, gridVars, calcVars, purgeVars, historyVars
<1> QED
  BY <1>1, CalculatorStep, PurgeStep DEF Next, CalculatorThread, Quiescent

(* When the window's milliseconds fit a Java int, a span from before the    *)
(* window that is found after a trim was put behind the Purger's back: a    *)
(* trim removes all that is there when it starts and all that is put where  *)
(* it has yet to come by, however old the signals are.                      *)
THEOREM TrimLeavesNoStaleSpans ==
  ASSUME NoOverflow
  PROVE  Spec => []NoStaleSpans
<1>1. IInv => NoStaleSpans
  BY DEF IInv, SpansInWindow, NoStaleSpans
<1>2. IInv /\ [Next]_vars => IInv'
  BY NextIInv
<1> QED
  BY <1>1, <1>2, InitIInv, PTL DEF Spec
-----------------------------------------------------------------------------
(* The beginning of the window.  Between the test of the window and the     *)
(* trim point a late message can set latestMessage back, by no more than    *)
(* messages are late.                                                       *)
DatesAdvance ==
  /\ latestMessage >= newest - Lateness /\ latestMessage <= newest
  /\ purgePc = "trim" => newest + 1 - MaxWindowSize > firstMessage
  /\ Trimming => trimPoint > firstMessage - Lateness
  /\ ~Trimming => trimPoint = firstMessage

LEMMA NextDatesAdvance == TypeOK /\ DatesAdvance /\ [Next]_vars => DatesAdvance'
<1> SUFFICES ASSUME TypeOK, DatesAdvance, [Next]_vars PROVE DatesAdvance'
  OBVIOUS
<1> USE WindowAssumption
<1>0. /\ firstMessage \in Int /\ trimPoint \in Int /\ latestMessage \in Int /\ newest \in Int
      /\ Lateness \in Nat /\ MaxWindowSize \in Nat
  BY DEF TypeOK, Hours
<1>1. ASSUME NEW h \in Hours, Arrive(h) PROVE DatesAdvance'
  <2>1. /\ latestMessage' = h /\ h >= newest - Lateness /\ h \in Int
        /\ newest' = (IF h > newest THEN h ELSE newest)
        /\ UNCHANGED <<firstMessage, purgePc, trimPoint>>
    BY <1>1 DEF Arrive, FloorDate, purgeVars, Hours
  <2>2. newest' \in Int /\ newest' >= newest /\ h <= newest' /\ h >= newest' - Lateness
    <3>1. CASE h > newest
      <4>1. newest' = h
        BY <2>1, <3>1
      <4> QED
        BY <1>0, <2>1, <3>1, <4>1
    <3>2. CASE ~(h > newest)
      <4>1. newest' = newest
        BY <2>1, <3>2
      <4> QED
        BY <1>0, <2>1, <3>2, <4>1
    <3> QED
      BY <3>1, <3>2
  <2>3. purgePc = "trim" => newest' + 1 - MaxWindowSize > firstMessage
    <3> DEFINE n == newest'
    <3>1. n \in Int /\ n >= newest /\ (purgePc = "trim" => newest + 1 - MaxWindowSize > firstMessage)
      BY <2>2 DEF DatesAdvance
    <3> HIDE DEF n
    <3>2. purgePc = "trim" => n + 1 - MaxWindowSize > firstMessage
      BY <1>0, <3>1
    <3> QED
      BY <3>2 DEF n
  <2> QED
    BY <1>0, <2>1, <2>2, <2>3 DEF DatesAdvance, Trimming
<1>2. CASE CheckWindow
  <2>1. /\ UNCHANGED <<helperVars, trimPoint, newest>> /\ purgePc = "asleep" /\ purgePc' = "trim"
        /\ latestMessage + 1 - firstMessage > MaxWindowSize
    BY <1>2 DEF CheckWindow, WindowExceeded, CurrentWindowSize, historyVars
  <2>2. newest + 1 - MaxWindowSize > firstMessage
    BY <1>0, <2>1 DEF DatesAdvance
  <2> QED
    BY <2>1, <2>2 DEF DatesAdvance, Trimming, helperVars
<1>3. CASE StartTrim
  <2>1. /\ UNCHANGED <<helperVars, newest>> /\ purgePc = "trim" /\ purgePc' = "next"
        /\ trimPoint' = latestMessage + 1 - MaxWindowSize
    BY <1>3 DEF StartTrim, historyVars
  <2>2. latestMessage + 1 - MaxWindowSize > firstMessage - Lateness
    BY <1>0, <2>1 DEF DatesAdvance
  <2> QED
    BY <2>1, <2>2 DEF DatesAdvance, Trimming, helperVars
<1>4. CASE FinishTrim
  <2>1. /\ UNCHANGED <<latestMessage, trimPoint, newest>> /\ purgePc' = "asleep"
        /\ firstMessage' = trimPoint
    BY <1>4 DEF FinishTrim, historyVars
  <2> QED
    BY <2>1 DEF DatesAdvance, Trimming
<1>5. CASE UNCHANGED <<helperVars, newest, trimPoint>> /\ Trimming' = Trimming
           /\ (purgePc' = "trim" => purgePc = "trim")
  BY <1>5 DEF DatesAdvance, helperVars
<1> QED
  BY <1>1, <1>2, <1>3, <1>4, <1>5
     DEF Next, Calculator, Purge, Quiescent, Calculate, FindCell, FindSpan, Count, NextCell, RemoveSpans,
         TestCell, RemoveCell, Trimming, vars, historyVars, purgeVars

LEMMA DatesAdvanceHolds == Spec => [](TypeOK /\ DatesAdvance)
<1>1. Init => DatesAdvance
  BY WindowAssumption DEF Init, DatesAdvance, Trimming, Hours
<1> QED
  BY <1>1, InitType, NextType, NextDatesAdvance, PTL DEF Spec

(* The beginning of the window never moves back by as much as messages are  *)
(* late, although the Purger reads latestMessage twice without a lock; so   *)
(* not at all when they are late by an hour at most.                        *)
THEOREM WindowAdvances == Spec => FirstMessageAdvances
<1>1. TypeOK /\ DatesAdvance /\ [Next]_vars
        => [firstMessage' # firstMessage => firstMessage' > firstMessage - Lateness]_vars
  <2> SUFFICES ASSUME TypeOK, DatesAdvance, [Next]_vars
               PROVE  firstMessage' # firstMessage => firstMessage' > firstMessage - Lateness
    OBVIOUS
  <2>0. firstMessage \in Int /\ trimPoint \in Int /\ Lateness \in Nat
    BY WindowAssumption DEF TypeOK
  <2>1. CASE FinishTrim
    <3>1. firstMessage' = trimPoint /\ Trimming
      BY <2>1 DEF FinishTrim, Trimming
    <3> QED
      BY <2>0, <3>1 DEF DatesAdvance
  <2>2. CASE UNCHANGED firstMessage
    BY <2>2
  <2> QED
    BY <2>1, <2>2
       DEF Next, Calculator, Purge, Quiescent, Arrive, Calculate, FindCell, FindSpan, Count, CheckWindow,
           StartTrim, NextCell, RemoveSpans, TestCell, RemoveCell, vars, helperVars
<1> QED
  BY <1>1, DatesAdvanceHolds, PTL DEF Spec, FirstMessageAdvances
-----------------------------------------------------------------------------
(* What is kept.  Messages at most an hour late never set the trim point    *)
(* before the beginning of the window; with messages later than that the    *)
(* window moves back over hours that are gone already.                      *)
LateByAnHourAtMost == Lateness <= 1

KeptWhereCounted ==
  \A c \in Cells \ disturbed, h \in Hours : h >= trimPoint => counter[c][h] = counted[c][h]

(* A signal is counted in a lost object only in a cell the Purger has       *)
(* disturbed or in an hour that is being trimmed.                           *)
DetachedOnlyBelow ==
  calcPc # "idle" /\ ~attached => cell \in disturbed \/ hour < trimPoint

Kept == KeptWhereCounted /\ DetachedOnlyBelow

(* The cast to int can only make the gap smaller, so an overflow removes    *)
(* too few hours, never too many.                                           *)
LEMMA ToIntAtMost ==
  ASSUME NEW ms \in Nat
  PROVE  ToInt(ms) \in Int /\ ToInt(ms) <= ms
<1> DEFINE half == IntSpan \div 2
           wrapped == (ms + half) % IntSpan
<1>1. IntSpan \in Nat \ {0} /\ half \in Nat
  BY WindowAssumption, Z3
<1>2. wrapped \in Nat /\ wrapped <= ms + half
  <2> HIDE DEF half
  <2>1. ms + half \in Nat
    BY <1>1
  <2> QED
    BY <1>1, <2>1, Z3
<1> HIDE DEF half, wrapped
<1>3. wrapped - half \in Int /\ wrapped - half <= ms
  BY <1>1, <1>2
<1> QED
  BY <1>3 DEF ToInt, half, wrapped

LEMMA DivAtMost ==
  ASSUME NEW x \in Nat, NEW g \in Nat, NEW m \in Nat \ {0}, x <= g * m
  PROVE  x \div m \in Nat /\ x \div m <= g
<1>1. x \div m \in Nat /\ m * (x \div m) <= x
  BY Z3
<1> QED
  BY <1>1, Z3

LEMMA RemovesNoMore ==
  ASSUME TypeOK, trimPoint >= firstMessage
  PROVE  \A h \in Hours : h \in Expired => h < trimPoint
<1> DEFINE g == trimPoint - firstMessage
           ms == ToInt(g * MsPerHour)
<1>1. g \in Nat /\ MsPerHour \in Nat \ {0} /\ firstMessage \in Int /\ trimPoint \in Int
  BY WindowAssumption DEF TypeOK
<1>2. g * MsPerHour \in Nat
  <2> HIDE DEF g
  <2> QED
    BY <1>1, Z3
<1>3. ms \in Int /\ ms <= g * MsPerHour
  BY <1>2, ToIntAtMost
<1>4. HoursToRemove = IF ms < 0 THEN 0 ELSE ms \div MsPerHour
  BY DEF HoursToRemove
<1>5. HoursToRemove \in Nat /\ HoursToRemove <= g
  <2> HIDE DEF g, ms
  <2>1. CASE ms < 0
    BY <1>1, <1>4, <2>1
  <2>2. CASE ~(ms < 0)
    <3>1. ms \in Nat /\ HoursToRemove = ms \div MsPerHour
      BY <1>3, <1>4, <2>2
    <3> QED
      BY <1>1, <1>3, <3>1, DivAtMost
  <2> QED
    BY <2>1, <2>2
<1> QED
  BY <1>1, <1>5 DEF Expired, Hours

LEMMA NextKept ==
  ASSUME LateByAnHourAtMost, TypeOK, DatesAdvance, Kept, [Next]_vars
  PROVE  Kept'
<1> USE WindowAssumption DEF LateByAnHourAtMost
<1>0. /\ trimPoint \in Int /\ firstMessage \in Int /\ newest \in Int /\ latestMessage \in Int
      /\ Lateness \in Nat /\ MaxWindowSize \in Nat
      /\ counter \in CounterType /\ counted \in CounterType /\ hour \in Hours
      /\ Trimming => trimPoint >= firstMessage
  BY DEF TypeOK, DatesAdvance, Hours
<1>1. ASSUME NEW c \in Cells, NEW h \in Hours, Calculate(c, h) PROVE Kept'
  BY <1>1 DEF Calculate, Kept, KeptWhereCounted, DetachedOnlyBelow, gridVars, purgeVars
<1>2. CASE FindCell
  BY <1>2 DEF FindCell, Kept, KeptWhereCounted, DetachedOnlyBelow, historyVars
<1>3. CASE FindSpan
  <2>1. /\ UNCHANGED <<counter, counted, trimPoint, cell, hour>> /\ calcPc = "span"
        /\ disturbed \subseteq disturbed'
        /\ \/ attached' = attached /\ disturbed' = disturbed
           \/ cell \in disturbed'
    BY <1>3 DEF FindSpan, purgeVars
  <2> QED
    BY <2>1 DEF Kept, KeptWhereCounted, DetachedOnlyBelow
<1>4. CASE Count
  <2>1. /\ cell \in Cells /\ calcPc = "count" /\ calcPc' = "idle" /\ UNCHANGED <<disturbed, trimPoint>>
        /\ counted' = [counted EXCEPT ![cell][hour] = @ + 1]
        /\ counter' = IF attached THEN [counter EXCEPT ![cell][hour] = @ + 1] ELSE counter
    BY <1>4 DEF Count, TypeOK, purgeVars
  <2>2. ASSUME NEW c \in Cells \ disturbed, NEW h \in Hours, h >= trimPoint
        PROVE  counter'[c][h] = counted'[c][h]
    <3>1. counter[c][h] = counted[c][h]
      BY <2>2 DEF Kept, KeptWhereCounted
    <3>2. CASE c = cell /\ h = hour
      <4>1. attached
        BY <1>0, <2>1, <2>2, <3>2 DEF Kept, DetachedOnlyBelow, Hours
      <4> QED
        BY <1>0, <2>1, <3>1, <3>2, <4>1 DEF CounterType
    <3>3. CASE ~(c = cell /\ h = hour)
      BY <1>0, <2>1, <3>1, <3>3 DEF CounterType
    <3> QED
      BY <3>2, <3>3
  <2> QED
    BY <2>1, <2>2 DEF Kept, KeptWhereCounted, DetachedOnlyBelow
<1>5. CASE StartTrim
  <2>1. /\ UNCHANGED <<counter, counted, disturbed, calcPc, attached, cell, hour>>
        /\ trimPoint = firstMessage /\ trimPoint' >= trimPoint /\ trimPoint' \in Int
    <3>1. trimPoint' = latestMessage + 1 - MaxWindowSize /\ purgePc = "trim"
      BY <1>5 DEF StartTrim
    <3>2. trimPoint' >= firstMessage /\ trimPoint' \in Int
      BY <1>0, <3>1 DEF DatesAdvance
    <3> QED
      BY <1>5, <3>1, <3>2 DEF StartTrim, gridVars, calcVars, historyVars, DatesAdvance, Trimming
  <2>2. \A h \in Hours : (h >= trimPoint' => h >= trimPoint) /\ (h < trimPoint => h < trimPoint')
    BY <1>0, <2>1 DEF Hours
  <2> QED
    BY <1>0, <2>1, <2>2 DEF Kept, KeptWhereCounted, DetachedOnlyBelow
<1>6. CASE RemoveSpans
  <2>1. /\ UNCHANGED <<counted, disturbed, trimPoint, calcPc, cell, hour>> /\ visited \in Cells
        /\ purgePc = "spans"
        /\ counter' = [counter EXCEPT ![visited] = Without(@, Expired)]
        /\ attached' = (attached /\ ~(calcPc = "count" /\ cell = visited /\ hour \in Expired))
    BY <1>6 DEF RemoveSpans, TypeOK
  <2>2. \A h \in Hours : h \in Expired => h < trimPoint
    BY <1>0, <2>1, RemovesNoMore DEF Trimming
  <2>3. KeptWhereCounted'
    <3> SUFFICES ASSUME NEW c \in Cells \ disturbed, NEW h \in Hours, h >= trimPoint
                 PROVE  counter'[c][h] = counted[c][h]
      BY <2>1 DEF KeptWhereCounted
    <3>1. h \notin Expired
      BY <1>0, <2>2 DEF Hours
    <3>2. counter'[c][h] = counter[c][h]
      BY <1>0, <2>1, <3>1 DEF Without, CounterType
    <3> QED
      BY <3>2 DEF Kept, KeptWhereCounted
  <2>4. DetachedOnlyBelow'
    BY <1>0, <2>1, <2>2 DEF Kept, DetachedOnlyBelow
  <2> QED
    BY <2>3, <2>4 DEF Kept
<1>7. CASE RemoveCell
  <2>1. /\ UNCHANGED <<counted, trimPoint, calcPc, cell, hour>> /\ visited \in Cells
        /\ counter' = [counter EXCEPT ![visited] = Without(@, Hours)]
        /\ disturbed' = disturbed \cup {visited}
        /\ attached' = (attached /\ ~(calcPc \in {"span", "count"} /\ cell = visited))
    BY <1>7 DEF RemoveCell, TypeOK
  <2>2. KeptWhereCounted'
    BY <1>0, <2>1 DEF Kept, KeptWhereCounted, CounterType
  <2>3. DetachedOnlyBelow'
    BY <2>1 DEF Kept, DetachedOnlyBelow
  <2> QED
    BY <2>2, <2>3 DEF Kept
<1>8. CASE UNCHANGED <<counter, counted, disturbed, trimPoint, calcPc, attached, cell, hour>>
  BY <1>8 DEF Kept, KeptWhereCounted, DetachedOnlyBelow
<1> QED
  BY <1>1, <1>2, <1>3, <1>4, <1>5, <1>6, <1>7, <1>8
     DEF Next, Calculator, Purge, Quiescent, Arrive, CheckWindow, NextCell, TestCell, FinishTrim,
         vars, gridVars, calcVars, historyVars, purgeVars

(* When no message is late by more than an hour, a signal counted in an     *)
(* hour that is neither trimmed nor about to be is never lost, except in a  *)
(* cell the Purger removed or whose map it was changing at that moment;     *)
(* the overflow of the window's milliseconds does not matter here.          *)
THEOREM CountsAreKept ==
  ASSUME LateByAnHourAtMost
  PROVE  Spec => []WindowIsKept
<1>1. Init => Kept
  BY DEF Init, Kept, KeptWhereCounted, DetachedOnlyBelow
<1>2. TypeOK /\ DatesAdvance /\ Kept /\ [Next]_vars => Kept'
  BY NextKept
<1>3. TypeOK /\ DatesAdvance /\ Kept => WindowIsKept
  <2> SUFFICES ASSUME TypeOK, DatesAdvance, Kept PROVE WindowIsKept
    OBVIOUS
  <2>1. trimPoint \in Int /\ firstMessage \in Int /\ Lateness \in Nat
    BY WindowAssumption DEF TypeOK
  <2>2. TrimBound = trimPoint
    BY <2>1 DEF TrimBound, DatesAdvance, Trimming, LateByAnHourAtMost
  <2> QED
    BY <2>2 DEF Kept, KeptWhereCounted, WindowIsKept
<1> QED
  BY <1>1, <1>2, <1>3, DatesAdvanceHolds, PTL DEF Spec
=============================================================================
