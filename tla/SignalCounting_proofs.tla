------------------------- MODULE SignalCounting_proofs -------------------------
(***************************************************************************)
(* Proofs about SignalCounting for any set of ships and sources, any grid,  *)
(* buffer, hour length and transmitting periods.                            *)
(***************************************************************************)
EXTENDS CoverageQuery, SumTheorems

(* Integer division.                                                        *)
LEMMA DivBounds ==
  ASSUME NEW a \in Int, NEW d \in Nat \ {0}
  PROVE  a \div d \in Int /\ d * (a \div d) <= a /\ a < d * (a \div d) + d
  BY SMT

LEMMA QuotientAtLeast ==
  ASSUME NEW a \in Int, NEW d \in Nat \ {0}, NEW b \in Int, d * b <= a
  PROVE  b <= a \div d
<1> DEFINE q == a \div d
<1>1. q \in Int /\ a < d * q + d
  BY DivBounds
<1> HIDE DEF q
<1>2. SUFFICES ASSUME q + 1 <= b PROVE FALSE
  BY <1>1 DEF q
<1>3. d * (q + 1) <= d * b
  BY <1>1, <1>2, SMT
<1> QED
  BY <1>1, <1>3, SMT

LEMMA QuotientAtMost ==
  ASSUME NEW a \in Int, NEW d \in Nat \ {0}, NEW b \in Int, a <= d * b
  PROVE  a \div d <= b
<1> DEFINE q == a \div d
<1>1. q \in Int /\ d * q <= a
  BY DivBounds
<1> HIDE DEF q
<1>2. SUFFICES ASSUME b + 1 <= q PROVE FALSE
  BY <1>1 DEF q
<1>3. d * (b + 1) <= d * q
  BY <1>1, <1>2, SMT
<1> QED
  BY <1>1, <1>3, SMT

(* A later message is not in an earlier hour.                               *)
LEMMA HourOfMonotone ==
  ASSUME NEW t1 \in Int, NEW t2 \in Int, t1 <= t2
  PROVE  HourOf(t1) \in Int /\ HourOf(t1) <= HourOf(t2)
<1> DEFINE q == t1 \div HourLength
<1>1. q \in Int /\ HourLength * q <= t1
  BY DivBounds, CountingAssumption
<1>2. HourLength * q <= t2
  BY <1>1, CountingAssumption, SMT
<1> HIDE DEF q
<1>3. q <= t2 \div HourLength
  BY <1>1, <1>2, QuotientAtLeast, CountingAssumption
<1> QED
  BY <1>1, <1>3 DEF HourOf, q

LEMMA HourOfType ==
  ASSUME NEW t \in 0 .. 2 * LastTime
  PROVE  HourOf(t) \in Hours
<1>1. HourOf(0) = 0
  BY CountingAssumption DEF HourOf
<1>2. /\ HourOf(0) <= HourOf(t) /\ HourOf(t) \in Int
      /\ HourOf(t) <= HourOf(2 * LastTime) /\ HourOf(2 * LastTime) \in Int
  BY HourOfMonotone, CountingAssumption
<1> QED
  BY <1>1, <1>2 DEF Hours

(* The expected times of the missing signals lie before the second of the   *)
(* two messages.                                                            *)
LEMMA MissingFits ==
  ASSUME NEW gap \in Nat, NEW period \in Nat \ {0}, NEW i \in Nat \ {0},
         i <= MissingBetween(gap, period)
  PROVE  i * period \in Nat /\ i * period < gap
<1> DEFINE q == (2 * gap + period) \div (2 * period)
<1>1. gap > period
  BY DEF MissingBetween
<1>2. i <= q - 1
  BY <1>1 DEF MissingBetween
<1>3. q \in Int /\ (2 * period) * q <= 2 * gap + period
  <2>1. 2 * gap + period \in Int /\ 2 * period \in Nat \ {0}
    OBVIOUS
  <2> QED
    BY <2>1, DivBounds
<1> HIDE DEF q
<1>4. (2 * period) * (i + 1) <= (2 * period) * q
  BY <1>2, <1>3, SMT
<1>5. (2 * period) * (i + 1) = 2 * (i * period) + 2 * period /\ i * period \in Nat
  BY SMT
<1> QED
  BY <1>3, <1>4, <1>5, SMT

LEMMA GapType ==
  ASSUME NEW m1 \in Messages, NEW m2 \in Messages
  PROVE  Gap(m1, m2) \in 0 .. LastTime
  BY CountingAssumption DEF Gap, Messages

LEMMA PeriodType == \A m : Period(m) \in Nat \ {0}
  BY CountingAssumption DEF Period

(* An interpolated position lies between those of the two messages.         *)
LEMMA InterpolateBetween ==
  ASSUME NEW m1 \in Messages, NEW m2 \in Messages,
         NEW elapsed \in Nat, elapsed <= Gap(m1, m2), 0 < Gap(m1, m2)
  PROVE  Interpolate(m1, m2, elapsed) \in Cells
<1> DEFINE gap == Gap(m1, m2)
           way == m2.cell - m1.cell
           x == elapsed * way
           q == x \div gap
<1>1. gap \in Nat \ {0} /\ elapsed <= gap
  BY GapType, CountingAssumption
<1>2. way \in Int /\ m1.cell \in 0 .. LastCell /\ m1.cell + way \in 0 .. LastCell /\ LastCell \in Nat
  BY CountingAssumption DEF Messages, Cells
<1> HIDE DEF gap, way
<1>3. x \in Int
  BY <1>2
<1>4. /\ way >= 0 => gap * 0 <= x /\ x <= gap * way
      /\ way < 0 => gap * way <= x /\ x <= gap * 0
  BY <1>1, <1>2, SMT
<1> HIDE DEF x
<1>5. q \in Int
  BY <1>1, <1>3, DivBounds
<1>6. /\ way >= 0 => 0 <= q /\ q <= way
      /\ way < 0 => way <= q /\ q <= 0
  BY <1>1, <1>2, <1>3, <1>4, QuotientAtLeast, QuotientAtMost
<1> HIDE DEF q
<1>7. m1.cell + q \in Cells
  BY <1>2, <1>5, <1>6 DEF Cells
<1> QED
  BY <1>7 DEF Interpolate, q, x, way, gap

(* The i-th signal missing between two messages of a buffer.                *)
LEMMA MissingSignalType ==
  ASSUME NEW m1 \in Messages, NEW m2 \in Messages, NEW i \in Nat \ {0},
         i <= MissingBetween(Gap(m1, m2), Period(m2))
  PROVE  /\ MissingSignal(m1, m2, i) \in Signals
         /\ MissingSignal(m1, m2, i).kind = "missing"
         /\ MissingSignal(m1, m2, i).hour = HourOf(m1.time + i * Period(m2))
         /\ i * Period(m2) \in Nat /\ i * Period(m2) < Gap(m1, m2)
<1> DEFINE elapsed == i * Period(m2)
<1>1. Gap(m1, m2) \in 0 .. LastTime /\ Period(m2) \in Nat \ {0}
  BY GapType, PeriodType
<1>2. elapsed \in Nat /\ elapsed < Gap(m1, m2)
  BY <1>1, MissingFits, CountingAssumption
<1> HIDE DEF elapsed
<1>3. Interpolate(m1, m2, elapsed) \in Cells
  BY <1>1, <1>2, InterpolateBetween, CountingAssumption
<1>4. m1.time + elapsed \in 0 .. 2 * LastTime
  BY <1>1, <1>2, CountingAssumption DEF Messages
<1>5. HourOf(m1.time + elapsed) \in Hours
  BY <1>4, HourOfType
<1> QED
  BY <1>2, <1>3, <1>5 DEF MissingSignal, Signal, Signals, Kinds, elapsed

LEMMA MessageSignalType ==
  ASSUME NEW m \in Messages, NEW kind \in Kinds
  PROVE  /\ Signal(kind, m.cell, m.time) \in Signals
         /\ Signal(kind, m.cell, m.time).kind = kind
         /\ Signal(kind, m.cell, m.time).hour = HourOf(m.time)
<1>1. m.time \in 0 .. 2 * LastTime /\ m.cell \in Cells
  BY CountingAssumption DEF Messages
<1> QED
  BY <1>1, HourOfType DEF Signal, Signals

-----------------------------------------------------------------------------
(* Types.  An idle calculator has nothing left to count.                    *)

IdleIsDone == calcPc = "idle" => sources = {}
TypeInv == TypeOK /\ IdleIsDone

LEMMA InitType == Init => TypeInv
<1> SUFFICES ASSUME Init PROVE TypeInv
  OBVIOUS
<1> USE CountingAssumption
<1>1. HourOf(0) \in Hours
  BY HourOfType
<1>2. signal \in Signals
  BY <1>1 DEF Init, Signal, Signals, Kinds, Cells
<1>3. count \in [Kinds -> [AllSources -> [Cells -> [Hours -> Nat]]]]
  BY DEF Init
<1>4. buffer \in [Ships -> Seq(Messages)]
  BY DEF Init
<1> QED
  BY <1>2, <1>3, <1>4 DEF Init, TypeInv, TypeOK, IdleIsDone, ToCount

LEMMA ArriveType ==
  ASSUME TypeInv, NEW m \in Messages, Arrive(m)
  PROVE  /\ calcPc = "idle" /\ sources = {} /\ located = {}
         /\ messages' \in 0 .. MaxMessages /\ newest' \in 0 .. LastTime
  BY CountingAssumption DEF Arrive, TypeInv, TypeOK, IdleIsDone, ToCount, Messages

LEMMA VsiType ==
  ASSUME TypeInv, NEW m \in Messages, CalculateVsi(m)
  PROVE  TypeInv'
<1>1. Arrive(m)
  BY DEF CalculateVsi
<1>2. signal' \in Signals
  BY MessageSignalType DEF CalculateVsi, Kinds
<1>3. sources' \subseteq Sources
  BY DEF CalculateVsi, Messages
<1> QED
  BY <1>1, <1>2, <1>3, ArriveType
  DEF CalculateVsi, Arrive, TypeInv, TypeOK, IdleIsDone, ToCount, countVars

LEMMA PositionType ==
  ASSUME TypeInv, NEW m \in Messages, CalculatePosition(m)
  PROVE  TypeInv'
<1> DEFINE buf == Append(buffer[m.ship], m)
<1>1. Arrive(m) /\ m.ship \in Ships
  BY DEF CalculatePosition, Messages
<1>2. buf \in Seq(Messages)
  BY <1>1 DEF TypeInv, TypeOK
<1> HIDE DEF buf
<1>3. /\ buffer' = [buffer EXCEPT ![m.ship] = buf]
      /\ buffer' \in [Ships -> Seq(Messages)] /\ buffer'[m.ship] = buf
  BY <1>1, <1>2 DEF CalculatePosition, TypeInv, TypeOK, buf
<1>4. seen' \in [Ships -> Nat]
  BY <1>1 DEF CalculatePosition, TypeInv, TypeOK
<1>5. messages' \in 0 .. MaxMessages /\ newest' \in 0 .. LastTime /\ calcPc = "idle" /\ located = {}
  BY <1>1, ArriveType
<1>6. UNCHANGED <<grid, spans, count, total, located, again>>
  BY DEF CalculatePosition, Arrive, countVars
<1>7. CASE BufferIsDue(buf)
  <2>1. /\ ship' = m.ship /\ pair' = 1 /\ point' = 0 /\ calcPc' = "super"
        /\ signal' = Signal("received", buf[1].cell, buf[1].time) /\ sources' = buf[1].sources
    BY <1>7 DEF CalculatePosition, buf
  <2>2. Len(buf) \in Nat /\ Len(buf) > 1 /\ buf[1] \in Messages
    BY <1>2, <1>7 DEF BufferIsDue
  <2>3. signal' \in Signals
    BY <2>1, <2>2, MessageSignalType DEF Kinds
  <2>4. sources' \subseteq Sources
    BY <2>1, <2>2 DEF Messages
  <2>5. ship' \in Ships \cup {NoShip} /\ pair' \in 1 .. Len(buffer'[ship']) - 1
    BY <1>1, <1>3, <2>1, <2>2
  <2>6. pair' \in Nat /\ point' \in Nat /\ located' \subseteq ToCount'
    BY <1>5, <1>6, <2>1
  <2> QED
    BY <1>3, <1>4, <1>5, <1>6, <2>1, <2>3, <2>4, <2>5, <2>6 DEF TypeInv, TypeOK, IdleIsDone
<1>8. CASE ~BufferIsDue(buf)
  <2>1. UNCHANGED <<calcPc, ship, pair, point, signal, sources>>
    BY <1>8 DEF CalculatePosition, buf
  <2>2. ship # NoShip => pair \in 1 .. Len(buffer'[ship]) - 1
    <3>1. SUFFICES ASSUME ship # NoShip PROVE pair \in 1 .. Len(buffer'[ship]) - 1
      OBVIOUS
    <3>2. ship \in Ships /\ pair \in 1 .. Len(buffer[ship]) - 1 /\ buffer \in [Ships -> Seq(Messages)]
      BY <3>1 DEF TypeInv, TypeOK
    <3>3. Len(buffer[ship]) \in Nat
      BY <3>2
    <3>4. CASE ship = m.ship
      <4>1. Len(buf) = Len(buffer[ship]) + 1
        BY <3>2, <3>4 DEF buf
      <4> QED
        BY <1>3, <3>2, <3>3, <3>4, <4>1
    <3>5. CASE ship # m.ship
      BY <1>3, <3>2, <3>5
    <3> QED
      BY <3>4, <3>5
  <2> QED
    BY <1>3, <1>4, <1>5, <1>6, <2>1, <2>2 DEF TypeInv, TypeOK, IdleIsDone, ToCount
<1> QED
  BY <1>7, <1>8

LEMMA LocateType ==
  ASSUME TypeInv, NEW s \in AllSources, Locate(s)
  PROVE  TypeInv'
<1>1. grid' \in [AllSources -> SUBSET Cells]
  BY DEF Locate, TypeInv, TypeOK, Signals
<1>2. spans' \in [AllSources -> [Cells -> SUBSET Hours]]
  BY DEF Locate, TypeInv, TypeOK, Signals
<1>3. located' \subseteq ToCount'
  BY DEF Locate, ToCount
<1> QED
  BY <1>1, <1>2, <1>3 DEF Locate, TypeInv, TypeOK, IdleIsDone, historyVars

LEMMA CountType ==
  ASSUME TypeInv, NEW s \in AllSources, Count(s)
  PROVE  TypeInv'
<1> DEFINE kind == signal.kind
           c == signal.cell
           h == signal.hour
<1>1. kind \in Kinds /\ c \in Cells /\ h \in Hours
  BY DEF TypeInv, TypeOK, Signals
<1> HIDE DEF kind, c, h
<1>2. /\ count' = [count EXCEPT ![kind][s][c][h] = @ + 1]
      /\ total' = [total EXCEPT ![kind][s][c] = @ + 1]
  BY DEF Count, kind, c, h
<1>3. count' \in [Kinds -> [AllSources -> [Cells -> [Hours -> Nat]]]]
  BY <1>1, <1>2 DEF TypeInv, TypeOK
<1>4. total' \in [Kinds -> [AllSources -> [Cells -> Nat]]]
  BY <1>1, <1>2 DEF TypeInv, TypeOK
<1> QED
  BY <1>3, <1>4 DEF Count, TypeInv, TypeOK, IdleIsDone, ToCount, historyVars

LEMMA FailureType ==
  ASSUME TypeInv, CalculateFails
  PROVE  TypeInv'
<1>1. again' \in [Ships -> Nat]
  <2>1. again \in [Ships -> Nat] /\ pair \in Nat
    BY DEF TypeInv, TypeOK
  <2>2. again' = IF ship = NoShip THEN again ELSE [again EXCEPT ![ship] = @ + pair]
    BY DEF CalculateFails
  <2>3. ship # NoShip => ship \in Ships
    BY DEF TypeInv, TypeOK
  <2>4. CASE ship = NoShip
    BY <2>1, <2>2, <2>4
  <2>5. CASE ship # NoShip
    <3>1. ship \in Ships /\ again[ship] + pair \in Nat /\ again' = [again EXCEPT ![ship] = @ + pair]
      BY <2>1, <2>2, <2>3, <2>5
    <3> QED
      BY <2>1, <3>1
  <2> QED
    BY <2>4, <2>5
<1> QED
  BY <1>1 DEF CalculateFails, TypeInv, TypeOK, IdleIsDone, ToCount, countVars

LEMMA FinishVsiType ==
  ASSUME TypeInv, FinishVsi
  PROVE  TypeInv'
  BY DEF FinishVsi, Counted, TypeInv, TypeOK, IdleIsDone, ToCount, countVars, historyVars

(* The pair of messages at which the loop has arrived.                      *)
LEMMA PairType ==
  ASSUME TypeInv, ship # NoShip
  PROVE  /\ ship \in Ships /\ buffer[ship] \in Seq(Messages)
         /\ pair \in Nat \ {0} /\ pair + 1 <= Len(buffer[ship]) /\ Len(buffer[ship]) \in Nat
         /\ buffer[ship][pair] \in Messages /\ buffer[ship][pair + 1] \in Messages
<1>1. ship \in Ships /\ buffer[ship] \in Seq(Messages)
  BY DEF TypeInv, TypeOK
<1>2. Len(buffer[ship]) \in Nat /\ pair \in 1 .. Len(buffer[ship]) - 1
  BY <1>1 DEF TypeInv, TypeOK
<1>3. pair \in 1 .. Len(buffer[ship]) /\ pair + 1 \in 1 .. Len(buffer[ship])
  BY <1>2
<1> QED
  BY <1>1, <1>2, <1>3

LEMMA NextPointType ==
  ASSUME TypeInv, NextPoint
  PROVE  TypeInv'
<1> DEFINE m1 == buffer[ship][pair]
           m2 == buffer[ship][pair + 1]
<1>1. m1 \in Messages /\ m2 \in Messages
  BY PairType DEF NextPoint
<1>2. /\ point + 1 \in Nat \ {0} /\ point \in Nat
      /\ point < MissingBetween(Gap(m1, m2), Period(m2))
      /\ signal' = MissingSignal(m1, m2, point + 1) /\ sources' = m1.sources
  BY DEF NextPoint, Missing, TypeInv, TypeOK
<1> HIDE DEF m1, m2
<1>3. Gap(m1, m2) \in Nat /\ Period(m2) \in Nat \ {0}
  BY <1>1, GapType, PeriodType, CountingAssumption
<1>4. MissingBetween(Gap(m1, m2), Period(m2)) \in Int
  BY <1>3, DivBounds DEF MissingBetween
<1>5. point + 1 <= MissingBetween(Gap(m1, m2), Period(m2))
  BY <1>2, <1>4
<1>6. signal' \in Signals /\ sources' \subseteq Sources
  BY <1>1, <1>2, <1>5, MissingSignalType DEF Messages
<1> QED
  BY <1>6 DEF NextPoint, Counted, TypeInv, TypeOK, IdleIsDone, ToCount, countVars, historyVars

LEMMA NextPairType ==
  ASSUME TypeInv, NextPair
  PROVE  TypeInv'
<1> DEFINE m == buffer[ship][pair + 1]
<1>1. m \in Messages /\ pair \in Nat /\ Len(buffer[ship]) \in Nat
  BY PairType DEF NextPair
<1>2. pair < Len(buffer[ship]) - 1
  BY DEF NextPair, LastPair
<1>3. signal' \in Signals /\ sources' \subseteq Sources
  <2>1. signal' = Signal("received", m.cell, m.time) /\ sources' = m.sources
    BY DEF NextPair
  <2> QED
    BY <1>1, <2>1, MessageSignalType DEF Messages, Kinds
<1>4. pair' \in 1 .. Len(buffer'[ship']) - 1
  BY <1>1, <1>2 DEF NextPair
<1> QED
  BY <1>3, <1>4 DEF NextPair, Counted, TypeInv, TypeOK, IdleIsDone, ToCount, countVars, historyVars

LEMMA EmptyBufferType ==
  ASSUME TypeInv, EmptyBuffer
  PROVE  TypeInv'
<1>1. Emptied(buffer[ship]) \in Seq(Messages)
  <2>1. /\ buffer[ship] \in Seq(Messages) /\ Len(buffer[ship]) \in Nat
        /\ Len(buffer[ship]) > 0
    BY PairType DEF EmptyBuffer
  <2>2. buffer[ship][Len(buffer[ship])] \in Messages
    BY <2>1
  <2> QED
    BY <2>2 DEF Emptied
<1>2. buffer' \in [Ships -> Seq(Messages)]
  BY <1>1, PairType DEF EmptyBuffer, TypeInv, TypeOK
<1> QED
  BY <1>2 DEF EmptyBuffer, Counted, TypeInv, TypeOK, IdleIsDone, ToCount, countVars, historyVars

LEMMA NextType == TypeInv /\ [Next]_vars => TypeInv'
<1> SUFFICES ASSUME TypeInv, [Next]_vars PROVE TypeInv'
  OBVIOUS
<1>1. CASE UNCHANGED vars
  BY <1>1 DEF TypeInv, TypeOK, IdleIsDone, ToCount, vars, countVars, calcVars, historyVars
<1> QED
  BY <1>1, VsiType, PositionType, LocateType, CountType, FailureType, FinishVsiType, NextPointType,
     NextPairType, EmptyBufferType
  DEF Next, Quiescent

(* Every variable keeps its type.  This is more than bookkeeping: the cell  *)
(* and the hour of an interpolated missing signal are those of the grid.    *)
THEOREM TypeCorrect == Spec => []TypeOK
<1>1. TypeInv => TypeOK
  BY DEF TypeInv
<1> QED
  BY InitType, NextType, <1>1, PTL DEF Spec

-----------------------------------------------------------------------------
(* The super source is counted first.  While the sources of a signal wait   *)
(* for their turn, the super source is strictly ahead of each of them: the  *)
(* strengthening that makes SourceWithinSuper inductive.                    *)

SuperIsAhead ==
  calcPc = "sources" =>
    \A s \in sources : count[signal.kind][s][signal.cell][signal.hour]
                         < count[signal.kind][Super][signal.cell][signal.hour]
SuperInv == TypeInv /\ SourceWithinSuper /\ SuperIsAhead

LEMMA CountKeepsSuper ==
  ASSUME SuperInv, NEW r \in AllSources, Count(r)
  PROVE  SourceWithinSuper' /\ SuperIsAhead'
<1> DEFINE kind == signal.kind
           place == signal.cell
           hour == signal.hour
<1>1. kind \in Kinds /\ place \in Cells /\ hour \in Hours /\ sources \subseteq Sources
  BY DEF SuperInv, TypeInv, TypeOK, Signals
<1>2. count \in [Kinds -> [AllSources -> [Cells -> [Hours -> Nat]]]]
  BY DEF SuperInv, TypeInv, TypeOK
<1>3. /\ \/ calcPc = "super" /\ r = Super
         \/ calcPc # "super" /\ r \in sources
      /\ calcPc = "idle" => sources = {}
  BY DEF Count, SuperInv, TypeInv, TypeOK, IdleIsDone, ToCount
<1>4. /\ count' = [count EXCEPT ![kind][r][place][hour] = @ + 1]
      /\ sources' = sources \ {r} /\ calcPc' = "sources" /\ signal' = signal
  BY DEF Count
<1>5. calcPc = "sources" => \A s \in sources : count[kind][s][place][hour] < count[kind][Super][place][hour]
  BY DEF SuperInv, SuperIsAhead
<1>6. \A n \in Kinds, s \in Sources, c \in Cells, h \in Hours :
        count[n][s][c][h] <= count[n][Super][c][h]
  BY DEF SuperInv, SourceWithinSuper
<1> HIDE DEF kind, place, hour
<1>7. Super \in AllSources /\ Super \notin Sources /\ Sources \subseteq AllSources
  BY CountingAssumption DEF AllSources
<1>8. \A n \in Kinds, s \in AllSources, c \in Cells, h \in Hours :
        count'[n][s][c][h] = IF n = kind /\ s = r /\ c = place /\ h = hour
                             THEN count[n][s][c][h] + 1 ELSE count[n][s][c][h]
  BY <1>1, <1>2, <1>4
<1>9. \A n \in Kinds, s \in AllSources, c \in Cells, h \in Hours : count[n][s][c][h] \in Nat
  BY <1>2
<1>10. SourceWithinSuper'
  <2>1. SUFFICES ASSUME NEW n \in Kinds, NEW s \in Sources, NEW c \in Cells, NEW h \in Hours
                 PROVE  count'[n][s][c][h] <= count'[n][Super][c][h]
    BY DEF SourceWithinSuper
  <2>2. count[n][s][c][h] <= count[n][Super][c][h]
    BY <1>6
  <2>3. count[n][s][c][h] \in Nat /\ count[n][Super][c][h] \in Nat
    BY <1>7, <1>9
  <2>4. CASE n = kind /\ s = r /\ c = place /\ h = hour
    <3>1. calcPc = "sources" /\ s \in sources
      BY <1>3, <1>7, <2>4 DEF SuperInv, TypeInv, TypeOK
    <3>2. count[n][s][c][h] < count[n][Super][c][h]
      BY <1>5, <2>4, <3>1
    <3>3. count'[n][s][c][h] = count[n][s][c][h] + 1 /\ count'[n][Super][c][h] = count[n][Super][c][h]
      BY <1>7, <1>8, <2>4
    <3> QED
      BY <2>3, <3>2, <3>3
  <2>5. CASE ~(n = kind /\ s = r /\ c = place /\ h = hour)
    <3>1. /\ count'[n][s][c][h] = count[n][s][c][h]
          /\ \/ count'[n][Super][c][h] = count[n][Super][c][h]
             \/ count'[n][Super][c][h] = count[n][Super][c][h] + 1
      BY <1>7, <1>8, <2>5
    <3> QED
      BY <2>2, <2>3, <3>1
  <2> QED
    BY <2>4, <2>5
<1>11. SuperIsAhead'
  <2>1. SUFFICES ASSUME NEW s \in sources \ {r}
                 PROVE  count'[kind][s][place][hour] < count'[kind][Super][place][hour]
    BY <1>4 DEF SuperIsAhead, kind, place, hour
  <2>2. s \in Sources /\ s \in AllSources /\ s # Super /\ s # r
    BY <1>1, <1>7
  <2>3. count[kind][s][place][hour] \in Nat /\ count[kind][Super][place][hour] \in Nat
    BY <1>1, <1>7, <1>9, <2>2
  <2>4. count'[kind][s][place][hour] = count[kind][s][place][hour]
    BY <1>1, <1>8, <2>2
  <2>5. CASE r = Super
    <3>1. count'[kind][Super][place][hour] = count[kind][Super][place][hour] + 1
      BY <1>1, <1>7, <1>8, <2>5
    <3>2. count[kind][s][place][hour] <= count[kind][Super][place][hour]
      BY <1>1, <1>6, <2>2
    <3> QED
      BY <2>3, <2>4, <3>1, <3>2
  <2>6. CASE r # Super
    <3>1. count'[kind][Super][place][hour] = count[kind][Super][place][hour]
      BY <1>1, <1>7, <1>8, <2>6
    <3>2. calcPc = "sources" /\ s \in sources
      BY <1>3, <2>6 DEF SuperInv, TypeInv, TypeOK
    <3> QED
      BY <1>5, <2>4, <3>1, <3>2
  <2> QED
    BY <2>5, <2>6
<1> QED
  BY <1>10, <1>11

LEMMA InitSuper == Init => SuperInv
<1> SUFFICES ASSUME Init PROVE SuperInv
  OBVIOUS
<1>1. SourceWithinSuper
  BY DEF Init, SourceWithinSuper, AllSources
<1> QED
  BY <1>1, InitType DEF Init, SuperInv, SuperIsAhead

LEMMA NextSuper == SuperInv /\ [Next]_vars => SuperInv'
<1> SUFFICES ASSUME SuperInv, [Next]_vars PROVE SourceWithinSuper' /\ SuperIsAhead'
  BY NextType DEF SuperInv
<1>1. ASSUME NEW s \in AllSources, Count(s) PROVE SourceWithinSuper' /\ SuperIsAhead'
  BY <1>1, CountKeepsSuper
<1>2. ASSUME UNCHANGED count, calcPc' # "sources" PROVE SourceWithinSuper' /\ SuperIsAhead'
  BY <1>2 DEF SuperInv, SourceWithinSuper, SuperIsAhead
<1>3. ASSUME UNCHANGED <<count, calcPc, signal, sources>> PROVE SourceWithinSuper' /\ SuperIsAhead'
  BY <1>3 DEF SuperInv, SourceWithinSuper, SuperIsAhead
<1>4. ASSUME NEW m \in Messages, CalculateVsi(m) PROVE SourceWithinSuper' /\ SuperIsAhead'
  BY <1>2, <1>4 DEF CalculateVsi, countVars
<1>5. ASSUME NEW m \in Messages, CalculatePosition(m) PROVE SourceWithinSuper' /\ SuperIsAhead'
  <2>1. UNCHANGED count /\ calcPc = "idle" /\ (calcPc' = "super" \/ calcPc' = calcPc)
    BY <1>5 DEF CalculatePosition, Arrive, countVars
  <2> QED
    BY <1>2, <2>1
<1>6. ASSUME NEW s \in AllSources, Locate(s) PROVE SourceWithinSuper' /\ SuperIsAhead'
  BY <1>3, <1>6 DEF Locate
<1>7. CASE FinishVsi
  BY <1>2, <1>7 DEF FinishVsi, countVars
<1>8. CASE NextPoint
  BY <1>2, <1>8 DEF NextPoint, countVars
<1>9. CASE NextPair
  BY <1>2, <1>9 DEF NextPair, countVars
<1>10. CASE EmptyBuffer
  BY <1>2, <1>10 DEF EmptyBuffer, countVars
<1>11. CASE UNCHANGED vars
  BY <1>3, <1>11 DEF vars, countVars, calcVars
<1>12. CASE CalculateFails
  BY <1>2, <1>12 DEF CalculateFails, countVars
<1> QED
  BY <1>1, <1>4, <1>5, <1>6, <1>7, <1>8, <1>9, <1>10, <1>11, <1>12 DEF Next, Quiescent

(* No source is ever ahead of the super source, in no cell, hour and kind   *)
(* of signal, also between the increments of one message.                   *)
THEOREM SuperSourceCountsAll == Spec => []SourceWithinSuper
<1>1. SuperInv => SourceWithinSuper
  BY DEF SuperInv
<1> QED
  BY InitSuper, NextSuper, <1>1, PTL DEF Spec

-----------------------------------------------------------------------------
(* Missing signals.  A buffer is in the order of time but for the lateness  *)
(* of messages, so each missing signal is dated between two messages that   *)
(* have arrived, or behind the first by less than the second is late.       *)

Ordered(buf) == \A i, j \in 1 .. Len(buf) : i <= j => buf[i].time <= buf[j].time + Lateness
Arrived(buf) == \A i \in 1 .. Len(buf) : buf[i].time <= newest
BuffersInOrder == \A k \in Ships : Ordered(buffer[k]) /\ Arrived(buffer[k])
SignalInFeed == calcPc # "idle" /\ signal.kind = "missing" => signal.hour <= HourOf(newest + Lateness)
FeedInv == TypeInv /\ BuffersInOrder /\ SignalInFeed /\ MissingWithinFeed

LEMMA ArriveInOrder ==
  ASSUME TypeInv, NEW m \in Messages, Arrive(m)
  PROVE  /\ newest \in Int /\ newest' \in Int /\ newest <= newest'
         /\ m.time \in Int /\ m.time <= newest' /\ newest <= m.time + Lateness
         /\ newest' <= m.time + Lateness
         /\ HourOf(newest + Lateness) \in Int /\ HourOf(newest' + Lateness) \in Int
         /\ HourOf(newest + Lateness) <= HourOf(newest' + Lateness)
<1>0. newest \in Int /\ m.time \in Int /\ Lateness \in Nat
  BY CountingAssumption DEF TypeInv, TypeOK, Messages
<1>1. m.time >= newest - Lateness /\ newest' = IF m.time > newest THEN m.time ELSE newest
  BY DEF Arrive
<1>2. /\ newest' \in Int /\ newest <= newest' /\ m.time <= newest'
      /\ newest <= m.time + Lateness /\ newest' <= m.time + Lateness
  BY <1>0, <1>1
<1>3. \A a, b, l \in Int : a <= b => a + l \in Int /\ b + l \in Int /\ a + l <= b + l
  OBVIOUS
<1> DEFINE old == newest + Lateness
           new == newest' + Lateness
<1>4. old \in Int /\ new \in Int /\ old <= new
  <2>1. Lateness \in Int
    BY <1>0
  <2> QED
    BY <1>0, <1>2, <1>3, <2>1
<1> HIDE DEF old, new
<1>5. /\ HourOf(old) \in Int /\ HourOf(old) <= HourOf(new)
  BY <1>4, HourOfMonotone
<1>6. HourOf(new) \in Int
  BY <1>4, HourOfMonotone
<1>7. /\ HourOf(newest + Lateness) \in Int /\ HourOf(newest' + Lateness) \in Int
      /\ HourOf(newest + Lateness) <= HourOf(newest' + Lateness)
  BY <1>5, <1>6 DEF old, new
<1> QED
  BY <1>0, <1>2, <1>7

LEMMA BufferedTimes ==
  ASSUME TypeInv, NEW k \in Ships, NEW i \in 1 .. Len(buffer[k])
  PROVE  buffer[k][i] \in Messages /\ buffer[k][i].time \in 0 .. LastTime
<1>1. buffer[k] \in Seq(Messages)
  BY DEF TypeInv, TypeOK
<1>2. buffer[k][i] \in Messages
  BY <1>1
<1> QED
  BY <1>2 DEF Messages

(* what a message that arrives leaves as it was stays within the feed       *)
LEMMA FeedGrows ==
  ASSUME FeedInv, NEW m \in Messages, Arrive(m), UNCHANGED count
  PROVE  MissingWithinFeed'
<1>1. /\ HourOf(newest + Lateness) \in Int /\ HourOf(newest' + Lateness) \in Int
      /\ HourOf(newest + Lateness) <= HourOf(newest' + Lateness)
  BY ArriveInOrder DEF FeedInv
<1>2. SUFFICES ASSUME NEW c \in Cells, NEW h \in Hours, count["missing"][Super][c][h] > 0
               PROVE  h <= HourOf(newest' + Lateness)
  BY DEF MissingWithinFeed
<1>3. h <= HourOf(newest + Lateness)
  BY <1>2 DEF FeedInv, MissingWithinFeed
<1>4. h \in Int
  <2>1. HourOf(2 * LastTime) \in Int
    BY HourOfMonotone, CountingAssumption
  <2> QED
    BY <2>1 DEF Hours
<1> QED
  BY <1>1, <1>3, <1>4

LEMMA VsiFeed ==
  ASSUME FeedInv, NEW m \in Messages, CalculateVsi(m)
  PROVE  BuffersInOrder' /\ SignalInFeed' /\ MissingWithinFeed'
<1>1. Arrive(m) /\ UNCHANGED <<buffer, count>>
  BY DEF CalculateVsi, countVars
<1>2. newest \in Int /\ newest' \in Int /\ newest <= newest'
  BY <1>1, ArriveInOrder DEF FeedInv
<1>3. BuffersInOrder'
  <2>1. SUFFICES ASSUME NEW k \in Ships, NEW i \in 1 .. Len(buffer[k])
                 PROVE  buffer[k][i].time <= newest'
    BY <1>1 DEF BuffersInOrder, Ordered, Arrived, FeedInv
  <2>2. buffer[k][i].time \in 0 .. LastTime
    BY BufferedTimes DEF FeedInv
  <2>3. buffer[k][i].time \in Int /\ buffer[k][i].time <= newest
    BY <2>2, CountingAssumption DEF FeedInv, BuffersInOrder, Arrived
  <2> QED
    BY <1>2, <2>3
<1>4. SignalInFeed'
  BY MessageSignalType DEF CalculateVsi, SignalInFeed, Kinds
<1> QED
  BY <1>1, <1>3, <1>4, FeedGrows

LEMMA PositionFeed ==
  ASSUME FeedInv, NEW m \in Messages, CalculatePosition(m)
  PROVE  BuffersInOrder' /\ SignalInFeed' /\ MissingWithinFeed'
<1> DEFINE buf == Append(buffer[m.ship], m)
<1>1. Arrive(m) /\ UNCHANGED count /\ buffer' = [buffer EXCEPT ![m.ship] = buf]
  BY DEF CalculatePosition, countVars
<1>2. /\ newest \in Int /\ newest' \in Int /\ newest <= newest'
      /\ m.time \in Int /\ m.time <= newest' /\ newest' <= m.time + Lateness /\ Lateness \in Nat
  BY <1>1, ArriveInOrder, CountingAssumption DEF FeedInv
<1>3. BuffersInOrder'
  <2>1. SUFFICES ASSUME NEW k \in Ships
                 PROVE  Ordered(buffer'[k]) /\ \A i \in 1 .. Len(buffer'[k]) : buffer'[k][i].time <= newest'
    BY DEF BuffersInOrder, Arrived
  <2>2. buffer[k] \in Seq(Messages) /\ Len(buffer[k]) \in Nat /\ buffer \in [Ships -> Seq(Messages)]
    BY DEF FeedInv, TypeInv, TypeOK
  <2>3. \A i \in 1 .. Len(buffer[k]) : buffer[k][i].time \in Int /\ buffer[k][i].time <= newest
    <3>1. ASSUME NEW i \in 1 .. Len(buffer[k]) PROVE buffer[k][i].time \in 0 .. LastTime
      BY BufferedTimes DEF FeedInv
    <3> QED
      BY <3>1, CountingAssumption DEF FeedInv, BuffersInOrder, Arrived
  <2>4. Ordered(buffer[k])
    BY DEF FeedInv, BuffersInOrder
  <2>5. CASE k # m.ship
    <3>1. buffer'[k] = buffer[k]
      BY <1>1, <2>2, <2>5
    <3> QED
      BY <1>2, <2>3, <2>4, <3>1
  <2>6. CASE k = m.ship
    <3>1. /\ buffer'[k] = buf /\ Len(buf) = Len(buffer[k]) + 1 /\ buf[Len(buffer[k]) + 1] = m
          /\ \A i \in 1 .. Len(buffer[k]) : buf[i] = buffer[k][i]
      BY <1>1, <2>2, <2>6
    <3> HIDE DEF buf
    <3>2. \A i \in 1 .. Len(buf) : buf[i].time \in Int /\ buf[i].time <= newest'
      BY <1>2, <2>2, <2>3, <3>1
    <3>3. Ordered(buf)
      <4>1. SUFFICES ASSUME NEW i \in 1 .. Len(buf), NEW j \in 1 .. Len(buf), i <= j
                     PROVE  buf[i].time <= buf[j].time + Lateness
        BY DEF Ordered
      <4>2. CASE j = Len(buffer[k]) + 1
        <5>1. buf[j] = m /\ buf[i].time \in Int /\ buf[i].time <= newest'
          BY <3>1, <3>2, <4>2
        <5> HIDE DEF Messages
        <5> QED
          BY <1>2, <5>1
      <4>3. CASE j # Len(buffer[k]) + 1
        <5>1. i \in 1 .. Len(buffer[k]) /\ j \in 1 .. Len(buffer[k])
          BY <2>2, <3>1, <4>1, <4>3
        <5> QED
          BY <2>4, <3>1, <4>1, <5>1 DEF Ordered
      <4> QED
        BY <4>2, <4>3
    <3> QED
      BY <3>1, <3>2, <3>3
  <2> QED
    BY <2>5, <2>6
<1>4. SignalInFeed'
  <2>1. CASE BufferIsDue(buf)
    <3>1. buf \in Seq(Messages) /\ Len(buf) > 1 /\ Len(buf) \in Nat
      <4>1. m.ship \in Ships
        BY DEF Messages
      <4>2. buffer[m.ship] \in Seq(Messages)
        BY <4>1 DEF FeedInv, TypeInv, TypeOK
      <4> QED
        BY <2>1, <4>2 DEF BufferIsDue
    <3>2. buf[1] \in Messages
      BY <3>1
    <3>3. signal' = Signal("received", buf[1].cell, buf[1].time)
      BY <2>1 DEF CalculatePosition
    <3> HIDE DEF buf
    <3>4. signal'.kind = "received"
      BY <3>2, <3>3, MessageSignalType DEF Kinds
    <3> QED
      BY <3>4 DEF SignalInFeed
  <2>2. CASE ~BufferIsDue(buf)
    BY <1>1, <2>2 DEF CalculatePosition, Arrive, SignalInFeed
  <2> QED
    BY <2>1, <2>2
<1> QED
  BY <1>1, <1>3, <1>4, FeedGrows

(* a missing signal is dated before the second message of its pair          *)
LEMMA PointFeed ==
  ASSUME FeedInv, NextPoint
  PROVE  SignalInFeed'
<1> DEFINE m1 == buffer[ship][pair]
           m2 == buffer[ship][pair + 1]
<1>1. /\ ship \in Ships /\ pair \in 1 .. Len(buffer[ship]) /\ pair + 1 \in 1 .. Len(buffer[ship])
      /\ m1 \in Messages /\ m2 \in Messages
  BY PairType DEF NextPoint, FeedInv
<1>2. m1.time <= m2.time + Lateness /\ m2.time <= newest /\ m1.time <= newest
  BY <1>1 DEF FeedInv, BuffersInOrder, Ordered, Arrived
<1>3. /\ point + 1 \in Nat \ {0} /\ point \in Nat
      /\ point < MissingBetween(Gap(m1, m2), Period(m2))
      /\ signal' = MissingSignal(m1, m2, point + 1)
  BY DEF NextPoint, Missing, FeedInv, TypeInv, TypeOK
<1> HIDE DEF m1, m2
<1>4. Gap(m1, m2) \in Nat /\ Period(m2) \in Nat \ {0}
  BY <1>1, GapType, PeriodType, CountingAssumption
<1>5. MissingBetween(Gap(m1, m2), Period(m2)) \in Int
  BY <1>4, DivBounds DEF MissingBetween
<1>6. point + 1 <= MissingBetween(Gap(m1, m2), Period(m2))
  BY <1>3, <1>5
<1> DEFINE elapsed == (point + 1) * Period(m2)
<1>7. elapsed \in Nat /\ elapsed < Gap(m1, m2) /\ signal'.hour = HourOf(m1.time + elapsed)
  BY <1>1, <1>3, <1>6, MissingSignalType
<1> HIDE DEF elapsed
<1>8. /\ m1.time + elapsed \in Int /\ newest + Lateness \in Int
      /\ m1.time + elapsed <= newest + Lateness
  <2>1. m1.time \in Int /\ m2.time \in Int /\ newest \in Int /\ Lateness \in Nat
    BY <1>1, CountingAssumption DEF Messages, FeedInv, TypeInv, TypeOK
  <2>2. CASE m2.time >= m1.time
    <3>1. Gap(m1, m2) = m2.time - m1.time
      BY <2>2 DEF Gap
    <3> QED
      BY <1>2, <1>7, <2>1, <3>1
  <2>3. CASE ~(m2.time >= m1.time)
    <3>1. Gap(m1, m2) = m1.time - m2.time
      BY <2>3 DEF Gap
    <3>2. Gap(m1, m2) <= Lateness
      BY <1>2, <2>1, <3>1
    <3> QED
      BY <1>2, <1>4, <1>7, <2>1, <3>2
  <2> QED
    BY <2>2, <2>3
<1>9. signal'.hour <= HourOf(newest + Lateness)
  BY <1>7, <1>8, HourOfMonotone
<1> QED
  BY <1>9 DEF SignalInFeed, NextPoint, historyVars

LEMMA CountFeed ==
  ASSUME FeedInv, NEW s \in AllSources, Count(s)
  PROVE  SignalInFeed' /\ MissingWithinFeed'
<1>1. calcPc # "idle"
  BY DEF Count, FeedInv, TypeInv, TypeOK, IdleIsDone, ToCount
<1>2. SignalInFeed'
  BY <1>1 DEF Count, FeedInv, SignalInFeed, historyVars
<1>3. MissingWithinFeed'
  <2>1. SUFFICES ASSUME NEW c \in Cells, NEW h \in Hours, count'["missing"][Super][c][h] > 0
                 PROVE  h <= HourOf(newest + Lateness)
    BY DEF MissingWithinFeed, Count, historyVars
  <2>2. "missing" \in Kinds /\ Super \in AllSources
    BY DEF Kinds, AllSources
  <2>3. CASE count["missing"][Super][c][h] > 0
    BY <2>3 DEF FeedInv, MissingWithinFeed
  <2>4. CASE signal.kind = "missing" /\ signal.hour = h
    BY <1>1, <2>4 DEF FeedInv, SignalInFeed
  <2>5. CASE ~(signal.kind = "missing" /\ signal.hour = h)
    <3>1. count'["missing"][Super][c][h] = count["missing"][Super][c][h]
      <4>1. /\ count \in [Kinds -> [AllSources -> [Cells -> [Hours -> Nat]]]]
            /\ signal.kind \in Kinds /\ signal.cell \in Cells /\ signal.hour \in Hours
        BY DEF FeedInv, TypeInv, TypeOK, Signals
      <4>2. count' = [count EXCEPT ![signal.kind][s][signal.cell][signal.hour] = @ + 1]
        BY DEF Count
      <4> QED
        BY <2>2, <2>5, <4>1, <4>2
    <3> QED
      BY <2>1, <2>3, <3>1
  <2> QED
    BY <2>4, <2>5
<1> QED
  BY <1>2, <1>3

LEMMA EmptyBufferFeed ==
  ASSUME FeedInv, EmptyBuffer
  PROVE  BuffersInOrder'
<1> DEFINE buf == buffer[ship]
           last == buf[Len(buf)]
<1>1. ship \in Ships /\ Len(buf) \in 1 .. Len(buf) /\ buffer \in [Ships -> Seq(Messages)]
  <2>1. ship # NoShip /\ TypeInv
    BY DEF EmptyBuffer, FeedInv
  <2>2. ship \in Ships /\ pair \in Nat \ {0} /\ pair + 1 <= Len(buf) /\ Len(buf) \in Nat
    BY <2>1, PairType
  <2> QED
    BY <2>1, <2>2 DEF TypeInv, TypeOK
<1>2. last.time \in 0 .. LastTime /\ last.time <= newest
  BY <1>1, BufferedTimes DEF FeedInv, BuffersInOrder, Arrived
<1>3. buffer' = [buffer EXCEPT ![ship] = <<last>>] /\ newest' = newest
  BY DEF EmptyBuffer, Emptied, historyVars
<1> HIDE DEF last
<1>4. SUFFICES ASSUME NEW k \in Ships
               PROVE  Ordered(buffer'[k]) /\ \A i \in 1 .. Len(buffer'[k]) : buffer'[k][i].time <= newest
  BY <1>3 DEF BuffersInOrder, Arrived
<1>5. CASE k = ship
  <2>1. buffer'[k] = <<last>>
    BY <1>1, <1>3, <1>5
  <2>2. Len(<<last>>) = 1 /\ <<last>>[1] = last
    OBVIOUS
  <2>3. \A i \in 1 .. 1 : i = 1
    OBVIOUS
  <2>4. last.time <= last.time + Lateness
    BY <1>2, CountingAssumption
  <2> QED
    BY <1>2, <2>1, <2>2, <2>3, <2>4 DEF Ordered
<1>6. CASE k # ship
  BY <1>1, <1>3, <1>6 DEF FeedInv, BuffersInOrder, Arrived
<1> QED
  BY <1>5, <1>6

LEMMA NextFeed == FeedInv /\ [Next]_vars => FeedInv'
<1> SUFFICES ASSUME FeedInv, [Next]_vars
             PROVE  BuffersInOrder' /\ SignalInFeed' /\ MissingWithinFeed'
  BY NextType DEF FeedInv
<1>1. ASSUME UNCHANGED <<buffer, newest>> PROVE BuffersInOrder'
  BY <1>1 DEF FeedInv, BuffersInOrder, Ordered, Arrived
<1>2. ASSUME UNCHANGED <<count, newest>> PROVE MissingWithinFeed'
  BY <1>2 DEF FeedInv, MissingWithinFeed
<1>3. ASSUME UNCHANGED <<newest, signal>>, calcPc # "idle" \/ calcPc' = "idle" PROVE SignalInFeed'
  BY <1>3 DEF FeedInv, SignalInFeed
<1>4. ASSUME NEW m \in Messages, CalculateVsi(m)
      PROVE  BuffersInOrder' /\ SignalInFeed' /\ MissingWithinFeed'
  BY <1>4, VsiFeed
<1>5. ASSUME NEW m \in Messages, CalculatePosition(m)
      PROVE  BuffersInOrder' /\ SignalInFeed' /\ MissingWithinFeed'
  BY <1>5, PositionFeed
<1>6. ASSUME NEW s \in AllSources, Locate(s)
      PROVE  BuffersInOrder' /\ SignalInFeed' /\ MissingWithinFeed'
  BY <1>1, <1>2, <1>3, <1>6 DEF Locate, historyVars
<1>7. ASSUME NEW s \in AllSources, Count(s)
      PROVE  BuffersInOrder' /\ SignalInFeed' /\ MissingWithinFeed'
  BY <1>1, <1>7, CountFeed DEF Count, historyVars
<1>8. CASE FinishVsi
  BY <1>1, <1>2, <1>3, <1>8 DEF FinishVsi, countVars, historyVars
<1>9. CASE NextPoint
  BY <1>1, <1>2, <1>9, PointFeed DEF NextPoint, countVars, historyVars
<1>10. CASE NextPair
  <2>1. buffer[ship][pair + 1] \in Messages
    BY <1>10, PairType DEF NextPair, FeedInv
  <2>2. signal'.kind = "received"
    BY <1>10, <2>1, MessageSignalType DEF NextPair, Kinds
  <2> QED
    BY <1>1, <1>2, <1>10, <2>2 DEF NextPair, SignalInFeed, countVars, historyVars
<1>11. CASE EmptyBuffer
  BY <1>2, <1>3, <1>11, EmptyBufferFeed DEF EmptyBuffer, countVars, historyVars
<1>12. CASE UNCHANGED vars
  BY <1>1, <1>2, <1>12 DEF FeedInv, SignalInFeed, vars, countVars, calcVars, historyVars
<1>13. CASE CalculateFails
  BY <1>1, <1>2, <1>3, <1>13 DEF CalculateFails, countVars
<1> QED
  BY <1>4, <1>5, <1>6, <1>7, <1>8, <1>9, <1>10, <1>11, <1>12, <1>13 DEF Next, Quiescent

(* However late messages are, no signal is missing in an hour that is       *)
(* further ahead of the newest message than messages are late; so never in  *)
(* an hour no message has reached if they arrive in order.                  *)
THEOREM NothingMissingAhead == Spec => []MissingWithinFeed
<1>1. Init => FeedInv
  <2> SUFFICES ASSUME Init PROVE FeedInv
    OBVIOUS
  <2>1. BuffersInOrder
    <3>1. \A k \in Ships : buffer[k] = <<>>
      BY DEF Init
    <3>2. Ordered(<<>>) /\ Arrived(<<>>)
      BY DEF Ordered, Arrived
    <3> QED
      BY <3>1, <3>2 DEF BuffersInOrder
  <2>2. MissingWithinFeed
    BY DEF Init, MissingWithinFeed, Kinds, AllSources
  <2> QED
    BY <2>1, <2>2, InitType DEF Init, FeedInv, SignalInFeed
<1>2. FeedInv /\ [Next]_vars => FeedInv'
  BY NextFeed
<1>3. FeedInv => MissingWithinFeed
  BY DEF FeedInv
<1> QED
  BY <1>1, <1>2, <1>3, PTL DEF Spec

-----------------------------------------------------------------------------
(* Every position message is counted, and counted again after a failure.     *)

Started == calcPc = "idle" => ship = NoShip
SignalIs == calcPc = "super" => (signal.kind = "received" <=> (ship # NoShip /\ point = 0))
LoopInv == TypeInv /\ Started /\ SignalIs

LEMMA LoopInit == Init => LoopInv
  BY InitType DEF Init, LoopInv, Started, SignalIs

LEMMA LoopStep == LoopInv /\ [Next]_vars => LoopInv'
<1> SUFFICES ASSUME LoopInv, [Next]_vars PROVE Started' /\ SignalIs'
  BY NextType DEF LoopInv
<1>0. point \in Nat /\ TypeInv
  BY DEF LoopInv, TypeInv, TypeOK
<1>1. ASSUME NEW m \in Messages, CalculateVsi(m) PROVE Started' /\ SignalIs'
  <2>1. signal'.kind = "vsi"
    BY <1>1, MessageSignalType DEF CalculateVsi, Kinds
  <2> QED
    BY <1>1, <2>1 DEF CalculateVsi, Started, SignalIs
<1>2. ASSUME NEW m \in Messages, CalculatePosition(m) PROVE Started' /\ SignalIs'
  <2> DEFINE buf == Append(buffer[m.ship], m)
  <2>1. m.ship \in Ships /\ m.ship # NoShip
    BY CountingAssumption DEF Messages
  <2>2. CASE BufferIsDue(buf)
    <3>1. signal' = Signal("received", buf[1].cell, buf[1].time) /\ calcPc' = "super"
          /\ ship' = m.ship /\ point' = 0
      BY <1>2, <2>2 DEF CalculatePosition
    <3>2. signal'.kind = "received"
      BY <3>1 DEF Signal
    <3> QED
      BY <2>1, <3>1, <3>2 DEF Started, SignalIs
  <2>3. CASE ~BufferIsDue(buf)
    <3>1. UNCHANGED <<calcPc, ship, point, signal>>
      BY <1>2, <2>3 DEF CalculatePosition
    <3> QED
      BY <3>1 DEF LoopInv, Started, SignalIs
  <2> QED
    BY <2>2, <2>3
<1>3. ASSUME NEW s \in AllSources, Locate(s) PROVE Started' /\ SignalIs'
  BY <1>3 DEF Locate, LoopInv, Started, SignalIs
<1>4. ASSUME NEW s \in AllSources, Count(s) PROVE Started' /\ SignalIs'
  BY <1>4 DEF Count, Started, SignalIs
<1>5. CASE FinishVsi
  BY <1>5 DEF FinishVsi, Started, SignalIs
<1>6. CASE NextPoint
  <2>1. signal'.kind = "missing" /\ point' = point + 1 /\ calcPc' = "super"
    BY <1>6 DEF NextPoint, MissingSignal, Signal
  <2>2. point' # 0
    BY <1>0, <2>1
  <2> QED
    BY <2>1, <2>2 DEF Started, SignalIs
<1>7. CASE NextPair
  <2>1. signal'.kind = "received" /\ point' = 0 /\ calcPc' = "super" /\ ship' = ship /\ ship # NoShip
    BY <1>7 DEF NextPair, Signal
  <2> QED
    BY <2>1 DEF Started, SignalIs
<1>8. CASE EmptyBuffer
  BY <1>8 DEF EmptyBuffer, Started, SignalIs
<1>9. CASE UNCHANGED vars
  BY <1>9 DEF LoopInv, Started, SignalIs, vars, calcVars
<1>10. CASE CalculateFails
  BY <1>10 DEF CalculateFails, Started, SignalIs
<1> QED
  BY <1>1, <1>2, <1>3, <1>4, <1>5, <1>6, <1>7, <1>8, <1>9, <1>10 DEF Next, Quiescent

LEMMA CellsAndHours ==
  /\ IsFiniteSet(Cells) /\ IsFiniteSet(Hours) /\ Hours \subseteq Nat /\ Cells \subseteq Nat
<1>1. HourOf(2 * LastTime) \in Int /\ LastCell \in Int
  BY HourOfMonotone, CountingAssumption
<1> QED
  BY <1>1, FS_Interval DEF Cells, Hours

(* One signal more in one cell and hour is one more in all of them.          *)
AllSignals(g) == SumFunctionOnSet([c \in Cells |-> SumFunctionOnSet(g[c], Hours)], Cells)

LEMMA OneSignalMore ==
  ASSUME NEW g \in [Cells -> [Hours -> Nat]], NEW c \in Cells, NEW h \in Hours
  PROVE  AllSignals([g EXCEPT ![c][h] = @ + 1]) = AllSignals(g) + 1 /\ AllSignals(g) \in Int
<1> DEFINE g2 == [g EXCEPT ![c][h] = @ + 1]
           old == g[c]
           new == g2[c]
           f == [x \in Cells |-> SumFunctionOnSet(g[x], Hours)]
           f2 == [x \in Cells |-> SumFunctionOnSet(g2[x], Hours)]
<1>1. /\ \A x \in Cells : x # c => g2[x] = g[x]
      /\ \A y \in Hours : old[y] \in Int /\ new[y] \in Int /\ (y # h => new[y] = old[y])
      /\ new[h] = old[h] + 1 /\ old[h] \in Int
  OBVIOUS
<1>2. \A x \in Cells : SumFunctionOnSet(g[x], Hours) \in Int
  <2> SUFFICES ASSUME NEW x \in Cells PROVE SumFunctionOnSet(g[x], Hours) \in Int
    OBVIOUS
  <2> DEFINE gx == g[x]
  <2>1. \A y \in Hours : gx[y] \in Int
    OBVIOUS
  <2> HIDE DEF gx
  <2>2. SumFunctionOnSet(gx, Hours) \in Int
    BY <2>1, CellsAndHours, SumType
  <2> QED
    BY <2>2 DEF gx
<1>3. SumFunctionOnSet(new, Hours) = SumFunctionOnSet(old, Hours) + 1
  <2> HIDE DEF old, new
  <2>1. \A y \in Hours : old[y] \in Int /\ new[y] \in Int /\ (h # y => new[y] = old[y])
    BY <1>1
  <2>2. SumFunctionOnSet(new, Hours) = SumFunctionOnSet(old, Hours) + new[h] - old[h]
    BY <2>1, CellsAndHours, SumChange
  <2>3. SumFunctionOnSet(old, Hours) \in Int
    BY <2>1, CellsAndHours, SumType
  <2> QED
    BY <1>1, <2>2, <2>3
<1>4. /\ \A x \in Cells : f[x] \in Int /\ (x # c => f2[x] = f[x])
      /\ f2[c] = f[c] + 1
  BY <1>1, <1>2, <1>3
<1> HIDE DEF f, f2
<1>5. \A x \in Cells : f[x] \in Int /\ f2[x] \in Int /\ (c # x => f2[x] = f[x])
  BY <1>4
<1>6. SumFunctionOnSet(f2, Cells) = SumFunctionOnSet(f, Cells) + f2[c] - f[c]
      /\ SumFunctionOnSet(f, Cells) \in Int
  BY <1>5, CellsAndHours, SumChange, SumType
<1>7. SumFunctionOnSet(f2, Cells) = SumFunctionOnSet(f, Cells) + 1
  BY <1>4, <1>5, <1>6
<1> QED
  BY <1>6, <1>7 DEF AllSignals, f, f2

(* The messages of a ship that have been counted.                            *)
CountedOf(k) == seen[k] - Len(buffer[k]) + again[k] + Done(k)

LEMMA CountedOfType ==
  ASSUME TypeInv, NEW k \in Ships
  PROVE  /\ seen[k] \in Nat /\ Len(buffer[k]) \in Nat /\ Done(k) \in Int /\ CountedOf(k) \in Int
         /\ pair \in Nat /\ again[k] \in Nat
<1>1. seen[k] \in Nat /\ again[k] \in Nat /\ buffer[k] \in Seq(Messages) /\ pair \in Nat
  BY DEF TypeInv, TypeOK
<1>2. Len(buffer[k]) \in Nat /\ Done(k) \in Int
  BY <1>1 DEF Done
<1> QED
  BY <1>1, <1>2 DEF CountedOf

(* A step that changes no ship's part keeps the sum of them.                 *)
LEMMA SumOfParts ==
  ASSUME TypeInv, TypeInv', \A k \in Ships : CountedOf(k)' = CountedOf(k)
  PROVE  SumFunctionOnSet([k \in Ships |-> CountedOf(k)], Ships)'
           = SumFunctionOnSet([k \in Ships |-> CountedOf(k)], Ships)
<1>1. [k \in Ships |-> CountedOf(k)]' = [k \in Ships |-> CountedOf(k)]
  OBVIOUS
<1> QED
  BY <1>1

MessagesCounted ==
  CountedFor("received", Super) = SumFunctionOnSet([k \in Ships |-> CountedOf(k)], Ships)

LEMMA PartsKept ==
  ASSUME MessagesCounted, TypeInv, TypeInv', UNCHANGED count,
         \A k \in Ships : CountedOf(k)' = CountedOf(k)
  PROVE  MessagesCounted'
<1>1. CountedFor("received", Super)' = CountedFor("received", Super)
  BY DEF CountedFor
<1> QED
  BY <1>1, SumOfParts DEF MessagesCounted

LEMMA SuperCounted ==
  ASSUME MessagesCounted, LoopInv, NEW s \in AllSources, Count(s)
  PROVE  MessagesCounted'
<1> DEFINE g == count["received"][Super]
           kind == signal.kind
           c == signal.cell
           h == signal.hour
           f == [k \in Ships |-> CountedOf(k)]
           f2 == [k \in Ships |-> CountedOf(k)']
<1>0. /\ count \in [Kinds -> [AllSources -> [Cells -> [Hours -> Nat]]]]
      /\ kind \in Kinds /\ c \in Cells /\ h \in Hours /\ sources \subseteq Sources
      /\ "received" \in Kinds /\ Super \in AllSources /\ Super \notin Sources
  BY CountingAssumption DEF LoopInv, TypeInv, TypeOK, Signals, Kinds, AllSources
<1>1. g \in [Cells -> [Hours -> Nat]]
  BY <1>0
<1>2. /\ count' = [count EXCEPT ![kind][s][c][h] = @ + 1]
      /\ calcPc' = "sources" /\ UNCHANGED <<buffer, ship, pair, point, seen, again>>
  BY DEF Count, historyVars
<1>3. \/ calcPc = "super" /\ s = Super
      \/ calcPc = "sources" /\ s # Super
  <2>1. s \in ToCount /\ calcPc \in {"idle", "super", "sources"} /\ (calcPc = "idle" => sources = {})
    BY DEF Count, LoopInv, TypeInv, TypeOK, IdleIsDone
  <2> QED
    BY <1>0, <2>1 DEF ToCount
<1>4. \A k \in Ships : CountedOf(k) \in Int /\ Done(k) \in Int /\ seen[k] \in Nat /\ Len(buffer[k]) \in Nat
                       /\ pair \in Nat /\ again[k] \in Nat
  BY CountedOfType DEF LoopInv
<1>5. /\ CountedFor("received", Super) = AllSignals(g)
      /\ CountedFor("received", Super)' = AllSignals(count'["received"][Super])
  BY DEF CountedFor, AllSignals
<1>6. CASE kind = "received" /\ s = Super
  <2>1. count'["received"][Super] = [g EXCEPT ![c][h] = @ + 1]
    BY <1>0, <1>2, <1>6
  <2>2. CountedFor("received", Super)' = AllSignals(g) + 1 /\ AllSignals(g) \in Int
    <3> DEFINE g2 == count'["received"][Super]
    <3>1. /\ g2 = [g EXCEPT ![c][h] = @ + 1]
          /\ g \in [Cells -> [Hours -> Nat]] /\ c \in Cells /\ h \in Hours
          /\ CountedFor("received", Super)' = AllSignals(g2)
      BY <1>0, <1>1, <1>5, <2>1
    <3> HIDE DEF g, g2, c, h
    <3>2. /\ AllSignals([g EXCEPT ![c][h] = @ + 1]) = AllSignals(g) + 1
          /\ AllSignals(g) \in Int
      BY <3>1, OneSignalMore
    <3> QED
      BY <3>1, <3>2
  <2>3. calcPc = "super" /\ ship # NoShip /\ point = 0 /\ ship \in Ships
    BY <1>3, <1>6 DEF LoopInv, SignalIs, TypeInv, TypeOK
  <2>4. Done(ship) = pair - 1 /\ Done(ship)' = pair
    BY <1>2, <2>3 DEF Done
  <2>5. PICK a \in Ships : a = ship
    BY <2>3
  <2>6. CountedOf(a)' = CountedOf(a) + 1 /\ CountedOf(a) \in Int
    <3>1. Done(a) = pair - 1 /\ Done(a)' = pair
      BY <1>2, <2>3, <2>5 DEF Done
    <3>2. seen' = seen /\ buffer' = buffer /\ again' = again
      BY <1>2
    <3> DEFINE n == seen[a]
               l == Len(buffer[a])
               r == again[a]
    <3>3. /\ CountedOf(a) = n - l + r + Done(a) /\ CountedOf(a)' = n - l + r + Done(a)'
          /\ n \in Nat /\ l \in Nat /\ r \in Nat /\ pair \in Nat
      BY <1>4, <3>2 DEF CountedOf
    <3> HIDE DEF n, l, r
    <3> QED
      BY <3>1, <3>3
  <2>6a. ASSUME NEW k \in Ships, k # a PROVE CountedOf(k)' = CountedOf(k)
    BY <1>2, <2>5, <2>6a DEF CountedOf, Done
  <2>7. /\ a \in Ships /\ f2[a] = f[a] + 1
        /\ \A k \in Ships : f[k] \in Int /\ f2[k] \in Int /\ (a # k => f2[k] = f[k])
    <3>1. \A k \in Ships : f[k] = CountedOf(k) /\ f2[k] = CountedOf(k)'
      OBVIOUS
    <3> HIDE DEF f, f2
    <3>2. f2[a] = f[a] + 1 /\ f[a] \in Int
      BY <2>6, <3>1
    <3>3. ASSUME NEW k \in Ships, k # a PROVE f2[k] = f[k] /\ f[k] \in Int
      BY <1>4, <2>6a, <3>1, <3>3
    <3> QED
      BY <3>2, <3>3
  <2> HIDE DEF f, f2
  <2>8. SumFunctionOnSet(f2, Ships) = SumFunctionOnSet(f, Ships) + f2[a] - f[a]
    BY <2>7, CountingAssumption, SumChange
  <2>9. SumFunctionOnSet(f, Ships) \in Int
    BY <2>7, CountingAssumption, SumType
  <2>10. SumFunctionOnSet(f2, Ships) = SumFunctionOnSet(f, Ships) + 1
    BY <2>7, <2>8, <2>9
  <2> QED
    BY <1>5, <2>2, <2>10 DEF MessagesCounted, f, f2
<1>7. CASE ~(kind = "received" /\ s = Super)
  <2>1. count'["received"][Super] = g
    BY <1>0, <1>2, <1>7
  <2>2. ASSUME NEW k \in Ships PROVE Done(k)' = Done(k)
    <3>1. calcPc = "super" => ship = NoShip \/ point # 0
      BY <1>3, <1>7 DEF LoopInv, SignalIs
    <3>2. k # NoShip
      BY CountingAssumption
    <3> QED
      BY <1>2, <1>3, <3>1, <3>2 DEF Done
  <2>3. ASSUME NEW k \in Ships PROVE CountedOf(k)' = CountedOf(k)
    BY <1>2, <2>2 DEF CountedOf
  <2>4. CountedFor("received", Super)' = CountedFor("received", Super)
    BY <1>5, <2>1
  <2>5. f2 = f
    BY <2>3
  <2> QED
    BY <2>4, <2>5 DEF MessagesCounted
<1> QED
  BY <1>6, <1>7

LEMMA MessagesStep == MessagesCounted /\ LoopInv /\ [Next]_vars => MessagesCounted'
<1> SUFFICES ASSUME MessagesCounted, LoopInv, [Next]_vars PROVE MessagesCounted'
  OBVIOUS
<1>0. TypeInv /\ TypeInv'
  BY NextType DEF LoopInv
<1>k. \A k \in Ships : k # NoShip
  BY CountingAssumption
<1>1. ASSUME UNCHANGED <<count, seen, again, buffer>>, \A k \in Ships : Done(k)' = Done(k)
      PROVE  MessagesCounted'
  <2>1. ASSUME NEW k \in Ships PROVE CountedOf(k)' = CountedOf(k)
    BY <1>1 DEF CountedOf
  <2> QED
    BY <1>0, <1>1, <2>1, PartsKept
<1>2. ASSUME NEW m \in Messages, CalculateVsi(m) PROVE MessagesCounted'
  <2>1. ship = NoShip /\ ship' = NoShip
    BY <1>2 DEF CalculateVsi, Arrive, LoopInv, Started
  <2>2. ASSUME NEW k \in Ships PROVE Done(k)' = Done(k)
    BY <1>k, <2>1 DEF Done
  <2> QED
    BY <1>1, <1>2, <2>2 DEF CalculateVsi, Arrive, countVars
<1>3. ASSUME NEW m \in Messages, CalculatePosition(m) PROVE MessagesCounted'
  <2> DEFINE buf == Append(buffer[m.ship], m)
  <2>1. ship = NoShip /\ m.ship \in Ships
    BY <1>3 DEF CalculatePosition, Arrive, LoopInv, Started, Messages
  <2>2. /\ buffer' = [buffer EXCEPT ![m.ship] = buf] /\ seen' = [seen EXCEPT ![m.ship] = @ + 1]
        /\ UNCHANGED <<count, again>>
    BY <1>3 DEF CalculatePosition, Arrive, countVars
  <2>3. buffer \in [Ships -> Seq(Messages)] /\ seen \in [Ships -> Nat]
    BY <1>0 DEF TypeInv, TypeOK
  <2>4. Len(buf) = Len(buffer[m.ship]) + 1
    BY <2>1, <2>3
  <2>5. ASSUME NEW k \in Ships PROVE Done(k) = 0 /\ Done(k)' = 0
    <3>1. Done(k) = 0
      BY <1>k, <2>1 DEF Done
    <3>2. CASE BufferIsDue(buf)
      <4>1. ship' = m.ship /\ pair' = 1 /\ point' = 0 /\ calcPc' = "super"
        BY <1>3, <3>2 DEF CalculatePosition
      <4> QED
        BY <3>1, <4>1 DEF Done
    <3>3. CASE ~BufferIsDue(buf)
      <4>1. ship' = ship
        BY <1>3, <3>3 DEF CalculatePosition
      <4> QED
        BY <1>k, <2>1, <3>1, <4>1 DEF Done
    <3> QED
      BY <3>2, <3>3
  <2> HIDE DEF buf
  <2>6. ASSUME NEW k \in Ships PROVE CountedOf(k)' = CountedOf(k)
    <3>1. seen[k] \in Nat /\ Len(buffer[k]) \in Nat /\ again[k] \in Nat /\ again'[k] = again[k]
      BY <1>0, <2>2, CountedOfType
    <3>2. CASE k = m.ship
      <4>1. seen'[k] = seen[k] + 1 /\ Len(buffer'[k]) = Len(buffer[k]) + 1
        BY <2>1, <2>2, <2>3, <2>4, <3>2
      <4>2. CountedOf(k) = seen[k] - Len(buffer[k]) + again[k] + 0
            /\ CountedOf(k)' = seen'[k] - Len(buffer'[k]) + again'[k] + 0
        BY <2>5 DEF CountedOf
      <4> QED
        BY <3>1, <4>1, <4>2
    <3>3. CASE k # m.ship
      <4>1. seen'[k] = seen[k] /\ buffer'[k] = buffer[k]
        BY <2>1, <2>2, <2>3, <3>3
      <4> QED
        BY <2>5, <3>1, <4>1 DEF CountedOf
    <3> QED
      BY <3>2, <3>3
  <2> QED
    BY <1>0, <2>2, <2>6, PartsKept
<1>4. ASSUME NEW s \in AllSources, Locate(s) PROVE MessagesCounted'
  <2>1. UNCHANGED <<count, seen, again, buffer, calcPc, ship, pair, point>>
    BY <1>4 DEF Locate, historyVars
  <2>2. ASSUME NEW k \in Ships PROVE Done(k)' = Done(k)
    BY <2>1 DEF Done
  <2> QED
    BY <1>1, <2>1, <2>2
<1>5. ASSUME NEW s \in AllSources, Count(s) PROVE MessagesCounted'
  BY <1>5, SuperCounted
<1>6. CASE FinishVsi
  <2>1. UNCHANGED <<count, seen, again, buffer>> /\ ship = NoShip /\ ship' = NoShip
    BY <1>6 DEF FinishVsi, countVars, historyVars
  <2>2. ASSUME NEW k \in Ships PROVE Done(k)' = Done(k)
    BY <1>k, <2>1 DEF Done
  <2> QED
    BY <1>1, <2>1, <2>2
<1>7. CASE NextPoint
  <2>1. /\ UNCHANGED <<count, seen, again, buffer, ship, pair>> /\ calcPc = "sources" /\ calcPc' = "super"
        /\ point' = point + 1
    BY <1>7 DEF NextPoint, Counted, countVars, historyVars
  <2>2. point' # 0
    BY <1>0, <2>1 DEF TypeInv, TypeOK
  <2>3. ASSUME NEW k \in Ships PROVE Done(k)' = Done(k)
    BY <2>1, <2>2 DEF Done
  <2> QED
    BY <1>1, <2>1, <2>3
<1>8. CASE NextPair
  <2>1. /\ UNCHANGED <<count, seen, again, buffer, ship>> /\ calcPc = "sources" /\ calcPc' = "super"
        /\ point' = 0 /\ pair' = pair + 1 /\ pair \in Nat
    BY <1>0, <1>8 DEF NextPair, Counted, countVars, historyVars, TypeInv, TypeOK
  <2>2. pair' - 1 = pair
    BY <2>1
  <2>3. ASSUME NEW k \in Ships PROVE Done(k)' = Done(k)
    BY <2>1, <2>2 DEF Done
  <2> QED
    BY <1>1, <2>1, <2>3
<1>9. CASE EmptyBuffer
  <2> DEFINE n == Len(buffer[ship])
             last == buffer[ship][n]
  <2>1. /\ UNCHANGED <<count, seen, again>> /\ calcPc = "sources" /\ ship # NoShip /\ ship' = NoShip
        /\ buffer' = [buffer EXCEPT ![ship] = <<last>>] /\ pair >= n - 1
    BY <1>9 DEF EmptyBuffer, Counted, countVars, historyVars, Emptied, LastPair
  <2>2. /\ ship \in Ships /\ n \in Nat /\ pair \in Nat \ {0} /\ pair + 1 <= n
        /\ buffer \in [Ships -> Seq(Messages)]
    BY <1>0, <2>1, PairType DEF TypeInv, TypeOK
  <2>3. pair = n - 1
    BY <2>1, <2>2
  <2> HIDE DEF n, last
  <2>4. ASSUME NEW k \in Ships PROVE CountedOf(k)' = CountedOf(k)
    <3>1. seen[k] \in Nat /\ again[k] \in Nat /\ Done(k)' = 0
      BY <1>0, <1>k, <2>1, CountedOfType DEF Done
    <3>2. CASE k = ship
      <4> DEFINE a == seen[k]
                 r == again[k]
      <4>1. Done(k) = pair /\ Len(buffer[k]) = n
        BY <2>1, <3>2 DEF Done, n
      <4>2. buffer'[k] = <<last>> /\ Len(<<last>>) = 1
        BY <2>1, <2>2, <3>2
      <4>3. CountedOf(k) = a - n + r + pair /\ CountedOf(k)' = a - 1 + r + 0
        BY <2>1, <3>1, <4>1, <4>2 DEF CountedOf
      <4>4. a \in Nat /\ r \in Nat
        BY <3>1
      <4> HIDE DEF a, r
      <4> QED
        BY <2>2, <2>3, <4>3, <4>4
    <3>3. CASE k # ship
      <4>1. buffer'[k] = buffer[k] /\ Done(k) = 0
        BY <2>1, <2>2, <3>3 DEF Done
      <4> QED
        BY <2>1, <3>1, <4>1 DEF CountedOf
    <3> QED
      BY <3>2, <3>3
  <2> QED
    BY <1>0, <2>1, <2>4, PartsKept
<1>10. CASE UNCHANGED vars
  <2>1. UNCHANGED <<count, seen, again, buffer, calcPc, ship, pair, point>>
    BY <1>10 DEF vars, countVars, calcVars, historyVars
  <2>2. ASSUME NEW k \in Ships PROVE Done(k)' = Done(k)
    BY <2>1 DEF Done
  <2> QED
    BY <1>1, <2>1, <2>2
<1>11. CASE CalculateFails
  <2>1. /\ UNCHANGED <<count, seen, buffer>> /\ calcPc = "sources" /\ ship' = NoShip
        /\ again' = IF ship = NoShip THEN again ELSE [again EXCEPT ![ship] = @ + pair]
    BY <1>11 DEF CalculateFails, countVars
  <2>2. ASSUME NEW k \in Ships PROVE CountedOf(k)' = CountedOf(k)
    <3>1. /\ seen[k] \in Nat /\ Len(buffer[k]) \in Nat /\ again[k] \in Nat /\ pair \in Nat
          /\ again \in [Ships -> Nat]
      BY <1>0, CountedOfType DEF TypeInv, TypeOK
    <3>2. Done(k)' = 0 /\ Done(k) = IF k = ship THEN pair ELSE 0
      BY <1>k, <2>1 DEF Done
    <3>3. again'[k] = again[k] + Done(k)
      BY <1>k, <2>1, <3>1, <3>2
    <3> DEFINE n == seen[k]
               l == Len(buffer[k])
               r == again[k]
    <3>4. /\ CountedOf(k) = n - l + r + Done(k) /\ CountedOf(k)' = n - l + again'[k] + Done(k)'
          /\ n \in Nat /\ l \in Nat /\ r \in Nat /\ Done(k) \in Nat /\ again'[k] = r + Done(k)
      BY <2>1, <3>1, <3>2, <3>3 DEF CountedOf
    <3> HIDE DEF n, l, r
    <3> QED
      BY <3>2, <3>4
  <2> QED
    BY <1>0, <2>1, <2>2, PartsKept
<1> QED
  BY <1>2, <1>3, <1>4, <1>5, <1>6, <1>7, <1>8, <1>9, <1>10, <1>11 DEF Next, Quiescent

LEMMA MessagesInit == Init => MessagesCounted
<1> SUFFICES ASSUME Init PROVE MessagesCounted
  OBVIOUS
<1> DEFINE zero == [h \in Hours |-> 0]
           f == [c \in Cells |-> SumFunctionOnSet(zero, Hours)]
           g == [k \in Ships |-> CountedOf(k)]
<1>1. SumFunctionOnSet(zero, Hours) = 0
  <2>1. \A h \in Hours : zero[h] = 0
    OBVIOUS
  <2> HIDE DEF zero
  <2> QED
    BY <2>1, CellsAndHours, SumZero
<1>2. SumFunctionOnSet(f, Cells) = 0
  <2>1. \A c \in Cells : f[c] = 0
    BY <1>1
  <2> HIDE DEF f
  <2> QED
    BY <2>1, CellsAndHours, SumZero
<1>3. CountedFor("received", Super) = 0
  <2>1. \A c \in Cells : count["received"][Super][c] = zero
    BY DEF Init, Kinds, AllSources
  <2>2. [c \in Cells |-> SumFunctionOnSet(count["received"][Super][c], Hours)] = f
    BY <2>1
  <2> HIDE DEF f, zero
  <2> QED
    BY <1>2, <2>2 DEF CountedFor
<1>4. SumFunctionOnSet(g, Ships) = 0
  <2>1. ASSUME NEW k \in Ships PROVE g[k] = 0
    <3>1. buffer[k] = <<>> /\ seen[k] = 0 /\ again[k] = 0 /\ ship = NoShip /\ k # NoShip
      BY CountingAssumption DEF Init
    <3>2. Len(<<>>) = 0
      OBVIOUS
    <3>3. CountedOf(k) = 0
      BY <3>1, <3>2 DEF CountedOf, Done
    <3> QED
      BY <3>3
  <2> HIDE DEF g
  <2> QED
    BY <2>1, CountingAssumption, SumZero
<1> QED
  BY <1>3, <1>4 DEF MessagesCounted

(* What has left the buffers, and what of the buffer being processed has had  *)
(* its turn, has been counted for the super source, each message once and     *)
(* once more for each failure that came after it was counted.                 *)
THEOREM MessagesAreCounted == Spec => []CountedAsOften
<1>1. MessagesCounted => CountedAsOften
  BY DEF MessagesCounted, CountedOf, CountedAsOften
<1> QED
  BY <1>1, LoopInit, LoopStep, MessagesInit, MessagesStep, PTL DEF Spec

-----------------------------------------------------------------------------
(***************************************************************************)
(* The request of CoverageQuery reads counters that only grow, in cells and *)
(* spans that are there before anything is counted in them.                 *)
(***************************************************************************)
Located ==
  /\ \A s \in AllSources, c \in Cells, h \in Hours :
       count["received"][s][c][h] > 0 => c \in grid[s] /\ h \in spans[s][c]
  /\ \A s \in located : signal.cell \in grid[s] /\ signal.hour \in spans[s][signal.cell]
  /\ calcPc = "sources" => signal.cell \in grid[Super]
  /\ \A s \in Sources : grid[s] \subseteq grid[Super]

LEMMA CountTypes ==
  ASSUME TypeInv
  PROVE  /\ \A s \in AllSources, c \in Cells, h \in Hours : count["received"][s][c][h] \in Nat
         /\ \A s \in AllSources : grid[s] \subseteq Cells
         /\ \A s \in AllSources, c \in Cells : spans[s][c] \subseteq Hours
         /\ signal.cell \in Cells /\ signal.hour \in Hours /\ signal.kind \in Kinds
<1>1. "received" \in Kinds
  BY DEF Kinds
<1>2. /\ count \in [Kinds -> [AllSources -> [Cells -> [Hours -> Nat]]]]
      /\ grid \in [AllSources -> SUBSET Cells]
      /\ spans \in [AllSources -> [Cells -> SUBSET Hours]]
      /\ signal \in Signals
  BY DEF TypeInv, TypeOK
<1> QED
  BY <1>1, <1>2 DEF Signals

LEMMA CountersGrow ==
  ASSUME TypeInv, [Next]_vars, NEW s \in AllSources, NEW c \in Cells, NEW h \in Hours
  PROVE  /\ grid[s] \subseteq grid'[s] /\ spans[s][c] \subseteq spans'[s][c]
         /\ count["received"][s][c][h] <= count'["received"][s][c][h]
         /\ count' = count \/ UNCHANGED <<grid, spans>>
<1>0. /\ count["received"][s][c][h] \in Nat /\ "received" \in Kinds
      /\ count \in [Kinds -> [AllSources -> [Cells -> [Hours -> Nat]]]]
      /\ grid \in [AllSources -> SUBSET Cells]
      /\ spans \in [AllSources -> [Cells -> SUBSET Hours]]
      /\ signal.cell \in Cells /\ signal.hour \in Hours /\ signal.kind \in Kinds
  BY CountTypes DEF TypeInv, TypeOK, Kinds
<1>1. CASE UNCHANGED <<grid, spans, count>>
  BY <1>0, <1>1
<1>2. ASSUME NEW a \in AllSources, Locate(a) PROVE UNCHANGED count /\ grid[s] \subseteq grid'[s]
                                                   /\ spans[s][c] \subseteq spans'[s][c]
  <2>1. /\ grid' = [grid EXCEPT ![a] = @ \cup {signal.cell}] /\ count' = count
        /\ spans' = [spans EXCEPT ![a][signal.cell] = @ \cup {signal.hour}]
    BY <1>2 DEF Locate
  <2> QED
    BY <1>0, <2>1
<1>3. ASSUME NEW a \in AllSources, Count(a) PROVE UNCHANGED <<grid, spans>>
        /\ count["received"][s][c][h] <= count'["received"][s][c][h]
  <2>1. /\ UNCHANGED <<grid, spans>>
        /\ count' = [count EXCEPT ![signal.kind][a][signal.cell][signal.hour] = @ + 1]
    BY <1>3 DEF Count
  <2> DEFINE n == count["received"][s][c][h]
             new == count'["received"][s][c][h]
  <2>2. new = n \/ new = n + 1
    BY <1>0, <2>1
  <2>3. n \in Nat
    BY <1>0
  <2> HIDE DEF n, new
  <2>4. n <= new
    BY <2>2, <2>3
  <2> QED
    BY <2>1, <2>4 DEF n, new
<1>4. \/ UNCHANGED <<grid, spans, count>>
      \/ \E a \in AllSources : Locate(a) \/ Count(a)
  BY DEF Next, CalculateVsi, CalculatePosition, FinishVsi, NextPoint, NextPair, EmptyBuffer, CalculateFails,
         Quiescent, vars, countVars
<1> QED
  BY <1>0, <1>1, <1>2, <1>3, <1>4

LEMMA LocatedInit == Init => Located
<1> SUFFICES ASSUME Init PROVE Located
  OBVIOUS
<1>1. \A s \in AllSources, c \in Cells, h \in Hours : count["received"][s][c][h] = 0
  BY DEF Init, Kinds
<1>2. \A s \in AllSources, c \in Cells, h \in Hours : ~(count["received"][s][c][h] > 0)
  BY <1>1
<1>3. located = {} /\ calcPc = "idle" /\ \A s \in Sources : grid[s] \subseteq grid[Super]
  BY DEF Init, AllSources
<1> QED
  BY <1>2, <1>3 DEF Located

LEMMA LocatedStep == TypeInv /\ Located /\ [Next]_vars => Located'
<1> SUFFICES ASSUME TypeInv, Located, [Next]_vars PROVE Located'
  OBVIOUS
<1>0. /\ count["received"] \in [AllSources -> [Cells -> [Hours -> Nat]]] /\ "received" \in Kinds
      /\ count \in [Kinds -> [AllSources -> [Cells -> [Hours -> Nat]]]]
      /\ grid \in [AllSources -> SUBSET Cells]
      /\ spans \in [AllSources -> [Cells -> SUBSET Hours]]
      /\ signal.cell \in Cells /\ signal.hour \in Hours /\ signal.kind \in Kinds
      /\ located \subseteq ToCount /\ sources \subseteq Sources
      /\ calcPc \in {"idle", "super", "sources"} /\ (calcPc = "idle" => sources = {})
      /\ Super \in AllSources /\ Sources \subseteq AllSources
  BY CountTypes DEF TypeInv, TypeOK, Kinds, IdleIsDone, AllSources
<1>1. ASSUME UNCHANGED <<grid, spans, count, located>>,
             located = {} \/ UNCHANGED signal,
             calcPc' = "sources" => calcPc = "sources" /\ UNCHANGED signal
      PROVE  Located'
  BY <1>1 DEF Located
<1>2. ASSUME NEW a \in AllSources, Locate(a) PROVE Located'
  <2>1. /\ grid' = [grid EXCEPT ![a] = @ \cup {signal.cell}] /\ count' = count
        /\ spans' = [spans EXCEPT ![a][signal.cell] = @ \cup {signal.hour}]
        /\ located' = {a} /\ UNCHANGED <<signal, calcPc, sources>> /\ calcPc \in {"super", "sources"}
        /\ a \in ToCount
    BY <1>2 DEF Locate
  <2>2. \A s \in AllSources, c \in Cells : grid[s] \subseteq grid'[s] /\ spans[s][c] \subseteq spans'[s][c]
    BY <1>0, <2>1
  <2>3. signal.cell \in grid'[a] /\ signal.hour \in spans'[a][signal.cell]
    BY <1>0, <2>1
  <2>4. ASSUME NEW s \in Sources PROVE grid'[s] \subseteq grid'[Super]
    <3>1. a = s => signal.cell \in grid[Super]
      BY <1>0, <2>1, <2>4, CountingAssumption DEF ToCount, Located
    <3> QED
      BY <1>0, <2>1, <2>2, <3>1 DEF Located
  <2> QED
    BY <1>0, <2>1, <2>2, <2>3, <2>4 DEF Located
<1>3. ASSUME NEW a \in AllSources, Count(a) PROVE Located'
  <2>1. /\ UNCHANGED <<grid, spans, signal>> /\ located' = {} /\ located = {a}
        /\ count' = [count EXCEPT ![signal.kind][a][signal.cell][signal.hour] = @ + 1]
    BY <1>3 DEF Count
  <2>2. signal.cell \in grid[a] /\ signal.hour \in spans[a][signal.cell]
    BY <2>1 DEF Located
  <2>3. signal.cell \in grid[Super]
    BY <1>0, <2>1, <2>2 DEF Located, ToCount
  <2>4. ASSUME NEW s \in AllSources, NEW c \in Cells, NEW h \in Hours,
               count'["received"][s][c][h] > 0
        PROVE  c \in grid[s] /\ h \in spans[s][c]
    <3>1. CASE s = a /\ c = signal.cell /\ h = signal.hour
      BY <2>2, <3>1
    <3>2. CASE ~(s = a /\ c = signal.cell /\ h = signal.hour)
      <4>1. count'["received"][s][c][h] = count["received"][s][c][h]
        BY <1>0, <2>1, <3>2
      <4> QED
        BY <2>4, <4>1 DEF Located
    <3> QED
      BY <3>1, <3>2
  <2> QED
    BY <2>1, <2>3, <2>4 DEF Located
<1>4. ASSUME NEW m \in Messages, CalculateVsi(m) PROVE Located'
  BY <1>0, <1>1, <1>4 DEF CalculateVsi, Arrive, ToCount, countVars
<1>5. ASSUME NEW m \in Messages, CalculatePosition(m) PROVE Located'
  BY <1>0, <1>1, <1>5 DEF CalculatePosition, Arrive, ToCount, countVars
<1>6. CASE FinishVsi \/ EmptyBuffer \/ CalculateFails
  BY <1>1, <1>6 DEF FinishVsi, EmptyBuffer, CalculateFails, Counted, countVars
<1>7. CASE NextPoint \/ NextPair
  BY <1>1, <1>7 DEF NextPoint, NextPair, Counted, countVars
<1>8. CASE UNCHANGED vars
  BY <1>1, <1>8 DEF vars, countVars, calcVars
<1> QED
  BY <1>2, <1>3, <1>4, <1>5, <1>6, <1>7, <1>8 DEF Next, Quiescent

(* The state of the request.                                                *)
LEMMA QueryTypeInit == QueryInit => QueryTypeOK
<1> SUFFICES ASSUME QueryInit PROVE QueryTypeOK
  OBVIOUS
<1>1. NothingRead \in [Sides -> [Kinds -> [CoarseCells -> Nat]]]
  BY DEF NothingRead
<1>2. 0 \in Cells /\ 0 \in 0 .. MaxQueries
  BY CountingAssumption, QueryAssumption DEF Cells
<1>3. asked \in [source : AllSources, hours : SUBSET Hours]
  BY DEF QueryInit, AllSources
<1>4. tempCells \in [Sides -> SUBSET CoarseCells]
  BY DEF QueryInit
<1> QED
  BY <1>1, <1>2, <1>3, <1>4 DEF QueryInit, QueryTypeOK, Sides, Kinds

LEMMA SourceOnType ==
  ASSUME QueryTypeOK
  PROVE  SourceOn(side) \in AllSources
  BY DEF QueryTypeOK, SourceOn, AllSources

LEMMA OpenSpansType ==
  ASSUME QueryTypeOK, TypeInv, NEW c \in Cells, NEW kind \in Kinds, OpenSpans(c, kind)
  PROVE  /\ cell' \in Cells /\ reading' \in Kinds /\ queryPc' = "spans"
         /\ hoursLeft' \subseteq Hours /\ expectedSpans' \subseteq Hours
  BY CountTypes, SourceOnType DEF OpenSpans

LEMMA CalculateType ==
  ASSUME QueryTypeOK, TypeInv, TypeInv', Calculate
  PROVE  QueryTypeOK'
<1>1. UNCHANGED <<queryPc, asked, side, cell, reading, expectedSpans, tempCells, sum, queries>>
  BY DEF Calculate
<1>2. grid' \in [AllSources -> SUBSET Cells] /\ spans' \in [AllSources -> [Cells -> SUBSET Hours]]
  BY DEF TypeInv, TypeOK
<1>3. SourceOn(side) \in AllSources /\ cell \in Cells
  BY SourceOnType DEF QueryTypeOK
<1>4. cellsLeft' \subseteq Cells
  <2>1. cellsLeft' = cellsLeft \/ cellsLeft' = cellsLeft \cup (grid'[SourceOn(side)] \ grid[SourceOn(side)])
    BY DEF Calculate, GridGrows
  <2> QED
    BY <1>2, <1>3, <2>1 DEF QueryTypeOK
<1>5. hoursLeft' \subseteq Hours
  <2>1. \/ hoursLeft' = hoursLeft
        \/ hoursLeft' = hoursLeft \cup (spans'[SourceOn(side)][cell] \ spans[SourceOn(side)][cell])
    BY DEF Calculate, SpansGrow
  <2> QED
    BY <1>2, <1>3, <2>1 DEF QueryTypeOK
<1> QED
  BY <1>1, <1>4, <1>5 DEF QueryTypeOK

LEMMA ReadSpanType ==
  ASSUME QueryTypeOK, TypeInv, NEW h \in Hours, ReadSpan(h)
  PROVE  sum' \in [Sides -> [Kinds -> [CoarseCells -> Nat]]]
<1> DEFINE read == count[reading][SourceOn(side)][cell][h]
           C == CoarseOf(cell)
<1>1. read \in Nat /\ C \in CoarseCells /\ side \in Sides /\ reading \in Kinds
  <2>1. SourceOn(side) \in AllSources /\ cell \in Cells /\ reading \in Kinds /\ side \in Sides
    BY SourceOnType DEF QueryTypeOK
  <2> QED
    BY <2>1 DEF TypeInv, TypeOK, CoarseCells
<1>2. sum' = sum \/ sum' = [sum EXCEPT ![side][reading][C] = @ + read]
  BY DEF ReadSpan
<1>3. sum \in [Sides -> [Kinds -> [CoarseCells -> Nat]]]
  BY DEF QueryTypeOK
<1> HIDE DEF read, C
<1>4. CASE sum' = [sum EXCEPT ![side][reading][C] = @ + read]
  <2>1. sum[side][reading][C] + read \in Nat
    BY <1>1, <1>3
  <2>2. [sum[side][reading] EXCEPT ![C] = @ + read] \in [CoarseCells -> Nat]
    BY <1>1, <1>3, <2>1
  <2> QED
    BY <1>1, <1>3, <1>4, <2>2
<1> QED
  BY <1>2, <1>3, <1>4

LEMMA QueryType ==
  ASSUME QueryTypeOK, TypeInv, TypeInv', [QueryNext]_allVars
  PROVE  QueryTypeOK'
<1>0. SourceOn(side) \in AllSources
  BY SourceOnType
<1>1. ASSUME NEW s \in Sources, NEW from \in Hours, NEW to \in Hours, StartQuery(s, from, to)
      PROVE  QueryTypeOK'
  <2>1. from .. to \subseteq Hours
    <3>1. HourOf(2 * LastTime) \in Int
      BY HourOfMonotone, CountingAssumption
    <3> QED
      BY <3>1 DEF Hours
  <2>2. NothingRead \in [Sides -> [Kinds -> [CoarseCells -> Nat]]]
    BY DEF NothingRead
  <2>3. asked' \in [source : AllSources, hours : SUBSET Hours]
    BY <1>1, <2>1 DEF StartQuery, HoursAsked, AllSources
  <2>4. tempCells' \in [Sides -> SUBSET CoarseCells]
    BY <1>1 DEF StartQuery
  <2>5. queries' \in 0 .. MaxQueries
    BY <1>1, QueryAssumption DEF StartQuery, QueryTypeOK
  <2> QED
    BY <1>1, <2>2, <2>3, <2>4, <2>5 DEF StartQuery, QueryTypeOK, FirstSide, Sides
<1>2. CASE OpenGrid
  BY <1>0, <1>2, CountTypes DEF OpenGrid, QueryTypeOK
<1>3. ASSUME NEW c \in Cells, NextCell(c) PROVE QueryTypeOK'
  <2>1. CoarseOf(c) \in CoarseCells /\ "missing" \in Kinds
    BY DEF CoarseCells, Kinds
  <2>2. tempCells' \in [Sides -> SUBSET CoarseCells]
    BY <1>3, <2>1 DEF NextCell, QueryTypeOK
  <2>3. OpenSpans(c, "missing")
    BY <1>3 DEF NextCell
  <2>4. /\ cell' \in Cells /\ reading' \in Kinds /\ queryPc' = "spans"
        /\ hoursLeft' \subseteq Hours /\ expectedSpans' \subseteq Hours
    BY <2>1, <2>3, OpenSpansType
  <2> QED
    BY <1>3, <2>2, <2>4 DEF NextCell, QueryTypeOK
<1>4. ASSUME NEW h \in Hours, ReadSpan(h) PROVE QueryTypeOK'
  <2>1. sum' \in [Sides -> [Kinds -> [CoarseCells -> Nat]]]
    BY <1>4, ReadSpanType
  <2> QED
    BY <1>4, <2>1 DEF ReadSpan, QueryTypeOK
<1>5. CASE ReadFails \/ Answer
  BY <1>5 DEF ReadFails, Answer, QueryTypeOK
<1>6. CASE NextKind
  <2>1. CASE reading = "vsi"
    BY <1>6, <2>1 DEF NextKind, QueryTypeOK
  <2>2. CASE reading # "vsi"
    <3>1. After(reading) \in Kinds
      BY <2>2 DEF After, QueryTypeOK, Kinds
    <3>2. OpenSpans(cell, After(reading)) /\ cell \in Cells
      BY <1>6, <2>2 DEF NextKind, QueryTypeOK
    <3>3. /\ cell' \in Cells /\ reading' \in Kinds /\ queryPc' = "spans"
          /\ hoursLeft' \subseteq Hours /\ expectedSpans' \subseteq Hours
      BY <3>1, <3>2, OpenSpansType
    <3> QED
      BY <1>6, <3>3 DEF NextKind, QueryTypeOK
  <2> QED
    BY <2>1, <2>2
<1>7. CASE FinishGrid
  BY <1>7 DEF FinishGrid, QueryTypeOK, Sides
<1>8. CASE Calculate
  BY <1>8, CalculateType
<1>9. CASE UNCHANGED allVars
  BY <1>9 DEF allVars, queryVars, QueryTypeOK
<1> QED
  BY <1>1, <1>2, <1>3, <1>4, <1>5, <1>6, <1>7, <1>8, <1>9 DEF QueryNext, Query

Iterates == queryPc \in {"cells", "spans"}

(* The cells an iterator will still return are in the grid, the cell it has  *)
(* returned is not among them, and every coarse cell made for the source is  *)
(* or will be made for the super source.                                     *)
Iterators ==
  /\ queryPc = "open" \/ Iterates => asked.source \in Sources
  /\ queryPc = "open" /\ side = "source" => sum = NothingRead /\ tempCells["source"] = {}
  /\ Iterates => cellsLeft \subseteq grid[SourceOn(side)]
  /\ queryPc = "spans" => cell \in grid[SourceOn(side)] \ cellsLeft

CellsMade ==
  /\ side = "source" /\ Iterates =>
       \A C \in tempCells["source"] : \E c \in grid[asked.source] : CoarseOf(c) = C
  /\ side = "super" /\ queryPc = "open" =>
       \A C \in tempCells["source"] : \E c \in grid[Super] : CoarseOf(c) = C
  /\ side = "super" /\ Iterates =>
       \A C \in tempCells["source"] \ tempCells["super"] : \E c \in cellsLeft : CoarseOf(c) = C
  /\ queryPc = "answered" => tempCells["source"] \subseteq tempCells["super"]

(* What the calculator changes under a request.                             *)
LEMMA CalculateGrows ==
  ASSUME QueryTypeOK, TypeInv, TypeInv', Calculate
  PROVE  /\ UNCHANGED <<queryPc, asked, side, cell, reading, tempCells, sum>>
         /\ \A s \in AllSources : grid[s] \subseteq grid'[s] /\ grid'[s] \subseteq Cells
         /\ cellsLeft \subseteq cellsLeft'
         /\ cellsLeft' \subseteq cellsLeft \cup (grid'[SourceOn(side)] \ grid[SourceOn(side)])
         /\ SourceOn(side) \in AllSources /\ SourceOn(side)' = SourceOn(side)
<1>1. [Next]_vars /\ UNCHANGED <<queryPc, asked, side, cell, reading, tempCells, sum>>
  BY DEF Calculate
<1>2. 0 \in Cells /\ 0 \in Hours
  <2>1. HourOf(0) = 0 /\ 0 \in 0 .. 2 * LastTime
    BY CountingAssumption DEF HourOf
  <2>2. HourOf(0) \in Hours
    BY <2>1, HourOfType
  <2> QED
    BY <2>1, <2>2, CountingAssumption DEF Cells
<1>3. \A s \in AllSources : grid[s] \subseteq grid'[s]
  BY <1>1, <1>2, CountersGrow
<1>4. \A s \in AllSources : grid'[s] \subseteq Cells
  BY DEF TypeInv, TypeOK
<1>5. cellsLeft' = cellsLeft \/ cellsLeft' = cellsLeft \cup (grid'[SourceOn(side)] \ grid[SourceOn(side)])
  BY DEF Calculate, GridGrows
<1>6. SourceOn(side)' = SourceOn(side)
  BY <1>1 DEF SourceOn
<1> QED
  BY <1>1, <1>3, <1>4, <1>5, <1>6, SourceOnType

LEMMA IteratorsStep ==
  ASSUME QueryTypeOK, TypeInv, TypeInv', Iterators, [QueryNext]_allVars
  PROVE  Iterators'
<1>1. ASSUME NEW s \in Sources, NEW from \in Hours, NEW to \in Hours, StartQuery(s, from, to)
      PROVE  Iterators'
  BY <1>1 DEF StartQuery, Iterators, Iterates, FirstSide, Sides, NothingRead
<1>2. CASE OpenGrid /\ UNCHANGED vars
  <2>1. UNCHANGED <<grid, asked, side>> /\ queryPc' = "cells" /\ queryPc = "open"
        /\ cellsLeft' = grid[SourceOn(side)]
    BY <1>2 DEF OpenGrid, vars, countVars
  <2> QED
    BY <2>1 DEF Iterators, Iterates, SourceOn
<1>3. ASSUME NEW c \in Cells, NextCell(c), UNCHANGED vars PROVE Iterators'
  <2>1. /\ UNCHANGED <<grid, asked, side>> /\ queryPc' = "spans" /\ queryPc = "cells"
        /\ c \in cellsLeft /\ cellsLeft' = cellsLeft \ {c} /\ cell' = c
    BY <1>3 DEF NextCell, OpenSpans, vars, countVars
  <2> QED
    BY <2>1 DEF Iterators, Iterates, SourceOn
<1>4. ASSUME NEW h \in Hours, ReadSpan(h), UNCHANGED vars PROVE Iterators'
  BY <1>4 DEF ReadSpan, Iterators, Iterates, SourceOn, vars, countVars
<1>5. CASE (ReadFails \/ Answer) /\ UNCHANGED vars
  BY <1>5 DEF ReadFails, Answer, Iterators, Iterates
<1>6. CASE NextKind /\ UNCHANGED vars
  <2>1. /\ UNCHANGED <<grid, asked, side, cellsLeft, cell>> /\ queryPc = "spans"
        /\ queryPc' \in {"cells", "spans"}
    BY <1>6 DEF NextKind, OpenSpans, vars, countVars
  <2> QED
    BY <2>1 DEF Iterators, Iterates, SourceOn
<1>7. CASE FinishGrid /\ UNCHANGED vars
  <2>1. /\ queryPc = "cells" /\ UNCHANGED asked
        /\ \/ queryPc' = "answered"
           \/ queryPc' = "open" /\ side' = "super"
    BY <1>7 DEF FinishGrid, FirstSide, Sides
  <2> QED
    BY <2>1 DEF Iterators, Iterates
<1>8. CASE Calculate
  BY <1>8, CalculateGrows DEF Iterators, Iterates, NothingRead
<1>9. CASE UNCHANGED allVars
  BY <1>9 DEF allVars, vars, countVars, queryVars, Iterators, Iterates, SourceOn, NothingRead
<1> QED
  BY <1>1, <1>2, <1>3, <1>4, <1>5, <1>6, <1>7, <1>8, <1>9 DEF QueryNext, Query

LEMMA CellsMadeStep ==
  ASSUME QueryTypeOK, TypeInv, TypeInv', Located, Iterators, CellsMade, [QueryNext]_allVars
  PROVE  CellsMade'
<1>0. side \in {"source", "super"} /\ tempCells \in [Sides -> SUBSET CoarseCells]
      /\ "source" \in Sides /\ "super" \in Sides
  BY DEF QueryTypeOK, Sides
<1>1. ASSUME NEW s \in Sources, NEW from \in Hours, NEW to \in Hours, StartQuery(s, from, to)
      PROVE  CellsMade'
  BY <1>1 DEF StartQuery, CellsMade, Iterates, FirstSide
<1>2. CASE OpenGrid /\ UNCHANGED vars
  <2>1. UNCHANGED <<grid, asked, side, tempCells>> /\ queryPc' = "cells" /\ queryPc = "open"
        /\ cellsLeft' = grid[SourceOn(side)]
    BY <1>2 DEF OpenGrid, vars, countVars
  <2> QED
    BY <2>1 DEF CellsMade, Iterators, Iterates, SourceOn
<1>3. ASSUME NEW c \in Cells, NextCell(c), UNCHANGED vars PROVE CellsMade'
  <2>1. /\ UNCHANGED <<grid, asked, side>> /\ queryPc' = "spans" /\ queryPc = "cells"
        /\ c \in cellsLeft /\ cellsLeft' = cellsLeft \ {c}
        /\ tempCells' = [tempCells EXCEPT ![side] = @ \cup {CoarseOf(c)}]
    BY <1>3 DEF NextCell, OpenSpans, vars, countVars
  <2>2. CASE side = "source"
    <3>1. c \in grid[asked.source] /\ tempCells'["source"] = tempCells["source"] \cup {CoarseOf(c)}
      BY <1>0, <2>1, <2>2 DEF Iterators, Iterates, SourceOn
    <3> QED
      BY <2>1, <2>2, <3>1 DEF CellsMade, Iterates
  <2>3. CASE side = "super"
    <3>1. /\ tempCells'["source"] = tempCells["source"]
          /\ tempCells'["super"] = tempCells["super"] \cup {CoarseOf(c)}
      BY <1>0, <2>1, <2>3
    <3>2. ASSUME NEW C \in tempCells'["source"] \ tempCells'["super"]
          PROVE  \E d \in cellsLeft' : CoarseOf(d) = C
      <4>1. C \in tempCells["source"] \ tempCells["super"] /\ C # CoarseOf(c)
        BY <3>1, <3>2
      <4>2. PICK d \in cellsLeft : CoarseOf(d) = C
        BY <2>1, <2>3, <4>1 DEF CellsMade, Iterates
      <4> QED
        BY <2>1, <4>1, <4>2
    <3> QED
      BY <2>1, <2>3, <3>2 DEF CellsMade, Iterates
  <2> QED
    BY <1>0, <2>2, <2>3
<1>4. ASSUME NEW h \in Hours, ReadSpan(h), UNCHANGED vars PROVE CellsMade'
  BY <1>4 DEF ReadSpan, CellsMade, Iterates, CoarseOf, vars, countVars
<1>5. CASE (ReadFails \/ Answer) /\ UNCHANGED vars
  BY <1>5 DEF ReadFails, Answer, CellsMade, Iterates
<1>6. CASE NextKind /\ UNCHANGED vars
  <2>1. /\ UNCHANGED <<grid, asked, side, cellsLeft, tempCells>> /\ queryPc = "spans"
        /\ queryPc' \in {"cells", "spans"}
    BY <1>6 DEF NextKind, OpenSpans, vars, countVars
  <2> QED
    BY <2>1 DEF CellsMade, Iterates
<1>7. CASE FinishGrid /\ UNCHANGED vars
  <2>1. UNCHANGED <<grid, tempCells>> /\ queryPc = "cells" /\ cellsLeft = {}
    BY <1>7 DEF FinishGrid, vars, countVars
  <2>2. CASE side = "source"
    <3>1. queryPc' = "open" /\ side' = "super"
      BY <1>7, <2>2 DEF FinishGrid, FirstSide, Sides
    <3>2. grid[asked.source] \subseteq grid[Super]
      BY <2>1 DEF Iterators, Iterates, Located
    <3> QED
      BY <2>1, <2>2, <3>1, <3>2 DEF CellsMade, Iterates
  <2>3. CASE side = "super"
    <3>1. queryPc' = "answered" /\ side' = "super"
      BY <1>7, <2>3 DEF FinishGrid, FirstSide
    <3> QED
      BY <2>1, <2>3, <3>1 DEF CellsMade, Iterates
  <2> QED
    BY <1>0, <2>2, <2>3
<1>8. CASE Calculate
  <2>1. /\ UNCHANGED <<queryPc, asked, side, tempCells>> /\ cellsLeft \subseteq cellsLeft'
        /\ \A s \in AllSources : grid[s] \subseteq grid'[s]
    BY <1>8, CalculateGrows
  <2>2. asked.source \in AllSources /\ Super \in AllSources
    BY DEF QueryTypeOK, AllSources
  <2>3. grid[asked.source] \subseteq grid'[asked.source] /\ grid[Super] \subseteq grid'[Super]
    BY <2>1, <2>2
  <2> QED
    BY <2>1, <2>3 DEF CellsMade, Iterates
<1>9. CASE UNCHANGED allVars
  BY <1>9 DEF allVars, vars, countVars, queryVars, CellsMade, Iterates
<1> QED
  BY <1>1, <1>2, <1>3, <1>4, <1>5, <1>6, <1>7, <1>8, <1>9 DEF QueryNext, Query

(* A pair of a cell and an hour is unread while the iterators will still     *)
(* return its cell or its span.  What is summed up for the source is at most *)
(* what the source received in the pairs read, and later at most what is     *)
(* summed up for the super source and what it received in those unread.      *)
Pairs == Cells \X Hours
Received(s) == [p \in Pairs |-> count["received"][s][p[1]][p[2]]]
Asked(C) == {p \in Pairs : CoarseOf(p[1]) = C /\ p[2] \in asked.hours}
InHand(p) ==
  /\ queryPc = "spans" /\ p[1] = cell
  /\ reading = "missing" \/ (reading = "received" /\ p[2] \in hoursLeft)
Unread(C) == {p \in Asked(C) : p[1] \in cellsLeft \/ InHand(p)}
ReadSoFar(C) == Asked(C) \ Unread(C)
ReceivedIn(s, S) == SumFunctionOnSet(Received(s), S)

Summed(C) ==
  /\ side = "source" /\ Iterates =>
       sum["source"]["received"][C] <= ReceivedIn(asked.source, ReadSoFar(C))
  /\ side = "super" /\ queryPc = "open" =>
       sum["source"]["received"][C] <= ReceivedIn(Super, Asked(C))
  /\ side = "super" /\ Iterates =>
       sum["source"]["received"][C]
         <= sum["super"]["received"][C] + ReceivedIn(Super, Unread(C))
  /\ queryPc = "answered" => sum["source"]["received"][C] <= sum["super"]["received"][C]

LEMMA SumOfPairs ==
  ASSUME NEW f \in [Pairs -> Nat], NEW g \in [Pairs -> Nat],
         NEW A \in SUBSET Pairs, NEW B \in SUBSET Pairs,
         \A p \in A : f[p] # 0 => p \in B /\ f[p] <= g[p]
  PROVE  /\ SumFunctionOnSet(f, A) <= SumFunctionOnSet(g, B)
         /\ SumFunctionOnSet(f, A) \in Nat /\ SumFunctionOnSet(g, B) \in Nat
<1>1. IsFiniteSet(Pairs)
  BY CellsAndHours, FS_Product DEF Pairs
<1>2. IsFiniteSet(A) /\ IsFiniteSet(B)
  BY <1>1, FS_Subset
<1>3. (\A p \in A : f[p] \in Nat) /\ (\A p \in B : g[p] \in Nat)
  OBVIOUS
<1>4. SumFunctionOnSet(f, A) \in Nat /\ SumFunctionOnSet(g, B) \in Nat
  BY <1>2, <1>3, SumNat
<1>5. SumFunctionOnSet(f, A) <= SumFunctionOnSet(g, B)
  BY <1>1, <1>3, SumWithin
<1> QED
  BY <1>4, <1>5

LEMMA ReceivedType ==
  ASSUME TypeInv, NEW s \in AllSources
  PROVE  Received(s) \in [Pairs -> Nat]
<1>1. \A p \in Pairs : p[1] \in Cells /\ p[2] \in Hours
  BY DEF Pairs
<1> QED
  BY <1>1, CountTypes DEF Received

LEMMA ReceivedTypeNext ==
  ASSUME TypeInv', NEW s \in AllSources
  PROVE  Received(s)' \in [Pairs -> Nat]
<1>1. \A p \in Pairs : p[1] \in Cells /\ p[2] \in Hours
  BY DEF Pairs
<1>2. count' \in [Kinds -> [AllSources -> [Cells -> [Hours -> Nat]]]] /\ "received" \in Kinds
  BY DEF TypeInv, TypeOK, Kinds
<1> QED
  BY <1>1, <1>2 DEF Received

(* Steps that neither read nor change the side.                             *)
LEMMA SummedKept ==
  ASSUME QueryTypeOK, TypeInv, TypeInv', NEW C \in CoarseCells, Summed(C), Iterates, Iterates',
         UNCHANGED <<asked, side>>,
         sum'["source"]["received"][C] = sum["source"]["received"][C],
         sum'["super"]["received"][C] = sum["super"]["received"][C],
         \A p \in Asked(C) : count["received"][SourceOn(side)][p[1]][p[2]] # 0 =>
           (p \in Unread(C) <=> p \in Unread(C)'),
         \A s \in AllSources, c \in Cells, h \in Hours :
           count["received"][s][c][h] <= count'["received"][s][c][h]
  PROVE  Summed(C)'
<1>1. PICK a \in AllSources : a = SourceOn(side)
  BY SourceOnType
<1> DEFINE f == Received(a)
           g == Received(a)'
           rd == ReadSoFar(C)
           rd2 == ReadSoFar(C)'
           un == Unread(C)
           un2 == Unread(C)'
<1>2. f \in [Pairs -> Nat] /\ g \in [Pairs -> Nat]
  BY ReceivedType, ReceivedTypeNext
<1>3. /\ rd \in SUBSET Pairs /\ rd2 \in SUBSET Pairs /\ un \in SUBSET Pairs /\ un2 \in SUBSET Pairs
      /\ Asked(C)' = Asked(C) /\ Asked(C) \subseteq Pairs
  BY DEF ReadSoFar, Unread, Asked
<1>4. \A p \in Pairs : f[p] <= g[p]
  <2>1. \A p \in Pairs : p[1] \in Cells /\ p[2] \in Hours
    BY DEF Pairs
  <2> QED
    BY <2>1 DEF Received
<1>5. \A p \in Asked(C) : f[p] # 0 => (p \in un <=> p \in un2)
  BY <1>1, <1>3 DEF Received
<1>6. (\A p \in rd : f[p] # 0 => p \in rd2) /\ (\A p \in un : f[p] # 0 => p \in un2)
  BY <1>3, <1>5 DEF ReadSoFar, Unread
<1> DEFINE x == SumFunctionOnSet(f, rd)
           x2 == SumFunctionOnSet(g, rd2)
           y == SumFunctionOnSet(f, un)
           y2 == SumFunctionOnSet(g, un2)
           read == sum["source"]["received"][C]
           got == sum["super"]["received"][C]
<1>7. x <= x2 /\ x \in Nat /\ x2 \in Nat /\ y <= y2 /\ y \in Nat /\ y2 \in Nat
  <2> HIDE DEF f, g, rd, rd2, un, un2
  <2>1. \A p \in rd : f[p] # 0 => p \in rd2 /\ f[p] <= g[p]
    BY <1>3, <1>4, <1>6
  <2>2. \A p \in un : f[p] # 0 => p \in un2 /\ f[p] <= g[p]
    BY <1>3, <1>4, <1>6
  <2>3. x <= x2 /\ x \in Nat /\ x2 \in Nat
    BY <1>2, <1>3, <2>1, SumOfPairs
  <2>4. y <= y2 /\ y \in Nat /\ y2 \in Nat
    BY <1>2, <1>3, <2>2, SumOfPairs
  <2> QED
    BY <2>3, <2>4
<1>8. read \in Nat /\ got \in Nat
  BY DEF QueryTypeOK, Sides, Kinds
<1>9. CASE side = "source"
  <2>1. a = asked.source /\ a = asked'.source
    BY <1>1, <1>9 DEF SourceOn
  <2>2. read <= x
    BY <1>9, <2>1 DEF Summed, ReceivedIn
  <2>3. ReceivedIn(asked.source, ReadSoFar(C))' = x2
    BY <2>1 DEF ReceivedIn, Received
  <2>4. read <= x2
    <3> HIDE DEF x, x2, read
    <3> QED
      BY <1>7, <1>8, <2>2
  <2> QED
    BY <1>9, <2>3, <2>4 DEF Summed, Iterates
<1>10. CASE side = "super"
  <2>1. a = Super
    BY <1>1, <1>10 DEF SourceOn
  <2>2. read <= got + y
    BY <1>10, <2>1 DEF Summed, ReceivedIn
  <2>3. ReceivedIn(Super, Unread(C))' = y2
    BY <2>1 DEF ReceivedIn
  <2>4. read <= got + y2
    <3> HIDE DEF y, y2, read, got
    <3> QED
      BY <1>7, <1>8, <2>2
  <2> QED
    BY <1>10, <2>3, <2>4 DEF Summed, Iterates
<1> QED
  BY <1>9, <1>10 DEF QueryTypeOK, Sides

LEMMA CountsKept ==
  ASSUME TypeInv, UNCHANGED vars
  PROVE  \A s \in AllSources, c \in Cells, h \in Hours :
           count["received"][s][c][h] <= count'["received"][s][c][h]
<1>1. count' = count
  BY DEF vars, countVars
<1>2. \A s \in AllSources, c \in Cells, h \in Hours : count["received"][s][c][h] \in Nat
  BY CountTypes
<1> QED
  BY <1>1, <1>2

LEMMA CalculateSummed ==
  ASSUME QueryTypeOK, TypeInv, TypeInv', Located, NEW C \in CoarseCells, Summed(C), Calculate
  PROVE  Summed(C)'
<1>0. /\ UNCHANGED <<queryPc, asked, side, cell, reading, tempCells, sum>>
      /\ cellsLeft \subseteq cellsLeft'
      /\ cellsLeft' \subseteq cellsLeft \cup (grid'[SourceOn(side)] \ grid[SourceOn(side)])
  BY CalculateGrows
<1>1. /\ [Next]_vars
      /\ \/ hoursLeft' = hoursLeft
         \/ hoursLeft' = hoursLeft \cup (spans'[SourceOn(side)][cell] \ spans[SourceOn(side)][cell])
  BY DEF Calculate, SpansGrow
<1>2. \A s \in AllSources, c \in Cells, h \in Hours :
        count["received"][s][c][h] <= count'["received"][s][c][h]
  BY <1>1, CountersGrow
<1>3. CASE Iterates
  <2>1. ASSUME NEW p \in Asked(C), count["received"][SourceOn(side)][p[1]][p[2]] # 0
        PROVE  p \in Unread(C) <=> p \in Unread(C)'
    <3>1. p[1] \in Cells /\ p[2] \in Hours /\ p \in Asked(C)'
      BY <1>0, <2>1 DEF Asked, Pairs
    <3>2. SourceOn(side) \in AllSources
      BY SourceOnType
    <3>3. count["received"][SourceOn(side)][p[1]][p[2]] > 0
      <4>1. count["received"][SourceOn(side)][p[1]][p[2]] \in Nat
        BY <3>1, <3>2, CountTypes
      <4> QED
        BY <2>1, <4>1
    <3>4. p[1] \in grid[SourceOn(side)] /\ p[2] \in spans[SourceOn(side)][p[1]]
      BY <3>1, <3>2, <3>3 DEF Located
    <3>5. p[1] \in cellsLeft <=> p[1] \in cellsLeft'
      BY <1>0, <3>4
    <3>6. p[1] = cell => (p[2] \in hoursLeft <=> p[2] \in hoursLeft')
      BY <1>1, <3>4
    <3>7. InHand(p) <=> InHand(p)'
      BY <1>0, <3>6 DEF InHand
    <3> QED
      BY <2>1, <3>1, <3>5, <3>7 DEF Unread
  <2>2. Iterates'
    BY <1>0, <1>3 DEF Iterates
  <2> QED
    BY <1>0, <1>2, <1>3, <2>1, <2>2, SummedKept
<1>4. CASE queryPc = "open" /\ side = "super"
  <2> DEFINE f == Received(Super)
             g == Received(Super)'
             A == Asked(C)
             x == SumFunctionOnSet(f, A)
             x2 == SumFunctionOnSet(g, A)
             read == sum["source"]["received"][C]
  <2>1. f \in [Pairs -> Nat] /\ g \in [Pairs -> Nat]
    BY ReceivedType, ReceivedTypeNext DEF AllSources
  <2>2. Asked(C)' = A /\ A \in SUBSET Pairs
    BY <1>0 DEF Asked
  <2>3. \A p \in Pairs : f[p] <= g[p]
    <3>1. \A p \in Pairs : p[1] \in Cells /\ p[2] \in Hours
      BY DEF Pairs
    <3> QED
      BY <1>2, <3>1 DEF Received, AllSources
  <2>4. x <= x2 /\ x \in Nat /\ x2 \in Nat
    <3> HIDE DEF f, g, A
    <3> QED
      BY <2>1, <2>2, <2>3, SumOfPairs
  <2>5. read <= x /\ read \in Nat
    BY <1>4 DEF Summed, ReceivedIn, QueryTypeOK, Sides, Kinds
  <2>6. read <= x2
    <3> HIDE DEF x, x2, read
    <3> QED
      BY <2>4, <2>5
  <2>7. ReceivedIn(Super, Asked(C))' = x2
    BY <2>2 DEF ReceivedIn
  <2> QED
    BY <1>0, <1>4, <2>6, <2>7 DEF Summed, Iterates
<1>5. CASE ~Iterates /\ ~(queryPc = "open" /\ side = "super")
  BY <1>0, <1>5 DEF Summed, Iterates
<1> QED
  BY <1>3, <1>4, <1>5

LEMMA OpenGridSummed ==
  ASSUME QueryTypeOK, TypeInv, TypeInv', Located, Iterators, NEW C \in CoarseCells, Summed(C),
         OpenGrid, UNCHANGED vars
  PROVE  Summed(C)'
<1>0. /\ UNCHANGED <<asked, side, sum, count, grid>> /\ queryPc = "open" /\ queryPc' = "cells"
      /\ cellsLeft' = grid[SourceOn(side)]
  BY DEF OpenGrid, vars, countVars
<1>1. sum["source"]["received"][C] \in Nat /\ sum["super"]["received"][C] \in Nat
  BY DEF QueryTypeOK, Sides, Kinds
<1>2. /\ Asked(C)' = Asked(C) /\ Asked(C) \in SUBSET Pairs
      /\ Unread(C)' \in SUBSET Pairs /\ ReadSoFar(C)' \in SUBSET Pairs
  BY <1>0 DEF Asked, Unread, ReadSoFar
<1>3. CASE side = "source"
  <2>1. sum["source"]["received"][C] = 0
    BY <1>0, <1>3 DEF Iterators, NothingRead, Sides, Kinds
  <2>2. PICK a \in AllSources : a = asked.source /\ a = asked'.source
    BY <1>0 DEF QueryTypeOK
  <2> DEFINE f == Received(a)'
             A == ReadSoFar(C)'
  <2>3. f \in [Pairs -> Nat] /\ A \in SUBSET Pairs
    BY <1>2, ReceivedTypeNext
  <2>4. SumFunctionOnSet(f, A) \in Nat
    <3> HIDE DEF f, A
    <3>1. \A p \in A : f[p] # 0 => p \in A /\ f[p] <= f[p]
      BY <2>3
    <3> QED
      BY <2>3, <3>1, SumOfPairs
  <2>5. ReceivedIn(asked.source, ReadSoFar(C))' = SumFunctionOnSet(f, A)
    BY <2>2 DEF ReceivedIn, Received
  <2>6. sum'["source"]["received"][C] <= SumFunctionOnSet(f, A)
    BY <1>0, <2>1, <2>4
  <2> QED
    BY <1>0, <1>3, <2>5, <2>6 DEF Summed
<1>4. CASE side = "super"
  <2> DEFINE f == Received(Super)
             A == Asked(C)
             B == Unread(C)'
             x == SumFunctionOnSet(f, A)
             y == SumFunctionOnSet(f, B)
             read == sum["source"]["received"][C]
             got == sum["super"]["received"][C]
  <2>1. f \in [Pairs -> Nat] /\ A \in SUBSET Pairs /\ B \in SUBSET Pairs
    BY <1>2, ReceivedType DEF AllSources
  <2>2. ASSUME NEW p \in A, f[p] # 0 PROVE p \in B /\ f[p] <= f[p]
    <3>1. p \in Pairs /\ p[1] \in Cells /\ p[2] \in Hours
      BY <1>2, <2>2 DEF Pairs
    <3>2. f[p] = count["received"][Super][p[1]][p[2]] /\ f[p] \in Nat
      BY <2>1, <3>1 DEF Received
    <3>3. p[1] \in grid[Super]
      BY <2>2, <3>1, <3>2 DEF Located, AllSources
    <3>4. p[1] \in cellsLeft'
      BY <1>0, <1>4, <3>3 DEF SourceOn
    <3> QED
      BY <1>2, <3>2, <3>4 DEF Unread
  <2>3. x <= y /\ x \in Nat /\ y \in Nat
    <3> HIDE DEF f, A, B
    <3> QED
      BY <2>1, <2>2, SumOfPairs
  <2>4. read <= x
    BY <1>0, <1>4 DEF Summed, ReceivedIn
  <2>5. read <= got + y
    <3> HIDE DEF x, y, read, got
    <3>1. read \in Nat /\ got \in Nat
      BY <1>1 DEF read, got
    <3> QED
      BY <2>3, <2>4, <3>1
  <2>6. ReceivedIn(Super, Unread(C))' = y
    BY <1>0 DEF ReceivedIn, Received
  <2> QED
    BY <1>0, <1>4, <2>5, <2>6 DEF Summed
<1> QED
  BY <1>3, <1>4 DEF QueryTypeOK, Sides

LEMMA NextCellSummed ==
  ASSUME QueryTypeOK, TypeInv, TypeInv', NEW C \in CoarseCells, Summed(C),
         NEW c \in Cells, NextCell(c), UNCHANGED vars
  PROVE  Summed(C)'
<1>0. /\ UNCHANGED <<asked, side, sum>> /\ queryPc = "cells" /\ queryPc' = "spans"
      /\ c \in cellsLeft /\ cellsLeft' = cellsLeft \ {c} /\ cell' = c /\ reading' = "missing"
  BY DEF NextCell, OpenSpans
<1>1. Unread(C)' = Unread(C)
  BY <1>0 DEF Unread, InHand, Asked
<1> QED
  BY <1>0, <1>1, SummedKept, CountsKept DEF Iterates

LEMMA NextKindSummed ==
  ASSUME QueryTypeOK, TypeInv, TypeInv', Located, NEW C \in CoarseCells, Summed(C),
         NextKind, UNCHANGED vars
  PROVE  Summed(C)'
<1>0. /\ UNCHANGED <<asked, side, sum, cellsLeft>> /\ queryPc = "spans" /\ hoursLeft = {}
      /\ queryPc' \in {"spans", "cells"} /\ reading \in {"missing", "received", "vsi"}
  BY DEF NextKind, OpenSpans, QueryTypeOK, Kinds
<1>1. Asked(C)' = Asked(C)
  BY <1>0 DEF Asked
<1>2. CASE reading = "missing"
  <2>1. /\ queryPc' = "spans" /\ reading' = "received" /\ UNCHANGED cell
        /\ hoursLeft' = spans[SourceOn(side)][cell]
    BY <1>2 DEF NextKind, OpenSpans, After
  <2>2. ASSUME NEW p \in Asked(C), count["received"][SourceOn(side)][p[1]][p[2]] # 0
        PROVE  InHand(p) <=> InHand(p)'
    <3>1. p[1] \in Cells /\ p[2] \in Hours /\ SourceOn(side) \in AllSources
      BY SourceOnType DEF Asked, Pairs
    <3>2. count["received"][SourceOn(side)][p[1]][p[2]] \in Nat
      BY <3>1, CountTypes
    <3>3. p[2] \in spans[SourceOn(side)][p[1]]
      BY <2>2, <3>1, <3>2 DEF Located
    <3> QED
      BY <1>0, <1>2, <2>1, <3>3 DEF InHand
  <2>3. ASSUME NEW p \in Asked(C), count["received"][SourceOn(side)][p[1]][p[2]] # 0
        PROVE  p \in Unread(C) <=> p \in Unread(C)'
    BY <1>0, <1>1, <2>2, <2>3 DEF Unread
  <2> QED
    BY <1>0, <2>1, <2>3, SummedKept, CountsKept DEF Iterates
<1>3. CASE reading # "missing"
  <2>1. \A p \in Asked(C) : ~InHand(p)
    BY <1>0, <1>3 DEF InHand
  <2>2. \A p \in Asked(C) : ~InHand(p)'
    <3>1. CASE reading = "vsi"
      BY <3>1 DEF NextKind, InHand
    <3>2. CASE reading = "received"
      BY <3>2 DEF NextKind, OpenSpans, After, InHand
    <3> QED
      BY <1>0, <1>3, <3>1, <3>2
  <2>3. Unread(C)' = Unread(C)
    BY <1>0, <1>1, <2>1, <2>2 DEF Unread
  <2> QED
    BY <1>0, <2>3, SummedKept, CountsKept DEF Iterates
<1> QED
  BY <1>2, <1>3

(* One span more is read: its signals go from one side to the other.        *)
LEMMA SpanSummed ==
  ASSUME QueryTypeOK, TypeInv, TypeInv', Iterators, NEW C \in CoarseCells, Summed(C),
         NEW h \in Hours, ReadSpan(h), UNCHANGED vars,
         reading = "received", C = CoarseOf(cell), h \in asked.hours
  PROVE  Summed(C)'
<1>0. /\ UNCHANGED <<queryPc, asked, side, cell, reading, cellsLeft, count>> /\ queryPc = "spans"
      /\ h \in hoursLeft /\ hoursLeft' = hoursLeft \ {h}
      /\ sum' = [sum EXCEPT ![side]["received"][C] = @ + count["received"][SourceOn(side)][cell][h]]
  BY DEF ReadSpan, vars, countVars
<1>1. PICK a \in AllSources : a = SourceOn(side)
  BY SourceOnType
<1>2. cell \in Cells /\ cell \notin cellsLeft
  BY <1>0 DEF QueryTypeOK, Iterators
<1> DEFINE f == Received(a)
           p == <<cell, h>>
           rd == ReadSoFar(C)
           rd2 == ReadSoFar(C)'
           un == Unread(C)
           un2 == Unread(C)'
<1>3. p \in Pairs /\ p[1] = cell /\ p[2] = h
  BY <1>2 DEF Pairs
<1>4. p \in Asked(C) /\ Asked(C)' = Asked(C) /\ Asked(C) \subseteq Pairs
  BY <1>0, <1>3 DEF Asked
<1>5. p \in un
  BY <1>0, <1>3, <1>4 DEF Unread, InHand
<1>6. un2 = un \ {p}
  <2>1. ASSUME NEW q \in Asked(C) PROVE InHand(q)' <=> (InHand(q) /\ q # p)
    <3>1. q \in Pairs /\ (q = p <=> (q[1] = cell /\ q[2] = h))
      <4>1. q \in Pairs
        BY <1>4
      <4> QED
        BY <4>1 DEF Pairs
    <3> QED
      BY <1>0, <3>1 DEF InHand
  <2>2. p[1] \notin cellsLeft
    BY <1>2, <1>3
  <2> QED
    BY <1>0, <1>4, <2>1, <2>2 DEF Unread
<1>7. rd2 = rd \cup {p} /\ p \notin rd
  BY <1>4, <1>5, <1>6 DEF ReadSoFar, Unread
<1>8. f \in [Pairs -> Nat] /\ f[p] = count["received"][a][cell][h]
  BY <1>3, ReceivedType DEF Received
<1>9. Received(a)' = f
  BY <1>0 DEF Received
<1> DEFINE x == SumFunctionOnSet(f, rd)
           x2 == SumFunctionOnSet(f, rd2)
           y == SumFunctionOnSet(f, un)
           y2 == SumFunctionOnSet(f, un2)
           read == sum["source"]["received"][C]
           got == sum["super"]["received"][C]
           n == f[p]
<1>10. /\ x2 = n + x /\ y = n + y2
       /\ x \in Int /\ y2 \in Int /\ n \in Int
  <2>1. IsFiniteSet(Pairs) /\ rd \subseteq Pairs /\ un \subseteq Pairs
    BY CellsAndHours, FS_Product, <1>4 DEF Pairs, ReadSoFar, Unread
  <2> HIDE DEF f, p, rd, rd2, un, un2
  <2>2. IsFiniteSet(rd) /\ IsFiniteSet(un) /\ un2 \subseteq un
    BY <1>6, <2>1, FS_Subset
  <2>3. /\ \A q \in rd \cup {p} : f[q] \in Int
        /\ \A q \in un : f[q] \in Int
        /\ \A q \in rd : f[q] \in Int
        /\ \A q \in un2 : f[q] \in Int
    BY <1>3, <1>8, <2>1, <2>2
  <2>4. SumFunctionOnSet(f, rd \cup {p}) = f[p] + SumFunctionOnSet(f, rd)
    BY <1>7, <2>2, <2>3, SumAdd
  <2>5. SumFunctionOnSet(f, un) = f[p] + SumFunctionOnSet(f, un \ {p})
    BY <1>5, <2>2, <2>3, SumRemove
  <2>6. x \in Int
    BY <2>2, <2>3, SumType
  <2>7. y2 \in Int
    <3>1. IsFiniteSet(un2)
      BY <2>2, FS_Subset
    <3> QED
      BY <2>3, <3>1, SumType
  <2> QED
    BY <1>3, <1>6, <1>7, <1>8, <2>4, <2>5, <2>6, <2>7
<1>11. read \in Int /\ got \in Int
  BY DEF QueryTypeOK, Sides, Kinds
<1>12. sum \in [Sides -> [Kinds -> [CoarseCells -> Nat]]] /\ "received" \in Kinds
       /\ "source" \in Sides /\ "super" \in Sides
  BY DEF QueryTypeOK, Sides, Kinds
<1>13. CASE side = "source"
  <2>1. a = asked.source /\ a = asked'.source
    BY <1>0, <1>1, <1>13 DEF SourceOn
  <2>2. read <= x
    BY <1>0, <1>13, <2>1 DEF Summed, ReceivedIn, Iterates
  <2>3. sum'["source"]["received"][C] = read + n
    BY <1>0, <1>1, <1>8, <1>12, <1>13
  <2>4. ReceivedIn(asked.source, ReadSoFar(C))' = x2
    BY <1>9, <2>1 DEF ReceivedIn, Received
  <2>5. read + n <= x2
    <3> HIDE DEF x, x2, read, n
    <3> QED
      BY <1>10, <1>11, <2>2
  <2> QED
    BY <1>0, <1>13, <2>3, <2>4, <2>5 DEF Summed
<1>14. CASE side = "super"
  <2>1. a = Super
    BY <1>1, <1>14 DEF SourceOn
  <2>2. read <= got + y
    BY <1>0, <1>14, <2>1 DEF Summed, ReceivedIn, Iterates
  <2>3. sum'["super"]["received"][C] = got + n /\ sum'["source"]["received"][C] = read
    BY <1>0, <1>1, <1>8, <1>12, <1>14
  <2>4. ReceivedIn(Super, Unread(C))' = y2
    BY <1>9, <2>1 DEF ReceivedIn
  <2>5. read <= (got + n) + y2
    <3> HIDE DEF y, y2, read, got, n
    <3> QED
      BY <1>10, <1>11, <2>2
  <2> QED
    BY <1>0, <1>14, <2>3, <2>4, <2>5 DEF Summed
<1> QED
  BY <1>13, <1>14 DEF QueryTypeOK, Sides

LEMMA ReadSpanSummed ==
  ASSUME QueryTypeOK, TypeInv, TypeInv', Iterators, NEW C \in CoarseCells, Summed(C),
         NEW h \in Hours, ReadSpan(h), UNCHANGED vars
  PROVE  Summed(C)'
<1>0. /\ UNCHANGED <<queryPc, asked, side, cell, reading, cellsLeft>> /\ queryPc = "spans"
      /\ h \in hoursLeft /\ hoursLeft' = hoursLeft \ {h}
      /\ sum' = IF h \in asked.hours
                THEN [sum EXCEPT ![side][reading][CoarseOf(cell)]
                        = @ + count[reading][SourceOn(side)][cell][h]]
                ELSE sum
  BY DEF ReadSpan
<1>1. sum \in [Sides -> [Kinds -> [CoarseCells -> Nat]]] /\ "received" \in Kinds
      /\ "source" \in Sides /\ "super" \in Sides /\ side \in Sides /\ reading \in Kinds
  BY DEF QueryTypeOK, Sides, Kinds
<1>2. CASE ~(reading = "received" /\ C = CoarseOf(cell) /\ h \in asked.hours)
  <2>1. /\ sum'["source"]["received"][C] = sum["source"]["received"][C]
        /\ sum'["super"]["received"][C] = sum["super"]["received"][C]
    <3>1. CASE h \notin asked.hours
      BY <1>0, <3>1
    <3>2. CASE h \in asked.hours /\ reading # "received"
      BY <1>0, <1>1, <3>2
    <3>3. CASE h \in asked.hours /\ C # CoarseOf(cell)
      BY <1>0, <1>1, <3>3
    <3> QED
      BY <1>2, <3>1, <3>2, <3>3
  <2>2. ASSUME NEW p \in Asked(C) PROVE InHand(p)' <=> InHand(p)
    <3>1. p \in Pairs /\ CoarseOf(p[1]) = C /\ p[2] \in asked.hours
      BY <2>2 DEF Asked
    <3> QED
      BY <1>0, <1>2, <3>1 DEF InHand
  <2>3. Unread(C)' = Unread(C)
    <3>1. Asked(C)' = Asked(C)
      BY <1>0 DEF Asked
    <3> QED
      BY <1>0, <2>2, <3>1 DEF Unread
  <2> QED
    BY <1>0, <2>1, <2>3, SummedKept, CountsKept DEF Iterates
<1>3. CASE reading = "received" /\ C = CoarseOf(cell) /\ h \in asked.hours
  BY <1>3, SpanSummed
<1> QED
  BY <1>2, <1>3

LEMMA FinishGridSummed ==
  ASSUME QueryTypeOK, TypeInv, TypeInv', SourceWithinSuper, Iterators,
         NEW C \in CoarseCells, Summed(C), FinishGrid, UNCHANGED vars
  PROVE  Summed(C)'
<1>0. /\ UNCHANGED <<asked, sum, count>> /\ queryPc = "cells" /\ cellsLeft = {}
  BY DEF FinishGrid, vars, countVars
<1>1. Unread(C) = {} /\ ReadSoFar(C) = Asked(C)
  BY <1>0 DEF Unread, InHand, ReadSoFar
<1>2. Asked(C)' = Asked(C) /\ Asked(C) \in SUBSET Pairs
  BY <1>0 DEF Asked
<1>3. sum["source"]["received"][C] \in Nat /\ sum["super"]["received"][C] \in Nat
  BY DEF QueryTypeOK, Sides, Kinds
<1>4. CASE side = "source"
  <2>1. queryPc' = "open" /\ side' = "super"
    BY <1>4 DEF FinishGrid, FirstSide, Sides
  <2>2. PICK a \in Sources : a = asked.source
    BY <1>0 DEF Iterators, Iterates
  <2> DEFINE f == Received(a)
             g == Received(Super)
             A == Asked(C)
             x == SumFunctionOnSet(f, A)
             y == SumFunctionOnSet(g, A)
             read == sum["source"]["received"][C]
  <2>3. f \in [Pairs -> Nat] /\ g \in [Pairs -> Nat] /\ A \in SUBSET Pairs
    BY <1>2, ReceivedType DEF AllSources
  <2>4. \A p \in Pairs : f[p] <= g[p]
    <3>1. \A p \in Pairs : p[1] \in Cells /\ p[2] \in Hours
      BY DEF Pairs
    <3> QED
      BY <3>1 DEF Received, SourceWithinSuper, Kinds
  <2>5. x <= y /\ x \in Nat /\ y \in Nat
    <3> HIDE DEF f, g, A
    <3> QED
      BY <2>3, <2>4, SumOfPairs
  <2>6. read <= x
    BY <1>0, <1>1, <1>4, <2>2 DEF Summed, ReceivedIn, Iterates
  <2>7. read <= y
    <3> HIDE DEF x, y, read
    <3>1. read \in Nat
      BY <1>3 DEF read
    <3> QED
      BY <2>5, <2>6, <3>1
  <2>8. ReceivedIn(Super, Asked(C))' = y
    BY <1>0, <1>2 DEF ReceivedIn, Received
  <2> QED
    BY <1>0, <2>1, <2>7, <2>8 DEF Summed, Iterates
<1>5. CASE side = "super"
  <2>1. queryPc' = "answered" /\ side' = "super"
    BY <1>5 DEF FinishGrid, FirstSide
  <2>2. ReceivedIn(Super, Unread(C)) = 0
    BY <1>1, SumEmpty DEF ReceivedIn
  <2>3. sum["source"]["received"][C] <= sum["super"]["received"][C]
    BY <1>0, <1>3, <1>5, <2>2 DEF Summed, Iterates
  <2> QED
    BY <1>0, <2>1, <2>3 DEF Summed, Iterates
<1> QED
  BY <1>4, <1>5 DEF QueryTypeOK, Sides

LEMMA SummedStep ==
  ASSUME QueryTypeOK, TypeInv, TypeInv', SourceWithinSuper, Located, Iterators,
         NEW C \in CoarseCells, Summed(C), [QueryNext]_allVars
  PROVE  Summed(C)'
<1>1. ASSUME NEW s \in Sources, NEW from \in Hours, NEW to \in Hours, StartQuery(s, from, to)
      PROVE  Summed(C)'
  BY <1>1 DEF StartQuery, Summed, Iterates, FirstSide
<1>2. CASE OpenGrid /\ UNCHANGED vars
  BY <1>2, OpenGridSummed
<1>3. ASSUME NEW c \in Cells, NextCell(c), UNCHANGED vars PROVE Summed(C)'
  BY <1>3, NextCellSummed
<1>4. ASSUME NEW h \in Hours, ReadSpan(h), UNCHANGED vars PROVE Summed(C)'
  BY <1>4, ReadSpanSummed
<1>5. CASE (ReadFails \/ Answer) /\ UNCHANGED vars
  BY <1>5 DEF ReadFails, Answer, Summed, Iterates
<1>6. CASE NextKind /\ UNCHANGED vars
  BY <1>6, NextKindSummed
<1>7. CASE FinishGrid /\ UNCHANGED vars
  BY <1>7, FinishGridSummed
<1>8. CASE Calculate
  BY <1>8, CalculateSummed
<1>9. CASE UNCHANGED allVars
  <2>1. UNCHANGED <<queryPc, asked, side, cellsLeft, cell, reading, hoursLeft, sum>> /\ UNCHANGED vars
    BY <1>9 DEF allVars, queryVars
  <2>2. CASE Iterates
    <3>1. Unread(C)' = Unread(C)
      BY <2>1 DEF Unread, Asked, InHand
    <3> QED
      BY <2>1, <2>2, <3>1, SummedKept, CountsKept DEF Iterates
  <2>3. CASE ~Iterates
    <3>1. ReceivedIn(Super, Asked(C))' = ReceivedIn(Super, Asked(C))
      BY <2>1 DEF ReceivedIn, Received, Asked, vars, countVars
    <3> QED
      BY <2>1, <2>3, <3>1 DEF Summed, Iterates
  <2> QED
    BY <2>2, <2>3
<1> QED
  BY <1>1, <1>2, <1>3, <1>4, <1>5, <1>6, <1>7, <1>8, <1>9 DEF QueryNext, Query

-----------------------------------------------------------------------------
(***************************************************************************)
(* A request of CoverageRestService is answered without a lock while the    *)
(* calculator counts: it never says that a source received more than the    *)
(* super source, and every cell it makes for the source is made for the     *)
(* super source.                                                            *)
(***************************************************************************)
QueryInv ==
  /\ SuperInv /\ Located
  /\ QueryTypeOK /\ Iterators /\ CellsMade
  /\ \A C \in CoarseCells : Summed(C)

LEMMA QueryInvInit == Init /\ QueryInit => QueryInv
<1> SUFFICES ASSUME Init, QueryInit PROVE QueryInv
  OBVIOUS
<1>1. SuperInv
  BY InitSuper
<1>2. Iterators /\ CellsMade /\ \A C \in CoarseCells : Summed(C)
  BY DEF QueryInit, Iterators, CellsMade, Summed, Iterates
<1> QED
  BY <1>1, <1>2, LocatedInit, QueryTypeInit DEF QueryInv

LEMMA QueryInvStep == QueryInv /\ [QueryNext]_allVars => QueryInv'
<1> SUFFICES ASSUME QueryInv, [QueryNext]_allVars PROVE QueryInv'
  OBVIOUS
<1>1. [Next]_vars
  BY DEF QueryNext, Calculate, allVars
<1>2. /\ TypeInv /\ SourceWithinSuper /\ Located /\ QueryTypeOK /\ Iterators /\ CellsMade
      /\ \A C \in CoarseCells : Summed(C)
  BY DEF QueryInv, SuperInv
<1>3. SuperInv' /\ TypeInv'
  BY <1>1, NextSuper DEF QueryInv, SuperInv
<1>4. Located'
  BY <1>1, <1>2, LocatedStep
<1>5. QueryTypeOK'
  BY <1>2, <1>3, QueryType
<1>6. Iterators'
  BY <1>2, <1>3, IteratorsStep
<1>7. CellsMade'
  BY <1>2, <1>3, CellsMadeStep
<1>8. \A C \in CoarseCells : Summed(C)'
  BY <1>2, <1>3, SummedStep
<1> QED
  BY <1>3, <1>4, <1>5, <1>6, <1>7, <1>8 DEF QueryInv

LEMMA QueryInvAnswers == QueryInv => AnswerIsConsistent
<1> SUFFICES ASSUME QueryInv, queryPc = "answered", NEW C \in tempCells["source"]
             PROVE  C \in tempCells["super"] /\ NrOfMisMes(C) >= 0
  BY DEF AnswerIsConsistent
<1>1. C \in tempCells["super"] /\ C \in CoarseCells
  BY DEF QueryInv, CellsMade, QueryTypeOK, Sides
<1>2. sum["source"]["received"][C] <= sum["super"]["received"][C]
  BY <1>1 DEF QueryInv, Summed
<1> DEFINE read == sum["source"]["received"][C]
           got == sum["super"]["received"][C]
           missed == sum["super"]["missing"][C]
<1>3. read \in Nat /\ got \in Nat /\ missed \in Nat
  BY <1>1 DEF QueryInv, QueryTypeOK, Sides, Kinds
<1>4. got + missed - read >= 0
  <2>1. read <= got
    BY <1>2
  <2> HIDE DEF read, got, missed
  <2> QED
    BY <1>3, <2>1
<1> QED
  BY <1>1, <1>4 DEF NrOfMisMes, NrOfRecMes

(* The request's state is well typed.                                       *)
THEOREM RequestTypeCorrect == QuerySpec => []QueryTypeOK
<1>1. QueryInv => QueryTypeOK
  BY DEF QueryInv
<1> QED
  BY <1>1, QueryInvInit, QueryInvStep, PTL DEF QuerySpec

(* No answer is inconsistent, whatever the calculator counts meanwhile.     *)
THEOREM AnswersAreConsistent == QuerySpec => []AnswerIsConsistent
  BY QueryInvInit, QueryInvStep, QueryInvAnswers, PTL DEF QuerySpec
=============================================================================
