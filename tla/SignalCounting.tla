--------------------------- MODULE SignalCounting ---------------------------
(***************************************************************************)
(* TerrestrialCalculator: the messages of a ship wait in its buffer until   *)
(* the buffer spans bufferInSeconds.  Then every message but the last is    *)
(* counted as received by the super source and by each source that heard    *)
(* it, and the messages the ship should have sent before its next one are   *)
(* counted as missing.                                                      *)
(*                                                                          *)
(* PacketPipeline shows that one thread runs the calculators at a time; the *)
(* counters are yet read by others while it does, so each increment is a    *)
(* step of its own.  Time is in the unit of the constants; a position is    *)
(* the number of a cell on a line.  Rotation only selects the period of     *)
(* class A ships, and OnlyMemoryData gives no ship a class.  No message is   *)
(* filtered: filterMessage is overridden to answer false.  The purging of   *)
(* time spans and Helper's dates are the subject of WindowPurger.           *)
(* An operator named Mutant... is the definition after it with a plausible  *)
(* mistake; no behaviour uses it.                                           *)
(***************************************************************************)
EXTENDS Integers, Sequences, FiniteSetsExt, Functions

CONSTANTS Ships, Sources,
          Super,           \* SUPERSOURCE_MMSI
          LastCell,        \* bound of the model: cells 0 .. LastCell
          LastTime,        \* bound of the model: message timestamps
          HourLength,
          BufferInSeconds, \* a ship's buffer is processed when it spans this
          SlowPeriod,      \* expected time between the messages of a slow ship
          FastPeriod,      \* ... and of a faster one
          MaxMessages,     \* bound of the model: messages handled
          Lateness         \* how far a message may be behind the newest one

Cells == 0 .. LastCell
HourOf(t) == t \div HourLength
\* with messages out of order a missing signal can be dated past LastTime
Hours == 0 .. HourOf(2 * LastTime)
AllSources == Sources \cup {Super}
Kinds == {"received", "missing", "vsi"}

NoShip == "none"

ASSUME CountingAssumption ==
  /\ IsFiniteSet(Ships) /\ NoShip \notin Ships
  /\ Super \notin Sources
  /\ LastCell \in Nat /\ LastTime \in Nat /\ MaxMessages \in Nat /\ Lateness \in Nat
  /\ HourLength \in Nat \ {0} /\ BufferInSeconds \in Nat \ {0}
  /\ SlowPeriod \in Nat \ {0} /\ FastPeriod \in Nat \ {0}

VARIABLES
  buffer,     \* Ship.messageBuffer, per ship
  grid,       \* cells in Source.grid, per source
  spans,      \* hours with a fixed-width time span, per source and cell
  count,      \* the counters of those spans, per kind of signal
  total,      \* the counters of the cell itself
  \* the calculator
  calcPc,
  ship,       \* the ship whose buffer is processed
  pair, point, \* the loop counters: pair of messages, point between the two
  signal,     \* what is counted: the kind of signal, its cell and its hour
  sources,    \* sources it has yet to be counted for
  located,    \* the source whose cell and time span have been found, if any
  \* history
  messages,   \* messages handled
  seen,       \* ... other than VSI ones, per ship
  again,      \* ... that were counted and left in the buffer by a failure, per ship
  newest      \* newest timestamp so far

countVars == <<grid, spans, count, total>>
calcVars == <<calcPc, ship, pair, point, signal, sources, located>>
historyVars == <<messages, seen, again, newest>>
vars == <<buffer, countVars, calcVars, historyVars>>

Messages ==
  [ship : Ships, sources : SUBSET Sources \ {{}}, time : 0 .. LastTime, cell : Cells, slow : BOOLEAN]
Signals == [kind : Kinds, cell : Cells, hour : Hours]
Signal(kind, c, t) == [kind |-> kind, cell |-> c, hour |-> HourOf(t)]

Init ==
  /\ buffer = [k \in Ships |-> <<>>]
  /\ grid = [s \in AllSources |-> {}]
  /\ spans = [s \in AllSources |-> [c \in Cells |-> {}]]
  /\ count = [n \in Kinds |-> [s \in AllSources |-> [c \in Cells |-> [h \in Hours |-> 0]]]]
  /\ total = [n \in Kinds |-> [s \in AllSources |-> [c \in Cells |-> 0]]]
  /\ calcPc = "idle" /\ ship = NoShip /\ pair = 1 /\ point = 0
  /\ signal = Signal("vsi", 0, 0) /\ sources = {} /\ located = {}
  /\ messages = 0
  /\ seen = [k \in Ships |-> 0]
  /\ again = [k \in Ships |-> 0]
  /\ newest = 0

-----------------------------------------------------------------------------
(* Two messages of a ship.                                                  *)

Gap(m1, m2) == IF m2.time >= m1.time THEN m2.time - m1.time ELSE m1.time - m2.time

(* getExpectedTransmittingFrequency of a ship without a class               *)
Period(m) == IF m.slow THEN SlowPeriod ELSE FastPeriod

(* round(gap / period) - 1, halves rounded up                               *)
MutantMissingBetween(gap, period) == (2 * gap + period) \div (2 * period)
MissingBetween(gap, period) ==
  IF gap > period THEN (2 * gap + period) \div (2 * period) - 1 ELSE 0

(* getX, getY: a ship moves at constant speed                               *)
Interpolate(m1, m2, elapsed) ==
  m1.cell + (elapsed * (m2.cell - m1.cell)) \div Gap(m1, m2)

MissingSignal(m1, m2, i) ==
  Signal("missing", Interpolate(m1, m2, i * Period(m2)), m1.time + i * Period(m2))

-----------------------------------------------------------------------------
(* The calculator.                                                          *)

(* A message m arrives.                                                     *)
Arrive(m) ==
  /\ calcPc = "idle"
  /\ messages < MaxMessages
  /\ m.time >= newest - Lateness
  /\ messages' = messages + 1
  /\ newest' = IF m.time > newest THEN m.time ELSE newest
  /\ UNCHANGED again

(* a VSI message is counted at once *)
CalculateVsi(m) ==
  /\ Arrive(m)
  /\ ship' = NoShip
  /\ signal' = Signal("vsi", m.cell, m.time)
  /\ sources' = m.sources
  /\ calcPc' = "super"
  /\ UNCHANGED <<buffer, countVars, pair, point, located, seen>>

BufferIsDue(buf) == Len(buf) > 1 /\ Gap(buf[1], buf[Len(buf)]) >= BufferInSeconds

(* a position message is buffered, and the buffer processed if it is time to *)
CalculatePosition(m) ==
  LET buf == Append(buffer[m.ship], m) IN
  /\ Arrive(m)
  /\ buffer' = [buffer EXCEPT ![m.ship] = buf]
  /\ seen' = [seen EXCEPT ![m.ship] = @ + 1]
  /\ IF BufferIsDue(buf)
     THEN /\ ship' = m.ship
          /\ pair' = 1
          /\ point' = 0
          /\ signal' = Signal("received", buf[1].cell, buf[1].time)
          /\ sources' = buf[1].sources
          /\ calcPc' = "super"
     ELSE UNCHANGED <<calcPc, ship, pair, point, signal, sources>>
  /\ UNCHANGED <<countVars, located>>

(* A signal is counted for the super source first, and then for the sources *)
(* that heard the message, in any order: they are a hash set.               *)
MutantToCount == IF calcPc = "super" THEN sources ELSE {Super}
ToCount == IF calcPc = "super" THEN {Super} ELSE sources

(* getCellFromCoordinates and getTimeSpanFromTimestamp                      *)
Locate(s) ==
  /\ calcPc \in {"super", "sources"}
  /\ located = {}
  /\ s \in ToCount
  /\ located' = {s}
  /\ grid' = [grid EXCEPT ![s] = @ \cup {signal.cell}]
  /\ spans' = [spans EXCEPT ![s][signal.cell] = @ \cup {signal.hour}]
  /\ UNCHANGED <<buffer, count, total, calcPc, ship, pair, point, signal, sources, historyVars>>

(* increment the counter of the time span, then the one of the cell, which  *)
(* no query reads                                                           *)
Count(s) ==
  /\ located = {s}
  /\ count' = [count EXCEPT ![signal.kind][s][signal.cell][signal.hour] = @ + 1]
  /\ total' = [total EXCEPT ![signal.kind][s][signal.cell] = @ + 1]
  /\ located' = {}
  /\ calcPc' = "sources"
  /\ sources' = sources \ {s}
  /\ UNCHANGED <<buffer, grid, spans, ship, pair, point, signal, historyVars>>

(* A worker that had found the message in the doublet buffer before it was  *)
(* evicted adds its source to the list meanwhile: the iterator over the     *)
(* list throws, and calculate is left.  The buffer is not emptied: what has *)
(* been counted of it will be counted again.                                *)
CalculateFails ==
  /\ calcPc = "sources" /\ located = {} /\ sources # {}
  /\ again' = IF ship = NoShip THEN again ELSE [again EXCEPT ![ship] = @ + pair]
  /\ sources' = {}
  /\ ship' = NoShip
  /\ calcPc' = "idle"
  /\ UNCHANGED <<buffer, countVars, pair, point, signal, located, messages, seen, newest>>

Counted == calcPc = "sources" /\ located = {} /\ sources = {}

FinishVsi ==
  /\ Counted
  /\ ship = NoShip
  /\ calcPc' = "idle"
  /\ UNCHANGED <<buffer, countVars, ship, pair, point, signal, sources, located, historyVars>>

Missing(buf, j) == MissingBetween(Gap(buf[j], buf[j + 1]), Period(buf[j + 1]))

(* calculateMissingPoints goes on with the next missing point of the pair,  *)
(* or returns and the next pair of messages has its turn                    *)
NextPoint ==
  LET buf == buffer[ship] IN
  /\ Counted
  /\ ship # NoShip
  /\ point < Missing(buf, pair)
  /\ point' = point + 1
  /\ signal' = MissingSignal(buf[pair], buf[pair + 1], point + 1)
  /\ sources' = buf[pair].sources
  /\ calcPc' = "super"
  /\ UNCHANGED <<buffer, countVars, ship, pair, located, historyVars>>

LastPair(buf) == Len(buf) - 1

NextPair ==
  LET buf == buffer[ship] IN
  /\ Counted
  /\ ship # NoShip
  /\ point >= Missing(buf, pair)
  /\ pair < LastPair(buf)
  /\ pair' = pair + 1
  /\ point' = 0
  /\ signal' = Signal("received", buf[pair + 1].cell, buf[pair + 1].time)
  /\ sources' = buf[pair + 1].sources
  /\ calcPc' = "super"
  /\ UNCHANGED <<buffer, countVars, ship, located, historyVars>>

(* emptyBuffer keeps the last message *)
MutantEmptied(buf) == buf
Emptied(buf) == <<buf[Len(buf)]>>

EmptyBuffer ==
  LET buf == buffer[ship] IN
  /\ Counted
  /\ ship # NoShip
  /\ point >= Missing(buf, pair)
  /\ pair >= LastPair(buf)
  /\ buffer' = [buffer EXCEPT ![ship] = Emptied(buf)]
  /\ ship' = NoShip
  /\ calcPc' = "idle"
  /\ UNCHANGED <<countVars, pair, point, signal, sources, located, historyVars>>

(* the model's messages are used up *)
Quiescent == calcPc = "idle" /\ messages = MaxMessages /\ UNCHANGED vars

Next ==
  \/ \E m \in Messages : CalculateVsi(m) \/ CalculatePosition(m)
  \/ \E s \in AllSources : Locate(s) \/ Count(s)
  \/ CalculateFails \/ FinishVsi \/ NextPoint \/ NextPair \/ EmptyBuffer
  \/ Quiescent

Spec == Init /\ [][Next]_vars

-----------------------------------------------------------------------------

TypeOK ==
  /\ buffer \in [Ships -> Seq(Messages)]
  /\ grid \in [AllSources -> SUBSET Cells]
  /\ spans \in [AllSources -> [Cells -> SUBSET Hours]]
  /\ count \in [Kinds -> [AllSources -> [Cells -> [Hours -> Nat]]]]
  /\ total \in [Kinds -> [AllSources -> [Cells -> Nat]]]
  /\ calcPc \in {"idle", "super", "sources"}
  /\ ship \in Ships \cup {NoShip}
  /\ ship # NoShip => pair \in 1 .. Len(buffer[ship]) - 1
  /\ pair \in Nat /\ point \in Nat
  /\ signal \in Signals
  /\ sources \subseteq Sources
  /\ located \subseteq ToCount
  /\ messages \in 0 .. MaxMessages
  /\ seen \in [Ships -> Nat]
  /\ again \in [Ships -> Nat]
  /\ newest \in 0 .. LastTime

CountedFor(kind, s) ==
  SumFunctionOnSet([c \in Cells |-> SumFunctionOnSet(count[kind][s][c], Hours)], Cells)

(* Every position message is counted once for the super source when it      *)
(* leaves the buffer of its ship, and once more for each time a calculation *)
(* has failed after counting it: emptying a buffer neither loses a message  *)
(* nor counts the one it keeps twice, and a failure loses none.             *)
Done(k) ==
  IF k # ship THEN 0 ELSE IF calcPc = "super" /\ point = 0 THEN pair - 1 ELSE pair
CountedAsOften ==
  CountedFor("received", Super)
    = SumFunctionOnSet([k \in Ships |-> seen[k] - Len(buffer[k]) + again[k] + Done(k)], Ships)

(* No source has more signals of any kind in a cell and an hour than the    *)
(* super source, not even between the increments of one message: whoever    *)
(* compares the two sees at most full coverage.                             *)
SourceWithinSuper ==
  \A n \in Kinds, s \in Sources, c \in Cells, h \in Hours :
    count[n][s][c][h] <= count[n][Super][c][h]

(* A missing signal lies between the two messages it was missed between     *)
(* (comment of calculateMissingPoints), or as far behind the first one as   *)
(* the second is late: never in an hour that no message has reached, but    *)
(* for the lateness of messages out of order.                               *)
MissingWithinFeed ==
  \A c \in Cells, h \in Hours :
    count["missing"][Super][c][h] > 0 => h <= HourOf(newest + Lateness)
=============================================================================
