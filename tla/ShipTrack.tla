------------------------------ MODULE ShipTrack ------------------------------
(***************************************************************************)
(* The location history of one ship: Ship.registerMessage writes it for     *)
(* every satellite message, SatCalculator.getShipDynamicTimeSpans reads it  *)
(* for a request, and in between the Purger moves Helper.firstMessage, from *)
(* which the hours of the history are counted.  None of the three takes a   *)
(* lock.                                                                    *)
(*                                                                          *)
(* An hour and its minutes are scaled down by the constants.  A position is *)
(* a pair of map coordinates in units of 10 m, never so far away that it    *)
(* overflows a short.  Before it starts, the application has set            *)
(* firstMessage from the packet converted first or from the oldest span it  *)
(* has loaded, so that may be any hour; analysisStarted comes from the      *)
(* message calculated first.  The map of hours is a HashMap that is too     *)
(* small here ever to be resized under a reader.                            *)
(* An operator named Mutant... is the definition after it with a plausible  *)
(* mistake; no behaviour uses it.                                           *)
(***************************************************************************)
EXTENDS Integers, Sequences

CONSTANTS LastHour,       \* bound of the model: messages of the hours 0 .. LastHour
          Timestamps,     \* bound of the model: when messages are sent
          Requested,      \* bound of the model: hours that requests begin or end with
          Positions,      \* positions of the ship
          TicksPerMinute, \* unit of time
          HourMinutes,    \* 60
          BucketMinutes,  \* 10: a position is kept for as many minutes
          IntBits,        \* 32: a shift distance is taken modulo this
          IntSpan,        \* values of a Java int, in the unit of time
          MarginMinutes,  \* timeMargin / 1000 / 60
          MaxMessages, MaxTrims, MaxQueries \* bounds of the model

TicksPerHour == TicksPerMinute * HourMinutes
Half == HourMinutes \div 2          \* minutes in half1
Buckets == HourMinutes \div BucketMinutes
Times == 0 .. (LastHour + 1) * TicksPerHour - 1
HourStarts == {h * TicksPerHour : h \in 0 .. LastHour}
HourKeys == -(LastHour + 1) .. LastHour + 1

ASSUME TrackAssumption ==
  /\ LastHour \in Nat /\ TicksPerMinute \in Nat \ {0}
  /\ BucketMinutes \in Nat \ {0} /\ BucketMinutes % 2 = 0
  /\ HourMinutes \in Nat \ {0} /\ HourMinutes % 2 = 0 /\ HourMinutes % BucketMinutes = 0
  /\ IntBits \in Nat /\ IntBits > HourMinutes \div 2
  /\ IntSpan \in Nat \ {0} /\ MarginMinutes \in Nat
  /\ Timestamps \subseteq Times /\ Requested \subseteq HourKeys
  /\ Positions \subseteq [x : Int, y : Int]
  /\ MaxMessages \in Nat /\ MaxTrims \in Nat /\ MaxQueries \in Nat

NoTime == -1
Nowhere == [x |-> 0, y |-> 0]   \* a distance that was never set

VARIABLES
  firstMessage, analysisStarted, \* Helper's dates
  hours,      \* Ship.hours
  \* the calculator in registerMessage
  regPc, time, position,
  minutesSince, minutesOffset, hoursSince,
  \* a request in getShipDynamicTimeSpans
  queryPc, startHour, endHour, nextHour, \* nextMinute = HourMinutes: the hour nextHour has not begun
  nextMinute, result, previousMinute,
  \* history
  messages, trims, queries,
  heard,      \* messages that have been registered
  before,     \* ... when the request began
  torn        \* firstMessage moved between its two reads for a message

helperVars == <<firstMessage, analysisStarted>>
regVars == <<regPc, time, position, minutesSince, minutesOffset, hoursSince>>
queryVars == <<queryPc, startHour, endHour, nextHour, nextMinute, result, previousMinute, before>>
vars == <<helperVars, hours, regVars, queryVars, messages, trims, queries, heard, torn>>

Init ==
  /\ firstMessage \in HourStarts /\ analysisStarted = NoTime
  /\ hours = <<>>
  /\ regPc = "idle" /\ time = 0 /\ position = Nowhere
  /\ minutesSince = 0 /\ minutesOffset = 0 /\ hoursSince = 0
  /\ queryPc = "idle" /\ startHour = 0 /\ endHour = 0 /\ nextHour = 0 /\ nextMinute = HourMinutes
  /\ result = <<>> /\ previousMinute = -1 /\ before = {}
  /\ messages = 0 /\ trims = 0 /\ queries = 0
  /\ heard = {} /\ torn = FALSE

-----------------------------------------------------------------------------
(* The calculator.                                                          *)

MutantFloorDate(t) == t - (t % TicksPerMinute)
FloorDate(t) == t - (t % TicksPerHour)
MinuteOf(t) == (t % TicksPerHour) \div TicksPerMinute

(* integer division as Java has it, towards zero *)
Quotient(a, b) == IF a >= 0 THEN a \div b ELSE -((-a) \div b)

MinutesSinceFirst == Quotient(time - firstMessage, TicksPerMinute)

(* calculate, up to registerMessage's first read of firstMessage *)
Calculate(t, p) ==
  /\ regPc = "idle"
  /\ messages < MaxMessages
  /\ messages' = messages + 1
  /\ analysisStarted' = IF analysisStarted = NoTime THEN FloorDate(t) ELSE analysisStarted
  /\ time' = t /\ position' = p
  /\ minutesSince' = Quotient(t - firstMessage, TicksPerMinute)
  /\ regPc' = "register"
  /\ UNCHANGED <<firstMessage, hours, minutesOffset, hoursSince, queryVars, trims, queries, heard, torn>>

NewHour ==
  [half1 |-> {}, half2 |-> {}, offset |-> Nowhere, positions |-> [b \in 0 .. Buckets - 1 |-> Nowhere]]
HourAt(k) == IF k \in DOMAIN hours THEN hours[k] ELSE NewHour
WithHour(k, h) == [i \in DOMAIN hours \cup {k} |-> IF i = k THEN h ELSE hours[i]]

(* two ints with a bit for each minute *)
MutantSetFlag(h, minute) ==
  IF minute < Half
  THEN [h EXCEPT !.half1 = @ \cup {minute % IntBits}]
  ELSE [h EXCEPT !.half2 = @ \cup {minute % IntBits}]
SetFlag(h, minute) ==
  IF minute < Half
  THEN [h EXCEPT !.half1 = @ \cup {minute % IntBits}]
  ELSE [h EXCEPT !.half2 = @ \cup {(minute - Half) % IntBits}]

(* what the local variables hold between two messages does not matter *)
Return ==
  /\ regPc' = "idle"
  /\ time' = 0 /\ position' = Nowhere
  /\ minutesSince' = 0 /\ minutesOffset' = 0 /\ hoursSince' = 0

SetOffset(h) == IF h.offset = Nowhere THEN [h EXCEPT !.offset = position] ELSE h

(* the second read of firstMessage, the hour's entry and the minute's flag; *)
(* a message of before firstMessage is not registered                       *)
Register ==
  LET since == Quotient(FloorDate(time) - firstMessage, TicksPerHour)
      minute == minutesSince - since * HourMinutes
  IN
  /\ regPc = "register"
  /\ IF minutesSince < 0
     THEN Return /\ UNCHANGED <<hours, heard, torn>>
     ELSE /\ hoursSince' = since /\ minutesOffset' = minute
          /\ hours' = WithHour(since, SetOffset(SetFlag(HourAt(since), minute)))
          /\ heard' = heard \cup {[time |-> time, position |-> position]}
          /\ torn' = (torn \/ minutesSince # MinutesSinceFirst)
          /\ regPc' = "position"
          /\ UNCHANGED <<time, position, minutesSince>>
  /\ UNCHANGED <<helperVars, queryVars, messages, trims, queries>>

(* the buckets of 10 minutes begin at minutes 5, 15, ...; the first one is  *)
(* shorter, and the last minutes of an hour have none                       *)
Bucket(minute) == IF minute < 0 THEN 0 ELSE (minute + BucketMinutes \div 2) \div BucketMinutes

(* zero stands for "never set", so that it is replaced by one; and x is     *)
(* replaced also where y is meant                                           *)
MutantDistance(offset) == [x |-> position.x - offset.x, y |-> position.y - offset.y]
Distance(offset) ==
  LET dx == offset.x - position.x
      dy == offset.y - position.y
  IN [x |-> IF dx = 0 \/ dy = 0 THEN 1 ELSE dx, y |-> dy]

StorePosition ==
  LET h == hours[hoursSince] IN
  /\ regPc = "position"
  /\ hours' = IF Bucket(minutesOffset) < Buckets
              THEN WithHour(hoursSince, [h EXCEPT !.positions[Bucket(minutesOffset)] = Distance(h.offset)])
              ELSE hours
  /\ Return
  /\ UNCHANGED <<helperVars, queryVars, messages, trims, queries, heard, torn>>

-----------------------------------------------------------------------------
(* The Purger ends a trim: WindowPurger has its steps, and that the window  *)
(* can begin at any hour of the feed afterwards.                            *)
Trim(h) ==
  /\ trims < MaxTrims
  /\ h # firstMessage
  /\ trims' = trims + 1
  /\ firstMessage' = h
  /\ UNCHANGED <<analysisStarted, hours, regVars, queryVars, messages, queries, heard, torn>>

-----------------------------------------------------------------------------
(* A request.  It reads the minutes of an hour while messages are           *)
(* registered; the Hour itself it gets once.                                *)

(* its hours are counted from analysisStarted, not from firstMessage *)
StartQuery(from, to) ==
  /\ queryPc # "reading"
  /\ queries < MaxQueries
  /\ analysisStarted # NoTime
  /\ queries' = queries + 1
  /\ startHour' = from /\ endHour' = to /\ nextHour' = from /\ nextMinute' = HourMinutes
  /\ result' = <<>> /\ previousMinute' = -1
  /\ before' = heard
  /\ queryPc' = "reading"
  /\ UNCHANGED <<helperVars, hours, regVars, messages, trims, heard, torn>>

GotSignal(h, minute) == IF minute < Half THEN minute \in h.half1 ELSE minute - Half \in h.half2

(* getLat, getLon: the minutes without a bucket share the last one *)
PositionAt(h, minute) ==
  LET b == IF Bucket(minute) < Buckets THEN Bucket(minute) ELSE Buckets - 1
      d == h.positions[b]
  IN IF d.x = 0 THEN Nowhere ELSE [x |-> h.offset.x - d.x, y |-> h.offset.y - d.y]

(* int arithmetic: two's complement *)
ToInt(n) == ((n + IntSpan \div 2) % IntSpan) - IntSpan \div 2
SpanTime(currentMinute) == analysisStarted + ToInt(currentMinute * TicksPerMinute)

NewSpan(minute, p) == [firstMessage |-> SpanTime(minute), lastMessage |-> SpanTime(minute), positions |-> <<p>>]

MutantWithinMargin(current, previous) == current - previous > MarginMinutes
WithinMargin(current, previous) == current - previous < MarginMinutes

Extend(span, minute, p) ==
  [firstMessage |-> span.firstMessage, lastMessage |-> SpanTime(minute),
   positions |-> Append(span.positions, p)]

(* a flagged minute; a first one that is not within the margin of -1 makes  *)
(* two spans                                                                *)
AddMinute(current, p) ==
  LET spans == IF result = <<>> THEN <<NewSpan(current, p)>> ELSE result IN
  /\ result' = IF WithinMargin(current, previousMinute)
               THEN [spans EXCEPT ![Len(spans)] = Extend(@, current, p)]
               ELSE Append(spans, NewSpan(current, p))
  /\ previousMinute' = current

(* an hour that has no entry yet is skipped                                 *)
ReadHour ==
  /\ queryPc = "reading"
  /\ nextHour < endHour
  /\ nextMinute = HourMinutes
  /\ IF nextHour \in DOMAIN hours
     THEN nextMinute' = 0 /\ UNCHANGED nextHour
     ELSE nextHour' = nextHour + 1 /\ UNCHANGED nextMinute
  /\ UNCHANGED <<helperVars, hours, regVars, queryPc, startHour, endHour, before, result, previousMinute,
                 messages, trims, queries, heard, torn>>

ReadMinute ==
  /\ queryPc = "reading"
  /\ nextMinute < HourMinutes
  /\ nextMinute' = nextMinute + 1
  /\ nextHour' = IF nextMinute + 1 = HourMinutes THEN nextHour + 1 ELSE nextHour
  /\ IF GotSignal(hours[nextHour], nextMinute)
     THEN AddMinute(nextHour * HourMinutes + nextMinute, PositionAt(hours[nextHour], nextMinute))
     ELSE UNCHANGED <<result, previousMinute>>
  /\ UNCHANGED <<helperVars, hours, regVars, queryPc, startHour, endHour, before,
                 messages, trims, queries, heard, torn>>

Answer ==
  /\ queryPc = "reading"
  /\ nextHour >= endHour
  /\ queryPc' = "answered"
  /\ UNCHANGED <<helperVars, hours, regVars, startHour, endHour, nextHour, nextMinute, result, previousMinute,
                 before, messages, trims, queries, heard, torn>>

(* the model's messages are used up *)
Quiescent ==
  /\ messages = MaxMessages /\ regPc = "idle" /\ queryPc # "reading"
  /\ UNCHANGED vars

Next ==
  \/ \E t \in Timestamps, p \in Positions : Calculate(t, p)
  \/ Register \/ StorePosition
  \/ \E h \in HourStarts : Trim(h)
  \/ \E from, to \in Requested : StartQuery(from, to)
  \/ ReadHour \/ ReadMinute \/ Answer
  \/ Quiescent

Spec == Init /\ [][Next]_vars

-----------------------------------------------------------------------------

Points == [x : Int, y : Int]
HourType ==
  [half1 : SUBSET (0 .. IntBits - 1), half2 : SUBSET (0 .. IntBits - 1), offset : Points,
   positions : [0 .. Buckets - 1 -> Points]]
Messages == [time : Times, position : Positions]

TypeOK ==
  /\ firstMessage \in HourStarts /\ analysisStarted \in HourStarts \cup {NoTime}
  /\ DOMAIN hours \subseteq HourKeys /\ \A k \in DOMAIN hours : hours[k] \in HourType
  /\ regPc \in {"idle", "register", "position"}
  /\ time \in Times /\ position \in Positions \cup {Nowhere}
  /\ minutesSince \in Int /\ minutesOffset \in Int
  /\ hoursSince \in HourKeys /\ (regPc = "position" => hoursSince \in DOMAIN hours)
  /\ queryPc \in {"idle", "reading", "answered"}
  /\ startHour \in HourKeys /\ endHour \in HourKeys /\ nextHour \in HourKeys
  /\ nextMinute \in 0 .. HourMinutes
  /\ (nextMinute < HourMinutes => nextHour \in DOMAIN hours /\ nextHour < endHour)
  /\ result \in Seq([firstMessage : Int, lastMessage : Int, positions : Seq(Points)])
  /\ previousMinute \in Int
  /\ messages \in 0 .. MaxMessages /\ trims \in 0 .. MaxTrims /\ queries \in 0 .. MaxQueries
  /\ heard \subseteq Messages /\ before \subseteq heard
  /\ torn \in BOOLEAN

(* Every minute flagged in an hour is the minute of a message ("indicating  *)
(* if a message was received in the corresponding minute"), and the         *)
(* position reported for it, if any, is that of a message less than ten     *)
(* minutes away, or fifteen for the last minutes of the hour: up to the     *)
(* 10 m that stand for "never set", and but for x where the ship has moved  *)
(* in the direction of x only.                                              *)
Minutes(h) == {j \in 0 .. HourMinutes - 1 : GotSignal(h, j)}
Near(m, minute) ==
  LET lastMinutes == minute >= HourMinutes - BucketMinutes \div 2
  IN MinuteOf(m.time) - minute
       \in -(BucketMinutes + (IF lastMinutes THEN BucketMinutes \div 2 ELSE 0)) + 1 .. BucketMinutes - 1
ShownAs(p, q, offset) == p.y = q.y /\ (p.x - q.x \in {-1, 0} \/ q.y = offset.y)
HoursAreTrue ==
  ~torn =>
    \A k \in DOMAIN hours : \A j \in Minutes(hours[k]) :
      LET p == PositionAt(hours[k], j) IN
      /\ \E m \in heard : MinuteOf(m.time) = j
      /\ p # Nowhere =>
           \E m \in heard : Near(m, j) /\ ShownAs(p, m.position, hours[k].offset)

(* Until the window is trimmed for the first time, and if it begins where   *)
(* the analysis did, an answer is dated as the messages were ...            *)
MinuteStart(m) == m.time - (m.time % TicksPerMinute)
InOrder == trims = 0 /\ firstMessage = analysisStarted
TrackIsTrue ==
  queryPc = "answered" /\ InOrder =>
    \A i \in DOMAIN result :
      /\ \E m \in heard : MinuteStart(m) = result[i].firstMessage
      /\ \E m \in heard : MinuteStart(m) = result[i].lastMessage

(* ... and has every message of its hours that was registered before it,    *)
(* those less than the margin apart in one time span (comments of           *)
(* getShipDynamicTimeSpans).                                                *)
Asked == {m \in before : /\ m.time >= firstMessage
                         /\ (FloorDate(m.time) - analysisStarted) \div TicksPerHour
                              \in startHour .. endHour - 1}
MinutesApart(m, n) == (MinuteStart(m) - MinuteStart(n)) \div TicksPerMinute
TrackIsComplete ==
  queryPc = "answered" /\ InOrder =>
    \A m, n \in Asked :
      m = n \/ MinutesApart(m, n) \in 0 .. MarginMinutes - 1 =>
        \E i \in DOMAIN result :
          \A e \in {m, n} : MinuteStart(e) \in result[i].firstMessage .. result[i].lastMessage
=============================================================================
