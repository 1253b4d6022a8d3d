-------------------------- MODULE ShipTrack_proofs ---------------------------
(***************************************************************************)
(* Proofs about ShipTrack: its types, that the hours a ship has are those   *)
(* of its messages, and that the track a request answers is true and        *)
(* complete although nothing orders the request's loop and registerMessage. *)
(* The arithmetic of hours, minutes and buckets comes first.                *)
(***************************************************************************)
EXTENDS ShipTrack, TLAPS

(* The ship is never at the latitude that setPosition takes for "never set"  *)
(* (0, Ship.java:157): such an offset is set again by the hour's next        *)
(* message, and the positions stored relative to it move along.              *)
PositionsAreSomewhere == Nowhere \notin Positions

(* The feed is shorter than 2^31 ms, 24 days: the int in which a request     *)
(* counts milliseconds (SatCalculator.java:111) does not overflow.           *)
FeedIsShort == (LastHour + 1) * TicksPerHour <= IntSpan \div 2

-----------------------------------------------------------------------------
(* The hours.                                                               *)

Registering == regPc # "idle" => position \in Positions

OffsetsAreSet == \A k \in DOMAIN hours : hours[k].offset # Nowhere

(* until the Purger has trimmed, an hour's flags are of messages of that hour *)
InHour(m, k) == k \in Nat /\ FloorDate(m.time) = firstMessage + k * TicksPerHour
Flagged ==
  ~torn =>
    \A k \in DOMAIN hours : \A j \in 0 .. HourMinutes - 1 :
      GotSignal(hours[k], j) =>
        \E m \in heard : MinuteOf(m.time) = j /\ (trims = 0 => InHour(m, k))

Shown(h, d) == [x |-> h.offset.x - d.x, y |-> h.offset.y - d.y]
Stored ==
  ~torn =>
    \A k \in DOMAIN hours : \A b \in 0 .. Buckets - 1 :
      hours[k].positions[b].x # 0 =>
        \E m \in heard : /\ Bucket(MinuteOf(m.time)) = b
                         /\ ShownAs(Shown(hours[k], hours[k].positions[b]), m.position, hours[k].offset)

Pending ==
  regPc = "position" /\ ~torn =>
    /\ [time |-> time, position |-> position] \in heard
    /\ minutesOffset \in {MinuteOf(time), HourMinutes}

HoursInv == Registering /\ OffsetsAreSet /\ Flagged /\ Stored /\ Pending

-----------------------------------------------------------------------------
(* The track.                                                               *)

NotTorn == trims = 0 => ~torn /\ (regPc = "register" => minutesSince = MinutesSinceFirst)

HourOf(m) == (FloorDate(m.time) - firstMessage) \div TicksPerHour
AllFlagged ==
  trims = 0 =>
    \A m \in heard : m.time >= firstMessage =>
      HourOf(m) \in DOMAIN hours /\ GotSignal(hours[HourOf(m)], MinuteOf(m.time))

Phases ==
  /\ queryPc # "idle" => analysisStarted # NoTime
  /\ queryPc = "answered" => nextHour >= endHour /\ nextMinute = HourMinutes

NextToRead == nextHour * HourMinutes + (IF nextMinute < HourMinutes THEN nextMinute ELSE 0)
MinuteIndex(m) == HourOf(m) * HourMinutes + MinuteOf(m.time)
WasRead(m) == /\ m \in before /\ m.time >= firstMessage
              /\ HourOf(m) >= startHour /\ MinuteIndex(m) < NextToRead

IsTime(t) == \E m \in heard : MinuteStart(m) = t
TrueSpans == \A i \in DOMAIN result : IsTime(result[i].firstMessage) /\ IsTime(result[i].lastMessage)
LastSpan ==
  IF result = <<>> THEN previousMinute = -1
  ELSE /\ previousMinute \in Nat /\ previousMinute < NextToRead
       /\ result[Len(result)].firstMessage <= result[Len(result)].lastMessage
       /\ result[Len(result)].lastMessage = analysisStarted + previousMinute * TicksPerMinute
InSpan(m, i) == MinuteStart(m) \in result[i].firstMessage .. result[i].lastMessage
Covered == \A m \in before : WasRead(m) => \E i \in DOMAIN result : InSpan(m, i)
Recent ==
  \A m \in before : WasRead(m) =>
    /\ MinuteIndex(m) <= previousMinute
    /\ previousMinute - MinuteIndex(m) < MarginMinutes => InSpan(m, Len(result))
Together ==
  \A m, n \in before :
    WasRead(m) /\ WasRead(n) /\ MinutesApart(m, n) \in 0 .. MarginMinutes - 1 =>
      \E i \in DOMAIN result : InSpan(m, i) /\ InSpan(n, i)
TrackInv == queryPc # "idle" /\ InOrder => TrueSpans /\ LastSpan /\ Covered /\ Recent /\ Together
-----------------------------------------------------------------------------
(* Division.                                                                *)

LEMMA DivMod ==
  ASSUME NEW a \in Int, NEW b \in Nat \ {0}
  PROVE  a \div b \in Int /\ a % b \in 0 .. b - 1 /\ a = b * (a \div b) + (a % b)
  OBVIOUS

LEMMA Distribute ==
  ASSUME NEW a \in Int, NEW b \in Int, NEW c \in Int
  PROVE  (a + b) * c = a * c + b * c
  OBVIOUS

LEMMA TimesMonotone ==
  ASSUME NEW a \in Int, NEW b \in Int, NEW c \in Nat \ {0}
  PROVE  /\ a * c \in Int /\ b * c \in Int
         /\ a < b => a * c + c <= b * c
         /\ a = b => a * c = b * c
<1>1. a * c \in Int /\ b * c \in Int
  OBVIOUS
<1>2. ASSUME a < b PROVE a * c + c <= b * c
  <2>1. (b - a - 1) * c \in Nat
    <3>1. PICK e \in Nat : e = b - a - 1
      BY <1>2
    <3>2. e * c \in Nat
      OBVIOUS
    <3> QED
      BY <3>1, <3>2
  <2>2. (b - a - 1) * c = b * c - a * c - c
    OBVIOUS
  <2> QED
    BY <1>1, <2>1, <2>2
<1> QED
  BY <1>1, <1>2

LEMMA DivNat ==
  ASSUME NEW a \in Nat, NEW b \in Nat \ {0}
  PROVE  a \div b \in Nat
<1> DEFINE q == a \div b
           r == a % b
<1>1. q \in Int /\ r \in 0 .. b - 1 /\ a = b * q + r
  BY DivMod
<1> HIDE DEF q, r
<1>2. b * q = q * b /\ q * b \in Int /\ 0 * b = 0
  BY <1>1
<1>3. q < 0 => q * b + b <= 0 * b
  BY <1>1, TimesMonotone
<1>4. q \in Nat
  BY <1>1, <1>2, <1>3
<1> QED
  BY <1>4 DEF q

LEMMA DivUnique ==
  ASSUME NEW a \in Int, NEW b \in Nat \ {0}, NEW q \in Int, NEW r \in 0 .. b - 1, a = q * b + r
  PROVE  a \div b = q /\ a % b = r
<1> DEFINE p == a \div b
           s == a % b
<1>1. p \in Int /\ s \in 0 .. b - 1 /\ a = b * p + s
  BY DivMod
<1>2. b * p = p * b
  BY <1>1
<1>3. ~(p < q)
  <2>1. p < q => p * b + b <= q * b
    BY <1>1, TimesMonotone
  <2>2. p * b \in Int /\ q * b \in Int
    BY <1>1
  <2> HIDE DEF p, s
  <2> QED
    BY <1>1, <1>2, <2>1, <2>2
<1>4. ~(q < p)
  <2>1. q < p => q * b + b <= p * b
    BY <1>1, TimesMonotone
  <2>2. p * b \in Int /\ q * b \in Int
    BY <1>1
  <2> HIDE DEF p, s
  <2> QED
    BY <1>1, <1>2, <2>1, <2>2
<1>5. p = q
  BY <1>1, <1>3, <1>4
<1>6. p * b = q * b /\ p * b \in Int
  BY <1>1, <1>5
<1>7. s = r
  <2> HIDE DEF p, s
  <2> QED
    BY <1>1, <1>2, <1>6
<1> QED
  BY <1>5, <1>7

(* How the constants hang together.                                         *)
LEMMA Scales ==
  /\ TicksPerMinute \in Nat \ {0} /\ HourMinutes \in Nat \ {0} /\ TicksPerHour \in Nat \ {0}
  /\ TicksPerHour = TicksPerMinute * HourMinutes
  /\ Half \in Nat \ {0} /\ HourMinutes = 2 * Half /\ IntBits \in Nat /\ IntBits > Half
  /\ BucketMinutes \in Nat \ {0} /\ BucketMinutes = 2 * (BucketMinutes \div 2)
  /\ BucketMinutes \div 2 \in Nat \ {0}
  /\ Buckets \in Nat \ {0} /\ HourMinutes = Buckets * BucketMinutes
  /\ IntSpan \in Nat \ {0} /\ MarginMinutes \in Nat /\ LastHour \in Nat
<1> USE TrackAssumption
<1>1. TicksPerHour \in Nat \ {0}
  <2>1. ASSUME NEW a \in Nat \ {0}, NEW b \in Nat \ {0} PROVE a * b \in Nat \ {0}
    OBVIOUS
  <2> QED
    BY <2>1 DEF TicksPerHour
<1>2. Half \in Nat \ {0} /\ HourMinutes = 2 * Half
  <2>1. HourMinutes \in Nat \ {0} /\ HourMinutes % 2 = 0
    OBVIOUS
  <2> QED
    BY <2>1 DEF Half
<1>3. BucketMinutes = 2 * (BucketMinutes \div 2) /\ BucketMinutes \div 2 \in Nat \ {0}
  <2>1. BucketMinutes \in Nat \ {0} /\ BucketMinutes % 2 = 0
    OBVIOUS
  <2> QED
    BY <2>1
<1>4. Buckets \in Nat \ {0} /\ HourMinutes = Buckets * BucketMinutes
  <2> DEFINE m == HourMinutes
             b == BucketMinutes
             q == m \div b
  <2>1. m \in Nat \ {0} /\ b \in Nat \ {0} /\ m % b = 0
    OBVIOUS
  <2>2. q \in Int /\ m = b * q + (m % b)
    BY <2>1, DivMod
  <2>3. b * q \in Int /\ m = b * q
    BY <2>1, <2>2
  <2>4. ASSUME q <= 0 PROVE FALSE
    <3>1. PICK e \in Nat : e = -q
      BY <2>2, <2>4
    <3>2. b * e \in Nat
      BY <2>1, <3>1
    <3>3. b * q = -(b * e)
      BY <2>1, <2>2, <3>1
    <3> HIDE DEF m, b, q
    <3> QED
      BY <2>1, <2>3, <3>2, <3>3
  <2>5. q * b = b * q
    BY <2>1, <2>2
  <2> HIDE DEF m, b, q
  <2>6. q \in Nat \ {0} /\ m = q * b
    BY <2>2, <2>3, <2>4, <2>5
  <2> QED
    BY <2>6 DEF Buckets, m, b, q
<1> QED
  BY <1>1, <1>2, <1>3, <1>4 DEF TicksPerHour, Half

(* A time is an hour, a minute of it and a rest.                            *)
LEMMA TimeParts ==
  ASSUME NEW t \in Int
  PROVE  /\ FloorDate(t) = (t \div TicksPerHour) * TicksPerHour
         /\ t \div TicksPerHour \in Int
         /\ MinuteOf(t) \in 0 .. HourMinutes - 1
         /\ MinuteOf(t) * TicksPerMinute \in Int
         /\ t % TicksPerMinute \in 0 .. TicksPerMinute - 1
         /\ t = FloorDate(t) + MinuteOf(t) * TicksPerMinute + (t % TicksPerMinute)
<1> DEFINE q == t \div TicksPerHour
           r == t % TicksPerHour
           j == r \div TicksPerMinute
           s == r % TicksPerMinute
<1>1. q \in Int /\ r \in 0 .. TicksPerHour - 1 /\ t = TicksPerHour * q + r
  BY Scales, DivMod
<1>2. j \in Int /\ s \in 0 .. TicksPerMinute - 1 /\ r = TicksPerMinute * j + s
  <2>1. r \in Int
    BY <1>1, Scales
  <2> HIDE DEF q, r
  <2> QED
    BY <2>1, Scales, DivMod
<1>3. TicksPerHour * q = q * TicksPerHour /\ q * TicksPerHour \in Int
  BY <1>1, Scales
<1>4. TicksPerMinute * j = j * TicksPerMinute /\ j * TicksPerMinute \in Int
  BY <1>2, Scales
<1>5. FloorDate(t) = q * TicksPerHour
  <2>1. FloorDate(t) = t - r
    BY DEF FloorDate
  <2> HIDE DEF q, r
  <2> QED
    BY <1>1, <1>3, <2>1
<1>6. j >= 0
  <2>1. j < 0 => j * TicksPerMinute + TicksPerMinute <= 0 * TicksPerMinute
    BY <1>2, Scales, TimesMonotone
  <2>2. 0 * TicksPerMinute = 0 /\ TicksPerMinute \in Nat
    BY Scales
  <2> HIDE DEF q, r, j, s
  <2> QED
    BY <1>1, <1>2, <1>4, <2>1, <2>2
<1>7. j < HourMinutes
  <2>1. HourMinutes < j => HourMinutes * TicksPerMinute + TicksPerMinute <= j * TicksPerMinute
    BY <1>2, Scales, TimesMonotone
  <2>2. j = HourMinutes => j * TicksPerMinute = HourMinutes * TicksPerMinute
    OBVIOUS
  <2>3. HourMinutes * TicksPerMinute = TicksPerHour /\ TicksPerMinute \in Nat /\ HourMinutes \in Nat
    BY Scales
  <2> HIDE DEF q, r, j, s
  <2> QED
    BY <1>1, <1>2, <1>4, <2>1, <2>2, <2>3
<1>8. t % TicksPerMinute = s
  <2>1. (q * HourMinutes) * TicksPerMinute = q * TicksPerHour
    BY <1>1, Scales
  <2>2. (q * HourMinutes + j) * TicksPerMinute = (q * HourMinutes) * TicksPerMinute + j * TicksPerMinute
    <3>1. q * HourMinutes \in Int
      BY <1>1, Scales
    <3> HIDE DEF q, r, j, s
    <3> QED
      BY <1>2, <3>1, Scales, Distribute
  <2>3. q * HourMinutes + j \in Int
    BY <1>1, <1>2, Scales
  <2>4. t = (q * HourMinutes + j) * TicksPerMinute + s
    <3> HIDE DEF q, r, j, s
    <3> QED
      BY <1>1, <1>2, <1>3, <1>4, <2>1, <2>2
  <2> HIDE DEF q, r, j, s
  <2> QED
    BY <1>2, <2>3, <2>4, Scales, DivUnique
<1>9. MinuteOf(t) = j
  BY DEF MinuteOf
<1> HIDE DEF q, r, j, s
<1>10. t = q * TicksPerHour + j * TicksPerMinute + s
  BY <1>1, <1>2, <1>3, <1>4
<1>11. j \in 0 .. HourMinutes - 1
  BY <1>2, <1>6, <1>7, Scales
<1>12. t = FloorDate(t) + j * TicksPerMinute + s
  BY <1>5, <1>10
<1>13. FloorDate(t) = (t \div TicksPerHour) * TicksPerHour /\ t \div TicksPerHour \in Int
  BY <1>1, <1>5 DEF q
<1> QED
  BY <1>2, <1>4, <1>8, <1>9, <1>11, <1>12, <1>13

LEMMA QuotientExact ==
  ASSUME NEW q \in Int, NEW b \in Nat \ {0}
  PROVE  Quotient(q * b, b) = q
<1>1. q * b \in Int /\ (-q) * b \in Int /\ (-q) * b = -(q * b)
  OBVIOUS
<1>2. CASE q >= 0
  <2>1. q * b >= 0
    <3>1. PICK e \in Nat : e = q
      BY <1>2
    <3>2. e * b \in Nat
      OBVIOUS
    <3> QED
      BY <3>1, <3>2
  <2>2. q * b = q * b + 0 /\ 0 \in 0 .. b - 1
    BY <1>1
  <2>3. (q * b) \div b = q
    BY <1>1, <2>2, DivUnique
  <2> QED
    BY <2>1, <2>3 DEF Quotient
<1>3. CASE q < 0
  <2>1. q * b < 0
    <3>1. q * b + b <= 0 * b
      BY <1>3, TimesMonotone
    <3> QED
      BY <1>1, <3>1
  <2>2. (-q) * b = (-q) * b + 0 /\ 0 \in 0 .. b - 1 /\ -q \in Int
    BY <1>1
  <2>3. ((-q) * b) \div b = -q
    BY <1>1, <2>2, DivUnique
  <2>4. Quotient(q * b, b) = -((-(q * b)) \div b)
    BY <1>1, <2>1 DEF Quotient
  <2>5. -(q * b) = (-q) * b
    BY <1>1
  <2>6. Quotient(q * b, b) = -(-q)
    BY <2>3, <2>4, <2>5
  <2> QED
    BY <2>6
<1> QED
  BY <1>2, <1>3

LEMMA QuotientType ==
  ASSUME NEW a \in Int, NEW b \in Nat \ {0}
  PROVE  Quotient(a, b) \in Int
<1>1. a \div b \in Int /\ (-a) \div b \in Int
  BY DivMod
<1> QED
  BY <1>1 DEF Quotient

(* What registerMessage computes of a message: its hour, counted from        *)
(* firstMessage, and its minute - unless it is of the last minute before     *)
(* firstMessage, which is not negative after the division: it gets the       *)
(* minute 60 of the hour -1.                                                 *)
HoursBetween(t, first) == Quotient(FloorDate(t) - first, TicksPerHour)
MinutesSince(t, first) == Quotient(t - first, TicksPerMinute)

LEMMA MinuteRegistered ==
  ASSUME NEW t \in Int, NEW f \in Int, NEW first, first = f * TicksPerHour
  PROVE  LET since == HoursBetween(t, first)
             minutes == MinutesSince(t, first)
         IN /\ since \in Int /\ minutes \in Int
            /\ since = (t \div TicksPerHour) - f
            /\ FloorDate(t) = first + since * TicksPerHour
            /\ first <= t <=> since >= 0
            /\ since >= 0 => minutes >= 0 /\ minutes - since * HourMinutes = MinuteOf(t)
            /\ minutes >= 0 /\ since < 0 => minutes - since * HourMinutes = HourMinutes
<1> DEFINE q == t \div TicksPerHour
           j == MinuteOf(t)
           s == t % TicksPerMinute
           d == q - f
           since == Quotient(FloorDate(t) - first, TicksPerHour)
           minutes == Quotient(t - first, TicksPerMinute)
<1>1. /\ q \in Int /\ j \in 0 .. HourMinutes - 1 /\ s \in 0 .. TicksPerMinute - 1
      /\ FloorDate(t) = q * TicksPerHour /\ t = q * TicksPerHour + j * TicksPerMinute + s
      /\ j * TicksPerMinute \in Int
  BY TimeParts, Zenon
<1>2. /\ TicksPerMinute \in Nat \ {0} /\ HourMinutes \in Nat \ {0} /\ TicksPerHour \in Nat \ {0}
      /\ TicksPerHour = TicksPerMinute * HourMinutes
  BY Scales
<1>3. d \in Int /\ q = d + f /\ f = d - d + f
  BY <1>1
<1> HIDE DEF q, j, s, d
<1>4. /\ q * TicksPerHour = d * TicksPerHour + f * TicksPerHour
      /\ d * TicksPerHour \in Int /\ f * TicksPerHour \in Int /\ q * TicksPerHour \in Int
  BY <1>1, <1>2, <1>3, Distribute
<1>5. FloorDate(t) - first = d * TicksPerHour /\ FloorDate(t) = first + d * TicksPerHour
  BY <1>1, <1>4
<1>6. since = d
  BY <1>2, <1>3, <1>5, QuotientExact
<1>7. d * HourMinutes \in Int /\ (d * HourMinutes) * TicksPerMinute = d * TicksPerHour
  BY <1>2, <1>3
<1>8. t - first = (d * HourMinutes + j) * TicksPerMinute + s
  <2>1. (d * HourMinutes + j) * TicksPerMinute = (d * HourMinutes) * TicksPerMinute + j * TicksPerMinute
    BY <1>1, <1>2, <1>7, Distribute
  <2> QED
    BY <1>1, <1>4, <1>7, <2>1
<1>9. d * HourMinutes + j \in Int /\ t - first \in Int
  BY <1>1, <1>2, <1>4, <1>7, <1>8
<1>10. minutes \in Int
  BY <1>2, <1>9, QuotientType
<1> DEFINE c == d * HourMinutes + j
<1>11. c \in Int /\ t - first = c * TicksPerMinute + s /\ c * TicksPerMinute \in Int
  BY <1>2, <1>8, <1>9
<1>12. ASSUME d >= 0
       PROVE  minutes = c /\ minutes >= 0 /\ first <= t
  <2>1. d * HourMinutes >= 0
    <3>1. d = 0 \/ 0 < d
      BY <1>3, <1>12
    <3>2. 0 * HourMinutes = 0 /\ HourMinutes \in Nat
      BY <1>2
    <3> QED
      BY <1>2, <1>3, <1>7, <3>1, <3>2, TimesMonotone
  <2>2. c >= 0
    BY <1>1, <1>7, <2>1
  <2>3. c * TicksPerMinute >= 0
    <3>1. c = 0 \/ 0 < c
      BY <1>11, <2>2
    <3>2. 0 * TicksPerMinute = 0 /\ TicksPerMinute \in Nat
      BY <1>2
    <3> HIDE DEF c
    <3> QED
      BY <1>2, <1>11, <3>1, <3>2, TimesMonotone
  <2> HIDE DEF c
  <2>4. t - first >= 0
    BY <1>1, <1>2, <1>11, <2>3
  <2>5. (t - first) \div TicksPerMinute = c
    BY <1>1, <1>2, <1>9, <1>11, DivUnique
  <2>6. minutes = c
    BY <2>4, <2>5 DEF Quotient
  <2>7. t \in Int /\ first \in Int
    BY <1>4
  <2> QED
    BY <2>2, <2>4, <2>6, <2>7
<1>13. ASSUME d < 0
       PROVE  /\ ~(first <= t)
              /\ minutes >= 0 => minutes - d * HourMinutes = HourMinutes
  <2>1. d * HourMinutes + HourMinutes <= 0 * HourMinutes
    BY <1>2, <1>3, <1>13, TimesMonotone
  <2>2. c < 0
    BY <1>1, <1>2, <1>7, <2>1
  <2>3. c * TicksPerMinute + TicksPerMinute <= 0 * TicksPerMinute
    BY <1>2, <1>11, <2>2, TimesMonotone
  <2>4. t - first < 0
    <3> HIDE DEF c
    <3> QED
      BY <1>1, <1>2, <1>11, <2>3
  <2>5. ~(first <= t)
    <3>1. first \in Int
      BY <1>4
    <3> QED
      BY <2>4, <3>1
  <2>6. minutes = -((-(t - first)) \div TicksPerMinute)
    BY <1>9, <2>4 DEF Quotient
  <2>7. (-c) * TicksPerMinute = -(c * TicksPerMinute) /\ -c \in Int
    BY <1>2, <1>11
  <2>8. CASE s = 0
    <3>1. -(t - first) = (-c) * TicksPerMinute + 0 /\ 0 \in 0 .. TicksPerMinute - 1
      <4> HIDE DEF c
      <4> QED
        BY <1>2, <1>11, <2>7, <2>8
    <3>2. -(t - first) \in Int
      BY <1>9
    <3>3. (-(t - first)) \div TicksPerMinute = -c
      <4> HIDE DEF c
      <4> QED
        BY <1>2, <2>7, <3>1, <3>2, DivUnique
    <3>4. minutes = -(-c)
      BY <2>6, <3>3
    <3> HIDE DEF c
    <3>5. minutes = c
      BY <1>11, <3>4
    <3> QED
      BY <1>11, <2>2, <2>5, <3>5
  <2>9. CASE s # 0
    <3>1. (-c - 1) * TicksPerMinute = (-c) * TicksPerMinute - TicksPerMinute /\ -c - 1 \in Int
      <4>1. -c - 1 = -c + (-1) /\ (-1) * TicksPerMinute = -TicksPerMinute /\ TicksPerMinute \in Int
        BY <1>2, <1>11
      <4> HIDE DEF c
      <4>2. (-c + (-1)) * TicksPerMinute = (-c) * TicksPerMinute + (-1) * TicksPerMinute
        BY <2>7, <4>1, Distribute
      <4> QED
        BY <1>11, <2>7, <4>1, <4>2
    <3>2. /\ -(t - first) = (-c - 1) * TicksPerMinute + (TicksPerMinute - s)
          /\ TicksPerMinute - s \in 0 .. TicksPerMinute - 1
      <4> HIDE DEF c
      <4> QED
        BY <1>1, <1>2, <1>11, <2>7, <2>9, <3>1
    <3>3. -(t - first) \in Int
      BY <1>9
    <3>4. (-(t - first)) \div TicksPerMinute = -c - 1
      <4> HIDE DEF c
      <4> QED
        BY <1>2, <3>1, <3>2, <3>3, DivUnique
    <3>5. minutes = c + 1
      <4>1. minutes = -(-c - 1)
        BY <2>6, <3>4
      <4> HIDE DEF c
      <4> QED
        BY <1>11, <4>1
    <3>6. ASSUME minutes >= 0
          PROVE  minutes - d * HourMinutes = HourMinutes
      <4>1. c = -1
        <5> HIDE DEF c
        <5> QED
          BY <1>11, <2>2, <3>5, <3>6
      <4>2. d * HourMinutes + j = -1
        BY <4>1
      <4>3. d * HourMinutes >= -HourMinutes
        BY <1>1, <1>2, <1>7, <4>2
      <4>4. ~(d < -1)
        <5>1. d < -1 => d * HourMinutes + HourMinutes <= (-1) * HourMinutes
          BY <1>2, <1>3, TimesMonotone
        <5>2. (-1) * HourMinutes = -HourMinutes /\ HourMinutes \in Nat \ {0}
          BY <1>2
        <5> QED
          BY <1>7, <4>3, <5>1, <5>2
      <4>5. d = -1
        BY <1>3, <1>13, <4>4
      <4>6. d * HourMinutes = -HourMinutes
        BY <1>2, <4>5
      <4>7. minutes = 0
        BY <3>5, <4>1
      <4> QED
        BY <1>2, <4>6, <4>7
    <3> QED
      BY <2>5, <3>6
  <2> QED
    BY <2>8, <2>9
<1>14. d = (t \div TicksPerHour) - f
  BY DEF d, q
<1>15. d >= 0 => minutes - d * HourMinutes = MinuteOf(t)
  <2>1. d >= 0 => minutes - d * HourMinutes = j
    BY <1>1, <1>2, <1>7, <1>12
  <2> QED
    BY <2>1 DEF j
<1>16. d >= 0 \/ d < 0
  BY <1>3
<1>17. first <= t <=> d >= 0
  BY <1>3, <1>12, <1>13, <1>16
<1>18. since \in Int
  BY <1>3, <1>6
<1> HIDE DEF minutes, since
<1>19. /\ since \in Int /\ minutes \in Int
       /\ since = (t \div TicksPerHour) - f
       /\ FloorDate(t) = first + since * TicksPerHour
       /\ first <= t <=> since >= 0
       /\ since >= 0 => minutes >= 0 /\ minutes - since * HourMinutes = MinuteOf(t)
       /\ minutes >= 0 /\ since < 0 => minutes - since * HourMinutes = HourMinutes
  BY <1>5, <1>6, <1>10, <1>12, <1>13, <1>14, <1>15, <1>17, <1>18, Zenon
<1> QED
  BY <1>19 DEF minutes, since, HoursBetween, MinutesSince

-----------------------------------------------------------------------------
(* The entries of an hour.                                                  *)

LEMMA BucketBounds ==
  ASSUME NEW minute \in 0 .. HourMinutes
  PROVE  /\ Bucket(minute) \in Nat /\ Bucket(minute) * BucketMinutes \in Int
         /\ Bucket(minute) * BucketMinutes <= minute + (BucketMinutes \div 2)
         /\ minute + (BucketMinutes \div 2) < Bucket(minute) * BucketMinutes + BucketMinutes
<1> DEFINE h == BucketMinutes \div 2
           x == (minute + h) \div BucketMinutes
<1>1. h \in Nat /\ BucketMinutes \in Nat \ {0} /\ minute \in Nat
  BY Scales
<1>2. Bucket(minute) = x
  BY <1>1 DEF Bucket
<1>3. minute + h \in Nat
  BY <1>1
<1>4. x \in Int /\ minute + h = BucketMinutes * x + ((minute + h) % BucketMinutes)
      /\ (minute + h) % BucketMinutes \in 0 .. BucketMinutes - 1
  <2> HIDE DEF h
  <2> QED
    BY <1>1, <1>3, DivMod
<1>5. BucketMinutes * x = x * BucketMinutes /\ x * BucketMinutes \in Int
  BY <1>1, <1>4
<1> DEFINE r == (minute + h) % BucketMinutes
<1>6. r \in 0 .. BucketMinutes - 1 /\ minute + h = x * BucketMinutes + r
  BY <1>4, <1>5
<1> HIDE DEF x, h, r
<1>7. x >= 0
  <2>1. x < 0 => x * BucketMinutes + BucketMinutes <= 0 * BucketMinutes
    BY <1>1, <1>4, TimesMonotone
  <2>2. 0 * BucketMinutes = 0
    BY <1>1
  <2> QED
    BY <1>1, <1>3, <1>4, <1>5, <1>6, <2>1, <2>2
<1>8. x * BucketMinutes <= minute + h /\ minute + h < x * BucketMinutes + BucketMinutes
  BY <1>1, <1>3, <1>5, <1>6
<1> QED
  BY <1>2, <1>4, <1>5, <1>7, <1>8 DEF h

LEMMA BucketType ==
  ASSUME NEW minute \in Int
  PROVE  Bucket(minute) \in Nat
<1>1. BucketMinutes \in Nat \ {0} /\ BucketMinutes \div 2 \in Nat
  BY Scales
<1> DEFINE a == minute + (BucketMinutes \div 2)
<1>2. ASSUME minute >= 0
      PROVE  a \div BucketMinutes \in Nat
  <2>1. a \in Nat
    BY <1>1, <1>2
  <2> HIDE DEF a
  <2> QED
    BY <1>1, <2>1, DivNat
<1> QED
  BY <1>1, <1>2 DEF Bucket

LEMMA NoBucket ==
  Bucket(HourMinutes) >= Buckets
<1> DEFINE x == Bucket(HourMinutes)
<1>1. HourMinutes \in 0 .. HourMinutes
  BY Scales
<1>2. /\ x \in Nat /\ x * BucketMinutes \in Int
      /\ HourMinutes + (BucketMinutes \div 2) < x * BucketMinutes + BucketMinutes
  BY <1>1, BucketBounds
<1>3. x < Buckets => x * BucketMinutes + BucketMinutes <= Buckets * BucketMinutes
  BY <1>2, Scales, TimesMonotone
<1> HIDE DEF x
<1> QED
  BY <1>2, <1>3, Scales DEF x

(* The bucket that a minute's position is read from.                        *)
BucketRead(minute) == IF Bucket(minute) < Buckets THEN Bucket(minute) ELSE Buckets - 1

LEMMA BucketReadType ==
  ASSUME NEW minute \in Int
  PROVE  BucketRead(minute) \in 0 .. Buckets - 1
  BY BucketType, Scales DEF BucketRead

LEMMA BucketIsNear ==
  ASSUME NEW m, MinuteOf(m.time) \in 0 .. HourMinutes - 1, NEW j \in 0 .. HourMinutes - 1,
         Bucket(MinuteOf(m.time)) = BucketRead(j)
  PROVE  Near(m, j)
<1> DEFINE a == MinuteOf(m.time)
           h == BucketMinutes \div 2
           x == Bucket(a)
           y == Bucket(j)
<1>1. /\ h \in Nat \ {0} /\ BucketMinutes = 2 * h /\ BucketMinutes \in Nat \ {0}
      /\ Buckets \in Nat \ {0} /\ HourMinutes = Buckets * BucketMinutes /\ HourMinutes \in Nat
  BY Scales
<1>2. a \in 0 .. HourMinutes /\ a < HourMinutes /\ j \in 0 .. HourMinutes
  BY <1>1
<1>3. /\ x \in Nat /\ x * BucketMinutes \in Int
      /\ x * BucketMinutes <= a + h /\ a + h < x * BucketMinutes + BucketMinutes
  <2> HIDE DEF a
  <2> QED
    BY <1>2, BucketBounds
<1>4. /\ y \in Nat /\ y * BucketMinutes \in Int
      /\ y * BucketMinutes <= j + h /\ j + h < y * BucketMinutes + BucketMinutes
  BY <1>2, BucketBounds
<1> DEFINE last == j >= HourMinutes - h
<1>5. Near(m, j) <=> a - j \in -(BucketMinutes + (IF last THEN h ELSE 0)) + 1 .. BucketMinutes - 1
  BY DEF Near
<1>6. x = IF y < Buckets THEN y ELSE Buckets - 1
  BY DEF BucketRead
<1> HIDE DEF a, h, x, y
<1>7. CASE y < Buckets
  <2>1. x = y
    BY <1>6, <1>7
  <2>2. a - j \in -BucketMinutes + 1 .. BucketMinutes - 1
    BY <1>1, <1>2, <1>3, <1>4, <2>1
  <2> QED
    BY <1>1, <1>2, <1>5, <2>2
<1>8. CASE ~(y < Buckets)
  <2>1. x = Buckets - 1
    BY <1>6, <1>8
  <2>2. Buckets * BucketMinutes <= y * BucketMinutes
    <3>1. Buckets < y \/ Buckets = y
      BY <1>1, <1>4, <1>8
    <3> QED
      BY <1>1, <1>4, <3>1, TimesMonotone
  <2>3. last
    BY <1>1, <1>2, <1>4, <2>2
  <2>4. x * BucketMinutes = HourMinutes - BucketMinutes
    <3>1. x + 1 = Buckets /\ 1 * BucketMinutes = BucketMinutes
      BY <1>1, <1>3, <2>1
    <3>2. (x + 1) * BucketMinutes = x * BucketMinutes + 1 * BucketMinutes
      BY <1>1, <1>3, Distribute
    <3> QED
      BY <1>1, <1>3, <3>1, <3>2
  <2>5. a - j \in -(BucketMinutes + h) + 1 .. BucketMinutes - 1
    BY <1>1, <1>2, <1>3, <2>3, <2>4
  <2> QED
    BY <1>5, <2>3, <2>5
<1> QED
  BY <1>7, <1>8

LEMMA SmallMod ==
  ASSUME NEW b \in Nat \ {0}, NEW a \in 0 .. b - 1
  PROVE  a % b = a
<1>1. a = 0 * b + a /\ a \in Int
  OBVIOUS
<1> QED
  BY <1>1, DivUnique

LEMMA HourFields ==
  ASSUME NEW h \in HourType
  PROVE  /\ h = [half1 |-> h.half1, half2 |-> h.half2, offset |-> h.offset, positions |-> h.positions]
         /\ h.half1 \subseteq 0 .. IntBits - 1 /\ h.half2 \subseteq 0 .. IntBits - 1
         /\ h.offset \in Points /\ h.positions \in [0 .. Buckets - 1 -> Points]
  BY DEF HourType

LEMMA FlagSet ==
  ASSUME NEW h \in HourType, NEW minute \in Int
  PROVE  LET g == SetFlag(h, minute) IN
         /\ g \in HourType /\ g.offset = h.offset /\ g.positions = h.positions
         /\ minute \in 0 .. HourMinutes =>
              \A j \in 0 .. HourMinutes - 1 : GotSignal(g, j) <=> GotSignal(h, j) \/ j = minute
<1> DEFINE g == SetFlag(h, minute)
           low == minute % IntBits
           high == (minute - Half) % IntBits
<1>1. IntBits \in Nat \ {0} /\ Half \in Nat \ {0} /\ HourMinutes = 2 * Half /\ IntBits > Half
  BY Scales
<1>2. low \in 0 .. IntBits - 1 /\ high \in 0 .. IntBits - 1
  <2>1. minute - Half \in Int
    BY <1>1
  <2> QED
    BY <1>1, <2>1, DivMod
<1>3. minute \in 0 .. Half - 1 => low = minute
  <2>1. minute \in 0 .. Half - 1 => minute \in 0 .. IntBits - 1
    BY <1>1
  <2> QED
    BY <1>1, <2>1, SmallMod
<1>4. minute \in Half .. HourMinutes => high = minute - Half
  <2>1. minute \in Half .. HourMinutes => minute - Half \in 0 .. IntBits - 1
    BY <1>1
  <2> DEFINE e == minute - Half
  <2> HIDE DEF e
  <2>2. e \in 0 .. IntBits - 1 => e % IntBits = e
    BY <1>1, SmallMod
  <2> QED
    BY <2>1, <2>2 DEF e
<1> HIDE DEF low, high
<1>5. CASE minute < Half
  <2>1. g = [h EXCEPT !.half1 = @ \cup {low}]
    BY <1>5 DEF SetFlag, low
  <2>2. g = [half1 |-> h.half1 \cup {low}, half2 |-> h.half2, offset |-> h.offset, positions |-> h.positions]
    BY <2>1, HourFields
  <2>3. g \in HourType
    BY <1>2, <2>2, HourFields DEF HourType
  <2>4. ASSUME minute \in 0 .. HourMinutes, NEW j \in 0 .. HourMinutes - 1
        PROVE  GotSignal(g, j) <=> GotSignal(h, j) \/ j = minute
    <3>1. low = minute
      BY <1>1, <1>3, <1>5, <2>4
    <3>2. g.half1 = h.half1 \cup {minute} /\ g.half2 = h.half2
      BY <2>2, <3>1
    <3> HIDE DEF g
    <3>3. CASE j < Half
      BY <3>2, <3>3 DEF GotSignal
    <3>4. CASE ~(j < Half)
      <4>1. j # minute
        BY <1>1, <1>5, <2>4, <3>4
      <4> QED
        BY <3>2, <3>4, <4>1 DEF GotSignal
    <3> QED
      BY <3>3, <3>4
  <2>5. g.offset = h.offset /\ g.positions = h.positions
    BY <2>2
  <2> QED
    BY <2>3, <2>4, <2>5
<1>6. CASE ~(minute < Half)
  <2>1. g = [h EXCEPT !.half2 = @ \cup {high}]
    BY <1>6 DEF SetFlag, high
  <2>2. g = [half1 |-> h.half1, half2 |-> h.half2 \cup {high}, offset |-> h.offset, positions |-> h.positions]
    BY <2>1, HourFields
  <2>3. g \in HourType
    BY <1>2, <2>2, HourFields DEF HourType
  <2>4. ASSUME minute \in 0 .. HourMinutes, NEW j \in 0 .. HourMinutes - 1
        PROVE  GotSignal(g, j) <=> GotSignal(h, j) \/ j = minute
    <3>1. high = minute - Half
      BY <1>1, <1>4, <1>6, <2>4
    <3>2. g.half1 = h.half1 /\ g.half2 = h.half2 \cup {minute - Half}
      BY <2>2, <3>1
    <3> HIDE DEF g
    <3>3. CASE j < Half
      <4>1. j # minute
        BY <1>1, <1>6, <2>4, <3>3
      <4> QED
        BY <3>2, <3>3, <4>1 DEF GotSignal
    <3>4. CASE ~(j < Half)
      <4>1. j - Half = minute - Half <=> j = minute
        BY <1>1, <2>4
      <4> QED
        BY <3>2, <3>4, <4>1 DEF GotSignal
    <3> QED
      BY <3>3, <3>4
  <2>5. g.offset = h.offset /\ g.positions = h.positions
    BY <2>2
  <2> QED
    BY <2>3, <2>4, <2>5
<1> QED
  BY <1>5, <1>6

LEMMA NewHourType ==
  NewHour \in HourType /\ \A b \in 0 .. Buckets - 1 : NewHour.positions[b].x = 0
<1>1. Nowhere \in Points /\ Nowhere.x = 0
  BY DEF Nowhere, Points
<1>2. [b \in 0 .. Buckets - 1 |-> Nowhere] \in [0 .. Buckets - 1 -> Points]
  BY <1>1
<1> QED
  BY <1>1, <1>2 DEF NewHour, HourType

LEMMA NewHourFlags ==
  \A j : ~ GotSignal(NewHour, j)
  BY DEF NewHour, GotSignal

-----------------------------------------------------------------------------
(* The types.                                                               *)

LEMMA HourInFeed ==
  ASSUME NEW t \in Times
  PROVE  t \in Nat /\ t \div TicksPerHour \in 0 .. LastHour /\ FloorDate(t) \in HourStarts
<1> DEFINE q == t \div TicksPerHour
           r == t % TicksPerHour
<1>1. TicksPerHour \in Nat \ {0} /\ LastHour \in Nat
  BY Scales
<1>2. /\ (LastHour + 1) * TicksPerHour \in Int
      /\ t \in Nat /\ t < (LastHour + 1) * TicksPerHour
  BY <1>1 DEF Times
<1>3. q \in Int /\ r \in 0 .. TicksPerHour - 1 /\ t = TicksPerHour * q + r
  BY <1>1, <1>2, DivMod
<1>4. q \in Nat
  BY <1>1, <1>2, DivNat
<1> HIDE DEF q, r
<1>5. TicksPerHour * q = q * TicksPerHour /\ q * TicksPerHour \in Int
  BY <1>1, <1>3
<1>6. (LastHour + 1 < q \/ LastHour + 1 = q) => (LastHour + 1) * TicksPerHour <= q * TicksPerHour
  BY <1>1, <1>3, <1>2, <1>5, TimesMonotone
<1>7. q <= LastHour
  BY <1>1, <1>2, <1>3, <1>4, <1>5, <1>6
<1>8. q \in 0 .. LastHour
  BY <1>1, <1>4, <1>7
<1>9. FloorDate(t) = q * TicksPerHour
  <2>1. t \in Int
    BY <1>2
  <2> QED
    BY <2>1, TimeParts DEF q
<1>10. FloorDate(t) \in HourStarts
  BY <1>8, <1>9 DEF HourStarts
<1> QED
  BY <1>2, <1>8, <1>10 DEF q

LEMMA HourStartIs ==
  ASSUME NEW t \in HourStarts
  PROVE  t \in Nat /\ \E f \in 0 .. LastHour : t = f * TicksPerHour
<1>1. PICK f \in 0 .. LastHour : t = f * TicksPerHour
  BY DEF HourStarts
<1>2. f \in Nat /\ TicksPerHour \in Nat
  BY Scales
<1> QED
  BY <1>1, <1>2

LEMMA HourAtType ==
  ASSUME TypeOK, NEW k
  PROVE  HourAt(k) \in HourType
  BY NewHourType DEF TypeOK, HourAt

LEMMA PositionIsPoint ==
  ASSUME TypeOK
  PROVE  position \in Points
  BY TrackAssumption DEF TypeOK, Points, Nowhere

LEMMA OffsetSet ==
  ASSUME TypeOK, NEW h \in HourType
  PROVE  LET g == SetOffset(h) IN
         /\ g \in HourType /\ g.positions = h.positions
         /\ g.offset = IF h.offset = Nowhere THEN position ELSE h.offset
         /\ g.half1 = h.half1 /\ g.half2 = h.half2
<1> DEFINE g == SetOffset(h)
<1>1. CASE h.offset = Nowhere
  <2>1. g = [h EXCEPT !.offset = position]
    BY <1>1 DEF SetOffset
  <2>2. g = [half1 |-> h.half1, half2 |-> h.half2, offset |-> position, positions |-> h.positions]
    BY <2>1, HourFields
  <2>3. g \in HourType
    BY <2>2, HourFields, PositionIsPoint DEF HourType
  <2> QED
    BY <1>1, <2>2, <2>3
<1>2. CASE h.offset # Nowhere
  BY <1>2 DEF SetOffset
<1> QED
  BY <1>1, <1>2

(* What Register computes.                                                  *)
Since == Quotient(FloorDate(time) - firstMessage, TicksPerHour)
Minute == minutesSince - Since * HourMinutes
Registered == SetOffset(SetFlag(HourAt(Since), Minute))

LEMMA SinceType ==
  ASSUME TypeOK
  PROVE  Since \in HourKeys /\ Since \in Int /\ Minute \in Int
<1>1. time \in Times /\ firstMessage \in HourStarts /\ minutesSince \in Int
  BY DEF TypeOK
<1>2. PICK f \in 0 .. LastHour : firstMessage = f * TicksPerHour
  BY <1>1, HourStartIs
<1>3. time \in Int /\ time \div TicksPerHour \in 0 .. LastHour
  BY <1>1, HourInFeed
<1>4. Since = (time \div TicksPerHour) - f
  <2>1. f \in Int
    BY <1>2
  <2> QED
    BY <1>2, <1>3, <2>1, MinuteRegistered DEF Since, HoursBetween
<1> DEFINE q == time \div TicksPerHour
<1> HIDE DEF q
<1>5. Since = q - f /\ q \in 0 .. LastHour
  BY <1>3, <1>4 DEF q
<1>6. LastHour \in Nat /\ HourMinutes \in Int
  BY Scales
<1>7. Since \in Int /\ Since \in HourKeys
  BY <1>5, <1>6 DEF HourKeys
<1> QED
  BY <1>1, <1>6, <1>7 DEF Minute

LEMMA RegisteredType ==
  ASSUME TypeOK
  PROVE  Registered \in HourType
  BY HourAtType, SinceType, FlagSet, OffsetSet DEF Registered

SpanType == [firstMessage : Int, lastMessage : Int, positions : Seq(Points)]

LEMMA PositionAtType ==
  ASSUME NEW h \in HourType, NEW minute \in Int
  PROVE  PositionAt(h, minute) \in Points
<1> DEFINE d == h.positions[BucketRead(minute)]
<1>1. d \in Points /\ h.offset \in Points
  BY BucketReadType, HourFields
<1>2. PositionAt(h, minute) =
        IF d.x = 0 THEN Nowhere ELSE [x |-> h.offset.x - d.x, y |-> h.offset.y - d.y]
  BY DEF PositionAt, BucketRead
<1> HIDE DEF d
<1> QED
  BY <1>1, <1>2 DEF Points, Nowhere

LEMMA ToIntType ==
  ASSUME NEW n \in Int
  PROVE  ToInt(n) \in Int
<1> DEFINE half == IntSpan \div 2
<1>1. half \in Int /\ IntSpan \in Nat \ {0}
  BY Scales, DivMod
<1>2. (n + half) % IntSpan \in Int
  <2>1. n + half \in Int
    BY <1>1
  <2> HIDE DEF half
  <2> QED
    BY <1>1, <2>1, DivMod
<1>3. ToInt(n) = ((n + half) % IntSpan) - half
  BY DEF ToInt
<1> DEFINE r == (n + half) % IntSpan
<1> HIDE DEF half, r
<1>4. r \in Int /\ ToInt(n) = r - half
  BY <1>2, <1>3 DEF r
<1> QED
  BY <1>1, <1>4

LEMMA NewSpanType ==
  ASSUME TypeOK, NEW current \in Int, NEW p \in Points
  PROVE  /\ SpanTime(current) \in Int /\ NewSpan(current, p) \in SpanType
         /\ NewSpan(current, p).firstMessage = SpanTime(current)
         /\ NewSpan(current, p).lastMessage = SpanTime(current)
<1>1. analysisStarted \in Int
  BY HourStartIs DEF TypeOK, NoTime
<1>2. current * TicksPerMinute \in Int
  BY Scales
<1>3. SpanTime(current) \in Int
  BY <1>1, <1>2, ToIntType DEF SpanTime
<1>4. <<p>> \in Seq(Points)
  OBVIOUS
<1> QED
  BY <1>3, <1>4 DEF NewSpan, SpanType

LEMMA SpanExtended ==
  ASSUME TypeOK, NEW s \in SpanType, NEW current \in Int, NEW p \in Points
  PROVE  LET e == Extend(s, current, p) IN
         e \in SpanType /\ e.firstMessage = s.firstMessage /\ e.lastMessage = SpanTime(current)
<1>1. s.firstMessage \in Int /\ s.positions \in Seq(Points)
  BY DEF SpanType
<1>2. Append(s.positions, p) \in Seq(Points)
  BY <1>1
<1> QED
  BY <1>1, <1>2, NewSpanType DEF SpanType, Extend

(* The spans after a flagged minute.                                        *)
Spans(current, p) == IF result = <<>> THEN <<NewSpan(current, p)>> ELSE result
LEMMA MinuteAdded ==
  ASSUME TypeOK, NEW current \in Int, NEW p \in Points, AddMinute(current, p)
  PROVE  LET spans == Spans(current, p)
             n == Len(spans)
         IN /\ result' \in Seq(SpanType) /\ previousMinute' = current
            /\ spans \in Seq(SpanType) /\ n \in Nat \ {0}
            /\ \/ /\ WithinMargin(current, previousMinute)
                  /\ Len(result') = n
                  /\ \A i \in 1 .. n : i # n => result'[i] = spans[i]
                  /\ result'[n].firstMessage = spans[n].firstMessage
                  /\ result'[n].lastMessage = SpanTime(current)
               \/ /\ ~WithinMargin(current, previousMinute)
                  /\ Len(result') = n + 1
                  /\ \A i \in 1 .. n : result'[i] = spans[i]
                  /\ result'[n + 1] = NewSpan(current, p)
<1> DEFINE spans == Spans(current, p)
           n == Len(spans)
<1>1. result \in Seq(SpanType) /\ NewSpan(current, p) \in SpanType /\ SpanTime(current) \in Int
  BY NewSpanType DEF TypeOK, SpanType
<1>2. spans \in Seq(SpanType) /\ n \in Nat \ {0}
  <2>1. CASE result = <<>>
    BY <1>1, <2>1 DEF Spans
  <2>2. CASE result # <<>>
    BY <1>1, <2>2 DEF Spans
  <2> QED
    BY <2>1, <2>2
<1>3. spans[n] \in SpanType
  BY <1>2
<1> DEFINE e == Extend(spans[n], current, p)
<1>4. /\ result' = IF WithinMargin(current, previousMinute) THEN [spans EXCEPT ![n] = e]
                  ELSE Append(spans, NewSpan(current, p))
      /\ previousMinute' = current
  BY DEF AddMinute, Spans
<1> HIDE DEF spans
<1>5. /\ e \in SpanType
      /\ e.firstMessage = spans[n].firstMessage /\ e.lastMessage = SpanTime(current)
  BY <1>1, <1>3, SpanExtended
<1> HIDE DEF e
<1> DEFINE Extended ==
             /\ WithinMargin(current, previousMinute)
             /\ Len(result') = n
             /\ \A i \in 1 .. n : i # n => result'[i] = spans[i]
             /\ result'[n].firstMessage = spans[n].firstMessage
             /\ result'[n].lastMessage = SpanTime(current)
           Appended ==
             /\ ~WithinMargin(current, previousMinute)
             /\ Len(result') = n + 1
             /\ \A i \in 1 .. n : result'[i] = spans[i]
             /\ result'[n + 1] = NewSpan(current, p)
<1>6. ASSUME WithinMargin(current, previousMinute)
      PROVE  result' \in Seq(SpanType) /\ Extended
  <2>1. result' = [spans EXCEPT ![n] = e]
    BY <1>4, <1>6
  <2>2. /\ result' \in Seq(SpanType) /\ Len(result') = n /\ result'[n] = e
        /\ \A i \in 1 .. n : i # n => result'[i] = spans[i]
    BY <1>2, <1>5, <2>1
  <2> QED
    BY <1>5, <1>6, <2>2
<1>7. ASSUME ~WithinMargin(current, previousMinute)
      PROVE  result' \in Seq(SpanType) /\ Appended
  <2>1. result' = Append(spans, NewSpan(current, p))
    BY <1>4, <1>7
  <2>2. /\ result' \in Seq(SpanType) /\ Len(result') = n + 1 /\ result'[n + 1] = NewSpan(current, p)
        /\ \A i \in 1 .. n : result'[i] = spans[i]
    BY <1>1, <1>2, <2>1
  <2> QED
    BY <1>7, <2>2
<1>8. /\ result' \in Seq(SpanType) /\ previousMinute' = current
      /\ spans \in Seq(SpanType) /\ n \in Nat \ {0}
      /\ Extended \/ Appended
  BY <1>2, <1>4, <1>6, <1>7
<1> QED
  BY <1>8 DEF spans

(* What StorePosition stores.                                               *)
StoredIn(h) == [h EXCEPT !.positions[Bucket(minutesOffset)] = Distance(h.offset)]
LEMMA PositionStored ==
  ASSUME TypeOK, NEW h \in HourType, Bucket(minutesOffset) < Buckets
  PROVE  LET g == StoredIn(h) IN
         /\ g \in HourType /\ g.half1 = h.half1 /\ g.half2 = h.half2 /\ g.offset = h.offset
         /\ g.positions[Bucket(minutesOffset)] = Distance(h.offset)
         /\ \A b \in 0 .. Buckets - 1 : b # Bucket(minutesOffset) => g.positions[b] = h.positions[b]
<1> DEFINE g == StoredIn(h)
           c == Bucket(minutesOffset)
           d == Distance(h.offset)
<1>1. c \in 0 .. Buckets - 1
  <2>1. c \in Nat
    BY BucketType DEF TypeOK
  <2> QED
    BY <2>1, Scales
<1>2. d \in Points
  BY HourFields, PositionIsPoint DEF Distance, Points
<1> HIDE DEF c, d
<1>3. g = [half1 |-> h.half1, half2 |-> h.half2, offset |-> h.offset,
           positions |-> [h.positions EXCEPT ![c] = d]]
  BY HourFields DEF StoredIn, c, d
<1>4. [h.positions EXCEPT ![c] = d] \in [0 .. Buckets - 1 -> Points]
  BY <1>2, HourFields
<1>5. g \in HourType
  BY <1>3, <1>4, HourFields DEF HourType
<1> HIDE DEF g
<1>6. g.positions[c] = d /\ \A b \in 0 .. Buckets - 1 : b # c => g.positions[b] = h.positions[b]
  <2>1. g.positions = [h.positions EXCEPT ![c] = d]
    BY <1>3
  <2>2. h.positions \in [0 .. Buckets - 1 -> Points]
    BY HourFields
  <2> QED
    BY <1>1, <2>1, <2>2
<1>7. g.half1 = h.half1 /\ g.half2 = h.half2 /\ g.offset = h.offset
  BY <1>3
<1> QED
  BY <1>5, <1>6, <1>7 DEF c, d, g

LEMMA InitTypes == Init => TypeOK
<1> SUFFICES ASSUME Init PROVE TypeOK
  OBVIOUS
<1> USE DEF Init
<1>1. HourMinutes \in Nat \ {0} /\ LastHour \in Nat /\ TicksPerHour \in Nat \ {0}
  BY Scales
<1>2. 0 \in HourKeys /\ 0 \in Times
  <2>1. (LastHour + 1) * TicksPerHour \in Nat \ {0}
    <3>1. ASSUME NEW a \in Nat \ {0}, NEW b \in Nat \ {0} PROVE a * b \in Nat \ {0}
      OBVIOUS
    <3> QED
      BY <1>1, <3>1
  <2> QED
    BY <1>1, <2>1 DEF HourKeys, Times
<1>3. DOMAIN hours = {}
  OBVIOUS
<1>4. HourMinutes \in 0 .. HourMinutes /\ ~(HourMinutes < HourMinutes)
  BY <1>1
<1>5. 0 \in 0 .. MaxMessages /\ 0 \in 0 .. MaxTrims /\ 0 \in 0 .. MaxQueries
  BY TrackAssumption
<1> QED
  <2>1. <<>> \in Seq([firstMessage : Int, lastMessage : Int, positions : Seq(Points)])
    OBVIOUS
  <2>2. /\ DOMAIN hours \subseteq HourKeys /\ \A k \in DOMAIN hours : hours[k] \in HourType
        /\ regPc = "idle" /\ heard \subseteq Messages /\ before \subseteq heard /\ torn \in BOOLEAN
    BY <1>3
  <2>3. /\ 0 \in Int /\ -1 \in Int /\ analysisStarted = NoTime
        /\ firstMessage \in HourStarts
    OBVIOUS
  <2>4. result = <<>> /\ previousMinute = -1 /\ position = Nowhere /\ queryPc = "idle"
    OBVIOUS
  <2> QED
    BY <1>2, <1>4, <1>5, <2>1, <2>2, <2>3, <2>4 DEF TypeOK

LEMMA ReturnTypes ==
  ASSUME TypeOK, Return
  PROVE  /\ regPc' = "idle" /\ time' \in Times /\ position' = Nowhere
         /\ minutesSince' \in Int /\ minutesOffset' \in Int /\ hoursSince' \in HourKeys
<1>1. 0 \in Times /\ 0 \in HourKeys
  <2>1. time \in Times
    BY DEF TypeOK
  <2>2. LastHour \in Nat /\ (LastHour + 1) * TicksPerHour \in Int
    BY Scales
  <2> QED
    BY <2>1, <2>2 DEF Times, HourKeys
<1> QED
  BY <1>1 DEF Return

LEMMA CalculateTypes ==
  ASSUME TypeOK, NEW t \in Timestamps, NEW p \in Positions, Calculate(t, p)
  PROVE  TypeOK'
<1>1. t \in Times
  BY TrackAssumption
<1>2. FloorDate(t) \in HourStarts /\ t \in Int
  BY <1>1, HourInFeed
<1>3. minutesSince' \in Int
  <2>1. firstMessage \in Int
    BY HourStartIs DEF TypeOK
  <2>2. t - firstMessage \in Int
    BY <1>2, <2>1
  <2> QED
    BY <2>2, Scales, QuotientType DEF Calculate
<1>4. messages' \in 0 .. MaxMessages
  BY TrackAssumption DEF TypeOK, Calculate
<1> QED
  BY <1>1, <1>2, <1>3, <1>4 DEF TypeOK, Calculate, helperVars, queryVars

LEMMA RegisterIs ==
  ASSUME Register
  PROVE  /\ regPc = "register" /\ UNCHANGED <<helperVars, queryVars, messages, trims, queries>>
         /\ \/ /\ minutesSince < 0 /\ Return /\ UNCHANGED <<hours, heard, torn>>
            \/ /\ ~(minutesSince < 0)
               /\ hoursSince' = Since /\ minutesOffset' = Minute
               /\ hours' = WithHour(Since, Registered)
               /\ DOMAIN hours' = DOMAIN hours \cup {Since} /\ hours'[Since] = Registered
               /\ \A i \in DOMAIN hours : i # Since => hours'[i] = hours[i]
               /\ heard' = heard \cup {[time |-> time, position |-> position]}
               /\ torn' = (torn \/ minutesSince # MinutesSinceFirst)
               /\ regPc' = "position"
               /\ UNCHANGED <<time, position, minutesSince>>
<1>1. regPc = "register" /\ UNCHANGED <<helperVars, queryVars, messages, trims, queries>>
  BY DEF Register
<1>2. CASE minutesSince < 0
  BY <1>1, <1>2 DEF Register
<1>3. CASE ~(minutesSince < 0)
  <2>1. /\ hoursSince' = Since /\ minutesOffset' = Minute
        /\ hours' = WithHour(Since, Registered)
        /\ heard' = heard \cup {[time |-> time, position |-> position]}
        /\ torn' = (torn \/ minutesSince # MinutesSinceFirst)
        /\ regPc' = "position" /\ regPc = "register"
        /\ UNCHANGED <<time, position, minutesSince>>
    BY <1>3 DEF Register, Since, Minute, Registered
  <2> DEFINE k == Since
             h == Registered
  <2>2. /\ DOMAIN hours' = DOMAIN hours \cup {Since} /\ hours'[Since] = Registered
        /\ \A i \in DOMAIN hours : i # Since => hours'[i] = hours[i]
    <3>1. hours' = WithHour(k, h)
      BY <2>1
    <3> HIDE DEF k, h
    <3>2. /\ DOMAIN hours' = DOMAIN hours \cup {k} /\ hours'[k] = h
          /\ \A i \in DOMAIN hours : i # k => hours'[i] = hours[i]
      BY <3>1 DEF WithHour
    <3> QED
      BY <3>2 DEF k, h
  <2> QED
    BY <1>1, <1>3, <2>1, <2>2
<1> QED
  BY <1>2, <1>3

LEMMA RegisterTypes ==
  ASSUME TypeOK, Registering, Register
  PROVE  TypeOK'
<1>1. UNCHANGED <<helperVars, queryVars, messages, trims, queries>>
  BY RegisterIs
<1>2. CASE minutesSince < 0
  <2>1. Return /\ UNCHANGED <<hours, heard, torn>>
    BY <1>2, RegisterIs
  <2> QED
    BY <1>1, <2>1, ReturnTypes DEF TypeOK, helperVars, queryVars
<1>3. CASE ~(minutesSince < 0)
  <2>1. /\ hoursSince' = Since /\ minutesOffset' = Minute
        /\ DOMAIN hours' = DOMAIN hours \cup {Since} /\ hours'[Since] = Registered
        /\ \A i \in DOMAIN hours : i # Since => hours'[i] = hours[i]
        /\ heard' = heard \cup {[time |-> time, position |-> position]}
        /\ torn' = (torn \/ minutesSince # MinutesSinceFirst)
        /\ regPc' = "position" /\ regPc = "register"
        /\ UNCHANGED <<time, position, minutesSince>>
    BY <1>3, RegisterIs
  <2>2. DOMAIN hours' \subseteq HourKeys /\ \A i \in DOMAIN hours' : hours'[i] \in HourType
    BY <2>1, SinceType, RegisteredType DEF TypeOK
  <2>3. torn' \in BOOLEAN
    BY <2>1 DEF TypeOK
  <2>4. /\ hoursSince' \in HourKeys /\ hoursSince' \in DOMAIN hours' /\ minutesOffset' \in Int
        /\ minutesSince' \in Int /\ time' \in Times
    BY <2>1, SinceType DEF TypeOK
  <2>5. position \in Positions /\ position' = position
    BY <2>1 DEF Registering
  <2>6. heard' \subseteq Messages /\ before' \subseteq heard'
    BY <1>1, <2>1, <2>5 DEF TypeOK, Messages, queryVars
  <2> QED
    BY <1>1, <2>1, <2>2, <2>3, <2>4, <2>5, <2>6 DEF TypeOK, helperVars, queryVars
<1> QED
  BY <1>2, <1>3

LEMMA StoreIs ==
  ASSUME TypeOK, StorePosition
  PROVE  /\ regPc = "position" /\ hoursSince \in DOMAIN hours /\ Return
         /\ UNCHANGED <<helperVars, queryVars, messages, trims, queries, heard, torn>>
         /\ DOMAIN hours' = DOMAIN hours
         /\ \A k \in DOMAIN hours :
              hours'[k] = IF k = hoursSince /\ Bucket(minutesOffset) < Buckets
                          THEN StoredIn(hours[k]) ELSE hours[k]
<1>1. /\ regPc = "position" /\ hoursSince \in DOMAIN hours /\ Return
      /\ UNCHANGED <<helperVars, queryVars, messages, trims, queries, heard, torn>>
  BY DEF StorePosition, TypeOK
<1> DEFINE g == StoredIn(hours[hoursSince])
           small == Bucket(minutesOffset) < Buckets
<1>2. hours' = IF small THEN WithHour(hoursSince, g) ELSE hours
  BY DEF StorePosition, StoredIn
<1> HIDE DEF g, small
<1>3. DOMAIN hours' = DOMAIN hours
  BY <1>1, <1>2 DEF WithHour
<1>4. \A k \in DOMAIN hours : hours'[k] = IF k = hoursSince /\ small THEN g ELSE hours[k]
  BY <1>1, <1>2 DEF WithHour
<1> QED
  BY <1>1, <1>3, <1>4 DEF g, small

LEMMA StoreTypes ==
  ASSUME TypeOK, StorePosition
  PROVE  TypeOK'
<1>1. /\ Return /\ UNCHANGED <<helperVars, queryVars, messages, trims, queries, heard, torn>>
      /\ DOMAIN hours' = DOMAIN hours
  BY StoreIs
<1>2. \A k \in DOMAIN hours : hours'[k] \in HourType
  <2> TAKE k \in DOMAIN hours
  <2>1. hours[k] \in HourType
    BY DEF TypeOK
  <2>2. hours'[k] = IF k = hoursSince /\ Bucket(minutesOffset) < Buckets
                    THEN StoredIn(hours[k]) ELSE hours[k]
    BY StoreIs
  <2> QED
    BY <2>1, <2>2, PositionStored
<1> QED
  BY <1>1, <1>2, ReturnTypes DEF TypeOK, helperVars, queryVars

(* The minute that is read next.                                            *)
Current == nextHour * HourMinutes + nextMinute
PositionRead == PositionAt(hours[nextHour], nextMinute)

LEMMA ReadMinuteIs ==
  ASSUME TypeOK, ReadMinute
  PROVE  /\ Current \in Int /\ PositionRead \in Points
         /\ nextHour \in DOMAIN hours /\ nextHour < endHour /\ nextMinute \in 0 .. HourMinutes - 1
         /\ UNCHANGED <<helperVars, hours, regVars, queryPc, startHour, endHour, before,
                        messages, trims, queries, heard, torn>>
         /\ nextMinute' = nextMinute + 1
         /\ nextHour' = IF nextMinute + 1 = HourMinutes THEN nextHour + 1 ELSE nextHour
         /\ queryPc = "reading"
         /\ IF GotSignal(hours[nextHour], nextMinute) THEN AddMinute(Current, PositionRead)
            ELSE UNCHANGED <<result, previousMinute>>
<1>1. /\ nextHour \in DOMAIN hours /\ nextHour < endHour /\ nextMinute \in 0 .. HourMinutes - 1
      /\ nextHour \in Int
  BY Scales DEF TypeOK, ReadMinute, HourKeys
<1>2. Current \in Int
  BY <1>1, Scales DEF Current
<1>3. PositionRead \in Points
  BY <1>1, PositionAtType DEF TypeOK, PositionRead
<1> QED
  BY <1>1, <1>2, <1>3 DEF ReadMinute, Current, PositionRead

LEMMA ReadMinuteTypes ==
  ASSUME TypeOK, ReadMinute
  PROVE  TypeOK'
<1>1. /\ nextHour \in DOMAIN hours /\ nextHour < endHour /\ nextMinute \in 0 .. HourMinutes - 1
      /\ UNCHANGED <<helperVars, hours, regVars, queryPc, startHour, endHour, before,
                     messages, trims, queries, heard, torn>>
      /\ nextMinute' = nextMinute + 1
      /\ nextHour' = IF nextMinute + 1 = HourMinutes THEN nextHour + 1 ELSE nextHour
  BY ReadMinuteIs
<1>2. result' \in Seq(SpanType) /\ previousMinute' \in Int
  <2>1. CASE GotSignal(hours[nextHour], nextMinute)
    BY <2>1, ReadMinuteIs, MinuteAdded
  <2>2. CASE ~GotSignal(hours[nextHour], nextMinute)
    BY <2>2, ReadMinuteIs DEF TypeOK, SpanType
  <2> QED
    BY <2>1, <2>2
<1>3. /\ nextHour' \in HourKeys /\ nextMinute' \in 0 .. HourMinutes
      /\ (nextMinute' < HourMinutes => nextHour' \in DOMAIN hours /\ nextHour' < endHour)
  BY <1>1, Scales DEF TypeOK, HourKeys
<1>4. result' \in Seq([firstMessage : Int, lastMessage : Int, positions : Seq(Points)])
  BY <1>2 DEF SpanType
<1> QED
  BY <1>1, <1>2, <1>3, <1>4 DEF TypeOK, helperVars, regVars

LEMMA StartQueryTypes ==
  ASSUME TypeOK, NEW from \in Requested, NEW to \in Requested, StartQuery(from, to)
  PROVE  TypeOK'
<1>1. from \in HourKeys /\ to \in HourKeys
  BY TrackAssumption
<1>2. HourMinutes \in 0 .. HourMinutes /\ ~(HourMinutes < HourMinutes)
  BY Scales
<1>3. <<>> \in Seq([firstMessage : Int, lastMessage : Int, positions : Seq(Points)])
  OBVIOUS
<1>4. queries' \in 0 .. MaxQueries
  BY TrackAssumption DEF TypeOK, StartQuery
<1> QED
  BY <1>1, <1>2, <1>3, <1>4 DEF TypeOK, StartQuery, helperVars, regVars

LEMMA NextTypes ==
  ASSUME TypeOK, Registering, [Next]_vars
  PROVE  TypeOK'
<1>1. ASSUME NEW t \in Timestamps, NEW p \in Positions, Calculate(t, p) PROVE TypeOK'
  BY <1>1, CalculateTypes
<1>2. CASE Register
  BY <1>2, RegisterTypes
<1>3. CASE StorePosition
  BY <1>3, StoreTypes
<1>4. ASSUME NEW h \in HourStarts, Trim(h) PROVE TypeOK'
  <2>1. trims' \in 0 .. MaxTrims
    BY <1>4, TrackAssumption DEF TypeOK, Trim
  <2> QED
    BY <1>4, <2>1 DEF TypeOK, Trim, regVars, queryVars
<1>5. ASSUME NEW from \in Requested, NEW to \in Requested, StartQuery(from, to) PROVE TypeOK'
  BY <1>5, StartQueryTypes
<1>6. CASE ReadHour
  <2>1. nextHour \in HourKeys /\ endHour \in HourKeys /\ nextHour < endHour /\ nextMinute = HourMinutes
    BY <1>6 DEF TypeOK, ReadHour
  <2>2. /\ nextHour' \in HourKeys /\ nextMinute' \in 0 .. HourMinutes
        /\ (nextMinute' < HourMinutes => nextHour' \in DOMAIN hours /\ nextHour' < endHour)
    BY <1>6, <2>1, Scales DEF ReadHour, HourKeys
  <2> QED
    BY <1>6, <2>2 DEF TypeOK, ReadHour, helperVars, regVars
<1>7. CASE ReadMinute
  BY <1>7, ReadMinuteTypes
<1>8. CASE Answer
  BY <1>8 DEF TypeOK, Answer, helperVars, regVars
<1>9. CASE UNCHANGED vars
  BY <1>9 DEF TypeOK, vars, helperVars, regVars, queryVars
<1> QED
  BY <1>1, <1>2, <1>3, <1>4, <1>5, <1>6, <1>7, <1>8, <1>9 DEF Next, Quiescent

LEMMA RegisteringKept ==
  /\ Init => Registering
  /\ Registering /\ [Next]_vars => Registering'
<1>1. Init => Registering
  BY DEF Init, Registering
<1>2. ASSUME Registering, [Next]_vars PROVE Registering'
  <2>1. ASSUME NEW t \in Timestamps, NEW p \in Positions, Calculate(t, p) PROVE Registering'
    BY <2>1 DEF Calculate, Registering
  <2>2. CASE Register
    BY <1>2, <2>2, RegisterIs DEF Registering, Return
  <2>3. CASE StorePosition
    BY <2>3 DEF StorePosition, Registering, Return
  <2>4. ASSUME UNCHANGED regVars PROVE Registering'
    BY <1>2, <2>4 DEF Registering, regVars
  <2>5. ASSUME NEW h \in HourStarts, Trim(h) PROVE UNCHANGED regVars
    BY <2>5 DEF Trim
  <2>6. ASSUME NEW from \in Requested, NEW to \in Requested, StartQuery(from, to) PROVE UNCHANGED regVars
    BY <2>6 DEF StartQuery
  <2>7. ReadHour \/ ReadMinute \/ Answer \/ UNCHANGED vars => UNCHANGED regVars
    BY DEF ReadHour, ReadMinute, Answer, vars
  <2> QED
    BY <1>2, <2>1, <2>2, <2>3, <2>4, <2>5, <2>6, <2>7 DEF Next, Quiescent
<1> QED
  BY <1>1, <1>2

(* TypeOK: the entries of a ship's history, the state of registerMessage and *)
(* of a request, and the answer are always well-formed; no hour is stored    *)
(* outside the feed's hours, and a request only reads hours that exist.      *)
THEOREM TypeCorrect == Spec => []TypeOK
<1>1. Init => TypeOK /\ Registering
  BY InitTypes, RegisteringKept
<1>2. TypeOK /\ Registering /\ [Next]_vars => (TypeOK /\ Registering)'
  BY NextTypes, RegisteringKept
<1> QED
  BY <1>1, <1>2, PTL DEF Spec

-----------------------------------------------------------------------------
(* The hours are true.                                                      *)

LEMMA MinutesBetween ==
  ASSUME TypeOK
  PROVE  /\ Since \in Int /\ MinuteOf(time) \in 0 .. HourMinutes - 1
         /\ FloorDate(time) = firstMessage + Since * TicksPerHour
         /\ firstMessage <= time <=> Since >= 0
         /\ Since >= 0 => MinutesSinceFirst >= 0 /\ MinutesSinceFirst - Since * HourMinutes = MinuteOf(time)
         /\ MinutesSinceFirst >= 0 /\ Since < 0 => MinutesSinceFirst - Since * HourMinutes = HourMinutes
<1>1. PICK f \in 0 .. LastHour : firstMessage = f * TicksPerHour
  BY HourStartIs DEF TypeOK
<1>2. f \in Int /\ time \in Int
  BY HourInFeed DEF TypeOK
<1>3. MinuteOf(time) \in 0 .. HourMinutes - 1
  BY <1>2, TimeParts
<1> DEFINE since == HoursBetween(time, firstMessage)
           minutes == MinutesSince(time, firstMessage)
<1>4. /\ since \in Int /\ FloorDate(time) = firstMessage + since * TicksPerHour
      /\ (firstMessage <= time) <=> (since >= 0)
      /\ since >= 0 => minutes >= 0 /\ minutes - since * HourMinutes = MinuteOf(time)
      /\ minutes >= 0 /\ since < 0 => minutes - since * HourMinutes = HourMinutes
  BY <1>1, <1>2, MinuteRegistered
<1> HIDE DEF since, minutes
<1>5. since = Since /\ minutes = MinutesSinceFirst
  BY DEF since, minutes, Since, MinutesSinceFirst, HoursBetween, MinutesSince
<1> QED
  BY <1>3, <1>4, <1>5

(* A message that is registered while firstMessage stands still.            *)
LEMMA HourRegistered ==
  ASSUME TypeOK, Register, ~(minutesSince < 0), ~torn'
  PROVE  /\ ~torn /\ minutesSince = MinutesSinceFirst
         /\ Minute \in 0 .. HourMinutes /\ Minute \in {MinuteOf(time), HourMinutes}
         /\ Since >= 0 => Minute = MinuteOf(time)
         /\ Minute \in 0 .. HourMinutes - 1 => Since \in Nat
         /\ \A j \in 0 .. HourMinutes - 1 :
              GotSignal(hours'[Since], j) <=> GotSignal(HourAt(Since), j) \/ j = Minute
<1>1. ~torn /\ minutesSince = MinutesSinceFirst /\ hours'[Since] = Registered
  BY RegisterIs
<1>2. minutesSince \in Int /\ HourMinutes \in Nat \ {0}
  BY Scales DEF TypeOK
<1>3. /\ Since >= 0 => Minute = MinuteOf(time)
      /\ Since < 0 => Minute = HourMinutes
  BY <1>1, <1>2, MinutesBetween DEF Minute
<1>4. Since >= 0 \/ Since < 0
  BY MinutesBetween
<1>5. Minute \in 0 .. HourMinutes /\ Minute \in {MinuteOf(time), HourMinutes}
  BY <1>2, <1>3, <1>4, MinutesBetween
<1>6. Minute \in 0 .. HourMinutes - 1 => Since \in Nat
  BY <1>2, <1>3, <1>4, MinutesBetween
<1>7. ASSUME NEW j \in 0 .. HourMinutes - 1
      PROVE  GotSignal(hours'[Since], j) <=> GotSignal(HourAt(Since), j) \/ j = Minute
  <2> DEFINE h == HourAt(Since)
             g == SetFlag(h, Minute)
  <2>1. h \in HourType /\ Minute \in Int
    BY HourAtType, SinceType
  <2>2. g \in HourType /\ (GotSignal(g, j) <=> GotSignal(h, j) \/ j = Minute)
    <3> HIDE DEF h
    <3> QED
      BY <1>5, <2>1, FlagSet
  <2>3. Registered = SetOffset(g)
    BY DEF Registered
  <2> HIDE DEF g, h
  <2>4. Registered.half1 = g.half1 /\ Registered.half2 = g.half2
    BY <2>2, <2>3, OffsetSet
  <2>5. GotSignal(Registered, j) <=> GotSignal(g, j)
    BY <2>4 DEF GotSignal
  <2> QED
    BY <1>1, <2>2, <2>5 DEF h
<1> QED
  BY <1>1, <1>3, <1>5, <1>6, <1>7

LEMMA HourOffset ==
  ASSUME TypeOK, Registering, PositionsAreSomewhere, OffsetsAreSet, regPc = "register"
  PROVE  /\ Registered.offset # Nowhere /\ Registered.positions = HourAt(Since).positions
         /\ Since \in DOMAIN hours => Registered.offset = hours[Since].offset
<1> DEFINE h == HourAt(Since)
           g == SetFlag(h, Minute)
<1>1. h \in HourType /\ Minute \in Int
  BY HourAtType, SinceType
<1>2. g \in HourType /\ g.offset = h.offset /\ g.positions = h.positions
  <2> HIDE DEF h
  <2> QED
    BY <1>1, FlagSet
<1>3. Registered = SetOffset(g)
  BY DEF Registered
<1>4. Since \in DOMAIN hours => h = hours[Since] /\ h.offset # Nowhere
  BY DEF HourAt, OffsetsAreSet
<1>5. position # Nowhere
  BY DEF Registering, PositionsAreSomewhere
<1> HIDE DEF g, h
<1>6. /\ Registered.positions = h.positions
      /\ Registered.offset = IF h.offset = Nowhere THEN position ELSE h.offset
  BY <1>2, <1>3, OffsetSet
<1> QED
  BY <1>4, <1>5, <1>6 DEF h

LEMMA RegisterFlagged ==
  ASSUME TypeOK, Flagged, Register
  PROVE  Flagged'
<1>1. regPc = "register" /\ UNCHANGED <<firstMessage, trims>>
  BY RegisterIs DEF helperVars
<1>2. CASE minutesSince < 0
  <2>1. UNCHANGED <<hours, heard, torn>>
    BY <1>2, RegisterIs
  <2> QED
    BY <1>1, <2>1 DEF Flagged, InHour
<1>3. CASE ~(minutesSince < 0)
  <2> DEFINE k == Since
             msg == [time |-> time, position |-> position]
  <2>1. /\ DOMAIN hours' = DOMAIN hours \cup {k}
        /\ \A i \in DOMAIN hours : i # k => hours'[i] = hours[i]
        /\ heard' = heard \cup {msg}
    BY <1>3, RegisterIs
  <2>2. ASSUME ~torn', NEW i \in DOMAIN hours', NEW j \in 0 .. HourMinutes - 1, GotSignal(hours'[i], j)
        PROVE  \E m \in heard' : MinuteOf(m.time) = j /\ (trims = 0 => InHour(m, i))
    <3>1. ~torn
      BY <1>3, <2>2, HourRegistered
    <3>2. CASE i \in DOMAIN hours /\ GotSignal(hours[i], j)
      <4>1. PICK m \in heard : MinuteOf(m.time) = j /\ (trims = 0 => InHour(m, i))
        BY <3>1, <3>2 DEF Flagged
      <4> QED
        BY <2>1, <4>1
    <3>3. CASE ~(i \in DOMAIN hours /\ GotSignal(hours[i], j))
      <4>1. i = k
        BY <2>1, <2>2, <3>3
      <4>2. ~GotSignal(HourAt(k), j)
        BY <3>3, <4>1, NewHourFlags DEF HourAt
      <4>3. j = Minute
        BY <1>3, <2>2, <4>1, <4>2, HourRegistered
      <4>4. k \in Nat /\ j = MinuteOf(time)
        BY <1>3, <2>2, <4>3, HourRegistered
      <4>5. InHour(msg, k)
        BY <4>4, MinutesBetween DEF InHour
      <4> QED
        BY <2>1, <4>1, <4>4, <4>5
    <3> QED
      BY <3>2, <3>3
  <2> QED
    BY <1>1, <2>2 DEF Flagged, InHour
<1> QED
  BY <1>2, <1>3

LEMMA RegisterHours ==
  ASSUME TypeOK, PositionsAreSomewhere, HoursInv, Register
  PROVE  HoursInv'
<1> USE DEF HoursInv
<1>1. regPc = "register" /\ UNCHANGED <<firstMessage, trims>>
  BY RegisterIs DEF helperVars
<1>2. Registering'
  BY RegisterIs DEF Registering, Return
<1>3. CASE minutesSince < 0
  <2>1. Return /\ UNCHANGED <<hours, heard, torn>>
    BY <1>3, RegisterIs
  <2>2. OffsetsAreSet' /\ Stored' /\ Pending'
    BY <2>1 DEF OffsetsAreSet, Stored, Pending, Return
  <2>3. Flagged'
    BY RegisterFlagged
  <2> QED
    BY <1>2, <2>2, <2>3
<1>4. CASE ~(minutesSince < 0)
  <2> DEFINE k == Since
             msg == [time |-> time, position |-> position]
  <2>1. /\ hoursSince' = k /\ minutesOffset' = Minute
        /\ DOMAIN hours' = DOMAIN hours \cup {k} /\ hours'[k] = Registered
        /\ \A i \in DOMAIN hours : i # k => hours'[i] = hours[i]
        /\ heard' = heard \cup {msg}
        /\ regPc' = "position" /\ UNCHANGED <<time, position>>
    BY <1>4, RegisterIs
  <2>2. /\ Registered.offset # Nowhere /\ Registered.positions = HourAt(k).positions
        /\ k \in DOMAIN hours => Registered.offset = hours[k].offset
    BY <1>1, HourOffset
  <2>3. OffsetsAreSet'
    BY <2>1, <2>2 DEF OffsetsAreSet
  <2>4. Pending'
    <3> SUFFICES ASSUME ~torn' PROVE msg \in heard' /\ Minute \in {MinuteOf(time), HourMinutes}
      BY <2>1 DEF Pending
    <3> QED
      BY <1>4, <2>1, HourRegistered
  <2>6. Flagged'
    BY RegisterFlagged
  <2>7. Stored'
    <3> SUFFICES ASSUME ~torn', NEW i \in DOMAIN hours', NEW b \in 0 .. Buckets - 1,
                        hours'[i].positions[b].x # 0
                 PROVE  \E m \in heard' :
                          /\ Bucket(MinuteOf(m.time)) = b
                          /\ ShownAs(Shown(hours'[i], hours'[i].positions[b]), m.position, hours'[i].offset)
      BY DEF Stored
    <3>1. ~torn
      BY <1>4, HourRegistered
    <3>2. i \in DOMAIN hours /\ hours'[i].positions = hours[i].positions /\ hours'[i].offset = hours[i].offset
      <4>1. CASE i = k
        <5>1. k \in DOMAIN hours
          <6>1. k \notin DOMAIN hours => HourAt(k) = NewHour
            BY DEF HourAt
          <6> QED
            BY <2>1, <2>2, <4>1, <6>1, NewHourType
        <5> QED
          BY <2>1, <2>2, <4>1, <5>1 DEF HourAt
      <4>2. CASE i # k
        BY <2>1, <4>2
      <4> QED
        BY <4>1, <4>2
    <3>3. PICK m \in heard : /\ Bucket(MinuteOf(m.time)) = b
                             /\ ShownAs(Shown(hours[i], hours[i].positions[b]), m.position, hours[i].offset)
      BY <3>1, <3>2 DEF Stored
    <3>4. Shown(hours[i], hours[i].positions[b]) = Shown(hours'[i], hours'[i].positions[b])
      BY <3>2 DEF Shown
    <3> QED
      BY <2>1, <3>2, <3>3, <3>4
  <2> QED
    BY <1>2, <2>3, <2>4, <2>6, <2>7
<1> QED
  BY <1>3, <1>4

LEMMA DistanceShown ==
  ASSUME TypeOK, NEW h \in HourType
  PROVE  ShownAs(Shown(h, Distance(h.offset)), position, h.offset)
<1>1. h.offset \in Points /\ position \in Points
  BY HourFields, PositionIsPoint
<1> QED
  BY <1>1 DEF ShownAs, Shown, Distance, Points

LEMMA StoredHour ==
  ASSUME TypeOK, StorePosition, NEW k \in DOMAIN hours
  PROVE  LET c == Bucket(minutesOffset) IN
         /\ hours[k] \in HourType
         /\ hours'[k].half1 = hours[k].half1 /\ hours'[k].half2 = hours[k].half2
         /\ \A j : GotSignal(hours'[k], j) <=> GotSignal(hours[k], j)
         /\ hours'[k].offset = hours[k].offset
         /\ \A b \in 0 .. Buckets - 1 :
              \/ hours'[k].positions[b] = hours[k].positions[b]
              \/ /\ b = c /\ c < Buckets /\ k = hoursSince
                 /\ hours'[k].positions[b] = Distance(hours[k].offset)
<1> DEFINE c == Bucket(minutesOffset)
<1>1. hours[k] \in HourType
  BY DEF TypeOK
<1>2. hours'[k] = IF k = hoursSince /\ c < Buckets THEN StoredIn(hours[k]) ELSE hours[k]
  BY StoreIs
<1>3. CASE k = hoursSince /\ c < Buckets
  BY <1>1, <1>2, <1>3, PositionStored DEF GotSignal
<1>4. CASE ~(k = hoursSince /\ c < Buckets)
  BY <1>1, <1>2, <1>4
<1> QED
  BY <1>3, <1>4

LEMMA StoreFlagged ==
  ASSUME TypeOK, Flagged, StorePosition
  PROVE  Flagged'
<1>1. /\ UNCHANGED <<firstMessage, trims, heard, torn>>
      /\ DOMAIN hours' = DOMAIN hours
  BY StoreIs DEF helperVars
<1>2. ASSUME NEW k \in DOMAIN hours, NEW j
      PROVE  GotSignal(hours'[k], j) <=> GotSignal(hours[k], j)
  BY StoredHour
<1> QED
  BY <1>1, <1>2 DEF Flagged, InHour

LEMMA StoreHours ==
  ASSUME TypeOK, HoursInv, StorePosition
  PROVE  HoursInv'
<1> USE DEF HoursInv
<1>1. /\ regPc = "position" /\ hoursSince \in DOMAIN hours /\ Return
      /\ UNCHANGED <<firstMessage, trims, heard, torn>>
      /\ DOMAIN hours' = DOMAIN hours
  BY StoreIs DEF helperVars
<1> DEFINE c == Bucket(minutesOffset)
<1>2. ASSUME NEW k \in DOMAIN hours
      PROVE  /\ hours[k] \in HourType
             /\ hours'[k].offset = hours[k].offset
             /\ \A b \in 0 .. Buckets - 1 :
                  \/ hours'[k].positions[b] = hours[k].positions[b]
                  \/ /\ b = c /\ c < Buckets /\ k = hoursSince
                     /\ hours'[k].positions[b] = Distance(hours[k].offset)
  BY StoredHour
<1>3. Registering' /\ Pending' /\ OffsetsAreSet'
  BY <1>1, <1>2 DEF Registering, Pending, OffsetsAreSet, Return
<1>4. Flagged'
  BY StoreFlagged
<1>5. Stored'
  <2> SUFFICES ASSUME ~torn, NEW k \in DOMAIN hours, NEW b \in 0 .. Buckets - 1,
                      hours'[k].positions[b].x # 0
               PROVE  \E m \in heard :
                        /\ Bucket(MinuteOf(m.time)) = b
                        /\ ShownAs(Shown(hours'[k], hours'[k].positions[b]), m.position, hours'[k].offset)
    BY <1>1 DEF Stored
  <2>1. CASE hours'[k].positions[b] = hours[k].positions[b]
    <3>1. PICK m \in heard : /\ Bucket(MinuteOf(m.time)) = b
                             /\ ShownAs(Shown(hours[k], hours[k].positions[b]), m.position, hours[k].offset)
      BY <2>1 DEF Stored
    <3>2. Shown(hours[k], hours[k].positions[b]) = Shown(hours'[k], hours'[k].positions[b])
      BY <1>2, <2>1 DEF Shown
    <3> QED
      BY <1>2, <3>1, <3>2
  <2>2. CASE /\ b = c /\ c < Buckets /\ k = hoursSince
             /\ hours'[k].positions[b] = Distance(hours[k].offset)
    <3> DEFINE msg == [time |-> time, position |-> position]
    <3>1. msg \in heard /\ minutesOffset \in {MinuteOf(time), HourMinutes}
      BY <1>1 DEF Pending
    <3>2. Bucket(HourMinutes) \in Nat /\ Buckets \in Nat
      BY BucketType, Scales
    <3>3. minutesOffset = MinuteOf(time)
      BY <2>2, <3>1, <3>2, NoBucket
    <3>4. ShownAs(Shown(hours[k], Distance(hours[k].offset)), position, hours[k].offset)
      BY <1>2, DistanceShown
    <3>5. Shown(hours[k], Distance(hours[k].offset)) = Shown(hours'[k], hours'[k].positions[b])
      BY <1>2, <2>2 DEF Shown
    <3>6. ShownAs(Shown(hours'[k], hours'[k].positions[b]), msg.position, hours'[k].offset)
      BY <1>2, <3>4, <3>5
    <3>7. Bucket(MinuteOf(msg.time)) = b
      BY <2>2, <3>3
    <3> QED
      BY <3>1, <3>6, <3>7
  <2> QED
    BY <1>2, <2>1, <2>2
<1> QED
  BY <1>3, <1>4, <1>5

LEMMA HoursInvInit == Init => HoursInv
<1> SUFFICES ASSUME Init PROVE HoursInv
  OBVIOUS
<1>1. DOMAIN hours = {} /\ regPc = "idle"
  BY DEF Init
<1> QED
  BY <1>1 DEF HoursInv, Registering, OffsetsAreSet, Flagged, Stored, Pending

(* The steps that leave the hours and what is registered alone.             *)
HoursSame == UNCHANGED <<hours, regVars, heard, torn>>

LEMMA OtherSteps ==
  ASSUME TypeOK, [Next]_vars
  PROVE  \/ \E t \in Timestamps, p \in Positions : Calculate(t, p)
         \/ Register \/ StorePosition
         \/ HoursSame /\ trims' # 0 /\ UNCHANGED <<queryVars, analysisStarted>>
         \/ HoursSame /\ UNCHANGED <<firstMessage, analysisStarted, trims>>
<1>1. ASSUME NEW h \in HourStarts, Trim(h)
      PROVE  HoursSame /\ trims' # 0 /\ UNCHANGED <<queryVars, analysisStarted>>
  <2>1. trims \in Nat /\ trims' = trims + 1
    BY <1>1 DEF TypeOK, Trim
  <2>2. trims' # 0
    BY <2>1
  <2> QED
    BY <1>1, <2>2 DEF Trim, HoursSame
<1>2. ASSUME NEW from \in Requested, NEW to \in Requested, StartQuery(from, to)
      PROVE  HoursSame /\ UNCHANGED <<firstMessage, analysisStarted, trims>>
  BY <1>2 DEF StartQuery, HoursSame, helperVars
<1>3. ReadHour => HoursSame /\ UNCHANGED <<firstMessage, analysisStarted, trims>>
  BY DEF ReadHour, HoursSame, helperVars
<1>4. ReadMinute => HoursSame /\ UNCHANGED <<firstMessage, analysisStarted, trims>>
  BY DEF ReadMinute, HoursSame, helperVars
<1>5. Answer => HoursSame /\ UNCHANGED <<firstMessage, analysisStarted, trims>>
  BY DEF Answer, HoursSame, helperVars
<1>6. UNCHANGED vars => HoursSame /\ UNCHANGED <<firstMessage, analysisStarted, trims>>
  BY DEF vars, HoursSame, helperVars
<1> QED
  BY <1>1, <1>2, <1>3, <1>4, <1>5, <1>6 DEF Next, Quiescent

LEMMA NextHours ==
  ASSUME TypeOK, PositionsAreSomewhere, HoursInv, [Next]_vars
  PROVE  HoursInv'
<1>1. ASSUME NEW t \in Timestamps, NEW p \in Positions, Calculate(t, p) PROVE HoursInv'
  <2>1. UNCHANGED <<firstMessage, hours, trims, heard, torn>> /\ regPc' = "register" /\ position' = p
    BY <1>1 DEF Calculate
  <2> QED
    BY <2>1 DEF HoursInv, Registering, OffsetsAreSet, Flagged, InHour, Stored, Pending
<1>2. CASE Register
  BY <1>2, RegisterHours
<1>3. CASE StorePosition
  BY <1>3, StoreHours
<1>4. CASE HoursSame /\ (trims' # 0 \/ UNCHANGED <<firstMessage, trims>>)
  <2>1. UNCHANGED <<hours, regPc, time, position, minutesOffset, heard, torn>>
    BY <1>4 DEF HoursSame, regVars
  <2>2. Registering' /\ OffsetsAreSet' /\ Stored' /\ Pending'
    BY <2>1 DEF HoursInv, Registering, OffsetsAreSet, Stored, Pending
  <2>3. Flagged'
    BY <1>4, <2>1 DEF HoursInv, Flagged, InHour
  <2> QED
    BY <2>2, <2>3 DEF HoursInv
<1> QED
  BY <1>1, <1>2, <1>3, <1>4, OtherSteps

LEMMA HoursInvImplies ==
  ASSUME TypeOK, HoursInv
  PROVE  HoursAreTrue
<1> SUFFICES ASSUME ~torn, NEW k \in DOMAIN hours, NEW j \in Minutes(hours[k])
             PROVE  LET p == PositionAt(hours[k], j) IN
                    /\ \E m \in heard : MinuteOf(m.time) = j
                    /\ p # Nowhere =>
                         \E m \in heard : Near(m, j) /\ ShownAs(p, m.position, hours[k].offset)
  BY DEF HoursAreTrue
<1>1. j \in 0 .. HourMinutes - 1 /\ GotSignal(hours[k], j) /\ j \in Int
  BY DEF Minutes
<1>2. \E m \in heard : MinuteOf(m.time) = j
  BY <1>1 DEF HoursInv, Flagged
<1> DEFINE b == BucketRead(j)
           d == hours[k].positions[b]
           p == PositionAt(hours[k], j)
<1>3. ASSUME p # Nowhere
      PROVE  \E m \in heard : Near(m, j) /\ ShownAs(p, m.position, hours[k].offset)
  <2>1. p = IF d.x = 0 THEN Nowhere ELSE Shown(hours[k], d)
    BY DEF PositionAt, BucketRead, Shown
  <2>2. d.x # 0 /\ p = Shown(hours[k], d)
    BY <1>3, <2>1
  <2>3. b \in 0 .. Buckets - 1
    BY <1>1, BucketReadType
  <2>4. PICK m \in heard : /\ Bucket(MinuteOf(m.time)) = b
                           /\ ShownAs(Shown(hours[k], d), m.position, hours[k].offset)
    BY <2>2, <2>3 DEF HoursInv, Stored
  <2>5. MinuteOf(m.time) \in 0 .. HourMinutes - 1
    <3>1. m.time \in Times
      BY DEF TypeOK, Messages
    <3>2. m.time \in Int
      BY <3>1, HourInFeed
    <3> QED
      BY <3>2, TimeParts
  <2>6. Near(m, j)
    BY <1>1, <2>4, <2>5, BucketIsNear
  <2> QED
    BY <2>2, <2>4, <2>6
<1> QED
  BY <1>2, <1>3

LEMMA HoursInvariant == PositionsAreSomewhere /\ Spec => [](TypeOK /\ HoursInv)
<1>1. Init => TypeOK /\ HoursInv
  BY InitTypes, HoursInvInit
<1>2. PositionsAreSomewhere /\ TypeOK /\ HoursInv /\ [Next]_vars => (TypeOK /\ HoursInv)'
  BY NextTypes, NextHours DEF HoursInv
<1>3. CASE PositionsAreSomewhere
  <2>1. TypeOK /\ HoursInv /\ [Next]_vars => (TypeOK /\ HoursInv)'
    BY <1>2, <1>3
  <2> QED
    BY <1>1, <2>1, PTL DEF Spec
<1> QED
  BY <1>3

(* HoursAreTrue: as long as firstMessage has not moved between the two reads *)
(* that registerMessage makes of it, every minute that an hour flags is the  *)
(* minute of a message that was registered, and the position reported for it *)
(* is that of a message less than ten minutes away, up to the 10 m that      *)
(* stand for "never set".                                                    *)
THEOREM HoursStayTrue ==
  ASSUME PositionsAreSomewhere
  PROVE  Spec => []HoursAreTrue
<1>1. TypeOK /\ HoursInv => HoursAreTrue
  BY HoursInvImplies
<1>2. Spec => [](TypeOK /\ HoursInv)
  BY HoursInvariant
<1> QED
  BY <1>1, <1>2, PTL

-----------------------------------------------------------------------------
(* The track: the messages and the flags.                                   *)

LEMMA MessageTime ==
  ASSUME TypeOK, NEW m \in heard
  PROVE  /\ m.time \in Times /\ m.time \in Int /\ firstMessage \in Int
         /\ HourOf(m) \in Int /\ HourOf(m) \in -LastHour .. LastHour
         /\ FloorDate(m.time) = firstMessage + HourOf(m) * TicksPerHour
         /\ HourOf(m) = HoursBetween(m.time, firstMessage)
         /\ firstMessage <= m.time => HourOf(m) \in Nat
         /\ MinuteOf(m.time) \in 0 .. HourMinutes - 1
         /\ MinuteIndex(m) \in Int
         /\ MinuteStart(m) \in Int
         /\ MinuteStart(m) = firstMessage + MinuteIndex(m) * TicksPerMinute
         /\ MinuteStart(m) < (LastHour + 1) * TicksPerHour
<1> DEFINE t == m.time
           j == MinuteOf(t)
<1>1. t \in Times
  BY DEF TypeOK, Messages
<1>2. t \in Int /\ t \div TicksPerHour \in 0 .. LastHour
  BY <1>1, HourInFeed
<1>3. PICK f \in 0 .. LastHour : firstMessage = f * TicksPerHour
  BY HourStartIs DEF TypeOK
<1>4. f \in Int /\ firstMessage \in Int /\ LastHour \in Nat
  BY <1>3, Scales
<1> DEFINE d == HoursBetween(t, firstMessage)
           q == t \div TicksPerHour
<1>5. /\ d \in Int /\ d = q - f /\ FloorDate(t) = firstMessage + d * TicksPerHour
      /\ (firstMessage <= t) <=> (d >= 0)
  <2> HIDE DEF t
  <2> QED
    BY <1>2, <1>3, <1>4, MinuteRegistered
<1>6. d \in -LastHour .. LastHour
  <2> HIDE DEF d, q
  <2>1. q \in 0 .. LastHour
    BY <1>2 DEF q
  <2> QED
    BY <1>3, <1>4, <1>5, <2>1
<1>7. d * TicksPerHour \in Int /\ TicksPerHour \in Nat \ {0}
  BY <1>5, Scales
<1>8. HourOf(m) = d
  <2>1. HourOf(m) = (FloorDate(t) - firstMessage) \div TicksPerHour
    BY DEF HourOf
  <2> HIDE DEF d, t
  <2>2. FloorDate(t) - firstMessage = d * TicksPerHour + 0 /\ 0 \in 0 .. TicksPerHour - 1
    BY <1>4, <1>5, <1>7
  <2> DEFINE a == FloorDate(t) - firstMessage
  <2> HIDE DEF a
  <2>3. a = d * TicksPerHour + 0 /\ a \in Int
    BY <1>7, <2>2 DEF a
  <2>4. a \div TicksPerHour = d
    BY <1>5, <1>7, <2>2, <2>3, DivUnique
  <2> QED
    BY <2>1, <2>4 DEF a
<1>9. /\ j \in 0 .. HourMinutes - 1 /\ j * TicksPerMinute \in Int
      /\ t % TicksPerMinute \in 0 .. TicksPerMinute - 1
      /\ t = FloorDate(t) + j * TicksPerMinute + (t % TicksPerMinute)
  BY <1>2, TimeParts
<1> DEFINE s == t % TicksPerMinute
           i == d * HourMinutes + j
<1>10. MinuteStart(m) = t - s
  BY DEF MinuteStart
<1>11. MinuteIndex(m) = i
  BY <1>8 DEF MinuteIndex
<1> HIDE DEF s, d, j, q
<1>12. /\ d * HourMinutes \in Int /\ HourMinutes \in Nat \ {0} /\ TicksPerMinute \in Nat \ {0}
       /\ (d * HourMinutes) * TicksPerMinute = d * TicksPerHour
  BY <1>5, Scales
<1>13. i * TicksPerMinute = d * TicksPerHour + j * TicksPerMinute /\ i \in Int
  <2>1. j \in Int
    BY <1>9, <1>12
  <2>2. (d * HourMinutes + j) * TicksPerMinute = (d * HourMinutes) * TicksPerMinute + j * TicksPerMinute
    BY <1>12, <2>1, Distribute
  <2> QED
    BY <1>12, <2>1, <2>2
<1> HIDE DEF i, t
<1>14. s \in Nat
  BY <1>9, <1>12 DEF s
<1>15. t = FloorDate(t) + j * TicksPerMinute + s
  BY <1>9 DEF s
<1>16. t - s = firstMessage + i * TicksPerMinute /\ t - s \in Int
  BY <1>2, <1>4, <1>5, <1>7, <1>9, <1>13, <1>14, <1>15
<1>17. t - s < (LastHour + 1) * TicksPerHour
  <2>1. (LastHour + 1) * TicksPerHour \in Int
    BY <1>4, <1>7
  <2>2. t < (LastHour + 1) * TicksPerHour
    BY <1>1, <1>2, <2>1 DEF Times
  <2> QED
    BY <1>2, <1>14, <2>1, <2>2
<1>18. firstMessage <= t => d \in Nat
  BY <1>5
<1>19. /\ t \in Times /\ t \in Int /\ firstMessage \in Int
       /\ d \in Int /\ d \in -LastHour .. LastHour
       /\ FloorDate(t) = firstMessage + d * TicksPerHour
       /\ firstMessage <= t => d \in Nat
       /\ j \in 0 .. HourMinutes - 1
       /\ i \in Int /\ t - s \in Int
       /\ t - s = firstMessage + i * TicksPerMinute
       /\ t - s < (LastHour + 1) * TicksPerHour
  BY <1>1, <1>2, <1>4, <1>5, <1>6, <1>9, <1>13, <1>16, <1>17, <1>18
<1> QED
  BY <1>8, <1>10, <1>11, <1>19 DEF d, t, j

FlagInv == Flagged /\ NotTorn /\ AllFlagged

LEMMA RegisterFlags ==
  ASSUME TypeOK, FlagInv, Register
  PROVE  FlagInv'
<1> USE DEF FlagInv
<1>1. regPc = "register" /\ UNCHANGED <<firstMessage, trims>>
  BY RegisterIs DEF helperVars
<1>2. Flagged'
  BY RegisterFlagged
<1>3. CASE minutesSince < 0
  <2>1. Return /\ UNCHANGED <<hours, heard, torn>>
    BY <1>3, RegisterIs
  <2> QED
    BY <1>1, <1>2, <2>1 DEF NotTorn, AllFlagged, HourOf, Return
<1>4. CASE ~(minutesSince < 0)
  <2> DEFINE k == Since
             msg == [time |-> time, position |-> position]
  <2>1. /\ DOMAIN hours' = DOMAIN hours \cup {k}
        /\ \A i \in DOMAIN hours : i # k => hours'[i] = hours[i]
        /\ heard' = heard \cup {msg}
        /\ torn' = (torn \/ minutesSince # MinutesSinceFirst)
        /\ regPc' = "position"
    BY <1>4, RegisterIs
  <2>2. NotTorn'
    BY <1>1, <2>1 DEF NotTorn
  <2>3. ASSUME trims = 0, NEW m \in heard', m.time >= firstMessage
        PROVE  HourOf(m) \in DOMAIN hours' /\ GotSignal(hours'[HourOf(m)], MinuteOf(m.time))
    <3>1. ~torn'
      BY <1>1, <2>1, <2>3 DEF NotTorn
    <3>2. CASE m \in heard
      <4> DEFINE i == HourOf(m)
                 j == MinuteOf(m.time)
      <4>1. i \in DOMAIN hours /\ GotSignal(hours[i], j)
        BY <2>3, <3>2 DEF AllFlagged
      <4>2. j \in 0 .. HourMinutes - 1
        BY <3>2, MessageTime
      <4> HIDE DEF i, j
      <4>3. CASE i = k
        <5>1. HourAt(k) = hours[k]
          BY <4>1, <4>3 DEF HourAt
        <5>2. GotSignal(hours'[k], j)
          BY <1>4, <3>1, <4>1, <4>2, <4>3, <5>1, HourRegistered
        <5> QED
          BY <2>1, <4>3, <5>2 DEF i, j
      <4>4. CASE i # k
        BY <2>1, <4>1, <4>4 DEF i, j
      <4> QED
        BY <4>3, <4>4
    <3>3. CASE m = msg
      <4>1. m.time = time /\ firstMessage <= time
        <5>1. m.time = time
          BY <3>3
        <5>2. time \in Int /\ firstMessage \in Int
          BY HourInFeed, HourStartIs DEF TypeOK
        <5> QED
          BY <2>3, <5>1, <5>2
      <4>2. Since >= 0 /\ FloorDate(time) = firstMessage + Since * TicksPerHour /\ Since \in Int
            /\ MinuteOf(time) \in 0 .. HourMinutes - 1
        BY <4>1, MinutesBetween
      <4>3. HourOf(m) = k
        <5>1. firstMessage \in Int /\ TicksPerHour \in Nat \ {0}
          BY HourStartIs, Scales DEF TypeOK
        <5> DEFINE a == FloorDate(time) - firstMessage
        <5> HIDE DEF k
        <5>2. k \in Int /\ k * TicksPerHour \in Int /\ FloorDate(time) = firstMessage + k * TicksPerHour
          BY <4>2, <5>1 DEF k
        <5>3. a = k * TicksPerHour + 0 /\ a \in Int /\ 0 \in 0 .. TicksPerHour - 1
          BY <5>1, <5>2
        <5>4. HourOf(m) = a \div TicksPerHour
          BY <4>1 DEF HourOf
        <5> HIDE DEF a
        <5> QED
          BY <5>1, <5>2, <5>3, <5>4, DivUnique
      <4>4. GotSignal(hours'[k], MinuteOf(time))
        BY <1>4, <3>1, <4>2, HourRegistered
      <4> QED
        BY <2>1, <4>1, <4>3, <4>4
    <3> QED
      BY <2>1, <3>2, <3>3
  <2>4. AllFlagged'
    BY <1>1, <2>3 DEF AllFlagged, HourOf
  <2> QED
    BY <1>2, <2>2, <2>4
<1> QED
  BY <1>3, <1>4

LEMMA NextFlags ==
  ASSUME TypeOK, FlagInv, [Next]_vars
  PROVE  FlagInv'
<1>1. ASSUME NEW t \in Timestamps, NEW p \in Positions, Calculate(t, p) PROVE FlagInv'
  <2>1. /\ UNCHANGED <<firstMessage, hours, trims, heard, torn>> /\ time' = t
        /\ minutesSince' = Quotient(t - firstMessage, TicksPerMinute)
    BY <1>1 DEF Calculate
  <2> QED
    BY <2>1 DEF FlagInv, Flagged, InHour, NotTorn, MinutesSinceFirst, AllFlagged, HourOf
<1>2. CASE Register
  BY <1>2, RegisterFlags
<1>3. CASE StorePosition
  <2>1. /\ UNCHANGED <<firstMessage, trims, heard, torn>>
        /\ DOMAIN hours' = DOMAIN hours /\ regPc' = "idle"
    BY <1>3, StoreIs DEF helperVars, Return
  <2>2. \A k \in DOMAIN hours : \A j : GotSignal(hours'[k], j) <=> GotSignal(hours[k], j)
    BY <1>3, StoredHour
  <2>3. Flagged'
    BY <1>3, StoreFlagged DEF FlagInv
  <2>4. AllFlagged'
    BY <2>1, <2>2 DEF FlagInv, AllFlagged, HourOf
  <2> QED
    BY <2>1, <2>3, <2>4 DEF FlagInv, NotTorn
<1>4. CASE HoursSame /\ (trims' # 0 \/ UNCHANGED <<firstMessage, trims>>)
  <2>1. UNCHANGED <<hours, regPc, time, minutesSince, heard, torn>>
    BY <1>4 DEF HoursSame, regVars
  <2> QED
    BY <1>4, <2>1 DEF FlagInv, Flagged, InHour, NotTorn, MinutesSinceFirst, AllFlagged, HourOf
<1> QED
  BY <1>1, <1>2, <1>3, <1>4, OtherSteps

-----------------------------------------------------------------------------
(* The track: the request.                                                  *)

LEMMA NextPhases ==
  /\ Init => Phases
  /\ TypeOK /\ Phases /\ [Next]_vars => Phases'
<1>1. Init => Phases
  BY DEF Init, Phases
<1>2. ASSUME TypeOK, Phases, [Next]_vars PROVE Phases'
  <2>1. ASSUME NEW t \in Timestamps, NEW p \in Positions, Calculate(t, p) PROVE Phases'
    <3>1. t \in Times
      BY TrackAssumption
    <3>2. FloorDate(t) # NoTime
      <4>1. FloorDate(t) \in Nat
        BY <3>1, HourInFeed, HourStartIs
      <4> QED
        BY <4>1 DEF NoTime
    <3>3. UNCHANGED <<queryPc, nextHour, endHour, nextMinute>>
      BY <2>1 DEF Calculate, queryVars
    <3>4. analysisStarted' # NoTime
      BY <2>1, <3>2 DEF Calculate
    <3> QED
      BY <1>2, <3>3, <3>4 DEF Phases
  <2>2. ASSUME UNCHANGED <<queryVars, analysisStarted>> PROVE Phases'
    BY <1>2, <2>2 DEF Phases, queryVars
  <2>3. Register \/ StorePosition \/ UNCHANGED vars => UNCHANGED <<queryVars, analysisStarted>>
    BY DEF Register, StorePosition, vars, helperVars
  <2>4. ASSUME NEW h \in HourStarts, Trim(h) PROVE UNCHANGED <<queryVars, analysisStarted>>
    BY <2>4 DEF Trim
  <2>5. ASSUME NEW from \in Requested, NEW to \in Requested, StartQuery(from, to) PROVE Phases'
    BY <2>5 DEF StartQuery, Phases, helperVars
  <2>6. ReadHour \/ ReadMinute => Phases'
    BY <1>2 DEF ReadHour, ReadMinute, Phases, helperVars
  <2>7. CASE Answer
    <3>1. nextMinute = HourMinutes
      <4>1. nextHour >= endHour /\ nextHour \in Int /\ endHour \in Int
        BY <1>2, <2>7, Scales DEF Answer, TypeOK, HourKeys
      <4>2. ~(nextMinute < HourMinutes)
        BY <1>2, <4>1 DEF TypeOK
      <4> QED
        BY <1>2, <4>2, Scales DEF TypeOK
    <3> QED
      BY <1>2, <2>7, <3>1 DEF Answer, Phases, helperVars
  <2> QED
    BY <1>2, <2>1, <2>2, <2>3, <2>4, <2>5, <2>6, <2>7 DEF Next, Quiescent
<1> QED
  BY <1>1, <1>2

(* Steps that leave the answer alone.                                       *)
LEMMA TrackKept ==
  ASSUME TypeOK, Phases, TrackInv,
         queryPc' # "idle" => queryPc # "idle",
         UNCHANGED <<startHour, nextHour, nextMinute, result, previousMinute, before>>,
         trims' = 0 => UNCHANGED <<firstMessage, trims>>,
         analysisStarted' = analysisStarted \/ analysisStarted = NoTime,
         heard \subseteq heard'
  PROVE  TrackInv'
<1> SUFFICES ASSUME queryPc' # "idle", InOrder'
             PROVE  (TrueSpans /\ LastSpan /\ Covered /\ Recent /\ Together)'
  BY DEF TrackInv
<1>1. queryPc # "idle" /\ trims' = 0 /\ UNCHANGED <<firstMessage, trims>>
  BY DEF InOrder
<1>2. analysisStarted' = analysisStarted
  BY <1>1 DEF Phases
<1>3. InOrder
  BY <1>1, <1>2 DEF InOrder
<1>4. TrueSpans /\ LastSpan /\ Covered /\ Recent /\ Together
  BY <1>1, <1>3 DEF TrackInv
<1>5. TrueSpans'
  BY <1>4 DEF TrueSpans, IsTime
<1>6. LastSpan'
  BY <1>2, <1>4 DEF LastSpan, NextToRead
<1>7. Covered'
  BY <1>1, <1>4 DEF Covered, WasRead, NextToRead, MinuteIndex, HourOf, InSpan
<1>8. Recent'
  BY <1>1, <1>4 DEF Recent, WasRead, NextToRead, MinuteIndex, HourOf, InSpan
<1>9. Together'
  BY <1>1, <1>4 DEF Together, WasRead, NextToRead, MinuteIndex, HourOf, InSpan
<1> QED
  BY <1>5, <1>6, <1>7, <1>8, <1>9

(* The minutes below n hours are those of the first n hours.                *)
LEMMA MinuteIsBelow ==
  ASSUME TypeOK, NEW m \in heard, NEW n \in Int
  PROVE  /\ n * HourMinutes \in Int
         /\ (MinuteIndex(m) < n * HourMinutes) <=> (HourOf(m) < n)
         /\ \A j \in 0 .. HourMinutes - 1 :
              MinuteIndex(m) = n * HourMinutes + j <=> HourOf(m) = n /\ MinuteOf(m.time) = j
<1> DEFINE d == HourOf(m)
           i == MinuteOf(m.time)
<1>1. d \in Int /\ i \in 0 .. HourMinutes - 1
  BY MessageTime
<1>2. MinuteIndex(m) = d * HourMinutes + i
  BY DEF MinuteIndex
<1>3. HourMinutes \in Nat \ {0}
  BY Scales
<1> HIDE DEF d, i
<1>4. n * HourMinutes \in Int /\ d * HourMinutes \in Int
  BY <1>1, <1>3
<1>5. d < n => d * HourMinutes + HourMinutes <= n * HourMinutes
  BY <1>1, <1>3, TimesMonotone
<1>6. n < d => n * HourMinutes + HourMinutes <= d * HourMinutes
  BY <1>1, <1>3, TimesMonotone
<1>7. d < n \/ d = n \/ n < d
  BY <1>1
<1>8. d = n => d * HourMinutes = n * HourMinutes
  OBVIOUS
<1>9. (d * HourMinutes + i < n * HourMinutes) <=> (d < n)
  <2>1. CASE d < n
    BY <1>1, <1>3, <1>4, <1>5, <2>1
  <2>2. CASE d = n
    BY <1>1, <1>3, <1>4, <1>8, <2>2
  <2>3. CASE n < d
    BY <1>1, <1>3, <1>4, <1>6, <2>3
  <2> QED
    BY <1>7, <2>1, <2>2, <2>3
<1>10. ASSUME NEW j \in 0 .. HourMinutes - 1
       PROVE  d * HourMinutes + i = n * HourMinutes + j <=> d = n /\ i = j
  <2>1. CASE d < n
    BY <1>1, <1>3, <1>4, <1>5, <2>1
  <2>2. CASE d = n
    BY <1>1, <1>3, <1>4, <1>8, <2>2
  <2>3. CASE n < d
    BY <1>1, <1>3, <1>4, <1>6, <2>3
  <2> QED
    BY <1>7, <2>1, <2>2, <2>3
<1> QED
  BY <1>2, <1>4, <1>9, <1>10 DEF d, i

LEMMA StartQueryTrack ==
  ASSUME TypeOK, TypeOK', NEW from \in Requested, NEW to \in Requested, StartQuery(from, to)
  PROVE  TrackInv'
<1>1. /\ startHour' = from /\ nextHour' = from /\ nextMinute' = HourMinutes
      /\ result' = <<>> /\ previousMinute' = -1 /\ before' = heard /\ heard' = heard
      /\ firstMessage' = firstMessage
  BY DEF StartQuery, helperVars
<1>2. from \in Int
  BY TrackAssumption, Scales DEF HourKeys
<1>3. HourMinutes \in Nat \ {0}
  BY Scales
<1>4. ASSUME NEW m \in heard PROVE ~ WasRead(m)'
  <2>1. NextToRead' = from * HourMinutes + 0
    BY <1>1, <1>3 DEF NextToRead
  <2>2. from * HourMinutes \in Int /\ (MinuteIndex(m) < from * HourMinutes <=> HourOf(m) < from)
    BY <1>2, MinuteIsBelow
  <2>3. WasRead(m)' => HourOf(m) >= from /\ MinuteIndex(m) < from * HourMinutes + 0
    BY <1>1, <2>1 DEF WasRead, MinuteIndex, HourOf
  <2>4. HourOf(m) \in Int /\ MinuteIndex(m) \in Int
    BY MessageTime
  <2> QED
    BY <1>2, <2>2, <2>3, <2>4
<1>5. Covered' /\ Recent' /\ Together'
  BY <1>1, <1>4 DEF Covered, Recent, Together
<1>6. TrueSpans' /\ LastSpan'
  BY <1>1 DEF TrueSpans, LastSpan
<1> QED
  BY <1>5, <1>6 DEF TrackInv

(* An hour without an entry has no message that a request must know.        *)
LEMMA ReadHourTrack ==
  ASSUME TypeOK, FlagInv, TrackInv, ReadHour
  PROVE  TrackInv'
<1>1. /\ UNCHANGED <<firstMessage, analysisStarted, hours, queryPc, startHour, before, result, previousMinute,
                     trims, heard>>
      /\ nextMinute = HourMinutes /\ nextHour \in Int /\ HourMinutes \in Nat \ {0}
      /\ \/ nextHour \in DOMAIN hours /\ nextMinute' = 0 /\ nextHour' = nextHour
         \/ nextHour \notin DOMAIN hours /\ nextMinute' = HourMinutes /\ nextHour' = nextHour + 1
  BY Scales DEF ReadHour, helperVars, TypeOK, HourKeys
<1> SUFFICES ASSUME queryPc # "idle", InOrder
             PROVE  (TrueSpans /\ LastSpan /\ Covered /\ Recent /\ Together)'
  BY <1>1 DEF TrackInv, InOrder
<1>2. TrueSpans /\ LastSpan /\ Covered /\ Recent /\ Together
  BY DEF TrackInv
<1>3. /\ NextToRead = nextHour * HourMinutes + 0 /\ NextToRead \in Int
      /\ \/ NextToRead' = NextToRead
         \/ NextToRead' = (nextHour + 1) * HourMinutes + 0 /\ nextHour \notin DOMAIN hours
  BY <1>1 DEF NextToRead
<1>4. (nextHour + 1) * HourMinutes \in Int /\ NextToRead < (nextHour + 1) * HourMinutes + 0
  <2>1. (nextHour + 1) * HourMinutes = nextHour * HourMinutes + 1 * HourMinutes /\ 1 * HourMinutes = HourMinutes
    BY <1>1, Distribute
  <2> QED
    BY <1>1, <1>3, <2>1
<1>5. ASSUME NEW m \in before PROVE WasRead(m)' <=> WasRead(m)
  <2>1. m \in heard
    BY DEF TypeOK
  <2>2. HourOf(m)' = HourOf(m) /\ MinuteIndex(m)' = MinuteIndex(m)
    BY <1>1 DEF HourOf, MinuteIndex
  <2>3. CASE NextToRead' = NextToRead
    BY <1>1, <2>2, <2>3 DEF WasRead
  <2>4. CASE NextToRead' = (nextHour + 1) * HourMinutes + 0 /\ nextHour \notin DOMAIN hours
    <3>1. /\ HourOf(m) \in Int /\ MinuteIndex(m) \in Int
      BY <2>1, MessageTime
    <3>2. m.time >= firstMessage => HourOf(m) # nextHour
      <4>1. trims = 0
        BY DEF InOrder
      <4> QED
        BY <2>1, <2>4, <4>1 DEF FlagInv, AllFlagged
    <3>3. nextHour + 1 \in Int
      BY <1>1
    <3>4. /\ (MinuteIndex(m) < nextHour * HourMinutes) <=> (HourOf(m) < nextHour)
          /\ (MinuteIndex(m) < (nextHour + 1) * HourMinutes) <=> (HourOf(m) < nextHour + 1)
      BY <1>1, <2>1, <3>3, MinuteIsBelow
    <3>5. nextHour * HourMinutes \in Int
      BY <1>1
    <3>6. m.time >= firstMessage => ((MinuteIndex(m) < NextToRead) <=> (MinuteIndex(m) < NextToRead'))
      BY <1>1, <1>3, <1>4, <2>4, <3>1, <3>2, <3>4, <3>5
    <3> QED
      BY <1>1, <2>2, <3>6 DEF WasRead
  <2> QED
    BY <1>3, <2>3, <2>4
<1>6. ASSUME NEW m, NEW i
      PROVE  /\ InSpan(m, i)' <=> InSpan(m, i)
             /\ MinuteIndex(m)' = MinuteIndex(m)
  BY <1>1 DEF InSpan, MinuteIndex, HourOf
<1>7. TrueSpans'
  BY <1>1, <1>2 DEF TrueSpans, IsTime
<1>8. LastSpan'
  BY <1>1, <1>2, <1>3, <1>4 DEF LastSpan
<1>9. Covered'
  BY <1>1, <1>2, <1>5, <1>6 DEF Covered
<1>10. Recent'
  BY <1>1, <1>2, <1>5, <1>6 DEF Recent
<1>11. Together'
  BY <1>1, <1>2, <1>5, <1>6 DEF Together
<1> QED
  BY <1>7, <1>8, <1>9, <1>10, <1>11

(* When a minute is dated.                                                  *)
LEMMA SpanTimeIs ==
  ASSUME FeedIsShort, NEW c \in Nat, c * TicksPerMinute < (LastHour + 1) * TicksPerHour
  PROVE  SpanTime(c) = analysisStarted + c * TicksPerMinute
<1> DEFINE ms == c * TicksPerMinute
           half == IntSpan \div 2
           feed == (LastHour + 1) * TicksPerHour
<1>1. ms \in Nat
  <2>1. c = 0 \/ 0 < c
    OBVIOUS
  <2>2. TicksPerMinute \in Nat \ {0} /\ 0 * TicksPerMinute = 0
    BY Scales
  <2> QED
    BY <2>1, <2>2, TimesMonotone
<1>2. half \in Nat /\ 2 * half <= IntSpan /\ IntSpan \in Nat \ {0}
  BY Scales
<1>3. feed \in Int /\ feed <= half /\ ms < feed
  BY Scales DEF FeedIsShort
<1> HIDE DEF ms, half, feed
<1>4. ms + half \in 0 .. IntSpan - 1
  BY <1>1, <1>2, <1>3
<1>5. (ms + half) % IntSpan = ms + half
  BY <1>2, <1>4, SmallMod
<1>6. ToInt(ms) = ms
  <2>1. ToInt(ms) = ((ms + half) % IntSpan) - half
    BY DEF ToInt, half
  <2> QED
    BY <1>1, <1>2, <1>5, <2>1
<1> QED
  BY <1>6 DEF SpanTime, ms

(* The minute being read, if it is flagged, is dated as a message was.       *)
LEMMA FlaggedMinute ==
  ASSUME TypeOK, FlagInv, FeedIsShort, InOrder, ReadMinute, GotSignal(hours[nextHour], nextMinute)
  PROVE  /\ Current \in Nat
         /\ SpanTime(Current) = analysisStarted + Current * TicksPerMinute
         /\ SpanTime(Current) \in Int
         /\ IsTime(SpanTime(Current))
<1>1. /\ Current \in Int /\ nextHour \in DOMAIN hours /\ nextMinute \in 0 .. HourMinutes - 1
  BY ReadMinuteIs
<1>2. trims = 0 /\ ~torn /\ firstMessage = analysisStarted
  BY DEF InOrder, FlagInv, NotTorn
<1>3. PICK m \in heard : MinuteOf(m.time) = nextMinute /\ InHour(m, nextHour)
  BY <1>1, <1>2 DEF FlagInv, Flagged
<1>4. nextHour \in Nat /\ FloorDate(m.time) = firstMessage + nextHour * TicksPerHour
  BY <1>3 DEF InHour
<1>5. /\ firstMessage \in Int /\ HourOf(m) \in Int /\ MinuteIndex(m) \in Int /\ MinuteStart(m) \in Int
      /\ FloorDate(m.time) = firstMessage + HourOf(m) * TicksPerHour
      /\ MinuteStart(m) = firstMessage + MinuteIndex(m) * TicksPerMinute
      /\ MinuteStart(m) < (LastHour + 1) * TicksPerHour
  BY MessageTime
<1>6. HourOf(m) = nextHour
  <2> DEFINE d == HourOf(m)
  <2>1. d \in Int
    BY <1>5
  <2>2. firstMessage + d * TicksPerHour = firstMessage + nextHour * TicksPerHour
    BY <1>4, <1>5
  <2> HIDE DEF d
  <2>3. d * TicksPerHour \in Int /\ nextHour * TicksPerHour \in Int /\ TicksPerHour \in Nat \ {0}
    BY <1>4, <2>1, Scales
  <2>4. d * TicksPerHour = nextHour * TicksPerHour
    <3> DEFINE a == d * TicksPerHour
               b == nextHour * TicksPerHour
    <3>1. a \in Int /\ b \in Int /\ firstMessage + a = firstMessage + b /\ firstMessage \in Int
      BY <1>5, <2>2, <2>3
    <3> HIDE DEF a, b
    <3>2. a = b
      BY <3>1
    <3> QED
      BY <3>2 DEF a, b
  <2>5. ~(d < nextHour) /\ ~(nextHour < d)
    <3>1. d < nextHour => d * TicksPerHour + TicksPerHour <= nextHour * TicksPerHour
      BY <1>4, <2>1, <2>3, TimesMonotone
    <3>2. nextHour < d => nextHour * TicksPerHour + TicksPerHour <= d * TicksPerHour
      BY <1>4, <2>1, <2>3, TimesMonotone
    <3> QED
      BY <2>3, <2>4, <3>1, <3>2
  <2> QED
    BY <1>4, <2>1, <2>5 DEF d
<1>7. MinuteIndex(m) = Current
  BY <1>3, <1>6 DEF MinuteIndex, Current
<1>8. Current \in Nat
  <2>1. nextHour * HourMinutes \in Nat
    <3>1. nextHour = 0 \/ 0 < nextHour
      BY <1>4
    <3>2. HourMinutes \in Nat \ {0} /\ 0 * HourMinutes = 0
      BY Scales
    <3> QED
      BY <1>4, <3>1, <3>2, TimesMonotone
  <2> QED
    BY <1>1, <2>1 DEF Current
<1>9. Current * TicksPerMinute < (LastHour + 1) * TicksPerHour
  <2>1. firstMessage \in Nat
    BY HourStartIs DEF TypeOK
  <2>2. Current * TicksPerMinute \in Int /\ (LastHour + 1) * TicksPerHour \in Int
    BY <1>1, Scales
  <2>3. MinuteStart(m) = firstMessage + Current * TicksPerMinute
    BY <1>5, <1>7
  <2> QED
    BY <1>5, <2>1, <2>2, <2>3
<1>10. SpanTime(Current) = analysisStarted + Current * TicksPerMinute
  BY <1>8, <1>9, SpanTimeIs
<1>11. SpanTime(Current) = MinuteStart(m)
  BY <1>2, <1>5, <1>7, <1>10
<1> QED
  BY <1>5, <1>8, <1>10, <1>11 DEF IsTime

(* What a flagged minute does to the answer: the new last span reaches up to *)
(* it, every span keeps what it covered, and the last one goes on if the     *)
(* minute is within the margin.                                              *)
LEMMA AnswerGrows ==
  ASSUME TypeOK, FlagInv, FeedIsShort, queryPc # "idle", InOrder, TrackInv,
         ReadMinute, GotSignal(hours[nextHour], nextMinute)
  PROVE  /\ result' \in Seq(SpanType) /\ Len(result') \in Nat \ {0} /\ previousMinute' = Current
         /\ \A i \in 1 .. Len(result') : IsTime(result'[i].firstMessage) /\ IsTime(result'[i].lastMessage)
         /\ result'[Len(result')].lastMessage = SpanTime(Current)
         /\ result'[Len(result')].firstMessage <= SpanTime(Current)
         /\ \A i \in 1 .. Len(result) :
              /\ i \in 1 .. Len(result')
              /\ result'[i].firstMessage = result[i].firstMessage
              /\ result[i].lastMessage <= result'[i].lastMessage
         /\ result # <<>> /\ Current - previousMinute < MarginMinutes => Len(result') = Len(result)
<1> DEFINE p == PositionRead
           S == Spans(Current, p)
           n == Len(S)
           t == SpanTime(Current)
<1>1. /\ Current \in Nat /\ p \in Points /\ AddMinute(Current, p)
      /\ t \in Int /\ IsTime(t) /\ t = analysisStarted + Current * TicksPerMinute
  BY ReadMinuteIs, FlaggedMinute
<1>2. TrueSpans /\ LastSpan
  BY DEF TrackInv
<1>3. result \in Seq(SpanType)
  BY DEF TypeOK, SpanType
<1>4. /\ NewSpan(Current, p) \in SpanType
      /\ NewSpan(Current, p).firstMessage = t /\ NewSpan(Current, p).lastMessage = t
  BY <1>1, NewSpanType
<1>5. /\ result' \in Seq(SpanType) /\ previousMinute' = Current
      /\ S \in Seq(SpanType) /\ n \in Nat \ {0}
      /\ \/ /\ WithinMargin(Current, previousMinute)
            /\ Len(result') = n
            /\ \A i \in 1 .. n : i # n => result'[i] = S[i]
            /\ result'[n].firstMessage = S[n].firstMessage
            /\ result'[n].lastMessage = t
         \/ /\ ~WithinMargin(Current, previousMinute)
            /\ Len(result') = n + 1
            /\ \A i \in 1 .. n : result'[i] = S[i]
            /\ result'[n + 1] = NewSpan(Current, p)
  BY <1>1, MinuteAdded
(* the spans before the minute is added                                     *)
<1>6. /\ \A i \in 1 .. n : IsTime(S[i].firstMessage) /\ IsTime(S[i].lastMessage)
      /\ S[n].firstMessage <= t /\ S[n].lastMessage <= t
      /\ S[n].lastMessage \in Int /\ S[n].firstMessage \in Int
      /\ result # <<>> => S = result
  <2>1. CASE result = <<>>
    <3>1. S = <<NewSpan(Current, p)>>
      BY <2>1 DEF Spans
    <3>2. n = 1 /\ S[1] = NewSpan(Current, p)
      BY <3>1
    <3> HIDE DEF S, t, p
    <3> QED
      BY <1>1, <1>4, <2>1, <3>2
  <2>2. CASE result # <<>>
    <3>1. S = result /\ n = Len(result)
      BY <2>2 DEF Spans
    <3>2. \A i \in 1 .. n : IsTime(S[i].firstMessage) /\ IsTime(S[i].lastMessage)
      BY <1>2, <1>3, <3>1 DEF TrueSpans
    <3>3. /\ previousMinute \in Nat /\ previousMinute < NextToRead
          /\ S[n].firstMessage <= S[n].lastMessage
          /\ S[n].lastMessage = analysisStarted + previousMinute * TicksPerMinute
      BY <1>2, <2>2, <3>1 DEF LastSpan
    <3>4. S[n] \in SpanType
      <4> HIDE DEF S
      <4> QED
        BY <1>5
    <3>5. S[n].firstMessage \in Int /\ S[n].lastMessage \in Int
      BY <3>4 DEF SpanType
    <3>6. NextToRead = Current
      <4>1. nextMinute < HourMinutes
        BY ReadMinuteIs, Scales
      <4> QED
        BY <4>1 DEF NextToRead, Current
    <3>7. previousMinute * TicksPerMinute + TicksPerMinute <= Current * TicksPerMinute
      BY <1>1, <3>3, <3>6, Scales, TimesMonotone
    <3>8. analysisStarted \in Int /\ previousMinute * TicksPerMinute \in Int
          /\ Current * TicksPerMinute \in Int /\ TicksPerMinute \in Nat
      <4>1. analysisStarted \in Int
        BY HourStartIs DEF InOrder, TypeOK, NoTime
      <4> QED
        BY <1>1, <3>3, <4>1, Scales
    <3>9. S[n].lastMessage <= t
      <4> DEFINE last == S[n].lastMessage
      <4> HIDE DEF S, t, p, last
      <4>1. last = analysisStarted + previousMinute * TicksPerMinute
        BY <3>3 DEF last
      <4>2. t = analysisStarted + Current * TicksPerMinute
        BY <1>1
      <4>3. last <= t
        BY <3>7, <3>8, <4>1, <4>2
      <4> QED
        BY <4>3 DEF last
    <3> DEFINE first == S[n].firstMessage
               last == S[n].lastMessage
    <3>10. first \in Int /\ last \in Int /\ first <= last /\ last <= t /\ t \in Int
      BY <1>1, <3>3, <3>5, <3>9
    <3> HIDE DEF first, last, S, t, p
    <3>11. first <= t
      BY <3>10
    <3> QED
      BY <3>1, <3>2, <3>10, <3>11 DEF first, last
  <2> QED
    BY <2>1, <2>2
<1> HIDE DEF S, t, p
<1> DEFINE r == Len(result')
           new == result'[r]
<1>7. /\ r \in {n, n + 1} /\ r \in Nat \ {0}
      /\ new.lastMessage = t /\ new.firstMessage \in {S[n].firstMessage, t}
  <2>1. CASE WithinMargin(Current, previousMinute)
    BY <1>5, <2>1
  <2>2. CASE ~WithinMargin(Current, previousMinute)
    BY <1>4, <1>5, <2>2
  <2> QED
    BY <2>1, <2>2
<1>8. ASSUME NEW i \in 1 .. r
      PROVE  \/ i = r
             \/ i \in 1 .. n /\ result'[i] = S[i]
  BY <1>5
<1>9. ASSUME NEW i \in 1 .. r
      PROVE  IsTime(result'[i].firstMessage) /\ IsTime(result'[i].lastMessage)
  <2>1. CASE i = r
    BY <1>1, <1>5, <1>6, <1>7, <2>1
  <2>2. CASE i \in 1 .. n /\ result'[i] = S[i]
    BY <1>6, <2>2
  <2> QED
    BY <1>8, <2>1, <2>2
<1>10. new.firstMessage <= t
  BY <1>1, <1>6, <1>7
<1>11. ASSUME NEW i \in 1 .. Len(result)
       PROVE  /\ i \in 1 .. r
              /\ result'[i].firstMessage = result[i].firstMessage
              /\ result[i].lastMessage <= result'[i].lastMessage
  <2>1. result # <<>>
    BY <1>3
  <2>2. S = result /\ n = Len(result)
    BY <1>6, <2>1
  <2>3. i \in 1 .. r /\ i \in 1 .. n
    BY <1>5, <1>7, <2>2
  <2>4. S[i] \in SpanType
    BY <1>5, <2>3
  <2>5. S[i].lastMessage \in Int /\ S[i].lastMessage <= S[i].lastMessage
    BY <2>4 DEF SpanType
  <2>6. CASE result'[i] = S[i]
    BY <2>2, <2>3, <2>5, <2>6
  <2>7. CASE result'[i] # S[i]
    <3>1. i = n /\ r = n /\ result'[n].firstMessage = S[n].firstMessage /\ result'[n].lastMessage = t
      BY <1>5, <2>3, <2>7
    <3> QED
      BY <1>6, <2>2, <2>3, <3>1
  <2> QED
    BY <2>6, <2>7
<1>12. ASSUME result # <<>>, Current - previousMinute < MarginMinutes
       PROVE  r = Len(result)
  <2>1. WithinMargin(Current, previousMinute)
    BY <1>12 DEF WithinMargin
  <2>2. S = result
    BY <1>6, <1>12
  <2> QED
    BY <1>5, <2>1, <2>2
<1> QED
  BY <1>5, <1>7, <1>9, <1>10, <1>11, <1>12 DEF t

LEMMA NextMinute ==
  ASSUME TypeOK, ReadMinute
  PROVE  NextToRead = Current /\ NextToRead' = Current + 1
<1>1. /\ nextMinute \in 0 .. HourMinutes - 1 /\ nextHour \in Int
      /\ nextMinute' = nextMinute + 1
      /\ nextHour' = IF nextMinute + 1 = HourMinutes THEN nextHour + 1 ELSE nextHour
  BY ReadMinuteIs DEF TypeOK, HourKeys
<1>2. HourMinutes \in Nat \ {0} /\ nextMinute < HourMinutes
  BY <1>1, Scales
<1>3. NextToRead = Current
  BY <1>2 DEF NextToRead, Current
<1>4. nextHour * HourMinutes \in Int
  BY <1>1, <1>2
<1>5. CASE nextMinute + 1 = HourMinutes
  <2>1. NextToRead' = (nextHour + 1) * HourMinutes + 0
    BY <1>1, <1>2, <1>5 DEF NextToRead
  <2>2. (nextHour + 1) * HourMinutes = nextHour * HourMinutes + 1 * HourMinutes /\ 1 * HourMinutes = HourMinutes
    BY <1>1, <1>2, Distribute
  <2> QED
    BY <1>1, <1>2, <1>3, <1>4, <1>5, <2>1, <2>2 DEF Current
<1>6. CASE nextMinute + 1 # HourMinutes
  <2>1. NextToRead' = nextHour * HourMinutes + (nextMinute + 1)
    BY <1>1, <1>2, <1>6 DEF NextToRead
  <2> QED
    BY <1>1, <1>3, <1>4, <2>1 DEF Current
<1> QED
  BY <1>5, <1>6

LEMMA ReadMinuteTrack ==
  ASSUME TypeOK, FlagInv, FeedIsShort, TrackInv, ReadMinute
  PROVE  TrackInv'
<1>1. /\ UNCHANGED <<firstMessage, analysisStarted, hours, queryPc, startHour, before, trims, heard>>
      /\ Current \in Int
      /\ nextMinute \in 0 .. HourMinutes - 1 /\ nextHour \in Int
  BY ReadMinuteIs DEF helperVars, TypeOK, HourKeys
<1> SUFFICES ASSUME queryPc # "idle", InOrder
             PROVE  (TrueSpans /\ LastSpan /\ Covered /\ Recent /\ Together)'
  BY <1>1 DEF TrackInv, InOrder
<1>2. TrueSpans /\ LastSpan /\ Covered /\ Recent /\ Together
  BY DEF TrackInv
<1>3. NextToRead = Current /\ NextToRead' = Current + 1
  BY NextMinute
<1>4. ASSUME NEW m \in before
      PROVE  /\ m \in heard /\ MinuteIndex(m) \in Int /\ MinuteStart(m) \in Int
             /\ MinuteIndex(m)' = MinuteIndex(m)
             /\ WasRead(m) => MinuteIndex(m) < Current
             /\ WasRead(m)' => \/ WasRead(m)
                               \/ /\ MinuteIndex(m) = Current
                                  /\ GotSignal(hours[nextHour], nextMinute)
  <2>1. m \in heard
    BY DEF TypeOK
  <2>2. HourOf(m)' = HourOf(m) /\ MinuteIndex(m)' = MinuteIndex(m)
    BY <1>1 DEF HourOf, MinuteIndex
  <2>3. MinuteIndex(m) \in Int /\ MinuteStart(m) \in Int
    BY <2>1, MessageTime
  <2>4. WasRead(m) => MinuteIndex(m) < Current
    BY <1>3 DEF WasRead
  <2>5. ASSUME WasRead(m)', ~WasRead(m)
        PROVE  MinuteIndex(m) = Current /\ GotSignal(hours[nextHour], nextMinute)
    <3>1. /\ m.time >= firstMessage /\ HourOf(m) >= startHour /\ MinuteIndex(m) < Current + 1
      BY <1>1, <1>3, <2>2, <2>5 DEF WasRead
    <3>2. MinuteIndex(m) = Current
      BY <1>1, <1>3, <2>3, <2>5, <3>1 DEF WasRead
    <3>3. HourOf(m) = nextHour /\ MinuteOf(m.time) = nextMinute
      BY <1>1, <2>1, <3>2, MinuteIsBelow DEF Current
    <3>4. trims = 0
      BY DEF InOrder
    <3>5. GotSignal(hours[nextHour], nextMinute)
      BY <2>1, <3>1, <3>3, <3>4 DEF FlagInv, AllFlagged
    <3> QED
      BY <3>2, <3>5
  <2> QED
    BY <2>1, <2>2, <2>3, <2>4, <2>5
<1>5. CASE ~GotSignal(hours[nextHour], nextMinute)
  <2>1. UNCHANGED <<result, previousMinute>>
    BY <1>5, ReadMinuteIs
  <2>2. \A m \in before : WasRead(m)' => WasRead(m)
    BY <1>4, <1>5
  <2>3. ASSUME NEW m, NEW i PROVE InSpan(m, i)' <=> InSpan(m, i)
    BY <2>1 DEF InSpan
  <2>4. TrueSpans'
    BY <1>1, <1>2, <2>1 DEF TrueSpans, IsTime
  <2>5. LastSpan'
    BY <1>1, <1>2, <1>3, <2>1 DEF LastSpan
  <2>6. Covered'
    BY <1>1, <1>2, <2>1, <2>2, <2>3 DEF Covered
  <2>7. Recent'
    BY <1>1, <1>2, <1>4, <2>1, <2>2, <2>3 DEF Recent
  <2>8. Together'
    BY <1>1, <1>2, <2>1, <2>2, <2>3 DEF Together
  <2> QED
    BY <2>4, <2>5, <2>6, <2>7, <2>8
<1>6. CASE GotSignal(hours[nextHour], nextMinute)
  <2> DEFINE r == Len(result')
             t == SpanTime(Current)
             In(m, i) == MinuteStart(m) \in result'[i].firstMessage .. result'[i].lastMessage
  <2>1. /\ result' \in Seq(SpanType) /\ r \in Nat \ {0} /\ previousMinute' = Current
        /\ \A i \in 1 .. r : IsTime(result'[i].firstMessage) /\ IsTime(result'[i].lastMessage)
        /\ result'[r].lastMessage = t
        /\ result'[r].firstMessage <= t
        /\ \A i \in 1 .. Len(result) :
             /\ i \in 1 .. r
             /\ result'[i].firstMessage = result[i].firstMessage
             /\ result[i].lastMessage <= result'[i].lastMessage
        /\ result # <<>> /\ Current - previousMinute < MarginMinutes => r = Len(result)
    BY <1>6, AnswerGrows
  <2>2. /\ Current \in Nat /\ t = analysisStarted + Current * TicksPerMinute /\ t \in Int
    BY <1>6, FlaggedMinute
  <2>3. result \in Seq(SpanType) /\ previousMinute \in Int
    BY DEF TypeOK, SpanType
  <2>4. ASSUME NEW m \in before, NEW i \in 1 .. Len(result), InSpan(m, i)
        PROVE  i \in 1 .. r /\ In(m, i)
    <3>1. result[i] \in SpanType /\ i \in 1 .. r
      BY <2>1, <2>3
    <3>2. result'[i] \in SpanType
      BY <2>1, <3>1
    <3> DEFINE s == MinuteStart(m)
               a == result[i].firstMessage
               b == result[i].lastMessage
               d == result'[i].lastMessage
    <3>3. a \in Int /\ b \in Int /\ d \in Int /\ s \in Int
      BY <1>4, <3>1, <3>2 DEF SpanType
    <3>4. s \in a .. b /\ b <= d /\ result'[i].firstMessage = a
      BY <2>1, <2>4 DEF InSpan
    <3> HIDE DEF s, a, b, d
    <3>5. s \in a .. d
      BY <3>3, <3>4
    <3> QED
      BY <3>1, <3>4, <3>5 DEF InSpan, s, a, b, d
  <2>5. ASSUME NEW m \in before, MinuteIndex(m) = Current
        PROVE  In(m, r)
    <3>1. MinuteStart(m) = t
      <4>1. MinuteStart(m) = firstMessage + MinuteIndex(m) * TicksPerMinute
        BY <1>4, MessageTime
      <4> QED
        BY <2>2, <2>5, <4>1 DEF InOrder
    <3>2. result'[r] \in SpanType
      BY <2>1
    <3> DEFINE a == result'[r].firstMessage
               b == result'[r].lastMessage
    <3>3. a \in Int /\ b = t /\ a <= t
      BY <2>1, <3>2 DEF SpanType
    <3> HIDE DEF t, a, b
    <3>4. t \in a .. b
      BY <2>2, <3>3
    <3>5. MinuteStart(m) \in a .. b
      BY <3>1, <3>4
    <3> QED
      BY <3>5 DEF InSpan, a, b
  <2>6. ASSUME NEW m \in before, WasRead(m)
        PROVE  /\ result # <<>> /\ MinuteIndex(m) <= previousMinute /\ previousMinute < Current
    <3>1. MinuteIndex(m) <= previousMinute
      BY <1>2, <2>6 DEF Recent
    <3>2. MinuteIndex(m) >= 0
      <4>1. HourOf(m) \in Nat /\ MinuteOf(m.time) \in 0 .. HourMinutes - 1
        <5>1. firstMessage <= m.time
          <6>1. m.time \in Int /\ firstMessage \in Int
            BY <1>4, MessageTime
          <6> QED
            BY <2>6, <6>1 DEF WasRead
        <5> QED
          BY <1>4, <5>1, MessageTime
      <4>2. HourOf(m) * HourMinutes >= 0 /\ HourOf(m) * HourMinutes \in Int
        <5> DEFINE d == HourOf(m)
        <5>1. d \in Nat
          BY <4>1
        <5> HIDE DEF d
        <5>2. d = 0 \/ 0 < d
          BY <5>1
        <5>3. HourMinutes \in Nat \ {0} /\ 0 * HourMinutes = 0
          BY Scales
        <5>4. d * HourMinutes >= 0 /\ d * HourMinutes \in Int
          BY <5>1, <5>2, <5>3, TimesMonotone
        <5> QED
          BY <5>4 DEF d
      <4> QED
        BY <4>1, <4>2 DEF MinuteIndex
    <3>3. result # <<>>
      BY <1>2, <1>4, <2>3, <3>1, <3>2 DEF LastSpan
    <3>4. previousMinute < Current
      BY <1>2, <1>3, <3>3 DEF LastSpan
    <3> QED
      BY <3>1, <3>3, <3>4
  <2>7. ASSUME NEW m \in before, WasRead(m)'
        PROVE  /\ MinuteIndex(m) <= Current
               /\ Current - MinuteIndex(m) < MarginMinutes => In(m, r)
    <3>1. CASE MinuteIndex(m) = Current
      BY <2>2, <2>5, <3>1
    <3>2. CASE WasRead(m)
      <4>1. /\ result # <<>> /\ MinuteIndex(m) <= previousMinute /\ previousMinute < Current
            /\ MinuteIndex(m) \in Int /\ MarginMinutes \in Int
        BY <1>4, <2>6, <3>2, Scales
      <4>2. ASSUME Current - MinuteIndex(m) < MarginMinutes
            PROVE  In(m, r)
        <5>1. Current - previousMinute < MarginMinutes /\ previousMinute - MinuteIndex(m) < MarginMinutes
          BY <1>1, <2>3, <4>1, <4>2
        <5>2. r = Len(result)
          BY <2>1, <4>1, <5>1
        <5>3. InSpan(m, Len(result))
          BY <1>2, <3>2, <5>1 DEF Recent
        <5>4. Len(result) \in 1 .. Len(result)
          BY <2>3, <4>1
        <5> QED
          BY <2>4, <5>2, <5>3, <5>4
      <4> QED
        BY <1>1, <2>3, <4>1, <4>2
    <3> QED
      BY <1>4, <2>7, <3>1, <3>2
  <2>8. DOMAIN result' = 1 .. r /\ DOMAIN result = 1 .. Len(result) /\ r \in 1 .. r
    BY <2>1, <2>3
  <2>9. TrueSpans'
    BY <1>1, <2>1, <2>8 DEF TrueSpans, IsTime
  <2>10. LastSpan'
    <3>1. result' # <<>>
      BY <2>1
    <3>2. Current < Current + 1
      BY <2>2
    <3>3. result'[r].firstMessage <= result'[r].lastMessage
      BY <2>1
    <3>4. result'[r].lastMessage = analysisStarted + Current * TicksPerMinute
      BY <2>1, <2>2
    <3> QED
      BY <1>1, <1>3, <2>1, <2>2, <3>1, <3>2, <3>3, <3>4 DEF LastSpan
  <2>11. ASSUME NEW m \in before, WasRead(m)' PROVE \E i \in 1 .. r : In(m, i)
    <3>1. CASE MinuteIndex(m) = Current
      BY <2>5, <2>8, <3>1
    <3>2. CASE WasRead(m)
      <4>1. PICK i \in 1 .. Len(result) : InSpan(m, i)
        BY <1>2, <2>8, <3>2 DEF Covered
      <4> QED
        BY <2>4, <4>1
    <3> QED
      BY <1>4, <2>11, <3>1, <3>2
  <2>12. Covered'
    BY <1>1, <2>8, <2>11 DEF Covered, InSpan
  <2>13. Recent'
    <3>1. \A m \in before : InSpan(m, Len(result))' <=> In(m, r)
      BY DEF InSpan
    <3> HIDE DEF r, In
    <3> QED
      BY <1>1, <1>4, <2>1, <2>7, <3>1 DEF Recent
  <2>14. ASSUME NEW m \in before, NEW o \in before, WasRead(m)', WasRead(o)',
                MinutesApart(m, o) \in 0 .. MarginMinutes - 1
         PROVE  \E i \in 1 .. r : In(m, i) /\ In(o, i)
    <3>1. MinutesApart(m, o) = MinuteIndex(m) - MinuteIndex(o)
      <4> DEFINE x == MinuteIndex(m)
                 y == MinuteIndex(o)
                 a == MinuteStart(m)
                 b == MinuteStart(o)
      <4>1. /\ x \in Int /\ y \in Int /\ a \in Int /\ b \in Int /\ firstMessage \in Int
            /\ a = firstMessage + x * TicksPerMinute /\ b = firstMessage + y * TicksPerMinute
        BY <1>4, MessageTime
      <4>2. MinutesApart(m, o) = (a - b) \div TicksPerMinute
        BY DEF MinutesApart
      <4> HIDE DEF x, y, a, b
      <4>3. x * TicksPerMinute \in Int /\ y * TicksPerMinute \in Int /\ TicksPerMinute \in Nat \ {0}
        BY <4>1, Scales
      <4>4. (x + (-y)) * TicksPerMinute = x * TicksPerMinute + (-y) * TicksPerMinute
            /\ (-y) * TicksPerMinute = -(y * TicksPerMinute)
        BY <4>1, <4>3, Distribute
      <4>5. x - y \in Int /\ x - y = x + (-y)
        BY <4>1
      <4>6. a - b = (x - y) * TicksPerMinute + 0 /\ a - b \in Int /\ 0 \in 0 .. TicksPerMinute - 1
        BY <4>1, <4>3, <4>4, <4>5
      <4>7. (a - b) \div TicksPerMinute = x - y
        BY <4>3, <4>5, <4>6, DivUnique
      <4> QED
        BY <4>2, <4>7 DEF x, y
    <3>2. /\ MinuteIndex(m) \in Int /\ MinuteIndex(o) \in Int /\ MarginMinutes \in Nat
          /\ MinuteIndex(m) <= Current /\ MinuteIndex(o) <= Current
      BY <1>4, <2>7, <2>14, Scales
    <3>3. CASE MinuteIndex(m) = Current
      <4>1. Current - MinuteIndex(o) < MarginMinutes
        BY <2>14, <3>1, <3>2, <3>3
      <4> QED
        BY <2>5, <2>7, <2>8, <2>14, <3>3, <4>1
    <3>4. CASE MinuteIndex(m) # Current
      <4>1. MinuteIndex(o) # Current
        BY <2>14, <3>1, <3>2, <3>4
      <4>2. WasRead(m) /\ WasRead(o)
        BY <1>4, <2>14, <3>4, <4>1
      <4>3. PICK i \in 1 .. Len(result) : InSpan(m, i) /\ InSpan(o, i)
        BY <1>2, <2>8, <2>14, <4>2 DEF Together
      <4> QED
        BY <2>4, <4>3
    <3> QED
      BY <3>3, <3>4
  <2>15. Together'
    BY <1>1, <2>8, <2>14 DEF Together, InSpan
  <2> QED
    BY <2>9, <2>10, <2>12, <2>13, <2>15
<1> QED
  BY <1>5, <1>6

LEMMA NextTrack ==
  ASSUME TypeOK, TypeOK', FlagInv, Phases, FeedIsShort, TrackInv, [Next]_vars
  PROVE  TrackInv'
<1>1. ASSUME NEW t \in Timestamps, NEW p \in Positions, Calculate(t, p) PROVE TrackInv'
  BY <1>1, TrackKept DEF Calculate, queryVars
<1>2. CASE Register
  BY <1>2, RegisterIs, TrackKept DEF helperVars, queryVars
<1>3. CASE StorePosition
  BY <1>3, StoreIs, TrackKept DEF helperVars, queryVars
<1>4. ASSUME NEW h \in HourStarts, Trim(h) PROVE TrackInv'
  <2>1. trims \in Nat /\ trims' = trims + 1
    BY <1>4 DEF TypeOK, Trim
  <2>2. trims' # 0
    BY <2>1
  <2> QED
    BY <2>2 DEF TrackInv, InOrder
<1>5. ASSUME NEW from \in Requested, NEW to \in Requested, StartQuery(from, to) PROVE TrackInv'
  BY <1>5, StartQueryTrack
<1>6. CASE ReadHour
  BY <1>6, ReadHourTrack
<1>7. CASE ReadMinute
  BY <1>7, ReadMinuteTrack
<1>8. CASE Answer
  BY <1>8, TrackKept DEF Answer, helperVars
<1>9. CASE UNCHANGED vars
  BY <1>9, TrackKept DEF vars, helperVars, queryVars
<1> QED
  BY <1>1, <1>2, <1>3, <1>4, <1>5, <1>6, <1>7, <1>8, <1>9 DEF Next, Quiescent

LEMMA TrackInvImplies ==
  ASSUME TypeOK, Phases, TrackInv
  PROVE  TrackIsTrue /\ TrackIsComplete
<1> SUFFICES ASSUME queryPc = "answered", InOrder
             PROVE  /\ \A i \in DOMAIN result :
                         /\ \E m \in heard : MinuteStart(m) = result[i].firstMessage
                         /\ \E m \in heard : MinuteStart(m) = result[i].lastMessage
                    /\ \A m, n \in Asked :
                         m = n \/ MinutesApart(m, n) \in 0 .. MarginMinutes - 1 =>
                           \E i \in DOMAIN result :
                             \A e \in {m, n} : MinuteStart(e) \in result[i].firstMessage .. result[i].lastMessage
  BY DEF TrackIsTrue, TrackIsComplete
<1>1. TrueSpans /\ Covered /\ Together
  BY DEF TrackInv
<1>2. \A i \in DOMAIN result :
        /\ \E m \in heard : MinuteStart(m) = result[i].firstMessage
        /\ \E m \in heard : MinuteStart(m) = result[i].lastMessage
  BY <1>1 DEF TrueSpans, IsTime
<1>3. ASSUME NEW m \in Asked PROVE m \in before /\ WasRead(m)
  <2>1. m \in before /\ m \in heard /\ m.time >= firstMessage
    BY DEF Asked, TypeOK
  <2>2. HourOf(m) \in startHour .. endHour - 1
    BY DEF Asked, HourOf, InOrder
  <2>3. nextHour >= endHour /\ nextMinute = HourMinutes
    BY DEF Phases
  <2>4. startHour \in Int /\ endHour \in Int /\ nextHour \in Int /\ HourMinutes \in Nat \ {0}
    BY Scales DEF TypeOK, HourKeys
  <2>5. NextToRead = nextHour * HourMinutes + 0
    BY <2>3, <2>4 DEF NextToRead
  <2>6. HourOf(m) < nextHour /\ HourOf(m) >= startHour
    BY <2>2, <2>3, <2>4
  <2>7. nextHour * HourMinutes \in Int /\ MinuteIndex(m) < nextHour * HourMinutes
    BY <2>1, <2>4, <2>6, MinuteIsBelow
  <2>8. MinuteIndex(m) < NextToRead
    BY <2>5, <2>7
  <2> QED
    BY <2>1, <2>6, <2>8 DEF WasRead
<1>4. ASSUME NEW m \in Asked, NEW n \in Asked,
             m = n \/ MinutesApart(m, n) \in 0 .. MarginMinutes - 1
      PROVE  \E i \in DOMAIN result :
               \A e \in {m, n} : MinuteStart(e) \in result[i].firstMessage .. result[i].lastMessage
  <2>1. CASE m = n
    <3>1. PICK i \in DOMAIN result : InSpan(m, i)
      BY <1>1, <1>3 DEF Covered
    <3> QED
      BY <2>1, <3>1 DEF InSpan
  <2>2. CASE MinutesApart(m, n) \in 0 .. MarginMinutes - 1
    <3>1. PICK i \in DOMAIN result : InSpan(m, i) /\ InSpan(n, i)
      BY <1>1, <1>3, <2>2 DEF Together
    <3> QED
      BY <3>1 DEF InSpan
  <2> QED
    BY <1>4, <2>1, <2>2
<1> QED
  BY <1>2, <1>4

LEMMA TrackInvariant ==
  ASSUME FeedIsShort
  PROVE  Spec => [](TrackIsTrue /\ TrackIsComplete)
<1> DEFINE Inv == TypeOK /\ Registering /\ FlagInv /\ Phases /\ TrackInv
<1>1. Init => Inv
  <2> SUFFICES ASSUME Init PROVE Inv
    OBVIOUS
  <2>1. TypeOK /\ Registering /\ Phases
    BY InitTypes, RegisteringKept, NextPhases
  <2>2. DOMAIN hours = {} /\ heard = {} /\ regPc = "idle" /\ torn = FALSE /\ queryPc = "idle"
    BY DEF Init
  <2>3. FlagInv
    BY <2>2 DEF FlagInv, Flagged, NotTorn, AllFlagged
  <2>4. TrackInv
    BY <2>2 DEF TrackInv
  <2> QED
    BY <2>1, <2>3, <2>4
<1>2. Inv /\ [Next]_vars => Inv'
  <2> SUFFICES ASSUME Inv, [Next]_vars PROVE Inv'
    OBVIOUS
  <2>1. TypeOK'
    BY NextTypes
  <2> QED
    BY <2>1, RegisteringKept, NextFlags, NextPhases, NextTrack
<1>3. Inv => TrackIsTrue /\ TrackIsComplete
  BY TrackInvImplies
<1> HIDE DEF Inv
<1> QED
  BY <1>1, <1>2, <1>3, PTL DEF Spec

(* TrackIsTrue: while the window has never been trimmed and begins where the *)
(* analysis did, every time span of an answer begins and ends in the minute  *)
(* of a message of the ship, however the request's loop and registerMessage  *)
(* interleave.                                                               *)
THEOREM TrackStaysTrue ==
  ASSUME FeedIsShort
  PROVE  Spec => []TrackIsTrue
<1>1. Spec => [](TrackIsTrue /\ TrackIsComplete)
  BY TrackInvariant
<1> QED
  BY <1>1, PTL

(* TrackIsComplete: ... and the answer has every message of the hours asked  *)
(* for that was registered before the request, in the same span as those     *)
(* less than the margin apart.                                               *)
THEOREM TrackStaysComplete ==
  ASSUME FeedIsShort
  PROVE  Spec => []TrackIsComplete
<1>1. Spec => [](TrackIsTrue /\ TrackIsComplete)
  BY TrackInvariant
<1> QED
  BY <1>1, PTL
=============================================================================
