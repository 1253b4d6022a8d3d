-------------------------- MODULE SatTimeSpans_proofs --------------------------
(***************************************************************************)
(* Proofs about SatTimeSpans for any margin, lateness and window, and any    *)
(* number of messages and trims: the calculator inserts, extends and merges  *)
(* spans while the Purger removes them at any moment.  No assumption is made *)
(* but SpansAssumption.                                                     *)
(***************************************************************************)
EXTENDS SatTimeSpans, SequenceTheorems, SumTheorems

(* The list after an insertion, and after two neighbours became one.         *)
LEMMA InsertAtFacts ==
  ASSUME NEW S, NEW s \in Seq(S), NEW i \in 1 .. Len(s) + 1, NEW x \in S
  PROVE  /\ InsertAt(s, i, x) \in Seq(S)
         /\ Len(InsertAt(s, i, x)) = Len(s) + 1
         /\ \A j \in 1 .. Len(s) + 1 :
              InsertAt(s, i, x)[j] = IF j < i THEN s[j] ELSE IF j = i THEN x ELSE s[j - 1]
<1> DEFINE a == SubSeq(s, 1, i - 1)
           b == SubSeq(s, i, Len(s))
<1>1. /\ a \in Seq(S) /\ Len(a) = i - 1 /\ \A j \in 1 .. i - 1 : a[j] = s[j]
      /\ b \in Seq(S) /\ Len(b) = Len(s) - i + 1 /\ \A j \in 1 .. Len(s) - i + 1 : b[j] = s[i + j - 1]
  OBVIOUS
<1> HIDE DEF a, b
<1>2. <<x>> \in Seq(S) /\ Len(<<x>>) = 1 /\ <<x>>[1] = x
  OBVIOUS
<1> DEFINE c == a \o <<x>>
<1>3. c \in Seq(S) /\ Len(c) = i /\ \A j \in 1 .. i : c[j] = IF j < i THEN s[j] ELSE x
  BY <1>1, <1>2
<1> HIDE DEF c
<1>4. /\ c \o b \in Seq(S) /\ Len(c \o b) = Len(s) + 1
      /\ \A j \in 1 .. Len(s) + 1 : (c \o b)[j] = IF j <= i THEN c[j] ELSE b[j - i]
  BY <1>1, <1>3
<1>5. \A j \in 1 .. Len(s) + 1 : (c \o b)[j] = IF j < i THEN s[j] ELSE IF j = i THEN x ELSE s[j - 1]
  BY <1>1, <1>3, <1>4
<1>6. InsertAt(s, i, x) = c \o b
  BY DEF InsertAt, a, b, c
<1> QED
  BY <1>4, <1>5, <1>6

ReplaceTwo(s, i, x) == SubSeq(s, 1, i - 1) \o <<x>> \o SubSeq(s, i + 2, Len(s))

IsReplaced(r, s, i, x) ==
  /\ Len(r) = Len(s) - 1
  /\ \A j \in 1 .. Len(s) - 1 : r[j] = IF j < i THEN s[j] ELSE IF j = i THEN x ELSE s[j + 1]

LEMMA ReplaceTwoFacts ==
  ASSUME NEW S, NEW s \in Seq(S), NEW i \in 1 .. Len(s) - 1, NEW x \in S
  PROVE  ReplaceTwo(s, i, x) \in Seq(S) /\ IsReplaced(ReplaceTwo(s, i, x), s, i, x)
<1> DEFINE a == SubSeq(s, 1, i - 1)
           b == SubSeq(s, i + 2, Len(s))
<1>1. /\ a \in Seq(S) /\ Len(a) = i - 1 /\ \A j \in 1 .. i - 1 : a[j] = s[j]
      /\ b \in Seq(S) /\ Len(b) = Len(s) - i - 1 /\ \A j \in 1 .. Len(s) - i - 1 : b[j] = s[i + j + 1]
  <2>1. a \in Seq(S) /\ Len(a) = i - 1 /\ \A j \in 1 .. i - 1 : a[j] = s[j]
    OBVIOUS
  <2>2. PICK k \in Nat : k = i + 2 /\ k <= Len(s) + 1
    OBVIOUS
  <2>3. /\ SubSeq(s, k, Len(s)) \in Seq(S) /\ Len(SubSeq(s, k, Len(s))) = Len(s) - k + 1
        /\ \A j \in 1 .. Len(s) - k + 1 : SubSeq(s, k, Len(s))[j] = s[k + j - 1]
    BY <2>2
  <2> QED
    BY <2>1, <2>2, <2>3
<1> HIDE DEF a, b
<1>2. <<x>> \in Seq(S) /\ Len(<<x>>) = 1 /\ <<x>>[1] = x
  OBVIOUS
<1> DEFINE c == a \o <<x>>
<1>3. c \in Seq(S) /\ Len(c) = i /\ \A j \in 1 .. i : c[j] = IF j < i THEN s[j] ELSE x
  BY <1>1, <1>2
<1> HIDE DEF c
<1>4. /\ c \o b \in Seq(S) /\ Len(c \o b) = Len(s) - 1
      /\ \A j \in 1 .. Len(s) - 1 : (c \o b)[j] = IF j <= i THEN c[j] ELSE b[j - i]
  <2>1. Len(c) + Len(b) = Len(s) - 1 /\ i \in Nat
    BY <1>1, <1>3
  <2>0. c \in Seq(S) /\ b \in Seq(S)
    BY <1>1, <1>3
  <2>2. c \o b \in Seq(S) /\ Len(c \o b) = Len(c) + Len(b)
    BY <2>0
  <2>3. \A j \in 1 .. Len(c) + Len(b) : (c \o b)[j] = IF j <= Len(c) THEN c[j] ELSE b[j - Len(c)]
    BY <1>1, <1>3
  <2> QED
    BY <1>3, <2>1, <2>2, <2>3
<1>5. \A j \in 1 .. Len(s) - 1 : (c \o b)[j] = IF j < i THEN s[j] ELSE IF j = i THEN x ELSE s[j + 1]
  BY <1>1, <1>3, <1>4
<1>6. ReplaceTwo(s, i, x) = c \o b
  BY DEF ReplaceTwo, a, b, c
<1> QED
  BY <1>4, <1>5, <1>6 DEF IsReplaced

LEMMA TailFacts ==
  ASSUME NEW S, NEW s \in Seq(S), s # <<>>
  PROVE  /\ Tail(s) \in Seq(S) /\ Len(Tail(s)) = Len(s) - 1 /\ Len(s) \in Nat \ {0}
         /\ \A j \in 1 .. Len(s) - 1 : Tail(s)[j] = s[j + 1]
         /\ Head(s) = s[1] /\ s[1] \in S
  OBVIOUS
-----------------------------------------------------------------------------
(* A lost message is one whose calculation is over.                          *)
LostIsOver == lost + (IF calcPc = "idle" THEN 0 ELSE 1) <= messages

Typed == TypeOK /\ LostIsOver

LEMMA SpanIs ==
  ASSUME NEW f \in Times, NEW l \in Times, NEW n \in Nat
  PROVE  /\ Span(f, l, n) \in SpanType
         /\ Span(f, l, n).first = f /\ Span(f, l, n).last = l /\ Span(f, l, n).messageCounterSat = n
  BY DEF Span, SpanType

(* Appending a span to the heap leaves the others where they are.            *)
LEMMA HeapAppended ==
  ASSUME NEW hp \in Seq(SpanType), NEW x \in SpanType
  PROVE  /\ Append(hp, x) \in Seq(SpanType) /\ Len(Append(hp, x)) = Len(hp) + 1 /\ Len(hp) \in Nat
         /\ Append(hp, x)[Len(hp) + 1] = x
         /\ \A i \in 1 .. Len(hp) : Append(hp, x)[i] = hp[i]
         /\ 1 .. Len(hp) \subseteq 1 .. Len(hp) + 1
         /\ \A s \in Seq(1 .. Len(hp)) : s \in Seq(1 .. Len(hp) + 1)
<1>1. Len(hp) \in Nat /\ 1 .. Len(hp) \subseteq 1 .. Len(hp) + 1
  OBVIOUS
<1>2. \A s \in Seq(1 .. Len(hp)) : s \in Seq(1 .. Len(hp) + 1)
  BY <1>1
<1> QED
  BY <1>1, <1>2

LEMMA InitTyped == Init => Typed
<1> SUFFICES ASSUME Init PROVE Typed
  OBVIOUS
<1> USE SpansAssumption
<1>1. heap \in Seq(SpanType) /\ Len(heap) = 0 /\ list \in Seq(1 .. Len(heap))
  BY DEF Init
<1>2. 0 \in Times
  BY DEF Times
<1>3. TypeOK
  <2>1. messages \in 0 .. MaxMessages /\ lost \in 0 .. MaxMessages /\ trims \in 0 .. MaxTrims
        /\ timeSpan \in 0 .. Len(heap)
    BY <1>1 DEF Init, NoSpan
  <2>2. fixedSat \in Nat /\ fixedTerrestrial \in Nat /\ timeSpanPos \in Nat \ {0}
        /\ numberToRemove \in Nat /\ dropped \in Nat
    BY DEF Init
  <2> HIDE SpansAssumption
  <2> QED
    BY <1>1, <1>2, <2>1, <2>2 DEF Init, TypeOK
<1>4. LostIsOver
  BY DEF Init, LostIsOver
<1> QED
  BY <1>3, <1>4 DEF Typed

(* What the steps make of the list and of the heap.                          *)
LEMMA InsertAtEmpty ==
  ASSUME NEW x
  PROVE  InsertAt(<<>>, 1, x) = <<x>>
<1>1. <<>> \in Seq({x}) /\ <<x>> \in Seq({x}) /\ Len(<<>>) = 0
  OBVIOUS
<1>2. SubSeq(<<>>, 1, 1 - 1) = <<>> /\ SubSeq(<<>>, 1, Len(<<>>)) = <<>>
  BY <1>1, SubSeqEmpty
<1>3. <<>> \o <<x>> = <<x>> /\ <<x>> \o <<>> = <<x>>
  BY <1>1, ConcatEmptySeq
<1> QED
  BY <1>2, <1>3 DEF InsertAt

(* a reference to a new span is put into the list                            *)
LEMMA InsertNewFacts ==
  ASSUME NEW n \in Nat, NEW s \in Seq(1 .. n), NEW i \in 1 .. Len(s) + 1
  PROVE  /\ InsertAt(s, i, n + 1) \in Seq(1 .. n + 1)
         /\ Len(InsertAt(s, i, n + 1)) = Len(s) + 1
         /\ \A j \in 1 .. Len(s) + 1 :
              InsertAt(s, i, n + 1)[j] = IF j < i THEN s[j] ELSE IF j = i THEN n + 1 ELSE s[j - 1]
<1> DEFINE R == 1 .. n + 1
           x == n + 1
<1>1. s \in Seq(R) /\ x \in R
  OBVIOUS
<1> HIDE DEF R, x
<1>2. /\ InsertAt(s, i, x) \in Seq(R) /\ Len(InsertAt(s, i, x)) = Len(s) + 1
      /\ \A j \in 1 .. Len(s) + 1 :
           InsertAt(s, i, x)[j] = IF j < i THEN s[j] ELSE IF j = i THEN x ELSE s[j - 1]
  BY <1>1, InsertAtFacts
<1> QED
  BY <1>2 DEF R, x

NewSpanAt(i, t) ==
  /\ heap' = Append(heap, Span(t, t, 0))
  /\ list' = InsertAt(list, i, Len(heap) + 1)

LEMMA NewSpan ==
  ASSUME TypeOK, NEW t \in Times, NEW i \in 1 .. Len(list) + 1, NewSpanAt(i, t)
  PROVE  /\ heap' \in Seq(SpanType) /\ Len(heap') = Len(heap) + 1 /\ Len(heap) \in Nat
         /\ heap'[Len(heap) + 1] = Span(t, t, 0)
         /\ \A k \in 1 .. Len(heap) : heap'[k] = heap[k]
         /\ list' \in Seq(1 .. Len(heap')) /\ Len(list') = Len(list) + 1 /\ Len(list) \in Nat
         /\ \A j \in 1 .. Len(list) + 1 :
              list'[j] = IF j < i THEN list[j] ELSE IF j = i THEN Len(heap) + 1 ELSE list[j - 1]
<1>1. heap \in Seq(SpanType) /\ list \in Seq(1 .. Len(heap)) /\ Len(heap) \in Nat /\ Len(list) \in Nat
  BY DEF TypeOK
<1>2. 0 \in Nat /\ Span(t, t, 0) \in SpanType
  BY SpanIs
<1>3. /\ heap' \in Seq(SpanType) /\ Len(heap') = Len(heap) + 1
      /\ heap'[Len(heap) + 1] = Span(t, t, 0) /\ \A k \in 1 .. Len(heap) : heap'[k] = heap[k]
  BY <1>1, <1>2, HeapAppended DEF NewSpanAt
<1>4. /\ list' \in Seq(1 .. Len(heap) + 1) /\ Len(list') = Len(list) + 1
      /\ \A j \in 1 .. Len(list) + 1 :
           list'[j] = IF j < i THEN list[j] ELSE IF j = i THEN Len(heap) + 1 ELSE list[j - 1]
  <2>1. list' = InsertAt(list, i, Len(heap) + 1)
    BY DEF NewSpanAt
  <2> QED
    BY <1>1, <2>1, InsertNewFacts
<1> QED
  BY <1>1, <1>3, <1>4

LEMMA SpanFields ==
  ASSUME TypeOK, NEW k \in 1 .. Len(heap)
  PROVE  /\ heap[k] \in SpanType
         /\ heap[k].first \in Times /\ heap[k].last \in Times /\ heap[k].messageCounterSat \in Nat
<1>1. heap[k] \in SpanType
  BY DEF TypeOK
<1> QED
  BY <1>1 DEF SpanType

LEMMA TimesAreNat == Times \subseteq Nat /\ 0 \in Times
  BY SpansAssumption DEF Times

(* A span of the heap gets another end.                                      *)
LEMMA GrownHeap ==
  ASSUME TypeOK, timeSpan \in 1 .. Len(heap),
         NEW grown, grown = [heap EXCEPT ![timeSpan].last = now]
  PROVE  /\ grown \in Seq(SpanType) /\ Len(grown) = Len(heap) /\ Len(heap) \in Nat
         /\ \A k \in 1 .. Len(heap) :
              /\ grown[k].first = heap[k].first
              /\ grown[k].last = IF k = timeSpan THEN now ELSE heap[k].last
              /\ grown[k].messageCounterSat = heap[k].messageCounterSat
<1>1. heap \in Seq(SpanType) /\ now \in Times /\ Len(heap) \in Nat
  BY DEF TypeOK
<1> DEFINE s == [heap[timeSpan] EXCEPT !.last = now]
<1>2. s \in SpanType /\ s.first = heap[timeSpan].first /\ s.last = now
      /\ s.messageCounterSat = heap[timeSpan].messageCounterSat
  BY <1>1, SpanFields DEF SpanType
<1>3. grown = [heap EXCEPT ![timeSpan] = s]
  OBVIOUS
<1> HIDE DEF s
<1>4. grown \in Seq(SpanType) /\ Len(grown) = Len(heap)
      /\ \A k \in 1 .. Len(heap) : grown[k] = IF k = timeSpan THEN s ELSE heap[k]
  BY <1>1, <1>2, <1>3, ExceptSeq
<1> QED
  BY <1>1, <1>2, <1>4

LEMMA CountedHeap ==
  ASSUME TypeOK, timeSpan \in 1 .. Len(heap),
         heap' = [heap EXCEPT ![timeSpan].messageCounterSat = @ + 1]
  PROVE  /\ heap' \in Seq(SpanType) /\ Len(heap') = Len(heap) /\ Len(heap) \in Nat
         /\ \A k \in 1 .. Len(heap) :
              /\ heap'[k].first = heap[k].first /\ heap'[k].last = heap[k].last
              /\ heap'[k].messageCounterSat = IF k = timeSpan THEN heap[k].messageCounterSat + 1
                                              ELSE heap[k].messageCounterSat
<1>1. heap \in Seq(SpanType) /\ Len(heap) \in Nat
  BY DEF TypeOK
<1> DEFINE s == [heap[timeSpan] EXCEPT !.messageCounterSat = @ + 1]
<1>2. s \in SpanType /\ s.first = heap[timeSpan].first /\ s.last = heap[timeSpan].last
      /\ s.messageCounterSat = heap[timeSpan].messageCounterSat + 1
  <2>1. heap[timeSpan] \in SpanType
    BY <1>1
  <2>2. heap[timeSpan].messageCounterSat + 1 \in Nat
    BY SpanFields
  <2> QED
    BY <2>1, <2>2 DEF SpanType
<1>3. heap' = [heap EXCEPT ![timeSpan] = s]
  OBVIOUS
<1> HIDE DEF s
<1>4. heap' \in Seq(SpanType) /\ Len(heap') = Len(heap)
      /\ \A k \in 1 .. Len(heap) : heap'[k] = IF k = timeSpan THEN s ELSE heap[k]
  BY <1>1, <1>2, <1>3, ExceptSeq
<1> QED
  BY <1>1, <1>2, <1>4

Neighbour == list[timeSpanPos + 1]

MergeAt(grown) ==
  /\ heap' = Append(grown, Merged(grown[timeSpan], grown[Neighbour]))
  /\ list' = ReplaceTwo(list, timeSpanPos, Len(heap) + 1)

LEMMA MergedStep ==
  ASSUME TypeOK, timeSpan \in 1 .. Len(heap), Len(list) > timeSpanPos,
         NEW grown, grown = [heap EXCEPT ![timeSpan].last = now], MergeAt(grown)
  PROVE  /\ timeSpanPos \in 1 .. Len(list) - 1 /\ Neighbour \in 1 .. Len(heap)
         /\ heap' \in Seq(SpanType) /\ Len(heap') = Len(heap) + 1 /\ Len(heap) \in Nat
         /\ \A k \in 1 .. Len(heap) :
              /\ heap'[k].first = heap[k].first
              /\ heap'[k].last = IF k = timeSpan THEN now ELSE heap[k].last
              /\ heap'[k].messageCounterSat = heap[k].messageCounterSat
         /\ heap'[Len(heap) + 1].first = heap[timeSpan].first
         /\ heap'[Len(heap) + 1].last = IF Neighbour = timeSpan THEN now ELSE heap[Neighbour].last
         /\ heap'[Len(heap) + 1].messageCounterSat
              = heap[timeSpan].messageCounterSat + heap[Neighbour].messageCounterSat
         /\ list' \in Seq(1 .. Len(heap')) /\ Len(list') = Len(list) - 1 /\ Len(list) \in Nat
         /\ \A j \in 1 .. Len(list) - 1 :
              list'[j] = IF j < timeSpanPos THEN list[j]
                         ELSE IF j = timeSpanPos THEN Len(heap) + 1 ELSE list[j + 1]
<1>1. /\ heap \in Seq(SpanType) /\ list \in Seq(1 .. Len(heap)) /\ Len(heap) \in Nat
      /\ Len(list) \in Nat /\ timeSpanPos \in Nat \ {0}
  BY DEF TypeOK
<1>2. timeSpanPos \in 1 .. Len(list) - 1 /\ timeSpanPos + 1 \in 1 .. Len(list)
  <2> DEFINE n == Len(list)
  <2>1. n \in Nat /\ timeSpanPos \in Nat \ {0} /\ n > timeSpanPos
    BY <1>1
  <2> HIDE DEF n
  <2>2. timeSpanPos \in 1 .. n - 1 /\ timeSpanPos + 1 \in 1 .. n
    BY <2>1
  <2> QED
    BY <2>2 DEF n
<1>3. Neighbour \in 1 .. Len(heap)
  BY <1>1, <1>2, ElementOfSeq DEF Neighbour
<1>4. /\ grown \in Seq(SpanType) /\ Len(grown) = Len(heap)
      /\ \A k \in 1 .. Len(heap) :
           /\ grown[k].first = heap[k].first
           /\ grown[k].last = IF k = timeSpan THEN now ELSE heap[k].last
           /\ grown[k].messageCounterSat = heap[k].messageCounterSat
  BY GrownHeap
<1> DEFINE m == Merged(grown[timeSpan], grown[Neighbour])
<1>5. /\ m \in SpanType /\ m.first = heap[timeSpan].first
      /\ m.last = IF Neighbour = timeSpan THEN now ELSE heap[Neighbour].last
      /\ m.messageCounterSat = heap[timeSpan].messageCounterSat + heap[Neighbour].messageCounterSat
  <2>1. now \in Times
    BY DEF TypeOK
  <2>2. /\ grown[timeSpan].first \in Times /\ grown[Neighbour].last \in Times
        /\ grown[timeSpan].messageCounterSat + grown[Neighbour].messageCounterSat \in Nat
    BY <1>3, <1>4, <2>1, SpanFields
  <2>3. /\ m \in SpanType /\ m.first = grown[timeSpan].first /\ m.last = grown[Neighbour].last
        /\ m.messageCounterSat = grown[timeSpan].messageCounterSat + grown[Neighbour].messageCounterSat
    BY <2>2, SpanIs DEF Merged
  <2> HIDE DEF m
  <2> QED
    BY <1>3, <1>4, <2>3
<1> HIDE DEF m
<1>6. heap' = Append(grown, m)
  BY DEF MergeAt, m
<1>7. /\ heap' \in Seq(SpanType) /\ Len(heap') = Len(heap) + 1 /\ heap'[Len(heap) + 1] = m
      /\ \A k \in 1 .. Len(heap) : heap'[k] = grown[k]
      /\ list \in Seq(1 .. Len(heap) + 1)
  BY <1>1, <1>4, <1>5, <1>6, HeapAppended
<1>8. /\ list' \in Seq(1 .. Len(heap) + 1) /\ Len(list') = Len(list) - 1
      /\ \A j \in 1 .. Len(list) - 1 :
           list'[j] = IF j < timeSpanPos THEN list[j]
                      ELSE IF j = timeSpanPos THEN Len(heap) + 1 ELSE list[j + 1]
  <2> DEFINE R == 1 .. Len(heap) + 1
             x == Len(heap) + 1
             i == timeSpanPos
  <2>1. list \in Seq(R) /\ x \in R /\ i \in 1 .. Len(list) - 1 /\ list' = ReplaceTwo(list, i, x)
    BY <1>1, <1>2, <1>7 DEF MergeAt
  <2> HIDE DEF R, x, i
  <2>2. ReplaceTwo(list, i, x) \in Seq(R) /\ IsReplaced(ReplaceTwo(list, i, x), list, i, x)
    BY <2>1, ReplaceTwoFacts, Zenon
  <2> QED
    BY <2>1, <2>2 DEF R, x, i, IsReplaced
<1> QED
  BY <1>1, <1>2, <1>3, <1>4, <1>5, <1>7, <1>8

(* Extend does one of three things.                                          *)
LEMMA ExtendCases ==
  ASSUME Extend
  PROVE  \/ heap[timeSpan].last >= now /\ UNCHANGED <<listVars, timeSpan>>
         \/ /\ ~(heap[timeSpan].last >= now)
            /\ heap' = [heap EXCEPT ![timeSpan].last = now] /\ UNCHANGED <<list, timeSpan>>
         \/ /\ ~(heap[timeSpan].last >= now) /\ Len(list) > timeSpanPos
            /\ MergeAt([heap EXCEPT ![timeSpan].last = now])
            /\ timeSpan' = Len(heap) + 1
  BY DEF Extend, MergeAt, ReplaceTwo, Neighbour

LEMMA FoundIs ==
  ASSUME TypeOK, Matches # {}
  PROVE  Found \in DOMAIN list /\ Found \in Nat \ {0} /\ Found <= Len(list)
         /\ \A i \in Matches : Found <= i
         /\ heap[list[Found]].first <= now
<1>1. list \in Seq(1 .. Len(heap)) /\ DOMAIN list = 1 .. Len(list) /\ Len(list) \in Nat
  BY DEF TypeOK
<1>2. Matches \subseteq Nat /\ Matches \subseteq 1 .. Len(list)
  BY <1>1 DEF Matches
<1>3. PICK x \in Matches : \A y \in Matches : x <= y
  BY <1>2, SmallestElement
<1>4. Found \in Matches /\ \A y \in Matches : Found <= y
  BY <1>3 DEF Found, Min
<1> QED
  BY <1>1, <1>2, <1>4 DEF Matches
-----------------------------------------------------------------------------
(* A satellite message on an empty list makes its first span.                *)
LEMMA FirstSpan ==
  ASSUME TypeOK, NEW t \in Times, CalculateSat(t)
  PROVE  \/ list # <<>> /\ UNCHANGED listVars
         \/ list = <<>> /\ NewSpanAt(1, t) /\ 1 \in 1 .. Len(list) + 1 /\ Len(list) = 0
<1>1. CASE list = <<>>
  <2>1. /\ list' = <<Len(heap) + 1>> /\ heap' = Append(heap, Span(t, t, 0))
    BY <1>1 DEF CalculateSat
  <2> QED
    BY <1>1, <2>1, InsertAtEmpty DEF NewSpanAt
<1>2. CASE list # <<>>
  BY <1>2 DEF CalculateSat
<1> QED
  BY <1>1, <1>2

LEMMA SearchCases ==
  ASSUME TypeOK, Search
  PROVE  \/ /\ Matches = {} /\ NewSpanAt(1, now) /\ 1 \in 1 .. Len(list) + 1
            /\ timeSpan' = Len(heap) + 1 /\ timeSpanPos' = 1
         \/ /\ Matches # {} /\ UNCHANGED listVars
            /\ timeSpan' = list[Found] /\ timeSpanPos' = Found
<1>1. Len(list) \in Nat
  BY DEF TypeOK
<1>2. 1 \in 1 .. Len(list) + 1
  BY <1>1
<1> QED
  BY <1>2 DEF Search, NewSpanAt

LEMMA InsertCases ==
  ASSUME TypeOK, Insert
  PROVE  \/ /\ ~IsOutdated /\ calcPc' = "extend" /\ UNCHANGED <<listVars, timeSpan, timeSpanPos, lost>>
         \/ /\ IsOutdated /\ calcPc' = "count" /\ UNCHANGED lost
            /\ timeSpanPos <= Len(list) /\ timeSpanPos + 1 \in 1 .. Len(list) + 1
            /\ NewSpanAt(timeSpanPos + 1, now)
            /\ timeSpan' = Len(heap) + 1 /\ timeSpanPos' = timeSpanPos + 1
         \/ /\ IsOutdated /\ calcPc' = "idle" /\ lost' = lost + 1
            /\ ~(timeSpanPos <= Len(list)) /\ UNCHANGED <<listVars, timeSpan, timeSpanPos>>
<1>1. Len(list) \in Nat /\ timeSpanPos \in Nat \ {0}
  BY DEF TypeOK
<1>2. timeSpanPos <= Len(list) => timeSpanPos + 1 \in 1 .. Len(list) + 1
  BY <1>1
<1> QED
  BY <1>2 DEF Insert, NewSpanAt

LEMMA ArriveTyped ==
  ASSUME Typed, NEW t \in Times, Arrive(t)
  PROVE  /\ messages' \in 0 .. MaxMessages /\ newest' \in Times /\ latestMessage' \in Times
         /\ messages' = messages + 1 /\ calcPc = "idle" /\ lost + 1 <= messages'
<1>1. messages \in 0 .. MaxMessages /\ lost \in 0 .. MaxMessages /\ newest \in Times
  BY DEF Typed, TypeOK
<1>2. messages' = messages + 1 /\ messages < MaxMessages /\ calcPc = "idle" /\ latestMessage' = t
      /\ newest' \in {t, newest}
  BY DEF Arrive
<1>3. lost <= messages
  BY <1>1, <1>2 DEF Typed, LostIsOver
<1>4. MaxMessages \in Nat
  BY SpansAssumption
<1> QED
  BY <1>1, <1>2, <1>3, <1>4

LEMMA CalculateTyped ==
  ASSUME Typed, NEW t \in Times, CalculateSat(t) \/ CalculateTerrestrial(t)
  PROVE  Typed'
<1>1. /\ messages' \in 0 .. MaxMessages /\ newest' \in Times /\ latestMessage' \in Times
      /\ messages' = messages + 1 /\ calcPc = "idle" /\ lost + 1 <= messages'
  BY ArriveTyped DEF CalculateSat, CalculateTerrestrial
<1>2. lost \in 0 .. MaxMessages /\ lost <= messages' /\ fixedSat \in Nat /\ fixedTerrestrial \in Nat
  BY <1>1 DEF Typed, TypeOK
<1> USE DEF Typed
<1>3. CASE CalculateTerrestrial(t)
  <2>1. TypeOK'
    BY <1>1, <1>2, <1>3 DEF CalculateTerrestrial, TypeOK, listVars, calcVars, purgeVars, dropVars
  <2>2. LostIsOver'
    BY <1>1, <1>2, <1>3 DEF CalculateTerrestrial, LostIsOver, calcVars
  <2> QED
    BY <2>1, <2>2
<1>4. CASE CalculateSat(t)
  <2>1. /\ heap' \in Seq(SpanType) /\ list' \in Seq(1 .. Len(heap')) /\ Len(heap') \in Nat
        /\ timeSpan \in 0 .. Len(heap') /\ modified' \in BOOLEAN
    <3>1. CASE UNCHANGED listVars
      BY <1>4, <3>1 DEF CalculateSat, listVars, TypeOK
    <3>2. CASE NewSpanAt(1, t) /\ 1 \in 1 .. Len(list) + 1
      <4>1. /\ heap' \in Seq(SpanType) /\ list' \in Seq(1 .. Len(heap')) /\ Len(heap') = Len(heap) + 1
            /\ Len(heap) \in Nat
        BY <3>2, NewSpan
      <4>2. timeSpan \in 0 .. Len(heap) /\ modified' \in BOOLEAN
        BY <1>4 DEF CalculateSat, TypeOK
      <4> QED
        BY <4>1, <4>2
    <3> QED
      BY <1>4, <3>1, <3>2, FirstSpan
  <2>2. TypeOK'
    BY <1>1, <1>2, <1>4, <2>1 DEF CalculateSat, TypeOK, purgeVars, dropVars
  <2>3. LostIsOver'
    BY <1>1, <1>2, <1>4 DEF CalculateSat, LostIsOver
  <2> QED
    BY <2>2, <2>3
<1> QED
  BY <1>3, <1>4

(* The calculator's other steps change the list, the heap and its locals.    *)
LEMMA CalculatorTyped ==
  ASSUME Typed, Calculator
  PROVE  Typed'
<1>0. /\ heap \in Seq(SpanType) /\ Len(heap) \in Nat /\ list \in Seq(1 .. Len(heap)) /\ now \in Times
      /\ timeSpanPos \in Nat \ {0} /\ lost \in 0 .. MaxMessages /\ messages \in 0 .. MaxMessages
      /\ Len(list) \in Nat /\ timeSpan \in 0 .. Len(heap)
  BY DEF Typed, TypeOK
<1>1. calcPc # "idle" /\ lost + 1 <= messages
  BY DEF Calculator, Search, Insert, Extend, Count, Typed, LostIsOver
<1>1a. calcPc \in {"outdated", "extend", "count"} => timeSpan \in 1 .. Len(heap)
  BY <1>0 DEF Typed, TypeOK, NoSpan
<1>2. /\ heap' \in Seq(SpanType) /\ list' \in Seq(1 .. Len(heap')) /\ timeSpan' \in 1 .. Len(heap')
      /\ timeSpanPos' \in Nat \ {0} /\ modified' \in BOOLEAN
      /\ calcPc' \in {"idle", "outdated", "extend", "count"}
      /\ lost' \in 0 .. MaxMessages /\ lost' + (IF calcPc' = "idle" THEN 0 ELSE 1) <= messages
  <2>0. MaxMessages \in Nat /\ modified \in BOOLEAN
    BY SpansAssumption DEF Typed, TypeOK
  <2>1. CASE Search
    <3>1. calcPc' = "outdated" /\ lost' = lost /\ modified' \in BOOLEAN
      BY <2>0, <2>1 DEF Search, historyVars
    <3>2. CASE NewSpanAt(1, now) /\ 1 \in 1 .. Len(list) + 1 /\ timeSpan' = Len(heap) + 1 /\ timeSpanPos' = 1
      <4>1. heap' \in Seq(SpanType) /\ list' \in Seq(1 .. Len(heap')) /\ Len(heap') = Len(heap) + 1
        BY <1>0, <3>2, NewSpan DEF Typed
      <4> QED
        BY <1>0, <1>1, <3>1, <3>2, <4>1
    <3>3. CASE Matches # {} /\ UNCHANGED listVars /\ timeSpan' = list[Found] /\ timeSpanPos' = Found
      <4>1. Found \in DOMAIN list /\ Found \in Nat \ {0}
        BY <3>3, FoundIs DEF Typed
      <4>2. list[Found] \in 1 .. Len(heap)
        BY <1>0, <4>1, ElementOfSeq, LenProperties
      <4> QED
        BY <1>0, <1>1, <3>1, <3>3, <4>1, <4>2 DEF listVars
    <3> QED
      BY <2>1, <3>2, <3>3, SearchCases DEF Typed
  <2>2. CASE Insert
    <3>0. timeSpan \in 1 .. Len(heap) /\ modified' \in BOOLEAN
      BY <1>1a, <2>0, <2>2 DEF Insert
    <3>1. CASE calcPc' = "extend" /\ UNCHANGED <<listVars, timeSpan, timeSpanPos, lost>>
      BY <1>0, <1>1, <3>0, <3>1 DEF listVars
    <3>2. CASE /\ calcPc' = "count" /\ UNCHANGED lost /\ timeSpanPos + 1 \in 1 .. Len(list) + 1
               /\ NewSpanAt(timeSpanPos + 1, now)
               /\ timeSpan' = Len(heap) + 1 /\ timeSpanPos' = timeSpanPos + 1
      <4>1. heap' \in Seq(SpanType) /\ list' \in Seq(1 .. Len(heap')) /\ Len(heap') = Len(heap) + 1
        BY <1>0, <3>2, NewSpan DEF Typed
      <4> QED
        BY <1>0, <1>1, <3>0, <3>2, <4>1
    <3>3. CASE /\ calcPc' = "idle" /\ lost' = lost + 1
               /\ UNCHANGED <<listVars, timeSpan, timeSpanPos>>
      <4>1. lost' \in 0 .. MaxMessages /\ lost' <= messages
        BY <1>0, <1>1, <2>0, <3>3
      <4> QED
        BY <1>0, <3>0, <3>3, <4>1 DEF listVars
    <3> QED
      BY <2>2, <3>1, <3>2, <3>3, InsertCases DEF Typed
  <2>3. CASE Extend
    <3>0. timeSpan \in 1 .. Len(heap) /\ modified' \in BOOLEAN /\ calcPc' = "count" /\ lost' = lost
          /\ timeSpanPos' = timeSpanPos
      BY <1>1a, <2>0, <2>3 DEF Extend, historyVars
    <3>1. CASE UNCHANGED <<listVars, timeSpan>>
      BY <1>0, <1>1, <3>0, <3>1 DEF listVars
    <3>2. CASE heap' = [heap EXCEPT ![timeSpan].last = now] /\ UNCHANGED <<list, timeSpan>>
      <4>1. heap' \in Seq(SpanType) /\ Len(heap') = Len(heap)
        BY <3>0, <3>2, GrownHeap DEF Typed
      <4> QED
        BY <1>0, <1>1, <3>0, <3>2, <4>1
    <3>3. CASE /\ Len(list) > timeSpanPos
               /\ MergeAt([heap EXCEPT ![timeSpan].last = now])
               /\ timeSpan' = Len(heap) + 1
      <4>1. heap' \in Seq(SpanType) /\ Len(heap') = Len(heap) + 1 /\ list' \in Seq(1 .. Len(heap'))
        BY <3>0, <3>3, MergedStep DEF Typed
      <4> QED
        BY <1>0, <1>1, <3>0, <3>3, <4>1
    <3> QED
      BY <2>3, <3>1, <3>2, <3>3, ExtendCases
  <2>4. CASE Count
    <3>0. timeSpan \in 1 .. Len(heap) /\ calcPc' = "idle"
          /\ UNCHANGED <<list, timeSpan, timeSpanPos, modified, lost>>
      BY <1>1a, <2>4 DEF Count, historyVars
    <3>1. heap' \in Seq(SpanType) /\ Len(heap') = Len(heap)
      BY <2>4, <3>0, CountedHeap DEF Typed, Count
    <3> QED
      BY <1>0, <1>1, <2>0, <3>0, <3>1
  <2> QED
    BY <2>1, <2>2, <2>3, <2>4 DEF Calculator
<1>3. /\ UNCHANGED <<helperVars, fixedVars, now, purgeVars, messages, newest, trims, dropVars>>
  BY DEF Calculator, Search, Insert, Extend, Count, historyVars
<1>4. timeSpan' \in 0 .. Len(heap') /\ timeSpan' # NoSpan
  BY <1>2 DEF NoSpan
<1>5. TypeOK'
  BY <1>2, <1>3, <1>4 DEF Typed, TypeOK, helperVars, fixedVars, purgeVars, dropVars
<1>6. LostIsOver'
  BY <1>2, <1>3 DEF LostIsOver
<1> QED
  BY <1>5, <1>6 DEF Typed

LEMMA PurgeTyped ==
  ASSUME Typed, Purge
  PROVE  Typed'
<1> USE DEF Typed
<1>0. LostIsOver'
  <2>1. lost \in 0 .. MaxMessages
    BY DEF TypeOK
  <2> QED
    BY <2>1 DEF Purge, StartTrim, Scan, ScanThrows, RemoveFirst, SearchThrows, FinishTrim, LostIsOver,
                historyVars, calcVars
<1>1. CASE StartTrim
  <2>1. trims' \in 0 .. MaxTrims
    BY <1>1, SpansAssumption DEF StartTrim, TypeOK
  <2>2. trimPoint' \in Times
    BY <1>1, SpansAssumption DEF StartTrim, WindowExceeded, TypeOK, Times
  <2> QED
    BY <1>0, <1>1, <2>1, <2>2 DEF StartTrim, TypeOK, helperVars, listVars, fixedVars, calcVars, dropVars
<1>2. CASE Scan
  BY <1>0, <1>2 DEF Scan, TypeOK, helperVars, listVars, fixedVars, calcVars, historyVars, dropVars
<1>3. CASE ScanThrows
  BY <1>0, <1>3 DEF ScanThrows, TypeOK, helperVars, listVars, fixedVars, calcVars, historyVars, dropVars
<1>4. CASE RemoveFirst
  <2>1. list' \in Seq(1 .. Len(heap)) /\ dropped' \in Nat /\ numberToRemove' \in Nat /\ disturbed' \in BOOLEAN
        /\ purgePc' \in {"remove", "dead"}
    <3>1. CASE list = <<>>
      BY <1>4, <3>1 DEF RemoveFirst, TypeOK, dropVars
    <3>2. CASE list # <<>>
      <4>1. list \in Seq(1 .. Len(heap)) /\ numberToRemove \in Nat /\ dropped \in Nat /\ disturbed \in BOOLEAN
        BY DEF TypeOK
      <4>2. Tail(list) \in Seq(1 .. Len(heap)) /\ Head(list) = list[1] /\ list[1] \in 1 .. Len(heap)
        BY <3>2, <4>1, TailFacts
      <4>3. heap[Head(list)].messageCounterSat \in Nat
        BY <4>2, SpanFields
      <4>4. /\ list' = Tail(list) /\ numberToRemove' = numberToRemove - 1 /\ numberToRemove > 0
            /\ dropped' = dropped + heap[Head(list)].messageCounterSat
            /\ disturbed' = (disturbed \/ calcPc # "idle") /\ purgePc' = "remove"
        BY <1>4, <3>2 DEF RemoveFirst
      <4>5. numberToRemove' \in Nat /\ dropped' \in Nat
        BY <4>1, <4>3, <4>4
      <4> QED
        BY <4>1, <4>2, <4>4, <4>5
    <3> QED
      BY <3>1, <3>2
  <2> QED
    <3>1. CASE UNCHANGED <<calcVars, lost>>
      BY <1>0, <1>4, <2>1, <3>1 DEF RemoveFirst, TypeOK, helperVars, fixedVars, calcVars
    <3>2. CASE SearchThrows
      <4>1. lost' \in 0 .. MaxMessages /\ calcPc' = "idle" /\ UNCHANGED <<now, timeSpan, timeSpanPos>>
        BY <3>2, SpansAssumption DEF SearchThrows, TypeOK, LostIsOver
      <4> QED
        BY <1>0, <1>4, <2>1, <4>1 DEF RemoveFirst, TypeOK, helperVars, fixedVars
    <3> QED
      BY <1>4, <3>1, <3>2 DEF RemoveFirst
<1>5. CASE FinishTrim
  BY <1>0, <1>5 DEF FinishTrim, TypeOK, listVars, fixedVars, calcVars, historyVars, dropVars
<1> QED
  BY <1>1, <1>2, <1>3, <1>4, <1>5 DEF Purge

LEMMA TypedStep == Typed /\ [Next]_vars => Typed'
<1> SUFFICES ASSUME Typed, [Next]_vars PROVE Typed'
  OBVIOUS
<1>1. CASE UNCHANGED vars
  BY <1>1 DEF Typed, TypeOK, LostIsOver, vars, helperVars, listVars, fixedVars, calcVars, purgeVars, dropVars,
              historyVars
<1> QED
  BY <1>1, CalculateTyped, CalculatorTyped, PurgeTyped DEF Next, Quiescent

(* The list holds references to spans that exist, whatever the Purger has    *)
(* removed and the calculator merged.                                       *)
THEOREM TypeCorrect == Spec => []TypeOK
<1>1. Typed => TypeOK
  BY DEF Typed
<1> QED
  BY <1>1, InitTyped, TypedStep, PTL DEF Spec

LEMMA TypedAlways == Spec => []Typed
  BY InitTyped, TypedStep, PTL DEF Spec
-----------------------------------------------------------------------------
(* A span without a message in it is that of the message being calculated.   *)
Uncounted(id) == heap[id].messageCounterSat = 0

NewSpanListed ==
  \A i \in 1 .. Len(list) :
    Uncounted(list[i]) =>
      /\ calcPc # "idle" /\ heap[list[i]].first = now /\ heap[list[i]].last = now
      /\ calcPc = "search" => Len(list) = 1
      /\ calcPc # "search" => list[i] = timeSpan

NewSpanHeld ==
  calcPc \in {"outdated", "extend"} /\ Uncounted(timeSpan) => heap[timeSpan].last = now

Fresh == NewSpanListed /\ NewSpanHeld

LEMMA ListFacts ==
  ASSUME TypeOK
  PROVE  /\ Len(list) \in Nat /\ DOMAIN list = 1 .. Len(list) /\ Len(heap) \in Nat
         /\ \A i \in 1 .. Len(list) : list[i] \in 1 .. Len(heap)
         /\ calcPc \in {"outdated", "extend", "count"} => timeSpan \in 1 .. Len(heap)
         /\ now \in Times /\ timeSpanPos \in Nat \ {0}
<1>1. list \in Seq(1 .. Len(heap)) /\ heap \in Seq(SpanType)
  BY DEF TypeOK
<1>2. timeSpan \in 0 .. Len(heap) /\ (calcPc \in {"outdated", "extend", "count"} => timeSpan # 0)
  BY DEF TypeOK, NoSpan
<1>3. Len(heap) \in Nat /\ now \in Times /\ timeSpanPos \in Nat \ {0}
  BY <1>1 DEF TypeOK
<1>4. \A i \in 1 .. Len(list) : list[i] \in 1 .. Len(heap)
  BY <1>1, ElementOfSeq
<1>5. Len(list) \in Nat /\ DOMAIN list = 1 .. Len(list)
  BY <1>1
<1> HIDE <1>1
<1> QED
  BY <1>2, <1>3, <1>4, <1>5

(* A span that is outdated, or that grows, has been counted in.              *)
LEMMA OldIsCounted ==
  ASSUME TypeOK, Fresh, \/ calcPc = "outdated" /\ IsOutdated
                        \/ calcPc = "extend" /\ ~(heap[timeSpan].last >= now)
  PROVE  ~Uncounted(timeSpan) /\ \A i \in 1 .. Len(list) : ~Uncounted(list[i])
<1>1. now \in Nat /\ TimeMargin \in Nat
  BY TimesAreNat, ListFacts, SpansAssumption
<1>2. heap[timeSpan].last # now
  BY <1>1 DEF IsOutdated, Abs
<1>3. ~Uncounted(timeSpan)
  BY <1>2 DEF Fresh, NewSpanHeld
<1> QED
  BY <1>3 DEF Fresh, NewSpanListed

LEMMA FreshInit == Init => Fresh
  BY DEF Init, Fresh, NewSpanListed, NewSpanHeld

LEMMA FreshStep == Fresh /\ Typed /\ [Next]_vars => Fresh'
<1> SUFFICES ASSUME Fresh, TypeOK, [Next]_vars PROVE Fresh'
  BY DEF Typed
<1>0. Len(list) \in Nat /\ Len(heap) \in Nat /\ \A i \in 1 .. Len(list) : list[i] \in 1 .. Len(heap)
  BY ListFacts
<1>1. ASSUME NEW t \in Times, CalculateTerrestrial(t) PROVE Fresh'
  BY <1>1 DEF CalculateTerrestrial, Fresh, NewSpanListed, NewSpanHeld, Uncounted, listVars, calcVars
<1>2. ASSUME NEW t \in Times, CalculateSat(t) PROVE Fresh'
  <2>1. calcPc = "idle" /\ calcPc' = "search" /\ now' = t
    BY <1>2 DEF CalculateSat, Arrive
  <2>2. \A i \in 1 .. Len(list) : ~Uncounted(list[i])
    BY <2>1 DEF Fresh, NewSpanListed
  <2>3. CASE UNCHANGED listVars
    BY <2>1, <2>2, <2>3 DEF Fresh, NewSpanListed, NewSpanHeld, Uncounted, listVars
  <2>4. CASE Len(list) = 0 /\ NewSpanAt(1, t) /\ 1 \in 1 .. Len(list) + 1
    <3>1. Len(list') = 1 /\ list'[1] = Len(heap) + 1 /\ heap'[Len(heap) + 1] = Span(t, t, 0)
      BY <2>4, NewSpan
    <3>2. \A i \in 1 .. Len(list') : i = 1
      BY <3>1
    <3> QED
      BY <2>1, <3>1, <3>2 DEF Fresh, NewSpanListed, NewSpanHeld, Uncounted, Span
  <2> QED
    BY <1>2, <2>3, <2>4, FirstSpan
<1>3. CASE Search
  <2>1. calcPc = "search" /\ calcPc' = "outdated" /\ now' = now
    BY <1>3 DEF Search
  <2>2. CASE Matches = {} /\ NewSpanAt(1, now) /\ 1 \in 1 .. Len(list) + 1 /\ timeSpan' = Len(heap) + 1
    <3>1. ASSUME NEW i \in 1 .. Len(list) PROVE ~Uncounted(list[i])
      <4>1. ~(heap[list[i]].first <= now)
        BY <2>2, ListFacts DEF Matches
      <4>2. now \in Nat
        BY ListFacts, TimesAreNat
      <4> QED
        BY <4>1, <4>2 DEF Fresh, NewSpanListed
    <3>2. /\ Len(list') = Len(list) + 1
          /\ \A j \in 1 .. Len(list) + 1 :
               list'[j] = IF j < 1 THEN list[j] ELSE IF j = 1 THEN Len(heap) + 1 ELSE list[j - 1]
          /\ heap'[Len(heap) + 1] = Span(now, now, 0) /\ \A k \in 1 .. Len(heap) : heap'[k] = heap[k]
      BY <2>2, NewSpan, ListFacts
    <3>3. ASSUME NEW j \in 1 .. Len(list'), Uncounted(list[j])' PROVE list'[j] = timeSpan'
      <4>1. CASE j # 1
        <5>1. j - 1 \in 1 .. Len(list) /\ list'[j] = list[j - 1]
          BY <1>0, <3>2, <3>3, <4>1
        <5>2. ~Uncounted(list[j - 1]) /\ heap'[list'[j]] = heap[list[j - 1]]
          BY <1>0, <3>1, <3>2, <5>1
        <5> QED
          BY <3>3, <5>2 DEF Uncounted
      <4>2. CASE j = 1
        BY <2>2, <3>2, <3>3, <4>2
      <4> QED
        BY <4>1, <4>2
    <3>4. heap'[timeSpan'].first = now /\ heap'[timeSpan'].last = now
      BY <2>2, <3>2 DEF Span
    <3> QED
      BY <2>1, <3>3, <3>4 DEF Fresh, NewSpanListed, NewSpanHeld, Uncounted
  <2>3. CASE Matches # {} /\ UNCHANGED listVars /\ timeSpan' = list[Found]
    <3>1. Found \in 1 .. Len(list)
      BY <2>3, FoundIs, ListFacts
    <3>2. ASSUME NEW i \in 1 .. Len(list), Uncounted(list[i]) PROVE i = Found
      <4>1. Len(list) = 1
        BY <2>1, <3>2 DEF Fresh, NewSpanListed
      <4> QED
        BY <3>1, <4>1
    <3> QED
      BY <2>1, <2>3, <3>1, <3>2 DEF Fresh, NewSpanListed, NewSpanHeld, Uncounted, listVars
  <2> QED
    BY <1>3, <2>2, <2>3, SearchCases
<1>4. CASE Insert
  <2>1. calcPc = "outdated" /\ now' = now
    BY <1>4 DEF Insert
  <2>2. CASE calcPc' = "extend" /\ UNCHANGED <<listVars, timeSpan>>
    BY <2>1, <2>2 DEF Fresh, NewSpanListed, NewSpanHeld, Uncounted, listVars
  <2>3. CASE IsOutdated
    <3>1. \A i \in 1 .. Len(list) : ~Uncounted(list[i])
      BY <2>1, <2>3, OldIsCounted
    <3>2. CASE calcPc' = "idle" /\ UNCHANGED listVars
      BY <3>1, <3>2 DEF Fresh, NewSpanListed, NewSpanHeld, Uncounted, listVars
    <3>3. CASE /\ calcPc' = "count" /\ NewSpanAt(timeSpanPos + 1, now) /\ timeSpan' = Len(heap) + 1
               /\ timeSpanPos + 1 \in 1 .. Len(list) + 1
      <4> DEFINE p == timeSpanPos + 1
      <4>1. /\ Len(list') = Len(list) + 1
            /\ \A j \in 1 .. Len(list) + 1 :
                 list'[j] = IF j < p THEN list[j] ELSE IF j = p THEN Len(heap) + 1 ELSE list[j - 1]
            /\ heap'[Len(heap) + 1] = Span(now, now, 0) /\ \A k \in 1 .. Len(heap) : heap'[k] = heap[k]
        BY <3>3, NewSpan, ListFacts
      <4>2. p \in 1 .. Len(list) + 1
        BY <3>3
      <4> HIDE DEF p
      <4>3. ASSUME NEW j \in 1 .. Len(list'), Uncounted(list[j])' PROVE list'[j] = timeSpan'
        <5>1. CASE j = p
          BY <3>3, <4>1, <4>2, <5>1
        <5>2. CASE j # p
          <6>1. \E i \in 1 .. Len(list) : list'[j] = list[i]
            <7>1. j \in 1 .. Len(list) + 1 /\ p \in Nat
              BY <1>0, <4>1, <4>2
            <7>2. CASE j < p
              <8>1. j \in 1 .. Len(list) /\ list'[j] = list[j]
                BY <1>0, <4>1, <4>2, <7>1, <7>2
              <8> QED
                BY <8>1
            <7>3. CASE ~(j < p)
              <8>1. j - 1 \in 1 .. Len(list) /\ list'[j] = list[j - 1]
                BY <1>0, <4>1, <4>2, <5>2, <7>1, <7>3
              <8> QED
                BY <8>1
            <7> QED
              BY <7>2, <7>3
          <6> QED
            BY <1>0, <3>1, <4>1, <4>3, <6>1 DEF Uncounted
        <5> QED
          BY <5>1, <5>2
      <4>4. heap'[timeSpan'].first = now /\ heap'[timeSpan'].last = now
        BY <3>3, <4>1 DEF Span
      <4> QED
        BY <2>1, <3>3, <4>3, <4>4 DEF Fresh, NewSpanListed, NewSpanHeld
    <3> QED
      BY <1>4, <2>3, <3>2, <3>3, InsertCases
  <2> QED
    BY <1>4, <2>2, <2>3, InsertCases
<1>5. CASE Extend
  <2>1. calcPc = "extend" /\ calcPc' = "count" /\ now' = now
    BY <1>5 DEF Extend
  <2>2. CASE UNCHANGED <<listVars, timeSpan>>
    BY <2>1, <2>2 DEF Fresh, NewSpanListed, NewSpanHeld, Uncounted, listVars
  <2>3. CASE ~(heap[timeSpan].last >= now)
    <3>0. timeSpan \in 1 .. Len(heap)
      BY <2>1, ListFacts
    <3>1. ~Uncounted(timeSpan) /\ \A i \in 1 .. Len(list) : ~Uncounted(list[i])
      BY <2>1, <2>3, OldIsCounted
    <3>2. CASE heap' = [heap EXCEPT ![timeSpan].last = now] /\ list' = list
      <4>1. \A k \in 1 .. Len(heap) : heap'[k].messageCounterSat = heap[k].messageCounterSat
        BY <3>0, <3>2, GrownHeap
      <4> QED
        BY <1>0, <2>1, <3>1, <3>2, <4>1 DEF Fresh, NewSpanListed, NewSpanHeld, Uncounted
    <3>3. CASE Len(list) > timeSpanPos /\ MergeAt([heap EXCEPT ![timeSpan].last = now])
      <4>1. /\ timeSpanPos \in 1 .. Len(list) - 1 /\ Neighbour \in 1 .. Len(heap)
            /\ \A k \in 1 .. Len(heap) : heap'[k].messageCounterSat = heap[k].messageCounterSat
            /\ heap'[Len(heap) + 1].messageCounterSat
                 = heap[timeSpan].messageCounterSat + heap[Neighbour].messageCounterSat
            /\ Len(list') = Len(list) - 1
            /\ \A j \in 1 .. Len(list) - 1 :
                 list'[j] = IF j < timeSpanPos THEN list[j]
                            ELSE IF j = timeSpanPos THEN Len(heap) + 1 ELSE list[j + 1]
        BY <3>0, <3>3, MergedStep
      <4>2. ASSUME NEW j \in 1 .. Len(list') PROVE ~(Uncounted(list[j])')
        <5>1. CASE j = timeSpanPos
          <6>1. heap[timeSpan].messageCounterSat \in Nat \ {0} /\ heap[Neighbour].messageCounterSat \in Nat
            BY <3>0, <3>1, <4>1, SpanFields DEF Uncounted
          <6>2. list'[j] = Len(heap) + 1
            BY <4>1, <5>1
          <6>3. heap[timeSpan].messageCounterSat + heap[Neighbour].messageCounterSat # 0
            BY <6>1
          <6> QED
            BY <4>1, <6>2, <6>3 DEF Uncounted
        <5>2. CASE j # timeSpanPos
          <6>1. \E i \in 1 .. Len(list) : list'[j] = list[i]
            BY <1>0, <4>1, <5>2
          <6> QED
            BY <1>0, <3>1, <4>1, <6>1 DEF Uncounted
        <5> QED
          BY <5>1, <5>2
      <4> QED
        BY <2>1, <4>2 DEF Fresh, NewSpanListed, NewSpanHeld
    <3> QED
      BY <1>5, <2>3, <3>2, <3>3, ExtendCases
  <2> QED
    BY <1>5, <2>2, <2>3, ExtendCases
<1>6. CASE Count
  <2>1. /\ calcPc = "count" /\ calcPc' = "idle" /\ list' = list /\ timeSpan \in 1 .. Len(heap)
        /\ heap' = [heap EXCEPT ![timeSpan].messageCounterSat = @ + 1]
    BY <1>6, ListFacts DEF Count
  <2>2. \A k \in 1 .. Len(heap) :
          heap'[k].messageCounterSat = IF k = timeSpan THEN heap[k].messageCounterSat + 1
                                       ELSE heap[k].messageCounterSat
    BY <2>1, CountedHeap
  <2>3. ASSUME NEW i \in 1 .. Len(list) PROVE ~(Uncounted(list[i])')
    <3>1. list[i] \in 1 .. Len(heap) /\ heap[list[i]].messageCounterSat \in Nat
      BY <1>0, SpanFields
    <3>2. list[i] # timeSpan => ~Uncounted(list[i])
      BY <2>1 DEF Fresh, NewSpanListed
    <3> QED
      BY <2>1, <2>2, <3>1, <3>2 DEF Uncounted
  <2> QED
    BY <2>1, <2>3 DEF Fresh, NewSpanListed, NewSpanHeld
<1>7. CASE RemoveFirst /\ list # <<>>
  <2>1. /\ list' = Tail(list) /\ heap' = heap
        /\ (UNCHANGED calcVars \/ (calcPc = "search" /\ calcPc' = "idle"))
    BY <1>7 DEF RemoveFirst, SearchThrows
  <2>2. Len(Tail(list)) = Len(list) - 1 /\ \A j \in 1 .. Len(list) - 1 : Tail(list)[j] = list[j + 1]
    BY <1>7, TailFacts DEF TypeOK
  <2>3. ASSUME NEW j \in 1 .. Len(list'), Uncounted(list[j])'
        PROVE  /\ j + 1 \in 1 .. Len(list) /\ Uncounted(list[j + 1]) /\ list'[j] = list[j + 1]
               /\ Len(list) # 1
    BY <1>0, <2>1, <2>2, <2>3 DEF Uncounted
  <2>4. ASSUME NEW j \in 1 .. Len(list'), Uncounted(list[j])'
        PROVE  /\ calcPc # "idle" /\ heap[list'[j]].first = now /\ heap[list'[j]].last = now
               /\ calcPc # "search" /\ list'[j] = timeSpan
    BY <2>3, <2>4 DEF Fresh, NewSpanListed
  <2> QED
    BY <2>1, <2>4 DEF Fresh, NewSpanListed, NewSpanHeld, Uncounted, calcVars
<1>8. CASE UNCHANGED <<listVars, calcVars>>
  BY <1>8 DEF Fresh, NewSpanListed, NewSpanHeld, Uncounted, listVars, calcVars
<1>9. \/ \E t \in Times : CalculateSat(t) \/ CalculateTerrestrial(t)
      \/ Search \/ Insert \/ Extend \/ Count
      \/ RemoveFirst /\ list # <<>>
      \/ UNCHANGED <<listVars, calcVars>>
  BY DEF Next, Calculator, Purge, StartTrim, Scan, ScanThrows, RemoveFirst, FinishTrim, Quiescent, vars,
         listVars
<1> QED
  BY <1>1, <1>2, <1>3, <1>4, <1>5, <1>6, <1>7, <1>8, <1>9

THEOREM FreshAlways == Spec => []Fresh
  BY TypedAlways, FreshInit, FreshStep, PTL DEF Spec
-----------------------------------------------------------------------------
(* No span is twice in the list.                                             *)
ListedOnce == \A i, j \in 1 .. Len(list) : list[i] = list[j] => i = j

LEMMA ListedOnceInit == Init => ListedOnce
  BY DEF Init, ListedOnce

(* What any step does to the list.                                           *)
LEMMA ListCases ==
  ASSUME TypeOK, [Next]_vars
  PROVE  \/ UNCHANGED list
         \/ \E t \in Times : \E i \in 1 .. Len(list) + 1 : NewSpanAt(i, t)
         \/ calcPc = "extend" /\ Len(list) > timeSpanPos /\ MergeAt([heap EXCEPT ![timeSpan].last = now])
         \/ list # <<>> /\ list' = Tail(list) /\ heap' = heap
<1>0. now \in Times
  BY DEF TypeOK
<1>1. ASSUME NEW t \in Times, CalculateSat(t)
      PROVE  UNCHANGED list \/ \E i \in 1 .. Len(list) + 1 : NewSpanAt(i, t)
  BY <1>1, FirstSpan DEF listVars
<1>2. CASE Search
  BY <1>0, <1>2, SearchCases DEF listVars
<1>3. CASE Insert
  BY <1>0, <1>3, InsertCases DEF listVars
<1>4. CASE Extend
  <2>1. calcPc = "extend"
    BY <1>4 DEF Extend
  <2> QED
    BY <1>4, <2>1, ExtendCases DEF listVars
<1>5. CASE RemoveFirst
  BY <1>5 DEF RemoveFirst
<1>6. \/ \E t \in Times : CalculateSat(t)
      \/ Search \/ Insert \/ Extend \/ RemoveFirst
      \/ UNCHANGED list
  BY DEF Next, CalculateTerrestrial, Calculator, Count, Purge, StartTrim, Scan, ScanThrows, FinishTrim, Quiescent,
         vars, listVars
<1> QED
  BY <1>1, <1>2, <1>3, <1>4, <1>5, <1>6

LEMMA ListedOnceStep == ListedOnce /\ TypeOK /\ [Next]_vars => ListedOnce'
<1> SUFFICES ASSUME ListedOnce, TypeOK, [Next]_vars,
                    NEW i \in 1 .. Len(list'), NEW j \in 1 .. Len(list'), list'[i] = list'[j], i < j
             PROVE  FALSE
  <2> QED
    BY DEF ListedOnce
<1> DEFINE n == Len(list)
           h == Len(heap)
<1>0. /\ n \in Nat /\ h \in Nat /\ \A k \in 1 .. n : list[k] \in Nat /\ list[k] <= h
      /\ \A k, l \in 1 .. n : list[k] = list[l] => k = l
  BY ListFacts DEF ListedOnce
<1>1. CASE UNCHANGED list
  BY <1>0, <1>1
<1>2. ASSUME NEW t \in Times, NEW p \in 1 .. Len(list) + 1, NewSpanAt(p, t) PROVE FALSE
  <2>1. /\ Len(list') = n + 1
        /\ \A k \in 1 .. n + 1 : list'[k] = IF k < p THEN list[k] ELSE IF k = p THEN h + 1 ELSE list[k - 1]
    BY <1>2, NewSpan
  <2> HIDE DEF n, h
  <2>2. p \in 1 .. n + 1
    BY DEF n
  <2>3. ASSUME NEW k \in 1 .. n + 1
        PROVE  /\ k < p => k \in 1 .. n /\ list'[k] = list[k]
               /\ k = p => list'[k] = h + 1
               /\ k > p => k - 1 \in 1 .. n /\ list'[k] = list[k - 1]
    BY <1>0, <2>1, <2>2
  <2>4. i \in 1 .. n + 1 /\ j \in 1 .. n + 1 /\ i < j
    BY <2>1
  <2>5. CASE j < p
    BY <1>0, <2>2, <2>3, <2>4, <2>5
  <2>6. CASE j = p
    BY <1>0, <2>2, <2>3, <2>4, <2>6
  <2>7. CASE j > p /\ i < p
    BY <1>0, <2>2, <2>3, <2>4, <2>7
  <2>8. CASE j > p /\ i = p
    BY <1>0, <2>2, <2>3, <2>4, <2>8
  <2>9. CASE j > p /\ i > p
    BY <1>0, <2>2, <2>3, <2>4, <2>9
  <2> QED
    BY <1>0, <2>2, <2>4, <2>5, <2>6, <2>7, <2>8, <2>9
<1>3. CASE calcPc = "extend" /\ Len(list) > timeSpanPos /\ MergeAt([heap EXCEPT ![timeSpan].last = now])
  <2> DEFINE p == timeSpanPos
  <2>1. /\ p \in 1 .. n - 1 /\ Len(list') = n - 1
        /\ \A k \in 1 .. n - 1 : list'[k] = IF k < p THEN list[k] ELSE IF k = p THEN h + 1 ELSE list[k + 1]
    BY <1>3, MergedStep, ListFacts
  <2> HIDE DEF n, h, p
  <2>3. ASSUME NEW k \in 1 .. n - 1
        PROVE  /\ k < p => k \in 1 .. n /\ list'[k] = list[k]
               /\ k = p => list'[k] = h + 1
               /\ k > p => k + 1 \in 1 .. n /\ list'[k] = list[k + 1]
    BY <1>0, <2>1
  <2>4. i \in 1 .. n - 1 /\ j \in 1 .. n - 1 /\ i < j
    BY <2>1
  <2>5. CASE j < p
    BY <1>0, <2>1, <2>3, <2>4, <2>5
  <2>6. CASE j = p
    BY <1>0, <2>1, <2>3, <2>4, <2>6
  <2>7. CASE j > p /\ i < p
    BY <1>0, <2>1, <2>3, <2>4, <2>7
  <2>8. CASE j > p /\ i = p
    BY <1>0, <2>1, <2>3, <2>4, <2>8
  <2>9. CASE j > p /\ i > p
    BY <1>0, <2>1, <2>3, <2>4, <2>9
  <2> QED
    BY <1>0, <2>1, <2>4, <2>5, <2>6, <2>7, <2>8, <2>9
<1>4. CASE list # <<>> /\ list' = Tail(list)
  <2>1. Len(list') = n - 1 /\ \A k \in 1 .. n - 1 : list'[k] = list[k + 1]
    BY <1>4, TailFacts DEF TypeOK
  <2> HIDE DEF n
  <2>2. i + 1 \in 1 .. n /\ j + 1 \in 1 .. n /\ list[i + 1] = list[j + 1]
    BY <1>0, <2>1
  <2> QED
    BY <1>0, <2>2
<1> QED
  BY <1>1, <1>2, <1>3, <1>4, ListCases

LEMMA ListedOnceAlways == Spec => []ListedOnce
<1>1. Typed => TypeOK
  BY DEF Typed
<1> QED
  BY <1>1, TypedAlways, ListedOnceInit, ListedOnceStep, PTL DEF Spec
-----------------------------------------------------------------------------
(* Until the Purger has taken a span that was counted in: the head is the     *)
(* oldest span, and without the message being calculated the next one is;    *)
(* the span that a message extends, or is put behind, is the head.           *)
OldestFrom(k) == \A i \in k .. Len(list) : heap[list[k]].first <= heap[list[i]].first

HeadExtended ==
  calcPc \in {"outdated", "extend"} /\ ~Uncounted(timeSpan) =>
    timeSpanPos = 1 /\ list # <<>> /\ list[1] = timeSpan /\ heap[timeSpan].first <= now

BeginBeforeEnd == \A i \in 1 .. Len(list) : heap[list[i]].first <= heap[list[i]].last

Sorted ==
  /\ OldestFrom(1)
  /\ Len(list) > 1 /\ Uncounted(list[1]) => OldestFrom(2)
  /\ HeadExtended
  /\ BeginBeforeEnd

InOrder == dropped = 0 => Sorted

LEMMA InOrderInit == Init => InOrder
  BY DEF Init, InOrder, Sorted, OldestFrom, HeadExtended, BeginBeforeEnd

LEMMA TimesOfSpans ==
  ASSUME TypeOK
  PROVE  /\ \A k \in 1 .. Len(heap) : heap[k].first \in Nat /\ heap[k].last \in Nat
         /\ now \in Nat
  BY SpanFields, TimesAreNat, ListFacts

(* A span behind the head is younger than it, and the list stays sorted,     *)
(* with the new span at the head if all are younger than it.                 *)
LEMMA SortedInsert ==
  ASSUME TypeOK, Sorted, NEW t \in Times, NEW p \in 1 .. Len(list) + 1, NewSpanAt(p, t),
         \/ p = 1 /\ \A i \in 1 .. Len(list) : t <= heap[list[i]].first
         \/ p = 2 /\ heap[list[1]].first <= t /\ ~Uncounted(list[1])
  PROVE  /\ OldestFrom(1)'
         /\ (Len(list) > 1 /\ Uncounted(list[1]))' => OldestFrom(2)'
         /\ BeginBeforeEnd'
<1> DEFINE n == Len(list)
           h == Len(heap)
<1>0. n \in Nat /\ h \in Nat /\ \A i \in 1 .. n : list[i] \in 1 .. h
  BY ListFacts
<1>1. /\ Len(list') = n + 1
      /\ \A k \in 1 .. n + 1 : list'[k] = IF k < p THEN list[k] ELSE IF k = p THEN h + 1 ELSE list[k - 1]
      /\ heap'[h + 1] = Span(t, t, 0) /\ \A k \in 1 .. h : heap'[k] = heap[k]
  BY NewSpan
<1>2. heap'[h + 1].first = t /\ heap'[h + 1].last = t
  BY <1>1 DEF Span
<1>3. /\ t \in Nat
      /\ \A i \in 1 .. n : heap[list[i]].first \in Nat /\ heap[list[i]].last \in Nat
      /\ \A i \in 1 .. n : heap[list[1]].first <= heap[list[i]].first
      /\ \A i \in 1 .. n : heap[list[i]].first <= heap[list[i]].last
  BY <1>0, TimesOfSpans, TimesAreNat DEF Sorted, OldestFrom, BeginBeforeEnd
<1> HIDE DEF n, h
<1>4. p \in 1 .. n + 1
  BY DEF n
<1>5. ASSUME NEW k \in 1 .. n + 1
      PROVE  /\ k = p => list'[k] = h + 1 /\ heap'[list'[k]].first = t /\ heap'[list'[k]].last = t
             /\ k < p => k \in 1 .. n /\ heap'[list'[k]] = heap[list[k]]
             /\ k > p => k - 1 \in 1 .. n /\ heap'[list'[k]] = heap[list[k - 1]]
  <2>1. CASE k = p
    BY <1>0, <1>1, <1>2, <1>4, <2>1
  <2>2. CASE k < p
    <3>1. k \in 1 .. n /\ list'[k] = list[k]
      BY <1>0, <1>1, <1>4, <2>2
    <3> QED
      BY <1>0, <1>1, <2>2, <3>1
  <2>3. CASE k > p
    <3>1. k - 1 \in 1 .. n /\ list'[k] = list[k - 1]
      BY <1>0, <1>1, <1>4, <2>3
    <3> QED
      BY <1>0, <1>1, <2>3, <3>1
  <2> QED
    BY <1>4, <2>1, <2>2, <2>3
<1> DEFINE f(i) == heap[list[i]].first
           e(i) == heap[list[i]].last
           nf(i) == heap'[list'[i]].first
           ne(i) == heap'[list'[i]].last
<1>9. /\ \A i \in 1 .. n : f(i) \in Nat /\ e(i) \in Nat /\ f(1) <= f(i) /\ f(i) <= e(i)
      /\ \A k \in 1 .. n + 1 :
           /\ k = p => nf(k) = t /\ ne(k) = t
           /\ k < p => k \in 1 .. n /\ nf(k) = f(k) /\ ne(k) = e(k)
           /\ k > p => k - 1 \in 1 .. n /\ nf(k) = f(k - 1) /\ ne(k) = e(k - 1)
  BY <1>3, <1>5
<1>10. \/ p = 1 /\ \A i \in 1 .. n : t <= f(i)
       \/ p = 2 /\ f(1) <= t /\ ~Uncounted(list[1])
  BY DEF n
<1>11. Len(list) = n /\ Len(list') = n + 1 /\ t \in Nat
  BY <1>1, <1>3 DEF n
<1>6. BeginBeforeEnd'
  <2>1. ASSUME NEW k \in 1 .. n + 1 PROVE nf(k) <= ne(k)
    <3> HIDE DEF f, e, nf, ne
    <3>1. CASE k = p
      BY <1>9, <1>11, <3>1
    <3>2. CASE k < p
      BY <1>9, <3>2
    <3>3. CASE k > p
      <4>1. k - 1 \in 1 .. n /\ nf(k) = f(k - 1) /\ ne(k) = e(k - 1)
        BY <1>9, <3>3
      <4> QED
        BY <1>9, <4>1
    <3>4. k = p \/ k < p \/ k > p
      BY <1>4
    <3> QED
      BY <3>1, <3>2, <3>3, <3>4
  <2> QED
    BY <1>11, <2>1 DEF BeginBeforeEnd
<1>7. CASE p = 1 /\ \A i \in 1 .. n : t <= f(i)
  <2>1. /\ \A k \in 1 .. n + 1 : nf(1) <= nf(k)
        /\ \A k \in 2 .. n + 1 : nf(2) <= nf(k)
    <3> HIDE DEF f, e, nf, ne
    <3>1. ASSUME NEW k \in 1 .. n + 1 PROVE nf(1) <= nf(k)
      <4>1. nf(1) = t /\ (k # 1 => k - 1 \in 1 .. n /\ nf(k) = f(k - 1))
        BY <1>0, <1>7, <1>9
      <4> QED
        BY <1>7, <1>11, <4>1
    <3>2. ASSUME NEW k \in 2 .. n + 1 PROVE nf(2) <= nf(k)
      <4>1. k - 1 \in 1 .. n /\ nf(k) = f(k - 1) /\ nf(2) = f(2 - 1)
        BY <1>0, <1>7, <1>9
      <4> QED
        BY <1>9, <4>1
    <3> QED
      BY <3>1, <3>2
  <2> QED
    BY <1>6, <1>11, <2>1 DEF OldestFrom
<1>8. CASE p = 2 /\ f(1) <= t /\ ~Uncounted(list[1])
  <2>0. n >= 1 /\ 1 \in 1 .. n + 1
    BY <1>0, <1>4, <1>8
  <2>1. list'[1] = list[1] /\ heap'[list'[1]] = heap[list[1]]
    BY <1>0, <1>1, <1>8, <2>0
  <2>2. \A k \in 1 .. n + 1 : nf(1) <= nf(k)
    <3> HIDE DEF f, e, nf, ne
    <3>1. ASSUME NEW k \in 1 .. n + 1 PROVE nf(1) <= nf(k)
      <4>1. 1 \in 1 .. n /\ nf(1) = f(1)
        BY <1>0, <1>8, <1>9, <2>0
      <4>2. k = 1 \/ k = p \/ k > p
        BY <1>0, <1>8
      <4>3. k = p => nf(k) = t
        BY <1>9
      <4>4. k > p => k - 1 \in 1 .. n /\ nf(k) = f(k - 1)
        BY <1>9
      <4> QED
        BY <1>8, <1>9, <1>11, <4>1, <4>2, <4>3, <4>4
    <3> QED
      BY <3>1
  <2>3. ~(Uncounted(list[1])')
    BY <1>8, <2>1 DEF Uncounted
  <2> QED
    BY <1>6, <1>11, <2>2, <2>3 DEF OldestFrom
<1> QED
  BY <1>7, <1>8, <1>10

(* Sorted depends on the list, the ends and counts of its spans, and the      *)
(* calculator: a step that keeps the list.                                   *)
LEMMA SortedKept ==
  ASSUME TypeOK, Sorted, list' = list,
         \A i \in 1 .. Len(list) :
           /\ heap'[list[i]].first = heap[list[i]].first
           /\ Uncounted(list[i])' => Uncounted(list[i]),
         \A i \in 1 .. Len(list) :
           \/ heap'[list[i]].last = heap[list[i]].last
           \/ heap[list[i]].first <= heap'[list[i]].last,
         HeadExtended'
  PROVE  Sorted'
<1>1. Len(list) \in Nat
  BY ListFacts
<1>2. OldestFrom(1)'
  <2>1. ASSUME NEW i \in 1 .. Len(list) PROVE heap'[list[1]].first <= heap'[list[i]].first
    <3>1. 1 \in 1 .. Len(list)
      BY <1>1
    <3> QED
      BY <3>1 DEF Sorted, OldestFrom
  <2> QED
    BY <2>1 DEF OldestFrom
<1>3. ASSUME Len(list) > 1, Uncounted(list[1])' PROVE OldestFrom(2)'
  <2>1. 1 \in 1 .. Len(list) /\ 2 \in 1 .. Len(list) /\ 2 .. Len(list) \subseteq 1 .. Len(list)
    BY <1>1, <1>3
  <2>2. OldestFrom(2)
    BY <1>3, <2>1 DEF Sorted
  <2>3. ASSUME NEW i \in 2 .. Len(list) PROVE heap'[list[2]].first <= heap'[list[i]].first
    <3>1. heap[list[2]].first <= heap[list[i]].first
      BY <2>2 DEF OldestFrom
    <3> QED
      BY <2>1, <3>1
  <2> QED
    BY <2>3 DEF OldestFrom
<1>4. BeginBeforeEnd'
  BY DEF Sorted, BeginBeforeEnd
<1> QED
  BY <1>2, <1>3, <1>4 DEF Sorted

(* The head and its neighbour become one.                                    *)
LEMMA SortedMerge ==
  ASSUME TypeOK, Sorted, Fresh, calcPc = "extend", ~(heap[timeSpan].last >= now),
         Len(list) > timeSpanPos, MergeAt([heap EXCEPT ![timeSpan].last = now])
  PROVE  OldestFrom(1)' /\ ~(Uncounted(list[1])') /\ BeginBeforeEnd'
<1> DEFINE n == Len(list)
           h == Len(heap)
<1>0. /\ n \in Nat /\ h \in Nat /\ timeSpan \in 1 .. h /\ \A i \in 1 .. n : list[i] \in 1 .. h
  BY ListFacts
<1>1. ~Uncounted(timeSpan) /\ timeSpanPos = 1 /\ list[1] = timeSpan /\ heap[timeSpan].first <= now
  BY OldIsCounted DEF Sorted, HeadExtended
<1>2. /\ Neighbour \in 1 .. h /\ Len(list') = n - 1 /\ n > 1
      /\ \A k \in 1 .. h : heap'[k].first = heap[k].first
                            /\ heap'[k].last = IF k = timeSpan THEN now ELSE heap[k].last
      /\ heap'[h + 1].first = heap[timeSpan].first
      /\ heap'[h + 1].last = IF Neighbour = timeSpan THEN now ELSE heap[Neighbour].last
      /\ heap'[h + 1].messageCounterSat = heap[timeSpan].messageCounterSat + heap[Neighbour].messageCounterSat
      /\ \A j \in 1 .. n - 1 : list'[j] = IF j < 1 THEN list[j] ELSE IF j = 1 THEN h + 1 ELSE list[j + 1]
  BY <1>0, <1>1, MergedStep
<1>3. /\ now \in Nat /\ \A i \in 1 .. n : heap[list[i]].first \in Nat /\ heap[list[i]].last \in Nat
      /\ \A i \in 1 .. n : heap[list[1]].first <= heap[list[i]].first
      /\ \A i \in 1 .. n : heap[list[i]].first <= heap[list[i]].last
  BY <1>0, TimesOfSpans DEF Sorted, OldestFrom, BeginBeforeEnd
<1>4. Neighbour = list[2] /\ 2 \in 1 .. n /\ 1 \in 1 .. n - 1 /\ list'[1] = h + 1
  BY <1>0, <1>1, <1>2 DEF Neighbour
<1> HIDE DEF n, h
<1>5. heap'[list'[1]].first = heap[list[1]].first
  BY <1>1, <1>2, <1>4
<1>6. ASSUME NEW k \in 1 .. n - 1, k # 1
      PROVE  /\ k + 1 \in 1 .. n /\ heap'[list'[k]].first = heap[list[k + 1]].first
             /\ heap'[list'[k]].last \in {now, heap[list[k + 1]].last}
             /\ list[k + 1] = list[1] \/ heap'[list'[k]].last = heap[list[k + 1]].last
  <2>1. k + 1 \in 1 .. n /\ list'[k] = list[k + 1]
    BY <1>0, <1>2, <1>6
  <2> QED
    BY <1>0, <1>1, <1>2, <2>1
<1>7. ASSUME NEW k \in 1 .. n - 1 PROVE heap'[list'[1]].first <= heap'[list'[k]].first
  <2>1. CASE k = 1
    BY <1>0, <1>3, <1>5, <2>1
  <2>2. CASE k # 1
    BY <1>3, <1>5, <1>6, <2>2
  <2> QED
    BY <2>1, <2>2
<1>8. ASSUME NEW k \in 1 .. n - 1 PROVE heap'[list'[k]].first <= heap'[list'[k]].last
  <2>1. CASE k = 1
    <3>1. heap[list[1]].first <= heap[list[2]].first /\ heap[list[2]].first <= heap[list[2]].last
      BY <1>3, <1>4
    <3>2. heap[list[1]].first <= heap[list[2]].last
      <4>1. 1 \in 1 .. n
        BY <1>0, <1>4
      <4>2. heap[list[1]].first \in Nat /\ heap[list[2]].first \in Nat /\ heap[list[2]].last \in Nat
        BY <1>3, <1>4, <4>1
      <4> QED
        BY <3>1, <4>2
    <3>3. heap'[list'[1]].last \in {now, heap[list[2]].last}
      BY <1>2, <1>4
    <3> QED
      BY <1>1, <1>5, <2>1, <3>2, <3>3
  <2>2. CASE k # 1
    BY <1>1, <1>3, <1>6, <2>2
  <2> QED
    BY <2>1, <2>2
<1>9. ~(Uncounted(list[1])')
  <2>1. heap[timeSpan].messageCounterSat \in Nat \ {0} /\ heap[Neighbour].messageCounterSat \in Nat
    BY <1>0, <1>1, <1>2, SpanFields DEF Uncounted, h
  <2>2. heap[timeSpan].messageCounterSat + heap[Neighbour].messageCounterSat # 0
    BY <2>1
  <2> QED
    BY <1>2, <1>4, <2>2 DEF Uncounted
<1> QED
  BY <1>2, <1>7, <1>8, <1>9 DEF OldestFrom, BeginBeforeEnd

LEMMA InOrderStep == InOrder /\ Fresh /\ ListedOnce /\ TypeOK /\ [Next]_vars => InOrder'
<1> SUFFICES ASSUME InOrder, Fresh, ListedOnce, TypeOK, [Next]_vars, dropped' = 0 PROVE Sorted'
  BY DEF InOrder
<1>0. Len(list) \in Nat /\ Len(heap) \in Nat /\ \A i \in 1 .. Len(list) : list[i] \in 1 .. Len(heap)
  BY ListFacts
<1>1. ASSUME NEW t \in Times, CalculateSat(t) PROVE Sorted'
  <2>1. dropped' = dropped /\ calcPc' = "search" /\ Sorted
    BY <1>1 DEF CalculateSat, dropVars, InOrder
  <2>2. HeadExtended'
    BY <2>1 DEF HeadExtended
  <2>3. CASE UNCHANGED listVars
    BY <2>1, <2>2, <2>3, SortedKept DEF listVars, Uncounted
  <2>4. CASE list = <<>> /\ NewSpanAt(1, t) /\ 1 \in 1 .. Len(list) + 1 /\ Len(list) = 0
    BY <2>1, <2>2, <2>4, SortedInsert DEF Sorted
  <2> QED
    BY <1>1, <2>3, <2>4, FirstSpan
<1>2. CASE Search
  <2>1. dropped' = dropped /\ calcPc' = "outdated" /\ Sorted /\ now' = now
    BY <1>2 DEF Search, historyVars, dropVars, InOrder
  <2>2. CASE /\ Matches = {} /\ NewSpanAt(1, now) /\ 1 \in 1 .. Len(list) + 1
             /\ timeSpan' = Len(heap) + 1
    <3>1. ASSUME NEW i \in 1 .. Len(list) PROVE now <= heap[list[i]].first
      <4>1. ~(heap[list[i]].first <= now)
        BY <2>2, ListFacts DEF Matches
      <4> QED
        BY <1>0, <4>1, TimesOfSpans
    <3>2. heap'[Len(heap) + 1] = Span(now, now, 0) /\ now \in Times
      BY <2>2, NewSpan, ListFacts
    <3>3. Uncounted(timeSpan)'
      BY <2>2, <3>2 DEF Uncounted, Span
    <3>4. HeadExtended'
      BY <3>3 DEF HeadExtended
    <3> QED
      BY <2>1, <2>2, <3>1, <3>2, <3>4, SortedInsert DEF Sorted
  <2>3. CASE Matches # {} /\ UNCHANGED listVars /\ timeSpan' = list[Found] /\ timeSpanPos' = Found
    <3>1. /\ Found \in 1 .. Len(list) /\ heap[list[Found]].first <= now
          /\ \A i \in Matches : Found <= i
      BY <2>3, FoundIs, ListFacts
    <3>2. 1 \in 1 .. Len(list) /\ heap[list[1]].first <= heap[list[Found]].first
      BY <1>0, <2>1, <3>1 DEF Sorted, OldestFrom
    <3>3. heap[list[1]].first \in Nat /\ heap[list[Found]].first \in Nat /\ now \in Nat
      BY <1>0, <3>1, <3>2, TimesOfSpans
    <3>4. heap[list[1]].first <= now
      BY <3>1, <3>2, <3>3
    <3>5. Found = 1
      BY <3>1, <3>2, <3>4, ListFacts DEF Matches
    <3>6. HeadExtended'
      BY <1>0, <2>1, <2>3, <3>2, <3>4, <3>5, EmptySeq DEF HeadExtended, listVars
    <3> QED
      BY <2>1, <2>3, <3>6, SortedKept DEF listVars, Uncounted
  <2> QED
    BY <1>2, <2>2, <2>3, SearchCases
<1>3. CASE Insert
  <2>1. dropped' = dropped /\ Sorted /\ now' = now /\ calcPc = "outdated"
    BY <1>3 DEF Insert, dropVars, InOrder
  <2>2. CASE UNCHANGED <<listVars, timeSpan, timeSpanPos>>
    <3>1. HeadExtended'
      BY <2>1, <2>2 DEF HeadExtended, Sorted, Uncounted, listVars
    <3> QED
      BY <2>1, <2>2, <3>1, SortedKept DEF listVars, Uncounted
  <2>3. CASE /\ IsOutdated /\ calcPc' = "count" /\ timeSpanPos + 1 \in 1 .. Len(list) + 1
             /\ NewSpanAt(timeSpanPos + 1, now)
    <3>1. ~Uncounted(timeSpan)
      BY <2>1, <2>3, OldIsCounted
    <3>2. timeSpanPos + 1 = 2 /\ list[1] = timeSpan /\ heap[timeSpan].first <= now
      BY <2>1, <3>1 DEF Sorted, HeadExtended
    <3>3. HeadExtended'
      BY <2>3 DEF HeadExtended
    <3>4. now \in Times
      BY ListFacts
    <3> QED
      BY <2>1, <2>3, <3>1, <3>2, <3>3, <3>4, SortedInsert DEF Sorted
  <2> QED
    BY <1>3, <2>2, <2>3, InsertCases
<1>4. CASE Extend
  <2>1. dropped' = dropped /\ Sorted /\ now' = now /\ calcPc = "extend" /\ calcPc' = "count"
    BY <1>4 DEF Extend, historyVars, dropVars, InOrder
  <2>2. HeadExtended'
    BY <2>1 DEF HeadExtended
  <2>3. CASE UNCHANGED listVars
    BY <2>1, <2>2, <2>3, SortedKept DEF listVars, Uncounted
  <2>4. CASE ~(heap[timeSpan].last >= now) /\ heap' = [heap EXCEPT ![timeSpan].last = now] /\ list' = list
    <3>1. \A k \in 1 .. Len(heap) :
            /\ heap'[k].first = heap[k].first /\ heap'[k].messageCounterSat = heap[k].messageCounterSat
            /\ heap'[k].last = IF k = timeSpan THEN now ELSE heap[k].last
      BY <2>1, <2>4, GrownHeap, ListFacts
    <3>2. heap[timeSpan].first <= now
      BY <2>1, <2>4, OldIsCounted DEF Sorted, HeadExtended
    <3>3. \A i \in 1 .. Len(list) :
            /\ heap'[list[i]].first = heap[list[i]].first
            /\ heap'[list[i]].messageCounterSat = heap[list[i]].messageCounterSat
            /\ heap'[list[i]].last = heap[list[i]].last \/ heap[list[i]].first <= heap'[list[i]].last
      BY <1>0, <3>1, <3>2
    <3> QED
      BY <2>1, <2>2, <2>4, <3>3, SortedKept DEF Uncounted
  <2>5. CASE /\ ~(heap[timeSpan].last >= now) /\ Len(list) > timeSpanPos
             /\ MergeAt([heap EXCEPT ![timeSpan].last = now])
    BY <2>1, <2>2, <2>5, SortedMerge DEF Sorted
  <2> QED
    BY <1>4, <2>3, <2>4, <2>5, ExtendCases DEF listVars
<1>5. CASE Count
  <2>1. /\ dropped' = dropped /\ Sorted /\ calcPc' = "idle" /\ list' = list /\ timeSpan \in 1 .. Len(heap)
        /\ heap' = [heap EXCEPT ![timeSpan].messageCounterSat = @ + 1]
    BY <1>5, ListFacts DEF Count, historyVars, dropVars, InOrder
  <2>2. \A k \in 1 .. Len(heap) :
          /\ heap'[k].first = heap[k].first /\ heap'[k].last = heap[k].last
          /\ Uncounted(k)' => Uncounted(k)
    <3>1. ASSUME NEW k \in 1 .. Len(heap), heap'[k].messageCounterSat = 0 PROVE Uncounted(k)
      <4>1. heap[k].messageCounterSat \in Nat
        BY SpanFields
      <4> QED
        BY <2>1, <3>1, <4>1, CountedHeap DEF Uncounted
    <3> QED
      BY <2>1, <3>1, CountedHeap DEF Uncounted
  <2>3. HeadExtended'
    BY <2>1 DEF HeadExtended
  <2> QED
    BY <1>0, <2>1, <2>2, <2>3, SortedKept
<1>6. CASE RemoveFirst /\ list # <<>>
  <2> DEFINE n == Len(list)
  <2>1. /\ Len(list') = n - 1 /\ \A j \in 1 .. n - 1 : list'[j] = list[j + 1]
        /\ n \in Nat \ {0} /\ list[1] \in 1 .. Len(heap) /\ Head(list) = list[1]
        /\ heap' = heap /\ (UNCHANGED calcVars \/ calcPc' = "idle")
    BY <1>6, TailFacts DEF RemoveFirst, SearchThrows, TypeOK
  <2>2. heap[list[1]].messageCounterSat \in Nat /\ dropped \in Nat
        /\ dropped + heap[list[1]].messageCounterSat = 0
    BY <1>6, <2>1, SpanFields DEF RemoveFirst, TypeOK
  <2>3. Uncounted(list[1]) /\ dropped = 0 /\ Sorted
    BY <2>2 DEF Uncounted, InOrder
  <2>4. /\ calcPc # "idle" /\ (calcPc = "search" => n = 1)
        /\ (calcPc # "search" => list[1] = timeSpan)
    BY <2>1, <2>3 DEF Fresh, NewSpanListed
  <2>5. HeadExtended'
    BY <2>1, <2>3, <2>4 DEF HeadExtended, Uncounted, calcVars
  <2>6. BeginBeforeEnd'
    BY <2>1, <2>3 DEF Sorted, BeginBeforeEnd
  <2>7. OldestFrom(1)'
    <3>1. ASSUME NEW i \in 1 .. n - 1 PROVE heap[list'[1]].first <= heap[list'[i]].first
      <4>1. n > 1 /\ i + 1 \in 2 .. n /\ list'[i] = list[i + 1] /\ list'[1] = list[2]
        BY <2>1, <3>1
      <4>2. OldestFrom(2)
        BY <2>3, <4>1 DEF Sorted
      <4> QED
        BY <4>1, <4>2 DEF OldestFrom
    <3> QED
      BY <2>1, <3>1 DEF OldestFrom
  <2>8. ASSUME n - 1 > 1 PROVE ~(Uncounted(list[1])')
    <3>1. list'[1] = list[2] /\ 2 \in 1 .. n /\ 1 \in 1 .. n /\ n # 1
      BY <2>1, <2>8
    <3>2. list[2] # list[1]
      BY <3>1 DEF ListedOnce
    <3>3. ~Uncounted(list[2])
      BY <2>4, <3>1, <3>2 DEF Fresh, NewSpanListed
    <3> QED
      BY <2>1, <3>1, <3>3 DEF Uncounted
  <2> QED
    BY <2>1, <2>5, <2>6, <2>7, <2>8 DEF Sorted
<1>7. CASE UNCHANGED <<listVars, calcVars, dropped>>
  BY <1>7 DEF InOrder, Sorted, OldestFrom, HeadExtended, BeginBeforeEnd, Uncounted, listVars, calcVars
<1>8. \/ \E t \in Times : CalculateSat(t)
      \/ Search \/ Insert \/ Extend \/ Count
      \/ RemoveFirst /\ list # <<>>
      \/ UNCHANGED <<listVars, calcVars, dropped>>
  BY DEF Next, CalculateTerrestrial, Calculator, Purge, StartTrim, Scan, ScanThrows, RemoveFirst, FinishTrim,
         Quiescent, vars, listVars, historyVars, dropVars
<1> QED
  BY <1>1, <1>2, <1>3, <1>4, <1>5, <1>6, <1>7, <1>8

LEMMA OrderAlways == Spec => [](Typed /\ Fresh /\ InOrder)
<1>1. Typed => TypeOK
  BY DEF Typed
<1> QED
  BY <1>1, TypedAlways, FreshAlways, ListedOnceAlways, InOrderInit, InOrderStep, PTL DEF Spec

(* Until the Purger has taken a span that was counted in, the head of the     *)
(* list is its oldest span, in whatever order the messages came.             *)
THEOREM HeadStaysOldest == Spec => []HeadIsOldest
<1>1. Typed /\ Fresh /\ InOrder => HeadIsOldest
  BY ListFacts DEF Typed, InOrder, Sorted, OldestFrom, HeadIsOldest
<1> QED
  BY <1>1, OrderAlways, PTL

(* Until then no span ends before it begins; and always, a span of the list   *)
(* was counted in or is that of the message being calculated.                *)
THEOREM SpansStayWellFormed == Spec => []SpansWellFormed
<1>1. Typed /\ Fresh /\ InOrder => SpansWellFormed
  BY ListFacts DEF Typed, InOrder, Sorted, BeginBeforeEnd, Fresh, NewSpanListed, Uncounted, SpansWellFormed,
                   SpansOf
<1> QED
  BY <1>1, OrderAlways, PTL
-----------------------------------------------------------------------------
(* As long as the Purger removed no span while a message was calculated, the  *)
(* calculator finds its span where it saw it.                                *)
AtPosition ==
  ~disturbed =>
    /\ calcPc \in {"outdated", "extend"} => timeSpanPos <= Len(list) /\ list[timeSpanPos] = timeSpan
    /\ calcPc = "count" => timeSpan \in SpansOf

LEMMA AtPositionInit == Init => AtPosition
  BY DEF Init, AtPosition

LEMMA AtPositionStep == AtPosition /\ TypeOK /\ [Next]_vars => AtPosition'
<1> SUFFICES ASSUME AtPosition, TypeOK, [Next]_vars, ~disturbed' PROVE AtPosition'
  BY DEF AtPosition
<1>0. /\ Len(list) \in Nat /\ Len(heap) \in Nat /\ DOMAIN list = 1 .. Len(list)
      /\ timeSpanPos \in Nat \ {0}
  BY ListFacts
<1>1. ASSUME NEW t \in Times, CalculateSat(t) PROVE AtPosition'
  BY <1>1 DEF CalculateSat, AtPosition
<1>2. CASE Search
  <2>1. calcPc' = "outdated"
    BY <1>2 DEF Search
  <2>2. CASE NewSpanAt(1, now) /\ 1 \in 1 .. Len(list) + 1 /\ timeSpan' = Len(heap) + 1 /\ timeSpanPos' = 1
    <3>1. Len(list') = Len(list) + 1 /\ list'[1] = Len(heap) + 1
      BY <1>0, <2>2, NewSpan, ListFacts
    <3> QED
      BY <1>0, <2>1, <2>2, <3>1 DEF AtPosition
  <2>3. CASE Matches # {} /\ UNCHANGED listVars /\ timeSpan' = list[Found] /\ timeSpanPos' = Found
    BY <2>1, <2>3, FoundIs DEF AtPosition, listVars
  <2> QED
    BY <1>2, <2>2, <2>3, SearchCases
<1>3. CASE Insert
  <2>1. ~disturbed /\ calcPc = "outdated"
    BY <1>3 DEF Insert, dropVars
  <2>2. CASE calcPc' = "extend" /\ UNCHANGED <<listVars, timeSpan, timeSpanPos>>
    BY <2>1, <2>2 DEF AtPosition, listVars
  <2>3. CASE calcPc' = "idle"
    BY <2>3 DEF AtPosition
  <2>4. CASE /\ calcPc' = "count" /\ timeSpanPos + 1 \in 1 .. Len(list) + 1
             /\ NewSpanAt(timeSpanPos + 1, now) /\ timeSpan' = Len(heap) + 1
    <3> DEFINE p == timeSpanPos + 1
    <3>1. /\ Len(list') = Len(list) + 1 /\ list' \in Seq(1 .. Len(heap'))
          /\ \A j \in 1 .. Len(list) + 1 :
               list'[j] = IF j < p THEN list[j] ELSE IF j = p THEN Len(heap) + 1 ELSE list[j - 1]
      BY <2>4, NewSpan, ListFacts
    <3>2. p \in 1 .. Len(list) + 1
      BY <2>4
    <3> HIDE DEF p
    <3>3. p \in DOMAIN list' /\ list'[p] = timeSpan'
      BY <1>0, <2>4, <3>1, <3>2
    <3> QED
      BY <2>4, <3>3 DEF AtPosition, SpansOf
  <2> QED
    BY <1>3, <2>2, <2>3, <2>4, InsertCases
<1>4. CASE Extend
  <2>1. /\ ~disturbed /\ calcPc = "extend" /\ calcPc' = "count" /\ timeSpanPos <= Len(list)
        /\ list[timeSpanPos] = timeSpan
    BY <1>4 DEF Extend, historyVars, dropVars, AtPosition
  <2>2. CASE UNCHANGED <<list, timeSpan>>
    <3>1. timeSpanPos \in DOMAIN list
      BY <1>0, <2>1
    <3> QED
      BY <2>1, <2>2, <3>1 DEF AtPosition, SpansOf
  <2>3. CASE /\ Len(list) > timeSpanPos /\ MergeAt([heap EXCEPT ![timeSpan].last = now])
             /\ timeSpan' = Len(heap) + 1
    <3>0. /\ timeSpanPos \in 1 .. Len(list) - 1 /\ Len(list') = Len(list) - 1
          /\ list' \in Seq(1 .. Len(heap'))
          /\ \A j \in 1 .. Len(list) - 1 :
               list'[j] = IF j < timeSpanPos THEN list[j]
                          ELSE IF j = timeSpanPos THEN Len(heap) + 1 ELSE list[j + 1]
      BY <2>1, <2>3, MergedStep, ListFacts
    <3>1. /\ timeSpanPos \in 1 .. Len(list) - 1 /\ Len(list') = Len(list) - 1
          /\ list' \in Seq(1 .. Len(heap')) /\ list'[timeSpanPos] = Len(heap) + 1
      BY <3>0
    <3>2. timeSpanPos \in DOMAIN list'
      BY <3>1
    <3> QED
      BY <2>1, <2>3, <3>1, <3>2 DEF AtPosition, SpansOf
  <2> QED
    BY <1>4, <2>2, <2>3, ExtendCases DEF listVars
<1>5. CASE Count
  BY <1>5 DEF Count, AtPosition
<1>6. CASE RemoveFirst /\ list # <<>>
  BY <1>6 DEF RemoveFirst, SearchThrows, AtPosition, calcVars
<1>7. CASE UNCHANGED <<listVars, calcVars, disturbed>>
  BY <1>7 DEF AtPosition, SpansOf, listVars, calcVars
<1>8. \/ \E t \in Times : CalculateSat(t)
      \/ Search \/ Insert \/ Extend \/ Count
      \/ RemoveFirst /\ list # <<>>
      \/ UNCHANGED <<listVars, calcVars, disturbed>>
  BY DEF Next, CalculateTerrestrial, Calculator, Purge, StartTrim, Scan, ScanThrows, RemoveFirst, FinishTrim,
         Quiescent, vars, listVars, historyVars, dropVars
<1> QED
  BY <1>1, <1>2, <1>3, <1>4, <1>5, <1>6, <1>7, <1>8

-----------------------------------------------------------------------------
(* The signals of the spans of the list.                                     *)
Counts(hp) == [i \in 1 .. Len(hp) |-> hp[i].messageCounterSat]

LEMMA CountedIsSum ==
  ASSUME TypeOK
  PROVE  CountedInSpans = SumFunctionOnSet(Counts(heap), SpansOf)
<1>1. DOMAIN heap = 1 .. Len(heap)
  BY DEF TypeOK
<1> QED
  BY <1>1 DEF CountedInSpans, Counts

LEMMA CountedIsSumNext ==
  ASSUME TypeOK'
  PROVE  CountedInSpans' = SumFunctionOnSet(Counts(heap'), SpansOf')
<1>1. (DOMAIN heap)' = 1 .. Len(heap')
  BY DEF TypeOK
<1>2. Counts(heap') = [i \in DOMAIN heap |-> heap[i].messageCounterSat]'
  BY <1>1 DEF Counts
<1> QED
  BY <1>2 DEF CountedInSpans

LEMMA SpansFinite ==
  ASSUME TypeOK
  PROVE  /\ IsFiniteSet(SpansOf) /\ SpansOf \subseteq 1 .. Len(heap) /\ Len(heap) \in Nat
         /\ \A x \in SpansOf : Counts(heap)[x] \in Int /\ Counts(heap)[x] = heap[x].messageCounterSat
         /\ SumFunctionOnSet(Counts(heap), SpansOf) \in Int
<1>1. SpansOf \subseteq 1 .. Len(heap) /\ Len(heap) \in Nat
  BY ListFacts DEF SpansOf
<1>2. IsFiniteSet(SpansOf)
  <2>1. 1 \in Int /\ Len(heap) \in Int
    BY <1>1
  <2>2. IsFiniteSet(1 .. Len(heap))
    BY <2>1, FS_Interval
  <2> QED
    BY <1>1, <2>2, FS_Subset
<1>3. \A x \in SpansOf : Counts(heap)[x] \in Int /\ Counts(heap)[x] = heap[x].messageCounterSat
  BY <1>1, SpanFields DEF Counts
<1> QED
  BY <1>1, <1>2, <1>3, SumType

(* An empty span more, in the list and in the heap.                          *)
LEMMA CountedNewSpan ==
  ASSUME TypeOK, TypeOK', NEW t \in Times, NEW p \in 1 .. Len(list) + 1, NewSpanAt(p, t)
  PROVE  CountedInSpans' = CountedInSpans
<1> DEFINE n == Len(list)
           h == Len(heap)
<1>1. /\ Len(list') = n + 1 /\ Len(heap') = h + 1
      /\ \A k \in 1 .. n + 1 : list'[k] = IF k < p THEN list[k] ELSE IF k = p THEN h + 1 ELSE list[k - 1]
      /\ heap'[h + 1] = Span(t, t, 0) /\ \A k \in 1 .. h : heap'[k] = heap[k]
  BY NewSpan
<1>2. SpansOf' = SpansOf \cup {h + 1}
  <2>0. n \in Nat /\ DOMAIN list = 1 .. n /\ DOMAIN list' = 1 .. n + 1 /\ p \in 1 .. n + 1
    BY <1>1, ListFacts DEF TypeOK
  <2> HIDE DEF n, h
  <2>1. ASSUME NEW k \in 1 .. n + 1 PROVE list'[k] \in SpansOf \cup {h + 1}
    <3>1. CASE k = p
      BY <1>1, <2>0, <3>1
    <3>2. CASE k < p
      <4>1. k \in 1 .. n /\ list'[k] = list[k]
        BY <1>1, <2>0, <3>2
      <4> QED
        BY <2>0, <4>1 DEF SpansOf
    <3>3. CASE k > p
      <4>1. k - 1 \in 1 .. n /\ list'[k] = list[k - 1]
        BY <1>1, <2>0, <3>3
      <4> QED
        BY <2>0, <4>1 DEF SpansOf
    <3>4. k = p \/ k < p \/ k > p
      BY <2>0
    <3> QED
      BY <3>1, <3>2, <3>3, <3>4
  <2>2. ASSUME NEW k \in 1 .. n PROVE list[k] \in SpansOf'
    <3>1. CASE k < p
      <4>1. k \in 1 .. n + 1 /\ list'[k] = list[k]
        BY <1>1, <2>0, <3>1
      <4> QED
        BY <2>0, <4>1 DEF SpansOf
    <3>2. CASE ~(k < p)
      <4>1. k + 1 \in 1 .. n + 1 /\ list'[k + 1] = list[k]
        BY <1>1, <2>0, <3>2
      <4> QED
        BY <2>0, <4>1 DEF SpansOf
    <3> QED
      BY <3>1, <3>2
  <2>3. h + 1 \in SpansOf'
    BY <1>1, <2>0 DEF SpansOf
  <2> QED
    BY <2>0, <2>1, <2>2, <2>3 DEF SpansOf
<1>3. h + 1 \notin SpansOf /\ h \in Nat
  BY SpansFinite
<1> DEFINE f == Counts(heap)
           g == Counts(heap')
           S == SpansOf
<1>4. /\ IsFiniteSet(S) /\ \A x \in S : f[x] \in Int /\ f[x] = heap[x].messageCounterSat
      /\ S \subseteq 1 .. h
  BY SpansFinite
<1>5. g[h + 1] = 0 /\ \A x \in S : g[x] = f[x]
  <2>1. g[h + 1] = 0
    BY <1>1, <1>3 DEF Counts, Span
  <2>2. \A x \in S : g[x] = f[x]
    BY <1>1, <1>3, <1>4 DEF Counts
  <2> QED
    BY <2>1, <2>2
<1>6. CountedInSpans = SumFunctionOnSet(f, S) /\ CountedInSpans' = SumFunctionOnSet(g, S \cup {h + 1})
  <2>1. CountedInSpans' = SumFunctionOnSet(g, SpansOf')
    BY CountedIsSumNext
  <2> QED
    BY <1>2, <2>1, CountedIsSum
<1> HIDE DEF f, g, S, h
<1> DEFINE y == h + 1
<1>7. y \notin S /\ \A x \in S \cup {y} : g[x] \in Int
  BY <1>3, <1>4, <1>5 DEF S
<1>8. SumFunctionOnSet(g, S) = SumFunctionOnSet(f, S) /\ SumFunctionOnSet(f, S) \in Int
  BY <1>4, <1>5, SumSame, SumType
<1> HIDE DEF y
<1>9. SumFunctionOnSet(g, S \cup {y}) = g[y] + SumFunctionOnSet(g, S)
  BY <1>4, <1>7, SumAdd
<1> QED
  BY <1>5, <1>6, <1>8, <1>9 DEF y

(* Two neighbours become one that counts what both did.                      *)
LEMMA CountedMerge ==
  ASSUME TypeOK, TypeOK', ListedOnce, timeSpan \in 1 .. Len(heap),
         Len(list) > timeSpanPos, list[timeSpanPos] = timeSpan,
         MergeAt([heap EXCEPT ![timeSpan].last = now])
  PROVE  CountedInSpans' = CountedInSpans
<1> DEFINE n == Len(list)
           h == Len(heap)
           p == timeSpanPos
           b == Neighbour
<1>1. /\ p \in 1 .. n - 1 /\ b \in 1 .. h /\ Len(list') = n - 1 /\ Len(heap') = h + 1
      /\ \A k \in 1 .. n - 1 : list'[k] = IF k < p THEN list[k] ELSE IF k = p THEN h + 1 ELSE list[k + 1]
      /\ \A k \in 1 .. h : heap'[k].messageCounterSat = heap[k].messageCounterSat
      /\ heap'[h + 1].messageCounterSat = heap[timeSpan].messageCounterSat + heap[b].messageCounterSat
  BY MergedStep
<1>2. /\ n \in Nat /\ h \in Nat /\ DOMAIN list = 1 .. n /\ DOMAIN list' = 1 .. n - 1
      /\ p \in 1 .. n /\ p + 1 \in 1 .. n /\ list[p] = timeSpan /\ list[p + 1] = b
      /\ \A i, j \in 1 .. n : list[i] = list[j] => i = j
  <2>1. n \in Nat /\ h \in Nat /\ DOMAIN list = 1 .. n /\ DOMAIN list' = 1 .. n - 1
    BY <1>1, ListFacts DEF TypeOK
  <2>2. p \in 1 .. n /\ p + 1 \in 1 .. n
    BY <1>1, <2>1
  <2> QED
    BY <2>1, <2>2 DEF ListedOnce, Neighbour
<1> DEFINE S == SpansOf
           R == (S \ {timeSpan}) \ {b}
           y == h + 1
           f == Counts(heap)
           g == Counts(heap')
<1>3. timeSpan \in S /\ b \in S \ {timeSpan}
  <2>1. timeSpan \in S /\ b \in S
    BY <1>2 DEF SpansOf
  <2>2. b # timeSpan
    BY <1>2
  <2> QED
    BY <2>1, <2>2
<1>4. SpansOf' = R \cup {y}
  <2> HIDE DEF n, h, p, b
  <2>1. ASSUME NEW k \in 1 .. n - 1 PROVE list'[k] \in R \cup {y}
    <3>1. CASE k = p
      BY <1>1, <1>2, <3>1
    <3>2. CASE k < p
      <4>1. k \in 1 .. n /\ list'[k] = list[k] /\ k # p /\ k # p + 1
        BY <1>1, <1>2, <3>2
      <4>2. list[k] \in S /\ list[k] # timeSpan /\ list[k] # b
        BY <1>2, <4>1 DEF SpansOf
      <4> QED
        BY <4>1, <4>2
    <3>3. CASE k > p
      <4>1. k + 1 \in 1 .. n /\ list'[k] = list[k + 1] /\ k + 1 # p /\ k + 1 # p + 1
        BY <1>1, <1>2, <3>3
      <4>2. list[k + 1] \in S /\ list[k + 1] # timeSpan /\ list[k + 1] # b
        BY <1>2, <4>1 DEF SpansOf
      <4> QED
        BY <4>1, <4>2
    <3>4. k = p \/ k < p \/ k > p
      BY <1>2
    <3> QED
      BY <3>1, <3>2, <3>3, <3>4
  <2>2. ASSUME NEW k \in 1 .. n, k # p, k # p + 1 PROVE list[k] \in SpansOf'
    <3>1. CASE k < p
      <4>1. k \in 1 .. n - 1 /\ list'[k] = list[k]
        BY <1>1, <1>2, <3>1
      <4> QED
        BY <1>2, <4>1 DEF SpansOf
    <3>2. CASE ~(k < p)
      <4>1. PICK m \in 1 .. n - 1 : m + 1 = k /\ ~(m < p) /\ m # p
        <5>1. k - 1 \in 1 .. n - 1 /\ (k - 1) + 1 = k /\ ~(k - 1 < p) /\ k - 1 # p
          BY <1>2, <2>2, <3>2
        <5> QED
          BY <5>1
      <4>2. list'[m] = list[k]
        BY <1>1, <4>1
      <4> QED
        BY <1>2, <4>2 DEF SpansOf
    <3> QED
      BY <3>1, <3>2
  <2>3. R \subseteq SpansOf'
    <3> SUFFICES ASSUME NEW x \in R PROVE x \in SpansOf'
      OBVIOUS
    <3>1. PICK k \in 1 .. n : x = list[k]
      BY <1>2 DEF SpansOf
    <3>2. k # p /\ k # p + 1
      BY <1>2, <3>1
    <3> QED
      BY <2>2, <3>1, <3>2
  <2>4. y \in SpansOf'
    BY <1>1, <1>2 DEF SpansOf
  <2>5. SpansOf' \subseteq R \cup {y}
    BY <1>2, <2>1 DEF SpansOf
  <2> QED
    BY <2>3, <2>4, <2>5
<1>5. /\ IsFiniteSet(S) /\ \A x \in S : f[x] \in Int /\ f[x] = heap[x].messageCounterSat
      /\ S \subseteq 1 .. h
  BY SpansFinite
<1>6. y \notin S /\ g[y] = f[timeSpan] + f[b] /\ \A x \in S : g[x] = f[x]
  <2>1. y \notin S /\ \A x \in S : x \in 1 .. h
    BY <1>2, <1>5
  <2>2. \A x \in 1 .. h : g[x] = f[x]
    BY <1>1, <1>2 DEF Counts
  <2>3. g[y] = heap'[y].messageCounterSat
    BY <1>1, <1>2 DEF Counts
  <2> QED
    BY <1>1, <1>3, <1>5, <2>1, <2>2, <2>3
<1>7. CountedInSpans = SumFunctionOnSet(f, S) /\ CountedInSpans' = SumFunctionOnSet(g, R \cup {y})
  BY <1>4, CountedIsSum, CountedIsSumNext
<1> HIDE DEF f, g, S, y, b
<1>8. SumFunctionOnSet(f, S) = f[timeSpan] + SumFunctionOnSet(f, S \ {timeSpan})
  <2> DEFINE a == timeSpan
  <2>1. a \in S /\ IsFiniteSet(S) /\ \A x \in S : f[x] \in Int
    BY <1>3, <1>5
  <2> HIDE DEF a, R
  <2>2. SumFunctionOnSet(f, S) = f[a] + SumFunctionOnSet(f, S \ {a})
    BY <2>1, SumRemove
  <2> QED
    BY <2>2 DEF a
<1>9. SumFunctionOnSet(f, S \ {timeSpan}) = f[b] + SumFunctionOnSet(f, R)
  <2> DEFINE U == S \ {timeSpan}
  <2>1. IsFiniteSet(U) /\ b \in U /\ \A x \in U : f[x] \in Int
    BY <1>3, <1>5, FS_Subset
  <2> HIDE DEF U
  <2>2. SumFunctionOnSet(f, U) = f[b] + SumFunctionOnSet(f, U \ {b})
    BY <2>1, SumRemove
  <2> QED
    BY <2>2 DEF U
<1>10. IsFiniteSet(R) /\ R \subseteq S
  BY <1>5, FS_Subset
<1> HIDE DEF R
<1>11. SumFunctionOnSet(g, R) = SumFunctionOnSet(f, R) /\ SumFunctionOnSet(f, R) \in Int
  <2>1. \A x \in R : f[x] \in Int /\ g[x] = f[x]
    BY <1>5, <1>6, <1>10
  <2> QED
    BY <1>10, <2>1, SumSame, SumType
<1>12. SumFunctionOnSet(g, R \cup {y}) = g[y] + SumFunctionOnSet(g, R)
  <2>1. y \notin R /\ \A x \in R \cup {y} : g[x] \in Int
    BY <1>3, <1>5, <1>6, <1>10
  <2> QED
    BY <1>10, <2>1, SumAdd
<1>13. f[timeSpan] \in Int /\ f[b] \in Int
  BY <1>3, <1>5
<1> QED
  BY <1>6, <1>7, <1>8, <1>9, <1>11, <1>12, <1>13

(* A message is counted in a span of the list.                               *)
LEMMA CountedOneMore ==
  ASSUME TypeOK, TypeOK', timeSpan \in SpansOf, list' = list,
         heap' = [heap EXCEPT ![timeSpan].messageCounterSat = @ + 1]
  PROVE  CountedInSpans' = CountedInSpans + 1
<1> DEFINE S == SpansOf
           f == Counts(heap)
           g == Counts(heap')
<1>1. /\ IsFiniteSet(S) /\ \A x \in S : f[x] \in Int /\ f[x] = heap[x].messageCounterSat
      /\ S \subseteq 1 .. Len(heap)
  BY SpansFinite
<1>2. \A x \in S : g[x] = IF x = timeSpan THEN f[x] + 1 ELSE f[x]
  <2>1. /\ Len(heap') = Len(heap)
        /\ \A k \in 1 .. Len(heap) :
             heap'[k].messageCounterSat = IF k = timeSpan THEN heap[k].messageCounterSat + 1
                                          ELSE heap[k].messageCounterSat
    BY <1>1, CountedHeap
  <2>2. \A x \in 1 .. Len(heap) : g[x] = heap'[x].messageCounterSat
    BY <2>1 DEF Counts
  <2> QED
    BY <1>1, <2>1, <2>2
<1>3. CountedInSpans = SumFunctionOnSet(f, S) /\ CountedInSpans' = SumFunctionOnSet(g, S)
  <2>1. SpansOf' = S
    BY DEF SpansOf
  <2> QED
    BY <2>1, CountedIsSum, CountedIsSumNext
<1> DEFINE a == timeSpan
<1>4. a \in S /\ \A x \in S : f[x] \in Int /\ g[x] \in Int /\ (x # a => g[x] = f[x])
  <2>1. a \in S
    OBVIOUS
  <2> HIDE DEF f, g, S
  <2>2. ASSUME NEW x \in S PROVE f[x] \in Int /\ g[x] \in Int /\ (x # a => g[x] = f[x])
    BY <1>1, <1>2
  <2> QED
    BY <2>1, <2>2
<1>5. g[a] = f[a] + 1 /\ f[a] \in Int
  BY <1>1, <1>2, <1>4
<1> HIDE DEF f, g, S, a
<1>6. SumFunctionOnSet(g, S) = SumFunctionOnSet(f, S) + g[a] - f[a] /\ SumFunctionOnSet(f, S) \in Int
  BY <1>1, <1>4, SumChange, SumType
<1> QED
  BY <1>3, <1>5, <1>6

(* The head leaves the list.                                                 *)
LEMMA CountedTail ==
  ASSUME TypeOK, TypeOK', ListedOnce, list # <<>>, list' = Tail(list), heap' = heap
  PROVE  CountedInSpans' + heap[Head(list)].messageCounterSat = CountedInSpans
<1> DEFINE n == Len(list)
           S == SpansOf
           f == Counts(heap)
           a == Head(list)
<1>1. /\ IsFiniteSet(S) /\ \A x \in S : f[x] \in Int /\ f[x] = heap[x].messageCounterSat
  BY SpansFinite
<1>2. /\ Len(list') = n - 1 /\ n \in Nat \ {0} /\ a = list[1]
      /\ \A j \in 1 .. n - 1 : list'[j] = list[j + 1]
      /\ DOMAIN list = 1 .. n /\ DOMAIN list' = 1 .. n - 1
      /\ \A i, j \in 1 .. n : list[i] = list[j] => i = j
  BY TailFacts, ListFacts DEF TypeOK, ListedOnce
<1>3. a \in S
  BY <1>2 DEF SpansOf
<1>4. SpansOf' = S \ {a}
  <2> HIDE DEF n, a
  <2>1. ASSUME NEW k \in 1 .. n - 1 PROVE list'[k] \in S \ {a}
    <3>1. k + 1 \in 1 .. n /\ k + 1 # 1 /\ list'[k] = list[k + 1] /\ 1 \in 1 .. n
      BY <1>2
    <3>2. list[k + 1] # list[1]
      BY <1>2, <3>1
    <3> QED
      BY <1>2, <3>1, <3>2 DEF SpansOf
  <2>2. ASSUME NEW k \in 1 .. n, list[k] # a PROVE list[k] \in SpansOf'
    <3>1. k - 1 \in 1 .. n - 1 /\ (k - 1) + 1 = k
      BY <1>2, <2>2
    <3>2. list'[k - 1] = list[k]
      BY <1>2, <3>1
    <3> QED
      BY <1>2, <3>1, <3>2 DEF SpansOf
  <2> QED
    BY <1>2, <2>1, <2>2 DEF SpansOf
<1>5. CountedInSpans = SumFunctionOnSet(f, S) /\ CountedInSpans' = SumFunctionOnSet(f, S \ {a})
  BY <1>4, CountedIsSum, CountedIsSumNext
<1>6. f[a] = heap[a].messageCounterSat /\ f[a] \in Int
  BY <1>1, <1>3
<1> HIDE DEF f, S, a
<1>7. SumFunctionOnSet(f, S) = f[a] + SumFunctionOnSet(f, S \ {a})
  BY <1>1, <1>3, SumRemove
<1>8. SumFunctionOnSet(f, S \ {a}) \in Int
  BY <1>1, FS_Subset, SumType
<1> QED
  BY <1>5, <1>6, <1>7, <1>8 DEF a

LEMMA CountedNextIsInt ==
  ASSUME TypeOK'
  PROVE  CountedInSpans' \in Int
<1> DEFINE n == Len(heap')
           S == SpansOf'
           g == Counts(heap')
<1>1. n \in Nat /\ S \subseteq 1 .. n /\ \A k \in 1 .. n : g[k] \in Int
  <2>1. heap' \in Seq(SpanType) /\ list' \in Seq(1 .. n) /\ n \in Nat
    BY DEF TypeOK
  <2>2. ASSUME NEW k \in 1 .. n PROVE heap'[k].messageCounterSat \in Nat
    <3>1. heap'[k] \in SpanType
      BY <2>1, ElementOfSeq
    <3> QED
      BY <3>1 DEF SpanType
  <2>3. \A i \in DOMAIN list' : list'[i] \in 1 .. n
    BY <2>1, ElementOfSeq
  <2> QED
    BY <2>1, <2>2, <2>3 DEF SpansOf, Counts
<1>2. CountedInSpans' = SumFunctionOnSet(g, S)
  BY CountedIsSumNext
<1> HIDE DEF n, S, g
<1>3. IsFiniteSet(S)
  <2>1. IsFiniteSet(1 .. n)
    BY <1>1, FS_Interval
  <2> QED
    BY <1>1, <2>1, FS_Subset
<1> QED
  BY <1>1, <1>2, <1>3, SumType

LEMMA CountsInit == Init => CountsAgree
<1> SUFFICES ASSUME Init PROVE CountsAgree
  OBVIOUS
<1>1. TypeOK
  BY InitTyped DEF Typed
<1>2. SpansOf = {}
  BY DEF Init, SpansOf
<1>3. CountedInSpans = 0
  BY <1>1, <1>2, CountedIsSum, SumEmpty
<1> QED
  BY <1>3 DEF Init, CountsAgree

LEMMA CountsStep ==
  CountsAgree /\ AtPosition /\ ListedOnce /\ TypeOK /\ TypeOK' /\ [Next]_vars => CountsAgree'
<1> SUFFICES ASSUME CountsAgree, AtPosition, ListedOnce, TypeOK, TypeOK', [Next]_vars, ~disturbed'
             PROVE  CountedInSpans' + dropped' + (IF calcPc' = "idle" THEN 0 ELSE 1) = fixedSat'
  BY DEF CountsAgree
<1> DEFINE total == CountedInSpans
           busy == IF calcPc = "idle" THEN 0 ELSE 1
<1>0. /\ total \in Int /\ dropped \in Nat /\ fixedSat \in Nat
      /\ ~disturbed => total + dropped + busy = fixedSat
  BY CountedIsSum, SpansFinite DEF TypeOK, CountsAgree
<1>a. ASSUME UNCHANGED listVars PROVE total' = total
  BY <1>a DEF listVars, CountedInSpans, SpansOf
<1>b. ASSUME NEW t \in Times, NEW p \in 1 .. Len(list) + 1, NewSpanAt(p, t) PROVE total' = total
  BY <1>b, CountedNewSpan
<1> HIDE DEF total
<1> SUFFICES total' + dropped' + busy' = fixedSat'
  BY DEF total
<1>1. ASSUME NEW t \in Times, CalculateSat(t) PROVE total' + dropped' + busy' = fixedSat'
  <2>1. /\ ~disturbed /\ dropped' = dropped /\ calcPc = "idle" /\ calcPc' = "search"
        /\ fixedSat' = fixedSat + 1
    BY <1>1 DEF CalculateSat, Arrive, dropVars
  <2>2. total' = total
    BY <1>1, <1>a, <1>b, FirstSpan
  <2> QED
    BY <1>0, <2>1, <2>2
<1>2. CASE Search
  <2>1. /\ ~disturbed /\ dropped' = dropped /\ calcPc = "search" /\ calcPc' = "outdated"
        /\ fixedSat' = fixedSat
    BY <1>2 DEF Search, historyVars, fixedVars, dropVars
  <2>2. total' = total
    BY <1>2, <1>a, <1>b, SearchCases, ListFacts
  <2> QED
    BY <1>0, <2>1, <2>2
<1>3. CASE Insert
  <2>1. ~disturbed /\ dropped' = dropped /\ calcPc = "outdated" /\ fixedSat' = fixedSat
    BY <1>3 DEF Insert, fixedVars, dropVars
  <2>2. timeSpanPos <= Len(list)
    BY <2>1 DEF AtPosition
  <2>3. calcPc' # "idle" /\ total' = total
    BY <1>3, <1>a, <1>b, <2>2, InsertCases, ListFacts
  <2> QED
    BY <1>0, <2>1, <2>3
<1>4. CASE Extend
  <2>1. /\ ~disturbed /\ dropped' = dropped /\ calcPc = "extend" /\ calcPc' = "count"
        /\ fixedSat' = fixedSat
    BY <1>4 DEF Extend, historyVars, fixedVars, dropVars
  <2>2. timeSpanPos <= Len(list) /\ list[timeSpanPos] = timeSpan /\ timeSpan \in 1 .. Len(heap)
    BY <2>1, ListFacts DEF AtPosition
  <2>3. ASSUME heap' = [heap EXCEPT ![timeSpan].last = now], list' = list PROVE total' = total
    <3>1. /\ Len(heap') = Len(heap)
          /\ \A k \in 1 .. Len(heap) : heap'[k].messageCounterSat = heap[k].messageCounterSat
      BY <2>2, <2>3, GrownHeap
    <3>2. Counts(heap') = Counts(heap)
      BY <3>1 DEF Counts
    <3>3. SpansOf' = SpansOf
      BY <2>3 DEF SpansOf
    <3> QED
      BY <3>2, <3>3, CountedIsSum, CountedIsSumNext DEF total
  <2>4. ASSUME Len(list) > timeSpanPos, MergeAt([heap EXCEPT ![timeSpan].last = now]) PROVE total' = total
    BY <2>2, <2>4, CountedMerge DEF total
  <2>5. total' = total
    BY <1>4, <1>a, <2>3, <2>4, ExtendCases DEF listVars
  <2> QED
    BY <1>0, <2>1, <2>5
<1>5. CASE Count
  <2>1. /\ ~disturbed /\ dropped' = dropped /\ calcPc = "count" /\ calcPc' = "idle"
        /\ fixedSat' = fixedSat /\ list' = list
        /\ heap' = [heap EXCEPT ![timeSpan].messageCounterSat = @ + 1]
    BY <1>5 DEF Count, historyVars, fixedVars, dropVars
  <2>2. timeSpan \in SpansOf
    BY <2>1 DEF AtPosition
  <2>3. total' = total + 1
    BY <2>1, <2>2, CountedOneMore DEF total
  <2> QED
    BY <1>0, <2>1, <2>3
<1>6. CASE RemoveFirst /\ list # <<>>
  <2>1. /\ ~disturbed /\ calcPc = "idle" /\ calcPc' = "idle" /\ fixedSat' = fixedSat
        /\ list' = Tail(list) /\ heap' = heap /\ dropped' = dropped + heap[Head(list)].messageCounterSat
    BY <1>6 DEF RemoveFirst, SearchThrows, fixedVars, calcVars
  <2>2. total' + heap[Head(list)].messageCounterSat = total
    BY <1>6, <2>1, CountedTail DEF total
  <2>3. heap[Head(list)].messageCounterSat \in Nat
    BY <1>6, TailFacts, SpanFields DEF TypeOK
  <2>4. total' \in Int
    BY CountedNextIsInt DEF total
  <2> DEFINE taken == heap[Head(list)].messageCounterSat
  <2>5. taken \in Nat /\ total' + taken = total /\ dropped' = dropped + taken /\ total + dropped = fixedSat
    BY <1>0, <2>1, <2>2, <2>3
  <2> HIDE DEF taken
  <2>6. total' + dropped' = fixedSat
    <3>1. dropped \in Nat /\ total' + taken + dropped = fixedSat
      BY <1>0, <2>5
    <3>2. total' + (dropped + taken) = fixedSat
      BY <2>4, <2>5, <3>1
    <3> QED
      BY <2>5, <3>2
  <2> QED
    BY <1>0, <2>1, <2>4, <2>5, <2>6
<1>7. CASE UNCHANGED <<listVars, calcPc, fixedSat, dropped, disturbed>>
  BY <1>0, <1>7, <1>a
<1>8. \/ \E t \in Times : CalculateSat(t)
      \/ Search \/ Insert \/ Extend \/ Count
      \/ RemoveFirst /\ list # <<>>
      \/ UNCHANGED <<listVars, calcPc, fixedSat, dropped, disturbed>>
  BY DEF Next, CalculateTerrestrial, Calculator, Purge, StartTrim, Scan, ScanThrows, RemoveFirst, FinishTrim,
         Quiescent, vars, listVars, historyVars, dropVars, calcVars, fixedVars
<1> QED
  BY <1>1, <1>2, <1>3, <1>4, <1>5, <1>6, <1>7, <1>8

(* The dynamic spans count what the fixed-width ones count: inserting,        *)
(* extending and merging loses no message and counts none twice, as long as  *)
(* the Purger takes spans only between two messages.                         *)
THEOREM CountsStayEqual == Spec => []CountsAgree
<1>1. Typed => TypeOK
  BY DEF Typed
<1>2. TypeOK /\ TypeOK' /\ AtPosition /\ ListedOnce /\ CountsAgree /\ [Next]_vars => CountsAgree'
  BY CountsStep
<1> QED
  BY <1>1, <1>2, TypedAlways, ListedOnceAlways, AtPositionInit, AtPositionStep, CountsInit, PTL DEF Spec
=============================================================================
