---------------------------- MODULE SatTimeSpans ----------------------------
(***************************************************************************)
(* The dynamic time spans of one cell of the super source                   *)
(* (SatCalculator.calculate, Cell.timeSpans).  A satellite message extends  *)
(* a time span of its cell, or begins a new one if it is more than          *)
(* timeMargin away from it; two spans that meet are merged.  Meanwhile the  *)
(* Purger removes the spans at the head of the list that ended before its   *)
(* trim point (OnlyMemoryData.trimWindow).  The list is an ArrayList that   *)
(* both threads use without a lock; one calculator is active at a time      *)
(* (PacketPipeline).                                                        *)
(*                                                                          *)
(* Time spans are objects: the list holds references into heap.  The        *)
(* signals counted in fixed-width spans are totalled in fixedSat and        *)
(* fixedTerrestrial; WindowPurger has the purging of those spans, ShipTrack *)
(* the registration of the ship's position.                                 *)
(* An operator named Mutant... is the definition after it with a plausible  *)
(* mistake; no behaviour uses it.                                           *)
(***************************************************************************)
EXTENDS Integers, Sequences, FiniteSetsExt, Functions

CONSTANTS LastTime,     \* bound of the model: timestamps 0 .. LastTime
          TimeMargin,   \* timeMargin, in the same unit
          MaxMessages,  \* bound of the model: messages handled
          Lateness,     \* how far a message may be behind the newest one
          WindowSize,   \* length of the window, in the same unit
          MaxTrims      \* bound of the model: runs of the Purger

Times == 0 .. LastTime
NoSpan == 0

ASSUME SpansAssumption ==
  /\ LastTime \in Nat /\ TimeMargin \in Nat /\ MaxMessages \in Nat
  /\ Lateness \in Nat /\ WindowSize \in Nat /\ MaxTrims \in Nat

VARIABLES
  firstMessage, latestMessage, \* Helper's dates
  list,       \* Cell.timeSpans
  heap,       \* every TimeSpan made
  fixedSat, fixedTerrestrial,  \* messages counted in fixed-width spans
  \* the calculator
  calcPc,
  now,        \* timestamp of the message
  timeSpan, timeSpanPos,       \* local variables of calculate; positions count from 1
  \* the Purger
  purgePc, trimPoint,
  numberToRemove, modified,    \* the list changed since its iterator was made
  \* history
  messages, lost, \* messages handled, and those whose calculation threw
  newest, trims,
  dropped,        \* signals of the spans the Purger has removed
  disturbed       \* it has removed one while a message was being calculated

helperVars == <<firstMessage, latestMessage>>
listVars == <<list, heap>>
fixedVars == <<fixedSat, fixedTerrestrial>>
calcVars == <<calcPc, now, timeSpan, timeSpanPos>>
purgeVars == <<purgePc, trimPoint, numberToRemove>>
dropVars == <<dropped, disturbed>>
historyVars == <<messages, lost, newest, trims, dropVars>>
vars == <<helperVars, listVars, fixedVars, calcVars, purgeVars, modified, historyVars>>

Span(first, last, n) == [first |-> first, last |-> last, messageCounterSat |-> n]

Init ==
  /\ firstMessage = 0 /\ latestMessage = 0
  /\ list = <<>> /\ heap = <<>>
  /\ fixedSat = 0 /\ fixedTerrestrial = 0
  /\ calcPc = "idle" /\ now = 0 /\ timeSpan = NoSpan /\ timeSpanPos = 1
  /\ purgePc = "asleep" /\ trimPoint = 0 /\ numberToRemove = 0 /\ modified = FALSE
  /\ messages = 0 /\ lost = 0 /\ newest = 0 /\ trims = 0 /\ dropped = 0 /\ disturbed = FALSE

-----------------------------------------------------------------------------
(* The calculator.                                                          *)

Abs(x) == IF x < 0 THEN -x ELSE x
InsertAt(s, i, x) == SubSeq(s, 1, i - 1) \o <<x>> \o SubSeq(s, i, Len(s))

(* TerrestrialCalculator comes first and sets latestMessage                 *)
Arrive(t) ==
  /\ calcPc = "idle"
  /\ messages < MaxMessages
  /\ t >= newest - Lateness
  /\ messages' = messages + 1
  /\ newest' = IF t > newest THEN t ELSE newest
  /\ latestMessage' = t

CalculateTerrestrial(t) ==
  /\ Arrive(t)
  /\ fixedTerrestrial' = fixedTerrestrial + 1
  /\ UNCHANGED <<firstMessage, listVars, fixedSat, calcVars, purgeVars, modified, lost, trims, dropVars>>

CalculateSat(t) ==
  /\ Arrive(t)
  /\ fixedSat' = fixedSat + 1
  /\ now' = t
  /\ calcPc' = "search"
  /\ IF list = <<>>
     THEN list' = <<Len(heap) + 1>> /\ heap' = Append(heap, Span(t, t, 0)) /\ modified' = TRUE
     ELSE UNCHANGED <<listVars, modified>>
  /\ UNCHANGED <<firstMessage, fixedTerrestrial, timeSpan, timeSpanPos, purgeVars, lost, trims, dropVars>>

(* The loop goes backwards through the list and does not stop at the first  *)
(* match: the last one it finds is the span nearest to the head.            *)
MutantMatches == {i \in DOMAIN list : heap[list[i]].last <= now}
Matches == {i \in DOMAIN list : heap[list[i]].first <= now}
Found == Min(Matches)

Search ==
  /\ calcPc = "search"
  /\ IF Matches = {}
     THEN /\ heap' = Append(heap, Span(now, now, 0))
          /\ list' = InsertAt(list, 1, Len(heap) + 1)
          /\ timeSpan' = Len(heap) + 1
          /\ timeSpanPos' = 1
          /\ modified' = TRUE
     ELSE /\ timeSpan' = list[Found]
          /\ timeSpanPos' = Found
          /\ UNCHANGED <<listVars, modified>>
  /\ calcPc' = "outdated"
  /\ UNCHANGED <<helperVars, fixedVars, now, purgeVars, historyVars>>

IsOutdated == Abs(now - heap[timeSpan].last) > TimeMargin

(* an outdated span is followed by a new one; add throws if the Purger has  *)
(* made the list too short for the position                                 *)
Insert ==
  /\ calcPc = "outdated"
  /\ IF ~IsOutdated
     THEN calcPc' = "extend" /\ UNCHANGED <<listVars, timeSpan, timeSpanPos, modified, lost>>
     ELSE IF timeSpanPos <= Len(list)
     THEN /\ heap' = Append(heap, Span(now, now, 0))
          /\ list' = InsertAt(list, timeSpanPos + 1, Len(heap) + 1)
          /\ timeSpan' = Len(heap) + 1
          /\ timeSpanPos' = timeSpanPos + 1
          /\ modified' = TRUE
          /\ calcPc' = "count"
          /\ UNCHANGED lost
     ELSE calcPc' = "idle" /\ lost' = lost + 1 /\ UNCHANGED <<listVars, timeSpan, timeSpanPos, modified>>
  /\ UNCHANGED <<helperVars, fixedVars, now, purgeVars, messages, newest, trims, dropVars>>

(* mergeTimeSpans: the merged span ends where the second one does           *)
MutantMergedSwapped(a, b) == Span(b.first, a.last, a.messageCounterSat + b.messageCounterSat)
MutantMerged(a, b) == Span(a.first, b.last, b.messageCounterSat)
Merged(a, b) == Span(a.first, b.last, a.messageCounterSat + b.messageCounterSat)

(* a span that grows is merged with the next one of the list if they meet   *)
Extend ==
  LET grown == [heap EXCEPT ![timeSpan].last = now]
      next == list[timeSpanPos + 1]
      meets == /\ Len(list) > timeSpanPos
               /\ Abs(heap[next].first - now) <= TimeMargin
  IN
  /\ calcPc = "extend"
  /\ IF heap[timeSpan].last >= now
     THEN UNCHANGED <<listVars, timeSpan, modified>>
     ELSE IF ~meets
     THEN heap' = grown /\ UNCHANGED <<list, timeSpan, modified>>
     ELSE /\ heap' = Append(grown, Merged(grown[timeSpan], grown[next]))
          /\ list' = SubSeq(list, 1, timeSpanPos - 1) \o <<Len(heap) + 1>>
                       \o SubSeq(list, timeSpanPos + 2, Len(list))
          /\ timeSpan' = Len(heap) + 1
          /\ modified' = TRUE
  /\ calcPc' = "count"
  /\ UNCHANGED <<helperVars, fixedVars, now, timeSpanPos, purgeVars, historyVars>>

Count ==
  /\ calcPc = "count"
  /\ heap' = [heap EXCEPT ![timeSpan].messageCounterSat = @ + 1]
  /\ calcPc' = "idle"
  /\ UNCHANGED <<helperVars, list, fixedVars, now, timeSpan, timeSpanPos, purgeVars, modified, historyVars>>

-----------------------------------------------------------------------------
(* The Purger.                                                              *)

(* Both dates of Helper are read at once; WindowPurger has the reads apart. *)
WindowExceeded == latestMessage - firstMessage > WindowSize

StartTrim ==
  /\ purgePc = "asleep"
  /\ trims < MaxTrims
  /\ WindowExceeded
  /\ trims' = trims + 1
  /\ trimPoint' = latestMessage - WindowSize
  /\ numberToRemove' = 0
  /\ modified' = FALSE
  /\ purgePc' = "scan"
  /\ UNCHANGED <<helperVars, listVars, fixedVars, calcVars, messages, lost, newest, dropVars>>

(* count the spans at the head that ended before the trim point             *)
Expired(id) == heap[id].last < trimPoint

Scan ==
  /\ purgePc = "scan"
  /\ ~modified
  /\ IF numberToRemove < Len(list) /\ Expired(list[numberToRemove + 1])
     THEN numberToRemove' = numberToRemove + 1 /\ UNCHANGED purgePc
     ELSE purgePc' = "remove" /\ UNCHANGED numberToRemove
  /\ UNCHANGED <<helperVars, listVars, fixedVars, calcVars, trimPoint, modified, historyVars>>

(* the iterator sees that the list has changed: nothing catches the         *)
(* exception, and the Purger thread ends; or it does not see it             *)
ScanThrows ==
  /\ purgePc = "scan"
  /\ modified
  /\ \/ purgePc' = "dead" /\ UNCHANGED modified
     \/ modified' = FALSE /\ UNCHANGED purgePc
  /\ UNCHANGED <<helperVars, listVars, fixedVars, calcVars, trimPoint, numberToRemove, historyVars>>

(* A search under way began at the end that the list had: get throws.  (If   *)
(* the search has passed that end it finds what it finds when it comes after.) *)
SearchThrows ==
  /\ calcPc = "search"
  /\ calcPc' = "idle"
  /\ lost' = lost + 1
  /\ UNCHANGED <<now, timeSpan, timeSpanPos>>

(* remove(0) throws when the calculator's merging has emptied the list      *)
RemoveFirst ==
  /\ purgePc = "remove"
  /\ numberToRemove > 0
  /\ IF list = <<>>
     THEN purgePc' = "dead" /\ UNCHANGED <<list, numberToRemove, dropVars, calcVars, lost>>
     ELSE /\ list' = Tail(list)
          /\ numberToRemove' = numberToRemove - 1
          /\ dropped' = dropped + heap[Head(list)].messageCounterSat
          /\ disturbed' = (disturbed \/ calcPc # "idle")
          /\ UNCHANGED purgePc
          /\ SearchThrows \/ UNCHANGED <<calcVars, lost>>
  /\ UNCHANGED <<helperVars, heap, fixedVars, trimPoint, modified, messages, newest, trims>>

(* that a cell without spans is removed then is in WindowPurger              *)
FinishTrim ==
  /\ purgePc = "remove"
  /\ numberToRemove = 0
  /\ purgePc' = "asleep"
  /\ firstMessage' = trimPoint
  /\ UNCHANGED <<latestMessage, listVars, fixedVars, calcVars, trimPoint, numberToRemove, modified,
                 historyVars>>

Calculator == Search \/ Insert \/ Extend \/ Count
Purge == StartTrim \/ Scan \/ ScanThrows \/ RemoveFirst \/ FinishTrim

(* the model's messages and trims are used up *)
Quiescent ==
  /\ messages = MaxMessages /\ calcPc = "idle"
  /\ purgePc \in {"asleep", "dead"}
  /\ UNCHANGED vars

Next ==
  \/ \E t \in Times : CalculateSat(t) \/ CalculateTerrestrial(t)
  \/ Calculator
  \/ Purge
  \/ Quiescent

Spec == Init /\ [][Next]_vars

-----------------------------------------------------------------------------

SpanType == [first : Times, last : Times, messageCounterSat : Nat]

TypeOK ==
  /\ firstMessage \in Times /\ latestMessage \in Times
  /\ heap \in Seq(SpanType)
  /\ list \in Seq(1 .. Len(heap))
  /\ fixedSat \in Nat /\ fixedTerrestrial \in Nat
  /\ calcPc \in {"idle", "search", "outdated", "extend", "count"}
  /\ now \in Times
  /\ timeSpan \in 0 .. Len(heap) /\ timeSpanPos \in Nat \ {0}
  /\ calcPc \in {"outdated", "extend", "count"} => timeSpan # NoSpan
  /\ purgePc \in {"asleep", "scan", "remove", "dead"}
  /\ trimPoint \in Times /\ numberToRemove \in Nat /\ modified \in BOOLEAN
  /\ messages \in 0 .. MaxMessages /\ lost \in 0 .. MaxMessages
  /\ newest \in Times /\ trims \in 0 .. MaxTrims
  /\ dropped \in Nat /\ disturbed \in BOOLEAN

SpansOf == {list[i] : i \in DOMAIN list}

(* The messages counted in the dynamic spans, and in those the Purger took  *)
(* between two messages, are those counted in the fixed-width ones:         *)
(* inserting and merging neither loses nor repeats any.                     *)
CountedInSpans ==
  SumFunctionOnSet([i \in DOMAIN heap |-> heap[i].messageCounterSat], SpansOf)
CountsAgree ==
  ~disturbed => CountedInSpans + dropped + (IF calcPc = "idle" THEN 0 ELSE 1) = fixedSat

(* Until the Purger removes a span, the head of the list is its oldest one, *)
(* in whatever order messages come: a message that finds no span is older   *)
(* than all of them.                                                        *)
HeadIsOldest ==
  dropped = 0 => \A i \in DOMAIN list : heap[list[1]].first <= heap[list[i]].first

(* Until the Purger removes a span that was counted in, no span ends before *)
(* it begins, although a merged one takes its end from the second span.     *)
(* (After that one may, also with messages in order: a message is put right *)
(* behind the head, so the rest of the list has the newest span first, and  *)
(* a new head can be merged with an older span: see the README.)  And a     *)
(* span is in the list for a message that was counted in it, or that is     *)
(* being calculated, also with a Purger that removes spans meanwhile.       *)
SpansWellFormed ==
  /\ dropped = 0 => \A i \in DOMAIN list : heap[list[i]].first <= heap[list[i]].last
  /\ \A i \in SpansOf :
       heap[i].messageCounterSat = 0 => calcPc # "idle" /\ heap[i].first = now
=============================================================================
