---------------------------- MODULE WindowPurger ----------------------------
(***************************************************************************)
(* The sliding window of one source's grid.  A calculator thread sets       *)
(* Helper.latestMessage from the message that has arrived and counts        *)
(* signals: those of the messages its ship sent before, which may have been *)
(* waiting for long, and those missing between them (TerrestrialCalculator).*)
(* For each it finds or creates the cell, finds or creates the cell's       *)
(* fixed-width (hourly) time span and increments it (OnlyMemoryData).  The  *)
(* Purger thread, without a common lock, reads Helper's dates, trims every  *)
(* cell up to the trim point and removes the cells that hold no time span   *)
(* (trimWindow).                                                            *)
(*                                                                          *)
(* Time is counted in whole hours: getFloorDate and getCeilDate of a        *)
(* message of hour h are h and h + 1.  PacketPipeline shows that one        *)
(* calculator thread is active at a time.  Dynamic time spans of satellite  *)
(* messages are the subject of SatTimeSpans; here a cell has none.          *)
(* An operator named Mutant... is the definition after it with a plausible  *)
(* mistake; no behaviour uses it.                                           *)
(***************************************************************************)
EXTENDS Integers, FiniteSets

CONSTANTS Cells,          \* ids of grid cells
          LastHour,       \* bound of the model: hours of message timestamps
          MaxMessages,    \* bound of the model: messages that arrive
          MaxSignals,     \* bound of the model: signals counted
          FirstHour,      \* Helper.firstMessage, set by the first packet converted
          MaxWindowSize,  \* windowSize, in hours
          Lateness,       \* how many hours a message may be behind the newest one
          MsPerHour,      \* milliseconds in an hour, scaled down with ...
          IntSpan         \* ... the number of values of a Java int

Hours == 0 .. LastHour

ASSUME WindowAssumption ==
  /\ LastHour \in Nat /\ MaxMessages \in Nat /\ MaxSignals \in Nat
  /\ FirstHour \in Hours
  /\ MaxWindowSize \in Nat \ {0}
  /\ Lateness \in Nat
  /\ MsPerHour \in Nat \ {0}
  /\ IntSpan \in Nat \ {0}

VARIABLES
  \* Helper
  firstMessage,   \* beginning of the window
  latestMessage,  \* hour of the message processed last, which may be a late one
  \* the grid of the source
  grid,           \* cells in Source.grid
  spans,          \* hours that have a fixed-width time span, per cell
  counter,        \* TimeSpan.messageCounterTerrestrial, per cell and hour
  \* the calculator thread: its place and the local variables cell and ts
  calcPc, cell, hour,
  attached,       \* these objects are still the ones in the grid
  \* the Purger thread
  purgePc, trimPoint,
  toVisit,        \* cells the iterator over the grid will still return
  visited,        \* the cell it has returned
  \* history
  newest,         \* newest hour of any message so far
  messages,       \* messages that have arrived
  signals,        \* signals counted
  counted,        \* what the counters would be had nothing ever been trimmed
  disturbed,      \* cells that were removed, or lost a put to a concurrent removal
  missed          \* hours whose span was put behind the Purger's back, per cell

helperVars == <<firstMessage, latestMessage>>
gridVars == <<grid, spans, counter>>
calcVars == <<calcPc, cell, hour, attached>>
purgeVars == <<purgePc, trimPoint, toVisit, visited>>
historyVars == <<newest, messages, signals, counted, disturbed, missed>>
vars == <<helperVars, gridVars, calcVars, purgeVars, historyVars>>

NoCell == "none"

Init ==
  /\ firstMessage = FirstHour
  /\ latestMessage = FirstHour
  /\ grid = {}
  /\ spans = [c \in Cells |-> {}]
  /\ counter = [c \in Cells |-> [h \in Hours |-> 0]]
  /\ calcPc = "idle" /\ cell = NoCell /\ hour = FirstHour /\ attached = FALSE
  /\ purgePc = "asleep" /\ trimPoint = FirstHour /\ toVisit = {} /\ visited = NoCell
  /\ newest = FirstHour
  /\ messages = 0
  /\ signals = 0
  /\ counted = [c \in Cells |-> [h \in Hours |-> 0]]
  /\ disturbed = {}
  /\ missed = [c \in Cells |-> {}]

-----------------------------------------------------------------------------
(* The calculator thread.                                                   *)

(* getFloorDate of a message of hour h                                      *)
FloorDate(h) == h

(* a message of hour h arrives; latestMessage is set from it, unconditionally *)
Arrive(h) ==
  /\ calcPc = "idle"
  /\ messages < MaxMessages
  /\ h >= newest - Lateness
  /\ latestMessage' = FloorDate(h)
  /\ newest' = IF h > newest THEN h ELSE newest
  /\ messages' = messages + 1
  /\ UNCHANGED <<firstMessage, gridVars, calcVars, purgeVars, signals, counted, disturbed, missed>>

(* A signal of hour h has to be counted.  It is that of a message, be it    *)
(* ever so old: the last message of a ship waits in its buffer until the    *)
(* ship sends again.  Or it is a missing one, dated between two messages,   *)
(* or as far behind them as they are out of order.                          *)
Calculate(c, h) ==
  /\ calcPc = "idle"
  /\ signals < MaxSignals
  /\ h >= FirstHour - Lateness /\ h <= newest + Lateness
  /\ signals' = signals + 1
  /\ cell' = c
  /\ hour' = h
  /\ attached' = TRUE
  /\ calcPc' = "cell"
  /\ UNCHANGED <<helperVars, gridVars, purgeVars, newest, messages, counted, disturbed, missed>>

(* getCellFromCoordinates: the cell of the grid, or a new one without spans; *)
(* an iterator over the grid may or may not return a cell inserted meanwhile *)
FindCell ==
  /\ calcPc = "cell"
  /\ grid' = grid \cup {cell}
  /\ toVisit' \in {toVisit} \cup
                 (IF cell \notin grid /\ purgePc \notin {"asleep", "trim"}
                  THEN {toVisit \cup {cell}} ELSE {})
  /\ calcPc' = "span"
  /\ UNCHANGED <<helperVars, spans, counter, cell, hour, attached,
                 purgePc, trimPoint, visited, historyVars>>

(* the Purger is removing spans of the same cell: the map is an             *)
(* unsynchronized HashMap, and a put can be lost                            *)
MapContended == purgePc = "spans" /\ visited = cell

(* No pass of the Purger will remove a span of this hour if it is put into  *)
(* this cell now: a pass starts at firstMessage, and the one under way, if  *)
(* any, has left the cell or will not come to it.                           *)
BehindPurger ==
  \/ hour < firstMessage
  \/ /\ purgePc \notin {"asleep", "trim"} /\ hour < trimPoint
     /\ cell \notin toVisit /\ ~MapContended

(* getTimeSpanFromTimestamp *)
FindSpan ==
  /\ calcPc = "span"
  /\ calcPc' = "count"
  /\ \/ /\ attached
        /\ spans' = [spans EXCEPT ![cell] = @ \cup {hour}]
        /\ missed' = IF BehindPurger THEN [missed EXCEPT ![cell] = @ \cup {hour}] ELSE missed
        /\ UNCHANGED <<attached, disturbed>>
     \/ /\ attached
        /\ MapContended
        /\ hour \notin spans[cell]
        /\ attached' = FALSE
        /\ disturbed' = disturbed \cup {cell}
        /\ UNCHANGED <<spans, missed>>
     \/ /\ ~attached
        /\ UNCHANGED <<spans, attached, disturbed, missed>>
  /\ UNCHANGED <<helperVars, grid, counter, cell, hour, purgeVars, newest, messages, signals, counted>>

(* increment the counter of the time span, which may have left the grid     *)
Count ==
  /\ calcPc = "count"
  /\ calcPc' = "idle"
  /\ counted' = [counted EXCEPT ![cell][hour] = @ + 1]
  /\ counter' = IF attached THEN [counter EXCEPT ![cell][hour] = @ + 1] ELSE counter
  /\ attached' = FALSE
  /\ UNCHANGED <<helperVars, grid, spans, cell, hour, purgeVars, newest, messages, signals,
                 disturbed, missed>>

-----------------------------------------------------------------------------
(* The Purger thread.                                                       *)

CurrentWindowSize == latestMessage + 1 - firstMessage

MutantWindowExceeded == CurrentWindowSize > 0
WindowExceeded == CurrentWindowSize > MaxWindowSize

CheckWindow ==
  /\ purgePc = "asleep"
  /\ WindowExceeded
  /\ purgePc' = "trim"
  /\ UNCHANGED <<helperVars, gridVars, calcVars, trimPoint, toVisit, visited, historyVars>>

(* getTrimPoint reads latestMessage once more; trimWindow starts to iterate *)
StartTrim ==
  /\ purgePc = "trim"
  /\ trimPoint' = latestMessage + 1 - MaxWindowSize
  /\ toVisit' = grid
  /\ purgePc' = "next"
  /\ UNCHANGED <<helperVars, gridVars, calcVars, visited, historyVars>>

NextCell(c) ==
  /\ purgePc = "next"
  /\ c \in toVisit
  /\ visited' = c
  /\ toVisit' = toVisit \ {c}
  /\ purgePc' = "spans"
  /\ UNCHANGED <<helperVars, gridVars, calcVars, trimPoint, historyVars>>

(* (int) applied to a number of milliseconds: 32 bits, two's complement     *)
ToInt(ms) == ((ms + IntSpan \div 2) % IntSpan) - IntSpan \div 2

(* (int) (trimPoint - firstMessage) / 1000 / 60 / 60: the cast comes first  *)
HoursToRemove ==
  LET ms == ToInt((trimPoint - firstMessage) * MsPerHour)
  IN IF ms < 0 THEN 0 ELSE ms \div MsPerHour

MutantExpiredShort == firstMessage .. firstMessage + HoursToRemove - 2
MutantExpiredLong == firstMessage .. firstMessage + HoursToRemove
Expired == firstMessage .. firstMessage + HoursToRemove - 1

Without(f, hs) == [h \in Hours |-> IF h \in hs THEN 0 ELSE f[h]]

RemoveSpans ==
  /\ purgePc = "spans"
  /\ spans' = [spans EXCEPT ![visited] = @ \ Expired]
  /\ counter' = [counter EXCEPT ![visited] = Without(@, Expired)]
  /\ attached' = (attached /\ ~(calcPc = "count" /\ cell = visited /\ hour \in Expired))
  /\ missed' = [missed EXCEPT ![visited] = @ \ Expired]
  /\ purgePc' = "test"
  /\ UNCHANGED <<helperVars, grid, calcPc, cell, hour, trimPoint, toVisit, visited,
                 newest, messages, signals, counted, disturbed>>

CellIsEmpty == spans[visited] = {}

TestCell ==
  /\ purgePc = "test"
  /\ purgePc' = IF CellIsEmpty THEN "remove" ELSE "next"
  /\ UNCHANGED <<helperVars, gridVars, calcVars, trimPoint, toVisit, visited, historyVars>>

(* grid.remove: a calculator that holds the cell now updates a lost object  *)
RemoveCell ==
  /\ purgePc = "remove"
  /\ grid' = grid \ {visited}
  /\ spans' = [spans EXCEPT ![visited] = {}]
  /\ counter' = [counter EXCEPT ![visited] = Without(@, Hours)]
  /\ attached' = (attached /\ ~(calcPc \in {"span", "count"} /\ cell = visited))
  /\ disturbed' = disturbed \cup {visited}
  /\ missed' = [missed EXCEPT ![visited] = {}]
  /\ purgePc' = "next"
  /\ UNCHANGED <<helperVars, calcPc, cell, hour, trimPoint, toVisit, visited,
                 newest, messages, signals, counted>>

(* the iterator is exhausted *)
MutantFinishTrim ==
  /\ purgePc = "next"
  /\ toVisit = {}
  /\ purgePc' = "asleep"
  /\ UNCHANGED <<helperVars, gridVars, calcVars, trimPoint, toVisit, visited, historyVars>>

FinishTrim ==
  /\ purgePc = "next"
  /\ toVisit = {}
  /\ firstMessage' = trimPoint
  /\ purgePc' = "asleep"
  /\ UNCHANGED <<latestMessage, gridVars, calcVars, trimPoint, toVisit, visited, historyVars>>

Calculator == FindCell \/ FindSpan \/ Count
Purge ==
  \/ CheckWindow
  \/ StartTrim
  \/ \E c \in Cells : NextCell(c)
  \/ RemoveSpans
  \/ TestCell
  \/ RemoveCell
  \/ FinishTrim

(* The model's messages are used up and the window is in order: the Purger  *)
(* keeps polling and finds nothing to do.                                   *)
Quiescent ==
  /\ messages = MaxMessages /\ signals = MaxSignals /\ calcPc = "idle"
  /\ purgePc = "asleep" /\ ~WindowExceeded
  /\ UNCHANGED vars

Next ==
  \/ \E h \in Hours : Arrive(h)
  \/ \E c \in Cells, h \in Hours : Calculate(c, h)
  \/ Calculator
  \/ Purge
  \/ Quiescent

(* Both threads are runnable whenever they have a step to take; messages    *)
(* need not arrive.                                                         *)
Fairness == WF_vars(Calculator) /\ WF_vars(Purge)

Spec == Init /\ [][Next]_vars /\ Fairness

-----------------------------------------------------------------------------

CounterType == [Cells -> [Hours -> Nat]]

TypeOK ==
  /\ firstMessage \in Int
  /\ latestMessage \in Hours
  /\ grid \subseteq Cells
  /\ spans \in [Cells -> SUBSET Hours]
  /\ counter \in CounterType
  /\ calcPc \in {"idle", "cell", "span", "count"}
  /\ cell \in Cells \cup {NoCell}
  /\ calcPc # "idle" => cell \in Cells
  /\ hour \in Hours
  /\ attached \in BOOLEAN
  /\ purgePc \in {"asleep", "trim", "next", "spans", "test", "remove"}
  /\ purgePc \in {"spans", "test", "remove"} => visited \in Cells
  /\ trimPoint \in Int
  /\ toVisit \subseteq Cells
  /\ visited \in Cells \cup {NoCell}
  /\ newest \in Hours
  /\ messages \in 0 .. MaxMessages
  /\ signals \in 0 .. MaxSignals
  /\ counted \in CounterType
  /\ disturbed \subseteq Cells
  /\ missed \in [Cells -> SUBSET Hours]

(* Between two runs of the Purger a cell holds a time span from before the  *)
(* beginning of the window only if it was put there behind the Purger's     *)
(* back (BehindPurger): what was in the grid before, the trim has removed   *)
(* (comment at the head of trimWindow's loop), although signals of any age  *)
(* are counted while it runs.                                               *)
NoStaleSpans ==
  purgePc = "asleep" =>
    \A c \in Cells : \A h \in spans[c] : h >= firstMessage \/ h \in missed[c]

(* What was counted in an hour that is neither trimmed nor about to be is   *)
(* still there, in every cell the Purger has not interfered with while a    *)
(* signal was being counted.                                                *)
TrimBound == IF purgePc = "asleep" \/ trimPoint < firstMessage THEN firstMessage ELSE trimPoint
WindowIsKept ==
  \A c \in Cells \ disturbed, h \in Hours :
    h >= TrimBound => counter[c][h] = counted[c][h]

(* When the beginning of the window is moved, it moves back by less than    *)
(* messages are late, and forward when they are in order, although the      *)
(* Purger reads latestMessage once to test the window and once more for the *)
(* trim point.                                                              *)
FirstMessageAdvances ==
  [][firstMessage' # firstMessage => firstMessage' > firstMessage - Lateness]_vars

(* A window that is too large is eventually cut down to its maximum size.   *)
WindowIsTrimmed == WindowExceeded ~> ~WindowExceeded
=============================================================================
