----------------------------- MODULE Persistence -----------------------------
(***************************************************************************)
(* Saving the grid to MongoDB and loading it when the application starts     *)
(* again.  The PersisterService's single thread marshals every cell of every *)
(* source into one document, reading live objects while a calculator         *)
(* changes them without a common lock, and inserts the document; a new       *)
(* AisCoverage loads the newest document, while the Purger trims the grid.    *)
(* The application may crash at any moment, and stops without saving.        *)
(*                                                                          *)
(* A cell is loaded with its coordinates rounded down to the grid once more, *)
(* which in floating point may give those of its neighbour.                  *)
(*                                                                          *)
(* Signals are of one kind.  Dynamic time spans and distinct ships, which    *)
(* are not saved, are left out; documents are inserted in the order of their *)
(* dataTimestamp.  The Purger's trim point is any hour, and it leaves a cell *)
(* in one step; what its steps within a cell can do is the subject of        *)
(* WindowPurger.                                                             *)
(* An operator named Mutant... is the definition after it with a plausible   *)
(* mistake; no behaviour uses it.                                            *)
(***************************************************************************)
EXTENDS Integers, Sequences, FiniteSetsExt, Functions

CONSTANTS Sources, Cells,
          Rounded,      \* roundLat and roundLon of the coordinates of a cell
          LastHour,     \* bound of the model: hours of signals
          MaxSignals,   \* bound of the model: signals counted
          MaxSaves,     \* bound of the model: documents begun
          MaxStarts     \* bound of the model: starts of the application

Hours == 0 .. LastHour
Places == Sources \X Cells
NoPlace == <<>>
NoHour == -1

ASSUME PersistenceAssumption ==
  /\ IsFiniteSet(Cells) /\ Rounded \in [Cells -> Cells]
  /\ LastHour \in Nat /\ MaxSignals \in Nat /\ MaxSaves \in Nat /\ MaxStarts \in Nat

VARIABLES
  app,          \* "down", "loading", "up", "stopping", or "broken" for good
  \* memory
  grid,         \* places that have a cell
  at,           \* Cell.latitude and longitude: those of which cell
  spans,        \* hours that have a fixed-width time span, per place
  count,        \* TimeSpan.messageCounterTerrestrial
  total,        \* Cell.NOofReceivedSignals
  firstMessage, \* Helper.firstMessage, NoHour for null
  toLoad,       \* cells of the loaded document not yet put into the grid
  \* the calculator counting a signal
  calcPc, place, hour,
  \* the Purger
  trimPoint,    \* of the pass under way, NoHour if there is none
  toPurge,      \* cells the iterator over the grid will still return
  \* the persister thread
  saverPc,
  toMarshal,    \* cells the iterator over the grid will still return
  marshalling, hoursLeft, \* the iterator over a cell's spans
  changed,      \* ... and whether spans were put or removed since it was made
  document,     \* the document being made
  \* MongoDB
  saved,        \* the newest document
  \* history
  starts, saves, signals,
  ever,         \* signals ever counted
  purged,       \* signals whose span the Purger has removed, per place
  atStart       \* the counters when the save began, but for those purged since

memoryVars == <<grid, at, spans, count, total, purged, firstMessage>>
calcVars == <<calcPc, place, hour>>
purgeVars == <<trimPoint, toPurge>>
saverVars == <<saverPc, toMarshal, marshalling, hoursLeft, changed, document, atStart>>
historyVars == <<starts, saves, signals, ever>>
vars == <<app, memoryVars, toLoad, calcVars, purgeVars, saverVars, saved, historyVars>>

NoSignals == [p \in Places |-> [h \in Hours |-> 0]]
NoTotals == [p \in Places |-> 0]
NoSpans == [p \in Places |-> {}]
InPlace == [p \in Places |-> p[2]]
EmptyDocument ==
  [cells |-> {}, at |-> InPlace, total |-> NoTotals, purged |-> NoTotals,
   spans |-> NoSpans, count |-> NoSignals]

Init ==
  /\ app = "down"
  /\ grid = {} /\ at = InPlace /\ spans = NoSpans /\ count = NoSignals
  /\ total = NoTotals /\ purged = NoTotals /\ firstMessage = NoHour
  /\ toLoad = {}
  /\ calcPc = "idle" /\ place = NoPlace /\ hour = 0
  /\ trimPoint = NoHour /\ toPurge = {}
  /\ saverPc = "idle" /\ toMarshal = {} /\ marshalling = NoPlace
  /\ hoursLeft = {} /\ changed = FALSE /\ document = EmptyDocument
  /\ saved = EmptyDocument
  /\ starts = 0 /\ saves = 0 /\ signals = 0
  /\ ever = NoSignals /\ atStart = NoSignals

-----------------------------------------------------------------------------
(* Starting, crashing and stopping.                                         *)

MutantForget == UNCHANGED memoryVars
Forget ==
  /\ grid' = {} /\ at' = InPlace /\ spans' = NoSpans /\ count' = NoSignals
  /\ total' = NoTotals /\ purged' = NoTotals /\ firstMessage' = NoHour

(* The AisCoverage constructor.  A database that cannot be reached makes it *)
(* fail, with nothing changed.                                              *)
Start ==
  /\ app = "down"
  /\ starts < MaxStarts
  /\ starts' = starts + 1
  /\ app' = "loading"
  /\ toLoad' = saved.cells
  /\ UNCHANGED <<memoryVars, calcVars, purgeVars, saverVars, saved, saves, signals, ever>>

Earliest(p) == Min(saved.spans[p])

(* unmarshallCell rounds the saved coordinates, and updateCell looks for a  *)
(* cell by them, which rounds them again: what it finds may be another cell  *)
(* than the one whose id was saved                                          *)
LoadedAt(p) == Rounded[saved.at[p]]
Twin(p) == <<p[1], Rounded[LoadedAt(p)]>>
Target(p) == IF Twin(p) \in grid THEN Twin(p) ELSE p

(* updateCell adds to the cell it has found, or puts the loaded one into    *)
(* the grid; then adjustSystemEarliestMessageFromCell, which throws if the   *)
(* cell has no time span                                                    *)
LoadCell(p) ==
  LET q == Target(p) IN
  /\ app = "loading"
  /\ p \in toLoad
  /\ toLoad' = toLoad \ {p}
  /\ grid' = grid \cup {q}
  /\ at' = IF q \in grid THEN at ELSE [at EXCEPT ![q] = LoadedAt(p)]
  /\ spans' = [spans EXCEPT ![q] = @ \cup saved.spans[p]]
  /\ count' = [count EXCEPT ![q] = [h \in Hours |-> @[h] + saved.count[p][h]]]
  /\ total' = [total EXCEPT ![q] = @ + saved.total[p]]
  /\ purged' = [purged EXCEPT ![q] = @ + saved.purged[p]]
  /\ IF saved.spans[p] = {}
     THEN app' = "broken" /\ UNCHANGED firstMessage
     ELSE /\ firstMessage' = IF firstMessage = NoHour \/ firstMessage > Earliest(p)
                             THEN Earliest(p) ELSE firstMessage
          /\ UNCHANGED app
  /\ UNCHANGED <<calcVars, purgeVars, saverVars, saved, historyVars>>

Loaded ==
  /\ app = "loading"
  /\ toLoad = {}
  /\ app' = "up"
  /\ UNCHANGED <<memoryVars, toLoad, calcVars, purgeVars, saverVars, saved, historyVars>>

(* what the saver's local variables hold between two saves does not matter  *)
SaverRests(pc) ==
  /\ saverPc' = pc
  /\ toMarshal' = {} /\ marshalling' = NoPlace /\ hoursLeft' = {} /\ changed' = FALSE
  /\ document' = EmptyDocument /\ atStart' = NoSignals

GoDown ==
  /\ app' = "down"
  /\ Forget
  /\ toLoad' = {}
  /\ calcPc' = "idle" /\ place' = NoPlace /\ hour' = 0
  /\ trimPoint' = NoHour /\ toPurge' = {}
  /\ SaverRests("idle")
  /\ UNCHANGED <<saved, historyVars>>

Crash == app \in {"loading", "up", "stopping"} /\ GoDown

(* stop: no packets any more, then the persister's executor is shut down    *)
Stop ==
  /\ app = "up" /\ calcPc = "idle"
  /\ app' = "stopping"
  /\ UNCHANGED <<memoryVars, toLoad, calcVars, purgeVars, saverVars, saved, historyVars>>

(* it waits for a save that is running; none is begun                       *)
Stopped == app = "stopping" /\ saverPc = "idle" /\ GoDown

-----------------------------------------------------------------------------
(* A calculator counts a signal: incrementReceivedSignals.                  *)

(* what an iterator over the grid returns once p is inserted or removed: it *)
(* may have passed the place of p already, or still have to come to it      *)
WithOrWithout(toVisit, p) == {toVisit \cup {p}, toVisit \ {p}}

FindCell(p, h) ==
  /\ app = "up" /\ calcPc = "idle"
  /\ signals < MaxSignals
  /\ signals' = signals + 1
  /\ place' = p /\ hour' = h
  /\ firstMessage' = IF firstMessage = NoHour THEN h ELSE firstMessage
  /\ calcPc' = "span"
  /\ IF p \in grid
     THEN UNCHANGED <<grid, at, total, toMarshal, toPurge>>
     ELSE /\ grid' = grid \cup {p}
          /\ at' = [at EXCEPT ![p] = p[2]]
          /\ total' = [total EXCEPT ![p] = 0]
          /\ toMarshal' \in IF saverPc = "idle" \/ p \in document.cells THEN {toMarshal}
                            ELSE WithOrWithout(toMarshal, p)
          /\ toPurge' \in IF trimPoint = NoHour THEN {toPurge} ELSE WithOrWithout(toPurge, p)
  /\ UNCHANGED <<app, spans, count, purged, toLoad, trimPoint, saverPc, marshalling, hoursLeft,
                 changed, document, atStart, saved, starts, saves, ever>>

FindSpan ==
  /\ calcPc = "span"
  /\ spans' = [spans EXCEPT ![place] = @ \cup {hour}]
  /\ changed' = (changed \/ (marshalling = place /\ hour \notin spans[place]))
  /\ calcPc' = "count"
  /\ UNCHANGED <<app, grid, at, count, total, purged, firstMessage, toLoad, place, hour, purgeVars,
                 saverPc, toMarshal, marshalling, hoursLeft, document, atStart, saved, historyVars>>

(* the time span may have been purged since it was found                    *)
CountInSpan ==
  /\ calcPc = "count"
  /\ IF hour \in spans[place]
     THEN count' = [count EXCEPT ![place][hour] = @ + 1] /\ UNCHANGED purged
     ELSE purged' = [purged EXCEPT ![place] = @ + 1] /\ UNCHANGED count
  /\ ever' = [ever EXCEPT ![place][hour] = @ + 1]
  /\ calcPc' = "total"
  /\ UNCHANGED <<app, grid, at, spans, total, firstMessage, toLoad, place, hour, purgeVars, saverVars,
                 saved, starts, saves, signals>>

CountInCell ==
  /\ calcPc = "total"
  /\ total' = [total EXCEPT ![place] = @ + 1]
  /\ calcPc' = "idle" /\ place' = NoPlace /\ hour' = 0
  /\ UNCHANGED <<app, grid, at, spans, count, purged, firstMessage, toLoad, purgeVars, saverVars, saved,
                 historyVars>>

-----------------------------------------------------------------------------
(* The Purger: trimWindow.                                                  *)

BeginPurge(t) ==
  /\ app \in {"up", "stopping"} /\ trimPoint = NoHour
  /\ firstMessage # NoHour /\ firstMessage < t
  /\ trimPoint' = t
  /\ toPurge' = grid
  /\ UNCHANGED <<app, memoryVars, toLoad, calcVars, saverVars, saved, historyVars>>

Without(f, hs) == [h \in Hours |-> IF h \in hs THEN 0 ELSE f[h]]
SumOf(f) == FoldFunctionOnSet(+, 0, f, Hours)

(* The cell's own counters keep what is removed with a span.  A cell that   *)
(* has none any more is removed: a calculator that has found it goes on      *)
(* with an object nobody sees.                                              *)
PurgeCell(p) ==
  LET expired == {h \in spans[p] : firstMessage <= h /\ h < trimPoint}
      left == spans[p] \ expired
      kept == Without(count[p], expired) IN
  /\ p \in toPurge
  /\ toPurge' = toPurge \ {p}
  /\ spans' = [spans EXCEPT ![p] = left]
  /\ count' = [count EXCEPT ![p] = kept]
  /\ purged' = [purged EXCEPT ![p] = @ + SumOf(count[p]) - SumOf(kept)]
  /\ atStart' = [atStart EXCEPT ![p] = Without(@, expired)]
  /\ changed' = (changed \/ (marshalling = p /\ expired # {}))
  /\ IF left = {}
     THEN /\ grid' = grid \ {p}
          /\ toMarshal' \in {toMarshal, toMarshal \ {p}}
          /\ IF place = p THEN calcPc' = "idle" /\ place' = NoPlace /\ hour' = 0 ELSE UNCHANGED calcVars
     ELSE UNCHANGED <<grid, toMarshal, calcVars>>
  /\ UNCHANGED <<app, at, total, firstMessage, toLoad, trimPoint, saverPc, marshalling, hoursLeft,
                 document, saved, historyVars>>

FinishPurge ==
  /\ trimPoint # NoHour
  /\ toPurge = {}
  /\ firstMessage' = trimPoint
  /\ trimPoint' = NoHour
  /\ UNCHANGED <<app, grid, at, spans, count, total, purged, toLoad, calcVars, toPurge, saverVars, saved,
                 historyVars>>

-----------------------------------------------------------------------------
(* The persister thread: SaveOperation.run.                                 *)

BeginSave ==
  /\ app = "up" /\ saverPc = "idle"
  /\ saves < MaxSaves
  /\ saves' = saves + 1
  /\ toMarshal' = grid
  /\ document' = EmptyDocument
  /\ atStart' = count
  /\ saverPc' = "cells"
  /\ UNCHANGED <<app, memoryVars, toLoad, calcVars, purgeVars, marshalling, hoursLeft, changed, saved,
                 starts, signals, ever>>

(* the spans the iterator will return; the newest hour is not left out      *)
MutantSpansToSave(p) == {h \in spans[p] : \E other \in spans[p] : other > h}
SpansToSave(p) == spans[p]

(* marshallCell: the cell's own counters come first, then its time spans    *)
MarshalCell(p) ==
  /\ saverPc = "cells"
  /\ p \in toMarshal
  /\ toMarshal' = toMarshal \ {p}
  /\ marshalling' = p
  /\ document' = [document EXCEPT !.cells = @ \cup {p}, !.at[p] = at[p], !.total[p] = total[p]]
  /\ hoursLeft' = SpansToSave(p)
  /\ changed' = FALSE
  /\ saverPc' = "spans"
  /\ UNCHANGED <<app, memoryVars, toLoad, calcVars, purgeVars, atStart, saved, historyVars>>

MarshalSpan(h) ==
  /\ saverPc = "spans"
  /\ h \in hoursLeft \cap spans[marshalling]
  /\ hoursLeft' = hoursLeft \ {h}
  /\ document' = [document EXCEPT !.spans[marshalling] = @ \cup {h},
                                  !.count[marshalling][h] = count[marshalling][h]]
  /\ UNCHANGED <<app, memoryVars, toLoad, calcVars, purgeVars, saverPc, toMarshal, marshalling, changed,
                 atStart, saved, historyVars>>

MutantCellDone ==
  /\ saverPc = "spans"
  /\ hoursLeft = {}
  /\ document' = [document EXCEPT !.total[marshalling] = total[marshalling],
                                  !.purged[marshalling] = purged[marshalling]]
  /\ saverPc' = "cells" /\ marshalling' = NoPlace /\ changed' = FALSE
  /\ UNCHANGED <<app, memoryVars, toLoad, calcVars, purgeVars, toMarshal, hoursLeft, atStart, saved,
                 historyVars>>

(* purged, which is history, is noted when the cell is complete             *)
CellDone ==
  /\ saverPc = "spans"
  /\ hoursLeft = {}
  /\ document' = [document EXCEPT !.purged[marshalling] = purged[marshalling]]
  /\ saverPc' = "cells" /\ marshalling' = NoPlace /\ changed' = FALSE
  /\ UNCHANGED <<app, memoryVars, toLoad, calcVars, purgeVars, toMarshal, hoursLeft, atStart, saved,
                 historyVars>>

Insert ==
  /\ saverPc = "cells"
  /\ toMarshal = {}
  /\ saved' = document
  /\ SaverRests("idle")
  /\ UNCHANGED <<app, memoryVars, toLoad, calcVars, purgeVars, historyVars>>

(* ConcurrentModificationException, if the iterator sees that a span was    *)
(* put in its map or removed from it, or no connection to the database: run *)
(* catches it, and the executor goes on                                     *)
MutantAfterFailure == "dead"
AfterFailure == "idle"

SaveFails ==
  /\ \/ saverPc = "spans" /\ hoursLeft # {} /\ changed
     \/ saverPc = "cells" /\ toMarshal = {}
  /\ SaverRests(AfterFailure)
  /\ UNCHANGED <<app, memoryVars, toLoad, calcVars, purgeVars, saved, historyVars>>

Calculator == FindSpan \/ CountInSpan \/ CountInCell
Purger == (\E t \in Hours : BeginPurge(t)) \/ (\E p \in Places : PurgeCell(p)) \/ FinishPurge
Saver ==
  \/ \E p \in Places : MarshalCell(p)
  \/ \E h \in Hours : MarshalSpan(h)
  \/ CellDone \/ Insert \/ SaveFails

(* the model's starts are used up, or the application cannot start          *)
Quiescent ==
  /\ \/ app = "down" /\ starts = MaxStarts
     \/ app = "broken"
     \/ app = "up" /\ calcPc = "idle" /\ saverPc = "idle"
  /\ UNCHANGED vars

Next ==
  \/ Start \/ (\E p \in Places : LoadCell(p)) \/ Loaded
  \/ Crash \/ Stop \/ Stopped
  \/ (\E p \in Places, h \in Hours : FindCell(p, h)) \/ Calculator
  \/ Purger
  \/ BeginSave \/ Saver
  \/ Quiescent

(* A save that has been begun is worked on; the scheduler begins the next   *)
(* one when it is due.                                                      *)
Spec == Init /\ [][Next]_vars /\ WF_vars(Saver)

-----------------------------------------------------------------------------

CountType == [Places -> [Hours -> Nat]]
DocumentType ==
  [cells : SUBSET Places, at : [Places -> Cells], total : [Places -> Nat], purged : [Places -> Nat],
   spans : [Places -> SUBSET Hours], count : CountType]

TypeOK ==
  /\ app \in {"down", "loading", "up", "stopping", "broken"}
  /\ grid \subseteq Places /\ at \in [Places -> Cells] /\ spans \in [Places -> SUBSET Hours]
  /\ count \in CountType /\ total \in [Places -> Nat] /\ purged \in [Places -> Nat]
  /\ firstMessage \in Hours \cup {NoHour}
  /\ toLoad \subseteq Places
  /\ calcPc \in {"idle", "span", "count", "total"}
  /\ place \in Places \cup {NoPlace} /\ hour \in Hours
  /\ trimPoint \in Hours \cup {NoHour} /\ toPurge \subseteq Places
  /\ saverPc \in {"idle", "cells", "spans"}
  /\ toMarshal \subseteq Places /\ marshalling \in Places \cup {NoPlace}
  /\ hoursLeft \subseteq Hours /\ changed \in BOOLEAN
  /\ document \in DocumentType /\ saved \in DocumentType
  /\ ever \in CountType /\ atStart \in CountType
  /\ starts \in 0 .. MaxStarts /\ saves \in 0 .. MaxSaves /\ signals \in 0 .. MaxSignals

(* Crashes, stops and restarts lose signals but never count one twice: the  *)
(* cells of a source hold no more signals of an hour than were counted for   *)
(* it, neither in memory nor in a document, although loading may add one     *)
(* cell's signals to another.                                               *)
InSource(f, s, h) == SumFunctionOnSet([c \in Cells |-> f[<<s, c>>][h]], Cells)
NeverOvercounted ==
  \A s \in Sources, h \in Hours :
    LET most == InSource(ever, s, h)
    IN  InSource(count, s, h) <= most /\ InSource(saved.count, s, h) <= most

(* A cell's own counter, which the exports read, exceeds the sum of its time *)
(* spans' counters by no more than what the Purger has removed from it,      *)
(* neither in a document nor after a restart: the calculator increments the  *)
(* span first, the marshaller reads the cell first.                         *)
TotalWithinSpans ==
  /\ \A p \in grid : total[p] <= SumOf(count[p]) + purged[p]
  /\ \A p \in saved.cells : saved.total[p] <= SumOf(saved.count[p]) + saved.purged[p]

(* A document that is inserted holds every signal that was counted before   *)
(* its save began and has not been purged since, although the grid changes   *)
(* while it is marshalled.                                                  *)
SaveIsRecent ==
  [][saved' # saved => \A p \in Places, h \in Hours : saved'.count[p][h] >= atStart[p][h]]_vars

(* A failing save is not the last one: the persister is idle again after    *)
(* every save, whether it succeeds or not.                                  *)
SaverReturns == saverPc # "idle" ~> saverPc = "idle"

(* What was saved can be loaded (AisCoverageTest: when there is a new       *)
(* instance, then existing data is loaded).                                 *)
RestartSucceeds == app # "broken"
=============================================================================
