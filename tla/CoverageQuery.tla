---------------------------- MODULE CoverageQuery ----------------------------
(***************************************************************************)
(* A coverage request (CoverageRestService.coverage, getTerrestrialCoverage) *)
(* while the calculator of SignalCounting is at work.  A request thread      *)
(* sums up the time spans of one source, cell by cell, then those of the     *)
(* super source, and compares the two: the signals the source did not        *)
(* receive are those expected by the super source less those it received.    *)
(* No lock is held; each grid is a ConcurrentHashMap, each cell's spans a    *)
(* plain HashMap whose iterator fails, or goes on, when a span is inserted.  *)
(*                                                                          *)
(* The request asks for one source and all cells; the purging of spans      *)
(* during a request is left out (README).                                   *)
(* An operator named Mutant... is the definition after it with a plausible  *)
(* mistake; no behaviour uses it.                                           *)
(***************************************************************************)
EXTENDS SignalCounting

CONSTANTS MaxQueries,           \* bound of the model: requests made
          MultiplicationFactor  \* cells of the grid in a cell of the answer

CoarseOf(c) == c \div MultiplicationFactor

ASSUME QueryAssumption == MaxQueries \in Nat /\ MultiplicationFactor \in Nat \ {0}

VARIABLES
  queryPc,
  asked,      \* the source and the hours of the request
  side,       \* whose cells are being read: "source" or "super"
  cellsLeft,  \* cells the iterator over the grid will still return
  cell,       \* the cell being read
  reading,    \* the kind of signal being summed up
  hoursLeft,  \* spans the iterator over the cell's spans will still return
  expectedSpans, \* the spans when that iterator was made
  tempCells,  \* coarse cells made, per side
  sum,        \* signals summed up per side, kind and coarse cell
  queries     \* requests made

queryVars == <<queryPc, asked, side, cellsLeft, cell, reading, hoursLeft, expectedSpans,
               tempCells, sum, queries>>

Sides == {"source", "super"}
CoarseCells == {CoarseOf(c) : c \in Cells}
NothingRead == [x \in Sides |-> [n \in Kinds |-> [c \in CoarseCells |-> 0]]]

QueryInit ==
  /\ queryPc = "idle"
  /\ asked = [source |-> Super, hours |-> {}]
  /\ side = "source" /\ cellsLeft = {} /\ cell = 0
  /\ reading = "missing" /\ hoursLeft = {} /\ expectedSpans = {}
  /\ tempCells = [x \in Sides |-> {}]
  /\ sum = NothingRead
  /\ queries = 0

(* the source of the request is read first, the super source second         *)
MutantFirstSide == "super"
FirstSide == "source"
SourceOn(x) == IF x = "source" THEN asked.source ELSE Super

(* only whole spans inside the asked period count *)
HoursAsked(from, to) == from .. to

StartQuery(s, from, to) ==
  /\ queryPc = "idle"
  /\ queries < MaxQueries
  /\ from <= to
  /\ queries' = queries + 1
  /\ asked' = [source |-> s, hours |-> HoursAsked(from, to)]
  /\ tempCells' = [x \in Sides |-> {}]
  /\ sum' = NothingRead
  /\ side' = FirstSide
  /\ queryPc' = "open"
  /\ UNCHANGED <<cellsLeft, cell, reading, hoursLeft, expectedSpans>>

(* The iterator over the grid returns the cells that are there, and may     *)
(* return cells inserted while it runs (GridGrows).                         *)
OpenGrid ==
  /\ queryPc = "open"
  /\ cellsLeft' = grid[SourceOn(side)]
  /\ queryPc' = "cells"
  /\ UNCHANGED <<asked, side, cell, reading, hoursLeft, expectedSpans, tempCells, sum, queries>>

(* the sums of a cell are taken one after the other: missing signals first  *)
After(kind) == CASE kind = "missing" -> "received" [] kind = "received" -> "vsi"

OpenSpans(c, kind) ==
  /\ cell' = c
  /\ reading' = kind
  /\ hoursLeft' = spans[SourceOn(side)][c]
  /\ expectedSpans' = spans[SourceOn(side)][c]
  /\ queryPc' = "spans"

NextCell(c) ==
  /\ queryPc = "cells"
  /\ c \in cellsLeft
  /\ cellsLeft' = cellsLeft \ {c}
  /\ tempCells' = [tempCells EXCEPT ![side] = @ \cup {CoarseOf(c)}]
  /\ OpenSpans(c, "missing")
  /\ UNCHANGED <<asked, side, sum, queries>>

ReadSpan(h) ==
  LET read == count[reading][SourceOn(side)][cell][h] IN
  /\ queryPc = "spans"
  /\ h \in hoursLeft
  /\ hoursLeft' = hoursLeft \ {h}
  /\ sum' = IF h \in asked.hours
            THEN [sum EXCEPT ![side][reading][CoarseOf(cell)] = @ + read]
            ELSE sum
  /\ UNCHANGED <<queryPc, asked, side, cellsLeft, cell, reading, expectedSpans, tempCells, queries>>

(* next() throws ConcurrentModificationException if it sees that a span has *)
(* been inserted; the request fails                                         *)
ReadFails ==
  /\ queryPc = "spans"
  /\ hoursLeft # {}
  /\ spans[SourceOn(side)][cell] # expectedSpans
  /\ queryPc' = "idle"
  /\ UNCHANGED <<asked, side, cellsLeft, cell, reading, hoursLeft, expectedSpans, tempCells, sum,
                 queries>>

NextKind ==
  /\ queryPc = "spans"
  /\ hoursLeft = {}
  /\ IF reading = "vsi"
     THEN queryPc' = "cells" /\ UNCHANGED <<cell, reading, hoursLeft, expectedSpans>>
     ELSE OpenSpans(cell, After(reading))
  /\ UNCHANGED <<asked, side, cellsLeft, tempCells, sum, queries>>

FinishGrid ==
  /\ queryPc = "cells"
  /\ cellsLeft = {}
  /\ IF side = FirstSide
     THEN side' \in Sides \ {FirstSide} /\ queryPc' = "open"
     ELSE queryPc' = "answered" /\ UNCHANGED side
  /\ UNCHANGED <<asked, cellsLeft, cell, reading, hoursLeft, expectedSpans, tempCells, sum, queries>>

MutantAnswer ==
  /\ queryPc = "answered"
  /\ UNCHANGED queryVars

Answer ==
  /\ queryPc = "answered"
  /\ queryPc' = "idle"
  /\ UNCHANGED <<asked, side, cellsLeft, cell, reading, hoursLeft, expectedSpans, tempCells, sum,
                 queries>>

Query ==
  \/ \E s \in Sources, from, to \in Hours : StartQuery(s, from, to)
  \/ OpenGrid
  \/ \E c \in Cells : NextCell(c)
  \/ \E h \in Hours : ReadSpan(h)
  \/ ReadFails \/ NextKind \/ FinishGrid \/ Answer

(* A cell inserted while the iterator runs over the grid, and a span        *)
(* inserted while the other runs over its cell's spans, may be returned too. *)
GridGrows ==
  cellsLeft' \in {cellsLeft} \cup
    (IF queryPc \in {"cells", "spans"}
     THEN {cellsLeft \cup (grid'[SourceOn(side)] \ grid[SourceOn(side)])} ELSE {})

SpansGrow ==
  hoursLeft' \in {hoursLeft} \cup
    (IF queryPc = "spans" /\ hoursLeft # {}
     THEN {hoursLeft \cup (spans'[SourceOn(side)][cell] \ spans[SourceOn(side)][cell])} ELSE {})

Calculate ==
  /\ Next
  /\ GridGrows
  /\ SpansGrow
  /\ UNCHANGED <<queryPc, asked, side, cell, reading, expectedSpans, tempCells, sum, queries>>

allVars == <<vars, queryVars>>

QueryNext == Calculate \/ (Query /\ UNCHANGED vars)

(* The request thread runs on whatever the calculator does; requests and    *)
(* messages need not come.                                                  *)
AnswerSteps == OpenGrid \/ (\E c \in Cells : NextCell(c)) \/ (\E h \in Hours : ReadSpan(h))
                 \/ NextKind \/ FinishGrid \/ Answer
QuerySpec == Init /\ QueryInit /\ [][QueryNext]_allVars /\ WF_allVars(AnswerSteps /\ UNCHANGED vars)

-----------------------------------------------------------------------------

QueryTypeOK ==
  /\ queryPc \in {"idle", "open", "cells", "spans", "answered"}
  /\ asked \in [source : AllSources, hours : SUBSET Hours]
  /\ side \in Sides
  /\ cellsLeft \subseteq Cells /\ cell \in Cells
  /\ reading \in Kinds
  /\ hoursLeft \subseteq Hours /\ expectedSpans \subseteq Hours
  /\ tempCells \in [Sides -> SUBSET CoarseCells]
  /\ sum \in [Sides -> [Kinds -> [CoarseCells -> Nat]]]
  /\ queries \in 0 .. MaxQueries

(* toJsonCell *)
NrOfRecMes(c) == sum["source"]["received"][c]
NrOfMisMes(c) == sum["super"]["received"][c] + sum["super"]["missing"][c] - NrOfRecMes(c)

(* No answer says that a source received more than there was to receive,    *)
(* although it is summed up from a grid in motion, and every cell of the    *)
(* source finds its cell of the super source: none is left out of the       *)
(* answer.                                                                  *)
AnswerIsConsistent ==
  queryPc = "answered" =>
    \A c \in tempCells["source"] : c \in tempCells["super"] /\ NrOfMisMes(c) >= 0

(* A request ends, answered or failed, however many messages come in        *)
(* meanwhile.                                                               *)
QueryEnds == queryPc # "idle" ~> queryPc = "idle"
=============================================================================
