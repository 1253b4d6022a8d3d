-------------------------- MODULE Persistence_proofs --------------------------
(***************************************************************************)
(* Proofs about Persistence for any grid and any number of hours, signals,   *)
(* saves and starts.  The saver reads live counters while the calculator     *)
(* changes them and the application may crash at any step; no assumption is  *)
(* made but PersistenceAssumption.                                          *)
(***************************************************************************)
EXTENDS Persistence, SumTheorems

LEMMA HoursFacts == Hours \subseteq Nat /\ 0 \in Hours /\ IsFiniteSet(Hours)
  BY PersistenceAssumption, FS_Interval DEF Hours

LEMMA NoneType ==
  /\ NoSignals \in CountType /\ NoTotals \in [Places -> Nat] /\ NoSpans \in [Places -> SUBSET Hours]
  /\ InPlace \in [Places -> Cells] /\ EmptyDocument \in DocumentType
<1>1. NoSignals \in CountType /\ NoTotals \in [Places -> Nat] /\ NoSpans \in [Places -> SUBSET Hours]
  BY DEF NoSignals, NoTotals, NoSpans, CountType
<1>2. InPlace \in [Places -> Cells]
  BY DEF InPlace, Places
<1> QED
  BY <1>1, <1>2 DEF EmptyDocument, DocumentType

LEMMA PlaceType ==
  ASSUME NEW p \in Places
  PROVE  p[1] \in Sources /\ p[2] \in Cells /\ p = <<p[1], p[2]>>
  BY DEF Places

(* Signals are loaded into a cell of the same source.                       *)
LEMMA TargetType ==
  ASSUME TypeOK, NEW p \in Places
  PROVE  Target(p) \in Places /\ Target(p)[1] = p[1] /\ LoadedAt(p) \in Cells
<1>1. LoadedAt(p) \in Cells
  BY PersistenceAssumption DEF TypeOK, DocumentType, LoadedAt
<1> DEFINE c == Rounded[LoadedAt(p)]
<1>2. c \in Cells
  BY <1>1, PersistenceAssumption
<1>3. Twin(p) = <<p[1], c>>
  BY DEF Twin
<1> HIDE DEF c
<1>4. Twin(p) \in Places /\ Twin(p)[1] = p[1]
  BY <1>2, <1>3, PlaceType DEF Places
<1> QED
  BY <1>1, <1>4 DEF Target

(* The earliest span of a loaded cell is one of its spans.                  *)
LEMMA EarliestIn ==
  ASSUME NEW S \in SUBSET Hours, S # {}
  PROVE  Min(S) \in S
<1>1. PICK x \in S : \A y \in S : x <= y
  BY SmallestElement, HoursFacts
<1> QED
  BY <1>1 DEF Min

(* The sums over the hours of a cell.                                       *)
LEMMA SumOfIs ==
  ASSUME NEW f
  PROVE  SumOf(f) = SumFunctionOnSet(f, Hours)
  BY DEF SumOf, SumFunctionOnSet

LEMMA SumOfInt ==
  ASSUME NEW f, \A h \in Hours : f[h] \in Nat
  PROVE  SumOf(f) \in Int /\ SumOf(f) >= 0
<1>1. SumFunctionOnSet(f, Hours) \in Nat
  BY HoursFacts, SumNat, Zenon
<1> QED
  BY <1>1, SumOfIs

LEMMA SumOfZero ==
  ASSUME NEW f, \A h \in Hours : f[h] = 0
  PROVE  SumOf(f) = 0
  BY HoursFacts, SumZero, SumOfIs

LEMMA SumOfGrows ==
  ASSUME NEW f, NEW g, \A h \in Hours : f[h] \in Nat /\ g[h] \in Nat /\ f[h] <= g[h]
  PROVE  SumOf(f) <= SumOf(g)
<1>1. \A h \in Hours : f[h] \in Int /\ g[h] \in Int /\ f[h] <= g[h]
  OBVIOUS
<1>2. SumFunctionOnSet(f, Hours) <= SumFunctionOnSet(g, Hours)
  BY <1>1, HoursFacts, SumMonotone, Zenon
<1> QED
  BY <1>2, SumOfIs

LEMMA SumOfOneMore ==
  ASSUME NEW f, NEW g, \A h \in Hours : f[h] \in Nat /\ g[h] \in Nat,
         NEW k \in Hours, g[k] = f[k] + 1, \A h \in Hours : h # k => g[h] = f[h]
  PROVE  SumOf(g) = SumOf(f) + 1
<1>1. \A h \in Hours : f[h] \in Int /\ g[h] \in Int
  OBVIOUS
<1>2. SumFunctionOnSet(g, Hours) = SumFunctionOnSet(f, Hours) + g[k] - f[k]
  BY <1>1, HoursFacts, SumChange, Zenon
<1>3. SumOf(g) = SumOf(f) + g[k] - f[k]
  BY <1>2, SumOfIs
<1>4. SumOf(f) \in Int /\ f[k] \in Int /\ g[k] = f[k] + 1
  BY SumOfInt
<1> QED
  BY <1>3, <1>4

LEMMA SumOfBoth ==
  ASSUME NEW f, NEW g, NEW b, \A h \in Hours : f[h] \in Nat /\ g[h] \in Nat /\ b[h] = f[h] + g[h]
  PROVE  SumOf(b) = SumOf(f) + SumOf(g)
<1>1. AddsUp(b, f, g, Hours)
  BY DEF AddsUp
<1>2. SumFunctionOnSet(b, Hours) = SumFunctionOnSet(f, Hours) + SumFunctionOnSet(g, Hours)
  BY <1>1, HoursFacts, SumPlus
<1>3. /\ SumOf(b) = SumFunctionOnSet(b, Hours) /\ SumOf(f) = SumFunctionOnSet(f, Hours)
      /\ SumOf(g) = SumFunctionOnSet(g, Hours)
  BY SumOfIs, Zenon
<1> QED
  BY <1>2, <1>3, Zenon
-----------------------------------------------------------------------------
LEMMA InitType == Init => TypeOK
<1> SUFFICES ASSUME Init PROVE TypeOK
  OBVIOUS
<1>1. starts \in 0 .. MaxStarts /\ saves \in 0 .. MaxSaves /\ signals \in 0 .. MaxSignals
  BY PersistenceAssumption DEF Init
<1> QED
  BY <1>1, NoneType, HoursFacts DEF Init, TypeOK

LEMMA CountNats ==
  ASSUME TypeOK
  PROVE  /\ \A p \in Places, h \in Hours : /\ count[p][h] \in Nat /\ saved.count[p][h] \in Nat
                                           /\ document.count[p][h] \in Nat /\ atStart[p][h] \in Nat
         /\ \A p \in Places, h \in Hours : NoSignals[p][h] = 0 /\ EmptyDocument.count[p][h] = 0
<1>1. /\ count \in CountType /\ atStart \in CountType
      /\ saved \in DocumentType /\ document \in DocumentType
  BY DEF TypeOK
<1> QED
  BY <1>1 DEF CountType, DocumentType, NoSignals, EmptyDocument

LEMMA GoDownType == TypeOK /\ GoDown => TypeOK'
  BY NoneType, HoursFacts DEF TypeOK, GoDown, Forget, SaverRests, historyVars

LEMMA LoadCellType ==
  ASSUME TypeOK, NEW p \in Places, LoadCell(p)
  PROVE  TypeOK'
<1> DEFINE q == Target(p)
<1>0. q \in Places /\ LoadedAt(p) \in Cells
  BY TargetType
<1>1. saved \in DocumentType /\ count \in CountType
  BY DEF TypeOK
<1>2. /\ saved.spans[p] \in SUBSET Hours /\ saved.count[p] \in [Hours -> Nat]
      /\ saved.total[p] \in Nat /\ saved.purged[p] \in Nat
  BY <1>1 DEF DocumentType, CountType
<1>a. /\ grid' = grid \cup {q}
      /\ at' = (IF q \in grid THEN at ELSE [at EXCEPT ![q] = LoadedAt(p)])
      /\ spans' = [spans EXCEPT ![q] = @ \cup saved.spans[p]]
      /\ count' = [count EXCEPT ![q] = [h \in Hours |-> @[h] + saved.count[p][h]]]
      /\ total' = [total EXCEPT ![q] = @ + saved.total[p]]
      /\ purged' = [purged EXCEPT ![q] = @ + saved.purged[p]]
  BY DEF LoadCell
<1> HIDE DEF q
<1>3. count' \in CountType
  <2>1. [h \in Hours |-> count[q][h] + saved.count[p][h]] \in [Hours -> Nat]
    BY <1>0, <1>1, <1>2 DEF CountType
  <2> QED
    BY <1>1, <1>a, <2>1 DEF CountType
<1>4. firstMessage' \in Hours \cup {NoHour}
  BY <1>2, EarliestIn DEF LoadCell, Earliest, TypeOK
<1>5. spans' \in [Places -> SUBSET Hours] /\ total' \in [Places -> Nat] /\ purged' \in [Places -> Nat]
  BY <1>0, <1>2, <1>a DEF TypeOK
<1>6. grid' \subseteq Places /\ at' \in [Places -> Cells]
  BY <1>0, <1>a DEF TypeOK
<1> QED
  BY <1>3, <1>4, <1>5, <1>6 DEF LoadCell, TypeOK, calcVars, purgeVars, saverVars, historyVars

LEMMA LifeType ==
  ASSUME TypeOK, Start \/ Loaded \/ Crash \/ Stop \/ Stopped
  PROVE  TypeOK'
<1>1. CASE Start
  <2>1. starts' \in 0 .. MaxStarts /\ toLoad' \subseteq Places
    BY <1>1, PersistenceAssumption DEF Start, TypeOK, DocumentType
  <2> QED
    BY <1>1, <2>1 DEF Start, TypeOK, memoryVars, calcVars, purgeVars, saverVars
<1>2. CASE Loaded \/ Stop
  BY <1>2 DEF Loaded, Stop, TypeOK, memoryVars, calcVars, purgeVars, saverVars, historyVars
<1>3. CASE Crash \/ Stopped
  BY <1>3, GoDownType DEF Crash, Stopped
<1> QED
  BY <1>1, <1>2, <1>3

LEMMA FindCellType ==
  ASSUME TypeOK, NEW p \in Places, NEW h \in Hours, FindCell(p, h)
  PROVE  TypeOK'
<1>1. signals' \in 0 .. MaxSignals
  BY PersistenceAssumption DEF FindCell, TypeOK
<1>2. toMarshal' \subseteq Places /\ toPurge' \subseteq Places
  BY DEF FindCell, WithOrWithout, TypeOK
<1>3. grid' \subseteq Places /\ at' \in [Places -> Cells] /\ total' \in [Places -> Nat]
  BY PlaceType DEF FindCell, TypeOK
<1> QED
  BY <1>1, <1>2, <1>3 DEF FindCell, TypeOK

LEMMA CalculatorType ==
  ASSUME TypeOK, Calculator, calcPc # "idle" => place \in Places
  PROVE  TypeOK'
<1>2. CASE FindSpan
  <2>1. spans' \in [Places -> SUBSET Hours] /\ changed' \in BOOLEAN
    BY <1>2 DEF FindSpan, TypeOK
  <2> QED
    BY <1>2, <2>1 DEF FindSpan, TypeOK, purgeVars, historyVars
<1>3. CASE CountInSpan
  <2>1. place \in Places /\ hour \in Hours /\ count \in CountType /\ ever \in CountType
    BY <1>3 DEF CountInSpan, TypeOK
  <2>2. ASSUME NEW f \in CountType PROVE [f EXCEPT ![place][hour] = @ + 1] \in CountType
    BY <2>1 DEF CountType
  <2>3. count' \in CountType /\ ever' \in CountType
    BY <1>3, <2>1, <2>2 DEF CountInSpan
  <2>4. purged' \in [Places -> Nat]
    BY <1>3, <2>1 DEF CountInSpan, TypeOK
  <2> QED
    BY <1>3, <2>3, <2>4 DEF CountInSpan, TypeOK, purgeVars, saverVars
<1>4. CASE CountInCell
  <2>1. total' \in [Places -> Nat]
    BY <1>4 DEF CountInCell, TypeOK
  <2> QED
    BY <1>4, <2>1, HoursFacts DEF CountInCell, TypeOK, purgeVars, saverVars, historyVars
<1> QED
  BY <1>2, <1>3, <1>4 DEF Calculator

(* What the Purger leaves of a cell's counters.                             *)
Expired(p) == {h \in spans[p] : firstMessage <= h /\ h < trimPoint}

LEMMA AfterPurge ==
  ASSUME TypeOK, NEW p \in Places, PurgeCell(p)
  PROVE  /\ count' \in CountType /\ atStart' \in CountType /\ purged' \in [Places -> Nat]
         /\ spans' = [spans EXCEPT ![p] = @ \ Expired(p)]
         /\ \A q \in Places, h \in Hours :
              /\ count'[q][h] = IF q = p /\ h \in Expired(p) THEN 0 ELSE count[q][h]
              /\ atStart'[q][h] = IF q = p /\ h \in Expired(p) THEN 0 ELSE atStart[q][h]
         /\ \A q \in Places : q # p => count'[q] = count[q] /\ purged'[q] = purged[q]
         /\ purged'[p] + SumOf(count'[p]) = purged[p] + SumOf(count[p])
<1> DEFINE E == Expired(p)
           kept == Without(count[p], E)
           keptAtStart == Without(atStart[p], E)
           a == SumOf(count[p])
           b == SumOf(kept)
<1>1. /\ count \in CountType /\ atStart \in CountType /\ purged \in [Places -> Nat]
      /\ spans \in [Places -> SUBSET Hours]
  BY DEF TypeOK
<1>2. /\ spans' = [spans EXCEPT ![p] = spans[p] \ E]
      /\ count' = [count EXCEPT ![p] = kept]
      /\ purged' = [purged EXCEPT ![p] = @ + a - b]
      /\ atStart' = [atStart EXCEPT ![p] = keptAtStart]
  BY DEF PurgeCell, Expired
<1> HIDE DEF E
<1>3. /\ kept \in [Hours -> Nat] /\ keptAtStart \in [Hours -> Nat]
      /\ \A h \in Hours : /\ kept[h] = IF h \in E THEN 0 ELSE count[p][h]
                          /\ keptAtStart[h] = IF h \in E THEN 0 ELSE atStart[p][h]
  BY <1>1, HoursFacts DEF Without, CountType
<1>4. a \in Int /\ b \in Int /\ b <= a
  <2> DEFINE f == count[p]
  <2>1. \A h \in Hours : f[h] \in Nat /\ kept[h] \in Nat /\ kept[h] <= f[h]
    BY <1>1, <1>3 DEF CountType
  <2> HIDE DEF kept, f
  <2>2. SumOf(kept) \in Int /\ SumOf(f) \in Int /\ SumOf(kept) <= SumOf(f)
    BY <2>1, SumOfInt, SumOfGrows
  <2> QED
    BY <2>2 DEF f
<1> HIDE DEF kept, keptAtStart
<1>5. count'[p] = kept /\ \A q \in Places : q # p => count'[q] = count[q]
  BY <1>1, <1>2 DEF CountType
<1>6. b = SumOf(count'[p])
  BY <1>5
<1>7. purged' \in [Places -> Nat] /\ purged'[p] = purged[p] + a - b
      /\ \A q \in Places : q # p => purged'[q] = purged[q]
  <2>1. purged[p] + a - b \in Nat
    BY <1>1, <1>4
  <2> HIDE DEF a, b
  <2> QED
    BY <1>1, <1>2, <2>1
<1>8. purged'[p] + SumOf(count'[p]) = purged[p] + SumOf(count[p])
  BY <1>1, <1>4, <1>6, <1>7
<1> HIDE DEF a, b
<1>9. count' \in CountType /\ atStart' \in CountType
  BY <1>1, <1>2, <1>3 DEF CountType
<1>10. \A q \in Places, h \in Hours :
          /\ count'[q][h] = IF q = p /\ h \in E THEN 0 ELSE count[q][h]
          /\ atStart'[q][h] = IF q = p /\ h \in E THEN 0 ELSE atStart[q][h]
  BY <1>1, <1>2, <1>3 DEF CountType
<1> QED
  BY <1>2, <1>5, <1>7, <1>8, <1>9, <1>10 DEF E

LEMMA PurgerType ==
  ASSUME TypeOK, Purger
  PROVE  TypeOK'
<1>1. ASSUME NEW t \in Hours, BeginPurge(t) PROVE TypeOK'
  BY <1>1 DEF BeginPurge, TypeOK, memoryVars, calcVars, saverVars, historyVars
<1>2. ASSUME NEW p \in Places, PurgeCell(p) PROVE TypeOK'
  <2>1. /\ grid' \subseteq Places /\ toMarshal' \subseteq Places /\ toPurge' \subseteq Places
        /\ calcPc' \in {"idle", "span", "count", "total"} /\ place' \in Places \cup {NoPlace}
        /\ hour' \in Hours
    BY <1>2, HoursFacts DEF PurgeCell, TypeOK, calcVars
  <2>2. changed' \in BOOLEAN
    BY <1>2 DEF PurgeCell, TypeOK
  <2>3. spans' \in [Places -> SUBSET Hours]
    BY <1>2, AfterPurge DEF TypeOK
  <2> QED
    BY <1>2, <2>1, <2>2, <2>3, AfterPurge DEF PurgeCell, TypeOK, historyVars
<1>3. CASE FinishPurge
  BY <1>3 DEF FinishPurge, TypeOK, calcVars, saverVars, historyVars
<1> QED
  BY <1>1, <1>2, <1>3 DEF Purger

(* What the saver's steps make of the document.                             *)
LEMMA MarshalCellDocument ==
  ASSUME TypeOK, NEW p \in Places, MarshalCell(p)
  PROVE  /\ document' \in DocumentType
         /\ document'.total = [document.total EXCEPT ![p] = total[p]]
         /\ document'.spans = document.spans /\ document'.count = document.count
         /\ document'.purged = document.purged
<1>1. document \in DocumentType /\ total[p] \in Nat /\ at[p] \in Cells
  BY DEF TypeOK
<1>2. document' = [document EXCEPT !.cells = @ \cup {p}, !.at[p] = at[p], !.total[p] = total[p]]
  BY DEF MarshalCell
<1>3. /\ [document.total EXCEPT ![p] = total[p]] \in [Places -> Nat]
      /\ [document.at EXCEPT ![p] = at[p]] \in [Places -> Cells]
      /\ document.cells \cup {p} \subseteq Places
  BY <1>1 DEF DocumentType
<1> QED
  BY <1>1, <1>2, <1>3 DEF DocumentType

LEMMA MarshalSpanDocument ==
  ASSUME TypeOK, marshalling \in Places, NEW h \in Hours, MarshalSpan(h)
  PROVE  /\ document' \in DocumentType
         /\ document'.total = document.total /\ document'.purged = document.purged
         /\ document'.spans = [document.spans EXCEPT ![marshalling] = @ \cup {h}]
         /\ document'.count = [document.count EXCEPT ![marshalling][h] = count[marshalling][h]]
<1> DEFINE k == count[marshalling][h]
<1>1. document \in DocumentType /\ k \in Nat
  BY DEF TypeOK, CountType
<1>2. document' = [document EXCEPT !.spans[marshalling] = @ \cup {h}, !.count[marshalling][h] = k]
  BY DEF MarshalSpan
<1> HIDE DEF k
<1>3. /\ [document.spans EXCEPT ![marshalling] = @ \cup {h}] \in [Places -> SUBSET Hours]
      /\ [document.count EXCEPT ![marshalling][h] = k] \in CountType
  BY <1>1 DEF DocumentType, CountType
<1>4. /\ document' \in DocumentType
      /\ document'.total = document.total /\ document'.purged = document.purged
      /\ document'.spans = [document.spans EXCEPT ![marshalling] = @ \cup {h}]
      /\ document'.count = [document.count EXCEPT ![marshalling][h] = k]
  BY <1>1, <1>2, <1>3 DEF DocumentType
<1> QED
  BY <1>4 DEF k

LEMMA CellDoneDocument ==
  ASSUME TypeOK, marshalling \in Places, CellDone
  PROVE  /\ document' \in DocumentType
         /\ document'.total = document.total /\ document'.spans = document.spans
         /\ document'.count = document.count
         /\ \A q \in Places : document'.purged[q] = IF q = marshalling THEN purged[q] ELSE document.purged[q]
<1> DEFINE k == purged[marshalling]
<1>1. document \in DocumentType /\ k \in Nat
  BY DEF TypeOK
<1>2. document' = [document EXCEPT !.purged[marshalling] = k]
  BY DEF CellDone
<1>3. document.purged \in [Places -> Nat]
  BY <1>1 DEF DocumentType
<1> HIDE DEF k
<1>4. [document.purged EXCEPT ![marshalling] = k] \in [Places -> Nat]
  BY <1>1, <1>3
<1>5. /\ document' \in DocumentType
      /\ document'.total = document.total /\ document'.spans = document.spans
      /\ document'.count = document.count
      /\ document'.purged = [document.purged EXCEPT ![marshalling] = k]
  BY <1>1, <1>2, <1>4 DEF DocumentType
<1>6. \A q \in Places : document'.purged[q] = IF q = marshalling THEN k ELSE document.purged[q]
  BY <1>3, <1>5
<1> QED
  BY <1>5, <1>6 DEF k

LEMMA SaverType ==
  ASSUME TypeOK, BeginSave \/ Saver, saverPc = "spans" => marshalling \in Places
  PROVE  TypeOK'
<1>1. CASE BeginSave
  <2>1. saves' \in 0 .. MaxSaves
    BY <1>1, PersistenceAssumption DEF BeginSave, TypeOK
  <2> QED
    BY <1>1, <2>1, NoneType DEF BeginSave, TypeOK, memoryVars, calcVars, purgeVars
<1>2. ASSUME NEW p \in Places, MarshalCell(p) PROVE TypeOK'
  <2>1. spans[p] \in SUBSET Hours
    BY DEF TypeOK
  <2> QED
    BY <1>2, <2>1, MarshalCellDocument
       DEF MarshalCell, SpansToSave, TypeOK, memoryVars, calcVars, purgeVars, historyVars
<1>3. ASSUME NEW h \in Hours, MarshalSpan(h) PROVE TypeOK'
  <2>1. document' \in DocumentType
    BY <1>3, MarshalSpanDocument DEF MarshalSpan
  <2> QED
    BY <1>3, <2>1 DEF MarshalSpan, TypeOK, memoryVars, calcVars, purgeVars, historyVars
<1>4. CASE CellDone
  <2>1. document' \in DocumentType
    BY <1>4, CellDoneDocument DEF CellDone
  <2> QED
    BY <1>4, <2>1 DEF CellDone, TypeOK, memoryVars, calcVars, purgeVars, historyVars
<1>5. CASE Insert \/ SaveFails
  BY <1>5, NoneType DEF Insert, SaveFails, SaverRests, AfterFailure, TypeOK, memoryVars, calcVars,
                        purgeVars, historyVars
<1> QED
  BY <1>1, <1>2, <1>3, <1>4, <1>5 DEF Saver
-----------------------------------------------------------------------------
(* Which thread may be at work in which phase of the application's life, and *)
(* what is in memory then.                                                  *)
Phases ==
  /\ calcPc # "idle" => app = "up" /\ place \in grid
  /\ saverPc # "idle" => app \in {"up", "stopping"}
  /\ saverPc = "spans" => marshalling \in Places
  /\ toPurge # {} => app \in {"up", "stopping"}
  /\ app \notin {"loading", "broken"} => toLoad = {}
  /\ app = "down" => count = NoSignals /\ document = EmptyDocument

PhasesType == TypeOK /\ Phases

LEMMA PhasesInit == Init => PhasesType
  BY InitType DEF Init, Phases, PhasesType

LEMMA PhasesStep == PhasesType /\ [Next]_vars => PhasesType'
<1> SUFFICES ASSUME PhasesType, [Next]_vars PROVE PhasesType'
  OBVIOUS
<1> USE DEF PhasesType
<1>0. calcPc # "idle" => place \in Places
  BY DEF Phases, TypeOK
<1>1. ASSUME NEW p \in Places, LoadCell(p) PROVE PhasesType'
  <2>1. TypeOK'
    BY <1>1, LoadCellType
  <2>2. calcPc = "idle" /\ saverPc = "idle" /\ toPurge = {}
    BY <1>1 DEF LoadCell, Phases
  <2>3. /\ app' \in {"loading", "broken"} /\ calcPc' = calcPc /\ saverPc' = saverPc
        /\ toPurge' = toPurge
    BY <1>1 DEF LoadCell, calcVars, purgeVars, saverVars
  <2> QED
    BY <2>1, <2>2, <2>3 DEF Phases
<1>2. CASE Start
  BY <1>2, LifeType DEF Start, Phases, memoryVars, calcVars, purgeVars, saverVars
<1>3. CASE Loaded \/ Stop
  BY <1>3, LifeType DEF Loaded, Stop, Phases, memoryVars, calcVars, purgeVars, saverVars
<1>4. CASE Crash \/ Stopped
  <2>1. TypeOK' /\ GoDown
    BY <1>4, LifeType DEF Crash, Stopped
  <2> QED
    BY <2>1 DEF GoDown, Forget, SaverRests, Phases
<1>5. ASSUME NEW p \in Places, NEW h \in Hours, FindCell(p, h) PROVE PhasesType'
  <2>1. TypeOK'
    BY <1>5, FindCellType
  <2>2. /\ app = "up" /\ app' = app /\ place' = p /\ p \in grid' /\ saverPc' = saverPc
        /\ marshalling' = marshalling /\ toLoad' = toLoad
    BY <1>5 DEF FindCell
  <2> QED
    BY <2>1, <2>2 DEF Phases
<1>6. CASE Calculator
  <2>1. TypeOK'
    BY <1>0, <1>6, CalculatorType
  <2>2. /\ app = "up" /\ app' = app /\ grid' = grid /\ place \in grid
        /\ toLoad' = toLoad /\ saverPc' = saverPc /\ marshalling' = marshalling
        /\ calcPc' # "idle" => place' = place
    <3>1. CASE FindSpan
      BY <3>1 DEF FindSpan, Phases
    <3>2. CASE CountInSpan
      BY <3>2 DEF CountInSpan, Phases, saverVars
    <3>3. CASE CountInCell
      BY <3>3 DEF CountInCell, Phases, saverVars
    <3> QED
      BY <1>6, <3>1, <3>2, <3>3 DEF Calculator
  <2> QED
    BY <2>1, <2>2 DEF Phases
<1>7. CASE BeginSave \/ Saver
  <2>1. TypeOK'
    BY <1>7, SaverType DEF Phases
  <2>2. CASE BeginSave
    BY <2>1, <2>2 DEF BeginSave, Phases, memoryVars, calcVars, purgeVars
  <2>3. ASSUME NEW p \in Places, MarshalCell(p) PROVE Phases'
    BY <2>3 DEF MarshalCell, Phases, memoryVars, calcVars, purgeVars
  <2>4. ASSUME NEW h \in Hours, MarshalSpan(h) PROVE Phases'
    BY <2>4 DEF MarshalSpan, Phases, memoryVars, calcVars, purgeVars
  <2>5. CASE CellDone
    <3>1. /\ app \in {"up", "stopping"} /\ app' = app /\ saverPc' = "cells"
          /\ grid' = grid /\ toLoad' = toLoad /\ calcPc' = calcPc /\ place' = place
      BY <2>5 DEF CellDone, Phases, memoryVars, calcVars
    <3> QED
      BY <2>1, <3>1 DEF Phases
  <2>6. CASE Insert \/ SaveFails
    BY <2>1, <2>6 DEF Insert, SaveFails, SaverRests, AfterFailure, Phases, memoryVars, calcVars, purgeVars
  <2> QED
    BY <1>7, <2>1, <2>2, <2>3, <2>4, <2>5, <2>6 DEF Saver
<1>8. CASE Purger
  <2>1. TypeOK'
    BY <1>8, PurgerType
  <2>2. ASSUME NEW t \in Hours, BeginPurge(t) PROVE Phases'
    BY <2>2 DEF BeginPurge, Phases, memoryVars, calcVars, saverVars
  <2>3. ASSUME NEW p \in Places, PurgeCell(p) PROVE Phases'
    <3>1. /\ app \in {"up", "stopping"} /\ app' = app /\ saverPc' = saverPc
          /\ marshalling' = marshalling /\ toLoad' = toLoad
      BY <2>3 DEF PurgeCell, Phases
    <3>2. CASE calcPc' = "idle"
      BY <3>1, <3>2 DEF Phases
    <3>3. CASE calcPc' # "idle"
      <4>1. calcPc' = calcPc /\ place' = place /\ (place \in grid => place \in grid')
        BY <2>3, <3>3 DEF PurgeCell, calcVars
      <4> QED
        BY <3>1, <4>1 DEF Phases
    <3> QED
      BY <3>2, <3>3
  <2>4. CASE FinishPurge
    <3>1. /\ app' = app /\ grid' = grid /\ count' = count /\ toLoad' = toLoad /\ toPurge' = toPurge
          /\ calcPc' = calcPc /\ place' = place
          /\ saverPc' = saverPc /\ marshalling' = marshalling /\ document' = document
      BY <2>4 DEF FinishPurge, calcVars, saverVars
    <3> QED
      BY <2>1, <3>1 DEF Phases
  <2> QED
    BY <1>8, <2>1, <2>2, <2>3, <2>4 DEF Purger
<1>9. CASE UNCHANGED vars
  BY <1>9 DEF vars, memoryVars, calcVars, purgeVars, saverVars, historyVars, TypeOK, Phases
<1> QED
  BY <1>1, <1>2, <1>3, <1>4, <1>5, <1>6, <1>7, <1>8, <1>9 DEF Next, Quiescent

(* The variables keep their types through every crash, restart, purge and    *)
(* save: the loaded grid is one that the calculators can go on with.        *)
THEOREM TypeCorrect == Spec => []TypeOK
<1>1. PhasesType => TypeOK
  BY DEF PhasesType
<1> QED
  BY <1>1, PhasesInit, PhasesStep, PTL DEF Spec

LEMMA PhasesAlways == Spec => []PhasesType
  BY PhasesInit, PhasesStep, PTL DEF Spec
-----------------------------------------------------------------------------
(* The sums over the cells of a source.                                     *)
LEMMA InSourceInt ==
  ASSUME NEW f \in CountType, NEW s \in Sources, NEW h \in Hours
  PROVE  InSource(f, s, h) \in Int /\ InSource(f, s, h) >= 0
<1> DEFINE F == [c \in Cells |-> f[<<s, c>>][h]]
<1>1. \A c \in Cells : F[c] \in Nat
  BY DEF CountType, Places
<1> HIDE DEF F
<1>2. SumFunctionOnSet(F, Cells) \in Nat
  BY <1>1, PersistenceAssumption, SumNat, Zenon
<1> QED
  BY <1>2 DEF InSource, F

LEMMA InSourceGrows ==
  ASSUME NEW f \in CountType, NEW g \in CountType, NEW s \in Sources, NEW h \in Hours,
         \A p \in Places : f[p][h] <= g[p][h]
  PROVE  InSource(f, s, h) <= InSource(g, s, h)
<1> DEFINE F == [c \in Cells |-> f[<<s, c>>][h]]
           G == [c \in Cells |-> g[<<s, c>>][h]]
<1>1. \A c \in Cells : F[c] \in Int /\ G[c] \in Int /\ F[c] <= G[c]
  BY DEF CountType, Places
<1> HIDE DEF F, G
<1>2. SumFunctionOnSet(F, Cells) <= SumFunctionOnSet(G, Cells)
  BY <1>1, PersistenceAssumption, SumMonotone, Zenon
<1> QED
  BY <1>2 DEF InSource, F, G

LEMMA InSourceZero ==
  ASSUME NEW f, NEW s \in Sources, NEW h \in Hours, \A p \in Places : f[p][h] = 0
  PROVE  InSource(f, s, h) = 0
<1> DEFINE F == [c \in Cells |-> f[<<s, c>>][h]]
<1>1. \A c \in Cells : F[c] = 0
  BY DEF Places
<1> HIDE DEF F
<1>2. SumFunctionOnSet(F, Cells) = 0
  BY <1>1, PersistenceAssumption, SumZero, Zenon
<1> QED
  BY <1>2 DEF InSource, F

LEMMA SumOfCells ==
  ASSUME NEW f, NEW g, \A c \in Cells : f[c] \in Int /\ g[c] \in Int,
         NEW y \in Cells, \A c \in Cells : c # y => g[c] = f[c]
  PROVE  SumFunctionOnSet(g, Cells) = SumFunctionOnSet(f, Cells) + g[y] - f[y]
<1>1. IsFiniteSet(Cells)
  BY PersistenceAssumption
<1> QED
  BY <1>1, SumChange, Zenon

(* Only the cell p differs.                                                 *)
LEMMA InSourceChange ==
  ASSUME NEW f \in CountType, NEW g \in CountType, NEW p \in Places,
         \A q \in Places, k \in Hours : q # p => g[q][k] = f[q][k],
         NEW s \in Sources, NEW h \in Hours
  PROVE  InSource(g, s, h) = InSource(f, s, h) + (IF s = p[1] THEN g[p][h] - f[p][h] ELSE 0)
<1> DEFINE F == [c \in Cells |-> f[<<s, c>>][h]]
           G == [c \in Cells |-> g[<<s, c>>][h]]
           y == p[2]
<1>1. \A c \in Cells : F[c] \in Int /\ G[c] \in Int
  BY DEF CountType, Places
<1>2. y \in Cells /\ p[1] \in Sources /\ p = <<p[1], y>>
  BY PlaceType
<1>3. CASE s = p[1]
  <2>1. ASSUME NEW c \in Cells, c # y PROVE G[c] = F[c]
    <3>1. <<s, c>> \in Places /\ <<s, c>> # p
      BY <1>2, <1>3, <2>1 DEF Places
    <3> QED
      BY <3>1
  <2>2. F[y] = f[p][h] /\ G[y] = g[p][h]
    BY <1>2, <1>3
  <2>0. y \in Cells
    BY <1>2
  <2> HIDE DEF F, G, y
  <2>a. IsFiniteSet(Cells) /\ \A c \in Cells : c # y => G[c] = F[c]
    BY <2>1, PersistenceAssumption
  <2>3. SumFunctionOnSet(G, Cells) = SumFunctionOnSet(F, Cells) + G[y] - F[y]
    BY <1>1, <2>0, <2>a, SumOfCells
  <2>4. InSource(f, s, h) = SumFunctionOnSet(F, Cells) /\ InSource(g, s, h) = SumFunctionOnSet(G, Cells)
    BY DEF InSource, F, G
  <2>5. InSource(f, s, h) \in Int /\ F[y] \in Int /\ G[y] \in Int
    BY <1>1, <1>2, InSourceInt
  <2> QED
    BY <1>3, <2>2, <2>3, <2>4, <2>5
<1>4. CASE s # p[1]
  <2>1. ASSUME NEW c \in Cells PROVE F[c] = G[c]
    <3>1. <<s, c>> \in Places /\ <<s, c>> # p
      BY <1>2, <1>4 DEF Places
    <3> QED
      BY <3>1
  <2> HIDE DEF F, G
  <2>2. SumFunctionOnSet(F, Cells) = SumFunctionOnSet(G, Cells)
    BY <2>1, PersistenceAssumption, SumSame, Zenon
  <2>3. InSource(f, s, h) = SumFunctionOnSet(F, Cells) /\ InSource(g, s, h) = SumFunctionOnSet(G, Cells)
    BY DEF InSource, F, G
  <2>4. InSource(f, s, h) \in Int
    BY InSourceInt
  <2> QED
    BY <1>4, <2>2, <2>3, <2>4
<1> QED
  BY <1>3, <1>4
-----------------------------------------------------------------------------
(* The counters themselves are no measure of what was counted: purging       *)
(* lowers them, after the saver has read some and before it reads others.    *)
(* What a cell has ever held since the application was started is, and       *)
(* bounds both the live counters and the document.                          *)
Holds(held) ==
  /\ held \in CountType
  /\ \A p \in Places, h \in Hours : count[p][h] <= held[p][h] /\ document.count[p][h] <= held[p][h]

(* What is still to be loaded.                                              *)
Unloaded == [p \in Places |-> [h \in Hours |-> IF p \in toLoad THEN saved.count[p][h] ELSE 0]]

WithinEver(held) ==
  \A s \in Sources, h \in Hours : InSource(held, s, h) + InSource(Unloaded, s, h) <= InSource(ever, s, h)

SavedWithinEver ==
  \A s \in Sources, h \in Hours : InSource(saved.count, s, h) <= InSource(ever, s, h)

Counted == (\E held \in CountType : Holds(held) /\ WithinEver(held)) /\ SavedWithinEver

LEMMA UnloadedType ==
  ASSUME TypeOK
  PROVE  /\ Unloaded \in CountType
         /\ \A p \in Places, h \in Hours : Unloaded[p][h] = IF p \in toLoad THEN saved.count[p][h] ELSE 0
  BY CountNats DEF Unloaded, CountType

LEMMA CountedInit == Init => Counted
<1> SUFFICES ASSUME Init PROVE Counted
  OBVIOUS
<1>1. NoSignals \in CountType /\ \A p \in Places, h \in Hours : NoSignals[p][h] = 0
  BY NoneType DEF NoSignals
<1>2. count = NoSignals /\ ever = NoSignals /\ saved.count = NoSignals /\ document.count = NoSignals
      /\ toLoad = {}
  BY DEF Init, EmptyDocument
<1>3. Holds(NoSignals)
  BY <1>1, <1>2 DEF Holds
<1>4. \A p \in Places, h \in Hours : Unloaded[p][h] = 0
  BY <1>2 DEF Unloaded
<1>5. ASSUME NEW s \in Sources, NEW h \in Hours
      PROVE  InSource(NoSignals, s, h) = 0 /\ InSource(Unloaded, s, h) = 0
  BY <1>1, <1>4, InSourceZero
<1>6. WithinEver(NoSignals) /\ SavedWithinEver
  BY <1>2, <1>5 DEF WithinEver, SavedWithinEver
<1> QED
  BY <1>1, <1>3, <1>6 DEF Counted

(* A step that counts nothing, loads nothing and inserts nothing.            *)
LEMMA CountedKept ==
  ASSUME Counted, TypeOK, TypeOK',
         \A p \in Places, h \in Hours :
           count'[p][h] <= count[p][h] /\ document'.count[p][h] \in {document.count[p][h], count[p][h], 0},
         toLoad' = toLoad, saved' = saved, ever' = ever
  PROVE  Counted'
<1>1. PICK held \in CountType : Holds(held) /\ WithinEver(held)
  BY DEF Counted
<1>2. \A p \in Places, h \in Hours : held[p][h] \in Nat
  BY <1>1 DEF CountType
<1>3. ASSUME NEW p \in Places, NEW h \in Hours
      PROVE  count'[p][h] <= held[p][h] /\ document'.count[p][h] <= held[p][h]
  <2> DEFINE a == count'[p][h]
             b == count[p][h]
             c == held[p][h]
  <2>1. a \in Nat /\ b \in Nat /\ c \in Nat /\ a <= b /\ b <= c
    BY <1>1, <1>2, CountNats DEF Holds, TypeOK, CountType
  <2>2. document'.count[p][h] \in {document.count[p][h], b, 0} /\ document.count[p][h] <= c
    BY <1>1 DEF Holds
  <2> HIDE DEF a, b, c
  <2>3. a <= c /\ document'.count[p][h] <= c
    BY <2>1, <2>2
  <2> QED
    BY <2>3 DEF a, c
<1>4. Holds(held)'
  BY <1>1, <1>3 DEF Holds
<1>5. Unloaded' = Unloaded
  BY DEF Unloaded
<1>6. WithinEver(held)' /\ SavedWithinEver'
  BY <1>1, <1>5 DEF WithinEver, SavedWithinEver, Counted
<1> QED
  BY <1>1, <1>4, <1>6 DEF Counted

LEMMA LoadCounts ==
  ASSUME TypeOK, NEW p \in Places, LoadCell(p)
  PROVE  /\ \A q \in Places, h \in Hours :
              count'[q][h] = IF q = Target(p) THEN count[q][h] + saved.count[p][h] ELSE count[q][h]
         /\ \A q \in Places :
              spans'[q] = IF q = Target(p) THEN spans[q] \cup saved.spans[p] ELSE spans[q]
         /\ \A q \in Places : q # Target(p) => count'[q] = count[q]
<1> DEFINE t == Target(p)
<1>1. count' = [count EXCEPT ![t] = [h \in Hours |-> @[h] + saved.count[p][h]]]
      /\ spans' = [spans EXCEPT ![t] = @ \cup saved.spans[p]]
  BY DEF LoadCell
<1>2. t \in Places /\ count \in CountType /\ spans \in [Places -> SUBSET Hours]
  BY TargetType DEF TypeOK
<1> HIDE DEF t
<1>3. /\ \A q \in Places, h \in Hours :
           count'[q][h] = IF q = t THEN count[q][h] + saved.count[p][h] ELSE count[q][h]
      /\ \A q \in Places : spans'[q] = IF q = t THEN spans[q] \cup saved.spans[p] ELSE spans[q]
      /\ \A q \in Places : q # t => count'[q] = count[q]
  BY <1>1, <1>2 DEF CountType
<1> QED
  BY <1>3 DEF t

(* A loaded counter moves from what is to be loaded to what is held.         *)
LEMMA CountedLoad ==
  ASSUME Counted, TypeOK, TypeOK', NEW p \in Places, LoadCell(p)
  PROVE  Counted'
<1> DEFINE t == Target(p)
<1>0. t \in Places /\ t[1] = p[1]
  BY TargetType
<1>1. PICK held \in CountType : Holds(held) /\ WithinEver(held)
  BY DEF Counted
<1>2. /\ p \in toLoad /\ toLoad' = toLoad \ {p} /\ ever' = ever /\ document' = document /\ saved' = saved
      /\ \A q \in Places, h \in Hours :
           count'[q][h] = IF q = t THEN count[q][h] + saved.count[p][h] ELSE count[q][h]
  BY LoadCounts DEF LoadCell, historyVars, saverVars
<1> HIDE DEF t
<1> DEFINE sum == [q \in Places |-> [h \in Hours |->
                     IF q = t THEN held[q][h] + saved.count[p][h] ELSE held[q][h]]]
           left == Unloaded
           leftThen == Unloaded'
<1>3. \A q \in Places, h \in Hours : /\ held[q][h] \in Nat /\ saved.count[q][h] \in Nat
                                     /\ count[q][h] \in Nat /\ document.count[q][h] \in Nat
                                     /\ count[q][h] <= held[q][h] /\ document.count[q][h] <= held[q][h]
  BY <1>1, CountNats DEF CountType, Holds
<1>4. sum \in CountType /\ left \in CountType
  BY <1>3, UnloadedType DEF CountType
<1>5. \A q \in Places, h \in Hours : /\ left[q][h] = IF q \in toLoad THEN saved.count[q][h] ELSE 0
                                     /\ leftThen[q][h] = IF q = p THEN 0 ELSE left[q][h]
  BY <1>2 DEF Unloaded
<1>6. leftThen \in CountType
  <2>1. saved' \in DocumentType
    BY DEF TypeOK
  <2> QED
    BY <2>1 DEF Unloaded, CountType, DocumentType
<1>7. PICK new \in CountType :
        \A q \in Places, h \in Hours :
          new[q][h] = IF q = t THEN held[q][h] + saved.count[p][h] ELSE held[q][h]
  <2>1. \A q \in Places, h \in Hours :
          sum[q][h] = IF q = t THEN held[q][h] + saved.count[p][h] ELSE held[q][h]
    OBVIOUS
  <2> HIDE DEF sum
  <2> QED
    BY <1>4, <2>1
<1> HIDE DEF sum, left, leftThen
<1>8. ASSUME NEW q \in Places, NEW h \in Hours
      PROVE  count'[q][h] <= new[q][h] /\ document'.count[q][h] <= new[q][h]
  BY <1>2, <1>3, <1>7
<1>9. ASSUME NEW s \in Sources, NEW h \in Hours
      PROVE  InSource(new, s, h) + InSource(leftThen, s, h) <= InSource(ever, s, h)
  <2>1. \A q \in Places, k \in Hours : q # t => new[q][k] = held[q][k]
    BY <1>7
  <2>2. InSource(new, s, h) = InSource(held, s, h) + (IF s = t[1] THEN new[t][h] - held[t][h] ELSE 0)
    BY <1>0, <1>7, <2>1, InSourceChange
  <2>3. \A q \in Places, k \in Hours : q # p => leftThen[q][k] = left[q][k]
    BY <1>5
  <2>4. InSource(leftThen, s, h)
          = InSource(left, s, h) + (IF s = p[1] THEN leftThen[p][h] - left[p][h] ELSE 0)
    BY <1>4, <1>6, <2>3, InSourceChange
  <2>5. new[t][h] = held[t][h] + saved.count[p][h] /\ leftThen[p][h] = 0 /\ left[p][h] = saved.count[p][h]
    BY <1>0, <1>2, <1>5, <1>7
  <2>6. InSource(held, s, h) + InSource(left, s, h) <= InSource(ever, s, h)
    BY <1>1 DEF WithinEver, left
  <2>7. InSource(held, s, h) \in Int /\ InSource(left, s, h) \in Int /\ InSource(ever, s, h) \in Int
    BY <1>4, InSourceInt DEF TypeOK
  <2> DEFINE a == InSource(held, s, h)
             b == InSource(left, s, h)
             c == InSource(ever, s, h)
             x == held[t][h]
             y == saved.count[p][h]
  <2>8. x \in Nat /\ y \in Nat
    BY <1>0, <1>3
  <2>9. /\ InSource(new, s, h) = a + (IF s = p[1] THEN (x + y) - x ELSE 0)
        /\ InSource(leftThen, s, h) = b + (IF s = p[1] THEN 0 - y ELSE 0)
    BY <1>0, <2>2, <2>4, <2>5
  <2>10. a + b <= c /\ a \in Int /\ b \in Int /\ c \in Int
    BY <2>6, <2>7
  <2> HIDE DEF a, b, c, x, y
  <2>11. InSource(new, s, h) + InSource(leftThen, s, h) <= c
    BY <2>8, <2>9, <2>10
  <2> QED
    BY <2>11 DEF c
<1>10. Holds(new)'
  BY <1>7, <1>8 DEF Holds
<1>11. WithinEver(new)' /\ SavedWithinEver'
  BY <1>2, <1>9 DEF WithinEver, SavedWithinEver, Counted, leftThen
<1> QED
  BY <1>7, <1>10, <1>11 DEF Counted

LEMMA SignalCounts ==
  ASSUME TypeOK, place \in Places, CountInSpan
  PROVE  /\ hour \in Hours
         /\ \A q \in Places, h \in Hours :
              /\ count'[q][h] = IF q = place /\ h = hour /\ hour \in spans[place]
                                THEN count[q][h] + 1 ELSE count[q][h]
              /\ ever'[q][h] = IF q = place /\ h = hour THEN ever[q][h] + 1 ELSE ever[q][h]
         /\ \A q \in Places : q # place => count'[q] = count[q] /\ purged'[q] = purged[q]
         /\ purged'[place] = IF hour \in spans[place] THEN purged[place] ELSE purged[place] + 1
<1>1. /\ hour \in Hours /\ count \in CountType /\ ever \in CountType /\ purged \in [Places -> Nat]
  BY DEF TypeOK
<1>2. ever' = [ever EXCEPT ![place][hour] = @ + 1]
  BY DEF CountInSpan
<1>3. CASE hour \in spans[place]
  <2>1. count' = [count EXCEPT ![place][hour] = @ + 1] /\ purged' = purged
    BY <1>3 DEF CountInSpan
  <2> QED
    BY <1>1, <1>2, <1>3, <2>1 DEF CountType
<1>4. CASE hour \notin spans[place]
  <2>1. count' = count /\ purged' = [purged EXCEPT ![place] = @ + 1]
    BY <1>4 DEF CountInSpan
  <2> QED
    BY <1>1, <1>2, <1>4, <2>1 DEF CountType
<1> QED
  BY <1>3, <1>4

(* A counted signal is held from now on.                                    *)
LEMMA CountedSignal ==
  ASSUME Counted, TypeOK, TypeOK', place \in Places, toLoad = {}, CountInSpan
  PROVE  Counted'
<1>1. PICK held \in CountType : Holds(held) /\ WithinEver(held)
  BY DEF Counted
<1>2. /\ toLoad' = toLoad /\ document' = document /\ saved' = saved
      /\ hour \in Hours
      /\ \A q \in Places, h \in Hours :
           /\ count'[q][h] \in {count[q][h]} \cup (IF q = place /\ h = hour THEN {count[q][h] + 1} ELSE {})
           /\ ever'[q][h] = IF q = place /\ h = hour THEN ever[q][h] + 1 ELSE ever[q][h]
  BY SignalCounts DEF CountInSpan, saverVars
<1>3. \A q \in Places, h \in Hours : /\ held[q][h] \in Nat /\ ever[q][h] \in Nat
                                     /\ count[q][h] \in Nat /\ document.count[q][h] \in Nat
                                     /\ count[q][h] <= held[q][h] /\ document.count[q][h] <= held[q][h]
  BY <1>1, CountNats DEF CountType, Holds, TypeOK
<1> DEFINE sum == [q \in Places |-> [h \in Hours |->
                     IF q = place /\ h = hour THEN held[q][h] + 1 ELSE held[q][h]]]
<1>4. sum \in CountType
  BY <1>3 DEF CountType
<1>5. PICK new \in CountType :
        \A q \in Places, h \in Hours :
          new[q][h] = IF q = place /\ h = hour THEN held[q][h] + 1 ELSE held[q][h]
  <2>1. \A q \in Places, h \in Hours :
          sum[q][h] = IF q = place /\ h = hour THEN held[q][h] + 1 ELSE held[q][h]
    OBVIOUS
  <2> HIDE DEF sum
  <2> QED
    BY <1>4, <2>1
<1> HIDE DEF sum
<1>6. ASSUME NEW q \in Places, NEW h \in Hours
      PROVE  count'[q][h] <= new[q][h] /\ document'.count[q][h] <= new[q][h]
  BY <1>2, <1>3, <1>5
<1>7. Unloaded' = Unloaded
  BY <1>2 DEF Unloaded
<1> DEFINE after == ever'
<1>8. after \in CountType /\ ever \in CountType
  BY DEF TypeOK
<1>9. \A q \in Places, h \in Hours :
        after[q][h] = IF q = place /\ h = hour THEN ever[q][h] + 1 ELSE ever[q][h]
  BY <1>2
<1> HIDE DEF after
<1>10. ASSUME NEW s \in Sources, NEW h \in Hours
       PROVE  /\ InSource(new, s, h) + InSource(Unloaded, s, h) <= InSource(after, s, h)
              /\ InSource(saved.count, s, h) <= InSource(after, s, h)
  <2>1. InSource(new, s, h) = InSource(held, s, h) + (IF s = place[1] THEN new[place][h] - held[place][h] ELSE 0)
    BY <1>5, InSourceChange
  <2>2. InSource(after, s, h)
          = InSource(ever, s, h) + (IF s = place[1] THEN after[place][h] - ever[place][h] ELSE 0)
    BY <1>8, <1>9, InSourceChange
  <2>3. saved.count \in CountType /\ Unloaded \in CountType
    BY UnloadedType DEF TypeOK, DocumentType
  <2> DEFINE a == InSource(held, s, h)
             b == InSource(Unloaded, s, h)
             c == InSource(ever, s, h)
             d == InSource(saved.count, s, h)
             x == held[place][h]
             y == ever[place][h]
             one == IF h = hour THEN 1 ELSE 0
  <2>4. a + b <= c /\ d <= c /\ a \in Int /\ b \in Int /\ c \in Int /\ d \in Int
    BY <1>1, <1>8, <2>3, InSourceInt DEF WithinEver, SavedWithinEver, Counted
  <2>5. new[place][h] = x + one /\ after[place][h] = y + one /\ x \in Nat /\ y \in Nat /\ one \in Nat
    BY <1>3, <1>5, <1>9
  <2>6. /\ InSource(new, s, h) = a + (IF s = place[1] THEN x + one - x ELSE 0)
        /\ InSource(after, s, h) = c + (IF s = place[1] THEN y + one - y ELSE 0)
    BY <2>1, <2>2, <2>5
  <2> HIDE DEF a, b, c, d, x, y, one
  <2>7. InSource(new, s, h) + b <= InSource(after, s, h) /\ d <= InSource(after, s, h)
    BY <2>4, <2>5, <2>6
  <2> QED
    BY <2>7 DEF b, d
<1>11. Holds(new)'
  BY <1>5, <1>6 DEF Holds
<1>12. WithinEver(new)' /\ SavedWithinEver'
  BY <1>2, <1>7, <1>10 DEF WithinEver, SavedWithinEver, after
<1> QED
  BY <1>5, <1>11, <1>12 DEF Counted

(* Nothing is held when the application is down, and what Start begins to    *)
(* load is the document.                                                    *)
LEMMA CountedStart ==
  ASSUME Counted, TypeOK, Phases, Start
  PROVE  Counted'
<1>1. /\ NoSignals \in CountType /\ \A p \in Places, h \in Hours : NoSignals[p][h] = 0
      /\ count' = NoSignals /\ document'.count = NoSignals /\ saved' = saved /\ ever' = ever
  BY NoneType DEF Start, Phases, memoryVars, saverVars, EmptyDocument, NoSignals
<1>2. Holds(NoSignals)'
  BY <1>1 DEF Holds
<1> DEFINE left == Unloaded'
<1>3. /\ \A p \in Places, h \in Hours : left[p][h] \in Nat /\ left[p][h] <= saved.count[p][h]
      /\ left \in CountType
  BY <1>1, CountNats DEF Unloaded, CountType
<1> HIDE DEF left
<1>4. ASSUME NEW s \in Sources, NEW h \in Hours
      PROVE  InSource(NoSignals, s, h) + InSource(left, s, h) <= InSource(ever, s, h)
  <2>1. InSource(NoSignals, s, h) = 0
    BY <1>1, InSourceZero
  <2>2. InSource(left, s, h) <= InSource(saved.count, s, h)
    <3> DEFINE f == saved.count
    <3>1. f \in CountType /\ \A p \in Places : left[p][h] <= f[p][h]
      BY <1>3 DEF TypeOK, DocumentType
    <3> HIDE DEF f
    <3>2. InSource(left, s, h) <= InSource(f, s, h)
      BY <1>3, <3>1, InSourceGrows
    <3> QED
      BY <3>2 DEF f
  <2>3. InSource(saved.count, s, h) <= InSource(ever, s, h)
    BY DEF Counted, SavedWithinEver
  <2>4. /\ InSource(left, s, h) \in Int /\ InSource(saved.count, s, h) \in Int
        /\ InSource(ever, s, h) \in Int
    BY <1>3, InSourceInt DEF TypeOK, DocumentType
  <2> QED
    BY <2>1, <2>2, <2>3, <2>4
<1>5. WithinEver(NoSignals)' /\ SavedWithinEver'
  BY <1>1, <1>4 DEF WithinEver, SavedWithinEver, Counted, left, NoSignals
<1> QED
  BY <1>1, <1>2, <1>5 DEF Counted

LEMMA CountedDown ==
  ASSUME Counted, TypeOK, TypeOK', GoDown
  PROVE  Counted'
<1>1. /\ NoSignals \in CountType /\ \A p \in Places, h \in Hours : NoSignals[p][h] = 0
      /\ count' = NoSignals /\ document'.count = NoSignals /\ saved' = saved /\ ever' = ever
      /\ toLoad' = {}
  BY NoneType DEF GoDown, Forget, SaverRests, historyVars, EmptyDocument, NoSignals
<1>2. Holds(NoSignals)'
  BY <1>1 DEF Holds
<1> DEFINE left == Unloaded'
<1>3. \A p \in Places, h \in Hours : left[p][h] = 0
  BY <1>1 DEF Unloaded
<1> HIDE DEF left
<1>4. ASSUME NEW s \in Sources, NEW h \in Hours
      PROVE  InSource(NoSignals, s, h) + InSource(left, s, h) <= InSource(ever, s, h)
  <2>1. InSource(NoSignals, s, h) = 0 /\ InSource(left, s, h) = 0
    BY <1>1, <1>3, InSourceZero
  <2>2. InSource(ever, s, h) \in Int /\ InSource(ever, s, h) >= 0
    BY InSourceInt DEF TypeOK
  <2> QED
    BY <2>1, <2>2
<1>5. WithinEver(NoSignals)' /\ SavedWithinEver'
  BY <1>1, <1>4 DEF WithinEver, SavedWithinEver, Counted, left, NoSignals
<1> QED
  BY <1>1, <1>2, <1>5 DEF Counted

(* The document that is inserted is within what is held.                    *)
LEMMA CountedInsert ==
  ASSUME Counted, TypeOK, TypeOK', toLoad = {}, Insert
  PROVE  Counted'
<1>1. PICK held \in CountType : Holds(held) /\ WithinEver(held)
  BY DEF Counted
<1>2. /\ saved' = document /\ document' = EmptyDocument /\ count' = count /\ toLoad' = toLoad
      /\ ever' = ever
  BY DEF Insert, SaverRests, memoryVars, historyVars
<1>3. \A p \in Places, h \in Hours : held[p][h] \in Nat /\ EmptyDocument.count[p][h] = 0
  BY <1>1, CountNats DEF CountType
<1>4. Holds(held)'
  BY <1>1, <1>2, <1>3 DEF Holds
<1>5. \A p \in Places, h \in Hours : Unloaded[p][h] = 0 /\ Unloaded'[p][h] = 0
  BY <1>2 DEF Unloaded
<1> DEFINE left == Unloaded'
<1>6. \A p \in Places, h \in Hours : left[p][h] = 0
  BY <1>5
<1> HIDE DEF left
<1>7. ASSUME NEW s \in Sources, NEW h \in Hours
      PROVE  /\ InSource(held, s, h) + InSource(left, s, h) <= InSource(ever, s, h)
             /\ InSource(document.count, s, h) <= InSource(ever, s, h)
  <2>1. InSource(Unloaded, s, h) = 0 /\ InSource(left, s, h) = 0
    BY <1>5, <1>6, InSourceZero
  <2>2. InSource(held, s, h) + InSource(Unloaded, s, h) <= InSource(ever, s, h)
    BY <1>1 DEF WithinEver
  <2>3. InSource(document.count, s, h) <= InSource(held, s, h)
    <3> DEFINE f == document.count
    <3>1. f \in CountType /\ \A p \in Places : f[p][h] <= held[p][h]
      BY <1>1 DEF TypeOK, DocumentType, Holds
    <3> HIDE DEF f
    <3>2. InSource(f, s, h) <= InSource(held, s, h)
      BY <1>1, <3>1, InSourceGrows
    <3> QED
      BY <3>2 DEF f
  <2>4. /\ InSource(held, s, h) \in Int /\ InSource(document.count, s, h) \in Int
        /\ InSource(ever, s, h) \in Int
    BY <1>1, InSourceInt DEF TypeOK, DocumentType
  <2> QED
    BY <2>1, <2>2, <2>3, <2>4
<1>8. WithinEver(held)' /\ SavedWithinEver'
  BY <1>2, <1>7 DEF WithinEver, SavedWithinEver, left
<1> QED
  BY <1>1, <1>4, <1>8 DEF Counted

LEMMA DocumentAfterSpan ==
  ASSUME TypeOK, marshalling \in Places, NEW h \in Hours, MarshalSpan(h)
  PROVE  /\ \A q \in Places, k \in Hours :
              document'.count[q][k] = IF q = marshalling /\ k = h THEN count[q][k]
                                      ELSE document.count[q][k]
         /\ \A q \in Places :
              document'.spans[q] = IF q = marshalling THEN document.spans[q] \cup {h}
                                   ELSE document.spans[q]
<1> DEFINE k0 == count[marshalling][h]
<1>1. document.count \in [Places -> [Hours -> Nat]] /\ document.spans \in [Places -> SUBSET Hours]
  BY DEF TypeOK, DocumentType, CountType
<1>2. /\ document'.spans = [document.spans EXCEPT ![marshalling] = @ \cup {h}]
      /\ document'.count = [document.count EXCEPT ![marshalling][h] = k0]
  BY MarshalSpanDocument
<1> HIDE DEF k0
<1>3. \A q \in Places, k \in Hours :
        document'.count[q][k] = IF q = marshalling /\ k = h THEN k0 ELSE document.count[q][k]
  BY <1>1, <1>2
<1>4. \A q \in Places :
        document'.spans[q] = IF q = marshalling THEN document.spans[q] \cup {h} ELSE document.spans[q]
  BY <1>1, <1>2
<1> QED
  BY <1>3, <1>4 DEF k0

LEMMA CountedStep == Counted /\ PhasesType /\ PhasesType' /\ [Next]_vars => Counted'
<1> SUFFICES ASSUME Counted, TypeOK, TypeOK', Phases, [Next]_vars PROVE Counted'
  BY DEF PhasesType
(* A step that counts nothing, loads nothing and inserts nothing.           *)
<1>k. ASSUME \A p \in Places, h \in Hours :
               /\ count'[p][h] <= count[p][h]
               /\ document'.count[p][h] \in {document.count[p][h], count[p][h], 0},
             toLoad' = toLoad, saved' = saved, ever' = ever
      PROVE  Counted'
  BY <1>k, CountedKept
<1>1. ASSUME NEW p \in Places, LoadCell(p) PROVE Counted'
  BY <1>1, CountedLoad
<1>2. CASE Start
  BY <1>2, CountedStart
<1>3. CASE Crash \/ Stopped
  BY <1>3, CountedDown DEF Crash, Stopped
<1>4. CASE CountInSpan
  <2>1. toLoad = {} /\ place \in Places
    BY <1>4 DEF CountInSpan, Phases, TypeOK
  <2> QED
    BY <1>4, <2>1, CountedSignal
<1>5. CASE Insert
  <2>1. toLoad = {}
    BY <1>5 DEF Insert, Phases
  <2> QED
    BY <1>5, <2>1, CountedInsert
<1>6. ASSUME NEW p \in Places, PurgeCell(p) PROVE Counted'
  <2>1. \A q \in Places, h \in Hours : count'[q][h] <= count[q][h]
    BY <1>6, AfterPurge, CountNats
  <2>2. toLoad' = toLoad /\ saved' = saved /\ ever' = ever /\ document' = document
    BY <1>6 DEF PurgeCell, historyVars
  <2> QED
    BY <1>k, <2>1, <2>2
<1>7. ASSUME NEW p \in Places, MarshalCell(p) PROVE Counted'
  <2>1. document'.count = document.count
    BY <1>7, MarshalCellDocument
  <2>2. toLoad' = toLoad /\ saved' = saved /\ ever' = ever /\ count' = count
    BY <1>7 DEF MarshalCell, memoryVars, historyVars
  <2> QED
    BY <1>k, <2>1, <2>2, CountNats
<1>8. ASSUME NEW h \in Hours, MarshalSpan(h) PROVE Counted'
  <2>1. marshalling \in Places
    BY <1>8 DEF MarshalSpan, Phases
  <2>2. \A q \in Places, k \in Hours : document'.count[q][k] \in {document.count[q][k], count[q][k]}
    BY <1>8, <2>1, DocumentAfterSpan
  <2>3. toLoad' = toLoad /\ saved' = saved /\ ever' = ever /\ count' = count
    BY <1>8 DEF MarshalSpan, memoryVars, historyVars
  <2> QED
    BY <1>k, <2>2, <2>3, CountNats
<1>9. CASE CellDone
  <2>1. document'.count = document.count
    BY <1>9, CellDoneDocument DEF CellDone, Phases
  <2>2. toLoad' = toLoad /\ saved' = saved /\ ever' = ever /\ count' = count
    BY <1>9 DEF CellDone, memoryVars, historyVars
  <2> QED
    BY <1>k, <2>1, <2>2, CountNats
<1>10. CASE BeginSave \/ SaveFails
  <2>1. /\ toLoad' = toLoad /\ saved' = saved /\ ever' = ever /\ count' = count
        /\ document' = EmptyDocument
    BY <1>10 DEF BeginSave, SaveFails, SaverRests, memoryVars, historyVars
  <2> QED
    BY <1>k, <2>1, CountNats
<1>11. CASE UNCHANGED <<count, document, toLoad, saved, ever>>
  BY <1>k, <1>11, CountNats
<1>12. ASSUME NEW p \in Places, NEW h \in Hours, FindCell(p, h)
       PROVE  UNCHANGED <<count, document, toLoad, saved, ever>>
  BY <1>12 DEF FindCell
<1>13. CASE FindSpan \/ CountInCell \/ Loaded \/ Stop \/ FinishPurge \/ \E t \in Hours : BeginPurge(t)
  BY <1>11, <1>13 DEF FindSpan, CountInCell, Loaded, Stop, FinishPurge, BeginPurge, memoryVars, saverVars,
                      historyVars
<1>14. CASE UNCHANGED vars
  BY <1>11, <1>14 DEF vars, memoryVars, saverVars, historyVars
<1> QED
  BY <1>1, <1>2, <1>3, <1>4, <1>5, <1>6, <1>7, <1>8, <1>9, <1>10, <1>11, <1>12, <1>13, <1>14
     DEF Next, Calculator, Purger, Saver, Quiescent

(* No signal is ever counted twice, however often the application crashes,   *)
(* stops and loads what it saved, whichever cell a loaded one is added to    *)
(* and whatever is purged while a document is made: the cells of a source    *)
(* together hold no more signals of an hour than were counted.              *)
THEOREM NothingCountedTwice == Spec => []NeverOvercounted
<1>1. Counted /\ PhasesType => NeverOvercounted
  <2> SUFFICES ASSUME Counted, TypeOK, NEW s \in Sources, NEW h \in Hours
               PROVE  /\ InSource(count, s, h) <= InSource(ever, s, h)
                      /\ InSource(saved.count, s, h) <= InSource(ever, s, h)
    BY DEF NeverOvercounted, PhasesType
  <2>1. PICK held \in CountType : Holds(held) /\ WithinEver(held)
    BY DEF Counted
  <2>2. InSource(count, s, h) <= InSource(held, s, h)
    BY <2>1, InSourceGrows DEF TypeOK, Holds
  <2>3. InSource(held, s, h) + InSource(Unloaded, s, h) <= InSource(ever, s, h)
    BY <2>1 DEF WithinEver
  <2>4. /\ InSource(held, s, h) \in Int /\ InSource(Unloaded, s, h) \in Int
        /\ InSource(Unloaded, s, h) >= 0 /\ InSource(ever, s, h) \in Int
        /\ InSource(count, s, h) \in Int
    BY <2>1, UnloadedType, InSourceInt DEF TypeOK
  <2>5. InSource(count, s, h) <= InSource(ever, s, h)
    BY <2>2, <2>3, <2>4
  <2> QED
    BY <2>5 DEF Counted, SavedWithinEver
<1> QED
  BY <1>1, CountedInit, CountedStep, PhasesAlways, PTL DEF Spec
-----------------------------------------------------------------------------
(* A counter that is not zero belongs to a time span that is there.          *)
CountedInSpans ==
  \A p \in Places, h \in Hours :
    /\ count[p][h] > 0 => p \in grid /\ h \in spans[p]
    /\ document.count[p][h] > 0 => h \in document.spans[p]
    /\ saved.count[p][h] > 0 => h \in saved.spans[p]

(* What had been counted when the save began, and has not been purged, is    *)
(* still to be marshalled, or is in the document.                           *)
SaveCovers ==
  saverPc # "idle" =>
    \A p \in Places, h \in Hours :
      /\ atStart[p][h] <= count[p][h]
      /\ \/ p \in toMarshal
         \/ saverPc = "spans" /\ p = marshalling /\ h \in hoursLeft
         \/ atStart[p][h] <= document.count[p][h]

LEMMA CountedInSpansInit == Init => CountedInSpans
  BY DEF Init, CountedInSpans, NoSignals, EmptyDocument

LEMMA CountedInSpansStep == CountedInSpans /\ PhasesType /\ [Next]_vars => CountedInSpans'
<1> SUFFICES ASSUME CountedInSpans, TypeOK, Phases, [Next]_vars PROVE CountedInSpans'
  BY DEF PhasesType
<1>1. ASSUME NEW p \in Places, LoadCell(p) PROVE CountedInSpans'
  <2> DEFINE t == Target(p)
  <2>1. document' = document /\ saved' = saved /\ grid' = grid \cup {t}
    BY <1>1 DEF LoadCell, saverVars
  <2>2. /\ \A q \in Places, h \in Hours :
             count'[q][h] = IF q = t THEN count[q][h] + saved.count[p][h] ELSE count[q][h]
        /\ \A q \in Places : spans'[q] = IF q = t THEN spans[q] \cup saved.spans[p] ELSE spans[q]
    BY <1>1, LoadCounts
  <2> HIDE DEF t
  <2>3. ASSUME NEW q \in Places, NEW h \in Hours, count'[q][h] > 0 PROVE q \in grid' /\ h \in spans'[q]
    <3>1. CASE q = t
      <4>1. count[q][h] > 0 \/ saved.count[p][h] > 0
        BY <2>2, <2>3, <3>1, CountNats
      <4>2. h \in spans[q] \/ h \in saved.spans[p]
        BY <4>1 DEF CountedInSpans
      <4> QED
        BY <2>1, <2>2, <3>1, <4>2
    <3>2. CASE q # t
      <4>1. count[q][h] > 0 /\ spans'[q] = spans[q]
        BY <2>2, <2>3, <3>2
      <4> QED
        BY <2>1, <4>1 DEF CountedInSpans
    <3> QED
      BY <3>1, <3>2
  <2> QED
    BY <2>1, <2>3 DEF CountedInSpans
<1>2. CASE Start \/ Loaded \/ Stop
  BY <1>2 DEF Start, Loaded, Stop, CountedInSpans, memoryVars, saverVars
<1>3. CASE Crash \/ Stopped
  <2>1. GoDown
    BY <1>3 DEF Crash, Stopped
  <2> QED
    BY <2>1, CountNats DEF GoDown, Forget, SaverRests, CountedInSpans
<1>4. ASSUME NEW p \in Places, NEW h \in Hours, FindCell(p, h) PROVE CountedInSpans'
  <2>1. /\ count' = count /\ spans' = spans /\ document' = document /\ saved' = saved
        /\ grid \subseteq grid'
    BY <1>4 DEF FindCell
  <2> QED
    BY <2>1 DEF CountedInSpans
<1>5. CASE FindSpan
  <2>1. \A p \in Places : spans[p] \subseteq spans'[p]
    BY <1>5 DEF FindSpan, TypeOK
  <2>2. count' = count /\ grid' = grid /\ document' = document /\ saved' = saved
    BY <1>5 DEF FindSpan
  <2> QED
    BY <2>1, <2>2 DEF CountedInSpans
<1>6. CASE CountInSpan
  <2>1. place \in Places /\ place \in grid
    BY <1>6 DEF CountInSpan, Phases, TypeOK
  <2>2. document' = document /\ saved' = saved /\ grid' = grid /\ spans' = spans
    BY <1>6 DEF CountInSpan, saverVars
  <2>3. ASSUME NEW q \in Places, NEW h \in Hours, count'[q][h] > 0 PROVE q \in grid /\ h \in spans[q]
    BY <1>6, <2>1, <2>3, SignalCounts DEF CountedInSpans
  <2> QED
    BY <2>2, <2>3 DEF CountedInSpans
<1>7. CASE CountInCell
  BY <1>7 DEF CountInCell, CountedInSpans, saverVars
<1>8. CASE BeginSave
  BY <1>8, CountNats DEF BeginSave, CountedInSpans, memoryVars
<1>9. ASSUME NEW p \in Places, MarshalCell(p) PROVE CountedInSpans'
  <2>1. document'.count = document.count /\ document'.spans = document.spans
    BY <1>9, MarshalCellDocument
  <2> QED
    BY <1>9, <2>1 DEF MarshalCell, CountedInSpans, memoryVars
<1>10. ASSUME NEW h \in Hours, MarshalSpan(h) PROVE CountedInSpans'
  <2>1. marshalling \in Places
    BY <1>10 DEF MarshalSpan, Phases
  <2>2. ASSUME NEW q \in Places, NEW k \in Hours, document'.count[q][k] > 0 PROVE k \in document'.spans[q]
    <3>1. CASE q = marshalling /\ k = h
      BY <1>10, <2>1, <3>1, DocumentAfterSpan
    <3>2. CASE ~(q = marshalling /\ k = h)
      <4>1. document.count[q][k] > 0
        BY <1>10, <2>1, <2>2, <3>2, DocumentAfterSpan
      <4>2. k \in document.spans[q]
        BY <4>1 DEF CountedInSpans
      <4> QED
        BY <1>10, <2>1, <4>2, DocumentAfterSpan
    <3> QED
      BY <3>1, <3>2
  <2> QED
    BY <1>10, <2>2 DEF MarshalSpan, CountedInSpans, memoryVars
<1>11. CASE CellDone
  <2>1. document'.count = document.count /\ document'.spans = document.spans
    BY <1>11, CellDoneDocument DEF CellDone, Phases
  <2> QED
    BY <1>11, <2>1 DEF CellDone, CountedInSpans, memoryVars
<1>12. CASE Insert \/ SaveFails
  BY <1>12, CountNats DEF Insert, SaveFails, SaverRests, CountedInSpans, memoryVars
<1>13. ASSUME NEW p \in Places, PurgeCell(p) PROVE CountedInSpans'
  <2>1. document' = document /\ saved' = saved
    BY <1>13 DEF PurgeCell
  <2>2. ASSUME NEW q \in Places, NEW h \in Hours, count'[q][h] > 0 PROVE q \in grid' /\ h \in spans'[q]
    <3>1. count[q][h] > 0 /\ ~(q = p /\ h \in Expired(p))
      BY <1>13, <2>2, AfterPurge
    <3>2. q \in grid /\ h \in spans[q]
      BY <3>1 DEF CountedInSpans
    <3>3. h \in spans'[q]
      BY <1>13, <3>1, <3>2, AfterPurge DEF TypeOK
    <3>4. q = p => grid' = grid
      BY <1>13, <3>1, <3>2 DEF PurgeCell, Expired
    <3>5. q # p => q \in grid'
      BY <1>13, <3>2 DEF PurgeCell
    <3> QED
      BY <3>2, <3>3, <3>4, <3>5
  <2> QED
    BY <2>1, <2>2 DEF CountedInSpans
<1>14. CASE FinishPurge \/ \E t \in Hours : BeginPurge(t)
  BY <1>14 DEF FinishPurge, BeginPurge, CountedInSpans, memoryVars, saverVars
<1>15. CASE UNCHANGED vars
  BY <1>15 DEF vars, memoryVars, saverVars, CountedInSpans
<1> QED
  BY <1>1, <1>2, <1>3, <1>4, <1>5, <1>6, <1>7, <1>8, <1>9, <1>10, <1>11, <1>12, <1>13, <1>14, <1>15
     DEF Next, Calculator, Purger, Saver, Quiescent

LEMMA SaveCoversInit == Init => SaveCovers
  BY DEF Init, SaveCovers

LEMMA SaveCoversPurge ==
  ASSUME SaveCovers, CountedInSpans, TypeOK, NEW p \in Places, PurgeCell(p)
  PROVE  SaveCovers'
<1>1. /\ saverPc' = saverPc /\ marshalling' = marshalling /\ hoursLeft' = hoursLeft
      /\ document' = document
      /\ toMarshal' \in {toMarshal, toMarshal \ {p}}
      /\ toMarshal' # toMarshal => spans[p] = Expired(p)
  BY DEF PurgeCell, Expired
<1>2. ASSUME saverPc # "idle", NEW q \in Places, NEW h \in Hours
      PROVE  /\ atStart'[q][h] <= count'[q][h]
             /\ \/ q \in toMarshal'
                \/ saverPc = "spans" /\ q = marshalling /\ h \in hoursLeft
                \/ atStart'[q][h] <= document.count[q][h]
  <2>1. /\ atStart[q][h] <= count[q][h]
        /\ \/ q \in toMarshal
           \/ saverPc = "spans" /\ q = marshalling /\ h \in hoursLeft
           \/ atStart[q][h] <= document.count[q][h]
    BY <1>2 DEF SaveCovers
  <2>2. CASE q = p /\ h \in Expired(p)
    <3>1. atStart'[q][h] = 0 /\ count'[q][h] = 0
      BY <2>2, AfterPurge
    <3> QED
      BY <3>1, CountNats
  <2>3. CASE ~(q = p /\ h \in Expired(p))
    <3>1. atStart'[q][h] = atStart[q][h] /\ count'[q][h] = count[q][h]
      BY <2>3, AfterPurge
    <3>2. CASE q \in toMarshal /\ q \notin toMarshal'
      <4>1. q = p /\ h \notin spans[q]
        BY <1>1, <2>3, <3>2
      <4>2. atStart[q][h] <= document.count[q][h]
        BY <2>1, <4>1, CountNats DEF CountedInSpans
      <4> QED
        BY <2>1, <3>1, <4>2
    <3>3. CASE ~(q \in toMarshal /\ q \notin toMarshal')
      BY <2>1, <3>1, <3>3
    <3> QED
      BY <3>2, <3>3
  <2> QED
    BY <2>2, <2>3
<1> QED
  BY <1>1, <1>2 DEF SaveCovers

(* A cell that was not in the grid held nothing when the save began.         *)
LEMMA SaveCoversFind ==
  ASSUME SaveCovers, CountedInSpans, TypeOK, NEW p \in Places, NEW k \in Hours, FindCell(p, k)
  PROVE  SaveCovers'
<1>1. /\ saverPc' = saverPc /\ marshalling' = marshalling /\ hoursLeft' = hoursLeft
      /\ document' = document /\ atStart' = atStart /\ count' = count
  BY DEF FindCell
<1>2. ASSUME NEW q \in Places, q \in toMarshal PROVE q \in toMarshal' \/ q \notin grid
  BY <1>2 DEF FindCell, WithOrWithout
<1>3. ASSUME saverPc # "idle", NEW q \in Places, NEW h \in Hours
      PROVE  /\ atStart[q][h] <= count[q][h]
             /\ \/ q \in toMarshal'
                \/ saverPc = "spans" /\ q = marshalling /\ h \in hoursLeft
                \/ atStart[q][h] <= document.count[q][h]
  <2>1. CASE q \notin grid
    BY <1>3, <2>1, CountNats DEF CountedInSpans, SaveCovers
  <2>2. CASE q \in grid
    BY <1>2, <1>3, <2>2 DEF SaveCovers
  <2> QED
    BY <2>1, <2>2
<1> QED
  BY <1>1, <1>3 DEF SaveCovers

LEMMA SaveCoversStep == SaveCovers /\ CountedInSpans /\ PhasesType /\ [Next]_vars => SaveCovers'
<1> SUFFICES ASSUME SaveCovers, CountedInSpans, TypeOK, Phases, [Next]_vars PROVE SaveCovers'
  BY DEF PhasesType
<1>1. CASE saverPc = "idle" /\ ~ BeginSave
  <2>1. saverPc' = "idle"
    BY <1>1 DEF Next, Calculator, Purger, Saver, Start, LoadCell, Loaded, Crash, Stop, Stopped, GoDown,
                SaverRests, FindCell, FindSpan, CountInSpan, CountInCell, BeginPurge, PurgeCell,
                FinishPurge, MarshalCell, MarshalSpan, CellDone, Insert, SaveFails, AfterFailure,
                Quiescent, vars, saverVars
  <2> QED
    BY <2>1 DEF SaveCovers
<1>2. CASE BeginSave
  <2>1. ASSUME NEW p \in Places, NEW h \in Hours, p \notin grid PROVE count[p][h] <= 0
    BY <2>1, CountNats DEF CountedInSpans
  <2>2. /\ saverPc' = "cells" /\ atStart' = count /\ count' = count /\ toMarshal' = grid
        /\ document' = EmptyDocument
    BY <1>2 DEF BeginSave, memoryVars
  <2> QED
    BY <2>1, <2>2, CountNats DEF SaveCovers
<1>3. CASE saverPc # "idle"
  <2>1. ASSUME NEW p \in Places, MarshalCell(p) PROVE SaveCovers'
    <3>1. /\ document'.count = document.count /\ saverPc' = "spans" /\ marshalling' = p
          /\ saverPc = "cells" /\ hoursLeft' = spans[p] /\ toMarshal' = toMarshal \ {p}
          /\ atStart' = atStart /\ count' = count
      BY <2>1, MarshalCellDocument DEF MarshalCell, SpansToSave, memoryVars
    <3>2. ASSUME NEW h \in Hours, h \notin spans[p] PROVE atStart[p][h] <= document.count[p][h]
      BY <1>3, <3>2, CountNats DEF CountedInSpans, SaveCovers
    <3> QED
      BY <1>3, <3>1, <3>2 DEF SaveCovers
  <2>2. ASSUME NEW h \in Hours, MarshalSpan(h) PROVE SaveCovers'
    <3>1. marshalling \in Places
      BY <2>2 DEF MarshalSpan, Phases
    <3>2. /\ saverPc = "spans" /\ saverPc' = saverPc /\ marshalling' = marshalling
          /\ hoursLeft' = hoursLeft \ {h} /\ toMarshal' = toMarshal
          /\ atStart' = atStart /\ count' = count
      BY <2>2 DEF MarshalSpan, memoryVars
    <3>3. ASSUME NEW q \in Places, NEW k \in Hours, atStart[q][k] <= document.count[q][k]
          PROVE  atStart[q][k] <= document'.count[q][k]
      BY <1>3, <2>2, <3>1, <3>3, DocumentAfterSpan DEF SaveCovers
    <3>4. atStart[marshalling][h] <= document'.count[marshalling][h]
      BY <1>3, <2>2, <3>1, DocumentAfterSpan DEF SaveCovers
    <3>5. ASSUME NEW q \in Places, NEW k \in Hours
          PROVE  \/ q \in toMarshal
                 \/ saverPc = "spans" /\ q = marshalling /\ k \in hoursLeft'
                 \/ atStart[q][k] <= document'.count[q][k]
      BY <1>3, <3>2, <3>3, <3>4 DEF SaveCovers
    <3> QED
      BY <1>3, <3>2, <3>5 DEF SaveCovers
  <2>3. CASE CellDone
    <3>1. /\ saverPc' = "cells" /\ hoursLeft = {} /\ toMarshal' = toMarshal
          /\ atStart' = atStart /\ count' = count
      BY <2>3 DEF CellDone, memoryVars
    <3>2. document'.count = document.count
      BY <2>3, CellDoneDocument DEF CellDone, Phases
    <3> QED
      BY <1>3, <3>1, <3>2 DEF SaveCovers
  <2>4. CASE Insert \/ SaveFails \/ Crash \/ Stopped
    BY <2>4 DEF Insert, SaveFails, Crash, Stopped, GoDown, SaverRests, AfterFailure, SaveCovers
  <2>5. CASE CountInSpan
    <3>1. place \in Places
      BY <2>5 DEF CountInSpan, Phases, TypeOK
    <3>2. \A p \in Places, h \in Hours : count[p][h] <= count'[p][h] /\ count'[p][h] \in Nat
      BY <2>5, <3>1, SignalCounts, CountNats
    <3>3. ASSUME NEW p \in Places, NEW h \in Hours PROVE atStart[p][h] <= count'[p][h]
      <4>1. atStart[p][h] <= count[p][h]
        BY <1>3 DEF SaveCovers
      <4> QED
        BY <3>2, <4>1, CountNats
    <3> QED
      BY <1>3, <2>5, <3>3 DEF CountInSpan, SaveCovers, saverVars
  <2>6. ASSUME NEW p \in Places, PurgeCell(p) PROVE SaveCovers'
    BY <2>6, SaveCoversPurge
  <2>7. ASSUME NEW p \in Places, NEW h \in Hours, FindCell(p, h) PROVE SaveCovers'
    BY <2>7, SaveCoversFind
  <2>8. CASE FindSpan
    BY <2>8 DEF FindSpan, SaveCovers
  <2>9. CASE count' = count /\ UNCHANGED saverVars
    BY <2>9 DEF SaveCovers, saverVars
  <2>10. ASSUME NEW p \in Places, LoadCell(p) PROVE FALSE
    BY <1>3, <2>10 DEF LoadCell, Phases
  <2>11. \/ \E p \in Places : MarshalCell(p)
         \/ \E h \in Hours : MarshalSpan(h)
         \/ CellDone \/ Insert \/ SaveFails \/ Crash \/ Stopped \/ CountInSpan \/ FindSpan
         \/ \E p \in Places : PurgeCell(p)
         \/ \E p \in Places, h \in Hours : FindCell(p, h)
         \/ \E p \in Places : LoadCell(p)
         \/ count' = count /\ UNCHANGED saverVars
    BY <1>3 DEF Next, Calculator, Purger, Saver, Start, Loaded, Stop, CountInCell, BeginPurge, FinishPurge,
                BeginSave, Quiescent, vars, memoryVars
  <2> QED
    BY <2>1, <2>2, <2>3, <2>4, <2>5, <2>6, <2>7, <2>8, <2>9, <2>10, <2>11
<1> QED
  BY <1>1, <1>2, <1>3

LEMMA InsertsAll == SaveCovers /\ PhasesType /\ [Next]_vars => [saved' # saved =>
                      \A p \in Places, h \in Hours : saved'.count[p][h] >= atStart[p][h]]_vars
<1> SUFFICES ASSUME SaveCovers, PhasesType, Next, saved' # saved,
                    NEW p \in Places, NEW h \in Hours
             PROVE  saved'.count[p][h] >= atStart[p][h]
  BY DEF vars
<1>1. Insert
  BY DEF Next, Calculator, Purger, Saver, Start, LoadCell, Loaded, Crash, Stop, Stopped, GoDown, FindCell,
         FindSpan, CountInSpan, CountInCell, BeginPurge, PurgeCell, FinishPurge, BeginSave, MarshalCell,
         MarshalSpan, CellDone, SaveFails, Quiescent, vars
<1>2. atStart[p][h] <= document.count[p][h] /\ saved' = document
  BY <1>1 DEF Insert, SaveCovers
<1> QED
  BY <1>2, CountNats DEF PhasesType

(* A document that is inserted lacks none of the signals that had been       *)
(* counted when its save began, but for those the Purger has removed since:  *)
(* cells and spans that appear or go while it is marshalled may be missed,   *)
(* the others are read late but read.                                       *)
THEOREM SavesAreRecent == Spec => SaveIsRecent
<1> DEFINE I == CountedInSpans /\ SaveCovers
<1>1. Init => I
  BY CountedInSpansInit, SaveCoversInit
<1>2. I /\ PhasesType /\ [Next]_vars => I'
  BY CountedInSpansStep, SaveCoversStep
<1>3. I /\ PhasesType /\ [Next]_vars =>
        [saved' # saved => \A p \in Places, h \in Hours : saved'.count[p][h] >= atStart[p][h]]_vars
  BY InsertsAll
<1> QED
  BY <1>1, <1>2, <1>3, PhasesAlways, PTL DEF Spec, SaveIsRecent
-----------------------------------------------------------------------------
(* A signal that is counted in its span and not yet in its cell.             *)
Pending(p) == IF calcPc = "total" /\ place = p THEN 1 ELSE 0

(* What the document will hold of a cell when it has been marshalled, if no   *)
(* signal is counted and none purged any more.                              *)
ToRead(p) == [h \in Hours |-> IF saverPc = "spans" /\ p = marshalling /\ h \in hoursLeft
                              THEN count[p][h] ELSE document.count[p][h]]
ToNote(p) == IF saverPc = "spans" /\ p = marshalling THEN purged[p] ELSE document.purged[p]

LiveTotals == \A p \in Places : total[p] + Pending(p) <= SumOf(count[p]) + purged[p]
DocumentTotals == \A p \in Places : document.total[p] <= SumOf(ToRead(p)) + ToNote(p)
SavedTotals == \A p \in Places : saved.total[p] <= SumOf(saved.count[p]) + saved.purged[p]
Totals == LiveTotals /\ DocumentTotals /\ SavedTotals

LEMMA TotalsInit == Init => Totals
<1> SUFFICES ASSUME Init PROVE Totals
  OBVIOUS
<1>1. \A p \in Places, h \in Hours : /\ count[p][h] = 0 /\ saved.count[p][h] = 0 /\ ToRead(p)[h] = 0
  BY DEF Init, NoSignals, EmptyDocument, ToRead
<1>2. \A p \in Places : /\ total[p] = 0 /\ saved.total[p] = 0 /\ document.total[p] = 0 /\ Pending(p) = 0
                        /\ purged[p] = 0 /\ saved.purged[p] = 0 /\ ToNote(p) = 0
  BY DEF Init, NoTotals, EmptyDocument, Pending, ToNote
<1> QED
  BY <1>1, <1>2, SumOfZero DEF Totals, LiveTotals, DocumentTotals, SavedTotals

LEMMA TotalsType ==
  ASSUME TypeOK
  PROVE  \A p \in Places : /\ total[p] \in Nat /\ document.total[p] \in Nat /\ saved.total[p] \in Nat
                           /\ purged[p] \in Nat /\ saved.purged[p] \in Nat /\ document.purged[p] \in Nat
                           /\ \A h \in Hours : ToRead(p)[h] \in Nat
                           /\ ToNote(p) \in Nat
<1>1. /\ total \in [Places -> Nat] /\ purged \in [Places -> Nat]
      /\ document \in DocumentType /\ saved \in DocumentType
  BY DEF TypeOK
<1> QED
  BY <1>1, CountNats DEF DocumentType, ToRead, ToNote

LEMMA LiveTotalsStep == LiveTotals /\ SavedTotals /\ PhasesType /\ [Next]_vars => LiveTotals'
<1> SUFFICES ASSUME LiveTotals, SavedTotals, TypeOK, Phases, [Next]_vars, NEW q \in Places
             PROVE  (total[q] + Pending(q) <= SumOf(count[q]) + purged[q])'
  BY DEF PhasesType, LiveTotals
<1>0. total \in [Places -> Nat] /\ count \in CountType /\ place \in Places \cup {NoPlace}
      /\ purged \in [Places -> Nat]
  BY DEF TypeOK
<1>1. \A p \in Places :
        /\ total[p] \in Nat /\ SumOf(count[p]) \in Int /\ SumOf(count[p]) >= 0 /\ purged[p] \in Nat
        /\ total[p] + Pending(p) <= SumOf(count[p]) + purged[p]
        /\ saved.total[p] \in Nat /\ SumOf(saved.count[p]) \in Int /\ saved.purged[p] \in Nat
        /\ saved.total[p] <= SumOf(saved.count[p]) + saved.purged[p]
  BY CountNats, TotalsType, SumOfInt DEF LiveTotals, SavedTotals
<1>2. ASSUME NEW p \in Places, LoadCell(p)
      PROVE  (total[q] + Pending(q) <= SumOf(count[q]) + purged[q])'
  <2> DEFINE t == Target(p)
  <2>1. Pending(q) = 0 /\ Pending(q)' = 0
    BY <1>2 DEF LoadCell, Phases, Pending, calcVars
  <2>2. /\ total' = [total EXCEPT ![t] = @ + saved.total[p]]
        /\ purged' = [purged EXCEPT ![t] = @ + saved.purged[p]]
    BY <1>2 DEF LoadCell
  <2>3. /\ \A r \in Places, h \in Hours :
             count'[r][h] = IF r = t THEN count[r][h] + saved.count[p][h] ELSE count[r][h]
        /\ \A r \in Places : r # t => count'[r] = count[r]
    BY <1>2, LoadCounts
  <2> HIDE DEF t
  <2>4. CASE q = t
    <3>1. SumOf(count'[q]) = SumOf(count[q]) + SumOf(saved.count[p])
      BY <2>3, <2>4, CountNats, SumOfBoth
    <3>2. total'[q] = total[q] + saved.total[p] /\ purged'[q] = purged[q] + saved.purged[p]
      BY <1>0, <2>2, <2>4
    <3> QED
      BY <1>1, <2>1, <3>1, <3>2
  <2>5. CASE q # t
    <3>1. count'[q] = count[q] /\ total'[q] = total[q] /\ purged'[q] = purged[q]
      BY <1>0, <2>2, <2>3, <2>5
    <3> QED
      BY <1>1, <2>1, <3>1
  <2> QED
    BY <2>4, <2>5
<1>3. CASE Crash \/ Stopped
  <2>1. GoDown
    BY <1>3 DEF Crash, Stopped
  <2>2. total'[q] = 0 /\ Pending(q)' = 0 /\ SumOf(count'[q]) = 0 /\ purged'[q] = 0
    BY <2>1, CountNats, SumOfZero DEF GoDown, Forget, NoTotals, Pending
  <2> QED
    BY <2>2
<1>4. CASE CountInSpan
  <2>1. place \in Places /\ total' = total /\ hour \in Hours /\ calcPc = "count" /\ calcPc' = "total"
        /\ place' = place
    BY <1>4 DEF CountInSpan, Phases, TypeOK
  <2>2. CASE q = place
    <3>1. Pending(q) = 0 /\ Pending(q)' = 1
      BY <2>1, <2>2 DEF Pending
    <3>2. CASE hour \in spans[place]
      <4>1. \A h \in Hours : count'[q][h] = IF h = hour THEN count[q][h] + 1 ELSE count[q][h]
        BY <1>4, <2>1, <2>2, <3>2, SignalCounts
      <4>2. SumOf(count'[q]) = SumOf(count[q]) + 1
        <5>1. \A h \in Hours : count[q][h] \in Nat /\ count'[q][h] \in Nat
          BY <2>1, <4>1, CountNats
        <5>2. count'[q][hour] = count[q][hour] + 1 /\ \A h \in Hours : h # hour => count'[q][h] = count[q][h]
          BY <2>1, <4>1
        <5> QED
          BY <2>1, <5>1, <5>2, SumOfOneMore
      <4>3. purged'[q] = purged[q]
        BY <1>4, <2>1, <2>2, <3>2, SignalCounts
      <4> QED
        BY <1>1, <2>1, <3>1, <4>2, <4>3
    <3>3. CASE hour \notin spans[place]
      <4>1. count' = count /\ purged'[q] = purged[q] + 1
        BY <1>0, <1>4, <2>1, <2>2, <3>3 DEF CountInSpan
      <4> QED
        BY <1>1, <2>1, <3>1, <4>1
    <3> QED
      BY <3>2, <3>3
  <2>3. CASE q # place
    <3>1. count'[q] = count[q] /\ purged'[q] = purged[q] /\ Pending(q)' = Pending(q)
      BY <1>4, <2>1, <2>3, SignalCounts DEF Pending
    <3> QED
      BY <1>1, <2>1, <3>1
  <2> QED
    BY <2>2, <2>3
<1>5. CASE CountInCell
  <2>1. place \in Places /\ count' = count /\ purged' = purged /\ calcPc = "total" /\ calcPc' = "idle"
    BY <1>5 DEF CountInCell, Phases, TypeOK
  <2>2. total'[q] = (IF q = place THEN total[q] + 1 ELSE total[q])
    BY <1>0, <1>5, <2>1 DEF CountInCell
  <2>3. Pending(q) = (IF q = place THEN 1 ELSE 0) /\ Pending(q)' = 0
    BY <2>1 DEF Pending
  <2> QED
    BY <1>1, <2>1, <2>2, <2>3
<1>6. CASE FindSpan
  <2>1. Pending(q) = 0 /\ Pending(q)' = 0 /\ total' = total /\ count' = count /\ purged' = purged
    BY <1>6 DEF FindSpan, Pending
  <2> QED
    BY <1>1, <2>1
<1>7. ASSUME NEW p \in Places, NEW h \in Hours, FindCell(p, h)
      PROVE  (total[q] + Pending(q) <= SumOf(count[q]) + purged[q])'
  <2>1. /\ Pending(q) = 0 /\ Pending(q)' = 0 /\ count' = count /\ purged' = purged
        /\ total' = total \/ total' = [total EXCEPT ![p] = 0]
    BY <1>7 DEF FindCell, Pending
  <2>2. total'[q] = total[q] \/ total'[q] = 0
    BY <1>0, <2>1
  <2> QED
    BY <1>1, <2>1, <2>2
<1>8. ASSUME NEW p \in Places, PurgeCell(p)
      PROVE  (total[q] + Pending(q) <= SumOf(count[q]) + purged[q])'
  <2>1. total' = total /\ Pending(q)' <= Pending(q) /\ Pending(q) \in Nat /\ Pending(q)' \in Nat
    BY <1>8 DEF PurgeCell, Pending, calcVars
  <2>2. SumOf(count'[q]) + purged'[q] = SumOf(count[q]) + purged[q]
    <3>1. CASE q = p
      <4>1. purged'[q] + SumOf(count'[q]) = purged[q] + SumOf(count[q])
        BY <1>8, <3>1, AfterPurge
      <4>2. SumOf(count'[q]) \in Int /\ purged'[q] \in Nat
        BY <1>8, AfterPurge, SumOfInt DEF CountType
      <4> QED
        BY <1>1, <4>1, <4>2
    <3>2. CASE q # p
      BY <1>8, <3>2, AfterPurge
    <3> QED
      BY <3>1, <3>2
  <2> QED
    BY <1>1, <2>1, <2>2
<1>9. CASE total' = total /\ count' = count /\ purged' = purged /\ UNCHANGED calcVars
  BY <1>1, <1>9 DEF Pending, calcVars
<1>10. \/ \E p \in Places : LoadCell(p)
       \/ Crash \/ Stopped \/ CountInSpan \/ CountInCell \/ FindSpan
       \/ \E p \in Places, h \in Hours : FindCell(p, h)
       \/ \E p \in Places : PurgeCell(p)
       \/ total' = total /\ count' = count /\ purged' = purged /\ UNCHANGED calcVars
  BY DEF Next, Calculator, Purger, Saver, Start, Loaded, Stop, BeginPurge, FinishPurge, BeginSave,
         MarshalCell, MarshalSpan, CellDone, Insert, SaveFails, Quiescent, vars, memoryVars
<1> QED
  BY <1>2, <1>3, <1>4, <1>5, <1>6, <1>7, <1>8, <1>9, <1>10

LEMMA SaverRestsTotals ==
  ASSUME TypeOK, NEW pc, SaverRests(pc), pc # "spans", NEW q \in Places
  PROVE  (document.total[q] <= SumOf(ToRead(q)) + ToNote(q))'
<1>1. /\ document'.total[q] = 0 /\ ToNote(q)' = 0
      /\ \A h \in Hours : ToRead(q)'[h] = 0
  BY CountNats DEF SaverRests, EmptyDocument, NoTotals, ToRead, ToNote
<1>2. SumOf(ToRead(q)') = 0
  BY <1>1, SumOfZero
<1> QED
  BY <1>1, <1>2

(* What is no longer read of a cell because its span is purged is no more    *)
(* than what is noted as purged.                                            *)
LEMMA PurgedIsNoted ==
  ASSUME TypeOK, NEW p \in Places, PurgeCell(p), saverPc = "spans", marshalling = p
  PROVE  SumOf(ToRead(p)) + purged[p] <= SumOf(ToRead(p)') + purged'[p]
<1> DEFINE r == ToRead(p)
           s == ToRead(p)'
           f == count[p]
           g == count'[p]
           u == [h \in Hours |-> r[h] + g[h]]
           v == [h \in Hours |-> s[h] + f[h]]
<1>1. \A h \in Hours : /\ f[h] \in Nat /\ g[h] = IF h \in Expired(p) THEN 0 ELSE f[h]
                       /\ r[h] = IF h \in hoursLeft THEN f[h] ELSE document.count[p][h]
                       /\ s[h] = IF h \in hoursLeft THEN g[h] ELSE document.count[p][h]
                       /\ document.count[p][h] \in Nat
  <2>1. saverPc' = saverPc /\ marshalling' = marshalling /\ hoursLeft' = hoursLeft /\ document' = document
    BY DEF PurgeCell
  <2> QED
    BY <2>1, CountNats, AfterPurge DEF ToRead
<1> HIDE DEF r, s, f, g
<1>2. \A h \in Hours : /\ r[h] \in Nat /\ s[h] \in Nat /\ f[h] \in Nat /\ g[h] \in Nat
                       /\ r[h] + g[h] <= s[h] + f[h]
  BY <1>1
<1>3. \A h \in Hours : u[h] = r[h] + g[h] /\ v[h] = s[h] + f[h]
  OBVIOUS
<1> HIDE DEF u, v
<1>4. \A h \in Hours : u[h] \in Nat /\ v[h] \in Nat /\ u[h] <= v[h]
  BY <1>2, <1>3
<1>5. SumOf(u) <= SumOf(v)
  BY <1>4, SumOfGrows
<1>6. SumOf(u) = SumOf(r) + SumOf(g)
  BY <1>2, <1>3, SumOfBoth
<1>7. SumOf(v) = SumOf(s) + SumOf(f)
  BY <1>2, <1>3, SumOfBoth
<1>8. SumOf(r) \in Int /\ SumOf(s) \in Int /\ SumOf(f) \in Int /\ SumOf(g) \in Int
  BY <1>2, SumOfInt
<1>9. purged'[p] + SumOf(g) = purged[p] + SumOf(f) /\ purged[p] \in Nat /\ purged'[p] \in Nat
  BY AfterPurge DEF TypeOK, f, g
<1>10. SumOf(r) + purged[p] <= SumOf(s) + purged'[p]
  BY <1>5, <1>6, <1>7, <1>8, <1>9
<1> QED
  BY <1>10 DEF r, s

LEMMA DocumentTotalsStep ==
  LiveTotals /\ DocumentTotals /\ CountedInSpans /\ PhasesType /\ [Next]_vars => DocumentTotals'
<1> SUFFICES ASSUME LiveTotals, DocumentTotals, CountedInSpans, TypeOK, Phases, [Next]_vars,
                    NEW q \in Places
             PROVE  (document.total[q] <= SumOf(ToRead(q)) + ToNote(q))'
  BY DEF PhasesType, DocumentTotals
<1>0. document \in DocumentType /\ total \in [Places -> Nat] /\ count \in CountType
  BY DEF TypeOK
<1>1. /\ document.total[q] \in Nat /\ SumOf(ToRead(q)) \in Int /\ ToNote(q) \in Nat
      /\ document.total[q] <= SumOf(ToRead(q)) + ToNote(q)
      /\ \A h \in Hours : ToRead(q)[h] \in Nat
  BY TotalsType, SumOfInt DEF DocumentTotals
(* A step after which no less is read and noted than before.                *)
<1>2. ASSUME document'.total[q] = document.total[q], ToNote(q)' \in Nat, ToNote(q) <= ToNote(q)',
             \A h \in Hours : ToRead(q)'[h] \in Nat /\ ToRead(q)[h] <= ToRead(q)'[h]
      PROVE  (document.total[q] <= SumOf(ToRead(q)) + ToNote(q))'
  <2>1. SumOf(ToRead(q)) <= SumOf(ToRead(q)')
    BY <1>1, <1>2, SumOfGrows
  <2>2. SumOf(ToRead(q)') \in Int
    BY <1>2, SumOfInt
  <2> QED
    BY <1>1, <1>2, <2>1, <2>2
<1>s. ASSUME document'.total[q] = document.total[q], ToNote(q)' = ToNote(q),
             \A h \in Hours : ToRead(q)'[h] = ToRead(q)[h]
      PROVE  (document.total[q] <= SumOf(ToRead(q)) + ToNote(q))'
  BY <1>1, <1>2, <1>s
<1>3. ASSUME NEW p \in Places, MarshalCell(p)
      PROVE  (document.total[q] <= SumOf(ToRead(q)) + ToNote(q))'
  <2>1. /\ document'.total = [document.total EXCEPT ![p] = total[p]] /\ document'.count = document.count
        /\ document'.purged = document.purged
        /\ saverPc = "cells" /\ saverPc' = "spans" /\ marshalling' = p /\ hoursLeft' = spans[p]
        /\ count' = count /\ purged' = purged
    BY <1>3, MarshalCellDocument DEF MarshalCell, SpansToSave, memoryVars
  <2>2. CASE q = p
    <3>1. document'.total[q] = total[q] /\ ToNote(q)' = purged[q]
      BY <1>0, <2>1, <2>2 DEF DocumentType, ToNote
    <3>2. \A h \in Hours : ToRead(q)'[h] = IF h \in spans[q] THEN count[q][h] ELSE document.count[q][h]
      BY <2>1, <2>2 DEF ToRead
    <3>3. ASSUME NEW h \in Hours PROVE ToRead(q)'[h] \in Nat /\ count[q][h] <= ToRead(q)'[h]
      BY <3>2, CountNats DEF CountedInSpans
    <3>4. SumOf(count[q]) <= SumOf(ToRead(q)')
      BY <3>3, CountNats, SumOfGrows
    <3>5. total[q] + Pending(q) <= SumOf(count[q]) + purged[q] /\ Pending(q) \in Nat
      BY DEF LiveTotals, Pending
    <3>6. total[q] \in Nat /\ SumOf(count[q]) \in Int /\ SumOf(ToRead(q)') \in Int /\ purged[q] \in Nat
      BY <1>0, <3>3, CountNats, TotalsType, SumOfInt
    <3> QED
      BY <3>1, <3>4, <3>5, <3>6
  <2>3. CASE q # p
    <3>1. document'.total[q] = document.total[q] /\ \A h \in Hours : ToRead(q)'[h] = ToRead(q)[h]
      BY <1>0, <2>1, <2>3 DEF DocumentType, ToRead
    <3>2. ToNote(q)' = ToNote(q)
      BY <2>1, <2>3 DEF ToNote
    <3> QED
      BY <1>s, <3>1, <3>2
  <2> QED
    BY <2>2, <2>3
<1>4. ASSUME NEW k \in Hours, MarshalSpan(k)
      PROVE  (document.total[q] <= SumOf(ToRead(q)) + ToNote(q))'
  <2>1. marshalling \in Places
    BY <1>4 DEF MarshalSpan, Phases
  <2>2. /\ document'.total = document.total /\ document'.purged = document.purged
        /\ saverPc = "spans" /\ saverPc' = saverPc
        /\ marshalling' = marshalling /\ hoursLeft' = hoursLeft \ {k} /\ k \in hoursLeft
        /\ count' = count /\ purged' = purged
    BY <1>4, <2>1, MarshalSpanDocument DEF MarshalSpan, memoryVars
  <2>3. \A h \in Hours : ToRead(q)'[h] = ToRead(q)[h]
    BY <1>4, <2>1, <2>2, DocumentAfterSpan DEF ToRead
  <2>4. ToNote(q)' = ToNote(q)
    BY <2>2 DEF ToNote
  <2> QED
    BY <1>s, <2>2, <2>3, <2>4
<1>5. CASE CellDone
  <2>1. /\ marshalling \in Places /\ hoursLeft = {} /\ saverPc = "spans" /\ saverPc' = "cells"
    BY <1>5 DEF CellDone, Phases
  <2>2. /\ document'.total = document.total /\ document'.count = document.count
        /\ document'.purged[q] = IF q = marshalling THEN purged[q] ELSE document.purged[q]
    BY <1>5, <2>1, CellDoneDocument
  <2>3. \A h \in Hours : ToRead(q)'[h] = ToRead(q)[h]
    BY <2>1, <2>2 DEF ToRead
  <2>4. ToNote(q)' = ToNote(q)
    BY <2>1, <2>2 DEF ToNote
  <2> QED
    BY <1>s, <2>2, <2>3, <2>4
<1>6. CASE Insert \/ SaveFails \/ Crash \/ Stopped
  <2>1. SaverRests("idle")
    BY <1>6 DEF Insert, SaveFails, AfterFailure, Crash, Stopped, GoDown
  <2> QED
    BY <2>1, SaverRestsTotals
<1>7. CASE BeginSave
  <2>1. /\ saverPc' = "cells" /\ document' = EmptyDocument
    BY <1>7 DEF BeginSave
  <2>2. /\ document'.total[q] = 0 /\ ToNote(q)' = 0
        /\ \A h \in Hours : ToRead(q)'[h] = 0
    BY <2>1, CountNats DEF EmptyDocument, NoTotals, ToRead, ToNote
  <2>3. SumOf(ToRead(q)') = 0
    BY <2>2, SumOfZero
  <2> QED
    BY <2>2, <2>3
<1>8. CASE CountInSpan
  <2>1. place \in Places /\ UNCHANGED saverVars
    BY <1>8 DEF CountInSpan, Phases, TypeOK
  <2>2. \A h \in Hours : count[q][h] <= count'[q][h] /\ count'[q][h] \in Nat
    BY <1>8, <2>1, SignalCounts, CountNats
  <2>3. purged'[q] \in {purged[q], purged[q] + 1}
    BY <1>8, <2>1, SignalCounts
  <2>4. \A h \in Hours : ToRead(q)'[h] \in Nat /\ ToRead(q)[h] <= ToRead(q)'[h]
    BY <2>1, <2>2, CountNats DEF ToRead, saverVars
  <2>5. ToNote(q)' \in Nat /\ ToNote(q) <= ToNote(q)'
    BY <2>1, <2>3, TotalsType DEF ToNote, saverVars
  <2> QED
    BY <1>2, <2>1, <2>4, <2>5 DEF saverVars
<1>9. ASSUME NEW p \in Places, LoadCell(p)
      PROVE  (document.total[q] <= SumOf(ToRead(q)) + ToNote(q))'
  <2>1. saverPc = "idle" /\ saverPc' = "idle" /\ document' = document
    BY <1>9 DEF saverVars, LoadCell, Phases
  <2>2. ToNote(q)' = ToNote(q) /\ \A h \in Hours : ToRead(q)'[h] = ToRead(q)[h]
    BY <2>1 DEF ToRead, ToNote
  <2> QED
    BY <1>s, <2>1, <2>2
<1>10. ASSUME saverPc' = saverPc, marshalling' = marshalling, hoursLeft' = hoursLeft,
              document' = document, count' = count, purged' = purged
       PROVE  (document.total[q] <= SumOf(ToRead(q)) + ToNote(q))'
  <2>1. ToNote(q)' = ToNote(q) /\ \A h \in Hours : ToRead(q)'[h] = ToRead(q)[h]
    BY <1>10 DEF ToRead, ToNote
  <2> QED
    BY <1>s, <1>10, <2>1
<1>11. ASSUME NEW p \in Places, PurgeCell(p)
       PROVE  (document.total[q] <= SumOf(ToRead(q)) + ToNote(q))'
  <2>1. saverPc' = saverPc /\ marshalling' = marshalling /\ hoursLeft' = hoursLeft /\ document' = document
    BY <1>11 DEF PurgeCell
  <2>2. CASE saverPc = "spans" /\ marshalling = p /\ q = p
    <3>1. ToNote(q) = purged[q] /\ ToNote(q)' = purged'[q]
      BY <2>1, <2>2 DEF ToNote
    <3>2. SumOf(ToRead(q)) + purged[q] <= SumOf(ToRead(q)') + purged'[q]
      BY <1>11, <2>2, PurgedIsNoted
    <3>3. \A h \in Hours : ToRead(q)'[h] \in Nat
      BY <1>11, <2>1, AfterPurge, CountNats DEF ToRead
    <3>4. SumOf(ToRead(q)') \in Int /\ purged'[q] \in Nat
      BY <1>11, <3>3, SumOfInt, AfterPurge
    <3> QED
      BY <1>1, <2>1, <3>1, <3>2, <3>4
  <2>3. CASE ~(saverPc = "spans" /\ marshalling = p /\ q = p)
    <3>1. \A h \in Hours : ToRead(q)'[h] = ToRead(q)[h]
      BY <1>11, <2>1, <2>3, AfterPurge DEF ToRead
    <3>2. ToNote(q)' = ToNote(q)
      BY <1>11, <2>1, <2>3, AfterPurge DEF ToNote
    <3> QED
      BY <1>s, <2>1, <3>1, <3>2
  <2> QED
    BY <2>2, <2>3
<1>12. CASE FindSpan
  BY <1>10, <1>12 DEF FindSpan
<1>13. ASSUME NEW p \in Places, NEW h \in Hours, FindCell(p, h)
       PROVE  (document.total[q] <= SumOf(ToRead(q)) + ToNote(q))'
  BY <1>10, <1>13 DEF FindCell
<1>14. CASE Start \/ Loaded \/ Stop \/ CountInCell \/ FinishPurge \/ \E t \in Hours : BeginPurge(t)
  BY <1>10, <1>14 DEF Start, Loaded, Stop, CountInCell, FinishPurge, BeginPurge, memoryVars, saverVars
<1>15. CASE UNCHANGED vars
  BY <1>10, <1>15 DEF vars, memoryVars, saverVars
<1> QED
  BY <1>3, <1>4, <1>5, <1>6, <1>7, <1>8, <1>9, <1>11, <1>12, <1>13, <1>14, <1>15
     DEF Next, Calculator, Purger, Saver, Quiescent

LEMMA SavedTotalsStep == DocumentTotals /\ SavedTotals /\ PhasesType /\ [Next]_vars => SavedTotals'
<1> SUFFICES ASSUME DocumentTotals, SavedTotals, TypeOK, [Next]_vars PROVE SavedTotals'
  BY DEF PhasesType
<1>1. CASE saved' = saved
  BY <1>1 DEF SavedTotals
<1>2. CASE Insert
  <2>1. document \in DocumentType /\ saverPc = "cells" /\ saved' = document
    BY <1>2 DEF Insert, TypeOK
  <2>2. ASSUME NEW p \in Places PROVE ToRead(p) = document.count[p] /\ ToNote(p) = document.purged[p]
    BY <2>1 DEF ToRead, ToNote, DocumentType, CountType
  <2> QED
    BY <2>1, <2>2 DEF SavedTotals, DocumentTotals
<1>3. saved' = saved \/ Insert
  BY DEF Next, Calculator, Purger, Saver, Start, LoadCell, Loaded, Crash, Stop, Stopped, GoDown, FindCell,
         FindSpan, CountInSpan, CountInCell, BeginPurge, PurgeCell, FinishPurge, BeginSave, MarshalCell,
         MarshalSpan, CellDone, SaveFails, Quiescent, vars
<1> QED
  BY <1>1, <1>2, <1>3

(* A cell's own counter exceeds the sum of its time spans' counters by no    *)
(* more than what the Purger has removed from it, in memory, in the document *)
(* and after any number of restarts: the calculator increments the span      *)
(* first, the marshaller reads the cell first.  The sums are those of any    *)
(* number of hours.                                                         *)
THEOREM TotalsAreWithinSpans == Spec => []TotalWithinSpans
<1> DEFINE I == Totals /\ CountedInSpans
<1>1. Init => I
  BY TotalsInit, CountedInSpansInit
<1>2. I /\ PhasesType /\ [Next]_vars => I'
  BY LiveTotalsStep, DocumentTotalsStep, SavedTotalsStep, CountedInSpansStep DEF Totals
<1>3. I /\ PhasesType => TotalWithinSpans
  <2> SUFFICES ASSUME Totals, TypeOK
               PROVE  /\ \A p \in grid : total[p] <= SumOf(count[p]) + purged[p]
                      /\ \A p \in saved.cells : saved.total[p] <= SumOf(saved.count[p]) + saved.purged[p]
    BY DEF TotalWithinSpans, PhasesType
  <2>1. ASSUME NEW p \in Places PROVE total[p] <= SumOf(count[p]) + purged[p]
    <3>1. total[p] \in Nat /\ SumOf(count[p]) \in Int /\ purged[p] \in Nat /\ Pending(p) \in Nat
      BY CountNats, TotalsType, SumOfInt DEF Pending
    <3>2. total[p] + Pending(p) <= SumOf(count[p]) + purged[p]
      BY DEF Totals, LiveTotals
    <3> QED
      BY <3>1, <3>2
  <2>2. grid \subseteq Places /\ saved.cells \subseteq Places
    BY DEF TypeOK, DocumentType
  <2> QED
    BY <2>1, <2>2 DEF Totals, SavedTotals
<1> QED
  BY <1>1, <1>2, <1>3, PhasesAlways, PTL DEF Spec
=============================================================================
