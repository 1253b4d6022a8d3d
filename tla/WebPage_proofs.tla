--------------------------- MODULE WebPage_proofs ---------------------------
(***************************************************************************)
(* Proofs about the web page: CoverageClient and SlidingWindow, for any     *)
(* sources, views, windows and positions of the sliders, any mouse          *)
(* movements and any order of answers; and the pictures that the page takes *)
(* of itself, ImagePreload and Screenshot, for any images and options.      *)
(***************************************************************************)
EXTENDS SlidingWindow, Screenshot, SumTheorems, FiniteSetTheorems, TLAPS

(***************************************************************************)
(* CoverageClient.  That the page agrees with its settings when it is at    *)
(* rest rests on LastRequestAgrees: it follows the last request from its    *)
(* making to its picture, and says which settings it may lag behind, and    *)
(* which flag then knows.                                                   *)
(***************************************************************************)

(* The steps by the settings they may change: all that is not named stays.  *)
LEMMA StepCases ==
  ASSUME Next
  PROVE  \/ Poll
         \/ \E r \in inflight : CoverageAnswered(r) \/ CoverageFails(r)
         \/ SourcesAnswered \/ StatusAnswered
         \/ \E s \in Sources : SelectSource(s) \/ ToggleSource(s)
         \/ SelectCell \/ ClickHeader \/ SlidUp
         \/ ToggleSelectAll \/ SwitchCategory
         \/ \E v \in Views : MoveMap(v)
         \/ \E slider \in {"thresholds", "filter", "export"} : GrabSlider(slider)
         \/ selected # NoInterval /\ GrabSlider("window")
         \/ \E range \in RangesOf[category] : SlideThresholds(range)
         \/ \E position \in FilterPositions : SlideFilter(position)
         \/ \E position \in ExportPositions : SlideExport(position)
         \/ \E interval \in Intervals : SlideWindow(interval)
         \/ DropSlider
  BY DEF Next, Answer, Select, Choose, Slide, MoveWindow

(***************************************************************************)
(* Types                                                                    *)
(***************************************************************************)

LEMMA RangeTypes ==
  /\ \A c \in Categories : RangesOf[c] \subseteq Ranges
  /\ VdmScheme \in Schemes /\ VsiScheme \in Schemes
<1> USE ClientAssumption
<1>1. \A c \in Categories : RangesOf[c] \subseteq Ranges
  BY DEF Ranges
<1>2. <<20, 50>> \in Ranges /\ <<-107, -101>> \in Ranges
  BY <1>1 DEF Categories
<1>3. VdmScheme = [VdmScheme EXCEPT !.range = <<20, 50>>]
  BY DEF VdmScheme
<1>4. VsiScheme = [VsiScheme EXCEPT !.range = <<-107, -101>>]
  BY DEF VsiScheme
<1> QED
  BY <1>1, <1>2, <1>3, <1>4 DEF Schemes

LEMMA DefaultIntervalType == DefaultInterval \in Intervals
  BY ClientAssumption DEF DefaultInterval, Intervals

LEMMA FactorType == \A zoom \in Zooms : MultiplicationFactor(zoom) \in Nat
<1> SUFFICES ASSUME NEW zoom \in Zooms PROVE MultiplicationFactor(zoom) \in Nat
  OBVIOUS
<1>1. zoom \in Nat \ {0}
  BY ClientAssumption
<1> QED
  BY <1>1 DEF MultiplicationFactor

LEMMA InitType == Init => TypeOK
<1> SUFFICES ASSUME Init PROVE TypeOK
  OBVIOUS
<1> USE ClientAssumption
<1>1. view \in Views
  <2>1. PICK z \in {{}} \cup {{z} : z \in Zooms}, p \in {{}} \cup {{p} : p \in Places} :
          view = LoadView(z, p)
    BY DEF Init, MapInit
  <2>2. (IF z = {} THEN InitialZoom ELSE CHOOSE y \in z : TRUE) \in Zooms
    OBVIOUS
  <2>3. (IF p = {} THEN InitialPlace ELSE CHOOSE y \in p : TRUE) \in Places
    OBVIOUS
  <2> QED
    BY <2>1, <2>2, <2>3 DEF LoadView, Views
<1>2. markers \in [enabled : SUBSET Sources, selected : SUBSET Sources]
  BY DEF Init
<1>3. filter \in Filters /\ category \in Categories /\ scheme \in Schemes /\ saved \in Schemes
  BY RangeTypes DEF Init, Filters, Categories
<1>4. formFactor \in Nat /\ gestures \in 0 .. MaxGestures /\ sent \in Nat
  BY DEF Init, MapInit
<1>5. /\ known \in BOOLEAN /\ canUpdate \in BOOLEAN /\ selectAll \in BOOLEAN /\ changed \in BOOLEAN
      /\ loading \in BOOLEAN /\ unannounced \in BOOLEAN
  BY Zenon DEF Init, MapInit
<1>6. selected \in Intervals \cup {NoInterval} /\ enabled \subseteq Sources
  BY DEF Init
<1>7. inflight \subseteq Request /\ picture \subseteq Pictures /\ selectedSource \subseteq Sources
  BY DEF Init
<1>8. /\ details \in {"none", "source"} \cup Categories /\ panel \in {"closed", "open", "closing"}
      /\ loop \in {"waiting", "dead"}
      /\ drag \in {"none", "thresholds", "filter", "export", "window"}
  BY DEF Init
<1> QED
  BY <1>1, <1>2, <1>3, <1>4, <1>5, <1>6, <1>7, <1>8 DEF TypeOK

LEMMA DrawCoverageType ==
  ASSUME TypeOK, NEW v \in Views, DrawCoverage(v)
  PROVE  /\ loading' \in BOOLEAN /\ unannounced' \in BOOLEAN
         /\ inflight' \subseteq Request /\ sent' \in Nat /\ picture' \subseteq Pictures
<1>1. selected # NoInterval => NewRequest(v) \in Request
  BY DEF TypeOK, NewRequest, Request
<1>2. NotAborted \subseteq inflight
  BY DEF NotAborted
<1>3. inflight' \subseteq Request
  <2>1. CASE selected = NoInterval
    BY <2>1 DEF TypeOK, DrawCoverage
  <2>2. CASE selected # NoInterval
    <3>1. inflight' = NotAborted \cup {NewRequest(v)}
      BY <2>2 DEF DrawCoverage
    <3>2. inflight \subseteq Request
      BY DEF TypeOK
    <3> QED
      BY <1>1, <1>2, <2>2, <3>1, <3>2
  <2> QED
    BY <2>1, <2>2
<1>4. picture' \subseteq Pictures
  BY DEF TypeOK, DrawCoverage, requestVars
<1>5. loading' \in BOOLEAN /\ unannounced' \in BOOLEAN
  BY Zenon DEF TypeOK, DrawCoverage
<1>6. sent' \in Nat
  BY DEF TypeOK, DrawCoverage
<1> QED
  BY <1>3, <1>4, <1>5, <1>6

LEMMA StepType == TypeOK /\ [Next]_vars => TypeOK'
<1> SUFFICES ASSUME TypeOK, [Next]_vars PROVE TypeOK'
  OBVIOUS
<1> USE DEF mapVars, windowVars, sourceVars, schemeVars, panelVars, requestVars, userVars
<1>1. CASE Poll
  <2>1. DrawCoverage(view) /\ view \in Views
    BY <1>1 DEF Poll, TypeOK
  <2> QED
    BY <1>1, <2>1, DrawCoverageType DEF Poll, TypeOK
<1>2. ASSUME NEW r \in inflight, CoverageAnswered(r) PROVE TypeOK'
  <2>1. [request |-> r, category |-> category, scheme |-> scheme, filter |-> filter] \in Pictures
    BY DEF TypeOK, Pictures
  <2>2. picture' \subseteq Pictures
    BY <1>2, <2>1 DEF CoverageAnswered
  <2>3. inflight' \subseteq Request
    BY <1>2 DEF CoverageAnswered, TypeOK
  <2>4. /\ loading' \in BOOLEAN
        /\ UNCHANGED <<mapVars, windowVars, sourceVars, schemeVars, panelVars, userVars, changed,
                       loop, sent, unannounced>>
    BY <1>2, Zenon DEF CoverageAnswered
  <2> QED
    BY <2>2, <2>3, <2>4 DEF TypeOK
<1>3. ASSUME NEW r \in inflight, CoverageFails(r) PROVE TypeOK'
  BY <1>3 DEF CoverageFails, TypeOK
<1>4. CASE SourcesAnswered
  BY <1>4 DEF SourcesAnswered, DrawSources, TypeOK
<1>5. CASE StatusAnswered
  BY <1>5, DefaultIntervalType DEF StatusAnswered, TypeOK
<1> HIDE DEF mapVars, windowVars, sourceVars, schemeVars, panelVars, requestVars, userVars
<1>6. ASSUME Gesture PROVE gestures' \in 0 .. MaxGestures
  BY <1>6, ClientAssumption DEF Gesture, TypeOK
<1> USE DEF mapVars, windowVars, sourceVars, schemeVars, panelVars, requestVars
<1>7. ASSUME NEW s \in Sources, SelectSource(s) PROVE TypeOK'
  <2>1. gestures' \in 0 .. MaxGestures
    BY <1>6, <1>7 DEF SelectSource
  <2> QED
    BY <1>7, <2>1 DEF SelectSource, SlideDown, DrawSources, TypeOK
<1>8. ASSUME NEW s \in Sources, ToggleSource(s) PROVE TypeOK'
  <2>1. gestures' \in 0 .. MaxGestures
    BY <1>6, <1>8 DEF ToggleSource
  <2> QED
    BY <1>8, <2>1 DEF ToggleSource, RefreshSourceDetails, DrawSources, TypeOK
<1>9. CASE SelectCell
  <2>1. gestures' \in 0 .. MaxGestures
    BY <1>6, <1>9 DEF SelectCell
  <2> QED
    BY <1>9, <2>1 DEF SelectCell, SlideDown, DrawSources, TypeOK
<1>10. CASE ClickHeader
  <2>1. gestures' \in 0 .. MaxGestures
    BY <1>6, <1>10 DEF ClickHeader
  <2> QED
    BY <1>10, <2>1 DEF ClickHeader, SlideDown, SlideUp, TypeOK
<1>11. CASE SlidUp
  BY <1>11 DEF SlidUp, userVars, TypeOK
<1>12. CASE ToggleSelectAll
  <2>1. gestures' \in 0 .. MaxGestures
    BY <1>6, <1>12 DEF ToggleSelectAll
  <2> QED
    BY <1>12, <2>1 DEF ToggleSelectAll, RefreshSourceDetails, DrawSources, TypeOK
<1>13. CASE SwitchCategory
  <2>1. gestures' \in 0 .. MaxGestures
    BY <1>6, <1>13 DEF SwitchCategory
  <2> QED
    BY <1>13, <2>1 DEF SwitchCategory, CleanupCellDetails, SlideUp, TypeOK
<1>14. ASSUME NEW v \in Views, MoveMap(v) PROVE TypeOK'
  <2>1. gestures' \in 0 .. MaxGestures
    BY <1>6, <1>14 DEF MoveMap
  <2>2. MultiplicationFactor(v.zoom) \in Nat
    BY FactorType DEF Views
  <2>3. DrawCoverage(v)
    BY <1>14 DEF MoveMap
  <2> QED
    BY <1>14, <2>1, <2>2, <2>3, DrawCoverageType DEF MoveMap, TypeOK
<1>15. ASSUME NEW slider \in {"thresholds", "filter", "export", "window"}, GrabSlider(slider)
       PROVE  TypeOK'
  <2>1. gestures' \in 0 .. MaxGestures
    BY <1>6, <1>15 DEF GrabSlider
  <2> QED
    BY <1>15, <2>1 DEF GrabSlider, TypeOK
<1> USE DEF userVars
<1>16. ASSUME NEW range \in RangesOf[category], SlideThresholds(range) PROVE TypeOK'
  <2>1. range \in Ranges
    BY RangeTypes DEF TypeOK
  <2>2. PICK r \in {VdmScheme, VsiScheme}, old \in Ranges : scheme = [r EXCEPT !.range = old]
    BY DEF TypeOK, Schemes
  <2>3. scheme' = [r EXCEPT !.range = range]
    BY <1>16, <2>2 DEF SlideThresholds, VdmScheme, VsiScheme
  <2>4. scheme' \in Schemes
    BY <2>1, <2>3 DEF Schemes
  <2> QED
    BY <1>16, <2>4 DEF SlideThresholds, TypeOK
<1>17. ASSUME NEW position \in FilterPositions, SlideFilter(position) PROVE TypeOK'
  BY <1>17 DEF SlideFilter, Filters, TypeOK
<1>18. ASSUME NEW position \in ExportPositions, SlideExport(position) PROVE TypeOK'
  BY <1>18, ClientAssumption DEF SlideExport, Filters, TypeOK
<1>19. ASSUME NEW interval \in Intervals, SlideWindow(interval) PROVE TypeOK'
  BY <1>19 DEF SlideWindow, TypeOK
<1>20. CASE DropSlider
  BY <1>20 DEF DropSlider, TypeOK
<1>21. CASE UNCHANGED vars
  BY <1>21 DEF vars, TypeOK
<1> QED
  <2>1. CASE Next
    BY <2>1, StepCases, <1>1, <1>2, <1>3, <1>4, <1>5, <1>7, <1>8, <1>9, <1>10, <1>11, <1>12,
       <1>13, <1>14, <1>15, <1>16, <1>17, <1>18, <1>19, <1>20
  <2> QED
    BY <2>1, <1>21

(* Every variable of the page keeps its type: in particular the selected     *)
(* dates are an hour apart, and thresholds are positions of their slider.    *)
THEOREM TypeCorrect == Spec => []TypeOK
<1>1. Init => TypeOK
  BY InitType
<1>2. TypeOK /\ [Next]_vars => TypeOK'
  BY StepType
<1> QED
  BY <1>1, <1>2, PTL DEF Spec

(***************************************************************************)
(* The display                                                              *)
(***************************************************************************)

LEMMA DisplayInit == Init => DisplayAgrees
<1> SUFFICES ASSUME Init PROVE DisplayAgrees
  OBVIOUS
<1>1. VdmScheme = [VdmScheme EXCEPT !.range = <<20, 50>>]
  BY DEF VdmScheme
<1>2. VsiScheme = [VsiScheme EXCEPT !.range = <<-107, -101>>]
  BY DEF VsiScheme
<1>3. category = "VDM" /\ scheme = VdmScheme /\ saved = VsiScheme
  BY DEF Init
<1>4. \E range \in RangesOf[category] : scheme = [SchemeOf(category) EXCEPT !.range = range]
  BY <1>1, <1>3, ClientAssumption DEF SchemeOf
<1>5. \A other \in Categories \ {category} :
        \E range \in RangesOf[other] : saved = [SchemeOf(other) EXCEPT !.range = range]
  BY <1>2, <1>3, ClientAssumption DEF SchemeOf, Categories
<1>6. markers = [enabled |-> enabled, selected |-> selectedSource]
  BY DEF Init
<1>7. details = "none" /\ panel = "closed"
  BY DEF Init
<1> QED
  BY <1>4, <1>5, <1>6, <1>7 DEF DisplayAgrees, SchemesAgree, PanelAgrees, MarkersAgree, Categories

LEMMA SchemesStep == TypeOK /\ SchemesAgree /\ [Next]_vars => SchemesAgree'
<1> SUFFICES ASSUME TypeOK, SchemesAgree, [Next]_vars PROVE SchemesAgree'
  OBVIOUS
<1>1. CASE SwitchCategory
  <2>1. /\ category \in Categories /\ category' \in Categories \ {category}
        /\ scheme' = saved /\ saved' = scheme
    BY <1>1 DEF SwitchCategory, TypeOK
  <2>2. \A other \in Categories \ {category'} : other = category
    BY <2>1 DEF Categories
  <2> QED
    BY <2>1, <2>2 DEF SchemesAgree
<1>2. ASSUME NEW range \in RangesOf[category], SlideThresholds(range) PROVE SchemesAgree'
  <2>1. PICK old \in RangesOf[category] : scheme = [SchemeOf(category) EXCEPT !.range = old]
    BY DEF SchemesAgree
  <2>2. /\ scheme' = [scheme EXCEPT !.range = range]
        /\ category' = category /\ saved' = saved
    BY <1>2 DEF SlideThresholds
  <2>3. scheme' = [SchemeOf(category) EXCEPT !.range = range]
    BY <2>1, <2>2 DEF SchemeOf, VdmScheme, VsiScheme
  <2> QED
    BY <2>2, <2>3 DEF SchemesAgree
<1>3. CASE UNCHANGED <<category, scheme, saved>>
  BY <1>3 DEF SchemesAgree
<1> QED
  <2>1. CASE UNCHANGED vars
    BY <1>3, <2>1 DEF vars, schemeVars
  <2>2. CASE Next
    BY <2>2, StepCases, <1>1, <1>2, <1>3
    DEF Poll, CoverageAnswered, CoverageFails, SourcesAnswered, StatusAnswered, SelectSource,
        ToggleSource, SelectCell, ClickHeader, SlidUp, ToggleSelectAll, MoveMap, GrabSlider,
        SlideFilter, SlideExport, SlideWindow, DropSlider, schemeVars
  <2> QED
    BY <2>1, <2>2

LEMMA PanelStep == TypeOK /\ PanelAgrees /\ [Next]_vars => PanelAgrees'
<1> SUFFICES ASSUME TypeOK, PanelAgrees, [Next]_vars PROVE PanelAgrees'
  OBVIOUS
<1> USE DEF PanelAgrees
<1>1. ASSUME NEW s \in Sources, SelectSource(s) PROVE PanelAgrees'
  BY <1>1 DEF SelectSource, SlideDown, Categories
<1>2. CASE SelectCell
  <2>1. category # "none" /\ category # "source"
    BY DEF TypeOK, Categories
  <2>2. details' = category /\ category' = category
    BY <1>2 DEF SelectCell, schemeVars
  <2> QED
    BY <2>1, <2>2
<1>3. CASE ClickHeader
  <2>1. UNCHANGED <<details, selectedSource, category>>
    BY <1>3 DEF ClickHeader, schemeVars
  <2>2. panel' = "open" => details # "none"
    BY <1>3 DEF ClickHeader, SlideDown, SlideUp
  <2> QED
    BY <2>1, <2>2
<1>4. CASE SlidUp
  BY <1>4 DEF SlidUp, schemeVars
<1>5. ASSUME RefreshSourceDetails, UNCHANGED <<selectedSource, panel, category>>
      PROVE  PanelAgrees'
  BY <1>5 DEF RefreshSourceDetails, Categories
<1>6. CASE SwitchCategory
  BY <1>6 DEF SwitchCategory, CleanupCellDetails, SlideUp, Categories
<1>7. CASE UNCHANGED <<category, panelVars>>
  BY <1>7 DEF panelVars
<1> HIDE DEF PanelAgrees
<1> QED
  <2>1. CASE UNCHANGED vars
    BY <1>7, <2>1 DEF vars, schemeVars
  <2>2. CASE \E s \in Sources : ToggleSource(s)
    BY <2>2, <1>5 DEF ToggleSource, schemeVars
  <2>3. CASE ToggleSelectAll
    BY <2>3, <1>5 DEF ToggleSelectAll, schemeVars
  <2>4. CASE Next
    BY <2>2, <2>3, <2>4, StepCases, <1>1, <1>2, <1>3, <1>4, <1>6, <1>7
    DEF Poll, CoverageAnswered, CoverageFails, SourcesAnswered, StatusAnswered, MoveMap, GrabSlider,
        SlideThresholds, SlideFilter, SlideExport, SlideWindow, DropSlider, schemeVars
  <2> QED
    BY <2>1, <2>4

LEMMA MarkersStep == MarkersAgree /\ [Next]_vars => MarkersAgree'
<1> SUFFICES ASSUME MarkersAgree, [Next]_vars PROVE MarkersAgree'
  OBVIOUS
<1>1. CASE DrawSources
  BY <1>1 DEF DrawSources, MarkersAgree
<1>2. CASE UNCHANGED <<sourceVars, selectedSource>>
  BY <1>2 DEF MarkersAgree, sourceVars
<1> QED
  <2>1. CASE UNCHANGED vars
    BY <1>2, <2>1 DEF vars, panelVars
  <2>2. CASE Next
    BY <2>2, StepCases, <1>1, <1>2
    DEF Poll, CoverageAnswered, CoverageFails, SourcesAnswered, StatusAnswered, SelectSource,
        ToggleSource, SelectCell, ClickHeader, SlidUp, ToggleSelectAll, SwitchCategory, MoveMap,
        GrabSlider, SlideThresholds, SlideFilter, SlideExport, SlideWindow, DropSlider, panelVars
  <2> QED
    BY <2>1, <2>2

LEMMA DisplayStep == TypeOK /\ DisplayAgrees /\ [Next]_vars => DisplayAgrees'
  BY SchemesStep, PanelStep, MarkersStep DEF DisplayAgrees

(* Whatever the user does in whatever order, the thresholds, the units and   *)
(* the details panel are those of the coverage type, and the list and the    *)
(* markers of the sources are in step.                                       *)
THEOREM DisplayAlwaysAgrees == Spec => []DisplayAgrees
<1>1. Init => TypeOK /\ DisplayAgrees
  BY InitType, DisplayInit
<1>2. TypeOK /\ DisplayAgrees /\ [Next]_vars => TypeOK' /\ DisplayAgrees'
  BY StepType, DisplayStep
<1> QED
  BY <1>1, <1>2, PTL DEF Spec

(***************************************************************************)
(* The picture                                                              *)
(***************************************************************************)

(* Only the newest request waits, none is made without dates, and the first  *)
(* sets the flag back.                                                       *)
RequestsInStep ==
  /\ \A r \in inflight : r.id = sent
  /\ \A r \in inflight, q \in inflight : r = q
  /\ \A p \in picture : p.request.id <= sent
  /\ selected = NoInterval => sent = 0
  /\ ~changed => sent > 0
  /\ canUpdate => drag = "window"

(* Without the loading panel nothing waits, and the picture is the newest.  *)
PanelInStep ==
  ~loading => /\ inflight = {}
              /\ sent = 0 \/ \E p \in picture : picture = {p} /\ p.request.id = sent

(* What the newest request may lag behind, until a flag or a slider tells.   *)
Current(r) ==
  r.id = sent =>
    /\ r.view = view
    /\ ~changed /\ ~unannounced => r.sources = enabled
    /\ ~changed /\ ~canUpdate => r.interval = selected
LastRequestAgrees ==
  /\ \A r \in inflight : Current(r)
  /\ \A p \in picture : Current(p.request)

(* The same of the colours of its picture                                    *)
Coloured(p) ==
  p.request.id = sent /\ ~changed /\ ~unannounced /\ drag \notin {"thresholds", "filter"} =>
    p.category = category /\ p.scheme = scheme /\ p.filter = filter
ColoursAgree == \A p \in picture : Coloured(p)

PictureInv == RequestsInStep /\ PanelInStep /\ LastRequestAgrees /\ ColoursAgree

LEMMA PictureInit == Init => PictureInv
<1> SUFFICES ASSUME Init PROVE PictureInv
  OBVIOUS
<1>1. inflight = {} /\ picture = {} /\ sent = 0 /\ changed = TRUE /\ canUpdate = FALSE
  BY DEF Init
<1> QED
  BY <1>1 DEF PictureInv, RequestsInStep, PanelInStep, LastRequestAgrees, ColoursAgree

(* A new request is made of the settings of the moment, and any older        *)
(* picture is no longer the newest.                                          *)
LEMMA DrawKeepsPicture ==
  ASSUME TypeOK, PictureInv, NEW v \in Views, DrawCoverage(v), view' = v,
         UNCHANGED <<enabled, windowVars, category, scheme, filter, drag>>,
         IF selected = NoInterval THEN changed' = changed ELSE changed' \in {changed, FALSE}
  PROVE  PictureInv'
<1> USE DEF PictureInv
<1>0. loading' = TRUE /\ picture' = picture /\ sent \in Nat
  BY DEF DrawCoverage, TypeOK
<1>1. CASE selected = NoInterval
  <2>1. sent = 0 /\ UNCHANGED <<inflight, sent, unannounced>>
    BY <1>1 DEF DrawCoverage, RequestsInStep
  <2>2. \A r \in inflight : r.id # sent
    BY <2>1 DEF TypeOK, Request
  <2>3. \A p \in picture : p.request.id # sent
    BY <2>1 DEF TypeOK, Pictures, Request
  <2>4. RequestsInStep'
    BY <1>0, <1>1, <2>1 DEF RequestsInStep, windowVars
  <2>5. PanelInStep'
    BY <1>0 DEF PanelInStep
  <2>6. LastRequestAgrees'
    BY <1>0, <2>1, <2>2, <2>3 DEF LastRequestAgrees, Current
  <2>7. ColoursAgree'
    BY <1>0, <2>1, <2>3 DEF ColoursAgree, Coloured
  <2> QED
    BY <2>4, <2>5, <2>6, <2>7
<1>2. CASE selected # NoInterval
  <2>1. inflight' = {NewRequest(v)} /\ sent' = sent + 1
    <3>1. NotAborted = {}
      BY DEF NotAborted, RequestsInStep
    <3> QED
      BY <1>2, <3>1 DEF DrawCoverage
  <2>2. \A p \in picture : p.request.id <= sent /\ p.request.id \in Nat
    BY DEF TypeOK, Pictures, Request, RequestsInStep
  <2>3. \A p \in picture' : p.request.id <= sent' /\ p.request.id # sent'
    BY <1>0, <2>1, <2>2
  <2>4. RequestsInStep'
    <3>1. \A r \in inflight' : r.id = sent'
      BY <2>1 DEF NewRequest
    <3>2. \A r \in inflight', q \in inflight' : r = q
      BY <2>1
    <3>3. sent' > 0 /\ selected' # NoInterval /\ (canUpdate' => drag' = "window")
      BY <1>0, <1>2, <2>1 DEF RequestsInStep, windowVars
    <3> QED
      BY <2>3, <3>1, <3>2, <3>3 DEF RequestsInStep
  <2>5. PanelInStep'
    BY <1>0 DEF PanelInStep
  <2>6. LastRequestAgrees'
    <3>1. \A r \in inflight' : r.view = view' /\ r.sources = enabled' /\ r.interval = selected'
      BY <2>1 DEF NewRequest, windowVars
    <3> QED
      BY <2>3, <3>1 DEF LastRequestAgrees, Current
  <2>7. ColoursAgree'
    BY <2>3 DEF ColoursAgree, Coloured
  <2> QED
    BY <2>4, <2>5, <2>6, <2>7
<1> QED
  BY <1>1, <1>2

LEMMA AnswerKeepsPicture ==
  ASSUME TypeOK, PictureInv, NEW r \in inflight, CoverageAnswered(r) \/ CoverageFails(r)
  PROVE  PictureInv'
<1> USE DEF PictureInv
<1>1. /\ inflight' = {} /\ r.id = sent /\ Current(r)
      /\ UNCHANGED <<sent, selected, canUpdate, changed, unannounced, drag, view, enabled,
                     category, scheme, filter>>
  BY DEF RequestsInStep, LastRequestAgrees, CoverageAnswered, CoverageFails, mapVars, windowVars,
         sourceVars, schemeVars, userVars
<1>2. CASE CoverageAnswered(r)
  <2> DEFINE p == [request |-> r, category |-> category, scheme |-> scheme, filter |-> filter]
  <2>1. picture' = {p}
    BY <1>2 DEF CoverageAnswered
  <2>2. p.request = r /\ p.category = category /\ p.scheme = scheme /\ p.filter = filter
    OBVIOUS
  <2> HIDE DEF p
  <2>3. RequestsInStep'
    BY <1>1, <2>1, <2>2 DEF RequestsInStep, TypeOK
  <2>4. PanelInStep'
    BY <1>1, <2>1, <2>2 DEF PanelInStep
  <2>5. LastRequestAgrees'
    BY <1>1, <2>1, <2>2 DEF LastRequestAgrees, Current
  <2>6. ColoursAgree'
    BY <1>1, <2>1, <2>2 DEF ColoursAgree, Coloured
  <2> QED
    BY <2>3, <2>4, <2>5, <2>6
<1>3. CASE CoverageFails(r)
  <2>1. picture' = picture /\ loading' = loading
    BY <1>3 DEF CoverageFails
  <2>2. RequestsInStep'
    BY <1>1, <2>1 DEF RequestsInStep
  <2>3. PanelInStep'
    BY <1>1, <2>1 DEF PanelInStep
  <2>4. LastRequestAgrees'
    BY <1>1, <2>1 DEF LastRequestAgrees, Current
  <2>5. ColoursAgree'
    BY <1>1, <2>1 DEF ColoursAgree, Coloured
  <2> QED
    BY <2>2, <2>3, <2>4, <2>5
<1> QED
  BY <1>2, <1>3

(* Every other step leaves requests and pictures alone; what it does to a    *)
(* setting it lets a flag or the slider held tell.                           *)
Announces ==
  /\ UNCHANGED <<view, inflight, sent, picture, loading>>
  /\ changed' = TRUE \/ UNCHANGED changed
  /\ unannounced' = TRUE \/ UNCHANGED unannounced
  /\ UNCHANGED enabled \/ changed' = TRUE \/ unannounced' = TRUE
  /\ UNCHANGED selected \/ selected = NoInterval \/ canUpdate' = TRUE
  /\ selected # NoInterval => selected' # NoInterval
  /\ UNCHANGED canUpdate \/ changed' = TRUE \/ canUpdate' = TRUE
  /\ canUpdate' = TRUE => drag' = "window"
  /\ \/ UNCHANGED <<category, scheme, filter>> \/ changed' = TRUE \/ unannounced' = TRUE
     \/ drag' \in {"thresholds", "filter"}
  /\ drag \in {"thresholds", "filter"} => UNCHANGED drag \/ changed' = TRUE

LEMMA AnnouncedKeepsPicture ==
  ASSUME TypeOK, TypeOK', PictureInv, Announces
  PROVE  PictureInv'
<1> USE DEF PictureInv
<1>1. RequestsInStep'
  BY DEF RequestsInStep, Announces, TypeOK
<1>2. PanelInStep'
  BY DEF PanelInStep, Announces
<1>3. ASSUME NEW r \in Request, Current(r) PROVE Current(r)'
  <2>1. selected = NoInterval => r.id # sent
    BY DEF RequestsInStep, Request
  <2> QED
    BY <1>3, <2>1 DEF Current, Announces, TypeOK
<1>4. LastRequestAgrees'
  BY <1>3 DEF LastRequestAgrees, Announces, TypeOK, Pictures
<1>5. ColoursAgree'
  BY DEF ColoursAgree, Coloured, Announces, TypeOK
<1> QED
  BY <1>1, <1>2, <1>4, <1>5

LEMMA PictureStep == TypeOK /\ TypeOK' /\ PictureInv /\ [Next]_vars => PictureInv'
<1> SUFFICES ASSUME TypeOK, TypeOK', PictureInv, [Next]_vars PROVE PictureInv'
  OBVIOUS
<1>1. CASE Poll
  BY <1>1, DrawKeepsPicture
  DEF Poll, TypeOK, mapVars, windowVars, sourceVars, schemeVars, userVars
<1>2. ASSUME NEW v \in Views, MoveMap(v) PROVE PictureInv'
  BY <1>2, DrawKeepsPicture DEF MoveMap, windowVars, sourceVars, schemeVars
<1>3. ASSUME NEW r \in inflight, CoverageAnswered(r) \/ CoverageFails(r) PROVE PictureInv'
  BY <1>3, AnswerKeepsPicture
<1> USE DEF mapVars, windowVars, sourceVars, schemeVars, requestVars
<1>4. ASSUME NEW s \in Sources, SelectSource(s) PROVE Announces
  BY <1>4 DEF SelectSource, Announces, PictureInv, RequestsInStep
<1>5. ASSUME NEW s \in Sources, ToggleSource(s) PROVE Announces
  BY <1>5 DEF ToggleSource, Announces, PictureInv, RequestsInStep
<1>6. ASSUME SelectCell \/ ClickHeader \/ SlidUp PROVE Announces
  <2>1. CASE SelectCell
    BY <2>1 DEF SelectCell, Announces, PictureInv, RequestsInStep
  <2>2. CASE ClickHeader
    BY <2>2 DEF ClickHeader, Announces, PictureInv, RequestsInStep
  <2>3. CASE SlidUp
    BY <2>3 DEF SlidUp, userVars, Announces, PictureInv, RequestsInStep
  <2> QED
    BY <1>6, <2>1, <2>2, <2>3
<1>7. ASSUME ToggleSelectAll \/ SwitchCategory PROVE Announces
  BY <1>7 DEF ToggleSelectAll, SwitchCategory, Announces, PictureInv, RequestsInStep
<1>8. ASSUME SourcesAnswered \/ StatusAnswered PROVE Announces
  <2>1. DefaultInterval # NoInterval
    BY DEF DefaultInterval, NoInterval
  <2> QED
    BY <1>8, <2>1 DEF SourcesAnswered, StatusAnswered, userVars, Announces, PictureInv,
                      RequestsInStep
<1>9. ASSUME NEW slider \in {"thresholds", "filter", "export", "window"}, GrabSlider(slider)
      PROVE  Announces
  BY <1>9 DEF GrabSlider, Gesture, Announces, PictureInv, RequestsInStep
<1> USE DEF userVars
<1>10. ASSUME NEW range, SlideThresholds(range) PROVE Announces
  BY <1>10 DEF SlideThresholds, Announces, PictureInv, RequestsInStep
<1>11. ASSUME NEW position, SlideFilter(position) \/ SlideExport(position) PROVE Announces
  BY <1>11 DEF SlideFilter, SlideExport, Announces, PictureInv, RequestsInStep
<1>12. ASSUME NEW interval \in Intervals, SlideWindow(interval) PROVE Announces
  <2>1. interval # NoInterval
    BY DEF Intervals, NoInterval
  <2> QED
    BY <1>12, <2>1 DEF SlideWindow, Announces, PictureInv, RequestsInStep
<1>13. ASSUME DropSlider PROVE Announces
  BY <1>13 DEF DropSlider, Announces, PictureInv, RequestsInStep, TypeOK
<1>14. ASSUME UNCHANGED vars PROVE Announces
  BY <1>14 DEF vars, Announces, PictureInv, RequestsInStep
<1> QED
  <2>1. CASE Announces
    BY <2>1, AnnouncedKeepsPicture
  <2>2. CASE Next
    BY <2>1, <2>2, StepCases, <1>1, <1>2, <1>3, <1>4, <1>5, <1>6, <1>7, <1>8, <1>9, <1>10, <1>11,
       <1>12, <1>13
  <2> QED
    BY <2>1, <2>2, <1>14

LEMMA PictureInvImplies == TypeOK /\ PictureInv => PictureAgrees
<1> SUFFICES ASSUME TypeOK, PictureInv, Quiet
             PROVE  picture = {[request |-> [id |-> sent, sources |-> enabled, view |-> view,
                                             interval |-> selected],
                                category |-> category, scheme |-> scheme, filter |-> filter]}
  BY DEF PictureAgrees
<1> USE DEF PictureInv
<1>1. ~changed /\ ~unannounced /\ ~loading /\ drag = "none" /\ ~canUpdate /\ sent > 0
  BY DEF Quiet, RequestsInStep
<1>2. PICK p \in picture : picture = {p} /\ p.request.id = sent
  BY <1>1 DEF PanelInStep
<1>3. p \in Pictures
  BY DEF TypeOK
<1>4. /\ p.request.view = view /\ p.request.sources = enabled /\ p.request.interval = selected
      /\ p.category = category /\ p.scheme = scheme /\ p.filter = filter
  BY <1>1, <1>2 DEF LastRequestAgrees, Current, ColoursAgree, Coloured
<1>5. p.request = [id |-> sent, sources |-> enabled, view |-> view, interval |-> selected]
  BY <1>2, <1>3, <1>4 DEF Pictures, Request
<1>6. p = [request |-> [id |-> sent, sources |-> enabled, view |-> view, interval |-> selected],
           category |-> category, scheme |-> scheme, filter |-> filter]
  BY <1>3, <1>4, <1>5 DEF Pictures
<1> QED
  BY <1>2, <1>6

(* When the page is at rest, the picture is that of its settings, however    *)
(* gestures, timers, answers and failures came before it.                    *)
THEOREM PictureAlwaysAgrees == Spec => []PictureAgrees
<1>1. Init => TypeOK /\ PictureInv
  BY InitType, PictureInit
<1>2. TypeOK /\ PictureInv /\ [Next]_vars => TypeOK' /\ PictureInv'
  BY StepType, PictureStep
<1>3. TypeOK /\ PictureInv => PictureAgrees
  BY PictureInvImplies
<1> QED
  BY <1>1, <1>2, <1>3, PTL DEF Spec

(***************************************************************************)
(* The refinement                                                           *)
(***************************************************************************)

LEMMA LatestInit == Init => Latest!Init
  BY DEF Init, Latest!Init

(* The barred variables of Latest                                            *)
Pending == {Question(r) : r \in {q \in inflight : q.id = sent}}
Shown == {Question(p.request) : p \in picture}

LEMMA LatestStep ==
  ASSUME TypeOK, TypeOK', RequestsInStep, [Next]_vars
  PROVE  [Latest!Next]_<<Pending, Shown>>
<1> USE DEF Pending, Shown
<1>1. ASSUME NEW v \in Views, DrawCoverage(v)
      PROVE  [Latest!Next]_<<Pending, Shown>>
  <2>1. CASE selected = NoInterval
    BY <1>1, <2>1 DEF DrawCoverage
  <2>2. CASE selected # NoInterval
    <3> DEFINE q == [sources |-> enabled, view |-> v, interval |-> selected]
    <3>1. NotAborted = {}
      BY DEF NotAborted, RequestsInStep
    <3>2. inflight' = {NewRequest(v)} /\ sent' = sent + 1 /\ picture' = picture
      BY <1>1, <2>2, <3>1 DEF DrawCoverage
    <3>3. Question(NewRequest(v)) = q /\ NewRequest(v).id = sent + 1
      BY DEF Question, NewRequest
    <3>4. Pending' = {q} /\ Shown' = Shown
      BY <3>2, <3>3
    <3>5. q \in [sources : SUBSET Sources, view : Views, interval : Intervals]
      BY <2>2 DEF TypeOK
    <3> HIDE DEF q, Pending, Shown
    <3> QED
      BY <3>4, <3>5 DEF Latest!Next, Latest!Ask, Pending, Shown
  <2> QED
    BY <2>1, <2>2
<1>2. ASSUME NEW r \in inflight, CoverageAnswered(r)
      PROVE  [Latest!Next]_<<Pending, Shown>>
  <2>1. inflight = {r} /\ r.id = sent /\ sent' = sent
    BY <1>2 DEF RequestsInStep, CoverageAnswered
  <2>2. Pending = {Question(r)} /\ Pending' = {}
    BY <1>2, <2>1 DEF CoverageAnswered
  <2>3. Shown' = {Question(r)}
    BY <1>2 DEF CoverageAnswered
  <2>4. Latest!Show
    BY <2>2, <2>3 DEF Latest!Show
  <2> QED
    BY <2>4 DEF Latest!Next
<1>3. ASSUME NEW r \in inflight, CoverageFails(r)
      PROVE  [Latest!Next]_<<Pending, Shown>>
  <2>1. inflight = {r} /\ r.id = sent /\ sent' = sent /\ picture' = picture
    BY <1>3 DEF RequestsInStep, CoverageFails
  <2>2. Pending = {Question(r)} /\ Pending' = {}
    BY <1>3, <2>1 DEF CoverageFails
  <2>3. Latest!Lose
    BY <2>1, <2>2 DEF Latest!Lose
  <2> QED
    BY <2>3 DEF Latest!Next
<1>4. CASE Poll
  BY <1>1, <1>4 DEF Poll, TypeOK
<1>5. ASSUME NEW v \in Views, MoveMap(v) PROVE [Latest!Next]_<<Pending, Shown>>
  BY <1>1, <1>5 DEF MoveMap
<1>6. CASE UNCHANGED <<inflight, sent, picture>>
  BY <1>6
<1> HIDE DEF Pending, Shown
<1> QED
  <2>1. CASE UNCHANGED vars
    BY <1>6, <2>1 DEF vars, requestVars
  <2>2. CASE Next
    BY <2>2, StepCases, <1>2, <1>3, <1>4, <1>5, <1>6
    DEF SourcesAnswered, StatusAnswered, SelectSource, ToggleSource, SelectCell, ClickHeader,
        SlidUp, ToggleSelectAll, SwitchCategory, GrabSlider, SlideThresholds, SlideFilter,
        SlideExport, SlideWindow, DropSlider, requestVars
  <2> QED
    BY <2>1, <2>2

(* CoverageClient implements LatestWins: whatever order answers come in, a   *)
(* question that was given up is never drawn.                                *)
THEOREM ImplementsLatestWins == Spec => ShowsLatest
<1>1. Init => TypeOK /\ PictureInv /\ Latest!Init
  BY InitType, PictureInit, LatestInit
<1>2. TypeOK /\ PictureInv /\ [Next]_vars => TypeOK' /\ PictureInv'
  BY StepType, PictureStep
<1>3. TypeOK /\ TypeOK' /\ PictureInv /\ [Next]_vars => [Latest!Next]_<<Pending, Shown>>
  BY LatestStep DEF PictureInv
<1> QED
  BY <1>1, <1>2, <1>3, PTL DEF Spec, ShowsLatest, Latest!Spec, Pending, Shown

-----------------------------------------------------------------------------
(***************************************************************************)
(* SlidingWindow.  The slider, the dates and what follows them agree.  The  *)
(* charts and the track leave the coverage display alone, so that what is   *)
(* shown of CoverageClient holds on the whole page.                         *)
(***************************************************************************)

(* The mouse holds the slider only once there is one.                       *)
SliderInv ==
  /\ SliderAgrees
  /\ rangeStart \subseteq Hours /\ capture \in Handles \cup {"range", "none"}
  /\ capture # "none" => selected # NoInterval

LEMMA MinOfTwo == \A a \in Int, b \in Int : Min({a, b}) \in {a, b} /\ Min({a, b}) <= a /\ Min({a, b}) <= b
<1> SUFFICES ASSUME NEW a \in Int, NEW b \in Int
             PROVE  Min({a, b}) \in {a, b} /\ Min({a, b}) <= a /\ Min({a, b}) <= b
  OBVIOUS
<1>1. \E x \in {a, b} : \A y \in {a, b} : x =< y
  <2>1. CASE a =< b
    BY <2>1
  <2>2. CASE b =< a
    BY <2>2
  <2> QED
    BY <2>1, <2>2
<1> QED
  BY <1>1 DEF Min

LEMMA MaxOfTwo == \A a \in Int, b \in Int : Max({a, b}) \in {a, b} /\ Max({a, b}) >= a /\ Max({a, b}) >= b
<1> SUFFICES ASSUME NEW a \in Int, NEW b \in Int
             PROVE  Max({a, b}) \in {a, b} /\ Max({a, b}) >= a /\ Max({a, b}) >= b
  OBVIOUS
<1>1. \E x \in {a, b} : \A y \in {a, b} : x >= y
  <2>1. CASE a >= b
    BY <2>1
  <2>2. CASE b >= a
    BY <2>2
  <2> QED
    BY <2>1, <2>2
<1> QED
  BY <1>1 DEF Max

LEMMA IntervalFields ==
  ASSUME NEW i \in Intervals
  PROVE  i[1] \in Hours /\ i[2] \in Hours /\ i[2] - i[1] >= 1 /\ i # NoInterval
<1>1. i \in Hours \X Hours /\ i[2] - i[1] >= 1
  BY DEF Intervals, Hours
<1>2. i[1] \in Hours /\ i[2] \in Hours /\ Len(i) = 2
  BY <1>1
<1>3. Len(NoInterval) = 0
  BY DEF NoInterval
<1> QED
  BY <1>1, <1>2, <1>3

LEMMA IntervalOf ==
  ASSUME NEW a \in Hours, NEW b \in Hours, Width(<<a, b>>) >= 1
  PROVE  <<a, b>> \in Intervals
  BY DEF Intervals, Hours, Width

(* A drag of the range never leaves the window, wherever the mouse goes.    *)
LEMMA AllowedKeepsRange ==
  ASSUME values \in Intervals, NEW dist \in Int
  PROVE  values[1] + Allowed(dist) \in Hours /\ values[2] + Allowed(dist) \in Hours
<1> DEFINE right == IF dist > 0 THEN Min({dist, LastHour - values[2]}) ELSE dist
<1>1. values[1] \in 0 .. LastHour /\ values[2] \in 0 .. LastHour /\ values[1] < values[2]
  BY IntervalFields DEF Hours
<1>2. LastHour \in Nat
  BY ClientAssumption
<1>3. LastHour - values[2] \in Int /\ 0 - values[1] \in Int
  BY <1>1, <1>2
<1>4. right \in Int /\ (right <= 0 \/ right <= LastHour - values[2])
  <2>1. CASE dist > 0
    BY <1>3, <2>1, MinOfTwo
  <2>2. CASE ~(dist > 0)
    BY <2>2
  <2> QED
    BY <2>1, <2>2
<1>5. Allowed(dist) = Max({right, 0 - values[1]})
  BY DEF Allowed
<1> HIDE DEF right
<1>6. Allowed(dist) \in {right, 0 - values[1]} /\ Allowed(dist) >= 0 - values[1]
  BY <1>3, <1>4, <1>5, MaxOfTwo
<1> QED
  BY <1>1, <1>2, <1>4, <1>6 DEF Hours

(***************************************************************************)
(* Steps of the slider                                                      *)
(***************************************************************************)

LEMMA AcceptSteps ==
  ASSUME SliderInv, capture # "none", NEW a \in Hours, NEW b \in Hours, Accept(<<a, b>>)
  PROVE  /\ values' = selected' /\ (values' # NoInterval => values' \in Intervals)
         /\ drag' = drag
         /\ UNCHANGED vars \/ (<<a, b>> \in Intervals /\ SlideWindow(<<a, b>>))
<1>1. CASE <<a, b>> # values /\ Width(<<a, b>>) >= 1
  BY <1>1, IntervalOf DEF Accept, SlideWindow, userVars
<1>2. CASE ~(<<a, b>> # values /\ Width(<<a, b>>) >= 1)
  <2>1. UNCHANGED <<values, vars>>
    BY <1>2, Zenon DEF Accept
  <2>2. UNCHANGED <<values, selected, drag>>
    BY <2>1 DEF vars, windowVars, userVars
  <2> QED
    BY <2>1, <2>2 DEF SliderInv, SliderAgrees
<1> QED
  BY <1>1, <1>2

(* A slide offers an interval whose ends are hours of the window.           *)
LEMMA SlideSteps ==
  ASSUME SliderInv, NEW newVal \in Hours, SlideHandle(newVal) \/ SlideRange(newVal)
  PROVE  /\ \E a \in Hours, b \in Hours : Accept(<<a, b>>)
         /\ capture # "none" /\ capture' = capture /\ rangeStart' \subseteq Hours
         /\ UNCHANGED <<formVars, trackVars>>
<1>1. capture # "none"
  BY DEF SlideHandle, SlideRange, Handles
<1>2. values \in Intervals
  BY <1>1 DEF SliderInv, SliderAgrees
<1>3. values[1] \in Hours /\ values[2] \in Hours /\ newVal \in Int
  BY <1>2, IntervalFields, ClientAssumption DEF Hours
<1>4. CASE SlideHandle(newVal)
  <2>1. Min({newVal, values[2]}) \in Hours /\ Max({newVal, values[1]}) \in Hours
    <3>1. values[1] \in Int /\ values[2] \in Int
      BY <1>3, ClientAssumption DEF Hours
    <3> QED
      BY <1>3, <3>1, MinOfTwo, MaxOfTwo
  <2>2. CASE capture = "left"
    <3>1. Accept(<<Min({newVal, values[2]}), values[2]>>)
      BY <1>4, <2>2 DEF SlideHandle
    <3> QED
      BY <1>1, <1>3, <1>4, <2>1, <3>1 DEF SlideHandle, SliderInv
  <2>3. CASE capture # "left"
    <3>1. Accept(<<values[1], Max({newVal, values[1]})>>)
      BY <1>4, <2>3 DEF SlideHandle
    <3> QED
      BY <1>1, <1>3, <1>4, <2>1, <3>1 DEF SlideHandle, SliderInv
  <2> QED
    BY <2>2, <2>3
<1>5. CASE SlideRange(newVal)
  <2> DEFINE start == IF rangeStart = {} THEN newVal ELSE CHOOSE v \in rangeStart : TRUE
  <2>1. start \in Hours
    BY DEF SliderInv
  <2>2. newVal - start \in Int
    BY <1>3, <2>1 DEF Hours
  <2> DEFINE dist == Allowed(newVal - start)
  <2>3. /\ Accept(<<values[1] + dist, values[2] + dist>>)
        /\ rangeStart' = {IF dist # 0 THEN newVal ELSE start}
        /\ UNCHANGED <<capture, formVars, trackVars>>
    BY <1>5, Zenon DEF SlideRange
  <2>4. values[1] + dist \in Hours /\ values[2] + dist \in Hours
    BY <1>2, <2>2, AllowedKeepsRange
  <2> HIDE DEF start, dist
  <2> QED
    BY <1>1, <2>1, <2>3, <2>4
<1> QED
  BY <1>4, <1>5

LEMMA OthersSteps ==
  ASSUME Others
  PROVE  selected' = selected /\ (drag' = "window" <=> drag = "window")
<1> USE DEF windowVars, userVars
<1>1. CASE Poll
  BY <1>1 DEF Poll
<1>2. CASE Answer
  BY <1>2 DEF Answer, CoverageAnswered, CoverageFails
<1>3. CASE SourcesAnswered
  BY <1>3 DEF SourcesAnswered
<1>4. CASE Select
  BY <1>4 DEF Select, SelectSource, SelectCell, ClickHeader, SlidUp
<1>5. CASE Choose
  BY <1>5 DEF Choose, ToggleSource, ToggleSelectAll, SwitchCategory, MoveMap
<1>6. CASE Slide
  BY <1>6 DEF Slide, GrabSlider, Gesture, SlideThresholds, SlideFilter, SlideExport
<1>7. CASE drag # "window" /\ DropSlider
  BY <1>7 DEF DropSlider
<1> QED
  BY <1>1, <1>2, <1>3, <1>4, <1>5, <1>6, <1>7 DEF Others

(* Charts and tracks have no part in the slider or the display.             *)
LEMMA ChartSteps ==
  ASSUME UserOfChart
  PROVE  UNCHANGED sliderVars /\ Gesture
  BY DEF UserOfChart, DrawBox, ChartMethod, OpenShipChart, CloseChart, DrawTrack

LEMMA SliderInit == PageInit => SliderInv
  BY DEF PageInit, Init, SliderInv, SliderAgrees

LEMMA SliderStep == SliderInv /\ [PageNext]_allVars => SliderInv'
<1> SUFFICES ASSUME SliderInv, [PageNext]_allVars PROVE SliderInv'
  OBVIOUS
<1>0. ASSUME UNCHANGED <<sliderVars, selected>>, drag' = "window" <=> drag = "window"
      PROVE  SliderInv'
  BY <1>0 DEF SliderInv, SliderAgrees, sliderVars
<1>1. ASSUME Others, UNCHANGED pageVars PROVE SliderInv'
  BY <1>0, <1>1, OthersSteps DEF pageVars
<1>2. CASE SetupSlidingWindow
  <2>1. /\ selected = NoInterval /\ selected' = DefaultInterval /\ values' = DefaultInterval
        /\ UNCHANGED <<capture, rangeStart, drag>>
    BY <1>2 DEF SetupSlidingWindow, StatusAnswered, userVars
  <2>2. DefaultInterval # NoInterval
    BY DEF DefaultInterval, NoInterval
  <2> QED
    BY <2>1, <2>2, DefaultIntervalType DEF SliderInv, SliderAgrees
<1>3. ASSUME NEW part \in Handles \cup {"range"}, MouseCapture(part) PROVE SliderInv'
  <2>1. /\ drag' = "window" /\ capture' = part /\ part # "none" /\ selected # NoInterval
        /\ UNCHANGED <<values, rangeStart, selected>>
    BY <1>3 DEF MouseCapture, GrabSlider, windowVars, Handles
  <2> QED
    BY <2>1 DEF SliderInv, SliderAgrees
<1>4. ASSUME NEW newVal \in Hours, SlideHandle(newVal) \/ SlideRange(newVal) PROVE SliderInv'
  <2>1. PICK a \in Hours, b \in Hours : Accept(<<a, b>>)
    BY <1>4, SlideSteps
  <2>2. capture # "none" /\ capture' = capture /\ rangeStart' \subseteq Hours
    BY <1>4, SlideSteps
  <2>3. values' = selected' /\ (values' # NoInterval => values' \in Intervals) /\ drag' = drag
    BY <2>1, <2>2, AcceptSteps
  <2>4. selected' # NoInterval
    <3>1. UNCHANGED vars \/ (<<a, b>> \in Intervals /\ SlideWindow(<<a, b>>))
      BY <2>1, <2>2, AcceptSteps
    <3>2. CASE UNCHANGED vars
      BY <2>2, <3>2 DEF vars, windowVars, SliderInv
    <3>3. CASE <<a, b>> \in Intervals /\ SlideWindow(<<a, b>>)
      BY <3>3, IntervalFields DEF SlideWindow
    <3> QED
      BY <3>1, <3>2, <3>3
  <2> QED
    BY <2>2, <2>3, <2>4 DEF SliderInv, SliderAgrees
<1>5. CASE DropWindow
  BY <1>5 DEF DropWindow, DropSlider, SliderInv, SliderAgrees
<1>6. ASSUME UserOfChart, UNCHANGED displayVars PROVE SliderInv'
  BY <1>0, <1>6, ChartSteps DEF displayVars, windowVars
<1>7. ASSUME TrackAnswer, UNCHANGED vars PROVE SliderInv'
  BY <1>0, <1>7 DEF TrackAnswer, TrackAnswered, TrackFails, vars, windowVars, userVars
<1>8. CASE UNCHANGED allVars
  BY <1>0, <1>8 DEF allVars, pageVars, vars, windowVars, userVars
<1> QED
  BY <1>1, <1>2, <1>3, <1>4, <1>5, <1>6, <1>7, <1>8 DEF PageNext, MoveSlider

(* The dates in use are always those of the slider, an hour apart and        *)
(* within the window, wherever the mouse drags its handles or its range.     *)
THEOREM SliderAlwaysAgrees == PageSpec => []SliderAgrees
<1>1. PageInit => SliderInv
  BY SliderInit
<1>2. SliderInv /\ [PageNext]_allVars => SliderInv'
  BY SliderStep
<1>3. SliderInv => SliderAgrees
  BY DEF SliderInv
<1> QED
  BY <1>1, <1>2, <1>3, PTL DEF PageSpec

(***************************************************************************)
(* The coverage display on the whole page                                   *)
(***************************************************************************)

(* What a step of the page is to the display: one of its own steps, or a     *)
(* gesture that concerns only charts and tracks.                             *)
LEMMA DisplaySteps ==
  ASSUME SliderInv, [PageNext]_allVars
  PROVE  [Next]_vars \/ (UNCHANGED displayVars /\ Gesture)
<1>1. CASE Others
  BY <1>1 DEF Others, Next
<1>2. CASE SetupSlidingWindow
  BY <1>2 DEF SetupSlidingWindow, Next
<1>3. ASSUME NEW part \in Handles \cup {"range"}, MouseCapture(part) PROVE Next
  BY <1>3 DEF MouseCapture, MoveWindow, Next
<1>4. ASSUME NEW newVal \in Hours, SlideHandle(newVal) \/ SlideRange(newVal) PROVE [Next]_vars
  <2>1. PICK a \in Hours, b \in Hours : Accept(<<a, b>>)
    BY <1>4, SlideSteps
  <2>2. UNCHANGED vars \/ (<<a, b>> \in Intervals /\ SlideWindow(<<a, b>>))
    BY <1>4, <2>1, SlideSteps, AcceptSteps
  <2> QED
    BY <2>2 DEF Next, MoveWindow
<1>5. CASE DropWindow
  BY <1>5 DEF DropWindow, Next
<1>6. ASSUME UserOfChart, UNCHANGED displayVars PROVE UNCHANGED displayVars /\ Gesture
  BY <1>6, ChartSteps
<1>7. CASE UNCHANGED allVars
  BY <1>7 DEF allVars
<1> QED
  BY <1>1, <1>2, <1>3, <1>4, <1>5, <1>6, <1>7 DEF PageNext, MoveSlider

LEMMA OnlyGestures ==
  ASSUME TypeOK, PictureInv, UNCHANGED displayVars, Gesture
  PROVE  TypeOK' /\ PictureInv' /\ (DisplayAgrees => DisplayAgrees')
<1> USE DEF displayVars, mapVars, windowVars, sourceVars, schemeVars, panelVars, requestVars
<1>1. gestures' \in 0 .. MaxGestures
  BY ClientAssumption DEF Gesture, TypeOK
<1>2. TypeOK'
  BY <1>1 DEF TypeOK
<1>3. Announces
  BY DEF Announces, PictureInv, RequestsInStep
<1>4. PictureInv'
  BY <1>2, <1>3, AnnouncedKeepsPicture
<1>5. DisplayAgrees => DisplayAgrees'
  BY DEF DisplayAgrees, SchemesAgree, PanelAgrees, MarkersAgree
<1> QED
  BY <1>2, <1>4, <1>5

PageInv == SliderInv /\ TypeOK /\ PictureInv /\ DisplayAgrees

LEMMA PageInvInit == PageInit => PageInv
  BY SliderInit, InitType, PictureInit, DisplayInit DEF PageInit, PageInv

LEMMA PageInvStep == PageInv /\ [PageNext]_allVars => PageInv'
<1> SUFFICES ASSUME PageInv, [PageNext]_allVars PROVE PageInv'
  OBVIOUS
<1>1. SliderInv'
  BY SliderStep DEF PageInv
<1>2. CASE [Next]_vars
  BY <1>1, <1>2, StepType, PictureStep, DisplayStep DEF PageInv
<1>3. CASE UNCHANGED displayVars /\ Gesture
  BY <1>1, <1>3, OnlyGestures DEF PageInv
<1> QED
  BY <1>2, <1>3, DisplaySteps DEF PageInv

(* With the slider, the charts and the track beside it, the display is still *)
(* in step with its settings, and still draws only the newest answer.        *)
THEOREM PageKeepsPicture == PageSpec => [](PictureAgrees /\ DisplayAgrees)
<1>1. PageInit => PageInv
  BY PageInvInit
<1>2. PageInv /\ [PageNext]_allVars => PageInv'
  BY PageInvStep
<1>3. PageInv => PictureAgrees /\ DisplayAgrees
  BY PictureInvImplies DEF PageInv
<1> QED
  BY <1>1, <1>2, <1>3, PTL DEF PageSpec

LEMMA PageLatestStep ==
  PageInv /\ PageInv' /\ [PageNext]_allVars => [Latest!Next]_<<Pending, Shown>>
<1> SUFFICES ASSUME PageInv, PageInv', [PageNext]_allVars
             PROVE  [Latest!Next]_<<Pending, Shown>>
  OBVIOUS
<1>1. CASE [Next]_vars
  BY <1>1, LatestStep DEF PageInv, PictureInv
<1>2. CASE UNCHANGED displayVars
  BY <1>2 DEF displayVars, requestVars, Pending, Shown
<1> QED
  BY <1>1, <1>2, DisplaySteps DEF PageInv

(* The whole page implements LatestWins, too.                                *)
THEOREM PageImplementsLatestWins == PageSpec => ShowsLatest
<1>1. PageInit => PageInv /\ Latest!Init
  BY PageInvInit, LatestInit DEF PageInit
<1>2. PageInv /\ [PageNext]_allVars => PageInv'
  BY PageInvStep
<1>3. PageInv /\ PageInv' /\ [PageNext]_allVars => [Latest!Next]_<<Pending, Shown>>
  BY PageLatestStep
<1> QED
  BY <1>1, <1>2, <1>3, PTL DEF PageSpec, ShowsLatest, Latest!Spec, Pending, Shown

(***************************************************************************)
(* What follows the window                                                  *)
(***************************************************************************)

(* Tracks are numbered, those asked for again follow one that is active, and *)
(* nothing follows a window that is not known.                               *)
TracksInStep ==
  /\ trackSent \in Nat
  /\ \A r \in lines \cup trackRequests :
       r.id \in Nat /\ r.id <= trackSent /\ (r.again = TRUE => trackActive = TRUE)
  /\ selected = NoInterval => chart = "none" /\ lines \cup trackRequests = {}
  /\ chart = "sat" => box = TRUE

ChartFollows == chart # "none" => chartOf = selected
FormFollows ==
  exportForm = selected \/ (selected = DefaultInterval /\ exportForm = <<0, LastHour>>)
TrackFollows ==
  \A r \in lines \cup trackRequests :
    r.again = TRUE /\ r.id = trackSent => r.interval = selected

FollowInv ==
  TracksInStep /\ (drag # "window" => ChartFollows /\ FormFollows /\ TrackFollows)

LEMMA FollowInit == PageInit => FollowInv
  BY DEF PageInit, Init, FollowInv, TracksInStep, ChartFollows, FormFollows, TrackFollows

(* Steps that leave the followers and the window alone keep the agreement.   *)
LEMMA FollowStutter ==
  ASSUME FollowInv, UNCHANGED <<formVars, trackVars>>,
         \/ selected' = selected /\ (drag' = "window" <=> drag = "window")
         \/ drag' = "window" /\ selected # NoInterval /\ selected' # NoInterval
  PROVE  FollowInv'
  BY DEF FollowInv, TracksInStep, ChartFollows, FormFollows, TrackFollows, formVars, trackVars

LEMMA RequestTrackFollows ==
  ASSUME FollowInv, RequestTrack, selected' = selected, selected # NoInterval,
         UNCHANGED <<chart, box>>
  PROVE  TracksInStep' /\ TrackFollows'
<1> DEFINE new == [id |-> trackSent + 1, interval |-> selected, again |-> trackActive]
<1>1. /\ trackRequests' = trackRequests \cup {new} /\ trackSent' = trackSent + 1
      /\ trackActive' = trackActive /\ lines' = lines
  BY DEF RequestTrack
<1>2. new.id = trackSent + 1 /\ new.interval = selected /\ new.again = trackActive
  OBVIOUS
<1> HIDE DEF new
<1>3. \A r \in lines \cup trackRequests : r.id \in Nat /\ r.id <= trackSent
  BY DEF FollowInv, TracksInStep
<1>4. TracksInStep'
  BY <1>1, <1>2 DEF FollowInv, TracksInStep
<1>5. TrackFollows'
  BY <1>1, <1>2, <1>3 DEF FollowInv, TracksInStep, TrackFollows
<1> QED
  BY <1>4, <1>5

LEMMA FollowStep == SliderInv /\ FollowInv /\ [PageNext]_allVars => FollowInv'
<1> SUFFICES ASSUME SliderInv, FollowInv, [PageNext]_allVars PROVE FollowInv'
  OBVIOUS
<1>1. ASSUME Others, UNCHANGED pageVars PROVE FollowInv'
  BY <1>1, OthersSteps, FollowStutter DEF pageVars
<1>2. CASE SetupSlidingWindow
  <2>1. /\ selected = NoInterval /\ selected' = DefaultInterval
        /\ exportForm' = <<0, LastHour>>
        /\ UNCHANGED <<chart, box, trackVars, drag>>
    BY <1>2 DEF SetupSlidingWindow, StatusAnswered, userVars
  <2>2. chart = "none" /\ lines \cup trackRequests = {}
    BY <2>1 DEF FollowInv, TracksInStep
  <2> QED
    BY <2>1, <2>2 DEF FollowInv, TracksInStep, ChartFollows, FormFollows, TrackFollows, trackVars
<1>3. ASSUME NEW part \in Handles \cup {"range"}, MouseCapture(part) PROVE FollowInv'
  BY <1>3, FollowStutter DEF MouseCapture, GrabSlider, windowVars
<1>4. ASSUME NEW newVal \in Hours, SlideHandle(newVal) \/ SlideRange(newVal) PROVE FollowInv'
  <2>1. PICK a \in Hours, b \in Hours : Accept(<<a, b>>)
    BY <1>4, SlideSteps
  <2>2. capture # "none" /\ capture' = capture /\ UNCHANGED <<formVars, trackVars>>
    BY <1>4, SlideSteps
  <2>3. drag' = "window" /\ selected # NoInterval /\ selected' # NoInterval
    BY <2>2, SliderStep DEF SliderInv, SliderAgrees
  <2> QED
    BY <2>2, <2>3, FollowStutter
<1>5. CASE DropWindow
  <2>1. /\ selected' = selected /\ drag' # "window" /\ exportForm' = selected
        /\ chartOf' = IF chart # "none" THEN selected ELSE chartOf
        /\ chart' = chart /\ box' = box
        /\ IF trackActive THEN RequestTrack ELSE UNCHANGED trackVars
        /\ selected # NoInterval
    BY <1>5 DEF DropWindow, DropSlider, SliderInv, SliderAgrees
  <2>2. FormFollows'
    BY <2>1 DEF FormFollows
  <2>3. ChartFollows'
    BY <2>1 DEF ChartFollows
  <2>4. CASE trackActive = TRUE
    <3>1. RequestTrack
      BY <2>1, <2>4
    <3>2. TracksInStep' /\ TrackFollows'
      BY <2>1, <3>1, RequestTrackFollows
    <3> QED
      BY <2>2, <2>3, <3>2 DEF FollowInv
  <2>5. CASE trackActive # TRUE
    <3>1. UNCHANGED trackVars
      BY <2>1, <2>5
    <3>2. \A r \in lines \cup trackRequests : r.again # TRUE
      BY <2>5 DEF FollowInv, TracksInStep
    <3>3. TracksInStep' /\ TrackFollows'
      BY <2>1, <3>1, <3>2 DEF FollowInv, TracksInStep, TrackFollows, trackVars
    <3> QED
      BY <2>2, <2>3, <3>3 DEF FollowInv
  <2> QED
    BY <2>4, <2>5
<1>6. ASSUME UserOfChart, UNCHANGED displayVars PROVE FollowInv'
  <2>1. selected' = selected /\ drag' = drag /\ drag = "none"
    BY <1>6, ChartSteps DEF displayVars, windowVars, Gesture
  <2>2. TracksInStep /\ ChartFollows /\ FormFollows /\ TrackFollows
    BY <2>1 DEF FollowInv
  <2> USE DEF FollowInv, TracksInStep, ChartFollows, FormFollows, TrackFollows
  <2>3. CASE DrawBox
    BY <2>1, <2>2, <2>3 DEF DrawBox, ShowChart, DatesKnown, trackVars
  <2>4. CASE ChartMethod
    BY <2>1, <2>2, <2>4 DEF ChartMethod, ShowChart, DatesKnown, trackVars
  <2>5. CASE OpenShipChart
    BY <2>1, <2>2, <2>5 DEF OpenShipChart, ShowChart, DatesKnown, trackVars
  <2>6. CASE CloseChart
    BY <2>1, <2>2, <2>6 DEF CloseChart, trackVars
  <2> HIDE DEF FollowInv, TracksInStep, ChartFollows, FormFollows, TrackFollows
  <2>7. CASE DrawTrack
    <3>1. UNCHANGED formVars
      BY <2>7 DEF DrawTrack
    <3>2. CASE DatesKnown
      <4>1. TracksInStep' /\ TrackFollows'
        BY <2>1, <2>7, <3>1, <3>2, RequestTrackFollows DEF DrawTrack, DatesKnown, formVars
      <4> QED
        BY <2>1, <2>2, <3>1, <4>1 DEF FollowInv, ChartFollows, FormFollows, formVars
    <3>3. CASE ~DatesKnown
      BY <2>1, <2>7, <3>1, <3>3, FollowStutter DEF DrawTrack
    <3> QED
      BY <3>2, <3>3
  <2> QED
    BY <1>6, <2>3, <2>4, <2>5, <2>6, <2>7 DEF UserOfChart
<1>7. ASSUME TrackAnswer, UNCHANGED vars PROVE FollowInv'
  <2>1. UNCHANGED <<selected, drag>>
    BY <1>7 DEF vars, windowVars, userVars
  <2>2. PICK r \in trackRequests : TrackAnswered(r) \/ TrackFails(r)
    BY <1>7 DEF TrackAnswer
  <2>3. /\ lines' \cup trackRequests' \subseteq lines \cup trackRequests
        /\ trackActive' \in {trackActive, TRUE}
        /\ UNCHANGED <<formVars, trackSent>>
    BY <2>2 DEF TrackAnswered, TrackFails
  <2> QED
    BY <2>1, <2>3
    DEF FollowInv, TracksInStep, ChartFollows, FormFollows, TrackFollows, formVars
<1>8. CASE UNCHANGED allVars
  BY <1>8, FollowStutter DEF allVars, pageVars, vars, windowVars, userVars
<1> QED
  BY <1>1, <1>2, <1>3, <1>4, <1>5, <1>6, <1>7, <1>8 DEF PageNext, MoveSlider

(* Once the mouse lets go of the slider, the export form, the chart and its  *)
(* box, and the newest track that was asked for again are of the selected    *)
(* interval, in whatever order the tracks are answered.                      *)
THEOREM WindowAlwaysFollowed == PageSpec => []WindowIsFollowed
<1>1. PageInit => SliderInv /\ FollowInv
  BY SliderInit, FollowInit
<1>2. SliderInv /\ FollowInv /\ [PageNext]_allVars => SliderInv' /\ FollowInv'
  BY SliderStep, FollowStep
<1>3. FollowInv => WindowIsFollowed
  BY DEF FollowInv, TracksInStep, ChartFollows, FormFollows, TrackFollows, WindowIsFollowed
<1> QED
  BY <1>1, <1>2, <1>3, PTL DEF PageSpec

-----------------------------------------------------------------------------
(***************************************************************************)
(* ImagePreload.  What numLoaded lacks of numTotal is the number of images  *)
(* that are not settled.  What makes the counting work is that an image     *)
(* that waits has not been counted as loaded yet (Outstanding), by          *)
(* whichever of its handlers its waiting ends.                              *)
(***************************************************************************)

Waiting == Loading \cup {"script", "absent", "cancelled", "lost"}

(* Types, and what is so before the images are looked for                   *)
StatusOK ==
  /\ status \in [Images -> Waiting \cup {"loaded", "failed"}]
  /\ succeeded \in [Images -> {"undefined", "yes", "no"}]
  /\ numLoaded \in Nat /\ numFailed \in Nat /\ numTotal \in Nat /\ completed \in Nat
  /\ phase = "called" =>
       /\ \A i \in Images : status[i] = "absent"
       /\ numLoaded = 0 /\ numFailed = 0 /\ numTotal = 0 /\ completed = 0 /\ stale = {}

Outstanding ==
  \A i \in Images :
    /\ status[i] \in Waiting => succeeded[i] = "undefined"
    /\ status[i] = "loaded" => succeeded[i] = "yes"
    /\ status[i] = "failed" => succeeded[i] = "no"

Exact ==
  /\ numTotal - numLoaded = Cardinality(Found \ Settled) /\ numFailed = Cardinality(Failed)
  /\ completed > 0 => Settled = Found

CountInv == StatusOK /\ phase \in {"called", "loading"} /\ (~early => stale = {} /\ Outstanding /\ Exact)

LEMMA ImagesFinite == \A S \in SUBSET Images : IsFiniteSet(S) /\ Cardinality(S) \in Nat
  BY PreloadAssumption, FS_Subset, FS_CardinalityType

LEMMA CardinalityOfUnion ==
  ASSUME NEW S \in SUBSET Images, NEW T \in SUBSET Images, S \cap T = {}
  PROVE  Cardinality(S \cup T) = Cardinality(S) + Cardinality(T)
<1>1. IsFiniteSet(S) /\ IsFiniteSet(T) /\ Cardinality(S) \in Nat /\ Cardinality(T) \in Nat
  BY ImagesFinite
<1>2. Cardinality(S \cup T) = Cardinality(S) + Cardinality(T) - Cardinality(S \cap T)
  BY <1>1, FS_Union
<1>3. Cardinality(S \cap T) = 0
  BY FS_EmptySet
<1> QED
  BY <1>1, <1>2, <1>3

LEMMA SettledSubsets == Settled \subseteq Images /\ Failed \subseteq Settled /\ Found \subseteq Images
  BY DEF Settled, Failed, Found

LEMMA RouteType == \A i \in Images : Route(i) \in {"loaded", "direct", "cors", "script", "absent"}
<1> SUFFICES ASSUME NEW i \in Images
             PROVE  Route(i) \in {"loaded", "direct", "cors", "script", "absent"}
  OBVIOUS
<1>1. Kind[i] \in {"same", "foreign", "gradient"}
  BY PreloadAssumption
<1> QED
  BY <1>1 DEF Route

(***************************************************************************)
(* Types                                                                    *)
(***************************************************************************)

LEMMA CountType ==
  ASSUME StatusOK, NEW n \in Nat, NEW failures \in Nat, Count(n, failures)
  PROVE  numLoaded' \in Nat /\ numFailed' \in Nat /\ numTotal' \in Nat /\ completed' \in Nat
  BY DEF StatusOK, Count, Start

LEMMA FinishType ==
  ASSUME StatusOK, phase = "loading", phase' = phase, NEW i \in Images, NEW ok \in BOOLEAN,
         Finish(i, ok)
  PROVE  StatusOK'
<1>1. Count(1, IF ok THEN 0 ELSE 1)
  BY DEF Finish, Settle
<1>2. numLoaded' \in Nat /\ numFailed' \in Nat /\ numTotal' \in Nat /\ completed' \in Nat
  BY <1>1, CountType
<1> QED
  BY <1>2 DEF StatusOK, Finish, Settle

(***************************************************************************)
(* Counting                                                                 *)
(***************************************************************************)

(* A set of images that were outstanding is settled, part of them failed.   *)
LEMMA CountExact ==
  ASSUME StatusOK, Outstanding', Exact,
         NEW S \in SUBSET (Found \ Settled), NEW F \in SUBSET S,
         Settled' = Settled \cup S, Failed' = Failed \cup F, Found' = Found,
         Count(Cardinality(S), Cardinality(F))
  PROVE  Exact'
<1>1. /\ numLoaded' = numLoaded + Cardinality(S) /\ numFailed' = numFailed + Cardinality(F)
      /\ numTotal' = numTotal
      /\ completed' = IF numLoaded' >= numTotal' THEN completed + 1 ELSE completed
  BY DEF Count, Start
<1> DEFINE rest == Found' \ Settled'
<1>2. /\ rest \in SUBSET Images /\ S \in SUBSET Images /\ rest \cap S = {}
      /\ Found \ Settled = rest \cup S
  BY SettledSubsets
<1> HIDE DEF rest
<1>3. Cardinality(rest) \in Nat /\ Cardinality(S) \in Nat /\ IsFiniteSet(rest)
  BY <1>2, ImagesFinite
<1>4. Cardinality(Found \ Settled) = Cardinality(rest) + Cardinality(S)
  BY <1>2, CardinalityOfUnion
<1>5. numTotal' - numLoaded' = Cardinality(rest)
  BY <1>1, <1>3, <1>4 DEF Exact, StatusOK
<1>6. Cardinality(Failed') = Cardinality(Failed) + Cardinality(F)
  <2>1. Failed \cap F = {} /\ Failed \subseteq Images /\ F \subseteq Images
    BY SettledSubsets
  <2> QED
    BY <2>1, CardinalityOfUnion
<1>7. numFailed' = Cardinality(Failed')
  BY <1>1, <1>6 DEF Exact
<1>8. Settled' \subseteq Found'
  BY DEF Outstanding, Settled, Failed, Found, Waiting
<1>9. numLoaded' >= numTotal' => Settled' = Found'
  <2>1. numLoaded' >= numTotal' => Cardinality(rest) = 0
    BY <1>1, <1>3, <1>5 DEF StatusOK
  <2>2. Cardinality(rest) = 0 => rest = {}
    BY <1>3, FS_EmptySet
  <2> QED
    BY <1>8, <2>1, <2>2 DEF rest
<1>10. completed' > 0 => Settled' = Found'
  <2>1. CASE completed > 0
    BY <1>8, <2>1 DEF Exact
  <2>2. CASE ~(completed > 0)
    BY <1>1, <1>9, <2>2 DEF StatusOK
  <2> QED
    BY <2>1, <2>2
<1> QED
  BY <1>5, <1>7, <1>10 DEF Exact, rest

LEMMA FinishExact ==
  ASSUME StatusOK, Outstanding, Exact, phase = "loading", phase' = phase,
         NEW i \in Images, NEW ok \in BOOLEAN, status[i] \in Loading \cup {"script"}, Finish(i, ok)
  PROVE  Outstanding' /\ Exact'
<1>1. /\ status' = [status EXCEPT ![i] = IF ok THEN "loaded" ELSE "failed"]
      /\ succeeded' = [succeeded EXCEPT ![i] = IF ok THEN "yes" ELSE "no"]
      /\ Count(1, IF ok THEN 0 ELSE 1)
  BY DEF Finish, Settle
<1>2. Outstanding'
  BY <1>1 DEF StatusOK, Outstanding, Waiting, Loading
<1> DEFINE F == IF ok THEN {} ELSE {i}
<1>3. succeeded[i] = "undefined" /\ status[i] # "cancelled" /\ status[i] # "absent"
  BY DEF Outstanding, Waiting, Loading
<1>4. {i} \subseteq Found \ Settled /\ Settled' = Settled \cup {i}
  BY <1>1, <1>3 DEF StatusOK, Found, Settled, Failed
<1>5. Failed' = Failed \cup F
  BY <1>1, <1>3 DEF StatusOK, Failed
<1>6. Found' = Found
  BY <1>1, <1>3 DEF StatusOK, Found
<1>7. Cardinality({i}) = 1 /\ Cardinality(F) = IF ok THEN 0 ELSE 1
  BY FS_Singleton, FS_EmptySet
<1>8. Exact'
  <2>1. F \subseteq {i}
    OBVIOUS
  <2> HIDE DEF F
  <2> QED
    BY <1>1, <1>2, <1>4, <1>5, <1>6, <1>7, <2>1, CountExact
<1> QED
  BY <1>2, <1>8

(* A fall back to the proxy settles nothing.                                *)
LEMMA FallBackInv ==
  ASSUME CountInv, NEW i \in Images, status[i] = "cors", FallBack(i), phase' = phase
  PROVE  StatusOK' /\ (~early => Outstanding' /\ Exact')
<1>1. phase = "loading"
  BY DEF CountInv, StatusOK
<1>2. CASE options.proxy
  <2>1. /\ status' = [status EXCEPT ![i] = "script"]
        /\ UNCHANGED <<succeeded, numLoaded, numFailed, numTotal, completed>>
    BY <1>2 DEF FallBack, counters
  <2>2. StatusOK'
    BY <1>1, <2>1 DEF CountInv, StatusOK, Waiting
  <2>3. Settled' = Settled /\ Failed' = Failed /\ Found' = Found
    BY <2>1 DEF CountInv, StatusOK, Settled, Failed, Found
  <2>4. Outstanding => Outstanding'
    BY <2>1 DEF CountInv, StatusOK, Outstanding, Waiting, Loading
  <2>5. Exact => Exact'
    BY <2>1, <2>3 DEF Exact
  <2> QED
    BY <2>2, <2>4, <2>5 DEF CountInv
<1>3. CASE ~options.proxy
  <2>1. Finish(i, FALSE)
    BY <1>3 DEF FallBack
  <2> QED
    BY <1>1, <2>1, FinishType, FinishExact DEF CountInv, Loading
<1> QED
  BY <1>2, <1>3

LEMMA DrawnType == Drawn \in Nat
<1>1. {i \in Images : Kind[i] = "gradient"} \subseteq Images /\ Drawings \in [Images -> Nat]
  BY PreloadAssumption
<1>2. IsFiniteSet({i \in Images : Kind[i] = "gradient"})
  BY ImagesFinite
<1> QED
  BY <1>1, <1>2, SumNat DEF Drawn

LEMMA ScanInv == CountInv /\ Scan => CountInv'
<1> SUFFICES ASSUME CountInv, Scan PROVE CountInv'
  OBVIOUS
<1> DEFINE loaded == {i \in Images : Route(i) = "loaded"}
           found == {i \in Images : Route(i) # "absent"}
<1>1. /\ phase' = "loading" /\ status' = [i \in Images |-> Route(i)]
      /\ succeeded' = [i \in Images |-> IF Route(i) = "loaded" THEN "yes" ELSE "undefined"]
      /\ numTotal' = Cardinality(Requested) + Drawn /\ numLoaded' = Drawn
      /\ numFailed' = 0 /\ completed = 0
      /\ completed' = IF numLoaded' >= numTotal' THEN completed + 1 ELSE completed
      /\ UNCHANGED <<stale, early>>
  BY DEF Scan, Start, CountInv, StatusOK
<1>2. /\ found \ loaded = Requested /\ IsFiniteSet(Requested) /\ Cardinality(Requested) \in Nat
      /\ loaded \subseteq found
  BY ImagesFinite DEF Requested
<1>3. Drawn \in Nat
  BY DrawnType
<1>4. StatusOK'
  BY <1>1, <1>2, <1>3, RouteType DEF StatusOK, Waiting, Loading
<1>5. Outstanding'
  BY <1>1, RouteType DEF Outstanding, Waiting, Loading
<1>6. Settled' = loaded /\ Failed' = {} /\ Found' = found
  BY <1>1, RouteType DEF Settled, Failed, Found
<1>7. Exact'
  <2>1. numTotal' - numLoaded' = Cardinality(Found' \ Settled')
    <3>1. Found' \ Settled' = Requested
      BY <1>2, <1>6
    <3>2. numTotal' - numLoaded' = Cardinality(Requested)
      <4>1. numTotal' = Cardinality(Requested) + Drawn /\ numLoaded' = Drawn
        BY <1>1
      <4> QED
        BY <1>2, <1>3, <4>1
    <3> QED
      BY <3>1, <3>2
  <2>2. completed' > 0 => Cardinality(Requested) = 0
    BY <1>1, <1>2, <1>3
  <2>3. completed' > 0 => Settled' = Found'
    BY <1>2, <1>6, <2>2, FS_EmptySet
  <2> QED
    BY <1>1, <1>6, <2>1, <2>3, FS_EmptySet DEF Exact
<1> QED
  BY <1>1, <1>4, <1>5, <1>7 DEF CountInv

LEMMA CleanupInv ==
  ASSUME CountInv, NEW given, CleanupDOM(given)
  PROVE  CountInv'
<1>1. /\ phase = "loading" /\ phase' = phase /\ succeeded' = succeeded /\ early' = early
      /\ stale' = stale \ given
      /\ status' = [i \in Images |-> CASE i \in Cancelled -> "cancelled"
                                       [] i \in given /\ status[i] \in Loading -> "lost"
                                       [] OTHER -> status[i]]
      /\ Count(Cardinality(Cancelled), Cardinality(Cancelled))
  BY DEF CleanupDOM, CountCancelled
<1>2. Cancelled \subseteq Images /\ Cardinality(Cancelled) \in Nat
  BY ImagesFinite DEF Cancelled
<1>3. \A i \in Images :
        \/ i \in Cancelled /\ status[i] = "script" /\ status'[i] = "cancelled"
        \/ status[i] \in Loading /\ status'[i] \in {status[i], "lost"}
        \/ status'[i] = status[i] /\ i \notin Cancelled
  BY <1>1 DEF Cancelled
<1>4. StatusOK'
  <2>1. numLoaded' \in Nat /\ numFailed' \in Nat /\ numTotal' \in Nat /\ completed' \in Nat
    BY <1>1, <1>2, CountType DEF CountInv
  <2>2. \A i \in Images : status'[i] \in Waiting \cup {"loaded", "failed"}
    BY <1>3 DEF CountInv, StatusOK, Waiting
  <2>3. status' \in [Images -> Waiting \cup {"loaded", "failed"}]
    BY <1>1, <2>2
  <2> QED
    BY <1>1, <2>1, <2>3 DEF CountInv, StatusOK
<1>5. ASSUME ~early PROVE Outstanding' /\ Exact'
  <2>0. Outstanding /\ Exact /\ StatusOK
    BY <1>5 DEF CountInv
  <2>1. Outstanding'
    BY <1>1, <1>3, <2>0 DEF Outstanding, Waiting, Loading
  <2>2. Failed' = Failed \cup Cancelled
    <3>1. \A i \in Images : status'[i] = "cancelled" <=> status[i] = "cancelled" \/ i \in Cancelled
      BY <1>3 DEF Loading, Cancelled
    <3> QED
      BY <1>1, <1>2, <3>1 DEF Failed
  <2>3. Settled' = Settled \cup Cancelled
    BY <1>1, <2>2 DEF Settled
  <2>4. Cancelled \subseteq Found \ Settled
    BY DEF Settled, Failed, Cancelled, Found
  <2>5. Found' = Found
    BY <1>1, <1>3 DEF Found, Loading
  <2> QED
    BY <1>1, <1>2, <2>0, <2>1, <2>2, <2>3, <2>4, <2>5, CountExact
<1> QED
  BY <1>1, <1>4, <1>5 DEF CountInv

LEMMA CountInit == PreloadInit => CountInv
<1> SUFFICES ASSUME PreloadInit PROVE CountInv
  OBVIOUS
<1>1. StatusOK /\ Outstanding /\ stale = {} /\ phase = "called"
  BY DEF PreloadInit, StatusOK, Outstanding, Waiting
<1>2. Settled = {} /\ Failed = {} /\ Found = {}
  BY DEF PreloadInit, Settled, Failed, Found
<1>3. Exact
  BY <1>1, <1>2, FS_EmptySet DEF PreloadInit, Exact
<1> QED
  BY <1>1, <1>3 DEF CountInv

LEMMA CountStep == CountInv /\ [PreloadNext]_preloadVars => CountInv'
<1> SUFFICES ASSUME CountInv, [PreloadNext]_preloadVars PROVE CountInv'
  OBVIOUS
<1>1. CASE Scan
  BY <1>1, ScanInv
<1>2. ASSUME NEW i \in Images, NEW ok \in BOOLEAN, Finish(i, ok),
             status[i] \in Loading \cup {"script"}, UNCHANGED <<phase, stale, early>>
      PROVE  CountInv'
  <2>1. phase = "loading"
    BY <1>2 DEF CountInv, StatusOK, Loading
  <2> QED
    BY <1>2, <2>1, FinishType, FinishExact DEF CountInv
<1>3. ASSUME NEW i \in Images, NEW ok \in BOOLEAN, LoadEnds(i, ok) PROVE CountInv'
  BY <1>2, <1>3 DEF LoadEnds, Loading
<1>4. ASSUME NEW i \in Images, CorsFails(i) PROVE CountInv'
  BY <1>4, FallBackInv DEF CorsFails, CountInv
<1>5. ASSUME NEW i \in Images, CustomComplete(i) PROVE CountInv'
  <2>1. status[i] = "cors" /\ FallBack(i) /\ phase' = phase
    BY <1>5 DEF CustomComplete
  <2>2. early' = TRUE \/ UNCHANGED <<stale, early>>
    BY <1>5 DEF CustomComplete
  <2> QED
    BY <2>1, <2>2, FallBackInv DEF CountInv
<1>6. ASSUME NEW i \in Images, NEW ok \in BOOLEAN, StaleEvent(i, ok) PROVE CountInv'
  <2>1. early /\ early' = early /\ phase' = phase
    BY <1>6 DEF StaleEvent, CountInv
  <2>2. CASE status[i] = "proxied"
    <3>1. phase = "loading" /\ Finish(i, ok)
      BY <1>6, <2>2 DEF StaleEvent, CountInv, StatusOK
    <3> QED
      BY <2>1, <3>1, FinishType DEF CountInv
  <2>3. CASE status[i] # "proxied"
    <3>1. Settle(i, ok) /\ status' = status
      BY <1>6, <2>3 DEF StaleEvent
    <3>2. numLoaded' \in Nat /\ numFailed' \in Nat /\ numTotal' \in Nat /\ completed' \in Nat
      BY <3>1, CountType DEF Settle, CountInv
    <3>3. phase = "loading"
      BY <1>6 DEF StaleEvent, CountInv, StatusOK
    <3> QED
      BY <2>1, <3>1, <3>2, <3>3 DEF CountInv, StatusOK, Settle
  <2> QED
    BY <2>2, <2>3
<1>7. ASSUME NEW i \in Images, NEW ok \in BOOLEAN, ScriptAnswers(i, ok) PROVE CountInv'
  <2>1. CASE ok
    <3>1. /\ status[i] = "script" /\ status' = [status EXCEPT ![i] = "proxied"]
          /\ UNCHANGED <<succeeded, numLoaded, numFailed, numTotal, completed, phase, stale, early>>
      BY <1>7, <2>1 DEF ScriptAnswers, counters
    <3>2. StatusOK'
      BY <3>1 DEF CountInv, StatusOK, Waiting, Loading
    <3>3. Found' = Found
      BY <3>1 DEF CountInv, StatusOK, Found
    <3>4. Settled' = Settled /\ Failed' = Failed
      BY <3>1 DEF CountInv, StatusOK, Settled, Failed
    <3>5. Outstanding => Outstanding'
      BY <3>1 DEF CountInv, StatusOK, Outstanding, Waiting, Loading
    <3>6. Exact => Exact'
      BY <3>1, <3>3, <3>4 DEF Exact
    <3> QED
      BY <3>1, <3>2, <3>5, <3>6 DEF CountInv
  <2>2. CASE ~ok
    BY <1>2, <1>7, <2>2 DEF ScriptAnswers
  <2> QED
    BY <2>1, <2>2
<1>8. CASE Timeout
  BY <1>8, CleanupInv DEF Timeout
<1>9. CASE UNCHANGED preloadVars
  <2>1. Settled' = Settled /\ Failed' = Failed /\ Found' = Found
    BY <1>9 DEF preloadVars, Settled, Failed, Found
  <2> QED
    BY <1>9, <2>1 DEF preloadVars, counters, CountInv, StatusOK, Outstanding, Exact
<1> QED
  BY <1>1, <1>3, <1>4, <1>5, <1>6, <1>7, <1>8, <1>9 DEF PreloadNext, BrowserEvent

(* However many images there are, however often a gradient is drawn, and by  *)
(* whatever way each image comes, fails or is given up at the timeout: what  *)
(* numLoaded lacks of numTotal is the number of images that are not settled, *)
(* and complete is called when all are, unless customComplete was ahead of   *)
(* an event.                                                                *)
THEOREM CountsAlwaysExact == PreloadSpec => []CountsAreExact
<1>1. PreloadInit => CountInv
  BY CountInit
<1>2. CountInv /\ [PreloadNext]_preloadVars => CountInv'
  BY CountStep
<1>3. CountInv => CountsAreExact
  BY DEF CountInv, Exact, CountsAreExact
<1> QED
  BY <1>1, <1>2, <1>3, PTL DEF PreloadSpec

(* So it is when the preloading is part of the taking of a picture.         *)
THEOREM ScreenCountsExact == ScreenSpec => []CountsAreExact
<1>1. ScreenInit => CountInv
  BY CountInit DEF ScreenInit
<1>2. CountInv /\ [ScreenNext]_screenVars => CountInv'
  BY CountStep DEF ScreenNext, screenVars
<1>3. CountInv => CountsAreExact
  BY DEF CountInv, Exact, CountsAreExact
<1> QED
  BY <1>1, <1>2, <1>3, PTL DEF ScreenSpec

(***************************************************************************)
(* Screenshot.  What a picture shows, and in which order, is what recursive *)
(* functions make of the document: that they exist is proved first          *)
(* (RecursionExists), then what each computes, by induction along its       *)
(* recursion.                                                               *)
(***************************************************************************)

(* Complete induction on natural numbers, as a fact about sets.             *)
LEMMA LessInduction ==
  ASSUME NEW D \in SUBSET Nat, NEW A,
         \A e \in D : (\A x \in D : x < e => x \in A) => e \in A
  PROVE  D \subseteq A
<1> SUFFICES ASSUME D \ A # {} PROVE FALSE
  OBVIOUS
<1>1. PICK e \in D \ A : \A y \in D \ A : e <= y
  <2> DEFINE T == D \ A
  <2>1. T \subseteq Nat /\ T # {}
    OBVIOUS
  <2> HIDE DEF T
  <2>2. \E x \in T : \A y \in T : x <= y
    BY <2>1, SmallestElement
  <2> QED
    BY <2>2 DEF T
<1>2. \A x \in D : x < e => x \in A
  BY <1>1
<1> QED
  BY <1>1, <1>2

(* A function that is defined by recursion exists: what F says of it at an   *)
(* element depends on elements of smaller rank alone.                       *)
Below(rank, D, bound) == bound \in Nat /\ \A c \in D : rank[c] < bound
DependsBelow(F, D, V, rank) ==
  \A f, g \in [D -> V], c \in D :
    (\A x \in D : rank[x] < rank[c] => f[x] = g[x]) => F[f][c] = F[g][c]

Recursion(F, D, V, rank, bound) ==
  /\ V # {} /\ rank \in [D -> Nat] /\ Below(rank, D, bound)
  /\ F \in [[D -> V] -> [D -> V]] /\ DependsBelow(F, D, V, rank)
HasFixedPoint(F, D, V) == \E f \in [D -> V] : F[f] = f

LEMMA RecursionExists ==
  ASSUME NEW D, NEW V, NEW rank, NEW bound, NEW F, Recursion(F, D, V, rank, bound)
  PROVE  HasFixedPoint(F, D, V)
<1> USE DEF Recursion
<1> DEFINE Fixed(f, m) == \A c \in D : rank[c] < m => F[f][c] = f[c]
           A == {m \in Nat : \E f \in [D -> V] : Fixed(f, m)}
<1>1. ASSUME NEW m \in Nat, \A x \in Nat : x < m => x \in A
      PROVE  m \in A
  <2>1. CASE m = 0
    <3>1. PICK v : v \in V
      OBVIOUS
    <3>2. [c \in D |-> v] \in [D -> V]
      BY <3>1
    <3>3. \A f : Fixed(f, 0)
      OBVIOUS
    <3> QED
      BY <2>1, <3>2, <3>3
  <2>2. CASE m # 0
    <3>1. m - 1 \in Nat /\ m - 1 < m
      BY <2>2
    <3>2. PICK f \in [D -> V] : Fixed(f, m - 1)
      BY <1>1, <3>1
    <3> DEFINE h == [c \in D |-> IF rank[c] < m - 1 THEN f[c] ELSE F[f][c]]
    <3>3. F[f] \in [D -> V]
      OBVIOUS
    <3>4. h \in [D -> V] /\ \A c \in D : h[c] = IF rank[c] < m - 1 THEN f[c] ELSE F[f][c]
      BY <3>3
    <3> HIDE DEF h
    <3>5. ASSUME NEW c \in D, rank[c] < m PROVE F[h][c] = h[c]
      <4>1. \A x \in D : rank[x] < rank[c] => h[x] = f[x]
        <5> TAKE x \in D
        <5> HAVE rank[x] < rank[c]
        <5>1. rank[x] < m - 1
          BY <3>1, <3>5
        <5> QED
          BY <3>4, <5>1
      <4>2. F[h][c] = F[f][c]
        BY <3>4, <4>1 DEF DependsBelow
      <4>3. h[c] = F[f][c]
        BY <3>2, <3>4
      <4> QED
        BY <4>2, <4>3
    <3> QED
      BY <3>4, <3>5
  <2> QED
    BY <2>1, <2>2
<1> HIDE DEF A
<1>2. Nat \subseteq A
  BY <1>1, LessInduction
<1>3. PICK f \in [D -> V] : Fixed(f, bound)
  BY <1>2 DEF A, Below
<1>4. F[f] \in [D -> V] /\ \A c \in D : F[f][c] = f[c]
  BY <1>3 DEF Below
<1> QED
  BY <1>4 DEF HasFixedPoint

Ordered(s, R) == \A i, j \in 1 .. Len(s) : i < j => <<s[i], s[j]>> \in R

(* What is in two sequences, one after the other                             *)
LEMMA Concat ==
  ASSUME NEW S, NEW a \in Seq(S), NEW b \in Seq(S)
  PROVE  /\ a \o b \in Seq(S) /\ ToSet(a \o b) = ToSet(a) \cup ToSet(b)
<1> DEFINE m == Len(a)
           n == Len(b)
           c == a \o b
<1>1. /\ m \in Nat /\ n \in Nat /\ c \in Seq(S) /\ Len(c) = m + n
      /\ DOMAIN a = 1 .. m /\ DOMAIN b = 1 .. n /\ DOMAIN c = 1 .. m + n
      /\ \A i \in 1 .. m : c[i] = a[i]
      /\ \A i \in m + 1 .. m + n : c[i] = b[i - m] /\ i - m \in 1 .. n
      /\ \A i \in 1 .. n : c[m + i] = b[i] /\ m + i \in m + 1 .. m + n
  OBVIOUS
<1>2. ToSet(a) = {a[i] : i \in 1 .. m} /\ ToSet(b) = {b[i] : i \in 1 .. n}
      /\ ToSet(c) = {c[i] : i \in 1 .. m + n}
  BY <1>1 DEF ToSet
<1> HIDE DEF m, n, c
<1>3. ToSet(c) = ToSet(a) \cup ToSet(b)
  <2>1. \A i \in 1 .. m + n : i \in 1 .. m \/ i \in m + 1 .. m + n
    BY <1>1
  <2>2. \A i \in 1 .. m : i \in 1 .. m + n
    BY <1>1
  <2>3. \A i \in m + 1 .. m + n : i \in 1 .. m + n
    BY <1>1
  <2>4. ToSet(c) \subseteq ToSet(a) \cup ToSet(b)
    BY <1>1, <1>2, <2>1
  <2>5. ToSet(a) \subseteq ToSet(c)
    BY <1>1, <1>2, <2>2
  <2>6. ToSet(b) \subseteq ToSet(c)
    BY <1>1, <1>2, <2>3
  <2> QED
    BY <2>4, <2>5, <2>6
<1> QED
  BY <1>1, <1>3 DEF c

(* They are in order if both are, and the first's elements come before.      *)
LEMMA ConcatOrdered ==
  ASSUME NEW S, NEW a \in Seq(S), NEW b \in Seq(S), NEW R, Ordered(a, R), Ordered(b, R),
         \A x \in ToSet(a), y \in ToSet(b) : <<x, y>> \in R
  PROVE  Ordered(a \o b, R)
<1> DEFINE m == Len(a)
           n == Len(b)
           c == a \o b
<1>1. /\ m \in Nat /\ n \in Nat /\ Len(c) = m + n
      /\ \A i \in 1 .. m : c[i] = a[i] /\ a[i] \in ToSet(a)
      /\ \A i \in m + 1 .. m + n : c[i] = b[i - m] /\ i - m \in 1 .. n /\ b[i - m] \in ToSet(b)
  BY DEF ToSet
<1>2. /\ \A i, j \in 1 .. m : i < j => <<a[i], a[j]>> \in R
      /\ \A i, j \in 1 .. n : i < j => <<b[i], b[j]>> \in R
  BY DEF Ordered
<1> HIDE DEF m, n, c
<1> SUFFICES ASSUME NEW i \in 1 .. m + n, NEW j \in 1 .. m + n, i < j
             PROVE  <<c[i], c[j]>> \in R
  BY <1>1 DEF Ordered, c
<1>3. CASE j \in 1 .. m
  <2>1. i \in 1 .. m
    BY <1>1, <1>3
  <2> QED
    BY <1>1, <1>2, <1>3, <2>1
<1>4. CASE i \in m + 1 .. m + n
  <2>1. j \in m + 1 .. m + n /\ i - m < j - m
    BY <1>1, <1>4
  <2> QED
    BY <1>1, <1>2, <1>4, <2>1
<1>5. CASE i \in 1 .. m /\ j \in m + 1 .. m + n
  BY <1>1, <1>5
<1>6. (i \in 1 .. m \/ i \in m + 1 .. m + n) /\ (j \in 1 .. m \/ j \in m + 1 .. m + n)
  BY <1>1
<1> QED
  BY <1>3, <1>4, <1>5, <1>6

(* FlattenSeq: what the prefixes of the sequence come to.                    *)
Flattens(g, seqs) ==
  g = [i \in 1 .. Len(seqs) |-> IF i = 1 THEN seqs[i] ELSE g[i - 1] \o seqs[i]]

Flattened(seqs) == CHOOSE g : Flattens(g, seqs)

LEMMA FlattenExists ==
  ASSUME NEW S, NEW seqs \in Seq(Seq(S))
  PROVE  \E g : Flattens(g, seqs)
<1> DEFINE D == 1 .. Len(seqs)
           V == Seq(S)
           rank == [i \in D |-> i]
           Step(f) == [i \in D |-> IF i = 1 THEN seqs[i] ELSE f[i - 1] \o seqs[i]]
           F == [f \in [D -> V] |-> Step(f)]
<1>1. \A i \in D : seqs[i] \in V /\ i \in Nat /\ (i # 1 => i - 1 \in D /\ i - 1 < i)
  OBVIOUS
<1>2. V # {} /\ \A s, t \in V : s \o t \in V
  OBVIOUS
<1>3. rank \in [D -> Nat] /\ Len(seqs) + 1 \in Nat /\ \A i \in D : rank[i] = i /\ rank[i] < Len(seqs) + 1
  OBVIOUS
<1> HIDE DEF D, V, rank
<1>4. \A f \in [D -> V] : Step(f) \in [D -> V]
  BY <1>1, <1>2
<1>5. F \in [[D -> V] -> [D -> V]] /\ \A f \in [D -> V] : F[f] = Step(f)
  BY <1>4
<1>6. DependsBelow(F, D, V, rank)
  <2> USE DEF DependsBelow
  <2> TAKE f, g \in [D -> V], c \in D
  <2> HAVE \A x \in D : rank[x] < rank[c] => f[x] = g[x]
  <2>1. c # 1 => f[c - 1] = g[c - 1]
    BY <1>1, <1>3
  <2> QED
    BY <1>5, <2>1
<1> HIDE DEF F, Step
<1>7. PICK f \in [D -> V] : F[f] = f
  <2>1. Recursion(F, D, V, rank, Len(seqs) + 1)
    BY <1>2, <1>3, <1>5, <1>6 DEF Recursion, Below
  <2>2. HasFixedPoint(F, D, V)
    BY <2>1, RecursionExists
  <2> QED
    BY <2>2 DEF HasFixedPoint
<1>8. f = Step(f)
  BY <1>5, <1>7
<1> QED
  BY <1>8 DEF Flattens, D, Step

LEMMA FlattenUnfold ==
  ASSUME NEW S, NEW seqs \in Seq(Seq(S)), Len(seqs) # 0
  PROVE  \E g : Flattens(g, seqs) /\ FlattenSeq(seqs) = g[Len(seqs)]
<1>1. Flattens(Flattened(seqs), seqs)
  BY FlattenExists, Zenon DEF Flattened
<1>2. FlattenSeq(seqs) = Flattened(seqs)[Len(seqs)]
  BY Zenon DEF FlattenSeq, Flattened, Flattens
<1> QED
  BY <1>1, <1>2

(* The elements of the parts; and they are in order if those of each part     *)
(* are, and each part comes before the later ones.                           *)
LEMMA FlattenFacts ==
  ASSUME NEW S, NEW seqs \in Seq(Seq(S)), NEW R,
         \A k \in 1 .. Len(seqs) : Ordered(seqs[k], R),
         \A k, n \in 1 .. Len(seqs) : k < n =>
           \A x \in ToSet(seqs[k]), y \in ToSet(seqs[n]) : <<x, y>> \in R
  PROVE  /\ FlattenSeq(seqs) \in Seq(S)
         /\ ToSet(FlattenSeq(seqs)) = UNION {ToSet(seqs[k]) : k \in 1 .. Len(seqs)}
         /\ Ordered(FlattenSeq(seqs), R)
<1>1. CASE Len(seqs) = 0
  <2>1. seqs = <<>> /\ FlattenSeq(seqs) = seqs /\ 1 .. Len(seqs) = {}
    BY <1>1 DEF FlattenSeq
  <2>2. ToSet(<<>>) = {} /\ <<>> \in Seq(S) /\ Ordered(<<>>, R)
    BY DEF ToSet, Ordered
  <2> QED
    BY <2>1, <2>2
<1>2. CASE Len(seqs) # 0
  <2> DEFINE n == Len(seqs)
  <2>1. n \in Nat /\ n # 0 /\ \A k \in 1 .. n : seqs[k] \in Seq(S)
    BY <1>2
  <2>2. PICK g : Flattens(g, seqs) /\ FlattenSeq(seqs) = g[n]
    BY <1>2, FlattenUnfold
  <2>3. \A k \in 1 .. n : g[k] = IF k = 1 THEN seqs[k] ELSE g[k - 1] \o seqs[k]
    BY <2>2, Zenon DEF Flattens
  <2> HIDE DEF n
  <2> DEFINE Good(k) == /\ g[k] \in Seq(S)
                        /\ ToSet(g[k]) = UNION {ToSet(seqs[i]) : i \in 1 .. k}
                        /\ Ordered(g[k], R)
             A == {k \in 1 .. n : Good(k)}
  <2>4. ASSUME NEW k \in 1 .. n, \A x \in 1 .. n : x < k => x \in A
        PROVE  k \in A
    <3>1. CASE k = 1
      <4>1. g[k] = seqs[k] /\ 1 .. k = {k}
        BY <2>1, <2>3, <3>1
      <4> QED
        BY <2>1, <4>1 DEF n
    <3>2. CASE k # 1
      <4>1. k - 1 \in 1 .. n /\ k - 1 < k /\ 1 .. k = (1 .. k - 1) \cup {k}
            /\ \A i \in 1 .. k - 1 : i < k /\ i \in 1 .. n
        BY <2>1, <3>2
      <4>2. Good(k - 1)
        BY <2>4, <4>1
      <4>3. g[k] = g[k - 1] \o seqs[k]
        BY <2>3, <3>2
      <4>4. /\ g[k] \in Seq(S) /\ ToSet(g[k]) = ToSet(g[k - 1]) \cup ToSet(seqs[k])
        BY <2>1, <4>2, <4>3, Concat
      <4>5. \A x \in ToSet(g[k - 1]), y \in ToSet(seqs[k]) : <<x, y>> \in R
        BY <4>1, <4>2 DEF n
      <4>6. Ordered(seqs[k], R)
        BY DEF n
      <4>7. Ordered(g[k], R)
        BY <2>1, <4>2, <4>3, <4>5, <4>6, ConcatOrdered
      <4>8. ToSet(g[k]) = UNION {ToSet(seqs[i]) : i \in 1 .. k}
        BY <4>1, <4>2, <4>4
      <4> QED
        BY <4>4, <4>7, <4>8
    <3> QED
      BY <3>1, <3>2
  <2>5. 1 .. n \in SUBSET Nat /\ n \in 1 .. n
    BY <2>1
  <2> HIDE DEF A
  <2>6. 1 .. n \subseteq A
    BY <2>4, <2>5, LessInduction
  <2>7. Good(n)
    BY <2>5, <2>6 DEF A
  <2> QED
    BY <2>2, <2>7 DEF n
<1> QED
  BY <1>1, <1>2

(* Retain: what it has taken of the beginnings of the sequence.              *)
Retains(g, seq, T) ==
  g = [n \in 0 .. Len(seq) |->
         IF n = 0 THEN <<>> ELSE IF seq[n] \in T THEN Append(g[n - 1], seq[n]) ELSE g[n - 1]]

Retained(seq, T) == CHOOSE g : Retains(g, seq, T)

LEMMA RetainExists ==
  ASSUME NEW S, NEW seq \in Seq(S), NEW T
  PROVE  \E g : Retains(g, seq, T)
<1> DEFINE D == 0 .. Len(seq)
           V == Seq(S)
           rank == [n \in D |-> n]
           Step(f) == [n \in D |-> IF n = 0 THEN <<>>
                                   ELSE IF seq[n] \in T THEN Append(f[n - 1], seq[n])
                                   ELSE f[n - 1]]
           F == [f \in [D -> V] |-> Step(f)]
<1>1. \A n \in D : n \in Nat /\ (n # 0 => n - 1 \in D /\ n - 1 < n /\ seq[n] \in S)
  OBVIOUS
<1>2. V # {} /\ <<>> \in V /\ \A s \in V, x \in S : Append(s, x) \in V
  OBVIOUS
<1>3. rank \in [D -> Nat] /\ Len(seq) + 1 \in Nat /\ \A n \in D : rank[n] = n /\ rank[n] < Len(seq) + 1
  OBVIOUS
<1> HIDE DEF D, V, rank
<1>4. \A f \in [D -> V] : Step(f) \in [D -> V]
  BY <1>1, <1>2
<1>5. F \in [[D -> V] -> [D -> V]] /\ \A f \in [D -> V] : F[f] = Step(f)
  BY <1>4
<1>6. DependsBelow(F, D, V, rank)
  <2> USE DEF DependsBelow
  <2> TAKE f, g \in [D -> V], c \in D
  <2> HAVE \A x \in D : rank[x] < rank[c] => f[x] = g[x]
  <2>1. c # 0 => f[c - 1] = g[c - 1]
    BY <1>1, <1>3
  <2> QED
    BY <1>5, <2>1
<1> HIDE DEF F, Step
<1>7. PICK f \in [D -> V] : F[f] = f
  <2>1. Recursion(F, D, V, rank, Len(seq) + 1)
    BY <1>2, <1>3, <1>5, <1>6 DEF Recursion, Below
  <2>2. HasFixedPoint(F, D, V)
    BY <2>1, RecursionExists
  <2> QED
    BY <2>2 DEF HasFixedPoint
<1>8. f = Step(f)
  BY <1>5, <1>7
<1> QED
  BY <1>8 DEF Retains, D, Step

LEMMA AppendConcat ==
  ASSUME NEW S, NEW s \in Seq(S), NEW x \in S
  PROVE  Append(s, x) = s \o <<x>>
<1>1. Append(s, x) \in Seq(S) /\ s \o <<x>> \in Seq(S)
  OBVIOUS
<1>2. Len(Append(s, x)) = Len(s \o <<x>>)
  OBVIOUS
<1>3. \A i \in 1 .. Len(s) + 1 : Append(s, x)[i] = (s \o <<x>>)[i]
  OBVIOUS
<1> QED
  BY <1>1, <1>2, <1>3

LEMMA RetainUnfold ==
  ASSUME NEW S, NEW seq \in Seq(S), NEW T
  PROVE  \E g : Retains(g, seq, T) /\ Retain(seq, T) = g[Len(seq)]
<1>1. Retains(Retained(seq, T), seq, T)
  BY RetainExists, Zenon DEF Retained
<1>2. Retain(seq, T) = Retained(seq, T)[Len(seq)]
  BY Zenon DEF Retain, Retained, Retains
<1> QED
  BY <1>1, <1>2

(* The elements of the sequence that are in T, in its order                  *)
LEMMA RetainFacts ==
  ASSUME NEW S, NEW seq \in Seq(S), NEW T, NEW R
  PROVE  /\ Retain(seq, T) \in Seq(S)
         /\ ToSet(Retain(seq, T)) = ToSet(seq) \cap T
         /\ Ordered(seq, R) => Ordered(Retain(seq, T), R)
<1> DEFINE m == Len(seq)
<1>1. m \in Nat /\ DOMAIN seq = 1 .. m /\ \A n \in 1 .. m : seq[n] \in S
  OBVIOUS
<1>2. PICK g : Retains(g, seq, T) /\ Retain(seq, T) = g[m]
  BY RetainUnfold
<1>3. \A n \in 0 .. m : g[n] = IF n = 0 THEN <<>>
                               ELSE IF seq[n] \in T THEN Append(g[n - 1], seq[n]) ELSE g[n - 1]
  BY <1>2, Zenon DEF Retains
<1>4. Ordered(seq, R) => \A i, j \in 1 .. m : i < j => <<seq[i], seq[j]>> \in R
  BY DEF Ordered
<1> DEFINE O == Ordered(seq, R)
<1> HIDE DEF m, O
<1> DEFINE Good(n) == /\ g[n] \in Seq(S)
                      /\ ToSet(g[n]) = {seq[i] : i \in 1 .. n} \cap T
                      /\ O => Ordered(g[n], R)
           A == {n \in 0 .. m : Good(n)}
<1>5. ASSUME NEW n \in 0 .. m, \A x \in 0 .. m : x < n => x \in A
      PROVE  n \in A
  <2>1. CASE n = 0
    <3>1. g[n] = <<>> /\ 1 .. n = {}
      BY <1>1, <1>3, <2>1
    <3>2. ToSet(<<>>) = {} /\ <<>> \in Seq(S) /\ Ordered(<<>>, R)
      BY DEF ToSet, Ordered
    <3> QED
      BY <3>1, <3>2
  <2>2. CASE n # 0
    <3>1. /\ n - 1 \in 0 .. m /\ n - 1 < n /\ n \in 1 .. m /\ 1 .. n = (1 .. n - 1) \cup {n}
          /\ \A i \in 1 .. n - 1 : i < n /\ i \in 1 .. m
      BY <1>1, <2>2
    <3>2. Good(n - 1)
      BY <1>5, <3>1
    <3>3. CASE seq[n] \notin T
      <4>1. g[n] = g[n - 1]
        BY <1>3, <2>2, <3>3
      <4> QED
        BY <3>1, <3>2, <3>3, <4>1
    <3>4. CASE seq[n] \in T
      <4> DEFINE last == <<seq[n]>>
      <4>1. g[n] = g[n - 1] \o last
        <5>1. g[n] = Append(g[n - 1], seq[n])
          BY <1>3, <2>2, <3>4
        <5>2. seq[n] \in S /\ g[n - 1] \in Seq(S)
          BY <1>1, <3>1, <3>2
        <5> QED
          BY <5>1, <5>2, AppendConcat
      <4>2. last \in Seq(S) /\ ToSet(last) = {seq[n]} /\ Ordered(last, R)
        BY <1>1, <3>1 DEF Ordered, ToSet
      <4> HIDE DEF last
      <4>3. g[n] \in Seq(S) /\ ToSet(g[n]) = ToSet(g[n - 1]) \cup ToSet(last)
        BY <3>2, <4>1, <4>2, Concat
      <4>4. ToSet(g[n]) = {seq[i] : i \in 1 .. n} \cap T
        BY <3>1, <3>2, <3>4, <4>2, <4>3
      <4>5. ASSUME O PROVE Ordered(g[n], R)
        <5>1. \A x \in ToSet(g[n - 1]), y \in ToSet(last) : <<x, y>> \in R
          BY <1>4, <3>1, <3>2, <4>2, <4>5 DEF O
        <5> QED
          BY <3>2, <4>1, <4>2, <4>5, <5>1, ConcatOrdered
      <4> QED
        BY <4>3, <4>4, <4>5
    <3> QED
      BY <3>3, <3>4
  <2> QED
    BY <2>1, <2>2
<1>6. 0 .. m \in SUBSET Nat /\ m \in 0 .. m
  BY <1>1
<1> HIDE DEF A
<1>7. 0 .. m \subseteq A
  BY <1>5, <1>6, LessInduction
<1>8. Good(m)
  BY <1>6, <1>7 DEF A
<1>9. ToSet(seq) = {seq[i] : i \in 1 .. m}
  BY <1>1 DEF ToSet
<1> QED
  BY <1>2, <1>8, <1>9 DEF O

(* A finite set can be put in a strict total order.                          *)
Orders(R, S) ==
  /\ \A x \in S : <<x, x>> \notin R
  /\ \A x, y \in S : x = y \/ <<x, y>> \in R \/ <<y, x>> \in R
  /\ \A x, y, z \in S : <<x, y>> \in R /\ <<y, z>> \in R => <<x, z>> \in R

(* It has a last element,                                                    *)
LEMMA LastElement ==
  ASSUME NEW S, IsFiniteSet(S), S # {}, NEW R, Orders(R, S)
  PROVE  \E x \in S : \A y \in S \ {x} : <<y, x>> \in R
<1> DEFINE HasLast(T) == \E x \in T : \A y \in T \ {x} : <<y, x>> \in R
           P == {T \in SUBSET S : T # {} /\ ~HasLast(T)}
<1> SUFFICES ASSUME P # {} PROVE FALSE
  OBVIOUS
<1>1. PICK T \in P : \A U \in P : U \subseteq T => U = T
  <2>1. P \subseteq SUBSET S
    OBVIOUS
  <2> HIDE DEF P
  <2> QED
    BY <2>1, FewestElements
<1>2. PICK y \in T : TRUE
  BY <1>1
<1>3. T \ {y} # {} /\ HasLast(T \ {y})
  <2>1. T \ {y} # {}
    BY <1>1, <1>2
  <2>2. T \ {y} \notin P
    BY <1>1, <1>2
  <2> QED
    BY <1>1, <2>1, <2>2
<1>4. PICK z \in T \ {y} : \A x \in (T \ {y}) \ {z} : <<x, z>> \in R
  BY <1>3
<1>5. y \in S /\ z \in S /\ y # z /\ T \subseteq S
  BY <1>1, <1>2, <1>4
<1>6. CASE <<y, z>> \in R
  BY <1>1, <1>4, <1>6
<1>7. CASE <<z, y>> \in R
  <2>1. \A x \in T \ {y} : <<x, y>> \in R
    BY <1>4, <1>5, <1>7 DEF Orders
  <2> QED
    BY <1>1, <1>2, <2>1
<1> QED
  BY <1>5, <1>6, <1>7 DEF Orders

Arrangements(S, R) ==
  {seq \in [1 .. Cardinality(S) -> S] : \A i, j \in DOMAIN seq : i < j => <<seq[i], seq[j]>> \in R}

(* so the others, arranged, and then the last are an arrangement of it,      *)
LEMMA ArrangementExists ==
  ASSUME NEW S, IsFiniteSet(S), NEW R, Orders(R, S)
  PROVE  Arrangements(S, R) # {}
<1> DEFINE P == {T \in SUBSET S : Arrangements(T, R) = {}}
<1> SUFFICES ASSUME P # {} PROVE FALSE
  OBVIOUS
<1>1. PICK T \in P : \A U \in P : U \subseteq T => U = T
  <2>1. P \subseteq SUBSET S
    OBVIOUS
  <2> HIDE DEF P
  <2> QED
    BY <2>1, FewestElements
<1>2. T \subseteq S /\ Arrangements(T, R) = {}
  BY <1>1
<1>3. T # {}
  <2> SUFFICES ASSUME T = {} PROVE FALSE
    OBVIOUS
  <2>1. Cardinality(T) = 0
    BY FS_EmptySet
  <2>2. <<>> \in [1 .. 0 -> T] /\ DOMAIN <<>> = {}
    OBVIOUS
  <2> QED
    BY <1>2, <2>1, <2>2 DEF Arrangements
<1>4. IsFiniteSet(T) /\ Orders(R, T)
  <2>1. IsFiniteSet(T)
    BY <1>2, FS_Subset
  <2> QED
    BY <1>2, <2>1 DEF Orders
<1>5. PICK x \in T : \A y \in T \ {x} : <<y, x>> \in R
  BY <1>3, <1>4, LastElement
<1> DEFINE U == T \ {x}
           n == Cardinality(T)
<1>6. n \in Nat /\ n # 0 /\ Cardinality(U) = n - 1 /\ n - 1 \in Nat
  <2>1. Cardinality(T \ {x}) = n - 1 /\ Cardinality(T \ {x}) \in Nat /\ n \in Nat
    BY <1>4, <1>5, FS_RemoveElement, FS_CardinalityType
  <2> QED
    BY <2>1
<1>7. PICK seq \in [1 .. n - 1 -> U] :
        \A i, j \in DOMAIN seq : i < j => <<seq[i], seq[j]>> \in R
  <2>1. Arrangements(U, R) # {}
    BY <1>1, <1>2, <1>5
  <2> QED
    BY <1>6, <2>1 DEF Arrangements
<1> HIDE DEF n
<1> DEFINE longer == [i \in 1 .. n |-> IF i = n THEN x ELSE seq[i]]
<1>8. \A i \in 1 .. n : i # n => i \in 1 .. n - 1
  BY <1>6
<1>9. longer \in [1 .. n -> T] /\ DOMAIN longer = 1 .. n
      /\ \A i \in 1 .. n : longer[i] = IF i = n THEN x ELSE seq[i]
  BY <1>5, <1>7, <1>8
<1> HIDE DEF longer
<1>10. ASSUME NEW i \in 1 .. n, NEW j \in 1 .. n, i < j
       PROVE  <<longer[i], longer[j]>> \in R
  <2>1. i # n /\ i \in 1 .. n - 1
    BY <1>6, <1>10
  <2>2. seq[i] \in U
    BY <1>7, <2>1
  <2>3. CASE j = n
    BY <1>5, <1>9, <2>1, <2>2, <2>3
  <2>4. CASE j # n
    <3>1. j \in 1 .. n - 1
      BY <1>8, <2>4
    <3> QED
      BY <1>7, <1>9, <1>10, <2>1, <2>4, <3>1
  <2> QED
    BY <2>3, <2>4
<1> QED
  BY <1>2, <1>9, <1>10 DEF Arrangements, n

(* which has each of its elements.                                           *)
LEMMA ArrangementFacts ==
  ASSUME NEW S, IsFiniteSet(S), NEW R, Orders(R, S), NEW seq \in Arrangements(S, R)
  PROVE  seq \in Seq(S) /\ ToSet(seq) = S /\ Ordered(seq, R)
<1> DEFINE n == Cardinality(S)
<1>1. n \in Nat /\ IsFiniteSet(1 .. n) /\ Cardinality(1 .. n) = n
  <2>1. n \in Nat
    BY FS_CardinalityType
  <2> HIDE DEF n
  <2> QED
    BY <2>1, FS_Interval
<1>2. seq \in [1 .. n -> S] /\ \A i, j \in 1 .. n : i < j => <<seq[i], seq[j]>> \in R
  BY DEF Arrangements
<1>3. seq \in Seq(S) /\ Len(seq) = n
  BY <1>1, <1>2
<1>4. seq \in Injection(1 .. n, S)
  <2>1. \A i, j \in 1 .. n : i < j \/ j < i \/ i = j
    BY <1>1
  <2>2. \A i, j \in 1 .. n : seq[i] = seq[j] => i = j
    BY <1>2, <2>1 DEF Orders
  <2> QED
    BY <1>2, <2>2 DEF Injection, IsInjective
<1>5. seq \in Surjection(1 .. n, S)
  BY <1>1, <1>4, FS_Injection
<1>6. ToSet(seq) = S
  BY <1>2, <1>5 DEF ToSet, Surjection
<1> QED
  BY <1>2, <1>3, <1>6 DEF Ordered

(* InDocumentOrder and SortZ are such arrangements.                          *)
DocumentOrder == {p \in Nat \X Nat : p[1] < p[2]}
ZOrder(d) == {p \in Elements(d) \X Elements(d) : InZOrder(d, p[1], p[2])}

LEMMA InDocumentOrderFacts ==
  ASSUME NEW S \in SUBSET Nat, IsFiniteSet(S)
  PROVE  /\ InDocumentOrder(S) \in Seq(S) /\ ToSet(InDocumentOrder(S)) = S
         /\ Ordered(InDocumentOrder(S), DocumentOrder)
<1>1. Orders(DocumentOrder, S)
  BY DEF Orders, DocumentOrder
<1>2. Arrangements(S, DocumentOrder) # {}
  BY <1>1, ArrangementExists
<1>3. \A seq \in [1 .. Cardinality(S) -> S] :
        seq \in Arrangements(S, DocumentOrder)
          <=> \A i, j \in DOMAIN seq : i < j => seq[i] < seq[j]
  BY DEF Arrangements, DocumentOrder
<1>4. InDocumentOrder(S) \in Arrangements(S, DocumentOrder)
  <2>1. \E seq \in [1 .. Cardinality(S) -> S] : \A i, j \in DOMAIN seq : i < j => seq[i] < seq[j]
    BY <1>2, <1>3 DEF Arrangements
  <2> QED
    BY <1>3, <2>1 DEF InDocumentOrder, Arranged
<1> QED
  BY <1>1, <1>4, ArrangementFacts

LEMMA SortZFacts ==
  ASSUME NEW d, Elements(d) \subseteq Nat, NEW S \in SUBSET Elements(d), IsFiniteSet(S),
         \A e \in S : d.z[e] \in SUBSET Int /\ d.z[e] # {}
  PROVE  /\ SortZ(d, S) \in Seq(S) /\ ToSet(SortZ(d, S)) = S
         /\ Ordered(SortZ(d, S), ZOrder(d))
<1>1. Orders(ZOrder(d), S)
  <2>1. \A e \in S : ZIndex(d, e) \in Int /\ e \in Nat /\ e \in Elements(d)
    BY DEF ZIndex
  <2>2. \A e, f \in S : <<e, f>> \in ZOrder(d) <=>
          ZIndex(d, e) < ZIndex(d, f) \/ (ZIndex(d, e) = ZIndex(d, f) /\ e < f)
    BY <2>1 DEF ZOrder, InZOrder
  <2>3. \A x \in S : <<x, x>> \notin ZOrder(d)
    BY <2>1, <2>2
  <2>4. \A x, y \in S : x = y \/ <<x, y>> \in ZOrder(d) \/ <<y, x>> \in ZOrder(d)
    <3> TAKE x, y \in S
    <3> DEFINE m == ZIndex(d, x)
               n == ZIndex(d, y)
    <3>1. m \in Int /\ n \in Int /\ x \in Nat /\ y \in Nat
      BY <2>1
    <3>2. (<<x, y>> \in ZOrder(d) <=> m < n \/ (m = n /\ x < y))
          /\ (<<y, x>> \in ZOrder(d) <=> n < m \/ (n = m /\ y < x))
      BY <2>2
    <3> HIDE DEF m, n
    <3> QED
      BY <3>1, <3>2
  <2>5. \A x, y, z \in S : <<x, y>> \in ZOrder(d) /\ <<y, z>> \in ZOrder(d) => <<x, z>> \in ZOrder(d)
    BY <2>1, <2>2
  <2> QED
    BY <2>3, <2>4, <2>5 DEF Orders
<1>2. Arrangements(S, ZOrder(d)) # {}
  BY <1>1, ArrangementExists
<1>3. \A seq \in [1 .. Cardinality(S) -> S] :
        seq \in Arrangements(S, ZOrder(d))
          <=> \A i, j \in DOMAIN seq : i < j => InZOrder(d, seq[i], seq[j])
  <2> TAKE seq \in [1 .. Cardinality(S) -> S]
  <2>1. \A i, j \in DOMAIN seq : <<seq[i], seq[j]>> \in ZOrder(d) <=> InZOrder(d, seq[i], seq[j])
    BY DEF ZOrder
  <2> QED
    BY <2>1 DEF Arrangements
<1>4. SortZ(d, S) \in Arrangements(S, ZOrder(d))
  <2>1. \E seq \in [1 .. Cardinality(S) -> S] :
          \A i, j \in DOMAIN seq : i < j => InZOrder(d, seq[i], seq[j])
    BY <1>2, <1>3 DEF Arrangements
  <2> QED
    BY <1>3, <2>1 DEF SortZ, Arranged
<1> QED
  BY <1>1, <1>4, ArrangementFacts

(* A document's elements are the numbers from 1, and a parent's is smaller.  *)
LEMMA TreeFacts ==
  ASSUME NEW d \in Documents
  PROVE  /\ Len(d.parent) \in Nat /\ Elements(d) = 1 .. Len(d.parent)
         /\ IsFiniteSet(Elements(d)) /\ Root \in Elements(d)
         /\ \A e \in Elements(d) \ {Root} : d.parent[e] \in Elements(d) /\ d.parent[e] < e
         /\ \A e \in Elements(d) : e \in Nat /\ e # 0 /\ d.z[e] \in SUBSET Int
<1>1. /\ d.parent \in Seq(Nat) /\ Root \in Elements(d)
      /\ \A e \in Elements(d) \ {Root} : d.parent[e] \in 1 .. e - 1
      /\ d.z \in [Elements(d) -> SUBSET Int]
  BY DocumentAssumption
<1> DEFINE n == Len(d.parent)
<1>2. n \in Nat /\ Elements(d) = 1 .. n
  BY <1>1 DEF Elements
<1> HIDE DEF n
<1>3. IsFiniteSet(1 .. n)
  BY <1>2, FS_Interval
<1>4. \A e \in 1 .. n : e \in Nat /\ e # 0
  BY <1>2
<1>5. \A e \in Elements(d) \ {Root} : d.parent[e] \in 1 .. n /\ d.parent[e] < e
  BY <1>1, <1>2
<1>6. \A e \in Elements(d) : d.z[e] \in SUBSET Int
  BY <1>1
<1> QED
  BY <1>1, <1>2, <1>3, <1>4, <1>5, <1>6 DEF n

(* What recursion along the parents defines exists.                          *)
Along(F, d, V) ==
  /\ V # {} /\ F \in [[Elements(d) -> V] -> [Elements(d) -> V]]
  /\ \A f, g \in [Elements(d) -> V], e \in Elements(d) :
       (e # Root => f[d.parent[e]] = g[d.parent[e]]) => F[f][e] = F[g][e]

LEMMA AlongExists ==
  ASSUME NEW d \in Documents, NEW V, NEW F, Along(F, d, V)
  PROVE  HasFixedPoint(F, Elements(d), V)
<1> DEFINE D == Elements(d)
           rank == [e \in D |-> e]
           bound == Len(d.parent) + 1
<1>1. \A e \in D : e \in Nat /\ e < bound /\ (e # Root => d.parent[e] \in D /\ d.parent[e] < e)
  BY TreeFacts
<1>2. bound \in Nat
  BY TreeFacts
<1>3. rank \in [D -> Nat] /\ \A e \in D : rank[e] = e
  BY <1>1
<1> HIDE DEF D, rank, bound
<1>4. DependsBelow(F, D, V, rank)
  <2> USE DEF DependsBelow
  <2> TAKE f, g \in [D -> V], c \in D
  <2> HAVE \A x \in D : rank[x] < rank[c] => f[x] = g[x]
  <2>1. c # Root => f[d.parent[c]] = g[d.parent[c]]
    BY <1>1, <1>3
  <2> QED
    BY <2>1 DEF Along, D
<1>5. Recursion(F, D, V, rank, bound)
  BY <1>1, <1>2, <1>3, <1>4 DEF Recursion, Below, Along, D
<1>6. HasFixedPoint(F, D, V)
  BY <1>5, RecursionExists
<1> QED
  BY <1>6 DEF D

(* StackOf *)
Stacks(d, s) ==
  s = [e \in Elements(d) |-> IF e = Root \/ d.z[e] # {} THEN e ELSE s[d.parent[e]]]
TheStack(d) == CHOOSE s : Stacks(d, s)

LEMMA StackExists ==
  ASSUME NEW d \in Documents
  PROVE  \E s \in [Elements(d) -> Elements(d)] : Stacks(d, s)
<1> DEFINE D == Elements(d)
           Step(f) == [e \in D |-> IF e = Root \/ d.z[e] # {} THEN e ELSE f[d.parent[e]]]
           F == [f \in [D -> D] |-> Step(f)]
<1>1. Root \in D /\ \A e \in D : e # Root => d.parent[e] \in D
  BY TreeFacts
<1> HIDE DEF D
<1>2. \A f \in [D -> D] : Step(f) \in [D -> D]
  BY <1>1
<1>3. F \in [[D -> D] -> [D -> D]] /\ \A f \in [D -> D] : F[f] = Step(f)
  BY <1>2
<1>4. \A f, g \in [D -> D], e \in D :
       (e # Root => f[d.parent[e]] = g[d.parent[e]]) => F[f][e] = F[g][e]
  BY <1>3
<1> HIDE DEF F, Step
<1>5. Along(F, d, D)
  BY <1>1, <1>3, <1>4 DEF Along, D
<1>6. PICK f \in [D -> D] : F[f] = f
  BY <1>5, AlongExists DEF HasFixedPoint, D
<1>7. f = Step(f)
  BY <1>3, <1>6
<1> QED
  BY <1>6, <1>7 DEF Stacks, D, Step

LEMMA StackFacts ==
  ASSUME NEW d \in Documents
  PROVE  \A e \in Elements(d) :
           StackOf(d)[e] = IF e = Root \/ d.z[e] # {} THEN e ELSE StackOf(d)[d.parent[e]]
<1>1. Stacks(d, TheStack(d))
  BY StackExists, Zenon DEF TheStack
<1>2. StackOf(d) = [e \in Elements(d) |-> TheStack(d)[e]]
  BY Zenon DEF StackOf, TheStack, Stacks
<1>3. \A e \in Elements(d) :
        TheStack(d)[e] = IF e = Root \/ d.z[e] # {} THEN e ELSE TheStack(d)[d.parent[e]]
  BY <1>1, Zenon DEF Stacks
<1>4. \A e \in Elements(d) : e # Root => d.parent[e] \in Elements(d)
  BY TreeFacts
<1> QED
  BY <1>2, <1>3, <1>4

(* Visible *)
Shows(d, v) ==
  v = [e \in Elements(d) |->
         \/ e = Root
         \/ /\ e \notin d.hidden
            /\ v[d.parent[e]]
            /\ IF e \in d.pseudo THEN Injected(d, e) ELSE d.parent[e] \notin d.ignored]
TheShown(d) == CHOOSE v : Shows(d, v)

LEMMA ShownExists ==
  ASSUME NEW d \in Documents
  PROVE  \E v : Shows(d, v)
<1> DEFINE D == Elements(d)
           Step(v) == [e \in D |->
             \/ e = Root
             \/ /\ e \notin d.hidden
                /\ v[d.parent[e]]
                /\ IF e \in d.pseudo THEN Injected(d, e) ELSE d.parent[e] \notin d.ignored]
           F == [v \in [D -> BOOLEAN] |-> Step(v)]
<1>1. \A f \in [D -> BOOLEAN] : Step(f) \in [D -> BOOLEAN]
  OBVIOUS
<1>2. F \in [[D -> BOOLEAN] -> [D -> BOOLEAN]] /\ \A f \in [D -> BOOLEAN] : F[f] = Step(f)
  BY <1>1
<1>3. \A f, g \in [D -> BOOLEAN], e \in D :
       (e # Root => f[d.parent[e]] = g[d.parent[e]]) => F[f][e] = F[g][e]
  <2> TAKE f, g \in [D -> BOOLEAN], e \in D
  <2>1. F[f] = Step(f) /\ F[g] = Step(g)
    BY <1>2
  <2> QED
    BY <2>1, Zenon
<1> HIDE DEF F, Step
<1>4. Along(F, d, BOOLEAN)
  BY <1>2, <1>3 DEF Along
<1>5. PICK f \in [D -> BOOLEAN] : F[f] = f
  BY <1>4, AlongExists DEF HasFixedPoint
<1>6. f = Step(f)
  BY <1>2, <1>5
<1> QED
  BY <1>6, Zenon DEF Shows, Step

(* A visible element's parent is visible.                                    *)
LEMMA VisibleFacts ==
  ASSUME NEW d \in Documents
  PROVE  /\ Visible(d) \subseteq Elements(d) /\ Root \in Visible(d)
         /\ \A e \in Visible(d) : e # Root => d.parent[e] \in Visible(d)
<1>1. Shows(d, TheShown(d))
  BY ShownExists, Zenon DEF TheShown
<1>2. Visible(d) = {e \in Elements(d) : TheShown(d)[e]}
  BY Zenon DEF Visible, TheShown, Shows
<1>3. \A e \in Elements(d) : e = Root => TheShown(d)[e]
  BY <1>1, Zenon DEF Shows
<1>4. \A e \in Elements(d) : e # Root /\ TheShown(d)[e] => TheShown(d)[d.parent[e]]
  BY <1>1, Zenon DEF Shows
<1>5. Root \in Elements(d) /\ \A e \in Elements(d) : e # Root => d.parent[e] \in Elements(d)
  BY TreeFacts
<1> QED
  BY <1>2, <1>3, <1>4, <1>5, Zenon

(* Chain *)
Chains(d, c) ==
  c = [e \in Elements(d) |-> {StackOf(d)[e]} \cup (IF e = Root THEN {} ELSE c[d.parent[e]])]
TheChain(d) == CHOOSE c : Chains(d, c)

LEMMA ChainExists ==
  ASSUME NEW d \in Documents
  PROVE  \E c : Chains(d, c)
<1> DEFINE D == Elements(d)
           V == SUBSET {StackOf(d)[e] : e \in D}
           Step(c) == [e \in D |-> {StackOf(d)[e]} \cup (IF e = Root THEN {} ELSE c[d.parent[e]])]
           F == [c \in [D -> V] |-> Step(c)]
<1>1. \A e \in D : e # Root => d.parent[e] \in D
  BY TreeFacts
<1>2. {} \in V /\ (\A e \in D : {StackOf(d)[e]} \in V) /\ \A X, Y \in V : X \cup Y \in V
  OBVIOUS
<1> HIDE DEF D, V
<1>3. \A f \in [D -> V] : Step(f) \in [D -> V]
  BY <1>1, <1>2
<1>4. F \in [[D -> V] -> [D -> V]] /\ \A f \in [D -> V] : F[f] = Step(f)
  BY <1>3
<1>5. \A f, g \in [D -> V], e \in D :
       (e # Root => f[d.parent[e]] = g[d.parent[e]]) => F[f][e] = F[g][e]
  BY <1>4
<1> HIDE DEF F, Step
<1>6. Along(F, d, V)
  BY <1>2, <1>4, <1>5 DEF Along, D
<1>7. PICK f \in [D -> V] : F[f] = f
  BY <1>6, AlongExists DEF HasFixedPoint, D
<1>8. f = Step(f)
  BY <1>4, <1>7
<1> QED
  BY <1>8 DEF Chains, D, Step

LEMMA ChainUnfold ==
  ASSUME NEW d \in Documents
  PROVE  \A e \in Elements(d) :
           Chain(d)[e] = {StackOf(d)[e]} \cup (IF e = Root THEN {} ELSE Chain(d)[d.parent[e]])
<1>1. Chains(d, TheChain(d))
  BY ChainExists, Zenon DEF TheChain
<1>2. Chain(d) = TheChain(d)
  BY Zenon DEF Chain, TheChain, Chains
<1> QED
  BY <1>1, <1>2, Zenon DEF Chains

(* Induction from the root to the leaves                                     *)
LEMMA ParentInduction ==
  ASSUME NEW d \in Documents, NEW A,
         \A e \in Elements(d) : (e # Root => d.parent[e] \in A) => e \in A
  PROVE  Elements(d) \subseteq A
<1> DEFINE D == Elements(d)
<1>1. D \in SUBSET Nat /\ \A e \in D : e # Root => d.parent[e] \in D /\ d.parent[e] < e
  BY TreeFacts
<1> HIDE DEF D
<1>2. \A e \in D : (\A x \in D : x < e => x \in A) => e \in A
  BY <1>1 DEF D
<1>3. D \subseteq A
  BY <1>1, <1>2, LessInduction
<1> QED
  BY <1>3 DEF D

(* The context of an element is an element before it, shown if it is, that   *)
(* has a z-index or is the root.                                             *)
LEMMA StackProperties ==
  ASSUME NEW d \in Documents, NEW e \in Elements(d)
  PROVE  /\ StackOf(d)[e] \in Elements(d) /\ StackOf(d)[e] <= e
         /\ StackOf(d)[StackOf(d)[e]] = StackOf(d)[e]
         /\ e \in Visible(d) => StackOf(d)[e] \in Visible(d)
<1> DEFINE D == Elements(d)
           Good(x) == /\ StackOf(d)[x] \in D /\ StackOf(d)[x] <= x
                      /\ StackOf(d)[StackOf(d)[x]] = StackOf(d)[x]
                      /\ x \in Visible(d) => StackOf(d)[x] \in Visible(d)
           A == {x \in D : Good(x)}
<1>1. \A x \in D : /\ x \in Nat
                   /\ x # Root => d.parent[x] \in D /\ d.parent[x] < x
                   /\ StackOf(d)[x] = IF x = Root \/ d.z[x] # {} THEN x ELSE StackOf(d)[d.parent[x]]
                   /\ x \in Visible(d) /\ x # Root => d.parent[x] \in Visible(d)
  BY TreeFacts, StackFacts, VisibleFacts
<1>2. ASSUME NEW x \in D, x # Root => d.parent[x] \in A PROVE x \in A
  <2>1. CASE x = Root \/ d.z[x] # {}
    <3>1. StackOf(d)[x] = x
      BY <1>1, <2>1
    <3> QED
      BY <1>1, <3>1
  <2>2. CASE x # Root /\ d.z[x] = {}
    <3>1. StackOf(d)[x] = StackOf(d)[d.parent[x]] /\ Good(d.parent[x])
      BY <1>1, <1>2, <2>2
    <3>2. StackOf(d)[x] <= x
      BY <1>1, <2>2, <3>1
    <3> QED
      BY <1>1, <2>2, <3>1, <3>2
  <2> QED
    BY <2>1, <2>2
<1> HIDE DEF A
<1>3. D \subseteq A
  BY <1>2, ParentInduction
<1>4. e \in A
  BY <1>3
<1> QED
  BY <1>4 DEF A

(* An element that is not in its parent's context made one of its own.       *)
LEMMA StackCases ==
  ASSUME NEW d \in Documents, NEW e \in Elements(d)
  PROVE  \/ e = Root /\ StackOf(d)[e] = e
         \/ e # Root /\ StackOf(d)[e] = e /\ d.z[e] # {}
         \/ e # Root /\ StackOf(d)[e] = StackOf(d)[d.parent[e]]
  BY StackFacts

(* Chains of contexts.  A chain begins with the element's context, the last  *)
(* of its members in the document, and has the chains of its members.        *)
LEMMA ChainProperties ==
  ASSUME NEW d \in Documents, NEW e \in Elements(d)
  PROVE  /\ Root \in Chain(d)[e] /\ StackOf(d)[e] \in Chain(d)[e]
         /\ \A b \in Chain(d)[e] :
              /\ b \in Elements(d) /\ b <= StackOf(d)[e] /\ StackOf(d)[b] = b
              /\ Chain(d)[b] \subseteq Chain(d)[e]
              /\ e \in Visible(d) => b \in Visible(d)
<1> DEFINE D == Elements(d)
           st == StackOf(d)
           ch == Chain(d)
           Good(x) ==
             /\ Root \in ch[x] /\ st[x] \in ch[x]
             /\ \A b \in ch[x] :
                  /\ b \in D /\ b <= st[x] /\ st[b] = b
                  /\ ch[b] \subseteq ch[x]
                  /\ x \in Visible(d) => b \in Visible(d)
           A == {x \in D : Good(x)}
<1>1. \A x \in D : x \in Nat /\ st[x] \in D /\ st[x] <= x /\ st[st[x]] = st[x]
                   /\ (x \in Visible(d) => st[x] \in Visible(d))
  BY TreeFacts, StackProperties
<1>2. \A x \in D : x # Root => /\ d.parent[x] \in D /\ d.parent[x] < x
                               /\ x \in Visible(d) => d.parent[x] \in Visible(d)
  BY TreeFacts, VisibleFacts
<1>3. \A x \in D : ch[x] = {st[x]} \cup (IF x = Root THEN {} ELSE ch[d.parent[x]])
  BY ChainUnfold
<1>4. \A x \in D : (x = Root => st[x] = x) /\ (x # Root => st[x] = x \/ st[x] = st[d.parent[x]])
  BY StackCases
<1> HIDE DEF D, st, ch
<1>5. ASSUME NEW x \in D, x # Root => d.parent[x] \in A PROVE x \in A
  <2>1. CASE x = Root
    <3>1. ch[x] = {x} /\ st[x] = x
      BY <1>3, <1>4, <2>1
    <3> QED
      BY <1>1, <2>1, <3>1
  <2>2. CASE x # Root
    <3> DEFINE p == d.parent[x]
    <3>1. p \in D /\ p < x /\ Good(p) /\ ch[x] = {st[x]} \cup ch[p]
          /\ (x \in Visible(d) => p \in Visible(d)) /\ (st[x] = x \/ st[x] = st[p])
      BY <1>2, <1>3, <1>4, <1>5, <2>2
    <3>2. st[p] <= st[x]
      BY <1>1, <3>1
    <3>3. ASSUME NEW b \in ch[x]
          PROVE  /\ b \in D /\ b <= st[x] /\ st[b] = b
                 /\ ch[b] \subseteq ch[x]
                 /\ x \in Visible(d) => b \in Visible(d)
      <4>1. CASE b \in ch[p]
        <5>1. b \in D /\ b <= st[p] /\ st[b] = b /\ ch[b] \subseteq ch[p]
              /\ (p \in Visible(d) => b \in Visible(d))
          BY <3>1, <4>1
        <5>2. b <= st[x]
          BY <1>1, <3>1, <3>2, <5>1
        <5> QED
          BY <3>1, <5>1, <5>2
      <4>2. CASE b = st[x] /\ st[x] = x
        BY <1>1, <4>2
      <4>3. CASE b = st[x] /\ st[x] = st[p]
        BY <3>1, <4>1, <4>3
      <4> QED
        BY <3>1, <4>1, <4>2, <4>3
    <3> HIDE DEF p
    <3>4. Root \in ch[x] /\ st[x] \in ch[x]
      BY <3>1
    <3> QED
      BY <3>3, <3>4
  <2> QED
    BY <2>1, <2>2
<1> HIDE DEF A
<1>6. D \subseteq A
  BY <1>5, ParentInduction DEF D
<1>7. e \in A
  BY <1>6 DEF D
<1> QED
  BY <1>7 DEF A, D, st, ch

(* Of two members of a chain the first is in the chain of the other.         *)
LEMMA ChainLinear ==
  ASSUME NEW d \in Documents, NEW e \in Elements(d)
  PROVE  \A a, b \in Chain(d)[e] : a < b => a \in Chain(d)[b]
<1> DEFINE D == Elements(d)
           st == StackOf(d)
           ch == Chain(d)
           Good(x) == \A a, b \in ch[x] : a < b => a \in ch[b]
           A == {x \in D : Good(x)}
<1>1. \A x \in D : x \in Nat /\ st[x] \in D /\ st[x] <= x
  BY TreeFacts, StackProperties
<1>2. \A x \in D : x # Root => d.parent[x] \in D /\ d.parent[x] < x
  BY TreeFacts
<1>3. \A x \in D : ch[x] = {st[x]} \cup (IF x = Root THEN {} ELSE ch[d.parent[x]])
  BY ChainUnfold
<1>4. \A x \in D : (x = Root => st[x] = x) /\ (x # Root => st[x] = x \/ st[x] = st[d.parent[x]])
  BY StackCases
<1>5. \A x \in D : st[x] \in ch[x] /\ \A b \in ch[x] : b \in D /\ b <= st[x]
  BY ChainProperties
<1> HIDE DEF D, st, ch
<1>6. ASSUME NEW x \in D, x # Root => d.parent[x] \in A PROVE x \in A
  <2>1. CASE x = Root
    <3>1. ch[x] = {x}
      BY <1>3, <1>4, <2>1
    <3>2. ~(x < x)
      BY <1>1
    <3> QED
      BY <3>1, <3>2
  <2>2. CASE x # Root
    <3> DEFINE p == d.parent[x]
    <3>1. p \in D /\ p < x /\ Good(p) /\ ch[x] = {st[x]} \cup ch[p] /\ (st[x] = x \/ st[x] = st[p])
      BY <1>2, <1>3, <1>4, <1>6, <2>2
    <3> HIDE DEF p
    <3> SUFFICES ASSUME NEW a \in ch[x], NEW b \in ch[x], a < b
                 PROVE  a \in ch[b]
      OBVIOUS
    <3>2. a # st[x]
      BY <1>1, <1>5
    <3>3. a \in ch[p]
      BY <3>1, <3>2
    <3>4. CASE b \in ch[p]
      BY <3>1, <3>3, <3>4
    <3>5. CASE b = st[x] /\ st[x] = x
      BY <3>5
    <3>6. CASE b = st[x] /\ st[x] = st[p]
      BY <1>5, <3>1, <3>4, <3>6
    <3> QED
      BY <3>1, <3>4, <3>5, <3>6
  <2> QED
    BY <2>1, <2>2
<1> HIDE DEF A
<1>7. D \subseteq A
  BY <1>6, ParentInduction DEF D
<1>8. e \in A
  BY <1>7 DEF D
<1> QED
  BY <1>8 DEF A, D, ch

(* The contexts in a context c                                               *)
LEMMA ContextsFacts ==
  ASSUME NEW d \in Documents, NEW c \in Elements(d), NEW k \in ContextsIn(d, c)
  PROVE  /\ k \in Visible(d) /\ k \in Elements(d) /\ k # Root /\ c < k
         /\ StackOf(d)[k] = k /\ d.z[k] # {} /\ c \in Chain(d)[k]
         /\ k \in Chain(d)[k] /\ StackOf(d)[d.parent[k]] = c
<1>1. /\ k \in Visible(d) /\ k # Root /\ StackOf(d)[k] = k /\ StackOf(d)[d.parent[k]] = c
  BY DEF ContextsIn
<1>2. k \in Elements(d)
  BY <1>1, VisibleFacts
<1> DEFINE p == d.parent[k]
<1>3. p \in Elements(d) /\ p < k /\ k \in Nat /\ p \in Nat /\ c \in Nat
  BY <1>1, <1>2, TreeFacts
<1>4. c <= p
  BY <1>1, <1>3, StackProperties
<1>5. c < k
  BY <1>3, <1>4
<1>6. d.z[k] # {}
  BY <1>1, <1>2, <1>5, <1>3, StackFacts
<1>7. c \in Chain(d)[p]
  BY <1>1, <1>3, ChainProperties
<1>8. c \in Chain(d)[k] /\ k \in Chain(d)[k]
  BY <1>1, <1>2, <1>7, ChainUnfold
<1> QED
  BY <1>1, <1>2, <1>5, <1>6, <1>8

(* What is shown in a context or in those within: its own elements, and what *)
(* is in the contexts directly in it.                                        *)
In(d, c) == {e \in Visible(d) : c \in Chain(d)[e]}

LEMMA InParts ==
  ASSUME NEW d \in Documents, NEW c \in Elements(d)
  PROVE  In(d, c) = Own(d, c) \cup UNION {In(d, k) : k \in ContextsIn(d, c)}
<1> DEFINE D == Elements(d)
           K == ContextsIn(d, c)
           A == {x \in D : x \in In(d, c) => x \in Own(d, c) \/ \E k \in K : x \in In(d, k)}
<1>1. \A x \in D : StackOf(d)[x] \in Chain(d)[x]
                   /\ \A b \in Chain(d)[x] : Chain(d)[b] \subseteq Chain(d)[x]
  BY ChainProperties
<1>2. Visible(d) \subseteq D /\ \A x \in Visible(d) : x # Root => d.parent[x] \in Visible(d)
  BY VisibleFacts
<1>3. Own(d, c) \subseteq In(d, c)
  BY <1>1, <1>2 DEF Own, In
<1>4. \A k \in K : In(d, k) \subseteq In(d, c)
  <2> TAKE k \in K
  <2>1. c \in Chain(d)[k]
    BY ContextsFacts
  <2> QED
    BY <1>1, <1>2, <2>1 DEF In
<1>5. ASSUME NEW x \in D, x # Root => d.parent[x] \in A PROVE x \in A
  <2> SUFFICES ASSUME x \in Visible(d), c \in Chain(d)[x], StackOf(d)[x] # c
               PROVE  \E k \in K : x \in In(d, k)
    BY DEF In, Own
  <2> DEFINE p == d.parent[x]
  <2>1. x # Root /\ c \in Chain(d)[p] /\ Chain(d)[p] \subseteq Chain(d)[x]
    BY ChainUnfold, StackCases
  <2>2. p \in Visible(d) /\ p \in A
    BY <1>2, <1>5, <2>1
  <2>3. CASE StackOf(d)[p] = c
    <3>1. StackOf(d)[x] = x
      BY <2>1, <2>3, StackCases
    <3>2. x \in K /\ x \in Chain(d)[x]
      BY <1>1, <2>1, <2>3, <3>1 DEF ContextsIn
    <3> QED
      BY <3>2 DEF In
  <2>4. CASE StackOf(d)[p] # c
    BY <2>1, <2>2, <2>4 DEF In, Own
  <2> QED
    BY <2>3, <2>4
<1> HIDE DEF A, K
<1>6. D \subseteq A
  BY <1>5, ParentInduction
<1>7. \A x \in In(d, c) : x \in Own(d, c) \/ \E k \in K : x \in In(d, k)
  BY <1>2, <1>6 DEF A, In
<1> QED
  BY <1>3, <1>4, <1>7 DEF K

(* No element is in two of them.                                             *)
LEMMA InOne ==
  ASSUME NEW d \in Documents, NEW c \in Elements(d), NEW k \in ContextsIn(d, c),
         NEW n \in ContextsIn(d, c), In(d, k) \cap In(d, n) # {}
  PROVE  k = n
<1>1. ASSUME NEW x \in ContextsIn(d, c), NEW y \in ContextsIn(d, c), x < y,
             NEW e \in In(d, x) \cap In(d, y)
      PROVE  FALSE
  <2> DEFINE p == d.parent[y]
  <2>1. x \in Chain(d)[e] /\ y \in Chain(d)[e] /\ e \in Elements(d)
    BY VisibleFacts DEF In
  <2>2. x \in Chain(d)[y]
    BY <1>1, <2>1, ChainLinear
  <2>3. /\ y \in Elements(d) /\ y # Root /\ StackOf(d)[y] = y /\ StackOf(d)[p] = c
        /\ c < x /\ x \in Elements(d)
    BY ContextsFacts
  <2>4. p \in Elements(d) /\ x \in Nat /\ y \in Nat /\ c \in Nat
    BY <2>3, TreeFacts
  <2>5. x \in Chain(d)[p]
    BY <1>1, <2>2, <2>3, <2>4, ChainUnfold
  <2>6. x <= c
    BY <2>3, <2>4, <2>5, ChainProperties
  <2> QED
    BY <2>3, <2>4, <2>6
<1>2. k \in Nat /\ n \in Nat
  BY ContextsFacts, TreeFacts
<1> QED
  BY <1>1, <1>2

LEMMA MaxIs ==
  ASSUME NEW X \in SUBSET Nat, NEW c \in X, \A x \in X : x <= c
  PROVE  Max(X) = c
<1>1. \A x \in X : x <= c /\ c <= x => x = c
  OBVIOUS
<1>2. Max(X) \in X /\ \A y \in X : Max(X) >= y
  BY DEF Max
<1> QED
  BY <1>1, <1>2

(* The deepest context that two elements share                               *)
Shared(d, e, f) == Max(Chain(d)[e] \cap Chain(d)[f])

(* It is a context that both are in, if no member of both chains is later.   *)
LEMMA SharedIs ==
  ASSUME NEW d \in Documents, NEW c \in Elements(d),
         NEW e \in In(d, c), NEW f \in In(d, c),
         \A x \in Chain(d)[e] \cap Chain(d)[f] : x <= c
  PROVE  Shared(d, e, f) = c
<1>1. c \in Chain(d)[e] \cap Chain(d)[f] /\ e \in Elements(d)
  BY VisibleFacts DEF In
<1>2. Chain(d)[e] \cap Chain(d)[f] \subseteq Nat
  BY <1>1, ChainProperties, TreeFacts
<1> QED
  BY <1>1, <1>2, MaxIs DEF Shared

Holding(d, c, x) == {b \in Chain(d)[x] \ {Root} : b # c /\ StackOf(d)[d.parent[b]] = c}

LEMMA MustPrecedeIs ==
  ASSUME NEW d, NEW e, NEW f, NEW c, c = Shared(d, e, f)
  PROVE  MustPrecede(d, e, f) <=>
           \/ Holding(d, c, e) = {} /\ (Holding(d, c, f) # {} \/ e < f)
           \/ \E k \in Holding(d, c, e), n \in Holding(d, c, f) : InZOrder(d, k, n)
  BY Zenon DEF MustPrecede, Holding, Shared

Precedes(d) == {p \in Elements(d) \X Elements(d) : p[1] # p[2] /\ MustPrecede(d, p[1], p[2])}

(* An element of the context itself is in none of those within.              *)
LEMMA OwnFacts ==
  ASSUME NEW d \in Documents, NEW c \in Elements(d), NEW e \in Own(d, c)
  PROVE  /\ e \in Elements(d) /\ e \in Nat /\ e \in In(d, c) /\ Holding(d, c, e) = {}
         /\ \A x \in Chain(d)[e] : x <= c
<1>1. e \in Visible(d) /\ e \in Elements(d) /\ StackOf(d)[e] = c
  BY VisibleFacts DEF Own
<1>2. c \in Chain(d)[e] /\ \A x \in Chain(d)[e] : x \in Elements(d) /\ x <= c
  BY <1>1, ChainProperties
<1>3. ASSUME NEW b \in Chain(d)[e], b # Root, StackOf(d)[d.parent[b]] = c
      PROVE  FALSE
  <2> DEFINE p == d.parent[b]
  <2>1. p \in Elements(d) /\ p < b /\ p \in Nat /\ b \in Nat /\ c \in Nat
    BY <1>2, <1>3, TreeFacts
  <2>2. c <= p
    BY <1>3, <2>1, StackProperties
  <2>3. b <= c
    BY <1>2
  <2> HIDE DEF p
  <2> QED
    BY <2>1, <2>2, <2>3
<1> QED
  BY <1>1, <1>2, <1>3, TreeFacts DEF In, Holding

(* The three ways in which two elements in a context follow each other       *)
LEMMA OwnThenOwn ==
  ASSUME NEW d \in Documents, NEW c \in Elements(d), NEW e \in Own(d, c), NEW f \in Own(d, c),
         e < f
  PROVE  <<e, f>> \in Precedes(d)
<1>1. Shared(d, e, f) = c
  BY OwnFacts, SharedIs
<1>2. MustPrecede(d, e, f)
  BY <1>1, OwnFacts, MustPrecedeIs
<1>3. e \in Elements(d) /\ f \in Elements(d) /\ e # f
  BY OwnFacts
<1> QED
  BY <1>2, <1>3 DEF Precedes

LEMMA InContext ==
  ASSUME NEW d \in Documents, NEW c \in Elements(d), NEW k \in ContextsIn(d, c), NEW f \in In(d, k)
  PROVE  f \in Elements(d) /\ f \in In(d, c) /\ k \in Holding(d, c, f)
<1>1. f \in In(d, c)
  BY InParts
<1>2. f \in Elements(d) /\ k \in Chain(d)[f]
  BY VisibleFacts DEF In
<1>3. k # Root /\ k # c /\ StackOf(d)[d.parent[k]] = c
  BY ContextsFacts, TreeFacts
<1> QED
  BY <1>1, <1>2, <1>3 DEF Holding

LEMMA OwnThenContext ==
  ASSUME NEW d \in Documents, NEW c \in Elements(d), NEW e \in Own(d, c),
         NEW k \in ContextsIn(d, c), NEW f \in In(d, k)
  PROVE  <<e, f>> \in Precedes(d)
<1>1. f \in Elements(d) /\ f \in In(d, c) /\ k \in Holding(d, c, f)
  BY InContext
<1>2. Shared(d, e, f) = c
  BY <1>1, OwnFacts, SharedIs
<1>3. MustPrecede(d, e, f)
  BY <1>1, <1>2, OwnFacts, MustPrecedeIs
<1>4. e \in Elements(d) /\ e # f
  BY <1>1, OwnFacts
<1> QED
  BY <1>1, <1>3, <1>4 DEF Precedes

LEMMA ContextThenContext ==
  ASSUME NEW d \in Documents, NEW c \in Elements(d),
         NEW k \in ContextsIn(d, c), NEW n \in ContextsIn(d, c), InZOrder(d, k, n),
         NEW e \in In(d, k), NEW f \in In(d, n)
  PROVE  <<e, f>> \in Precedes(d)
<1>1. /\ e \in Elements(d) /\ e \in In(d, c) /\ k \in Holding(d, c, e)
      /\ f \in Elements(d) /\ f \in In(d, c) /\ n \in Holding(d, c, f)
  BY InContext
<1>2. k # n
  <2>1. k \in Nat /\ n \in Nat /\ ZIndex(d, k) \in Int
    BY ContextsFacts, TreeFacts DEF ZIndex
  <2> QED
    BY <2>1 DEF InZOrder
<1>3. ASSUME NEW x \in Chain(d)[e] \cap Chain(d)[f] PROVE x <= c
  <2> SUFFICES ASSUME ~(x <= c) PROVE FALSE
    OBVIOUS
  <2>1. e \in Visible(d) /\ c \in Chain(d)[e] /\ c \in Nat
    BY <1>1, TreeFacts DEF In
  <2>2. x \in Elements(d) /\ x \in Visible(d) /\ StackOf(d)[x] = x /\ x \in Nat
        /\ Chain(d)[x] \subseteq Chain(d)[e] /\ Chain(d)[x] \subseteq Chain(d)[f]
    BY <1>1, <2>1, ChainProperties, TreeFacts
  <2>3. c < x
    BY <2>1, <2>2
  <2>4. c \in Chain(d)[x]
    BY <1>1, <2>1, <2>3, ChainLinear
  <2>5. x \in In(d, c) /\ x \notin Own(d, c)
    BY <2>1, <2>2, <2>3, <2>4 DEF In, Own
  <2>6. PICK m \in ContextsIn(d, c) : x \in In(d, m)
    BY <2>5, InParts
  <2>7. e \in In(d, m) /\ f \in In(d, m)
    BY <1>1, <2>2, <2>6 DEF In
  <2>8. k = m /\ n = m
    BY <2>7, InOne
  <2> QED
    BY <1>2, <2>8
<1>4. Shared(d, e, f) = c
  BY <1>1, <1>3, SharedIs
<1>5. MustPrecede(d, e, f)
  BY <1>1, <1>4, MustPrecedeIs
<1>6. e # f
  BY <1>2, InOne
<1> QED
  BY <1>1, <1>5, <1>6 DEF Precedes

LEMMA FlattenType ==
  ASSUME NEW S, NEW seqs \in Seq(Seq(S))
  PROVE  FlattenSeq(seqs) \in Seq(S)
<1> DEFINE R == S \X S
<1>1. \A k \in 1 .. Len(seqs) : seqs[k] \in Seq(S)
  OBVIOUS
<1>2. \A s \in Seq(S) : Ordered(s, R)
  BY DEF Ordered
<1>3. \A s, t \in Seq(S) : \A x \in ToSet(s), y \in ToSet(t) : <<x, y>> \in R
  BY DEF ToSet
<1> HIDE DEF R
<1>4. \A k \in 1 .. Len(seqs) : Ordered(seqs[k], R)
  BY <1>1, <1>2
<1>5. \A k, n \in 1 .. Len(seqs) : k < n =>
           \A x \in ToSet(seqs[k]), y \in ToSet(seqs[n]) : <<x, y>> \in R
  BY <1>1, <1>3
<1> QED
  BY <1>4, <1>5, FlattenFacts

LEMMA SeqOfSubset ==
  ASSUME NEW S, NEW T, S \subseteq T, NEW s \in Seq(S)
  PROVE  s \in Seq(T)
  OBVIOUS

(* A function applied to each element of a sequence                          *)
LEMMA MapSeq ==
  ASSUME NEW S, NEW V, NEW s \in Seq(S), NEW f, \A x \in S : f[x] \in V
  PROVE  /\ [k \in DOMAIN s |-> f[s[k]]] \in Seq(V)
         /\ Len([k \in DOMAIN s |-> f[s[k]]]) = Len(s)
         /\ \A k \in 1 .. Len(s) : [i \in DOMAIN s |-> f[s[i]]][k] = f[s[k]]
<1> DEFINE n == Len(s)
           m == [k \in 1 .. n |-> f[s[k]]]
<1>1. n \in Nat /\ DOMAIN s = 1 .. n /\ \A k \in 1 .. n : f[s[k]] \in V
  OBVIOUS
<1> HIDE DEF n
<1>2. m \in Seq(V) /\ Len(m) = n /\ \A k \in 1 .. n : m[k] = f[s[k]]
  BY <1>1
<1> QED
  BY <1>1, <1>2 DEF n

(* The contexts in a context, in the order in which they are put             *)
InOrder(d, c) == SortZ(d, ContextsIn(d, c))

(* They are sorted by z-index.                                               *)
LEMMA InOrderFacts ==
  ASSUME NEW d \in Documents, NEW c \in Elements(d)
  PROVE  /\ InOrder(d, c) \in Seq(Elements(d)) /\ ToSet(InOrder(d, c)) = ContextsIn(d, c)
         /\ Ordered(InOrder(d, c), ZOrder(d))
<1> DEFINE K == ContextsIn(d, c)
<1>1. K \subseteq Elements(d) /\ \A k \in K : d.z[k] \in SUBSET Int /\ d.z[k] # {}
  BY ContextsFacts, TreeFacts
<1>2. IsFiniteSet(K) /\ Elements(d) \subseteq Nat
  BY <1>1, TreeFacts, FS_Subset
<1> HIDE DEF K
<1>3. SortZ(d, K) \in Seq(K) /\ ToSet(SortZ(d, K)) = K /\ Ordered(SortZ(d, K), ZOrder(d))
  BY <1>1, <1>2, SortZFacts
<1> QED
  BY <1>1, <1>3 DEF InOrder, K

(* The context's own elements are put first, in document order.              *)
LEMMA OwnInOrder ==
  ASSUME NEW d \in Documents, NEW c \in Elements(d)
  PROVE  /\ InDocumentOrder(Own(d, c)) \in Seq(Elements(d))
         /\ ToSet(InDocumentOrder(Own(d, c))) = Own(d, c)
         /\ Ordered(InDocumentOrder(Own(d, c)), Precedes(d))
<1> DEFINE O == Own(d, c)
<1>1. O \subseteq Elements(d) /\ O \subseteq Nat
  BY OwnFacts
<1>2. IsFiniteSet(O)
  BY <1>1, TreeFacts, FS_Subset
<1>3. \A e, f \in O : e < f => <<e, f>> \in Precedes(d)
  BY OwnThenOwn
<1> HIDE DEF O
<1> DEFINE s == InDocumentOrder(O)
<1>4. s \in Seq(O) /\ ToSet(s) = O /\ Ordered(s, DocumentOrder)
  BY <1>1, <1>2, InDocumentOrderFacts
<1> HIDE DEF s
<1>5. \A i \in 1 .. Len(s) : s[i] \in O
  BY <1>4
<1>6. Ordered(s, Precedes(d))
  BY <1>3, <1>4, <1>5 DEF Ordered, DocumentOrder
<1>7. s \in Seq(Elements(d))
  BY <1>1, <1>4, SeqOfSubset
<1> QED
  BY <1>4, <1>6, <1>7 DEF s, O

(* RenderQueue: what it makes of each context                                *)
Parts(d, f, c) == [k \in DOMAIN InOrder(d, c) |-> f[InOrder(d, c)[k]]]
Sorts(d, s) ==
  s = [c \in Elements(d) |-> InDocumentOrder(Own(d, c)) \o FlattenSeq(Parts(d, s, c))]
TheSorted(d) == CHOOSE s : Sorts(d, s)

(* What is put for each context in it                                        *)
LEMMA PartsType ==
  ASSUME NEW d \in Documents, NEW c \in Elements(d), NEW f,
         \A k \in ContextsIn(d, c) : f[k] \in Seq(Elements(d))
  PROVE  /\ Parts(d, f, c) \in Seq(Seq(Elements(d)))
         /\ InDocumentOrder(Own(d, c)) \o FlattenSeq(Parts(d, f, c)) \in Seq(Elements(d))
         /\ Len(Parts(d, f, c)) = Len(InOrder(d, c))
         /\ \A k \in 1 .. Len(InOrder(d, c)) :
              /\ Parts(d, f, c)[k] = f[InOrder(d, c)[k]]
              /\ InOrder(d, c)[k] \in ContextsIn(d, c)
<1> DEFINE D == Elements(d)
           V == Seq(D)
           K == ContextsIn(d, c)
           s == InOrder(d, c)
           p == Parts(d, f, c)
           o == InDocumentOrder(Own(d, c))
<1>1. s \in Seq(D) /\ ToSet(s) = K
  BY InOrderFacts
<1>2. \A k \in DOMAIN s : s[k] \in K
  BY <1>1 DEF ToSet
<1>3. o \in Seq(D)
  BY OwnInOrder
<1>4. p = [k \in DOMAIN s |-> f[s[k]]]
  BY DEF Parts
<1>5. \A k \in K : f[k] \in V
  OBVIOUS
<1> HIDE DEF D, V, K, s, p, o
<1>6. s \in Seq(K) /\ DOMAIN s = 1 .. Len(s)
  BY <1>1, <1>2
<1>7. p \in Seq(V) /\ Len(p) = Len(s) /\ \A k \in 1 .. Len(s) : p[k] = f[s[k]]
  BY <1>4, <1>5, <1>6, MapSeq
<1>8. FlattenSeq(p) \in Seq(D)
  BY <1>7, FlattenType DEF V
<1>9. o \o FlattenSeq(p) \in Seq(D)
  BY <1>3, <1>8
<1> QED
  BY <1>2, <1>6, <1>7, <1>9 DEF D, V, K, s, p, o

LEMMA SortedExists ==
  ASSUME NEW d \in Documents
  PROVE  \E s \in [Elements(d) -> Seq(Elements(d))] : Sorts(d, s)
<1> DEFINE D == Elements(d)
           V == Seq(D)
           n == Len(d.parent)
           rank == [c \in D |-> n - c]
           Step(f) == [c \in D |-> InDocumentOrder(Own(d, c)) \o FlattenSeq(Parts(d, f, c))]
           F == [f \in [D -> V] |-> Step(f)]
<1>1. n \in Nat /\ D = 1 .. n
  BY TreeFacts
<1>2. rank \in [D -> Nat] /\ \A c \in D : rank[c] = n - c /\ rank[c] < n
  <2> HIDE DEF n
  <2> QED
    BY <1>1
<1>3. \A f \in [D -> V], c \in D :
         InDocumentOrder(Own(d, c)) \o FlattenSeq(Parts(d, f, c)) \in V
  <2> TAKE f \in [D -> V], c \in D
  <2>1. \A k \in ContextsIn(d, c) : f[k] \in V
    BY ContextsFacts
  <2> QED
    BY <2>1, PartsType
<1>4. V # {}
  <2>1. <<>> \in V
    OBVIOUS
  <2> QED
    BY <2>1
<1>5. \A c \in D : \A k \in DOMAIN InOrder(d, c) :
        InOrder(d, c)[k] \in D /\ c < InOrder(d, c)[k]
  <2> TAKE c \in D
  <2> TAKE k \in DOMAIN InOrder(d, c)
  <2>1. InOrder(d, c)[k] \in ContextsIn(d, c)
    BY InOrderFacts DEF ToSet
  <2> QED
    BY <2>1, ContextsFacts
<1> HIDE DEF D, V, n, rank
<1>6. \A f \in [D -> V] : Step(f) \in [D -> V]
  BY <1>3
<1>7. F \in [[D -> V] -> [D -> V]] /\ \A f \in [D -> V] : F[f] = Step(f)
  BY <1>6
<1>8. DependsBelow(F, D, V, rank)
  <2> USE DEF DependsBelow
  <2> TAKE f, g \in [D -> V], c \in D
  <2> HAVE \A x \in D : rank[x] < rank[c] => f[x] = g[x]
  <2>1. \A k \in DOMAIN InOrder(d, c) : f[InOrder(d, c)[k]] = g[InOrder(d, c)[k]]
    <3> TAKE k \in DOMAIN InOrder(d, c)
    <3>1. InOrder(d, c)[k] \in D /\ c < InOrder(d, c)[k]
      BY <1>5
    <3>2. rank[InOrder(d, c)[k]] < rank[c]
      BY <1>1, <1>2, <3>1
    <3> QED
      BY <3>1, <3>2
  <2>2. Parts(d, f, c) = Parts(d, g, c)
    BY <2>1 DEF Parts
  <2> QED
    BY <1>7, <2>2
<1> HIDE DEF F, Step
<1>9. PICK f \in [D -> V] : F[f] = f
  <2>1. Recursion(F, D, V, rank, n)
    BY <1>1, <1>2, <1>4, <1>7, <1>8 DEF Recursion, Below
  <2>2. HasFixedPoint(F, D, V)
    BY <2>1, RecursionExists
  <2> QED
    BY <2>2 DEF HasFixedPoint
<1>10. f = Step(f)
  BY <1>7, <1>9
<1> QED
  BY <1>9, <1>10 DEF Sorts, D, V, Step

LEMMA QueueUnfold ==
  ASSUME NEW d \in Documents
  PROVE  \E s :
           /\ RenderQueue(d) = s[Root]
           /\ \A c \in Elements(d) :
                s[c] = InDocumentOrder(Own(d, c)) \o FlattenSeq(Parts(d, s, c))
<1>1. Sorts(d, TheSorted(d))
  BY SortedExists, Zenon DEF TheSorted
<1>2. RenderQueue(d) = TheSorted(d)[Root]
  BY Zenon DEF RenderQueue, TheSorted, Sorts, Parts, InOrder
<1>3. \A c \in Elements(d) :
        TheSorted(d)[c] = InDocumentOrder(Own(d, c)) \o FlattenSeq(Parts(d, TheSorted(d), c))
  BY <1>1, Zenon DEF Sorts
<1> QED
  BY <1>2, <1>3

(* What is put in the queue of a context: all that is shown in it, each      *)
(* element once, in the order in which they have to be painted.              *)
QueueOf(d, s, c) ==
  s[c] \in Seq(Elements(d)) /\ ToSet(s[c]) = In(d, c) /\ Ordered(s[c], Precedes(d))

(* So it is for a context if it is for those directly in it.                 *)
LEMMA QueueStep ==
  ASSUME NEW d \in Documents, NEW c \in Elements(d), NEW s,
         s[c] = InDocumentOrder(Own(d, c)) \o FlattenSeq(Parts(d, s, c)),
         \A k \in ContextsIn(d, c) : QueueOf(d, s, k)
  PROVE  QueueOf(d, s, c)
<1> DEFINE R == Precedes(d)
           D == Elements(d)
           K == ContextsIn(d, c)
           t == InOrder(d, c)
           p == Parts(d, s, c)
           o == InDocumentOrder(Own(d, c))
           n == Len(t)
<1>1. o \in Seq(D) /\ ToSet(o) = Own(d, c) /\ Ordered(o, R)
  BY OwnInOrder
<1>2. t \in Seq(D) /\ ToSet(t) = K /\ Ordered(t, ZOrder(d))
  BY InOrderFacts
<1>3. p \in Seq(Seq(D)) /\ Len(p) = n /\ \A k \in 1 .. n : p[k] = s[t[k]] /\ t[k] \in K
  BY PartsType DEF QueueOf
<1>4. K = {t[k] : k \in 1 .. n}
  BY <1>2 DEF ToSet
<1>5. \A k \in 1 .. n : p[k] \in Seq(D) /\ ToSet(p[k]) = In(d, t[k]) /\ Ordered(p[k], R)
  BY <1>3 DEF QueueOf
<1>6. \A k, m \in 1 .. n : k < m =>
        \A x \in ToSet(p[k]), y \in ToSet(p[m]) : <<x, y>> \in R
  <2> TAKE k, m \in 1 .. n
  <2> HAVE k < m
  <2>1. InZOrder(d, t[k], t[m])
    BY <1>2 DEF Ordered, ZOrder
  <2> QED
    BY <1>3, <1>5, <2>1, ContextThenContext
<1>7. \A x \in Own(d, c), k \in 1 .. n : \A y \in In(d, t[k]) : <<x, y>> \in R
  BY <1>3, OwnThenContext
<1> HIDE DEF R, D, K, t, p, o, n
<1>8. /\ FlattenSeq(p) \in Seq(D)
      /\ ToSet(FlattenSeq(p)) = UNION {ToSet(p[k]) : k \in 1 .. n}
      /\ Ordered(FlattenSeq(p), R)
  BY <1>3, <1>5, <1>6, FlattenFacts
<1>9. ToSet(FlattenSeq(p)) = UNION {In(d, k) : k \in K}
  BY <1>4, <1>5, <1>8
<1>10. \A x \in ToSet(o), y \in ToSet(FlattenSeq(p)) : <<x, y>> \in R
  BY <1>1, <1>4, <1>7, <1>9
<1>11. o \o FlattenSeq(p) \in Seq(D) /\ ToSet(o \o FlattenSeq(p)) = In(d, c)
  <2>1. In(d, c) = Own(d, c) \cup UNION {In(d, k) : k \in K}
    BY InParts DEF K
  <2> QED
    BY <1>1, <1>8, <1>9, <2>1, Concat
<1>12. Ordered(o \o FlattenSeq(p), R)
  BY <1>1, <1>8, <1>10, ConcatOrdered
<1> QED
  BY <1>11, <1>12 DEF QueueOf, R, D, o, p

(* The queue of the root is that of the document.                            *)
LEMMA QueueFacts ==
  ASSUME NEW d \in Documents
  PROVE  /\ RenderQueue(d) \in Seq(Elements(d)) /\ ToSet(RenderQueue(d)) = Visible(d)
         /\ Ordered(RenderQueue(d), Precedes(d))
<1>1. PICK s : /\ RenderQueue(d) = s[Root]
               /\ \A c \in Elements(d) :
                    s[c] = InDocumentOrder(Own(d, c)) \o FlattenSeq(Parts(d, s, c))
  BY QueueUnfold
<1> DEFINE D == Elements(d)
           n == Len(d.parent)
           A == {m \in 0 .. n : \A c \in D : n - c = m => QueueOf(d, s, c)}
<1>2. n \in Nat /\ D = 1 .. n /\ Root \in D
  BY TreeFacts
<1>3. \A c \in D : \A k \in ContextsIn(d, c) : k \in D /\ c < k
  BY ContextsFacts
<1>4. \A c \in D : (\A k \in ContextsIn(d, c) : QueueOf(d, s, k)) => QueueOf(d, s, c)
  BY <1>1, QueueStep
<1> HIDE DEF D, n
<1>5. ASSUME NEW m \in 0 .. n, \A x \in 0 .. n : x < m => x \in A PROVE m \in A
  <2> SUFFICES ASSUME NEW c \in D, n - c = m PROVE QueueOf(d, s, c)
    OBVIOUS
  <2>1. ASSUME NEW k \in ContextsIn(d, c) PROVE QueueOf(d, s, k)
    <3>1. k \in D /\ c < k
      BY <1>3
    <3>2. n - k \in 0 .. n /\ n - k < m
      BY <1>2, <3>1
    <3> QED
      BY <1>5, <3>1, <3>2
  <2> QED
    BY <1>4, <2>1
<1>6. 0 .. n \in SUBSET Nat
  BY <1>2
<1> HIDE DEF A
<1>7. 0 .. n \subseteq A
  BY <1>5, <1>6, LessInduction
<1>8. QueueOf(d, s, Root)
  <2>1. n - Root \in 0 .. n
    BY <1>2
  <2> QED
    BY <1>2, <1>7, <2>1 DEF A
<1>9. In(d, Root) = Visible(d)
  BY ChainProperties, VisibleFacts DEF In
<1> QED
  BY <1>1, <1>8, <1>9 DEF QueueOf

(***************************************************************************)
(* What is painted of one element                                           *)
(***************************************************************************)

Names == {"fillRect", "createPattern", "fill", "drawImage", "fillText"}
Whats == Images \cup ToSet(Sides) \cup {"colour", "value", "number", "text"}
AllCommands == [element : Elements(document), name : Names, what : Whats]
Underlies == {p \in AllCommands \X AllCommands : MustUnderlie(document, p[1], p[2])}

LayerIs(name, n) == \A x : x.name = name => Layer(x) = n

LEMMA LayerOf ==
  /\ LayerIs("fillRect", 1) /\ LayerIs("createPattern", 2) /\ LayerIs("fill", 3)
  /\ LayerIs("drawImage", 4) /\ LayerIs("fillText", 5)
  BY DEF LayerIs, Layer

(* Commands of one element, all of one name                                  *)
Recorded(e, name, W, s) ==
  s \in Seq(AllCommands) /\ Ordered(s, Underlies)
    /\ \A x \in ToSet(s) : x.element = e /\ x.name = name /\ x.what \in W

(* The commands of a name for the values of a sequence                       *)
LEMMA CommandsRecorded ==
  ASSUME NEW e \in Elements(document), NEW name \in Names, NEW W \in SUBSET Whats, NEW seq \in Seq(W),
         NEW R, Ordered(seq, R),
         \A v, w \in W : <<v, w>> \in R =>
           MustUnderlie(document, Command(e, name, v), Command(e, name, w))
  PROVE  Recorded(e, name, ToSet(seq), Commands(e, name, seq))
<1> DEFINE n == Len(seq)
           s == [k \in 1 .. n |-> Command(e, name, seq[k])]
<1>1. n \in Nat /\ DOMAIN seq = 1 .. n /\ \A k \in 1 .. n : seq[k] \in W /\ seq[k] \in ToSet(seq)
  BY DEF ToSet
<1>2. \A w \in W : /\ Command(e, name, w) \in AllCommands /\ Command(e, name, w).element = e
                   /\ Command(e, name, w).name = name /\ Command(e, name, w).what = w
  BY DEF Command, AllCommands
<1>3. Commands(e, name, seq) = s
  BY <1>1 DEF Commands
<1> HIDE DEF n
<1>4. s \in Seq(AllCommands) /\ Len(s) = n /\ DOMAIN s = 1 .. n
      /\ \A k \in 1 .. n : s[k] = Command(e, name, seq[k])
  BY <1>1, <1>2
<1> HIDE DEF s
<1>5. \A i, j \in 1 .. n : i < j => <<seq[i], seq[j]>> \in R
  BY DEF Ordered, n
<1>6. Ordered(s, Underlies)
  <2> SUFFICES ASSUME NEW i \in 1 .. n, NEW j \in 1 .. n, i < j PROVE <<s[i], s[j]>> \in Underlies
    BY <1>4 DEF Ordered
  <2>1. MustUnderlie(document, s[i], s[j])
    BY <1>1, <1>4, <1>5
  <2>2. s[i] \in AllCommands /\ s[j] \in AllCommands
    BY <1>1, <1>2, <1>4
  <2> QED
    BY <2>1, <2>2 DEF Underlies
<1>7. ASSUME NEW x \in ToSet(s) PROVE x.element = e /\ x.name = name /\ x.what \in ToSet(seq)
  <2>1. PICK k \in 1 .. n : x = Command(e, name, seq[k])
    BY <1>4, <1>7 DEF ToSet
  <2> QED
    BY <1>1, <1>2, <2>1
<1> QED
  BY <1>3, <1>4, <1>6, <1>7 DEF Recorded

LEMMA OneRecorded ==
  ASSUME NEW e \in Elements(document), NEW name \in Names, NEW what \in Whats
  PROVE  /\ Recorded(e, name, {what}, <<>>)
         /\ Recorded(e, name, {what}, <<Command(e, name, what)>>)
<1> DEFINE x == Command(e, name, what)
<1>1. x \in AllCommands /\ x.element = e /\ x.name = name /\ x.what = what
  BY DEF Command, AllCommands
<1> HIDE DEF x
<1>2. Recorded(e, name, {what}, <<>>)
  BY DEF Recorded, Ordered, ToSet
<1>3. Recorded(e, name, {what}, <<x>>)
  BY <1>1 DEF Recorded, Ordered, ToSet
<1> QED
  BY <1>2, <1>3 DEF x

(* A sequence before itself reversed                                         *)
LEMMA ReverseFacts ==
  ASSUME NEW S, NEW s \in Seq(S), NEW R, NEW Q, Ordered(s, R),
         \A x, y \in S : <<x, y>> \in R => <<y, x>> \in Q
  PROVE  Reverse(s) \in Seq(S) /\ ToSet(Reverse(s)) = ToSet(s) /\ Ordered(Reverse(s), Q)
<1> DEFINE n == Len(s)
           r == [i \in 1 .. n |-> s[(n - i) + 1]]
<1>1. n \in Nat /\ DOMAIN s = 1 .. n /\ \A k \in 1 .. n : s[k] \in S
  OBVIOUS
<1>2. Reverse(s) = r
  BY DEF Reverse
<1>3. \A i, j \in 1 .. n : i < j => <<s[i], s[j]>> \in R
  BY DEF Ordered
<1> HIDE DEF n
<1>4. \A i \in 1 .. n : (n - i) + 1 \in 1 .. n /\ (n - ((n - i) + 1)) + 1 = i
  BY <1>1
<1>5. r \in Seq(S) /\ Len(r) = n /\ DOMAIN r = 1 .. n /\ \A i \in 1 .. n : r[i] = s[(n - i) + 1]
  BY <1>1, <1>4
<1> HIDE DEF r
<1>6. ToSet(r) = ToSet(s)
  <2>1. \A i \in 1 .. n : r[i] \in ToSet(s)
    BY <1>1, <1>4, <1>5 DEF ToSet
  <2>2. \A i \in 1 .. n : s[i] \in ToSet(r)
    <3> TAKE i \in 1 .. n
    <3>1. r[(n - i) + 1] = s[i] /\ (n - i) + 1 \in 1 .. n
      BY <1>4, <1>5
    <3> QED
      BY <1>5, <3>1 DEF ToSet
  <2> QED
    BY <1>1, <1>5, <2>1, <2>2 DEF ToSet
<1>7. Ordered(r, Q)
  <2> SUFFICES ASSUME NEW i \in 1 .. n, NEW j \in 1 .. n, i < j PROVE <<r[i], r[j]>> \in Q
    BY <1>5 DEF Ordered
  <2>1. (n - j) + 1 < (n - i) + 1
    BY <1>1
  <2>2. <<s[(n - j) + 1], s[(n - i) + 1]>> \in R
    BY <1>3, <1>4, <2>1
  <2> QED
    BY <1>1, <1>4, <1>5, <2>2
<1> QED
  BY <1>2, <1>5, <1>6, <1>7

(* Any two elements of a sequence are in the order in which they are there.  *)
LEMMA OrderedBySelf ==
  ASSUME NEW S, NEW s \in Seq(S)
  PROVE  Ordered(s, {p \in S \X S : \E i, j \in DOMAIN s : i < j /\ s[i] = p[1] /\ s[j] = p[2]})
  BY DEF Ordered

LEMMA DocumentFacts ==
  ASSUME document \in Documents, NEW e \in Elements(document)
  PROVE  /\ document.backgrounds[e] \in Seq(Images)
         /\ document.img[e] \in Seq(Images) /\ Ordered(document.img[e], {})
<1>1. document.backgrounds[e] \in Seq(Images) /\ document.img[e] \in {<<>>} \cup {<<i>> : i \in Images}
  BY DocumentAssumption
<1>2. Ordered(<<>>, {}) /\ \A i : Ordered(<<i>>, {})
  BY DEF Ordered
<1>3. <<>> \in Seq(Images) /\ \A i \in Images : <<i>> \in Seq(Images)
  OBVIOUS
<1> DEFINE img == document.img[e]
<1>4. img = <<>> \/ \E i \in Images : img = <<i>>
  BY <1>1
<1> HIDE DEF img
<1>5. img \in Seq(Images) /\ Ordered(img, {})
  BY <1>2, <1>3, <1>4
<1> QED
  BY <1>1, <1>5 DEF img

(* The colour, and then those of the images that can be drawn, from the last *)
LEMMA BackgroundsRecorded ==
  ASSUME document \in Documents, NEW e \in Elements(document), NEW drawable
  PROVE  \E s : /\ Backgrounds(e, drawable) = <<Command(e, "fillRect", "colour")>> \o s
                /\ Recorded(e, "createPattern", Images \cap drawable, s)
<1> DEFINE b == document.backgrounds[e]
           R == {p \in Images \X Images : \E i, j \in DOMAIN b : i < j /\ b[i] = p[1] /\ b[j] = p[2]}
           Q == {p \in Images \X Images : \E i, j \in DOMAIN b : i > j /\ b[i] = p[1] /\ b[j] = p[2]}
           t == Retain(b, drawable)
<1>1. b \in Seq(Images) /\ Ordered(b, R)
  BY DocumentFacts, OrderedBySelf
<1>2. \A x, y \in Images : <<x, y>> \in R => <<y, x>> \in Q
  <2>1. b \in Seq(Images)
    BY <1>1
  <2> HIDE DEF b
  <2> QED
    BY <2>1
<1>3. \A v, w \in Images : <<v, w>> \in Q =>
        MustUnderlie(document, Command(e, "createPattern", v), Command(e, "createPattern", w))
  BY DEF MustUnderlie, Command
<1> HIDE DEF b, R, Q
<1>4. t \in Seq(Images) /\ ToSet(t) = ToSet(b) \cap drawable /\ Ordered(t, R)
  BY <1>1, RetainFacts
<1> HIDE DEF t
<1>5. Reverse(t) \in Seq(Images) /\ ToSet(Reverse(t)) = ToSet(t) /\ Ordered(Reverse(t), Q)
  BY <1>2, <1>4, ReverseFacts
<1>6. Images \in SUBSET Whats /\ "createPattern" \in Names
  BY DEF Whats, Names
<1>7. Recorded(e, "createPattern", ToSet(Reverse(t)), Commands(e, "createPattern", Reverse(t)))
  BY <1>3, <1>5, <1>6, CommandsRecorded
<1>8. ToSet(t) \subseteq Images \cap drawable
  BY <1>1, <1>4 DEF ToSet
<1>9. Recorded(e, "createPattern", Images \cap drawable, Commands(e, "createPattern", Reverse(t)))
  BY <1>5, <1>7, <1>8 DEF Recorded
<1> QED
  BY <1>9 DEF Backgrounds, b, t

(* A border for each side that has one                                       *)
LEMMA BordersRecorded ==
  ASSUME document \in Documents, NEW e \in Elements(document)
  PROVE  Recorded(e, "fill", ToSet(Sides), Borders(e))
<1> DEFINE W == ToSet(Sides)
           R == W \X W
           t == Retain(Sides, document.borders[e])
<1>1. Sides \in Seq(W) /\ Ordered(Sides, R)
  BY DEF ToSet, Sides, Ordered
<1>2. W \in SUBSET Whats /\ "fill" \in Names
  BY DEF Whats, Names
<1>3. \A v, w : MustUnderlie(document, Command(e, "fill", v), Command(e, "fill", w))
  BY DEF MustUnderlie, Command
<1> HIDE DEF W, R
<1>4. t \in Seq(W) /\ ToSet(t) = ToSet(Sides) \cap document.borders[e] /\ Ordered(t, R)
  BY <1>1, RetainFacts
<1> HIDE DEF t
<1>5. Recorded(e, "fill", ToSet(t), Commands(e, "fill", t))
  BY <1>2, <1>3, <1>4, CommandsRecorded
<1>6. ToSet(t) \subseteq W
  BY <1>4 DEF W
<1>7. Recorded(e, "fill", W, Commands(e, "fill", t))
  BY <1>5, <1>6 DEF Recorded
<1> QED
  BY <1>7 DEF Borders, W, t

(* The image of an element, if it can be drawn                               *)
LEMMA ImageRecorded ==
  ASSUME document \in Documents, NEW e \in Elements(document), NEW drawable
  PROVE  Recorded(e, "drawImage", Images \cap drawable, RenderImage(e, drawable))
<1> DEFINE b == document.img[e]
           t == Retain(b, drawable)
           none == {}
<1>1. b \in Seq(Images) /\ Ordered(b, none)
  BY DocumentFacts
<1> HIDE DEF b
<1>2. t \in Seq(Images) /\ ToSet(t) = ToSet(b) \cap drawable /\ Ordered(t, none)
  BY <1>1, RetainFacts
<1> HIDE DEF t, none
<1>3. Images \in SUBSET Whats /\ "drawImage" \in Names
  BY DEF Whats, Names
<1>4. Recorded(e, "drawImage", ToSet(t), Commands(e, "drawImage", t))
  <2>1. \A v, w \in Images : <<v, w>> \in none =>
          MustUnderlie(document, Command(e, "drawImage", v), Command(e, "drawImage", w))
    BY DEF none
  <2> QED
    BY <1>2, <1>3, <2>1, CommandsRecorded
<1>5. ToSet(t) \subseteq Images \cap drawable
  BY <1>1, <1>2 DEF ToSet
<1>6. Recorded(e, "drawImage", Images \cap drawable, Commands(e, "drawImage", t))
  BY <1>4, <1>5 DEF Recorded
<1> QED
  BY <1>6 DEF RenderImage, b, t

(* Commands of an element from one layer to another                          *)
Layered(e, drawable, low, high, s) ==
  /\ s \in Seq(AllCommands) /\ Ordered(s, Underlies)
  /\ \A x \in ToSet(s) :
       /\ x.element = e /\ Layer(x) \in low .. high
       /\ x.name \in {"createPattern", "drawImage"} => x.what \in drawable
  /\ low = 1 => \E x \in ToSet(s) : x.name = "fillRect"

OnlyDrawable(name, W, drawable) == name \in {"createPattern", "drawImage"} => W \subseteq drawable

LEMMA RecordedLayered ==
  ASSUME NEW e, NEW drawable, NEW name, NEW n \in 2 .. 5, NEW W, NEW s,
         LayerIs(name, n), Recorded(e, name, W, s),
         OnlyDrawable(name, W, drawable)
  PROVE  Layered(e, drawable, n, n, s)
<1>1. \A x : x.name = name => Layer(x) = n
  BY DEF LayerIs
<1>2. \A x \in ToSet(s) : x.element = e /\ x.name = name /\ x.what \in W
  BY DEF Recorded
<1>3. n \in n .. n /\ n # 1
  OBVIOUS
<1>4. s \in Seq(AllCommands) /\ Ordered(s, Underlies)
  BY DEF Recorded
<1> QED
  BY <1>1, <1>2, <1>3, <1>4 DEF Layered, OnlyDrawable

(* Later layers, or more text, can follow.                                   *)
LEMMA LayeredConcat ==
  ASSUME NEW e, NEW drawable, NEW a \in 1 .. 5, NEW b \in 1 .. 5, NEW c \in 1 .. 5, NEW f \in 1 .. 5,
         a <= b, c <= f, b < c \/ (b = 5 /\ c = 5),
         NEW s, NEW t, Layered(e, drawable, a, b, s), Layered(e, drawable, c, f, t)
  PROVE  Layered(e, drawable, a, f, s \o t)
<1> DEFINE S == AllCommands
<1>1. /\ s \in Seq(S) /\ t \in Seq(S) /\ Ordered(s, Underlies) /\ Ordered(t, Underlies)
      /\ \A x \in ToSet(s) : Layer(x) \in a .. b
      /\ \A x \in ToSet(t) : Layer(x) \in c .. f
  BY DEF Layered
<1>2. \A q \in Seq(S) : \A x \in ToSet(q) : x \in S
  BY DEF ToSet
<1>3. \A x \in S : Layer(x) = 5 => x.name = "fillText"
  <2> TAKE x \in S
  <2>1. x.name \in Names
    BY DEF AllCommands
  <2> QED
    BY <2>1 DEF Layer, Names
<1>4. ASSUME NEW x \in ToSet(s), NEW y \in ToSet(t) PROVE <<x, y>> \in Underlies
  <2>1. x \in S /\ y \in S
    BY <1>1, <1>2
  <2>2. Layer(x) \in a .. b /\ Layer(y) \in c .. f
    BY <1>1
  <2>3. Layer(x) < Layer(y) \/ (Layer(x) = 5 /\ Layer(y) = 5)
    <3> DEFINE m == Layer(x)
               n == Layer(y)
    <3> HIDE DEF m, n
    <3>1. m \in a .. b /\ n \in c .. f
      BY <2>2 DEF m, n
    <3>2. m < n \/ (m = 5 /\ n = 5)
      BY <3>1
    <3> QED
      BY <3>2 DEF m, n
  <2>4. MustUnderlie(document, x, y)
    BY <1>3, <2>1, <2>3 DEF MustUnderlie
  <2> QED
    BY <2>1, <2>4 DEF Underlies
<1>5. s \o t \in Seq(S) /\ ToSet(s \o t) = ToSet(s) \cup ToSet(t)
  BY <1>1, Concat
<1>6. Ordered(s \o t, Underlies)
  BY <1>1, <1>4, ConcatOrdered
<1>7. \A m \in a .. b : m \in a .. f
  OBVIOUS
<1>8. \A m \in c .. f : m \in a .. f
  OBVIOUS
<1>9. a = 1 => \E x \in ToSet(s) : x.name = "fillRect"
  BY DEF Layered
<1> QED
  BY <1>5, <1>6, <1>7, <1>8, <1>9 DEF Layered

(* All that is recorded for an element begins with its background colour.    *)
LEMMA StorageFacts ==
  ASSUME document \in Documents, NEW e \in Elements(document), NEW drawable
  PROVE  Layered(e, drawable, 1, 5, Storage(e, drawable))
<1> DEFINE first == Command(e, "fillRect", "colour")
           L(low, high, s) == Layered(e, drawable, low, high, s)
<1>1. PICK p : /\ Backgrounds(e, drawable) = <<first>> \o p
               /\ Recorded(e, "createPattern", Images \cap drawable, p)
  BY BackgroundsRecorded
<1> HIDE DEF first
<1>0. /\ OnlyDrawable("createPattern", Images \cap drawable, drawable)
      /\ OnlyDrawable("drawImage", Images \cap drawable, drawable)
      /\ \A W : OnlyDrawable("fill", W, drawable) /\ OnlyDrawable("fillText", W, drawable)
  BY DEF OnlyDrawable
<1>2. L(2, 2, p)
  <2>1. Recorded(e, "createPattern", Images \cap drawable, p)
    BY <1>1
  <2> QED
    BY <1>0, <2>1, RecordedLayered, LayerOf
<1>3. L(1, 1, <<first>>)
  <2>1. "colour" \in Whats /\ "fillRect" \in Names
    BY DEF Whats, Names
  <2>2. Recorded(e, "fillRect", {"colour"}, <<first>>)
    BY <2>1, OneRecorded DEF first
  <2>3. \A x : x.name = "fillRect" => Layer(x) = 1
    BY LayerOf DEF LayerIs
  <2>4. first \in ToSet(<<first>>) /\ first.name = "fillRect"
    BY DEF ToSet, Command, first
  <2> QED
    BY <2>2, <2>3, <2>4 DEF Layered, Recorded
<1>4. L(3, 3, Borders(e))
  <2>1. Recorded(e, "fill", ToSet(Sides), Borders(e))
    BY BordersRecorded
  <2> QED
    BY <1>0, <2>1, RecordedLayered, LayerOf
<1>5. L(4, 4, RenderImage(e, drawable))
  <2>1. Recorded(e, "drawImage", Images \cap drawable, RenderImage(e, drawable))
    BY ImageRecorded
  <2> QED
    BY <1>0, <2>1, RecordedLayered, LayerOf
<1>6. \A what \in Whats : L(5, 5, <<>>) /\ L(5, 5, <<Command(e, "fillText", what)>>)
  <2> TAKE what \in Whats
  <2>1. Recorded(e, "fillText", {what}, <<>>)
        /\ Recorded(e, "fillText", {what}, <<Command(e, "fillText", what)>>)
    <3>1. "fillText" \in Names
      BY DEF Names
    <3> QED
      BY <3>1, OneRecorded
  <2> DEFINE one == <<Command(e, "fillText", what)>>
             none == <<>>
  <2> HIDE DEF one, none
  <2>2. Recorded(e, "fillText", {what}, none) /\ Recorded(e, "fillText", {what}, one)
    BY <2>1 DEF one, none
  <2>3. L(5, 5, none)
    BY <1>0, <2>2, RecordedLayered, LayerOf
  <2>4. L(5, 5, one)
    BY <1>0, <2>2, RecordedLayered, LayerOf
  <2> QED
    BY <2>3, <2>4 DEF one, none
<1>7. L(5, 5, RenderFormValue(e)) /\ L(5, 5, RenderListItem(e)) /\ L(5, 5, Text(e))
  <2>1. "value" \in Whats /\ "number" \in Whats /\ "text" \in Whats
    BY DEF Whats
  <2>2. L(5, 5, <<>>) /\ \A what \in {"value", "number", "text"} : L(5, 5, <<Command(e, "fillText", what)>>)
    BY <1>6, <2>1
  <2> HIDE DEF L
  <2>3. L(5, 5, RenderFormValue(e))
    BY <2>2 DEF RenderFormValue, CommandIf
  <2>4. L(5, 5, RenderListItem(e))
    BY <2>2 DEF RenderListItem, CommandIf
  <2>5. L(5, 5, Text(e))
    BY <2>2 DEF Text, CommandIf
  <2> QED
    BY <2>3, <2>4, <2>5
<1>8. L(1, 2, Backgrounds(e, drawable))
  <2> HIDE DEF first
  <2> QED
    BY <1>1, <1>2, <1>3, LayeredConcat
<1>9. L(1, 3, Backgrounds(e, drawable) \o Borders(e))
  BY <1>4, <1>8, LayeredConcat
<1>10. L(4, 5, RenderImage(e, drawable) \o RenderFormValue(e))
  BY <1>5, <1>7, LayeredConcat
<1>11. L(4, 5, Content(e, drawable))
  BY <1>7, <1>10, LayeredConcat DEF Content
<1>12. L(1, 5, (Backgrounds(e, drawable) \o Borders(e)) \o Content(e, drawable))
  BY <1>9, <1>11, LayeredConcat
<1>13. L(1, 5, ((Backgrounds(e, drawable) \o Borders(e)) \o Content(e, drawable)) \o Text(e))
  <2> DEFINE s == (Backgrounds(e, drawable) \o Borders(e)) \o Content(e, drawable)
  <2>1. L(1, 5, s)
    BY <1>12
  <2> HIDE DEF s
  <2>2. L(1, 5, s \o Text(e))
    BY <1>7, <2>1, LayeredConcat
  <2> QED
    BY <2>2 DEF s
<1> QED
  BY <1>13, Zenon DEF Storage

(***************************************************************************)
(* What is painted of the whole document                                    *)
(***************************************************************************)

Entries == [command : AllCommands, tainted : BOOLEAN]
Follows(x, y) ==
  IF x.command.element = y.command.element
  THEN MustUnderlie(document, x.command, y.command)
  ELSE MustPrecede(document, x.command.element, y.command.element)
EntryOrder == {p \in Entries \X Entries : Follows(p[1], p[2])}
Clean(x, drawable, tainting) ==
  x.tainted => /\ drawable \cap tainting # {}
               /\ options.taintTest => x.command.name = "createPattern"
Entry(x, tainting) == [command |-> x, tainted |-> Taints(x, tainting)]

(* With the taint test an image that taints is left out, a background is not.*)
LEMMA EntryFacts ==
  ASSUME NEW x \in AllCommands, NEW drawable, NEW tainting, SafeImage(x, tainting),
         x.name \in {"createPattern", "drawImage"} => x.what \in drawable
  PROVE  /\ Entry(x, tainting) \in Entries /\ Entry(x, tainting).command = x
         /\ Clean(Entry(x, tainting), drawable, tainting)
<1>1. Taints(x, tainting) \in BOOLEAN
  BY DEF Taints
<1>2. Entry(x, tainting) \in Entries /\ Entry(x, tainting).command = x
  BY <1>1 DEF Entry, Entries
<1>3. Entry(x, tainting).tainted = Taints(x, tainting)
  BY DEF Entry
<1>4. Taints(x, tainting) => /\ drawable \cap tainting # {}
                             /\ options.taintTest => x.name = "createPattern"
  BY DEF Taints, SafeImage
<1> QED
  BY <1>2, <1>3, <1>4, Zenon DEF Clean

(* What is painted of one element                                            *)
Painted(e, drawable, tainting, p) ==
  /\ p \in Seq(Entries) /\ Ordered(p, EntryOrder) /\ ToSet(p) # {}
  /\ \A x \in ToSet(p) : x.command.element = e /\ Clean(x, drawable, tainting)

(* Each element is painted, in its layers.                                   *)
LEMMA PaintFacts ==
  ASSUME document \in Documents, NEW e \in Elements(document), NEW drawable, NEW tainting
  PROVE  Painted(e, drawable, tainting, Paint(e, drawable, tainting))
<1> DEFINE storage == Storage(e, drawable)
           safe == {x \in ToSet(storage) : SafeImage(x, tainting)}
           s == Retain(storage, safe)
           n == Len(s)
           p == [k \in 1 .. n |-> Entry(s[k], tainting)]
<1>1. /\ storage \in Seq(AllCommands) /\ Ordered(storage, Underlies)
      /\ \A x \in ToSet(storage) :
           x.element = e /\ (x.name \in {"createPattern", "drawImage"} => x.what \in drawable)
      /\ \E x \in ToSet(storage) : x.name = "fillRect"
  BY StorageFacts DEF Layered
<1>2. safe \subseteq ToSet(storage) /\ \A x \in safe : SafeImage(x, tainting)
  OBVIOUS
<1>3. safe # {}
  BY <1>1 DEF SafeImage
<1> HIDE DEF storage, safe
<1>4. s \in Seq(AllCommands) /\ ToSet(s) = ToSet(storage) \cap safe /\ Ordered(s, Underlies)
  BY <1>1, RetainFacts
<1>5. Paint(e, drawable, tainting) = [k \in DOMAIN s |-> Entry(s[k], tainting)]
  BY DEF Paint, Entry, storage, safe, s
<1> HIDE DEF s
<1>6. n \in Nat /\ DOMAIN s = 1 .. n /\ \A k \in 1 .. n : s[k] \in AllCommands /\ s[k] \in safe
  BY <1>2, <1>4 DEF ToSet
<1>7. 1 .. n # {}
  BY <1>2, <1>3, <1>4, <1>6 DEF ToSet
<1>8. \A i, j \in 1 .. n : i < j => MustUnderlie(document, s[i], s[j])
  BY <1>4 DEF Ordered, Underlies
<1> HIDE DEF n
<1>9. \A k \in 1 .. n : /\ s[k].element = e
                        /\ Entry(s[k], tainting) \in Entries /\ Entry(s[k], tainting).command = s[k]
                        /\ Clean(Entry(s[k], tainting), drawable, tainting)
  BY <1>1, <1>2, <1>6, EntryFacts
<1>10. p \in Seq(Entries) /\ Len(p) = n /\ DOMAIN p = 1 .. n
       /\ \A k \in 1 .. n : p[k] = Entry(s[k], tainting)
  BY <1>6, <1>9
<1> HIDE DEF p
<1>11. Ordered(p, EntryOrder)
  <2> SUFFICES ASSUME NEW i \in 1 .. n, NEW j \in 1 .. n, i < j PROVE <<p[i], p[j]>> \in EntryOrder
    BY <1>10 DEF Ordered
  <2>1. p[i] \in Entries /\ p[j] \in Entries
    BY <1>9, <1>10
  <2>2. Follows(p[i], p[j])
    BY <1>8, <1>9, <1>10 DEF Follows
  <2> QED
    BY <2>1, <2>2 DEF EntryOrder
<1>12. \A x \in ToSet(p) : x.command.element = e /\ Clean(x, drawable, tainting)
  BY <1>9, <1>10 DEF ToSet
<1>13. ToSet(p) # {}
  BY <1>7, <1>10 DEF ToSet
<1>14. Paint(e, drawable, tainting) = p
  BY <1>5, <1>6 DEF p
<1> QED
  BY <1>10, <1>11, <1>12, <1>13, <1>14 DEF Painted

(* The document is painted in the order of its queue.                        *)
LEMMA RenderFacts ==
  ASSUME document \in Documents, queue = RenderQueue(document), NEW drawable, NEW tainting
  PROVE  /\ Render(drawable, tainting) \in Seq(Entries)
         /\ Ordered(Render(drawable, tainting), EntryOrder)
         /\ {x.command.element : x \in ToSet(Render(drawable, tainting))} = Visible(document)
         /\ \A x \in ToSet(Render(drawable, tainting)) : Clean(x, drawable, tainting)
<1> DEFINE D == Elements(document)
           n == Len(queue)
           p == [k \in 1 .. n |-> Paint(queue[k], drawable, tainting)]
<1>1. queue \in Seq(D) /\ ToSet(queue) = Visible(document) /\ Ordered(queue, Precedes(document))
  BY QueueFacts
<1>2. n \in Nat /\ DOMAIN queue = 1 .. n /\ \A k \in 1 .. n : queue[k] \in D
  BY <1>1
<1>3. Visible(document) = {queue[k] : k \in 1 .. n}
  BY <1>1, <1>2 DEF ToSet
<1>4. \A i, j \in 1 .. n : i < j => queue[i] # queue[j] /\ MustPrecede(document, queue[i], queue[j])
  BY <1>1 DEF Ordered, Precedes
<1>5. \A k \in 1 .. n : Painted(queue[k], drawable, tainting, Paint(queue[k], drawable, tainting))
  BY <1>2, PaintFacts
<1> HIDE DEF n
<1>6. \A k \in 1 .. n : Paint(queue[k], drawable, tainting) \in Seq(Entries)
  BY <1>5 DEF Painted
<1>7. p \in Seq(Seq(Entries)) /\ Len(p) = n /\ \A k \in 1 .. n : p[k] = Paint(queue[k], drawable, tainting)
  BY <1>2, <1>6
<1>8. Render(drawable, tainting) = FlattenSeq(p)
  BY <1>2 DEF Render
<1> HIDE DEF p
<1>9. \A k \in 1 .. n : /\ p[k] \in Seq(Entries) /\ Ordered(p[k], EntryOrder) /\ ToSet(p[k]) # {}
                        /\ \A x \in ToSet(p[k]) : /\ x \in Entries /\ x.command.element = queue[k]
                                                  /\ Clean(x, drawable, tainting)
  <2> TAKE k \in 1 .. n
  <2>1. Painted(queue[k], drawable, tainting, p[k])
    BY <1>5, <1>7
  <2>2. \A q \in Seq(Entries) : \A x \in ToSet(q) : x \in Entries
    BY DEF ToSet
  <2> QED
    BY <2>1, <2>2 DEF Painted
<1>10. \A k, m \in 1 .. n : k < m =>
         \A x \in ToSet(p[k]), y \in ToSet(p[m]) : <<x, y>> \in EntryOrder
  <2> TAKE k, m \in 1 .. n
  <2> HAVE k < m
  <2> TAKE x \in ToSet(p[k]), y \in ToSet(p[m])
  <2>1. Follows(x, y)
    BY <1>4, <1>9 DEF Follows
  <2>2. x \in Entries /\ y \in Entries
    BY <1>9
  <2> QED
    BY <2>1, <2>2 DEF EntryOrder
<1>11. /\ FlattenSeq(p) \in Seq(Entries)
       /\ ToSet(FlattenSeq(p)) = UNION {ToSet(p[k]) : k \in 1 .. n}
       /\ Ordered(FlattenSeq(p), EntryOrder)
  BY <1>7, <1>9, <1>10, FlattenFacts
<1>12. \A x \in ToSet(FlattenSeq(p)) : \E k \in 1 .. n : x.command.element = queue[k] /\ Clean(x, drawable, tainting)
  BY <1>9, <1>11
<1>13. \A k \in 1 .. n : \E x \in ToSet(FlattenSeq(p)) : x.command.element = queue[k]
  BY <1>9, <1>11
<1>14. {x.command.element : x \in ToSet(FlattenSeq(p))} = Visible(document)
  BY <1>3, <1>12, <1>13
<1> QED
  BY <1>8, <1>11, <1>12, <1>14

(***************************************************************************)
(* The picture                                                              *)
(***************************************************************************)

(* PaintedInOrder speaks of neighbours; all that is painted is in order.     *)
LEMMA Neighbours ==
  ASSUME NEW cv \in Seq(Entries), Ordered(cv, EntryOrder),
         {x.command.element : x \in ToSet(cv)} = Visible(document)
  PROVE  /\ {cv[k].command.element : k \in DOMAIN cv} = Visible(document)
         /\ \A k \in 1 .. Len(cv) - 1 :
              IF cv[k].command.element = cv[k + 1].command.element
              THEN MustUnderlie(document, cv[k].command, cv[k + 1].command)
              ELSE MustPrecede(document, cv[k].command.element, cv[k + 1].command.element)
<1>1. \A k \in 1 .. Len(cv) - 1 : Follows(cv[k], cv[k + 1])
  <2> TAKE k \in 1 .. Len(cv) - 1
  <2>1. k \in 1 .. Len(cv) /\ k + 1 \in 1 .. Len(cv) /\ k < k + 1
    OBVIOUS
  <2>2. <<cv[k], cv[k + 1]>> \in EntryOrder
    BY <2>1 DEF Ordered
  <2> QED
    BY <2>2 DEF EntryOrder
<1>2. {cv[k].command.element : k \in DOMAIN cv} = {x.command.element : x \in ToSet(cv)}
  BY DEF ToSet
<1> QED
  BY <1>1, <1>2 DEF Follows

(* An image that is drawn and taints came late after its proxy was asked.    *)
LEMMA TaintIsEarly == CountInv => (Drawable \cap Tainting # {} => options.allowTaint \/ early)
  BY DEF CountInv, Outstanding, Waiting, Drawable, Tainting

(* Options stay, and so does what is remembered of customComplete.           *)
LEMMA OptionsStay == [ScreenNext]_screenVars => options' = options /\ (early => early')
<1> SUFFICES ASSUME [ScreenNext]_screenVars PROVE options' = options /\ (early => early')
  OBVIOUS
<1>1. CASE PreloadNext
  <2>1. CASE Scan
    BY <2>1, Zenon DEF Scan
  <2>2. ASSUME NEW i \in Images, NEW ok \in BOOLEAN,
               LoadEnds(i, ok) \/ StaleEvent(i, ok) \/ ScriptAnswers(i, ok)
        PROVE  options' = options /\ (early => early')
    <3>1. CASE LoadEnds(i, ok)
      BY <3>1, Zenon DEF LoadEnds
    <3>2. CASE StaleEvent(i, ok)
      BY <3>2, Zenon DEF StaleEvent
    <3>3. CASE ScriptAnswers(i, ok)
      BY <3>3, Zenon DEF ScriptAnswers
    <3> QED
      BY <2>2, <3>1, <3>2, <3>3
  <2>3. ASSUME NEW i \in Images, CorsFails(i) PROVE options' = options /\ (early => early')
    BY <2>3, Zenon DEF CorsFails
  <2>4. ASSUME NEW i \in Images, CustomComplete(i) PROVE options' = options /\ (early => early')
    BY <2>4, SMT DEF CustomComplete
  <2>5. ASSUME NEW given, CleanupDOM(given) PROVE options' = options /\ (early => early')
    BY <2>5, Zenon DEF CleanupDOM
  <2> QED
    BY <1>1, <2>1, <2>2, <2>3, <2>4, <2>5, Zenon DEF PreloadNext, BrowserEvent, Timeout
<1>2. CASE UNCHANGED preloadVars
  BY <1>2 DEF preloadVars
<1> QED
  BY <1>1, <1>2 DEF ScreenNext, screenVars

PictureOf == document \in Documents /\ queue = RenderQueue(document)
CanvasInv == PictureOf /\ PaintedInOrder /\ CanvasIsClean

LEMMA CanvasInit == ScreenInit => CanvasInv
  BY DEF ScreenInit, PreloadInit, CanvasInv, PictureOf, PaintedInOrder, CanvasIsClean

(* The canvas changes when complete is called, and is then all painted anew. *)
LEMMA CanvasStep == CountInv /\ CountInv' /\ CanvasInv /\ [ScreenNext]_screenVars => CanvasInv'
<1> SUFFICES ASSUME CountInv, CountInv', CanvasInv, [ScreenNext]_screenVars PROVE CanvasInv'
  OBVIOUS
<1>1. document' = document /\ queue' = queue
      /\ \/ completed' = completed /\ canvas' = canvas
         \/ completed' # completed /\ canvas' = Render(Drawable', Tainting')
  BY DEF ScreenNext, screenVars, preloadVars, Complete
<1>2. options' = options /\ (early => early')
  BY OptionsStay
<1>3. PictureOf'
  BY <1>1 DEF CanvasInv, PictureOf
<1>4. CASE completed' = completed /\ canvas' = canvas
  <2>1. PaintedInOrder'
    BY <1>1, <1>4 DEF CanvasInv, PaintedInOrder
  <2>2. CanvasIsClean'
    BY <1>2, <1>4 DEF CanvasInv, CanvasIsClean
  <2> QED
    BY <1>3, <2>1, <2>2 DEF CanvasInv
<1>5. CASE canvas' = Render(Drawable', Tainting')
  <2>1. /\ canvas' \in Seq(Entries) /\ Ordered(canvas', EntryOrder)
        /\ {x.command.element : x \in ToSet(canvas')} = Visible(document)
        /\ \A x \in ToSet(canvas') : Clean(x, Drawable', Tainting')
    BY <1>5, RenderFacts DEF CanvasInv, PictureOf
  <2>2. PaintedInOrder'
    BY <1>1, <2>1, Neighbours DEF PaintedInOrder
  <2>3. (Drawable \cap Tainting # {})' => (options.allowTaint \/ early)'
    BY TaintIsEarly, PTL
  <2>4. \A k \in DOMAIN canvas' : Clean(canvas'[k], Drawable', Tainting')
    BY <2>1 DEF ToSet
  <2>5. CanvasIsClean'
    BY <1>2, <2>3, <2>4 DEF CanvasIsClean, Clean
  <2> QED
    BY <1>3, <2>2, <2>5 DEF CanvasInv
<1> QED
  BY <1>1, <1>4, <1>5

(* Whatever the document, however its elements are nested and given          *)
(* z-indexes, and whichever images came: when html2canvas calls complete,    *)
(* every visible element has been painted, the elements in the order of      *)
(* their stacking contexts and what is painted of each in its layers.        *)
THEOREM PicturePaintedInOrder == ScreenSpec => []PaintedInOrder
<1>1. ScreenInit => CountInv /\ CanvasInv
  BY CountInit, CanvasInit DEF ScreenInit
<1>2. CountInv /\ [ScreenNext]_screenVars => CountInv'
  BY CountStep DEF ScreenNext, screenVars
<1>3. CanvasInv => PaintedInOrder
  BY DEF CanvasInv
<1> QED
  BY <1>1, <1>2, <1>3, CanvasStep, PTL DEF ScreenSpec

(* And nothing that taints the canvas is on it, unless the options allow it  *)
(* or customComplete was ahead of an event; with the taint test, then only   *)
(* a background.                                                             *)
THEOREM CanvasStaysClean == ScreenSpec => []CanvasIsClean
<1>1. ScreenInit => CountInv /\ CanvasInv
  BY CountInit, CanvasInit DEF ScreenInit
<1>2. CountInv /\ [ScreenNext]_screenVars => CountInv'
  BY CountStep DEF ScreenNext, screenVars
<1>3. CanvasInv => CanvasIsClean
  BY DEF CanvasInv
<1> QED
  BY <1>1, <1>2, <1>3, CanvasStep, PTL DEF ScreenSpec
=============================================================================
