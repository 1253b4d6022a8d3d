--------------------------- MODULE CoverageClient ---------------------------
(***************************************************************************)
(* The web page's coverage display: CoverageUI, its AisJsonClient and        *)
(* setupMap.  The settings a picture depends on change by gestures of the    *)
(* user and by answers of the server; a timer polls the flag changed and     *)
(* asks for the coverage of the settings; a request of its own follows each  *)
(* move of the map.  Handlers run one at a time (the browser's event loop),  *)
(* and between any two of them an answer, a timer or the mouse may be next.  *)
(*                                                                          *)
(* The sliding window's slider, the charts and the ship track are in         *)
(* SlidingWindow, which extends this module.                                 *)
(* An operator named Mutant... is the definition after it with a plausible   *)
(* mistake; no behaviour uses it.                                            *)
(***************************************************************************)
EXTENDS Integers

CONSTANTS
  Sources,        \* the sources the server knows, by mmsi
  Zooms, Places,  \* zoom levels and positions of the map that are visited
  InitialZoom, InitialPlace, \* those of settings.js
  LastHour,       \* length of the sliding window in hours
  DefaultHours,   \* hours selected at first (6 in the code)
  RangesOf,       \* positions of the threshold slider, per category
  FilterPositions, \* positions of the filter slider that are tried
  ExportPositions, \* positions of the export slider that are tried
  MaxGestures     \* bound of the model: gestures of the user

Categories == {"VDM", "VSI"}

(* the zoom factor of the cells asked for; it is undefined at zoom 0, which   *)
(* the model leaves out                                                      *)
MultiplicationFactor(zoom) ==
  CASE zoom >= 10 -> 1 [] zoom = 9 -> 2 [] zoom = 8 -> 3 [] zoom = 7 -> 4 [] zoom = 6 -> 8
    [] zoom = 5 -> 20 [] zoom = 4 -> 40 [] zoom \in {2, 3} -> 60 [] zoom = 1 -> 80

Views == [zoom : Zooms, place : Places]
Intervals == {i \in (0 .. LastHour) \X (0 .. LastHour) : i[2] - i[1] >= 1}
NoInterval == <<>>
Ranges == UNION {RangesOf[c] : c \in Categories}
Filters == FilterPositions \cup ExportPositions \cup {100}

ASSUME ClientAssumption ==
  /\ Zooms \subseteq Nat \ {0} /\ InitialZoom \in Zooms /\ InitialPlace \in Places
  /\ LastHour \in Nat \ {0} /\ DefaultHours \in Nat \ {0}
  /\ RangesOf \in [Categories -> SUBSET (Int \X Int)]
  /\ <<20, 50>> \in RangesOf["VDM"] /\ <<-107, -101>> \in RangesOf["VSI"]
  /\ FilterPositions \subseteq Nat /\ ExportPositions \subseteq Nat
  /\ MaxGestures \in Nat

VARIABLES
  view,           \* the map's zoom level and position
  formFactor,     \* the zoom factor in the export form
  selected,       \* selectedStartDate and selectedEndDate, in hours of the window
  canUpdate,
  known,          \* the answer of getSources has come
  enabled,        \* the sources that are enabled
  selectAll,      \* the check box of all sources
  markers,        \* what the list and the markers of the sources show: those enabled, and the
                  \* one selected
  category,       \* the coverage type chosen
  scheme,         \* thresholds, unit and export data type in use
  saved,          \* those of the other category
  filter,         \* minExpectedMessages
  details,        \* what the details panel holds: "none", "source", or a cell, in the terms
                  \* of a category
  selectedSource, \* the source selected on the map, {} if none
  panel,          \* the details panel: "closed", "open", or "closing" while it slides up
  changed,
  loop,           \* "waiting" for its timer, or "dead"
  loading,        \* the loading panel is visible
  inflight,       \* coverage requests the server has not answered
  sent,           \* coverage requests made; the last is jsoncoveragerequest
  picture,        \* what was drawn last, and with which settings; {} before the first
  unannounced,    \* history: a setting was set, and changed was not, since the last request
  drag,           \* the slider the mouse holds, or "none"
  gestures        \* bound of the model: gestures made

mapVars == <<view, formFactor>>
windowVars == <<selected, canUpdate>>
sourceVars == <<known, enabled, selectAll, markers>>
schemeVars == <<category, scheme, saved, filter>>
panelVars == <<details, selectedSource, panel>>
requestVars == <<loading, inflight, sent, picture, unannounced>>
userVars == <<drag, gestures>>
vars == <<mapVars, windowVars, sourceVars, schemeVars, panelVars, changed, loop, requestVars,
          userVars>>

VdmScheme == [range |-> <<20, 50>>, unit |-> "%", data |-> "received_messages"]
VsiScheme == [range |-> <<-107, -101>>, unit |-> "dBm", data |-> "signal_strength"]

(* The view of the last visit, where its cookies are set.                    *)
LoadView(zoomCookie, placeCookie) ==
  [zoom |-> IF zoomCookie = {} THEN InitialZoom ELSE CHOOSE z \in zoomCookie : TRUE,
   place |-> IF placeCookie = {} THEN InitialPlace ELSE CHOOSE p \in placeCookie : TRUE]

MapInit ==
  /\ \E z \in {{}} \cup {{z} : z \in Zooms}, p \in {{}} \cup {{p} : p \in Places} :
       view = LoadView(z, p)
  /\ formFactor = 4
  /\ known = FALSE

Init ==
  /\ MapInit
  /\ selected = NoInterval /\ canUpdate = FALSE
  /\ enabled = {} /\ selectAll = TRUE
  /\ markers = [enabled |-> {}, selected |-> {}]
  /\ category = "VDM" /\ scheme = VdmScheme /\ saved = VsiScheme /\ filter = 100
  /\ details = "none" /\ selectedSource = {} /\ panel = "closed"
  /\ changed = TRUE /\ loop = "waiting"
  /\ loading = FALSE /\ inflight = {} /\ sent = 0 /\ picture = {} /\ unannounced = FALSE
  /\ drag = "none" /\ gestures = 0

-----------------------------------------------------------------------------
(* Coverage requests and their answers *)

NewRequest(v) == [id |-> sent + 1, sources |-> enabled, view |-> v, interval |-> selected]

MutantNotAborted == inflight
NotAborted == {r \in inflight : r.id # sent}

(* drawCoverage for the map's view v: the loading panel is shown; then a     *)
(* request replaces the one that waits, unless the selected dates are not    *)
(* there yet: reading them throws.                                           *)
DrawCoverage(v) ==
  /\ loading' = TRUE
  /\ IF selected = NoInterval
     THEN UNCHANGED <<inflight, sent, unannounced>>
     ELSE /\ inflight' = NotAborted \cup {NewRequest(v)}
          /\ sent' = sent + 1
          /\ unannounced' = FALSE
  /\ UNCHANGED picture

(* loopFunction, when it finds the flag set.  If drawCoverage throws, the    *)
(* flag stays and the timer is not set again.                                *)
MutantPoll ==
  /\ loop = "waiting"
  /\ changed
  /\ changed' = FALSE
  /\ loading' = TRUE
  /\ UNCHANGED <<mapVars, windowVars, sourceVars, schemeVars, panelVars, userVars, loop, inflight,
                 sent, picture, unannounced>>

Poll ==
  /\ loop = "waiting"
  /\ changed
  /\ DrawCoverage(view)
  /\ IF selected = NoInterval
     THEN loop' = "dead" /\ UNCHANGED changed
     ELSE changed' = FALSE /\ UNCHANGED loop
  /\ UNCHANGED <<mapVars, windowVars, sourceVars, schemeVars, panelVars, userVars>>

(* The cells are coloured with the settings of the moment the answer comes.  *)
CoverageAnswered(r) ==
  /\ r \in inflight
  /\ inflight' = inflight \ {r}
  /\ picture' = {[request |-> r, category |-> category, scheme |-> scheme, filter |-> filter]}
  /\ loading' = FALSE
  /\ UNCHANGED <<mapVars, windowVars, sourceVars, schemeVars, panelVars, userVars, changed, loop,
                 sent, unannounced>>

(* nobody handles a request that fails *)
CoverageFails(r) ==
  /\ r \in inflight
  /\ inflight' = inflight \ {r}
  /\ UNCHANGED <<mapVars, windowVars, sourceVars, schemeVars, panelVars, userVars, changed, loop,
                 loading, sent, picture, unannounced>>

(* the list of the sources and their markers                                 *)
DrawSources == markers' = [enabled |-> enabled', selected |-> selectedSource']

(* The answer of getSources enables all sources; it does not set changed.    *)
SourcesAnswered ==
  /\ ~known
  /\ known' = TRUE
  /\ enabled' = Sources
  /\ unannounced' = TRUE
  /\ UNCHANGED <<mapVars, windowVars, selectAll, schemeVars, panelVars, userVars, changed, loop,
                 loading, inflight, sent, picture>>
  /\ DrawSources

DefaultInterval ==
  <<IF LastHour < DefaultHours THEN 0 ELSE LastHour - DefaultHours, LastHour>>

(* The answer of getStatus sets up the sliding window.                       *)
StatusAnswered ==
  /\ selected = NoInterval
  /\ selected' = DefaultInterval
  /\ UNCHANGED <<mapVars, canUpdate, sourceVars, schemeVars, panelVars, userVars, changed, loop,
                 requestVars>>

-----------------------------------------------------------------------------
(* Gestures.  The mouse holds one slider at a time. *)

Gesture == drag = "none" /\ gestures < MaxGestures /\ gestures' = gestures + 1

(* The details panel opens only if it holds something and is closed; while   *)
(* it slides up it counts as open.                                           *)
SlideDown(content) ==
  panel' = IF content # "none" /\ panel = "closed" THEN "open" ELSE panel
SlideUp == panel' = IF panel = "open" THEN "closing" ELSE panel

SlidUp ==
  /\ panel = "closing"
  /\ panel' = "closed"
  /\ UNCHANGED <<mapVars, windowVars, sourceVars, schemeVars, details, selectedSource, changed,
                 loop, requestVars, userVars>>

ClickHeader ==
  /\ Gesture
  /\ IF panel = "closed" THEN SlideDown(details) ELSE SlideUp
  /\ UNCHANGED <<mapVars, windowVars, sourceVars, schemeVars, details, selectedSource, changed,
                 loop, requestVars, drag>>

RefreshSourceDetails == details' = IF selectedSource = {} THEN details ELSE "source"

SelectSource(s) ==
  /\ Gesture
  /\ known
  /\ selectedSource' = {s}
  /\ details' = "source"
  /\ SlideDown("source")
  /\ UNCHANGED <<mapVars, windowVars, known, enabled, selectAll, schemeVars, changed, loop,
                 requestVars, drag>>
  /\ DrawSources

(* A cell's details are worded for the coverage type chosen; their figures   *)
(* are the picture's.                                                        *)
SelectCell ==
  /\ Gesture
  /\ picture # {}
  /\ selectedSource' = {}
  /\ details' = category
  /\ SlideDown(category)
  /\ UNCHANGED <<mapVars, windowVars, known, enabled, selectAll, schemeVars, changed, loop,
                 requestVars, drag>>
  /\ DrawSources

ToggleSource(s) ==
  /\ Gesture
  /\ known
  /\ enabled' = IF s \in enabled THEN enabled \ {s} ELSE enabled \cup {s}
  /\ RefreshSourceDetails
  /\ changed' = TRUE
  /\ UNCHANGED <<mapVars, windowVars, known, selectAll, schemeVars, selectedSource, panel, loop,
                 requestVars, drag>>
  /\ DrawSources

ToggleSelectAll ==
  /\ Gesture
  /\ selectAll' = ~selectAll
  /\ enabled' = IF known /\ selectAll' THEN Sources ELSE {}
  /\ RefreshSourceDetails
  /\ changed' = TRUE
  /\ UNCHANGED <<mapVars, windowVars, known, schemeVars, selectedSource, panel, loop, requestVars,
                 drag>>
  /\ DrawSources

(* The settings that go with the coverage type change places with the saved  *)
(* ones, and the details panel is emptied and closed.                        *)
MutantCleanupCellDetails == SlideUp /\ UNCHANGED details
CleanupCellDetails == details' = "none" /\ SlideUp

SwitchCategory ==
  /\ Gesture
  /\ category' \in Categories \ {category}
  /\ scheme' = saved
  /\ saved' = scheme
  /\ CleanupCellDetails
  /\ changed' = TRUE
  /\ UNCHANGED <<mapVars, windowVars, sourceVars, filter, selectedSource, loop, requestVars, drag>>

MoveMap(v) ==
  /\ Gesture
  /\ v # view
  /\ view' = v
  /\ formFactor' = MultiplicationFactor(v.zoom)
  /\ DrawCoverage(v)
  /\ UNCHANGED <<windowVars, sourceVars, schemeVars, panelVars, changed, loop, drag>>

-----------------------------------------------------------------------------
(* Sliders: while the mouse moves the slide handlers run, when it lets go    *)
(* the change handler. *)

GrabSlider(slider) ==
  /\ Gesture
  /\ drag' = slider
  /\ UNCHANGED <<mapVars, windowVars, sourceVars, schemeVars, panelVars, changed, loop, requestVars>>

SlideThresholds(range) ==
  /\ drag = "thresholds"
  /\ scheme' = [scheme EXCEPT !.range = range]
  /\ UNCHANGED <<mapVars, windowVars, sourceVars, category, saved, filter, panelVars, changed, loop,
                 requestVars, userVars>>

SlideFilter(position) ==
  /\ drag = "filter"
  /\ filter' = position
  /\ UNCHANGED <<mapVars, windowVars, sourceVars, category, scheme, saved, panelVars, changed, loop,
                 requestVars, userVars>>

(* the slider of the export form sets minExpectedMessages, too *)
SlideExport(position) ==
  /\ drag = "export"
  /\ filter' = position
  /\ formFactor' = position
  /\ unannounced' = TRUE
  /\ UNCHANGED <<view, windowVars, sourceVars, category, scheme, saved, panelVars, changed, loop,
                 loading, inflight, sent, picture, userVars>>

SlideWindow(interval) ==
  /\ drag = "window"
  /\ selected # NoInterval
  /\ selected' = interval
  /\ canUpdate' = TRUE
  /\ UNCHANGED <<mapVars, sourceVars, schemeVars, panelVars, changed, loop, requestVars, userVars>>

MutantDropSlider ==
  /\ drag # "none"
  /\ drag' = "none"
  /\ changed' = (changed \/ drag = "filter" \/ (drag = "window" /\ canUpdate))
  /\ canUpdate' = IF drag = "window" THEN FALSE ELSE canUpdate
  /\ UNCHANGED <<mapVars, selected, sourceVars, schemeVars, panelVars, loop, requestVars, gestures>>

DropSlider ==
  /\ drag # "none"
  /\ drag' = "none"
  /\ changed' = (changed \/ drag \in {"thresholds", "filter"} \/ (drag = "window" /\ canUpdate))
  /\ canUpdate' = IF drag = "window" THEN FALSE ELSE canUpdate
  /\ UNCHANGED <<mapVars, selected, sourceVars, schemeVars, panelVars, loop, requestVars, gestures>>

-----------------------------------------------------------------------------

Answer == \E r \in inflight : CoverageAnswered(r) \/ CoverageFails(r)

Select == (\E s \in Sources : SelectSource(s)) \/ SelectCell \/ ClickHeader \/ SlidUp

Choose ==
  \/ \E s \in Sources : ToggleSource(s)
  \/ ToggleSelectAll
  \/ SwitchCategory
  \/ \E v \in Views : MoveMap(v)

Slide ==
  \/ \E slider \in {"thresholds", "filter", "export"} : GrabSlider(slider)
  \/ \E range \in RangesOf[category] : SlideThresholds(range)
  \/ \E position \in FilterPositions : SlideFilter(position)
  \/ \E position \in ExportPositions : SlideExport(position)

(* the sliding window's slider exists once the status is known *)
MoveWindow ==
  \/ selected # NoInterval /\ GrabSlider("window")
  \/ \E interval \in Intervals : SlideWindow(interval)

Next ==
  Poll \/ Answer \/ SourcesAnswered \/ StatusAnswered \/ Select \/ Choose \/ Slide \/ MoveWindow
    \/ DropSlider

(* The timer comes and a request ends, with an answer or without; the user   *)
(* need not do anything.                                                     *)
Fairness == WF_vars(Poll) /\ WF_vars(Answer)

Spec == Init /\ [][Next]_vars /\ Fairness

-----------------------------------------------------------------------------

Request ==
  [id : Nat \ {0}, sources : SUBSET Sources, view : Views, interval : Intervals]
Schemes == {[r EXCEPT !.range = range] : r \in {VdmScheme, VsiScheme}, range \in Ranges}
Pictures == [request : Request, category : Categories, scheme : Schemes, filter : Filters]

TypeOK ==
  /\ view \in Views /\ formFactor \in Nat
  /\ selected \in Intervals \cup {NoInterval} /\ canUpdate \in BOOLEAN
  /\ known \in BOOLEAN /\ enabled \subseteq Sources /\ selectAll \in BOOLEAN
  /\ markers \in [enabled : SUBSET Sources, selected : SUBSET Sources]
  /\ category \in Categories /\ scheme \in Schemes /\ saved \in Schemes /\ filter \in Filters
  /\ details \in {"none", "source"} \cup Categories /\ selectedSource \subseteq Sources
  /\ panel \in {"closed", "open", "closing"}
  /\ changed \in BOOLEAN /\ loop \in {"waiting", "dead"}
  /\ loading \in BOOLEAN /\ inflight \subseteq Request /\ sent \in Nat
  /\ picture \subseteq Pictures /\ unannounced \in BOOLEAN
  /\ drag \in {"none", "thresholds", "filter", "export", "window"}
  /\ gestures \in 0 .. MaxGestures

(* What is drawn answers the newest question: a question that the page has   *)
(* given up is never drawn, in whatever order the answers come               *)
(* (AisJsonClient.getCoverage aborts the request it replaces).               *)
Question(r) == [sources |-> r.sources, view |-> r.view, interval |-> r.interval]

Latest == INSTANCE LatestWins WITH
            Questions <- [sources : SUBSET Sources, view : Views, interval : Intervals],
            pending <- {Question(r) : r \in {q \in inflight : q.id = sent}},
            shown <- {Question(p.request) : p \in picture}

ShowsLatest == Latest!Spec

(* The page is at rest: the flag is clear, no answer is awaited, and every   *)
(* setting that was set has been announced by the flag or by a request.      *)
Quiet == loop = "waiting" /\ drag = "none" /\ ~changed /\ ~loading /\ ~unannounced

(* At rest the picture is that of the settings: asked for with the enabled   *)
(* sources, the view and the interval, and coloured with the thresholds and  *)
(* the filter in use.                                                        *)
PictureAgrees ==
  Quiet => picture = {[request |-> [id |-> sent, sources |-> enabled, view |-> view,
                                    interval |-> selected],
                       category |-> category, scheme |-> scheme, filter |-> filter]}

(* Thresholds, unit and export data type are those of the coverage type, the *)
(* saved ones those of the other type, and a cell's details are never in the *)
(* terms of the other type; an open details panel holds something, a         *)
(* source's details only of one that is selected; and the list and the       *)
(* markers of the sources show which are enabled and which is selected.      *)
SchemeOf(c) == IF c = "VDM" THEN VdmScheme ELSE VsiScheme
SchemesAgree ==
  /\ \E range \in RangesOf[category] : scheme = [SchemeOf(category) EXCEPT !.range = range]
  /\ \A other \in Categories \ {category} :
       \E range \in RangesOf[other] : saved = [SchemeOf(other) EXCEPT !.range = range]
PanelAgrees ==
  /\ details \in Categories => details = category
  /\ details = "source" => selectedSource # {}
  /\ panel = "open" => details # "none"
MarkersAgree == markers = [enabled |-> enabled, selected |-> selectedSource]
DisplayAgrees == SchemesAgree /\ PanelAgrees /\ MarkersAgree

(* A change of the settings is drawn in the end, or the newest request has   *)
(* failed, if the timer is alive and the dates are known.                    *)
NewestFailed ==
  ~changed /\ inflight = {} /\ sent > 0 /\ sent \notin {p.request.id : p \in picture}
ChangesAreDrawn ==
  (changed /\ loop = "waiting" /\ selected # NoInterval)
    ~> (~changed /\ ~loading) \/ NewestFailed
=============================================================================
