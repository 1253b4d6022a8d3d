---------------------------- MODULE SlidingWindow ----------------------------
(***************************************************************************)
(* The sliding window of the web page and what follows it: its slider (a    *)
(* dragslider, whose range can be dragged as a whole), the export form, the *)
(* satellite and ship charts with the box that is drawn for the former, and *)
(* the ship track.  Every step is one of CoverageClient or leaves its       *)
(* variables alone.                                                         *)
(***************************************************************************)
EXTENDS CoverageClient, FiniteSetsExt

VARIABLES
  values,         \* the slider's values
  capture,        \* what the mouse holds of the slider: a handle, the range, or "none"
  rangeStart,     \* where a drag of the range started; {} before its first slide
  exportForm,     \* the interval in the export form
  chart,          \* the chart window that is visible: "none", "sat" or "ship"
  chartOf,        \* the interval whose chart is in it
  box,            \* a box is drawn on the map
  trackActive,    \* shiptrackactive
  trackRequests,  \* requests of ship tracks that are not answered
  trackSent,      \* how many were made
  lines           \* the request whose track is drawn; {} if none is

sliderVars == <<values, capture, rangeStart>>
formVars == <<exportForm, chart, chartOf, box>>
trackVars == <<trackActive, trackRequests, trackSent, lines>>
pageVars == <<sliderVars, formVars, trackVars>>
allVars == <<vars, pageVars>>

Handles == {"left", "right"}
Hours == 0 .. LastHour
Width(interval) == interval[2] - interval[1]

PageInit ==
  /\ Init
  /\ values = NoInterval /\ capture = "none" /\ rangeStart = {}
  /\ exportForm = NoInterval /\ chart = "none" /\ chartOf = NoInterval /\ box = FALSE
  /\ trackActive = FALSE /\ trackRequests = {} /\ trackSent = 0 /\ lines = {}

(* The export form starts with the whole window, the slider with the last    *)
(* hours of it.                                                              *)
SetupSlidingWindow ==
  /\ StatusAnswered
  /\ values' = DefaultInterval
  /\ exportForm' = <<0, LastHour>>
  /\ UNCHANGED <<capture, rangeStart, chart, chartOf, box, trackVars>>

-----------------------------------------------------------------------------
(* The slider *)

(* The slide handler of the page refuses an interval of less than an hour.   *)
Accept(interval) ==
  IF interval # values /\ Width(interval) >= 1
  THEN values' = interval /\ SlideWindow(interval)
  ELSE UNCHANGED <<values, vars>>

MouseCapture(part) ==
  /\ selected # NoInterval
  /\ GrabSlider("window")
  /\ capture' = part
  /\ UNCHANGED <<values, rangeStart, formVars, trackVars>>

(* A handle does not pass the other one.                                     *)
SlideHandle(newVal) ==
  /\ capture \in Handles
  /\ Accept(IF capture = "left" THEN <<Min({newVal, values[2]}), values[2]>>
                                ELSE <<values[1], Max({newVal, values[1]})>>)
  /\ UNCHANGED <<capture, rangeStart, formVars, trackVars>>

(* How far the range may go when the mouse went dist hours from the start.   *)
MutantAllowed(dist) == Min({dist, LastHour - values[2]})
Allowed(dist) ==
  LET right == IF dist > 0 THEN Min({dist, LastHour - values[2]}) ELSE dist
  IN  Max({right, 0 - values[1]})

(* The range follows the mouse from where it was at the last slide that      *)
(* moved it.                                                                 *)
SlideRange(newVal) ==
  LET start == IF rangeStart = {} THEN newVal ELSE CHOOSE v \in rangeStart : TRUE
      dist == Allowed(newVal - start)
  IN  /\ capture = "range"
      /\ Accept(<<values[1] + dist, values[2] + dist>>)
      /\ rangeStart' = {IF dist # 0 THEN newVal ELSE start}
      /\ UNCHANGED <<capture, formVars, trackVars>>

-----------------------------------------------------------------------------
(* Charts.  Reading the dates before they are known throws, and no chart is  *)
(* shown. *)

DatesKnown == selected # NoInterval

ShowChart(window) ==
  IF DatesKnown THEN chart' = window /\ chartOf' = selected ELSE UNCHANGED <<chart, chartOf>>

(* A box drawn on the map, the newest replacing the one before, opens the    *)
(* satellite chart.                                                          *)
DrawBox ==
  /\ Gesture
  /\ box' = TRUE
  /\ ShowChart("sat")
  /\ UNCHANGED <<sliderVars, exportForm, trackVars>>

ChartMethod ==
  /\ Gesture
  /\ chart = "sat"
  /\ ShowChart("sat")
  /\ UNCHANGED <<sliderVars, exportForm, box, trackVars>>

OpenShipChart ==
  /\ Gesture
  /\ ShowChart("ship")
  /\ UNCHANGED <<sliderVars, exportForm, box, trackVars>>

(* Closing either chart removes the box.                                     *)
CloseChart ==
  /\ Gesture
  /\ chart # "none"
  /\ chart' = "none"
  /\ box' = FALSE
  /\ UNCHANGED <<sliderVars, exportForm, chartOf, trackVars>>

-----------------------------------------------------------------------------
(* The ship track.  Its requests are not aborted. *)

(* updateShipTrack, once the dates are known                                 *)
RequestTrack ==
  /\ trackRequests' = trackRequests \cup
       {[id |-> trackSent + 1, interval |-> selected, again |-> trackActive]}
  /\ trackSent' = trackSent + 1
  /\ UNCHANGED <<trackActive, lines>>

DrawTrack ==
  /\ Gesture
  /\ IF DatesKnown THEN RequestTrack ELSE UNCHANGED trackVars
  /\ UNCHANGED <<sliderVars, formVars>>

TrackAnswered(r) ==
  /\ r \in trackRequests
  /\ trackRequests' = trackRequests \ {r}
  /\ trackActive' = TRUE
  /\ lines' = {r}
  /\ UNCHANGED <<sliderVars, formVars, trackSent>>

TrackFails(r) ==
  /\ r \in trackRequests
  /\ trackRequests' = trackRequests \ {r}
  /\ UNCHANGED <<sliderVars, formVars, trackActive, trackSent, lines>>

-----------------------------------------------------------------------------

(* When the mouse lets go of the sliding window the form, the visible chart  *)
(* and the track follow the selected interval.                               *)
MutantDropWindow ==
  /\ drag = "window"
  /\ DropSlider
  /\ capture' = "none" /\ rangeStart' = {}
  /\ exportForm' = selected
  /\ chartOf' = IF chart # "none" THEN selected ELSE chartOf
  /\ UNCHANGED <<values, chart, box, trackVars>>

DropWindow ==
  /\ drag = "window"
  /\ DropSlider
  /\ capture' = "none" /\ rangeStart' = {}
  /\ exportForm' = selected
  /\ chartOf' = IF chart # "none" THEN selected ELSE chartOf
  /\ IF trackActive THEN RequestTrack ELSE UNCHANGED trackVars
  /\ UNCHANGED <<values, chart, box>>

Others ==
  \/ Poll \/ Answer \/ SourcesAnswered \/ Select \/ Choose \/ Slide
  \/ drag # "window" /\ DropSlider

MoveSlider ==
  \/ \E part \in Handles \cup {"range"} : MouseCapture(part)
  \/ \E newVal \in Hours : SlideHandle(newVal) \/ SlideRange(newVal)
  \/ DropWindow

UserOfChart == DrawBox \/ ChartMethod \/ OpenShipChart \/ CloseChart \/ DrawTrack
TrackAnswer == \E r \in trackRequests : TrackAnswered(r) \/ TrackFails(r)

(* A gesture is counted here as there; nothing else of the coverage display  *)
(* changes with charts and tracks.                                           *)
displayVars == <<mapVars, windowVars, sourceVars, schemeVars, panelVars, changed, loop,
                 requestVars, drag>>
PageNext ==
  \/ Others /\ UNCHANGED pageVars
  \/ SetupSlidingWindow
  \/ MoveSlider
  \/ UserOfChart /\ UNCHANGED displayVars
  \/ TrackAnswer /\ UNCHANGED vars

PageSpec == PageInit /\ [][PageNext]_allVars /\ Fairness

-----------------------------------------------------------------------------

TrackRequest == [id : Nat \ {0}, interval : Intervals, again : BOOLEAN]

PageTypeOK ==
  /\ TypeOK
  /\ values \in Intervals \cup {NoInterval}
  /\ capture \in Handles \cup {"range", "none"} /\ rangeStart \subseteq Hours
  /\ exportForm \in Intervals \cup {NoInterval}
  /\ chart \in {"none", "sat", "ship"} /\ chartOf \in Intervals \cup {NoInterval}
  /\ box \in BOOLEAN /\ trackActive \in BOOLEAN
  /\ trackRequests \subseteq TrackRequest /\ trackSent \in Nat /\ lines \subseteq TrackRequest

(* The dates in use are those of the slider, at least an hour apart and      *)
(* within the window, however handles and range are dragged and clamped.     *)
SliderAgrees ==
  /\ values = selected
  /\ values # NoInterval => values \in Intervals
  /\ (capture # "none") = (drag = "window")

(* Unless the mouse holds the slider, all that follows the window shows its  *)
(* interval: the export form (but for the first one, which holds the whole   *)
(* window), the visible chart, and the ship track if its newest answer came  *)
(* last and was not the answer to the first request; the box is there as     *)
(* long as its chart.                                                        *)
WindowIsFollowed ==
  drag # "window" =>
    /\ exportForm = selected
         \/ (selected = DefaultInterval /\ exportForm = <<0, LastHour>>)
    /\ chart # "none" => chartOf = selected
    /\ chart = "sat" => box
    /\ \A r \in lines \cup trackRequests :
         r.again /\ r.id = trackSent => r.interval = selected
=============================================================================
