---------------------------- MODULE ImagePreload ----------------------------
(***************************************************************************)
(* How html2canvas, which the page loads to take pictures of itself, gets   *)
(* the images of the page before it draws: _html2canvas.Preload.  Images    *)
(* are loaded directly, with CORS, or through a proxy that answers by a     *)
(* script; counters of those settled tell when all are, and then the        *)
(* picture is drawn.                                                        *)
(***************************************************************************)
EXTENDS Integers, FiniteSets, Functions

CONSTANTS
  Images,     \* the images of the page, by src
  Kind,       \* of each: "same" origin (data URLs as well), "foreign", or a "gradient"
  Drawings,   \* how often Generate.Gradient draws a gradient: for every element it is a
              \* background of, but for those without an area
  Options     \* the options of the calls: allowTaint, useCORS, proxy, timeout, taintTest

ASSUME PreloadAssumption ==
  /\ IsFiniteSet(Images)
  /\ Kind \in [Images -> {"same", "foreign", "gradient"}]
  /\ Drawings \in [Images -> Nat]
  /\ Options \subseteq [allowTaint : BOOLEAN, useCORS : BOOLEAN, proxy : BOOLEAN,
                        timeout : BOOLEAN, taintTest : BOOLEAN]

VARIABLES
  options,
  phase,        \* "called", then "loading"
  status,       \* what each image waits for, or how that ended
  succeeded,    \* the field of that name: "undefined", "yes" or "no"
  stale,        \* images whose first Image still has its handlers, and its event to come,
                \* after the fall back to the proxy
  numLoaded, numFailed, numTotal,
  cleanupDone,
  completed,    \* calls of options.complete
  early         \* history: customComplete was ahead of an event, and the proxy was asked

counters == <<numLoaded, numFailed, numTotal>>
preloadVars == <<options, phase, status, succeeded, stale, counters, cleanupDone, completed, early>>

Loading == {"direct", "cors", "proxied"}

(* How an image is loaded; an image is "absent" if no way is open to it.     *)
Route(i) ==
  CASE Kind[i] = "gradient" -> IF Drawings[i] > 0 THEN "loaded" ELSE "absent"
    [] Kind[i] = "same" \/ (Kind[i] = "foreign" /\ options.allowTaint) -> "direct"
    [] Kind[i] = "foreign" /\ ~options.allowTaint /\ options.useCORS -> "cors"
    [] Kind[i] = "foreign" /\ ~options.allowTaint /\ ~options.useCORS ->
         IF options.proxy THEN "script" ELSE "absent"

Found == {i \in Images : status[i] # "absent"}

PreloadInit ==
  /\ options \in Options
  /\ phase = "called"
  /\ status = [i \in Images |-> "absent"]
  /\ succeeded = [i \in Images |-> "undefined"]
  /\ stale = {}
  /\ numLoaded = 0 /\ numFailed = 0 /\ numTotal = 0
  /\ cleanupDone = FALSE /\ completed = 0 /\ early = FALSE

-----------------------------------------------------------------------------

(* start, after the counters were set                                        *)
Start == completed' = IF numLoaded' >= numTotal' THEN completed + 1 ELSE completed

Count(n, failures) ==
  /\ numLoaded' = numLoaded + n
  /\ numFailed' = numFailed + failures
  /\ UNCHANGED numTotal
  /\ Start

Settle(i, ok) ==
  /\ succeeded' = [succeeded EXCEPT ![i] = IF ok THEN "yes" ELSE "no"]
  /\ Count(1, IF ok THEN 0 ELSE 1)

Finish(i, ok) ==
  /\ status' = [status EXCEPT ![i] = IF ok THEN "loaded" ELSE "failed"]
  /\ Settle(i, ok)

(* All images are found in one go; start does nothing before its end.  An    *)
(* image that is met again is known by its src; a gradient is drawn again,   *)
(* and counted again.                                                       *)
Requested == {i \in Images : Route(i) \notin {"absent", "loaded"}}
Drawn == SumFunctionOnSet(Drawings, {i \in Images : Kind[i] = "gradient"})

Scan ==
  /\ phase = "called"
  /\ phase' = "loading"
  /\ status' = [i \in Images |-> Route(i)]
  /\ succeeded' = [i \in Images |-> IF Route(i) = "loaded" THEN "yes" ELSE "undefined"]
  /\ numTotal' = Cardinality(Requested) + Drawn
  /\ numLoaded' = Drawn
  /\ Start
  /\ UNCHANGED <<options, stale, numFailed, cleanupDone, early>>

(* onload or onerror of an image that is not loaded with CORS, or onload of  *)
(* one that is                                                               *)
LoadEnds(i, ok) ==
  /\ status[i] \in {"direct", "proxied"} \/ (status[i] = "cors" /\ ok)
  /\ Finish(i, ok)
  /\ UNCHANGED <<options, phase, stale, cleanupDone, early>>

(* onerror of an image loaded with CORS: a new Image takes the place of the  *)
(* first in imageObj and in the handlers' closure, and the proxy is asked.   *)
MutantFallBack(i) ==
  IF options.proxy
  THEN status' = [status EXCEPT ![i] = "script"] /\ Settle(i, FALSE)
  ELSE Finish(i, FALSE)

FallBack(i) ==
  IF options.proxy
  THEN status' = [status EXCEPT ![i] = "script"] /\ UNCHANGED <<succeeded, counters, completed>>
  ELSE Finish(i, FALSE)

CorsFails(i) ==
  /\ status[i] = "cors"
  /\ FallBack(i)
  /\ UNCHANGED <<options, phase, stale, cleanupDone, early>>

(* customComplete sees that the image is complete before its event is        *)
(* handled, and calls onerror; with a proxy the handlers are left in place.  *)
CustomComplete(i) ==
  /\ status[i] = "cors"
  /\ FallBack(i)
  /\ IF options.proxy THEN stale' = stale \cup {i} /\ early' = TRUE ELSE UNCHANGED <<stale, early>>
  /\ UNCHANGED <<options, phase, cleanupDone>>

(* The handlers of the first Image clear those of the one that replaced it.  *)
StaleEvent(i, ok) ==
  /\ i \in stale
  /\ stale' = stale \ {i}
  /\ IF status[i] = "proxied" THEN Finish(i, ok) ELSE Settle(i, ok) /\ UNCHANGED status
  /\ UNCHANGED <<options, phase, cleanupDone, early>>

(* The callback of the proxy's script: an image's data, or "error:".         *)
ScriptAnswers(i, ok) ==
  /\ status[i] = "script"
  /\ IF ok
     THEN status' = [status EXCEPT ![i] = "proxied"] /\ UNCHANGED <<succeeded, counters, completed>>
     ELSE Finish(i, FALSE)
  /\ UNCHANGED <<options, phase, stale, cleanupDone, early>>

(* cleanupDOM after the timeout, which nobody clears: scripts that wait are  *)
(* given up, and window.stop makes the browser give up loads, too, whose     *)
(* events then never come.                                                   *)
Cancelled == {i \in Images : status[i] = "script" /\ succeeded[i] = "undefined"}

MutantCountCancelled == UNCHANGED <<counters, completed>>
CountCancelled == Count(Cardinality(Cancelled), Cardinality(Cancelled))

CleanupDOM(given) ==
  /\ options.timeout /\ phase = "loading" /\ ~cleanupDone
  /\ cleanupDone' = TRUE
  /\ status' = [i \in Images |-> CASE i \in Cancelled -> "cancelled"
                                   [] i \in given /\ status[i] \in Loading -> "lost"
                                   [] OTHER -> status[i]]
  /\ stale' = stale \ given
  /\ CountCancelled
  /\ UNCHANGED <<options, phase, succeeded, early>>

-----------------------------------------------------------------------------

(* what the browser brings to an end whatever others do                      *)
BrowserEvent ==
  \/ Scan
  \/ \E i \in Images, ok \in BOOLEAN : LoadEnds(i, ok) \/ StaleEvent(i, ok)
  \/ \E i \in Images : CorsFails(i) \/ CustomComplete(i)

Timeout ==
  \E given \in SUBSET ({i \in Images : status[i] \in Loading} \cup stale) :
    CleanupDOM(given)

PreloadNext ==
  BrowserEvent \/ Timeout \/ (\E i \in Images, ok \in BOOLEAN : ScriptAnswers(i, ok))

PreloadSpec == PreloadInit /\ [][PreloadNext]_preloadVars

-----------------------------------------------------------------------------

PreloadTypeOK ==
  /\ options \in Options
  /\ phase \in {"called", "loading"}
  /\ status \in [Images -> Loading \cup {"script", "absent", "loaded", "failed", "cancelled", "lost"}]
  /\ succeeded \in [Images -> {"undefined", "yes", "no"}]
  /\ stale \subseteq Images
  /\ numLoaded \in Nat /\ numFailed \in Nat /\ numTotal \in Nat
  /\ cleanupDone \in BOOLEAN /\ completed \in Nat /\ early \in BOOLEAN

(* What numLoaded lacks of numTotal is the number of images that are not     *)
(* settled, by whatever way each came, and however often a gradient was      *)
(* counted; so complete is called when all are settled.  (Not so once        *)
(* customComplete was ahead of an event and the proxy was asked: see README.) *)
Failed == {i \in Images : succeeded[i] = "no" \/ status[i] = "cancelled"}
Settled == {i \in Images : succeeded[i] = "yes"} \cup Failed
CountsAreExact ==
  ~early =>
    /\ numTotal - numLoaded = Cardinality(Found \ Settled) /\ numFailed = Cardinality(Failed)
    /\ completed > 0 => Settled = Found

(* The picture is drawn in the end, unless for ever an image is one whose    *)
(* load the browser gave up, or that waits for the proxy with no timeout to  *)
(* come.                                                                    *)
Completes ==
  \/ <>(completed > 0)
  \/ <>[](\E i \in Images :
            status[i] = "lost" \/ (status[i] = "script" /\ (options.timeout => cleanupDone)))
=============================================================================
