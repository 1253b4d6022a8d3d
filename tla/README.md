# AisCoverage: a verification project

AisCoverage listens to AIS messages that ships send and base stations and
satellites receive, and computes where the receivers have coverage; a web page
shows it.  This directory holds TLA+ modules of the server and of the page, the
configurations that model-check them with TLC, and theorems about them whose
proofs TLAPS checks.  `PROJECT.json` relates each definition to the lines of
source it models.

Paths of Java classes are relative to `src/src/main/java/dk/dma/ais/coverage/`,
those of scripts to `src/web/js/`.

## 1. The system

### Components, their state and their operations

| Component | State | Operations |
|---|---|---|
| Packet pipeline (`CoverageHandler`) | `unhandledPackets` (bounded queue), a pool of `processors / 2` workers, `doubletBuffer` (synchronized, insertion-ordered map) | `receiveUnfiltered`, `AisPacketHandler.call`, `removeEldestEntry` / `process`, `stop` |
| Message conversion (`OnlyMemoryData.packetToCustomMessage`) | ships, sources, `Helper.firstMessage` | packet to `CustomMessage`, or to nothing |
| Terrestrial calculator (`TerrestrialCalculator`, `AbstractCalculator`) | buffers of the ships, `Helper.latestMessage` | `calculate`, `processBuffer`, `calculateMissingPoints`, `getTerrestrialCoverage` |
| Satellite calculator (`SatCalculator`) | the cells' lists of dynamic time spans, `Helper.analysisStarted` | `calculate`, `mergeTimeSpans`, span queries, `getShipDynamicTimeSpans` |
| In-memory data (`OnlyMemoryData`, `Source`, `Cell`, `TimeSpan`, `Ship`) | sources > grid > cells > fixed-width (hourly) and dynamic spans > counters; ships > hours > minute flags and positions | `increment...Signals`, `updateCell`, `getCells`, `trimWindow`, `registerMessage` |
| Purger (`Purger`) | none of its own | polls the window's size, calls `trimWindow` |
| Persistence (`PersisterService`, `MongoDatabaseInstance`, `MongoCoverageDataMarshaller`) | a document per save in MongoDB | periodic save, load at start, stop |
| REST service (`CoverageRestService`) | none | coverage, satellite coverage, ship tracks, charts, export, status |
| Life cycle (`AisCoverage`, `AisCoverageDaemon`) | the singleton | construct and load, start, stop |
| Coverage display of the page (`CoverageUI.js`, `AisJsonClient.js`, `aiscoverage.js`, `expandable-jquery-plugin.js`) | the map's view, enabled and selected sources, coverage type with its thresholds and filter, selected dates, details panel, the flag `changed`, the request that waits | poll loop, answers, gestures, sliders |
| Sliding window of the page (`CoverageUI.js`, `dragslider.js`) | the slider's values and what the mouse holds, export form, charts and box, ship track | drag of a handle or of the range, open and close charts, request a track |
| Page pictures (`html2canvas.js`) | the images with their counters, stacking contexts, the canvas | preload (directly, with CORS, by a proxy, with a timeout), parse, render |

Left aside because nothing in them is hard in the way a model helps: the map
projection, chart drawing and text formats, the JAXB configuration beans, the
Jetty set-up, the Swing form, the unused event broadcaster, minified scripts, and
`aisviewUI.js`, the user interface of another server that no page loads.

### How the components interact

A thread of the AIS bus calls `receiveUnfiltered`.  It puts the packet into the
queue and submits a task to the pool.  A worker takes a packet, converts it and
looks its key (course, position, ship and speed: `CustomMessage.getKey`) up in the doublet buffer.  If the message is there the
worker adds its source to it; otherwise it puts the message, and when the buffer
overflows the eldest message goes, inside the map's mutex, to the two
calculators.  These update the data, which the Purger trims, the persister
marshals and the REST threads read at any moment.  Between these threads
there is no lock; the outer maps are `ConcurrentHashMap`s, a cell's spans are a
plain `HashMap` and `ArrayList`.  `Helper.firstMessage`, `latestMessage` and
`analysisStarted` are unsynchronized static fields that five components read
and four write.

The page asks the REST service for the sources and the status once, for coverage
whenever a timer finds `changed` set or the map has moved, and for tracks, charts and
exports on demand.  In the browser handlers run one at a time; what interleaves are
the answers, the timer, animations and the mouse.  A slider runs its slide handlers while
the mouse moves and its change handler when it lets go; only the latter sets `changed`.
`html2canvas.js` is loaded by `index.html` and starts with the images of a page, whose events come in any order.

### What is hard, and what makes each component correct

| Component | Hard behaviour | Correct when |
|---|---|---|
| Pipeline | check-then-act on queue and buffer by several threads; a stop at any moment; an exception inside `removeEldestEntry` | bounds hold; a task finds its packet; calculators run one at a time; each message is processed once; no source is lost; workers always return |
| Purger / window | two reads of a moving date; removal of a cell that is being filled; int arithmetic on milliseconds; late messages, and old ones that waited in a ship's buffer | what a trim comes upon holds nothing old afterwards, nothing recent is lost, the window gets trimmed |
| Terrestrial calculator | counters read between two increments; a buffer that keeps its last message, or all of them if `calculate` throws; dates of missing signals | each message counted once, and once more for each failure; no source ahead of the super source; missing signals no further past the feed than it is late |
| Coverage query | reads a grid in motion | misses never negative, no cell left out, ends |
| Dynamic spans | messages out of order; merges; concurrent removal | no signal lost, spans are well-formed |
| Ship tracks | bit and bucket arithmetic; a moving base date | history and answers tell when and where messages were sent |
| Persistence | a save that reads live data, which are purged meanwhile; failures, crashes, restarts; coordinates rounded twice | nothing counted twice; a cell's own counter exceeds its spans by what was purged at most; a save misses nothing older than itself; saving goes on; what was saved can be loaded |
| Coverage display | answers late, out of order or never; settings changed while a request waits; settings that belong to one coverage type | only the newest question is ever drawn; at rest the picture is that of the settings; lists, markers and details agree with them; a change is drawn in the end |
| Sliding window | a range dragged against both ends; what follows the window is brought up by other handlers at other times | dates are the slider's and in the window; form, chart, box and track show the window's interval |
| Page pictures | an image fails, falls back, is overtaken by a timer or given up by a timeout; a gradient is drawn more than once; nested stacking contexts | the counters tell how many images are not settled; the picture is drawn; painted in the order of the contexts; nothing taints it that must not |

All hazards, at their lines, are in `PROJECT.json`.

## 2. The modules

| Module | Models | Uses |
|---|---|---|
| `PacketPipeline` | the bus thread, the workers, the doublet buffer, the stop | |
| `WindowPurger` | one source's grid: a calculator counting in hourly spans, the Purger trimming them | |
| `SignalCounting` | the terrestrial calculator, increment by increment | |
| `CoverageQuery` | a coverage request composed with the calculator | extends `SignalCounting` |
| `SatTimeSpans` | the dynamic spans of a cell, and the Purger | |
| `ShipTrack` | a ship's location history, its queries, and the moving window | |
| `Persistence` | saving, loading, crashing, stopping, and the Purger meanwhile | |
| `LatestWins` | abstract: what a display promises that asks questions and draws answers | |
| `CoverageClient` | the page's coverage display | instantiates `LatestWins` |
| `SlidingWindow` | the page's sliding window, charts and ship track, composed with the display | extends `CoverageClient` |
| `ImagePreload` | html2canvas: the loading of images | |
| `Screenshot` | html2canvas: parsing, order and painting, composed with the loading | extends `ImagePreload` |
| `<Module>_proofs` | the theorems of `PacketPipeline`, `WindowPurger`, `SatTimeSpans`, `ShipTrack`, `Persistence`, and of `SignalCounting` with `CoverageQuery` (`SignalCounting_proofs`) | the module |
| `WebPage_proofs` | the theorems of what runs in the browser: `CoverageClient`, `SlidingWindow`, `ImagePreload`, `Screenshot` | `SlidingWindow`, `Screenshot`, `SumTheorems` |
| `SumTheorems` | sums over finite sets (`SumFunctionOnSet`) and choosing a smallest set or number, for four of the proof modules | |

`MC<Module>` is the module TLC runs; it gives constants that a configuration
file cannot express (`MCWebClient` for `SlidingWindow`).

Conventions: an action is named for the method or the step of a method it
models; a variable has the name of the field or local variable, with `Pc` for
the place of a thread in its method.  History variables, which no action reads,
are declared last or said to be so.  An operator `Mutant...` is the definition that follows it with
a plausible mistake, used to show that a property is able to fail.

### PacketPipeline

`busPc` places the bus thread between the size test, `add` and `submit` of
`receiveUnfiltered`; `pc[w]` places a worker between its calls of `poll`, `get`,
`addSourceMMSI` and `put`.  A message object is named by its packet, so a put over an
existing key (`PutOver`) is a replacement of one object by another at the same
place.  `mutex` is the monitor of the synchronized map, held while
`removeEldestEntry` runs `process`; `ProcessThrows` is the exception a worker
causes by adding a source to the set that a calculator is iterating (`raced`):
it leaves the map before the eldest entry is removed.  `tasks` counts submitted
tasks; a rejected submit, or a task cancelled by `shutdownNow`, leaves a packet
behind (`stranded`).

### WindowPurger

Hours are integers.  `Arrive` is a message that sets `latestMessage`; `Calculate` begins to count a signal, which
is not tied to the message that has arrived: it is that of a message that was buffered before, as long ago as its ship has been
silent, or one missing between the two (`calculateMissingPoints`), so its hour is any that the feed has had.  The
calculator's find-or-create of a cell and of a span and
its increment are three steps; the Purger's are the window test, the second read
of `latestMessage`, and per cell the removal of spans, the test for emptiness
and the removal of the cell.  `attached` says whether the calculator's local
references still point into the grid.  `missed` is a history variable: the hours whose span was put into a cell when no pass
of the Purger would come upon it any more (`BehindPurger`: before `firstMessage`, or before the trim point in a cell the pass under
way has left).  `ToInt` is the cast in `trimWindow`, with
`IntSpan` values of an int.

### SignalCounting and CoverageQuery

A message waits in `buffer`; `CalculatePosition` starts `processBuffer` when the
buffer is due, and `Locate` and `Count` count one `signal` for the super source and
then for each source; `NextPoint`, `NextPair` and `EmptyBuffer` are the loops.  No message is filtered: `filterMessage` is
overridden to answer false.  `CalculateFails` leaves `calculate` by the exception that `PacketPipeline` has as
`ProcessThrows`: another worker adds a source to the list that is iterated, and the buffer is not emptied.  `again` counts what
the failure had counted already; a source that is added without a failure is not in the model, where a message has its sources from the beginning.  In
`CoverageQuery` a request thread sums up the source's cells, then the super
source's, span by span, and compares them.

### SatTimeSpans

The list holds references to spans on a heap, so that the calculator and the
Purger can hold a span that is not in the list any more.  The four parts
of `calculate` (search, insertion, extension with merge, count) are four steps.  When the Purger shrinks the list under the search, an index
may be past its end: the calculation is left (`SearchThrows`, part of the step that removes a span).  That a cell without spans is removed
is in `WindowPurger`.

### ShipTrack

`registerMessage` reads `Helper.firstMessage` twice (`Calculate`, `Register`), and sets the
minute's flag before the position.  A request decodes the history relative to
`analysisStarted`: `ReadHour` fetches an hour, `ReadMinute` looks at one of its
minutes, and messages may be registered between any two of these steps.
`StorePosition` writes both coordinates in one step: a position torn between
its x and its y is not in the model.  An hour of 60 minutes with 30-bit halves and
10-minute buckets is scaled to 6 minutes, 3-bit halves and 2-minute buckets: the
same arithmetic with all its boundaries.

### Persistence

A save marshals cell by cell and span by span; `Insert` is the atomic insert of
its document.  `SaveFails` is a `ConcurrentModificationException` or a lost
connection.  `Crash` may happen at any moment; `Stop` waits for a running save.
A cell that is created or removed while an iterator is under way may or may not be returned by it (`WithOrWithout`).

`LoadCell` looks a saved cell up by coordinates that `marshallCell` has taken from a rounded cell, `unmarshallCell` rounds and `getCell` rounds again
(`LoadedAt`, `Twin`); `Rounded` is that rounding, any function on cells, as in floating point it need not leave a
rounded value alone.  If the cell it finds is there, the counts are added to it, otherwise the cell is put under the id it was saved with (`Target`).
`BeginPurge`, `PurgeCell` and `FinishPurge` are `trimWindow`, which leaves the cell's own counters as they are;
`purged` is the history of what it has removed.

### LatestWins and CoverageClient

Every event handler of the page is one action.  `DrawCoverage` is `drawCoverage` with
`AisJsonClient.getCoverage`: it shows the loading panel and replaces the request that
waits (`NotAborted`), and throws when the selected dates are not known.  It is called by `Poll`
(the loop function, whose timer is not set again after an exception: `loop` is
`"dead"`) and by `MoveMap`.  A picture remembers the request it answers and the settings it was coloured
with.  `Gesture` bounds what the user does and keeps the mouse
to one slider at a time (`drag`); `Slide...` are slide handlers, `DropSlider` is the change handler.
The details panel slides up in two steps, `SlideUp` and `SlidUp` (`expandable-jquery-plugin.js`).
`unannounced` is a history variable: the two handlers that set a setting without setting `changed`.

`LatestWins` has a question that waits and one that is shown.  The mapping takes the newest request
in flight for the one that waits; each step of the page is then `Ask`, `Show`, `Lose` or a stutter.

### SlidingWindow

`SlideHandle` and `SlideRange` are the two ways the mouse moves a dragslider, with its
clamping (`Allowed`) and the page's handler that refuses an interval of less than an
hour (`Accept`).  `DropWindow` is the change handler, a step of `CoverageClient` and the update of what follows the window.
`PageNext` gives each step of the page as one of the display's or as one that leaves its variables
(but the gestures) alone, which is what carries the display's theorems over.

### ImagePreload and Screenshot

`status` has for each image which event it waits for, or how its loading ended; `succeeded` is the field of that
name.  `Drawings` says how often a gradient is drawn: `loadGradientImage` counts it each time, and `Generate.Gradient` draws none
for an element without an area, which is never counted.  Each handler is an action, `Timeout` is `cleanupDOM` after the timeout.  `CustomComplete` is the timer that looks
at an image itself, before its event is handled; `stale` images have events to come for an
`Image` that was replaced.  `complete` parses and paints within the event that ends the preloading: `ScreenNext`
conjoins `Complete` to each step of `ImagePreload`.  A document is a record of a small page; `Storage` gives the drawing commands
recorded for an element and `RenderQueue` the order of the elements: `sortZ` sorts the z-indexes and takes for each value the
first context left that has it, so contexts come by z-index and then in document order (`Arranged`, a set in the order it is given).
Recursion is by recursive functions along the parents and into the contexts.  `PaintedInOrder` compares
neighbours on the canvas with a definition of the order by chains of stacking contexts (`MustPrecede`) that does not
build the order, and layers within an element with `MustUnderlie`.

## 3. The runs

| Run | Configuration | Bounds | Distinct states |
|---|---|---|---|
| `pipeline` | `MCPacketPipeline.cfg` | 2 workers, 6 packets of 3 keys, queue of 2, buffer of 1 | 27,694 |
| `window` | `MCWindowPurger.cfg` | 2 cells, 5 hours, window of 2, 3 messages, 2 signals, 1 hour late | 550,138 |
| `counting` | `MCSignalCounting.cfg` | 1 ship, 2 sources, 2 cells, 3 messages, up to 2 late | 1,431,312 |
| `query` | `MCCoverageQuery.cfg` | 1 source, 2 cells in 1 coarse cell, 2 messages, 1 request | 137,131 |
| `sat_spans` | `MCSatTimeSpans.cfg` | 4 messages in 8 units, margin of 2, up to 3 late, 1 trim | 519,460 |
| `ship_track` | `MCShipTrack.cfg` | 2 hours, 2 messages at 10 times and 3 positions, 1 trim, 1 request | 2,293,484 |
| `persistence` | `MCPersistence.cfg` | 2 cells, rounded to the same one, 2 hours, 2 signals, 2 saves, 2 starts | 881,920 |
| `web_client` | `MCWebClient.cfg` | 1 source, 2 zoom levels, window of 2 hours with 1 selected, 3 gestures | 910,315 |
| `screenshot` | `MCScreenshot.cfg` | 4 images (own, foreign, a gradient drawn twice, one without area), 7 sets of options, pages of 5 elements | 37,025 |

**pipeline.** Two workers are enough for every race on the buffer: each of its steps
is a race of two.  Six packets overflow the queue (`DropPacket`), fill the
buffer and evict from it, with a doublet, a filtered packet and a third copy of
the first message that comes after its eviction.  Shown: `QueueBounded`, although size test and add are
separate; `PollFindsPacket`; `ProcessIsExclusive`, on which the unsynchronized
state of the calculators relies; `BufferBounded` and `ProcessedOnce`, which allow
for failures of `process` and for nothing else; `CleanStopDrainsQueue`;
`LeavesProcessedOrReplaced`; and that every packet is polled while the pool runs
(`EveryPacketPolled`) and no worker waits for ever (`WorkersReturn`).

**window.** `NoStaleSpans`: when the Purger sleeps, a span from before the window is one that was put into its cell behind the Purger's back;
whatever was there before, or was put where the pass still came, is gone.  Signals of every age are counted before, within and after a
pass: with 5 hours and a window of 2, messages trim three hours away, and two signals put a span before, at and behind the pass.
`WindowIsKept`: what was counted within the window is still there, in cells the
Purger did not touch while a signal was being counted in them.
`FirstMessageAdvances`: the beginning of the window moves back by less than messages are late, so not at all with messages an hour late,
although `latestMessage` is read twice.  `WindowIsTrimmed`.

**counting.** `CountedAsOften`: a position message is counted once for the super source when it leaves its ship's buffer,
and once more for each calculation that failed after it had counted it; no message is lost.  `SourceWithinSuper` between any two increments.
`MissingWithinFeed`: no missing signal is in an hour later than the newest message, but by as much as messages are late.
With a `Lateness` of 2 two pairs of messages can be out of order.  Three messages make two pairs, one of them with missing
points, and the buffer is emptied and filled again.  Sources are symmetric.

**query.** `AnswerIsConsistent` (misses are never negative, and every cell summed up for a source has its cell of the super source, so none is left out)
and `QueryEnds`: the order "super source first" in the calculator and "super source last" in the query
together give at most full coverage.

**sat_spans.** `CountsAgree`: inserting and merging lose no signal; `HeadIsOldest`;
`SpansWellFormed`: spans run forward and none is without a message, against a Purger that removes spans between any
two steps.  Four messages are the fewest that build two spans, extend one and
merge it with the other.  `CountsAgree` is stated for lists
from which no span was removed during a calculation (`disturbed`): after such a
removal the calculator's position stands for another span and it merges the
wrong two.  `HeadIsOldest` and that spans run forward are stated for lists from
which no span was removed that a message was counted in (`dropped`): the next
section shows why.

**ship_track.** `HoursAreTrue`: flags and positions come from messages of those
minutes, whatever the window does, unless it moves between the two reads
(`torn`).  `TrackIsTrue` and `TrackIsComplete`: until the window is first trimmed an
answer has every message registered before it, at the right time, and close ones in one span,
while others are registered under the request's loop.

**persistence.** `NeverOvercounted`: the cells of a source never hold more signals of an hour than were counted for the source, also
when one is loaded into its neighbour; it is stated per source and hour, because which cell holds them is just what that changes.
`TotalWithinSpans` (the calculator writes the span
first, the marshaller reads the cell first): a cell's own counter exceeds its spans by no more than what was purged from them,
which is why an export, which reads the cell's own counters, goes on showing what was purged.  `SaveIsRecent`: an inserted document lacks nothing that was counted before its save and not purged since.
`SaverReturns`.  Both cells round to the first, so that a load finds a twin or none; two
signals are one in each, or two in one of which one is purged, and with two saves and two starts what was loaded is saved again.

**web_client.** `ShowsLatest`: the display implements `LatestWins`, in whatever order answers come and fail.
`PictureAgrees`: when nothing is announced, held or awaited, the picture was asked for and
coloured with the settings there are now.  `DisplayAgrees`: thresholds, unit, details and
markers belong to the coverage type and the sources chosen.  `SliderAgrees` and `WindowIsFollowed`: the slider's values
are the dates and form, chart, box and track follow them.  `ChangesAreDrawn`.  Three gestures are
enough to change a setting while a request waits, change it back or switch the coverage type, and look at what was opened
before; a window of two hours has a range to clamp at either end.

**screenshot.** `CountsAreExact`: `numTotal` exceeds `numLoaded` by the number of images that are not settled, by whatever way each came and
however often a gradient is counted, and `complete` is called only when all are settled.
`PaintedInOrder` and `CanvasIsClean` (nothing that taints is painted, unless the options allow it).
`Completes`: the picture is drawn in the end, unless some image waits for ever, for a proxy that does not answer when there is no timeout or when it has
passed, or for a load that the browser gave up (`"lost"`).  Each image route is taken (own server, CORS, CORS then proxy, proxy only, tainting, none), with and without a timeout; the
pages nest contexts two deep, with equal, auto and reversed z-indexes.

A bound is a constant, commented as such where it is declared.  The runs that check deadlock do so
with a `Quiescent` step, which states when the model has used up its inputs; the page waits for its user and a picture is taken once, so these
two runs do not check it.  The types that are proved (section 5) are not run again, but for `ShipTrack`'s and `Persistence`'s, whose `TypeOK` says more than types: which hours and cells there may be.

### Runs that find a disagreement

| Run | Property | What the run shows |
|---|---|---|
| `pipeline_doublet` | `AllSourcesListed` | two workers look up the same key, both put: one source is lost |
| `window_overflow` | `NoStaleSpans` | more than 2^31 ms (24.8 days) to trim overflow the cast in `trimWindow`; spans stay for ever |
| `persistence_restart` | `RestartSucceeds` | a cell saved before its first span was put into it makes every later start fail |

### Where properties stop holding

The following is what the code does outside the bounds of the runs.  TLC shows
each with other constants, with a condition of a property dropped, or with the
property that is named in words here; where the module leaves the behaviour out, this is said.

On the server:

- A cell that gains a span between the Purger's test for emptiness and the removal of the cell is
  deleted with that span (`WindowIsKept` without its condition).
- A message that has waited in its ship's buffer until the window has passed it makes a span before `firstMessage`, and no pass
  removes it: a pass begins at `firstMessage` (`NoStaleSpans` without `missed`).  The same holds of a message that is late by the window's size.
- With late messages missing signals can be dated past both messages, and past the newest one: the gap is an absolute value, and
  they are dated forward from the first of the two (`MissingWithinFeed` with `Lateness` left out).
- After a failed `calculate` the messages of the buffer are counted again, for the super source and for sources that had them (`again`).
- The default sizes of a cell, 0.0225225225 and 0.0386812541 degrees, in double precision: 670 of 7,994 rows and 599 of 9,308 columns
  of cells round to the row or column before when a rounded coordinate is rounded again, and 7 rows and 282 columns of these to the second before when that is rounded once more.  A restart can
  therefore add a cell's counts to its neighbour's.  (Computed outside the modules, where `Rounded` is any function.)
- The counters of a cell itself, which the exports read, are never lowered: they tell all that was ever counted
  in the cell, not what the window holds (`TotalWithinSpans` without `purged`; no module has the exports).
- The dynamic spans of a cell are not kept apart by `timeMargin`, even with messages in order:
  the backward search takes the oldest match and a message that belongs to a newer
  span is found outdated there.  As a consequence the list is not ordered, and the
  Purger, which removes a prefix, leaves expired spans behind.
- The search of `SatCalculator.calculate` does not stop at the first span that matches (the comment at
  `SatCalculator.java:313` says "until a time span is found where first message is older than the new one"), so behind the head the list has the newest
  span first.  Messages at 0, 3, 4, 5 with a margin of 2 leave the list 0, 4, 3; when the Purger has removed the
  span of 0, the message at 5 extends 4 and merges it with 3: the span begins at 4 and ends at 3
  (`SpansWellFormed` without its condition).
- Messages more than an hour late (`WindowPurger`, `Lateness = 2`, 4 signals): the beginning of the window moves
  back over hours that were trimmed before, whose counts are then missing in the window (`WindowIsKept`).
- A ship on the equator: `setPosition` takes the latitude 0 for "not set" (`Ship.java:157`), so every message sets the
  origin of its hour anew and the positions stored before move along (`HoursAreTrue` with the position
  `Nowhere` in `Positions`).
- Feeds of more than 24 days: the int that counts milliseconds in `getShipDynamicTimeSpans` (`SatCalculator.java:111`) overflows, and spans
  are dated wrongly.
- After the first trim, or when `firstMessage` comes from loaded data, hours of a
  ship's history are counted from one date and read from another: answers are dated wrongly
  and messages of different days share an hour.  The history is never trimmed.
- A trim between the two reads in `registerMessage` flags a wrong minute (Java takes the shift
  distance modulo 32).
- `setPosition` replaces the x distance where it means y, so a ship that
  moves along a parallel seems not to move (last disjunct of `ShownAs`).
- An answer of `getShipDynamicTimeSpans` whose first message is not in the first minutes
  begins with the same span twice.
- `VSI` messages do not set `latestMessage`: a feed of nothing else is never purged.
- With one processor the pool has no thread and `CoverageHandler` cannot be constructed.
- An exception in `trimWindow` ends the Purger thread (`ScanThrows`).

On the page:

- If the status has not been answered when the timer first comes, reading the selected dates throws
  and the poll loop is dead: from then on only moves of the map ask for coverage (`loop = "dead"`).
- A late answer of `getSources` enables all sources and the export slider sets `minExpectedMessages`,
  neither sets `changed`: the picture lags behind until something else does (`unannounced`).
- After a failed request the loading panel stays, and nobody asks again (`NewestFailed`).
- The export form starts with the whole window while the last six hours are selected.
- The first track request is sent before a track is active: if the window moves meanwhile, its answer
  draws the track of the old interval.  Track requests are not aborted, so answers that come out of order leave an older track.
- At zoom 0 no `case` gives a multiplication factor, and coverage is asked with an undefined one (`Zooms` leaves 0 out).
- A panel that is told to open while it slides up closes all the same.
- After a coverage type was switched, a cell's details (of a picture drawn before) use that picture's figures
  with the words of the type chosen now.

In html2canvas:

- When `customComplete` falls back to the proxy before the event of the first `Image` is handled, the handlers
  of that `Image` act on the one that replaced it: an image may be counted twice, `complete` be called before the
  others are settled, and a canvas be tainted (`early`).
- The timeout is never cleared, so a timeout after the loading may call `complete` once more; and
  `window.stop` in it may end loads without an event, so that `complete` is never called (`"lost"`).  Without a timeout,
  a proxy that never answers keeps the picture from being drawn.
- The taint test applies to images but not to patterns: a foreign background taints the canvas although
  the comment of the option (`html2canvas.js:2649`) speaks of all images.
- Pseudo elements `:after` are painted before the children of their element, and the text of the root is not painted.
- `ListAlpha` gives `@` for 26 (wording, not in the module).

## 4. Fairness

`PacketPipeline`: weak fairness of `AddPacket`, `SubmitTask` and of each worker's
steps, since the JVM schedules every runnable thread; a worker blocked on the
map's mutex gets it eventually, which weak fairness gives here because a holder releases it
and nothing but a finite number of packets contends.  Nothing makes packets arrive or the application stop.
`WindowPurger`: weak fairness of the calculator's and of the Purger's steps (its
poll loop never ends).  `CoverageQuery`: weak fairness of the request's steps;
iterators over a grid end because a cell is returned once.  `Persistence`: weak fairness of a save
that was begun; the next one, a crash and a stop need not come.
`CoverageClient` and `SlidingWindow`: weak fairness of the timer (`Poll`) and of `Answer`, since the browser runs its timers
and ends each request, with an answer or with an error; no gesture is fair, nor are the answers of sources and status.
`Screenshot`: weak fairness of what the browser brings to an end by itself (the scan, loads, its own timer) and of the timeout;
whether a proxy answers is up to the proxy.
`SignalCounting`, `SatTimeSpans` and `ShipTrack` check safety only.

## 5. The theorems

Each holds for every value of the constants that satisfies the module's named
assumption, and for those that say so under a further one.  Few of the invariants are inductive by themselves; what each is proved with is named here.

- `PacketPipeline_proofs`: `TypeCorrect`, `QueueNeverOverflows`,
  `PollAlwaysFindsPacket`, `CalculatorsRunAlone`, `BufferStaysBounded`, `StopDrainsQueue`,
  `MessagesProcessedOnce`, `NoMessageIsLost`.  The invariant
  counts: workers about to poll, plus tasks, plus stranded packets, plus the packet
  whose task is being submitted, equal the length of the queue (`PacketPerTask`); so a queue whose pool is drained
  holds the stranded packets alone.  The
  mutex is held exactly by the worker that is in `process`; the length of the buffer is at
  most its bound plus failures plus the entry being evicted.  That a message is processed once
  needs to know where it can be (`OnePlace`): the queue has fresh packets, no two workers have the same, the buffer
  has each once, and what is still in the buffer was processed by failing calls only, but for the eldest while it is being evicted.
- `WindowPurger_proofs`: `TypeCorrect`; `TrimLeavesNoStaleSpans`, from one assumption on
  the constants: no difference overflows (`NoOverflow`).  Messages may be as late, and signals as old, as they like.  The invariant says of each phase
  of a trim which cells are already free of hours before the trim point, but for those that were put there behind the Purger's back.  `WindowAdvances` needs to know that `latestMessage` is at most
  `Lateness` behind the newest message, and the trim point less than that behind `firstMessage` (`DatesAdvance`).  `CountsAreKept`, from messages late by an hour at most (`LateByAnHourAtMost`): a signal
  is where it was counted unless its hour is below the window or the cell was raced for.  The runs and section 3 show
  that neither of the two assumptions can be dropped.
- `SumTheorems`: what the others need of sums over finite sets: they are natural, monotone, change by what one
  element changes, and split (`SumType`, `SumMonotone`, `SumAdd`, `SumChange`, `SumWithin`...).  The library defines
  the sum by a fold, a recursive function on sets; each theorem takes a counterexample with the fewest elements
  (`FewestElements`) and removes one of them, which needs no induction rule.
- `SignalCounting_proofs`: `TypeCorrect`, which includes that interpolated points lie in cells
  between the messages; `SuperSourceCountsAll`, for feeds in any order, from an invariant that the
  super source is ahead by the one signal being counted for the sources that have yet to get it;
  `NothingMissingAhead`, for feeds in any order, from an invariant that bounds each message of a buffer by the newest one and each pair
  of it by the lateness; `MessagesAreCounted`, ship by ship: what was counted is what left the ship's
  buffer, what failures leave to be counted again, and what of the loop's messages had its turn.
- `SignalCounting_proofs` about `CoverageQuery`: `RequestTypeCorrect`, and `AnswersAreConsistent` by three invariants of the request:
  the iterator gives cells of the grid (`Iterators`), a cell summed up for the source is summed up or still to come for the super source
  (`CellsMade`), and the source's sum is at most what the super source's cells held when they were read plus
  what those still unread hold (`Summed`).  The last joins sums over two sets of counters that grow meanwhile.
- `SatTimeSpans_proofs`: `TypeCorrect`; `FreshAlways`; `HeadStaysOldest` and `SpansStayWellFormed`, from the shape that the
  search and the merge give to the list until a span is removed (`Sorted`: the head is the oldest, and so is the next one if
  the head was made by the message being calculated; the span that is extended is the head; spans run forward); `CountsStayEqual`, from the reference to each span being in the list once
  (`ListedOnce`) and the position of the calculator standing for its span (`AtPosition`), with `SumTheorems` for the merge.
- `ShipTrack_proofs`: `TypeCorrect`; `HoursStayTrue`, if no position is at latitude 0 (`PositionsAreSomewhere`): each flag and each stored
  position has its message (`Flagged`, `Stored`), from lemmas on hours, minutes and buckets as quotients and remainders, with
  the shift by half a bucket; `TrackStaysTrue` and `TrackStaysComplete`, if the feed is shorter than 24 days
  (`FeedIsShort`), from what the loop has done so far: its spans are true (`TrueSpans`), end at the minute read last (`LastSpan`), have every
  message before the minute to be read (`Covered`), and close ones together (`Together`).
- `Persistence_proofs`: `TypeCorrect`; `NothingCountedTwice`, whatever function `Rounded` is.  Purging lowers the counters, so the invariant speaks of what each cell has
  ever held since the application was started: there is such a bound (`held`) of the live counters and of the document being made, which with what is yet to be loaded
  sums up, per source and hour, to no more than was ever counted (`Holds`, `WithinEver`).  `SavesAreRecent`, from
  what a save has marshalled so far (`SaveCovers`); `TotalsAreWithinSpans`, for the live grid, the document being
  made and the saved one (`Totals`), where the spans of a cell that is being read count with what they hold now (`ToRead`), or with what
  has been purged from them (`ToNote`).
- `WebPage_proofs`, of the coverage display: `TypeCorrect`; `DisplayAlwaysAgrees`; `PictureAlwaysAgrees`, from `PictureInv`: at most one
  request is in flight and it is the newest (`RequestsInStep`), without the loading panel the picture is the newest
  (`PanelInStep`), and the newest request and its picture lag behind the settings only while a flag or a held slider tells so
  (`LastRequestAgrees`, `ColoursAgree`).  `PictureAgrees` speaks of the page at rest alone, so it says nothing
  about the steps between.  `ImplementsLatestWins`: the initial states map to the abstract one's, each step
  to a step or a stutter, with the uniqueness of the newest request from `PictureInv`.
- `WebPage_proofs`, of the sliding window: `SliderAlwaysAgrees`, for any way of dragging, from lemmas about `Min`, `Max` and the clamping;
  `PageKeepsPicture` and `PageImplementsLatestWins`, which carry the display's theorems to the page by showing that
  each step of the page is one of the display's or leaves its variables but `gestures` alone;
  `WindowAlwaysFollowed`, from `FollowInv`: what follows the window agrees with it while the mouse does not hold it, and the numbering of the tracks.
- `WebPage_proofs`, of the pictures: `CountsAlwaysExact`, for any images, options and numbers of drawings, and `ScreenCountsExact`, the same of the composition
  with the painting.  `CountInv` says that an image that waits has no verdict and one that ended has (`Outstanding`),
  so that each event adds exactly one to the images settled; gradients are counted as found and as loaded alike, however often.
- `WebPage_proofs`, of what is painted: `PicturePaintedInOrder`, for documents of any size, nesting and z-indexes, and `CanvasStaysClean`.
  The stacks, chains, queue and selections are recursive functions; `RecursionExists` shows that such a function exists if each
  value depends on elements of smaller rank (its fixed points up to a rank are built one rank at a time), and what it computes
  follows by complete induction on numbers (`LessInduction`).  About the tree: an element's contexts form a chain, each with its own chain inside
  (`ChainProperties`, `ChainLinear`), and what is in a context is its own elements and, each in one only, those of the contexts directly in it
  (`InParts`, `InOne`).  Two elements of one part, of the context and a part, or of two parts are then in the order of
  `MustPrecede` (`OwnThenOwn`, `OwnThenContext`, `ContextThenContext`), and so is all of the queue (`QueueFacts`).  Within an
  element the layers follow each other (`StorageFacts`).  An image that taints and is drawn has come after its proxy was asked
  and before it answered, which the counting invariant excludes unless `early` (`TaintIsEarly`).

With these, each safety property of a passing run has a theorem.  Only model-checked is what is out of the prover's reach: liveness
under fairness (`EveryPacketPolled`, `WorkersReturn`, `WindowIsTrimmed`, `QueryEnds`, `SaverReturns`, `ChangesAreDrawn`, `Completes`) and `ENABLED`.

## 6. What is not modelled

The components listed with status `not_modelled` in `PROJECT.json`.  Within modelled
parts: the running average of signal strengths, distinct ships, the class of a ship
(always unknown in this code), the Purger during a coverage request, the
chart and export operations, the satellite span queries, formatting and logging.  Of the page: the submission of the export form,
labels and layout, `saveViewCookie` (nothing calls it; cookies of an earlier visit are in `LoadView`).  Of html2canvas, which the page loads and no script of it calls:
bounds, clips, opacity, fonts, gradients, `CANVAS` elements, the SVG renderer (an option), and the parsing of CSS values.
`OpenLayers.js` and jQuery are external: what they do is what their callbacks' handlers are told.  `jqBarGraph` serves
`bargenerator.html` only, keeps no state and computes a layout.

## 7. Plan

1. Done: the server's core in the order pipeline, window, counting, query, dynamic spans, persistence, tracks; the page with its display,
   sliding window and refinement of `LatestWins`; pictures of pages; proofs of all of the components that are modelled.
2. Extend: a save as an atomic snapshot between two moments and the doublet buffer as a bounded FIFO, as abstract
   specifications of `Persistence` and `PacketPipeline`; `CoverageQuery` with a
   Purger; `SignalAverage` (the rounded running average of VSI strengths, `Cell`,
   `TimeSpan`), mostly for its theorems; the span queries of `SatCalculator` (overlap, merging after
   sorting) and the merging of cells for export, as pure operators against reference
   definitions.
3. Prove: the abstract specifications of 2 and the bounds of the running average, when they are modelled.
