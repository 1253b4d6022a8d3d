----------------------------- MODULE Screenshot -----------------------------
(***************************************************************************)
(* A picture of the page by html2canvas: when the images are settled, the   *)
(* page is parsed into one stack of drawing commands per element, the       *)
(* stacks are put in the order of their stacking contexts, and a canvas is  *)
(* painted with them.  All of this is one step of the event loop, after the *)
(* event that ends the preloading.                                          *)
(*                                                                          *)
(* A document is a record.  Its elements are numbered in the order in which *)
(* parseElement meets them, pseudo elements of an element before its        *)
(* children; element 1 is the root.  The record has each one's parent,      *)
(* z-index ({} for auto, or {n}), background images (the first is in        *)
(* front), sides with a border, and the image of an IMG element; and the    *)
(* sets of those that are hidden, ignored (IFRAME, OBJECT, PARAM), pseudo   *)
(* elements, form fields with a value or placeholder, list items with a     *)
(* number inside, or have text.  Bounds, clips, colours, fonts and CANVAS   *)
(* elements are left out.                                                   *)
(***************************************************************************)
EXTENDS ImagePreload, SequencesExt

CONSTANTS
  Documents   \* the documents that are drawn

VARIABLES
  document,
  queue,      \* the order in which complete paints the document: it does not depend on the images
  canvas      \* what is painted, in order, by the last call of complete

screenVars == <<preloadVars, document, queue, canvas>>

Root == 1
Sides == <<"top", "right", "bottom", "left">>
Elements(d) == DOMAIN d.parent

ASSUME DocumentAssumption ==
  \A d \in Documents :
    /\ d.parent \in Seq(Nat) /\ Root \in Elements(d)
    /\ \A e \in Elements(d) \ {Root} : d.parent[e] \in 1 .. e - 1
    /\ d.z \in [Elements(d) -> SUBSET Int]
    /\ d.backgrounds \in [Elements(d) -> Seq(Images)]
    /\ d.img \in [Elements(d) -> {<<>>} \cup {<<i>> : i \in Images}]
    /\ d.borders \in [Elements(d) -> SUBSET ToSet(Sides)]
    /\ d.hidden \cup d.ignored \cup d.pseudo \cup d.fields \cup d.items \cup d.text
         \subseteq Elements(d)
    /\ \A e \in Elements(d) :   \* an element has one node name
         Cardinality({k \in 1 .. 4 : <<d.img[e] # <<>>, e \in d.ignored, e \in d.fields,
                                       e \in d.items>>[k]}) <= 1

-----------------------------------------------------------------------------
(* Parsing *)

(* Pseudo elements are put into the document while their element is parsed,  *)
(* and have none of their own.                                               *)
Injected(d, e) == e \in d.pseudo /\ d.parent[e] \notin d.pseudo

(* Children of an ignored element are not parsed; its pseudo elements are.   *)
Visible(d) ==
  LET visible[e \in Elements(d)] ==
        \/ e = Root
        \/ /\ e \notin d.hidden
           /\ visible[d.parent[e]]
           /\ IF e \in d.pseudo THEN Injected(d, e) ELSE d.parent[e] \notin d.ignored
  IN  {e \in Elements(d) : visible[e]}

(* The stacking context of an element, named by the element that made it.    *)
StackOf(d) ==
  LET stack[e \in Elements(d)] ==
        IF e = Root \/ d.z[e] # {} THEN e ELSE stack[d.parent[e]]
  IN  [e \in Elements(d) |-> stack[e]]

(* loadImage: an image is drawn if its loading succeeded, and what is drawn  *)
(* is what its Image holds: after a fall back, and until the proxy's data is *)
(* there, the foreign image itself.                                          *)
Drawable == {i \in Images : succeeded[i] = "yes"}
Tainting ==
  {i \in Images :
     /\ Kind[i] = "foreign"
     /\ options.allowTaint \/ (Route(i) = "cors" /\ status[i] \in {"script", "failed", "cancelled"})}

(* The elements of a sequence that are in S                                  *)
Retain(seq, S) ==
  LET retained[n \in 0 .. Len(seq)] ==
        IF n = 0 THEN <<>>
        ELSE IF seq[n] \in S THEN Append(retained[n - 1], seq[n]) ELSE retained[n - 1]
  IN  retained[Len(seq)]

Command(e, name, what) == [element |-> e, name |-> name, what |-> what]
Commands(e, name, seq) == [k \in DOMAIN seq |-> Command(e, name, seq[k])]
CommandIf(test, e, name, what) == IF test THEN <<Command(e, name, what)>> ELSE <<>>

(* the background colour, then the images, the last one first                *)
Backgrounds(e, drawable) ==
  <<Command(e, "fillRect", "colour")>>
    \o Commands(e, "createPattern", Reverse(Retain(document.backgrounds[e], drawable)))

Borders(e) ==
  Commands(e, "fill", Retain(Sides, document.borders[e]))

RenderImage(e, drawable) == Commands(e, "drawImage", Retain(document.img[e], drawable))
RenderFormValue(e) == CommandIf(e \in document.fields, e, "fillText", "value")
RenderListItem(e) == CommandIf(e \in document.items, e, "fillText", "number")
Content(e, drawable) == RenderImage(e, drawable) \o RenderFormValue(e) \o RenderListItem(e)

(* Text of the root itself is not rendered.                                  *)
Text(e) == CommandIf(e \in document.text \ ({Root} \cup document.ignored), e, "fillText", "text")

(* The commands that are recorded for an element                             *)
Storage(e, drawable) == Backgrounds(e, drawable) \o Borders(e) \o Content(e, drawable) \o Text(e)

-----------------------------------------------------------------------------
(* The queue: elements of a context first, then the contexts in it by their  *)
(* z-index, those with the same in document order. *)

ZIndex(d, e) == CHOOSE n \in d.z[e] : TRUE
InZOrder(d, e, f) ==
  ZIndex(d, e) < ZIndex(d, f) \/ (ZIndex(d, e) = ZIndex(d, f) /\ e < f)

(* The elements of a set, each before those it comes before.                 *)
Arranged(S, Before(_, _)) ==
  CHOOSE seq \in [1 .. Cardinality(S) -> S] :
    \A i, j \in DOMAIN seq : i < j => Before(seq[i], seq[j])

InDocumentOrder(S) == Arranged(S, LAMBDA e, f : e < f)

MutantSortZ(d, contexts) == InDocumentOrder(contexts)
SortZ(d, contexts) == Arranged(contexts, LAMBDA e, f : InZOrder(d, e, f))

(* The elements that are shown in the context c itself, and the contexts     *)
(* directly in it                                                            *)
Own(d, c) == {e \in Visible(d) : StackOf(d)[e] = c}
ContextsIn(d, c) ==
  {e \in Visible(d) \ {Root} : StackOf(d)[e] = e /\ StackOf(d)[d.parent[e]] = c}

RenderQueue(d) ==
  LET sorted[c \in Elements(d)] ==
        LET contexts == SortZ(d, ContextsIn(d, c))
        IN  InDocumentOrder(Own(d, c))
              \o FlattenSeq([k \in DOMAIN contexts |-> sorted[contexts[k]]])
  IN  sorted[Root]

-----------------------------------------------------------------------------
(* The canvas: with the taint test an image that taints is not drawn, but a  *)
(* pattern is. *)

Taints(command, tainting) ==
  command.name \in {"createPattern", "drawImage"} /\ command.what \in tainting

MutantSafeImage(command, tainting) == TRUE
SafeImage(command, tainting) ==
  command.name = "drawImage" /\ options.taintTest => ~Taints(command, tainting)

Paint(e, drawable, tainting) ==
  LET storage == Storage(e, drawable)
      commands == Retain(storage, {command \in ToSet(storage) : SafeImage(command, tainting)})
  IN  [k \in DOMAIN commands |-> [command |-> commands[k], tainted |-> Taints(commands[k], tainting)]]

Render(drawable, tainting) ==
  FlattenSeq([k \in DOMAIN queue |-> Paint(queue[k], drawable, tainting)])

ScreenInit ==
  /\ PreloadInit
  /\ document \in Documents
  /\ queue = RenderQueue(document)
  /\ canvas = <<>>

(* options.complete parses and renders with what the images are now.         *)
Complete ==
  /\ UNCHANGED <<document, queue>>
  /\ IF completed' # completed THEN canvas' = Render(Drawable', Tainting') ELSE UNCHANGED canvas

ScreenNext == PreloadNext /\ Complete

(* Loads end and the timer comes; whether the proxy answers is up to it.     *)
ScreenSpec ==
  /\ ScreenInit /\ [][ScreenNext]_screenVars
  /\ WF_preloadVars(BrowserEvent) /\ WF_preloadVars(Timeout)

-----------------------------------------------------------------------------
(* What the order of painting has to be, by the elements' chains of contexts *)

Chain(d) ==
  LET chain[e \in Elements(d)] ==
        {StackOf(d)[e]} \cup (IF e = Root THEN {} ELSE chain[d.parent[e]])
  IN  chain

(* The deepest context that two elements share is the last in the document;  *)
(* an element is in it or in one of the contexts within.                     *)
MustPrecede(d, e, f) ==
  LET chain == Chain(d)
      c == Max(chain[e] \cap chain[f])
      within(x) == {b \in chain[x] \ {Root} : b # c /\ StackOf(d)[d.parent[b]] = c}
  IN  \/ within(e) = {} /\ (within(f) # {} \/ e < f)
      \/ \E k \in within(e), n \in within(f) : InZOrder(d, k, n)

(* What is painted of one element is layered from its background to its      *)
(* text, its first background image in front of the others.                  *)
Layer(command) ==
  CASE command.name = "fillRect" -> 1 [] command.name = "createPattern" -> 2
    [] command.name = "fill" -> 3 [] command.name = "drawImage" -> 4
    [] command.name = "fillText" -> 5
MustUnderlie(d, c1, c2) ==
  \/ Layer(c1) < Layer(c2)
  \/ /\ c1.name = "createPattern" /\ c2.name = "createPattern"
     /\ \E k, n \in DOMAIN d.backgrounds[c1.element] :
          k > n /\ d.backgrounds[c1.element][k] = c1.what /\ d.backgrounds[c1.element][n] = c2.what
  \/ c1.name \in {"fill", "fillText"} /\ c2.name = c1.name

(* Every visible element is painted, in the order of the stacking contexts,  *)
(* and each in its layers.                                                   *)
PaintedInOrder ==
  LET command(k) == canvas[k].command
      element(k) == canvas[k].command.element
  IN  completed > 0 =>
        /\ {element(k) : k \in DOMAIN canvas} = Visible(document)
        /\ \A k \in 1 .. Len(canvas) - 1 :
             IF element(k) = element(k + 1)
             THEN MustUnderlie(document, command(k), command(k + 1))
             ELSE MustPrecede(document, element(k), element(k + 1))

(* Nothing that taints the canvas is painted, unless the options allow it;   *)
(* with the taint test, then only a background.  (Not so once customComplete *)
(* was ahead of an event and the proxy was asked: see README.)               *)
CanvasIsClean ==
  \A k \in DOMAIN canvas : canvas[k].tainted =>
    /\ options.allowTaint \/ early
    /\ options.taintTest => canvas[k].command.name = "createPattern"
=============================================================================
