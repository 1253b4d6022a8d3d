---------------------------- MODULE MCScreenshot ----------------------------
(* Small pages of a root, a pseudo element of it and three elements below,   *)
(* in each way to nest them and to give them z-indexes: a list item with two *)
(* backgrounds, a foreign image and a gradient; an element with text, a      *)
(* background of the page's own server and the gradient once more; and the   *)
(* foreign image once more, or a form field, with a gradient but no area.    *)
(* And some combinations of the options.                                    *)
EXTENDS Screenshot

MCImages == {"own", "foreign", "gradient", "flat"}
MCKind == [i \in MCImages |->
             CASE i = "own" -> "same" [] i = "foreign" -> "foreign" [] OTHER -> "gradient"]
MCDrawings == [i \in MCImages |-> IF i = "gradient" THEN 2 ELSE 0]

Nestings == {<<1, 1, 1, 1, 1>>, <<1, 1, 1, 1, 4>>, <<1, 1, 1, 3, 1>>, <<1, 1, 1, 3, 3>>,
             <<1, 1, 1, 3, 4>>}
ZIndexes == {<<{}, {}, a, b, c>> : a \in {{}, {0}, {1}}, b \in {{}, {1}}, c \in {{}, {0}}}
Page(parent, z, hidden, ignored, img) ==
  [parent |-> parent, z |-> z, hidden |-> hidden, ignored |-> ignored, pseudo |-> {2},
   text |-> {1, 4}, fields |-> IF img = <<>> THEN {5} ELSE {}, items |-> {3},
   borders |-> << {}, {}, {"top", "left"}, {}, {} >>,
   backgrounds |-> << <<>>, <<>>, <<"foreign", "gradient">>, <<"own", "gradient">>, <<"flat">> >>,
   img |-> << <<>>, <<>>, <<>>, <<>>, img >>]
MCDocuments ==
  {Page(p, z, {}, {}, <<"foreign">>) : p \in Nestings, z \in ZIndexes}
    \cup {Page(p, <<{}, {}, {}, {}, {}>>, h, g, img) :
             p \in Nestings, h \in {{}, {3}}, g \in {{}, {4}}, img \in {<<>>, <<"foreign">>}}

Option(taint, cors, proxy, timeout, test) ==
  [allowTaint |-> taint, useCORS |-> cors, proxy |-> proxy, timeout |-> timeout,
   taintTest |-> test]
MCOptions ==
  {Option(FALSE, FALSE, FALSE, FALSE, TRUE), Option(FALSE, TRUE, FALSE, TRUE, TRUE),
   Option(FALSE, FALSE, TRUE, FALSE, TRUE), Option(FALSE, TRUE, TRUE, FALSE, TRUE),
   Option(FALSE, TRUE, TRUE, TRUE, TRUE), Option(TRUE, FALSE, FALSE, FALSE, TRUE),
   Option(TRUE, FALSE, FALSE, TRUE, FALSE)}
=============================================================================
