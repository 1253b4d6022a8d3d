----------------------------- MODULE MCWebClient -----------------------------
(* A small instance of the web page: one source, two zoom levels, a sliding  *)
(* window of two hours with one selected at first, and two positions of the  *)
(* threshold slider for received messages.                                   *)
EXTENDS SlidingWindow

MCRangesOf == [c \in Categories |->
                 IF c = "VDM" THEN {<<20, 50>>, <<30, 50>>} ELSE {<<-107, -101>>}]
=============================================================================
