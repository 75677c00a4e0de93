------------------------- MODULE MCInteractionLineage -------------------------
(* Two services that share a secret; "a" is a version that gives an        *)
(* interaction type "b" does not know.                                     *)
EXTENDS InteractionLineage

MCSecret == [s \in Services |-> "shared"]
MCKnownTypes == [s \in Services |-> IF s = "b" THEN {"request"} ELSE {"request", "new"}]
MCDefaultType == [s \in Services |-> IF s = "a" THEN "new" ELSE "request"]
MCIds == <<"i1", "i2", "i3">>
=============================================================================
