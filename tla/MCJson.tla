------------------------------- MODULE MCJson -------------------------------
(* Two keys, one the beginning of the other; an empty and a short string,  *)
(* a number of one digit and a negative one of two; three levels, as the   *)
(* documents of the shadow have.                                           *)
EXTENDS Json

MCKeyOrder == <<<<"a">>, <<"a", "b">>>>
MCLeaves   == {Str(<<>>), Str(<<"b", ":">>), Num(<<"7">>), Num(<<"-", "7", "0">>)}
MCGaps     == {<<>>, <<SPC>>}
MCPlain    == {"a", "b", COL, SPC}

Maps(values) == UNION {[K -> values] : K \in SUBSET ToSet(KeyOrder) \ {{}}}

Flat   == Maps(Leaves)
Nested == Maps(Leaves \cup {Child(m) : m \in Flat})
MCDocuments ==
    Nested \cup {k :> Child(m) : k \in ToSet(KeyOrder), m \in {n \in Nested : Cardinality(DOMAIN n) = 1}}
=============================================================================
