----------------------------- MODULE MCListing -----------------------------
(***************************************************************************)
(* Instances of Listing for TLC.                                           *)
(***************************************************************************)
EXTENDS Listing

AllCharacters == {"A", "B", "*", "?", "/", ".", "E5"}
AllShort == UNION {[1..n -> {"A", "*", "?", "/"}] : n \in 0..2}
\* All strings of up to two characters, and longer ones: a wildcard in a
\* directory, more than one "*", a wildcard that is cut.
SomeStrings == AllShort \cup [1..3 -> {"A", "*"}] \cup
    {<<"A", "/", "*", "A">>, <<"*", "A", "*", "B">>, <<"/", "A", "/", "*">>,
     <<"*", "A", "B">>, <<"A", "/", "*", "A", "B">>, <<"?", "*", "?", "A">>}

File(name) == [name |-> name, dir |-> FALSE]
Dir(name) == [name |-> name, dir |-> TRUE]
TheSub == <<"A">>
TwoNames == {<<"A", "A", "B">>, <<"B">>}
InRoot == <<File(<<"A", "A", "B">>), Dir(TheSub), File(<<"A", "B", "A">>), Unused>>
InSub == <<Dir(<<".">>), Dir(<<".", ".">>), File(<<"B">>), File(<<"A", "B", "A", "B">>)>>

\* The pattern of a listing that is over is never read.
PatternInUse ==
    <<table, cdir, dj, IF dj.live THEN WildPattern ELSE <<>>, answer, asked, seen, steady>>
=============================================================================
