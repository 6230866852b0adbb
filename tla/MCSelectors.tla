----------------------------- MODULE MCSelectors -----------------------------
(***************************************************************************)
(* Small instances of SelectorSystem: numbers around zero and at the       *)
(* bound, in both tags; a literal of every kind, an array and objects      *)
(* around them, and arrays of arrays down to the bound and one further.    *)
(***************************************************************************)
EXTENDS SelectorSystem

Numbers ==
  {integer(n) : n \in {-1, 0, 1, MaxMagnitude, MaxMagnitude + 1}}
    \cup {float(h) : h \in {-1, 0, 1, 2}} \cup {minus_zero}

Leaves == Numbers \cup {null, boolean(FALSE), string("s")}

Wrapped == {array(<<v>>) : v \in {integer(0), float(0), minus_zero, float(1)}}

deep(n) == LET arrays[i \in 0 .. n] == IF i = 0 THEN null ELSE array(<<arrays[i - 1]>>)
           IN  arrays[n]

\* a path of one name or of two, members in either order, and a name twice
MCArgument ==
  {object(<<<<"a", v>>>>) : v \in Leaves \cup Wrapped}
    \cup {object(<<<<"a", object(<<<<"b", v>>>>)>>>>) : v \in {integer(1), float(0), minus_zero}}
    \cup {object(<<<<"a", u>>, <<"b", v>>>>) : u, v \in {integer(0), float(1)}}
    \cup {object(<<<<"b", v>>, <<"a", u>>>>) : u, v \in {integer(0), float(1)}}
    \cup {object(<<<<"a", u>>, <<"a", v>>>>) : u, v \in {integer(0), integer(1)}}
    \cup {object(<<<<"a", deep(n)>>>>) : n \in {1, 2, MaxDepth}}
    \cup {integer(0)}

equals(path, v) == [kind |-> "equals", path |-> path, value |-> v]
one_of(path, vs) == [kind |-> "one_of", path |-> path, values |-> vs]
at_most(path, v) == [kind |-> "lte", path |-> path, value |-> v]
at_least(path, v) == [kind |-> "gte", path |-> path, value |-> v]
all == [kind |-> "all"]

OneSelector ==
  {all, [all EXCEPT !.kind = "equals"],
   [kind |-> "all", path |-> << >>, value |-> float(2)],
   [kind |-> "all", path |-> <<"a">>, values |-> <<integer(MaxMagnitude + 1)>>],
   [kind |-> "equals", path |-> <<"a">>, values |-> <<integer(0)>>],
   one_of(<<"a">>, << >>), one_of(<<"a">>, <<integer(0), integer(1), null>>),
   equals(<<"">>, null), equals(<<"a", "b", "a">>, null)}
    \cup {equals(<<"a">>, v) : v \in Leaves \cup Wrapped}
    \cup {equals(<<"a">>, deep(n)) : n \in {1, MaxDepth, MaxDepth + 1}}
    \cup {equals(<<"a", "b">>, v) : v \in {integer(1), minus_zero}}
    \cup {one_of(<<"a">>, <<u, v>>) : u \in {integer(0), float(0)}, v \in {float(1), null}}
    \cup {at_most(<<"a">>, v) : v \in Leaves}
    \cup {at_least(<<"a">>, v) : v \in Leaves}
    \cup {equals(<< >>, integer(0)),
          equals(<<"a">>, object(<<<<"b", integer(1)>>>>)),
          equals(<<"a">>, object(<<<<"b", integer(1)>>, <<"b", integer(1)>>>>))}

MCSelectorList ==
  {<<s>> : s \in OneSelector}
    \cup {<<at_least(<<"a">>, u), at_most(<<p>>, v)>> :
            p \in {"a", "b"}, u, v \in {integer(0), integer(1), float(1)}}
    \cup {<< >>}
=============================================================================
