----------------------------- MODULE MCJsonPatch -----------------------------
(***************************************************************************)
(* Instance of JsonPatch: a root object with a part "a" of every kind, an  *)
(* array of at most three elements included, and an optional part "b",     *)
(* which may be a map keyed by numbers as the bindings of a host are.      *)
(***************************************************************************)
EXTENDS JsonPatch

MCIndex == <<"0", "1", "2", "3", "4", "5">>
MCSegment == {"a", "b", "k1"} \cup Range(MCIndex)

Strings == {Str("s"), Str("t")}
Inner == Obj([k1 |-> Str("s")])
Arrays == {Arr(s) : s \in UNION {[1..n -> Strings] : n \in 0..2}}
          \cup {Arr(<<Str("t"), Inner>>), Arr(<<Inner, Str("s")>>)}
          \cup {Arr(<<Str(x), Str("s"), Str("t")>>) : x \in {"s", "t"}}
Objects == {Obj(<<>>), Inner, Obj([k1 |-> Str("t"), b |-> Str("s")])}
Ports == Obj([k \in {"0", "1"} |-> Str("s")])

MCSlot == {Str("s"), Obj([b |-> Null])}
MCRoot == {Null, Obj([b |-> Str("s")]), Obj([b |-> Ports])}
          \cup {Obj([a |-> x]) : x \in {Null, Str("t")} \cup Arrays \cup Objects}
          \cup {Obj([a |-> x, b |-> Str("t")]) : x \in {Str("s"), Inner}}
MCTarget == {<<>>, <<"a">>, <<"a", "k1">>, <<"b", "1">>, <<"a", "1">>}
MCWatched == {<<>>, <<"a">>, <<"a", "k1">>, <<"b">>, <<"b", "1">>}

\* Elements of "a" that are one allocation: none, those that stayed in their
\* place, those that moved up or down by one, or all of these.
MCSharing ==
    {{<<<<"a", Index[x[1]]>>, <<"a", Index[x[2]]>>>> :
        x \in {y \in (1..3) \X (1..3) : y[2] - y[1] \in by}} :
      by \in {{}, {0}, {-1, 1}, {-1, 0, 1}}}
=============================================================================
