--------------------------- MODULE MCEnvRegistry ----------------------------
(***************************************************************************)
(* Values of the constants of EnvRegistry: names and values are sequences  *)
(* of characters, which a configuration cannot write down.  The operators  *)
(* of EnvBlock are compared with what they stand for, on every block of at *)
(* most three variables.                                                   *)
(***************************************************************************)
EXTENDS EnvRegistry

TwoNames   == {<<"a">>, <<"b">>}
ThreeNames == TwoNames \cup {<<"c">>}

OneOrEmpty == {<<>>, <<"1">>}
OneValue   == {<<"1">>}

\* The processes are alike, and every property treats them alike.
AnyClient == Permutations(Clients)

SmallBlocks ==
  {b \in BoundedSeq({Entry(n, v) : n \in ThreeNames, v \in OneOrEmpty}, 3) :
     IsInjective([i \in DOMAIN b |-> NameOf(b[i])])}

\* An addition overrides one variable, keeps the order of the others, and hands the
\* registry the block with at most one terminator too many.
ASSUME AdditionOverrides ==
  \A b \in SmallBlocks, n \in ThreeNames, v \in OneOrEmpty :
    LET after == AddOrReplace(b, n, v)
    IN  /\ EnvOf(after) = (n :> v) @@ EnvOf(b)
        /\ Kept(after, n) = Kept(b, n)
        /\ BytesOfAdd(b, n, v) - Bytes(after) \in {0, 1}

\* A removal drops one variable, as long as one other, or none, is left.
ASSUME RemovalDrops ==
  \A b \in SmallBlocks, n \in ThreeNames :
    Len(Kept(b, n)) <= 1 =>
      EnvOf(Removed(b, n)) = Restrict(EnvOf(b), DOMAIN EnvOf(b) \ {n})
=============================================================================
