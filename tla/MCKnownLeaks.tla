---------------------------- MODULE MCKnownLeaks ----------------------------
(* TLC instances of KnownLeaks.  "A" and "B" are two leaking functions, of *)
(* which B calls A; "main" calls either.                                   *)
EXTENDS KnownLeaks, TLC

SomeFrames == {"A", "B", "main"}
DirectLeak == <<"A", "main", "main">>
NestedLeak == <<"A", "B", "main">>
OtherLeak  == <<"B", "main", "main">>
SomeSites  == {NestedLeak, OtherLeak}
AllSites   == {DirectLeak, NestedLeak, OtherLeak}
SomeNames  == {{"A"}, {"B"}}
NoLeaks    == <<>>

CommanderSymmetry == Permutations(Commander)
AddressSymmetry   == Permutations(Addr)
=============================================================================
