--------------------------- MODULE MCTestFixture ----------------------------
(* TLC instances of TestFixture. *)
EXTENDS TestFixture, TLC

SomeFrames == {"workload", "main"}
OneSite    == {<<"workload", "main">>}
NoLeaks    == <<>>

FixtureSymmetry == Permutations(TestThread) \cup Permutations(Addr \ OwnBlocks)
=============================================================================
