--------------------------- MODULE MCHeapWatcher ----------------------------
(* TLC instances of HeapWatcher: the .cfg files choose threads and calls. *)
EXTENDS HeapWatcher, TLC

(* One call site, and one more whose innermost frame is a known leak. *)
AppTrace   == <<"app", "main">>
LeakTrace  == <<"tls", "main">>
OneSite    == {AppTrace}
TwoSites   == {AppTrace, LeakTrace}
SomeFrames == {"app", "tls", "main"}
NoLeaks    == <<>>
TlsLeak    == <<[address |-> "tls", offset |-> 0]>>

AddressSymmetry == Permutations(Addr)
ThreadSymmetry  == Permutations(Thread) \cup Permutations(Addr)
=============================================================================
