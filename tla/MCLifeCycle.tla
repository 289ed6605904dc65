---------------------------- MODULE MCLifeCycle -----------------------------
(* TLC instances of LifeCycle.  Every stack trace begins in a function of  *)
(* the application but the one of the leak that the constructor captures.  *)
EXTENDS LifeCycle

SomeFrames == {"app", "_dl_allocate_tls", "main"}
SomeSites  == {<<"app", "main">>, <<"_dl_allocate_tls", "main">>}
TlsNamed   == {{"_dl_allocate_tls"}}
NoLeaks    == <<>>
=============================================================================
