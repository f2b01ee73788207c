----------------------------- MODULE MCSitemaps -----------------------------
(* A default location and a file that robots.txt declares, nested indexes  *)
(* with a cycle and a short cut, repeated pages, and pages that are no     *)
(* pages of the site.                                                      *)
EXTENDS Sitemaps

Seed(u, d) == [url |-> u, declared |-> d]
MCSeeds == <<Seed("s1", FALSE), Seed("s2", TRUE), Seed("s1", TRUE)>>
MCSeedsSame == <<Seed("s1", FALSE), Seed("s1", TRUE)>>
MCIndexDocs == {<<"s3">>, <<"s3", "s4", "s2">>, <<"bad", "s4", "s5">>}
MCPageDocs == {<<"p1", "p2", "p1">>, <<"p2", "x", "bad", "p3">>}
=============================================================================
