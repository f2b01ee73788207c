----------------------------- MODULE MCCrawler ------------------------------
(* A pool of two workers on sites of four URLs.  Page 2 may redirect to a  *)
(* page of its own level, fail, or be the only one that knows page 4,      *)
(* which lives on another origin.                                          *)
EXTENDS Crawler

MCOrigin == [u \in 1 .. 4 |-> IF u = 4 THEN "www" ELSE "apex"]
MCCounted == [u \in 1 .. 4 |-> {"t"}]
MCLimit == [t \in {"t"} |-> 4]

MCSites ==
    {[links |-> [u \in 1 .. 4 |-> CASE u = 1 -> {2, 3} [] u = 2 -> b [] OTHER -> {1, 2}],
      final |-> [u \in 1 .. 4 |-> IF u = 2 THEN f ELSE u],
      fails |-> x, disallowed |-> d, down |-> {}] :
        b \in {{}, {4}}, f \in {2, 3, 4}, x \in {{}, {2}}, d \in {{}, {3}}}
=============================================================================
