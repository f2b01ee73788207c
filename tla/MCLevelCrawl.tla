---------------------------- MODULE MCLevelCrawl ----------------------------
(* Small crawls of every site of a family: five URLs on two origins.       *)
EXTENDS LevelCrawl

MCOrigin == [u \in 1 .. 5 |-> IF u >= 4 THEN "www" ELSE "apex"]
\* URLs 3 and 5 have a query and share their path.
MCCounted ==
    [u \in 1 .. 5 |-> (IF u \in {3, 5} THEN {"t2"} ELSE {"t1"})
                     \cup (IF u \in {3, 5} THEN {"q"} ELSE {})]
MCTight == [t \in {"t1", "t2", "q"} |-> IF t = "q" THEN 1 ELSE 2]

MCSites ==
    {[links |-> [u \in 1 .. 5 |-> CASE u = 1 -> a [] u = 2 -> b [] u = 3 -> c [] OTHER -> {1, 5}],
      final |-> [u \in 1 .. 5 |-> IF u = 2 THEN f ELSE u],
      fails |-> x, disallowed |-> d, down |-> o] :
        a \in {{2}, {2, 3}, {1, 2, 4}, {2, 3, 4, 5}}, b \in {{}, {3}, {4}, {4, 5}}, c \in {{1}, {2, 5}, {4}},
        f \in {2, 3, 5}, x \in {{}, {2}}, d \in {{}, {1}, {3}}, o \in {{}, {"www"}}}
=============================================================================
