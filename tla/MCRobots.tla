------------------------------ MODULE MCRobots ------------------------------
(* Short files of every shape with few patterns, and every pair of short   *)
(* patterns under one agent.                                               *)
EXTENDS Robots

L(key, agent, pattern, delay) == [key |-> key, agent |-> agent, pattern |-> pattern, delay |-> delay]
A(a) == L("user-agent", a, <<>>, NoDelay)
R(key, p) == L(key, "", p, NoDelay)

MCValues == {"*", "bot", "bot/1", "me", ""}
MCToken == [n \in MCValues |-> IF n = "bot/1" THEN "bot" ELSE n]
MCSymbols == {"/", "a", "b", "*", "$", "%61", "%2f", "%2F", "r"}
MCNormal == [c \in MCSymbols |-> CASE c = "%61" -> "a" [] c = "%2f" -> "%2F" [] OTHER -> c]

Shapes ==
    {A("*"), A("bot"), A("bot/1"), A("me"), R("disallow", <<"/">>), R("allow", <<"/", "a">>),
     R("disallow", <<>>), R("sitemap", <<>>), R("unknown", <<>>), L("crawl-delay", "", <<>>, 1)}
Others == {R("disallow", <<"/", "%61", "*", "b", "/">>), L("crawl-delay", "", <<>>, NoDelay), R("comment", <<>>)}
Globs ==
    {g \in UNION {[1 .. n -> {"a", "b", "*", "$"}] : n \in 1 .. 4} :
        \A i \in 1 .. Len(g) - 1 : g[i] # "$" /\ (g[i] = "*" => g[i + 1] # "*")}
Spelled == {<<"/", "%61">>, <<"/", "%2f", "$">>, <<"/", "a", "b">>, <<"%2F", "*">>, <<"/", "*", "$">>}

MCFiles ==
    {<<>>} \cup UNION {[1 .. n -> Shapes] : n \in 1 .. 3}
    \cup {<<a, x, y, z>> : a \in {A("*"), A("bot")}, x \in Shapes, y \in {A("me"), A("bot/1"), R("disallow", <<"/", "a">>)},
                           z \in {R("disallow", <<"/">>), L("crawl-delay", "", <<>>, 2)}}
    \cup {<<A("bot"), R("disallow", <<"/", "b">>), A("me"), x, A("bot/1"), y>> :
            x \in {R("disallow", <<"/">>)}, y \in {R("disallow", <<"/", "a">>), L("crawl-delay", "", <<>>, 2)}}
    \cup {<<A("*"), x, y>> : x \in Others, y \in Others}
    \cup {<<A("*"), R("disallow", g)>> : g \in Globs}
    \cup {<<A("*"), R(q, g), R(IF q = "allow" THEN "disallow" ELSE "allow", h)>> :
            q \in RuleKeys, g \in Spelled, h \in Spelled}

MCPaths ==
    {<<>>, <<"/", "r">>, <<"/", "a", "b">>, <<"/", "%2F">>, <<"a", "a", "b">>, <<"a", "b", "a", "b">>}
MCAgents == <<"*", "bot">>
MCRobotsPath == <<"/", "r">>
=============================================================================
