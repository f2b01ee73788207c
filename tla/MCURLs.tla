------------------------------- MODULE MCURLs -------------------------------
(* References for TLC: every path of up to MaxPath bytes, every way to write *)
(* a host or a port, and pages whose links run into the guard's limits.      *)
EXTENDS URLs

CONSTANT MaxPath

U(scheme, host, port, path, query) ==
    [scheme |-> scheme, user |-> FALSE, host |-> host, port |-> port, path |-> path, query |-> query]
a == 97
e == 101
MCStart == U("https", <<"a">>, <<>>, <<slash>>, <<>>)
MCBase == U("https", <<"a">>, <<>>, <<slash, a, slash, e>>, <<e>>)

At(path, query) == U("https", <<"a">>, <<>>, path, query)

\* / . % 2 e F <, and in queries ? & and a control character.
Bytes == {slash, dot, percent, 50, e, 70, 60}
Paths == UNION {[1 .. n -> Bytes] : n \in 0 .. MaxPath}
Absolute == {At(<<>>, <<>>)} \cup {At(<<slash>> \o p, <<>>) : p \in Paths}
            \cup {At(<<slash>>, p) : p \in [1 .. 3 -> {percent, 50, e, 63, ampersand, 7}]}
\* Two slashes in front would begin a host.
Relative == {U("", <<>>, <<>>, p, q) : p \in {r \in UNION {[1 .. n -> {slash, dot, e, 60}] : n \in 0 .. 3} :
                                                 Len(r) < 2 \/ <<r[1], r[2]>> # <<slash, slash>>},
                                     q \in {<<>>, <<50>>}}
\* /%2e%2E/a  /e/.%2e  /%252e  /e/%2e/../a  /..//a  /a<%2F  /a!<
Longer == {<<slash, percent, 50, e, percent, 50, 69, slash, a>>, <<slash, e, slash, dot, percent, 50, e>>,
           <<slash, percent, 50, 53, 50, e>>, <<slash, e, slash, percent, 50, e, slash, dot, dot, slash, a>>,
           <<slash, dot, dot, slash, slash, a>>, <<slash, a, 60, percent, 50, 70>>, <<slash, a, 33, 60>>}
Hosts == {U(s, h, p, <<slash>>, <<>>) : s \in {"http", "https", "ftp"},
            h \in {<<>>, <<".">>, <<"A">>, <<"a", ".">>, <<"a", ".", ".">>, <<"WWW", ".", "a">>, <<"a", "%">>, <<"bad">>, <<"e">>},
            p \in {<<>>, <<0>>, <<8, 0>>, <<4, 4, 3>>, <<0, 4, 4, 3>>, <<8, 0, 8>>, <<6, 5, 5, 3, 6>>, <<0, 0, 6, 5, 5, 3, 5>>}}
         \cup {[MCStart EXCEPT !.user = TRUE]}

\* /1  /22  /?a=1  /?a=e  /?a=2&e  /?e&a  /a/a  //e/a/  /3
Pages == {At(<<slash, 49>>, <<>>), At(<<slash, 50, 50>>, <<>>),
          At(<<slash>>, <<a, equals, 49>>), At(<<slash>>, <<a, equals, e>>),
          At(<<slash>>, <<a, equals, 50, ampersand, e>>), At(<<slash>>, <<e, ampersand, a>>),
          At(<<slash, a, slash, a>>, <<>>), At(<<slash, slash, e, slash, a, slash>>, <<>>), At(<<slash, 51>>, <<>>)}

MCLabels == {"a", "A", "e", "www", "WWW", "bad", "%", "."}
MCLinks == {<<r>> : r \in Absolute \cup Relative \cup Hosts \cup {At(p, <<>>) : p \in Longer}}
           \cup [1 .. 4 -> Pages]
=============================================================================
