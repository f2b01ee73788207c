---------------------------- MODULE GuardedFetch ----------------------------
(***************************************************************************)
(* A fetch whose connections are made by the guarded dialer                *)
(* (internal/netguard): each request goes over a connection that is kept   *)
(* from an earlier one to the same host, or over a new one, for which the  *)
(* host is resolved, all addresses are checked, and then dialed in turn.   *)
(* Name servers are arbitrary and may answer differently each time.        *)
(***************************************************************************)
EXTENDS Fetch, SequencesExt

CONSTANTS
    Host,       \* the host of a URL
    Literals,   \* the hosts that are addresses, with their address
    LocalNames, \* localhost and the names under it
    Addresses,  \* addresses: their form, the prefixes that hold them (for an
                \* embedding form: its IPv4 address), known metadata, zone
    Answers     \* what a name server may answer: sequences of addresses

\* Two prefixes of a table hold the same address only when one is within the
\* other: these are all such pairs.
Within ==
    {<<"255.255.255.255/32", "240.0.0.0/4">>, <<"::/128", "::/96">>, <<"::1/128", "::/96">>}
Forms == {"v4", "mapped", "nat64", "6to4", "v6"}

ASSUME AddressesAssumption ==
    /\ Addresses \subseteq
           [form : Forms, nets : SUBSET STRING, metadata : BOOLEAN, zone : BOOLEAN]
    /\ \A a \in Addresses : \A m, n \in a.nets \ {"2000::/3"} :
           m = n \/ <<m, n>> \in Within \/ <<n, m>> \in Within
ASSUME NamesAssumption ==
    /\ Literals \in [DOMAIN Literals -> Addresses]
    /\ Answers \subseteq Seq(Addresses)

VARIABLES
    allowPrivate,   \* Policy.AllowPrivate
    conn,           \* the dialer: where it is, its addresses and the current one
    pool            \* idle connections: host and address

guard == <<allowPrivate, conn, pool>>

Prefix(net, bits, class) == [net |-> net, bits |-> bits, class |-> class]
V4Prefixes ==
    <<Prefix("0.0.0.0/8", 8, "unspecified"), Prefix("10.0.0.0/8", 8, "private"),
      Prefix("100.64.0.0/10", 10, "shared"), Prefix("127.0.0.0/8", 8, "loopback"),
      Prefix("169.254.0.0/16", 16, "link-local"), Prefix("172.16.0.0/12", 12, "private"),
      Prefix("192.0.0.0/24", 24, "reserved"), Prefix("192.0.2.0/24", 24, "reserved"),
      Prefix("192.88.99.0/24", 24, "reserved"), Prefix("192.168.0.0/16", 16, "private"),
      Prefix("198.18.0.0/15", 15, "reserved"), Prefix("198.51.100.0/24", 24, "reserved"),
      Prefix("203.0.113.0/24", 24, "reserved"), Prefix("224.0.0.0/4", 4, "multicast"),
      Prefix("255.255.255.255/32", 32, "broadcast"), Prefix("240.0.0.0/4", 4, "reserved")>>
V6Prefixes ==
    <<Prefix("::/128", 128, "unspecified"), Prefix("::1/128", 128, "loopback"),
      Prefix("::/96", 96, "reserved"), Prefix("64:ff9b:1::/48", 48, "private"),
      Prefix("100::/64", 64, "reserved"), Prefix("2001::/32", 32, "reserved"),
      Prefix("2001:10::/28", 28, "reserved"), Prefix("2001:20::/28", 28, "reserved"),
      Prefix("2001:db8::/32", 32, "reserved"), Prefix("3fff::/20", 20, "reserved"),
      Prefix("5f00::/16", 16, "reserved"), Prefix("fc00::/7", 7, "private"),
      Prefix("fe80::/10", 10, "link-local"), Prefix("fec0::/10", 10, "private"),
      Prefix("ff00::/8", 8, "multicast")>>

\* The entries of the table for a whose prefix holds it; an address that
\* embeds an IPv4 address (IPv4-mapped, NAT64, 6to4) is looked up by that one.
Table(a) == IF a.form = "v6" THEN V6Prefixes ELSE V4Prefixes
Holding(a) == {i \in 1 .. Len(Table(a)) : Table(a)[i].net \in a.nets}
OfNone(a) == IF a.form = "v6" /\ "2000::/3" \notin a.nets THEN "reserved" ELSE "public"

\* The first entry that holds the address decides.
Classify(a) ==
    IF a.metadata THEN "metadata"
    ELSE IF Holding(a) = {} THEN OfNone(a) ELSE Table(a)[Min(Holding(a))].class

WithPrivate == {"public", "loopback", "private", "link-local", "shared"}
CheckIP(a) ==
    /\ ~a.zone
    /\ Classify(a) \in IF allowPrivate THEN WithPrivate ELSE {"public"}

-----------------------------------------------------------------------------
(* DialContext. *)
NoConn == [at |-> "none", ips |-> <<>>, i |-> 1]
Dialing(at) == pc = "do" /\ conn.at = at
To(at) == conn' = [conn EXCEPT !.at = at, !.i = 1]
Here == Host[current]

\* A connection that is kept is used again without a look at the policy.
Reuse ==
    /\ Dialing("none")
    /\ \E c \in pool : c.host = Here /\ conn' = [at |-> "connected", ips |-> <<c.ip>>, i |-> 1]
    /\ UNCHANGED <<vars, allowPrivate, pool>>

\* CheckHost: a literal is checked as an address, a local name refused.
CheckHost ==
    /\ Dialing("none")
    /\ IF Here \in DOMAIN Literals
       THEN conn' = [at |-> IF CheckIP(Literals[Here]) THEN "check" ELSE "blocked",
                     ips |-> <<Literals[Here]>>, i |-> 1]
       ELSE To(IF ~allowPrivate /\ Here \in LocalNames THEN "blocked" ELSE "resolve")
    /\ UNCHANGED <<vars, allowPrivate, pool>>

\* resolve: no address is an error.
Resolve ==
    /\ Dialing("resolve")
    /\ \/ \E ips \in Answers \ {<<>>} : conn' = [at |-> "check", ips |-> ips, i |-> 1]
       \/ To("failed")
    /\ UNCHANGED <<vars, allowPrivate, pool>>

\* Fault: the first address that passes is enough.
CheckedEarly == CheckIP(conn.ips[conn.i])
Checked == CheckIP(conn.ips[conn.i]) /\ conn.i = Len(conn.ips)

\* Every address is checked before any is dialed.
Check ==
    /\ Dialing("check")
    /\ IF Checked THEN To("dial")
       ELSE IF CheckIP(conn.ips[conn.i]) THEN conn' = [conn EXCEPT !.i = @ + 1]
       ELSE To("blocked")
    /\ UNCHANGED <<vars, allowPrivate, pool>>

\* Fault: the addresses are tried round and round.
DialNextAround == [conn EXCEPT !.i = (@ % Len(conn.ips)) + 1]
DialNext == IF conn.i = Len(conn.ips) THEN [conn EXCEPT !.at = "failed"] ELSE [conn EXCEPT !.i = @ + 1]

\* The address answers, or it does not: then the next is dialed, unless it
\* was the last or the context has ended.
Dial ==
    /\ Dialing("dial")
    /\ \/ conn' = [conn EXCEPT !.at = "connected"]
       \/ conn' = DialNext
       \/ To("failed")
    /\ UNCHANGED <<vars, allowPrivate, pool>>

\* The exchange over the connection, which may be kept for later, or the
\* error of the dialer, which wins over the client's.
Exchange ==
    /\ Dialing("connected")
    /\ \/ NoLocation
       \/ \E to \in URLs \cup BadURLs, status \in {"see-other", "redirect"} : Redirect(to, status)
       \/ \E b \in Bodies : Respond(b)
       \/ Fail /\ error' # "blocked"
    /\ \/ UNCHANGED pool
       \/ error' \in {"none", "ok"} /\ pool' = pool \cup {[host |-> Here, ip |-> conn.ips[conn.i]]}
    /\ conn' = NoConn /\ UNCHANGED allowPrivate

NoExchange ==
    /\ pc = "do" /\ conn.at \in {"blocked", "failed"}
    /\ Fail
    /\ (error' = "blocked") = (conn.at = "blocked")
    /\ conn' = NoConn /\ UNCHANGED <<allowPrivate, pool>>

GuardedInit == Init /\ allowPrivate \in BOOLEAN /\ conn = NoConn /\ pool = {}
GuardedNext ==
    \/ (Parse \/ LoopHead \/ Wait) /\ UNCHANGED guard
    \/ Reuse \/ CheckHost \/ Resolve \/ Check \/ Dial \/ Exchange \/ NoExchange

\* A fetch is one goroutine, whose calls all end by their time-outs.
GuardedSpec == GuardedInit /\ [][GuardedNext]_<<vars, guard>> /\ WF_<<vars, guard>>(GuardedNext)

-----------------------------------------------------------------------------
(***************************************************************************)
(* Properties.                                                             *)
(***************************************************************************)

(* Every variable has its type. *)
GuardTypeOK ==
    /\ allowPrivate \in BOOLEAN
    /\ conn.at \in {"none", "resolve", "check", "dial", "connected", "blocked", "failed"}
    /\ ToSet(conn.ips) \subseteq Addresses /\ conn.i \in 1 .. Len(conn.ips) + 1
    /\ conn.at # "none" => pc = "do"
    /\ pool \subseteq [host : {Host[u] : u \in URLs}, ip : Addresses]

\* What the policy permits, by the most specific prefix of an address.
Permitted(a) ==
    LET holding == {Table(a)[i] : i \in Holding(a)}
        narrow == {e \in holding : \A f \in holding : f.bits <= e.bits}
        class == IF holding = {} THEN OfNone(a) ELSE (CHOOSE e \in narrow : TRUE).class
    IN ~a.zone /\ ~a.metadata /\ (class = "public" \/ (allowPrivate /\ class \in WithPrivate))

(* netguard/classify.go:6: "it applies to every request and every redirect *)
(* hop, and the address that was checked is the address that is connected  *)
(* to".  Whatever name servers answer, now and on a later hop, no address  *)
(* outside the policy is connected to, nor kept for a later request; and a *)
(* host with one such address among its answers is not connected to at all *)
(* (dialer.go:105).                                                        *)
OnlyPermitted ==
    /\ conn.at \in {"dial", "connected"} => \A a \in ToSet(conn.ips) : Permitted(a)
    /\ \A c \in pool : Permitted(c.ip)

(* A fetch that fails as blocked had an address or a name to refuse: the   *)
(* policy never blocks a host whose addresses are all permitted, and what  *)
(* it blocks has no request sent, so that the report can tell a blocked    *)
(* robots.txt or page from one that is down.                               *)
BlockedForCause ==
    conn.at = "blocked" =>
        \/ \E a \in ToSet(conn.ips) : ~Permitted(a)
        \/ ~allowPrivate /\ Here \in LocalNames

(* The policy is kept: neither too much nor too little is let through.     *)
PolicyKept == GuardTypeOK /\ OnlyPermitted /\ BlockedForCause

(* Every fetch ends, whatever servers, name servers and networks do.       *)
FetchEnds == <>(pc = "done")
=============================================================================
