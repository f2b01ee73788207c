------------------------------- MODULE MCFetch -------------------------------
(* Chains over four URLs with a limit of two redirects, and bodies up to   *)
(* one byte over each limit; hosts that are names, localhost and an        *)
(* address, and addresses of each form, with and without an inner prefix.  *)
EXTENDS GuardedFetch

IP(form, nets, metadata, zone) == [form |-> form, nets |-> nets, metadata |-> metadata, zone |-> zone]
Public == IP("v4", {}, FALSE, FALSE)
Loopback == IP("mapped", {"127.0.0.0/8"}, FALSE, FALSE)
Metadata == IP("nat64", {"169.254.0.0/16"}, TRUE, FALSE)
Broadcast == IP("v4", {"240.0.0.0/4", "255.255.255.255/32"}, FALSE, FALSE)
Zoned == IP("v6", {"fe80::/10"}, FALSE, TRUE)
Public6 == IP("v6", {"2000::/3"}, FALSE, FALSE)
Unrouted == IP("v6", {}, FALSE, FALSE)

MCHost == [u \in {"u1", "u2", "u3", "u4"} |->
              CASE u \in {"u1", "u2"} -> "name" [] u = "u3" -> "localhost" [] OTHER -> "127.0.0.1"]
MCLiterals == [h \in {"127.0.0.1"} |-> Loopback]
MCAddresses == {Public, Loopback, Metadata, Broadcast, Zoned, Public6, Unrouted}
MCAnswers ==
    {<<a>> : a \in MCAddresses} \cup {<<>>, <<Public, Metadata>>, <<Public6, Public>>, <<Loopback, Public>>,
     <<Public6, Loopback, Unrouted>>}
=============================================================================
