---------------------------- MODULE MCEgressProxy ----------------------------
(* EgressProxy for TLC: a public host whose name server changes its mind, an internal  *)
(* one, an internal one that is allowed; one IPv6 address maps to the internal IPv4    *)
(* one.                                                                                *)
EXTENDS EgressProxy, TLC
CONSTANTS c1, c2, public, rebinding, allowed, ip4, ip6, inner4, inner6

TheHosts == {public, rebinding, allowed}
TheAddresses == {ip4, ip6, inner4, inner6}
TheAnswers == (public :> {<<ip4, ip6>>}) @@ (allowed :> {<<inner4>>, <<>>})
              @@ (rebinding :> {<<ip4>>, <<ip4, inner6>>, <<inner4>>})
Networks == {{inner4}}
Mapped == inner6 :> inner4
=============================================================================
