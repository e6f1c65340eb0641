--------------------------- MODULE MCPortForwards ---------------------------
EXTENDS PortForwards, TLC
CONSTANTS a, b, lan, wan

(* Gateways are named like their address: "lan" is secure, "wan" is not. *)
MCNets == {<<[gw |-> lan, ip |-> lan], [gw |-> wan, ip |-> wan]>>,
           <<[gw |-> lan, ip |-> lan]>>}
MCRequirement ==
    <<[public |-> {}, private |-> {lan}, secure |-> FALSE],
      [public |-> {wan}, private |-> {lan, wan}, secure |-> TRUE]>>
F(t, c, r) == [target |-> t, count |-> c, reqs |-> r]
MCSpecs ==
    (a :> <<{F("ta", 1, 1), F("ta", 1, 2)}, {F("ta", 1, 1)}>>) @@
    (b :> <<{F("tb", 1, 1), F("tb", 2, 2)}, {}>>)
=============================================================================
