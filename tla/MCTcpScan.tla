----------------------------- MODULE MCTcpScan -----------------------------
(***************************************************************************)
(* A small network for TcpScan: one IPv4 and one IPv6 subnet.              *)
(***************************************************************************)
EXTENDS TcpScan, TLC

CONSTANTS h1, h2, h3, v6, outside, n1, n2, p1

OnePort == {p1}
TwoNets == {n1, n2}

\* n1 holds three IPv4 hosts and n2 one IPv6 host; the heuristics name h2, and
\* an address outside n1, which the /24 arithmetic yields for narrow subnets.
MixedHosts == {h1, h2, h3, v6, outside}
MixedV4 == {h1, h2, h3, outside}
MixedHostsOf == (n1 :> {h1, h2, h3}) @@ (n2 :> {v6})
MixedCommon == (n1 :> {h2, outside}) @@ (n2 :> {})
=============================================================================
