---------------------------- MODULE MCTcpStreaming ----------------------------
(***************************************************************************)
(* A host with two ports, swept in two subnets, and one outside of them    *)
(* that only mDNS and SSDP can name.                                       *)
(***************************************************************************)
EXTENDS TcpStreaming

CONSTANTS a, b, p, q

MCReachable == {<<a, p>>, <<a, q>>, <<b, p>>}
=============================================================================
