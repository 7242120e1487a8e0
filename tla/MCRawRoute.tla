----------------------------- MODULE MCRawRoute -----------------------------
(***************************************************************************)
(* Two hosts and a loopback one, two ports, and three source ports: the    *)
(* scan of the four targets wraps.  Others ping one of the hosts and a     *)
(* third one, connect to a port that is not scanned from a source port of  *)
(* the scan, and start a scan of their own.                                *)
(***************************************************************************)
EXTENDS RawRoute

TwoPorts == <<80, 443>>
ThreeHosts == {"a", "b", "lo"}

\* An echo of another program, and a stray one with the identifier of ours.
SomePings == {[host |-> "a", id |-> "foreign"], [host |-> "s", id |-> "ours"]}

\* A connection of another program, and the first SYN of another scan.
SomeSyns == {[dst |-> <<"a", 22>>, src |-> 2], [dst |-> <<"b", 80>>, src |-> 1]}
=============================================================================
