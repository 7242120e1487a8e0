--------------------------- MODULE SweepContract ----------------------------
(***************************************************************************)
(* What scan_subnets and probe_host of src/tcp/scan.rs promise their       *)
(* caller.  A sweep: a list of addresses of its subnets that answer, in    *)
(* any order; some may be missed, and an address of two subnets may come   *)
(* twice.  The probe of a host: a list of its addresses that answer.       *)
(* TcpDiscovery is built on it; TcpScan and ProbeStream keep it            *)
(* (SweepFitsDiscovery in TcpScanProofs, ProbeFitsDiscovery in             *)
(* ProbeStreamProofs).                                                     *)
(***************************************************************************)
EXTENDS SequencesExt

CONSTANTS
  Swept,       \* hosts of the subnets
  TwiceSwept   \* hosts that two of the subnets share

Answering(open) == {a \in open : a[1] \in Swept}

\* The lists that name hits once and twice once more.
Listings(hits, twice) ==
  {[i \in DOMAIN s |-> s[i][2]] :
     s \in SetToSeqs(({"once"} \X hits) \union ({"again"} \X twice))}

SweepResults(open) ==
  UNION {UNION {Listings(hits, twice) : twice \in SUBSET {a \in hits : a[1] \in TwiceSwept}} :
           hits \in SUBSET Answering(open)}

\* Every port of the host is probed at once; the matches come in any order.
HostResults(h, open) == SetToSeqs({a \in open : a[1] = h})
=============================================================================
