---------------------------- MODULE PassContract ----------------------------
(***************************************************************************)
(* What one pass, discover() of the serial or the TCP transport, promises  *)
(* poll_watch of src/watch.rs: a list of devices that answered at some     *)
(* point of the pass, with all of those it had to find.  PollWatch is      *)
(* built on it; SerialDiscovery and TcpDiscovery keep it (PassFitsWatch in *)
(* SerialDiscoveryProofs and in TcpStreamingProofs).                       *)
(***************************************************************************)
EXTENDS SequencesExt

CONSTANT Duplicates  \* whether a pass may list a device twice

\* A list of A, and behind it a list of B.
Behind(A, B) == {lists[1] \o lists[2] : lists \in SetToSeqs(A) \X SetToSeqs(B)}

\* Two lists, one behind the other, which together name the devices found:
\* one of the hosts that mDNS named, one of all the others.
InTwoLists(found) ==
  UNION {Behind(parts[1], parts[2]) :
           parts \in {p \in (SUBSET found) \X (SUBSET found) : p[1] \union p[2] = found}}

PassLists(found) == IF Duplicates THEN InTwoLists(found) ELSE SetToSeqs(found)

\* The results of a pass that may find the devices seen and has to find those
\* of least.
PassResults(seen, least) ==
  UNION {PassLists(found) : found \in {f \in SUBSET seen : least \subseteq f}}
=============================================================================
