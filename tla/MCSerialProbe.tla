--------------------------- MODULE MCSerialProbe ---------------------------
(***************************************************************************)
(* Baud lists and devices for SerialProbe: a read timeout of 3 units, a    *)
(* short timeout of 1.                                                     *)
(***************************************************************************)
EXTENDS SerialProbe

TwoRates == <<9600, 115200>>
ThreeRates == <<9600, 19200, 115200>>

Variant(blocking, terminated) == [blocking |-> blocking, terminated |-> terminated]
AllVariants == [blocking : BOOLEAN, terminated : BOOLEAN]
SweepVariant == {Variant(TRUE, FALSE)}

Reply(at, valid) == [at |-> at, valid |-> valid, endless |-> FALSE]

\* Silent, one garbled chunk, an answer at once, late, and in two parts.
PunctualReplies ==
  {Reply(<<>>, FALSE), Reply(<<1>>, FALSE), Reply(<<1>>, TRUE), Reply(<<3>>, TRUE),
   Reply(<<1, 2>>, TRUE)}

\* Replies with a pause longer than the short timeout, one of which outlasts the
\* read timeout.
PausingReplies == PunctualReplies \union {Reply(<<1, 3>>, TRUE), Reply(<<2, 4>>, TRUE)}

\* A device that sends all the time.
Endless == [at |-> <<1>>, valid |-> FALSE, endless |-> TRUE]
AllReplies == PausingReplies \union {Endless}
=============================================================================
