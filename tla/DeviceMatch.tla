---------------------------- MODULE DeviceMatch -----------------------------
(***************************************************************************)
(* What a discovery reports: the DeviceMatch each transport builds of a    *)
(* device (src/tcp/scan.rs, src/serial/probe.rs, src/usb/mod.rs), and what *)
(* its accessors and bus_params read back of it (src/types.rs).  USB       *)
(* discovery is here as a whole, with run_streaming (src/streaming.rs);    *)
(* the others have modules of their own and are one step.                  *)
(*                                                                         *)
(* Text is a sequence of tokens: words, colons, brackets, and numbers as   *)
(* they are formatted, in decimal or in hexadecimal.                       *)
(***************************************************************************)
EXTENDS Naturals, Sequences, SequencesExt, FiniteSets

CONSTANTS
  Discoveries,  \* sequences of devices that a discovery of one transport meets
  Wanted,       \* vid: USB devices with this vendor pass the filters
  None,
  CallbackMayRaise

VARIABLES
  stage,
  devices,        \* environment: the list a discovery goes through
  looked_at,      \* how far it has got
  found_matches,
  streamed        \* the matches the callback was called with

matchVars == <<stage, devices, looked_at, found_matches, streamed>>

----------------------------------------------------------------------------
(* Text.                                                                   *)

Word(w) == <<"word", w>>
Decimal(n) == <<"decimal", n>>
Hex(n) == <<"hex", n>>
Colon == <<"colon">>
LeftBracket == <<"left">>
RightBracket == <<"right">>

Token ==
  ({"word"} \X STRING) \union ({"decimal", "hex"} \X Nat)
    \union {Colon, LeftBracket, RightBracket}
Text == Seq(Token)

IsColon(token) == token = Colon

LastColon(t) == SelectLastInSeq(t, IsColon)

SplitOnce(t) ==
  LET i == SelectInSeq(t, IsColon)
  IN  IF i = 0 THEN [before |-> t, after |-> <<>>]
               ELSE [before |-> SubSeq(t, 1, i - 1), after |-> SubSeq(t, i + 1, Len(t))]

\* parse() and from_str_radix(16): the whole text is one number.
ParseAs(kind, t) == IF Len(t) = 1 /\ t[1][1] = kind THEN t[1][2] ELSE None

----------------------------------------------------------------------------
(* Devices.  An optional setting is None, a missing text empty.            *)

TcpDevice ==
  [transport : {"tcp"}, host : Text, v6 : BOOLEAN, port : Nat, hostname : {None} \union STRING]
SerialDevice ==
  [transport : {"serial"}, port : Text, baud : {None} \union Nat, data_bits : {None} \union Nat,
   parity : {None, "none", "even", "odd"}, stop_bits : {None} \union Nat,
   flow : {None, "none", "software", "hardware"}]
UsbDevice == [transport : {"usb"}, vid : Nat, pid : Nat, serial : Text, class : Nat]

ASSUME MatchAssumption ==
  /\ \A list \in Discoveries : list \in Seq(TcpDevice \union SerialDevice \union UsbDevice)
  /\ None \notin {"even", "odd", "E", "O", "N"}

----------------------------------------------------------------------------
(* Building a match.  A key that is absent from info has an empty text.    *)

Optional(value, text) == IF value = None THEN <<>> ELSE text

\* A socket address puts an IPv6 host in brackets.
Bracketed(d) ==
  IF d.v6 THEN <<LeftBracket>> \o d.host \o <<RightBracket>> ELSE d.host

\* build_match
TcpMatch(d) ==
  [transport |-> "tcp",
   address |-> Bracketed(d) \o <<Colon, Decimal(d.port)>>,
   info |-> [hostname |-> Optional(d.hostname, <<Word(d.hostname)>>)]]

\* Settings that are the default are left out; a listed port has none.
SerialInfo(d) ==
  [baud_rate |-> Optional(d.baud, <<Decimal(d.baud)>>),
   data_bits |-> IF d.data_bits \in {None, 8} THEN <<>> ELSE <<Decimal(d.data_bits)>>,
   parity |-> IF d.parity \in {None, "none"} THEN <<>> ELSE <<Word(d.parity)>>,
   stop_bits |-> IF d.stop_bits \in {None, 1} THEN <<>> ELSE <<Decimal(d.stop_bits)>>,
   flow_control |-> IF d.flow \in {None, "none"} THEN <<>> ELSE <<Word(d.flow)>>]

SerialMatch(d) == [transport |-> "serial", address |-> d.port, info |-> SerialInfo(d)]

\* build_device_match
UsbMatch(d) ==
  [transport |-> "usb",
   address |-> <<Hex(d.vid), Colon, Hex(d.pid)>>
               \o (IF d.serial = <<>> THEN <<>> ELSE <<Colon>> \o d.serial),
   info |-> [vendor_id |-> <<Hex(d.vid)>>, product_id |-> <<Hex(d.pid)>>,
             device_class |-> <<Decimal(d.class)>>, serial_number |-> d.serial]]

MatchOf(d) ==
  CASE d.transport = "tcp" -> TcpMatch(d)
    [] d.transport = "serial" -> SerialMatch(d)
    [] d.transport = "usb" -> UsbMatch(d)

----------------------------------------------------------------------------
(* Reading it back.                                                        *)

\* host() and port(): the last colon divides them.
HostOf(m) ==
  IF LastColon(m.address) = 0 THEN <<>> ELSE SubSeq(m.address, 1, LastColon(m.address) - 1)
PortOf(m) ==
  IF LastColon(m.address) = 0 THEN None
  ELSE ParseAs("decimal", SubSeq(m.address, LastColon(m.address) + 1, Len(m.address)))

VendorId(m) == ParseAs("hex", SplitOnce(m.address).before)

\* Mutation: what is behind the vendor is the product.
ProductId_AllTheRest(m) == ParseAs("hex", SplitOnce(m.address).after)

\* The second of at most three parts: a serial number may hold colons.
ProductId(m) == ParseAs("hex", SplitOnce(SplitOnce(m.address).after).before)

IsHid(m) == m.transport = "usb" /\ ParseAs("decimal", m.info.device_class) = 3

ParityChar(word) == CASE word = "even" -> "E" [] word = "odd" -> "O" [] OTHER -> "N"

\* A key that bus_params does not set is None; it never sets flow control.
BusParams(m) ==
  CASE m.transport = "serial" ->
         [port |-> m.address,
          baudrate |-> ParseAs("decimal", m.info.baud_rate),
          bytesize |-> ParseAs("decimal", m.info.data_bits),
          parity |-> IF m.info.parity = <<>> THEN None ELSE ParityChar(m.info.parity[1][2]),
          stopbits |-> ParseAs("decimal", m.info.stop_bits),
          flow_control |-> None]
    [] m.transport = "tcp" -> [host |-> HostOf(m), port |-> PortOf(m)]
    [] m.transport = "usb" ->
         [vendor |-> VendorId(m), product |-> ProductId(m),
          serial_number |-> m.info.serial_number]

----------------------------------------------------------------------------
(* A discovery.                                                            *)

MatchInit ==
  /\ stage = "discovering"
  /\ devices \in Discoveries
  /\ looked_at = 0
  /\ found_matches = <<>>
  /\ streamed = <<>>

\* apply_filters
Passes(d) == d.transport = "usb" => d.vid = Wanted

\* Every transport: discover; of USB one list, filtered in its order.
DiscoverNext ==
  /\ stage = "discovering"
  /\ looked_at < Len(devices)
  /\ looked_at' = looked_at + 1
  /\ LET d == devices[looked_at + 1]
     IN  found_matches' = IF Passes(d) THEN Append(found_matches, MatchOf(d)) ELSE found_matches
  /\ UNCHANGED <<stage, devices, streamed>>

DiscoverReturns ==
  /\ stage = "discovering"
  /\ looked_at = Len(devices)
  /\ \/ stage' = "returned"
     \/ (\A k \in DOMAIN devices : devices[k].transport = "usb") /\ stage' = "streaming"
  /\ UNCHANGED <<devices, looked_at, found_matches, streamed>>

\* list_devices fails.
DiscoverFails ==
  /\ stage = "discovering"
  /\ looked_at = 0
  /\ stage' = "raised"
  /\ UNCHANGED <<devices, looked_at, found_matches, streamed>>

\* run_streaming: a callback for each match of the finished list.
CallNext ==
  /\ stage = "streaming"
  /\ Len(streamed) < Len(found_matches)
  /\ streamed' = Append(streamed, found_matches[Len(streamed) + 1])
  /\ \/ stage' = "streaming"
     \/ CallbackMayRaise /\ stage' = "raised"
  /\ UNCHANGED <<devices, looked_at, found_matches>>

ReturnStreamed ==
  /\ stage = "streaming"
  /\ Len(streamed) = Len(found_matches)
  /\ stage' = "streamed"
  /\ UNCHANGED <<devices, looked_at, found_matches, streamed>>

MatchNext == DiscoverNext \/ DiscoverReturns \/ DiscoverFails \/ CallNext \/ ReturnStreamed
MatchSpec == MatchInit /\ [][MatchNext]_matchVars

----------------------------------------------------------------------------
(* Property.                                                               *)

\* What python-bus opens without a parameter.
Opened(value, default) == IF value = None THEN default ELSE value

\* A match, opened with its bus_params, is the device, at the settings it was
\* found with; and only HID devices are taken for such.
Reopens(m, d) ==
  LET params == BusParams(m)
  IN  /\ d.transport = "serial" =>
           /\ params.port = d.port /\ params.baudrate = d.baud
           /\ Opened(params.bytesize, 8) = Opened(d.data_bits, 8)
           /\ Opened(params.stopbits, 1) = Opened(d.stop_bits, 1)
           /\ Opened(params.parity, "N") = ParityChar(d.parity)
           /\ Opened(params.flow_control, "none") = Opened(d.flow, "none")
      /\ d.transport = "tcp" => params.port = d.port /\ params.host = d.host
      /\ d.transport = "usb" =>
           params = [vendor |-> d.vid, product |-> d.pid, serial_number |-> d.serial]
      /\ IsHid(m) <=> d.transport = "usb" /\ d.class = 3

\* The match reopens the device, but for the flow control of a serial port and the
\* host of an IPv6 address, whose port is still told from its colons.
LeadsBack(m, d) ==
  /\ d.transport = "usb" => Reopens(m, d)
  /\ d.transport = "serial" => Reopens(m, [d EXCEPT !.flow = None])
  /\ d.transport = "tcp" => PortOf(m) = d.port /\ (~d.v6 => Reopens(m, d))

\* How many of the first k devices pass the filters.
Passing(k) == Cardinality({j \in 1..k : Passes(devices[j])})

\* "Every DeviceMatch produces kwargs ready for python-bus" (README.md:117): the
\* n-th match of a discovery leads back to the n-th device that passes its
\* filters, and there is no other.  Two parameters do not keep the promise and are
\* excepted: the host of an IPv6 address, which keeps the brackets that build_match
\* put around it (types.rs:173, against line 169), and the flow control of a serial
\* port, which bus_params does not pass on (types.rs:236).
ParamsReopen ==
  /\ Len(found_matches) = Passing(looked_at)
  /\ \A k \in 1..looked_at :
       Passes(devices[k]) => LeadsBack(found_matches[Passing(k)], devices[k])
=============================================================================
