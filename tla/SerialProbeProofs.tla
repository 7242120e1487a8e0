------------------------- MODULE SerialProbeProofs -------------------------
(***************************************************************************)
(* Theorems about SerialProbe, for any list of baud rates, any device and  *)
(* any timeouts: the rate that is reported is the rate of the line, a set  *)
(* token costs one more probe at most, the async probe finds a device that *)
(* answers one of the rates in time, and so does its blocking twin if the  *)
(* device does not pause.                                                  *)
(***************************************************************************)
EXTENDS SerialProbe, TLAPS

----------------------------------------------------------------------------
(* The inductive invariants.                                               *)

\* The loop stays within the list, and a probe written after the token was set
\* is the last one.
Loop ==
  /\ pc \in {"set", "write", "read", "judge"} => i <= Len(Bauds)
  /\ writes <= 1
  /\ writes > 0 => cancelled /\ pc \notin {"set", "write"}

\* The line is at the rate being tried from its setting on.
AtRate ==
  /\ i = 1 => line = Bauds[1]
  /\ pc \in {"write", "read", "judge"} => line = Bauds[i]

\* As long as nothing fails, the async probe of a device that is always in time
\* has waited as long as the chunks it read took, reads every reply to its end,
\* and goes on from a rate only if the device has no valid reply at it.
InTime == ~how.blocking /\ Punctual /\ ~failed

Prompt ==
  /\ i = 1 => line = Bauds[1]
  /\ pc \in {"write", "read", "judge"} => line = Bauds[i] \/ Bauds[i] = Bauds[1]
  /\ pc = "done" /\ ~cancelled => found # NoMatch \/ i > Len(Bauds)
  /\ InTime =>
       /\ ~late
       /\ pc = "read" => /\ chunks <= Len(device[line].at)
                         /\ left = ReadTimeout - Arrival(device[line], chunks)
       /\ pc = "judge" => chunks = Len(device[line].at)
       /\ \A k \in 1..Len(Bauds) : k < i => ~device[Bauds[k]].valid

\* The rate of open() does not come up again later in the list.
FirstRateOnce == \A k \in DOMAIN Bauds : Bauds[k] = Bauds[1] => k = 1

\* The list of rates, and what it is a list of.
LEMMA BaudTypes ==
  /\ Len(Bauds) \in Nat \ {0} /\ DOMAIN Bauds = 1..Len(Bauds)
  /\ \A k \in 1..Len(Bauds) : Bauds[k] \in Rates /\ Bauds[k] # 0
<1>1. Bauds \in Seq(Nat \ {0}) /\ Bauds # <<>>
  BY SerialProbeAssumption
<1>2. /\ Len(Bauds) \in Nat \ {0} /\ DOMAIN Bauds = 1..Len(Bauds)
      /\ \A k \in 1..Len(Bauds) : Bauds[k] \in Nat \ {0}
  BY <1>1
<1> QED BY <1>2 DEF Rates, ToSet

\* A gap that a read waits out, and the time that is left then.
LEMMA GapTypes ==
  ASSUME TypeOK, NEW k \in Nat \ {0}
  PROVE  Gap(device[line], k) \in Nat
<1>1. device[line] \in Replies
  BY DEF TypeOK
<1> DEFINE at == device[line].at
<1>2. at \in Seq(Nat) /\ \A j \in 2..Len(at) : at[j - 1] <= at[j]
  BY <1>1, SerialProbeAssumption
<1> HIDE DEF at
<1>3. k <= Len(at) => at[k] \in Nat /\ (k # 1 => at[k - 1] \in Nat /\ at[k - 1] <= at[k])
  BY <1>2
<1>4. Gap(device[line], k) =
        IF k <= Len(at) THEN at[k] - (IF k = 1 THEN 0 ELSE at[k - 1]) ELSE 1
  BY DEF Gap, Arrival, at
<1> QED BY <1>2, <1>3, <1>4

\* A chunk never leaves a read more time than read_timeout.
LEMMA LeftTypes ==
  ASSUME TypeOK, NEW gap \in 0..left
  PROVE  LeftAfter(gap) \in 0..ReadTimeout
<1>1. left \in 0..ReadTimeout /\ ReadTimeout \in Nat /\ ShortTimeout \in 1..ReadTimeout
  BY SerialProbeAssumption DEF TypeOK
<1> QED BY <1>1 DEF LeftAfter

\* A probe starts with its types and within its list.
LEMMA LoopInit == Init => TypeOK /\ Loop /\ AtRate /\ ReportedBaud
<1> SUFFICES ASSUME Init PROVE TypeOK /\ Loop /\ AtRate /\ ReportedBaud
  OBVIOUS
<1>1. i \in 1..Len(Bauds) + 1 /\ line \in Rates
  BY BaudTypes DEF Init
<1>2. chunks \in 0..MaxChunks /\ left \in 0..ReadTimeout
  BY SerialProbeAssumption DEF Init
<1>3. TypeOK
  BY <1>1, <1>2 DEF Init, TypeOK
<1>4. Loop /\ AtRate /\ ReportedBaud
  BY DEF Init, Loop, AtRate, ReportedBaud
<1> QED BY <1>3, <1>4

\* Every step keeps the types.
LEMMA TypeStep == TypeOK /\ Loop /\ [Next]_vars => TypeOK'
<1> SUFFICES ASSUME TypeOK, Loop, [Next]_vars PROVE TypeOK'
  OBVIOUS
<1>0. Len(Bauds) \in Nat \ {0} /\ \A k \in 1..Len(Bauds) : Bauds[k] \in Rates
  BY BaudTypes
<1> USE DEF setup
<1>1. CASE UNCHANGED vars
  BY <1>1 DEF vars, TypeOK
<1>2. CASE Cancel \/ Open \/ CheckToken
  BY <1>2 DEF Cancel, Open, CheckToken, TypeOK
<1>3. CASE IoFails
  BY <1>0, <1>3 DEF IoFails, Continue, NextBaud, TypeOK, Loop
<1>4. CASE SetBaudRate
  <2>1. i \in 1..Len(Bauds)
    BY <1>0, <1>4 DEF SetBaudRate, TypeOK, Loop
  <2>2. line' \in Rates
    BY <1>0, <1>4, <2>1 DEF SetBaudRate, LineAfterSet, TypeOK
  <2> QED BY <1>4, <2>2 DEF SetBaudRate, TypeOK
<1>5. CASE WriteProbe
  <2>1. left' \in 0..ReadTimeout /\ chunks' \in 0..MaxChunks /\ writes' \in Nat
    BY <1>5, SerialProbeAssumption DEF WriteProbe, InitialTimeout, TypeOK
  <2> QED BY <1>5, <2>1 DEF WriteProbe, TypeOK
<1>6. CASE ReadChunk
  <2>1. left' \in 0..ReadTimeout
    <3>1. chunks + 1 \in Nat \ {0} /\ left \in Nat
      BY DEF TypeOK
    <3>2. Gap(device[line], chunks + 1) \in 0..left
      BY <1>6, <3>1, GapTypes DEF ReadChunk
    <3>3. left' = left \/ left' = LeftAfter(Gap(device[line], chunks + 1))
      BY <1>6 DEF ReadChunk
    <3> QED BY <3>2, <3>3, LeftTypes DEF TypeOK
  <2>2. chunks' \in 0..MaxChunks
    <3>1. MaxChunks \in Nat \ {0} /\ chunks \in Nat /\ chunks' = (chunks % MaxChunks) + 1
      BY <1>6, SerialProbeAssumption DEF ReadChunk, TypeOK
    <3> QED BY <3>1
  <2>3. pc' \in {"read", "judge"}
    BY <1>6 DEF ReadChunk
  <2> QED BY <1>6, <2>1, <2>2, <2>3 DEF ReadChunk, TypeOK
<1>7. CASE ReadLateBytes
  <2>1. left' \in 0..ReadTimeout
    BY <1>7, LeftTypes DEF ReadLateBytes
  <2> QED BY <1>7, <2>1 DEF ReadLateBytes, TypeOK
<1>8. CASE ReadEnds
  BY <1>8 DEF ReadEnds, TypeOK
<1>9. CASE Judge
  <2>1. i \in 1..Len(Bauds)
    BY <1>0, <1>9 DEF Judge, TypeOK, Loop
  <2>2. [baud |-> Bauds[i], line |-> line] \in [baud : Rates, line : Rates]
    BY <1>0, <2>1 DEF TypeOK
  <2> QED BY <1>0, <1>9, <2>1, <2>2 DEF Judge, Continue, NextBaud, TypeOK
<1> QED
  BY <1>1, <1>2, <1>3, <1>4, <1>5, <1>6, <1>7, <1>8, <1>9 DEF Next, ProbeStep

\* Every step keeps the loop within its list, and stops it for the token.
LEMMA LoopStep == TypeOK /\ Loop /\ [Next]_vars => Loop'
<1> SUFFICES ASSUME TypeOK, Loop, [Next]_vars PROVE Loop'
  OBVIOUS
<1> USE BaudTypes DEF setup, TypeOK, Loop
<1>1. CASE UNCHANGED vars
  BY <1>1 DEF vars
<1>2. CASE Cancel \/ Open
  BY <1>2 DEF Cancel, Open
<1>3. CASE CheckToken
  BY <1>3 DEF CheckToken, Stops
<1>4. CASE IoFails \/ SetBaudRate
  BY <1>4 DEF IoFails, Continue, SetBaudRate
<1>5. CASE WriteProbe
  BY <1>5 DEF WriteProbe
<1>6. CASE ReadChunk \/ ReadLateBytes \/ ReadEnds
  BY <1>6 DEF ReadChunk, ReadLateBytes, ReadEnds
<1>7. CASE Judge
  BY <1>7 DEF Judge, Continue
<1> QED
  BY <1>1, <1>2, <1>3, <1>4, <1>5, <1>6, <1>7 DEF Next, ProbeStep

\* Every step keeps the line at the rate being tried, if the list allows it.
LEMMA RateStep ==
  ASSUME FirstRateOnce
  PROVE  TypeOK /\ Loop /\ AtRate /\ ReportedBaud /\ [Next]_vars => AtRate' /\ ReportedBaud'
<1> SUFFICES ASSUME TypeOK, Loop, AtRate, ReportedBaud, [Next]_vars
             PROVE  AtRate' /\ ReportedBaud'
  OBVIOUS
<1>0. i \in Nat \ {0} /\ Len(Bauds) \in Nat \ {0} /\ DOMAIN Bauds = 1..Len(Bauds)
  BY BaudTypes DEF TypeOK
<1> USE DEF setup, AtRate, ReportedBaud
<1>1. CASE UNCHANGED vars
  BY <1>1 DEF vars
<1>2. CASE Cancel \/ Open \/ CheckToken
  BY <1>2 DEF Cancel, Open, CheckToken
<1>3. CASE IoFails
  BY <1>0, <1>3 DEF IoFails, Continue, NextBaud
<1>4. CASE SetBaudRate
  <2>1. line' = Bauds[i]
    BY <1>0, <1>4 DEF SetBaudRate, LineAfterSet, FirstRateOnce, Loop
  <2> QED BY <1>4, <2>1 DEF SetBaudRate
<1>5. CASE WriteProbe
  BY <1>5 DEF WriteProbe
<1>6. CASE ReadChunk \/ ReadLateBytes \/ ReadEnds
  BY <1>6 DEF ReadChunk, ReadLateBytes, ReadEnds
<1>7. CASE Judge
  <2>1. CASE Accepted
    BY <1>7, <2>1 DEF Judge, Accepted
  <2>2. CASE ~Accepted
    BY <1>0, <1>7, <2>2 DEF Judge, Continue, NextBaud
  <2> QED BY <2>1, <2>2
<1> QED
  BY <1>1, <1>2, <1>3, <1>4, <1>5, <1>6, <1>7 DEF Next, ProbeStep

\* The reply being read, of a device that is in time.
LEMMA ReplyInTime ==
  ASSUME TypeOK, InTime
  PROVE  LET at == device[line].at IN
         /\ at \in Seq(Nat) /\ Len(at) \in 0..MaxChunks
         /\ device[line].valid => Len(at) > 0
         /\ \A k \in Nat : HasChunk(device[line], k) <=> k <= Len(at)
         /\ \A k \in 1..Len(at) : at[k] \in Nat /\ at[k] <= ReadTimeout
         /\ \A k \in 0..Len(at) : Arrival(device[line], k) \in 0..ReadTimeout
<1> DEFINE at == device[line].at
<1>1. device[line] \in Replies /\ line \in Rates
  BY DEF TypeOK
<1>2. /\ at \in Seq(Nat) /\ Len(at) <= MaxChunks /\ (device[line].valid => at # <<>>)
      /\ MaxChunks \in Nat /\ ReadTimeout \in Nat
  BY <1>1, SerialProbeAssumption
<1>3. ~device[line].endless /\ \A k \in DOMAIN at : at[k] <= ReadTimeout
  BY <1>1 DEF InTime, Punctual
<1>4. \A k \in Nat : HasChunk(device[line], k) <=> k <= Len(at)
  BY <1>3 DEF HasChunk
<1>5. \A k \in Nat : Arrival(device[line], k) = IF k = 0 THEN 0 ELSE at[k]
  BY DEF Arrival
<1> HIDE DEF at
<1>6. /\ Len(at) \in 0..MaxChunks /\ (device[line].valid => Len(at) > 0)
      /\ \A k \in 1..Len(at) : at[k] \in Nat /\ at[k] <= ReadTimeout
  BY <1>2, <1>3
<1>7. \A k \in 0..Len(at) : Arrival(device[line], k) \in 0..ReadTimeout
  BY <1>2, <1>5, <1>6
<1> QED BY <1>2, <1>4, <1>6, <1>7 DEF at

\* Every step of the async probe keeps up with the device.
LEMMA PromptStep == TypeOK /\ Loop /\ Prompt /\ [Next]_vars => Prompt'
<1> SUFFICES ASSUME TypeOK, Loop, Prompt, [Next]_vars PROVE Prompt'
  OBVIOUS
<1>0. /\ i \in Nat \ {0} /\ Len(Bauds) \in Nat \ {0} /\ i <= Len(Bauds) + 1
      /\ InTime => ~failed
  BY BaudTypes DEF TypeOK, InTime
<1>1. CASE UNCHANGED vars
  BY <1>1 DEF vars, Prompt, InTime, Punctual
<1>2. CASE Cancel \/ Open
  BY <1>2 DEF Cancel, Open, Prompt, InTime, Punctual, setup
<1>3. CASE CheckToken
  BY <1>0, <1>3 DEF CheckToken, Prompt, InTime, Punctual, setup, Stops
<1>4. CASE IoFails
  BY <1>0, <1>4 DEF IoFails, Continue, NextBaud, Prompt, InTime
<1>5. CASE SetBaudRate
  <2>1. line' = IF Bauds[i] = Bauds[1] THEN line ELSE Bauds[i]
    BY <1>5 DEF SetBaudRate, LineAfterSet
  <2> QED BY <1>0, <1>5, <2>1 DEF SetBaudRate, Prompt, InTime, Punctual, setup
<1>6. CASE WriteProbe
  <2>1. InTime' => InTime
    BY <1>6 DEF WriteProbe, InTime, Punctual, setup
  <2>2. InTime => left' = ReadTimeout
    BY <1>6 DEF WriteProbe, InitialTimeout, InTime
  <2>3. InTime => 0 <= Len(device[line].at) /\ ReadTimeout \in Nat
    BY ReplyInTime, SerialProbeAssumption
  <2>4. InTime => ~late'
    BY <1>6 DEF WriteProbe, Prompt
  <2>5. /\ pc = "write" /\ pc' = "read" /\ chunks' = 0
        /\ UNCHANGED <<device, line, i, found, cancelled>>
    BY <1>6 DEF WriteProbe, setup
  <2>6. Arrival(device[line], 0) = 0 /\ ReadTimeout \in Nat
    BY SerialProbeAssumption DEF Arrival
  <2> QED BY <2>1, <2>2, <2>3, <2>4, <2>5, <2>6 DEF Prompt
<1>7. CASE ReadChunk
  <2>1. InTime' => InTime
    BY <1>7 DEF ReadChunk, InTime, Punctual, setup
  <2> DEFINE at == device[line].at
  <2>2. ASSUME InTime
        PROVE  /\ chunks' = chunks + 1 /\ chunks' <= Len(at)
               /\ pc' = "read" => left' = ReadTimeout - Arrival(device[line], chunks')
               /\ pc' = "judge" => chunks' = Len(at)
    <3>1. /\ Len(at) \in 0..MaxChunks /\ MaxChunks \in Nat \ {0} /\ chunks \in Nat
          /\ chunks + 1 <= Len(at)
          /\ left = ReadTimeout - Arrival(device[line], chunks)
      BY <1>7, <2>2, ReplyInTime, SerialProbeAssumption DEF ReadChunk, Prompt, TypeOK
    <3>2. chunks' = chunks + 1
      <4>1. chunks \in 0..MaxChunks - 1
        BY <3>1
      <4>2. chunks % MaxChunks = chunks
        BY <3>1, <4>1
      <4> QED BY <1>7, <4>2 DEF ReadChunk
    <3>3. /\ Arrival(device[line], chunks) \in 0..ReadTimeout
          /\ Arrival(device[line], chunks + 1) \in 0..ReadTimeout /\ ReadTimeout \in Nat
      BY <2>2, <3>1, ReplyInTime, SerialProbeAssumption
    <3>4. Gap(device[line], chunks + 1)
            = Arrival(device[line], chunks + 1) - Arrival(device[line], chunks)
      BY <3>1 DEF Gap
    <3>5. pc' = "read" => left' = left - Gap(device[line], chunks + 1)
      BY <1>7, <2>2 DEF ReadChunk, LeftAfter, InTime
    <3>6. pc' = "read" => left' = ReadTimeout - Arrival(device[line], chunks + 1)
      BY <3>1, <3>3, <3>4, <3>5
    <3>7. pc' = "judge" => chunks + 1 = Len(at)
      BY <1>7 DEF ReadChunk
    <3> QED BY <3>1, <3>2, <3>6, <3>7
  <2> QED BY <1>7, <2>1, <2>2 DEF ReadChunk, Prompt, setup
<1>8. CASE ReadLateBytes
  <2>1. ~InTime'
    BY <1>8 DEF ReadLateBytes, Prompt, InTime, Punctual, setup
  <2> QED BY <1>8, <2>1 DEF ReadLateBytes, Prompt, setup
<1>9. CASE ReadEnds
  <2>1. InTime' => InTime
    BY <1>9 DEF ReadEnds, InTime, Punctual, setup
  <2>2. ASSUME InTime' PROVE chunks = Len(device[line].at) /\ ~late'
    <3>1. InTime /\ ~failed'
      BY <2>1, <2>2 DEF InTime
    <3>2. /\ Len(device[line].at) \in Nat /\ chunks \in Nat /\ chunks <= Len(device[line].at)
          /\ left = ReadTimeout - Arrival(device[line], chunks)
      BY <1>9, <3>1, ReplyInTime DEF ReadEnds, Prompt, TypeOK
    <3>3. HasChunk(device[line], chunks + 1) => Gap(device[line], chunks + 1) > left
      BY <1>9, <3>1 DEF ReadEnds
    <3>4. CASE chunks + 1 <= Len(device[line].at)
      <4>1. /\ Arrival(device[line], chunks) \in 0..ReadTimeout
            /\ Arrival(device[line], chunks + 1) \in 0..ReadTimeout /\ ReadTimeout \in Nat
            /\ HasChunk(device[line], chunks + 1)
        BY <3>1, <3>2, <3>4, ReplyInTime, SerialProbeAssumption
      <4>2. Gap(device[line], chunks + 1)
              = Arrival(device[line], chunks + 1) - Arrival(device[line], chunks)
        BY <3>2, <3>4 DEF Gap
      <4> QED BY <3>2, <3>3, <4>1, <4>2
    <3>5. CASE ~(chunks + 1 <= Len(device[line].at))
      <4>1. ~HasChunk(device[line], chunks + 1)
        BY <3>1, <3>2, <3>5, ReplyInTime
      <4>2. ~late
        BY <3>1 DEF Prompt
      <4>3. ~late'
        BY <1>9, <4>1, <4>2 DEF ReadEnds
      <4> QED BY <3>2, <3>5, <4>3
    <3> QED BY <3>4, <3>5
  <2> QED BY <1>9, <2>1, <2>2 DEF ReadEnds, Prompt, setup
<1>10. CASE Judge
  <2>1. InTime' => InTime
    BY <1>10 DEF Judge, InTime, Punctual, setup
  <2>2. CASE Accepted
    <3>1. found' # NoMatch
      <4>1. Bauds[i] # 0
        BY <1>0, <1>10, BaudTypes DEF Judge, Loop
      <4> QED BY <1>10, <2>2, <4>1 DEF Judge, NoMatch
    <3> QED BY <1>10, <2>1, <2>2, <3>1 DEF Judge, Prompt, setup
  <2>3. CASE ~Accepted
    <3>1. InTime => ~device[line].valid
      <4>1. InTime => chunks = Len(device[line].at) /\ chunks \in Nat
        BY <1>10 DEF Judge, Prompt, TypeOK
      <4>2. InTime /\ device[line].valid => chunks > 0
        BY <4>1, ReplyInTime
      <4> QED BY <2>3, <4>1, <4>2 DEF Accepted
    <3>2. InTime => ~device[Bauds[i]].valid
      <4>1. CASE line = Bauds[i]
        BY <3>1, <4>1
      <4>2. CASE line # Bauds[i]
        <5>1. Bauds[i] = Bauds[1] /\ 1 < i
          BY <1>0, <1>10, <4>2 DEF Judge, Prompt
        <5> QED BY <1>0, <5>1 DEF Prompt
      <4> QED BY <4>1, <4>2
    <3>3. i' = i + 1 /\ pc' = "check" /\ UNCHANGED <<device, line, late, found>>
      BY <1>10, <2>3 DEF Judge, Continue, NextBaud, setup
    <3>4. InTime => \A k \in 1..Len(Bauds) : k < i + 1 => ~device[Bauds[k]].valid
      <4>1. \A k \in 1..Len(Bauds) : k < i + 1 => k < i \/ k = i
        BY <1>0
      <4> QED BY <3>2, <4>1 DEF Prompt
    <3> QED BY <1>0, <2>1, <3>3, <3>4 DEF Prompt
  <2> QED BY <2>2, <2>3
<1> QED
  BY <1>1, <1>2, <1>3, <1>4, <1>5, <1>6, <1>7, <1>8, <1>9, <1>10 DEF Next, ProbeStep

----------------------------------------------------------------------------
(* The theorems.                                                           *)

\* The loop over the baud rates stays within its list, with its types.
THEOREM Inductive == Spec => [](TypeOK /\ Loop)
BY LoopInit, TypeStep, LoopStep, PTL DEF Spec

\* The variables of probe_port_all_bauds keep their types; in particular no read
\* has more than read_timeout.
THEOREM TypeCorrect == Spec => []TypeOK
BY Inductive, PTL

\* Once the token is set, probe_port_all_bauds and its blocking twin write one more
\* probe at most.
THEOREM OneProbeAfterCancelHolds == Spec => []OneProbeAfterCancel
<1>1. Loop => OneProbeAfterCancel
  BY DEF Loop, OneProbeAfterCancel
<1> QED BY Inductive, <1>1, PTL

\* If the first of baud_rates does not come up again, the reported rate is the rate
\* of the line, and with a filter the device gave the right answer at it.
THEOREM ReportedBaudHolds == FirstRateOnce => (Spec => []ReportedBaud)
<1> SUFFICES ASSUME FirstRateOnce PROVE Spec => []ReportedBaud
  OBVIOUS
<1>1. TypeOK /\ Loop /\ AtRate /\ ReportedBaud /\ [Next]_vars => AtRate' /\ ReportedBaud'
  BY RateStep
<1> QED BY LoopInit, TypeStep, LoopStep, <1>1, PTL DEF Spec

\* probe_port_all_bauds finds a device that has a valid reply at one of the rates
\* and is in time at all of them, if nothing fails and nobody cancels: no chunk is
\* left for a later rate to trip over, and no rate is skipped.
THEOREM AsyncFindsResponsiveHolds == Spec => []AsyncFindsResponsive
<1>1. Init => Prompt
  BY BaudTypes DEF Init, Prompt
<1>2. TypeOK /\ Prompt => AsyncFindsResponsive
  <2> SUFFICES ASSUME TypeOK, Prompt, ~how.blocking, pc = "done", Punctual, ~cancelled, ~failed,
                      NEW b \in Rates, device[b].valid, found = NoMatch
               PROVE  FALSE
    BY DEF AsyncFindsResponsive, ResponsiveIsFound
  <2>1. InTime /\ i > Len(Bauds) /\ i \in Nat
    BY DEF InTime, Prompt, TypeOK
  <2>2. PICK k \in 1..Len(Bauds) : Bauds[k] = b
    BY BaudTypes DEF Rates, ToSet
  <2>3. k < i
    BY <2>1, <2>2, BaudTypes
  <2> QED BY <2>1, <2>2, <2>3 DEF Prompt
<1> QED BY LoopInit, TypeStep, LoopStep, PromptStep, <1>1, <1>2, PTL DEF Spec

----------------------------------------------------------------------------
(* When the blocking twin keeps the promise that the async probe keeps.    *)

\* Every reply starts within the short timeout; or the device is silent at the
\* rates where it has no valid reply.
Quick == \A b \in Rates : device[b].at # <<>> => device[b].at[1] <= ShortTimeout
Quiet == \A b \in Rates : device[b].at # <<>> => device[b].valid /\ device[b].at[1] <= ReadTimeout

\* No reply pauses for longer than the short timeout.
Steady ==
  /\ \A b \in Rates :
       /\ ~device[b].endless
       /\ \A k \in 2..Len(device[b].at) : Gap(device[b], k) <= ShortTimeout
  /\ Quick \/ Quiet

\* "synchronous equivalent" (probe.rs:350): it is, for a device that does not
\* pause within a reply, and either is silent at wrong rates or starts every
\* reply at once.
SteadyIsFound ==
  how.blocking /\ pc = "done" /\ Steady /\ ~cancelled /\ ~failed =>
    \A b \in Rates : device[b].valid => found # NoMatch

OnPace == how.blocking /\ Steady /\ ~failed

\* The read that starts has the time its first bytes may take.
Patient == left >= ShortTimeout /\ (Quiet => left = ReadTimeout)

\* As long as nothing fails, the blocking twin reads every reply of such a
\* device to its end; and it comes to a read with the short timeout only from
\* a device that always starts within it.
Pacing ==
  OnPace =>
    /\ ~late
    /\ pc \in {"open", "check", "set", "write"} => left = 0 \/ Patient
    /\ pc = "read" => /\ chunks <= Len(device[line].at) /\ left >= ShortTimeout
                      /\ chunks = 0 => Patient
    /\ pc = "judge" => /\ chunks = Len(device[line].at) /\ left >= ShortTimeout
                       /\ chunks = 0 => Patient
    /\ \A k \in 1..Len(Bauds) : k < i => ~device[Bauds[k]].valid

\* The next chunk of such a device comes within the time that is left.
LEMMA NextChunkInTime ==
  ASSUME TypeOK, OnPace, chunks <= Len(device[line].at), left >= ShortTimeout,
         chunks = 0 => Patient
  PROVE  LET at == device[line].at IN
         /\ Len(at) \in 0..MaxChunks /\ (device[line].valid => Len(at) > 0)
         /\ HasChunk(device[line], chunks + 1) <=> chunks + 1 <= Len(at)
         /\ chunks + 1 <= Len(at) => Gap(device[line], chunks + 1) <= left
         /\ Quick \/ (Len(at) > 0 => device[line].valid)
<1> DEFINE at == device[line].at
<1>1. device[line] \in Replies /\ line \in Rates
  BY DEF TypeOK
<1>2. /\ at \in Seq(Nat) /\ Len(at) <= MaxChunks /\ (device[line].valid => at # <<>>)
      /\ {MaxChunks, ReadTimeout, ShortTimeout} \subseteq Nat /\ ShortTimeout <= ReadTimeout
  BY <1>1, SerialProbeAssumption
<1>3. /\ ~device[line].endless /\ (Quick \/ Quiet)
      /\ \A k \in 2..Len(at) : Gap(device[line], k) <= ShortTimeout
  BY <1>1 DEF OnPace, Steady
<1>4. /\ Quick /\ at # <<>> => at[1] <= ShortTimeout
      /\ Quiet /\ at # <<>> => device[line].valid /\ at[1] <= ReadTimeout
  BY <1>1 DEF Quick, Quiet
<1>5. \A k \in Nat : HasChunk(device[line], k) <=> k <= Len(at)
  BY <1>3 DEF HasChunk
<1>6. 1 <= Len(at) => Gap(device[line], 1) = at[1] - 0
  BY DEF Gap, Arrival
<1>7. chunks \in Nat /\ left \in Nat
  BY <1>2 DEF TypeOK
<1> HIDE DEF at
<1>8. Len(at) \in 0..MaxChunks /\ (Len(at) > 0 <=> at # <<>>) /\ (1 <= Len(at) => at[1] \in Nat)
  BY <1>2
<1>9. ASSUME chunks + 1 <= Len(at) PROVE Gap(device[line], chunks + 1) <= left
  <2>1. CASE chunks = 0
    <3>1. left >= ShortTimeout /\ (Quiet => left = ReadTimeout)
      BY <2>1 DEF Patient
    <3>2. Gap(device[line], chunks + 1) = at[1] /\ at # <<>> /\ at[1] \in Nat
      BY <1>6, <1>8, <1>9, <2>1
    <3>3. CASE Quick
      BY <1>2, <1>4, <1>7, <3>1, <3>2, <3>3
    <3>4. CASE Quiet
      BY <1>4, <3>1, <3>2, <3>4
    <3> QED BY <1>3, <3>3, <3>4
  <2>2. CASE chunks # 0
    <3>1. chunks + 1 \in 2..Len(at)
      BY <1>7, <1>8, <1>9, <2>2
    <3>2. Gap(device[line], chunks + 1) \in Nat
      BY <1>7, GapTypes
    <3>3. Gap(device[line], chunks + 1) <= ShortTimeout
      BY <1>3, <3>1
    <3> QED BY <1>2, <1>7, <3>2, <3>3
  <2> QED BY <2>1, <2>2
<1>10. HasChunk(device[line], chunks + 1) <=> chunks + 1 <= Len(at)
  BY <1>5, <1>7
<1>11. device[line].valid => Len(at) > 0
  BY <1>2, <1>8
<1>12. Quick \/ (Len(at) > 0 => device[line].valid)
  BY <1>3, <1>4, <1>8
<1> QED BY <1>8, <1>9, <1>10, <1>11, <1>12 DEF at

\* Every step of the blocking twin keeps up with such a device.
LEMMA PacingStep == TypeOK /\ Loop /\ Prompt /\ Pacing /\ [Next]_vars => Pacing'
<1> SUFFICES ASSUME TypeOK, Loop, Prompt, Pacing, [Next]_vars, OnPace' PROVE Pacing'
  BY DEF Pacing
<1>0. /\ OnPace /\ device' = device /\ how' = how /\ Quiet' = Quiet /\ (Quick' = Quick)
      /\ ~failed /\ ~failed'
  <2>1. device' = device /\ how' = how
    BY DEF Next, ProbeStep, Cancel, Open, CheckToken, IoFails, SetBaudRate, WriteProbe,
       ReadChunk, ReadLateBytes, ReadEnds, Judge, setup, vars
  <2>2. failed' = failed \/ failed' = TRUE
    BY DEF Next, ProbeStep, Cancel, Open, CheckToken, IoFails, SetBaudRate, WriteProbe,
       ReadChunk, ReadLateBytes, ReadEnds, Judge, vars
  <2>3. ~failed' /\ ~failed
    BY <2>2 DEF OnPace
  <2>4. Quiet' = Quiet /\ Quick' = Quick /\ Steady' = Steady
    BY <2>1 DEF Quiet, Quick, Steady
  <2> QED BY <2>1, <2>4, <2>3 DEF OnPace
<1>1. /\ ~late
      /\ pc \in {"open", "check", "set", "write"} => left = 0 \/ Patient
      /\ pc = "read" => /\ chunks <= Len(device[line].at) /\ left >= ShortTimeout
                        /\ chunks = 0 => Patient
      /\ pc = "judge" => /\ chunks = Len(device[line].at) /\ left >= ShortTimeout
                         /\ chunks = 0 => Patient
      /\ \A k \in 1..Len(Bauds) : k < i => ~device[Bauds[k]].valid
  BY <1>0 DEF Pacing
<1>2. /\ {left, chunks, ShortTimeout, ReadTimeout} \subseteq Nat
      /\ ShortTimeout \in 1..ReadTimeout /\ how.blocking
      /\ i \in Nat \ {0} /\ Len(Bauds) \in Nat \ {0} /\ i <= Len(Bauds) + 1
  BY <1>0, SerialProbeAssumption, BaudTypes DEF TypeOK, OnPace
<1>3. CASE UNCHANGED vars
  BY <1>0, <1>1, <1>3 DEF vars, Pacing, Patient
<1>4. CASE Cancel \/ Open \/ CheckToken
  BY <1>0, <1>1, <1>4 DEF Cancel, Open, CheckToken, Pacing, Patient, setup
<1>5. CASE IoFails
  BY <1>0, <1>5 DEF IoFails
<1>6. CASE SetBaudRate
  BY <1>0, <1>1, <1>6 DEF SetBaudRate, Pacing, Patient, setup
<1>7. CASE WriteProbe
  <2>1. /\ pc = "write" /\ pc' = "read" /\ chunks' = 0 /\ late' \in {FALSE, late}
        /\ left' = InitialTimeout /\ i' = i /\ line' = line
    BY <1>7 DEF WriteProbe
  <2>2. left = 0 \/ Patient
    BY <1>1, <2>1
  <2>3. Patient'
    BY <1>0, <1>2, <2>1, <2>2 DEF InitialTimeout, Patient
  <2>4. Len(device[line].at) \in Nat
    <3>1. device[line].at \in Seq(Nat)
      BY SerialProbeAssumption DEF TypeOK
    <3> QED BY <3>1
  <2>5. left' >= ShortTimeout
    BY <2>3 DEF Patient
  <2>6. ~late' /\ chunks' <= Len(device'[line'].at)
    <3>1. ~late'
      BY <1>1, <2>1
    <3>2. device'[line'].at = device[line].at
      BY <1>0, <2>1
    <3> QED BY <2>1, <2>4, <3>1, <3>2
  <2>7. \A k \in 1..Len(Bauds) : k < i' => ~device'[Bauds[k]].valid
    BY <1>0, <1>1, <2>1
  <2> QED BY <2>1, <2>3, <2>5, <2>6, <2>7 DEF Pacing
<1>8. CASE ReadChunk
  <2> DEFINE at == device[line].at
  <2>1. /\ pc = "read" /\ HasChunk(device[line], chunks + 1) /\ line' = line /\ i' = i
        /\ chunks' = (chunks % MaxChunks) + 1 /\ late' = late
        /\ pc' \in {"read", "judge"} /\ left' \in {left, ShortTimeout}
        /\ pc' = "judge" => chunks + 1 = Len(at)
    BY <1>2, <1>8 DEF ReadChunk, LeftAfter
  <2>2. Len(at) \in 0..MaxChunks /\ chunks + 1 <= Len(at) /\ MaxChunks \in Nat \ {0}
    BY <1>0, <1>1, <2>1, NextChunkInTime, SerialProbeAssumption
  <2>3. chunks' = chunks + 1
    <3>1. chunks \in 0..MaxChunks - 1
      BY <1>2, <2>2
    <3>2. chunks % MaxChunks = chunks
      BY <2>2, <3>1
    <3> QED BY <2>1, <3>2
  <2>4. left' >= ShortTimeout /\ chunks' # 0
    BY <1>1, <1>2, <2>1, <2>3
  <2>5. pc' = "judge" => chunks' = Len(at)
    BY <2>1, <2>3
  <2>6. chunks' <= Len(at)
    BY <2>2, <2>3
  <2> HIDE DEF at
  <2>7. device'[line'].at = at
    BY <1>0, <2>1 DEF at
  <2> QED BY <1>0, <1>1, <2>1, <2>4, <2>5, <2>6, <2>7 DEF Pacing
<1>9. CASE ReadLateBytes
  BY <1>1, <1>9 DEF ReadLateBytes
<1>10. CASE ReadEnds
  <2>1. /\ pc = "read" /\ pc' = "judge" /\ line' = line /\ i' = i /\ chunks' = chunks /\ left' = left
        /\ late' = (late \/ HasChunk(device[line], chunks + 1))
        /\ HasChunk(device[line], chunks + 1) => Gap(device[line], chunks + 1) > left
    BY <1>0, <1>10 DEF ReadEnds
  <2>2. /\ chunks <= Len(device[line].at) /\ left >= ShortTimeout
        /\ chunks = 0 => Patient
    BY <1>1, <2>1
  <2>3. /\ Len(device[line].at) \in 0..MaxChunks
        /\ HasChunk(device[line], chunks + 1) <=> chunks + 1 <= Len(device[line].at)
        /\ chunks + 1 <= Len(device[line].at) => Gap(device[line], chunks + 1) <= left
    BY <1>0, <2>2, NextChunkInTime
  <2>4. Gap(device[line], chunks + 1) \in Nat
    BY <1>2, GapTypes
  <2>5. ~HasChunk(device[line], chunks + 1)
    BY <1>2, <2>1, <2>3, <2>4
  <2>6. chunks = Len(device[line].at) /\ ~late'
    <3>1. ~late'
      BY <1>1, <2>1, <2>5
    <3>2. Len(device[line].at) \in Nat /\ ~(chunks + 1 <= Len(device[line].at))
      BY <2>3, <2>5
    <3>3. chunks = Len(device[line].at)
      BY <1>2, <2>2, <3>2
    <3> QED BY <3>1, <3>3
  <2>7. chunks = 0 => Patient'
    BY <1>0, <2>1, <2>2 DEF Patient
  <2> QED BY <1>0, <1>1, <2>1, <2>2, <2>6, <2>7 DEF Pacing
<1>11. CASE Judge
  <2>1. /\ pc = "judge" /\ chunks = Len(device[line].at) /\ left >= ShortTimeout
        /\ chunks = 0 => Patient
        /\ UNCHANGED <<line, chunks, late, left>>
    BY <1>1, <1>11 DEF Judge
  <2>2. CASE Accepted
    BY <1>0, <1>1, <1>11, <2>1, <2>2 DEF Judge, Pacing, Patient
  <2>3. CASE ~Accepted
    <3>1. /\ Len(device[line].at) \in 0..MaxChunks /\ (device[line].valid => Len(device[line].at) > 0)
          /\ Quick \/ (Len(device[line].at) > 0 => device[line].valid)
      BY <1>0, <1>2, <2>1, NextChunkInTime
    <3>2. ~device[line].valid
      BY <1>2, <2>1, <2>3, <3>1 DEF Accepted
    <3>3. ~device[Bauds[i]].valid
      <4>1. CASE line = Bauds[i]
        BY <3>2, <4>1
      <4>2. CASE line # Bauds[i]
        <5>1. Bauds[i] = Bauds[1] /\ 1 < i
          BY <1>2, <2>1, <4>2 DEF Prompt
        <5> QED BY <1>1, <1>2, <5>1
      <4> QED BY <4>1, <4>2
    <3>4. i' = i + 1 /\ pc' = "check"
      BY <1>11, <2>3 DEF Judge, Continue, NextBaud
    <3>5. \A k \in 1..Len(Bauds) : k < i + 1 => ~device[Bauds[k]].valid
      <4>1. \A k \in 1..Len(Bauds) : k < i + 1 => k < i \/ k = i
        BY <1>2
      <4> QED BY <1>1, <3>3, <4>1
    <3>6. Patient'
      <4>1. Patient
        <5>1. CASE chunks = 0
          BY <2>1, <5>1
        <5>2. CASE chunks # 0
          <6>1. Len(device[line].at) > 0
            BY <1>2, <2>1, <5>2
          <6>2. ~Quiet
            <7>1. line \in Rates /\ device[line].at # <<>>
              BY <6>1 DEF TypeOK
            <7> QED BY <3>2, <7>1 DEF Quiet
          <6> QED BY <2>1, <6>2 DEF Patient
        <5> QED BY <5>1, <5>2
      <4> QED BY <1>0, <2>1, <4>1 DEF Patient
    <3> QED BY <1>0, <1>1, <2>1, <3>4, <3>5, <3>6 DEF Pacing
  <2> QED BY <2>2, <2>3
<1> QED
  BY <1>3, <1>4, <1>5, <1>6, <1>7, <1>8, <1>9, <1>10, <1>11 DEF Next, ProbeStep

\* probe_port_all_bauds_sync finds a device that has a valid reply at one of the
\* rates, if nothing fails and nobody cancels, as long as no reply pauses and the
\* 50 ms it goes on with are enough for what comes after.
THEOREM SteadyIsFoundHolds == Spec => []SteadyIsFound
<1>1. Init => Prompt /\ Pacing
  BY BaudTypes DEF Init, Prompt, Pacing
<1>2. TypeOK /\ Prompt /\ Pacing => SteadyIsFound
  <2> SUFFICES ASSUME TypeOK, Prompt, Pacing, how.blocking, pc = "done", Steady, ~cancelled,
                      ~failed, NEW b \in Rates, device[b].valid, found = NoMatch
               PROVE  FALSE
    BY DEF SteadyIsFound
  <2>1. OnPace /\ i > Len(Bauds) /\ i \in Nat
    BY DEF OnPace, Prompt, TypeOK
  <2>2. PICK k \in 1..Len(Bauds) : Bauds[k] = b
    BY BaudTypes DEF Rates, ToSet
  <2>3. k < i
    BY <2>1, <2>2, BaudTypes
  <2> QED BY <2>1, <2>2, <2>3 DEF Pacing
<1> QED BY LoopInit, TypeStep, LoopStep, PromptStep, PacingStep, <1>1, <1>2, PTL DEF Spec
=============================================================================
