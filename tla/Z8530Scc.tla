------------------------------ MODULE Z8530Scc ------------------------------
(***************************************************************************)
(* The Z8530 serial controller (devices/scc/Z8530Scc.cpp): two channels,   *)
(* each with write registers behind a two-step register pointer, a one     *)
(* byte receiver and transmitter, a baud rate timer and three interrupt    *)
(* sources.                                                                *)
(*                                                                         *)
(* The chip has no thread.  It is a function from channels to records and  *)
(* every method is an operator on it; SerialLine gives it a guest and an   *)
(* attached endpoint.  A write register is the set of its bits the code    *)
(* tests, by name.  The pointer is one field: m_awaitingRegisterWrite is   *)
(* set exactly when a register is selected.  Counters start from           *)
(* parameters; the baud rate time constant is one of them.  data and       *)
(* transmitData are kept while they matter: until the received byte is     *)
(* read, until the byte is sent.                                           *)
(***************************************************************************)
EXTENDS Naturals, Sequences

CONSTANTS TransmitTime,   \* 16 in the code
          BaudTime,       \* max(1024, (time constant + 2) * 1024) in the code
          NoByte

ASSUME SccAssumption == TransmitTime \in Nat \ {0} /\ BaudTime \in Nat \ {0}

Channels == {"A", "B"}

\* WR1 interrupt enables, WR4 stop bits (asynchronous mode), WR9 master enable,
\* WR12 and WR13 time constant, WR14 timer enable and loopback, WR15 zero count.
RegisterBits == [r \in {1, 4, 9, 12, 13, 14, 15} |->
                   CASE r = 1  -> {"rx", "tx", "ext"}
                     [] r = 4  -> {"async"}
                     [] r = 9  -> {"master"}
                     [] r = 14 -> {"timer", "loopback"}
                     [] r = 15 -> {"zeroCount"}
                     [] OTHER  -> {}]
Registers == DOMAIN RegisterBits
RegisterType == [Registers -> SUBSET {"rx", "tx", "ext", "async", "master", "timer", "loopback", "zeroCount"}]

ResetChannel == [wr |-> [r \in Registers |-> {}], selected |-> 0, data |-> NoByte,
                 txCycles |-> 0, txPending |-> FALSE, rxAvailable |-> FALSE,
                 txData |-> NoByte, baud |-> 0, extPending |-> FALSE, zeroCount |-> FALSE]

ResetScc == [ch \in Channels |-> ResetChannel]

ChannelType(Byte) ==
  [wr : RegisterType, selected : Registers \union {0}, data : Byte \union {NoByte},
   txCycles : 0 .. TransmitTime, txPending : BOOLEAN, rxAvailable : BOOLEAN,
   txData : Byte \union {NoByte}, baud : 0 .. BaudTime,
   extPending : BOOLEAN, zeroCount : BOOLEAN]

-----------------------------------------------------------------------------
(* Interrupts.                                                              *)

\* receiveInterruptEnabled, transmitInterruptEnabled, externalInterruptEnabled
Enabled(s, source) ==
  CASE source = "rx"  -> s.rxAvailable /\ "rx" \in s.wr[1]
    [] source = "tx"  -> s.txPending /\ "tx" \in s.wr[1]
    [] source = "ext" -> s.extPending /\ "ext" \in s.wr[1]

\* The order of modifiedInterruptVector.
VectorOrder == << <<"A", "rx">>, <<"A", "tx">>, <<"A", "ext">>,
                  <<"B", "rx">>, <<"B", "tx">>, <<"B", "ext">> >>

\* RR3: the sources that ask for an interrupt.
Pending(scc) == {p \in Channels \X {"rx", "tx", "ext"} : Enabled(scc[p[1]], p[2])}

NoSource == <<"none", "none">>

\* modifiedInterruptVector: the source RR2 of channel B names.
InterruptVector(scc) ==
  IF Pending(scc) = {} THEN NoSource
  ELSE VectorOrder[CHOOSE i \in DOMAIN VectorOrder :
                     /\ VectorOrder[i] \in Pending(scc)
                     /\ \A j \in 1 .. (i - 1) : VectorOrder[j] \notin Pending(scc)]

InterruptActive(scc) ==
  /\ \E ch \in Channels : "master" \in scc[ch].wr[9]
  /\ InterruptVector(scc) # NoSource

Dismiss(s, source) ==
  CASE source = "rx"  -> [s EXCEPT !.rxAvailable = FALSE, !.data = NoByte]
    [] source = "tx"  -> [s EXCEPT !.txPending = FALSE]
    [] source = "ext" -> [s EXCEPT !.extPending = FALSE, !.zeroCount = FALSE]

\* Defect: transmit interrupts are looked for before receive interrupts.
TransmitFirst(s) ==
  IF Enabled(s, "tx") THEN Dismiss(s, "tx")
  ELSE IF Enabled(s, "rx") THEN Dismiss(s, "rx") ELSE Dismiss(s, "ext")

\* The first enabled source of one channel, in the order of resetHighestInterrupt.
DismissFirst(s) ==
  IF Enabled(s, "rx") THEN Dismiss(s, "rx")
  ELSE IF Enabled(s, "tx") THEN Dismiss(s, "tx") ELSE Dismiss(s, "ext")

ResetHighestInterrupt(scc) ==
  LET asks(ch) == \E source \in {"rx", "tx", "ext"} : Enabled(scc[ch], source)
  IN  IF asks("A") THEN [scc EXCEPT !["A"] = DismissFirst(@)]
      ELSE IF asks("B") THEN [scc EXCEPT !["B"] = DismissFirst(@)]
      ELSE scc

-----------------------------------------------------------------------------
(* Register accesses.                                                       *)

ReadControl(scc, ch) == [scc EXCEPT ![ch].selected = 0]

ReadData(scc, ch) == [scc EXCEPT ![ch] = Dismiss(@, "rx")]

\* restartBaudRateTimer
RestartTimer(s) == [s EXCEPT !.baud = IF "timer" \in s.wr[14] THEN BaudTime ELSE 0]

\* writeControl, first write of a pair: WR0 with a register number.
SelectRegister(scc, ch, reg) == [scc EXCEPT ![ch].selected = reg]

\* writeControl, second write of a pair: the selected register takes the value.
WriteRegister(scc, ch, bits) ==
  LET reg     == scc[ch].selected
      written == [scc[ch] EXCEPT !.wr[reg] = bits, !.selected = 0]
  IN  [scc EXCEPT ![ch] = IF reg \in {12, 13, 14} THEN RestartTimer(written) ELSE written]

WR0Commands == {"null", "resetExternal", "resetTransmit", "resetHighest"}

\* writeControl, a WR0 command, which selects no register.
WriteCommand(scc, ch, command) ==
  CASE command = "resetExternal" -> [scc EXCEPT ![ch] = Dismiss(@, "ext")]
    [] command = "resetTransmit" -> [scc EXCEPT ![ch] = Dismiss(@, "tx")]
    [] command = "resetHighest"  -> ResetHighestInterrupt(scc)
    [] OTHER -> scc

\* The byte lands in the receiver's register as well.
WriteData(scc, ch, byte) ==
  LET available == scc[ch].rxAvailable \/ "loopback" \in scc[ch].wr[14]
  IN  [scc EXCEPT ![ch].data = IF available THEN byte ELSE NoByte, ![ch].txData = byte,
                  ![ch].txCycles = TransmitTime, ![ch].txPending = FALSE,
                  ![ch].rxAvailable = available]

-----------------------------------------------------------------------------
(* Time and the serial bus.                                                 *)

\* receiveByte, for the bytes one poll of the endpoint delivers: the last stays.
ReceiveBytes(scc, ch, bytes) ==
  IF bytes = <<>> THEN scc
  ELSE [scc EXCEPT ![ch].data = bytes[Len(bytes)], ![ch].rxAvailable = TRUE]

CountDown(n, cycles) == IF n <= cycles THEN 0 ELSE n - cycles

\* The transmitter's half of tick for one channel.
TickTransmitter(s, cycles) ==
  [s EXCEPT !.txCycles = CountDown(@, cycles),
            !.txData = IF s.txCycles <= cycles THEN NoByte ELSE @,
            !.txPending = @ \/ s.txCycles \in 1 .. cycles]

\* The timer's half of tick for one channel.
TickTimer(s, cycles) ==
  LET zero == s.baud \in 1 .. cycles
      ie   == "zeroCount" \in s.wr[15]
  IN  [s EXCEPT !.baud = CountDown(@, cycles),
                !.zeroCount = @ \/ (zero /\ ie),
                !.extPending = IF zero THEN ie ELSE @]

\* tick without its poll and its hand-over to the endpoint.
TickChannels(scc, cycles) ==
  [ch \in Channels |-> TickTimer(TickTransmitter(scc[ch], cycles), cycles)]

\* Defect: the test for asynchronous mode is inverted.
TransmittedSync(s, cycles) ==
  IF s.txCycles \in 1 .. cycles /\ "async" \notin s.wr[4] THEN <<s.txData>> ELSE <<>>

\* The bytes the transmitter of a channel hands to its bus during a tick.
Transmitted(s, cycles) ==
  IF s.txCycles \in 1 .. cycles /\ "async" \in s.wr[4] THEN <<s.txData>> ELSE <<>>
=============================================================================
