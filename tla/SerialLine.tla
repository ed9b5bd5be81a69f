----------------------------- MODULE SerialLine -----------------------------
(***************************************************************************)
(* A serial port in use: the SCC of a running machine, an endpoint on its  *)
(* channel A, the endpoint's network thread and the host at the far end.   *)
(* Channel B has no endpoint; its timer competes for interrupts, as        *)
(* LocalTalk's does.                                                       *)
(*                                                                         *)
(* The guest's accesses, the machine's ticks and resets are made by the    *)
(* emulation thread, one at a time, under the session lock.  The network   *)
(* thread runs beside them and takes a queue's mutex for one step.  The    *)
(* host answers or not, sends, and hangs up when it likes.                 *)
(*                                                                         *)
(* The guest's driver programs the registers with pairs of control writes, *)
(* writes data when RR0 says the transmitter is empty, and otherwise does  *)
(* anything.  MacPlusMachine never ticks its SCC, the other machines do so *)
(* after every instruction.                                                *)
(***************************************************************************)
EXTENDS Z8530Scc, SerialPeers

CONSTANTS PeerKinds,    \* the endpoints considered, a subset of Kinds
          Machines,     \* the machines considered
          Program,      \* channel -> the write registers its driver programs
          Use,          \* endpoint -> what the guest does with the port, below
          MaxTick       \* bound: cycles of an instruction

ASSUME LineAssumption ==
  /\ PeerKinds \subseteq Kinds /\ PeerKinds # {}
  /\ Machines \subseteq {"macplus", "maciicx", "quadra700"} /\ Machines # {}
  \* script: what the guest's first, second ... write may be, which bounds them;
  \* sent: a bound on the far end's bytes; WR0 commands; <<channel, register, bits>> rewritten
  /\ Use \in [PeerKinds -> [script : Seq(SUBSET Tokens), sent : Nat, commands : SUBSET WR0Commands,
                             rewrites : SUBSET (Channels \X Registers \X {{"timer"}, {"loopback"}, {}})]]
  \* The driver of channel A programs asynchronous mode and stays in it.
  /\ Program \in [Channels -> RegisterType] /\ "async" \in Program["A"][4]
  /\ \A k \in PeerKinds : \A r \in Use[k].rewrites : ~(r[1] = "A" /\ r[2] = 4)
  /\ MaxTick \in Nat \ {0}

VARIABLES machine, scc,
          modem,   \* the endpoint with its thread
          net,     \* the far end: up, bytes on the wire to us, tokens heard, bytes sent
          guest    \* history: tokens written, tokens the endpoint took, last peer byte read
vars == <<machine, scc, modem, net, guest>>

Usage == Use[modem.kind]

Peer(n) == Item("peer", "", n, modem.call)

\* The driver's initialisation: pairs of control writes, back to back, leave the
\* registers with the driver's bits and the timer running if they say so.
Programmed(chip) == [ch \in Channels |-> RestartTimer([chip[ch] EXCEPT !.wr = Program[ch]])]

TypeOK ==
  /\ machine \in Machines
  /\ scc \in [Channels -> ChannelType(ItemType)]
  /\ modem \in PeerType /\ modem.kind \in PeerKinds
  /\ net \in [up : BOOLEAN, wire : Seq(ItemType), heard : Seq(Tokens), sent : 0 .. Usage.sent]
  /\ guest \in [wrote : 0 .. Len(Usage.script), took : 0 .. Len(Usage.script), last : 0 .. Usage.sent]

Init ==
  /\ machine \in Machines
  /\ \E k \in PeerKinds : modem = NewPeer(k)
  /\ scc = Programmed(ResetScc)
  /\ net = [up |-> FALSE, wire |-> <<>>, heard |-> <<>>, sent |-> 0]
  /\ guest = [wrote |-> 0, took |-> 0, last |-> 0]

-----------------------------------------------------------------------------
(* The emulation thread.                                                    *)

Running == modem.cont = "run"

GuestWritesData(tok) ==
  /\ Running /\ guest.wrote < Len(Usage.script) /\ tok \in Usage.script[guest.wrote + 1]
  /\ scc["A"].txCycles = 0                  \* RR0: transmit buffer empty
  /\ scc' = WriteData(scc, "A", Item("guest", tok, 0, 0))
  /\ guest' = [guest EXCEPT !.wrote = @ + 1]
  /\ UNCHANGED <<machine, modem, net>>

GuestReadsData(ch) ==
  /\ Running
  /\ scc' = ReadData(scc, ch)
  /\ guest' = IF scc[ch].rxAvailable /\ scc[ch].data.from = "peer"
              THEN [guest EXCEPT !.last = scc[ch].data.n] ELSE guest
  /\ UNCHANGED <<machine, modem, net>>

GuestReadsControl(ch) ==
  /\ Running
  /\ scc' = ReadControl(scc, ch)
  /\ UNCHANGED <<machine, modem, net, guest>>

GuestSelects(ch, reg) ==
  /\ Running /\ scc[ch].selected = 0
  /\ scc' = SelectRegister(scc, ch, reg)
  /\ UNCHANGED <<machine, modem, net, guest>>

GuestWritesRegister(ch, bits) ==
  /\ Running /\ scc[ch].selected # 0
  /\ scc' = WriteRegister(scc, ch, bits)
  /\ UNCHANGED <<machine, modem, net, guest>>

GuestCommands(ch, command) ==
  /\ Running /\ scc[ch].selected = 0
  /\ scc' = WriteCommand(scc, ch, command)
  /\ UNCHANGED <<machine, modem, net, guest>>

\* Defect: the devices stand still while an interrupt is asserted.
TickUnlessInterrupting(cycles) ==
  /\ Running /\ ~InterruptActive(scc) /\ machine # "macplus"
  /\ LET polled == ReceiveBytes(scc, "A", Polled(modem))
         sent   == Transmitted(polled["A"], cycles)
     IN  /\ scc' = TickChannels(polled, cycles)
         /\ modem' = IF sent = <<>> THEN Poll(modem) ELSE Receive(Poll(modem), sent[1].tok)
         /\ guest' = [guest EXCEPT !.took = @ + Len(sent)]
  /\ UNCHANGED <<machine, net>>

\* advanceDevices: the endpoint is polled, then time passes in both channels.
Tick(cycles) ==
  /\ Running /\ machine # "macplus"
  /\ LET polled == ReceiveBytes(scc, "A", Polled(modem))
         sent   == Transmitted(polled["A"], cycles)
     IN  /\ scc' = TickChannels(polled, cycles)
         /\ modem' = IF sent = <<>> THEN Poll(modem) ELSE Receive(Poll(modem), sent[1].tok)
         /\ guest' = [guest EXCEPT !.took = @ + Len(sent)]
  /\ UNCHANGED <<machine, net>>

\* reset of a machine: the chip, then its buses; the driver starts again.
Reset ==
  /\ Running
  /\ scc' = Programmed(ResetScc)
  /\ modem' = ResetPeer(modem)
  /\ guest' = [guest EXCEPT !.took = guest.wrote]
  /\ UNCHANGED <<machine, net>>

\* connectTcp's wait ends with the host answering, or after a second.
DialAnswered ==
  /\ modem.cont = "dialing" /\ modem.connected
  /\ modem' = Result([modem EXCEPT !.conn = TRUE, !.mode = "Online", !.cont = "run"], "CONNECT")
  /\ UNCHANGED <<machine, scc, net, guest>>

DialGivesUp ==
  /\ modem.cont = "dialing" /\ ~modem.connected
  /\ modem' = [Result(modem, "NO CARRIER") EXCEPT !.cont = "giveUp"]
  /\ UNCHANGED <<machine, scc, net, guest>>

\* The unused connection is destroyed on return: stop, and join.
DialCloses ==
  /\ modem.cont = "giveUp"
  /\ modem' = [modem EXCEPT !.stop = TRUE, !.cont = "failed"]
  /\ UNCHANGED <<machine, scc, net, guest>>

Joining == modem.cont \in {"hangup", "zap", "reset", "dial", "failed", "exit"}

\* The join returns.
Joined ==
  /\ Joining /\ modem.pc \in {"ended", "none"}
  /\ modem' = IF modem.cont = "failed" THEN [modem EXCEPT !.cont = "run"]
              ELSE AfterHangup(modem, modem.cont)
  /\ UNCHANGED <<machine, scc, net, guest>>

\* The session is destroyed.
Shutdown ==
  /\ Running
  /\ modem' = Destroy(modem)
  /\ UNCHANGED <<machine, scc, net, guest>>

Emulation ==
  \/ \E tok \in Tokens : GuestWritesData(tok)
  \/ \E ch \in Channels : GuestReadsData(ch) \/ GuestReadsControl(ch)
  \/ \E r \in Usage.rewrites : GuestSelects(r[1], r[2])
  \/ \E r \in Usage.rewrites : r[2] = scc[r[1]].selected /\ GuestWritesRegister(r[1], r[3])
  \/ \E ch \in Channels, command \in Usage.commands : GuestCommands(ch, command)
  \/ \E cycles \in 1 .. MaxTick : Tick(cycles)
  \/ Reset \/ DialAnswered \/ DialGivesUp \/ DialCloses \/ Joined \/ Shutdown

-----------------------------------------------------------------------------
(* The network thread.                                                      *)

\* The stream of a connection starts with what the guest has queued already.
Connected ==
  /\ modem' = [modem EXCEPT !.pc = "loop", !.connected = TRUE, !.online = modem.outgoing]
  /\ net' = [net EXCEPT !.up = TRUE, !.wire = <<>>, !.heard = <<>>]

End(m, why) == [m EXCEPT !.pc = "ended", !.connected = FALSE, !.why = why]

\* listen succeeds, or connectToHost and waitForConnected do.
ThreadOpens ==
  /\ modem.pc = "open"
  /\ IF modem.kind = "listen" THEN modem' = [modem EXCEPT !.pc = "accept"] /\ UNCHANGED net
     ELSE Connected
  /\ UNCHANGED <<machine, scc, guest>>

ThreadOpenFails ==
  /\ modem.pc = "open"
  /\ modem' = End(modem, "open")
  /\ UNCHANGED <<machine, scc, net, guest>>

ThreadAccepts ==
  /\ modem.pc = "accept" /\ ~modem.stop
  /\ Connected
  /\ UNCHANGED <<machine, scc, guest>>

ThreadStops ==
  /\ modem.pc \in {"accept", "loop"} /\ modem.stop
  /\ modem' = End(modem, "stop")
  /\ net' = [net EXCEPT !.up = FALSE]
  /\ UNCHANGED <<machine, scc, guest>>

\* The queue is swapped out under its mutex.
ThreadTakes ==
  /\ modem.pc = "loop" /\ ~modem.stop
  /\ modem' = [modem EXCEPT !.pc = "write", !.batch = modem.outgoing, !.outgoing = <<>>]
  /\ UNCHANGED <<machine, scc, net, guest>>

\* A host that has hung up hears nothing of what the kernel still accepts.
ThreadWrites ==
  /\ modem.pc = "write"
  /\ modem' = [modem EXCEPT !.pc = "read", !.batch = <<>>]
  /\ net' = IF net.up THEN [net EXCEPT !.heard = @ \o modem.batch] ELSE net
  /\ UNCHANGED <<machine, scc, guest>>

\* waitForBytesWritten fails: both loops are left, listening or not.
ThreadWriteFails ==
  /\ modem.pc = "write" /\ modem.batch # <<>>
  /\ modem' = [End(modem, "write") EXCEPT !.batch = <<>>]
  /\ net' = [net EXCEPT !.up = FALSE]
  /\ UNCHANGED <<machine, scc, guest>>

\* waitForReadyRead times out.
ThreadReadsNothing ==
  /\ modem.pc = "read" /\ net.up /\ net.wire = <<>>
  /\ modem' = [modem EXCEPT !.pc = "loop"]
  /\ UNCHANGED <<machine, scc, net, guest>>

ThreadReads(k) ==
  /\ modem.pc = "read" /\ k <= Len(net.wire)
  /\ modem' = [modem EXCEPT !.pc = "enqueue", !.got = SubSeq(net.wire, 1, k)]
  /\ net' = [net EXCEPT !.wire = SubSeq(@, k + 1, Len(@))]
  /\ UNCHANGED <<machine, scc, guest>>

\* enqueueIncoming, under the mutex of the incoming queue.
ThreadEnqueues ==
  /\ modem.pc = "enqueue"
  /\ modem' = [modem EXCEPT !.pc = "test", !.incoming = @ \o modem.got, !.got = <<>>]
  /\ UNCHANGED <<machine, scc, net, guest>>

\* The state test after a read: the socket is connected, or has not noticed yet.
ThreadGoesOn ==
  /\ modem.pc = "test"
  /\ modem' = [modem EXCEPT !.pc = "loop"]
  /\ UNCHANGED <<machine, scc, net, guest>>

\* Defect: a listening modem ends with its first peer, like a dialling one.
LostEnds ==
  /\ modem.pc \in {"read", "test"} /\ ~net.up
  /\ modem' = End(modem, "lost")
  /\ UNCHANGED <<machine, scc, net, guest>>

\* The socket is no longer connected; bytes it still buffers are dropped.
ThreadFindsLost ==
  /\ modem.pc \in {"read", "test"} /\ ~net.up
  /\ modem' = IF modem.kind = "listen" THEN [modem EXCEPT !.pc = "accept", !.connected = FALSE]
              ELSE End(modem, "lost")
  /\ net' = [net EXCEPT !.wire = <<>>]
  /\ UNCHANGED <<machine, scc, guest>>

Thread ==
  \/ ThreadOpens \/ ThreadOpenFails \/ ThreadAccepts \/ ThreadStops
  \/ ThreadTakes \/ ThreadWrites \/ ThreadWriteFails
  \/ ThreadReadsNothing \/ (\E k \in 1 .. Usage.sent : ThreadReads(k))
  \/ ThreadEnqueues \/ ThreadGoesOn \/ ThreadFindsLost

-----------------------------------------------------------------------------
(* The far end.                                                             *)

HostSends ==
  /\ net.up /\ net.sent < Usage.sent
  /\ net' = [net EXCEPT !.wire = Append(@, Peer(net.sent + 1)), !.sent = @ + 1]
  /\ UNCHANGED <<machine, scc, modem, guest>>

HostHangsUp ==
  /\ net.up
  /\ net' = [net EXCEPT !.up = FALSE]
  /\ UNCHANGED <<machine, scc, modem, guest>>

Next == Emulation \/ Thread \/ HostSends \/ HostHangsUp

(* The machine executes instructions and ticks; the network thread runs,    *)
(* its waits have timeouts; so has the dial loop.  An accept needs a host.  *)
ThreadWork ==
  \/ ThreadOpens \/ ThreadOpenFails \/ ThreadStops \/ ThreadTakes \/ ThreadWrites
  \/ ThreadWriteFails \/ ThreadReadsNothing \/ (\E k \in 1 .. Usage.sent : ThreadReads(k))
  \/ ThreadEnqueues \/ ThreadGoesOn \/ ThreadFindsLost

Fairness ==
  /\ WF_vars(\E cycles \in 1 .. MaxTick : Tick(cycles))
  /\ WF_vars(ThreadWork)
  /\ WF_vars(DialAnswered \/ DialGivesUp) /\ WF_vars(DialCloses) /\ WF_vars(Joined)

Spec == Init /\ [][Next]_vars /\ Fairness

-----------------------------------------------------------------------------
(* Properties.                                                              *)

\* The numbers of the far end's bytes among items, and that they increase.
PeerNumbers(items) == {items[i].n : i \in {j \in 1 .. Len(items) : items[j].from = "peer"}}
Ascending(items) ==
  \A i, j \in 1 .. Len(items) :
    i < j /\ items[i].from = "peer" /\ items[j].from = "peer" => items[i].n < items[j].n

Unread == IF scc["A"].rxAvailable THEN <<scc["A"].data>> ELSE <<>>

Precedes(M, N) == \A m \in M, n \in N : m < n

\* Bytes of the far end travel through socket, thread, m_incoming and the one-byte
\* receiver to the guest in the order they were sent and at most once: what the
\* guest read last, the unread byte and the three queues hold increasing numbers,
\* whatever is lost on the way.
PeerBytesInOrder ==
  LET read == {guest.last}
      held == PeerNumbers(Unread)
      in   == PeerNumbers(modem.incoming)
      got  == PeerNumbers(modem.got)
      wire == PeerNumbers(net.wire)
  IN  /\ Ascending(modem.incoming) /\ Ascending(modem.got) /\ Ascending(net.wire)
      /\ Precedes(read, held) /\ Precedes(read \cup held, in)
      /\ Precedes(read \cup held \cup in, got) /\ Precedes(read \cup held \cup in \cup got, wire)

\* A driver that waits for the transmitter to be empty has every byte sent once.
TransmitOnce ==
  guest.wrote = guest.took + (IF scc["A"].txCycles > 0 THEN 1 ELSE 0)

\* What the guest sends is sent once and kept.  A byte it writes leaves the transmitter
\* once; while the far end is connected it has heard, or will hear, exactly what left it
\* on this connection and in that order: nothing is lost between m_outgoing, the
\* swapped batch and the socket, and '+' held back by HayesModem is neither lost
\* nor sent twice.
StreamKept ==
  /\ TransmitOnce
  /\ (net.up /\ modem.pc # "ended") =>
       net.heard \o modem.batch \o modem.outgoing \o Pluses(modem.plus) = modem.online

\* Once HayesModem has reported the end of a call, by OK to ATH or by NO CARRIER to a
\* byte sent online, its thread brings nothing more of that call; and nothing of a call
\* before a reset or ATZ is left in m_incoming.  hangup joins before either goes on.
CallEndsCleanly ==
  modem.kind = "hayes" =>
    /\ \A i \in DOMAIN modem.got : modem.got[i].call > modem.over
    /\ \A i \in DOMAIN modem.incoming :
         modem.incoming[i].from = "peer" => modem.incoming[i].call > modem.clean

\* WR0's reset highest interrupt clears the source RR2 named and no other, although
\* modifiedInterruptVector and resetHighestInterrupt each have their own priority order.
HighestReset ==
  [][\A ch \in Channels : GuestCommands(ch, "resetHighest") =>
       Pending(scc)' = Pending(scc) \ {InterruptVector(scc)}]_vars

\* The emulation thread never waits for ever for a network thread: hanging up, resetting,
\* dialling again and destroying the endpoint all return.
JoinReturns == (Joining \/ modem.cont \in {"dialing", "giveUp"}) ~> (Running \/ modem.cont = "gone")

\* On a machine that ticks its SCC a byte written to it leaves the transmitter, also while
\* the endpoint makes the emulation thread wait for the network.
TransmitCompletes ==
  (machine # "macplus" /\ scc["A"].txCycles > 0) ~> (scc["A"].txCycles = 0 \/ modem.cont = "gone")

\* A listening NullModem whose peer has gone listens again, unless a write failed or it is
\* being destroyed.
ListenerReturns ==
  (modem.kind = "listen" /\ modem.pc \in {"read", "test"} /\ ~net.up)
     ~> (modem.pc = "accept" \/ modem.why \in {"stop", "write"})

\* Nobody on the line waits for ever: not the emulation thread for a network thread or a
\* call, not a written byte for the transmitter, not a listener for its departed peer.
WaitsEnd == JoinReturns /\ TransmitCompletes /\ ListenerReturns
=============================================================================
