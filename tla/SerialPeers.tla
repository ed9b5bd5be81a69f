----------------------------- MODULE SerialPeers -----------------------------
(***************************************************************************)
(* The serial endpoints with a network thread (devices/modem): NullModem   *)
(* in its listen and dial modes, and HayesModem with its TcpConnection.    *)
(* Both threads run the same loop: take what the guest sent, write it to   *)
(* the socket, read the socket, queue what came for the guest's next poll. *)
(*                                                                         *)
(* An endpoint and its thread are one record, m; a method run by the       *)
(* emulated CPU is an operator on it.  HayesModem joins its thread and     *)
(* waits for a dialled host inside such a method, so cont holds what the   *)
(* CPU still has to do; while it is not "run" the guest stands still.      *)
(*                                                                         *)
(* Abstractions.  A command line is one token, handled when its carriage   *)
(* return arrives; typed says that other characters stand before it, which *)
(* makes it an unknown command.  Telnet filtering, SLIP and PPP framing    *)
(* and the phone book are left out: ATD dials a TCP host.                  *)
(***************************************************************************)
EXTENDS Naturals, Sequences

CONSTANTS Data,       \* characters that are neither '+' nor commands
          PollLimit,  \* maxPollBytes: 256 in the code
          EscapeLength\* '+' characters that leave online mode: 3 in the code

ASSUME PeerAssumption == PollLimit \in Nat \ {0} /\ EscapeLength \in Nat \ {0}

\* What is attached: nothing, NullModem in either mode, HayesModem.
Kinds == {"none", "listen", "dial", "hayes"}
Lines == {"AT", "ATZ", "ATE0", "ATE1", "ATQ0", "ATQ1", "ATH", "ATO", "ATD", "ATX"}
Tokens == Data \union {"+"} \union Lines

\* What travels to the guest: peer bytes are numbered, and carry the number of
\* the call they belong to; so do the modem's result codes.
Item(from, tok, n, call) == [from |-> from, tok |-> tok, n |-> n, call |-> call]
ItemType == [from : {"peer", "modem", "guest"},
             tok : Tokens \union {"", "OK", "ERROR", "CONNECT", "NO CARRIER"},
             n : Nat, call : Nat]

(* incoming, outgoing: m_incoming, m_outgoing.  mode to plus: HayesModem's  *)
(* members.  conn: m_connection is set.  pc, batch, got, stop, connected:   *)
(* the thread, the bytes it holds in either direction, m_stop, m_connected. *)
(* call, online, clean, over, why are history: calls made, what the guest   *)
(* sent on this connection, the call of the last reset, the last call whose *)
(* end was reported, and why the thread ended.                              *)
NewPeer(kind) ==
  [kind |-> kind, incoming |-> <<>>, outgoing |-> <<>>, mode |-> "Command",
   echo |-> TRUE, quiet |-> FALSE, typed |-> FALSE, plus |-> 0, conn |-> FALSE,
   pc |-> IF kind \in {"listen", "dial"} THEN "open" ELSE "none", batch |-> <<>>, got |-> <<>>,
   stop |-> FALSE, connected |-> FALSE, cont |-> "run", call |-> 0,
   online |-> <<>>, clean |-> 0, over |-> 0, why |-> ""]

PeerType ==
  [kind : Kinds, incoming : Seq(ItemType), outgoing : Seq(Tokens), mode : {"Command", "Online"},
   echo : BOOLEAN, quiet : BOOLEAN, typed : BOOLEAN, plus : 0 .. (EscapeLength - 1), conn : BOOLEAN,
   pc : {"none", "open", "accept", "loop", "write", "read", "enqueue", "test", "ended"},
   batch : Seq(Tokens), got : Seq(ItemType), stop : BOOLEAN, connected : BOOLEAN,
   cont : {"run", "hangup", "zap", "reset", "dial", "dialing", "giveUp", "failed", "exit", "gone"},
   call : Nat, online : Seq(Tokens), clean : Nat, over : Nat, why : {"", "stop", "open", "write", "lost"}]

\* NullModem
Plain(m) == m.kind \in {"listen", "dial"}

-----------------------------------------------------------------------------
(* What the CPU does in an endpoint.                                        *)

Polled(m) == SubSeq(m.incoming, 1, IF Len(m.incoming) < PollLimit THEN Len(m.incoming) ELSE PollLimit)

\* Defect: the front of the queue is read and not removed.
PollPeeks(m) == m

Poll(m) == [m EXCEPT !.incoming = SubSeq(@, Len(Polled(m)) + 1, Len(@))]

Enqueue(m, item) == [m EXCEPT !.incoming = Append(@, item)]

\* result: nothing is said when the modem is quiet.
Result(m, text) == IF m.quiet THEN m ELSE Enqueue(m, Item("modem", text, 0, m.call))

\* TcpConnection::send, and NullModem::receiveByte.
Send(m, tokens) == [m EXCEPT !.outgoing = @ \o tokens, !.online = @ \o tokens]

Pluses(n) == [i \in 1 .. n |-> "+"]

\* HayesModem::reset after its hangup.
ClearModem(m) ==
  [m EXCEPT !.mode = "Command", !.echo = TRUE, !.quiet = FALSE, !.typed = FALSE, !.plus = 0,
            !.incoming = <<>>, !.clean = m.call]

\* The modem holds no connection: what follows the hangup, by its caller.
AfterHangup(m, caller) ==
  LET idle == [m EXCEPT !.mode = "Command", !.conn = FALSE, !.cont = "run", !.over = m.call]
  IN  CASE caller = "hangup" -> Result(idle, "OK")
        [] caller = "zap"    -> Result(ClearModem(idle), "OK")
        [] caller = "reset"  -> ClearModem(idle)
        [] caller = "dial"   -> [idle EXCEPT !.cont = "dialing", !.call = @ + 1, !.pc = "open",
                                             !.stop = FALSE, !.connected = FALSE, !.why = "",
                                             !.outgoing = <<>>, !.online = <<>>]
        [] caller = "exit"   -> [idle EXCEPT !.cont = "gone"]

\* Defect: the caller goes on without joining the thread.
HangupNoJoin(m, caller) ==
  AfterHangup([m EXCEPT !.stop = TRUE], caller)

\* Defect: m_stop is not set before the join.
HangupNoStop(m, caller) ==
  IF m.conn THEN [m EXCEPT !.cont = caller] ELSE AfterHangup(m, caller)

\* hangup: close and join the connection if there is one.
Hangup(m, caller) ==
  IF m.conn THEN [m EXCEPT !.stop = TRUE, !.cont = caller] ELSE AfterHangup(m, caller)

\* A line with other characters before it is no command the modem knows.
HandleCommand(m, line) ==
  IF m.typed THEN Result([m EXCEPT !.typed = FALSE], "ERROR") ELSE
  CASE line = "AT"   -> Result(m, "OK")
    [] line = "ATZ"  -> Hangup(m, "zap")
    [] line = "ATE0" -> Result([m EXCEPT !.echo = FALSE], "OK")
    [] line = "ATE1" -> Result([m EXCEPT !.echo = TRUE], "OK")
    [] line = "ATQ0" -> Result([m EXCEPT !.quiet = FALSE], "OK")
    [] line = "ATQ1" -> [m EXCEPT !.quiet = TRUE]
    [] line = "ATH"  -> Hangup(m, "hangup")
    [] line = "ATO"  -> IF m.conn /\ m.connected
                        THEN Result([m EXCEPT !.mode = "Online"], "CONNECT")
                        ELSE Result(m, "NO CARRIER")
    [] line = "ATD"  -> Hangup(m, "dial")
    [] OTHER         -> Result(m, "ERROR")

ReceiveCommandByte(m, tok) ==
  LET echoed == IF m.echo THEN Enqueue(m, Item("guest", tok, 0, m.call)) ELSE m
  IN  IF tok \in Lines THEN HandleCommand(echoed, tok) ELSE [echoed EXCEPT !.typed = TRUE]

\* Defect: the escape sequence is not recognised.
EscapeMissed(m, tok) ==
  IF tok = "+" THEN [m EXCEPT !.plus = @ + 1, !.online = Append(@, "+")]
  ELSE [m EXCEPT !.plus = 0, !.online = Append(@, tok),
                 !.outgoing = @ \o Append(Pluses(m.plus), tok)]

\* Defect: the pluses held back are dropped when another byte follows them.
PlusesDropped(m, tok) ==
  IF tok = "+" THEN [m EXCEPT !.plus = @ + 1, !.online = Append(@, "+")]
  ELSE [m EXCEPT !.plus = 0, !.online = Append(@, tok), !.outgoing = Append(@, tok)]

\* online, the history of what is meant for the peer, loses a completed escape.
ReceiveOnlineByte(m, tok) ==
  CASE tok = "+" /\ m.plus + 1 = EscapeLength ->
         Result([m EXCEPT !.mode = "Command", !.plus = 0,
                          !.online = SubSeq(@, 1, Len(@) - m.plus)], "OK")
    [] tok = "+" /\ m.plus + 1 # EscapeLength -> [m EXCEPT !.plus = @ + 1, !.online = Append(@, "+")]
    [] tok # "+" /\ m.conn /\ m.connected ->
         [m EXCEPT !.plus = 0, !.online = Append(@, tok),
                   !.outgoing = @ \o Append(Pluses(m.plus), tok)]
    [] OTHER -> Result([m EXCEPT !.plus = 0, !.mode = "Command", !.over = m.call], "NO CARRIER")

\* SerialBus::transmit
Receive(m, tok) ==
  CASE m.kind = "none"    -> m
    [] Plain(m)           -> Send(m, <<tok>>)
    [] m.kind = "hayes" /\ m.mode = "Online" -> ReceiveOnlineByte(m, tok)
    [] OTHER              -> ReceiveCommandByte(m, tok)

\* SerialBus::reset.  NullModem::reset leaves the bytes its thread holds alone.
ResetPeer(m) ==
  IF Plain(m)
  THEN [m EXCEPT !.outgoing = <<>>, !.incoming = <<>>,
                 !.online = SubSeq(@, 1, Len(@) - Len(m.outgoing))]
  ELSE Hangup(m, "reset")

\* The destructors: stop and join.
Destroy(m) ==
  IF Plain(m) THEN [m EXCEPT !.stop = TRUE, !.cont = "exit"] ELSE Hangup(m, "exit")
=============================================================================
