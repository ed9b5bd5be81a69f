---------------------------- MODULE MCSerialLine ----------------------------
(* Asynchronous mode with receive and transmit interrupts on channel A, as  *)
(* the serial driver sets it, and LocalTalk's timer interrupt on channel B. *)
(* Interrupts are played with on a port with nothing attached; the modems'  *)
(* drivers poll.  The terminal program dials, talks, escapes and hangs up.  *)
EXTENDS SerialLine

MCProgram == [ch \in Channels |-> [r \in Registers |->
                CASE ch = "A" /\ r = 1  -> {"rx", "tx"}
                  [] ch = "A" /\ r = 4  -> {"async"}
                  [] ch = "A" /\ r = 9  -> {"master"}
                  [] ch = "B" /\ r = 1  -> {"ext"}
                  [] ch = "B" /\ r = 15 -> {"zeroCount"}
                  [] OTHER -> {}]]

Polling(script, sent) == [script |-> script, sent |-> sent, commands |-> {}, rewrites |-> {}]

MCUse == [k \in PeerKinds |->
            CASE k = "none"  -> [script |-> << {"a"}, {"a"}, {"a"} >>, sent |-> 0,
                                 commands |-> WR0Commands,
                                 rewrites |-> {<<"B", 14, {"timer"}>>, <<"A", 14, {"loopback"}>>}]
              [] k = "hayes" -> Polling(<< {"ATD"}, {"a", "+", "ATQ1"}, {"a", "+"},
                                           {"a", "ATH", "ATZ", "ATO", "ATD"} >>, 1)
              [] OTHER       -> Polling(<< {"a"}, {"b"}, {"a"} >>, 2)]
=============================================================================
