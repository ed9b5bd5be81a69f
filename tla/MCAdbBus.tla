------------------------------ MODULE MCAdbBus ------------------------------
(* The bytes are TALK register 0 of the keyboard (0x2c) and the mouse       *)
(* (0x3c), LISTEN to the keyboard (0x2b), FLUSH of the keyboard (0x25, also *)
(* the address 5 a LISTEN gives it) and RESET (0x00, also the LISTEN mode   *)
(* that moves a device).                                                    *)
EXTENDS AdbBus

MCBytes == {44, 60, 43, 37, 0}
MCListenFrame == << 37, 0 >>

Using(who, bytes, commands, inputs, most) ==
  [guest |-> who, bytes |-> bytes, commands |-> commands, inputs |-> inputs, edges |-> most]

MCUses ==
  { Using("any", {44}, 0, {"key"}, 2),                              \* programs that keep no protocol
    Using("any", {43, 37, 0}, 0, {"key"}, 1),
    Using("manager", {44}, 1, {"key"}, 4),                          \* typing
    Using("manager", {60}, 1, {"button", "motion"}, 2),             \* clicking and dragging
    Using("manager", {44, 60}, 2, {"key", "motion"}, 1),            \* one device, then the other
    Using("manager", {43, 44, 0}, 2, {"key", "clear", "reset"}, 1) }   \* moved, reset, restarted
=============================================================================
