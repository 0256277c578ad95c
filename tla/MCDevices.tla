------------------------------ MODULE MCDevices ------------------------------
(***************************************************************************)
(* Devices with one line in use: the one whose driver the boot started.    *)
(***************************************************************************)
EXTENDS Devices

MCWait == [d \in Dev |-> IF d = "serial" THEN 1 ELSE 2]
MCBoot == {{"ps2"}, {"serial"}, {"vga"}}

OneLine ==
  /\ written > 0 => pid["serial"] > 0
  /\ pressed > 0 => pid["ps2"] > 0
  /\ presents > 0 => pid["vga"] > 0

MCSpec == Init /\ [][Next /\ OneLine']_vars /\ Fairness

===============================================================================
