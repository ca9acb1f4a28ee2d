----------------------------- MODULE MCSessions -----------------------------
(* Instances of Sessions for TLC: IOKit with frames of one and a half        *)
(* transfers, IOKit with one frame to a transfer (the only one NextZC is     *)
(* for), and WinUSB with a vendor that appends no trailer.                   *)
EXTENDS Sessions

Large  == [host |-> "iokit",  frame |-> 3, trailer |-> 1, chunk |-> 2]
Small  == [host |-> "iokit",  frame |-> 2, trailer |-> 1, chunk |-> 3]
WinUSB == [host |-> "winusb", frame |-> 3, trailer |-> 0, chunk |-> 2]
AllConfigs == {Large, Small, WinUSB}
WinUSBOnly == {WinUSB}
=============================================================================
