----------------------------- MODULE MCIOManager -----------------------------
(* Small instances of IOManager for TLC.                                   *)
EXTENDS IOManager

CONSTANTS f1, f2, r1, r2, r3, p1, p2

NoFd       == {}
FirstFd    == {f1}
TwoFds     == {f1, f2}
ThreeRegs  == {r1, r2, r3}
NoReg      == {}
OnePoller  == {p1}
TwoPollers == {p1, p2}
OneDirection   == [fd \in Fds |-> IF fd = f1 THEN {"READ"} ELSE {"WRITE"}]
BothDirections == [fd \in Fds |-> Event]
=============================================================================
