--------------------------- MODULE MCChannelWait ---------------------------
(* Instances of ChannelWait for TLC.  The first reader shares its CPU with    *)
(* the closer, the senders and the timer run elsewhere, so that local and     *)
(* remote wakes both happen.                                                  *)
EXTENDS ChannelWait

CONSTANTS r1, r2, s1, s2, closer, timer

MCCpuOf == [x \in {r1, r2, s1, s2, closer, timer} |->
              CASE x \in {r1, closer} -> 0 [] x \in {r2, s1} -> 1 [] OTHER -> 2]

Call(o, t, m) == [op |-> o, timed |-> t, room |-> m]
\* sys_channel_read with a small buffer and with or without a deadline,
\* sys_channel_peek, and recv_blocking_timeout_status.
AllCalls == {Call("fits", FALSE, FALSE), Call("fits", TRUE, FALSE),
             Call("peek", FALSE, FALSE), Call("status", TRUE, FALSE)}
PlainReads == {Call("fits", FALSE, TRUE)}
=============================================================================
