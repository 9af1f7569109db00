------------------------------ MODULE Runners ------------------------------
(***************************************************************************)
(* What ProbeHandler.Start sees of a runner: how it can return.  r.succ is *)
(* the success it returns, r.keeps whether a handle of a process is left   *)
(* (c.cmd # nil), r.err whether it called SetError, r.watch whether it has *)
(* started a watcher goroutine.  The handle of the operators is the state  *)
(* of c.cmd while the runner waits.  Script assumes these contracts;       *)
(* CmdProbe is checked to keep the ones of cmd.                            *)
(***************************************************************************)

Returns == [succ : BOOLEAN, keeps : BOOLEAN, err : BOOLEAN, watch : BOOLEAN]

(* The runner would not start a second process beside the one it holds.    *)
Refused(r) == r.keeps /\ ~r.watch /\ ~r.succ /\ r.err

(* web, ping and traceroute.                                               *)
PlainReturn(r) == ~r.keeps /\ ~r.watch

(* The command exited, whatever the verdict, or it was stopped in time.    *)
CmdReturn(handle, r) ==
    /\ ~r.watch
    /\ r.keeps = handle \/ (~r.keeps /\ ~r.succ /\ r.err)

(* With StayBackground an exit within the timeout is a failure.  A runner  *)
(* whose handle an old watcher has dropped fails too, by a panic that      *)
(* Start recovers or because that watcher stopped its process.             *)
CmdStayReturn(handle, r) ==
    IF handle
    THEN r.keeps /\ r.watch = r.succ /\ r.err = ~r.succ
    ELSE ~r.keeps /\ ~r.watch /\ ~r.succ

(* Connected or not; without StayBackground the probe is finished anyway.  *)
VpnReturn(r) == ~r.keeps /\ ~r.watch /\ r.err = ~r.succ

(* A process that openvpnStart had to stop leaves its handle behind, a     *)
(* wrong configuration leaves none.                                        *)
VpnStayReturn(r) == r.watch = r.succ /\ r.err = ~r.succ /\ (r.succ => r.keeps)

=============================================================================
