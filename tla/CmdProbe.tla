------------------------------ MODULE CmdProbe ------------------------------
(***************************************************************************)
(* One run of the cmd probe: start the command, wait for its status, the   *)
(* timeout or the end of the context, whichever the select takes, and      *)
(* judge.  The process and the goroutine of go-cmd that hands over its     *)
(* status run beside it.                                                   *)
(*                                                                         *)
(* Of the output only the answers of the regexes are kept: does Regex      *)
(* match, what does the capture group then hold.  A capture regex is the   *)
(* set of texts it matches; a text that a field of the result points to is *)
(* {text}, a field that is nil {}.  What an old watcher does to the handle *)
(* meanwhile is BackgroundProbe's subject.                                 *)
(***************************************************************************)
EXTENDS Integers, Runners

CONSTANTS Codes,          \* exit codes
          Empty, Texts    \* the empty string and what else a group may hold

ASSUME CmdAssumption == Codes \subseteq Nat /\ 0 \in Codes /\ Empty \notin Texts

Captures == Texts \cup {Empty}

VARIABLES
    cfg,      \* Config, and the options StayBackground and Expect
    pc,       \* Runner: "start", "wait", "returned"
    handle,   \* c.cmd # nil
    proc,     \* "none", "starting", "running", "exited", "unstarted"
    out,      \* its exit code and output
    status,   \* the channel: does it hold the status
    exit,     \* finished.Exit
    judged,   \* has Runner judged an output
    ret,      \* what Runner left behind
    data      \* and its ResultData

vars == <<cfg, pc, handle, proc, out, status, exit, judged, ret, data>>

(* compileRegex refuses every other combination; what a configuration does *)
(* not use is FALSE or {} here.                                            *)
Configs ==
    {c \in [expect : BOOLEAN, stay : BOOLEAN, exit : Codes, regex : BOOLEAN,
            required : BOOLEAN, invert : BOOLEAN, group : BOOLEAN, captureRegex : BOOLEAN,
            matching : SUBSET Captures, captureInvert : BOOLEAN] :
        /\ c.required \/ c.invert \/ c.group => c.regex
        /\ ~(c.invert /\ c.group)
        /\ c.captureRegex => c.group
        /\ c.captureInvert \/ c.matching # {} => c.captureRegex}

Outputs == {o \in [exit : Codes, matches : BOOLEAN, text : Captures] :
               /\ o.matches => cfg.regex
               /\ o.text # Empty => o.matches /\ cfg.group}

NoOutput == [exit |-> 0, matches |-> FALSE, text |-> Empty]

(* Without a command that is still held, or with the one of a run before.  *)
Init == /\ cfg \in Configs
        /\ pc = "start"
        /\ handle \in BOOLEAN
        /\ proc = "none"
        /\ out = NoOutput
        /\ status = FALSE
        /\ exit = 0
        /\ judged = FALSE
        /\ ret = [succ |-> FALSE, keeps |-> handle, err |-> FALSE, watch |-> FALSE]
        /\ data = [exit |-> 0, regex |-> {}, capture |-> {}, captureMatches |-> {}]

-----------------------------------------------------------------------------
(* The command, with the goroutine of go-cmd that waits for it *)

Launch ==
    /\ proc = "starting"
    /\ proc' = "running"
    /\ UNCHANGED <<cfg, pc, handle, out, status, exit, judged, ret, data>>

CannotStart ==
    /\ proc = "starting"
    /\ proc' = "unstarted"
    /\ status' = TRUE
    /\ UNCHANGED <<cfg, pc, handle, out, exit, judged, ret, data>>

Exit ==
    /\ proc = "running"
    /\ proc' = "exited"
    /\ out' \in Outputs
    /\ status' = TRUE
    /\ UNCHANGED <<cfg, pc, handle, exit, judged, ret, data>>

-----------------------------------------------------------------------------
(* Runner *)

Plain(code) == [exit |-> code, regex |-> {}, capture |-> {}, captureMatches |-> {}]

PutIf(asked, v) == IF asked THEN {v} ELSE {}

(* Mutant: the capture is left out when the regex did not match.           *)
ResultDataIfMatched(code, matches, text, textMatches) ==
    [exit |-> code, regex |-> PutIf(cfg.regex, matches),
     capture |-> PutIf(cfg.group /\ matches, text),
     captureMatches |-> PutIf(cfg.captureRegex, textMatches)]

ResultData(code, matches, text, textMatches) ==
    [exit |-> code, regex |-> PutIf(cfg.regex, matches), capture |-> PutIf(cfg.group, text),
     captureMatches |-> PutIf(cfg.captureRegex, textMatches)]

Return(succ, keeps, err, watch, result) ==
    /\ pc' = "returned"
    /\ handle' = keeps
    /\ ret' = [succ |-> succ, keeps |-> keeps, err |-> err, watch |-> watch]
    /\ data' = result

RefuseStart ==
    /\ pc = "start"
    /\ handle
    /\ Return(FALSE, TRUE, TRUE, FALSE, Plain(0))
    /\ UNCHANGED <<cfg, proc, out, status, exit, judged>>

Start ==
    /\ pc = "start"
    /\ ~handle
    /\ handle' = TRUE
    /\ proc' = "starting"
    /\ pc' = "wait"
    /\ UNCHANGED <<cfg, out, status, exit, judged, ret, data>>

(* The loop waits for a status whose Runtime is not 0, so it takes that of *)
(* a command that could not be started for none, and waits on.             *)
SwallowStatus ==
    /\ pc = "wait"
    /\ status
    /\ proc = "unstarted"
    /\ status' = FALSE
    /\ exit' = -1
    /\ UNCHANGED <<cfg, pc, handle, proc, out, judged, ret, data>>

(* checkStdout *)
Capture == IF out.matches /\ cfg.group THEN out.text ELSE Empty
CaptureMatched == Capture \in cfg.matching
CodeError == out.exit # cfg.exit

(* Mutant: the regex decides even when it is not required.                 *)
OutputErrorAlways ==
    \/ CodeError
    \/ cfg.regex /\ out.matches = cfg.invert
    \/ cfg.captureRegex /\ CaptureMatched = cfg.captureInvert

OutputError ==
    \/ CodeError
    \/ cfg.regex /\ out.matches = cfg.invert /\ cfg.required
    \/ cfg.captureRegex /\ CaptureMatched = cfg.captureInvert

(* Exited: with StayBackground always a failure, otherwise judged.  The    *)
(* handle of the exited command stays either way.                          *)
TakeStatus ==
    /\ pc = "wait"
    /\ status
    /\ proc = "exited"
    /\ status' = FALSE
    /\ exit' = out.exit
    /\ judged' = ~cfg.stay
    /\ IF cfg.stay
       THEN Return(FALSE, TRUE, TRUE, FALSE, Plain(out.exit))
       ELSE Return(OutputError # cfg.expect, TRUE, OutputError, FALSE,
                   ResultData(out.exit, out.matches, Capture, CaptureMatched))
    /\ UNCHANGED <<cfg, proc, out>>

(* Mutant: a command that was interrupted is finished without an error.    *)
GiveUpSilently ==
    Return(FALSE, FALSE, FALSE, FALSE, ResultData(exit, FALSE, Empty, FALSE))

(* Finish stops the command and drops the handle.                          *)
GiveUp == Return(FALSE, FALSE, TRUE, FALSE, ResultData(exit, FALSE, Empty, FALSE))

(* Mutant: the timer is forgotten, a status or the context is needed.      *)
TimeoutAfterStatus ==
    /\ pc = "wait"
    /\ status
    /\ IF cfg.stay THEN Return(TRUE, TRUE, FALSE, TRUE, Plain(exit)) ELSE GiveUp
    /\ UNCHANGED <<cfg, proc, out, status, exit, judged>>

(* The timer, possibly although the status is there as well.  With         *)
(* StayBackground that is the success, and a watcher takes over.           *)
Timeout ==
    /\ pc = "wait"
    /\ IF cfg.stay THEN Return(TRUE, TRUE, FALSE, TRUE, Plain(exit)) ELSE GiveUp
    /\ UNCHANGED <<cfg, proc, out, status, exit, judged>>

(* The context is cancelled; with StayBackground the command runs on.      *)
Cancel ==
    /\ pc = "wait"
    /\ IF cfg.stay THEN Return(FALSE, TRUE, TRUE, FALSE, Plain(exit)) ELSE GiveUp
    /\ UNCHANGED <<cfg, proc, out, status, exit, judged>>

-----------------------------------------------------------------------------
Process == Launch \/ CannotStart \/ Exit
Runner == RefuseStart \/ Start \/ SwallowStatus \/ TakeStatus \/ Timeout

Next == Process \/ Runner \/ Cancel

(* The timer fires.  No command need exit and no context be cancelled.     *)
Fairness == WF_vars(RefuseStart \/ Start) /\ WF_vars(Timeout)

Spec == Init /\ [][Next]_vars /\ Fairness

-----------------------------------------------------------------------------
(* README.md on exitCode, regex and captureRegex: what it takes for the    *)
(* check of the output to be positive.                                     *)
Positive ==
    /\ out.exit = cfg.exit
    /\ cfg.required => out.matches # cfg.invert
    /\ cfg.captureRegex =>
         IF cfg.captureInvert THEN out.text \notin cfg.matching ELSE out.text \in cfg.matching

(* A command whose exit was seen is judged by its output alone, and the    *)
(* error that makes ProbeHandler finish the probe is set exactly when the  *)
(* output was not positive.  One that was not to stay and was never judged *)
(* (refused, timed out, cancelled) fails, also where expect is false.      *)
VerdictByOutput ==
    pc = "returned" =>
        /\ judged => (ret.succ <=> Positive = cfg.expect) /\ (ret.err <=> ~Positive)
        /\ ~judged /\ ~cfg.stay => ~ret.succ /\ ret.err

(* README.md:256, and cmd.go:109: a command that was to stay succeeds only *)
(* if it has not ended by then.  It does not hold: the select may take the *)
(* timer although the status is there, and takes the status of a command   *)
(* that could not be started for none.                                     *)
StillAlive ==
    [][cfg.stay /\ pc' = "returned" /\ ret'.succ => proc \notin {"exited", "unstarted"}]_vars

(* README.md: regex is exported, and the capture also when regex or group  *)
(* did not match, as an empty string; so too when the command was stopped. *)
(* With StayBackground neither is.                                         *)
FieldsExported ==
    pc = "returned" /\ proc # "none" /\ ~cfg.stay =>
        /\ data.regex = PutIf(cfg.regex, judged /\ out.matches)
        /\ data.capture = PutIf(cfg.group, IF judged THEN out.text ELSE Empty)
        /\ data.captureMatches # {} <=> cfg.captureRegex
        /\ judged => data.exit = out.exit

(* The runner keeps the contract that Script assumes of it: a handle is    *)
(* dropped only with a failure, a watcher comes only with a success.       *)
ContractKept ==
    pc = "returned" =>
        CASE proc = "none" -> Refused(ret)
          [] proc # "none" /\ cfg.stay -> CmdStayReturn(TRUE, ret)
          [] OTHER -> CmdReturn(TRUE, ret)

(* Runner returns within the timeout, also when the command could not be   *)
(* started or never exits.                                                 *)
RunnerReturns == <>(pc = "returned")

=============================================================================
