----------------------------- MODULE CmdProofs -----------------------------
(***************************************************************************)
(* Proofs about CmdProbe, for any exit codes and any texts a capture group *)
(* may hold: the three invariants of its run.                              *)
(***************************************************************************)
EXTENDS CmdProbe, TLAPS

(* The output is one the configuration can see.                            *)
OutputInv ==
    /\ cfg \in Configs
    /\ out \in Outputs

(* Only the exit of a command that was awaited is judged, and what was     *)
(* judged changes no more.                                                 *)
PhaseInv ==
    /\ pc \in {"start", "wait", "returned"}
    /\ judged \in BOOLEAN
    /\ judged => proc = "exited" /\ pc = "returned"
    /\ pc = "start" => proc = "none"
    /\ pc = "wait" => proc # "none"
    /\ status => proc \in {"exited", "unstarted"}

(* What a run that is over has left behind.                                *)
Verdicts == VerdictByOutput /\ FieldsExported /\ ContractKept

-----------------------------------------------------------------------------
LEMMA OutputInit == Init => OutputInv
<1> SUFFICES ASSUME Init PROVE OutputInv
  OBVIOUS
<1>1. NoOutput \in Outputs
  BY CmdAssumption DEF NoOutput, Outputs, Captures
<1> QED BY <1>1 DEF Init, OutputInv

LEMMA OutputStep == OutputInv /\ [Next]_vars => OutputInv'
<1> SUFFICES ASSUME OutputInv, [Next]_vars
             PROVE  OutputInv'
  OBVIOUS
<1>1. cfg' = cfg
  BY DEF Next, Process, Runner, Launch, CannotStart, Exit, RefuseStart, Start,
         SwallowStatus, TakeStatus, Timeout, Cancel, vars
<1>2. out' = out \/ out' \in Outputs
  BY DEF Next, Process, Runner, Launch, CannotStart, Exit, RefuseStart, Start,
         SwallowStatus, TakeStatus, Timeout, Cancel, vars
<1>3. Outputs' = Outputs
  BY <1>1 DEF Outputs
<1> QED BY <1>1, <1>2, <1>3 DEF OutputInv

LEMMA PhaseStep == PhaseInv /\ cfg.stay \in BOOLEAN /\ [Next]_vars => PhaseInv'
<1> SUFFICES ASSUME PhaseInv, cfg.stay \in BOOLEAN, [Next]_vars
             PROVE  PhaseInv'
  OBVIOUS
<1>1. CASE Process
  BY <1>1 DEF Process, Launch, CannotStart, Exit, PhaseInv
<1>2. CASE RefuseStart \/ Start \/ SwallowStatus
  BY <1>2 DEF RefuseStart, Start, SwallowStatus, Return, PhaseInv
<1>3. CASE TakeStatus
  BY <1>3 DEF TakeStatus, Return, PhaseInv
<1>4. CASE Timeout \/ Cancel
  <2>1. pc = "wait" /\ pc' = "returned" /\ UNCHANGED <<proc, status, judged>>
    BY <1>4 DEF Timeout, Cancel, GiveUp, Return
  <2> QED BY <2>1 DEF PhaseInv
<1>5. CASE UNCHANGED vars
  BY <1>5 DEF vars, PhaseInv
<1> QED BY <1>1, <1>2, <1>3, <1>4, <1>5 DEF Next, Runner

(* The error that Runner sets is the opposite of what README.md calls a    *)
(* positive check.                                                         *)
LEMMA OutputIsJudged == OutputInv => (OutputError <=> ~Positive)
<1> SUFFICES ASSUME OutputInv PROVE OutputError <=> ~Positive
  OBVIOUS
<1>1. Capture = out.text
  BY DEF OutputInv, Outputs, Capture
<1>2. CaptureMatched <=> out.text \in cfg.matching
  BY <1>1 DEF CaptureMatched
<1>3. cfg.captureInvert \in BOOLEAN /\ cfg.invert \in BOOLEAN /\ out.matches \in BOOLEAN
  BY DEF OutputInv, Configs, Outputs
<1>4. cfg.required => cfg.regex
  BY DEF OutputInv, Configs
<1> QED BY <1>2, <1>3, <1>4 DEF OutputError, Positive, CodeError, CaptureMatched

LEMMA VerdictsStep == OutputInv /\ PhaseInv /\ Verdicts /\ [Next]_vars => Verdicts'
<1> SUFFICES ASSUME OutputInv, PhaseInv, Verdicts, [Next]_vars
             PROVE  Verdicts'
  OBVIOUS
<1>1. CASE Process
  <2>1. /\ proc \in {"starting", "running"}
        /\ proc' # "none"
        /\ UNCHANGED <<cfg, pc, judged, ret, data>>
    BY <1>1 DEF Process, Launch, CannotStart, Exit
  <2>2. ~judged
    BY <2>1 DEF PhaseInv
  <2> QED BY <2>1, <2>2 DEF Verdicts, VerdictByOutput, FieldsExported, ContractKept
<1>2. CASE Start \/ SwallowStatus
  <2>1. pc' = "wait"
    BY <1>2 DEF Start, SwallowStatus, PhaseInv
  <2> QED BY <2>1 DEF Verdicts, VerdictByOutput, FieldsExported, ContractKept
<1>3. CASE RefuseStart
  <2>1. proc' = "none" /\ ~judged'
    BY <1>3 DEF RefuseStart, PhaseInv
  <2>2. ret' = [succ |-> FALSE, keeps |-> TRUE, err |-> TRUE, watch |-> FALSE]
    BY <1>3 DEF RefuseStart, Return
  <2> QED BY <2>1, <2>2 DEF Verdicts, VerdictByOutput, FieldsExported, ContractKept, Refused
<1>4. CASE TakeStatus
  <2>1. proc' = "exited" /\ UNCHANGED <<cfg, out>> /\ judged' = ~cfg.stay
    BY <1>4 DEF TakeStatus
  <2>2. CASE cfg.stay
    <3>1. ret' = [succ |-> FALSE, keeps |-> TRUE, err |-> TRUE, watch |-> FALSE]
      BY <1>4, <2>2 DEF TakeStatus, Return
    <3> QED BY <2>1, <2>2, <3>1
            DEF Verdicts, VerdictByOutput, FieldsExported, ContractKept, CmdStayReturn
  <2>3. CASE ~cfg.stay
    <3>1. /\ ret' = [succ |-> OutputError # cfg.expect, keeps |-> TRUE,
                     err |-> OutputError, watch |-> FALSE]
          /\ data' = ResultData(out.exit, out.matches, Capture, CaptureMatched)
      BY <1>4, <2>3 DEF TakeStatus, Return
    <3>2. OutputError <=> ~Positive
      BY OutputIsJudged
    <3>3. Positive' <=> Positive
      BY <2>1 DEF Positive
    <3>4. VerdictByOutput'
      <4>1. judged'
        BY <2>1, <2>3
      <4>2. ret'.succ <=> (OutputError # cfg.expect)
        BY <3>1
      <4>3. ret'.err <=> OutputError
        BY <3>1
      <4>4. cfg.expect \in BOOLEAN /\ cfg'.expect = cfg.expect
        BY <2>1 DEF OutputInv, Configs
      <4>5. ret'.succ <=> (Positive' = cfg'.expect)
        <5>1. CASE cfg.expect = TRUE
          BY <3>2, <3>3, <4>2, <4>4, <5>1, Zenon
        <5>2. CASE cfg.expect = FALSE
          <6>1. (OutputError # cfg.expect) <=> OutputError
            BY <5>2 DEF OutputError
          <6>2. (Positive' = cfg'.expect) <=> ~Positive'
            BY <4>4, <5>2 DEF Positive
          <6> QED BY <3>2, <3>3, <4>2, <6>1, <6>2
        <5> QED BY <4>4, <5>1, <5>2
      <4>6. ret'.err <=> ~Positive'
        BY <3>2, <3>3, <4>3
      <4> QED BY <4>1, <4>5, <4>6 DEF VerdictByOutput
    <3>5. FieldsExported'
      <4>1. judged' /\ data'.exit = out'.exit
        BY <2>1, <2>3, <3>1 DEF ResultData
      <4>2. data'.regex = PutIf(cfg.regex, out.matches) /\ data'.capture = PutIf(cfg.group, Capture)
        BY <3>1 DEF ResultData
      <4>3. data'.captureMatches # {} <=> cfg.captureRegex
        BY <3>1 DEF ResultData, PutIf
      <4>4. Capture = out.text /\ out.matches \in BOOLEAN
        BY DEF OutputInv, Outputs, Capture
      <4> QED BY <2>1, <4>1, <4>2, <4>3, <4>4 DEF FieldsExported, PutIf
    <3>6. ContractKept'
      BY <2>1, <2>3, <3>1 DEF ContractKept, CmdReturn
    <3> QED BY <3>4, <3>5, <3>6 DEF Verdicts
  <2> QED BY <2>2, <2>3
<1>5. CASE Timeout \/ Cancel
  <2>0. pc = "wait" /\ UNCHANGED <<cfg, proc, judged>>
    BY <1>5 DEF Timeout, Cancel
  <2>1. proc' # "none" /\ ~judged' /\ cfg' = cfg
    BY <2>0 DEF PhaseInv
  <2>2. CASE cfg.stay
    <3>1. \/ ret' = [succ |-> TRUE, keeps |-> TRUE, err |-> FALSE, watch |-> TRUE]
          \/ ret' = [succ |-> FALSE, keeps |-> TRUE, err |-> TRUE, watch |-> FALSE]
      BY <1>5, <2>2 DEF Timeout, Cancel, GiveUp, Return
    <3>2. /\ ret'.keeps /\ ret'.watch = ret'.succ /\ ret'.err = ~ret'.succ
          /\ ret'.succ <=> ret'.watch
      <4>1. CASE ret' = [succ |-> TRUE, keeps |-> TRUE, err |-> FALSE, watch |-> TRUE]
        BY <4>1
      <4>2. CASE ret' = [succ |-> FALSE, keeps |-> TRUE, err |-> TRUE, watch |-> FALSE]
        BY <4>2
      <4> QED BY <3>1, <4>1, <4>2
    <3>3. VerdictByOutput'
      BY <2>1, <2>2 DEF VerdictByOutput
    <3>4. FieldsExported'
      BY <2>1, <2>2 DEF FieldsExported
    <3>5. ContractKept'
      BY <2>1, <2>2, <3>2 DEF ContractKept, CmdStayReturn
    <3> QED BY <3>3, <3>4, <3>5 DEF Verdicts
  <2>3. CASE ~cfg.stay
    <3>1. /\ ret' = [succ |-> FALSE, keeps |-> FALSE, err |-> TRUE, watch |-> FALSE]
          /\ data' = ResultData(exit, FALSE, Empty, FALSE)
      BY <1>5, <2>3 DEF Timeout, Cancel, GiveUp, Return
    <3>2. FieldsExported'
      <4>1. /\ data'.regex = PutIf(cfg.regex, FALSE)
            /\ data'.capture = PutIf(cfg.group, Empty)
            /\ data'.captureMatches # {} <=> cfg.captureRegex
        BY <3>1 DEF ResultData, PutIf
      <4> QED BY <2>1, <4>1 DEF FieldsExported, PutIf
    <3>3. VerdictByOutput'
      BY <2>1, <3>1 DEF VerdictByOutput
    <3>4. ContractKept'
      BY <2>1, <2>3, <3>1 DEF ContractKept, CmdReturn
    <3> QED BY <3>2, <3>3, <3>4 DEF Verdicts
  <2> QED BY <2>2, <2>3
<1>6. CASE UNCHANGED vars
  BY <1>6 DEF vars, Verdicts, VerdictByOutput, FieldsExported, ContractKept, Positive
<1> QED BY <1>1, <1>2, <1>3, <1>4, <1>5, <1>6 DEF Next, Runner

-----------------------------------------------------------------------------
LEMMA Invariance == Spec => [](OutputInv /\ PhaseInv /\ Verdicts)
<1>1. Init => PhaseInv /\ Verdicts
  BY DEF Init, PhaseInv, Verdicts, VerdictByOutput, FieldsExported, ContractKept
<1>2. OutputInv => cfg.stay \in BOOLEAN
  BY DEF OutputInv, Configs
<1> QED BY <1>1, <1>2, OutputInit, OutputStep, PhaseStep, VerdictsStep, PTL DEF Spec

(* A command whose exit was seen is judged by its output alone, whatever   *)
(* else was ready; one that was not to stay and was not judged is a        *)
(* failure (cmd.go: Runner).                                               *)
THEOREM VerdictIsByOutput == Spec => []VerdictByOutput
BY Invariance, PTL DEF Verdicts

(* What ResultData promises is exported of every run (cmd.go: resultData). *)
THEOREM FieldsAreExported == Spec => []FieldsExported
BY Invariance, PTL DEF Verdicts

(* Script may assume of a cmd probe what Runners says.                     *)
THEOREM RunnerKeepsContract == Spec => []ContractKept
BY Invariance, PTL DEF Verdicts

=============================================================================
