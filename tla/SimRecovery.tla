---------------------------- MODULE SimRecovery ----------------------------
(***************************************************************************)
(* Recovery of the modem's control port (runtimehost/simtransport/        *)
(* recovery.go) and its use by the identity reads of the runtime's modem   *)
(* access adapter (runtimehost/types.go).  An error is the set of signals  *)
(* the classifiers look for in it: a typed class or status word, a timeout *)
(* flag, and the phrases of its text.                                      *)
(***************************************************************************)
EXTENDS Integers, Sequences, FiniteSets

CONSTANTS Errors,          \* the errors an identity read may end with
          PortTypes,       \* configured control-port types
          MaxAttempts      \* attempts passed to the recovery planner
VARIABLES radio,           \* the modem's radio: "on" or "off" (+CFUN)
          access           \* the identity read in progress
recoveryVars == <<radio, access>>

None == "none"
Hung == "control_port_hung"
SIMBusy == "sim_busy"
FileNotFound == "file_not_found"
EmptyEF == "empty_ef"
Malformed == "malformed_reply"
ATError == "at_error"

-----------------------------------------------------------------------------
(* Status words.                                                           *)

isFileNotFoundStatus(sw1, sw2) ==
  \/ sw1 = 106 /\ sw2 \in {130, 131}
  \/ sw2 = 106 /\ sw1 \in {130, 131}
  \/ sw1 = 148 /\ sw2 \in {4, 8}

isSIMBusyStatus(sw1, sw2) ==
  \/ sw1 \in {147, 101}
  \/ <<sw1, sw2>> \in {<<98, 131>>, <<100, 0>>, <<111, 0>>}

isMalformedAPDUStatus(sw1, sw2) ==
  sw1 \in {103, 107, 108, 109, 110} \/ (sw1 = 106 /\ sw2 = 134)

apduLeFromSW2(sw2) == IF sw2 = 0 THEN 256 ELSE sw2

PlanAPDUStatusRecovery(sw1, sw2) ==
  CASE sw1 = 108 -> [action |-> "correct_le", le |-> apduLeFromSW2(sw2)]
    [] sw1 \in {97, 159} -> [action |-> "get_response", le |-> apduLeFromSW2(sw2)]
    [] OTHER -> [action |-> None, le |-> 0]

StatusRecoveryClass(sw1, sw2) ==
  CASE sw1 = 144 /\ sw2 = 0 -> None
    [] PlanAPDUStatusRecovery(sw1, sw2).action # None -> Malformed
    [] isFileNotFoundStatus(sw1, sw2) -> FileNotFound
    [] sw1 = 98 /\ sw2 = 130 -> EmptyEF
    [] isSIMBusyStatus(sw1, sw2) -> SIMBusy
    [] isMalformedAPDUStatus(sw1, sw2) -> Malformed
    [] OTHER -> None

classForAPDUStatusSW1(sw1) ==
  CASE sw1 \in {98, 99} -> "warning"
    [] sw1 \in {100, 101, 111} -> "execution_error"
    [] sw1 \in {103, 104, 105, 106, 107, 109, 110} -> "checking_error"
    [] OTHER -> "unknown"

DescribeAPDUStatus(sw1, sw2) ==
  CASE sw1 = 144 /\ sw2 = 0 -> "success"
    [] sw1 \in {97, 159, 108} -> "procedure"
    [] OTHER -> classForAPDUStatusSW1(sw1)

-----------------------------------------------------------------------------
(* Classification of errors and the plan for a class.                      *)

cmeErrorRecoveryClass(words) ==
  IF "cme" \notin words THEN None
  ELSE IF "busy" \in words THEN SIMBusy ELSE ATError

classifyErrorText(words, status) ==
  CASE words = {} -> None
    [] "empty" \in words -> EmptyEF
    [] status # None -> status
    [] cmeErrorRecoveryClass(words) # None -> cmeErrorRecoveryClass(words)
    [] "busy" \in words -> SIMBusy
    [] words \cap {"timeout", "parse"} # {} -> Hung
    [] "malformed" \in words -> Malformed
    [] "at error" \in words -> ATError
    [] OTHER -> None

ClassifyError(err) ==
  CASE err.words = {} -> None
    [] err.class # None -> err.class
    [] err.status # <<>> /\ StatusRecoveryClass(err.status[1], err.status[2]) # None ->
         StatusRecoveryClass(err.status[1], err.status[2])
    [] err.timeout -> Hung
    [] OTHER -> classifyErrorText(err.words,
                  IF err.status = <<>> THEN None
                  ELSE StatusRecoveryClass(err.status[1], err.status[2]))

needsATControlRecovery(class) == class \in {Hung, ATError}

Step(command, goesOn, vendor) == [command |-> command, goesOn |-> goesOn, vendor |-> vendor]

PlanATControlRecovery(class, attempt) ==
  CASE ~needsATControlRecovery(class) -> <<>>
    [] attempt <= 0 -> <<Step("CFUN=0", TRUE, FALSE), Step("CFUN=1", FALSE, FALSE)>>
    [] attempt = 1 -> <<Step("CFUN=1,1", FALSE, FALSE)>>
    [] OTHER -> <<Step("RESET", FALSE, TRUE)>>

planQCFGControlPortReconfigure ==
  <<Step("QCFG?", TRUE, TRUE), Step("QCFG=0", FALSE, TRUE), Step("CFUN=1,1", FALSE, TRUE)>>

RecommendRecovery(class, attempt) ==
  [action |-> CASE class = Hung -> "at_control_recovery"
                [] class = SIMBusy -> "retry_later"
                [] class \in {EmptyEF, FileNotFound} -> "refresh_identity_source"
                [] class = Malformed -> "repair_apdu_exchange"
                [] class = ATError -> "inspect_at_error"
                [] OTHER -> None,
   plan |-> PlanATControlRecovery(class, attempt)]

commandsOf(steps) == {steps[i].command : i \in DOMAIN steps}

planResetsModem(steps) == commandsOf(steps) \cap {"RESET", "CFUN=1,1"} # {}

modeForATControlPlan(steps) ==
  CASE steps = <<>> -> None
    [] "RESET" \in commandsOf(steps) -> "vendor_reset"
    [] "CFUN=1,1" \in commandsOf(steps) -> "cfun_reset"
    [] OTHER -> "cfun_cycle"

\* The caller is always an identity read: the failure words of the text decide.
identityFailure(err) == "identity failure" \in err.words

shouldSuggestQCFGReconfigure(err, port, class, attempt) ==
  /\ needsATControlRecovery(class)
  /\ \/ "qcfg" \in err.words
     \/ port = "qmi" /\ (attempt > 0 \/ (identityFailure(err) /\ "qmi unavailable" \in err.words))

ClassifyControlPortRecovery(err, port, tried) ==
  LET attempt == IF tried < 0 THEN 0 ELSE tried
      class == IF ClassifyError(err) = None /\ identityFailure(err) THEN Hung
               ELSE ClassifyError(err)
      rec == RecommendRecovery(class, attempt)
      qcfg == shouldSuggestQCFGReconfigure(err, port, class, attempt)
  IN [class |-> class, recoverable |-> class # None,
      action |-> IF qcfg THEN "reconfigure_control_port" ELSE rec.action,
      mode |-> CASE qcfg -> "qcfg_reconfigure"
                 [] class = SIMBusy -> "retry_later"
                 [] OTHER -> modeForATControlPlan(rec.plan),
      plan |-> rec.plan,
      reconfigure |-> IF qcfg THEN planQCFGControlPortReconfigure ELSE <<>>,
      resets |-> qcfg \/ planResetsModem(rec.plan)]

ControlPortRecoverySteps(decision) ==
  IF decision.reconfigure # <<>> THEN decision.reconfigure ELSE decision.plan

ExecutableATRecoverySteps(steps, vendorAllowed) ==
  SelectSeq(steps, LAMBDA s : ~s.vendor \/ vendorAllowed)

-----------------------------------------------------------------------------
(* An identity read with one recovery, GetISIMIdentity: read, recover and  *)
(* read again.  The plan runs with a background context, which nothing     *)
(* cancels.                                                                *)

NoAccess == [pc |-> "idle", steps |-> <<>>, ran |-> FALSE, result |-> "none"]

RecoveryInit == radio = "on" /\ access = NoAccess

Finish(result) ==
  access' = [access EXCEPT !.pc = "idle", !.steps = <<>>, !.result = result]

GetISIMIdentity ==
  /\ access.pc = "idle"
  /\ access' = [NoAccess EXCEPT !.pc = "read"]
  /\ UNCHANGED radio

ReadSucceeds ==
  /\ access.pc \in {"read", "reread"} /\ radio = "on"
  /\ Finish("identity") /\ UNCHANGED radio

\* The first failure is classified and, when an executable step exists, its
\* plan is run; the failure of the second read is final.
recoverSIMAccess(err, port, vendorAllowed) ==
  /\ access.pc = "read"
  /\ LET decision == ClassifyControlPortRecovery(err, port, 0)
         steps == ControlPortRecoverySteps(decision)
     IN IF ~decision.recoverable \/ ExecutableATRecoverySteps(steps, vendorAllowed) = <<>>
        THEN Finish("error")
        ELSE access' = [access EXCEPT !.pc = "recovering",
                                      !.steps = ExecutableATRecoverySteps(steps, vendorAllowed)]
  /\ UNCHANGED radio

RereadFails == access.pc = "reread" /\ Finish("error") /\ UNCHANGED radio

\* What a command does to the radio when the modem executes it (external).
RadioAfter(command) ==
  CASE command = "CFUN=0" -> "off"
    [] command \in {"CFUN=1", "CFUN=1,1", "RESET"} -> "on"
    [] OTHER -> radio

\* One step of RunATRecoveryPlan: a command that fails may still have been
\* executed by the modem.
RunATRecoveryPlan ==
  /\ access.pc = "recovering" /\ access.steps # <<>>
  /\ LET step == Head(access.steps)
     IN \E ok \in BOOLEAN :
          /\ radio' \in (IF ok THEN {RadioAfter(step.command)} ELSE {radio, RadioAfter(step.command)})
          /\ IF ok \/ step.goesOn
             THEN access' = [access EXCEPT !.steps = Tail(access.steps), !.ran = TRUE]
             ELSE Finish("recovery failed")

RecoveryDone ==
  /\ access.pc = "recovering" /\ access.steps = <<>>
  /\ access' = [access EXCEPT !.pc = "reread"]
  /\ UNCHANGED radio

\* The modem or its user turns the radio back on.
RadioRestored == radio = "off" /\ access.pc = "idle" /\ radio' = "on" /\ UNCHANGED access

RecoveryNext ==
  \/ GetISIMIdentity \/ ReadSucceeds \/ RereadFails \/ RunATRecoveryPlan \/ RecoveryDone
  \/ RadioRestored
  \/ \E err \in Errors, port \in PortTypes, vendor \in BOOLEAN : recoverSIMAccess(err, port, vendor)

RecoverySpec == RecoveryInit /\ [][RecoveryNext]_recoveryVars

(* A recovery plan that ran to its end leaves the radio on: the modem is   *)
(* read again, and the adapter is idle with the radio off only when the    *)
(* plan itself reported its failure (recovery.go, RunATRecoveryPlan, and   *)
(* types.go, GetISIMIdentity).                                             *)
RadioLeftOn ==
  /\ access.pc = "reread" => radio = "on"
  /\ access.pc = "idle" /\ access.result \in {"identity", "error"} /\ access.ran => radio = "on"

(* What a decision says about itself agrees with the steps it would run:   *)
(* a decision that says it resets the modem has a resetting step, only a   *)
(* decision for a recoverable class runs anything, and a later attempt     *)
(* never plans a milder step (ClassifyControlPortRecovery).                *)
DecisionHonest(err, port, attempt) ==
  LET d == ClassifyControlPortRecovery(err, port, attempt)
      steps == ControlPortRecoverySteps(d)
      later == ClassifyControlPortRecovery(err, port, attempt + 1)
  IN /\ d.resets = planResetsModem(steps)
     /\ steps # <<>> => d.recoverable /\ d.mode \notin {None, "retry_later"}
     /\ d.resets => later.resets
     /\ d.class = later.class

(* Every status word the plan answers with another command is described as *)
(* a procedure and never as the end of the exchange, and no success is     *)
(* given a class to recover from.                                          *)
StatusTold(sw1, sw2) ==
  LET told == DescribeAPDUStatus(sw1, sw2) IN
  /\ (told = "procedure") = (PlanAPDUStatusRecovery(sw1, sw2).action # None)
  /\ told = "success" => StatusRecoveryClass(sw1, sw2) = None
=============================================================================
