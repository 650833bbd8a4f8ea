---------------------------- MODULE BringUpProofs ----------------------------
(***************************************************************************)
(* Proofs about bring-up, for every combination of failing steps, and      *)
(* about one of its steps, the check of the guest's pages, for every table *)
(* size, page size, CR3, content of the tables and layout.                 *)
(*                                                                         *)
(* Bring-up: the inductive invariant BInv says, step by step, which part   *)
(* of the firmware's CPU state is in place.                                *)
(*                                                                         *)
(* The check: GInv says what the walk under way has read on its way down,  *)
(* what the rows read say of the pages already walked, and that a result   *)
(* is right about them.                                                    *)
(***************************************************************************)
EXTENDS BringUp, GuestMappings, TLAPS

\* Groups of steps: up to VMXON, up to the launch, after VMXOFF, and in main.
BeforeVmxon == {"activate", "enter", "vmxon"}
BeforeGuest == BeforeVmxon \cup {"create", "prepare", "check", "launch"}
AfterLeave == {"resume_firmware", "report", "main", "timer", "wait", "return", "returned"}
InMain == {"main", "timer", "wait", "return", "returned"}

FirstFailure == IF failures = <<>> THEN "ok" ELSE failures[1]

\* Where the tables are.
Tables ==
  /\ pc = "activate" => cpu.gdtr = "firmware"
  /\ pc \in BeforeGuest => cpu.idtr = "firmware"
  /\ pc \in {"vmclear", "leave", "resume_firmware", "report"} =>
       cpu.idtr = "firmware" /\ cpu.gdtr = "firmware"
  /\ pc \in InMain =>
       /\ cpu.idtr = "firmware"
       /\ result # "ActivationVerificationFailed" => cpu.gdtr = "firmware"
  /\ phase = "BootServices" => cpu.gdtr # "exit" /\ cpu.idtr # "exit"

\* Where VMX operation is on, and where it can only be on by VMXOFF's failure.
VmxOperation ==
  /\ pc \in BeforeVmxon => cpu.vmx = "off" /\ cpu.vmcs = "none"
  /\ pc \in AfterLeave /\ (\A i \in DOMAIN failures : failures[i] # "Vmxoff") =>
       cpu.vmx = "off"
  /\ cpu.vmx = "root" => original_cr = firmware_cr

\* Which phases and interrupt flags go with which steps.
Interrupts ==
  /\ phase = "VmExit" =>
       pc \in {"passthrough", "tables", "vmclear", "leave", "resume_firmware"}
  /\ pc \in BeforeVmxon => firmware_if = 0
  /\ pc \in {"report"} \cup InMain /\ firmware_if = 1 => cpu.iflag = 1

\* How the results at hand relate to the failures so far.
Results ==
  /\ (IF result = "ok" THEN left ELSE result) = FirstFailure
  /\ pc \in BeforeGuest => result = "ok"
  /\ pc \in BeforeGuest \cup {"passthrough", "tables", "vmclear"} => left = "ok"
  /\ pc \in InMain => result = FirstFailure
  /\ pc \in InMain \ {"main"} => (status = "SUCCESS" <=> result = "ok")
  /\ pc \in {"activate", "vmxon", "create"} => step = 1
  /\ pc = "enter" => step \in 1..7
  /\ pc = "prepare" => step \in 1..9

(* The inductive invariant of bring-up.                                    *)
BInv ==
  /\ BringUpTypeOK
  /\ InterruptsOffInExitPhase
  /\ VmxeTracksVmx
  /\ VmxInstructionsLegal
  /\ Tables
  /\ VmxOperation
  /\ Interrupts
  /\ Results

-----------------------------------------------------------------------------
(* A log! line changes no register, can only turn IF on, and leaves it     *)
(* alone outside the boot-services phase.                                  *)
LEMMA LogLine ==
  ASSUME NEW c \in Cpu, NEW d \in log_line(c)
  PROVE  /\ d \in Cpu
         /\ d.gdtr = c.gdtr /\ d.idtr = c.idtr /\ d.vmx = c.vmx
         /\ d.cr = c.cr /\ d.vmcs = c.vmcs
         /\ c.iflag = 1 => d.iflag = 1
         /\ phase # "BootServices" => d.iflag = c.iflag
<1> QED
  BY DEF log_line, console_allowed, Cpu

(* The failing steps of enter_vmx and prepare_vmcs are errors of their own. *)
LEMMA StepErrors ==
  /\ DOMAIN EnterSteps = 1..7 /\ Len(EnterSteps) = 7
  /\ DOMAIN PrepareSteps = 1..9 /\ Len(PrepareSteps) = 9
  /\ \A i \in 1..7 : EnterSteps[i] \in Errors /\ EnterSteps[i] # "ActivationVerificationFailed"
  /\ \A i \in 1..9 : PrepareSteps[i] \in Errors
  /\ "ok" \notin Errors
<1>1. /\ DOMAIN EnterSteps = 1..7 /\ Len(EnterSteps) = 7
      /\ \A i \in 1..7 : EnterSteps[i] # "ok" /\ EnterSteps[i] # "ActivationVerificationFailed"
  BY DEF EnterSteps
<1>2. /\ DOMAIN PrepareSteps = 1..9 /\ Len(PrepareSteps) = 9
      /\ \A i \in 1..9 : PrepareSteps[i] # "ok"
  BY DEF PrepareSteps
<1> QED
  BY <1>1, <1>2 DEF Errors

(* Recording a failure keeps the first one.                                *)
LEMMA FirstKept ==
  ASSUME failures \in Seq(Errors), NEW e \in Errors, failures' = Append(failures, e)
  PROVE  /\ failures' \in Seq(Errors)
         /\ FirstFailure' = IF FirstFailure = "ok" THEN e ELSE FirstFailure
         /\ \E i \in DOMAIN failures' : failures'[i] = e
         /\ \A i \in DOMAIN failures : i \in DOMAIN failures' /\ failures'[i] = failures[i]
<1>1. /\ Len(failures') = Len(failures) + 1 /\ failures' \in Seq(Errors)
      /\ \A i \in 1..Len(failures) : failures'[i] = failures[i]
      /\ failures'[Len(failures) + 1] = e
      /\ DOMAIN failures' = 1..(Len(failures) + 1) /\ DOMAIN failures = 1..Len(failures)
      /\ Len(failures) \in Nat
  OBVIOUS
<1>2. failures' # <<>>
  BY <1>1
<1>3. CASE failures = <<>>
  BY <1>1, <1>2, <1>3 DEF FirstFailure
<1>4. CASE failures # <<>>
  <2>1. Len(failures) >= 1 /\ failures[1] \in Errors /\ failures'[1] = failures[1]
    BY <1>1, <1>4
  <2>2. "ok" \notin Errors
    BY StepErrors
  <2> QED
    BY <1>1, <1>2, <1>4, <2>1, <2>2 DEF FirstFailure
<1> QED
  BY <1>3, <1>4

-----------------------------------------------------------------------------
(* The state main starts from satisfies the invariant.                     *)
LEMMA BInit == Init => BInv
<1> SUFFICES ASSUME Init PROVE BInv
  OBVIOUS
<1>1. cpu \in Cpu /\ cpu.gdtr = "firmware" /\ cpu.idtr = "firmware"
      /\ cpu.vmx = "off" /\ cpu.cr = firmware_cr /\ cpu.vmcs = "none"
      /\ original_cr \in Crs /\ firmware_cr \in Crs
  BY DEF Init, Cpu
<1>2. failures \in Seq(Errors) /\ FirstFailure = "ok"
  BY DEF Init, FirstFailure
<1>3. BringUpTypeOK
  <2>1. firmware_if \in {0, 1}
    BY DEF Init
  <2>2. /\ pc = "activate" /\ step \in 1..10 /\ phase = "BootServices"
        /\ result = "ok" /\ left = "ok" /\ status = "none"
    BY DEF Init
  <2> QED
    BY <1>1, <1>2, <2>1, <2>2 DEF BringUpTypeOK
<1>4. InterruptsOffInExitPhase
  BY <1>1 DEF Init, InterruptsOffInExitPhase
<1>5. VmxeTracksVmx /\ VmxInstructionsLegal /\ VmxOperation
  BY <1>1 DEF Init, VmxeTracksVmx, VmxInstructionsLegal, VmxOperation, BeforeVmxon, AfterLeave
<1>6. Tables
  BY <1>1 DEF Init, Tables, BeforeVmxon, BeforeGuest, InMain
<1>7. Interrupts
  BY <1>1 DEF Init, Interrupts, BeforeVmxon, InMain
<1>8. Results
  BY <1>1, <1>2, Zenon DEF Init, Results, BeforeVmxon, BeforeGuest, InMain
<1> QED
  BY <1>3, <1>4, <1>5, <1>6, <1>7, <1>8 DEF BInv

(* The steps up to VMXON keep the invariant.                               *)
LEMMA EntryKeeps ==
  ASSUME BInv, activate_host_tables \/ enter_vmx \/ vmxon
  PROVE  BInv'
<1> USE DEF saved, BInv, BringUpTypeOK, InterruptsOffInExitPhase, VmxeTracksVmx,
            VmxInstructionsLegal, Tables, VmxOperation, Interrupts, Results,
            BeforeVmxon, BeforeGuest, AfterLeave, InMain
<1>1. CASE activate_host_tables
  <2>1. PICK outcome \in activate(cpu) :
          /\ cpu' \in log_line(outcome.cpu)
          /\ IF outcome.error = "ok" THEN Succeeds /\ pc' = "enter"
                                     ELSE Fails(outcome.error) /\ pc' = "main"
    BY <1>1 DEF activate_host_tables
  <2>2. /\ outcome.cpu \in Cpu
        /\ outcome.cpu.idtr = cpu.idtr /\ outcome.cpu.vmx = cpu.vmx
        /\ outcome.cpu.cr = cpu.cr /\ outcome.cpu.vmcs = cpu.vmcs
        /\ outcome.cpu.gdtr \in {cpu.gdtr, "host"}
        /\ outcome.error \in {"Gdt", "ActivationVerificationFailed", "ok"}
        /\ outcome.error = "Gdt" => outcome.cpu = cpu
    BY <2>1, SMTT(30) DEF activate, Cpu
  <2>3. /\ cpu' \in Cpu
        /\ cpu'.idtr = cpu.idtr /\ cpu'.vmx = cpu.vmx
        /\ cpu'.cr = cpu.cr /\ cpu'.vmcs = cpu.vmcs
        /\ cpu'.gdtr = outcome.cpu.gdtr
    BY <2>1, <2>2, LogLine
  <2>4. outcome.error = "Gdt" => cpu'.gdtr = "firmware"
    BY <1>1, <2>2, <2>3, ZenonT(60) DEF activate_host_tables
  <2>5. CASE outcome.error = "ok"
    <3>1. FirstFailure' = FirstFailure /\ pc' = "enter" /\ UNCHANGED <<result, failures>>
      BY <2>1, <2>5, ZenonT(60) DEF Succeeds, FirstFailure
    <3> QED
      BY <1>1, <2>2, <2>3, <3>1 DEF activate_host_tables
  <2>6. CASE outcome.error # "ok"
    <3>1. outcome.error \in Errors
      BY <2>2, <2>6, SMTT(30) DEF Errors
    <3>2. failures' = Append(failures, outcome.error) /\ result' = outcome.error /\ pc' = "main"
      BY <2>1, <2>6 DEF Fails
    <3>3. /\ failures' \in Seq(Errors)
          /\ FirstFailure' = IF FirstFailure = "ok" THEN outcome.error ELSE FirstFailure
      BY <3>1, <3>2, FirstKept
    <3> QED
      BY <1>1, <2>2, <2>3, <2>4, <2>6, <3>1, <3>2, <3>3, StepErrors, SMTT(30) DEF activate_host_tables
  <2> QED
    BY <2>5, <2>6
<1>2. ASSUME NEW e \in Errors, e # "ActivationVerificationFailed", EnterFails(e, cpu),
             pc \in BeforeVmxon, firmware_if' \in {firmware_if, cpu.iflag}, UNCHANGED original_cr
      PROVE  BInv'
  <2>1. /\ cpu' \in Cpu /\ cpu'.gdtr = "firmware"
        /\ cpu'.idtr = cpu.idtr /\ cpu'.vmx = cpu.vmx
        /\ cpu'.cr = cpu.cr /\ cpu'.vmcs = cpu.vmcs /\ cpu'.iflag = cpu.iflag
    BY <1>2 DEF EnterFails, Cpu
  <2>2. /\ failures' \in Seq(Errors)
        /\ FirstFailure' = IF FirstFailure = "ok" THEN e ELSE FirstFailure
    BY <1>2, FirstKept DEF EnterFails, Fails
  <2>3. cpu.iflag \in {0, 1}
    BY Zenon DEF Cpu
  <2> QED
    BY <1>2, <2>1, <2>2, <2>3, StepErrors DEF EnterFails, Fails
<1>3. CASE enter_vmx
  <2>1. CASE EnterFails(EnterSteps[step], cpu)
    BY <1>2, <1>3, <2>1, StepErrors, Zenon DEF enter_vmx
  <2>2. CASE Succeeds /\ cpu' \in log_line(cpu) /\ Advance(EnterSteps, "enter", "vmxon")
             /\ UNCHANGED <<phase, left, status, firmware_cr>>
    <3>1. /\ cpu' \in Cpu
          /\ cpu'.gdtr = cpu.gdtr /\ cpu'.idtr = cpu.idtr /\ cpu'.vmx = cpu.vmx
          /\ cpu'.cr = cpu.cr /\ cpu'.vmcs = cpu.vmcs
          /\ cpu.iflag = 1 => cpu'.iflag = 1
          /\ phase # "BootServices" => cpu'.iflag = cpu.iflag
      BY <2>2, LogLine
    <3>2. FirstFailure' = FirstFailure
      BY <2>2, Zenon DEF Succeeds, FirstFailure
    <3>3. /\ pc' \in {"enter", "vmxon"} /\ step' \in 1..10
          /\ pc' = "enter" => step' \in 1..7
          /\ pc' = "vmxon" => step' = 1
      BY <1>3, <2>2, StepErrors, SMTT(30) DEF enter_vmx, Advance
    <3> QED
      BY <1>3, <2>2, <3>1, <3>2, <3>3, ZenonT(60) DEF enter_vmx, Succeeds
  <2> QED
    BY <1>3, <2>1, <2>2, Zenon DEF enter_vmx
<1>4. CASE vmxon
  <2>1. PICK outcome \in enter_vmx_root_operation(cpu) :
          IF outcome.error = "ok"
          THEN /\ Succeeds
               /\ cpu' \in log_line(outcome.cpu)
               /\ original_cr' = cpu.cr
               /\ pc' = "create"
               /\ UNCHANGED <<step, phase, left, status, firmware_cr>>
          ELSE EnterFails(outcome.error, outcome.cpu) /\ UNCHANGED original_cr
    BY <1>4, Zenon DEF vmxon
  <2>a. PICK ready : ready = apply_fixed_bits(enable_vmxe(cpu.cr))
    OBVIOUS
  <2>b. /\ ready \in Crs
        /\ "required" \in ready.cr0 /\ {"required", "VMXE"} \subseteq ready.cr4
        /\ "forbidden" \notin ready.cr0 \cup ready.cr4
    <3>1. cpu.cr \in Crs
      BY ZenonT(60) DEF Cpu
    <3> QED
      BY <2>a, <3>1 DEF apply_fixed_bits, enable_vmxe, Crs, CrBits
  <2>2. CASE outcome.error = "ok"
    <3>1. outcome.cpu = [cpu EXCEPT !.cr = ready, !.vmx = "root"]
      BY <2>1, <2>2, <2>a DEF enter_vmx_root_operation, Cpu
    <3>2. /\ outcome.cpu \in Cpu /\ outcome.cpu.cr = ready /\ outcome.cpu.vmx = "root"
          /\ outcome.cpu.gdtr = cpu.gdtr /\ outcome.cpu.idtr = cpu.idtr
          /\ outcome.cpu.vmcs = cpu.vmcs
      BY <2>b, <3>1, ZenonT(60) DEF Cpu
    <3>3. /\ cpu' \in Cpu /\ cpu'.cr = ready /\ cpu'.vmx = "root"
          /\ cpu'.gdtr = cpu.gdtr /\ cpu'.idtr = cpu.idtr /\ cpu'.vmcs = cpu.vmcs
      BY <2>1, <2>2, <3>2, LogLine
    <3>6. original_cr' = firmware_cr' /\ original_cr' \in Crs /\ firmware_cr' \in Crs
      BY <1>4, <2>1, <2>2, ZenonT(60) DEF vmxon
    <3>4. FirstFailure' = FirstFailure
      BY <2>1, <2>2, ZenonT(60) DEF Succeeds, FirstFailure
    <3>5. cpu.iflag \in {0, 1}
      BY Zenon DEF Cpu
    <3> QED
      BY <1>4, <2>1, <2>2, <2>b, <3>3, <3>4, <3>5, <3>6 DEF vmxon, Succeeds
  <2>3. CASE outcome.error # "ok"
    <3>1. outcome.error = "VmxOn" /\ outcome.cpu = cpu /\ "VmxOn" \in Errors
      <4>1. ASSUME NEW x PROVE [[cpu EXCEPT !.cr = x] EXCEPT !.cr = cpu.cr] = cpu
        BY Zenon DEF Cpu
      <4>2. outcome.error = "VmxOn" /\
              \/ outcome.cpu = cpu
              \/ outcome.cpu = [[cpu EXCEPT !.cr = apply_fixed_bits(enable_vmxe(@))]
                                 EXCEPT !.cr = cpu.cr]
        BY <2>1, <2>3 DEF enter_vmx_root_operation
      <4>3. "VmxOn" \in Errors
        BY DEF Errors
      <4> QED
        BY <4>1, <4>2, <4>3, ZenonT(40)
    <3> QED
      BY <1>2, <1>4, <2>1, <2>3, <3>1, Zenon DEF vmxon
  <2> QED
    BY <2>2, <2>3, Zenon
<1> QED
  BY <1>1, <1>3, <1>4, ZenonT(60)

(* Creating and filling in the VMCS, the table check and the guest's run   *)
(* keep the invariant.                                                     *)
LEMMA GuestKeeps ==
  ASSUME BInv,
         create_current \/ prepare_vmcs \/ check_host_tables_preserved \/ launch
           \/ passthrough_state
  PROVE  BInv'
<1> USE DEF saved, BInv, BringUpTypeOK, InterruptsOffInExitPhase, VmxeTracksVmx,
            VmxInstructionsLegal, Tables, VmxOperation, Interrupts, Results,
            BeforeVmxon, BeforeGuest, AfterLeave, InMain
<1>1. ASSUME NEW e \in Errors, Fails(e)
      PROVE  /\ result' = e /\ failures' \in Seq(Errors) /\ e # "ok"
             /\ FirstFailure' = IF FirstFailure = "ok" THEN e ELSE FirstFailure
  BY <1>1, FirstKept, StepErrors, Zenon DEF Fails
<1>2. Succeeds => FirstFailure' = FirstFailure
  BY ZenonT(60) DEF Succeeds, FirstFailure
<1>3. CASE create_current
  <2>1. CASE Succeeds /\ cpu' = [cpu EXCEPT !.vmcs = "current"] /\ pc' = "prepare"
    <3>1. /\ cpu' \in Cpu /\ cpu'.vmcs = "current"
          /\ cpu'.gdtr = cpu.gdtr /\ cpu'.idtr = cpu.idtr /\ cpu'.vmx = cpu.vmx
          /\ cpu'.cr = cpu.cr /\ cpu'.iflag = cpu.iflag
      BY <2>1 DEF Cpu
    <3> QED
      BY <1>2, <1>3, <2>1, <3>1 DEF create_current, Succeeds
  <2>2. CASE Fails("creation") /\ pc' = "tables" /\ UNCHANGED cpu
    <3>1. "creation" \in Errors
      BY Zenon DEF Errors
    <3> QED
      BY <1>1, <1>3, <2>2, <3>1 DEF create_current
  <2> QED
    BY <1>3, <2>1, <2>2 DEF create_current
<1>4. CASE prepare_vmcs
  <2>1. CASE Succeeds /\ cpu' \in log_line(cpu) /\ Advance(PrepareSteps, "prepare", "check")
    <3>1. /\ cpu' \in Cpu
          /\ cpu'.gdtr = cpu.gdtr /\ cpu'.idtr = cpu.idtr /\ cpu'.vmx = cpu.vmx
          /\ cpu'.cr = cpu.cr /\ cpu'.vmcs = cpu.vmcs
          /\ cpu.iflag = 1 => cpu'.iflag = 1
          /\ phase # "BootServices" => cpu'.iflag = cpu.iflag
      BY <2>1, LogLine, Zenon
    <3>2. /\ pc' \in {"prepare", "check"} /\ step' \in 1..10
          /\ pc' = "prepare" => step' \in 1..9
      BY <1>4, <2>1, StepErrors, SMTT(30) DEF prepare_vmcs, Advance
    <3> QED
      BY <1>2, <1>4, <2>1, <3>1, <3>2 DEF prepare_vmcs, Succeeds
  <2>2. CASE Fails(PrepareSteps[step]) /\ pc' = "tables" /\ step' = 1 /\ UNCHANGED cpu
    <3>1. PrepareSteps[step] \in Errors
      BY <1>4, StepErrors, ZenonT(60) DEF prepare_vmcs
    <3> QED
      BY <1>1, <1>4, <2>2, <3>1, SMTT(30) DEF prepare_vmcs
  <2> QED
    BY <1>4, <2>1, <2>2, ZenonT(60) DEF prepare_vmcs
<1>5. CASE check_host_tables_preserved
  <2>1. CASE Succeeds /\ cpu' \in log_line(cpu) /\ pc' = "launch"
    <3>1. /\ cpu' \in Cpu
          /\ cpu'.gdtr = cpu.gdtr /\ cpu'.idtr = cpu.idtr /\ cpu'.vmx = cpu.vmx
          /\ cpu'.cr = cpu.cr /\ cpu'.vmcs = cpu.vmcs
          /\ cpu.iflag = 1 => cpu'.iflag = 1
          /\ phase # "BootServices" => cpu'.iflag = cpu.iflag
      BY <2>1, LogLine
    <3> QED
      BY <1>2, <1>5, <2>1, <3>1, ZenonT(60) DEF check_host_tables_preserved, Succeeds
  <2>2. ASSUME NEW changed \in {cpu, [cpu EXCEPT !.gdtr = "changed"],
                               [cpu EXCEPT !.idtr = "changed"]},
               Fails("HostTablesChanged"), cpu' \in log_line(changed), pc' = "tables"
        PROVE  BInv'
    <3>1. /\ changed \in Cpu /\ changed.vmx = cpu.vmx /\ changed.cr = cpu.cr
          /\ changed.vmcs = cpu.vmcs /\ changed.iflag = cpu.iflag
          /\ changed.gdtr \in {cpu.gdtr, "changed"} /\ changed.idtr \in {cpu.idtr, "changed"}
      BY <2>2 DEF Cpu
    <3>2. /\ cpu' \in Cpu /\ cpu'.vmx = cpu.vmx /\ cpu'.cr = cpu.cr
          /\ cpu'.vmcs = cpu.vmcs
          /\ cpu'.gdtr \in {cpu.gdtr, "changed"} /\ cpu'.idtr \in {cpu.idtr, "changed"}
      BY <2>2, <3>1, LogLine
    <3>3. "HostTablesChanged" \in Errors
      BY DEF Errors
    <3> QED
      BY <1>1, <1>5, <2>2, <3>2, <3>3 DEF check_host_tables_preserved
  <2> QED
    BY <1>5, <2>1, <2>2 DEF check_host_tables_preserved
<1>6. CASE launch
  <2>1. PICK stop \in DOMAIN guest_result :
          /\ IF guest_result[stop] = "ok" THEN Succeeds ELSE Fails(guest_result[stop])
          /\ IF stop = "LaunchFailed"
             THEN UNCHANGED <<cpu, phase>>
             ELSE /\ cpu' = [cpu EXCEPT !.gdtr = "exit", !.idtr = "exit", !.iflag = 0]
                  /\ phase' = "VmExit"
    BY <1>6 DEF launch
  <2>2. guest_result[stop] \in {"ok", "UnexpectedExit", "launch", "ResumeFailed"}
    BY <2>1 DEF guest_result
  <2>3. /\ result' \in Errors \cup {"ok"} /\ failures' \in Seq(Errors)
        /\ (IF result' = "ok" THEN left ELSE result') = FirstFailure'
    <3>1. {"UnexpectedExit", "launch", "ResumeFailed"} \subseteq Errors
      BY DEF Errors
    <3>2. CASE guest_result[stop] = "ok"
      BY <1>2, <2>1, <3>2 DEF Succeeds
    <3>3. CASE guest_result[stop] # "ok"
      BY <1>1, <1>6, <2>1, <2>2, <3>1, <3>3, ZenonT(60) DEF launch
    <3> QED
      BY <3>2, <3>3
  <2>4. \/ cpu' = cpu /\ phase' = phase
        \/ /\ cpu' \in Cpu /\ cpu'.gdtr = "exit" /\ cpu'.idtr = "exit" /\ cpu'.iflag = 0
           /\ cpu'.vmx = cpu.vmx /\ cpu'.cr = cpu.cr /\ cpu'.vmcs = cpu.vmcs
           /\ phase' = "VmExit"
    <3>1. CASE stop = "LaunchFailed"
      BY <2>1, <3>1
    <3>2. CASE stop # "LaunchFailed"
      <4>1. cpu' = [cpu EXCEPT !.gdtr = "exit", !.idtr = "exit", !.iflag = 0]
        BY <2>1, <3>2
      <4>2. /\ cpu' \in Cpu /\ cpu'.gdtr = "exit" /\ cpu'.idtr = "exit" /\ cpu'.iflag = 0
            /\ cpu'.vmx = cpu.vmx /\ cpu'.cr = cpu.cr /\ cpu'.vmcs = cpu.vmcs
        BY <4>1, Zenon DEF Cpu
      <4> QED
        BY <2>1, <3>2, <4>2
    <3> QED
      BY <3>1, <3>2
  <2> QED
    BY <1>6, <2>3, <2>4 DEF launch
<1>7. CASE passthrough_state
  <2>1. /\ cpu' \in Cpu
        /\ cpu'.gdtr = cpu.gdtr /\ cpu'.idtr = cpu.idtr /\ cpu'.vmx = cpu.vmx
        /\ cpu'.cr = cpu.cr /\ cpu'.vmcs = cpu.vmcs
        /\ cpu.iflag = 1 => cpu'.iflag = 1
        /\ phase # "BootServices" => cpu'.iflag = cpu.iflag
    BY <1>7, LogLine DEF passthrough_state
  <2>2. FirstFailure' = FirstFailure
    BY <1>7 DEF passthrough_state, FirstFailure
  <2> QED
    BY <1>7, <2>1, <2>2, ZenonT(60) DEF passthrough_state
<1> QED
  BY <1>3, <1>4, <1>5, <1>6, <1>7, Zenon

(* The steps of teardown keep the invariant, failing or not.               *)
LEMMA TeardownKeeps ==
  ASSUME BInv, load_tables \/ vmclear \/ leave \/ resume_firmware \/ report
  PROVE  BInv'
<1> USE DEF saved, BInv, BringUpTypeOK, InterruptsOffInExitPhase, VmxeTracksVmx,
            VmxInstructionsLegal, Tables, VmxOperation, Interrupts, Results,
            BeforeVmxon, BeforeGuest, AfterLeave, InMain
<1>1. CASE load_tables
  <2>1. /\ cpu' \in Cpu /\ cpu'.gdtr = "firmware" /\ cpu'.idtr = "firmware"
        /\ cpu'.vmx = cpu.vmx /\ cpu'.cr = cpu.cr /\ cpu'.vmcs = cpu.vmcs
        /\ cpu'.iflag = cpu.iflag
    BY <1>1, Zenon DEF load_tables, Cpu
  <2>2. FirstFailure' = FirstFailure
    BY <1>1 DEF load_tables, FirstFailure
  <2> QED
    BY <1>1, <2>1, <2>2 DEF load_tables
<1>2. ASSUME NEW e \in {"Vmclear", "Vmxoff"}, TeardownFails(e)
      PROVE  /\ cpu' \in Cpu
             /\ cpu'.gdtr = cpu.gdtr /\ cpu'.idtr = cpu.idtr /\ cpu'.vmx = cpu.vmx
             /\ cpu'.cr = cpu.cr /\ cpu'.vmcs = cpu.vmcs
             /\ cpu.iflag = 1 => cpu'.iflag = 1
             /\ phase # "BootServices" => cpu'.iflag = cpu.iflag
             /\ failures' \in Seq(Errors)
             /\ FirstFailure' = IF FirstFailure = "ok" THEN e ELSE FirstFailure
             /\ \E i \in DOMAIN failures' : failures'[i] = e
  <2>1. e \in Errors
    BY DEF Errors
  <2>2. cpu' \in log_line(cpu) /\ failures' = Append(failures, e)
    BY <1>2, ZenonT(60) DEF TeardownFails
  <2> QED
    BY <2>1, <2>2, LogLine, FirstKept
<1>3. CASE vmclear
  <2>1. CASE cpu' = [cpu EXCEPT !.vmcs = "none"] /\ UNCHANGED <<left, failures>>
    <3>1. /\ cpu' \in Cpu /\ cpu'.vmcs = "none"
          /\ cpu'.gdtr = cpu.gdtr /\ cpu'.idtr = cpu.idtr /\ cpu'.vmx = cpu.vmx
          /\ cpu'.cr = cpu.cr /\ cpu'.iflag = cpu.iflag
      BY <2>1 DEF Cpu
    <3>2. FirstFailure' = FirstFailure
      BY <2>1 DEF FirstFailure
    <3> QED
      BY <1>3, <2>1, <3>1, <3>2 DEF vmclear
  <2>2. CASE TeardownFails("Vmclear")
    BY <1>2, <1>3, <2>2, StepErrors, ZenonT(60) DEF vmclear, TeardownFails
  <2>3. CASE UNCHANGED <<cpu, left, failures>>
    <3>1. FirstFailure' = FirstFailure
      BY <2>3, Zenon DEF FirstFailure
    <3> QED
      BY <1>3, <2>3, <3>1 DEF vmclear
  <2> QED
    BY <1>3, <2>1, <2>2, <2>3 DEF vmclear
<1>4. CASE leave
  <2>1. CASE /\ cpu' = [cpu EXCEPT !.vmx = "off", !.cr = original_cr, !.vmcs = "none"]
             /\ UNCHANGED <<left, failures>>
    <3>1. /\ cpu' \in Cpu /\ cpu'.vmx = "off" /\ cpu'.cr = firmware_cr /\ cpu'.vmcs = "none"
          /\ cpu'.gdtr = cpu.gdtr /\ cpu'.idtr = cpu.idtr /\ cpu'.iflag = cpu.iflag
      <4>1. original_cr = firmware_cr /\ firmware_cr \in Crs
        BY <1>4 DEF leave
      <4> QED
        BY <2>1, <4>1, Zenon DEF Cpu
    <3>2. FirstFailure' = FirstFailure
      BY <2>1 DEF FirstFailure
    <3> QED
      BY <1>4, <2>1, <3>1, <3>2 DEF leave
  <2>2. CASE TeardownFails("Vmxoff")
    BY <1>2, <1>4, <2>2, StepErrors, ZenonT(60) DEF leave, TeardownFails
  <2> QED
    BY <1>4, <2>1, <2>2 DEF leave
<1>5. CASE resume_firmware
  <2>1. /\ cpu' \in Cpu /\ cpu'.vmx = cpu.vmx /\ cpu'.cr = cpu.cr /\ cpu'.vmcs = cpu.vmcs
        /\ cpu'.gdtr = cpu.gdtr /\ cpu'.idtr = cpu.idtr
        /\ firmware_if = 1 => cpu'.iflag = 1
    BY <1>5 DEF resume_firmware, Cpu
  <2>2. FirstFailure' = FirstFailure
    BY <1>5, Zenon DEF resume_firmware, FirstFailure
  <2> QED
    BY <1>5, <2>1, <2>2 DEF resume_firmware
<1>6. CASE report
  <2>1. /\ cpu' \in Cpu
        /\ cpu'.gdtr = cpu.gdtr /\ cpu'.idtr = cpu.idtr /\ cpu'.vmx = cpu.vmx
        /\ cpu'.cr = cpu.cr /\ cpu'.vmcs = cpu.vmcs
        /\ cpu.iflag = 1 => cpu'.iflag = 1
        /\ phase # "BootServices" => cpu'.iflag = cpu.iflag
    BY <1>6, LogLine, Zenon DEF report
  <2>2. FirstFailure' = FirstFailure
    BY <1>6, Zenon DEF report, FirstFailure
  <2>3. {"Vmclear", "Vmxoff"} \subseteq Errors
    BY DEF Errors
  <2> QED
    BY <1>6, <2>1, <2>2, <2>3, SMTT(30) DEF report
<1> QED
  BY <1>1, <1>3, <1>4, <1>5, <1>6, Zenon

(* main's steps after bring-up keep the invariant.                         *)
LEMMA MainKeeps ==
  ASSUME BInv,
         main \/ check_firmware_timer \/ timer_fires \/ return_to_firmware
           \/ UNCHANGED vars
  PROVE  BInv'
<1> USE DEF saved, BInv, BringUpTypeOK, InterruptsOffInExitPhase, VmxeTracksVmx,
            VmxInstructionsLegal, Tables, VmxOperation, Interrupts, Results,
            BeforeVmxon, BeforeGuest, AfterLeave, InMain
<1>1. CASE main
  <2>1. /\ cpu' \in Cpu
        /\ cpu'.gdtr = cpu.gdtr /\ cpu'.idtr = cpu.idtr /\ cpu'.vmx = cpu.vmx
        /\ cpu'.cr = cpu.cr /\ cpu'.vmcs = cpu.vmcs
        /\ cpu.iflag = 1 => cpu'.iflag = 1
        /\ phase # "BootServices" => cpu'.iflag = cpu.iflag
    BY <1>1, LogLine DEF main
  <2>2. FirstFailure' = FirstFailure
    BY <1>1 DEF main, FirstFailure
  <2> QED
    BY <1>1, <2>1, <2>2, ZenonT(40) DEF main
<1>2. CASE check_firmware_timer
  <2>1. /\ cpu' \in Cpu
        /\ cpu'.gdtr = cpu.gdtr /\ cpu'.idtr = cpu.idtr /\ cpu'.vmx = cpu.vmx
        /\ cpu'.cr = cpu.cr /\ cpu'.vmcs = cpu.vmcs
        /\ cpu.iflag = 1 => cpu'.iflag = 1
    <3>1. CASE cpu' \in log_line(cpu)
      BY <3>1, LogLine
    <3>2. CASE cpu' = [cpu EXCEPT !.iflag = 1]
      BY <3>2 DEF Cpu
    <3> QED
      BY <1>2, <3>1, <3>2 DEF check_firmware_timer
  <2>2. FirstFailure' = FirstFailure
    BY <1>2, Zenon DEF check_firmware_timer, FirstFailure
  <2> QED
    BY <1>2, <2>1, <2>2 DEF check_firmware_timer
<1>3. CASE timer_fires
  <2>1. FirstFailure' = FirstFailure
    BY <1>3, Zenon DEF timer_fires, FirstFailure
  <2> QED
    BY <1>3, <2>1, ZenonT(60) DEF timer_fires
<1>4. CASE return_to_firmware
  <2>1. /\ cpu' \in Cpu
        /\ cpu'.gdtr = cpu.gdtr /\ cpu'.idtr = cpu.idtr /\ cpu'.vmx = cpu.vmx
        /\ cpu'.cr = cpu.cr /\ cpu'.vmcs = cpu.vmcs
        /\ cpu.iflag = 1 => cpu'.iflag = 1
        /\ phase # "BootServices" => cpu'.iflag = cpu.iflag
    BY <1>4, LogLine, Zenon DEF return_to_firmware
  <2>2. FirstFailure' = FirstFailure
    BY <1>4, Zenon DEF return_to_firmware, FirstFailure
  <2> QED
    BY <1>4, <2>1, <2>2, SMTT(30) DEF return_to_firmware
<1>5. CASE UNCHANGED vars
  <2>1. FirstFailure' = FirstFailure
    BY <1>5 DEF vars, FirstFailure
  <2> QED
    BY <1>5, <2>1, SMTT(30) DEF vars
<1> QED
  BY <1>1, <1>2, <1>3, <1>4, <1>5, ZenonT(40)

-----------------------------------------------------------------------------
(* Bring-up's invariant holds whichever steps fail.                        *)
THEOREM BringUpInvariant == Spec => []BInv
<1>1. BInv /\ [Next]_vars => BInv'
  BY EntryKeeps, GuestKeeps, TeardownKeeps, MainKeeps DEF Next, Steps, Idle
<1> QED
  BY BInit, <1>1, PTL DEF Spec

(* The firmware gets its tables, interrupt flag, control registers and     *)
(* normal operation back on every path, but for a failed VMXOFF and a      *)
(* failed activation.                                                      *)
THEOREM FirmwareRestored == Spec => []FirmwareStateRestored
<1>1. BInv => FirmwareStateRestored
  <2> SUFFICES ASSUME BInv, pc = "returned" PROVE FirmwareStateRestored
    BY DEF FirmwareStateRestored
  <2>1. cpu.vmx = "off" => cpu.cr = firmware_cr
    BY DEF BInv, BringUpTypeOK, VmxeTracksVmx, Cpu
  <2> QED
    BY <2>1 DEF BInv, BringUpTypeOK, Tables, VmxOperation, Interrupts, AfterLeave, InMain,
         FirmwareStateRestored
<1> QED
  BY BringUpInvariant, <1>1, PTL

(* Interrupts stay off from the first VM exit until teardown has left VMX  *)
(* operation.                                                              *)
THEOREM InterruptsStayOff == Spec => []InterruptsOffInExitPhase
<1>1. BInv => InterruptsOffInExitPhase
  BY DEF BInv
<1> QED
  BY BringUpInvariant, <1>1, PTL

(* CR0 and CR4 have VMXE and the fixed bits in VMX operation, and are the  *)
(* firmware's own outside it.                                              *)
THEOREM VmxeInVmxOnly == Spec => []VmxeTracksVmx
<1>1. BInv => VmxeTracksVmx
  BY DEF BInv
<1> QED
  BY BringUpInvariant, <1>1, PTL

(* The steps' state keeps its types: among them that guest_result yields   *)
(* one of the errors the report knows.                                     *)
THEOREM BringUpTypes == Spec => []BringUpTypeOK
<1>1. BInv => BringUpTypeOK
  BY DEF BInv
<1> QED
  BY BringUpInvariant, <1>1, PTL

(* No VMX instruction runs outside VMX operation or without its VMCS.      *)
THEOREM InstructionsLegal == Spec => []VmxInstructionsLegal
<1>1. BInv => VmxInstructionsLegal
  BY DEF BInv
<1> QED
  BY BringUpInvariant, <1>1, PTL

(* main returns the first failure, and success only without one.           *)
THEOREM FirstErrorWins == Spec => []FirstErrorReturned
<1>1. BInv => FirstErrorReturned
  <2> SUFFICES ASSUME BInv, pc = "returned" PROVE FirstErrorReturned
    BY DEF FirstErrorReturned
  <2>1. result = FirstFailure /\ (status = "SUCCESS" <=> result = "ok")
    BY DEF BInv, Results, InMain
  <2>2. FirstFailure = "ok" <=> failures = <<>>
    <3>1. CASE failures = <<>>
      BY <3>1 DEF FirstFailure
    <3>2. CASE failures # <<>>
      <4>1. failures[1] \in Errors
        BY <3>2 DEF BInv, BringUpTypeOK
      <4> QED
        BY <3>2, <4>1, StepErrors DEF FirstFailure
    <3> QED
      BY <3>1, <3>2
  <2> QED
    BY <2>1, <2>2 DEF FirstFailure, FirstErrorReturned
<1> QED
  BY BringUpInvariant, <1>1, PTL

-----------------------------------------------------------------------------
\* The table the rows in m lead to for an address, from the PML4 down; the
\* row the walk reads there, and what that row holds.
T4 == aligned(CR3, PAGE_SIZE)
T3(m, a) == aligned(m[<<T4, index(a, 4)>>].address, PAGE_SIZE)
T2(m, a) == aligned(m[<<T3(m, a), index(a, 3)>>].address, PAGE_SIZE)
T1(m, a) == aligned(m[<<T2(m, a), index(a, 2)>>].address, PAGE_SIZE)

Tab(m, a, l) ==
  IF l = 4 THEN T4 ELSE IF l = 3 THEN T3(m, a) ELSE IF l = 2 THEN T2(m, a) ELSE T1(m, a)
Row(m, a, l) == <<Tab(m, a, l), index(a, l)>>
Ent(m, a, l) == m[Row(m, a, l)]

\* The entry leads on to the next table.
Points(e, l) == "PRESENT" \in e.flags /\ ~maps_page(e, l)

\* A walk for the address has read its way down to level l, or ends there.
Leads(m, a, k) == Row(m, a, k) \in DOMAIN m /\ Points(Ent(m, a, k), k)
Descends(m, a, l) ==
  (l < 4 => Leads(m, a, 4)) /\ (l < 3 => Leads(m, a, 3)) /\ (l < 2 => Leads(m, a, 2))
Stops(m, a, l) ==
  Descends(m, a, l) /\ Row(m, a, l) \in DOMAIN m /\ ~Points(Ent(m, a, l), l)

\* The permissions of the entries from the PML4's down to level l.
Every(flag, m, a, l) == \A k \in 1..4 : k >= l => flag \in Ent(m, a, k).flags
Some(flag, m, a, l) == \E k \in 1..4 : k >= l /\ flag \in Ent(m, a, k).flags

\* The page that entry maps at the address.
Frame(m, a, l) == aligned(Ent(m, a, l).address, Size[l]) + (a % Size[l])

\* What a walk that ends at level l returns.
Found(m, a, l) ==
  IF "PRESENT" \notin Ent(m, a, l).flags THEN NotPresent(l)
  ELSE Mapped(Frame(m, a, l), l, Every("WRITABLE", m, a, l), Every("USER", m, a, l),
              Some("EXECUTE_DISABLE", m, a, l))

\* The loop of the walk for an address is at this level.
AtLevel(m, a, l, t, w, u, x) ==
  /\ Descends(m, a, l)
  /\ t = Tab(m, a, l)
  /\ w = Every("WRITABLE", m, a, l + 1)
  /\ u = Every("USER", m, a, l + 1)
  /\ x = Some("EXECUTE_DISABLE", m, a, l + 1)

-----------------------------------------------------------------------------
\* The rows read so far are entries, and the pages have their addresses.
GTypeOK ==
  /\ \A r \in DOMAIN mem : mem[r] \in Entry
  /\ pages \in [PageNames -> Nat] /\ \A p \in PageNames : pages[p] % PAGE_SIZE = 0
  /\ page \in 1..5 /\ level \in 0..4 /\ cr4 \subseteq {"LA57", "SMEP", "SMAP"}
  /\ checked = <<"none">> => cr4 \subseteq {"LA57"}

(* Where the walk is: in the table the rows above lead to, with their      *)
(* permissions; or over, with what the rows say.                           *)
WalkInv ==
  /\ page <= 4 => virtual_address = pages[GuestPages[page]]
  /\ level > 0 =>
       /\ AtLevel(mem, virtual_address, level, table, writable, user, execute_disable)
       /\ mapping = NoMapping
  /\ level = 0 =>
       \/ mapping = FiveLevelPaging /\ "LA57" \in cr4
       \/ \E l \in 1..4 : Stops(mem, virtual_address, l) /\ mapping = Found(mem, virtual_address, l)

(* The pages walked have the mappings that the rows read still give them.  *)
WalkedInv ==
  \A i \in 1..4 : i < page =>
    /\ GuestPages[i] \in DOMAIN mappings
    /\ mappings[GuestPages[i]].error = "ok"
    /\ \E l \in 1..4 : /\ Stops(mem, pages[GuestPages[i]], l)
                       /\ mappings[GuestPages[i]] = Found(mem, pages[GuestPages[i]], l)

\* The recorded mapping of a page is the identity, and lets the guest use it.
Serves(p) ==
  mappings[p].physical = pages[p] /\ CpuAllows(GuestAccess[p], mappings[p], TRUE)

PageOf == [CodeNotExecutable |-> "code", CodeBlockedBySmep |-> "code",
           StackNotWritable |-> "stack", StackBlockedBySmap |-> "stack",
           IdtBlockedBySmap |-> "idt", DataNotWritable |-> "data",
           DataBlockedBySmap |-> "data"]

(* A result is right about the recorded mappings.                          *)
ResultInv ==
  \/ checked = <<"none">>
  \/ checked = <<"ok">> /\ page = 5 /\ \A p \in PageNames : Serves(p)
  \/ /\ page <= 4 /\ level = 0 /\ mapping.error # "ok"
     /\ checked = <<"NotMapped", GuestPages[page]>>
  \/ /\ page = 5
     /\ \E p \in PageNames : /\ checked = <<"NotIdentityMapped", p>> /\ ~Serves(p)
                             /\ \A q \in Earlier[p] : mappings[q].physical = pages[q]
  \/ /\ page = 5 /\ \A q \in PageNames : mappings[q].physical = pages[q]
     /\ \E e \in MappingErrors : /\ checked = <<e>> /\ ~Serves(PageOf[e])
                                 /\ \A q \in Earlier[PageOf[e]] : Serves(q)

GInv == GTypeOK /\ WalkInv /\ WalkedInv /\ ResultInv
-----------------------------------------------------------------------------
(* The entry sizes of the four levels are multiples of the page size.      *)
LEMMA Sizes ==
  ASSUME NEW l \in 1..4
  PROVE  /\ Size[l] \in Nat \ {0}
         /\ \E k \in Nat \ {0} : Size[l] = k * PAGE_SIZE
<1>0. ENTRIES \in Nat \ {0} /\ PAGE_SIZE \in Nat \ {0}
  BY PagingAssumption
<1> DEFINE E2 == ENTRIES * ENTRIES
           E3 == ENTRIES * ENTRIES * ENTRIES
<1>1. /\ E2 \in Nat \ {0} /\ E3 \in Nat \ {0} /\ ENTRIES * PAGE_SIZE \in Nat \ {0}
      /\ E2 * PAGE_SIZE \in Nat \ {0} /\ E3 * PAGE_SIZE \in Nat \ {0}
  BY <1>0
<1>2. /\ Size[1] = PAGE_SIZE /\ Size[2] = ENTRIES * PAGE_SIZE
      /\ Size[3] = E2 * PAGE_SIZE /\ Size[4] = E3 * PAGE_SIZE
  BY DEF Size
<1> HIDE DEF E2, E3
<1>3. CASE l = 1
  BY <1>3, <1>0, <1>2
<1>4. CASE l = 2
  BY <1>4, <1>0, <1>1, <1>2
<1>5. CASE l = 3
  BY <1>5, <1>0, <1>1, <1>2
<1>6. CASE l = 4
  BY <1>6, <1>0, <1>1, <1>2
<1> QED
  BY <1>3, <1>4, <1>5, <1>6

(* Division leaves a remainder below the divisor.                          *)
LEMMA Divided ==
  ASSUME NEW a \in Nat, NEW s \in Nat \ {0}
  PROVE  a = (a \div s) * s + (a % s) /\ a \div s \in Nat /\ a % s \in 0..s-1
OBVIOUS

(* And the quotient and the remainder are the only such numbers.           *)
LEMMA DividedOnce ==
  ASSUME NEW q \in Nat, NEW s \in Nat \ {0}, NEW r \in 0..s-1
  PROVE  (q * s + r) \div s = q /\ (q * s + r) % s = r
OBVIOUS

(* Clearing the low bits is the multiple of the size below the address.    *)
LEMMA Aligned ==
  ASSUME NEW x \in Nat, NEW s \in Nat \ {0}
  PROVE  aligned(x, s) = (x \div s) * s /\ aligned(x, s) \in Nat
<1>1. x = (x \div s) * s + (x % s) /\ x \div s \in Nat /\ x % s \in 0..s-1
  BY Divided, Zenon
<1>2. (x \div s) * s \in Nat
  BY <1>1
<1> DEFINE q == (x \div s) * s
<1>3. x = q + (x % s) /\ q \in Nat /\ x % s \in Nat
  BY <1>1, <1>2
<1> HIDE DEF q
<1>4. x - (x % s) = q /\ q \in Nat
  BY <1>3
<1> QED
  BY <1>4 DEF aligned, q

(* Every byte of a page is under the same entry of each level, and as far  *)
(* from the start of what the entry covers as from the start of the page.  *)
LEMMA SamePage ==
  ASSUME NEW a \in Nat, a % PAGE_SIZE = 0, NEW off \in 0..PAGE_SIZE-1, NEW l \in 1..4
  PROVE  (a + off) \div Size[l] = a \div Size[l] /\ (a + off) % Size[l] = (a % Size[l]) + off
<1>0. PAGE_SIZE \in Nat \ {0}
  BY PagingAssumption
<1>1. PICK s \in Nat \ {0} : s = Size[l]
  BY Sizes
<1>2. PICK k \in Nat \ {0} : s = k * PAGE_SIZE
  BY Sizes, <1>1
<1>3. PICK c \in Nat : a = c * PAGE_SIZE
  <2>1. /\ a = (a \div PAGE_SIZE) * PAGE_SIZE + (a % PAGE_SIZE)
        /\ a \div PAGE_SIZE \in Nat
    BY <1>0, Divided, Zenon
  <2>2. (a \div PAGE_SIZE) * PAGE_SIZE \in Nat
    BY <1>0, <2>1
  <2>3. a = (a \div PAGE_SIZE) * PAGE_SIZE
    BY <2>1, <2>2
  <2> QED
    BY <2>1, <2>3, Zenon
<1>4. PICK q \in Nat : q = c \div k
  BY Divided
<1>5. PICK d \in 0..k-1 : c = q * k + d
  <2>1. c = (c \div k) * k + (c % k) /\ c % k \in 0..k-1
    BY Divided, Zenon
  <2> QED
    BY <2>1, <1>4, Zenon
<1>6. a = (q * k + d) * PAGE_SIZE
  BY <1>3, <1>5
<1>7. (q * k + d) * PAGE_SIZE = q * (k * PAGE_SIZE) + d * PAGE_SIZE
  BY <1>0
<1>8. PICK r \in Nat : r = d * PAGE_SIZE
  BY <1>0
<1>9. a = q * s + r
  BY <1>6, <1>7, <1>8, <1>2
<1>10. d * PAGE_SIZE <= (k - 1) * PAGE_SIZE
  BY <1>0
<1>11. (k - 1) * PAGE_SIZE = k * PAGE_SIZE - PAGE_SIZE
  BY <1>0
<1>12. r <= s - PAGE_SIZE
  BY <1>0, <1>2, <1>8, <1>10, <1>11
<1>13. r \in 0..s-1 /\ r + off \in 0..s-1
  BY <1>0, <1>12
<1>14. a \div s = q /\ a % s = r
  BY <1>9, <1>13, DividedOnce
<1>15. (q * s + (r + off)) \div s = q /\ (q * s + (r + off)) % s = r + off
  <2>1. PICK x \in 0..s-1 : x = r + off
    BY <1>13, Zenon
  <2>2. (q * s + x) \div s = q /\ (q * s + x) % s = x
    BY DividedOnce, Zenon
  <2> QED
    BY <2>1, <2>2, Zenon
<1>16. a + off = q * s + (r + off)
  <2> DEFINE t == q * s
  <2>1. t \in Nat /\ a = t + r
    BY <1>9
  <2> HIDE DEF t
  <2>2. a + off = t + (r + off)
    BY <2>1
  <2> QED
    BY <2>2 DEF t
<1> QED
  BY <1>1, <1>14, <1>15, <1>16

-----------------------------------------------------------------------------
(* The next table is the one the entry's address names.                    *)
LEMMA TableTypes ==
  ASSUME NEW m, NEW a
  PROVE  /\ Tab(m, a, 4) = aligned(CR3, PAGE_SIZE)
         /\ \A k \in 2..4 : Tab(m, a, k - 1) = aligned(Ent(m, a, k).address, PAGE_SIZE)
<1>1. Tab(m, a, 4) = T4 /\ Tab(m, a, 3) = T3(m, a) /\ Tab(m, a, 2) = T2(m, a) /\ Tab(m, a, 1) = T1(m, a)
  BY DEF Tab
<1>2. /\ Ent(m, a, 4) = m[<<T4, index(a, 4)>>]
      /\ Ent(m, a, 3) = m[<<T3(m, a), index(a, 3)>>]
      /\ Ent(m, a, 2) = m[<<T2(m, a), index(a, 2)>>]
  BY <1>1, Zenon DEF Ent, Row
<1>3. /\ T3(m, a) = aligned(Ent(m, a, 4).address, PAGE_SIZE)
      /\ T2(m, a) = aligned(Ent(m, a, 3).address, PAGE_SIZE)
      /\ T1(m, a) = aligned(Ent(m, a, 2).address, PAGE_SIZE)
  BY <1>2, Zenon DEF T3, T2, T1
<1>4. \A k \in 2..4 : (k = 2 /\ k - 1 = 1) \/ (k = 3 /\ k - 1 = 2) \/ (k = 4 /\ k - 1 = 3)
  OBVIOUS
<1>5. \A k \in 2..4 : Tab(m, a, k - 1) = aligned(Ent(m, a, k).address, PAGE_SIZE)
  BY <1>1, <1>3, <1>4, Zenon
<1> QED
  BY <1>1, <1>5, Zenon DEF T4

\* n holds every row of m, unchanged.
Keeps(m, n) == \A r \in DOMAIN m : r \in DOMAIN n /\ n[r] = m[r]

(* Rows read later change nothing above the level a walk has come to.      *)
LEMMA PathKept ==
  ASSUME NEW m, NEW n, Keeps(m, n), NEW a, NEW l \in 1..4, Descends(m, a, l)
  PROVE  /\ \A k \in 1..4 : k >= l => Row(n, a, k) = Row(m, a, k)
         /\ \A k \in 1..4 : k > l => Ent(n, a, k) = Ent(m, a, k) /\ Row(n, a, k) \in DOMAIN n
         /\ Descends(n, a, l)
<1> DEFINE Same(k) == Row(n, a, k) = Row(m, a, k)
           SameEnt(k) == Ent(n, a, k) = Ent(m, a, k) /\ Row(n, a, k) \in DOMAIN n
<1>0. \A x : Tab(x, a, 4) = aligned(CR3, PAGE_SIZE)
  BY TableTypes, Zenon
<1>1. /\ \A x : Tab(x, a, 3) = aligned(Ent(x, a, 4).address, PAGE_SIZE)
      /\ \A x : Tab(x, a, 2) = aligned(Ent(x, a, 3).address, PAGE_SIZE)
      /\ \A x : Tab(x, a, 1) = aligned(Ent(x, a, 2).address, PAGE_SIZE)
  <2>1. 4 \in 2..4 /\ 3 \in 2..4 /\ 2 \in 2..4 /\ 4 - 1 = 3 /\ 3 - 1 = 2 /\ 2 - 1 = 1
    OBVIOUS
  <2>2. \A x : \A k \in 2..4 : Tab(x, a, k - 1) = aligned(Ent(x, a, k).address, PAGE_SIZE)
    BY TableTypes, Zenon
  <2>3. \A x, k, j : k \in 2..4 /\ k - 1 = j => Tab(x, a, j) = aligned(Ent(x, a, k).address, PAGE_SIZE)
    BY <2>2, Zenon
  <2> QED
    BY <2>1, <2>3, Zenon
<1>2. \A k : Same(k) /\ Row(m, a, k) \in DOMAIN m => SameEnt(k)
  BY Zenon DEF Keeps, Ent
<1>3. Same(4)
  BY <1>0, Zenon DEF Row
<1>4. l < 4 => SameEnt(4) /\ Same(3)
  BY <1>1, <1>2, <1>3, Zenon DEF Row, Descends, Leads
<1>5. l < 3 => SameEnt(3) /\ Same(2)
  <2>1. l < 3 => l < 4
    OBVIOUS
  <2> QED
    BY <1>1, <1>2, <1>4, <2>1, Zenon DEF Row, Descends, Leads
<1>6. l < 2 => SameEnt(2) /\ Same(1)
  <2>1. l < 2 => l < 3
    OBVIOUS
  <2> QED
    BY <1>1, <1>2, <1>5, <2>1, Zenon DEF Row, Descends, Leads
<1>7. Descends(n, a, l)
  BY <1>4, <1>5, <1>6, Zenon DEF Descends, Leads
<1>8. \A k \in 1..4 : k >= l => Same(k)
  <2> HIDE DEF Same, SameEnt
  <2> QED
    BY <1>3, <1>4, <1>5, <1>6
<1>9. \A k \in 1..4 : k > l => SameEnt(k)
  <2> HIDE DEF Same, SameEnt
  <2> QED
    BY <1>3, <1>4, <1>5, <1>6
<1> QED
  BY <1>7, <1>8, <1>9, Zenon

(* What a walk that is over has found stays what the rows say.             *)
LEMMA FoundKept ==
  ASSUME NEW m, NEW n, Keeps(m, n), NEW a, NEW l \in 1..4, Stops(m, a, l)
  PROVE  Stops(n, a, l) /\ Found(n, a, l) = Found(m, a, l)
<1>0. Descends(m, a, l)
  BY DEF Stops
<1>1. /\ \A k \in 1..4 : k >= l => Row(n, a, k) = Row(m, a, k)
      /\ \A k \in 1..4 : k > l => Ent(n, a, k) = Ent(m, a, k)
      /\ Descends(n, a, l)
  BY <1>0, PathKept
<1>2. Row(n, a, l) = Row(m, a, l) /\ Ent(n, a, l) = Ent(m, a, l) /\ Row(n, a, l) \in DOMAIN n
  <2>1. Row(n, a, l) = Row(m, a, l)
    BY <1>1
  <2> QED
    BY <2>1, Zenon DEF Stops, Keeps, Ent
<1>3. \A k \in 1..4 : k >= l => Ent(n, a, k) = Ent(m, a, k)
  BY <1>1, <1>2
<1>4. Stops(n, a, l)
  BY <1>1, <1>2, Zenon DEF Stops
<1>5. \A f : Every(f, n, a, l) = Every(f, m, a, l) /\ Some(f, n, a, l) = Some(f, m, a, l)
  BY <1>3, Zenon DEF Every, Some
<1>6. Frame(n, a, l) = Frame(m, a, l)
  BY <1>2, Zenon DEF Frame
<1> QED
  <2>1. /\ Every("WRITABLE", n, a, l) = Every("WRITABLE", m, a, l)
        /\ Every("USER", n, a, l) = Every("USER", m, a, l)
        /\ Some("EXECUTE_DISABLE", n, a, l) = Some("EXECUTE_DISABLE", m, a, l)
    BY <1>5, Zenon
  <2>2. Found(n, a, l) = Found(m, a, l)
    BY <1>2, <1>6, <2>1, Zenon DEF Found
  <2> QED
    BY <1>4, <2>2

-----------------------------------------------------------------------------
(* The entries the CPU meets are those of the rows a walk that has ended   *)
(* at level l has read.                                                    *)
LEMMA CpuPath ==
  ASSUME NEW a, NEW l \in 1..4, Stops(mem, a, l)
  PROVE  \E S : /\ CpuEntries(a) = <<l, S, Ent(mem, a, l)>>
                /\ \A x : x \in S <=> \E k \in 1..4 : k >= l /\ x = Ent(mem, a, k)
<1>1. /\ Ent(mem, a, 4) = mem[<<aligned(CR3, PAGE_SIZE), index(a, 4)>>]
      /\ Ent(mem, a, 3) = mem[<<aligned(Ent(mem, a, 4).address, PAGE_SIZE), index(a, 3)>>]
      /\ Ent(mem, a, 2) = mem[<<aligned(Ent(mem, a, 3).address, PAGE_SIZE), index(a, 2)>>]
      /\ Ent(mem, a, 1) = mem[<<aligned(Ent(mem, a, 2).address, PAGE_SIZE), index(a, 1)>>]
  <2>1. 4 \in 2..4 /\ 3 \in 2..4 /\ 2 \in 2..4 /\ 4 - 1 = 3 /\ 3 - 1 = 2 /\ 2 - 1 = 1
    OBVIOUS
  <2>2. \A k, j : k \in 2..4 /\ k - 1 = j => Tab(mem, a, j) = aligned(Ent(mem, a, k).address, PAGE_SIZE)
    BY TableTypes, Zenon
  <2>3. /\ Tab(mem, a, 3) = aligned(Ent(mem, a, 4).address, PAGE_SIZE)
        /\ Tab(mem, a, 2) = aligned(Ent(mem, a, 3).address, PAGE_SIZE)
        /\ Tab(mem, a, 1) = aligned(Ent(mem, a, 2).address, PAGE_SIZE)
    BY <2>1, <2>2, Zenon
  <2>4. Tab(mem, a, 4) = aligned(CR3, PAGE_SIZE)
    BY TableTypes, Zenon
  <2>5. \A k : Ent(mem, a, k) = mem[<<Tab(mem, a, k), index(a, k)>>]
    BY Zenon DEF Ent, Row
  <2> QED
    BY <2>3, <2>4, <2>5, Zenon
<1>2. PICK e4, e3, e2, e1 : /\ e4 = Ent(mem, a, 4) /\ e3 = Ent(mem, a, 3)
                            /\ e2 = Ent(mem, a, 2) /\ e1 = Ent(mem, a, 1)
  OBVIOUS
<1> DEFINE stops(x) == "PRESENT" \notin x.flags
           large(x) == stops(x) \/ "PAGE_SIZE_BIT" \in x.flags
<1>3. CpuEntries(a) =
        IF stops(e4) THEN <<4, {e4}, e4>>
        ELSE IF large(e3) THEN <<3, {e4, e3}, e3>>
        ELSE IF large(e2) THEN <<2, {e4, e3, e2}, e2>>
        ELSE <<1, {e4, e3, e2, e1}, e1>>
  BY <1>1, <1>2, Zenon DEF CpuEntries
<1>4. /\ \A x : Points(x, 4) <=> ~stops(x)
      /\ \A x : Points(x, 3) <=> ~large(x)
      /\ \A x : Points(x, 2) <=> ~large(x)
  BY DEF Points, maps_page
<1> HIDE DEF stops, large
<1>5. CASE l = 4
  <2>1. CpuEntries(a) = <<4, {e4}, e4>>
    BY <1>2, <1>3, <1>4, <1>5, Zenon DEF Stops
  <2>2. \A x : x \in {e4} <=> \E k \in 1..4 : k >= 4 /\ x = Ent(mem, a, k)
    BY <1>2
  <2> QED
    BY <1>2, <1>5, <2>1, <2>2, Zenon
<1>6. CASE l = 3
  <2>1. ~stops(e4) /\ large(e3)
    BY <1>2, <1>4, <1>6 DEF Stops, Descends, Leads
  <2>2. CpuEntries(a) = <<3, {e4, e3}, e3>>
    BY <1>3, <2>1, Zenon
  <2>3. \A x : x \in {e4, e3} <=> \E k \in 1..4 : k >= 3 /\ x = Ent(mem, a, k)
    BY <1>2
  <2> QED
    BY <1>2, <1>6, <2>2, <2>3, Zenon
<1>7. CASE l = 2
  <2>1. ~stops(e4) /\ ~large(e3) /\ large(e2)
    BY <1>2, <1>4, <1>7 DEF Stops, Descends, Leads
  <2>2. CpuEntries(a) = <<2, {e4, e3, e2}, e2>>
    BY <1>3, <2>1, Zenon
  <2>3. \A x : x \in {e4, e3, e2} <=> \E k \in 1..4 : k >= 2 /\ x = Ent(mem, a, k)
    BY <1>2
  <2> QED
    BY <1>2, <1>7, <2>2, <2>3, Zenon
<1>8. CASE l = 1
  <2>1. ~stops(e4) /\ ~large(e3) /\ ~large(e2)
    BY <1>2, <1>4, <1>8 DEF Stops, Descends, Leads
  <2>2. CpuEntries(a) = <<1, {e4, e3, e2, e1}, e1>>
    BY <1>3, <2>1, Zenon
  <2>3. \A x : x \in {e4, e3, e2, e1} <=> \E k \in 1..4 : k >= 1 /\ x = Ent(mem, a, k)
    BY <1>2, SMTT(30)
  <2> QED
    BY <1>2, <1>8, <2>2, <2>3, Zenon
<1> QED
  BY <1>5, <1>6, <1>7, <1>8

(* A walk that has ended returns what the CPU finds in the same rows.      *)
LEMMA CpuFound ==
  ASSUME NEW a, NEW l \in 1..4, Stops(mem, a, l), \A r \in DOMAIN mem : mem[r] \in Entry
  PROVE  CpuTranslation(a) = Found(mem, a, l)
<1>1. PICK S : /\ CpuEntries(a) = <<l, S, Ent(mem, a, l)>>
               /\ \A x : x \in S <=> \E k \in 1..4 : k >= l /\ x = Ent(mem, a, k)
  BY CpuPath, Zenon
<1>2. PICK path : path = CpuEntries(a)
  OBVIOUS
<1>3. path[1] = l /\ path[2] = S /\ path[3] = Ent(mem, a, l)
  BY <1>1, <1>2
<1>4. /\ \A f : (\A e \in S : f \in e.flags) <=> Every(f, mem, a, l)
      /\ \A f : (\E e \in S : f \in e.flags) <=> Some(f, mem, a, l)
  BY <1>1, ZenonT(40) DEF Every, Some
<1>5. Every("PRESENT", mem, a, l) <=> "PRESENT" \in Ent(mem, a, l).flags
  BY DEF Every, Stops, Descends, Leads, Points
<1>6. (Ent(mem, a, l).address \div Size[l]) * Size[l] = aligned(Ent(mem, a, l).address, Size[l])
  <2>1. Ent(mem, a, l).address \in Nat
    BY DEF Stops, Ent, Entry
  <2>2. Size[l] \in Nat \ {0}
    BY Sizes
  <2> QED
    BY <2>1, <2>2, Aligned, Zenon
<1>7. /\ (\A e \in S : "WRITABLE" \in e.flags) = Every("WRITABLE", mem, a, l)
      /\ (\A e \in S : "USER" \in e.flags) = Every("USER", mem, a, l)
      /\ (\E e \in S : "EXECUTE_DISABLE" \in e.flags) = Some("EXECUTE_DISABLE", mem, a, l)
  BY <1>4, Zenon DEF Every, Some
<1>8. CpuTranslation(a) =
        IF ~(\A e \in S : "PRESENT" \in e.flags) THEN NotPresent(l)
        ELSE Mapped((Ent(mem, a, l).address \div Size[l]) * Size[l] + (a % Size[l]), l,
                    \A e \in S : "WRITABLE" \in e.flags, \A e \in S : "USER" \in e.flags,
                    \E e \in S : "EXECUTE_DISABLE" \in e.flags)
  BY <1>2, <1>3, Zenon DEF CpuTranslation
<1>9. CASE "PRESENT" \in Ent(mem, a, l).flags
  BY <1>4, <1>5, <1>6, <1>7, <1>8, <1>9, Zenon DEF Found, Frame
<1>10. CASE "PRESENT" \notin Ent(mem, a, l).flags
  BY <1>4, <1>5, <1>8, <1>10, Zenon DEF Found
<1> QED
  BY <1>9, <1>10

(* Every byte of a page is found where its first byte is, with the same    *)
(* permissions and at the same distance from the start of the frame.       *)
LEMMA OffsetFound ==
  ASSUME NEW m, \A r \in DOMAIN m : m[r] \in Entry, NEW l \in 1..4,
         NEW a \in Nat, a % PAGE_SIZE = 0, NEW off \in 0..PAGE_SIZE-1, Stops(m, a, l)
  PROVE  /\ Stops(m, a + off, l)
         /\ \A k \in 1..4 : Ent(m, a + off, k) = Ent(m, a, k)
         /\ Frame(m, a + off, l) = Frame(m, a, l) + off
<1>0. PICK b : b = a + off
  OBVIOUS
<1>1. \A k \in 1..4 : b \div Size[k] = a \div Size[k] /\ b % Size[k] = (a % Size[k]) + off
  BY <1>0, SamePage, ZenonT(60)
<1>2. \A k \in 1..4 : index(b, k) = index(a, k)
  BY <1>1, Zenon DEF index
<1>3. index(b, 1) = index(a, 1) /\ index(b, 2) = index(a, 2) /\ index(b, 3) = index(a, 3)
      /\ index(b, 4) = index(a, 4)
  <2>1. 1 \in 1..4 /\ 2 \in 1..4 /\ 3 \in 1..4 /\ 4 \in 1..4
    OBVIOUS
  <2> QED
    BY <1>2, <2>1, Zenon
<1>4. T3(m, b) = T3(m, a)
  BY <1>3, Zenon DEF T3
<1>5. T2(m, b) = T2(m, a)
  BY <1>3, <1>4, Zenon DEF T2
<1>6. T1(m, b) = T1(m, a)
  BY <1>3, <1>5, Zenon DEF T1
<1>7. \A k \in 1..4 : Row(m, b, k) = Row(m, a, k) /\ Ent(m, b, k) = Ent(m, a, k)
  BY <1>2, <1>4, <1>5, <1>6, Zenon DEF Row, Ent, Tab
<1>8. Stops(m, b, l)
  <2>1. 2 \in 1..4 /\ 3 \in 1..4 /\ 4 \in 1..4
    OBVIOUS
  <2> QED
    BY <1>7, <2>1, Zenon DEF Stops, Descends, Leads
<1>9. Frame(m, b, l) = Frame(m, a, l) + off
  <2>1. PICK x : x = aligned(Ent(m, a, l).address, Size[l])
    OBVIOUS
  <2>2. x \in Nat
    <3>1. Ent(m, a, l).address \in Nat
      BY DEF Stops, Ent, Entry
    <3>2. Size[l] \in Nat \ {0}
      BY Sizes
    <3> QED
      BY <2>1, <3>1, <3>2, Aligned, Zenon
  <2>3. PICK y \in Nat : y = a % Size[l]
    <3>1. PICK z \in Nat \ {0} : z = Size[l]
      BY Sizes
    <3>2. a % z \in 0..z-1
      BY Divided
    <3> QED
      BY <3>1, <3>2
  <2>4. Frame(m, b, l) = x + (y + off) /\ Frame(m, a, l) = x + y
    BY <1>1, <1>7, <2>1, <2>3, Zenon DEF Frame
  <2>5. x + (y + off) = (x + y) + off
    BY <2>2, <2>3
  <2> QED
    BY <2>4, <2>5, Zenon
<1> QED
  BY <1>0, <1>7, <1>8, <1>9, Zenon

-----------------------------------------------------------------------------
(* An iteration of the loop reads one more row and changes none.           *)
LEMMA RowRead ==
  ASSUME NEW row, NEW entry, NEW m, NEW n, n = Extended(m, row, entry),
         row \in DOMAIN m => entry = m[row]
  PROVE  /\ Keeps(m, n) /\ row \in DOMAIN n /\ n[row] = entry
         /\ \A r \in DOMAIN n : n[r] = entry \/ (r \in DOMAIN m /\ n[r] = m[r])
<1>1. DOMAIN n = DOMAIN m \cup {row} /\ \A r \in DOMAIN n : n[r] = IF r = row THEN entry ELSE m[r]
  BY DEF Extended
<1> QED
  BY <1>1, Zenon DEF Keeps

(* With one more row, the path and the permissions are one level longer.   *)
LEMMA PathGrows ==
  ASSUME NEW m, NEW n, NEW a, NEW l \in 1..4, NEW t, NEW w, NEW u, NEW x, NEW entry,
         AtLevel(m, a, l, t, w, u, x), Keeps(m, n),
         <<t, index(a, l)>> \in DOMAIN n, n[<<t, index(a, l)>>] = entry
  PROVE  /\ Descends(n, a, l) /\ Row(n, a, l) \in DOMAIN n /\ Ent(n, a, l) = entry
         /\ t = Tab(n, a, l)
         /\ (w /\ "WRITABLE" \in entry.flags) = Every("WRITABLE", n, a, l)
         /\ (u /\ "USER" \in entry.flags) = Every("USER", n, a, l)
         /\ (x \/ "EXECUTE_DISABLE" \in entry.flags) = Some("EXECUTE_DISABLE", n, a, l)
<1>1. /\ \A k \in 1..4 : k >= l => Row(n, a, k) = Row(m, a, k)
      /\ \A k \in 1..4 : k > l => Ent(n, a, k) = Ent(m, a, k)
      /\ Descends(n, a, l)
  <2>1. Descends(m, a, l)
    BY ZenonT(40) DEF AtLevel
  <2>2. /\ \A k \in 1..4 : k >= l => Row(n, a, k) = Row(m, a, k)
        /\ \A k \in 1..4 : k > l => Ent(n, a, k) = Ent(m, a, k) /\ Row(n, a, k) \in DOMAIN n
        /\ Descends(n, a, l)
    BY <2>1, PathKept, Zenon
  <2> QED
    BY <2>2, Zenon
<1>2. Row(n, a, l) = <<t, index(a, l)>>
  <2>1. l >= l
    OBVIOUS
  <2>2. Row(n, a, l) = Row(m, a, l)
    BY <1>1, <2>1, Zenon
  <2> QED
    BY <2>2, Zenon DEF Row, AtLevel
<1>3. Ent(n, a, l) = entry /\ Row(n, a, l) \in DOMAIN n
  BY <1>2, ZenonT(40) DEF Ent
<1>4. t = Tab(n, a, l)
  BY <1>2, Zenon DEF Row
<1>5. \A k \in 1..4 : k >= l <=> (k = l \/ k >= l + 1)
  BY SMTT(30)
<1>6. \A k \in 1..4 : k >= l + 1 => k > l
  OBVIOUS
<1>7. \A f : Every(f, n, a, l) <=> Every(f, m, a, l + 1) /\ f \in entry.flags
  BY <1>1, <1>3, <1>5, <1>6, Zenon DEF Every
<1>8. \A f : Some(f, n, a, l) <=> Some(f, m, a, l + 1) \/ f \in entry.flags
  BY <1>1, <1>3, <1>5, <1>6, Zenon DEF Some
<1>9. /\ (w /\ "WRITABLE" \in entry.flags) = Every("WRITABLE", n, a, l)
      /\ (u /\ "USER" \in entry.flags) = Every("USER", n, a, l)
      /\ (x \/ "EXECUTE_DISABLE" \in entry.flags) = Some("EXECUTE_DISABLE", n, a, l)
  <2>1. /\ (w /\ "WRITABLE" \in entry.flags) <=> Every("WRITABLE", n, a, l)
        /\ (u /\ "USER" \in entry.flags) <=> Every("USER", n, a, l)
        /\ (x \/ "EXECUTE_DISABLE" \in entry.flags) <=> Some("EXECUTE_DISABLE", n, a, l)
    BY <1>7, <1>8, Zenon DEF AtLevel
  <2> QED
    BY <2>1, Zenon DEF Every, Some
<1> QED
  BY <1>1, <1>3, <1>4, <1>9, ZenonT(40)

-----------------------------------------------------------------------------
(* A walk that begins is at the PML4, with nothing refused yet.            *)
LEMMA WalkBegins ==
  ASSUME NEW m, NEW a
  PROVE  AtLevel(m, a, 4, aligned(CR3, PAGE_SIZE), TRUE, TRUE, FALSE)
<1>1. ~(4 < 4) /\ ~(4 < 3) /\ ~(4 < 2) /\ 4 + 1 = 5 /\ \A k \in 1..4 : ~(k >= 5)
  OBVIOUS
<1>2. Descends(m, a, 4)
  BY <1>1, Zenon DEF Descends
<1>3. \A f : Every(f, m, a, 4 + 1) = TRUE /\ Some(f, m, a, 4 + 1) = FALSE
  BY <1>1, Zenon DEF Every, Some
<1>4. Tab(m, a, 4) = aligned(CR3, PAGE_SIZE)
  BY TableTypes, Zenon
<1> QED
  BY <1>2, <1>3, <1>4, Zenon DEF AtLevel

(* The guest's four pages, in the order they are walked.                   *)
LEMMA PageOrder ==
  /\ GuestPages[1] = "code" /\ GuestPages[2] = "stack"
  /\ GuestPages[3] = "idt" /\ GuestPages[4] = "data"
  /\ \A i \in 1..4 : GuestPages[i] \in PageNames
  /\ \A p \in PageNames : \E i \in 1..4 : GuestPages[i] = p
  /\ \A i, j \in 1..4 : GuestPages[i] = GuestPages[j] => i = j
BY DEF GuestPages, PageNames

(* The pages earlier than each one are those before it in that order.      *)
LEMMA EarlierPages ==
  /\ Earlier["code"] = {} /\ Earlier["stack"] = {"code"}
  /\ Earlier["idt"] = {"code", "stack"} /\ Earlier["data"] = {"code", "stack", "idt"}
  /\ \A p \in PageNames : Earlier[p] \subseteq PageNames
  /\ \A i \in 1..4 : \A q \in Earlier[GuestPages[i]] : \E j \in 1..4 : j < i /\ q = GuestPages[j]
<1>1. /\ Earlier["code"] = {} /\ Earlier["stack"] = {"code"}
      /\ Earlier["idt"] = {"code", "stack"} /\ Earlier["data"] = {"code", "stack", "idt"}
  BY Zenon DEF Earlier
<1>2. \A p \in PageNames : Earlier[p] \subseteq PageNames
  BY <1>1 DEF PageNames
<1>3. ASSUME NEW i \in 1..4, NEW q \in Earlier[GuestPages[i]]
      PROVE  \E j \in 1..4 : j < i /\ q = GuestPages[j]
  <2>1. CASE i = 1
    BY <1>1, <1>3, <2>1, PageOrder
  <2>2. CASE i = 2
    BY <1>1, <1>3, <2>2, PageOrder
  <2>3. CASE i = 3
    BY <1>1, <1>3, <2>3, PageOrder
  <2>4. CASE i = 4
    BY <1>1, <1>3, <2>4, PageOrder
  <2> QED
    BY <2>1, <2>2, <2>3, <2>4
<1> QED
  BY <1>1, <1>2, <1>3, ZenonT(40)

(* The initial state satisfies the invariant.                              *)
LEMMA InitGInv == GInit => GInv
<1> SUFFICES ASSUME GInit PROVE GInv
  OBVIOUS
<1>1. PICK layout \in Layouts :
        /\ pages = [code |-> layout.code, stack |-> layout.stack, idt |-> layout.idt,
                    data |-> data_page(layout)]
        /\ virtual_address = layout.code
  BY DEF GInit
<1>2. /\ layout.code \in Nat /\ layout.code % PAGE_SIZE = 0
      /\ layout.stack \in Nat /\ layout.stack % PAGE_SIZE = 0
      /\ layout.idt \in Nat /\ layout.idt % PAGE_SIZE = 0
  BY LayoutsAssumption
<1>3. data_page(layout) \in Nat /\ data_page(layout) % PAGE_SIZE = 0
  <2>0. PAGE_SIZE \in Nat \ {0}
    BY PagingAssumption
  <2>1. PICK c \in Nat : c = layout.code
    BY <1>2
  <2>2. PICK q \in Nat : c = q * PAGE_SIZE
    <3>1. c = (c \div PAGE_SIZE) * PAGE_SIZE + (c % PAGE_SIZE) /\ c \div PAGE_SIZE \in Nat
      BY <2>0, Divided, Zenon
    <3>2. (c \div PAGE_SIZE) * PAGE_SIZE \in Nat /\ c % PAGE_SIZE = 0
      BY <2>0, <2>1, <3>1, <1>2
    <3>3. c = (c \div PAGE_SIZE) * PAGE_SIZE
      BY <3>1, <3>2
    <3> QED
      BY <3>1, <3>3, Zenon
  <2>3. c + PAGE_SIZE = (q + 1) * PAGE_SIZE + 0 /\ 0 \in 0..PAGE_SIZE-1
    BY <2>0, <2>2
  <2>4. PICK d \in Nat : d = q + 1
    OBVIOUS
  <2>5. (d * PAGE_SIZE + 0) % PAGE_SIZE = 0
    BY <2>0, <2>3, DividedOnce, Zenon
  <2>6. data_page(layout) = c + PAGE_SIZE
    BY <2>1, Zenon DEF data_page
  <2>7. (c + PAGE_SIZE) % PAGE_SIZE = 0
    BY <2>3, <2>4, <2>5, Zenon
  <2>8. c + PAGE_SIZE \in Nat
    BY <2>0
  <2> QED
    BY <2>6, <2>7, <2>8, Zenon
<1>4. pages \in [PageNames -> Nat] /\ \A p \in PageNames : pages[p] % PAGE_SIZE = 0
  BY <1>1, <1>2, <1>3 DEF PageNames
<1>5. /\ mem = <<>> /\ page = 1 /\ checked = <<"none">>
      /\ cr4 = IF mapping = FiveLevelPaging THEN {"LA57"} ELSE {}
      /\ table = aligned(CR3, PAGE_SIZE) /\ writable = TRUE /\ user = TRUE /\ execute_disable = FALSE
      /\ (level = 4 /\ mapping = NoMapping) \/ (level = 0 /\ mapping = FiveLevelPaging)
  BY DEF GInit, WalkInit
<1>6. GTypeOK
  <2>1. \A r \in DOMAIN mem : mem[r] \in Entry
    BY <1>5
  <2>2. page \in 1..5 /\ level \in 0..4 /\ cr4 \subseteq {"LA57"}
    BY <1>5
  <2> QED
    BY <1>4, <2>1, <2>2 DEF GTypeOK
<1>7. WalkInv
  <2>1. virtual_address = pages[GuestPages[page]]
    BY <1>1, <1>5, PageOrder
  <2>2. CASE level = 4 /\ mapping = NoMapping
    <3>1. AtLevel(mem, virtual_address, level, table, writable, user, execute_disable)
      BY <1>5, <2>2, WalkBegins, Zenon
    <3>2. level > 0 /\ level # 0
      BY <2>2
    <3> QED
      BY <2>1, <2>2, <3>1, <3>2, Zenon DEF WalkInv
  <2>3. CASE level = 0 /\ mapping = FiveLevelPaging
    <3>1. "LA57" \in cr4
      BY <1>5, <2>3
    <3>2. ~(level > 0)
      BY <2>3, SMTT(30)
    <3> QED
      BY <2>1, <2>3, <3>1, <3>2, Zenon DEF WalkInv
  <2> QED
    BY <1>5, <2>2, <2>3, Zenon
<1>8. WalkedInv
  BY <1>5, SMTT(30) DEF WalkedInv
<1>9. ResultInv
  BY <1>5 DEF ResultInv
<1> QED
  BY <1>6, <1>7, <1>8, <1>9 DEF GInv

(* An iteration of the loop keeps the invariant.                           *)
LEMMA WalkKeepsGInv == GInv /\ walk_current => GInv'
<1> SUFFICES ASSUME GInv, walk_current PROVE GInv'
  OBVIOUS
<1>0. PICK row : row = <<table, index(virtual_address, level)>>
  BY Zenon
<1>1. PICK entry \in read_entry(row) :
        /\ mem' = Extended(mem, row, entry)
        /\ \/ /\ "PRESENT" \notin entry.flags /\ level' = 0 /\ mapping' = NotPresent(level)
           \/ /\ "PRESENT" \in entry.flags /\ permissions(entry)
              /\ maps_page(entry, level) /\ level' = 0
              /\ mapping' = Mapped(physical(entry, level), level, writable', user', execute_disable')
           \/ /\ "PRESENT" \in entry.flags /\ permissions(entry)
              /\ ~maps_page(entry, level) /\ level' = level - 1
              /\ table' = aligned(entry.address, PAGE_SIZE) /\ mapping' = mapping
  BY <1>0, Zenon DEF walk_current, walk
<1>2. /\ level > 0 /\ virtual_address' = virtual_address /\ pages' = pages /\ page' = page
      /\ mappings' = mappings /\ cr4' = cr4 /\ checked' = checked /\ checked = <<"none">> /\ page <= 4
  BY Zenon DEF walk_current, walk
<1>3. GTypeOK /\ WalkInv /\ WalkedInv
  BY DEF GInv
<1>4. PICK l \in 1..4 : l = level
  BY <1>2, <1>3 DEF GTypeOK
<1>5. /\ entry \in Entry
      /\ row \in DOMAIN mem => entry = mem[row]
  <2>1. CASE row \in DOMAIN mem
    BY <1>1, <1>3, <2>1, Zenon DEF read_entry, GTypeOK
  <2>2. CASE row \notin DOMAIN mem
    <3>1. entry \in Rows[l]
      BY <1>1, <1>4, <2>2, Zenon DEF read_entry
    <3>2. Rows[l] \subseteq Entry
      BY PagingAssumption
    <3> QED
      BY <2>2, <3>1, <3>2, Zenon
  <2> QED
    BY <2>1, <2>2
<1>6. /\ Keeps(mem, mem') /\ row \in DOMAIN (mem') /\ mem'[row] = entry
      /\ \A r \in DOMAIN (mem') : mem'[r] = entry \/ (r \in DOMAIN mem /\ mem'[r] = mem[r])
  <2>1. PICK n, m : n = mem' /\ m = mem
    OBVIOUS
  <2>2. n = Extended(m, row, entry) /\ (row \in DOMAIN m => entry = m[row])
    BY <1>1, <1>5, <2>1, ZenonT(60)
  <2>3. /\ Keeps(m, n) /\ row \in DOMAIN n /\ n[row] = entry
        /\ \A r \in DOMAIN n : n[r] = entry \/ (r \in DOMAIN m /\ n[r] = m[r])
    BY <2>2, RowRead
  <2> QED
    BY <2>1, <2>3, Zenon
<1>7. PICK a : a = virtual_address
  OBVIOUS
<1>8. AtLevel(mem, a, l, table, writable, user, execute_disable) /\ mapping = NoMapping
  BY <1>2, <1>3, <1>4, <1>7, Zenon DEF WalkInv
<1>9. /\ Descends(mem', a, l) /\ Row(mem', a, l) \in DOMAIN (mem') /\ Ent(mem', a, l) = entry
      /\ (writable /\ "WRITABLE" \in entry.flags) = Every("WRITABLE", mem', a, l)
      /\ (user /\ "USER" \in entry.flags) = Every("USER", mem', a, l)
      /\ (execute_disable \/ "EXECUTE_DISABLE" \in entry.flags) = Some("EXECUTE_DISABLE", mem', a, l)
  <2>1. <<table, index(a, l)>> = row
    BY <1>0, <1>4, <1>7, Zenon
  <2>2. PICK n : n = mem'
    OBVIOUS
  <2>3. Keeps(mem, n) /\ <<table, index(a, l)>> \in DOMAIN n /\ n[<<table, index(a, l)>>] = entry
    BY <1>6, <2>1, <2>2, Zenon
  <2>4. PICK t, w, u, x : t = table /\ w = writable /\ u = user /\ x = execute_disable
    OBVIOUS
  <2>5. AtLevel(mem, a, l, t, w, u, x) /\ <<t, index(a, l)>> \in DOMAIN n /\ n[<<t, index(a, l)>>] = entry
    BY <1>8, <2>3, <2>4, Zenon
  <2>6. /\ Descends(n, a, l) /\ Row(n, a, l) \in DOMAIN n /\ Ent(n, a, l) = entry
        /\ (w /\ "WRITABLE" \in entry.flags) = Every("WRITABLE", n, a, l)
        /\ (u /\ "USER" \in entry.flags) = Every("USER", n, a, l)
        /\ (x \/ "EXECUTE_DISABLE" \in entry.flags) = Some("EXECUTE_DISABLE", n, a, l)
    BY <2>3, <2>5, PathGrows, Zenon
  <2> QED
    BY <2>2, <2>4, <2>6, Zenon
<1>10. permissions(entry) =>
         /\ writable' = Every("WRITABLE", mem', a, l)
         /\ user' = Every("USER", mem', a, l)
         /\ execute_disable' = Some("EXECUTE_DISABLE", mem', a, l)
  BY <1>9, Zenon DEF permissions
<1>11. GTypeOK'
  <2>1. \A r \in DOMAIN (mem') : mem'[r] \in Entry
    BY <1>3, <1>5, <1>6, Zenon DEF GTypeOK
  <2>2. level' \in 0..4
    <3>1. level' = 0 \/ level' = level - 1
      BY <1>1, Zenon
    <3> QED
      BY <1>4, <3>1
  <2> QED
    BY <1>2, <1>3, <2>1, <2>2, Zenon DEF GTypeOK
<1>12. WalkInv'
  <2>1. page' <= 4 => virtual_address' = pages'[GuestPages[page']]
    BY <1>2, <1>3, Zenon DEF WalkInv
  <2>2. CASE "PRESENT" \notin entry.flags /\ level' = 0 /\ mapping' = NotPresent(level)
    <3>1. Stops(mem', a, l)
      BY <1>9, <2>2, Zenon DEF Stops, Points
    <3>2. mapping' = Found(mem', a, l)
      BY <1>4, <1>9, <2>2, Zenon DEF Found
    <3>3. ~(level' > 0)
      BY <2>2
    <3> QED
      BY <1>2, <1>7, <2>1, <2>2, <3>1, <3>2, <3>3, Zenon DEF WalkInv
  <2>3. CASE /\ "PRESENT" \in entry.flags /\ permissions(entry)
             /\ maps_page(entry, level) /\ level' = 0
             /\ mapping' = Mapped(physical(entry, level), level, writable', user', execute_disable')
    <3>1. Stops(mem', a, l)
      BY <1>4, <1>9, <2>3, Zenon DEF Stops, Points
    <3>2. physical(entry, level) = Frame(mem', a, l)
      BY <1>4, <1>7, <1>9, Zenon DEF physical, Frame
    <3>3. mapping' = Found(mem', a, l)
      BY <1>4, <1>9, <1>10, <2>3, <3>2, ZenonT(60) DEF Found
    <3>4. ~(level' > 0)
      BY <2>3
    <3> QED
      BY <1>2, <1>7, <2>1, <2>3, <3>1, <3>3, <3>4, Zenon DEF WalkInv
  <2>4. CASE /\ "PRESENT" \in entry.flags /\ permissions(entry)
             /\ ~maps_page(entry, level) /\ level' = level - 1
             /\ table' = aligned(entry.address, PAGE_SIZE) /\ mapping' = mapping
    <3>1. l \in 2..4 /\ level' = l - 1 /\ (l - 1) + 1 = l
      BY <1>4, <2>4 DEF maps_page
    <3>2. PICK n : n = mem'
      OBVIOUS
    <3>3. Descends(n, a, l - 1)
      <4>1. Leads(n, a, l)
        BY <1>4, <1>9, <2>4, <3>2, Zenon DEF Leads, Points
      <4>2. Descends(n, a, l)
        BY <1>9, <3>2, Zenon
      <4> QED
        BY <3>1, <4>1, <4>2 DEF Descends
    <3>4. table' = Tab(n, a, l - 1)
      BY <1>9, <2>4, <3>1, <3>2, TableTypes, Zenon
    <3>5. AtLevel(mem', a, level', table', writable', user', execute_disable')
      BY <1>10, <2>4, <3>1, <3>2, <3>3, <3>4, Zenon DEF AtLevel
    <3>6. level' # 0
      BY <3>1
    <3> QED
      BY <1>2, <1>7, <1>8, <2>1, <2>4, <3>5, <3>6, Zenon DEF WalkInv
  <2> QED
    BY <1>1, <2>2, <2>3, <2>4, Zenon
<1>13. WalkedInv'
  <2> SUFFICES ASSUME NEW i \in 1..4, i < page
               PROVE  /\ GuestPages[i] \in DOMAIN mappings
                      /\ mappings[GuestPages[i]].error = "ok"
                      /\ \E k \in 1..4 :
                           /\ Stops(mem', pages[GuestPages[i]], k)
                           /\ mappings[GuestPages[i]] = Found(mem', pages[GuestPages[i]], k)
    BY <1>2, Zenon DEF WalkedInv
  <2>1. PICK k \in 1..4 : /\ Stops(mem, pages[GuestPages[i]], k)
                          /\ mappings[GuestPages[i]] = Found(mem, pages[GuestPages[i]], k)
    BY <1>3, Zenon DEF WalkedInv
  <2>2. PICK n, b : n = mem' /\ b = pages[GuestPages[i]]
    OBVIOUS
  <2>3. Stops(mem, b, k) /\ Keeps(mem, n)
    BY <1>6, <2>1, <2>2, Zenon
  <2>4. Stops(n, b, k) /\ Found(n, b, k) = Found(mem, b, k)
    BY <2>3, FoundKept, SMTT(30)
  <2> QED
    BY <1>3, <2>1, <2>2, <2>4, Zenon DEF WalkedInv
<1>14. ResultInv'
  BY <1>2 DEF ResultInv
<1> QED
  BY <1>11, <1>12, <1>13, <1>14, Zenon DEF GInv

-----------------------------------------------------------------------------
(* The end of a page's walk keeps the invariant.                           *)
LEMMA PageWalkedKeepsGInv == GInv /\ page_walked => GInv'
<1> SUFFICES ASSUME GInv, page_walked PROVE GInv'
  OBVIOUS
<1>1. GTypeOK /\ WalkInv /\ WalkedInv
  BY Zenon DEF GInv
<1>2. /\ checked = <<"none">> /\ page <= 4 /\ level = 0 /\ pages' = pages /\ cr4' = cr4
  BY DEF page_walked
<1>3. page \in 1..4 /\ virtual_address = pages[GuestPages[page]]
  BY <1>1, <1>2 DEF GTypeOK, WalkInv
<1>4. CASE mapping.error # "ok"
  <2>1. /\ checked' = <<"NotMapped", GuestPages[page]>> /\ walkVars' = walkVars
        /\ mappings' = mappings /\ page' = page
    BY <1>4, Zenon DEF page_walked
  <2>2. /\ mem' = mem /\ virtual_address' = virtual_address /\ level' = level /\ table' = table
        /\ writable' = writable /\ user' = user /\ execute_disable' = execute_disable
        /\ mapping' = mapping
    BY <2>1 DEF walkVars
  <2>3. GTypeOK'
    BY <1>1, <1>2, <2>1, <2>2 DEF GTypeOK
  <2>4. WalkInv' /\ WalkedInv'
    BY <1>1, <1>2, <2>1, <2>2, Zenon DEF WalkInv, WalkedInv
  <2>5. ResultInv'
    BY <1>2, <1>4, <2>1, <2>2, Zenon DEF ResultInv
  <2> QED
    BY <2>3, <2>4, <2>5, Zenon DEF GInv
<1>5. CASE mapping.error = "ok"
  <2>1. /\ mappings' = Extended(mappings, GuestPages[page], mapping)
        /\ page' = page + 1 /\ checked' = checked
        /\ page < 4 => begin_walk(pages[GuestPages[page + 1]], "LA57" \in cr4) /\ mem' = mem
        /\ ~(page < 4) => walkVars' = walkVars
    BY <1>5, ZenonT(40) DEF page_walked
  <2>2. mem' = mem
    BY <2>1, Zenon DEF walkVars
  <2>3. level' \in 0..4
    BY <1>1, <2>1, SMTT(30) DEF begin_walk, walkVars, GTypeOK
  <2>4. GTypeOK'
    BY <1>1, <1>2, <1>3, <2>1, <2>2, <2>3 DEF GTypeOK
  <2>5. WalkInv'
    <3>1. CASE page < 4
      <4>1. /\ virtual_address' = pages[GuestPages[page + 1]] /\ table' = aligned(CR3, PAGE_SIZE)
            /\ writable' = TRUE /\ user' = TRUE /\ execute_disable' = FALSE
            /\ \/ "LA57" \in cr4 /\ level' = 0 /\ mapping' = FiveLevelPaging
               \/ level' = 4 /\ mapping' = NoMapping
        BY <2>1, <3>1, Zenon DEF begin_walk
      <4>2. virtual_address' = pages'[GuestPages[page']]
        BY <1>2, <2>1, <4>1, Zenon
      <4>3. CASE "LA57" \in cr4 /\ level' = 0 /\ mapping' = FiveLevelPaging
        <5>1. ~(level' > 0)
          BY <4>3
        <5> QED
          BY <1>2, <4>2, <4>3, <5>1, Zenon DEF WalkInv
      <4>4. CASE level' = 4 /\ mapping' = NoMapping
        <5>1. level' # 0
          BY <4>4
        <5>2. AtLevel(mem', virtual_address', level', table', writable', user', execute_disable')
          <6>1. AtLevel(mem', virtual_address', 4, aligned(CR3, PAGE_SIZE), TRUE, TRUE, FALSE)
            BY WalkBegins, Zenon
          <6> QED
            BY <4>1, <4>4, <6>1, Zenon
        <5> QED
          BY <4>2, <4>4, <5>1, <5>2, Zenon DEF WalkInv
      <4> QED
        BY <4>1, <4>3, <4>4
    <3>2. CASE ~(page < 4)
      <4>1. /\ virtual_address' = virtual_address /\ level' = level /\ mapping' = mapping
        BY <2>1, <3>2, ZenonT(60) DEF walkVars
      <4>2. ~(page' <= 4) /\ ~(level' > 0)
        BY <1>2, <1>3, <2>1, <3>2, <4>1, SMTT(30)
      <4> QED
        BY <1>1, <1>2, <2>2, <4>1, <4>2, ZenonT(40) DEF WalkInv
    <3> QED
      BY <3>1, <3>2, Zenon
  <2>6. WalkedInv'
    <3> SUFFICES ASSUME NEW i \in 1..4, i < page'
                 PROVE  /\ GuestPages[i] \in DOMAIN (mappings')
                        /\ mappings'[GuestPages[i]].error = "ok"
                        /\ \E l \in 1..4 :
                             /\ Stops(mem, pages[GuestPages[i]], l)
                             /\ mappings'[GuestPages[i]] = Found(mem, pages[GuestPages[i]], l)
      BY <1>2, <2>2, ZenonT(40) DEF WalkedInv
    <3>1. /\ DOMAIN (mappings') = DOMAIN mappings \cup {GuestPages[page]}
          /\ \A p \in DOMAIN (mappings') :
               mappings'[p] = IF p = GuestPages[page] THEN mapping ELSE mappings[p]
      BY <2>1 DEF Extended
    <3>2. CASE i = page
      <4>1. mapping # FiveLevelPaging
        BY <1>5 DEF FiveLevelPaging
      <4>2. PICK l \in 1..4 : /\ Stops(mem, virtual_address, l)
                              /\ mapping = Found(mem, virtual_address, l)
        BY <1>1, <1>2, <4>1, Zenon DEF WalkInv
      <4>3. GuestPages[i] \in DOMAIN (mappings') /\ mappings'[GuestPages[i]] = mapping
        BY <3>1, <3>2, Zenon
      <4> QED
        BY <1>3, <1>5, <3>2, <4>2, <4>3, Zenon
    <3>3. CASE i # page
      <4>1. i < page /\ GuestPages[i] # GuestPages[page]
        BY <1>3, <2>1, <3>3, PageOrder
      <4> QED
        BY <1>1, <3>1, <4>1, ZenonT(40) DEF WalkedInv
    <3> QED
      BY <3>2, <3>3
  <2>7. ResultInv'
    BY <1>2, <2>1 DEF ResultInv
  <2> QED
    BY <2>4, <2>5, <2>6, <2>7, Zenon DEF GInv
<1> QED
  BY <1>4, <1>5

-----------------------------------------------------------------------------
(* check_mappings names the first page that is not mapped to itself, if    *)
(* there is one, and otherwise goes on to the permissions.                 *)
LEMMA IdentityChecked ==
  ASSUME NEW else
  PROVE  \/ \E i \in 1..4 : /\ check_identity(else) = <<"NotIdentityMapped", GuestPages[i]>>
                            /\ mappings[GuestPages[i]].physical # pages[GuestPages[i]]
                            /\ \A j \in 1..4 : j < i =>
                                 mappings[GuestPages[j]].physical = pages[GuestPages[j]]
         \/ /\ check_identity(else) = else
            /\ \A i \in 1..4 : mappings[GuestPages[i]].physical = pages[GuestPages[i]]
<1> DEFINE elsewhere == {i \in 1..4 : mappings[GuestPages[i]].physical # pages[GuestPages[i]]}
           first == CHOOSE i \in elsewhere : \A j \in elsewhere : i <= j
<1>1. check_identity(else) =
        IF elsewhere = {} THEN else ELSE <<"NotIdentityMapped", GuestPages[first]>>
  BY Zenon DEF check_identity
<1>2. elsewhere # {} => \E i \in elsewhere : \A j \in elsewhere : i <= j
  <2> SUFFICES ASSUME NEW S \in SUBSET (1..4), S # {} PROVE \E i \in S : \A j \in S : i <= j
    BY Zenon
  <2>1. CASE 1 \in S
    BY <2>1
  <2>2. CASE 1 \notin S /\ 2 \in S
    BY <2>2
  <2>3. CASE 1 \notin S /\ 2 \notin S /\ 3 \in S
    BY <2>3
  <2>4. CASE 1 \notin S /\ 2 \notin S /\ 3 \notin S
    <3>1. \A i \in S : i = 4
      BY <2>4
    <3>2. PICK i : i \in S
      OBVIOUS
    <3>3. i <= 4
      BY <3>1, <3>2
    <3> QED
      BY <3>1, <3>2, <3>3, Zenon
  <2> QED
    BY <2>1, <2>2, <2>3, <2>4
<1>3. elsewhere # {} => first \in elsewhere /\ \A j \in elsewhere : first <= j
  BY <1>2, Zenon
<1>4. \A i, j \in 1..4 : i <= j => ~(j < i)
  OBVIOUS
<1>5. elsewhere # {} => \A j \in 1..4 : j < first => j \notin elsewhere
  BY <1>3, <1>4, Zenon
<1> QED
  BY <1>1, <1>3, <1>5, Zenon

(* The rest of the checks refuse the first page that the CPU would.        *)
LEMMA PermissionsChecked ==
  ASSUME NEW code, NEW stack, NEW idt, NEW data, NEW bits, NEW r,
         r = check_permissions(code, stack, bits,
               check_idt_permissions(idt, bits, check_data_permissions(data, bits)))
  PROVE  \/ /\ r = <<"ok">>
            /\ ~code.execute_disable /\ ~(code.user /\ "SMEP" \in bits)
            /\ stack.writable /\ ~(stack.user /\ "SMAP" \in bits)
            /\ ~(idt.user /\ "SMAP" \in bits)
            /\ data.writable /\ ~(data.user /\ "SMAP" \in bits)
         \/ r = <<"CodeNotExecutable">> /\ code.execute_disable
         \/ r = <<"CodeBlockedBySmep">> /\ code.user /\ "SMEP" \in bits
         \/ /\ ~code.execute_disable /\ ~(code.user /\ "SMEP" \in bits)
            /\ \/ r = <<"StackNotWritable">> /\ ~stack.writable
               \/ r = <<"StackBlockedBySmap">> /\ stack.user /\ "SMAP" \in bits
               \/ /\ stack.writable /\ ~(stack.user /\ "SMAP" \in bits)
                  /\ \/ r = <<"IdtBlockedBySmap">> /\ idt.user /\ "SMAP" \in bits
                     \/ /\ ~(idt.user /\ "SMAP" \in bits)
                        /\ \/ r = <<"DataNotWritable">> /\ ~data.writable
                           \/ r = <<"DataBlockedBySmap">> /\ data.user /\ "SMAP" \in bits
BY ZenonT(60) DEF check_permissions, check_idt_permissions, check_data_permissions

\* The bits that CpuAllows reads.
Allowed(access, m, wp, bits) ==
  CASE access = "fetch" -> ~m.execute_disable /\ ~(m.user /\ "SMEP" \in bits)
    [] access = "write" -> (m.writable \/ ~wp) /\ ~(m.user /\ "SMAP" \in bits)
    [] access = "gate" -> ~(m.user /\ "SMAP" \in bits)

(* What each access needs.                                                 *)
LEMMA AccessRules ==
  ASSUME NEW m, NEW wp, NEW bits
  PROVE  /\ Allowed("fetch", m, wp, bits) <=> ~m.execute_disable /\ ~(m.user /\ "SMEP" \in bits)
         /\ Allowed("write", m, wp, bits) <=> (m.writable \/ ~wp) /\ ~(m.user /\ "SMAP" \in bits)
         /\ Allowed("gate", m, wp, bits) <=> ~(m.user /\ "SMAP" \in bits)
<1>1. "fetch" # "write" /\ "fetch" # "gate" /\ "write" # "gate"
  OBVIOUS
<1> QED
  BY <1>1, SMT DEF Allowed

(* What the guest does with each page.                                     *)
LEMMA Accesses ==
  /\ GuestAccess["code"] = "fetch" /\ GuestAccess["stack"] = "write"
  /\ GuestAccess["idt"] = "gate" /\ GuestAccess["data"] = "write"
BY DEF GuestAccess

(* The checks at the end keep the invariant.                               *)
LEMMA CheckKeepsGInv == GInv /\ check_mappings => GInv'
<1> SUFFICES ASSUME GInv, check_mappings PROVE GInv'
  OBVIOUS
<1>1. GTypeOK /\ WalkInv /\ WalkedInv
  BY DEF GInv
<1>2. PICK bits \in SUBSET {"SMEP", "SMAP"} :
        /\ cr4' = cr4 \cup bits
        /\ checked' = check_identity(
                       check_permissions(mappings["code"], mappings["stack"], bits,
                         check_idt_permissions(mappings["idt"], bits,
                           check_data_permissions(mappings["data"], bits))))
  BY DEF check_mappings
<1>3. /\ checked = <<"none">> /\ page = 5 /\ pages' = pages /\ page' = page /\ mappings' = mappings
      /\ mem' = mem /\ virtual_address' = virtual_address /\ level' = level /\ table' = table
      /\ writable' = writable /\ user' = user /\ execute_disable' = execute_disable
      /\ mapping' = mapping
  BY DEF check_mappings, walkVars
<1>4. /\ "SMEP" \in cr4' <=> "SMEP" \in bits
      /\ "SMAP" \in cr4' <=> "SMAP" \in bits
  BY <1>1, <1>2, <1>3 DEF GTypeOK
<1>5. PICK else : else = check_permissions(mappings["code"], mappings["stack"], bits,
                           check_idt_permissions(mappings["idt"], bits,
                             check_data_permissions(mappings["data"], bits)))
  OBVIOUS
<1>6. \A p \in PageNames :
        Serves(p)' <=> /\ mappings[p].physical = pages[p]
                       /\ Allowed(GuestAccess[p], mappings[p], TRUE, bits)
  <2>1. \A access, m, wp : CpuAllows(access, m, wp)' <=> Allowed(access, m, wp, bits)
    BY <1>4, ZenonT(40) DEF CpuAllows, Allowed
  <2> QED
    BY <1>3, <2>1, Zenon DEF Serves
<1>7. /\ <<"ok">> # <<"none">> /\ \A p : <<"NotIdentityMapped", p>> # <<"none">>
      /\ \A e \in MappingErrors : <<e>> # <<"none">>
  BY DEF MappingErrors
<1>8. ResultInv' /\ checked' # <<"none">>
  <2>1. \/ \E i \in 1..4 : /\ checked' = <<"NotIdentityMapped", GuestPages[i]>>
                           /\ mappings[GuestPages[i]].physical # pages[GuestPages[i]]
                           /\ \A j \in 1..4 : j < i =>
                                mappings[GuestPages[j]].physical = pages[GuestPages[j]]
        \/ /\ checked' = else
           /\ \A i \in 1..4 : mappings[GuestPages[i]].physical = pages[GuestPages[i]]
    BY <1>2, <1>5, IdentityChecked, Zenon
  <2>2. CASE \E i \in 1..4 : /\ checked' = <<"NotIdentityMapped", GuestPages[i]>>
                             /\ mappings[GuestPages[i]].physical # pages[GuestPages[i]]
                             /\ \A j \in 1..4 : j < i =>
                                  mappings[GuestPages[j]].physical = pages[GuestPages[j]]
    <3>1. PICK i \in 1..4 : /\ checked' = <<"NotIdentityMapped", GuestPages[i]>>
                            /\ mappings[GuestPages[i]].physical # pages[GuestPages[i]]
                            /\ \A j \in 1..4 : j < i =>
                                 mappings[GuestPages[j]].physical = pages[GuestPages[j]]
      BY <2>2
    <3>2. GuestPages[i] \in PageNames
      BY PageOrder
    <3>3. ~Serves(GuestPages[i])'
      BY <1>6, <3>1, <3>2, Zenon
    <3>4. \A q \in Earlier[GuestPages[i]] : mappings'[q].physical = pages'[q]
      <4>1. \A q \in Earlier[GuestPages[i]] : \E j \in 1..4 : j < i /\ q = GuestPages[j]
        BY EarlierPages
      <4> QED
        BY <1>3, <3>1, <4>1, Zenon
    <3> QED
      BY <1>3, <1>7, <3>1, <3>2, <3>3, <3>4, ZenonT(40) DEF ResultInv
  <2>3. CASE /\ checked' = else
             /\ \A i \in 1..4 : mappings[GuestPages[i]].physical = pages[GuestPages[i]]
    <3>1. \A p \in PageNames : mappings[p].physical = pages[p]
      <4>1. \A p \in PageNames : \E i \in 1..4 : GuestPages[i] = p
        BY PageOrder
      <4> QED
        BY <2>3, <4>1, ZenonT(40)
    <3>2. PICK code, stack, idt, data :
            /\ code = mappings["code"] /\ stack = mappings["stack"]
            /\ idt = mappings["idt"] /\ data = mappings["data"]
      BY Zenon
    <3>3. \/ /\ else = <<"ok">>
             /\ ~code.execute_disable /\ ~(code.user /\ "SMEP" \in bits)
             /\ stack.writable /\ ~(stack.user /\ "SMAP" \in bits)
             /\ ~(idt.user /\ "SMAP" \in bits)
             /\ data.writable /\ ~(data.user /\ "SMAP" \in bits)
          \/ else = <<"CodeNotExecutable">> /\ code.execute_disable
          \/ else = <<"CodeBlockedBySmep">> /\ code.user /\ "SMEP" \in bits
          \/ /\ ~code.execute_disable /\ ~(code.user /\ "SMEP" \in bits)
             /\ \/ else = <<"StackNotWritable">> /\ ~stack.writable
                \/ else = <<"StackBlockedBySmap">> /\ stack.user /\ "SMAP" \in bits
                \/ /\ stack.writable /\ ~(stack.user /\ "SMAP" \in bits)
                   /\ \/ else = <<"IdtBlockedBySmap">> /\ idt.user /\ "SMAP" \in bits
                      \/ /\ ~(idt.user /\ "SMAP" \in bits)
                         /\ \/ else = <<"DataNotWritable">> /\ ~data.writable
                            \/ else = <<"DataBlockedBySmap">> /\ data.user /\ "SMAP" \in bits
      <4>1. else = check_permissions(code, stack, bits,
                     check_idt_permissions(idt, bits, check_data_permissions(data, bits)))
        BY <1>5, <3>2, Zenon
      <4> QED
        BY <4>1, PermissionsChecked
    <3>4. "code" \in PageNames /\ "stack" \in PageNames /\ "idt" \in PageNames /\ "data" \in PageNames
          /\ \A p \in PageNames : p = "code" \/ p = "stack" \/ p = "idt" \/ p = "data"
      BY DEF PageNames
    <3>5. /\ Serves("code")' <=> ~code.execute_disable /\ ~(code.user /\ "SMEP" \in bits)
          /\ Serves("stack")' <=> stack.writable /\ ~(stack.user /\ "SMAP" \in bits)
          /\ Serves("idt")' <=> ~(idt.user /\ "SMAP" \in bits)
          /\ Serves("data")' <=> data.writable /\ ~(data.user /\ "SMAP" \in bits)
      <4>1. /\ Serves("code")' <=> Allowed("fetch", code, TRUE, bits)
            /\ Serves("stack")' <=> Allowed("write", stack, TRUE, bits)
            /\ Serves("idt")' <=> Allowed("gate", idt, TRUE, bits)
            /\ Serves("data")' <=> Allowed("write", data, TRUE, bits)
        BY <1>6, <3>1, <3>2, <3>4, Accesses, Zenon
      <4> QED
        BY <4>1, AccessRules, Zenon
    <3>6. CASE /\ else = <<"ok">> /\ Serves("code")' /\ Serves("stack")'
               /\ Serves("idt")' /\ Serves("data")'
      BY <1>3, <1>7, <2>3, <3>4, <3>6, Zenon DEF ResultInv
    <3>7. CASE \E e \in MappingErrors : /\ else = <<e>> /\ ~Serves(PageOf[e])'
                                        /\ \A q \in Earlier[PageOf[e]] : Serves(q)'
      BY <1>3, <1>7, <2>3, <3>1, <3>7, Zenon DEF ResultInv
    <3>8. /\ PageOf["CodeNotExecutable"] = "code" /\ PageOf["CodeBlockedBySmep"] = "code"
          /\ PageOf["StackNotWritable"] = "stack" /\ PageOf["StackBlockedBySmap"] = "stack"
          /\ PageOf["IdtBlockedBySmap"] = "idt" /\ PageOf["DataNotWritable"] = "data"
          /\ PageOf["DataBlockedBySmap"] = "data"
      BY Zenon DEF PageOf
    <3>9. /\ "CodeNotExecutable" \in MappingErrors /\ "CodeBlockedBySmep" \in MappingErrors
          /\ "StackNotWritable" \in MappingErrors /\ "StackBlockedBySmap" \in MappingErrors
          /\ "IdtBlockedBySmap" \in MappingErrors /\ "DataNotWritable" \in MappingErrors
          /\ "DataBlockedBySmap" \in MappingErrors
      BY DEF MappingErrors
    <3>10. /\ \A q : q \notin Earlier["code"]
           /\ Serves("code")' => \A q \in Earlier["stack"] : Serves(q)'
           /\ Serves("code")' /\ Serves("stack")' => \A q \in Earlier["idt"] : Serves(q)'
           /\ Serves("code")' /\ Serves("stack")' /\ Serves("idt")' =>
                \A q \in Earlier["data"] : Serves(q)'
      BY EarlierPages, Zenon
    <3>11. CASE \/ else = <<"CodeNotExecutable">> /\ code.execute_disable
                \/ else = <<"CodeBlockedBySmep">> /\ code.user /\ "SMEP" \in bits
      BY <3>5, <3>7, <3>8, <3>9, <3>10, <3>11, Zenon
    <3>12. CASE /\ Serves("code")'
                /\ \/ else = <<"StackNotWritable">> /\ ~stack.writable
                   \/ else = <<"StackBlockedBySmap">> /\ stack.user /\ "SMAP" \in bits
      BY <3>5, <3>7, <3>8, <3>9, <3>10, <3>12, Zenon
    <3>13. CASE /\ Serves("code")' /\ Serves("stack")'
                /\ else = <<"IdtBlockedBySmap">> /\ idt.user /\ "SMAP" \in bits
      BY <3>5, <3>7, <3>8, <3>9, <3>10, <3>13, Zenon
    <3>14. CASE /\ Serves("code")' /\ Serves("stack")' /\ Serves("idt")'
                /\ \/ else = <<"DataNotWritable">> /\ ~data.writable
                   \/ else = <<"DataBlockedBySmap">> /\ data.user /\ "SMAP" \in bits
      BY <3>5, <3>7, <3>8, <3>9, <3>10, <3>14, ZenonT(60)
    <3> QED
      BY <3>3, <3>5, <3>6, <3>11, <3>12, <3>13, <3>14, Zenon
  <2> QED
    BY <2>1, <2>2, <2>3
<1>9. GTypeOK'
  BY <1>1, <1>2, <1>3, <1>8 DEF GTypeOK
<1>10. WalkInv'
  BY <1>1, <1>2, <1>3, Zenon DEF WalkInv
<1>11. WalkedInv'
  BY <1>1, <1>3, Zenon DEF WalkedInv
<1> QED
  BY <1>8, <1>9, <1>10, <1>11, Zenon DEF GInv

-----------------------------------------------------------------------------
(* The invariant holds in every reachable state.                           *)
THEOREM MappingsInvariant == GSpec => []GInv
<1>1. GInit => GInv
  BY InitGInv
<1>2. GInv /\ [GNext]_gvars => GInv'
  <2> SUFFICES ASSUME GInv, [GNext]_gvars PROVE GInv'
    OBVIOUS
  <2>1. CASE walk_current
    BY <2>1, WalkKeepsGInv
  <2>2. CASE page_walked
    BY <2>2, PageWalkedKeepsGInv
  <2>3. CASE check_mappings
    BY <2>3, CheckKeepsGInv
  <2>4. CASE UNCHANGED gvars
    <3>1. /\ mem' = mem /\ virtual_address' = virtual_address /\ level' = level /\ table' = table
          /\ writable' = writable /\ user' = user /\ execute_disable' = execute_disable
          /\ mapping' = mapping /\ pages' = pages /\ page' = page /\ mappings' = mappings
          /\ cr4' = cr4 /\ checked' = checked
      BY <2>4 DEF gvars, walkVars
    <3>2. GTypeOK' /\ WalkInv' /\ WalkedInv'
      BY <3>1, Zenon DEF GInv, GTypeOK, WalkInv, WalkedInv
    <3>3. ResultInv'
      <4>1. \A p : Serves(p)' <=> Serves(p)
        BY <3>1, Zenon DEF Serves, CpuAllows
      <4>2. ResultInv
        BY DEF GInv
      <4> QED
        BY <3>1, <4>1, <4>2, Zenon DEF ResultInv
    <3> QED
      BY <3>2, <3>3, Zenon DEF GInv
  <2> QED
    BY <2>1, <2>2, <2>3, <2>4 DEF GNext
<1> QED
  BY <1>1, <1>2, PTL DEF GSpec

(* Whatever the tables hold, the loop in walk returns what the CPU finds   *)
(* in them: the same missing level, or the same address, page size and     *)
(* permissions.                                                            *)
THEOREM WalkIsCpus == GSpec => []WalkMatchesCpu
<1>1. GInv => WalkMatchesCpu
  <2> SUFFICES ASSUME GInv, mapping.error \in {"ok", "NotPresent"}
               PROVE  mapping = CpuTranslation(virtual_address)
    BY DEF WalkMatchesCpu
  <2>1. mapping # NoMapping /\ mapping # FiveLevelPaging
    BY DEF NoMapping, FiveLevelPaging
  <2>2. level \in 0..4 /\ \A r \in DOMAIN mem : mem[r] \in Entry
    BY DEF GInv, GTypeOK
  <2>3. level = 0
    <3>1. ~(level > 0)
      BY <2>1, Zenon DEF GInv, WalkInv
    <3> QED
      BY <2>2, <3>1
  <2>4. PICK l \in 1..4 : /\ Stops(mem, virtual_address, l)
                          /\ mapping = Found(mem, virtual_address, l)
    BY <2>1, <2>3, Zenon DEF GInv, WalkInv
  <2> QED
    BY <2>2, <2>4, CpuFound, Zenon
<1> QED
  BY <1>1, MappingsInvariant, PTL

(* The fields of a mapping that was found.                                 *)
LEMMA MappedFields ==
  ASSUME NEW p, NEW l, NEW w, NEW u, NEW x
  PROVE  /\ Mapped(p, l, w, u, x).error = "ok" /\ Mapped(p, l, w, u, x).physical = p
         /\ Mapped(p, l, w, u, x).writable = w /\ Mapped(p, l, w, u, x).user = u
         /\ Mapped(p, l, w, u, x).execute_disable = x
BY DEF Mapped

\* The translation m has the permissions of f, off bytes further on.
Beyond(m, f, off) ==
  /\ m.error = "ok" /\ f.physical \in Nat /\ m.physical = f.physical + off
  /\ m.writable = f.writable /\ m.user = f.user
  /\ m.execute_disable = f.execute_disable

(* With its first byte mapped, every byte of a page is, by one entry.      *)
LEMMA WholePage ==
  ASSUME NEW a \in Nat, a % PAGE_SIZE = 0, NEW off \in 0..PAGE_SIZE-1, NEW l \in 1..4,
         \A r \in DOMAIN mem : mem[r] \in Entry,
         Stops(mem, a, l), Found(mem, a, l).error = "ok"
  PROVE  Beyond(CpuTranslation(a + off), Found(mem, a, l), off)
<1>0. PICK b : b = a + off
  BY Zenon
<1>1. /\ Stops(mem, b, l) /\ Frame(mem, b, l) = Frame(mem, a, l) + off
      /\ \A k \in 1..4 : Ent(mem, b, k) = Ent(mem, a, k)
  BY <1>0, OffsetFound
<1>2. CpuTranslation(b) = Found(mem, b, l)
  BY <1>1, CpuFound
<1>3. "PRESENT" \in Ent(mem, a, l).flags
  <2>1. \A k : NotPresent(k).error # "ok"
    BY DEF NotPresent
  <2> QED
    BY <2>1, Zenon DEF Found
<1>4. PICK w, u, x : /\ w = Every("WRITABLE", mem, a, l) /\ u = Every("USER", mem, a, l)
                     /\ x = Some("EXECUTE_DISABLE", mem, a, l)
  OBVIOUS
<1>5. Found(mem, a, l) = Mapped(Frame(mem, a, l), l, w, u, x)
  BY <1>3, <1>4, Zenon DEF Found
<1>6. /\ Every("WRITABLE", mem, b, l) = w /\ Every("USER", mem, b, l) = u
      /\ Some("EXECUTE_DISABLE", mem, b, l) = x
  BY <1>1, <1>4, Zenon DEF Every, Some
<1>7. Found(mem, b, l) = Mapped(Frame(mem, a, l) + off, l, w, u, x)
  BY <1>1, <1>3, <1>6, Zenon DEF Found
<1>8. /\ CpuTranslation(b).error = "ok" /\ CpuTranslation(b).physical = Frame(mem, a, l) + off
      /\ CpuTranslation(b).writable = w /\ CpuTranslation(b).user = u
      /\ CpuTranslation(b).execute_disable = x
  <2>1. PICK y : y = Frame(mem, a, l) + off
    OBVIOUS
  <2>2. CpuTranslation(b) = Mapped(y, l, w, u, x)
    BY <1>2, <1>7, <2>1, Zenon
  <2> QED
    BY <2>1, <2>2, MappedFields
<1>9. /\ Found(mem, a, l).physical = Frame(mem, a, l)
      /\ Found(mem, a, l).writable = w /\ Found(mem, a, l).user = u
      /\ Found(mem, a, l).execute_disable = x
  <2>1. PICK y : y = Frame(mem, a, l)
    OBVIOUS
  <2>2. Found(mem, a, l) = Mapped(y, l, w, u, x)
    BY <1>5, <2>1, Zenon
  <2> QED
    BY <2>1, <2>2, MappedFields
<1>10. Frame(mem, a, l) \in Nat
  <2>1. Ent(mem, a, l).address \in Nat
    BY DEF Stops, Ent, Entry
  <2>2. PICK z \in Nat \ {0} : z = Size[l]
    BY Sizes
  <2>3. aligned(Ent(mem, a, l).address, z) \in Nat
    BY <2>1, Aligned, Zenon
  <2>4. a % z \in Nat
    OBVIOUS
  <2>5. aligned(Ent(mem, a, l).address, z) + (a % z) \in Nat
    BY <2>3, <2>4
  <2> QED
    BY <2>2, <2>5, Zenon DEF Frame
<1> QED
  BY <1>0, <1>8, <1>9, <1>10, Zenon DEF Beyond

(* Once all four pages have been walked, a byte of one is usable exactly   *)
(* when its recorded mapping is the identity and allows the access.        *)
LEMMA UsableIfServed ==
  ASSUME GInv, page = 5, NEW p \in PageNames, NEW off \in 0..PAGE_SIZE-1, NEW wp \in BOOLEAN
  PROVE  Usable(p, off, wp) <=> /\ mappings[p].physical = pages[p]
                                /\ CpuAllows(GuestAccess[p], mappings[p], wp)
<1>1. PICK i \in 1..4 : GuestPages[i] = p
  BY PageOrder
<1>2. i < page
  OBVIOUS
<1>3. PICK l \in 1..4 : /\ Stops(mem, pages[p], l) /\ mappings[p].error = "ok"
                        /\ mappings[p] = Found(mem, pages[p], l)
  BY <1>1, <1>2, Zenon DEF GInv, WalkedInv
<1>4. PICK a \in Nat : a = pages[p] /\ a % PAGE_SIZE = 0
  BY DEF GInv, GTypeOK
<1>5. \A r \in DOMAIN mem : mem[r] \in Entry
  BY DEF GInv, GTypeOK
<1>6. PICK m, f : m = CpuTranslation(a + off) /\ f = Found(mem, a, l)
  OBVIOUS
<1>7. Stops(mem, a, l) /\ Found(mem, a, l).error = "ok" /\ f = mappings[p]
  BY <1>3, <1>4, <1>6, Zenon
<1>8. /\ m.error = "ok" /\ f.physical \in Nat /\ m.physical = f.physical + off
      /\ m.writable = f.writable /\ m.user = f.user /\ m.execute_disable = f.execute_disable
  <2>1. Beyond(CpuTranslation(a + off), Found(mem, a, l), off)
    BY <1>4, <1>5, <1>7, WholePage
  <2> QED
    BY <1>6, <2>1, ZenonT(60) DEF Beyond
<1>9. CpuAllows(GuestAccess[p], m, wp) <=> CpuAllows(GuestAccess[p], f, wp)
  BY <1>8, Zenon DEF CpuAllows
<1>10. Usable(p, off, wp) <=> /\ m.error = "ok" /\ m.physical = pages[p] + off
                              /\ CpuAllows(GuestAccess[p], m, wp)
  BY <1>4, <1>6, Zenon DEF Usable
<1>11. m.physical = pages[p] + off <=> f.physical = pages[p]
  BY <1>4, <1>8
<1> QED
  BY <1>7, <1>8, <1>9, <1>10, <1>11, Zenon

(* Accepted pages can be used by the guest, every byte of them, whether or *)
(* not CR0.WP is set: check_mappings walks for one address per page.       *)
THEOREM AcceptedAreUsable == GSpec => []AcceptedPagesUsable
<1>1. GInv => AcceptedPagesUsable
  <2> SUFFICES ASSUME GInv, checked = <<"ok">>, NEW p \in PageNames,
                      NEW off \in 0..PAGE_SIZE-1, NEW wp \in BOOLEAN
               PROVE  Usable(p, off, wp)
    BY Zenon DEF AcceptedPagesUsable
  <2>1. page = 5 /\ Serves(p)
    <3>1. /\ <<"ok">> # <<"none">> /\ \A x, y : <<x, y>> # <<"ok">>
          /\ \A e \in MappingErrors : <<e>> # <<"ok">>
      BY DEF MappingErrors
    <3> QED
      BY <3>1, Zenon DEF GInv, ResultInv
  <2>2. CpuAllows(GuestAccess[p], mappings[p], TRUE) => CpuAllows(GuestAccess[p], mappings[p], wp)
    <3>1. \A access, m, w : CpuAllows(access, m, w) <=> Allowed(access, m, w, cr4)
      BY Zenon DEF CpuAllows, Allowed
    <3>2. GuestAccess[p] = "fetch" \/ GuestAccess[p] = "write" \/ GuestAccess[p] = "gate"
      BY Accesses DEF PageNames
    <3>3. PICK m : m = mappings[p]
      OBVIOUS
    <3>4. \A w : /\ Allowed("fetch", m, w, cr4) <=> ~m.execute_disable /\ ~(m.user /\ "SMEP" \in cr4)
                 /\ Allowed("write", m, w, cr4) <=> (m.writable \/ ~w) /\ ~(m.user /\ "SMAP" \in cr4)
                 /\ Allowed("gate", m, w, cr4) <=> ~(m.user /\ "SMAP" \in cr4)
      BY AccessRules, Zenon
    <3> QED
      BY <3>1, <3>2, <3>3, <3>4, Zenon
  <2> QED
    BY <2>1, <2>2, UsableIfServed, Zenon DEF Serves
<1> QED
  BY <1>1, MappingsInvariant, PTL

(* A page whose walk is over is mapped in the tables as recorded.          *)
LEMMA RecordedIsCpus ==
  ASSUME GInv, NEW i \in 1..4, i < page
  PROVE  /\ CpuTranslation(pages[GuestPages[i]]) = mappings[GuestPages[i]]
         /\ mappings[GuestPages[i]].error = "ok"
<1>1. /\ mappings[GuestPages[i]].error = "ok"
      /\ \E l \in 1..4 : /\ Stops(mem, pages[GuestPages[i]], l)
                         /\ mappings[GuestPages[i]] = Found(mem, pages[GuestPages[i]], l)
  BY Zenon DEF GInv, WalkedInv
<1>2. \A r \in DOMAIN mem : mem[r] \in Entry
  BY Zenon DEF GInv, GTypeOK
<1> QED
  BY <1>1, <1>2, CpuFound, Zenon

\* The tables map the page, and to itself.
IsMapped(q) == CpuTranslation(pages[q]).error = "ok"
ToItself(q) == IsMapped(q) /\ CpuTranslation(pages[q]).physical = pages[q]

\* The page an error is about.
Named == IF checked[1] \in MappingErrors THEN PageOf[checked[1]] ELSE checked[2]

(* What check_mappings refuses, with CR0.WP set and four-level paging, the *)
(* guest could not have used, and everything it checked before was so in   *)
(* the tables: the error it returns is about the first page of the first   *)
(* check that fails.                                                       *)
THEOREM RefusedAreUnusable == GSpec => []RefusedPageUnusable
<1>1. GInv => RefusedPageUnusable
  <2> SUFFICES ASSUME GInv, checked \notin {<<"none">>, <<"ok">>}, "LA57" \notin cr4
               PROVE  /\ ~Usable(Named, 0, TRUE)
                      /\ checked[1] = "NotMapped" => \A q \in Earlier[Named] : IsMapped(q)
                      /\ checked[1] = "NotIdentityMapped" =>
                           /\ \A q \in PageNames : IsMapped(q)
                           /\ \A q \in Earlier[Named] : ToItself(q)
                      /\ checked[1] \in MappingErrors =>
                           /\ \A q \in PageNames : ToItself(q)
                           /\ \A q \in Earlier[Named] : Usable(q, 0, TRUE)
    BY Zenon DEF RefusedPageUnusable, Named, PageOf, IsMapped, ToItself
  <2>0. 0 \in 0..PAGE_SIZE-1
    BY PagingAssumption
  <2>1. CASE page = 5
    <3>1. \A p \in PageNames : Serves(p) <=> Usable(p, 0, TRUE)
      BY <2>0, <2>1, UsableIfServed, Zenon DEF Serves
    <3>2. \A p \in PageNames : IsMapped(p) /\ (mappings[p].physical = pages[p] => ToItself(p))
      <4> SUFFICES ASSUME NEW p \in PageNames
                   PROVE  IsMapped(p) /\ (mappings[p].physical = pages[p] => ToItself(p))
        OBVIOUS
      <4>1. PICK i \in 1..4 : p = GuestPages[i]
        BY PageOrder
      <4>2. i < page
        BY <2>1, SMTT(30)
      <4>3. CpuTranslation(pages[p]) = mappings[p] /\ mappings[p].error = "ok"
        BY <4>1, <4>2, RecordedIsCpus
      <4> QED
        BY <4>3, Zenon DEF IsMapped, ToItself
    <3>3. ASSUME NEW p \in PageNames, checked = <<"NotIdentityMapped", p>>, ~Serves(p),
                 \A q \in Earlier[p] : mappings[q].physical = pages[q]
          PROVE  /\ ~Usable(Named, 0, TRUE) /\ checked[1] = "NotIdentityMapped"
                 /\ checked[1] # "NotMapped" /\ checked[1] \notin MappingErrors
                 /\ \A q \in Earlier[Named] : ToItself(q)
      <4>1. /\ checked[1] = "NotIdentityMapped" /\ checked[1] # "NotMapped"
            /\ checked[1] \notin MappingErrors /\ checked[2] = p
        BY <3>3 DEF MappingErrors
      <4>2. Named = p
        BY <4>1, Zenon DEF Named
      <4>3. Earlier[p] \subseteq PageNames
        BY EarlierPages, Zenon
      <4> QED
        BY <3>1, <3>2, <3>3, <4>1, <4>2, <4>3, Zenon
    <3>4. ASSUME NEW e \in MappingErrors, checked = <<e>>, ~Serves(PageOf[e]),
                 \A q \in Earlier[PageOf[e]] : Serves(q)
          PROVE  /\ ~Usable(Named, 0, TRUE) /\ checked[1] \in MappingErrors
                 /\ checked[1] # "NotMapped" /\ checked[1] # "NotIdentityMapped"
                 /\ \A q \in Earlier[Named] : Usable(q, 0, TRUE)
      <4>1. checked[1] = e /\ e # "NotMapped" /\ e # "NotIdentityMapped"
        BY <3>4 DEF MappingErrors
      <4>2. Named = PageOf[e]
        BY <4>1, ZenonT(60) DEF Named
      <4>3. PageOf[e] \in PageNames
        BY DEF PageOf, PageNames, MappingErrors
      <4>4. Earlier[PageOf[e]] \subseteq PageNames
        BY <4>3, EarlierPages, Zenon
      <4> QED
        BY <3>1, <3>4, <4>1, <4>2, <4>3, <4>4, Zenon
    <3>5. ~(page <= 4)
      BY <2>1
    <3>6. CASE \E p \in PageNames : /\ checked = <<"NotIdentityMapped", p>> /\ ~Serves(p)
                                    /\ \A q \in Earlier[p] : mappings[q].physical = pages[q]
      BY <3>2, <3>3, <3>6, Zenon
    <3>7. CASE /\ \A q \in PageNames : mappings[q].physical = pages[q]
               /\ \E e \in MappingErrors : /\ checked = <<e>> /\ ~Serves(PageOf[e])
                                           /\ \A q \in Earlier[PageOf[e]] : Serves(q)
      BY <3>2, <3>4, <3>7, Zenon
    <3> QED
      BY <3>5, <3>6, <3>7, Zenon DEF GInv, ResultInv
  <2>2. CASE page # 5
    <3>1. /\ page <= 4 /\ level = 0 /\ mapping.error # "ok"
          /\ checked = <<"NotMapped", GuestPages[page]>>
      BY <2>2, Zenon DEF GInv, ResultInv
    <3>2. PICK p : p = GuestPages[page]
      OBVIOUS
    <3>3. /\ checked[1] = "NotMapped" /\ checked[1] # "NotIdentityMapped"
          /\ checked[1] \notin MappingErrors /\ checked[2] = p
      BY <3>1, <3>2 DEF MappingErrors
    <3>4. virtual_address = pages[p]
      BY <3>1, <3>2, Zenon DEF GInv, WalkInv
    <3>5. PICK l \in 1..4 : /\ Stops(mem, virtual_address, l)
                            /\ mapping = Found(mem, virtual_address, l)
      BY <3>1, <3>4, Zenon DEF GInv, WalkInv
    <3>6. mapping = CpuTranslation(pages[p])
      BY <3>4, <3>5, CpuFound, Zenon DEF GInv, GTypeOK
    <3>7. page \in 1..4
      BY <3>1 DEF GInv, GTypeOK
    <3>8. pages[p] + 0 = pages[p]
      <4>1. p \in PageNames
        BY <3>2, <3>7, PageOrder
      <4>2. pages[p] \in Nat
        BY <4>1 DEF GInv, GTypeOK
      <4> QED
        BY <4>2
    <3>9. Named = p
      BY <3>3, Zenon DEF Named
    <3>10. ~Usable(p, 0, TRUE)
      BY <3>1, <3>6, <3>8, Zenon DEF Usable
    <3>11. \A q \in Earlier[p] : IsMapped(q)
      <4> SUFFICES ASSUME NEW q \in Earlier[p] PROVE IsMapped(q)
        OBVIOUS
      <4>1. PICK j \in 1..4 : j < page /\ q = GuestPages[j]
        BY <3>2, <3>7, EarlierPages, ZenonT(60)
      <4>2. CpuTranslation(pages[GuestPages[j]]).error = "ok"
        BY <4>1, RecordedIsCpus
      <4> QED
        BY <4>1, <4>2, Zenon DEF IsMapped
    <3> QED
      BY <3>3, <3>9, <3>10, <3>11, Zenon
  <2> QED
    BY <2>1, <2>2, Zenon
<1> QED
  BY <1>1, MappingsInvariant, PTL

=============================================================================
