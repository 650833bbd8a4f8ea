------------------------------- MODULE BringUp -------------------------------
(***************************************************************************)
(* Bring-up and teardown (src/bring_up/, src/vmx/vmxon.rs, src/main.rs):   *)
(* what happens to the CPU state that belongs to the firmware between main *)
(* and the return to the firmware, whichever step fails.                   *)
(*                                                                         *)
(* The guest's run is one step here, launch.  The ways it can end and the  *)
(* output phase it ends in are the interface ExitHandler!StopTellsPhase    *)
(* states; that it ends is GuestRun!RunEnds.                               *)
(***************************************************************************)
EXTENDS Integers, Sequences

VARIABLES pc,          \* the step bring-up is at
          step,        \* position in EnterSteps or PrepareSteps
          cpu,         \* the registers firmware expects to find again
          phase,       \* the output phase
          firmware_if, \* FirmwareState.interrupts_enabled
          original_cr, \* VmxOperation.original_cr0 and original_cr4
          firmware_cr, \* the firmware's CR0 and CR4 (history)
          result,      \* of launch_guest, later of run: "ok" or an error
          left,        \* of teardown: "ok" or its first error
          failures,    \* every failure so far, in order (history)
          status       \* what main returns

vars == <<pc, step, cpu, phase, firmware_if, original_cr, firmware_cr, result, left,
          failures, status>>
saved == <<firmware_if, original_cr, firmware_cr>>

\* The allocations and checks of enter_vmx before VMXON, in order.
EnterSteps == <<"VmExitStack", "GuestMemory", "GuestMappings", "ExitBitmaps",
                "VmxSupport", "EptSupport", "Ept">>

\* The steps of prepare_vmcs, in order.
PrepareSteps == <<"self-test", "control setup", "EPT pointer setup",
                  "exit bitmap setup", "host-state setup",
                  "exit-control readback", "host entry address setup",
                  "guest-state collection", "guest-state write">>

Errors == {EnterSteps[i] : i \in DOMAIN EnterSteps}
  \cup {PrepareSteps[i] : i \in DOMAIN PrepareSteps}
  \cup {"Gdt", "ActivationVerificationFailed", "VmxOn", "creation",
        "HostTablesChanged", "launch", "UnexpectedExit", "ResumeFailed",
        "Vmclear", "Vmxoff"}

(* gdtr and idtr: "firmware" is the firmware's own base and limit, "host"  *)
(* the GDT copy with the TSS, "exit" what a VM exit loads (the host base   *)
(* with limit 0xFFFF), "changed" anything else.  cr is CR0 and CR4, sets   *)
(* of bits: VMXE, one that VMX operation requires, one that it forbids and *)
(* one it leaves alone.  vmcs is the VMCS that is current, if any; iflag   *)
(* is RFLAGS.IF.                                                           *)
CrBits == {"VMXE", "required", "forbidden", "free"}
Crs == [cr0 : SUBSET (CrBits \ {"VMXE"}), cr4 : SUBSET CrBits]
Cpu == [gdtr : {"firmware", "host", "exit", "changed"},
        idtr : {"firmware", "exit", "changed"},
        iflag : {0, 1}, vmx : {"off", "root"}, cr : Crs,
        vmcs : {"none", "current"}]

BringUpTypeOK ==
  /\ pc \in {"activate", "enter", "vmxon", "create", "prepare", "check", "launch",
             "passthrough", "tables", "vmclear", "leave", "resume_firmware",
             "report", "main", "timer", "wait", "return", "returned"}
  /\ step \in 1..10
  /\ cpu \in Cpu
  /\ phase \in {"BootServices", "VmExit"}
  /\ firmware_if \in {0, 1}
  /\ original_cr \in Crs /\ firmware_cr \in Crs
  /\ result \in Errors \cup {"ok"}
  /\ left \in {"ok", "Vmclear", "Vmxoff"}
  /\ failures \in Seq(Errors)
  /\ status \in {"none", "SUCCESS", "ABORTED"}

Init ==
  /\ pc = "activate"
  /\ step = 1
  /\ firmware_cr \in Crs
  /\ original_cr = firmware_cr   \* not read before VMXON
  /\ cpu \in [gdtr : {"firmware"}, idtr : {"firmware"}, iflag : {0, 1},
              vmx : {"off"}, cr : {firmware_cr}, vmcs : {"none"}]
  /\ phase = "BootServices"
  /\ firmware_if = 0
  /\ result = "ok"
  /\ left = "ok"
  /\ failures = <<>>
  /\ status = "none"

-----------------------------------------------------------------------------
\* Mutant: the console is used in the exit phase too.
console_allowed_mutant == phase # "Runtime"

console_allowed == phase = "BootServices"

(* The CPU after log! lines.  The firmware console may run RestoreTPL,     *)
(* which executes STI; serial output leaves the CPU alone.                 *)
log_line(c) ==
  {[c EXCEPT !.iflag = i] : i \in IF console_allowed THEN {c.iflag, 1} ELSE {c.iflag}}

Fails(error) ==
  /\ result' = error
  /\ failures' = Append(failures, error)

Succeeds == UNCHANGED <<result, failures>>

\* The next of several steps, or what follows the last one.
Advance(steps, here, next) ==
  IF step < Len(steps) THEN pc' = here /\ step' = step + 1
                       ELSE pc' = next /\ step' = 1

-----------------------------------------------------------------------------
(* GdtRegion::activate: the checks that come before LGDT and LTR leave the *)
(* CPU alone; the verification after them does not undo them.              *)
activate(c) ==
  {[error |-> "Gdt", cpu |-> c],
   [error |-> "ActivationVerificationFailed", cpu |-> [c EXCEPT !.gdtr = "host"]],
   [error |-> "ok", cpu |-> [c EXCEPT !.gdtr = "host"]]}

activate_host_tables ==
  /\ pc = "activate"
  /\ \E outcome \in activate(cpu) :
       /\ cpu' \in log_line(outcome.cpu)
       /\ IF outcome.error = "ok" THEN Succeeds /\ pc' = "enter"
                                  ELSE Fails(outcome.error) /\ pc' = "main"
  /\ UNCHANGED <<step, phase, saved, left, status>>

\* Any failure of enter_vmx: run loads the firmware's GDTR again.
EnterFails(error, c) ==
  /\ Fails(error)
  /\ pc' = "main" /\ step' = 1
  /\ cpu' = [c EXCEPT !.gdtr = "firmware"]
  /\ UNCHANGED <<phase, left, status, firmware_cr>>

enter_vmx ==
  /\ pc = "enter"
  /\ \/ EnterFails(EnterSteps[step], cpu)
     \/ /\ Succeeds
        /\ cpu' \in log_line(cpu)
        /\ Advance(EnterSteps, "enter", "vmxon")
        /\ UNCHANGED <<phase, left, status, firmware_cr>>
  /\ UNCHANGED <<firmware_if, original_cr>>

enable_vmxe(cr) == [cr EXCEPT !.cr4 = @ \cup {"VMXE"}]

\* FIXED0's bits set and those not in FIXED1 cleared; VMXE is one of FIXED0's.
apply_fixed_bits(cr) ==
  [cr0 |-> (cr.cr0 \cup {"required"}) \ {"forbidden"},
   cr4 |-> (cr.cr4 \cup {"required", "VMXE"}) \ {"forbidden"}]

\* Mutant: a failing VMXON leaves the control registers as set for it.
enter_vmx_root_operation_mutant(c) ==
  LET ready == [c EXCEPT !.cr = apply_fixed_bits(enable_vmxe(@))] IN
  {[error |-> "VmxOn", cpu |-> c],
   [error |-> "VmxOn", cpu |-> ready],
   [error |-> "ok", cpu |-> [ready EXCEPT !.vmx = "root"]]}

(* VMXON with the control registers around it: the region's size is wrong  *)
(* or its allocation fails, before they are touched; VMXON fails, and the  *)
(* values read before go back; or VMXON succeeds.                          *)
enter_vmx_root_operation(c) ==
  LET original == c.cr
      ready == [c EXCEPT !.cr = apply_fixed_bits(enable_vmxe(@))]
  IN {[error |-> "VmxOn", cpu |-> c],
      [error |-> "VmxOn", cpu |-> [ready EXCEPT !.cr = original]],
      [error |-> "ok", cpu |-> [ready EXCEPT !.vmx = "root"]]}

\* The end of enter_vmx: IF is recorded, then VMX operation is entered.
vmxon ==
  /\ pc = "vmxon"
  /\ firmware_if' = cpu.iflag
  /\ \E outcome \in enter_vmx_root_operation(cpu) :
       IF outcome.error = "ok"
       THEN /\ Succeeds
            /\ cpu' \in log_line(outcome.cpu)
            /\ original_cr' = cpu.cr
            /\ pc' = "create"
            /\ UNCHANGED <<step, phase, left, status, firmware_cr>>
       ELSE EnterFails(outcome.error, outcome.cpu) /\ UNCHANGED original_cr

-----------------------------------------------------------------------------
\* Mutant: a VMCS that was not made current is used all the same.
create_current_mutant ==
  /\ pc = "create"
  /\ Succeeds
  /\ cpu' \in {cpu, [cpu EXCEPT !.vmcs = "current"]}
  /\ pc' = "prepare"
  /\ UNCHANGED <<step, phase, saved, left, status>>

\* From here on every path goes through teardown, which starts at "tables".
create_current ==
  /\ pc = "create"
  /\ \/ /\ Succeeds
        /\ cpu' = [cpu EXCEPT !.vmcs = "current"]
        /\ pc' = "prepare"
     \/ /\ Fails("creation")
        /\ pc' = "tables"
        /\ UNCHANGED cpu
  /\ UNCHANGED <<step, phase, saved, left, status>>

prepare_vmcs ==
  /\ pc = "prepare"
  /\ \/ /\ Succeeds
        /\ cpu' \in log_line(cpu)
        /\ Advance(PrepareSteps, "prepare", "check")
     \/ /\ Fails(PrepareSteps[step])
        /\ pc' = "tables" /\ step' = 1
        /\ UNCHANGED cpu
  /\ UNCHANGED <<phase, saved, left, status>>

(* The check before the launch, and launch_guest's line after it.  It      *)
(* fails if a UEFI call has changed the GDTR, the IDTR, or the TR (which   *)
(* is not in cpu: teardown leaves it alone) meanwhile.                     *)
check_host_tables_preserved ==
  /\ pc = "check"
  /\ \/ /\ Succeeds
        /\ cpu' \in log_line(cpu)
        /\ pc' = "launch"
     \/ /\ Fails("HostTablesChanged")
        /\ \E changed \in {cpu, [cpu EXCEPT !.gdtr = "changed"],
                           [cpu EXCEPT !.idtr = "changed"]} : cpu' \in log_line(changed)
        /\ pc' = "tables"
  /\ UNCHANGED <<step, phase, saved, left, status>>

\* How the guest stopped, as an error of bring-up.
guest_result == [Finished |-> "ok", Unexpected |-> "UnexpectedExit",
                 LaunchFailed |-> "launch", ResumeFailed |-> "ResumeFailed"]

(* VMLAUNCH and the guest's whole run.  Only a failed VMLAUNCH comes back  *)
(* without a VM exit; every exit loads the host tables with limit 0xFFFF   *)
(* and clears IF, and its handler sets the phase.                          *)
launch ==
  /\ pc = "launch"
  /\ \E stop \in DOMAIN guest_result :
       /\ IF guest_result[stop] = "ok" THEN Succeeds ELSE Fails(guest_result[stop])
       /\ IF stop = "LaunchFailed"
          THEN UNCHANGED <<cpu, phase>>
          ELSE /\ cpu' = [cpu EXCEPT !.gdtr = "exit", !.idtr = "exit", !.iflag = 0]
               /\ phase' = "VmExit"
  /\ pc' = "passthrough"
  /\ UNCHANGED <<step, saved, left, status>>

\* launch_guest prints the passthrough state once the guest has stopped.
passthrough_state ==
  /\ pc = "passthrough"
  /\ cpu' \in log_line(cpu)
  /\ pc' = "tables"
  /\ UNCHANGED <<step, phase, saved, result, left, failures, status>>

-----------------------------------------------------------------------------
(* teardown, one action per step of its documented order.                  *)
load_tables ==
  /\ pc = "tables"
  /\ cpu' = [cpu EXCEPT !.gdtr = "firmware", !.idtr = "firmware"]
  /\ pc' = "vmclear"
  /\ UNCHANGED <<step, phase, saved, result, left, failures, status>>

\* A teardown step fails: printed, and kept if it is the first.
TeardownFails(error) ==
  /\ left' = IF left = "ok" THEN error ELSE left
  /\ failures' = Append(failures, error)
  /\ cpu' \in log_line(cpu)

\* VMCLEAR runs only if create_current gave a VMCS.
vmclear ==
  /\ pc = "vmclear"
  /\ IF cpu.vmcs = "current"
     THEN \/ cpu' = [cpu EXCEPT !.vmcs = "none"] /\ UNCHANGED <<left, failures>>
          \/ TeardownFails("Vmclear")
     ELSE UNCHANGED <<cpu, left, failures>>
  /\ pc' = "leave"
  /\ UNCHANGED <<step, phase, saved, result, status>>

leave ==
  /\ pc = "leave"
  /\ \/ /\ cpu' = [cpu EXCEPT !.vmx = "off", !.cr = original_cr, !.vmcs = "none"]
        /\ UNCHANGED <<left, failures>>
     \/ TeardownFails("Vmxoff")
  /\ pc' = "resume_firmware"
  /\ UNCHANGED <<step, phase, saved, result, status>>

\* Mutant: interrupts stay off.
resume_firmware_mutant ==
  /\ pc = "resume_firmware"
  /\ phase' = "BootServices"
  /\ pc' = "report"
  /\ UNCHANGED <<step, cpu, saved, result, left, failures, status>>

\* The output phase changes back, then interrupts come back if they were on.
resume_firmware ==
  /\ pc = "resume_firmware"
  /\ phase' = "BootServices"
  /\ cpu' = [cpu EXCEPT !.iflag = IF firmware_if = 1 THEN 1 ELSE @]
  /\ pc' = "report"
  /\ UNCHANGED <<step, saved, result, left, failures, status>>

\* Mutant: teardown's error replaces an earlier one.
report_mutant ==
  /\ pc = "report"
  /\ cpu' \in log_line(cpu)
  /\ result' = IF left = "ok" THEN result ELSE left
  /\ pc' = "main"
  /\ UNCHANGED <<step, phase, saved, left, failures, status>>

\* teardown's last line; run then prefers an earlier error to teardown's.
report ==
  /\ pc = "report"
  /\ cpu' \in log_line(cpu)
  /\ result' = IF result = "ok" THEN left ELSE result
  /\ pc' = "main"
  /\ UNCHANGED <<step, phase, saved, left, failures, status>>

-----------------------------------------------------------------------------
main ==
  /\ pc = "main"
  /\ cpu' \in log_line(cpu)
  /\ status' = IF result = "ok" THEN "SUCCESS" ELSE "ABORTED"
  /\ pc' = "timer"
  /\ UNCHANGED <<step, phase, saved, result, left, failures>>

\* Mutant: main polls the event instead of waiting on it with interrupts on.
check_firmware_timer_mutant ==
  /\ pc = "timer"
  /\ cpu' \in log_line(cpu)
  /\ pc' \in {"return", "wait"}
  /\ UNCHANGED <<step, phase, saved, result, left, failures, status>>

(* The timer event may not be created or armed; otherwise main waits for   *)
(* it, with interrupts on (WaitForEvent runs RestoreTPL).                  *)
check_firmware_timer ==
  /\ pc = "timer"
  /\ \/ /\ cpu' \in log_line(cpu)
        /\ pc' = "return"
     \/ /\ cpu' = [cpu EXCEPT !.iflag = 1]
        /\ pc' = "wait"
  /\ UNCHANGED <<step, phase, saved, result, left, failures, status>>

\* The timer interrupt reaches the firmware's handler only through its IDT.
timer_fires ==
  /\ pc = "wait"
  /\ cpu.idtr = "firmware" /\ cpu.iflag = 1
  /\ pc' = "return"
  /\ UNCHANGED <<step, cpu, phase, saved, result, left, failures, status>>

return_to_firmware ==
  /\ pc = "return"
  /\ cpu' \in log_line(cpu)
  /\ pc' = "returned"
  /\ UNCHANGED <<step, phase, saved, result, left, failures, status>>

Steps ==
  \/ activate_host_tables \/ enter_vmx \/ vmxon \/ create_current \/ prepare_vmcs
  \/ check_host_tables_preserved \/ launch \/ passthrough_state
  \/ load_tables \/ vmclear \/ leave \/ resume_firmware \/ report
  \/ main \/ check_firmware_timer \/ timer_fires \/ return_to_firmware

\* main has returned, or the timer event has not been signalled yet.
Idle == pc \in {"wait", "returned"} /\ UNCHANGED vars

Next == Steps \/ Idle

Spec == Init /\ [][Next]_vars /\ WF_vars(Steps)

-----------------------------------------------------------------------------
(* On every path the firmware gets its CPU state back: its IDTR and the    *)
(* output phase always, interrupts on if they were on at VMXON, CR0, CR4   *)
(* and normal operation unless VMXOFF itself failed, and its GDTR unless   *)
(* the activation failed after LGDT.                                       *)
FirmwareStateRestored ==
  pc = "returned" =>
    /\ cpu.idtr = "firmware"
    /\ phase = "BootServices"
    /\ firmware_if = 1 => cpu.iflag = 1
    /\ (\A i \in DOMAIN failures : failures[i] # "Vmxoff") =>
         cpu.vmx = "off" /\ cpu.cr = firmware_cr
    /\ result # "ActivationVerificationFailed" => cpu.gdtr = "firmware"

(* From the first VM exit until teardown has loaded the firmware's tables, *)
(* left VMX operation and set the phase back, interrupts stay off: no log! *)
(* line on the way, not even one about a failing step, may reach the       *)
(* console.  No interrupt meets the tables a VM exit loaded.               *)
InterruptsOffInExitPhase ==
  phase = "VmExit" \/ cpu.idtr = "exit" \/ cpu.gdtr = "exit" => cpu.iflag = 0

(* In VMX operation CR0 and CR4 have VMXE and the bits it fixes, whatever  *)
(* the firmware had: VMXON and clearing them there would raise #GP.        *)
(* Outside it they are the firmware's own, after a failed VMXON, a VMXOFF  *)
(* and every earlier failure.                                              *)
VmxeTracksVmx ==
  /\ cpu.vmx = "root" => /\ "required" \in cpu.cr.cr0 /\ {"required", "VMXE"} \subseteq cpu.cr.cr4
                         /\ "forbidden" \notin cpu.cr.cr0 \cup cpu.cr.cr4
  /\ cpu.vmx = "off" => cpu.cr = firmware_cr

(* VMX instructions run only in VMX operation, and those on VMCS fields    *)
(* only with a VMCS current; VMCLEAR of it comes before VMXOFF.  Outside   *)
(* VMX operation they would raise #UD.                                     *)
VmxInstructionsLegal ==
  /\ pc \in {"create", "prepare", "check", "launch", "passthrough", "tables",
             "vmclear", "leave"} => cpu.vmx = "root"
  /\ pc \in {"prepare", "check", "launch", "passthrough"} => cpu.vmcs = "current"
  /\ cpu.vmcs = "current" => cpu.vmx = "root"

(* main reports the first failure of all, and success only if there was    *)
(* none: a failing teardown does not hide what went wrong before it, nor   *)
(* VMXOFF's failure VMCLEAR's.                                             *)
FirstErrorReturned ==
  pc = "returned" =>
    /\ result = IF failures = <<>> THEN "ok" ELSE failures[1]
    /\ status = "SUCCESS" <=> failures = <<>>

(* Bring-up always comes back to the firmware, whatever fails: the wait    *)
(* for the firmware's timer ends because its IDT is loaded again.          *)
ReturnsToFirmware == <>(pc = "returned")

(* What the documentation of run says of the GDTR: once the host tables    *)
(* are active, every return path puts the firmware's back.  It does not    *)
(* hold: GdtRegion::activate may fail after LGDT, and run returns at once. *)
GdtrAlwaysPutBack == pc = "returned" => cpu.gdtr = "firmware"

=============================================================================
