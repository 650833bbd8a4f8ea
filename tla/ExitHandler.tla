----------------------------- MODULE ExitHandler -----------------------------
(***************************************************************************)
(* The VM-exit handler and its entry stub as a state machine               *)
(* (src/vmx/vmexit/handler.rs, src/vmx/vmexit/mod.rs): every exit is read, *)
(* judged by decide, and applied to the VMCS and the EPT entry; the stub   *)
(* then executes VMRESUME or returns a stop value to the launcher          *)
(* (src/vmx/vmcs/launch.rs).                                               *)
(*                                                                         *)
(* Spec is an open system: each exit is any member of Exits, so what it    *)
(* shows does not depend on what the guest or the CPU does.  GuestRun      *)
(* closes it with the test guest and the CPU, and adds the data the        *)
(* handler moves (registers, MSR, port, RIP).                              *)
(***************************************************************************)
EXTENDS ExitDecision

CONSTANTS Exits,        \* the exits the environment may produce
          MaxExits,     \* bound on EXIT_COUNT, a 64-bit counter in the code
          VmreadFaults, \* sets of VMCS fields whose VMREAD may fail together
          WriteFaults   \* VMWRITE targets, INVEPT or VM entries that may fail

Fields == {"VM_EXIT_REASON", "EXIT_QUALIFICATION", "GUEST_PHYSICAL_ADDRESS",
           "GUEST_RIP", "VM_EXIT_INSTRUCTION_LEN", "VM_EXIT_INTERRUPTION_INFO",
           "GUEST_INTERRUPTIBILITY_STATE", "IDT_VECTORING_INFO"}
Writes == {"GUEST_RIP", "VM_ENTRY_INTERRUPTION_INFO",
           "VM_ENTRY_EXCEPTION_ERROR_CODE", "PRIMARY_VM_EXEC_CONTROL", "INVEPT",
           "VM_ENTRY"}

ASSUME ExitsAssumption == Exits \subseteq ExitInfo
ASSUME MaxExitsAssumption == MaxExits \in Nat
ASSUME FaultsAssumption == /\ VmreadFaults \subseteq SUBSET Fields
                           /\ WriteFaults \subseteq Writes \cup {"none"}

VARIABLES mode,         \* entering (at VMLAUNCH or VMRESUME), guest, or stopped
          exit_count,   \* EXIT_COUNT
          state,        \* the ExitState atomics
          phase,        \* the output phase
          entry_info,   \* VM_ENTRY_INTERRUPTION_INFO
          nmi_window_on,\* NMI-window exiting in PRIMARY_VM_EXEC_CONTROL
          ept_writable, \* W of the protected page's EPT entry
          stop          \* the GuestStop that vmcs::launch returns

handlerVars == <<mode, exit_count, state, phase, entry_info, nmi_window_on,
                 ept_writable, stop>>

NoStop == [kind |-> "none", number |-> 0]

TypeOK ==
  /\ mode \in {"entering", "guest", "stopped"}
  /\ exit_count \in Nat
  /\ state \in ExitState
  /\ phase \in {"BootServices", "VmExit"}
  /\ entry_info \in {"none", "NMI", "GENERAL_PROTECTION"}
  /\ nmi_window_on \in BOOLEAN
  /\ ept_writable \in BOOLEAN
  /\ stop \in [kind : {"none", "Finished", "Unexpected", "LaunchFailed",
                      "ResumeFailed"}, number : Nat]

\* The state at VMLAUNCH.
Init ==
  /\ mode = "entering"
  /\ exit_count = 0
  /\ state = InitState
  /\ phase = "BootServices"
  /\ entry_info = "none"
  /\ nmi_window_on = FALSE
  /\ ept_writable = FALSE
  /\ stop = NoStop

-----------------------------------------------------------------------------
ept_exit(exit) ==
  ~exit.entry_failure /\ exit.basic \in {"ept_violation", "ept_misconfig"}

judged_by_qualification(exit) ==
  ept_exit(exit) \/ (~exit.entry_failure /\ exit.basic = "io")

\* Whether read_exit yields an ExitInfo when the VMREADs of "bad" fail.
read_exit(exit, bad) ==
  /\ {"VM_EXIT_REASON", "VM_EXIT_INTERRUPTION_INFO",
      "GUEST_INTERRUPTIBILITY_STATE", "IDT_VECTORING_INFO"} \cap bad = {}
  /\ judged_by_qualification(exit) => "EXIT_QUALIFICATION" \notin bad
  /\ ept_exit(exit) => "GUEST_PHYSICAL_ADDRESS" \notin bad

judge(exit, bad) ==
  IF read_exit(exit, bad) THEN decide(state, exit) ELSE Judged("Unexpected", state)

(* How far prepare_resume gets with plan p.  Each step is reached only if  *)
(* the ones before it succeeded, and its side effects stay even if a later *)
(* one fails.                                                              *)
rip_known(p, bad) ==
  "GUEST_RIP" \notin bad /\ (p.advance_rip => "VM_EXIT_INSTRUCTION_LEN" \notin bad)

rip_written(p, bad, fault) ==
  rip_known(p, bad) /\ (p.advance_rip => fault # "GUEST_RIP")

event_queued(p, bad, fault) ==
  /\ rip_written(p, bad, fault)
  /\ p.inject_nmi => fault # "VM_ENTRY_INTERRUPTION_INFO"
  /\ p.inject_gp => fault \notin {"VM_ENTRY_EXCEPTION_ERROR_CODE",
                                  "VM_ENTRY_INTERRUPTION_INFO"}

window_set(p, bad, fault) ==
  /\ event_queued(p, bad, fault)
  /\ p.nmi_window # "leave" => fault # "PRIMARY_VM_EXEC_CONTROL"

\* Mutant: the test for a published protected page is inverted.
entry_written_mutant(p, exit, bad, fault) ==
  window_set(p, bad, fault) /\ p.grant_write /\ exit.protected_page = 0

entry_written(p, exit, bad, fault) ==
  window_set(p, bad, fault) /\ p.grant_write /\ exit.protected_page # 0

prepare_resume(p, exit, bad, fault) ==
  /\ window_set(p, bad, fault)
  /\ p.grant_write => exit.protected_page # 0 /\ fault # "INVEPT"

-----------------------------------------------------------------------------
(* The effects of apply on the handler's own state, for a judged exit.     *)
Resumes(j, exit, bad, fault) ==
  j.event \in ResumeEvents /\ prepare_resume(plan(j.event), exit, bad, fault)

apply(j, exit, bad, fault) ==
  LET p == plan(j.event)
      resuming == j.event \in ResumeEvents
  IN  /\ entry_info' =
           IF resuming /\ event_queued(p, bad, fault) /\ p.inject_nmi THEN "NMI"
           ELSE IF resuming /\ event_queued(p, bad, fault) /\ p.inject_gp
                THEN "GENERAL_PROTECTION"
           ELSE entry_info
      /\ nmi_window_on' =
           IF resuming /\ window_set(p, bad, fault) /\ p.nmi_window # "leave"
           THEN p.nmi_window = "on"
           ELSE nmi_window_on
      /\ ept_writable' =
           (ept_writable \/ (resuming /\ entry_written(p, exit, bad, fault)))
      /\ mode' = IF Resumes(j, exit, bad, fault) THEN "entering" ELSE "stopped"

\* What the stub hands back: nothing (resume), or the stop value, decoded.
\* The exit number of an unexpected exit keeps only its low 30 bits.
EXIT_NUMBERS == 1073741824

stub_return(j, exit, bad, fault, number) ==
  stop' = IF Resumes(j, exit, bad, fault) THEN NoStop
          ELSE IF j.event = "LastMainVmcall"
               THEN [kind |-> "Finished", number |-> number]
          ELSE [kind |-> "Unexpected", number |-> number % EXIT_NUMBERS]

\* One VM exit.  A VM-entry failure also arrives as an exit, at the entry.
vmexit_handler(exit, bad, fault) ==
  LET j == judge(exit, bad) IN
  /\ mode = IF exit.entry_failure THEN "entering" ELSE "guest"
  /\ phase' = "VmExit"
  /\ exit_count' = exit_count + 1
  /\ state' = j.next
  /\ apply(j, exit, bad, fault)
  /\ stub_return(j, exit, bad, fault, exit_count + 1)

VmExit ==
  /\ exit_count < MaxExits
  /\ \E exit \in Exits, bad \in VmreadFaults, fault \in WriteFaults :
       vmexit_handler(exit, bad, fault)

\* VMLAUNCH or VMRESUME enters the guest; the CPU clears the injection field.
vm_entry ==
  /\ mode = "entering"
  /\ mode' = "guest"
  /\ entry_info' = "none"
  /\ UNCHANGED <<exit_count, state, phase, nmi_window_on, ept_writable, stop>>

\* VMLAUNCH falls through: the launcher stub returns RFLAGS as the stop value.
launch_failed ==
  /\ mode = "entering" /\ exit_count = 0 /\ "VM_ENTRY" \in WriteFaults
  /\ mode' = "stopped"
  /\ stop' = [kind |-> "LaunchFailed", number |-> 0]
  /\ UNCHANGED <<exit_count, state, phase, entry_info, nmi_window_on, ept_writable>>

\* Mutant: RFLAGS returned without the kind, so that it decodes as kind 0.
vmresume_failed_mutant ==
  /\ mode = "entering" /\ exit_count > 0 /\ "VM_ENTRY" \in WriteFaults
  /\ mode' = "stopped"
  /\ stop' = [kind |-> "LaunchFailed", number |-> 0]
  /\ UNCHANGED <<exit_count, state, phase, entry_info, nmi_window_on, ept_writable>>

\* VMRESUME falls through: vmresume_failed returns the stop value.
vmresume_failed ==
  /\ mode = "entering" /\ exit_count > 0 /\ "VM_ENTRY" \in WriteFaults
  /\ mode' = "stopped"
  /\ stop' = [kind |-> "ResumeFailed", number |-> 0]
  /\ UNCHANGED <<exit_count, state, phase, entry_info, nmi_window_on, ept_writable>>

\* The guest runs without exiting, or the launcher returned to bring-up and
\* nothing of this runs any more.
Idle == mode \in {"guest", "stopped"} /\ UNCHANGED handlerVars

Next == VmExit \/ vm_entry \/ launch_failed \/ vmresume_failed \/ Idle

Spec == Init /\ [][Next]_handlerVars

-----------------------------------------------------------------------------
(* While the guest can still run, NMI-window exiting is on exactly while   *)
(* an NMI waits to be injected: a pending NMI always has an exit coming    *)
(* that injects it, and no NMI-window exit comes with nothing to inject    *)
(* (which nmi_window would answer by stopping the guest).  The flag and    *)
(* the control bit are written by different steps of one exit, with        *)
(* failing VMWRITEs between them.                                          *)
WindowTracksPending ==
  mode # "stopped" => (nmi_window_on <=> state.nmi_pending)

(* The recorded grant and the EPT entry agree while the guest can run: the *)
(* entry is writable exactly if one write violation was granted.  The      *)
(* count is stored by judge before grant_write changes the entry.          *)
GrantMatchesEntry ==
  mode # "stopped" => (ept_writable <=> state.ept_writes_granted = 1)

(* The protected page becomes writable at most once, and only before the   *)
(* first main VMCALL.  ept_violation does not test main_vmcalls: the       *)
(* order follows from vmcall refusing a first VMCALL without the grant.    *)
GrantOnlyBeforeVmcall ==
  [][ept_writable' # ept_writable => ept_writable' /\ state.main_vmcalls = 0]_handlerVars

(* The planned number of main VMCALLs is reached exactly when the run is   *)
(* reported as finished, and then the whole scenario has happened: the EPT *)
(* write was granted and every emulated exit came as often as planned.     *)
(* The guest is never resumed past the plan.                               *)
FinishedIffPlanDone ==
  /\ state.main_vmcalls = PLANNED_MAIN_VMCALLS <=> stop.kind = "Finished"
  /\ stop.kind = "Finished" =>
       /\ state.emulated = EXPECTED_EMULATION
       /\ state.ept_writes_granted = 1
       /\ ept_writable

(* What bring-up relies on when the guest has stopped: the stop is a       *)
(* failed VMLAUNCH exactly if the output phase is still boot services, so  *)
(* no exit has turned interrupts off and changed the tables.  The launcher *)
(* stub, the exit stub and the handler each write one part of this.        *)
StopTellsPhase ==
  mode = "stopped" => (stop.kind = "LaunchFailed" <=> phase = "BootServices")

Counted(s) ==
  LET e == s.emulated IN
  s.main_vmcalls + s.nmis_injected + s.nmis_handled + s.ept_writes_granted
    + e["cpuid"] + e["rdmsr"] + e["wrmsr"] + e["io_in"] + e["io_out"]

(* No exit is counted twice: what the counters record together never       *)
(* exceeds the number of exits, so the exit number of a finished run is at *)
(* least the twelve exits the plan needs.                                  *)
ExitsCoverCounters ==
  /\ Counted(state) <= exit_count
  /\ stop.kind = "Finished" => stop.number = exit_count /\ stop.number >= 12
=============================================================================
