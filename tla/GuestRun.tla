------------------------------ MODULE GuestRun -------------------------------
(***************************************************************************)
(* The closed system: the test guest running under the exit handler, on a  *)
(* CPU that delivers NMIs, caches EPT translations and injects events at   *)
(* VM entry.  ExitHandler supplies what the handler does; this module adds *)
(* what the handler does to the guest's registers and to the hardware, and *)
(* the exits the guest and the CPU really produce.                         *)
(*                                                                         *)
(* The CPU is external: NMI exiting and virtual NMIs are on, so a physical *)
(* NMI always exits, and vnmi is blocking by NMI in the guest.  An NMI     *)
(* that arrives in root operation after an NMI exit stays latched until    *)
(* the entry, and is then no different from one arriving right after it;   *)
(* any other NMI in root operation goes to the firmware's IDT and never    *)
(* reaches the guest.  So arrivals are modelled in the guest only.         *)
(***************************************************************************)
EXTENDS ExitHandler, GuestProgram

CONSTANTS Msrs, Ports,   \* hardware states the guest may start with
          ProtectedPage, \* page number of the guest data page
          MaxNmis        \* bound on the NMIs that arrive

ASSUME GuestAssumption == /\ Msrs \subseteq Int \X Int
                          /\ Ports \subseteq 0..255
                          /\ ProtectedPage \in Nat \ {0}
                          /\ MaxNmis \in Nat

VARIABLES machine,  \* guest registers, stack and data page, and the hardware
          tlb,      \* cached EPT translation of the data page: none, ro, rw
          nmi_line, \* a physical NMI waits to be taken
          vnmi,     \* virtual-NMI blocking
          arrivals, \* NMIs that arrived so far
          before,   \* PassthroughState read before the launch
          faulted   \* a failing VMCS access, INVEPT or VM entry ended the run

guestVars == <<machine, tlb, nmi_line, vnmi, arrivals, before, faulted>>
vars == <<handlerVars, guestVars>>

RunTypeOK ==
  /\ TypeOK
  /\ machine \in Machine
  /\ tlb \in {"none", "ro", "rw"}
  /\ nmi_line \in BOOLEAN /\ vnmi \in BOOLEAN
  /\ arrivals \in 0..MaxNmis
  /\ before \in [msr : Msrs, port : Ports]
  /\ faulted \in BOOLEAN

RunInit ==
  /\ Init
  /\ \E msr \in Msrs, port \in Ports, scratch \in BOOLEAN :
       /\ machine = GuestStart(msr, port, scratch)
       /\ before = [msr |-> msr, port |-> port]
  /\ tlb = "none"
  /\ nmi_line = FALSE /\ vnmi = FALSE
  /\ arrivals = 0
  /\ faulted = FALSE

-----------------------------------------------------------------------------
(* The handler's effect on the guest.                                      *)

execute(emulation, m) ==
  CASE emulation.op = "Cpuid" ->
         LET guest == cpuid_policy(emulation.leaf, CpuidRaw)
         IN  [m EXCEPT !.rax = guest.eax, !.rbx = guest.ebx, !.rcx = guest.ecx,
                       !.rdx = guest.edx]
    [] emulation.op = "Rdmsr" -> [m EXCEPT !.rax = m.msr[2], !.rdx = m.msr[1]]
    [] emulation.op = "Wrmsr" -> [m EXCEPT !.msr = emulation.value]
    [] emulation.op = "In" -> [m EXCEPT !.rax = merge_in(@, emulation.size, m.port)]
    [] emulation.op = "Out" -> 
         [m EXCEPT !.port = scratch_written(m, emulation.value % 256)]

\* Mutant: the guest resumes past the instruction, which is not executed.
resumed_machine_mutant(j, bad, fault) ==
  IF plan(j.event).advance_rip /\ rip_written(plan(j.event), bad, fault)
  THEN [machine EXCEPT !.rip = @ + 1] ELSE machine

\* prepare_resume on the machine: the instruction runs before RIP moves.
resumed_machine(j, bad, fault) ==
  LET p == plan(j.event)
      executed == IF p.emulate /\ rip_known(p, bad)
                  THEN execute(j.emulation, machine) ELSE machine
  IN  IF p.advance_rip /\ rip_written(p, bad, fault)
      THEN [executed EXCEPT !.rip = @ + 1] ELSE executed

\* Mutant: no INVEPT after the grant.
invalidated_mutant(j, exit, bad, fault) == FALSE

\* INVEPT, the last step of grant_write, drops the cached translation.
invalidated(j, exit, bad, fault) ==
  Resumes(j, exit, bad, fault) /\ plan(j.event).grant_write

\* A VMREAD, VMWRITE or INVEPT fails on the way and the handler gives up.
access_failed(exit, bad, fault) ==
  LET j == judge(exit, bad) IN
  \/ ~read_exit(exit, bad)
  \/ j.event \in ResumeEvents /\ ~prepare_resume(plan(j.event), exit, bad, fault)

Exit(exit) ==
  /\ \E bad \in VmreadFaults, fault \in WriteFaults :
       LET j == judge(exit, bad) IN
       /\ vmexit_handler(exit, bad, fault)
       /\ machine' = IF j.event \in ResumeEvents
                     THEN resumed_machine(j, bad, fault) ELSE machine
       /\ tlb' = IF invalidated(j, exit, bad, fault) THEN "none" ELSE tlb
       /\ faulted' = access_failed(exit, bad, fault)
  /\ UNCHANGED <<vnmi, arrivals, before>>

\* The port register DX.
dx == machine.rdx % 65536

\* The qualification of an IN or OUT of this guest.
io_info == [size |-> "Byte", is_in |-> machine.rip \in AtIn, is_string |-> FALSE,
            is_rep |-> FALSE, port |-> dx]

\* What the handler reads about an exit of this guest.
exit_info(basic) ==
  [basic |-> basic, entry_failure |-> FALSE, interruption_info |-> "none",
   rax |-> machine.rax, rcx |-> machine.rcx, rdx |-> machine.rdx,
   interruptibility |-> IF vnmi THEN {"NMI"} ELSE {},
   idt_vectoring_valid |-> FALSE, ept |-> {}, io |-> io_info,
   guest_page |-> 0, protected_page |-> ProtectedPage]

-----------------------------------------------------------------------------
(* The CPU in the guest.  A waiting NMI, or an open NMI window, exits      *)
(* before the next instruction.                                            *)

WindowOpen == nmi_window_on /\ ~vnmi

CanExecute == mode = "guest" /\ ~nmi_line /\ ~WindowOpen

Cached == IF tlb # "none" THEN tlb ELSE IF ept_writable THEN "rw" ELSE "ro"

RunStraight ==
  /\ CanExecute
  /\ machine.rip \notin Exiting \cup {AtDataWrite}
  /\ machine' = straight(machine)
  /\ vnmi' = (vnmi /\ machine.rip # AtIretq)
  /\ tlb' = IF machine.rip \in {AtDataWrite - 1, AtDataWrite + 1} THEN Cached ELSE tlb
  /\ UNCHANGED <<handlerVars, nmi_line, arrivals, before, faulted>>

WriteData ==
  /\ CanExecute /\ machine.rip = AtDataWrite /\ Cached = "rw"
  /\ machine' = straight(machine)
  /\ tlb' = "rw"
  /\ UNCHANGED <<handlerVars, nmi_line, vnmi, arrivals, before, faulted>>

EptViolation ==
  /\ CanExecute /\ machine.rip = AtDataWrite /\ Cached = "ro"
  /\ Exit([exit_info("ept_violation") EXCEPT
             !.ept = {"WRITE", "READABLE", "LINEAR_VALID", "TRANSLATED"},
             !.guest_page = ProtectedPage])
  /\ UNCHANGED nmi_line

InstructionExit(labels, basic) ==
  /\ CanExecute /\ machine.rip \in labels
  /\ Exit(exit_info(basic))
  /\ UNCHANGED nmi_line

Ud2Exit ==
  /\ CanExecute /\ machine.rip \in AtUd2
  /\ Exit([exit_info("exception_or_nmi") EXCEPT !.interruption_info = "exception"])
  /\ UNCHANGED nmi_line

NmiArrives ==
  /\ mode = "guest" /\ arrivals < MaxNmis
  /\ nmi_line' = TRUE
  /\ arrivals' = arrivals + 1
  /\ UNCHANGED <<handlerVars, machine, tlb, vnmi, before, faulted>>

NmiExit ==
  /\ mode = "guest" /\ nmi_line
  /\ nmi_line' = FALSE
  /\ Exit([exit_info("exception_or_nmi") EXCEPT !.interruption_info = "NMI"])

NmiWindowExit ==
  /\ mode = "guest" /\ WindowOpen
  /\ Exit(exit_info("nmi_window"))
  /\ UNCHANGED nmi_line

\* VM entry, delivering a queued NMI through the guest IDT.  Two entries have
\* no step here and would deadlock the model: an NMI queued for a guest that
\* blocks NMIs, which the CPU refuses, and a queued #GP, which the guest's IDT
\* cannot deliver.
EnterGuest ==
  /\ vm_entry
  /\ entry_info = "none" \/ (entry_info = "NMI" /\ ~vnmi)
  /\ machine' = IF entry_info = "NMI" THEN deliver_nmi(machine) ELSE machine
  /\ vnmi' = (vnmi \/ entry_info = "NMI")
  /\ UNCHANGED <<tlb, nmi_line, arrivals, before, faulted>>

EntryFallsThrough ==
  /\ launch_failed \/ vmresume_failed
  /\ faulted' = TRUE
  /\ UNCHANGED <<machine, tlb, nmi_line, vnmi, arrivals, before>>

Stopped == mode = "stopped" /\ UNCHANGED vars

Run ==
  \/ RunStraight \/ WriteData \/ EptViolation
  \/ InstructionExit({AtCpuid}, "cpuid")
  \/ InstructionExit(AtRdmsr, "rdmsr")
  \/ InstructionExit(AtWrmsr, "wrmsr")
  \/ InstructionExit(AtIn \cup AtOut, "io")
  \/ InstructionExit(AtMainVmcall \cup {AtNmiVmcall}, "vmcall")
  \/ Ud2Exit
  \/ NmiExit \/ NmiWindowExit
  \/ EnterGuest \/ EntryFallsThrough

RunNext == Run \/ NmiArrives \/ Stopped

RunSpec == RunInit /\ [][RunNext]_vars

\* The CPU keeps executing; nothing makes an NMI arrive.
FairRunSpec == RunSpec /\ WF_vars(Run)

-----------------------------------------------------------------------------
(* Unless a failing VMCS access, INVEPT or VM entry does, only the guest   *)
(* ends its run: any number and timing of NMIs leads to its last VMCALL,   *)
(* never to an unexpected exit, a refused VM entry or a second EPT         *)
(* violation.  If the byte the guest writes to the scratch port is not     *)
(* what it reads back, it stops before its first main VMCALL, its failure  *)
(* marker in RAX and the MSR put back; a UART without the register goes    *)
(* unnoticed only if the port always reads as that very byte.              *)
OnlyGuestEndsRun ==
  ~faulted /\ mode = "stopped" =>
    IF machine.scratch \/ before.port = GUEST_IO_VALUE THEN stop.kind = "Finished"
    ELSE /\ stop.kind = "Unexpected" /\ state.main_vmcalls = 0
         /\ machine.rax = GUEST_EMULATION_FAIL_MARKER
         /\ machine.msr = before.msr

(* Every reinjected NMI is handled once: the count of injections exceeds   *)
(* the count of handler VMCALLs by one exactly while an NMI is queued for  *)
(* the next entry or the guest's handler has not reached its VMCALL.       *)
NmiAccounting ==
  mode # "stopped" =>
    state.nmis_injected = state.nmis_handled
      + (IF entry_info = "NMI" \/ machine.rip \in guest_nmi_handler..AtNmiVmcall
         THEN 1 ELSE 0)

(* The guest's NMI handler never nests: an NMI is queued for injection     *)
(* only while the guest is not in its handler, so VM entry accepts it and  *)
(* the handler's frame on the stack is the only one.                       *)
NmiHandlerAlone ==
  /\ mode = "entering" /\ entry_info = "NMI" => ~vnmi
  /\ vnmi <=> machine.rip \in InNmiHandler
  /\ Len(machine.stack) <= 2

(* A finished run leaves nothing behind: the MSR and the scratch port read *)
(* as before the launch, no NMI is left pending (the report's "still       *)
(* pending (dropped)" line is never printed), every injected NMI was       *)
(* handled, and the data page holds what the guest wrote.                  *)
FinishedClean ==
  stop.kind = "Finished" =>
    /\ before = [msr |-> machine.msr, port |-> machine.port]
    /\ ~state.nmi_pending /\ ~nmi_line
    /\ state.nmis_injected = state.nmis_handled
    /\ machine.data = GUEST_EPT_VALUE /\ machine.stack = <<>>

(* The guest's run ends, however many of the finitely many NMIs arrive and *)
(* whatever fails on the way.                                              *)
RunEnds == <>(mode = "stopped")

-----------------------------------------------------------------------------
B(b) == IF b THEN 1 ELSE 0

(* The guest under Aleph0 behaves like the guest on a machine of its own.  *)
(* An NMI is waiting on that machine while it is latched, deferred or      *)
(* queued for the next entry.                                              *)
Bare == INSTANCE BareGuest WITH
          blocked <- vnmi,
          pending <- B(nmi_line) + B(state.nmi_pending) + B(entry_info = "NMI"),
          halted <- mode = "stopped"

(* Each exit, entry and injection, with any VMCS access or INVEPT failing  *)
(* on the way, is one step of the guest's own machine or invisible to it.  *)
RunsLikeBare == Bare!Spec
=============================================================================
