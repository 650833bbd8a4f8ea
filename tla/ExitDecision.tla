---------------------------- MODULE ExitDecision ----------------------------
(***************************************************************************)
(* The pure decision Aleph0 takes on a VM exit: what the exit is, how the  *)
(* guest goes on, and the state kept for the next exit                     *)
(* (src/vmx/exit_decision/{mod,scenario,emulation}.rs).                    *)
(*                                                                         *)
(* 32-bit values are read as signed integers (0xC0000102 is -1073741566),  *)
(* a 64-bit MSR value is a pair <<high half, low half>>, and a bit mask is *)
(* the set of the names of its bits.                                       *)
(***************************************************************************)
EXTENDS Integers

GUEST_MARKER == 41440            \* 0xA1E0
GUEST_NMI_MARKER == 5131593      \* 0x4E4D49
GUEST_DATA_SEED == 55930         \* 0xDA7A
GUEST_EPT_VALUE == 4542548       \* 0x455054
PLANNED_MAIN_VMCALLS == 2

EXPECTED_EMULATION ==
  [cpuid |-> 1, rdmsr |-> 2, wrmsr |-> 2, io_in |-> 2, io_out |-> 2]

EmulationCounts == [{"cpuid", "rdmsr", "wrmsr", "io_in", "io_out"} -> Nat]

ExitState ==
  [main_vmcalls : Nat, nmi_pending : BOOLEAN, nmis_injected : Nat,
   nmis_handled : Nat, ept_writes_granted : Nat, emulated : EmulationCounts]

InitState ==
  [main_vmcalls |-> 0, nmi_pending |-> FALSE, nmis_injected |-> 0,
   nmis_handled |-> 0, ept_writes_granted |-> 0,
   emulated |-> [c \in {"cpuid", "rdmsr", "wrmsr", "io_in", "io_out"} |-> 0]]

(***************************************************************************)
(* What the handler reads about an exit.  The interruption information is  *)
(* kept as "NMI", "exception" or "none" (InterruptionInfo::is_nmi).  The   *)
(* qualification is split by the layout the reason gives it: the bits of   *)
(* an EPT violation, or the fields of an I/O instruction.  Addresses are   *)
(* page numbers, 0 for "no protected page".                                *)
(***************************************************************************)
InterruptibilityBits == {"STI", "MOV_SS", "NMI"}
EptBits == {"WRITE", "READABLE", "WRITABLE", "LINEAR_VALID", "TRANSLATED",
            "NMI_UNBLOCKING_IRET"}
IoQualification == [size : {"Byte", "Word", "Dword", "unused"}, is_in : BOOLEAN,
                    is_string : BOOLEAN, is_rep : BOOLEAN, port : Nat]
Reasons == {"exception_or_nmi", "nmi_window", "cpuid", "vmcall", "io", "rdmsr",
            "wrmsr", "ept_violation", "ept_misconfig", "other"}

ExitInfo ==
  [basic : Reasons, entry_failure : BOOLEAN,
   interruption_info : {"NMI", "exception", "none"},
   rax : Int, rcx : Int, rdx : Int,
   interruptibility : SUBSET InterruptibilityBits,
   idt_vectoring_valid : BOOLEAN,
   ept : SUBSET EptBits, io : IoQualification,
   guest_page : Nat, protected_page : Nat]

\* Mutant: blocking by NMI forgotten.
NMI_INJECTION_BLOCKED_mutant == {"STI", "MOV_SS"}

NMI_INJECTION_BLOCKED == {"STI", "MOV_SS", "NMI"}

is_protected_write(bits) ==
  /\ {"WRITE", "READABLE", "LINEAR_VALID", "TRANSLATED"} \subseteq bits
  /\ {"WRITABLE", "NMI_UNBLOCKING_IRET"} \cap bits = {}

-----------------------------------------------------------------------------
(* Events.  Emulated carries the instruction to execute.                   *)

NoEmulation == [op |-> "none"]

Judged(event, next) == [event |-> event, emulation |-> NoEmulation, next |-> next]

counted(state, count, emulation) ==
  [event |-> "Emulated", emulation |-> emulation,
   next |-> [state EXCEPT !.emulated[count] = @ + 1]]

-----------------------------------------------------------------------------
(* Instructions executed for the guest (emulation.rs).                     *)

\* IA32_KERNEL_GS_BASE, the one intercepted MSR.
INTERCEPTED_MSRS == {-1073741566}

\* The two ranges the MSR bitmap covers: 0..0x1FFF and 0xC0000000..0xC0001FFF.
MSR_RANGE == 8192
MSR_HIGH == -1073741824
HasMsrBit(msr) ==
  \/ 0 <= msr /\ msr < MSR_RANGE
  \/ MSR_HIGH <= msr /\ msr < MSR_HIGH + MSR_RANGE

route(msr) ==
  CASE ~HasMsrBit(msr) -> "OutOfRange"
    [] HasMsrBit(msr) /\ msr \in INTERCEPTED_MSRS -> "Intercepted"
    [] OTHER -> "NotIntercepted"

\* Mutant: one bit too few compared, bits 63:48.
is_canonical_48_mutant(value) == -65536 <= value[1] /\ value[1] <= 65535

\* Bits 63:47 of the value are equal: its high half fits 16 signed bits.
is_canonical_48(value) == -32768 <= value[1] /\ value[1] <= 32767

cpuid_policy(leaf, raw) ==
  IF leaf = 1 /\ (raw.ecx \div 32) % 2 = 1
  THEN [raw EXCEPT !.ecx = @ - 32]
  ELSE raw

cpuid(state, exit) ==
  counted(state, "cpuid", [op |-> "Cpuid", leaf |-> exit.rax, subleaf |-> exit.rcx])

rdmsr(state, exit) ==
  CASE route(exit.rcx) = "Intercepted" ->
         counted(state, "rdmsr", [op |-> "Rdmsr", msr |-> exit.rcx])
    [] route(exit.rcx) = "OutOfRange" -> Judged("GuestGeneralProtection", state)
    [] OTHER -> Judged("Unexpected", state)

wrmsr(state, exit) ==
  LET value == <<exit.rdx, exit.rax>> IN
  CASE route(exit.rcx) = "Intercepted" /\ is_canonical_48(value) ->
         counted(state, "wrmsr", [op |-> "Wrmsr", msr |-> exit.rcx, value |-> value])
    [] route(exit.rcx) = "Intercepted" /\ ~is_canonical_48(value) ->
         Judged("GuestGeneralProtection", state)
    [] route(exit.rcx) = "OutOfRange" -> Judged("GuestGeneralProtection", state)
    [] OTHER -> Judged("Unexpected", state)

Modulus(size) == IF size = "Byte" THEN 256 ELSE 65536

merge_in(rax, size, value) ==
  IF size = "Dword" THEN value
  ELSE (rax - (rax % Modulus(size))) + (value % Modulus(size))

out_value(rax, size) == IF size = "Dword" THEN rax ELSE rax % Modulus(size)

io(state, exit) ==
  LET q == exit.io IN
  IF q.size = "unused" \/ q.is_string \/ q.is_rep THEN Judged("Unexpected", state)
  ELSE IF q.is_in
       THEN counted(state, "io_in", [op |-> "In", port |-> q.port, size |-> q.size])
       ELSE counted(state, "io_out",
                    [op |-> "Out", port |-> q.port, size |-> q.size,
                     value |-> out_value(exit.rax, q.size)])

-----------------------------------------------------------------------------
(* The test guest's own exits (scenario.rs).                               *)

data_page_read_back(exit) ==
  exit.rcx = GUEST_DATA_SEED /\ exit.rdx = GUEST_EPT_VALUE

expected_main_rax(state) == GUEST_MARKER + state.main_vmcalls

\* Mutants: the injection counted down, or not at all.
injected_down(state) ==
  [state EXCEPT !.nmi_pending = FALSE, !.nmis_injected = @ - 1]
injected_uncounted(state) == [state EXCEPT !.nmi_pending = FALSE]

injected(state) ==
  [state EXCEPT !.nmi_pending = FALSE, !.nmis_injected = @ + 1]

exception_or_nmi(state, exit) ==
  IF exit.interruption_info # "NMI" THEN Judged("Unexpected", state)
  ELSE IF exit.interruptibility \cap NMI_INJECTION_BLOCKED = {}
       THEN Judged("NmiInjected", injected(state))
       ELSE Judged("NmiDeferred", [state EXCEPT !.nmi_pending = TRUE])

nmi_window(state, exit) ==
  IF ~state.nmi_pending THEN Judged("Unexpected", state)
  ELSE IF exit.interruptibility \cap NMI_INJECTION_BLOCKED # {}
       THEN Judged("NmiDeferred", state)
       ELSE Judged("NmiWindowInjected", injected(state))

ept_violation(state, exit) ==
  LET protected_write == /\ exit.protected_page # 0
                         /\ exit.guest_page = exit.protected_page
                         /\ is_protected_write(exit.ept)
  IN  IF protected_write /\ state.ept_writes_granted = 0
      THEN Judged("EptWriteGranted", [state EXCEPT !.ept_writes_granted = 1])
      ELSE Judged("Unexpected", state)

\* Mutant: the main VMCALLs do not ask for the EPT violation.
vmcall_ungranted(state, exit) ==
  LET next == [state EXCEPT !.main_vmcalls = @ + 1] IN
  CASE exit.rax = GUEST_NMI_MARKER ->
         Judged("GuestNmiHandler", [state EXCEPT !.nmis_handled = @ + 1])
    [] exit.rax = expected_main_rax(state) ->
         IF next.main_vmcalls < PLANNED_MAIN_VMCALLS THEN Judged("MainVmcall", next)
         ELSE IF state.emulated # EXPECTED_EMULATION
              THEN Judged("EmulationMissing", state)
         ELSE Judged("LastMainVmcall", next)
    [] OTHER -> Judged("Unexpected", state)

vmcall(state, exit) ==
  LET next == [state EXCEPT !.main_vmcalls = @ + 1] IN
  CASE exit.rax = GUEST_NMI_MARKER ->
         Judged("GuestNmiHandler", [state EXCEPT !.nmis_handled = @ + 1])
    [] /\ exit.rax # GUEST_NMI_MARKER
       /\ exit.rax # expected_main_rax(state) -> Judged("Unexpected", state)
    [] OTHER ->
         IF state.ept_writes_granted = 0 THEN Judged("EptWriteMissing", state)
         ELSE IF state.main_vmcalls = 0 /\ ~data_page_read_back(exit)
              THEN Judged("DataPageMismatch", state)
         ELSE IF next.main_vmcalls < PLANNED_MAIN_VMCALLS
              THEN Judged("MainVmcall", next)
         ELSE IF state.emulated # EXPECTED_EMULATION
              THEN Judged("EmulationMissing", state)
         ELSE Judged("LastMainVmcall", next)

-----------------------------------------------------------------------------
(* The dispatch (mod.rs).                                                  *)

decide(state, exit) ==
  IF exit.entry_failure THEN Judged("Unexpected", state)
  ELSE IF exit.idt_vectoring_valid THEN Judged("InterruptedDelivery", state)
  ELSE CASE exit.basic = "cpuid" -> cpuid(state, exit)
         [] exit.basic = "rdmsr" -> rdmsr(state, exit)
         [] exit.basic = "wrmsr" -> wrmsr(state, exit)
         [] exit.basic = "io" -> io(state, exit)
         [] exit.basic = "exception_or_nmi" -> exception_or_nmi(state, exit)
         [] exit.basic = "nmi_window" -> nmi_window(state, exit)
         [] exit.basic = "ept_violation" -> ept_violation(state, exit)
         [] exit.basic = "vmcall" -> vmcall(state, exit)
         [] OTHER -> Judged("Unexpected", state)

(* How the guest is prepared before it resumes.  emulate is a flag here:   *)
(* the instruction itself is the emulation of the judged event.            *)
PAST_INSTRUCTION ==
  [advance_rip |-> TRUE, inject_nmi |-> FALSE, nmi_window |-> "leave",
   grant_write |-> FALSE, emulate |-> FALSE, inject_gp |-> FALSE]
\* Mutant: injecting leaves NMI-window exiting on.
INJECT_NMI_mutant == [PAST_INSTRUCTION EXCEPT !.advance_rip = FALSE, !.inject_nmi = TRUE]

INJECT_NMI ==
  [advance_rip |-> FALSE, inject_nmi |-> TRUE, nmi_window |-> "off",
   grant_write |-> FALSE, emulate |-> FALSE, inject_gp |-> FALSE]
WAIT_FOR_NMI_WINDOW ==
  [advance_rip |-> FALSE, inject_nmi |-> FALSE, nmi_window |-> "on",
   grant_write |-> FALSE, emulate |-> FALSE, inject_gp |-> FALSE]
RETRY_AFTER_GRANT ==
  [advance_rip |-> FALSE, inject_nmi |-> FALSE, nmi_window |-> "leave",
   grant_write |-> TRUE, emulate |-> FALSE, inject_gp |-> FALSE]
INJECT_GP ==
  [advance_rip |-> FALSE, inject_nmi |-> FALSE, nmi_window |-> "leave",
   grant_write |-> FALSE, emulate |-> FALSE, inject_gp |-> TRUE]

ResumeEvents == {"MainVmcall", "GuestNmiHandler", "NmiInjected", "NmiWindowInjected",
                 "NmiDeferred", "EptWriteGranted", "Emulated", "GuestGeneralProtection"}
StopEvents == {"InterruptedDelivery", "EptWriteMissing", "DataPageMismatch",
               "EmulationMissing", "Unexpected"}

\* The plan of ExitAction::Resume for each event that resumes the guest.
plan(event) ==
  CASE event \in {"MainVmcall", "GuestNmiHandler"} -> PAST_INSTRUCTION
    [] event \in {"NmiInjected", "NmiWindowInjected"} -> INJECT_NMI
    [] event = "NmiDeferred" -> WAIT_FOR_NMI_WINDOW
    [] event = "EptWriteGranted" -> RETRY_AFTER_GRANT
    [] event = "Emulated" -> [PAST_INSTRUCTION EXCEPT !.emulate = TRUE]
    [] event = "GuestGeneralProtection" -> INJECT_GP

=============================================================================
