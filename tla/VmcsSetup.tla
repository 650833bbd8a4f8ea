------------------------------ MODULE VmcsSetup ------------------------------
(***************************************************************************)
(* What goes into the VMCS before VMLAUNCH (src/vmx/vmcs/mod.rs,           *)
(* src/vmx/guest_state.rs, src/vmx/msr.rs; prepare_vmcs and launch_guest   *)
(* in src/bring_up/mod.rs): the capability MSRs, the controls chosen from  *)
(* them, the write and readback of every field, and what is still known    *)
(* of a failing VMX instruction once teardown has cleared the VMCS.        *)
(*                                                                         *)
(* A control field holds a set of bits; every other field holds a set with *)
(* one name, saying what its value was taken from.  VMCLEAR leaves any     *)
(* value in the fields of a fresh VMCS: "stale".                           *)
(***************************************************************************)
EXTENDS Integers, Sequences, Functions

CONSTANTS Cpus,        \* the processors: CPUID, feature control, VMX MSRs
          ErrorNumbers,\* VM-instruction error numbers
          MaxChanges   \* bound on UEFI calls that change GDTR, TR or IDTR

VARIABLES cpu,         \* the processor, one of Cpus
          read,        \* the MSRs read by RDMSR (history)
          controls,    \* VmcsControlMsrs
          pc,          \* the step of Steps
          todo,        \* the step's writes still to do: <<field, value>>
          vmcs,        \* the fields of the VMCS
          current,     \* the VMCS is current
          vm_error,    \* the VM-instruction error field
          failed,      \* the VMX instruction that failed first (history)
          result,      \* what bring-up returns
          tables,      \* GDTR, TR and IDTR: as activated or changed
          changes      \* UEFI calls that changed them

vars == <<cpu, read, controls, pc, todo, vmcs, current, vm_error, failed, result,
          tables, changes>>

Steps == <<"check_vmx_support", "creation", "self-test", "control setup",
  "EPT pointer setup", "exit bitmap setup", "host-state setup",
  "exit-control readback", "host entry address setup", "guest-state collection",
  "guest-state write", "check_host_tables_preserved", "launch", "teardown",
  "report", "reported">>

Bits == {"NMI_EXITING", "VIRTUAL_NMIS", "USE_IO_BITMAPS", "USE_MSR_BITMAPS",
  "ACTIVATE_SECONDARY_CONTROLS", "NMI_WINDOW_EXITING", "ENABLE_EPT", "ENABLE_VPID",
  "HOST_ADDRESS_SPACE_SIZE", "IA32E_MODE_GUEST", "LOAD_IA32_PAT", "LOAD_IA32_EFER",
  "DEFAULT1"}

\* A ControlCapability: the low half of its MSR and the high half.
ControlCapability == [required : SUBSET Bits, allowed : SUBSET Bits]
Absent == [required |-> {}, allowed |-> {}]

ASSUME CpusAssumption ==
  /\ ErrorNumbers \subseteq Nat \ {0}
  /\ MaxChanges \in Nat
  /\ \A c \in Cpus :
       /\ c.vmx \in BOOLEAN /\ c.locked \in BOOLEAN /\ c.outside_smx \in BOOLEAN
       /\ c.true_controls \in BOOLEAN /\ c.ept \in BOOLEAN
       /\ \A m \in DOMAIN c.msr : c.msr[m] \in ControlCapability

\* With VMX come the four control MSRs, their true variants where
\* IA32_VMX_BASIC reports them, and IA32_VMX_PROCBASED_CTLS2 where the primary
\* controls can activate it.
ASSUME MsrsAssumption ==
  \A c \in Cpus : c.vmx =>
    LET msr(n) == <<n, IF c.true_controls THEN "true" ELSE "default">>
    IN /\ \A n \in {"pinbased", "primary", "exit", "entry"} : msr(n) \in DOMAIN c.msr
       /\ "ACTIVATE_SECONDARY_CONTROLS" \in c.msr[msr("primary")].allowed =>
            <<"secondary">> \in DOMAIN c.msr

\* No processor requires a VPID: VM entry allows 0 for every secondary control.
ASSUME VpidAssumption ==
  \A c \in Cpus : <<"secondary">> \in DOMAIN c.msr =>
    "ENABLE_VPID" \notin c.msr[<<"secondary">>].required

-----------------------------------------------------------------------------
(* The fields each step writes, in order.  The four fields of a guest      *)
(* segment, written one after another from one GuestSegment, are one.      *)

ControlFields == {"PIN_BASED_VM_EXEC_CONTROL", "PRIMARY_VM_EXEC_CONTROL",
  "SECONDARY_VM_EXEC_CONTROL", "VM_EXIT_CONTROLS", "VM_ENTRY_CONTROLS"}
\* Mutant: no word on event injection.
ZeroedFields_mutant == <<"CR3_TARGET_COUNT", "VM_EXIT_MSR_STORE_COUNT",
  "VM_EXIT_MSR_LOAD_COUNT", "VM_ENTRY_MSR_LOAD_COUNT", "PAGE_FAULT_ERROR_CODE_MASK",
  "PAGE_FAULT_ERROR_CODE_MATCH">>

ZeroedFields == <<"CR3_TARGET_COUNT", "VM_EXIT_MSR_STORE_COUNT",
  "VM_EXIT_MSR_LOAD_COUNT", "VM_ENTRY_MSR_LOAD_COUNT", "VM_ENTRY_INTERRUPTION_INFO",
  "PAGE_FAULT_ERROR_CODE_MASK", "PAGE_FAULT_ERROR_CODE_MATCH">>
BitmapFields == <<"MSR_BITMAP", "IO_BITMAP_A", "IO_BITMAP_B">>
HostRegisters == <<"HOST_ES_SELECTOR", "HOST_CS_SELECTOR", "HOST_SS_SELECTOR",
  "HOST_DS_SELECTOR", "HOST_FS_SELECTOR", "HOST_GS_SELECTOR", "HOST_TR_SELECTOR",
  "HOST_CR0", "HOST_CR3", "HOST_CR4", "HOST_FS_BASE", "HOST_GS_BASE", "HOST_TR_BASE",
  "HOST_GDTR_BASE", "HOST_IDTR_BASE", "HOST_IA32_SYSENTER_CS",
  "HOST_IA32_SYSENTER_ESP", "HOST_IA32_SYSENTER_EIP">>
GuestRegisters == <<"GUEST_ES", "GUEST_CS", "GUEST_SS", "GUEST_DS", "GUEST_FS",
  "GUEST_GS", "GUEST_LDTR", "GUEST_TR", "GUEST_RIP", "GUEST_RSP", "GUEST_RFLAGS",
  "GUEST_CR0", "GUEST_CR3", "GUEST_CR4", "GUEST_GDTR_BASE", "GUEST_GDTR_LIMIT",
  "GUEST_IDTR_BASE", "GUEST_IDTR_LIMIT", "GUEST_IA32_SYSENTER_CS",
  "GUEST_IA32_SYSENTER_ESP", "GUEST_IA32_SYSENTER_EIP", "GUEST_DR7",
  "GUEST_IA32_DEBUGCTL", "VMCS_LINK_POINTER", "GUEST_ACTIVITY_STATE",
  "GUEST_INTERRUPTIBILITY_STATE", "GUEST_PENDING_DEBUG_EXCEPTIONS">>

\* The fields that describe GDTR, TR and IDTR.
TableFields == {"HOST_TR_SELECTOR", "HOST_TR_BASE", "HOST_GDTR_BASE",
  "HOST_IDTR_BASE", "GUEST_TR", "GUEST_GDTR_BASE", "GUEST_GDTR_LIMIT"}

\* The architecture's VMCS, whatever the code writes: the fields the processor
\* consults under any controls, at VM entry, in the guest or at a VM exit.
AlwaysConsulted ==
  {"PIN_BASED_VM_EXEC_CONTROL", "PRIMARY_VM_EXEC_CONTROL", "VM_EXIT_CONTROLS",
   "VM_ENTRY_CONTROLS", "EXCEPTION_BITMAP", "PAGE_FAULT_ERROR_CODE_MASK",
   "PAGE_FAULT_ERROR_CODE_MATCH", "CR3_TARGET_COUNT", "VM_EXIT_MSR_STORE_COUNT",
   "VM_EXIT_MSR_LOAD_COUNT", "VM_ENTRY_MSR_LOAD_COUNT", "VM_ENTRY_INTERRUPTION_INFO",
   "GUEST_CR0", "GUEST_CR3", "GUEST_CR4", "GUEST_DR7", "GUEST_RSP", "GUEST_RIP",
   "GUEST_RFLAGS", "GUEST_CS", "GUEST_SS", "GUEST_DS", "GUEST_ES", "GUEST_FS", "GUEST_GS",
   "GUEST_LDTR", "GUEST_TR", "GUEST_GDTR_BASE", "GUEST_GDTR_LIMIT", "GUEST_IDTR_BASE",
   "GUEST_IDTR_LIMIT", "GUEST_IA32_DEBUGCTL", "GUEST_IA32_SYSENTER_CS",
   "GUEST_IA32_SYSENTER_ESP", "GUEST_IA32_SYSENTER_EIP", "GUEST_ACTIVITY_STATE",
   "GUEST_INTERRUPTIBILITY_STATE", "GUEST_PENDING_DEBUG_EXCEPTIONS",
   "VMCS_LINK_POINTER", "HOST_CR0", "HOST_CR3", "HOST_CR4", "HOST_RSP", "HOST_RIP",
   "HOST_CS_SELECTOR", "HOST_SS_SELECTOR", "HOST_DS_SELECTOR", "HOST_ES_SELECTOR",
   "HOST_FS_SELECTOR", "HOST_GS_SELECTOR", "HOST_TR_SELECTOR", "HOST_FS_BASE",
   "HOST_GS_BASE", "HOST_TR_BASE", "HOST_GDTR_BASE", "HOST_IDTR_BASE",
   "HOST_IA32_SYSENTER_CS", "HOST_IA32_SYSENTER_ESP", "HOST_IA32_SYSENTER_EIP"}

\* Consulted where a control is on.
SwitchedFields ==
  {"SECONDARY_VM_EXEC_CONTROL", "EPT_POINTER", "VIRTUAL_PROCESSOR_IDENTIFIER",
   "MSR_BITMAP", "IO_BITMAP_A", "IO_BITMAP_B", "HOST_IA32_PAT", "HOST_IA32_EFER",
   "GUEST_IA32_PAT", "GUEST_IA32_EFER"}

\* Consulted where the field before it is not zero.
Counted == [CR3_TARGET_COUNT |-> "CR3_TARGET_VALUES",
  VM_EXIT_MSR_STORE_COUNT |-> "VM_EXIT_MSR_STORE_ADDRESS",
  VM_EXIT_MSR_LOAD_COUNT |-> "VM_EXIT_MSR_LOAD_ADDRESS",
  VM_ENTRY_MSR_LOAD_COUNT |-> "VM_ENTRY_MSR_LOAD_ADDRESS",
  VM_ENTRY_INTERRUPTION_INFO |-> "VM_ENTRY_EXCEPTION_ERROR_CODE"]

\* Consulted when the guest reads or changes CR0 or CR4.
CrFields == {"CR0_GUEST_HOST_MASK", "CR0_READ_SHADOW", "CR4_GUEST_HOST_MASK",
  "CR4_READ_SHADOW"}

Fields == AlwaysConsulted \cup SwitchedFields \cup Range(Counted) \cup CrFields

\* The writes that put value in each of fields.
Writes(fields, value) == [i \in DOMAIN fields |->
  <<fields[i], {IF fields[i] \in TableFields THEN tables ELSE value}>>]

\* PAT and EFER, only where the controls load them.
LoadWrites(loads, pat, efer, value) ==
  (IF "LOAD_IA32_PAT" \in loads THEN <<<<pat, {value}>>>> ELSE <<>>) \o
  (IF "LOAD_IA32_EFER" \in loads THEN <<<<efer, {value}>>>> ELSE <<>>)

-----------------------------------------------------------------------------
VmxErrors == {"VmFailInvalid", "VmFailValid"}
Ok == [operation |-> "none", error |-> "none", instruction_error |-> 0]
NoFailure == [number |-> 0, readable |-> TRUE, replaced |-> FALSE]

Init ==
  /\ cpu \in Cpus
  /\ read = {}
  /\ controls = [c \in {"pinbased", "primary", "exit", "entry", "secondary"} |-> Absent]
  /\ pc = "check_vmx_support"
  /\ todo = <<>>
  /\ vmcs = [f \in Fields |-> {"stale"}]
  /\ current = FALSE
  /\ vm_error = 0
  /\ failed = NoFailure
  /\ result = Ok
  /\ tables = "activated"
  /\ changes = 0

-----------------------------------------------------------------------------
(* Failures.  VMfailValid stores an error number in the current VMCS.      *)

\* A UEFI call made by a log line may leave GDTR, TR or IDTR changed.
log_line ==
  \/ UNCHANGED <<tables, changes>>
  \/ /\ changes < MaxChanges
     /\ tables' = IF tables = "activated" THEN "changed" ELSE "activated"
     /\ changes' = changes + 1

\* Bring-up stops with an error that no VMX instruction reported.
stop(operation, error) ==
  /\ result' = [operation |-> operation, error |-> error, instruction_error |-> 0]
  /\ pc' = IF pc = "check_vmx_support" THEN "report" ELSE "teardown"
  /\ todo' = <<>>
  /\ UNCHANGED <<vm_error, failed>>

\* What instruction_error_for finds in the field: its number, or nothing when
\* the VMREAD of it fails too.
instruction_error_for(error, field, readable) ==
  IF error = "VmFailValid" /\ readable THEN field ELSE 0

\* A VMX instruction fails.  A VMREAD failing between it and the one that reads
\* its number leaves the number other in the field; 0 is none.
vmx_fails(operation, other) ==
  \E error \in VmxErrors, number \in ErrorNumbers, readable \in BOOLEAN :
    /\ vm_error' = IF error # "VmFailValid" THEN vm_error
                   ELSE IF other # 0 THEN other ELSE number
    /\ failed' = IF error # "VmFailValid" THEN NoFailure
                 ELSE [number |-> number, readable |-> readable, replaced |-> other # 0]
    /\ result' = [operation |-> operation, error |-> error,
                  instruction_error |-> instruction_error_for(error, vm_error', readable)]
    /\ pc' = "teardown"
    /\ todo' = <<>>

\* A VMX instruction of this step fails; vmcs_step reads the number at once.
vmcs_step(operation) == vmx_fails(operation, 0)

\* vmresume_failed reads the number of a failed VMRESUME to print it, before
\* launch does, and that VMREAD may fail.
vmresume_failed == \E other \in {0} \cup ErrorNumbers : vmx_fails("resume", other)

Proceed(next, writes) ==
  /\ pc' = next
  /\ todo' = writes
  /\ UNCHANGED <<vm_error, failed, result>>

-----------------------------------------------------------------------------
(* Capabilities.                                                           *)

allows(capability, bits) == bits \subseteq capability.allowed

can_choose(capability, desired) ==
  allows(capability, capability.required) /\ allows(capability, desired)

\* Mutant: only the desired bits.
chosen_mutant(capability, desired) == desired

chosen(capability, desired) == desired \cup capability.required

\* The control MSRs, the true variants where IA32_VMX_BASIC reports them.
control_msr(name) == <<name, IF cpu.true_controls THEN "true" ELSE "default">>

rdmsr(msr) == IF msr \in DOMAIN cpu.msr THEN cpu.msr[msr] ELSE Absent

\* Mutant: IA32_VMX_PROCBASED_CTLS2 is always read.
secondary_exists_mutant(primary) == TRUE

secondary_exists(primary) == allows(primary, {"ACTIVATE_SECONDARY_CONTROLS"})

ept_cap_exists(secondary) ==
  allows(secondary, {"ENABLE_EPT"}) \/ allows(secondary, {"ENABLE_VPID"})

read_vmcs_control_msrs ==
  LET primary == rdmsr(control_msr("primary"))
      has_secondary == secondary_exists(primary)
      secondary == IF has_secondary THEN rdmsr(<<"secondary">>) ELSE Absent
  IN /\ controls' = [pinbased |-> rdmsr(control_msr("pinbased")), primary |-> primary,
                     exit |-> rdmsr(control_msr("exit")),
                     entry |-> rdmsr(control_msr("entry")), secondary |-> secondary]
     /\ read' = read \cup {<<"feature_control">>, <<"basic">>} \cup
                {control_msr(n) : n \in {"pinbased", "primary", "exit", "entry"}} \cup
                (IF has_secondary THEN {<<"secondary">>} ELSE {}) \cup
                (IF ept_cap_exists(secondary) THEN {<<"ept_vpid_cap">>} ELSE {})

feature_control_vmx_enabled == cpu.locked /\ cpu.outside_smx

\* CPUID first: IA32_FEATURE_CONTROL may not exist without VMX.
detect == IF ~cpu.vmx THEN "VmxNotSupportedByCpu"
          ELSE IF feature_control_vmx_enabled THEN "Supported"
          ELSE "VmxDisabledByFirmware"

\* detect, read_vmcs_control_msrs and the EPT check_support.
check_vmx_support ==
  /\ pc = "check_vmx_support"
  /\ \/ /\ detect # "Supported"
        /\ read' = IF cpu.vmx THEN read \cup {<<"feature_control">>} ELSE read
        /\ stop("detect", detect)
        /\ UNCHANGED controls
     \/ /\ detect = "Supported"
        /\ read_vmcs_control_msrs
        /\ IF allows(controls'.secondary, {"ENABLE_EPT"}) /\ cpu.ept
           THEN Proceed("creation", <<>>)
           ELSE stop("check_support", "EptUnsupported")
  /\ log_line
  /\ UNCHANGED <<cpu, vmcs, current>>

\* With no VMCS current yet, VMCLEAR and VMPTRLD can only fail invalid.
create_current ==
  /\ pc = "creation"
  /\ \/ /\ Proceed("self-test", <<>>)
        /\ current' = TRUE
     \/ /\ \E error \in {"AllocationFailed", "VmFailInvalid"} : stop("creation", error)
        /\ UNCHANGED current
  /\ UNCHANGED <<cpu, read, controls, vmcs, tables, changes>>

-----------------------------------------------------------------------------
(* prepare_vmcs.  A step first works out its writes, then does each with   *)
(* write_verified; the log line that closes most steps calls UEFI.         *)

After(step) == Steps[(CHOOSE i \in DOMAIN Steps : Steps[i] = step) + 1]

Begins(step) == pc = step /\ todo = <<>>

Desired == [pinbased |-> {"NMI_EXITING", "VIRTUAL_NMIS"},
            primary |-> {"USE_IO_BITMAPS", "USE_MSR_BITMAPS"},
            secondary |-> {"ENABLE_EPT"},
            exit |-> {"HOST_ADDRESS_SPACE_SIZE"},
            entry |-> {"IA32E_MODE_GUEST"}]

primary_request ==
  IF Desired.secondary # {} THEN Desired.primary \cup {"ACTIVATE_SECONDARY_CONTROLS"}
  ELSE Desired.primary

Request == [Desired EXCEPT !.primary = primary_request]

control_writes(value) ==
  <<<<"PIN_BASED_VM_EXEC_CONTROL", value.pinbased>>,
    <<"PRIMARY_VM_EXEC_CONTROL", value.primary>>,
    <<"VM_EXIT_CONTROLS", value.exit>>, <<"VM_ENTRY_CONTROLS", value.entry>>,
    <<"SECONDARY_VM_EXEC_CONTROL", value.secondary>>>> \o Writes(ZeroedFields, "zero") \o
  <<<<"EXCEPTION_BITMAP", {"all"}>>>>

\* The exit handler switches NMI-window exiting on later.
nmi_window_allowed == allows(controls.primary, {"NMI_WINDOW_EXITING"})

configure_controls ==
  /\ Begins("control setup")
  /\ IF \E c \in {"pinbased", "primary", "secondary"} : ~can_choose(controls[c], Request[c])
     THEN stop(pc, "UnsupportedControlValue")
     ELSE IF ~nmi_window_allowed
     THEN stop(pc, "NmiWindowExitingUnsupported")
     ELSE IF \E c \in {"exit", "entry"} : ~can_choose(controls[c], Request[c])
     THEN stop(pc, "UnsupportedControlValue")
     ELSE Proceed(pc, control_writes(
                        [c \in DOMAIN controls |-> chosen(controls[c], Request[c])]))

self_test == Begins("self-test") /\ Proceed(pc, <<<<"GUEST_RIP", {"pattern"}>>>>)

set_ept_pointer ==
  Begins("EPT pointer setup") /\ Proceed(pc, <<<<"EPT_POINTER", {"tables"}>>>>)

write_to_vmcs ==
  Begins("exit bitmap setup") /\ Proceed(pc, Writes(BitmapFields, "page"))

\* The firmware's selectors may have RPL or TI set, or CS or TR be null.
configure_host_state ==
  /\ Begins("host-state setup")
  /\ \/ stop(pc, "HostStateValidation")
     \/ vmcs_step(pc)
     \/ Proceed(pc, Writes(HostRegisters, "host") \o
          LoadWrites(vmcs["VM_EXIT_CONTROLS"], "HOST_IA32_PAT", "HOST_IA32_EFER", "host"))

\* The stack top is allocated page-aligned and the entry is a function's
\* address: configure_host_entry's own check cannot fail.
configure_host_entry ==
  /\ Begins("host entry address setup")
  /\ Proceed(pc, <<<<"HOST_RSP", {"exit stack"}>>, <<"HOST_RIP", {"vmexit_entry"}>>>>)

\* GuestState::write, with what from_current collected just before it.
guest_writes == Writes(GuestRegisters, "guest") \o
  LoadWrites(vmcs["VM_ENTRY_CONTROLS"], "GUEST_IA32_PAT", "GUEST_IA32_EFER", "guest")

\* A selector past the GDT's limit, CS not 64-bit or TR not a busy TSS.
from_current ==
  /\ Begins("guest-state collection")
  /\ \/ vmcs_step("guest-state write")
     \/ stop(pc, "GuestStateInvalid")
     \/ Proceed(After(pc), guest_writes)

BeginStep ==
  /\ \/ self_test \/ configure_controls \/ set_ept_pointer \/ write_to_vmcs
     \/ configure_host_state \/ configure_host_entry \/ from_current
  /\ UNCHANGED <<cpu, read, controls, vmcs, current, tables, changes>>

\* VMWRITE, VMREAD, and a comparison that stops bring-up.
write_verified ==
  /\ todo # <<>>
  /\ LET field == Head(todo)[1]
         value == Head(todo)[2]
         stored(v) == vmcs' = [vmcs EXCEPT ![field] = v]
     IN \/ /\ vmcs_step(pc)
           /\ stored(value) \/ UNCHANGED vmcs
           /\ UNCHANGED <<tables, changes>>
        \/ /\ stored({"other"})
           /\ stop(pc, "ReadbackMismatch")
           /\ UNCHANGED <<tables, changes>>
        \/ /\ stored(value)
           /\ Len(todo) > 1
           /\ Proceed(pc, Tail(todo))
           /\ UNCHANGED <<tables, changes>>
        \/ /\ stored(value)
           /\ Len(todo) = 1
           /\ Proceed(After(pc), <<>>)
           /\ IF pc = "host-state setup" THEN UNCHANGED <<tables, changes>> ELSE log_line
  /\ UNCHANGED <<cpu, read, controls, current>>

exit_control_readback ==
  /\ pc = "exit-control readback"
  /\ \/ vmcs_step(pc) /\ UNCHANGED <<tables, changes>>
     \/ Proceed(After(pc), <<>>) /\ log_line
  /\ UNCHANGED <<cpu, read, controls, vmcs, current>>

\* Mutant: the tables are not compared.
tables_preserved_mutant == TRUE

tables_preserved == tables = "activated"

check_host_tables_preserved ==
  /\ pc = "check_host_tables_preserved"
  /\ IF tables_preserved THEN Proceed("launch", <<>>) ELSE stop(pc, "HostTablesChanged")
  /\ log_line
  /\ UNCHANGED <<cpu, read, controls, vmcs, current>>

\* VMLAUNCH falls through, a VMRESUME does, or the guest stops.
launch ==
  /\ pc = "launch"
  /\ \/ vmcs_step("launch")
     \/ stop("launch", "LaunchReturned")
     \/ vmresume_failed
     \/ stop("resume", "ResumeReturned")
     \/ stop("run", "UnexpectedExit")
     \/ Proceed("teardown", <<>>)
  /\ UNCHANGED <<cpu, read, controls, vmcs, current, tables, changes>>

\* VMCLEAR where a VMCS was created, then VMXOFF, which drops a VMCS that
\* VMCLEAR could not, unless it fails too.
teardown ==
  /\ pc = "teardown"
  /\ pc' = "report"
  /\ \/ current' = FALSE /\ UNCHANGED <<vm_error, result>>
     \/ /\ current
        /\ current' \in BOOLEAN
        /\ \E error \in VmxErrors, number \in ErrorNumbers :
             /\ vm_error' = IF error = "VmFailValid" THEN number ELSE vm_error
             /\ result' = IF result # Ok THEN result
                          ELSE [operation |-> "teardown", error |-> error,
                                instruction_error |-> 0]
  /\ UNCHANGED <<cpu, read, controls, todo, vmcs, failed, tables, changes>>

\* Mutant: the number is read when it is printed.
report_error_mutant ==
  /\ pc = "report"
  /\ pc' = "reported"
  /\ result' = IF result.error = "VmFailValid"
               THEN [result EXCEPT !.instruction_error = IF current THEN vm_error ELSE 0]
               ELSE result
  /\ UNCHANGED <<cpu, read, controls, todo, vmcs, current, vm_error, failed, tables,
                 changes>>

report_error ==
  /\ pc = "report"
  /\ pc' = "reported"
  /\ UNCHANGED <<cpu, read, controls, todo, vmcs, current, vm_error, failed, result,
                 tables, changes>>

Next ==
  \/ check_vmx_support \/ create_current \/ BeginStep \/ write_verified
  \/ exit_control_readback \/ check_host_tables_preserved \/ launch \/ teardown
  \/ report_error

Spec == Init /\ [][Next]_vars

-----------------------------------------------------------------------------
(* Properties.                                                             *)

\* The guest's instructions (guest_code_start to guest_code_end); its moves
\* are between general-purpose registers and memory.
GuestInstructions == {"mov", "xor", "cpuid", "bt", "jc", "rdmsr", "wrmsr", "cmp", "jne",
  "in", "out", "lea", "add", "vmcall", "test", "jnz", "pause", "dec", "inc", "ud2",
  "push", "pop", "iretq"}

\* The fields the processor consults from VMLAUNCH on, under the controls in
\* the VMCS.  The fields of a control that Bits does not name are left out: the
\* code never asks for one and no processor requires one.
Consulted ==
  LET primary == vmcs["PRIMARY_VM_EXEC_CONTROL"]
      secondary == IF "ACTIVATE_SECONDARY_CONTROLS" \in primary
                   THEN vmcs["SECONDARY_VM_EXEC_CONTROL"] ELSE {}
      exit == vmcs["VM_EXIT_CONTROLS"]
      entry == vmcs["VM_ENTRY_CONTROLS"]
      On == [SECONDARY_VM_EXEC_CONTROL |-> "ACTIVATE_SECONDARY_CONTROLS" \in primary,
             EPT_POINTER |-> "ENABLE_EPT" \in secondary,
             VIRTUAL_PROCESSOR_IDENTIFIER |-> "ENABLE_VPID" \in secondary,
             MSR_BITMAP |-> "USE_MSR_BITMAPS" \in primary,
             IO_BITMAP_A |-> "USE_IO_BITMAPS" \in primary,
             IO_BITMAP_B |-> "USE_IO_BITMAPS" \in primary,
             HOST_IA32_PAT |-> "LOAD_IA32_PAT" \in exit,
             HOST_IA32_EFER |-> "LOAD_IA32_EFER" \in exit,
             GUEST_IA32_PAT |-> "LOAD_IA32_PAT" \in entry,
             GUEST_IA32_EFER |-> "LOAD_IA32_EFER" \in entry]
  IN AlwaysConsulted \cup {f \in SwitchedFields : On[f]} \cup
     {Counted[f] : f \in {f \in DOMAIN Counted : vmcs[f] # {"zero"}}} \cup
     {f \in CrFields :
        GuestInstructions \cap {"mov cr", "clts", "lmsw", "smsw"} # {}}

\* At VMLAUNCH every field the CPU consults under the chosen controls was
\* written by prepare_vmcs and read back: none holds what the fresh region
\* held, nor the self-test's pattern, which self_test leaves in GUEST_RIP.
\* The masks and shadows of CR0 and CR4 are never written: a launch is safe
\* from them only because this guest leaves CR0 and CR4 alone.
LaunchFullyWritten ==
  pc = "launch" =>
    \A f \in Consulted : vmcs[f] \cap {"stale", "pattern", "other"} = {}

\* At VMLAUNCH each control field is legal for this processor - every bit it
\* requires, none it forbids, in whichever MSR applies to it - and switches on
\* all the exit handler and the EPT rely on, NMI-window exiting included,
\* which set_nmi_window_exiting turns on only later.
ControlsLegal ==
  pc = "launch" =>
    LET legal(field, msr, bits) ==
          /\ cpu.msr[msr].required \subseteq vmcs[field]
          /\ vmcs[field] \subseteq cpu.msr[msr].allowed
          /\ bits \subseteq vmcs[field]
    IN /\ legal("PIN_BASED_VM_EXEC_CONTROL", control_msr("pinbased"),
                {"NMI_EXITING", "VIRTUAL_NMIS"})
       /\ legal("PRIMARY_VM_EXEC_CONTROL", control_msr("primary"),
                {"USE_IO_BITMAPS", "USE_MSR_BITMAPS", "ACTIVATE_SECONDARY_CONTROLS"})
       /\ legal("SECONDARY_VM_EXEC_CONTROL", <<"secondary">>, {"ENABLE_EPT"})
       /\ legal("VM_EXIT_CONTROLS", control_msr("exit"), {"HOST_ADDRESS_SPACE_SIZE"})
       /\ legal("VM_ENTRY_CONTROLS", control_msr("entry"), {"IA32E_MODE_GUEST"})
       /\ "NMI_WINDOW_EXITING" \in cpu.msr[control_msr("primary")].allowed

\* check_host_tables_preserved: whichever UEFI call changed GDTR, TR or IDTR,
\* and whether before or after the host and guest fields were taken from
\* them, a launched VMCS describes the tables Aleph0 activated, provided they
\* changed at most once.  It compares the tables once, just before the launch:
\* a change undone by a second one, with the fields taken in between, passes.
LaunchDescribesActivatedTables ==
  pc = "launch" /\ changes <= 1 => \A f \in TableFields : vmcs[f] = {"activated"}

\* read_vmcs_control_msrs and detect read an MSR only where the processor has
\* it: an RDMSR of any other raises #GP.
MsrsExist == \A msr \in read : msr \in DOMAIN cpu.msr \cup
  {m \in {<<"feature_control">>, <<"basic">>} : cpu.vmx} \cup
  {m \in {<<"ept_vpid_cap">>} : <<"secondary">> \in DOMAIN cpu.msr /\
     cpu.msr[<<"secondary">>].allowed \cap {"ENABLE_EPT", "ENABLE_VPID"} # {}}

\* report_vmcs_error prints the number of the instruction that failed, though
\* VMCLEAR and VMXOFF ran in between and may have failed with another one.
\* One failure may replace it: that of vmresume_failed's own VMREAD of the
\* number, after a VMRESUME and before launch reads the field again.
ErrorNumberOwn ==
  pc \in {"report", "reported"} /\ result.operation # "teardown" =>
    \/ result.instruction_error = IF failed.readable THEN failed.number ELSE 0
    \/ result.operation = "resume" /\ failed.replaced
=============================================================================
