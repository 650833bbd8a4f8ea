---------------------------- MODULE MCExitHandler ----------------------------
(***************************************************************************)
(* Exits and faults for model checking ExitHandler.                        *)
(***************************************************************************)
EXTENDS ExitHandler

NoIo == [size |-> "Byte", is_in |-> FALSE, is_string |-> FALSE, is_rep |-> FALSE, port |-> 0]

\* An exit with nothing special about it, refined below.
Base == [basic |-> "other", entry_failure |-> FALSE, interruption_info |-> "none",
         rax |-> 0, rcx |-> 0, rdx |-> 0, interruptibility |-> {},
         idt_vectoring_valid |-> FALSE, ept |-> {}, io |-> NoIo,
         guest_page |-> 0, protected_page |-> 7]

ProtectedWrite == {"WRITE", "READABLE", "LINEAR_VALID", "TRANSLATED"}
EptWrite == [Base EXCEPT !.basic = "ept_violation", !.ept = ProtectedWrite, !.guest_page = 7]
Vmcall(rax) == [Base EXCEPT !.basic = "vmcall", !.rax = rax,
                            !.rcx = GUEST_DATA_SEED, !.rdx = GUEST_EPT_VALUE]
Nmi(blocking) == [Base EXCEPT !.basic = "exception_or_nmi", !.interruption_info = "NMI",
                              !.interruptibility = blocking]
Window(blocking) == [Base EXCEPT !.basic = "nmi_window", !.interruptibility = blocking]
KernelGsBase == -1073741566
Rdmsr(msr) == [Base EXCEPT !.basic = "rdmsr", !.rcx = msr]
Wrmsr(msr, high) == [Base EXCEPT !.basic = "wrmsr", !.rcx = msr, !.rdx = high]
Io(in) == [Base EXCEPT !.basic = "io", !.io.is_in = in]
Cpuid == [Base EXCEPT !.basic = "cpuid", !.rax = 1]

\* Exits the handler resumes or finishes with.
PlannedExits ==
  {Cpuid, Rdmsr(KernelGsBase), Wrmsr(KernelGsBase, 31262), Io(TRUE), Io(FALSE),
   EptWrite, Vmcall(GUEST_MARKER), Vmcall(GUEST_MARKER + 1), Vmcall(GUEST_NMI_MARKER)}

\* Every other kind of exit decide tells apart.
OtherExits ==
  {Base, [Base EXCEPT !.basic = "ept_misconfig"],
   [Base EXCEPT !.entry_failure = TRUE],
   [Nmi({}) EXCEPT !.entry_failure = TRUE],
   [EptWrite EXCEPT !.idt_vectoring_valid = TRUE],
   [EptWrite EXCEPT !.guest_page = 8],
   [EptWrite EXCEPT !.ept = @ \cup {"NMI_UNBLOCKING_IRET"}],
   [EptWrite EXCEPT !.guest_page = 0, !.protected_page = 0],
   [Base EXCEPT !.basic = "exception_or_nmi", !.interruption_info = "exception"],
   Nmi({}), Nmi({"NMI"}), Nmi({"MOV_SS"}),
   Window({}), Window({"STI"}),
   [Vmcall(GUEST_MARKER) EXCEPT !.rdx = GUEST_DATA_SEED], Vmcall(0),
   Rdmsr(20000), Rdmsr(16), Wrmsr(KernelGsBase, 32768), Wrmsr(20000, 0), Wrmsr(16, 0),
   [Io(TRUE) EXCEPT !.io.is_string = TRUE], [Io(FALSE) EXCEPT !.io.is_rep = TRUE],
   [Io(TRUE) EXCEPT !.io.size = "unused"]}

AnyExits == PlannedExits \cup OtherExits

NoVmreadFaults == {{}}
OneVmreadFault == {{}} \cup {{f} : f \in Fields}
NoWriteFaults == {"none"}
AnyWriteFault == Writes \cup {"none"}
=============================================================================
