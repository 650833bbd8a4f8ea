---------------------------- MODULE GuestProgram -----------------------------
(***************************************************************************)
(* The test guest (src/vmx/guest.rs) as an operator on a machine state.    *)
(* Instructions that neither exit nor touch what another step can see are  *)
(* grouped with the next one: between two labels an NMI can make no        *)
(* difference, since the guest's NMI handler saves RAX, its IRETQ restores *)
(* the flags, and it changes only EBX.                                     *)
(*                                                                         *)
(* A machine is the guest's registers, its stack (top first), the first    *)
(* dword of its data page, and the two pieces of hardware it reaches: the  *)
(* MSR IA32_KERNEL_GS_BASE (as <<high half, low half>>) and the byte of    *)
(* the COM1 scratch port, which not every UART has: scratch says whether   *)
(* it keeps what is written to it.                                         *)
(***************************************************************************)
EXTENDS ExitDecision, Sequences

CONSTANTS WaitIterations, \* GUEST_WAIT_ITERATIONS, a small bound here
          CpuidRaw        \* what the processor's CPUID returns

ASSUME WaitAssumption == WaitIterations \in Nat \ {0}
ASSUME CpuidAssumption == CpuidRaw \in [eax : Int, ebx : Int, ecx : Int, edx : Int]

KERNEL_GS_BASE == -1073741566
GUEST_SCRATCH_PORT == 1023       \* 0x3FF
GUEST_MSR_VALUE == <<31262, 0>>  \* 0x00007A1E_00000000
GUEST_IO_VALUE == 165            \* 0xA5
GUEST_EMULATION_FAIL_MARKER == 64017 \* 0xFA11

\* Labels: the addresses other definitions name.
AtCpuid == 1
AtRdmsr == {3, 7}
AtWrmsr == {5, 9}
AtIn == {11, 15}
AtOut == {13, 17}
AtDataWrite == 20
AtMainVmcall == {22, 27}
LastMainVmcallAt == 27
guest_wait == 24
guest_wait_done == 26
guest_nmi_handler == 29
AtNmiVmcall == 30
AtIretq == 32
guest_emulation_failed == 33
AtUd2 == {28, 34}

Emulated == {AtCpuid} \cup AtRdmsr \cup AtWrmsr \cup AtIn \cup AtOut

\* Instructions that leave the guest whatever the controls say, or stop it.
Exiting == Emulated \cup AtMainVmcall \cup {AtNmiVmcall} \cup AtUd2

\* Labels inside the NMI handler.
InNmiHandler == guest_nmi_handler..AtIretq

Machine == [rip : 0..34, rax : Int, rbx : Int, rcx : Int, rdx : Int, rsi : Int, rdi : Int,
            stack : Seq(Int), data : Int, msr : Int \X Int, port : 0..255,
            scratch : BOOLEAN]

\* Mutant: the byte written back is the test byte, not the old one.
scratch_compared_mutant(m) ==
  IF m.rax % 256 # GUEST_IO_VALUE
  THEN [m EXCEPT !.rip = guest_emulation_failed]
  ELSE [m EXCEPT !.rip = 17]

\* The byte read back from the scratch port is compared, and the old one loaded.
scratch_compared(m) ==
  IF m.rax % 256 # GUEST_IO_VALUE
  THEN [m EXCEPT !.rip = guest_emulation_failed]
  ELSE [m EXCEPT !.rip = 17, !.rax = merge_in(@, "Byte", m.rsi)]

\* Mutant: the loop counter is not decremented.
wait_loop_mutant(m) ==
  CASE m.rip = 23 -> [m EXCEPT !.rip = guest_wait, !.rcx = WaitIterations]
    [] m.rip = 24 -> [m EXCEPT !.rip = IF m.rbx # 0 THEN guest_wait_done ELSE 25]
    [] m.rip = 25 -> [m EXCEPT !.rip = guest_wait]

\* The loop that waits for an NMI, or for the counter to run out.
wait_loop(m) ==
  CASE m.rip = 23 -> [m EXCEPT !.rip = guest_wait, !.rcx = WaitIterations]
    [] m.rip = 24 -> [m EXCEPT !.rip = IF m.rbx # 0 THEN guest_wait_done ELSE 25]
    [] m.rip = 25 -> [m EXCEPT !.rip = IF m.rcx - 1 # 0 THEN guest_wait ELSE guest_wait_done,
                               !.rcx = @ - 1]

push(word, stack) == <<word>> \o stack

\* One group of instructions that run without leaving the guest.
straight(m) ==
  CASE m.rip = 0  -> [m EXCEPT !.rip = 1, !.rax = 1, !.rcx = 0]
    [] m.rip = 2  -> IF (m.rcx \div 32) % 2 = 1
                     THEN [m EXCEPT !.rip = guest_emulation_failed]
                     ELSE [m EXCEPT !.rip = 3, !.rcx = KERNEL_GS_BASE]
    [] m.rip = 4  -> [m EXCEPT !.rip = 5, !.rsi = m.rax, !.rdi = m.rdx,
                               !.rax = GUEST_MSR_VALUE[2], !.rdx = GUEST_MSR_VALUE[1]]
    [] m.rip = 6  -> [m EXCEPT !.rip = 7, !.rax = 0, !.rdx = 0]
    [] m.rip = 8  -> IF <<m.rdx, m.rax>> # GUEST_MSR_VALUE
                     THEN [m EXCEPT !.rip = guest_emulation_failed]
                     ELSE [m EXCEPT !.rip = 9, !.rax = m.rsi, !.rdx = m.rdi]
    [] m.rip = 10 -> [m EXCEPT !.rip = 11, !.rdx = merge_in(@, "Word", GUEST_SCRATCH_PORT)]
    [] m.rip = 12 -> [m EXCEPT !.rip = 13, !.rsi = merge_in(@, "Byte", m.rax),
                               !.rax = merge_in(@, "Byte", GUEST_IO_VALUE)]
    [] m.rip = 14 -> [m EXCEPT !.rip = 15, !.rax = 0]
    [] m.rip = 16 -> scratch_compared(m)
    [] m.rip = 18 -> [m EXCEPT !.rip = 19, !.rbx = 0]
    [] m.rip = 19 -> [m EXCEPT !.rip = 20, !.rcx = m.data]
    [] m.rip = 20 -> [m EXCEPT !.rip = 21, !.data = GUEST_EPT_VALUE]
    [] m.rip = 21 -> [m EXCEPT !.rip = 22, !.rdx = m.data, !.rax = GUEST_MARKER]
    [] m.rip \in 23..25 -> wait_loop(m)
    [] m.rip = 26 -> [m EXCEPT !.rip = 27, !.rax = @ + 1]
    [] m.rip = 29 -> [m EXCEPT !.rip = 30, !.stack = push(m.rax, @),
                               !.rax = GUEST_NMI_MARKER]
    [] m.rip = 31 -> [m EXCEPT !.rip = 32, !.rax = Head(m.stack), !.stack = Tail(@),
                               !.rbx = 1]
    [] m.rip = 32 -> [m EXCEPT !.rip = Head(m.stack), !.stack = Tail(@)]
    [] m.rip = 33 -> [m EXCEPT !.rip = 34, !.rax = GUEST_EMULATION_FAIL_MARKER]

\* The scratch port after a byte is written to it.
scratch_written(m, byte) == IF m.scratch THEN byte ELSE m.port

\* NMI delivery through the guest IDT.
deliver_nmi(m) == [m EXCEPT !.rip = guest_nmi_handler, !.stack = push(m.rip, @)]

\* The machine at VMLAUNCH: seeded data page, any registers, any hardware state.
GuestStart(msr, port, scratch) ==
  [rip |-> 0, rax |-> 3, rbx |-> 1, rcx |-> 2, rdx |-> 4, rsi |-> 5, rdi |-> 6,
   stack |-> <<>>, data |-> GUEST_DATA_SEED, msr |-> msr, port |-> port,
   scratch |-> scratch]
=============================================================================
