---------------------------- MODULE ExitBitmaps -----------------------------
(***************************************************************************)
(* The MSR bitmap and the two I/O bitmaps (src/vmx/exit_bitmaps.rs): which *)
(* bits Aleph0 sets, which guest RDMSR, WRMSR, IN and OUT the CPU then     *)
(* makes exit, and what the decision of ExitDecision and the handler's     *)
(* execute make of those that do.                                          *)
(*                                                                         *)
(* A bitmap page is the set of its set bits, each <<byte offset, bit>> as  *)
(* the code computes them.  The CPU counts bits from the start of the      *)
(* page.  The MSRs in VMCS_HELD_MSRS have two values, the guest's and the  *)
(* host's: the CPU holds the guest's while the guest runs and the host's   *)
(* while the handler does.                                                 *)
(***************************************************************************)
EXTENDS ExitDecision

CONSTANTS Msrs,      \* the MSRs the guest names in ECX
          Existing,  \* those the CPU has
          Values,    \* the values the guest writes, <<EDX, EAX>>
          Ports      \* the ports the guest names

ASSUME GuestAssumption ==
  /\ Msrs \subseteq Int /\ Ports \subseteq Nat /\ (\A p \in Ports : p < 65536)
  /\ Values \subseteq Int \X Int /\ <<0, 0>> \in Values
  /\ INTERCEPTED_MSRS \subseteq Existing

VARIABLES stage,   \* "new", "filled", "guest", "failed" or "stopped"
          mem,     \* the bitmap pages: mem[p] is page p's set bits
          vmcs,    \* the page each VMCS field points at
          msrs,    \* the CPU's MSRs as the guest sees them
          host,    \* the host's values of VMCS_HELD_MSRS
          bare,    \* the MSRs after the same accesses with no hypervisor (history)
          last     \* the last access and how it went

vars == <<stage, mem, vmcs, msrs, host, bare, last>>

INTERCEPTED_PORTS == {1023}      \* GUEST_SCRATCH_PORT

\* DEBUGCTL, SYSENTER_CS/ESP/EIP, PAT, PERF_GLOBAL_CTRL, BNDCFGS, EFER, FS_BASE, GS_BASE.
VMCS_HELD_MSRS == {473, 372, 373, 374, 631, 911, 3472,
                   -1073741696, -1073741568, -1073741567}

\* The compile-time assertion: every intercepted MSR has a bit, none is held in the VMCS.
ASSUME InterceptedAssumption ==
  \A m \in INTERCEPTED_MSRS : HasMsrBit(m) /\ m \notin VMCS_HELD_MSRS

-----------------------------------------------------------------------------
(* Where a bit is.                                                         *)

MsrIndex(msr) == IF msr >= 0 THEN msr ELSE msr - MSR_HIGH

\* For an MSR with HasMsrBit.
msr_bit(msr, access) ==
  LET read_offset == IF msr >= 0 THEN 0 ELSE 1024
      offset == IF access = "Read" THEN read_offset ELSE read_offset + 2048
  IN  <<offset + (MsrIndex(msr) \div 8), MsrIndex(msr) % 8>>

\* The ports of one I/O bitmap.
IO_PORTS == 32768

\* Mutant: the bit within the byte counted from the wrong end.
io_bit_mutant(port) ==
  [page |-> IF port < IO_PORTS THEN "A" ELSE "B",
   at |-> <<(port % IO_PORTS) \div 8, 7 - (port % 8)>>]

io_bit(port) ==
  [page |-> IF port < IO_PORTS THEN "A" ELSE "B",
   at |-> <<(port % IO_PORTS) \div 8, port % 8>>]

FilledMsr ==
  {msr_bit(m, access) : m \in INTERCEPTED_MSRS, access \in {"Read", "Write"}}
FilledIo(page) ==
  {io_bit(p).at : p \in {q \in INTERCEPTED_PORTS : io_bit(q).page = page}}

fill(msr, io_a, io_b) ==
  [p \in {msr, io_a, io_b} |->
     CASE p = msr -> FilledMsr [] p = io_a -> FilledIo("A") [] p = io_b -> FilledIo("B")]

NoAccess == [op |-> "none", at |-> 0, bytes |-> 0, exited |-> FALSE,
             outcome |-> "none", bare |-> "none", value |-> <<0, 0>>,
             bare_value |-> <<0, 0>>]

Init ==
  /\ stage = "new"
  /\ mem = [p \in 1..3 |-> {}]
  /\ vmcs = [MSR_BITMAP |-> 0, IO_BITMAP_A |-> 0, IO_BITMAP_B |-> 0]
  /\ msrs = [m \in Msrs \cap Existing |-> <<0, 0>>]
  /\ host = [m \in Msrs \cap Existing |-> <<1, 1>>]
  /\ bare = msrs
  /\ last = NoAccess

\* UEFI may fail each of the three allocations.
allocate ==
  /\ stage = "new"
  /\ \/ /\ mem' = fill(1, 2, 3)
        /\ stage' = "filled"
     \/ /\ stage' = "failed"
        /\ UNCHANGED mem
  /\ UNCHANGED <<vmcs, msrs, host, bare, last>>

write_to_vmcs ==
  /\ stage = "filled"
  /\ vmcs' = [MSR_BITMAP |-> 1, IO_BITMAP_A |-> 2, IO_BITMAP_B |-> 3]
  /\ stage' = "guest"
  /\ UNCHANGED <<mem, msrs, host, bare, last>>

-----------------------------------------------------------------------------
(* The CPU: which accesses exit, and what an access does by itself.        *)

BitSet(page, n) == <<n \div 8, n % 8>> \in page

\* Four arrays of MSR_RANGE bits: read low, read high, write low, write high.
Half(access) == IF access = "Read" THEN 0 ELSE 2 * MSR_RANGE
MsrExits(page, msr, access) ==
  LET low == 0 <= msr /\ msr < MSR_RANGE
      high == MSR_HIGH <= msr /\ msr < MSR_HIGH + MSR_RANGE
  IN  \/ low /\ BitSet(page, Half(access) + msr)
      \/ high /\ BitSet(page, Half(access) + (MSR_RANGE + (msr - MSR_HIGH)))
      \/ ~low /\ ~high

\* An access that runs past the last port exits whatever the bitmaps say.
IoExits(a, b, port, bytes) ==
  \/ port + bytes > 2 * IO_PORTS
  \/ \E p \in port .. (port + bytes - 1) :
       \/ p < IO_PORTS /\ BitSet(a, p)
       \/ p >= IO_PORTS /\ BitSet(b, p - IO_PORTS)

AddressMsrs == {-1073741568, -1073741567, -1073741566}

\* Bits 63:48 repeat bit 47.
Canonical(value) == -32768 <= value[1] /\ value[1] < 32768

Faults(msr, access, value) ==
  \/ msr \notin Msrs \cap Existing
  \/ access = "Write" /\ msr \in AddressMsrs /\ ~Canonical(value)

\* The MSRs `regs` after a RDMSR or WRMSR that does not fault.
Accessed(regs, msr, access, value) ==
  IF access = "Read" THEN regs ELSE [regs EXCEPT ![msr] = value]

-----------------------------------------------------------------------------
(* The guest runs one instruction.                                         *)

Ran(access, msr, exited, outcome, value, fault) ==
  last' = [op |-> access, at |-> msr, bytes |-> 0, exited |-> exited,
           outcome |-> outcome, bare |-> IF fault THEN "fault" ELSE "done",
           value |-> value,
           bare_value |-> IF fault THEN <<0, 0>> ELSE bare'[msr]]

\* An access that does not exit, to the guest's own values.
MsrDirect(msr, access, value) ==
  LET fault == Faults(msr, access, value) IN
  /\ ~MsrExits(mem[vmcs.MSR_BITMAP], msr, access)
  /\ msrs' = IF fault THEN msrs ELSE Accessed(msrs, msr, access, value)
  /\ bare' = IF fault THEN bare ELSE Accessed(bare, msr, access, value)
  /\ Ran(access, msr, FALSE, IF fault THEN "fault" ELSE "done",
         IF fault THEN <<0, 0>> ELSE msrs'[msr], fault)
  /\ UNCHANGED <<stage, host>>

MsrJudged(msr, access, value) ==
  LET exit == [rcx |-> msr, rdx |-> value[1], rax |-> value[2]]
  IN  IF access = "Read" THEN rdmsr(InitState, exit) ELSE wrmsr(InitState, exit)

\* execute in root operation reaches the host's value of an MSR the VMCS holds.
execute(msr, access, value) ==
  IF msr \in VMCS_HELD_MSRS
  THEN /\ host' = Accessed(host, msr, access, value)
       /\ UNCHANGED msrs
  ELSE /\ msrs' = Accessed(msrs, msr, access, value)
       /\ UNCHANGED host

MsrExit(msr, access, value) ==
  LET fault == Faults(msr, access, value)
      event == MsrJudged(msr, access, value).event
  IN
  /\ MsrExits(mem[vmcs.MSR_BITMAP], msr, access)
  /\ bare' = IF fault THEN bare ELSE Accessed(bare, msr, access, value)
  /\ IF event = "Emulated" THEN execute(msr, access, value) ELSE UNCHANGED <<msrs, host>>
  /\ stage' = IF event = "Unexpected" THEN "stopped" ELSE stage
  /\ Ran(access, msr, TRUE,
         CASE event = "Emulated" -> "done"
           [] event = "GuestGeneralProtection" -> "fault"
           [] OTHER -> "stopped",
         CASE event # "Emulated" -> <<0, 0>>
           [] event = "Emulated" /\ msr \in VMCS_HELD_MSRS -> host'[msr]
           [] OTHER -> msrs'[msr],
         fault)

GuestMsr(msr, access, value) ==
  /\ stage = "guest"
  /\ MsrDirect(msr, access, value) \/ MsrExit(msr, access, value)
  /\ UNCHANGED <<mem, vmcs>>

Bytes(size) == CASE size = "Byte" -> 1 [] size = "Word" -> 2 [] size = "Dword" -> 4

\* IN or OUT: the port itself is reached directly, or by execute with the same size.
GuestIo(port, size, is_in) ==
  LET exits == IoExits(mem[vmcs.IO_BITMAP_A], mem[vmcs.IO_BITMAP_B], port, Bytes(size))
      q == [size |-> size, is_in |-> is_in, is_string |-> FALSE, is_rep |-> FALSE,
            port |-> port]
      judged == io(InitState, [io |-> q, rax |-> 0])
      reached == ~exits \/ (judged.event = "Emulated" /\ judged.emulation.port = port
                                                      /\ judged.emulation.size = size)
  IN
  /\ stage = "guest"
  /\ last' = [op |-> IF is_in THEN "In" ELSE "Out", at |-> port, bytes |-> Bytes(size),
               exited |-> exits, outcome |-> IF reached THEN "done" ELSE "stopped",
               bare |-> "done", value |-> <<0, 0>>, bare_value |-> <<0, 0>>]
  /\ stage' = IF reached THEN stage ELSE "stopped"
  /\ UNCHANGED <<mem, vmcs, msrs, host, bare>>

Next ==
  \/ allocate
  \/ write_to_vmcs
  \/ \E msr \in Msrs, value \in Values :
       GuestMsr(msr, "Read", value) \/ GuestMsr(msr, "Write", value)
  \/ \E port \in Ports, size \in {"Byte", "Word", "Dword"}, is_in \in BOOLEAN :
       GuestIo(port, size, is_in)

Spec == Init /\ [][Next]_vars

-----------------------------------------------------------------------------
(* Properties.                                                             *)

MsrValues == [Msrs \cap Existing -> Int \X Int]

(* The bitmaps fill sets and write_to_vmcs installs make exactly the       *)
(* intended accesses exit: a RDMSR or WRMSR of an intercepted MSR or of an *)
(* MSR outside the bitmap's ranges, an IN or OUT that touches an           *)
(* intercepted port or runs past the last one, and nothing else.  So route *)
(* never answers NotIntercepted and the guest is never stopped for one.    *)
ExitsExact ==
  /\ stage # "stopped"
  /\ last.op \in {"Read", "Write"} =>
       (last.exited <=> (~HasMsrBit(last.at) \/ last.at \in INTERCEPTED_MSRS))
  /\ last.op \in {"In", "Out"} =>
       (last.exited <=> \/ last.at + last.bytes > 2 * IO_PORTS
                        \/ \E p \in INTERCEPTED_PORTS :
                             p \in last.at .. (last.at + last.bytes - 1))

(* In the bitmap's ranges passthrough and emulation together are           *)
(* invisible: after any accesses the guest's MSRs there are those it would *)
(* have on the bare CPU, and each RDMSR or WRMSR of one had the bare CPU's *)
(* outcome, value or fault; and the host's own values of the MSRs the VMCS *)
(* holds were never touched (the comment of VMCS_HELD_MSRS and the SAFETY  *)
(* comments of execute).  An MSR outside the ranges gets #GP(0), whatever  *)
(* the CPU would do with it.                                               *)
MsrsTransparent ==
  /\ \A m \in Msrs \cap Existing : HasMsrBit(m) => msrs[m] = bare[m]
  /\ \A m \in Msrs \cap Existing : host[m] = <<1, 1>>
  /\ (last.op \in {"Read", "Write"} /\ HasMsrBit(last.at)) =>
       last.outcome = last.bare /\ last.value = last.bare_value
=============================================================================
