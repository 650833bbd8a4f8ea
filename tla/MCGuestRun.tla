----------------------------- MODULE MCGuestRun ------------------------------
(***************************************************************************)
(* Values for model checking GuestRun.                                     *)
(***************************************************************************)
EXTENDS GuestRun

NoExits == {}
OneVmreadFault == {{}} \cup {{f} : f \in Fields}
AnyWriteFault == Writes \cup {"none"}

\* CPUID.1 with VMX (bit 5) and SSE3 (bit 0) in ECX, and EBX not 0.
McCpuid == [eax |-> 1000, ebx |-> 2048, ecx |-> 33, edx |-> 8]

\* The original MSR value is a high canonical address; the port's may be the
\* byte the guest writes.
McMsrs == {<<-2, 77>>}
McPorts == {90, GUEST_IO_VALUE}
=============================================================================
