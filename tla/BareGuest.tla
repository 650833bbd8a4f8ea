------------------------------ MODULE BareGuest ------------------------------
(***************************************************************************)
(* What Aleph0 promises its guest: the guest program runs as on a machine  *)
(* of its own whose CPUID hides VMX, until it is halted.  Instructions     *)
(* take effect in one step, and an NMI is delivered before the next        *)
(* instruction unless an earlier one is still being handled.  Waiting NMIs *)
(* may merge into one.                                                     *)
(***************************************************************************)
EXTENDS GuestProgram

CONSTANTS Msrs, Ports  \* hardware states the guest may start with

VARIABLES machine,
          blocked,     \* an NMI is being handled
          pending,     \* NMIs that arrived and were not delivered yet
          halted

bareVars == <<machine, blocked, pending, halted>>

Init ==
  /\ \E msr \in Msrs, port \in Ports, scratch \in BOOLEAN :
       machine = GuestStart(msr, port, scratch)
  /\ blocked = FALSE
  /\ pending = 0
  /\ halted = FALSE

\* The architectural effect of an instruction the hypervisor intercepts.
native(m) ==
  LET n == [m EXCEPT !.rip = @ + 1]
      guest == cpuid_policy(m.rax, CpuidRaw)
  IN  CASE m.rip = AtCpuid -> [n EXCEPT !.rax = guest.eax, !.rbx = guest.ebx,
                                        !.rcx = guest.ecx, !.rdx = guest.edx]
        [] m.rip \in AtRdmsr -> [n EXCEPT !.rax = m.msr[2], !.rdx = m.msr[1]]
        [] m.rip \in AtWrmsr -> [n EXCEPT !.msr = <<m.rdx, m.rax>>]
        [] m.rip \in AtIn -> [n EXCEPT !.rax = merge_in(@, "Byte", m.port)]
        [] m.rip \in AtOut -> [n EXCEPT !.port = scratch_written(m, m.rax % 256)]
        [] OTHER -> n

Ready == ~halted /\ (pending = 0 \/ blocked)

Execute ==
  /\ Ready
  /\ machine.rip \notin AtUd2 \cup {LastMainVmcallAt}
  /\ machine' = IF machine.rip \in Exiting THEN native(machine) ELSE straight(machine)
  /\ blocked' = (blocked /\ machine.rip # AtIretq)
  /\ UNCHANGED <<pending, halted>>

Arrive ==
  /\ ~halted
  /\ pending' = pending + 1
  /\ UNCHANGED <<machine, blocked, halted>>

Merge ==
  /\ pending > 1
  /\ pending' = pending - 1
  /\ UNCHANGED <<machine, blocked, halted>>

Deliver ==
  /\ ~halted /\ pending > 0 /\ ~blocked
  /\ machine' = deliver_nmi(machine)
  /\ blocked' = TRUE
  /\ pending' = pending - 1
  /\ UNCHANGED halted

\* The guest is stopped, before an instruction or with the instruction's
\* effect done and RIP still at it; NMIs not delivered are dropped.
Halt ==
  /\ ~halted
  /\ halted' = TRUE
  /\ machine' \in {machine} \cup
       (IF machine.rip \in Emulated
        THEN {[native(machine) EXCEPT !.rip = machine.rip]} ELSE {})
  /\ pending' \in 0..pending
  /\ UNCHANGED blocked

Next == Execute \/ Arrive \/ Merge \/ Deliver \/ Halt

Spec == Init /\ [][Next]_bareVars
=============================================================================
