--------------------------- MODULE GuestEndProofs ---------------------------
(***************************************************************************)
(* Proofs about how the guest's run ends, for any NMIs at any time, any    *)
(* starting MSR and port and any wait count.                               *)
(*                                                                         *)
(* EndInv says what the handler has counted when the main program is at    *)
(* each label (also while an NMI is handled), and that the cached          *)
(* translation of the data page is not stale.  With RunInv it follows that *)
(* no exit of the guest is one decide stops at, but its own giving up      *)
(* (OnSchedule), so only the guest ends its run.                           *)
(***************************************************************************)
EXTENDS GuestRunProofs

\* What the handler has counted when the main program is at pc.
CountedAt(pc, s) ==
  /\ s.main_vmcalls = B(pc \in 23..27)
  /\ pc \in 21..27 => s.ept_writes_granted = 1
  /\ pc \in 0..27 =>
       /\ s.emulated["cpuid"] = B(pc >= 2)
       /\ s.emulated["rdmsr"] = B(pc >= 4) + B(pc >= 8)
       /\ s.emulated["wrmsr"] = B(pc >= 6) + B(pc >= 10)
       /\ s.emulated["io_in"] = B(pc >= 12) + B(pc >= 16)
       /\ s.emulated["io_out"] = B(pc >= 14) + B(pc >= 18)

\* A cached translation of the data page is what its EPT entry says.
TranslationFresh == (tlb = "ro" => ~ept_writable) /\ (tlb = "rw" => ept_writable)

EndInv ==
  /\ mode # "stopped" => CountedAt(Pc(machine), state) /\ TranslationFresh
  /\ OnlyGuestEndsRun

\* The count an emulated instruction is kept under.
Counter(rip) ==
  IF rip = AtCpuid THEN "cpuid"
  ELSE IF rip \in AtRdmsr THEN "rdmsr"
  ELSE IF rip \in AtWrmsr THEN "wrmsr"
  ELSE IF rip \in AtIn THEN "io_in" ELSE "io_out"

\* The answer stops only a guest that has given up, and counts what it ran.
OnSchedule(j) ==
  /\ j.event \in StopEvents => machine.rip = 34
  /\ j.event = "Emulated" =>
       j.next = [state EXCEPT !.emulated[Counter(machine.rip)] = @ + 1]

(* Counts that are the planned ones one by one are the plan's.             *)
LEMMA ExpectedCounts ==
  ASSUME NEW e \in EmulationCounts, e["cpuid"] = 1, e["rdmsr"] = 2, e["wrmsr"] = 2,
         e["io_in"] = 2, e["io_out"] = 2
  PROVE  e = EXPECTED_EMULATION
  BY DEF EmulationCounts, EXPECTED_EMULATION

(* What the handler has counted stays right along instructions that do not *)
(* exit.                                                                   *)
LEMMA CountedFollows ==
  ASSUME NEW p \in MainLabels \ Exiting, NEW q, Follows(p, q), NEW s, CountedAt(p, s),
         p = AtDataWrite => s.ept_writes_granted = 1
  PROVE  CountedAt(q, s)
<1>1. p \in {0, 2, 4, 6, 8, 10, 12, 14, 16, 18, 19, 20, 21, 23, 24, 25, 26, 33}
  BY DEF MainLabels, Exiting, Emulated, AtCpuid, AtRdmsr, AtWrmsr, AtIn, AtOut, AtMainVmcall,
         AtNmiVmcall, AtUd2
<1> QED
  BY <1>1 DEF Follows, CountedAt, B, AtDataWrite

(* And when an emulated instruction is counted and stepped over.           *)
LEMMA CountedEmulated ==
  ASSUME NEW p \in Emulated, NEW s \in ExitState, NEW next, CountedAt(p, s),
         next = [s EXCEPT !.emulated[Counter(p)] = @ + 1]
  PROVE  CountedAt(p + 1, next)
<1>1. p \in {1, 3, 5, 7, 9, 11, 13, 15, 17}
  BY DEF Emulated, AtCpuid, AtRdmsr, AtWrmsr, AtIn, AtOut
<1>2. PICK c \in Counters : c = Counter(p)
  BY DEF Counter, Counters
<1>3. /\ next.main_vmcalls = s.main_vmcalls /\ next.ept_writes_granted = s.ept_writes_granted
      /\ \A d \in Counters : next.emulated[d] = IF d = c THEN s.emulated[d] + 1 ELSE s.emulated[d]
  BY <1>2 DEF ExitState, EmulationCounts, Counters
<1>4. c = CASE p = 1 -> "cpuid" [] p \in {3, 7} -> "rdmsr" [] p \in {5, 9} -> "wrmsr"
            [] p \in {11, 15} -> "io_in" [] p \in {13, 17} -> "io_out"
  BY <1>1, <1>2 DEF Counter, AtCpuid, AtRdmsr, AtWrmsr, AtIn
<1> QED
  BY <1>1, <1>3, <1>4 DEF CountedAt, B, Counters

(* The guest's emulated instructions are never refused, and each is        *)
(* counted as what it is.                                                  *)
LEMMA EmulatedOnSchedule ==
  ASSUME OnPlan(machine.rip, machine.rax, machine, before), NEW x, NEW j, j = decide(state, x),
         \/ machine.rip = AtCpuid /\ x = exit_info("cpuid")
         \/ machine.rip \in AtRdmsr /\ x = exit_info("rdmsr")
         \/ machine.rip \in AtWrmsr /\ x = exit_info("wrmsr")
         \/ machine.rip \in AtIn \cup AtOut /\ x = exit_info("io")
  PROVE  OnSchedule(j)
<1>1. CASE machine.rip = AtCpuid /\ x = exit_info("cpuid")
  <2>1. x.basic = "cpuid" /\ ~x.entry_failure /\ ~x.idt_vectoring_valid
    BY <1>1, ExitInfoFields
  <2>2. j = cpuid(state, x)
    BY <2>1 DEF decide
  <2>3. Counter(machine.rip) = "cpuid"
    BY <1>1 DEF Counter
  <2> QED
    BY <2>2, <2>3 DEF OnSchedule, cpuid, counted, StopEvents
<1>2. ASSUME machine.rip \in AtRdmsr \cup AtWrmsr, x.rcx = machine.rcx
      PROVE  route(x.rcx) = "Intercepted"
  <2>1. x.rcx = KERNEL_GS_BASE
    BY <1>2, SMTT(30) DEF OnPlan, AtRdmsr, AtWrmsr
  <2> QED
    BY <2>1, SMTT(30) DEF KERNEL_GS_BASE, route, HasMsrBit, INTERCEPTED_MSRS, MSR_HIGH, MSR_RANGE
<1>3. CASE machine.rip \in AtRdmsr /\ x = exit_info("rdmsr")
  <2>1. /\ x.basic = "rdmsr" /\ ~x.entry_failure /\ ~x.idt_vectoring_valid
        /\ x.rcx = machine.rcx
    BY <1>3, ExitInfoFields
  <2>2. j = rdmsr(state, x) /\ route(x.rcx) = "Intercepted"
    BY <1>2, <1>3, <2>1 DEF decide
  <2>3. Counter(machine.rip) = "rdmsr"
    BY <1>3 DEF Counter, AtCpuid, AtRdmsr
  <2> QED
    BY <2>2, <2>3 DEF OnSchedule, rdmsr, counted, StopEvents
<1>4. CASE machine.rip \in AtWrmsr /\ x = exit_info("wrmsr")
  <2>1. /\ x.basic = "wrmsr" /\ ~x.entry_failure /\ ~x.idt_vectoring_valid
        /\ x.rcx = machine.rcx
    BY <1>4, ExitInfoFields
  <2>2. j = wrmsr(state, x) /\ route(x.rcx) = "Intercepted"
    BY <1>2, <1>4, <2>1 DEF decide
  <2>3. Counter(machine.rip) = "wrmsr"
    BY <1>4 DEF Counter, AtCpuid, AtRdmsr, AtWrmsr
  <2> QED
    BY <2>2, <2>3 DEF OnSchedule, wrmsr, counted, Judged, StopEvents
<1>5. CASE machine.rip \in AtIn \cup AtOut /\ x = exit_info("io")
  <2>1. /\ x.basic = "io" /\ ~x.entry_failure /\ ~x.idt_vectoring_valid
        /\ x.io.size = "Byte" /\ ~x.io.is_string /\ ~x.io.is_rep
        /\ x.io.is_in <=> machine.rip \in AtIn
    BY <1>5, ExitInfoFields
  <2>2. j = io(state, x)
    BY <2>1 DEF decide
  <2>3. Counter(machine.rip) = IF machine.rip \in AtIn THEN "io_in" ELSE "io_out"
    BY <1>5 DEF Counter, AtCpuid, AtRdmsr, AtWrmsr, AtIn, AtOut
  <2> QED
    BY <2>1, <2>2, <2>3 DEF OnSchedule, io, counted, StopEvents
<1> QED
  BY <1>1, <1>3, <1>4, <1>5


(* The guest's VMCALLs are the planned ones: the counts the handler asks   *)
(* for are there when the guest gets to them.                              *)
LEMMA VmcallOnSchedule ==
  ASSUME RunInv, EndInv, mode = "guest", NEW x, x = exit_info("vmcall"),
         NEW j, j = decide(state, x),
         machine.rip \in AtMainVmcall \cup {AtNmiVmcall}
  PROVE  OnSchedule(j)
<1>1. /\ FrameOK(machine) /\ MainOK(machine, before, state.main_vmcalls)
      /\ state \in ExitState /\ CountedAt(Pc(machine), state)
  BY DEF RunInv, IInv, TypeOK, EndInv
<1>2. j = vmcall(state, x)
  <2>1. x.basic = "vmcall" /\ ~x.entry_failure /\ ~x.idt_vectoring_valid
    BY ExitInfoFields
  <2> QED
    BY <2>1 DEF decide
<1>3. x.rax = machine.rax /\ x.rcx = machine.rcx /\ x.rdx = machine.rdx
  BY ExitInfoFields
<1>4. SUFFICES j.event \in {"GuestNmiHandler", "MainVmcall", "LastMainVmcall"}
  BY <1>4 DEF OnSchedule, StopEvents
<1>5. CASE machine.rip = 30
  <2>1. machine.rax = GUEST_NMI_MARKER
    BY <1>1, <1>5 DEF FrameOK, AtNmiVmcall
  <2> QED
    BY <1>2, <1>3, <2>1 DEF vmcall, Judged
<1>6. CASE machine.rip \in {22, 27}
  <2>1. machine.rip \in MainLabels
    BY <1>6 DEF MainLabels
  <2>2. /\ AtPc(machine.rip, machine.rax, machine, before, state.main_vmcalls)
        /\ OnPlan(machine.rip, machine.rax, machine, before)
        /\ Pc(machine) = machine.rip
    BY ZenonT(60), <1>1, <2>1, MainMachine DEF Pc
  <2>3. /\ machine.rip = 22 => /\ machine.rax = GUEST_MARKER
                               /\ machine.rcx = GUEST_DATA_SEED
                               /\ machine.rdx = GUEST_EPT_VALUE
        /\ machine.rip = 27 => machine.rax = GUEST_MARKER + 1
    BY <2>2, SMTT(30) DEF AtPc, OnPlan
  <2>4. /\ machine.rip = 22 => state.main_vmcalls = 0
        /\ machine.rip = 27 => state.main_vmcalls = 1
        /\ state.ept_writes_granted = 1
    BY <1>1, <1>6, <2>2 DEF CountedAt, B
  <2>5. machine.rip = 27 => state.emulated = EXPECTED_EMULATION
    <3>1. ASSUME machine.rip = 27
          PROVE  /\ state.emulated["cpuid"] = 1 /\ state.emulated["rdmsr"] = 2
                 /\ state.emulated["wrmsr"] = 2 /\ state.emulated["io_in"] = 2
                 /\ state.emulated["io_out"] = 2
      BY <1>1, <2>2, <3>1, SMTT(30) DEF CountedAt, B
    <3>2. state.emulated \in EmulationCounts
      BY <1>1 DEF ExitState
    <3> QED
      BY <3>1, <3>2, ExpectedCounts, SMTT(30)
  <2>6. /\ x.rax # GUEST_NMI_MARKER /\ x.rax = expected_main_rax(state)
    BY <1>3, <1>6, <2>3, <2>4, Markers DEF expected_main_rax
  <2>7. state.main_vmcalls = 0 => data_page_read_back(x)
    BY <1>3, <1>6, <2>3, <2>4 DEF data_page_read_back
  <2>8. state.main_vmcalls = 1 => state.emulated = EXPECTED_EMULATION
    BY <1>6, <2>4, <2>5
  <2>9. state.main_vmcalls \in {0, 1}
    BY <1>6, <2>4
  <2>10. PICK next : next = [state EXCEPT !.main_vmcalls = @ + 1]
    BY Zenon
  <2>11. next.main_vmcalls = state.main_vmcalls + 1
    BY <1>1, <2>10 DEF ExitState
  <2>12. state.ept_writes_granted # 0
    BY <2>4
  <2>13. j = IF next.main_vmcalls < PLANNED_MAIN_VMCALLS THEN Judged("MainVmcall", next)
             ELSE IF state.emulated # EXPECTED_EMULATION THEN Judged("EmulationMissing", state)
             ELSE Judged("LastMainVmcall", next)
    BY <1>2, <2>6, <2>7, <2>10, <2>12, Zenon DEF vmcall
  <2>14. j = Judged("MainVmcall", next) \/ j = Judged("LastMainVmcall", next)
    BY <2>8, <2>9, <2>11, <2>13 DEF PLANNED_MAIN_VMCALLS
  <2> QED
    BY <2>14 DEF Judged
<1> QED
  BY <1>5, <1>6 DEF AtMainVmcall, AtNmiVmcall

(* An EPT violation is the first and is granted: its translation was read  *)
(* only, so the entry is, so no write was granted before.  An NMI and an   *)
(* NMI window never stop the guest, and its only UD2 is its own giving up. *)
LEMMA OtherOnSchedule ==
  ASSUME RunInv, EndInv, mode = "guest", NEW x, NEW j, j = decide(state, x),
         \/ /\ machine.rip = AtDataWrite /\ Cached = "ro"
            /\ x = [exit_info("ept_violation") EXCEPT
                      !.ept = {"WRITE", "READABLE", "LINEAR_VALID", "TRANSLATED"},
                      !.guest_page = ProtectedPage]
         \/ /\ machine.rip \in AtUd2
            /\ x = [exit_info("exception_or_nmi") EXCEPT !.interruption_info = "exception"]
         \/ x = [exit_info("exception_or_nmi") EXCEPT !.interruption_info = "NMI"]
         \/ x = exit_info("nmi_window") /\ WindowOpen
  PROVE  OnSchedule(j)
<1>1. CASE /\ machine.rip = AtDataWrite /\ Cached = "ro"
           /\ x = [exit_info("ept_violation") EXCEPT
                     !.ept = {"WRITE", "READABLE", "LINEAR_VALID", "TRANSLATED"},
                     !.guest_page = ProtectedPage]
  <2>1. /\ x.basic = "ept_violation" /\ ~x.entry_failure /\ ~x.idt_vectoring_valid
        /\ x.ept = {"WRITE", "READABLE", "LINEAR_VALID", "TRANSLATED"}
        /\ x.guest_page = ProtectedPage /\ x.protected_page = ProtectedPage
    BY <1>1 DEF exit_info
  <2>2. j = ept_violation(state, x)
    BY <2>1 DEF decide
  <2>3. state.ept_writes_granted = 0
    <3>1. ~ept_writable
      BY <1>1 DEF Cached, EndInv, TranslationFresh
    <3> QED
      BY <3>1 DEF RunInv, IInv, Progress, GrantMatchesEntry
  <2>4. is_protected_write(x.ept)
    BY <2>1 DEF is_protected_write
  <2>5. x.protected_page # 0 /\ x.guest_page = x.protected_page
    BY <2>1, GuestAssumption
  <2> QED
    BY <2>2, <2>3, <2>4, <2>5 DEF OnSchedule, ept_violation, Judged, StopEvents
<1>2. CASE /\ machine.rip \in AtUd2
           /\ x = [exit_info("exception_or_nmi") EXCEPT !.interruption_info = "exception"]
  <2>1. /\ x.basic = "exception_or_nmi" /\ ~x.entry_failure /\ ~x.idt_vectoring_valid
        /\ x.interruption_info = "exception"
    BY <1>2 DEF exit_info
  <2>2. j = exception_or_nmi(state, x)
    BY <2>1 DEF decide
  <2>3. machine.rip \in MainLabels
    BY <1>2 DEF AtUd2, MainLabels
  <2>4. OnPlan(machine.rip, machine.rax, machine, before)
    BY <2>3, MainMachine, Zenon DEF RunInv
  <2>5. machine.rip = 34
    BY <1>2, <2>4 DEF AtUd2, OnPlan
  <2> QED
    BY <2>1, <2>2, <2>5, SMTT(30) DEF OnSchedule, exception_or_nmi, Judged
<1>3. CASE x = [exit_info("exception_or_nmi") EXCEPT !.interruption_info = "NMI"]
  <2>1. /\ x.basic = "exception_or_nmi" /\ ~x.entry_failure /\ ~x.idt_vectoring_valid
        /\ x.interruption_info = "NMI"
    BY <1>3 DEF exit_info
  <2>2. j = exception_or_nmi(state, x)
    BY <2>1 DEF decide
  <2> QED
    BY <2>1, <2>2 DEF OnSchedule, exception_or_nmi, Judged, StopEvents
<1>4. CASE x = exit_info("nmi_window") /\ WindowOpen
  <2>1. x.basic = "nmi_window" /\ ~x.entry_failure /\ ~x.idt_vectoring_valid
    BY <1>4, ExitInfoFields
  <2>2. j = nmi_window(state, x)
    BY <2>1 DEF decide
  <2>3. state.nmi_pending
    BY <1>4 DEF WindowOpen, RunInv, IInv, WindowTracksPending
  <2> QED
    BY <2>2, <2>3 DEF OnSchedule, nmi_window, Judged, StopEvents
<1> QED
  BY <1>1, <1>2, <1>3, <1>4

(* So every exit of the guest is answered on schedule.                     *)
LEMMA ExitsOnSchedule ==
  ASSUME RunInv, EndInv, NEW x, mode = "guest", ExitOf(x), NEW j, j = decide(state, x)
  PROVE  OnSchedule(j)
<1>1. ASSUME machine.rip \in Emulated
      PROVE  OnPlan(machine.rip, machine.rax, machine, before)
  <2>1. machine.rip \in MainLabels
    BY <1>1 DEF Emulated, AtCpuid, AtRdmsr, AtWrmsr, AtIn, AtOut, MainLabels
  <2> QED
    BY <2>1, MainMachine, Zenon DEF RunInv
<1> QED
  BY <1>1, EmulatedOnSchedule, VmcallOnSchedule, OtherOnSchedule, Zenon DEF ExitOf, Emulated


(* Only an emulated instruction changes what is counted of them.           *)
LEMMA OutcomeEmulated ==
  ASSUME NEW s \in ExitState, NEW event, NEW next, Outcome(s, event, next), event # "Emulated"
  PROVE  next.emulated = s.emulated
<1>1. CASE event \in {"NmiInjected", "NmiWindowInjected"}
  BY <1>1, Zenon DEF Outcome, StopEvents, injected, ExitState
<1>2. CASE event \notin {"Emulated", "NmiInjected", "NmiWindowInjected"}
  BY <1>2 DEF Outcome, StopEvents, ExitState
<1> QED
  BY <1>1, <1>2

(* The counts of a program that stays where it is, at most with the write  *)
(* granted.                                                                *)
LEMMA CountedSame ==
  ASSUME NEW pc, NEW s, NEW next, CountedAt(pc, s), next.main_vmcalls = s.main_vmcalls,
         next.emulated = s.emulated, next.ept_writes_granted \in {s.ept_writes_granted, 1}
  PROVE  CountedAt(pc, next)
  BY DEF CountedAt

(* An exit that stops the guest without a failing access is the guest's    *)
(* own doing.                                                              *)
LEMMA StopIsGuests ==
  ASSUME RunInv, EndInv, NEW x, GuestExits(x), NEW j, Undisturbed(j, x), OnSchedule(j),
         Matches(j.event, j.emulation), GuestEffect(j.event, j.emulation),
         Outcome(state, j.event, state'), before' = before, j.event \notin ResumeEvents
  PROVE  EndInv'
<1>1. PICK e : e = j.event
  OBVIOUS
<1>2. e \in StopEvents \/ e = "LastMainVmcall"
  BY <1>1 DEF Outcome, ResumeEvents, StopEvents
<1>3. /\ mode' = "stopped" /\ machine' = machine
      /\ stop'.kind = IF e = "LastMainVmcall" THEN "Finished" ELSE "Unexpected"
  BY <1>1, <1>2 DEF Undisturbed, GuestEffect
<1>4. /\ e \in StopEvents => machine.rip = 34
      /\ e = "LastMainVmcall" => machine.rip = 27
  BY <1>1 DEF OnSchedule, Matches
<1>5. machine.rip \in MainLabels
  BY <1>2, <1>4 DEF MainLabels
<1>6. OnPlan(machine.rip, machine.rax, machine, before) /\ CountedAt(machine.rip, state)
  <2>1. machine.rip \notin InNmiHandler /\ MainOK(machine, before, state.main_vmcalls)
    BY <1>5, MainMachine, Zenon DEF RunInv, GuestExits
  <2>2. Pc(machine) = machine.rip
    BY <2>1 DEF Pc
  <2>3. CountedAt(Pc(machine), state)
    BY DEF EndInv, GuestExits
  <2> QED
    BY <1>5, <2>1, <2>2, <2>3, MainMachine, Zenon
<1>7. CASE e \in StopEvents
  <2>1. machine.rip = 34 /\ stop'.kind = "Unexpected"
    BY <1>3, <1>4, <1>7 DEF StopEvents
  <2>2. state' = state
    BY <1>1, <1>7, SMTT(30) DEF Outcome, StopEvents
  <2>3. /\ ~machine.scratch /\ before.port # GUEST_IO_VALUE
        /\ machine.msr = before.msr /\ machine.rax = GUEST_EMULATION_FAIL_MARKER
    BY <1>6, <2>1, SMTT(30) DEF OnPlan
  <2>4. state.main_vmcalls = 0
    BY <1>6, <2>1 DEF CountedAt, B
  <2> QED
    BY <1>3, <2>1, <2>2, <2>3, <2>4, Zenon DEF EndInv, OnlyGuestEndsRun
<1>8. CASE e = "LastMainVmcall"
  <2>1. machine.rip = 27 /\ stop'.kind = "Finished"
    BY <1>3, <1>4, <1>8, SMTT(30)
  <2>2. machine.scratch \/ before.port = GUEST_IO_VALUE
    BY <1>6, <2>1, SMTT(30) DEF OnPlan
  <2> QED
    BY <1>3, <2>1, <2>2, Zenon DEF EndInv, OnlyGuestEndsRun
<1> QED
  BY <1>2, <1>7, <1>8

(* A resumed guest has been counted up to where it goes on, and finds a    *)
(* translation that is not stale.                                          *)
LEMMA ResumeKeepsEnd ==
  ASSUME RunInv, EndInv, NEW x, GuestExits(x), NEW j, Undisturbed(j, x), OnSchedule(j),
         Matches(j.event, j.emulation), GuestEffect(j.event, j.emulation), state' = j.next,
         Outcome(state, j.event, state'), j.event \in ResumeEvents
  PROVE  EndInv'
<1>1. PICK e, em : e = j.event /\ em = j.emulation
  OBVIOUS
<1>2. /\ mode' = "entering" /\ mode = "guest"
      /\ Outcome(state, e, state') /\ GuestEffect(e, em) /\ Matches(e, em)
  BY <1>1 DEF Undisturbed, GuestExits
<1>3. TranslationFresh'
  <2>1. TranslationFresh
    BY <1>2 DEF EndInv
  <2>2. tlb' = "none" \/ (tlb' = tlb /\ (ept_writable' <=> ept_writable))
    BY Zenon DEF Undisturbed
  <2> QED
    BY <2>1, <2>2, SMTT(30) DEF TranslationFresh
<1>4. /\ state \in ExitState /\ CountedAt(Pc(machine), state) /\ machine \in Machine
      /\ FrameOK(machine) /\ MainOK(machine, before, state.main_vmcalls) /\ before \in Before
  BY ZenonT(30), <1>2, GuestAssumption DEF RunInv, RunTypeOK, TypeOK, EndInv, Before
<1>5. /\ state'.main_vmcalls = IF e \in {"MainVmcall", "LastMainVmcall"}
                               THEN state.main_vmcalls + 1 ELSE state.main_vmcalls
      /\ state'.ept_writes_granted = IF e = "EptWriteGranted"
                                     THEN 1 ELSE state.ept_writes_granted
  BY <1>2, <1>4, OutcomeCounts, SMTT(30)
<1>6. e # "Emulated" => state'.emulated = state.emulated
  BY <1>2, <1>4, OutcomeEmulated
<1>7. SUFFICES CountedAt(Pc(machine'), state')
  BY <1>2, <1>3, <1>7, Zenon DEF EndInv, OnlyGuestEndsRun
<1>8. CASE e = "Emulated"
  <2>1. machine.rip \in Emulated /\ machine' = NextRip(Executed(machine))
    BY <1>2, <1>8 DEF Matches, GuestEffect, NextRip
  <2>2. machine.rip \in MainLabels /\ machine.rip + 1 \in MainLabels
    BY <2>1 DEF Emulated, AtCpuid, AtRdmsr, AtWrmsr, AtIn, AtOut, MainLabels
  <2>3. /\ machine.rip \notin InNmiHandler
        /\ AtPc(machine.rip, machine.rax, machine, before, state.main_vmcalls)
        /\ OnPlan(machine.rip, machine.rax, machine, before)
    BY Zenon, <1>4, <2>2, MainMachine
  <2>4. machine'.rip = machine.rip + 1
    BY ZenonT(60), <1>4, <2>1, <2>3, EmulatedStep DEF SteppedTo
  <2>5. Pc(machine) = machine.rip /\ Pc(machine') = machine.rip + 1
    <3>1. machine'.rip \notin InNmiHandler
      BY <2>2, <2>4 DEF MainLabels, InNmiHandler, guest_nmi_handler, AtIretq
    <3> QED
      BY <2>3, <2>4, <3>1, Zenon DEF Pc
  <2>6. state' = [state EXCEPT !.emulated[Counter(machine.rip)] = @ + 1]
    BY <1>1, <1>8 DEF OnSchedule
  <2>7. PICK p, next : p = machine.rip /\ next = state'
    OBVIOUS
  <2>8. CountedAt(p + 1, next)
    BY <1>4, <2>1, <2>5, <2>6, <2>7, CountedEmulated, SMTT(30)
  <2> QED
    BY <2>5, <2>7, <2>8, SMTT(30)
<1>9. CASE e = "MainVmcall"
  <2>1. machine.rip = 22
    BY <1>2, <1>9 DEF Matches
  <2>2. machine' = [machine EXCEPT !.rip = 23]
    BY <1>2, <1>9, <2>1 DEF GuestEffect
  <2>3. Pc(machine) = 22 /\ Pc(machine') = 23
    BY <1>4, <2>1, <2>2, SMTT(30) DEF Pc, InNmiHandler, guest_nmi_handler, AtIretq, Machine
  <2> QED
    BY <1>4, <1>5, <1>6, <1>9, <2>3, SMTT(30) DEF CountedAt, B
<1>10. CASE e = "GuestNmiHandler"
  <2>1. machine.rip = 30
    BY <1>2, <1>10 DEF Matches, AtNmiVmcall
  <2>2. machine' = [machine EXCEPT !.rip = 31]
    BY <1>2, <1>10, <2>1, SMTT(30) DEF GuestEffect
  <2>3. machine'.rip = 31 /\ machine'.stack = machine.stack
    BY <1>4, <2>2 DEF Machine
  <2>4. Pc(machine') = Pc(machine)
    BY <2>1, <2>3, SMTT(30) DEF Pc, Return, InNmiHandler, guest_nmi_handler, AtIretq
  <2> QED
    BY <1>4, <1>5, <1>6, <1>10, <2>4, CountedSame, SMTT(30)
<1>11. CASE e \notin {"Emulated", "MainVmcall", "GuestNmiHandler"}
  <2>1. machine' = machine /\ e # "LastMainVmcall"
    BY <1>1, <1>2, <1>11 DEF GuestEffect, ResumeEvents
  <2> QED
    BY <1>4, <1>5, <1>6, <1>11, <2>1, CountedSame, SMTT(30)
<1> QED
  BY <1>8, <1>9, <1>10, <1>11

(* Every exit keeps the invariant.                                         *)
LEMMA ExitKeepsEnd ==
  ASSUME RunInv, EndInv, NEW x, GuestExits(x)
  PROVE  EndInv'
<1>1. PICK j :
        /\ Outcome(state, j.event, state') /\ state' = j.next
        /\ GuestEffect(j.event, j.emulation)
        /\ (mode' = "stopped" /\ faulted') \/ Undisturbed(j, x)
  BY ExitEffect DEF RunInv, GuestExits
<1>2. CASE mode' = "stopped" /\ faulted'
  BY <1>2, Zenon DEF EndInv, OnlyGuestEndsRun
<1>3. CASE Undisturbed(j, x)
  <2>1. j = decide(state, x)
    BY <1>3 DEF Undisturbed
  <2>2. OnSchedule(j) /\ Matches(j.event, j.emulation)
    BY <2>1, ExitsOnSchedule DEF GuestExits
  <2>3. before' = before
    BY ExitRest DEF GuestExits
  <2> QED
    BY <1>1, <1>3, <2>2, <2>3, StopIsGuests, ResumeKeepsEnd, SMTT(30)
<1> QED
  BY <1>1, <1>2, <1>3, SMTT(30)


(* Instructions that do not exit keep it: the write to the data page runs  *)
(* only if it was granted.                                                 *)
LEMMA StraightKeepsEnd ==
  ASSUME RunInv, EndInv, RunStraight \/ WriteData
  PROVE  EndInv'
<1>1. /\ mode = "guest" /\ UNCHANGED handlerVars /\ machine' = straight(machine)
      /\ machine.rip \notin Exiting
      /\ tlb' \in {tlb, Cached}
      /\ machine.rip = AtDataWrite => Cached = "rw"
  BY DEF RunStraight, WriteData, CanExecute, AtDataWrite, Exiting, Emulated, AtCpuid,
         AtRdmsr, AtWrmsr, AtIn, AtOut, AtMainVmcall, AtNmiVmcall, AtUd2
<1>2. mode' = mode /\ state' = state /\ ept_writable' = ept_writable
  BY <1>1 DEF handlerVars
<1>3. /\ machine \in Machine /\ FrameOK(machine) /\ CountedAt(Pc(machine), state)
      /\ MainOK(machine, before, state.main_vmcalls) /\ before \in Before
  BY ZenonT(30), <1>1, GuestAssumption DEF RunInv, RunTypeOK, EndInv, Before
<1>4. /\ Cached = "rw" => ept_writable
      /\ Cached = "ro" => ~ept_writable
      /\ TranslationFresh
  BY <1>1 DEF EndInv, TranslationFresh, Cached
<1>5. TranslationFresh'
  BY <1>1, <1>2, <1>4, Zenon DEF TranslationFresh
<1>6. machine.rip = AtDataWrite => state.ept_writes_granted = 1
  BY <1>1, <1>4, SMTT(30) DEF RunInv, IInv, Progress
<1>7. SUFFICES CountedAt(Pc(machine'), state)
  BY <1>1, <1>2, <1>5, <1>7 DEF EndInv, OnlyGuestEndsRun
<1>8. CASE machine.rip \in {29, 31, 32}
  <2>1. SameMain(machine, machine')
    BY ZenonT(60), <1>1, <1>3, <1>8, HandlerStep
  <2> QED
    BY <1>3, <2>1 DEF SameMain
<1>9. CASE machine.rip \in MainLabels
  <2>1. /\ machine.rip \notin InNmiHandler
        /\ AtPc(machine.rip, machine.rax, machine, before, state.main_vmcalls)
        /\ OnPlan(machine.rip, machine.rax, machine, before)
    BY Zenon, <1>3, <1>9, MainMachine
  <2>2. MainGoes(machine, machine', before, state.main_vmcalls)
    BY ZenonT(60), <1>1, <1>3, <1>9, <2>1, MainStep
  <2>3. machine'.rip \in MainLabels /\ Follows(machine.rip, machine'.rip)
    BY <2>2 DEF MainGoes
  <2>4. Pc(machine) = machine.rip /\ Pc(machine') = machine'.rip
    <3>1. machine'.rip \notin InNmiHandler
      BY <2>3, MainMachine
    <3> QED
      BY <2>1, <3>1, Zenon DEF Pc
  <2> QED
    BY <1>1, <1>3, <1>6, <1>9, <2>3, <2>4, CountedFollows, SMTT(30)
<1> QED
  <2>1. machine.rip \in 0..34
    BY <1>3, FieldTypes
  <2>2. machine.rip \in MainLabels \cup {29, 31, 32}
    BY <1>1, <2>1 DEF MainLabels, Exiting, AtNmiVmcall
  <2> QED
    BY <1>8, <1>9, <2>2, SMTT(30)

(* So do the VM entries and the steps that leave the machine alone.        *)
LEMMA RestKeepsEnd ==
  ASSUME RunInv, EndInv, EnterGuest \/ EntryFallsThrough \/ NmiArrives \/ UNCHANGED vars
  PROVE  EndInv'
<1>1. CASE EnterGuest
  <2>1. /\ mode = "entering" /\ mode' = "guest" /\ state' = state
        /\ ept_writable' = ept_writable /\ tlb' = tlb
    BY <1>1 DEF EnterGuest, vm_entry
  <2>2. CountedAt(Pc(machine), state) /\ TranslationFresh
    BY <2>1 DEF EndInv
  <2>3. Pc(machine') = Pc(machine)
    <3>1. CASE machine' = machine
      BY <3>1
    <3>2. CASE machine' = deliver_nmi(machine) /\ ~vnmi
      <4>1. machine \in Machine /\ FrameOK(machine) /\ machine.rip \notin InNmiHandler
        BY <3>2 DEF RunInv, RunTypeOK
      <4> QED
        BY <3>2, <4>1, DeliverStep, Zenon DEF SameMain
    <3> QED
      BY <1>1, <3>1, <3>2, Zenon DEF EnterGuest
  <2>4. TranslationFresh'
    BY <2>1, <2>2 DEF TranslationFresh
  <2> QED
    BY <2>1, <2>2, <2>3, <2>4, SMTT(30) DEF EndInv, OnlyGuestEndsRun
<1>2. CASE EntryFallsThrough
  <2>1. mode' = "stopped" /\ faulted'
    BY <1>2, Zenon DEF EntryFallsThrough, launch_failed, vmresume_failed
  <2> QED
    BY <2>1, Zenon DEF EndInv, OnlyGuestEndsRun
<1>3. CASE NmiArrives \/ UNCHANGED vars
  <2>1. /\ mode' = mode /\ state' = state /\ ept_writable' = ept_writable /\ tlb' = tlb
        /\ stop' = stop /\ machine' = machine /\ before' = before /\ faulted' = faulted
    BY <1>3 DEF NmiArrives, vars, guestVars, handlerVars
  <2> QED
    BY <2>1, Zenon DEF EndInv, OnlyGuestEndsRun, TranslationFresh
<1> QED
  BY <1>1, <1>2, <1>3, SMTT(30)

(* Together with RunInv, EndInv is kept by every step of the run.          *)
THEOREM RunEndInvariant == RunSpec => []EndInv
<1>1. RunInit => EndInv
  <2> SUFFICES ASSUME RunInit PROVE EndInv
    OBVIOUS
  <2>1. mode = "entering" /\ state = InitState /\ tlb = "none"
    BY DEF RunInit, Init
  <2>2. machine.rip = 0
    BY DEF RunInit, GuestStart
  <2>3. Pc(machine) = 0
    BY <2>2 DEF Pc, InNmiHandler, guest_nmi_handler, AtIretq
  <2>4. CountedAt(0, InitState)
    BY DEF CountedAt, InitState, B
  <2> QED
    BY <2>1, <2>3, <2>4 DEF EndInv, TranslationFresh, OnlyGuestEndsRun
<1>2. RunInv /\ EndInv /\ [RunNext]_vars => EndInv'
  <2> SUFFICES ASSUME RunInv, EndInv, [RunNext]_vars PROVE EndInv'
    OBVIOUS
  <2>1. CASE RunStraight \/ WriteData
    BY <2>1, StraightKeepsEnd
  <2>2. CASE EnterGuest \/ EntryFallsThrough \/ NmiArrives \/ UNCHANGED vars
    BY <2>2, RestKeepsEnd
  <2>3. CASE \/ EptViolation
             \/ InstructionExit({AtCpuid}, "cpuid")
             \/ InstructionExit(AtRdmsr, "rdmsr")
             \/ InstructionExit(AtWrmsr, "wrmsr")
             \/ InstructionExit(AtIn \cup AtOut, "io")
             \/ InstructionExit(AtMainVmcall \cup {AtNmiVmcall}, "vmcall")
             \/ Ud2Exit \/ NmiExit \/ NmiWindowExit
    <3>1. PICK x : GuestExits(x)
      BY <2>3, ExitsMatch, Zenon
    <3> QED
      BY <3>1, ExitKeepsEnd
  <2> QED
    BY <2>1, <2>2, <2>3, Zenon DEF RunNext, Run, Stopped
<1> QED
  BY <1>1, <1>2, RunInvariant, PTL DEF RunSpec

(* Unless an access or a VM entry fails, only the guest ends its run: at   *)
(* its last VMCALL, or by giving up over a scratch port that does not keep *)
(* what is written to it.  For any NMIs at any time.                       *)
THEOREM RunEndsByGuest == RunSpec => []OnlyGuestEndsRun
<1>1. EndInv => OnlyGuestEndsRun
  BY DEF EndInv
<1> QED
  BY RunEndInvariant, <1>1, PTL
=============================================================================
