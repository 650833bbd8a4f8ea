----------------------- MODULE HandlerAndGuestProofs ------------------------
(***************************************************************************)
(* Proofs about the two sides of a VM exit: the exit handler, for every    *)
(* set of exits, every set of failing VMREADs, VMWRITEs and INVEPT, and    *)
(* any number of exits; and the test guest's instructions, for every       *)
(* machine.                                                                *)
(*                                                                         *)
(* The handler: DecideOutcome lists what decide may answer and how each    *)
(* answer changes the state; HandlerEffect says what one exit does to the  *)
(* rest, whichever VMREAD or write fails; the inductive invariant IInv     *)
(* follows from the two, and every property from IInv.                     *)
(*                                                                         *)
(* The guest: its NMI handler saves and restores what the main program     *)
(* sees.  Pc and MainRax look past the handler's frame, AtPc says what the *)
(* main program has done when it is at pc, and every instruction keeps it. *)
(***************************************************************************)
EXTENDS ExitHandler, GuestProgram, TLAPS

Counters == {"cpuid", "rdmsr", "wrmsr", "io_in", "io_out"}

\* What decide may answer in state s, with the state it keeps.
Outcome(s, event, next) ==
  \/ event \in StopEvents \cup {"GuestGeneralProtection"} /\ next = s
  \/ /\ event = "Emulated"
     /\ \E c \in Counters : next = [s EXCEPT !.emulated[c] = @ + 1]
  \/ event \in {"NmiInjected", "NmiWindowInjected"} /\ next = injected(s)
  \/ event = "NmiDeferred" /\ next = [s EXCEPT !.nmi_pending = TRUE]
  \/ event = "NmiDeferred" /\ next = s /\ s.nmi_pending
  \/ /\ event = "EptWriteGranted"
     /\ s.ept_writes_granted = 0
     /\ next = [s EXCEPT !.ept_writes_granted = 1]
  \/ event = "GuestNmiHandler" /\ next = [s EXCEPT !.nmis_handled = @ + 1]
  \/ /\ event = "MainVmcall"
     /\ s.ept_writes_granted # 0
     /\ s.main_vmcalls + 1 < PLANNED_MAIN_VMCALLS
     /\ next = [s EXCEPT !.main_vmcalls = @ + 1]
  \/ /\ event = "LastMainVmcall"
     /\ s.ept_writes_granted # 0
     /\ s.main_vmcalls + 1 >= PLANNED_MAIN_VMCALLS
     /\ s.emulated = EXPECTED_EMULATION
     /\ next = [s EXCEPT !.main_vmcalls = @ + 1]

(* decide answers with one of the outcomes above, for every exit.          *)
LEMMA DecideOutcome ==
  ASSUME NEW s \in ExitState, NEW exit \in ExitInfo
  PROVE  Outcome(s, decide(s, exit).event, decide(s, exit).next)
<1> USE DEF Judged, Outcome, StopEvents
<1>1. CASE exit.entry_failure \/ exit.idt_vectoring_valid
  BY <1>1, Zenon DEF decide
<1> SUFFICES ASSUME ~exit.entry_failure, ~exit.idt_vectoring_valid
             PROVE  Outcome(s, decide(s, exit).event, decide(s, exit).next)
  BY <1>1, Zenon
<1>2. CASE exit.basic = "cpuid"
  BY <1>2 DEF decide, cpuid, counted, Counters
<1>3. CASE exit.basic = "rdmsr"
  BY <1>3 DEF decide, rdmsr, counted, Counters
<1>4. CASE exit.basic = "wrmsr"
  BY <1>4 DEF decide, wrmsr, counted, Counters
<1>5. CASE exit.basic = "io"
  BY <1>5 DEF decide, io, counted, Counters
<1>6. CASE exit.basic = "exception_or_nmi"
  BY <1>6 DEF decide, exception_or_nmi
<1>7. CASE exit.basic = "nmi_window"
  BY <1>7 DEF decide, nmi_window
<1>8. CASE exit.basic = "ept_violation"
  BY <1>8 DEF decide, ept_violation
<1>9. CASE exit.basic = "vmcall"
  <2> DEFINE next == [s EXCEPT !.main_vmcalls = @ + 1]
  <2>1. decide(s, exit) = vmcall(s, exit)
    BY <1>9 DEF decide
  <2>2. next.main_vmcalls = s.main_vmcalls + 1 /\ s.main_vmcalls \in Nat
    BY DEF ExitState
  <2>3. CASE exit.rax = GUEST_NMI_MARKER
    BY <2>1, <2>3 DEF vmcall
  <2>4. CASE exit.rax # GUEST_NMI_MARKER /\ exit.rax # expected_main_rax(s)
    BY <2>1, <2>4 DEF vmcall
  <2>5. CASE exit.rax # GUEST_NMI_MARKER /\ exit.rax = expected_main_rax(s)
    BY <2>1, <2>2, <2>5 DEF vmcall, PLANNED_MAIN_VMCALLS
  <2> QED
    BY <2>3, <2>4, <2>5, Zenon
<1>10. CASE exit.basic \in {"ept_misconfig", "other"}
  BY <1>10, Zenon DEF decide
<1> QED
  BY <1>2, <1>3, <1>4, <1>5, <1>6, <1>7, <1>8, <1>9, <1>10, Zenon DEF ExitInfo, Reasons

(* An outcome keeps the state's type.                                      *)
LEMMA OutcomeType ==
  ASSUME NEW s \in ExitState, NEW event, NEW next, Outcome(s, event, next)
  PROVE  next \in ExitState
<1>1. CASE \E c \in Counters : next = [s EXCEPT !.emulated[c] = @ + 1]
  <2>1. PICK c \in Counters : next = [s EXCEPT !.emulated[c] = @ + 1]
    BY <1>1, Zenon
  <2>2. [s.emulated EXCEPT ![c] = @ + 1] \in EmulationCounts
    BY DEF ExitState, EmulationCounts, Counters
  <2> QED
    BY <2>1, <2>2 DEF ExitState
<1>2. CASE next = s
  BY <1>2
<1>3. ASSUME NEW b \in BOOLEAN, NEW r \in ExitState
      PROVE  [r EXCEPT !.nmi_pending = b] \in ExitState
  BY <1>3 DEF ExitState
<1>4. CASE next = injected(s)
  <2>1. [s EXCEPT !.nmis_injected = @ + 1] \in ExitState
    BY DEF ExitState
  <2>2. next = [[s EXCEPT !.nmis_injected = @ + 1] EXCEPT !.nmi_pending = FALSE]
    BY <1>4, Zenon DEF injected, ExitState
  <2> QED
    BY <1>3, <2>1, <2>2, Zenon
<1>5. CASE next = [s EXCEPT !.nmi_pending = TRUE]
  BY <1>3, <1>5, Zenon
<1>6. CASE next = [s EXCEPT !.ept_writes_granted = 1]
  BY <1>6 DEF ExitState
<1>7. CASE next = [s EXCEPT !.nmis_handled = @ + 1]
  BY <1>7 DEF ExitState
<1>8. CASE next = [s EXCEPT !.main_vmcalls = @ + 1]
  BY <1>8 DEF ExitState
<1> QED
  BY <1>1, <1>2, <1>4, <1>5, <1>6, <1>7, <1>8 DEF Outcome

(* An exit adds at most one to what is counted, and the number of main     *)
(* VMCALLs, the grant and the emulated exits change only for their event.  *)
LEMMA OutcomeCounts ==
  ASSUME NEW s \in ExitState, NEW event, NEW next, Outcome(s, event, next)
  PROVE  /\ Counted(next) <= Counted(s) + 1
         /\ next.main_vmcalls = IF event \in {"MainVmcall", "LastMainVmcall"}
                                THEN s.main_vmcalls + 1 ELSE s.main_vmcalls
         /\ next.ept_writes_granted = IF event = "EptWriteGranted"
                                      THEN 1 ELSE s.ept_writes_granted
         /\ event = "LastMainVmcall" => next.emulated = s.emulated
<1> USE DEF Counted
<1>1. CASE event = "Emulated"
  <2>1. PICK c \in Counters : next = [s EXCEPT !.emulated[c] = @ + 1]
    BY <1>1 DEF Outcome, StopEvents
  <2>2. \A d \in Counters : s.emulated[d] \in Nat
    BY DEF ExitState, EmulationCounts, Counters
  <2>3. /\ next.main_vmcalls = s.main_vmcalls
        /\ next.nmis_injected = s.nmis_injected
        /\ next.nmis_handled = s.nmis_handled
        /\ next.ept_writes_granted = s.ept_writes_granted
        /\ \A d \in Counters : next.emulated[d] = IF d = c THEN s.emulated[d] + 1
                                                         ELSE s.emulated[d]
    BY <2>1 DEF ExitState, EmulationCounts, Counters
  <2> QED
    BY <1>1, <2>2, <2>3 DEF Counters, ExitState
<1>2. CASE event \in {"NmiInjected", "NmiWindowInjected"}
  <2>1. next = injected(s)
    BY <1>2 DEF Outcome, StopEvents
  <2>2. /\ next.main_vmcalls = s.main_vmcalls
        /\ next.nmis_injected = s.nmis_injected + 1
        /\ next.nmis_handled = s.nmis_handled
        /\ next.ept_writes_granted = s.ept_writes_granted
        /\ next.emulated = s.emulated
    BY <2>1 DEF injected, ExitState
  <2> QED
    BY <1>2, <2>2 DEF ExitState, EmulationCounts
<1>3. CASE event = "NmiDeferred"
  BY <1>3 DEF Outcome, StopEvents, ExitState, EmulationCounts
<1>4. CASE event \in StopEvents \cup {"GuestGeneralProtection"}
  BY <1>4 DEF Outcome, StopEvents, ExitState, EmulationCounts
<1>5. CASE event \in {"EptWriteGranted", "GuestNmiHandler"}
  BY <1>5 DEF Outcome, StopEvents, ExitState, EmulationCounts
<1>6. CASE event \in {"MainVmcall", "LastMainVmcall"}
  BY <1>6 DEF Outcome, StopEvents, ExitState, EmulationCounts
<1> QED
  BY <1>1, <1>2, <1>3, <1>4, <1>5, <1>6 DEF Outcome

(* An exit changes the pending flag only by deferring or injecting an NMI. *)
LEMMA OutcomePending ==
  ASSUME NEW s \in ExitState, NEW event, NEW next, Outcome(s, event, next)
  PROVE  next.nmi_pending = CASE event \in {"NmiInjected", "NmiWindowInjected"} -> FALSE
                              [] event = "NmiDeferred" -> TRUE
                              [] OTHER -> s.nmi_pending
<1>1. CASE event \in {"NmiInjected", "NmiWindowInjected"}
  BY <1>1, Zenon DEF Outcome, StopEvents, injected, ExitState
<1>2. CASE event = "NmiDeferred"
  BY <1>2, Zenon DEF Outcome, StopEvents, ExitState
<1>3. CASE event \notin {"NmiInjected", "NmiWindowInjected", "NmiDeferred"}
  BY <1>3, Zenon DEF Outcome, StopEvents, ExitState
<1> QED
  BY <1>1, <1>2, <1>3, Zenon

(* What one VM exit does to everything but the counters: it resumes only   *)
(* with the whole plan of a resuming event applied, and otherwise stops    *)
(* with the stop value of the event; the EPT entry changes only for a      *)
(* granted write.                                                          *)
LEMMA HandlerEffect ==
  ASSUME TypeOK, NEW exit \in ExitInfo, NEW bad, NEW fault,
         vmexit_handler(exit, bad, fault)
  PROVE  \E event :
           /\ Outcome(state, event, state')
           /\ mode # "stopped"
           /\ mode' \in {"entering", "stopped"}
           /\ phase' = "VmExit"
           /\ exit_count' = exit_count + 1
           /\ entry_info' \in {entry_info, "NMI", "GENERAL_PROTECTION"}
           /\ nmi_window_on' \in BOOLEAN
           /\ ept_writable' \in BOOLEAN
           /\ ept_writable => ept_writable'
           /\ ept_writable' => ept_writable \/ event = "EptWriteGranted"
           /\ mode' = "entering" =>
                /\ event \in ResumeEvents
                /\ stop' = NoStop
                /\ nmi_window_on' = CASE event \in {"NmiInjected", "NmiWindowInjected"} -> FALSE
                                      [] event = "NmiDeferred" -> TRUE
                                      [] OTHER -> nmi_window_on
                /\ event = "EptWriteGranted" => ept_writable'
           /\ mode' = "stopped" =>
                stop' = IF event = "LastMainVmcall"
                        THEN [kind |-> "Finished", number |-> exit_count + 1]
                        ELSE [kind |-> "Unexpected", number |-> (exit_count + 1) % EXIT_NUMBERS]
<1> DEFINE j == judge(exit, bad)
           p == plan(j.event)
<1>1. Outcome(state, j.event, j.next)
  <2>1. CASE read_exit(exit, bad)
    BY <2>1, DecideOutcome DEF judge, TypeOK
  <2>2. CASE ~read_exit(exit, bad)
    BY <2>2 DEF judge, Outcome, Judged, StopEvents
  <2> QED
    BY <2>1, <2>2
<1>2. /\ state' = j.next /\ mode # "stopped" /\ phase' = "VmExit"
      /\ exit_count' = exit_count + 1
      /\ apply(j, exit, bad, fault)
      /\ stub_return(j, exit, bad, fault, exit_count + 1)
  BY DEF vmexit_handler
<1> HIDE DEF j
<1>3. mode' = IF Resumes(j, exit, bad, fault) THEN "entering" ELSE "stopped"
  BY <1>2 DEF apply
<1>4. mode' = "entering" => j.event \in ResumeEvents /\ stop' = NoStop
  BY <1>2, <1>3 DEF stub_return, Resumes
<1>5. mode' = "stopped" =>
        stop' = IF j.event = "LastMainVmcall"
                THEN [kind |-> "Finished", number |-> exit_count + 1]
                ELSE [kind |-> "Unexpected", number |-> (exit_count + 1) % EXIT_NUMBERS]
  BY <1>2, <1>3 DEF stub_return
<1>6. entry_info' \in {entry_info, "NMI", "GENERAL_PROTECTION"}
  BY <1>2 DEF apply
<1>7. /\ ept_writable' \in BOOLEAN
      /\ ept_writable => ept_writable'
      /\ ept_writable' => ept_writable \/ j.event = "EptWriteGranted"
  BY <1>2 DEF apply, entry_written, plan, ResumeEvents, PAST_INSTRUCTION, INJECT_NMI,
              WAIT_FOR_NMI_WINDOW, RETRY_AFTER_GRANT, INJECT_GP, TypeOK
<1>8. nmi_window_on' \in BOOLEAN
  BY <1>2, Zenon DEF apply, TypeOK
<1>9. ASSUME mode' = "entering"
      PROVE  /\ j.event = "EptWriteGranted" => ept_writable'
             /\ nmi_window_on' = CASE j.event \in {"NmiInjected", "NmiWindowInjected"} -> FALSE
                                   [] j.event = "NmiDeferred" -> TRUE
                                   [] OTHER -> nmi_window_on
  <2>1. j.event \in ResumeEvents /\ prepare_resume(p, exit, bad, fault)
    BY <1>3, <1>9 DEF Resumes
  <2>2. window_set(p, bad, fault)
    BY <2>1 DEF prepare_resume
  <2>3. /\ nmi_window_on' = IF p.nmi_window # "leave" THEN p.nmi_window = "on" ELSE nmi_window_on
        /\ ept_writable' = (ept_writable \/ entry_written(p, exit, bad, fault))
    BY <1>2, <2>1, <2>2 DEF apply
  <2>4. j.event = "EptWriteGranted" => entry_written(p, exit, bad, fault)
    BY <2>1, <2>2 DEF entry_written, prepare_resume, plan, RETRY_AFTER_GRANT
  <2>5. /\ j.event \in {"NmiInjected", "NmiWindowInjected"} => p.nmi_window = "off"
        /\ j.event = "NmiDeferred" => p.nmi_window = "on"
        /\ j.event \notin {"NmiInjected", "NmiWindowInjected", "NmiDeferred"}
             => p.nmi_window = "leave"
    BY <2>1 DEF plan, ResumeEvents, PAST_INSTRUCTION, INJECT_NMI,
                WAIT_FOR_NMI_WINDOW, RETRY_AFTER_GRANT, INJECT_GP
  <2> QED
    BY <2>3, <2>4, <2>5, Zenon
<1> QED
  <2> WITNESS j.event
  <2> QED
    BY <1>1, <1>2, <1>3, <1>4, <1>5, <1>6, <1>7, <1>8, <1>9, Zenon

-----------------------------------------------------------------------------
\* What has to be known between exits, beyond the properties themselves: a
\* main VMCALL implies the grant, and the guest runs only before the plan's end.
Progress ==
  /\ state.ept_writes_granted \in {0, 1}
  /\ state.main_vmcalls > 0 => state.ept_writes_granted = 1
  /\ mode # "stopped" => stop = NoStop /\ state.main_vmcalls < PLANNED_MAIN_VMCALLS
  /\ ept_writable => state.ept_writes_granted = 1

(* Why StopTellsPhase holds: the phase tells whether an exit has come, and *)
(* VMLAUNCH fails only before the first one.                               *)
PhaseTellsExits ==
  /\ phase = "BootServices" <=> exit_count = 0
  /\ stop.kind = "LaunchFailed" => exit_count = 0
  /\ mode = "stopped" /\ exit_count = 0 => stop.kind = "LaunchFailed"

IInv ==
  /\ TypeOK
  /\ PhaseTellsExits
  /\ Progress
  /\ WindowTracksPending
  /\ GrantMatchesEntry
  /\ FinishedIffPlanDone
  /\ ExitsCoverCounters

(* The state at VMLAUNCH satisfies the invariant.                       *)
LEMMA InitInv == Init => IInv
<1> SUFFICES ASSUME Init PROVE IInv
  OBVIOUS
<1>1. InitState \in ExitState
  BY DEF InitState, ExitState, EmulationCounts
<1>2. TypeOK
  BY <1>1, Zenon DEF Init, TypeOK, NoStop
<1>3. WindowTracksPending
  BY DEF Init, InitState, WindowTracksPending
<1>4. Progress /\ GrantMatchesEntry /\ FinishedIffPlanDone
  BY DEF Init, InitState, NoStop, Progress, GrantMatchesEntry, FinishedIffPlanDone,
         PLANNED_MAIN_VMCALLS
<1>5. ExitsCoverCounters
  BY DEF Init, InitState, NoStop, ExitsCoverCounters, Counted
<1>6. PhaseTellsExits
  BY DEF Init, NoStop, PhaseTellsExits
<1> QED
  BY <1>2, <1>3, <1>4, <1>5, <1>6 DEF IInv

(* One VM exit, whatever it is, keeps the invariant and makes the page      *)
(* writable only before the first main VMCALL.                             *)
LEMMA HandlerKeepsInv ==
  ASSUME IInv, NEW exit \in ExitInfo, NEW bad, NEW fault,
         vmexit_handler(exit, bad, fault)
  PROVE  /\ IInv'
         /\ ept_writable' # ept_writable => ept_writable' /\ state.main_vmcalls = 0
<1>2. PICK event :
        /\ Outcome(state, event, state')
        /\ mode # "stopped"
        /\ mode' \in {"entering", "stopped"}
        /\ phase' = "VmExit"
        /\ exit_count' = exit_count + 1
        /\ entry_info' \in {entry_info, "NMI", "GENERAL_PROTECTION"}
        /\ nmi_window_on' \in BOOLEAN
        /\ ept_writable' \in BOOLEAN
        /\ ept_writable => ept_writable'
        /\ ept_writable' => ept_writable \/ event = "EptWriteGranted"
        /\ mode' = "entering" =>
             /\ event \in ResumeEvents
             /\ stop' = NoStop
             /\ nmi_window_on' = CASE event \in {"NmiInjected", "NmiWindowInjected"} -> FALSE
                                   [] event = "NmiDeferred" -> TRUE
                                   [] OTHER -> nmi_window_on
             /\ event = "EptWriteGranted" => ept_writable'
        /\ mode' = "stopped" =>
             stop' = IF event = "LastMainVmcall"
                     THEN [kind |-> "Finished", number |-> exit_count + 1]
                     ELSE [kind |-> "Unexpected", number |-> (exit_count + 1) % EXIT_NUMBERS]
  BY HandlerEffect, Zenon DEF IInv
<1>3. state \in ExitState /\ state' \in ExitState
  BY <1>2, OutcomeType DEF IInv, TypeOK
<1>4. /\ Counted(state') <= Counted(state) + 1
      /\ state'.main_vmcalls = IF event \in {"MainVmcall", "LastMainVmcall"}
                               THEN state.main_vmcalls + 1 ELSE state.main_vmcalls
      /\ state'.ept_writes_granted = IF event = "EptWriteGranted"
                                     THEN 1 ELSE state.ept_writes_granted
      /\ event = "LastMainVmcall" => state'.emulated = state.emulated
  BY <1>2, <1>3, OutcomeCounts
<1>5. /\ event = "EptWriteGranted" => state.ept_writes_granted = 0
      /\ event \in {"MainVmcall", "LastMainVmcall"} => state.ept_writes_granted # 0
      /\ event = "MainVmcall" => state.main_vmcalls + 1 < PLANNED_MAIN_VMCALLS
      /\ event = "LastMainVmcall" => /\ state.main_vmcalls + 1 >= PLANNED_MAIN_VMCALLS
                                     /\ state.emulated = EXPECTED_EMULATION
  BY <1>2 DEF Outcome, StopEvents
<1>6. \/ stop' = NoStop /\ event \in ResumeEvents
      \/ /\ event = "LastMainVmcall"
         /\ stop' = [kind |-> "Finished", number |-> exit_count + 1]
      \/ /\ event # "LastMainVmcall"
         /\ stop' = [kind |-> "Unexpected", number |-> (exit_count + 1) % EXIT_NUMBERS]
  BY <1>2, Zenon
<1>7. /\ stop'.kind = "Finished" <=> event = "LastMainVmcall"
      /\ event = "LastMainVmcall" => stop'.number = exit_count'
  BY <1>2, <1>6 DEF NoStop, ResumeEvents
<1>8. TypeOK'
  <2>1. exit_count' \in Nat /\ (exit_count + 1) % EXIT_NUMBERS \in Nat
    BY <1>2 DEF IInv, TypeOK, EXIT_NUMBERS
  <2>2. stop' \in [kind : {"none", "Finished", "Unexpected", "LaunchFailed",
                         "ResumeFailed"}, number : Nat]
    BY <1>2, <1>6, <2>1 DEF NoStop
  <2> QED
    BY <1>2, <1>3, <2>1, <2>2 DEF IInv, TypeOK
<1>9. Progress'
  BY <1>2, <1>3, <1>4, <1>5, Zenon DEF IInv, Progress, ExitState, PLANNED_MAIN_VMCALLS, ResumeEvents
<1>10. WindowTracksPending'
  BY <1>2, <1>3, OutcomePending, Zenon DEF IInv, WindowTracksPending
<1>11. GrantMatchesEntry'
  BY <1>2, <1>4, <1>5, Zenon DEF IInv, Progress, GrantMatchesEntry
<1>12. FinishedIffPlanDone'
  <2>1. state.main_vmcalls \in Nat /\ state.main_vmcalls < 2
    BY <1>2, <1>3 DEF IInv, Progress, ExitState, PLANNED_MAIN_VMCALLS
  <2>2. state'.main_vmcalls = 2 <=> event = "LastMainVmcall"
    BY <1>4, <1>5, <2>1 DEF PLANNED_MAIN_VMCALLS
  <2>3. event = "LastMainVmcall" => /\ state'.emulated = EXPECTED_EMULATION
                                    /\ state'.ept_writes_granted = 1
                                    /\ ept_writable'
    BY <1>2, <1>4, <1>5 DEF IInv, Progress, GrantMatchesEntry
  <2> QED
    BY <1>7, <2>2, <2>3 DEF FinishedIffPlanDone, PLANNED_MAIN_VMCALLS
<1>13. ExitsCoverCounters'
  <2>1. Counted(state') \in Nat /\ Counted(state) \in Nat /\ exit_count' \in Nat
    BY <1>3, <1>8 DEF Counted, ExitState, EmulationCounts, TypeOK
  <2>2. Counted(state') <= exit_count'
    BY <1>2, <1>4, <2>1 DEF IInv, TypeOK, ExitsCoverCounters
  <2>3. stop'.kind = "Finished" => stop'.number = exit_count' /\ Counted(state') >= 12
    BY <1>3, <1>7, <1>12 DEF FinishedIffPlanDone, Counted, EXPECTED_EMULATION, ExitState,
         PLANNED_MAIN_VMCALLS
  <2> QED
    BY <2>1, <2>2, <2>3 DEF ExitsCoverCounters
<1>14. ept_writable' # ept_writable => ept_writable' /\ state.main_vmcalls = 0
  BY <1>2, <1>3, <1>5 DEF IInv, TypeOK, Progress, ExitState
<1>15. PhaseTellsExits'
  <2>1. exit_count' # 0 /\ phase' # "BootServices"
    BY <1>2 DEF IInv, TypeOK
  <2>2. stop'.kind # "LaunchFailed"
    BY <1>6 DEF NoStop
  <2> QED
    BY <2>1, <2>2 DEF PhaseTellsExits
<1> QED
  BY <1>15, <1>8, <1>9, <1>10, <1>11, <1>12, <1>13, <1>14 DEF IInv

(* So does an exit of the open system.                                     *)
LEMMA VmExitInv ==
  ASSUME IInv, VmExit
  PROVE  /\ IInv'
         /\ ept_writable' # ept_writable => ept_writable' /\ state.main_vmcalls = 0
  BY HandlerKeepsInv, ExitsAssumption DEF VmExit

(* The other steps keep the invariant and leave the EPT entry alone.       *)
LEMMA OtherStepsInv ==
  ASSUME IInv,
         vm_entry \/ launch_failed \/ vmresume_failed \/ Idle \/ UNCHANGED handlerVars
  PROVE  IInv' /\ UNCHANGED ept_writable
<1> USE DEF IInv, TypeOK, Progress, WindowTracksPending, GrantMatchesEntry,
            FinishedIffPlanDone, ExitsCoverCounters, PhaseTellsExits
<1>1. CASE vm_entry
  BY <1>1 DEF vm_entry
<1>2. CASE launch_failed
  BY <1>2 DEF launch_failed, PLANNED_MAIN_VMCALLS, ExitState
<1>3. CASE vmresume_failed
  BY <1>3 DEF vmresume_failed, PLANNED_MAIN_VMCALLS, ExitState
<1>4. CASE Idle \/ UNCHANGED handlerVars
  BY <1>4 DEF Idle, handlerVars
<1> QED
  BY <1>1, <1>2, <1>3, <1>4

(* The handler's invariant holds whatever exits come and whichever VMCS    *)
(* access or INVEPT fails.                                                 *)
THEOREM HandlerInvariant == Spec => []IInv
<1>1. IInv /\ [Next]_handlerVars => IInv'
  BY VmExitInv, OtherStepsInv DEF Next
<1> QED
  BY InitInv, <1>1, PTL DEF Spec

(* The handler's variables keep their types.                               *)
THEOREM HandlerTypes == Spec => []TypeOK
<1>1. IInv => TypeOK
  BY DEF IInv
<1> QED
  BY HandlerInvariant, <1>1, PTL

(* A pending NMI always has its window exit coming, and no window exit     *)
(* comes without one.                                                      *)
THEOREM WindowFollowsPending == Spec => []WindowTracksPending
<1>1. IInv => WindowTracksPending
  BY DEF IInv
<1> QED
  BY HandlerInvariant, <1>1, PTL

(* The recorded grant and the EPT entry agree while the guest can run.     *)
THEOREM GrantFollowsEntry == Spec => []GrantMatchesEntry
<1>1. IInv => GrantMatchesEntry
  BY DEF IInv
<1> QED
  BY HandlerInvariant, <1>1, PTL

(* Finished is reported exactly at the end of the plan, with everything    *)
(* the plan asks for.                                                      *)
THEOREM FinishedMeansPlan == Spec => []FinishedIffPlanDone
<1>1. IInv => FinishedIffPlanDone
  BY DEF IInv
<1> QED
  BY HandlerInvariant, <1>1, PTL

(* No exit is counted twice.                                               *)
THEOREM CountersBounded == Spec => []ExitsCoverCounters
<1>1. IInv => ExitsCoverCounters
  BY DEF IInv
<1> QED
  BY HandlerInvariant, <1>1, PTL

(* The stop value tells bring-up whether any exit has come.                *)
THEOREM StopInterface == Spec => []StopTellsPhase
<1>1. IInv => StopTellsPhase
  BY DEF IInv, PhaseTellsExits, StopTellsPhase
<1> QED
  BY HandlerInvariant, <1>1, PTL

(* The page becomes writable at most once, before the first main VMCALL.   *)
THEOREM GrantOrder == Spec => GrantOnlyBeforeVmcall
<1>1. IInv /\ [Next]_handlerVars =>
        [ept_writable' # ept_writable => ept_writable' /\ state.main_vmcalls = 0]_handlerVars
  BY VmExitInv, OtherStepsInv DEF Next
<1> QED
  BY HandlerInvariant, <1>1, PTL DEF Spec, GrantOnlyBeforeVmcall

-----------------------------------------------------------------------------
(* The guest program.                                                      *)

MainLabels == 0..28 \cup {33, 34}

\* Where the main program is, and its RAX, also while an NMI is handled.
Return(m) == m.stack[IF m.rip \in {30, 31} THEN 2 ELSE 1]
Pc(m) == IF m.rip \in InNmiHandler THEN Return(m) ELSE m.rip
MainRax(m) == IF m.rip \in {30, 31} THEN m.stack[1] ELSE m.rax

\* The stack holds the frame of at most one NMI, and the RAX its handler saved.
FrameOK(m) ==
  /\ Len(m.stack) = IF m.rip \in {29, 32} THEN 1 ELSE IF m.rip \in {30, 31} THEN 2 ELSE 0
  /\ m.rip \in InNmiHandler => Return(m) \in MainLabels
  /\ m.rip = AtNmiVmcall => m.rax = GUEST_NMI_MARKER

LowByte(x) == x % 256

\* What the main program at pc, with this RAX, has done to the MSR, the scratch
\* port and the data page, b being what they held before.
AtPc(pc, rax, m, b, vmcalls) ==
  /\ pc \in 22..26 => rax = GUEST_MARKER
  /\ pc = 27 => rax = GUEST_MARKER + 1
  /\ pc \in 23..28 => vmcalls >= 1
  /\ pc \in 0..5 \cup 10..27 => m.msr = b.msr
  /\ pc \in {4, 9} => m.rdx = b.msr[1] /\ rax = b.msr[2]
  /\ pc \in 5..8 => m.rdi = b.msr[1] /\ m.rsi = b.msr[2]
  /\ pc \in 0..13 \cup 18..27 \/ ~m.scratch => m.port = b.port
  /\ pc \in {12, 17} => LowByte(rax) = b.port
  /\ pc \in 13..16 => LowByte(m.rsi) = b.port
  /\ pc \in 21..27 => m.data = GUEST_EPT_VALUE

\* What the main program at pc, with this RAX, goes by: the answers it gets are
\* the ones it expects, but for the scratch port of a UART without the register.
OnPlan(pc, rax, m, b) ==
  /\ pc = 1 => rax = 1
  /\ pc = 2 => (m.rcx \div 32) % 2 # 1
  /\ pc \in 3..9 => m.rcx = KERNEL_GS_BASE
  /\ pc \in {5, 8} => m.rdx = GUEST_MSR_VALUE[1] /\ rax = GUEST_MSR_VALUE[2]
  /\ pc \in 6..8 => m.msr = GUEST_MSR_VALUE
  /\ pc = 13 => LowByte(rax) = GUEST_IO_VALUE
  /\ pc \in 14..16 /\ m.scratch => m.port = GUEST_IO_VALUE
  /\ pc = 16 => LowByte(rax) = m.port
  /\ pc \in 17..27 => m.scratch \/ b.port = GUEST_IO_VALUE
  /\ pc \in 0..20 => m.data = GUEST_DATA_SEED
  /\ pc \in 20..22 => m.rcx = GUEST_DATA_SEED
  /\ pc = 22 => m.rdx = GUEST_EPT_VALUE
  /\ pc # 28
  /\ pc \in {33, 34} => /\ ~m.scratch /\ b.port # GUEST_IO_VALUE
                        /\ m.msr = b.msr
  /\ pc = 34 => rax = GUEST_EMULATION_FAIL_MARKER

MainOK(m, b, vmcalls) ==
  /\ AtPc(Pc(m), MainRax(m), m, b, vmcalls)
  /\ OnPlan(Pc(m), MainRax(m), m, b)

-----------------------------------------------------------------------------
(* merge_in keeps the high bits and takes the low byte.                    *)
LEMMA MergeIn ==
  ASSUME NEW r \in Int, NEW v \in Int
  PROVE  /\ merge_in(r, "Byte", v) \in Int
         /\ merge_in(r, "Word", v) \in Int
         /\ LowByte(merge_in(r, "Byte", v)) = LowByte(v)
  BY DEF merge_in, Modulus, LowByte

(* The markers are different numbers.                                      *)
LEMMA Markers ==
  /\ GUEST_NMI_MARKER \in Int /\ GUEST_MARKER \in Int /\ GUEST_EPT_VALUE \in Int
  /\ GUEST_NMI_MARKER # GUEST_MARKER /\ GUEST_NMI_MARKER # GUEST_MARKER + 1
  BY SMT DEF GUEST_NMI_MARKER, GUEST_MARKER, GUEST_EPT_VALUE

(* A label is the main program's unless it is in the NMI handler.          *)
LEMMA Labels ==
  ASSUME NEW r \in 0..34
  PROVE  r \in Int /\ (r \in MainLabels <=> r \notin InNmiHandler)
  BY SMT DEF MainLabels, InNmiHandler, guest_nmi_handler, AtIretq

(* Changing one field of a machine to a value of its type.  The provers    *)
(* need not know what the types are.                                       *)
LEMMA SetField ==
  ASSUME NEW m \in Machine
  PROVE  /\ \A x \in 0..34 : [m EXCEPT !.rip = x] \in Machine
         /\ \A x \in Int : [m EXCEPT !.rax = x] \in Machine
         /\ \A x \in Int : [m EXCEPT !.rbx = x] \in Machine
         /\ \A x \in Int : [m EXCEPT !.rcx = x] \in Machine
         /\ \A x \in Int : [m EXCEPT !.rdx = x] \in Machine
         /\ \A x \in Int : [m EXCEPT !.rsi = x] \in Machine
         /\ \A x \in Int : [m EXCEPT !.rdi = x] \in Machine
         /\ \A x \in Seq(Int) : [m EXCEPT !.stack = x] \in Machine
         /\ \A x \in Int : [m EXCEPT !.data = x] \in Machine
         /\ \A x \in Int \X Int : [m EXCEPT !.msr = x] \in Machine
         /\ \A x \in 0..255 : [m EXCEPT !.port = x] \in Machine
<1> DEFINE R == 0..34
           I == Int
           S == Seq(Int)
           M == Int \X Int
           P == 0..255
           F == BOOLEAN
<1>1. Machine = [rip : R, rax : I, rbx : I, rcx : I, rdx : I, rsi : I, rdi : I,
                 stack : S, data : I, msr : M, port : P, scratch : F]
  BY DEF Machine
<1> HIDE DEF R, I, S, M, P, F
<1>2. /\ \A x \in R : [m EXCEPT !.rip = x] \in Machine
      /\ \A x \in I : [m EXCEPT !.rax = x] \in Machine
      /\ \A x \in I : [m EXCEPT !.rbx = x] \in Machine
      /\ \A x \in I : [m EXCEPT !.rcx = x] \in Machine
      /\ \A x \in I : [m EXCEPT !.rdx = x] \in Machine
      /\ \A x \in I : [m EXCEPT !.rsi = x] \in Machine
      /\ \A x \in I : [m EXCEPT !.rdi = x] \in Machine
      /\ \A x \in S : [m EXCEPT !.stack = x] \in Machine
      /\ \A x \in I : [m EXCEPT !.data = x] \in Machine
      /\ \A x \in M : [m EXCEPT !.msr = x] \in Machine
      /\ \A x \in P : [m EXCEPT !.port = x] \in Machine
  BY SMT, <1>1
<1> QED
  BY <1>2, Zenon DEF R, I, S, M, P, F

(* The fields have their types.                                            *)
LEMMA FieldTypes ==
  ASSUME NEW m \in Machine
  PROVE  /\ m.rip \in 0..34 /\ m.rax \in Int /\ m.rbx \in Int /\ m.rcx \in Int
         /\ m.rdx \in Int /\ m.rsi \in Int /\ m.rdi \in Int /\ m.stack \in Seq(Int)
         /\ m.data \in Int /\ m.msr \in Int \X Int /\ m.port \in 0..255
         /\ m.scratch \in BOOLEAN
  BY Zenon DEF Machine

(* Popping from the guest's stack.                                         *)
LEMMA Pop ==
  ASSUME NEW s \in Seq(Int), NEW t, t = Tail(s), Len(s) \in {1, 2}
  PROVE  /\ t \in Seq(Int)
         /\ Head(s) = s[1] /\ s[1] \in Int
         /\ Len(s) = 1 => Len(t) = 0
         /\ Len(s) = 2 => Len(t) = 1 /\ t[1] = s[2]
<1>1. s # <<>> /\ Head(s) = s[1] /\ s[1] \in Int
  OBVIOUS
<1>2. t \in Seq(Int)
  BY <1>1
<1>3. Len(t) = Len(s) - 1
  BY <1>1
<1>4. ASSUME Len(s) = 2 PROVE t[1] = s[2]
  BY <1>1, <1>4
<1> QED
  BY <1>1, <1>2, <1>3, <1>4

\* The main program cannot tell the machines m and n apart.
SameMain(m, n) ==
  /\ Pc(n) = Pc(m) /\ MainRax(n) = MainRax(m)
  /\ n.rcx = m.rcx /\ n.rdx = m.rdx /\ n.rsi = m.rsi /\ n.rdi = m.rdi
  /\ n.data = m.data /\ n.msr = m.msr /\ n.port = m.port /\ n.scratch = m.scratch

(* Then what is known of it stays known.                                   *)
LEMMA SameMainOK ==
  ASSUME NEW m, NEW n, NEW b, NEW v, SameMain(m, n), MainOK(m, b, v)
  PROVE  MainOK(n, b, v)
  BY DEF SameMain, MainOK, AtPc, OnPlan

(* Delivering an NMI starts the guest's NMI handler, which the main        *)
(* program does not see.                                                   *)
LEMMA DeliverStep ==
  ASSUME NEW m \in Machine, FrameOK(m), m.rip \notin InNmiHandler
  PROVE  \A n : n = deliver_nmi(m) =>
           /\ n \in Machine /\ FrameOK(n) /\ SameMain(m, n)
           /\ n.rip = guest_nmi_handler
<1>a. SUFFICES ASSUME NEW n, n = deliver_nmi(m)
               PROVE  /\ n \in Machine /\ FrameOK(n) /\ SameMain(m, n)
                      /\ n.rip = guest_nmi_handler
  BY Zenon
<1>1. m.rip \in Int /\ m.rip \in MainLabels /\ m.stack \in Seq(Int)
  <2>1. m.rip \in 0..34 /\ m.stack \in Seq(Int)
    BY FieldTypes
  <2> QED
    BY <2>1, Labels, Zenon
<1>2. PICK s : s = push(m.rip, m.stack)
  OBVIOUS
<1>3. n = [m EXCEPT !.rip = 29, !.stack = s]
  BY <1>a, <1>2 DEF deliver_nmi, guest_nmi_handler
<1>4. Len(m.stack) = 0
  BY DEF FrameOK, Return, InNmiHandler, guest_nmi_handler, AtIretq
<1>5. s \in Seq(Int) /\ Len(s) = 1 /\ s[1] = m.rip
  <2>1. s \in Seq(Int)
    BY <1>1, <1>2 DEF push
  <2>2. Len(s) = 1 + Len(m.stack)
    BY <1>1, <1>2 DEF push
  <2>3. s[1] = m.rip
    BY <1>1, <1>2 DEF push
  <2> QED
    BY <1>4, <2>1, <2>2, <2>3
<1>6. n \in Machine
  <2>1. 29 \in 0..34
    OBVIOUS
  <2> QED
    BY Zenon, <1>3, <1>5, <2>1, SetField
<1>7. /\ n.rip = 29 /\ n.stack = s /\ n.rax = m.rax
      /\ n.rcx = m.rcx /\ n.rdx = m.rdx /\ n.rsi = m.rsi /\ n.rdi = m.rdi /\ n.data = m.data
      /\ n.msr = m.msr /\ n.port = m.port /\ n.scratch = m.scratch
  BY <1>3 DEF Machine
<1>8. FrameOK(n)
  BY <1>1, <1>5, <1>7 DEF FrameOK, Return, AtNmiVmcall, InNmiHandler, guest_nmi_handler, AtIretq
<1>9. Pc(n) = Pc(m) /\ MainRax(n) = MainRax(m)
  BY <1>5, <1>7 DEF Pc, Return, MainRax, InNmiHandler, guest_nmi_handler, AtIretq
<1> QED
  BY <1>6, <1>7, <1>8, <1>9 DEF SameMain, guest_nmi_handler

(* A step of the guest's NMI handler is invisible to the main program.     *)
LEMMA HandlerStep ==
  ASSUME NEW m \in Machine, FrameOK(m), m.rip \in {29, 31, 32}
  PROVE  \A n : n = straight(m) =>
           /\ n \in Machine /\ FrameOK(n) /\ SameMain(m, n)
           /\ m.rip = 29 => n.rip = 30
           /\ m.rip = 31 => n.rip = 32
           /\ m.rip = 32 => n.rip \in MainLabels
<1>a. SUFFICES ASSUME NEW n, n = straight(m)
               PROVE  /\ n \in Machine /\ FrameOK(n) /\ SameMain(m, n)
                      /\ m.rip = 29 => n.rip = 30
                      /\ m.rip = 31 => n.rip = 32
                      /\ m.rip = 32 => n.rip \in MainLabels
  BY Zenon
<1>1. m.rax \in Int /\ m.stack \in Seq(Int)
  BY FieldTypes
<1>2. CASE m.rip = 29
  <2>1. PICK s : s = push(m.rax, m.stack)
    OBVIOUS
  <2>2. n = [m EXCEPT !.rip = 30, !.stack = s, !.rax = GUEST_NMI_MARKER]
    BY <1>2, <1>a, <2>1 DEF straight
  <2>3. Len(m.stack) = 1 /\ m.stack[1] \in MainLabels
    BY <1>2 DEF FrameOK, Return, InNmiHandler, guest_nmi_handler, AtIretq
  <2>4. s \in Seq(Int) /\ Len(s) = 2 /\ s[1] = m.rax /\ s[2] = m.stack[1]
    <3>1. s \in Seq(Int)
      BY <1>1, <2>1 DEF push
    <3>2. Len(s) = 1 + Len(m.stack)
      BY <1>1, <2>1 DEF push
    <3>3. s[1] = m.rax
      BY <1>1, <2>1 DEF push
    <3>4. s[2] = m.stack[1]
      BY <1>1, <2>1, <2>3 DEF push
    <3> QED
      BY <2>3, <3>1, <3>2, <3>3, <3>4
  <2>5. n \in Machine
    <3>1. 30 \in 0..34 /\ GUEST_NMI_MARKER \in Int
      BY Markers
    <3> QED
      BY ZenonT(60), <2>2, <2>4, <3>1, SetField
  <2>6. /\ n.rip = 30 /\ n.stack = s /\ n.rax = GUEST_NMI_MARKER
        /\ n.rcx = m.rcx /\ n.rdx = m.rdx /\ n.rsi = m.rsi /\ n.rdi = m.rdi /\ n.data = m.data
        /\ n.msr = m.msr /\ n.port = m.port /\ n.scratch = m.scratch
    BY <2>2 DEF Machine
  <2>7. FrameOK(n)
    BY <2>3, <2>4, <2>6 DEF FrameOK, Return, InNmiHandler, guest_nmi_handler, AtIretq
  <2>8. Pc(n) = Pc(m) /\ MainRax(n) = MainRax(m)
    BY <1>2, <2>3, <2>4, <2>6 DEF Pc, Return, MainRax, InNmiHandler, guest_nmi_handler, AtIretq
  <2> QED
    BY <1>2, <2>5, <2>6, <2>7, <2>8 DEF SameMain
<1>3. CASE m.rip = 31
  <2>1. PICK s : s = Tail(m.stack)
    BY Zenon
  <2>2. n = [m EXCEPT !.rip = 32, !.rax = Head(m.stack), !.stack = s, !.rbx = 1]
    BY <1>3, <1>a, <2>1 DEF straight
  <2>3. Len(m.stack) = 2 /\ m.stack[2] \in MainLabels
    BY <1>3 DEF FrameOK, Return, InNmiHandler, guest_nmi_handler, AtIretq
  <2>4. /\ s \in Seq(Int) /\ Len(s) = 1 /\ s[1] = m.stack[2]
        /\ Head(m.stack) = m.stack[1] /\ m.stack[1] \in Int
    BY <1>1, <2>1, <2>3, Pop
  <2>5. n \in Machine
    <3>1. 32 \in 0..34 /\ 1 \in Int
      OBVIOUS
    <3>2. [m EXCEPT !.rip = 32, !.rax = Head(m.stack)] \in Machine
      BY ZenonT(60), <2>4, <3>1, SetField
    <3> QED
      BY ZenonT(60), <2>2, <2>4, <3>1, <3>2, SetField
  <2>6. /\ n.rip = 32 /\ n.stack = s /\ n.rax = Head(m.stack)
        /\ n.rcx = m.rcx /\ n.rdx = m.rdx /\ n.rsi = m.rsi /\ n.rdi = m.rdi /\ n.data = m.data
        /\ n.msr = m.msr /\ n.port = m.port /\ n.scratch = m.scratch
    BY <2>2 DEF Machine
  <2>7. FrameOK(n)
    BY <2>3, <2>4, <2>6 DEF FrameOK, Return, AtNmiVmcall, InNmiHandler, guest_nmi_handler, AtIretq
  <2>8. Pc(n) = Pc(m) /\ MainRax(n) = MainRax(m)
    BY <1>3, <2>3, <2>4, <2>6 DEF Pc, Return, MainRax, InNmiHandler, guest_nmi_handler, AtIretq
  <2> QED
    BY <1>3, <2>5, <2>6, <2>7, <2>8 DEF SameMain
<1>4. CASE m.rip = 32
  <2>1. PICK s : s = Tail(m.stack)
    BY Zenon
  <2>2. n = [m EXCEPT !.rip = Head(m.stack), !.stack = s]
    BY <1>4, <1>a, <2>1 DEF straight
  <2>3. Len(m.stack) = 1 /\ m.stack[1] \in MainLabels
    BY <1>4 DEF FrameOK, Return, InNmiHandler, guest_nmi_handler, AtIretq
  <2>4. s \in Seq(Int) /\ Len(s) = 0 /\ Head(m.stack) = m.stack[1]
    BY <1>1, <2>1, <2>3, Pop
  <2>5. n \in Machine
    <3>1. Head(m.stack) \in 0..34
      BY <2>3, <2>4 DEF MainLabels
    <3> QED
      BY ZenonT(60), <2>2, <2>4, <3>1, SetField
  <2>6. /\ n.rip = m.stack[1] /\ n.stack = s /\ n.rax = m.rax
        /\ n.rcx = m.rcx /\ n.rdx = m.rdx /\ n.rsi = m.rsi /\ n.rdi = m.rdi /\ n.data = m.data
        /\ n.msr = m.msr /\ n.port = m.port /\ n.scratch = m.scratch
    BY <2>2, <2>4 DEF Machine
  <2>7. n.rip \notin InNmiHandler /\ n.rip \notin {29, 30, 31, 32}
    BY <2>3, <2>6 DEF MainLabels, InNmiHandler, guest_nmi_handler, AtIretq
  <2>8. FrameOK(n)
    BY <2>4, <2>6, <2>7 DEF FrameOK, Return, AtNmiVmcall
  <2>9. Pc(n) = Pc(m) /\ MainRax(n) = MainRax(m)
    BY <1>4, <2>3, <2>6, <2>7 DEF Pc, Return, MainRax, InNmiHandler, guest_nmi_handler, AtIretq
  <2> QED
    BY <1>4, <2>3, <2>5, <2>6, <2>8, <2>9 DEF SameMain
<1> QED
  BY <1>2, <1>3, <1>4

(* A main label has no frame to look past.                                 *)
LEMMA MainMachine ==
  ASSUME NEW m, m.rip \in MainLabels, NEW b, NEW v
  PROVE  /\ m.rip \notin InNmiHandler
         /\ FrameOK(m) <=> Len(m.stack) = 0
         /\ MainOK(m, b, v) <=> AtPc(m.rip, m.rax, m, b, v) /\ OnPlan(m.rip, m.rax, m, b)
<1>1. m.rip \notin InNmiHandler /\ m.rip \notin {29, 30, 31, 32}
  BY DEF MainLabels, InNmiHandler, guest_nmi_handler, AtIretq
<1>2. FrameOK(m) <=> Len(m.stack) = 0
  BY <1>1 DEF FrameOK, AtNmiVmcall
<1>3. Pc(m) = m.rip /\ MainRax(m) = m.rax
  BY <1>1 DEF Pc, MainRax
<1> QED
  BY <1>1, <1>2, <1>3 DEF MainOK

\* The hardware the guest found.
Before == [msr : Int \X Int, port : 0..255]

\* The main program goes on from p to q.
Follows(p, q) == q = p + 1 \/ (p \in 24..25 /\ q \in 24..26) \/ (p = 16 /\ q = 33)

\* The main program goes from m to n with everything known of it still true.
MainGoes(m, n, b, v) ==
  /\ n \in Machine /\ n.stack = m.stack /\ n.rip \in MainLabels
  /\ n.msr = m.msr /\ n.port = m.port /\ n.scratch = m.scratch
  /\ AtPc(n.rip, n.rax, n, b, v) /\ OnPlan(n.rip, n.rax, n, b)
  /\ Follows(m.rip, n.rip)

(* Each group of main instructions that runs without an exit goes on.      *)
LEMMA MainStep ==
  ASSUME NEW m \in Machine, m.rip \in MainLabels \ Exiting, NEW b \in Before, NEW v,
         AtPc(m.rip, m.rax, m, b, v), OnPlan(m.rip, m.rax, m, b)
  PROVE  \A n : n = straight(m) => MainGoes(m, n, b, v)
<1>a. SUFFICES ASSUME NEW n, n = straight(m) PROVE MainGoes(m, n, b, v)
  BY Zenon
<1>b. /\ m.rip \in 0..34 /\ m.rax \in Int /\ m.rbx \in Int /\ m.rcx \in Int
      /\ m.rdx \in Int /\ m.rsi \in Int /\ m.rdi \in Int /\ m.data \in Int
      /\ m.scratch \in BOOLEAN
  BY FieldTypes
<1>c. /\ KERNEL_GS_BASE \in Int /\ GUEST_MSR_VALUE[1] \in Int /\ GUEST_MSR_VALUE[2] \in Int
      /\ GUEST_IO_VALUE \in Int /\ GUEST_SCRATCH_PORT \in Int /\ 0 \in Int /\ 1 \in Int
      /\ GUEST_EMULATION_FAIL_MARKER \in Int /\ LowByte(GUEST_IO_VALUE) = GUEST_IO_VALUE
  BY SMT DEF KERNEL_GS_BASE, GUEST_MSR_VALUE, GUEST_IO_VALUE, GUEST_SCRATCH_PORT,
             GUEST_EMULATION_FAIL_MARKER, LowByte
<1>1. CASE m.rip = 0
  <2>1. n = [m EXCEPT !.rip = 1, !.rax = 1, !.rcx = 0]
    BY <1>a, <1>1 DEF straight
  <2>2. 1 \in 0..34
    OBVIOUS
  <2>4. n \in Machine
    BY Zenon, <1>b, <1>c, <2>1, <2>2, SetField
  <2>5. /\ n.stack = m.stack /\ n.msr = m.msr /\ n.port = m.port /\ n.scratch = m.scratch
        /\ n.rip = 1
        /\ n.rax = 1 /\ n.rdx = m.rdx /\ n.rcx = 0
        /\ n.rsi = m.rsi /\ n.rdi = m.rdi /\ n.data = m.data
    BY <2>1 DEF Machine
  <2>7. AtPc(n.rip, n.rax, n, b, v)
    BY <1>b, <1>1, <2>4, <2>5 DEF AtPc
  <2>8. OnPlan(n.rip, n.rax, n, b)
    BY <1>b, <1>1, <2>4, <2>5 DEF OnPlan, AtPc
  <2> QED
    BY <1>b, <1>1, <2>4, <2>5, <2>7, <2>8 DEF MainGoes, MainLabels, Follows
<1>2. CASE m.rip = 2
  <2>1. n = [m EXCEPT !.rip = 3, !.rcx = KERNEL_GS_BASE]
    BY <1>a, <1>b, <1>2 DEF straight, OnPlan, guest_emulation_failed
  <2>2. 3 \in 0..34
    OBVIOUS
  <2>4. n \in Machine
    BY Zenon, <1>b, <1>c, <2>1, <2>2, SetField
  <2>5. /\ n.stack = m.stack /\ n.msr = m.msr /\ n.port = m.port /\ n.scratch = m.scratch
        /\ n.rip = 3
        /\ n.rax = m.rax /\ n.rdx = m.rdx /\ n.rcx = KERNEL_GS_BASE
        /\ n.rsi = m.rsi /\ n.rdi = m.rdi /\ n.data = m.data
    BY <2>1 DEF Machine
  <2>7. AtPc(n.rip, n.rax, n, b, v)
    BY <1>b, <1>2, <2>4, <2>5 DEF AtPc
  <2>8. OnPlan(n.rip, n.rax, n, b)
    BY <1>b, <1>2, <2>4, <2>5 DEF OnPlan, AtPc
  <2> QED
    BY <1>b, <1>2, <2>4, <2>5, <2>7, <2>8 DEF MainGoes, MainLabels, Follows
<1>3. CASE m.rip = 4
  <2>1. n = [m EXCEPT !.rip = 5, !.rsi = m.rax, !.rdi = m.rdx,
                      !.rax = GUEST_MSR_VALUE[2], !.rdx = GUEST_MSR_VALUE[1]]
    BY <1>a, <1>3 DEF straight
  <2>2. 5 \in 0..34
    OBVIOUS
  <2>4. n \in Machine
    BY ZenonT(60), <1>b, <1>c, <2>1, <2>2, SetField
  <2>5. /\ n.stack = m.stack /\ n.msr = m.msr /\ n.port = m.port /\ n.scratch = m.scratch
        /\ n.rip = 5
        /\ n.rax = GUEST_MSR_VALUE[2] /\ n.rdx = GUEST_MSR_VALUE[1] /\ n.rcx = m.rcx
        /\ n.rsi = m.rax /\ n.rdi = m.rdx /\ n.data = m.data
    BY <2>1 DEF Machine
  <2>7. AtPc(n.rip, n.rax, n, b, v)
    BY <1>b, <1>3, <2>4, <2>5 DEF AtPc
  <2>8. OnPlan(n.rip, n.rax, n, b)
    BY <1>b, <1>3, <2>4, <2>5 DEF OnPlan, AtPc
  <2> QED
    BY <1>b, <1>3, <2>4, <2>5, <2>7, <2>8 DEF MainGoes, MainLabels, Follows
<1>4. CASE m.rip = 6
  <2>1. n = [m EXCEPT !.rip = 7, !.rax = 0, !.rdx = 0]
    BY <1>a, <1>4 DEF straight
  <2>2. 7 \in 0..34
    OBVIOUS
  <2>4. n \in Machine
    BY ZenonT(60), <1>b, <1>c, <2>1, <2>2, SetField
  <2>5. /\ n.stack = m.stack /\ n.msr = m.msr /\ n.port = m.port /\ n.scratch = m.scratch
        /\ n.rip = 7
        /\ n.rax = 0 /\ n.rdx = 0 /\ n.rcx = m.rcx
        /\ n.rsi = m.rsi /\ n.rdi = m.rdi /\ n.data = m.data
    BY <2>1 DEF Machine
  <2>7. AtPc(n.rip, n.rax, n, b, v)
    BY <1>b, <1>4, <2>4, <2>5, SMTT(30) DEF AtPc
  <2>8. OnPlan(n.rip, n.rax, n, b)
    BY <1>b, <1>4, <2>4, <2>5 DEF OnPlan, AtPc
  <2> QED
    BY <1>b, <1>4, <2>4, <2>5, <2>7, <2>8 DEF MainGoes, MainLabels, Follows
<1>5. CASE m.rip = 8
  <2>1. n = [m EXCEPT !.rip = 9, !.rax = m.rsi, !.rdx = m.rdi]
    BY <1>a, <1>b, <1>5 DEF straight, OnPlan, GUEST_MSR_VALUE
  <2>2. 9 \in 0..34
    OBVIOUS
  <2>4. n \in Machine
    BY ZenonT(60), <1>b, <1>c, <2>1, <2>2, SetField
  <2>5. /\ n.stack = m.stack /\ n.msr = m.msr /\ n.port = m.port /\ n.scratch = m.scratch
        /\ n.rip = 9
        /\ n.rax = m.rsi /\ n.rdx = m.rdi /\ n.rcx = m.rcx
        /\ n.rsi = m.rsi /\ n.rdi = m.rdi /\ n.data = m.data
    BY <2>1 DEF Machine
  <2>7. AtPc(n.rip, n.rax, n, b, v)
    BY <1>b, <1>5, <2>4, <2>5 DEF AtPc
  <2>8. OnPlan(n.rip, n.rax, n, b)
    BY <1>b, <1>5, <2>4, <2>5 DEF OnPlan, AtPc
  <2> QED
    BY <1>b, <1>5, <2>4, <2>5, <2>7, <2>8 DEF MainGoes, MainLabels, Follows
<1>6. CASE m.rip = 10
  <2>1. n = [m EXCEPT !.rip = 11, !.rdx = merge_in(m.rdx, "Word", GUEST_SCRATCH_PORT)]
    BY <1>a, <1>6 DEF straight
  <2>2. 11 \in 0..34
    OBVIOUS
  <2>3. merge_in(m.rdx, "Word", GUEST_SCRATCH_PORT) \in Int
    BY Zenon, <1>b, <1>c, MergeIn
  <2>4. n \in Machine
    BY Zenon, <1>b, <1>c, <2>1, <2>2, <2>3, SetField
  <2>5. /\ n.stack = m.stack /\ n.msr = m.msr /\ n.port = m.port /\ n.scratch = m.scratch
        /\ n.rip = 11
        /\ n.rax = m.rax /\ n.rdx = merge_in(m.rdx, "Word", GUEST_SCRATCH_PORT) /\ n.rcx = m.rcx
        /\ n.rsi = m.rsi /\ n.rdi = m.rdi /\ n.data = m.data
    BY <2>1 DEF Machine
  <2>7. AtPc(n.rip, n.rax, n, b, v)
    BY <1>b, <1>6, <2>4, <2>5, SMTT(30) DEF AtPc
  <2>8. OnPlan(n.rip, n.rax, n, b)
    BY <1>b, <1>6, <2>4, <2>5 DEF OnPlan, AtPc
  <2> QED
    BY <1>b, <1>6, <2>4, <2>5, <2>7, <2>8 DEF MainGoes, MainLabels, Follows
<1>7. CASE m.rip = 12
  <2>1. n = [m EXCEPT !.rip = 13,
                      !.rsi = merge_in(m.rsi, "Byte", m.rax),
                      !.rax = merge_in(m.rax, "Byte", GUEST_IO_VALUE)]
    BY <1>a, <1>7 DEF straight
  <2>2. 13 \in 0..34
    OBVIOUS
  <2>3. /\ merge_in(m.rsi, "Byte", m.rax) \in Int
        /\ merge_in(m.rax, "Byte", GUEST_IO_VALUE) \in Int
    BY Zenon, <1>b, <1>c, MergeIn
  <2>4. n \in Machine
    BY ZenonT(60), <1>b, <1>c, <2>1, <2>2, <2>3, SetField
  <2>5. /\ n.stack = m.stack /\ n.msr = m.msr /\ n.port = m.port /\ n.scratch = m.scratch
        /\ n.rip = 13
        /\ n.rax = merge_in(m.rax, "Byte", GUEST_IO_VALUE) /\ n.rdx = m.rdx /\ n.rcx = m.rcx
        /\ n.rsi = merge_in(m.rsi, "Byte", m.rax) /\ n.rdi = m.rdi /\ n.data = m.data
    BY <2>1 DEF Machine
  <2>6. /\ LowByte(merge_in(m.rsi, "Byte", m.rax)) = LowByte(m.rax)
        /\ LowByte(merge_in(m.rax, "Byte", GUEST_IO_VALUE)) = GUEST_IO_VALUE
    BY Zenon, <1>b, <1>c, MergeIn
  <2>7. AtPc(n.rip, n.rax, n, b, v)
    BY <1>b, <1>7, <2>4, <2>5, <2>6 DEF AtPc
  <2>8. OnPlan(n.rip, n.rax, n, b)
    BY <1>b, <1>7, <2>4, <2>5, <2>6 DEF OnPlan, AtPc
  <2> QED
    BY <1>b, <1>7, <2>4, <2>5, <2>6, <2>7, <2>8 DEF MainGoes, MainLabels, Follows
<1>8. CASE m.rip = 14
  <2>1. n = [m EXCEPT !.rip = 15, !.rax = 0]
    BY <1>a, <1>8 DEF straight
  <2>2. 15 \in 0..34
    OBVIOUS
  <2>4. n \in Machine
    BY Zenon, <1>b, <1>c, <2>1, <2>2, SetField
  <2>5. /\ n.stack = m.stack /\ n.msr = m.msr /\ n.port = m.port /\ n.scratch = m.scratch
        /\ n.rip = 15
        /\ n.rax = 0 /\ n.rdx = m.rdx /\ n.rcx = m.rcx
        /\ n.rsi = m.rsi /\ n.rdi = m.rdi /\ n.data = m.data
    BY <2>1 DEF Machine
  <2>7. AtPc(n.rip, n.rax, n, b, v)
    BY <1>b, <1>8, <2>4, <2>5, SMTT(30) DEF AtPc
  <2>8. OnPlan(n.rip, n.rax, n, b)
    BY <1>b, <1>8, <2>4, <2>5 DEF OnPlan, AtPc
  <2> QED
    BY <1>b, <1>8, <2>4, <2>5, <2>7, <2>8 DEF MainGoes, MainLabels, Follows
<1>9. CASE m.rip = 16
  <2>1. \/ LowByte(m.rax) # GUEST_IO_VALUE /\ n = [m EXCEPT !.rip = 33]
        \/ /\ LowByte(m.rax) = GUEST_IO_VALUE
           /\ n = [m EXCEPT !.rip = 17, !.rax = merge_in(m.rax, "Byte", m.rsi)]
    BY <1>a, <1>9 DEF straight, scratch_compared, guest_emulation_failed, LowByte
  <2>2. CASE LowByte(m.rax) # GUEST_IO_VALUE /\ n = [m EXCEPT !.rip = 33]
    <3>2. 33 \in 0..34
      OBVIOUS
    <3>4. n \in Machine
      BY ZenonT(60), <1>b, <1>c, <2>2, <3>2, SetField
    <3>5. /\ n.stack = m.stack /\ n.msr = m.msr /\ n.port = m.port /\ n.scratch = m.scratch
          /\ n.rip = 33
          /\ n.rax = m.rax /\ n.rdx = m.rdx /\ n.rcx = m.rcx
          /\ n.rsi = m.rsi /\ n.rdi = m.rdi /\ n.data = m.data
      BY <2>2 DEF Machine
    <3>7. AtPc(n.rip, n.rax, n, b, v)
      BY <1>b, <1>9, <3>4, <3>5 DEF AtPc
    <3>8. OnPlan(n.rip, n.rax, n, b)
      BY <1>b, <1>9, <3>4, <3>5, <2>2 DEF OnPlan, AtPc
    <3> QED
      BY <1>b, <1>9, <3>4, <3>5, <3>7, <3>8 DEF MainGoes, MainLabels, Follows
  <2>3. CASE /\ LowByte(m.rax) = GUEST_IO_VALUE
             /\ n = [m EXCEPT !.rip = 17, !.rax = merge_in(m.rax, "Byte", m.rsi)]
    <3>2. 17 \in 0..34
      OBVIOUS
    <3>3. merge_in(m.rax, "Byte", m.rsi) \in Int
      BY Zenon, <1>b, <1>c, MergeIn
    <3>4. n \in Machine
      BY Zenon, <1>b, <1>c, <2>3, <3>2, <3>3, SetField
    <3>5. /\ n.stack = m.stack /\ n.msr = m.msr /\ n.port = m.port /\ n.scratch = m.scratch
          /\ n.rip = 17
          /\ n.rax = merge_in(m.rax, "Byte", m.rsi) /\ n.rdx = m.rdx /\ n.rcx = m.rcx
          /\ n.rsi = m.rsi /\ n.rdi = m.rdi /\ n.data = m.data
      BY <2>3 DEF Machine
    <3>6. LowByte(merge_in(m.rax, "Byte", m.rsi)) = LowByte(m.rsi)
      BY Zenon, <1>b, MergeIn
    <3>7. AtPc(n.rip, n.rax, n, b, v)
      BY <1>b, <1>9, <3>4, <3>5, <3>6 DEF AtPc
    <3>8. OnPlan(n.rip, n.rax, n, b)
      BY <1>b, <1>9, <3>4, <3>5, <3>6, <2>3 DEF OnPlan, AtPc
    <3> QED
      BY <1>b, <1>9, <3>4, <3>5, <3>6, <3>7, <3>8 DEF MainGoes, MainLabels, Follows
  <2> QED
    BY <2>1, <2>2, <2>3
<1>10. CASE m.rip = 18
  <2>1. n = [m EXCEPT !.rip = 19, !.rbx = 0]
    BY <1>a, <1>10 DEF straight
  <2>2. 19 \in 0..34
    OBVIOUS
  <2>4. n \in Machine
    BY ZenonT(60), <1>b, <1>c, <2>1, <2>2, SetField
  <2>5. /\ n.stack = m.stack /\ n.msr = m.msr /\ n.port = m.port /\ n.scratch = m.scratch
        /\ n.rip = 19
        /\ n.rax = m.rax /\ n.rdx = m.rdx /\ n.rcx = m.rcx
        /\ n.rsi = m.rsi /\ n.rdi = m.rdi /\ n.data = m.data
    BY <2>1 DEF Machine
  <2>7. AtPc(n.rip, n.rax, n, b, v)
    BY <1>b, <1>10, <2>4, <2>5, SMTT(30) DEF AtPc
  <2>8. OnPlan(n.rip, n.rax, n, b)
    BY <1>b, <1>10, <2>4, <2>5 DEF OnPlan, AtPc
  <2> QED
    BY <1>b, <1>10, <2>4, <2>5, <2>7, <2>8 DEF MainGoes, MainLabels, Follows
<1>11. CASE m.rip = 19
  <2>1. n = [m EXCEPT !.rip = 20, !.rcx = m.data]
    BY <1>a, <1>11 DEF straight
  <2>2. 20 \in 0..34
    OBVIOUS
  <2>4. n \in Machine
    BY Zenon, <1>b, <1>c, <2>1, <2>2, SetField
  <2>5. /\ n.stack = m.stack /\ n.msr = m.msr /\ n.port = m.port /\ n.scratch = m.scratch
        /\ n.rip = 20
        /\ n.rax = m.rax /\ n.rdx = m.rdx /\ n.rcx = m.data
        /\ n.rsi = m.rsi /\ n.rdi = m.rdi /\ n.data = m.data
    BY <2>1 DEF Machine
  <2>7. AtPc(n.rip, n.rax, n, b, v)
    BY <1>b, <1>11, <2>4, <2>5, SMTT(30) DEF AtPc
  <2>8. OnPlan(n.rip, n.rax, n, b)
    BY <1>b, <1>11, <2>4, <2>5 DEF OnPlan, AtPc
  <2> QED
    BY <1>b, <1>11, <2>4, <2>5, <2>7, <2>8 DEF MainGoes, MainLabels, Follows
<1>12. CASE m.rip = 20
  <2>1. n = [m EXCEPT !.rip = 21, !.data = GUEST_EPT_VALUE]
    BY <1>a, <1>12 DEF straight
  <2>2. 21 \in 0..34 /\ GUEST_EPT_VALUE \in Int
    BY Markers
  <2>4. n \in Machine
    BY Zenon, <1>b, <1>c, <2>1, <2>2, SetField
  <2>5. /\ n.stack = m.stack /\ n.msr = m.msr /\ n.port = m.port /\ n.scratch = m.scratch
        /\ n.rip = 21
        /\ n.rax = m.rax /\ n.rdx = m.rdx /\ n.rcx = m.rcx
        /\ n.rsi = m.rsi /\ n.rdi = m.rdi /\ n.data = GUEST_EPT_VALUE
    BY <2>1 DEF Machine
  <2>7. AtPc(n.rip, n.rax, n, b, v)
    BY <1>b, <1>12, <2>4, <2>5 DEF AtPc
  <2>8. OnPlan(n.rip, n.rax, n, b)
    BY <1>b, <1>12, <2>4, <2>5 DEF OnPlan, AtPc
  <2> QED
    BY <1>b, <1>12, <2>4, <2>5, <2>7, <2>8 DEF MainGoes, MainLabels, Follows
<1>13. CASE m.rip = 21
  <2>1. n = [m EXCEPT !.rip = 22, !.rdx = m.data, !.rax = GUEST_MARKER]
    BY <1>a, <1>13 DEF straight
  <2>2. 22 \in 0..34 /\ GUEST_MARKER \in Int
    BY Markers
  <2>4. n \in Machine
    BY ZenonT(60), <1>b, <1>c, <2>1, <2>2, SetField
  <2>5. /\ n.stack = m.stack /\ n.msr = m.msr /\ n.port = m.port /\ n.scratch = m.scratch
        /\ n.rip = 22
        /\ n.rax = GUEST_MARKER /\ n.rdx = m.data /\ n.rcx = m.rcx
        /\ n.rsi = m.rsi /\ n.rdi = m.rdi /\ n.data = m.data
    BY <2>1 DEF Machine
  <2>7. AtPc(n.rip, n.rax, n, b, v)
    BY <1>b, <1>13, <2>4, <2>5, SMTT(30) DEF AtPc
  <2>8. OnPlan(n.rip, n.rax, n, b)
    BY <1>b, <1>13, <2>4, <2>5 DEF OnPlan, AtPc
  <2> QED
    BY <1>b, <1>13, <2>4, <2>5, <2>7, <2>8 DEF MainGoes, MainLabels, Follows
<1>14. CASE m.rip = 23
  <2>1. n = [m EXCEPT !.rip = 24, !.rcx = WaitIterations]
    BY <1>a, <1>14 DEF straight, wait_loop, guest_wait
  <2>2. 24 \in 0..34 /\ WaitIterations \in Int
    BY WaitAssumption
  <2>4. n \in Machine
    BY ZenonT(60), <1>b, <1>c, <2>1, <2>2, SetField
  <2>5. /\ n.stack = m.stack /\ n.msr = m.msr /\ n.port = m.port /\ n.scratch = m.scratch
        /\ n.rip = 24
        /\ n.rax = m.rax /\ n.rdx = m.rdx /\ n.rcx = WaitIterations
        /\ n.rsi = m.rsi /\ n.rdi = m.rdi /\ n.data = m.data
    BY <2>1 DEF Machine
  <2>7. AtPc(n.rip, n.rax, n, b, v)
    BY <1>b, <1>14, <2>4, <2>5, SMTT(30) DEF AtPc
  <2>8. OnPlan(n.rip, n.rax, n, b)
    BY <1>b, <1>14, <2>4, <2>5 DEF OnPlan, AtPc
  <2> QED
    BY <1>b, <1>14, <2>4, <2>5, <2>7, <2>8 DEF MainGoes, MainLabels, Follows
<1>15. CASE m.rip = 24
  <2>1. n = [m EXCEPT !.rip = (IF m.rbx # 0 THEN 26 ELSE 25)]
    BY <1>a, <1>15 DEF straight, wait_loop, guest_wait_done
  <2>2. (IF m.rbx # 0 THEN 26 ELSE 25) \in 0..34
    OBVIOUS
  <2>4. n \in Machine
    BY Zenon, <1>b, <1>c, <2>1, <2>2, SetField
  <2>5. /\ n.stack = m.stack /\ n.msr = m.msr /\ n.port = m.port /\ n.scratch = m.scratch
        /\ n.rip = (IF m.rbx # 0 THEN 26 ELSE 25)
        /\ n.rax = m.rax /\ n.rdx = m.rdx /\ n.rcx = m.rcx
        /\ n.rsi = m.rsi /\ n.rdi = m.rdi /\ n.data = m.data
    BY <2>1 DEF Machine
  <2>7. AtPc(n.rip, n.rax, n, b, v)
    BY <1>b, <1>15, <2>4, <2>5 DEF AtPc
  <2>8. OnPlan(n.rip, n.rax, n, b)
    BY <1>b, <1>15, <2>4, <2>5 DEF OnPlan, AtPc
  <2> QED
    BY <1>b, <1>15, <2>4, <2>5, <2>7, <2>8 DEF MainGoes, MainLabels, Follows
<1>16. CASE m.rip = 25
  <2>1. n = [m EXCEPT !.rip = (IF m.rcx - 1 # 0 THEN 24 ELSE 26), !.rcx = m.rcx - 1]
    BY <1>a, <1>16 DEF straight, wait_loop, guest_wait, guest_wait_done
  <2>2. (IF m.rcx - 1 # 0 THEN 24 ELSE 26) \in 0..34 /\ m.rcx - 1 \in Int
    BY <1>b
  <2>4. n \in Machine
    BY ZenonT(60), <1>b, <1>c, <2>1, <2>2, SetField
  <2>5. /\ n.stack = m.stack /\ n.msr = m.msr /\ n.port = m.port /\ n.scratch = m.scratch
        /\ n.rip = (IF m.rcx - 1 # 0 THEN 24 ELSE 26)
        /\ n.rax = m.rax /\ n.rdx = m.rdx /\ n.rcx = m.rcx - 1
        /\ n.rsi = m.rsi /\ n.rdi = m.rdi /\ n.data = m.data
    BY <2>1 DEF Machine
  <2>7. AtPc(n.rip, n.rax, n, b, v)
    BY <1>b, <1>16, <2>4, <2>5 DEF AtPc
  <2>8. OnPlan(n.rip, n.rax, n, b)
    BY <1>b, <1>16, <2>4, <2>5 DEF OnPlan, AtPc
  <2> QED
    BY <1>b, <1>16, <2>4, <2>5, <2>7, <2>8 DEF MainGoes, MainLabels, Follows
<1>17. CASE m.rip = 26
  <2>1. n = [m EXCEPT !.rip = 27, !.rax = m.rax + 1]
    BY <1>a, <1>17 DEF straight
  <2>2. 27 \in 0..34 /\ m.rax + 1 \in Int
    BY <1>b
  <2>4. n \in Machine
    BY Zenon, <1>b, <1>c, <2>1, <2>2, SetField
  <2>5. /\ n.stack = m.stack /\ n.msr = m.msr /\ n.port = m.port /\ n.scratch = m.scratch
        /\ n.rip = 27
        /\ n.rax = m.rax + 1 /\ n.rdx = m.rdx /\ n.rcx = m.rcx
        /\ n.rsi = m.rsi /\ n.rdi = m.rdi /\ n.data = m.data
    BY <2>1 DEF Machine
  <2>7. AtPc(n.rip, n.rax, n, b, v)
    BY <1>b, <1>17, <2>4, <2>5, SMTT(30) DEF AtPc
  <2>8. OnPlan(n.rip, n.rax, n, b)
    BY <1>b, <1>17, <2>4, <2>5 DEF OnPlan, AtPc
  <2> QED
    BY <1>b, <1>17, <2>4, <2>5, <2>7, <2>8 DEF MainGoes, MainLabels, Follows
<1>18. CASE m.rip = 33
  <2>1. n = [m EXCEPT !.rip = 34, !.rax = GUEST_EMULATION_FAIL_MARKER]
    BY <1>a, <1>18 DEF straight
  <2>2. 34 \in 0..34
    OBVIOUS
  <2>4. n \in Machine
    BY ZenonT(60), <1>b, <1>c, <2>1, <2>2, SetField
  <2>5. /\ n.stack = m.stack /\ n.msr = m.msr /\ n.port = m.port /\ n.scratch = m.scratch
        /\ n.rip = 34
        /\ n.rax = GUEST_EMULATION_FAIL_MARKER /\ n.rdx = m.rdx /\ n.rcx = m.rcx
        /\ n.rsi = m.rsi /\ n.rdi = m.rdi /\ n.data = m.data
    BY <2>1 DEF Machine
  <2>7. AtPc(n.rip, n.rax, n, b, v)
    BY <1>b, <1>18, <2>4, <2>5, SMTT(30) DEF AtPc
  <2>8. OnPlan(n.rip, n.rax, n, b)
    BY <1>b, <1>18, <2>4, <2>5 DEF OnPlan, AtPc
  <2> QED
    BY <1>b, <1>18, <2>4, <2>5, <2>7, <2>8 DEF MainGoes, MainLabels, Follows
<1> QED
  <2>1. m.rip \in {0, 2, 4, 6, 8, 10, 12, 14, 16, 18, 19, 20, 21, 23, 24, 25, 26, 33}
    BY DEF MainLabels, Exiting, Emulated, AtCpuid, AtRdmsr, AtWrmsr, AtIn, AtOut, AtMainVmcall,
           AtNmiVmcall, AtUd2
  <2> QED
    BY <2>1, <1>1, <1>2, <1>3, <1>4, <1>5, <1>6, <1>7, <1>8, <1>9, <1>10, <1>11, <1>12,
       <1>13, <1>14, <1>15, <1>16, <1>17, <1>18

\* The effect of an intercepted instruction, RIP still at it.
Executed(m) ==
  CASE m.rip = AtCpuid ->
         LET guest == cpuid_policy(m.rax, CpuidRaw)
         IN  [m EXCEPT !.rax = guest.eax, !.rbx = guest.ebx, !.rcx = guest.ecx,
                       !.rdx = guest.edx]
    [] m.rip \in AtRdmsr -> [m EXCEPT !.rax = m.msr[2], !.rdx = m.msr[1]]
    [] m.rip \in AtWrmsr -> [m EXCEPT !.msr = <<m.rdx, m.rax>>]
    [] m.rip \in AtIn -> [m EXCEPT !.rax = merge_in(@, "Byte", m.port)]
    [] m.rip \in AtOut -> [m EXCEPT !.port = scratch_written(m, m.rax % 256)]

\* The machine e, still at the instruction of m, keeps what the NMI handler needs.
StillAt(m, e) == e \in Machine /\ e.rip = m.rip /\ e.stack = m.stack

NextRip(e) == [e EXCEPT !.rip = @ + 1]

\* The machine n is past the instruction of m.
SteppedTo(m, n, b, v) ==
  /\ n \in Machine /\ n.rip = m.rip + 1 /\ n.stack = m.stack
  /\ AtPc(n.rip, n.rax, n, b, v) /\ OnPlan(n.rip, n.rax, n, b)

(* CPUID's answer is four integers, and leaf 1 does not offer VMX.         *)
LEMMA CpuidAnswer ==
  ASSUME NEW leaf
  PROVE  \A g : g = cpuid_policy(leaf, CpuidRaw) =>
           /\ g.eax \in Int /\ g.ebx \in Int /\ g.ecx \in Int /\ g.edx \in Int
           /\ leaf = 1 => (g.ecx \div 32) % 2 # 1
  BY CpuidAssumption DEF cpuid_policy

(* The low byte of a byte is the byte.                                     *)
LEMMA LowByteType ==
  /\ \A x \in Int : LowByte(x) \in 0..255
  /\ \A x \in 0..255 : x \in Int /\ LowByte(x) = x
  BY DEF LowByte

(* An intercepted instruction, executed and stepped over, goes on.         *)
LEMMA EmulatedStep ==
  ASSUME NEW m \in Machine, m.rip \in Emulated, NEW b \in Before, NEW v,
         AtPc(m.rip, m.rax, m, b, v), OnPlan(m.rip, m.rax, m, b)
  PROVE  StillAt(m, Executed(m)) /\ SteppedTo(m, NextRip(Executed(m)), b, v)
<1>a. PICK e, n : e = Executed(m) /\ n = NextRip(e)
  OBVIOUS
<1>b. /\ m.rip \in 0..34 /\ m.rax \in Int /\ m.rdx \in Int /\ m.rsi \in Int /\ m.rdi \in Int
      /\ m.msr \in Int \X Int /\ m.port \in 0..255 /\ m.scratch \in BOOLEAN
  BY FieldTypes
<1>c. /\ m.msr[1] \in Int /\ m.msr[2] \in Int /\ m.msr = <<m.msr[1], m.msr[2]>>
      /\ b.msr = <<b.msr[1], b.msr[2]>>
      /\ GUEST_MSR_VALUE = <<GUEST_MSR_VALUE[1], GUEST_MSR_VALUE[2]>>
  BY <1>b DEF Before, GUEST_MSR_VALUE
<1>d. ASSUME StillAt(m, e)
      PROVE  /\ n \in Machine /\ n.rip = m.rip + 1 /\ n.stack = m.stack /\ n.rax = e.rax
             /\ n.rcx = e.rcx /\ n.rdx = e.rdx /\ n.rsi = e.rsi /\ n.rdi = e.rdi /\ n.data = e.data
             /\ n.msr = e.msr /\ n.port = e.port /\ n.scratch = e.scratch
  <2>1. e.rip + 1 \in 0..34
    BY <1>b, <1>d DEF StillAt, Emulated, AtCpuid, AtRdmsr, AtWrmsr, AtIn, AtOut
  <2>2. n = [e EXCEPT !.rip = e.rip + 1]
    BY <1>a DEF NextRip
  <2>3. n \in Machine
    BY ZenonT(60), <1>d, <2>1, <2>2, SetField DEF StillAt
  <2> QED
    BY <1>d, <2>2, <2>3 DEF StillAt, Machine
<1>1. ASSUME m.rip = 1 PROVE StillAt(m, e) /\ SteppedTo(m, n, b, v)
  <2>1. PICK g : g = cpuid_policy(m.rax, CpuidRaw)
    OBVIOUS
  <2>2. e = [m EXCEPT !.rax = g.eax, !.rbx = g.ebx, !.rcx = g.ecx, !.rdx = g.edx]
    BY <1>1, <1>a, <2>1 DEF Executed, AtCpuid, AtRdmsr, AtWrmsr, AtIn, AtOut
  <2>3. /\ g.eax \in Int /\ g.ebx \in Int /\ g.ecx \in Int /\ g.edx \in Int
        /\ m.rax = 1 => (g.ecx \div 32) % 2 # 1
    BY <2>1, CpuidAnswer
  <2>4. e \in Machine
    <3>1. [m EXCEPT !.rax = g.eax, !.rbx = g.ebx] \in Machine
      BY Zenon, <2>3, SetField
    <3> QED
      BY Zenon, <2>2, <2>3, <3>1, SetField
  <2>5. /\ e.rip = m.rip /\ e.stack = m.stack /\ e.msr = m.msr /\ e.port = m.port
        /\ e.scratch = m.scratch /\ e.rcx = g.ecx /\ e.data = m.data
    BY <2>2 DEF Machine
  <2>6. StillAt(m, e)
    BY <2>4, <2>5, SMTT(30) DEF StillAt
  <2>8. OnPlan(n.rip, n.rax, n, b)
    BY <1>b, <1>1, <1>d, <2>5, <2>6, <2>3, SMTT(30) DEF OnPlan, AtPc
  <2> QED
    BY <1>b, <1>1, <1>d, <2>5, <2>6, <2>8, SMTT(30) DEF SteppedTo, AtPc
<1>2. ASSUME m.rip \in AtRdmsr PROVE StillAt(m, e) /\ SteppedTo(m, n, b, v)
  <2>1. e = [m EXCEPT !.rax = m.msr[2], !.rdx = m.msr[1]]
    BY <1>2, <1>a DEF Executed, AtCpuid, AtRdmsr, AtWrmsr, AtIn, AtOut
  <2>2. e \in Machine
    BY Zenon, <1>c, <2>1, SetField
  <2>3. /\ e.rip = m.rip /\ e.stack = m.stack /\ e.rax = m.msr[2] /\ e.rdx = m.msr[1]
        /\ e.rsi = m.rsi /\ e.rdi = m.rdi /\ e.msr = m.msr /\ e.port = m.port
        /\ e.scratch = m.scratch /\ e.rcx = m.rcx /\ e.data = m.data
    BY <2>1 DEF Machine
  <2>4. StillAt(m, e)
    BY <2>2, <2>3, SMTT(30) DEF StillAt
  <2>8. OnPlan(n.rip, n.rax, n, b)
    BY <1>b, <1>2, <1>d, <2>3, <2>4, SMTT(30) DEF OnPlan, AtPc, AtRdmsr
  <2> QED
    BY <1>b, <1>2, <1>d, <2>3, <2>4, <2>8, SMTT(30) DEF SteppedTo, AtPc, AtRdmsr
<1>3. ASSUME m.rip \in AtWrmsr PROVE StillAt(m, e) /\ SteppedTo(m, n, b, v)
  <2>1. e = [m EXCEPT !.msr = <<m.rdx, m.rax>>]
    BY <1>3, <1>a DEF Executed, AtCpuid, AtRdmsr, AtWrmsr, AtIn, AtOut
  <2>2. e \in Machine
    <3>1. <<m.rdx, m.rax>> \in Int \X Int
      BY <1>b
    <3> QED
      BY Zenon, <2>1, <3>1, SetField
  <2>3. /\ e.rip = m.rip /\ e.stack = m.stack /\ e.rax = m.rax /\ e.rdx = m.rdx
        /\ e.rsi = m.rsi /\ e.rdi = m.rdi /\ e.msr = <<m.rdx, m.rax>> /\ e.port = m.port
        /\ e.scratch = m.scratch /\ e.rcx = m.rcx /\ e.data = m.data
    BY <2>1 DEF Machine
  <2>4. StillAt(m, e)
    BY <2>2, <2>3 DEF StillAt
  <2>5. m.rip = 9 => e.msr = b.msr
    BY <1>c, <2>3, SMTT(30) DEF AtPc
  <2>8. OnPlan(n.rip, n.rax, n, b)
    BY <1>b, <1>3, <1>d, <2>3, <2>4, <2>5, <1>c, SMTT(30) DEF OnPlan, AtPc, AtWrmsr
  <2> QED
    BY <1>b, <1>3, <1>d, <2>3, <2>4, <2>5, <2>8, SMTT(30) DEF SteppedTo, AtPc, AtWrmsr
<1>4. ASSUME m.rip \in AtIn PROVE StillAt(m, e) /\ SteppedTo(m, n, b, v)
  <2>1. e = [m EXCEPT !.rax = merge_in(m.rax, "Byte", m.port)]
    BY <1>4, <1>a DEF Executed, AtCpuid, AtRdmsr, AtWrmsr, AtIn, AtOut
  <2>2. m.port \in Int /\ LowByte(m.port) = m.port
    BY <1>b, LowByteType, SMTT(30)
  <2>3. /\ merge_in(m.rax, "Byte", m.port) \in Int
        /\ LowByte(merge_in(m.rax, "Byte", m.port)) = m.port
    BY Zenon, <1>b, <2>2, MergeIn
  <2>4. e \in Machine
    BY Zenon, <2>1, <2>3, SetField
  <2>5. /\ e.rip = m.rip /\ e.stack = m.stack /\ e.rax = merge_in(m.rax, "Byte", m.port)
        /\ e.rsi = m.rsi /\ e.msr = m.msr /\ e.port = m.port /\ e.scratch = m.scratch
        /\ e.data = m.data
    BY <2>1 DEF Machine
  <2>6. StillAt(m, e)
    BY <2>4, <2>5, SMTT(30) DEF StillAt
  <2>8. OnPlan(n.rip, n.rax, n, b)
    BY <1>b, <1>4, <1>d, <2>3, <2>5, <2>6, SMTT(30) DEF OnPlan, AtPc, AtIn
  <2> QED
    BY <1>b, <1>4, <1>d, <2>3, <2>5, <2>6, <2>8, SMTT(30) DEF SteppedTo, AtPc, AtIn
<1>5. ASSUME m.rip \in AtOut PROVE StillAt(m, e) /\ SteppedTo(m, n, b, v)
  <2>1. e = [m EXCEPT !.port = scratch_written(m, LowByte(m.rax))]
    BY <1>5, <1>a DEF Executed, AtCpuid, AtRdmsr, AtWrmsr, AtIn, AtOut, LowByte
  <2>2. PICK p : p = scratch_written(m, LowByte(m.rax))
    BY SMTT(30)
  <2>3. p \in 0..255 /\ p = IF m.scratch THEN LowByte(m.rax) ELSE m.port
    BY <1>b, <2>2, LowByteType, SMTT(30) DEF scratch_written
  <2>4. e \in Machine
    BY Zenon, <2>1, <2>2, <2>3, SetField
  <2>5. /\ e.rip = m.rip /\ e.stack = m.stack /\ e.rsi = m.rsi /\ e.msr = m.msr
        /\ e.port = p /\ e.scratch = m.scratch /\ e.data = m.data
    BY <2>1, <2>2 DEF Machine
  <2>6. StillAt(m, e)
    BY <2>4, <2>5, SMTT(30) DEF StillAt
  <2>8. OnPlan(n.rip, n.rax, n, b)
    BY <1>b, <1>5, <1>d, <2>3, <2>5, <2>6, SMTT(30) DEF OnPlan, AtPc, AtOut
  <2> QED
    BY <1>b, <1>5, <1>d, <2>3, <2>5, <2>6, <2>8, SMTT(30) DEF SteppedTo, AtPc, AtOut
<1>6. StillAt(m, e) /\ SteppedTo(m, n, b, v)
  BY <1>1, <1>2, <1>3, <1>4, <1>5 DEF Emulated, AtCpuid
<1> QED
  BY <1>a, <1>6
=============================================================================
