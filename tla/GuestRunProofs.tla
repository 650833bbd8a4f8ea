--------------------------- MODULE GuestRunProofs ---------------------------
(***************************************************************************)
(* Proofs about the guest running under the handler, for any NMI arrivals, *)
(* any starting MSR and port, any wait count and any failing VMCS access,  *)
(* INVEPT or VM entry.                                                     *)
(*                                                                         *)
(* The run: GuestEffect lists what an exit may do to the guest, for each   *)
(* answer of decide; RunInv adds to the handler's invariant where the main *)
(* program is (also while an NMI is handled) and what it has done to the   *)
(* hardware so far; every action keeps RunInv.                             *)
(*                                                                         *)
(* The refinement: the guest under Aleph0 implements the guest on a        *)
(* machine of its own (BareGuest).  An exit is an Execute, a Halt, a Merge *)
(* of two waiting NMIs, or invisible; an entry is a Deliver or invisible.  *)
(***************************************************************************)
EXTENDS GuestRun, HandlerAndGuestProofs

\* An event is queued only for the next entry, an NMI only if it is accepted.
EntryOK ==
  /\ mode = "guest" => entry_info = "none"
  /\ mode = "entering" /\ entry_info = "NMI" => ~vnmi

RunInv ==
  /\ IInv
  /\ RunTypeOK
  /\ FrameOK(machine)
  /\ vnmi <=> machine.rip \in InNmiHandler
  /\ EntryOK
  /\ NmiAccounting
  /\ mode # "stopped" => MainOK(machine, before, state.main_vmcalls)
  /\ FinishedClean

-----------------------------------------------------------------------------
\* What an exit judged as this event does to the guest and the injection field.
GuestEffect(event, emulation) ==
  /\ event \in StopEvents \cup {"LastMainVmcall"} =>
       mode' = "stopped" /\ machine' = machine /\ entry_info' = entry_info
  /\ event \in {"NmiInjected", "NmiWindowInjected"} =>
       /\ machine' = machine /\ entry_info' \in {entry_info, "NMI"}
       /\ mode' = "entering" => entry_info' = "NMI"
  /\ event \in {"NmiDeferred", "EptWriteGranted"} =>
       machine' = machine /\ entry_info' = entry_info
  /\ event = "GuestGeneralProtection" =>
       machine' = machine /\ entry_info' \in {entry_info, "GENERAL_PROTECTION"}
  /\ event \in {"MainVmcall", "GuestNmiHandler"} =>
       /\ entry_info' = entry_info
       /\ machine' = IF mode' = "entering" THEN [machine EXCEPT !.rip = @ + 1] ELSE machine
  /\ event = "Emulated" =>
       /\ entry_info' = entry_info
       /\ mode' = "entering" => machine' = [execute(emulation, machine) EXCEPT !.rip = @ + 1]
       /\ mode' = "stopped" => machine' \in {machine, execute(emulation, machine)}

\* No access failed on the way: the exit is carried out as it was judged.
Undisturbed(j, exit) ==
  /\ j = decide(state, exit)
  /\ mode' = IF j.event \in ResumeEvents THEN "entering" ELSE "stopped"
  /\ j.event \notin ResumeEvents =>
       stop'.kind = IF j.event = "LastMainVmcall" THEN "Finished" ELSE "Unexpected"
  /\ j.event = "EptWriteGranted" => tlb' = "none"
  /\ j.event # "EptWriteGranted" => tlb' = tlb /\ (ept_writable' <=> ept_writable)

(* Whichever VMCS access or INVEPT fails, an exit of the guest has the     *)
(* effect of what decide answers, or of an unexpected exit.                *)
LEMMA ExitEffect ==
  ASSUME IInv, NEW exit \in ExitInfo, Exit(exit)
  PROVE  \E j :
           /\ j = decide(state, exit) \/ j = Judged("Unexpected", state)
           /\ Outcome(state, j.event, state') /\ state' = j.next
           /\ mode' \in {"entering", "stopped"}
           /\ stop'.kind = "Finished" => j.event = "LastMainVmcall"
           /\ GuestEffect(j.event, j.emulation)
           /\ (mode' = "stopped" /\ faulted') \/ Undisturbed(j, exit)
<1>1. PICK bad, fault :
        /\ vmexit_handler(exit, bad, fault)
        /\ machine' = IF judge(exit, bad).event \in ResumeEvents
                      THEN resumed_machine(judge(exit, bad), bad, fault) ELSE machine
        /\ tlb' = IF invalidated(judge(exit, bad), exit, bad, fault) THEN "none" ELSE tlb
        /\ faulted' = access_failed(exit, bad, fault)
  BY DEF Exit
<1>2. PICK j : j = judge(exit, bad)
  OBVIOUS
<1>3. j = decide(state, exit) \/ j = Judged("Unexpected", state)
  BY <1>2 DEF judge
<1>4. state \in ExitState
  BY DEF IInv, TypeOK
<1>5. Outcome(state, j.event, j.next)
  <2>1. CASE j = decide(state, exit)
    BY Zenon, <2>1, <1>4, DecideOutcome
  <2>2. CASE j = Judged("Unexpected", state)
    BY <2>2 DEF Outcome, Judged, StopEvents
  <2> QED
    BY <1>3, <2>1, <2>2
<1>6. /\ state' = j.next
      /\ apply(j, exit, bad, fault)
      /\ stub_return(j, exit, bad, fault, exit_count + 1)
  BY <1>1, <1>2 DEF vmexit_handler
<1>7. mode' = IF Resumes(j, exit, bad, fault) THEN "entering" ELSE "stopped"
  BY <1>6 DEF apply
<1>8. stop'.kind = "Finished" => j.event = "LastMainVmcall"
  BY <1>6 DEF stub_return, NoStop
<1>9. GuestEffect(j.event, j.emulation)
  <2>1. PICK e : e = j.event
    OBVIOUS
  <2>2. PICK p : p = plan(e)
    OBVIOUS
  <2>3. machine' = IF e \in ResumeEvents THEN resumed_machine(j, bad, fault) ELSE machine
    BY <1>1, <1>2, <2>1
  <2>4. entry_info' =
           IF e \in ResumeEvents /\ event_queued(p, bad, fault) /\ p.inject_nmi THEN "NMI"
           ELSE IF e \in ResumeEvents /\ event_queued(p, bad, fault) /\ p.inject_gp
                THEN "GENERAL_PROTECTION"
           ELSE entry_info
    BY <1>6, <2>1, <2>2 DEF apply
  <2>5. mode' = IF e \in ResumeEvents /\ prepare_resume(p, exit, bad, fault)
                THEN "entering" ELSE "stopped"
    BY <1>7, <2>1, <2>2 DEF Resumes
  <2>6. resumed_machine(j, bad, fault) =
          IF p.emulate /\ rip_known(p, bad)
          THEN IF p.advance_rip /\ rip_written(p, bad, fault)
               THEN [execute(j.emulation, machine) EXCEPT !.rip = @ + 1]
               ELSE execute(j.emulation, machine)
          ELSE IF p.advance_rip /\ rip_written(p, bad, fault)
               THEN [machine EXCEPT !.rip = @ + 1] ELSE machine
    BY <2>1, <2>2 DEF resumed_machine
  <2>7. CASE e \in StopEvents \cup {"LastMainVmcall"}
    <3>1. e \notin ResumeEvents
      BY <2>7 DEF StopEvents, ResumeEvents
    <3> QED
      BY <2>1, <2>3, <2>4, <2>5, <2>7, <3>1, SMTT(30) DEF GuestEffect, StopEvents
  <2>8. CASE e \in {"NmiInjected", "NmiWindowInjected"}
    <3>1. e \in ResumeEvents /\ p = INJECT_NMI
      BY <2>2, <2>8 DEF ResumeEvents, plan
    <3>2. ~p.emulate /\ ~p.advance_rip /\ p.inject_nmi
      BY <3>1 DEF INJECT_NMI
    <3>3. prepare_resume(p, exit, bad, fault) => event_queued(p, bad, fault)
      BY DEF prepare_resume, window_set
    <3> QED
      BY <2>1, <2>3, <2>4, <2>5, <2>6, <2>8, <3>1, <3>2, <3>3, SMTT(30) DEF GuestEffect, StopEvents
  <2>9. CASE e \in {"NmiDeferred", "EptWriteGranted"}
    <3>1. e \in ResumeEvents /\ p \in {WAIT_FOR_NMI_WINDOW, RETRY_AFTER_GRANT}
      BY <2>2, <2>9 DEF ResumeEvents, plan
    <3>2. ~p.emulate /\ ~p.advance_rip /\ ~p.inject_nmi /\ ~p.inject_gp
      BY <3>1 DEF WAIT_FOR_NMI_WINDOW, RETRY_AFTER_GRANT
    <3> QED
      BY <2>1, <2>3, <2>4, <2>5, <2>6, <2>9, <3>1, <3>2, SMTT(30) DEF GuestEffect, StopEvents
  <2>10. CASE e = "GuestGeneralProtection"
    <3>1. e \in ResumeEvents /\ p = INJECT_GP
      BY <2>2, <2>10 DEF ResumeEvents, plan
    <3>2. ~p.emulate /\ ~p.advance_rip /\ ~p.inject_nmi
      BY <3>1 DEF INJECT_GP
    <3> QED
      BY <2>1, <2>3, <2>4, <2>5, <2>6, <2>10, <3>1, <3>2 DEF GuestEffect, StopEvents
  <2>11. CASE e \in {"MainVmcall", "GuestNmiHandler", "Emulated"}
    <3>1. /\ e \in ResumeEvents
          /\ p = IF e = "Emulated" THEN [PAST_INSTRUCTION EXCEPT !.emulate = TRUE]
                 ELSE PAST_INSTRUCTION
      BY <2>2, <2>11 DEF ResumeEvents, plan
    <3>2. /\ p.emulate <=> e = "Emulated"
          /\ p.advance_rip /\ ~p.inject_nmi /\ ~p.inject_gp /\ ~p.grant_write
          /\ p.nmi_window = "leave"
      BY <3>1 DEF PAST_INSTRUCTION
    <3>3. prepare_resume(p, exit, bad, fault) <=> rip_written(p, bad, fault)
      BY <3>2 DEF prepare_resume, window_set, event_queued
    <3>4. rip_written(p, bad, fault) => rip_known(p, bad)
      BY DEF rip_written
    <3> QED
      BY <2>1, <2>3, <2>4, <2>5, <2>6, <2>11, <3>1, <3>2, <3>3, <3>4
         DEF GuestEffect, StopEvents
  <2>12. e \in ResumeEvents \cup StopEvents \cup {"LastMainVmcall"}
    BY <1>5, <2>1 DEF Outcome, ResumeEvents, StopEvents
  <2> QED
    BY <2>7, <2>8, <2>9, <2>10, <2>11, <2>12 DEF ResumeEvents
<1>10. (mode' = "stopped" /\ faulted') \/ Undisturbed(j, exit)
  <2>1. CASE access_failed(exit, bad, fault)
    <3>1. faulted'
      BY <1>1, <2>1, Zenon
    <3>2. ~Resumes(j, exit, bad, fault)
      <4>1. ~read_exit(exit, bad) => j.event = "Unexpected"
        BY <1>2 DEF judge, Judged
      <4> QED
        BY <1>2, <2>1, <4>1 DEF access_failed, Resumes, ResumeEvents
    <3> QED
      BY <1>7, <3>1, <3>2
  <2>2. CASE ~access_failed(exit, bad, fault)
    <3>1. j = decide(state, exit)
      BY <1>2, <2>2 DEF access_failed, judge
    <3>2. Resumes(j, exit, bad, fault) <=> j.event \in ResumeEvents
      BY <1>2, <2>2 DEF access_failed, Resumes
    <3>3. j.event \notin ResumeEvents =>
            stop'.kind = IF j.event = "LastMainVmcall" THEN "Finished" ELSE "Unexpected"
      BY <1>6, <3>2 DEF stub_return
    <3>4. j.event = "EptWriteGranted" => tlb' = "none"
      BY <1>1, <1>2, <3>2 DEF invalidated, ResumeEvents, plan, RETRY_AFTER_GRANT
    <3>5. ASSUME j.event # "EptWriteGranted"
          PROVE  tlb' = tlb /\ (ept_writable' <=> ept_writable)
      <4>1. j.event \in ResumeEvents => ~plan(j.event).grant_write
        BY <3>5 DEF ResumeEvents, plan, PAST_INSTRUCTION, INJECT_NMI, WAIT_FOR_NMI_WINDOW,
                    INJECT_GP
      <4>2. tlb' = tlb
        BY <1>1, <1>2, <3>2, <4>1 DEF invalidated
      <4>3. ept_writable' <=> ept_writable
        BY <1>6, <4>1, Zenon DEF apply, entry_written
      <4> QED
        BY <4>2, <4>3
    <3> QED
      BY <1>7, <3>1, <3>2, <3>3, <3>4, <3>5 DEF Undisturbed
  <2> QED
    BY <2>1, <2>2
<1> QED
  BY <1>3, <1>5, <1>6, <1>7, <1>8, <1>9, <1>10

(* Only its own event changes the count of injected or of handled NMIs.    *)
LEMMA OutcomeNmis ==
  ASSUME NEW s \in ExitState, NEW event, NEW next, Outcome(s, event, next)
  PROVE  /\ next.nmis_injected = IF event \in {"NmiInjected", "NmiWindowInjected"}
                                 THEN s.nmis_injected + 1 ELSE s.nmis_injected
         /\ next.nmis_handled = IF event = "GuestNmiHandler"
                                THEN s.nmis_handled + 1 ELSE s.nmis_handled
<1>1. CASE event = "Emulated"
  BY <1>1 DEF Outcome, StopEvents, ExitState
<1>2. CASE event \in {"NmiInjected", "NmiWindowInjected"}
  BY <1>2, Zenon DEF Outcome, StopEvents, injected, ExitState
<1>3. CASE event \notin {"Emulated", "NmiInjected", "NmiWindowInjected"}
  BY <1>3 DEF Outcome, StopEvents, ExitState
<1> QED
  BY <1>1, <1>2, <1>3

\* What the answer to an exit says about the guest that exits.
Matches(event, emulation) ==
  /\ event \in {"NmiInjected", "NmiWindowInjected"} => ~vnmi
  /\ event = "Emulated" => /\ machine.rip \in Emulated
                           /\ execute(emulation, machine) = Executed(machine)
  /\ event = "MainVmcall" => machine.rip = 22
  /\ event = "GuestNmiHandler" => machine.rip = AtNmiVmcall
  /\ event = "LastMainVmcall" => machine.rip = 27 /\ ~nmi_line' /\ ~state.nmi_pending

(* An exit leaves the CPU's state and what was read before the launch.     *)
LEMMA ExitRest ==
  ASSUME RunInv, NEW exit \in ExitInfo, Exit(exit), nmi_line' \in BOOLEAN
  PROVE  /\ IInv' /\ vnmi' = vnmi /\ before' = before
         /\ machine' \in Machine => RunTypeOK'
<1>1. PICK bad, fault :
        /\ vmexit_handler(exit, bad, fault)
        /\ tlb' = IF invalidated(judge(exit, bad), exit, bad, fault) THEN "none" ELSE tlb
        /\ faulted' = access_failed(exit, bad, fault)
  BY DEF Exit
<1>2. IInv'
  BY <1>1, HandlerKeepsInv DEF RunInv
<1>3. vnmi' = vnmi /\ arrivals' = arrivals /\ before' = before
  BY DEF Exit
<1>4. faulted' \in BOOLEAN
  BY Zenon, <1>1 DEF access_failed
<1> QED
  BY <1>1, <1>2, <1>3, <1>4 DEF IInv, RunInv, RunTypeOK

(* An exit whose answer matches the guest keeps the invariant.             *)
LEMMA ExitKeepsRun ==
  ASSUME RunInv, NEW exit \in ExitInfo, Exit(exit), mode = "guest", nmi_line' \in BOOLEAN,
         Matches(decide(state, exit).event, decide(state, exit).emulation)
  PROVE  RunInv'
<1>1. PICK j :
        /\ j = decide(state, exit) \/ j = Judged("Unexpected", state)
        /\ Outcome(state, j.event, state') /\ state' = j.next
        /\ mode' \in {"entering", "stopped"}
        /\ stop'.kind = "Finished" => j.event = "LastMainVmcall"
        /\ GuestEffect(j.event, j.emulation)
  BY ExitEffect DEF RunInv
<1>2. /\ IInv' /\ vnmi' = vnmi /\ before' = before
      /\ machine' \in Machine => RunTypeOK'
  BY ExitRest
<1>3. Matches(j.event, j.emulation)
  <2>1. CASE j = decide(state, exit)
    BY <2>1
  <2>2. CASE j = Judged("Unexpected", state)
    BY <2>2 DEF Matches, Judged
  <2> QED
    BY <1>1, <2>1, <2>2
<1>4. /\ state \in ExitState /\ machine \in Machine /\ FrameOK(machine)
      /\ vnmi <=> machine.rip \in InNmiHandler
      /\ entry_info = "none" /\ MainOK(machine, before, state.main_vmcalls)
      /\ before \in Before
  BY ZenonT(30), GuestAssumption DEF RunInv, RunTypeOK, TypeOK, EntryOK, Before
<1>5. PICK e, em : e = j.event /\ em = j.emulation
  OBVIOUS
<1>6. Outcome(state, e, state') /\ GuestEffect(e, em) /\ Matches(e, em)
  BY <1>1, <1>3, <1>5
<1>7. /\ state'.nmis_injected = IF e \in {"NmiInjected", "NmiWindowInjected"}
                                THEN state.nmis_injected + 1 ELSE state.nmis_injected
      /\ state'.nmis_handled = IF e = "GuestNmiHandler"
                               THEN state.nmis_handled + 1 ELSE state.nmis_handled
  BY <1>4, <1>6, OutcomeNmis
<1>8. state'.main_vmcalls = IF e \in {"MainVmcall", "LastMainVmcall"}
                            THEN state.main_vmcalls + 1 ELSE state.main_vmcalls
  BY <1>4, <1>6, OutcomeCounts
<1>9. state.nmis_injected \in Nat /\ state.nmis_handled \in Nat /\ state.main_vmcalls \in Nat
  BY <1>4 DEF ExitState
<1>10. state.nmis_injected = state.nmis_handled
         + (IF machine.rip \in guest_nmi_handler..AtNmiVmcall THEN 1 ELSE 0)
  BY <1>4 DEF RunInv, NmiAccounting
<1>11. e # "LastMainVmcall" => FinishedClean'
  BY <1>1, <1>5, SMTT(30) DEF FinishedClean
<1>12. e \notin {"NmiInjected", "NmiWindowInjected"} => EntryOK' /\ entry_info' # "NMI"
  BY <1>1, <1>4, <1>6, SMTT(30) DEF EntryOK, GuestEffect, Outcome, StopEvents
<1>13. CASE machine' = machine /\ e \notin {"MainVmcall", "LastMainVmcall", "GuestNmiHandler"}
  <2>1. RunTypeOK'
    BY <1>2, <1>4, <1>13
  <2>2. /\ FrameOK(machine') /\ (vnmi' <=> machine'.rip \in InNmiHandler)
        /\ MainOK(machine', before', state'.main_vmcalls)
    BY <1>2, <1>4, <1>8, <1>13
  <2>3. EntryOK' /\ NmiAccounting'
    <3>1. CASE e \in {"NmiInjected", "NmiWindowInjected"}
      <4>1. ~vnmi /\ machine.rip \notin guest_nmi_handler..AtNmiVmcall
        BY <1>4, <1>6, <3>1 DEF Matches, InNmiHandler, guest_nmi_handler, AtNmiVmcall, AtIretq
      <4>2. mode' # "guest" /\ (mode' # "stopped" => entry_info' = "NMI")
        BY <1>1, <1>6, <3>1 DEF GuestEffect
      <4> QED
        BY <1>2, <1>7, <1>9, <1>10, <3>1, <4>1, <4>2, SMTT(30) DEF EntryOK, NmiAccounting
    <3>2. CASE e \notin {"NmiInjected", "NmiWindowInjected"}
      BY <1>7, <1>10, <1>12, <1>13, <3>2, SMTT(30) DEF NmiAccounting
    <3> QED
      BY <3>1, <3>2
  <2> QED
    BY <1>2, <1>11, <1>13, <2>1, <2>2, <2>3 DEF RunInv
<1>14. CASE e = "Emulated"
  <2>1. machine.rip \in Emulated /\ execute(em, machine) = Executed(machine)
    BY <1>6, <1>14 DEF Matches
  <2>2. machine.rip \in MainLabels /\ machine.rip + 1 \in MainLabels
    BY <2>1 DEF Emulated, AtCpuid, AtRdmsr, AtWrmsr, AtIn, AtOut, MainLabels
  <2>3. /\ machine.rip \notin InNmiHandler /\ Len(machine.stack) = 0
        /\ AtPc(machine.rip, machine.rax, machine, before, state.main_vmcalls)
        /\ OnPlan(machine.rip, machine.rax, machine, before)
    BY Zenon, <1>4, <2>2, MainMachine
  <2>4. PICK x, n : x = Executed(machine) /\ n = NextRip(x)
    OBVIOUS
  <2>5. StillAt(machine, x) /\ SteppedTo(machine, n, before, state.main_vmcalls)
    BY Zenon, <1>4, <2>1, <2>3, <2>4, EmulatedStep
  <2>6. \/ mode' = "entering" /\ machine' = n
        \/ mode' = "stopped" /\ machine' = machine
        \/ mode' = "stopped" /\ machine' = x
    BY <1>1, <1>6, <1>14, <2>1, <2>4 DEF GuestEffect, NextRip
  <2>7. CASE machine' = machine
    BY <1>13, <1>14, <2>7, SMTT(30)
  <2>8. CASE mode' = "stopped" /\ machine' = x
    <3>1. machine' \in Machine /\ machine'.rip = machine.rip /\ machine'.stack = machine.stack
      BY <2>5, <2>8 DEF StillAt
    <3>2. FrameOK(machine') /\ machine'.rip \notin InNmiHandler
      BY Zenon, <2>2, <2>3, <3>1, MainMachine
    <3>3. NmiAccounting'
      BY <2>8 DEF NmiAccounting
    <3>4. EntryOK'
      BY <1>12, <1>14
    <3> QED
      BY <1>2, <1>4, <1>11, <1>14, <2>3, <2>8, <3>1, <3>2, <3>3, <3>4, SMTT(30) DEF RunInv
  <2>9. CASE mode' = "entering" /\ machine' = n
    <3>1. machine' \in Machine /\ machine'.rip \in MainLabels /\ Len(machine'.stack) = 0
      BY <2>2, <2>3, <2>5, <2>9 DEF SteppedTo
    <3>2. /\ FrameOK(machine') /\ machine'.rip \notin InNmiHandler
          /\ MainOK(machine', before, state.main_vmcalls)
      BY Zenon, <2>5, <2>9, <3>1, MainMachine DEF SteppedTo
    <3>3. /\ machine.rip \notin guest_nmi_handler..AtNmiVmcall
          /\ machine'.rip \notin guest_nmi_handler..AtNmiVmcall
      BY <2>3, <3>2 DEF InNmiHandler, guest_nmi_handler, AtNmiVmcall, AtIretq
    <3>4. EntryOK' /\ NmiAccounting'
      BY <1>7, <1>10, <1>12, <1>14, <3>3 DEF NmiAccounting
    <3> QED
      BY <1>2, <1>4, <1>8, <1>11, <1>14, <2>3, <3>1, <3>2, <3>4, SMTT(30) DEF RunInv
  <2> QED
    BY <2>6, <2>7, <2>8, <2>9
<1>15. CASE e = "MainVmcall"
  <2>1. machine.rip = 22 /\ machine.rip \in MainLabels
    BY <1>6, <1>15 DEF Matches, MainLabels
  <2>2. /\ machine.rip \notin InNmiHandler /\ Len(machine.stack) = 0
        /\ AtPc(machine.rip, machine.rax, machine, before, state.main_vmcalls)
        /\ OnPlan(machine.rip, machine.rax, machine, before)
    BY Zenon, <1>4, <2>1, MainMachine
  <2>3. machine' = IF mode' = "entering" THEN [machine EXCEPT !.rip = 23] ELSE machine
    BY <1>6, <1>15, <2>1 DEF GuestEffect
  <2>4. machine.rip \notin guest_nmi_handler..AtNmiVmcall
    BY <2>1 DEF guest_nmi_handler, AtNmiVmcall
  <2>5. EntryOK'
    BY <1>12, <1>15, SMTT(30)
  <2>6. CASE mode' = "entering"
    <3>1. machine' = [machine EXCEPT !.rip = 23]
      BY <2>3, <2>6
    <3>2. machine' \in Machine
      <4>1. 23 \in 0..34
        OBVIOUS
      <4> QED
        BY Zenon, <1>4, <3>1, <4>1, SetField
    <3>3. /\ machine'.rip = 23 /\ machine'.stack = machine.stack /\ machine'.rax = machine.rax
          /\ machine'.msr = machine.msr /\ machine'.port = machine.port
          /\ machine'.data = machine.data /\ machine'.scratch = machine.scratch
      BY <1>4, <3>1, SMTT(30) DEF Machine
    <3>4. AtPc(23, machine'.rax, machine', before, state'.main_vmcalls)
      BY <1>8, <1>9, <1>15, <2>1, <2>2, <3>3, SMTT(30) DEF AtPc
    <3>9. OnPlan(23, machine'.rax, machine', before)
      BY <2>1, <2>2, <3>3, SMTT(30) DEF OnPlan
    <3>5. machine'.rip \in MainLabels /\ machine'.rip \notin guest_nmi_handler..AtNmiVmcall
      BY <3>3 DEF MainLabels, guest_nmi_handler, AtNmiVmcall
    <3>6. /\ FrameOK(machine') /\ machine'.rip \notin InNmiHandler
          /\ MainOK(machine', before, state'.main_vmcalls)
      <4>1. Len(machine'.stack) = 0
        BY <2>2, <3>3, SMTT(30)
      <4>2. /\ AtPc(machine'.rip, machine'.rax, machine', before, state'.main_vmcalls)
            /\ OnPlan(machine'.rip, machine'.rax, machine', before)
        BY <3>3, <3>4, <3>9
      <4> QED
        BY ZenonT(60), <3>5, <4>1, <4>2, MainMachine
    <3>7. NmiAccounting'
      BY <1>7, <1>10, <1>12, <1>15, <2>4, <3>5, SMTT(30) DEF NmiAccounting
    <3> QED
      BY <1>2, <1>4, <1>11, <1>15, <2>2, <2>5, <3>2, <3>6, <3>7, SMTT(30) DEF RunInv
  <2>7. CASE mode' = "stopped"
    <3>1. machine' = machine
      BY <2>3, <2>7
    <3>2. NmiAccounting'
      BY <2>7 DEF NmiAccounting
    <3> QED
      BY <1>2, <1>4, <1>11, <1>15, <2>5, <2>7, <3>1, <3>2, Zenon DEF RunInv
  <2> QED
    BY <1>1, <2>6, <2>7
<1>16. CASE e = "GuestNmiHandler"
  <2>1. machine.rip = 30
    BY <1>6, <1>16 DEF Matches, AtNmiVmcall
  <2>2. machine' = IF mode' = "entering" THEN [machine EXCEPT !.rip = 31] ELSE machine
    BY <1>6, <1>16, <2>1 DEF GuestEffect
  <2>3. EntryOK'
    BY <1>12, <1>16
  <2>4. vnmi
    BY <1>4, <2>1 DEF InNmiHandler, guest_nmi_handler, AtIretq
  <2>5. CASE mode' = "entering"
    <3>1. machine' = [machine EXCEPT !.rip = 31]
      BY <2>2, <2>5
    <3>2. machine' \in Machine
      <4>1. 31 \in 0..34
        OBVIOUS
      <4> QED
        BY Zenon, <1>4, <3>1, <4>1, SetField
    <3>3. /\ machine'.rip = 31 /\ machine'.stack = machine.stack /\ machine'.rax = machine.rax
          /\ machine'.rcx = machine.rcx /\ machine'.rdx = machine.rdx
          /\ machine'.rsi = machine.rsi /\ machine'.rdi = machine.rdi
          /\ machine'.msr = machine.msr /\ machine'.port = machine.port
          /\ machine'.data = machine.data /\ machine'.scratch = machine.scratch
      BY <1>4, <3>1 DEF Machine
    <3>4. FrameOK(machine') /\ machine'.rip \in InNmiHandler
      BY <1>4, <2>1, <3>3, SMTT(30)
         DEF FrameOK, Return, AtNmiVmcall, InNmiHandler, guest_nmi_handler, AtIretq
    <3>5. Pc(machine') = Pc(machine) /\ MainRax(machine') = MainRax(machine)
      BY <2>1, <3>3 DEF Pc, Return, MainRax, InNmiHandler, guest_nmi_handler, AtIretq
    <3>6. MainOK(machine', before, state.main_vmcalls)
      <4>1. SameMain(machine, machine')
        BY <3>3, <3>5 DEF SameMain
      <4> QED
        BY Zenon, <1>4, <4>1, SameMainOK
    <3>7. NmiAccounting'
      <4>1. /\ machine.rip \in guest_nmi_handler..AtNmiVmcall
            /\ machine'.rip \notin guest_nmi_handler..AtNmiVmcall
        BY <2>1, <3>3, SMTT(30) DEF guest_nmi_handler, AtNmiVmcall
      <4> QED
        BY <1>7, <1>9, <1>10, <1>12, <1>16, <4>1, SMTT(30) DEF NmiAccounting
    <3> QED
      BY <1>2, <1>8, <1>11, <1>16, <2>3, <2>4, <3>2, <3>4, <3>6, <3>7, SMTT(30) DEF RunInv
  <2>6. CASE mode' = "stopped"
    <3>1. machine' = machine
      BY <2>2, <2>6, SMTT(30)
    <3>2. NmiAccounting'
      BY <2>6 DEF NmiAccounting
    <3> QED
      BY <1>2, <1>4, <1>11, <1>16, <2>3, <2>6, <3>1, <3>2, SMTT(30) DEF RunInv
  <2> QED
    BY <1>1, <2>5, <2>6
<1>17. CASE e = "LastMainVmcall"
  <2>1. machine.rip = 27 /\ machine.rip \in MainLabels /\ ~nmi_line' /\ ~state.nmi_pending
    BY <1>6, <1>17 DEF Matches, MainLabels
  <2>2. /\ Len(machine.stack) = 0
        /\ AtPc(machine.rip, machine.rax, machine, before, state.main_vmcalls)
    BY Zenon, <1>4, <2>1, MainMachine
  <2>3. mode' = "stopped" /\ machine' = machine
    BY <1>6, <1>17 DEF GuestEffect
  <2>4. machine.rip \notin guest_nmi_handler..AtNmiVmcall
    BY <2>1 DEF guest_nmi_handler, AtNmiVmcall
  <2>5. state'.nmi_pending = FALSE
    <3>1. state'.nmi_pending = state.nmi_pending
      BY <1>4, <1>6, <1>17, OutcomePending, Zenon
    <3>2. state.nmi_pending \in BOOLEAN
      BY ZenonT(60), <1>4 DEF ExitState
    <3> QED
      BY Zenon, <2>1, <3>1, <3>2
  <2>6. before = [msr |-> machine.msr, port |-> machine.port]
    BY <1>4, <2>1, <2>2, SMTT(30) DEF AtPc, Before
  <2>7. machine.stack = <<>> /\ machine.data = GUEST_EPT_VALUE
    <3>1. machine.stack \in Seq(Int)
      BY <1>4, FieldTypes, SMTT(30)
    <3> QED
      BY <2>1, <2>2, <3>1, SMTT(30) DEF AtPc
  <2>8. FinishedClean'
    BY <1>2, <1>7, <1>9, <1>10, <1>17, <2>1, <2>3, <2>4, <2>5, <2>6, <2>7, SMTT(30) DEF FinishedClean
  <2>9. EntryOK' /\ NmiAccounting'
    BY <1>12, <1>17, <2>3 DEF NmiAccounting
  <2> QED
    BY <1>2, <1>4, <2>3, <2>8, <2>9 DEF RunInv
<1> QED
  <2>1. \/ e \in {"Emulated", "MainVmcall", "GuestNmiHandler", "LastMainVmcall"}
        \/ /\ machine' = machine
           /\ e \notin {"MainVmcall", "LastMainVmcall", "GuestNmiHandler"}
    BY <1>6 DEF Outcome, GuestEffect, StopEvents
  <2> QED
    BY <2>1, <1>13, <1>14, <1>15, <1>16, <1>17, SMTT(30)

-----------------------------------------------------------------------------
(* The exits of this guest, and what decide answers to them.               *)

(* What the handler reads about this guest's exits.                        *)
LEMMA ExitInfoType ==
  ASSUME RunTypeOK, NEW basic \in Reasons
  PROVE  /\ exit_info(basic) \in ExitInfo
         /\ \A i \in {"NMI", "exception", "none"} :
              [exit_info(basic) EXCEPT !.interruption_info = i] \in ExitInfo
         /\ \A bits \in SUBSET EptBits, p \in Nat :
              [exit_info(basic) EXCEPT !.ept = bits, !.guest_page = p] \in ExitInfo
<1>1. machine.rax \in Int /\ machine.rcx \in Int /\ machine.rdx \in Int
  BY FieldTypes DEF RunTypeOK
<1>2. ProtectedPage \in Nat /\ 0 \in Nat /\ dx \in Nat
  BY <1>1, GuestAssumption DEF dx
<1>3. (IF vnmi THEN {"NMI"} ELSE {}) \in SUBSET InterruptibilityBits
  BY DEF InterruptibilityBits
<1>4. io_info \in IoQualification
  <2>1. ASSUME NEW in \in BOOLEAN
        PROVE  [size |-> "Byte", is_in |-> in, is_string |-> FALSE, is_rep |-> FALSE,
                port |-> dx] \in IoQualification
    BY Zenon, <1>2 DEF IoQualification
  <2>2. (machine.rip \in AtIn) \in BOOLEAN
    BY SMT
  <2> QED
    BY Zenon, <2>1, <2>2 DEF io_info
<1>5. exit_info(basic) \in ExitInfo
  BY Zenon, <1>1, <1>2, <1>3, <1>4 DEF exit_info, ExitInfo
<1>6. ASSUME NEW i \in {"NMI", "exception", "none"}
      PROVE  [exit_info(basic) EXCEPT !.interruption_info = i] \in ExitInfo
  BY Zenon, <1>5 DEF ExitInfo
<1>7. ASSUME NEW bits \in SUBSET EptBits, NEW p \in Nat
      PROVE  [exit_info(basic) EXCEPT !.ept = bits, !.guest_page = p] \in ExitInfo
  BY Zenon, <1>5 DEF ExitInfo
<1> QED
  BY <1>5, <1>6, <1>7, Zenon

(* Field by field.                                                         *)
LEMMA ExitInfoFields ==
  ASSUME NEW basic, NEW x, x = exit_info(basic)
  PROVE  /\ x.basic = basic /\ ~x.entry_failure /\ ~x.idt_vectoring_valid
         /\ x.rax = machine.rax /\ x.rcx = machine.rcx /\ x.rdx = machine.rdx
         /\ x.io.size = "Byte" /\ ~x.io.is_string /\ ~x.io.is_rep /\ x.io.port = dx
         /\ x.io.is_in <=> machine.rip \in AtIn
         /\ x.interruption_info = "none"
  BY Zenon DEF exit_info, io_info

(* CPUID, RDMSR, WRMSR, IN and OUT are executed as the guest meant them.   *)
LEMMA EmulatedMatches ==
  ASSUME RunTypeOK, NEW x, NEW j, j = decide(state, x),
         \/ machine.rip = AtCpuid /\ x = exit_info("cpuid")
         \/ machine.rip \in AtRdmsr /\ x = exit_info("rdmsr")
         \/ machine.rip \in AtWrmsr /\ x = exit_info("wrmsr")
         \/ machine.rip \in AtIn \cup AtOut /\ x = exit_info("io")
  PROVE  Matches(j.event, j.emulation)
<1>1. CASE machine.rip = AtCpuid /\ x = exit_info("cpuid")
  <2>1. j = cpuid(state, x) /\ x.rax = machine.rax
    <3>1. x.basic = "cpuid" /\ ~x.entry_failure /\ ~x.idt_vectoring_valid /\ x.rax = machine.rax
      BY <1>1, ExitInfoFields
    <3> QED
      BY <3>1 DEF decide
  <2>2. j.event = "Emulated" /\ j.emulation.op = "Cpuid" /\ j.emulation.leaf = machine.rax
    BY <2>1 DEF cpuid, counted
  <2>3. PICK g : g = cpuid_policy(machine.rax, CpuidRaw)
    OBVIOUS
  <2>4. execute(j.emulation, machine)
          = [machine EXCEPT !.rax = g.eax, !.rbx = g.ebx, !.rcx = g.ecx, !.rdx = g.edx]
    BY <2>2, <2>3 DEF execute
  <2>5. Executed(machine)
          = [machine EXCEPT !.rax = g.eax, !.rbx = g.ebx, !.rcx = g.ecx, !.rdx = g.edx]
    BY <1>1, <2>3 DEF Executed, AtCpuid, AtRdmsr, AtWrmsr, AtIn, AtOut
  <2> QED
    BY <1>1, <2>2, <2>4, <2>5 DEF Matches, Emulated
<1>2. CASE machine.rip \in AtRdmsr /\ x = exit_info("rdmsr")
  <2>1. j = rdmsr(state, x)
    <3>1. x.basic = "rdmsr" /\ ~x.entry_failure /\ ~x.idt_vectoring_valid
      BY <1>2, ExitInfoFields
    <3> QED
      BY <3>1 DEF decide
  <2>2. \/ j.event = "Emulated" /\ j.emulation.op = "Rdmsr"
        \/ j.event \in {"GuestGeneralProtection", "Unexpected"}
    BY <2>1 DEF rdmsr, counted, Judged
  <2>3. j.event = "Emulated" => execute(j.emulation, machine) = Executed(machine)
    BY <1>2, <2>2 DEF execute, Executed, AtCpuid, AtRdmsr, AtWrmsr, AtIn, AtOut
  <2> QED
    BY <1>2, <2>2, <2>3 DEF Matches, Emulated
<1>3. CASE machine.rip \in AtWrmsr /\ x = exit_info("wrmsr")
  <2>1. j = wrmsr(state, x) /\ x.rax = machine.rax /\ x.rdx = machine.rdx
    <3>1. /\ x.basic = "wrmsr" /\ ~x.entry_failure /\ ~x.idt_vectoring_valid
          /\ x.rax = machine.rax /\ x.rdx = machine.rdx
      BY <1>3, ExitInfoFields
    <3> QED
      BY <3>1 DEF decide
  <2>2. \/ /\ j.event = "Emulated" /\ j.emulation.op = "Wrmsr"
           /\ j.emulation.value = <<machine.rdx, machine.rax>>
        \/ j.event \in {"GuestGeneralProtection", "Unexpected"}
    BY <2>1 DEF wrmsr, counted, Judged
  <2>3. j.event = "Emulated" => execute(j.emulation, machine) = Executed(machine)
    BY <1>3, <2>2 DEF execute, Executed, AtCpuid, AtRdmsr, AtWrmsr, AtIn, AtOut
  <2> QED
    BY <1>3, <2>2, <2>3 DEF Matches, Emulated
<1>4. CASE machine.rip \in AtIn \cup AtOut /\ x = exit_info("io")
  <2>1. /\ x.basic = "io" /\ ~x.entry_failure /\ ~x.idt_vectoring_valid
        /\ x.rax = machine.rax /\ x.io.size = "Byte" /\ ~x.io.is_string /\ ~x.io.is_rep
        /\ x.io.is_in <=> machine.rip \in AtIn
    BY <1>4, ExitInfoFields
  <2>2. j = io(state, x)
    BY <2>1 DEF decide
  <2>3. CASE machine.rip \in AtIn
    <3>1. j.event = "Emulated" /\ j.emulation.op = "In" /\ j.emulation.size = "Byte"
      BY <2>1, <2>2, <2>3 DEF io, counted
    <3>2. execute(j.emulation, machine) = Executed(machine)
      BY <2>3, <3>1, SMTT(30) DEF execute, Executed, AtCpuid, AtRdmsr, AtWrmsr, AtIn, AtOut
    <3> QED
      BY <2>3, <3>1, <3>2 DEF Matches, Emulated
  <2>4. CASE machine.rip \in AtOut
    <3>1. machine.rip \notin AtIn
      BY <2>4 DEF AtIn, AtOut
    <3>2. /\ j.event = "Emulated" /\ j.emulation.op = "Out"
          /\ j.emulation.value = out_value(machine.rax, "Byte")
      BY <2>1, <2>2, <3>1, SMTT(30) DEF io, counted
    <3>3. out_value(machine.rax, "Byte") % 256 = machine.rax % 256
      BY FieldTypes DEF RunTypeOK, out_value, Modulus
    <3>4. execute(j.emulation, machine) = Executed(machine)
      BY <2>4, <3>2, <3>3 DEF execute, Executed, AtCpuid, AtRdmsr, AtWrmsr, AtIn, AtOut
    <3> QED
      BY <2>4, <3>2, <3>4 DEF Matches, Emulated
  <2> QED
    BY <1>4, <2>3, <2>4, SMTT(30)
<1> QED
  BY <1>1, <1>2, <1>3, <1>4

(* VMCALLs: the marker in RAX tells the NMI handler's from the main        *)
(* program's, and only the second of those ends the run.                   *)
LEMMA VmcallMatches ==
  ASSUME RunInv, mode = "guest", CanExecute, nmi_line' = nmi_line, NEW j,
         j = decide(state, exit_info("vmcall")),
         machine.rip \in AtMainVmcall \cup {AtNmiVmcall}
  PROVE  Matches(j.event, j.emulation)
<1>1. /\ FrameOK(machine) /\ MainOK(machine, before, state.main_vmcalls)
      /\ state.main_vmcalls \in Nat /\ state.main_vmcalls < 2
      /\ vnmi <=> machine.rip \in InNmiHandler
      /\ nmi_window_on <=> state.nmi_pending
  BY DEF RunInv, IInv, TypeOK, ExitState, Progress, WindowTracksPending, PLANNED_MAIN_VMCALLS
<1>2. PICK x : x = exit_info("vmcall")
  OBVIOUS
<1>3. j = vmcall(state, x) /\ x.rax = machine.rax
  BY <1>2, ExitInfoFields DEF decide
<1>4. CASE machine.rip = 30
  <2>1. machine.rax = GUEST_NMI_MARKER
    BY <1>1, <1>4 DEF FrameOK, AtNmiVmcall
  <2>2. j.event = "GuestNmiHandler"
    BY <1>3, <2>1 DEF vmcall, Judged
  <2> QED
    BY <1>4, <2>2 DEF Matches, AtNmiVmcall
<1>5. CASE machine.rip \in {22, 27}
  <2>1. AtPc(machine.rip, machine.rax, machine, before, state.main_vmcalls)
    <3>1. machine.rip \in MainLabels
      BY <1>5, SMTT(30) DEF MainLabels
    <3> QED
      BY Zenon, <1>1, <3>1, MainMachine
  <2>2. /\ machine.rip = 22 => machine.rax = GUEST_MARKER
        /\ machine.rip = 27 => machine.rax = GUEST_MARKER + 1 /\ state.main_vmcalls = 1
    BY <1>1, <2>1, SMTT(30) DEF AtPc
  <2>3. machine.rax # GUEST_NMI_MARKER
    BY <1>5, <2>2, Markers
  <2>4. machine.rip = 22 /\ state.main_vmcalls = 1 => machine.rax # expected_main_rax(state)
    BY <2>2, Markers DEF expected_main_rax
  <2>5. PICK next : next = [state EXCEPT !.main_vmcalls = @ + 1]
    BY Zenon
  <2>6. next.main_vmcalls = state.main_vmcalls + 1
    BY <2>5 DEF RunInv, IInv, TypeOK, ExitState
  <2>7. /\ j.event \in StopEvents \cup {"MainVmcall", "LastMainVmcall"}
        /\ machine.rax # expected_main_rax(state) => j.event = "Unexpected"
        /\ j.event = "MainVmcall" => next.main_vmcalls < PLANNED_MAIN_VMCALLS
        /\ j.event = "LastMainVmcall" => ~(next.main_vmcalls < PLANNED_MAIN_VMCALLS)
    BY <1>3, <2>3, <2>5 DEF vmcall, Judged, StopEvents
  <2>8. /\ j.event = "MainVmcall" => machine.rip = 22
        /\ j.event = "LastMainVmcall" => machine.rip = 27
    BY <1>1, <1>5, <2>2, <2>4, <2>6, <2>7 DEF PLANNED_MAIN_VMCALLS
  <2>9. ~nmi_line' /\ ~state.nmi_pending
    <3>1. ~vnmi
      BY <1>1, <1>5 DEF InNmiHandler, guest_nmi_handler, AtIretq
    <3> QED
      BY <1>1, <3>1 DEF CanExecute, WindowOpen
  <2> QED
    BY <2>7, <2>8, <2>9 DEF Matches, StopEvents
<1> QED
  BY <1>4, <1>5 DEF AtMainVmcall, AtNmiVmcall

(* NMI exits, NMI-window exits, EPT violations and UD2 match too.          *)
LEMMA OtherMatches ==
  ASSUME NEW x, NEW j, j = decide(state, x),
         \/ x = [exit_info("ept_violation") EXCEPT
                   !.ept = {"WRITE", "READABLE", "LINEAR_VALID", "TRANSLATED"},
                   !.guest_page = ProtectedPage]
         \/ x = [exit_info("exception_or_nmi") EXCEPT !.interruption_info = "exception"]
         \/ x = [exit_info("exception_or_nmi") EXCEPT !.interruption_info = "NMI"]
         \/ x = exit_info("nmi_window") /\ ~vnmi
  PROVE  Matches(j.event, j.emulation)
<1>1. CASE x = [exit_info("ept_violation") EXCEPT
                  !.ept = {"WRITE", "READABLE", "LINEAR_VALID", "TRANSLATED"},
                  !.guest_page = ProtectedPage]
  <2>1. x.basic = "ept_violation" /\ ~x.entry_failure /\ ~x.idt_vectoring_valid
    BY <1>1 DEF exit_info
  <2>2. j = ept_violation(state, x)
    BY <2>1 DEF decide
  <2>3. j.event \in {"EptWriteGranted", "Unexpected"}
    BY <2>2 DEF ept_violation, Judged
  <2> QED
    BY <2>3 DEF Matches
<1>2. ASSUME NEW i, x = [exit_info("exception_or_nmi") EXCEPT !.interruption_info = i]
      PROVE  Matches(j.event, j.emulation)
  <2>1. /\ x.basic = "exception_or_nmi" /\ ~x.entry_failure /\ ~x.idt_vectoring_valid
        /\ x.interruptibility = IF vnmi THEN {"NMI"} ELSE {}
    BY <1>2 DEF exit_info
  <2>2. j = exception_or_nmi(state, x)
    BY <2>1 DEF decide
  <2>3. j.event \in {"NmiInjected", "NmiDeferred", "Unexpected"}
    BY <2>2 DEF exception_or_nmi, Judged
  <2>4. j.event = "NmiInjected" => ~vnmi
    BY <2>1, <2>2 DEF exception_or_nmi, Judged, NMI_INJECTION_BLOCKED
  <2> QED
    BY <2>3, <2>4 DEF Matches
<1>3. CASE x = exit_info("nmi_window") /\ ~vnmi
  <2>1. x.basic = "nmi_window" /\ ~x.entry_failure /\ ~x.idt_vectoring_valid
    BY <1>3, ExitInfoFields
  <2>2. j = nmi_window(state, x)
    BY <2>1 DEF decide
  <2>3. j.event \in {"NmiWindowInjected", "NmiDeferred", "Unexpected"}
    BY <2>2 DEF nmi_window, Judged
  <2> QED
    BY <1>3, <2>3 DEF Matches
<1> QED
  BY <1>1, <1>2, <1>3

\* The CPU takes the waiting NMI, sees the NMI window open, or executes.
Leaves(x) ==
  \/ nmi_line /\ ~nmi_line' /\ x.basic = "exception_or_nmi"
  \/ nmi_line' = nmi_line /\ x.basic = "nmi_window"
  \/ /\ nmi_line' = nmi_line /\ CanExecute
     /\ x.basic # "nmi_window" /\ x.interruption_info # "NMI"

\* The exits of the guest where it is.
ExitOf(x) ==
  \/ machine.rip = AtCpuid /\ x = exit_info("cpuid")
  \/ machine.rip \in AtRdmsr /\ x = exit_info("rdmsr")
  \/ machine.rip \in AtWrmsr /\ x = exit_info("wrmsr")
  \/ machine.rip \in AtIn \cup AtOut /\ x = exit_info("io")
  \/ machine.rip \in AtMainVmcall \cup {AtNmiVmcall} /\ x = exit_info("vmcall")
  \/ /\ machine.rip = AtDataWrite /\ Cached = "ro"
     /\ x = [exit_info("ept_violation") EXCEPT
               !.ept = {"WRITE", "READABLE", "LINEAR_VALID", "TRANSLATED"},
               !.guest_page = ProtectedPage]
  \/ /\ machine.rip \in AtUd2
     /\ x = [exit_info("exception_or_nmi") EXCEPT !.interruption_info = "exception"]
  \/ x = [exit_info("exception_or_nmi") EXCEPT !.interruption_info = "NMI"]
  \/ x = exit_info("nmi_window") /\ WindowOpen

\* The guest leaves with this exit.
GuestExits(x) ==
  /\ mode = "guest" /\ x \in ExitInfo /\ ExitOf(x) /\ Exit(x) /\ Leaves(x) /\ nmi_line' \in BOOLEAN
  /\ Matches(decide(state, x).event, decide(state, x).emulation)

(* Every exit of the guest is one of a matching answer.                    *)
LEMMA ExitsMatch ==
  ASSUME RunInv,
         \/ EptViolation
         \/ InstructionExit({AtCpuid}, "cpuid")
         \/ InstructionExit(AtRdmsr, "rdmsr")
         \/ InstructionExit(AtWrmsr, "wrmsr")
         \/ InstructionExit(AtIn \cup AtOut, "io")
         \/ InstructionExit(AtMainVmcall \cup {AtNmiVmcall}, "vmcall")
         \/ Ud2Exit \/ NmiExit \/ NmiWindowExit
  PROVE  \E x : GuestExits(x)
<1>1. RunTypeOK /\ nmi_line \in BOOLEAN
  BY DEF RunInv, RunTypeOK
<1>2. CASE EptViolation
  <2>1. PICK bits, x : /\ bits = {"WRITE", "READABLE", "LINEAR_VALID", "TRANSLATED"}
                       /\ x = [exit_info("ept_violation") EXCEPT
                                 !.ept = bits, !.guest_page = ProtectedPage]
    BY Zenon
  <2>2. Exit(x) /\ CanExecute /\ mode = "guest" /\ nmi_line' = nmi_line
    BY <1>2, <2>1 DEF EptViolation, CanExecute
  <2>3. x \in ExitInfo
    <3>1. bits \in SUBSET EptBits
      BY <2>1 DEF EptBits
    <3>2. "ept_violation" \in Reasons /\ ProtectedPage \in Nat
      BY GuestAssumption DEF Reasons
    <3> QED
      BY Zenon, <1>1, <2>1, <3>1, <3>2, ExitInfoType
  <2>4. Matches(decide(state, x).event, decide(state, x).emulation)
    BY <2>1, OtherMatches
  <2>5. x.basic = "ept_violation" /\ x.interruption_info = "none"
    BY <2>1 DEF exit_info
  <2>6. ExitOf(x)
    BY <1>2, <2>1, Zenon DEF ExitOf, EptViolation
  <2> QED
    BY <1>1, <2>2, <2>3, <2>4, <2>5, <2>6 DEF GuestExits, Leaves
<1>3. ASSUME NEW labels, NEW basic \in Reasons, InstructionExit(labels, basic)
      PROVE  /\ mode = "guest" /\ CanExecute /\ machine.rip \in labels
             /\ nmi_line' = nmi_line /\ nmi_line' \in BOOLEAN
             /\ Exit(exit_info(basic)) /\ exit_info(basic) \in ExitInfo
  BY <1>1, <1>3, ExitInfoType, Zenon DEF InstructionExit, CanExecute
<1>4. ASSUME NEW labels, NEW basic, InstructionExit(labels, basic),
             <<labels, basic>> \in {<<{AtCpuid}, "cpuid">>, <<AtRdmsr, "rdmsr">>,
                                    <<AtWrmsr, "wrmsr">>, <<AtIn \cup AtOut, "io">>}
      PROVE  \E x : GuestExits(x)
  <2>1. basic \in Reasons
    BY <1>4 DEF Reasons
  <2>2. PICK x : x = exit_info(basic)
    OBVIOUS
  <2>3. /\ mode = "guest" /\ CanExecute /\ machine.rip \in labels
        /\ nmi_line' = nmi_line /\ nmi_line' \in BOOLEAN /\ Exit(x) /\ x \in ExitInfo
    BY <1>3, <1>4, <2>1, <2>2, SMTT(30)
  <2>4. Matches(decide(state, x).event, decide(state, x).emulation)
    BY <1>1, <1>4, <2>2, <2>3, EmulatedMatches, SMTT(30)
  <2>5. x.basic # "nmi_window" /\ x.interruption_info # "NMI"
    BY <1>4, <2>2, ExitInfoFields
  <2>6. ExitOf(x)
    BY <1>4, <2>2, <2>3 DEF ExitOf
  <2> QED
    BY <2>3, <2>4, <2>5, <2>6 DEF GuestExits, Leaves
<1>5. CASE InstructionExit(AtMainVmcall \cup {AtNmiVmcall}, "vmcall")
  <2>1. "vmcall" \in Reasons
    BY DEF Reasons
  <2>2. PICK x : x = exit_info("vmcall")
    OBVIOUS
  <2>3. /\ mode = "guest" /\ CanExecute /\ nmi_line' = nmi_line
        /\ machine.rip \in AtMainVmcall \cup {AtNmiVmcall}
        /\ nmi_line' \in BOOLEAN /\ Exit(x) /\ x \in ExitInfo
    BY <1>3, <1>5, <2>1, <2>2
  <2>4. Matches(decide(state, x).event, decide(state, x).emulation)
    BY <2>2, <2>3, VmcallMatches
  <2>5. x.basic # "nmi_window" /\ x.interruption_info # "NMI"
    BY <2>2, ExitInfoFields
  <2>6. ExitOf(x)
    BY <2>2, <2>3, Zenon DEF ExitOf
  <2> QED
    BY <2>3, <2>4, <2>5, <2>6 DEF GuestExits, Leaves
<1>6. CASE Ud2Exit \/ NmiExit
  <2>1. PICK i \in {"exception", "NMI"} :
          /\ Exit([exit_info("exception_or_nmi") EXCEPT !.interruption_info = i])
          /\ mode = "guest" /\ nmi_line' \in BOOLEAN
          /\ i = "NMI" => nmi_line /\ ~nmi_line'
          /\ i = "exception" => /\ CanExecute /\ nmi_line' = nmi_line
                                /\ machine.rip \in AtUd2
    BY <1>1, <1>6, Zenon DEF Ud2Exit, NmiExit, CanExecute
  <2>2. PICK x : x = [exit_info("exception_or_nmi") EXCEPT !.interruption_info = i]
    BY Zenon
  <2>3. x \in ExitInfo
    BY <1>1, <2>2, ExitInfoType, Zenon DEF Reasons
  <2>4. Matches(decide(state, x).event, decide(state, x).emulation)
    BY <2>1, <2>2, OtherMatches
  <2>5. x.basic = "exception_or_nmi" /\ x.interruption_info = i
    BY <2>2 DEF exit_info
  <2>6. ExitOf(x)
    BY <2>1, <2>2, Zenon DEF ExitOf
  <2> QED
    BY <2>1, <2>2, <2>3, <2>4, <2>5, <2>6, Zenon DEF GuestExits, Leaves
<1>7. CASE NmiWindowExit
  <2>1. PICK x : x = exit_info("nmi_window")
    OBVIOUS
  <2>2. x \in ExitInfo
    BY <1>1, <2>1, ExitInfoType, Zenon DEF Reasons
  <2>3. mode = "guest" /\ ~vnmi /\ Exit(x) /\ nmi_line' = nmi_line
    BY <1>7, <2>1 DEF NmiWindowExit, WindowOpen
  <2>4. Matches(decide(state, x).event, decide(state, x).emulation)
    BY <2>1, <2>3, OtherMatches
  <2>5. x.basic = "nmi_window"
    BY <2>1, ExitInfoFields
  <2>6. ExitOf(x)
    BY <1>7, <2>1, Zenon DEF ExitOf, NmiWindowExit
  <2> QED
    BY <1>1, <2>2, <2>3, <2>4, <2>5, <2>6 DEF GuestExits, Leaves
<1> QED
  BY <1>2, <1>4, <1>5, <1>6, <1>7

-----------------------------------------------------------------------------
(* The state at VMLAUNCH satisfies the invariant.                          *)
LEMMA RunInitInv == RunInit => RunInv
<1> SUFFICES ASSUME RunInit PROVE RunInv
  OBVIOUS
<1>1. IInv /\ mode = "entering" /\ entry_info = "none" /\ stop = NoStop /\ state = InitState
  BY InitInv DEF RunInit, Init
<1>2. PICK msr \in Msrs, port \in Ports, scratch \in BOOLEAN :
        machine = GuestStart(msr, port, scratch) /\ before = [msr |-> msr, port |-> port]
  BY DEF RunInit
<1>3. /\ machine.rip = 0 /\ machine.stack = <<>> /\ machine.msr = msr
      /\ machine.port = port
  BY <1>2 DEF GuestStart
<1>4. machine \in Machine
  <2>1. /\ 0 \in 0..34 /\ 3 \in Int /\ 1 \in Int /\ 2 \in Int /\ 4 \in Int /\ 5 \in Int
        /\ 6 \in Int /\ <<>> \in Seq(Int) /\ GUEST_DATA_SEED \in Int
        /\ msr \in Int \X Int /\ port \in 0..255
    BY GuestAssumption DEF GUEST_DATA_SEED
  <2> QED
    BY Zenon, <1>2, <2>1 DEF GuestStart, Machine
<1>5. RunTypeOK
  <2>1. before \in [msr : Msrs, port : Ports]
    BY Zenon, <1>2
  <2>2. arrivals \in 0..MaxNmis
    BY GuestAssumption DEF RunInit
  <2>3. /\ TypeOK /\ tlb \in {"none", "ro", "rw"}
        /\ nmi_line \in BOOLEAN /\ vnmi \in BOOLEAN /\ faulted \in BOOLEAN
    BY Zenon, <1>1 DEF RunInit, IInv
  <2> QED
    BY Zenon, <1>4, <2>1, <2>2, <2>3 DEF RunTypeOK
<1>6. machine.rip \in MainLabels /\ Len(machine.stack) = 0
  BY <1>3, SMTT(30) DEF MainLabels
<1>7. /\ AtPc(machine.rip, machine.rax, machine, before, state.main_vmcalls)
      /\ OnPlan(machine.rip, machine.rax, machine, before)
  BY <1>2, <1>3 DEF AtPc, OnPlan, GuestStart
<1>8. /\ FrameOK(machine) /\ machine.rip \notin InNmiHandler
      /\ MainOK(machine, before, state.main_vmcalls)
  BY Zenon, <1>6, <1>7, MainMachine
<1>9. EntryOK /\ FinishedClean
  BY <1>1 DEF EntryOK, FinishedClean, NoStop
<1>10. NmiAccounting
  BY <1>1, <1>3 DEF NmiAccounting, InitState, guest_nmi_handler, AtNmiVmcall
<1>11. ~vnmi
  BY DEF RunInit
<1> QED
  BY <1>1, <1>5, <1>8, <1>9, <1>10, <1>11 DEF RunInv

(* Instructions that do not exit keep the invariant.                       *)
LEMMA StraightKeepsRun ==
  ASSUME RunInv, RunStraight \/ WriteData
  PROVE  RunInv'
<1>1. /\ mode = "guest" /\ UNCHANGED handlerVars /\ machine' = straight(machine)
      /\ nmi_line' = nmi_line /\ arrivals' = arrivals /\ before' = before
      /\ faulted' = faulted /\ machine.rip \notin Exiting
  BY DEF RunStraight, WriteData, CanExecute, AtDataWrite, Exiting, Emulated, AtCpuid,
         AtRdmsr, AtWrmsr, AtIn, AtOut, AtMainVmcall, AtNmiVmcall, AtUd2
<1>2. vnmi' = (vnmi /\ machine.rip # AtIretq) /\ tlb' \in {"none", "ro", "rw"}
  BY DEF RunStraight, WriteData, Cached, RunInv, RunTypeOK, AtIretq, AtDataWrite
<1>3. IInv' /\ mode' = mode /\ entry_info' = entry_info /\ state' = state /\ stop' = stop
  BY <1>1, OtherStepsInv DEF RunInv, handlerVars
<1>4. EntryOK' /\ FinishedClean'
  <2>1. stop.kind # "Finished"
    BY <1>1 DEF RunInv, IInv, Progress, NoStop
  <2>2. EntryOK'
    BY <1>1, <1>3 DEF RunInv, EntryOK
  <2> QED
    BY Zenon, <1>3, <2>1, <2>2 DEF FinishedClean
<1>5. /\ machine \in Machine /\ FrameOK(machine) /\ (vnmi <=> machine.rip \in InNmiHandler)
      /\ MainOK(machine, before, state.main_vmcalls) /\ before \in Before
  BY ZenonT(30), <1>1, GuestAssumption DEF RunInv, RunTypeOK, Before
<1>6. machine' \in Machine => RunTypeOK'
  BY <1>1, <1>2, <1>3 DEF RunInv, IInv, RunTypeOK
<1>7. entry_info = "none" /\ NmiAccounting
  BY <1>1 DEF RunInv, EntryOK
<1>8. machine.rip \in 0..34
  BY <1>5, FieldTypes
<1>9. CASE machine.rip \in {29, 31, 32}
  <2>1. /\ machine' \in Machine /\ FrameOK(machine') /\ SameMain(machine, machine')
        /\ machine.rip = 29 => machine'.rip = 30
        /\ machine.rip = 31 => machine'.rip = 32
        /\ machine.rip = 32 => machine'.rip \in MainLabels
    BY Zenon, <1>1, <1>5, <1>9, HandlerStep
  <2>2. MainOK(machine', before, state.main_vmcalls)
    BY Zenon, <1>5, <2>1, SameMainOK
  <2>3. vnmi' <=> machine'.rip \in InNmiHandler
    <3>1. vnmi /\ (machine'.rip \in InNmiHandler <=> machine.rip # AtIretq)
      BY <1>5, <1>9, <2>1 DEF MainLabels, InNmiHandler, guest_nmi_handler, AtIretq
    <3> QED
      BY Zenon, <1>2, <3>1
  <2>4. NmiAccounting'
    BY <1>1, <1>3, <1>7, <1>9, <2>1
       DEF NmiAccounting, MainLabels, guest_nmi_handler, AtNmiVmcall
  <2> QED
    BY <1>1, <1>3, <1>4, <1>6, <2>1, <2>2, <2>3, <2>4 DEF RunInv
<1>10. CASE machine.rip \in MainLabels
  <2>1. /\ machine.rip \notin InNmiHandler /\ Len(machine.stack) = 0
        /\ AtPc(machine.rip, machine.rax, machine, before, state.main_vmcalls)
        /\ OnPlan(machine.rip, machine.rax, machine, before)
    BY Zenon, <1>5, <1>10, MainMachine
  <2>2. MainGoes(machine, machine', before, state.main_vmcalls)
    BY Zenon, <1>1, <1>5, <1>10, <2>1, MainStep
  <2>3. /\ machine' \in Machine /\ machine'.rip \in MainLabels /\ Len(machine'.stack) = 0
        /\ AtPc(machine'.rip, machine'.rax, machine', before, state.main_vmcalls)
        /\ OnPlan(machine'.rip, machine'.rax, machine', before)
    BY <2>1, <2>2 DEF MainGoes
  <2>4. /\ FrameOK(machine') /\ machine'.rip \notin InNmiHandler
        /\ MainOK(machine', before, state.main_vmcalls)
    BY Zenon, <2>3, MainMachine
  <2>5. NmiAccounting'
    BY <1>1, <1>3, <1>7, <2>1, <2>4
       DEF NmiAccounting, InNmiHandler, guest_nmi_handler, AtNmiVmcall, AtIretq
  <2> QED
    BY <1>1, <1>2, <1>3, <1>4, <1>5, <1>6, <2>1, <2>3, <2>4, <2>5, Zenon DEF RunInv
<1> QED
  <2>1. machine.rip \in MainLabels \cup {29, 31, 32}
    BY <1>1, <1>8 DEF MainLabels, Exiting, AtNmiVmcall
  <2> QED
    BY <1>9, <1>10, <2>1

(* A VM entry, with or without an NMI to deliver, keeps the invariant.     *)
LEMMA EntryKeepsRun ==
  ASSUME RunInv, EnterGuest
  PROVE  RunInv'
<1>1. /\ vm_entry /\ mode = "entering" /\ mode' = "guest" /\ entry_info' = "none"
      /\ state' = state /\ stop' = stop
      /\ tlb' = tlb /\ nmi_line' = nmi_line /\ arrivals' = arrivals /\ before' = before
      /\ faulted' = faulted
  BY DEF EnterGuest, vm_entry
<1>2. IInv' /\ EntryOK' /\ FinishedClean'
  <2>1. stop.kind # "Finished"
    BY <1>1 DEF RunInv, IInv, Progress, NoStop
  <2>2. IInv'
    BY <1>1, OtherStepsInv DEF RunInv
  <2> QED
    BY <1>1, <2>1, <2>2 DEF EntryOK, FinishedClean
<1>3. /\ machine \in Machine /\ FrameOK(machine) /\ (vnmi <=> machine.rip \in InNmiHandler)
      /\ MainOK(machine, before, state.main_vmcalls) /\ vnmi \in BOOLEAN
  BY <1>1 DEF RunInv, RunTypeOK
<1>4. vnmi' \in BOOLEAN /\ (machine' \in Machine => RunTypeOK')
  BY <1>1, <1>2, <1>3 DEF EnterGuest, RunInv, IInv, RunTypeOK
<1>5. CASE entry_info = "none"
  <2>1. machine' = machine /\ (vnmi' <=> vnmi)
    BY <1>5, Zenon DEF EnterGuest
  <2>2. NmiAccounting'
    BY <1>1, <1>5, <2>1 DEF RunInv, NmiAccounting
  <2> QED
    BY <1>1, <1>2, <1>3, <1>4, <2>1, <2>2 DEF RunInv
<1>6. CASE entry_info = "NMI" /\ ~vnmi
  <2>1. machine' = deliver_nmi(machine) /\ vnmi'
    BY <1>6, Zenon DEF EnterGuest
  <2>2. /\ machine' \in Machine /\ FrameOK(machine') /\ SameMain(machine, machine')
        /\ machine'.rip = guest_nmi_handler
    BY Zenon, <1>3, <1>6, <2>1, DeliverStep
  <2>3. MainOK(machine', before, state.main_vmcalls)
    BY Zenon, <1>3, <2>2, SameMainOK
  <2>4. machine'.rip \in InNmiHandler /\ machine'.rip \in guest_nmi_handler..AtNmiVmcall
    BY <2>2 DEF InNmiHandler, guest_nmi_handler, AtNmiVmcall, AtIretq
  <2>5. NmiAccounting'
    BY <1>1, <1>6, <2>4 DEF RunInv, NmiAccounting
  <2> QED
    BY <1>1, <1>2, <1>4, <2>1, <2>2, <2>3, <2>4, <2>5 DEF RunInv
<1> QED
  BY <1>5, <1>6 DEF EnterGuest

(* So do the steps that leave the machine alone.                           *)
LEMMA RestKeepsRun ==
  ASSUME RunInv, EntryFallsThrough \/ NmiArrives \/ UNCHANGED vars
  PROVE  RunInv'
<1>1. CASE EntryFallsThrough
  <2>1. /\ launch_failed \/ vmresume_failed
        /\ machine' = machine /\ vnmi' = vnmi /\ mode' = "stopped"
        /\ stop'.kind # "Finished" /\ tlb' = tlb /\ nmi_line' = nmi_line
        /\ arrivals' = arrivals /\ before' = before /\ faulted' = TRUE
    BY <1>1, SMTT(30) DEF EntryFallsThrough, launch_failed, vmresume_failed
  <2>2. IInv'
    BY <2>1, OtherStepsInv DEF RunInv
  <2>3. EntryOK' /\ NmiAccounting' /\ FinishedClean'
    BY <2>1, Zenon DEF EntryOK, NmiAccounting, FinishedClean
  <2>4. RunTypeOK'
    BY <2>1, <2>2 DEF RunInv, IInv, RunTypeOK
  <2> QED
    BY <2>1, <2>2, <2>3, <2>4, SMTT(30) DEF RunInv
<1>2. CASE NmiArrives
  <2>1. /\ UNCHANGED handlerVars /\ mode = "guest" /\ stop' = stop /\ mode' = mode
        /\ state' = state /\ entry_info' = entry_info
        /\ machine' = machine /\ vnmi' = vnmi /\ tlb' = tlb /\ nmi_line' = TRUE
        /\ arrivals < MaxNmis /\ arrivals' = arrivals + 1
        /\ before' = before /\ faulted' = faulted
    BY <1>2 DEF NmiArrives, handlerVars
  <2>2. IInv'
    BY <2>1, OtherStepsInv DEF RunInv
  <2>3. EntryOK' /\ NmiAccounting' /\ FinishedClean'
    <3>1. stop.kind # "Finished"
      BY <2>1 DEF RunInv, IInv, Progress, NoStop
    <3>2. EntryOK' /\ NmiAccounting'
      BY Zenon, <2>1 DEF RunInv, EntryOK, NmiAccounting
    <3> QED
      BY Zenon, <2>1, <3>1, <3>2 DEF FinishedClean
  <2>4. RunTypeOK'
    BY <2>1, <2>2, GuestAssumption DEF RunInv, IInv, RunTypeOK
  <2> QED
    BY <2>1, <2>2, <2>3, <2>4 DEF RunInv
<1>3. CASE UNCHANGED vars
  <2>1. /\ UNCHANGED handlerVars /\ stop' = stop /\ mode' = mode
        /\ state' = state /\ entry_info' = entry_info
        /\ machine' = machine /\ vnmi' = vnmi /\ tlb' = tlb /\ nmi_line' = nmi_line
        /\ arrivals' = arrivals /\ before' = before /\ faulted' = faulted
    BY <1>3 DEF vars, guestVars, handlerVars
  <2>2. IInv'
    BY <2>1, OtherStepsInv DEF RunInv
  <2>3. EntryOK' /\ NmiAccounting' /\ FinishedClean'
    <3>1. EntryOK'
      BY Zenon, <2>1 DEF RunInv, EntryOK
    <3>2. NmiAccounting'
      BY Zenon, <2>1 DEF RunInv, NmiAccounting
    <3>3. FinishedClean'
      BY Zenon, <2>1 DEF RunInv, FinishedClean
    <3> QED
      BY Zenon, <3>1, <3>2, <3>3
  <2>4. RunTypeOK'
    BY <2>1, <2>2 DEF RunInv, IInv, RunTypeOK
  <2> QED
    BY <2>1, <2>2, <2>3, <2>4 DEF RunInv
<1> QED
  BY <1>1, <1>2, <1>3, SMTT(30)

-----------------------------------------------------------------------------
(* The guest, the CPU and the handler together keep the invariant: for any *)
(* NMIs at any time and whatever VMCS access, INVEPT or VM entry fails.    *)
THEOREM RunInvariant == RunSpec => []RunInv
<1>1. RunInv /\ [RunNext]_vars => RunInv'
  <2> SUFFICES ASSUME RunInv, [RunNext]_vars PROVE RunInv'
    OBVIOUS
  <2>1. CASE \E x : GuestExits(x)
    BY <2>1, ExitKeepsRun DEF GuestExits
  <2>2. CASE RunStraight \/ WriteData
    BY <2>2, StraightKeepsRun
  <2>3. CASE EnterGuest
    BY <2>3, EntryKeepsRun
  <2>4. CASE EntryFallsThrough \/ NmiArrives \/ UNCHANGED vars
    BY <2>4, RestKeepsRun
  <2> QED
    BY <2>1, <2>2, <2>3, <2>4, ExitsMatch DEF RunNext, Run, Stopped
<1> QED
  BY <1>1, RunInitInv, PTL DEF RunSpec

(* The guest, the CPU and the handler keep their types.                    *)
THEOREM RunTypes == RunSpec => []RunTypeOK
<1>1. RunInv => RunTypeOK
  BY DEF RunInv
<1> QED
  BY <1>1, RunInvariant, PTL

(* Every reinjected NMI is handled exactly once.                           *)
THEOREM NmisAccounted == RunSpec => []NmiAccounting
<1>1. RunInv => NmiAccounting
  BY DEF RunInv
<1> QED
  BY <1>1, RunInvariant, PTL

(* The guest's NMI handler never nests, and VM entry accepts what is       *)
(* queued for it.                                                          *)
THEOREM NmiHandlerNeverNests == RunSpec => []NmiHandlerAlone
<1>1. RunInv => NmiHandlerAlone
  BY DEF RunInv, EntryOK, FrameOK, NmiHandlerAlone
<1> QED
  BY <1>1, RunInvariant, PTL

(* A finished run leaves the MSR, the scratch port and the NMI bookkeeping *)
(* as the launch found them.                                               *)
THEOREM RunFinishesClean == RunSpec => []FinishedClean
<1>1. RunInv => FinishedClean
  BY DEF RunInv
<1> QED
  BY <1>1, RunInvariant, PTL

-----------------------------------------------------------------------------
(* The refinement.                                                         *)

(* BareGuest runs the same program: its labels are the program's.          *)
LEMMA BareLabels ==
  /\ Bare!AtUd2 = AtUd2 /\ Bare!LastMainVmcallAt = LastMainVmcallAt
  /\ Bare!Exiting = Exiting /\ Bare!AtIretq = AtIretq /\ Bare!Emulated = Emulated
  BY DEF Bare!AtUd2, AtUd2, Bare!LastMainVmcallAt, LastMainVmcallAt,
         Bare!Exiting, Exiting, Bare!AtIretq, AtIretq, Bare!Emulated, Emulated,
         Bare!AtCpuid, AtCpuid, Bare!AtRdmsr, AtRdmsr, Bare!AtWrmsr, AtWrmsr,
         Bare!AtIn, AtIn, Bare!AtOut, AtOut, Bare!AtMainVmcall, AtMainVmcall,
         Bare!AtNmiVmcall, AtNmiVmcall

(* So are its instructions, its NMI delivery and its starting machine.     *)
LEMMA BareProgram ==
  /\ \A m : Bare!straight(m) = straight(m)
  /\ \A m : Bare!deliver_nmi(m) = deliver_nmi(m)
  /\ \A msr, port, scratch : Bare!GuestStart(msr, port, scratch) = GuestStart(msr, port, scratch)
<1>1. ASSUME NEW m PROVE Bare!straight(m) = straight(m)
  BY DEF Bare!straight, straight, Bare!scratch_compared, scratch_compared,
         Bare!wait_loop, wait_loop, Bare!merge_in, merge_in, Bare!Modulus, Modulus,
         Bare!push, push, Bare!KERNEL_GS_BASE, KERNEL_GS_BASE,
         Bare!GUEST_SCRATCH_PORT, GUEST_SCRATCH_PORT, Bare!GUEST_MSR_VALUE, GUEST_MSR_VALUE,
         Bare!GUEST_IO_VALUE, GUEST_IO_VALUE, Bare!GUEST_EMULATION_FAIL_MARKER,
         GUEST_EMULATION_FAIL_MARKER, Bare!guest_wait, guest_wait, Bare!guest_wait_done,
         guest_wait_done, Bare!guest_emulation_failed, guest_emulation_failed,
         Bare!GUEST_NMI_MARKER, GUEST_NMI_MARKER, Bare!GUEST_EPT_VALUE, GUEST_EPT_VALUE,
         Bare!GUEST_MARKER, GUEST_MARKER
<1>2. ASSUME NEW m PROVE Bare!deliver_nmi(m) = deliver_nmi(m)
  BY DEF Bare!deliver_nmi, deliver_nmi, Bare!push, push, Bare!guest_nmi_handler,
         guest_nmi_handler
<1>3. ASSUME NEW msr, NEW port, NEW scratch
      PROVE  Bare!GuestStart(msr, port, scratch) = GuestStart(msr, port, scratch)
  BY DEF Bare!GuestStart, GuestStart, Bare!GUEST_DATA_SEED, GUEST_DATA_SEED
<1> QED
  BY <1>1, <1>2, <1>3

(* RIP and other fields may be changed in either order.                    *)
LEMMA Swap ==
  ASSUME NEW m \in Machine, NEW r, NEW x, NEW y, NEW z, NEW w
  PROVE  /\ [m EXCEPT !.rip = r, !.rax = x] = [m EXCEPT !.rax = x, !.rip = r]
         /\ [m EXCEPT !.rip = r, !.msr = x] = [m EXCEPT !.msr = x, !.rip = r]
         /\ [m EXCEPT !.rip = r, !.port = x] = [m EXCEPT !.port = x, !.rip = r]
         /\ [m EXCEPT !.rip = r, !.rax = x, !.rdx = y]
              = [m EXCEPT !.rax = x, !.rdx = y, !.rip = r]
         /\ [m EXCEPT !.rip = r, !.rax = x, !.rbx = y, !.rcx = z, !.rdx = w]
              = [m EXCEPT !.rax = x, !.rbx = y, !.rcx = z, !.rdx = w, !.rip = r]
  BY ZenonT(30) DEF Machine

(* The architectural effect of an intercepted instruction is the handler's *)
(* execution of it and the step over it.                                   *)
LEMMA NativeStep ==
  ASSUME NEW m \in Machine
  PROVE  /\ m.rip \in Emulated => Bare!native(m) = NextRip(Executed(m))
         /\ m.rip \in AtMainVmcall \cup {AtNmiVmcall} => Bare!native(m) = NextRip(m)
<1>a. /\ Bare!AtCpuid = AtCpuid /\ Bare!AtRdmsr = AtRdmsr /\ Bare!AtWrmsr = AtWrmsr
      /\ Bare!AtIn = AtIn /\ Bare!AtOut = AtOut
  BY DEF Bare!AtCpuid, Bare!AtRdmsr, Bare!AtWrmsr, Bare!AtIn, Bare!AtOut,
         AtCpuid, AtRdmsr, AtWrmsr, AtIn, AtOut
<1>1. CASE m.rip \in AtMainVmcall \cup {AtNmiVmcall}
  <2>1. m.rip \notin Emulated
    BY <1>1 DEF Emulated, AtCpuid, AtRdmsr, AtWrmsr, AtIn, AtOut, AtMainVmcall, AtNmiVmcall
  <2> QED
    BY <1>a, <2>1 DEF Bare!native, NextRip, Emulated
<1>2. CASE m.rip = AtCpuid
  <2>1. PICK g : g = cpuid_policy(m.rax, CpuidRaw)
    OBVIOUS
  <2>2. Bare!cpuid_policy(m.rax, CpuidRaw) = g
    BY <2>1 DEF Bare!cpuid_policy, cpuid_policy
  <2>3. Bare!native(m) = [m EXCEPT !.rip = m.rip + 1, !.rax = g.eax, !.rbx = g.ebx,
                                   !.rcx = g.ecx, !.rdx = g.edx]
    BY <1>a, <1>2, <2>2 DEF Bare!native, AtCpuid, AtRdmsr, AtWrmsr, AtIn, AtOut
  <2>4. Executed(m) = [m EXCEPT !.rax = g.eax, !.rbx = g.ebx, !.rcx = g.ecx, !.rdx = g.edx]
    BY <1>2, <2>1 DEF Executed, AtCpuid, AtRdmsr, AtWrmsr, AtIn, AtOut
  <2>5. NextRip(Executed(m)) = [m EXCEPT !.rax = g.eax, !.rbx = g.ebx, !.rcx = g.ecx,
                                         !.rdx = g.edx, !.rip = m.rip + 1]
    BY <2>4 DEF NextRip, Machine
  <2>6. Bare!native(m) = NextRip(Executed(m))
    BY Zenon, <2>3, <2>5, Swap
  <2> QED
    BY <1>2, <2>6 DEF AtCpuid, AtMainVmcall, AtNmiVmcall
<1>3. CASE m.rip \in AtRdmsr
  <2>1. Bare!native(m) = [m EXCEPT !.rip = m.rip + 1, !.rax = m.msr[2], !.rdx = m.msr[1]]
    BY <1>a, <1>3 DEF Bare!native, AtCpuid, AtRdmsr, AtWrmsr, AtIn, AtOut
  <2>2. Executed(m) = [m EXCEPT !.rax = m.msr[2], !.rdx = m.msr[1]]
    BY <1>3 DEF Executed, AtCpuid, AtRdmsr, AtWrmsr, AtIn, AtOut
  <2>3. NextRip(Executed(m)) = [m EXCEPT !.rax = m.msr[2], !.rdx = m.msr[1],
                                         !.rip = m.rip + 1]
    BY <2>2 DEF NextRip, Machine
  <2>4. Bare!native(m) = NextRip(Executed(m))
    BY Zenon, <2>1, <2>3, Swap
  <2> QED
    BY <1>3, <2>4 DEF AtRdmsr, AtMainVmcall, AtNmiVmcall
<1>4. CASE m.rip \in AtWrmsr
  <2>1. Bare!native(m) = [m EXCEPT !.rip = m.rip + 1, !.msr = <<m.rdx, m.rax>>]
    BY <1>a, <1>4 DEF Bare!native, AtCpuid, AtRdmsr, AtWrmsr, AtIn, AtOut
  <2>2. Executed(m) = [m EXCEPT !.msr = <<m.rdx, m.rax>>]
    BY <1>4 DEF Executed, AtCpuid, AtRdmsr, AtWrmsr, AtIn, AtOut
  <2>3. NextRip(Executed(m)) = [m EXCEPT !.msr = <<m.rdx, m.rax>>, !.rip = m.rip + 1]
    BY <2>2 DEF NextRip, Machine
  <2>4. Bare!native(m) = NextRip(Executed(m))
    BY Zenon, <2>1, <2>3, Swap
  <2> QED
    BY <1>4, <2>4 DEF AtWrmsr, AtMainVmcall, AtNmiVmcall
<1>5. CASE m.rip \in AtIn
  <2>1. PICK n : n = [m EXCEPT !.rip = m.rip + 1]
    BY Zenon
  <2>2. n.rax = m.rax
    BY <2>1 DEF Machine
  <2>3. PICK a : a = merge_in(m.rax, "Byte", m.port)
    OBVIOUS
  <2>4. Bare!merge_in(n.rax, "Byte", m.port) = a
    BY <2>2, <2>3 DEF Bare!merge_in, merge_in, Bare!Modulus, Modulus
  <2>5. Bare!native(m) = [n EXCEPT !.rax = a]
    <3>1. /\ m.rip # AtCpuid /\ m.rip \notin AtRdmsr /\ m.rip \notin AtWrmsr
          /\ m.rip \notin AtOut
      BY <1>5 DEF AtCpuid, AtRdmsr, AtWrmsr, AtIn, AtOut
    <3>2. Bare!native(m) = [n EXCEPT !.rax = Bare!merge_in(n.rax, "Byte", m.port)]
      BY <1>a, <1>5, <2>1, <3>1 DEF Bare!native
    <3> QED
      BY Zenon, <2>4, <3>2
  <2>6. Executed(m) = [m EXCEPT !.rax = a]
    BY <1>5, <2>3 DEF Executed, AtCpuid, AtRdmsr, AtWrmsr, AtIn, AtOut
  <2>7. NextRip(Executed(m)) = [m EXCEPT !.rax = a, !.rip = m.rip + 1]
    BY <2>6 DEF NextRip, Machine
  <2>8. Bare!native(m) = NextRip(Executed(m))
    BY Zenon, <2>1, <2>5, <2>7, Swap
  <2> QED
    BY <1>5, <2>8 DEF AtIn, AtMainVmcall, AtNmiVmcall
<1>6. CASE m.rip \in AtOut
  <2>1. PICK p : p = scratch_written(m, m.rax % 256)
    OBVIOUS
  <2>2. Bare!scratch_written(m, m.rax % 256) = p
    BY <2>1 DEF Bare!scratch_written, scratch_written
  <2>3. Bare!native(m) = [m EXCEPT !.rip = m.rip + 1, !.port = p]
    <3>1. /\ m.rip # AtCpuid /\ m.rip \notin AtRdmsr /\ m.rip \notin AtWrmsr
          /\ m.rip \notin AtIn
      BY <1>6 DEF AtCpuid, AtRdmsr, AtWrmsr, AtIn, AtOut
    <3>2. Bare!native(m) = [m EXCEPT !.rip = m.rip + 1,
                                     !.port = Bare!scratch_written(m, m.rax % 256)]
      BY <1>a, <1>6, <3>1 DEF Bare!native
    <3> QED
      BY Zenon, <2>2, <3>2
  <2>4. Executed(m) = [m EXCEPT !.port = p]
    BY <1>6, <2>1 DEF Executed, AtCpuid, AtRdmsr, AtWrmsr, AtIn, AtOut
  <2>5. NextRip(Executed(m)) = [m EXCEPT !.port = p, !.rip = m.rip + 1]
    BY <2>4 DEF NextRip, Machine
  <2>6. Bare!native(m) = NextRip(Executed(m))
    BY Zenon, <2>3, <2>5, Swap
  <2> QED
    BY <1>6, <2>6 DEF AtOut, AtMainVmcall, AtNmiVmcall
<1> QED
  BY <1>1, <1>2, <1>3, <1>4, <1>5, <1>6 DEF Emulated

-----------------------------------------------------------------------------
\* The NMIs BareGuest has pending.
Waiting == B(nmi_line) + B(state.nmi_pending) + B(entry_info = "NMI")

(* Stopping the guest, RIP still at its instruction, is a Halt.            *)
LEMMA HaltStep ==
  ASSUME machine \in Machine, mode # "stopped", mode' = "stopped", vnmi' = vnmi,
         Waiting' \in 0..Waiting,
         \/ machine' = machine
         \/ /\ machine.rip \in Emulated /\ machine' = Executed(machine)
            /\ machine' \in Machine /\ machine'.rip = machine.rip
  PROVE  [Bare!Next]_(Bare!bareVars)
<1>1. machine' \in {machine} \cup
        (IF machine.rip \in Bare!Emulated
         THEN {[Bare!native(machine) EXCEPT !.rip = machine.rip]} ELSE {})
  <2>1. CASE machine' = machine
    BY <2>1
  <2>2. CASE /\ machine.rip \in Emulated /\ machine' = Executed(machine)
             /\ machine' \in Machine /\ machine'.rip = machine.rip
    <3>1. Bare!native(machine) = NextRip(machine')
      BY <2>2, NativeStep
    <3>2. [NextRip(machine') EXCEPT !.rip = machine'.rip] = machine'
      BY ZenonT(30), <2>2 DEF NextRip, Machine
    <3>3. [Bare!native(machine) EXCEPT !.rip = machine.rip] = machine'
      BY Zenon, <2>2, <3>1, <3>2
    <3> QED
      BY Zenon, <2>2, <3>3, BareLabels
  <2> QED
    BY <2>1, <2>2
<1>2. Bare!Halt
  BY <1>1 DEF Bare!Halt, Waiting
<1> QED
  BY <1>2 DEF Bare!Next

(* With no NMI the CPU would take first, an instruction is an Execute.     *)
LEMMA ExecuteStep ==
  ASSUME RunInv, CanExecute, mode' # "stopped", Waiting' = Waiting,
         vnmi' = (vnmi /\ machine.rip # AtIretq),
         machine.rip \notin AtUd2 \cup {LastMainVmcallAt},
         \/ machine.rip \notin Exiting /\ machine' = straight(machine)
         \/ machine.rip \in Emulated /\ machine' = NextRip(Executed(machine))
         \/ machine.rip \in AtMainVmcall \cup {AtNmiVmcall} /\ machine' = NextRip(machine)
  PROVE  [Bare!Next]_(Bare!bareVars)
<1>1. machine \in Machine /\ (nmi_window_on <=> state.nmi_pending) /\ entry_info = "none"
  BY DEF RunInv, RunTypeOK, IInv, WindowTracksPending, EntryOK, CanExecute
<1>2. mode = "guest" /\ (Waiting = 0 \/ vnmi)
  BY <1>1 DEF CanExecute, WindowOpen, Waiting, B
<1>3. machine' = IF machine.rip \in Bare!Exiting THEN Bare!native(machine)
                 ELSE Bare!straight(machine)
  <2>1. CASE machine.rip \notin Exiting /\ machine' = straight(machine)
    BY <2>1, BareLabels, BareProgram
  <2>2. CASE machine.rip \in Emulated /\ machine' = NextRip(Executed(machine))
    <3>1. machine.rip \in Exiting
      BY <2>2 DEF Exiting
    <3> QED
      BY <1>1, <2>2, <3>1, BareLabels, NativeStep, SMTT(30)
  <2>3. CASE machine.rip \in AtMainVmcall \cup {AtNmiVmcall} /\ machine' = NextRip(machine)
    <3>1. machine.rip \in Exiting
      BY <2>3, SMTT(30) DEF Exiting
    <3> QED
      BY <1>1, <2>3, <3>1, BareLabels, NativeStep, SMTT(30)
  <2> QED
    BY <2>1, <2>2, <2>3
<1>4. Bare!Ready
  BY <1>2 DEF Bare!Ready, Waiting
<1>5. machine.rip \notin Bare!AtUd2 \cup {Bare!LastMainVmcallAt}
  BY BareLabels
<1>6. vnmi' = (vnmi /\ machine.rip # Bare!AtIretq)
  BY BareLabels, SMTT(30)
<1>7. Bare!Execute
  BY <1>2, <1>3, <1>4, <1>5, <1>6, SMTT(30) DEF Bare!Execute, Waiting
<1> QED
  BY <1>7 DEF Bare!Next

(* What the guest does not see is a merge of waiting NMIs at most.         *)
LEMMA QuietStep ==
  ASSUME machine' = machine, vnmi' = vnmi, mode # "stopped", mode' # "stopped",
         Waiting' = Waiting \/ (Waiting > 1 /\ Waiting' = Waiting - 1)
  PROVE  [Bare!Next]_(Bare!bareVars)
<1>1. CASE Waiting' = Waiting
  BY <1>1, SMTT(30) DEF Bare!bareVars, Waiting
<1>2. CASE Waiting > 1 /\ Waiting' = Waiting - 1
  <2>1. Bare!Merge
    BY <1>2, SMTT(30) DEF Bare!Merge, Waiting
  <2> QED
    BY <2>1, SMTT(30) DEF Bare!Next
<1> QED
  BY <1>1, <1>2, SMTT(30)

-----------------------------------------------------------------------------
(* Each answer of decide belongs to one kind of exit.                      *)
LEMMA EventReason ==
  ASSUME NEW s, NEW x \in ExitInfo, NEW e, e = decide(s, x).event
  PROVE  /\ e = "NmiInjected" => x.basic = "exception_or_nmi" /\ x.interruption_info = "NMI"
         /\ e = "NmiWindowInjected" => x.basic = "nmi_window" /\ s.nmi_pending
         /\ e = "NmiDeferred" =>
              \/ x.basic = "exception_or_nmi" /\ x.interruption_info = "NMI"
              \/ x.basic = "nmi_window" /\ s.nmi_pending
         /\ e \in {"EptWriteGranted", "GuestGeneralProtection", "Emulated", "MainVmcall",
                   "GuestNmiHandler"} => x.basic \notin {"exception_or_nmi", "nmi_window"}
<1> USE DEF Judged
<1>1. CASE x.entry_failure \/ x.idt_vectoring_valid
  BY <1>1 DEF decide
<1>2. CASE ~x.entry_failure /\ ~x.idt_vectoring_valid /\ x.basic = "exception_or_nmi"
  <2>1. e = exception_or_nmi(s, x).event
    BY <1>2 DEF decide
  <2> QED
    BY <1>2, <2>1 DEF exception_or_nmi
<1>3. CASE ~x.entry_failure /\ ~x.idt_vectoring_valid /\ x.basic = "nmi_window"
  <2>1. e = nmi_window(s, x).event
    BY <1>3 DEF decide
  <2> QED
    BY <1>3, <2>1, Zenon DEF nmi_window
<1>4. CASE /\ ~x.entry_failure /\ ~x.idt_vectoring_valid
           /\ x.basic \notin {"exception_or_nmi", "nmi_window"}
  <2>1. e \notin {"NmiInjected", "NmiWindowInjected", "NmiDeferred"}
    <3>1. CASE x.basic \in {"cpuid", "rdmsr", "wrmsr", "io"}
      BY <1>4, <3>1 DEF decide, cpuid, rdmsr, wrmsr, io, counted
    <3>2. CASE x.basic = "ept_violation"
      BY <1>4, <3>2 DEF decide, ept_violation
    <3>3. CASE x.basic = "vmcall"
      <4>1. e = vmcall(s, x).event
        BY <1>4, <3>3 DEF decide
      <4> QED
        BY <4>1 DEF vmcall
    <3>4. CASE x.basic \in {"ept_misconfig", "other"}
      BY <1>4, <3>4 DEF decide
    <3> QED
      BY <1>4, <3>1, <3>2, <3>3, <3>4 DEF ExitInfo, Reasons
  <2> QED
    BY <1>4, <2>1
<1> QED
  BY <1>1, <1>2, <1>3, <1>4, SMTT(30)

(* An exit is an Execute, a Halt, a Merge or invisible.                    *)
LEMMA ExitRefines ==
  ASSUME RunInv, NEW x, GuestExits(x)
  PROVE  [Bare!Next]_(Bare!bareVars)
<1>1. PICK j :
        /\ j = decide(state, x) \/ j = Judged("Unexpected", state)
        /\ Outcome(state, j.event, state') /\ state' = j.next
        /\ mode' \in {"entering", "stopped"}
        /\ stop'.kind = "Finished" => j.event = "LastMainVmcall"
        /\ GuestEffect(j.event, j.emulation)
  BY ExitEffect DEF RunInv, GuestExits
<1>2. PICK e, em : e = j.event /\ em = j.emulation
  OBVIOUS
<1>3. /\ Matches(e, em) /\ GuestEffect(e, em) /\ Outcome(state, e, state')
      /\ e = decide(state, x).event \/ e = "Unexpected"
  <2>1. CASE j = decide(state, x)
    BY <1>1, <1>2, <2>1, SMTT(30) DEF GuestExits
  <2>2. CASE j = Judged("Unexpected", state)
    BY <1>1, <1>2, <2>2 DEF Matches, Judged
  <2> QED
    BY <1>1, <2>1, <2>2, SMTT(30)
<1>4. /\ machine \in Machine /\ state \in ExitState /\ entry_info = "none" /\ mode = "guest"
      /\ x \in ExitInfo /\ Leaves(x) /\ nmi_line \in BOOLEAN /\ nmi_line' \in BOOLEAN
      /\ before \in Before
  BY ZenonT(30), GuestAssumption DEF GuestExits, RunInv, RunTypeOK, TypeOK, EntryOK, Before
<1>5. vnmi' = vnmi
  BY DEF GuestExits, Exit
<1>6. state.nmi_pending \in BOOLEAN
  BY Zenon, <1>4 DEF ExitState
<1>7. /\ e \in {"NmiInjected", "NmiWindowInjected"} => ~state'.nmi_pending
      /\ e = "NmiDeferred" => state'.nmi_pending
      /\ e \notin {"NmiInjected", "NmiWindowInjected", "NmiDeferred"} =>
           state'.nmi_pending = state.nmi_pending
  <2>1. state'.nmi_pending = CASE e \in {"NmiInjected", "NmiWindowInjected"} -> FALSE
                               [] e = "NmiDeferred" -> TRUE
                               [] OTHER -> state.nmi_pending
    BY ZenonT(60), <1>3, <1>4, OutcomePending
  <2> QED
    BY <1>6, <2>1, Zenon
<1>8. /\ e = "NmiInjected" => nmi_line /\ ~nmi_line'
      /\ e = "NmiWindowInjected" => nmi_line' = nmi_line /\ state.nmi_pending
      /\ e = "NmiDeferred" => \/ nmi_line /\ ~nmi_line'
                              \/ nmi_line' = nmi_line /\ state.nmi_pending
      /\ e \in {"EptWriteGranted", "GuestGeneralProtection", "Emulated", "MainVmcall",
                "GuestNmiHandler"} => CanExecute /\ nmi_line' = nmi_line
      /\ nmi_line' => nmi_line
  <2>1. nmi_line' => nmi_line
    BY <1>4, Zenon DEF Leaves
  <2>2. CASE e = "Unexpected"
    BY <2>1, <2>2, SMTT(30)
  <2>3. CASE e = decide(state, x).event
    BY <1>4, <2>1, <2>3, EventReason DEF Leaves
  <2> QED
    BY <1>3, <2>2, <2>3
<1>9. e \notin {"NmiInjected", "NmiWindowInjected"} => entry_info' # "NMI"
  BY <1>3, <1>4 DEF GuestEffect, Outcome, StopEvents
<1>10. e = "Emulated" =>
         /\ machine.rip \in Emulated /\ execute(em, machine) = Executed(machine)
         /\ Executed(machine) \in Machine /\ Executed(machine).rip = machine.rip
  <2> SUFFICES ASSUME e = "Emulated"
               PROVE  /\ machine.rip \in Emulated /\ execute(em, machine) = Executed(machine)
                      /\ Executed(machine) \in Machine /\ Executed(machine).rip = machine.rip
    OBVIOUS
  <2>1. machine.rip \in Emulated /\ execute(em, machine) = Executed(machine)
    BY <1>3 DEF Matches
  <2>2. machine.rip \in MainLabels
    BY <2>1 DEF Emulated, AtCpuid, AtRdmsr, AtWrmsr, AtIn, AtOut, MainLabels
  <2>3. /\ AtPc(machine.rip, machine.rax, machine, before, state.main_vmcalls)
        /\ OnPlan(machine.rip, machine.rax, machine, before)
    <3>1. MainOK(machine, before, state.main_vmcalls)
      BY <1>4 DEF RunInv
    <3> QED
      BY Zenon, <2>2, <3>1, MainMachine
  <2>4. StillAt(machine, Executed(machine))
    BY ZenonT(60), <1>4, <2>1, <2>3, EmulatedStep
  <2> QED
    BY ZenonT(60), <2>1, <2>4 DEF StillAt
<1>11. CASE mode' = "stopped"
  <2>1. Waiting' \in 0..Waiting
    BY <1>4, <1>6, <1>7, <1>8, <1>9, SMTT(30) DEF Waiting, B
  <2>2. \/ machine' = machine
        \/ /\ machine.rip \in Emulated /\ machine' = Executed(machine)
           /\ machine' \in Machine /\ machine'.rip = machine.rip
    <3>1. CASE e = "Emulated"
      BY <1>3, <1>10, <1>11, <3>1 DEF GuestEffect
    <3>2. CASE e # "Emulated"
      BY <1>3, <1>11, <3>2 DEF GuestEffect, Outcome, StopEvents
    <3> QED
      BY <3>1, <3>2
  <2> QED
    BY <1>4, <1>5, <1>11, <2>1, <2>2, HaltStep, SMTT(30)
<1>12. CASE mode' = "entering"
  <2>1. CASE e \in {"Emulated", "MainVmcall", "GuestNmiHandler"}
    <3>1. Waiting' = Waiting /\ CanExecute
      BY <1>4, <1>7, <1>8, <1>9, <2>1, SMTT(30) DEF Waiting, B
    <3>2. \/ machine.rip \in Emulated /\ machine' = NextRip(Executed(machine))
          \/ machine.rip \in {22, AtNmiVmcall} /\ machine' = NextRip(machine)
      BY <1>3, <1>10, <1>12, <2>1, SMTT(30) DEF GuestEffect, Matches, NextRip
    <3>3. /\ machine.rip \notin AtUd2 \cup {LastMainVmcallAt} /\ machine.rip # AtIretq
          /\ machine.rip = 22 => machine.rip \in AtMainVmcall
      BY <3>2 DEF AtUd2, LastMainVmcallAt, AtIretq, AtNmiVmcall, AtMainVmcall, Emulated,
                  AtCpuid, AtRdmsr, AtWrmsr, AtIn, AtOut
    <3>4. vnmi' = (vnmi /\ machine.rip # AtIretq)
      <4>1. vnmi \in BOOLEAN
        BY DEF RunInv, RunTypeOK
      <4> QED
        BY Zenon, <1>5, <3>3, <4>1
    <3> QED
      BY <1>12, <3>1, <3>2, <3>3, <3>4, ExecuteStep, SMTT(30)
  <2>2. CASE e \notin {"Emulated", "MainVmcall", "GuestNmiHandler"}
    <3>1. machine' = machine
      BY <1>3, <2>2 DEF GuestEffect, Outcome, StopEvents
    <3>2. Waiting' = Waiting \/ (Waiting > 1 /\ Waiting' = Waiting - 1)
      <4>1. CASE e \in {"NmiInjected", "NmiWindowInjected"}
        <5>1. entry_info' = "NMI"
          BY <1>3, <1>12, <4>1, SMTT(30) DEF GuestEffect
        <5> QED
          BY <1>4, <1>6, <1>7, <1>8, <4>1, <5>1, SMTT(30) DEF Waiting, B
      <4>2. CASE e = "NmiDeferred"
        BY <1>4, <1>6, <1>7, <1>8, <1>9, <4>2, SMTT(30) DEF Waiting, B
      <4>3. CASE e \in {"EptWriteGranted", "GuestGeneralProtection"}
        BY <1>4, <1>7, <1>8, <1>9, <4>3, SMTT(30) DEF Waiting, B
      <4>4. e \notin StopEvents \cup {"LastMainVmcall"}
        BY <1>3, <1>12 DEF GuestEffect
      <4> QED
        BY <1>3, <2>2, <4>1, <4>2, <4>3, <4>4, SMTT(30) DEF Outcome
    <3> QED
      BY <1>4, <1>5, <1>12, <3>1, <3>2, QuietStep
  <2> QED
    BY <2>1, <2>2, SMTT(30)
<1> QED
  BY <1>1, <1>11, <1>12, SMTT(30)

(* The other steps: instructions, entries, arrivals and failed entries.    *)
LEMMA OtherRefine ==
  ASSUME RunInv, RunStraight \/ WriteData \/ EnterGuest \/ EntryFallsThrough \/ NmiArrives
                 \/ UNCHANGED vars
  PROVE  [Bare!Next]_(Bare!bareVars)
<1>1. /\ machine \in Machine /\ nmi_line \in BOOLEAN /\ vnmi \in BOOLEAN
  BY DEF RunInv, RunTypeOK
<1>2. state.nmi_pending \in BOOLEAN
  <2>1. state \in ExitState
    BY DEF RunInv, RunTypeOK, TypeOK
  <2> QED
    BY Zenon, <2>1 DEF ExitState
<1>3. CASE RunStraight \/ WriteData
  <2>1. /\ CanExecute /\ UNCHANGED handlerVars /\ nmi_line' = nmi_line
        /\ machine' = straight(machine) /\ machine.rip \notin Exiting
    BY <1>3, SMTT(30) DEF RunStraight, WriteData, AtDataWrite, Exiting, Emulated, AtCpuid,
                AtRdmsr, AtWrmsr, AtIn, AtOut, AtMainVmcall, AtNmiVmcall, AtUd2
  <2>2. vnmi' = (vnmi /\ machine.rip # AtIretq)
    BY <1>1, <1>3 DEF RunStraight, WriteData, AtIretq, AtDataWrite
  <2>3. Waiting' = Waiting /\ mode' # "stopped"
    BY <2>1 DEF Waiting, handlerVars, CanExecute
  <2>4. machine.rip \notin AtUd2 \cup {LastMainVmcallAt}
    BY <2>1 DEF Exiting, AtMainVmcall, LastMainVmcallAt
  <2> QED
    BY <2>1, <2>2, <2>3, <2>4, ExecuteStep, SMTT(30)
<1>4. CASE EnterGuest
  <2>1. /\ mode = "entering" /\ mode' = "guest" /\ entry_info' = "none" /\ state' = state
        /\ nmi_line' = nmi_line
    BY <1>4 DEF EnterGuest, vm_entry
  <2>2. CASE entry_info = "none"
    <3>1. machine' = machine /\ vnmi' = vnmi
      BY <1>1, <1>4, <2>2 DEF EnterGuest
    <3>2. Waiting' = Waiting
      BY <2>1, <2>2 DEF Waiting
    <3> QED
      BY <2>1, <3>1, <3>2, QuietStep, SMTT(30)
  <2>3. CASE entry_info = "NMI" /\ ~vnmi
    <3>1. machine' = Bare!deliver_nmi(machine) /\ vnmi' = TRUE
      BY <1>4, <2>3, BareProgram, Zenon DEF EnterGuest
    <3>2. Waiting > 0 /\ Waiting' = Waiting - 1
      BY <1>1, <1>2, <2>1, <2>3, SMTT(30) DEF Waiting, B
    <3>3. Bare!Deliver
      BY <2>1, <2>3, <3>1, <3>2 DEF Bare!Deliver, Waiting
    <3> QED
      BY <3>3 DEF Bare!Next
  <2> QED
    BY <1>4, <2>2, <2>3, SMTT(30) DEF EnterGuest
<1>5. CASE EntryFallsThrough
  <2>1. /\ machine' = machine /\ vnmi' = vnmi /\ mode = "entering" /\ mode' = "stopped"
        /\ state' = state /\ entry_info' = entry_info /\ nmi_line' = nmi_line
    BY <1>5, SMTT(30) DEF EntryFallsThrough, launch_failed, vmresume_failed
  <2>2. Waiting' \in 0..Waiting
    BY <1>1, <1>2, <2>1 DEF Waiting, B
  <2> QED
    BY <1>1, <2>1, <2>2, HaltStep, SMTT(30)
<1>6. CASE NmiArrives
  <2>1. /\ machine' = machine /\ vnmi' = vnmi /\ mode = "guest" /\ mode' = mode
        /\ state' = state /\ entry_info' = entry_info /\ nmi_line' = TRUE
    BY <1>6 DEF NmiArrives, handlerVars
  <2>2. CASE nmi_line
    <3>1. Waiting' = Waiting
      BY <1>1, <2>1, <2>2 DEF Waiting, B
    <3> QED
      BY <2>1, <3>1, QuietStep
  <2>3. CASE ~nmi_line
    <3>1. Waiting' = Waiting + 1
      BY <1>1, <1>2, <2>1, <2>3 DEF Waiting, B
    <3>2. Bare!Arrive
      BY <2>1, <3>1, Zenon DEF Bare!Arrive, Waiting
    <3> QED
      BY <3>2 DEF Bare!Next
  <2> QED
    BY <2>2, <2>3
<1>7. CASE UNCHANGED vars
  BY <1>7 DEF vars, handlerVars, guestVars, Bare!bareVars, B
<1> QED
  BY <1>3, <1>4, <1>5, <1>6, <1>7

(* The guest under Aleph0 behaves like the guest on a machine of its own:  *)
(* interception, emulation, NMI reinjection and the EPT grant show in none *)
(* of its steps.                                                           *)
THEOREM RunRefinesBare == RunSpec => RunsLikeBare
<1>1. RunInit => Bare!Init
  <2> SUFFICES ASSUME RunInit PROVE Bare!Init
    OBVIOUS
  <2>1. /\ \E msr \in Msrs, port \in Ports, scratch \in BOOLEAN :
             machine = Bare!GuestStart(msr, port, scratch)
        /\ vnmi = FALSE /\ mode # "stopped"
    BY BareProgram, SMTT(30) DEF RunInit, Init
  <2>2. B(nmi_line) + B(state.nmi_pending) + B(entry_info = "NMI") = 0
    BY SMTT(30) DEF RunInit, Init, InitState, B
  <2> QED
    BY <2>1, <2>2, SMTT(30) DEF Bare!Init
<1>2. RunInv /\ [RunNext]_vars => [Bare!Next]_(Bare!bareVars)
  BY ExitsMatch, ExitRefines, OtherRefine DEF RunNext, Run, Stopped
<1> QED
  BY <1>1, <1>2, RunInvariant, PTL DEF RunSpec, RunsLikeBare, Bare!Spec
=============================================================================
