------------------------------ MODULE StopValue ------------------------------
(***************************************************************************)
(* The one register that carries a guest's end back to bring-up            *)
(* (src/vmx/vmcs/launch.rs, stub_return in src/vmx/vmexit/handler.rs, the  *)
(* stub of src/vmx/vmexit/mod.rs): the handler's answer in RAX, 0 to       *)
(* resume or a stop value; the stub that tells them apart; and launch,     *)
(* which decodes the value again.  The module ExitHandler takes the stop   *)
(* as a record; this one shows that the encoding keeps it.                 *)
(*                                                                         *)
(* The widths are constants: a raw exit reason is below RAWS (2^32), its   *)
(* basic part below BASICS (2^16), the exit-number field below NUMBERS     *)
(* (2^30), and a payload below NUMBERS * RAWS (2^62).                      *)
(***************************************************************************)
EXTENDS Integers

CONSTANTS BASICS, RAWS, NUMBERS,
          Rflags,      \* values of RFLAGS after VMLAUNCH or VMRESUME
          MaxExits     \* bound on EXIT_COUNT

\* RFLAGS bit 1 always reads as 1; bits 63:22 read as 0.
ASSUME WidthsAssumption ==
  /\ BASICS \in Nat \ {0} /\ RAWS \in Nat \ {0} /\ NUMBERS \in Nat \ {0}
  /\ MaxExits \in Nat /\ MaxExits < NUMBERS * RAWS
  /\ Rflags \subseteq 1 .. (NUMBERS * RAWS - 1)

VARIABLES at,         \* who runs: launcher stub, guest, exit stub or launch
          rax,        \* RAX between the stubs, the handler and launch
          EXIT_COUNT,
          stop,       \* the GuestStop launch returns
          cause       \* why it really stopped (history)

stopVars == <<at, rax, EXIT_COUNT, stop, cause>>

PAYLOADS == NUMBERS * RAWS

Errors == {"none", "VmFailInvalid", "VmFailValid", "LaunchReturned", "ResumeReturned"}
GuestStop == [kind : {"none", "LaunchFailed", "Finished", "Unexpected", "ResumeFailed"},
              number : Nat, basic : Nat, entry_failure : BOOLEAN, error : Errors]
Stop(kind, number, basic, entry_failure, error) ==
  [kind |-> kind, number |-> number, basic |-> basic, entry_failure |-> entry_failure,
   error |-> error]
NotStopped == Stop("none", 0, 0, FALSE, "none")

\* A stop value is one value of a 64-bit register.
StopTypeOK ==
  /\ at \in {"vmx_launch", "guest", "vmexit_entry", "launch", "returned"}
  /\ rax \in 0 .. (4 * PAYLOADS - 1)
  /\ EXIT_COUNT \in 0..MaxExits
  /\ stop \in GuestStop
  /\ cause \in GuestStop

-----------------------------------------------------------------------------
(* Encoding.  The fields do not overlap, so | is addition.                 *)

KIND_LAUNCH_FAILED == 0
KIND_FINISHED == 1
KIND_UNEXPECTED == 2
KIND_RESUME_FAILED == 3
RESUME_GUEST == 0

encode_finished(exits) == KIND_FINISHED * PAYLOADS + (exits % PAYLOADS)

\* Mutant: an exit number too large spills into the kind.
encode_unexpected_mutant(number, raw_reason) ==
  KIND_UNEXPECTED * PAYLOADS + number * RAWS + raw_reason

encode_unexpected(number, raw_reason) ==
  KIND_UNEXPECTED * PAYLOADS + ((number % NUMBERS) * RAWS + raw_reason)

encode_resume_failed(rflags) == KIND_RESUME_FAILED * PAYLOADS + (rflags % PAYLOADS)

\* RFLAGS.CF is bit 0 and RFLAGS.ZF bit 6.
check_rflags(rflags) ==
  IF rflags % 2 = 1 THEN "VmFailInvalid"
  ELSE IF (rflags \div 64) % 2 = 1 THEN "VmFailValid"
  ELSE "none"

\* VMLAUNCH and VMRESUME fall through only on failure.
fall_through_failure(rflags, clear) ==
  IF check_rflags(rflags) = "none" THEN clear ELSE check_rflags(rflags)

\* ExitReason::from_raw: the low half, and the top bit.
Unexpected(number, raw) ==
  Stop("Unexpected", number, raw % BASICS, 2 * raw >= RAWS, "none")
Finished(exits) == Stop("Finished", exits, 0, FALSE, "none")
LaunchFailed(rflags) ==
  Stop("LaunchFailed", 0, 0, FALSE, fall_through_failure(rflags, "LaunchReturned"))
ResumeFailed(rflags) ==
  Stop("ResumeFailed", 0, 0, FALSE, fall_through_failure(rflags, "ResumeReturned"))

decode(value) ==
  LET kind == value \div PAYLOADS
      payload == value % PAYLOADS
  IN IF kind = KIND_LAUNCH_FAILED THEN LaunchFailed(payload)
     ELSE IF kind = KIND_FINISHED THEN Finished(payload)
     ELSE IF kind = KIND_UNEXPECTED THEN Unexpected(payload \div RAWS, payload % RAWS)
     ELSE ResumeFailed(payload)

-----------------------------------------------------------------------------
StopInit ==
  /\ at = "vmx_launch"
  /\ rax = 0
  /\ EXIT_COUNT = 0
  /\ stop = NotStopped
  /\ cause = NotStopped

\* VMLAUNCH enters the guest, or falls through to PUSHFQ and POP RAX.
vmx_launch ==
  /\ at = "vmx_launch"
  /\ \/ at' = "guest" /\ UNCHANGED <<rax, cause>>
     \/ \E rflags \in Rflags :
          /\ at' = "launch"
          /\ rax' = rflags
          /\ cause' = LaunchFailed(rflags)
  /\ UNCHANGED <<EXIT_COUNT, stop>>

\* A VM exit: the handler's action decides what stub_return puts in RAX.
vmexit_handler ==
  /\ at = "guest"
  /\ EXIT_COUNT < MaxExits
  /\ at' = "vmexit_entry"
  /\ EXIT_COUNT' = EXIT_COUNT + 1
  /\ \/ rax' = RESUME_GUEST /\ UNCHANGED cause
     \/ /\ rax' = encode_finished(EXIT_COUNT')
        /\ cause' = Finished(EXIT_COUNT')
     \/ \E raw_reason \in 0 .. (RAWS - 1) :
          /\ rax' = encode_unexpected(EXIT_COUNT', raw_reason)
          /\ cause' = Unexpected(EXIT_COUNT', raw_reason)
  /\ UNCHANGED stop

\* TEST RAX, RAX: jump back to the launcher, or VMRESUME, which may fall
\* through to vmresume_failed.
vmexit_entry ==
  /\ at = "vmexit_entry"
  /\ \/ rax # RESUME_GUEST /\ at' = "launch" /\ UNCHANGED <<rax, cause>>
     \/ rax = RESUME_GUEST /\ at' = "guest" /\ UNCHANGED <<rax, cause>>
     \/ /\ rax = RESUME_GUEST
        /\ \E rflags \in Rflags :
             /\ rax' = encode_resume_failed(rflags)
             /\ cause' = ResumeFailed(rflags)
        /\ at' = "launch"
  /\ UNCHANGED <<EXIT_COUNT, stop>>

launch ==
  /\ at = "launch"
  /\ at' = "returned"
  /\ stop' = decode(rax)
  /\ UNCHANGED <<rax, EXIT_COUNT, cause>>

StopNext == vmx_launch \/ vmexit_handler \/ vmexit_entry \/ launch

StopSpec == StopInit /\ [][StopNext]_stopVars

-----------------------------------------------------------------------------
(* Properties.                                                             *)

\* The cause as far as the stop value can tell it.
Told(c) == Stop(c.kind, IF c.kind = "Unexpected" THEN c.number % NUMBERS ELSE c.number,
                c.basic, c.entry_failure, c.error)

\* What launch decodes is why the guest stopped: the kind is kept whatever
\* the payload, no stop value is RESUME_GUEST, and the payload loses nothing
\* but the bits of an unexpected exit's number above EXIT_NUMBER_BITS.
StopTellsCause ==
  /\ at = "returned" => stop = Told(cause)
  /\ at \in {"vmx_launch", "guest"} => cause = NotStopped
=============================================================================
