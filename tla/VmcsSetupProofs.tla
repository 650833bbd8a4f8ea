---------------------------- MODULE VmcsSetupProofs ----------------------------
(***************************************************************************)
(* Proofs about VmcsSetup, for every set of processors.                    *)
(*                                                                         *)
(* The argument follows the VMWRITEs: VInv says what is good about every   *)
(* field written so far, and about every write the current step has still  *)
(* to do, so that a step which ends with nothing left to write has written *)
(* all of its fields.                                                      *)
(***************************************************************************)
EXTENDS VmcsSetup, TLAPS

StepNames == {"check_vmx_support", "creation", "self-test", "control setup",
  "EPT pointer setup", "exit bitmap setup", "host-state setup",
  "exit-control readback", "host entry address setup", "guest-state collection",
  "guest-state write", "check_host_tables_preserved", "launch", "teardown",
  "report", "reported"}

\* The place of a step in Steps.
Number(s) ==
  CASE s = "check_vmx_support" -> 1
    [] s = "creation" -> 2
    [] s = "self-test" -> 3
    [] s = "control setup" -> 4
    [] s = "EPT pointer setup" -> 5
    [] s = "exit bitmap setup" -> 6
    [] s = "host-state setup" -> 7
    [] s = "exit-control readback" -> 8
    [] s = "host entry address setup" -> 9
    [] s = "guest-state collection" -> 10
    [] s = "guest-state write" -> 11
    [] s = "check_host_tables_preserved" -> 12
    [] s = "launch" -> 13
    [] s = "teardown" -> 14
    [] s = "report" -> 15
    [] s = "reported" -> 16

ControlNames == {"pinbased", "primary", "exit", "entry", "secondary"}

\* The value configure_controls computes for a control field.
Value(ctl, c) == chosen(ctl[c], Request[c])

\* The fields of LoadWrites.
LoadFields(loads, pat, efer) ==
  {f \in {pat} : "LOAD_IA32_PAT" \in loads} \cup {f \in {efer} : "LOAD_IA32_EFER" \in loads}

\* The fields a step of prepare_vmcs has written when it is over.
StepFields(ctl, s) ==
  CASE s = "control setup" -> ControlFields \cup Range(ZeroedFields) \cup {"EXCEPTION_BITMAP"}
    [] s = "EPT pointer setup" -> {"EPT_POINTER"}
    [] s = "exit bitmap setup" -> Range(BitmapFields)
    [] s = "host-state setup" -> Range(HostRegisters) \cup
         LoadFields(Value(ctl, "exit"), "HOST_IA32_PAT", "HOST_IA32_EFER")
    [] s = "host entry address setup" -> {"HOST_RSP", "HOST_RIP"}
    [] s = "guest-state write" -> Range(GuestRegisters) \cup
         LoadFields(Value(ctl, "entry"), "GUEST_IA32_PAT", "GUEST_IA32_EFER")
    [] OTHER -> {}

Bad == {"stale", "pattern", "other"}

\* A value that VMLAUNCH may find in field f, given the capabilities and the
\* number of changes to the tables.
Good(ctl, n, f, v) ==
  /\ v \cap Bad = {}
  /\ f = "PIN_BASED_VM_EXEC_CONTROL" => v = Value(ctl, "pinbased")
  /\ f = "PRIMARY_VM_EXEC_CONTROL" => v = Value(ctl, "primary")
  /\ f = "SECONDARY_VM_EXEC_CONTROL" => v = Value(ctl, "secondary")
  /\ f = "VM_EXIT_CONTROLS" => v = Value(ctl, "exit")
  /\ f = "VM_ENTRY_CONTROLS" => v = Value(ctl, "entry")
  /\ n = 0 /\ f \in TableFields => v = {"activated"}
  /\ f \in DOMAIN Counted => v = {"zero"}

\* The values that are written.
ValueNames == Bits \cup {"pattern", "zero", "all", "tables", "page", "host",
  "exit stack", "vmexit_entry", "guest", "activated", "changed"}
FieldWrites == Fields \X SUBSET ValueNames

\* The fields that Good says least of.
Plain == Fields \ (ControlFields \cup DOMAIN Counted)

\* Writes that are all good; writes that leave none of fields out.
GoodWrites(ctl, n, t) == \A p \in Range(t) : Good(ctl, n, p[1], p[2])
Covers(t, fields) == \A f \in fields : \E p \in Range(t) : p[1] = f

\* The steps before number k have left their fields good.
WrittenBefore(ctl, n, mem, k) == \A s \in StepNames : Number(s) < k =>
  \A f \in StepFields(ctl, s) : Good(ctl, n, f, mem[f])

\* Each field of step s is good, or its write is among those still to do.
Settling(ctl, n, mem, t, s) == \A f \in StepFields(ctl, s) :
  Good(ctl, n, f, mem[f]) \/ \E p \in Range(t) : p[1] = f

Failed == {"teardown", "report", "reported"}
WriteSteps == {"self-test", "control setup", "EPT pointer setup", "exit bitmap setup",
  "host-state setup", "host entry address setup", "guest-state write"}

VTypeOK ==
  /\ cpu \in Cpus
  /\ controls \in [ControlNames -> ControlCapability]
  /\ pc \in StepNames
  /\ todo \in Seq(FieldWrites)
  /\ todo # <<>> => pc \in WriteSteps
  /\ DOMAIN vmcs = Fields
  /\ changes \in Nat
  /\ changes <= MaxChanges
  /\ tables \in {"activated", "changed"}

TablesTracked ==
  /\ changes = 0 => tables = "activated"
  /\ changes = 1 => tables = "changed"

\* The capabilities are the processor's own.
ControlsRead ==
  pc \notin Failed \cup {"check_vmx_support"} =>
    /\ controls["pinbased"] = rdmsr(control_msr("pinbased"))
    /\ controls["primary"] = rdmsr(control_msr("primary"))
    /\ controls["exit"] = rdmsr(control_msr("exit"))
    /\ controls["entry"] = rdmsr(control_msr("entry"))
    /\ controls["secondary"] \in {Absent, rdmsr(<<"secondary">>)}

\* configure_controls has got past its checks.
Checked(ctl) ==
  /\ allows(ctl["primary"], {"NMI_WINDOW_EXITING"})
  /\ \A c \in ControlNames : can_choose(ctl[c], Request[c])
ControlsChosen ==
  pc \notin Failed /\ (Number(pc) > 4 \/ (Number(pc) = 4 /\ todo # <<>>)) =>
    Checked(controls)

\* Every step before this one has left its fields good; this one has, or still
\* will.
FieldsWritten ==
  pc \notin Failed =>
    /\ WrittenBefore(controls, changes, vmcs, Number(pc))
    /\ todo # <<>> => Settling(controls, changes, vmcs, todo, pc)
    /\ pc # "self-test" => GoodWrites(controls, changes, todo)

\* Nothing has failed before the step that fails.
Unfailed == pc \notin Failed => result = Ok /\ failed = NoFailure
ErrorKept == result.operation # "teardown" =>
  \/ result.instruction_error = IF failed.readable THEN failed.number ELSE 0
  \/ result.operation = "resume" /\ failed.replaced

VInv ==
  /\ VTypeOK
  /\ TablesTracked
  /\ ControlsRead
  /\ ControlsChosen
  /\ FieldsWritten
  /\ LaunchDescribesActivatedTables
  /\ MsrsExist
  /\ Unfailed
  /\ ErrorKept

-----------------------------------------------------------------------------
(* The steps.                                                              *)

\* The steps one by one.
LEMMA StepAt ==
  /\ Steps[1] = "check_vmx_support"
  /\ Steps[2] = "creation"
  /\ Steps[3] = "self-test"
  /\ Steps[4] = "control setup"
  /\ Steps[5] = "EPT pointer setup"
  /\ Steps[6] = "exit bitmap setup"
  /\ Steps[7] = "host-state setup"
  /\ Steps[8] = "exit-control readback"
  /\ Steps[9] = "host entry address setup"
  /\ Steps[10] = "guest-state collection"
  /\ Steps[11] = "guest-state write"
  /\ Steps[12] = "check_host_tables_preserved"
  /\ Steps[13] = "launch"
  /\ Steps[14] = "teardown"
  /\ Steps[15] = "report"
  /\ Steps[16] = "reported"
BY DEF Steps

\* Their numbers.
LEMMA NumberAt ==
  /\ Number("check_vmx_support") = 1
  /\ Number("creation") = 2
  /\ Number("self-test") = 3
  /\ Number("control setup") = 4
  /\ Number("EPT pointer setup") = 5
  /\ Number("exit bitmap setup") = 6
  /\ Number("host-state setup") = 7
  /\ Number("exit-control readback") = 8
  /\ Number("host entry address setup") = 9
  /\ Number("guest-state collection") = 10
  /\ Number("guest-state write") = 11
  /\ Number("check_host_tables_preserved") = 12
  /\ Number("launch") = 13
  /\ Number("teardown") = 14
  /\ Number("report") = 15
  /\ Number("reported") = 16
BY DEF Number

\* Number gives the place of a step in Steps.
LEMMA StepPlaces ==
  /\ DOMAIN Steps = 1..16
  /\ \A i \in 1..16 : Steps[i] \in StepNames /\ Number(Steps[i]) = i
  /\ \A s \in StepNames : Number(s) \in 1..16 /\ Steps[Number(s)] = s
<1>1. DOMAIN Steps = 1..16
  BY DEF Steps
<1>2. \A i \in 1..16 : Steps[i] \in StepNames /\ Number(Steps[i]) = i
  <2>1. \A i \in 1..16 : \/ i = 1 \/ i = 2 \/ i = 3 \/ i = 4 \/ i = 5 \/ i = 6 \/ i = 7
                          \/ i = 8 \/ i = 9 \/ i = 10 \/ i = 11 \/ i = 12 \/ i = 13
                          \/ i = 14 \/ i = 15 \/ i = 16
    OBVIOUS
  <2>2. \A i \in {1, 2, 3, 4} : Steps[i] \in StepNames /\ Number(Steps[i]) = i
    BY StepAt, NumberAt, ZenonT(40) DEF StepNames
  <2>3. \A i \in {5, 6, 7, 8} : Steps[i] \in StepNames /\ Number(Steps[i]) = i
    BY StepAt, NumberAt, ZenonT(40) DEF StepNames
  <2>4. \A i \in {9, 10, 11, 12} : Steps[i] \in StepNames /\ Number(Steps[i]) = i
    BY StepAt, NumberAt, ZenonT(40) DEF StepNames
  <2>5. \A i \in {13, 14, 15, 16} : Steps[i] \in StepNames /\ Number(Steps[i]) = i
    BY StepAt, NumberAt, ZenonT(40) DEF StepNames
  <2> QED
    BY <2>1, <2>2, <2>3, <2>4, <2>5
<1>3. ASSUME NEW s \in StepNames PROVE \E i \in 1..16 : Steps[i] = s
  <2>5. \A i \in {1, 2, 3, 4, 5, 6, 7, 8, 9, 10, 11, 12, 13, 14, 15, 16} : i \in 1..16
    OBVIOUS
  <2>1. ASSUME s \in {"check_vmx_support", "creation", "self-test", "control setup"}
        PROVE  \E i \in 1..16 : Steps[i] = s
    BY <2>1, <2>5, StepAt, ZenonT(60)
  <2>2. ASSUME s \in {"EPT pointer setup", "exit bitmap setup",
                         "host-state setup", "exit-control readback"}
        PROVE  \E i \in 1..16 : Steps[i] = s
    BY <2>2, <2>5, StepAt, ZenonT(60)
  <2>3. ASSUME s \in {"host entry address setup", "guest-state collection",
                         "guest-state write", "check_host_tables_preserved"}
        PROVE  \E i \in 1..16 : Steps[i] = s
    BY <2>3, <2>5, StepAt, ZenonT(60)
  <2>4. ASSUME s \in {"launch", "teardown", "report", "reported"}
        PROVE  \E i \in 1..16 : Steps[i] = s
    BY <2>4, <2>5, StepAt, ZenonT(60)
  <2> QED
    BY <2>1, <2>2, <2>3, <2>4, Zenon DEF StepNames
<1> QED
  BY <1>1, <1>2, <1>3

\* The step after a step is the next one.
LEMMA NextStep ==
  ASSUME NEW s \in StepNames, Number(s) < 16
  PROVE  After(s) \in StepNames /\ Number(After(s)) = Number(s) + 1
<1>1. \A i \in 1..16 : Steps[i] = s <=> i = Number(s)
  BY StepPlaces
<1>2. (CHOOSE i \in DOMAIN Steps : Steps[i] = s) = Number(s)
  <2>1. Number(s) \in DOMAIN Steps /\ Steps[Number(s)] = s
    BY StepPlaces
  <2> QED
    BY <1>1, <2>1, StepPlaces
<1>3. After(s) = Steps[Number(s) + 1]
  BY <1>2, Zenon DEF After
<1> QED
  BY <1>3, StepPlaces

\* The last steps by their numbers.
LEMMA LateSteps ==
  ASSUME NEW s \in StepNames
  PROVE  /\ Number(s) \in Nat
         /\ Number(s) = 12 <=> s = "check_host_tables_preserved"
         /\ Number(s) = 13 <=> s = "launch"
         /\ Number(s) > 13 <=> s \in {"teardown", "report", "reported"}
<1>1. Number(s) \in 1..16 /\ Steps[Number(s)] = s
  BY StepPlaces
<1>2. Number(s) = 12 <=> s = "check_host_tables_preserved"
  BY <1>1, StepAt, NumberAt, ZenonT(60)
<1>3. Number(s) = 13 <=> s = "launch"
  BY <1>1, StepAt, NumberAt, ZenonT(60)
<1>4. Number(s) > 13 => Number(s) = 14 \/ Number(s) = 15 \/ Number(s) = 16
  BY <1>1
<1>5. Number(s) > 13 => s \in {"teardown", "report", "reported"}
  BY <1>1, <1>4, StepAt, ZenonT(60)
<1>6. s \in {"teardown", "report", "reported"} => Number(s) > 13
  <2>1. s \in {"teardown", "report", "reported"} =>
          Number(s) = 14 \/ Number(s) = 15 \/ Number(s) = 16
    BY NumberAt, Zenon
  <2> QED
    BY <1>1, <2>1
<1> QED
  BY <1>1, <1>2, <1>3, <1>5, <1>6

\* Two steps with one number are one step.
LEMMA SameStep ==
  ASSUME NEW s \in StepNames, NEW t \in StepNames, Number(s) = Number(t)
  PROVE  s = t
BY StepPlaces

-----------------------------------------------------------------------------
(* Fields.                                                                 *)

\* The fields whose value says whether others count.
LEMMA CountedAre ==
  DOMAIN Counted = {"CR3_TARGET_COUNT", "VM_EXIT_MSR_STORE_COUNT",
    "VM_EXIT_MSR_LOAD_COUNT", "VM_ENTRY_MSR_LOAD_COUNT", "VM_ENTRY_INTERRUPTION_INFO"}
BY DEF Counted

\* The processor's fields are fields.
LEMMA FieldKinds ==
  /\ AlwaysConsulted \subseteq Fields
  /\ SwitchedFields \subseteq Fields
  /\ ControlFields \subseteq Fields
<1>1. ControlFields \subseteq AlwaysConsulted \cup SwitchedFields
  BY ZenonT(40) DEF ControlFields, AlwaysConsulted, SwitchedFields
<1> QED
  BY <1>1 DEF Fields

\* Fields that are no controls and no counts.
LEMMA PlainFields ==
  /\ \A f \in AlwaysConsulted \cup SwitchedFields :
       f \notin ControlFields /\ f \notin DOMAIN Counted => f \in Plain
  /\ {"HOST_IA32_PAT", "HOST_IA32_EFER", "GUEST_IA32_PAT", "GUEST_IA32_EFER"}
       \subseteq Plain \ TableFields
  /\ {"EXCEPTION_BITMAP", "EPT_POINTER", "HOST_RSP", "HOST_RIP"} \subseteq Plain \ TableFields
  /\ "GUEST_RIP" \in Plain
<1>1. \A f \in AlwaysConsulted \cup SwitchedFields :
        f \notin ControlFields /\ f \notin DOMAIN Counted => f \in Plain
  BY FieldKinds DEF Plain
<1>2. \A f \in {"HOST_IA32_PAT", "HOST_IA32_EFER", "GUEST_IA32_PAT", "GUEST_IA32_EFER",
                "EXCEPTION_BITMAP", "EPT_POINTER", "HOST_RSP", "HOST_RIP", "GUEST_RIP"} :
        f \notin ControlFields /\ f \notin DOMAIN Counted /\ f \notin TableFields
  BY CountedAre DEF ControlFields, TableFields
<1>3. {"HOST_IA32_PAT", "HOST_IA32_EFER", "GUEST_IA32_PAT", "GUEST_IA32_EFER", "EPT_POINTER"}
        \subseteq SwitchedFields
  BY Zenon DEF SwitchedFields
<1>4. {"EXCEPTION_BITMAP", "HOST_RSP", "HOST_RIP", "GUEST_RIP"} \subseteq AlwaysConsulted
  BY ZenonT(40) DEF AlwaysConsulted
<1> QED
  BY <1>1, <1>2, <1>3, <1>4

\* The fields written by Writes are no controls, and but for the zeroed ones no
\* counts.
LEMMA OtherFields ==
  /\ ZeroedFields \in Seq(Fields \ ControlFields)
  /\ BitmapFields \in Seq(Plain)
  /\ HostRegisters \in Seq(Plain)
  /\ GuestRegisters \in Seq(Plain)
<1>1. ZeroedFields \in Seq(Fields \ ControlFields)
  <2>1. ZeroedFields \in Seq(AlwaysConsulted)
    BY DEF AlwaysConsulted, ZeroedFields
  <2>2. ZeroedFields \in Seq(AlwaysConsulted \ ControlFields)
    BY <2>1 DEF ZeroedFields, ControlFields
  <2> QED
    BY <2>2, FieldKinds
<1>2. BitmapFields \in Seq(Plain)
  BY PlainFields, CountedAre DEF ControlFields, BitmapFields, SwitchedFields
<1>3. HostRegisters \in Seq(Plain)
  <2>1. \A i \in 1..18 : HostRegisters[i] \in AlwaysConsulted
    BY DEF AlwaysConsulted, HostRegisters
  <2>2. \A i \in 1..18 : /\ HostRegisters[i] \notin ControlFields
                          /\ HostRegisters[i] \notin DOMAIN Counted
    BY CountedAre DEF ControlFields, HostRegisters
  <2>3. \A i \in 1..18 : HostRegisters[i] \in Plain
    BY <2>1, <2>2, PlainFields
  <2>4. HostRegisters = [i \in 1..18 |-> HostRegisters[i]]
    BY DEF HostRegisters
  <2> QED
    BY <2>3, <2>4
<1>4. GuestRegisters \in Seq(Plain)
  <2>1. \A i \in 1..27 : GuestRegisters[i] \in AlwaysConsulted
    BY DEF AlwaysConsulted, GuestRegisters
  <2>2. \A i \in 1..27 : /\ GuestRegisters[i] \notin ControlFields
                          /\ GuestRegisters[i] \notin DOMAIN Counted
    BY CountedAre DEF ControlFields, GuestRegisters
  <2>3. \A i \in 1..27 : GuestRegisters[i] \in Plain
    BY <2>1, <2>2, PlainFields
  <2>4. GuestRegisters = [i \in 1..27 |-> GuestRegisters[i]]
    BY DEF GuestRegisters
  <2> QED
    BY <2>3, <2>4
<1> QED
  BY <1>1, <1>2, <1>3, <1>4

\* The elements of a sequence of fields are fields.
LEMMA RangeIn ==
  ASSUME NEW S, NEW s \in Seq(S)
  PROVE  Range(s) \subseteq S
BY DEF Range

-----------------------------------------------------------------------------
(* Sequences of writes.                                                    *)

\* The elements of a concatenation.
LEMMA RangeConcat ==
  ASSUME NEW S, NEW s \in Seq(S), NEW t \in Seq(S)
  PROVE  Range(s \o t) = Range(s) \cup Range(t)
<1>1. /\ s \o t \in Seq(S) /\ Len(s \o t) = Len(s) + Len(t)
      /\ \A i \in 1..Len(s) : (s \o t)[i] = s[i]
      /\ DOMAIN s = 1..Len(s) /\ DOMAIN t = 1..Len(t) /\ DOMAIN (s \o t) = 1..(Len(s) + Len(t))
      /\ \A i \in 1..Len(t) : (s \o t)[i + Len(s)] = t[i]
  OBVIOUS
<1>2. ASSUME NEW i \in 1..Len(s) + Len(t) PROVE (s \o t)[i] \in Range(s) \cup Range(t)
  <2>1. CASE i <= Len(s)
    BY <1>1, <2>1 DEF Range
  <2>2. CASE i > Len(s)
    <3>1. i - Len(s) \in 1..Len(t) /\ (s \o t)[i] = t[i - Len(s)]
      BY <1>1, <2>2
    <3> QED
      BY <3>1 DEF Range
  <2> QED
    BY <2>1, <2>2
<1>3. ASSUME NEW i \in 1..Len(s) PROVE s[i] \in Range(s \o t)
  BY <1>1 DEF Range
<1>4. ASSUME NEW i \in 1..Len(t) PROVE t[i] \in Range(s \o t)
  <2>1. i + Len(s) \in 1..Len(s \o t)
    BY <1>1
  <2> QED
  BY <1>1, <2>1, SMTT(30) DEF Range
<1> QED
  BY <1>1, <1>2, <1>3, <1>4, ZenonT(40) DEF Range

\* The elements of a sequence are its head and those of its tail.
LEMMA RangeHeadTail ==
  ASSUME NEW S, NEW s \in Seq(S), s # <<>>
  PROVE  Range(s) = {Head(s)} \cup Range(Tail(s))
<1>1. /\ Head(s) = s[1] /\ Tail(s) \in Seq(S) /\ Len(Tail(s)) = Len(s) - 1 /\ Len(s) > 0
      /\ \A i \in 1..Len(s) - 1 : Tail(s)[i] = s[i + 1]
      /\ DOMAIN s = 1..Len(s) /\ DOMAIN Tail(s) = 1..(Len(s) - 1)
  OBVIOUS
<1>2. ASSUME NEW i \in 1..Len(s), i # 1 PROVE s[i] \in Range(Tail(s))
  <2>1. i - 1 \in 1..Len(s)-1 /\ Tail(s)[i - 1] = s[i]
    BY <1>1, <1>2
  <2> QED
    BY <1>1, <2>1, Zenon DEF Range
<1>3. ASSUME NEW i \in 1..Len(Tail(s)) PROVE Tail(s)[i] \in Range(s)
  <2>1. i + 1 \in 1..Len(s) /\ Tail(s)[i] = s[i + 1]
    BY <1>1
  <2> QED
    BY <1>1, <2>1 DEF Range
<1>4. s[1] \in Range(s)
  BY <1>1 DEF Range
<1> QED
  BY <1>1, <1>2, <1>3, <1>4 DEF Range

\* The value of a control field is a set of bits, none of them bad.
LEMMA ValueGood ==
  ASSUME NEW ctl \in [ControlNames -> ControlCapability], NEW c \in ControlNames
  PROVE  Value(ctl, c) \in SUBSET ValueNames /\ Value(ctl, c) \cap Bad = {}
<1>1. Bits \subseteq ValueNames /\ Bits \cap Bad = {}
  <2>1. Bits \subseteq ValueNames
    BY Zenon DEF ValueNames
  <2>2. ASSUME NEW b \in Bits PROVE b \notin Bad
    BY DEF Bits, Bad
  <2> QED
    BY <2>1, <2>2
<1>2. ctl[c].required \subseteq Bits
  BY DEF ControlCapability
<1>3. Request[c] \subseteq Bits
  BY DEF Request, Desired, primary_request, ControlNames, Bits
<1> QED
  BY <1>1, <1>2, <1>3 DEF Value, chosen

\* Good is not lost when the tables change.
LEMMA GoodLater ==
  ASSUME NEW ctl, NEW n \in Nat, NEW m \in Nat, n <= m, NEW f, NEW v, Good(ctl, n, f, v)
  PROVE  Good(ctl, m, f, v)
<1>1. m = 0 => n = 0
  OBVIOUS
<1> QED
  BY <1>1 DEF Good

\* The writes of fields that are no controls.
LEMMA WritesGood ==
  ASSUME NEW ctl, NEW n, NEW fields \in Seq(Fields \ ControlFields),
         NEW value \in ValueNames, value \notin Bad, value = "zero" \/ fields \in Seq(Plain),
         tables \in {"activated", "changed"}, n = 0 => tables = "activated"
  PROVE  /\ Writes(fields, value) \in Seq(FieldWrites)
         /\ GoodWrites(ctl, n, Writes(fields, value))
         /\ Covers(Writes(fields, value), Range(fields))
<1> DEFINE W == Writes(fields, value)
           val(f) == {IF f \in TableFields THEN tables ELSE value}
<1>1. /\ DOMAIN W = 1..Len(fields) /\ DOMAIN fields = 1..Len(fields)
      /\ \A i \in 1..Len(fields) : W[i] = <<fields[i], val(fields[i])>>
                                   /\ fields[i] \in Fields \ ControlFields
                                   /\ (value = "zero" \/ fields[i] \in Plain)
  BY DEF Writes
<1>2. ASSUME NEW f \in Fields \ ControlFields, value = "zero" \/ f \in Plain
      PROVE  Good(ctl, n, f, val(f)) /\ <<f, val(f)>> \in FieldWrites
  <2>1. f \notin ControlFields /\ f \in Fields
    OBVIOUS
  <2>2. val(f) \in SUBSET ValueNames
    BY Zenon DEF ValueNames
  <2>3. val(f) \cap Bad = {}
    BY DEF Bad
  <2>4. n = 0 /\ f \in TableFields => val(f) = {"activated"}
    OBVIOUS
  <2>7. f \in DOMAIN Counted => val(f) = {"zero"}
    <3>1. f \in DOMAIN Counted => value = "zero" /\ f \notin TableFields
      BY <1>2, CountedAre DEF Plain, TableFields
    <3> QED
      BY <3>1, Zenon
  <2>5. Good(ctl, n, f, val(f))
    <3> HIDE DEF val
    <3> QED
      BY <2>1, <2>3, <2>4, <2>7 DEF Good, ControlFields
  <2>6. <<f, val(f)>> \in FieldWrites
    BY <2>1, <2>2 DEF FieldWrites
  <2> QED
    BY <2>5, <2>6
<1> HIDE DEF W, val
<1>3. W \in Seq(FieldWrites)
  <2>1. W = [i \in 1..Len(fields) |-> W[i]]
    BY DEF Writes, W
  <2>2. \A i \in 1..Len(fields) : W[i] \in FieldWrites
    BY <1>1, <1>2, Zenon
  <2> QED
    BY <2>1, <2>2
<1>4. GoodWrites(ctl, n, W)
  <2>1. ASSUME NEW i \in 1..Len(fields) PROVE Good(ctl, n, W[i][1], W[i][2])
    <3>1. /\ W[i][1] = fields[i] /\ W[i][2] = val(fields[i]) /\ fields[i] \in Fields \ ControlFields
          /\ value = "zero" \/ fields[i] \in Plain
      BY <1>1
    <3> QED
      BY <3>1, <1>2, Zenon
  <2> QED
    BY <1>1, <2>1 DEF GoodWrites, Range
<1>5. Covers(W, Range(fields))
  BY <1>1 DEF Covers, Range
<1> QED
  BY <1>3, <1>4, <1>5 DEF W

\* One write.
LEMMA OneWrite ==
  ASSUME NEW ctl, NEW n, NEW f \in Fields, NEW v \in SUBSET ValueNames, Good(ctl, n, f, v)
  PROVE  /\ <<<<f, v>>>> \in Seq(FieldWrites)
         /\ GoodWrites(ctl, n, <<<<f, v>>>>)
         /\ Covers(<<<<f, v>>>>, {f})
<1>1. <<f, v>> \in FieldWrites
  BY DEF FieldWrites
<1>2. PICK p : p = <<f, v>>
  BY Zenon
<1>3. Range(<<p>>) = {p} /\ p[1] = f /\ p[2] = v /\ <<p>> \in Seq(FieldWrites)
  BY <1>1, <1>2 DEF Range
<1> QED
  BY <1>2, <1>3 DEF GoodWrites, Covers

\* Writes followed by more writes.
LEMMA JoinWrites ==
  ASSUME NEW ctl, NEW n, NEW s \in Seq(FieldWrites), NEW t \in Seq(FieldWrites), NEW F, NEW G,
         GoodWrites(ctl, n, s), GoodWrites(ctl, n, t), Covers(s, F), Covers(t, G)
  PROVE  /\ s \o t \in Seq(FieldWrites)
         /\ GoodWrites(ctl, n, s \o t)
         /\ Covers(s \o t, F \cup G)
<1>1. Range(s \o t) = Range(s) \cup Range(t)
  BY RangeConcat
<1>2. s \o t \in Seq(FieldWrites)
  OBVIOUS
<1>3. GoodWrites(ctl, n, s \o t)
  BY <1>1, Zenon DEF GoodWrites
<1>4. Covers(s \o t, F \cup G)
  BY <1>1, Zenon DEF Covers
<1> QED
  BY <1>2, <1>3, <1>4

\* No writes.
LEMMA NoWrites ==
  ASSUME NEW ctl, NEW n
  PROVE  <<>> \in Seq(FieldWrites) /\ GoodWrites(ctl, n, <<>>) /\ Covers(<<>>, {})
<1>1. Range(<<>>) = {}
  BY DEF Range
<1> QED
  BY <1>1 DEF GoodWrites, Covers

\* PAT and EFER.
LEMMA LoadWritesGood ==
  ASSUME NEW ctl, NEW n, NEW loads,
         NEW pat \in Plain \ TableFields,
         NEW efer \in Plain \ TableFields,
         NEW value \in ValueNames, value \notin Bad
  PROVE  /\ LoadWrites(loads, pat, efer, value) \in Seq(FieldWrites)
         /\ GoodWrites(ctl, n, LoadWrites(loads, pat, efer, value))
         /\ Covers(LoadWrites(loads, pat, efer, value), LoadFields(loads, pat, efer))
<1> DEFINE one(b, f) == IF b THEN <<<<f, {value}>>>> ELSE <<>>
           only(b, f) == {g \in {f} : b}
<1>1. \A f \in Plain \ TableFields : Good(ctl, n, f, {value}) /\ f \in Fields
  BY DEF Good, ControlFields, Plain
<1>2. ASSUME NEW f \in Plain \ TableFields, NEW b
      PROVE  /\ one(b, f) \in Seq(FieldWrites)
             /\ GoodWrites(ctl, n, one(b, f))
             /\ Covers(one(b, f), only(b, f))
  <2>1. CASE b
    <3>1. one(b, f) = <<<<f, {value}>>>> /\ only(b, f) = {f}
      BY <2>1
    <3>2. {value} \in SUBSET ValueNames
      OBVIOUS
    <3>3. Good(ctl, n, f, {value}) /\ f \in Fields
      BY <1>1, Zenon
    <3> HIDE DEF one, only
    <3> QED
      BY <3>1, <3>2, <3>3, OneWrite, SMTT(30)
  <2>2. CASE ~b
    <3>1. one(b, f) = <<>> /\ only(b, f) = {}
      BY <2>2
    <3> HIDE DEF one, only
    <3> QED
      BY <3>1, NoWrites
  <2> QED
    BY <2>1, <2>2
<1>3. /\ LoadWrites(loads, pat, efer, value) =
           one("LOAD_IA32_PAT" \in loads, pat) \o one("LOAD_IA32_EFER" \in loads, efer)
      /\ LoadFields(loads, pat, efer) = only("LOAD_IA32_PAT" \in loads, pat) \cup
                                        only("LOAD_IA32_EFER" \in loads, efer)
  BY DEF LoadWrites, LoadFields
<1>4. PICK a, b, A, B :
        /\ a = one("LOAD_IA32_PAT" \in loads, pat) /\ b = one("LOAD_IA32_EFER" \in loads, efer)
        /\ A = only("LOAD_IA32_PAT" \in loads, pat)
        /\ B = only("LOAD_IA32_EFER" \in loads, efer)
  BY Zenon
<1> HIDE DEF one, only
<1>5. /\ a \in Seq(FieldWrites) /\ GoodWrites(ctl, n, a) /\ Covers(a, A)
      /\ b \in Seq(FieldWrites) /\ GoodWrites(ctl, n, b) /\ Covers(b, B)
  BY <1>2, <1>4
<1>6. /\ a \o b \in Seq(FieldWrites)
      /\ GoodWrites(ctl, n, a \o b)
      /\ Covers(a \o b, A \cup B)
  BY <1>5, JoinWrites
<1> QED
  BY <1>3, <1>4, <1>6, Zenon

\* StepFields names fields.
LEMMA StepFieldsAre ==
  ASSUME NEW ctl, NEW s
  PROVE  StepFields(ctl, s) \subseteq Fields
<1>1. \A loads : /\ LoadFields(loads, "HOST_IA32_PAT", "HOST_IA32_EFER") \subseteq Fields
                 /\ LoadFields(loads, "GUEST_IA32_PAT", "GUEST_IA32_EFER") \subseteq Fields
  BY PlainFields DEF LoadFields, Plain
<1>2. /\ ControlFields \subseteq Fields /\ Range(ZeroedFields) \subseteq Fields
      /\ Range(BitmapFields) \subseteq Fields /\ Range(HostRegisters) \subseteq Fields
      /\ Range(GuestRegisters) \subseteq Fields
      /\ {"EXCEPTION_BITMAP", "EPT_POINTER", "HOST_RSP", "HOST_RIP"} \subseteq Fields
  <2>1. /\ Range(ZeroedFields) \subseteq Fields \ ControlFields
        /\ Range(BitmapFields) \subseteq Plain /\ Range(HostRegisters) \subseteq Plain
        /\ Range(GuestRegisters) \subseteq Plain
    BY OtherFields, RangeIn, Zenon
  <2> QED
    BY <2>1, FieldKinds, PlainFields DEF Plain
<1> QED
  BY <1>1, <1>2, Zenon DEF StepFields

\* The first of the writes is done.
LEMMA StoreHead ==
  ASSUME NEW ctl, NEW n, NEW mem, DOMAIN mem = Fields,
         NEW t \in Seq(FieldWrites), t # <<>>, GoodWrites(ctl, n, t),
         NEW s, NEW k, WrittenBefore(ctl, n, mem, k), Settling(ctl, n, mem, t, s),
         NEW mem2, mem2 = [mem EXCEPT ![Head(t)[1]] = Head(t)[2]]
  PROVE  /\ DOMAIN mem2 = Fields
         /\ Tail(t) \in Seq(FieldWrites)
         /\ GoodWrites(ctl, n, Tail(t))
         /\ WrittenBefore(ctl, n, mem2, k)
         /\ Settling(ctl, n, mem2, Tail(t), s)
<1>1. Range(t) = {Head(t)} \cup Range(Tail(t)) /\ Head(t) \in Range(t)
  BY RangeHeadTail
<1>2. Tail(t) \in Seq(FieldWrites) /\ Head(t) \in FieldWrites
  OBVIOUS
<1>3. PICK f, v : f = Head(t)[1] /\ v = Head(t)[2]
  OBVIOUS
<1>4. f \in Fields /\ Good(ctl, n, f, v)
  BY <1>1, <1>2, <1>3 DEF FieldWrites, GoodWrites
<1>5. mem2[f] = v /\ \A g \in Fields : g # f => mem2[g] = mem[g]
  BY <1>3, <1>4
<1>6. \A g \in Fields : Good(ctl, n, g, mem[g]) => Good(ctl, n, g, mem2[g])
  BY <1>4, <1>5, Zenon
<1>7. WrittenBefore(ctl, n, mem2, k)
  BY <1>6, StepFieldsAre, Zenon DEF WrittenBefore
<1>8. ASSUME NEW g \in StepFields(ctl, s), ~Good(ctl, n, g, mem2[g])
      PROVE  \E p \in Range(Tail(t)) : p[1] = g
  <2>1. g \in Fields
    BY StepFieldsAre
  <2>2. ~Good(ctl, n, g, mem[g]) /\ g # f
    BY <1>4, <1>5, <1>6, <1>8, <2>1
  <2>3. PICK p \in Range(t) : p[1] = g
    BY <2>2 DEF Settling
  <2>4. p # Head(t)
    BY <2>2, <2>3, <1>3
  <2> QED
    BY <2>3, <2>4, <1>1
<1>9. Settling(ctl, n, mem2, Tail(t), s)
  BY <1>8, Zenon DEF Settling
<1>10. GoodWrites(ctl, n, Tail(t))
  BY <1>1, Zenon DEF GoodWrites
<1> QED
  BY <1>2, <1>7, <1>9, <1>10

\* With nothing left to write, a step has written all its fields.
LEMMA StepOver ==
  ASSUME NEW ctl, NEW n, NEW mem, NEW s \in StepNames, NEW k, k = Number(s) + 1,
         WrittenBefore(ctl, n, mem, Number(s)), Settling(ctl, n, mem, <<>>, s)
  PROVE  WrittenBefore(ctl, n, mem, k)
<1>1. Range(<<>>) = {}
  BY DEF Range
<1>2. \A f \in StepFields(ctl, s) : Good(ctl, n, f, mem[f])
  BY <1>1 DEF Settling
<1>3. ASSUME NEW x \in StepNames, Number(x) < k
      PROVE  Number(x) < Number(s) \/ x = s
  BY <1>3, StepPlaces, SameStep, SMTT(30)
<1> QED
  BY <1>2, <1>3, Zenon DEF WrittenBefore

\* A step that writes nothing.
LEMMA StepIdle ==
  ASSUME NEW ctl, NEW n, NEW mem, NEW s \in StepNames \ WriteSteps, NEW t
  PROVE  Settling(ctl, n, mem, t, s)
BY Zenon DEF Settling, StepFields, WriteSteps

\* Up to the self-test no step has fields to write.
LEMMA NothingYet ==
  ASSUME NEW ctl, NEW s \in StepNames, Number(s) < 4
  PROVE  StepFields(ctl, s) = {}
<1>1. Number(s) \in 1..16 /\ Steps[Number(s)] = s
  BY StepPlaces
<1>2. Number(s) = 1 \/ Number(s) = 2 \/ Number(s) = 3
  BY <1>1
<1>3. s = "check_vmx_support" \/ s = "creation" \/ s = "self-test"
  BY <1>1, <1>2, StepAt, ZenonT(60)
<1> QED
  BY <1>3, Zenon DEF StepFields

\* What has been written stays good when the tables change.
LEMMA WrittenLater ==
  ASSUME NEW ctl, NEW n \in Nat, NEW m \in Nat, n <= m, NEW mem, NEW k,
         WrittenBefore(ctl, n, mem, k)
  PROVE  WrittenBefore(ctl, m, mem, k)
BY GoodLater DEF WrittenBefore

\* A step that is about to write all its fields.
LEMMA StepBegun ==
  ASSUME NEW ctl, NEW n, NEW mem, NEW t, NEW s, Covers(t, StepFields(ctl, s))
  PROVE  Settling(ctl, n, mem, t, s)
BY DEF Covers, Settling

\* The five control fields.
LEMMA FiveControls ==
  ASSUME NEW ctl \in [ControlNames -> ControlCapability], NEW n
  PROVE  LET five == <<<<"PIN_BASED_VM_EXEC_CONTROL", Value(ctl, "pinbased")>>,
                       <<"PRIMARY_VM_EXEC_CONTROL", Value(ctl, "primary")>>,
                       <<"VM_EXIT_CONTROLS", Value(ctl, "exit")>>,
                       <<"VM_ENTRY_CONTROLS", Value(ctl, "entry")>>,
                       <<"SECONDARY_VM_EXEC_CONTROL", Value(ctl, "secondary")>>>>
         IN /\ five \in Seq(FieldWrites)
            /\ GoodWrites(ctl, n, five)
            /\ Covers(five, ControlFields)
<1>1. PICK a, b, c, d, e :
        /\ a = <<"PIN_BASED_VM_EXEC_CONTROL", Value(ctl, "pinbased")>>
        /\ b = <<"PRIMARY_VM_EXEC_CONTROL", Value(ctl, "primary")>>
        /\ c = <<"VM_EXIT_CONTROLS", Value(ctl, "exit")>>
        /\ d = <<"VM_ENTRY_CONTROLS", Value(ctl, "entry")>>
        /\ e = <<"SECONDARY_VM_EXEC_CONTROL", Value(ctl, "secondary")>>
  BY Zenon
<1>2. \A x \in ControlNames : Value(ctl, x) \in SUBSET ValueNames /\ Value(ctl, x) \cap Bad = {}
  BY ValueGood
<1>3. /\ ControlFields \subseteq Fields /\ ControlFields \cap TableFields = {}
      /\ ControlFields \cap DOMAIN Counted = {}
  BY FieldKinds, CountedAre DEF ControlFields, TableFields
<1>4. a \in FieldWrites /\ b \in FieldWrites /\ c \in FieldWrites /\ d \in FieldWrites
      /\ e \in FieldWrites
  BY <1>1, <1>2, <1>3 DEF FieldWrites, ControlFields, ControlNames
<1>5. /\ Good(ctl, n, a[1], a[2]) /\ Good(ctl, n, b[1], b[2]) /\ Good(ctl, n, c[1], c[2])
      /\ Good(ctl, n, d[1], d[2]) /\ Good(ctl, n, e[1], e[2])
  BY <1>1, <1>2, <1>3 DEF Good, ControlFields, ControlNames
<1>6. Range(<<a, b, c, d, e>>) = {a, b, c, d, e}
  BY DEF Range
<1>7. Covers(<<a, b, c, d, e>>, ControlFields)
  BY <1>1, <1>6 DEF Covers, ControlFields
<1>8. GoodWrites(ctl, n, <<a, b, c, d, e>>)
  BY <1>5, <1>6 DEF GoodWrites
<1>9. <<a, b, c, d, e>> \in Seq(FieldWrites)
  BY <1>4
<1> QED
  BY <1>1, <1>7, <1>8, <1>9

-----------------------------------------------------------------------------
(* Failures.                                                               *)

\* log_line keeps count of the changes.
LEMMA LogLine ==
  ASSUME VTypeOK, TablesTracked, log_line
  PROVE  /\ changes' \in Nat /\ changes <= changes' /\ changes' <= MaxChanges
         /\ tables' \in {"activated", "changed"}
         /\ TablesTracked'
<1>1. CASE UNCHANGED <<tables, changes>>
  BY <1>1 DEF VTypeOK, TablesTracked
<1>2. CASE /\ changes < MaxChanges
           /\ tables' = IF tables = "activated" THEN "changed" ELSE "activated"
           /\ changes' = changes + 1
  BY <1>2, CpusAssumption DEF VTypeOK, TablesTracked
<1> QED
  BY <1>1, <1>2 DEF log_line

\* A step that stops without a VMX failure.
LEMMA StopKeeps ==
  ASSUME VTypeOK, Unfailed, pc \notin Failed, NEW op, NEW error, stop(op, error)
  PROVE  pc' \in Failed /\ todo' = <<>> /\ ErrorKept'
<1>1. failed' = NoFailure /\ result'.instruction_error = 0
  BY DEF stop, Unfailed
<1>2. pc' \in Failed /\ todo' = <<>>
  BY DEF stop, Failed
<1>3. (IF failed'.readable THEN failed'.number ELSE 0) = 0
  BY <1>1 DEF NoFailure
<1> QED
  BY <1>1, <1>2, <1>3 DEF ErrorKept

\* A VMX instruction that fails.
LEMMA StepKeeps ==
  ASSUME NEW op, NEW other, vmx_fails(op, other), other # 0 => op = "resume"
  PROVE  pc' \in Failed /\ todo' = <<>> /\ ErrorKept'
<1>1. pc' \in Failed /\ todo' = <<>>
  BY DEF vmx_fails, Failed
<1>2. PICK error \in VmxErrors, number \in ErrorNumbers, readable \in BOOLEAN :
        /\ vm_error' = IF error # "VmFailValid" THEN vm_error
                       ELSE IF other # 0 THEN other ELSE number
        /\ failed' = IF error # "VmFailValid" THEN NoFailure
                     ELSE [number |-> number, readable |-> readable, replaced |-> other # 0]
        /\ result' = [operation |-> op, error |-> error,
                      instruction_error |-> instruction_error_for(error, vm_error', readable)]
  BY DEF vmx_fails
<1>3. \/ result'.instruction_error = IF failed'.readable THEN failed'.number ELSE 0
      \/ result'.operation = "resume" /\ failed'.replaced
  <2>1. CASE error = "VmFailValid" /\ other = 0
    BY <1>2, <2>1 DEF instruction_error_for
  <2>2. CASE error = "VmFailValid" /\ other # 0
    BY <1>2, <2>2, Zenon
  <2>3. CASE error # "VmFailValid"
    BY <1>2, <2>3 DEF instruction_error_for, NoFailure
  <2> QED
    BY <2>1, <2>2, <2>3
<1> QED
  BY <1>1, <1>3, Zenon DEF ErrorKept

\* Whatever stops a step leaves the invariant.
LEMMA FailInv ==
  ASSUME VInv, pc' \in Failed, todo' = <<>>, ErrorKept', MsrsExist', cpu' = cpu,
         controls' \in [ControlNames -> ControlCapability], DOMAIN vmcs' = Fields, log_line
  PROVE  VInv'
<1>1. VTypeOK /\ TablesTracked
  BY DEF VInv
<1>2. /\ changes' \in Nat /\ changes' <= MaxChanges
      /\ tables' \in {"activated", "changed"} /\ TablesTracked'
  BY <1>1, LogLine
<1>3. VTypeOK'
  <2>1. pc' \in StepNames
    BY Zenon DEF Failed, StepNames
  <2>2. todo' \in Seq(FieldWrites)
    OBVIOUS
  <2> QED
    BY <1>1, <1>2, <2>1, <2>2 DEF VTypeOK
<1>4. ControlsRead' /\ ControlsChosen' /\ FieldsWritten' /\ Unfailed'
  BY DEF ControlsRead, ControlsChosen, FieldsWritten, Unfailed
<1>5. LaunchDescribesActivatedTables'
  BY DEF LaunchDescribesActivatedTables, Failed
<1> QED
  BY <1>2, <1>3, <1>4, <1>5 DEF VInv

\* A step after check_vmx_support that goes on.
LEMMA GoInv ==
  ASSUME VInv, pc \notin Failed \cup {"check_vmx_support"}, log_line,
         UNCHANGED <<cpu, read, controls, result, failed>>,
         pc' \in StepNames \ Failed, todo' \in Seq(FieldWrites),
         todo' # <<>> => pc' \in WriteSteps, DOMAIN vmcs' = Fields,
         ControlsChosen', FieldsWritten',
         LaunchDescribesActivatedTables'
  PROVE  VInv'
<1>1. VTypeOK /\ TablesTracked
  BY DEF VInv
<1>2. /\ changes' \in Nat /\ changes' <= MaxChanges
      /\ tables' \in {"activated", "changed"} /\ TablesTracked'
  BY <1>1, LogLine
<1>3. VTypeOK'
  BY <1>1, <1>2 DEF VTypeOK
<1>4. MsrsExist'
  BY DEF VInv, MsrsExist
<1>5. ControlsRead'
  BY DEF VInv, ControlsRead, rdmsr, control_msr
<1>6. Unfailed' /\ ErrorKept'
  BY DEF VInv, Unfailed, ErrorKept
<1> QED
  BY <1>2, <1>3, <1>4, <1>5, <1>6 DEF VInv

-----------------------------------------------------------------------------
(* The actions.                                                            *)

\* VInv holds initially.
LEMMA InitInv ==
  ASSUME Init
  PROVE  VInv
<1>1. pc = "check_vmx_support" /\ todo = <<>> /\ read = {} /\ changes = 0
  BY DEF Init
<1>2. VTypeOK
  BY CpusAssumption DEF Init, VTypeOK, ControlNames, ControlCapability, Absent, StepNames
<1>3. pc \notin Failed /\ Number(pc) = 1
  BY <1>1, NumberAt, Zenon DEF Failed
<1>4. FieldsWritten
  <2>1. WrittenBefore(controls, changes, vmcs, Number(pc))
    BY <1>3, StepPlaces DEF WrittenBefore
  <2>2. GoodWrites(controls, changes, todo)
    BY <1>1, NoWrites
  <2> QED
    BY <1>1, <2>1, <2>2 DEF FieldsWritten
<1>5. ControlsRead /\ ControlsChosen /\ LaunchDescribesActivatedTables
  BY <1>1, <1>3 DEF ControlsRead, ControlsChosen, LaunchDescribesActivatedTables
<1>6. MsrsExist /\ TablesTracked
  BY <1>1 DEF Init, MsrsExist, TablesTracked
<1>7. Unfailed
  BY DEF Init, Unfailed
<1>8. ErrorKept
  BY DEF Init, ErrorKept, Ok, NoFailure
<1> QED
  BY <1>2, <1>4, <1>5, <1>6, <1>7, <1>8 DEF VInv

\* rdmsr gives a capability.
LEMMA RdmsrType ==
  ASSUME cpu \in Cpus, NEW m
  PROVE  rdmsr(m) \in ControlCapability
BY CpusAssumption DEF rdmsr, Absent, ControlCapability

\* detect and read_vmcs_control_msrs read MSRs that exist.
LEMMA ReadInv ==
  ASSUME VInv, cpu' = cpu, detect = "Supported", read_vmcs_control_msrs
  PROVE  MsrsExist'
<1> DEFINE primary == rdmsr(control_msr("primary"))
           secondary == IF secondary_exists(primary) THEN rdmsr(<<"secondary">>) ELSE Absent
<1>1. cpu \in Cpus /\ cpu.vmx /\ cpu.vmx \in BOOLEAN
  BY CpusAssumption DEF VInv, VTypeOK, detect
<1>2. \A n \in {"pinbased", "primary", "exit", "entry"} : control_msr(n) \in DOMAIN cpu.msr
  BY <1>1, MsrsAssumption, Zenon DEF control_msr
<1>3. secondary_exists(primary) => <<"secondary">> \in DOMAIN cpu.msr
  <2>1. primary = cpu.msr[control_msr("primary")]
    BY <1>2 DEF rdmsr
  <2> QED
    BY <1>1, <2>1, MsrsAssumption, Zenon DEF secondary_exists, allows, control_msr
<1>4. ept_cap_exists(secondary) =>
        <<"secondary">> \in DOMAIN cpu.msr /\
          cpu.msr[<<"secondary">>].allowed \cap {"ENABLE_EPT", "ENABLE_VPID"} # {}
  BY <1>3 DEF ept_cap_exists, allows, rdmsr, Absent
<1>5. ASSUME NEW msr \in read'
      PROVE  \/ msr \in read
             \/ msr \in {<<"feature_control">>, <<"basic">>}
             \/ msr \in {control_msr(n) : n \in {"pinbased", "primary", "exit", "entry"}}
             \/ msr = <<"secondary">> /\ secondary_exists(primary)
             \/ msr = <<"ept_vpid_cap">> /\ ept_cap_exists(secondary)
  BY DEF read_vmcs_control_msrs
<1> HIDE DEF primary, secondary
<1> QED
  BY <1>1, <1>2, <1>3, <1>4, <1>5 DEF VInv, MsrsExist

\* check_vmx_support.
LEMMA CheckInv ==
  ASSUME VInv, check_vmx_support
  PROVE  VInv'
<1>1. /\ pc = "check_vmx_support" /\ pc \notin Failed /\ log_line
      /\ VTypeOK /\ Unfailed /\ cpu' = cpu /\ vmcs' = vmcs
  BY DEF check_vmx_support, VInv, Failed
<1>2. DOMAIN vmcs' = Fields
  BY <1>1 DEF VTypeOK
<1>3. CASE /\ detect # "Supported"
           /\ read' = IF cpu.vmx THEN read \cup {<<"feature_control">>} ELSE read
           /\ stop("detect", detect)
           /\ UNCHANGED controls
  <2>1. MsrsExist'
    BY <1>1, <1>3 DEF VInv, MsrsExist
  <2>2. controls' \in [ControlNames -> ControlCapability]
    BY <1>1, <1>3 DEF VTypeOK
  <2>3. pc' \in Failed /\ todo' = <<>> /\ ErrorKept'
    BY <1>1, <1>3, StopKeeps
  <2> QED
    BY <1>1, <1>2, <2>1, <2>2, <2>3, FailInv
<1>4. CASE /\ detect = "Supported"
           /\ read_vmcs_control_msrs
           /\ IF allows(controls'.secondary, {"ENABLE_EPT"}) /\ cpu.ept
              THEN Proceed("creation", <<>>)
              ELSE stop("check_support", "EptUnsupported")
  <2>1. MsrsExist'
    BY <1>1, <1>4, ReadInv
  <2>2. PICK sec : sec \in {Absent, rdmsr(<<"secondary">>)} /\
          controls' = [pinbased |-> rdmsr(control_msr("pinbased")),
                       primary |-> rdmsr(control_msr("primary")),
                       exit |-> rdmsr(control_msr("exit")),
                       entry |-> rdmsr(control_msr("entry")), secondary |-> sec]
    BY <1>4 DEF read_vmcs_control_msrs
  <2>3. \A m : rdmsr(m) \in ControlCapability
    BY <1>1, RdmsrType, SMTT(30) DEF VTypeOK
  <2>4. sec \in ControlCapability
    BY <2>2, <2>3 DEF Absent, ControlCapability
  <2>5. controls' \in [ControlNames -> ControlCapability]
    BY <2>2, <2>3, <2>4 DEF ControlNames
  <2>6. /\ controls'["pinbased"] = rdmsr(control_msr("pinbased"))'
        /\ controls'["primary"] = rdmsr(control_msr("primary"))'
        /\ controls'["exit"] = rdmsr(control_msr("exit"))'
        /\ controls'["entry"] = rdmsr(control_msr("entry"))'
        /\ controls'["secondary"] \in {Absent, rdmsr(<<"secondary">>)'}
    BY <1>1, <2>2 DEF rdmsr, control_msr
  <2>7. CASE stop("check_support", "EptUnsupported")
    <3>1. pc' \in Failed /\ todo' = <<>> /\ ErrorKept'
      BY <1>1, <2>7, StopKeeps
    <3> QED
      BY <1>1, <1>2, <2>1, <2>5, <3>1, FailInv
  <2>8. CASE Proceed("creation", <<>>)
    <3>1. pc' = "creation" /\ todo' = <<>> /\ UNCHANGED <<failed, result>>
      BY <2>8 DEF Proceed
    <3>2. pc' \notin Failed /\ Number(pc') = 2 /\ pc' # "launch"
      BY <3>1, NumberAt, Zenon DEF Failed
    <3>3. /\ changes' \in Nat /\ changes' <= MaxChanges
          /\ tables' \in {"activated", "changed"} /\ TablesTracked'
      BY <1>1, LogLine DEF VInv
    <3>4. VTypeOK'
      <4>1. cpu' \in Cpus
        BY <1>1 DEF VTypeOK
      <4>2. pc' \in StepNames /\ todo' \in Seq(FieldWrites)
        BY <3>1 DEF StepNames
      <4> QED
        BY <1>2, <2>5, <3>1, <3>3, <4>1, <4>2 DEF VTypeOK
    <3>5. ControlsRead'
      BY <2>6 DEF ControlsRead
    <3>6. ControlsChosen' /\ LaunchDescribesActivatedTables'
      BY <3>2 DEF ControlsChosen, LaunchDescribesActivatedTables
    <3>7. FieldsWritten'
      <4>1. \A f, k : k \in StepNames /\ Number(k) < 2 => f \notin StepFields(controls', k)
        <5>1. \A k \in StepNames : Number(k) < 2 => k = "check_vmx_support"
          <6>1. ASSUME NEW k \in StepNames, Number(k) < 2 PROVE Number(k) = 1 /\ Steps[Number(k)] = k
            BY <6>1, StepPlaces
          <6> QED
            BY <6>1, StepAt, ZenonT(60)
        <5>2. StepFields(controls', "check_vmx_support") = {}
          BY DEF StepFields
        <5> QED
          BY <5>1, <5>2
      <4>2. WrittenBefore(controls', changes', vmcs', Number(pc'))
        BY <3>2, <4>1, Zenon DEF WrittenBefore
      <4>3. GoodWrites(controls', changes', todo')
        BY <3>1, NoWrites
      <4> QED
        BY <3>1, <4>2, <4>3 DEF FieldsWritten
    <3>8. Unfailed' /\ ErrorKept'
      BY <1>1, <3>1 DEF VInv, Unfailed, ErrorKept
    <3> QED
      BY <2>1, <3>3, <3>4, <3>5, <3>6, <3>7, <3>8 DEF VInv
  <2> QED
    BY <1>4, <2>7, <2>8
<1> QED
  BY <1>3, <1>4 DEF check_vmx_support

\* A step that is over, with its fields written.
LEMMA AdvanceFields ==
  ASSUME VInv, pc \notin Failed, controls' = controls, log_line,
         pc' \in StepNames, Number(pc') = Number(pc) + 1, todo' = <<>>,
         WrittenBefore(controls, changes, vmcs', Number(pc)),
         Settling(controls, changes, vmcs', <<>>, pc)
  PROVE  FieldsWritten'
<1>1. VTypeOK /\ TablesTracked /\ pc \in StepNames /\ changes \in Nat
  BY DEF VInv, VTypeOK
<1>2. changes' \in Nat /\ changes <= changes'
  BY <1>1, LogLine
<1>3. WrittenBefore(controls, changes, vmcs', Number(pc'))
  BY <1>1, StepOver
<1>4. WrittenBefore(controls', changes', vmcs', Number(pc'))
  BY <1>1, <1>2, <1>3, WrittenLater
<1>5. GoodWrites(controls', changes', todo')
  BY NoWrites
<1> QED
  BY <1>4, <1>5 DEF FieldsWritten

\* A step that goes on to the next one.
LEMMA AdvanceInv ==
  ASSUME VInv, pc \notin Failed \cup {"check_vmx_support", "launch",
                                     "check_host_tables_preserved"},
         log_line, UNCHANGED <<cpu, read, controls, result, failed>>,
         pc' = After(pc), todo' = <<>>, DOMAIN vmcs' = Fields,
         Number(pc) = 4 => todo # <<>>,
         WrittenBefore(controls, changes, vmcs', Number(pc)),
         Settling(controls, changes, vmcs', <<>>, pc)
  PROVE  VInv'
<1>1. pc \in StepNames /\ pc \notin Failed
  BY DEF VInv, VTypeOK
<1>2. Number(pc) \in Nat /\ Number(pc) < 12
  BY <1>1, LateSteps DEF Failed
<1>3. pc' \in StepNames /\ Number(pc') = Number(pc) + 1
  BY <1>1, <1>2, NextStep
<1>4. pc' \notin Failed /\ pc' # "launch"
  BY <1>2, <1>3, LateSteps DEF Failed
<1>5. ControlsChosen'
  BY <1>1, <1>2, <1>3 DEF VInv, ControlsChosen
<1>6. FieldsWritten'
  BY <1>1, <1>3, AdvanceFields
<1>7. LaunchDescribesActivatedTables'
  BY <1>4 DEF LaunchDescribesActivatedTables
<1>8. todo' \in Seq(FieldWrites)
  OBVIOUS
<1> QED
  BY <1>3, <1>4, <1>5, <1>6, <1>7, <1>8, GoInv

\* create_current.
LEMMA CreateInv ==
  ASSUME VInv, create_current
  PROVE  VInv'
<1>1. /\ pc = "creation" /\ pc \notin Failed /\ Number(pc) = 2 /\ log_line
      /\ VTypeOK /\ Unfailed /\ UNCHANGED <<cpu, read, controls, vmcs>>
  BY NumberAt, Zenon DEF create_current, VInv, Failed, log_line
<1>2. DOMAIN vmcs' = Fields /\ controls' \in [ControlNames -> ControlCapability]
  BY <1>1 DEF VTypeOK
<1>3. MsrsExist'
  BY <1>1 DEF VInv, MsrsExist
<1>4. CASE Proceed("self-test", <<>>)
  <2>1. pc' = After(pc) /\ todo' = <<>> /\ UNCHANGED <<result, failed>>
    <3>1. After(pc) \in StepNames /\ Number(After(pc)) = 3
      BY <1>1, NextStep DEF VTypeOK
    <3>2. After(pc) = Steps[3]
      BY <3>1, StepPlaces
    <3> QED
      BY <1>4, <3>2, StepAt, Zenon DEF Proceed
  <2>2. Settling(controls, changes, vmcs', <<>>, pc)
    BY <1>1, StepIdle, Zenon DEF StepNames, WriteSteps
  <2>3. WrittenBefore(controls, changes, vmcs', Number(pc))
    BY <1>1 DEF VInv, FieldsWritten
  <2> QED
    BY <1>1, <1>2, <2>1, <2>2, <2>3, AdvanceInv
<1>5. ASSUME NEW error, stop("creation", error)
      PROVE  VInv'
  <2>1. pc' \in Failed /\ todo' = <<>> /\ ErrorKept'
    BY <1>1, <1>5, StopKeeps
  <2> QED
    BY <1>1, <1>2, <1>3, <2>1, FailInv
<1> QED
  BY <1>4, <1>5 DEF create_current

\* exit_control_readback.
LEMMA ReadbackInv ==
  ASSUME VInv, exit_control_readback
  PROVE  VInv'
<1>1. /\ pc = "exit-control readback" /\ pc \notin Failed /\ Number(pc) = 8 /\ log_line
      /\ VTypeOK /\ Unfailed /\ UNCHANGED <<cpu, read, controls, vmcs>>
  BY NumberAt, Zenon DEF exit_control_readback, VInv, Failed, log_line
<1>2. DOMAIN vmcs' = Fields /\ controls' \in [ControlNames -> ControlCapability]
  BY <1>1, Zenon DEF VTypeOK
<1>3. MsrsExist'
  BY <1>1, Zenon DEF VInv, MsrsExist
<1>4. CASE Proceed(After(pc), <<>>)
  <2>1. pc' = After(pc) /\ todo' = <<>> /\ UNCHANGED <<result, failed>>
    BY <1>4 DEF Proceed
  <2>2. Settling(controls, changes, vmcs', <<>>, pc)
    BY <1>1, StepIdle, Zenon DEF StepNames, WriteSteps
  <2>3. WrittenBefore(controls, changes, vmcs', Number(pc))
    BY <1>1, Zenon DEF VInv, FieldsWritten
  <2>4. pc \notin Failed \cup {"check_vmx_support", "launch", "check_host_tables_preserved"}
    BY <1>1, Zenon
  <2>5. Number(pc) # 4
    BY <1>1, LateSteps, Zenon DEF VTypeOK
  <2> QED
    BY <1>1, <1>2, <2>1, <2>2, <2>3, <2>4, <2>5, AdvanceInv, Zenon
<1>5. CASE vmcs_step(pc)
  <2>1. pc' \in Failed /\ todo' = <<>> /\ ErrorKept'
    BY <1>5, StepKeeps, Zenon DEF vmcs_step
  <2> QED
    BY <1>1, <1>2, <1>3, <2>1, FailInv, Zenon
<1> QED
  BY <1>4, <1>5, Zenon DEF exit_control_readback

\* The writes of configure_controls.
LEMMA ControlWritesGood ==
  ASSUME VTypeOK, TablesTracked
  PROVE  LET W == control_writes([c \in DOMAIN controls |-> chosen(controls[c], Request[c])])
         IN /\ W \in Seq(FieldWrites)
            /\ GoodWrites(controls, changes, W)
            /\ Covers(W, StepFields(controls, "control setup"))
<1>1. PICK five : five = <<<<"PIN_BASED_VM_EXEC_CONTROL", Value(controls, "pinbased")>>,
                       <<"PRIMARY_VM_EXEC_CONTROL", Value(controls, "primary")>>,
                       <<"VM_EXIT_CONTROLS", Value(controls, "exit")>>,
                       <<"VM_ENTRY_CONTROLS", Value(controls, "entry")>>,
                       <<"SECONDARY_VM_EXEC_CONTROL", Value(controls, "secondary")>>>>
  BY Zenon
<1>2. PICK zeroed : zeroed = Writes(ZeroedFields, "zero")
  OBVIOUS
<1>3. PICK all : all = <<<<"EXCEPTION_BITMAP", {"all"}>>>>
  BY Zenon
<1>4. five \in Seq(FieldWrites) /\ GoodWrites(controls, changes, five) /\ Covers(five, ControlFields)
  BY <1>1, FiveControls, Zenon DEF VTypeOK
<1>5. /\ zeroed \in Seq(FieldWrites) /\ GoodWrites(controls, changes, zeroed)
      /\ Covers(zeroed, Range(ZeroedFields))
  <2>1. "zero" \in ValueNames /\ "zero" \notin Bad
    BY DEF ValueNames, Bad
  <2>2. tables \in {"activated", "changed"} /\ (changes = 0 => tables = "activated")
    BY DEF VTypeOK, TablesTracked
  <2>3. PICK z, fields : z = "zero" /\ fields = ZeroedFields
    OBVIOUS
  <2>4. /\ Writes(fields, z) \in Seq(FieldWrites)
        /\ GoodWrites(controls, changes, Writes(fields, z))
        /\ Covers(Writes(fields, z), Range(fields))
    <3>1. /\ fields \in Seq(Fields \ ControlFields) /\ z \in ValueNames /\ z \notin Bad
          /\ z = "zero"
      BY <2>1, <2>3, OtherFields
    <3> QED
      BY <2>2, <3>1, WritesGood, SMTT(30)
  <2> QED
    BY <1>2, <2>3, <2>4, Zenon
<1>6. /\ all \in Seq(FieldWrites) /\ GoodWrites(controls, changes, all)
      /\ Covers(all, {"EXCEPTION_BITMAP"})
  <2>1. "EXCEPTION_BITMAP" \in Fields /\ {"all"} \in SUBSET ValueNames
    BY PlainFields DEF Plain, ValueNames
  <2>2. Good(controls, changes, "EXCEPTION_BITMAP", {"all"})
    BY CountedAre DEF Good, Bad, TableFields
  <2> QED
    BY <1>3, <2>1, <2>2, OneWrite
<1>7. PICK both, covered : both = five \o zeroed /\ covered = ControlFields \cup Range(ZeroedFields)
  BY Zenon
<1>8. both \in Seq(FieldWrites) /\ GoodWrites(controls, changes, both) /\ Covers(both, covered)
  BY <1>4, <1>5, <1>7, JoinWrites, SMTT(30)
<1>9. /\ both \o all \in Seq(FieldWrites) /\ GoodWrites(controls, changes, both \o all)
      /\ Covers(both \o all, covered \cup {"EXCEPTION_BITMAP"})
  BY <1>6, <1>8, JoinWrites
<1>10. StepFields(controls, "control setup") = covered \cup {"EXCEPTION_BITMAP"}
  BY <1>7 DEF StepFields
<1>11. control_writes([c \in DOMAIN controls |-> chosen(controls[c], Request[c])]) = both \o all
  <2>1. PICK value : value = [c \in DOMAIN controls |-> chosen(controls[c], Request[c])]
    BY Zenon
  <2>2. /\ value.pinbased = Value(controls, "pinbased") /\ value.primary = Value(controls, "primary")
        /\ value.exit = Value(controls, "exit") /\ value.entry = Value(controls, "entry")
        /\ value.secondary = Value(controls, "secondary")
    BY <2>1 DEF VTypeOK, ControlNames, Value
  <2>3. control_writes(value) = (five \o zeroed) \o all
    BY <1>1, <1>2, <1>3, <2>2 DEF control_writes
  <2> QED
    BY <1>7, <2>1, <2>3
<1> QED
  BY <1>9, <1>10, <1>11, Zenon

\* The writes of configure_host_state and of GuestState::write.
LEMMA RegisterWritesGood ==
  ASSUME VTypeOK, TablesTracked, NEW fields \in Seq(Plain), NEW loads,
         NEW pat \in Plain \ TableFields,
         NEW efer \in Plain \ TableFields,
         NEW value \in ValueNames, value \notin Bad
  PROVE  LET W == Writes(fields, value) \o LoadWrites(loads, pat, efer, value)
         IN /\ W \in Seq(FieldWrites)
            /\ GoodWrites(controls, changes, W)
            /\ Covers(W, Range(fields) \cup LoadFields(loads, pat, efer))
<1>1. PICK a, b, A, B : /\ a = Writes(fields, value) /\ b = LoadWrites(loads, pat, efer, value)
                        /\ A = Range(fields) /\ B = LoadFields(loads, pat, efer)
  OBVIOUS
<1>2. a \in Seq(FieldWrites) /\ GoodWrites(controls, changes, a) /\ Covers(a, A)
  <2>1. tables \in {"activated", "changed"} /\ (changes = 0 => tables = "activated")
    BY DEF VTypeOK, TablesTracked
  <2>2. fields \in Seq(Fields \ ControlFields)
    BY DEF Plain
  <2> QED
    BY <1>1, <2>1, <2>2, WritesGood, SMTT(30)
<1>3. b \in Seq(FieldWrites) /\ GoodWrites(controls, changes, b) /\ Covers(b, B)
  BY <1>1, LoadWritesGood, Zenon
<1>4. a \o b \in Seq(FieldWrites) /\ GoodWrites(controls, changes, a \o b) /\ Covers(a \o b, A \cup B)
  BY <1>2, <1>3, JoinWrites
<1> QED
  BY <1>1, <1>4

\* A step that has worked out its writes.
LEMMA BegunInv ==
  ASSUME VInv, UNCHANGED <<cpu, read, controls, vmcs, tables, changes, result, failed>>,
         pc \in WriteSteps, pc' = pc, Number(pc) = 4 => Checked(controls),
         todo' \in Seq(FieldWrites),
         pc # "self-test" => GoodWrites(controls, changes, todo'),
         Covers(todo', StepFields(controls, pc))
  PROVE  VInv'
<1>1. pc \notin Failed \cup {"check_vmx_support", "launch"} /\ log_line /\ pc \in StepNames
  BY Zenon DEF Failed, WriteSteps, log_line, VInv, VTypeOK
<1>2. Settling(controls', changes', vmcs', todo', pc')
  BY StepBegun
<1>3. FieldsWritten'
  BY <1>1, <1>2 DEF VInv, FieldsWritten
<1>4. ControlsChosen'
  BY <1>1 DEF VInv, ControlsChosen
<1>5. LaunchDescribesActivatedTables'
  BY <1>1 DEF LaunchDescribesActivatedTables
<1>6. DOMAIN vmcs' = Fields
  BY DEF VInv, VTypeOK
<1> QED
  BY <1>1, <1>3, <1>4, <1>5, <1>6, GoInv

\* Past the control setup the control fields hold the chosen controls.
LEMMA ControlsWritten ==
  ASSUME VInv, pc \notin Failed, Number(pc) > 4
  PROVE  /\ vmcs["PIN_BASED_VM_EXEC_CONTROL"] = Value(controls, "pinbased")
         /\ vmcs["PRIMARY_VM_EXEC_CONTROL"] = Value(controls, "primary")
         /\ vmcs["SECONDARY_VM_EXEC_CONTROL"] = Value(controls, "secondary")
         /\ vmcs["VM_EXIT_CONTROLS"] = Value(controls, "exit")
         /\ vmcs["VM_ENTRY_CONTROLS"] = Value(controls, "entry")
<1>1. "control setup" \in StepNames /\ Number("control setup") < Number(pc)
  BY NumberAt, Zenon DEF StepNames
<1>2. ControlFields \subseteq StepFields(controls, "control setup")
  BY DEF StepFields
<1>3. \A f \in ControlFields : Good(controls, changes, f, vmcs[f])
  BY <1>1, <1>2, Zenon DEF VInv, FieldsWritten, WrittenBefore
<1> QED
  BY <1>3 DEF ControlFields, Good

\* A step of prepare_vmcs that stops before it writes.
LEMMA BeginFails ==
  ASSUME VInv, UNCHANGED <<cpu, read, controls, vmcs, tables, changes>>, pc \notin Failed,
         \/ \E op, error : stop(op, error)
         \/ \E op : vmcs_step(op)
         \/ vmresume_failed
  PROVE  VInv'
<1>1. VTypeOK /\ Unfailed
  BY DEF VInv
<1>2. pc' \in Failed /\ todo' = <<>> /\ ErrorKept'
  BY <1>1, StopKeeps, StepKeeps DEF vmcs_step, vmresume_failed
<1>3. /\ DOMAIN vmcs' = Fields /\ controls' \in [ControlNames -> ControlCapability]
      /\ log_line
  BY <1>1 DEF VTypeOK, log_line
<1>4. MsrsExist'
  BY DEF VInv, MsrsExist
<1> QED
  BY <1>2, <1>3, <1>4, FailInv

\* self_test.
LEMMA SelfTestInv ==
  ASSUME VInv, UNCHANGED <<cpu, read, controls, vmcs, tables, changes>>, self_test
  PROVE  VInv'
<1>1. /\ pc = "self-test" /\ pc' = pc /\ todo' = <<<<"GUEST_RIP", {"pattern"}>>>>
      /\ UNCHANGED <<result, failed>>
  BY DEF self_test, Begins, Proceed
<1>2. "GUEST_RIP" \in Fields /\ {"pattern"} \in SUBSET ValueNames
  BY PlainFields DEF Plain, ValueNames
<1>3. todo' \in Seq(FieldWrites)
  BY <1>1, <1>2 DEF FieldWrites
<1>4. Covers(todo', StepFields(controls, pc))
  BY <1>1 DEF Covers, StepFields
<1>5. pc \in WriteSteps
  BY <1>1 DEF WriteSteps
<1>6. Number(pc) # 4
  <2>1. Number(pc) = 3
    BY <1>1, NumberAt, Zenon
  <2> QED
    BY <2>1
<1> QED
  BY <1>1, <1>3, <1>4, <1>5, <1>6, BegunInv

\* configure_controls.
LEMMA ConfigureInv ==
  ASSUME VInv, UNCHANGED <<cpu, read, controls, vmcs, tables, changes>>, configure_controls
  PROVE  VInv'
<1> DEFINE W == control_writes([c \in DOMAIN controls |-> chosen(controls[c], Request[c])])
<1>1. pc = "control setup" /\ pc \notin Failed /\ pc \in WriteSteps
  BY Zenon DEF configure_controls, Begins, Failed, WriteSteps
<1>2. CASE \E op, error : stop(op, error)
  BY <1>1, <1>2, BeginFails, Zenon
<1>3. CASE Proceed(pc, W) /\ Checked(controls)
  <2>1. pc' = pc /\ todo' = W /\ UNCHANGED <<result, failed>>
    BY <1>3 DEF Proceed
  <2>2. /\ W \in Seq(FieldWrites)
        /\ GoodWrites(controls, changes, W)
        /\ Covers(W, StepFields(controls, pc))
    BY <1>1, ControlWritesGood, Zenon DEF VInv
  <2> HIDE DEF W
  <2> QED
    BY <1>1, <1>3, <2>1, <2>2, BegunInv, Zenon
<1>4. \/ \E op, error : stop(op, error)
      \/ Proceed(pc, W) /\ Checked(controls)
  <2>1. ControlNames = {"pinbased", "primary", "secondary"} \cup {"exit", "entry"}
    BY DEF ControlNames
  <2> QED
    BY <2>1, Zenon DEF configure_controls, Checked, nmi_window_allowed
<1> QED
  BY <1>2, <1>3, <1>4

\* set_ept_pointer.
LEMMA EptPointerInv ==
  ASSUME VInv, UNCHANGED <<cpu, read, controls, vmcs, tables, changes>>, set_ept_pointer
  PROVE  VInv'
<1>1. /\ pc = "EPT pointer setup" /\ pc' = pc /\ todo' = <<<<"EPT_POINTER", {"tables"}>>>>
      /\ UNCHANGED <<result, failed>>
  BY Zenon DEF set_ept_pointer, Begins, Proceed
<1>2. "EPT_POINTER" \in Fields /\ {"tables"} \in SUBSET ValueNames
  BY PlainFields DEF Plain, ValueNames
<1>3. Good(controls, changes, "EPT_POINTER", {"tables"})
  BY CountedAre DEF Good, Bad, TableFields
<1>4. /\ todo' \in Seq(FieldWrites) /\ GoodWrites(controls, changes, todo')
      /\ Covers(todo', {"EPT_POINTER"})
  BY <1>1, <1>2, <1>3, OneWrite, Zenon
<1>5. StepFields(controls, pc) = {"EPT_POINTER"}
  BY <1>1, Zenon DEF StepFields
<1>6. pc \in WriteSteps
  BY <1>1, Zenon DEF WriteSteps
<1>7. Number(pc) # 4
  <2>1. Number(pc) = 5
    BY <1>1, NumberAt, Zenon
  <2> QED
    BY <2>1
<1> QED
  BY <1>1, <1>4, <1>5, <1>6, <1>7, BegunInv, Zenon

\* ExitBitmaps::write_to_vmcs.
LEMMA BitmapsInv ==
  ASSUME VInv, UNCHANGED <<cpu, read, controls, vmcs, tables, changes>>, write_to_vmcs
  PROVE  VInv'
<1>1. /\ pc = "exit bitmap setup" /\ pc' = pc /\ todo' = Writes(BitmapFields, "page")
      /\ UNCHANGED <<result, failed>>
  BY Zenon DEF write_to_vmcs, Begins, Proceed
<1>2. PICK z, fields : z = "page" /\ fields = BitmapFields
  OBVIOUS
<1>3. z \in ValueNames /\ z \notin Bad
  BY <1>2 DEF ValueNames, Bad
<1>4. tables \in {"activated", "changed"} /\ (changes = 0 => tables = "activated")
  BY DEF VInv, VTypeOK, TablesTracked
<1>5. /\ Writes(fields, z) \in Seq(FieldWrites)
      /\ GoodWrites(controls, changes, Writes(fields, z))
      /\ Covers(Writes(fields, z), Range(fields))
  <2>1. fields \in Seq(Plain) /\ fields \in Seq(Fields \ ControlFields)
    BY <1>2, OtherFields DEF Plain
  <2> QED
    BY <2>1, <1>3, <1>4, WritesGood, Zenon
<1>6. StepFields(controls, pc) = Range(fields)
  BY <1>1, <1>2, Zenon DEF StepFields
<1>7. pc \in WriteSteps
  BY <1>1, Zenon DEF WriteSteps
<1>8. Number(pc) # 4
  <2>1. Number(pc) = 6
    BY <1>1, NumberAt, Zenon
  <2> QED
    BY <2>1
<1>9. todo' = Writes(fields, z)
  BY <1>1, <1>2, Zenon
<1> QED
  BY <1>1, <1>5, <1>6, <1>7, <1>8, <1>9, BegunInv, Zenon

\* configure_host_state.
LEMMA HostStateInv ==
  ASSUME VInv, UNCHANGED <<cpu, read, controls, vmcs, tables, changes>>, configure_host_state
  PROVE  VInv'
<1>1. pc = "host-state setup" /\ pc \notin Failed /\ pc \in WriteSteps
  BY Zenon DEF configure_host_state, Begins, Failed, WriteSteps
<1>2. Number(pc) = 7
  BY <1>1, NumberAt, Zenon
<1>5. Number(pc) > 4 /\ Number(pc) < 16 /\ Number(pc) + 1 = 8
  BY <1>2
<1>3. CASE stop(pc, "HostStateValidation") \/ vmcs_step(pc)
  BY <1>1, <1>3, BeginFails, Zenon
<1>4. CASE Proceed(pc, Writes(HostRegisters, "host") \o
          LoadWrites(vmcs["VM_EXIT_CONTROLS"], "HOST_IA32_PAT", "HOST_IA32_EFER", "host"))
  <2>1. PICK z, fields, loads, pat, efer :
          /\ z = "host" /\ fields = HostRegisters /\ loads = vmcs["VM_EXIT_CONTROLS"]
          /\ pat = "HOST_IA32_PAT" /\ efer = "HOST_IA32_EFER"
    OBVIOUS
  <2>2. PICK W : W = Writes(fields, z) \o LoadWrites(loads, pat, efer, z)
    BY Zenon
  <2>3. pc' = pc /\ todo' = W /\ UNCHANGED <<result, failed>>
    BY <1>4, <2>1, <2>2 DEF Proceed
  <2>4. z \in ValueNames /\ z \notin Bad
    BY <2>1 DEF ValueNames, Bad
  <2>5. pat \in Plain \ TableFields
        /\ efer \in Plain \ TableFields
    BY <2>1, PlainFields
  <2>6. fields \in Seq(Plain)
    BY <2>1, OtherFields
  <2>7. VTypeOK /\ TablesTracked
    BY DEF VInv
  <2>8. /\ W \in Seq(FieldWrites)
        /\ GoodWrites(controls, changes, W)
        /\ Covers(W, Range(fields) \cup LoadFields(loads, pat, efer))
    BY <2>2, <2>4, <2>5, <2>6, <2>7, RegisterWritesGood, Zenon
  <2>9. loads = Value(controls, "exit")
    BY <1>1, <1>5, <2>1, ControlsWritten, Zenon
  <2>10. StepFields(controls, pc) = Range(fields) \cup LoadFields(loads, pat, efer)
    BY <1>1, <2>1, <2>9, Zenon DEF StepFields
  <2>11. Number(pc) # 4
    BY <1>2
  <2> QED
    BY <1>1, <2>3, <2>8, <2>10, <2>11, BegunInv, Zenon
<1> QED
  BY <1>3, <1>4, Zenon DEF configure_host_state

\* configure_host_entry.
LEMMA HostEntryInv ==
  ASSUME VInv, UNCHANGED <<cpu, read, controls, vmcs, tables, changes>>, configure_host_entry
  PROVE  VInv'
<1>1. /\ pc = "host entry address setup" /\ pc' = pc /\ UNCHANGED <<result, failed>>
      /\ todo' = <<<<"HOST_RSP", {"exit stack"}>>, <<"HOST_RIP", {"vmexit_entry"}>>>>
  BY Zenon DEF configure_host_entry, Begins, Proceed
<1>2. PICK a, b : a = <<"HOST_RSP", {"exit stack"}>> /\ b = <<"HOST_RIP", {"vmexit_entry"}>>
  BY Zenon
<1>3. a \in FieldWrites /\ b \in FieldWrites
  <2>1. "HOST_RSP" \in Fields /\ "HOST_RIP" \in Fields
    BY PlainFields DEF Plain
  <2> QED
    BY <1>2, <2>1, Zenon DEF FieldWrites, ValueNames
<1>4. Good(controls, changes, a[1], a[2]) /\ Good(controls, changes, b[1], b[2])
  BY <1>2, CountedAre, Zenon DEF Good, Bad, TableFields
<1>5. Range(<<a, b>>) = {a, b} /\ <<a, b>> \in Seq(FieldWrites)
  BY <1>3 DEF Range
<1>6. todo' \in Seq(FieldWrites) /\ GoodWrites(controls, changes, todo')
  BY <1>1, <1>2, <1>4, <1>5, Zenon DEF GoodWrites
<1>7. Covers(todo', StepFields(controls, pc))
  <2>1. StepFields(controls, pc) = {"HOST_RSP", "HOST_RIP"}
    BY <1>1, Zenon DEF StepFields
  <2>2. a[1] = "HOST_RSP" /\ b[1] = "HOST_RIP" /\ Range(todo') = {a, b}
    BY <1>1, <1>2, <1>5, Zenon
  <2> QED
    BY <2>1, <2>2 DEF Covers
<1>8. pc \in WriteSteps
  BY <1>1, Zenon DEF WriteSteps
<1>9. Number(pc) # 4
  <2>1. Number(pc) = 9
    BY <1>1, NumberAt, Zenon
  <2> QED
    BY <2>1
<1> QED
  BY <1>1, <1>6, <1>7, <1>8, <1>9, BegunInv, Zenon

\* GuestState::from_current, which hands its writes to the next step.
LEMMA CollectInv ==
  ASSUME VInv, UNCHANGED <<cpu, read, controls, vmcs, tables, changes>>, from_current
  PROVE  VInv'
<1>1. /\ pc = "guest-state collection" /\ pc \notin Failed \cup {"check_vmx_support"}
      /\ pc \in StepNames /\ log_line
  BY Zenon DEF from_current, Begins, Failed, StepNames, log_line
<1>2. Number(pc) = 10
  BY <1>1, NumberAt, Zenon
<1>5. Number(pc) > 4 /\ Number(pc) < 16 /\ Number(pc) + 1 = 11
  BY <1>2
<1>3. CASE vmcs_step("guest-state write") \/ stop(pc, "GuestStateInvalid")
  BY <1>1, <1>3, BeginFails, Zenon
<1>4. CASE Proceed(After(pc), guest_writes)
  <2>1. PICK z, fields, loads, pat, efer :
          /\ z = "guest" /\ fields = GuestRegisters /\ loads = vmcs["VM_ENTRY_CONTROLS"]
          /\ pat = "GUEST_IA32_PAT" /\ efer = "GUEST_IA32_EFER"
    OBVIOUS
  <2>2. PICK W : W = Writes(fields, z) \o LoadWrites(loads, pat, efer, z)
    BY Zenon
  <2>3. pc' = After(pc) /\ todo' = W /\ UNCHANGED <<result, failed>>
    BY <1>4, <2>1, <2>2 DEF Proceed, guest_writes
  <2>4. z \in ValueNames /\ z \notin Bad
    BY <2>1 DEF ValueNames, Bad
  <2>5. pat \in Plain \ TableFields
        /\ efer \in Plain \ TableFields
    BY <2>1, PlainFields
  <2>6. fields \in Seq(Plain)
    BY <2>1, OtherFields
  <2>7. VTypeOK /\ TablesTracked
    BY DEF VInv
  <2>8. /\ W \in Seq(FieldWrites)
        /\ GoodWrites(controls, changes, W)
        /\ Covers(W, Range(fields) \cup LoadFields(loads, pat, efer))
    BY <2>2, <2>4, <2>5, <2>6, <2>7, RegisterWritesGood, Zenon
  <2>9. loads = Value(controls, "entry")
    BY <1>1, <1>5, <2>1, ControlsWritten, Zenon
  <2>10. Number(pc') = 11 /\ pc' = "guest-state write"
    <3>1. After(pc) \in StepNames /\ Number(After(pc)) = 11
      BY <1>1, <1>5, NextStep, Zenon
    <3>2. After(pc) = Steps[11]
      BY <3>1, StepPlaces
    <3> QED
      BY <2>3, <3>1, <3>2, StepAt, Zenon
  <2>11. StepFields(controls, pc') = Range(fields) \cup LoadFields(loads, pat, efer)
    BY <2>1, <2>9, <2>10, Zenon DEF StepFields
  <2>12. /\ pc' \in StepNames \ Failed /\ pc' \in WriteSteps /\ pc' # "launch"
         /\ pc \notin WriteSteps
    BY <1>1, <2>10, Zenon DEF StepNames, Failed, WriteSteps
  <2>13. WrittenBefore(controls, changes, vmcs, Number(pc'))
    <3>1. WrittenBefore(controls, changes, vmcs, Number(pc))
      BY <1>1, Zenon DEF VInv, FieldsWritten
    <3>2. Settling(controls, changes, vmcs, <<>>, pc)
      BY <1>1, <2>12, StepIdle, Zenon
    <3>3. Number(pc') = Number(pc) + 1
      BY <1>5, <2>10, Zenon
    <3> QED
      BY <1>1, <3>1, <3>2, <3>3, StepOver, Zenon
  <2>14. FieldsWritten'
    <3>1. Settling(controls, changes, vmcs, todo', pc')
      BY <2>3, <2>8, <2>11, StepBegun, Zenon
    <3> QED
      BY <2>3, <2>8, <2>13, <3>1 DEF FieldsWritten
  <2>15. ControlsChosen'
    BY <1>1, <1>5, Zenon DEF VInv, ControlsChosen
  <2>16. LaunchDescribesActivatedTables'
    BY <2>12 DEF LaunchDescribesActivatedTables
  <2>17. DOMAIN vmcs' = Fields
    BY <2>7 DEF VTypeOK
  <2>18. todo' \in Seq(FieldWrites)
    BY <2>3, <2>8
  <2> QED
    BY <1>1, <2>3, <2>12, <2>14, <2>15, <2>16, <2>17, <2>18, GoInv, Zenon
<1> QED
  BY <1>3, <1>4, Zenon DEF from_current

\* BeginStep.
LEMMA BeginInv ==
  ASSUME VInv, BeginStep
  PROVE  VInv'
<1>1. UNCHANGED <<cpu, read, controls, vmcs, tables, changes>>
  BY DEF BeginStep
<1> QED
  BY <1>1, SelfTestInv, ConfigureInv, EptPointerInv, BitmapsInv, HostStateInv, HostEntryInv,
     CollectInv DEF BeginStep

\* write_verified.
LEMMA WriteInv ==
  ASSUME VInv, write_verified
  PROVE  VInv'
<1>1. PICK f, v : f = Head(todo)[1] /\ v = Head(todo)[2]
  OBVIOUS
<1>2. /\ VTypeOK /\ Unfailed /\ TablesTracked /\ todo # <<>> /\ todo \in Seq(FieldWrites)
      /\ UNCHANGED <<cpu, read, controls>> /\ DOMAIN vmcs = Fields /\ pc \in StepNames
      /\ pc \in WriteSteps
  BY Zenon DEF VInv, VTypeOK, write_verified
<1>3. pc \notin Failed \cup {"check_vmx_support", "launch", "check_host_tables_preserved"}
  BY <1>2, ZenonT(60) DEF WriteSteps, Failed
<1>4. controls' \in [ControlNames -> ControlCapability] /\ MsrsExist'
  BY <1>2 DEF VTypeOK, VInv, MsrsExist
<1>5. UNCHANGED <<tables, changes>> => log_line
  BY DEF log_line
<1>6. CASE /\ vmcs_step(pc)
           /\ vmcs' = [vmcs EXCEPT ![f] = v] \/ UNCHANGED vmcs
           /\ UNCHANGED <<tables, changes>>
  <2>1. pc' \in Failed /\ todo' = <<>> /\ ErrorKept'
    BY <1>6, StepKeeps, Zenon DEF vmcs_step
  <2>2. DOMAIN vmcs' = Fields
    BY <1>2, <1>6
  <2> QED
    BY <1>2, <1>4, <1>5, <1>6, <2>1, <2>2, FailInv
<1>7. CASE /\ vmcs' = [vmcs EXCEPT ![f] = {"other"}]
           /\ stop(pc, "ReadbackMismatch")
           /\ UNCHANGED <<tables, changes>>
  <2>1. pc' \in Failed /\ todo' = <<>> /\ ErrorKept'
    BY <1>2, <1>3, <1>7, StopKeeps
  <2>2. DOMAIN vmcs' = Fields
    BY <1>2, <1>7
  <2> QED
    BY <1>2, <1>4, <1>5, <1>7, <2>1, <2>2, FailInv
<1>8. ASSUME vmcs' = [vmcs EXCEPT ![f] = v]
      PROVE  /\ DOMAIN vmcs' = Fields
             /\ Tail(todo) \in Seq(FieldWrites)
             /\ pc # "self-test" => GoodWrites(controls, changes, Tail(todo))
             /\ WrittenBefore(controls, changes, vmcs', Number(pc))
             /\ Settling(controls, changes, vmcs', Tail(todo), pc)
  <2>1. CASE pc # "self-test"
    <3>1. /\ GoodWrites(controls, changes, todo)
          /\ WrittenBefore(controls, changes, vmcs, Number(pc))
          /\ Settling(controls, changes, vmcs, todo, pc)
      BY <1>2, <1>3, <2>1 DEF VInv, FieldsWritten
    <3> QED
      BY <1>1, <1>2, <1>8, <3>1, StoreHead, ZenonT(60)
  <2>2. CASE pc = "self-test"
    <3>1. Number(pc) = 3
      BY <2>2, NumberAt, Zenon
    <3>2. Number(pc) < 4
      BY <3>1
    <3>3. WrittenBefore(controls, changes, vmcs', Number(pc))
      <4>1. ASSUME NEW s \in StepNames, Number(s) < Number(pc) PROVE Number(s) < 4
        BY <1>2, <3>2, <4>1, StepPlaces, SMTT(30)
      <4> QED
        BY <4>1, NothingYet, Zenon DEF WrittenBefore
    <3>4. Settling(controls, changes, vmcs', Tail(todo), pc)
      BY <2>2 DEF Settling, StepFields
    <3>5. DOMAIN vmcs' = Fields /\ Tail(todo) \in Seq(FieldWrites)
      BY <1>2, <1>8
    <3> QED
      BY <2>2, <3>3, <3>4, <3>5
  <2> QED
    BY <2>1, <2>2
<1>9. CASE /\ vmcs' = [vmcs EXCEPT ![f] = v]
           /\ Len(todo) > 1
           /\ Proceed(pc, Tail(todo))
           /\ UNCHANGED <<tables, changes>>
  <2>1. pc' = pc /\ todo' = Tail(todo) /\ UNCHANGED <<result, failed>>
    BY <1>9 DEF Proceed
  <2>2. FieldsWritten'
    BY <1>2, <1>8, <1>9, <2>1 DEF FieldsWritten
  <2>3. ControlsChosen'
    BY <1>2, <2>1 DEF VInv, ControlsChosen
  <2>4. LaunchDescribesActivatedTables'
    BY <1>3, <2>1 DEF LaunchDescribesActivatedTables
  <2>5. todo' \in Seq(FieldWrites) /\ DOMAIN vmcs' = Fields /\ log_line
    BY <1>5, <1>8, <1>9, <2>1
  <2> QED
    BY <1>2, <1>3, <2>1, <2>2, <2>3, <2>4, <2>5, GoInv
<1>10. CASE /\ vmcs' = [vmcs EXCEPT ![f] = v]
            /\ Len(todo) = 1
            /\ Proceed(After(pc), <<>>)
            /\ log_line
  <2>1. pc' = After(pc) /\ todo' = <<>> /\ UNCHANGED <<result, failed>>
    BY <1>10 DEF Proceed
  <2>2. Range(Tail(todo)) = Range(<<>>)
    <3>1. DOMAIN Tail(todo) = 1..(Len(todo) - 1)
      BY <1>2
    <3>2. DOMAIN Tail(todo) = {}
      BY <3>1, <1>10
    <3> QED
      BY <3>2 DEF Range
  <2>3. Settling(controls, changes, vmcs', <<>>, pc)
    BY <1>8, <1>10, <2>2 DEF Settling
  <2>4. WrittenBefore(controls, changes, vmcs', Number(pc)) /\ DOMAIN vmcs' = Fields
    BY <1>8, <1>10
  <2> QED
    BY <1>2, <1>3, <1>10, <2>1, <2>3, <2>4, AdvanceInv
<1>11. \/ /\ vmcs_step(pc)
          /\ vmcs' = [vmcs EXCEPT ![f] = v] \/ UNCHANGED vmcs
          /\ UNCHANGED <<tables, changes>>
       \/ /\ vmcs' = [vmcs EXCEPT ![f] = {"other"}]
          /\ stop(pc, "ReadbackMismatch")
          /\ UNCHANGED <<tables, changes>>
       \/ /\ vmcs' = [vmcs EXCEPT ![f] = v]
          /\ Len(todo) > 1
          /\ Proceed(pc, Tail(todo))
          /\ UNCHANGED <<tables, changes>>
       \/ /\ vmcs' = [vmcs EXCEPT ![f] = v]
          /\ Len(todo) = 1
          /\ Proceed(After(pc), <<>>)
          /\ log_line
  BY <1>1, <1>5, Zenon DEF write_verified
<1> QED
  BY <1>6, <1>7, <1>9, <1>10, <1>11

\* check_host_tables_preserved: where there was at most one change, tables that
\* are as activated were never changed.
LEMMA PreservedInv ==
  ASSUME VInv, check_host_tables_preserved
  PROVE  VInv'
<1>1. /\ pc = "check_host_tables_preserved" /\ pc \notin Failed \cup {"check_vmx_support"}
      /\ pc \in StepNames /\ log_line
      /\ VTypeOK /\ Unfailed /\ TablesTracked /\ UNCHANGED <<cpu, read, controls, vmcs>>
  BY DEF check_host_tables_preserved, VInv, Failed, StepNames
<1>2. DOMAIN vmcs' = Fields /\ controls' \in [ControlNames -> ControlCapability]
  BY <1>1 DEF VTypeOK
<1>3. MsrsExist'
  BY <1>1 DEF VInv, MsrsExist
<1>4. CASE stop(pc, "HostTablesChanged")
  <2>1. pc' \in Failed /\ todo' = <<>> /\ ErrorKept'
    BY <1>1, <1>4, StopKeeps
  <2> QED
    BY <1>1, <1>2, <1>3, <2>1, FailInv
<1>5. CASE tables_preserved /\ Proceed("launch", <<>>)
  <2>1. pc' = "launch" /\ todo' = <<>> /\ UNCHANGED <<result, failed>>
    BY <1>5 DEF Proceed
  <2>2. Number(pc) = 12 /\ Number(pc') = 13
    BY <1>1, <2>1, NumberAt, Zenon
  <2>3. Number(pc') = Number(pc) + 1 /\ Number(pc) > 4
    BY <2>2
  <2>4. WrittenBefore(controls, changes, vmcs, Number(pc))
    BY <1>1 DEF VInv, FieldsWritten
  <2>5. Settling(controls, changes, vmcs, <<>>, pc)
    BY <1>1, StepIdle, Zenon DEF WriteSteps
  <2>6. pc' \in StepNames \ Failed /\ todo' \in Seq(FieldWrites)
    BY <2>1 DEF StepNames, Failed
  <2>7. FieldsWritten'
    BY <1>1, <2>1, <2>3, <2>4, <2>5, <2>6, AdvanceFields
  <2>8. ControlsChosen'
    BY <1>1, <2>3 DEF VInv, ControlsChosen
  <2>9. LaunchDescribesActivatedTables'
    <3>1. changes' <= 1 => changes = 0
      <4>1. changes <= changes' /\ changes' \in Nat
        BY <1>1, LogLine
      <4> QED
        BY <1>1, <1>5, <4>1 DEF VTypeOK, TablesTracked, tables_preserved
    <3>2. WrittenBefore(controls, changes, vmcs, 13)
      BY <1>1, <2>2, <2>3, <2>4, <2>5, StepOver
    <3>3. \A f \in Range(HostRegisters) \cup Range(GuestRegisters) :
             Good(controls, changes, f, vmcs[f])
      <4>1. Range(HostRegisters) \subseteq StepFields(controls, "host-state setup")
        BY DEF StepFields
      <4>2. Range(GuestRegisters) \subseteq StepFields(controls, "guest-state write")
        BY DEF StepFields
      <4>3. /\ "host-state setup" \in StepNames /\ "guest-state write" \in StepNames
            /\ Number("host-state setup") < 13 /\ Number("guest-state write") < 13
        <5>1. Number("host-state setup") = 7 /\ Number("guest-state write") = 11
          BY NumberAt, Zenon
        <5>2. ASSUME NEW h, Number(h) = 7 \/ Number(h) = 11 PROVE Number(h) < 13
          BY <5>2
        <5> QED
          BY <5>1, <5>2, Zenon DEF StepNames
      <4> QED
        BY <3>2, <4>1, <4>2, <4>3, Zenon DEF WrittenBefore
    <3>4. TableFields \subseteq Range(HostRegisters) \cup Range(GuestRegisters)
      <4>1. {"HOST_TR_SELECTOR", "HOST_TR_BASE", "HOST_GDTR_BASE", "HOST_IDTR_BASE"}
              \subseteq Range(HostRegisters)
        BY DEF HostRegisters, Range
      <4>2. {"GUEST_TR", "GUEST_GDTR_BASE", "GUEST_GDTR_LIMIT"} \subseteq Range(GuestRegisters)
        BY SMTT(30) DEF GuestRegisters, Range
      <4> QED
        BY <4>1, <4>2 DEF TableFields
    <3>5. changes' <= 1 => \A f \in TableFields : vmcs[f] = {"activated"}
      BY <3>1, <3>3, <3>4 DEF Good
    <3> QED
      BY <1>1, <3>5 DEF LaunchDescribesActivatedTables
  <2> QED
    BY <1>1, <1>2, <2>1, <2>6, <2>7, <2>8, <2>9, GoInv
<1> QED
  BY <1>4, <1>5 DEF check_host_tables_preserved

\* launch.
LEMMA LaunchInv ==
  ASSUME VInv, launch
  PROVE  VInv'
<1>1. pc = "launch" /\ pc \notin Failed /\ UNCHANGED <<cpu, read, controls, vmcs, tables, changes>>
  BY DEF launch, Failed
<1>2. CASE (\E op, error : stop(op, error)) \/ (\E op : vmcs_step(op)) \/ vmresume_failed
  BY <1>1, <1>2, BeginFails
<1>3. CASE Proceed("teardown", <<>>)
  <2>1. pc' \in Failed /\ todo' = <<>> /\ UNCHANGED <<result, failed>>
    BY <1>3, SMTT(30) DEF Proceed, Failed
  <2>2. ErrorKept' /\ MsrsExist' /\ log_line
    BY <1>1, <2>1 DEF VInv, ErrorKept, MsrsExist, log_line
  <2>3. DOMAIN vmcs' = Fields /\ controls' \in [ControlNames -> ControlCapability]
    BY <1>1 DEF VInv, VTypeOK
  <2> QED
    BY <1>1, <2>1, <2>2, <2>3, FailInv
<1> QED
  BY <1>2, <1>3 DEF launch

\* teardown and report_error.
LEMMA TeardownInv ==
  ASSUME VInv, teardown \/ report_error
  PROVE  VInv'
<1>1. /\ pc' \in Failed /\ pc \in Failed
      /\ UNCHANGED <<cpu, read, controls, todo, vmcs, failed, tables, changes>>
  BY SMTT(30) DEF teardown, report_error, Failed
<1>2. ErrorKept'
  <2>1. CASE result' = result
    BY <1>1, <2>1 DEF VInv, ErrorKept
  <2>2. CASE \E error : result' = [operation |-> "teardown", error |-> error,
                                   instruction_error |-> 0]
    BY <2>2, SMTT(30) DEF ErrorKept
  <2> QED
    BY <2>1, <2>2 DEF teardown, report_error
<1>3. MsrsExist' /\ log_line
  BY <1>1 DEF VInv, MsrsExist, log_line
<1>4. DOMAIN vmcs' = Fields /\ controls' \in [ControlNames -> ControlCapability]
  BY <1>1 DEF VInv, VTypeOK
<1>5. todo' = <<>>
  BY <1>1, Zenon DEF VInv, VTypeOK, WriteSteps, Failed
<1> QED
  BY <1>1, <1>2, <1>3, <1>4, <1>5, FailInv

\* Every step keeps the invariant.
LEMMA NextInv ==
  ASSUME VInv, [Next]_vars
  PROVE  VInv'
<1>1. CASE UNCHANGED vars
  <2>1. VTypeOK' /\ TablesTracked'
    BY <1>1 DEF VInv, VTypeOK, TablesTracked, vars
  <2>2. ControlsRead' /\ ControlsChosen' /\ FieldsWritten'
    BY <1>1, ZenonT(40) DEF VInv, ControlsRead, ControlsChosen, FieldsWritten, vars, rdmsr, control_msr
  <2>3. MsrsExist' /\ Unfailed' /\ ErrorKept'
    BY <1>1 DEF VInv, MsrsExist, Unfailed, ErrorKept, vars
  <2>4. LaunchDescribesActivatedTables'
    BY <1>1 DEF VInv, LaunchDescribesActivatedTables, vars
  <2> QED
    BY <2>1, <2>2, <2>3, <2>4, SMTT(30) DEF VInv
<1>2. CASE Next
  BY SMTT(30), <1>2, CheckInv, CreateInv, BeginInv, WriteInv, ReadbackInv, PreservedInv, LaunchInv,
     TeardownInv DEF Next
<1> QED
  BY <1>1, <1>2

\* At launch every step of prepare_vmcs has left its fields good.
LEMMA LaunchFields ==
  ASSUME VInv, pc = "launch"
  PROVE  \A s \in WriteSteps : \A f \in StepFields(controls, s) :
           Good(controls, changes, f, vmcs[f])
<1>1. pc \notin Failed /\ Number(pc) = 13
  BY NumberAt, Zenon DEF Failed
<1>2. ASSUME NEW s \in WriteSteps PROVE s \in StepNames /\ Number(s) < Number(pc)
  <2>1. s \in StepNames
    BY Zenon DEF WriteSteps, StepNames
  <2>2. ~(Number(s) = 12) /\ ~(Number(s) = 13) /\ ~(Number(s) > 13)
    BY <2>1, LateSteps, Zenon DEF WriteSteps
  <2> QED
    BY <1>1, <2>1, <2>2, LateSteps
<1> QED
  BY <1>1, <1>2 DEF VInv, FieldsWritten, WrittenBefore

-----------------------------------------------------------------------------
(* Theorems.                                                               *)

\* The invariant, for every set of processors.
THEOREM SetupInvariant == Spec => []VInv
<1>1. Init => VInv
  BY InitInv
<1>2. VInv /\ [Next]_vars => VInv'
  BY NextInv
<1> QED
  BY <1>1, <1>2, PTL DEF Spec

\* read_vmcs_control_msrs reads no MSR the processor does not have.
THEOREM ReadsExist == Spec => []MsrsExist
<1>1. VInv => MsrsExist
  BY DEF VInv
<1> QED
  BY <1>1, SetupInvariant, PTL

\* report_vmcs_error prints the number of the instruction that failed.
THEOREM ErrorIsOwn == Spec => []ErrorNumberOwn
<1>1. VInv => ErrorNumberOwn
  BY DEF VInv, ErrorKept, ErrorNumberOwn
<1> QED
  BY <1>1, SetupInvariant, PTL

\* The fields the processor consults under any controls are written by some
\* step: the code's lists leave none of the architecture's out.
LEMMA AlwaysWritten ==
  AlwaysConsulted \subseteq ControlFields \cup Range(ZeroedFields) \cup
    {"EXCEPTION_BITMAP", "HOST_RSP", "HOST_RIP"} \cup Range(HostRegisters) \cup
    Range(GuestRegisters)
<1>1. \A i \in 1..7 : ZeroedFields[i] \in Range(ZeroedFields)
  BY DEF ZeroedFields, Range
<1>2. \A i \in 1..18 : HostRegisters[i] \in Range(HostRegisters)
  BY DEF HostRegisters, Range
<1>3. \A i \in 1..27 : GuestRegisters[i] \in Range(GuestRegisters)
  BY DEF GuestRegisters, Range
<1>4. {"CR3_TARGET_COUNT", "VM_EXIT_MSR_STORE_COUNT", "VM_EXIT_MSR_LOAD_COUNT",
       "VM_ENTRY_MSR_LOAD_COUNT", "VM_ENTRY_INTERRUPTION_INFO",
       "PAGE_FAULT_ERROR_CODE_MASK", "PAGE_FAULT_ERROR_CODE_MATCH"}
        \subseteq Range(ZeroedFields)
  BY <1>1 DEF ZeroedFields
<1>5. {"HOST_CR0", "HOST_CR3", "HOST_CR4", "HOST_CS_SELECTOR", "HOST_SS_SELECTOR",
       "HOST_DS_SELECTOR", "HOST_ES_SELECTOR", "HOST_FS_SELECTOR", "HOST_GS_SELECTOR",
       "HOST_TR_SELECTOR", "HOST_FS_BASE", "HOST_GS_BASE", "HOST_TR_BASE",
       "HOST_GDTR_BASE", "HOST_IDTR_BASE", "HOST_IA32_SYSENTER_CS",
       "HOST_IA32_SYSENTER_ESP", "HOST_IA32_SYSENTER_EIP"} \subseteq Range(HostRegisters)
  BY <1>2 DEF HostRegisters
<1>6. {"GUEST_CR0", "GUEST_CR3", "GUEST_CR4", "GUEST_DR7", "GUEST_RSP", "GUEST_RIP",
       "GUEST_RFLAGS", "GUEST_CS", "GUEST_SS", "GUEST_DS", "GUEST_ES", "GUEST_FS",
       "GUEST_GS", "GUEST_LDTR"} \subseteq Range(GuestRegisters)
  BY <1>3 DEF GuestRegisters
<1>7. {"GUEST_TR", "GUEST_GDTR_BASE", "GUEST_GDTR_LIMIT", "GUEST_IDTR_BASE",
       "GUEST_IDTR_LIMIT", "GUEST_IA32_DEBUGCTL", "GUEST_IA32_SYSENTER_CS",
       "GUEST_IA32_SYSENTER_ESP", "GUEST_IA32_SYSENTER_EIP", "GUEST_ACTIVITY_STATE",
       "GUEST_INTERRUPTIBILITY_STATE", "GUEST_PENDING_DEBUG_EXCEPTIONS",
       "VMCS_LINK_POINTER"} \subseteq Range(GuestRegisters)
  BY <1>3, SMTT(30) DEF GuestRegisters
<1> QED
  BY <1>4, <1>5, <1>6, <1>7, SMTT(30) DEF AlwaysConsulted, ControlFields

\* At VMLAUNCH every field the processor consults was written and read back.
THEOREM LaunchWritten == Spec => []LaunchFullyWritten
<1>1. ASSUME VInv, pc = "launch", NEW f \in Consulted
      PROVE  vmcs[f] \cap Bad = {}
  <2>1. pc \notin Failed \cup {"check_vmx_support"} /\ Number(pc) > 4
    <3>1. Number(pc) = 13
      BY <1>1, NumberAt, Zenon
    <3> QED
      BY <1>1, <3>1 DEF Failed
  <2>2. /\ vmcs["VM_EXIT_CONTROLS"] = Value(controls, "exit")
        /\ vmcs["VM_ENTRY_CONTROLS"] = Value(controls, "entry")
        /\ vmcs["SECONDARY_VM_EXEC_CONTROL"] = Value(controls, "secondary")
    BY <1>1, <2>1, ControlsWritten
  <2>3. \A g \in DOMAIN Counted : vmcs[g] = {"zero"}
    <3>1. DOMAIN Counted \subseteq Range(ZeroedFields)
      BY CountedAre DEF ZeroedFields, Range
    <3>2. DOMAIN Counted \subseteq StepFields(controls, "control setup")
      BY <3>1, Zenon DEF StepFields
    <3>3. "control setup" \in WriteSteps
      BY DEF WriteSteps
    <3> QED
      BY <1>1, <3>2, <3>3, LaunchFields, Zenon DEF Good
  <2>4. "ENABLE_VPID" \notin Value(controls, "secondary")
    <3>1. controls["secondary"] \in {Absent, rdmsr(<<"secondary">>)} /\ cpu \in Cpus
      BY <1>1, <2>1, SMTT(30) DEF VInv, ControlsRead, VTypeOK
    <3>2. "ENABLE_VPID" \notin controls["secondary"].required
      BY <3>1, VpidAssumption DEF rdmsr, Absent
    <3>3. Request["secondary"] = {"ENABLE_EPT"}
      BY DEF Request, Desired
    <3> QED
      BY <3>2, <3>3, SMTT(30) DEF Value, chosen
  <2>5. \/ f \in AlwaysConsulted
        \/ /\ f \in SwitchedFields
           /\ f # "VIRTUAL_PROCESSOR_IDENTIFIER"
           /\ f = "HOST_IA32_PAT" => "LOAD_IA32_PAT" \in Value(controls, "exit")
           /\ f = "HOST_IA32_EFER" => "LOAD_IA32_EFER" \in Value(controls, "exit")
           /\ f = "GUEST_IA32_PAT" => "LOAD_IA32_PAT" \in Value(controls, "entry")
           /\ f = "GUEST_IA32_EFER" => "LOAD_IA32_EFER" \in Value(controls, "entry")
    <3>1. GuestInstructions \cap {"mov cr", "clts", "lmsw", "smsw"} = {}
      BY DEF GuestInstructions
    <3> DEFINE primary == vmcs["PRIMARY_VM_EXEC_CONTROL"]
               secondary == IF "ACTIVATE_SECONDARY_CONTROLS" \in primary
                            THEN vmcs["SECONDARY_VM_EXEC_CONTROL"] ELSE {}
               exit == vmcs["VM_EXIT_CONTROLS"]
               entry == vmcs["VM_ENTRY_CONTROLS"]
               On == [SECONDARY_VM_EXEC_CONTROL |-> "ACTIVATE_SECONDARY_CONTROLS" \in primary,
                      EPT_POINTER |-> "ENABLE_EPT" \in secondary,
                      VIRTUAL_PROCESSOR_IDENTIFIER |-> "ENABLE_VPID" \in secondary,
                      MSR_BITMAP |-> "USE_MSR_BITMAPS" \in primary,
                      IO_BITMAP_A |-> "USE_IO_BITMAPS" \in primary,
                      IO_BITMAP_B |-> "USE_IO_BITMAPS" \in primary,
                      HOST_IA32_PAT |-> "LOAD_IA32_PAT" \in exit,
                      HOST_IA32_EFER |-> "LOAD_IA32_EFER" \in exit,
                      GUEST_IA32_PAT |-> "LOAD_IA32_PAT" \in entry,
                      GUEST_IA32_EFER |-> "LOAD_IA32_EFER" \in entry]
    <3>2. /\ On["VIRTUAL_PROCESSOR_IDENTIFIER"] = ("ENABLE_VPID" \in secondary)
          /\ On["HOST_IA32_PAT"] = ("LOAD_IA32_PAT" \in exit)
          /\ On["HOST_IA32_EFER"] = ("LOAD_IA32_EFER" \in exit)
          /\ On["GUEST_IA32_PAT"] = ("LOAD_IA32_PAT" \in entry)
          /\ On["GUEST_IA32_EFER"] = ("LOAD_IA32_EFER" \in entry)
      BY Zenon
    <3>3. "ENABLE_VPID" \notin secondary
      BY <2>2, <2>4, Zenon
    <3>4. f \in AlwaysConsulted \cup {g \in SwitchedFields : On[g]} \cup
            {Counted[g] : g \in {g \in DOMAIN Counted : vmcs[g] # {"zero"}}} \cup
            {g \in CrFields : GuestInstructions \cap {"mov cr", "clts", "lmsw", "smsw"} # {}}
      BY <1>1, Zenon DEF Consulted
    <3> HIDE DEF On, secondary
    <3>5. f \in AlwaysConsulted \/ (f \in SwitchedFields /\ On[f])
      <4>1. {g \in DOMAIN Counted : vmcs[g] # {"zero"}} = {}
        BY <2>3, Zenon
      <4>2. f \notin {Counted[g] : g \in {g \in DOMAIN Counted : vmcs[g] # {"zero"}}}
        BY <4>1
      <4> QED
        BY <3>1, <3>4, <4>2, Zenon
    <3> QED
      BY <2>2, <3>2, <3>3, <3>5, Zenon
  <2>6. \E s \in WriteSteps : f \in StepFields(controls, s)
    <3>1. CASE f \in ControlFields \cup Range(ZeroedFields) \cup {"EXCEPTION_BITMAP"}
      BY <3>1 DEF StepFields, WriteSteps
    <3>2. CASE f \in {"MSR_BITMAP", "IO_BITMAP_A", "IO_BITMAP_B"}
      <4>1. f \in Range(BitmapFields)
        BY <3>2 DEF BitmapFields, Range
      <4> QED
        BY <4>1 DEF StepFields, WriteSteps
    <3>3. CASE \/ f \in Range(HostRegisters)
               \/ /\ f \in {"HOST_IA32_PAT", "HOST_IA32_EFER"}
                  /\ f \in LoadFields(Value(controls, "exit"), "HOST_IA32_PAT", "HOST_IA32_EFER")
      <4>1. f \in StepFields(controls, "host-state setup")
        BY <3>3, Zenon DEF StepFields
      <4> QED
        BY <4>1, Zenon DEF WriteSteps
    <3>4. CASE \/ f \in Range(GuestRegisters)
               \/ /\ f \in {"GUEST_IA32_PAT", "GUEST_IA32_EFER"}
                  /\ f \in LoadFields(Value(controls, "entry"), "GUEST_IA32_PAT", "GUEST_IA32_EFER")
      <4>1. f \in StepFields(controls, "guest-state write")
        BY <3>4, Zenon DEF StepFields
      <4> QED
        BY <4>1, Zenon DEF WriteSteps
    <3>5. CASE f \in {"EPT_POINTER", "HOST_RSP", "HOST_RIP"}
      BY <3>5 DEF StepFields, WriteSteps
    <3>6. CASE f \in AlwaysConsulted
      BY <3>1, <3>3, <3>4, <3>5, <3>6, AlwaysWritten
    <3>7. CASE /\ f \in SwitchedFields
               /\ f # "VIRTUAL_PROCESSOR_IDENTIFIER"
               /\ f = "HOST_IA32_PAT" => "LOAD_IA32_PAT" \in Value(controls, "exit")
               /\ f = "HOST_IA32_EFER" => "LOAD_IA32_EFER" \in Value(controls, "exit")
               /\ f = "GUEST_IA32_PAT" => "LOAD_IA32_PAT" \in Value(controls, "entry")
               /\ f = "GUEST_IA32_EFER" => "LOAD_IA32_EFER" \in Value(controls, "entry")
      <4>1. "SECONDARY_VM_EXEC_CONTROL" \in ControlFields
        BY DEF ControlFields
      <4>2. f \in {"HOST_IA32_PAT", "HOST_IA32_EFER"} =>
              f \in LoadFields(Value(controls, "exit"), "HOST_IA32_PAT", "HOST_IA32_EFER")
        BY <3>7 DEF LoadFields
      <4>3. f \in {"GUEST_IA32_PAT", "GUEST_IA32_EFER"} =>
              f \in LoadFields(Value(controls, "entry"), "GUEST_IA32_PAT", "GUEST_IA32_EFER")
        BY <3>7 DEF LoadFields
      <4> QED
        BY <3>1, <3>2, <3>3, <3>4, <3>5, <3>7, <4>1, <4>2, <4>3, Zenon DEF SwitchedFields
    <3> QED
      BY <2>5, <3>6, <3>7
  <2> QED
    BY <1>1, <2>6, LaunchFields DEF Good
<1>2. VInv => LaunchFullyWritten
  BY <1>1, SMTT(30) DEF LaunchFullyWritten, Bad
<1> QED
  BY <1>2, SetupInvariant, PTL

\* A value configure_controls has chosen, from a capability of the processor.
LEMMA ChosenLegal ==
  ASSUME NEW ctl, NEW c, NEW m, ctl[c] \in {Absent, rdmsr(m)}, can_choose(ctl[c], Request[c]),
         Request[c] # {}
  PROVE  /\ ctl[c] = cpu.msr[m]
         /\ cpu.msr[m].required \subseteq Value(ctl, c)
         /\ Value(ctl, c) \subseteq cpu.msr[m].allowed
         /\ Request[c] \subseteq Value(ctl, c)
<1>1. ctl[c] # Absent
  BY DEF can_choose, allows, Absent
<1>2. ctl[c] = cpu.msr[m]
  BY <1>1 DEF rdmsr
<1> QED
  BY <1>2, SMTT(30) DEF can_choose, allows, Value, chosen

\* At VMLAUNCH the controls are legal and switch on what Aleph0 relies on.
THEOREM LaunchLegal == Spec => []ControlsLegal
<1>1. ASSUME VInv, pc = "launch"
      PROVE  ControlsLegal
  <2>1. pc \notin Failed \cup {"check_vmx_support"} /\ Number(pc) > 4
    <3>1. Number(pc) = 13
      BY <1>1, NumberAt, Zenon
    <3> QED
      BY <1>1, <3>1 DEF Failed
  <2>2. Checked(controls)
    BY <1>1, <2>1 DEF VInv, ControlsChosen
  <2>3. /\ controls["pinbased"] = rdmsr(control_msr("pinbased"))
        /\ controls["primary"] = rdmsr(control_msr("primary"))
        /\ controls["exit"] = rdmsr(control_msr("exit"))
        /\ controls["entry"] = rdmsr(control_msr("entry"))
        /\ controls["secondary"] \in {Absent, rdmsr(<<"secondary">>)}
    BY <1>1, <2>1 DEF VInv, ControlsRead
  <2>4. /\ Request["pinbased"] = {"NMI_EXITING", "VIRTUAL_NMIS"}
        /\ Request["primary"] = {"USE_IO_BITMAPS", "USE_MSR_BITMAPS",
                                 "ACTIVATE_SECONDARY_CONTROLS"}
        /\ Request["secondary"] = {"ENABLE_EPT"}
        /\ Request["exit"] = {"HOST_ADDRESS_SPACE_SIZE"}
        /\ Request["entry"] = {"IA32E_MODE_GUEST"}
    BY DEF Request, Desired, primary_request
  <2>5. \A c \in ControlNames : Request[c] # {} /\ can_choose(controls[c], Request[c])
    BY <2>2, <2>4 DEF Checked, ControlNames
  <2>6. /\ vmcs["PIN_BASED_VM_EXEC_CONTROL"] = Value(controls, "pinbased")
        /\ vmcs["PRIMARY_VM_EXEC_CONTROL"] = Value(controls, "primary")
        /\ vmcs["SECONDARY_VM_EXEC_CONTROL"] = Value(controls, "secondary")
        /\ vmcs["VM_EXIT_CONTROLS"] = Value(controls, "exit")
        /\ vmcs["VM_ENTRY_CONTROLS"] = Value(controls, "entry")
    BY <1>1, <2>1, ControlsWritten, SMTT(30)
  <2> DEFINE legal(field, m, bits) ==
               /\ cpu.msr[m].required \subseteq vmcs[field]
               /\ vmcs[field] \subseteq cpu.msr[m].allowed
               /\ bits \subseteq vmcs[field]
  <2>7. ASSUME NEW c \in ControlNames, NEW m, controls[c] \in {Absent, rdmsr(m)},
               NEW field, vmcs[field] = Value(controls, c)
        PROVE  legal(field, m, Request[c]) /\ controls[c] = cpu.msr[m]
    BY <2>5, <2>7, ChosenLegal, SMTT(30)
  <2> HIDE DEF legal
  <2>8. legal("PIN_BASED_VM_EXEC_CONTROL", control_msr("pinbased"), Request["pinbased"])
    BY <2>3, <2>6, <2>7, SMTT(30) DEF ControlNames
  <2>9. /\ legal("PRIMARY_VM_EXEC_CONTROL", control_msr("primary"), Request["primary"])
        /\ controls["primary"] = cpu.msr[control_msr("primary")]
    BY <2>3, <2>6, <2>7 DEF ControlNames
  <2>10. legal("SECONDARY_VM_EXEC_CONTROL", <<"secondary">>, Request["secondary"])
    <3>1. PICK m : m = <<"secondary">>
      BY Zenon
    <3>2. controls["secondary"] \in {Absent, rdmsr(m)}
      BY <2>3, <3>1, Zenon
    <3>3. legal("SECONDARY_VM_EXEC_CONTROL", m, Request["secondary"])
      BY <2>6, <2>7, <3>2, SMTT(30) DEF ControlNames
    <3> QED
      BY <3>1, <3>3, Zenon
  <2>11. legal("VM_EXIT_CONTROLS", control_msr("exit"), Request["exit"])
    BY <2>3, <2>6, <2>7, SMTT(30) DEF ControlNames
  <2>12. legal("VM_ENTRY_CONTROLS", control_msr("entry"), Request["entry"])
    BY <2>3, <2>6, <2>7, SMTT(30) DEF ControlNames
  <2>13. "NMI_WINDOW_EXITING" \in cpu.msr[control_msr("primary")].allowed
    BY <2>2, <2>9 DEF Checked, allows
  <2> QED
    BY <2>4, <2>8, <2>9, <2>10, <2>11, <2>12, <2>13, Zenon DEF ControlsLegal, legal
<1>2. VInv => ControlsLegal
  BY <1>1, Zenon DEF ControlsLegal
<1> QED
  BY <1>2, SetupInvariant, PTL

\* A launched VMCS describes the tables Aleph0 activated unless UEFI calls
\* changed them more than once: check_host_tables_preserved compares them with
\* what was activated, and a change undone by another escapes it.
THEOREM LaunchTables == Spec => []LaunchDescribesActivatedTables
<1>1. VInv => LaunchDescribesActivatedTables
  BY DEF VInv
<1> QED
  BY <1>1, SetupInvariant, PTL
=============================================================================
