----------------------------- MODULE MCVmcsSetup -----------------------------
(***************************************************************************)
(* Processors for VmcsSetup: one that has everything, the sixteen ways a   *)
(* processor may require the PAT and EFER loads, and for every MSR one     *)
(* processor per bit it does not allow and one whose MSR is inconsistent.  *)
(***************************************************************************)
EXTENDS VmcsSetup

Cap(required, allowed) == [required |-> required, allowed |-> required \cup allowed]

Loads == {"LOAD_IA32_PAT", "LOAD_IA32_EFER"}

\* The control MSRs; the default variants require a bit the true ones do not.
Controls(exit, entry) == [
  pinbased |-> Cap({}, {"NMI_EXITING", "VIRTUAL_NMIS"}),
  primary |-> Cap({}, {"USE_IO_BITMAPS", "USE_MSR_BITMAPS", "ACTIVATE_SECONDARY_CONTROLS",
                       "NMI_WINDOW_EXITING"}),
  exit |-> Cap(exit, {"HOST_ADDRESS_SPACE_SIZE"} \cup Loads),
  entry |-> Cap(entry, {"IA32E_MODE_GUEST"} \cup Loads)]

Names == {"pinbased", "primary", "exit", "entry"}

Msrs(c, secondary) ==
  [m \in ({<<n, "true">> : n \in Names} \cup {<<n, "default">> : n \in Names} \cup
          {<<"secondary">>}) |->
     IF m = <<"secondary">> THEN secondary
     ELSE IF m[2] = "true" THEN c[m[1]]
     ELSE [required |-> c[m[1]].required \cup {"DEFAULT1"},
           allowed |-> c[m[1]].allowed \cup {"DEFAULT1"}]]

Secondary == Cap({}, {"ENABLE_EPT", "ENABLE_VPID"})

Cpu(msr) == [vmx |-> TRUE, locked |-> TRUE, outside_smx |-> TRUE, true_controls |-> TRUE,
             ept |-> TRUE, msr |-> msr]

Full == Cpu(Msrs(Controls({}, {}), Secondary))

\* No MSR of the true variants exists without bit 55 of IA32_VMX_BASIC.
Old == [Full EXCEPT !.true_controls = FALSE,
          !.msr = [m \in {m \in DOMAIN Full.msr : m[Len(m)] # "true"} |-> Full.msr[m]]]

\* Without secondary controls there is no MSR for them.
NoSecondary ==
  LET primary == <<"primary", "true">> IN
  [Full EXCEPT !.msr =
     [m \in DOMAIN Full.msr \ {<<"secondary">>} |->
        IF m = primary THEN Cap({}, Full.msr[m].allowed \ {"ACTIVATE_SECONDARY_CONTROLS"})
        ELSE Full.msr[m]]]

Lacks(msr, bit) == [Full EXCEPT !.msr[msr].allowed = @ \ {bit}]
Inconsistent(msr) == [Full EXCEPT !.msr[msr].required = @ \cup {"DEFAULT1"}]

MCCpus ==
  {Cpu(Msrs(Controls(exit, entry), Secondary)) : exit, entry \in SUBSET Loads} \cup
  {Old, NoSecondary, [Full EXCEPT !.vmx = FALSE], [Full EXCEPT !.locked = FALSE],
   [Full EXCEPT !.outside_smx = FALSE], [Full EXCEPT !.ept = FALSE]} \cup
  UNION {{Lacks(<<n, "true">>, bit) :
            bit \in Full.msr[<<n, "true">>].allowed \ ({"ACTIVATE_SECONDARY_CONTROLS"} \cup Loads)}
         : n \in Names} \cup
  {Lacks(<<"secondary">>, "ENABLE_EPT")} \cup
  {Inconsistent(m) : m \in DOMAIN Full.msr}
=============================================================================
