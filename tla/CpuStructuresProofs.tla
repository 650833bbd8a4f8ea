------------------------ MODULE CpuStructuresProofs -------------------------
(***************************************************************************)
(* Proofs about what the CPU and the stubs read: the exit bitmaps, the     *)
(* stop value and the host's descriptor tables.                            *)
(*                                                                         *)
(* The exit bitmaps make exactly the intended accesses exit, and the       *)
(* accesses are invisible to the guest, whatever MSRs, ports and values    *)
(* the guest uses.  The stop value tells the cause for every width of its  *)
(* fields, the real one (2^30 exit numbers, 2^32 raw reasons) included,    *)
(* which TLC cannot enumerate.  The tables activate loads serve, and what  *)
(* it refuses it leaves alone, for every firmware, page size and TSS       *)
(* address.                                                                *)
(***************************************************************************)
EXTENDS ExitBitmaps, StopValue, HostTables, TLAPS

-----------------------------------------------------------------------------
(* The host's tables.                                                      *)

\* The firmware's GDT in bytes, and the slot right behind it.
Length == firmware.limit + 1
TssSlot == round_up_8(Length) \div 8

\* The copy of the firmware's GDT.
CopyOK == \A s \in Slots : 8 * (s + 1) <= Length => gdt[s] = firmware.gdt[s]

\* The TSS descriptor behind it, available or busy.
TssOK(kind) ==
  /\ gdt[TssSlot] = [kind |-> kind, base |-> TSS_BASE[1], accessed |-> FALSE]
  /\ gdt[TssSlot + 1] = [kind |-> "high", base |-> TSS_BASE[2], accessed |-> FALSE]

\* LTR's change to the descriptor.
Busy(descriptor) == [descriptor EXCEPT !.kind = "tss_busy"]

Appended ==
  /\ fits_page(Length)
  /\ region = [original_length |-> Length, tss_selector |-> round_up_8(Length)]
  /\ pages = {"tss", "gdt"}
  /\ CopyOK

Loaded ==
  /\ Appended
  /\ TssOK("tss_busy")
  /\ cpu = [gdtr |-> prepared_gdtr, tr |-> round_up_8(Length)]
  /\ selectors_copied
  /\ ~requires_ist

Stages == {"start", "tss", "copied", "appended", "active", "collected", "BadSelector",
           "CsNot64Bit", "TrNotBusyTss"} \cup GdtErrors

(* The inductive invariant: how far the copy has come at each stage.       *)
HInv ==
  /\ firmware \in Firmwares
  /\ result \in Stages
  /\ ~fault
  /\ gdt \in [Slots -> Descriptor]
  /\ result \in {"start", "tss"} => cpu.gdtr = <<firmware.base, firmware.limit>>
  /\ result = "start" => pages = {}
  /\ result = "tss" => pages = {"tss"}
  /\ result = "copied" =>
       /\ fits_page(Length) /\ CopyOK /\ pages = {"tss", "gdt"}
       /\ region = [original_length |-> Length, tss_selector |-> 0]
  /\ result = "appended" => Appended /\ TssOK("tss_available")
  /\ result \in {"active", "collected"} => Loaded
  /\ GuestSegmentsEnterable

-----------------------------------------------------------------------------
(* Rounding up to a slot: the slots it names are in the page, behind the   *)
(* copied bytes.                                                           *)
LEMMA RoundUp ==
  ASSUME firmware \in Firmwares, fits_page(Length)
  PROVE  /\ Length \in Nat /\ round_up_8(Length) \in Nat
         /\ round_up_8(Length) = 8 * TssSlot /\ TssSlot \in Nat
         /\ Length <= 8 * TssSlot /\ TssSlot > 0
         /\ TssSlot \in Slots /\ TssSlot + 1 \in Slots
         /\ 8 * TssSlot + 16 <= PAGE_SIZE
<1>1. Length \in Nat /\ Length > 0
  BY FirmwareAssumption DEF Length
<1>2. PAGE_SIZE \in Nat /\ PAGE_SIZE % 8 = 0
  BY FirmwareAssumption
<1> HIDE DEF Length
<1>3. PAGE_SIZE = 8 * (PAGE_SIZE \div 8) /\ PAGE_SIZE \div 8 \in Nat
  BY <1>2
<1>4. round_up_8(Length) = 8 * TssSlot /\ TssSlot = (Length + 7) \div 8
  BY <1>1 DEF round_up_8, TssSlot
<1>5. TssSlot \in Nat /\ Length <= 8 * TssSlot /\ TssSlot > 0
  BY <1>1, <1>4
<1> HIDE DEF TssSlot
<1>6. 8 * TssSlot + 16 <= PAGE_SIZE
  BY <1>4 DEF fits_page, SYSTEM_DESCRIPTOR_SIZE
<1>7. TssSlot \in Slots /\ TssSlot + 1 \in Slots
  BY <1>3, <1>5, <1>6 DEF Slots
<1> QED
  BY <1>1, <1>4, <1>5, <1>6, <1>7

(* Slot numbers are natural, and one below a slot is a slot.               *)
LEMMA SlotNumbers ==
  /\ \A s \in Slots : s \in Nat
  /\ \A t \in Slots : \A s \in Nat : s < t => s \in Slots
<1>1. PAGE_SIZE \div 8 \in Int
  BY FirmwareAssumption
<1> QED
  BY <1>1 DEF Slots

(* Nothing is built yet at the start.                                      *)
LEMMA InitInv == ASSUME TablesInit PROVE HInv
  BY DEF TablesInit, HInv, Stages, Slots, Descriptor, Kinds, Null, GuestSegmentsEnterable

(* allocate_tss touches only the list of pages.                            *)
LEMMA AllocateInv ==
  ASSUME HInv, allocate_tss PROVE HInv'
  BY DEF HInv, allocate_tss, Stages, GdtErrors, GuestSegmentsEnterable

(* copy_active copies every whole descriptor of the firmware's table.      *)
LEMMA CopyInv ==
  ASSUME HInv, copy_active PROVE HInv'
<1>1. UNCHANGED <<cpu, firmware, fault, calls, guest>> /\ result = "tss"
  BY DEF copy_active
<1>2. cpu.gdtr[2] + 1 = Length
  BY <1>1 DEF HInv, Length
<1>3. CASE /\ result' \in {"AllocationFailed", "TooLarge", "InvalidSource"}
           /\ UNCHANGED <<gdt, region, pages>>
  BY <1>1, <1>3 DEF HInv, Stages, GdtErrors, GuestSegmentsEnterable
<1>4. CASE /\ fits_page(Length) /\ gdt' = copied(Length) /\ pages' = pages \cup {"gdt"}
           /\ region' = [original_length |-> Length, tss_selector |-> 0]
           /\ result' = "copied"
  <2>1. Length' = Length
    BY <1>1 DEF Length
  <2>2. firmware.gdt \in [Slots -> Descriptor]
    BY FirmwareAssumption DEF HInv
  <2>3. copied(Length) \in [Slots -> Descriptor]
    BY <2>2 DEF copied, Descriptor, Kinds, Null
  <2>4. CopyOK'
    BY <1>1, <1>4, <2>1 DEF CopyOK, copied
  <2> QED
    BY <1>1, <1>4, <2>1, <2>3, <2>4
       DEF HInv, Stages, fits_page, GuestSegmentsEnterable
<1> QED
  BY <1>2, <1>3, <1>4 DEF copy_active

(* append_tss_descriptor writes two slots behind the copy.                 *)
LEMMA AppendInv ==
  ASSUME HInv, append_tss_descriptor PROVE HInv'
<1>1. /\ UNCHANGED <<cpu, firmware, pages, fault, calls, guest>>
      /\ result = "copied" /\ result' = "appended"
  BY DEF append_tss_descriptor
<1>2. /\ firmware \in Firmwares /\ fits_page(Length) /\ CopyOK /\ pages = {"tss", "gdt"}
      /\ region = [original_length |-> Length, tss_selector |-> 0]
      /\ gdt \in [Slots -> Descriptor]
  BY <1>1 DEF HInv
<1>3. /\ region' = [original_length |-> Length, tss_selector |-> round_up_8(Length)]
      /\ gdt' = [gdt EXCEPT
           ![TssSlot] = [kind |-> "tss_available", base |-> TSS_BASE[1], accessed |-> FALSE],
           ![TssSlot + 1] = [kind |-> "high", base |-> TSS_BASE[2], accessed |-> FALSE]]
  BY <1>2 DEF append_tss_descriptor, TssSlot
<1>4. /\ TssSlot \in Slots /\ TssSlot + 1 \in Slots /\ TssSlot \in Nat
      /\ Length <= 8 * TssSlot
  BY <1>2, RoundUp
<1>5. Length' = Length /\ TssSlot' = TssSlot
  BY <1>1 DEF Length, TssSlot
<1> HIDE DEF TssSlot, Length
<1>6. TssOK("tss_available")'
  <2>1. TssSlot # TssSlot + 1
    BY <1>4
  <2> QED
    BY Zenon, <1>2, <1>3, <1>4, <1>5, <2>1 DEF TssOK
<1>7. CopyOK'
  <2>1. ASSUME NEW s \in Slots, 8 * (s + 1) <= Length PROVE gdt'[s] = firmware.gdt[s]
    <3>1. s # TssSlot /\ s # TssSlot + 1
      BY <1>2, <1>4, <2>1, SlotNumbers, RoundUp
    <3> QED
      BY <1>2, <1>3, <2>1, <3>1 DEF CopyOK
  <2> QED
    BY <1>1, <1>5, <2>1 DEF CopyOK
<1>8. gdt' \in [Slots -> Descriptor]
  BY <1>2, <1>3, <1>4, TssAssumption, Zenon DEF Descriptor, Kinds
<1> QED
  BY <1>1, <1>2, <1>3, <1>5, <1>6, <1>7, <1>8
    , Zenon DEF HInv, Appended, Stages, fits_page, GuestSegmentsEnterable

(* activate loads nothing it has not verified, and verifies the TSS as     *)
(* available: a second call is refused, since LTR has marked it busy.      *)
LEMMA ActivateInv ==
  ASSUME HInv, activate PROVE HInv'
<1>1. /\ UNCHANGED <<region, firmware, pages, guest>> /\ result \in {"appended", "active"}
  BY DEF activate
<1>2. /\ Appended /\ firmware \in Firmwares /\ gdt \in [Slots -> Descriptor]
      /\ fits_page(Length)
      /\ region.original_length = Length /\ region.tss_selector = round_up_8(Length)
  BY <1>1 DEF HInv, Loaded, Appended
<1>3. /\ TssSlot \in Slots /\ TssSlot + 1 \in Slots /\ TssSlot \in Nat /\ TssSlot > 0
      /\ Length <= 8 * TssSlot /\ round_up_8(Length) = 8 * TssSlot /\ Length \in Nat
      /\ 8 * TssSlot + 16 <= PAGE_SIZE
  BY <1>2, RoundUp
<1>4. Length' = Length /\ TssSlot' = TssSlot /\ region.tss_selector \div 8 = TssSlot
  BY <1>1, <1>2, SMTT(30) DEF Length, TssSlot
<1> HIDE DEF TssSlot, Length
<1>5. CASE refusal # "none"
  <2>1. result' = refusal /\ UNCHANGED <<cpu, gdt, fault>>
    BY <1>5 DEF activate
  <2>2. refusal \in GdtErrors
    BY <1>5, SMTT(30) DEF refusal, GdtErrors
  <2> QED
    BY <1>1, <2>1, <2>2, Zenon DEF HInv, Stages, GdtErrors, GuestSegmentsEnterable
<1>6. CASE refusal = "none"
  <2>1. /\ verify_tss_descriptor /\ selectors_copied /\ ~requires_ist
    BY <1>6 DEF refusal
  <2>2. result = "appended"
    BY <1>1, <1>4, <2>1 DEF HInv, Loaded, TssOK, verify_tss_descriptor
  <2>3. TssOK("tss_available")
    BY <2>2 DEF HInv
  <2>4. load /\ result' \in {"active", "ActivationVerificationFailed"}
    BY <1>6 DEF activate
  <2>5. /\ cpu' = [gdtr |-> prepared_gdtr, tr |-> round_up_8(Length)]
        /\ gdt' = [gdt EXCEPT ![TssSlot].kind = "tss_busy"]
    BY <1>2, <1>4, <2>4, Zenon DEF load
  <2>6. in_table(prepared_gdtr[2], round_up_8(Length), 16)
    BY <1>2, <1>3 DEF in_table, prepared_gdtr, TI, SYSTEM_DESCRIPTOR_SIZE
  <2>7. ~fault'
    <3>1. gdt[TssSlot].kind = "tss_available"
      BY <2>3 DEF TssOK
    <3> QED
      BY Zenon, <1>2, <1>4, <2>4, <2>6, <3>1 DEF load, HInv
  <2>8. TssOK("tss_busy")'
    <3>1. /\ gdt'[TssSlot] = Busy(gdt[TssSlot])
          /\ gdt'[TssSlot + 1] = gdt[TssSlot + 1]
      BY <1>2, <1>3, <2>5 DEF Busy
    <3>2. gdt'[TssSlot] = [kind |-> "tss_busy", base |-> TSS_BASE[1], accessed |-> FALSE]
      <4>1. ASSUME NEW b, NEW a
            PROVE  Busy([kind |-> "tss_available", base |-> b, accessed |-> a])
                     = [kind |-> "tss_busy", base |-> b, accessed |-> a]
        BY DEF Busy
      <4> QED
        BY Zenon, <2>3, <3>1, <4>1 DEF TssOK
    <3> QED
      BY Zenon, <1>4, <2>3, <3>1, <3>2 DEF TssOK
  <2>9. CopyOK'
    <3>1. ASSUME NEW s \in Slots, 8 * (s + 1) <= Length PROVE gdt'[s] = firmware.gdt[s]
      <4>1. s # TssSlot
        BY <1>3, <3>1, SlotNumbers
      <4> QED
        BY <1>2, <2>5, <3>1, <4>1 DEF Appended, CopyOK
    <3> QED
      BY <1>1, <1>4, <3>1 DEF CopyOK
  <2>10. gdt' \in [Slots -> Descriptor]
    BY <1>2, <1>3, <2>5 DEF Descriptor, Kinds
  <2>11. Appended'
    BY <1>1, <1>2, <1>4, <2>9 DEF Appended, fits_page, round_up_8
  <2>12. prepared_gdtr' = prepared_gdtr /\ selectors_copied' /\ ~requires_ist'
    BY <1>1, <2>1 DEF prepared_gdtr, selectors_copied, requires_ist
  <2>13. Loaded'
    BY <1>4, <2>5, <2>8, <2>11, <2>12 DEF Loaded, round_up_8
  <2> QED
    BY <1>1, <2>4, <2>7, <2>10, <2>13, Zenon
       DEF HInv, Stages, GdtErrors, GuestSegmentsEnterable
<1> QED
  BY <1>5, <1>6

(* from_current accepts only segments that VM entry accepts.               *)
LEMMA CollectInv ==
  ASSUME HInv, from_current PROVE HInv'
<1>1. UNCHANGED <<cpu, gdt, region, firmware, pages, fault, calls>> /\ result = "active"
  BY DEF from_current
<1>2. Loaded /\ firmware \in Firmwares /\ fits_page(Length) /\ gdt \in [Slots -> Descriptor]
      /\ CopyOK /\ region.original_length = Length
  BY <1>1, SMTT(30) DEF HInv, Loaded, Appended
<1>3. Loaded'
  BY <1>1, <1>2, SMTT(30) DEF Loaded, Appended, CopyOK, TssOK, prepared_gdtr, selectors_copied,
                    requires_ist, Length, TssSlot
<1>4. result' \in {"BadSelector", "CsNot64Bit", "TrNotBusyTss", "collected"}
  BY DEF from_current, check_segments
<1>5. ASSUME result' = "collected" PROVE GuestSegmentsEnterable'
  <2>1. /\ guest' = [r \in DOMAIN Selectors |-> segment_from_gdt(Selectors[r])]
        /\ guest'.cs.kind = "code64" /\ guest'.tr.kind = "tss_busy"
        /\ \A r \in DOMAIN Selectors :
             is_null(Selectors[r]) \/ in_table(cpu.gdtr[2], Selectors[r], 8)
    BY <1>5 DEF from_current, check_segments
  <2>2. DOMAIN Selectors = {"cs", "ss", "ds", "tr"} /\ Selectors' = Selectors
    BY <1>1 DEF Selectors
  <2>3. /\ Selectors["cs"] = firmware.cs /\ Selectors["ss"] = firmware.ss
        /\ Selectors["ds"] = firmware.ds
        /\ firmware.cs \in Nat /\ firmware.ss \in Nat /\ firmware.ds \in Nat
        /\ firmware.limit \in Nat
    BY <1>2, FirmwareAssumption DEF Selectors
  <2>4. ASSUME NEW sel \in Nat, ~is_null(sel), Own(sel), NEW limit, in_table(limit, sel, 8)
        PROVE  /\ sel \div 8 \in Slots \ {0} /\ 8 * ((sel \div 8) + 1) <= firmware.limit + 1
               /\ gdt[sel \div 8] = firmware.gdt[sel \div 8] /\ gdt[sel \div 8] \in Descriptor
    <3> DEFINE s == sel \div 8
    <3>1. s \in Nat \ {0} /\ 8 * (s + 1) <= Length
      BY <2>4 DEF in_table, Own, Length
    <3>2. TssSlot \in Slots /\ Length <= 8 * TssSlot /\ Length \in Nat /\ TssSlot \in Nat
      BY <1>2, RoundUp
    <3>3. s \in Slots
      <4> HIDE DEF s, TssSlot, Length
      <4> QED
        BY <3>1, <3>2, SlotNumbers
    <3> QED
      BY <1>2, <3>1, <3>3 DEF CopyOK, Length
  <2>5. ASSUME NEW sel \in Nat, ~is_null(sel), Own(sel), NEW limit, in_table(limit, sel, 8),
               \/ segment_from_gdt(sel).kind = "code64"
               \/ sel \in {firmware.ss, firmware.ds}
        PROVE  /\ segment_from_gdt(sel) = [firmware.gdt[sel \div 8] EXCEPT !.accessed = TRUE]
               /\ segment_from_gdt(sel).kind \in {"code64", "code32", "data"}
               /\ sel = firmware.ss => segment_from_gdt(sel).kind = "data"
    <3>1. PICK d : d = gdt[sel \div 8]
      OBVIOUS
    <3>2. segment_from_gdt(sel) = from_descriptor(d) /\ d = firmware.gdt[sel \div 8] /\ d \in Descriptor
      BY <2>4, <2>5, <3>1 DEF segment_from_gdt
    <3>3. from_descriptor(d).kind = d.kind
      BY <3>2 DEF from_descriptor, Descriptor
    <3>4. /\ d.kind \in {"code64", "code32", "data"}
          /\ sel = firmware.ss => d.kind = "data"
      <4>1. /\ sel = firmware.ss => d.kind = "data"
            /\ sel = firmware.ds => d.kind \in {"code64", "code32", "data"}
        BY <1>2, <2>4, <2>5, <3>2, LoadedAssumption
      <4> QED
        BY <2>5, <3>2, <3>3, <4>1
    <3>5. from_descriptor(d) = [d EXCEPT !.accessed = TRUE]
      BY <3>4 DEF from_descriptor
    <3> QED
      BY <3>2, <3>3, <3>4, <3>5
  <2>6. \A sel \in {firmware.cs, firmware.ss} : is_null(sel) \/ Own(sel)
    BY <1>2, <2>3 DEF Loaded, selectors_copied, in_table, Own, Length
  <2>7. /\ guest'["cs"] = segment_from_gdt(firmware.cs)
        /\ guest'["ss"] = segment_from_gdt(firmware.ss)
        /\ guest'["ds"] = segment_from_gdt(firmware.ds)
    BY <2>1, <2>2, <2>3
  <2>8. \A sel : is_null(sel) => segment_from_gdt(sel).kind = "null"
    BY DEF segment_from_gdt, Null
  <2>9. \/ is_null(firmware.cs)
        \/ guest'["cs"] = [firmware.gdt[firmware.cs \div 8] EXCEPT !.accessed = TRUE]
    BY <2>1, <2>2, <2>3, <2>5, <2>6, <2>7
  <2>10. \/ is_null(firmware.ss)
         \/ /\ guest'["ss"] = [firmware.gdt[firmware.ss \div 8] EXCEPT !.accessed = TRUE]
            /\ guest'["ss"].kind = "data"
    BY <2>1, <2>2, <2>3, <2>5, <2>6, <2>7
  <2>11. \/ is_null(firmware.ds) \/ ~Own(firmware.ds)
         \/ /\ guest'["ds"] = [firmware.gdt[firmware.ds \div 8] EXCEPT !.accessed = TRUE]
            /\ guest'["ds"].kind \in {"code64", "code32", "data"}
    BY <2>1, <2>2, <2>3, <2>5, <2>7
  <2>12. /\ guest'.ss.kind \in {"null", "data"}
         /\ Own(firmware.ds) => guest'.ds.kind \in {"null", "code64", "code32", "data"}
    BY <2>7, <2>8, <2>10, <2>11, ZenonT(40)
  <2>13. ASSUME NEW r \in {"cs", "ss", "ds"}
         PROVE  \/ is_null(Selectors[r])
                \/ r = "ds" /\ ~Own(firmware.ds)
                \/ guest'[r] = [firmware.gdt[Selectors[r] \div 8] EXCEPT !.accessed = TRUE]
    BY <2>3, <2>9, <2>10, <2>11, Zenon
  <2>14. firmware' = firmware /\ (Own(firmware.ds))' = Own(firmware.ds)
    BY <1>1 DEF Own
  <2> QED
    BY <2>1, <2>2, <2>12, <2>13, <2>14, Zenon DEF GuestSegmentsEnterable
<1> QED
  BY <1>1, <1>3, <1>4, <1>5 DEF HInv, Stages, GdtErrors, GuestSegmentsEnterable

-----------------------------------------------------------------------------
(* The inductive invariant holds for every firmware.                       *)
THEOREM TablesInvariant == TablesSpec => []HInv
<1>1. HInv /\ [TablesNext]_tablesVars => HInv'
  <2>1. ASSUME HInv, UNCHANGED tablesVars PROVE HInv'
    BY <2>1, SMTT(30) DEF HInv, tablesVars, Loaded, Appended, CopyOK, TssOK, prepared_gdtr, Length, TssSlot,
                selectors_copied, requires_ist, GuestSegmentsEnterable, Own, Selectors
  <2> QED
    BY <2>1, AllocateInv, CopyInv, AppendInv, ActivateInv, CollectInv DEF TablesNext
<1> QED
  BY <1>1, InitInv, PTL DEF TablesSpec

(* Tables that activate reports as active serve the host: LTR never        *)
(* faults, CS and SS find the firmware's descriptors, TR the busy TSS.     *)
THEOREM TablesServe == TablesSpec => []ActiveTablesServe
<1>1. HInv => ActiveTablesServe
  <2> SUFFICES ASSUME HInv, result \in {"active", "collected"} PROVE ActiveTablesServe
    BY SMTT(30) DEF HInv, ActiveTablesServe
  <2>1. /\ Loaded /\ Appended /\ CopyOK /\ TssOK("tss_busy") /\ firmware \in Firmwares
        /\ fits_page(Length) /\ pages = {"tss", "gdt"}
        /\ region.original_length = Length /\ region.tss_selector = round_up_8(Length)
    BY DEF HInv, Loaded, Appended
  <2>2. /\ TssSlot \in Slots /\ TssSlot + 1 \in Slots /\ TssSlot \in Nat /\ TssSlot > 0
        /\ Length <= 8 * TssSlot /\ round_up_8(Length) = 8 * TssSlot /\ Length \in Nat
        /\ 8 * TssSlot + 16 <= PAGE_SIZE
    BY <2>1, RoundUp
  <2> HIDE DEF Length, TssSlot
  <2>3. /\ cpu.gdtr[1] = "gdt" /\ cpu.gdtr[2] = 8 * TssSlot + 15 /\ cpu.tr = 8 * TssSlot
    BY <2>1, <2>2 DEF Loaded, prepared_gdtr, SYSTEM_DESCRIPTOR_SIZE
  <2>4. cpu.gdtr[2] < PAGE_SIZE
    BY <2>2, <2>3, FirmwareAssumption
  <2>5. cpu.tr \div 8 = TssSlot /\ CpuFinds(cpu.tr, 16)
    BY <2>2, <2>3 DEF CpuFinds, TI
  <2>6. /\ gdt[cpu.tr \div 8].kind = "tss_busy"
        /\ <<gdt[cpu.tr \div 8].base, gdt[(cpu.tr \div 8) + 1].base>> = TSS_BASE
    BY <2>1, <2>5, TssAssumption DEF TssOK
  <2>7. ASSUME NEW sel \in {firmware.cs, firmware.ss}, ~is_null(sel)
        PROVE  CpuFinds(sel, 8) /\ gdt[sel \div 8] = firmware.gdt[sel \div 8]
    <3>1. in_table(Length - 1, sel, 8)
      BY <2>1, <2>7 DEF Loaded, selectors_copied
    <3>2. sel \in Nat
      BY <2>1, FirmwareAssumption
    <3>3. sel \div 8 \in Nat /\ 8 * ((sel \div 8) + 1) <= Length /\ ~TI(sel)
      BY <2>2, <3>1, <3>2 DEF in_table
    <3>4. sel \div 8 \in Slots
      BY <2>2, <3>3, SlotNumbers, SMTT(30)
    <3> QED
      BY <2>1, <2>2, <2>3, <3>3, <3>4 DEF CpuFinds, CopyOK
  <2>8. ASSUME NEW g \in firmware.gates, g[2] = "present",
               (g[1] + 1) * 16 <= firmware.idt_length
        PROVE  g[3] = 0
    <3>1. g[1] \in Nat /\ firmware.idt_length \in Nat
      BY <2>1, FirmwareAssumption
    <3>2. g[1] < firmware.idt_length \div 16
      BY <2>8, <3>1
    <3> QED
      BY <2>1, <2>8, <3>2, SMTT(30) DEF Loaded, requires_ist
  <2> QED
    BY <2>1, <2>3, <2>4, <2>5, <2>6, <2>7, <2>8, SMTT(30) DEF ActiveTablesServe, HInv
<1> QED
  BY <1>1, TablesInvariant, PTL

(* Segments that from_current accepts pass VM entry's checks, DS wherever  *)
(* it names a descriptor of the firmware's GDT.                            *)
THEOREM SegmentsEnterable == TablesSpec => []GuestSegmentsEnterable
<1>1. HInv => GuestSegmentsEnterable
  BY DEF HInv
<1> QED
  BY <1>1, TablesInvariant, PTL

(* A refusal leaves GDTR, TR and the GDT as they were.                     *)
THEOREM RefusalsTouchNothing == TablesSpec => RefusalTouchesNothing
<1>1. [TablesNext]_tablesVars =>
        [result' \in GdtErrors \ {"ActivationVerificationFailed"} => UNCHANGED <<cpu, gdt>>]_tablesVars
  BY DEF TablesNext, tablesVars, allocate_tss, copy_active, append_tss_descriptor, activate, from_current,
         check_segments, GdtErrors
<1> QED
  BY <1>1, PTL DEF TablesSpec, RefusalTouchesNothing

-----------------------------------------------------------------------------
(* The exit bitmaps.                                                       *)

(* The sizes of the ranges of MSRs, and that the ranges are apart.         *)
LEMMA Sizes ==
  /\ MSR_RANGE = 8192 /\ MSR_HIGH \in Int /\ MSR_HIGH + MSR_RANGE < 0
BY SMT DEF MSR_HIGH, MSR_RANGE

(* A bit of the page is named by its byte and its bit in exactly one way.  *)
LEMMA BytesAndBits ==
  ASSUME NEW a \in Nat, NEW b \in Nat, a \div 8 = b \div 8, a % 8 = b % 8
  PROVE  a = b
BY SMT

\* The number of an MSR's bit, counted from the start of the page.
Place(m) == IF m >= 0 THEN m ELSE MSR_RANGE + (m - MSR_HIGH)
MsrNumber(m, access) == Half(access) + Place(m)

(* The two halves of the page.                                             *)
LEMMA Halves ==
  ASSUME NEW access \in {"Read", "Write"}
  PROVE  Half(access) = 0 \/ Half(access) = 2 * MSR_RANGE
BY SMT, Sizes DEF Half

(* Each MSR with a bit has a place of its own in each half of the page.    *)
LEMMA Places ==
  ASSUME NEW m \in Int, HasMsrBit(m)
  PROVE  Place(m) \in Nat /\ Place(m) < 2 * MSR_RANGE
BY SMT, Sizes DEF HasMsrBit, Place

(* Two MSRs share no place.                                                *)
LEMMA PlacesApart ==
  ASSUME NEW m \in Int, HasMsrBit(m), NEW o \in Int, HasMsrBit(o), Place(o) = Place(m)
  PROVE  o = m
<1>1. CASE m >= 0
  BY SMT, <1>1, Sizes DEF HasMsrBit, Place
<1>2. CASE ~(m >= 0)
  BY SMT, <1>2, Sizes DEF HasMsrBit, Place
<1> QED
  BY <1>1, <1>2

(* msr_bit is that bit's byte and bit.                                     *)
LEMMA MsrBitNumber ==
  ASSUME NEW m \in Int, HasMsrBit(m), NEW access \in {"Read", "Write"}
  PROVE  /\ MsrNumber(m, access) \in Nat
         /\ msr_bit(m, access) = <<MsrNumber(m, access) \div 8, MsrNumber(m, access) % 8>>
<1>1. Place(m) \in Nat /\ Place(m) < 2 * MSR_RANGE
  BY Places
<1>2. CASE access = "Read"
  <2>1. MsrNumber(m, access) = Place(m)
    BY SMT, <1>1, <1>2 DEF MsrNumber, Half
  <2>2. CASE m >= 0
    <3>1. Place(m) = m
      BY <2>2 DEF Place
    <3>2. msr_bit(m, access) = <<0 + (m \div 8), m % 8>>
      BY <1>2, <2>2 DEF msr_bit, MsrIndex
    <3> QED
      BY SMT, <1>1, <2>1, <3>1, <3>2
  <2>3. CASE ~(m >= 0)
    <3> DEFINE i == m - MSR_HIGH
    <3>1. Place(m) = 8192 + i /\ i \in Int
      BY SMT, <2>3, Sizes DEF Place
    <3>2. msr_bit(m, access) = <<1024 + (i \div 8), i % 8>>
      BY <1>2, <2>3 DEF msr_bit, MsrIndex
    <3> HIDE DEF i
    <3> QED
      BY SMT, <1>1, <2>1, <3>1, <3>2
  <2> QED
    BY <2>2, <2>3
<1>3. CASE access # "Read"
  <2>1. MsrNumber(m, access) = 16384 + Place(m)
    BY SMT, <1>1, <1>3, Sizes DEF MsrNumber, Half
  <2>2. CASE m >= 0
    <3>1. Place(m) = m
      BY <2>2 DEF Place
    <3>2. msr_bit(m, access) = <<(0 + 2048) + (m \div 8), m % 8>>
      BY <1>3, <2>2 DEF msr_bit, MsrIndex
    <3> QED
      BY SMT, <1>1, <2>1, <3>1, <3>2
  <2>3. CASE ~(m >= 0)
    <3> DEFINE i == m - MSR_HIGH
    <3>1. Place(m) = 8192 + i /\ i \in Int
      BY SMT, <2>3, Sizes DEF Place
    <3>2. msr_bit(m, access) = <<(1024 + 2048) + (i \div 8), i % 8>>
      BY <1>3, <2>3 DEF msr_bit, MsrIndex
    <3> HIDE DEF i
    <3> QED
      BY SMT, <1>1, <2>1, <3>1, <3>2
  <2> QED
    BY <2>2, <2>3
<1> QED
  BY <1>2, <1>3

(* The CPU's lookup in the page fill makes: an MSR access exits exactly    *)
(* when the MSR is intercepted or has no bit.                              *)
LEMMA MsrExitsExactly ==
  ASSUME NEW msr \in Int, NEW access \in {"Read", "Write"}
  PROVE  MsrExits(FilledMsr, msr, access) <=>
           (~HasMsrBit(msr) \/ msr \in INTERCEPTED_MSRS)
<1>1. CASE ~HasMsrBit(msr)
  BY SMT, <1>1, Sizes DEF MsrExits, HasMsrBit
<1>2. CASE HasMsrBit(msr)
  <2>1. MsrExits(FilledMsr, msr, access) <=> BitSet(FilledMsr, MsrNumber(msr, access))
    <3>1. CASE msr >= 0
      BY SMT, <1>2, <3>1, Halves, Sizes DEF MsrExits, HasMsrBit, MsrNumber, Place
    <3>2. CASE ~(msr >= 0)
      BY SMT, <1>2, <3>2, Halves, Sizes DEF MsrExits, HasMsrBit, MsrNumber, Place
    <3> QED
      BY <3>1, <3>2
  <2>2. BitSet(FilledMsr, MsrNumber(msr, access)) <=> msr_bit(msr, access) \in FilledMsr
    BY <1>2, MsrBitNumber DEF BitSet
  <2>3. ASSUME msr \in INTERCEPTED_MSRS PROVE msr_bit(msr, access) \in FilledMsr
    BY SMT, <2>3 DEF FilledMsr
  <2>4. ASSUME msr_bit(msr, access) \in FilledMsr PROVE msr \in INTERCEPTED_MSRS
    <3>1. PICK m \in INTERCEPTED_MSRS, a \in {"Read", "Write"} :
            msr_bit(m, a) = msr_bit(msr, access)
      BY SMT, <2>4 DEF FilledMsr
    <3>2. m \in Int /\ HasMsrBit(m)
      BY SMT, InterceptedAssumption DEF INTERCEPTED_MSRS
    <3>3. MsrNumber(m, a) = MsrNumber(msr, access)
      <4>1. MsrNumber(m, a) \in Nat /\ MsrNumber(msr, access) \in Nat
        BY <1>2, <3>2, MsrBitNumber
      <4>2. /\ MsrNumber(m, a) \div 8 = MsrNumber(msr, access) \div 8
            /\ MsrNumber(m, a) % 8 = MsrNumber(msr, access) % 8
        BY SMT, <1>2, <3>1, <3>2, MsrBitNumber
      <4> QED
        BY <4>1, <4>2, BytesAndBits
    <3>4. Place(m) = Place(msr)
      BY SMT, <1>2, <3>2, <3>3, Places, Halves, Sizes DEF MsrNumber
    <3>5. m = msr
      BY <1>2, <3>2, <3>4, PlacesApart
    <3> QED
      BY <3>5
  <2> QED
    BY <1>2, <2>1, <2>2, <2>3, <2>4
<1> QED
  BY <1>1, <1>2

(* The I/O bitmap's size, and that the intercepted ports are ports.        *)
LEMMA IoSizes ==
  /\ IO_PORTS = 32768
  /\ \A p \in INTERCEPTED_PORTS : p \in Nat /\ p < 2 * IO_PORTS
BY SMT DEF IO_PORTS, INTERCEPTED_PORTS

(* io_bit names page and bit, for the ports below and above the middle.    *)
LEMMA IoBitNumber ==
  ASSUME NEW p \in Nat, p < 2 * IO_PORTS
  PROVE  /\ p < IO_PORTS => io_bit(p) = [page |-> "A", at |-> <<p \div 8, p % 8>>]
         /\ p >= IO_PORTS => io_bit(p) = [page |-> "B", at |-> <<(p - IO_PORTS) \div 8,
                                                               (p - IO_PORTS) % 8>>]
<1>1. CASE p < IO_PORTS
  <2>1. p % IO_PORTS = p
    BY SMT, <1>1, IoSizes
  <2> QED
    BY SMT, <1>1, <2>1, IoSizes DEF io_bit
<1>2. CASE p >= IO_PORTS
  <2>1. p % IO_PORTS = p - IO_PORTS
    BY SMT, <1>2, IoSizes
  <2>2. p % 8 = (p - IO_PORTS) % 8
    BY SMT, <1>2, IoSizes
  <2> QED
    BY SMT, <1>2, <2>1, <2>2, IoSizes DEF io_bit
<1> QED
  BY SMT, <1>1, <1>2, IoSizes

(* The CPU finds a port's bit set exactly when the port is intercepted.    *)
LEMMA PortBitExactly ==
  ASSUME NEW p \in Nat, p < 2 * IO_PORTS
  PROVE  (\/ p < IO_PORTS /\ BitSet(FilledIo("A"), p)
          \/ p >= IO_PORTS /\ BitSet(FilledIo("B"), p - IO_PORTS)) <=> p \in INTERCEPTED_PORTS
<1>1. CASE p < IO_PORTS
  <2>1. ASSUME p \in INTERCEPTED_PORTS PROVE BitSet(FilledIo("A"), p)
    BY SMT, <1>1, <2>1, IoBitNumber DEF BitSet, FilledIo
  <2>2. ASSUME BitSet(FilledIo("A"), p) PROVE p \in INTERCEPTED_PORTS
    <3>1. PICK q \in INTERCEPTED_PORTS :
            io_bit(q).page = "A" /\ io_bit(q).at = <<p \div 8, p % 8>>
      BY SMT, <2>2 DEF BitSet, FilledIo
    <3>2. q \in Nat /\ q < 2 * IO_PORTS
      BY IoSizes
    <3>3. q < IO_PORTS
      BY SMT, <3>1, <3>2, IoBitNumber, IoSizes
    <3>4. q \div 8 = p \div 8 /\ q % 8 = p % 8
      BY SMT, <3>1, <3>2, <3>3, IoBitNumber
    <3> QED
      BY <3>2, <3>4, BytesAndBits
  <2> QED
    BY SMT, <1>1, <2>1, <2>2, IoSizes
<1>2. CASE p >= IO_PORTS
  <2> DEFINE i == p - IO_PORTS
  <2>1. i \in Nat
    BY SMT, <1>2, IoSizes
  <2>2. ASSUME p \in INTERCEPTED_PORTS PROVE BitSet(FilledIo("B"), i)
    BY SMT, <1>2, <2>2, IoBitNumber DEF BitSet, FilledIo
  <2>3. ASSUME BitSet(FilledIo("B"), i) PROVE p \in INTERCEPTED_PORTS
    <3>1. PICK q \in INTERCEPTED_PORTS :
            io_bit(q).page = "B" /\ io_bit(q).at = <<i \div 8, i % 8>>
      BY SMT, <2>3 DEF BitSet, FilledIo
    <3>2. q \in Nat /\ q < 2 * IO_PORTS
      BY IoSizes
    <3>3. q >= IO_PORTS /\ q - IO_PORTS \in Nat
      BY SMT, <3>1, <3>2, IoBitNumber, IoSizes
    <3>4. (q - IO_PORTS) \div 8 = i \div 8 /\ (q - IO_PORTS) % 8 = i % 8
      BY SMT, <3>1, <3>2, <3>3, IoBitNumber
    <3>5. q - IO_PORTS = i
      BY <2>1, <3>3, <3>4, BytesAndBits
    <3>6. q = p
      BY SMT, <3>2, <3>5, IoSizes
    <3> QED
      BY <3>6
  <2> QED
    BY SMT, <1>2, <2>2, <2>3, IoSizes
<1> QED
  BY SMT, <1>1, <1>2, IoSizes

(* An IN or OUT exits exactly when it touches an intercepted port or runs  *)
(* past the last port.                                                     *)
LEMMA IoExitsExactly ==
  ASSUME NEW port \in Nat, NEW bytes \in {1, 2, 4}
  PROVE  IoExits(FilledIo("A"), FilledIo("B"), port, bytes) <=>
           (\/ port + bytes > 2 * IO_PORTS
            \/ \E p \in INTERCEPTED_PORTS : p \in port .. (port + bytes - 1))
<1>1. CASE port + bytes > 2 * IO_PORTS
  BY <1>1 DEF IoExits
<1>2. CASE ~(port + bytes > 2 * IO_PORTS)
  <2>1. \A p \in port .. (port + bytes - 1) : p \in Nat /\ p < 2 * IO_PORTS
    BY SMT, <1>2, IoSizes
  <2>2. \A p \in port .. (port + bytes - 1) :
          (\/ p < IO_PORTS /\ BitSet(FilledIo("A"), p)
           \/ p >= IO_PORTS /\ BitSet(FilledIo("B"), p - IO_PORTS))
          <=> p \in INTERCEPTED_PORTS
    BY <2>1, PortBitExactly
  <2> QED
    BY <1>2, <2>2 DEF IoExits
<1> QED
  BY <1>1, <1>2

-----------------------------------------------------------------------------
(* The decision on an MSR access that exits.                               *)

(* is_canonical_48 and the processor's check are the same.                 *)
LEMMA CanonicalAgrees ==
  ASSUME NEW value \in Int \X Int
  PROVE  is_canonical_48(value) <=> Canonical(value)
BY SMT DEF is_canonical_48, Canonical

(* counted yields an emulation, the one it was given.                      *)
LEMMA CountedEvent ==
  ASSUME NEW state, NEW count, NEW emulation
  PROVE  counted(state, count, emulation).event = "Emulated"
BY Zenon DEF counted

(* See CountedEvent.                                                       *)
LEMMA CountedEmulation ==
  ASSUME NEW state, NEW count, NEW emulation
  PROVE  counted(state, count, emulation).emulation = emulation
BY Zenon DEF counted

(* An intercepted access is emulated, unless it writes a value that is no  *)
(* address; any other access that exits gets a #GP.                        *)
LEMMA JudgedEvent ==
  ASSUME NEW msr \in Int, NEW access \in {"Read", "Write"}, NEW value \in Int \X Int,
         ~HasMsrBit(msr) \/ msr \in INTERCEPTED_MSRS
  PROVE  MsrJudged(msr, access, value).event =
           IF ~HasMsrBit(msr) \/ (access = "Write" /\ ~Canonical(value))
           THEN "GuestGeneralProtection" ELSE "Emulated"
<1> DEFINE exit == [rcx |-> msr, rdx |-> value[1], rax |-> value[2]]
<1>1. exit.rcx = msr /\ <<exit.rdx, exit.rax>> = value
  BY SMT
<1>2. HasMsrBit(msr) => route(msr) = "Intercepted"
  BY DEF route
<1>3. ~HasMsrBit(msr) => route(msr) = "OutOfRange"
  BY DEF route
<1>4. "OutOfRange" # "Intercepted"
  OBVIOUS
<1>5. Judged("GuestGeneralProtection", InitState).event = "GuestGeneralProtection"
  BY Zenon DEF Judged
<1>6. MsrJudged(msr, access, value) = IF access = "Read" THEN rdmsr(InitState, exit)
                                                         ELSE wrmsr(InitState, exit)
  BY DEF MsrJudged
<1>7. is_canonical_48(<<exit.rdx, exit.rax>>) <=> Canonical(value)
  BY <1>1, CanonicalAgrees
<1> HIDE DEF exit
<1>8. rdmsr(InitState, exit).event =
        IF ~HasMsrBit(msr) THEN "GuestGeneralProtection" ELSE "Emulated"
  <2>1. CASE HasMsrBit(msr)
    BY Zenon, <2>1, <1>1, <1>2, CountedEvent DEF rdmsr
  <2>2. CASE ~HasMsrBit(msr)
    BY Zenon, <2>2, <1>1, <1>3, <1>4, <1>5 DEF rdmsr
  <2> QED
    BY <2>1, <2>2
<1>9. wrmsr(InitState, exit).event =
        IF ~HasMsrBit(msr) \/ ~Canonical(value)
        THEN "GuestGeneralProtection" ELSE "Emulated"
  <2>1. CASE HasMsrBit(msr) /\ Canonical(value)
    BY Zenon, <2>1, <1>1, <1>2, <1>7, CountedEvent DEF wrmsr
  <2>2. CASE HasMsrBit(msr) /\ ~Canonical(value)
    BY Zenon, <2>2, <1>1, <1>2, <1>5, <1>7 DEF wrmsr
  <2>3. CASE ~HasMsrBit(msr)
    BY Zenon, <2>3, <1>1, <1>3, <1>4, <1>5 DEF wrmsr
  <2> QED
    BY <2>1, <2>2, <2>3
<1> QED
  BY <1>6, <1>8, <1>9

-----------------------------------------------------------------------------
(* The inductive invariant: the pages the VMCS names are the filled ones   *)
(* once the guest runs, the guest was never stopped, and the two           *)
(* properties.                                                             *)
BitmapInv ==
  /\ stage \in {"new", "filled", "guest", "failed"}
  /\ stage \in {"filled", "guest"} =>
       mem[1] = FilledMsr /\ mem[2] = FilledIo("A") /\ mem[3] = FilledIo("B")
  /\ stage = "guest" => vmcs.MSR_BITMAP = 1 /\ vmcs.IO_BITMAP_A = 2 /\ vmcs.IO_BITMAP_B = 3
  /\ msrs \in MsrValues /\ bare \in MsrValues
  /\ ExitsExact
  /\ MsrsTransparent

(* It holds before the bitmaps are allocated.                              *)
LEMMA BitmapInit == Init => BitmapInv
<1> SUFFICES ASSUME Init PROVE BitmapInv
  OBVIOUS
<1>1. msrs \in MsrValues /\ bare \in MsrValues
  BY SMT, SMTT(30) DEF Init, MsrValues
<1>2. ExitsExact
  BY SMT, SMTT(30) DEF Init, NoAccess, ExitsExact
<1>3. MsrsTransparent
  BY SMT DEF Init, NoAccess, MsrsTransparent
<1> QED
  BY <1>1, <1>2, <1>3 DEF Init, BitmapInv

(* allocate and write_to_vmcs leave the registers alone.                   *)
LEMMA SetUpStep == BitmapInv /\ (allocate \/ write_to_vmcs) => BitmapInv'
<1> SUFFICES ASSUME BitmapInv, allocate \/ write_to_vmcs PROVE BitmapInv'
  OBVIOUS
<1>1. CASE allocate
  <2>1. ExitsExact' /\ MsrsTransparent'
    BY <1>1, SMTT(30) DEF allocate, BitmapInv, ExitsExact, MsrsTransparent
  <2>2. fill(1, 2, 3)[1] = FilledMsr /\ fill(1, 2, 3)[2] = FilledIo("A")
          /\ fill(1, 2, 3)[3] = FilledIo("B")
    BY SMT DEF fill
  <2> QED
    BY <1>1, <2>1, <2>2, SMTT(30) DEF allocate, BitmapInv, MsrValues
<1>2. CASE write_to_vmcs
  <2>1. ExitsExact' /\ MsrsTransparent'
    BY <1>2, SMTT(30) DEF write_to_vmcs, BitmapInv, ExitsExact, MsrsTransparent
  <2> QED
    BY <1>2, <2>1, SMTT(30) DEF write_to_vmcs, BitmapInv, MsrValues
<1> QED
  BY <1>1, <1>2

(* IN and OUT: the ports' lookup, and the decision to pass them through.   *)
LEMMA IoStep ==
  ASSUME BitmapInv, NEW port \in Ports, NEW size \in {"Byte", "Word", "Dword"},
         NEW is_in \in BOOLEAN, GuestIo(port, size, is_in)
  PROVE  BitmapInv'
<1> DEFINE exits == IoExits(mem[vmcs.IO_BITMAP_A], mem[vmcs.IO_BITMAP_B], port, Bytes(size))
           q == [size |-> size, is_in |-> is_in, is_string |-> FALSE, is_rep |-> FALSE,
                 port |-> port]
           judged == io(InitState, [io |-> q, rax |-> 0])
<1>1. Bytes(size) \in {1, 2, 4}
  BY SMT DEF Bytes
<1>2. port \in Nat
  BY GuestAssumption
<1>3. exits <=> (\/ port + Bytes(size) > 2 * IO_PORTS
                 \/ \E p \in INTERCEPTED_PORTS : p \in port .. (port + Bytes(size) - 1))
  BY <1>1, <1>2, IoExitsExactly, Zenon DEF BitmapInv, GuestIo
<1>4. judged.event = "Emulated" /\ judged.emulation.port = port /\ judged.emulation.size = size
  <2>1. /\ [io |-> q, rax |-> 0].io = q
        /\ q.size = size /\ q.port = port /\ q.is_in = is_in
        /\ ~q.is_string /\ ~q.is_rep
    OBVIOUS
  <2>2. size # "unused"
    OBVIOUS
  <2> DEFINE in == [op |-> "In", port |-> port, size |-> size]
             out == [op |-> "Out", port |-> port, size |-> size,
                     value |-> out_value([io |-> q, rax |-> 0].rax, size)]
  <2>3. judged = IF is_in THEN counted(InitState, "io_in", in)
                          ELSE counted(InitState, "io_out", out)
    BY Zenon, <2>1, <2>2 DEF io
  <2>4. in.port = port /\ in.size = size /\ out.port = port /\ out.size = size
    BY SMTT(30)
  <2> HIDE DEF judged, in, out
  <2>5. judged.event = "Emulated"
    BY <2>3, CountedEvent
  <2>6. judged.emulation = IF is_in THEN in ELSE out
    BY <2>3, CountedEmulation
  <2> QED
    BY <2>4, <2>5, <2>6
<1>5. /\ stage' = stage
      /\ last'.op \in {"In", "Out"} /\ last'.at = port /\ last'.bytes = Bytes(size)
      /\ last'.exited = exits
  BY <1>4, Zenon DEF GuestIo
<1>6. ExitsExact'
  BY <1>3, <1>5 DEF ExitsExact, BitmapInv
<1>7. MsrsTransparent'
  BY <1>5, Zenon DEF MsrsTransparent, BitmapInv, GuestIo
<1> QED
  BY <1>5, <1>6, <1>7, Zenon DEF BitmapInv, GuestIo, MsrValues

(* A RDMSR or WRMSR keeps registers registers.                             *)
LEMMA AccessedType ==
  ASSUME NEW regs \in MsrValues, NEW msr \in Msrs \cap Existing,
         NEW access \in {"Read", "Write"}, NEW value \in Int \X Int
  PROVE  /\ Accessed(regs, msr, access, value) \in MsrValues
         /\ \A m \in Msrs \cap Existing :
              Accessed(regs, msr, access, value)[m] =
                IF access = "Write" /\ m = msr THEN value ELSE regs[m]
BY SMTT(30) DEF Accessed, MsrValues

(* What the two actions on an MSR share: where the access goes.            *)
LEMMA MsrLookup ==
  ASSUME BitmapInv, stage = "guest", NEW msr \in Msrs, NEW access \in {"Read", "Write"}
  PROVE  /\ msr \in Int
         /\ MsrExits(mem[vmcs.MSR_BITMAP], msr, access) <=>
              (~HasMsrBit(msr) \/ msr \in INTERCEPTED_MSRS)
<1>1. msr \in Int
  BY GuestAssumption
<1>2. mem[vmcs.MSR_BITMAP] = FilledMsr
  BY SMTT(30) DEF BitmapInv
<1> QED
  BY <1>1, <1>2, MsrExitsExactly

(* An access that does not exit.                                           *)
LEMMA DirectStep ==
  ASSUME BitmapInv, stage = "guest", NEW msr \in Msrs, NEW access \in {"Read", "Write"},
         NEW value \in Int \X Int, MsrDirect(msr, access, value), UNCHANGED <<mem, vmcs>>
  PROVE  BitmapInv'
<1> DEFINE faults == Faults(msr, access, value)
<1>1. HasMsrBit(msr) /\ msr \notin INTERCEPTED_MSRS
  BY MsrLookup, Zenon DEF MsrDirect
<1>2. /\ stage' = stage /\ host' = host
      /\ msrs' = IF faults THEN msrs ELSE Accessed(msrs, msr, access, value)
      /\ bare' = IF faults THEN bare ELSE Accessed(bare, msr, access, value)
      /\ last'.op = access /\ last'.at = msr /\ last'.exited = FALSE
      /\ last'.outcome = IF faults THEN "fault" ELSE "done"
      /\ last'.bare = IF faults THEN "fault" ELSE "done"
      /\ last'.value = IF faults THEN <<0, 0>> ELSE msrs'[msr]
      /\ last'.bare_value = IF faults THEN <<0, 0>> ELSE bare'[msr]
  <2>1. Ran(access, msr, FALSE, IF faults THEN "fault" ELSE "done",
            IF faults THEN <<0, 0>> ELSE msrs'[msr], faults)
    BY Zenon DEF MsrDirect
  <2>2. /\ stage' = stage /\ host' = host
        /\ msrs' = IF faults THEN msrs ELSE Accessed(msrs, msr, access, value)
        /\ bare' = IF faults THEN bare ELSE Accessed(bare, msr, access, value)
    BY Zenon DEF MsrDirect
  <2> HIDE DEF faults
  <2> QED
    BY <2>1, <2>2, Zenon DEF Ran
<1>3. ~faults => msr \in Msrs \cap Existing
  BY DEF Faults
<1> HIDE DEF faults
<1>4. msrs' \in MsrValues /\ bare' \in MsrValues
  BY <1>2, <1>3, AccessedType, Zenon DEF BitmapInv
<1>5. ExitsExact'
  <2>1. stage' # "stopped"
    BY <1>2, Zenon DEF ExitsExact, BitmapInv
  <2>2. last'.op \notin {"In", "Out"}
    BY <1>2
  <2> QED
    BY <1>1, <1>2, <2>1, <2>2, Zenon DEF ExitsExact
<1>6. \A m \in Msrs \cap Existing : HasMsrBit(m) => msrs'[m] = bare'[m]
  <2>1. CASE faults
    BY <1>2, <2>1, SMTT(30) DEF BitmapInv, MsrsTransparent
  <2>2. CASE ~faults
    BY <1>2, <1>3, <2>2, AccessedType, SMTT(30) DEF BitmapInv, MsrsTransparent
  <2> QED
    BY <2>1, <2>2, SMTT(30)
<1>7. MsrsTransparent'
  BY <1>1, <1>2, <1>3, <1>6, ZenonT(60) DEF BitmapInv, MsrsTransparent
<1> QED
  BY <1>2, <1>4, <1>5, <1>7, SMTT(30) DEF BitmapInv

(* An intercepted MSR exists, is not held in the VMCS, and takes           *)
(* addresses: wrmsr in the decision checks what the CPU would.             *)
LEMMA InterceptedMsr ==
  ASSUME NEW msr \in INTERCEPTED_MSRS
  PROVE  HasMsrBit(msr) /\ msr \in Existing /\ msr \notin VMCS_HELD_MSRS /\ msr \in AddressMsrs
<1>1. msr \in AddressMsrs
  BY SMT DEF INTERCEPTED_MSRS, AddressMsrs
<1> QED
  BY <1>1, GuestAssumption, InterceptedAssumption

(* An access that exits and is judged by decide.                           *)
LEMMA ExitStep ==
  ASSUME BitmapInv, stage = "guest", NEW msr \in Msrs, NEW access \in {"Read", "Write"},
         NEW value \in Int \X Int, MsrExit(msr, access, value), UNCHANGED <<mem, vmcs>>
  PROVE  BitmapInv'
<1> DEFINE faults == Faults(msr, access, value)
           event == MsrJudged(msr, access, value).event
<1>1. msr \in Int /\ (~HasMsrBit(msr) \/ msr \in INTERCEPTED_MSRS)
  BY MsrLookup DEF MsrExit
<1>2. event = IF ~HasMsrBit(msr) \/ (access = "Write" /\ ~Canonical(value))
              THEN "GuestGeneralProtection" ELSE "Emulated"
  BY <1>1, JudgedEvent
<1>3. /\ stage' = stage
      /\ bare' = IF faults THEN bare ELSE Accessed(bare, msr, access, value)
      /\ last'.op = access /\ last'.at = msr /\ last'.exited = TRUE
      /\ last'.bare = IF faults THEN "fault" ELSE "done"
      /\ last'.bare_value = IF faults THEN <<0, 0>> ELSE bare'[msr]
  BY <1>2, SMTT(30) DEF MsrExit, Ran
<1>4. ExitsExact'
  BY <1>1, <1>3, SMTT(30) DEF ExitsExact, BitmapInv
<1>5. ~faults => msr \in Msrs \cap Existing
  BY DEF Faults
<1>6. bare' \in MsrValues
  <2> HIDE DEF faults
  <2> QED
    BY <1>3, <1>5, AccessedType, SMTT(30) DEF BitmapInv
<1>7. CASE event = "GuestGeneralProtection"
  <2>1. /\ msrs' = msrs /\ host' = host
        /\ last'.outcome = "fault" /\ last'.value = <<0, 0>>
    BY <1>7, SMTT(30) DEF MsrExit, Ran
  <2>2. CASE HasMsrBit(msr)
    <3>1. faults
      BY <1>1, <1>2, <1>7, <2>2, InterceptedMsr DEF Faults
    <3>2. MsrsTransparent'
      BY <1>3, <2>1, <3>1, ZenonT(60) DEF MsrsTransparent, BitmapInv
    <3> QED
      BY <1>3, <1>4, <1>6, <2>1, <3>2, SMTT(30) DEF BitmapInv
  <2>3. CASE ~HasMsrBit(msr)
    <3>1. \A m \in Msrs \cap Existing : HasMsrBit(m) => bare'[m] = bare[m]
      <4> HIDE DEF faults
      <4>1. \A m \in Msrs \cap Existing : HasMsrBit(m) => m # msr
        BY <2>3
      <4> QED
        BY <1>3, <1>5, <4>1, AccessedType, SMTT(30) DEF BitmapInv
    <3>2. MsrsTransparent'
      BY <1>3, <2>1, <2>3, <3>1, ZenonT(40) DEF MsrsTransparent, BitmapInv
    <3> QED
      BY <1>3, <1>4, <1>6, <2>1, <3>2, SMTT(30) DEF BitmapInv
  <2> QED
    BY <2>2, <2>3
<1>8. CASE event = "Emulated"
  <2>1. HasMsrBit(msr) /\ msr \in INTERCEPTED_MSRS /\ ~(access = "Write" /\ ~Canonical(value))
    BY <1>1, <1>2, <1>8
  <2>2. ~faults
    BY <2>1, InterceptedMsr DEF Faults
  <2>3. /\ msrs' = Accessed(msrs, msr, access, value) /\ host' = host
        /\ last'.outcome = "done" /\ last'.value = msrs'[msr]
    BY <1>8, <2>1, InterceptedMsr, SMTT(30) DEF MsrExit, Ran, execute
  <2> HIDE DEF faults
  <2>4. msrs' \in MsrValues
    BY <1>5, <2>2, <2>3, AccessedType, SMTT(30) DEF BitmapInv
  <2>5. \A m \in Msrs \cap Existing : HasMsrBit(m) => msrs'[m] = bare'[m]
    BY <1>3, <1>5, <2>2, <2>3, AccessedType DEF BitmapInv, MsrsTransparent
  <2>6. MsrsTransparent'
    BY <1>3, <1>5, <2>1, <2>2, <2>3, <2>5, ZenonT(40) DEF BitmapInv, MsrsTransparent
  <2> QED
    BY <1>3, <1>4, <1>6, <2>3, <2>4, <2>6, SMTT(30) DEF BitmapInv
<1> QED
  BY <1>2, <1>7, <1>8

(* Every step preserves the invariant.                                     *)
LEMMA BitmapStep == BitmapInv /\ [Next]_vars => BitmapInv'
<1> SUFFICES ASSUME BitmapInv, [Next]_vars PROVE BitmapInv'
  OBVIOUS
<1>1. CASE UNCHANGED vars
  BY <1>1, Zenon DEF vars, BitmapInv, ExitsExact, MsrsTransparent, MsrValues
<1>2. CASE allocate \/ write_to_vmcs
  BY <1>2, SetUpStep
<1>3. ASSUME NEW msr \in Msrs, NEW value \in Values, NEW access \in {"Read", "Write"},
             GuestMsr(msr, access, value)
      PROVE  BitmapInv'
  <2>1. value \in Int \X Int
    BY GuestAssumption
  <2> QED
    BY <1>3, <2>1, DirectStep, ExitStep DEF GuestMsr
<1>4. ASSUME NEW port \in Ports, NEW size \in {"Byte", "Word", "Dword"},
             NEW is_in \in BOOLEAN, GuestIo(port, size, is_in)
      PROVE  BitmapInv'
  BY <1>4, IoStep
<1> QED
  BY <1>1, <1>2, <1>3, <1>4 DEF Next

(* The bitmaps make exactly the intended accesses exit, and no access      *)
(* stops the guest, for every set of MSRs and ports the guest may name     *)
(* (fill, msr_bit, io_bit, and the routes of rdmsr, wrmsr and io).         *)
THEOREM BitmapsExact == Spec => []ExitsExact
<1>1. BitmapInv => ExitsExact
  BY DEF BitmapInv
<1> QED
  BY <1>1, BitmapInit, BitmapStep, PTL DEF Spec

(* The guest's MSRs are always what the bare CPU's would be, and the       *)
(* host's values of the MSRs the VMCS holds are never touched (execute in  *)
(* the handler, VMCS_HELD_MSRS), for every MSR and every value.            *)
THEOREM BitmapsTransparent == Spec => []MsrsTransparent
<1>1. BitmapInv => MsrsTransparent
  BY DEF BitmapInv
<1> QED
  BY <1>1, BitmapInit, BitmapStep, PTL DEF Spec

-----------------------------------------------------------------------------
(* The stop value.                                                         *)

\* A remainder is below its divisor.
LEMMA ModRange ==
  ASSUME NEW d \in Nat \ {0}, NEW x \in Nat
  PROVE  x % d \in 0 .. (d - 1)
BY SMT

\* Taking apart the sum of a multiple of d and something below d.
LEMMA DivMod ==
  ASSUME NEW d \in Nat \ {0}, NEW q \in Nat, NEW r \in 0 .. (d - 1)
  PROVE  (q * d + r) \div d = q /\ (q * d + r) % d = r
BY SMT

\* A number below d is its own remainder.
LEMMA ModSmall ==
  ASSUME NEW d \in Nat \ {0}, NEW r \in 0 .. (d - 1)
  PROVE  r % d = r /\ r \div d = 0
BY SMT

\* There is at least one payload, and the payloads are a natural number.
LEMMA PayloadsPositive == PAYLOADS \in Nat \ {0}
BY WidthsAssumption, SMT DEF PAYLOADS

\* A field pair is a payload: the number's bits lie above the reason's.
LEMMA PairIsPayload ==
  ASSUME NEW n \in 0 .. (NUMBERS - 1), NEW r \in 0 .. (RAWS - 1)
  PROVE  n * RAWS + r \in 0 .. (PAYLOADS - 1)
<1>1. NUMBERS \in Nat \ {0} /\ RAWS \in Nat \ {0}
  BY WidthsAssumption
<1>2. n * RAWS <= (NUMBERS - 1) * RAWS
  BY <1>1, SMT
<1>3. (NUMBERS - 1) * RAWS = NUMBERS * RAWS - RAWS
  BY <1>1, SMT
<1>4. n * RAWS \in Nat /\ NUMBERS * RAWS \in Nat
  BY <1>1, SMT
<1> QED
  BY <1>1, <1>2, <1>3, <1>4, SMT DEF PAYLOADS

\* Splitting a value into kind and payload gives back what was encoded.
LEMMA KindAndPayload ==
  ASSUME NEW kind \in 0..3, NEW p \in 0 .. (PAYLOADS - 1)
  PROVE  /\ (kind * PAYLOADS + p) \div PAYLOADS = kind
         /\ (kind * PAYLOADS + p) % PAYLOADS = p
         /\ kind * PAYLOADS + p \in 0 .. (4 * PAYLOADS - 1)
<1>1. PAYLOADS \in Nat \ {0}
  BY PayloadsPositive
<1>2. (kind * PAYLOADS + p) \div PAYLOADS = kind /\ (kind * PAYLOADS + p) % PAYLOADS = p
  BY <1>1, DivMod
<1>3. kind = 0 \/ kind = 1 \/ kind = 2 \/ kind = 3
  OBVIOUS
<1>4. kind * PAYLOADS + p \in 0 .. (4 * PAYLOADS - 1)
  BY <1>1, <1>3, SMT
<1> QED
  BY <1>2, <1>4

-----------------------------------------------------------------------------
(* Each encoding decodes to its own stop, and none is RESUME_GUEST.        *)

\* encode_finished keeps an exit count of up to 62 bits.
LEMMA FinishedDecodes ==
  ASSUME NEW exits \in 0 .. (PAYLOADS - 1)
  PROVE  /\ decode(encode_finished(exits)) = Finished(exits)
         /\ encode_finished(exits) \in 1 .. (4 * PAYLOADS - 1)
<1>1. PAYLOADS \in Nat \ {0} /\ exits % PAYLOADS = exits
  BY PayloadsPositive, ModSmall
<1>2. encode_finished(exits) = 1 * PAYLOADS + exits
  BY <1>1 DEF encode_finished, KIND_FINISHED
<1>3. /\ (1 * PAYLOADS + exits) \div PAYLOADS = 1
      /\ (1 * PAYLOADS + exits) % PAYLOADS = exits
      /\ 1 * PAYLOADS + exits \in 0 .. (4 * PAYLOADS - 1)
  BY KindAndPayload
<1>4. decode(encode_finished(exits)) = Finished(exits)
  BY <1>2, <1>3, SMT DEF decode, KIND_LAUNCH_FAILED, KIND_FINISHED
<1>5. 1 * PAYLOADS + exits >= 1
  BY <1>1, SMT
<1> QED
  BY <1>1, <1>2, <1>3, <1>4, <1>5, SMT

\* encode_unexpected keeps the kind and the reason whatever the number, and
\* the number modulo 2^30.
LEMMA UnexpectedDecodes ==
  ASSUME NEW number \in Nat, NEW raw_reason \in 0 .. (RAWS - 1)
  PROVE  /\ decode(encode_unexpected(number, raw_reason)) =
              Unexpected(number % NUMBERS, raw_reason)
         /\ encode_unexpected(number, raw_reason) \in 1 .. (4 * PAYLOADS - 1)
<1> DEFINE n == number % NUMBERS
           p == n * RAWS + raw_reason
<1>1. NUMBERS \in Nat \ {0} /\ RAWS \in Nat \ {0} /\ PAYLOADS \in Nat \ {0}
  BY WidthsAssumption, PayloadsPositive
<1>2. n \in 0 .. (NUMBERS - 1)
  BY <1>1, ModRange
<1> HIDE DEF n
<1>3. p \in 0 .. (PAYLOADS - 1)
  BY <1>2, PairIsPayload
<1>4. p \div RAWS = n /\ p % RAWS = raw_reason
  BY <1>1, <1>2, DivMod
<1> HIDE DEF p
<1>5. encode_unexpected(number, raw_reason) = 2 * PAYLOADS + p
  BY DEF encode_unexpected, KIND_UNEXPECTED, n, p
<1>6. /\ (2 * PAYLOADS + p) \div PAYLOADS = 2
      /\ (2 * PAYLOADS + p) % PAYLOADS = p
      /\ 2 * PAYLOADS + p \in 0 .. (4 * PAYLOADS - 1)
  BY <1>3, KindAndPayload
<1>7. decode(encode_unexpected(number, raw_reason)) = Unexpected(n, raw_reason)
  BY <1>4, <1>5, <1>6, SMTT(30) DEF decode, KIND_LAUNCH_FAILED, KIND_FINISHED, KIND_UNEXPECTED
<1>8. 2 * PAYLOADS + p >= 1
  BY <1>1, <1>3, SMT
<1> QED
  BY <1>1, <1>5, <1>6, <1>7, <1>8, SMT DEF n

\* encode_resume_failed keeps RFLAGS, and RFLAGS alone means VMLAUNCH failed.
LEMMA FlagsDecode ==
  ASSUME NEW rflags \in Rflags
  PROVE  /\ decode(encode_resume_failed(rflags)) = ResumeFailed(rflags)
         /\ encode_resume_failed(rflags) \in 1 .. (4 * PAYLOADS - 1)
         /\ decode(rflags) = LaunchFailed(rflags)
         /\ rflags \in 1 .. (4 * PAYLOADS - 1)
<1>1. PAYLOADS \in Nat \ {0} /\ rflags \in 1 .. (PAYLOADS - 1)
  BY PayloadsPositive, WidthsAssumption DEF PAYLOADS
<1>2. rflags % PAYLOADS = rflags /\ rflags \div PAYLOADS = 0
  BY <1>1, ModSmall
<1>3. encode_resume_failed(rflags) = 3 * PAYLOADS + rflags
  BY <1>2 DEF encode_resume_failed, KIND_RESUME_FAILED
<1>4. /\ (3 * PAYLOADS + rflags) \div PAYLOADS = 3
      /\ (3 * PAYLOADS + rflags) % PAYLOADS = rflags
      /\ 3 * PAYLOADS + rflags \in 0 .. (4 * PAYLOADS - 1)
  BY <1>1, KindAndPayload
<1>5. decode(encode_resume_failed(rflags)) = ResumeFailed(rflags)
  BY <1>3, <1>4, SMT DEF decode, KIND_LAUNCH_FAILED, KIND_FINISHED, KIND_UNEXPECTED
<1>6. decode(rflags) = LaunchFailed(rflags)
  BY <1>2 DEF decode, KIND_LAUNCH_FAILED
<1>7. 3 * PAYLOADS + rflags >= 1 /\ rflags <= 4 * PAYLOADS - 1
  BY <1>1, SMT
<1> QED
  BY <1>1, <1>3, <1>4, <1>5, <1>6, <1>7, SMTT(30)

-----------------------------------------------------------------------------
(* The inductive invariant: while the value travels in RAX, between the    *)
(* handler's answer and launch's decode, it decodes to the cause.          *)
StopInv ==
  /\ StopTypeOK
  /\ at \in {"vmx_launch", "guest"} => cause = NotStopped
  /\ at = "vmexit_entry" => \/ rax = RESUME_GUEST /\ cause = NotStopped
                            \/ rax # RESUME_GUEST /\ decode(rax) = Told(cause)
  /\ at = "launch" => decode(rax) = Told(cause)
  /\ at = "returned" => stop = Told(cause)

\* The four causes are GuestStops, and only an unexpected one loses bits.
LEMMA CauseTypes ==
  ASSUME NEW number \in Nat, NEW raw \in Nat, NEW rflags \in Nat
  PROVE  /\ Finished(number) \in GuestStop /\ Told(Finished(number)) = Finished(number)
         /\ Unexpected(number, raw) \in GuestStop
         /\ Told(Unexpected(number, raw)) = Unexpected(number % NUMBERS, raw)
         /\ LaunchFailed(rflags) \in GuestStop
         /\ Told(LaunchFailed(rflags)) = LaunchFailed(rflags)
         /\ ResumeFailed(rflags) \in GuestStop
         /\ Told(ResumeFailed(rflags)) = ResumeFailed(rflags)
<1>1. raw % BASICS \in Nat
  BY WidthsAssumption, ModRange
<1>2. \A clear \in {"LaunchReturned", "ResumeReturned"} :
        fall_through_failure(rflags, clear) \in Errors
  BY DEF fall_through_failure, check_rflags, Errors
<1>3. /\ Finished(number) \in GuestStop /\ Told(Finished(number)) = Finished(number)
  BY SMTT(30) DEF Finished, Stop, GuestStop, Told, Errors
<1>4. /\ Unexpected(number, raw) \in GuestStop
      /\ Told(Unexpected(number, raw)) = Unexpected(number % NUMBERS, raw)
  BY <1>1, SMTT(30) DEF Unexpected, Stop, GuestStop, Told, Errors
<1>5. /\ LaunchFailed(rflags) \in GuestStop
      /\ Told(LaunchFailed(rflags)) = LaunchFailed(rflags)
  BY <1>2, SMTT(30) DEF LaunchFailed, Stop, GuestStop, Told
<1>6. /\ ResumeFailed(rflags) \in GuestStop
      /\ Told(ResumeFailed(rflags)) = ResumeFailed(rflags)
  BY <1>2, SMTT(30) DEF ResumeFailed, Stop, GuestStop, Told
<1> QED
  BY <1>3, <1>4, <1>5, <1>6, SMTT(30)

\* The exit counter stays below the payload's 62 bits.
LEMMA ExitsFit == 0..MaxExits \subseteq 0 .. (PAYLOADS - 1)
BY WidthsAssumption, PayloadsPositive, SMT DEF PAYLOADS

\* The state before VMLAUNCH.
LEMMA StopInitInv == StopInit => StopInv
<1>1. NotStopped \in GuestStop
  BY SMTT(30) DEF NotStopped, Stop, GuestStop, Errors
<1>2. 0 \in 0 .. (4 * PAYLOADS - 1) /\ 0 \in 0..MaxExits
  BY PayloadsPositive, WidthsAssumption, SMT
<1> QED
  BY <1>1, <1>2 DEF StopInit, StopInv, StopTypeOK

\* VMLAUNCH, an exit, the stub's jump or VMRESUME, and launch's decode.
LEMMA StopStep == StopInv /\ [StopNext]_stopVars => StopInv'
<1> SUFFICES ASSUME StopInv, [StopNext]_stopVars PROVE StopInv'
  OBVIOUS
<1> USE DEF StopInv, StopTypeOK
<1>0. RESUME_GUEST = 0 /\ 0 \in 0 .. (4 * PAYLOADS - 1)
  BY PayloadsPositive, SMT, SMTT(30) DEF RESUME_GUEST
<1>1. CASE vmx_launch
  <2>1. CASE at' = "guest" /\ UNCHANGED <<rax, cause>>
    BY <1>1, <2>1, SMTT(30) DEF vmx_launch
  <2>2. ASSUME NEW rflags \in Rflags, at' = "launch", rax' = rflags,
               cause' = LaunchFailed(rflags)
        PROVE  StopInv'
    <3>1. rflags \in 1 .. (4 * PAYLOADS - 1) /\ decode(rflags) = LaunchFailed(rflags)
      BY FlagsDecode
    <3>2. rflags \in Nat /\ rflags \in 0 .. (4 * PAYLOADS - 1)
      BY <3>1, PayloadsPositive, SMT, SMTT(30)
    <3>3. cause' \in GuestStop /\ Told(cause') = cause'
      BY <2>2, <3>2, CauseTypes, SMTT(30)
    <3> QED
      BY <1>1, <2>2, <3>1, <3>2, <3>3, SMTT(30) DEF vmx_launch
  <2> QED
    BY <1>1, <2>1, <2>2, SMTT(30) DEF vmx_launch
<1>2. CASE vmexit_handler
  <2>1. EXIT_COUNT' \in 0..MaxExits /\ EXIT_COUNT' \in Nat
    BY <1>2, WidthsAssumption, SMTT(30) DEF vmexit_handler
  <2>2. CASE rax' = RESUME_GUEST /\ UNCHANGED cause
    BY <1>0, <1>2, <2>1, <2>2, SMTT(30) DEF vmexit_handler
  <2>3. CASE rax' = encode_finished(EXIT_COUNT') /\ cause' = Finished(EXIT_COUNT')
    <3>1. /\ decode(rax') = Finished(EXIT_COUNT')
          /\ rax' \in 1 .. (4 * PAYLOADS - 1)
      BY <2>1, <2>3, ExitsFit, FinishedDecodes, SMTT(30)
    <3>2. rax' \in 0 .. (4 * PAYLOADS - 1) /\ rax' # 0
      BY <3>1, PayloadsPositive, SMTT(30)
    <3>3. cause' \in GuestStop /\ Told(cause') = Finished(EXIT_COUNT')
      BY <2>1, <2>3, CauseTypes, SMTT(30)
    <3> QED
      BY <1>0, <1>2, <2>1, <3>1, <3>2, <3>3, SMTT(30) DEF vmexit_handler
  <2>4. ASSUME NEW raw \in 0 .. (RAWS - 1), rax' = encode_unexpected(EXIT_COUNT', raw),
               cause' = Unexpected(EXIT_COUNT', raw)
        PROVE  StopInv'
    <3>1. /\ decode(rax') = Unexpected(EXIT_COUNT' % NUMBERS, raw)
          /\ rax' \in 1 .. (4 * PAYLOADS - 1)
      BY <2>1, <2>4, UnexpectedDecodes, SMTT(30)
    <3>2. rax' \in 0 .. (4 * PAYLOADS - 1) /\ rax' # 0
      BY <3>1, PayloadsPositive, SMTT(30)
    <3>3. /\ cause' \in GuestStop
          /\ Told(cause') = Unexpected(EXIT_COUNT' % NUMBERS, raw)
      BY <2>1, <2>4, CauseTypes, SMTT(30)
    <3> QED
      BY <1>0, <1>2, <2>1, <3>1, <3>2, <3>3, SMTT(30) DEF vmexit_handler
  <2> QED
    BY <1>2, <2>2, <2>3, <2>4, SMTT(30) DEF vmexit_handler
<1>3. CASE vmexit_entry
  <2>1. CASE rax # RESUME_GUEST /\ at' = "launch" /\ UNCHANGED <<rax, cause>>
    BY <1>3, <2>1, SMTT(30) DEF vmexit_entry
  <2>2. CASE rax = RESUME_GUEST /\ at' = "guest" /\ UNCHANGED <<rax, cause>>
    BY <1>3, <2>2, SMTT(30) DEF vmexit_entry
  <2>3. ASSUME NEW rflags \in Rflags, at' = "launch",
               rax' = encode_resume_failed(rflags), cause' = ResumeFailed(rflags)
        PROVE  StopInv'
    <3>1. /\ decode(rax') = ResumeFailed(rflags)
          /\ rax' \in 1 .. (4 * PAYLOADS - 1) /\ rflags \in 1 .. (4 * PAYLOADS - 1)
      BY <2>3, FlagsDecode, SMTT(30)
    <3>2. rflags \in Nat /\ rax' \in 0 .. (4 * PAYLOADS - 1)
      BY <3>1, PayloadsPositive, SMTT(30)
    <3>3. cause' \in GuestStop /\ Told(cause') = ResumeFailed(rflags)
      BY <2>3, <3>2, CauseTypes, SMTT(30)
    <3> QED
      BY <1>3, <2>3, <3>1, <3>2, <3>3, SMTT(30) DEF vmexit_entry
  <2> QED
    BY <1>3, <2>1, <2>2, <2>3, Zenon DEF vmexit_entry
<1>4. CASE launch
  <2>1. Told(cause) \in GuestStop
    <3>1. cause.number % NUMBERS \in Nat
      BY WidthsAssumption, ModRange, SMTT(30) DEF GuestStop
    <3> QED
      BY <3>1, Zenon DEF Told, Stop, GuestStop
  <2> QED
    BY <1>4, <2>1, SMTT(30) DEF launch
<1>5. CASE UNCHANGED stopVars
  BY <1>5, SMTT(30) DEF stopVars
<1> QED
  BY <1>1, <1>2, <1>3, <1>4, <1>5, Zenon DEF StopNext

\* launch returns why the guest stopped, at any width of the fields and after
\* any number of exits below 2^62: of all that the stop value carries, only
\* an unexpected exit's number loses bits.
THEOREM StopTold == StopSpec => []StopTellsCause
<1>1. StopInv => StopTellsCause
  BY DEF StopInv, StopTellsCause
<1> QED
  BY <1>1, StopInitInv, StopStep, PTL DEF StopSpec
=============================================================================
