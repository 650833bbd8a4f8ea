----------------------------- MODULE HostTables -----------------------------
(***************************************************************************)
(* The host's own GDT and TSS (src/vmx/host_tables.rs, the descriptor      *)
(* lookups of src/vmx/segment.rs, activate_host_tables in                  *)
(* src/bring_up/mod.rs) and the guest segments built from them             *)
(* (src/vmx/guest_state.rs).                                               *)
(*                                                                         *)
(* Offsets, limits and selectors are the real byte values; PAGE_SIZE is    *)
(* scaled down.  A GDT is a function from 8-byte slot numbers to           *)
(* descriptors.  A base address is a pair <<bits 31:0, bits 63:32>>: a TSS *)
(* descriptor keeps its halves in two slots.                               *)
(***************************************************************************)
EXTENDS Integers, FiniteSets

CONSTANTS PAGE_SIZE,
          TSS_BASE,    \* address of the TSS page
          Firmwares,   \* what the firmware left in the CPU
          MaxCalls     \* bound on calls of activate

SYSTEM_DESCRIPTOR_SIZE == 16

\* "partial": a descriptor cut off by the limit; "high": the upper half of a
\* TSS descriptor.
Kinds == {"null", "code64", "code32", "data", "partial", "tss_available", "tss_busy",
          "high"}
Descriptor == [kind : Kinds, base : Int, accessed : BOOLEAN]
Null == [kind |-> "null", base |-> 0, accessed |-> FALSE]

Slots == 0 .. ((PAGE_SIZE \div 8) - 1)

ASSUME FirmwareAssumption ==
  /\ PAGE_SIZE \in Nat /\ PAGE_SIZE % 8 = 0
  /\ MaxCalls \in Nat
  /\ \A f \in Firmwares :
       /\ f.gdt \in [Slots -> Descriptor]
       /\ f.base \in {"null", "firmware"} /\ f.limit \in Nat
       /\ f.cs \in Nat /\ f.ss \in Nat /\ f.ds \in Nat
       /\ f.idt_base \in BOOLEAN /\ f.idt_length \in Nat
       /\ f.gates \in SUBSET (Nat \X {"present", "absent"} \X (0..7))

ASSUME TssAssumption == TSS_BASE \in Int \X Int

\* What the CPU has loaded: SS from a data descriptor, DS from a code or data
\* descriptor.  A selector past the limit was loaded from another GDT.
ASSUME LoadedAssumption ==
  \A f \in Firmwares : \A s \in Slots \ {0} : 8 * (s + 1) <= f.limit + 1 =>
    /\ s = f.ss \div 8 => f.gdt[s].kind = "data"
    /\ s = f.ds \div 8 => f.gdt[s].kind \in {"code64", "code32", "data"}

VARIABLES cpu,      \* GDTR, TR, CS, SS, DS, IDTR
          gdt,      \* the GDT page Aleph0 owns, by slot
          region,   \* GdtRegion: original_length and tss_selector (0: none)
          firmware, \* the firmware's tables
          pages,    \* pages allocated and not freed
          fault,    \* the CPU raised a fault
          calls,    \* calls of activate so far
          guest,    \* the guest segments built from the tables
          result

tablesVars == <<cpu, gdt, region, firmware, pages, fault, calls, guest, result>>

GdtErrors == {"AllocationFailed", "TooLarge", "InvalidSource", "TssVerificationFailed",
  "GdtrPreparationFailed", "InvalidIdt", "IdtRequiresIst", "ActivationVerificationFailed"}
NoRegion == [original_length |-> 0, tss_selector |-> 0]
NoGuest == [r \in {} |-> Null]

TablesInit ==
  /\ firmware \in Firmwares
  /\ cpu = [gdtr |-> <<firmware.base, firmware.limit>>, tr |-> 0]
  /\ gdt = [s \in Slots |-> Null]
  /\ region = NoRegion
  /\ pages = {}
  /\ fault = FALSE
  /\ calls = 0
  /\ guest = NoGuest
  /\ result = "start"

-----------------------------------------------------------------------------
(* Building the copy.                                                      *)

round_up_8(n) == ((n + 7) \div 8) * 8

allocate_tss ==
  /\ result = "start"
  /\ \/ result' = "tss" /\ pages' = pages \cup {"tss"}
     \/ result' = "AllocationFailed" /\ UNCHANGED pages
  /\ UNCHANGED <<cpu, gdt, region, firmware, fault, calls, guest>>

fits_page(length) == round_up_8(length) + SYSTEM_DESCRIPTOR_SIZE <= PAGE_SIZE

\* copy_nonoverlapping of length bytes over a zeroed page.
copied(length) == [s \in Slots |->
  IF 8 * (s + 1) <= length THEN firmware.gdt[s]
  ELSE IF 8 * s < length THEN [firmware.gdt[s] EXCEPT !.kind = "partial"]
  ELSE Null]

copy_active ==
  LET length == cpu.gdtr[2] + 1 IN
  /\ result = "tss"
  /\ \/ /\ result' = "AllocationFailed"
        /\ UNCHANGED <<gdt, region, pages>>
     \/ /\ ~fits_page(length)
        /\ result' = "TooLarge"
        /\ UNCHANGED <<gdt, region, pages>>     \* allocated and freed again
     \/ /\ fits_page(length)
        /\ cpu.gdtr[1] = "null"
        /\ result' = "InvalidSource"
        /\ UNCHANGED <<gdt, region, pages>>
     \/ /\ fits_page(length)
        /\ cpu.gdtr[1] # "null"
        /\ gdt' = copied(length)
        /\ region' = [original_length |-> length, tss_selector |-> 0]
        /\ pages' = pages \cup {"gdt"}
        /\ result' = "copied"
  /\ UNCHANGED <<cpu, firmware, fault, calls, guest>>

\* tss_descriptor, in two slots, low half first.  copy_active made sure that
\* it fits, and only the one caller appends.
append_tss_descriptor ==
  LET offset == round_up_8(region.original_length)
      slot == offset \div 8
  IN /\ result = "copied"
     /\ gdt' = [gdt EXCEPT
          ![slot] = [kind |-> "tss_available", base |-> TSS_BASE[1], accessed |-> FALSE],
          ![slot + 1] = [kind |-> "high", base |-> TSS_BASE[2], accessed |-> FALSE]]
     /\ region' = [region EXCEPT !.tss_selector = offset]
     /\ result' = "appended"
     /\ UNCHANGED <<cpu, firmware, pages, fault, calls, guest>>

-----------------------------------------------------------------------------
(* Lookups.  A table is its slots and its limit.                           *)

TI(selector) == (selector \div 4) % 2 = 1
is_null(selector) == selector \div 4 = 0

\* descriptor_offset: the selector names size bytes of the table.
in_table(limit, selector, size) ==
  LET offset == (selector \div 8) * 8 IN
  /\ ~TI(selector)
  /\ offset # 0
  /\ offset + size <= limit + 1

system_descriptor_base(slot) == <<gdt[slot].base, gdt[slot + 1].base>>

segment_base_from_gdt(limit, selector) ==
  IF in_table(limit, selector, 16) THEN system_descriptor_base(selector \div 8) ELSE <<0, 0>>

verify_tss_descriptor ==
  LET slot == region.tss_selector \div 8 IN
  /\ region.tss_selector # 0
  /\ region.tss_selector + SYSTEM_DESCRIPTOR_SIZE <= PAGE_SIZE
  /\ gdt[slot].kind = "tss_available"
  /\ system_descriptor_base(slot) = TSS_BASE

prepared_gdtr == <<"gdt", region.tss_selector + SYSTEM_DESCRIPTOR_SIZE - 1>>

-----------------------------------------------------------------------------
(* activate.                                                               *)

\* Mutant: the selectors may name the appended descriptor.
selectors_copied_mutant ==
  LET limit == prepared_gdtr[2] IN
  /\ in_table(limit, firmware.cs, 8)
  /\ is_null(firmware.ss) \/ in_table(limit, firmware.ss, 8)

\* CS and SS name descriptors of the copied part; SS may be null.
selectors_copied ==
  LET limit == region.original_length - 1 IN
  /\ in_table(limit, firmware.cs, 8)
  /\ is_null(firmware.ss) \/ in_table(limit, firmware.ss, 8)

\* The gates of the IDT: those of the firmware within its limit.
requires_ist == \E g \in firmware.gates :
  g[1] < firmware.idt_length \div 16 /\ g[2] = "present" /\ g[3] # 0

\* The first check that fails before anything is loaded.
refusal ==
  IF ~verify_tss_descriptor THEN "TssVerificationFailed"
  ELSE IF ~selectors_copied THEN "GdtrPreparationFailed"
  ELSE IF ~firmware.idt_base \/ firmware.idt_length % SYSTEM_DESCRIPTOR_SIZE # 0
       THEN "InvalidIdt"
  ELSE IF requires_ist THEN "IdtRequiresIst"
  ELSE "none"

\* LGDT, then LTR, which faults unless the selector names an available TSS
\* within the limit, and marks it busy.
load ==
  LET slot == region.tss_selector \div 8
      legal == /\ in_table(prepared_gdtr[2], region.tss_selector, 16)
               /\ gdt[slot].kind = "tss_available"
  IN /\ cpu' = [gdtr |-> prepared_gdtr, tr |-> region.tss_selector]
     /\ gdt' = [gdt EXCEPT ![slot].kind = "tss_busy"]
     /\ fault' = (fault \/ ~legal)

\* Mutant: the tables are loaded before the IDT is looked at.
activate_mutant ==
  /\ result \in {"appended", "active"}
  /\ calls < MaxCalls
  /\ calls' = calls + 1
  /\ IF refusal \in {"TssVerificationFailed", "GdtrPreparationFailed"}
     THEN result' = refusal /\ UNCHANGED <<cpu, gdt, fault>>
     ELSE load /\ result' = IF refusal = "none" THEN "active" ELSE refusal
  /\ UNCHANGED <<region, firmware, pages, guest>>

activate ==
  /\ result \in {"appended", "active"}
  /\ calls < MaxCalls
  /\ calls' = calls + 1
  /\ IF refusal # "none" THEN result' = refusal /\ UNCHANGED <<cpu, gdt, fault>>
     ELSE /\ load
          /\ \/ /\ segment_base_from_gdt(cpu'.gdtr[2], cpu'.tr) = TSS_BASE
                /\ result' = "active"
             \/ result' = "ActivationVerificationFailed"  \* GDTR or TR reads back otherwise
  /\ UNCHANGED <<region, firmware, pages, guest>>

-----------------------------------------------------------------------------
(* GuestState::from_current: the guest's segments, taken from the tables.  *)

\* Mutant: the accessed bit is taken as it is.
from_descriptor_mutant(d) == d

\* VM entry requires the accessed bit in every usable code or data segment.
from_descriptor(d) == IF d.kind \in {"code64", "code32", "data"}
                      THEN [d EXCEPT !.accessed = TRUE] ELSE d

Selectors == [cs |-> firmware.cs, ss |-> firmware.ss, ds |-> firmware.ds, tr |-> cpu.tr]

segment_from_gdt(selector) ==
  IF is_null(selector) THEN Null ELSE from_descriptor(gdt[selector \div 8])

check_segments(cs, tr) ==
  IF cs.kind # "code64" THEN "CsNot64Bit"
  ELSE IF tr.kind # "tss_busy" THEN "TrNotBusyTss"
  ELSE "collected"

from_current ==
  /\ result = "active"
  /\ IF \E r \in DOMAIN Selectors :
          ~is_null(Selectors[r]) /\ ~in_table(cpu.gdtr[2], Selectors[r], 8)
     THEN result' = "BadSelector" /\ UNCHANGED guest
     ELSE /\ guest' = [r \in DOMAIN Selectors |-> segment_from_gdt(Selectors[r])]
          /\ result' = check_segments(guest'.cs, guest'.tr)
  /\ UNCHANGED <<cpu, gdt, region, firmware, pages, fault, calls>>

TablesNext == allocate_tss \/ copy_active \/ append_tss_descriptor \/ activate \/ from_current

TablesSpec == TablesInit /\ [][TablesNext]_tablesVars

-----------------------------------------------------------------------------
(* Properties.                                                             *)

\* The CPU's own lookup of a selector: the last byte is within the limit.
CpuFinds(selector, size) ==
  ~TI(selector) /\ (selector \div 8) * 8 + size - 1 <= cpu.gdtr[2]

\* LTR is never given a busy TSS or one past the limit, which would raise #GP
\* ("LTR marks the TSS descriptor busy, so the pre-load verifier will reject a
\* second call").  And once activate returns Ok, interrupts and VM exits can run on the tables:
\* the loaded GDT lies in its page; CS, and SS if not null, still find the
\* firmware's own descriptors; TR names the busy TSS at its full base; and no
\* present gate switches to one of the empty IST stacks.
ActiveTablesServe ==
  /\ ~fault
  /\ result \in {"active", "collected"} =>
      /\ cpu.gdtr[1] = "gdt" /\ cpu.gdtr[2] < PAGE_SIZE
      /\ pages = {"tss", "gdt"}
      /\ \A sel \in {firmware.cs, firmware.ss} : is_null(sel) \/
           (CpuFinds(sel, 8) /\ gdt[sel \div 8] = firmware.gdt[sel \div 8])
      /\ CpuFinds(cpu.tr, 16)
      /\ gdt[cpu.tr \div 8].kind = "tss_busy"
      /\ <<gdt[cpu.tr \div 8].base, gdt[(cpu.tr \div 8) + 1].base>> = TSS_BASE
      /\ \A g \in firmware.gates :
           g[2] = "present" /\ (g[1] + 1) * 16 <= firmware.idt_length => g[3] = 0

\* "every other GdtError is returned before the CPU's tables are touched":
\* report_error prints "GDTR/TR unchanged" for all of them but
\* ActivationVerificationFailed.
RefusalTouchesNothing ==
  [][result' \in GdtErrors \ {"ActivationVerificationFailed"} => UNCHANGED <<cpu, gdt>>]_tablesVars

\* The selector names a whole descriptor of the firmware's own GDT.
Own(selector) == 8 * ((selector \div 8) + 1) <= firmware.limit + 1

\* Segments that from_current accepts pass VM entry's checks on them.  TR is
\* the busy TSS, CS 64-bit code and SS data or null.  CS, SS and DS are the
\* firmware's descriptors, through the copy, the appended TSS and LTR, with
\* the accessed bit set where the firmware's lacks it.  DS only if it names a
\* descriptor of the firmware's GDT: activate checks CS and SS but not DS
\* and ES, and a stale one past the firmware's limit may name the appended
\* TSS, which load_gdtr's contract forbids and VM entry refuses.
GuestSegmentsEnterable ==
  result = "collected" =>
    /\ guest.tr.kind = "tss_busy"
    /\ guest.cs.kind = "code64"
    /\ guest.ss.kind \in {"null", "data"}
    /\ Own(firmware.ds) => guest.ds.kind \in {"null", "code64", "code32", "data"}
    /\ \A r \in {"cs", "ss", "ds"} :
         \/ is_null(Selectors[r])
         \/ r = "ds" /\ ~Own(firmware.ds)
         \/ guest[r] = [firmware.gdt[Selectors[r] \div 8] EXCEPT !.accessed = TRUE]
=============================================================================
