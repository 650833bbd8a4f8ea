---------------------------- MODULE GuestMappings ----------------------------
(***************************************************************************)
(* The guest's pages in the page tables it shares with the host            *)
(* (src/vmx/guest.rs): GuestMemory::check_mappings walks the tables for    *)
(* the code, stack, IDT and data page, in that order, and then checks that *)
(* each page is identity-mapped and that the ring-0 guest may use it.      *)
(***************************************************************************)
EXTENDS PageWalk, Sequences

CONSTANT Layouts   \* where allocate may have put the code, stack and IDT

VARIABLES pages,     \* the addresses of the four pages
          page,      \* position in GuestPages of the page being walked
          mappings,  \* of the pages walked so far
          cr4,       \* CR4.LA57, SMEP and SMAP
          checked    \* what check_mappings returned

gvars == <<walkVars, pages, page, mappings, cr4, checked>>

GuestPages == <<"code", "stack", "idt", "data">>
PageNames == {"code", "stack", "idt", "data"}

ASSUME LayoutsAssumption ==
  \A l \in Layouts : \A p \in {"code", "stack", "idt"} : l[p] \in Nat /\ l[p] % PAGE_SIZE = 0

MappingErrors ==
  {"CodeNotExecutable", "CodeBlockedBySmep", "StackNotWritable", "StackBlockedBySmap",
   "IdtBlockedBySmap", "DataNotWritable", "DataBlockedBySmap"}

\* The page right after the code page: they are one allocation.
data_page(layout) == layout.code + PAGE_SIZE

GInit ==
  /\ WalkInit
  /\ \E layout \in Layouts :
       /\ pages = [code |-> layout.code, stack |-> layout.stack, idt |-> layout.idt,
                   data |-> data_page(layout)]
       /\ virtual_address = layout.code
  /\ page = 1
  /\ mappings = <<>>
  /\ cr4 = IF mapping = FiveLevelPaging THEN {"LA57"} ELSE {}
  /\ checked = <<"none">>

-----------------------------------------------------------------------------
walk_current ==
  /\ checked = <<"none">> /\ page <= 4
  /\ walk
  /\ UNCHANGED <<pages, page, mappings, cr4, checked>>

(* A walk is over: its error is check_mappings's, or the next page follows. *)
page_walked ==
  LET here == GuestPages[page] IN
  /\ checked = <<"none">> /\ page <= 4 /\ level = 0
  /\ IF mapping.error = "ok"
     THEN /\ mappings' = Extended(mappings, here, mapping)
          /\ page' = page + 1
          /\ IF page < 4
             THEN /\ begin_walk(pages[GuestPages[page + 1]], "LA57" \in cr4)
                  /\ UNCHANGED mem
             ELSE UNCHANGED walkVars
          /\ UNCHANGED checked
     ELSE /\ checked' = <<"NotMapped", here>>
          /\ UNCHANGED <<walkVars, mappings, page>>
  /\ UNCHANGED <<pages, cr4>>

\* The first of the pages, in order, that is not mapped to itself.
check_identity(else) ==
  LET elsewhere == {i \in 1..4 : mappings[GuestPages[i]].physical # pages[GuestPages[i]]} IN
  IF elsewhere = {} THEN else
  ELSE <<"NotIdentityMapped", GuestPages[CHOOSE i \in elsewhere : \A j \in elsewhere : i <= j]>>

check_permissions(code, stack, bits, else) ==
  IF code.execute_disable THEN <<"CodeNotExecutable">>
  ELSE IF code.user /\ "SMEP" \in bits THEN <<"CodeBlockedBySmep">>
  ELSE IF ~stack.writable THEN <<"StackNotWritable">>
  ELSE IF stack.user /\ "SMAP" \in bits THEN <<"StackBlockedBySmap">>
  ELSE else

check_idt_permissions(idt, bits, else) ==
  IF idt.user /\ "SMAP" \in bits THEN <<"IdtBlockedBySmap">> ELSE else

\* Mutant: a user page is refused with SMAP off too.
check_data_permissions_mutant(data, bits) ==
  IF ~data.writable THEN <<"DataNotWritable">>
  ELSE IF data.user THEN <<"DataBlockedBySmap">>
  ELSE <<"ok">>

\* Mutant: a user page is refused only when SMEP is on as well.
check_data_permissions_smep(data, bits) ==
  IF ~data.writable THEN <<"DataNotWritable">>
  ELSE IF data.user /\ {"SMEP", "SMAP"} \subseteq bits THEN <<"DataBlockedBySmap">>
  ELSE <<"ok">>

check_data_permissions(data, bits) ==
  IF ~data.writable THEN <<"DataNotWritable">>
  ELSE IF data.user /\ "SMAP" \in bits THEN <<"DataBlockedBySmap">>
  ELSE <<"ok">>

(* The end of check_mappings, which now reads CR4 for the other two bits.  *)
check_mappings ==
  /\ checked = <<"none">> /\ page = 5
  /\ \E bits \in SUBSET {"SMEP", "SMAP"} :
       /\ cr4' = cr4 \cup bits
       /\ checked' = check_identity(
                      check_permissions(mappings["code"], mappings["stack"], bits,
                        check_idt_permissions(mappings["idt"], bits,
                          check_data_permissions(mappings["data"], bits))))
  /\ UNCHANGED <<walkVars, pages, page, mappings>>

GNext == walk_current \/ page_walked \/ check_mappings

GSpec == GInit /\ [][GNext]_gvars

-----------------------------------------------------------------------------
(* The CPU's rule for a ring-0 access with RFLAGS.AC = 0: "gate" is its    *)
(* own read of the IDT while it delivers an event.  With CR0.WP clear ring *)
(* 0 may write read-only pages too.                                        *)
CpuAllows(access, m, wp) ==
  CASE access = "fetch" -> ~m.execute_disable /\ ~(m.user /\ "SMEP" \in cr4)
    [] access = "write" -> (m.writable \/ ~wp) /\ ~(m.user /\ "SMAP" \in cr4)
    [] access = "gate" -> ~(m.user /\ "SMAP" \in cr4)

\* What the guest does with each of its pages.
GuestAccess == [code |-> "fetch", stack |-> "write", idt |-> "gate", data |-> "write"]

\* The guest can use this byte of a page, at the same physical address.
Usable(p, offset, wp) ==
  LET m == CpuTranslation(pages[p] + offset) IN
  /\ m.error = "ok"
  /\ m.physical = pages[p] + offset
  /\ CpuAllows(GuestAccess[p], m, wp)

(* Once check_mappings has accepted them, the guest can fetch every byte   *)
(* of its code page, push to its stack page, take an event through its IDT *)
(* page and write its data page, with no page fault and each at the        *)
(* physical address that EPT's identity map and the protected page assume: *)
(* one walk per page speaks for the whole page.                            *)
AcceptedPagesUsable ==
  checked = <<"ok">> =>
    \A p \in PageNames, offset \in 0..PAGE_SIZE-1, wp \in BOOLEAN : Usable(p, offset, wp)

\* The pages that come before each page in a series of checks.
Earlier == [code |-> {}, stack |-> {"code"}, idt |-> {"code", "stack"},
            data |-> {"code", "stack", "idt"}]

(* And it refuses nothing else: with CR0.WP set, the page it names really  *)
(* cannot be used that way, and what it checked before held in the tables: *)
(* the pages before one it calls not mapped are mapped; when it calls one  *)
(* not identity-mapped all four are mapped, and those before it to         *)
(* themselves; when it names a permission all four are mapped to           *)
(* themselves, and those before it can be used.  So the error is about the *)
(* first page of the first check that fails.                               *)
RefusedPageUnusable ==
  LET Page == [CodeNotExecutable |-> "code", CodeBlockedBySmep |-> "code",
               StackNotWritable |-> "stack", StackBlockedBySmap |-> "stack",
               IdtBlockedBySmap |-> "idt", DataNotWritable |-> "data",
               DataBlockedBySmap |-> "data"]
      named == IF checked[1] \in MappingErrors THEN Page[checked[1]] ELSE checked[2]
      IsMapped(q) == CpuTranslation(pages[q]).error = "ok"
      ToItself(q) == IsMapped(q) /\ CpuTranslation(pages[q]).physical = pages[q]
  IN  checked \notin {<<"none">>, <<"ok">>} /\ "LA57" \notin cr4 =>
        /\ ~Usable(named, 0, TRUE)
        /\ checked[1] = "NotMapped" => \A q \in Earlier[named] : IsMapped(q)
        /\ checked[1] = "NotIdentityMapped" =>
             (\A q \in PageNames : IsMapped(q)) /\ \A q \in Earlier[named] : ToItself(q)
        /\ checked[1] \in MappingErrors =>
             /\ \A q \in PageNames : ToItself(q)
             /\ \A q \in Earlier[named] : Usable(q, 0, TRUE)
=============================================================================
