---------------------------- MODULE MCHostTables ----------------------------
(***************************************************************************)
(* Firmwares for HostTables: GDTs of every length around the slot and page *)
(* boundaries, selectors that are null, in the LDT, inside, cut off by the *)
(* limit or past it, and IDTs with a gate inside or past their limit.      *)
(***************************************************************************)
EXTENDS HostTables

D(kind, accessed) == [kind |-> kind, base |-> 0, accessed |-> accessed]

\* Slot 0 is null; code at 8, data at 16, 32-bit code at 24, then data.
Gdt(accessed) == [s \in Slots |->
  IF s = 0 THEN D("null", FALSE)
  ELSE IF s = 1 THEN D("code64", accessed)
  ELSE IF s = 3 THEN D("code32", accessed)
  ELSE D("data", accessed)]

F(base, limit, cs, ss, ds, accessed, idt, length, gates) ==
  [base |-> base, limit |-> limit, gdt |-> Gdt(accessed), cs |-> cs, ss |-> ss, ds |-> ds,
   idt_base |-> idt, idt_length |-> length, gates |-> gates]

Good == F("firmware", 31, 8, 16, 16, TRUE, TRUE, 32, {})

MCFirmwares ==
  \* the GDT's length and the selectors
  UNION {{F("firmware", limit, cs, ss, ds, accessed, TRUE, 32, {}) :
            cs \in {0, 8, 12, 16, 24, 27, 32, 48}, ss \in {0, 3, 16, 20, 32, 40},
            ds \in {0, 16, 24, 32, 56}, accessed \in BOOLEAN} :
         limit \in {7, 14, 15, 22, 23, 24, 30, 31, 38, 39, 46, 47, 48, 62, 63}} \cup
  \* the IDT
  {[Good EXCEPT !.idt_base = base, !.idt_length = length, !.gates = {<<v, p, ist>>}] :
     base \in BOOLEAN, length \in {16, 24, 32, 33, 48}, v \in 0..2,
     p \in {"present", "absent"}, ist \in {0, 1}} \cup
  {[Good EXCEPT !.base = "null"]}

MCTssBase == <<5, 7>>
=============================================================================
