------------------------------ MODULE PageWalk -------------------------------
(***************************************************************************)
(* The walk of the page tables the CPU uses (src/vmx/paging.rs): one       *)
(* iteration of its loop per step, from the PML4 down.                     *)
(*                                                                         *)
(* A table is a page of ENTRIES rows; a row is <<table address, index>>.   *)
(* The tables are the firmware's: mem holds the rows read so far, and a    *)
(* row not read before holds any entry of Rows for its level.  The         *)
(* constants scale the code's 512 rows and 4096 bytes down.                *)
(***************************************************************************)
EXTENDS Integers

CONSTANTS ENTRIES,     \* rows per table
          PAGE_SIZE,   \* bytes per page
          CR3,         \* the register, with its flags below PAGE_SIZE
          Rows,        \* for each level, the entries a row may hold
          Addresses    \* virtual addresses to translate

\* The bytes one entry of each level covers.
Size == <<PAGE_SIZE, ENTRIES * PAGE_SIZE, ENTRIES * ENTRIES * PAGE_SIZE,
          ENTRIES * ENTRIES * ENTRIES * PAGE_SIZE>>

Flags == {"PRESENT", "WRITABLE", "USER", "PAGE_SIZE_BIT", "EXECUTE_DISABLE"}
Entry == [flags : SUBSET Flags, address : Nat]

ASSUME PagingAssumption ==
  /\ ENTRIES \in Nat \ {0} /\ PAGE_SIZE \in Nat \ {0} /\ CR3 \in Nat
  /\ Rows \in [1..4 -> SUBSET Entry]
  /\ Addresses \subseteq Nat

VARIABLES mem,              \* the rows read so far
          virtual_address,  \* of this walk
          level,            \* of the row to read next; 0 once the walk is over
          table,            \* the table that row is in
          writable, user, execute_disable,
          mapping           \* what the walk returned

walkVars == <<mem, virtual_address, level, table, writable, user, execute_disable, mapping>>

NoMapping == [error |-> "none", level |-> 0]
FiveLevelPaging == [error |-> "FiveLevelPaging", level |-> 0]
NotPresent(l) == [error |-> "NotPresent", level |-> l]
Mapped(physical, l, w, u, xd) ==
  [error |-> "ok", level |-> l, physical |-> physical, writable |-> w,
   user |-> u, execute_disable |-> xd]

-----------------------------------------------------------------------------
\* The table or page address in a register or entry, less its low bits.
aligned(address, size) == address - (address % size)

index(address, l) == (address \div Size[l]) % ENTRIES

\* The entry is a page, not a pointer to the next table.
maps_page(entry, l) ==
  l = 1 \/ (l \in {2, 3} /\ "PAGE_SIZE_BIT" \in entry.flags)

\* The frame without its low bits, among them a large page's PAT bit.
physical(entry, l) == aligned(entry.address, Size[l]) + (virtual_address % Size[l])

(* A walk begins, unless CR4.LA57 is set (walk_current).                   *)
begin_walk(address, la57) ==
  /\ virtual_address' = address
  /\ table' = aligned(CR3, PAGE_SIZE)
  /\ writable' = TRUE /\ user' = TRUE /\ execute_disable' = FALSE
  /\ IF la57 THEN level' = 0 /\ mapping' = FiveLevelPaging
             ELSE level' = 4 /\ mapping' = NoMapping

\* The function f with one more value, or another value, at x.
Extended(f, x, v) == [y \in DOMAIN f \cup {x} |-> IF y = x THEN v ELSE f[y]]

\* What the row holds: the same every time it is read.
read_entry(row) == IF row \in DOMAIN mem THEN {mem[row]} ELSE Rows[level]

\* Mutant: the permissions are those of the last level.
permissions_mutant(entry) ==
  /\ writable' = ("WRITABLE" \in entry.flags)
  /\ user' = ("USER" \in entry.flags)
  /\ execute_disable' = ("EXECUTE_DISABLE" \in entry.flags)

permissions(entry) ==
  /\ writable' = (writable /\ "WRITABLE" \in entry.flags)
  /\ user' = (user /\ "USER" \in entry.flags)
  /\ execute_disable' = (execute_disable \/ "EXECUTE_DISABLE" \in entry.flags)

(* One iteration of walk.                                                  *)
walk ==
  LET row == <<table, index(virtual_address, level)>> IN
  /\ level > 0
  /\ \E entry \in read_entry(row) :
       /\ mem' = Extended(mem, row, entry)
       /\ IF "PRESENT" \notin entry.flags
          THEN /\ level' = 0 /\ mapping' = NotPresent(level)
               /\ UNCHANGED <<table, writable, user, execute_disable>>
          ELSE /\ permissions(entry)
               /\ IF maps_page(entry, level)
                  THEN /\ level' = 0
                       /\ mapping' = Mapped(physical(entry, level), level, writable',
                                            user', execute_disable')
                       /\ UNCHANGED table
                  ELSE /\ level' = level - 1
                       /\ table' = aligned(entry.address, PAGE_SIZE)
                       /\ UNCHANGED mapping
  /\ UNCHANGED virtual_address

WalkInit ==
  /\ mem = <<>>
  /\ virtual_address \in Addresses
  /\ table = aligned(CR3, PAGE_SIZE)
  /\ writable = TRUE /\ user = TRUE /\ execute_disable = FALSE
  /\ \/ level = 4 /\ mapping = NoMapping
     \/ level = 0 /\ mapping = FiveLevelPaging

WalkSpec == WalkInit /\ [][walk]_walkVars

-----------------------------------------------------------------------------
(* What the CPU does with the same rows: the entries it meets for an       *)
(* address, from the PML4's down, and the level of the one that ends its   *)
(* walk.                                                                   *)
CpuEntries(address) ==
  LET e(t, l) == mem[<<aligned(t, PAGE_SIZE), index(address, l)>>]
      e4 == e(CR3, 4)
      e3 == e(e4.address, 3)
      e2 == e(e3.address, 2)
      e1 == e(e2.address, 1)
      stops(x) == "PRESENT" \notin x.flags
      large(x) == stops(x) \/ "PAGE_SIZE_BIT" \in x.flags
  IN  IF stops(e4) THEN <<4, {e4}, e4>>
      ELSE IF large(e3) THEN <<3, {e4, e3}, e3>>
      ELSE IF large(e2) THEN <<2, {e4, e3, e2}, e2>>
      ELSE <<1, {e4, e3, e2, e1}, e1>>

CpuTranslation(address) ==
  LET path == CpuEntries(address)
      size == Size[path[1]]
      every(flag) == \A e \in path[2] : flag \in e.flags
  IN  IF ~every("PRESENT") THEN NotPresent(path[1])
      ELSE Mapped((path[3].address \div size) * size + (address % size), path[1],
                  every("WRITABLE"), every("USER"),
                  \E e \in path[2] : "EXECUTE_DISABLE" \in e.flags)

(* The loop returns what the CPU itself would find: the same missing       *)
(* level, or the same physical address, page size and permissions, which   *)
(* the loop collects one level at a time, and the CPU applies as the       *)
(* AND (R/W, U/S) and the OR (XD) of every entry on the path.              *)
WalkMatchesCpu ==
  mapping.error \in {"ok", "NotPresent"} => mapping = CpuTranslation(virtual_address)

=============================================================================
