--------------------------- MODULE MCGuestMappings ---------------------------
(***************************************************************************)
(* Two rows per table, two bytes per page: an entry of the four levels     *)
(* covers 2, 4, 8 and 16 bytes.  The code and data page share a page table *)
(* in one layout and are in different page directories in the other.  A    *)
(* level-1 row maps any of the pages used; large pages have a low address  *)
(* bit set, as a PAT bit would be; the PML4, at 24 with a flag in CR3, may *)
(* point at itself, so that one row is read at two levels.                 *)
(***************************************************************************)
EXTENDS GuestMappings

MCLayouts == {[code |-> 8, stack |-> 4, idt |-> 6], [code |-> 6, stack |-> 10, idt |-> 4]}

P == {"PRESENT"}
W == {"PRESENT", "WRITABLE"}
WU == {"PRESENT", "WRITABLE", "USER"}
WUX == {"PRESENT", "WRITABLE", "USER", "EXECUTE_DISABLE"}
Large == {"PRESENT", "WRITABLE", "USER", "PAGE_SIZE_BIT"}
Absent == {[flags |-> {}, address |-> 0]}

MCRows ==
  <<Absent \cup [flags : {P, W, WU}, address : {4, 6, 8, 10}],
    [flags : {WU, WUX}, address : {20}] \cup [flags : {Large, Large \ {"USER"}}, address : {6, 10}],
    [flags : {WU}, address : {16, 18}] \cup [flags : {Large}, address : {4}],
    Absent \cup [flags : {WU, WUX}, address : {12}] \cup [flags : {WU}, address : {24}]>>
=============================================================================
