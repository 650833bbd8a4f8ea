------------------------------- MODULE EptMap --------------------------------
(***************************************************************************)
(* The extended page tables (src/vmx/ept.rs): the support check, the       *)
(* identity map built from the firmware's memory map with one read-only    *)
(* page, the page published for the exit handler, and the write grant with *)
(* its INVEPT.                                                             *)
(*                                                                         *)
(* Tables are pages of ENTRIES entries in mem, at the address the firmware *)
(* allocated; a pointer to an entry is a pair <<table address, index>>.    *)
(* The constants scale the code's 512 entries, 4096 bytes and 2^64 down;   *)
(* nothing else depends on their values.                                   *)
(***************************************************************************)
EXTENDS Integers, FiniteSets, FiniteSetsExt

CONSTANTS ENTRIES,        \* entries per table
          PAGE_SIZE,      \* bytes per page
          U64,            \* number of 64-bit addresses
          MemoryMaps,     \* memory maps the firmware may return
          Pages,          \* addresses build may be asked to protect
          MaxBuilds,      \* bound on calls of build
          MaxCached       \* bound on cached translations

SIZE_2M == ENTRIES * PAGE_SIZE
SIZE_1G == ENTRIES * SIZE_2M
MAX_IDENTITY_MAP == ENTRIES * SIZE_1G

ASSUME SizesAssumption ==
  /\ ENTRIES \in Nat \ {0, 1} /\ PAGE_SIZE \in Nat \ {0}
  /\ U64 \in Nat /\ U64 > MAX_IDENTITY_MAP
ASSUME InputsAssumption ==
  /\ MemoryMaps \subseteq SUBSET ((0..U64-1) \X (0..U64-1))
  /\ Pages \subseteq 0..U64-1
  /\ MaxBuilds \in Nat /\ MaxCached \in Nat

VARIABLES mem,        \* every table, by address
          invept,     \* what check_support returned: an INVEPT type or an error
          map,        \* the memory map of the successful build (history)
          ept,        \* what build returned: EPTP and end of the map
          published,  \* the PROTECTED_* statics
          cache,      \* translations the CPU has cached
          result,     \* of the last call
          builds      \* calls of build so far

vars == <<mem, invept, map, ept, published, cache, result, builds>>

EPT_RWX == {"R", "W", "X"}
InveptTypes == {"SingleContext", "AllContext"}
Capabilities == {"EPT", "WALK_LENGTH_4", "WRITE_BACK", "2M_PAGES", "INVEPT",
                 "INVEPT_SINGLE_CONTEXT", "INVEPT_ALL_CONTEXT"}
NoEpt == [eptp |-> -1, end |-> 0]
NoPage == [gpa |-> 0, entry |-> <<-1, 0>>, eptp |-> -1, invept |-> "none"]

\* A grant has changed the entry, whether or not its INVEPT worked.
granted == result \in {"granted", "VmFail"}

Init ==
  /\ mem = <<>>
  /\ invept = "unchecked"
  /\ map = {}
  /\ ept = NoEpt
  /\ published = NoPage
  /\ cache = {}
  /\ result = "none"
  /\ builds = 0

-----------------------------------------------------------------------------
(* The support check: the first capability that is missing decides.        *)
Required == <<"EPT", "WALK_LENGTH_4", "WRITE_BACK", "2M_PAGES", "INVEPT">>
Unsupported == <<"EptUnsupported", "PageWalkLength4Unsupported", "WriteBackUnsupported",
                 "LargePagesUnsupported", "InveptUnsupported">>

support(caps) ==
  LET missing == {i \in DOMAIN Required : Required[i] \notin caps} IN
  IF missing # {} THEN Unsupported[Min(missing)]
  ELSE IF "INVEPT_SINGLE_CONTEXT" \in caps THEN "SingleContext"
  ELSE IF "INVEPT_ALL_CONTEXT" \in caps THEN "AllContext"
  ELSE "InveptUnsupported"

check_support ==
  /\ invept = "unchecked"
  /\ \E caps \in SUBSET Capabilities : invept' = support(caps)
  /\ UNCHANGED <<mem, map, ept, published, cache, result, builds>>

-----------------------------------------------------------------------------
(* The end of the identity map, or the error.  Every step that could pass  *)
(* 2^64 is checked: the size and end of each region, and the rounding.     *)
\* Mutant: the arithmetic wraps.
RegionEnd_mutant(region) == (region[1] + region[2] * PAGE_SIZE) % U64

RegionEnd(region) == region[1] + region[2] * PAGE_SIZE

highest(regions) == Max({RegionEnd(r) : r \in regions} \cup {0})

round_up(address) == ((address + SIZE_1G - 1) \div SIZE_1G) * SIZE_1G

identity_map_end(regions) ==
  LET top == highest(regions)
      error == IF \E r \in regions : RegionEnd(r) >= U64 THEN "RangeTooLarge"
               ELSE IF top = 0 THEN "EmptyMemoryMap"
               ELSE IF top + SIZE_1G - 1 >= U64 \/ round_up(top) > MAX_IDENTITY_MAP
                    THEN "RangeTooLarge"
               ELSE "ok"
  IN  [error |-> error, end |-> IF error = "ok" THEN round_up(top) ELSE 0]

-----------------------------------------------------------------------------
(* Entries, and the index of an address in the table whose entries each    *)
(* cover size bytes.                                                       *)
index(size, address) == (address \div size) % ENTRIES

EMPTY == [kind |-> "empty", address |-> 0, access |-> {}]
table(address) == [kind |-> "table", address |-> address, access |-> EPT_RWX]
page(address, access) == [kind |-> "page", address |-> address, access |-> access]
with_access(entry, access) ==
  [kind |-> entry.kind, address |-> entry.address, access |-> access]

\* Mutant: the number of the entry in its own PD only.
split_entry_mutant(protected_page) == index(SIZE_2M, protected_page)

\* The number, across all PDs, of the entry that covers the page.
split_entry(protected_page) ==
  index(SIZE_1G, protected_page) * ENTRIES + index(SIZE_2M, protected_page)

(* The four kinds of tables of an identity map of gibs GiB, filled in: the *)
(* PML4, the PDPT, the PDs back to back from pds, and the PT.  A PD entry  *)
(* of kind "page" is a large page.                                         *)
fill_identity_map(pml4, pdpt, pds, pt, gibs, protected_page) ==
  LET region == (protected_page \div SIZE_2M) * SIZE_2M
      pd(g) == [i \in 0..ENTRIES-1 |->
                  IF g * ENTRIES + i = split_entry(protected_page)
                  THEN table(pt) ELSE page((g * ENTRIES + i) * SIZE_2M, EPT_RWX)]
  IN  [t \in {pml4, pdpt, pt} \cup {pds + g * PAGE_SIZE : g \in 0..gibs-1} |->
         CASE t = pml4 -> [i \in 0..ENTRIES-1 |-> IF i = 0 THEN table(pdpt) ELSE EMPTY]
           [] t = pdpt -> [i \in 0..ENTRIES-1 |->
                             IF i < gibs THEN table(pds + i * PAGE_SIZE) ELSE EMPTY]
           [] t = pt -> [i \in 0..ENTRIES-1 |->
                           page(region + i * PAGE_SIZE,
                                IF i = index(PAGE_SIZE, protected_page)
                                THEN {"R"} ELSE EPT_RWX)]
           [] OTHER -> pd((t - pds) \div PAGE_SIZE)]

\* Memory with freshly written tables.
with_tables(tables) ==
  [t \in (DOMAIN tables) \cup (DOMAIN mem) |->
     IF t \in DOMAIN tables THEN tables[t] ELSE mem[t]]

(* The tables of a build: four allocations, one after another.             *)
NextFree == Max((DOMAIN mem) \cup {0}) + PAGE_SIZE

\* The pointer to the protected page's entry.
published_entry(pt, protected_page) == <<pt, index(PAGE_SIZE, protected_page)>>

\* Mutant: a second publication replaces the first.
already_published_mutant == FALSE

already_published == published.invept # "none"

BuildFails(error) ==
  /\ result' = error
  /\ UNCHANGED <<mem, map, ept, published>>

(* build, after the checks: the tables are allocated and filled, and then  *)
(* published, unless an earlier build has published its page already.      *)
build_tables(regions, end, protected_page) ==
  LET gibs == end \div SIZE_1G
      pml4 == NextFree
      pdpt == pml4 + PAGE_SIZE
      pds == pdpt + PAGE_SIZE
      pt == pds + gibs * PAGE_SIZE
  IN  /\ mem' = with_tables(fill_identity_map(pml4, pdpt, pds, pt, gibs, protected_page))
      /\ IF already_published
         THEN result' = "AlreadyBuilt" /\ UNCHANGED <<map, ept, published>>
         ELSE /\ result' = "built"
              /\ map' = regions
              /\ ept' = [eptp |-> pml4, end |-> end]
              /\ published' = [gpa |-> protected_page, eptp |-> pml4, invept |-> invept,
                               entry |-> published_entry(pt, protected_page)]

(* Ept::build.  Bring-up calls it before the guest first runs.             *)
build(regions, protected_page) ==
  LET e == identity_map_end(regions) IN
  /\ invept \in InveptTypes /\ builds < MaxBuilds
  /\ cache = {} /\ ~granted
  /\ builds' = builds + 1
  /\ \/ BuildFails("MemoryMapUnavailable")
     \/ e.error # "ok" /\ BuildFails(e.error)
     \/ /\ e.error = "ok"
        /\ IF protected_page >= e.end \/ protected_page % PAGE_SIZE # 0
           THEN BuildFails("ProtectedPageOutsideMap")
           ELSE BuildFails("AllocationFailed") \/ build_tables(regions, e.end, protected_page)
  /\ UNCHANGED <<invept, cache>>

-----------------------------------------------------------------------------
(* The CPU: a 4-level walk, and the translations it keeps.                 *)
none == [hpa |-> -1, access |-> {}]

translate(eptp, gpa) ==
  LET pml4e == mem[eptp][index(MAX_IDENTITY_MAP, gpa)]
      pdpte == mem[pml4e.address][index(SIZE_1G, gpa)]
      pde == mem[pdpte.address][index(SIZE_2M, gpa)]
      pte == mem[pde.address][index(PAGE_SIZE, gpa)]
      upper == pml4e.access \cap pdpte.access \cap pde.access
  IN  IF pml4e.access = {} \/ pdpte.access = {} \/ pde.access = {} THEN none
      ELSE IF pde.kind = "page"
           THEN [hpa |-> pde.address + (gpa % SIZE_2M), access |-> upper]
      ELSE IF pte.access = {} THEN none
      ELSE [hpa |-> pte.address + (gpa % PAGE_SIZE), access |-> upper \cap pte.access]

\* The guest runs until a grant fails, which stops it.
guest_access ==
  /\ ept # NoEpt /\ result # "VmFail"
  /\ \E gpa \in {g \in 0..ept.end-1 : g % PAGE_SIZE = 0} :
       LET t == translate(ept.eptp, gpa) IN
       /\ t # none
       /\ cache' = cache \cup {[eptp |-> ept.eptp, gpa |-> gpa, hpa |-> t.hpa,
                                access |-> t.access]}
  /\ Cardinality(cache') <= MaxCached
  /\ UNCHANGED <<mem, invept, map, ept, published, result, builds>>

-----------------------------------------------------------------------------
\* Mutant: the other contexts' translations are dropped.
invalidated_mutant(kind, eptp) ==
  IF kind = "AllContext" THEN {} ELSE {c \in cache : c.eptp = eptp}

\* What INVEPT leaves in the cache.
invalidated(kind, eptp) ==
  IF kind = "AllContext" THEN {} ELSE {c \in cache : c.eptp # eptp}

(* grant_write on the published page: the entry changes first, and stays   *)
(* changed if INVEPT fails.                                                *)
grant_write ==
  LET t == published.entry[1]
      i == published.entry[2]
  IN  /\ already_published /\ result # "VmFail"
      /\ mem' = [mem EXCEPT ![t][i] = with_access(@, {"R", "W"})]
      /\ \/ result' = "VmFail" /\ UNCHANGED cache
         \/ /\ result' = "granted"
            /\ cache' = invalidated(published.invept, published.eptp)
      /\ UNCHANGED <<invept, map, ept, published, builds>>

Next ==
  \/ check_support
  \/ \E regions \in MemoryMaps, protected_page \in Pages : build(regions, protected_page)
  \/ guest_access
  \/ grant_write

Spec == Init /\ [][Next]_vars

-----------------------------------------------------------------------------
(* What the CPU finds through the tables build returned: guest-physical    *)
(* address = physical address, all access, for every address below the     *)
(* map's end; nothing from the end on; and the protected page read-only    *)
(* until the write grant, readable and writable after it, never            *)
(* executable.  About fill_identity_map's index arithmetic and the entry   *)
(* grant_write changes through the published pointer.                      *)
IdentityMap ==
  ept # NoEpt =>
    \A gpa \in 0..ENTRIES*MAX_IDENTITY_MAP-1 :
      translate(ept.eptp, gpa) =
        IF gpa >= ept.end THEN none
        ELSE [hpa |-> gpa,
              access |-> IF gpa \div PAGE_SIZE # published.gpa \div PAGE_SIZE THEN EPT_RWX
                         ELSE IF granted THEN {"R", "W"} ELSE {"R"}]

(* A map that was built covers every region of the firmware's memory map,  *)
(* of whatever type, in whole GiB and not one more than needed: about the  *)
(* checked arithmetic and the rounding of identity_map_end.                *)
MapCoversMemory ==
  ept # NoEpt =>
    LET ends == {r[1] + r[2] * PAGE_SIZE : r \in map} IN
    /\ \A e \in ends : e <= ept.end
    /\ \E e \in ends : e > ept.end - SIZE_1G
    /\ ept.end % SIZE_1G = 0

(* While the guest can run, every translation the CPU has cached is the    *)
(* one its tables give now: grant_write's INVEPT, with the type            *)
(* check_support picked and the published EPTP, drops the read-only one,   *)
(* and a grant whose INVEPT fails stops the guest.                         *)
NoStaleTranslation ==
  result # "VmFail" =>
    \A c \in cache : translate(c.eptp, c.gpa) = [hpa |-> c.hpa, access |-> c.access]

(* Once an EPT is built, no step replaces it or the page published for the *)
(* exit handler, a second build included, and no step changes an entry     *)
(* other than the protected page's.                                        *)
OnlyGrantChanges ==
  [][ept # NoEpt =>
       /\ UNCHANGED <<ept, published>>
       /\ \A t \in DOMAIN mem : \A i \in 0..ENTRIES-1 :
            mem'[t][i] # mem[t][i] => <<t, i>> = published.entry]_vars
=============================================================================
