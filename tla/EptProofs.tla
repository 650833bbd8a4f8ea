----------------------------- MODULE EptProofs ------------------------------
(***************************************************************************)
(* The extended page tables map every address below their end to itself,   *)
(* cover the firmware's memory map, and leave no stale translation, for    *)
(* every number of entries per table (512 in the code), every page size    *)
(* (4096), every memory map and every protected page.                      *)
(***************************************************************************)
EXTENDS EptMap, WellFoundedInduction, FiniteSetTheorems, TLAPS

-----------------------------------------------------------------------------
(* Division.                                                               *)

(* Quotient and remainder.                                                 *)
LEMMA DivMod ==
  ASSUME NEW a \in Nat, NEW d \in Nat \ {0}
  PROVE  /\ a \div d \in Nat /\ a % d \in Nat
         /\ a % d < d
         /\ a = d * (a \div d) + (a % d)
<1>1. a \div d \in Nat /\ a % d \in Nat /\ a % d < d
  OBVIOUS
<1>2. a = d * (a \div d) + (a % d)
  BY SMT
<1> QED
  BY <1>1, <1>2

(* They are determined by their equation.                                  *)
LEMMA DivUnique ==
  ASSUME NEW a \in Nat, NEW d \in Nat \ {0}, NEW q \in Nat, NEW r \in Nat, r < d, a = d * q + r
  PROVE  a \div d = q /\ a % d = r
BY SMT

(* Dividing twice.                                                         *)
LEMMA DivDiv ==
  ASSUME NEW a \in Nat, NEW b \in Nat \ {0}, NEW c \in Nat \ {0}
  PROVE  (a \div b) \div c = a \div (c * b)
BY SMT

(* A number below a multiple of the divisor, and one from it on.           *)
LEMMA DivBelow ==
  ASSUME NEW a \in Nat, NEW d \in Nat \ {0}, NEW n \in Nat
  PROVE  a < n * d <=> a \div d < n
<1> DEFINE q == a \div d
           r == a % d
<1>1. q \in Nat /\ r \in Nat /\ r < d /\ a = d * q + r
  BY DivMod
<1> HIDE DEF q, r
<1>2. ASSUME q < n PROVE a < n * d
  <2>1. q + 1 <= n
    BY <1>1, <1>2
  <2>2. (q + 1) * d <= n * d
    BY SMT, <1>1, <2>1
  <2>3. (q + 1) * d = d * q + d
    BY SMT, <1>1
  <2> QED
    BY SMT, <1>1, <2>2, <2>3
<1>3. ASSUME ~(q < n) PROVE ~(a < n * d)
  <2>1. n * d <= q * d
    BY SMT, <1>1, <1>3
  <2>2. q * d = d * q
    BY SMT, <1>1
  <2> QED
    BY SMT, <1>1, <2>1, <2>2
<1> QED
  BY <1>2, <1>3 DEF q

(* The sizes the levels cover.                                             *)
LEMMA Sizes ==
  /\ ENTRIES \in Nat \ {0} /\ ENTRIES > 1 /\ PAGE_SIZE \in Nat \ {0} /\ PAGE_SIZE > 0
  /\ SIZE_2M \in Nat \ {0} /\ SIZE_1G \in Nat \ {0} /\ MAX_IDENTITY_MAP \in Nat \ {0}
  /\ SIZE_2M = ENTRIES * PAGE_SIZE
  /\ SIZE_1G = ENTRIES * SIZE_2M
  /\ MAX_IDENTITY_MAP = ENTRIES * SIZE_1G
<1>1. ENTRIES \in Nat \ {0} /\ ENTRIES > 1 /\ PAGE_SIZE \in Nat \ {0} /\ PAGE_SIZE > 0
  BY SizesAssumption
<1>2. \A a, b \in Nat : a > 0 /\ b > 0 => a * b \in Nat \ {0}
  BY SMT
<1>3. SIZE_2M \in Nat \ {0}
  BY <1>1, <1>2 DEF SIZE_2M
<1>4. SIZE_1G \in Nat \ {0}
  BY <1>1, <1>2, <1>3 DEF SIZE_1G
<1>5. MAX_IDENTITY_MAP \in Nat \ {0}
  BY <1>1, <1>2, <1>4 DEF MAX_IDENTITY_MAP
<1> QED
  BY <1>1, <1>3, <1>4, <1>5 DEF SIZE_2M, SIZE_1G, MAX_IDENTITY_MAP

(* An index is one of a table's entries.                                   *)
LEMMA IndexRange ==
  ASSUME NEW size \in Nat \ {0}, NEW a \in Nat
  PROVE  index(size, a) \in 0..ENTRIES-1
<1>1. a \div size \in Nat
  BY DivMod
<1> QED
  BY <1>1, Sizes, DivMod DEF index

(* One level's index and the index of the level above it are the quotient. *)
LEMMA IndexAdds ==
  ASSUME NEW size \in Nat \ {0}, NEW a \in Nat
  PROVE  a \div size = (a \div (ENTRIES * size)) * ENTRIES + index(size, a)
<1> DEFINE q == a \div size
<1>1. q \in Nat
  BY DivMod
<1>2. q \div ENTRIES = a \div (ENTRIES * size)
  <2>1. ENTRIES \in Nat \ {0}
    BY Sizes
  <2> QED
    BY Zenon, <2>1, DivDiv
<1>3. index(size, a) = q % ENTRIES
  BY DEF index
<1>4. /\ q \div ENTRIES \in Nat /\ q % ENTRIES \in Nat
      /\ q = ENTRIES * (q \div ENTRIES) + (q % ENTRIES)
  BY <1>1, Sizes, DivMod
<1> HIDE DEF q
<1>5. q = (q \div ENTRIES) * ENTRIES + (q % ENTRIES)
  BY SMT, <1>4, Sizes
<1> QED
  BY <1>2, <1>3, <1>5 DEF q

(* The indexes of an address below the largest map: 0 in the PML4, its GiB *)
(* in the PDPT, and the numbers across all PDs and within its PT.          *)
LEMMA IndexesBelow ==
  ASSUME NEW a \in Nat, a < MAX_IDENTITY_MAP
  PROVE  /\ index(MAX_IDENTITY_MAP, a) = 0
         /\ index(SIZE_1G, a) = a \div SIZE_1G
         /\ index(SIZE_1G, a) * ENTRIES + index(SIZE_2M, a) = a \div SIZE_2M
<1>1. a \div MAX_IDENTITY_MAP = 0
  BY SMT, Sizes, DivUnique
<1>2. index(MAX_IDENTITY_MAP, a) = 0
  <2>1. 0 % ENTRIES = 0
    BY SMT, Sizes
  <2> QED
    BY <1>1, <2>1 DEF index
<1>3. a \div SIZE_1G < ENTRIES /\ a \div SIZE_1G \in Nat
  BY Sizes, DivBelow, DivMod
<1>4. index(SIZE_1G, a) = a \div SIZE_1G
  <2>1. \A q \in Nat : q < ENTRIES => q % ENTRIES = q
    BY SMT, Sizes
  <2> QED
    BY <1>3, <2>1 DEF index
<1>5. a \div SIZE_2M = (a \div SIZE_1G) * ENTRIES + index(SIZE_2M, a)
  BY Sizes, IndexAdds
<1> QED
  BY <1>2, <1>4, <1>5

(* From the largest map on, the PML4's index is not 0.                     *)
LEMMA IndexesAbove ==
  ASSUME NEW a \in Nat, a >= MAX_IDENTITY_MAP, a < ENTRIES * MAX_IDENTITY_MAP
  PROVE  index(MAX_IDENTITY_MAP, a) # 0
<1> DEFINE q == a \div MAX_IDENTITY_MAP
<1>1. q \in Nat /\ q < ENTRIES
  BY Sizes, DivBelow, DivMod
<1>2. ~(q < 1)
  <2>1. ~(a < 1 * MAX_IDENTITY_MAP)
    BY Sizes
  <2> QED
    BY <2>1, Sizes, DivBelow
<1>3. index(MAX_IDENTITY_MAP, a) = q % ENTRIES
  BY DEF index
<1> HIDE DEF q
<1>4. q % ENTRIES = q
  BY SMT, <1>1, Sizes
<1> QED
  BY <1>1, <1>2, <1>3, <1>4

(* An address put together again from its 2 MiB region, its page's index   *)
(* and its offset.                                                         *)
LEMMA AddressParts ==
  ASSUME NEW a \in Nat
  PROVE  /\ (a \div SIZE_2M) * SIZE_2M + (a % SIZE_2M) = a
         /\ ((a \div SIZE_2M) * SIZE_2M + index(PAGE_SIZE, a) * PAGE_SIZE) + (a % PAGE_SIZE) = a
<1>1. (a \div SIZE_2M) * SIZE_2M + (a % SIZE_2M) = a
  <2>1. a \div SIZE_2M \in Nat /\ a % SIZE_2M \in Nat
        /\ a = SIZE_2M * (a \div SIZE_2M) + (a % SIZE_2M)
    BY Sizes, DivMod, Zenon
  <2> QED
    BY SMT, <2>1, Sizes
<1>2. a \div PAGE_SIZE = (a \div SIZE_2M) * ENTRIES + index(PAGE_SIZE, a)
  BY Sizes, IndexAdds, Zenon
<1>3. /\ a \div PAGE_SIZE \in Nat /\ a % PAGE_SIZE \in Nat
      /\ a = PAGE_SIZE * (a \div PAGE_SIZE) + (a % PAGE_SIZE)
  BY Sizes, DivMod
<1>4. a \div SIZE_2M \in Nat /\ index(PAGE_SIZE, a) \in Nat
  <2>1. index(PAGE_SIZE, a) \in 0..ENTRIES-1
    BY Sizes, IndexRange
  <2> QED
    BY <2>1, Sizes, DivMod
<1>5. ASSUME NEW g \in Nat, NEW i \in Nat
      PROVE  PAGE_SIZE * (g * ENTRIES + i) = g * SIZE_2M + i * PAGE_SIZE
  <2>1. PAGE_SIZE * (g * ENTRIES + i) = (g * ENTRIES) * PAGE_SIZE + i * PAGE_SIZE
    BY SMT, Sizes
  <2>2. (g * ENTRIES) * PAGE_SIZE = g * (ENTRIES * PAGE_SIZE)
    BY SMT, Sizes
  <2> QED
    BY <2>1, <2>2, Sizes
<1>6. PAGE_SIZE * (a \div PAGE_SIZE) =
        (a \div SIZE_2M) * SIZE_2M + index(PAGE_SIZE, a) * PAGE_SIZE
  BY <1>2, <1>4, <1>5
<1> QED
  BY <1>1, <1>3, <1>6

(* Two addresses of one 2 MiB region are in one page exactly when their    *)
(* page-table indexes agree.                                               *)
LEMMA SamePage ==
  ASSUME NEW a \in Nat, NEW b \in Nat, a \div SIZE_2M = b \div SIZE_2M
  PROVE  index(PAGE_SIZE, a) = index(PAGE_SIZE, b) <=> a \div PAGE_SIZE = b \div PAGE_SIZE
<1>1. /\ a \div PAGE_SIZE = (a \div SIZE_2M) * ENTRIES + index(PAGE_SIZE, a)
      /\ b \div PAGE_SIZE = (b \div SIZE_2M) * ENTRIES + index(PAGE_SIZE, b)
  BY ZenonT(30), Sizes, IndexAdds
<1>2. (a \div SIZE_2M) * ENTRIES \in Nat
  BY Sizes, DivMod, SMT
<1>3. index(PAGE_SIZE, a) \in Nat /\ index(PAGE_SIZE, b) \in Nat
  BY Sizes, IndexRange
<1> QED
  BY <1>1, <1>2, <1>3

(* Addresses of one page are in one 2 MiB region.                          *)
LEMMA PageInRegion ==
  ASSUME NEW a \in Nat, NEW b \in Nat, a \div PAGE_SIZE = b \div PAGE_SIZE
  PROVE  a \div SIZE_2M = b \div SIZE_2M
<1>1. /\ (a \div PAGE_SIZE) \div ENTRIES = a \div SIZE_2M
      /\ (b \div PAGE_SIZE) \div ENTRIES = b \div SIZE_2M
  BY Sizes, DivDiv
<1> QED
  BY <1>1

-----------------------------------------------------------------------------
(* What build leaves in memory, and what the walk makes of it.             *)

Pdpt == ept.eptp + PAGE_SIZE
Pds == ept.eptp + 2 * PAGE_SIZE
Gibs == ept.end \div SIZE_1G
Pt == Pds + Gibs * PAGE_SIZE
Region == (published.gpa \div SIZE_2M) * SIZE_2M

\* The map's numbers: whole GiB, at most one PDPT of them, the page inside.
Numbers ==
  /\ ept.eptp \in Nat /\ ept.end \in Nat
  /\ Gibs \in Nat /\ Gibs <= ENTRIES /\ ept.end = Gibs * SIZE_1G
  /\ published.gpa \in Nat /\ published.gpa < ept.end

\* The tables, entry by entry.
Layout ==
  /\ \A i \in 0..ENTRIES-1 :
       mem[ept.eptp][i] = IF i = 0 THEN table(Pdpt) ELSE EMPTY
  /\ \A i \in 0..ENTRIES-1 :
       mem[Pdpt][i] = IF i < Gibs THEN table(Pds + i * PAGE_SIZE) ELSE EMPTY
  /\ \A g \in 0..Gibs-1, i \in 0..ENTRIES-1 :
       mem[Pds + g * PAGE_SIZE][i] =
         IF g * ENTRIES + i = published.gpa \div SIZE_2M
         THEN table(Pt) ELSE page((g * ENTRIES + i) * SIZE_2M, EPT_RWX)
  /\ \A i \in 0..ENTRIES-1 :
       mem[Pt][i] =
         page(Region + i * PAGE_SIZE,
              IF i # index(PAGE_SIZE, published.gpa) THEN EPT_RWX
              ELSE IF granted THEN {"R", "W"} ELSE {"R"})

\* The translation of gpa that IdentityMap asks for.
Wanted(gpa) ==
  IF gpa >= ept.end THEN none
  ELSE [hpa |-> gpa,
        access |-> IF gpa \div PAGE_SIZE # published.gpa \div PAGE_SIZE THEN EPT_RWX
                   ELSE IF granted THEN {"R", "W"} ELSE {"R"}]

(* The fields of the entries.                                              *)
LEMMA EntryFields ==
  ASSUME NEW a, NEW access
  PROVE  /\ table(a).kind = "table" /\ table(a).address = a /\ table(a).access = EPT_RWX
         /\ page(a, access).kind = "page" /\ page(a, access).address = a
         /\ page(a, access).access = access
BY DEF table, page

(* The walk of an address below the end reaches a PD entry of its own.     *)
LEMMA WalkToPd ==
  ASSUME Numbers, Layout, NEW gpa \in Nat, gpa < ept.end
  PROVE  /\ gpa < MAX_IDENTITY_MAP
         /\ index(SIZE_1G, gpa) \in 0..Gibs-1
         /\ mem[ept.eptp][index(MAX_IDENTITY_MAP, gpa)] = table(Pdpt)
         /\ mem[Pdpt][index(SIZE_1G, gpa)] = table(Pds + index(SIZE_1G, gpa) * PAGE_SIZE)
         /\ mem[Pds + index(SIZE_1G, gpa) * PAGE_SIZE][index(SIZE_2M, gpa)] =
              IF gpa \div SIZE_2M = published.gpa \div SIZE_2M
              THEN table(Pt) ELSE page((gpa \div SIZE_2M) * SIZE_2M, EPT_RWX)
<1>1. gpa < MAX_IDENTITY_MAP
  <2>1. Gibs * SIZE_1G <= ENTRIES * SIZE_1G
    BY SMT, Sizes DEF Numbers
  <2> QED
    BY <2>1, Sizes DEF Numbers
<1>2. gpa \div SIZE_1G < Gibs /\ gpa \div SIZE_1G \in Nat
  BY Sizes, DivBelow, DivMod DEF Numbers
<1>3. /\ index(MAX_IDENTITY_MAP, gpa) = 0
      /\ index(SIZE_1G, gpa) = gpa \div SIZE_1G
      /\ index(SIZE_1G, gpa) * ENTRIES + index(SIZE_2M, gpa) = gpa \div SIZE_2M
  BY <1>1, IndexesBelow
<1>4. index(SIZE_1G, gpa) \in 0..Gibs-1
  BY <1>2, <1>3 DEF Numbers
<1>5. index(SIZE_1G, gpa) \in 0..ENTRIES-1 /\ index(SIZE_2M, gpa) \in 0..ENTRIES-1
  BY Sizes, IndexRange
<1>6. mem[ept.eptp][index(MAX_IDENTITY_MAP, gpa)] = table(Pdpt)
  BY <1>3, Sizes DEF Layout
<1>7. mem[Pdpt][index(SIZE_1G, gpa)] = table(Pds + index(SIZE_1G, gpa) * PAGE_SIZE)
  BY <1>4, <1>5 DEF Layout, Numbers
<1>8. mem[Pds + index(SIZE_1G, gpa) * PAGE_SIZE][index(SIZE_2M, gpa)] =
        IF gpa \div SIZE_2M = published.gpa \div SIZE_2M
        THEN table(Pt) ELSE page((gpa \div SIZE_2M) * SIZE_2M, EPT_RWX)
  BY <1>3, <1>4, <1>5 DEF Layout
<1> QED
  BY <1>1, <1>4, <1>6, <1>7, <1>8

(* The whole walk.                                                         *)
LEMMA WalkIsIdentity ==
  ASSUME Numbers, Layout, NEW gpa \in Nat, gpa < ENTRIES * MAX_IDENTITY_MAP
  PROVE  translate(ept.eptp, gpa) = Wanted(gpa)
<1> DEFINE pml4e == mem[ept.eptp][index(MAX_IDENTITY_MAP, gpa)]
           pdpte == mem[pml4e.address][index(SIZE_1G, gpa)]
           pde == mem[pdpte.address][index(SIZE_2M, gpa)]
           pte == mem[pde.address][index(PAGE_SIZE, gpa)]
<1>t. translate(ept.eptp, gpa) =
        IF pml4e.access = {} \/ pdpte.access = {} \/ pde.access = {} THEN none
        ELSE IF pde.kind = "page"
             THEN [hpa |-> pde.address + (gpa % SIZE_2M),
                   access |-> pml4e.access \cap pdpte.access \cap pde.access]
        ELSE IF pte.access = {} THEN none
        ELSE [hpa |-> pte.address + (gpa % PAGE_SIZE),
              access |-> (pml4e.access \cap pdpte.access \cap pde.access) \cap pte.access]
  BY DEF translate
<1>1. CASE gpa >= MAX_IDENTITY_MAP
  <2>1. index(MAX_IDENTITY_MAP, gpa) # 0 /\ index(MAX_IDENTITY_MAP, gpa) \in 0..ENTRIES-1
    BY <1>1, IndexesAbove, IndexRange, Sizes
  <2>2. pml4e = EMPTY
    BY <2>1 DEF Layout
  <2>3. pml4e.access = {}
    BY <2>2 DEF EMPTY
  <2>4. gpa >= ept.end
    <3>1. Gibs * SIZE_1G <= ENTRIES * SIZE_1G
      BY SMT, Sizes DEF Numbers
    <3> QED
      BY <1>1, <3>1, Sizes DEF Numbers
  <2> HIDE DEF pml4e, pdpte, pde, pte
  <2> QED
    BY <1>t, <2>3, <2>4 DEF Wanted
<1>2. CASE gpa < MAX_IDENTITY_MAP /\ gpa >= ept.end
  <2>1. index(MAX_IDENTITY_MAP, gpa) = 0 /\ index(SIZE_1G, gpa) = gpa \div SIZE_1G
    BY <1>2, IndexesBelow
  <2>2. pml4e = table(Pdpt)
    BY <2>1, Sizes DEF Layout
  <2>3. pml4e.address = Pdpt
    BY <2>2 DEF table
  <2>4. ~(gpa \div SIZE_1G < Gibs) /\ index(SIZE_1G, gpa) \in 0..ENTRIES-1
    <3>1. ~(gpa < Gibs * SIZE_1G)
      BY <1>2 DEF Numbers
    <3> QED
      BY <3>1, Sizes, DivBelow, IndexRange, Zenon DEF Numbers
  <2>5. pdpte = EMPTY
    BY <2>1, <2>3, <2>4 DEF Layout
  <2>6. pdpte.access = {}
    BY <2>5 DEF EMPTY
  <2> HIDE DEF pml4e, pdpte, pde, pte
  <2> QED
    BY <1>t, <1>2, <2>6 DEF Wanted
<1>3. CASE gpa < ept.end
  <2>1. pml4e = table(Pdpt) /\ pml4e.address = Pdpt /\ pml4e.access = EPT_RWX
    <3>1. pml4e = table(Pdpt)
      BY <1>3, WalkToPd
    <3> HIDE DEF pml4e
    <3> QED
      BY <3>1, EntryFields
  <2>2. pdpte = table(Pds + index(SIZE_1G, gpa) * PAGE_SIZE)
    BY <1>3, <2>1, WalkToPd
  <2>3. pdpte.address = Pds + index(SIZE_1G, gpa) * PAGE_SIZE /\ pdpte.access = EPT_RWX
    BY <2>2, SMTT(30) DEF table
  <2>4. pde = IF gpa \div SIZE_2M = published.gpa \div SIZE_2M
              THEN table(Pt) ELSE page((gpa \div SIZE_2M) * SIZE_2M, EPT_RWX)
    BY Zenon, <1>3, <2>3, WalkToPd
  <2>5. EPT_RWX # {} /\ EPT_RWX \cap EPT_RWX = EPT_RWX
    BY DEF EPT_RWX
  <2>6. CASE gpa \div SIZE_2M # published.gpa \div SIZE_2M
    <3>1. /\ pde.kind = "page" /\ pde.access = EPT_RWX
          /\ pde.address = (gpa \div SIZE_2M) * SIZE_2M
      <4> HIDE DEF pde
      <4> QED
        BY <2>4, <2>6, EntryFields, SMTT(30)
    <3>2. pde.address + (gpa % SIZE_2M) = gpa
      BY <3>1, AddressParts, Zenon
    <3>3. gpa \div PAGE_SIZE # published.gpa \div PAGE_SIZE
      BY <2>6, PageInRegion DEF Numbers
    <3> HIDE DEF pml4e, pdpte, pde, pte
    <3>4. translate(ept.eptp, gpa) = [hpa |-> gpa, access |-> EPT_RWX]
      BY <1>t, <2>1, <2>3, <2>5, <3>1, <3>2
    <3> QED
      BY <1>3, <3>3, <3>4 DEF Wanted, Numbers
  <2>7. CASE gpa \div SIZE_2M = published.gpa \div SIZE_2M
    <3>1. pde.kind = "table" /\ pde.access = EPT_RWX /\ pde.address = Pt
      <4> HIDE DEF pde
      <4> QED
        BY <2>4, <2>7, EntryFields
    <3>2. index(PAGE_SIZE, gpa) \in 0..ENTRIES-1
      BY Sizes, IndexRange, SMTT(30)
    <3> DEFINE access == IF index(PAGE_SIZE, gpa) # index(PAGE_SIZE, published.gpa) THEN EPT_RWX
                         ELSE IF granted THEN {"R", "W"} ELSE {"R"}
    <3>3. pte = page(Region + index(PAGE_SIZE, gpa) * PAGE_SIZE, access)
      BY <3>1, <3>2, Zenon DEF Layout
    <3>4. pte.address = Region + index(PAGE_SIZE, gpa) * PAGE_SIZE /\ pte.access = access
      <4> HIDE DEF pte, access
      <4> QED
        BY <3>3, EntryFields, SMTT(30)
    <3>5. pte.address + (gpa % PAGE_SIZE) = gpa
      BY <2>7, <3>4, AddressParts, Zenon DEF Region
    <3>6. access # {} /\ EPT_RWX \cap access = access
      BY DEF EPT_RWX
    <3>7. access = IF gpa \div PAGE_SIZE # published.gpa \div PAGE_SIZE THEN EPT_RWX
                   ELSE IF granted THEN {"R", "W"} ELSE {"R"}
      BY <2>7, SamePage DEF Numbers
    <3> HIDE DEF pml4e, pdpte, pde, pte, access
    <3>8. translate(ept.eptp, gpa) = [hpa |-> gpa, access |-> access]
      BY <1>t, <2>1, <2>3, <2>5, <3>1, <3>4, <3>5, <3>6, Zenon
    <3> QED
      BY <1>3, <3>7, <3>8 DEF Wanted, Numbers
  <2> QED
    BY <2>6, <2>7
<1> QED
  BY <1>1, <1>2, <1>3, Sizes, SMTT(30) DEF Numbers

-----------------------------------------------------------------------------
(* Bounded sets of naturals have a largest element, which Max picks.       *)
LEMMA MaxBounded ==
  ASSUME NEW T \in SUBSET Nat, T # {}, NEW b \in Nat, \A t \in T : t <= b
  PROVE  Max(T) \in T /\ \A t \in T : t <= Max(T)
<1> DEFINE F == {x..b : x \in T}
<1>1. F \subseteq FiniteSubsetsOf(Nat)
  <2>1. ASSUME NEW x \in T PROVE x..b \in FiniteSubsetsOf(Nat)
    BY FS_Interval DEF FiniteSubsetsOf
  <2> QED
    BY <2>1
<1>2. F # {}
  BY Zenon
<1> HIDE DEF F
<1>3. PICK X \in F : \A Y \in F : ~(<<Y, X>> \in StrictSubsetOrdering(Nat))
  BY <1>1, <1>2, FS_StrictSubsetOrderingWellFounded, WFMin
<1> USE DEF F
<1>4. PICK x \in T : X = x..b
  BY <1>3
<1>5. ASSUME NEW y \in T PROVE y <= x
  <2> SUFFICES ASSUME y > x PROVE FALSE
    OBVIOUS
  <2>1. y..b \in F /\ y..b \subseteq x..b /\ x \in x..b /\ x \notin y..b
    OBVIOUS
  <2> QED
    BY <1>1, <1>3, <1>4, <2>1, Zenon DEF StrictSubsetOrdering, FiniteSubsetsOf
<1> HIDE DEF F
<1>6. \E m \in T : \A y \in T : m >= y
  <2>1. \A y \in T : x >= y
    BY <1>5
  <2> QED
    BY <2>1
<1>7. Max(T) \in T /\ \A y \in T : Max(T) >= y
  BY <1>6, Zenon DEF Max
<1> QED
  BY <1>7

(* The rounding: the next multiple of 1 GiB.                               *)
LEMMA RoundUp ==
  ASSUME NEW a \in Nat, a > 0
  PROVE  /\ round_up(a) \in Nat
         /\ a <= round_up(a) /\ a > round_up(a) - SIZE_1G
         /\ round_up(a) % SIZE_1G = 0
         /\ round_up(a) = (round_up(a) \div SIZE_1G) * SIZE_1G
         /\ round_up(a) \div SIZE_1G \in Nat
<1> DEFINE n == a + SIZE_1G - 1
           q == n \div SIZE_1G
           r == n % SIZE_1G
<1>1. n \in Nat
  BY Sizes
<1>2. q \in Nat /\ r \in Nat /\ r < SIZE_1G /\ n = SIZE_1G * q + r
  BY <1>1, Sizes, DivMod, Zenon
<1>3. round_up(a) = q * SIZE_1G
  BY DEF round_up
<1>4. n = a + SIZE_1G - 1
  OBVIOUS
<1> HIDE DEF n, q, r
<1>5. q * SIZE_1G = SIZE_1G * q /\ q * SIZE_1G \in Nat
  BY SMT, <1>2, Sizes
<1>6. q * SIZE_1G = SIZE_1G * q + 0
  BY <1>2, <1>5, Sizes
<1>7. (q * SIZE_1G) \div SIZE_1G = q /\ (q * SIZE_1G) % SIZE_1G = 0
  <2> DEFINE m == q * SIZE_1G
  <2>1. m \in Nat /\ m = SIZE_1G * q + 0 /\ 0 \in Nat /\ 0 < SIZE_1G
    BY <1>5, <1>6, Sizes
  <2> HIDE DEF m
  <2>2. m \div SIZE_1G = q /\ m % SIZE_1G = 0
    BY <1>2, <2>1, Sizes, DivUnique, SMTT(30)
  <2> QED
    BY <2>2 DEF m
<1>8. a <= q * SIZE_1G /\ a > q * SIZE_1G - SIZE_1G
  BY SMT, <1>2, <1>4, <1>5, Sizes
<1> QED
  BY <1>2, <1>3, <1>5, <1>7, <1>8

(* The end of a map whose checks pass.                                     *)
LEMMA MapEnd ==
  ASSUME NEW regions \in MemoryMaps, identity_map_end(regions).error = "ok"
  PROVE  LET end == identity_map_end(regions).end
             ends == {r[1] + r[2] * PAGE_SIZE : r \in regions}
         IN  /\ end \in Nat /\ end \div SIZE_1G \in Nat
             /\ end <= MAX_IDENTITY_MAP
             /\ end = (end \div SIZE_1G) * SIZE_1G
             /\ \A e \in ends : e <= end
             /\ \E e \in ends : e > end - SIZE_1G
             /\ end % SIZE_1G = 0
<1> DEFINE ends == {r[1] + r[2] * PAGE_SIZE : r \in regions}
           T == ends \cup {0}
           top == highest(regions)
<1>1. \A r \in regions : r[1] \in Nat /\ r[2] \in Nat
  BY InputsAssumption
<1>2. ends \subseteq Nat
  <2>1. \A r \in regions : r[1] + r[2] * PAGE_SIZE \in Nat
    BY SMT, <1>1, Sizes
  <2> QED
    BY <2>1
<1>3. ends = {RegionEnd(r) : r \in regions}
  BY DEF RegionEnd
<1>4. top = Max(T)
  BY <1>3, Zenon DEF highest
<1>5. ~ \E r \in regions : RegionEnd(r) >= U64
  BY DEF identity_map_end
<1>6. top # 0 /\ ~(round_up(top) > MAX_IDENTITY_MAP)
      /\ identity_map_end(regions).end = round_up(top)
  BY DEF identity_map_end
<1>7. U64 \in Nat
  BY SizesAssumption
<1>8. \A t \in ends : t <= U64
  BY <1>2, <1>3, <1>5, <1>7
<1>9. T \in SUBSET Nat /\ T # {} /\ \A t \in T : t <= U64
  BY <1>2, <1>7, <1>8
<1> HIDE DEF T, top
<1>10. top \in T /\ \A t \in T : t <= top
  BY <1>4, <1>7, <1>9, MaxBounded
<1>11. top \in Nat /\ top > 0 /\ top \in ends /\ \A e \in ends : e <= top
  <2>1. top \in Nat /\ top # 0
    BY <1>6, <1>9, <1>10
  <2>2. T = ends \cup {0}
    BY DEF T
  <2> HIDE DEF ends
  <2>3. top \in ends /\ \A e \in ends : e <= top
    BY <1>10, <2>1, <2>2
  <2> QED
    BY <2>1, <2>3
<1>12. /\ round_up(top) \in Nat
       /\ top <= round_up(top) /\ top > round_up(top) - SIZE_1G
       /\ round_up(top) % SIZE_1G = 0
       /\ round_up(top) = (round_up(top) \div SIZE_1G) * SIZE_1G
       /\ round_up(top) \div SIZE_1G \in Nat
  BY <1>11, RoundUp
<1> HIDE DEF ends
<1>13. \A e \in ends : e <= round_up(top)
  BY <1>2, <1>11, <1>12
<1>14. round_up(top) <= MAX_IDENTITY_MAP
  BY <1>6, <1>12, Sizes
<1> QED
  BY <1>6, <1>11, <1>12, <1>13, <1>14 DEF ends

-----------------------------------------------------------------------------
(* fill_identity_map: which tables it writes, and what into each.          *)

\* The addresses of the tables of a map of gibs GiB, the first at pml4.
TablesAt(pml4, gibs) ==
  {pml4, pml4 + PAGE_SIZE, (pml4 + 2 * PAGE_SIZE) + gibs * PAGE_SIZE}
    \cup {(pml4 + 2 * PAGE_SIZE) + g * PAGE_SIZE : g \in 0..gibs-1}

(* The tables do not overlap, and each PD's address gives its number back. *)
LEMMA TablesApart ==
  ASSUME NEW pml4 \in Nat, NEW gibs \in Nat, NEW g \in 0..gibs-1
  PROVE  LET pds == pml4 + 2 * PAGE_SIZE
             pd == pds + g * PAGE_SIZE
             pt == pds + gibs * PAGE_SIZE
         IN  /\ pd \in Nat /\ pt \in Nat /\ pds \in Nat
             /\ pml4 # pml4 + PAGE_SIZE
             /\ pt # pml4 /\ pt # pml4 + PAGE_SIZE
             /\ pd # pml4 /\ pd # pml4 + PAGE_SIZE /\ pd # pt
             /\ (pd - pds) \div PAGE_SIZE = g
<1> DEFINE pds == pml4 + 2 * PAGE_SIZE
           a == g * PAGE_SIZE
           b == gibs * PAGE_SIZE
<1>1. a \in Nat /\ b \in Nat /\ pds \in Nat
  BY SMT, Sizes
<1>2. a < b
  <2>1. g + 1 <= gibs /\ g \in Nat
    OBVIOUS
  <2>2. (g + 1) * PAGE_SIZE <= gibs * PAGE_SIZE
    BY SMT, <2>1, Sizes
  <2>3. (g + 1) * PAGE_SIZE = a + PAGE_SIZE
    BY SMT, <2>1, Sizes
  <2> QED
    BY <1>1, <2>2, <2>3, Sizes
<1>3. a = PAGE_SIZE * g + 0
  BY SMT, Sizes
<1>4. pds = pml4 + 2 * PAGE_SIZE
  OBVIOUS
<1>5. (a \div PAGE_SIZE) = g
  <2> HIDE DEF a
  <2> QED
    BY <1>1, <1>3, Sizes, DivUnique
<1> HIDE DEF a, b, pds
<1>6. (pds + a) - pds = a
  BY <1>1
<1>7. /\ pds + a \in Nat /\ pds + b \in Nat
      /\ pml4 # pml4 + PAGE_SIZE
      /\ pds + b # pml4 /\ pds + b # pml4 + PAGE_SIZE
      /\ pds + a # pml4 /\ pds + a # pml4 + PAGE_SIZE /\ pds + a # pds + b
  BY <1>1, <1>2, <1>4, Sizes
<1>8. ((pds + a) - pds) \div PAGE_SIZE = g
  BY <1>5, <1>6
<1> QED
  BY <1>1, <1>7, <1>8 DEF pds, a, b

\* What F, the function of the written tables, holds at each address.
Filled(F, pml4, gibs, pp) ==
  LET pds == pml4 + 2 * PAGE_SIZE
      pt == pds + gibs * PAGE_SIZE
  IN  /\ F = [t \in TablesAt(pml4, gibs) |-> F[t]]
      /\ F[pml4] = [i \in 0..ENTRIES-1 |->
                      IF i = 0 THEN table(pml4 + PAGE_SIZE) ELSE EMPTY]
      /\ F[pml4 + PAGE_SIZE] =
           [i \in 0..ENTRIES-1 |->
              IF i < gibs THEN table(pds + i * PAGE_SIZE) ELSE EMPTY]
      /\ \A g \in 0..gibs-1 :
           F[pds + g * PAGE_SIZE] =
             [i \in 0..ENTRIES-1 |->
                IF g * ENTRIES + i = pp \div SIZE_2M
                THEN table(pt) ELSE page((g * ENTRIES + i) * SIZE_2M, EPT_RWX)]
      /\ F[pt] = [i \in 0..ENTRIES-1 |->
                    page((pp \div SIZE_2M) * SIZE_2M + i * PAGE_SIZE,
                         IF i = index(PAGE_SIZE, pp) THEN {"R"} ELSE EPT_RWX)]

(* fill_identity_map's CASE, table by table.                               *)
LEMMA FillWrites ==
  ASSUME NEW pml4 \in Nat, NEW gibs \in Nat, gibs > 0,
         NEW pp \in Nat, pp < MAX_IDENTITY_MAP
  PROVE  Filled(fill_identity_map(pml4, pml4 + PAGE_SIZE, pml4 + 2 * PAGE_SIZE,
                  (pml4 + 2 * PAGE_SIZE) + gibs * PAGE_SIZE, gibs, pp),
                pml4, gibs, pp)
<1> DEFINE F == fill_identity_map(pml4, pml4 + PAGE_SIZE, pml4 + 2 * PAGE_SIZE,
                   (pml4 + 2 * PAGE_SIZE) + gibs * PAGE_SIZE, gibs, pp)
           pdpt == pml4 + PAGE_SIZE
           pds == pml4 + 2 * PAGE_SIZE
           pt == pds + gibs * PAGE_SIZE
           PML4 == [i \in 0..ENTRIES-1 |-> IF i = 0 THEN table(pdpt) ELSE EMPTY]
           PDPT == [i \in 0..ENTRIES-1 |->
                      IF i < gibs THEN table(pds + i * PAGE_SIZE) ELSE EMPTY]
           PT == [i \in 0..ENTRIES-1 |->
                    page((pp \div SIZE_2M) * SIZE_2M + i * PAGE_SIZE,
                         IF i = index(PAGE_SIZE, pp) THEN {"R"} ELSE EPT_RWX)]
           PD(g) == [i \in 0..ENTRIES-1 |->
                       IF g * ENTRIES + i = pp \div SIZE_2M
                       THEN table(pt) ELSE page((g * ENTRIES + i) * SIZE_2M, EPT_RWX)]
<1>1. split_entry(pp) = pp \div SIZE_2M
  BY IndexesBelow DEF split_entry
<1>2. F = [t \in TablesAt(pml4, gibs) |->
             CASE t = pml4 -> PML4
               [] t = pdpt -> PDPT
               [] t = pt -> PT
               [] OTHER -> PD((t - pds) \div PAGE_SIZE)]
  <2>1. TablesAt(pml4, gibs) = {pml4, pdpt, pt} \cup {pds + g * PAGE_SIZE : g \in 0..gibs-1}
    BY DEF TablesAt
  <2> QED
    BY <1>1, <2>1 DEF fill_identity_map
<1>3. 0 \in 0..gibs-1
  OBVIOUS
<1>4. pml4 # pdpt /\ pt # pml4 /\ pt # pdpt
  BY <1>3, TablesApart
<1>5. ASSUME NEW g \in 0..gibs-1
      PROVE  LET pd == pds + g * PAGE_SIZE IN
             pd # pml4 /\ pd # pdpt /\ pd # pt /\ (pd - pds) \div PAGE_SIZE = g
  BY TablesApart, Zenon
<1>6. /\ pml4 \in TablesAt(pml4, gibs) /\ pdpt \in TablesAt(pml4, gibs)
      /\ pt \in TablesAt(pml4, gibs)
      /\ \A g \in 0..gibs-1 : pds + g * PAGE_SIZE \in TablesAt(pml4, gibs)
  BY DEF TablesAt
<1> HIDE DEF F, pdpt, pds, pt, PML4, PDPT, PT, PD
<1>7. F = [t \in TablesAt(pml4, gibs) |-> F[t]]
  BY <1>2
<1>8. F[pml4] = PML4 /\ F[pdpt] = PDPT /\ F[pt] = PT
  BY <1>2, <1>4, <1>6
<1>9. ASSUME NEW g \in 0..gibs-1 PROVE F[pds + g * PAGE_SIZE] = PD(g)
  BY <1>2, <1>5, <1>6
<1>10. Filled(F, pml4, gibs, pp)
  BY <1>7, <1>8, <1>9 DEF Filled, pdpt, pds, pt, PML4, PDPT, PT, PD
<1> QED
  BY <1>10 DEF F

(* Each table written is a function of its indexes.                        *)
LEMMA FilledTables ==
  ASSUME NEW F, NEW pml4, NEW gibs, NEW pp, Filled(F, pml4, gibs, pp),
         NEW t \in TablesAt(pml4, gibs)
  PROVE  F[t] = [i \in 0..ENTRIES-1 |-> F[t][i]]
<1>1. CASE t = pml4
  BY <1>1 DEF Filled
<1>2. CASE t = pml4 + PAGE_SIZE
  BY <1>2, Zenon DEF Filled
<1>3. CASE t = (pml4 + 2 * PAGE_SIZE) + gibs * PAGE_SIZE
  BY <1>3, Zenon DEF Filled
<1>4. ASSUME NEW g \in 0..gibs-1, t = (pml4 + 2 * PAGE_SIZE) + g * PAGE_SIZE
      PROVE  F[t] = [i \in 0..ENTRIES-1 |-> F[t][i]]
  BY <1>4, Zenon DEF Filled
<1> QED
  BY <1>1, <1>2, <1>3, <1>4 DEF TablesAt

-----------------------------------------------------------------------------
(* The inductive invariant.                                                *)

\* Memory is a function of addresses to tables, below some address.
Shape ==
  /\ DOMAIN mem \subseteq Nat
  /\ \E b \in Nat : \A t \in DOMAIN mem : t <= b
  /\ mem = [t \in DOMAIN mem |-> mem[t]]
  /\ \A t \in DOMAIN mem : mem[t] = [i \in 0..ENTRIES-1 |-> mem[t][i]]

\* After a successful build: the tables are as written but for the grant,
\* and the published page and every cached translation belong to them.
Built ==
  /\ Numbers /\ Layout /\ Gibs > 0
  /\ TablesAt(ept.eptp, Gibs) \subseteq DOMAIN mem
  /\ published.eptp = ept.eptp /\ published.invept \in InveptTypes
  /\ published.entry = <<Pt, index(PAGE_SIZE, published.gpa)>>
  /\ \A c \in cache : c.eptp = ept.eptp

EptInv ==
  /\ Shape
  /\ ept = NoEpt => published = NoPage /\ cache = {} /\ ~granted
  /\ ept # NoEpt => Built
  /\ MapCoversMemory
  /\ NoStaleTranslation

(* No table, no map, nothing cached.                                       *)
LEMMA EptInit == Init => EptInv
<1> SUFFICES ASSUME Init PROVE EptInv
  OBVIOUS
<1>1. Shape
  <2>1. DOMAIN mem = {} /\ mem = [t \in {} |-> mem[t]]
    BY DEF Init
  <2>2. \E b \in Nat : \A t \in DOMAIN mem : t <= b
    <3>1. 0 \in Nat /\ \A t \in DOMAIN mem : t <= 0
      BY <2>1
    <3> QED
      BY <3>1
  <2> QED
    BY <2>1, <2>2 DEF Shape
<1>2. /\ ept = NoEpt => published = NoPage /\ cache = {} /\ ~granted
      /\ ept # NoEpt => Built
      /\ MapCoversMemory
      /\ NoStaleTranslation
  BY DEF Init, granted, MapCoversMemory, NoStaleTranslation
<1> QED
  BY <1>1, <1>2 DEF EptInv

(* A step that leaves the tables, the published page, the cache and what   *)
(* was granted alone.                                                      *)
LEMMA EptFrame ==
  ASSUME EptInv, UNCHANGED <<mem, map, ept, published, cache>>, granted' = granted,
         result' = "VmFail" <=> result = "VmFail"
  PROVE  EptInv'
<1>1. Shape'
  BY DEF EptInv, Shape
<1>2. ept' = NoEpt => published' = NoPage /\ cache' = {} /\ ~granted'
  BY DEF EptInv
<1>3. ept' # NoEpt => Built'
  <2> SUFFICES ASSUME ept # NoEpt PROVE Built'
    OBVIOUS
  <2>1. Built
    BY SMTT(30) DEF EptInv
  <2>2. Numbers' /\ Layout' /\ Gibs' = Gibs /\ Pt' = Pt
    BY <2>1 DEF Built, Numbers, Layout, Gibs, Pt, Pds, Pdpt, Region
  <2> QED
    BY <2>1, <2>2 DEF Built
<1>4. MapCoversMemory'
  BY DEF EptInv, MapCoversMemory
<1>5. NoStaleTranslation'
  <2>1. ASSUME NEW eptp, NEW gpa PROVE translate(eptp, gpa)' = translate(eptp, gpa)
    BY DEF translate
  <2> QED
    BY <2>1, ZenonT(60) DEF EptInv, NoStaleTranslation
<1> QED
  BY <1>1, <1>2, <1>3, <1>4, <1>5 DEF EptInv

(* Freshly allocated tables are above every table there is.                *)
LEMMA Fresh ==
  ASSUME Shape
  PROVE  NextFree \in Nat /\ \A t \in DOMAIN mem : t < NextFree
<1> DEFINE T == (DOMAIN mem) \cup {0}
<1>1. PICK b \in Nat : \A t \in DOMAIN mem : t <= b
  BY DEF Shape
<1>2. T \in SUBSET Nat /\ T # {} /\ \A t \in T : t <= b
  BY <1>1 DEF Shape
<1>3. NextFree = Max(T) + PAGE_SIZE
  BY DEF NextFree
<1>4. \A t \in DOMAIN mem : t \in T
  OBVIOUS
<1> HIDE DEF T
<1>5. Max(T) \in T /\ \A t \in T : t <= Max(T)
  BY <1>2, MaxBounded, Zenon
<1> DEFINE m == Max(T)
<1>6. m \in Nat /\ \A t \in DOMAIN mem : t \in Nat /\ t <= m
  BY <1>2, <1>4, <1>5, Zenon
<1>7. NextFree = m + PAGE_SIZE
  BY <1>3
<1> HIDE DEF m
<1> QED
  BY <1>6, <1>7, Sizes

(* Where the tables of a build are: from the first one on.                 *)
LEMMA TablesFrom ==
  ASSUME NEW pml4 \in Nat, NEW gibs \in Nat, NEW t \in TablesAt(pml4, gibs)
  PROVE  t \in Nat /\ pml4 <= t /\ t <= (pml4 + 2 * PAGE_SIZE) + gibs * PAGE_SIZE
<1>1. gibs * PAGE_SIZE \in Nat /\ PAGE_SIZE \in Nat
  BY SMT, Sizes
<1>2. ASSUME NEW g \in 0..gibs-1 PROVE g * PAGE_SIZE \in Nat /\ g * PAGE_SIZE <= gibs * PAGE_SIZE
  BY SMT, Sizes
<1>3. CASE t \in {pml4, pml4 + PAGE_SIZE, (pml4 + 2 * PAGE_SIZE) + gibs * PAGE_SIZE}
  <2> DEFINE n == gibs * PAGE_SIZE
  <2> HIDE DEF n
  <2>1. n \in Nat /\ t \in {pml4, pml4 + PAGE_SIZE, (pml4 + 2 * PAGE_SIZE) + n}
    BY <1>1, <1>3 DEF n
  <2>2. t \in Nat /\ pml4 <= t /\ t <= (pml4 + 2 * PAGE_SIZE) + n
    BY <1>1, <2>1
  <2> QED
    BY <2>2 DEF n
<1>4. CASE t \in {(pml4 + 2 * PAGE_SIZE) + g * PAGE_SIZE : g \in 0..gibs-1}
  <2>1. PICK g \in 0..gibs-1 : t = (pml4 + 2 * PAGE_SIZE) + g * PAGE_SIZE
    BY <1>4
  <2> DEFINE n == gibs * PAGE_SIZE
             a == g * PAGE_SIZE
  <2>2. a \in Nat /\ n \in Nat /\ a <= n /\ t = (pml4 + 2 * PAGE_SIZE) + a
    BY <1>1, <1>2, <2>1
  <2> HIDE DEF n, a
  <2>3. t \in Nat /\ pml4 <= t /\ t <= (pml4 + 2 * PAGE_SIZE) + n
    BY <1>1, <2>2
  <2> QED
    BY <2>3 DEF n
<1> QED
  BY <1>3, <1>4 DEF TablesAt

(* Writing the tables: they hold what fill_identity_map writes, and every  *)
(* earlier table what it held before.                                      *)
LEMMA TablesWritten ==
  ASSUME Shape, NEW pml4, pml4 = NextFree, NEW gibs \in Nat, gibs > 0, NEW pp \in Nat,
         pp < MAX_IDENTITY_MAP, NEW F,
         F = fill_identity_map(pml4, pml4 + PAGE_SIZE, pml4 + 2 * PAGE_SIZE,
               (pml4 + 2 * PAGE_SIZE) + gibs * PAGE_SIZE, gibs, pp),
         mem' = with_tables(F)
  PROVE  /\ Shape'
         /\ DOMAIN mem' = TablesAt(pml4, gibs) \cup (DOMAIN mem)
         /\ \A t \in TablesAt(pml4, gibs) : mem'[t] = F[t]
         /\ \A t \in DOMAIN mem : mem'[t] = mem[t]
<1> DEFINE new == TablesAt(pml4, gibs)
           last == (pml4 + 2 * PAGE_SIZE) + gibs * PAGE_SIZE
<1>1. pml4 \in Nat /\ \A t \in DOMAIN mem : t < pml4
  BY Fresh
<1>2. /\ F = [t \in new |-> F[t]]
      /\ \A t \in new : F[t] = [i \in 0..ENTRIES-1 |-> F[t][i]]
  <2>1. Filled(F, pml4, gibs, pp)
    BY <1>1, FillWrites
  <2>2. F = [t \in new |-> F[t]]
    BY <2>1 DEF Filled
  <2> QED
    BY <2>1, <2>2, FilledTables
<1>3. DOMAIN F = new
  BY <1>2
<1>4. \A t \in new : t \in Nat /\ pml4 <= t /\ t <= last
  BY <1>1, TablesFrom
<1>5. mem' = [t \in new \cup (DOMAIN mem) |-> IF t \in new THEN F[t] ELSE mem[t]]
  BY <1>3 DEF with_tables
<1>6. last \in Nat
  BY SMT, <1>1, Sizes
<1> HIDE DEF new, last
<1>7. DOMAIN mem' = new \cup (DOMAIN mem) /\ mem' = [t \in DOMAIN mem' |-> mem'[t]]
  BY <1>5
<1>8. \A t \in new : mem'[t] = F[t]
  BY <1>5
<1>9. \A t \in DOMAIN mem : t \in Nat /\ t \notin new
  BY <1>1, <1>4 DEF Shape
<1>10. \A t \in DOMAIN mem : mem'[t] = mem[t]
  BY <1>5, <1>9
<1>11. \A t \in DOMAIN mem' : mem'[t] = [i \in 0..ENTRIES-1 |-> mem'[t][i]]
  <2>1. ASSUME NEW t \in new PROVE mem'[t] = [i \in 0..ENTRIES-1 |-> mem'[t][i]]
    <3>1. mem'[t] = F[t] /\ F[t] = [i \in 0..ENTRIES-1 |-> F[t][i]]
      BY <1>2, <1>8
    <3> QED
      BY <3>1, Zenon
  <2>2. ASSUME NEW t \in DOMAIN mem PROVE mem'[t] = [i \in 0..ENTRIES-1 |-> mem'[t][i]]
    <3>1. mem'[t] = mem[t] /\ mem[t] = [i \in 0..ENTRIES-1 |-> mem[t][i]]
      BY <1>10 DEF Shape
    <3> QED
      BY <3>1, Zenon
  <2> QED
    BY <1>7, <2>1, <2>2
<1>12. \A t \in DOMAIN mem' : t \in Nat /\ t <= last + pml4
  BY <1>1, <1>4, <1>6, <1>7, <1>9
<1>13. \E b \in Nat : \A t \in DOMAIN mem' : t <= b
  <2>1. last + pml4 \in Nat
    BY <1>1, <1>6
  <2> QED
    BY <1>12, <2>1
<1>14. Shape'
  BY <1>7, <1>11, <1>12, <1>13 DEF Shape
<1> QED
  BY <1>7, <1>8, <1>10, <1>14 DEF new

(* A table that is not written keeps the layout it is part of.             *)
LEMMA LayoutKept ==
  ASSUME Built, UNCHANGED <<ept, published>>, granted' = granted,
         \A t \in DOMAIN mem : mem'[t] = mem[t]
  PROVE  Numbers' /\ Layout' /\ Gibs' = Gibs /\ Pt' = Pt
<1>1. Gibs' = Gibs /\ Pdpt' = Pdpt /\ Pds' = Pds /\ Pt' = Pt /\ Region' = Region
  BY DEF Gibs, Pdpt, Pds, Pt, Region
<1>2. /\ mem'[ept.eptp] = mem[ept.eptp] /\ mem'[Pdpt] = mem[Pdpt] /\ mem'[Pt] = mem[Pt]
      /\ \A g \in 0..Gibs-1 : mem'[Pds + g * PAGE_SIZE] = mem[Pds + g * PAGE_SIZE]
  BY DEF Built, TablesAt, Pdpt, Pds, Pt
<1>3. Numbers'
  BY <1>1, SMTT(30) DEF Built, Numbers
<1>4. Layout'
  BY <1>1, <1>2 DEF Built, Layout
<1> QED
  BY <1>1, <1>3, <1>4

(* The tables as written are the layout.                                   *)
LEMMA FilledLayout ==
  ASSUME NEW F, NEW pml4 \in Nat, NEW gibs \in Nat, NEW pp \in Nat,
         Filled(F, pml4, gibs, pp), \A t \in TablesAt(pml4, gibs) : mem'[t] = F[t],
         ept'.eptp = pml4, Gibs' = gibs, published'.gpa = pp, ~granted'
  PROVE  Layout'
<1> DEFINE pds == pml4 + 2 * PAGE_SIZE
           pt == pds + gibs * PAGE_SIZE
<1>1. Pdpt' = pml4 + PAGE_SIZE /\ Pds' = pds /\ Pt' = pt
      /\ Region' = (pp \div SIZE_2M) * SIZE_2M
  BY DEF Pdpt, Pds, Pt, Region
<1>2. /\ mem'[pml4] = F[pml4] /\ mem'[pml4 + PAGE_SIZE] = F[pml4 + PAGE_SIZE]
      /\ mem'[pt] = F[pt]
      /\ \A g \in 0..gibs-1 : mem'[pds + g * PAGE_SIZE] = F[pds + g * PAGE_SIZE]
  BY Zenon DEF TablesAt
<1>3. /\ F[pml4] = [i \in 0..ENTRIES-1 |-> IF i = 0 THEN table(pml4 + PAGE_SIZE) ELSE EMPTY]
      /\ F[pml4 + PAGE_SIZE] =
           [i \in 0..ENTRIES-1 |-> IF i < gibs THEN table(pds + i * PAGE_SIZE) ELSE EMPTY]
      /\ \A g \in 0..gibs-1 :
           F[pds + g * PAGE_SIZE] =
             [i \in 0..ENTRIES-1 |->
                IF g * ENTRIES + i = pp \div SIZE_2M
                THEN table(pt) ELSE page((g * ENTRIES + i) * SIZE_2M, EPT_RWX)]
      /\ F[pt] = [i \in 0..ENTRIES-1 |->
                    page((pp \div SIZE_2M) * SIZE_2M + i * PAGE_SIZE,
                         IF i = index(PAGE_SIZE, pp) THEN {"R"} ELSE EPT_RWX)]
  BY DEF Filled
<1> HIDE DEF pds, pt
<1>4. \A i \in 0..ENTRIES-1 :
        mem'[ept'.eptp][i] = IF i = 0 THEN table(Pdpt') ELSE EMPTY
  BY <1>1, <1>2, <1>3
<1>5. \A i \in 0..ENTRIES-1 :
        mem'[Pdpt'][i] = IF i < Gibs' THEN table(Pds' + i * PAGE_SIZE) ELSE EMPTY
  BY <1>1, <1>2, <1>3
<1>6. ASSUME NEW g \in 0..gibs-1, NEW i \in 0..ENTRIES-1
      PROVE  mem'[Pds' + g * PAGE_SIZE][i] =
               IF g * ENTRIES + i = published'.gpa \div SIZE_2M
               THEN table(Pt') ELSE page((g * ENTRIES + i) * SIZE_2M, EPT_RWX)
  <2> DEFINE PD == [j \in 0..ENTRIES-1 |->
                      IF g * ENTRIES + j = pp \div SIZE_2M
                      THEN table(pt) ELSE page((g * ENTRIES + j) * SIZE_2M, EPT_RWX)]
  <2>1. mem'[pds + g * PAGE_SIZE] = F[pds + g * PAGE_SIZE] /\ F[pds + g * PAGE_SIZE] = PD
    BY SMTT(30), <1>2, <1>3
  <2>2. PD[i] = IF g * ENTRIES + i = pp \div SIZE_2M
                THEN table(pt) ELSE page((g * ENTRIES + i) * SIZE_2M, EPT_RWX)
    OBVIOUS
  <2> HIDE DEF PD
  <2> QED
    BY <1>1, <2>1, <2>2, SMTT(30)
<1>7. ASSUME NEW i \in 0..ENTRIES-1
      PROVE  mem'[Pt'][i] =
               page(Region' + i * PAGE_SIZE,
                    IF i # index(PAGE_SIZE, published'.gpa) THEN EPT_RWX
                    ELSE IF granted' THEN {"R", "W"} ELSE {"R"})
  BY <1>1, <1>2, <1>3
<1> QED
  BY <1>4, <1>5, <1>6, <1>7 DEF Layout

(* A build whose checks passed, the first or a later one.                  *)
LEMMA BuildTablesStep ==
  ASSUME EptInv, NEW regions \in MemoryMaps, NEW protected_page \in Pages, NEW end,
         identity_map_end(regions).error = "ok", end = identity_map_end(regions).end,
         ~(protected_page >= end),
         invept \in InveptTypes, cache = {}, cache' = cache, ~granted,
         build_tables(regions, end, protected_page)
  PROVE  /\ EptInv'
         /\ \A t \in DOMAIN mem : mem'[t] = mem[t]
         /\ ept # NoEpt => UNCHANGED <<ept, published>>
<1> DEFINE gibs == end \div SIZE_1G
           pml4 == NextFree
           pds == pml4 + 2 * PAGE_SIZE
           pt == pds + gibs * PAGE_SIZE
           F == fill_identity_map(pml4, pml4 + PAGE_SIZE, pds, pt, gibs, protected_page)
<1>1. /\ end \in Nat /\ gibs \in Nat /\ end <= MAX_IDENTITY_MAP /\ end = gibs * SIZE_1G
      /\ \A e \in {r[1] + r[2] * PAGE_SIZE : r \in regions} : e <= end
      /\ \E e \in {r[1] + r[2] * PAGE_SIZE : r \in regions} : e > end - SIZE_1G
      /\ end % SIZE_1G = 0
  BY MapEnd
<1>2. protected_page \in Nat /\ protected_page < end /\ protected_page < MAX_IDENTITY_MAP
  BY <1>1, Sizes, SizesAssumption, InputsAssumption, SMTT(30)
<1>3. gibs > 0
  <2> HIDE DEF gibs
  <2>1. gibs # 0
    <3> SUFFICES ASSUME gibs = 0 PROVE FALSE
      OBVIOUS
    <3>1. 0 * SIZE_1G = 0
      BY Sizes
    <3> QED
      BY <1>1, <1>2, <3>1
  <2> QED
    BY <1>1, <2>1
<1>4. gibs <= ENTRIES
  <2> HIDE DEF gibs
  <2> SUFFICES ASSUME gibs > ENTRIES PROVE FALSE
    BY <1>1, Sizes
  <2>1. (ENTRIES + 1) * SIZE_1G <= gibs * SIZE_1G
    BY SMT, <1>1, Sizes
  <2>2. (ENTRIES + 1) * SIZE_1G = ENTRIES * SIZE_1G + SIZE_1G
    BY SMT, Sizes
  <2> QED
    BY <1>1, <2>1, <2>2, Sizes
<1>5. Shape /\ pml4 \in Nat
  BY Fresh DEF EptInv
<1>6. (pml4 + PAGE_SIZE) + PAGE_SIZE = pds
  <2> HIDE DEF pml4
  <2> QED
    BY <1>5, Sizes, SMTT(30)
<1>7. /\ mem' = with_tables(F)
      /\ IF already_published
         THEN result' = "AlreadyBuilt" /\ UNCHANGED <<map, ept, published>>
         ELSE /\ result' = "built"
              /\ map' = regions
              /\ ept' = [eptp |-> pml4, end |-> end]
              /\ published' = [gpa |-> protected_page, eptp |-> pml4, invept |-> invept,
                               entry |-> <<pt, index(PAGE_SIZE, protected_page)>>]
  BY <1>6, SMTT(30) DEF build_tables, published_entry
<1>8. Filled(F, pml4, gibs, protected_page)
  BY <1>1, <1>2, <1>3, <1>5, FillWrites, SMTT(30)
<1>9. /\ Shape'
      /\ DOMAIN mem' = TablesAt(pml4, gibs) \cup (DOMAIN mem)
      /\ \A t \in TablesAt(pml4, gibs) : mem'[t] = F[t]
      /\ \A t \in DOMAIN mem : mem'[t] = mem[t]
  BY <1>1, <1>2, <1>3, <1>5, <1>7, TablesWritten, ZenonT(60)
<1> HIDE DEF gibs, pml4, pds, pt, F
<1>10. NoStaleTranslation'
  BY DEF NoStaleTranslation
<1>11. ~granted'
  BY <1>7 DEF granted
<1>12. ept # NoEpt => already_published
  BY DEF EptInv, Built, already_published, InveptTypes
<1>13. CASE already_published
  <2>1. ept # NoEpt
    BY <1>13 DEF EptInv, already_published, NoPage
  <2>2. UNCHANGED <<map, ept, published>>
    BY <1>7, <1>13
  <2>3. Built
    BY <2>1 DEF EptInv
  <2>4. granted' = granted
    BY <1>11 DEF granted
  <2>5. Numbers' /\ Layout' /\ Gibs' = Gibs /\ Pt' = Pt
    BY <1>9, <2>2, <2>3, <2>4, LayoutKept, SMTT(30)
  <2>6. Built'
    BY <1>9, <2>2, <2>3, <2>5, SMTT(30) DEF Built
  <2>7. MapCoversMemory'
    BY <2>2 DEF EptInv, MapCoversMemory
  <2> QED
    BY SMTT(30), <1>9, <1>10, <2>1, <2>2, <2>6, <2>7 DEF EptInv
<1>14. CASE ~already_published
  <2>1. /\ map' = regions /\ ept' = [eptp |-> pml4, end |-> end]
        /\ published' = [gpa |-> protected_page, eptp |-> pml4, invept |-> invept,
                         entry |-> <<pt, index(PAGE_SIZE, protected_page)>>]
    BY <1>7, <1>14
  <2>2. /\ ept'.eptp = pml4 /\ ept'.end = end /\ published'.gpa = protected_page
        /\ published'.eptp = pml4 /\ published'.invept = invept
        /\ published'.entry = <<pt, index(PAGE_SIZE, protected_page)>>
    BY <2>1
  <2>3. Gibs' = gibs /\ Pt' = pt
    BY <2>2, SMTT(30) DEF Gibs, gibs, Pt, Pds, pt, pds
  <2>4. Layout'
    BY <1>1, <1>2, <1>5, <1>8, <1>9, <1>11, <2>2, <2>3, FilledLayout, SMTT(30)
  <2>5. Numbers'
    BY <1>1, <1>2, <1>4, <1>5, <2>2, <2>3, SMTT(30) DEF Numbers
  <2>6. Built'
    BY <1>3, <1>9, <2>2, <2>3, <2>4, <2>5 DEF Built
  <2>7. MapCoversMemory'
    <3>1. map' = regions /\ ept'.end = end
      BY Zenon, <2>1, <2>2
    <3> QED
      BY Zenon, <1>1, <3>1 DEF MapCoversMemory
  <2>8. ept' # NoEpt
    <3>1. NoEpt.eptp = -1
      BY DEF NoEpt
    <3> QED
      BY <1>5, <2>2, <3>1
  <2> QED
    BY <1>9, <1>10, <1>12, <1>14, <2>6, <2>7, <2>8, SMTT(30) DEF EptInv
<1> QED
  BY <1>13, <1>14, SMTT(30)

(* Ept::build with each of its errors.                                     *)
LEMMA BuildStep ==
  ASSUME EptInv, NEW regions \in MemoryMaps, NEW protected_page \in Pages,
         build(regions, protected_page)
  PROVE  /\ EptInv'
         /\ \A t \in DOMAIN mem : mem'[t] = mem[t]
         /\ ept # NoEpt => UNCHANGED <<ept, published>>
<1> DEFINE e == identity_map_end(regions)
<1>1. /\ invept \in InveptTypes /\ cache = {} /\ ~granted /\ cache' = cache
      /\ \/ BuildFails("MemoryMapUnavailable")
         \/ e.error # "ok" /\ BuildFails(e.error)
         \/ /\ e.error = "ok"
            /\ IF protected_page >= e.end \/ protected_page % PAGE_SIZE # 0
               THEN BuildFails("ProtectedPageOutsideMap")
               ELSE BuildFails("AllocationFailed")
                    \/ build_tables(regions, e.end, protected_page)
  BY DEF build
<1>2. e.error \in {"ok", "RangeTooLarge", "EmptyMemoryMap"}
  BY DEF identity_map_end
<1>3. ASSUME NEW error, error \notin {"granted", "VmFail"}, BuildFails(error)
      PROVE  EptInv' /\ UNCHANGED <<mem, ept, published>>
  <2>1. UNCHANGED <<mem, map, ept, published, cache>> /\ result' = error
    BY <1>1, <1>3 DEF BuildFails
  <2>2. granted' = granted /\ (result' = "VmFail" <=> result = "VmFail")
    <3>1. ~granted /\ result' \notin {"granted", "VmFail"}
      BY <1>1, <1>3, <2>1
    <3> QED
      BY <3>1 DEF granted
  <2>3. EptInv'
    BY <2>1, <2>2, EptFrame
  <2> QED
    BY <2>1, <2>3
<1> HIDE DEF e
<1>4. CASE \E error \in {"MemoryMapUnavailable", "RangeTooLarge", "EmptyMemoryMap",
                         "ProtectedPageOutsideMap", "AllocationFailed"} : BuildFails(error)
  BY <1>3, <1>4, SMTT(30)
<1>5. CASE /\ e.error = "ok"
           /\ ~(protected_page >= e.end)
           /\ build_tables(regions, e.end, protected_page)
  BY <1>1, <1>5, BuildTablesStep DEF e
<1> QED
  BY <1>1, <1>2, <1>4, <1>5

(* What the CPU translates depends on the tables alone.                    *)
LEMMA TranslateSame ==
  ASSUME mem' = mem, NEW eptp, NEW a
  PROVE  translate(eptp, a)' = translate(eptp, a)
  BY Zenon DEF translate

(* The processor caches what the tables give.                              *)
LEMMA AccessStep ==
  ASSUME EptInv, guest_access
  PROVE  EptInv'
<1>1. Built /\ ept # NoEpt /\ result # "VmFail"
  BY DEF guest_access, EptInv
<1>2. UNCHANGED <<mem, invept, map, ept, published, result, builds>>
  BY DEF guest_access
<1>3. PICK gpa \in 0..ept.end-1 :
        cache' = cache \cup {[eptp |-> ept.eptp, gpa |-> gpa,
                              hpa |-> translate(ept.eptp, gpa).hpa,
                              access |-> translate(ept.eptp, gpa).access]}
  BY DEF guest_access
<1> DEFINE t == translate(ept.eptp, gpa)
           new == [eptp |-> ept.eptp, gpa |-> gpa, hpa |-> t.hpa, access |-> t.access]
<1>4. gpa \in Nat /\ gpa < ept.end
  BY <1>1 DEF Built, Numbers
<1>5. gpa < ENTRIES * MAX_IDENTITY_MAP
  <2>1. gpa < MAX_IDENTITY_MAP
    BY <1>1, <1>4, WalkToPd DEF Built
  <2>2. MAX_IDENTITY_MAP <= ENTRIES * MAX_IDENTITY_MAP
    BY SMTT(30), Sizes
  <2> QED
    BY SMTT(30), <1>4, <2>1, <2>2, Sizes
<1>6. t = Wanted(gpa)
  BY <1>1, <1>4, <1>5, WalkIsIdentity DEF Built
<1>7. t = [hpa |-> t.hpa, access |-> t.access]
  <2> HIDE DEF t
  <2>1. \E hpa, access : t = [hpa |-> hpa, access |-> access]
    BY <1>6, Zenon DEF Wanted, none
  <2> QED
    BY <2>1
<1>8. \A eptp, a : translate(eptp, a)' = translate(eptp, a)
  <2>1. mem' = mem
    BY <1>2
  <2> QED
    BY <2>1, TranslateSame
<1>9. NoStaleTranslation'
  <2> SUFFICES ASSUME NEW c \in cache'
               PROVE  translate(c.eptp, c.gpa) = [hpa |-> c.hpa, access |-> c.access]
    BY <1>8 DEF NoStaleTranslation
  <2>1. CASE c \in cache
    BY <1>1, <2>1 DEF EptInv, NoStaleTranslation
  <2>2. CASE c = new
    <3> HIDE DEF t
    <3>1. c.eptp = ept.eptp /\ c.gpa = gpa /\ c.hpa = t.hpa /\ c.access = t.access
      BY <2>2, SMTT(30)
    <3> QED
      BY <1>7, <3>1 DEF t
  <2> QED
    BY <1>3, <2>1, <2>2
<1>10. \A c \in cache' : c.eptp = ept.eptp
  <2> HIDE DEF t
  <2>1. new.eptp = ept.eptp
    OBVIOUS
  <2>2. cache' = cache \cup {new}
    BY <1>3 DEF t
  <2> QED
    BY <1>1, <2>1, <2>2 DEF Built
<1>11. granted' = granted
  BY <1>2 DEF granted
<1>12. Numbers' /\ Layout' /\ Gibs' = Gibs /\ Pt' = Pt
  BY <1>1, <1>2, <1>11, LayoutKept, SMTT(30)
<1>13. Built'
  BY <1>1, <1>2, <1>10, <1>12, SMTT(30) DEF Built
<1>14. Shape' /\ MapCoversMemory'
  BY <1>2 DEF EptInv, Shape, MapCoversMemory
<1> QED
  BY <1>1, <1>2, <1>9, <1>13, <1>14 DEF EptInv

(* grant_write changes one entry, and its INVEPT empties the cache unless  *)
(* it fails.                                                               *)
LEMMA GrantStep ==
  ASSUME EptInv, grant_write
  PROVE  /\ EptInv' /\ UNCHANGED <<ept, published>>
         /\ \A t \in DOMAIN mem : \A i \in 0..ENTRIES-1 :
              mem'[t][i] # mem[t][i] => <<t, i>> = published.entry
<1>1. already_published /\ UNCHANGED <<invept, map, ept, published, builds>>
  BY DEF grant_write
<1>2. ept # NoEpt /\ Built /\ Shape
  BY <1>1 DEF EptInv, already_published, NoPage
<1> DEFINE p == index(PAGE_SIZE, published.gpa)
           entry == with_access(mem[Pt][p], {"R", "W"})
<1>3. published.entry[1] = Pt /\ published.entry[2] = p /\ p \in 0..ENTRIES-1
  <2>1. published.entry = <<Pt, p>>
    BY <1>2 DEF Built
  <2>2. p \in 0..ENTRIES-1
    BY <1>2, Sizes, IndexRange, SMTT(30) DEF Built, Numbers
  <2> HIDE DEF p
  <2> QED
    BY <2>1, <2>2
<1>4. mem' = [mem EXCEPT ![Pt] = [mem[Pt] EXCEPT ![p] = entry]]
  BY <1>3 DEF grant_write
<1>5. Pt \in DOMAIN mem
  BY <1>2 DEF Built, TablesAt, Pt, Pds
<1>6. mem[Pt] = [i \in 0..ENTRIES-1 |-> mem[Pt][i]]
  BY <1>2, <1>5 DEF Shape
<1> HIDE DEF entry, p
<1>7. /\ DOMAIN mem' = DOMAIN mem /\ mem' = [t \in DOMAIN mem' |-> mem'[t]]
      /\ \A t \in DOMAIN mem : t # Pt => mem'[t] = mem[t]
      /\ mem'[Pt] = [mem[Pt] EXCEPT ![p] = entry]
  BY <1>2, <1>4, <1>5, Zenon DEF Shape
<1>8. mem'[Pt] = [i \in 0..ENTRIES-1 |-> IF i = p THEN entry ELSE mem[Pt][i]]
  BY <1>3, <1>6, <1>7, Zenon
<1>9. mem'[Pt] = [i \in 0..ENTRIES-1 |-> mem'[Pt][i]]
  BY <1>8
<1>10. Shape'
  <2>1. ASSUME NEW t \in DOMAIN mem PROVE mem'[t] = [i \in 0..ENTRIES-1 |-> mem'[t][i]]
    <3>1. CASE t = Pt
      BY <1>9, <3>1
    <3>2. CASE t # Pt
      <4>1. mem'[t] = mem[t] /\ mem[t] = [i \in 0..ENTRIES-1 |-> mem[t][i]]
        BY <1>2, <1>7, <3>2 DEF Shape
      <4> QED
        BY <4>1
    <3> QED
      BY <3>1, <3>2
  <2> QED
    BY <1>2, <1>7, <2>1 DEF Shape
<1>11. granted' /\ NoStaleTranslation' /\ cache' \subseteq cache
  <2>1. CASE result' = "VmFail" /\ UNCHANGED cache
    BY <2>1 DEF granted, NoStaleTranslation
  <2>2. CASE result' = "granted" /\ cache' = invalidated(published.invept, published.eptp)
    <3>1. cache' = {}
      BY <1>2, <2>2, SMTT(30) DEF invalidated, Built
    <3> QED
      BY <2>2, <3>1 DEF granted, NoStaleTranslation
  <2> QED
    BY <2>1, <2>2 DEF grant_write
<1>12. /\ Gibs' = Gibs /\ Pdpt' = Pdpt /\ Pds' = Pds /\ Pt' = Pt /\ Region' = Region
       /\ Numbers'
  BY <1>1, <1>2 DEF Built, Numbers, Gibs, Pdpt, Pds, Pt, Region
<1>13. /\ ept.eptp # Pt /\ Pdpt # Pt
       /\ \A g \in 0..Gibs-1 : Pds + g * PAGE_SIZE # Pt
  <2>1. ept.eptp \in Nat /\ Gibs \in Nat /\ 0 \in 0..Gibs-1
    BY <1>2 DEF Built, Numbers
  <2> QED
    BY <2>1, TablesApart DEF Pt, Pds, Pdpt
<1>14. /\ mem'[ept.eptp] = mem[ept.eptp] /\ mem'[Pdpt] = mem[Pdpt]
       /\ \A g \in 0..Gibs-1 : mem'[Pds + g * PAGE_SIZE] = mem[Pds + g * PAGE_SIZE]
  <2>1. /\ ept.eptp \in DOMAIN mem /\ Pdpt \in DOMAIN mem
        /\ \A g \in 0..Gibs-1 : Pds + g * PAGE_SIZE \in DOMAIN mem
    BY <1>2 DEF Built, TablesAt, Pdpt, Pds
  <2> QED
    BY <1>7, <1>13, <2>1, SMTT(30)
<1>15. ASSUME NEW i \in 0..ENTRIES-1
       PROVE  mem'[Pt][i] = page(Region + i * PAGE_SIZE,
                                 IF i # p THEN EPT_RWX ELSE {"R", "W"})
  <2>1. mem[Pt][i] = page(Region + i * PAGE_SIZE,
                          IF i # p THEN EPT_RWX ELSE IF granted THEN {"R", "W"} ELSE {"R"})
    BY <1>2 DEF Built, Layout, p
  <2>2. CASE i # p
    BY <1>8, <2>1, <2>2
  <2>3. CASE i = p
    <3>1. mem'[Pt][i] = entry
      BY <1>8, <2>3
    <3>2. mem[Pt][i].kind = "page" /\ mem[Pt][i].address = Region + i * PAGE_SIZE
      BY <2>1, EntryFields
    <3>3. entry = page(Region + i * PAGE_SIZE, {"R", "W"})
      BY <2>3, <3>2, SMTT(30) DEF entry, with_access, page
    <3> QED
      BY <2>3, <3>1, <3>3
  <2> QED
    BY <2>2, <2>3
<1>16. Layout'
  <2>1. ASSUME NEW i \in 0..ENTRIES-1
        PROVE  mem'[Pt'][i] = page(Region' + i * PAGE_SIZE,
                 IF i # index(PAGE_SIZE, published'.gpa) THEN EPT_RWX
                 ELSE IF granted' THEN {"R", "W"} ELSE {"R"})
    BY <1>1, <1>11, <1>12, <1>15 DEF p
  <2> QED
    BY <1>1, <1>2, <1>12, <1>14, <2>1, SMTT(30) DEF Built, Layout
<1>17. Built'
  BY <1>1, <1>2, <1>7, <1>11, <1>12, <1>16 DEF Built
<1>18. MapCoversMemory'
  BY <1>1 DEF EptInv, MapCoversMemory
<1>19. ASSUME NEW t \in DOMAIN mem, NEW i \in 0..ENTRIES-1, mem'[t][i] # mem[t][i]
       PROVE  <<t, i>> = published.entry
  <2>1. t = Pt /\ i = p
    BY ZenonT(30), <1>7, <1>8, <1>19
  <2> QED
    BY <1>2, <2>1 DEF Built, p
<1> QED
  BY <1>1, <1>2, <1>10, <1>11, <1>17, <1>18, <1>19, SMTT(30) DEF EptInv

(* One case per action.                                                    *)
LEMMA EptStep == EptInv /\ [Next]_vars => EptInv'
<1> SUFFICES ASSUME EptInv, [Next]_vars PROVE EptInv'
  OBVIOUS
<1>1. CASE check_support
  BY <1>1, EptFrame DEF check_support, granted
<1>2. ASSUME NEW regions \in MemoryMaps, NEW protected_page \in Pages,
             build(regions, protected_page)
      PROVE  EptInv'
  BY <1>2, BuildStep
<1>3. CASE guest_access
  BY <1>3, AccessStep
<1>4. CASE grant_write
  BY <1>4, GrantStep
<1>5. CASE UNCHANGED vars
  BY <1>5, EptFrame DEF vars, granted
<1> QED
  BY <1>1, <1>2, <1>3, <1>4, <1>5 DEF Next

(* The tables keep the layout fill_identity_map gave them, but for the     *)
(* granted entry, through every step of the code and of the processor.     *)
THEOREM EptInvariant == Spec => []EptInv
BY EptInit, EptStep, PTL DEF Spec

-----------------------------------------------------------------------------
(* For every table size, page size, memory map and protected page, the     *)
(* tables build leaves (fill_identity_map) map each address below the end  *)
(* to itself, nothing from the end on, and the protected page read-only,   *)
(* readable and writable once grant_write has run.                         *)
THEOREM EptIdentity == Spec => []IdentityMap
<1>1. EptInv => IdentityMap
  <2> SUFFICES ASSUME EptInv, ept # NoEpt, NEW gpa \in 0..ENTRIES*MAX_IDENTITY_MAP-1
               PROVE  translate(ept.eptp, gpa) = Wanted(gpa)
    BY DEF IdentityMap, Wanted
  <2>1. gpa \in Nat /\ gpa < ENTRIES * MAX_IDENTITY_MAP
    BY SMT, Sizes
  <2> QED
    BY <2>1, WalkIsIdentity DEF EptInv, Built
<1> QED
  BY <1>1, EptInvariant, PTL

(* Whatever the firmware's memory map, the end identity_map_end computes   *)
(* is the first whole GiB that covers it.                                  *)
THEOREM EptCovers == Spec => []MapCoversMemory
<1>1. EptInv => MapCoversMemory
  BY DEF EptInv
<1> QED
  BY <1>1, EptInvariant, PTL

(* With either INVEPT type, no translation cached before grant_write is in *)
(* use after it: the published EPTP is the one every cached translation    *)
(* came from.                                                              *)
THEOREM EptNoStale == Spec => []NoStaleTranslation
<1>1. EptInv => NoStaleTranslation
  BY DEF EptInv
<1> QED
  BY <1>1, EptInvariant, PTL

(* No step but grant_write changes an entry of a table that was written,   *)
(* grant_write only the published one, and a second build replaces         *)
(* neither the map nor the published page.                                 *)
THEOREM EptOnlyGrant == Spec => OnlyGrantChanges
<1>1. EptInv /\ [Next]_vars =>
        [ept # NoEpt =>
           /\ UNCHANGED <<ept, published>>
           /\ \A t \in DOMAIN mem : \A i \in 0..ENTRIES-1 :
                mem'[t][i] # mem[t][i] => <<t, i>> = published.entry]_vars
  <2> SUFFICES ASSUME EptInv, Next, ept # NoEpt
               PROVE  /\ UNCHANGED <<ept, published>>
                      /\ \A t \in DOMAIN mem : \A i \in 0..ENTRIES-1 :
                           mem'[t][i] # mem[t][i] => <<t, i>> = published.entry
    BY SMTT(30) DEF vars
  <2>1. CASE check_support \/ guest_access
    BY <2>1 DEF check_support, guest_access
  <2>2. ASSUME NEW regions \in MemoryMaps, NEW protected_page \in Pages,
               build(regions, protected_page)
        PROVE  UNCHANGED <<ept, published>> /\ \A t \in DOMAIN mem : mem'[t] = mem[t]
    BY <2>2, BuildStep
  <2>3. CASE grant_write
    BY <2>3, GrantStep
  <2> QED
    BY <2>1, <2>2, <2>3, SMTT(30) DEF Next
<1> QED
  BY <1>1, EptInvariant, PTL DEF Spec, OnlyGrantChanges
=============================================================================
