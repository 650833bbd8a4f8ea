# Aleph0: TLA+ specifications

Aleph0 is a UEFI application in Rust that turns on Intel VT-x, runs one small
guest under EPT, emulates the few instructions that exit, hands NMIs to the
guest, and gives the machine back to the firmware. One CPU runs it. What makes
it hard to test is therefore not threads, but NMIs at any guest instruction,
VMX instructions that may fail at any step, CPU state borrowed from the
firmware, and translations the processor caches.

## The system and its modules

| Part | Source (`src/src/`) | Module | State |
|---|---|---|---|
| Exit decision: event, next state, resume plan | `vmx/exit_decision/` | `ExitDecision` | modelled |
| Exit handler, its statics, entry stubs | `vmx/vmexit/` | `ExitHandler` | modelled |
| Launch and the packed stop value | `vmx/vmcs/launch.rs`, `vmx/instruction.rs` | `StopValue` | modelled |
| Guest program and its NMI handler | `vmx/guest.rs` (assembly) | `GuestProgram` | modelled |
| The guest on a machine of its own | same | `BareGuest` | abstract specification |
| Guest, handler and processor together | the above | `GuestRun` | modelled |
| Bring-up, VMX operation, teardown, `main` | `bring_up/`, `vmx/vmxon.rs`, `main.rs` | `BringUp` | modelled |
| Extended page tables | `vmx/ept.rs` | `EptMap` | modelled |
| VMX detection, capability MSRs, VMCS set-up | `vmx/mod.rs`, `vmx/msr.rs`, `vmx/vmcs/`, `vmx/guest_state.rs` | `VmcsSetup` | modelled |
| Host GDT and TSS, the guest's segments | `vmx/host_tables.rs`, `vmx/segment.rs`, `vmx/guest_state.rs` | `HostTables` | modelled |
| MSR and I/O bitmaps | `vmx/exit_bitmaps.rs`, `vmx/exit_decision/emulation.rs` | `ExitBitmaps` | modelled |
| Page-table walk | `vmx/paging.rs` | `PageWalk` | modelled |
| Guest pages and their mapping checks | `vmx/guest.rs` | `GuestMappings` | modelled |
| Serial port, `log!`, panic handler | `serial.rs`, `output.rs` | `Serial` | modelled |
| Reports | `bring_up/report.rs`, `vmx/vmexit/report.rs` | `BringUp`, `ExitHandler` | partly: their VM reads and phases |
| Page allocation, VMX regions | `vmx/page.rs`, `vmx/region.rs` | `BringUp`, `EptMap` | partly: as steps that may fail |
| `IN`/`OUT` wrappers | `port.rs` | none | single instructions |

How they fit together: `GuestRun` extends `ExitHandler` (which extends
`ExitDecision`) and `GuestProgram`, and puts the processor between them.
`BringUp` takes the guest's run as one step, `launch`; what it assumes about
the way the run ends is stated in `ExitHandler` as `StopTellsPhase` (a stop is
a failed VMLAUNCH exactly if the output phase is still boot services) and in
`GuestRun` as `OnlyGuestEndsRun`, both proved; that it ends is `RunEnds`, which
is checked. `ExitHandler` and
`GuestRun` keep the EPT entry as one flag, `ept_writable`; `EptMap` has the
tables behind it. Steps that `BringUp` takes as one that may fail have modules
of their own with what happens inside: `HostTables` (activating the tables),
`VmcsSetup` (from the support check to the launch, and the error number across
teardown), `GuestMappings` (which extends `PageWalk`) and `StopValue` (what
`launch` returns). `ExitBitmaps` extends `ExitDecision` and judges exits with
its `decide` branches. `Serial` is the path of every log line.

### Conventions

32-bit values are integers; a 64-bit MSR value is a pair `<<high, low>>`;
flag words are sets of flag names; an address is a page number, or in `EptMap`
and `PageWalk` a byte address in a scaled-down space. Names are the source's.
A definition ending in `_mutant` (and `injected_down`, `injected_uncounted`,
`vmcall_ungranted`, `check_data_permissions_smep`) is a plausible wrong version
of the definition after it; each property is known to fail when one of them takes its place.

## The modules

**ExitDecision.** `decide` and everything below it: the NMI, NMI-window, EPT
violation and VMCALL branches, the CPUID/MSR/port branches, and `plan`, which
says for each event how RIP, the entry event, the NMI window and the EPT entry
change.

**ExitHandler.** State: the statics (`state`, `exit_count`, the phase), the
VMCS parts the handler writes, the EPT entry, and the stop. One operator,
`vmexit_handler` (the action `VmExit`), is the handler's whole run at one exit:
the phase is set, the exit counted, the fields read, the decision stored, and
then the event carried out in the code's order. Which VMREADs fail, and which
VMWRITE or INVEPT does, is chosen per exit; a failure after the state was
stored stops the guest with the earlier writes in place, as in the code.
VMLAUNCH and VMRESUME may fall through.

**GuestProgram, BareGuest, GuestRun.** `GuestProgram` has one step per guest
instruction that matters; its machine has a UART with or without a scratch
register. `BareGuest` is the promise: the guest on a machine
of its own, with the hypervisor's CPUID answer, where an NMI simply runs the
handler when NMIs are not blocked. `GuestRun` adds the processor under
VT-x: virtual-NMI blocking, NMI-window exits, event injection at entry,
EPT violations from a cached translation, and VM-entry checks. These
processor rules are external to the repository and taken from how the code
uses them. An EPT violation also makes the processor drop the translation
that caused it; the model does not rely on that, so INVEPT alone has to do.
`faulted` is a history variable: a failing access, and not the guest, ended
the run.

**BringUp.** The CPU state that belongs to the firmware (GDTR, IDTR, IF,
CR0/CR4, VMX operation, the current VMCS), the output phase and the results.
CR0 and CR4 are sets of bits: VMXE, a bit VMX operation requires, one it
forbids and one it leaves free. `enter_vmx_root_operation` keeps the two
registers (`original_cr`), sets VMXE and the fixed bits, and puts back what it
kept if VMXON fails, as `leave` does after VMXOFF; `firmware_cr` is a history
variable, what they were before. Every fallible step may fail. `log_line` models that a console call may turn
interrupts on (the firmware's RestoreTPL), which is why the phase matters.

**EptMap.** Tables in memory, the checked arithmetic of the memory map's end,
the identity map with its one split 2 MiB entry, the published page, the grant
with a possibly failing INVEPT, and a processor that walks and caches.

**PageWalk, GuestMappings.** `walk` is one step per level over a table whose
rows are arbitrary: a row is chosen when it is first read and kept, so tables
may point at themselves or be shared. The reference, `CpuTranslation`, collects
the entries the processor would read and states the translation and the
permissions over them as a whole. `GuestMappings` puts the four guest pages on
top: four walks in the code's order, then the identity and permission checks,
and compares the outcome with what a ring-0 guest may do under SMEP, SMAP and
CR0.WP. `RefusedPageUnusable` says both that the page named in an error cannot
be used and that everything checked before it holds in the tables.

**VmcsSetup.** Control bits are sets. A processor is its capability MSRs, some
of which may be missing; an RDMSR of a missing one is recorded. Every field
write is a step, with VMWRITE, VMREAD or the comparison failing; a field holds
the kind of value written to it, `"stale"` before. The fields the processor
consults are listed from the architecture (`AlwaysConsulted`, `SwitchedFields`,
`Counted`, `CrFields`), apart from what the code writes, so that
`LaunchFullyWritten` would notice a field no step writes. The CR0 and CR4 masks
and read shadows are such fields: they stay stale, which is harmless only because
no instruction of this guest (`GuestInstructions`) looks at CR0 or CR4. UEFI
calls made by log lines may change GDTR, TR or IDTR. `vmresume_failed` reads
the error number of a failed VMRESUME in order to print it; should that VMREAD
fail, it leaves its own number in the field that `launch` then reads, and
`ErrorNumberOwn` names this one exception.

**HostTables.** A GDT of eight-byte slots with any length in bytes. A
descriptor keeps its kind, its half of the base and the accessed bit. The
firmware's selectors and IDT gates are inputs. `activate` may be called again,
which its contract forbids and its verifier refuses. A stale DS or ES selector
past the firmware's GDT may land on the appended TSS descriptor: `activate`
checks only CS and SS, and `from_current` copies what it finds. VM entry would
refuse that guest, so `GuestSegmentsEnterable` speaks of a DS only if it names a
descriptor inside the firmware's limit (`Own`). ES is treated like DS.

**ExitBitmaps.** The bitmap pages as sets of (byte, bit), the processor's
lookups written from its own rule (bit number in a 1 KiB quarter, or in the
port space), and the guest's RDMSR and WRMSR run once directly and once through
exit, decision and emulation.

**StopValue.** The 64-bit stop value as a number with the widths of its parts
as constants, from RFLAGS or the handler's result to `decode`.

**Serial.** A 16550 (FIFOs, DLAB, loopback), an absent port that reads 0xFF, or
another device; a sender on the line; firmware that polls the port from its
timer in boot services. `init`, `write_byte`, `write_str`, the log and the panic
handler are steps as small as one port access: `init` reads the line status and
then the data, and the firmware may take the byte in between. What a 16550
returns from an empty queue is then a byte it held before, or 0. A panic may start at any line,
in the console call of another panic too.

## What is checked

| Run | Properties | Shows |
|---|---|---|
| `handler_faults` | `WindowTracksPending`, `GrantMatchesEntry`, `StopTellsPhase`, `GrantOnlyBeforeVmcall` | any kind of exit with any one access failing: statics, VMCS and EPT entry agree whenever the guest can run |
| `handler_plan` | `FinishedIffPlanDone` | success is reported exactly when the whole plan happened |
| `guest_run` | `RunTypeOK`, `OnlyGuestEndsRun`, `FinishedClean`, `NmiHandlerAlone`, `NmiAccounting`, `RunsLikeBare`, `RunEnds` | NMIs at any instruction neither stop the guest early nor leave a trace; with failing accesses too, `GuestRun` implements `BareGuest`; the guest's own check of the port works |
| `bring_up` | `FirmwareStateRestored`, `InterruptsOffInExitPhase`, `VmxeTracksVmx`, `VmxInstructionsLegal`, `FirstErrorReturned`, `ReturnsToFirmware` | every combination of failures gives the machine back |
| `ept` | `MapCoversMemory`, `IdentityMap`, `NoStaleTranslation`, `OnlyGrantChanges` | memory maps around every boundary, caching, failing INVEPT, second build |
| `guest_mappings` | `WalkMatchesCpu`, `AcceptedPagesUsable`, `RefusedPageUnusable` | `walk` against the processor's translation; the mapping checks accept usable pages only, and an error is about the first page of the first check that fails |
| `vmcs_setup` | `MsrsExist`, `ControlsLegal`, `LaunchFullyWritten`, `LaunchDescribesActivatedTables`, `ErrorNumberOwn` | what VMLAUNCH meets is complete and legal, and about the activated tables unless two changes cancel out; errors keep their numbers |
| `host_tables` | `ActiveTablesServe`, `GuestSegmentsEnterable`, `RefusalTouchesNothing` | accepted tables serve, the guest's segments are enterable, refused tables leave the CPU alone |
| `exit_bitmaps` | `ExitsExact`, `MsrsTransparent` | exactly the intercepted accesses exit, and in the bitmap's ranges emulation is invisible |
| `stop_value` | `StopTellsCause` | what is decoded is what stopped the guest |
| `serial` | `InitTellsUart`, `WireInOrder`, `PanicReportedOnce`, `SerialNeverHangs` | the UART is found only where it is, bytes keep their order, nothing hangs or recurses |
| `bring_up_gdtr` | `GdtrAlwaysPutBack` | ends in a counterexample |

`bring_up_gdtr` states what `bring_up/mod.rs:124-125` says, "Once the host
tables are active, every return path puts the firmware's GDTR back." A
verification that fails after LGDT (`vmx/host_tables.rs:285`) returns with the
copy loaded, which `activate`'s own comment, line 239, does say.

Three more comments say something else than the code beside them. None of them
matters to the hypervisor, and no run is about them:

- `vmx/guest.rs:181-182`, "EBX says whether an NMI was handled": one handled
  before `xor ebx, ebx` (line 155) is forgotten. The hypervisor counts NMIs
  itself and never reads EBX.
- `bring_up/mod.rs:63`, "VM exits handled, all of them the planned VMCALLs.":
  the count includes the emulated exits, the EPT violation and the NMI exits.
- `bring_up/report.rs:138`, "Still in the exit phase, so serial only.": after a
  failed VMLAUNCH no exit has set that phase.

### Bounds

- `MaxExits` = 5 with every kind of exit: a deferred NMI, its window, a grant,
  a VMCALL and a failure fit. = 13 with planned exits: the plan needs 12.
- `MaxNmis` = 3: one in the handler, one pending, one more to replace it.
- `guest_run` starts with the port holding another byte than the guest's test
  byte, or that very byte; the MSR holds a kernel address.
- `WaitIterations` = 2: the guest's wait loop taken and left.
- `ENTRIES` = 2, `PAGE_SIZE` = 2, `U64` = 32: four levels, two page
  directories and room above the map's limit for the overflow cases.
- `MaxBuilds` = 2: the second build is the refused one. `MaxCached` = 2: the
  protected page and another.
- `guest_mappings`: 2 rows per table and 2 bytes per page, so that the sizes of
  the levels differ; rows point to aligned and misaligned frames, to shared
  tables, and back to the PML4.
- `vmcs_setup`: one processor per control it lacks, requires or reports
  inconsistently; two error numbers, the failing instruction's and a later one;
  `MaxChanges` = 2, so that one change can undo another.
- `host_tables`: a page of 64 bytes, GDT lengths around every slot and page
  boundary; `MaxCalls` = 2 for the forbidden second call.
- `exit_bitmaps`: real MSR and port numbers at the edges of each range.
- `stop_value`: 4 exit numbers, so 9 exits wrap twice.
- `serial`: `SPIN_LIMIT` = 2, `FIFO_SIZE` = 2, two log lines.
- No symmetry is used. Deadlock is not checked where the modelled part really
  stops: `EptMap` after a failed support check or the last build, and the runs
  of a procedure that returns (`guest_mappings`, `vmcs_setup`,
  `host_tables`, `stop_value`) or ends bring-up (`exit_bitmaps` after a failed
  allocation).

### Fairness

`FairRunSpec` asks that the processor keeps executing (`WF_vars(Run)`); no
fairness makes an NMI arrive, and only finitely many do (an endless storm would
starve the guest). `BringUp`'s `Spec` asks that a started step is finished and
that an armed timer whose interrupt can be delivered is delivered. `Serial`
asks that the CPU keeps executing the driver (`WF_vars(Driver)`), and nothing
of the UART, the line or the firmware, which may stay silent for ever.

## What is proved

TLAPS checks the proofs in the eight modules named `...Proofs`. Every safety
property the runs check is proved there for all values of the constants that
their assumptions allow; the runs
remain what shows that the models reach the interesting cases. Where a
property is not inductive alone, the invariant that makes it so is named below.

| Module | Proves about | Inductive invariants |
|---|---|---|
| `HandlerAndGuestProofs` | `ExitHandler`, and lemmas on `GuestProgram` | `IInv` |
| `GuestRunProofs` | `GuestRun`, and that it implements `BareGuest` | `RunInv` |
| `GuestEndProofs` | how `GuestRun` ends | `EndInv`, beside `RunInv` |
| `BringUpProofs` | `BringUp`; `PageWalk` and `GuestMappings` | `BInv`; `GInv` |
| `EptProofs` | `EptMap` | `EptInv` |
| `CpuStructuresProofs` | `HostTables`, `ExitBitmaps`, `StopValue` | `HInv`, `BitmapInv`, `StopInv` |
| `VmcsSetupProofs` | `VmcsSetup` | `VInv` |
| `SerialProofs` | `Serial` | `SInv` |

**The exit handler** (`HandlerAndGuestProofs`), for any set of exits, any sets
of failing accesses and any number of exits. `DecideOutcome` lists the answers
`decide` can give and what each does to the state, and `HandlerEffect` what one
exit does to everything else whichever access fails. `GrantOnlyBeforeVmcall`
needs that a handled main VMCALL implies the grant, and `FinishedIffPlanDone`
that the guest runs only before the plan's end, so `IInv` adds `Progress`;
`StopTellsPhase` needs that the phase tells whether an exit has come, so it adds
`PhaseTellsExits`. Theorems: `HandlerTypes`, `WindowFollowsPending`,
`GrantFollowsEntry`, `FinishedMeansPlan`, `CountersBounded`, `StopInterface`,
`GrantOrder`.

**The guest's run** (`GuestRunProofs`), for every number of NMIs, every wait
count, every processor's CPUID answer, every MSR value and port byte, and
whatever VMCS access, INVEPT or VM entry fails. `RunInv` joins the handler's
`IInv` with three facts about the guest. `MainOK` says what the main program has
done to the MSR, the port and the data page at each label (`AtPc`), and that it
is where its checks of the port let it be (`OnPlan`); both are read off the
interrupted label while the NMI handler runs, so that an NMI anywhere does not
matter. Without it `FinishedClean` is not inductive. `FrameOK` says what the
NMI handler has on the stack, and with `vnmi <=> machine.rip \in InNmiHandler`
it is why the handler cannot nest. `EntryOK` says that nothing is queued while
the guest runs and that a queued NMI meets an unblocked guest. `MainStep`,
`HandlerStep` and `EmulatedStep` (in `HandlerAndGuestProofs`) carry `MainOK` and
`FrameOK` through the program; `ExitEffect` says what any exit does to the
guest, and `ExitsMatch` that the handler's answer fits the instruction the guest
is at. Theorems: `RunTypes`, `NmisAccounted`, `NmiHandlerNeverNests`,
`RunFinishesClean`.

**Its refinement** (`GuestRunProofs`). Under the same assumptions `GuestRun`
implements `BareGuest`. An NMI waits on the bare machine while it is latched,
deferred or queued (`Waiting`). Under `RunInv`, each exit is one instruction of
the bare machine, a halt, two waiting NMIs becoming one, or invisible
(`ExitRefines`), and each entry is an NMI's delivery or invisible
(`OtherRefine`). Theorem: `RunRefinesBare`.

**Its end** (`GuestEndProofs`). `OnlyGuestEndsRun` is about the last exit, but
whether `decide` stops there depends on every exit before: it accepts a main
VMCALL only with the planned counts. `EndInv` therefore ties the handler's
counts to the guest's labels (`CountedAt`), and says that the cached
translation of the data page is what its EPT entry says (`TranslationFresh`), so
that the guest does not fault again after the grant. From the two, no answer
stops the guest but at its own UD2 (`ExitsOnSchedule`), which it reaches only if
the port did not keep its byte. Theorems: `RunEndInvariant`, `RunEndsByGuest`.

**Bring-up** (`BringUpProofs`). `BringUp` has no constants, so the proof adds to
the run an argument a reader can follow. `BInv` says at which step which table
is loaded (`Tables`), where VMX operation can be on and what CR0 and CR4 then
hold (`VmxOperation`), which phases and flags go with which steps (`Interrupts`), and how the results relate
to the failures so far (`Results`). Theorems: `FirmwareRestored`,
`InterruptsStayOff`, `VmxeInVmxOnly`, `InstructionsLegal`, `FirstErrorWins`,
`BringUpTypes`.

**Page walk and mapping checks** (`BringUpProofs`), for every table and page
size, every CR3 and any contents of the tables. `walk` keeps running
permissions; the processor's are stated over the whole path. `WalkInv` says that
at each level the first are the second over the part of the path read so far,
and at the end that the walk stopped where the processor does. A later walk may
read more rows of a shared table, but it changes none, so `WalkedInv` can say
the same of the pages walked before (`PathKept`). `ResultInv` says that a result
is right about them, and which pages had passed before an error. An accepted page needs one more step: the code walks only
its first address, and `SamePage` and `WholePage` show that the other bytes of a page take
the same entries. Theorems: `WalkIsCpus`, `AcceptedAreUsable`,
`RefusedAreUnusable`.

**Extended page tables** (`EptProofs`), for every table size, page size, memory
map and number of builds. None of the properties of `EptMap` is inductive: what
the walk finds is a matter of every table on the way. `EptInv` therefore
describes the live tables entry by entry (`Layout`), next to the shape of
memory, the published entry, and that all cached translations carry the live
EPTP. From it, `WalkIsIdentity` computes the walk, using the arithmetic of the
indexes (`DivMod` to `PageInRegion`) for the split 2 MiB region. A build writes
its tables above everything allocated before (`Fresh`, `TablesWritten`), so a
second one cannot disturb the first; the grant changes one entry and its INVEPT
empties the cache of exactly the translations that could be stale (`GrantStep`).
`RoundUp` and `MapEnd` show the map's end to be the memory's end rounded up.
Theorems: `EptIdentity`, `EptCovers`, `EptNoStale`, `EptOnlyGrant`.

**Exit bitmaps** (`CpuStructuresProofs`), for every set of MSRs, ports and
values. Two different MSRs, accesses or ports never share a bit (`PlacesApart`),
and `msr_bit` and `io_bit` agree with the processor's lookups; `BitmapInv` says
the pages named in the VMCS are the filled ones. Theorems: `BitmapsExact`,
`BitmapsTransparent`.

**Stop value** (`CpuStructuresProofs`), for every width, the real ones (2^30 exit
numbers, 2^32 raw reasons) included. `StopInv` relates the value in RAX to the
cause at each point; the arithmetic lemmas show that kind, number and reason can
be taken apart again. Theorem: `StopTold`.

**Host tables** (`CpuStructuresProofs`), for every GDT, selectors, gates, page
size and TSS address. `HInv` follows the copy through its stages: an exact copy
of the firmware's slots, then the same with the TSS descriptor after them, then
loaded into GDTR and TR with the TSS busy and the selectors in use covered.
`LoadedAssumption` is a fact about the processor: SS can only have been loaded
from a data descriptor, DS from a code or data descriptor.
Theorems: `TablesServe`, `SegmentsEnterable`, and the action property
`RefusalsTouchNothing`.

**VMCS set-up** (`VmcsSetupProofs`), for every processor whose control MSRs
exist as VT-x promises (`MsrsAssumption`) and which requires no VPID
(`VpidAssumption`), any steps failing and any number of table changes. `VInv` says of
every step what all steps before it have written (`WrittenBefore`), of a step
under way which of its fields are left, and where the controls come from
(`ControlsRead`, `ControlsChosen`); `ErrorKept` follows the instruction error
number from the failing instruction across teardown. Theorems: `ReadsExist`,
`ErrorIsOwn`, `LaunchWritten`, `LaunchLegal` and `LaunchTables`. The property of
the last is about launches with at most one change so far: one that a second
undoes after the host fields were written is invisible to
`check_host_tables_preserved`, and without the condition it is false of the code.

**Serial output** (`SerialProofs`), for every `SPIN_LIMIT`, queue size and
number of lines. `SInv` says how far `init` has brought the UART's registers
(`Prepared`) and where the probe byte is (`UartInv`), that what has left the
UART and what is queued are together what was sent (`WireInv`), which part of a
line the last bytes sent are (`TextInv`), and where a panic's line has been
(`PanicInv`). Theorems: `InitVerdict`, `WireOrder`, `OnePanic`.

The constants' assumptions are named where the constants are declared
(`ExitsAssumption`, `FaultsAssumption`, `WaitAssumption`, `CpuidAssumption`,
`GuestAssumption`, `SizesAssumption`, `InputsAssumption`, `WidthsAssumption`,
`InterceptedAssumption`, `PagingAssumption`, `LayoutsAssumption`,
`FirmwareAssumption`, `TssAssumption`, `LoadedAssumption`, `CpusAssumption`,
`MsrsAssumption`, `VpidAssumption`, `OutputAssumption`); TLC evaluates each of them on the run of
its module. Most only give types and sizes. The others state facts of the
hardware or the code: the three named above, that guest pages are page-aligned
(`LayoutsAssumption`), that RFLAGS is not 0 (`WidthsAssumption`), that the
intercepted MSRs exist (`GuestAssumption` of `ExitBitmaps`), and the source's own
compile-time assertion about them (`InterceptedAssumption`).

Only model-checked: liveness (`RunEnds`, `ReturnsToFirmware`,
`SerialNeverHangs`), since the prover has no rules for fairness. So there is no
proof for every number of NMIs that the guest's run ends, only that it can end
in no other way than its own.

## What is not modelled

- Wording and layout of log lines, and the reports that only print.
- The numbers in the VMCS's host and guest areas: which kind of value is where
  is modelled, and the segments in `HostTables`; access-right bits other than
  kind and accessed are not.
- The assembly stubs' saving of registers, and `port.rs`, whose functions are
  single instructions.
- The single bits of CR0 and CR4: `BringUp` keeps one of each class.
- A stale DS or ES past the firmware's limit: `HostTables` reaches the case, the
  code does not check it, and no property says that the guest can be entered
  then.
- `AlreadyInstalled` and the second `TooLarge` of `append_tss_descriptor`, which
  no caller can reach; a second call of `serial::init`, which `main` does not
  make.
- Firmware beyond its console, allocator, memory map, timer and a poll of COM1:
  in particular a firmware that mirrors its console to COM1.
- For two table changes by UEFI calls that cancel out before
  `check_host_tables_preserved` nothing is claimed: `VmcsSetup` makes them, and
  the code has no way to see them. Nor is it claimed that the CPU's tables at
  the launch are still those in the VMCS: a log line after the check
  (`bring_up/mod.rs:340`) may change them.
- More than one CPU, which the code does not use.
