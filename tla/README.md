# Verification of beastie

beastie boots FreeBSD from a running Linux. It reads a FreeBSD kernel and a console
font, generates a small boot program, lays everything out in physical memory,
hands it to Linux with `kexec_load(2)` and asks Linux to reboot into it. This
directory holds TLA+ modules that model it, the TLC configurations that check them,
and TLAPS proofs about them. Paths below are relative to the repository's `src/`
directory unless they name a module.

## Inventory

| Part | State it keeps | Operations | What makes it correct |
|---|---|---|---|
| `main.cxx`, options | `Options`, getopt's own position, loop counters | one `case` per option, the search for the root | a run goes ahead with what was asked, or not at all |
| `main.cxx`, the run | the `Bootloader` on its stack, exceptions | constructor, setters, `fontLoad`, `fileLoad`, `boot`, destructor, in this order | nothing is rebooted into that is not completely staged; failures show in the exit status |
| `Bootloader` | six blocks (kernel, symbols, environment, metadata, boot program, font), an address for each, the segment array | as above, and `elfLoad*`, `writeMetadata`, `prepareSegments`, `load`, `unload` | segments acceptable to the host, pointers that lead to the right block, all of it below `kernend` |
| `Bootloader::elfLoadExec`, copying | kernel and symbol blocks | `PT_LOAD` copies, symbol and string table | the image in memory is the one the program headers describe |
| `Bootloader::fontLoad` | font block | conversion of a `.fnt` file | sizes from the header agree with the bytes copied |
| `CMetaWriter`, `CEnvironmentWriter`, `CSymbolsWriter` | a growing buffer each | append a record, a string, a table | a reader finds each record, and the end |
| `BootAssembler`, generated program | GDT, page tables and stack in its own block; registers | segments, two mappings, `cr3`, jump | never faults, both mappings complete, arguments delivered |
| `BootAssembler`, generating | asmjit's code holder | `createLayout`, `assembleText`, `assembleData`, `data` | fits the block, labels where the program expects them |
| `CVmwaregfx`, `CI915gfx` | ports of the adapter found on the PCI bus | scan, reads of two registers, a program of port writes | the mode set is the one FreeBSD is told of |
| `misc.cxx`, host queries | none | firmware, framebuffer, memory map, ACPI pointer | FreeBSD is told the truth about the machine |
| `misc.cxx`, files | a stream | `zslurp`, `slurp` | what is returned is the file, or what it unpacks to |
| `misc.cxx`, shutdown | none | `shutdown`, `forcedshutdown` | the machine gets to the staged image, or the caller hears of it |

How they interact: `main` calls the `Bootloader` in a straight line; exceptions leave
that line for the destructor, failed asserts end the process on the spot. The
`Bootloader` calls the writers and the `BootAssembler`. What the parts share across
time is addresses: `elfLoadExec` decides them, the metadata and the boot program
carry them, `prepareSegments` uses them again later. Outside the process there are
the host's two kexec slots (one for reboots, one for panics), `init`, which finishes
a shutdown, and other root processes. After the reboot the generated program runs,
alone, and ends by jumping to FreeBSD.

What is hard: sizes read twice with the layout fixed in between; an order of calls
that the class does not enforce; failures at every system call, some of them
ignored, some of them inside a destructor; other users of the host's kexec slots;
rounding at page boundaries; writers and readers that pad by different lengths; an
adapter whose two ports Linux's driver uses at the same time; a program that
replaces its own page tables and stores through counters across several tables.

## Modules

**`Alignment`**: `roundup` of `misc.hxx`, which adds a byte even to a multiple.

**`CommandLine`**: `main()` up to the check of the user id. An argument vector is a
sequence of groups of options, `--`, and operands (a word, an empty one, `-`). Each
`case` is an action, guarded by `getopt_long` returning its letter. getopt itself is
modelled from how it is used: it permutes operands behind the options, or stops at
the first when `POSIXLY_CORRECT` is set. The permutation keeps the operands' order,
and option arguments start with a dash and are skipped by the root loop, so the
search over the original vector finds what the search over the permuted one finds.

**`Bootloader`**: one run after the options. `pc` names the statement of `main` that
comes next; each public operation is one action with all it does:

| Action | Code |
|---|---|
| `geteuid` | `main.cxx:131-135` |
| `Construct` | constructor, `bootloader.cxx:23-51`; the host queries succeed, throw or fail an assert |
| `setHowto`, `setForce` | `bootloader.cxx:63-71` |
| `fontLoad` | `bootloader.cxx:135-206` with its exception and its final assert |
| `fileLoad` | `elfLoad` and what it calls, `bootloader.cxx:79-331`: rejected, relocatable (`elfLoadRel`) or executable (`elfLoadExec` with `Layout`, `writeMetadata`, `assemble`) |
| `load` | `prepareSegments` and the system call, `bootloader.cxx:341-357,382-433` |
| `pretend` | `main.cxx:146` |
| `shutdown`, `forcedshutdown` | `misc.cxx:128-147` |
| `unload` | `~Bootloader`, `bootloader.cxx:53-56,333-339` |
| `initReboot`, `otherKexec` | the host: init completes a shutdown, another process uses kexec |

`m_size` and `m_phys` map each block to the size of its buffer and its address member.
A block's content is left out, except for the addresses and numbers the metadata
(`m_meta`) and the boot program (`m_boot`) carry: FreeBSD follows those.
`m_phys["font"]` starts with any value of `StaleAddrs`, because the constructor
does not initialise `m_fontphys`. `kexec` and `crash` are the host's two slots;
`lost` remembers that another process took this run's image away, and is read by properties only.
`kexec_load` checks what Linux documents (alignment, sizes, overlap) and may also
refuse for reasons of its own. Asserts are taken as active: the documented build
sets no build type, so `NDEBUG` is not defined.

**`BootContract`**: what a run promises its caller in five variables and five
actions. One of them, `Lose`, is not the run's: somebody else takes the staged image away,
which the run does not notice. **`BootloaderContract`** maps the detailed run to it: an image
counts as staged when it is complete, reachable and below `kernend`.

**`BootTrampoline`**: the program of `assembleText` with the data of `assembleData`, run
on a machine with a GDT register, selectors, `cr3`, a stack, two counters and the
memory of its own 16 pages. An action is a run of straight-line instructions or one
turn of a loop (`lp_pd0`, `lp_pd1`). Memory is counted in pages of
`8 * EntriesPerTable` bytes and frames of `EntriesPerTable` pages, so that the
relation of page, table and large page is that of the processor for any table
length. Where an instruction would fault its guard is false and nothing follows: the
program has no handlers. `MapsTo` is the processor's walk of the tables.

**`ModuleMetadata`**: `writeMetadata` as a sequence of calls of `CMetaWriter`, and
the walk of FreeBSD's `preload_search_info` over the result. The buffer is a sequence
of bytes, each told apart by the value it belongs to and its number in it. `clear`,
`add` (all of `addName` .. `addMetadata`, through `str`, `var` or `span`) and `addEnd` are
the writer's actions. `Programs` holds the sequences of calls; `starts` remembers where
each record begins and is read by properties only.

**`Handoff`**: `Bootloader` and an instance of `BootTrampoline`, composed. Once the
machine has left Linux for this run's image and the boot program is where the entry
points, the program runs, with what the staged image was assembled with in place of the
constants the trampoline alone has. Its kernels' entries are offsets from `KERNBASE`.

**`KernelImage`**: `elfLoadExec`'s copies. A byte of memory is a zero, the byte of the file it
was copied from, or a byte of a long that was written. `loadSegment` is one turn of
the loop over program headers, `symtab` and `strtab` are the loops over sections up to
their `break`, with `CSymbolsWriter` under them. `parse_symbols` is the walk of
FreeBSD's `link_elf_preload_parse_symbols` over the block.

**`Environment`**: `CEnvironmentWriter`, characters being numbers with 0 the terminator; then
FreeBSD takes the buffer over and `kernenv_next` reads string after string.

**`FontBlock`**: `fontLoad`. A byte of the file is its offset in it; `readMap` is one turn of the
inner loop; the index and the products have 32 bits, `% Word`. `header`, `glyphs` and `readMap`
may read beyond the end of the file, which yields other memory or the outcome `crashed`; so does
an array of glyphs for which the stack, `Stack`, is too small. What FreeBSD makes of the block is `Accepted`, `vf_bytes` and `Number`.

**`ReadFile`**: `zslurp` and, through it, `slurp`. The two bytes the decision rests on are extracted
one by one, from a stream that skips white space and leaves its operand alone after
a failure.

**`HostQueries`**: the constructor's queries in the order of the members, over a host whose
files may be missing, whose map is any and whose `/dev/mem` may be closed or refuse;
then the environment and the map are written and `Told` is the memory FreeBSD takes from them.

**`Blocks`** puts these five side by side: `main` runs them one after the other and none
reads what another wrote, so a behaviour is that of one of them.

**`Framebuffer`**: the framebuffer's description from `fetchFB` over `setDefaultResolution` to
the metadata, and for a framebuffer called `vmwgfxdrmfb` the scan of the PCI bus, the two
register reads under Linux if it found an SVGA-II, and the port program of `assembleReset`,
which is embedded whatever the scan found. Linux's driver selects and writes registers in
between (`driverSelects`, `driverWrites`): it has the same pair of ports. After the reboot
Linux is gone and the port program runs undisturbed. There need not be an adapter behind the
name: the driver calls itself the same on an SVGA-III, which has no ports. Then `m_iostart`
is 0 and what is written is `stray`. `AdapterAssumption` states the one thing taken on trust
about the machine: no more than one of its devices is an SVGA-II. Linux's two sources for the
framebuffer's address, `smem_start` of its driver and `lfb_base` of the boot parameters, may
differ; the register FB_START is read, but nothing uses it.

Readers (FreeBSD's walks), the adapter, getopt, the host's kexec and the processor are no
code of this repository. They are modelled from how the code uses them, and marked external.

The MC modules only give the constants their values.

## Runs

| Run | Question | Instance |
|---|---|---|
| `MCBootloader` | do all runs on proper and broken files, while another process uses kexec, stage complete images below `kernend`, report failures and keep the contract? | 10 kernels, 4 fonts, 2 environments, 2 metadata sizes, all options; 43712 states |
| `MCHandoff` | does a machine that leaves Linux for what was staged get to the kernel, and is everything mapped and found, while another process uses kexec; are only acceptable layouts staged, is `--pretend` harmless, does every run end? | 5 files (a kernel within a large page, one over several, one into the second high table, two without a kernel in them), tables of 32 entries; 8788 states |
| `MCCommandLine` | do the options of any line arrive, is the root the last word, is there always a decision? | all lines of up to 3 arguments from 11, two names, both getopt modes; 35074 states |
| `MCBootTrampoline` | does the generated program map what it must, write nothing else, never fault? | tables of 32 entries, 12 handoffs; 4800 states |
| `MCModuleMetadata` | does FreeBSD find every record that was written, and the end? | `writeMetadata` with 3 sizes of SMAP and the whole EFI map, pairs of records with 0 to 8 bytes of data; 256 states |
| `MCBlocks` | are the blocks filled with what FreeBSD reads out of them, do file and buffer agree, and is FreeBSD told of the memory and the root pointer the host has? | images of two segments with gaps and bss, tables of 0 to 8 bytes, up to 3 strings from 5, fonts of 0 to 3 glyphs and of 40, an index of 72 values, a stack for 11 bytes of glyphs, font files of any length near the proper one and of its remainder; files of up to 5 bytes; memory maps of up to 4 entries with zeroes or old entries behind them, hosts on which something is missing; 135442 states |
| `MCFramebuffer` | is the mode set the one FreeBSD was told of, through the adapter's ports, and is no other port written while Linux runs? | up to 3 devices, with an SVGA-II and without, addresses on both sides of the halves, the driver at any moment; 558580 states |
| `MCUnloadReleases` | does `unload()` do what `bootloader.hxx:53` says? (no) | as `MCBootloader`, fewer files, nobody else using kexec |
| `MCBootModule` | does `boot()` boot what `fileLoad` accepted? (no) | the same, with files without a kernel |
| `MCPositional0` | is the root positional argument 0, `main.cxx:119`? (no) | lines of two arguments |
| `MCNoAdapter` | are only an adapter's ports ever written? (no) | as `MCFramebuffer` |
| `MCSymbolNames` | do the symbols come with their names? (no) | kernels with `.dynstr` first |

Why the bounds are enough. In `Bootloader` control never loops except through the
environment, so the instance has to cover combinations of inputs only: sizes lie
on both sides of a page boundary and on it, where `roundup` behaves differently, and
the addresses are the real ones. Block sizes are otherwise arbitrary in the proofs.
For command lines, three arguments suffice for an option before, between and after
words and `--`; one more letter or argument repeats a step already taken. A table of
32 entries lets the 16 pages of the block end inside the second frame's boundary as
the real one does, and both loops cross from table to table; the proofs cover every
length of at least 6. The records of the metadata have data of every length modulo the
alignment, with and without terminator; three entries of 20 bytes suffice for
a map that ends aligned and one that does not.

Symbols behave by the length of each table modulo a long, so lengths 0 to 8 with longs of
4 bytes cover every case twice; the segments include an empty one, a gap, a bss and a
header that is not loaded. Strings of one to three characters make each addition overwrite the
terminators of the one before. Fonts cover widths of a byte, below and above, with tables
that are empty at either end or all of them; a file may be as long as its header says, a little
shorter or longer, far too short, or as long as an index that wrapped takes for right, with the proper length
and the product of glyphs and bytes on either side of what the index holds, and the glyphs on either
side of what the stack holds. Five bytes hold a gzip file within a gzip file behind white
space. For memory maps a region below a page, of whole pages and in between are told
apart; entries are independent of one another. Adapters: none, alone, before or behind
others of the vendor and of the kind, and the name of the framebuffer with no adapter behind it. In `MCHandoff` a kernel reaches into the second high table, so that
block sizes cross each boundary the boot program's tables have.

## Properties

Safety of a run: `LayoutAcceptable` (the layout fixed by `fileLoad` still fits the sizes
`boot` reads), `HandoffReachable` (every pointer FreeBSD will follow leads to the
block it names), `HandoffBelowKernend`, `HowtoDelivered`, `PretendStaysPut`,
`CleanRebootFailureReported` (only a forced reboot may fail and exit 0),
`RebootsStagedImage` (unless the image was taken away), `ContractMet`. `HandoffReachable` and the two after it speak of executable kernels
with something to load; for other files see the findings. Liveness:
`EventuallySettled`, every run ends and a shutdown completes.

Command line: `OptionsAsGiven`, `NoRunWhenUnclear`, `RootIsLastWord`, `EventuallyDecided`.

Composition: `KernelFindsEverything`, `StagedIsMapped`, and `KernelEntered`: a machine that leaves
Linux for a staged kernel gets there.

Contents: `ImageAsDescribed`, `SymbolsFound`, `StringsRead`, `FontAsGiven`, `LoadedIfWhole`,
`ContentDelivered`. Each relates what a writer left to what a reader finds, or a file to a
buffer. `FontAsGiven`, and of `LoadedIfWhole` the "exactly when", speak of fonts that fit the index and
the stack (`Fits`); of the others, `LoadedIfWhole` says that none of 2^32 bytes or more is loaded. A reader that is lost is a deadlock, which TLC reports.

Host: `MemoryTold`, `RootPointerTold`; `ModeAsTold`, `StrayOnlyIfAbsent`, `ModeSetWhileDisabled`.

Boot program: `LowIdentity`, `HighLinear`, `OnlyTablesWritten`, `ArgumentsDelivered`,
`NextInstructionRuns`. That it gets to the kernel at all is `KernelEntered`, above.

Metadata: `RecordsIntact`, `ReaderOnRecord` (the writer's padding, by the length of its
buffer, and the reader's skip, by the size of a record, agree), `EndFound`,
`EventuallyRead`.

`OnlyTablesWritten` speaks of the pages of the block, which is all the memory the
program's stores can be shown to address; its stack is a variable of its own.

Fairness. `Bootloader`: weak fairness of the process (`Main`), as a runnable process of
a live system is scheduled and its system calls return; weak fairness of
`initReboot`, as init completes the shutdown it was asked for. Other users of kexec
get no fairness. `CommandLine`, `BootTrampoline` and `ModuleMetadata`: weak fairness
of the one sequential program. `Handoff` has the fairness of `Bootloader` and of
`BootTrampoline`. `Blocks` and `Framebuffer` state no liveness and no fairness.

## Findings

* **`unload()` unloads the wrong image.** It passes `KEXEC_FILE_UNLOAD`, a flag of
  `kexec_file_load`, to `kexec_load` (`bootloader.cxx:335`), where the value 1 means
  `KEXEC_ON_CRASH`. After a forced reboot that failed the run's image stays staged,
  and every run, also with `--pretend`, drops the crash image of the host
  (`UnloadReleasesOwnSegments`). The comment at `bootloader.hxx:53` says the instance's
  own segments are unloaded.
* **A relocatable file is booted.** `elfLoadRel` is a stub that returns normally
  (`bootloader.cxx:322-331`), and `boot()` goes ahead. `prepareSegments` counts the two blocks that are
  not empty, environment and font, but puts them under the indices 2 and 5, so `kexec_load` is given
  the empty segments 0 and 1: nothing is staged, and the reboot jumps to an address no
  segment covers (`BootsIntoNewSystem`).
* **The root is not positional argument 0.** The loop of `main.cxx:120` starts at the
  program's name and keeps the last word (`RootIsPositional0`). The branch that prints
  the usage when there is no root is only reached under a name that starts with a dash.
* **Symbols get the names of another table.** `elfLoadExec` takes the first string table of the file
  (`bootloader.cxx:288`), whatever table `.symtab` links to (`NamesOfSymbols`).

* **Ports are written that are no adapter's.** `BootAssembler` decides by the name of fb0 alone, and no
  one asks `isPresent()` (`bootassembler.cxx:50-55`). With VMware's framebuffer but no SVGA-II,
  `m_iostart` is still 0 and the boot program writes its mode to the ports 0 and 1 (`OnlyAdapterPorts`).
  Under Linux nothing is written, because `read` is only called after a match (`StrayOnlyIfAbsent`).

Met while modelling, without a run of their own:

* The loop over `systab` ends at the first line that is not `ACPI20=` (`misc.cxx:164`); the assert
  behind it then ends the process although the line may come later.
* `setDefaultResolution` changes what FreeBSD is told and sets no mode (`bootloader.cxx:75`); only a VMware
  adapter gets one, so any other framebuffer must have had 1024x768 already. `ModeAsTold` says so.
* The comment on the font format gives a glyph `width * height` bytes (`bootloader.cxx:106`); the
  code reads one bit for each pixel, as the format has it.
* A font's `index` has 32 bits (`bootloader.cxx:137`) and is compared with the length of the
  buffer: a proper file of 2^32 bytes or more is refused, and a file of the remainder's length, whose header
  describes one, is let through. The glyphs are first copied to an array on the stack, whose
  size the header decides.
* `CVmwaregfx::read` selects and reads in two accesses (`cvmwaregfx.cxx:66`) between which Linux's driver may
  select another register. What is read is used nowhere.
* `assembleReset` computes the bytes per line from the height (`cvmwaregfx.cxx:106`). The adapter has
  its own and the register cannot be written.

## Proofs

Every safety invariant and the one action property that the runs check are theorems, for
every value of the constants under named assumptions, which TLC evaluates on the instances:
`LayoutAssumption` and `InputAssumption` (`Bootloader`), `TableAssumption`, `BaseAssumption`,
`WordAssumption` and `HandoffAssumption` (`BootTrampoline`), `AlignAssumption` and
`ProgramsAssumption` (`ModuleMetadata`), `CommandLineAssumption`, `AdapterAssumption`
(`Framebuffer`), `PagesAgree` and `AddressSpace` (`Handoff`), and `BlocksAssumption`, which
names the assumptions of the five parts of `Blocks` (`FilesAssumption` of the fonts, `HostAssumption` of the
host among them, which say types only). Three of them say more than types:

* `AddressSpace`: what is staged with a kernel, its entry included, fits the 2 GiB above `KERNBASE`
  in which FreeBSD/amd64 is linked; these addresses have fewer bits than two pushed words. Of
  kernels that do not fit the code checks nothing, and the trampoline maps no more than that.
* `WellFormed` (in `K!ImageAssumption`): program headers are in ascending order with the hole
  in front, which is the comment at `bootloader.cxx:254`, and a segment's bytes in the file are
  no more than its bytes in memory, which ELF asks for.
* `AdapterAssumption`: a machine has one SVGA-II or none.

What each module proves, and along which argument:

* `AlignmentProofs`: the arithmetic of `roundup` and of padding: a padded size is a multiple that
  is no smaller, sums of multiples are multiples, quotient and remainder are unique.
  `LeastNatural`: a set of naturals that is not empty has a least element.
* `BootloaderProofs`: first `Typing`; then `Invariance` of `IInv`, and from it `LayoutAccepted`,
  `HandoffComplete`, `HandoffClear`, `HowtoKept`, `PretendHarmless`, `FailureReported`.
  The properties are not inductive: that the segments are acceptable when `load`
  runs depends on what `fileLoad` left behind. `IInv` adds `Progress`, which says for each
  statement of `main` which blocks have which sizes and addresses, `Unprepared`, that
  no segment is filled before `load`, and `Control`, that relates the exit, the options and the host.
  `LaidOutAligned` and `LaidOutDisjoint` show that the layout leaves the blocks
  aligned and apart, `AllStaged` that with no empty block the count and the indices
  agree, `ModuleAcceptable` that what a relocatable file leaves is acceptable because
  its count covers empty segments only. `OwnershipKept` says whose image is staged when: between
  `load` and the reboot it is the run's, or `lost`. Last `RebootsStaged`, and `ContractRefined`: every step of a
  run is a step of `BootContract` or a stutter, whoever else uses kexec, if kernel files are
  executable or rejected.
* `TrampolineProofs`: `Invariance` of the tables built so far at each point of the
  program (`Built`), by one lemma for each phase; `Place` and `PlaceUnique` show that
  a running counter reaches every entry of a row of tables exactly once. `Walk` follows
  the processor through the finished tables to `LowMapped` and `HighMapped`.
  `TrampolineTyped`, `StoresInTables`, `Delivered` and `NeverFaults` follow from the same invariant.
* `HandoffProofs`: `BothInvariant` of `HInv`, which has `Bootloader`'s `IInv`, the trampoline's `IInv`
  for what it was assembled with, and between them what a staged image of an executable kernel is.
  The trampoline's lemmas are used through `TP`, an instance of `TrampolineProofs` with the
  staged image in place of its constants. The page tables depend on none of these, so
  `EverythingFound` and `StagedMapped` take the mappings from `TP` and the segments from
  `HInv`, and `AddressSpace` puts every staged frame into the tables' range.
* `MetadataProofs`: `Invariance` of `IInv`: the records follow each other as the reader
  will expect (`Chain`), and the reader is on one of them or on the end (`Reading`).
  `PaddedLength` is the arithmetic both rest on, `RecordPushed` says what a call puts
  into the buffer, `HeldOn` that it stays there, `OneHeader` that no offset has two
  headers, so that the walk is determined. From it `MetadataTyped`, `Intact`,
  `ReaderFollows`, `EndReached`, for every alignment, every sequence of calls and every
  length of data.
* `CommandLineProofs`: `CommandLineInvariant` of `IInv`. The options set are those of `Scanned`, the
  letters before getopt's position in the groups it reaches; the root is the last word among the
  arguments its loop has looked at. Where the scan ends, `Scanned` is all letters that count. From
  it `CommandLineTyped`, `OptionsFollowed`, `UnclearStops`, `LastWordIsRoot`.
* `FramebufferProofs`: `FramebufferInvariant` of `IInv`. Until the reboot the driver may have left
  anything in the adapter; afterwards `Written(n)` says what the first n port writes have set, and the
  rest of the program is what is still to come. On a machine without an SVGA-II it says
  nothing of the adapter. That the ports are the right ones comes from the scan: what it passed
  is no SVGA-II, and there is no second one. `ModeTold`, `AdapterPortsFound`, and
  `DisabledWhileSet`, an action property.
* `BlocksProofs`: an invariant for each subject; `OthersStutter` lets each part be proved alone.
  * `HostInv`: what has been asked is known. `AllMemoryTold`, `PointerTold`.
  * `FileInv`: of a gzip file the two bytes extracted are the first two; a stream that has failed
    stands at its end, so that stale bytes that look like the magic lead to nothing. `WholeContent`.
  * `FontInv`: of every font, that no more is loaded than the index can count (`FontAlways`); of one that
    fits (`FontFits`), which `NothingCut` shows to keep index and products below 2^32, where each map of each table is, in the file and in the block, which have different
    orders: the place of a map is the sum of the tables before it plus its index. `Flattened`
    says what four sequences of maps put together hold at each place. `ProperFontLoaded`, `FontKept`.
  * `EnvInv`: there is a position behind each string and its terminator, one string begins where the
    one before ends, and two terminators end the buffer (`LaidOut`); a string holds none, so the
    reader stops at the next of these positions. `EveryStringRead`.
  * `ImageInv`: the block ends where the last loaded segment ends, the segments dealt with are
    in it with their bytes and their bss, and those to come begin at or behind its end. `KernelInMemory`.
  * `SymInv`: what the block of symbols consists of after each section. `Added` says what
    addSymTab and addStrTab append: the writer pads by the length of its buffer, the reader by that of a
    table, and both agree since every table begins aligned (`LengthType`). `BothRead` and
    `AloneRead` follow the reader, whose numbers are determined by their first bytes
    (`LongRead`), to `SymbolsAreFound`.

Only model-checked: the liveness properties (`EventuallySettled`, `EventuallyDecided`,
`EventuallyRead`, `KernelEntered`, and the liveness part of `ContractMet`, whose safety part is
`ContractRefined`), which are out of the prover's reach. So are the library's
induction theorems, whose parameter is an operator. In their place an invariant makes each step of
an induction one of the program; and where a definition recurs without a step of the program, in
`FlattenSeq`, `Flattened` takes a least counterexample with `LeastNatural`.

## Not modelled, and why

* Encoding the boot program: asmjit's; `BootTrampoline` starts from the instructions.
* `CI915gfx`, `CVmwaregfx::setMode` and `resetVGA`, `slurpLines`: used nowhere that has an effect.
* The framebuffer's colour masks, its address as the adapter has it (FB_START), and the text syntax of sysfs files.
* Debug listings, the disassembler, usage texts.
* Running out of memory, signals to the process.
* Third-party libraries (asmjit, zlib, boost), and FreeBSD after its entry.

## Plan

Done: every module listed above, and the proofs of all safety properties. What may follow:

the safety part of what `Handoff` promises its two programs together, as an abstract specification.
