----------------------------- MODULE Bootloader -----------------------------
(***************************************************************************)
(* One run of beastie after its options are parsed: main() drives one      *)
(* Bootloader object through its public operations, and the object stages  *)
(* six blocks of memory with the host's kexec_load, then asks the host to  *)
(* reboot into them.  Block contents are abstracted to their sizes, except *)
(* for the addresses and numbers that the FreeBSD kernel will follow.      *)
(*                                                                         *)
(* Failures are real outcomes: an exception unwinds through ~Bootloader    *)
(* (which itself makes a system call and throws if that fails), a failed   *)
(* assert kills the process at once, a refused system call is an error or  *)
(* is ignored, as the code has it.  Asserts are on, as in the build of     *)
(* README.md (no CMAKE_BUILD_TYPE, hence no NDEBUG).                       *)
(***************************************************************************)
EXTENDS Alignment, Sequences

CONSTANTS
  PageSize,       \* 4096
  BootPhys,       \* 0x100000: where the trampoline goes, and the kexec entry
  KernPhys,       \* 0x200000: where the kernel block goes
  BootBlockSize,  \* bytes BootAssembler::data() returns (fixed by createLayout)
  KernelFiles,    \* what <root>/boot/kernel/kernel may hold
  FontFiles,      \* what <root>/boot/fonts/12x24.fnt.gz may hold
  EnvSizes,       \* sizes of the environment the constructor writes
  MetaSizes,      \* sizes of the metadata writeMetadata produces
  Howtos,         \* boot_howto words the options can produce
  StaleAddrs,     \* values the never-initialised m_fontphys may start with
  OthersUseKexec  \* may another root process (un)load kexec images meanwhile?

\* m_kernblock, m_sym, m_env, m_meta, m_bootblock, m_fontblock, each under the
\* fixed index of m_segments that prepareSegments gives it.
Slots  == <<"kern", "sym", "env", "meta", "boot", "font">>
Blocks == {"kern", "sym", "env", "meta", "boot", "font"}

\* KEXEC_SEGMENT_MAX (linux/kexec.h) is the length of m_segments.
KEXEC_SEGMENT_MAX == 16
SegIndex == 0 .. KEXEC_SEGMENT_MAX - 1

\* A kernel file, as far as loading it goes: for an ET_EXEC file `kern` is the
\* size m_kernblock ends with and `sym` that of the symbol block.
KernelFile == [type  : {"missing", "invalid", "REL", "EXEC"},
               entry : Nat, kern : Nat, sym : Nat]
FontFile   == [load : {"ok", "throws", "aborts"}, size : Nat \ {0}]

ASSUME LayoutAssumption ==
  /\ PageSize \in Nat \ {0}
  /\ BootPhys \in Nat /\ BootPhys % PageSize = 0
  /\ KernPhys \in Nat /\ KernPhys % PageSize = 0
  /\ BootBlockSize \in Nat \ {0}
  /\ BootPhys + roundup(BootBlockSize, PageSize) <= KernPhys

ASSUME InputAssumption ==
  /\ KernelFiles \subseteq KernelFile
  /\ FontFiles \subseteq FontFile
  /\ EnvSizes \subseteq Nat \ {0}
  /\ MetaSizes \subseteq Nat \ {0}
  /\ Howtos \subseteq Nat
  /\ StaleAddrs \subseteq Nat
  /\ OthersUseKexec \in BOOLEAN

VARIABLES
  opts,           \* the parsed Options
  font, kernel,   \* the two files under Options.root
  pc,             \* the statement of main() to run next
  raised,         \* is an exception unwinding?
  exit,           \* how the process ended, or "running"
  m_howto, m_force,
  m_size,         \* size of each block's buffer
  m_phys,         \* m_kernphys, m_symphys, ... of each block
  m_meta,         \* what the metadata says, when m_size["meta"] > 0
  m_boot,         \* what the trampoline was assembled with
  m_segments, m_nr_segments,
  kexec,          \* host: the image the next kexec reboot starts
  lost,           \* has another process taken this run's image away?  (for properties)
  crash,          \* host: owner of the image started on a panic
  machine         \* host: what the machine is running

world  == <<opts, font, kernel>>
object == <<m_howto, m_force, m_size, m_phys, m_meta, m_boot,
            m_segments, m_nr_segments>>
host   == <<kexec, lost, crash, machine>>
vars   == <<world, pc, raised, exit, object, host>>

NoSegment == [buf |-> "none", bufsz |-> 0, mem |-> 0, memsz |-> 0]
NoMeta    == [addr |-> 0, size |-> 0, ssym |-> 0, esym |-> 0, envp |-> 0,
              howto |-> 0, font |-> 0]
NoBoot    == [btext |-> 0, modulep |-> 0, kernend |-> 0]

\* An installed kexec image: the first `nr` segments of `segs`, with the
\* contents the metadata and the trampoline had when they were copied.
Image(owner, nr, segs, meta, boot) ==
  [owner |-> owner, entry |-> BootPhys, nr |-> nr, segs |-> segs,
   meta |-> meta, boot |-> boot]
ForeignImage == Image("other", 0, [i \in SegIndex |-> NoSegment], NoMeta, NoBoot)
NoImage      == [ForeignImage EXCEPT !.owner = "none"]

-----------------------------------------------------------------------------
(* Control flow of main()                                                  *)

\* Broken orders: the font, or the boot flags, come after the kernel.
After_FontLast ==
  [geteuid  |-> "Bootloader", Bootloader |-> "setHowto", setHowto |-> "setForce",
   setForce |-> "fileLoad",   fileLoad   |-> "fontLoad", fontLoad |-> "boot",
   boot     |-> "unload"]
After_HowtoLast ==
  [geteuid  |-> "Bootloader", Bootloader |-> "setForce", setForce |-> "fontLoad",
   fontLoad |-> "fileLoad",   fileLoad   |-> "setHowto", setHowto |-> "boot",
   boot     |-> "unload"]

\* The statement that follows when one returns normally.
After ==
  [geteuid  |-> "Bootloader", Bootloader |-> "setHowto", setHowto |-> "setForce",
   setForce |-> "fontLoad",   fontLoad   |-> "fileLoad", fileLoad |-> "boot",
   boot     |-> "unload"]

Goto(label)  == pc' = label /\ UNCHANGED <<raised, exit>>
Return       == Goto(After[pc])
Throw        == pc' = "unload" /\ raised' = TRUE /\ UNCHANGED exit
Exit(status) == pc' = "done" /\ exit' = status /\ UNCHANGED raised

Init ==
  /\ opts \in [pretend : BOOLEAN, force : BOOLEAN, howto : Howtos]
  /\ font \in FontFiles
  /\ kernel \in KernelFiles
  /\ pc = "geteuid" /\ raised = FALSE /\ exit = "running"
  /\ m_howto = 0 /\ m_force = FALSE
  /\ m_size = [b \in Blocks |-> 0]
  /\ m_phys = [b \in Blocks |-> 0]
  /\ m_meta = NoMeta /\ m_boot = NoBoot
  /\ m_segments = [i \in SegIndex |-> NoSegment] /\ m_nr_segments = 0
  /\ kexec \in {NoImage, ForeignImage} /\ lost = FALSE
  /\ crash \in {"none", "other"}
  /\ machine = "linux"

\* Without root privileges main() throws before there is a Bootloader.
geteuid ==
  /\ pc = "geteuid"
  /\ Return \/ Exit("error")
  /\ UNCHANGED <<world, object, host>>

-----------------------------------------------------------------------------
(* The Bootloader object                                                   *)

\* The constructor reads the host (framebuffer, memory map, ACPI).  When that
\* throws or an assert fails there is no object yet and no destructor runs.
Construct ==
  /\ pc = "Bootloader"
  /\ \/ /\ \E n \in EnvSizes : m_size' = [m_size EXCEPT !["env"] = n]
        /\ \E a \in StaleAddrs : m_phys' = [m_phys EXCEPT !["font"] = a]
        /\ Return
     \/ Exit("error") /\ UNCHANGED <<m_size, m_phys>>
     \/ Exit("aborted") /\ UNCHANGED <<m_size, m_phys>>
  /\ UNCHANGED <<world, m_howto, m_force, m_meta, m_boot, m_segments,
                 m_nr_segments, host>>

setHowto ==
  /\ pc = "setHowto"
  /\ m_howto' = opts.howto
  /\ Return
  /\ UNCHANGED <<world, m_force, m_size, m_phys, m_meta, m_boot, m_segments,
                 m_nr_segments, host>>

setForce ==
  /\ pc = "setForce"
  /\ m_force' = opts.force
  /\ Return
  /\ UNCHANGED <<world, m_howto, m_size, m_phys, m_meta, m_boot, m_segments,
                 m_nr_segments, host>>

\* The font block replaces the previous one.  A missing or foreign file throws;
\* a file whose length is not what its header says fails the final assert.
fontLoad ==
  /\ pc = "fontLoad"
  /\ \/ /\ font.load = "ok"
        /\ m_size' = [m_size EXCEPT !["font"] = font.size]
        /\ Return
     \/ font.load = "throws" /\ Throw /\ UNCHANGED m_size
     \/ font.load = "aborts" /\ Exit("aborted") /\ UNCHANGED m_size
  /\ UNCHANGED <<world, m_howto, m_force, m_phys, m_meta, m_boot, m_segments,
                 m_nr_segments, host>>

\* Where the blocks above the kernel go: one after the other, each padded.
Layout(size) ==
  LET sym == KernPhys + roundup(size["kern"], PageSize)
      env == sym + roundup(size["sym"], PageSize)
      fnt == env + roundup(size["env"], PageSize)
      mta == fnt + roundup(size["font"], PageSize)
  IN  [m_phys EXCEPT !["kern"] = KernPhys, !["sym"] = sym, !["env"] = env,
                     !["font"] = fnt, !["meta"] = mta]

\* Broken: addresses from before the layout; an end that is only a size.
writeMetadata_BeforeLayout(size, phys) ==
  [addr |-> m_phys["kern"], size |-> size["kern"],
   ssym |-> m_phys["sym"],  esym |-> m_phys["sym"] + size["sym"],
   envp |-> m_phys["env"],  howto |-> m_howto, font |-> m_phys["font"]]
writeMetadata_SizeAsEnd(size, phys) ==
  [addr |-> phys["kern"], size |-> size["kern"],
   ssym |-> phys["sym"],  esym |-> size["sym"],
   envp |-> phys["env"],  howto |-> m_howto, font |-> phys["font"]]

writeMetadata(size, phys) ==
  [addr |-> phys["kern"], size |-> size["kern"],
   ssym |-> phys["sym"],  esym |-> phys["sym"] + size["sym"],
   envp |-> phys["env"],  howto |-> m_howto, font |-> phys["font"]]

\* Broken: announces the metadata's own pages as free.
Kernend_AtMetadata(size, phys) == phys["meta"]

\* m_kernend: the first byte after the last block.
Kernend(size, phys) == phys["meta"] + roundup(size["meta"], PageSize)

\* Block sizes once the file is read and n bytes of metadata are written.
LoadedSize(n) == [m_size EXCEPT !["kern"] = kernel.kern,
                                !["sym"] = @ + kernel.sym, !["meta"] = n]

\* BootAssembler may throw (asmjit, sysfs); the object is then left half set.
assemble(size, phys) ==
  \/ /\ m_size' = [size EXCEPT !["boot"] = BootBlockSize]
     /\ m_phys' = [phys EXCEPT !["boot"] = BootPhys]
     /\ m_boot' = [btext |-> kernel.entry, modulep |-> phys["meta"],
                   kernend |-> Kernend(size, phys)]
     /\ Return
  \/ /\ m_size' = size /\ m_phys' = phys /\ UNCHANGED m_boot
     /\ Throw

\* The layout and the metadata are fixed here, from the sizes of this moment.
elfLoadExec ==
  /\ kernel.type = "EXEC" /\ kernel.entry # 0 /\ kernel.sym > 0
  /\ \E n \in MetaSizes :
       /\ m_meta' = writeMetadata(LoadedSize(n), Layout(LoadedSize(n)))
       /\ assemble(LoadedSize(n), Layout(LoadedSize(n)))

\* A relocatable file is accepted and nothing is loaded from it.
elfLoadRel ==
  /\ kernel.type = "REL"
  /\ Return
  /\ UNCHANGED <<m_size, m_phys, m_meta, m_boot>>

\* The asserts of elfLoad, elfLoadExec (entry) and writeMetadata (symbols).
elfRejected ==
  /\ \/ kernel.type = "invalid"
     \/ kernel.type = "EXEC" /\ (kernel.entry = 0 \/ kernel.sym = 0)
  /\ Exit("aborted")
  /\ UNCHANGED <<m_size, m_phys, m_meta, m_boot>>

fileLoad ==
  /\ pc = "fileLoad"
  /\ \/ kernel.type = "missing" /\ Throw /\ UNCHANGED <<m_size, m_phys, m_meta, m_boot>>
     \/ elfRejected
     \/ elfLoadRel
     \/ elfLoadExec
  /\ UNCHANGED <<world, m_howto, m_force, m_segments, m_nr_segments, host>>

Segment(b) == [buf |-> b, bufsz |-> m_size[b], mem |-> m_phys[b],
               memsz |-> roundup(m_size[b], PageSize)]
Present(b) == IF m_size[b] > 0 THEN 1 ELSE 0

Filled == [i \in SegIndex |-> IF i < Len(Slots) /\ m_size[Slots[i + 1]] > 0
                              THEN Segment(Slots[i + 1]) ELSE m_segments[i]]

\* Broken: every index counted; a count that starts at one.
prepareSegments_AllSlots ==
  /\ m_segments' = [i \in SegIndex |-> IF i < Len(Slots) THEN Segment(Slots[i + 1])
                                       ELSE m_segments[i]]
  /\ m_nr_segments' = Len(Slots)
prepareSegments_FromOne ==
  /\ m_segments' = Filled
  /\ m_nr_segments' = 1 + Present("kern") + Present("sym") + Present("env")
                      + Present("meta") + Present("boot") + Present("font")

\* Each block has a fixed index; the count is that of the non-empty blocks.
prepareSegments ==
  /\ m_segments' = Filled
  /\ m_nr_segments' = Present("kern") + Present("sym") + Present("env")
                      + Present("meta") + Present("boot") + Present("font")

\* What kexec_load itself insists on: page-aligned destinations that hold their
\* buffers and do not overlap.
Disjoint(s, t) == s.mem + s.memsz <= t.mem \/ t.mem + t.memsz <= s.mem
KexecAccepts(segs, nr) ==
  /\ nr <= KEXEC_SEGMENT_MAX
  /\ \A i \in 0 .. nr - 1 :
       /\ segs[i].mem % PageSize = 0 /\ segs[i].memsz % PageSize = 0
       /\ segs[i].bufsz <= segs[i].memsz
  /\ \A i, j \in 0 .. nr - 1 : i < j => Disjoint(segs[i], segs[j])

Staging == /\ KexecAccepts(m_segments', m_nr_segments')
           /\ kexec' = Image("beastie", m_nr_segments', m_segments', m_meta, m_boot)
Shutdown == Goto(IF m_force THEN "forcedshutdown" ELSE "shutdown")

\* Broken: the result of the call is not looked at.
kexec_load_Unchecked == (Staging \/ UNCHANGED kexec) /\ Shutdown

\* The host takes a copy of the segments, or refuses for reasons of its own
\* (EPERM, EBUSY, ENOMEM) and load() throws.
kexec_load == \/ Staging /\ Shutdown
              \/ Throw /\ UNCHANGED kexec

\* Broken: --pretend is forgotten.
load_EvenPretending ==
  /\ pc = "boot"
  /\ prepareSegments /\ kexec_load
  /\ UNCHANGED <<world, m_howto, m_force, m_size, m_phys, m_meta, m_boot,
                 lost, crash, machine>>

\* boot() up to the system call that stages the image.
load ==
  /\ pc = "boot" /\ ~opts.pretend
  /\ prepareSegments /\ kexec_load
  /\ UNCHANGED <<world, m_howto, m_force, m_size, m_phys, m_meta, m_boot,
                 lost, crash, machine>>

pretend ==
  /\ pc = "boot" /\ opts.pretend
  /\ Return
  /\ UNCHANGED <<world, object, host>>

\* Broken: returns when no shutdown binary can be executed.
shutdown_Silent ==
  /\ pc = "shutdown"
  /\ \/ Exit("replaced") /\ machine' = "shuttingdown"
     \/ Goto("unload") /\ UNCHANGED machine
  /\ UNCHANGED <<world, object, kexec, lost, crash>>

\* execv replaces the process, so no destructor runs; with no shutdown binary
\* at any of the three paths it throws.
shutdown ==
  /\ pc = "shutdown"
  /\ \/ Exit("replaced") /\ machine' = "shuttingdown"
     \/ Throw /\ UNCHANGED machine
  /\ UNCHANGED <<world, object, kexec, lost, crash>>

\* Broken: tries again for ever.
forcedshutdown_Retry ==
  /\ pc = "forcedshutdown"
  /\ \/ kexec.owner # "none" /\ Exit("gone") /\ machine' = "kexeced"
     \/ Goto("forcedshutdown") /\ UNCHANGED machine
  /\ UNCHANGED <<world, object, kexec, lost, crash>>

\* reboot(KEXEC): its result is ignored, so a failure looks like a return.
forcedshutdown ==
  /\ pc = "forcedshutdown"
  /\ \/ kexec.owner # "none" /\ Exit("gone") /\ machine' = "kexeced"
     \/ Goto("unload") /\ UNCHANGED machine
  /\ UNCHANGED <<world, object, kexec, lost, crash>>

KEXEC_ON_CRASH    == 1
KEXEC_FILE_UNLOAD == 1

\* kexec_load with no segments drops the image its flags select.
kexec_unload(flags) ==
  IF flags % 2 = KEXEC_ON_CRASH
  THEN crash' = "none" /\ UNCHANGED kexec
  ELSE kexec' = NoImage /\ UNCHANGED crash

\* ~Bootloader.  An exception out of it, noexcept as every destructor is, is
\* std::terminate; otherwise main() returns 1 from its handler, or 0.
unload ==
  /\ pc = "unload"
  /\ \/ /\ kexec_unload(KEXEC_FILE_UNLOAD)
        /\ Exit(IF raised THEN "error" ELSE "ok")
     \/ Exit("terminated") /\ UNCHANGED <<kexec, crash>>
  /\ UNCHANGED <<world, object, lost, machine>>

-----------------------------------------------------------------------------
(* The host                                                                *)

\* "init will kexec for us" (misc.hxx), if an image is still installed.
initReboot ==
  /\ machine = "shuttingdown"
  /\ machine' = IF kexec.owner = "none" THEN "firmware" ELSE "kexeced"
  /\ UNCHANGED <<world, pc, raised, exit, object, kexec, lost, crash>>

\* Another root process loads an image of its own, or unloads what is there.
otherKexec ==
  /\ OthersUseKexec
  /\ machine \in {"linux", "shuttingdown"}
  /\ kexec' \in {NoImage, ForeignImage}
  /\ lost' = (lost \/ kexec.owner = "beastie")
  /\ UNCHANGED <<world, pc, raised, exit, object, crash, machine>>

Main == \/ geteuid \/ Construct \/ setHowto \/ setForce \/ fontLoad \/ fileLoad
        \/ load \/ pretend \/ shutdown \/ forcedshutdown \/ unload

\* The run is over and the machine is where it will stay.
Settled == exit # "running" /\ machine # "shuttingdown"
Stopped == Settled /\ UNCHANGED vars

Next == Main \/ initReboot \/ otherKexec \/ Stopped

\* A runnable process runs, and init completes a shutdown it was asked for.
Fairness == WF_vars(Main) /\ WF_vars(initReboot)

Spec == Init /\ [][Next]_vars /\ Fairness

-----------------------------------------------------------------------------
(* Type invariant                                                          *)

SegmentType == [buf : Blocks \cup {"none"}, bufsz : Nat, mem : Nat, memsz : Nat]
MetaType    == [addr : Nat, size : Nat, ssym : Nat, esym : Nat, envp : Nat,
                howto : Nat, font : Nat]
BootType    == [btext : Nat, modulep : Nat, kernend : Nat]
ImageType   == [owner : {"none", "other", "beastie"}, entry : Nat,
                nr : 0 .. Len(Slots), segs : [SegIndex -> SegmentType],
                meta : MetaType, boot : BootType]
Labels      == DOMAIN After \cup {"shutdown", "forcedshutdown", "unload", "done"}

\* Every variable stays in its range; in particular a kexec call never names
\* more segments than there are blocks.
TypeOK ==
  /\ opts \in [pretend : BOOLEAN, force : BOOLEAN, howto : Howtos]
  /\ font \in FontFiles /\ kernel \in KernelFiles
  /\ pc \in Labels /\ raised \in BOOLEAN
  /\ exit \in {"running", "ok", "error", "aborted", "terminated", "replaced", "gone"}
  /\ m_howto \in Nat /\ m_force \in BOOLEAN
  /\ m_size \in [Blocks -> Nat] /\ m_phys \in [Blocks -> Nat]
  /\ m_meta \in MetaType /\ m_boot \in BootType
  /\ m_segments \in [SegIndex -> SegmentType] /\ m_nr_segments \in 0 .. Len(Slots)
  /\ kexec \in ImageType /\ lost \in BOOLEAN /\ crash \in {"none", "other"}
  /\ machine \in {"linux", "shuttingdown", "kexeced", "firmware"}

-----------------------------------------------------------------------------
(* Safety                                                                  *)

Loaded(img) == {img.segs[i] : i \in 0 .. img.nr - 1}

\* Block b, all n bytes of it, starts at address a when the image runs.
At(img, b, n, a) ==
  \E s \in Loaded(img) : s.buf = b /\ s.mem = a /\ s.bufsz = n

\* The jump to the entry finds the trampoline, the trampoline's modulep finds
\* the metadata, and every address in the metadata finds the block it is for.
Reachable(img) ==
  /\ At(img, "boot", BootBlockSize, img.entry)
  /\ \E n \in MetaSizes : At(img, "meta", n, img.boot.modulep)
  /\ At(img, "kern", img.meta.size, img.meta.addr)
  /\ At(img, "sym", img.meta.esym - img.meta.ssym, img.meta.ssym)
  /\ \E n \in EnvSizes : At(img, "env", n, img.meta.envp)
  /\ At(img, "font", font.size, img.meta.font)
  /\ img.boot.btext = kernel.entry

\* FreeBSD takes free memory from kernend upwards: no block may reach above it.
ClearOfKernend(img) ==
  \A s \in Loaded(img) : s.mem + s.memsz <= img.boot.kernend

\* A kernel file with something to load.
Executable == kernel.type = "EXEC" /\ kernel.kern > 0

\* The segments handed to kexec_load always satisfy the host's own rules, so
\* kexec_load never refuses a layout: elfLoadExec fixes the addresses long
\* before prepareSegments reads the sizes, and the two must still agree.
LayoutAcceptable == KexecAccepts(m_segments, m_nr_segments)

\* An executable kernel that beastie stages is complete, and every pointer
\* FreeBSD will follow leads to the block it names, at its staged size.
HandoffReachable ==
  kexec.owner = "beastie" /\ Executable => Reachable(kexec)

\* Whatever beastie stages of an executable kernel lies below the kernend it
\* announces, so early allocations of FreeBSD cannot overwrite it.
HandoffBelowKernend ==
  kexec.owner = "beastie" /\ Executable => ClearOfKernend(kexec)

\* The boot flags of the command line are those in the staged metadata, which
\* is written once, by fileLoad, from what setHowto stored earlier.
HowtoDelivered ==
  kexec.owner = "beastie" /\ Executable => kexec.meta.howto = opts.howto

\* "Pretend to reboot": with --pretend nothing is staged for a kexec reboot and
\* the machine keeps running, whichever way the run goes.
PretendStaysPut ==
  opts.pretend => kexec.owner # "beastie" /\ machine = "linux"

\* Only a forced reboot, whose result is ignored, can fail and still exit 0: a
\* clean reboot that does not happen is reported.
CleanRebootFailureReported == exit = "ok" => opts.pretend \/ opts.force

\* The machine leaves Linux only for an image staged by this run, and with an executable
\* kernel only for a complete one, unless another process has taken it away after it was
\* staged: whatever was there before, or was put there before, is replaced.
RebootsStagedImage ==
  machine # "linux" /\ ~lost => /\ kexec.owner = "beastie"
                                /\ Executable => Reachable(kexec)

-----------------------------------------------------------------------------
(* Liveness                                                                *)

\* Every run comes to an end, and a shutdown that was asked for gets the
\* machine into another system: nothing stays half way.
EventuallySettled == <>[](exit # "running" /\ machine # "shuttingdown")

-----------------------------------------------------------------------------
(* What the comments of the source say and the code does not do            *)

\* bootloader.hxx:53: unload() unloads "the kexec segments associated with this
\* instance": once ~Bootloader is through its image is not staged any more, and an
\* image that somebody else loaded still is.
UnloadReleasesOwnSegments ==
  [][pc = "unload" /\ pc' = "done" /\ exit' # "terminated"
       => kexec'.owner # "beastie" /\ crash' = crash]_vars

\* bootloader.hxx:32 and :38: after fileLoad ("Load an ELF kernel/module") boot()
\* is to "Boot into the new system": where the machine jumps to there is code.
BootsIntoNewSystem ==
  machine = "kexeced" /\ kexec.owner = "beastie"
    => \E s \in Loaded(kexec) : s.mem <= kexec.entry /\ kexec.entry < s.mem + s.memsz
=============================================================================
