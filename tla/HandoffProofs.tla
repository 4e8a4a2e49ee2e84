---------------------------- MODULE HandoffProofs ----------------------------
(***************************************************************************)
(* The composition, for every kernel, layout and page table that fits the  *)
(* address space: the invariants of the two programs hold side by side,    *)
(* and the image that is staged ties them together.  The trampoline's own  *)
(* proofs are taken over for what it was assembled with here.              *)
(***************************************************************************)
EXTENDS Handoff, BootloaderProofs

\* What the registers of the trampoline can pass on.
Handed == [btext : 0 .. 2 * EntriesPerTable - 1,
           modulep : 0 .. HalfWord * HalfWord - 1, kernend : 0 .. HalfWord * HalfWord - 1]

TP == INSTANCE TrampolineProofs WITH
       pc        <- tpc,
       m_btext   <- kexec.boot.btext \div (PageSize * EntriesPerTable),
       m_modulep <- kexec.boot.modulep,
       m_kernend <- kexec.boot.kernend,
       BasePage  <- BootPhys \div PageSize,
       Handoffs  <- Handed

-----------------------------------------------------------------------------
(* The trampoline of Handoff is the one of the proofs                      *)

\* What they assume holds here.
LEMMA TrampolineAssumptions ==
  TP!TableAssumption /\ TP!BaseAssumption /\ TP!WordAssumption /\ TP!HandoffAssumption
<1>1. EntriesPerTable \in Nat /\ HalfWord \in Nat /\ HalfWord > 31 /\ StaleStack \subseteq Nat
  BY AddressSpace
<1>2. PageSize \in Nat \ {0} /\ BootPhys \in Nat
  BY LayoutAssumption
<1> DEFINE base == BootPhys \div PageSize
<1>3. base \in Nat /\ BootPhys = PageSize * base + (BootPhys % PageSize)
  BY <1>2, DivMod
<1>4. BootPhys = PageSize * base
  BY <1>3, LayoutAssumption
<1> HIDE DEF base
<1> DEFINE r == roundup(BootBlockSize, PageSize)
           n == 16 * PageSize
           p == PageSize * base
           q == PageSize * EntriesPerTable
<1>5. r \in Nat /\ n < r /\ n \in Nat /\ BootPhys + r <= KernPhys /\ KernPhys = q
  BY <1>2, PagesAgree, LayoutAssumption, RoundupBounds
<1>6. p + n < q
  <2> HIDE DEF r, n, p, q
  <2>1. BootPhys = p
    BY <1>4 DEF p
  <2>2. p \in Nat
    BY <1>2, <2>1
  <2>3. q \in Nat
    BY <1>1, <1>2 DEF q
  <2> QED
    BY <1>5, <2>1, <2>2, <2>3
<1>7. base + 16 < EntriesPerTable
  <2> SUFFICES ASSUME base + 16 >= EntriesPerTable PROVE FALSE
    BY <1>1, <1>3
  <2>1. PageSize * (base + 16) >= PageSize * EntriesPerTable
    BY <1>1, <1>2, <1>3, SMT
  <2>2. PageSize * (base + 16) = PageSize * base + 16 * PageSize
    BY <1>2, <1>3, SMT
  <2> QED
    BY <1>1, <1>2, <1>3, <1>6, <2>1, <2>2, SMT
<1>8. TP!TableAssumption /\ TP!BaseAssumption
  BY <1>1, <1>3, <1>7 DEF TP!TableAssumption, TP!BaseAssumption, base
<1>9. TP!WordAssumption /\ TP!HandoffAssumption
  BY <1>1 DEF TP!WordAssumption, TP!HandoffAssumption, TP!WordSize, Handed
<1> QED
  BY <1>8, <1>9

\* The same program on the same machine.
LEMMA SameStart == T!Start <=> TP!Start
  BY DEF T!Start, TP!Start, T!BlockPages, TP!BlockPages, T!Index, TP!Index, T!NoEntry,
     TP!NoEntry, T!StackSlots, TP!StackSlots
LEMMA SamePages ==
  /\ T!GDT = TP!GDT /\ T!PML4T = TP!PML4T /\ T!PDPT0 = TP!PDPT0 /\ T!PDPT1 = TP!PDPT1
  /\ T!PDT0 = TP!PDT0 /\ T!PDT1 = TP!PDT1 /\ T!StackPage = TP!StackPage
  /\ T!BlockPages = TP!BlockPages /\ T!Index = TP!Index /\ T!WordSize = TP!WordSize
  BY DEF T!GDT, TP!GDT, T!PAGE_SIZE, TP!PAGE_SIZE, T!DataPage, TP!DataPage, T!PML4T,
     TP!PML4T, T!PDPT0, TP!PDPT0, T!PDPT1, TP!PDPT1, T!PDT0, TP!PDT0, T!PDT1,
     TP!PDT1, T!StackPage, TP!StackPage, T!BlockPages, TP!BlockPages, T!Index,
     TP!Index, T!WordSize, TP!WordSize

LEMMA SameMapping ==
  /\ \A f : T!Low(f) = TP!Low(f) /\ T!High(f) = TP!High(f)
  /\ \A v, f : T!MapsTo(v, f) <=> TP!MapsTo(v, f)
  BY DEF T!Low, TP!Low, T!High, TP!High, T!MapsTo, TP!MapsTo, T!Follows, TP!Follows,
     T!Large, TP!Large, T!BlockPages, TP!BlockPages

LEMMA SameStep == T!Step <=> TP!Step
<1>1. T!setGDT <=> TP!setGDT
  BY DEF T!setGDT, TP!setGDT, T!StoreLimit, TP!StoreLimit, T!StoreBase, TP!StoreBase,
     T!GDT, TP!GDT, T!DataPage, TP!DataPage, T!PAGE_SIZE, TP!PAGE_SIZE,
     T!handoff, TP!handoff
<1>2. (T!updateCS <=> TP!updateCS) /\ (T!loadSegments <=> TP!loadSegments)
  BY DEF T!updateCS, TP!updateCS, T!loadSegments, TP!loadSegments, T!Usable,
     TP!Usable, T!Descriptors, TP!Descriptors, T!GDT, TP!GDT, T!DataPage,
     TP!DataPage, T!PAGE_SIZE, TP!PAGE_SIZE, T!handoff, TP!handoff
<1>3. (T!lowTables <=> TP!lowTables) /\ (T!highTables <=> TP!highTables)
  BY DEF T!lowTables, TP!lowTables, T!highTables, TP!highTables, T!Table, TP!Table,
     T!Large, TP!Large, T!Index, TP!Index, T!PML4T, TP!PML4T, T!PDPT0, TP!PDPT0,
     T!PDPT1, TP!PDPT1, T!PDT0, TP!PDT0, T!PDT1, TP!PDT1, T!DataPage,
     TP!DataPage, T!handoff, TP!handoff, T!cpu, TP!cpu
<1>4. (T!lp_pd0 <=> TP!lp_pd0) /\ (T!lp_pd1 <=> TP!lp_pd1)
  BY DEF T!lp_pd0, TP!lp_pd0, T!lp_pd1, TP!lp_pd1, T!Store, TP!Store, T!Write,
     TP!Write, T!Large, TP!Large, T!PML4T, TP!PML4T, T!PDPT0, TP!PDPT0, T!PDPT1,
     TP!PDPT1, T!PDT0, TP!PDT0, T!PDT1, TP!PDT1, T!DataPage, TP!DataPage,
     T!handoff, TP!handoff, T!cpu, TP!cpu
<1>5. (T!loadCR3 <=> TP!loadCR3) /\ (T!pushHandoff <=> TP!pushHandoff) /\ (T!jump <=> TP!jump)
  BY DEF T!loadCR3, TP!loadCR3, T!pushHandoff, TP!pushHandoff, T!jump, TP!jump,
     T!Running, TP!Running, T!MapsTo, TP!MapsTo, T!Follows, TP!Follows, T!Low,
     TP!Low, T!High, TP!High, T!FrameOf, TP!FrameOf, T!Large, TP!Large,
     T!BlockPages, TP!BlockPages, T!StackPage, TP!StackPage, T!PML4T, TP!PML4T,
     T!PDPT0, TP!PDPT0, T!PDPT1, TP!PDPT1, T!PDT0, TP!PDT0, T!PDT1, TP!PDT1,
     T!DataPage, TP!DataPage, T!handoff, TP!handoff, T!cpu, TP!cpu, T!WordSize,
     TP!WordSize
<1> QED
  BY <1>1, <1>2, <1>3, <1>4, <1>5 DEF T!Step, TP!Step
-----------------------------------------------------------------------------
(* The invariant                                                           *)

\* What the trampoline and the kernel need of a staged image, beyond what IInv says.
\* Of a relocatable file the segments that are counted are empty.
StagedFits ==
  kexec.owner = "beastie" =>
    /\ kernel.type # "EXEC" => Loaded(kexec) \subseteq {NoSegment}
    /\ kernel.type = "EXEC" =>
         /\ kexec.boot.btext = kernel.entry
         /\ kexec.boot.modulep <= KernelSpace /\ kexec.boot.kernend <= KernelSpace
         /\ kexec.meta.addr = KernPhys /\ kexec.meta.size = kernel.kern
    /\ \A s \in Loaded(kexec) : s.bufsz <= s.memsz /\ s.mem + s.memsz <= KernelSpace

\* The processor has not started, or runs the trampoline that was staged.
HInv ==
  /\ IInv /\ StagedFits
  /\ tpc = "entry" => TP!Start
  /\ tpc # "entry" => Entered /\ TP!IInv
-----------------------------------------------------------------------------
(* The staged image fits                                                   *)

\* What was laid out ends within the kernel's space.
LEMMA LaidOutFits ==
  ASSUME TypeOK, LaidOut, kernel.type = "EXEC", m_size["env"] \in EnvSizes,
         m_size["font"] = font.size
  PROVE  /\ KernelSpace \in Nat
         /\ m_boot.modulep <= m_boot.kernend /\ m_boot.kernend <= KernelSpace
         /\ \A b \in Blocks : m_phys[b] + Reserved(b) <= KernelSpace
<1>1. \A b \in Blocks : Reserved(b) \in Nat /\ m_phys[b] \in Nat
  BY ReservedBounds
<1>2. /\ Reserved("kern") = roundup(kernel.kern, PageSize)
      /\ Reserved("sym") = roundup(kernel.sym, PageSize)
      /\ Reserved("font") = roundup(font.size, PageSize)
  BY DEF LaidOut, Reserved
<1>3. /\ m_phys["kern"] = KernPhys
      /\ m_phys["sym"]  = m_phys["kern"] + Reserved("kern")
      /\ m_phys["env"]  = m_phys["sym"]  + Reserved("sym")
      /\ m_phys["font"] = m_phys["env"]  + Reserved("env")
      /\ m_phys["meta"] = m_phys["font"] + Reserved("font")
  BY DEF LaidOut
<1>4. m_boot.modulep = m_phys["meta"] /\ m_boot.kernend = m_phys["meta"] + Reserved("meta")
  BY DEF LaidOut, Kernend, Reserved
<1>5. KernPhys + Reserved("kern") + Reserved("sym") + Reserved("env") + Reserved("font")
        + Reserved("meta") <= KernelSpace
  <2>1. kernel \in KernelFiles /\ font \in FontFiles /\ m_size["meta"] \in MetaSizes
    BY DEF TypeOK, LaidOut
  <2>2. KernPhys + roundup(kernel.kern, PageSize) + roundup(kernel.sym, PageSize)
          + roundup(m_size["env"], PageSize) + roundup(font.size, PageSize)
          + roundup(m_size["meta"], PageSize) <= KernelSpace
    BY <2>1, AddressSpace
  <2> QED
    BY <1>2, <2>2 DEF Reserved
<1>6. KernelSpace \in Nat
  BY AddressSpace, LayoutAssumption, SMT DEF KernelSpace
<1>7. m_boot.modulep <= m_boot.kernend /\ m_boot.kernend <= KernelSpace
  BY <1>1, <1>3, <1>4, <1>5, <1>6 DEF Blocks
<1>8. \A b \in Blocks : m_phys[b] + Reserved(b) <= m_boot.kernend
  BY LaidOutDisjoint
<1>9. m_boot.kernend \in Nat
  BY <1>1, <1>4 DEF Blocks
<1> QED
  BY <1>1, <1>6, <1>7, <1>8, <1>9

\* So does the image that load() stages of it.
LEMMA StagedImageFits ==
  ASSUME IInv, pc = "boot", UNCHANGED world, kexec' = StagedImage
  PROVE  StagedFits'
<1>1. TypeOK /\ \A k \in SegIndex : m_segments[k] = NoSegment
  BY DEF IInv, Unprepared
<1>2. /\ kexec'.boot = m_boot /\ kexec'.meta = m_meta
      /\ Loaded(kexec)' = {Filled[k] : k \in 0 .. Count - 1}
      /\ kernel' = kernel
  BY DEF StagedImage, Image, Loaded, world
<1>3. NoSegment.mem = 0 /\ NoSegment.memsz = 0 /\ NoSegment.bufsz = 0
  BY DEF NoSegment
<1>4. KernelSpace \in Nat
  BY AddressSpace, LayoutAssumption, SMT DEF KernelSpace
<1>5. CASE kernel.type = "EXEC"
  <2>1. /\ LaidOut /\ m_size["env"] \in EnvSizes /\ m_size["font"] = font.size
    BY <1>5 DEF IInv, Progress
  <2>2. \A b \in Blocks : Segment(b).bufsz <= Segment(b).memsz
                           /\ Segment(b).mem + Segment(b).memsz <= KernelSpace
    BY <1>1, <1>5, <2>1, LaidOutFits, ReservedBounds DEF Segment, Reserved
  <2>3. Count \in 0 .. 6
    BY <1>1, CountType DEF Count, Slots
  <2>4. \A k \in 0 .. Count - 1 : Filled[k].bufsz <= Filled[k].memsz
                                  /\ Filled[k].mem + Filled[k].memsz <= KernelSpace
    BY <1>1, <1>3, <1>4, <2>2, <2>3, FilledSegments
  <2>5. m_boot.btext = kernel.entry /\ m_meta.addr = KernPhys /\ m_meta.size = kernel.kern
    BY <2>1 DEF LaidOut, writeMetadata
  <2>6. m_boot.modulep <= KernelSpace /\ m_boot.kernend <= KernelSpace
    <3>1. m_boot.modulep \in Nat /\ m_boot.kernend \in Nat
      BY <1>1 DEF TypeOK, BootType
    <3> QED
      BY <1>1, <1>4, <1>5, <2>1, <3>1, LaidOutFits
  <2> QED
    BY <1>2, <1>5, <2>4, <2>5, <2>6 DEF StagedFits
<1>6. CASE kernel.type # "EXEC"
  <2>1. \A b \in Blocks \ {"env", "font"} : m_size[b] = 0
    BY <1>6 DEF IInv, Progress
  <2>2. Present("kern") = 0 /\ Present("sym") = 0 /\ Present("meta") = 0 /\ Present("boot") = 0
    BY <2>1 DEF Present, Blocks
  <2>3. Count \in 0 .. 2
    BY <2>2, PresentType DEF Count, Blocks
  <2>4. Filled[0] = NoSegment /\ Filled[1] = NoSegment
    BY <1>1, <2>1 DEF Filled, Slots, SegIndex, KEXEC_SEGMENT_MAX, Blocks
  <2>5. \A k \in 0 .. Count - 1 : Filled[k] = NoSegment
    BY <2>3, <2>4
  <2> QED
    BY <1>2, <1>3, <1>4, <1>6, <2>5 DEF StagedFits
<1> QED
  BY <1>5, <1>6

\* An image is staged by load(), and nothing changes it but another taking its place.
LEMMA FitsStep ==
  ASSUME IInv, StagedFits, [Next]_vars
  PROVE  StagedFits'
<1>1. CASE UNCHANGED <<world, kexec>>
  BY <1>1 DEF StagedFits, Loaded, world
<1>2. CASE kexec'.owner # "beastie"
  BY <1>2 DEF StagedFits
<1>3. CASE load
  <2>1. pc = "boot" /\ UNCHANGED world /\ (kexec' = StagedImage \/ kexec' = kexec)
    BY <1>3 DEF load, kexec_load, Staging, prepareSegments, Count, StagedImage
  <2> QED
    BY <1>1, <2>1, StagedImageFits
<1>4. CASE ~load
  <2>1. CASE geteuid \/ Construct \/ setHowto \/ setForce \/ fontLoad \/ fileLoad
    BY <1>1, <2>1 DEF geteuid, Construct, setHowto, setForce, fontLoad, fileLoad, host
  <2>2. CASE pretend \/ shutdown \/ forcedshutdown \/ unload \/ initReboot \/ otherKexec
    BY <1>1, <1>2, <2>2 DEF pretend, shutdown, forcedshutdown, unload, initReboot,
       otherKexec, host, kexec_unload, NoImage, ForeignImage, Image
  <2>3. CASE UNCHANGED vars
    BY <1>1, <2>3 DEF vars, host
  <2> QED
    BY <1>4, <2>1, <2>2, <2>3 DEF Next, Main, Stopped
<1> QED
  BY <1>3, <1>4
-----------------------------------------------------------------------------
(* The two programs together                                               *)

\* A frame of the kernel's space, from a byte of it.
LEMMA FrameInSpace ==
  ASSUME NEW a \in Nat, a < KernelSpace
  PROVE  a \div KernPhys \in 0 .. 2 * EntriesPerTable - 1
<1> DEFINE n == 2 * EntriesPerTable
           q == a \div KernPhys
           r == a % KernPhys
<1>1. n \in Nat
  BY AddressSpace
<1>2. KernPhys \in Nat \ {0}
  <2>1. EntriesPerTable \in Nat \ {0}
    BY TrampolineAssumptions DEF TP!TableAssumption
  <2> QED
    BY <2>1, PagesAgree, LayoutAssumption, SMT
<1>3. KernelSpace = KernPhys * n
  BY <1>1, <1>2, AddressSpace, SMT DEF KernelSpace
<1> HIDE DEF n
<1>4. q \in Nat /\ a = KernPhys * q + r /\ r \in 0 .. KernPhys - 1
  BY <1>2, DivMod
<1> HIDE DEF q, r
<1>5. q < n
  <2> SUFFICES ASSUME q >= n PROVE FALSE
    BY <1>1, <1>4
  <2>1. KernPhys * q >= KernPhys * n /\ KernPhys * q \in Nat
    BY <1>1, <1>2, <1>4, SMT
  <2> QED
    BY <1>2, <1>3, <1>4, <2>1, SMT
<1> QED
  BY <1>1, <1>4, <1>5 DEF n, q

\* Where there is a trampoline to enter, an executable file was staged, and the
\* trampoline was assembled with what it can pass on.
LEMMA EnteredInRange ==
  ASSUME IInv, StagedFits, Entered
  PROVE  /\ kernel.type = "EXEC" /\ kexec.owner = "beastie"
         /\ \E h \in Handed :
              /\ kexec.boot.btext \div (PageSize * EntriesPerTable) = h.btext
              /\ kexec.boot.modulep = h.modulep /\ kexec.boot.kernend = h.kernend
<1>1. kexec.owner = "beastie" /\ \E s \in Loaded(kexec) : s.buf = "boot"
  BY DEF Entered, At
<1>2. kernel.type = "EXEC"
  BY <1>1 DEF StagedFits, NoSegment
<1>3. /\ kexec.boot.btext = kernel.entry
      /\ kexec.boot.modulep <= KernelSpace /\ kexec.boot.kernend <= KernelSpace
  BY <1>1, <1>2 DEF StagedFits
<1>4. kernel.entry \in Nat /\ kexec.boot.modulep \in Nat /\ kexec.boot.kernend \in Nat
  BY InputType DEF IInv, TypeOK, ImageType, BootType
<1>5. kernel.entry < KernelSpace
  BY <1>2, AddressSpace DEF IInv, TypeOK
<1>6. kexec.boot.btext \div (PageSize * EntriesPerTable) \in 0 .. 2 * EntriesPerTable - 1
  BY <1>3, <1>4, <1>5, FrameInSpace, PagesAgree
<1>7. KernelSpace < HalfWord * HalfWord /\ HalfWord * HalfWord \in Nat /\ KernelSpace \in Nat
  BY AddressSpace, LayoutAssumption, SMT DEF KernelSpace
<1>8. kexec.boot.modulep \in 0 .. HalfWord * HalfWord - 1
      /\ kexec.boot.kernend \in 0 .. HalfWord * HalfWord - 1
  <2> DEFINE w == HalfWord * HalfWord
  <2> HIDE DEF w
  <2>1. w \in Nat /\ KernelSpace < w
    BY <1>7 DEF w
  <2>2. kexec.boot.modulep \in 0 .. w - 1 /\ kexec.boot.kernend \in 0 .. w - 1
    BY <1>3, <1>4, <1>7, <2>1
  <2> QED
    BY <2>2 DEF w
<1> DEFINE h == [btext |-> kexec.boot.btext \div (PageSize * EntriesPerTable),
                 modulep |-> kexec.boot.modulep, kernend |-> kexec.boot.kernend]
<1>9. h \in Handed
  BY <1>6, <1>8 DEF Handed
<1> QED
  BY <1>1, <1>2, <1>9

\* A segment of the image has an address and sizes.
LEMMA LoadedTyped ==
  ASSUME TypeOK, NEW s \in Loaded(kexec)
  PROVE  s \in SegmentType
<1>1. kexec.nr \in 0 .. 6 /\ kexec.segs \in [SegIndex -> SegmentType]
  BY DEF TypeOK, ImageType, Slots
<1>2. PICK k \in 0 .. kexec.nr - 1 : s = kexec.segs[k]
  BY DEF Loaded
<1>3. k \in SegIndex
  BY <1>1, <1>2 DEF SegIndex, KEXEC_SEGMENT_MAX
<1> QED
  BY <1>1, <1>2, <1>3

\* Before the entry is reached the processor's state is that of a start.
LEMMA HInvInit ==
  ASSUME InitBoth
  PROVE  HInv
<1>1. kexec.owner # "beastie"
  BY DEF InitBoth, Init, NoImage, ForeignImage, Image
<1>2. tpc = "entry" /\ TP!Start
  BY SameStart DEF InitBoth, T!Start
<1> QED
  BY <1>1, <1>2, InvInit DEF InitBoth, HInv, StagedFits

\* Linux, and beastie under it, run only before the machine has entered the image.
LEMMA OnLinuxStep ==
  ASSUME HInv, OnLinux
  PROVE  HInv'
<1>1. ~Entered
  <2> SUFFICES ASSUME Entered PROVE FALSE
    OBVIOUS
  <2>1. machine = "kexeced" /\ pc = "done"
    BY DEF Entered, HInv, IInv, Control
  <2> QED
    BY <2>1 DEF OnLinux, Main, initReboot, otherKexec, geteuid, Construct, setHowto, setForce,
       fontLoad, fileLoad, load, pretend, shutdown, forcedshutdown, unload
<1>2. tpc = "entry" /\ TP!Start
  BY <1>1 DEF HInv
<1>3. [Next]_vars
  BY DEF OnLinux, Next
<1>4. IInv' /\ StagedFits'
  BY <1>3, InvStep, FitsStep DEF HInv
<1>5. tpc' = "entry" /\ TP!Start'
  BY <1>2 DEF OnLinux, machineVars, TP!Start, TP!BlockPages, TP!Index, TP!NoEntry, TP!StackSlots
<1> QED
  BY <1>4, <1>5 DEF HInv

\* What was staged stays as it was while the trampoline runs.
LEMMA StagedKept ==
  ASSUME HInv, UNCHANGED vars
  PROVE  IInv' /\ StagedFits' /\ (Entered => Entered')
<1>1. IInv' /\ StagedFits'
  BY InvStep, FitsStep DEF HInv
<1> QED
  BY <1>1 DEF vars, host, Entered, At, Loaded

\* The trampoline starts with a staged image in range, and goes on as its own
\* invariant says.
LEMMA TrampolineStep ==
  ASSUME HInv, Trampoline
  PROVE  HInv'
<1>1. Entered /\ UNCHANGED vars /\ TP!Step
  BY SameStep DEF Trampoline
<1>2. IInv' /\ StagedFits' /\ Entered'
  BY <1>1, StagedKept
<1>3. TP!IInv
  <2>1. CASE tpc = "entry"
    <3>1. TP!Init
      BY <1>1, <2>1, EnteredInRange DEF HInv, TP!Init
    <3> QED
      BY <3>1, TrampolineAssumptions, TP!InvInit
  <2>2. CASE tpc # "entry"
    BY <2>2 DEF HInv
  <2> QED
    BY <2>1, <2>2
<1>4. [TP!Next]_(TP!vars)
  BY <1>1 DEF TP!Next
<1>5. TP!IInv'
  BY <1>3, <1>4, TrampolineAssumptions, TP!InvStep
<1>6. tpc' # "entry"
  BY <1>1 DEF TP!Step, TP!setGDT, TP!updateCS, TP!loadSegments, TP!lowTables, TP!lp_pd0,
     TP!highTables, TP!lp_pd1, TP!loadCR3, TP!pushHandoff, TP!jump
<1> QED
  BY <1>2, <1>5, <1>6 DEF HInv

LEMMA HInvStep ==
  ASSUME HInv, [NextBoth]_<<vars, machineVars>>
  PROVE  HInv'
<1>1. CASE UNCHANGED <<vars, machineVars>>
  <2>1. IInv' /\ StagedFits' /\ (Entered => Entered')
    BY <1>1, StagedKept
  <2>2. CASE tpc = "entry"
    BY <1>1, <2>1, <2>2 DEF HInv, machineVars, TP!Start, TP!BlockPages, TP!Index, TP!NoEntry,
       TP!StackSlots
  <2>3. CASE tpc # "entry"
    <3>1. UNCHANGED TP!vars
      BY <1>1 DEF vars, host, machineVars, TP!vars, TP!handoff, TP!cpu
    <3>2. TP!IInv'
      BY <2>3, <3>1, TrampolineAssumptions, TP!InvStep DEF HInv
    <3> QED
      BY <1>1, <2>1, <2>3, <3>2 DEF HInv, machineVars
  <2> QED
    BY <2>2, <2>3
<1> QED
  BY <1>1, OnLinuxStep, TrampolineStep DEF NextBoth, Ended

\* Both programs' invariants hold in every state of the composition.
THEOREM BothInvariant == SpecBoth => []HInv
  BY HInvInit, HInvStep, PTL DEF SpecBoth

-----------------------------------------------------------------------------
(* What follows from it                                                    *)

\* The kernel that the trampoline jumps to is there, and everything it is told of.
THEOREM EverythingFound == SpecBoth => []KernelFindsEverything
<1>1. HInv => KernelFindsEverything
  <2> SUFFICES ASSUME HInv, tpc = "btext", Executable
               PROVE  KernelFindsEverything
    BY DEF KernelFindsEverything
  <2>1. TP!IInv /\ Entered
    BY DEF HInv
  <2>2. kexec.owner = "beastie" /\ kernel.type = "EXEC"
    BY <2>1, EnteredInRange DEF HInv
  <2>3. Reachable(kexec) /\ ClearOfKernend(kexec)
    BY <2>2 DEF HInv, IInv, HandoffReachable, HandoffBelowKernend
  <2>4. rsp - 1 = 2 /\ rsp - 2 = 1 /\ stack[1] = kexec.boot.kernend
        /\ stack[2] = kexec.boot.modulep /\ cr3 # 0
    BY <2>1 DEF TP!IInv, TP!Pushed, TP!Built, TP!Live
  <2>5. \E s \in Loaded(kexec) : s.buf = "meta" /\ s.mem = stack[rsp - 1]
    BY <2>3, <2>4 DEF Reachable, At
  <2>6. \A s \in Loaded(kexec) : s.mem + s.memsz <= stack[rsp - 2]
    BY <2>3, <2>4 DEF ClearOfKernend
  <2>7. PICK s \in Loaded(kexec) : s.buf = "kern" /\ s.mem = KernPhys /\ s.bufsz = kernel.kern
    BY <2>2, <2>3 DEF Reachable, At, HInv, StagedFits
  <2>8. KernPhys <= kernel.entry /\ kernel.entry < KernPhys + kernel.kern
        /\ kernel.entry < KernelSpace /\ kernel.entry \in Nat /\ kernel.kern \in Nat
    BY AddressSpace, InputType DEF HInv, IInv, TypeOK, Executable
  <2>9. Holds(s, kernel.entry)
    <3>1. s.bufsz <= s.memsz
      BY <2>2 DEF HInv, StagedFits
    <3>2. s.memsz \in Nat
      BY LoadedTyped DEF HInv, IInv, SegmentType
    <3>3. KernPhys \in Nat
      BY LayoutAssumption
    <3> QED
      BY <2>7, <2>8, <3>1, <3>2, <3>3 DEF Holds
  <2>10. TP!MapsTo(TP!High(kernel.entry \div KernPhys), kernel.entry \div KernPhys)
    BY <2>1, <2>4, <2>8, FrameInSpace, TrampolineAssumptions, TP!Walk DEF TP!HighLinear
  <2>11. T!MapsTo(T!High(kernel.entry \div KernPhys), kernel.entry \div KernPhys)
    BY <2>10, SameMapping
  <2> QED
    BY <2>5, <2>6, <2>7, <2>9, <2>11 DEF KernelFindsEverything
<1> QED
  BY <1>1, BothInvariant, PTL

\* Whatever block was staged, of whatever kernel, it is mapped where FreeBSD looks for
\* it and at its own address.
THEOREM StagedMapped == SpecBoth => []StagedIsMapped
<1>1. HInv => StagedIsMapped
  <2> SUFFICES ASSUME HInv, cr3 # 0, NEW s \in Loaded(kexec), NEW f \in Frames(s)
               PROVE  T!MapsTo(T!High(f), f) /\ T!MapsTo(T!Low(f), f)
    BY DEF StagedIsMapped
  <2>1. tpc # "entry"
    BY DEF HInv, TP!Start
  <2>2. TP!IInv /\ Entered
    BY <2>1 DEF HInv
  <2>3. TP!LowIdentity /\ TP!HighLinear
    BY <2>2, TrampolineAssumptions, TP!Walk
  <2>4. f \in 0 .. 2 * EntriesPerTable - 1
    <3>1. s.mem \in Nat /\ s.memsz \in Nat
      BY LoadedTyped DEF HInv, IInv, SegmentType
    <3>2. s.mem + s.memsz <= KernelSpace /\ KernelSpace \in Nat
      BY <2>2, AddressSpace, LayoutAssumption, SMT DEF Entered, HInv, StagedFits, KernelSpace
    <3>3. KernPhys \in Nat \ {0}
      BY TrampolineAssumptions, PagesAgree, LayoutAssumption, SMT DEF TP!TableAssumption
    <3>4. s.mem \div KernPhys \in Nat
      BY <3>1, <3>3, DivMod
    <3>5. CASE s.mem + s.memsz = 0
      <4> DEFINE last == s.mem + s.memsz - 1
      <4>1. last = 0 - 1
        BY <3>1, <3>5
      <4> HIDE DEF last
      <4>2. last \div KernPhys < 0 /\ last \div KernPhys \in Int
        BY <3>3, <4>1, SMT
      <4>3. f \in s.mem \div KernPhys .. last \div KernPhys
        BY DEF Frames, last
      <4> QED
        BY <3>4, <4>2, <4>3
    <3>6. CASE s.mem + s.memsz > 0
      <4>1. s.mem + s.memsz - 1 \in Nat /\ s.mem + s.memsz - 1 < KernelSpace
        BY <3>1, <3>2, <3>6
      <4>2. (s.mem + s.memsz - 1) \div KernPhys \in 0 .. 2 * EntriesPerTable - 1
        BY <4>1, FrameInSpace
      <4> QED
        BY <3>4, <4>2, AddressSpace DEF Frames
    <3> QED
      BY <3>1, <3>5, <3>6
  <2>5. f \in 0 .. 4 * EntriesPerTable - 1
    BY <2>4, AddressSpace
  <2>6. TP!MapsTo(TP!High(f), f) /\ TP!MapsTo(TP!Low(f), f)
    BY <2>1, <2>3, <2>4, <2>5 DEF TP!LowIdentity, TP!HighLinear
  <2> QED
    BY <2>6, SameMapping
<1> QED
  BY <1>1, BothInvariant, PTL
=============================================================================
