-------------------------- MODULE BootloaderProofs --------------------------
(***************************************************************************)
(* Typing, the safety properties and the contract of Bootloader, for every *)
(* page size, block size, file, option, failure and, but for the last part, *)
(* other user of kexec.                                                    *)
(***************************************************************************)
EXTENDS BootloaderContract, AlignmentProofs

-----------------------------------------------------------------------------
(* Typing                                                                  *)

\* The reservation of a block of any size is a natural number.
LEMMA RoundupNat ==
  ASSUME NEW i \in Nat
  PROVE  roundup(i, PageSize) \in Nat
  BY LayoutAssumption, RoundupBounds

\* The layout of elfLoadExec gives every block an address.
LEMMA LayoutType ==
  ASSUME NEW size \in [Blocks -> Nat], m_phys \in [Blocks -> Nat]
  PROVE  Layout(size) \in [Blocks -> Nat]
  BY RoundupNat, LayoutAssumption, SMT DEF Layout, Blocks

\* What each file holds.
LEMMA InputType ==
  ASSUME font \in FontFiles, kernel \in KernelFiles
  PROVE  /\ font.size \in Nat
         /\ kernel.entry \in Nat /\ kernel.kern \in Nat /\ kernel.sym \in Nat
<1>1. font \in FontFile /\ kernel \in KernelFile
  BY InputAssumption
<1> QED
  BY <1>1 DEF FontFile, KernelFile

\* The sizes elfLoadExec works with are natural numbers.
LEMMA LoadedSizeType ==
  ASSUME TypeOK, NEW n \in MetaSizes
  PROVE  LoadedSize(n) \in [Blocks -> Nat]
<1>1. n \in Nat
  BY InputAssumption
<1>2. kernel.kern \in Nat /\ kernel.sym \in Nat
  BY InputType DEF TypeOK
<1>3. m_size["sym"] \in Nat
  BY DEF TypeOK, Blocks
<1>4. m_size["sym"] + kernel.sym \in Nat
  BY <1>2, <1>3
<1> QED
  BY <1>1, <1>2, <1>4 DEF TypeOK, LoadedSize

\* The metadata writeMetadata produces from such sizes and addresses is metadata.
LEMMA MetadataType ==
  ASSUME m_howto \in Nat, NEW size \in [Blocks -> Nat], NEW phys \in [Blocks -> Nat]
  PROVE  writeMetadata(size, phys) \in MetaType
<1>1. \A b \in {"kern", "sym", "env", "font"} : size[b] \in Nat /\ phys[b] \in Nat
  BY DEF Blocks
<1>2. phys["sym"] + size["sym"] \in Nat
  BY <1>1
<1> QED
  BY <1>1, <1>2 DEF writeMetadata, MetaType

\* So is what the object holds once BootAssembler ran or threw.
LEMMA AssembledType ==
  ASSUME TypeOK, NEW size \in [Blocks -> Nat], NEW phys \in [Blocks -> Nat],
         assemble(size, phys)
  PROVE  /\ m_size' \in [Blocks -> Nat] /\ m_phys' \in [Blocks -> Nat]
         /\ m_boot' \in BootType
<1>1. phys["meta"] \in Nat /\ size["meta"] \in Nat
  BY DEF Blocks
<1>2. Kernend(size, phys) \in Nat
  BY <1>1, RoundupNat DEF Kernend
<1>3. [btext |-> kernel.entry, modulep |-> phys["meta"],
       kernend |-> Kernend(size, phys)] \in BootType
  BY <1>1, <1>2, InputType DEF BootType, TypeOK
<1>4. BootPhys \in Nat /\ BootBlockSize \in Nat
  BY LayoutAssumption
<1> QED
  BY <1>3, <1>4 DEF assemble, TypeOK

\* A block is counted once or not at all.
LEMMA PresentType == \A b \in Blocks : Present(b) \in {0, 1}
  BY DEF Present

\* The count prepareSegments takes is at most the number of blocks.
LEMMA CountType ==
  Present("kern") + Present("sym") + Present("env") + Present("meta")
    + Present("boot") + Present("font") \in 0 .. Len(Slots)
<1>1. \A b \in {"kern", "sym", "env", "meta", "boot", "font"} : Present(b) \in 0 .. 1
  BY PresentType DEF Blocks
<1>2. Len(Slots) = 6
  BY DEF Slots
<1> QED
  BY <1>1, <1>2

\* The segments prepareSegments fills in are segments.
LEMMA FilledType ==
  ASSUME TypeOK
  PROVE  Filled \in [SegIndex -> SegmentType]
<1>1. \A b \in Blocks : Segment(b) \in SegmentType
  BY RoundupNat DEF TypeOK, Segment, SegmentType
<1>2. \A i \in SegIndex : i < Len(Slots) => Slots[i + 1] \in Blocks
  BY SMT DEF SegIndex, KEXEC_SEGMENT_MAX, Slots, Blocks
<1> QED
  BY <1>1, <1>2 DEF Filled, TypeOK

\* An image made of the object's own state is an image.
LEMMA ImageTyped ==
  ASSUME NEW segs \in [SegIndex -> SegmentType], NEW nr \in 0 .. Len(Slots),
         NEW meta \in MetaType, NEW boot \in BootType
  PROVE  Image("beastie", nr, segs, meta, boot) \in ImageType
  BY LayoutAssumption DEF Image, ImageType

\* The images of other processes are images too.
LEMMA OtherImagesTyped == NoImage \in ImageType /\ ForeignImage \in ImageType
<1>1. NoSegment \in SegmentType
  BY DEF NoSegment, SegmentType
<1>2. NoMeta \in MetaType /\ NoBoot \in BootType
  BY DEF NoMeta, MetaType, NoBoot, BootType
<1>3. ForeignImage = [owner |-> "other", entry |-> BootPhys, nr |-> 0,
                      segs |-> [i \in SegIndex |-> NoSegment],
                      meta |-> NoMeta, boot |-> NoBoot]
  BY DEF ForeignImage, Image
<1>4. NoImage = [owner |-> "none", entry |-> BootPhys, nr |-> 0,
                 segs |-> [i \in SegIndex |-> NoSegment],
                 meta |-> NoMeta, boot |-> NoBoot]
  BY <1>3 DEF NoImage
<1>5. 0 \in 0 .. Len(Slots)
  BY SMT DEF Slots
<1> QED
  BY <1>1, <1>2, <1>3, <1>4, <1>5, LayoutAssumption DEF ImageType

\* Every initial value is in its range.
LEMMA TypingInit ==
  ASSUME Init
  PROVE  TypeOK
<1>1. m_segments \in [SegIndex -> SegmentType] /\ m_nr_segments \in 0 .. Len(Slots)
  BY SMT DEF Init, NoSegment, SegmentType, Slots
<1>2. m_meta \in MetaType /\ m_boot \in BootType
  BY DEF Init, NoMeta, MetaType, NoBoot, BootType
<1>3. kexec \in ImageType
  BY OtherImagesTyped DEF Init
<1>4. m_size \in [Blocks -> Nat] /\ m_phys \in [Blocks -> Nat]
  BY DEF Init
<1>5. pc \in Labels
  BY DEF Init, Labels, After
<1> QED
  BY <1>1, <1>2, <1>3, <1>4, <1>5 DEF Init, TypeOK

\* Every statement, failure and host step keeps the types.
LEMMA TypingStep ==
  ASSUME TypeOK, [Next]_vars
  PROVE  TypeOK'
<1> USE DEF Return, Throw, Goto, Exit
<1>0. /\ After["geteuid"] \in Labels /\ After["Bootloader"] \in Labels
      /\ After["setHowto"] \in Labels /\ After["setForce"] \in Labels
      /\ After["fontLoad"] \in Labels /\ After["fileLoad"] \in Labels
      /\ After["boot"] \in Labels /\ "unload" \in Labels /\ "done" \in Labels
      /\ "shutdown" \in Labels /\ "forcedshutdown" \in Labels
  BY DEF Labels, After
<1>1. CASE geteuid
  BY <1>0, <1>1 DEF TypeOK, geteuid, world, object, host
<1>2. CASE Construct
  <2>1. m_size' \in [Blocks -> Nat] /\ m_phys' \in [Blocks -> Nat]
    BY <1>2, InputAssumption DEF TypeOK, Construct
  <2> QED
    BY <1>0, <1>2, <2>1 DEF TypeOK, Construct, world, host
<1>3. CASE setHowto
  BY <1>0, <1>3, InputAssumption DEF TypeOK, setHowto, world, host
<1>4. CASE setForce
  BY <1>0, <1>4 DEF TypeOK, setForce, world, host
<1>5. CASE fontLoad
  <2>1. m_size' \in [Blocks -> Nat]
    BY <1>5, InputType DEF TypeOK, fontLoad
  <2>2. pc' \in Labels /\ raised' \in BOOLEAN /\ exit' \in {exit, "aborted"}
    BY <1>0, <1>5 DEF TypeOK, fontLoad
  <2> QED
    BY <1>5, <2>1, <2>2 DEF TypeOK, fontLoad, world, host
<1>6. CASE fileLoad
  <2>1. /\ m_size' \in [Blocks -> Nat] /\ m_phys' \in [Blocks -> Nat]
        /\ m_meta' \in MetaType /\ m_boot' \in BootType
    <3>1. CASE UNCHANGED <<m_size, m_phys, m_meta, m_boot>>
      BY <3>1 DEF TypeOK
    <3>2. CASE elfLoadExec
      <4>1. PICK n \in MetaSizes :
              /\ m_meta' = writeMetadata(LoadedSize(n), Layout(LoadedSize(n)))
              /\ assemble(LoadedSize(n), Layout(LoadedSize(n)))
        BY <3>2 DEF elfLoadExec
      <4>2. LoadedSize(n) \in [Blocks -> Nat]
        BY LoadedSizeType
      <4>3. Layout(LoadedSize(n)) \in [Blocks -> Nat]
        BY <4>2, LayoutType DEF TypeOK
      <4>4. m_meta' \in MetaType
        BY <4>1, <4>2, <4>3, MetadataType DEF TypeOK
      <4> QED
        BY <4>1, <4>2, <4>3, <4>4, AssembledType
    <3> QED
      BY <1>6, <3>1, <3>2 DEF fileLoad, elfRejected, elfLoadRel
  <2>2. pc' \in Labels /\ raised' \in BOOLEAN
        /\ exit' \in {exit, "aborted"}
    BY <1>0, <1>6 DEF TypeOK, fileLoad, elfRejected, elfLoadRel, elfLoadExec, assemble
  <2> QED
    BY <1>6, <2>1, <2>2 DEF TypeOK, fileLoad, world, host
<1>7. CASE load
  <2>1. m_segments' \in [SegIndex -> SegmentType] /\ m_nr_segments' \in 0 .. Len(Slots)
    BY <1>7, FilledType, CountType DEF load, prepareSegments
  <2>2. CASE Staging /\ Shutdown
    <3>1. kexec' \in ImageType
      BY <2>1, <2>2, ImageTyped DEF TypeOK, Staging
    <3> QED
      BY <1>0, <1>7, <2>1, <2>2, <3>1 DEF TypeOK, load, Shutdown, world
  <2>3. CASE Throw /\ UNCHANGED kexec
    BY <1>0, <1>7, <2>1, <2>3 DEF TypeOK, load, world
  <2> QED
    BY <1>7, <2>2, <2>3 DEF load, kexec_load
<1>8. CASE pretend
  BY <1>0, <1>8 DEF TypeOK, pretend, world, object, host
<1>9. CASE shutdown
  <2>1. /\ pc' \in Labels /\ raised' \in BOOLEAN
        /\ exit' \in {exit, "replaced"} /\ machine' \in {machine, "shuttingdown"}
    BY <1>0, <1>9 DEF TypeOK, shutdown
  <2> QED
    BY <1>9, <2>1 DEF TypeOK, shutdown, world, object
<1>10. CASE forcedshutdown
  <2>1. /\ pc' \in Labels /\ raised' = raised
        /\ exit' \in {exit, "gone"} /\ machine' \in {machine, "kexeced"}
    BY <1>0, <1>10 DEF TypeOK, forcedshutdown
  <2> QED
    BY <1>10, <2>1 DEF TypeOK, forcedshutdown, world, object
<1>11. CASE unload
  <2>1. /\ kexec' \in {kexec, NoImage} /\ crash' \in {crash, "none"}
        /\ exit' \in {"ok", "error", "terminated"}
    BY <1>11 DEF unload, kexec_unload
  <2> QED
    BY <1>0, <1>11, <2>1, OtherImagesTyped DEF TypeOK, unload, world, object
<1>12. CASE initReboot
  BY <1>12 DEF TypeOK, initReboot, world, object, host
<1>13. CASE otherKexec
  BY <1>13, OtherImagesTyped DEF TypeOK, otherKexec, world, object, host
<1>14. CASE UNCHANGED vars
  BY <1>14 DEF TypeOK, vars, world, object, host
<1> QED
  BY <1>1, <1>2, <1>3, <1>4, <1>5, <1>6, <1>7, <1>8, <1>9, <1>10, <1>11,
     <1>12, <1>13, <1>14 DEF Next, Main, Stopped

\* Variables keep their types through every statement, failure and host step; in
\* particular a kexec_load call never names more segments than there are blocks.
THEOREM Typing == Spec => []TypeOK
  BY TypingInit, TypingStep, PTL DEF Spec

-----------------------------------------------------------------------------
(* Safety.  None of the properties is inductive: what is staged at boot was *)
(* laid out at fileLoad, from sizes that the constructor and fontLoad left *)
(* behind.  The invariant therefore says what each statement of main() may *)
(* rely on.                                                                *)

Reserved(b) == roundup(m_size[b], PageSize)

\* Each block starts where the one before it ends, and the trampoline and the
\* metadata were made from exactly these addresses and sizes.
LaidOut ==
  /\ m_size["kern"] = kernel.kern /\ m_size["sym"] = kernel.sym
  /\ m_size["meta"] \in MetaSizes /\ m_size["boot"] = BootBlockSize
  /\ m_phys["boot"] = BootPhys
  /\ m_phys["kern"] = KernPhys
  /\ m_phys["sym"]  = m_phys["kern"] + Reserved("kern")
  /\ m_phys["env"]  = m_phys["sym"]  + Reserved("sym")
  /\ m_phys["font"] = m_phys["env"]  + Reserved("env")
  /\ m_phys["meta"] = m_phys["font"] + Reserved("font")
  /\ m_meta = writeMetadata(m_size, m_phys)
  /\ m_boot = [btext |-> kernel.entry, modulep |-> m_phys["meta"],
               kernend |-> Kernend(m_size, m_phys)]

\* The blocks that are not empty yet, statement by statement.
Progress ==
  /\ pc \in {"geteuid", "Bootloader"} => \A b \in Blocks : m_size[b] = 0
  /\ pc \in {"setHowto", "setForce", "fontLoad"} =>
       \A b \in Blocks \ {"env"} : m_size[b] = 0
  /\ pc = "fileLoad" => \A b \in Blocks \ {"env", "font"} : m_size[b] = 0
  /\ pc \in {"setHowto", "setForce", "fontLoad", "fileLoad", "boot"} =>
       m_size["env"] \in EnvSizes
  /\ pc \in {"fileLoad", "boot"} => m_size["font"] = font.size
  /\ pc = "boot" =>
       \/ kernel.type = "EXEC" /\ kernel.sym > 0 /\ LaidOut
       \/ kernel.type = "REL" /\ \A b \in Blocks \ {"env", "font"} : m_size[b] = 0

\* prepareSegments runs once, on segments that are still empty.
Unprepared ==
  pc \in {"geteuid", "Bootloader", "setHowto", "setForce", "fontLoad", "fileLoad", "boot"}
    => m_nr_segments = 0 /\ \A i \in SegIndex : m_segments[i] = NoSegment

\* What the options decide about the control flow.
Control ==
  /\ pc \in {"fontLoad", "fileLoad", "boot"} => m_force = opts.force
  /\ pc \in {"setForce", "fontLoad", "fileLoad", "boot"} => m_howto = opts.howto
  /\ pc \in {"shutdown", "forcedshutdown"} => ~opts.pretend
  /\ pc = "forcedshutdown" => opts.force
  /\ pc = "unload" /\ ~raised => opts.pretend \/ opts.force
  /\ machine # "linux" => pc = "done"

IInv ==
  /\ TypeOK /\ Progress /\ Unprepared /\ Control
  /\ LayoutAcceptable /\ HandoffReachable /\ HandoffBelowKernend /\ HowtoDelivered
  /\ PretendStaysPut /\ CleanRebootFailureReported

-----------------------------------------------------------------------------
(* A laid out object                                                       *)

\* Every reservation is page-aligned and holds its block.
LEMMA ReservedBounds ==
  ASSUME TypeOK, NEW b \in Blocks
  PROVE  /\ Reserved(b) \in Nat /\ Reserved(b) % PageSize = 0
         /\ m_size[b] <= Reserved(b) /\ m_size[b] \in Nat /\ m_phys[b] \in Nat
<1>1. m_size[b] \in Nat /\ m_phys[b] \in Nat
  BY DEF TypeOK
<1>2. PageSize \in Nat \ {0}
  BY LayoutAssumption
<1>3. /\ roundup(m_size[b], PageSize) \in Nat
      /\ m_size[b] < roundup(m_size[b], PageSize)
      /\ roundup(m_size[b], PageSize) % PageSize = 0
  BY <1>1, <1>2, RoundupBounds, RoundupAligned
<1> QED
  BY <1>1, <1>3 DEF Reserved

\* The chain of elfLoadExec keeps every block on a page boundary.
LEMMA LaidOutAligned ==
  ASSUME TypeOK, LaidOut
  PROVE  \A b \in Blocks : m_phys[b] % PageSize = 0
<1>1. PageSize \in Nat \ {0}
  BY LayoutAssumption
<1>2. m_phys["boot"] % PageSize = 0 /\ m_phys["kern"] % PageSize = 0
  BY LayoutAssumption DEF LaidOut
<1>3. ASSUME NEW b \in Blocks, NEW c \in Blocks, m_phys[b] % PageSize = 0,
             m_phys[c] = m_phys[b] + Reserved(b)
      PROVE  m_phys[c] % PageSize = 0
  <2>1. /\ Reserved(b) \in Nat /\ Reserved(b) % PageSize = 0
        /\ m_phys[b] \in Nat
    BY ReservedBounds
  <2>2. (m_phys[b] + Reserved(b)) % PageSize = 0
    BY <1>1, <1>3, <2>1, SumAligned
  <2> QED
    BY <1>3, <2>2
<1>4. /\ m_phys["sym"]  = m_phys["kern"] + Reserved("kern")
      /\ m_phys["env"]  = m_phys["sym"]  + Reserved("sym")
      /\ m_phys["font"] = m_phys["env"]  + Reserved("env")
      /\ m_phys["meta"] = m_phys["font"] + Reserved("font")
  BY DEF LaidOut
<1>5. {"kern", "sym", "env", "font", "meta"} \subseteq Blocks
  BY DEF Blocks
<1>6. m_phys["sym"] % PageSize = 0
  BY <1>2, <1>3, <1>4, <1>5
<1>7. m_phys["env"] % PageSize = 0
  BY <1>3, <1>4, <1>5, <1>6
<1>8. m_phys["font"] % PageSize = 0
  BY <1>3, <1>4, <1>5, <1>7
<1>9. m_phys["meta"] % PageSize = 0
  BY <1>3, <1>4, <1>5, <1>8
<1> QED
  BY <1>2, <1>6, <1>7, <1>8, <1>9 DEF Blocks

\* Two blocks never share a byte, the trampoline below the kernel included, and
\* none reaches beyond kernend.
LEMMA LaidOutDisjoint ==
  ASSUME TypeOK, LaidOut
  PROVE  /\ \A b, c \in Blocks : b # c =>
              \/ m_phys[b] + Reserved(b) <= m_phys[c]
              \/ m_phys[c] + Reserved(c) <= m_phys[b]
         /\ \A b \in Blocks : m_phys[b] + Reserved(b) <= m_boot.kernend
<1>1. \A b \in Blocks : Reserved(b) \in Nat /\ m_phys[b] \in Nat
  BY ReservedBounds
<1>2. m_phys["boot"] + Reserved("boot") <= m_phys["kern"]
  BY LayoutAssumption DEF LaidOut, Reserved
<1>3. /\ m_phys["sym"]  = m_phys["kern"] + Reserved("kern")
      /\ m_phys["env"]  = m_phys["sym"]  + Reserved("sym")
      /\ m_phys["font"] = m_phys["env"]  + Reserved("env")
      /\ m_phys["meta"] = m_phys["font"] + Reserved("font")
  BY DEF LaidOut
<1>4. m_boot.kernend = m_phys["meta"] + Reserved("meta")
  BY DEF LaidOut, Kernend, Reserved
<1> QED
  BY <1>1, <1>2, <1>3, <1>4 DEF Blocks

-----------------------------------------------------------------------------
(* The segments prepareSegments makes of it                                *)

Count == Present("kern") + Present("sym") + Present("env")
           + Present("meta") + Present("boot") + Present("font")

\* A filled segment is a block at its address, or has stayed empty.
LEMMA FilledSegments ==
  ASSUME TypeOK, \A i \in SegIndex : m_segments[i] = NoSegment
  PROVE  /\ \A i \in 0 .. 5 : \/ Filled[i] = NoSegment
                             \/ Filled[i] = Segment(Slots[i + 1])
         /\ \A i \in 0 .. 5 : m_size[Slots[i + 1]] > 0
                             => Filled[i] = Segment(Slots[i + 1])
         /\ \A i \in 0 .. 5 : i \in SegIndex /\ Slots[i + 1] \in Blocks
         /\ \A i, j \in 0 .. 5 : i # j => Slots[i + 1] # Slots[j + 1]
<1>1. \A i \in 0 .. 5 : i \in SegIndex
  BY DEF SegIndex, KEXEC_SEGMENT_MAX
<1>2. Len(Slots) = 6
  BY DEF Slots
<1>3. /\ Slots[1] = "kern" /\ Slots[2] = "sym"  /\ Slots[3] = "env"
      /\ Slots[4] = "meta" /\ Slots[5] = "boot" /\ Slots[6] = "font"
  BY DEF Slots
<1>4. \A i \in 0 .. 5 : i = 0 \/ i = 1 \/ i = 2 \/ i = 3 \/ i = 4 \/ i = 5
  OBVIOUS
<1>5. /\ \A i \in 0 .. 5 : Slots[i + 1] \in Blocks
      /\ \A i, j \in 0 .. 5 : i # j => Slots[i + 1] # Slots[j + 1]
  BY <1>3, <1>4 DEF Blocks
<1>6. \A i \in 0 .. 5 : Filled[i] = IF m_size[Slots[i + 1]] > 0
                                  THEN Segment(Slots[i + 1]) ELSE NoSegment
  BY <1>1, <1>2 DEF Filled
<1> QED
  BY <1>1, <1>5, <1>6

\* Whatever Ready object boot() finds, the host's rules hold for what it stages.
LEMMA StagedAcceptable ==
  ASSUME TypeOK, LaidOut, \A i \in SegIndex : m_segments[i] = NoSegment
  PROVE  KexecAccepts(Filled, Count)
<1>1. Count \in 0 .. 6
  BY CountType DEF Count, Slots
<1>2. NoSegment.mem = 0 /\ NoSegment.memsz = 0 /\ NoSegment.bufsz = 0
  BY DEF NoSegment
<1>3. \A b \in Blocks : /\ Segment(b).mem = m_phys[b] /\ Segment(b).memsz = Reserved(b)
                        /\ Segment(b).bufsz = m_size[b]
  BY DEF Segment, Reserved
<1>4. \A b \in Blocks : /\ Reserved(b) \in Nat /\ Reserved(b) % PageSize = 0
                        /\ m_size[b] <= Reserved(b)
                        /\ m_phys[b] \in Nat /\ m_phys[b] % PageSize = 0
  BY ReservedBounds, LaidOutAligned
<1>5. 0 % PageSize = 0
  BY LayoutAssumption, MultipleAligned
<1>6. \A i \in 0 .. 5 : /\ Filled[i].mem % PageSize = 0
                        /\ Filled[i].memsz % PageSize = 0
                        /\ Filled[i].bufsz <= Filled[i].memsz
  BY <1>2, <1>3, <1>4, <1>5, FilledSegments
<1>7. \A i, j \in 0 .. 5 : i # j => Disjoint(Filled[i], Filled[j])
  <2> SUFFICES ASSUME NEW i \in 0 .. 5, NEW j \in 0 .. 5, i # j
               PROVE  Disjoint(Filled[i], Filled[j])
    OBVIOUS
  <2>1. CASE Filled[i] = NoSegment
    <3>1. Filled[j].mem \in Nat
      BY <1>2, <1>3, <1>4, FilledSegments
    <3> QED
      BY <2>1, <3>1, <1>2 DEF Disjoint
  <2>2. CASE Filled[j] = NoSegment
    <3>1. Filled[i].mem \in Nat
      BY <1>2, <1>3, <1>4, FilledSegments
    <3> QED
      BY <2>2, <3>1, <1>2 DEF Disjoint
  <2>3. CASE Filled[i] = Segment(Slots[i + 1]) /\ Filled[j] = Segment(Slots[j + 1])
    <3>1. /\ Slots[i + 1] \in Blocks /\ Slots[j + 1] \in Blocks
          /\ Slots[i + 1] # Slots[j + 1]
      BY FilledSegments
    <3> QED
      BY <2>3, <3>1, <1>3, LaidOutDisjoint DEF Disjoint
  <2> QED
    BY <2>1, <2>2, <2>3, FilledSegments
<1> QED
  BY <1>1, <1>6, <1>7 DEF KexecAccepts, KEXEC_SEGMENT_MAX

\* Of a relocatable file nothing is loaded; the two segments counted are empty.
LEMMA ModuleAcceptable ==
  ASSUME TypeOK, \A b \in Blocks \ {"env", "font"} : m_size[b] = 0,
         \A i \in SegIndex : m_segments[i] = NoSegment
  PROVE  KexecAccepts(Filled, Count)
<1>1. Present("kern") = 0 /\ Present("sym") = 0 /\ Present("meta") = 0 /\ Present("boot") = 0
  BY DEF Present, Blocks
<1>2. Count \in 0 .. 2
  BY <1>1, PresentType DEF Count, Blocks
<1>3. Slots[1] = "kern" /\ Slots[2] = "sym"
  BY DEF Slots
<1>4. m_size["kern"] = 0 /\ m_size["sym"] = 0
  BY DEF Blocks
<1>5. Filled[0] = NoSegment /\ Filled[1] = NoSegment
  BY <1>3, <1>4 DEF Filled, SegIndex, KEXEC_SEGMENT_MAX
<1>6. 0 % PageSize = 0
  BY LayoutAssumption, MultipleAligned
<1>7. NoSegment.mem = 0 /\ NoSegment.memsz = 0 /\ NoSegment.bufsz = 0
  BY DEF NoSegment
<1> QED
  BY <1>2, <1>5, <1>6, <1>7 DEF KexecAccepts, KEXEC_SEGMENT_MAX, Disjoint

\* The image that boot() stages of an object in this state.
StagedImage == Image("beastie", Count, Filled, m_meta, m_boot)

\* With a kernel and symbols in it, all six blocks are staged, each at its address.
LEMMA AllStaged ==
  ASSUME TypeOK, LaidOut, \A i \in SegIndex : m_segments[i] = NoSegment,
         Executable, kernel.sym > 0, m_size["env"] \in EnvSizes,
         m_size["font"] = font.size
  PROVE  /\ Loaded(StagedImage) = {Segment(b) : b \in Blocks}
         /\ \A b \in Blocks : At(StagedImage, b, m_size[b], m_phys[b])
<1>1. font \in FontFile
  BY InputAssumption DEF TypeOK
<1>2. \A b \in Blocks : m_size[b] \in Nat /\ m_size[b] > 0
  <2>1. m_size["env"] > 0 /\ m_size["meta"] > 0 /\ m_size["boot"] > 0
    <3>1. m_size["meta"] \in MetaSizes /\ m_size["boot"] = BootBlockSize
      BY DEF LaidOut
    <3>2. EnvSizes \subseteq Nat \ {0} /\ MetaSizes \subseteq Nat \ {0}
      BY InputAssumption, Zenon
    <3>3. BootBlockSize \in Nat \ {0}
      BY LayoutAssumption, Zenon
    <3>4. m_size["env"] \in Nat \ {0} /\ m_size["meta"] \in Nat \ {0} /\ m_size["boot"] \in Nat \ {0}
      BY <3>1, <3>2, <3>3, Zenon
    <3> QED
      BY <3>4
  <2>2. m_size["font"] > 0
    BY <1>1 DEF FontFile
  <2>3. m_size["kern"] > 0 /\ m_size["sym"] > 0
    BY DEF Executable, LaidOut
  <2> QED
    BY <2>1, <2>2, <2>3 DEF TypeOK, Blocks
<1>3. \A b \in Blocks : Present(b) = 1
  BY <1>2 DEF Present
<1>4. Count = 6
  BY <1>3 DEF Count, Blocks
<1>5. StagedImage.nr = 6 /\ StagedImage.segs = Filled
  BY <1>4 DEF StagedImage, Image
<1>6. \A i \in 0 .. 5 : Filled[i] = Segment(Slots[i + 1]) /\ Slots[i + 1] \in Blocks
  BY <1>2, FilledSegments
<1>7. \A b \in Blocks : \E i \in 0 .. 5 : Slots[i + 1] = b
  <2>1. /\ Slots[0 + 1] = "kern" /\ Slots[1 + 1] = "sym"  /\ Slots[2 + 1] = "env"
        /\ Slots[3 + 1] = "meta" /\ Slots[4 + 1] = "boot" /\ Slots[5 + 1] = "font"
    BY DEF Slots
  <2>2. 0 \in 0 .. 5 /\ 1 \in 0 .. 5 /\ 2 \in 0 .. 5 /\ 3 \in 0 .. 5 /\ 4 \in 0 .. 5 /\ 5 \in 0 .. 5
    OBVIOUS
  <2> QED
    BY <2>1, <2>2, Zenon DEF Blocks
<1>8. Loaded(StagedImage) = {Filled[i] : i \in 0 .. 5}
  BY <1>5 DEF Loaded
<1>9. Loaded(StagedImage) = {Segment(b) : b \in Blocks}
  BY <1>6, <1>7, <1>8
<1>10. \A b \in Blocks : At(StagedImage, b, m_size[b], m_phys[b])
  <2> SUFFICES ASSUME NEW b \in Blocks
               PROVE  At(StagedImage, b, m_size[b], m_phys[b])
    OBVIOUS
  <2>1. Segment(b) \in Loaded(StagedImage)
    BY <1>9
  <2>2. /\ Segment(b).buf = b /\ Segment(b).mem = m_phys[b]
        /\ Segment(b).bufsz = m_size[b]
    BY DEF Segment
  <2> QED
    BY <2>1, <2>2 DEF At
<1> QED
  BY <1>9, <1>10

\* So FreeBSD finds everything it is pointed at, and nothing of it above kernend.
LEMMA StagedComplete ==
  ASSUME TypeOK, LaidOut, \A i \in SegIndex : m_segments[i] = NoSegment,
         Executable, kernel.sym > 0, m_size["env"] \in EnvSizes,
         m_size["font"] = font.size
  PROVE  Reachable(StagedImage) /\ ClearOfKernend(StagedImage)
<1>1. /\ StagedImage.entry = m_phys["boot"] /\ StagedImage.meta = m_meta
      /\ StagedImage.boot = m_boot
  BY DEF StagedImage, Image, LaidOut
<1>2. /\ m_boot.btext = kernel.entry /\ m_boot.modulep = m_phys["meta"]
      /\ m_size["boot"] = BootBlockSize /\ m_size["meta"] \in MetaSizes
  BY DEF LaidOut
<1>3. /\ m_meta.addr = m_phys["kern"] /\ m_meta.size = m_size["kern"]
      /\ m_meta.ssym = m_phys["sym"]  /\ m_meta.esym = m_phys["sym"] + m_size["sym"]
      /\ m_meta.envp = m_phys["env"]  /\ m_meta.font = m_phys["font"]
  BY DEF LaidOut, writeMetadata
<1>4. m_meta.esym - m_meta.ssym = m_size["sym"]
  BY <1>3 DEF TypeOK, Blocks
<1>5. \A b \in Blocks : At(StagedImage, b, m_size[b], m_phys[b])
  BY AllStaged
<1>6. Reachable(StagedImage)
  BY <1>1, <1>2, <1>3, <1>4, <1>5 DEF Reachable, Blocks
<1>7. \A b \in Blocks : Segment(b).mem + Segment(b).memsz <= m_boot.kernend
  BY LaidOutDisjoint DEF Segment, Reserved
<1>8. ClearOfKernend(StagedImage)
  BY <1>1, <1>7, AllStaged DEF ClearOfKernend
<1> QED
  BY <1>6, <1>8

-----------------------------------------------------------------------------
(* The invariant                                                           *)

\* Nothing is loaded and nobody has been promised anything at the start.
LEMMA InvInit ==
  ASSUME Init
  PROVE  IInv
<1>1. TypeOK
  BY TypingInit
<1>2. Progress /\ Unprepared /\ Control
  BY DEF Init, Progress, Unprepared, Control
<1>3. kexec.owner # "beastie"
  BY DEF Init, NoImage, ForeignImage, Image
<1>4. LayoutAcceptable
  BY DEF Init, LayoutAcceptable, KexecAccepts, KEXEC_SEGMENT_MAX
<1> QED
  BY <1>1, <1>2, <1>3, <1>4 DEF Init, IInv, HandoffReachable, HandoffBelowKernend,
     HowtoDelivered, PretendStaysPut, CleanRebootFailureReported

\* The properties of what is staged depend on the image, the files and the options.
LEMMA ImageKept ==
  ASSUME IInv, UNCHANGED <<world, kexec>>
  PROVE  HandoffReachable' /\ HandoffBelowKernend' /\ HowtoDelivered'
  BY DEF IInv, world, HandoffReachable, HandoffBelowKernend, HowtoDelivered,
     Executable, Reachable, ClearOfKernend, At, Loaded

\* Nothing is claimed about images of other owners.
LEMMA ImageForeign ==
  ASSUME kexec'.owner # "beastie"
  PROVE  HandoffReachable' /\ HandoffBelowKernend' /\ HowtoDelivered'
  BY DEF HandoffReachable, HandoffBelowKernend, HowtoDelivered

\* The statements before boot() leave the image and the machine alone.
LEMMA PreparationStep ==
  ASSUME IInv, TypeOK',
         geteuid \/ Construct \/ setHowto \/ setForce \/ fontLoad
  PROVE  IInv'
<1>1. UNCHANGED <<world, host, m_segments, m_nr_segments>>
  BY DEF geteuid, Construct, setHowto, setForce, fontLoad, object
<1>2. HandoffReachable' /\ HandoffBelowKernend' /\ HowtoDelivered'
  BY <1>1, ImageKept DEF host
<1>3. LayoutAcceptable'
  BY <1>1 DEF IInv, LayoutAcceptable, KexecAccepts, Disjoint
<1>4. PretendStaysPut'
  BY <1>1 DEF IInv, PretendStaysPut, world, host
<1> USE DEF Return, Throw, Goto, Exit, After
<1>5. Control' /\ CleanRebootFailureReported'
  BY <1>1 DEF IInv, Control, CleanRebootFailureReported, world, host, object,
     geteuid, Construct, setHowto, setForce, fontLoad
<1>6. Unprepared'
  BY <1>1 DEF IInv, Unprepared, geteuid, Construct, setHowto, setForce, fontLoad
<1>7. Progress'
  <2>1. CASE geteuid
    BY <2>1 DEF IInv, Progress, geteuid, world, object
  <2>2. CASE Construct
    BY <2>2 DEF IInv, TypeOK, Progress, Construct, world, Blocks
  <2>3. CASE setHowto
    BY <2>3 DEF IInv, Progress, setHowto, world
  <2>4. CASE setForce
    BY <2>4 DEF IInv, Progress, setForce, world
  <2>5. CASE fontLoad
    BY <2>5 DEF IInv, TypeOK, Progress, fontLoad, world, Blocks
  <2> QED
    BY <2>1, <2>2, <2>3, <2>4, <2>5
<1> QED
  BY <1>2, <1>3, <1>4, <1>5, <1>6, <1>7 DEF IInv

\* fileLoad either lays everything out, or leaves the object as it was, or ends
\* the run with an image nobody will stage.
LEMMA FileLoadStep ==
  ASSUME IInv, TypeOK', fileLoad
  PROVE  IInv'
<1>1. UNCHANGED <<world, host, m_segments, m_nr_segments, m_howto, m_force>>
  BY DEF fileLoad
<1>2. HandoffReachable' /\ HandoffBelowKernend' /\ HowtoDelivered'
  BY <1>1, ImageKept DEF host
<1>3. LayoutAcceptable'
  BY <1>1 DEF IInv, LayoutAcceptable, KexecAccepts, Disjoint
<1>4. PretendStaysPut'
  BY <1>1 DEF IInv, PretendStaysPut, world, host
<1>5. Control' /\ CleanRebootFailureReported' /\ Unprepared'
  <2>1. pc = "fileLoad" /\ pc' \in {"boot", "unload", "done"}
        /\ (pc' = "unload" => raised') /\ (pc' # "done" => exit' = exit)
        /\ (pc' = "done" => exit' = "aborted")
    BY DEF fileLoad, elfRejected, elfLoadRel, elfLoadExec, assemble, Return, Throw,
       Goto, Exit, After
  <2> QED
    BY <1>1, <2>1 DEF IInv, Control, CleanRebootFailureReported, Unprepared, world, host
<1>6. Progress'
  <2>1. CASE pc' # "boot"
    <3>1. pc' \in {"unload", "done"}
      BY <2>1 DEF fileLoad, elfRejected, elfLoadRel, elfLoadExec, assemble, Return,
         Throw, Goto, Exit, After
    <3> QED
      BY <3>1 DEF Progress
  <2>2. CASE elfLoadRel /\ pc' = "boot"
    BY <1>1, <2>2 DEF IInv, Progress, elfLoadRel, fileLoad, world
  <2>3. CASE elfLoadExec /\ pc' = "boot"
    <3>1. PICK n \in MetaSizes :
            /\ m_meta' = writeMetadata(LoadedSize(n), Layout(LoadedSize(n)))
            /\ assemble(LoadedSize(n), Layout(LoadedSize(n)))
      BY <2>3 DEF elfLoadExec
    <3> DEFINE size == LoadedSize(n)
               phys == Layout(size)
    <3>2. /\ m_size' = [size EXCEPT !["boot"] = BootBlockSize]
          /\ m_phys' = [phys EXCEPT !["boot"] = BootPhys]
          /\ m_boot' = [btext |-> kernel.entry, modulep |-> phys["meta"],
                        kernend |-> Kernend(size, phys)]
      BY <2>3, <3>1 DEF assemble, Throw
    <3>3. size \in [Blocks -> Nat]
      BY LoadedSizeType DEF IInv
    <3>4. phys \in [Blocks -> Nat]
      BY <3>3, LayoutType DEF IInv, TypeOK
    <3>5. /\ size["kern"] = kernel.kern /\ size["sym"] = kernel.sym
          /\ size["meta"] = n /\ size["env"] \in EnvSizes /\ size["font"] = font.size
      <4>1. /\ m_size["sym"] = 0 /\ m_size["env"] \in EnvSizes
            /\ m_size["font"] = font.size
        BY DEF IInv, Progress, fileLoad, Blocks
      <4>2. kernel.sym \in Nat
        BY InputType DEF IInv, TypeOK
      <4>3. m_size["sym"] + kernel.sym = kernel.sym
        BY <4>1, <4>2
      <4>4. m_size \in [Blocks -> Nat]
        BY DEF IInv, TypeOK
      <4> QED
        BY <4>1, <4>3, <4>4 DEF LoadedSize, Blocks
    <3>6. /\ phys["kern"] = KernPhys
          /\ phys["sym"]  = phys["kern"] + roundup(size["kern"], PageSize)
          /\ phys["env"]  = phys["sym"]  + roundup(size["sym"], PageSize)
          /\ phys["font"] = phys["env"]  + roundup(size["env"], PageSize)
          /\ phys["meta"] = phys["font"] + roundup(size["font"], PageSize)
      BY DEF Layout, IInv, TypeOK, Blocks
    <3> HIDE DEF size, phys
    <3>7. \A b \in Blocks \ {"boot"} : m_size'[b] = size[b] /\ m_phys'[b] = phys[b]
      BY <3>2, <3>3, <3>4
    <3>8. m_size'["boot"] = BootBlockSize /\ m_phys'["boot"] = BootPhys
      BY <3>2, <3>3, <3>4 DEF Blocks
    <3>9. m_meta' = writeMetadata(m_size, m_phys)'
      BY <1>1, <3>1, <3>7 DEF writeMetadata, size, phys, Blocks
    <3>10. LaidOut'
      BY <1>1, <3>2, <3>5, <3>6, <3>7, <3>8, <3>9
         DEF LaidOut, Reserved, Kernend, Blocks, world
    <3>11. kernel'.type = "EXEC" /\ kernel'.sym > 0
      BY <1>1, <2>3 DEF elfLoadExec, world
    <3> QED
      BY <1>1, <2>3, <3>5, <3>7, <3>10, <3>11 DEF Progress, Blocks, world
  <2>4. CASE UNCHANGED <<m_size, m_phys, m_meta, m_boot>> /\ pc' = "boot"
    BY <2>2, <2>3, <2>4 DEF fileLoad, elfRejected, Throw, Exit
  <2> QED
    BY <2>1, <2>2, <2>3, <2>4 DEF fileLoad, elfRejected
<1> QED
  BY <1>2, <1>3, <1>4, <1>5, <1>6 DEF IInv

\* load() stages what fileLoad laid out, and the host has no reason of its own
\* rules to refuse it.
LEMMA LoadStep ==
  ASSUME IInv, TypeOK', load
  PROVE  IInv'
<1>1. /\ pc = "boot" /\ ~opts.pretend
      /\ UNCHANGED <<world, m_howto, m_force, m_size, m_phys, m_meta, m_boot,
                     crash, machine>>
  BY DEF load
<1>2. m_segments' = Filled /\ m_nr_segments' = Count
  BY DEF load, prepareSegments, Count
<1>3. \A i \in SegIndex : m_segments[i] = NoSegment
  BY <1>1 DEF IInv, Unprepared
<1>4. pc' \in {"shutdown", "forcedshutdown", "unload"} /\ exit' = exit
      /\ (pc' = "unload" => raised') /\ (pc' = "forcedshutdown" => m_force)
  BY DEF load, kexec_load, Shutdown, Goto, Throw
<1>5. Progress' /\ Unprepared'
  BY <1>4 DEF Progress, Unprepared
<1>6. Control' /\ CleanRebootFailureReported'
  BY <1>1, <1>4 DEF IInv, Control, CleanRebootFailureReported, world
<1>7. PretendStaysPut'
  BY <1>1 DEF IInv, PretendStaysPut, world
<1>8. LayoutAcceptable'
  <2>1. KexecAccepts(Filled, Count)
    BY <1>1, <1>3, StagedAcceptable, ModuleAcceptable DEF IInv, Progress
  <2> QED
    BY <1>2, <2>1 DEF LayoutAcceptable, KexecAccepts, Disjoint
<1>9. HandoffReachable' /\ HandoffBelowKernend' /\ HowtoDelivered'
  <2>1. CASE UNCHANGED kexec
    BY <1>1, <2>1, ImageKept
  <2>2. CASE kexec' = StagedImage
    <3>1. SUFFICES ASSUME Executable
                   PROVE  /\ Reachable(kexec') /\ ClearOfKernend(kexec')
                          /\ kexec'.meta.howto = opts.howto
      BY <1>1 DEF HandoffReachable, HandoffBelowKernend, HowtoDelivered, Executable,
         Reachable, ClearOfKernend, At, Loaded, world
    <3>2. /\ LaidOut /\ kernel.sym > 0 /\ m_size["env"] \in EnvSizes
          /\ m_size["font"] = font.size /\ m_howto = opts.howto
      BY <1>1, <3>1 DEF IInv, Progress, Control, Executable
    <3>3. Reachable(kexec') /\ ClearOfKernend(kexec')
      BY <1>3, <2>2, <3>1, <3>2, StagedComplete DEF IInv
    <3>4. kexec'.meta.howto = opts.howto
      BY <2>2, <3>2 DEF StagedImage, Image, LaidOut, writeMetadata
    <3> QED
      BY <3>3, <3>4
  <2> QED
    BY <1>1, <1>2, <2>1, <2>2 DEF load, kexec_load, Staging, StagedImage
<1> QED
  BY <1>5, <1>6, <1>7, <1>8, <1>9 DEF IInv

\* From there on only the machine moves: the image stays what load() made it, or
\* is replaced by somebody else's.
LEMMA RebootStep ==
  ASSUME IInv, TypeOK',
         pretend \/ shutdown \/ forcedshutdown \/ unload \/ initReboot \/ otherKexec
  PROVE  IInv'
<1>1. UNCHANGED <<world, m_force, m_howto, m_segments, m_nr_segments, m_size, m_phys,
                  m_meta, m_boot>>
  BY DEF pretend, shutdown, forcedshutdown, unload, initReboot, otherKexec, object
<1>2. LayoutAcceptable'
  BY <1>1 DEF IInv, LayoutAcceptable, KexecAccepts, Disjoint
<1> USE DEF Return, Throw, Goto, Exit, After
<1>3. kexec' = kexec \/ kexec'.owner # "beastie"
  BY DEF pretend, shutdown, forcedshutdown, unload, initReboot, otherKexec, host,
     kexec_unload, NoImage, ForeignImage, Image
<1>4. HandoffReachable' /\ HandoffBelowKernend' /\ HowtoDelivered'
  BY <1>1, <1>3, ImageKept, ImageForeign DEF world
<1>5. /\ pc' = pc \/ pc' \in {"unload", "done"}
      /\ pc' # "done" /\ pc' # pc => exit' = exit
  BY DEF pretend, shutdown, forcedshutdown, unload, initReboot, otherKexec
<1>6. Progress'
  BY <1>1, <1>5 DEF IInv, Progress, LaidOut, Reserved, writeMetadata, Kernend, world
<1>7. Unprepared'
  BY <1>1, <1>5 DEF IInv, Unprepared
<1>8. Control' /\ CleanRebootFailureReported' /\ PretendStaysPut'
  <2> USE <1>1, <1>3 DEF IInv, Control, CleanRebootFailureReported, PretendStaysPut, world
  <2>1. CASE pretend
    BY <2>1 DEF pretend, host
  <2>2. CASE shutdown
    BY <2>2 DEF shutdown
  <2>3. CASE forcedshutdown
    BY <2>3 DEF forcedshutdown
  <2>4. CASE unload
    BY <2>4 DEF unload
  <2>5. CASE initReboot
    BY <2>5 DEF initReboot
  <2>6. CASE otherKexec
    BY <2>6 DEF otherKexec
  <2> QED
    BY <2>1, <2>2, <2>3, <2>4, <2>5, <2>6
<1> QED
  BY <1>2, <1>4, <1>6, <1>7, <1>8 DEF IInv

\* What every statement of main() relies on is there after every step.
LEMMA InvStep ==
  ASSUME IInv, [Next]_vars
  PROVE  IInv'
<1>1. TypeOK'
  BY TypingStep DEF IInv
<1>2. CASE UNCHANGED vars
  BY <1>1, <1>2 DEF IInv, vars, world, object, host, Progress, LaidOut, Reserved,
     writeMetadata, Kernend, Unprepared, Control, LayoutAcceptable, KexecAccepts,
     Disjoint, HandoffReachable, HandoffBelowKernend, HowtoDelivered, Executable,
     Reachable, ClearOfKernend, At, Loaded, PretendStaysPut, CleanRebootFailureReported
<1> QED
  BY <1>1, <1>2, PreparationStep, FileLoadStep, LoadStep, RebootStep
     DEF Next, Main, Stopped

\* So it is there whenever a statement runs.
THEOREM Invariance == Spec => []IInv
  BY InvInit, InvStep, PTL DEF Spec

\* boot() never hands kexec_load segments that its rules refuse, whatever the sizes
\* fontLoad, the environment and the kernel file came to.
THEOREM LayoutAccepted == Spec => []LayoutAcceptable
<1>1. IInv => LayoutAcceptable
  BY DEF IInv
<1> QED
  BY <1>1, Invariance, PTL

\* An executable kernel that load() stages is complete: the trampoline, the
\* metadata and every block the metadata points at are where they are said to be.
THEOREM HandoffComplete == Spec => []HandoffReachable
<1>1. IInv => HandoffReachable
  BY DEF IInv
<1> QED
  BY <1>1, Invariance, PTL

\* No staged block reaches above the kernend the trampoline passes to FreeBSD.
THEOREM HandoffClear == Spec => []HandoffBelowKernend
<1>1. IInv => HandoffBelowKernend
  BY DEF IInv
<1> QED
  BY <1>1, Invariance, PTL

\* The staged metadata carries the boot flags of the command line.
THEOREM HowtoKept == Spec => []HowtoDelivered
<1>1. IInv => HowtoDelivered
  BY DEF IInv
<1> QED
  BY <1>1, Invariance, PTL

\* --pretend neither stages an image nor moves the machine, on any path.
THEOREM PretendHarmless == Spec => []PretendStaysPut
<1>1. IInv => PretendStaysPut
  BY DEF IInv
<1> QED
  BY <1>1, Invariance, PTL

\* Status 0 means pretending, or a forced reboot: shutdown() reports its failure.
THEOREM FailureReported == Spec => []CleanRebootFailureReported
<1>1. IInv => CleanRebootFailureReported
  BY DEF IInv
<1> QED
  BY <1>1, Invariance, PTL

-----------------------------------------------------------------------------
(* The machine only leaves Linux for beastie's own image, unless somebody  *)
(* else has taken it away, and the run is one its caller was promised.     *)

\* Who owns the image when.
Ownership ==
  /\ pc \in {"shutdown", "forcedshutdown"} /\ ~lost => kexec.owner = "beastie"
  /\ machine # "linux" /\ ~lost => kexec.owner = "beastie"
  /\ lost \in BOOLEAN /\ (lost => kexec.owner # "beastie")
  /\ pc \in {"geteuid", "Bootloader", "setHowto", "setForce", "fontLoad", "fileLoad", "boot"}
       => kexec.owner # "beastie" /\ ~lost
  /\ pc # "done" => exit = "running"
  /\ kernel.type # "EXEC" => kernel.type = "REL" \/ kexec.owner # "beastie"

\* The run keeps its image between load() and the reboot, whatever was there before;
\* only another process takes it away.
THEOREM OwnershipKept == Spec => []Ownership
<1>1. ASSUME Init PROVE Ownership
  <2>1. kexec.owner # "beastie" /\ lost = FALSE /\ machine = "linux" /\ pc = "geteuid" /\ exit = "running"
    BY <1>1 DEF Init, NoImage, ForeignImage, Image
  <2> QED
    BY <2>1 DEF Ownership
<1>2. ASSUME Ownership, IInv, [Next]_vars PROVE Ownership'
  <2> USE <1>2 DEF Return, Throw, Goto, Exit, After
  <2>1. CASE geteuid \/ Construct \/ setHowto \/ setForce \/ fontLoad
    BY <2>1 DEF Ownership, IInv, Control, geteuid, Construct, setHowto, setForce,
       fontLoad, world, host
  <2>2. CASE fileLoad
    BY <2>2 DEF Ownership, IInv, Control, fileLoad, elfRejected, elfLoadRel,
       elfLoadExec, assemble, world, host
  <2>3. CASE load
    <3>1. kexec' = kexec \/ kexec'.owner = "beastie"
      BY <2>3 DEF load, kexec_load, Staging, Image
    <3> QED
      BY <2>3, <3>1 DEF Ownership, IInv, Progress, Control, load, kexec_load, Staging, Shutdown,
         Image, world
  <2>4. CASE pretend
    BY <2>4 DEF Ownership, IInv, Control, pretend, world, object, host
  <2>5. CASE shutdown
    BY <2>5 DEF Ownership, shutdown, world
  <2>6. CASE forcedshutdown
    BY <2>6 DEF Ownership, forcedshutdown, world
  <2>7. CASE unload
    <3>1. kexec' = kexec
      BY <2>7 DEF unload, kexec_unload, KEXEC_FILE_UNLOAD, KEXEC_ON_CRASH
    <3> QED
      BY <2>7, <3>1 DEF Ownership, unload, world
  <2>8. CASE initReboot
    BY <2>8 DEF Ownership, initReboot, world
  <2>9. CASE otherKexec
    <3>1. kexec'.owner # "beastie" /\ lost' = (lost \/ kexec.owner = "beastie")
      BY <2>9 DEF otherKexec, NoImage, ForeignImage, Image
    <3>2. pc' = pc /\ exit' = exit /\ machine' = machine /\ kernel' = kernel
      BY <2>9 DEF otherKexec, world
    <3> QED
      BY <3>1, <3>2 DEF Ownership
  <2>10. CASE UNCHANGED vars
    BY <2>10 DEF Ownership, vars, world, host
  <2> QED
    BY <2>1, <2>2, <2>3, <2>4, <2>5, <2>6, <2>7, <2>8, <2>9, <2>10
       DEF Next, Main, Stopped
<1> QED
  BY <1>1, <1>2, Invariance, PTL DEF Spec

\* A reboot that beastie starts is into the image this run staged, unless another process
\* has taken it away, and that image is complete if the kernel is executable.
THEOREM RebootsStaged == Spec => []RebootsStagedImage
<1>1. IInv /\ Ownership => RebootsStagedImage
  BY DEF IInv, Ownership, HandoffReachable, RebootsStagedImage
<1> QED
  BY <1>1, Invariance, OwnershipKept, PTL

\* A file beastie loads has a kernel in it (elfLoad lets others through).
OnlyKernels == \A k \in KernelFiles : k.type # "REL" /\ (k.type = "EXEC" => k.kern > 0)

\* What the contract calls a staged image.
Staged == kexec.owner = "beastie" /\ Reachable(kexec) /\ ClearOfKernend(kexec)

\* With such files, an image of beastie's is always a complete one.
LEMMA StagedWhenOwned ==
  ASSUME OnlyKernels, IInv, Ownership
  PROVE  Staged <=> kexec.owner = "beastie"
<1>1. kernel \in KernelFiles
  BY DEF IInv, TypeOK
<1>2. kexec.owner = "beastie" => Executable
  BY <1>1 DEF OnlyKernels, Ownership, Executable
<1> QED
  BY <1>2 DEF IInv, HandoffReachable, HandoffBelowKernend, Staged

\* With such a file, every run of beastie starts as the contract says and each of its
\* steps, and of other users of kexec, is one the contract allows, or is invisible to
\* it: an image is staged at most once and only if a reboot is wanted, the machine is
\* made to reboot only after that, and gets there unless the image was taken away.
THEOREM ContractRefined ==
  ASSUME OnlyKernels
  PROVE  Spec => ContractKept
<1>1. ASSUME Init PROVE Contract!Init
  <2>1. opts.pretend \in BOOLEAN
    BY <1>1 DEF Init
  <2>2. kexec.owner # "beastie"
    BY <1>1 DEF Init, NoImage, ForeignImage, Image
  <2> QED
    BY <1>1, <2>1, <2>2 DEF Init, Contract!Init
<1>2. ASSUME IInv, Ownership, IInv', Ownership', [Next]_vars
      PROVE  [Contract!Next]_(Contract!vars)
  <2> USE <1>2 DEF Return, Throw, Goto, Exit, After
  <2>0. Staged <=> kexec.owner = "beastie"
    BY StagedWhenOwned
  <2>1. Staged' <=> kexec'.owner = "beastie"
    <3>1. kernel' \in KernelFiles
      BY DEF IInv, TypeOK
    <3>2. kexec'.owner = "beastie" => Executable'
      BY <3>1 DEF OnlyKernels, Ownership, Executable
    <3> QED
      BY <3>2 DEF IInv, HandoffReachable, HandoffBelowKernend, Staged
  <2>2. UNCHANGED world
    BY DEF Next, Main, Stopped, vars, world, geteuid, Construct, setHowto, setForce, fontLoad,
       fileLoad, load, pretend, shutdown, forcedshutdown, unload, initReboot, otherKexec
  <2>3. ASSUME UNCHANGED <<kexec, lost, machine, exit>> PROVE UNCHANGED Contract!vars
    BY <2>0, <2>1, <2>2, <2>3 DEF Contract!vars, Staged, world
  <2>4. ASSUME UNCHANGED <<kexec, lost, machine>>, exit = "running",
               exit' \in {"ok", "error", "aborted", "terminated"}
        PROVE  Contract!GiveUp
    BY <2>0, <2>1, <2>2, <2>4 DEF Contract!GiveUp, Staged, world
  <2>5. CASE geteuid \/ Construct \/ setHowto \/ setForce \/ fontLoad \/ fileLoad
    <3>1. UNCHANGED <<kexec, lost, machine>> /\ exit = "running"
      BY <2>5 DEF geteuid, Construct, setHowto, setForce, fontLoad, fileLoad, Ownership, host
    <3>2. exit' \in {exit, "error", "aborted"}
      BY <2>5 DEF geteuid, Construct, setHowto, setForce, fontLoad, fileLoad,
         elfRejected, elfLoadRel, elfLoadExec, assemble
    <3> QED
      BY <2>3, <2>4, <3>1, <3>2 DEF Contract!Next
  <2>6. CASE load
    <3>1. UNCHANGED <<exit, lost, machine>> /\ exit = "running" /\ ~opts.pretend /\ ~Staged /\ ~lost
      BY <2>0, <2>6 DEF load, kexec_load, Shutdown, Ownership
    <3>2. CASE UNCHANGED kexec
      BY <2>3, <3>1, <3>2
    <3>3. CASE kexec'.owner = "beastie"
      BY <2>0, <2>1, <2>2, <3>1, <3>3 DEF Contract!Next, Contract!Stage, Staged, world
    <3> QED
      BY <2>6, <3>2, <3>3 DEF load, kexec_load, Staging, Image
  <2>7. CASE pretend
    BY <2>3, <2>7 DEF pretend, host
  <2>8. CASE shutdown \/ forcedshutdown
    <3>1. UNCHANGED <<kexec, lost>> /\ exit = "running" /\ (kexec.owner = "beastie" \/ lost)
      BY <2>8 DEF shutdown, forcedshutdown, Ownership
    <3>2. CASE UNCHANGED <<exit, machine>>
      BY <2>3, <3>1, <3>2
    <3>3. CASE exit' \in {"replaced", "gone"} /\ machine' \in {"shuttingdown", "kexeced"}
      BY <2>0, <2>1, <2>2, <3>1, <3>3 DEF Contract!Next, Contract!Reboot, Staged, world
    <3> QED
      BY <2>8, <3>2, <3>3 DEF shutdown, forcedshutdown
  <2>9. CASE unload
    <3>1. UNCHANGED <<kexec, lost, machine>> /\ exit = "running"
          /\ exit' \in {"ok", "error", "terminated"}
      BY <2>9 DEF unload, kexec_unload, KEXEC_FILE_UNLOAD, KEXEC_ON_CRASH, Ownership
    <3> QED
      BY <2>4, <3>1 DEF Contract!Next
  <2>10. CASE initReboot
    <3>1. /\ UNCHANGED <<kexec, lost, exit>> /\ machine = "shuttingdown"
          /\ machine' = "kexeced" \/ (lost /\ machine' = "firmware")
      BY <2>10 DEF initReboot, Ownership
    <3> QED
      BY <2>0, <2>1, <2>2, <3>1 DEF Contract!Next, Contract!Arrive, Staged, world
  <2>11. CASE otherKexec
    <3>1. /\ UNCHANGED <<exit, machine>> /\ machine # "kexeced"
          /\ kexec'.owner # "beastie" /\ lost' = (lost \/ kexec.owner = "beastie")
      BY <2>11 DEF otherKexec, NoImage, ForeignImage, Image
    <3>2. CASE kexec.owner = "beastie"
      BY <2>0, <2>1, <2>2, <3>1, <3>2 DEF Contract!Next, Contract!Lose, Staged, world
    <3>3. CASE kexec.owner # "beastie"
      <4>1. lost' = lost
        BY <3>1, <3>3 DEF Ownership
      <4> QED
        BY <2>0, <2>1, <2>2, <3>1, <3>3, <4>1 DEF Contract!vars, Staged, world
    <3> QED
      BY <3>2, <3>3
  <2>12. CASE UNCHANGED vars
    BY <2>3, <2>12 DEF vars, host
  <2> QED
    BY <2>5, <2>6, <2>7, <2>8, <2>9, <2>10, <2>11, <2>12 DEF Next, Main, Stopped
<1>3. QED
  BY <1>1, <1>2, Invariance, OwnershipKept, PTL DEF Spec, ContractKept
=============================================================================
