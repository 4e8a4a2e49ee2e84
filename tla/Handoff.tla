------------------------------ MODULE Handoff ------------------------------
(***************************************************************************)
(* The composition: beastie stages an image (Bootloader), the host leaves  *)
(* Linux for it, and what the image holds at its entry, the program of     *)
(* BootAssembler, runs with what it was assembled with (BootTrampoline).   *)
(* Here kernel.entry is a byte offset from KERNBASE, and the trampoline's  *)
(* three parameters are those of the staged image, not constants.          *)
(***************************************************************************)
EXTENDS Bootloader

CONSTANTS
  EntriesPerTable,  \* 512
  HalfWord,         \* 2^16
  StaleStack        \* what a word of the stack may hold before it is written

VARIABLES tpc, GDTP, gdtr, cs, ds, rsp, frame, rcx, cr3, mem, stack

machineVars == <<tpc, GDTP, gdtr, cs, ds, rsp, frame, rcx, cr3, mem, stack>>

T == INSTANCE BootTrampoline WITH
       pc        <- tpc,
       m_btext   <- kexec.boot.btext \div (PageSize * EntriesPerTable),
       m_modulep <- kexec.boot.modulep,
       m_kernend <- kexec.boot.kernend,
       BasePage  <- BootPhys \div PageSize,
       Handoffs  <- {}

\* The two modules' pages are the same, and the block of the trampoline is what
\* BootAssembler::data() returns.
ASSUME PagesAgree ==
  /\ PageSize = 8 * EntriesPerTable /\ BootBlockSize = 16 * PageSize
  /\ KernPhys = PageSize * EntriesPerTable

\* FreeBSD's 2 GiB from KERNBASE to the end of the address space.
KernelSpace == 2 * EntriesPerTable * KernPhys

\* The entry is in that space, and in the kernel if there is one; what is staged
\* with a kernel fits there too.  Its addresses have half of 32 bits.
ASSUME AddressSpace ==
  /\ EntriesPerTable \in Nat /\ HalfWord \in Nat /\ HalfWord > 31 /\ StaleStack \subseteq Nat
  /\ KernelSpace < HalfWord * HalfWord
  /\ \A k \in KernelFiles : k.type = "EXEC" =>
       /\ k.entry < KernelSpace
       /\ k.kern > 0 => KernPhys <= k.entry /\ k.entry < KernPhys + k.kern
       /\ \A f \in FontFiles, e \in EnvSizes, m \in MetaSizes :
            KernPhys + roundup(k.kern, PageSize) + roundup(k.sym, PageSize) + roundup(e, PageSize)
              + roundup(f.size, PageSize) + roundup(m, PageSize) <= KernelSpace

-----------------------------------------------------------------------------
InitBoth == Init /\ T!Start

\* The machine has jumped to the entry of this run's image and the trampoline is
\* there.  (Of a relocatable file no trampoline is staged: nothing follows.)
Entered == /\ machine = "kexeced" /\ kexec.owner = "beastie"
           /\ At(kexec, "boot", BootBlockSize, kexec.entry)

OnLinux == (Main \/ initReboot \/ otherKexec) /\ UNCHANGED machineVars
Trampoline == Entered /\ UNCHANGED vars /\ T!Step

Ended == /\ Settled /\ (Entered => tpc = "btext")
         /\ UNCHANGED <<vars, machineVars>>

NextBoth == OnLinux \/ Trampoline \/ Ended

SpecBoth ==
  /\ InitBoth /\ [][NextBoth]_<<vars, machineVars>>
  /\ WF_vars(Main /\ UNCHANGED machineVars)
  /\ WF_vars(initReboot /\ UNCHANGED machineVars)
  /\ WF_machineVars(Trampoline)

-----------------------------------------------------------------------------
(* Properties                                                              *)

Holds(s, a) == s.mem <= a /\ a < s.mem + s.memsz
Frames(s)   == s.mem \div KernPhys .. (s.mem + s.memsz - 1) \div KernPhys

\* When the trampoline jumps, the processor fetches the kernel block's bytes, the
\* word FreeBSD takes for modulep is where the metadata was staged, and every
\* staged block ends below the one it takes for kernend: layout, staging, page
\* tables and stack agree, over two programs and a reboot.
KernelFindsEverything ==
  tpc = "btext" /\ Executable =>
    /\ \E s \in Loaded(kexec) :
         s.buf = "kern" /\ Holds(s, kernel.entry)
           /\ T!MapsTo(T!High(kernel.entry \div KernPhys), kernel.entry \div KernPhys)
    /\ \E s \in Loaded(kexec) : s.buf = "meta" /\ s.mem = stack[rsp - 1]
    /\ \A s \in Loaded(kexec) : s.mem + s.memsz <= stack[rsp - 2]

\* From the moment the trampoline's tables are in force, every block that was staged
\* is mapped where FreeBSD looks, offset from KERNBASE, and where the running code
\* does, at its own address: FreeBSD finds what it is handed without mapping it.
StagedIsMapped ==
  cr3 # 0 => \A s \in Loaded(kexec) : \A f \in Frames(s) :
               T!MapsTo(T!High(f), f) /\ T!MapsTo(T!Low(f), f)

\* A machine that leaves Linux for this run's image of an executable kernel gets to
\* the kernel: the trampoline never faults on what fileLoad laid out.
KernelEntered ==
  machine = "kexeced" /\ kexec.owner = "beastie" /\ Executable ~> tpc = "btext"
=============================================================================
