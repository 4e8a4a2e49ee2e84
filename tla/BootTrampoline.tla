--------------------------- MODULE BootTrampoline ---------------------------
(***************************************************************************)
(* The program BootAssembler generates, run on the machine.  kexec jumps   *)
(* to it at LOWBASE with interrupts about to be off, under page tables of  *)
(* its own that map memory to itself.  It loads a GDT, builds page tables  *)
(* that map the first 4 GiB to itself and the last 2 GiB of the address    *)
(* space to the first 2 GiB of memory, switches to them while running, and *)
(* jumps to btext with three words on a stack of its own.                  *)
(*                                                                         *)
(* One action is a run of straight-line code, or one turn of a loop.       *)
(* Memory is counted in 4 KiB pages, and in 2 MiB frames for what the      *)
(* large pages map; addresses in bytes are kept where the code has them.   *)
(***************************************************************************)
EXTENDS Naturals, Sequences

CONSTANTS
  EntriesPerTable,  \* 512
  BasePage,         \* LOWBASE, 0x100000, as a page number
  HalfWord,         \* 2^16
  Handoffs,         \* the [btext, modulep, kernend] it may be assembled with
  StaleStack        \* what a word of the stack may hold before it is written

PAGE_SIZE      == 8 * EntriesPerTable
WordSize      == HalfWord * HalfWord
FrameOf(page) == page \div EntriesPerTable

ASSUME TableAssumption == EntriesPerTable \in Nat /\ EntriesPerTable >= 6
\* The trampoline's 16 pages lie below 2 MiB.
ASSUME BaseAssumption  == BasePage \in Nat /\ BasePage + 16 <= EntriesPerTable
ASSUME WordAssumption  == HalfWord \in Nat /\ HalfWord > 31
\* btext is the frame of the kernel's entry point above KERNBASE.
ASSUME HandoffAssumption ==
  /\ Handoffs \subseteq [btext : 0 .. 2 * EntriesPerTable - 1,
                         modulep : 0 .. WordSize - 1, kernend : 0 .. WordSize - 1]
  /\ StaleStack \subseteq Nat

-----------------------------------------------------------------------------
(* createLayout and assembleData: what is where                            *)

\* 0x1'000 of text, 0xf'000 of data.
BlockPages == BasePage .. BasePage + 15
DataPage   == BasePage + 1

\* The GDT and the 10 bytes of GDTP share the first page of data; then one page
\* per table, four for PDT[0], two for PDT[1], and the stack.
GDT       == DataPage * PAGE_SIZE
PML4T     == DataPage + 1
PDPT0     == PML4T + 1
PDPT1     == PDPT0 + 1
PDT0      == PDPT1 + 1
PDT1      == PDT0 + 4
StackPage == PDT1 + 2
stackTop  == (StackPage + 1) * PAGE_SIZE

TablePages == PML4T .. StackPage - 1
Descriptors == <<"null", "null", "code", "data">>

\* The word at stackTop - 4*k is Slot k.
StackSlots == 1 .. 2 * EntriesPerTable

Index   == 0 .. EntriesPerTable - 1
NoEntry == [present |-> FALSE, ps |-> FALSE, to |-> 0]
Table(page) == [present |-> TRUE, ps |-> FALSE, to |-> page]   \* flags RW|P
Large(frame) == [present |-> TRUE, ps |-> TRUE, to |-> frame]  \* flags PS|RW|P

VARIABLES
  m_btext, m_modulep, m_kernend,  \* assembled into the code
  pc,
  GDTP,     \* the memory operand of lgdt: its limit and two halves of its base
  gdtr,     \* the register
  cs, ds,   \* selectors (ds stands for ss, es, fs and gs as well)
  rsp,      \* in slots below stackTop; StackSlots' first is 1
  frame,    \* the frame rax maps next
  rcx,      \* loop counter
  cr3,      \* page of the top-level table, or 0 for kexec's own tables
  mem,      \* the entries of the pages of the block
  stack     \* the words on the trampoline's stack

handoff == <<m_btext, m_modulep, m_kernend>>
cpu     == <<GDTP, gdtr, cs, ds, rsp>>
vars    == <<handoff, pc, cpu, frame, rcx, cr3, mem, stack>>

\* The machine as kexec leaves it.
Start ==
  /\ pc = "entry"
  /\ GDTP = [limit |-> 0, lo |-> 0, hi |-> 0]
  /\ gdtr = [limit |-> 0, base |-> 0]
  /\ cs = 0 /\ ds = 0 /\ rsp = 0
  /\ frame = 0 /\ rcx = 0 /\ cr3 = 0
  /\ mem = [p \in BlockPages |-> [k \in Index |-> NoEntry]]
  /\ \E w \in StaleStack : stack = [s \in StackSlots |-> w]

Init ==
  /\ \E h \in Handoffs :
       m_btext = h.btext /\ m_modulep = h.modulep /\ m_kernend = h.kernend
  /\ Start

Write(page, k, entry) == [mem EXCEPT ![page][k] = entry]

-----------------------------------------------------------------------------
(* Segments                                                                *)

\* The limit is stored as a dword over the first two bytes of the base.
StoreLimit(p) == [p EXCEPT !.limit = 31, !.lo = 0]
StoreBase(p)  == [p EXCEPT !.lo = GDT % HalfWord, !.hi = GDT \div HalfWord]

\* Broken: base first.
setGDT_BaseFirst ==
  /\ pc = "entry"
  /\ GDTP' = StoreLimit(StoreBase(GDTP))
  /\ gdtr' = [limit |-> GDTP'.limit, base |-> GDTP'.hi * HalfWord + GDTP'.lo]
  /\ pc' = "retf"
  /\ UNCHANGED <<handoff, cs, ds, rsp, frame, rcx, cr3, mem, stack>>

setGDT ==
  /\ pc = "entry"
  /\ GDTP' = StoreBase(StoreLimit(GDTP))
  /\ gdtr' = [limit |-> GDTP'.limit, base |-> GDTP'.hi * HalfWord + GDTP'.lo]
  /\ pc' = "retf"
  /\ UNCHANGED <<handoff, cs, ds, rsp, frame, rcx, cr3, mem, stack>>

\* A selector is usable when the GDT in force has a descriptor of that kind there.
Usable(selector, kind) ==
  /\ gdtr.base = GDT /\ selector + 7 <= gdtr.limit
  /\ Descriptors[selector \div 8 + 1] = kind

\* A far return to L1, through kexec's stack.
updateCS ==
  /\ pc = "retf" /\ Usable(16, "code")
  /\ cs' = 16
  /\ pc' = "segments"
  /\ UNCHANGED <<handoff, GDTP, gdtr, ds, rsp, frame, rcx, cr3, mem, stack>>

loadSegments ==
  /\ pc = "segments" /\ Usable(24, "data")
  /\ ds' = 24 /\ rsp' = 0
  /\ pc' = "low"
  /\ UNCHANGED <<handoff, GDTP, gdtr, cs, frame, rcx, cr3, mem, stack>>

-----------------------------------------------------------------------------
(* Paging                                                                  *)

\* Levels 4 and 3 of the low mapping, and the start of its loop.
lowTables ==
  /\ pc = "low"
  /\ mem' = [mem EXCEPT ![PML4T][0] = Table(PDPT0),
                        ![PDPT0] = [k \in Index |-> IF k < 4 THEN Table(PDT0 + k) ELSE @[k]]]
  /\ frame' = 0 /\ rcx' = 0
  /\ pc' = "lp_pd0"
  /\ UNCHANGED <<handoff, cpu, cr3, stack>>

\* A loop's store goes through PDT[n] + 8 * rcx, across the pages of the table.
Store(table) ==
  mem' = Write(table + rcx \div EntriesPerTable, rcx % EntriesPerTable, Large(frame))

\* Broken: one turn too many, one too few; the wrong label.
lp_pd0_PastEnd ==
  /\ pc = "lp_pd0"
  /\ Store(PDT0)
  /\ frame' = frame + 1 /\ rcx' = rcx + 1
  /\ pc' = IF rcx' <= EntriesPerTable * 4 THEN "lp_pd0" ELSE "high"
  /\ UNCHANGED <<handoff, cpu, cr3, stack>>
lp_pd0_Short ==
  /\ pc = "lp_pd0"
  /\ Store(PDT0)
  /\ frame' = frame + 1 /\ rcx' = rcx + 1
  /\ pc' = IF rcx' < EntriesPerTable * 4 - 1 THEN "lp_pd0" ELSE "high"
  /\ UNCHANGED <<handoff, cpu, cr3, stack>>
lp_pd1_PastEnd ==
  /\ pc = "lp_pd1"
  /\ Store(PDT1)
  /\ frame' = frame + 1 /\ rcx' = rcx + 1
  /\ pc' = IF rcx' <= EntriesPerTable * 2 THEN "lp_pd1" ELSE "cr3"
  /\ UNCHANGED <<handoff, cpu, cr3, stack>>
lp_pd1_WrongLabel ==
  /\ pc = "lp_pd1"
  /\ Store(PDT1)
  /\ frame' = frame + 1 /\ rcx' = rcx + 1
  /\ pc' = IF rcx' < EntriesPerTable * 2 THEN "high" ELSE "cr3"
  /\ UNCHANGED <<handoff, cpu, cr3, stack>>

\* Level 2 of the low mapping.
lp_pd0 ==
  /\ pc = "lp_pd0"
  /\ Store(PDT0)
  /\ frame' = frame + 1 /\ rcx' = rcx + 1
  /\ pc' = IF rcx' < EntriesPerTable * 4 THEN "lp_pd0" ELSE "high"
  /\ UNCHANGED <<handoff, cpu, cr3, stack>>

\* Broken: the loop starts over from frame 0.
highTables_FromZero ==
  /\ pc = "high"
  /\ mem' = [mem EXCEPT ![PML4T][EntriesPerTable - 1] = Table(PDPT1),
                        ![PDPT1][EntriesPerTable - 2] = Table(PDT1),
                        ![PDPT1][EntriesPerTable - 1] = Table(PDT1 + 1),
                        ![PDT1][0] = Large(0)]
  /\ frame' = 0 /\ rcx' = 1
  /\ pc' = "lp_pd1"
  /\ UNCHANGED <<handoff, cpu, cr3, stack>>

\* The high mapping likewise; its first frame is set before the loop.
highTables ==
  /\ pc = "high"
  /\ mem' = [mem EXCEPT ![PML4T][EntriesPerTable - 1] = Table(PDPT1),
                        ![PDPT1][EntriesPerTable - 2] = Table(PDT1),
                        ![PDPT1][EntriesPerTable - 1] = Table(PDT1 + 1),
                        ![PDT1][0] = Large(0)]
  /\ frame' = 1 /\ rcx' = 1
  /\ pc' = "lp_pd1"
  /\ UNCHANGED <<handoff, cpu, cr3, stack>>

lp_pd1 ==
  /\ pc = "lp_pd1"
  /\ Store(PDT1)
  /\ frame' = frame + 1 /\ rcx' = rcx + 1
  /\ pc' = IF rcx' < EntriesPerTable * 2 THEN "lp_pd1" ELSE "cr3"
  /\ UNCHANGED <<handoff, cpu, cr3, stack>>

\* The embedded graphics reset, if any, comes next: port writes through eax and
\* edx, which nothing after it reads.
loadCR3 ==
  /\ pc = "cr3"
  /\ cr3' = PML4T
  /\ pc' = "boot"
  /\ UNCHANGED <<handoff, cpu, frame, rcx, mem, stack>>

-----------------------------------------------------------------------------
(* What the processor makes of the tables                                  *)

\* A virtual address, down to the 2 MiB page.
Virtual     == [l4 : Index, l3 : Index, l2 : Index]
Low(f)      == [l4 |-> 0, l3 |-> f \div EntriesPerTable, l2 |-> f % EntriesPerTable]
\* f frames above KERNBASE, 0xffffffff80000000.
High(f)     == [l4 |-> EntriesPerTable - 1,
                l3 |-> EntriesPerTable - 2 + f \div EntriesPerTable,
                l2 |-> f % EntriesPerTable]

\* v is mapped to frame f.  kexec's own tables map memory to itself.
Follows(entry, page) == entry.present /\ ~entry.ps /\ entry.to = page
MapsTo(v, f) ==
  IF cr3 = 0 THEN v = Low(f)
  ELSE \E p3, p2 \in BlockPages :
         /\ Follows(mem[cr3][v.l4], p3)
         /\ Follows(mem[p3][v.l3], p2)
         /\ mem[p2][v.l2] = Large(f)

\* The code that runs and the stack it uses are where they were.
Running == MapsTo(Low(FrameOf(BasePage)), FrameOf(BasePage))
             /\ MapsTo(Low(FrameOf(StackPage)), FrameOf(StackPage))

-----------------------------------------------------------------------------
(* Handoff                                                                 *)

\* Broken: modulep above kernend.
pushHandoff_Swapped ==
  /\ pc = "boot" /\ Running
  /\ rsp' = rsp + 3
  /\ stack' = [stack EXCEPT ![rsp + 1] = m_modulep % WordSize,
                            ![rsp + 2] = m_kernend % WordSize,
                            ![rsp + 3] = 0]
  /\ pc' = "jmp"
  /\ UNCHANGED <<handoff, GDTP, gdtr, cs, ds, frame, rcx, cr3, mem>>

\* The three words go below the stack's top, the last one lowest; the moves
\* through ebx and ecx keep 32 bits.
pushHandoff ==
  /\ pc = "boot" /\ Running
  /\ rsp' = rsp + 3
  /\ stack' = [stack EXCEPT ![rsp + 1] = m_kernend % WordSize,
                            ![rsp + 2] = m_modulep % WordSize,
                            ![rsp + 3] = 0]
  /\ pc' = "jmp"
  /\ UNCHANGED <<handoff, GDTP, gdtr, cs, ds, frame, rcx, cr3, mem>>

jump ==
  /\ pc = "jmp" /\ MapsTo(High(m_btext), m_btext)
  /\ pc' = "btext"
  /\ UNCHANGED <<handoff, cpu, frame, rcx, cr3, mem, stack>>

\* Where a guard fails the processor faults, with no handler: nothing follows.
Gone == pc = "btext" /\ UNCHANGED vars

Step == \/ setGDT \/ updateCS \/ loadSegments \/ lowTables \/ lp_pd0 \/ highTables
        \/ lp_pd1 \/ loadCR3 \/ pushHandoff \/ jump

Next == Step \/ Gone

Spec == Init /\ [][Next]_vars /\ WF_vars(Step)

-----------------------------------------------------------------------------
(* Properties                                                              *)

Entry == [present : BOOLEAN, ps : BOOLEAN, to : Nat]

\* Every variable stays in its range: no store leaves the block, no table is
\* written beyond its pages while it is indexed by a running counter.
TypeOK ==
  /\ \E h \in Handoffs :
       m_btext = h.btext /\ m_modulep = h.modulep /\ m_kernend = h.kernend
  /\ pc \in {"entry", "retf", "segments", "low", "lp_pd0", "high", "lp_pd1", "cr3",
            "boot", "jmp", "btext"}
  /\ GDTP \in [limit : Nat, lo : Nat, hi : Nat] /\ gdtr \in [limit : Nat, base : Nat]
  /\ cs \in {0, 16} /\ ds \in {0, 24} /\ rsp \in {0, 3}
  /\ frame \in 0 .. 4 * EntriesPerTable /\ rcx \in 0 .. 4 * EntriesPerTable
  /\ cr3 \in {0, PML4T}
  /\ mem \in [BlockPages -> [Index -> Entry]]
  /\ stack \in [StackSlots -> Nat]

\* The tables in force map the low 4 GiB to themselves, the running code and its
\* stack included: cr3 is loaded only when no entry is missing any more.
LowIdentity ==
  cr3 # 0 => \A f \in 0 .. 4 * EntriesPerTable - 1 : MapsTo(Low(f), f)

\* They map every address of the kernel's 2 GiB to its offset from KERNBASE, frame
\* 0 (set apart from the loop) and the step from the first table to the second
\* included.
HighLinear ==
  cr3 # 0 => \A f \in 0 .. 2 * EntriesPerTable - 1 : MapsTo(High(f), f)

\* The loops, which store through a counter, never reach the page of the GDT below
\* the tables or the stack above them, nor the code.
OnlyTablesWritten ==
  \A p \in BlockPages \ TablePages : \A k \in Index : mem[p][k] = NoEntry

\* At the kernel's entry the stack looks as the comment at bootassembler.cxx:353
\* says: modulep above a word that cannot be used, and kernend above that.
ArgumentsDelivered ==
  pc = "btext" => /\ stack[rsp - 1] = m_modulep
                  /\ stack[rsp - 2] = m_kernend

\* The instruction that comes next never faults: selectors are loaded from the
\* trampoline's own descriptors, though the base and the limit of GDTP overlap when
\* they are stored, and code, stack and the kernel's entry are mapped.
NextInstructionRuns ==
  /\ pc = "retf" => Usable(16, "code")
  /\ pc = "segments" => Usable(24, "data")
  /\ pc = "boot" => Running
  /\ pc = "jmp" => MapsTo(High(m_btext), m_btext)
=============================================================================
