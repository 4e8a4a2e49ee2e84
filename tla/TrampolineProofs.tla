-------------------------- MODULE TrampolineProofs --------------------------
(***************************************************************************)
(* The safety properties of BootTrampoline for page tables of any length,  *)
(* any place below the kernel and anything handed over.  The argument is   *)
(* that of the two loops: each has filled its table as far as its counter. *)
(***************************************************************************)
EXTENDS BootTrampoline, AlignmentProofs

AfterLow   == {"lp_pd0", "high", "lp_pd1", "cr3", "boot", "jmp", "btext"}
AfterLoop0 == {"high", "lp_pd1", "cr3", "boot", "jmp", "btext"}
AfterHigh  == {"lp_pd1", "cr3", "boot", "jmp", "btext"}
AfterLoop1 == {"cr3", "boot", "jmp", "btext"}
Live       == {"boot", "jmp", "btext"}

\* The first n frames are in the table that starts at this page.
Filled(table, n) ==
  \A f \in 0 .. n - 1 :
    mem[table + f \div EntriesPerTable][f % EntriesPerTable] = Large(f)

LowTop  == /\ mem[PML4T][0] = Table(PDPT0)
           /\ \A k \in 0 .. 3 : mem[PDPT0][k] = Table(PDT0 + k)
HighTop == /\ mem[PML4T][EntriesPerTable - 1] = Table(PDPT1)
           /\ mem[PDPT1][EntriesPerTable - 2] = Table(PDT1)
           /\ mem[PDPT1][EntriesPerTable - 1] = Table(PDT1 + 1)

Built ==
  /\ pc \in AfterLow   => LowTop
  /\ pc = "lp_pd0"     => rcx < 4 * EntriesPerTable /\ frame = rcx /\ Filled(PDT0, rcx)
  /\ pc \in AfterLoop0 => Filled(PDT0, 4 * EntriesPerTable)
  /\ pc \in AfterHigh  => HighTop
  /\ pc = "lp_pd1"     => /\ 1 <= rcx /\ rcx < 2 * EntriesPerTable /\ frame = rcx
                          /\ Filled(PDT1, rcx)
  /\ pc \in AfterLoop1 => Filled(PDT1, 2 * EntriesPerTable)
  /\ cr3 # 0           => cr3 = PML4T /\ pc \in Live
  /\ pc \in Live       => cr3 # 0

GDTInForce == pc # "entry" => gdtr = [limit |-> 8 * Len(Descriptors) - 1, base |-> GDT]

Pushed ==
  /\ pc \notin {"jmp", "btext"} => rsp = 0
  /\ pc \in {"jmp", "btext"} => rsp = 3 /\ stack[1] = m_kernend /\ stack[2] = m_modulep

IInv == TypeOK /\ Built /\ OnlyTablesWritten /\ Pushed /\ GDTInForce

-----------------------------------------------------------------------------
(* Arithmetic of the stores                                                *)

\* The f-th entry of a table of m pages is in one of them; no other has its place.
LEMMA Place ==
  ASSUME NEW m \in {2, 4}, NEW f \in 0 .. m * EntriesPerTable - 1
  PROVE  /\ f \div EntriesPerTable \in 0 .. m - 1
         /\ f % EntriesPerTable \in Index
<1> DEFINE q == f \div EntriesPerTable
<1>1. EntriesPerTable \in Nat \ {0}
  BY TableAssumption
<1>2. q \in Nat /\ f = EntriesPerTable * q + (f % EntriesPerTable)
      /\ f % EntriesPerTable \in 0 .. EntriesPerTable - 1
  BY <1>1, DivMod
<1> HIDE DEF q
<1>3. q < m
  <2>1. SUFFICES ASSUME q >= m PROVE FALSE
    BY <1>2
  <2>2. EntriesPerTable * q >= EntriesPerTable * m
    BY <1>1, <1>2, <2>1, SMT
  <2> QED
    BY <1>1, <1>2, <2>2, SMT
<1> QED
  BY <1>2, <1>3 DEF q, Index

\* Two frames never share an entry.
LEMMA PlaceUnique ==
  ASSUME NEW f \in Nat, NEW g \in Nat, f # g
  PROVE  \/ f \div EntriesPerTable # g \div EntriesPerTable
         \/ f % EntriesPerTable # g % EntriesPerTable
<1>1. EntriesPerTable \in Nat \ {0}
  BY TableAssumption
<1>2. /\ f = EntriesPerTable * (f \div EntriesPerTable) + (f % EntriesPerTable)
      /\ g = EntriesPerTable * (g \div EntriesPerTable) + (g % EntriesPerTable)
  BY <1>1, DivMod
<1> QED
  BY <1>2

\* lgdt puts the two halves of the base together again.
LEMMA Halves ==
  ASSUME NEW x \in Nat, NEW n \in Nat \ {0}
  PROVE  x \div n \in Nat /\ x % n \in Nat /\ (x \div n) * n + (x % n) = x
<1> DEFINE hi == x \div n
           lo == x % n
<1>1. hi \in Nat /\ lo \in 0 .. n - 1 /\ x = n * hi + lo
  BY DivMod
<1> HIDE DEF hi, lo
<1>2. hi \in Nat /\ lo \in Nat /\ hi * n + lo = x
  BY <1>1
<1> QED
  BY <1>2, Zenon DEF hi, lo

\* What is on which page.
LEMMA Pages ==
  /\ BasePage \in Nat
  /\ DataPage = BasePage + 1 /\ PML4T = BasePage + 2 /\ PDPT0 = BasePage + 3
  /\ PDPT1 = BasePage + 4 /\ PDT0 = BasePage + 5 /\ PDT1 = BasePage + 9
  /\ StackPage = BasePage + 11
  /\ BlockPages = BasePage .. BasePage + 15 /\ TablePages = PML4T .. BasePage + 10
  BY BaseAssumption DEF DataPage, PML4T, PDPT0, PDPT1, PDT0, PDT1, StackPage,
     BlockPages, TablePages

\* One more turn of a loop: the entry is in place and the earlier ones still are.
LEMMA LoopStore ==
  ASSUME TypeOK, NEW m \in {2, 4}, NEW table \in {PDT0, PDT1},
         table + m - 1 \in TablePages,
         rcx < m * EntriesPerTable, frame = rcx, Filled(table, rcx), Store(table)
  PROVE  /\ \A f \in 0 .. rcx :
              mem'[table + f \div EntriesPerTable][f % EntriesPerTable] = Large(f)
         /\ mem' \in [BlockPages -> [Index -> Entry]]
         /\ \A p \in BlockPages : p \notin table .. table + m - 1 => mem'[p] = mem[p]
<1> DEFINE q == rcx \div EntriesPerTable
           r == rcx % EntriesPerTable
<1>1. rcx \in Nat /\ rcx \in 0 .. m * EntriesPerTable - 1
  BY TableAssumption DEF TypeOK
<1>2. q \in 0 .. m - 1 /\ r \in Index
  BY <1>1, Place
<1>3. mem' = [mem EXCEPT ![table + q][r] = Large(rcx)]
  BY DEF Store, Write
<1>4. table \in Nat /\ table + q \in BlockPages /\ table + q \in table .. table + m - 1
  BY <1>2, Pages
<1>5. mem \in [BlockPages -> [Index -> Entry]]
  BY DEF TypeOK
<1>6. Large(rcx) \in Entry
  BY <1>1 DEF Large, Entry
<1> HIDE DEF q, r
<1>7. mem'[table + q][r] = Large(rcx)
  BY <1>2, <1>3, <1>4, <1>5
<1>8. \A p \in BlockPages, k \in Index :
        p # table + q \/ k # r => mem'[p][k] = mem[p][k]
  BY <1>2, <1>3, <1>4, <1>5
<1>9. ASSUME NEW f \in 0 .. rcx - 1
      PROVE  mem'[table + f \div EntriesPerTable][f % EntriesPerTable] = Large(f)
  <2>1. f \in 0 .. m * EntriesPerTable - 1 /\ f # rcx
    BY <1>1, TableAssumption
  <2>2. f \div EntriesPerTable \in 0 .. m - 1 /\ f % EntriesPerTable \in Index
    BY <2>1, Place
  <2>3. f \div EntriesPerTable # q \/ f % EntriesPerTable # r
    BY <1>1, <2>1, PlaceUnique DEF q, r
  <2>4. table + f \div EntriesPerTable \in BlockPages
    BY <2>2, <1>4, Pages
  <2>5. \/ table + f \div EntriesPerTable # table + q
        \/ f % EntriesPerTable # r
    BY <1>2, <1>4, <2>2, <2>3
  <2>6. mem[table + f \div EntriesPerTable][f % EntriesPerTable] = Large(f)
    BY DEF Filled
  <2> QED
    BY <1>8, <2>2, <2>4, <2>5, <2>6
<1>10. \A f \in 0 .. rcx : f = rcx \/ f \in 0 .. rcx - 1
  BY <1>1
<1>11. mem' \in [BlockPages -> [Index -> Entry]]
  BY <1>2, <1>3, <1>4, <1>5, <1>6
<1>12. \A p \in BlockPages : p \notin table .. table + m - 1 => mem'[p] = mem[p]
  BY <1>3, <1>4, <1>5
<1> QED
  BY <1>7, <1>9, <1>10, <1>11, <1>12 DEF q, r

-----------------------------------------------------------------------------
(* The invariant                                                           *)

\* Nothing is written and kexec's tables are in force at the start.
LEMMA InvInit ==
  ASSUME Init
  PROVE  IInv
<1>1. mem \in [BlockPages -> [Index -> Entry]]
  BY DEF Init, Start, NoEntry, Entry
<1>2. stack \in [StackSlots -> Nat]
  BY HandoffAssumption DEF Init, Start
<1>3. frame \in 0 .. 4 * EntriesPerTable /\ rcx \in 0 .. 4 * EntriesPerTable
  BY TableAssumption DEF Init, Start
<1>4. TypeOK
  BY <1>1, <1>2, <1>3 DEF Init, Start, TypeOK
<1>5. OnlyTablesWritten
  BY DEF Init, Start, OnlyTablesWritten
<1> QED
  BY <1>4, <1>5 DEF Init, Start, IInv, Built, AfterLow, AfterLoop0, AfterHigh, AfterLoop1,
     Live, Pushed, GDTInForce

\* The descriptor table is in force from lgdt on.
LEMMA SegmentStep ==
  ASSUME IInv, setGDT \/ updateCS \/ loadSegments
  PROVE  IInv'
<1>1. UNCHANGED <<handoff, frame, rcx, cr3, mem, stack>>
  BY DEF setGDT, updateCS, loadSegments
<1>2. OnlyTablesWritten'
  BY <1>1 DEF IInv, OnlyTablesWritten
<1>3. Built' /\ Pushed'
  BY <1>1 DEF IInv, Built, Pushed, setGDT, updateCS, loadSegments, AfterLow, AfterLoop0,
     AfterHigh, AfterLoop1, Live
<1>4. TypeOK' /\ GDTInForce'
  <2>1. CASE setGDT
    <3>1. HalfWord \in Nat \ {0} /\ GDT \in Nat
      BY WordAssumption, TableAssumption, Pages DEF GDT, PAGE_SIZE
    <3>2. /\ GDT \div HalfWord \in Nat /\ GDT % HalfWord \in Nat
          /\ (GDT \div HalfWord) * HalfWord + (GDT % HalfWord) = GDT
      BY <3>1, Halves
    <3>3. GDTP' = [limit |-> 31, lo |-> GDT % HalfWord, hi |-> GDT \div HalfWord]
      BY <2>1 DEF setGDT, StoreBase, StoreLimit, IInv, TypeOK
    <3>4. gdtr' = [limit |-> 31, base |-> GDT]
      <4>1. GDTP'.limit = 31 /\ GDTP'.lo = GDT % HalfWord /\ GDTP'.hi = GDT \div HalfWord
        BY <3>3
      <4>2. GDTP'.hi * HalfWord + GDTP'.lo = GDT
        BY <3>2, <4>1, Zenon
      <4> QED
        BY <2>1, <4>1, <4>2 DEF setGDT
    <3>5. Len(Descriptors) = 4
      BY DEF Descriptors
    <3> QED
      BY <1>1, <2>1, <3>1, <3>2, <3>3, <3>4, <3>5
         DEF setGDT, IInv, TypeOK, GDTInForce, handoff
  <2>2. CASE updateCS
    BY <1>1, <2>2 DEF updateCS, IInv, TypeOK, GDTInForce, handoff
  <2>3. CASE loadSegments
    BY <1>1, <2>3 DEF loadSegments, IInv, TypeOK, GDTInForce, handoff
  <2> QED
    BY <2>1, <2>2, <2>3
<1> QED
  BY <1>2, <1>3, <1>4 DEF IInv

\* Pointing the upper levels at the tables leaves the other pages alone.
LEMMA LowTablesStep ==
  ASSUME IInv, lowTables
  PROVE  IInv'
<1> DEFINE pdpt == [k \in Index |-> IF k < 4 THEN Table(PDT0 + k) ELSE mem[PDPT0][k]]
           pml4 == [mem[PML4T] EXCEPT ![0] = Table(PDPT0)]
<1>1. mem \in [BlockPages -> [Index -> Entry]] /\ PML4T \in BlockPages
      /\ PDPT0 \in BlockPages /\ PML4T # PDPT0
  BY Pages DEF IInv, TypeOK
<1>2. 0 \in Index /\ \A k \in 0 .. 3 : k \in Index
  BY TableAssumption DEF Index
<1>3. mem' = [mem EXCEPT ![PML4T] = pml4, ![PDPT0] = pdpt]
  BY <1>1 DEF lowTables
<1>4. Table(PDPT0) \in Entry /\ \A k \in Index : k < 4 => Table(PDT0 + k) \in Entry
  BY Pages, TableAssumption DEF Table, Entry, Index
<1>5. pml4 \in [Index -> Entry] /\ pdpt \in [Index -> Entry]
  BY <1>1, <1>4
<1>6. pml4[0] = Table(PDPT0) /\ \A k \in 0 .. 3 : pdpt[k] = Table(PDT0 + k)
  BY <1>1, <1>2
<1> HIDE DEF pml4, pdpt
<1>7. mem' \in [BlockPages -> [Index -> Entry]]
  BY <1>1, <1>3, <1>5
<1>8. mem'[PML4T] = pml4 /\ mem'[PDPT0] = pdpt
  BY <1>1, <1>3
<1>9. LowTop'
  BY <1>6, <1>8 DEF LowTop
<1>10. OnlyTablesWritten'
  <2>1. PML4T \in TablePages /\ PDPT0 \in TablePages
    BY Pages
  <2> QED
    BY <1>1, <1>3, <2>1 DEF IInv, OnlyTablesWritten
<1>11. TypeOK'
  BY <1>7, TableAssumption DEF IInv, TypeOK, lowTables, handoff, cpu
<1>12. Filled(PDT0, 0)' /\ 0 < 4 * EntriesPerTable
  BY TableAssumption DEF Filled
<1>13. Built'
  BY <1>9, <1>12 DEF IInv, Built, lowTables, AfterLow, AfterLoop0, AfterHigh, AfterLoop1, Live,
     Filled
<1> QED
  BY <1>10, <1>11, <1>13 DEF IInv, lowTables, Pushed, GDTInForce, handoff, cpu

\* A turn of the first loop.
LEMMA LowLoopStep ==
  ASSUME IInv, lp_pd0
  PROVE  IInv'
<1>1. /\ rcx < 4 * EntriesPerTable /\ frame = rcx /\ Filled(PDT0, rcx) /\ LowTop
      /\ cr3 = 0
  BY DEF IInv, Built, lp_pd0, AfterLow, Live
<1>2. PDT0 + 4 - 1 \in TablePages
  BY Pages
<1>3. /\ \A f \in 0 .. rcx :
           mem'[PDT0 + f \div EntriesPerTable][f % EntriesPerTable] = Large(f)
      /\ mem' \in [BlockPages -> [Index -> Entry]]
      /\ \A p \in BlockPages : p \notin PDT0 .. PDT0 + 4 - 1 => mem'[p] = mem[p]
  BY <1>1, <1>2, LoopStore DEF IInv, lp_pd0
<1>4. rcx \in Nat /\ EntriesPerTable \in Nat /\ rcx' = rcx + 1 /\ frame' = frame + 1
  BY TableAssumption DEF IInv, TypeOK, lp_pd0
<1>5. Filled(PDT0, rcx)'
  BY <1>3, <1>4 DEF Filled
<1>6. LowTop'
  <2>1. mem'[PML4T] = mem[PML4T] /\ mem'[PDPT0] = mem[PDPT0]
    BY <1>3, Pages
  <2> QED
    BY <1>1, <2>1 DEF LowTop
<1>7. OnlyTablesWritten'
  BY <1>3, Pages DEF IInv, OnlyTablesWritten
<1>8. TypeOK'
  BY <1>1, <1>3, <1>4 DEF IInv, TypeOK, lp_pd0, handoff, cpu
<1>9. pc' = (IF rcx' < 4 * EntriesPerTable THEN "lp_pd0" ELSE "high") /\ cr3' = 0
  BY <1>1, <1>4 DEF lp_pd0
<1>10. Built'
  <2>1. CASE pc' = "lp_pd0"
    BY <1>1, <1>4, <1>5, <1>6, <1>9, <2>1
       DEF Built, AfterLow, AfterLoop0, AfterHigh, AfterLoop1, Live
  <2>2. CASE pc' = "high"
    <3>1. rcx' = 4 * EntriesPerTable
      BY <1>1, <1>4, <1>9, <2>2
    <3>2. Filled(PDT0, 4 * EntriesPerTable)'
      BY <1>5, <3>1 DEF Filled
    <3> QED
      BY <1>6, <1>9, <2>2, <3>2 DEF Built, AfterLow, AfterLoop0, AfterHigh, AfterLoop1, Live
  <2> QED
    BY <1>9, <2>1, <2>2
<1> QED
  BY <1>7, <1>8, <1>10 DEF IInv, lp_pd0, Pushed, GDTInForce, handoff, cpu

\* The high mapping hangs below the last entry of the top table.
LEMMA HighTablesStep ==
  ASSUME IInv, highTables
  PROVE  IInv'
<1> DEFINE E    == EntriesPerTable
           pml4 == [mem[PML4T] EXCEPT ![E - 1] = Table(PDPT1)]
           pdpt == [mem[PDPT1] EXCEPT ![E - 2] = Table(PDT1), ![E - 1] = Table(PDT1 + 1)]
           pdt  == [mem[PDT1] EXCEPT ![0] = Large(0)]
<1>1. /\ mem \in [BlockPages -> [Index -> Entry]]
      /\ PML4T \in BlockPages /\ PDPT1 \in BlockPages /\ PDT1 \in BlockPages
      /\ PML4T # PDPT1 /\ PML4T # PDT1 /\ PDPT1 # PDT1
  BY Pages DEF IInv, TypeOK
<1>2. 0 \in Index /\ E - 1 \in Index /\ E - 2 \in Index /\ E - 2 # E - 1
      /\ E - 1 # 0
  BY TableAssumption DEF Index
<1>3. mem' = [mem EXCEPT ![PML4T] = pml4, ![PDPT1] = pdpt, ![PDT1] = pdt]
  BY <1>1 DEF highTables
<1>4. /\ Table(PDPT1) \in Entry /\ Table(PDT1) \in Entry /\ Table(PDT1 + 1) \in Entry
      /\ Large(0) \in Entry
  BY Pages DEF Table, Large, Entry
<1>5. pml4 \in [Index -> Entry] /\ pdpt \in [Index -> Entry] /\ pdt \in [Index -> Entry]
  BY <1>1, <1>4
<1>6. /\ pml4[E - 1] = Table(PDPT1) /\ pml4[0] = mem[PML4T][0]
      /\ pdpt[E - 2] = Table(PDT1) /\ pdpt[E - 1] = Table(PDT1 + 1)
      /\ pdt[0] = Large(0)
  BY <1>1, <1>2
<1> HIDE DEF pml4, pdpt, pdt
<1>7. mem' \in [BlockPages -> [Index -> Entry]]
  BY <1>1, <1>3, <1>5
<1>8. /\ mem'[PML4T] = pml4 /\ mem'[PDPT1] = pdpt /\ mem'[PDT1] = pdt
      /\ \A p \in BlockPages : p \notin {PML4T, PDPT1, PDT1} => mem'[p] = mem[p]
  BY <1>1, <1>3
<1>9. LowTop /\ Filled(PDT0, 4 * E) /\ cr3 = 0 /\ pc = "high"
  BY DEF IInv, Built, highTables, AfterLow, AfterLoop0, Live
<1>10. LowTop' /\ HighTop'
  <2>1. PDPT0 \in BlockPages /\ PDPT0 \notin {PML4T, PDPT1, PDT1}
    BY Pages
  <2>2. mem'[PDPT0] = mem[PDPT0]
    BY <1>8, <2>1
  <2>3. LowTop'
    BY <1>6, <1>8, <1>9, <2>2 DEF LowTop
  <2>4. HighTop'
    BY <1>6, <1>8 DEF HighTop
  <2> QED
    BY <2>3, <2>4
<1>11. Filled(PDT0, 4 * E)'
  <2> SUFFICES ASSUME NEW f \in 0 .. 4 * E - 1
               PROVE  mem'[PDT0 + f \div E][f % E] = Large(f)
    BY DEF Filled
  <2>1. f \div E \in 0 .. 3
    BY Place
  <2>2. PDT0 + f \div E \in BlockPages /\ PDT0 + f \div E \notin {PML4T, PDPT1, PDT1}
    BY <2>1, Pages
  <2> QED
    BY <1>8, <1>9, <2>2 DEF Filled
<1>12. Filled(PDT1, 1)'
  <2>1. 0 \div E = 0 /\ 0 % E = 0
    BY TableAssumption
  <2>2. PDT1 + 0 = PDT1
    BY Pages
  <2>3. \A f \in 0 .. 1 - 1 : f = 0
    OBVIOUS
  <2> QED
    BY <1>6, <1>8, <2>1, <2>2, <2>3 DEF Filled
<1>13. OnlyTablesWritten'
  <2>1. {PML4T, PDPT1, PDT1} \subseteq TablePages
    BY Pages
  <2>2. \A p \in BlockPages \ TablePages : mem'[p] = mem[p]
    BY <1>8, <2>1
  <2> QED
    BY <2>2 DEF IInv, OnlyTablesWritten
<1>14. TypeOK'
  <2>1. 1 \in 0 .. 4 * EntriesPerTable
    BY TableAssumption
  <2>2. UNCHANGED <<handoff, cpu, cr3, stack>> /\ frame' = 1 /\ rcx' = 1 /\ pc' = "lp_pd1"
    BY DEF highTables
  <2> QED
    BY <1>7, <2>1, <2>2 DEF IInv, TypeOK, handoff, cpu
<1>15. /\ pc' = "lp_pd1" /\ rcx' = 1 /\ frame' = 1 /\ cr3' = 0 /\ 1 < 2 * E
  BY <1>9, TableAssumption DEF highTables
<1>16. Built'
  BY <1>10, <1>11, <1>12, <1>15 DEF Built, AfterLow, AfterLoop0, AfterHigh, AfterLoop1, Live
<1> QED
  BY <1>13, <1>14, <1>16 DEF IInv, highTables, Pushed, GDTInForce, handoff, cpu

\* A turn of the second loop; the first table stays complete.
LEMMA HighLoopStep ==
  ASSUME IInv, lp_pd1
  PROVE  IInv'
<1>1. /\ 1 <= rcx /\ rcx < 2 * EntriesPerTable /\ frame = rcx /\ Filled(PDT1, rcx)
      /\ LowTop /\ HighTop /\ Filled(PDT0, 4 * EntriesPerTable) /\ cr3 = 0
  BY DEF IInv, Built, lp_pd1, AfterLow, AfterLoop0, AfterHigh, Live
<1>2. PDT1 + 2 - 1 \in TablePages
  BY Pages
<1>3. /\ \A f \in 0 .. rcx :
           mem'[PDT1 + f \div EntriesPerTable][f % EntriesPerTable] = Large(f)
      /\ mem' \in [BlockPages -> [Index -> Entry]]
      /\ \A p \in BlockPages : p \notin PDT1 .. PDT1 + 2 - 1 => mem'[p] = mem[p]
  BY <1>1, <1>2, LoopStore DEF IInv, lp_pd1
<1>4. rcx \in Nat /\ EntriesPerTable \in Nat /\ rcx' = rcx + 1 /\ frame' = frame + 1
  BY TableAssumption DEF IInv, TypeOK, lp_pd1
<1>5. Filled(PDT1, rcx)'
  BY <1>3, <1>4 DEF Filled
<1>6. LowTop' /\ HighTop'
  <2>1. mem'[PML4T] = mem[PML4T] /\ mem'[PDPT0] = mem[PDPT0] /\ mem'[PDPT1] = mem[PDPT1]
    <3>1. \A p \in {PML4T, PDPT0, PDPT1} :
            p \in BlockPages /\ p \notin PDT1 .. PDT1 + 2 - 1
      BY Pages
    <3> QED
      BY <1>3, <3>1
  <2> QED
    BY <1>1, <2>1 DEF LowTop, HighTop
<1>7. Filled(PDT0, 4 * EntriesPerTable)'
  <2> SUFFICES ASSUME NEW f \in 0 .. 4 * EntriesPerTable - 1
               PROVE  mem'[PDT0 + f \div EntriesPerTable][f % EntriesPerTable] = Large(f)
    BY DEF Filled
  <2>1. f \div EntriesPerTable \in 0 .. 3
    BY Place
  <2>2. mem'[PDT0 + f \div EntriesPerTable] = mem[PDT0 + f \div EntriesPerTable]
    BY <1>3, <2>1, Pages
  <2> QED
    BY <1>1, <2>2 DEF Filled
<1>8. OnlyTablesWritten'
  BY <1>3, Pages DEF IInv, OnlyTablesWritten
<1>9. TypeOK'
  BY <1>1, <1>3, <1>4 DEF IInv, TypeOK, lp_pd1, handoff, cpu
<1>10. pc' = (IF rcx' < 2 * EntriesPerTable THEN "lp_pd1" ELSE "cr3") /\ cr3' = 0
  BY <1>1, <1>4 DEF lp_pd1
<1>11. Built'
  <2>1. CASE pc' = "lp_pd1"
    BY <1>1, <1>4, <1>5, <1>6, <1>7, <1>10, <2>1
       DEF Built, AfterLow, AfterLoop0, AfterHigh, AfterLoop1, Live
  <2>2. CASE pc' = "cr3"
    <3>1. rcx' = 2 * EntriesPerTable
      BY <1>1, <1>4, <1>10, <2>2
    <3>2. Filled(PDT1, 2 * EntriesPerTable)'
      BY <1>5, <3>1 DEF Filled
    <3> QED
      BY <1>6, <1>7, <1>10, <2>2, <3>2
         DEF Built, AfterLow, AfterLoop0, AfterHigh, AfterLoop1, Live
  <2> QED
    BY <1>10, <2>1, <2>2
<1> QED
  BY <1>8, <1>9, <1>11 DEF IInv, lp_pd1, Pushed, GDTInForce, handoff, cpu

\* Once cr3 is loaded the tables are not touched any more.
LEMMA LeavingStep ==
  ASSUME IInv, loadCR3 \/ pushHandoff \/ jump
  PROVE  IInv'
<1>1. UNCHANGED <<handoff, GDTP, gdtr, cs, ds, frame, rcx, mem>>
  BY DEF loadCR3, pushHandoff, jump, cpu
<1>2. OnlyTablesWritten' /\ GDTInForce'
  BY <1>1 DEF IInv, OnlyTablesWritten, GDTInForce, loadCR3, pushHandoff, jump
<1>3. Built'
  BY <1>1, Pages DEF IInv, Built, LowTop, HighTop, Filled, loadCR3, pushHandoff, jump,
     AfterLow, AfterLoop0, AfterHigh, AfterLoop1, Live
<1>4. 1 \in StackSlots /\ 2 \in StackSlots /\ 3 \in StackSlots
  BY TableAssumption DEF StackSlots
<1>5. WordSize \in Nat \ {0}
  BY WordAssumption, SMT DEF WordSize
<1>6. PICK h \in Handoffs : m_btext = h.btext /\ m_modulep = h.modulep /\ m_kernend = h.kernend
  BY DEF IInv, TypeOK
<1>7. /\ m_modulep \in 0 .. WordSize - 1 /\ m_kernend \in 0 .. WordSize - 1
  BY <1>6, HandoffAssumption
<1>8. m_modulep % WordSize = m_modulep /\ m_kernend % WordSize = m_kernend
      /\ m_modulep \in Nat /\ m_kernend \in Nat
  BY <1>5, <1>7
<1>9. TypeOK' /\ Pushed'
  <2>1. CASE loadCR3
    BY <1>1, <2>1 DEF IInv, TypeOK, Pushed, loadCR3, handoff, cpu
  <2>2. CASE pushHandoff
    <3>1. stack' \in [StackSlots -> Nat]
      BY <1>8, <2>2 DEF IInv, TypeOK, Pushed, pushHandoff
    <3>2. rsp = 0 /\ rsp' = 3
      BY <2>2 DEF IInv, Pushed, pushHandoff
    <3>3. stack'[1] = m_kernend /\ stack'[2] = m_modulep
      BY <1>4, <1>8, <2>2, <3>2 DEF IInv, TypeOK, pushHandoff
    <3> QED
      BY <1>1, <2>2, <3>1, <3>2, <3>3 DEF IInv, TypeOK, Pushed, pushHandoff, handoff
  <2>3. CASE jump
    BY <1>1, <2>3 DEF IInv, TypeOK, Pushed, jump, handoff, cpu
  <2> QED
    BY <2>1, <2>2, <2>3
<1> QED
  BY <1>2, <1>3, <1>9 DEF IInv

\* Each loop has filled its table as far as its counter, and what was built before
\* stays built.
LEMMA InvStep ==
  ASSUME IInv, [Next]_vars
  PROVE  IInv'
<1>1. CASE UNCHANGED vars
  BY <1>1 DEF IInv, vars, handoff, cpu, TypeOK, Built, LowTop, HighTop, Filled,
     OnlyTablesWritten, Pushed, GDTInForce
<1> QED
  BY <1>1, SegmentStep, LowTablesStep, LowLoopStep, HighTablesStep, HighLoopStep,
     LeavingStep DEF Next, Step, Gone

\* What each instruction relies on is there whenever it runs.
THEOREM Invariance == Spec => []IInv
  BY InvInit, InvStep, PTL DEF Spec

-----------------------------------------------------------------------------
(* What follows from it                                                    *)

\* Every variable stays in its type: no turn of a loop stores outside the pages of
\* the block.
THEOREM TrampolineTyped == Spec => []TypeOK
<1>1. IInv => TypeOK
  BY DEF IInv
<1> QED
  BY <1>1, Invariance, PTL

\* Walking complete tables from cr3 ends at frame f.
LEMMA Walk ==
  ASSUME IInv, cr3 # 0
  PROVE  LowIdentity /\ HighLinear
<1>1. /\ cr3 = PML4T /\ LowTop /\ HighTop
      /\ Filled(PDT0, 4 * EntriesPerTable) /\ Filled(PDT1, 2 * EntriesPerTable)
  BY DEF IInv, Built, Live, AfterLow, AfterLoop0, AfterHigh, AfterLoop1
<1>2. \A p \in Nat : Follows(Table(p), p)
  BY DEF Follows, Table
<1>3. ASSUME NEW f \in 0 .. 4 * EntriesPerTable - 1 PROVE MapsTo(Low(f), f)
  <2> DEFINE q == f \div EntriesPerTable
  <2>1. q \in 0 .. 3
    BY Place
  <2>2. PDPT0 \in BlockPages /\ PDT0 + q \in BlockPages /\ PDPT0 \in Nat /\ PDT0 + q \in Nat
    BY <2>1, Pages
  <2>3. Low(f).l4 = 0 /\ Low(f).l3 = q /\ Low(f).l2 = f % EntriesPerTable
    BY DEF Low
  <2>4. mem[PDT0 + q][f % EntriesPerTable] = Large(f)
    BY <1>1 DEF Filled
  <2> HIDE DEF q
  <2>5. Follows(mem[cr3][Low(f).l4], PDPT0)
    BY <1>1, <1>2, <2>2, <2>3 DEF LowTop
  <2>6. Follows(mem[PDPT0][Low(f).l3], PDT0 + q)
    BY <1>1, <1>2, <2>1, <2>2, <2>3 DEF LowTop
  <2>7. mem[PDT0 + q][Low(f).l2] = Large(f)
    BY <2>3, <2>4
  <2> QED
    BY <2>2, <2>5, <2>6, <2>7 DEF MapsTo
<1>4. ASSUME NEW f \in 0 .. 2 * EntriesPerTable - 1 PROVE MapsTo(High(f), f)
  <2> DEFINE q == f \div EntriesPerTable
  <2>1. q \in 0 .. 1
    BY Place
  <2>2. PDPT1 \in BlockPages /\ PDT1 + q \in BlockPages /\ PDPT1 \in Nat /\ PDT1 + q \in Nat
    BY <2>1, Pages
  <2>3. /\ High(f).l4 = EntriesPerTable - 1 /\ High(f).l3 = EntriesPerTable - 2 + q
        /\ High(f).l2 = f % EntriesPerTable
    BY DEF High
  <2>4. mem[PDT1 + q][f % EntriesPerTable] = Large(f)
    BY <1>1 DEF Filled
  <2> HIDE DEF q
  <2>5. Follows(mem[cr3][High(f).l4], PDPT1)
    BY <1>1, <1>2, <2>2, <2>3 DEF HighTop
  <2>6. Follows(mem[PDPT1][High(f).l3], PDT1 + q)
    <3>1. CASE q = 0
      <4>1. High(f).l3 = EntriesPerTable - 2 /\ PDT1 + q = PDT1
        BY <2>3, <3>1, TableAssumption, Pages
      <4> QED
        BY <1>1, <1>2, <2>2, <4>1 DEF HighTop
    <3>2. CASE q = 1
      <4>1. High(f).l3 = EntriesPerTable - 1 /\ PDT1 + q = PDT1 + 1
        BY <2>3, <3>2, TableAssumption, Pages
      <4> QED
        BY <1>1, <1>2, <2>2, <4>1 DEF HighTop
    <3> QED
      BY <2>1, <3>1, <3>2
  <2>7. mem[PDT1 + q][High(f).l2] = Large(f)
    BY <2>3, <2>4
  <2> QED
    BY <2>2, <2>5, <2>6, <2>7 DEF MapsTo
<1> QED
  BY <1>3, <1>4 DEF LowIdentity, HighLinear

\* Whenever the new tables are in force, the low 4 GiB are where they were: the
\* code goes on running and its stack stays usable.
THEOREM LowMapped == Spec => []LowIdentity
<1>1. IInv => LowIdentity
  BY Walk DEF LowIdentity
<1> QED
  BY <1>1, Invariance, PTL

\* Whenever they are, every kernel address means the memory the kernel was
\* loaded to.
THEOREM HighMapped == Spec => []HighLinear
<1>1. IInv => HighLinear
  BY Walk DEF HighLinear
<1> QED
  BY <1>1, Invariance, PTL

\* The stores of both loops stay within the tables.
THEOREM StoresInTables == Spec => []OnlyTablesWritten
<1>1. IInv => OnlyTablesWritten
  BY DEF IInv
<1> QED
  BY <1>1, Invariance, PTL

\* The kernel finds modulep and kernend where it looks for them.
THEOREM Delivered == Spec => []ArgumentsDelivered
<1>1. IInv => ArgumentsDelivered
  BY DEF IInv, Pushed, ArgumentsDelivered
<1> QED
  BY <1>1, Invariance, PTL

\* No step of the trampoline faults: until it is in the kernel, the guard of its
\* next instruction holds (descriptors usable, code, stack and target mapped).
THEOREM NeverFaults == Spec => []NextInstructionRuns
<1>1. IInv => NextInstructionRuns
  <2> SUFFICES ASSUME IInv PROVE NextInstructionRuns
    OBVIOUS
  <2>1. /\ FrameOf(BasePage) = 0 /\ FrameOf(StackPage) = 0
    BY Pages, BaseAssumption, TableAssumption DEF FrameOf
  <2>2. pc \in {"retf", "segments"} => Usable(16, "code") /\ Usable(24, "data")
    <3>1. Descriptors[16 \div 8 + 1] = "code" /\ Descriptors[24 \div 8 + 1] = "data"
          /\ Len(Descriptors) = 4
      BY DEF Descriptors
    <3> QED
      BY <3>1 DEF IInv, GDTInForce, Usable
  <2>3. pc = "boot" => Running
    <3>1. CASE cr3 = 0
      BY <3>1 DEF Running, MapsTo
    <3>2. CASE cr3 # 0
      <4>1. 0 \in 0 .. 4 * EntriesPerTable - 1
        BY TableAssumption
      <4> QED
        BY <2>1, <3>2, <4>1, Walk DEF LowIdentity, Running
    <3> QED
      BY <3>1, <3>2
  <2>4. pc = "jmp" => MapsTo(High(m_btext), m_btext)
    <3>1. m_btext \in 0 .. 2 * EntriesPerTable - 1
      BY HandoffAssumption DEF IInv, TypeOK
    <3>2. pc = "jmp" => cr3 # 0
      BY DEF IInv, Built, Live
    <3> QED
      BY <3>1, <3>2, Walk DEF HighLinear
  <2> QED
    BY <2>2, <2>3, <2>4 DEF NextInstructionRuns
<1> QED
  BY <1>1, Invariance, PTL
=============================================================================
