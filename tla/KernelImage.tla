----------------------------- MODULE KernelImage -----------------------------
(***************************************************************************)
(* What elfLoadExec copies out of an executable kernel: the segments of    *)
(* its program headers into m_kernblock, its first symbol table and its    *)
(* first string table, through CSymbolsWriter, into m_sym.  Then FreeBSD   *)
(* looks for the two tables again.                                         *)
(*                                                                         *)
(* A byte of the file is known by its offset, so that every copied byte    *)
(* tells where it is from.                                                 *)
(***************************************************************************)
EXTENDS Integers, Sequences

CONSTANTS
  LONG,      \* sizeof(long), which is CSymbolsWriter's ALIGN: 8
  KERNBASE,  \* 0xffffffff80000000
  Hole,      \* 0x200000, in front of the kernel; and its physical address
  Kernels    \* the files: their program headers and section headers

ProgramHeader == [type : {"LOAD", "other"}, vaddr : Nat, offset : Nat, filesz : Nat, memsz : Nat]
SectionHeader == [type : {"SYMTAB", "STRTAB", "other"}, offset : Nat, size : Nat, link : Nat]

\* "The entries are sorted by vaddr, and there's always a 2 MiB hole in front of
\* the kernel" (bootloader.cxx:254); of the rest, what ELF asks for.
WellFormed(k) ==
  /\ k.phdr \in Seq(ProgramHeader) /\ k.shdr \in Seq(SectionHeader)
  /\ \A n \in DOMAIN k.phdr : /\ k.phdr[n].filesz <= k.phdr[n].memsz
                              /\ k.phdr[n].vaddr >= KERNBASE + Hole
  /\ \A m, n \in DOMAIN k.phdr :
       m < n /\ k.phdr[m].type = "LOAD" /\ k.phdr[n].type = "LOAD"
         => k.phdr[m].vaddr + k.phdr[m].memsz <= k.phdr[n].vaddr

ImageAssumption ==
  /\ LONG \in Nat \ {0} /\ KERNBASE \in Nat /\ Hole \in Nat
  /\ \A k \in Kernels : WellFormed(k)

VARIABLES
  kernel,
  pc,      \* "phdr", "symtab", "strtab", "parse", "done"
  i,       \* program headers dealt with
  m_kernblock,
  m_sym,
  found    \* what the reader knows of symbols

vars == <<kernel, pc, i, m_kernblock, m_sym, found>>

Zero       == <<"zero", 0, 0>>
File(o)    == <<"file", o, 0>>
Long(n, j) == IF n = 0 THEN Zero ELSE <<"long", n, j>>   \* byte j of n

Nothing == [tables |-> FALSE, symtab |-> 0, symcnt |-> 0, strtab |-> 0, strcnt |-> 0]

Init ==
  /\ kernel \in Kernels
  /\ pc = "phdr" /\ i = 0
  /\ m_kernblock = [b \in 0 .. -1 |-> Zero] /\ m_sym = <<>>
  /\ found = Nothing

-----------------------------------------------------------------------------
(* Segments                                                                *)

resize(block, n) == [b \in 0 .. n - 1 |-> IF b \in DOMAIN block THEN block[b] ELSE Zero]
memcpy(block, dst, src, n) ==
  [b \in DOMAIN block |-> IF dst <= b /\ b < dst + n THEN File(src + b - dst) ELSE block[b]]

\* Broken: room for what is in the file only.
end_OfFile(p) == p.vaddr - KERNBASE - Hole + p.filesz

paddr(p) == p.vaddr - KERNBASE - Hole
end(p)   == p.vaddr - KERNBASE - Hole + p.memsz

loadSegment ==
  /\ pc = "phdr" /\ i < Len(kernel.phdr)
  /\ LET p == kernel.phdr[i + 1]
     IN  m_kernblock' = IF p.type # "LOAD" THEN m_kernblock
                        ELSE memcpy(resize(m_kernblock, end(p)), paddr(p), p.offset, p.filesz)
  /\ i' = i + 1
  /\ UNCHANGED <<kernel, pc, m_sym, found>>

segmentsLoaded ==
  /\ pc = "phdr" /\ i = Len(kernel.phdr)
  /\ pc' = "symtab"
  /\ UNCHANGED <<kernel, i, m_kernblock, m_sym, found>>

-----------------------------------------------------------------------------
(* Symbols                                                                 *)

\* Broken: pads what is aligned already.
align_Always(buffer) == buffer \o [b \in 1 .. LONG - (Len(buffer) % LONG) |-> Zero]

align(buffer) == buffer \o [b \in 1 .. (LONG - (Len(buffer) % LONG)) % LONG |-> Zero]

\* addSymTab and addStrTab: the size, the table, padding.
addTab(s) ==
  align(m_sym \o [j \in 1 .. LONG |-> Long(s.size, j)] \o [b \in 1 .. s.size |-> File(s.offset + b - 1)])

Has(type)  == \E n \in DOMAIN kernel.shdr : kernel.shdr[n].type = type
\* The loops over the section headers stop at the first of the type.
First(type) ==
  CHOOSE n \in DOMAIN kernel.shdr :
    kernel.shdr[n].type = type /\ \A m \in 1 .. n - 1 : kernel.shdr[m].type # type

addSection(type) ==
  /\ m_sym' = IF Has(type) THEN addTab(kernel.shdr[First(type)]) ELSE m_sym
  /\ UNCHANGED <<kernel, i, m_kernblock, found>>

symtab == pc = "symtab" /\ addSection("SYMTAB") /\ pc' = "strtab"

\* With neither table, writeMetadata's assert ends the run.
strtab == /\ pc = "strtab" /\ addSection("STRTAB")
          /\ pc' = IF m_sym' = <<>> THEN "aborted" ELSE "parse"

-----------------------------------------------------------------------------
(* FreeBSD's link_elf_preload_parse_symbols, from ssym to esym             *)

\* The block is followed by the zeroes of its last page.
Byte(p)      == IF p < Len(m_sym) THEN m_sym[p + 1] ELSE Zero
LongAt(p, n) == \A j \in 1 .. LONG : Byte(p + j - 1) = Long(n, j)
Roundup(n)   == ((n + LONG - 1) \div LONG) * LONG

Sizes == {0} \cup {kernel.shdr[n].size : n \in DOMAIN kernel.shdr}

\* Where there is no number it takes anything for one: modelled as a deadlock.
parse_symbols ==
  /\ pc = "parse"
  /\ \E symcnt \in Sizes :
       /\ LongAt(0, symcnt)
       /\ LET base == LONG + Roundup(symcnt)
          IN  IF base > Len(m_sym) THEN found' = Nothing
              ELSE \E strcnt \in Sizes :
                     /\ LongAt(base, strcnt)
                     /\ found' = IF base + LONG + Roundup(strcnt) > Len(m_sym) THEN Nothing
                                 ELSE [tables |-> TRUE, symtab |-> LONG, symcnt |-> symcnt,
                                       strtab |-> base + LONG, strcnt |-> strcnt]
  /\ pc' = "done"
  /\ UNCHANGED <<kernel, i, m_kernblock, m_sym>>

\* A reader that is lost is stuck.
Over == pc \in {"done", "aborted"} /\ UNCHANGED vars

Step == loadSegment \/ segmentsLoaded \/ symtab \/ strtab \/ parse_symbols

Next == Step \/ Over

Spec == Init /\ [][Next]_vars

-----------------------------------------------------------------------------
(* Properties                                                              *)

\* With the block at physical address Hole and the boot program's mapping of
\* KERNBASE to 0, virtual address v holds this byte.
InMemory(v) == LET b == v - KERNBASE - Hole
               IN  IF b \in DOMAIN m_kernblock THEN m_kernblock[b] ELSE <<"other", 0, 0>>

\* Each segment dealt with is in memory where its header says, byte by byte, and its
\* bss is zero; segments that follow, whose resize() comes later, leave it so.
ImageAsDescribed ==
  \A n \in 1 .. i : LET p == kernel.phdr[n] IN
    p.type = "LOAD" =>
      \A k \in 0 .. p.memsz - 1 :
        InMemory(p.vaddr + k) = IF k < p.filesz THEN File(p.offset + k) ELSE Zero

Holds(p, n, type) ==
  LET s == kernel.shdr[First(type)]
  IN  n = s.size /\ \A k \in 0 .. n - 1 : Byte(p + k) = File(s.offset + k)

\* The reader, who knows no padding but that of each table, finds both of them
\* complete and is then exactly at esym; of a file with only one it finds none, and
\* does not take a string table for symbols.
SymbolsFound ==
  pc = "done" =>
    IF Has("SYMTAB") /\ Has("STRTAB")
    THEN /\ found.tables
         /\ Holds(found.symtab, found.symcnt, "SYMTAB")
         /\ Holds(found.strtab, found.strcnt, "STRTAB")
         /\ found.strtab + Roundup(found.strcnt) = Len(m_sym)
    ELSE ~found.tables

\* bootloader.hxx:32, "Load an ELF kernel": the names FreeBSD finds are in the table
\* that the symbol table links to (sh_link), as ELF has it.
NamesOfSymbols ==
  pc = "done" /\ found.tables
    => First("STRTAB") = kernel.shdr[First("SYMTAB")].link + 1
=============================================================================
