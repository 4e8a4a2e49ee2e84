------------------------------ MODULE MCBlocks ------------------------------
(***************************************************************************)
(* Values for TLC.  Kernels: longs of 4 bytes, a hole of 4, and all files  *)
(* made of a few program headers and sections.  Strings: of one to three   *)
(* characters, up to three times.  Fonts: glyphs of one and two bytes per  *)
(* line, tables with and without maps, files of the right length, too      *)
(* short, too long, and of a length the index takes for right.  Files: all *)
(* of up to five bytes, so that a gzip file may hold a gzip file and white *)
(* space may come before the magic.  Hosts: memory maps of up to four      *)
(* entries in a table of four, regions that begin and end inside a page of *)
(* 4 bytes, answers to everything, and hosts on which something is         *)
(* missing.                                                                *)
(***************************************************************************)
EXTENDS Blocks

MC_LONG == 4
MC_KERNBASE == 16
MC_Hole == 4

Ph(type, v, off, f, m) ==
  [type |-> type, vaddr |-> MC_KERNBASE + MC_Hole + v, offset |-> off, filesz |-> f, memsz |-> m]
Sh(type, off, n, link) == [type |-> type, offset |-> off, size |-> n, link |-> link]

\* With and without bss, an empty segment, gaps, and a header in between that is
\* not loaded.
MC_Phdrs ==
  {<<Ph("LOAD", v, 64, f, m), Ph("other", 0, 64, 9, 9), Ph("LOAD", w, 70, g, g + 1)>> :
      v \in {0, 1}, f \in {0, 2}, m \in {2, 4}, w \in {5, 7}, g \in {0, 3}}

\* Tables of all lengths modulo LONG, in either order, or only one, or none.
MC_Shdrs ==
  {<<Sh("SYMTAB", 80, n, 1), Sh("STRTAB", 90, m, 0)>> : n \in 0 .. 8, m \in {1, 4, 6}}
    \cup {<<Sh("other", 64, 3, 0), Sh("STRTAB", 90, 5, 0), Sh("SYMTAB", 80, n, 1)>> : n \in 1 .. 4}
    \cup {<<Sh("SYMTAB", 80, 4, 0)>>, <<Sh("STRTAB", 90, 5, 0)>>, <<Sh("other", 64, 3, 0)>>}

MC_Kernels == [phdr : MC_Phdrs, shdr : MC_Shdrs]

\* As FreeBSD's own kernels have them: .dynstr before .symtab and .strtab.
MC_Dynamic ==
  [phdr : {<<Ph("LOAD", 0, 64, 2, n)>> : n \in 2 .. 8},
   shdr : {<<Sh("STRTAB", 90, n, 0), Sh("SYMTAB", 80, 8, 2), Sh("STRTAB", 100, n, 0)>> : n \in 1 .. 8}]

-----------------------------------------------------------------------------

MC_Strings == {<<a>> : a \in {1, 2}} \cup {<<1, 1>>, <<2, 1>>, <<1, 2, 1>>}
MC_MaxAdded == 3

-----------------------------------------------------------------------------

\* Files of 72 bytes and more are too long for the index, 12 bytes of glyphs for the stack.
MC_Word  == 72
MC_Stack == 11

\* The widths of a font that fits its bytes and one that does not.  The bytes of 40
\* glyphs may be beyond Word themselves.
MC_Headers ==
  [width : {7, 8, 12}, height : {1, 2}, glyphs : {0, 2, 3, 40},
   maps : {<<1, 0, 2, 1>>, <<2, 1, 0, 0>>, <<0, 0, 0, 0>>}]
MC_Whole(h) == 32 + h.glyphs * ((h.width + 7) \div 8) * h.height
                  + 8 * (h.maps[1] + h.maps[2] + h.maps[3] + h.maps[4])
MC_Font(h, b, n) ==
  [magic |-> b, width |-> h.width, height |-> h.height, glyphs |-> h.glyphs,
   maps |-> h.maps, length |-> n]
MC_Files ==
  {MC_Font(h, TRUE, MC_Whole(h) + n) : h \in MC_Headers, n \in {-1, 0, 1, 8}}
    \cup {MC_Font(h, TRUE, MC_Whole(h) % MC_Word) : h \in MC_Headers}
    \cup {MC_Font(h, b, n) : h \in MC_Headers, b \in BOOLEAN, n \in {20, 33}}

-----------------------------------------------------------------------------

MC_Bytes == {"1f", "8b", "space", "x"}
MC_Contents == UNION {[1 .. n -> MC_Bytes] : n \in 0 .. 5}
MC_StaleByte == {"1f", "8b", "x"}
-----------------------------------------------------------------------------

MC_EfiPage == 4
MC_TABLE == 4
MC_StaleWord == {0, 99}

Entry(a, n, t) == [addr |-> a, size |-> n, type |-> t]
Nothing        == Entry(0, 0, 0)
\* Behind its entries a table has zeroes, or what was there before.
Map(n, rest, first, gap, last) ==
  [n |-> n, table |-> [k \in 0 .. 3 |-> IF k < n \/ rest = "old" THEN <<first, gap, last, Entry(24, 8, 1)>>[k + 1]
                                        ELSE Nothing]]
MC_Maps ==
  {Map(n, q, Entry(a, s, t), Entry(8, 4, u), Entry(b, r, 1)) : n \in 0 .. 4, q \in {"old", "zero"},
     a \in {0, 1}, s \in {4, 6}, t \in {1, 2}, u \in {1, 2}, b \in {12, 13}, r \in {3, 8}}

MC_Host(efi, efivga, readable, map, systab, rsdp, rsdt_, devmem) ==
  [efi |-> efi, efivga |-> efivga, readable |-> readable, e820_entries |-> map.n, e820_table |-> map.table,
   systab |-> systab, acpi_rsdp_addr |-> rsdp, rsdt |-> rsdt_, devmem |-> devmem]
MC_All == {"fb0", "boot_params", "systab"}
MC_Map == Map(3, "zero", Entry(0, 6, 1), Entry(8, 4, 2), Entry(12, 8, 1))

\* Any map; anything missing.
MC_Hosts ==
  {MC_Host(e, v, MC_All, m, <<"ACPI20", "ACPI">>, 7, 8, "open") : e \in {"absent", "full"},
     v \in BOOLEAN, m \in MC_Maps}
    \cup {MC_Host(e, v, MC_All \ {f}, MC_Map, s, r, w, d) :
            e \in {"absent", "empty", "full"}, v \in BOOLEAN, f \in MC_All \cup {"none"},
            s \in {<<>>, <<"ACPI20">>, <<"ACPI", "ACPI20">>}, r \in {0, 7}, w \in {0, 8},
            d \in {"closed", "refuses", "open"}}
=============================================================================
