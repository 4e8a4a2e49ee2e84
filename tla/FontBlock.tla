------------------------------ MODULE FontBlock ------------------------------
(***************************************************************************)
(* fontLoad: a .fnt file (big endian; header, glyphs, four tables of maps) *)
(* becomes the block FreeBSD wants (little endian; header, maps, glyphs).  *)
(* It reads through an index of 32 bits with no look at the length, and    *)
(* compares the two only at the end.                                       *)
(*                                                                         *)
(* A byte of the file is known by its offset.  A number is the sequence of *)
(* its bytes, most significant first.                                      *)
(***************************************************************************)
EXTENDS Integers, Sequences, SequencesExt

CONSTANTS
  Word,   \* 2^32
  Stack,  \* bytes the stack has left for the array of glyphs
  Files   \* what zslurp may return, as far as the header and the length go

Tables == 1 .. 4   \* VFNT_MAPS

\* When a file is shorter than a header, fields are what the memory behind it holds.
File == [magic : BOOLEAN, width : 0 .. 255, height : 0 .. 255, glyphs : 0 .. Word - 1,
         maps : [Tables -> 0 .. Word - 1], length : Nat]

HEADER == 32   \* sizeof(font_header), and sizeof(font_info)
MAP    == 8    \* sizeof(vfnt_map)

howmany(x, y) == (x + y - 1) \div y

gbytes(f) == howmany(f.width, 8) * f.height

FilesAssumption ==
  /\ Word \in Nat /\ Word > HEADER /\ Stack \in Nat
  /\ Files \subseteq File

VARIABLES
  hdr,          \* the file, and from it the header
  pc,           \* "header", "glyphs", "maps", "insert", or the outcome
  index,        \* of as many bits as Word has values
  fontBytes,
  maps,         \* the maps of each table read so far
  m_fontblock,
  fi            \* its header: the first HEADER bytes, field by field

vars == <<hdr, pc, index, fontBytes, maps, m_fontblock, fi>>

NoInfo == [checksum |-> 0, width |-> 0, height |-> 0, bitmap_size |-> 0, map_count |-> [t \in Tables |-> 0]]

Init ==
  /\ hdr \in Files
  /\ pc = "header" /\ index = 0
  /\ fontBytes = <<>> /\ maps = [t \in Tables |-> <<>>]
  /\ m_fontblock = <<>> /\ fi = NoInfo

\* The n bytes at the index; those behind the end of the buffer are other memory.
Read(n) == [k \in 1 .. n |-> index + k - 1]
\* Reading behind the end may also be the end of the process.
Beyond(n) == index + n > hdr.length /\ pc' = "crashed"

header ==
  /\ pc = "header"
  /\ \/ hdr.magic /\ index' = HEADER /\ pc' = "glyphs"
     \/ ~hdr.magic /\ pc' = "throws" /\ UNCHANGED index
     \/ Beyond(HEADER) /\ UNCHANGED index
  /\ UNCHANGED <<hdr, fontBytes, maps, m_fontblock, fi>>

total == (hdr.glyphs * gbytes(hdr)) % Word

glyphs ==
  /\ pc = "glyphs"
  /\ fontBytes' = Read(total) /\ index' = (index + total) % Word
  /\ \/ pc' = "maps" \/ Beyond(total)
     \/ total > Stack /\ pc' = "crashed"
  /\ UNCHANGED <<hdr, maps, m_fontblock, fi>>

\* be32toh and be16toh: from here on the low byte comes first.
Swapped(map) == Reverse(SubSeq(map, 1, 4)) \o Reverse(SubSeq(map, 5, 6)) \o Reverse(SubSeq(map, 7, 8))

Count(t) == hdr.maps[t]
Full(t)  == Len(maps[t]) = Count(t)

\* The next map goes to the first table that is not full.
readMap ==
  /\ pc = "maps"
  /\ \E t \in Tables :
       /\ ~Full(t) /\ \A s \in 1 .. t - 1 : Full(s)
       /\ maps' = [maps EXCEPT ![t] = Append(@, Swapped(Read(MAP)))]
  /\ index' = (index + MAP) % Word
  /\ UNCHANGED pc \/ Beyond(MAP)
  /\ UNCHANGED <<hdr, fontBytes, m_fontblock, fi>>

mapsRead ==
  /\ pc = "maps" /\ \A t \in Tables : Full(t)
  /\ pc' = "insert"
  /\ UNCHANGED <<hdr, index, fontBytes, maps, m_fontblock, fi>>

Sum(w, h, n, c) == (w + h + n + c[1] + c[2] + c[3] + c[4]) % Word

\* Broken: in the order of the file.
block_AsInFile == fontBytes \o FlattenSeq(maps[1] \o maps[2] \o maps[3] \o maps[4])

checksum == (Word - Sum(hdr.width, hdr.height, total, hdr.maps)) % Word

\* What follows the header: the maps, then the glyphs.
block == FlattenSeq(maps[1] \o maps[2] \o maps[3] \o maps[4]) \o fontBytes

\* Broken: a file that is longer is let through.
assert_Longer == index <= hdr.length

assert == index = hdr.length

insert ==
  /\ pc = "insert"
  /\ fi' = [checksum |-> checksum, width |-> hdr.width, height |-> hdr.height,
            bitmap_size |-> total, map_count |-> hdr.maps]
  /\ m_fontblock' = block
  /\ pc' = IF assert THEN "loaded" ELSE "aborted"
  /\ UNCHANGED <<hdr, index, fontBytes, maps>>

Outcomes == {"throws", "crashed", "aborted", "loaded"}
Over == pc \in Outcomes /\ UNCHANGED vars

Next == header \/ glyphs \/ readMap \/ mapsRead \/ insert \/ Over

Spec == Init /\ [][Next]_vars

-----------------------------------------------------------------------------
(* FreeBSD's parse_font_info                                               *)

Accepted == (Sum(fi.width, fi.height, fi.bitmap_size, fi.map_count) + fi.checksum) % Word = 0

\* Bytes of the maps before map j (from 0) of table t.
Before(count, t, j) ==
  MAP * (j + (IF t > 1 THEN count[1] ELSE 0) + (IF t > 2 THEN count[2] ELSE 0)
           + (IF t > 3 THEN count[3] ELSE 0))

\* A number of n bytes at offset o behind the header, as the little endian reader has it.
Number(o, n) == Reverse(SubSeq(m_fontblock, o + 1, o + n))

\* Where it takes the glyphs from, and how many bytes each of them has.
vf_bytes   == Before(fi.map_count, 4, fi.map_count[4])
GlyphBytes == hdr.height * (hdr.width \div 8 + (IF hdr.width % 8 = 0 THEN 0 ELSE 1))

-----------------------------------------------------------------------------
(* Properties                                                              *)

\* The length of a proper file; do it and its glyphs fit the index and the stack?
Whole == HEADER + hdr.glyphs * GlyphBytes + Before(hdr.maps, 4, hdr.maps[4])
Fits  == Whole < Word /\ hdr.glyphs * GlyphBytes <= Stack

\* Where the format (bootloader.cxx:88) has the number of n bytes at offset o of a map.
InFile(t, j, o, n) ==
  [k \in 1 .. n |-> HEADER + hdr.glyphs * GlyphBytes + Before(hdr.maps, t, j) + o + k - 1]

\* FreeBSD takes a block that was loaded, and finds the three numbers of every map
\* of every table, and every byte of every glyph, as the file has them, if the header
\* describes a file that fits.
FontAsGiven ==
  pc = "loaded" /\ Fits =>
    /\ Accepted
    /\ \A t \in Tables : \A j \in 0 .. hdr.maps[t] - 1 :
         LET at == Before(fi.map_count, t, j)
         IN  /\ Number(at, 4) = InFile(t, j, 0, 4)
             /\ Number(at + 4, 2) = InFile(t, j, 4, 2)
             /\ Number(at + 6, 2) = InFile(t, j, 6, 2)
    /\ \A k \in 0 .. hdr.glyphs * GlyphBytes - 1 : m_fontblock[vf_bytes + k + 1] = HEADER + k

\* If the header describes a file that fits, the file is loaded exactly when its length
\* is that of the header, the glyphs and the maps: no byte from behind its end gets into
\* a block that is used, and no proper file is refused.  No file of Word bytes or more is
\* loaded, proper or not.
LoadedIfWhole ==
  pc \in Outcomes =>
    /\ Fits => (pc = "loaded" <=> hdr.magic /\ hdr.length = Whole)
    /\ pc = "loaded" => hdr.magic /\ hdr.length < Word
=============================================================================
