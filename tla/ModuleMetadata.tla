---------------------------- MODULE ModuleMetadata ----------------------------
(***************************************************************************)
(* CMetaWriter under writeMetadata, and FreeBSD's walk over what it wrote. *)
(* A record is its type, the size of its data, the data, and padding; the  *)
(* reader skips from record to record by the sizes alone, so one byte too  *)
(* many or too few makes it take data for a type.  Every byte is told      *)
(* apart by the value it is of and its number in that value.               *)
(***************************************************************************)
EXTENDS Naturals, Sequences

CONSTANTS
  ALIGN,     \* sizeof(uintptr_t), 8
  Programs   \* the sequences of calls that may be made

\* A call: the function, the type of the record, and the bytes in its argument.
Call == [op : {"str", "var", "span"}, type : Nat \ {0}, bytes : Nat]

ASSUME AlignAssumption == ALIGN \in Nat \ {0}
ASSUME ProgramsAssumption == Programs \subseteq Seq(Call)

\* The calls of writeMetadata, whose map is the SMAP or, under EFI, the whole EFI_MAP.
Metadata(type) == 32768 + type   \* MODINFO_METADATA | type
writeMetadata(map) ==
  <<[op |-> "str",  type |-> 1, bytes |-> 19],             \* "/boot/kernel/kernel"
    [op |-> "str",  type |-> 2, bytes |-> 10],             \* "elf kernel"
    [op |-> "var",  type |-> 3, bytes |-> 8],
    [op |-> "var",  type |-> 4, bytes |-> 8],
    [op |-> "var",  type |-> Metadata(3), bytes |-> 8],    \* SSYM
    [op |-> "var",  type |-> Metadata(4), bytes |-> 8],    \* ESYM
    [op |-> "var",  type |-> Metadata(6), bytes |-> 8],    \* ENVP
    [op |-> "var",  type |-> Metadata(7), bytes |-> 4],    \* HOWTO
    [op |-> "var",  type |-> Metadata(12), bytes |-> 8],   \* FW_HANDLE
    map,
    [op |-> "span", type |-> Metadata(4101), bytes |-> 44],  \* EFI_FB
    [op |-> "var",  type |-> Metadata(14), bytes |-> 8]>>    \* FONT

SMAP(entries)   == [op |-> "span", type |-> Metadata(4097), bytes |-> 20 * entries]
EFI_MAP         == [op |-> "span", type |-> Metadata(4100), bytes |-> 32 + 40 * 128]

VARIABLES
  program,
  m_buffer,
  starts,    \* where the record of each call made so far begins
  pc,        \* "clear", "write", "read", "done"
  curp,      \* the reader's position
  found      \* records it has passed

vars == <<program, m_buffer, starts, pc, curp, found>>

Fields == {"type", "size", "data", "pad"}
Cell   == [field : Fields, of : Nat, number : Nat]

Byte(field, of, k) == [field |-> field, of |-> of, number |-> k]
Value(field, of, n) == [k \in 1 .. n |-> Byte(field, of, k)]

Init ==
  /\ program \in Programs
  /\ m_buffer = <<>> /\ starts = <<>>
  /\ pc = "clear" /\ curp = 0 /\ found = 0

clear ==
  /\ pc = "clear"
  /\ m_buffer' = <<>> /\ starts' = <<>>
  /\ pc' = "write"
  /\ UNCHANGED <<program, curp, found>>

-----------------------------------------------------------------------------
(* The writer                                                              *)

\* Broken: to a multiple of half the alignment.
Padding_Half(n) == (ALIGN - (n % ALIGN)) % (ALIGN \div 2)

Padding(n) == (ALIGN - (n % ALIGN)) % ALIGN
align(buffer) == buffer \o Value("pad", 0, Padding(Len(buffer)))

header(type, size) == Value("type", type, 4) \o Value("size", size, 4)

\* A string counts, and is written, with its terminator.
size(call) == IF call.op = "str" THEN call.bytes + 1 ELSE call.bytes

\* Broken: the size in the header leaves out the terminator.
record_Strlen(call) ==
  align(m_buffer \o header(call.type, call.bytes) \o Value("data", call.type, size(call)))

\* push, push, push, align.
record(call) ==
  align(m_buffer \o header(call.type, size(call)) \o Value("data", call.type, size(call)))

add ==
  /\ pc = "write" /\ Len(starts) < Len(program)
  /\ m_buffer' = record(program[Len(starts) + 1])
  /\ starts' = Append(starts, Len(m_buffer))
  /\ UNCHANGED <<program, pc, curp, found>>

\* Broken: the end before the last record; half a record.
addEnd_Early ==
  /\ pc = "write"
  /\ m_buffer' = m_buffer \o header(0, 0)
  /\ pc' = "read"
  /\ UNCHANGED <<program, starts, curp, found>>
addEnd_TypeOnly ==
  /\ pc = "write" /\ Len(starts) = Len(program)
  /\ m_buffer' = m_buffer \o Value("type", 0, 4)
  /\ pc' = "read"
  /\ UNCHANGED <<program, starts, curp, found>>

addEnd ==
  /\ pc = "write" /\ Len(starts) = Len(program)
  /\ m_buffer' = m_buffer \o header(0, 0)
  /\ pc' = "read"
  /\ UNCHANGED <<program, starts, curp, found>>

-----------------------------------------------------------------------------
(* The reader                                                              *)

\* The n bytes at offset o are the value.
Holds(o, field, of, n) ==
  o + n <= Len(m_buffer) /\ \A k \in 1 .. n : m_buffer[o + k] = Byte(field, of, k)
HeaderAt(o, type, n) == Holds(o, "type", type, 4) /\ Holds(o + 4, "size", n, 4)

\* FreeBSD adds the size to the header's and rounds up to the alignment.
Skip(n) == ((8 + n + ALIGN - 1) \div ALIGN) * ALIGN

preload_search_info ==
  /\ pc = "read"
  /\ \/ \E call \in {program[n] : n \in DOMAIN program} :
          /\ HeaderAt(curp, call.type, size(call))
          /\ curp' = curp + Skip(size(call)) /\ found' = found + 1
          /\ UNCHANGED pc
     \/ /\ HeaderAt(curp, 0, 0)
        /\ pc' = "done"
        /\ UNCHANGED <<curp, found>>
  /\ UNCHANGED <<program, m_buffer, starts>>

\* Where there is no header the reader takes anything for one: it is lost, which is
\* modelled as never getting on.
Rest == pc \in {"read", "done"} /\ UNCHANGED vars

Step == clear \/ add \/ addEnd \/ preload_search_info

Next == Step \/ Rest

Spec == Init /\ [][Next]_vars /\ WF_vars(Step)

-----------------------------------------------------------------------------
(* Properties                                                              *)

\* Every variable stays in its range: the reader never looks beyond the buffer.
TypeOK ==
  /\ program \in Programs
  /\ m_buffer \in Seq(Cell)
  /\ starts \in Seq(Nat) /\ Len(starts) <= Len(program)
  /\ pc \in {"clear", "write", "read", "done"}
  /\ curp \in Nat /\ found \in 0 .. Len(program)
  /\ pc \in {"read", "done"} => curp + 8 <= Len(m_buffer)

\* Each call's record is whole and aligned where it was put, and stays so while
\* others are added behind it: header, data to the last byte, the string's
\* terminator included.
RecordsIntact ==
  \A n \in DOMAIN starts :
    /\ starts[n] % ALIGN = 0
    /\ HeaderAt(starts[n], program[n].type, size(program[n]))
    /\ Holds(starts[n] + 8, "data", program[n].type, size(program[n]))

\* The walk goes from record to record in the order of the calls, although the
\* writer pads by the length of its buffer and the reader by the size of a record.
ReaderOnRecord ==
  pc = "read" /\ found < Len(starts) => curp = starts[found + 1]

\* After the last record, and not before, the reader is on the end, which is the
\* last thing in the buffer.
EndFound ==
  pc = "done" => found = Len(program) /\ curp + 8 = Len(m_buffer)

\* The reader gets to the end.
EventuallyRead == <>(pc = "done")
=============================================================================
