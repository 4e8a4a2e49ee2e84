----------------------------- MODULE HostQueries -----------------------------
(***************************************************************************)
(* The Bootloader's constructor asks Linux about the machine, in the order *)
(* of the members: firmware, framebuffer, memory map, the same in the form *)
(* UEFI has, ACPI's root pointer.  Then FreeBSD is told: one of the maps   *)
(* in the metadata, the pointer in the environment.                        *)
(***************************************************************************)
EXTENDS Integers, Sequences

CONSTANTS
  EfiPage,   \* 4096, in the code and in UEFI
  TABLE,     \* entries of e820_table, 128
  Hosts,     \* what Linux may answer
  StaleWord  \* what a word on the stack may hold before it is written

SMAP_TYPE_MEMORY == 1
EFI_MD_TYPE_NULL == 0
EFI_MD_TYPE_FREE == 7

Index == 0 .. TABLE - 1
E820  == [addr : Nat, size : Nat, type : Nat]

\* efi: /sys/firmware/efi; readable: of fb0, boot_params and systab; efivga: fb0's name
\* is "EFI VGA"; e820_table: zeroes, as a rule, behind its entries; systab: the names of its
\* lines; rsdt: the word in the structure at rsdp, which /dev/mem may or may not give.
Host == [efi : {"absent", "empty", "full"}, readable : SUBSET {"fb0", "boot_params", "systab"},
         efivga : BOOLEAN,
         e820_entries : 0 .. TABLE, e820_table : [Index -> E820],
         systab : Seq({"ACPI20", "ACPI", "MPS"}), acpi_rsdp_addr : Nat, rsdt : Nat,
         devmem : {"closed", "refuses", "open"}]

HostAssumption ==
  /\ EfiPage \in Nat \ {0} /\ TABLE \in Nat /\ StaleWord \subseteq Nat
  /\ Hosts \subseteq Host

VARIABLES
  host,
  pc,                \* the query that comes next, or the outcome
  m_efi, m_smap, m_efimap, m_rsdp, m_rsdt,
  m_env              \* the pointers it was written with

vars == <<host, pc, m_efi, m_smap, m_efimap, m_rsdp, m_rsdt, m_env>>

NoTable == [n \in Index |-> [type |-> EFI_MD_TYPE_NULL, phys |-> 0, pages |-> 0]]

Init ==
  /\ host \in Hosts
  /\ pc = "isEFI" /\ m_efi = FALSE
  /\ m_smap = [e820_entries |-> 0, e820_table |-> host.e820_table]
  /\ m_efimap = [memory_size |-> 0, descriptor_size |-> 0, efi_table |-> NoTable]
  /\ m_rsdp = 0 /\ m_rsdt = 0 /\ m_env = <<>>

\* Broken: the environment is written with the members.
After_EnvFirst == [isEFI |-> "fetchFB", fetchFB |-> "fetchSMAP", fetchSMAP |-> "fetchEFIMAP",
  fetchEFIMAP |-> "writeDefaultEnv", writeDefaultEnv |-> "fetchACPI20", fetchACPI20 |-> "constructed"]

After == [isEFI |-> "fetchFB", fetchFB |-> "fetchSMAP", fetchSMAP |-> "fetchEFIMAP",
  fetchEFIMAP |-> "fetchACPI20", fetchACPI20 |-> "writeDefaultEnv", writeDefaultEnv |-> "constructed"]

Return == pc' = After[pc]
Throws(file) == file \notin host.readable /\ pc' = "throws"

-----------------------------------------------------------------------------

isEFI ==
  /\ pc = "isEFI"
  /\ m_efi' = (host.efi = "full") /\ Return
  /\ UNCHANGED <<host, m_smap, m_efimap, m_rsdp, m_rsdt, m_env>>

\* Where fb0 is not the firmware's, its address is in the boot parameters.
fetchFB ==
  /\ pc = "fetchFB"
  /\ \/ Throws("fb0")
     \/ ~host.efivga /\ Throws("boot_params")
     \/ /\ (IF host.efivga THEN {"fb0"} ELSE {"fb0", "boot_params"}) \subseteq host.readable
        /\ Return
  /\ UNCHANGED <<host, m_efi, m_smap, m_efimap, m_rsdp, m_rsdt, m_env>>

\* The whole table is copied, and the number of its entries.
SMAP == [e820_entries |-> host.e820_entries, e820_table |-> host.e820_table]

fetchSMAP ==
  /\ pc = "fetchSMAP"
  /\ \/ Throws("boot_params") /\ UNCHANGED m_smap
     \/ /\ "boot_params" \in host.readable
        /\ IF host.e820_entries = 0 THEN pc' = "aborted" /\ UNCHANGED m_smap
           ELSE m_smap' = SMAP /\ Return
  /\ UNCHANGED <<host, m_efi, m_efimap, m_rsdp, m_rsdt, m_env>>

DESCRIPTOR == 40   \* sizeof(efimapentry)

\* Broken: all of the table.
memory_size_Table(map) == TABLE * DESCRIPTOR

memory_size(map) == map.e820_entries * DESCRIPTOR

\* Descriptors for the memory only; in place of the others zeroes stay.
descriptor(e) ==
  IF e.type # SMAP_TYPE_MEMORY THEN [type |-> EFI_MD_TYPE_NULL, phys |-> 0, pages |-> 0]
  ELSE [type |-> EFI_MD_TYPE_FREE, phys |-> e.addr, pages |-> e.size \div EfiPage]

\* It asks for the map again, which cannot fail where it was there before.
fetchEFIMAP ==
  /\ pc = "fetchEFIMAP"
  /\ m_efimap' = [memory_size |-> memory_size(SMAP), descriptor_size |-> DESCRIPTOR,
                  efi_table |-> [n \in Index |-> descriptor(SMAP.e820_table[n])]]
  /\ Return
  /\ UNCHANGED <<host, m_efi, m_smap, m_rsdp, m_rsdt, m_env>>

\* The loop over the lines of systab goes on while they are ACPI20=: with Linux,
\* which has one of them, it sees the first line.
acpi20 == IF m_efi /\ (host.systab = <<>> \/ host.systab[1] # "ACPI20") THEN 0
          ELSE host.acpi_rsdp_addr

\* The word at rsdp + 16; when the read fails, what the stack has there.
rsdt == IF host.devmem = "open" THEN {host.rsdt} ELSE StaleWord

\* Its asserts: a pointer, /dev/mem, and without UEFI the word as well.
fetchACPI20 ==
  /\ pc = "fetchACPI20"
  /\ \/ Throws(IF m_efi THEN "systab" ELSE "boot_params") /\ UNCHANGED <<m_rsdp, m_rsdt>>
     \/ /\ (IF m_efi THEN "systab" ELSE "boot_params") \in host.readable
        /\ \/ /\ acpi20 # 0 /\ host.devmem # "closed"
              /\ m_rsdp' = acpi20 /\ m_rsdt' \in rsdt
              /\ m_efi \/ m_rsdt' # 0
              /\ Return
           \/ /\ acpi20 = 0 \/ host.devmem = "closed" \/ (~m_efi /\ 0 \in rsdt)
              /\ pc' = "aborted" /\ UNCHANGED <<m_rsdp, m_rsdt>>
  /\ UNCHANGED <<host, m_efi, m_smap, m_efimap, m_env>>

writeDefaultEnv ==
  /\ pc = "writeDefaultEnv"
  /\ m_env' = <<m_rsdp, m_rsdt>> /\ Return
  /\ UNCHANGED <<host, m_efi, m_smap, m_efimap, m_rsdp, m_rsdt>>

Over == pc \in {"throws", "aborted", "constructed"} /\ UNCHANGED vars

Next == isEFI \/ fetchFB \/ fetchSMAP \/ fetchEFIMAP \/ fetchACPI20 \/ writeDefaultEnv \/ Over

Spec == Init /\ [][Next]_vars

-----------------------------------------------------------------------------
(* What FreeBSD makes of it                                                *)

Bytes(addr, size) == addr .. addr + size - 1

\* add_smap_entries: the entries of type memory.
ToldBySMAP ==
  UNION {Bytes(e.addr, e.size) : e \in {m_smap.e820_table[n] : n \in
           {k \in 0 .. m_smap.e820_entries - 1 : m_smap.e820_table[k].type = SMAP_TYPE_MEMORY}}}

\* add_efi_map_entries: as many descriptors as the size has, the free ones of them.
ToldByEFI ==
  UNION {Bytes(d.phys, d.pages * EfiPage) : d \in {m_efimap.efi_table[n] : n \in
           {k \in 0 .. m_efimap.memory_size \div m_efimap.descriptor_size - 1 :
              m_efimap.efi_table[k].type = EFI_MD_TYPE_FREE}}}

Told == IF m_efi THEN ToldByEFI ELSE ToldBySMAP

-----------------------------------------------------------------------------
(* Properties                                                              *)

Usable == {n \in 0 .. host.e820_entries - 1 : host.e820_table[n].type = SMAP_TYPE_MEMORY}
Region(n) == Bytes(host.e820_table[n].addr, host.e820_table[n].size)

\* FreeBSD is told of no byte that the host does not have as memory: what is reserved,
\* and what the table holds behind its entries, is never among it.  Nor does it lose
\* memory: of each usable region less than a page is not told, and nothing of one that
\* is whole pages.
MemoryTold ==
  pc = "constructed" =>
    /\ Told \subseteq UNION {Region(n) : n \in Usable}
    /\ \A n \in Usable :
         LET e == host.e820_table[n]
         IN  Bytes(e.addr, e.size - (IF m_efi THEN e.size % EfiPage ELSE 0)) \subseteq Told

\* In the environment FreeBSD finds the host's root pointer, never a zero or one
\* from before the query, and where the table could be read, its word.
RootPointerTold ==
  pc = "constructed" =>
    /\ m_env[1] = host.acpi_rsdp_addr /\ m_env[1] # 0
    /\ host.devmem = "open" => m_env[2] = host.rsdt
=============================================================================
