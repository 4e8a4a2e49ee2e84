------------------------------- MODULE Blocks -------------------------------
(***************************************************************************)
(* How the contents of the blocks come about: the kernel and its symbols   *)
(* (KernelImage), the environment (Environment), the font (FontBlock),     *)
(* before that the reading of its file (ReadFile), and what is asked of    *)
(* Linux for the environment and the metadata (HostQueries).  main() runs  *)
(* them one after the other and none of them reads what another wrote: a   *)
(* behaviour here is one of them, the subject; the others' variables are   *)
(* off.                                                                    *)
(***************************************************************************)
EXTENDS Integers, Sequences

CONSTANTS
  LONG, KERNBASE, Hole, Kernels,   \* KernelImage
  Strings, MaxAdded,               \* Environment
  Word, Stack, Files,              \* FontBlock
  Contents, StaleByte,             \* ReadFile
  EfiPage, TABLE, StaleWord, Hosts \* HostQueries

VARIABLES
  subject, pc,
  kernel, i, m_kernblock, m_sym, found,
  m_buffer, m_count, added, cp, seen,
  hdr, index, fontBytes, maps, m_fontblock, fi,
  file, exists, good, tellg, magic, buffer,
  host, m_efi, m_smap, m_efimap, m_rsdp, m_rsdt, m_env

K == INSTANCE KernelImage
E == INSTANCE Environment
F == INSTANCE FontBlock
R == INSTANCE ReadFile
H == INSTANCE HostQueries

ASSUME BlocksAssumption ==
  /\ K!ImageAssumption /\ E!StringsAssumption /\ F!FilesAssumption
  /\ R!ContentsAssumption /\ H!HostAssumption

kernelVars == <<kernel, i, m_kernblock, m_sym, found>>
envVars    == <<m_buffer, m_count, added, cp, seen>>
fontVars   == <<hdr, index, fontBytes, maps, m_fontblock, fi>>
fileVars   == <<file, exists, good, tellg, magic, buffer>>
hostVars   == <<host, m_efi, m_smap, m_efimap, m_rsdp, m_rsdt, m_env>>
vars       == <<subject, pc, kernelVars, envVars, fontVars, fileVars, hostVars>>

KernelOff == kernel = {} /\ i = {} /\ m_kernblock = {} /\ m_sym = {} /\ found = {}
EnvOff    == m_buffer = {} /\ m_count = {} /\ added = {} /\ cp = {} /\ seen = {}
FontOff   == hdr = {} /\ index = {} /\ fontBytes = {}
               /\ maps = {} /\ m_fontblock = {} /\ fi = {}
FileOff   == file = {} /\ exists = {} /\ good = {}
               /\ tellg = {} /\ magic = {} /\ buffer = {}
HostOff   == host = {} /\ m_efi = {} /\ m_smap = {} /\ m_efimap = {}
               /\ m_rsdp = {} /\ m_rsdt = {} /\ m_env = {}

Init ==
  \/ subject = "kernel" /\ K!Init /\ EnvOff /\ FontOff /\ FileOff /\ HostOff
  \/ subject = "env"    /\ KernelOff /\ E!Init /\ FontOff /\ FileOff /\ HostOff
  \/ subject = "font"   /\ KernelOff /\ EnvOff /\ F!Init /\ FileOff /\ HostOff
  \/ subject = "file"   /\ KernelOff /\ EnvOff /\ FontOff /\ R!Init /\ HostOff
  \/ subject = "host"   /\ KernelOff /\ EnvOff /\ FontOff /\ FileOff /\ H!Init

Kernel == subject = "kernel" /\ K!Next /\ UNCHANGED <<subject, envVars, fontVars, fileVars, hostVars>>
Env    == subject = "env"    /\ E!Next /\ UNCHANGED <<subject, kernelVars, fontVars, fileVars, hostVars>>
Font   == subject = "font"   /\ F!Next /\ UNCHANGED <<subject, kernelVars, envVars, fileVars, hostVars>>
FileIn == subject = "file"   /\ R!Next /\ UNCHANGED <<subject, kernelVars, envVars, fontVars, hostVars>>
Asked  == subject = "host"   /\ H!Next /\ UNCHANGED <<subject, kernelVars, envVars, fontVars, fileVars>>

Next == Kernel \/ Env \/ Font \/ FileIn \/ Asked

Spec == Init /\ [][Next]_vars

-----------------------------------------------------------------------------
(* Properties: those of the parts                                          *)

\* elfLoadExec's segments are in memory as their headers say, bss and all.
ImageAsDescribed == subject = "kernel" => K!ImageAsDescribed

\* FreeBSD finds both tables of symbols in what CSymbolsWriter made, or none.
SymbolsFound == subject = "kernel" => K!SymbolsFound

\* FreeBSD reads the strings that were added, all of them, in order.
StringsRead == subject = "env" => E!StringsRead

\* FreeBSD finds the maps and glyphs of the font file in fontLoad's block.
FontAsGiven == subject = "font" => F!FontAsGiven

\* fontLoad accepts a file exactly when it is as long as its header says.
LoadedIfWhole == subject = "font" => F!LoadedIfWhole

\* zslurp returns the file or what it unpacks to, and nothing where there is no file.
ContentDelivered == subject = "file" => R!ContentDelivered

\* FreeBSD is told of the host's usable memory, all of it but parts of pages, and of
\* nothing else.
MemoryTold == subject = "host" => H!MemoryTold

\* FreeBSD finds the host's ACPI root pointer in the environment.
RootPointerTold == subject = "host" => H!RootPointerTold

\* bootloader.hxx:32, "Load an ELF kernel": symbols come with the names ELF links to them.
NamesOfSymbols == subject = "kernel" => K!NamesOfSymbols
=============================================================================
