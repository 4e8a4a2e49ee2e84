---------------------------- MODULE BlocksProofs ----------------------------
(***************************************************************************)
(* For all files, kernels, strings, fonts and hosts: the blocks hold what  *)
(* Blocks says of them.  Every part has an invariant of its own; what is   *)
(* proved of it holds of the behaviours of which it is the subject.        *)
(***************************************************************************)
EXTENDS Blocks, AlignmentProofs, SequenceTheorems

\* A part keeps its invariant through the steps of the others, which do not run.
LEMMA OthersStutter ==
  ASSUME [Next]_vars
  PROVE  /\ subject' = subject
         /\ subject = "kernel" => K!Next \/ UNCHANGED <<kernelVars, pc>>
         /\ subject = "env"    => E!Next \/ UNCHANGED <<envVars, pc>>
         /\ subject = "font"   => F!Next \/ UNCHANGED <<fontVars, pc>>
         /\ subject = "file"   => R!Next \/ UNCHANGED <<fileVars, pc>>
         /\ subject = "host"   => H!Next \/ UNCHANGED <<hostVars, pc>>
  BY DEF Next, vars, Kernel, Env, Font, FileIn, Asked

-----------------------------------------------------------------------------
(* The host                                                                *)

AfterMap  == {"fetchEFIMAP", "fetchACPI20", "writeDefaultEnv", "constructed"}
AfterEfi  == {"fetchACPI20", "writeDefaultEnv", "constructed"}
AfterAcpi == {"writeDefaultEnv", "constructed"}

\* What has been asked is known.
HostInv ==
  /\ host \in Hosts
  /\ pc \in AfterMap \cup {"isEFI", "fetchFB", "fetchSMAP", "throws", "aborted"}
  /\ pc \in AfterMap => m_smap = H!SMAP
  /\ pc \in AfterEfi =>
       m_efimap = [memory_size |-> H!memory_size(H!SMAP), descriptor_size |-> H!DESCRIPTOR,
                   efi_table |-> [n \in H!Index |-> H!descriptor(H!SMAP.e820_table[n])]]
  /\ pc \in AfterAcpi => /\ m_rsdp = host.acpi_rsdp_addr /\ m_rsdp # 0
                         /\ host.devmem = "open" => m_rsdt = host.rsdt
  /\ pc = "constructed" => m_env = <<m_rsdp, m_rsdt>>

LEMMA HostInit == H!Init => HostInv
  BY DEF H!Init, HostInv, AfterMap, AfterEfi, AfterAcpi

LEMMA HostStep ==
  ASSUME HostInv, H!Next \/ UNCHANGED <<hostVars, pc>>
  PROVE  HostInv'
<1> USE DEF AfterMap, AfterEfi, AfterAcpi
<1>1. CASE H!isEFI \/ H!fetchFB
  BY <1>1 DEF HostInv, H!isEFI, H!fetchFB, H!Return, H!Throws, H!After
<1>2. CASE H!fetchSMAP
  BY <1>2 DEF HostInv, H!fetchSMAP, H!Return, H!Throws, H!After, H!SMAP
<1>3. CASE H!fetchEFIMAP
  BY <1>3 DEF HostInv, H!fetchEFIMAP, H!Return, H!After, H!SMAP, H!memory_size, H!descriptor,
     H!DESCRIPTOR, H!Index
<1>4. CASE H!fetchACPI20
  BY <1>4 DEF HostInv, H!fetchACPI20, H!Return, H!Throws, H!After, H!acpi20, H!rsdt, H!SMAP,
     H!memory_size, H!descriptor
<1>5. CASE H!writeDefaultEnv
  BY <1>5 DEF HostInv, H!writeDefaultEnv, H!Return, H!After, H!SMAP, H!memory_size, H!descriptor
<1>6. CASE H!Over \/ UNCHANGED <<hostVars, pc>>
  BY <1>6 DEF HostInv, H!Over, H!vars, hostVars, H!SMAP, H!memory_size, H!descriptor
<1> QED
  BY <1>1, <1>2, <1>3, <1>4, <1>5, <1>6 DEF H!Next

\* The parts of a host's answer.
LEMMA HostAnswers ==
  ASSUME host \in Hosts
  PROVE  /\ TABLE \in Nat /\ EfiPage \in Nat \ {0}
         /\ host.e820_entries \in 0 .. TABLE
         /\ \A n \in H!Index : /\ host.e820_table[n].addr \in Nat
                               /\ host.e820_table[n].size \in Nat
<1>1. host \in H!Host /\ TABLE \in Nat /\ EfiPage \in Nat \ {0}
  BY BlocksAssumption DEF H!HostAssumption
<1>2. host.e820_entries \in 0 .. TABLE /\ host.e820_table \in [H!Index -> H!E820]
  BY <1>1 DEF H!Host
<1> QED
  BY <1>1, <1>2 DEF H!E820

\* Whole pages of a region are in it.
LEMMA WholePages ==
  ASSUME NEW size \in Nat, NEW page \in Nat \ {0}
  PROVE  (size \div page) * page = size - (size % page) /\ size % page \in 0 .. size
<1> DEFINE q == size \div page
           r == size % page
<1>1. q \in Nat /\ r \in Nat /\ size = page * q + r
  BY DivMod, SMT
<1>2. page * q = q * page /\ q * page \in Nat
  BY <1>1, SMT
<1> QED
  BY <1>1, <1>2

LEMMA MemoryIsTold == HostInv => H!MemoryTold
<1> SUFFICES ASSUME HostInv, pc = "constructed"
             PROVE  /\ H!Told \subseteq UNION {H!Region(n) : n \in H!Usable}
                    /\ \A n \in H!Usable :
                         LET e == host.e820_table[n]
                         IN  H!Bytes(e.addr, e.size - (IF m_efi THEN e.size % EfiPage ELSE 0))
                               \subseteq H!Told
  BY DEF H!MemoryTold
<1>1. m_smap = H!SMAP
  BY DEF HostInv, AfterMap
<1>2. m_efimap = [memory_size |-> H!memory_size(H!SMAP), descriptor_size |-> H!DESCRIPTOR,
                   efi_table |-> [n \in H!Index |-> H!descriptor(H!SMAP.e820_table[n])]]
  BY DEF HostInv, AfterEfi
<1>3. /\ TABLE \in Nat /\ EfiPage \in Nat \ {0} /\ host.e820_entries \in 0 .. TABLE
      /\ \A n \in H!Index : host.e820_table[n].addr \in Nat /\ host.e820_table[n].size \in Nat
  BY HostAnswers DEF HostInv
<1>4. 0 .. host.e820_entries - 1 \subseteq H!Index /\ H!Usable \subseteq H!Index
  BY <1>3 DEF H!Index, H!Usable
<1>5. CASE ~m_efi
  <2>1. H!Told = UNION {H!Bytes(e.addr, e.size) : e \in {host.e820_table[n] : n \in H!Usable}}
    BY <1>1, <1>5 DEF H!Told, H!ToldBySMAP, H!SMAP, H!Usable
  <2>2. H!Told = UNION {H!Region(n) : n \in H!Usable}
    BY <2>1 DEF H!Region
  <2>3. \A n \in H!Usable : host.e820_table[n].size - 0 = host.e820_table[n].size
    BY <1>3, <1>4
  <2> QED
    BY <1>5, <2>2, <2>3 DEF H!Region
<1>6. CASE m_efi
  <2> DEFINE e(n) == host.e820_table[n]
             Whole(n) == H!Bytes(e(n).addr, e(n).size - (e(n).size % EfiPage))
  <2>1. m_efimap.memory_size \div m_efimap.descriptor_size = host.e820_entries
    BY <1>2, <1>3 DEF H!memory_size, H!SMAP, H!DESCRIPTOR
  <2>2. \A n \in H!Index : m_efimap.efi_table[n] = H!descriptor(e(n))
    BY <1>2 DEF H!SMAP
  <2>3. \A n \in 0 .. host.e820_entries - 1 :
          m_efimap.efi_table[n].type = H!EFI_MD_TYPE_FREE <=> n \in H!Usable
    <3> SUFFICES ASSUME NEW n \in 0 .. host.e820_entries - 1
                 PROVE  m_efimap.efi_table[n].type = H!EFI_MD_TYPE_FREE <=> n \in H!Usable
      OBVIOUS
    <3>1. m_efimap.efi_table[n] = H!descriptor(e(n))
      BY <1>4, <2>2
    <3>2. H!descriptor(e(n)).type = IF e(n).type = 1 THEN 7 ELSE 0
      BY DEF H!descriptor, H!EFI_MD_TYPE_FREE, H!EFI_MD_TYPE_NULL, H!SMAP_TYPE_MEMORY
    <3>3. n \in H!Usable <=> e(n).type = 1
      BY DEF H!Usable, H!SMAP_TYPE_MEMORY
    <3> QED
      BY <3>1, <3>2, <3>3 DEF H!EFI_MD_TYPE_FREE
  <2>4. {k \in 0 .. host.e820_entries - 1 : m_efimap.efi_table[k].type = H!EFI_MD_TYPE_FREE} = H!Usable
    BY <2>3 DEF H!Usable
  <2>5. H!Told = UNION {H!Bytes(d.phys, d.pages * EfiPage) : d \in {m_efimap.efi_table[n] : n \in H!Usable}}
    BY <1>6, <2>1, <2>4 DEF H!Told, H!ToldByEFI
  <2>6. ASSUME NEW n \in H!Usable
        PROVE  LET d == m_efimap.efi_table[n]
               IN  H!Bytes(d.phys, d.pages * EfiPage) = Whole(n) /\ Whole(n) \subseteq H!Region(n)
    <3>1. /\ m_efimap.efi_table[n].phys = e(n).addr
          /\ m_efimap.efi_table[n].pages = e(n).size \div EfiPage
      <4>1. m_efimap.efi_table[n] = H!descriptor(e(n)) /\ e(n).type = H!SMAP_TYPE_MEMORY
        BY <1>4, <2>2 DEF H!Usable
      <4> QED
        BY <4>1 DEF H!descriptor
    <3>2. e(n).addr \in Nat /\ e(n).size \in Nat
      BY <1>3, <1>4
    <3>3. /\ (e(n).size \div EfiPage) * EfiPage = e(n).size - (e(n).size % EfiPage)
          /\ e(n).size % EfiPage \in 0 .. e(n).size
      BY <1>3, <3>2, WholePages
    <3> QED
      BY <3>1, <3>2, <3>3 DEF H!Bytes, H!Region
  <2>7. H!Told = UNION {Whole(n) : n \in H!Usable}
    BY <2>5, <2>6
  <2> QED
    BY <1>6, <2>6, <2>7
<1> QED
  BY <1>5, <1>6

\* Told: no byte that is not usable memory, and of every usable region all whole pages,
\* whatever the map that Linux answers with.
THEOREM AllMemoryTold == Spec => []MemoryTold
<1> DEFINE Inv == subject = "host" => HostInv
<1>1. Init => Inv
  BY HostInit DEF Init
<1>2. Inv /\ [Next]_vars => Inv'
  BY HostStep, OthersStutter
<1>3. Inv => MemoryTold
  BY MemoryIsTold DEF MemoryTold
<1> QED
  BY <1>1, <1>2, <1>3, PTL DEF Spec

\* The environment has the pointer that Linux knows, on every host.
THEOREM PointerTold == Spec => []RootPointerTold
<1> DEFINE Inv == subject = "host" => HostInv
<1>1. Init => Inv
  BY HostInit DEF Init
<1>2. Inv /\ [Next]_vars => Inv'
  BY HostStep, OthersStutter
<1>3. Inv => RootPointerTold
  BY DEF RootPointerTold, HostInv, H!RootPointerTold, AfterAcpi
<1> QED
  BY <1>1, <1>2, <1>3, PTL DEF Spec

-----------------------------------------------------------------------------
(* The file                                                                *)

Opened == {"magic0", "magic1", "seekg", "unzip", "slurp", "returned", "throws"}

\* Of a gzip file the two bytes extracted are the first two; a stream that has failed
\* stands at its end, so that stale bytes that look like a magic lead to nothing.
FileInv ==
  /\ file \in Seq(R!Bytes) /\ exists \in BOOLEAN /\ good \in BOOLEAN /\ tellg \in Nat
  /\ magic \in [1 .. 2 -> R!Bytes]
  /\ pc \in Opened \cup {"open"}
  /\ good => exists
  /\ pc = "open" => tellg = 0
  /\ pc = "magic0" => good = exists /\ tellg = 0
  /\ pc = "magic1" /\ exists /\ R!IsGzip(file) => good /\ tellg = 1 /\ magic[1] = "1f"
  /\ pc = "seekg" /\ exists /\ R!IsGzip(file) => magic[1] = "1f" /\ magic[2] = "8b"
  /\ pc \in {"magic1", "seekg", "unzip"} => good \/ ~exists \/ tellg = Len(file)
  /\ pc = "unzip" /\ good => tellg = 0
  /\ pc = "slurp" /\ exists => ~R!IsGzip(file)
  /\ R!ContentDelivered

LEMMA FileInit == R!Init => FileInv
<1> SUFFICES ASSUME R!Init PROVE FileInv
  OBVIOUS
<1>1. file \in Seq(R!Bytes) /\ magic \in [1 .. 2 -> R!Bytes]
  BY BlocksAssumption DEF R!Init, R!ContentsAssumption
<1> QED
  BY <1>1 DEF R!Init, FileInv, Opened, R!ContentDelivered

\* What >> does to the stream.
LEMMA Extracted ==
  ASSUME FileInv, NEW k \in 1 .. 2, NEW next, R!extract(k, next)
  PROVE  /\ UNCHANGED <<file, exists, buffer>> /\ pc' = next
         /\ good' \in BOOLEAN /\ tellg' \in Nat /\ magic' \in [1 .. 2 -> R!Bytes]
         /\ good' => good
         /\ good' \/ tellg' = Len(file) \/ (~good /\ tellg' = tellg)
         /\ \A n \in 1 .. Len(file) :
              good /\ n = tellg + 1 /\ file[n] # "space"
                => /\ good' /\ tellg' = n
                   /\ magic' = [magic EXCEPT ![k] = file[n]]
<1>1. UNCHANGED <<file, exists, buffer>> /\ pc' = next
  BY DEF R!extract
<1>2. /\ Len(file) \in Nat /\ DOMAIN file = 1 .. Len(file)
      /\ \A n \in 1 .. Len(file) : file[n] \in R!Bytes
  BY DEF FileInv
<1>3. CASE /\ good
           /\ \E n \in DOMAIN file :
                R!NextChar(n) /\ magic' = [magic EXCEPT ![k] = file[n]] /\ tellg' = n
           /\ UNCHANGED good
  <2>1. PICK n \in 1 .. Len(file) :
               R!NextChar(n) /\ magic' = [magic EXCEPT ![k] = file[n]] /\ tellg' = n
    BY <1>2, <1>3
  <2>2. magic' \in [1 .. 2 -> R!Bytes]
    BY <1>2, <2>1 DEF FileInv
  <2>3. ASSUME NEW m \in 1 .. Len(file), m = tellg + 1, file[m] # "space"
        PROVE  m = n
    <3>1. n \in tellg + 1 .. Len(file) /\ \A l \in tellg + 1 .. n - 1 : file[l] = "space"
      BY <2>1 DEF R!NextChar
    <3>2. tellg \in Nat
      BY DEF FileInv
    <3>3. n # m => m \in tellg + 1 .. n - 1
      BY <2>3, <3>1, <3>2
    <3> QED
      BY <2>3, <3>1, <3>3
  <2>4. good /\ good' /\ good' \in BOOLEAN
    BY <1>3 DEF FileInv
  <2>5. tellg' = n /\ tellg' \in Nat
    BY <2>1
  <2>6. \A l \in 1 .. Len(file) :
              good /\ l = tellg + 1 /\ file[l] # "space"
                => /\ good' /\ tellg' = l
                   /\ magic' = [magic EXCEPT ![k] = file[l]]
    BY <2>1, <2>3, <2>4
  <2> QED
    BY <1>1, <2>2, <2>4, <2>5, <2>6
<1>4. CASE /\ good => \A n \in DOMAIN file : ~R!NextChar(n)
           /\ good' = FALSE /\ tellg' = (IF good THEN Len(file) ELSE tellg)
           /\ UNCHANGED magic
  <2>1. ASSUME NEW n \in 1 .. Len(file), good, n = tellg + 1, file[n] # "space"
        PROVE  FALSE
    BY <1>2, <1>4, <2>1 DEF FileInv, R!NextChar
  <2> QED
    BY <1>1, <1>2, <1>4, <2>1 DEF FileInv
<1> QED
  BY <1>3, <1>4 DEF R!extract

LEMMA FileStep ==
  ASSUME FileInv, R!Next \/ UNCHANGED <<fileVars, pc>>
  PROVE  FileInv'
<1>1. /\ Len(file) \in Nat
      /\ R!IsGzip(file) => /\ Len(file) > 2 /\ file[1] = "1f" /\ file[2] = "8b"
                           /\ 1 \in 1 .. Len(file) /\ 2 \in 1 .. Len(file)
  BY DEF FileInv, R!IsGzip
<1>2. CASE R!open
  BY <1>2 DEF FileInv, R!open, R!ContentDelivered, Opened
<1>3. CASE R!magic0
  <2>1. R!extract(1, "magic1") /\ pc = "magic0"
    BY <1>3 DEF R!magic0
  <2>2. good = exists /\ tellg = 0
    BY <2>1 DEF FileInv
  <2> QED
    BY <1>1, <2>1, <2>2, Extracted DEF FileInv, R!ContentDelivered, R!IsGzip, Opened
<1>4. CASE R!magic1
  <2>1. R!extract(2, "seekg") /\ pc = "magic1"
    BY <1>4 DEF R!magic1
  <2>2. /\ good \/ ~exists \/ tellg = Len(file)
        /\ exists /\ R!IsGzip(file) => good /\ tellg = 1 /\ magic[1] = "1f"
    BY <2>1 DEF FileInv
  <2>3. exists /\ R!IsGzip(file) => magic' = [magic EXCEPT ![2] = "8b"]
    <3>1. exists /\ R!IsGzip(file) => good /\ 2 = tellg + 1 /\ file[2] # "space"
      BY <1>1, <2>2
    <3>2. \A n \in 1 .. Len(file) : good /\ n = tellg + 1 /\ file[n] # "space"
                                    => magic' = [magic EXCEPT ![2] = file[n]]
      BY <2>1, Extracted
    <3> QED
      BY <1>1, <3>1, <3>2
  <2>4. exists /\ R!IsGzip(file) => magic'[1] = "1f" /\ magic'[2] = "8b"
    BY <2>2, <2>3 DEF FileInv
  <2> QED
    BY <1>1, <2>1, <2>2, <2>4, Extracted DEF FileInv, R!ContentDelivered, R!IsGzip, Opened
<1>5. CASE R!seekg
  <2>1. magic = <<"1f", "8b">> <=> magic[1] = "1f" /\ magic[2] = "8b"
    BY DEF FileInv
  <2> QED
    BY <1>5, <2>1 DEF FileInv, R!seekg, R!ContentDelivered, R!IsGzip, Opened
<1>6. CASE R!unzip
  <2> DEFINE rest == IF exists THEN SubSeq(file, tellg + 1, Len(file)) ELSE <<>>
  <2>1. /\ UNCHANGED <<file, exists, good, tellg, magic>> /\ pc = "unzip"
        /\ IF R!IsGzip(rest) THEN buffer' = R!Unpacked(rest) /\ pc' = "returned"
           ELSE pc' = "throws" /\ UNCHANGED buffer
    BY <1>6 DEF R!unzip
  <2>2. CASE good
    <3>1. rest = SubSeq(file, 1, Len(file))
      BY <2>1, <2>2 DEF FileInv
    <3>2. rest = file
      BY <3>1, SubSeqFull DEF FileInv
    <3> QED
      BY <2>1, <2>2, <3>2 DEF FileInv, R!ContentDelivered, R!IsGzip, R!Unpacked, Opened
  <2>3. CASE ~good
    <3>1. exists => tellg + 1 = Len(file) + 1
      BY <2>1, <2>3 DEF FileInv
    <3>2. exists => SubSeq(file, tellg + 1, Len(file)) = <<>>
      BY <1>1, <3>1, SubSeqEmpty
    <3>3. rest = <<>>
      BY <3>2
    <3>4. ~R!IsGzip(<<>>)
      BY DEF R!IsGzip
    <3>5. ~R!IsGzip(rest)
      BY <3>3, <3>4
    <3> QED
      BY <2>1, <2>3, <3>5 DEF FileInv, R!ContentDelivered, Opened
  <2> QED
    BY <2>2, <2>3 DEF FileInv
<1>7. CASE R!slurp
  BY <1>7 DEF FileInv, R!slurp, R!ContentDelivered, R!IsGzip, Opened
<1>8. CASE R!Over \/ UNCHANGED <<fileVars, pc>>
  BY <1>8 DEF FileInv, R!Over, R!vars, fileVars, R!ContentDelivered, R!IsGzip, R!Unpacked
<1> QED
  BY <1>2, <1>3, <1>4, <1>5, <1>6, <1>7, <1>8 DEF R!Next

\* zslurp delivers the whole file or what it unpacks to, for every content and whatever
\* the two bytes were before they were read.
THEOREM WholeContent == Spec => []ContentDelivered
<1> DEFINE Inv == subject = "file" => FileInv
<1>1. Init => Inv
  BY FileInit DEF Init
<1>2. Inv /\ [Next]_vars => Inv'
  BY FileStep, OthersStutter
<1>3. Inv => ContentDelivered
  BY DEF ContentDelivered, FileInv
<1> QED
  BY <1>1, <1>2, <1>3, PTL DEF Spec

-----------------------------------------------------------------------------
(* The font                                                                *)

Eights == {s \in Seq(Nat) : Len(s) = 8}

\* Which map byte k of the block is in, and where in it.
LEMMA DivEight ==
  ASSUME NEW j \in Nat, NEW k \in 1 .. 8
  PROVE  (8 * j + k - 1) \div 8 = j /\ (8 * j + k - 1) % 8 = k - 1
  OBVIOUS

LEMMA InEights ==
  ASSUME NEW n \in Nat, NEW k \in 1 .. 8 * n
  PROVE  (k - 1) \div 8 + 1 \in 1 .. n /\ ((k - 1) % 8) + 1 \in 1 .. 8
  OBVIOUS

\* The block has map j in its bytes 8 j to 8 j + 7: what FlattenSeq defines by recursion.
LEMMA Flattened ==
  ASSUME NEW seqs \in Seq(Eights)
  PROVE  /\ F!FlattenSeq(seqs) \in Seq(Nat)
         /\ Len(F!FlattenSeq(seqs)) = 8 * Len(seqs)
         /\ \A j \in 0 .. Len(seqs) - 1 : \A k \in 1 .. 8 :
              F!FlattenSeq(seqs)[8 * j + k] = seqs[j + 1][k]
<1> DEFINE n == Len(seqs)
           byte == [k \in 1 .. 8 * n |-> seqs[(k - 1) \div 8 + 1][((k - 1) % 8) + 1]]
           g == [j \in 1 .. n |-> SubSeq(byte, 1, 8 * j)]
           f == CHOOSE f : f = [j \in 1 .. n |-> IF j = 1 THEN seqs[j] ELSE f[j - 1] \o seqs[j]]
<1>1. F!FlattenSeq(seqs) = IF n = 0 THEN seqs ELSE f[n]
  BY DEF F!FlattenSeq
<1>2. n \in Nat
  OBVIOUS
<1>3. ASSUME NEW j \in 1 .. n
      PROVE  /\ seqs[j] \in Seq(Nat) /\ Len(seqs[j]) = 8
             /\ \A k \in 1 .. 8 : seqs[j][k] \in Nat
  <2>1. seqs[j] \in Eights
    BY DEF n
  <2>2. seqs[j] \in Seq(Nat) /\ Len(seqs[j]) = 8
    BY <2>1 DEF Eights
  <2>3. ASSUME NEW k \in 1 .. 8 PROVE seqs[j][k] \in Nat
    BY <2>2, ElementOfSeq
  <2> QED
    BY <2>2, <2>3
<1>4. n = 0 => seqs = <<>>
  OBVIOUS
<1> HIDE DEF n
<1>5. ASSUME NEW j \in 0 .. n - 1, NEW k \in 1 .. 8
      PROVE  byte[8 * j + k] = seqs[j + 1][k]
  <2>1. j \in Nat /\ 8 * j + k \in 1 .. 8 * n
    BY <1>2
  <2>2. (8 * j + k - 1) \div 8 = j /\ (8 * j + k - 1) % 8 = k - 1
    BY <2>1, DivEight
  <2>3. ((8 * j + k - 1) % 8) + 1 = k
    BY <2>2
  <2>4. byte[8 * j + k] = seqs[(8 * j + k - 1) \div 8 + 1][((8 * j + k - 1) % 8) + 1]
    <3>1. \A m \in 1 .. 8 * n : byte[m] = seqs[(m - 1) \div 8 + 1][((m - 1) % 8) + 1]
      OBVIOUS
    <3> HIDE DEF byte
    <3> QED
      BY <2>1, <3>1
  <2> QED
    BY <2>2, <2>3, <2>4
<1>6. ASSUME NEW k \in 1 .. 8 * n PROVE byte[k] \in Nat
  <2>1. (k - 1) \div 8 + 1 \in 1 .. n /\ ((k - 1) % 8) + 1 \in 1 .. 8
    BY <1>2, InEights
  <2> QED
    BY <1>3, <2>1
<1>7. byte \in Seq(Nat) /\ Len(byte) = 8 * n
  <2>1. byte \in [1 .. 8 * n -> Nat] /\ 8 * n \in Nat
    BY <1>2, <1>6
  <2> HIDE DEF byte
  <2> QED
    BY <2>1
<1> HIDE DEF byte
<1>8. ASSUME NEW j \in 1 .. n
      PROVE  /\ g[j] \in Seq(Nat) /\ Len(g[j]) = 8 * j
             /\ \A k \in 1 .. 8 * j : g[j][k] = byte[k]
  <2> DEFINE h == g[j]
  <2>1. h = SubSeq(byte, 1, 8 * j) /\ 8 * j \in 1 .. 8 * n
    BY <1>2
  <2>2. \A k \in 1 .. 8 * j : byte[k] \in Nat
    BY <1>2, <1>6
  <2> HIDE DEF h
  <2>3. /\ h \in Seq(Nat) /\ Len(h) = 8 * j - 1 + 1
        /\ \A k \in 1 .. 8 * j - 1 + 1 : h[k] = byte[1 + k - 1]
    BY <1>2, <2>1, <2>2, SubSeqProperties
  <2>4. 8 * j - 1 + 1 = 8 * j /\ \A k \in 1 .. 8 * j : 1 + k - 1 = k
    BY <1>2
  <2>5. h \in Seq(Nat) /\ Len(h) = 8 * j /\ \A k \in 1 .. 8 * j : h[k] = byte[k]
    BY <2>3, <2>4
  <2> QED
    BY <2>5 DEF h
<1>9. g = [j \in 1 .. n |-> g[j]]
  OBVIOUS
<1> HIDE DEF g
<1>10. ASSUME NEW j \in 1 .. n
      PROVE  g[j] = IF j = 1 THEN seqs[j] ELSE g[j - 1] \o seqs[j]
  <2>1. CASE j = 1
    <3>1. ASSUME NEW k \in 1 .. 8 PROVE byte[k] = seqs[1][k]
      <4>1. byte[8 * 0 + k] = seqs[0 + 1][k]
        <5>1. 0 \in 0 .. n - 1
          BY <1>2, <2>1
        <5> QED
          BY <1>5, <5>1, Zenon
      <4> QED
        BY <4>1
    <3>2. g[1] \in Seq(Nat) /\ Len(g[1]) = 8 /\ \A k \in 1 .. 8 : g[1][k] = byte[k]
      <4>1. 1 \in 1 .. n /\ 8 * 1 = 8
        BY <1>2, <2>1
      <4>2. /\ g[1] \in Seq(Nat) /\ Len(g[1]) = 8 * 1
            /\ \A k \in 1 .. 8 * 1 : g[1][k] = byte[k]
        BY <1>8, <4>1, Zenon
      <4> QED
        BY <4>1, <4>2
    <3>3. seqs[1] \in Seq(Nat) /\ Len(seqs[1]) = 8
      BY <1>3, <2>1
    <3>4. Len(g[1]) = Len(seqs[1]) /\ \A k \in 1 .. Len(g[1]) : g[1][k] = seqs[1][k]
      BY <3>1, <3>2, <3>3
    <3>5. g[1] = seqs[1]
      BY <3>2, <3>3, <3>4, SeqEqual
    <3> QED
      BY <2>1, <3>5
  <2>2. CASE j # 1
    <3> DEFINE c == g[j - 1] \o seqs[j]
    <3>1. j - 1 \in 1 .. n /\ j - 1 \in 0 .. n - 1 /\ j \in Nat
      BY <1>2, <2>2
    <3>2. g[j - 1] \in Seq(Nat) /\ Len(g[j - 1]) = 8 * (j - 1)
          /\ \A k \in 1 .. 8 * (j - 1) : g[j - 1][k] = byte[k]
      BY <1>8, <3>1
    <3>3. seqs[j] \in Seq(Nat) /\ Len(seqs[j]) = 8
      BY <1>3
    <3>4. /\ c \in Seq(Nat) /\ Len(c) = Len(g[j - 1]) + Len(seqs[j])
          /\ \A k \in 1 .. Len(g[j - 1]) + Len(seqs[j]) :
               c[k] = IF k <= Len(g[j - 1]) THEN g[j - 1][k] ELSE seqs[j][k - Len(g[j - 1])]
      <4>1. g[j - 1] \in Seq(Nat) /\ seqs[j] \in Seq(Nat)
        BY <3>2, <3>3
      <4> QED
        BY <4>1, ConcatProperties, Zenon
    <3>5. 8 * (j - 1) + 8 = 8 * j
      BY <3>1
    <3>6. /\ c \in Seq(Nat) /\ Len(c) = 8 * j
          /\ \A k \in 1 .. 8 * j :
               c[k] = IF k <= 8 * (j - 1) THEN g[j - 1][k] ELSE seqs[j][k - 8 * (j - 1)]
      BY <3>2, <3>3, <3>4, <3>5
    <3> HIDE DEF c
    <3>7. ASSUME NEW k \in 1 .. 8 * j PROVE g[j][k] = c[k]
      <4>1. g[j][k] = byte[k] /\ k \in Nat
        <5>1. \A m \in 1 .. 8 * j : g[j][m] = byte[m]
          BY <1>8, Zenon
        <5> QED
          BY <3>1, <5>1
      <4>2. CASE k <= 8 * (j - 1)
        <5>1. k \in 1 .. 8 * (j - 1)
          BY <3>1, <4>1, <4>2
        <5>2. c[k] = g[j - 1][k] /\ g[j - 1][k] = byte[k]
          BY <3>2, <3>6, <4>2, <5>1
        <5> QED
          BY <4>1, <5>2
      <4>3. CASE k > 8 * (j - 1)
        <5> DEFINE m == k - 8 * (j - 1)
        <5>1. m \in 1 .. 8 /\ 8 * (j - 1) + m = k /\ (j - 1) + 1 = j
          <6>1. k <= 8 * j
            BY <3>1
          <6> QED
            BY <3>1, <4>1, <4>3, <6>1
        <5>2. c[k] = seqs[j][m]
          BY <3>6, <4>3, <3>1, <4>1
        <5> HIDE DEF m
        <5>3. byte[8 * (j - 1) + m] = seqs[(j - 1) + 1][m]
          BY <1>5, <3>1, <5>1
        <5> QED
          BY <4>1, <5>1, <5>2, <5>3
      <4> QED
        BY <3>1, <4>1, <4>2, <4>3
    <3>8. g[j] = c
      BY <1>8, <3>6, <3>7, SeqEqual
    <3> QED
      BY <2>2, <3>8 DEF c
  <2> QED
    BY <2>1, <2>2
<1>11. g = [j \in 1 .. n |-> IF j = 1 THEN seqs[j] ELSE g[j - 1] \o seqs[j]]
  BY <1>9, <1>10
<1>12. f = [j \in 1 .. n |-> IF j = 1 THEN seqs[j] ELSE f[j - 1] \o seqs[j]]
  BY <1>11
<1> HIDE DEF f
<1>13. \A j \in 1 .. n : f[j] = g[j]
  <2> DEFINE S == {j \in 1 .. n : f[j] # g[j]}
  <2> SUFFICES ASSUME S # {} PROVE FALSE
    OBVIOUS
  <2>1. S \in SUBSET Nat
    BY <1>2
  <2>2. PICK j \in S : \A l \in S : j <= l
    BY <2>1, LeastNatural
  <2>3. f[j] = IF j = 1 THEN seqs[j] ELSE f[j - 1] \o seqs[j]
    BY <1>12, <2>2
  <2>4. g[j] = IF j = 1 THEN seqs[j] ELSE g[j - 1] \o seqs[j]
    BY <1>10, <2>2
  <2>5. j # 1 => f[j - 1] = g[j - 1]
    BY <1>2, <2>2
  <2> QED
    BY <2>2, <2>3, <2>4, <2>5
<1>14. CASE n = 0
  BY <1>1, <1>2, <1>4, <1>14 DEF n
<1>15. CASE n # 0
  <2>1. n \in 1 .. n /\ F!FlattenSeq(seqs) = g[n]
    BY <1>1, <1>2, <1>13, <1>15
  <2>2. /\ F!FlattenSeq(seqs) \in Seq(Nat) /\ Len(F!FlattenSeq(seqs)) = 8 * n
        /\ \A k \in 1 .. 8 * n : F!FlattenSeq(seqs)[k] = byte[k]
    BY <1>8, <2>1
  <2>3. \A j \in 0 .. n - 1 : \A k \in 1 .. 8 : 8 * j + k \in 1 .. 8 * n
    BY <1>2
  <2> QED
    BY <1>5, <2>2, <2>3 DEF n
<1> QED
  BY <1>14, <1>15

\* The glyphs' size as the reader has it, and the length of a proper file.
Glyphs == hdr.glyphs * F!GlyphBytes
Maps   == hdr.maps[1] + hdr.maps[2] + hdr.maps[3] + hdr.maps[4]
Whole  == 32 + Glyphs + 8 * Maps

\* Map j of table t is map Place(t, j) of the file; At has its bytes there.
Place(t, j) == j + (IF t > 1 THEN hdr.maps[1] ELSE 0) + (IF t > 2 THEN hdr.maps[2] ELSE 0)
                 + (IF t > 3 THEN hdr.maps[3] ELSE 0)
At(t, j) == [k \in 1 .. 8 |-> 32 + Glyphs + 8 * Place(t, j) + k - 1]

\* How many maps there are in table t, and in all.
Got(t) == Len(maps[t])
Lens   == Got(1) + Got(2) + Got(3) + Got(4)

\* The tables are filled in order, each map with the bytes from its place.
MapsRead ==
  /\ maps \in [1 .. 4 -> Seq(Eights)]
  /\ \A t \in 1 .. 4 : Got(t) <= hdr.maps[t]
  /\ \A t \in 1 .. 4 : \A s \in 1 .. t - 1 : Got(t) > 0 => Got(s) = hdr.maps[s]
  /\ \A t \in 1 .. 4 : \A j \in 0 .. Got(t) - 1 : maps[t][j + 1] = F!Swapped(At(t, j))

Placed == {"maps", "insert", "aborted", "loaded"}
Filled == {"insert", "aborted", "loaded"}
Done   == {"aborted", "loaded"}

\* Whatever the header says.
FontAlways ==
  /\ hdr \in Files
  /\ pc \in Placed \cup {"header", "glyphs", "throws", "crashed"}
  /\ index \in 0 .. Word - 1
  /\ pc \in Placed \cup {"glyphs"} => hdr.magic = TRUE
  /\ pc = "loaded" => index = hdr.length

\* If it describes a file that fits: the index has not gone round.
FontFits ==
  /\ pc = "header" => index = 0
  /\ pc = "glyphs" => index = 32
  /\ pc \in {"header", "glyphs"} => maps = [t \in 1 .. 4 |-> <<>>]
  /\ pc \in Placed => /\ MapsRead /\ index = 32 + Glyphs + 8 * Lens
                      /\ fontBytes = [k \in 1 .. Glyphs |-> 32 + k - 1]
  /\ pc \in Filled => \A t \in 1 .. 4 : Got(t) = hdr.maps[t]
  /\ pc \in Done => /\ fi = [checksum |-> F!checksum, width |-> hdr.width, height |-> hdr.height,
                             bitmap_size |-> Glyphs, map_count |-> hdr.maps]
                    /\ m_fontblock = F!block
                    /\ pc = "loaded" <=> index = hdr.length
  /\ pc = "throws" => hdr.magic = FALSE
  /\ pc = "crashed" => hdr.magic = FALSE \/ hdr.length < Whole

FontInv == FontAlways /\ (F!Fits => FontFits)

\* What is less than the modulus is its own remainder.
LEMMA SmallMod ==
  ASSUME NEW a \in Nat, NEW w \in Nat \ {0}, a < w
  PROVE  a % w = a
  BY SMT

\* The header's numbers; both sides compute the glyphs' size alike.
LEMMA HeaderType ==
  ASSUME hdr \in Files
  PROVE  /\ hdr.magic \in BOOLEAN /\ hdr.length \in Nat
         /\ hdr.width \in Nat /\ hdr.height \in Nat
         /\ \A t \in 1 .. 4 : hdr.maps[t] \in Nat
         /\ Glyphs \in Nat /\ Maps \in Nat /\ F!total = Glyphs % Word
         /\ Word \in Nat \ {0} /\ Word > 32 /\ Stack \in Nat
<1>1. hdr \in F!File /\ Word \in Nat \ {0} /\ Word > 32 /\ Stack \in Nat
  BY BlocksAssumption DEF F!FilesAssumption, F!HEADER
<1>2. /\ hdr.magic \in BOOLEAN /\ hdr.length \in Nat /\ hdr.glyphs \in Nat
      /\ hdr.width \in 0 .. 255 /\ hdr.height \in 0 .. 255
      /\ \A t \in 1 .. 4 : hdr.maps[t] \in Nat
  BY <1>1 DEF F!File, F!Tables
<1> DEFINE w == hdr.width
           up == (w + 8 - 1) \div 8
           down == w \div 8 + (IF w % 8 = 0 THEN 0 ELSE 1)
<1>3. up = down /\ up \in Nat
  BY <1>2
<1>4. F!gbytes(hdr) = up * hdr.height /\ F!GlyphBytes = hdr.height * down
  BY DEF F!gbytes, F!howmany, F!GlyphBytes
<1> HIDE DEF up, down
<1>5. up * hdr.height = hdr.height * up /\ up * hdr.height \in Nat
  BY <1>2, <1>3, SMT
<1>6. F!gbytes(hdr) = F!GlyphBytes /\ F!GlyphBytes \in Nat
  BY <1>3, <1>4, <1>5
<1>7. Glyphs \in Nat /\ F!total = Glyphs % Word
  <2>1. hdr.glyphs * F!GlyphBytes \in Nat
    BY <1>2, <1>6, SMT
  <2> QED
    BY <1>6, <2>1 DEF Glyphs, F!total
<1>8. Maps \in Nat
  BY <1>2 DEF Maps
<1> QED
  BY <1>1, <1>2, <1>7, <1>8

\* The length a proper file has.
LEMMA WholeIsWhole ==
  ASSUME hdr \in Files
  PROVE  F!Whole = Whole
<1>1. Glyphs \in Nat /\ \A t \in 1 .. 4 : hdr.maps[t] \in Nat
  BY HeaderType
<1>2. F!Before(hdr.maps, 4, hdr.maps[4]) = 8 * Maps
  BY <1>1 DEF F!Before, Maps, F!MAP
<1> QED
  BY <1>1, <1>2 DEF F!Whole, Whole, Glyphs, F!HEADER

\* A product that fits is not cut, and no sum up to the length is.
LEMMA NothingCut ==
  ASSUME hdr \in Files, F!Fits
  PROVE  /\ F!total = Glyphs /\ Glyphs <= Stack /\ Whole < Word
         /\ \A n \in Nat : n <= Whole => n % Word = n
<1>1. Whole < Word /\ Glyphs <= Stack
  BY WholeIsWhole DEF F!Fits, Glyphs
<1>2. Glyphs \in Nat /\ Maps \in Nat /\ F!total = Glyphs % Word /\ Word \in Nat \ {0}
  BY HeaderType
<1>3. Whole \in Nat /\ Glyphs <= Whole
  BY <1>2 DEF Whole
<1> HIDE DEF Whole
<1>4. \A n \in Nat : n <= Whole => n < Word
  BY <1>1, <1>2, <1>3
<1>5. \A n \in Nat : n <= Whole => n % Word = n
  BY <1>2, <1>4, SmallMod
<1> QED
  BY <1>1, <1>2, <1>3, <1>5

LEMMA FontInit == F!Init => FontInv
  BY HeaderType DEF F!Init, FontInv, FontAlways, FontFits, Placed, Filled, Done, F!Tables

\* The numbers m to n of a sequence, turned round.
LEMMA Turned ==
  ASSUME NEW s \in Seq(Nat), NEW m \in Nat \ {0}, NEW n \in Nat, m <= n, n <= Len(s)
  PROVE  /\ F!Reverse(SubSeq(s, m, n)) \in Seq(Nat)
         /\ Len(F!Reverse(SubSeq(s, m, n))) = n - m + 1
         /\ F!Reverse(SubSeq(s, m, n)) = [k \in 1 .. n - m + 1 |-> s[n + 1 - k]]
<1> DEFINE sub == SubSeq(s, m, n)
           l == n - m + 1
           r == F!Reverse(sub)
<1>1. \A k \in m .. n : s[k] \in Nat
  <2> SUFFICES ASSUME NEW k \in m .. n PROVE s[k] \in Nat
    OBVIOUS
  <2>1. k \in 1 .. Len(s)
    OBVIOUS
  <2> QED
    BY <2>1, ElementOfSeq
<1>2. l \in Nat /\ m \in Int /\ n \in Int
  OBVIOUS
<1>3. /\ sub \in Seq(Nat) /\ Len(sub) = l
      /\ \A k \in 1 .. l : sub[k] = s[m + k - 1]
  BY <1>1, <1>2, SubSeqProperties
<1> HIDE DEF sub
<1>4. \A k \in 1 .. l : sub[k] \in Nat
  BY <1>3, ElementOfSeq
<1>5. r = [k \in 1 .. l |-> sub[(l - k) + 1]]
  BY <1>3 DEF F!Reverse
<1>6. \A k \in 1 .. l : (l - k) + 1 \in 1 .. l /\ m + ((l - k) + 1) - 1 = n + 1 - k
  OBVIOUS
<1> HIDE DEF l
<1>7. \A k \in 1 .. l : r[k] = sub[(l - k) + 1] /\ r[k] \in Nat
  BY <1>4, <1>5, <1>6
<1>8. \A k \in 1 .. l : r[k] = s[n + 1 - k]
  <2> SUFFICES ASSUME NEW k \in 1 .. l PROVE r[k] = s[n + 1 - k]
    OBVIOUS
  <2> DEFINE b == (l - k) + 1
  <2>1. r[k] = sub[b] /\ b \in 1 .. l /\ m + b - 1 = n + 1 - k
    BY <1>6, <1>7
  <2> HIDE DEF b, r
  <2>2. sub[b] = s[m + b - 1]
    BY <1>3, <2>1
  <2> QED
    BY <2>1, <2>2
<1>9. r \in [1 .. l -> Nat]
  BY <1>5, <1>7
<1>10. r \in Seq(Nat) /\ Len(r) = l
  BY <1>2, <1>9
<1>11. r = [k \in 1 .. l |-> s[n + 1 - k]]
  BY <1>8, <1>9
<1> QED
  BY <1>10, <1>11 DEF sub, l

\* Turning the numbers of a map round.
LEMMA SwappedBytes ==
  ASSUME NEW map \in Eights
  PROVE  /\ F!Swapped(map) \in Eights
         /\ \A k \in 1 .. 4 : F!Swapped(map)[k] = map[5 - k]
         /\ \A k \in 1 .. 2 : F!Swapped(map)[4 + k] = map[7 - k]
         /\ \A k \in 1 .. 2 : F!Swapped(map)[6 + k] = map[9 - k]
<1> DEFINE a == F!Reverse(SubSeq(map, 1, 4))
           b == F!Reverse(SubSeq(map, 5, 6))
           c == F!Reverse(SubSeq(map, 7, 8))
           ab == a \o b
           abc == ab \o c
<1>1. map \in Seq(Nat) /\ Len(map) = 8
  BY DEF Eights
<1>2. a \in Seq(Nat) /\ Len(a) = 4 /\ \A k \in 1 .. 4 : a[k] = map[5 - k]
  <2>1. 1 \in Nat \ {0} /\ 4 \in Nat /\ 1 <= 4 /\ 4 <= Len(map) /\ map \in Seq(Nat)
    BY <1>1
  <2>2. /\ a \in Seq(Nat) /\ Len(a) = 4 - 1 + 1
        /\ a = [k \in 1 .. 4 - 1 + 1 |-> map[4 + 1 - k]]
    BY <2>1, Turned, Zenon
  <2> HIDE DEF a
  <2> QED
    BY <2>2
<1>3. b \in Seq(Nat) /\ Len(b) = 2 /\ \A k \in 1 .. 2 : b[k] = map[7 - k]
  <2>1. 5 \in Nat \ {0} /\ 6 \in Nat /\ 5 <= 6 /\ 6 <= Len(map) /\ map \in Seq(Nat)
    BY <1>1
  <2>2. /\ b \in Seq(Nat) /\ Len(b) = 6 - 5 + 1
        /\ b = [k \in 1 .. 6 - 5 + 1 |-> map[6 + 1 - k]]
    BY <2>1, Turned, Zenon
  <2> HIDE DEF b
  <2> QED
    BY <2>2
<1>4. c \in Seq(Nat) /\ Len(c) = 2 /\ \A k \in 1 .. 2 : c[k] = map[9 - k]
  <2>1. 7 \in Nat \ {0} /\ 8 \in Nat /\ 7 <= 8 /\ 8 <= Len(map) /\ map \in Seq(Nat)
    BY <1>1
  <2>2. /\ c \in Seq(Nat) /\ Len(c) = 8 - 7 + 1
        /\ c = [k \in 1 .. 8 - 7 + 1 |-> map[8 + 1 - k]]
    BY <2>1, Turned, Zenon
  <2> HIDE DEF c
  <2> QED
    BY <2>2
<1>5. F!Swapped(map) = abc
  BY DEF F!Swapped
<1> HIDE DEF a, b, c
<1>6. /\ ab \in Seq(Nat) /\ Len(ab) = Len(a) + Len(b)
      /\ \A k \in 1 .. Len(a) + Len(b) : ab[k] = IF k <= Len(a) THEN a[k] ELSE b[k - Len(a)]
  <2>1. a \in Seq(Nat) /\ b \in Seq(Nat)
    BY <1>2, <1>3
  <2> QED
    BY <2>1, ConcatProperties, ZenonT(30)
<1> HIDE DEF ab
<1>7. /\ abc \in Seq(Nat) /\ Len(abc) = Len(ab) + Len(c)
      /\ \A k \in 1 .. Len(ab) + Len(c) : abc[k] = IF k <= Len(ab) THEN ab[k] ELSE c[k - Len(ab)]
  <2>1. ab \in Seq(Nat) /\ c \in Seq(Nat)
    BY <1>4, <1>6
  <2> QED
    BY <2>1, ConcatProperties, Zenon
<1> HIDE DEF abc
<1>8. Len(ab) = 6 /\ Len(abc) = 8
  BY <1>2, <1>3, <1>4, <1>6, <1>7
<1>9. \A k \in 1 .. 4 : abc[k] = map[5 - k]
  <2> SUFFICES ASSUME NEW k \in 1 .. 4 PROVE abc[k] = map[5 - k]
    OBVIOUS
  <2>1. abc[k] = ab[k]
    BY <1>4, <1>7, <1>8
  <2>2. ab[k] = a[k]
    BY <1>2, <1>3, <1>6
  <2> QED
    BY <1>2, <2>1, <2>2
<1>10. \A k \in 1 .. 2 : abc[4 + k] = map[7 - k]
  <2> SUFFICES ASSUME NEW k \in 1 .. 2 PROVE abc[4 + k] = map[7 - k]
    OBVIOUS
  <2>1. abc[4 + k] = ab[4 + k]
    BY <1>4, <1>7, <1>8
  <2>2. ab[4 + k] = b[4 + k - 4] /\ 4 + k - 4 = k
    BY <1>2, <1>3, <1>6
  <2> QED
    BY <1>3, <2>1, <2>2
<1>11. \A k \in 1 .. 2 : abc[6 + k] = map[9 - k]
  BY <1>4, <1>7, <1>8
<1> QED
  BY <1>5, <1>7, <1>8, <1>9, <1>10, <1>11 DEF Eights

LEMMA HeaderKept ==
  ASSUME hdr' = hdr
  PROVE  /\ Glyphs' = Glyphs /\ Maps' = Maps /\ Whole' = Whole
         /\ F!checksum' = F!checksum /\ F!total' = F!total /\ F!Fits' = F!Fits
         /\ \A t, j : At(t, j)' = At(t, j)
  BY DEF Glyphs, Maps, Whole, At, Place, F!GlyphBytes, F!checksum, F!Sum, F!total, F!gbytes, F!howmany,
         F!Fits, F!Whole, F!Before

LEMMA MapsKept ==
  ASSUME MapsRead, UNCHANGED <<hdr, maps>>
  PROVE  MapsRead' /\ Lens' = Lens /\ \A t : Got(t)' = Got(t)
<1>1. \A t, j : At(t, j)' = At(t, j)
  BY HeaderKept
<1>2. \A t \in 1 .. 4 : \A j \in 0 .. Got(t) - 1 : maps'[t][j + 1] = F!Swapped(At(t, j)')
  BY <1>1 DEF MapsRead
<1>3. \A t \in 1 .. 4 : \A j \in 0 .. Got(t)' - 1 : maps'[t][j + 1] = F!Swapped(At(t, j))'
  BY <1>2 DEF F!Swapped, F!Reverse, Got
<1> QED
  BY <1>3 DEF MapsRead, Lens, Got

\* The next map goes to the place it has in the file.
LEMMA NextMap ==
  ASSUME hdr \in Files, MapsRead, index = 32 + Glyphs + 8 * Lens,
         NEW t \in 1 .. 4, ~F!Full(t), \A s \in 1 .. t - 1 : F!Full(s)
  PROVE  /\ F!Read(8) = At(t, Got(t)) /\ F!Read(8) \in Eights
         /\ Lens \in Nat /\ Lens + 1 <= Maps
         /\ Got(t) + 1 <= hdr.maps[t]
         /\ \A s \in t + 1 .. 4 : Got(s) = 0
<1>1. \A s \in 1 .. 4 : /\ hdr.maps[s] \in Nat /\ Got(s) \in Nat
                        /\ Got(s) <= hdr.maps[s]
  <2>1. \A s \in 1 .. 4 : Got(s) \in Nat
    BY DEF MapsRead, Got
  <2> QED
    BY <2>1, HeaderType DEF MapsRead
<1>2. \A s \in 1 .. t - 1 : Got(s) = hdr.maps[s]
  BY DEF F!Full, F!Count, Got
<1>3. Got(t) + 1 <= hdr.maps[t]
  <2>1. Got(t) # hdr.maps[t]
    BY DEF F!Full, F!Count, Got
  <2> QED
    BY <1>1, <2>1
<1>4. \A s \in t + 1 .. 4 : Got(s) = 0
  <2> SUFFICES ASSUME NEW s \in t + 1 .. 4, Got(s) # 0 PROVE FALSE
    OBVIOUS
  <2>1. s \in 1 .. 4 /\ t \in 1 .. s - 1
    OBVIOUS
  <2>2. Got(s) > 0
    BY <1>1, <2>1
  <2>3. Got(t) = hdr.maps[t]
    BY <2>1, <2>2 DEF MapsRead
  <2> QED
    BY <1>1, <1>3, <2>3
<1>5. t = 1 \/ t = 2 \/ t = 3 \/ t = 4
  OBVIOUS
<1>6. Lens = Place(t, Got(t))
  BY <1>1, <1>2, <1>4, <1>5 DEF Lens, Place
<1>7. Lens \in Nat
  BY <1>1 DEF Lens
<1>8. Lens + 1 <= Maps
  BY <1>1, <1>3, <1>5 DEF Lens, Maps
<1>9. F!Read(8) = At(t, Got(t))
  BY <1>6 DEF F!Read, At
<1>10. F!Read(8) \in Eights
  <2>1. index \in Nat
    BY <1>7, HeaderType
  <2> DEFINE r == F!Read(8)
  <2>2. r \in [1 .. 8 -> Nat]
    BY <2>1 DEF F!Read
  <2> HIDE DEF r
  <2>3. r \in Seq(Nat) /\ Len(r) = 8
    <3>1. ASSUME NEW n \in Nat, r \in [1 .. n -> Nat] PROVE r \in Seq(Nat) /\ Len(r) = n
      BY <3>1
    <3> QED
      BY <2>2, <3>1
  <2> QED
    BY <2>3 DEF Eights, r
<1> QED
  BY <1>3, <1>4, <1>7, <1>8, <1>9, <1>10

LEMMA FontReadMap ==
  ASSUME FontAlways, F!Fits, FontFits, F!readMap
  PROVE  FontFits'
<1>1. /\ hdr \in Files /\ MapsRead /\ index = 32 + Glyphs + 8 * Lens /\ hdr.magic = TRUE
      /\ fontBytes = [k \in 1 .. Glyphs |-> 32 + k - 1] /\ pc = "maps"
  BY DEF FontAlways, FontFits, F!readMap, Placed
<1>2. UNCHANGED <<hdr, fontBytes, m_fontblock, fi>> /\ index' = (index + 8) % Word
  BY DEF F!readMap, F!MAP
<1>3. Glyphs' = Glyphs /\ Whole' = Whole /\ \A t, j : At(t, j)' = At(t, j)
  BY <1>2, HeaderKept
<1>4. pc' = pc \/ (index + 8 > hdr.length /\ pc' = "crashed")
  BY DEF F!readMap, F!Beyond, F!MAP
<1>5. PICK t \in 1 .. 4 : /\ ~F!Full(t) /\ \A s \in 1 .. t - 1 : F!Full(s)
                          /\ maps' = [maps EXCEPT ![t] = Append(@, F!Swapped(F!Read(8)))]
  BY DEF F!readMap, F!Tables, F!MAP
<1>6. /\ F!Read(8) = At(t, Got(t)) /\ F!Read(8) \in Eights
      /\ Lens \in Nat /\ Lens + 1 <= Maps
      /\ Got(t) + 1 <= hdr.maps[t]
      /\ \A s \in t + 1 .. 4 : Got(s) = 0
  BY <1>1, <1>5, NextMap
<1> DEFINE new == F!Swapped(F!Read(8))
           longer == Append(maps[t], new)
<1>7. new \in Eights /\ new = F!Swapped(At(t, Got(t)))
  BY <1>6, SwappedBytes
<1> HIDE DEF new
<1>8. maps \in [1 .. 4 -> Seq(Eights)]
  BY <1>1 DEF MapsRead
<1>9. maps' = [maps EXCEPT ![t] = longer]
  BY <1>5 DEF new
<1>10. /\ longer \in Seq(Eights) /\ Len(longer) = Got(t) + 1
       /\ \A k \in 1 .. Got(t) : longer[k] = maps[t][k]
       /\ longer[Got(t) + 1] = new
  <2>1. maps[t] \in Seq(Eights)
    BY <1>8
  <2> QED
    BY <1>7, <2>1, AppendProperties DEF Got
<1> HIDE DEF longer
<1>11. /\ maps' \in [1 .. 4 -> Seq(Eights)] /\ maps'[t] = longer
       /\ \A s \in 1 .. 4 : s # t => maps'[s] = maps[s]
  BY <1>8, <1>9, <1>10
<1>18. /\ \A s \in 1 .. 4 : Got(s) \in Nat
       /\ \A s \in 1 .. 4 : s # t => Got(s)' = Got(s)
       /\ Got(t)' = Got(t) + 1
  BY <1>8, <1>10, <1>11 DEF Got
<1>12. MapsRead'
  <2>1. \A s \in 1 .. 4 : Got(s)' <= hdr.maps[s]
    BY <1>1, <1>2, <1>6, <1>18 DEF MapsRead
  <2>2. ASSUME NEW u \in 1 .. 4, NEW s \in 1 .. u - 1, Got(u)' > 0
        PROVE  Got(s)' = hdr.maps[s]
    <3>1. u # t => u < t
      BY <1>6, <1>18, <2>2
    <3>2. s # t /\ s \in 1 .. 4
      BY <3>1
    <3>3. u = t => Got(s) = hdr.maps[s]
      BY <1>5 DEF F!Full, F!Count, Got
    <3>4. u # t => Got(s) = hdr.maps[s]
      BY <1>1, <1>18, <2>2 DEF MapsRead
    <3> QED
      BY <1>18, <3>2, <3>3, <3>4
  <2>3. ASSUME NEW s \in 1 .. 4, NEW j \in 0 .. Got(s)' - 1
        PROVE  maps'[s][j + 1] = F!Swapped(At(s, j))
    <3>1. CASE s # t
      BY <1>1, <1>11, <1>18, <2>3, <3>1 DEF MapsRead
    <3>2. CASE s = t /\ j \in 0 .. Got(t) - 1
      <4>1. j + 1 \in 1 .. Got(t)
        BY <1>18, <3>2
      <4>2. maps'[s][j + 1] = maps[t][j + 1]
        BY <1>10, <1>11, <3>2, <4>1
      <4> QED
        BY <1>1, <3>2, <4>2 DEF MapsRead
    <3>3. CASE s = t /\ j = Got(t)
      BY <1>7, <1>10, <1>11, <3>3
    <3> QED
      BY <1>18, <2>3, <3>1, <3>2, <3>3
  <2>4. \A s \in 1 .. 4 : \A j \in 0 .. Got(s)' - 1 : maps'[s][j + 1] = F!Swapped(At(s, j))'
    <3>1. \A s \in 1 .. 4 : \A j \in 0 .. Got(s)' - 1 : maps'[s][j + 1] = F!Swapped(At(s, j)')
      BY <1>3, <2>3
    <3> QED
      BY <3>1 DEF F!Swapped, F!Reverse
  <2> QED
    BY <1>2, <1>11, <2>1, <2>2, <2>4 DEF MapsRead
<1>13. Lens' = Lens + 1
  <2>2. t = 1 \/ t = 2 \/ t = 3 \/ t = 4
    OBVIOUS
  <2> QED
    BY <1>18, <2>2 DEF Lens
<1>14. index' = 32 + Glyphs' + 8 * Lens'
  <2>1. Glyphs \in Nat /\ Maps \in Nat
    BY <1>1, HeaderType
  <2>2. index + 8 \in Nat /\ index + 8 <= Whole /\ index + 8 = 32 + Glyphs + 8 * (Lens + 1)
    BY <1>1, <1>6, <2>1 DEF Whole
  <2>3. (index + 8) % Word = index + 8
    BY <1>1, <2>2, NothingCut
  <2> QED
    BY <1>2, <1>3, <1>13, <2>2, <2>3
<1>15. pc' = "crashed" => hdr.length < Whole
  <2>1. Glyphs \in Nat /\ Maps \in Nat /\ hdr.length \in Nat
    BY <1>1, HeaderType
  <2> QED
    BY <1>1, <1>4, <1>6, <2>1 DEF Whole
<1>16. pc' \in {"maps", "crashed"}
  BY <1>1, <1>4
<1>17. fontBytes' = [k \in 1 .. Glyphs' |-> 32 + k - 1]
  BY <1>1, <1>2, <1>3
<1> QED
  BY <1>1, <1>2, <1>3, <1>12, <1>14, <1>15, <1>16, <1>17 DEF FontFits, Placed, Filled, Done

LEMMA FontFitsStep ==
  ASSUME FontAlways, F!Fits, FontFits, F!Next \/ UNCHANGED <<fontVars, pc>>
  PROVE  FontFits'
<1>1. hdr' = hdr
  BY DEF F!Next, F!header, F!glyphs, F!readMap, F!mapsRead, F!insert, F!Over, F!vars, fontVars
<1>2. /\ Glyphs' = Glyphs /\ Maps' = Maps /\ Whole' = Whole
      /\ F!checksum' = F!checksum /\ F!total' = F!total
  BY <1>1, HeaderKept
<1>3. /\ hdr \in Files /\ Glyphs \in Nat /\ Maps \in Nat /\ hdr.length \in Nat
      /\ Stack \in Nat /\ F!total = Glyphs /\ Glyphs <= Stack /\ hdr.magic \in BOOLEAN /\ \A t \in 1 .. 4 : hdr.maps[t] \in Nat
  BY HeaderType, NothingCut DEF FontAlways
<1>4. CASE F!header
  BY <1>1, <1>2, <1>3, <1>4 DEF FontAlways, FontFits, F!header, F!Beyond, F!HEADER, Placed, Filled, Done, Whole
<1>5. CASE F!glyphs
  <2>1. /\ UNCHANGED <<maps, m_fontblock, fi>> /\ maps = [t \in 1 .. 4 |-> <<>>]
        /\ index = 32 /\ index' = 32 + Glyphs /\ hdr.magic = TRUE /\ pc = "glyphs"
    <3>1. 32 + Glyphs \in Nat /\ 32 + Glyphs <= Whole
      BY <1>3 DEF Whole
    <3>2. (32 + Glyphs) % Word = 32 + Glyphs
      BY <1>3, <3>1, NothingCut
    <3> QED
      BY <1>3, <1>5, <3>2 DEF FontAlways, FontFits, F!glyphs, Placed
  <2>2. fontBytes' = [k \in 1 .. Glyphs |-> 32 + k - 1]
    BY <1>3, <1>5, <2>1 DEF F!glyphs, F!Read
  <2>3. pc' = "maps" \/ (pc' = "crashed" /\ 32 + Glyphs > hdr.length)
    BY <1>3, <1>5, <2>1 DEF F!glyphs, F!Beyond
  <2>4. MapsRead'
    <3>1. \A t \in 1 .. 4 : maps'[t] = <<>> /\ Got(t)' = 0
      BY <2>1 DEF Got
    <3>2. maps' \in [1 .. 4 -> Seq(Eights)]
      BY <2>1
    <3> QED
      BY <1>1, <1>3, <3>1, <3>2, SMTT(30) DEF MapsRead
  <2>5. Lens' = 0
    BY <2>1 DEF Lens, Got
  <2> QED
    BY <1>1, <1>2, <1>3, <2>1, <2>2, <2>3, <2>4, <2>5 DEF FontFits, Placed, Filled, Done, Whole
<1>6. CASE F!readMap
  BY <1>6, FontReadMap
<1>7. CASE F!mapsRead
  <2>1. /\ UNCHANGED <<hdr, index, fontBytes, maps, m_fontblock, fi>> /\ pc' = "insert"
        /\ pc = "maps" /\ \A t \in 1 .. 4 : Got(t) = hdr.maps[t]
    BY <1>7 DEF F!mapsRead, F!Tables, F!Full, F!Count, Got
  <2>2. MapsRead' /\ Lens' = Lens
    BY <2>1, MapsKept DEF FontFits, Placed
  <2> QED
    BY <1>2, <2>1, <2>2 DEF FontFits, Placed, Filled, Done, Got
<1>8. CASE F!insert
  <2>1. /\ UNCHANGED <<hdr, index, fontBytes, maps>> /\ pc = "insert"
        /\ fi' = [checksum |-> F!checksum, width |-> hdr.width, height |-> hdr.height,
                  bitmap_size |-> Glyphs, map_count |-> hdr.maps]
        /\ m_fontblock' = F!block
        /\ pc' = IF index = hdr.length THEN "loaded" ELSE "aborted"
    BY <1>3, <1>8 DEF F!insert, F!assert
  <2>2. MapsRead' /\ Lens' = Lens
    BY <2>1, MapsKept DEF FontFits, Placed
  <2>3. F!block' = F!block
    BY <2>1 DEF F!block
  <2>4. /\ fi' = [checksum |-> F!checksum', width |-> hdr'.width, height |-> hdr'.height,
                  bitmap_size |-> Glyphs', map_count |-> hdr'.maps]
        /\ m_fontblock' = F!block'
    BY <1>2, <2>1, <2>3
  <2> QED
    BY <1>2, <2>1, <2>2, <2>4 DEF FontFits, Placed, Filled, Done, Got
<1>9. CASE F!Over \/ UNCHANGED <<fontVars, pc>>
  <2>1. UNCHANGED <<hdr, pc, index, fontBytes, maps, m_fontblock, fi>>
    BY <1>9 DEF F!Over, F!vars, fontVars
  <2>2. MapsRead => MapsRead' /\ Lens' = Lens
    BY <2>1, MapsKept
  <2>3. F!block' = F!block
    BY <2>1 DEF F!block
  <2> QED
    BY <1>2, <2>1, <2>2, <2>3 DEF FontFits, Placed, Filled, Done, Got
<1> QED
  BY <1>4, <1>5, <1>6, <1>7, <1>8, <1>9 DEF F!Next

LEMMA FontAlwaysStep ==
  ASSUME FontAlways, F!Next \/ UNCHANGED <<fontVars, pc>>
  PROVE  FontAlways'
<1>1. hdr' = hdr /\ hdr \in Files /\ Glyphs \in Nat /\ Word \in Nat \ {0} /\ Word > 32
      /\ F!total = Glyphs % Word /\ hdr.magic \in BOOLEAN
  BY HeaderType DEF FontAlways, F!Next, F!header, F!glyphs, F!readMap, F!mapsRead, F!insert, F!Over, F!vars, fontVars
<1>2. \A n \in Nat : n % Word \in 0 .. Word - 1
  BY <1>1
<1>3. CASE F!header
  BY <1>1, <1>3 DEF FontAlways, F!header, F!Beyond, F!HEADER, Placed
<1>4. CASE F!glyphs
  <2>1. F!total \in Nat
    BY <1>1
  <2>2. index + F!total \in Nat
    BY <2>1 DEF FontAlways
  <2> QED
    BY <1>1, <1>2, <1>4, <2>2 DEF FontAlways, F!glyphs, F!Beyond, Placed
<1>5. CASE F!readMap
  <2>1. index + 8 \in Nat
    BY DEF FontAlways
  <2> QED
    BY <1>1, <1>2, <1>5, <2>1 DEF FontAlways, F!readMap, F!Beyond, F!MAP, Placed
<1>6. CASE F!mapsRead
  BY <1>6 DEF FontAlways, F!mapsRead, Placed
<1>7. CASE F!insert
  BY <1>7 DEF FontAlways, F!insert, F!assert, Placed
<1>8. CASE F!Over \/ UNCHANGED <<fontVars, pc>>
  BY <1>8 DEF FontAlways, F!Over, F!vars, fontVars, Placed
<1> QED
  BY <1>3, <1>4, <1>5, <1>6, <1>7, <1>8 DEF F!Next

LEMMA FontStep ==
  ASSUME FontInv, F!Next \/ UNCHANGED <<fontVars, pc>>
  PROVE  FontInv'
<1>1. FontAlways'
  BY FontAlwaysStep DEF FontInv
<1>2. F!Fits' = F!Fits
  <2>1. hdr' = hdr
    BY DEF F!Next, F!header, F!glyphs, F!readMap, F!mapsRead, F!insert, F!Over, F!vars, fontVars
  <2> QED
    BY <2>1, HeaderKept
<1>3. F!Fits => FontFits'
  BY FontFitsStep DEF FontInv
<1> QED
  BY <1>1, <1>2, <1>3 DEF FontInv

LEMMA LoadedWhole == FontInv => F!LoadedIfWhole
<1> SUFFICES ASSUME FontInv, pc \in F!Outcomes
             PROVE  /\ F!Fits => (pc = "loaded" <=> hdr.magic /\ hdr.length = Whole)
                    /\ pc = "loaded" => hdr.magic /\ hdr.length < Word
  BY WholeIsWhole DEF F!LoadedIfWhole, FontInv, FontAlways
<1>1. /\ Glyphs \in Nat /\ Maps \in Nat /\ hdr.length \in Nat /\ hdr.magic \in BOOLEAN
      /\ \A t \in 1 .. 4 : hdr.maps[t] \in Nat
  BY HeaderType DEF FontInv, FontAlways
<1>2. pc = "loaded" => hdr.magic /\ hdr.length < Word
  BY HeaderType DEF FontInv, FontAlways, Placed
<1>3. ASSUME F!Fits, pc \in Done PROVE pc = "loaded" <=> hdr.magic /\ hdr.length = Whole
  <2>1. Lens = Maps
    BY <1>3 DEF FontInv, FontFits, Lens, Maps, Filled, Done
  <2>2. index = Whole /\ hdr.magic = TRUE /\ (pc = "loaded" <=> index = hdr.length)
    BY <1>3, <2>1 DEF FontInv, FontAlways, FontFits, Whole, Placed, Done
  <2> QED
    BY <2>2
<1>4. ASSUME F!Fits, pc \in {"throws", "crashed"} PROVE pc = "loaded" <=> hdr.magic /\ hdr.length = Whole
  BY <1>1, <1>4 DEF FontInv, FontFits, Whole
<1> QED
  BY <1>2, <1>3, <1>4 DEF F!Outcomes, Done

\* If the header describes a file that fits the 32 bits of the index and the stack, the
\* file is loaded exactly when it is as long as that: nothing from behind its end is in a
\* font that is used.  And whatever the header says, a font that is loaded comes from a
\* file of fewer than Word bytes.
THEOREM ProperFontLoaded == Spec => []LoadedIfWhole
<1> DEFINE Inv == subject = "font" => FontInv
<1>1. Init => Inv
  BY FontInit DEF Init
<1>2. Inv /\ [Next]_vars => Inv'
  BY FontStep, OthersStutter
<1>3. Inv => LoadedIfWhole
  BY LoadedWhole DEF LoadedIfWhole
<1> QED
  BY <1>1, <1>2, <1>3, PTL DEF Spec

\* The checksum makes the sum of the header's words zero.
LEMMA ChecksumAccepted ==
  ASSUME NEW w \in Nat \ {0}, NEW a \in Nat, a < w
  PROVE  (a + ((w - a) % w)) % w = 0
<1>1. w % w = 0
  BY SMT
<1>2. CASE a = 0
  BY <1>1, <1>2
<1>3. CASE a # 0
  <2>1. w - a \in Nat /\ w - a < w
    BY <1>3
  <2>2. (w - a) % w = w - a
    BY <2>1, SmallMod
  <2> QED
    BY <1>1, <2>2
<1> QED
  BY <1>2, <1>3

\* The tables one after the other.
AllMaps == maps[1] \o maps[2] \o maps[3] \o maps[4]

LEMMA MapsInOrder ==
  ASSUME hdr \in Files, MapsRead, \A t \in 1 .. 4 : Got(t) = hdr.maps[t]
  PROVE  /\ AllMaps \in Seq(Eights) /\ Len(AllMaps) = Maps
         /\ \A t \in 1 .. 4 : \A j \in 0 .. hdr.maps[t] - 1 :
              /\ Place(t, j) \in 0 .. Maps - 1
              /\ AllMaps[Place(t, j) + 1] = F!Swapped(At(t, j))
<1> DEFINE n1 == hdr.maps[1]
           n2 == hdr.maps[2]
           n3 == hdr.maps[3]
           n4 == hdr.maps[4]
           a  == maps[1]
           b  == maps[2]
           c  == maps[3]
           d  == maps[4]
           ab == a \o b
           abc == ab \o c
           abcd == abc \o d
<1>1. n1 \in Nat /\ n2 \in Nat /\ n3 \in Nat /\ n4 \in Nat
  BY HeaderType
<1>2. a \in Seq(Eights) /\ b \in Seq(Eights) /\ c \in Seq(Eights) /\ d \in Seq(Eights)
  BY DEF MapsRead
<1>3. Len(a) = n1 /\ Len(b) = n2 /\ Len(c) = n3 /\ Len(d) = n4
  BY DEF Got
<1>4. AllMaps = abcd
  BY DEF AllMaps
<1>5. \A t \in 1 .. 4 : \A j \in 0 .. hdr.maps[t] - 1 : maps[t][j + 1] = F!Swapped(At(t, j))
  BY DEF MapsRead
<1>6. Maps = n1 + n2 + n3 + n4
  BY DEF Maps
<1>7. /\ \A j : Place(1, j) = j + 0 + 0 + 0
      /\ \A j : Place(2, j) = j + n1 + 0 + 0
      /\ \A j : Place(3, j) = j + n1 + n2 + 0
      /\ \A j : Place(4, j) = j + n1 + n2 + n3
  BY DEF Place
<1>8. /\ \A j \in 0 .. n1 - 1 : a[j + 1] = F!Swapped(At(1, j))
      /\ \A j \in 0 .. n2 - 1 : b[j + 1] = F!Swapped(At(2, j))
      /\ \A j \in 0 .. n3 - 1 : c[j + 1] = F!Swapped(At(3, j))
      /\ \A j \in 0 .. n4 - 1 : d[j + 1] = F!Swapped(At(4, j))
  BY <1>5
<1> HIDE DEF a, b, c, d
<1>9. /\ ab \in Seq(Eights) /\ Len(ab) = Len(a) + Len(b)
      /\ \A k \in 1 .. Len(a) + Len(b) : ab[k] = IF k <= Len(a) THEN a[k] ELSE b[k - Len(a)]
  BY <1>2, ConcatProperties, Zenon
<1> HIDE DEF ab
<1>10. /\ abc \in Seq(Eights) /\ Len(abc) = Len(ab) + Len(c)
       /\ \A k \in 1 .. Len(ab) + Len(c) : abc[k] = IF k <= Len(ab) THEN ab[k] ELSE c[k - Len(ab)]
  <2>1. ab \in Seq(Eights) /\ c \in Seq(Eights)
    BY <1>2, <1>9
  <2> QED
    BY <2>1, ConcatProperties, Zenon
<1> HIDE DEF abc
<1>11. /\ abcd \in Seq(Eights) /\ Len(abcd) = Len(abc) + Len(d)
       /\ \A k \in 1 .. Len(abc) + Len(d) : abcd[k] = IF k <= Len(abc) THEN abc[k] ELSE d[k - Len(abc)]
  <2>1. abc \in Seq(Eights) /\ d \in Seq(Eights)
    BY <1>2, <1>10
  <2> QED
    BY <2>1, ConcatProperties, Zenon
<1> HIDE DEF abcd
<1> HIDE DEF n1, n2, n3, n4
<1>12. Len(ab) = n1 + n2 /\ Len(abc) = n1 + n2 + n3 /\ Len(abcd) = n1 + n2 + n3 + n4
  BY <1>1, <1>3, <1>9, <1>10, <1>11
<1>13. ASSUME NEW j \in 0 .. n1 - 1 PROVE abcd[j + 0 + 0 + 0 + 1] = a[j + 1]
  <2>1. abcd[j + 1] = abc[j + 1]
    BY <1>1, <1>3, <1>11, <1>12
  <2>2. abc[j + 1] = ab[j + 1]
    BY <1>1, <1>3, <1>10, <1>12
  <2>3. ab[j + 1] = a[j + 1]
    BY <1>1, <1>3, <1>9
  <2> QED
    BY <1>1, <2>1, <2>2, <2>3
<1>14. ASSUME NEW j \in 0 .. n2 - 1 PROVE abcd[j + n1 + 0 + 0 + 1] = b[j + 1]
  <2> DEFINE p == j + n1 + 0 + 0 + 1
  <2>1. p \in 1 .. n1 + n2 /\ p > n1 /\ p - n1 = j + 1
    BY <1>1
  <2> HIDE DEF p
  <2>2. abcd[p] = abc[p]
    BY <1>1, <1>3, <1>11, <1>12, <2>1, SMTT(30)
  <2>3. abc[p] = ab[p]
    BY <1>1, <1>3, <1>10, <1>12, <2>1
  <2>4. ab[p] = b[p - n1]
    BY <1>1, <1>3, <1>9, <2>1
  <2> QED
    BY <2>1, <2>2, <2>3, <2>4 DEF p
<1>15. ASSUME NEW j \in 0 .. n3 - 1 PROVE abcd[j + n1 + n2 + 0 + 1] = c[j + 1]
  <2> DEFINE p == j + n1 + n2 + 0 + 1
  <2>1. p \in 1 .. n1 + n2 + n3 /\ p > n1 + n2 /\ p - (n1 + n2) = j + 1
    BY <1>1
  <2> HIDE DEF p
  <2>2. abcd[p] = abc[p]
    BY <1>1, <1>3, <1>11, <1>12, <2>1
  <2>3. abc[p] = c[p - (n1 + n2)]
    BY <1>1, <1>3, <1>10, <1>12, <2>1
  <2> QED
    BY <2>1, <2>2, <2>3 DEF p
<1>16. ASSUME NEW j \in 0 .. n4 - 1 PROVE abcd[j + n1 + n2 + n3 + 1] = d[j + 1]
  <2> DEFINE p == j + n1 + n2 + n3 + 1
  <2>1. p \in 1 .. n1 + n2 + n3 + n4 /\ p > n1 + n2 + n3 /\ p - (n1 + n2 + n3) = j + 1
    BY <1>1
  <2> HIDE DEF p
  <2>2. abcd[p] = d[p - (n1 + n2 + n3)]
    BY <1>1, <1>3, <1>11, <1>12, <2>1
  <2> QED
    BY <2>1, <2>2 DEF p
<1>17. ASSUME NEW t \in 1 .. 4, NEW j \in 0 .. hdr.maps[t] - 1
       PROVE  abcd[Place(t, j) + 1] = F!Swapped(At(t, j)) /\ Place(t, j) \in 0 .. Maps - 1
  <2>1. CASE t = 1
    <3>1. j \in 0 .. n1 - 1
      BY <2>1 DEF n1
    <3>2. abcd[Place(1, j) + 1] = F!Swapped(At(1, j))
      BY <1>7, <1>8, <1>13, <3>1
    <3> QED
      BY <1>1, <1>6, <1>7, <2>1, <3>1, <3>2
  <2>2. CASE t = 2
    <3>1. j \in 0 .. n2 - 1
      BY <2>2 DEF n2
    <3>2. abcd[Place(2, j) + 1] = F!Swapped(At(2, j))
      BY <1>7, <1>8, <1>14, <3>1
    <3> QED
      BY <1>1, <1>6, <1>7, <2>2, <3>1, <3>2
  <2>3. CASE t = 3
    <3>1. j \in 0 .. n3 - 1
      BY <2>3 DEF n3
    <3>2. abcd[Place(3, j) + 1] = F!Swapped(At(3, j))
      BY <1>7, <1>8, <1>15, <3>1
    <3> QED
      BY <1>1, <1>6, <1>7, <2>3, <3>1, <3>2
  <2>4. CASE t = 4
    <3>1. j \in 0 .. n4 - 1
      BY <2>4 DEF n4
    <3>2. abcd[Place(4, j) + 1] = F!Swapped(At(4, j))
      BY <1>7, <1>8, <1>16, <3>1
    <3> QED
      BY <1>1, <1>6, <1>7, <2>4, <3>1, <3>2
  <2> QED
    BY <2>1, <2>2, <2>3, <2>4
<1> QED
  BY <1>4, <1>6, <1>11, <1>12, <1>17

\* What is in a block that was loaded, byte by byte.
LEMMA BlockBytes ==
  ASSUME FontAlways, FontFits, pc = "loaded"
  PROVE  /\ m_fontblock \in Seq(Nat) /\ Len(m_fontblock) = 8 * Maps + Glyphs
         /\ \A t \in 1 .. 4 : \A j \in 0 .. hdr.maps[t] - 1 :
              /\ Place(t, j) \in 0 .. Maps - 1
              /\ \A k \in 1 .. 8 : m_fontblock[8 * Place(t, j) + k] = F!Swapped(At(t, j))[k]
         /\ \A k \in 0 .. Glyphs - 1 : m_fontblock[8 * Maps + k + 1] = 32 + k
<1> DEFINE flat == F!FlattenSeq(AllMaps)
           glyph == fontBytes
           all == flat \o glyph
<1>1. hdr \in Files /\ MapsRead /\ \A t \in 1 .. 4 : Got(t) = hdr.maps[t]
  BY DEF FontAlways, FontFits, Placed, Filled
<1>2. Maps \in Nat /\ Glyphs \in Nat
  BY <1>1, HeaderType
<1>3. fontBytes = [k \in 1 .. Glyphs |-> 32 + k - 1] /\ m_fontblock = all
  BY DEF FontFits, Placed, Done, F!block, AllMaps
<1>4. /\ AllMaps \in Seq(Eights) /\ Len(AllMaps) = Maps
      /\ \A t \in 1 .. 4 : \A j \in 0 .. hdr.maps[t] - 1 :
              /\ Place(t, j) \in 0 .. Maps - 1
              /\ AllMaps[Place(t, j) + 1] = F!Swapped(At(t, j))
  BY <1>1, MapsInOrder
<1>5. /\ flat \in Seq(Nat) /\ Len(flat) = 8 * Maps
      /\ \A j \in 0 .. Maps - 1 : \A k \in 1 .. 8 : flat[8 * j + k] = AllMaps[j + 1][k]
  BY <1>4, Flattened
<1> HIDE DEF flat
<1>6. glyph \in Seq(Nat) /\ Len(glyph) = Glyphs /\ \A k \in 1 .. Glyphs : glyph[k] = 32 + k - 1
  <2>1. glyph \in [1 .. Glyphs -> Nat]
    BY <1>2, <1>3
  <2> QED
    BY <1>2, <1>3, <2>1
<1> HIDE DEF glyph
<1>7. /\ all \in Seq(Nat) /\ Len(all) = Len(flat) + Len(glyph)
      /\ \A k \in 1 .. Len(flat) + Len(glyph) :
           all[k] = IF k <= Len(flat) THEN flat[k] ELSE glyph[k - Len(flat)]
  BY <1>5, <1>6, ConcatProperties
<1> HIDE DEF all
<1>8. ASSUME NEW j \in 0 .. Maps - 1, NEW k \in 1 .. 8
      PROVE  all[8 * j + k] = AllMaps[j + 1][k]
  <2> DEFINE p == 8 * j + k
  <2>1. p \in 1 .. 8 * Maps
    BY <1>2
  <2>2. flat[p] = AllMaps[j + 1][k]
    BY <1>5
  <2> HIDE DEF p
  <2>3. all[p] = flat[p]
    BY <1>2, <1>5, <1>6, <1>7, <2>1
  <2> QED
    BY <2>2, <2>3 DEF p
<1>9. ASSUME NEW k \in 0 .. Glyphs - 1 PROVE all[8 * Maps + k + 1] = 32 + k
  <2> DEFINE p == 8 * Maps + k + 1
  <2>1. p \in 1 .. 8 * Maps + Glyphs /\ ~(p <= 8 * Maps) /\ p - 8 * Maps = k + 1
    BY <1>2
  <2> HIDE DEF p
  <2>2. all[p] = glyph[p - 8 * Maps]
    BY <1>5, <1>6, <1>7, <2>1
  <2>3. glyph[k + 1] = 32 + k
    BY <1>2, <1>6
  <2> QED
    BY <2>1, <2>2, <2>3 DEF p
<1>10. ASSUME NEW t \in 1 .. 4, NEW j \in 0 .. hdr.maps[t] - 1
       PROVE  /\ Place(t, j) \in 0 .. Maps - 1
              /\ \A k \in 1 .. 8 : all[8 * Place(t, j) + k] = F!Swapped(At(t, j))[k]
  BY <1>4, <1>8
<1> QED
  BY <1>3, <1>5, <1>6, <1>7, <1>9, <1>10

LEMMA InBlock ==
  ASSUME NEW p \in Nat, NEW q \in Nat, NEW g \in Nat, p <= q - 1,
         NEW o \in Nat, NEW n \in Nat \ {0}, o + n <= 8
  PROVE  /\ 8 * p + o + 1 \in Nat \ {0} /\ 8 * p + o + n \in Nat
         /\ 8 * p + o + 1 <= 8 * p + o + n /\ 8 * p + o + n <= 8 * q + g
  OBVIOUS

\* The reader gets a number as it is in the file: turned round twice.
LEMMA NumberRead ==
  ASSUME FontAlways, FontFits, pc = "loaded",
         NEW t \in 1 .. 4, NEW j \in 0 .. hdr.maps[t] - 1,
         NEW o \in Nat, NEW n \in Nat \ {0}, o + n <= 8,
         \A k \in 1 .. n : F!Swapped(At(t, j))[o + k] = At(t, j)[o + n + 1 - k]
  PROVE  F!Number(8 * Place(t, j) + o, n) = F!InFile(t, j, o, n)
<1> DEFINE p == Place(t, j)
           at == 8 * p + o
<1>1. /\ m_fontblock \in Seq(Nat) /\ Len(m_fontblock) = 8 * Maps + Glyphs
      /\ p \in 0 .. Maps - 1
      /\ \A k \in 1 .. 8 : m_fontblock[8 * p + k] = F!Swapped(At(t, j))[k]
  BY BlockBytes
<1>2. Maps \in Nat /\ Glyphs \in Nat /\ Glyphs = hdr.glyphs * F!GlyphBytes
  BY HeaderType DEF FontAlways, Glyphs
<1>3. F!Before(hdr.maps, t, j) = 8 * p
  BY DEF F!Before, F!MAP, Place
<1>4. \A k \in 1 .. 8 : At(t, j)[k] = 32 + Glyphs + 8 * p + k - 1
  BY DEF At
<1>5. F!InFile(t, j, o, n) = [k \in 1 .. n |-> 32 + Glyphs + 8 * p + o + k - 1]
  BY <1>2, <1>3 DEF F!InFile, F!HEADER
<1> HIDE DEF p
<1>5a. at \in Nat /\ p \in Nat /\ 8 * p \in Nat
  <2>1. p \in Nat
    BY <1>1, <1>2
  <2> QED
    BY <2>1
<1> DEFINE x == at + 1
           y == at + n
<1>6. x \in Nat \ {0} /\ y \in Nat /\ x <= y /\ y <= Len(m_fontblock) /\ m_fontblock \in Seq(Nat)
  <2>1. p \in Nat /\ p <= Maps - 1 /\ Maps \in Nat /\ Glyphs \in Nat
    BY <1>1, <1>2
  <2>2. 8 * p + o + n <= 8 * Maps + Glyphs
    BY <2>1, InBlock
  <2>3. y <= Len(m_fontblock)
    BY <1>1, <2>2
  <2>4. x \in Nat \ {0} /\ y \in Nat /\ x <= y
    BY <2>1
  <2> QED
    BY <1>1, <2>3, <2>4
<1>7. F!Number(at, n) = [k \in 1 .. y - x + 1 |-> m_fontblock[y + 1 - k]]
  <2>1. F!Number(at, n) = F!Reverse(SubSeq(m_fontblock, x, y))
    BY DEF F!Number
  <2> HIDE DEF at, x, y
  <2>2. F!Reverse(SubSeq(m_fontblock, x, y)) = [k \in 1 .. y - x + 1 |-> m_fontblock[y + 1 - k]]
    BY <1>6, Turned, Zenon
  <2> QED
    BY <2>1, <2>2
<1>8. y - x + 1 = n
  <2> HIDE DEF at
  <2> QED
    BY <1>5a
<1>9. ASSUME NEW k \in 1 .. n
      PROVE  m_fontblock[y + 1 - k] = 32 + Glyphs + 8 * p + o + k - 1
  <2> DEFINE l == o + n + 1 - k
  <2>1. l \in 1 .. 8 /\ 8 * p + l = y + 1 - k
    <3>1. l \in 1 .. 8
      OBVIOUS
    <3>2. at \in Nat /\ at = 8 * p + o
      BY <1>5a
    <3> HIDE DEF at
    <3>3. y + 1 - k = at + n + 1 - k
      BY <3>2
    <3>4. 8 * p \in Nat /\ at + n + 1 - k = 8 * p + (o + n + 1 - k)
      BY <1>5a, <3>2
    <3> QED
      BY <3>1, <3>3, <3>4
  <2>2. n + 1 - k \in 1 .. n /\ o + (n + 1 - k) = l /\ o + n + 1 - (n + 1 - k) = o + k
    OBVIOUS
  <2> HIDE DEF l, at, x, y
  <2>3. m_fontblock[y + 1 - k] = F!Swapped(At(t, j))[l]
    BY <1>1, <2>1
  <2>4. F!Swapped(At(t, j))[l] = At(t, j)[o + k]
    BY <2>2
  <2>5. At(t, j)[o + k] = 32 + Glyphs + 8 * p + (o + k) - 1
    BY <1>4
  <2>6. 32 + Glyphs + 8 * p + (o + k) - 1 = 32 + Glyphs + 8 * p + o + k - 1
    <3>1. p \in Nat /\ Glyphs \in Nat
      BY <1>1, <1>2
    <3> QED
      BY <3>1
  <2> QED
    BY <2>3, <2>4, <2>5, <2>6
<1> HIDE DEF at, x, y
<1>10. F!Number(at, n) = [k \in 1 .. n |-> m_fontblock[y + 1 - k]]
  BY <1>7, <1>8
<1>11. F!Number(at, n) = F!InFile(t, j, o, n)
  BY <1>5, <1>9, <1>10
<1> QED
  BY <1>11 DEF p, at

LEMMA FontIsGiven == FontInv => F!FontAsGiven
<1> SUFFICES ASSUME FontAlways, F!Fits, FontFits, pc = "loaded"
             PROVE  F!FontAsGiven
  BY DEF F!FontAsGiven, FontInv
<1>1. /\ hdr \in Files /\ Word \in Nat \ {0} /\ Glyphs \in Nat /\ Maps \in Nat /\ F!total = Glyphs
      /\ hdr.width \in Nat /\ hdr.height \in Nat /\ \A t \in 1 .. 4 : hdr.maps[t] \in Nat
  BY HeaderType, NothingCut DEF FontAlways
<1>2. fi = [checksum |-> F!checksum, width |-> hdr.width, height |-> hdr.height,
            bitmap_size |-> Glyphs, map_count |-> hdr.maps]
  BY DEF FontFits, Done
<1>3. F!Accepted
  <2> DEFINE sum == hdr.width + hdr.height + Glyphs + hdr.maps[1] + hdr.maps[2] + hdr.maps[3] + hdr.maps[4]
             a == sum % Word
  <2>1. sum \in Nat
    BY <1>1
  <2> HIDE DEF sum
  <2>2. a \in Nat /\ a < Word
    BY <1>1, <2>1
  <2>3. F!Sum(hdr.width, hdr.height, Glyphs, hdr.maps) = a
    BY DEF F!Sum, sum
  <2>4. F!checksum = (Word - a) % Word
    BY <1>1, <2>3 DEF F!checksum
  <2>5. F!Accepted <=> (a + ((Word - a) % Word)) % Word = 0
    BY <1>2, <2>3, <2>4 DEF F!Accepted
  <2> HIDE DEF a
  <2> QED
    BY <1>1, <2>2, <2>5, ChecksumAccepted
<1>4. ASSUME NEW t \in 1 .. 4, NEW j \in 0 .. hdr.maps[t] - 1
      PROVE  LET at == F!Before(fi.map_count, t, j)
             IN  /\ F!Number(at, 4) = F!InFile(t, j, 0, 4)
                 /\ F!Number(at + 4, 2) = F!InFile(t, j, 4, 2)
                 /\ F!Number(at + 6, 2) = F!InFile(t, j, 6, 2)
  <2>1. F!Before(fi.map_count, t, j) = 8 * Place(t, j) /\ Place(t, j) \in Nat
    BY <1>1, <1>2 DEF F!Before, F!MAP, Place
  <2> DEFINE sw == F!Swapped(At(t, j))
             b  == At(t, j)
  <2>2. b \in Eights
    <3>1. b \in [1 .. 8 -> Nat]
      BY <1>1, <2>1 DEF At
    <3>2. ASSUME NEW n \in Nat, b \in [1 .. n -> Nat] PROVE b \in Seq(Nat) /\ Len(b) = n
      BY <3>2
    <3> QED
      BY <3>1, <3>2 DEF Eights
  <2> HIDE DEF b
  <2>3. /\ \A k \in 1 .. 4 : sw[k] = b[5 - k]
        /\ \A k \in 1 .. 2 : sw[4 + k] = b[7 - k]
        /\ \A k \in 1 .. 2 : sw[6 + k] = b[9 - k]
    BY <2>2, SwappedBytes DEF b
  <2> HIDE DEF sw
  <2>4. /\ \A k \in 1 .. 4 : sw[0 + k] = b[0 + 4 + 1 - k]
        /\ \A k \in 1 .. 2 : sw[4 + k] = b[4 + 2 + 1 - k]
        /\ \A k \in 1 .. 2 : sw[6 + k] = b[6 + 2 + 1 - k]
    BY <2>3
  <2>5. F!Number(8 * Place(t, j) + 0, 4) = F!InFile(t, j, 0, 4)
    <3>1. 0 \in Nat /\ 4 \in Nat \ {0} /\ 0 + 4 <= 8
      OBVIOUS
    <3> QED
      BY <2>4, <3>1, NumberRead, Zenon DEF sw, b
  <2>6. F!Number(8 * Place(t, j) + 4, 2) = F!InFile(t, j, 4, 2)
    <3>1. 4 \in Nat /\ 2 \in Nat \ {0} /\ 4 + 2 <= 8
      OBVIOUS
    <3> QED
      BY <2>4, <3>1, NumberRead, Zenon DEF sw, b
  <2>7. F!Number(8 * Place(t, j) + 6, 2) = F!InFile(t, j, 6, 2)
    <3>1. 6 \in Nat /\ 2 \in Nat \ {0} /\ 6 + 2 <= 8
      OBVIOUS
    <3> QED
      BY <2>4, <3>1, NumberRead, Zenon DEF sw, b
  <2>8. 8 * Place(t, j) + 0 = 8 * Place(t, j)
    BY <2>1
  <2> QED
    BY <2>1, <2>5, <2>6, <2>7, <2>8
<1>5. ASSUME NEW k \in 0 .. hdr.glyphs * F!GlyphBytes - 1
      PROVE  m_fontblock[F!vf_bytes + k + 1] = F!HEADER + k
  <2>1. F!vf_bytes = 8 * Maps
    BY <1>1, <1>2 DEF F!vf_bytes, F!Before, F!MAP, Maps
  <2>2. k \in 0 .. Glyphs - 1
    BY DEF Glyphs
  <2> QED
    BY <2>1, <2>2, BlockBytes DEF F!HEADER
<1> QED
  BY <1>3, <1>4, <1>5 DEF F!FontAsGiven, F!Tables

\* FreeBSD takes what fontLoad made of any proper font file that fits the 32 bits of the
\* index and the stack, and reads every map and every glyph from it as the file has them,
\* although all numbers were turned round and the maps, which come last in the file, come
\* first.
THEOREM FontKept == Spec => []FontAsGiven
<1> DEFINE Inv == subject = "font" => FontInv
<1>1. Init => Inv
  BY FontInit DEF Init
<1>2. Inv /\ [Next]_vars => Inv'
  BY FontStep, OthersStutter
<1>3. Inv => FontAsGiven
  BY FontIsGiven DEF FontAsGiven
<1> QED
  BY <1>1, <1>2, <1>3, PTL DEF Spec

-----------------------------------------------------------------------------
(* The environment                                                         *)

\* String k ends, zero and all, where p says; the buffer ends with two zeroes more.
LaidOut(p) ==
  /\ p[0] = 0 /\ p[Len(added)] + 2 = Len(m_buffer)
  /\ \A k \in 0 .. Len(added) : p[k] + 2 <= Len(m_buffer)
  /\ \A k \in 1 .. Len(added) :
       /\ p[k] = p[k - 1] + Len(added[k]) + 1 /\ m_buffer[p[k]] = 0
       /\ \A b \in 1 .. Len(added[k]) : m_buffer[p[k - 1] + b] = added[k][b]
  /\ m_buffer[p[Len(added)] + 1] = 0 /\ m_buffer[p[Len(added)] + 2] = 0

\* The reader is behind the last string it has seen.
Follows(p) ==
  /\ Len(seen) <= Len(added) /\ cp = p[Len(seen)]
  /\ \A k \in 1 .. Len(seen) : seen[k] = added[k]
  /\ pc = "write" => Len(seen) = 0
  /\ pc = "read"  => Len(seen) < Len(added)
  /\ pc = "done"  => Len(seen) = Len(added)

EnvInv ==
  /\ added \in Seq(Strings) /\ seen \in Seq(Strings) /\ m_buffer \in Seq(Nat)
  /\ pc \in {"write", "read", "done"}
  /\ \E p \in [0 .. Len(added) -> 0 .. Len(m_buffer)] : LaidOut(p) /\ Follows(p)

LEMMA StringType ==
  ASSUME NEW str \in Strings
  PROVE  /\ str \in Seq(Nat) /\ Len(str) \in Nat \ {0} /\ DOMAIN str = 1 .. Len(str)
         /\ \A b \in 1 .. Len(str) : str[b] \in Nat \ {0}
<1>1. str \in Seq(Nat \ {0}) /\ str # <<>>
  BY BlocksAssumption DEF E!StringsAssumption
<1>2. \A b \in 1 .. Len(str) : str[b] \in Nat \ {0}
  BY <1>1, ElementOfSeq
<1>3. Len(str) \in Nat \ {0} /\ DOMAIN str = 1 .. Len(str)
  BY <1>1, EmptySeq, LenProperties
<1>4. str \in Seq(Nat)
  BY <1>1, SeqMonotonic
<1> QED
  BY <1>2, <1>3, <1>4

\* push writes the string over the two zeroes, and leaves two zeroes behind it.
LEMMA Pushed ==
  ASSUME NEW str \in Strings, m_buffer \in Seq(Nat), Len(m_buffer) >= 2
  PROVE  /\ E!push(str) \in Seq(Nat) /\ Len(E!push(str)) = Len(m_buffer) + Len(str) + 1
         /\ \A b \in 1 .. Len(m_buffer) - 2 : E!push(str)[b] = m_buffer[b]
         /\ \A b \in 1 .. Len(str) : E!push(str)[Len(m_buffer) - 2 + b] = str[b]
         /\ \A b \in 1 .. 3 : E!push(str)[Len(m_buffer) - 2 + Len(str) + b] = 0
<1> DEFINE size == Len(str) + 1
           len == Len(m_buffer)
           zeroes == [b \in 1 .. len + size - len |-> 0]
           wider == m_buffer \o zeroes
           f == [b \in DOMAIN wider |->
                  LET k == b - E!place(Len(wider), size)
                  IN  IF k \in DOMAIN str THEN str[k] ELSE IF k = size THEN 0 ELSE wider[b]]
<1>1. E!push(str) = f
  BY DEF E!push, E!resize
<1>2. /\ str \in Seq(Nat) /\ Len(str) \in Nat \ {0} /\ DOMAIN str = 1 .. Len(str)
      /\ \A b \in 1 .. Len(str) : str[b] \in Nat
  BY StringType
<1>3. len \in Nat /\ len >= 2 /\ size \in Nat /\ size >= 2
  BY <1>2
<1>4. zeroes \in Seq(Nat) /\ Len(zeroes) = size /\ \A b \in 1 .. size : zeroes[b] = 0
  <2>1. len + size - len = size
    BY <1>3
  <2>2. zeroes = [b \in 1 .. size |-> 0]
    BY <2>1
  <2> HIDE DEF zeroes, size
  <2>3. zeroes \in [1 .. size -> Nat]
    BY <2>2
  <2> QED
    BY <1>3, <2>2, <2>3
<1> HIDE DEF zeroes
<1>5. /\ wider \in Seq(Nat) /\ Len(wider) = len + size
      /\ \A b \in 1 .. len + size : wider[b] = IF b <= len THEN m_buffer[b] ELSE zeroes[b - len]
  <2> HIDE DEF wider, size
  <2>1. /\ m_buffer \o zeroes \in Seq(Nat)
        /\ Len(m_buffer \o zeroes) = Len(m_buffer) + Len(zeroes)
        /\ \A b \in 1 .. Len(m_buffer) + Len(zeroes) :
             (m_buffer \o zeroes)[b]
               = IF b <= Len(m_buffer) THEN m_buffer[b] ELSE zeroes[b - Len(m_buffer)]
    BY <1>4, ConcatProperties, Zenon
  <2>2. wider = m_buffer \o zeroes
    BY DEF wider
  <2> QED
    BY <1>4, <2>1, <2>2
<1>6. \A b \in 1 .. len + size : wider[b] \in Nat
  BY <1>5, ElementOfSeq
<1> HIDE DEF wider
<1>7. DOMAIN wider = 1 .. len + size
  BY <1>5, LenProperties
<1>8. E!place(Len(wider), size) = len - 2
  BY <1>3, <1>5 DEF E!place
<1>9. f = [b \in 1 .. len + size |->
             IF b - (len - 2) \in 1 .. Len(str) THEN str[b - (len - 2)]
             ELSE IF b - (len - 2) = size THEN 0 ELSE wider[b]]
  BY <1>2, <1>7, <1>8
<1> HIDE DEF f
<1>10. \A b \in 1 .. len + size :
         f[b] = IF b - (len - 2) \in 1 .. Len(str) THEN str[b - (len - 2)]
                ELSE IF b - (len - 2) = size THEN 0 ELSE wider[b]
  BY <1>9
<1>11. f \in [1 .. len + size -> Nat]
  <2>1. ASSUME NEW b \in 1 .. len + size PROVE f[b] \in Nat
    <3> DEFINE k == b - (len - 2)
    <3>1. f[b] = IF k \in 1 .. Len(str) THEN str[k] ELSE IF k = size THEN 0 ELSE wider[b]
      BY <1>10
    <3> HIDE DEF k, len, size
    <3> QED
      BY <1>2, <1>6, <3>1
  <2> QED
    BY <1>9, <2>1
<1>12. f \in Seq(Nat) /\ Len(f) = len + size
  <2>1. len + size \in Nat
    BY <1>3
  <2> HIDE DEF len, size
  <2> QED
    BY <1>11, <2>1
<1>13. ASSUME NEW b \in 1 .. len - 2 PROVE f[b] = m_buffer[b]
  <2>1. b \in 1 .. len + size /\ b <= len /\ b - (len - 2) <= 0
    BY <1>3
  <2>2. ~(b - (len - 2) \in 1 .. Len(str)) /\ b - (len - 2) # size
    BY <1>3, <2>1
  <2> HIDE DEF len, size
  <2> QED
    BY <1>5, <1>10, <2>1, <2>2
<1>14. ASSUME NEW b \in 1 .. Len(str) PROVE f[len - 2 + b] = str[b]
  <2> DEFINE c == len - 2 + b
  <2>1. c \in 1 .. len + size /\ c - (len - 2) = b
    BY <1>2, <1>3
  <2> HIDE DEF c, len, size
  <2> QED
    BY <1>10, <2>1 DEF c
<1>15. ASSUME NEW b \in 1 .. 3 PROVE f[len - 2 + Len(str) + b] = 0
  <2> DEFINE c == len - 2 + Len(str) + b
  <2>1. /\ c \in 1 .. len + size /\ c - (len - 2) = Len(str) + b
        /\ ~(Len(str) + b \in 1 .. Len(str))
        /\ b # 1 => ~(c <= len) /\ c - len \in 1 .. size
        /\ b = 1 <=> Len(str) + b = size
    BY <1>2, <1>3
  <2> HIDE DEF c, len, size
  <2>2. f[c] = IF Len(str) + b = size THEN 0 ELSE wider[c]
    BY <1>10, <2>1
  <2>3. b # 1 => wider[c] = 0
    BY <1>4, <1>5, <2>1
  <2> QED
    BY <2>1, <2>2, <2>3 DEF c
<1>16. len + size = len + Len(str) + 1
  BY <1>2, <1>3
<1> QED
  BY <1>1, <1>12, <1>13, <1>14, <1>15, <1>16

LEMMA EnvInit == E!Init => EnvInv
<1> SUFFICES ASSUME E!Init PROVE EnvInv
  OBVIOUS
<1>1. /\ m_buffer = <<0, 0>> /\ added = <<>> /\ seen = <<>> /\ pc = "write" /\ cp = 0
  BY DEF E!Init, E!clear
<1>2. m_buffer \in Seq(Nat) /\ Len(m_buffer) = 2 /\ m_buffer[1] = 0 /\ m_buffer[2] = 0
  BY <1>1
<1>3. added \in Seq(Strings) /\ seen \in Seq(Strings) /\ Len(added) = 0 /\ Len(seen) = 0
  BY <1>1
<1> DEFINE p == [k \in 0 .. 0 |-> 0]
<1>4. p \in [0 .. Len(added) -> 0 .. Len(m_buffer)] /\ p[0] = 0
  BY <1>2, <1>3
<1> HIDE DEF p
<1>5. LaidOut(p) /\ Follows(p)
  BY <1>1, <1>2, <1>3, <1>4 DEF LaidOut, Follows
<1> QED
  BY <1>1, <1>2, <1>3, <1>4, <1>5 DEF EnvInv

\* Between the end of one string and the end of the next, there is the next.
LEMMA Within ==
  ASSUME NEW x \in Nat, NEW y \in Nat, NEW l \in Nat, NEW e \in Int, y = x + l + 1, y <= e
  PROVE  y \in 1 .. e /\ \A b \in 1 .. l : x + b \in 1 .. e
  OBVIOUS

\* A string that is added gets the next place and disturbs no other.
LEMMA EnvAdd ==
  ASSUME EnvInv, NEW str \in Strings, E!addString(str)
  PROVE  EnvInv'
<1>1. /\ added \in Seq(Strings) /\ seen \in Seq(Strings) /\ m_buffer \in Seq(Nat) /\ pc = "write"
      /\ m_buffer' = E!push(str) /\ added' = Append(added, str) /\ UNCHANGED <<pc, cp, seen>>
  BY DEF EnvInv, E!addString
<1>2. PICK p \in [0 .. Len(added) -> 0 .. Len(m_buffer)] : LaidOut(p) /\ Follows(p)
  BY DEF EnvInv
<1> DEFINE n == Len(added)
           len == Len(m_buffer)
           size == Len(str) + 1
<1>3. n \in Nat /\ len \in Nat
  BY <1>1
<1>4. \A k \in 0 .. n : p[k] \in Nat /\ p[k] + 2 <= len
  <2>1. \A k \in 0 .. n : p[k] \in Nat
    BY <1>2
  <2> QED
    BY <1>2, <2>1 DEF LaidOut
<1>5. p[0] = 0 /\ p[n] = len - 2 /\ len >= 2
  <2>1. p[n] + 2 = len /\ p[0] = 0
    BY <1>2 DEF LaidOut
  <2>2. n \in 0 .. n
    BY <1>3
  <2> QED
    BY <1>3, <1>4, <2>1, <2>2, SMTT(30)
<1>6. Len(str) \in Nat \ {0} /\ size \in Nat
  BY StringType
<1>7. /\ m_buffer' \in Seq(Nat) /\ Len(m_buffer') = len + size
      /\ \A b \in 1 .. len - 2 : m_buffer'[b] = m_buffer[b]
      /\ \A b \in 1 .. Len(str) : m_buffer'[len - 2 + b] = str[b]
      /\ \A b \in 1 .. 3 : m_buffer'[len - 2 + Len(str) + b] = 0
  <2>1. /\ E!push(str) \in Seq(Nat) /\ Len(E!push(str)) = len + Len(str) + 1
        /\ \A b \in 1 .. len - 2 : E!push(str)[b] = m_buffer[b]
        /\ \A b \in 1 .. Len(str) : E!push(str)[len - 2 + b] = str[b]
        /\ \A b \in 1 .. 3 : E!push(str)[len - 2 + Len(str) + b] = 0
    BY <1>1, <1>5, Pushed
  <2>2. len + Len(str) + 1 = len + size
    BY <1>3, <1>6
  <2> QED
    BY <1>1, <2>1, <2>2
<1>8. /\ added' \in Seq(Strings) /\ Len(added') = n + 1 /\ added'[n + 1] = str
      /\ \A k \in 1 .. n : added'[k] = added[k]
  BY <1>1, AppendProperties
<1>9. PICK q \in [0 .. n + 1 -> 0 .. len + size] :
           (\A k \in 0 .. n : q[k] = p[k]) /\ q[n + 1] = len - 2 + size
  <2> DEFINE longer == [k \in 0 .. n + 1 |-> IF k <= n THEN p[k] ELSE len - 2 + size]
  <2> HIDE DEF n, len, size
  <2>1. longer \in [0 .. n + 1 -> 0 .. len + size]
    <3>1. ASSUME NEW k \in 0 .. n + 1, k <= n PROVE p[k] \in 0 .. len + size
      <4>1. k \in 0 .. n
        BY <3>1, <1>3
      <4>2. p[k] \in Nat /\ p[k] + 2 <= len
        BY <4>1, <1>4
      <4> QED
        BY <4>2, <1>3, <1>6
    <3>2. len - 2 + size \in 0 .. len + size
      BY <1>3, <1>4, <1>5, <1>6
    <3> QED
      BY <3>1, <3>2
  <2>2. (\A k \in 0 .. n : longer[k] = p[k]) /\ longer[n + 1] = len - 2 + size
    BY <1>3
  <2> QED
    BY <2>1, <2>2
<1>11. \A k \in 1 .. n : /\ p[k] = p[k - 1] + Len(added[k]) + 1 /\ m_buffer[p[k]] = 0
                         /\ \A b \in 1 .. Len(added[k]) : m_buffer[p[k - 1] + b] = added[k][b]
  BY <1>2 DEF LaidOut
<1>12. \A k \in 1 .. n : Len(added[k]) \in Nat
  <2> SUFFICES ASSUME NEW k \in 1 .. n PROVE Len(added[k]) \in Nat
    OBVIOUS
  <2>1. added[k] \in Strings
    BY <1>1, ElementOfSeq
  <2> QED
    BY <2>1, StringType
<1> HIDE DEF n, len, size
<1>13. LaidOut(q)'
  <2>1. q[0] = 0 /\ q[n + 1] + 2 = len + size
    BY <1>3, <1>5, <1>6, <1>9
  <2>2. \A k \in 0 .. n + 1 : q[k] + 2 <= len + size
    <3> SUFFICES ASSUME NEW k \in 0 .. n + 1 PROVE q[k] + 2 <= len + size
      OBVIOUS
    <3>1. CASE k \in 0 .. n
      <4>1. q[k] = p[k] /\ p[k] \in Nat /\ p[k] + 2 <= len
        BY <1>4, <1>9, <3>1
      <4> QED
        BY <1>3, <1>6, <4>1
    <3>2. CASE k = n + 1
      BY <1>3, <1>6, <2>1, <3>2
    <3> QED
      BY <1>3, <3>1, <3>2
  <2>3. ASSUME NEW k \in 1 .. n + 1
        PROVE  /\ q[k] = q[k - 1] + Len(added'[k]) + 1 /\ m_buffer'[q[k]] = 0
               /\ \A b \in 1 .. Len(added'[k]) : m_buffer'[q[k - 1] + b] = added'[k][b]
    <3>1. CASE k = n + 1
      <4>1. q[k - 1] = len - 2 /\ k - 1 = n
        BY <1>3, <1>5, <1>9, <3>1
      <4>2. added'[k] = str
        BY <1>8, <3>1
      <4>3. q[k] = len - 2 + Len(str) + 1
        BY <1>3, <1>6, <1>9, <3>1 DEF size
      <4>4. m_buffer'[q[k]] = 0
        BY <1>7, <4>3
      <4> QED
        BY <1>7, <4>1, <4>2, <4>3, <4>4
    <3>2. CASE k \in 1 .. n
      <4>1. k \in 0 .. n /\ k - 1 \in 0 .. n
        BY <1>3, <3>2
      <4>2. q[k] = p[k] /\ q[k - 1] = p[k - 1] /\ added'[k] = added[k]
        BY <1>8, <1>9, <3>2, <4>1
      <4>3. /\ p[k] = p[k - 1] + Len(added[k]) + 1 /\ m_buffer[p[k]] = 0
            /\ \A b \in 1 .. Len(added[k]) : m_buffer[p[k - 1] + b] = added[k][b]
        BY <1>11, <3>2
      <4>4. p[k] \in Nat /\ p[k - 1] \in Nat /\ p[k] <= len - 2 /\ Len(added[k]) \in Nat
        <5>1. p[k] \in Nat /\ p[k] + 2 <= len /\ p[k - 1] \in Nat
          BY <1>4, <4>1
        <5>2. Len(added[k]) \in Nat
          BY <1>12, <3>2
        <5> HIDE DEF len
        <5> QED
          BY <1>3, <5>1, <5>2, SMTT(30)
      <4>7. p[k] = p[k - 1] + Len(added[k]) + 1
        BY <4>3
      <4>8. len - 2 \in Int
        BY <1>3
      <4>5. p[k] \in 1 .. len - 2 /\ \A b \in 1 .. Len(added[k]) : p[k - 1] + b \in 1 .. len - 2
        BY <4>4, <4>7, <4>8, Within
      <4>6. ASSUME NEW b \in 1 .. Len(added[k])
            PROVE  m_buffer'[p[k - 1] + b] = added[k][b]
        <5>1. p[k - 1] + b \in 1 .. len - 2
          BY <4>5
        <5> QED
          BY <1>7, <4>3, <5>1
      <4> QED
        BY <1>7, <4>2, <4>3, <4>5, <4>6
    <3> QED
      BY <1>3, <3>1, <3>2
  <2>4. m_buffer'[q[n + 1] + 1] = 0 /\ m_buffer'[q[n + 1] + 2] = 0
    <3>1. q[n + 1] + 1 = len - 2 + Len(str) + 2 /\ q[n + 1] + 2 = len - 2 + Len(str) + 3
      BY <1>3, <1>6, <1>9 DEF size
    <3> QED
      BY <1>7, <3>1
  <2> QED
    BY <1>7, <1>8, <2>1, <2>2, <2>3, <2>4 DEF LaidOut
<1>14. Follows(q)'
  <2>1. /\ Len(seen) = 0 /\ cp = p[0]
    BY <1>1, <1>2 DEF Follows
  <2>2. q[0] = p[0]
    BY <1>3, <1>9
  <2> QED
    BY <1>1, <1>3, <1>8, <2>1, <2>2 DEF Follows
<1>15. q \in [0 .. Len(added') -> 0 .. Len(m_buffer')]
  BY <1>7, <1>8, <1>9
<1> QED
  BY <1>1, <1>7, <1>8, <1>13, <1>14, <1>15 DEF EnvInv

\* The reader passes exactly the next string.
LEMMA EnvRead ==
  ASSUME EnvInv, E!kernenv_next
  PROVE  EnvInv'
<1>1. /\ added \in Seq(Strings) /\ seen \in Seq(Strings) /\ m_buffer \in Seq(Nat) /\ pc = "read"
      /\ UNCHANGED <<m_buffer, m_count, added>>
  BY DEF EnvInv, E!kernenv_next
<1>2. PICK p \in [0 .. Len(added) -> 0 .. Len(m_buffer)] : LaidOut(p) /\ Follows(p)
  BY DEF EnvInv
<1>3. PICK z \in cp + 1 .. Len(m_buffer) - 1 :
           /\ m_buffer[z] = 0 /\ \A b \in cp + 1 .. z - 1 : m_buffer[b] # 0
           /\ seen' = Append(seen, SubSeq(m_buffer, cp + 1, z - 1))
           /\ cp' = z
           /\ pc' = IF m_buffer[z + 1] = 0 THEN "done" ELSE "read"
  BY DEF E!kernenv_next
<1> DEFINE n == Len(added)
           len == Len(m_buffer)
           r == Len(seen)
           str == added[r + 1]
<1>4. n \in Nat /\ len \in Nat /\ r \in Nat /\ r < n /\ cp = p[r]
  BY <1>1, <1>2 DEF Follows
<1>5. str \in Strings
  BY <1>1, <1>4, ElementOfSeq
<1>6. /\ Len(str) \in Nat \ {0} /\ str \in Seq(Nat) /\ \A b \in 1 .. Len(str) : str[b] \in Nat \ {0}
  BY <1>5, StringType
<1>7. \A k \in 0 .. n : p[k] \in Nat /\ p[k] + 2 <= len
  <2>1. \A k \in 0 .. n : p[k] \in Nat
    BY <1>2
  <2> QED
    BY <1>2, <2>1 DEF LaidOut
<1>8. /\ p[r + 1] = p[r] + Len(str) + 1 /\ m_buffer[p[r + 1]] = 0
      /\ \A b \in 1 .. Len(str) : m_buffer[p[r] + b] = str[b]
  <2>1. r + 1 \in 1 .. n /\ r + 1 - 1 = r
    BY <1>4
  <2>2. \A k \in 1 .. n :
          /\ p[k] = p[k - 1] + Len(added[k]) + 1 /\ m_buffer[p[k]] = 0
          /\ \A b \in 1 .. Len(added[k]) : m_buffer[p[k - 1] + b] = added[k][b]
    BY <1>2, Zenon DEF LaidOut
  <2> DEFINE q == r + 1
  <2>3. q \in 1 .. n /\ q - 1 = r /\ q = r + 1
    BY <2>1
  <2> HIDE DEF q, n, r
  <2>4. /\ p[q] = p[q - 1] + Len(added[q]) + 1 /\ m_buffer[p[q]] = 0
        /\ \A b \in 1 .. Len(added[q]) : m_buffer[p[q - 1] + b] = added[q][b]
    BY <2>2, <2>3, Zenon
  <2> QED
    BY <2>3, <2>4, Zenon DEF q
<1>9. p[r] \in Nat /\ p[r + 1] \in Nat /\ p[r + 1] + 2 <= len
  <2>1. r \in 0 .. n /\ r + 1 \in 0 .. n
    BY <1>4
  <2> QED
    BY <1>7, <2>1
<1>10. \A k \in 1 .. r : seen[k] = added[k]
  BY <1>2 DEF Follows
<1>10a. p[r + 1] = p[r] + Len(str) + 1 /\ Len(str) \in Nat \ {0}
  BY <1>6, <1>8
<1> HIDE DEF n, len, r, str
<1>11. z = p[r + 1]
  <2>1. z \in Nat /\ z >= p[r] + 1
    BY <1>3, <1>4, <1>9
  <2>2. ASSUME z < p[r + 1] PROVE FALSE
    <3> DEFINE b == z - p[r]
    <3>1. b \in 1 .. Len(str) /\ p[r] + b = z
      BY <1>9, <1>10a, <2>1, <2>2, SMTT(30)
    <3> HIDE DEF b
    <3>2. m_buffer[z] = str[b]
      BY <1>8, <3>1
    <3> QED
      BY <1>3, <1>6, <3>1, <3>2
  <2>3. ASSUME z > p[r + 1] PROVE FALSE
    <3>1. p[r + 1] \in cp + 1 .. z - 1
      <4> DEFINE e == p[r + 1]
      <4>1. e \in Nat /\ e >= cp + 1 /\ e < z
        BY <1>4, <1>9, <1>10a, <2>1, <2>3
      <4> HIDE DEF e
      <4>2. cp \in Nat
        BY <1>4, <1>9
      <4>3. e \in cp + 1 .. z - 1
        BY <2>1, <4>1, <4>2
      <4> QED
        BY <4>3 DEF e
    <3> QED
      BY <1>3, <1>8, <3>1
  <2> QED
    BY <1>9, <2>1, <2>2, <2>3
<1>12. SubSeq(m_buffer, cp + 1, z - 1) = str
  <2> DEFINE sub == SubSeq(m_buffer, cp + 1, z - 1)
             lo == cp + 1
             hi == z - 1
  <2>1. lo \in Int /\ hi \in Int /\ hi - lo + 1 = Len(str) /\ lo <= hi /\ lo >= 1 /\ hi <= len
    <3>1. lo = p[r] + 1 /\ hi = p[r] + Len(str) /\ p[r] + Len(str) + 1 + 2 <= len
      BY <1>4, <1>9, <1>11, <1>10a, SMTT(30)
    <3>2. p[r] \in Nat /\ Len(str) \in Nat \ {0} /\ len \in Nat
      BY <1>4, <1>9, <1>10a
    <3> DEFINE x == p[r]
               l == Len(str)
    <3> HIDE DEF lo, hi, x, l
    <3>3. lo = x + 1 /\ hi = x + l /\ l = Len(str) /\ x + l + 1 + 2 <= len
      BY <3>1 DEF x, l
    <3>4. x \in Nat /\ l \in Nat \ {0} /\ len \in Nat
      BY <3>2 DEF x, l
    <3>5. lo \in Int /\ hi \in Int /\ lo <= hi /\ lo >= 1
      BY <3>3, <3>4
    <3>6. hi - lo + 1 = l
      BY <3>3, <3>4
    <3>7. hi <= len
      BY <3>3, <3>4
    <3> QED
      BY <3>3, <3>5, <3>6, <3>7
  <2>2. \A b \in lo .. hi : m_buffer[b] \in Nat
    <3> SUFFICES ASSUME NEW b \in lo .. hi PROVE m_buffer[b] \in Nat
      OBVIOUS
    <3> HIDE DEF lo, hi
    <3>1. b \in 1 .. Len(m_buffer)
      BY <1>4, <2>1 DEF len
    <3> QED
      BY <1>1, <3>1, ElementOfSeq
  <2>3. \A b \in 1 .. Len(str) : lo + b - 1 = p[r] + b
    BY <1>4, <1>6, <1>9, SMTT(30)
  <2>4. sub = SubSeq(m_buffer, lo, hi)
    OBVIOUS
  <2> HIDE DEF sub, lo, hi
  <2>5. /\ sub \in Seq(Nat) /\ Len(sub) = Len(str)
        /\ \A b \in 1 .. Len(str) : sub[b] = m_buffer[lo + b - 1]
    BY <2>1, <2>2, <2>4, SubSeqProperties
  <2>6. \A b \in 1 .. Len(sub) : sub[b] = str[b]
    BY <1>8, <2>3, <2>5
  <2>7. sub = str
    BY <1>6, <2>5, <2>6, SeqEqual
  <2> QED
    BY <2>7 DEF sub
<1>13. /\ seen' \in Seq(Strings) /\ Len(seen') = r + 1 /\ seen'[r + 1] = str
       /\ \A k \in 1 .. r : seen'[k] = seen[k]
  <2>1. seen' = Append(seen, str)
    BY <1>3, <1>12
  <2> QED
    BY <1>1, <1>5, <2>1, AppendProperties DEF r
<1>14. \A k \in 1 .. r + 1 : seen'[k] = added[k]
  <2> SUFFICES ASSUME NEW k \in 1 .. r + 1 PROVE seen'[k] = added[k]
    OBVIOUS
  <2>1. CASE k = r + 1
    BY <1>13, <2>1 DEF str
  <2>2. CASE k \in 1 .. r
    BY <1>10, <1>13, <2>2
  <2> QED
    BY <1>4, <2>1, <2>2
<1>15. m_buffer[z + 1] = 0 <=> r + 1 = n
  <2>1. CASE r + 1 = n
    BY <1>2, <1>11, <2>1 DEF LaidOut, n
  <2>2. CASE r + 1 < n
    <3> DEFINE next == added[r + 2]
    <3>1. r + 2 \in 1 .. n /\ r + 2 - 1 = r + 1
      BY <1>4, <2>2
    <3>2. next \in Strings
      BY <1>1, <3>1, ElementOfSeq DEF n
    <3>3. Len(next) \in Nat \ {0} /\ next[1] \in Nat \ {0}
      <4>1. /\ Len(next) \in Nat \ {0} /\ \A b \in 1 .. Len(next) : next[b] \in Nat \ {0}
        BY <3>2, StringType
      <4>2. 1 \in 1 .. Len(next)
        BY <4>1
      <4> QED
        BY <4>1, <4>2
    <3>4. \A b \in 1 .. Len(next) : m_buffer[p[r + 1] + b] = next[b]
      <4> DEFINE g == r + 2
      <4>1. \A k \in 1 .. n : \A b \in 1 .. Len(added[k]) : m_buffer[p[k - 1] + b] = added[k][b]
        BY <1>2 DEF LaidOut, n
      <4>2. g \in 1 .. n /\ g - 1 = r + 1 /\ next = added[g]
        BY <1>4, <3>1
      <4> HIDE DEF g, next
      <4>3. \A b \in 1 .. Len(added[g]) : m_buffer[p[g - 1] + b] = added[g][b]
        BY <4>1, <4>2, Zenon
      <4> QED
        BY <4>2, <4>3
    <3> HIDE DEF next
    <3>5. m_buffer[p[r + 1] + 1] = next[1]
      BY <3>1, <3>3, <3>4
    <3> QED
      BY <1>4, <1>11, <2>2, <3>3, <3>5
  <2> QED
    BY <1>4, <2>1, <2>2
<1>16. LaidOut(p)'
  BY <1>1, <1>2 DEF LaidOut
<1>17. Follows(p)'
  <2>1. Len(seen') <= Len(added') /\ cp' = p[Len(seen')]
    BY <1>1, <1>3, <1>4, <1>11, <1>13 DEF n
  <2>2. \A k \in 1 .. Len(seen') : seen'[k] = added'[k]
    BY <1>1, <1>13, <1>14
  <2>3. pc' = IF r + 1 = n THEN "done" ELSE "read"
    BY <1>3, <1>15
  <2>4. /\ pc' # "write"
        /\ pc' = "read" => Len(seen') < Len(added')
        /\ pc' = "done" => Len(seen') = Len(added')
    BY <1>1, <1>4, <1>13, <2>3 DEF n
  <2> QED
    BY <2>1, <2>2, <2>4 DEF Follows
<1>18. pc' \in {"write", "read", "done"}
  BY <1>3
<1> QED
  BY <1>1, <1>2, <1>13, <1>16, <1>17, <1>18 DEF EnvInv

LEMMA EnvStep ==
  ASSUME EnvInv, E!Next \/ UNCHANGED <<envVars, pc>>
  PROVE  EnvInv'
<1>1. CASE \E str \in Strings : E!addString(str)
  BY <1>1, EnvAdd
<1>2. CASE E!kernenv_next
  BY <1>2, EnvRead
<1>3. CASE E!handOver
  <2>1. PICK p \in [0 .. Len(added) -> 0 .. Len(m_buffer)] : LaidOut(p) /\ Follows(p)
    BY DEF EnvInv
  <2>2. /\ added \in Seq(Strings) /\ seen \in Seq(Strings) /\ Len(added) \in Nat /\ Len(seen) = 0
        /\ pc = "write" /\ pc' = (IF m_buffer[1] = 0 THEN "done" ELSE "read")
        /\ UNCHANGED <<m_buffer, m_count, added, cp, seen>>
    BY <1>3, <2>1 DEF EnvInv, E!handOver, Follows
  <2>3. m_buffer[1] = 0 <=> Len(added) = 0
    <3>1. CASE Len(added) = 0
      BY <2>1, <3>1 DEF LaidOut
    <3>2. CASE Len(added) # 0
      <4> DEFINE str == added[1]
      <4>1. 1 \in 1 .. Len(added)
        BY <2>2, <3>2
      <4>2. str \in Strings
        BY <2>2, <4>1, ElementOfSeq
      <4>3. 1 \in 1 .. Len(str) /\ str[1] # 0
        <5>1. Len(str) \in Nat \ {0} /\ \A b \in 1 .. Len(str) : str[b] \in Nat \ {0}
          BY <4>2, StringType
        <5>2. 1 \in 1 .. Len(str)
          BY <5>1
        <5> QED
          BY <5>1, <5>2
      <4>4. p[0] = 0 /\ \A b \in 1 .. Len(str) : m_buffer[p[1 - 1] + b] = str[b]
        BY <2>1, <4>1 DEF LaidOut
      <4> HIDE DEF str
      <4>5. m_buffer[1] = str[1]
        <5>1. m_buffer[p[1 - 1] + 1] = str[1]
          BY <4>3, <4>4
        <5>2. p[1 - 1] + 1 = 1
          BY <4>4
        <5> QED
          BY <5>1, <5>2
      <4> QED
        BY <3>2, <4>3, <4>5
    <3> QED
      BY <3>1, <3>2
  <2>4. LaidOut(p)'
    BY <2>1, <2>2 DEF LaidOut
  <2>5. Follows(p)'
    BY <2>1, <2>2, <2>3 DEF Follows
  <2> QED
    BY <2>1, <2>2, <2>4, <2>5 DEF EnvInv
<1>4. CASE E!Over \/ UNCHANGED <<envVars, pc>>
  <2>1. UNCHANGED <<m_buffer, m_count, added, pc, cp, seen>>
    BY <1>4 DEF E!Over, E!vars, envVars
  <2>2. PICK p \in [0 .. Len(added) -> 0 .. Len(m_buffer)] : LaidOut(p) /\ Follows(p)
    BY DEF EnvInv
  <2>3. LaidOut(p)' /\ Follows(p)'
    BY <2>1, <2>2 DEF LaidOut, Follows
  <2> QED
    BY <2>1, <2>2, <2>3 DEF EnvInv
<1> QED
  BY <1>1, <1>2, <1>3, <1>4 DEF E!Next

LEMMA EnvIsRead == EnvInv => E!StringsRead
<1> SUFFICES ASSUME EnvInv PROVE E!StringsRead
  OBVIOUS
<1>1. PICK p \in [0 .. Len(added) -> 0 .. Len(m_buffer)] : LaidOut(p) /\ Follows(p)
  BY DEF EnvInv
<1>2. /\ added \in Seq(Strings) /\ seen \in Seq(Strings)
      /\ Len(seen) \in Nat /\ Len(added) \in Nat /\ Len(seen) <= Len(added)
      /\ \A k \in 1 .. Len(seen) : seen[k] = added[k]
      /\ pc = "done" => Len(seen) = Len(added)
  BY <1>1 DEF EnvInv, Follows
<1>3. pc = "done" => seen = added
  BY <1>2, SeqEqual
<1>4. E!IsPrefix(seen, added)
  <2> DEFINE a == SubSeq(seen, 1, Len(seen))
             b == SubSeq(added, 1, Len(seen))
             n == Len(seen)
  <2>1. \A k \in 1 .. n : seen[k] \in Strings /\ added[k] \in Strings
    BY <1>2, ElementOfSeq
  <2>2. 1 \in Int /\ n \in Int /\ n - 1 + 1 = n /\ \A k \in 1 .. n : 1 + k - 1 = k
    BY <1>2
  <2>3. a = seen
    BY <1>2, SubSeqFull
  <2>4. b \in Seq(Strings) /\ Len(b) = n /\ \A k \in 1 .. n : b[k] = added[k]
    <3>1. \A k \in 1 .. n : added[k] \in Strings
      BY <2>1
    <3>2. b = SubSeq(added, 1, n)
      OBVIOUS
    <3> HIDE DEF b, n
    <3>3. /\ b \in Seq(Strings) /\ Len(b) = IF 1 <= n THEN n - 1 + 1 ELSE 0
          /\ \A k \in 1 .. n - 1 + 1 : b[k] = added[1 + k - 1]
      BY <2>2, <3>1, <3>2, SubSeqProperties
    <3>4. n \in Nat
      BY <1>2 DEF n
    <3> QED
      BY <2>2, <3>3, <3>4
  <2> HIDE DEF a, b
  <2>5. seen = b
    BY <1>2, <2>4, SeqEqual
  <2> QED
    BY <1>2, <2>3, <2>5 DEF E!IsPrefix, a, b
<1> QED
  BY <1>3, <1>4 DEF E!StringsRead

\* Whatever strings are added, and however many: FreeBSD reads all of them, whole and in
\* order, and no terminator is taken for the end.
THEOREM EveryStringRead == Spec => []StringsRead
<1> DEFINE Inv == subject = "env" => EnvInv
<1>1. Init => Inv
  BY EnvInit DEF Init
<1>2. Inv /\ [Next]_vars => Inv'
  BY EnvStep, OthersStutter
<1>3. Inv => StringsRead
  BY EnvIsRead DEF StringsRead
<1> QED
  BY <1>1, <1>2, <1>3, PTL DEF Spec

-----------------------------------------------------------------------------
(* The kernel                                                              *)

\* The program headers dealt with that are loaded.
Loaded == {n \in 1 .. i : kernel.phdr[n].type = "LOAD"}

\* The image ends where one of the segments does, and none ends behind it.
Ends(top) ==
  /\ DOMAIN m_kernblock = 0 .. top - 1
  /\ \A n \in Loaded : K!end(kernel.phdr[n]) <= top

Segments ==
  \A n \in Loaded : \A k \in 0 .. kernel.phdr[n].memsz - 1 :
    m_kernblock[K!paddr(kernel.phdr[n]) + k]
      = IF k < kernel.phdr[n].filesz THEN K!File(kernel.phdr[n].offset + k) ELSE K!Zero

ImageInv ==
  /\ kernel \in Kernels /\ i \in 0 .. Len(kernel.phdr)
  /\ \E top \in {0} \cup {K!end(kernel.phdr[n]) : n \in Loaded} : Ends(top)
  /\ Segments

\* What is known of the program headers.
LEMMA HeadersInOrder ==
  ASSUME kernel \in Kernels, NEW n \in 1 .. Len(kernel.phdr)
  PROVE  /\ kernel.phdr[n].filesz \in Nat /\ kernel.phdr[n].memsz \in Nat
         /\ kernel.phdr[n].filesz <= kernel.phdr[n].memsz /\ kernel.phdr[n].offset \in Nat
         /\ K!paddr(kernel.phdr[n]) \in Nat
         /\ K!end(kernel.phdr[n]) = K!paddr(kernel.phdr[n]) + kernel.phdr[n].memsz
         /\ kernel.phdr[n].vaddr - KERNBASE - Hole = K!paddr(kernel.phdr[n])
         /\ KERNBASE \in Nat /\ Hole \in Nat /\ kernel.phdr[n].vaddr \in Nat
         /\ \A m \in 1 .. n - 1 :
              kernel.phdr[m].type = "LOAD" /\ kernel.phdr[n].type = "LOAD"
                => K!end(kernel.phdr[m]) <= K!paddr(kernel.phdr[n])
<1>1. K!WellFormed(kernel) /\ KERNBASE \in Nat /\ Hole \in Nat
  BY BlocksAssumption DEF K!ImageAssumption
<1>2. kernel.phdr \in Seq(K!ProgramHeader) /\ DOMAIN kernel.phdr = 1 .. Len(kernel.phdr)
  BY <1>1 DEF K!WellFormed
<1>3. \A m \in 1 .. Len(kernel.phdr) :
        /\ kernel.phdr[m].vaddr \in Nat /\ kernel.phdr[m].memsz \in Nat
        /\ kernel.phdr[m].filesz \in Nat /\ kernel.phdr[m].offset \in Nat
  <2> SUFFICES ASSUME NEW m \in 1 .. Len(kernel.phdr)
               PROVE  /\ kernel.phdr[m].vaddr \in Nat /\ kernel.phdr[m].memsz \in Nat
                      /\ kernel.phdr[m].filesz \in Nat /\ kernel.phdr[m].offset \in Nat
    OBVIOUS
  <2>1. kernel.phdr[m] \in K!ProgramHeader
    BY <1>2, ElementOfSeq
  <2> QED
    BY <2>1 DEF K!ProgramHeader
<1>4. /\ kernel.phdr[n].filesz <= kernel.phdr[n].memsz
      /\ kernel.phdr[n].vaddr >= KERNBASE + Hole
  BY <1>1, <1>2 DEF K!WellFormed
<1>5. ASSUME NEW m \in 1 .. n - 1, kernel.phdr[m].type = "LOAD", kernel.phdr[n].type = "LOAD"
      PROVE  K!end(kernel.phdr[m]) <= K!paddr(kernel.phdr[n])
  <2>1. m \in 1 .. Len(kernel.phdr) /\ m < n
    OBVIOUS
  <2>2. kernel.phdr[m].vaddr + kernel.phdr[m].memsz <= kernel.phdr[n].vaddr
    BY <1>1, <1>2, <1>5, <2>1 DEF K!WellFormed
  <2> QED
    <3>1. /\ kernel.phdr[m].vaddr \in Nat /\ kernel.phdr[m].memsz \in Nat
          /\ kernel.phdr[n].vaddr \in Nat /\ KERNBASE \in Nat /\ Hole \in Nat
      BY <1>1, <1>3, <2>1
    <3>2. \A u, z, v, b, h \in Nat : u + z <= v => u - b - h + z <= v - b - h
      OBVIOUS
    <3> QED
      BY <2>2, <3>1, <3>2 DEF K!end, K!paddr
<1> QED
  BY <1>1, <1>3, <1>4, <1>5, SMTT(30) DEF K!end, K!paddr

LEMMA ImageInit == K!Init => ImageInv
<1> SUFFICES ASSUME K!Init PROVE ImageInv
  OBVIOUS
<1>1. kernel \in Kernels /\ i = 0 /\ m_kernblock = [b \in 0 .. -1 |-> K!Zero]
  BY DEF K!Init
<1>2. kernel.phdr \in Seq(K!ProgramHeader)
  BY <1>1, BlocksAssumption DEF K!ImageAssumption, K!WellFormed
<1>3. i \in 0 .. Len(kernel.phdr) /\ Loaded = {}
  BY <1>1, <1>2 DEF Loaded
<1>4. DOMAIN m_kernblock = 0 .. 0 - 1
  BY <1>1
<1> QED
  BY <1>1, <1>3, <1>4 DEF ImageInv, Ends, Segments

\* A segment is put behind all earlier ones.
LEMMA LoadSegment ==
  ASSUME ImageInv, K!loadSegment
  PROVE  ImageInv'
<1> DEFINE p == kernel.phdr[i + 1]
           lo == K!paddr(p)
           hi == K!end(p)
<1>1. /\ kernel \in Kernels /\ i \in Nat /\ i < Len(kernel.phdr) /\ Len(kernel.phdr) \in Nat
      /\ kernel' = kernel /\ i' = i + 1 /\ i + 1 \in 1 .. Len(kernel.phdr)
  <2>1. kernel \in Kernels /\ i \in 0 .. Len(kernel.phdr) /\ i < Len(kernel.phdr)
        /\ kernel' = kernel /\ i' = i + 1
    BY DEF ImageInv, K!loadSegment
  <2>2. kernel.phdr \in Seq(K!ProgramHeader)
    BY <2>1, BlocksAssumption DEF K!ImageAssumption, K!WellFormed
  <2> QED
    BY <2>1, <2>2
<1>2. m_kernblock' = IF p.type # "LOAD" THEN m_kernblock
                     ELSE K!memcpy(K!resize(m_kernblock, hi), lo, p.offset, p.filesz)
  BY DEF K!loadSegment
<1>3. /\ p.filesz \in Nat /\ p.memsz \in Nat /\ p.filesz <= p.memsz /\ p.offset \in Nat
      /\ lo \in Nat /\ hi = lo + p.memsz
  BY <1>1, HeadersInOrder
<1>4. ASSUME NEW n \in Loaded
      PROVE  /\ n \in 1 .. Len(kernel.phdr) /\ n \in 1 .. i
             /\ kernel.phdr[n].memsz \in Nat /\ K!paddr(kernel.phdr[n]) \in Nat
             /\ K!end(kernel.phdr[n]) = K!paddr(kernel.phdr[n]) + kernel.phdr[n].memsz
  <2>1. n \in 1 .. Len(kernel.phdr) /\ n \in 1 .. i
    BY <1>1 DEF Loaded
  <2> QED
    BY <1>1, <2>1, HeadersInOrder
<1>5. PICK top \in {0} \cup {K!end(kernel.phdr[n]) : n \in Loaded} : Ends(top)
  BY DEF ImageInv
<1>6. top \in Nat
  BY <1>4, <1>5
<1>7. CASE p.type # "LOAD"
  <2>1. Loaded' = Loaded
    BY <1>1, <1>7 DEF Loaded
  <2>2. m_kernblock' = m_kernblock
    BY <1>2, <1>7
  <2>3. Ends(top)'
    BY <1>1, <1>5, <2>1, <2>2 DEF Ends, K!end
  <2>4. Segments'
    BY <1>1, <2>1, <2>2 DEF ImageInv, Segments, K!paddr, K!File, K!Zero
  <2>5. top \in ({0} \cup {K!end(kernel.phdr[n]) : n \in Loaded})'
    BY <1>1, <1>5, <2>1 DEF K!end
  <2>6. i' \in 0 .. Len(kernel'.phdr)
    BY <1>1
  <2> QED
    BY <1>1, <2>3, <2>4, <2>5, <2>6 DEF ImageInv
<1>8. CASE p.type = "LOAD"
  <2>1. Loaded' = Loaded \cup {i + 1}
    BY <1>1, <1>8 DEF Loaded
  <2>2. top <= lo
    <3>1. ASSUME NEW n \in Loaded PROVE K!end(kernel.phdr[n]) <= lo
      <4>1. n \in 1 .. i + 1 - 1 /\ kernel.phdr[n].type = "LOAD"
        BY <1>1, <1>4 DEF Loaded
      <4> QED
        BY <1>1, <1>8, <4>1, HeadersInOrder
    <3> QED
      BY <1>3, <1>5, <3>1
  <2>3. DOMAIN m_kernblock = 0 .. top - 1
    BY <1>5 DEF Ends
  <2> HIDE DEF lo, hi
  <2> DEFINE r == K!resize(m_kernblock, hi)
  <2>4. /\ DOMAIN r = 0 .. hi - 1
        /\ \A b \in 0 .. hi - 1 : r[b] = IF b \in 0 .. top - 1 THEN m_kernblock[b] ELSE K!Zero
    BY <2>3 DEF K!resize
  <2> HIDE DEF r
  <2>5. m_kernblock' = [b \in 0 .. hi - 1 |->
                          IF lo <= b /\ b < lo + p.filesz THEN K!File(p.offset + b - lo) ELSE r[b]]
    BY <1>2, <1>8, <2>4 DEF K!memcpy, r
  <2>6. DOMAIN m_kernblock' = 0 .. hi - 1
    BY <2>5
  <2>7. \A b \in 0 .. hi - 1 :
          m_kernblock'[b] = IF lo <= b /\ b < lo + p.filesz THEN K!File(p.offset + b - lo) ELSE r[b]
    BY <2>5
  <2>8. \A n \in Loaded \cup {i + 1} : K!end(kernel.phdr[n]) <= hi
    <3>1. ASSUME NEW n \in Loaded PROVE K!end(kernel.phdr[n]) <= hi
      <4>1. K!end(kernel.phdr[n]) <= top
        BY <1>5 DEF Ends
      <4>2. K!end(kernel.phdr[n]) \in Nat
        BY <1>4
      <4> QED
        BY <1>3, <1>6, <2>2, <4>1, <4>2
    <3>2. K!end(kernel.phdr[i + 1]) <= hi
      BY <1>3 DEF hi
    <3> QED
      BY <3>1, <3>2
  <2>9. ASSUME NEW n \in Loaded \cup {i + 1}, NEW k \in 0 .. kernel.phdr[n].memsz - 1
        PROVE  m_kernblock'[K!paddr(kernel.phdr[n]) + k]
                 = IF k < kernel.phdr[n].filesz THEN K!File(kernel.phdr[n].offset + k) ELSE K!Zero
    <3>1. CASE n = i + 1
      <4> DEFINE b == lo + k
      <4>1. K!paddr(kernel.phdr[n]) + k = b /\ k \in 0 .. p.memsz - 1
        BY <2>9, <3>1 DEF lo
      <4>2. /\ b \in 0 .. hi - 1 /\ ~(b \in 0 .. top - 1) /\ b - lo = k
            /\ (b < lo + p.filesz <=> k < p.filesz) /\ lo <= b /\ p.offset + b - lo = p.offset + k
        BY <1>3, <1>6, <2>2, <4>1
      <4> HIDE DEF b
      <4>3. r[b] = K!Zero
        BY <2>4, <4>2
      <4> QED
        BY <2>7, <3>1, <4>1, <4>2, <4>3
    <3>2. CASE n \in Loaded
      <4> DEFINE b == K!paddr(kernel.phdr[n]) + k
      <4>1. /\ kernel.phdr[n].memsz \in Nat /\ K!paddr(kernel.phdr[n]) \in Nat
            /\ K!end(kernel.phdr[n]) = K!paddr(kernel.phdr[n]) + kernel.phdr[n].memsz
            /\ K!end(kernel.phdr[n]) <= top
        BY <1>4, <1>5, <3>2 DEF Ends
      <4>2. b \in 0 .. top - 1 /\ b < lo /\ b \in 0 .. hi - 1
        BY <1>3, <1>6, <2>2, <4>1
      <4>3. m_kernblock[b]
              = IF k < kernel.phdr[n].filesz THEN K!File(kernel.phdr[n].offset + k) ELSE K!Zero
        BY <3>2 DEF ImageInv, Segments
      <4> HIDE DEF b
      <4>4. m_kernblock'[b] = r[b]
        BY <1>3, <2>7, <4>2
      <4>5. r[b] = m_kernblock[b]
        BY <2>4, <4>2
      <4> QED
        BY <4>3, <4>4, <4>5 DEF b
    <3> QED
      BY <3>1, <3>2
  <2>10. Segments'
    BY <1>1, <2>1, <2>9 DEF Segments, K!paddr, K!File, K!Zero
  <2>11. PICK e : e = hi
    OBVIOUS
  <2>12. Ends(e)'
    BY <1>1, <2>1, <2>6, <2>8, <2>11 DEF Ends, K!end
  <2>13. e \in ({0} \cup {K!end(kernel.phdr[n]) : n \in Loaded})'
    <3>1. e = K!end(kernel'.phdr[i + 1]) /\ i + 1 \in Loaded'
      BY <1>1, <2>1, <2>11 DEF hi
    <3> QED
      BY <3>1 DEF K!end
  <2>14. i' \in 0 .. Len(kernel'.phdr)
    BY <1>1
  <2> QED
    BY <1>1, <2>10, <2>12, <2>13, <2>14 DEF ImageInv
<1> QED
  BY <1>7, <1>8

LEMMA ImageKept ==
  ASSUME ImageInv, UNCHANGED <<kernel, i, m_kernblock>>
  PROVE  ImageInv'
<1>1. PICK top \in {0} \cup {K!end(kernel.phdr[n]) : n \in Loaded} : Ends(top)
  BY DEF ImageInv
<1>2. Loaded' = Loaded
  BY DEF Loaded
<1>3. Ends(top)'
  BY <1>1, <1>2 DEF Ends, K!end
<1>4. top \in ({0} \cup {K!end(kernel.phdr[n]) : n \in Loaded})'
  BY <1>1, <1>2 DEF K!end
<1>5. Segments'
  BY <1>2 DEF ImageInv, Segments, K!paddr, K!File, K!Zero
<1> QED
  BY <1>3, <1>4, <1>5 DEF ImageInv

LEMMA ImageStep ==
  ASSUME ImageInv, K!Next \/ UNCHANGED <<kernelVars, pc>>
  PROVE  ImageInv'
<1>1. CASE K!loadSegment
  BY <1>1, LoadSegment
<1>2. CASE K!segmentsLoaded \/ K!symtab \/ K!strtab \/ K!parse_symbols \/ K!Over
           \/ UNCHANGED <<kernelVars, pc>>
  <2>1. UNCHANGED <<kernel, i, m_kernblock>>
    BY <1>2 DEF K!segmentsLoaded, K!symtab, K!strtab, K!addSection, K!parse_symbols, K!Over,
       K!vars, kernelVars
  <2> QED
    BY <2>1, ImageKept
<1> QED
  BY <1>1, <1>2 DEF K!Next, K!Step

LEMMA ImageIsDescribed == ImageInv => K!ImageAsDescribed
<1> SUFFICES ASSUME ImageInv,
                    NEW n \in 1 .. i, kernel.phdr[n].type = "LOAD",
                    NEW k \in 0 .. kernel.phdr[n].memsz - 1
             PROVE  K!InMemory(kernel.phdr[n].vaddr + k)
                      = IF k < kernel.phdr[n].filesz THEN K!File(kernel.phdr[n].offset + k) ELSE K!Zero
  BY DEF K!ImageAsDescribed
<1>1. n \in Loaded /\ n \in 1 .. Len(kernel.phdr) /\ kernel \in Kernels
  BY DEF ImageInv, Loaded
<1>2. PICK top \in {0} \cup {K!end(kernel.phdr[m]) : m \in Loaded} : Ends(top)
  BY DEF ImageInv
<1> DEFINE v == kernel.phdr[n].vaddr
           b == K!paddr(kernel.phdr[n]) + k
<1>3. /\ kernel.phdr[n].memsz \in Nat /\ K!paddr(kernel.phdr[n]) \in Nat
      /\ K!end(kernel.phdr[n]) = K!paddr(kernel.phdr[n]) + kernel.phdr[n].memsz
      /\ v - KERNBASE - Hole = K!paddr(kernel.phdr[n])
      /\ KERNBASE \in Nat /\ Hole \in Nat /\ v \in Nat
  BY <1>1, HeadersInOrder
<1>4. K!end(kernel.phdr[n]) <= top /\ DOMAIN m_kernblock = 0 .. top - 1
  BY <1>1, <1>2 DEF Ends
<1>5. top \in Nat
  <2>1. ASSUME NEW m \in Loaded PROVE K!end(kernel.phdr[m]) \in Nat
    <3>1. m \in 1 .. Len(kernel.phdr)
      BY DEF Loaded, ImageInv
    <3>2. K!paddr(kernel.phdr[m]) \in Nat /\ kernel.phdr[m].memsz \in Nat
          /\ K!end(kernel.phdr[m]) = K!paddr(kernel.phdr[m]) + kernel.phdr[m].memsz
      BY <1>1, <3>1, HeadersInOrder
    <3> QED
      BY <3>2
  <2> QED
    BY <1>2, <2>1
<1>6. b \in DOMAIN m_kernblock
  <2>1. k \in Nat /\ k < kernel.phdr[n].memsz
    BY <1>3
  <2>2. b \in Nat /\ b < K!end(kernel.phdr[n])
    BY <1>3, <2>1
  <2>3. K!end(kernel.phdr[n]) \in Nat
    BY <1>3
  <2> HIDE DEF b
  <2>4. b \in 0 .. top - 1
    BY <1>4, <1>5, <2>2, <2>3
  <2> QED
    BY <1>4, <2>4
<1>7. (v + k) - KERNBASE - Hole = b
  BY <1>3
<1>8. m_kernblock[b]
        = IF k < kernel.phdr[n].filesz THEN K!File(kernel.phdr[n].offset + k) ELSE K!Zero
  BY <1>1 DEF ImageInv, Segments
<1> HIDE DEF b
<1>9. K!InMemory(v + k) = m_kernblock[b]
  BY <1>6, <1>7 DEF K!InMemory
<1> QED
  BY <1>8, <1>9

\* For every kernel with its program headers in order, however many: what is copied
\* stays, byte by byte, and bss is zero.
THEOREM KernelInMemory == Spec => []ImageAsDescribed
<1> DEFINE Inv == subject = "kernel" => ImageInv
<1>1. Init => Inv
  BY ImageInit DEF Init
<1>2. Inv /\ [Next]_vars => Inv'
  BY ImageStep, OthersStutter
<1>3. Inv => ImageAsDescribed
  BY ImageIsDescribed DEF ImageAsDescribed
<1> QED
  BY <1>1, <1>2, <1>3, PTL DEF Spec

-----------------------------------------------------------------------------
(* The symbols                                                             *)

Cells == {"zero", "file", "long"} \X Int \X Int

Section(type) == kernel.shdr[K!First(type)]
Length(type)  == LONG + K!Roundup(Section(type).size)

\* Behind offset o there are the section's size and its bytes.
Table(o, type) ==
  /\ \A j \in 1 .. LONG : m_sym[o + j] = K!Long(Section(type).size, j)
  /\ \A k \in 1 .. Section(type).size : m_sym[o + LONG + k] = K!File(Section(type).offset + k - 1)

\* What m_sym holds: one table, or both.
Alone(type) == m_sym \in Seq(Cells) /\ Len(m_sym) = Length(type) /\ Table(0, type)
Both ==
  /\ m_sym \in Seq(Cells) /\ Len(m_sym) = Length("SYMTAB") + Length("STRTAB")
  /\ Table(0, "SYMTAB") /\ Table(Length("SYMTAB"), "STRTAB")

SymInv ==
  /\ kernel \in Kernels
  /\ pc \in {"phdr", "symtab", "strtab", "parse", "done", "aborted"}
  /\ pc \in {"phdr", "symtab"} => m_sym = <<>>
  /\ pc = "strtab" => IF K!Has("SYMTAB") THEN Alone("SYMTAB") ELSE m_sym = <<>>
  /\ pc = "parse" => \/ K!Has("SYMTAB") /\ K!Has("STRTAB") /\ Both
                     \/ K!Has("SYMTAB") /\ ~K!Has("STRTAB") /\ Alone("SYMTAB")
                     \/ ~K!Has("SYMTAB") /\ K!Has("STRTAB") /\ Alone("STRTAB")
  /\ K!SymbolsFound

LEMMA SectionType ==
  ASSUME kernel \in Kernels, NEW type, K!Has(type)
  PROVE  /\ K!First(type) \in DOMAIN kernel.shdr
         /\ Section(type).size \in Nat /\ Section(type).offset \in Nat
         /\ LONG \in Nat \ {0}
<1>1. K!WellFormed(kernel) /\ LONG \in Nat \ {0}
  BY BlocksAssumption DEF K!ImageAssumption
<1>2. kernel.shdr \in Seq(K!SectionHeader)
  BY <1>1 DEF K!WellFormed
<1>3. DOMAIN kernel.shdr = 1 .. Len(kernel.shdr) /\ Len(kernel.shdr) \in Nat
  BY <1>2, LenProperties
<1> DEFINE S == {n \in DOMAIN kernel.shdr : kernel.shdr[n].type = type}
<1>4. S \in SUBSET Nat /\ S # {}
  BY <1>3 DEF K!Has
<1>5. PICK n \in S : \A m \in S : n <= m
  BY <1>4, LeastNatural
<1>6. \A m \in 1 .. n - 1 : kernel.shdr[m].type # type
  <2> SUFFICES ASSUME NEW m \in 1 .. n - 1, kernel.shdr[m].type = type PROVE FALSE
    OBVIOUS
  <2>1. m \in DOMAIN kernel.shdr /\ m < n
    BY <1>3, <1>5
  <2>2. m \in S
    BY <2>1
  <2> QED
    BY <1>3, <1>5, <2>1, <2>2
<1>7. K!First(type) \in DOMAIN kernel.shdr
  BY <1>5, <1>6 DEF K!First
<1>8. Section(type) \in K!SectionHeader
  BY <1>2, <1>3, <1>7, ElementOfSeq DEF Section
<1> QED
  BY <1>1, <1>7, <1>8 DEF K!SectionHeader

\* What addSymTab and addStrTab append: the size, the table, and what aligns the end.
LEMMA Added ==
  ASSUME kernel \in Kernels, NEW type, K!Has(type),
         m_sym \in Seq(Cells), Len(m_sym) % LONG = 0
  PROVE  LET all == K!addTab(Section(type))
             n   == Section(type).size
         IN  /\ all \in Seq(Cells) /\ Len(all) = Len(m_sym) + Length(type)
             /\ \A b \in 1 .. Len(m_sym) : all[b] = m_sym[b]
             /\ \A j \in 1 .. LONG : all[Len(m_sym) + j] = K!Long(n, j)
             /\ \A k \in 1 .. n : all[Len(m_sym) + LONG + k] = K!File(Section(type).offset + k - 1)
<1> DEFINE n == Section(type).size
           o == Section(type).offset
           old == Len(m_sym)
           longs == [j \in 1 .. LONG |-> K!Long(n, j)]
           files == [b \in 1 .. n |-> K!File(o + b - 1)]
           a  == m_sym \o longs
           ab == a \o files
           pad == (LONG - (Len(ab) % LONG)) % LONG
           zeroes == [b \in 1 .. pad |-> K!Zero]
           all == ab \o zeroes
<1>1. n \in Nat /\ o \in Nat /\ LONG \in Nat \ {0} /\ LONG \in Nat /\ old \in Nat
  BY SectionType
<1>2. K!addTab(Section(type)) = all
  BY DEF K!addTab, K!align
<1>3. Length(type) = LONG + K!Roundup(n)
  BY DEF Length
<1> HIDE DEF n, o
<1>4. longs \in Seq(Cells) /\ Len(longs) = LONG /\ \A j \in 1 .. LONG : longs[j] = K!Long(n, j)
  <2>1. \A j \in 1 .. LONG : K!Long(n, j) \in Cells
    BY <1>1 DEF K!Long, K!Zero, Cells
  <2>2. longs \in [1 .. LONG -> Cells]
    BY <2>1
  <2>3. \A j \in 1 .. LONG : longs[j] = K!Long(n, j)
    OBVIOUS
  <2> HIDE DEF longs
  <2> QED
    BY <1>1, <2>2, <2>3
<1>5. files \in Seq(Cells) /\ Len(files) = n /\ \A k \in 1 .. n : files[k] = K!File(o + k - 1)
  <2>1. \A k \in 1 .. n : K!File(o + k - 1) \in Cells
    BY <1>1 DEF K!File, Cells
  <2>2. files \in [1 .. n -> Cells]
    BY <2>1
  <2>3. \A k \in 1 .. n : files[k] = K!File(o + k - 1)
    OBVIOUS
  <2> HIDE DEF files
  <2> QED
    BY <1>1, <2>2, <2>3
<1> HIDE DEF longs, files
<1>6. /\ a \in Seq(Cells) /\ Len(a) = Len(m_sym) + Len(longs)
      /\ \A k \in 1 .. Len(m_sym) + Len(longs) :
           a[k] = IF k <= Len(m_sym) THEN m_sym[k] ELSE longs[k - Len(m_sym)]
  <2>1. longs \in Seq(Cells)
    BY <1>4
  <2> QED
    BY <2>1, ConcatProperties, Zenon
<1> HIDE DEF a
<1>7. /\ ab \in Seq(Cells) /\ Len(ab) = Len(a) + Len(files)
      /\ \A k \in 1 .. Len(a) + Len(files) :
           ab[k] = IF k <= Len(a) THEN a[k] ELSE files[k - Len(a)]
  <2>1. files \in Seq(Cells) /\ a \in Seq(Cells)
    BY <1>5, <1>6
  <2> QED
    BY <2>1, ConcatProperties, Zenon
<1> HIDE DEF ab, old
<1>8. Len(a) = old + LONG /\ Len(ab) = (old + LONG) + n
  BY <1>1, <1>4, <1>5, <1>6, <1>7 DEF old
<1>9. (old + LONG) % LONG = 0 /\ old + LONG \in Nat
  <2>1. LONG % LONG = 0
    <3>1. 1 * LONG = LONG
      BY <1>1
    <3>2. (1 * LONG) % LONG = 0
      BY <1>1, MultipleAligned
    <3> QED
      BY <3>1, <3>2
  <2> QED
    <3>1. old % LONG = 0
      BY DEF old
    <3>2. (old + LONG) % LONG = 0
      BY <1>1, <2>1, <3>1, SumAligned
    <3> QED
      BY <1>1, <3>2
<1>10. /\ n + ((LONG - (((old + LONG) + n) % LONG)) % LONG) = ((n + LONG - 1) \div LONG) * LONG
       /\ (LONG - (((old + LONG) + n) % LONG)) % LONG \in Nat
  BY <1>1, <1>9, PadToMultiple
<1>11. pad \in Nat /\ n + pad = K!Roundup(n)
  BY <1>8, <1>10 DEF K!Roundup
<1> HIDE DEF pad
<1>12. zeroes \in Seq(Cells) /\ Len(zeroes) = pad
  <2>1. K!Zero \in Cells
    BY DEF K!Zero, Cells
  <2>2. zeroes \in [1 .. pad -> Cells]
    BY <2>1
  <2> HIDE DEF zeroes
  <2> QED
    BY <1>11, <2>2
<1> HIDE DEF zeroes
<1>13. /\ all \in Seq(Cells) /\ Len(all) = Len(ab) + Len(zeroes)
       /\ \A k \in 1 .. Len(ab) + Len(zeroes) :
            all[k] = IF k <= Len(ab) THEN ab[k] ELSE zeroes[k - Len(ab)]
  <2>1. ab \in Seq(Cells) /\ zeroes \in Seq(Cells)
    BY <1>7, <1>12
  <2> QED
    BY <2>1, ConcatProperties, Zenon
<1> HIDE DEF all
<1>14. Len(all) = old + Length(type)
  BY <1>1, <1>3, <1>8, <1>11, <1>12, <1>13
<1>15. \A k \in 1 .. old + LONG + n : all[k] = ab[k]
  BY <1>1, <1>8, <1>11, <1>12, <1>13
<1>16. \A k \in 1 .. old + LONG : ab[k] = a[k]
  BY <1>1, <1>5, <1>7, <1>8
<1>17. ASSUME NEW b \in 1 .. old PROVE all[b] = m_sym[b]
  <2>1. b \in 1 .. old + LONG /\ b \in 1 .. old + LONG + n
    BY <1>1
  <2>2. a[b] = m_sym[b]
    BY <1>1, <1>4, <1>6, <2>1 DEF old
  <2> QED
    BY <1>15, <1>16, <2>1, <2>2
<1>18. ASSUME NEW j \in 1 .. LONG PROVE all[old + j] = K!Long(n, j)
  <2> DEFINE b == old + j
  <2>1. b \in 1 .. old + LONG /\ b \in 1 .. old + LONG + n /\ ~(b <= old) /\ b - old = j
    BY <1>1
  <2> HIDE DEF b
  <2>2. a[b] = longs[b - old]
    BY <1>1, <1>4, <1>6, <2>1 DEF old
  <2> QED
    BY <1>4, <1>15, <1>16, <2>1, <2>2 DEF b
<1>19. ASSUME NEW k \in 1 .. n PROVE all[old + LONG + k] = K!File(o + k - 1)
  <2> DEFINE b == old + LONG + k
  <2>1. b \in 1 .. old + LONG + n /\ ~(b <= old + LONG) /\ b - (old + LONG) = k
    BY <1>1
  <2> HIDE DEF b
  <2>2. ab[b] = files[b - (old + LONG)]
    BY <1>1, <1>5, <1>7, <1>8, <2>1
  <2> QED
    BY <1>5, <1>15, <2>1, <2>2 DEF b
<1> QED
  BY <1>2, <1>13, <1>14, <1>17, <1>18, <1>19 DEF n, o, old

\* A table's place is aligned, and big enough for it.
LEMMA LengthType ==
  ASSUME kernel \in Kernels, NEW type, K!Has(type)
  PROVE  /\ Length(type) \in Nat /\ Length(type) % LONG = 0
         /\ LONG + Section(type).size <= Length(type)
         /\ K!Roundup(Section(type).size) \in Nat
<1> DEFINE n == Section(type).size
<1>1. n \in Nat /\ LONG \in Nat \ {0}
  BY SectionType
<1> HIDE DEF n
<1>2. 0 \in Nat /\ 0 % LONG = 0
  BY <1>1
<1>3. /\ K!Roundup(n) \in Nat /\ n <= K!Roundup(n) /\ K!Roundup(n) % LONG = 0
  BY <1>1, <1>2, PadToMultiple DEF K!Roundup
<1>4. LONG % LONG = 0
  <2>1. 1 * LONG = LONG
    BY <1>1
  <2>2. (1 * LONG) % LONG = 0
    BY <1>1, MultipleAligned
  <2> QED
    BY <2>1, <2>2
<1>5. (LONG + K!Roundup(n)) % LONG = 0
  BY <1>1, <1>3, <1>4, SumAligned
<1>6. Length(type) = LONG + K!Roundup(n)
  BY DEF Length, n
<1> QED
  BY <1>1, <1>3, <1>5, <1>6 DEF n

LEMMA SymInit == K!Init => SymInv
  BY DEF K!Init, SymInv, K!SymbolsFound

\* Where there is nothing yet, the table is alone.
LEMMA FirstTable ==
  ASSUME kernel \in Kernels, NEW type, K!Has(type), m_sym = <<>>, kernel' = kernel,
         m_sym' = K!addTab(Section(type))
  PROVE  Alone(type)' /\ Len(m_sym') # 0
<1> DEFINE n == Section(type).size
           all == K!addTab(Section(type))
<1>1. m_sym \in Seq(Cells) /\ Len(m_sym) = 0
  OBVIOUS
<1>2. n \in Nat /\ LONG \in Nat \ {0} /\ Length(type) \in Nat /\ LONG + n <= Length(type)
  BY SectionType, LengthType
<1>3. 0 % LONG = 0
  BY <1>2
<1>4. /\ all \in Seq(Cells) /\ Len(all) = Len(m_sym) + Length(type)
      /\ \A j \in 1 .. LONG : all[Len(m_sym) + j] = K!Long(n, j)
      /\ \A k \in 1 .. n : all[Len(m_sym) + LONG + k] = K!File(Section(type).offset + k - 1)
  BY <1>1, <1>3, Added
<1>5. Section(type)' = Section(type)
  BY DEF Section, K!First
<1>6. Length(type)' = Length(type)
  BY <1>5 DEF Length, K!Roundup
<1> QED
  BY <1>1, <1>2, <1>4, <1>5, <1>6 DEF Alone, Table, K!Long, K!Zero, K!File

\* Behind the first table, which is left alone, comes the second.
LEMMA SecondTable ==
  ASSUME kernel \in Kernels, K!Has("SYMTAB"), K!Has("STRTAB"), Alone("SYMTAB"),
         kernel' = kernel, m_sym' = K!addTab(Section("STRTAB"))
  PROVE  Both' /\ Len(m_sym') # 0
<1> DEFINE n == Section("STRTAB").size
           o == Section("STRTAB").offset
           size == Section("SYMTAB").size
           all == K!addTab(Section("STRTAB"))
           old == Len(m_sym)
<1>1. /\ m_sym \in Seq(Cells) /\ old = Length("SYMTAB")
      /\ \A j \in 1 .. LONG : m_sym[0 + j] = K!Long(size, j)
      /\ \A k \in 1 .. size : m_sym[0 + LONG + k] = K!File(Section("SYMTAB").offset + k - 1)
  BY DEF Alone, Table
<1>2. /\ size \in Nat /\ LONG \in Nat \ {0} /\ Length("SYMTAB") \in Nat
      /\ LONG + size <= Length("SYMTAB") /\ Length("SYMTAB") % LONG = 0
  BY SectionType, LengthType
<1>3. n \in Nat /\ Length("STRTAB") \in Nat /\ LONG + n <= Length("STRTAB")
  BY SectionType, LengthType
<1>4. Len(m_sym) % LONG = 0
  BY <1>1, <1>2
<1>5. /\ all \in Seq(Cells) /\ Len(all) = old + Length("STRTAB")
      /\ \A b \in 1 .. old : all[b] = m_sym[b]
      /\ \A j \in 1 .. LONG : all[old + j] = K!Long(n, j)
      /\ \A k \in 1 .. n : all[old + LONG + k] = K!File(o + k - 1)
  BY <1>1, <1>4, Added
<1>6. \A type : Section(type)' = Section(type)
  BY DEF Section, K!First
<1>7. \A type : Length(type)' = Length(type)
  BY <1>6 DEF Length, K!Roundup
<1>8. \A j \in 1 .. LONG : all[0 + j] = K!Long(size, j)
  <2> SUFFICES ASSUME NEW j \in 1 .. LONG PROVE all[0 + j] = K!Long(size, j)
    OBVIOUS
  <2>1. 0 + j \in 1 .. old
    BY <1>1, <1>2
  <2> QED
    BY <1>1, <1>5, <2>1
<1>9. \A k \in 1 .. size : all[0 + LONG + k] = K!File(Section("SYMTAB").offset + k - 1)
  <2> SUFFICES ASSUME NEW k \in 1 .. size
               PROVE all[0 + LONG + k] = K!File(Section("SYMTAB").offset + k - 1)
    OBVIOUS
  <2>1. 0 + LONG + k \in 1 .. old
    BY <1>1, <1>2
  <2> QED
    BY <1>1, <1>5, <2>1
<1>10. Table(0, "SYMTAB")'
  BY <1>6, <1>8, <1>9 DEF Table, K!Long, K!Zero, K!File
<1>11. Table(Length("SYMTAB"), "STRTAB")'
  BY <1>1, <1>5, <1>6, <1>7 DEF Table, K!Long, K!Zero, K!File
<1> QED
  BY <1>1, <1>2, <1>3, <1>5, <1>7, <1>10, <1>11 DEF Both

\* A number that is read is the number that is there.
LEMMA LongRead ==
  ASSUME kernel \in Kernels, m_sym \in Seq(Cells), NEW p \in Nat, NEW n, NEW m,
         p + LONG <= Len(m_sym), LONG \in Nat \ {0},
         \A j \in 1 .. LONG : m_sym[p + j] = K!Long(n, j)
  PROVE  K!LongAt(p, m) <=> m = n
<1> DEFINE q == p + 1 - 1
<1>1. q = p /\ q < Len(m_sym) /\ 1 \in 1 .. LONG /\ Len(m_sym) \in Nat
  BY LenProperties
<1>2. K!Byte(q) = m_sym[p + 1] /\ m_sym[p + 1] = K!Long(n, 1)
  BY <1>1 DEF K!Byte
<1>3. ASSUME K!LongAt(p, m) PROVE m = n
  <2>1. K!Byte(p + 1 - 1) = K!Long(m, 1)
    BY <1>1, <1>3, Zenon DEF K!LongAt
  <2>2. K!Long(m, 1) = K!Long(n, 1)
    BY <1>2, <2>1
  <2> QED
    BY <2>2 DEF K!Long, K!Zero
<1>4. ASSUME m = n PROVE K!LongAt(p, m)
  <2> SUFFICES ASSUME NEW j \in 1 .. LONG PROVE K!Byte(p + j - 1) = K!Long(m, j)
    BY DEF K!LongAt
  <2>1. p + j - 1 < Len(m_sym) /\ (p + j - 1) + 1 = p + j
    BY <1>1
  <2>2. K!Byte(p + j - 1) = m_sym[p + j]
    BY <2>1 DEF K!Byte
  <2> QED
    BY <1>4, <2>2
<1> QED
  BY <1>3, <1>4

\* Behind the end there are zeroes.
LEMMA ZeroRead ==
  ASSUME m_sym \in Seq(Cells), LONG \in Nat \ {0}, NEW m, K!LongAt(Len(m_sym), m)
  PROVE  m = 0
<1> DEFINE p == Len(m_sym)
           q == p + 1 - 1
<1>1. p \in Nat /\ q = p /\ ~(q < p) /\ 1 \in 1 .. LONG
  BY LenProperties
<1>2. K!Byte(q) = K!Zero
  BY <1>1 DEF K!Byte
<1>3. K!Byte(p + 1 - 1) = K!Long(m, 1)
  BY <1>1, Zenon DEF K!LongAt
<1> QED
  BY <1>2, <1>3 DEF K!Long, K!Zero

\* A table's bytes are the section's.
LEMMA TableRead ==
  ASSUME m_sym \in Seq(Cells), NEW type, NEW o \in Nat, Table(o, type),
         Section(type).size \in Nat, Section(type).offset \in Nat, LONG \in Nat \ {0},
         o + LONG + Section(type).size <= Len(m_sym)
  PROVE  K!Holds(o + LONG, Section(type).size, type)
<1> DEFINE n == Section(type).size
<1>1. Len(m_sym) \in Nat
  BY LenProperties
<1>2. ASSUME NEW k \in 0 .. n - 1 PROVE K!Byte(o + LONG + k) = K!File(Section(type).offset + k)
  <2> DEFINE h == k + 1
  <2>1. /\ h \in 1 .. n /\ h - 1 = k /\ o + LONG + h = (o + LONG + k) + 1
        /\ o + LONG + k < Len(m_sym)
    BY <1>1
  <2> HIDE DEF h
  <2>2. m_sym[o + LONG + h] = K!File(Section(type).offset + h - 1)
    BY <2>1 DEF Table
  <2>3. K!Byte(o + LONG + k) = m_sym[o + LONG + h]
    BY <2>1 DEF K!Byte
  <2>4. Section(type).offset + h - 1 = Section(type).offset + k
    <3>1. h = k + 1
      BY DEF h
    <3> QED
      BY <3>1
  <2> QED
    BY <2>2, <2>3, <2>4
<1> QED
  BY <1>2 DEF K!Holds, Section

\* Of two tables the reader learns both, and is at the end.
LEMMA BothRead ==
  ASSUME kernel \in Kernels, K!Has("SYMTAB"), K!Has("STRTAB"), Both, K!parse_symbols
  PROVE  /\ found'.tables
         /\ K!Holds(found'.symtab, found'.symcnt, "SYMTAB")
         /\ K!Holds(found'.strtab, found'.strcnt, "STRTAB")
         /\ found'.strtab + K!Roundup(found'.strcnt) = Len(m_sym)
<1> DEFINE s1 == Section("SYMTAB").size
           s2 == Section("STRTAB").size
           l1 == Length("SYMTAB")
           l2 == Length("STRTAB")
<1>1. /\ s1 \in Nat /\ Section("SYMTAB").offset \in Nat /\ LONG \in Nat \ {0}
      /\ l1 \in Nat /\ LONG + s1 <= l1 /\ K!Roundup(s1) \in Nat /\ l1 = LONG + K!Roundup(s1)
  BY SectionType, LengthType DEF Length
<1>2. /\ s2 \in Nat /\ Section("STRTAB").offset \in Nat
      /\ l2 \in Nat /\ LONG + s2 <= l2 /\ K!Roundup(s2) \in Nat /\ l2 = LONG + K!Roundup(s2)
  BY SectionType, LengthType DEF Length
<1>3. m_sym \in Seq(Cells) /\ Len(m_sym) = l1 + l2 /\ Table(0, "SYMTAB") /\ Table(l1, "STRTAB")
  BY DEF Both
<1>4. /\ \A j \in 1 .. LONG : m_sym[0 + j] = K!Long(s1, j)
      /\ \A j \in 1 .. LONG : m_sym[l1 + j] = K!Long(s2, j)
  BY <1>3 DEF Table
<1> HIDE DEF s1, s2, l1, l2
<1>5. \A m : K!LongAt(0, m) <=> m = s1
  <2> SUFFICES ASSUME NEW m PROVE K!LongAt(0, m) <=> m = s1
    OBVIOUS
  <2>1. 0 \in Nat /\ 0 + LONG <= Len(m_sym)
    BY <1>1, <1>2, <1>3
  <2> QED
    BY <1>1, <1>3, <1>4, <2>1, LongRead, ZenonT(60)
<1>6. \A m : K!LongAt(l1, m) <=> m = s2
  <2> SUFFICES ASSUME NEW m PROVE K!LongAt(l1, m) <=> m = s2
    OBVIOUS
  <2>1. l1 + LONG <= Len(m_sym)
    BY <1>1, <1>2, <1>3
  <2> QED
    BY <1>1, <1>3, <1>4, <2>1, LongRead, ZenonT(60)
<1>7. /\ ~(l1 > Len(m_sym)) /\ ~(l1 + LONG + K!Roundup(s2) > Len(m_sym))
      /\ 0 + LONG + s1 <= Len(m_sym) /\ l1 + LONG + s2 <= Len(m_sym)
      /\ 0 + LONG = LONG /\ (l1 + LONG) + K!Roundup(s2) = Len(m_sym)
  <2> DEFINE r == K!Roundup(s2)
             e == Len(m_sym)
  <2>1. r \in Nat /\ l2 = LONG + r /\ e = l1 + l2
    BY <1>2, <1>3
  <2> HIDE DEF r, e
  <2>2. LONG \in Nat /\ l1 \in Nat /\ l2 \in Nat /\ s1 \in Nat /\ s2 \in Nat
    BY <1>1, <1>2
  <2>3. LONG + s1 <= l1 /\ LONG + s2 <= l2
    BY <1>1, <1>2
  <2>4. ~(l1 > e) /\ ~(l1 + LONG + r > e) /\ 0 + LONG = LONG /\ (l1 + LONG) + r = e
    BY <2>1, <2>2
  <2>5. 0 + LONG + s1 <= e /\ l1 + LONG + s2 <= e
    BY <2>1, <2>2, <2>3
  <2> QED
    BY <2>4, <2>5 DEF r, e
<1>8. found' = [tables |-> TRUE, symtab |-> LONG, symcnt |-> s1, strtab |-> l1 + LONG, strcnt |-> s2]
  <2>1. PICK symcnt \in K!Sizes :
          /\ K!LongAt(0, symcnt)
          /\ LET base == LONG + K!Roundup(symcnt)
             IN  IF base > Len(m_sym) THEN found' = K!Nothing
                 ELSE \E strcnt \in K!Sizes :
                        /\ K!LongAt(base, strcnt)
                        /\ found' = IF base + LONG + K!Roundup(strcnt) > Len(m_sym) THEN K!Nothing
                                    ELSE [tables |-> TRUE, symtab |-> LONG, symcnt |-> symcnt,
                                          strtab |-> base + LONG, strcnt |-> strcnt]
    BY Zenon DEF K!parse_symbols
  <2>2. symcnt = s1
    BY <1>5, <2>1
  <2>3. LONG + K!Roundup(symcnt) = l1
    BY <1>1, <2>2
  <2>4. PICK strcnt \in K!Sizes :
          /\ K!LongAt(l1, strcnt)
          /\ found' = IF l1 + LONG + K!Roundup(strcnt) > Len(m_sym) THEN K!Nothing
                      ELSE [tables |-> TRUE, symtab |-> LONG, symcnt |-> symcnt,
                            strtab |-> l1 + LONG, strcnt |-> strcnt]
    BY <1>7, <2>1, <2>3, Zenon
  <2>5. strcnt = s2
    BY <1>6, <2>4
  <2> QED
    BY <1>7, <2>2, <2>4, <2>5, Zenon
<1>9. K!Holds(0 + LONG, s1, "SYMTAB")
  <2>1. 0 \in Nat
    OBVIOUS
  <2> QED
    BY <1>1, <1>3, <1>7, <2>1, TableRead DEF s1
<1>10. K!Holds(l1 + LONG, s2, "STRTAB")
  BY <1>1, <1>2, <1>3, <1>7, TableRead DEF s2
<1> QED
  BY <1>7, <1>8, <1>9, <1>10

\* Of a table that is alone the reader learns nothing: the size behind it is zero, and
\* with that it is past the end.
LEMMA AloneRead ==
  ASSUME kernel \in Kernels, NEW type, K!Has(type), Alone(type), K!parse_symbols
  PROVE  ~found'.tables
<1> DEFINE n == Section(type).size
           l == Length(type)
<1>1. /\ n \in Nat /\ LONG \in Nat \ {0} /\ l \in Nat /\ LONG + n <= l
      /\ l = LONG + K!Roundup(n)
  BY SectionType, LengthType DEF Length
<1>2. m_sym \in Seq(Cells) /\ Len(m_sym) = l /\ \A j \in 1 .. LONG : m_sym[0 + j] = K!Long(n, j)
  BY DEF Alone, Table
<1> HIDE DEF n, l
<1>3. \A m : K!LongAt(0, m) <=> m = n
  <2> SUFFICES ASSUME NEW m PROVE K!LongAt(0, m) <=> m = n
    OBVIOUS
  <2>1. 0 \in Nat /\ 0 + LONG <= Len(m_sym)
    BY <1>1, <1>2
  <2> QED
    BY <1>1, <1>2, <2>1, LongRead, Zenon
<1>4. K!Roundup(0) = 0
  <2> DEFINE d == (LONG - 1) \div LONG
  <2>1. LONG - 1 = 0 * LONG + (LONG - 1) /\ LONG - 1 \in 0 .. LONG - 1 /\ 0 + LONG - 1 = LONG - 1
    BY <1>1
  <2>2. d = 0
    BY <1>1, <2>1
  <2> QED
    BY <1>1, <2>1, <2>2 DEF K!Roundup
<1>5. PICK symcnt \in K!Sizes :
        /\ K!LongAt(0, symcnt)
        /\ LET base == LONG + K!Roundup(symcnt)
           IN  IF base > Len(m_sym) THEN found' = K!Nothing
               ELSE \E strcnt \in K!Sizes :
                      /\ K!LongAt(base, strcnt)
                      /\ found' = IF base + LONG + K!Roundup(strcnt) > Len(m_sym) THEN K!Nothing
                                  ELSE [tables |-> TRUE, symtab |-> LONG, symcnt |-> symcnt,
                                        strtab |-> base + LONG, strcnt |-> strcnt]
  BY Zenon DEF K!parse_symbols
<1>6. LONG + K!Roundup(symcnt) = l
  BY <1>1, <1>3, <1>5
<1>7. PICK strcnt \in K!Sizes :
        /\ K!LongAt(l, strcnt)
        /\ found' = IF l + LONG + K!Roundup(strcnt) > Len(m_sym) THEN K!Nothing
                    ELSE [tables |-> TRUE, symtab |-> LONG, symcnt |-> symcnt,
                          strtab |-> l + LONG, strcnt |-> strcnt]
  <2>1. ~(l > Len(m_sym))
    BY <1>1, <1>2
  <2> QED
    BY <1>5, <1>6, <2>1, Zenon
<1>8. strcnt = 0
  BY <1>1, <1>2, <1>7, ZeroRead
<1>9. l + LONG + K!Roundup(strcnt) > Len(m_sym)
  BY <1>1, <1>2, <1>4, <1>8
<1> QED
  BY <1>7, <1>9 DEF K!Nothing

LEMMA SymStep ==
  ASSUME SymInv, K!Next \/ UNCHANGED <<kernelVars, pc>>
  PROVE  SymInv'
<1>1. CASE K!loadSegment \/ K!segmentsLoaded
  BY <1>1 DEF SymInv, K!loadSegment, K!segmentsLoaded, K!SymbolsFound
<1>2. CASE K!symtab
  <2>1. /\ kernel \in Kernels /\ pc = "symtab" /\ pc' = "strtab" /\ m_sym = <<>>
        /\ kernel' = kernel
        /\ m_sym' = IF K!Has("SYMTAB") THEN K!addTab(Section("SYMTAB")) ELSE m_sym
    BY <1>2 DEF SymInv, K!symtab, K!addSection, Section
  <2>2. K!Has("SYMTAB")' = K!Has("SYMTAB")
    BY <2>1 DEF K!Has
  <2>3. CASE K!Has("SYMTAB")
    BY <2>1, <2>2, <2>3, FirstTable DEF SymInv, K!SymbolsFound
  <2>4. CASE ~K!Has("SYMTAB")
    BY <2>1, <2>2, <2>4 DEF SymInv, K!SymbolsFound
  <2> QED
    BY <2>3, <2>4
<1>3. CASE K!strtab
  <2>1. /\ kernel \in Kernels /\ pc = "strtab" /\ kernel' = kernel
        /\ pc' = IF m_sym' = <<>> THEN "aborted" ELSE "parse"
        /\ m_sym' = IF K!Has("STRTAB") THEN K!addTab(Section("STRTAB")) ELSE m_sym
        /\ IF K!Has("SYMTAB") THEN Alone("SYMTAB") ELSE m_sym = <<>>
    BY <1>3 DEF SymInv, K!strtab, K!addSection, Section
  <2>2. K!Has("SYMTAB")' = K!Has("SYMTAB") /\ K!Has("STRTAB")' = K!Has("STRTAB")
    BY <2>1 DEF K!Has
  <2>3. CASE K!Has("SYMTAB") /\ K!Has("STRTAB")
    <3>1. Both' /\ Len(m_sym') # 0
      BY <2>1, <2>3, SecondTable
    <3>2. m_sym' # <<>>
      BY <3>1
    <3> QED
      BY <2>1, <2>2, <2>3, <3>1, <3>2 DEF SymInv, K!SymbolsFound
  <2>4. CASE K!Has("SYMTAB") /\ ~K!Has("STRTAB")
    <3>1. Alone("SYMTAB")' /\ m_sym' = m_sym
      BY <2>1, <2>4 DEF Alone, Table, Length, Section, K!First, K!Roundup, K!Long, K!Zero, K!File
    <3>2. m_sym # <<>>
      BY <2>1, <2>4, LengthType, SectionType DEF Alone
    <3> QED
      BY <2>1, <2>2, <2>4, <3>1, <3>2 DEF SymInv, K!SymbolsFound
  <2>5. CASE ~K!Has("SYMTAB") /\ K!Has("STRTAB")
    <3>1. Alone("STRTAB")' /\ Len(m_sym') # 0
      BY <2>1, <2>5, FirstTable
    <3>2. m_sym' # <<>>
      BY <3>1
    <3> QED
      BY <2>1, <2>2, <2>5, <3>1, <3>2 DEF SymInv, K!SymbolsFound
  <2>6. CASE ~K!Has("SYMTAB") /\ ~K!Has("STRTAB")
    BY <2>1, <2>2, <2>6 DEF SymInv, K!SymbolsFound
  <2> QED
    BY <2>3, <2>4, <2>5, <2>6
<1>4. CASE K!parse_symbols
  <2>1. /\ kernel \in Kernels /\ kernel' = kernel /\ m_sym' = m_sym /\ pc' = "done"
        /\ \/ K!Has("SYMTAB") /\ K!Has("STRTAB") /\ Both
           \/ K!Has("SYMTAB") /\ ~K!Has("STRTAB") /\ Alone("SYMTAB")
           \/ ~K!Has("SYMTAB") /\ K!Has("STRTAB") /\ Alone("STRTAB")
    BY <1>4 DEF SymInv, K!parse_symbols
  <2>2. \A type : K!Has(type)' = K!Has(type)
    BY <2>1 DEF K!Has
  <2>3. CASE K!Has("SYMTAB") /\ K!Has("STRTAB") /\ Both
    <3>1. /\ found'.tables
          /\ K!Holds(found'.symtab, found'.symcnt, "SYMTAB")
          /\ K!Holds(found'.strtab, found'.strcnt, "STRTAB")
          /\ found'.strtab + K!Roundup(found'.strcnt) = Len(m_sym)
      BY <1>4, <2>1, <2>3, BothRead
    <3>2. /\ K!Holds(found.symtab, found.symcnt, "SYMTAB")'
          /\ K!Holds(found.strtab, found.strcnt, "STRTAB")'
      BY <2>1, <3>1 DEF K!Holds, K!Byte, K!First, K!File, K!Zero
    <3>3. K!SymbolsFound'
      BY <2>1, <2>2, <2>3, <3>1, <3>2 DEF K!SymbolsFound, K!Roundup
    <3> QED
      BY <2>1, <3>3 DEF SymInv
  <2>4. CASE ~(K!Has("SYMTAB") /\ K!Has("STRTAB"))
    <3>1. ~found'.tables
      BY <1>4, <2>1, <2>4, AloneRead
    <3>2. K!SymbolsFound'
      BY <2>2, <2>4, <3>1 DEF K!SymbolsFound
    <3> QED
      BY <2>1, <3>2 DEF SymInv
  <2> QED
    BY <2>1, <2>3, <2>4
<1>5. CASE K!Over \/ UNCHANGED <<kernelVars, pc>>
  <2>1. UNCHANGED <<kernel, pc, m_sym, found>>
    BY <1>5 DEF K!Over, K!vars, kernelVars
  <2>2. \A type : Section(type)' = Section(type) /\ K!Has(type)' = K!Has(type)
    BY <2>1 DEF Section, K!Has, K!First
  <2>3. \A type : Length(type)' = Length(type)
    BY <2>2 DEF Length, K!Roundup
  <2>4. \A type : Alone(type)' = Alone(type)
    BY <2>1, <2>2, <2>3 DEF Alone, Table, K!Long, K!Zero, K!File
  <2>5. Both' = Both
    BY <2>1, <2>2, <2>3 DEF Both, Table, K!Long, K!Zero, K!File
  <2>6. K!SymbolsFound' = K!SymbolsFound
    BY <2>1 DEF K!SymbolsFound, K!Holds, K!Byte, K!Has, K!First, K!Roundup, K!Zero, K!File
  <2> QED
    BY <2>1, <2>2, <2>4, <2>5, <2>6 DEF SymInv
<1> QED
  BY <1>1, <1>2, <1>3, <1>4, <1>5 DEF K!Next, K!Step

\* Whatever the sections of the kernel and wherever their tables begin and end, FreeBSD
\* finds the first symbol table and the first string table, byte by byte, in what
\* addSymTab and addStrTab made, or, when one is missing, neither.
THEOREM SymbolsAreFound == Spec => []SymbolsFound
<1> DEFINE Inv == subject = "kernel" => SymInv
<1>1. Init => Inv
  BY SymInit DEF Init
<1>2. Inv /\ [Next]_vars => Inv'
  BY SymStep, OthersStutter
<1>3. Inv => SymbolsFound
  BY DEF SymInv, SymbolsFound
<1> QED
  BY <1>1, <1>2, <1>3, PTL DEF Spec
=============================================================================
