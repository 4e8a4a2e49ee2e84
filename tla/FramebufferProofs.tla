-------------------------- MODULE FramebufferProofs --------------------------
(***************************************************************************)
(* For every host and whatever Linux's driver writes in between: FreeBSD   *)
(* gets the mode that it is told of.  The invariant says what the program  *)
(* of port writes has done to the adapter, if there is one, after each of  *)
(* its writes.                                                             *)
(***************************************************************************)
EXTENDS Framebuffer, AlignmentProofs, SequenceTheorems

Vmware  == host.id = "vmwgfxdrmfb"
\* The address Linux has.
Base    == IF host.id = "EFI VGA" THEN host.smem_start ELSE host.lfb_base
Default(fb) == fb.phys = Base /\ fb.width = 1024 /\ fb.height = 768

\* The program, and what its first n writes leave in the adapter.
Code == Reset(1024, 768)
Written(n) ==
  /\ n \in 1 .. 5 => register["ENABLE"] = 0
  /\ n >= 2 => register["WIDTH"] = 1024
  /\ n >= 3 => register["HEIGHT"] = 768
  /\ n >= 4 => register["BITS_PER_PIXEL"] = 32
  /\ n = 6 => register["ENABLE"] = 1

Early   == {"fetchFB", "setDefaultResolution", "writeMetadata"}
Asking  == {"selectBase", "readBase", "selectSize", "assembleReset"}

TypeInv ==
  /\ host \in Hosts
  /\ pc \in Early \cup {"scan"} \cup Asking \cup {"kexec", "reset", "kernel"}
  /\ stray \in BOOLEAN /\ selected \in Registers /\ register = [r \in Registers |-> register[r]]

\* The mode is overridden before FreeBSD is told of it.
Telling ==
  /\ pc = "setDefaultResolution" => m_fb \in [phys : {Base}, width : Nat, height : Nat]
  /\ pc \notin {"fetchFB", "setDefaultResolution"} => Default(m_fb)
  /\ pc \notin Early => Default(told)

\* The ports that CVmwaregfx knows are those of the adapter, if the machine has one.
Scanning ==
  /\ scanned \in 0 .. Len(host.devices) /\ m_present \in BOOLEAN
  /\ m_present <=> \E n \in 1 .. scanned : IsSVGA2(host.devices[n])
  /\ m_present => m_iostart \in Ports
  /\ pc \in Asking => m_present \/ (pc = "assembleReset" /\ Ports = {})
  /\ pc \in {"kexec", "reset"} /\ HasAdapter => m_present

Driving ==
  /\ driver => HasAdapter
  /\ pc \in Asking \cup {"scan", "reset"} => Vmware

Programming ==
  /\ pc \in Early \cup Asking \cup {"scan"} => m_gfxcode = <<>>
  /\ pc = "kexec" => m_gfxcode = IF Vmware THEN Code ELSE <<>>
  /\ pc = "reset" => \E n \in 0 .. 5 : m_gfxcode = SubSeq(Code, n + 1, 6) /\ (HasAdapter => Written(n))
  /\ pc = "kernel" /\ HasAdapter => Written(6)

IInv == TypeInv /\ Telling /\ Scanning /\ Driving /\ Programming /\ StrayOnlyIfAbsent

-----------------------------------------------------------------------------
(* Hosts, and the program                                                  *)

LEMMA HostType ==
  ASSUME host \in Hosts
  PROVE  /\ Base \in Nat /\ host.lfb_base \in Nat /\ host.xres \in Nat /\ host.yres \in Nat
         /\ host.devices \in Seq(Device) /\ Len(host.devices) \in Nat
         /\ DOMAIN host.devices = 1 .. Len(host.devices)
         /\ Ports # {} <=> \E n \in 1 .. Len(host.devices) : IsSVGA2(host.devices[n])
<1>1. host \in Host
  BY AdapterAssumption
<1>2. /\ host.smem_start \in Nat /\ host.lfb_base \in Nat /\ host.xres \in Nat /\ host.yres \in Nat
      /\ host.devices \in Seq(Device)
  BY <1>1 DEF Host
<1>3. Len(host.devices) \in Nat /\ DOMAIN host.devices = 1 .. Len(host.devices)
  BY <1>2
<1>4. Ports # {} <=> \E n \in DOMAIN host.devices : IsSVGA2(host.devices[n])
  BY DEF Ports
<1> QED
  BY <1>2, <1>3, <1>4 DEF Base

LEMMA Halves ==
  ASSUME NEW b \in Nat, NEW h \in Nat \ {0}
  PROVE  (b % h) + (b \div h) * h = b
<1> DEFINE q == b \div h
           r == b % h
<1>1. q \in Nat /\ r \in Nat /\ b = h * q + r
  BY DivMod, SMT
<1>2. h * q = q * h /\ q * h \in Nat
  BY <1>1, SMT
<1> QED
  BY <1>1, <1>2

\* The two halves of the address in boot_params make the address.
LEMMA HalvesJoin ==
  ASSUME host \in Hosts
  PROVE  lfb = host.lfb_base
  BY HostType, AdapterAssumption, Halves DEF lfb

\* The writes.
LEMMA CodeWrites ==
  /\ Code[1] = <<"ENABLE", 0>> /\ Code[2] = <<"WIDTH", 1024>> /\ Code[3] = <<"HEIGHT", 768>>
  /\ Code[4] = <<"BITS_PER_PIXEL", 32>> /\ Code[5] = <<"BYTES_PER_LINE", 3072>>
  /\ Code[6] = <<"ENABLE", 1>>
  /\ Code \in Seq({Code[n] : n \in 1 .. 6}) /\ Len(Code) = 6 /\ Code # <<>>
  /\ Code = SubSeq(Code, 1, 6)
<1>1. Code = <<<<"ENABLE", 0>>, <<"WIDTH", 1024>>, <<"HEIGHT", 768>>, <<"BITS_PER_PIXEL", 32>>,
               <<"BYTES_PER_LINE", 3072>>, <<"ENABLE", 1>>>>
  BY DEF Code, Reset
<1>2. Code \in Seq({Code[n] : n \in 1 .. 6}) /\ Len(Code) = 6 /\ DOMAIN Code = 1 .. 6
  BY <1>1
<1>3. Code = SubSeq(Code, 1, 6) /\ Code # <<>>
  BY <1>2, SMTT(30)
<1> QED
  BY <1>1, <1>2, <1>3

\* They are done one after the other.
LEMMA CodeSteps ==
  ASSUME NEW n \in 0 .. 5, m_gfxcode = SubSeq(Code, n + 1, 6)
  PROVE  /\ Head(m_gfxcode) = Code[n + 1] /\ Tail(m_gfxcode) = SubSeq(Code, n + 2, 6)
         /\ Tail(m_gfxcode) = <<>> <=> n = 5
<1>1. n + 1 \in 1 .. Len(Code) /\ 6 \in n + 1 .. Len(Code)
  BY CodeWrites
<1>2. /\ Head(SubSeq(Code, n + 1, 6)) = Code[n + 1]
      /\ Tail(SubSeq(Code, n + 1, 6)) = SubSeq(Code, n + 1 + 1, 6)
  BY <1>1, CodeWrites, HeadTailOfSubSeq
<1>3. n + 1 + 1 = n + 2
  OBVIOUS
<1> DEFINE t == SubSeq(Code, n + 2, 6)
<1>4. Len(t) = 5 - n
  BY CodeWrites
<1>5. n = 5 => t = <<>>
  BY SubSeqEmpty
<1>6. n # 5 => Len(t) # 0
  BY <1>4
<1> HIDE DEF t
<1>7. t = <<>> => Len(t) = 0
  OBVIOUS
<1>8. t = <<>> <=> n = 5
  BY <1>5, <1>6, <1>7
<1> QED
  BY <1>2, <1>3, <1>8 DEF t

\* What each of them does to the adapter.
LEMMA CodeStores ==
  /\ Stored(Code[1][1], Code[1][2]) = [register EXCEPT !["ENABLE"] = 0]
  /\ Stored(Code[2][1], Code[2][2]) = [register EXCEPT !["WIDTH"] = 1024]
  /\ Stored(Code[3][1], Code[3][2]) = [register EXCEPT !["HEIGHT"] = 768]
  /\ Stored(Code[4][1], Code[4][2]) = [register EXCEPT !["BITS_PER_PIXEL"] = 32]
  /\ Stored(Code[5][1], Code[5][2]) = register
  /\ Stored(Code[6][1], Code[6][2]) = [register EXCEPT !["ENABLE"] = 1]
<1>1. Stored(Code[1][1], Code[1][2]) = [register EXCEPT !["ENABLE"] = 0]
  BY CodeWrites DEF Stored, ReadOnly
<1>2. Stored(Code[2][1], Code[2][2]) = [register EXCEPT !["WIDTH"] = 1024]
  BY CodeWrites DEF Stored, ReadOnly
<1>3. Stored(Code[3][1], Code[3][2]) = [register EXCEPT !["HEIGHT"] = 768]
  BY CodeWrites DEF Stored, ReadOnly
<1>4. Stored(Code[4][1], Code[4][2]) = [register EXCEPT !["BITS_PER_PIXEL"] = 32]
  BY CodeWrites DEF Stored, ReadOnly
<1>5. Stored(Code[5][1], Code[5][2]) = register
  BY CodeWrites DEF Stored, ReadOnly
<1>6. Stored(Code[6][1], Code[6][2]) = [register EXCEPT !["ENABLE"] = 1]
  BY CodeWrites DEF Stored, ReadOnly
<1> QED
  BY <1>1, <1>2, <1>3, <1>4, <1>5, <1>6

-----------------------------------------------------------------------------
(* The steps                                                               *)

\* No step changes the host.
LEMMA HostKept ==
  ASSUME host' = host
  PROVE  /\ Ports' = Ports /\ Base' = Base
         /\ Vmware' <=> Vmware
         /\ HasAdapter' <=> HasAdapter
  BY DEF Ports, Base, Vmware, HasAdapter

LEMMA InvInit == Init => IInv
<1> SUFFICES ASSUME Init PROVE IInv
  OBVIOUS
<1>1. Len(host.devices) \in Nat
  BY HostType DEF Init
<1>2. TypeInv /\ StrayOnlyIfAbsent
  BY DEF Init, TypeInv, Registers, Early, StrayOnlyIfAbsent
<1>3. Telling /\ Driving /\ Programming
  BY DEF Init, Telling, Driving, Programming, Early, Asking
<1>4. Scanning
  <2>1. scanned \in 0 .. Len(host.devices) /\ 1 .. scanned = {} /\ m_present = FALSE
    BY <1>1 DEF Init
  <2> QED
    BY <2>1 DEF Init, Scanning, Asking
<1> QED
  BY <1>2, <1>3, <1>4 DEF IInv

\* What Linux's driver writes is gone when the program has run.
LEMMA DriverStep ==
  ASSUME IInv, driverSelects \/ driverWrites
  PROVE  IInv'
<1>1. /\ UNCHANGED <<host, pc, m_fb, told, scanned, gfx, m_gfxcode, stray>>
      /\ pc \notin {"reset", "kernel"}
      /\ selected' \in Registers /\ driver' \in BOOLEAN /\ (driver' => HasAdapter \/ driver)
  BY DEF IInv, TypeInv, driverSelects, driverWrites, InLinux
<1>2. register' = [r \in Registers |-> register'[r]]
  <2>1. CASE driverSelects
    BY <2>1 DEF IInv, TypeInv, driverSelects
  <2>2. CASE driverWrites
    <3>1. PICK v : register' = Stored(selected, v)
      BY <2>2 DEF driverWrites
    <3> QED
      BY <3>1 DEF IInv, TypeInv, Stored
  <2> QED
    BY <2>1, <2>2
<1>3. TypeInv' /\ Telling' /\ Driving' /\ StrayOnlyIfAbsent'
  BY <1>1, <1>2, HostKept DEF IInv, TypeInv, Telling, Driving, StrayOnlyIfAbsent, Default
<1>4. Scanning'
  BY <1>1, HostKept DEF IInv, Scanning, gfx
<1>5. Programming'
  BY <1>1, HostKept DEF IInv, Programming
<1> QED
  BY <1>3, <1>4, <1>5 DEF IInv

\* Up to the metadata.
LEMMA ToldStep ==
  ASSUME IInv, fetchFB \/ setDefaultResolution \/ writeMetadata
  PROVE  IInv'
<1>1. /\ UNCHANGED <<host, scanned, gfx, m_gfxcode, adapter, stray, driver>>
      /\ pc \in Early
  BY ZenonT(30) DEF fetchFB, setDefaultResolution, writeMetadata, Early
<1>6. Base' = Base /\ (Vmware' <=> Vmware) /\ (HasAdapter' <=> HasAdapter) /\ Ports' = Ports
  BY <1>1, HostKept
<1>2. TypeInv' /\ Telling' /\ (pc' \in Early \cup {"scan"} \/ (pc' = "kexec" /\ ~Vmware))
      /\ (pc' = "scan" => Vmware)
  <2>1. CASE fetchFB
    <3>1. m_fb' \in [phys : {Base}, width : Nat, height : Nat]
      BY <2>1, HostType, HalvesJoin DEF fetchFB, IInv, TypeInv, Base
    <3> QED
      BY <1>1, <1>6, <2>1, <3>1 DEF fetchFB, Goto, IInv, TypeInv, Telling, Early, adapter
  <2>2. CASE setDefaultResolution
    <3>1. Default(m_fb)'
      <4>1. m_fb \in [phys : {Base}, width : Nat, height : Nat]
        BY <2>2 DEF setDefaultResolution, IInv, Telling
      <4>2. m_fb' = [m_fb EXCEPT !.width = 1024, !.height = 768] /\ host' = host
        BY <2>2 DEF setDefaultResolution
      <4> QED
        BY <1>6, <4>1, <4>2 DEF Default
    <3>2. host' = host /\ pc' = "writeMetadata"
      BY <2>2 DEF setDefaultResolution, Goto
    <3> QED
      BY <1>1, <1>6, <3>1, <3>2 DEF IInv, TypeInv, Telling, Early, adapter, Default
  <2>3. CASE writeMetadata
    BY <1>1, <1>6, <2>3 DEF writeMetadata, Goto, IInv, TypeInv, Telling, Early, adapter, Default, Vmware
  <2> QED
    BY <2>1, <2>2, <2>3
<1>3. Scanning'
  BY <1>1, <1>2, <1>6 DEF IInv, Scanning, gfx, HasAdapter, Vmware, Asking, Early
<1>4. Driving' /\ StrayOnlyIfAbsent'
  BY <1>1, <1>2, <1>6 DEF IInv, Driving, StrayOnlyIfAbsent, Asking, Early
<1>5. Programming'
  BY <1>1, <1>2, <1>6 DEF IInv, Programming, Asking, Early
<1> QED
  BY <1>2, <1>3, <1>4, <1>5 DEF IInv

\* CVmwaregfx finds the adapter's ports among the devices.
LEMMA ScanStep ==
  ASSUME IInv, scan
  PROVE  IInv'
<1>1. /\ UNCHANGED <<host, m_fb, told, m_fbbase, m_gfxcode, adapter, stray, driver>>
      /\ pc = "scan" /\ Vmware /\ host \in Hosts
  BY DEF scan, IInv, Driving, TypeInv
<1>2. /\ host.devices \in Seq(Device) /\ Len(host.devices) \in Nat
      /\ DOMAIN host.devices = 1 .. Len(host.devices)
      /\ Ports # {} <=> \E n \in 1 .. Len(host.devices) : IsSVGA2(host.devices[n])
  BY <1>1, HostType
<1>5. Base' = Base /\ (Vmware' <=> Vmware) /\ (HasAdapter' <=> HasAdapter) /\ Ports' = Ports
  BY <1>1, HostKept
<1>3. CASE scanned < Len(host.devices)
  <2> DEFINE d == host.devices[scanned + 1]
  <2>1. /\ scanned' = scanned + 1 /\ pc' = "scan"
        /\ IF Matches(d) THEN m_present' = TRUE /\ m_iostart' = d.bar0
           ELSE UNCHANGED <<m_present, m_iostart>>
    BY <1>1, <1>3 DEF scan
  <2>2. scanned \in Nat /\ scanned + 1 \in 1 .. Len(host.devices) /\ Ports' = Ports
    BY <1>1, <1>2, <1>3, <1>5 DEF IInv, Scanning
  <2>3. 1 .. scanned + 1 = (1 .. scanned) \cup {scanned + 1}
    BY <2>2
  <2>4. Matches(d) <=> IsSVGA2(d)
    BY DEF Matches, IsSVGA2
  <2>5. IsSVGA2(d) => d.bar0 \in Ports
    BY <1>2, <2>2 DEF Ports
  <2>6. Scanning'
    <3>1. CASE Matches(d)
      BY <1>1, <1>2, <2>1, <2>2, <2>3, <2>4, <2>5, <3>1 DEF IInv, Scanning, Asking
    <3>2. CASE ~Matches(d)
      BY <1>1, <1>2, <2>1, <2>2, <2>3, <2>4, <3>2 DEF IInv, Scanning, Asking
    <3> QED
      BY <3>1, <3>2
  <2>7. TypeInv' /\ Telling'
    BY <1>1, <1>5, <2>1 DEF IInv, TypeInv, Telling, adapter, Default, Early, Asking
  <2>8. Driving' /\ Programming' /\ StrayOnlyIfAbsent'
    BY <1>1, <1>5, <2>1 DEF IInv, Driving, Programming, StrayOnlyIfAbsent, Early, Asking
  <2> QED
    BY <2>6, <2>7, <2>8 DEF IInv
<1>4. CASE ~(scanned < Len(host.devices))
  <2>1. /\ scanned = Len(host.devices)
        /\ pc' = IF m_present THEN "selectBase" ELSE "assembleReset"
        /\ UNCHANGED <<scanned, m_present, m_iostart>>
    BY <1>4 DEF scan, Goto
  <2>2. m_present <=> Ports # {}
    BY <1>2, <2>1 DEF IInv, Scanning
  <2>3. pc' = IF Ports # {} THEN "selectBase" ELSE "assembleReset"
    BY <2>1, <2>2
  <2>4. Scanning'
    BY <1>1, <1>5, <2>1, <2>2, <2>3 DEF IInv, Scanning, Asking
  <2>5. TypeInv' /\ Telling'
    BY <1>1, <1>5, <2>3 DEF IInv, TypeInv, Telling, adapter, Default, Early, Asking
  <2>6. Driving' /\ Programming' /\ StrayOnlyIfAbsent'
    BY <1>1, <1>5, <2>3 DEF IInv, Driving, Programming, StrayOnlyIfAbsent, Early, Asking
  <2> QED
    BY <2>4, <2>5, <2>6 DEF IInv
<1> QED
  BY <1>3, <1>4

\* A selection goes to the adapter.
LEMMA AskStep ==
  ASSUME IInv, selectBase \/ readBase \/ selectSize \/ assembleReset
  PROVE  IInv'
<1>1. /\ pc \in Asking /\ Vmware /\ stray = FALSE
      /\ UNCHANGED <<host, m_fb, told, scanned, m_present, m_iostart, register, driver>>
  <2>1. pc \in Asking
    BY DEF selectBase, readBase, selectSize, assembleReset, Asking
  <2>2. UNCHANGED <<host, m_fb, told, scanned, m_present, m_iostart, register, driver>>
    BY DEF selectBase, readBase, selectSize, assembleReset, adapter, gfx
  <2>3. stray \in BOOLEAN
    BY DEF IInv, TypeInv
  <2> QED
    BY <2>1, <2>2, <2>3 DEF IInv, Driving, StrayOnlyIfAbsent, Asking
<1>7. Base' = Base /\ (Vmware' <=> Vmware) /\ (HasAdapter' <=> HasAdapter) /\ Ports' = Ports
  BY <1>1, HostKept
<1>2. selected' \in Registers /\ stray' = FALSE
  <2>1. selected \in Registers
    BY DEF IInv, TypeInv
  <2>2. CASE selectBase \/ selectSize
    <3>1. m_iostart \in Ports
      BY <2>2 DEF selectBase, selectSize, IInv, Scanning, Asking
    <3> QED
      BY <1>1, <2>2, <3>1 DEF selectBase, selectSize, Select, Registers, ReadOnly
  <2>3. CASE readBase \/ assembleReset
    BY <1>1, <2>1, <2>3 DEF readBase, assembleReset, adapter
  <2> QED
    BY <2>2, <2>3
<1>3. /\ pc' \in Asking \/ pc' = "kexec"
      /\ pc' = "kexec" => pc = "assembleReset" /\ m_gfxcode' = Code
      /\ pc' # "kexec" => pc # "assembleReset" /\ m_gfxcode' = m_gfxcode
  BY DEF selectBase, readBase, selectSize, assembleReset, Goto, Asking, Code, IInv, Telling, Default
<1>4. TypeInv' /\ Telling' /\ Driving' /\ StrayOnlyIfAbsent'
  <2>1. TypeInv'
    BY <1>1, <1>2, <1>3 DEF IInv, TypeInv, Asking
  <2>2. Telling'
    BY <1>1, <1>3, <1>7 DEF IInv, Telling, Default, Early, Asking
  <2>3. Driving' /\ StrayOnlyIfAbsent'
    BY <1>1, <1>2, <1>3, <1>7 DEF IInv, Driving, StrayOnlyIfAbsent, Asking
  <2> QED
    BY <2>1, <2>2, <2>3
<1>5. Scanning'
  BY <1>1, <1>3, <1>7 DEF IInv, Scanning, HasAdapter, Asking
<1>6. Programming'
  BY <1>1, <1>3, <1>7 DEF IInv, Programming, Early, Asking
<1> QED
  BY <1>4, <1>5, <1>6 DEF IInv

LEMMA KexecStep ==
  ASSUME IInv, kexec
  PROVE  IInv'
<1>1. /\ pc = "kexec"
      /\ UNCHANGED <<host, m_fb, told, scanned, gfx, m_gfxcode, adapter, stray, driver>>
      /\ pc' = IF m_gfxcode = <<>> THEN "kernel" ELSE "reset"
      /\ m_gfxcode = IF Vmware THEN Code ELSE <<>>
  BY DEF kexec, Goto, IInv, Programming
<1>2. pc' = IF Vmware THEN "reset" ELSE "kernel"
  BY <1>1, CodeWrites
<1>6. Base' = Base /\ (Vmware' <=> Vmware) /\ (HasAdapter' <=> HasAdapter) /\ Ports' = Ports
  BY <1>1, HostKept
<1>3. TypeInv' /\ Telling' /\ Driving' /\ StrayOnlyIfAbsent'
  BY <1>1, <1>2, <1>6 DEF IInv, TypeInv, Telling, Driving, StrayOnlyIfAbsent, Default, Early, Asking,
     adapter
<1>4. Scanning'
  BY <1>1, <1>2, <1>6 DEF IInv, Scanning, Asking, gfx, HasAdapter, Vmware
<1>5. Programming'
  <2>1. CASE Vmware
    <3>1. pc' = "reset" /\ m_gfxcode' = SubSeq(Code, 1, 6) /\ 0 + 1 = 1
      BY <1>1, <1>2, <2>1, CodeWrites
    <3>2. Written(0)'
      BY DEF Written
    <3> QED
      BY <3>1, <3>2 DEF Programming, Early, Asking
  <2>2. CASE ~Vmware
    BY <1>1, <1>2, <1>6, <2>2 DEF Programming, Early, Asking, HasAdapter, Vmware
  <2> QED
    BY <2>1, <2>2
<1> QED
  BY <1>3, <1>4, <1>5 DEF IInv

\* One write of the program, to the adapter or, without one, to other ports.
LEMMA Write ==
  ASSUME IInv, outl
  PROVE  \E n \in 0 .. 5 :
           /\ m_gfxcode = SubSeq(Code, n + 1, 6)
           /\ HasAdapter => /\ Written(n) /\ Written(n + 1)'
                            /\ register' = Stored(Code[n + 1][1], Code[n + 1][2])
           /\ register' \in {register, Stored(Code[n + 1][1], Code[n + 1][2])}
           /\ selected' \in {selected, Code[n + 1][1]}
           /\ stray' \in BOOLEAN /\ (stray' => Ports = {})
           /\ m_gfxcode' = SubSeq(Code, n + 2, 6)
           /\ pc' = IF n = 5 THEN "kernel" ELSE "reset"
<1>1. PICK n \in 0 .. 5 : m_gfxcode = SubSeq(Code, n + 1, 6) /\ (HasAdapter => Written(n))
  BY Zenon DEF IInv, Programming, outl
<1>2. (HasAdapter => m_iostart \in Ports) /\ (HasAdapter <=> Ports # {})
  BY DEF IInv, Scanning, Driving, HasAdapter, Vmware, outl
<1>3. /\ Head(m_gfxcode) = Code[n + 1] /\ Tail(m_gfxcode) = SubSeq(Code, n + 2, 6)
      /\ Tail(m_gfxcode) = <<>> <=> n = 5
  BY <1>1, CodeSteps
<1>4. /\ HasAdapter => register' = Stored(Code[n + 1][1], Code[n + 1][2])
      /\ register' \in {register, Stored(Code[n + 1][1], Code[n + 1][2])}
      /\ selected' \in {selected, Code[n + 1][1]}
      /\ stray' \in BOOLEAN /\ (stray' => Ports = {})
      /\ m_gfxcode' = SubSeq(Code, n + 2, 6)
      /\ pc' = IF n = 5 THEN "kernel" ELSE "reset"
  <2>1. m_gfxcode' = Tail(m_gfxcode) /\ pc' = IF m_gfxcode' = <<>> THEN "kernel" ELSE "reset"
    BY DEF outl, Goto
  <2>2. /\ selected' = IF m_iostart \in Ports THEN Code[n + 1][1] ELSE selected
        /\ stray' = (stray \/ m_iostart \notin Ports)
        /\ register' = IF m_iostart \in Ports THEN Stored(Code[n + 1][1], Code[n + 1][2]) ELSE register
    BY <1>3 DEF outl, Select
  <2>3. stray' \in BOOLEAN /\ (stray' => Ports = {})
    BY <1>2, <2>2 DEF IInv, TypeInv, StrayOnlyIfAbsent
  <2> QED
    BY <1>2, <1>3, <2>1, <2>2, <2>3
<1>5. ASSUME HasAdapter PROVE Written(n + 1)'
  <2>1. register = [r \in Registers |-> register[r]]
    BY DEF IInv, TypeInv
  <2>2. n = 0 => register' = [register EXCEPT !["ENABLE"] = 0]
    <3>1. n = 0 => register' = Stored(Code[1][1], Code[1][2])
      BY <1>4, <1>5
    <3> QED
      BY <3>1, CodeStores
  <2>3. n = 1 => register' = [register EXCEPT !["WIDTH"] = 1024]
    <3>1. n = 1 => register' = Stored(Code[2][1], Code[2][2])
      BY <1>4, <1>5
    <3> QED
      BY <3>1, CodeStores
  <2>4. n = 2 => register' = [register EXCEPT !["HEIGHT"] = 768]
    <3>1. n = 2 => register' = Stored(Code[3][1], Code[3][2])
      BY <1>4, <1>5
    <3> QED
      BY <3>1, CodeStores
  <2>5. n = 3 => register' = [register EXCEPT !["BITS_PER_PIXEL"] = 32]
    <3>1. n = 3 => register' = Stored(Code[4][1], Code[4][2])
      BY <1>4, <1>5
    <3> QED
      BY <3>1, CodeStores
  <2>6. n = 4 => register' = register
    <3>1. n = 4 => register' = Stored(Code[5][1], Code[5][2])
      BY <1>4, <1>5
    <3> QED
      BY <3>1, CodeStores
  <2>7. n = 5 => register' = [register EXCEPT !["ENABLE"] = 1]
    <3>1. n = 5 => register' = Stored(Code[6][1], Code[6][2])
      BY <1>4, <1>5
    <3> QED
      BY <3>1, CodeStores
  <2>8. Registers = {"WIDTH", "HEIGHT", "BITS_PER_PIXEL", "BYTES_PER_LINE", "FB_START", "FB_SIZE",
                     "ENABLE"}
    BY DEF Registers, Mode, ReadOnly
  <2>9. CASE n \in 0 .. 2
    BY <1>1, <1>5, <2>1, <2>2, <2>3, <2>4, <2>8, <2>9 DEF Written
  <2>10. CASE n \in 3 .. 5
    BY <1>1, <1>5, <2>1, <2>5, <2>6, <2>7, <2>8, <2>10 DEF Written
  <2> QED
    BY <2>9, <2>10
<1> QED
  BY <1>1, <1>4, <1>5

LEMMA OutlStep ==
  ASSUME IInv, outl
  PROVE  IInv'
<1>1. PICK n \in 0 .. 5 :
           /\ HasAdapter => Written(n + 1)'
           /\ register' \in {register, Stored(Code[n + 1][1], Code[n + 1][2])}
           /\ selected' \in {selected, Code[n + 1][1]}
           /\ stray' \in BOOLEAN /\ (stray' => Ports = {})
           /\ m_gfxcode' = SubSeq(Code, n + 2, 6)
           /\ pc' = IF n = 5 THEN "kernel" ELSE "reset"
  BY Write
<1>2. UNCHANGED <<host, m_fb, told, scanned, gfx, driver>> /\ pc = "reset" /\ Vmware
  BY DEF outl, IInv, Driving
<1>7. Base' = Base /\ (Vmware' <=> Vmware) /\ (HasAdapter' <=> HasAdapter) /\ Ports' = Ports
  BY <1>2, HostKept
<1>3. TypeInv'
  <2>1. selected' \in Registers
    <3>1. \A m \in 1 .. 6 : Code[m][1] \in Registers
      BY CodeWrites DEF Registers, Mode, ReadOnly
    <3> QED
      BY <1>1, <3>1 DEF IInv, TypeInv
  <2>2. register' = [r \in Registers |-> register'[r]]
    BY <1>1 DEF IInv, TypeInv, Stored
  <2> QED
    BY <1>1, <1>2, <2>1, <2>2 DEF IInv, TypeInv
<1>4. Telling' /\ Driving' /\ StrayOnlyIfAbsent'
  BY <1>1, <1>2, <1>7 DEF IInv, Telling, Driving, StrayOnlyIfAbsent, Default, Early, Asking
<1>5. Scanning'
  BY <1>1, <1>2, <1>7 DEF IInv, Scanning, Asking, gfx
<1>6. Programming'
  <2>1. CASE n = 5
    BY <1>1, <1>7, <2>1 DEF Programming, Early, Asking
  <2>2. CASE n # 5
    <3>1. n + 1 \in 0 .. 5 /\ (n + 1) + 1 = n + 2
      BY <2>2
    <3> QED
      BY <1>1, <1>7, <2>2, <3>1 DEF Programming, Early, Asking
  <2> QED
    BY <2>1, <2>2
<1> QED
  BY <1>3, <1>4, <1>5, <1>6 DEF IInv

LEMMA InvStep ==
  ASSUME IInv, [Next]_vars
  PROVE  IInv'
<1>1. CASE UNCHANGED vars
  <2>1. UNCHANGED <<host, pc, m_fb, told, scanned, gfx, m_gfxcode, adapter, stray, driver>>
    BY <1>1 DEF vars
  <2>2. TypeInv' /\ Telling' /\ Driving' /\ StrayOnlyIfAbsent'
    BY <2>1, HostKept DEF IInv, TypeInv, Telling, Driving, StrayOnlyIfAbsent, Default, adapter
  <2>3. Scanning'
    BY <2>1, HostKept DEF IInv, Scanning, gfx
  <2>4. Programming'
    BY <2>1, HostKept DEF IInv, Programming, Written, adapter
  <2> QED
    BY <2>2, <2>3, <2>4 DEF IInv
<1> QED
  BY <1>1, DriverStep, ToldStep, ScanStep, AskStep, KexecStep, OutlStep DEF Next, Main, Over

-----------------------------------------------------------------------------
(* The theorems                                                            *)

\* The ports are the adapter's, if there is one, and the program has done what it has
\* been run for, in every state and beside every driver.
THEOREM FramebufferInvariant == Spec => []IInv
<1>1. IInv /\ [Next]_vars => IInv'
  BY InvStep
<1> QED
  BY InvInit, <1>1, PTL DEF Spec

\* On every host FreeBSD is told the framebuffer's address as Linux has it, and it finds an
\* SVGA-II in the mode of its metadata whatever Linux's driver did before.
THEOREM ModeTold == Spec => []ModeAsTold
<1>1. ASSUME IInv, pc = "kernel"
      PROVE  /\ told.phys = IF host.id = "EFI VGA" THEN host.smem_start ELSE host.lfb_base
             /\ HasAdapter => register["ENABLE"] = 1 /\ register["BITS_PER_PIXEL"] = 32
             /\ HasAdapter \/ (host.id # "vmwgfxdrmfb" /\ <<host.xres, host.yres>> = <<1024, 768>>)
                  => ShownMode = <<told.width, told.height>>
  <2>1. Default(told)
    BY <1>1 DEF IInv, Telling, Early
  <2>2. told.phys = Base /\ told.width = 1024 /\ told.height = 768
    BY <2>1 DEF Default
  <2>3. ASSUME HasAdapter
        PROVE  /\ register["ENABLE"] = 1 /\ register["BITS_PER_PIXEL"] = 32
               /\ register["WIDTH"] = 1024 /\ register["HEIGHT"] = 768
    BY <1>1, <2>3 DEF IInv, Programming, Written
  <2>4. HasAdapter => ShownMode = <<told.width, told.height>>
    <3>1. HasAdapter => ShownMode = <<register["WIDTH"], register["HEIGHT"]>>
      BY DEF ShownMode
    <3> QED
      BY <2>2, <2>3, <3>1
  <2>5. ~HasAdapter /\ <<host.xres, host.yres>> = <<1024, 768>> => ShownMode = <<told.width, told.height>>
    <3>1. ~HasAdapter => ShownMode = <<host.xres, host.yres>>
      BY DEF ShownMode
    <3> QED
      BY <2>2, <3>1
  <2>6. told.phys = IF host.id = "EFI VGA" THEN host.smem_start ELSE host.lfb_base
    BY <2>2, ZenonT(40) DEF Base
  <2>7. HasAdapter \/ (host.id # "vmwgfxdrmfb" /\ <<host.xres, host.yres>> = <<1024, 768>>)
          => ShownMode = <<told.width, told.height>>
    BY <2>4, <2>5, SMT
  <2>8. HasAdapter => register["ENABLE"] = 1 /\ register["BITS_PER_PIXEL"] = 32
    BY <2>3, SMT
  <2> QED
    BY <2>6, <2>7, <2>8, Zenon
<1>2. IInv => ModeAsTold
  BY <1>1, Zenon DEF ModeAsTold
<1> QED
  BY FramebufferInvariant, <1>2, PTL

\* On a machine with an SVGA-II, wherever it is among the devices, beastie writes to its
\* ports and to no others; on every other machine to none before the boot program runs.
THEOREM AdapterPortsFound == Spec => []StrayOnlyIfAbsent
<1>1. IInv => StrayOnlyIfAbsent
  BY DEF IInv
<1> QED
  BY FramebufferInvariant, <1>1, PTL

\* No step of the program changes the mode of an adapter that is enabled.
THEOREM DisabledWhileSet == Spec => ModeSetWhileDisabled
<1> DEFINE Kept == pc = "reset" => register["ENABLE"] = 0 \/ \A r \in Mode : register'[r] = register[r]
<1>1. IInv /\ [Next]_vars => [Kept]_vars
  <2> SUFFICES ASSUME IInv, Next, pc = "reset", register["ENABLE"] # 0
               PROVE  \A r \in Mode : register'[r] = register[r]
    OBVIOUS
  <2>1. outl
    BY DEF Next, Main, Over, driverSelects, driverWrites, InLinux, fetchFB, setDefaultResolution,
       writeMetadata, scan, selectBase, readBase, selectSize, assembleReset, kexec
  <2>5. ~HasAdapter => register' = register
    BY <2>1 DEF outl, IInv, Driving, HasAdapter, Vmware
  <2> SUFFICES ASSUME HasAdapter PROVE \A r \in Mode : register'[r] = register[r]
    BY <2>5
  <2>2. PICK n \in 0 .. 5 : Written(n) /\ register' = Stored(Code[n + 1][1], Code[n + 1][2])
    BY <2>1, Write
  <2>3. n = 0
    BY <2>2 DEF Written
  <2>4. register' = [register EXCEPT !["ENABLE"] = 0]
    <3>1. register' = Stored(Code[1][1], Code[1][2])
      BY <2>2, <2>3
    <3> QED
      BY <3>1, CodeStores
  <2> QED
    BY <2>4 DEF IInv, TypeInv, Registers, Mode
<1> QED
  BY FramebufferInvariant, <1>1, PTL DEF Spec, ModeSetWhileDisabled
=============================================================================
