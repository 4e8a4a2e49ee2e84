----------------------------- MODULE Framebuffer -----------------------------
(***************************************************************************)
(* The framebuffer on its way from Linux to FreeBSD: fetchFB asks for it,  *)
(* setDefaultResolution overrides the mode, writeMetadata tells FreeBSD    *)
(* of it, and for VMware's framebuffer BootAssembler embeds a program of   *)
(* port writes that sets the mode, whether CVmwaregfx has found the ports  *)
(* of an SVGA-II adapter or not (an SVGA-III has none).  CVmwaregfx also   *)
(* talks to the adapter at once, while Linux's own driver uses the same    *)
(* pair of ports: one selects a register, the other, one above, is the     *)
(* selected register.                                                      *)
(*                                                                         *)
(* Colour masks and the memory's size are left out.                        *)
(***************************************************************************)
EXTENDS Integers, Sequences

CONSTANTS
  HalfAddress,  \* 2^32: boot_params has the address in two halves
  Hosts,        \* what Linux answers
  DriverValues  \* what Linux's driver may write to a register

\* A device on the PCI bus, and the start of its first resource.
Device == [vmware : BOOLEAN, svga2 : BOOLEAN, bar0 : 1 .. 65534]
\* Linux has fb0's address twice: from its driver, and as the boot parameters had it.
Host   == [id : {"EFI VGA", "vmwgfxdrmfb", "other"}, smem_start : Nat, lfb_base : Nat,
           xres : Nat, yres : Nat, devices : Seq(Device)]

IsSVGA2(d) == d.vmware /\ d.svga2

\* A machine has one SVGA-II, or none (README.md).
ASSUME AdapterAssumption ==
  /\ HalfAddress \in Nat \ {0}
  /\ Hosts \subseteq Host
  /\ \A h \in Hosts : \A n, m \in DOMAIN h.devices :
       IsSVGA2(h.devices[n]) /\ IsSVGA2(h.devices[m]) => n = m

\* SVGA_REG_..., by name; the adapter has its own idea of the bytes per line.
Mode      == {"WIDTH", "HEIGHT", "BITS_PER_PIXEL"}
ReadOnly  == {"BYTES_PER_LINE", "FB_START", "FB_SIZE"}
Registers == Mode \cup ReadOnly \cup {"ENABLE"}

VARIABLES
  host,
  pc,
  m_fb,
  told,             \* the efifb of the metadata
  scanned,          \* devices CVmwaregfx has looked at
  m_present, m_iostart, m_fbbase,
  m_gfxcode,        \* the port writes still to do
  selected, register, \* the adapter
  stray,            \* has anything been written to other ports?
  driver            \* has Linux's driver selected, and not yet written, a register?

gfx     == <<m_present, m_iostart, m_fbbase>>
adapter == <<selected, register>>
vars    == <<host, pc, m_fb, told, scanned, gfx, m_gfxcode, adapter, stray, driver>>

NoFb == [phys |-> 0, width |-> 0, height |-> 0]
Ports  == {d.bar0 : d \in {host.devices[n] : n \in {m \in DOMAIN host.devices : IsSVGA2(host.devices[m])}}}

\* Is fb0 that of an adapter with ports?
HasAdapter == host.id = "vmwgfxdrmfb" /\ Ports # {}

Init ==
  /\ host \in Hosts
  /\ pc = "fetchFB"
  /\ m_fb = NoFb /\ told = NoFb /\ scanned = 0
  /\ m_present = FALSE /\ m_iostart = 0 /\ m_fbbase = 0
  /\ m_gfxcode = <<>>
  /\ selected = "ENABLE"
  /\ register = [r \in Registers |->
       CASE r = "ENABLE" -> 1 [] r = "WIDTH" -> host.xres [] r = "HEIGHT" -> host.yres
         [] OTHER -> 32]
  /\ stray = FALSE /\ driver = FALSE

-----------------------------------------------------------------------------
(* The adapter                                                             *)

Stored(r, v) == IF r \in ReadOnly THEN register ELSE [register EXCEPT ![r] = v]

\* Where the port is not the adapter's, something else gets what is written.
Select(port, r) ==
  /\ selected' = IF port \in Ports THEN r ELSE selected
  /\ stray' = (stray \/ port \notin Ports)

\* Until kexec the driver may select and then write registers.
InLinux == pc \notin {"reset", "kernel"}
driverSelects ==
  /\ InLinux /\ HasAdapter /\ ~driver
  /\ selected' \in Registers /\ driver' = TRUE
  /\ UNCHANGED <<host, pc, m_fb, told, scanned, gfx, m_gfxcode, register, stray>>
driverWrites ==
  /\ InLinux /\ driver
  /\ \E v \in DriverValues : register' = Stored(selected, v)
  /\ driver' = FALSE
  /\ UNCHANGED <<host, pc, m_fb, told, scanned, gfx, m_gfxcode, selected, stray>>

-----------------------------------------------------------------------------
(* beastie under Linux                                                     *)

Goto(label) == pc' = label

\* si.lfb_base and si.ext_lfb_base together.
lfb == (host.lfb_base % HalfAddress) + (host.lfb_base \div HalfAddress) * HalfAddress

fetchFB ==
  /\ pc = "fetchFB"
  /\ m_fb' = [phys |-> IF host.id = "EFI VGA" THEN host.smem_start ELSE lfb,
              width |-> host.xres, height |-> host.yres]
  /\ Goto("setDefaultResolution")
  /\ UNCHANGED <<host, told, scanned, gfx, m_gfxcode, adapter, stray, driver>>

setDefaultResolution ==
  /\ pc = "setDefaultResolution"
  /\ m_fb' = [m_fb EXCEPT !.width = 1024, !.height = 768]
  /\ Goto("writeMetadata")
  /\ UNCHANGED <<host, told, scanned, gfx, m_gfxcode, adapter, stray, driver>>

\* The framebuffer's record; then BootAssembler's constructor.
writeMetadata ==
  /\ pc = "writeMetadata"
  /\ told' = m_fb
  /\ Goto(IF host.id = "vmwgfxdrmfb" THEN "scan" ELSE "kexec")
  /\ UNCHANGED <<host, m_fb, scanned, gfx, m_gfxcode, adapter, stray, driver>>

\* Broken: by the vendor alone.
Matches_Vendor(d) == d.vmware

Matches(d) == d.vmware /\ d.svga2

\* CVmwaregfx's constructor: the last device that matches stays.  Without one m_iostart
\* stays zero, and the caller of assembleReset does not ask isPresent().
scan ==
  /\ pc = "scan"
  /\ \/ /\ scanned < Len(host.devices)
        /\ scanned' = scanned + 1
        /\ LET d == host.devices[scanned + 1]
           IN  IF Matches(d) THEN m_present' = TRUE /\ m_iostart' = d.bar0
               ELSE UNCHANGED <<m_present, m_iostart>>
        /\ UNCHANGED pc
     \/ /\ scanned = Len(host.devices)
        /\ Goto(IF m_present THEN "selectBase" ELSE "assembleReset")
        /\ UNCHANGED <<scanned, m_present, m_iostart>>
  /\ UNCHANGED <<host, m_fb, told, m_fbbase, m_gfxcode, adapter, stray, driver>>

\* read(SVGA_REG_FB_START), and of the size likewise, select and read in two calls.
selectBase ==
  /\ pc = "selectBase"
  /\ Select(m_iostart, "FB_START")
  /\ Goto("readBase")
  /\ UNCHANGED <<host, m_fb, told, scanned, gfx, m_gfxcode, register, driver>>
readBase ==
  /\ pc = "readBase"
  /\ m_fbbase' = register[selected]
  /\ Goto("selectSize")
  /\ UNCHANGED <<host, m_fb, told, scanned, m_present, m_iostart, m_gfxcode, adapter, stray, driver>>
selectSize ==
  /\ pc = "selectSize"
  /\ Select(m_iostart, "FB_SIZE")
  /\ Goto("assembleReset")
  /\ UNCHANGED <<host, m_fb, told, scanned, gfx, m_gfxcode, register, driver>>

\* Broken: enabled before the mode is set; width and height swapped.
Reset_Early(w, h)   == <<<<"ENABLE", 0>>, <<"ENABLE", 1>>, <<"WIDTH", w>>, <<"HEIGHT", h>>, <<"BITS_PER_PIXEL", 32>>>>
Reset_Swapped(w, h) == <<<<"ENABLE", 0>>, <<"WIDTH", h>>, <<"HEIGHT", w>>, <<"BITS_PER_PIXEL", 32>>, <<"ENABLE", 1>>>>

Reset(w, h) ==
  <<<<"ENABLE", 0>>, <<"WIDTH", w>>, <<"HEIGHT", h>>, <<"BITS_PER_PIXEL", 32>>,
    <<"BYTES_PER_LINE", h * 4>>, <<"ENABLE", 1>>>>

assembleReset ==
  /\ pc = "assembleReset"
  /\ m_gfxcode' = Reset(m_fb.width, m_fb.height)
  /\ Goto("kexec")
  /\ UNCHANGED <<host, m_fb, told, scanned, gfx, adapter, stray, driver>>

-----------------------------------------------------------------------------
(* The boot program, alone on the machine                                  *)

kexec ==
  /\ pc = "kexec"
  /\ Goto(IF m_gfxcode = <<>> THEN "kernel" ELSE "reset")
  /\ UNCHANGED <<host, m_fb, told, scanned, gfx, m_gfxcode, adapter, stray, driver>>

\* The next write: to the first port its register, to the second its value.
outl ==
  /\ pc = "reset"
  /\ LET w == Head(m_gfxcode)
     IN  /\ Select(m_iostart, w[1])
         /\ register' = IF m_iostart \in Ports THEN Stored(w[1], w[2]) ELSE register
  /\ m_gfxcode' = Tail(m_gfxcode)
  /\ Goto(IF m_gfxcode' = <<>> THEN "kernel" ELSE "reset")
  /\ UNCHANGED <<host, m_fb, told, scanned, gfx, driver>>

Main == fetchFB \/ setDefaultResolution \/ writeMetadata \/ scan \/ selectBase \/ readBase
          \/ selectSize \/ assembleReset \/ kexec \/ outl
Over == pc = "kernel" /\ UNCHANGED vars

Next == Main \/ driverSelects \/ driverWrites \/ Over

Spec == Init /\ [][Next]_vars

-----------------------------------------------------------------------------
(* Properties                                                              *)

\* What is on the screen of an adapter with ports; of another, what Linux left there.
ShownMode == IF HasAdapter THEN <<register["WIDTH"], register["HEIGHT"]>>
             ELSE <<host.xres, host.yres>>

\* At the kernel's entry a VMware adapter is enabled and shows the mode FreeBSD was told
\* of, whatever Linux's driver and CVmwaregfx wrote between each other's selections
\* before; with another framebuffer, FreeBSD is right if the mode was the default one.
\* The address it was told is the one Linux has, above 4 GiB as well.
ModeAsTold ==
  pc = "kernel" =>
    /\ told.phys = IF host.id = "EFI VGA" THEN host.smem_start ELSE host.lfb_base
    /\ HasAdapter => register["ENABLE"] = 1 /\ register["BITS_PER_PIXEL"] = 32
    /\ HasAdapter \/ (host.id # "vmwgfxdrmfb" /\ <<host.xres, host.yres>> = <<1024, 768>>)
         => ShownMode = <<told.width, told.height>>

\* beastie finds the adapter's ports among several devices, some of the same vendor.  It
\* writes others only on a machine where no device has them, and there not before the
\* boot program runs: never under Linux.
StrayOnlyIfAbsent == stray => Ports = {} /\ pc \in {"reset", "kernel"}

\* bootassembler.cxx:50, "generate VGA reset code if needed", and cgfx.hxx:12, "Is there a
\* vmware graphics card in this system?": only an adapter's ports are ever written.
OnlyAdapterPorts == ~stray

\* The program changes the mode only while the adapter is disabled.
ModeSetWhileDisabled ==
  [][pc = "reset" => register["ENABLE"] = 0 \/ \A r \in Mode : register'[r] = register[r]]_vars
=============================================================================
