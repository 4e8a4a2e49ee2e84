---------------------------- MODULE MCFramebuffer ----------------------------
(***************************************************************************)
(* Values for TLC: framebuffers below and above the half of an address,    *)
(* the adapter anywhere among other devices of its vendor and of others,   *)
(* or not there at all.                                                    *)
(***************************************************************************)
EXTENDS Framebuffer

MC_HalfAddress == 1000
MC_DriverValues == {0, 800}

Dev(vmware, svga2, port) == [vmware |-> vmware, svga2 |-> svga2, bar0 |-> port]
Svga2  == Dev(TRUE, TRUE, 4208)
Others == {Dev(TRUE, FALSE, 16), Dev(FALSE, TRUE, 32)}

MC_Present == {<<Svga2>>} \cup {<<Svga2, d>> : d \in Others} \cup {<<d, Svga2, e>> : d, e \in Others}
MC_Absent  == {<<>>} \cup {<<d>> : d \in Others}

MC_Hosts ==
  [id : {"vmwgfxdrmfb"}, smem_start : {9}, lfb_base : {7, 5007}, xres : {800}, yres : {600, 768},
   devices : MC_Present \cup MC_Absent]
  \cup
  [id : {"EFI VGA", "other"}, smem_start : {9, 5009}, lfb_base : {7, 5007}, xres : {800, 1024},
   yres : {600, 768}, devices : MC_Present \cup MC_Absent]
=============================================================================
