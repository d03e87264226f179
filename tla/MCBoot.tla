------------------------------- MODULE MCBoot -------------------------------
(* The boot loader on machines with few, three and as many regions as fit. *)
EXTENDS Boot

MCEntries == {1, 3, 102}

(* .bss is after .data, within the image of 152 blocks *)
MCBssStart == KernelNew + 98 * 512
MCBssSize == 9216
=============================================================================
