---------------------------- MODULE MCKernelBoot ----------------------------
(* Instances of KernelBoot for TLC.                                        *)
EXTENDS KernelBoot

CONSTANTS c1, c2, c3
=============================================================================
