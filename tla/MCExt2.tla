------------------------------- MODULE MCExt2 -------------------------------
(***************************************************************************)
(* Small disks for TLC: one direct block and two pointers in a block, so   *)
(* that block 2 of a file is on the first, 5 on the second and 7 on the    *)
(* third level.                                                            *)
(***************************************************************************)
EXTENDS Ext2

DataWords == {-1}
DotsWord == -2
=============================================================================
