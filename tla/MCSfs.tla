-------------------------------- MODULE MCSfs --------------------------------
(* Two files, two descriptors, blocks of two bytes and a disk that is full      *)
(* before a file reaches its greatest size, as the disk of the kernel is.       *)
EXTENDS Sfs, TLC

Symmetry == Permutations(File) \cup Permutations(Handle)
=============================================================================
