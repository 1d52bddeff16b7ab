-------------------------------- MODULE MCVfs --------------------------------
(* Two processes, two descriptors each, the root directory and a second one, *)
(* one file.                                                                   *)
EXTENDS Vfs, TLC

MCFd == {1, 2}
=============================================================================
