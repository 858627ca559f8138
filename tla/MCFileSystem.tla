----------------------------- MODULE MCFileSystem -----------------------------
(***************************************************************************)
(* The instances of FileSystem for TLC.  Names are compared for equality   *)
(* only, so permuting them changes nothing.                                *)
(***************************************************************************)
EXTENDS FileSystem

NameSymmetry == Permutations(Names)

=============================================================================
