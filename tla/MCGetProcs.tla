----------------------------- MODULE MCGetProcs -----------------------------
(* GetProcs with every table size from the empty one to one entry more     *)
(* than there are slots.                                                   *)
EXTENDS GetProcs

MCArgs == 0..NPROC + 1
=============================================================================
