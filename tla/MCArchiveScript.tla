--------------------------- MODULE MCArchiveScript ---------------------------
(* Instances of ArchiveScript for TLC. *)
EXTENDS ArchiveScript

CONSTANTS m1, m2, a1, a2

MCGroups == <<a1, a2>>
=============================================================================
