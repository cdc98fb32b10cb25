-------------------------- MODULE MCArchiveEmbed ---------------------------
(* Instance of ArchiveEmbed for TLC: a bill of two versions, another of one. *)
EXTENDS ArchiveEmbed

BillOfDef == <<1, 1, 2>>
====
