------------------------------- MODULE MCDump -------------------------------
(* Instances of Dump for TLC: three images, one of them empty, so that the *)
(* loops have a first, an empty and a last image.  target' of DumpFile     *)
(* ranges over Seq(Chunk), of which TLC only tests membership.             *)
EXTENDS Dump

MCImages == <<1, 0, 2>>
=============================================================================
