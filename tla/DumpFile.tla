------------------------------ MODULE DumpFile ------------------------------
(***************************************************************************)
(* What a reader of files/dump.cs may rely on, whatever happens to the     *)
(* game: the file is emptied only by a writer that already has the whole   *)
(* dump in hand, it then grows chunk by chunk in the order of that dump,   *)
(* and the writer may stop anywhere.  So the file is absent, or holds a    *)
(* beginning of one dump; it never mixes two.                              *)
(***************************************************************************)
EXTENDS Naturals, Sequences

CONSTANT Chunk      \* what a dump is made of

VARIABLES
    file,           \* <<>> for no file, <<chunks>> for its contents
    writing,        \* has a process the file open?
    target          \* the dump that process is writing

vars == <<file, writing, target>>

Init == file = <<>> /\ writing = FALSE /\ target = <<>>

Truncate ==
    /\ ~writing
    /\ file' = <<<<>>>> /\ writing' = TRUE
    /\ target' \in Seq(Chunk)

AppendChunk ==
    /\ writing /\ Len(file[1]) < Len(target)
    /\ file' = <<Append(file[1], target[Len(file[1]) + 1])>>
    /\ UNCHANGED <<writing, target>>

Stop ==
    /\ writing
    /\ writing' = FALSE /\ target' = <<>>
    /\ UNCHANGED file

Next == Truncate \/ AppendChunk \/ Stop

Spec == Init /\ [][Next]_vars
=============================================================================
