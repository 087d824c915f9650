------------------------------ MODULE Prologue ------------------------------
(***************************************************************************)
(* The first instructions of a function, run where they were written: what *)
(* the relocated copy behind origin_call has to do.  Addresses count       *)
(* 4-byte instructions.  trace lists what the code did that can be         *)
(* observed: a load with its width, a call with what it leaves in the link *)
(* register; a call returns to the next instruction.                       *)
(***************************************************************************)
EXTENDS Integers, Sequences

CONSTANTS
    Start,          \* address of the function
    Page            \* instructions in a page, for adrp

VARIABLES
    code,           \* the instructions a trampoline will overwrite
    pc,             \* address of the next instruction
    trace

vars == <<code, pc, trace>>

PageOf(a) == a - (a % Page)
Inside(a) == a \in Start .. Start + Len(code) - 1

Init == pc = Start /\ trace = <<>>

(* ldr Wt reads 4 bytes, ldr Xt 8.                                         *)
Bytes(in) == IF in.op = "ldrw" THEN 4 ELSE 8

(* What an instruction at address a does, loading that many bytes or       *)
(* leaving that link.                                                      *)
Effect(in, a, bytes, link) ==
    CASE in.op = "plain" -> <<<<"plain", in.arg>>>>
      [] in.op \in {"ldr", "ldrw"} -> <<<<"load", a + in.arg, bytes>>>>
      [] in.op = "adr" -> <<<<"address", a + in.arg>>>>
      [] in.op = "adrp" -> <<<<"address", PageOf(a) + in.arg * Page>>>>
      [] in.op = "bl" -> <<<<"call", a + in.arg, link>>>>
      [] OTHER -> <<>>

Target(in, a, taken) == IF in.op = "b" \/ (in.op = "cond" /\ taken) THEN a + in.arg ELSE a + 1

Does(taken, bytes, link) ==
    /\ Inside(pc)
    /\ LET in == code[pc - Start + 1]
       IN  /\ trace' = trace \o Effect(in, pc, bytes, link)
           /\ pc' = Target(in, pc, taken)
    /\ UNCHANGED code

Step(taken) == Does(taken, Bytes(code[pc - Start + 1]), pc + 1)

Next == \E taken \in BOOLEAN : Step(taken)

Spec == Init /\ [][Next]_vars
=============================================================================
