---------------------------- MODULE MCArm64Reloc ----------------------------
(* Instances of Arm64Reloc for TLC: every prologue of a three-instruction  *)
(* trampoline whose calls and literals lie outside it; its branches may    *)
(* lead back into it.                                                      *)
EXTENDS Arm64Reloc

Size == 3
In(op, arg) == [op |-> op, arg |-> arg]
Outside(a) == a \notin Start .. Start + Size - 1
At1(k) == Start + k - 1

Instrs(k) ==
    {In("plain", 1), In("ldrsw", 5), In("adr", 1), In("adrp", 0), In("adrp", 1)}
    \cup {In(op, off) : op \in {"ldr", "ldrw", "b", "bl", "cond"},
                        off \in {o \in {-7, 5} : Outside(At1(k) + o)}}
    \cup {In(op, -1) : op \in {"b", "cond"}}

SomePrograms == {<<a, b, c>> : a \in Instrs(1), b \in Instrs(2), c \in Instrs(3)}
SomeAddresses == {0, 1, 3, 4, 9, 12, 15, 16, 17, 24}
=============================================================================
