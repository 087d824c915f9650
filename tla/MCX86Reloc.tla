----------------------------- MODULE MCX86Reloc -----------------------------
(* Instances of X86Reloc for TLC: functions whose first two instructions   *)
(* are any of the kinds below, followed by a push and a long store, so     *)
(* that the copy expands past the first chunk.                             *)
EXTENDS X86Reloc

In(kind, prefix, rex, opcodes, imm, arg) ==
    [kind |-> kind, prefix |-> prefix, others |-> 0, rex |-> rex, opcodes |-> opcodes,
     operands |-> TRUE, default64 |-> kind \in {"call", "jmp"}, modrm |-> FALSE, mod |-> 0, rm |-> 0, base |-> 0, imm |-> imm, arg |-> arg]
ModRM(in, mod, rm, base) == [in EXCEPT !.modrm = TRUE, !.mod = mod, !.rm = rm, !.base = base]

Push == In("plain", {}, {}, 1, "none", 0)
Branches ==
    {In("jcc8", {}, {}, 1, "b", 90), In("jmp8", {}, {}, 1, "b", -60),
     In("call", {}, {}, 1, "z", 500), In("jmp", {}, {}, 1, "z", -300),
     In("jcc32", {}, {}, 2, "z", 700), In("loop", {}, {}, 1, "b", 40)}
Stores == {ModRM(In("plain", {}, {}, 1, "none", 60), r[1], r[2], r[3]) :
               r \in {<<3, 0, 0>>, <<1, 5, 0>>, <<0, 5, 0>>, <<0, 4, 4>>, <<0, 4, 5>>, <<0, 4, 7>>,
                      <<1, 4, 7>>}}
Others ==
    {ModRM(In("sse", {}, {}, 2, "none", 0), 3, 0, 0),
     [ModRM(Push, 3, 0, 0) EXCEPT !.operands = FALSE],
     ModRM(In("plain", {"66"}, {}, 1, "z", 0), 3, 0, 0),
     [In("plain", {"66"}, {}, 1, "z", 0) EXCEPT !.default64 = TRUE],
     In("plain", {"66"}, {}, 1, "moffs", 0), In("plain", {}, {}, 1, "moffs8", 0),
     In("plain", {}, {}, 1, "enter", 0), [In("plain", {}, {}, 1, "w", 0) EXCEPT !.others = 1]}
Only64 ==
    {In("plain", {}, {"W"}, 1, "v", 0), ModRM(In("plain", {}, {"W"}, 1, "b", -80), 0, 5, 0),
     ModRM(In("plain", {}, {"W", "B"}, 1, "z", 0), 0, 4, 5),
     ModRM(In("plain", {"66"}, {"W"}, 1, "z", 70), 0, 5, 0),
     In("plain", {"67"}, {"W"}, 1, "moffs", 0)}
Only32 ==
    {ModRM(In("plain", {"67"}, {}, 1, "none", 0), 0, 6, 0),
     ModRM(In("plain", {"67"}, {}, 1, "none", 0), 0, 4, 0),
     In("plain", {}, {}, 1, "far", 0), In("plain", {}, {}, 1, "moffs", 0)}

Instrs(m) == {Push} \cup Branches \cup Stores \cup Others \cup (IF m = 64 THEN Only64 ELSE Only32)
LongStore(m) == ModRM(In("plain", {}, IF m = 64 THEN {"W"} ELSE {}, 1, "z", 35), 0, 5, 0)

(* A sequence of instructions from Start on.                               *)
AddressOf(m, s, k) ==
    FoldLeft(LAMBDA a, in : a + InPlace!Length(m, in), Start, SubSeq(s, 1, k - 1))
Placed(m, s) ==
    [a \in {AddressOf(m, s, k) : k \in DOMAIN s} |->
        s[CHOOSE k \in DOMAIN s : AddressOf(m, s, k) = a]]

SomePrograms(m) ==
    {Placed(m, <<a, b, Push, LongStore(m), LongStore(m)>>) : a \in Instrs(m), b \in Instrs(m)}
SomeChunks == {100, 1700, 4000}
SomeStubs == {30, 967, 976, 3000}
=============================================================================
