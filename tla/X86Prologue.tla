---------------------------- MODULE X86Prologue ----------------------------
(***************************************************************************)
(* The first instructions of an x86 or x64 function, run where they were   *)
(* written by the processor's rules: what the relocated copy has to do.    *)
(* Addresses count bytes; the code is a function from the addresses at     *)
(* which instructions start.  An instruction is its encoding: the fields   *)
(* its length follows from, and arg, the displacement of a branch or of a  *)
(* RIP-relative operand.  The encodings of VEX, EVEX and XOP are left out. *)
(***************************************************************************)
EXTENDS Integers, Sequences

CONSTANTS
    Start,          \* address of the function
    Space32         \* number of addresses in 32-bit mode

VARIABLES
    mode,           \* 32 or 64
    code,           \* the instructions, by address
    pc,             \* address of the next instruction
    trace           \* what the code did that can be observed

vars == <<mode, code, pc, trace>>

-----------------------------------------------------------------------------
(* Length of an instruction.                                               *)

Address16(m, in) == m = 32 /\ "67" \in in.prefix

(* Bytes of displacement after the ModRM byte and the SIB byte.            *)
Disp(m, in) ==
    CASE in.mod = 3 -> 0
      [] in.mod = 1 -> 1
      [] in.mod = 2 -> IF Address16(m, in) THEN 2 ELSE 4
      [] OTHER -> IF Address16(m, in) THEN (IF in.rm = 6 THEN 2 ELSE 0)
                  ELSE IF in.rm = 5 \/ (in.rm = 4 /\ in.base = 5) THEN 4 ELSE 0

HasSib(m, in) == in.mod # 3 /\ in.rm = 4 /\ ~Address16(m, in)

AddressBytes(m, in) ==
    IF m = 64 THEN (IF "67" \in in.prefix THEN 4 ELSE 8)
    ELSE IF "67" \in in.prefix THEN 2 ELSE 4

(* The immediates by the manual's names: b, w, z and v; w and b of enter,  *)
(* the far pointer of call and jmp, and the address in the moves between   *)
(* the accumulator and memory (moffs8 for those of a byte).                *)
ImmBytes(m, in) ==
    CASE in.imm = "b" -> 1
      [] in.imm = "w" -> 2
      [] in.imm = "z" -> IF "66" \in in.prefix /\ "W" \notin in.rex THEN 2 ELSE 4
      [] in.imm = "v" -> IF "W" \in in.rex THEN 8 ELSE IF "66" \in in.prefix THEN 2 ELSE 4
      [] in.imm = "enter" -> 3
      [] in.imm = "far" -> IF "66" \in in.prefix THEN 4 ELSE 6
      [] in.imm \in {"moffs8", "moffs"} -> AddressBytes(m, in)
      [] OTHER -> 0

PrefixBytes(in) ==
    in.others + (IF "66" \in in.prefix THEN 1 ELSE 0) + (IF "67" \in in.prefix THEN 1 ELSE 0)
        + (IF in.rex = {} THEN 0 ELSE 1)

Length(m, in) ==
    PrefixBytes(in) + in.opcodes
        + (IF in.modrm THEN 1 + (IF HasSib(m, in) THEN 1 ELSE 0) + Disp(m, in) ELSE 0)
        + ImmBytes(m, in)

RipRelative(m, in) == m = 64 /\ in.modrm /\ in.mod = 0 /\ in.rm = 5

Conditional(in) == in.kind \in {"jcc8", "jcc32", "loop"}
Jump(in) == in.kind \in {"jmp8", "jmp"}
Branch(in) == Conditional(in) \/ Jump(in) \/ in.kind = "call"

(* others counts the prefixes that no length depends on; operands and      *)
(* default64 are what the decoder's opcode map says of the instruction.    *)
Encodings ==
    [kind : {"plain", "sse", "call", "jmp", "jmp8", "jcc8", "jcc32", "loop"},
     prefix : SUBSET {"66", "67"}, others : Nat, rex : SUBSET {"W", "R", "X", "B"},
     opcodes : 1 .. 3, operands : BOOLEAN, default64 : BOOLEAN,
     modrm : BOOLEAN, mod : 0 .. 3, rm : 0 .. 7, base : 0 .. 7,
     imm : {"none", "b", "w", "z", "v", "enter", "far", "moffs8", "moffs"}, arg : Int]

(* Instructions of a mode: REX is 64-bit, far pointers are 32-bit, and the *)
(* branches are the direct ones without a prefix.                          *)
Instructions(m) ==
    {in \in Encodings :
        /\ m = 32 => in.rex = {}
        /\ in.imm = "far" => m = 32
        /\ in.imm \in {"v", "enter", "far", "moffs8", "moffs"} => ~in.modrm /\ ~in.default64
        /\ Branch(in) => ~in.modrm /\ in.prefix = {} /\ in.others = 0 /\ in.rex = {}}

(* Code in which an instruction starts at Start, and behind every one that *)
(* starts in its first n bytes.                                            *)
IsCode(m, c, n) ==
    /\ c \in [DOMAIN c -> Instructions(m)] /\ DOMAIN c \subseteq Nat
    /\ Start \in DOMAIN c
    /\ \A a \in DOMAIN c : a < Start + n => a + Length(m, c[a]) \in DOMAIN c
    /\ \A a, b \in DOMAIN c : a < b => a + Length(m, c[a]) <= b
    /\ m = 32 => \A a \in DOMAIN c : a < Space32

-----------------------------------------------------------------------------
(* Running it.                                                             *)

Wrap(m, a) == IF m = 32 THEN a % Space32 ELSE a

Init == pc = Start /\ trace = <<>>

(* One instruction; a call pushes ret.                                     *)
Runs(taken, ret) ==
    LET in == code[pc]
        next == pc + Length(mode, in)
        operand == Wrap(mode, next + in.arg)
    IN  /\ pc \in DOMAIN code
        /\ pc' = IF Jump(in) \/ (Conditional(in) /\ taken) THEN operand ELSE next
        /\ trace' = CASE in.kind = "call" -> Append(trace, <<"call", operand, ret>>)
                      [] Jump(in) \/ Conditional(in) -> trace
                      [] RipRelative(mode, in) -> Append(trace, <<"memory", operand>>)
                      [] OTHER -> Append(trace, <<"run", pc>>)
        /\ UNCHANGED <<mode, code>>

ReturnAddress == Wrap(mode, pc + Length(mode, code[pc]))

Next == \E taken \in BOOLEAN : Runs(taken, ReturnAddress)
=============================================================================
