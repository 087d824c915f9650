------------------------------ MODULE X86Reloc ------------------------------
(***************************************************************************)
(* Hooking an x86 or x64 function: its trampoline (trampoline-x86.cc,      *)
(* trampoline-x64.cc), the decoder that finds the instructions under it    *)
(* (x86_insn_decode.c) and GenRelocateCodeAndBranch, which copies them to  *)
(* a chunk, taking a larger one for as long as the copy does not fit.      *)
(*                                                                         *)
(* The copy is then executed, one instruction per step.  An instruction    *)
(* the decoder measures wrongly is "torn": what the decoder makes of the   *)
(* bytes behind it depends on data the model leaves out, so the copy is    *)
(* not followed past it.                                                   *)
(***************************************************************************)
EXTENDS Integers, Sequences, SequencesExt

CONSTANTS
    Start,          \* address of the hooked function
    Reach32,        \* a 32-bit displacement is in -Reach32 .. Reach32 - 1
    Programs(_),    \* functions to hook in the given mode
    Chunks,         \* addresses the arena may return
    Stubs           \* addresses of near data chunks, for x64's trampoline

Space32 == 2 * Reach32
FirstChunk == 32
ChunkStep == 16

VARIABLES
    mode,           \* conf.mode: 32 or 64
    code,           \* the function's instructions, by address
    phase,          \* "trampoline", "allocate", "relocate", then how it ended: "run",
                    \* "failed", "abort" or "torn"
    stub,           \* what the trampoline jumps to or through, 0 for none yet
    size,           \* relo_code_chunk_size
    chunk,          \* address of the chunk, 0 for none
    origin_len,     \* bytes of the function the copy stands for
    curr_orig_ip,   \* address of the instruction to decode next
    buf,            \* the copy: items with the original address each stems from
    rpc,            \* item to run next, 0 once the copy is left
    exit,           \* address the copy was left for
    trace           \* as in X86Prologue

vars == <<mode, code, phase, stub, size, chunk, origin_len, curr_orig_ip, buf, rpc,
          exit, trace>>

InPlace == INSTANCE X86Prologue WITH
               pc <- (IF phase # "run" THEN Start ELSE IF rpc = 0 THEN exit ELSE buf[rpc].src)

TrampolineSize(m) == IF m = 64 THEN 6 ELSE 5

ASSUME X86Assumption ==
    /\ Start \in Nat /\ Reach32 \in Nat \ {0}
    /\ Chunks \subseteq Nat \ {0} /\ Stubs \subseteq Nat
    /\ \A m \in {32, 64} : \A c \in Programs(m) : InPlace!IsCode(m, c, TrampolineSize(m))

Int8(x) == ((x + 128) % 256) - 128
Int32(x) == ((x + Reach32) % Space32) - Reach32
Wrap(a) == IF mode = 32 THEN a % Space32 ELSE a
Address(a) == mode = 64 \/ a < Space32

-----------------------------------------------------------------------------
(* x86_insn_decode, as far as the length and the operands go.              *)

(* The SIB base is an encoding, the names it is compared with are an enum  *)
(* of their own: RBP is 7, R13 is 14.                                      *)
RBP == 7
R13 == 14
SibBase(in) == in.base + (IF "B" \in in.rex THEN 8 ELSE 0)
SibDisp32(in) ==
    /\ in.rm = 4
    /\ SibBase(in) = RBP \/ (mode = 64 /\ "67" \notin in.prefix /\ SibBase(in) = R13)

x86_insn_decode_modrm_sib(in) ==
    IF in.mod = 3 THEN 1
    ELSE IF InPlace!Address16(mode, in) THEN 1 + InPlace!Disp(mode, in)
    ELSE 1 + (IF in.rm = 4 THEN 1 ELSE 0)
           + (CASE in.mod = 1 -> 1
                [] in.mod = 2 -> 4
                [] OTHER -> IF in.rm = 5 \/ SibDisp32(in) THEN 4 ELSE 0)

(* The 16-bit forms without a displacement leave disp_bits at -1.          *)
NoDispBits(in) ==
    /\ in.modrm /\ in.operands
    /\ InPlace!Address16(mode, in) /\ in.mod = 0 /\ in.rm # 6

(* An IP-relative operand assigns the flags, REX.W among them.             *)
LosesFlags(in) ==
    /\ in.modrm /\ in.operands
    /\ ~InPlace!Address16(mode, in) /\ in.mod = 0 /\ in.rm = 5
OperandSize64(in) == "W" \in in.rex /\ ~LosesFlags(in)

PrefixIgnored(in) == IF OperandSize64(in) \/ (mode = 64 /\ in.default64) THEN 64 ELSE 32
EffectiveOperandBits(in) ==
    IF OperandSize64(in) \/ (mode = 64 /\ in.default64) THEN 64
    ELSE IF "66" \in in.prefix THEN 16 ELSE 32

(* Type of the first immediate operand: Iw of enter, Ob and Ov of moffs;   *)
(* Ap is none.                                                             *)
x86_insn_imm_bits(in) ==
    CASE in.imm \in {"b", "moffs8"} -> 8
      [] in.imm \in {"w", "enter"} -> 16
      [] in.imm = "z" -> IF EffectiveOperandBits(in) = 64 THEN 32 ELSE EffectiveOperandBits(in)
      [] in.imm \in {"v", "moffs"} -> EffectiveOperandBits(in)
      [] OTHER -> 0

(* Bytes the reader moves on by: read_qword moves it by 4.                 *)
x86_insn_decode_number(bits) == IF bits = 64 THEN 4 ELSE bits \div 8

x86_insn_decode_prefix(in) ==
    in.others + (IF "66" \in in.prefix THEN 1 ELSE 0) + (IF "67" \in in.prefix THEN 1 ELSE 0)
        + (IF in.rex = {} THEN 0 ELSE 1)

(* A row of the opcode map without operands hides ModRM and immediate.     *)
DecodedLength(in) ==
    x86_insn_decode_prefix(in) + in.opcodes
        + (IF in.modrm /\ in.operands THEN x86_insn_decode_modrm_sib(in) ELSE 0)
        + (IF in.operands THEN x86_insn_decode_number(x86_insn_imm_bits(in)) ELSE 0)

Torn(in) == DecodedLength(in) # InPlace!Length(mode, in)

(* UNIMPLEMENTED or UNREACHABLE, in the decoder or in the relocation.      *)
Aborts(in) == in.kind \in {"sse", "loop"} \/ NoDispBits(in)

-----------------------------------------------------------------------------
(* GenRelocateCodeFixed.                                                   *)

Item(src, at, op, len, arg) == [src |-> src, at |-> at, op |-> op, len |-> len, arg |-> arg]

(* The displacement that leads from the copy to where it led from the      *)
(* original, if both instructions have the same length.                    *)
OffsetKept(orig_ip, arg, relo_ip) == arg
NewOffset(orig_ip, arg, relo_ip) == orig_ip + arg - relo_ip

(* The copy of the instruction at orig_ip, put at relo_ip; arg is the      *)
(* address its displacement leads to.                                      *)
Relocated(orig_ip, relo_ip) ==
    LET in == code[orig_ip]
        len == DecodedLength(in)
        new_offset == NewOffset(orig_ip, in.arg, relo_ip)
        It(op, n, offset) == Item(orig_ip, relo_ip, op, n, Wrap(relo_ip + n + offset))
    IN  CASE in.kind = "jcc8" -> It("jcc", 6, Int32(new_offset))
          [] in.kind = "jmp8" -> It("jmp", 5, Int8(new_offset))
          [] InPlace!RipRelative(mode, in) /\ in.operands -> It("memory", len, Int32(new_offset))
          [] in.kind \in {"call", "jmp"} -> It(in.kind, len, Int32(new_offset))
          [] in.kind = "jcc32" -> It("jcc", len, in.arg)
          [] OTHER -> Item(orig_ip, relo_ip, "run", len, orig_ip)

curr_relo_ip == IF buf = <<>> THEN chunk ELSE Last(buf).at + Last(buf).len

(* Where a core that runs the trampoline goes to, or reads its way from.   *)
InstructionStart == Start
CurrentIP == Start + TrampolineSize(mode)
JmpTarget(a) == Wrap(Start + TrampolineSize(mode) + Int32(a - CurrentIP))

(* JmpNearIndirect over the address it jumps to, or JmpNear.               *)
JmpBack ==
    IF mode = 64 THEN Item(curr_orig_ip, curr_relo_ip, "jmp", 14, curr_orig_ip)
    ELSE Item(curr_orig_ip, curr_relo_ip, "jmp", 5,
              Wrap(curr_relo_ip + 5 + Int32(curr_orig_ip - (curr_relo_ip + 5))))

CopyLen(items) == Last(items).at + Last(items).len - chunk
FitsChunk(items) == CopyLen(items) <= size

-----------------------------------------------------------------------------
Init ==
    /\ mode \in {32, 64} /\ code \in Programs(mode)
    /\ phase = "trampoline" /\ stub = 0 /\ size = FirstChunk /\ chunk = 0
    /\ origin_len = TrampolineSize(mode) /\ curr_orig_ip = Start
    /\ buf = <<>> /\ rpc = 1 /\ exit = 0 /\ trace = <<>>

NotRunning == UNCHANGED <<mode, code, rpc, exit, trace>>

(* GenerateNormalTrampolineBuffer: x64 jumps through a data chunk near the *)
(* function, x86 to the replacement itself.                                *)
GenerateNormalTrampolineBuffer(a) ==
    /\ phase = "trampoline" /\ Address(a)
    /\ mode = 64 => a \in Start - Reach32 + 1 .. Start + Reach32 - 1
    /\ stub' = a
    /\ phase' = "allocate"
    /\ NotRunning /\ UNCHANGED <<size, chunk, origin_len, curr_orig_ip, buf>>

(* AllocIndirectStub's NULL is written to.                                 *)
NoStub ==
    /\ phase = "trampoline" /\ mode = 64
    /\ phase' = "abort"
    /\ NotRunning /\ UNCHANGED <<stub, size, chunk, origin_len, curr_orig_ip, buf>>

AllocateCodeChunk(a) ==
    /\ phase = "allocate" /\ Address(a)
    /\ chunk' = a
    /\ phase' = "relocate"
    /\ NotRunning /\ UNCHANGED <<stub, size, origin_len, curr_orig_ip, buf>>

AllocateFails ==
    /\ phase = "allocate"
    /\ phase' = "failed"
    /\ NotRunning /\ UNCHANGED <<stub, size, chunk, origin_len, curr_orig_ip, buf>>

(* GenRelocateCodeFixed: its loop over the instructions, ...               *)
Decode == phase = "relocate" /\ curr_orig_ip < Start + origin_len

Unimplemented ==
    /\ Decode /\ Aborts(code[curr_orig_ip])
    /\ phase' = "abort"
    /\ NotRunning /\ UNCHANGED <<stub, size, chunk, origin_len, curr_orig_ip, buf>>

RelocateInstruction ==
    /\ Decode /\ ~Aborts(code[curr_orig_ip])
    /\ phase' = IF Torn(code[curr_orig_ip]) THEN "torn" ELSE "relocate"
    /\ buf' = Append(buf, Relocated(curr_orig_ip, curr_relo_ip))
    /\ curr_orig_ip' = curr_orig_ip + DecodedLength(code[curr_orig_ip])
    /\ NotRunning /\ UNCHANGED <<stub, size, chunk, origin_len>>

SameChunk == size
GrowChunk == size + ChunkStep

(* ... and its end: origin's range is updated before the length of the     *)
(* copy is looked at; GenRelocateCodeAndBranch starts over with a larger   *)
(* chunk (MemoryArena::Destroy frees nothing).                             *)
GenRelocateCodeFixed ==
    LET copy == Append(buf, JmpBack)
    IN  /\ phase = "relocate" /\ curr_orig_ip >= Start + origin_len
        /\ origin_len' = curr_orig_ip - Start
        /\ IF FitsChunk(copy)
           THEN phase' = "run" /\ buf' = copy /\ UNCHANGED <<size, chunk, curr_orig_ip>>
           ELSE /\ phase' = "allocate" /\ size' = GrowChunk
                /\ buf' = <<>> /\ chunk' = 0 /\ curr_orig_ip' = Start
        /\ NotRunning /\ UNCHANGED stub

-----------------------------------------------------------------------------
(* Running the copy.                                                       *)

At(ops) == phase = "run" /\ rpc # 0 /\ buf[rpc].op \in ops
Pushed(k) == Wrap(buf[k].at + buf[k].len)
InCopy == UNCHANGED <<mode, code, phase, stub, size, chunk, origin_len, curr_orig_ip, buf>>

Straight ==
    /\ At({"run", "memory", "call"})
    /\ trace' = Append(trace, IF buf[rpc].op = "call" THEN <<"call", buf[rpc].arg, Pushed(rpc)>>
                              ELSE <<buf[rpc].op, buf[rpc].arg>>)
    /\ rpc' = rpc + 1
    /\ UNCHANGED exit /\ InCopy

Taken ==
    /\ At({"jmp", "jcc"})
    /\ rpc' = 0 /\ exit' = buf[rpc].arg
    /\ UNCHANGED trace /\ InCopy

NotTaken ==
    /\ At({"jcc"})
    /\ rpc' = rpc + 1
    /\ UNCHANGED <<exit, trace>> /\ InCopy

Next ==
    \/ \E a \in Stubs : GenerateNormalTrampolineBuffer(a)
    \/ NoStub
    \/ \E a \in Chunks : AllocateCodeChunk(a)
    \/ AllocateFails \/ Unimplemented \/ RelocateInstruction \/ GenRelocateCodeFixed
    \/ Straight \/ Taken \/ NotTaken

Spec == Init /\ [][Next]_vars
FairSpec == Spec /\ WF_vars(Next)

-----------------------------------------------------------------------------
(* Properties.                                                             *)

(* What the copy is known not to do as the function does: take a short     *)
(* branch, which lands behind its target by the bytes it has grown, or a   *)
(* long conditional one, whose displacement is copied; and, in 64-bit      *)
(* mode, reach an operand that the displacement is too small for.          *)
TakesUntranslatedBranch(k) == code[buf[k].src].kind \in {"jcc8", "jmp8", "jcc32"} /\ rpc' = 0
OutOfReach(k) ==
    /\ mode = 64 /\ buf[k].op \in {"memory", "call", "jmp"}
    /\ NewOffset(buf[k].src, code[buf[k].src].arg, buf[k].at) \notin -Reach32 .. Reach32 - 1

(* A call in the copy pushes the address behind the copy, not the one      *)
(* behind the function's call, which is all that a callee that reads its   *)
(* return address to learn where it is (get_pc_thunk of 32-bit code) gets. *)
PushesCopyAddress(k) == buf[k].op = "call" /\ InPlace!Runs(FALSE, Pushed(k))

(* Every other step of the copy is the step of the function in place, in   *)
(* the same order, and the copy is left for the instruction that comes     *)
(* next in the function: from the copy's address every displacement leads  *)
(* where it led from the function, at 32 bits around the end of the        *)
(* address space too.  No step before that does anything in place.         *)
CopyRunsInPlace ==
    /\ InPlace!Init
    /\ [][\/ /\ phase = "run" /\ rpc \in 1 .. Len(buf) - 1
             /\ TakesUntranslatedBranch(rpc) \/ OutOfReach(rpc) \/ PushesCopyAddress(rpc)
          \/ InPlace!Next]_(InPlace!vars)

(* The retries end: each failure asks for more, and nothing else.          *)
RelocationEnds == <>(phase \in {"run", "failed", "abort", "torn"})

(* The encodings x86_insn_decode measures wrongly: a row of the opcode map *)
(* that lists no operands (groups 3 and 5, x87, long nops); a 64-bit       *)
(* immediate, enter, a far pointer; the address of a moffs, measured by    *)
(* the operand size; an Iz after 66, where a push is taken for 64-bit or   *)
(* REX.W is lost; and a SIB byte with mod 0 whose base is 5 or 13 (which   *)
(* bring a displacement) or has the number of the enum's RBP or R13.       *)
Misread(in) ==
    \/ ~in.operands /\ (in.modrm \/ in.imm # "none")
    \/ in.imm = "v" /\ "W" \in in.rex
    \/ in.imm \in {"enter", "far", "moffs8"}
    \/ in.imm = "moffs" /\ IF mode = 32 THEN ("66" \in in.prefix) # ("67" \in in.prefix)
                            ELSE "67" \notin in.prefix \/ ("66" \in in.prefix /\ "W" \notin in.rex)
    \/ /\ in.imm = "z" /\ "66" \in in.prefix
       /\ IF "W" \in in.rex THEN LosesFlags(in) /\ ~(mode = 64 /\ in.default64)
          ELSE mode = 64 /\ in.default64
    \/ /\ in.modrm /\ in.mod = 0 /\ InPlace!HasSib(mode, in)
       /\ \/ SibBase(in) \in {5, 13, RBP}
          \/ SibBase(in) = R13 /\ mode = 64 /\ "67" \notin in.prefix

(* Every other instruction is measured as the processor does, and none of  *)
(* these is: the copy stands for whole instructions, they cover the        *)
(* trampoline, and no more of them than that takes.                        *)
CopyIsWholeInstructions ==
    LET n == Len(buf) - 1
    IN  /\ phase = "torn" => Misread(code[Last(buf).src])
        /\ phase = "run" =>
               /\ buf[1].src = Start
               /\ \A k \in 1 .. n :
                     /\ buf[k + 1].src = buf[k].src + InPlace!Length(mode, code[buf[k].src])
                     /\ ~Misread(code[buf[k].src])
               /\ Start + origin_len = buf[n + 1].src
               /\ buf[n].src < Start + TrampolineSize(mode)
               /\ Start + TrampolineSize(mode) <= buf[n + 1].src

(* The trampoline leads to the stub wherever the near arena puts it, but   *)
(* for the first bytes of its range: it measures from the function, the    *)
(* displacement counts from the end of the jump.                           *)
TrampolineLeadsToStub ==
    phase # "trampoline" /\ stub # 0 /\ stub >= Start - Reach32 + TrampolineSize(mode) =>
        JmpTarget(stub) = stub
=============================================================================
