----------------------------- MODULE Arm64Reloc -----------------------------
(***************************************************************************)
(* GenRelocateCodeAndBranch (ARM64InstructionRelocation.cc) and the        *)
(* trampoline it makes room for (trampoline-arm64.cc).                     *)
(*                                                                         *)
(* The instructions under the trampoline are rewritten so that they work   *)
(* at another address; the copy ends with a branch back.  The copy is      *)
(* executed here word by word: a literal load reads whatever lies at its   *)
(* offset, a branch goes wherever x17 points.                              *)
(***************************************************************************)
EXTENDS Integers, Sequences

CONSTANTS
    Start,          \* address of the hooked function
    CopyAt,         \* address of the chunk that will hold the copy
    Page,           \* instructions in a page
    AdrpPages,      \* adrp reaches -AdrpPages .. AdrpPages - 1 pages
    Programs,       \* prologues to relocate, each as long as a trampoline
    Addresses       \* addresses of functions and of replacements

(* Instruction kinds; "ldr" and "ldrw" load a literal into Xt and Wt,      *)
(* "ldrsw" stands for the literal loads that are not implemented.          *)
Kinds == {"plain", "ldr", "ldrw", "ldrsw", "adr", "adrp", "b", "bl", "cond"}
Instruction == [op : Kinds, arg : Int]

ASSUME RelocAssumption ==
    /\ Start \in Nat /\ CopyAt \in Nat /\ Page \in Nat \ {0} /\ AdrpPages \in Nat \ {0}
    /\ Programs \subseteq Seq(Instruction)
    /\ Addresses \subseteq Nat

VARIABLES
    code,           \* the prologue
    replace_call,   \* address of the replacement
    phase,          \* "relocate", "bind", then "run" or "abort"
    curr_orig_pc,   \* address of the instruction to relocate next
    buf,            \* the relocated code: words, each with the instruction it stems from
    data_labels,    \* labels to bind: the data of each and the word that loads it
    rpc,            \* index into buf of the next word to run, 0 once the copy is left
    x17,            \* TMP_REG_0
    exit,           \* address the copy was left for
    trace           \* as in Prologue

relocVars == <<phase, curr_orig_pc, buf, data_labels>>
runVars == <<rpc, x17, exit, trace>>
vars == <<code, replace_call, relocVars, runVars>>

Init ==
    /\ code \in Programs /\ replace_call \in Addresses
    /\ phase = "relocate" /\ curr_orig_pc = Start /\ buf = <<>> /\ data_labels = <<>>
    /\ rpc = 1 /\ x17 = 0 /\ exit = 0 /\ trace = <<>>

-----------------------------------------------------------------------------
(* Assembler.                                                              *)

W(src, op, arg) == [src |-> src, op |-> op, arg |-> arg]

(* Mov: movz and three movk, of which the last completes the value.        *)
Mov(src, op, v) ==
    <<W(src, "movk", 0), W(src, "movk", 0), W(src, "movk", 0), W(src, op, v)>>

(* Ldr(TMP_REG_0, label): the offset is fixed when the label is bound.     *)
Ldr(src) == W(src, "ldr_literal", 0)
Label(data, use) == [data |-> data, use |-> use]

(* PseudoBind and EmitInt64: the load of the label is fixed, two words of  *)
(* data follow.                                                            *)
Bind(b, label) ==
    [b EXCEPT ![label.use].arg = Len(b) + 1 - label.use]
        \o <<W(0, "low", label.data), W(0, "high", label.data)>>

-----------------------------------------------------------------------------
(* GenRelocateCodeAndBranch: its loop over the instructions.               *)

Instr == code[curr_orig_pc - Start + 1]
Decode(op) == phase = "relocate" /\ curr_orig_pc < Start + Len(code) /\ Instr.op = op

Emit(words, labels) ==
    /\ buf' = buf \o words
    /\ data_labels' = data_labels \o labels
    /\ curr_orig_pc' = curr_orig_pc + 1
    /\ UNCHANGED <<code, replace_call, phase, runVars>>

(* ldr(W(rt), ...) and ldr(X(rt), ...): the assembler takes the size from  *)
(* OP_X(LDR), not from the register, so both load 8 bytes.                 *)
LdrSize(op) == 8

RelocateLdr(op) ==
    /\ Decode(op)
    /\ Emit(Mov(curr_orig_pc, "mov_x17", curr_orig_pc + Instr.arg)
                \o <<W(curr_orig_pc, "ldr_x17", LdrSize(op))>>, <<>>)

(* UNIMPLEMENTED() aborts the process.                                     *)
Unimplemented ==
    /\ Decode("ldrsw")
    /\ phase' = "abort"
    /\ UNCHANGED <<code, replace_call, curr_orig_pc, buf, data_labels, runVars>>

RelocateAdr ==
    /\ Decode("adr")
    /\ Emit(Mov(curr_orig_pc, "mov_xd", curr_orig_pc + Instr.arg), <<>>)

AdrpFromPc(in, pc) == pc + in.arg * Page
AdrpAddress(in, pc) == (pc - (pc % Page)) + in.arg * Page

RelocateAdrp ==
    /\ Decode("adrp")
    /\ Emit(Mov(curr_orig_pc, "mov_xd", AdrpAddress(Instr, curr_orig_pc)), <<>>)

RelocateBranch(op, jump) ==
    /\ Decode(op)
    /\ Emit(<<Ldr(curr_orig_pc), W(curr_orig_pc, jump, 0)>>,
            <<Label(curr_orig_pc + Instr.arg, Len(buf) + 1)>>)

SkipTwo == 2
SkipThree == 3

(* tbz, tbnz, cbz, cbnz and b.cond: the inverted branch skips the two      *)
(* words behind it.                                                        *)
RelocateConditional ==
    /\ Decode("cond")
    /\ Emit(<<W(curr_orig_pc, "inverted", SkipThree), Ldr(curr_orig_pc),
              W(curr_orig_pc, "br_x17", 0)>>,
            <<Label(curr_orig_pc + Instr.arg, Len(buf) + 2)>>)

CopyInstruction == Decode("plain") /\ Emit(<<W(curr_orig_pc, "plain", Instr.arg)>>, <<>>)

ReturnToStart == Start
ReturnAddress == curr_orig_pc

(* ... and its end: a branch to the rest of the function, whose label is   *)
(* bound at once, ...                                                      *)
LiteralLdrBranch ==
    /\ phase = "relocate" /\ curr_orig_pc >= Start + Len(code)
    /\ buf' = Bind(buf \o <<Ldr(curr_orig_pc), W(curr_orig_pc, "br_x17", 0)>>,
                   Label(ReturnAddress, Len(buf) + 1))
    /\ phase' = "bind"
    /\ UNCHANGED <<code, replace_call, curr_orig_pc, data_labels, runVars>>

(* ... and the other labels behind it, in order.                           *)
RelocBind ==
    /\ phase = "bind" /\ data_labels # <<>>
    /\ buf' = Bind(buf, Head(data_labels))
    /\ data_labels' = Tail(data_labels)
    /\ UNCHANGED <<code, replace_call, phase, curr_orig_pc, runVars>>

FinalizeFromTurboAssembler ==
    /\ phase = "bind" /\ data_labels = <<>>
    /\ phase' = "run"
    /\ UNCHANGED <<code, replace_call, curr_orig_pc, buf, data_labels, runVars>>

GenRelocateCodeAndBranch ==
    \/ RelocateLdr("ldr") \/ RelocateLdr("ldrw") \/ Unimplemented \/ RelocateAdr \/ RelocateAdrp
    \/ RelocateBranch("b", "br_x17") \/ RelocateBranch("bl", "blr_x17")
    \/ RelocateConditional \/ CopyInstruction
    \/ LiteralLdrBranch \/ RelocBind \/ FinalizeFromTurboAssembler

-----------------------------------------------------------------------------
(* Running the copy.                                                       *)

At(op) == phase = "run" /\ rpc # 0 /\ buf[rpc].op = op
Goto(n) == rpc' = n /\ UNCHANGED <<code, replace_call, relocVars, exit>>

(* A literal is read as the two words at the offset.                       *)
ReadLiteral(p) ==
    IF buf[p].op = "low" /\ buf[p + 1].op = "high" THEN buf[p].arg ELSE -1

LdrLiteral ==
    /\ At("ldr_literal")
    /\ x17' = ReadLiteral(rpc + buf[rpc].arg)
    /\ Goto(rpc + 1) /\ UNCHANGED trace

MovX17 ==
    /\ At("mov_x17")
    /\ x17' = buf[rpc].arg
    /\ Goto(rpc + 1) /\ UNCHANGED trace

MovPart == At("movk") /\ Goto(rpc + 1) /\ UNCHANGED <<x17, trace>>

MovXd ==
    /\ At("mov_xd")
    /\ trace' = Append(trace, <<"address", buf[rpc].arg>>)
    /\ Goto(rpc + 1) /\ UNCHANGED x17

LdrX17 ==
    /\ At("ldr_x17")
    /\ trace' = Append(trace, <<"load", x17, buf[rpc].arg>>)
    /\ Goto(rpc + 1) /\ UNCHANGED x17

Plain ==
    /\ At("plain")
    /\ trace' = Append(trace, <<"plain", buf[rpc].arg>>)
    /\ Goto(rpc + 1) /\ UNCHANGED x17

(* The link register gets the address behind the copy's blr.               *)
Blr ==
    /\ At("blr_x17")
    /\ trace' = Append(trace, <<"call", x17, CopyAt + rpc>>)
    /\ Goto(rpc + 1) /\ UNCHANGED x17

(* The inverted branch skips the two words that take the original one.     *)
Inverted(taken) ==
    /\ At("inverted")
    /\ Goto(IF taken THEN rpc + 1 ELSE rpc + buf[rpc].arg)
    /\ UNCHANGED <<x17, trace>>

Br ==
    /\ At("br_x17")
    /\ rpc' = 0 /\ exit' = x17
    /\ UNCHANGED <<code, replace_call, relocVars, x17, trace>>

Next ==
    \/ GenRelocateCodeAndBranch
    \/ LdrLiteral \/ MovX17 \/ MovPart \/ MovXd \/ LdrX17 \/ Plain \/ Blr \/ Br
    \/ \E taken \in BOOLEAN : Inverted(taken)

Spec == Init /\ [][Next]_vars
FairSpec == Spec /\ WF_vars(Next)

-----------------------------------------------------------------------------
(* GenerateNormalTrampolineBuffer: adrp + add + br, or a literal.          *)

Distance(from, to) == IF from < to THEN to - from ELSE from - to
AnyDistance(from, to) == TRUE
AdrpReach(from, to) == Distance(from, to) < AdrpPages * Page

(* The page difference as adrp's signed field holds it.                    *)
AdrpField(d) == ((d + AdrpPages) % (2 * AdrpPages)) - AdrpPages

(* Where a core that runs the trampoline at from ends up.                  *)
TrampolineTarget(from, to) ==
    IF AdrpReach(from, to)
    THEN (from - (from % Page)) + AdrpField((to \div Page) - (from \div Page)) * Page + (to % Page)
    ELSE to

-----------------------------------------------------------------------------
(* Properties.                                                             *)

(* Where the copy is in the prologue: at the instruction its word stems    *)
(* from.                                                                   *)
InPlace == INSTANCE Prologue WITH
               pc <- (IF phase # "run" THEN Start ELSE IF rpc = 0 THEN exit ELSE buf[rpc].src)

(* The two things the copy does otherwise: an ldr of Wt loads 8 bytes, and *)
(* a call leaves an address of the copy in the link register.              *)
WideLoad == At("ldr_x17") /\ code[buf[rpc].src - Start + 1].op = "ldrw" /\ InPlace!Does(FALSE, 8, 0)
LinkToCopy == At("blr_x17") /\ InPlace!Does(FALSE, 0, CopyAt + rpc)

(* Apart from these, running the copy is running the prologue in place:    *)
(* same effects in the same order, same way out, for every instruction     *)
(* kind and every outcome of its branches.                                 *)
CopyRunsPrologue ==
    /\ InPlace!Init
    /\ [][InPlace!Next \/ WideLoad \/ LinkToCopy]_(InPlace!vars)

(* The copy is left, unless relocation aborts, and for an address under    *)
(* the trampoline only where the prologue has a branch to it: the check    *)
(* for one is compiled out, so such a branch meets the trampoline, and     *)
(* nothing else does.                                                      *)
BranchesTo(a) ==
    \E k \in DOMAIN code : code[k].op \in {"b", "cond"} /\ Start + k - 1 + code[k].arg = a
CopyIsLeft ==
    <>(phase = "abort" \/ (rpc = 0 /\ (exit \in Start .. Start + Len(code) - 1 => BranchesTo(exit))))

(* From wherever the hooked function lies, the trampoline leads to the     *)
(* replacement.  The one exception is a distance within a page of the      *)
(* reach of adrp, where the page difference may not fit although the       *)
(* distance does.                                                          *)
TrampolineLeadsToReplacement ==
    \A from \in Addresses :
        Distance(from, replace_call) \notin (AdrpPages - 1) * Page + 1 .. AdrpPages * Page - 1 =>
            TrampolineTarget(from, replace_call) = replace_call
=============================================================================
