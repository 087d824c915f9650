----------------------------- MODULE X86Proofs -----------------------------
(***************************************************************************)
(* Proofs about X86Reloc for every function, every address of function,    *)
(* chunk and stub, and every encoding the instructions may have.           *)
(*                                                                         *)
(* The invariant says of the copy under construction that it stands for    *)
(* whole instructions in a row, each of them translated from where it was  *)
(* to where it is now; a retry starts over from the bytes the last attempt *)
(* ended at, which is again the end of an instruction.                     *)
(***************************************************************************)
EXTENDS X86Reloc, TLAPS

(* Arithmetic.                                                             *)
LEMMA DivMod ==
    ASSUME NEW a \in Int, NEW m \in Nat \ {0}
    PROVE  a % m \in 0 .. m - 1 /\ a \div m \in Int /\ a = m * (a \div m) + (a % m)
<1>1. a % m \in 0 .. m - 1
    OBVIOUS
<1>2. a \div m \in Int
    OBVIOUS
<1>3. a = m * (a \div m) + (a % m)
    OBVIOUS
<1> QED
    BY <1>1, <1>2, <1>3

LEMMA NextMultiple ==
    ASSUME NEW m \in Nat \ {0}, NEW x \in Int, NEW y \in Int, x < y
    PROVE  m * x \in Int /\ m * y \in Int /\ m * x + m <= m * y
<1>1. m * (x + 1) <= m * y
    OBVIOUS
<1>2. m * (x + 1) = m * x + m
    OBVIOUS
<1> QED
    BY <1>1, <1>2

(* Quotient and remainder are unique.                                      *)
LEMMA Remainder ==
    ASSUME NEW m \in Nat \ {0}, NEW k \in Int, NEW l \in Int,
           NEW r \in 0 .. m - 1, NEW s \in 0 .. m - 1, m * k + r = m * l + s
    PROVE  r = s
<1>1. m * k \in Int /\ m * l \in Int
    OBVIOUS
<1>2. CASE k = l
    BY <1>1, <1>2
<1>3. CASE k < l
    BY <1>1, <1>3, NextMultiple
<1>4. CASE l < k
    BY <1>1, <1>4, NextMultiple
<1> QED
    BY <1>2, <1>3, <1>4

LEMMA ModShift ==
    ASSUME NEW m \in Nat \ {0}, NEW y \in Int, NEW q \in Int
    PROVE  m * q \in Int /\ (y - m * q) % m = y % m
<1>1. m * q \in Int
    OBVIOUS
<1> DEFINE z == y - m * q
<1>2. z \in Int
    BY <1>1
<1>3. y % m \in 0 .. m - 1 /\ y \div m \in Int /\ y = m * (y \div m) + (y % m)
    BY DivMod
<1>4. z = y - m * q
    OBVIOUS
<1> HIDE DEF z
<1>5. z % m \in 0 .. m - 1 /\ z \div m \in Int /\ z = m * (z \div m) + (z % m)
    BY <1>2, DivMod
<1> DEFINE k == y \div m  r == y % m  l == z \div m  s == z % m
<1> HIDE DEF k, r, l, s
<1>a. /\ k \in Int /\ l \in Int /\ r \in 0 .. m - 1 /\ s \in 0 .. m - 1
      /\ y = m * k + r /\ z = m * l + s
    BY <1>3, <1>5, Zenon DEF k, r, l, s
<1>6. m * (k - q) = m * k - m * q /\ m * k \in Int /\ m * l \in Int /\ k - q \in Int
    BY <1>a
<1>7. m * (k - q) + r = m * l + s
    BY <1>1, <1>a, <1>4, <1>6
<1>8. r = s
    BY <1>a, <1>6, <1>7, Remainder
<1> QED
    <2>1. y % m = z % m
        BY <1>8 DEF r, s
    <2> QED
        BY <1>1, <1>4, <2>1, Zenon

(* A displacement that fits is kept.                                       *)
LEMMA Int32Near ==
    ASSUME NEW x \in -Reach32 .. Reach32 - 1
    PROVE  Int32(x) = x
<1>1. Reach32 \in Nat \ {0}
    BY X86Assumption
<1>2. x + Reach32 \in 0 .. Space32 - 1 /\ Space32 \in Nat \ {0}
    BY <1>1 DEF Space32
<1> DEFINE y == x + Reach32
<1>3. y \in Int
    BY <1>2
<1> HIDE DEF y
<1>4. y % Space32 = y
    BY <1>2, <1>3 DEF y
<1> QED
    BY <1>1, <1>4 DEF Int32, y

(* One that does not fit is cut, which 32-bit addresses do not notice.     *)
LEMMA Int32Wraps ==
    ASSUME NEW x \in Int, NEW b \in Int
    PROVE  Int32(x) \in Int /\ (b + Int32(x)) % Space32 = (b + x) % Space32
<1>1. Reach32 \in Int /\ Space32 \in Nat \ {0}
    BY X86Assumption DEF Space32
<1> DEFINE y == x + Reach32  q == y \div Space32
<1>2. y \in Int /\ y = x + Reach32
    BY <1>1
<1> HIDE DEF y
<1>3. q \in Int /\ y % Space32 \in Int /\ y = Space32 * q + (y % Space32)
    BY <1>1, <1>2, DivMod
<1> HIDE DEF q
<1>4. Space32 * q \in Int /\ ((b + x) - Space32 * q) % Space32 = (b + x) % Space32
    <2>1. b + x \in Int
        OBVIOUS
    <2> QED
        BY <1>1, <1>3, <2>1, ModShift, Zenon
<1>5. Int32(x) = (y % Space32) - Reach32
    BY DEF Int32, y
<1>6. Int32(x) \in Int /\ b + Int32(x) = (b + x) - Space32 * q
    BY <1>1, <1>2, <1>3, <1>4, <1>5
<1> QED
    BY <1>4, <1>6, Zenon

-----------------------------------------------------------------------------
(* Lengths.                                                                *)

(* The parts of an instruction's length, as the processor sees them and as *)
(* the decoder does.                                                       *)
LEMMA Parts ==
    ASSUME mode \in {32, 64}, NEW in \in InPlace!Instructions(mode)
    PROVE  /\ InPlace!PrefixBytes(in) \in Nat
           /\ x86_insn_decode_prefix(in) = InPlace!PrefixBytes(in)
           /\ InPlace!Disp(mode, in) \in Nat /\ InPlace!ImmBytes(mode, in) \in Nat
           /\ x86_insn_decode_modrm_sib(in) \in Nat
           /\ x86_insn_decode_number(x86_insn_imm_bits(in)) \in Nat
           /\ in.opcodes \in Nat \ {0}
           /\ in.modrm \in BOOLEAN /\ in.operands \in BOOLEAN
<1>1. /\ in.opcodes \in Nat \ {0} /\ in.others \in Nat
      /\ in.modrm \in BOOLEAN /\ in.operands \in BOOLEAN
    BY DEF InPlace!Instructions, InPlace!Encodings
<1>2. InPlace!Disp(mode, in) \in Nat
    BY DEF InPlace!Disp
<1>3. InPlace!ImmBytes(mode, in) \in Nat
    BY DEF InPlace!ImmBytes, InPlace!AddressBytes
<1>4. x86_insn_decode_modrm_sib(in) \in Nat
    BY <1>2 DEF x86_insn_decode_modrm_sib
<1>5. x86_insn_decode_number(x86_insn_imm_bits(in)) \in Nat
    BY DEF x86_insn_decode_number, x86_insn_imm_bits, EffectiveOperandBits
<1>6. InPlace!PrefixBytes(in) \in Nat /\ x86_insn_decode_prefix(in) = InPlace!PrefixBytes(in)
    BY <1>1 DEF InPlace!PrefixBytes, x86_insn_decode_prefix
<1> QED
    BY <1>1, <1>2, <1>3, <1>4, <1>5, <1>6

LEMMA LengthType ==
    ASSUME mode \in {32, 64}, NEW in \in InPlace!Instructions(mode)
    PROVE  InPlace!Length(mode, in) \in Nat \ {0} /\ DecodedLength(in) \in Nat
<1>1. InPlace!Length(mode, in) \in Nat \ {0}
    <2> DEFINE m == IF in.modrm
                    THEN 1 + (IF InPlace!HasSib(mode, in) THEN 1 ELSE 0) + InPlace!Disp(mode, in)
                    ELSE 0
    <2>1. m \in Nat
        BY Parts
    <2>2. InPlace!Length(mode, in) = InPlace!PrefixBytes(in) + in.opcodes + m + InPlace!ImmBytes(mode, in)
        BY DEF InPlace!Length
    <2>3. /\ InPlace!PrefixBytes(in) \in Nat /\ in.opcodes \in Nat /\ in.opcodes > 0
          /\ InPlace!ImmBytes(mode, in) \in Nat
        BY Parts
    <2> HIDE DEF m
    <2> QED
        BY <2>1, <2>2, <2>3
<1>2. DecodedLength(in) \in Nat
    BY Parts DEF DecodedLength
<1> QED
    BY <1>1, <1>2

(* The two ways to misread a row of the opcode map that lists its          *)
(* operands: the immediate, ...                                            *)
ImmMisread(in) ==
    \/ in.imm = "v" /\ "W" \in in.rex
    \/ in.imm \in {"enter", "far", "moffs8"}
    \/ in.imm = "moffs" /\ IF mode = 32 THEN ("66" \in in.prefix) # ("67" \in in.prefix)
                            ELSE "67" \notin in.prefix \/ ("66" \in in.prefix /\ "W" \notin in.rex)
    \/ /\ in.imm = "z" /\ "66" \in in.prefix
       /\ IF "W" \in in.rex THEN LosesFlags(in) /\ ~(mode = 64 /\ in.default64)
          ELSE mode = 64 /\ in.default64

(* ... and the SIB byte.                                                   *)
SibMisread(in) ==
    /\ in.modrm /\ in.mod = 0 /\ InPlace!HasSib(mode, in)
    /\ \/ SibBase(in) \in {5, 13, RBP}
       \/ SibBase(in) = R13 /\ mode = 64 /\ "67" \notin in.prefix

LEMMA ImmMeasured ==
    ASSUME mode \in {32, 64}, NEW in \in InPlace!Instructions(mode),
           NEW i, i = InPlace!ImmBytes(mode, in), NEW d, d = x86_insn_decode_number(x86_insn_imm_bits(in))
    PROVE  /\ i = d <=> ~ImmMisread(in)
           /\ in.modrm => i = d \/ i = d + 2 \/ d = i + 2
           /\ i = 0 <=> in.imm = "none"
<1>1. /\ in.imm \in {"none", "b", "w", "z", "v", "enter", "far", "moffs8", "moffs"}
      /\ mode = 32 => in.rex = {}
      /\ in.imm \in {"v", "enter", "far", "moffs8", "moffs"} => ~in.modrm /\ ~in.default64
    BY DEF InPlace!Instructions, InPlace!Encodings
<1> USE DEF InPlace!ImmBytes, x86_insn_imm_bits, x86_insn_decode_number
<1>2. CASE in.imm \in {"none", "b", "w"}
    BY <1>2 DEF ImmMisread
<1>3. CASE in.imm = "v"
    BY <1>1, <1>3 DEF ImmMisread, EffectiveOperandBits, OperandSize64, LosesFlags
<1>4. CASE in.imm \in {"enter", "far"}
    BY <1>1, <1>4 DEF ImmMisread
<1>5. CASE in.imm = "moffs8"
    BY <1>1, <1>5 DEF ImmMisread, InPlace!AddressBytes
<1>6. CASE in.imm = "moffs"
    <2>1. EffectiveOperandBits(in) = IF "W" \in in.rex THEN 64 ELSE IF "66" \in in.prefix THEN 16 ELSE 32
        BY <1>1, <1>6 DEF EffectiveOperandBits, OperandSize64, LosesFlags
    <2>2. d = IF "66" \in in.prefix /\ "W" \notin in.rex THEN 2 ELSE 4
        BY <1>6, <2>1
    <2>3. i = IF mode = 64 THEN (IF "67" \in in.prefix THEN 4 ELSE 8)
              ELSE IF "67" \in in.prefix THEN 2 ELSE 4
        BY <1>6 DEF InPlace!AddressBytes
    <2>4. CASE mode = 64
        BY <1>1, <1>6, <2>2, <2>3, <2>4 DEF ImmMisread
    <2>5. CASE mode = 32
        <3>1. "W" \notin in.rex
            BY <1>1, <2>5
        <3>2. CASE "66" \in in.prefix
            BY <1>1, <1>6, <2>2, <2>3, <2>5, <3>1, <3>2 DEF ImmMisread
        <3>3. CASE "66" \notin in.prefix
            BY <1>1, <1>6, <2>2, <2>3, <2>5, <3>1, <3>3 DEF ImmMisread
        <3> QED
            BY <3>2, <3>3
    <2> QED
        BY <2>4, <2>5
<1>7. CASE in.imm = "z"
    <2>1. i = IF "66" \in in.prefix /\ "W" \notin in.rex THEN 2 ELSE 4
        BY <1>7
    <2>2. CASE OperandSize64(in) \/ (mode = 64 /\ in.default64)
        <3>1. d = 4
            BY <1>7, <2>2 DEF EffectiveOperandBits
        <3> QED
            BY <1>7, <2>1, <2>2, <3>1 DEF ImmMisread, OperandSize64
    <2>3. CASE ~(OperandSize64(in) \/ (mode = 64 /\ in.default64))
        <3>1. d = IF "66" \in in.prefix THEN 2 ELSE 4
            BY <1>7, <2>3 DEF EffectiveOperandBits
        <3> QED
            BY <1>7, <2>1, <2>3, <3>1 DEF ImmMisread, OperandSize64
    <2> QED
        BY <2>2, <2>3
<1> QED
    BY <1>1, <1>2, <1>3, <1>4, <1>5, <1>6, <1>7

LEMMA SibMeasured ==
    ASSUME mode \in {32, 64}, NEW in \in InPlace!Instructions(mode), in.modrm,
           NEW i, i = 1 + (IF InPlace!HasSib(mode, in) THEN 1 ELSE 0) + InPlace!Disp(mode, in),
           NEW d, d = x86_insn_decode_modrm_sib(in)
    PROVE  /\ i = d <=> ~SibMisread(in)
           /\ i = d \/ i = d + 4 \/ d = i + 4
<1>1. in.mod \in 0 .. 3 /\ in.rm \in 0 .. 7 /\ in.base \in 0 .. 7
    BY DEF InPlace!Instructions, InPlace!Encodings
<1>2. CASE in.mod = 3
    BY <1>2 DEF x86_insn_decode_modrm_sib, InPlace!HasSib, InPlace!Disp, SibMisread
<1>3. CASE in.mod # 3 /\ InPlace!Address16(mode, in)
    BY <1>3, Parts DEF x86_insn_decode_modrm_sib, InPlace!HasSib, SibMisread
<1>4. CASE in.mod \in {1, 2} /\ ~InPlace!Address16(mode, in)
    BY <1>4 DEF x86_insn_decode_modrm_sib, InPlace!HasSib, InPlace!Disp, SibMisread
<1>5. CASE in.mod = 0 /\ ~InPlace!Address16(mode, in) /\ in.rm # 4
    BY <1>5 DEF x86_insn_decode_modrm_sib, InPlace!HasSib, InPlace!Disp, SibMisread, SibDisp32
<1>6. CASE in.mod = 0 /\ ~InPlace!Address16(mode, in) /\ in.rm = 4
    <2>1. i = IF in.base = 5 THEN 6 ELSE 2
        BY <1>6 DEF InPlace!HasSib, InPlace!Disp
    <2>2. d = IF SibDisp32(in) THEN 6 ELSE 2
        BY <1>6 DEF x86_insn_decode_modrm_sib
    <2>3. SibMisread(in) <=> \/ SibBase(in) \in {5, 13, RBP}
                             \/ SibBase(in) = R13 /\ mode = 64 /\ "67" \notin in.prefix
        BY <1>6 DEF SibMisread, InPlace!HasSib
    <2>4. (SibBase(in) = in.base \/ SibBase(in) = in.base + 8) /\ RBP = 7 /\ R13 = 14
        BY <1>1 DEF SibBase, RBP, R13
    <2>5. CASE in.base = 5
        <3>1. SibBase(in) \in {5, 13} /\ ~SibDisp32(in)
            BY <2>4, <2>5 DEF SibDisp32
        <3> QED
            BY <2>1, <2>2, <2>3, <2>5, <3>1
    <2>6. CASE in.base # 5
        <3>1. SibBase(in) \notin {5, 13}
            BY <1>1, <2>4, <2>6
        <3>2. SibMisread(in) <=> SibDisp32(in)
            BY <1>6, <2>3, <3>1 DEF SibDisp32
        <3> QED
            BY <2>1, <2>2, <2>6, <3>2
    <2> QED
        BY <2>5, <2>6
<1> QED
    BY <1>1, <1>2, <1>3, <1>4, <1>5, <1>6

(* The decoder measures exactly the encodings that Misread lists otherwise *)
(* than the processor does, those aside that it stops at.                  *)
LEMMA Measured ==
    ASSUME mode \in {32, 64}, NEW in \in InPlace!Instructions(mode)
    PROVE  Torn(in) <=> Misread(in)
<1>1. PICK i : i = InPlace!ImmBytes(mode, in)
    OBVIOUS
<1>2. PICK d : d = x86_insn_decode_number(x86_insn_imm_bits(in))
    OBVIOUS
<1>3. PICK mi : mi = IF in.modrm
                     THEN 1 + (IF InPlace!HasSib(mode, in) THEN 1 ELSE 0) + InPlace!Disp(mode, in)
                     ELSE 0
    OBVIOUS
<1>4. PICK md : md = IF in.modrm THEN x86_insn_decode_modrm_sib(in) ELSE 0
    OBVIOUS
<1>5. PICK p : p = InPlace!PrefixBytes(in) + in.opcodes
    OBVIOUS
<1>6. /\ i \in Nat /\ d \in Nat /\ mi \in Nat /\ md \in Nat /\ p \in Nat
      /\ in.modrm \in BOOLEAN /\ in.operands \in BOOLEAN
      /\ in.modrm => mi # 0
    BY <1>1, <1>2, <1>3, <1>4, <1>5, Parts
<1>7. InPlace!Length(mode, in) = p + mi + i
    BY <1>1, <1>3, <1>5 DEF InPlace!Length
<1>8. DecodedLength(in) = IF in.operands THEN p + md + d ELSE p
    BY <1>2, <1>4, <1>5, <1>6, Parts DEF DecodedLength
<1>9. /\ i = d <=> ~ImmMisread(in)
      /\ in.modrm => i = d \/ i = d + 2 \/ d = i + 2
      /\ i = 0 <=> in.imm = "none"
    BY <1>1, <1>2, ImmMeasured
<1>10. /\ mi = md <=> ~SibMisread(in)
       /\ mi = md \/ mi = md + 4 \/ md = mi + 4
    <2>1. CASE in.modrm
        BY <1>3, <1>4, <2>1, SibMeasured
    <2>2. CASE ~in.modrm
        BY <1>3, <1>4, <2>2, <1>6 DEF SibMisread
    <2> QED
        BY <1>6, <2>1, <2>2
<1>11. /\ Misread(in) <=> \/ ~in.operands /\ (in.modrm \/ in.imm # "none")
                          \/ ImmMisread(in) \/ SibMisread(in)
       /\ ImmMisread(in) => in.imm # "none"
       /\ SibMisread(in) => in.modrm
    BY DEF Misread, ImmMisread, SibMisread
<1>12. CASE in.operands
    <2>1. Torn(in) <=> p + mi + i # p + md + d
        BY <1>7, <1>8, <1>12 DEF Torn
    <2>2. ~in.modrm => mi = md
        BY <1>3, <1>4
    <2>3. p + mi + i # p + md + d <=> i # d \/ mi # md
        BY <1>6, <1>9, <1>10, <2>2
    <2> QED
        BY <1>9, <1>10, <1>11, <1>12, <2>1, <2>3
<1>13. CASE ~in.operands
    <2>1. Torn(in) <=> p # p + mi + i
        BY <1>7, <1>8, <1>13 DEF Torn
    <2>2. in.modrm <=> mi # 0
        BY <1>3, <1>6
    <2>3. p # p + mi + i <=> i # 0 \/ mi # 0
        BY <1>6
    <2> QED
        BY <1>9, <1>11, <1>13, <2>1, <2>2, <2>3
<1> QED
    BY <1>6, <1>12, <1>13

-----------------------------------------------------------------------------
(* The invariant.                                                          *)

Ops == {"run", "memory", "call", "jmp", "jcc"}
Items == [src : Nat, at : Nat, op : Ops, len : Nat, arg : Int]
Phases == {"trampoline", "allocate", "relocate", "run", "failed", "abort", "torn"}

RelocType ==
    /\ mode \in {32, 64} /\ code \in Programs(mode) /\ phase \in Phases
    /\ stub \in Nat /\ chunk \in Nat /\ origin_len \in Nat /\ curr_orig_ip \in Nat
    /\ buf \in Seq(Items)

(* The stub of x64 is where the near arena puts it, that of x86 anywhere.  *)
StubGood ==
    stub # 0 => Address(stub) /\ (mode = 64 => stub \in Start - Reach32 + 1 .. Start + Reach32 - 1)

Behind(a) == a + InPlace!Length(mode, code[a])
Following(k) == IF k = 1 THEN Start ELSE Behind(buf[k - 1].src)

(* The bytes to copy end with the trampoline, or at the end of the last    *)
(* instruction that starts under it.                                       *)
OriginGood ==
    /\ origin_len >= TrampolineSize(mode)
    /\ \/ origin_len = TrampolineSize(mode)
       \/ \E a \in DOMAIN code : a < Start + TrampolineSize(mode) /\ Start + origin_len = Behind(a)

(* An item of the copy is the translation of the instruction it stems from.*)
Copied(it) ==
    /\ it.src \in DOMAIN code /\ it.src < Start + TrampolineSize(mode)
    /\ ~Aborts(code[it.src]) /\ ~Torn(code[it.src])
    /\ it = Relocated(it.src, it.at)

CopiedUpTo(n) == \A k \in 1 .. n : Copied(buf[k]) /\ buf[k].src = Following(k)

Ready ==
    /\ Len(buf) > 1 /\ CopiedUpTo(Len(buf) - 1)
    /\ buf[Len(buf)].src = Following(Len(buf))
    /\ buf[Len(buf)].op = "jmp" /\ buf[Len(buf)].arg = buf[Len(buf)].src
    /\ Start + origin_len = buf[Len(buf)].src

CopyGood ==
    /\ phase \in {"trampoline", "allocate"} => buf = <<>> /\ curr_orig_ip = Start
    /\ phase = "relocate" =>
          /\ CopiedUpTo(Len(buf)) /\ curr_orig_ip = Following(Len(buf) + 1)
          /\ curr_orig_ip \in DOMAIN code
    /\ phase = "torn" => Misread(code[Last(buf).src])
    /\ phase = "run" => Ready
    /\ IF phase = "run" THEN rpc \in 0 .. Len(buf) ELSE rpc = 1

RelocInv == RelocType /\ StubGood /\ OriginGood /\ CopyGood

-----------------------------------------------------------------------------
(* Facts about the code.                                                   *)

LEMMA CodeFacts ==
    ASSUME RelocType
    PROVE  /\ Start \in DOMAIN code /\ DOMAIN code \subseteq Nat
           /\ \A a \in DOMAIN code : /\ code[a] \in InPlace!Instructions(mode)
                                     /\ Behind(a) \in Nat /\ a < Behind(a)
                                     /\ a < Start + TrampolineSize(mode) => Behind(a) \in DOMAIN code
                                     /\ mode = 32 => a < Space32
           /\ \A a, b \in DOMAIN code : a < b => Behind(a) <= b
           /\ Start \in Nat /\ TrampolineSize(mode) \in Nat \ {0}
<1>1. InPlace!IsCode(mode, code, TrampolineSize(mode))
    BY X86Assumption DEF RelocType
<1>2. /\ Start \in DOMAIN code /\ DOMAIN code \subseteq Nat
      /\ code \in [DOMAIN code -> InPlace!Instructions(mode)]
      /\ \A a \in DOMAIN code : a < Start + TrampolineSize(mode) => Behind(a) \in DOMAIN code
      /\ \A a, b \in DOMAIN code : a < b => Behind(a) <= b
      /\ mode = 32 => \A a \in DOMAIN code : a < Space32
    BY <1>1 DEF InPlace!IsCode, Behind
<1>3. \A a \in DOMAIN code : code[a] \in InPlace!Instructions(mode)
    BY <1>2
<1>4. \A a \in DOMAIN code : Behind(a) \in Nat /\ a < Behind(a)
    <2> SUFFICES ASSUME NEW a \in DOMAIN code PROVE Behind(a) \in Nat /\ a < Behind(a)
        OBVIOUS
    <2>1. a \in Nat
        BY <1>2
    <2>2. InPlace!Length(mode, code[a]) \in Nat \ {0}
        BY <1>3, LengthType DEF RelocType
    <2> QED
        BY <2>1, <2>2 DEF Behind
<1>5. Start \in Nat /\ TrampolineSize(mode) \in Nat \ {0}
    BY X86Assumption DEF TrampolineSize, RelocType
<1> QED
    BY <1>2, <1>3, <1>4, <1>5

(* Under the bytes to copy there is no instruction that does not start     *)
(* under the trampoline: a retry copies what the first attempt did.        *)
LEMMA UnderTrampoline ==
    ASSUME RelocType, OriginGood, NEW c \in DOMAIN code, c < Start + origin_len
    PROVE  c < Start + TrampolineSize(mode)
<1>1. c \in Nat /\ Start \in Nat /\ TrampolineSize(mode) \in Nat /\ origin_len \in Nat
    BY CodeFacts DEF RelocType
<1>2. CASE origin_len = TrampolineSize(mode)
    BY <1>2
<1>3. CASE \E a \in DOMAIN code : a < Start + TrampolineSize(mode) /\ Start + origin_len = Behind(a)
    <2>1. PICK a \in DOMAIN code : a < Start + TrampolineSize(mode) /\ Start + origin_len = Behind(a)
        BY <1>3
    <2>2. a \in Nat /\ (a < c => Behind(a) <= c)
        BY CodeFacts
    <2> QED
        BY <1>1, <2>1, <2>2
<1> QED
    BY <1>2, <1>3 DEF OriginGood

(* What an instruction is translated to.                                   *)
LEMMA WrapType == ASSUME mode \in {32, 64}, NEW a \in Int PROVE Wrap(a) \in Int
<1>1. Space32 \in Nat \ {0}
    BY X86Assumption DEF Space32
<1> QED
    BY <1>1 DEF Wrap

LEMMA RelocatedType ==
    ASSUME RelocType, NEW a \in DOMAIN code, NEW r \in Nat
    PROVE  /\ Relocated(a, r) \in Items
           /\ Relocated(a, r).src = a /\ Relocated(a, r).at = r
<1> DEFINE in == code[a]  len == DecodedLength(in)  off == NewOffset(a, in.arg, r)
           Made(it) == it \in Items /\ it.src = a /\ it.at = r
<1>1. a \in Nat /\ in.arg \in Int /\ len \in Nat /\ mode \in {32, 64}
    BY CodeFacts, LengthType DEF RelocType, InPlace!Instructions, InPlace!Encodings
<1>2. off \in Int
    BY <1>1 DEF NewOffset
<1> HIDE DEF len, off
<1>3. Int32(off) \in Int /\ Int8(off) \in Int
    BY <1>2, Int32Wraps DEF Int8
<1>4. ASSUME NEW op \in Ops, NEW n \in Nat, NEW arg \in Int
      PROVE  Made(Item(a, r, op, n, arg))
    BY <1>1 DEF Item, Items
<1>5. ASSUME NEW op \in Ops, NEW n \in Nat, NEW offset \in Int
      PROVE  Made(Item(a, r, op, n, Wrap(r + n + offset)))
    <2>1. Wrap(r + n + offset) \in Int
        BY <1>1, WrapType
    <2> QED
        BY <2>1, <1>4
<1>6. \/ Relocated(a, r) = Item(a, r, "jcc", 6, Wrap(r + 6 + Int32(off)))
      \/ Relocated(a, r) = Item(a, r, "jmp", 5, Wrap(r + 5 + Int8(off)))
      \/ Relocated(a, r) = Item(a, r, "memory", len, Wrap(r + len + Int32(off)))
      \/ Relocated(a, r) = Item(a, r, "call", len, Wrap(r + len + Int32(off)))
      \/ Relocated(a, r) = Item(a, r, "jmp", len, Wrap(r + len + Int32(off)))
      \/ Relocated(a, r) = Item(a, r, "jcc", len, Wrap(r + len + in.arg))
      \/ Relocated(a, r) = Item(a, r, "run", len, a)
    BY DEF Relocated, len, off
<1>7. "jcc" \in Ops /\ "jmp" \in Ops /\ "memory" \in Ops /\ "call" \in Ops /\ "run" \in Ops
    BY DEF Ops
<1> HIDE DEF in, Made
<1>a. 5 \in Nat /\ 6 \in Nat /\ a \in Int
    BY <1>1
<1>b0. Made(Item(a, r, "jcc", 6, Wrap(r + 6 + Int32(off))))
    BY <1>1, <1>3, <1>5, <1>7, <1>a
<1>b1. Made(Item(a, r, "jmp", 5, Wrap(r + 5 + Int8(off))))
    BY <1>1, <1>3, <1>5, <1>7, <1>a
<1>b2. Made(Item(a, r, "memory", len, Wrap(r + len + Int32(off))))
    BY <1>1, <1>3, <1>5, <1>7, <1>a
<1>b3. Made(Item(a, r, "call", len, Wrap(r + len + Int32(off))))
    BY <1>1, <1>3, <1>5, <1>7, <1>a
<1>b4. Made(Item(a, r, "jmp", len, Wrap(r + len + Int32(off))))
    BY <1>1, <1>3, <1>5, <1>7, <1>a
<1>b5. Made(Item(a, r, "jcc", len, Wrap(r + len + in.arg)))
    BY <1>1, <1>3, <1>5, <1>7, <1>a
<1>b6. Made(Item(a, r, "run", len, a))
    BY <1>1, <1>3, <1>4, <1>7, <1>a
<1>9. Made(Relocated(a, r))
    BY <1>6, <1>b0, <1>b1, <1>b2, <1>b3, <1>b4, <1>b5, <1>b6
<1> QED
    BY <1>9 DEF Made

-----------------------------------------------------------------------------
(* Decoding depends on the mode and the code alone.                        *)
LEMMA SameMode ==
    ASSUME mode' = mode
    PROVE  \A in : /\ DecodedLength(in)' = DecodedLength(in)
                   /\ Torn(in)' <=> Torn(in)
                   /\ Aborts(in)' <=> Aborts(in)
                   /\ Misread(in)' <=> Misread(in)
<1>1. \A in : DecodedLength(in)' = DecodedLength(in)
    BY DEF DecodedLength, x86_insn_decode_modrm_sib, InPlace!Address16, InPlace!Disp, SibDisp32, SibBase,
           x86_insn_decode_number, x86_insn_imm_bits, EffectiveOperandBits, OperandSize64, LosesFlags,
           x86_insn_decode_prefix
<1>2. \A in : Torn(in)' <=> Torn(in)
    BY <1>1 DEF Torn
<1>3. \A in : Aborts(in)' <=> Aborts(in)
    BY DEF Aborts, NoDispBits
<1>4. \A in : Misread(in)' <=> Misread(in)
    BY DEF Misread, SibBase, LosesFlags
<1> QED
    BY <1>1, <1>2, <1>3, <1>4

LEMMA SameCode ==
    ASSUME UNCHANGED <<mode, code>>
    PROVE  /\ \A a : Behind(a)' = Behind(a)
           /\ \A it : Copied(it)' <=> Copied(it)
<1>1. \A a : Behind(a)' = Behind(a)
    BY DEF Behind
<1>2. \A a, r : Relocated(a, r)' = Relocated(a, r)
    BY SameMode DEF Relocated, Item, Wrap, NewOffset, Int32, Int8
<1>3. \A it : Copied(it)' <=> Copied(it)
    BY <1>2, SameMode DEF Copied
<1> QED
    BY <1>1, <1>3

(* A copy with the instruction at curr_orig_ip added.                      *)
LEMMA ReloIpType == ASSUME RelocType PROVE curr_relo_ip \in Nat
<1>1. CASE buf = <<>>
    BY <1>1 DEF curr_relo_ip, RelocType
<1>2. CASE buf # <<>>
    <2>1. buf[Len(buf)] \in Items
        BY <1>2 DEF RelocType
    <2> QED
        BY <1>2, <2>1 DEF curr_relo_ip, Last, Items
<1> QED
    BY <1>1, <1>2

LEMMA InitReloc == Init => RelocInv
<1> SUFFICES ASSUME Init PROVE RelocInv
    OBVIOUS
<1>1. RelocType
    BY X86Assumption DEF Init, RelocType, Phases, TrampolineSize
<1>2. StubGood /\ OriginGood /\ CopyGood
    BY <1>1 DEF Init, StubGood, OriginGood, CopyGood, TrampolineSize
<1> QED
    BY <1>1, <1>2 DEF RelocInv


(* Steps that leave the copy alone.                                        *)
LEMMA AroundCopy ==
    ASSUME RelocInv,
           \/ \E a \in Stubs : GenerateNormalTrampolineBuffer(a)
           \/ NoStub \/ AllocateFails \/ Unimplemented
    PROVE  RelocInv'
<1>1. UNCHANGED <<mode, code, chunk, origin_len, curr_orig_ip, buf, rpc>>
    BY DEF GenerateNormalTrampolineBuffer, NoStub, AllocateFails, Unimplemented, NotRunning
<1>2. /\ phase' \in {"allocate", "failed", "abort"}
      /\ phase' = "allocate" => phase = "trampoline"
      /\ rpc = 1
    BY DEF GenerateNormalTrampolineBuffer, NoStub, AllocateFails, Unimplemented, Decode,
           RelocInv, CopyGood
<1>3. stub' \in Nat /\ StubGood'
    BY <1>1, X86Assumption DEF GenerateNormalTrampolineBuffer, NoStub, AllocateFails, Unimplemented,
           RelocInv, RelocType, StubGood, Address
<1>4. RelocType'
    BY <1>1, <1>2, <1>3 DEF RelocInv, RelocType, Phases
<1>5. OriginGood'
    BY <1>1, SameCode DEF RelocInv, OriginGood, TrampolineSize
<1>6. CopyGood'
    BY <1>1, <1>2 DEF RelocInv, CopyGood
<1> QED
    BY <1>3, <1>4, <1>5, <1>6 DEF RelocInv

LEMMA AllocateStep ==
    ASSUME RelocInv, NEW a \in Chunks, AllocateCodeChunk(a)
    PROVE  RelocInv'
<1>1. /\ UNCHANGED <<mode, code, stub, origin_len, curr_orig_ip, buf, rpc>>
      /\ phase = "allocate" /\ phase' = "relocate" /\ chunk' = a
    BY DEF AllocateCodeChunk, NotRunning
<1>2. RelocType'
    BY <1>1, X86Assumption DEF RelocInv, RelocType, Phases
<1>3. StubGood' /\ OriginGood'
    BY <1>1, SameCode DEF RelocInv, StubGood, OriginGood, TrampolineSize, Address
<1>4. buf = <<>> /\ curr_orig_ip = Start /\ rpc = 1
    BY <1>1 DEF RelocInv, CopyGood
<1>5. CopiedUpTo(Len(buf))' /\ curr_orig_ip' = Following(Len(buf) + 1)'
    BY <1>1, <1>4 DEF CopiedUpTo, Following
<1>6. curr_orig_ip' \in DOMAIN code'
    BY <1>1, <1>4, CodeFacts DEF RelocInv
<1>7. CopyGood'
    BY <1>1, <1>4, <1>5, <1>6 DEF CopyGood
<1> QED
    BY <1>2, <1>3, <1>7 DEF RelocInv

LEMMA InstructionStep == ASSUME RelocInv, RelocateInstruction PROVE RelocInv'
<1>1. /\ UNCHANGED <<mode, code, stub, chunk, origin_len, rpc>>
      /\ phase = "relocate" /\ phase' = IF Torn(code[curr_orig_ip]) THEN "torn" ELSE "relocate"
      /\ buf' = Append(buf, Relocated(curr_orig_ip, curr_relo_ip))
      /\ curr_orig_ip' = curr_orig_ip + DecodedLength(code[curr_orig_ip])
      /\ curr_orig_ip < Start + origin_len /\ ~Aborts(code[curr_orig_ip])
    BY DEF RelocateInstruction, Decode, NotRunning
<1>2. RelocType /\ buf \in Seq(Items) /\ curr_orig_ip \in DOMAIN code
    BY <1>1 DEF RelocInv, CopyGood, RelocType
<1>3. PICK c : c = curr_orig_ip
    OBVIOUS
<1>4. PICK it : it = Relocated(curr_orig_ip, curr_relo_ip)
    OBVIOUS
<1>5. it \in Items /\ it.src = c /\ it = Relocated(it.src, it.at)
    BY <1>2, <1>3, <1>4, ReloIpType, RelocatedType
<1>n. PICK n : n = Len(buf)
    OBVIOUS
<1>6. /\ n \in Nat /\ Len(buf) = n /\ Len(buf') = n + 1 /\ buf' \in Seq(Items) /\ buf'[n + 1] = it
      /\ \A k \in 1 .. n : buf'[k] = buf[k]
    BY <1>1, <1>2, <1>4, <1>5, <1>n
<1>7. DecodedLength(code[c]) \in Nat /\ c \in Nat
    BY <1>2, <1>3, CodeFacts, LengthType DEF RelocType
<1>8. RelocType'
    BY <1>1, <1>3, <1>6, <1>7 DEF RelocInv, RelocType, Phases
<1>9. StubGood' /\ OriginGood'
    BY <1>1, SameCode DEF RelocInv, StubGood, OriginGood, TrampolineSize, Address
<1>10. CASE Torn(code[c])
    <2>1. Misread(code[c])
        BY <1>1, <1>2, <1>3, <1>10, CodeFacts, Measured DEF RelocType
    <2>2. Last(buf') = it
        BY <1>6 DEF Last
    <2>3. PICK in : in = code[c] /\ in = code'[Last(buf').src]
        BY <1>1, <1>5, <2>2
    <2>4. (Misread(code[Last(buf).src]))'
        BY <2>1, <2>3, <1>1 DEF Misread, SibBase, LosesFlags, InPlace!HasSib, InPlace!Address16
    <2>5. phase' = "torn" /\ rpc' = 1
        BY <1>1, <1>3, <1>6, <1>10 DEF RelocInv, CopyGood
    <2> QED
        BY <1>8, <1>9, <2>4, <2>5 DEF RelocInv, CopyGood
<1>11. CASE ~Torn(code[c])
    <2>1. Copied(it)
        BY <1>1, <1>2, <1>3, <1>5, <1>11, UnderTrampoline DEF Copied, RelocInv
    <2>2. CopiedUpTo(n) /\ c = Following(n + 1)
        BY <1>1, <1>3, <1>6 DEF RelocInv, CopyGood
    <2>3. \A k \in 1 .. n + 1 : buf'[k].src = Following(k)'
        BY <1>1, <1>5, <1>6, <2>2, SameCode DEF CopiedUpTo, Following
    <2>4. \A k \in 1 .. n + 1 : Copied(buf'[k])
        BY <1>6, <2>1, <2>2 DEF CopiedUpTo
    <2>5. \A k \in 1 .. n + 1 : (Copied(buf[k]))'
        BY <1>1, <2>4, SameCode
    <2>6. CopiedUpTo(Len(buf))'
        BY <1>6, <2>3, <2>5 DEF CopiedUpTo
    <2>7. curr_orig_ip' = Behind(c)
        BY <1>1, <1>3, <1>11 DEF Behind, Torn
    <2>8. curr_orig_ip' = Following(Len(buf) + 1)'
        BY <1>1, <1>5, <1>6, <2>7, SameCode DEF Following
    <2>9. curr_orig_ip' \in DOMAIN code'
        BY <1>1, <1>2, <1>5, <2>1, <2>7, CodeFacts DEF Copied
    <2>10. phase' = "relocate" /\ rpc' = 1
        BY <1>1, <1>3, <1>11 DEF RelocInv, CopyGood
    <2> QED
        BY <1>8, <1>9, <2>6, <2>8, <2>9, <2>10 DEF RelocInv, CopyGood
<1> QED
    BY <1>10, <1>11

(* The jump at the end of the copy leads to the rest of the function.      *)
LEMMA JmpBackLeads ==
    ASSUME RelocType, curr_orig_ip \in DOMAIN code
    PROVE  /\ JmpBack \in Items /\ JmpBack.src = curr_orig_ip
           /\ JmpBack.op = "jmp" /\ JmpBack.arg = curr_orig_ip
<1>1. /\ curr_orig_ip \in Nat /\ curr_relo_ip \in Nat /\ mode \in {32, 64}
      /\ mode = 32 => curr_orig_ip < Space32
    BY CodeFacts, ReloIpType DEF RelocType
<1> DEFINE b == curr_relo_ip + 5  x == curr_orig_ip - b
<1>2. ASSUME mode = 32 PROVE Wrap(curr_relo_ip + 5 + Int32(curr_orig_ip - (curr_relo_ip + 5))) = curr_orig_ip
    <2>1. b \in Int /\ x \in Int /\ b + x = curr_orig_ip
        BY <1>1
    <2> HIDE DEF b, x
    <2>2. (b + Int32(x)) % Space32 = (b + x) % Space32
        BY <2>1, Int32Wraps
    <2>3. curr_orig_ip % Space32 = curr_orig_ip
        <3>1. Space32 \in Nat \ {0} /\ curr_orig_ip \in 0 .. Space32 - 1
            BY <1>1, <1>2, X86Assumption DEF Space32
        <3> QED
            BY <3>1
    <2>4. (b + Int32(x)) % Space32 = curr_orig_ip
        BY <2>1, <2>2, <2>3, Zenon
    <2> QED
        BY <1>2, <2>4 DEF Wrap, b, x
<1>3. CASE mode = 64
    BY <1>1, <1>3 DEF JmpBack, Item, Items, Ops
<1>4. CASE mode = 32
    BY <1>1, <1>2, <1>4 DEF JmpBack, Item, Items, Ops
<1> QED
    BY <1>1, <1>3, <1>4

LEMMA EndStep == ASSUME RelocInv, GenRelocateCodeFixed PROVE RelocInv'
<1>1. /\ UNCHANGED <<mode, code, stub, rpc>>
      /\ phase = "relocate" /\ curr_orig_ip >= Start + origin_len
      /\ origin_len' = curr_orig_ip - Start
    BY DEF GenRelocateCodeFixed, NotRunning
<1>2. \/ phase' = "run" /\ buf' = Append(buf, JmpBack) /\ UNCHANGED <<chunk, curr_orig_ip>>
      \/ phase' = "allocate" /\ buf' = <<>> /\ chunk' = 0 /\ curr_orig_ip' = Start
    BY DEF GenRelocateCodeFixed
<1>3. /\ RelocType /\ buf \in Seq(Items) /\ curr_orig_ip \in DOMAIN code
      /\ CopiedUpTo(Len(buf)) /\ curr_orig_ip = Following(Len(buf) + 1) /\ rpc = 1
    BY <1>1 DEF RelocInv, CopyGood, RelocType
<1>4. /\ Start \in Nat /\ TrampolineSize(mode) \in Nat \ {0} /\ curr_orig_ip \in Nat
      /\ origin_len \in Nat /\ origin_len >= TrampolineSize(mode)
    BY <1>3, CodeFacts DEF RelocType, RelocInv, OriginGood
<1>5. /\ origin_len' \in Nat /\ Start + origin_len' = curr_orig_ip
      /\ origin_len' >= TrampolineSize(mode) /\ Start < curr_orig_ip
    BY <1>1, <1>4
<1>n. PICK n : n = Len(buf)
    OBVIOUS
<1>6. n \in Nat /\ n # 0 /\ n >= 1
    BY <1>3, <1>4, <1>5, <1>n DEF Following
<1>7. /\ buf[n].src \in DOMAIN code /\ buf[n].src < Start + TrampolineSize(mode)
      /\ curr_orig_ip = Behind(buf[n].src)
    BY <1>3, <1>6, <1>n DEF CopiedUpTo, Copied, Following
<1>8. OriginGood'
    BY <1>1, <1>5, <1>7, SameCode DEF OriginGood, TrampolineSize
<1>9. StubGood'
    BY <1>1 DEF RelocInv, StubGood, Address
<1>10. CASE phase' = "allocate" /\ buf' = <<>> /\ chunk' = 0 /\ curr_orig_ip' = Start
    <2>1. RelocType'
        BY <1>1, <1>4, <1>5, <1>10 DEF RelocInv, RelocType, Phases
    <2> QED
        BY <1>1, <1>3, <1>8, <1>9, <1>10, <2>1 DEF RelocInv, CopyGood
<1>11. CASE phase' = "run" /\ buf' = Append(buf, JmpBack) /\ UNCHANGED <<chunk, curr_orig_ip>>
    <2>1. PICK it : it = JmpBack
        OBVIOUS
    <2>2. it \in Items /\ it.src = curr_orig_ip /\ it.op = "jmp" /\ it.arg = curr_orig_ip
        BY <1>3, <2>1, JmpBackLeads
    <2>3. /\ Len(buf') = n + 1 /\ buf' \in Seq(Items) /\ buf'[n + 1] = it
          /\ \A k \in 1 .. n : buf'[k] = buf[k]
        BY <1>3, <1>6, <1>11, <1>n, <2>1, <2>2
    <2>4. RelocType'
        BY <1>1, <1>5, <1>11, <2>3 DEF RelocInv, RelocType, Phases
    <2>5. \A k \in 1 .. n : buf'[k].src = Following(k)'
        BY <1>1, <1>3, <1>n, <1>6, <2>3, SameCode DEF CopiedUpTo, Following
    <2>6. \A k \in 1 .. n : (Copied(buf[k]))'
        <3>1. \A k \in 1 .. n : Copied(buf'[k])
            BY <1>3, <1>n, <2>3 DEF CopiedUpTo
        <3> QED
            BY <1>1, <3>1, SameCode
    <2>7. CopiedUpTo(Len(buf) - 1)'
        BY <1>6, <2>3, <2>5, <2>6 DEF CopiedUpTo
    <2>8. buf'[n + 1].src = Following(n + 1)'
        BY <1>1, <1>6, <1>7, <2>2, <2>3, SameCode DEF Following
    <2>9. Ready'
        BY <1>5, <1>6, <2>2, <2>3, <2>7, <2>8 DEF Ready
    <2>10. rpc' = 1 /\ 1 \in 0 .. Len(buf')
        BY <1>1, <1>3, <1>6, <2>3
    <2> QED
        BY <1>8, <1>9, <1>11, <2>4, <2>9, <2>10 DEF RelocInv, CopyGood
<1> QED
    BY <1>2, <1>10, <1>11

(* Running the copy: its last item is the jump, so rpc stays in it.        *)
LEMMA RunStep == ASSUME RelocInv, Straight \/ Taken \/ NotTaken PROVE RelocInv'
<1>1. /\ phase = "run" /\ rpc # 0 /\ UNCHANGED <<mode, code, phase, stub, chunk, origin_len, curr_orig_ip, buf>>
      /\ rpc' = 0 \/ (rpc' = rpc + 1 /\ buf[rpc].op # "jmp")
    BY DEF Straight, Taken, NotTaken, At, InCopy
<1>2. RelocType' /\ StubGood' /\ OriginGood'
    BY <1>1, SameCode DEF RelocInv, RelocType, StubGood, OriginGood, TrampolineSize, Address
<1>3. Ready /\ Len(buf) \in Nat /\ rpc \in 0 .. Len(buf)
    BY <1>1 DEF RelocInv, CopyGood, RelocType
<1>4. Ready'
    <2>1. CopiedUpTo(Len(buf) - 1)'
        BY <1>1, <1>3, SameCode DEF Ready, CopiedUpTo, Following
    <2>2. Following(Len(buf))' = Following(Len(buf))
        BY <1>1, SameCode DEF Following
    <2> QED
        BY <1>1, <1>3, <2>1, <2>2 DEF Ready
<1>5. rpc' \in 0 .. Len(buf)
    BY <1>1, <1>3 DEF Ready
<1> QED
    BY <1>1, <1>2, <1>4, <1>5 DEF RelocInv, CopyGood

LEMMA StepReloc == RelocInv /\ [Next]_vars => RelocInv'
<1> SUFFICES ASSUME RelocInv, [Next]_vars PROVE RelocInv'
    OBVIOUS
<1>1. CASE UNCHANGED vars
    <2>1. UNCHANGED <<mode, code, phase, stub, chunk, origin_len, curr_orig_ip, buf, rpc>>
        BY <1>1 DEF vars
    <2>2. RelocType' /\ StubGood' /\ OriginGood'
        BY <2>1, SameCode DEF RelocInv, RelocType, StubGood, OriginGood, TrampolineSize, Address
    <2>3. \A k : Following(k)' = Following(k)
        BY <2>1, SameCode DEF Following
    <2>4. \A n : CopiedUpTo(n) => CopiedUpTo(n)'
        BY <2>1, <2>3, SameCode DEF CopiedUpTo
    <2>5. Ready => Ready'
        BY <2>1, <2>3, <2>4 DEF Ready
    <2>6. Misread(code[Last(buf).src]) => (Misread(code[Last(buf).src]))'
        BY <2>1 DEF Misread, SibBase, LosesFlags, InPlace!HasSib, InPlace!Address16, Last
    <2>7. CopyGood'
        BY <2>1, <2>3, <2>4, <2>5, <2>6 DEF RelocInv, CopyGood
    <2> QED
        BY <2>2, <2>7 DEF RelocInv
<1> QED
    BY <1>1, AroundCopy, AllocateStep, InstructionStep, EndStep, RunStep DEF Next

LEMMA RelocInvariant == Spec => []RelocInv
    BY InitReloc, StepReloc, PTL DEF Spec

(* GenRelocateCodeFixed copies whole instructions, just as many as lie     *)
(* under the trampoline, for every function and after any number of        *)
(* retries; what the decoder gets wrong is an encoding of Misread, and it  *)
(* gets all of those wrong.                                                *)
THEOREM WholeInstructionsAlways == Spec => []CopyIsWholeInstructions
<1>1. RelocInv => CopyIsWholeInstructions
    <2> SUFFICES ASSUME RelocInv, phase = "run"
                 PROVE  /\ buf[1].src = Start
                        /\ \A k \in 1 .. Len(buf) - 1 :
                              /\ buf[k + 1].src = buf[k].src + InPlace!Length(mode, code[buf[k].src])
                              /\ ~Misread(code[buf[k].src])
                        /\ Start + origin_len = buf[Len(buf) - 1 + 1].src
                        /\ buf[Len(buf) - 1].src < Start + TrampolineSize(mode)
                        /\ Start + TrampolineSize(mode) <= buf[Len(buf) - 1 + 1].src
        BY DEF CopyIsWholeInstructions, RelocInv, CopyGood
    <2>n. PICK n : n = Len(buf) - 1
        OBVIOUS
    <2>1. Ready /\ n \in Nat /\ n >= 1 /\ Len(buf) = n + 1
        BY <2>n DEF RelocInv, CopyGood, RelocType, Ready
    <2>2. \A k \in 1 .. n + 1 : buf[k].src = Following(k)
        BY <2>1 DEF Ready, CopiedUpTo
    <2>3. buf[1].src = Start
        BY <2>1, <2>2 DEF Following
    <2>4. \A k \in 1 .. n : buf[k + 1].src = Behind(buf[k].src)
        BY <2>1, <2>2 DEF Following
    <2>5. /\ Start + origin_len = buf[n + 1].src
          /\ buf[n].src < Start + TrampolineSize(mode)
        BY <2>1 DEF Ready, CopiedUpTo, Copied
    <2>6. Start + TrampolineSize(mode) <= Start + origin_len
        BY CodeFacts DEF RelocInv, OriginGood, RelocType
    <2>7. Len(buf) - 1 = n /\ Len(buf) - 1 + 1 = n + 1
        BY <2>1
    <2>8. \A k \in 1 .. n : ~Misread(code[buf[k].src])
        <3> SUFFICES ASSUME NEW k \in 1 .. n PROVE ~Misread(code[buf[k].src])
            OBVIOUS
        <3>1. Copied(buf[k])
            BY <2>1 DEF Ready, CopiedUpTo
        <3>2. code[buf[k].src] \in InPlace!Instructions(mode) /\ ~Torn(code[buf[k].src])
            BY <3>1, CodeFacts DEF Copied, RelocInv
        <3> QED
            BY <3>2, Measured DEF RelocInv, RelocType
    <2> QED
        BY <2>3, <2>4, <2>5, <2>6, <2>7, <2>8 DEF Behind
<1> QED
    BY <1>1, RelocInvariant, PTL

(* A core that runs the trampoline gets to the stub, or through it: on x64 *)
(* wherever the near arena may put it but for the first bytes of its       *)
(* range, on x86 anywhere.                                                 *)
THEOREM TrampolineLeadsAlways == Spec => []TrampolineLeadsToStub
<1>1. RelocInv => TrampolineLeadsToStub
    <2> SUFFICES ASSUME RelocInv, stub # 0, stub >= Start - Reach32 + TrampolineSize(mode)
                 PROVE  JmpTarget(stub) = stub
        BY DEF TrampolineLeadsToStub
    <2> DEFINE b == Start + TrampolineSize(mode)  x == stub - b
    <2>1. /\ mode \in {32, 64} /\ stub \in Nat /\ Start \in Nat /\ TrampolineSize(mode) \in Nat \ {0}
          /\ Reach32 \in Nat
        BY CodeFacts, X86Assumption DEF RelocInv, RelocType
    <2>2. b \in Int /\ x \in Int /\ b + x = stub
        BY <2>1
    <2>3. JmpTarget(stub) = Wrap(b + Int32(x))
        BY DEF JmpTarget, CurrentIP
    <2>4. CASE mode = 64
        <3>1. x \in -Reach32 .. Reach32 - 1
            BY <2>1, <2>4 DEF RelocInv, StubGood
        <3> HIDE DEF b, x
        <3>2. Int32(x) = x
            BY <3>1, Int32Near
        <3> QED
            BY <2>2, <2>3, <2>4, <3>2 DEF Wrap
    <2>5. CASE mode = 32
        <3> HIDE DEF b, x
        <3>1. (b + Int32(x)) % Space32 = (b + x) % Space32
            BY <2>2, Int32Wraps
        <3>2. Space32 \in Nat \ {0} /\ stub \in 0 .. Space32 - 1
            BY <2>1, <2>5, X86Assumption DEF RelocInv, StubGood, Address, Space32
        <3>3. stub % Space32 = stub
            BY <3>2
        <3>4. (b + Int32(x)) % Space32 = stub
            BY <2>2, <3>1, <3>3, Zenon
        <3> QED
            BY <2>3, <2>5, <3>4 DEF Wrap
    <2> QED
        BY <2>1, <2>4, <2>5
<1> QED
    BY <1>1, RelocInvariant, PTL

-----------------------------------------------------------------------------
(* Running the copy is running the function.                               *)

(* Instruction by instruction: what the copy of it is.                     *)
LEMMA Translated ==
    ASSUME RelocType, NEW it \in Items, Copied(it), NEW in, in = code[it.src],
           NEW offset, offset = Wrap(it.at + DecodedLength(in) + Int32(NewOffset(it.src, in.arg, it.at)))
    PROVE  /\ in.kind \in {"plain", "call", "jmp", "jmp8", "jcc8", "jcc32"}
           /\ in.kind # "plain" => ~InPlace!RipRelative(mode, in)
           /\ in.kind \in {"jcc8", "jcc32"} => it.op = "jcc"
           /\ in.kind = "jmp8" => it.op = "jmp"
           /\ in.kind \in {"call", "jmp"} => it.op = in.kind /\ it.arg = offset
           /\ in.kind = "plain" /\ InPlace!RipRelative(mode, in) => it.op = "memory" /\ it.arg = offset
           /\ in.kind = "plain" /\ ~InPlace!RipRelative(mode, in) => it.op = "run" /\ it.arg = it.src
<1>1. /\ in \in InPlace!Instructions(mode) /\ ~Aborts(in) /\ ~Torn(in)
      /\ it = Relocated(it.src, it.at)
    BY CodeFacts DEF Copied
<1>a. InPlace!RipRelative(mode, in) => in.operands
    BY <1>1, Measured DEF RelocType, Misread, InPlace!RipRelative
<1>2. in.kind \in {"plain", "call", "jmp", "jmp8", "jcc8", "jcc32"}
    BY <1>1 DEF Aborts, InPlace!Instructions, InPlace!Encodings
<1>3. in.kind # "plain" => ~InPlace!RipRelative(mode, in)
    BY <1>1, <1>2 DEF InPlace!Instructions, InPlace!Branch, InPlace!Conditional, InPlace!Jump,
                      InPlace!RipRelative
<1> DEFINE x == NewOffset(it.src, in.arg, it.at)  len == DecodedLength(in)
<1>4. Relocated(it.src, it.at) =
         CASE in.kind = "jcc8" -> Item(it.src, it.at, "jcc", 6, Wrap(it.at + 6 + Int32(x)))
           [] in.kind = "jmp8" -> Item(it.src, it.at, "jmp", 5, Wrap(it.at + 5 + Int8(x)))
           [] InPlace!RipRelative(mode, in) -> Item(it.src, it.at, "memory", len, offset)
           [] in.kind \in {"call", "jmp"} -> Item(it.src, it.at, in.kind, len, offset)
           [] in.kind = "jcc32" -> Item(it.src, it.at, "jcc", len, Wrap(it.at + len + in.arg))
           [] OTHER -> Item(it.src, it.at, "run", len, it.src)
    BY <1>a DEF Relocated
<1> HIDE DEF x, len
<1>5. ASSUME NEW o, NEW n, NEW a, it = Item(it.src, it.at, o, n, a) PROVE it.op = o /\ it.arg = a
    BY <1>5 DEF Item
<1> QED
    BY <1>1, <1>2, <1>3, <1>4, <1>5

(* A displacement that fits, or has 32 bits in 32-bit mode, leads from the *)
(* copy where it led from the function.                                    *)
LEMMA LeadsThere ==
    ASSUME RelocType, NEW it \in Items, Copied(it), NEW in, in = code[it.src],
           mode = 64 => NewOffset(it.src, in.arg, it.at) \in -Reach32 .. Reach32 - 1
    PROVE  Wrap(it.at + DecodedLength(in) + Int32(NewOffset(it.src, in.arg, it.at)))
              = InPlace!Wrap(mode, it.src + InPlace!Length(mode, in) + in.arg)
<1>1. /\ in \in InPlace!Instructions(mode) /\ ~Torn(in) /\ it.src \in Nat /\ it.at \in Nat
      /\ mode \in {32, 64} /\ in.arg \in Int
    BY CodeFacts DEF Copied, RelocType, Items, InPlace!Instructions, InPlace!Encodings
<1>2. InPlace!Length(mode, in) = DecodedLength(in) /\ DecodedLength(in) \in Nat
    BY <1>1, LengthType DEF Torn
<1> DEFINE len == DecodedLength(in)  x == NewOffset(it.src, in.arg, it.at)  b == it.at + len
           y == it.src + len + in.arg
<1>3. b \in Int /\ x \in Int /\ y \in Int /\ b + x = y
    BY <1>1, <1>2 DEF NewOffset
<1> HIDE DEF len, x, b, y
<1>4. Wrap(b + Int32(x)) = InPlace!Wrap(mode, y)
    <2>1. CASE mode = 64
        <3>1. Int32(x) = x
            BY <2>1, Int32Near DEF x
        <3> QED
            BY <1>3, <2>1, <3>1 DEF Wrap, InPlace!Wrap
    <2>2. CASE mode = 32
        <3>1. (b + Int32(x)) % Space32 = (b + x) % Space32
            BY <1>3, Int32Wraps
        <3>2. (b + Int32(x)) % Space32 = y % Space32
            BY <1>3, <3>1, Zenon
        <3> QED
            BY <2>2, <3>2 DEF Wrap, InPlace!Wrap
    <2> QED
        BY <1>1, <2>1, <2>2
<1> QED
    BY <1>2, <1>4 DEF len, x, b, y

(* An item that is run for an instruction of the function.                 *)
LEMMA ItemStep ==
    ASSUME RelocInv, Straight \/ Taken \/ NotTaken, rpc \in 1 .. Len(buf) - 1,
           ~TakesUntranslatedBranch(rpc), ~OutOfReach(rpc)
    PROVE  InPlace!Next \/ PushesCopyAddress(rpc)
<1>1. /\ phase = "run" /\ UNCHANGED <<mode, code, phase, buf>>
    BY DEF Straight, Taken, NotTaken, At, InCopy
<1>2. RelocType /\ Ready /\ Len(buf) \in Nat /\ buf \in Seq(Items)
    BY <1>1 DEF RelocInv, CopyGood, RelocType
<1>3. PICK it : it = buf[rpc]
    OBVIOUS
<1>4. /\ it \in Items /\ Copied(it) /\ rpc \in Nat /\ rpc # 0 /\ rpc + 1 # 0 /\ rpc + 1 # 1
      /\ buf[rpc + 1].src = Behind(it.src)
    <2>1. it \in Items /\ Copied(it) /\ rpc \in Nat /\ rpc # 0 /\ rpc + 1 # 0 /\ rpc + 1 # 1 /\ rpc + 1 - 1 = rpc
        BY <1>2, <1>3 DEF Ready, CopiedUpTo
    <2>2. buf[rpc + 1].src = Following(rpc + 1)
        BY <1>2 DEF Ready, CopiedUpTo
    <2> QED
        BY <2>1, <2>2, <1>3 DEF Following
<1>5. PICK in : in = code[it.src]
    OBVIOUS
<1> DEFINE pc == IF phase # "run" THEN Start ELSE IF rpc = 0 THEN exit ELSE buf[rpc].src
           next == it.src + InPlace!Length(mode, in)
           operand == InPlace!Wrap(mode, next + in.arg)
           arg == Wrap(it.at + DecodedLength(in) + Int32(NewOffset(it.src, in.arg, it.at)))
<1>6. /\ pc = it.src /\ it.src \in DOMAIN code
      /\ rpc' = rpc + 1 => pc' = next
      /\ rpc' = 0 => pc' = exit'
    BY <1>1, <1>3, <1>4, <1>5 DEF Copied, Behind
<1>7. /\ in.kind \in {"plain", "call", "jmp", "jmp8", "jcc8", "jcc32"}
      /\ in.kind # "plain" => ~InPlace!RipRelative(mode, in)
      /\ in.kind \in {"jcc8", "jcc32"} => it.op = "jcc"
      /\ in.kind = "jmp8" => it.op = "jmp"
      /\ in.kind \in {"call", "jmp"} => it.op = in.kind /\ it.arg = arg
      /\ in.kind = "plain" /\ InPlace!RipRelative(mode, in) => it.op = "memory" /\ it.arg = arg
      /\ in.kind = "plain" /\ ~InPlace!RipRelative(mode, in) => it.op = "run" /\ it.arg = it.src
    BY <1>2, <1>4, <1>5, Translated
<1>8. it.op \in {"memory", "call", "jmp"} => arg = operand
    <2> SUFFICES ASSUME it.op \in {"memory", "call", "jmp"} PROVE arg = operand
        OBVIOUS
    <2>1. mode = 64 => NewOffset(it.src, in.arg, it.at) \in -Reach32 .. Reach32 - 1
        BY <1>3, <1>5 DEF OutOfReach
    <2> QED
        BY <1>2, <1>4, <1>5, <2>1, LeadsThere
<1>9. rpc' = 0 => in.kind \notin {"jcc8", "jmp8", "jcc32"}
    BY <1>3, <1>5 DEF TakesUntranslatedBranch
<1>r. PICK ret : ret = IF it.op = "call" THEN Pushed(rpc) ELSE InPlace!ReturnAddress
    OBVIOUS
<1>10. \/ /\ it.op \in {"run", "memory"} /\ rpc' = rpc + 1
          /\ trace' = Append(trace, <<it.op, it.arg>>)
       \/ /\ it.op = "call" /\ rpc' = rpc + 1
          /\ trace' = Append(trace, <<"call", it.arg, ret>>)
       \/ it.op \in {"jmp", "jcc"} /\ rpc' = 0 /\ exit' = it.arg /\ trace' = trace
       \/ it.op = "jcc" /\ rpc' = rpc + 1 /\ trace' = trace
    BY <1>3, <1>r DEF Straight, Taken, NotTaken, At
<1>11. InPlace!Runs(FALSE, ret) <=>
         /\ pc \in DOMAIN code
         /\ pc' = IF InPlace!Jump(code[pc]) \/ (InPlace!Conditional(code[pc]) /\ FALSE)
                  THEN InPlace!Wrap(mode, pc + InPlace!Length(mode, code[pc]) + code[pc].arg)
                  ELSE pc + InPlace!Length(mode, code[pc])
         /\ trace' = CASE code[pc].kind = "call" ->
                             Append(trace, <<"call", InPlace!Wrap(mode, pc + InPlace!Length(mode, code[pc]) + code[pc].arg),
                                             ret>>)
                       [] InPlace!Jump(code[pc]) \/ InPlace!Conditional(code[pc]) -> trace
                       [] InPlace!RipRelative(mode, code[pc]) ->
                             Append(trace, <<"memory", InPlace!Wrap(mode, pc + InPlace!Length(mode, code[pc]) + code[pc].arg)>>)
                       [] OTHER -> Append(trace, <<"run", pc>>)
         /\ UNCHANGED <<mode, code>>
    BY DEF InPlace!Runs
<1> HIDE DEF pc, arg
<1>12. /\ pc' = IF InPlace!Jump(in) THEN operand ELSE next
       /\ trace' = CASE in.kind = "call" -> Append(trace, <<"call", operand, ret>>)
                     [] InPlace!Jump(in) \/ InPlace!Conditional(in) -> trace
                     [] InPlace!RipRelative(mode, in) -> Append(trace, <<"memory", operand>>)
                     [] OTHER -> Append(trace, <<"run", it.src>>)
    <2> HIDE DEF next, operand
    <2>1. CASE in.kind = "plain" /\ InPlace!RipRelative(mode, in)
        BY <2>1, <1>6, <1>7, <1>8, <1>10 DEF InPlace!Jump, InPlace!Conditional
    <2>2. CASE in.kind = "plain" /\ ~InPlace!RipRelative(mode, in)
        BY <2>2, <1>6, <1>7, <1>8, <1>10 DEF InPlace!Jump, InPlace!Conditional
    <2>3. CASE in.kind = "call"
        BY <2>3, <1>6, <1>7, <1>8, <1>10 DEF InPlace!Jump, InPlace!Conditional
    <2>4. CASE in.kind = "jmp"
        BY <2>4, <1>6, <1>7, <1>8, <1>10 DEF InPlace!Jump, InPlace!Conditional
    <2>5. CASE in.kind \in {"jmp8", "jcc8", "jcc32"}
        BY <2>5, <1>6, <1>7, <1>9, <1>10 DEF InPlace!Jump, InPlace!Conditional
    <2> QED
        BY <1>7, <2>1, <2>2, <2>3, <2>4, <2>5
<1>13. InPlace!Runs(FALSE, ret)
    BY <1>1, <1>5, <1>6, <1>11, <1>12
<1>14. CASE it.op = "call"
    BY <1>3, <1>13, <1>14, <1>r DEF PushesCopyAddress
<1>15. CASE it.op # "call"
    BY <1>13, <1>15, <1>r DEF InPlace!Next
<1> QED
    BY <1>14, <1>15

(* Until it runs, the function stands at its start: the copy begins with   *)
(* its first instruction.                                                  *)
LEMMA BeforeRunning ==
    ASSUME RelocInv, RelocInv', Next, phase # "run"
    PROVE  UNCHANGED InPlace!vars
<1>1. UNCHANGED <<mode, code, trace>>
    BY DEF Next, GenerateNormalTrampolineBuffer, NoStub, AllocateCodeChunk, AllocateFails, Unimplemented,
           RelocateInstruction, GenRelocateCodeFixed, NotRunning, Straight, Taken, NotTaken, At
<1>2. rpc' = 1
    BY DEF Next, GenerateNormalTrampolineBuffer, NoStub, AllocateCodeChunk, AllocateFails, Unimplemented,
           RelocateInstruction, GenRelocateCodeFixed, NotRunning, Straight, Taken, NotTaken, At,
           RelocInv, CopyGood
<1>3. phase' = "run" => buf'[1].src = Start
    <2> SUFFICES ASSUME phase' = "run" PROVE buf'[1].src = Start
        OBVIOUS
    <2>1. Ready' /\ Len(buf') \in Nat
        BY DEF RelocInv, CopyGood, RelocType
    <2>2. buf'[1].src = Following(1)'
        BY <2>1 DEF Ready, CopiedUpTo
    <2> QED
        BY <2>2 DEF Following
<1> QED
    BY <1>1, <1>2, <1>3 DEF InPlace!vars

(* The jump at the end of the copy is no step of the function.             *)
LEMMA JumpBackStep ==
    ASSUME RelocInv, Straight \/ Taken \/ NotTaken, rpc \notin 1 .. Len(buf) - 1
    PROVE  UNCHANGED InPlace!vars
<1>1. phase = "run" /\ rpc # 0 /\ UNCHANGED <<mode, code, phase, buf>>
    BY DEF Straight, Taken, NotTaken, At, InCopy
<1>2. Ready /\ Len(buf) \in Nat /\ rpc = Len(buf)
    BY <1>1 DEF RelocInv, CopyGood, RelocType
<1>3. buf[rpc].op = "jmp" /\ buf[rpc].arg = buf[rpc].src
    BY <1>2 DEF Ready
<1>4. rpc' = 0 /\ exit' = buf[rpc].arg /\ UNCHANGED trace
    BY <1>3 DEF Straight, Taken, NotTaken, At
<1> QED
    BY <1>1, <1>3, <1>4 DEF InPlace!vars

(* The relocated copy implements the function in place: wherever it is     *)
(* copied to, after any number of retries, and whichever way its branches  *)
(* go, every step of it is the instruction's own, but for taken short and  *)
(* conditional branches, operands out of reach and the return address that *)
(* a call pushes, which is the copy's.                                     *)
THEOREM CopyImplementsFunction == Spec => CopyRunsInPlace
<1>1. Init => InPlace!Init
    BY DEF Init, InPlace!Init
<1>2. RelocInv /\ RelocInv' /\ [Next]_vars =>
         [\/ /\ phase = "run" /\ rpc \in 1 .. Len(buf) - 1
             /\ TakesUntranslatedBranch(rpc) \/ OutOfReach(rpc) \/ PushesCopyAddress(rpc)
          \/ InPlace!Next]_(InPlace!vars)
    <2> SUFFICES ASSUME RelocInv, RelocInv', [Next]_vars,
                        ~(/\ phase = "run" /\ rpc \in 1 .. Len(buf) - 1
                          /\ TakesUntranslatedBranch(rpc) \/ OutOfReach(rpc) \/ PushesCopyAddress(rpc))
                 PROVE  InPlace!Next \/ UNCHANGED InPlace!vars
        OBVIOUS
    <2>1. CASE UNCHANGED vars
        BY <2>1 DEF vars, InPlace!vars
    <2>2. CASE Next /\ phase # "run"
        BY <2>2, BeforeRunning
    <2>3. CASE Next /\ phase = "run"
        <3>1. Straight \/ Taken \/ NotTaken
            BY <2>3 DEF Next, GenerateNormalTrampolineBuffer, NoStub, AllocateCodeChunk, AllocateFails,
                        Unimplemented, RelocateInstruction, GenRelocateCodeFixed, Decode
        <3>2. CASE rpc \in 1 .. Len(buf) - 1
            BY <2>3, <3>1, <3>2, ItemStep
        <3>3. CASE rpc \notin 1 .. Len(buf) - 1
            BY <3>1, <3>3, JumpBackStep
        <3> QED
            BY <3>2, <3>3
    <2> QED
        BY <2>1, <2>2, <2>3
<1> QED
    BY <1>1, <1>2, RelocInvariant, PTL DEF Spec, CopyRunsInPlace
=============================================================================
