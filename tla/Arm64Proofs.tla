----------------------------- MODULE Arm64Proofs -----------------------------
(***************************************************************************)
(* Arm64Reloc for every prologue, at every address: the relocated copy     *)
(* does what the prologue does in place, and the trampoline leads to the   *)
(* replacement.                                                            *)
(*                                                                         *)
(* The invariant says of every word of the copy, by its kind, what the     *)
(* word behind it is; the layout of the whole is never needed.             *)
(***************************************************************************)
EXTENDS Arm64Reloc, TLAPS

WordOps == {"movk", "mov_x17", "mov_xd", "ldr_x17", "plain", "inverted", "ldr_literal",
            "br_x17", "blr_x17", "low", "high"}
Word == [src : Nat, op : WordOps, arg : Int]
LabelEntry == [data : Int, use : Nat]
Events == ({"plain", "address"} \X Int) \cup ({"load", "call"} \X Int \X Int)

(* The words the copy of an instruction begins with, and those that use    *)
(* x17.                                                                    *)
Entry == {"movk", "ldr_literal", "inverted", "plain"}
Uses == {"ldr_x17", "br_x17", "blr_x17"}

Rest(prog) == Start + Len(prog)
Source(prog, s) == prog[s - Start + 1]
FromKind(prog, s, kinds) ==
    s \in Nat /\ s - Start + 1 \in 1 .. Len(prog) /\ Source(prog, s).op \in kinds

(* What x17 holds when the copy of the instruction at s uses it.           *)
Wanted(prog, s) == IF s = Rest(prog) THEN s ELSE s + Source(prog, s).arg

(* The word behind p belongs to the same instruction.                      *)
Stays(b, p, ops) == p < Len(b) /\ b[p + 1].src = b[p].src /\ b[p + 1].op \in ops

(* The word behind q begins the copy of the instruction after that of p;   *)
(* end is the next instruction to copy.                                    *)
MovesOn(b, p, q, end) ==
    \/ q < Len(b) /\ b[q + 1].src = b[p].src + 1 /\ b[q + 1].op \in Entry
    \/ q = Len(b) /\ b[p].src + 1 = end

MovGood(b, p, end, prog) ==
    /\ b[p].op = "movk" => Stays(b, p, {"movk", "mov_x17", "mov_xd"})
    /\ b[p].op = "mov_x17" =>
          /\ FromKind(prog, b[p].src, {"ldr", "ldrw"}) /\ b[p].arg = Wanted(prog, b[p].src)
          /\ Stays(b, p, {"ldr_x17"})
    /\ b[p].op = "mov_xd" =>
          /\ MovesOn(b, p, p, end)
          /\ \/ /\ FromKind(prog, b[p].src, {"adr"})
                /\ b[p].arg = b[p].src + Source(prog, b[p].src).arg
             \/ /\ FromKind(prog, b[p].src, {"adrp"})
                /\ b[p].arg = AdrpAddress(Source(prog, b[p].src), b[p].src)
PlainGood(b, p, end, prog) ==
    /\ b[p].op = "plain" =>
          /\ FromKind(prog, b[p].src, {"plain"}) /\ b[p].arg = Source(prog, b[p].src).arg
          /\ MovesOn(b, p, p, end)
    /\ b[p].op = "ldr_x17" =>
          FromKind(prog, b[p].src, {"ldr", "ldrw"}) /\ b[p].arg = 8 /\ MovesOn(b, p, p, end)
BranchGood(b, p, end, prog) ==
    /\ b[p].op = "inverted" =>
          /\ FromKind(prog, b[p].src, {"cond"}) /\ b[p].arg = 3
          /\ Stays(b, p, {"ldr_literal"}) /\ MovesOn(b, p, p + 2, end)
    /\ b[p].op = "ldr_literal" => Stays(b, p, {"br_x17", "blr_x17"})
    /\ b[p].op = "br_x17" => b[p].src = Rest(prog) \/ FromKind(prog, b[p].src, {"b", "cond"})
    /\ b[p].op = "blr_x17" => FromKind(prog, b[p].src, {"bl"}) /\ MovesOn(b, p, p, end)

WordsGood(b, end, prog) ==
    \A p \in 1 .. Len(b) :
        MovGood(b, p, end, prog) /\ PlainGood(b, p, end, prog) /\ BranchGood(b, p, end, prog)

(* A load finds its literal, or waits for a label that will bind it.       *)
Finds(b, p, q, prog) ==
    /\ q \in 1 .. Len(b) /\ q + 1 \in 1 .. Len(b)
    /\ b[q].op = "low" /\ b[q + 1].op = "high" /\ b[q].arg = Wanted(prog, b[p].src)
LoadsGood(b, prog, labels) ==
    \A p \in 1 .. Len(b) : b[p].op = "ldr_literal" =>
        Finds(b, p, p + b[p].arg, prog) \/ \E l \in 1 .. Len(labels) : labels[l].use = p
LabelsGood(b, prog, labels) ==
    \A l \in 1 .. Len(labels) :
        /\ labels[l].use \in 1 .. Len(b) /\ b[labels[l].use].op = "ldr_literal"
        /\ labels[l].data = Wanted(prog, b[labels[l].use].src)

Begins(b, end) == IF Len(b) = 0 THEN end = Start ELSE b[1].src = Start /\ b[1].op \in Entry

(* Where the next instruction's copy will begin; nowhere once the branch   *)
(* back is there.                                                          *)
End == IF phase \in {"relocate", "abort"} THEN curr_orig_pc ELSE -1

RelocType ==
    /\ code \in Programs /\ replace_call \in Addresses
    /\ phase \in {"relocate", "bind", "run", "abort"}
    /\ curr_orig_pc \in Nat /\ Start <= curr_orig_pc /\ curr_orig_pc <= Start + Len(code)
    /\ buf \in Seq(Word) /\ data_labels \in Seq(LabelEntry)
RunType == rpc \in Nat /\ x17 \in Int /\ trace \in Seq(Events)

CopyGood ==
    /\ WordsGood(buf, End, code) /\ LoadsGood(buf, code, data_labels)
    /\ LabelsGood(buf, code, data_labels) /\ Begins(buf, End)
    /\ phase = "run" => data_labels = <<>>

RunGood ==
    /\ phase # "run" => rpc = 1 /\ trace = <<>>
    /\ phase = "run" /\ rpc # 0 =>
          /\ rpc <= Len(buf) /\ buf[rpc].op \notin {"low", "high"}
          /\ buf[rpc].op \in Uses => x17 = Wanted(code, buf[rpc].src)

RelocInv == RelocType /\ RunType /\ CopyGood /\ RunGood

-----------------------------------------------------------------------------
(* Words behind words.                                                     *)

(* Where the elements of a concatenation come from.                        *)
LEMMA TwoParts ==
    ASSUME NEW S, NEW a \in Seq(S), NEW b \in Seq(S)
    PROVE  /\ a \o b \in Seq(S) /\ Len(a) \in Nat /\ Len(b) \in Nat
           /\ Len(a \o b) = Len(a) + Len(b)
           /\ \A k \in 1 .. Len(a) : (a \o b)[k] = a[k]
           /\ \A k \in 1 .. Len(b) : (a \o b)[Len(a) + k] = b[k]
<1>1. a \o b \in Seq(S) /\ Len(a) \in Nat /\ Len(b) \in Nat /\ Len(a \o b) = Len(a) + Len(b)
    OBVIOUS
<1>2. \A k \in 1 .. Len(a) : (a \o b)[k] = a[k]
    OBVIOUS
<1>3. \A k \in 1 .. Len(b) : (a \o b)[Len(a) + k] = b[k]
    OBVIOUS
<1> QED
    BY <1>1, <1>2, <1>3

(* What is said of a word is said of it in a copy that has the same word   *)
(* in the same surroundings.                                               *)
LEMMA SameWord ==
    ASSUME NEW b, NEW c, NEW p, NEW q, NEW end, NEW end2, NEW prog,
           b[p].src = c[q].src, b[p].op = c[q].op, b[p].op # "ldr_literal" => b[p].arg = c[q].arg,
           MovGood(b, p, end, prog) /\ PlainGood(b, p, end, prog) /\ BranchGood(b, p, end, prog),
           \A ops : Stays(b, p, ops) => Stays(c, q, ops),
           MovesOn(b, p, p, end) => MovesOn(c, q, q, end2),
           MovesOn(b, p, p + 2, end) => MovesOn(c, q, q + 2, end2)
    PROVE  MovGood(c, q, end2, prog) /\ PlainGood(c, q, end2, prog) /\ BranchGood(c, q, end2, prog)
<1>1. MovGood(c, q, end2, prog)
    BY DEF MovGood
<1>2. PlainGood(c, q, end2, prog)
    BY DEF PlainGood
<1>3. BranchGood(c, q, end2, prog)
    BY DEF BranchGood
<1> QED
    BY <1>1, <1>2, <1>3

(* Good words followed by good words are good words, if the second part    *)
(* begins with the instruction the first part expects next.                *)
LEMMA Joined ==
    ASSUME NEW b \in Seq(Word), NEW ws \in Seq(Word), NEW end, NEW end2, NEW prog,
           WordsGood(b, end, prog), WordsGood(ws, end2, prog),
           Len(ws) >= 1, ws[1].src = end, ws[1].op \in Entry
    PROVE  WordsGood(b \o ws, end2, prog)
<1> DEFINE new == b \o ws  n == Len(b)
<1>1. /\ n \in Nat /\ Len(ws) \in Nat /\ Len(new) = n + Len(ws)
      /\ \A k \in 1 .. n : new[k] = b[k]
      /\ \A k \in 1 .. Len(ws) : new[n + k] = ws[k]
    BY TwoParts
<1> HIDE DEF new
<1>2. new[n + 1] = ws[1]
    BY <1>1
<1>3. ASSUME NEW p \in 1 .. n
      PROVE  MovGood(new, p, end2, prog) /\ PlainGood(new, p, end2, prog) /\ BranchGood(new, p, end2, prog)
    <2>1. new[p] = b[p] /\ p \in Nat /\ p + 2 \in Nat
        BY <1>1
    <2>2. ASSUME NEW ops, Stays(b, p, ops) PROVE Stays(new, p, ops)
        <3>1. p + 1 \in 1 .. n /\ p < Len(new)
            BY <1>1, <2>2 DEF Stays
        <3>2. new[p + 1] = b[p + 1]
            BY <1>1, <3>1
        <3> QED
            BY <2>1, <2>2, <3>1, <3>2 DEF Stays
    <2>3. ASSUME NEW q \in Nat, MovesOn(b, p, q, end) PROVE MovesOn(new, p, q, end2)
        <3>1. CASE q < n /\ b[q + 1].src = b[p].src + 1 /\ b[q + 1].op \in Entry
            <4>1. q + 1 \in 1 .. n /\ q < Len(new)
                BY <1>1, <3>1
            <4>2. new[q + 1] = b[q + 1]
                BY <1>1, <4>1
            <4> QED
                BY <2>1, <3>1, <4>1, <4>2 DEF MovesOn
        <3>2. CASE q = n /\ b[p].src + 1 = end
            BY <1>1, <1>2, <2>1, <3>2 DEF MovesOn
        <3> QED
            BY <2>3, <3>1, <3>2 DEF MovesOn
    <2>4. MovGood(b, p, end, prog) /\ PlainGood(b, p, end, prog) /\ BranchGood(b, p, end, prog)
        BY DEF WordsGood
    <2>5. MovesOn(b, p, p, end) => MovesOn(new, p, p, end2)
        BY <2>1, <2>3
    <2>6. MovesOn(b, p, p + 2, end) => MovesOn(new, p, p + 2, end2)
        BY <2>1, <2>3
    <2>7. \A ops : Stays(b, p, ops) => Stays(new, p, ops)
        BY <2>2
    <2> QED
        BY <2>1, <2>4, <2>5, <2>6, <2>7, SameWord, Zenon
<1>4. ASSUME NEW k \in 1 .. Len(ws)
      PROVE  /\ MovGood(new, n + k, end2, prog) /\ PlainGood(new, n + k, end2, prog)
             /\ BranchGood(new, n + k, end2, prog)
    <2>1. new[n + k] = ws[k] /\ k \in Nat /\ (n + k) + 2 = n + (k + 2) /\ k + 2 \in Nat
        <3>1. new[n + k] = ws[k]
            BY <1>1
        <3>2. k \in Nat /\ n \in Nat
            BY <1>1
        <3> QED
            BY <3>1, <3>2
    <2>2. ASSUME NEW ops, Stays(ws, k, ops) PROVE Stays(new, n + k, ops)
        <3>1. k + 1 \in 1 .. Len(ws) /\ n + k < Len(new) /\ (n + k) + 1 = n + (k + 1)
            BY <1>1, <2>2 DEF Stays
        <3>2. new[(n + k) + 1] = ws[k + 1]
            BY <1>1, <3>1
        <3> QED
            BY <2>1, <2>2, <3>1, <3>2 DEF Stays
    <2>3. ASSUME NEW q \in Nat, MovesOn(ws, k, q, end2) PROVE MovesOn(new, n + k, n + q, end2)
        <3>1. CASE q < Len(ws) /\ ws[q + 1].src = ws[k].src + 1 /\ ws[q + 1].op \in Entry
            <4>1. q + 1 \in 1 .. Len(ws) /\ n + q < Len(new) /\ (n + q) + 1 = n + (q + 1)
                BY <1>1, <3>1
            <4>2. new[(n + q) + 1] = ws[q + 1]
                BY <1>1, <4>1
            <4> QED
                BY <2>1, <3>1, <4>1, <4>2 DEF MovesOn
        <3>2. CASE q = Len(ws) /\ ws[k].src + 1 = end2
            BY <1>1, <2>1, <3>2 DEF MovesOn
        <3> QED
            BY <2>3, <3>1, <3>2 DEF MovesOn
    <2>4. MovGood(ws, k, end2, prog) /\ PlainGood(ws, k, end2, prog) /\ BranchGood(ws, k, end2, prog)
        BY DEF WordsGood
    <2>5. MovesOn(ws, k, k, end2) => MovesOn(new, n + k, n + k, end2)
        BY <2>1, <2>3
    <2>6. MovesOn(ws, k, k + 2, end2) => MovesOn(new, n + k, (n + k) + 2, end2)
        BY <2>1, <2>3
    <2>7. \A ops : Stays(ws, k, ops) => Stays(new, n + k, ops)
        BY <2>2
    <2> QED
        BY <2>1, <2>4, <2>5, <2>6, <2>7, SameWord
<1>5. \A p \in 1 .. Len(new) : p \in 1 .. n \/ (p - n \in 1 .. Len(ws) /\ p = n + (p - n))
    BY <1>1
<1>6. ASSUME NEW p \in 1 .. Len(new)
      PROVE  MovGood(new, p, end2, prog) /\ PlainGood(new, p, end2, prog) /\ BranchGood(new, p, end2, prog)
    <2>1. CASE p \in 1 .. n
        BY <1>3, <2>1
    <2>2. CASE p - n \in 1 .. Len(ws) /\ p = n + (p - n)
        <3> DEFINE k == p - n
        <3>1. k \in 1 .. Len(ws) /\ p = n + k
            BY <2>2
        <3> HIDE DEF k
        <3> QED
            BY <1>4, <3>1
    <2> QED
        BY <1>5, <2>1, <2>2
<1>7. WordsGood(new, end2, prog)
    BY <1>6 DEF WordsGood
<1> QED
    BY <1>7 DEF new

(* Binding a label fixes the offset of the load at u and appends the       *)
(* literal d.                                                              *)
Rebound(b, c, u, d) ==
    /\ Len(b) \in Nat /\ Len(c) = Len(b) + 2 /\ c \in Seq(Word)
    /\ \A p \in 1 .. Len(b) :
          c[p].src = b[p].src /\ c[p].op = b[p].op /\ (p # u => c[p] = b[p])
    /\ c[u].arg = Len(b) + 1 - u
    /\ c[Len(b) + 1].op = "low" /\ c[Len(b) + 1].arg = d /\ c[Len(b) + 2].op = "high"

LEMMA BindWord ==
    ASSUME NEW b \in Seq(Word), NEW u \in 1 .. Len(b), NEW d \in Int
    PROVE  Rebound(b, Bind(b, Label(d, u)), u, d)
<1> DEFINE n == Len(b)
           e == [b EXCEPT ![u].arg = n + 1 - u]
           t == <<W(0, "low", d), W(0, "high", d)>>
<1>1. b[u] \in Word /\ n + 1 - u \in Int /\ n \in Nat
    OBVIOUS
<1>2. [b[u] EXCEPT !.arg = n + 1 - u] \in Word
    BY <1>1 DEF Word
<1>3. e \in Seq(Word) /\ Len(e) = n
    BY <1>2
<1>4. W(0, "low", d) \in Word /\ W(0, "high", d) \in Word
    BY DEF W, Word, WordOps
<1>5. t \in Seq(Word) /\ Len(t) = 2 /\ t[1] = W(0, "low", d) /\ t[2] = W(0, "high", d)
    BY <1>4
<1>6. e[u] = [b[u] EXCEPT !.arg = n + 1 - u] /\ \A p \in 1 .. n : p # u => e[p] = b[p]
    BY <1>1
<1>7. e[u].src = b[u].src /\ e[u].op = b[u].op /\ e[u].arg = n + 1 - u
    BY <1>1, <1>6 DEF Word
<1>8. Bind(b, Label(d, u)) = e \o t
    BY DEF Bind, Label
<1> HIDE DEF e, t, n
<1> DEFINE c == e \o t
<1>9. /\ c \in Seq(Word) /\ Len(c) = n + 2
      /\ \A k \in 1 .. n : c[k] = e[k]
      /\ \A k \in 1 .. 2 : c[n + k] = t[k]
    <2>1. /\ c \in Seq(Word) /\ Len(c) = Len(e) + Len(t)
          /\ \A k \in 1 .. Len(e) : c[k] = e[k]
          /\ \A k \in 1 .. Len(t) : c[Len(e) + k] = t[k]
        <3>1. e \in Seq(Word) /\ t \in Seq(Word)
            BY <1>3, <1>5
        <3> QED
            BY <3>1, TwoParts
    <2> HIDE DEF c
    <2> QED
        BY <1>3, <1>5, <2>1
<1> HIDE DEF c
<1>10. c[n + 1] = t[1] /\ c[n + 2] = t[2]
    BY <1>9
<1>11. u \in 1 .. n
    BY DEF n
<1>12. \A p \in 1 .. n : c[p].src = b[p].src /\ c[p].op = b[p].op /\ (p # u => c[p] = b[p])
    BY <1>6, <1>7, <1>9
<1>13. c[u].arg = n + 1 - u
    BY <1>7, <1>9, <1>11
<1>14. c[n + 1].op = "low" /\ c[n + 1].arg = d /\ c[n + 2].op = "high"
    BY <1>5, <1>10 DEF W
<1>15. Rebound(b, c, u, d)
    BY <1>1, <1>9, <1>12, <1>13, <1>14 DEF Rebound, n
<1> QED
    BY <1>8, <1>15 DEF c

(* Binding keeps the words good once no instruction is left to copy.       *)
LEMMA BindKeepsWords ==
    ASSUME NEW b \in Seq(Word), NEW c, NEW u \in 1 .. Len(b), NEW d, NEW prog,
           WordsGood(b, -1, prog), b[u].op = "ldr_literal", Rebound(b, c, u, d)
    PROVE  WordsGood(c, -1, prog)
<1> DEFINE n == Len(b)  end == -1
<1>1. n \in Nat /\ Len(c) = n + 2 /\ end \in Int /\ end < 0
    BY DEF Rebound
<1>2. \A p \in 1 .. n : c[p].src = b[p].src /\ c[p].op = b[p].op
    BY DEF Rebound
<1>3. \A p \in 1 .. n : b[p].op # "ldr_literal" => c[p].arg = b[p].arg
    BY DEF Rebound
<1>4. c[n + 1].op = "low" /\ c[n + 2].op = "high"
    BY DEF Rebound
<1>5. \A p \in 1 .. n : MovGood(b, p, end, prog) /\ PlainGood(b, p, end, prog) /\ BranchGood(b, p, end, prog)
    BY DEF WordsGood
<1>6. ASSUME NEW p \in 1 .. n PROVE b[p].src \in Nat
    <2>1. b[p] \in Word
        OBVIOUS
    <2> QED
        BY <2>1 DEF Word
<1> HIDE DEF n, end
<1>7. ASSUME NEW p \in 1 .. n
      PROVE  MovGood(c, p, end, prog) /\ PlainGood(c, p, end, prog) /\ BranchGood(c, p, end, prog)
    <2>1. p \in Nat /\ p + 2 \in Nat /\ c[p].src = b[p].src /\ c[p].op = b[p].op
        BY <1>1, <1>2
    <2>2. ASSUME NEW ops, Stays(b, p, ops) PROVE Stays(c, p, ops)
        <3>1. p + 1 \in 1 .. n /\ p < Len(c)
            BY <1>1, <2>2 DEF Stays, n
        <3>2. c[p + 1].src = b[p + 1].src /\ c[p + 1].op = b[p + 1].op
            BY <1>2, <3>1
        <3> QED
            BY <2>1, <2>2, <3>1, <3>2 DEF Stays
    <2>3. ASSUME NEW q \in Nat, MovesOn(b, p, q, end) PROVE MovesOn(c, p, q, end)
        <3>1. q < n /\ b[q + 1].src = b[p].src + 1 /\ b[q + 1].op \in Entry
            BY <1>1, <1>6, <2>3 DEF MovesOn, n
        <3>2. q + 1 \in 1 .. n /\ q < Len(c)
            BY <1>1, <3>1
        <3>3. c[q + 1].src = b[q + 1].src /\ c[q + 1].op = b[q + 1].op
            BY <1>2, <3>2
        <3> QED
            BY <2>1, <3>1, <3>2, <3>3 DEF MovesOn
    <2>4. MovGood(b, p, end, prog) /\ PlainGood(b, p, end, prog) /\ BranchGood(b, p, end, prog)
        BY <1>5
    <2>5. MovesOn(b, p, p, end) => MovesOn(c, p, p, end)
        BY <2>1, <2>3
    <2>6. MovesOn(b, p, p + 2, end) => MovesOn(c, p, p + 2, end)
        BY <2>1, <2>3
    <2>7. \A ops : Stays(b, p, ops) => Stays(c, p, ops)
        BY <2>2
    <2>8. b[p].op # "ldr_literal" => b[p].arg = c[p].arg
        BY <1>3
    <2> QED
        BY <2>1, <2>4, <2>5, <2>6, <2>7, <2>8, SameWord
<1>8. ASSUME NEW p \in 1 .. Len(c), p \notin 1 .. n
      PROVE  MovGood(c, p, end, prog) /\ PlainGood(c, p, end, prog) /\ BranchGood(c, p, end, prog)
    <2>1. p = n + 1 \/ p = n + 2
        BY <1>1, <1>8
    <2>2. c[p].op = "low" \/ c[p].op = "high"
        BY <1>4, <2>1
    <2> QED
        BY <2>2 DEF MovGood, PlainGood, BranchGood
<1> QED
    BY <1>7, <1>8 DEF WordsGood, end

(* A load that found its literal still finds it; the one whose label is    *)
(* bound finds it now.                                                     *)
LoadsBut(b, prog, labels, u) ==
    \A p \in 1 .. Len(b) : b[p].op = "ldr_literal" =>
        \/ p = u \/ Finds(b, p, p + b[p].arg, prog)
        \/ \E l \in 1 .. Len(labels) : labels[l].use = p

LEMMA BindKeepsLoads ==
    ASSUME NEW b \in Seq(Word), NEW c, NEW u \in 1 .. Len(b), NEW prog, NEW labels,
           b[u].op = "ldr_literal", Rebound(b, c, u, Wanted(prog, b[u].src)),
           LabelsGood(b, prog, labels), LoadsBut(b, prog, labels, u)
    PROVE  LoadsGood(c, prog, labels) /\ LabelsGood(c, prog, labels)
<1> DEFINE n == Len(b)
<1>1. n \in Nat /\ Len(c) = n + 2 /\ c[u].arg = n + 1 - u /\ u \in 1 .. n
    BY DEF Rebound
<1>2. \A p \in 1 .. n : c[p].src = b[p].src /\ c[p].op = b[p].op
    BY DEF Rebound
<1>3. \A p \in 1 .. n : p # u => c[p].arg = b[p].arg
    BY DEF Rebound
<1>4. c[n + 1].op = "low" /\ c[n + 1].arg = Wanted(prog, b[u].src) /\ c[n + 2].op = "high"
    BY DEF Rebound
<1> HIDE DEF n
<1>5. LabelsGood(c, prog, labels)
    <2> SUFFICES ASSUME NEW l \in 1 .. Len(labels)
                 PROVE  /\ labels[l].use \in 1 .. Len(c) /\ c[labels[l].use].op = "ldr_literal"
                        /\ labels[l].data = Wanted(prog, c[labels[l].use].src)
        BY DEF LabelsGood
    <2> DEFINE v == labels[l].use
    <2>1. v \in 1 .. n /\ b[v].op = "ldr_literal" /\ labels[l].data = Wanted(prog, b[v].src)
        BY DEF LabelsGood, n
    <2> HIDE DEF v
    <2>2. v \in 1 .. Len(c)
        BY <1>1, <2>1
    <2>3. c[v].op = "ldr_literal" /\ labels[l].data = Wanted(prog, c[v].src)
        BY <1>2, <2>1
    <2> QED
        BY <2>2, <2>3 DEF v
<1>6. ASSUME NEW p \in 1 .. Len(c), c[p].op = "ldr_literal"
      PROVE  Finds(c, p, p + c[p].arg, prog) \/ \E l \in 1 .. Len(labels) : labels[l].use = p
    <2>1. p \in 1 .. n
        <3>1. p \in 1 .. n \/ p = n + 1 \/ p = n + 2
            BY <1>1
        <3> QED
            BY <1>4, <1>6, <3>1
    <2>2. CASE p = u
        <3>1. p + c[p].arg = n + 1 /\ n + 1 \in 1 .. Len(c) /\ (n + 1) + 1 \in 1 .. Len(c) /\ (n + 1) + 1 = n + 2
            BY <1>1, <2>1, <2>2
        <3>2. c[p].src = b[u].src
            BY <1>2, <2>1, <2>2
        <3> QED
            BY <1>4, <3>1, <3>2 DEF Finds
    <2>3. CASE p # u /\ Finds(b, p, p + b[p].arg, prog)
        <3> DEFINE q == p + b[p].arg
        <3>1. /\ q \in 1 .. n /\ q + 1 \in 1 .. n
              /\ b[q].op = "low" /\ b[q + 1].op = "high" /\ b[q].arg = Wanted(prog, b[p].src)
            BY <2>3 DEF Finds, n
        <3>2. p + c[p].arg = q /\ c[p].src = b[p].src
            BY <1>2, <1>3, <2>1, <2>3
        <3> HIDE DEF q
        <3>3. q # u
            BY <3>1
        <3>4. q \in 1 .. Len(c) /\ q + 1 \in 1 .. Len(c)
            BY <1>1, <3>1
        <3>5. c[q].op = b[q].op /\ c[q].arg = b[q].arg /\ c[q + 1].op = b[q + 1].op
            BY <1>2, <1>3, <3>1, <3>3
        <3> QED
            BY <3>1, <3>2, <3>4, <3>5 DEF Finds
    <2>4. b[p].op = "ldr_literal"
        BY <1>2, <1>6, <2>1
    <2> QED
        BY <2>1, <2>2, <2>3, <2>4 DEF LoadsBut, n
<1>7. LoadsGood(c, prog, labels)
    BY <1>6 DEF LoadsGood
<1> QED
    BY <1>5, <1>7

-----------------------------------------------------------------------------
(* The copy of one instruction, by its kind.                               *)

Block(ws, s, end, prog) ==
    ws \in Seq(Word) /\ Len(ws) >= 1 /\ ws[1].src = s /\ ws[1].op \in Entry /\ WordsGood(ws, end, prog)
NoLoads(ws) == \A p \in 1 .. Len(ws) : ws[p].op # "ldr_literal"

LEMMA MakeWord ==
    ASSUME NEW s \in Nat, NEW op \in WordOps, NEW v \in Int
    PROVE  W(s, op, v) \in Word /\ W(s, op, v).src = s /\ W(s, op, v).op = op /\ W(s, op, v).arg = v
BY DEF W, Word

MovShape(m, s, op, v) ==
    /\ m \in Seq(Word) /\ Len(m) = 4
    /\ m[1].src = s /\ m[2].src = s /\ m[3].src = s /\ m[4].src = s
    /\ m[1].op = "movk" /\ m[2].op = "movk" /\ m[3].op = "movk" /\ m[4].op = op
    /\ m[4].arg = v

LEMMA MovWords ==
    ASSUME NEW s \in Nat, NEW op \in {"mov_x17", "mov_xd"}, NEW v \in Int
    PROVE  MovShape(Mov(s, op, v), s, op, v)
<1>1. W(s, "movk", 0) \in Word /\ W(s, op, v) \in Word
    BY MakeWord DEF WordOps
<1>2. /\ W(s, "movk", 0).src = s /\ W(s, "movk", 0).op = "movk"
      /\ W(s, op, v).src = s /\ W(s, op, v).op = op /\ W(s, op, v).arg = v
    BY DEF W
<1> DEFINE x == W(s, "movk", 0)  y == W(s, op, v)  m == <<x, x, x, y>>
<1> HIDE DEF x, y
<1>3. m \in Seq(Word) /\ Len(m) = 4 /\ m[1] = x /\ m[2] = x /\ m[3] = x /\ m[4] = y
    BY <1>1 DEF x, y
<1>4. Mov(s, op, v) = m
    BY DEF Mov, x, y
<1>5. x.src = s /\ x.op = "movk" /\ y.src = s /\ y.op = op /\ y.arg = v
    BY <1>2 DEF x, y
<1> HIDE DEF m
<1>6. /\ m[1].src = s /\ m[2].src = s /\ m[3].src = s /\ m[4].src = s
      /\ m[1].op = "movk" /\ m[2].op = "movk" /\ m[3].op = "movk" /\ m[4].op = op
      /\ m[4].arg = v
    BY <1>3, <1>5
<1> QED
    BY <1>3, <1>4, <1>6 DEF MovShape

LEMMA AddressBlock ==
    ASSUME NEW s \in Nat, NEW v \in Int, NEW prog,
           \/ FromKind(prog, s, {"adr"}) /\ v = s + Source(prog, s).arg
           \/ FromKind(prog, s, {"adrp"}) /\ v = AdrpAddress(Source(prog, s), s)
    PROVE  Block(Mov(s, "mov_xd", v), s, s + 1, prog) /\ NoLoads(Mov(s, "mov_xd", v))
<1> DEFINE m == Mov(s, "mov_xd", v)
<1>1. /\ m \in Seq(Word) /\ Len(m) = 4
      /\ m[1].src = s /\ m[2].src = s /\ m[3].src = s /\ m[4].src = s
      /\ m[1].op = "movk" /\ m[2].op = "movk" /\ m[3].op = "movk" /\ m[4].op = "mov_xd"
      /\ m[4].arg = v
    <2>1. "mov_xd" \in {"mov_x17", "mov_xd"}
        OBVIOUS
    <2>2. MovShape(m, s, "mov_xd", v)
        BY <2>1, MovWords
    <2> QED
        BY <2>2 DEF MovShape
<1> HIDE DEF m
<1>2. \A p \in 1 .. Len(m) : p = 1 \/ p = 2 \/ p = 3 \/ p = 4
    BY <1>1
<1>3. ASSUME NEW p \in {1, 2, 3}
      PROVE  MovGood(m, p, s + 1, prog) /\ PlainGood(m, p, s + 1, prog) /\ BranchGood(m, p, s + 1, prog)
    <2>1. m[p].op = "movk" /\ Stays(m, p, {"movk", "mov_x17", "mov_xd"})
        BY <1>1 DEF Stays
    <2> QED
        BY <2>1 DEF MovGood, PlainGood, BranchGood
<1>4. MovGood(m, 4, s + 1, prog) /\ PlainGood(m, 4, s + 1, prog) /\ BranchGood(m, 4, s + 1, prog)
    <2>1. MovesOn(m, 4, 4, s + 1)
        BY <1>1 DEF MovesOn
    <2> QED
        BY <1>1, <2>1 DEF MovGood, PlainGood, BranchGood
<1>5. WordsGood(m, s + 1, prog)
    BY <1>2, <1>3, <1>4 DEF WordsGood
<1>6. NoLoads(m)
    BY <1>1, <1>2 DEF NoLoads
<1>7. Block(m, s, s + 1, prog)
    BY <1>1, <1>5 DEF Block, Entry
<1> QED
    BY <1>6, <1>7 DEF m

LEMMA LdrBlock ==
    ASSUME NEW s \in Nat, NEW v \in Int, NEW prog, FromKind(prog, s, {"ldr", "ldrw"}), v = Wanted(prog, s)
    PROVE  LET ws == Mov(s, "mov_x17", v) \o <<W(s, "ldr_x17", 8)>>
           IN  Block(ws, s, s + 1, prog) /\ NoLoads(ws)
<1> DEFINE m == Mov(s, "mov_x17", v)  t == <<W(s, "ldr_x17", 8)>>  ws == m \o t
<1>1. /\ m \in Seq(Word) /\ Len(m) = 4
      /\ m[1].src = s /\ m[2].src = s /\ m[3].src = s /\ m[4].src = s
      /\ m[1].op = "movk" /\ m[2].op = "movk" /\ m[3].op = "movk" /\ m[4].op = "mov_x17"
      /\ m[4].arg = v
    <2>1. "mov_x17" \in {"mov_x17", "mov_xd"}
        OBVIOUS
    <2>2. MovShape(m, s, "mov_x17", v)
        BY <2>1, MovWords
    <2> QED
        BY <2>2 DEF MovShape
<1>2. /\ W(s, "ldr_x17", 8) \in Word /\ W(s, "ldr_x17", 8).src = s
      /\ W(s, "ldr_x17", 8).op = "ldr_x17" /\ W(s, "ldr_x17", 8).arg = 8
    BY MakeWord DEF WordOps
<1>3. t \in Seq(Word) /\ Len(t) = 1 /\ t[1] = W(s, "ldr_x17", 8)
    BY <1>2
<1> HIDE DEF m, t
<1>4. m \in Seq(Word) /\ t \in Seq(Word)
    BY <1>1, <1>3
<1>5. /\ ws \in Seq(Word) /\ Len(ws) = Len(m) + Len(t)
      /\ \A k \in 1 .. Len(m) : ws[k] = m[k]
      /\ \A k \in 1 .. Len(t) : ws[Len(m) + k] = t[k]
    BY <1>4, TwoParts
<1> HIDE DEF ws
<1>6. Len(ws) = 5 /\ ws[1] = m[1] /\ ws[2] = m[2] /\ ws[3] = m[3] /\ ws[4] = m[4] /\ ws[5] = t[1]
    BY <1>1, <1>3, <1>5
<1>7. /\ ws[1].src = s /\ ws[2].src = s /\ ws[3].src = s /\ ws[4].src = s /\ ws[5].src = s
      /\ ws[1].op = "movk" /\ ws[2].op = "movk" /\ ws[3].op = "movk" /\ ws[4].op = "mov_x17"
      /\ ws[4].arg = v /\ ws[5].op = "ldr_x17" /\ ws[5].arg = 8
    BY <1>1, <1>2, <1>3, <1>6
<1>8. \A p \in 1 .. Len(ws) : p = 1 \/ p = 2 \/ p = 3 \/ p = 4 \/ p = 5
    BY <1>6
<1>9. ASSUME NEW p \in {1, 2, 3}
      PROVE  MovGood(ws, p, s + 1, prog) /\ PlainGood(ws, p, s + 1, prog) /\ BranchGood(ws, p, s + 1, prog)
    <2>1. ws[p].op = "movk" /\ Stays(ws, p, {"movk", "mov_x17", "mov_xd"})
        BY <1>6, <1>7 DEF Stays
    <2> QED
        BY <2>1 DEF MovGood, PlainGood, BranchGood
<1>10. MovGood(ws, 4, s + 1, prog) /\ PlainGood(ws, 4, s + 1, prog) /\ BranchGood(ws, 4, s + 1, prog)
    <2>1. Stays(ws, 4, {"ldr_x17"})
        BY <1>6, <1>7 DEF Stays
    <2> QED
        BY <1>7, <2>1 DEF MovGood, PlainGood, BranchGood
<1>11. MovGood(ws, 5, s + 1, prog) /\ PlainGood(ws, 5, s + 1, prog) /\ BranchGood(ws, 5, s + 1, prog)
    <2>1. MovesOn(ws, 5, 5, s + 1)
        BY <1>6, <1>7 DEF MovesOn
    <2> QED
        BY <1>7, <2>1 DEF MovGood, PlainGood, BranchGood
<1>12. WordsGood(ws, s + 1, prog)
    BY <1>8, <1>9, <1>10, <1>11 DEF WordsGood
<1>13. NoLoads(ws)
    BY <1>7, <1>8 DEF NoLoads
<1>14. Block(ws, s, s + 1, prog)
    BY <1>5, <1>6, <1>7, <1>12 DEF Block, Entry
<1> QED
    BY <1>13, <1>14 DEF ws, m, t

LEMMA PlainBlock ==
    ASSUME NEW s \in Nat, NEW v \in Int, NEW prog, FromKind(prog, s, {"plain"}), v = Source(prog, s).arg
    PROVE  Block(<<W(s, "plain", v)>>, s, s + 1, prog) /\ NoLoads(<<W(s, "plain", v)>>)
<1> DEFINE ws == <<W(s, "plain", v)>>
<1>1. W(s, "plain", v) \in Word /\ W(s, "plain", v).src = s /\ W(s, "plain", v).op = "plain" /\ W(s, "plain", v).arg = v
    BY MakeWord DEF WordOps
<1>2. ws \in Seq(Word) /\ Len(ws) = 1 /\ ws[1] = W(s, "plain", v)
    BY <1>1
<1> HIDE DEF ws
<1>3. ws[1].src = s /\ ws[1].op = "plain" /\ ws[1].arg = v /\ \A p \in 1 .. Len(ws) : p = 1
    BY <1>1, <1>2
<1>4. MovesOn(ws, 1, 1, s + 1)
    BY <1>2, <1>3 DEF MovesOn
<1>5. MovGood(ws, 1, s + 1, prog) /\ PlainGood(ws, 1, s + 1, prog) /\ BranchGood(ws, 1, s + 1, prog)
    BY <1>3, <1>4 DEF MovGood, PlainGood, BranchGood
<1>6. WordsGood(ws, s + 1, prog) /\ NoLoads(ws)
    BY <1>3, <1>5 DEF WordsGood, NoLoads
<1>7. Block(ws, s, s + 1, prog)
    BY <1>2, <1>3, <1>6 DEF Block, Entry
<1> QED
    BY <1>6, <1>7 DEF ws

(* Every load of these words is the one at position u.                     *)
OneLoad(ws, u) ==
    /\ u \in 1 .. Len(ws) /\ ws[u].op = "ldr_literal"
    /\ \A p \in 1 .. Len(ws) : ws[p].op = "ldr_literal" => p = u

(* A load and a jump: a branch, a call or the branch back.                 *)
LEMMA BranchBlock ==
    ASSUME NEW s \in Nat, NEW op, NEW end, NEW prog,
           \/ op = "br_x17" /\ (s = Rest(prog) \/ FromKind(prog, s, {"b"}))
           \/ op = "blr_x17" /\ FromKind(prog, s, {"bl"}) /\ end = s + 1
    PROVE  LET ws == <<Ldr(s), W(s, op, 0)>>
           IN  Block(ws, s, end, prog) /\ OneLoad(ws, 1) /\ ws[1].src = s
<1> DEFINE ws == <<Ldr(s), W(s, op, 0)>>
<1>1. Ldr(s) \in Word /\ Ldr(s).src = s /\ Ldr(s).op = "ldr_literal"
    BY MakeWord DEF WordOps, Ldr
<1>2. W(s, op, 0) \in Word /\ W(s, op, 0).src = s /\ W(s, op, 0).op = op
    BY MakeWord DEF WordOps
<1>3. ws \in Seq(Word) /\ Len(ws) = 2 /\ ws[1] = Ldr(s) /\ ws[2] = W(s, op, 0)
    BY <1>1, <1>2
<1> HIDE DEF ws
<1>4. ws[1].src = s /\ ws[2].src = s /\ ws[1].op = "ldr_literal" /\ ws[2].op = op
    BY <1>1, <1>2, <1>3
<1>5. \A p \in 1 .. Len(ws) : p = 1 \/ p = 2
    BY <1>3
<1>6. MovGood(ws, 1, end, prog) /\ PlainGood(ws, 1, end, prog) /\ BranchGood(ws, 1, end, prog)
    <2>1. Stays(ws, 1, {"br_x17", "blr_x17"})
        BY <1>3, <1>4 DEF Stays
    <2> QED
        BY <1>4, <2>1 DEF MovGood, PlainGood, BranchGood
<1>7. MovGood(ws, 2, end, prog) /\ PlainGood(ws, 2, end, prog) /\ BranchGood(ws, 2, end, prog)
    <2>1. op = "blr_x17" => MovesOn(ws, 2, 2, end)
        BY <1>3, <1>4 DEF MovesOn
    <2>2. op = "br_x17" => s = Rest(prog) \/ FromKind(prog, s, {"b", "cond"})
        BY DEF FromKind
    <2> QED
        BY <1>4, <2>1, <2>2 DEF MovGood, PlainGood, BranchGood
<1>8. WordsGood(ws, end, prog)
    BY <1>5, <1>6, <1>7 DEF WordsGood
<1>9. OneLoad(ws, 1)
    BY <1>3, <1>4, <1>5 DEF OneLoad
<1>10. Block(ws, s, end, prog)
    BY <1>3, <1>4, <1>8 DEF Block, Entry
<1> QED
    BY <1>4, <1>9, <1>10 DEF ws

LEMMA ConditionalBlock ==
    ASSUME NEW s \in Nat, NEW prog, FromKind(prog, s, {"cond"})
    PROVE  LET ws == <<W(s, "inverted", SkipThree), Ldr(s), W(s, "br_x17", 0)>>
           IN  Block(ws, s, s + 1, prog) /\ OneLoad(ws, 2) /\ ws[2].src = s
<1> DEFINE ws == <<W(s, "inverted", SkipThree), Ldr(s), W(s, "br_x17", 0)>>
<1>1. Ldr(s) \in Word /\ Ldr(s).src = s /\ Ldr(s).op = "ldr_literal"
    BY MakeWord DEF WordOps, Ldr
<1>2. W(s, "br_x17", 0) \in Word /\ W(s, "br_x17", 0).src = s /\ W(s, "br_x17", 0).op = "br_x17"
    BY MakeWord DEF WordOps
<1>3. /\ W(s, "inverted", SkipThree) \in Word /\ W(s, "inverted", SkipThree).src = s
      /\ W(s, "inverted", SkipThree).op = "inverted" /\ W(s, "inverted", SkipThree).arg = 3
    BY MakeWord DEF WordOps, SkipThree
<1>4. /\ ws \in Seq(Word) /\ Len(ws) = 3 /\ ws[1] = W(s, "inverted", SkipThree)
      /\ ws[2] = Ldr(s) /\ ws[3] = W(s, "br_x17", 0)
    BY <1>1, <1>2, <1>3
<1> HIDE DEF ws
<1>5. /\ ws[1].src = s /\ ws[2].src = s /\ ws[3].src = s /\ ws[1].arg = 3
      /\ ws[1].op = "inverted" /\ ws[2].op = "ldr_literal" /\ ws[3].op = "br_x17"
    BY <1>1, <1>2, <1>3, <1>4
<1>6. \A p \in 1 .. Len(ws) : p = 1 \/ p = 2 \/ p = 3
    BY <1>4
<1>7. MovGood(ws, 1, s + 1, prog) /\ PlainGood(ws, 1, s + 1, prog) /\ BranchGood(ws, 1, s + 1, prog)
    <2>1. Stays(ws, 1, {"ldr_literal"}) /\ MovesOn(ws, 1, 1 + 2, s + 1)
        BY <1>4, <1>5 DEF Stays, MovesOn
    <2> QED
        BY <1>5, <2>1 DEF MovGood, PlainGood, BranchGood
<1>8. MovGood(ws, 2, s + 1, prog) /\ PlainGood(ws, 2, s + 1, prog) /\ BranchGood(ws, 2, s + 1, prog)
    <2>1. Stays(ws, 2, {"br_x17", "blr_x17"})
        BY <1>4, <1>5 DEF Stays
    <2> QED
        BY <1>5, <2>1 DEF MovGood, PlainGood, BranchGood
<1>9. MovGood(ws, 3, s + 1, prog) /\ PlainGood(ws, 3, s + 1, prog) /\ BranchGood(ws, 3, s + 1, prog)
    <2>1. FromKind(prog, s, {"b", "cond"})
        BY DEF FromKind
    <2> QED
        BY <1>5, <2>1 DEF MovGood, PlainGood, BranchGood
<1>10. WordsGood(ws, s + 1, prog)
    BY <1>6, <1>7, <1>8, <1>9 DEF WordsGood
<1>11. OneLoad(ws, 2)
    BY <1>4, <1>5, <1>6 DEF OneLoad
<1>12. Block(ws, s, s + 1, prog)
    BY <1>4, <1>5, <1>10 DEF Block, Entry
<1> QED
    BY <1>5, <1>11, <1>12 DEF ws

-----------------------------------------------------------------------------
(* Literals and labels.                                                    *)

(* Loads and labels of the words there were, with words appended whose     *)
(* only load is at v.                                                      *)
LEMMA AppendLoads ==
    ASSUME NEW b \in Seq(Word), NEW ws \in Seq(Word), NEW prog, NEW labels, NEW v,
           LoadsGood(b, prog, labels), LabelsGood(b, prog, labels),
           \A p \in 1 .. Len(ws) : ws[p].op = "ldr_literal" => Len(b) + p = v
    PROVE  LoadsBut(b \o ws, prog, labels, v) /\ LabelsGood(b \o ws, prog, labels)
<1> DEFINE c == b \o ws  n == Len(b)
<1>1. /\ n \in Nat /\ Len(ws) \in Nat /\ Len(c) = n + Len(ws)
      /\ \A k \in 1 .. n : c[k] = b[k]
      /\ \A k \in 1 .. Len(ws) : c[n + k] = ws[k]
    BY TwoParts
<1> HIDE DEF c
<1>2. \A p \in 1 .. n : p \in 1 .. Len(c)
    BY <1>1
<1>3. LabelsGood(c, prog, labels)
    <2> SUFFICES ASSUME NEW l \in 1 .. Len(labels)
                 PROVE  /\ labels[l].use \in 1 .. Len(c) /\ c[labels[l].use].op = "ldr_literal"
                        /\ labels[l].data = Wanted(prog, c[labels[l].use].src)
        BY DEF LabelsGood
    <2> DEFINE u == labels[l].use
    <2>1. u \in 1 .. n /\ b[u].op = "ldr_literal" /\ labels[l].data = Wanted(prog, b[u].src)
        BY DEF LabelsGood
    <2> HIDE DEF u, n
    <2>2. u \in 1 .. Len(c) /\ c[u] = b[u]
        BY <1>1, <1>2, <2>1
    <2> QED
        BY <2>1, <2>2 DEF u
<1>4. ASSUME NEW p \in 1 .. Len(c), c[p].op = "ldr_literal"
      PROVE  \/ p = v \/ Finds(c, p, p + c[p].arg, prog)
             \/ \E l \in 1 .. Len(labels) : labels[l].use = p
    <2>1. CASE p \in 1 .. n
        <3>1. c[p] = b[p] /\ b[p].op = "ldr_literal"
            BY <1>1, <1>4, <2>1
        <3>2. ASSUME Finds(b, p, p + b[p].arg, prog) PROVE Finds(c, p, p + c[p].arg, prog)
            <4> DEFINE q == p + b[p].arg
            <4>1. /\ q \in 1 .. n /\ q + 1 \in 1 .. n
                  /\ b[q].op = "low" /\ b[q + 1].op = "high" /\ b[q].arg = Wanted(prog, b[p].src)
                BY <3>2 DEF Finds
            <4>2. p + c[p].arg = q
                BY <3>1
            <4> HIDE DEF q, n
            <4>3. q \in 1 .. Len(c) /\ q + 1 \in 1 .. Len(c)
                BY <1>2, <4>1
            <4>4. c[q] = b[q] /\ c[q + 1] = b[q + 1]
                BY <1>1, <4>1
            <4> QED
                BY <3>1, <4>1, <4>2, <4>3, <4>4 DEF Finds
        <3> QED
            BY <2>1, <3>1, <3>2 DEF LoadsGood
    <2>2. CASE p \notin 1 .. n
        <3> DEFINE k == p - n
        <3>1. k \in 1 .. Len(ws) /\ p = n + k
            BY <1>1, <2>2
        <3> HIDE DEF k
        <3>2. ws[k].op = "ldr_literal"
            BY <1>1, <1>4, <3>1
        <3> QED
            BY <3>1, <3>2
    <2> QED
        BY <2>1, <2>2
<1>5. LoadsBut(c, prog, labels, v)
    BY <1>4 DEF LoadsBut
<1> QED
    BY <1>3, <1>5 DEF c

(* The load at v has a label from now on.                                  *)
LEMMA AppendLabel ==
    ASSUME NEW c \in Seq(Word), NEW prog, NEW labels \in Seq(LabelEntry), NEW v \in 1 .. Len(c),
           NEW d \in Int, d = Wanted(prog, c[v].src), c[v].op = "ldr_literal",
           LoadsBut(c, prog, labels, v), LabelsGood(c, prog, labels)
    PROVE  LET all == labels \o <<Label(d, v)>>
           IN  /\ all \in Seq(LabelEntry)
               /\ LoadsGood(c, prog, all) /\ LabelsGood(c, prog, all)
<1> DEFINE one == <<Label(d, v)>>  all == labels \o one  m == Len(labels)
<1>1. Label(d, v) \in LabelEntry /\ Label(d, v).use = v /\ Label(d, v).data = d
    BY DEF Label, LabelEntry
<1>2. one \in Seq(LabelEntry) /\ Len(one) = 1 /\ one[1] = Label(d, v)
    BY <1>1
<1> HIDE DEF one
<1>3. one \in Seq(LabelEntry)
    BY <1>2
<1>4. /\ all \in Seq(LabelEntry) /\ m \in Nat /\ Len(all) = m + Len(one)
      /\ \A k \in 1 .. m : all[k] = labels[k]
      /\ \A k \in 1 .. Len(one) : all[m + k] = one[k]
    BY <1>3, TwoParts
<1> HIDE DEF all
<1>5. Len(all) = m + 1 /\ all[m + 1] = Label(d, v)
    BY <1>2, <1>4
<1>6. \A k \in 1 .. Len(all) : k \in 1 .. m \/ k = m + 1
    BY <1>4, <1>5
<1>7. (\A k \in 1 .. m : k \in 1 .. Len(all)) /\ m + 1 \in 1 .. Len(all)
    BY <1>4, <1>5
<1>8. LabelsGood(c, prog, all)
    <2> SUFFICES ASSUME NEW l \in 1 .. Len(all)
                 PROVE  /\ all[l].use \in 1 .. Len(c) /\ c[all[l].use].op = "ldr_literal"
                        /\ all[l].data = Wanted(prog, c[all[l].use].src)
        BY DEF LabelsGood
    <2>1. CASE l \in 1 .. m
        BY <1>4, <2>1 DEF LabelsGood
    <2>2. CASE l = m + 1
        BY <1>1, <1>5, <2>2
    <2> QED
        BY <1>6, <2>1, <2>2
<1>9. ASSUME NEW p \in 1 .. Len(c), c[p].op = "ldr_literal"
      PROVE  Finds(c, p, p + c[p].arg, prog) \/ \E l \in 1 .. Len(all) : all[l].use = p
    <2>1. CASE p = v
        BY <1>1, <1>5, <1>7, <2>1
    <2>2. ASSUME NEW l \in 1 .. m, labels[l].use = p PROVE \E k \in 1 .. Len(all) : all[k].use = p
        BY <1>4, <1>7, <2>2
    <2> QED
        BY <1>9, <2>1, <2>2 DEF LoadsBut
<1>10. LoadsGood(c, prog, all)
    BY <1>9 DEF LoadsGood
<1> QED
    BY <1>4, <1>8, <1>10 DEF all, one

(* The first label is about to be bound: the others are left.              *)
LEMMA FirstLabel ==
    ASSUME NEW b \in Seq(Word), NEW prog, NEW labels \in Seq(LabelEntry), labels # <<>>,
           LoadsGood(b, prog, labels), LabelsGood(b, prog, labels)
    PROVE  LET u == Head(labels).use
           IN  /\ Tail(labels) \in Seq(LabelEntry) /\ Head(labels) \in LabelEntry
               /\ u \in 1 .. Len(b) /\ b[u].op = "ldr_literal"
               /\ Head(labels).data = Wanted(prog, b[u].src)
               /\ LoadsBut(b, prog, Tail(labels), u) /\ LabelsGood(b, prog, Tail(labels))
<1> DEFINE t == Tail(labels)  h == Head(labels)
<1>1. /\ t \in Seq(LabelEntry) /\ h \in LabelEntry /\ h = labels[1] /\ 1 \in 1 .. Len(labels)
      /\ Len(t) \in Nat /\ Len(labels) = Len(t) + 1
      /\ \A k \in 1 .. Len(t) : t[k] = labels[k + 1]
    OBVIOUS
<1> HIDE DEF t, h
<1>2. h.use \in 1 .. Len(b) /\ b[h.use].op = "ldr_literal" /\ h.data = Wanted(prog, b[h.use].src)
    BY <1>1 DEF LabelsGood
<1>3. LabelsGood(b, prog, t)
    <2> SUFFICES ASSUME NEW l \in 1 .. Len(t)
                 PROVE  /\ t[l].use \in 1 .. Len(b) /\ b[t[l].use].op = "ldr_literal"
                        /\ t[l].data = Wanted(prog, b[t[l].use].src)
        BY DEF LabelsGood
    <2>1. l + 1 \in 1 .. Len(labels) /\ t[l] = labels[l + 1]
        BY <1>1
    <2> QED
        BY <2>1 DEF LabelsGood
<1>4. ASSUME NEW p \in 1 .. Len(b), NEW l \in 1 .. Len(labels), labels[l].use = p
      PROVE  p = h.use \/ \E k \in 1 .. Len(t) : t[k].use = p
    <2>1. CASE l = 1
        BY <1>1, <1>4, <2>1
    <2>2. CASE l # 1
        <3> DEFINE k == l - 1
        <3>1. k \in 1 .. Len(t) /\ k + 1 = l
            BY <1>1, <2>2
        <3> HIDE DEF k
        <3> QED
            BY <1>1, <1>4, <3>1
    <2> QED
        BY <2>1, <2>2
<1>5. LoadsBut(b, prog, t, h.use)
    BY <1>4 DEF LoadsBut, LoadsGood
<1> QED
    BY <1>1, <1>2, <1>3, <1>5 DEF t, h

-----------------------------------------------------------------------------
(* The invariant, step by step.                                            *)

LEMMA CodeType ==
    ASSUME RelocInv
    PROVE  code \in Seq(Instruction) /\ Len(code) \in Nat /\ Start \in Nat
<1>1. code \in Programs /\ Programs \subseteq Seq(Instruction) /\ Start \in Nat
    BY RelocAssumption DEF RelocInv, RelocType
<1>2. code \in Seq(Instruction)
    BY <1>1, Zenon
<1> QED
    BY <1>1, <1>2

(* The instruction GenRelocateCodeAndBranch looks at.                      *)
LEMMA Decoded ==
    ASSUME RelocInv, NEW op, Decode(op)
    PROVE  /\ phase = "relocate" /\ curr_orig_pc \in Nat /\ curr_orig_pc < Start + Len(code)
           /\ FromKind(code, curr_orig_pc, {op}) /\ Instr = Source(code, curr_orig_pc)
           /\ Instr.arg \in Int /\ Wanted(code, curr_orig_pc) = curr_orig_pc + Instr.arg
           /\ Wanted(code, curr_orig_pc) \in Int
<1> DEFINE k == curr_orig_pc - Start + 1
<1>1. code \in Seq(Instruction) /\ Len(code) \in Nat /\ Start \in Nat
    BY CodeType
<1>2. curr_orig_pc \in Nat /\ Start <= curr_orig_pc /\ phase = "relocate" /\ curr_orig_pc < Start + Len(code)
    BY DEF RelocInv, RelocType, Decode
<1>3. k \in 1 .. Len(code) /\ curr_orig_pc # Rest(code)
    BY <1>1, <1>2 DEF Rest
<1>4. code[k] \in Instruction /\ Instr = code[k] /\ Source(code, curr_orig_pc) = code[k]
    <2>1. Instr = code[k] /\ Source(code, curr_orig_pc) = code[k]
        BY Zenon DEF Instr, Source
    <2> HIDE DEF k
    <2>2. code[k] \in Instruction
        BY <1>1, <1>3
    <2> QED
        BY <2>1, <2>2
<1>5. Instr.op = op /\ Instr.arg \in Int
    BY <1>4 DEF Decode, Instruction
<1>6. FromKind(code, curr_orig_pc, {op})
    BY <1>2, <1>3, <1>4, <1>5 DEF FromKind
<1>7. Wanted(code, curr_orig_pc) = curr_orig_pc + Instr.arg
    BY <1>3, <1>4 DEF Wanted
<1> QED
    BY <1>2, <1>4, <1>5, <1>6, <1>7

(* The first word stays the first.                                         *)
LEMMA StillBegins ==
    ASSUME NEW b \in Seq(Word), NEW ws, NEW s, NEW end, NEW end2, NEW prog,
           Begins(b, s), Block(ws, s, end, prog)
    PROVE  Begins(b \o ws, end2) /\ Len(b \o ws) >= 1
<1> DEFINE c == b \o ws  n == Len(b)
<1>1. ws \in Seq(Word) /\ Len(ws) >= 1 /\ ws[1].src = s /\ ws[1].op \in Entry
    BY DEF Block
<1>2. /\ n \in Nat /\ Len(ws) \in Nat /\ Len(c) = n + Len(ws)
      /\ \A k \in 1 .. n : c[k] = b[k]
      /\ \A k \in 1 .. Len(ws) : c[n + k] = ws[k]
    BY <1>1, TwoParts
<1> HIDE DEF c
<1>3. Len(c) >= 1 /\ Len(c) # 0
    BY <1>1, <1>2
<1>4. CASE n = 0
    <2>1. c[1] = ws[1]
        BY <1>1, <1>2, <1>4
    <2> QED
        BY <1>1, <1>3, <1>4, <2>1 DEF Begins, c
<1>5. CASE n # 0
    <2>1. c[1] = b[1]
        BY <1>2, <1>5
    <2> QED
        BY <1>3, <1>5, <2>1 DEF Begins, c
<1> QED
    BY <1>4, <1>5

(* Emitting the copy of an instruction that loads no literal.              *)
LEMMA EmitPlain ==
    ASSUME RelocInv, NEW ws, NEW op, Decode(op), Emit(ws, <<>>), NoLoads(ws),
           Block(ws, curr_orig_pc, curr_orig_pc + 1, code)
    PROVE  RelocInv'
<1> DEFINE c == buf \o ws
<1>1. /\ phase = "relocate" /\ curr_orig_pc \in Nat /\ curr_orig_pc < Start + Len(code)
    BY Decoded
<1>2. /\ buf \in Seq(Word) /\ data_labels \in Seq(LabelEntry) /\ ws \in Seq(Word)
      /\ Len(ws) >= 1 /\ ws[1].src = curr_orig_pc /\ ws[1].op \in Entry
      /\ WordsGood(ws, curr_orig_pc + 1, code)
    BY DEF RelocInv, RelocType, Block
<1>3. /\ WordsGood(buf, curr_orig_pc, code) /\ LoadsGood(buf, code, data_labels)
      /\ LabelsGood(buf, code, data_labels) /\ Begins(buf, curr_orig_pc)
    BY <1>1 DEF RelocInv, CopyGood, End
<1>4. /\ buf' = c /\ data_labels' = data_labels \o <<>> /\ curr_orig_pc' = curr_orig_pc + 1
      /\ code' = code /\ replace_call' = replace_call /\ phase' = "relocate"
      /\ rpc' = rpc /\ x17' = x17 /\ exit' = exit /\ trace' = trace
    BY <1>1 DEF Emit, runVars
<1>5. data_labels' = data_labels
    BY <1>2, <1>4
<1>6. WordsGood(c, curr_orig_pc + 1, code) /\ c \in Seq(Word)
    BY <1>2, <1>3, Joined, TwoParts
<1>7. LoadsBut(c, code, data_labels, 0) /\ LabelsGood(c, code, data_labels)
    <2>1. \A p \in 1 .. Len(ws) : ws[p].op = "ldr_literal" => Len(buf) + p = 0
        BY DEF NoLoads
    <2> QED
        BY <1>2, <1>3, <2>1, AppendLoads
<1>8. LoadsGood(c, code, data_labels)
    BY <1>7 DEF LoadsBut, LoadsGood
<1>9. Begins(c, curr_orig_pc + 1)
    BY <1>2, <1>3, StillBegins
<1> HIDE DEF c
<1>10. End' = curr_orig_pc + 1
    BY <1>4 DEF End
<1>11. CopyGood'
    BY <1>4, <1>5, <1>6, <1>7, <1>8, <1>9, <1>10 DEF CopyGood
<1>12. RelocType'
    <2>1. curr_orig_pc' \in Nat /\ Start <= curr_orig_pc' /\ curr_orig_pc' <= Start + Len(code')
        BY <1>1, <1>4, CodeType DEF RelocInv, RelocType
    <2> QED
        BY <1>2, <1>4, <1>5, <1>6, <2>1 DEF RelocInv, RelocType
<1>13. RunType' /\ RunGood'
    BY <1>1, <1>4 DEF RelocInv, RunType, RunGood
<1> QED
    BY <1>11, <1>12, <1>13 DEF RelocInv

(* Emitting the copy of a branch, whose load at u gets a label.            *)
LEMMA EmitBranch ==
    ASSUME RelocInv, NEW ws, NEW op, NEW u, NEW d, Decode(op), Emit(ws, <<Label(d, Len(buf) + u)>>),
           OneLoad(ws, u), ws[u].src = curr_orig_pc, d = Wanted(code, curr_orig_pc),
           Block(ws, curr_orig_pc, curr_orig_pc + 1, code)
    PROVE  RelocInv'
<1> DEFINE c == buf \o ws  v == Len(buf) + u  all == data_labels \o <<Label(d, v)>>
<1>1. /\ phase = "relocate" /\ curr_orig_pc \in Nat /\ curr_orig_pc < Start + Len(code) /\ d \in Int
    BY Decoded
<1>2. /\ buf \in Seq(Word) /\ data_labels \in Seq(LabelEntry) /\ ws \in Seq(Word)
      /\ Len(ws) >= 1 /\ ws[1].src = curr_orig_pc /\ ws[1].op \in Entry
      /\ WordsGood(ws, curr_orig_pc + 1, code)
    BY DEF RelocInv, RelocType, Block
<1>3. /\ WordsGood(buf, curr_orig_pc, code) /\ LoadsGood(buf, code, data_labels)
      /\ LabelsGood(buf, code, data_labels) /\ Begins(buf, curr_orig_pc)
    BY <1>1 DEF RelocInv, CopyGood, End
<1>4. /\ buf' = c /\ data_labels' = all /\ curr_orig_pc' = curr_orig_pc + 1
      /\ code' = code /\ replace_call' = replace_call /\ phase' = "relocate"
      /\ rpc' = rpc /\ x17' = x17 /\ exit' = exit /\ trace' = trace
    BY <1>1 DEF Emit, runVars
<1>6. WordsGood(c, curr_orig_pc + 1, code) /\ c \in Seq(Word)
    BY <1>2, <1>3, Joined, TwoParts
<1>7. LoadsBut(c, code, data_labels, v) /\ LabelsGood(c, code, data_labels)
    <2>1. \A p \in 1 .. Len(ws) : ws[p].op = "ldr_literal" => Len(buf) + p = v
        BY DEF OneLoad
    <2> QED
        BY <1>2, <1>3, <2>1, AppendLoads
<1>8. v \in 1 .. Len(c) /\ c[v] = ws[u] /\ ws[u].op = "ldr_literal"
    <2>1. u \in 1 .. Len(ws) /\ ws[u].op = "ldr_literal"
        BY DEF OneLoad
    <2>2. /\ Len(buf) \in Nat /\ Len(ws) \in Nat /\ Len(c) = Len(buf) + Len(ws)
          /\ \A k \in 1 .. Len(ws) : c[Len(buf) + k] = ws[k]
        BY <1>2, TwoParts
    <2> HIDE DEF c
    <2> QED
        BY <2>1, <2>2
<1>9. Begins(c, curr_orig_pc + 1)
    BY <1>2, <1>3, StillBegins
<1> HIDE DEF c, v
<1>10. d = Wanted(code, c[v].src) /\ c[v].op = "ldr_literal"
    BY <1>8
<1>11. all \in Seq(LabelEntry) /\ LoadsGood(c, code, all) /\ LabelsGood(c, code, all)
    BY <1>1, <1>2, <1>6, <1>7, <1>8, <1>10, AppendLabel
<1> HIDE DEF all
<1>12. End' = curr_orig_pc + 1
    BY <1>4 DEF End
<1>13. CopyGood'
    BY <1>4, <1>6, <1>9, <1>11, <1>12 DEF CopyGood
<1>14. RelocType'
    <2>1. curr_orig_pc' \in Nat /\ Start <= curr_orig_pc' /\ curr_orig_pc' <= Start + Len(code')
        BY <1>1, <1>4, CodeType DEF RelocInv, RelocType
    <2> QED
        BY <1>2, <1>4, <1>6, <1>11, <2>1 DEF RelocInv, RelocType
<1>15. RunType' /\ RunGood'
    BY <1>1, <1>4 DEF RelocInv, RunType, RunGood
<1> QED
    BY <1>13, <1>14, <1>15 DEF RelocInv

(* Binding keeps the first word.                                           *)
LEMMA BindBegins ==
    ASSUME NEW b \in Seq(Word), NEW c, NEW u, NEW d, NEW end, NEW end2, Rebound(b, c, u, d),
           Len(b) >= 1, Begins(b, end)
    PROVE  Begins(c, end2) /\ Len(c) >= 1
<1>1. Len(b) \in Nat /\ Len(c) = Len(b) + 2
    BY DEF Rebound
<1>2. c[1].src = b[1].src /\ c[1].op = b[1].op
    BY <1>1 DEF Rebound
<1> QED
    BY <1>1, <1>2 DEF Begins

(* What the invariant says once the branch back is there.                  *)
Linked(b, prog, labels) ==
    /\ b \in Seq(Word) /\ labels \in Seq(LabelEntry) /\ Len(b) >= 1
    /\ WordsGood(b, -1, prog) /\ LoadsGood(b, prog, labels)
    /\ LabelsGood(b, prog, labels) /\ Begins(b, -1)

LEMMA BindLinks ==
    ASSUME NEW b \in Seq(Word), NEW prog, NEW labels \in Seq(LabelEntry), NEW u \in 1 .. Len(b),
           NEW d \in Int, b[u].op = "ldr_literal", d = Wanted(prog, b[u].src), Len(b) >= 1,
           WordsGood(b, -1, prog), LoadsBut(b, prog, labels, u), LabelsGood(b, prog, labels),
           NEW end, Begins(b, end)
    PROVE  Linked(Bind(b, Label(d, u)), prog, labels)
<1> DEFINE c == Bind(b, Label(d, u))
<1>1. Rebound(b, c, u, d)
    BY BindWord
<1> HIDE DEF c
<1>2. c \in Seq(Word)
    BY <1>1 DEF Rebound
<1>3. WordsGood(c, -1, prog)
    BY <1>1, BindKeepsWords
<1>4. LoadsGood(c, prog, labels) /\ LabelsGood(c, prog, labels)
    <2>1. Rebound(b, c, u, Wanted(prog, b[u].src))
        BY <1>1
    <2> QED
        BY <2>1, BindKeepsLoads
<1>5. Begins(c, -1) /\ Len(c) >= 1
    BY <1>1, BindBegins
<1>6. Linked(c, prog, labels)
    BY <1>2, <1>3, <1>4, <1>5 DEF Linked
<1> QED
    BY <1>6 DEF c

(* The branch back to the function.                                        *)
LEMMA BranchBackStep == ASSUME RelocInv, LiteralLdrBranch PROVE RelocInv'
<1> DEFINE s == curr_orig_pc  ws == <<Ldr(s), W(s, "br_x17", 0)>>  b == buf \o ws
           v == Len(buf) + 1  end == -1
<1>1. phase = "relocate" /\ s \in Nat /\ s = Rest(code) /\ Wanted(code, s) = s
    <2>1. Start \in Nat /\ Len(code) \in Nat
        BY CodeType
    <2>2. /\ phase = "relocate" /\ s \in Nat /\ s >= Start + Len(code) /\ s <= Start + Len(code)
        BY DEF LiteralLdrBranch, RelocInv, RelocType
    <2>3. s = Rest(code)
        BY <2>1, <2>2 DEF Rest
    <2> QED
        BY <2>2, <2>3 DEF Wanted
<1>2. Block(ws, s, end, code) /\ OneLoad(ws, 1) /\ ws[1].src = s
    BY <1>1, BranchBlock
<1>3. /\ buf \in Seq(Word) /\ data_labels \in Seq(LabelEntry)
      /\ WordsGood(buf, s, code) /\ LoadsGood(buf, code, data_labels)
      /\ LabelsGood(buf, code, data_labels) /\ Begins(buf, s)
    BY <1>1 DEF RelocInv, RelocType, CopyGood, End
<1>4. /\ buf' = Bind(b, Label(s, v)) /\ data_labels' = data_labels /\ curr_orig_pc' = curr_orig_pc
      /\ code' = code /\ replace_call' = replace_call /\ phase' = "bind"
      /\ rpc' = rpc /\ x17' = x17 /\ exit' = exit /\ trace' = trace
    BY DEF LiteralLdrBranch, ReturnAddress, runVars
<1> HIDE DEF s, ws, end
<1>5. /\ ws \in Seq(Word) /\ Len(ws) >= 1 /\ ws[1].src = s /\ ws[1].op \in Entry
      /\ WordsGood(ws, end, code)
    BY <1>2 DEF Block
<1>6. b \in Seq(Word) /\ WordsGood(b, end, code)
    BY <1>3, <1>5, Joined, TwoParts
<1>7. LoadsBut(b, code, data_labels, v) /\ LabelsGood(b, code, data_labels)
    <2>1. \A p \in 1 .. Len(ws) : ws[p].op = "ldr_literal" => Len(buf) + p = v
        BY <1>2 DEF OneLoad
    <2> QED
        BY <1>3, <1>5, <2>1, AppendLoads
<1>8. v \in 1 .. Len(b) /\ b[v] = ws[1] /\ ws[1].op = "ldr_literal" /\ Len(b) >= 1
    <2>1. ws[1].op = "ldr_literal"
        BY <1>2 DEF OneLoad
    <2>2. /\ Len(buf) \in Nat /\ Len(ws) \in Nat /\ Len(b) = Len(buf) + Len(ws)
          /\ \A k \in 1 .. Len(ws) : b[Len(buf) + k] = ws[k]
        BY <1>3, <1>5, TwoParts
    <2> HIDE DEF b
    <2> QED
        BY <1>5, <2>1, <2>2
<1>9. Begins(b, end)
    BY <1>2, <1>3, StillBegins
<1> HIDE DEF b, v
<1>10. s \in Int /\ s = Wanted(code, b[v].src) /\ b[v].op = "ldr_literal"
    BY <1>1, <1>5, <1>8
<1>11. Linked(buf', code, data_labels)
    <2>1. WordsGood(b, -1, code)
        BY <1>6 DEF end
    <2> QED
        BY <1>3, <1>4, <1>6, <1>7, <1>8, <1>9, <1>10, <2>1, BindLinks
<1>12. End' = -1
    BY <1>4 DEF End
<1>13. CopyGood'
    BY <1>4, <1>11, <1>12 DEF CopyGood, Linked
<1>14. RelocType'
    BY <1>4, <1>11 DEF RelocInv, RelocType, Linked
<1>15. RunType' /\ RunGood'
    BY <1>1, <1>4 DEF RelocInv, RunType, RunGood
<1> QED
    BY <1>13, <1>14, <1>15 DEF RelocInv

(* Once the branch back is there the copy has a first word.                *)
LEMMA IsLinked ==
    ASSUME RelocInv, phase \in {"bind", "run"}
    PROVE  Linked(buf, code, data_labels) /\ Len(buf) \in Nat
<1>1. /\ buf \in Seq(Word) /\ data_labels \in Seq(LabelEntry) /\ Start \in Nat
      /\ WordsGood(buf, -1, code) /\ LoadsGood(buf, code, data_labels)
      /\ LabelsGood(buf, code, data_labels) /\ Begins(buf, -1)
    BY RelocAssumption DEF RelocInv, RelocType, CopyGood, End
<1>2. Len(buf) \in Nat /\ Len(buf) # 0
    BY <1>1 DEF Begins
<1> QED
    BY <1>1, <1>2 DEF Linked

(* The other labels.                                                       *)
LEMMA BindStep == ASSUME RelocInv, RelocBind PROVE RelocInv'
<1> DEFINE h == Head(data_labels)  t == Tail(data_labels)
<1>1. phase = "bind" /\ data_labels # <<>> /\ buf' = Bind(buf, h) /\ data_labels' = t
    BY DEF RelocBind
<1>2. /\ curr_orig_pc' = curr_orig_pc /\ code' = code /\ replace_call' = replace_call /\ phase' = phase
      /\ rpc' = rpc /\ x17' = x17 /\ exit' = exit /\ trace' = trace
    BY DEF RelocBind, runVars
<1>3. Linked(buf, code, data_labels)
    BY <1>1, IsLinked
<1>4. /\ buf \in Seq(Word) /\ data_labels \in Seq(LabelEntry) /\ Len(buf) >= 1
      /\ WordsGood(buf, -1, code) /\ LoadsGood(buf, code, data_labels)
      /\ LabelsGood(buf, code, data_labels) /\ Begins(buf, -1)
    BY <1>3 DEF Linked
<1>5. /\ t \in Seq(LabelEntry) /\ h \in LabelEntry
      /\ h.use \in 1 .. Len(buf) /\ buf[h.use].op = "ldr_literal"
      /\ h.data = Wanted(code, buf[h.use].src)
      /\ LoadsBut(buf, code, t, h.use) /\ LabelsGood(buf, code, t)
    BY <1>1, <1>4, FirstLabel
<1> HIDE DEF h, t
<1>6. h.data \in Int /\ Bind(buf, h) = Bind(buf, Label(h.data, h.use))
    BY <1>5 DEF LabelEntry, Bind, Label
<1>7. Linked(buf', code, t)
    BY <1>1, <1>4, <1>5, <1>6, BindLinks
<1>8. End' = -1
    BY <1>1, <1>2 DEF End
<1>9. CopyGood'
    BY <1>1, <1>2, <1>7, <1>8 DEF CopyGood, Linked
<1>10. RelocType'
    BY <1>1, <1>2, <1>7 DEF RelocInv, RelocType, Linked
<1>11. RunType' /\ RunGood'
    BY <1>1, <1>2 DEF RelocInv, RunType, RunGood
<1> QED
    BY <1>9, <1>10, <1>11 DEF RelocInv

(* The copy is ready, or will never be.                                    *)
LEMMA PhaseStep == ASSUME RelocInv, FinalizeFromTurboAssembler \/ Unimplemented PROVE RelocInv'
<1>1. /\ curr_orig_pc' = curr_orig_pc /\ code' = code /\ replace_call' = replace_call
      /\ buf' = buf /\ data_labels' = data_labels
      /\ rpc' = rpc /\ x17' = x17 /\ exit' = exit /\ trace' = trace
    BY DEF FinalizeFromTurboAssembler, Unimplemented, runVars
<1>2. \/ phase = "bind" /\ phase' = "run" /\ data_labels = <<>>
      \/ phase = "relocate" /\ phase' = "abort"
    BY DEF FinalizeFromTurboAssembler, Unimplemented, Decode
<1>3. End' = End
    BY <1>1, <1>2 DEF End
<1>4. CopyGood'
    BY <1>1, <1>2, <1>3 DEF RelocInv, CopyGood
<1>5. RelocType' /\ RunType'
    BY <1>1, <1>2 DEF RelocInv, RelocType, RunType
<1>6. RunGood'
    <2>1. CASE phase' = "abort"
        BY <1>1, <1>2, <2>1 DEF RelocInv, RunGood
    <2>2. CASE phase' = "run"
        <3>1. phase = "bind" /\ rpc = 1
            BY <1>2, <2>2 DEF RelocInv, RunGood
        <3>2. Len(buf) \in Nat /\ Len(buf) >= 1 /\ buf[1].op \in Entry
            BY <3>1, IsLinked DEF Linked, Begins
        <3>3. buf[1].op \notin {"low", "high"} /\ buf[1].op \notin Uses
            BY <3>2 DEF Entry, Uses
        <3> QED
            BY <1>1, <2>2, <3>1, <3>2, <3>3 DEF RunGood
    <2> QED
        BY <1>2, <2>1, <2>2
<1> QED
    BY <1>4, <1>5, <1>6 DEF RelocInv

-----------------------------------------------------------------------------
(* Running the copy.                                                       *)

(* The word about to be run.                                               *)
LEMMA AtWord ==
    ASSUME RelocInv, NEW op, At(op)
    PROVE  /\ phase = "run" /\ rpc \in Nat /\ rpc # 0 /\ rpc \in 1 .. Len(buf) /\ Len(buf) \in Nat
           /\ buf[rpc].op = op /\ buf[rpc].src \in Nat /\ buf[rpc].arg \in Int
           /\ MovGood(buf, rpc, -1, code) /\ PlainGood(buf, rpc, -1, code) /\ BranchGood(buf, rpc, -1, code)
           /\ op \in Uses => x17 = Wanted(code, buf[rpc].src)
<1>1. phase = "run" /\ rpc # 0 /\ buf[rpc].op = op
    BY DEF At
<1>2. Linked(buf, code, data_labels) /\ Len(buf) \in Nat
    BY <1>1, IsLinked
<1>3. rpc \in Nat /\ rpc <= Len(buf) /\ (op \in Uses => x17 = Wanted(code, buf[rpc].src))
    BY <1>1 DEF RelocInv, RunType, RunGood
<1>4. rpc \in 1 .. Len(buf)
    BY <1>1, <1>2, <1>3
<1>5. MovGood(buf, rpc, -1, code) /\ PlainGood(buf, rpc, -1, code) /\ BranchGood(buf, rpc, -1, code)
    BY <1>2, <1>4 DEF Linked, WordsGood
<1>6. buf[rpc] \in Word
    BY <1>2, <1>4 DEF Linked
<1>7. buf[rpc].src \in Nat /\ buf[rpc].arg \in Int
    BY <1>6 DEF Word
<1> QED
    BY <1>1, <1>2, <1>3, <1>4, <1>5, <1>7

(* The word behind it, of the same instruction or of the next one.         *)
LEMMA NextWord ==
    ASSUME NEW n \in Nat, NEW b, Len(b) = n, NEW p \in 1 .. n
    PROVE  /\ \A ops : Stays(b, p, ops) =>
                 p + 1 \in 1 .. n /\ b[p + 1].src = b[p].src /\ b[p + 1].op \in ops
           /\ \A q \in Nat : MovesOn(b, p, q, -1) /\ b[p].src \in Nat =>
                 q + 1 \in 1 .. n /\ b[q + 1].src = b[p].src + 1 /\ b[q + 1].op \in Entry
<1>1. ASSUME NEW ops, Stays(b, p, ops)
      PROVE  p + 1 \in 1 .. n /\ b[p + 1].src = b[p].src /\ b[p + 1].op \in ops
    BY <1>1 DEF Stays
<1>2. ASSUME NEW q \in Nat, MovesOn(b, p, q, -1), b[p].src \in Nat
      PROVE  q + 1 \in 1 .. n /\ b[q + 1].src = b[p].src + 1 /\ b[q + 1].op \in Entry
    <2>1. b[p].src + 1 # -1
        BY <1>2
    <2>2. q < n /\ b[q + 1].src = b[p].src + 1 /\ b[q + 1].op \in Entry
        BY <1>2, <2>1 DEF MovesOn
    <2> QED
        BY <2>2
<1> QED
    BY <1>1, <1>2

(* A step of the core keeps the invariant if it arrives at a word with x17 *)
(* as that word needs it.                                                  *)
LEMMA Arrives ==
    ASSUME RelocInv, phase = "run", UNCHANGED <<code, replace_call, relocVars>>,
           NEW q \in 1 .. Len(buf), rpc' = q, x17' \in Int, trace' \in Seq(Events),
           buf[q].op \notin {"low", "high"}, buf[q].op \in Uses => x17' = Wanted(code, buf[q].src)
    PROVE  RelocInv'
<1>1. /\ code' = code /\ replace_call' = replace_call /\ phase' = "run" /\ buf' = buf
      /\ curr_orig_pc' = curr_orig_pc /\ data_labels' = data_labels
    BY DEF relocVars
<1>2. Len(buf) \in Nat
    BY IsLinked
<1>3. q \in Nat /\ q # 0 /\ q <= Len(buf)
    BY <1>2
<1>4. RelocType' /\ CopyGood'
    <2>1. End' = End
        BY <1>1 DEF End
    <2> QED
        BY <1>1, <2>1 DEF RelocInv, RelocType, CopyGood
<1>5. RunType' /\ RunGood'
    BY <1>1, <1>3 DEF RunType, RunGood
<1> QED
    BY <1>4, <1>5 DEF RelocInv

(* What a step of the core does, by the word it runs: the invariant is     *)
(* kept, and the prologue takes the same step or none.                     *)
InPlaceOrNot == InPlace!Next \/ WideLoad \/ LinkToCopy \/ UNCHANGED InPlace!vars

LEMMA Stutters ==
    ASSUME phase = "run", phase' = "run", rpc # 0, rpc' # 0, code' = code, trace' = trace,
           buf' = buf, buf[rpc'].src = buf[rpc].src
    PROVE  InPlaceOrNot
BY DEF InPlaceOrNot, InPlace!vars

LEMMA StepsInPlace ==
    ASSUME phase = "run", phase' = "run", rpc # 0, code' = code, buf' = buf,
           code \in Seq(Instruction), Start \in Nat,
           NEW kinds, FromKind(code, buf[rpc].src, kinds), NEW taken \in BOOLEAN, NEW s, s = buf[rpc].src,
           NEW bytes, NEW link, trace' = trace \o InPlace!Effect(Source(code, s), s, bytes, link),
           (IF rpc' = 0 THEN exit' ELSE buf[rpc'].src) = InPlace!Target(Source(code, s), s, taken)
    PROVE  InPlace!Does(taken, bytes, link)
<1>1. s \in Nat /\ s - Start + 1 \in 1 .. Len(code) /\ Source(code, s) = code[s - Start + 1]
    BY DEF FromKind, Source
<1>2. s \in Start .. Start + Len(code) - 1
    BY <1>1
<1> QED
    BY <1>1, <1>2 DEF InPlace!Does, InPlace!Inside

-----------------------------------------------------------------------------
(* The invariant is inductive, and every step a step in place.             *)

LEMMA RelocInit == ASSUME Init PROVE RelocInv
<1>1. Start \in Nat /\ code \in Seq(Instruction)
    <2>1. code \in Programs /\ Programs \subseteq Seq(Instruction) /\ Start \in Nat
        BY RelocAssumption DEF Init
    <2> QED
        BY <2>1, Zenon
<1>2. Len(buf) = 0 /\ Len(data_labels) = 0 /\ End = Start /\ phase = "relocate"
    BY DEF Init, End
<1>3. RelocType
    <2>1. Len(code) \in Nat
        BY <1>1
    <2> QED
        BY <1>1, <2>1 DEF Init, RelocType
<1>4. RunType /\ RunGood
    BY DEF Init, RunType, RunGood
<1>5. CopyGood
    BY <1>2 DEF CopyGood, WordsGood, LoadsGood, LabelsGood, Begins
<1> QED
    BY <1>3, <1>4, <1>5 DEF RelocInv

(* Each instruction of the loop.                                           *)
LEMMA CopyStep ==
    ASSUME RelocInv,
           \/ RelocateLdr("ldr") \/ RelocateLdr("ldrw") \/ RelocateAdr \/ RelocateAdrp \/ CopyInstruction \/ RelocateConditional
           \/ RelocateBranch("b", "br_x17") \/ RelocateBranch("bl", "blr_x17")
    PROVE  RelocInv'
<1> DEFINE s == curr_orig_pc  v == curr_orig_pc + Instr.arg
<1>1. ASSUME NEW op \in {"ldr", "ldrw"}, RelocateLdr(op) PROVE RelocInv'
    <2> DEFINE ws == Mov(s, "mov_x17", v) \o <<W(s, "ldr_x17", 8)>>
    <2>1. Decode(op) /\ Emit(ws, <<>>)
        BY <1>1 DEF RelocateLdr, LdrSize
    <2>2. s \in Nat /\ v \in Int /\ v = Wanted(code, s) /\ FromKind(code, s, {"ldr", "ldrw"})
        <3>1. s \in Nat /\ v \in Int /\ v = Wanted(code, s) /\ FromKind(code, s, {op})
            BY <2>1, Decoded
        <3> QED
            BY <3>1 DEF FromKind
    <2>3. Block(ws, s, s + 1, code) /\ NoLoads(ws)
        BY <2>2, LdrBlock
    <2> HIDE DEF ws
    <2> QED
        BY <2>1, <2>3, EmitPlain
<1>2. CASE RelocateAdr
    <2> DEFINE ws == Mov(s, "mov_xd", v)
    <2>1. Decode("adr") /\ Emit(ws, <<>>)
        BY <1>2 DEF RelocateAdr
    <2>2. /\ s \in Nat /\ v \in Int /\ FromKind(code, s, {"adr"})
          /\ v = s + Source(code, s).arg
        BY <2>1, Decoded
    <2>3. Block(ws, s, s + 1, code) /\ NoLoads(ws)
        BY <2>2, AddressBlock
    <2> HIDE DEF ws
    <2> QED
        BY <2>1, <2>3, EmitPlain
<1>3. CASE RelocateAdrp
    <2> DEFINE a == AdrpAddress(Instr, s)  ws == Mov(s, "mov_xd", a)
    <2>1. Decode("adrp") /\ Emit(ws, <<>>)
        BY <1>3 DEF RelocateAdrp
    <2>2. /\ s \in Nat /\ Instr.arg \in Int /\ FromKind(code, s, {"adrp"})
          /\ Instr = Source(code, s)
        BY <2>1, Decoded
    <2>3. a \in Int /\ a = AdrpAddress(Source(code, s), s)
        <3>1. Page \in Nat \ {0}
            BY RelocAssumption
        <3> QED
            BY <2>2, <3>1 DEF AdrpAddress
    <2> HIDE DEF a
    <2>4. Block(ws, s, s + 1, code) /\ NoLoads(ws)
        BY <2>2, <2>3, AddressBlock
    <2> HIDE DEF ws
    <2> QED
        BY <2>1, <2>4, EmitPlain
<1>4. CASE CopyInstruction
    <2> DEFINE a == Instr.arg  ws == <<W(s, "plain", a)>>
    <2>1. Decode("plain") /\ Emit(ws, <<>>)
        BY <1>4 DEF CopyInstruction
    <2>2. s \in Nat /\ a \in Int /\ FromKind(code, s, {"plain"}) /\ a = Source(code, s).arg
        BY <2>1, Decoded
    <2> HIDE DEF a
    <2>3. Block(ws, s, s + 1, code) /\ NoLoads(ws)
        BY <2>2, PlainBlock
    <2> HIDE DEF ws
    <2> QED
        BY <2>1, <2>3, EmitPlain
<1>5. ASSUME NEW op, NEW jump, RelocateBranch(op, jump), <<op, jump>> \in {<<"b", "br_x17">>, <<"bl", "blr_x17">>}
      PROVE  RelocInv'
    <2> DEFINE ws == <<Ldr(s), W(s, jump, 0)>>
    <2>1. Decode(op) /\ Emit(ws, <<Label(v, Len(buf) + 1)>>)
        BY <1>5 DEF RelocateBranch
    <2>2. s \in Nat /\ v = Wanted(code, s) /\ FromKind(code, s, {op})
        BY <2>1, Decoded
    <2>3. \/ jump = "br_x17" /\ (s = Rest(code) \/ FromKind(code, s, {"b"}))
          \/ jump = "blr_x17" /\ FromKind(code, s, {"bl"}) /\ s + 1 = s + 1
        BY <1>5, <2>2
    <2>4. Block(ws, s, s + 1, code) /\ OneLoad(ws, 1) /\ ws[1].src = s
        BY <2>2, <2>3, BranchBlock
    <2> HIDE DEF ws
    <2> QED
        BY <2>1, <2>2, <2>4, EmitBranch
<1>6. CASE RelocateConditional
    <2> DEFINE ws == <<W(s, "inverted", SkipThree), Ldr(s), W(s, "br_x17", 0)>>
    <2>1. Decode("cond") /\ Emit(ws, <<Label(v, Len(buf) + 2)>>)
        BY <1>6 DEF RelocateConditional
    <2>2. s \in Nat /\ v = Wanted(code, s) /\ FromKind(code, s, {"cond"})
        BY <2>1, Decoded
    <2>3. Block(ws, s, s + 1, code) /\ OneLoad(ws, 2) /\ ws[2].src = s
        BY <2>2, ConditionalBlock
    <2> HIDE DEF ws
    <2> QED
        BY <2>1, <2>2, <2>3, EmitBranch
<1> QED
    BY <1>1, <1>2, <1>3, <1>4, <1>5, <1>6

(* While the copy is made the prologue is at its start; the copy begins    *)
(* there.                                                                  *)
LEMMA MakingStutters ==
    ASSUME RelocInv, RelocInv', GenRelocateCodeAndBranch
    PROVE  InPlaceOrNot
<1>1. phase # "run" /\ code' = code /\ trace' = trace /\ rpc' = rpc
    BY DEF GenRelocateCodeAndBranch, RelocateLdr, Unimplemented, RelocateAdr, RelocateAdrp,
           RelocateBranch, RelocateConditional, CopyInstruction, LiteralLdrBranch, RelocBind,
           FinalizeFromTurboAssembler, Decode, Emit, runVars
<1>2. CASE phase' # "run"
    BY <1>1, <1>2 DEF InPlaceOrNot, InPlace!vars
<1>3. CASE phase' = "run"
    <2>1. FinalizeFromTurboAssembler
        BY <1>1, <1>3 DEF GenRelocateCodeAndBranch, RelocateLdr, Unimplemented, RelocateAdr, RelocateAdrp,
           RelocateBranch, RelocateConditional, CopyInstruction, LiteralLdrBranch, RelocBind, Decode, Emit
    <2>2. phase = "bind" /\ rpc = 1 /\ rpc' = 1 /\ buf' = buf
        BY <1>1, <2>1 DEF FinalizeFromTurboAssembler, RelocInv, RunGood
    <2>3. buf[1].src = Start
        <3>1. Len(buf) \in Nat /\ Len(buf) >= 1 /\ Begins(buf, -1)
            BY <2>2, IsLinked DEF Linked
        <3> QED
            BY <3>1 DEF Begins
    <2> QED
        BY <1>1, <1>3, <2>2, <2>3 DEF InPlaceOrNot, InPlace!vars
<1> QED
    BY <1>2, <1>3

(* An instruction of the prologue, from its kind.                          *)
LEMMA SourceType ==
    ASSUME RelocInv, NEW s, NEW kinds, FromKind(code, s, kinds)
    PROVE  /\ s \in Nat /\ Source(code, s).op \in kinds /\ Source(code, s).arg \in Int
           /\ Wanted(code, s) = s + Source(code, s).arg
<1> DEFINE k == s - Start + 1
<1>1. code \in Seq(Instruction) /\ Len(code) \in Nat /\ Start \in Nat
    BY CodeType
<1>2. s \in Nat /\ k \in 1 .. Len(code) /\ Source(code, s).op \in kinds /\ Source(code, s) = code[k]
    BY DEF FromKind, Source
<1>3. s # Rest(code)
    BY <1>1, <1>2 DEF Rest
<1> HIDE DEF k
<1>4. code[k] \in Instruction
    BY <1>1, <1>2
<1>5. Source(code, s).arg \in Int
    BY <1>2, <1>4 DEF Instruction
<1> QED
    BY <1>2, <1>3, <1>5 DEF Wanted

(* One event more.                                                         *)
LEMMA OneEvent ==
    ASSUME RelocInv, NEW e \in Events
    PROVE  Append(trace, e) \in Seq(Events) /\ Append(trace, e) = trace \o <<e>>
<1>1. trace \in Seq(Events)
    BY DEF RelocInv, RunType
<1> QED
    BY <1>1

(* The words that only prepare: parts of an address, a literal, an         *)
(* inverted branch that falls through to its jump.                         *)
LEMMA PreparingStep ==
    ASSUME RelocInv, MovPart \/ MovX17 \/ LdrLiteral \/ Inverted(TRUE)
    PROVE  RelocInv' /\ InPlaceOrNot
<1> DEFINE q == rpc + 1
<1>1. PICK op \in {"movk", "mov_x17", "ldr_literal", "inverted"} : At(op)
    BY DEF MovPart, MovX17, LdrLiteral, Inverted
<1>2. /\ phase = "run" /\ rpc \in Nat /\ rpc # 0 /\ rpc \in 1 .. Len(buf) /\ Len(buf) \in Nat
      /\ buf[rpc].op = op /\ buf[rpc].src \in Nat /\ buf[rpc].arg \in Int
      /\ MovGood(buf, rpc, -1, code) /\ PlainGood(buf, rpc, -1, code) /\ BranchGood(buf, rpc, -1, code)
    BY <1>1, AtWord
<1>3. Stays(buf, rpc, {"movk", "mov_x17", "mov_xd", "ldr_x17", "ldr_literal", "br_x17", "blr_x17"})
    BY <1>2 DEF MovGood, BranchGood, Stays
<1>4. /\ q \in 1 .. Len(buf) /\ buf[q].src = buf[rpc].src
      /\ buf[q].op \in {"movk", "mov_x17", "mov_xd", "ldr_x17", "ldr_literal", "br_x17", "blr_x17"}
    BY <1>2, <1>3, NextWord
<1>5. /\ rpc' = q /\ code' = code /\ replace_call' = replace_call /\ UNCHANGED relocVars
      /\ trace' = trace /\ phase' = "run" /\ buf' = buf
    BY <1>2 DEF MovPart, MovX17, LdrLiteral, Inverted, Goto, relocVars
<1>6. x17' \in Int /\ (buf[q].op \in Uses => x17' = Wanted(code, buf[q].src))
    <2>1. CASE op \in {"movk", "inverted"}
        <3>1. buf[q].op \notin Uses
            <4>1. Stays(buf, rpc, {"movk", "mov_x17", "mov_xd", "ldr_literal"})
                BY <1>2, <2>1 DEF MovGood, BranchGood, Stays
            <4> QED
                BY <4>1 DEF Stays, Uses
        <3>2. x17' = x17
            BY <1>2, <2>1 DEF MovPart, MovX17, LdrLiteral, Inverted, At
        <3> QED
            BY <3>1, <3>2 DEF RelocInv, RunType
    <2>2. CASE op = "mov_x17"
        <3>1. x17' = buf[rpc].arg
            BY <1>2, <2>2 DEF MovPart, MovX17, LdrLiteral, Inverted, At
        <3>2. buf[rpc].arg = Wanted(code, buf[rpc].src)
            BY <1>2, <2>2 DEF MovGood
        <3> QED
            BY <1>2, <1>4, <3>1, <3>2
    <2>3. CASE op = "ldr_literal"
        <3> DEFINE p == rpc + buf[rpc].arg
        <3>1. x17' = ReadLiteral(p)
            BY <1>2, <2>3 DEF MovPart, MovX17, LdrLiteral, Inverted, At
        <3>2. Linked(buf, code, data_labels) /\ data_labels = <<>>
            BY <1>2, IsLinked DEF RelocInv, CopyGood
        <3>3. Finds(buf, rpc, p, code)
            <4>1. Len(data_labels) = 0
                BY <3>2
            <4> QED
                BY <1>2, <2>3, <3>2, <4>1 DEF Linked, LoadsGood
        <3> HIDE DEF p
        <3>4. ReadLiteral(p) = buf[p].arg /\ buf[p].arg = Wanted(code, buf[rpc].src)
            BY <3>3 DEF Finds, ReadLiteral
        <3>5. buf[p] \in Word
            BY <3>2, <3>3 DEF Finds, Linked
        <3>6. buf[p].arg \in Int
            BY <3>5 DEF Word
        <3> QED
            BY <1>4, <3>1, <3>4, <3>6
    <2> QED
        BY <2>1, <2>2, <2>3
<1> HIDE DEF q
<1>7. q # 0 /\ buf[q].op \notin {"low", "high"} /\ trace' \in Seq(Events)
    BY <1>2, <1>4, <1>5 DEF RelocInv, RunType
<1>8. RelocInv'
    BY <1>2, <1>4, <1>5, <1>6, <1>7, Arrives
<1>9. InPlaceOrNot
    BY <1>2, <1>4, <1>5, <1>7, Stutters
<1> QED
    BY <1>8, <1>9

(* The words that complete an instruction and go on to the next one: the   *)
(* prologue does the same.                                                 *)
LEMMA CompletingStep ==
    ASSUME RelocInv, NEW q \in Nat, rpc' = q + 1, x17' = x17, phase = "run", rpc # 0,
           UNCHANGED <<code, replace_call, relocVars>>, trace' \in Seq(Events),
           rpc \in 1 .. Len(buf), MovesOn(buf, rpc, q, -1),
           NEW kinds \in SUBSET {"plain", "ldr", "ldrw", "adr", "adrp", "bl", "cond"},
           FromKind(code, buf[rpc].src, kinds), NEW bytes, NEW link,
           trace' = trace \o InPlace!Effect(Source(code, buf[rpc].src), buf[rpc].src, bytes, link)
    PROVE  RelocInv' /\ InPlace!Does(FALSE, bytes, link)
<1> DEFINE s == buf[rpc].src  next == q + 1
<1>1. s \in Nat /\ Source(code, s).op \in kinds
    BY SourceType
<1>2. Len(buf) \in Nat /\ code \in Seq(Instruction) /\ Start \in Nat
    BY IsLinked, CodeType
<1>3. next \in 1 .. Len(buf) /\ buf[next].src = s + 1 /\ buf[next].op \in Entry
    BY <1>1, <1>2, NextWord
<1>4. next # 0 /\ phase' = "run" /\ buf' = buf /\ code' = code /\ x17' \in Int
    BY DEF relocVars, RelocInv, RunType
<1>5. buf[next].op \notin {"low", "high"} /\ buf[next].op \notin Uses
    BY <1>3 DEF Entry, Uses
<1>6. InPlace!Target(Source(code, s), s, FALSE) = s + 1
    BY <1>1 DEF InPlace!Target
<1>7. (IF rpc' = 0 THEN exit' ELSE buf[rpc'].src) = InPlace!Target(Source(code, s), s, FALSE)
    BY <1>3, <1>4, <1>6
<1> HIDE DEF next
<1>8. RelocInv'
    <2>1. rpc' = next
        BY DEF next
    <2> QED
        BY <1>3, <1>4, <1>5, <2>1, Arrives
<1>9. InPlace!Does(FALSE, bytes, link)
    BY <1>2, <1>4, <1>7, StepsInPlace
<1> QED
    BY <1>8, <1>9

(* With its own width and link, what an instruction does is its step.      *)
LEMMA OwnStep ==
    ASSUME NEW taken \in BOOLEAN, phase = "run", rpc # 0, NEW s, s = buf[rpc].src,
           InPlace!Does(taken, InPlace!Bytes(Source(code, s)), s + 1)
    PROVE  InPlaceOrNot
BY DEF InPlaceOrNot, InPlace!Next, InPlace!Step, Source

(* The words with an effect, and an inverted branch that skips its jump.   *)
LEMMA EffectStep ==
    ASSUME RelocInv, MovXd \/ LdrX17 \/ Plain \/ Blr \/ Inverted(FALSE)
    PROVE  RelocInv' /\ InPlaceOrNot
<1> DEFINE s == buf[rpc].src
           bytes == InPlace!Bytes(Source(code, s))  link == s + 1
           Own == InPlace!Effect(Source(code, s), s, bytes, link)
<1>1. PICK op \in {"mov_xd", "ldr_x17", "plain", "blr_x17", "inverted"} : At(op)
    BY DEF MovXd, LdrX17, Plain, Blr, Inverted
<1>2. /\ phase = "run" /\ rpc \in Nat /\ rpc # 0 /\ rpc \in 1 .. Len(buf) /\ Len(buf) \in Nat
      /\ buf[rpc].op = op /\ buf[rpc].src \in Nat /\ buf[rpc].arg \in Int
      /\ MovGood(buf, rpc, -1, code) /\ PlainGood(buf, rpc, -1, code) /\ BranchGood(buf, rpc, -1, code)
      /\ op \in Uses => x17 = Wanted(code, s)
    BY <1>1, AtWord
<1>3. UNCHANGED <<code, replace_call, relocVars>> /\ x17' = x17
    BY DEF MovXd, LdrX17, Plain, Blr, Inverted, Goto
<1>4. trace \in Seq(Events)
    BY DEF RelocInv, RunType
<1>5. CASE op = "mov_xd"
    <2>1. MovXd
        BY <1>2, <1>5 DEF MovXd, LdrX17, Plain, Blr, Inverted, At
    <2>2. rpc' = rpc + 1 /\ trace' = Append(trace, <<"address", buf[rpc].arg>>)
        BY <2>1 DEF MovXd, Goto
    <2>3. /\ trace' \in Seq(Events) /\ trace' = trace \o <<<<"address", buf[rpc].arg>>>>
        BY <1>2, <2>2, OneEvent DEF Events
    <2>4. /\ MovesOn(buf, rpc, rpc, -1) /\ FromKind(code, s, {"adr", "adrp"})
          /\ <<<<"address", buf[rpc].arg>>>> = Own
        <3>1. MovesOn(buf, rpc, rpc, -1)
            BY <1>2, <1>5 DEF MovGood
        <3>2. CASE FromKind(code, s, {"adr"}) /\ buf[rpc].arg = s + Source(code, s).arg
            <4>1. Source(code, s).op = "adr"
                BY <3>2 DEF FromKind
            <4> QED
                BY <3>1, <3>2, <4>1 DEF FromKind, InPlace!Effect
        <3>3. CASE FromKind(code, s, {"adrp"}) /\ buf[rpc].arg = AdrpAddress(Source(code, s), s)
            <4>1. Source(code, s).op = "adrp"
                BY <3>3 DEF FromKind
            <4>2. buf[rpc].arg = InPlace!PageOf(s) + Source(code, s).arg * Page
                BY <3>3 DEF InPlace!PageOf, AdrpAddress
            <4> QED
                BY <3>1, <3>3, <4>1, <4>2 DEF FromKind, InPlace!Effect
        <3> QED
            BY <1>2, <1>5, <3>2, <3>3 DEF MovGood
    <2> HIDE DEF bytes, link
    <2>9. RelocInv' /\ InPlace!Does(FALSE, bytes, link)
        BY <1>2, <1>3, <2>2, <2>3, <2>4, CompletingStep
    <2> QED
        BY <1>2, <2>9, OwnStep DEF bytes, link
<1>6. CASE op = "ldr_x17"
    <2>1. LdrX17
        BY <1>2, <1>6 DEF MovXd, LdrX17, Plain, Blr, Inverted, At
    <2>2. FromKind(code, s, {"ldr", "ldrw"}) /\ MovesOn(buf, rpc, rpc, -1) /\ buf[rpc].arg = 8
        BY <1>2, <1>6 DEF PlainGood
    <2>3. Source(code, s).op \in {"ldr", "ldrw"} /\ x17 = s + Source(code, s).arg /\ x17 \in Int
        BY <1>2, <1>6, <2>2, SourceType DEF Uses
    <2>4. rpc' = rpc + 1 /\ trace' = Append(trace, <<"load", x17, 8>>)
        BY <2>1, <2>2 DEF LdrX17, Goto
    <2>5. trace' \in Seq(Events) /\ trace' = trace \o <<<<"load", x17, 8>>>>
        <3>1. <<"load", x17, 8>> \in Events
            BY <2>3 DEF Events
        <3> QED
            BY <2>4, <3>1, OneEvent
    <2>6. CASE Source(code, s).op = "ldr"
        <3>1. <<<<"load", x17, 8>>>> = Own
            BY <2>3, <2>6 DEF InPlace!Effect, InPlace!Bytes
        <3> HIDE DEF bytes, link
        <3>2. RelocInv' /\ InPlace!Does(FALSE, bytes, link)
            BY <1>2, <1>3, <2>2, <2>4, <2>5, <3>1, CompletingStep
        <3> QED
            BY <1>2, <3>2, OwnStep DEF bytes, link
    <2>7. CASE Source(code, s).op = "ldrw"
        <3>1. <<<<"load", x17, 8>>>> = InPlace!Effect(Source(code, s), s, 8, 0)
            BY <2>3, <2>7 DEF InPlace!Effect
        <3>2. RelocInv' /\ InPlace!Does(FALSE, 8, 0)
            BY <1>2, <1>3, <2>2, <2>4, <2>5, <3>1, CompletingStep
        <3>3. WideLoad
            BY <2>1, <2>7, <3>2 DEF WideLoad, LdrX17, Source
        <3> QED
            BY <3>2, <3>3 DEF InPlaceOrNot
    <2> QED
        BY <2>3, <2>6, <2>7
<1>7. CASE op = "plain"
    <2>1. Plain
        BY <1>2, <1>7 DEF MovXd, LdrX17, Plain, Blr, Inverted, At
    <2>2. FromKind(code, s, {"plain"}) /\ MovesOn(buf, rpc, rpc, -1) /\ buf[rpc].arg = Source(code, s).arg
        BY <1>2, <1>7 DEF PlainGood
    <2>3. Source(code, s).op = "plain"
        BY <2>2 DEF FromKind
    <2>4. rpc' = rpc + 1 /\ trace' = Append(trace, <<"plain", buf[rpc].arg>>)
        BY <2>1 DEF Plain, Goto
    <2>5. trace' \in Seq(Events) /\ trace' = trace \o <<<<"plain", buf[rpc].arg>>>>
        BY <1>2, <2>4, OneEvent DEF Events
    <2>6. <<<<"plain", buf[rpc].arg>>>> = Own
        BY <2>2, <2>3 DEF InPlace!Effect
    <2> HIDE DEF bytes, link
    <2>9. RelocInv' /\ InPlace!Does(FALSE, bytes, link)
        BY <1>2, <1>3, <2>2, <2>4, <2>5, <2>6, CompletingStep
    <2> QED
        BY <1>2, <2>9, OwnStep DEF bytes, link
<1>8. CASE op = "blr_x17"
    <2>1. Blr
        BY <1>2, <1>8 DEF MovXd, LdrX17, Plain, Blr, Inverted, At
    <2>2. FromKind(code, s, {"bl"}) /\ MovesOn(buf, rpc, rpc, -1)
        BY <1>2, <1>8 DEF BranchGood
    <2>3. Source(code, s).op = "bl" /\ x17 = s + Source(code, s).arg /\ x17 \in Int
        BY <1>2, <1>8, <2>2, SourceType DEF Uses
    <2>4. PICK lr \in Int : lr = CopyAt + rpc
        BY <1>2, RelocAssumption
    <2>5. rpc' = rpc + 1 /\ trace' = Append(trace, <<"call", x17, lr>>)
        BY <2>1, <2>4 DEF Blr, Goto
    <2>6. trace' \in Seq(Events) /\ trace' = trace \o <<<<"call", x17, lr>>>>
        <3>1. <<"call", x17, lr>> \in Events
            BY <2>3 DEF Events
        <3> QED
            BY <2>5, <3>1, OneEvent
    <2>7. <<<<"call", x17, lr>>>> = InPlace!Effect(Source(code, s), s, 0, lr)
        BY <2>3 DEF InPlace!Effect
    <2>8. RelocInv' /\ InPlace!Does(FALSE, 0, lr)
        BY <1>2, <1>3, <2>2, <2>5, <2>6, <2>7, CompletingStep
    <2>9. LinkToCopy
        BY <2>1, <2>4, <2>8 DEF LinkToCopy, Blr
    <2> QED
        BY <2>8, <2>9 DEF InPlaceOrNot
<1>9. CASE op = "inverted"
    <2>1. Inverted(FALSE)
        BY <1>2, <1>9 DEF MovXd, LdrX17, Plain, Blr, Inverted, At
    <2>2. FromKind(code, s, {"cond"}) /\ MovesOn(buf, rpc, rpc + 2, -1) /\ buf[rpc].arg = 3
        BY <1>2, <1>9 DEF BranchGood
    <2>3. Source(code, s).op = "cond"
        BY <2>2 DEF FromKind
    <2>4. rpc' = (rpc + 2) + 1 /\ rpc + 2 \in Nat /\ trace' = trace
        BY <1>2, <2>1, <2>2 DEF Inverted, Goto
    <2>5. trace' = trace \o Own
        <3>1. Own = <<>>
            BY <2>3 DEF InPlace!Effect
        <3> QED
            BY <1>4, <2>4, <3>1
    <2> HIDE DEF bytes, link
    <2>9. RelocInv' /\ InPlace!Does(FALSE, bytes, link)
        BY <1>2, <1>3, <1>4, <2>2, <2>4, <2>5, CompletingStep
    <2> QED
        BY <1>2, <2>9, OwnStep DEF bytes, link
<1> QED
    BY <1>5, <1>6, <1>7, <1>8, <1>9

(* The jumps: behind the prologue, or where its branch leads.              *)
LEMMA JumpStep == ASSUME RelocInv, Br PROVE RelocInv' /\ InPlaceOrNot
<1> DEFINE s == buf[rpc].src
           bytes == InPlace!Bytes(Source(code, s))  link == s + 1
           Own == InPlace!Effect(Source(code, s), s, bytes, link)
<1>1. At("br_x17") /\ rpc' = 0 /\ exit' = x17 /\ x17' = x17 /\ trace' = trace
    BY DEF Br
<1>2. /\ code' = code /\ replace_call' = replace_call /\ phase' = phase /\ buf' = buf
      /\ curr_orig_pc' = curr_orig_pc /\ data_labels' = data_labels
    BY DEF Br, relocVars
<1>3. /\ phase = "run" /\ rpc # 0 /\ s \in Nat /\ x17 = Wanted(code, s)
      /\ s = Rest(code) \/ FromKind(code, s, {"b", "cond"})
    <2>1. /\ phase = "run" /\ rpc # 0 /\ s \in Nat /\ buf[rpc].op = "br_x17"
          /\ BranchGood(buf, rpc, -1, code) /\ x17 = Wanted(code, s)
        BY <1>1, AtWord DEF Uses
    <2> QED
        BY <2>1 DEF BranchGood
<1>4. RelocInv'
    <2>1. End' = End
        BY <1>2 DEF End
    <2>2. RelocType' /\ CopyGood'
        BY <1>2, <2>1 DEF RelocInv, RelocType, CopyGood
    <2>3. RunType' /\ RunGood'
        BY <1>1, <1>2, <1>3 DEF RelocInv, RunType, RunGood
    <2> QED
        BY <2>2, <2>3 DEF RelocInv
<1>5. InPlaceOrNot
    <2>1. CASE s = Rest(code)
        <3>1. exit' = s
            BY <1>1, <1>3, <2>1 DEF Wanted
        <3> QED
            BY <1>1, <1>2, <1>3, <3>1 DEF InPlaceOrNot, InPlace!vars
    <2>2. CASE FromKind(code, s, {"b", "cond"})
        <3>1. Source(code, s).op \in {"b", "cond"} /\ x17 = s + Source(code, s).arg
            BY <1>3, <2>2, SourceType
        <3>2. exit' = InPlace!Target(Source(code, s), s, TRUE)
            BY <1>1, <3>1 DEF InPlace!Target
        <3>3. trace' = trace \o Own
            <4>1. Own = <<>>
                BY <3>1 DEF InPlace!Effect
            <4> QED
                BY <1>1, <4>1 DEF RelocInv, RunType
        <3>4. code \in Seq(Instruction) /\ Start \in Nat
            BY CodeType
        <3> HIDE DEF bytes, link
        <3>5. InPlace!Does(TRUE, bytes, link)
            BY <1>1, <1>2, <1>3, <2>2, <3>2, <3>3, <3>4, StepsInPlace
        <3> QED
            BY <1>3, <3>5, OwnStep DEF bytes, link
    <2> QED
        BY <1>3, <2>1, <2>2
<1> QED
    BY <1>4, <1>5

LEMMA RelocStep ==
    ASSUME RelocInv, [Next]_vars
    PROVE  RelocInv' /\ InPlaceOrNot
<1>1. CASE GenRelocateCodeAndBranch
    <2>1. RelocInv'
        BY <1>1, CopyStep, BranchBackStep, BindStep, PhaseStep DEF GenRelocateCodeAndBranch
    <2> QED
        BY <1>1, <2>1, MakingStutters
<1>2. CASE LdrLiteral \/ MovX17 \/ MovPart \/ Inverted(TRUE)
    BY <1>2, PreparingStep
<1>3. CASE MovXd \/ LdrX17 \/ Plain \/ Blr \/ Inverted(FALSE)
    BY <1>3, EffectStep
<1>4. CASE Br
    BY <1>4, JumpStep
<1>5. CASE UNCHANGED vars
    <2>1. /\ code' = code /\ replace_call' = replace_call /\ phase' = phase /\ buf' = buf
          /\ curr_orig_pc' = curr_orig_pc /\ data_labels' = data_labels
          /\ rpc' = rpc /\ x17' = x17 /\ exit' = exit /\ trace' = trace
        BY <1>5 DEF vars, relocVars, runVars
    <2>2. End' = End
        BY <2>1 DEF End
    <2>3. RelocInv'
        BY <2>1, <2>2 DEF RelocInv, RelocType, RunType, CopyGood, RunGood
    <2>4. InPlaceOrNot
        BY <2>1 DEF InPlaceOrNot, InPlace!vars
    <2> QED
        BY <2>3, <2>4
<1> QED
    <2>1. \A taken \in BOOLEAN : Inverted(taken) => Inverted(TRUE) \/ Inverted(FALSE)
        OBVIOUS
    <2> QED
        BY <1>1, <1>2, <1>3, <1>4, <1>5, <2>1 DEF Next

LEMMA RelocInductive == Spec => []RelocInv
<1>1. Init => RelocInv
    BY RelocInit
<1>2. RelocInv /\ [Next]_vars => RelocInv'
    BY RelocStep
<1> QED
    BY <1>1, <1>2, PTL DEF Spec

(* CopyRunsPrologue for every prologue: whatever instructions lie under    *)
(* the trampoline and wherever the copy lies, running the copy that        *)
(* GenRelocateCodeAndBranch writes is running them in place, with the same *)
(* loads, addresses and calls and the same way out, each literal found     *)
(* behind the branch back where its load looks for it; only a load of Wt   *)
(* is wider, and a call's link is an address of the copy.                  *)
THEOREM CopyImplementsPrologue == Spec => CopyRunsPrologue
<1>1. Init => InPlace!Init
    BY DEF Init, InPlace!Init
<1>2. RelocInv /\ [Next]_vars => [InPlace!Next \/ WideLoad \/ LinkToCopy]_(InPlace!vars)
    BY RelocStep DEF InPlaceOrNot
<1> QED
    BY <1>1, <1>2, RelocInductive, PTL DEF Spec, CopyRunsPrologue

-----------------------------------------------------------------------------
(* The trampoline.                                                         *)

(* Division with remainder, by the page and by the reach of adrp.          *)
LEMMA DivMod ==
    ASSUME NEW a \in Int, NEW m \in Nat \ {0}
    PROVE  a % m \in 0 .. m - 1 /\ a \div m \in Int /\ a = m * (a \div m) + (a % m)
<1>1. a % m \in 0 .. m - 1
    OBVIOUS
<1>2. a \div m \in Int
    OBVIOUS
<1>3. a = m * (a \div m) + (a % m)
    OBVIOUS
<1> QED
    BY <1>1, <1>2, <1>3

LEMMA Multiples ==
    ASSUME NEW m \in Nat \ {0}, NEW x \in Int, NEW y \in Int, x <= y
    PROVE  m * x \in Int /\ m * y \in Int /\ m * x <= m * y
OBVIOUS

LEMMA SmallMod ==
    ASSUME NEW m \in Nat \ {0}, NEW x \in 0 .. m - 1
    PROVE  x % m = x
OBVIOUS

(* Numbers no further apart than reach pages lie on pages no further apart.*)
LEMMA PagesApart ==
    ASSUME NEW m \in Nat \ {0}, NEW x \in Int, NEW y \in Int, NEW reach \in Int, x - y <= m * reach
    PROVE  (x \div m) - (y \div m) <= reach
<1> DEFINE a == x \div m  b == y \div m  r == x % m  s == y % m
<1>1. r \in 0 .. m - 1 /\ a \in Int /\ x = m * a + r
    BY DivMod
<1>2. s \in 0 .. m - 1 /\ b \in Int /\ y = m * b + s
    BY DivMod
<1> HIDE DEF a, b, r, s
<1>3. SUFFICES ASSUME ~(a - b <= reach) PROVE FALSE
    BY <1>1, <1>2 DEF a, b
<1>4. reach + 1 <= a - b /\ reach + 1 \in Int /\ a - b \in Int
    BY <1>1, <1>2, <1>3
<1>5. m * (reach + 1) <= m * (a - b)
    BY <1>4, Multiples
<1>6. m * (a - b) = m * a - m * b /\ m * (reach + 1) = m * reach + m
    BY <1>1, <1>2
<1>7. m * a \in Int /\ m * b \in Int /\ m * reach \in Int
    BY <1>1, <1>2
<1>8. (m * a + r) - (m * b + s) <= m * reach
    BY <1>1, <1>2
<1> QED
    BY <1>1, <1>2, <1>5, <1>6, <1>7, <1>8

(* adrp's field holds every page difference short of its limit.            *)
LEMMA FieldHolds ==
    ASSUME NEW d \in Int, -(AdrpPages - 1) <= d, d <= AdrpPages - 1
    PROVE  AdrpField(d) = d
<1>1. AdrpPages \in Nat /\ AdrpPages >= 1
    BY RelocAssumption
<1> DEFINE n == 2 * AdrpPages  x == d + AdrpPages
<1>2. n \in Nat \ {0} /\ x \in 0 .. n - 1 /\ x - AdrpPages = d
    BY <1>1
<1> HIDE DEF n, x
<1>3. x % n = x
    BY <1>2, SmallMod
<1> QED
    BY <1>2, <1>3 DEF AdrpField, n, x

LEMMA TrampolineReaches ==
    ASSUME NEW from \in Nat, NEW to \in Nat,
           Distance(from, to) \notin (AdrpPages - 1) * Page + 1 .. AdrpPages * Page - 1
    PROVE  TrampolineTarget(from, to) = to
<1> DEFINE reach == AdrpPages - 1  f == from \div Page  t == to \div Page
<1>1. Page \in Nat \ {0} /\ AdrpPages \in Nat /\ AdrpPages >= 1 /\ reach \in Nat
    BY RelocAssumption
<1>2. CASE ~AdrpReach(from, to)
    BY <1>2 DEF TrampolineTarget
<1>3. CASE AdrpReach(from, to)
    <2>1. /\ Distance(from, to) \in Int /\ reach * Page \in Int /\ AdrpPages * Page \in Int
          /\ reach * Page = Page * reach
        BY <1>1 DEF Distance
    <2>2. Distance(from, to) <= Page * reach
        BY <1>3, <2>1 DEF AdrpReach
    <2>3. from - to <= Page * reach /\ to - from <= Page * reach
        BY <2>1, <2>2 DEF Distance
    <2>4. f - t <= reach /\ t - f <= reach
        <3> HIDE DEF reach
        <3> QED
            BY <1>1, <2>3, PagesApart
    <2>5. f \in Int /\ from = Page * f + (from % Page) /\ from % Page \in Int
        BY <1>1, DivMod
    <2>6. t \in Int /\ to = Page * t + (to % Page) /\ to % Page \in Int
        BY <1>1, DivMod
    <2> HIDE DEF f, t
    <2>7. AdrpField(t - f) = t - f
        BY <1>1, <2>4, <2>5, <2>6, FieldHolds
    <2>8. (t - f) * Page = Page * t - Page * f /\ Page * t \in Int /\ Page * f \in Int
        BY <1>1, <2>5, <2>6
    <2>9. (from - (from % Page)) + (t - f) * Page + (to % Page) = to
        BY <2>5, <2>6, <2>8
    <2> QED
        BY <1>3, <2>7, <2>9 DEF TrampolineTarget, f, t
<1> QED
    BY <1>2, <1>3

(* TrampolineLeadsToReplacement for every page size and reach of adrp and  *)
(* every pair of addresses: GenerateNormalTrampolineBuffer's adrp, add and *)
(* br, or its literal, lead from the hooked function to the replacement    *)
(* unless their distance is within a page of the reach.                    *)
THEOREM TrampolineLeadsAlways == Spec => []TrampolineLeadsToReplacement
<1>1. RelocInv => TrampolineLeadsToReplacement
    <2> SUFFICES ASSUME RelocInv, NEW from \in Addresses,
                        Distance(from, replace_call) \notin (AdrpPages - 1) * Page + 1 .. AdrpPages * Page - 1
                 PROVE  TrampolineTarget(from, replace_call) = replace_call
        BY DEF TrampolineLeadsToReplacement
    <2>1. from \in Nat /\ replace_call \in Nat
        BY RelocAssumption DEF RelocInv, RelocType
    <2> QED
        BY <2>1, TrampolineReaches
<1> QED
    BY <1>1, RelocInductive, PTL
=============================================================================
