------------------------- MODULE InterceptorProofs -------------------------
(***************************************************************************)
(* Proofs about Interceptor for any set of functions, replacements and     *)
(* handlers and any number of hooks.                                       *)
(***************************************************************************)
EXTENDS Interceptor, TLAPS, WellFoundedInduction, SequenceTheorems

Targets == [fn : Replacements \cup Handlers \cup {NULL}, closure : BOOLEAN, entry : 0 .. MaxHooks]
Ops == {"insn", "torn", "ldr pc", "ldr", "br", "low", "high", "adrp", "add", "b"}
Words == [op : Ops, arg : Nat, to : Targets]
Windows == [1 .. Window -> Words]
Addresses == {AddressOf(f) : f \in Functions}
Entries == [address : Addresses, to : Targets, origin_chunk : Seq(Words)]

TypeOK ==
    /\ mem \in [Functions -> Windows]
    /\ list \in Seq(Entries)
    /\ \A i \in DOMAIN list : Len(list[i].origin_chunk) <= Window
    /\ near \in BOOLEAN /\ careful \in BOOLEAN
    /\ origin \in [Functions \X Replacements -> Seq(Words)]
    /\ relocated \in [Functions \X (1 .. MaxHooks) -> Seq(Words)]
    /\ calls \in 0 .. MaxHooks
    /\ used \in [Functions -> SUBSET (1 .. Window)]

(* Word k of f is w once the entries before i are undone, newest first: it *)
(* is what the last of them that covers it has saved.                      *)
Covers(f, j, k) == list[j].address = AddressOf(f) /\ k <= Len(list[j].origin_chunk)
Undone(f, i, k, w) ==
    /\ (\A j \in DOMAIN list : j < i => ~Covers(f, j, k)) => mem[f][k] = w
    /\ \A j \in DOMAIN list :
          /\ j < i /\ Covers(f, j, k)
          /\ \A m \in DOMAIN list : j < m /\ m < i => ~Covers(f, m, k)
          => list[j].origin_chunk[k] = w

(* Behind all entries is the function's own code, behind the ones before   *)
(* an entry its trampoline.                                                *)
UndoneIsOriginal ==
    \A f \in Functions, k \in 1 .. Window : Undone(f, Len(list) + 1, k, Original(f)[k])

LeadsTo(w, to) == w.op \in {"b", "add", "low"} /\ w.to = to
UndoneLeads ==
    \A f \in Functions : \A i \in DOMAIN list :
        list[i].address = AddressOf(f) =>
            \E k \in 1 .. Window, w \in Words : LeadsTo(w, list[i].to) /\ Undone(f, i, k, w)

-----------------------------------------------------------------------------
(* Lists and windows.                                                      *)

LEMMA Least ==
    ASSUME NEW T \in SUBSET Nat, T # {}
    PROVE  \E n \in T : \A m \in T : n <= m
<1> DEFINE R == OpToRel(<, Nat)
<1>1. IsWellFoundedOn(R, Nat)
    BY NatLessThanWellFounded
<1> HIDE DEF R
<1>2. PICK x \in T : \A y \in T : ~(<<y, x>> \in R)
    BY <1>1, WFMin
<1>3. \A y \in T : ~(y < x)
    BY <1>2 DEF R, OpToRel
<1> QED
    BY <1>3

(* The search finds the first entry of the address, 0 if there is none.    *)
LEMMA FindFirst ==
    ASSUME list \in Seq(Entries), NEW a, NEW i, i = find_hook_entry_node(a)
    PROVE  \/ i = 0 /\ \A j \in DOMAIN list : list[j].address # a
           \/ /\ i \in DOMAIN list /\ list[i].address = a
              /\ \A j \in DOMAIN list : list[j].address = a => i <= j
<1> DEFINE I == {j \in 1 .. Len(list) : list[j].address = a}
<1>1. i = IF I # {} THEN Min(I) ELSE 0
    BY DEF find_hook_entry_node, SelectInSeq
<1>2. DOMAIN list = 1 .. Len(list)
    OBVIOUS
<1>3. CASE I = {}
    BY <1>1, <1>2, <1>3
<1>4. CASE I # {}
    <2>0. I \in SUBSET Nat /\ \A m \in I : m \in DOMAIN list /\ list[m].address = a
        BY <1>2
    <2>3. \A m \in DOMAIN list : list[m].address = a => m \in I
        BY <1>2
    <2> HIDE DEF I
    <2>1. \E n \in I : \A m \in I : n <= m
        BY <1>4, <2>0, Least
    <2>2. i \in I /\ \A m \in I : i <= m
        BY <1>1, <1>4, <2>1 DEF Min
    <2> QED
        BY <2>0, <2>2, <2>3
<1> QED
    BY <1>3, <1>4

LEMMA PushFirst ==
    ASSUME list \in Seq(Entries), NEW e \in Entries
    PROVE  /\ AddHookEntry(e) \in Seq(Entries)
           /\ Len(AddHookEntry(e)) = Len(list) + 1
           /\ AddHookEntry(e)[1] = e
           /\ \A i \in DOMAIN list : AddHookEntry(e)[i + 1] = list[i]
           /\ \A i \in DOMAIN AddHookEntry(e) :
                 i # 1 => i - 1 \in DOMAIN list /\ AddHookEntry(e)[i] = list[i - 1]
    BY DEF AddHookEntry

LEMMA RemoveOne ==
    ASSUME NEW s \in Seq(Entries), NEW i \in DOMAIN s
    PROVE  /\ RemoveAt(s, i) \in Seq(Entries)
           /\ Len(RemoveAt(s, i)) = Len(s) - 1
           /\ \A j \in DOMAIN RemoveAt(s, i) :
                 /\ j < i => j \in DOMAIN s /\ RemoveAt(s, i)[j] = s[j]
                 /\ j >= i => j + 1 \in DOMAIN s /\ RemoveAt(s, i)[j] = s[j + 1]
<1> DEFINE a == SubSeq(s, 1, i - 1)  b == SubSeq(s, i + 1, Len(s))
<1>1. i \in 1 .. Len(s) /\ Len(s) \in Nat
    OBVIOUS
<1>2. a \in Seq(Entries) /\ Len(a) = i - 1 /\ \A j \in 1 .. i - 1 : a[j] = s[j]
    BY <1>1
<1>3. b \in Seq(Entries) /\ Len(b) = Len(s) - i /\ \A j \in 1 .. Len(s) - i : b[j] = s[j + i]
    BY <1>1
<1>4. RemoveAt(s, i) = a \o b
    BY DEF RemoveAt
<1> HIDE DEF a, b
<1> DEFINE c == a \o b
<1>5. /\ c \in Seq(Entries) /\ Len(c) = Len(s) - 1
      /\ \A j \in 1 .. Len(s) - 1 : c[j] = IF j <= i - 1 THEN a[j] ELSE b[j - (i - 1)]
    <2>1. /\ c \in Seq(Entries) /\ Len(c) = Len(a) + Len(b)
          /\ \A j \in 1 .. Len(a) + Len(b) : c[j] = IF j <= Len(a) THEN a[j] ELSE b[j - Len(a)]
        BY <1>2, <1>3, ConcatProperties
    <2>2. Len(a) + Len(b) = Len(s) - 1
        BY <1>1, <1>2, <1>3
    <2> HIDE DEF c
    <2> QED
        BY <1>2, <2>1, <2>2
<1> HIDE DEF c
<1>7. DOMAIN c = 1 .. Len(s) - 1 /\ DOMAIN s = 1 .. Len(s)
    BY <1>1, <1>5, LenProperties
<1>8. ASSUME NEW j \in 1 .. Len(s) - 1, j < i  PROVE j \in 1 .. Len(s) /\ c[j] = s[j]
    <2>1. j \in 1 .. i - 1 /\ j \in 1 .. Len(s) /\ j <= i - 1
        BY <1>1, <1>8
    <2> QED
        BY <1>2, <1>5, <2>1
<1>9. ASSUME NEW j \in 1 .. Len(s) - 1, j >= i  PROVE j + 1 \in 1 .. Len(s) /\ c[j] = s[j + 1]
    <2>1. /\ j - (i - 1) \in 1 .. Len(s) - i /\ j - (i - 1) + i = j + 1
          /\ j + 1 \in 1 .. Len(s) /\ ~(j <= i - 1)
        BY <1>1, <1>9
    <2>2. c[j] = b[j - (i - 1)]
        BY <1>5, <2>1
    <2> QED
        BY <1>3, <2>1, <2>2
<1> QED
    BY <1>4, <1>5, <1>7, <1>8, <1>9 DEF c

LEMMA Lengths ==
    \A n \in 1 .. Window : n \in 0 .. Window /\ n <= Window /\ n \in Nat
    BY DEF Window

LEMMA EntryFields ==
    ASSUME list \in Seq(Entries), NEW i \in DOMAIN list
    PROVE  /\ list[i] \in Entries /\ list[i].address \in Addresses /\ list[i].to \in Targets
           /\ list[i].origin_chunk \in Seq(Words) /\ Len(list[i].origin_chunk) \in Nat
<1>1. list[i] \in Entries
    OBVIOUS
<1> QED
    BY <1>1, LenProperties DEF Entries

LEMMA WindowIsSeq ==
    ASSUME NEW w \in Windows
    PROVE  w \in Seq(Words) /\ Len(w) = Window
<1>1. w \in [1 .. 4 -> Words] /\ DOMAIN w = 1 .. 4
    BY DEF Windows, Window
<1>2. w \in Seq(Words)
    BY <1>1, SeqDef
<1> QED
    BY <1>1, <1>2, LenProperties DEF Window

LEMMA SameWords ==
    ASSUME NEW v \in Windows, NEW w \in Windows, \A k \in 1 .. Window : v[k] = w[k]
    PROVE  v = w
<1>1. v \in Seq(Words) /\ w \in Seq(Words) /\ Len(v) = Window /\ Len(w) = Window
    BY WindowIsSeq
<1> QED
    BY <1>1, SeqEqual

LEMMA Prefix ==
    ASSUME NEW w \in Windows, NEW n \in 0 .. Window
    PROVE  /\ SubSeq(w, 1, n) \in Seq(Words)
           /\ Len(SubSeq(w, 1, n)) = n
           /\ \A k \in 1 .. n : SubSeq(w, 1, n)[k] = w[k]
<1>1. n \in Int /\ \A k \in 1 .. n : w[k] \in Words
    BY DEF Windows, Window
<1> QED
    BY <1>1, SubSeqProperties DEF Window

LEMMA Patch ==
    ASSUME NEW w \in Windows, NEW ws \in Seq(Words), Len(ws) <= Window
    PROVE  /\ ws \o SubSeq(w, Len(ws) + 1, Window) \in Windows
           /\ \A k \in 1 .. Window :
                 (ws \o SubSeq(w, Len(ws) + 1, Window))[k] = IF k <= Len(ws) THEN ws[k] ELSE w[k]
<1> DEFINE tail == SubSeq(w, Len(ws) + 1, Window)
<1>0. Len(ws) \in 0 .. 4
    <2>1. Len(ws) \in Nat
        OBVIOUS
    <2>2. Len(ws) <= 4
        BY DEF Window
    <2>3. \A n \in Nat : n <= 4 => n \in 0 .. 4
        OBVIOUS
    <2> QED
        BY <2>1, <2>2, <2>3, Zenon
<1>1. Len(ws) \in 0 .. 4 /\ Len(w) = 4 /\ w \in Seq(Words)
    <2>1. w \in Seq(Words) /\ Len(w) = Window
        BY WindowIsSeq
    <2> QED
        BY <1>0, <2>1 DEF Window
<1>2. tail \in Seq(Words) /\ Len(tail) = 4 - Len(ws) /\ \A k \in 1 .. 4 - Len(ws) : tail[k] = w[k + Len(ws)]
    <2>1. \A k \in Len(ws) + 1 .. 4 : w[k] \in Words
        BY <1>1 DEF Windows, Window
    <2> QED
        BY <1>1, <2>1, SubSeqProperties DEF Window
<1> HIDE DEF tail
<1>3. /\ ws \o tail \in Seq(Words) /\ Len(ws \o tail) = 4
      /\ \A k \in 1 .. 4 : (ws \o tail)[k] = IF k <= Len(ws) THEN ws[k] ELSE tail[k - Len(ws)]
    BY <1>1, <1>2
<1>4. \A k \in 1 .. 4 : k > Len(ws) => tail[k - Len(ws)] = w[k]
    BY <1>1, <1>2
<1>5. ws \o tail \in [1 .. 4 -> Words]
    BY <1>3, LenProperties
<1> QED
    BY <1>3, <1>4, <1>5 DEF tail, Windows, Window

-----------------------------------------------------------------------------
(* The steps of the API.                                                   *)

LEMMA TargetTypes ==
    /\ \A r \in Replacements : Replacement(r) \in Targets
    /\ \A h \in Handlers, n \in 1 .. MaxHooks : CreateClosureTrampoline(h, n) \in Targets
    /\ Nowhere \in Targets
    BY InterceptorAssumption DEF Replacement, CreateClosureTrampoline, Nowhere, Targets

LEMMA OriginalType ==
    \A f : Original(f) \in Windows /\ \A k \in 1 .. Window : Original(f)[k] = W("insn", k)
<1>1. \A k \in 1 .. 4 : W("insn", k) \in Words
    BY TargetTypes DEF W, Words, Ops
<1> QED
    BY <1>1 DEF Original, Windows, Window

LEMMA PairIsSeq == ASSUME NEW S, NEW a \in S, NEW b \in S PROVE <<a, b>> \in Seq(S)
    OBVIOUS

(* The three trampolines.                                                  *)
LEMMA Trampolines ==
    ASSUME NEW f \in Functions, NEW to \in Targets,
           NEW tramp \in GenerateTrampolineBuffer(f, to)
    PROVE  /\ tramp \in Seq(Words) /\ Len(tramp) \in 1 .. Window
           /\ \E k \in 1 .. Len(tramp) : LeadsTo(tramp[k], to)
<1>1. CASE tramp = <<W("ldr pc", 0), Lead("low", to)>>
    <2>1. W("ldr pc", 0) \in Words /\ Lead("low", to) \in Words
        BY TargetTypes DEF W, Lead, Words, Ops
    <2>2. tramp \in Seq(Words)
        BY <1>1, <2>1, PairIsSeq
    <2>3. Len(tramp) = 2 /\ tramp[2] = Lead("low", to)
        BY <1>1
    <2> QED
        BY <2>2, <2>3 DEF Lead, LeadsTo, Window
<1>2. CASE tramp = <<W("ldr", 2), W("br", 0), Lead("low", to), Lead("high", to)>>
    <2>1. tramp \in Seq(Words) /\ Len(tramp) = 4 /\ tramp[3] = Lead("low", to)
        BY <1>2, TargetTypes DEF W, Lead, Words, Ops
    <2> QED
        BY <2>1 DEF Lead, LeadsTo, Window
<1>3. CASE tramp = <<Lead("adrp", to), Lead("add", to), W("br", 0)>>
    <2>1. tramp \in Seq(Words) /\ Len(tramp) = 3 /\ tramp[2] = Lead("add", to)
        BY <1>3, TargetTypes DEF W, Lead, Words, Ops
    <2> QED
        BY <2>1 DEF Lead, LeadsTo, Window
<1>4. CASE tramp = <<Lead("b", to)>>
    <2>1. tramp \in Seq(Words) /\ Len(tramp) = 1 /\ tramp[1] = Lead("b", to)
        BY <1>4, TargetTypes DEF W, Lead, Words, Ops
    <2> QED
        BY <2>1 DEF Lead, LeadsTo, Window
<1> QED
    BY <1>1, <1>2, <1>3, <1>4
    DEF GenerateTrampolineBuffer, GenerateNormalTrampolineBuffer, NearTrampoline

(* What a step does to code and list: a hook pushed, a hook popped, on arm *)
(* a hook torn but left in the list, or nothing.                           *)
OthersKept(f) == mem' \in [Functions -> Windows] /\ \A g \in Functions : g # f => mem'[g] = mem[g]

Pushed(f, to, tramp) ==
    /\ OthersKept(f)
    /\ \A k \in 1 .. Window : mem'[f][k] = IF k <= Len(tramp) THEN tramp[k] ELSE mem[f][k]
    /\ list' \in Seq(Entries) /\ Len(list') = Len(list) + 1
    /\ list'[1].address = AddressOf(f) /\ list'[1].to = to
    /\ Len(list'[1].origin_chunk) = Len(tramp)
    /\ \A k \in 1 .. Len(tramp) : list'[1].origin_chunk[k] = mem[f][k]
    /\ \A i \in DOMAIN list : list'[i + 1] = list[i]

Popped(f, i) ==
    /\ i \in DOMAIN list /\ list[i].address = AddressOf(f)
    /\ \A j \in DOMAIN list : list[j].address = AddressOf(f) => i <= j
    /\ OthersKept(f)
    /\ \A k \in 1 .. Window :
          mem'[f][k] = IF k <= Len(list[i].origin_chunk) THEN list[i].origin_chunk[k] ELSE mem[f][k]
    /\ list' \in Seq(Entries) /\ Len(list') = Len(list) - 1
    /\ \A j \in DOMAIN list' : list'[j] = IF j < i THEN list[j] ELSE list[j + 1]

Torn(f, i) ==
    /\ i \in DOMAIN list /\ list[i].address = AddressOf(f)
    /\ OthersKept(f)
    /\ \A k \in 1 .. Window : k > Len(list[i].origin_chunk) => mem'[f][k] = mem[f][k]
    /\ list' = list

LEMMA InstallPushes ==
    ASSUME TypeOK, NEW f \in Functions, NEW to \in Targets,
           NEW tramp \in GenerateTrampolineBuffer(f, to), Install(f, to, tramp)
    PROVE  Pushed(f, to, tramp)
<1>1. tramp \in Seq(Words) /\ Len(tramp) \in 1 .. Window
    BY Trampolines
<1>2. Len(tramp) <= Window /\ Len(tramp) \in 0 .. Window
    BY <1>1, Lengths, Zenon
<1>3. mem[f] \in Windows
    BY DEF TypeOK
<1>4. /\ CodePatch(f, tramp) \in Windows
      /\ \A k \in 1 .. Window :
            CodePatch(f, tramp)[k] = IF k <= Len(tramp) THEN tramp[k] ELSE mem[f][k]
    BY <1>1, <1>2, <1>3, Patch DEF CodePatch
<1>5. mem' = [mem EXCEPT ![f] = CodePatch(f, tramp)]
    BY DEF Install
<1> DEFINE chunk == OriginChunk(f, Len(tramp))
           e == [address |-> AddressOf(f), to |-> to, origin_chunk |-> chunk]
<1>6. chunk \in Seq(Words) /\ Len(chunk) = Len(tramp) /\ \A k \in 1 .. Len(tramp) : chunk[k] = mem[f][k]
    BY <1>2, <1>3, Prefix DEF OriginChunk
<1>7. e \in Entries
    BY <1>6 DEF Entries, Addresses
<1>8. list' = AddHookEntry(e) /\ list \in Seq(Entries)
    BY DEF Install, TypeOK
<1>9. OthersKept(f) /\ mem'[f] = CodePatch(f, tramp)
    BY <1>4, <1>5 DEF TypeOK, OthersKept
<1>10. e.address = AddressOf(f) /\ e.to = to /\ e.origin_chunk = chunk
    OBVIOUS
<1> HIDE DEF chunk, e
<1> QED
    BY <1>4, <1>6, <1>7, <1>8, <1>9, <1>10, PushFirst DEF Pushed

LEMMA DestroyPops ==
    ASSUME TypeOK, NEW f \in Functions, DobbyDestroy(f)
    PROVE  \/ UNCHANGED <<mem, list>>
           \/ Arch = "arm64" /\ \E i \in DOMAIN list : Popped(f, i)
           \/ Arch = "arm" /\ \E i \in DOMAIN list : Torn(f, i)
<1> DEFINE i == find_hook_entry_node(AddressOf(f))
           address == DestroyAddress(AddressOf(f))
<1>1. list \in Seq(Entries) /\ mem[f] \in Windows /\ mem \in [Functions -> Windows]
    BY DEF TypeOK
<1>2. \/ i = 0 /\ \A j \in DOMAIN list : list[j].address # AddressOf(f)
      \/ /\ i \in DOMAIN list /\ list[i].address = AddressOf(f)
         /\ \A j \in DOMAIN list : list[j].address = AddressOf(f) => i <= j
    BY <1>1, FindFirst
<1>3. CASE i = 0
    BY <1>3 DEF DobbyDestroy
<1>4. CASE i # 0
    <2>1. /\ mem' = [mem EXCEPT ![f] = Restored(address, list[i].origin_chunk)]
          /\ list' = RemoveHookEntry(address)
        BY <1>4 DEF DobbyDestroy
    <2>2. i \in DOMAIN list /\ list[i].address = AddressOf(f)
        BY <1>2, <1>4
    <2> DEFINE chunk == list[i].origin_chunk
    <2>3. chunk \in Seq(Words) /\ Len(chunk) <= Window /\ Len(chunk) \in Nat
        BY <1>1, <2>2, EntryFields DEF TypeOK
    <2>4. CASE Arch = "arm64"
        <3>1. address = AddressOf(f) /\ address[1] = f /\ address[2] = 0
            BY <2>4, InterceptorAssumption DEF DestroyAddress, AddressOf
        <3>2. Restored(address, chunk) = CodePatch(f, chunk)
            BY <3>1 DEF Restored
        <3>3. /\ CodePatch(f, chunk) \in Windows
              /\ \A k \in 1 .. Window : CodePatch(f, chunk)[k] = IF k <= Len(chunk) THEN chunk[k] ELSE mem[f][k]
            BY <1>1, <2>3, Patch DEF CodePatch
        <3>4. list' = RemoveAt(list, i)
            BY <1>4, <2>1, <3>1 DEF RemoveHookEntry
        <3>5. /\ list' \in Seq(Entries) /\ Len(list') = Len(list) - 1
              /\ \A j \in DOMAIN list' : list'[j] = IF j < i THEN list[j] ELSE list[j + 1]
            BY <1>1, <2>2, <3>4, RemoveOne
        <3>6. OthersKept(f) /\ mem'[f] = CodePatch(f, chunk)
            BY <1>1, <2>1, <3>2, <3>3 DEF OthersKept
        <3> QED
            BY <1>2, <1>4, <2>2, <2>4, <3>3, <3>5, <3>6 DEF Popped
    <2>5. CASE Arch = "arm"
        <3>1. address = <<f, (IF f \in Thumb THEN 1 ELSE 0) - 1>>
            BY <2>5 DEF DestroyAddress, AddressOf
        <3>2. \A g \in Functions : AddressOf(g) # address
            BY <3>1 DEF AddressOf
        <3>3. \A j \in DOMAIN list : list[j].address # address
            BY <1>1, <3>2, EntryFields DEF Addresses
        <3>4. find_hook_entry_node(address) = 0
            BY <1>1, <3>3, FindFirst
        <3>5. list' = list
            BY <2>1, <3>4 DEF RemoveHookEntry
        <3> DEFINE torn == [k \in 1 .. Len(chunk) |-> W("torn", k)]
        <3>6. torn \in Seq(Words) /\ Len(torn) = Len(chunk)
            <4>1. \A k \in Nat : W("torn", k) \in Words
                BY TargetTypes DEF W, Words, Ops
            <4>2. torn \in [1 .. Len(chunk) -> Words] /\ DOMAIN torn = 1 .. Len(chunk)
                BY <2>3, <4>1
            <4>3. torn \in Seq(Words)
                BY <2>3, <4>2, SeqDef
            <4> QED
                BY <2>3, <4>2, <4>3, LenProperties
        <3> HIDE DEF torn
        <3>a. ASSUME NEW ws \in Seq(Words), Len(ws) = Len(chunk)
              PROVE  /\ CodePatch(f, ws) \in Windows
                     /\ \A k \in 1 .. Window : k > Len(chunk) => CodePatch(f, ws)[k] = mem[f][k]
            <4>1. /\ CodePatch(f, ws) \in Windows
                  /\ \A k \in 1 .. Window : CodePatch(f, ws)[k] = IF k <= Len(ws) THEN ws[k] ELSE mem[f][k]
                BY <1>1, <2>3, <3>a, Patch DEF CodePatch
            <4>2. \A k \in 1 .. Window, n \in Nat : k > n => ~(k <= n)
                BY DEF Window
            <4> QED
                BY <2>3, <3>a, <4>1, <4>2
        <3>7. /\ CodePatch(f, torn) \in Windows
              /\ \A k \in 1 .. Window : k > Len(chunk) => CodePatch(f, torn)[k] = mem[f][k]
            BY <3>6, <3>a
        <3>8. /\ CodePatch(f, chunk) \in Windows
              /\ \A k \in 1 .. Window : k > Len(chunk) => CodePatch(f, chunk)[k] = mem[f][k]
            BY <2>3, <3>a
        <3>9. Restored(address, chunk) \in {CodePatch(f, chunk), CodePatch(f, torn)}
            BY <3>1 DEF Restored, torn
        <3>10. OthersKept(f) /\ mem'[f] = Restored(address, chunk)
            BY <1>1, <2>1, <3>7, <3>8, <3>9 DEF OthersKept
        <3> QED
            BY <2>2, <2>5, <3>5, <3>7, <3>8, <3>9, <3>10 DEF Torn
    <2> QED
        BY <2>4, <2>5, InterceptorAssumption
<1> QED
    BY <1>3, <1>4

-----------------------------------------------------------------------------
(* A word that lies under some entries lies under them after a push, and   *)
(* under those of them that are left after a pop.                          *)

LEMMA AddressesDiffer ==
    \A f, g \in Functions : AddressOf(f) = AddressOf(g) => f = g
    BY DEF AddressOf

LEMMA PushKeepsUndone ==
    ASSUME TypeOK, NEW f \in Functions, NEW to, NEW tramp, Len(tramp) \in 1 .. Window,
           Pushed(f, to, tramp),
           NEW g \in Functions, NEW k \in 1 .. Window, NEW w,
           NEW n \in 1 .. Len(list) + 1, Undone(g, n, k, w)
    PROVE  Undone(g, n + 1, k, w)'
<1>1. /\ Len(list) \in Nat /\ DOMAIN list = 1 .. Len(list)
      /\ Len(list') = Len(list) + 1 /\ DOMAIN list' = 1 .. Len(list) + 1
      /\ n \in Nat /\ k \in Nat /\ Len(tramp) \in Nat
    BY DEF TypeOK, Pushed, Window
<1>2. \A j \in DOMAIN list : j + 1 \in DOMAIN list' /\ list'[j + 1] = list[j]
    BY <1>1 DEF Pushed
<1>3. \A j \in DOMAIN list' : j # 1 => j - 1 \in DOMAIN list /\ list'[j] = list[j - 1]
    <2> TAKE j \in DOMAIN list'
    <2> HAVE j # 1
    <2>1. j - 1 \in DOMAIN list /\ (j - 1) + 1 = j
        BY <1>1
    <2> QED
        BY <1>2, <2>1
<1>4. \A j \in DOMAIN list : Covers(g, j, k) <=> Covers(g, j + 1, k)'
    BY <1>2 DEF Covers
<1>5. \A j \in DOMAIN list' : j # 1 => (Covers(g, j, k)' <=> Covers(g, j - 1, k))
    BY <1>3 DEF Covers
<1>6. Covers(g, 1, k)' <=> g = f /\ k <= Len(tramp)
    BY AddressesDiffer DEF Covers, Pushed
<1>7. Covers(g, 1, k)' => list'[1].origin_chunk[k] = mem[g][k]
    <2>1. k <= Len(tramp) => k \in 1 .. Len(tramp)
        BY <1>1
    <2> QED
        BY <1>6, <2>1 DEF Pushed
<1>8. ~Covers(g, 1, k)' => mem'[g][k] = mem[g][k]
    BY <1>6 DEF Pushed, OthersKept
<1>9. (\A j \in DOMAIN list : j < n => ~Covers(g, j, k)) => mem[g][k] = w
    BY DEF Undone
<1>10. ASSUME \A j \in DOMAIN list' : j < n + 1 => ~Covers(g, j, k)'
       PROVE  mem'[g][k] = w
    <2>1. \A j \in DOMAIN list : j < n => ~Covers(g, j, k)
        BY <1>1, <1>2, <1>4, <1>10
    <2>2. ~Covers(g, 1, k)'
        BY <1>1, <1>10
    <2> QED
        BY <1>8, <1>9, <2>1, <2>2
<1>11. ASSUME NEW j \in DOMAIN list', j < n + 1, Covers(g, j, k)',
              \A m \in DOMAIN list' : j < m /\ m < n + 1 => ~Covers(g, m, k)'
       PROVE  list'[j].origin_chunk[k] = w
    <2>1. \A m \in DOMAIN list : j < m + 1 /\ m < n => ~Covers(g, m, k)
        BY <1>1, <1>2, <1>4, <1>11
    <2>2. CASE j = 1
        <3>1. \A m \in DOMAIN list : m < n => ~Covers(g, m, k)
            BY <1>1, <2>1, <2>2
        <3> QED
            BY <1>7, <1>9, <1>11, <2>2, <3>1
    <2>3. CASE j # 1
        <3>1. j - 1 \in DOMAIN list /\ list'[j] = list[j - 1] /\ Covers(g, j - 1, k)
            BY <1>3, <1>5, <1>11, <2>3
        <3>2. j - 1 < n /\ \A m \in DOMAIN list : j - 1 < m /\ m < n => ~Covers(g, m, k)
            BY <1>1, <1>11, <2>1
        <3>3. list[j - 1].origin_chunk[k] = w
            BY <3>1, <3>2 DEF Undone
        <3> QED
            BY <3>1, <3>3
    <2> QED
        BY <2>2, <2>3
<1> QED
    BY <1>10, <1>11 DEF Undone

LEMMA PopKeepsUndone ==
    ASSUME TypeOK, NEW f \in Functions, NEW i \in DOMAIN list, Popped(f, i),
           NEW g \in Functions, NEW k \in 1 .. Window, NEW w,
           NEW n \in 1 .. Len(list) + 1, g = f => n > i, Undone(g, n, k, w)
    PROVE  Undone(g, IF n > i THEN n - 1 ELSE n, k, w)'
<1> DEFINE p == IF n > i THEN n - 1 ELSE n
<1>1. /\ Len(list) \in Nat /\ DOMAIN list = 1 .. Len(list)
      /\ DOMAIN list' = 1 .. Len(list) - 1
      /\ n \in Nat /\ k \in Nat /\ i \in Nat /\ p \in Nat
    BY DEF TypeOK, Popped, Window
<1>2. \A j \in DOMAIN list : j < i => j \in DOMAIN list' /\ list'[j] = list[j]
    BY <1>1 DEF Popped
<1>3. \A j \in DOMAIN list : j > i => j - 1 \in DOMAIN list' /\ list'[j - 1] = list[j]
    <2> TAKE j \in DOMAIN list
    <2> HAVE j > i
    <2>1. j - 1 \in DOMAIN list' /\ ~(j - 1 < i) /\ (j - 1) + 1 = j
        BY <1>1
    <2> QED
        BY <2>1 DEF Popped
<1>4. \A j \in DOMAIN list' : /\ j < i => j \in DOMAIN list /\ list'[j] = list[j]
                              /\ j >= i => j + 1 \in DOMAIN list /\ list'[j] = list[j + 1]
    BY <1>1 DEF Popped
<1>5. \A j \in DOMAIN list : /\ j < i => (Covers(g, j, k) <=> Covers(g, j, k)')
                             /\ j > i => (Covers(g, j, k) <=> Covers(g, j - 1, k)')
    BY <1>2, <1>3 DEF Covers
<1>6. \A j \in DOMAIN list' : /\ j < i => (Covers(g, j, k)' <=> Covers(g, j, k))
                              /\ j >= i => (Covers(g, j, k)' <=> Covers(g, j + 1, k))
    BY <1>4 DEF Covers
<1>7. Covers(g, i, k) => g = f /\ k <= Len(list[i].origin_chunk)
    BY AddressesDiffer DEF Covers, Popped
<1>8. Covers(g, i, k) => mem'[g][k] = list[i].origin_chunk[k]
    BY <1>7 DEF Popped
<1>9. ~Covers(g, i, k) => mem'[g][k] = mem[g][k]
    BY DEF Covers, Popped, OthersKept
<1>10. g = f => \A j \in DOMAIN list : Covers(g, j, k) => j >= i
    BY <1>1 DEF Covers, Popped
<1> HIDE DEF p
<1>11. /\ n > i => p = n - 1
       /\ n <= i => p = n
    BY <1>1 DEF p
<1>12. ASSUME \A j \in DOMAIN list' : j < p => ~Covers(g, j, k)'
       PROVE  mem'[g][k] = w
    <2>1. \A j \in DOMAIN list : j < n /\ j # i => ~Covers(g, j, k)
        BY <1>1, <1>2, <1>3, <1>5, <1>11, <1>12
    <2>2. CASE Covers(g, i, k)
        <3>1. i < n /\ \A m \in DOMAIN list : i < m /\ m < n => ~Covers(g, m, k)
            BY <1>1, <1>7, <2>1, <2>2
        <3>2. list[i].origin_chunk[k] = w
            BY <2>2, <3>1 DEF Undone
        <3> QED
            BY <1>8, <2>2, <3>2
    <2>3. CASE ~Covers(g, i, k)
        <3>1. \A j \in DOMAIN list : j < n => ~Covers(g, j, k)
            BY <2>1, <2>3
        <3> QED
            BY <1>9, <2>3, <3>1 DEF Undone
    <2> QED
        BY <2>2, <2>3
<1>13. ASSUME NEW j \in DOMAIN list', j < p, Covers(g, j, k)',
              \A m \in DOMAIN list' : j < m /\ m < p => ~Covers(g, m, k)'
       PROVE  list'[j].origin_chunk[k] = w
    <2>1. CASE j >= i
        <3>1. j + 1 \in DOMAIN list /\ list'[j] = list[j + 1] /\ Covers(g, j + 1, k) /\ j + 1 < n
            BY <1>1, <1>4, <1>6, <1>11, <1>13, <2>1
        <3>2. ASSUME NEW m \in DOMAIN list, j + 1 < m, m < n PROVE ~Covers(g, m, k)
            <4>1. m > i /\ m - 1 \in DOMAIN list' /\ j < m - 1 /\ m - 1 < p
                BY <1>1, <1>11, <2>1, <3>2
            <4> QED
                BY <1>5, <1>13, <4>1
        <3> QED
            BY <3>1, <3>2 DEF Undone
    <2>2. CASE j < i
        <3>1. j \in DOMAIN list /\ list'[j] = list[j] /\ Covers(g, j, k) /\ j < n
            BY <1>1, <1>4, <1>6, <1>11, <1>13, <2>2
        <3>2. g # f
            BY <1>1, <1>10, <2>2, <3>1
        <3>3. ~Covers(g, i, k)
            BY <1>7, <3>2
        <3>4. ASSUME NEW m \in DOMAIN list, j < m, m < n PROVE ~Covers(g, m, k)
            <4>1. CASE m < i
                BY <1>1, <1>2, <1>5, <1>11, <1>13, <3>4, <4>1
            <4>2. CASE m > i
                <5>1. m - 1 \in DOMAIN list' /\ j < m - 1 /\ m - 1 < p
                    BY <1>1, <1>3, <1>11, <2>2, <3>4, <4>2
                <5> QED
                    BY <1>5, <1>13, <4>2, <5>1
            <4> QED
                BY <1>1, <3>3, <4>1, <4>2
        <3> QED
            BY <3>1, <3>4 DEF Undone
    <2> QED
        BY <1>1, <2>1, <2>2
<1> QED
    BY <1>12, <1>13 DEF Undone, p

-----------------------------------------------------------------------------
(* Every step of the specification, by what it does to code and list.      *)

NoHook == UNCHANGED <<mem, list>>

LEMMA StepEffect ==
    ASSUME TypeOK, Next
    PROVE  \/ NoHook
           \/ \E f \in Functions : \E to \in Targets : \E tramp \in GenerateTrampolineBuffer(f, to) :
                 Install(f, to, tramp)
           \/ \E f \in Functions : DobbyDestroy(f)
<1>1. ASSUME NEW f \in Functions, NEW r \in Replacements, DobbyHook(f, r)
      PROVE  \/ NoHook
             \/ \E tramp \in GenerateTrampolineBuffer(f, Replacement(r)) : Install(f, Replacement(r), tramp)
    BY <1>1 DEF DobbyHook, Refuse, NoHook
<1>2. ASSUME NEW f \in Functions, NEW h \in Handlers, DobbyInstrument(f, h)
      PROVE  \/ NoHook
             \/ \E to \in Targets : \E tramp \in GenerateTrampolineBuffer(f, to) : Install(f, to, tramp)
    <2>1. CASE AlreadyInstrumented(f, h)
        BY <1>2, <2>1 DEF DobbyInstrument, Refuse, NoHook
    <2>2. CASE ~AlreadyInstrumented(f, h)
        <3> DEFINE to == CreateClosureTrampoline(h, calls + 1)
        <3>1. PICK tramp \in GenerateTrampolineBuffer(f, to) : Install(f, to, tramp)
            BY <1>2, <2>2 DEF DobbyInstrument, InstrumentRoute
        <3>2. calls + 1 \in 1 .. MaxHooks
            BY <3>1, InterceptorAssumption DEF Install, TypeOK
        <3> QED
            BY <3>1, <3>2, TargetTypes
    <2> QED
        BY <2>1, <2>2
<1>3. CASE DobbyHookNull \/ dobby_enable_near_branch_trampoline \/ dobby_disable_near_branch_trampoline
    BY <1>3 DEF DobbyHookNull, Refuse, SetPlugin, NoHook, dobby_enable_near_branch_trampoline,
                dobby_disable_near_branch_trampoline
<1>4. CASE Run \/ \E f \in Functions : Call(f)
    BY <1>4 DEF Run, Step, CallOrigin, Return, Call, CoreOnly, NoHook
<1> QED
    BY <1>1, <1>2, <1>3, <1>4, TargetTypes DEF Next

LEMMA TypeStep == TypeOK /\ [Next]_vars => TypeOK'
<1> SUFFICES ASSUME TypeOK, [Next]_vars PROVE TypeOK'
    OBVIOUS
<1>1. ASSUME NEW f \in Functions, NEW to \in Targets, NEW tramp \in GenerateTrampolineBuffer(f, to),
             Install(f, to, tramp)
      PROVE  /\ mem' \in [Functions -> Windows] /\ list' \in Seq(Entries)
             /\ \A i \in DOMAIN list' : Len(list'[i].origin_chunk) <= Window
             /\ near' \in BOOLEAN /\ careful' \in BOOLEAN /\ calls' \in 0 .. MaxHooks
             /\ used' \in [Functions -> SUBSET (1 .. Window)]
             /\ OriginChunk(f, Len(tramp)) \in Seq(Words)
    <2>1. Pushed(f, to, tramp)
        BY <1>1, InstallPushes
    <2>2. tramp \in Seq(Words) /\ Len(tramp) \in 1 .. Window
        BY Trampolines
    <2>3. \A i \in DOMAIN list' : i # 1 => i - 1 \in DOMAIN list /\ list'[i] = list[i - 1]
        <3> TAKE i \in DOMAIN list'
        <3> HAVE i # 1
        <3>1. i - 1 \in DOMAIN list /\ (i - 1) + 1 = i
            BY <2>1 DEF TypeOK, Pushed
        <3> QED
            BY <2>1, <3>1 DEF Pushed
    <2>4. Len(list'[1].origin_chunk) <= Window
        BY <2>1, <2>2, Lengths DEF Pushed
    <2>5. \A i \in DOMAIN list' : Len(list'[i].origin_chunk) <= Window
        BY <2>3, <2>4 DEF TypeOK
    <2>6. calls' \in 0 .. MaxHooks /\ near' \in BOOLEAN /\ careful' \in BOOLEAN
        BY <1>1, InterceptorAssumption DEF Install, TypeOK
    <2>7. used' \in [Functions -> SUBSET (1 .. Window)]
        BY <1>1, <2>2 DEF Install, TypeOK
    <2>8. OriginChunk(f, Len(tramp)) \in Seq(Words)
        <3>1. mem[f] \in Windows /\ Len(tramp) \in 0 .. Window
            BY <2>2, Lengths DEF TypeOK
        <3> QED
            BY <3>1, Prefix DEF OriginChunk
    <2> QED
        BY <2>1, <2>5, <2>6, <2>7, <2>8 DEF Pushed, OthersKept
<1>2. ASSUME NEW f \in Functions, NEW r \in Replacements, DobbyHook(f, r) PROVE TypeOK'
    <2>1. CASE AlreadyHooked(f, r)
        BY <1>2, <2>1, InterceptorAssumption DEF DobbyHook, Refuse, TypeOK
    <2>2. CASE ~AlreadyHooked(f, r)
        <3>1. PICK tramp \in GenerateTrampolineBuffer(f, Replacement(r)) :
                 /\ Install(f, Replacement(r), tramp)
                 /\ origin' = [origin EXCEPT ![<<f, r>>] = OriginChunk(f, Len(tramp))]
                 /\ UNCHANGED relocated
            BY <1>2, <2>2 DEF DobbyHook
        <3>2. origin' \in [Functions \X Replacements -> Seq(Words)]
            BY <1>1, <3>1, TargetTypes DEF TypeOK
        <3> QED
            BY <1>1, <3>1, <3>2, TargetTypes DEF TypeOK
    <2> QED
        BY <2>1, <2>2
<1>3. ASSUME NEW f \in Functions, NEW h \in Handlers, DobbyInstrument(f, h) PROVE TypeOK'
    <2>1. CASE AlreadyInstrumented(f, h)
        BY <1>3, <2>1, InterceptorAssumption DEF DobbyInstrument, Refuse, TypeOK
    <2>2. CASE ~AlreadyInstrumented(f, h)
        <3> DEFINE to == CreateClosureTrampoline(h, calls + 1)
        <3>1. PICK tramp \in GenerateTrampolineBuffer(f, to) :
                 /\ Install(f, to, tramp)
                 /\ relocated' = [relocated EXCEPT ![<<f, to.entry>>] = OriginChunk(f, Len(tramp))]
                 /\ UNCHANGED origin
            BY <1>3, <2>2 DEF DobbyInstrument, InstrumentRoute
        <3>2. calls + 1 \in 1 .. MaxHooks
            BY <3>1, InterceptorAssumption DEF Install, TypeOK
        <3>3. to \in Targets
            BY <3>2, TargetTypes
        <3>4. relocated' \in [Functions \X (1 .. MaxHooks) -> Seq(Words)]
            BY <1>1, <3>1, <3>3 DEF TypeOK
        <3> HIDE DEF to
        <3> QED
            BY <1>1, <3>1, <3>3, <3>4 DEF TypeOK
    <2> QED
        BY <2>1, <2>2
<1>4. ASSUME NEW f \in Functions, DobbyDestroy(f) PROVE TypeOK'
    <2>1. UNCHANGED <<near, origin, relocated, calls, used, careful>>
        BY <1>4 DEF DobbyDestroy
    <2>2. CASE UNCHANGED <<mem, list>>
        BY <2>1, <2>2 DEF TypeOK
    <2>3. ASSUME NEW i \in DOMAIN list, Popped(f, i) PROVE TypeOK'
        <3>1. \A j \in DOMAIN list' : \E m \in DOMAIN list : list'[j] = list[m]
            BY <2>3 DEF TypeOK, Popped
        <3>2. \A j \in DOMAIN list' : Len(list'[j].origin_chunk) <= Window
            BY <3>1 DEF TypeOK
        <3> QED
            BY <2>1, <2>3, <3>2 DEF TypeOK, Popped, OthersKept
    <2>4. ASSUME NEW i \in DOMAIN list, Torn(f, i) PROVE TypeOK'
        BY <2>1, <2>4 DEF TypeOK, Torn, OthersKept
    <2> QED
        BY <1>4, <2>2, <2>3, <2>4, DestroyPops
<1>5. CASE DobbyHookNull \/ dobby_enable_near_branch_trampoline \/ dobby_disable_near_branch_trampoline
    <2>1. CASE DobbyHookNull
        BY <2>1, InterceptorAssumption DEF DobbyHookNull, Refuse, TypeOK
    <2>2. ASSUME NEW b \in BOOLEAN, SetPlugin(b) PROVE TypeOK'
        BY <2>2 DEF SetPlugin, TypeOK
    <2> QED
        BY <1>5, <2>1, <2>2
        DEF dobby_enable_near_branch_trampoline, dobby_disable_near_branch_trampoline
<1>6. CASE Run \/ (\E f \in Functions : Call(f)) \/ UNCHANGED vars
    BY <1>6 DEF Run, Step, CallOrigin, Return, Call, CoreOnly, TypeOK, vars
<1> QED
    BY <1>2, <1>3, <1>4, <1>5, <1>6 DEF Next

LEMMA InitType == Init => TypeOK
<1> SUFFICES ASSUME Init PROVE TypeOK
    OBVIOUS
<1>1. mem \in [Functions -> Windows]
    BY OriginalType DEF Init
<1>2. list \in Seq(Entries) /\ DOMAIN list = {}
    BY DEF Init
<1>3. <<>> \in Seq(Words)
    OBVIOUS
<1>4. origin \in [Functions \X Replacements -> Seq(Words)] /\ relocated \in [Functions \X (1 .. MaxHooks) -> Seq(Words)]
    BY <1>3 DEF Init
<1>5. calls \in 0 .. MaxHooks
    BY InterceptorAssumption DEF Init
<1>6. near \in BOOLEAN /\ careful \in BOOLEAN /\ used \in [Functions -> SUBSET (1 .. Window)]
    BY DEF Init
<1> QED
    BY <1>1, <1>2, <1>4, <1>5, <1>6 DEF TypeOK

-----------------------------------------------------------------------------
(* The code of a function under its hooks.                                 *)

UndoInv == UndoneIsOriginal /\ (Arch = "arm64" => UndoneLeads)

LEMMA InitUndo == Init => UndoInv
<1> SUFFICES ASSUME Init PROVE UndoInv
    OBVIOUS
<1>1. DOMAIN list = {} /\ \A f \in Functions : mem[f] = Original(f)
    BY DEF Init
<1> QED
    BY <1>1 DEF UndoInv, UndoneIsOriginal, UndoneLeads, Undone

LEMMA UndoStep == TypeOK /\ UndoInv /\ [Next]_vars => UndoInv'
<1> SUFFICES ASSUME TypeOK, UndoInv, [Next]_vars PROVE UndoInv'
    OBVIOUS
<1>0. Len(list) \in Nat /\ DOMAIN list = 1 .. Len(list) /\ Len(list) + 1 \in 1 .. Len(list) + 1
    BY DEF TypeOK
<1>1. ASSUME NoHook PROVE UndoInv'
    BY <1>1 DEF NoHook, UndoInv, UndoneIsOriginal, UndoneLeads, Undone, Covers
<1>2. ASSUME NEW f \in Functions, NEW to \in Targets, NEW tramp \in GenerateTrampolineBuffer(f, to),
             Install(f, to, tramp)
      PROVE  UndoInv'
    <2>1. Pushed(f, to, tramp) /\ Len(tramp) \in 1 .. Window /\ tramp \in Seq(Words)
        BY <1>2, InstallPushes, Trampolines
    <2>2. Len(list') = Len(list) + 1 /\ DOMAIN list' = 1 .. Len(list) + 1
        BY <1>0, <2>1 DEF Pushed
    <2>3. UndoneIsOriginal'
        <3> SUFFICES ASSUME NEW g \in Functions, NEW k \in 1 .. Window
                     PROVE  Undone(g, Len(list) + 1, k, Original(g)[k])'
            BY DEF UndoneIsOriginal
        <3>1. PICK n \in 1 .. Len(list) + 1 : n = Len(list) + 1
            BY <1>0
        <3>2. Undone(g, n, k, Original(g)[k])
            BY <3>1 DEF UndoInv, UndoneIsOriginal
        <3>3. Undone(g, n + 1, k, Original(g)[k])'
            BY <2>1, <3>2, PushKeepsUndone
        <3> QED
            BY <2>2, <3>1, <3>3
    <2>4. ASSUME Arch = "arm64" PROVE UndoneLeads'
        <3> SUFFICES ASSUME NEW g \in Functions, NEW i \in DOMAIN list', list'[i].address = AddressOf(g)
                     PROVE  \E k \in 1 .. Window, w \in Words : LeadsTo(w, list'[i].to) /\ Undone(g, i, k, w)'
            BY DEF UndoneLeads, LeadsTo
        <3>1. CASE i = 1
            <4>1. g = f /\ list'[i].to = to
                BY <2>1, <3>1, AddressesDiffer DEF Pushed
            <4>2. PICK k \in 1 .. Len(tramp) : LeadsTo(tramp[k], to)
                BY Trampolines
            <4>3. k \in 1 .. Window /\ k <= Len(tramp) /\ tramp[k] \in Words
                BY <2>1 DEF Window
            <4>4. mem'[g][k] = tramp[k]
                BY <2>1, <4>1, <4>3 DEF Pushed
            <4>5. Undone(g, i, k, tramp[k])'
                BY <2>2, <3>1, <4>4, <1>0 DEF Undone
            <4> QED
                BY <4>1, <4>2, <4>3, <4>5
        <3>2. CASE i # 1
            <4>1. i - 1 \in DOMAIN list /\ (i - 1) + 1 = i /\ i - 1 \in 1 .. Len(list) + 1
                BY <1>0, <2>2, <3>2
            <4>2. list'[i] = list[i - 1]
                BY <2>1, <4>1 DEF Pushed
            <4>3. PICK k \in 1 .. Window, w \in Words : LeadsTo(w, list[i - 1].to) /\ Undone(g, i - 1, k, w)
                BY <2>4, <4>1, <4>2 DEF UndoInv, UndoneLeads
            <4>4. Undone(g, (i - 1) + 1, k, w)'
                BY <2>1, <4>1, <4>3, PushKeepsUndone
            <4> QED
                BY <4>1, <4>2, <4>3, <4>4
        <3> QED
            BY <3>1, <3>2
    <2> QED
        BY <2>3, <2>4 DEF UndoInv
<1>3. ASSUME NEW f \in Functions, NEW i \in DOMAIN list, Popped(f, i) PROVE UndoInv'
    <2>1. Len(list') = Len(list) - 1 /\ DOMAIN list' = 1 .. Len(list) - 1 /\ i \in 1 .. Len(list)
        BY <1>0, <1>3 DEF Popped
    <2>2. UndoneIsOriginal'
        <3> SUFFICES ASSUME NEW g \in Functions, NEW k \in 1 .. Window
                     PROVE  Undone(g, Len(list) + 1, k, Original(g)[k])'
            BY DEF UndoneIsOriginal
        <3>1. PICK n \in 1 .. Len(list) + 1 : n = Len(list) + 1
            BY <1>0
        <3>2. Undone(g, n, k, Original(g)[k])
            BY <3>1 DEF UndoInv, UndoneIsOriginal
        <3>3. n > i /\ n - 1 = Len(list') + 1
            BY <1>0, <2>1, <3>1
        <3>4. Undone(g, IF n > i THEN n - 1 ELSE n, k, Original(g)[k])'
            BY <1>3, <3>2, <3>3, PopKeepsUndone
        <3> QED
            BY <3>3, <3>4
    <2>3. ASSUME Arch = "arm64" PROVE UndoneLeads'
        <3> SUFFICES ASSUME NEW g \in Functions, NEW j \in DOMAIN list', list'[j].address = AddressOf(g)
                     PROVE  \E k \in 1 .. Window, w \in Words : LeadsTo(w, list'[j].to) /\ Undone(g, j, k, w)'
            BY DEF UndoneLeads, LeadsTo
        <3> DEFINE n == IF j < i THEN j ELSE j + 1
        <3>1. /\ n \in DOMAIN list /\ n \in 1 .. Len(list) + 1 /\ n # i
              /\ j = IF n > i THEN n - 1 ELSE n
            BY <1>0, <2>1
        <3>2. list'[j] = list[n]
            BY <1>3 DEF Popped
        <3>3. g = f => n > i
            <4>1. g = f => i <= n
                BY <1>3, <3>1, <3>2 DEF Popped
            <4> QED
                BY <1>0, <2>1, <3>1, <4>1
        <3> HIDE DEF n
        <3>4. PICK k \in 1 .. Window, w \in Words : LeadsTo(w, list[n].to) /\ Undone(g, n, k, w)
            BY <2>3, <3>1, <3>2 DEF UndoInv, UndoneLeads
        <3>5. Undone(g, IF n > i THEN n - 1 ELSE n, k, w)'
            BY <1>3, <3>1, <3>3, <3>4, PopKeepsUndone
        <3> QED
            BY <3>1, <3>2, <3>4, <3>5
    <2> QED
        BY <2>2, <2>3 DEF UndoInv
<1>4. ASSUME Arch = "arm", NEW f \in Functions, NEW i \in DOMAIN list, Torn(f, i) PROVE UndoInv'
    <2> SUFFICES ASSUME NEW g \in Functions, NEW k \in 1 .. Window
                 PROVE  Undone(g, Len(list) + 1, k, Original(g)[k])'
        BY <1>4 DEF UndoInv, UndoneIsOriginal
    <2>1. Undone(g, Len(list) + 1, k, Original(g)[k])
        BY DEF UndoInv, UndoneIsOriginal
    <2>2. i < Len(list) + 1 /\ k \in Nat /\ Len(list[i].origin_chunk) \in Nat
        BY <1>0, EntryFields DEF TypeOK, Window
    <2>3. ~Covers(g, i, k) => mem'[g][k] = mem[g][k]
        BY <1>4, <2>2 DEF Covers, Torn, OthersKept
    <2>4. list' = list
        BY <1>4 DEF Torn
    <2> QED
        BY <2>1, <2>2, <2>3, <2>4 DEF Undone, Covers
<1>5. ASSUME NEW f \in Functions, DobbyDestroy(f) PROVE UndoInv'
    BY <1>1, <1>3, <1>4, <1>5, DestroyPops DEF NoHook
<1>6. CASE UNCHANGED vars
    BY <1>1, <1>6 DEF vars, NoHook
<1> QED
    BY <1>1, <1>2, <1>5, <1>6, StepEffect

-----------------------------------------------------------------------------
(* A refused hook is one that the newest entry has already.                *)

LEMMA ActiveLeads ==
    ASSUME TypeOK, UndoInv, Arch = "arm64", NEW f \in Functions, Newest(f) # 0
    PROVE  \E k \in 1 .. Window :
               mem[f][k].op \in {"b", "add", "low"} /\ mem[f][k].to = list[Newest(f)].to
<1> DEFINE i == Newest(f)
<1>1. /\ i \in DOMAIN list /\ list[i].address = AddressOf(f)
      /\ \A j \in DOMAIN list : list[j].address = AddressOf(f) => i <= j
    BY FindFirst DEF TypeOK, Newest
<1>2. PICK k \in 1 .. Window, w \in Words : LeadsTo(w, list[i].to) /\ Undone(f, i, k, w)
    BY <1>1 DEF UndoInv, UndoneLeads
<1>3. \A j \in DOMAIN list : j < i => ~Covers(f, j, k)
    BY <1>1 DEF Covers, TypeOK
<1>4. mem[f][k] = w
    BY <1>2, <1>3 DEF Undone
<1> QED
    BY <1>2, <1>4 DEF LeadsTo

LEMMA RefusedStep ==
    ASSUME TypeOK, UndoInv, Arch = "arm64", RefusedOnlyIfActive, [Next]_vars
    PROVE  RefusedOnlyIfActive'
<1>1. ASSUME NEW f, NEW r, Refuse(f, r),
             f \in Functions /\ Newest(f) # 0 /\ list[Newest(f)].to.fn = r
      PROVE  RefusedOnlyIfActive'
    <2>1. ret' = Failed(f, r) /\ mem' = mem
        BY <1>1 DEF Refuse
    <2>2. PICK k \in 1 .. Window :
              mem[f][k].op \in {"b", "add", "low"} /\ mem[f][k].to = list[Newest(f)].to
        BY <1>1, ActiveLeads
    <2> QED
        BY <1>1, <2>1, <2>2 DEF RefusedOnlyIfActive, Failed
<1>2. ASSUME NEW f \in Functions, NEW r \in Replacements, DobbyHook(f, r) PROVE RefusedOnlyIfActive'
    <2>1. CASE AlreadyHooked(f, r)
        BY <1>1, <1>2, <2>1 DEF DobbyHook, AlreadyHooked, Replacement
    <2>2. CASE ~AlreadyHooked(f, r)
        <3>1. ret' = Success
            BY <1>2, <2>2 DEF DobbyHook, Install
        <3> QED
            BY <3>1 DEF RefusedOnlyIfActive, Success
    <2> QED
        BY <2>1, <2>2
<1>3. ASSUME NEW f \in Functions, NEW h \in Handlers, DobbyInstrument(f, h) PROVE RefusedOnlyIfActive'
    <2>1. CASE AlreadyInstrumented(f, h)
        BY <1>1, <1>3, <2>1 DEF DobbyInstrument, AlreadyInstrumented
    <2>2. CASE ~AlreadyInstrumented(f, h)
        <3>1. ret' = Success
            BY <1>3, <2>2 DEF DobbyInstrument, InstrumentRoute, Install
        <3> QED
            BY <3>1 DEF RefusedOnlyIfActive, Success
    <2> QED
        BY <2>1, <2>2
<1>4. ASSUME NEW f \in Functions, DobbyDestroy(f) PROVE RefusedOnlyIfActive'
    <2>1. ret' \in {Success, Failed(f, NULL)}
        BY <1>4 DEF DobbyDestroy
    <2> QED
        BY <2>1 DEF RefusedOnlyIfActive, Success, Failed
<1>5. CASE DobbyHookNull
    BY <1>5 DEF DobbyHookNull, Refuse, Failed, RefusedOnlyIfActive
<1>6. CASE UNCHANGED <<mem, ret>>
    BY <1>6 DEF RefusedOnlyIfActive
<1>7. CASE \/ dobby_enable_near_branch_trampoline \/ dobby_disable_near_branch_trampoline
           \/ Run \/ (\E f \in Functions : Call(f)) \/ UNCHANGED vars
    <2>1. UNCHANGED <<mem, ret>>
        BY <1>7 DEF dobby_enable_near_branch_trampoline, dobby_disable_near_branch_trampoline,
                    SetPlugin, Run, Step, CallOrigin, Return, Call, CoreOnly, vars
    <2> QED
        BY <1>6, <2>1
<1> QED
    BY <1>2, <1>3, <1>4, <1>5, <1>7 DEF Next

-----------------------------------------------------------------------------
(* Theorems.                                                               *)

(* Windows, entries and copies keep their shape through every DobbyHook,   *)
(* DobbyInstrument and DobbyDestroy.                                       *)
THEOREM InterceptorTypes == Spec => []TypeOK
<1> QED
    BY InitType, TypeStep, PTL DEF Spec

LEMMA UndoAlways == Spec => [](TypeOK /\ UndoInv)
<1>1. Init => TypeOK /\ UndoInv
    BY InitType, InitUndo
<1>2. TypeOK /\ UndoInv /\ [Next]_vars => (TypeOK /\ UndoInv)'
    BY TypeStep, UndoStep
<1> QED
    BY <1>1, <1>2, PTL DEF Spec

(* However many hooks and instrumentations are stacked on however many     *)
(* functions and destroyed again, DobbyDestroy leaves a function that has  *)
(* no entry with its own code.                                             *)
THEOREM DestroyRestoresAlways == Spec => []DestroyRestores
<1>1. TypeOK /\ UndoInv => DestroyRestores
    <2> SUFFICES ASSUME TypeOK, UndoInv, NEW f \in Functions, EntriesOf(f) = {}
                 PROVE  mem[f] = Original(f)
        BY DEF DestroyRestores
    <2>0. \A j \in DOMAIN list : list[j].address # AddressOf(f)
        BY DEF EntriesOf
    <2>1. \A k \in 1 .. Window : mem[f][k] = Original(f)[k]
        <3> TAKE k \in 1 .. Window
        <3>1. Undone(f, Len(list) + 1, k, Original(f)[k])
            BY DEF UndoInv, UndoneIsOriginal
        <3>2. \A j \in DOMAIN list : ~Covers(f, j, k)
            BY <2>0 DEF Covers
        <3> QED
            BY <3>1, <3>2 DEF Undone
    <2>2. mem[f] \in Windows /\ Original(f) \in Windows
        BY OriginalType DEF TypeOK
    <2> QED
        BY <2>1, <2>2, SameWords
<1> QED
    BY <1>1, UndoAlways, PTL

(* On arm64 DobbyHook and DobbyInstrument refuse a function only while its *)
(* code leads to what it is to be hooked with.                             *)
THEOREM RefusedOnlyIfActiveAlways ==
    ASSUME Arch = "arm64"
    PROVE  Spec => []RefusedOnlyIfActive
<1>1. Init => RefusedOnlyIfActive
    BY DEF Init, Success, RefusedOnlyIfActive
<1>2. TypeOK /\ UndoInv /\ RefusedOnlyIfActive /\ [Next]_vars => RefusedOnlyIfActive'
    BY RefusedStep
<1> QED
    BY <1>1, <1>2, UndoAlways, PTL DEF Spec

-----------------------------------------------------------------------------
(* What a call of a hooked function runs, as long as hooks are stacked in  *)
(* a way the code can carry.                                               *)


Reals == {Replacement(r) : r \in Replacements}
         \cup {CreateClosureTrampoline(h, n) : h \in Handlers, n \in 1 .. MaxHooks}

(* The relocated copy behind a target, and the targets that have one.      *)
CopyOf(f, to) == IF to.closure THEN NextHop(f, to) ELSE origin[<<f, to.fn>>]
Live(f, to) == to \in Reals /\ CopyOf(f, to) # <<>>

(* Words that are the function's own; a trampoline that may be relocated.  *)
Own(ws) == \A k \in DOMAIN ws : ws[k] = W("insn", k)
Tramps(f, to) == {GenerateNormalTrampolineBuffer(f, to), NearTrampoline(to)}
Movable(f, to, ws) == ws \in Tramps(f, to) /\ Len(ws) # Window

(* Every copy has the length of the function's trampolines and is the      *)
(* function's own code or a trampoline to another copy.                    *)
CopiesGood ==
    \A f \in Functions, to \in Reals :
        Live(f, to) =>
            /\ CopyOf(f, to) \in Seq(Words)
            /\ used[f] = {Len(CopyOf(f, to))}
            /\ Own(CopyOf(f, to)) \/ \E t \in Reals : Live(f, t) /\ Movable(f, t, CopyOf(f, to))

(* The copy of an entry's target is what the entry saved.                  *)
EntriesGood ==
    \A f \in Functions : \A i \in EntriesOf(f) :
        /\ Live(f, list[i].to) /\ list[i].to.entry <= calls
        /\ CopyOf(f, list[i].to) = list[i].origin_chunk

(* The newest entry's trampoline is in place, each other one saved by the  *)
(* entry on top of it, and the function's own words by the oldest.         *)
Adjacent(f, i, j) ==
    /\ j \in EntriesOf(f) /\ i < j
    /\ \A m \in EntriesOf(f) : ~(i < m /\ m < j)
Chained ==
    \A f \in Functions : \A i \in EntriesOf(f) :
        /\ Adjacent(f, 0, i) =>
              \E tramp \in Tramps(f, list[i].to) :
                  /\ Len(tramp) = Len(list[i].origin_chunk)
                  /\ \A k \in 1 .. Window :
                        mem[f][k] = IF k <= Len(tramp) THEN tramp[k] ELSE W("insn", k)
        /\ (\A j \in EntriesOf(f) : j <= i) => Own(list[i].origin_chunk)
        /\ \A j \in EntriesOf(f) : Adjacent(f, i, j) => Movable(f, list[j].to, list[i].origin_chunk)

StackInv == CopiesGood /\ EntriesGood /\ Chained

-----------------------------------------------------------------------------
(* The calling thread.                                                     *)

Places == {"idle", "fn", "copy", "new", "body", "looping"}
Cores ==
    [at : Places, f : Functions \cup {NULL}, k : Nat, words : Seq(Words), x17 : Targets,
     to : Targets, insns : Seq(Nat), ran : Seq(Replacements \cup Handlers), disturbed : BOOLEAN]

(* The entries of the function up to position p have run, in order.        *)
Visited(p) ==
    \E at \in [DOMAIN core.ran -> EntriesOf(core.f)] :
        /\ \A n \in DOMAIN at : core.ran[n] = list[at[n]].to.fn /\ at[n] <= p
        /\ \A m, n \in DOMAIN at : m < n => at[m] < at[n]
        /\ \A i \in EntriesOf(core.f) : i <= p => \E n \in DOMAIN at : at[n] = i

VisitedAll == \E p \in 0 .. Len(list) : Visited(p) /\ \A i \in EntriesOf(core.f) : i <= p

RunsOwn ==
    /\ core.k \in 1 .. Window
    /\ core.insns = [j \in 1 .. core.k - 1 |-> j]
    /\ core.at = "fn" => \A j \in core.k .. Window : mem[core.f][j] = W("insn", j)
    /\ core.at = "copy" => /\ core.k <= Len(core.words) /\ Len(core.words) <= Window /\ Own(core.words)
                           /\ \A j \in Len(core.words) + 1 .. Window : mem[core.f][j] = W("insn", j)
    /\ ~core.disturbed => VisitedAll

RunsTrampoline(to, tramp) ==
    /\ Live(core.f, to) /\ tramp \in Tramps(core.f, to)
    /\ core.k \in 1 .. Len(tramp) /\ core.insns = <<>>
    /\ core.at = "fn" => \A j \in 1 .. Len(tramp) : mem[core.f][j] = tramp[j]
    /\ core.at = "copy" => core.words = tramp /\ Len(tramp) # Window
    /\ tramp[core.k].op \notin {"low", "high"} /\ (tramp[core.k].op = "br" => core.x17 = to)
    /\ ~core.disturbed => \E p \in 0 .. Len(list) : \E q \in EntriesOf(core.f) :
                              Visited(p) /\ Adjacent(core.f, p, q) /\ list[q].to = to

CoreInv ==
    /\ core \in Cores
    /\ core.at # "idle" => core.f \in Functions
    /\ core.at = "new" =>
          /\ Live(core.f, core.to) /\ core.insns = <<>>
          /\ ~core.disturbed => \E p \in EntriesOf(core.f) : Visited(p) /\ list[p].to = core.to
    /\ core.at \in {"fn", "copy"} =>
          RunsOwn \/ \E to \in Reals : \E tramp \in Tramps(core.f, to) : RunsTrampoline(to, tramp)
    /\ core.at = "body" => /\ core.insns = [k \in 1 .. Window |-> k]
                           /\ ~core.disturbed => VisitedAll

(* On arm no thread calls.                                                 *)
CallInv ==
    IF Arch = "arm64" THEN careful => StackInv /\ CoreInv
    ELSE core \in {Idle, [Idle EXCEPT !.disturbed = TRUE]}

-----------------------------------------------------------------------------
(* Targets, trampolines and entries.                                       *)

RealType(to) ==
    /\ to \in Targets /\ to # Nowhere /\ to.fn \in Replacements \cup Handlers
    /\ to.closure => to.entry \in 1 .. MaxHooks
    /\ ~to.closure => to.fn \in Replacements /\ to = Replacement(to.fn)

LEMMA RealTypes == \A to \in Reals : RealType(to)
<1>1. ASSUME NEW r \in Replacements PROVE RealType(Replacement(r))
    <2>1. r # NULL /\ Replacement(r) \in Targets
        BY InterceptorAssumption, TargetTypes DEF NULL
    <2>2. ~Replacement(r).closure /\ Replacement(r).fn = r /\ Nowhere.fn = NULL
        BY DEF Replacement, Nowhere
    <2> QED
        BY <2>1, <2>2 DEF RealType
<1>2. ASSUME NEW h \in Handlers, NEW n \in 1 .. MaxHooks PROVE RealType(CreateClosureTrampoline(h, n))
    <2> DEFINE to == CreateClosureTrampoline(h, n)
    <2>1. to.closure /\ to.fn = h /\ to.entry = n
        BY DEF CreateClosureTrampoline
    <2>2. ~Nowhere.closure
        BY DEF Nowhere, Replacement
    <2>3. to \in Targets
        BY TargetTypes
    <2> HIDE DEF to
    <2>4. to # Nowhere
        BY <2>1, <2>2
    <2>5. RealType(to)
        BY <2>1, <2>3, <2>4 DEF RealType
    <2> QED
        BY <2>5 DEF to
<1> QED
    BY <1>1, <1>2 DEF Reals

LEMMA TrampolineKinds ==
    ASSUME Arch = "arm64", NEW f \in Functions, NEW to \in Targets, NEW tramp \in Tramps(f, to)
    PROVE  /\ tramp \in Seq(Words)
           /\ \/ tramp = <<Lead("adrp", to), Lead("add", to), W("br", 0)>> /\ Len(tramp) = 3
              \/ /\ tramp = <<W("ldr", 2), W("br", 0), Lead("low", to), Lead("high", to)>>
                 /\ Len(tramp) = 4 /\ <<f, to.fn>> \in Far
              \/ tramp = <<Lead("b", to)>> /\ Len(tramp) = 1
<1>1. CASE tramp = <<Lead("adrp", to), Lead("add", to), W("br", 0)>>
    <2>1. tramp \in Seq(Words) /\ Len(tramp) = 3
        BY <1>1, TargetTypes DEF W, Lead, Words, Ops
    <2> QED
        BY <1>1, <2>1
<1>2. CASE /\ tramp = <<W("ldr", 2), W("br", 0), Lead("low", to), Lead("high", to)>>
           /\ <<f, to.fn>> \in Far
    <2>1. tramp \in Seq(Words) /\ Len(tramp) = 4
        BY <1>2, TargetTypes DEF W, Lead, Words, Ops
    <2> QED
        BY <1>2, <2>1
<1>3. CASE tramp = <<Lead("b", to)>>
    <2>1. tramp \in Seq(Words) /\ Len(tramp) = 1
        BY <1>3, TargetTypes DEF W, Lead, Words, Ops
    <2> QED
        BY <1>3, <2>1
<1> QED
    BY <1>1, <1>2, <1>3 DEF Tramps, GenerateNormalTrampolineBuffer, NearTrampoline

LEMMA TrampolineLength ==
    ASSUME Arch = "arm64", NEW f \in Functions, NEW to \in Targets, NEW tramp \in Tramps(f, to)
    PROVE  /\ tramp \in Seq(Words) /\ Len(tramp) \in 1 .. Window
           /\ Len(tramp) = Window => <<f, to.fn>> \in Far
<1>1. tramp \in Seq(Words) /\ (Len(tramp) = 3 \/ Len(tramp) = 1 \/ (Len(tramp) = 4 /\ <<f, to.fn>> \in Far))
    BY TrampolineKinds
<1>2. 3 \in 1 .. Window /\ 1 \in 1 .. Window /\ 4 \in 1 .. Window /\ Window # 3 /\ Window # 1
    BY DEF Window
<1> QED
    BY <1>1, <1>2, Zenon

LEMMA MadeIsTramp ==
    \A f, to : GenerateTrampolineBuffer(f, to) \subseteq Tramps(f, to)
    BY DEF GenerateTrampolineBuffer, Tramps

LEMMA EntriesAreIndices ==
    ASSUME TypeOK, NEW f
    PROVE  EntriesOf(f) \subseteq 1 .. Len(list) /\ Len(list) \in Nat /\ DOMAIN list = 1 .. Len(list)
    BY DEF EntriesOf, TypeOK

LEMMA NextExists ==
    ASSUME TypeOK, NEW f, NEW p \in Nat, NEW m \in EntriesOf(f), p < m
    PROVE  \E q \in EntriesOf(f) : Adjacent(f, p, q)
<1> DEFINE T == {n \in EntriesOf(f) : p < n}
<1>1. T \in SUBSET Nat /\ T # {}
    BY EntriesAreIndices
<1>2. PICK q \in T : \A n \in T : q <= n
    BY <1>1, Least
<1>3. \A n \in EntriesOf(f) : ~(p < n /\ n < q)
    BY <1>1, <1>2
<1> QED
    BY <1>2, <1>3 DEF Adjacent

LEMMA NewestIsFirst ==
    ASSUME TypeOK, NEW f
    PROVE  \/ Newest(f) = 0 /\ EntriesOf(f) = {}
           \/ Newest(f) \in EntriesOf(f) /\ Adjacent(f, 0, Newest(f))
<1>1. \/ Newest(f) = 0 /\ \A j \in DOMAIN list : list[j].address # AddressOf(f)
      \/ /\ Newest(f) \in DOMAIN list /\ list[Newest(f)].address = AddressOf(f)
         /\ \A j \in DOMAIN list : list[j].address = AddressOf(f) => Newest(f) <= j
    BY FindFirst DEF TypeOK, Newest
<1>2. CASE Newest(f) = 0 /\ \A j \in DOMAIN list : list[j].address # AddressOf(f)
    BY <1>2 DEF EntriesOf
<1>3. CASE /\ Newest(f) \in DOMAIN list /\ list[Newest(f)].address = AddressOf(f)
           /\ \A j \in DOMAIN list : list[j].address = AddressOf(f) => Newest(f) <= j
    <2>1. Newest(f) \in EntriesOf(f) /\ \A j \in EntriesOf(f) : Newest(f) <= j
        BY <1>3 DEF EntriesOf
    <2> QED
        BY <2>1, EntriesAreIndices DEF Adjacent
<1> QED
    BY <1>1, <1>2, <1>3

LEMMA PushedEntries ==
    ASSUME TypeOK, NEW f \in Functions, NEW to, NEW tramp, Pushed(f, to, tramp), NEW g \in Functions
    PROVE  /\ \A j \in EntriesOf(g) : j + 1 \in EntriesOf(g)' /\ list'[j + 1] = list[j]
           /\ \A j \in EntriesOf(g)' :
                 \/ j = 1 /\ g = f
                 \/ j > 1 /\ j - 1 \in EntriesOf(g) /\ list'[j] = list[j - 1]
           /\ 1 \in EntriesOf(f)'
<1>1. /\ Len(list) \in Nat /\ DOMAIN list = 1 .. Len(list)
      /\ Len(list') = Len(list) + 1 /\ DOMAIN list' = 1 .. Len(list) + 1
    BY DEF TypeOK, Pushed
<1>2. \A j \in DOMAIN list : j + 1 \in DOMAIN list' /\ list'[j + 1] = list[j]
    BY <1>1 DEF Pushed
<1>3. ASSUME NEW j \in DOMAIN list', j # 1
      PROVE  j > 1 /\ j - 1 \in DOMAIN list /\ list'[j] = list[j - 1]
    <2>1. j > 1 /\ j - 1 \in DOMAIN list /\ (j - 1) + 1 = j
        BY <1>1, <1>3
    <2> QED
        BY <1>2, <2>1
<1>4. \A j \in EntriesOf(g) : j + 1 \in EntriesOf(g)' /\ list'[j + 1] = list[j]
    BY <1>2 DEF EntriesOf
<1>5. \A j \in EntriesOf(g)' : j = 1 => g = f
    BY AddressesDiffer DEF EntriesOf, Pushed
<1>6. \A j \in EntriesOf(g)' : j # 1 => j > 1 /\ j - 1 \in EntriesOf(g) /\ list'[j] = list[j - 1]
    BY <1>3 DEF EntriesOf
<1>7. 1 \in EntriesOf(f)'
    BY <1>1 DEF EntriesOf, Pushed
<1> QED
    BY <1>4, <1>5, <1>6, <1>7

LEMMA PoppedEntries ==
    ASSUME TypeOK, NEW f \in Functions, NEW i \in DOMAIN list, Popped(f, i), NEW g \in Functions
    PROVE  /\ \A j \in EntriesOf(g) : j < i => j \in EntriesOf(g)' /\ list'[j] = list[j]
           /\ \A j \in EntriesOf(g) : j > i => j - 1 \in EntriesOf(g)' /\ list'[j - 1] = list[j]
           /\ \A j \in EntriesOf(g)' : j < i => j \in EntriesOf(g) /\ list'[j] = list[j]
           /\ \A j \in EntriesOf(g)' : j >= i => j + 1 \in EntriesOf(g) /\ list'[j] = list[j + 1]
           /\ Adjacent(f, 0, i)
           /\ g # f => i \notin EntriesOf(g)
<1>1. /\ Len(list) \in Nat /\ DOMAIN list = 1 .. Len(list)
      /\ DOMAIN list' = 1 .. Len(list) - 1 /\ i \in Nat /\ i > 0
    BY DEF TypeOK, Popped
<1>2. \A j \in DOMAIN list : j < i => j \in DOMAIN list' /\ list'[j] = list[j]
    BY <1>1 DEF Popped
<1>3. ASSUME NEW j \in DOMAIN list, j > i PROVE j - 1 \in DOMAIN list' /\ list'[j - 1] = list[j]
    <2>1. j - 1 \in DOMAIN list' /\ ~(j - 1 < i) /\ (j - 1) + 1 = j
        BY <1>1, <1>3
    <2> QED
        BY <2>1 DEF Popped
<1>4. \A j \in DOMAIN list' : /\ j < i => j \in DOMAIN list /\ list'[j] = list[j]
                              /\ j >= i => j + 1 \in DOMAIN list /\ list'[j] = list[j + 1]
    BY <1>1 DEF Popped
<1>5. Adjacent(f, 0, i)
    BY <1>1 DEF Adjacent, EntriesOf, Popped
<1>6. g # f => i \notin EntriesOf(g)
    BY AddressesDiffer DEF EntriesOf, Popped
<1> QED
    BY <1>2, <1>3, <1>4, <1>5, <1>6 DEF EntriesOf

-----------------------------------------------------------------------------
(* A hook that is stacked with care.                                       *)

(* Targets with the same copy.                                             *)
Alike(t, to) == t = to \/ (t.closure /\ to.closure /\ t.entry = to.entry)

Linked(f, to) ==
    \A g \in Functions, t \in Reals :
        CopyOf(g, t)' = IF g = f /\ Alike(t, to) THEN list'[1].origin_chunk ELSE CopyOf(g, t)

PushWith(f, to, tramp) ==
    /\ Install(f, to, tramp) /\ careful' /\ Linked(f, to)
    /\ to.closure => to.entry = calls + 1
    /\ ~to.closure => Newest(f) = 0 \/ list[Newest(f)].to # to

(* Without an entry the function has its own code.                         *)
LEMMA NoEntryIsOwn ==
    ASSUME TypeOK, UndoInv, NEW f \in Functions, EntriesOf(f) = {}, NEW k \in 1 .. Window
    PROVE  mem[f][k] = W("insn", k)
<1>1. Undone(f, Len(list) + 1, k, Original(f)[k])
    BY DEF UndoInv, UndoneIsOriginal
<1>2. \A j \in DOMAIN list : ~Covers(f, j, k)
    BY DEF EntriesOf, Covers
<1> QED
    BY <1>1, <1>2, OriginalType DEF Undone

(* Behind the length of the function's trampolines its words are its own.  *)
LEMMA TailIsOwn ==
    ASSUME Arch = "arm64", TypeOK, UndoInv, StackInv, NEW f \in Functions, NEW size \in 1 .. Window,
           used[f] \subseteq {size}, NEW k \in 1 .. Window, ~(k <= size)
    PROVE  mem[f][k] = W("insn", k)
<1>1. CASE EntriesOf(f) = {}
    BY <1>1, NoEntryIsOwn
<1>2. CASE Newest(f) \in EntriesOf(f) /\ Adjacent(f, 0, Newest(f))
    <2> DEFINE n == Newest(f)
    <2>1. Live(f, list[n].to) /\ CopyOf(f, list[n].to) = list[n].origin_chunk
        BY <1>2 DEF StackInv, EntriesGood
    <2>2. used[f] = {Len(list[n].origin_chunk)}
        BY <2>1 DEF StackInv, CopiesGood, Live
    <2>3. Len(list[n].origin_chunk) = size
        BY <2>2
    <2> HIDE DEF n
    <2>4. PICK tramp \in Tramps(f, list[n].to) :
             /\ Len(tramp) = Len(list[n].origin_chunk)
             /\ \A j \in 1 .. Window : mem[f][j] = IF j <= Len(tramp) THEN tramp[j] ELSE W("insn", j)
        BY <1>2 DEF StackInv, Chained, n
    <2> QED
        BY <2>3, <2>4
<1> QED
    BY <1>1, <1>2, NewestIsFirst

LEMMA PushFacts ==
    ASSUME Arch = "arm64", TypeOK, UndoInv, StackInv, NEW f \in Functions, NEW to \in Reals,
           NEW tramp \in GenerateTrampolineBuffer(f, to), PushWith(f, to, tramp)
    PROVE  /\ Pushed(f, to, tramp) /\ tramp \in Tramps(f, to) /\ Len(tramp) \in 1 .. Window
           /\ used[f] \subseteq {Len(tramp)} /\ used'[f] = {Len(tramp)}
           /\ \A g \in Functions : g # f => used'[g] = used[g]
           /\ calls \in Nat /\ calls' = calls + 1
           /\ <<f, to.fn>> \in Far => EntriesOf(f) = {}
           /\ \A i \in EntriesOf(f) : ~Alike(list[i].to, to)
<1>1. to \in Targets /\ tramp \in Tramps(f, to)
    BY RealTypes, MadeIsTramp DEF RealType
<1>2. Install(f, to, tramp) /\ careful'
    BY DEF PushWith
<1>3. Pushed(f, to, tramp)
    BY <1>1, <1>2, InstallPushes
<1>4. Len(tramp) \in 1 .. Window
    BY <1>1, TrampolineLength
<1>5. /\ used' = [used EXCEPT ![f] = @ \cup {Len(tramp)}]
      /\ careful' = (careful /\ Careful(f, to, Len(tramp)))
      /\ calls' = calls + 1 /\ calls \in Nat
    <2>1. calls \in Nat
        BY InterceptorAssumption DEF TypeOK
    <2> QED
        BY <1>2, <2>1 DEF Install
<1>6. Careful(f, to, Len(tramp))
    BY <1>2, <1>5
<1>7. used[f] \subseteq {Len(tramp)} /\ (<<f, to.fn>> \in Far => Newest(f) = 0)
    BY <1>6 DEF Careful
<1>8. used'[f] = {Len(tramp)} /\ \A g \in Functions : g # f => used'[g] = used[g]
    BY <1>5, <1>7 DEF TypeOK
<1>9. Newest(f) = 0 => EntriesOf(f) = {}
    BY NewestIsFirst, EntriesAreIndices
<1>10. ASSUME NEW i \in EntriesOf(f), Alike(list[i].to, to) PROVE FALSE
    <2>1. CASE to.closure
        <3>1. list[i].to.entry <= calls /\ to.entry = calls + 1 /\ list[i].to.entry = to.entry
            BY <2>1, <1>10 DEF StackInv, EntriesGood, PushWith, Alike
        <3> QED
            BY <1>5, <1>10, <3>1
    <2>2. CASE ~to.closure
        <3>1. \A j \in DOMAIN list \ {Newest(f)} : list[j].address = AddressOf(f) => list[j].to # to
            BY <1>6, <2>2 DEF Careful
        <3>2. i = Newest(f) /\ list[i].to = to
            BY <1>10, <2>2, <3>1 DEF EntriesOf, Alike
        <3>3. Newest(f) # 0
            BY <1>9, <1>10
        <3> QED
            BY <2>2, <3>2, <3>3 DEF PushWith
    <2> QED
        BY <2>1, <2>2
<1> QED
    BY <1>1, <1>3, <1>4, <1>5, <1>7, <1>8, <1>9, <1>10

(* What the new entry saves: own words, or the newest trampoline.          *)
LEMMA PushSaves ==
    ASSUME Arch = "arm64", TypeOK, UndoInv, StackInv, NEW f \in Functions, NEW to \in Reals,
           NEW tramp \in GenerateTrampolineBuffer(f, to), PushWith(f, to, tramp)
    PROVE  /\ list'[1].origin_chunk \in Seq(Words) /\ list'[1].origin_chunk # <<>>
           /\ Len(list'[1].origin_chunk) = Len(tramp)
           /\ EntriesOf(f) = {} => Own(list'[1].origin_chunk)
           /\ \A n \in EntriesOf(f) :
                 Adjacent(f, 0, n) => Movable(f, list[n].to, list'[1].origin_chunk)
<1>1. /\ Pushed(f, to, tramp) /\ Len(tramp) \in 1 .. Window /\ tramp \in Tramps(f, to)
      /\ used[f] \subseteq {Len(tramp)} /\ (<<f, to.fn>> \in Far => EntriesOf(f) = {})
    BY PushFacts
<1> DEFINE chunk == list'[1].origin_chunk
<1>2. Len(chunk) = Len(tramp) /\ \A k \in 1 .. Len(tramp) : chunk[k] = mem[f][k]
    BY <1>1 DEF Pushed
<1>3. chunk \in Seq(Words)
    <2>1. list' \in Seq(Entries) /\ 1 \in DOMAIN list'
        BY <1>1, EntriesAreIndices DEF Pushed
    <2>2. list'[1] \in Entries
        BY <2>1
    <2> QED
        BY <2>2 DEF Entries
<1> HIDE DEF chunk
<1>4. chunk # <<>>
    <2>1. Len(chunk) # 0
        BY <1>1, <1>2 DEF Window
    <2> QED
        BY <2>1
<1>5. DOMAIN chunk = 1 .. Len(tramp) /\ 1 .. Len(tramp) \subseteq 1 .. Window
    BY <1>1, <1>2, <1>3, LenProperties DEF Window
<1>6. EntriesOf(f) = {} => Own(chunk)
    BY <1>2, <1>5, NoEntryIsOwn DEF Own
<1>7. ASSUME NEW n \in EntriesOf(f), Adjacent(f, 0, n) PROVE Movable(f, list[n].to, chunk)
    <2>1. Live(f, list[n].to) /\ CopyOf(f, list[n].to) = list[n].origin_chunk
        BY DEF StackInv, EntriesGood
    <2>2. used[f] = {Len(list[n].origin_chunk)} /\ list[n].to \in Reals
        BY <2>1 DEF StackInv, CopiesGood, Live
    <2>3. Len(list[n].origin_chunk) = Len(tramp)
        BY <1>1, <2>2
    <2>4. PICK old \in Tramps(f, list[n].to) :
             /\ Len(old) = Len(list[n].origin_chunk)
             /\ \A j \in 1 .. Window : mem[f][j] = IF j <= Len(old) THEN old[j] ELSE W("insn", j)
        BY <1>7 DEF StackInv, Chained
    <2>5. old \in Seq(Words)
        BY <2>2, RealTypes, TrampolineLength DEF RealType
    <2>6. Len(old) = Len(chunk)
        BY <1>2, <2>3, <2>4
    <2>7. \A k \in 1 .. Len(chunk) : chunk[k] = old[k]
        <3> TAKE k \in 1 .. Len(chunk)
        <3>1. k \in 1 .. Len(tramp) /\ k \in 1 .. Window
            BY <1>2, <1>5
        <3>2. k <= Len(old)
            BY <2>3, <2>4, <3>1, <1>1 DEF Window
        <3> QED
            BY <1>2, <2>4, <3>1, <3>2
    <2>8. chunk = old
        BY <1>3, <2>5, <2>6, <2>7, SeqEqual
    <2>9. Len(tramp) # Window
        BY <1>1, <1>7, RealTypes, TrampolineLength DEF RealType
    <2> QED
        BY <1>2, <2>4, <2>8, <2>9 DEF Movable
<1> QED
    BY <1>2, <1>3, <1>4, <1>6, <1>7 DEF chunk

LEMMA LiveStays ==
    ASSUME Arch = "arm64", TypeOK, UndoInv, StackInv, NEW f \in Functions, NEW to \in Reals,
           NEW tramp \in GenerateTrampolineBuffer(f, to), PushWith(f, to, tramp),
           NEW g \in Functions, NEW t
    PROVE  /\ Live(g, t) => Live(g, t)'
           /\ Live(f, to)' /\ CopyOf(f, to)' = list'[1].origin_chunk
           /\ t \in Reals /\ Alike(t, to) => CopyOf(f, t)' = list'[1].origin_chunk
           /\ Live(g, t)' /\ ~(g = f /\ Alike(t, to)) => Live(g, t) /\ CopyOf(g, t)' = CopyOf(g, t)
<1>1. list'[1].origin_chunk # <<>>
    BY PushSaves
<1>2. Linked(f, to)
    BY DEF PushWith
<1>3. CopyOf(f, to)' = list'[1].origin_chunk
    BY <1>2 DEF Linked, Alike
<1>4. t \in Reals => CopyOf(g, t)' = IF g = f /\ Alike(t, to) THEN list'[1].origin_chunk ELSE CopyOf(g, t)
    BY <1>2 DEF Linked
<1>5. t \in Reals /\ Alike(t, to) => CopyOf(f, t)' = list'[1].origin_chunk
    BY <1>2 DEF Linked
<1> QED
    BY <1>1, <1>3, <1>4, <1>5 DEF Live

LEMMA PushKeepsStack ==
    ASSUME Arch = "arm64", TypeOK, UndoInv, StackInv, NEW f \in Functions, NEW to \in Reals,
           NEW tramp \in GenerateTrampolineBuffer(f, to), PushWith(f, to, tramp)
    PROVE  StackInv'
<1>1. /\ Pushed(f, to, tramp) /\ Len(tramp) \in 1 .. Window /\ tramp \in Tramps(f, to)
      /\ used[f] \subseteq {Len(tramp)} /\ used'[f] = {Len(tramp)}
      /\ \A g \in Functions : g # f => used'[g] = used[g]
      /\ calls \in Nat /\ calls' = calls + 1
      /\ \A i \in EntriesOf(f) : ~Alike(list[i].to, to)
    BY PushFacts
<1> DEFINE chunk == list'[1].origin_chunk
<1>2. /\ chunk \in Seq(Words) /\ Len(chunk) = Len(tramp)
      /\ EntriesOf(f) = {} => Own(chunk)
      /\ \A n \in EntriesOf(f) : Adjacent(f, 0, n) => Movable(f, list[n].to, chunk)
    BY PushSaves
<1>3. ASSUME NEW g \in Functions
      PROVE  /\ \A j \in EntriesOf(g) : j + 1 \in EntriesOf(g)' /\ list'[j + 1] = list[j]
             /\ \A j \in EntriesOf(g)' :
                   \/ j = 1 /\ g = f
                   \/ j > 1 /\ j - 1 \in EntriesOf(g) /\ list'[j] = list[j - 1]
             /\ 1 \in EntriesOf(f)'
             /\ EntriesOf(g) \subseteq Nat \ {0} /\ EntriesOf(g)' \subseteq Nat \ {0}
    <2>1. EntriesOf(g) \subseteq Nat \ {0}
        BY EntriesAreIndices
    <2>2. EntriesOf(g)' \subseteq Nat \ {0}
        BY <1>1 DEF EntriesOf, Pushed
    <2> QED
        BY <1>1, <2>1, <2>2, PushedEntries
<1>4. CopiesGood'
    <2> SUFFICES ASSUME NEW g \in Functions, NEW t \in Reals, Live(g, t)'
                 PROVE  /\ CopyOf(g, t)' \in Seq(Words) /\ used'[g] = {Len(CopyOf(g, t)')}
                        /\ \/ Own(CopyOf(g, t)')
                           \/ \E u \in Reals : Live(g, u)' /\ Movable(g, u, CopyOf(g, t)')
        BY DEF CopiesGood, Own, Movable
    <2>1. CASE g = f /\ Alike(t, to)
        <3>1. CopyOf(g, t)' = chunk
            BY <2>1, LiveStays
        <3>2. Own(chunk) \/ \E u \in Reals : Live(f, u)' /\ Movable(f, u, chunk)
            <4>1. CASE EntriesOf(f) = {}
                BY <1>2, <4>1
            <4>2. CASE Newest(f) \in EntriesOf(f) /\ Adjacent(f, 0, Newest(f))
                <5>1. Movable(f, list[Newest(f)].to, chunk) /\ Live(f, list[Newest(f)].to)
                    BY <1>2, <4>2 DEF StackInv, EntriesGood
                <5>2. PICK u : u = list[Newest(f)].to
                    OBVIOUS
                <5>3. u \in Reals /\ Live(f, u)' /\ Movable(f, u, chunk)
                    BY <5>1, <5>2, LiveStays DEF Live
                <5> QED
                    BY <5>3
            <4> QED
                BY <4>1, <4>2, NewestIsFirst
        <3> QED
            BY <1>1, <1>2, <2>1, <3>1, <3>2
    <2>2. CASE ~(g = f /\ Alike(t, to))
        <3>1. Live(g, t) /\ CopyOf(g, t)' = CopyOf(g, t)
            BY <2>2, LiveStays
        <3>2. /\ CopyOf(g, t) \in Seq(Words) /\ used[g] = {Len(CopyOf(g, t))}
              /\ Own(CopyOf(g, t)) \/ \E u \in Reals : Live(g, u) /\ Movable(g, u, CopyOf(g, t))
            BY <3>1 DEF StackInv, CopiesGood
        <3>3. used'[g] = used[g]
            BY <1>1, <3>2
        <3>4. \A u \in Reals : Live(g, u) => Live(g, u)'
            BY LiveStays
        <3> QED
            BY <3>1, <3>2, <3>3, <3>4
    <2> QED
        BY <2>1, <2>2
<1>5. EntriesGood'
    <2> SUFFICES ASSUME NEW g \in Functions, NEW i \in EntriesOf(g)', NEW t, t = list'[i].to
                 PROVE  /\ Live(g, t)' /\ t.entry <= calls'
                        /\ CopyOf(g, t)' = list'[i].origin_chunk
        BY DEF EntriesGood, Live, CopyOf, NextHop
    <2>1. CASE i = 1 /\ g = f
        <3>1. t = to
            BY <1>1, <2>1 DEF Pushed
        <3>2. to.entry <= calls + 1
            <4>1. CASE to.closure
                BY <1>1, <4>1 DEF PushWith
            <4>2. CASE ~to.closure
                <5>1. to.entry = 0
                    BY <4>2, RealTypes DEF RealType, Replacement
                <5> QED
                    BY <1>1, <5>1
            <4> QED
                BY <4>1, <4>2
        <3> QED
            BY <1>1, <2>1, <3>1, <3>2, LiveStays
    <2>2. CASE i > 1 /\ i - 1 \in EntriesOf(g) /\ list'[i] = list[i - 1]
        <3>1. Live(g, t) /\ t.entry <= calls /\ CopyOf(g, t) = list[i - 1].origin_chunk
            BY <2>2 DEF StackInv, EntriesGood
        <3>2. ~(g = f /\ Alike(t, to))
            BY <1>1, <2>2
        <3>3. t.entry \in Nat
            BY <3>1, RealTypes, InterceptorAssumption DEF Live, RealType, Targets
        <3>4. Live(g, t)'
            BY <3>1, LiveStays
        <3>5. CopyOf(g, t)' = CopyOf(g, t)
            BY <3>2, <3>4, LiveStays
        <3> QED
            BY <1>1, <2>2, <3>1, <3>3, <3>4, <3>5
    <2> QED
        BY <1>3, <2>1, <2>2
<1>6. Chained'
    <2> SUFFICES ASSUME NEW g \in Functions, NEW i \in EntriesOf(g)'
                 PROVE  /\ Adjacent(g, 0, i)' =>
                              \E tr \in Tramps(g, list'[i].to) :
                                  /\ Len(tr) = Len(list'[i].origin_chunk)
                                  /\ \A k \in 1 .. Window :
                                        mem'[g][k] = IF k <= Len(tr) THEN tr[k] ELSE W("insn", k)
                        /\ (\A j \in EntriesOf(g)' : j <= i) => Own(list'[i].origin_chunk)
                        /\ \A j \in EntriesOf(g)' :
                              Adjacent(g, i, j)' => Movable(g, list'[j].to, list'[i].origin_chunk)
        BY DEF Chained, Tramps, Own, Movable, GenerateNormalTrampolineBuffer, NearTrampoline
    <2>1. CASE i = 1 /\ g = f
        <3>1. \A k \in 1 .. Window : mem'[f][k] = IF k <= Len(tramp) THEN tramp[k] ELSE W("insn", k)
            BY <1>1, TailIsOwn DEF Pushed
        <3>2. Len(tramp) = Len(chunk) /\ list'[1].to = to
            BY <1>1, <1>2 DEF Pushed
        <3>3. ASSUME \A j \in EntriesOf(f)' : j <= 1 PROVE Own(chunk)
            <4>1. EntriesOf(f) = {}
                BY <1>3, <3>3
            <4> QED
                BY <1>2, <4>1
        <3>4. ASSUME NEW j \in EntriesOf(f)', Adjacent(f, 1, j)' PROVE Movable(f, list'[j].to, chunk)
            <4>1. j > 1 /\ j - 1 \in EntriesOf(f) /\ list'[j] = list[j - 1]
                BY <1>3, <3>4 DEF Adjacent
            <4>2. \A m \in EntriesOf(f) : ~(0 < m /\ m < j - 1)
                BY <1>3, <3>4, <4>1 DEF Adjacent
            <4>3. Adjacent(f, 0, j - 1)
                BY <1>3, <4>1, <4>2 DEF Adjacent
            <4> QED
                BY <1>2, <4>1, <4>3
        <3> QED
            BY <1>1, <2>1, <3>1, <3>2, <3>3, <3>4
    <2>2. CASE i > 1 /\ i - 1 \in EntriesOf(g) /\ list'[i] = list[i - 1]
        <3>1. ASSUME Adjacent(g, 0, i)' PROVE g # f /\ Adjacent(g, 0, i - 1)
            <4>1. g # f
                BY <1>3, <2>2, <3>1 DEF Adjacent
            <4>2. \A m \in EntriesOf(g) : ~(0 < m /\ m < i - 1)
                BY <1>3, <2>2, <3>1 DEF Adjacent
            <4> QED
                BY <1>3, <2>2, <4>1, <4>2 DEF Adjacent
        <3>2. g # f => mem'[g] = mem[g]
            BY <1>1 DEF Pushed, OthersKept
        <3>3. ASSUME \A j \in EntriesOf(g)' : j <= i PROVE \A j \in EntriesOf(g) : j <= i - 1
            BY <1>3, <2>2, <3>3
        <3>4. ASSUME NEW j \in EntriesOf(g)', Adjacent(g, i, j)'
              PROVE  j - 1 \in EntriesOf(g) /\ list'[j] = list[j - 1] /\ Adjacent(g, i - 1, j - 1)
            <4>1. j > 1 /\ j - 1 \in EntriesOf(g) /\ list'[j] = list[j - 1] /\ i < j
                BY <1>3, <2>2, <3>4 DEF Adjacent
            <4>2. \A m \in EntriesOf(g) : ~(i - 1 < m /\ m < j - 1)
                BY <1>3, <2>2, <3>4, <4>1 DEF Adjacent
            <4> QED
                BY <1>3, <2>2, <4>1, <4>2 DEF Adjacent
        <3>5. /\ Adjacent(g, 0, i - 1) =>
                    \E tr \in Tramps(g, list[i - 1].to) :
                        /\ Len(tr) = Len(list[i - 1].origin_chunk)
                        /\ \A k \in 1 .. Window :
                              mem[g][k] = IF k <= Len(tr) THEN tr[k] ELSE W("insn", k)
              /\ (\A j \in EntriesOf(g) : j <= i - 1) => Own(list[i - 1].origin_chunk)
              /\ \A j \in EntriesOf(g) :
                    Adjacent(g, i - 1, j) => Movable(g, list[j].to, list[i - 1].origin_chunk)
            BY <2>2 DEF StackInv, Chained
        <3> QED
            BY <2>2, <3>1, <3>2, <3>3, <3>4, <3>5
    <2> QED
        BY <1>3, <2>1, <2>2
<1> QED
    BY <1>4, <1>5, <1>6 DEF StackInv

LEMMA SameCopies ==
    ASSUME UNCHANGED <<origin, relocated>>, NEW f, NEW to
    PROVE  CopyOf(f, to)' = CopyOf(f, to) /\ Live(f, to)' = Live(f, to)
    BY DEF CopyOf, NextHop, Live

LEMMA PopKeepsStack ==
    ASSUME Arch = "arm64", TypeOK, UndoInv, StackInv, NEW f \in Functions, NEW i \in DOMAIN list,
           Popped(f, i), UNCHANGED <<origin, relocated, used, calls>>
    PROVE  StackInv'
<1>1. \A g, t : CopyOf(g, t)' = CopyOf(g, t) /\ Live(g, t)' = Live(g, t)
    BY SameCopies
<1>2. i \in Nat \ {0} /\ i \in EntriesOf(f) /\ Adjacent(f, 0, i)
    <2>1. Adjacent(f, 0, i)
        BY PoppedEntries
    <2>2. i \in Nat \ {0}
        BY DEF TypeOK
    <2> QED
        BY <2>1, <2>2 DEF Adjacent
<1>3. ASSUME NEW g \in Functions
      PROVE  /\ \A j \in EntriesOf(g) : j < i => j \in EntriesOf(g)' /\ list'[j] = list[j]
             /\ \A j \in EntriesOf(g) : j > i => j - 1 \in EntriesOf(g)' /\ list'[j - 1] = list[j]
             /\ \A j \in EntriesOf(g)' : j < i => j \in EntriesOf(g) /\ list'[j] = list[j]
             /\ \A j \in EntriesOf(g)' : j >= i => j + 1 \in EntriesOf(g) /\ list'[j] = list[j + 1]
             /\ g # f => i \notin EntriesOf(g)
             /\ EntriesOf(g) \subseteq Nat \ {0} /\ EntriesOf(g)' \subseteq Nat \ {0}
    <2>1. EntriesOf(g) \subseteq Nat \ {0}
        BY EntriesAreIndices
    <2>2. EntriesOf(g)' \subseteq Nat \ {0}
        BY DEF EntriesOf, Popped
    <2> QED
        BY <2>1, <2>2, PoppedEntries
<1>4. CopiesGood'
    BY <1>1 DEF StackInv, CopiesGood, Own, Movable, Tramps, GenerateNormalTrampolineBuffer, NearTrampoline
<1>5. EntriesGood'
    <2> SUFFICES ASSUME NEW g \in Functions, NEW j \in EntriesOf(g)'
                 PROVE  /\ Live(g, list'[j].to) /\ list'[j].to.entry <= calls
                        /\ CopyOf(g, list'[j].to) = list'[j].origin_chunk
        BY <1>1 DEF EntriesGood
    <2>1. \E m \in EntriesOf(g) : list'[j] = list[m]
        BY <1>2, <1>3
    <2> QED
        BY <2>1 DEF StackInv, EntriesGood
<1>6. Chained'
    <2> SUFFICES ASSUME NEW g \in Functions, NEW j \in EntriesOf(g)'
                 PROVE  /\ Adjacent(g, 0, j)' =>
                              \E tr \in Tramps(g, list'[j].to) :
                                  /\ Len(tr) = Len(list'[j].origin_chunk)
                                  /\ \A k \in 1 .. Window :
                                        mem'[g][k] = IF k <= Len(tr) THEN tr[k] ELSE W("insn", k)
                        /\ (\A m \in EntriesOf(g)' : m <= j) => Own(list'[j].origin_chunk)
                        /\ \A m \in EntriesOf(g)' :
                              Adjacent(g, j, m)' => Movable(g, list'[m].to, list'[j].origin_chunk)
        BY DEF Chained, Tramps, Own, Movable, GenerateNormalTrampolineBuffer, NearTrampoline
    <2> DEFINE Old(m) == IF m < i THEN m ELSE m + 1
    <2>1. \A m \in EntriesOf(g)' : Old(m) \in EntriesOf(g) /\ list'[m] = list[Old(m)] /\ Old(m) # i
        BY <1>2, <1>3
    <2>2. \A m, n \in EntriesOf(g)' : (m < n <=> Old(m) < Old(n)) /\ (m <= n <=> Old(m) <= Old(n))
        BY <1>2, <1>3
    <2>3. \A m \in EntriesOf(g) : m # i => \E n \in EntriesOf(g)' : m = Old(n)
        <3> TAKE m \in EntriesOf(g)
        <3> HAVE m # i
        <3>1. CASE m < i
            BY <1>2, <1>3, <3>1
        <3>2. CASE m > i
            <4>1. m - 1 \in EntriesOf(g)' /\ m = Old(m - 1)
                BY <1>2, <1>3, <3>2
            <4> QED
                BY <4>1
        <3> QED
            BY <1>2, <1>3, <3>1, <3>2
    <2>4. g = f => \A m \in EntriesOf(g)' : i < Old(m)
        BY <1>2, <1>3, <2>1 DEF Adjacent
    <2>5. Old(j) \in Nat
        BY <1>3, <2>1
    <2> HIDE DEF Old
    <2>6. ASSUME NEW m \in EntriesOf(g)', Adjacent(g, j, m)'
          PROVE  Adjacent(g, Old(j), Old(m))
        <3>1. Old(m) \in EntriesOf(g) /\ Old(j) < Old(m)
            BY <2>1, <2>2, <2>6 DEF Adjacent
        <3>2. ASSUME NEW n \in EntriesOf(g), Old(j) < n, n < Old(m) PROVE FALSE
            <4>1. n # i
                BY <1>2, <1>3, <2>4, <2>5, <3>1, <3>2
            <4>2. PICK q \in EntriesOf(g)' : n = Old(q)
                BY <2>3, <4>1
            <4>3. j < q /\ q < m
                BY <2>2, <3>2, <4>2
            <4> QED
                BY <2>6, <4>3 DEF Adjacent
        <3> QED
            BY <3>1, <3>2 DEF Adjacent
    <2>7. (\A m \in EntriesOf(g)' : m <= j) => \A m \in EntriesOf(g) : m <= Old(j)
        <3> SUFFICES ASSUME \A m \in EntriesOf(g)' : m <= j, NEW m \in EntriesOf(g)
                     PROVE  m <= Old(j)
            OBVIOUS
        <3>1. CASE m = i
            <4>1. g = f
                BY <1>3, <3>1
            <4> QED
                BY <1>2, <2>4, <2>5, <3>1, <4>1
        <3>2. CASE m # i
            BY <2>2, <2>3, <3>2
        <3> QED
            BY <3>1, <3>2
    <2>8. /\ Adjacent(g, 0, Old(j)) =>
                \E tr \in Tramps(g, list[Old(j)].to) :
                    /\ Len(tr) = Len(list[Old(j)].origin_chunk)
                    /\ \A k \in 1 .. Window : mem[g][k] = IF k <= Len(tr) THEN tr[k] ELSE W("insn", k)
          /\ (\A m \in EntriesOf(g) : m <= Old(j)) => Own(list[Old(j)].origin_chunk)
          /\ \A m \in EntriesOf(g) :
                Adjacent(g, Old(j), m) => Movable(g, list[m].to, list[Old(j)].origin_chunk)
        BY <2>1 DEF StackInv, Chained
    <2>9. ASSUME Adjacent(g, 0, j)'
          PROVE  \E tr \in Tramps(g, list'[j].to) :
                     /\ Len(tr) = Len(list'[j].origin_chunk)
                     /\ \A k \in 1 .. Window : mem'[g][k] = IF k <= Len(tr) THEN tr[k] ELSE W("insn", k)
        <3>1. ASSUME NEW n \in EntriesOf(g), 0 < n, n < Old(j) PROVE n = i
            <4>1. SUFFICES ASSUME n # i PROVE FALSE
                OBVIOUS
            <4>2. PICK q \in EntriesOf(g)' : n = Old(q)
                BY <2>3, <4>1
            <4>3. q < j /\ 0 < q
                BY <1>3, <2>2, <3>1, <4>2
            <4> QED
                BY <2>9, <4>3 DEF Adjacent
        <3>2. CASE g # f
            <4>1. mem'[g] = mem[g]
                BY <3>2 DEF Popped, OthersKept
            <4>2. Adjacent(g, 0, Old(j))
                BY <1>3, <2>1, <2>5, <3>1, <3>2 DEF Adjacent
            <4> QED
                BY <2>1, <2>8, <4>1, <4>2
        <3>3. CASE g = f
            <4>1. Adjacent(f, i, Old(j))
                BY <1>2, <1>3, <2>1, <2>4, <2>5, <3>1, <3>3 DEF Adjacent
            <4>2. Movable(f, list[Old(j)].to, list[i].origin_chunk)
                BY <1>2, <2>1, <3>3, <4>1 DEF StackInv, Chained
            <4> DEFINE tr == list[i].origin_chunk
            <4>3. Live(f, list[i].to) /\ CopyOf(f, list[i].to) = tr
                BY <1>2 DEF StackInv, EntriesGood
            <4>4. used[f] = {Len(tr)}
                BY <4>3 DEF StackInv, CopiesGood, Live
            <4>5. Live(f, list[Old(j)].to) /\ CopyOf(f, list[Old(j)].to) = list[Old(j)].origin_chunk
                BY <2>1, <3>3 DEF StackInv, EntriesGood
            <4>6. used[f] = {Len(list[Old(j)].origin_chunk)}
                BY <4>5 DEF StackInv, CopiesGood, Live
            <4>7. Len(tr) = Len(list[Old(j)].origin_chunk)
                BY <4>4, <4>6
            <4>8. tr \in Tramps(f, list[Old(j)].to)
                BY <4>2 DEF Movable
            <4>9. Len(tr) \in 1 .. Window
                BY <4>5, <4>8, RealTypes, TrampolineLength DEF Live, RealType
            <4>10. \A k \in 1 .. Window : mem'[f][k] = IF k <= Len(tr) THEN tr[k] ELSE W("insn", k)
                BY <4>4, <4>9, TailIsOwn DEF Popped
            <4> QED
                BY <2>1, <3>3, <4>7, <4>8, <4>10
        <3> QED
            BY <3>2, <3>3
    <2> QED
        BY <2>1, <2>6, <2>7, <2>8, <2>9
<1> QED
    BY <1>4, <1>5, <1>6 DEF StackInv

-----------------------------------------------------------------------------
(* The thread: what its steps leave alone.                                 *)

LEMMA StackSame ==
    ASSUME TypeOK, StackInv, UNCHANGED <<mem, list, origin, relocated, used>>, calls' \in {calls, calls + 1}
    PROVE  StackInv'
<1>1. \A g, t : CopyOf(g, t)' = CopyOf(g, t) /\ Live(g, t)' = Live(g, t)
    BY SameCopies
<1>2. \A g : EntriesOf(g)' = EntriesOf(g)
    BY DEF EntriesOf
<1>3. \A g \in Functions : \A i \in EntriesOf(g) : list[i].to.entry <= calls'
    <2> TAKE g \in Functions
    <2> TAKE i \in EntriesOf(g)
    <2>1. list[i].to.entry <= calls /\ list[i].to \in Reals
        BY DEF StackInv, EntriesGood, Live
    <2>2. list[i].to.entry \in Nat /\ calls \in Nat
        BY <2>1, RealTypes, InterceptorAssumption DEF RealType, Targets, TypeOK
    <2> QED
        BY <2>1, <2>2
<1>4. CopiesGood'
    BY <1>1 DEF StackInv, CopiesGood, Own, Movable, Tramps, GenerateNormalTrampolineBuffer, NearTrampoline
<1>5. EntriesGood'
    BY <1>1, <1>2, <1>3 DEF StackInv, EntriesGood
<1>6. Chained'
    <2>1. \A g, i, j : Adjacent(g, i, j)' = Adjacent(g, i, j)
        BY <1>2 DEF Adjacent
    <2> SUFFICES ASSUME NEW g \in Functions, NEW i \in EntriesOf(g)'
                 PROVE  /\ Adjacent(g, 0, i)' =>
                              \E tr \in Tramps(g, list'[i].to) :
                                  /\ Len(tr) = Len(list'[i].origin_chunk)
                                  /\ \A k \in 1 .. Window :
                                        mem'[g][k] = IF k <= Len(tr) THEN tr[k] ELSE W("insn", k)
                        /\ (\A j \in EntriesOf(g)' : j <= i) => Own(list'[i].origin_chunk)
                        /\ \A j \in EntriesOf(g)' :
                              Adjacent(g, i, j)' => Movable(g, list'[j].to, list'[i].origin_chunk)
        BY DEF Chained, Tramps, Own, Movable, GenerateNormalTrampolineBuffer, NearTrampoline
    <2> QED
        BY <1>2, <2>1 DEF StackInv, Chained
<1> QED
    BY <1>4, <1>5, <1>6 DEF StackInv

LEMMA CoreSame ==
    ASSUME CoreInv, UNCHANGED <<core, mem, list, origin, relocated>>
    PROVE  CoreInv'
<1>1. \A g, t : CopyOf(g, t)' = CopyOf(g, t) /\ Live(g, t)' = Live(g, t)
    BY SameCopies
<1>2. \A g : EntriesOf(g)' = EntriesOf(g)
    BY DEF EntriesOf
<1>3. \A g, i, j : Adjacent(g, i, j)' = Adjacent(g, i, j)
    BY <1>2 DEF Adjacent
<1>4. \A p : Visited(p)' = Visited(p)
    BY <1>2 DEF Visited
<1>5. VisitedAll' = VisitedAll
    BY <1>2, <1>4 DEF VisitedAll
<1>6. RunsOwn' = RunsOwn
    BY <1>5 DEF RunsOwn, Own
<1>7. ASSUME NEW to, NEW tramp, RunsTrampoline(to, tramp) PROVE RunsTrampoline(to, tramp)'
    <2>1. Live(core.f, to)' /\ (tramp \in Tramps(core.f, to))'
        BY <1>1, <1>7 DEF RunsTrampoline, Tramps, GenerateNormalTrampolineBuffer, NearTrampoline
    <2>2. ~core.disturbed => \E p \in 0 .. Len(list') : \E q \in EntriesOf(core.f)' :
                                Visited(p)' /\ Adjacent(core.f, p, q)' /\ list'[q].to = to
        BY <1>2, <1>3, <1>4, <1>7 DEF RunsTrampoline
    <2> QED
        BY <1>7, <2>1, <2>2 DEF RunsTrampoline
<1> QED
    BY <1>1, <1>2, <1>4, <1>5, <1>6, <1>7
    DEF CoreInv, Tramps, GenerateNormalTrampolineBuffer, NearTrampoline

(* A hook or an unhook finds the thread outside and marks it disturbed.    *)
LEMMA CoreDisturbed ==
    ASSUME CoreInv, Outside, core' = [core EXCEPT !.disturbed = TRUE],
           \A f \in Functions, t \in Reals : Live(f, t) => Live(f, t)'
    PROVE  CoreInv'
<1>1. /\ core' \in Cores /\ core'.at = core.at /\ core'.f = core.f /\ core'.to = core.to
      /\ core'.insns = core.insns /\ core'.disturbed
    BY DEF CoreInv, Cores
<1>2. core.at \in {"idle", "new"}
    BY DEF Outside
<1>3. core.at = "new" => Live(core.f, core.to)'
    <2> SUFFICES ASSUME core.at = "new" PROVE Live(core.f, core.to)'
        OBVIOUS
    <2>1. PICK f, t : f = core.f /\ t = core.to
        OBVIOUS
    <2>2. Live(f, t) /\ f \in Functions /\ t \in Reals
        BY <2>1 DEF CoreInv, Live
    <2>3. Live(f, t)'
        BY <2>2
    <2> QED
        BY <1>1, <2>1, <2>3
<1> QED
    BY <1>1, <1>2, <1>3 DEF CoreInv

-----------------------------------------------------------------------------
(* The entries a thread has been through.                                  *)

LEMMA VisitSame ==
    ASSUME list' = list, core'.ran = core.ran, core'.f = core.f
    PROVE  /\ \A p : Visited(p)' = Visited(p)
           /\ VisitedAll' = VisitedAll
           /\ \A g : EntriesOf(g)' = EntriesOf(g)
           /\ \A g, i, j : Adjacent(g, i, j)' = Adjacent(g, i, j)
<1>1. \A g : EntriesOf(g)' = EntriesOf(g)
    BY DEF EntriesOf
<1>2. \A p : Visited(p)' = Visited(p)
    BY <1>1 DEF Visited
<1> QED
    BY <1>1, <1>2 DEF VisitedAll, Adjacent

LEMMA VisitNone ==
    ASSUME TypeOK, list' = list, core'.ran = <<>>
    PROVE  Visited(0)'
<1> DEFINE at == [n \in {} |-> 0]
<1>1. DOMAIN core'.ran = {}
    OBVIOUS
<1>2. at \in [DOMAIN core'.ran -> EntriesOf(core.f)'] /\ DOMAIN at = {}
    BY <1>1
<1>3. \A g : EntriesOf(g)' = EntriesOf(g) /\ \A i \in EntriesOf(g) : ~(i <= 0)
    BY EntriesAreIndices DEF EntriesOf
<1>4. \A i \in EntriesOf(core.f)' : ~(i <= 0)
    BY <1>3
<1> QED
    BY <1>2, <1>4 DEF Visited

LEMMA VisitNext ==
    ASSUME TypeOK, core \in Cores, NEW p \in 0 .. Len(list), NEW q \in EntriesOf(core.f),
           Visited(p), Adjacent(core.f, p, q),
           list' = list, core'.f = core.f, core'.ran = Append(core.ran, list[q].to.fn)
    PROVE  Visited(q)'
<1> DEFINE old == core.ran  new == core'.ran  n == Len(old) + 1  E == EntriesOf(core.f)
<1>1. old \in Seq(Replacements \cup Handlers)
    BY DEF Cores
<1>2. /\ Len(old) \in Nat /\ DOMAIN old = 1 .. Len(old) /\ DOMAIN new = 1 .. Len(old) + 1
      /\ new[n] = list[q].to.fn /\ \A m \in 1 .. Len(old) : new[m] = old[m]
    BY <1>1
<1>3. E \subseteq Nat /\ q \in Nat /\ p \in Nat /\ p < q /\ \A i \in E : ~(p < i /\ i < q)
    BY EntriesAreIndices DEF Adjacent
<1>4. EntriesOf(core.f)' = E
    BY DEF EntriesOf
<1>5. PICK at \in [DOMAIN old -> E] :
         /\ \A m \in DOMAIN at : old[m] = list[at[m]].to.fn /\ at[m] <= p
         /\ \A l, m \in DOMAIN at : l < m => at[l] < at[m]
         /\ \A i \in E : i <= p => \E m \in DOMAIN at : at[m] = i
    BY DEF Visited
<1> DEFINE nat == [m \in 1 .. Len(old) + 1 |-> IF m = n THEN q ELSE at[m]]
<1> HIDE DEF old, new, E
<1>6. /\ nat \in [DOMAIN new -> E] /\ DOMAIN nat = 1 .. Len(old) + 1 /\ nat[n] = q
      /\ \A m \in 1 .. Len(old) : nat[m] = at[m]
    BY <1>2, <1>5 DEF E
<1>7. DOMAIN at = 1 .. Len(old)
    BY <1>2, <1>5
<1> HIDE DEF nat
<1>8. \A m \in DOMAIN nat : new[m] = list[nat[m]].to.fn /\ nat[m] <= q
    <2> TAKE m \in DOMAIN nat
    <2>1. CASE m = n
        BY <1>2, <1>3, <1>6, <2>1
    <2>2. CASE m # n
        <3>1. m \in 1 .. Len(old)
            BY <1>2, <1>6, <2>2
        <3>2. at[m] <= p /\ at[m] \in Nat /\ new[m] = list[at[m]].to.fn
            BY <1>2, <1>3, <1>5, <1>7, <3>1
        <3> QED
            BY <1>3, <1>6, <3>1, <3>2
    <2> QED
        BY <2>1, <2>2
<1>9. \A l, m \in DOMAIN nat : l < m => nat[l] < nat[m]
    <2> SUFFICES ASSUME NEW l \in DOMAIN nat, NEW m \in DOMAIN nat, l < m PROVE nat[l] < nat[m]
        OBVIOUS
    <2>1. l \in 1 .. Len(old)
        BY <1>2, <1>6
    <2>2. at[l] <= p /\ at[l] \in Nat /\ nat[l] = at[l]
        BY <1>3, <1>5, <1>6, <1>7, <2>1
    <2>3. CASE m = n
        BY <1>3, <1>6, <2>2, <2>3
    <2>4. CASE m # n
        <3>1. m \in 1 .. Len(old)
            BY <1>2, <1>6, <2>4
        <3> QED
            BY <1>5, <1>6, <1>7, <2>1, <3>1
    <2> QED
        BY <2>3, <2>4
<1>10. \A i \in E : i <= q => \E m \in DOMAIN nat : nat[m] = i
    <2> SUFFICES ASSUME NEW i \in E, i <= q PROVE \E m \in DOMAIN nat : nat[m] = i
        OBVIOUS
    <2>1. CASE i = q
        <3>1. n \in DOMAIN nat
            BY <1>2, <1>6
        <3> QED
            BY <1>6, <2>1, <3>1
    <2>2. CASE i # q
        <3>1. i <= p
            BY <1>3, <2>2
        <3>2. PICK m \in DOMAIN at : at[m] = i
            BY <1>5, <3>1
        <3>3. m \in 1 .. Len(old) /\ m \in DOMAIN nat
            BY <1>2, <1>6, <1>7
        <3> QED
            BY <1>6, <3>2, <3>3
    <2> QED
        BY <2>1, <2>2
<1>11. \E a \in [DOMAIN core'.ran -> EntriesOf(core.f)'] :
         /\ \A m \in DOMAIN a : core'.ran[m] = list'[a[m]].to.fn /\ a[m] <= q
         /\ \A l, m \in DOMAIN a : l < m => a[l] < a[m]
         /\ \A i \in EntriesOf(core.f)' : i <= q => \E m \in DOMAIN a : a[m] = i
    BY <1>4, <1>6, <1>8, <1>9, <1>10 DEF new
<1> QED
    BY <1>11 DEF Visited

-----------------------------------------------------------------------------
(* The thread's steps.                                                     *)

SameBut(c, d) == d.f = c.f /\ d.to = c.to /\ d.ran = c.ran /\ d.disturbed = c.disturbed /\ d.words = c.words

LEMMA GoToFields ==
    ASSUME NEW c \in Cores, c.at \in {"fn", "copy"}, NEW k \in Nat
    PROVE  /\ GoTo(c, k) \in Cores /\ SameBut(c, GoTo(c, k))
           /\ GoTo(c, k).k = k /\ GoTo(c, k).insns = c.insns /\ GoTo(c, k).x17 = c.x17
           /\ c.at = "copy" /\ k <= Len(c.words) => GoTo(c, k).at = "copy"
           /\ ~(c.at = "copy" /\ k <= Len(c.words)) /\ k <= Window => GoTo(c, k).at = "fn"
           /\ ~(c.at = "copy" /\ k <= Len(c.words)) /\ k > Window => GoTo(c, k).at = "body"
<1> DEFINE at1 == IF c.at = "copy" /\ k > Len(c.words) THEN "fn" ELSE c.at
           at2 == IF at1 = "fn" /\ k > Window THEN "body" ELSE at1
<1>1. GoTo(c, k) = [c EXCEPT !.k = k, !.at = at2]
    BY DEF GoTo
<1>2. Len(c.words) \in Nat
    BY DEF Cores
<1>3. /\ c.at = "copy" /\ k <= Len(c.words) => at2 = "copy"
      /\ ~(c.at = "copy" /\ k <= Len(c.words)) /\ k <= Window => at2 = "fn"
      /\ ~(c.at = "copy" /\ k <= Len(c.words)) /\ k > Window => at2 = "body"
    BY <1>2 DEF Window
<1>4. at2 \in Places
    BY DEF Cores, Places
<1> HIDE DEF at1, at2
<1>5. GoTo(c, k).at = at2
    BY <1>1 DEF Cores
<1> QED
    BY <1>1, <1>3, <1>4, <1>5 DEF Cores, SameBut

LEMMA EnterFields ==
    ASSUME NEW c \in Cores, NEW to \in Reals
    PROVE  /\ Enter(c, to) \in Cores /\ Enter(c, to).at = "new" /\ Enter(c, to).to = to
           /\ Enter(c, to).f = c.f /\ Enter(c, to).insns = c.insns
           /\ Enter(c, to).ran = Append(c.ran, to.fn) /\ Enter(c, to).disturbed = c.disturbed
<1>1. to \in Targets /\ to.fn \in Replacements \cup Handlers
    BY RealTypes DEF RealType
<1>2. Append(c.ran, to.fn) \in Seq(Replacements \cup Handlers)
    BY <1>1 DEF Cores
<1> QED
    BY <1>1, <1>2 DEF Enter, Cores, Places

LEMMA CountOne ==
    ASSUME NEW k \in 1 .. Window
    PROVE  Append([j \in 1 .. k - 1 |-> j], k) = [j \in 1 .. (k + 1) - 1 |-> j]
<1> DEFINE a == [j \in 1 .. k - 1 |-> j]  b == [j \in 1 .. (k + 1) - 1 |-> j]
<1>0. k \in Nat /\ k - 1 \in Nat /\ (k + 1) - 1 = k
    BY DEF Window
<1>1. a \in [1 .. k - 1 -> Nat] /\ b \in [1 .. k -> Nat]
    BY <1>0
<1>2. a \in Seq(Nat) /\ b \in Seq(Nat)
    BY <1>0, <1>1, SeqDef
<1>3. Len(a) = k - 1 /\ Len(b) = k
    BY <1>0, <1>1, <1>2, LenProperties
<1>4. Append(a, k) \in Seq(Nat) /\ Len(Append(a, k)) = k
    BY <1>0, <1>2, <1>3
<1>5. \A j \in 1 .. k : Append(a, k)[j] = b[j]
    <2> TAKE j \in 1 .. k
    <2>1. CASE j = k
        BY <1>0, <1>2, <1>3, <2>1
    <2>2. CASE j # k
        <3>1. j \in 1 .. k - 1
            BY <1>0, <2>2
        <3> QED
            BY <1>0, <1>2, <1>3, <3>1
    <2> QED
        BY <2>1, <2>2
<1> HIDE DEF a, b
<1>6. Append(a, k) = b
    BY <1>2, <1>3, <1>4, <1>5, SeqEqual
<1> QED
    BY <1>6 DEF a, b

LEMMA OwnStep ==
    ASSUME TypeOK, CoreInv, core.at \in {"fn", "copy"}, RunsOwn, core' = Execute(core, Word),
           UNCHANGED <<mem, list, origin, relocated>>
    PROVE  CoreInv'
<1> DEFINE k == core.k  c == [core EXCEPT !.insns = Append(core.insns, k)]
<1>1. /\ core \in Cores /\ core.f \in Functions /\ k \in 1 .. Window /\ k \in Nat /\ k + 1 \in Nat
      /\ core.insns = [j \in 1 .. k - 1 |-> j] /\ core.insns \in Seq(Nat) /\ Len(core.words) \in Nat
    BY DEF CoreInv, RunsOwn, Window, Cores
<1>2. Word = W("insn", k)
    <2>1. CASE core.at = "fn"
        <3>1. k \in k .. Window
            BY <1>1 DEF Window
        <3> QED
            BY <2>1, <3>1 DEF Word, RunsOwn
    <2>2. CASE core.at = "copy"
        <3>1. core.words \in Seq(Words) /\ k <= Len(core.words) /\ Own(core.words)
            BY <1>1, <2>2 DEF RunsOwn, Cores
        <3>2. k \in DOMAIN core.words
            BY <1>1, <3>1 DEF Window
        <3> QED
            BY <2>2, <3>1, <3>2 DEF Word, Own
    <2> QED
        BY <2>1, <2>2
<1>3. core' = GoTo(c, k + 1)
    BY <1>2 DEF Execute, W
<1>4. /\ c \in Cores /\ SameBut(core, c) /\ c.at = core.at
      /\ c.insns = [j \in 1 .. (k + 1) - 1 |-> j]
    <2>1. Append(core.insns, k) \in Seq(Nat)
        BY <1>1
    <2>2. c \in Cores /\ SameBut(core, c) /\ c.at = core.at /\ c.insns = Append(core.insns, k)
        BY <1>1, <2>1 DEF Cores, SameBut
    <2> HIDE DEF c, k
    <2> QED
        BY <1>1, <2>2, CountOne
<1> HIDE DEF c
<1>5. /\ core' \in Cores /\ SameBut(core, core') /\ core'.k = k + 1
      /\ core'.insns = [j \in 1 .. (k + 1) - 1 |-> j]
      /\ core.at = "copy" /\ k + 1 <= Len(core.words) => core'.at = "copy"
      /\ ~(core.at = "copy" /\ k + 1 <= Len(core.words)) /\ k + 1 <= Window => core'.at = "fn"
      /\ ~(core.at = "copy" /\ k + 1 <= Len(core.words)) /\ k + 1 > Window => core'.at = "body"
    BY <1>1, <1>3, <1>4, GoToFields DEF SameBut
<1>6. ~core'.disturbed => VisitedAll'
    BY <1>5, VisitSame DEF SameBut, RunsOwn
<1>7. CASE core.at = "copy" /\ k + 1 <= Len(core.words)
    <2>1. /\ Own(core.words) /\ Len(core.words) <= Window
          /\ \A j \in Len(core.words) + 1 .. Window : mem[core.f][j] = W("insn", j)
        BY <1>7 DEF RunsOwn
    <2>2. k + 1 \in 1 .. Window
        BY <1>1, <1>7, <2>1 DEF Window
    <2>3. core'.at = "copy" /\ core'.f = core.f /\ core'.words = core.words /\ core'.f \in Functions
        BY <1>1, <1>5, <1>7 DEF SameBut
    <2>4. RunsOwn'
        BY <1>5, <1>6, <1>7, <2>1, <2>2, <2>3 DEF RunsOwn, Own
    <2> QED
        BY <1>5, <2>3, <2>4 DEF CoreInv
<1>8. CASE ~(core.at = "copy" /\ k + 1 <= Len(core.words)) /\ k + 1 <= Window
    <2>1. \A j \in k + 1 .. Window : mem[core.f][j] = W("insn", j)
        BY <1>1, <1>8 DEF RunsOwn, Window
    <2>2. core'.at = "fn" /\ core'.f = core.f /\ core'.k \in 1 .. Window
        BY <1>1, <1>5, <1>8 DEF SameBut, Window
    <2>3. RunsOwn'
        BY <1>5, <1>6, <2>1, <2>2 DEF RunsOwn
    <2> QED
        BY <1>1, <1>5, <2>2, <2>3 DEF CoreInv
<1>9. CASE ~(core.at = "copy" /\ k + 1 <= Len(core.words)) /\ k + 1 > Window
    <2>1. (k + 1) - 1 = Window
        BY <1>1, <1>9 DEF Window
    <2>2. core'.insns = [j \in 1 .. Window |-> j]
        BY <1>5, <2>1
    <2>3. core'.at = "body" /\ core'.f \in Functions
        BY <1>1, <1>5, <1>9 DEF SameBut
    <2> QED
        BY <1>5, <1>6, <2>2, <2>3 DEF CoreInv
<1> QED
    BY <1>1, <1>7, <1>8, <1>9 DEF Window

(* The trampoline's branch.                                                *)
LEMMA EnterStep ==
    ASSUME TypeOK, CoreInv, core.at \in {"fn", "copy"}, NEW to \in Reals, NEW tramp,
           RunsTrampoline(to, tramp), core' = Enter(core, to),
           UNCHANGED <<mem, list, origin, relocated>>
    PROVE  CoreInv'
<1>1. /\ core \in Cores /\ core.f \in Functions /\ Live(core.f, to) /\ core.insns = <<>>
    BY DEF CoreInv, RunsTrampoline
<1>2. /\ core' \in Cores /\ core'.at = "new" /\ core'.to = to /\ core'.f = core.f
      /\ core'.insns = core.insns /\ core'.ran = Append(core.ran, to.fn)
      /\ core'.disturbed = core.disturbed
    BY <1>1, EnterFields
<1>3. Live(core.f, core.to)'
    BY <1>1, <1>2 DEF Live, CopyOf, NextHop
<1>4. ASSUME ~core'.disturbed
      PROVE  \E p \in EntriesOf(core.f)' : Visited(p)' /\ list'[p].to = core'.to
    <2>1. PICK p \in 0 .. Len(list), q \in EntriesOf(core.f) :
             Visited(p) /\ Adjacent(core.f, p, q) /\ list[q].to = to
        BY <1>2, <1>4 DEF RunsTrampoline
    <2>2. Visited(q)'
        BY <1>1, <1>2, <2>1, VisitNext
    <2>3. q \in EntriesOf(core.f)'
        BY <1>2 DEF EntriesOf
    <2> QED
        BY <1>2, <2>1, <2>2, <2>3
<1> QED
    BY <1>1, <1>2, <1>3, <1>4 DEF CoreInv

(* A word of a trampoline before its branch.                               *)
LEMMA AlongStep ==
    ASSUME TypeOK, CoreInv, core.at \in {"fn", "copy"}, NEW to \in Reals, NEW tramp,
           RunsTrampoline(to, tramp), tramp \in Seq(Words), Len(tramp) <= Window, core.k + 1 <= Len(tramp),
           NEW x \in Targets, core' = GoTo([core EXCEPT !.x17 = x], core.k + 1),
           tramp[core.k + 1].op \notin {"low", "high"}, tramp[core.k + 1].op = "br" => x = to,
           UNCHANGED <<mem, list, origin, relocated>>
    PROVE  CoreInv'
<1> DEFINE k == core.k  c == [core EXCEPT !.x17 = x]
<1>1. /\ core \in Cores /\ core.f \in Functions /\ k \in 1 .. Len(tramp) /\ Len(tramp) \in Nat
      /\ k \in Nat /\ k + 1 \in 1 .. Len(tramp) /\ k + 1 \in Nat /\ k + 1 <= Window
    BY DEF CoreInv, RunsTrampoline, Window
<1>2. c \in Cores /\ SameBut(core, c) /\ c.at = core.at /\ c.insns = core.insns /\ c.x17 = x
    BY <1>1 DEF Cores, SameBut
<1> HIDE DEF c
<1>3. core.at = "copy" => core.words = tramp
    BY DEF RunsTrampoline
<1>4. /\ core' \in Cores /\ SameBut(core, core') /\ core'.k = k + 1 /\ core'.insns = core.insns
      /\ core'.x17 = x /\ core'.at = core.at
    <2>1. core' = GoTo(c, k + 1)
        BY DEF c
    <2> QED
        BY <1>1, <1>2, <1>3, <2>1, GoToFields DEF SameBut
<1>5. /\ core'.f = core.f /\ core'.words = core.words /\ core'.disturbed = core.disturbed
      /\ core'.ran = core.ran
    BY <1>4 DEF SameBut
<1>6. RunsTrampoline(to, tramp)'
    <2>1. (tramp \in Tramps(core.f, to))'
        BY <1>5 DEF RunsTrampoline, Tramps, GenerateNormalTrampolineBuffer, NearTrampoline
    <2>2. Live(core.f, to)'
        BY <1>5 DEF RunsTrampoline, Live, CopyOf, NextHop
    <2>3. /\ core'.k \in 1 .. Len(tramp) /\ core'.insns = <<>>
          /\ tramp[core'.k].op \notin {"low", "high"} /\ (tramp[core'.k].op = "br" => core'.x17 = to)
        BY <1>1, <1>4 DEF RunsTrampoline
    <2>4. ~core'.disturbed => \E p \in 0 .. Len(list') : \E q \in EntriesOf(core.f)' :
                                 Visited(p)' /\ Adjacent(core.f, p, q)' /\ list'[q].to = to
        BY <1>5, VisitSame DEF RunsTrampoline
    <2>5. /\ core'.at = "fn" => \A j \in 1 .. Len(tramp) : mem'[core'.f][j] = tramp[j]
          /\ core'.at = "copy" => core'.words = tramp /\ Len(tramp) # Window
        BY <1>4, <1>5 DEF RunsTrampoline
    <2> QED
        BY <2>1, <2>2, <2>3, <2>4, <2>5 DEF RunsTrampoline
<1>7. (tramp \in Tramps(core.f, to))'
    BY <1>6 DEF RunsTrampoline
<1> QED
    BY <1>1, <1>4, <1>5, <1>6, <1>7 DEF CoreInv

LEMMA TrampolineStep ==
    ASSUME Arch = "arm64", TypeOK, CoreInv, core.at \in {"fn", "copy"}, NEW to \in Reals,
           NEW tramp \in Tramps(core.f, to), RunsTrampoline(to, tramp),
           core' = Execute(core, Word), UNCHANGED <<mem, list, origin, relocated>>
    PROVE  CoreInv'
<1> DEFINE k == core.k  f == core.f
<1>1. /\ core \in Cores /\ f \in Functions /\ k \in 1 .. Len(tramp)
      /\ to \in Targets /\ to # Nowhere
    BY RealTypes DEF CoreInv, RunsTrampoline, RealType
<1>2. tramp \in Seq(Words) /\ Len(tramp) \in 1 .. Window
    <2>1. PICK g \in Functions : g = core.f
        BY <1>1
    <2> QED
        BY <1>1, <2>1, TrampolineLength
<1>3. Word = tramp[k]
    BY <1>1 DEF Word, RunsTrampoline
<1>4. CASE tramp = <<Lead("adrp", to), Lead("add", to), W("br", 0)>> /\ Len(tramp) = 3
    <2>1. /\ tramp[1].op = "adrp" /\ tramp[2].op = "add" /\ tramp[2].to = to /\ tramp[3].op = "br"
        BY <1>4 DEF Lead, W
    <2>2. CASE k = 1
        <3>1. core' = GoTo(core, k + 1)
            BY <1>3, <2>1, <2>2 DEF Execute
        <3>2. core = [core EXCEPT !.x17 = core.x17] /\ core.x17 \in Targets
            BY <1>1 DEF Cores
        <3>3. PICK x \in Targets : core' = GoTo([core EXCEPT !.x17 = x], k + 1)
            BY <3>1, <3>2
        <3>4. k + 1 <= Len(tramp) /\ Len(tramp) <= Window /\ tramp[k + 1].op = "add"
            BY <1>4, <2>1, <2>2 DEF Window
        <3> QED
            BY <1>2, <3>3, <3>4, AlongStep
    <2>3. CASE k = 2
        <3>1. core' = GoTo([core EXCEPT !.x17 = to], k + 1)
            BY <1>3, <2>1, <2>3 DEF Execute
        <3>2. k + 1 <= Len(tramp) /\ Len(tramp) <= Window /\ tramp[k + 1].op = "br"
            BY <1>4, <2>1, <2>3 DEF Window
        <3> QED
            BY <1>1, <1>2, <3>1, <3>2, AlongStep
    <2>4. CASE k = 3
        <3>1. core.x17 = to
            BY <2>1, <2>4 DEF RunsTrampoline
        <3>2. core' = Enter(core, to)
            BY <1>1, <1>3, <2>1, <2>4, <3>1 DEF Execute
        <3> QED
            BY <3>2, EnterStep
    <2> QED
        BY <1>1, <1>4, <2>2, <2>3, <2>4
<1>5. CASE tramp = <<W("ldr", 2), W("br", 0), Lead("low", to), Lead("high", to)>> /\ Len(tramp) = 4
    <2>1. /\ tramp[1].op = "ldr" /\ tramp[1].arg = 2 /\ tramp[2].op = "br"
          /\ tramp[3].op = "low" /\ tramp[4].op = "high" /\ tramp[3].to = to /\ tramp[4].to = to
        BY <1>5 DEF Lead, W
    <2>2. core.at = "fn" /\ \A j \in 1 .. 4 : mem[f][j] = tramp[j]
        BY <1>5 DEF RunsTrampoline, Window
    <2>3. CASE k = 1
        <3>1. Literal(f, 3) = to
            BY <2>1, <2>2 DEF Literal, Window
        <3>2. core' = GoTo([core EXCEPT !.x17 = to], k + 1)
            BY <1>3, <2>1, <2>3, <3>1 DEF Execute
        <3>3. k + 1 <= Len(tramp) /\ Len(tramp) <= Window /\ tramp[k + 1].op = "br"
            BY <1>5, <2>1, <2>3 DEF Window
        <3> QED
            BY <1>1, <1>2, <3>2, <3>3, AlongStep
    <2>4. CASE k = 2
        <3>1. core.x17 = to
            BY <2>1, <2>4 DEF RunsTrampoline
        <3>2. core' = Enter(core, to)
            BY <1>1, <1>3, <2>1, <2>4, <3>1 DEF Execute
        <3> QED
            BY <3>2, EnterStep
    <2>5. k # 3 /\ k # 4
        BY <2>1 DEF RunsTrampoline
    <2> QED
        BY <1>1, <1>5, <2>3, <2>4, <2>5
<1>6. CASE tramp = <<Lead("b", to)>> /\ Len(tramp) = 1
    <2>1. k = 1 /\ tramp[1].op = "b" /\ tramp[1].to = to
        BY <1>1, <1>6 DEF Lead
    <2>2. core' = Enter(core, to)
        BY <1>3, <2>1 DEF Execute
    <2> QED
        BY <2>2, EnterStep
<1> QED
    <2>1. PICK g \in Functions : g = core.f
        BY <1>1
    <2> QED
        BY <1>1, <1>4, <1>5, <1>6, <2>1, TrampolineKinds

-----------------------------------------------------------------------------
(* A call, and what a replacement or handler calls.                        *)

(* The first word of a trampoline is code.                                 *)
LEMMA StartsWithCode ==
    ASSUME Arch = "arm64", NEW f \in Functions, NEW to \in Reals, NEW tramp \in Tramps(f, to)
    PROVE  /\ Len(tramp) \in 1 .. Window /\ 1 \in 1 .. Len(tramp)
           /\ tramp[1].op \notin {"low", "high", "br"}
<1>1. to \in Targets
    BY RealTypes DEF RealType
<1>2. Len(tramp) \in 1 .. Window
    BY <1>1, TrampolineLength
<1>3. tramp[1] \in {Lead("adrp", to), W("ldr", 2), Lead("b", to)}
    <2>1. \/ tramp = <<Lead("adrp", to), Lead("add", to), W("br", 0)>>
          \/ tramp = <<W("ldr", 2), W("br", 0), Lead("low", to), Lead("high", to)>>
          \/ tramp = <<Lead("b", to)>>
        BY <1>1, TrampolineKinds
    <2> QED
        BY <2>1
<1>4. tramp[1].op \in {"adrp", "ldr", "b"}
    BY <1>3 DEF Lead, W
<1> QED
    BY <1>2, <1>4 DEF Window

LEMMA CallStep ==
    ASSUME Arch = "arm64", TypeOK, UndoInv, StackInv, NEW f \in Functions, Call(f)
    PROVE  CoreInv'
<1>1. /\ core'.at = "fn" /\ core'.f = f /\ core'.k = 1 /\ core'.insns = <<>> /\ core'.ran = <<>>
      /\ ~core'.disturbed
    BY DEF Call, Idle
<1>2. core' \in Cores
    <2>1. Nowhere \in Targets
        BY TargetTypes
    <2>2. Idle \in Cores
        BY <2>1 DEF Idle, Cores, Places
    <2> QED
        BY <2>2 DEF Call, Cores, Places
<1>3. UNCHANGED <<mem, list, origin, relocated>>
    BY DEF Call, CoreOnly
<1>4. Visited(0)'
    BY <1>1, <1>3, VisitNone
<1>5. EntriesOf(f)' = EntriesOf(f)
    BY <1>3 DEF EntriesOf
<1>6. Len(list) \in Nat /\ 0 \in 0 .. Len(list')
    BY <1>3 DEF TypeOK
<1>7. CASE EntriesOf(f) = {}
    <2>1. \A j \in 1 .. Window : mem[f][j] = W("insn", j)
        BY <1>7, NoEntryIsOwn
    <2>2. VisitedAll'
        BY <1>1, <1>4, <1>5, <1>6, <1>7 DEF VisitedAll
    <2>3. core'.k \in 1 .. Window /\ core'.insns = [j \in 1 .. core'.k - 1 |-> j]
        BY <1>1 DEF Window
    <2>4. RunsOwn'
        BY <1>1, <1>3, <2>1, <2>2, <2>3 DEF RunsOwn
    <2> QED
        BY <1>1, <1>2, <2>4 DEF CoreInv
<1>8. CASE Newest(f) \in EntriesOf(f) /\ Adjacent(f, 0, Newest(f))
    <2>1. PICK q \in EntriesOf(f), to \in Reals : q = Newest(f) /\ to = list[q].to /\ Live(f, to)
        BY <1>8 DEF StackInv, EntriesGood, Live
    <2>2. PICK tramp \in Tramps(f, to) :
             \A k \in 1 .. Window : mem[f][k] = IF k <= Len(tramp) THEN tramp[k] ELSE W("insn", k)
        BY <1>8, <2>1 DEF StackInv, Chained
    <2>3. /\ Len(tramp) \in 1 .. Window /\ 1 \in 1 .. Len(tramp)
          /\ tramp[1].op \notin {"low", "high", "br"}
        BY StartsWithCode
    <2>4. \A j \in 1 .. Len(tramp) : mem[f][j] = tramp[j]
        BY <2>2, <2>3 DEF Window
    <2>5. Live(f, to)' /\ Adjacent(f, 0, q)'
        BY <1>3, <1>5, <1>8, <2>1 DEF Live, CopyOf, NextHop, Adjacent
    <2>6. \E p \in 0 .. Len(list') : \E m \in EntriesOf(core.f)' :
             Visited(p)' /\ Adjacent(core.f, p, m)' /\ list'[m].to = to
        BY <1>1, <1>3, <1>4, <1>5, <1>6, <2>1, <2>5
    <2>7. (tramp \in Tramps(core.f, to))'
        BY <1>1 DEF Tramps, GenerateNormalTrampolineBuffer, NearTrampoline
    <2>8. RunsTrampoline(to, tramp)'
        BY <1>1, <1>3, <2>3, <2>4, <2>5, <2>6, <2>7 DEF RunsTrampoline
    <2> QED
        BY <1>1, <1>2, <2>7, <2>8 DEF CoreInv
<1> QED
    BY <1>7, <1>8, NewestIsFirst

LEMMA CallOriginStep ==
    ASSUME Arch = "arm64", TypeOK, UndoInv, StackInv, CoreInv, CallOrigin
    PROVE  CoreInv'
<1>1. UNCHANGED <<mem, list, origin, relocated>>
    BY DEF CallOrigin, CoreOnly
<1>2. PICK f \in Functions, to \in Reals : f = core.f /\ to = core.to /\ Live(f, to)
    BY DEF CallOrigin, CoreInv, Live
<1>3. core \in Cores /\ core.at = "new" /\ core.insns = <<>>
    BY DEF CallOrigin, CoreInv
<1> DEFINE ws == CopyOf(f, to)  c == [core EXCEPT !.at = "copy", !.words = ws]
<1>4. /\ ws \in Seq(Words) /\ used[f] = {Len(ws)} /\ Len(ws) \in 1 .. Window
      /\ 1 <= Len(ws) /\ Len(ws) <= Window
    <2>1. ws \in Seq(Words) /\ used[f] = {Len(ws)}
        BY <1>2 DEF StackInv, CopiesGood
    <2>2. Len(ws) \in 1 .. Window
        BY <2>1 DEF TypeOK
    <2>3. \A n \in 1 .. Window : 1 <= n /\ n <= Window
        BY DEF Window
    <2> QED
        BY <2>1, <2>2, <2>3, Zenon
<1>5. CASE Len(core.ran) > MaxHooks
    <2>1. core' = [core EXCEPT !.at = "looping"]
        BY <1>5 DEF CallOrigin
    <2>2. core' \in Cores /\ core'.at = "looping" /\ core'.f = core.f
        BY <1>3, <2>1 DEF Cores, Places
    <2> QED
        BY <1>2, <2>2 DEF CoreInv
<1>6. CASE ~(Len(core.ran) > MaxHooks)
    <2>1. core' = GoTo(c, 1)
        BY <1>2, <1>6 DEF CallOrigin, CopyOf
    <2>2. c \in Cores /\ c.at = "copy" /\ c.words = ws /\ c.f = f /\ c.insns = <<>>
          /\ c.ran = core.ran /\ c.disturbed = core.disturbed
        <3> HIDE DEF ws
        <3> QED
            BY <1>2, <1>3, <1>4 DEF Cores, Places
    <2> HIDE DEF c, ws
    <2>3. 1 <= Len(c.words)
        BY <1>4, <2>2, Zenon
    <2>4. /\ core' \in Cores /\ core'.at = "copy" /\ core'.k = 1 /\ core'.words = ws /\ core'.f = f
          /\ core'.insns = <<>> /\ core'.ran = core.ran /\ core'.disturbed = core.disturbed
        BY <2>1, <2>2, <2>3, GoToFields DEF SameBut
    <2>5. ASSUME Own(ws), ~core.disturbed => VisitedAll PROVE CoreInv'
        <3>1. \A j \in Len(ws) + 1 .. Window : mem[f][j] = W("insn", j)
            <4> TAKE j \in Len(ws) + 1 .. Window
            <4>1. j \in 1 .. Window /\ ~(j <= Len(ws)) /\ used[f] \subseteq {Len(ws)}
                BY <1>4 DEF Window
            <4> QED
                BY <1>4, <4>1, TailIsOwn
        <3>2. ~core'.disturbed => VisitedAll'
            BY <1>1, <1>2, <2>4, <2>5, VisitSame
        <3>3. core'.k \in 1 .. Window /\ core'.insns = [j \in 1 .. core'.k - 1 |-> j]
            BY <2>4 DEF Window
        <3>4. core'.k <= Len(core'.words) /\ Len(core'.words) <= Window
            BY <1>4, <2>4, Zenon
        <3>5. RunsOwn'
            BY <1>1, <2>4, <2>5, <3>1, <3>2, <3>3, <3>4 DEF RunsOwn, Own
        <3> QED
            BY <2>4, <3>5 DEF CoreInv
    <2>6. ASSUME NEW t \in Reals, Live(f, t), Movable(f, t, ws),
                 ~core.disturbed => \E p \in 0 .. Len(list) : \E q \in EntriesOf(f) :
                                       Visited(p) /\ Adjacent(f, p, q) /\ list[q].to = t
          PROVE  CoreInv'
        <3>1. ws \in Tramps(f, t) /\ Len(ws) # Window
            BY <2>6 DEF Movable
        <3>2. 1 \in 1 .. Len(ws) /\ ws[1].op \notin {"low", "high", "br"}
            BY <3>1, StartsWithCode
        <3>3. Live(f, t)'
            BY <1>1, <2>6 DEF Live, CopyOf, NextHop
        <3>4. (ws \in Tramps(core.f, t))'
            <4>1. PICK tr : tr = ws
                OBVIOUS
            <4>2. ws' = ws
                BY <1>1 DEF ws, CopyOf, NextHop
            <4> QED
                BY <2>4, <3>1, <4>2 DEF Tramps, GenerateNormalTrampolineBuffer, NearTrampoline
        <3>5. ~core'.disturbed => \E p \in 0 .. Len(list') : \E q \in EntriesOf(core.f)' :
                                     Visited(p)' /\ Adjacent(core.f, p, q)' /\ list'[q].to = t
            BY <1>1, <1>2, <2>4, <2>6, VisitSame
        <3>6. PICK tr : tr = ws
            OBVIOUS
        <3>7. (tr \in Tramps(core.f, t))'
            BY <2>4, <3>1, <3>6 DEF Tramps, GenerateNormalTrampolineBuffer, NearTrampoline
        <3>8. RunsTrampoline(t, tr)'
            BY <2>4, <3>1, <3>2, <3>3, <3>5, <3>6, <3>7 DEF RunsTrampoline
        <3> QED
            BY <2>4, <3>7, <3>8 DEF CoreInv
    <2>7. CASE core.disturbed
        BY <1>2, <2>5, <2>6, <2>7 DEF StackInv, CopiesGood, ws
    <2>8. CASE ~core.disturbed
        <3>1. PICK p \in EntriesOf(f) : Visited(p) /\ list[p].to = to
            BY <1>2, <1>3, <2>8 DEF CoreInv
        <3>2. ws = list[p].origin_chunk
            BY <3>1 DEF StackInv, EntriesGood, ws
        <3>3. p \in Nat /\ p \in 0 .. Len(list) /\ EntriesOf(f) \subseteq Nat
            BY EntriesAreIndices
        <3>4. CASE \A j \in EntriesOf(f) : j <= p
            <4>1. Own(ws)
                BY <3>2, <3>4 DEF StackInv, Chained
            <4>2. VisitedAll
                BY <1>2, <3>1, <3>3, <3>4 DEF VisitedAll
            <4> QED
                BY <2>5, <4>1, <4>2
        <3>5. CASE \E j \in EntriesOf(f) : ~(j <= p)
            <4>1. PICK m \in EntriesOf(f) : p < m
                BY <3>3, <3>5
            <4>2. PICK q \in EntriesOf(f) : Adjacent(f, p, q)
                BY <3>3, <4>1, NextExists
            <4>3. Movable(f, list[q].to, ws)
                BY <3>2, <4>2 DEF StackInv, Chained
            <4>4. Live(f, list[q].to)
                BY DEF StackInv, EntriesGood
            <4>5. PICK t \in Reals : t = list[q].to
                BY <4>4 DEF Live
            <4> QED
                BY <2>6, <3>1, <3>3, <4>2, <4>3, <4>4, <4>5
        <3> QED
            BY <3>4, <3>5
    <2> QED
        BY <2>7, <2>8
<1> QED
    BY <1>5, <1>6

LEMMA ReturnStep ==
    ASSUME Return
    PROVE  CoreInv'
<1>1. Idle \in Cores /\ Idle.at = "idle"
    BY TargetTypes DEF Idle, Cores, Places
<1> QED
    BY <1>1 DEF Return, CoreInv

-----------------------------------------------------------------------------
(* Every step of the specification.                                        *)

LEMMA HookStep ==
    ASSUME Arch = "arm64", TypeOK, UndoInv, StackInv, CoreInv, NEW f \in Functions, NEW to \in Reals,
           NEW tramp \in GenerateTrampolineBuffer(f, to), PushWith(f, to, tramp)
    PROVE  StackInv' /\ CoreInv'
<1>1. StackInv'
    BY PushKeepsStack
<1>2. \A g \in Functions, t \in Reals : Live(g, t) => Live(g, t)'
    BY LiveStays
<1>3. Outside /\ core' = [core EXCEPT !.disturbed = TRUE]
    BY DEF PushWith, Install
<1> QED
    BY <1>1, <1>2, <1>3, CoreDisturbed

LEMMA InstallSaves ==
    ASSUME TypeOK, NEW f, NEW to, NEW tramp, Install(f, to, tramp)
    PROVE  list'[1].origin_chunk = OriginChunk(f, Len(tramp))
<1> DEFINE chunk == OriginChunk(f, Len(tramp))
           e == [address |-> AddressOf(f), to |-> to, origin_chunk |-> chunk]
<1>1. list' = <<e>> \o list /\ list \in Seq(Entries) /\ e.origin_chunk = chunk
    BY DEF Install, AddHookEntry, TypeOK
<1> HIDE DEF e, chunk
<1>2. list'[1] = e
    BY <1>1
<1> QED
    BY <1>1, <1>2 DEF chunk

LEMMA DobbyHookStep ==
    ASSUME Arch = "arm64", TypeOK, UndoInv, StackInv, CoreInv, careful',
           NEW f \in Functions, NEW r \in Replacements, DobbyHook(f, r)
    PROVE  StackInv' /\ CoreInv'
<1>1. CASE AlreadyHooked(f, r)
    <2>1. Refuse(f, r)
        BY <1>1 DEF DobbyHook
    <2> QED
        BY <2>1, StackSame, CoreSame DEF Refuse
<1>2. CASE ~AlreadyHooked(f, r)
    <2>1. PICK tramp \in GenerateTrampolineBuffer(f, Replacement(r)) :
             /\ Install(f, Replacement(r), tramp)
             /\ origin' = [origin EXCEPT ![<<f, r>>] = OriginChunk(f, Len(tramp))]
             /\ UNCHANGED relocated
        BY <1>2 DEF DobbyHook
    <2>2. PICK to \in Reals : to = Replacement(r)
        BY DEF Reals
    <2>3. ~to.closure /\ to.fn = r
        BY <2>2 DEF Replacement
    <2>4. Newest(f) = 0 \/ list[Newest(f)].to # to
        BY <1>2, <2>2 DEF AlreadyHooked
    <2>5. list'[1].origin_chunk = OriginChunk(f, Len(tramp))
        BY <2>1, InstallSaves
    <2>6. ASSUME NEW g \in Functions, NEW t \in Reals
          PROVE  CopyOf(g, t)' = IF g = f /\ Alike(t, to) THEN list'[1].origin_chunk ELSE CopyOf(g, t)
        <3>1. CASE t.closure
            <4>1. ~Alike(t, to)
                BY <2>3, <3>1 DEF Alike
            <4> QED
                BY <2>1, <3>1, <4>1 DEF CopyOf, NextHop
        <3>2. CASE ~t.closure
            <4>1. t.fn \in Replacements /\ t = Replacement(t.fn)
                BY <3>2, RealTypes DEF RealType
            <4>2. Alike(t, to) = (t.fn = r)
                BY <2>2, <2>3, <4>1 DEF Alike
            <4>3. CopyOf(g, t)' = origin'[<<g, t.fn>>] /\ CopyOf(g, t) = origin[<<g, t.fn>>]
                BY <3>2 DEF CopyOf
            <4>4. origin'[<<g, t.fn>>] =
                     IF g = f /\ t.fn = r THEN OriginChunk(f, Len(tramp)) ELSE origin[<<g, t.fn>>]
                BY <2>1, <4>1 DEF TypeOK
            <4> QED
                BY <2>5, <4>2, <4>3, <4>4
        <3> QED
            BY <3>1, <3>2
    <2>7. PushWith(f, to, tramp)
        BY <2>1, <2>2, <2>3, <2>4, <2>6 DEF PushWith, Linked
    <2> QED
        BY <2>1, <2>2, <2>7, HookStep
<1> QED
    BY <1>1, <1>2

LEMMA DobbyInstrumentStep ==
    ASSUME Arch = "arm64", TypeOK, UndoInv, StackInv, CoreInv, careful',
           NEW f \in Functions, NEW h \in Handlers, DobbyInstrument(f, h)
    PROVE  StackInv' /\ CoreInv'
<1>1. CASE AlreadyInstrumented(f, h)
    <2>1. Refuse(f, h)
        BY <1>1 DEF DobbyInstrument
    <2> QED
        BY <2>1, StackSame, CoreSame DEF Refuse
<1>2. CASE ~AlreadyInstrumented(f, h)
    <2>1. PICK n, to : n = calls + 1 /\ to = CreateClosureTrampoline(h, n)
        OBVIOUS
    <2>2. to.closure /\ to.fn = h /\ to.entry = n
        BY <2>1 DEF CreateClosureTrampoline
    <2>3. PICK tramp \in GenerateTrampolineBuffer(f, to) :
             /\ Install(f, to, tramp)
             /\ relocated' = [relocated EXCEPT ![<<f, n>>] = OriginChunk(f, Len(tramp))]
             /\ UNCHANGED origin
        BY <1>2, <2>1, <2>2 DEF DobbyInstrument, InstrumentRoute
    <2>4. n \in 1 .. MaxHooks /\ calls \in Nat
        BY <2>1, <2>3, InterceptorAssumption DEF Install, TypeOK
    <2>5. to \in Reals
        BY <2>1, <2>4 DEF Reals
    <2>6. list'[1].origin_chunk = OriginChunk(f, Len(tramp))
        BY <2>3, InstallSaves
    <2>7. ASSUME NEW g \in Functions, NEW t \in Reals
          PROVE  CopyOf(g, t)' = IF g = f /\ Alike(t, to) THEN list'[1].origin_chunk ELSE CopyOf(g, t)
        <3>1. CASE ~t.closure
            <4>1. ~Alike(t, to)
                BY <2>2, <3>1 DEF Alike
            <4> QED
                BY <2>3, <3>1, <4>1 DEF CopyOf
        <3>2. CASE t.closure
            <4>1. t.entry \in 1 .. MaxHooks
                BY <3>2, RealTypes DEF RealType
            <4>2. Alike(t, to) = (t.entry = n)
                BY <2>2, <3>2 DEF Alike
            <4>3. CopyOf(g, t)' = relocated'[<<g, t.entry>>] /\ CopyOf(g, t) = relocated[<<g, t.entry>>]
                BY <3>2 DEF CopyOf, NextHop
            <4>4. relocated'[<<g, t.entry>>] =
                     IF g = f /\ t.entry = n THEN OriginChunk(f, Len(tramp)) ELSE relocated[<<g, t.entry>>]
                BY <2>3, <4>1 DEF TypeOK
            <4> QED
                BY <2>6, <4>2, <4>3, <4>4
        <3> QED
            BY <3>1, <3>2
    <2>8. ~to.closure => Newest(f) = 0 \/ list[Newest(f)].to # to
        BY <2>2
    <2>9. PushWith(f, to, tramp)
        BY <2>1, <2>2, <2>3, <2>7, <2>8 DEF PushWith, Linked
    <2> QED
        BY <2>3, <2>5, <2>9, HookStep
<1> QED
    BY <1>1, <1>2

LEMMA DobbyDestroyStep ==
    ASSUME Arch = "arm64", TypeOK, UndoInv, StackInv, CoreInv, NEW f \in Functions, DobbyDestroy(f)
    PROVE  StackInv' /\ CoreInv'
<1>1. UNCHANGED <<origin, relocated, calls, used>> /\ Outside
    BY DEF DobbyDestroy
<1>2. CASE Newest(f) = 0
    <2>1. UNCHANGED <<mem, list, core>>
        BY <1>2 DEF DobbyDestroy, Newest
    <2> QED
        BY <1>1, <2>1, StackSame, CoreSame
<1>3. CASE Newest(f) # 0
    <2>1. core' = [core EXCEPT !.disturbed = TRUE]
        BY <1>3 DEF DobbyDestroy, Newest
    <2>2. \A g \in Functions, t \in Reals : Live(g, t) => Live(g, t)'
        BY <1>1, SameCopies
    <2>3. CoreInv'
        BY <1>1, <2>1, <2>2, CoreDisturbed
    <2>4. CASE UNCHANGED <<mem, list>>
        BY <1>1, <2>3, <2>4, StackSame
    <2>5. CASE \E i \in DOMAIN list : Popped(f, i)
        BY <1>1, <2>3, <2>5, PopKeepsStack
    <2> QED
        BY <2>4, <2>5, DestroyPops
<1> QED
    BY <1>2, <1>3

LEMMA RunStep ==
    ASSUME Arch = "arm64", TypeOK, UndoInv, StackInv, CoreInv,
           Run \/ \E f \in Functions : Call(f)
    PROVE  StackInv' /\ CoreInv'
<1>1. UNCHANGED <<mem, list, origin, relocated, used, calls>>
    BY DEF Run, Step, CallOrigin, Return, Call, CoreOnly
<1>2. StackInv'
    BY <1>1, StackSame
<1>3. CASE Step
    <2>1. core.at \in {"fn", "copy"} /\ core' = Execute(core, Word)
        BY <1>3 DEF Step
    <2>2. RunsOwn \/ \E to \in Reals : \E tramp \in Tramps(core.f, to) : RunsTrampoline(to, tramp)
        BY <2>1 DEF CoreInv
    <2>3. CASE RunsOwn
        BY <1>1, <1>2, <2>1, <2>3, OwnStep
    <2>4. ASSUME NEW to \in Reals, NEW tramp \in Tramps(core.f, to), RunsTrampoline(to, tramp)
          PROVE  CoreInv'
        BY <1>1, <2>1, <2>4, TrampolineStep
    <2> QED
        BY <1>2, <2>2, <2>3, <2>4
<1> QED
    BY <1>2, <1>3, CallOriginStep, ReturnStep, CallStep DEF Run

LEMMA CallInvInit == Init => CallInv
<1> SUFFICES ASSUME Init PROVE CallInv
    OBVIOUS
<1>1. DOMAIN list = {} /\ core = Idle
    BY DEF Init
<1>2. \A f : EntriesOf(f) = {}
    BY <1>1 DEF EntriesOf
<1>3. \A f \in Functions, to \in Reals : CopyOf(f, to) = <<>>
    <2> TAKE f \in Functions, to \in Reals
    <2>1. CASE to.closure
        <3>1. to.entry \in 1 .. MaxHooks
            BY <2>1, RealTypes DEF RealType
        <3> QED
            BY <2>1, <3>1 DEF Init, CopyOf, NextHop
    <2>2. CASE ~to.closure
        <3>1. to.fn \in Replacements
            BY <2>2, RealTypes DEF RealType
        <3> QED
            BY <2>2, <3>1 DEF Init, CopyOf
    <2> QED
        BY <2>1, <2>2
<1>4. StackInv
    BY <1>2, <1>3 DEF StackInv, CopiesGood, EntriesGood, Chained, Live
<1>5. CoreInv
    <2>1. Idle \in Cores /\ Idle.at = "idle"
        BY TargetTypes DEF Idle, Cores, Places
    <2> QED
        BY <1>1, <2>1 DEF CoreInv
<1> QED
    BY <1>1, <1>4, <1>5 DEF CallInv

(* On arm64, every step keeps what a careful stack and its thread are.     *)
LEMMA Arm64Step ==
    ASSUME Arch = "arm64", TypeOK, UndoInv, careful', careful => StackInv /\ CoreInv, [Next]_vars
    PROVE  StackInv' /\ CoreInv'
<1>1. careful
    <2>1. ASSUME NEW f, NEW to, NEW tramp, Install(f, to, tramp) PROVE careful
        BY <2>1 DEF Install
    <2>2. ASSUME NEW f, NEW r, DobbyHook(f, r) PROVE careful
        BY <2>1, <2>2 DEF DobbyHook, Refuse
    <2>3. ASSUME NEW f, NEW h, DobbyInstrument(f, h) PROVE careful
        BY <2>1, <2>3 DEF DobbyInstrument, InstrumentRoute, Refuse
    <2>4. CASE \/ DobbyHookNull \/ dobby_enable_near_branch_trampoline
               \/ dobby_disable_near_branch_trampoline \/ (\E f \in Functions : DobbyDestroy(f) \/ Call(f))
               \/ Run \/ UNCHANGED vars
        BY <2>4 DEF DobbyHookNull, Refuse, dobby_enable_near_branch_trampoline,
                    dobby_disable_near_branch_trampoline, SetPlugin, DobbyDestroy,
                    Run, Step, CallOrigin, Return, Call, CoreOnly, vars
    <2> QED
        BY <2>2, <2>3, <2>4 DEF Next
<1>2. StackInv /\ CoreInv
    BY <1>1
<1>3. CASE \/ DobbyHookNull \/ dobby_enable_near_branch_trampoline
           \/ dobby_disable_near_branch_trampoline \/ UNCHANGED vars
    <2>1. UNCHANGED <<core, mem, list, origin, relocated, used>> /\ calls' \in {calls, calls + 1}
        BY <1>3 DEF DobbyHookNull, Refuse, dobby_enable_near_branch_trampoline,
                    dobby_disable_near_branch_trampoline, SetPlugin, vars
    <2> QED
        BY <1>2, <2>1, StackSame, CoreSame
<1>4. ASSUME NEW f \in Functions, NEW r \in Replacements, DobbyHook(f, r) PROVE StackInv' /\ CoreInv'
    BY <1>2, <1>4, DobbyHookStep
<1>5. ASSUME NEW f \in Functions, NEW h \in Handlers, DobbyInstrument(f, h) PROVE StackInv' /\ CoreInv'
    BY <1>2, <1>5, DobbyInstrumentStep
<1>6. ASSUME NEW f \in Functions, DobbyDestroy(f) PROVE StackInv' /\ CoreInv'
    BY <1>2, <1>6, DobbyDestroyStep
<1>7. CASE Run \/ \E f \in Functions : Call(f)
    BY <1>2, <1>7, RunStep
<1> QED
    BY <1>3, <1>4, <1>5, <1>6, <1>7 DEF Next

LEMMA CallInvStep == TypeOK /\ UndoInv /\ CallInv /\ [Next]_vars => CallInv'
<1> SUFFICES ASSUME TypeOK, UndoInv, CallInv, [Next]_vars PROVE CallInv'
    OBVIOUS
<1>1. CASE Arch = "arm64"
    BY <1>1, Arm64Step DEF CallInv
<1>2. CASE Arch # "arm64"
    <2>1. core \in {Idle, [Idle EXCEPT !.disturbed = TRUE]} /\ core.at = "idle"
        BY <1>2 DEF CallInv, Idle
    <2>2. ~Run /\ \A f : ~Call(f)
        BY <1>2, <2>1 DEF Run, Step, CallOrigin, Return, Call
    <2>3. UNCHANGED core \/ core' = [core EXCEPT !.disturbed = TRUE]
        <3>1. ASSUME NEW f, NEW r, DobbyHook(f, r) PROVE UNCHANGED core \/ core' = [core EXCEPT !.disturbed = TRUE]
            BY <3>1 DEF DobbyHook, Refuse, Install
        <3>2. ASSUME NEW f, NEW h, DobbyInstrument(f, h)
              PROVE  UNCHANGED core \/ core' = [core EXCEPT !.disturbed = TRUE]
            BY <3>2 DEF DobbyInstrument, InstrumentRoute, Refuse, Install
        <3>3. CASE \/ DobbyHookNull \/ dobby_enable_near_branch_trampoline
                   \/ dobby_disable_near_branch_trampoline \/ (\E f \in Functions : DobbyDestroy(f))
                   \/ UNCHANGED vars
            BY <3>3 DEF DobbyHookNull, Refuse, dobby_enable_near_branch_trampoline,
                        dobby_disable_near_branch_trampoline, SetPlugin, DobbyDestroy, vars
        <3> QED
            BY <2>2, <3>1, <3>2, <3>3 DEF Next
    <2>4. [core EXCEPT !.disturbed = TRUE] = [Idle EXCEPT !.disturbed = TRUE]
        BY <2>1 DEF Idle
    <2> QED
        BY <1>2, <2>1, <2>3, <2>4 DEF CallInv
<1> QED
    BY <1>1, <1>2

-----------------------------------------------------------------------------
(* Theorems.                                                               *)

LEMMA CallInvAlways == Spec => [](TypeOK /\ CallInv)
<1>1. Init => CallInv
    BY CallInvInit
<1>2. TypeOK /\ UndoInv /\ CallInv /\ [Next]_vars => CallInv'
    BY CallInvStep
<1> QED
    BY <1>1, <1>2, UndoAlways, PTL DEF Spec

(* However many hooks and instrumentations are stacked on however many     *)
(* functions, and whichever of them come and go while the thread is inside *)
(* a replacement or a handler, a call of a hooked function that reaches    *)
(* its body has run the function's own first instructions, all of them     *)
(* once and in order, and never runs into anything else.                   *)
THEOREM OriginalRunsOnceAlways == Spec => []OriginalRunsOnce
<1>1. TypeOK /\ CallInv => OriginalRunsOnce
    <2> SUFFICES ASSUME CallInv, careful
                 PROVE  core.at # "crashed" /\ (core.at = "body" => core.insns = [k \in 1 .. Window |-> k])
        BY DEF OriginalRunsOnce
    <2>1. CASE Arch = "arm64"
        BY <2>1 DEF CallInv, CoreInv, Cores, Places
    <2>2. CASE Arch # "arm64"
        <3>1. core.at = "idle"
            BY <2>2 DEF CallInv, Idle
        <3> QED
            BY <3>1
    <2> QED
        BY <2>1, <2>2
<1> QED
    BY <1>1, CallInvAlways, PTL

(* A call no hook or unhook disturbs runs every replacement and handler of *)
(* the function once, in the order of hook_entry_list_.                    *)
THEOREM NewestRunsFirstAlways == Spec => []NewestRunsFirst
<1>1. TypeOK /\ CallInv => NewestRunsFirst
    <2> SUFFICES ASSUME CallInv, careful, core.at = "body", ~core.disturbed
                 PROVE  \E at \in [DOMAIN core.ran -> EntriesOf(core.f)] :
                            /\ \A n \in DOMAIN at : core.ran[n] = list[at[n]].to.fn
                            /\ \A m, n \in DOMAIN at : m < n => at[m] < at[n]
                            /\ \A i \in EntriesOf(core.f) : \E n \in DOMAIN at : at[n] = i
        BY DEF NewestRunsFirst
    <2>1. Arch = "arm64"
        BY DEF CallInv, Idle
    <2>2. VisitedAll
        BY <2>1 DEF CallInv, CoreInv
    <2> QED
        BY <2>2 DEF VisitedAll, Visited
<1> QED
    BY <1>1, CallInvAlways, PTL
=============================================================================
