---------------------------- MODULE ArenaProofs ----------------------------
(***************************************************************************)
(* Proofs about Arena for any address space, page size and chunk sizes,    *)
(* any initial mappings and any number of requests.                        *)
(*                                                                         *)
(* PageInv is about the lists of pages and what was cut from them; which   *)
(* pages the near arena tries does not matter for it.  RequestInv is about *)
(* the search for a page and needs little of PageInv.                      *)
(***************************************************************************)
EXTENDS Arena, FiniteSetTheorems, TLAPS

Arenas == {"any", "near"}

(* A page in a list stays mapped; with the permission of its entry, as     *)
(* long as the page is sound.                                              *)
EntriesMapped ==
    \A a \in Arenas : \A i \in DOMAIN pages[a] :
        /\ vm[pages[a][i].page].owner = "dobby"
        /\ pages[a][i].page \notin replaced =>
              vm[pages[a][i].page] = Anon(pages[a][i].perm)

(* A sound page is in one list, once.                                      *)
EntriesUnique ==
    \A a, b \in Arenas : \A i \in DOMAIN pages[a], j \in DOMAIN pages[b] :
        pages[a][i].page = pages[b][j].page /\ pages[a][i].page \notin replaced => a = b /\ i = j

(* A chunk lies below the cursor of an entry of its page.                  *)
BelowCursor(c) ==
    \E i \in DOMAIN pages[c.arena] :
        /\ pages[c.arena][i].page = c.page
        /\ pages[c.arena][i].perm = c.perm
        /\ c.off + c.size <= pages[c.arena][i].cursor

ChunksBelowCursor == \A i \in DOMAIN chunks : Sound(chunks[i]) => BelowCursor(chunks[i])

(* A chunk lies on mappings that only a MAP_FIXED takes away, and what its *)
(* user has filled is not zero: no cave is found there.                    *)
Held(c, v, b, lost) ==
    \A a \in Chosen(c) :
        \/ \E p \in lost : a \in PageBytes(p)
        \/ /\ \E p \in Pages : a \in PageBytes(p) /\ v[p] \notin {Unmapped, Other}
           /\ a \in Filled(c) => a \in b

Within(c) == c.arena # "cave" => c.off + c.size <= PageSize

ChunksHeld ==
    \A i \in DOMAIN chunks : Held(chunks[i], vm, bytes, replaced) /\ Within(chunks[i])

(* ChunksDisjoint for two chunks, c the older one.                         *)
Apart(c, d, lost) ==
    \A a \in Chosen(c) \cap Chosen(d) :
        \/ \E p \in lost : a \in PageBytes(p)
        \/ d.arena = "cave" /\ a \notin Filled(c)
        \/ c.arena = "cave" /\ d.arena # "cave"

PageInv ==
    EntriesMapped /\ EntriesUnique /\ ChunksBelowCursor /\ ChunksHeld /\ ChunksDisjoint

IndInv == TypeOK /\ PageInv

-----------------------------------------------------------------------------
LEMMA SizesAreNats == \A size \in Sizes : size \in Nat /\ size > 0
    BY ArenaAssumption

(* Division with remainder.                                                *)
LEMMA DivMod ==
    ASSUME NEW a \in Int, NEW m \in Nat \ {0}
    PROVE  a % m \in 0 .. m - 1 /\ a \div m \in Int /\ a = m * (a \div m) + (a % m)
<1>1. a % m \in 0 .. m - 1
    OBVIOUS
<1>2. a \div m \in Int
    OBVIOUS
<1>3. a = m * (a \div m) + (a % m)
    OBVIOUS
<1> QED
    BY <1>1, <1>2, <1>3

LEMMA Multiples ==
    ASSUME NEW m \in Nat \ {0}, NEW x \in Int, NEW y \in Int, x <= y
    PROVE  m * x \in Int /\ m * y \in Int /\ m * x <= m * y
OBVIOUS

LEMMA MappingOwners ==
    /\ Unmapped.owner # "dobby" /\ Other.owner # "dobby"
    /\ \A perm : Anon(perm).owner = "dobby"
    BY DEF Unmapped, Other, Anon, Mapping

LEMMA InitInv == Init => IndInv
<1> SUFFICES ASSUME Init PROVE IndInv
    OBVIOUS
<1>1. TypeOK
    BY ArenaAssumption DEF Init, TypeOK, ListType, SearchType, Requests, NoRequest
<1>2. PageInv
    BY DEF Init, PageInv, EntriesMapped, EntriesUnique, ChunksBelowCursor, ChunksHeld, ChunksDisjoint, Arenas
<1> QED
    BY <1>1, <1>2 DEF IndInv

(* The chunks as the invariant sees them before and after a step.          *)
LEMMA ApartNow ==
    /\ ChunksDisjoint <=>
          \A i, j \in DOMAIN chunks : i < j => Apart(chunks[i], chunks[j], replaced)
    /\ ChunksDisjoint' <=>
          \A i, j \in DOMAIN chunks' : i < j => Apart(chunks'[i], chunks'[j], replaced')
    BY DEF ChunksDisjoint, Apart, Replaced, Chosen, Filled, PageBytes, Bytes, Address

LEMMA HeldNow ==
    /\ ChunksHeld <=>
          \A i \in DOMAIN chunks : Held(chunks[i], vm, bytes, replaced) /\ Within(chunks[i])
    /\ ChunksHeld' <=>
          \A i \in DOMAIN chunks' : Held(chunks'[i], vm', bytes', replaced') /\ Within(chunks'[i])
    BY DEF ChunksHeld, Held, Within, Chosen, Filled, PageBytes, Bytes, Address, Unmapped, Other, Mapping

(* An address is in one page, at one offset.                               *)
LEMMA SamePlace ==
    ASSUME NEW p \in Int, NEW q \in Int, NEW o \in 0 .. PageSize - 1, NEW u \in 0 .. PageSize - 1,
           Address(p, o) = Address(q, u)
    PROVE  p = q /\ o = u
<1>1. PageSize \in Nat \ {0}
    BY ArenaAssumption
<1>2. PageSize * p \in Int /\ PageSize * q \in Int /\ PageSize * p + o = PageSize * q + u
    BY <1>1 DEF Address
<1>3. ASSUME p < q PROVE FALSE
    <2>1. PageSize * (p + 1) <= PageSize * q
        BY <1>1, <1>3, Multiples
    <2>2. PageSize * (p + 1) = PageSize * p + PageSize
        BY <1>1
    <2> QED
        BY <1>1, <1>2, <2>1, <2>2
<1>4. ASSUME q < p PROVE FALSE
    <2>1. PageSize * (q + 1) <= PageSize * p
        BY <1>1, <1>4, Multiples
    <2>2. PageSize * (q + 1) = PageSize * q + PageSize
        BY <1>1
    <2> QED
        BY <1>1, <1>2, <2>1, <2>2
<1>5. p = q
    BY <1>3, <1>4
<1> QED
    BY <1>1, <1>2, <1>5

LEMMA OnePageOf ==
    ASSUME NEW p \in Int, NEW q \in Int, NEW a, a \in PageBytes(p), a \in PageBytes(q)
    PROVE  p = q
<1>1. PICK o \in 0 .. PageSize - 1 : a = Address(p, o)
    BY ArenaAssumption DEF PageBytes, Bytes
<1>2. PICK u \in 0 .. PageSize - 1 : a = Address(q, u)
    BY ArenaAssumption DEF PageBytes, Bytes
<1> QED
    BY <1>1, <1>2, SamePlace

(* A chunk of a page has an offset in it for each of its bytes.            *)
LEMMA ChosenInPage ==
    ASSUME NEW c \in ChunkRecords, c.arena # "cave", Within(c), NEW a \in Chosen(c)
    PROVE  /\ \E o \in c.off .. c.off + c.size - 1 : o \in 0 .. PageSize - 1 /\ a = Address(c.page, o)
           /\ a \in PageBytes(c.page)
<1>1. c.off \in Nat /\ c.size \in Nat /\ PageSize \in Nat /\ c.off + c.size <= PageSize
    <2>1. c.off \in 0 .. PageSize - 1 /\ c.size \in Sizes
        BY DEF ChunkRecords
    <2>2. PageSize \in Nat
        BY ArenaAssumption
    <2>3. c.size \in Nat
        BY <2>1, SizesAreNats
    <2> QED
        BY <2>1, <2>2, <2>3 DEF Within
<1>2. PICK o \in c.off .. c.off + c.size - 1 : a = Address(c.page, o)
    BY DEF Chosen, Bytes
<1>3. o \in 0 .. PageSize - 1
    BY <1>1, <1>2
<1>4. o \in 0 .. 0 + PageSize - 1
    BY <1>1, <1>3
<1> QED
    BY <1>2, <1>3, <1>4 DEF PageBytes, Bytes

(* Chunks of two pages, or one behind the other in a page, share no byte.  *)
LEMMA PagesApart ==
    ASSUME NEW c \in ChunkRecords, c.arena # "cave", Within(c),
           NEW d \in ChunkRecords, d.arena # "cave", Within(d),
           c.page = d.page => c.off + c.size <= d.off
    PROVE  Chosen(c) \cap Chosen(d) = {}
<1> SUFFICES ASSUME NEW a \in Chosen(c), a \in Chosen(d) PROVE FALSE
    OBVIOUS
<1>1. /\ c.off \in Nat /\ c.size \in Nat /\ d.off \in Nat /\ d.size \in Nat
      /\ c.page \in Int /\ d.page \in Int
    BY SizesAreNats DEF ChunkRecords
<1>2. PICK o \in c.off .. c.off + c.size - 1 : o \in 0 .. PageSize - 1 /\ a = Address(c.page, o)
    BY ChosenInPage
<1>3. PICK u \in d.off .. d.off + d.size - 1 : u \in 0 .. PageSize - 1 /\ a = Address(d.page, u)
    BY ChosenInPage
<1>4. c.page = d.page /\ o = u
    <2>1. PICK p : p = c.page
        OBVIOUS
    <2>2. PICK q : q = d.page
        OBVIOUS
    <2>3. p \in Int /\ q \in Int /\ Address(p, o) = Address(q, u)
        BY <2>1, <2>2, <1>1, <1>2, <1>3
    <2>4. o \in 0 .. PageSize - 1 /\ u \in 0 .. PageSize - 1
        BY <1>2, <1>3
    <2> QED
        BY <2>1, <2>2, <2>3, <2>4, SamePlace
<1> QED
    BY <1>1, <1>2, <1>3, <1>4

(* A chunk just cut and filled.                                            *)
LEMMA CutIsHeld ==
    ASSUME NEW c \in ChunkRecords, c.arena # "cave", Within(c), c.page \in Pages,
           NEW v, NEW b, NEW lost, v[c.page].owner = "dobby", Filled(c) \subseteq b
    PROVE  Held(c, v, b, lost)
    BY ChosenInPage, MappingOwners DEF Held

(* More bytes filled, by the users of other chunks.                        *)
LEMMA FilledStaysHeld ==
    ASSUME NEW c, NEW v, NEW b, NEW b2, NEW lost, Held(c, v, b, lost), b \subseteq b2
    PROVE  Held(c, v, b2, lost)
    BY DEF Held

(* One chunk more.                                                         *)
LEMMA OneMore ==
    ASSUME IndInv, NEW c \in ChunkRecords, chunks' = Append(chunks, c), Within(c),
           replaced' = replaced, Held(c, vm', bytes', replaced),
           \A k \in DOMAIN chunks : Held(chunks[k], vm', bytes', replaced),
           \A k \in DOMAIN chunks : Apart(chunks[k], c, replaced)
    PROVE  ChunksHeld' /\ ChunksDisjoint'
<1>1. PICK n : n = Len(chunks) + 1
    OBVIOUS
<1>2. chunks \in Seq(ChunkRecords)
    BY DEF IndInv, TypeOK, ListType
<1>3. /\ DOMAIN chunks' = 1 .. n /\ chunks'[n] = c
      /\ DOMAIN chunks = 1 .. n - 1 /\ n \in Nat
      /\ \A k \in DOMAIN chunks : chunks'[k] = chunks[k]
    BY <1>1, <1>2
<1>4. \A i \in DOMAIN chunks' : i = n \/ i \in DOMAIN chunks
    BY <1>3
<1>5. ChunksHeld'
    <2>1. \A i \in DOMAIN chunks : Within(chunks[i])
        BY DEF IndInv, PageInv, ChunksHeld
    <2>2. \A i \in DOMAIN chunks' : Held(chunks'[i], vm', bytes', replaced') /\ Within(chunks'[i])
        BY <1>3, <1>4, <2>1
    <2> QED
        BY <2>2, HeldNow
<1>6. ChunksDisjoint'
    <2>1. \A i, j \in DOMAIN chunks : i < j => Apart(chunks[i], chunks[j], replaced)
        BY ApartNow DEF IndInv, PageInv
    <2>2. ASSUME NEW i \in DOMAIN chunks', NEW j \in DOMAIN chunks', i < j
          PROVE  Apart(chunks'[i], chunks'[j], replaced')
        <3>1. i \in DOMAIN chunks
            BY <1>3, <2>2
        <3>2. CASE j = n
            BY <3>1, <3>2, <1>3
        <3>3. CASE j \in DOMAIN chunks
            BY <3>1, <3>3, <2>1, <2>2, <1>3
        <3> QED
            BY <3>2, <3>3, <1>4
    <2> QED
        BY <2>2, ApartNow
<1> QED
    BY <1>5, <1>6

(* Cutting a chunk at the cursor of an entry: the other entries and their  *)
(* chunks do not see it, the chunks of the entry lie below it.             *)
LEMMA CutKeeps ==
    ASSUME IndInv,
           NEW a \in Arenas, NEW i \in DOMAIN pages[a], NEW size \in Sizes,
           NEW perm \in {"rx", "rw"}, NEW pos \in Nat, NEW used \in Fills(size),
           Fits(pages[a][i], size, perm), Cut(a, i, pos, perm, size, used),
           UNCHANGED <<vm, replaced>>
    PROVE  /\ pages' \in [Arenas -> Seq(PageChunks)]
           /\ chunks' \in Seq(ChunkRecords)
           /\ PageInv'
<1>0. PICK e : e = pages[a][i]
    OBVIOUS
<1> DEFINE c == Chunk(a, pos, perm, e.page, e.cursor, size, used)
<1>n. PICK n : n = Len(chunks) + 1
    OBVIOUS
<1>1. /\ e \in PageChunks /\ e.perm = perm
      /\ size \in Nat /\ size > 0 /\ e.cursor + size \in 0 .. PageSize - 1
      /\ e.cursor + size > e.cursor
    <2>1. e \in PageChunks
        BY <1>0 DEF IndInv, TypeOK, ListType, Arenas
    <2> QED
        BY <2>1, <1>0, SizesAreNats, ArenaAssumption DEF Fits, PageChunks
<1>2. /\ chunks' = Append(chunks, c)
      /\ pages' = [pages EXCEPT ![a][i] = Advance(e, size)]
      /\ bytes' = bytes \cup Bytes(e.page, e.cursor, used)
    BY <1>0 DEF Cut
<1>3. Advance(e, size) = [e EXCEPT !.cursor = e.cursor + size] /\ Advance(e, size) \in PageChunks
    BY <1>1 DEF Advance, PageChunks
<1>4. pages \in [Arenas -> Seq(PageChunks)] /\ chunks \in Seq(ChunkRecords)
    BY DEF IndInv, TypeOK, ListType, Arenas
<1>5. /\ pages' \in [Arenas -> Seq(PageChunks)]
      /\ \A b \in Arenas : DOMAIN pages'[b] = DOMAIN pages[b]
      /\ \A b \in Arenas : \A j \in DOMAIN pages[b] :
            /\ pages'[b][j].page = pages[b][j].page /\ pages'[b][j].perm = pages[b][j].perm
            /\ pages'[b][j].cursor \in Nat
            /\ (b # a \/ j # i) => pages'[b][j] = pages[b][j]
            /\ b = a /\ j = i => pages'[b][j].cursor = e.cursor + size
    <2>1. \A b \in Arenas : \A j \in DOMAIN pages[b] : pages[b][j] \in PageChunks
        BY <1>4
    <2>2. /\ pages'[a] = [pages[a] EXCEPT ![i] = Advance(e, size)]
          /\ pages' \in [Arenas -> Seq(PageChunks)]
          /\ \A b \in Arenas : b # a => pages'[b] = pages[b]
        BY <1>2, <1>3, <1>4
    <2>3. \A j \in DOMAIN pages[a] :
             pages'[a][j] = IF j = i THEN Advance(e, size) ELSE pages[a][j]
        BY <2>2
    <2>4. \A b \in Arenas : DOMAIN pages'[b] = DOMAIN pages[b]
        BY <2>2, <1>4
    <2>5. /\ Advance(e, size).page = e.page /\ Advance(e, size).perm = e.perm
          /\ Advance(e, size).cursor = e.cursor + size
        BY <1>1, <1>3 DEF PageChunks
    <2>6. ASSUME NEW b \in Arenas, NEW j \in DOMAIN pages[b]
          PROVE  /\ pages'[b][j].page = pages[b][j].page /\ pages'[b][j].perm = pages[b][j].perm
                 /\ pages'[b][j].cursor \in Nat
                 /\ (b # a \/ j # i) => pages'[b][j] = pages[b][j]
                 /\ b = a /\ j = i => pages'[b][j].cursor = e.cursor + size
        <3>1. CASE b = a /\ j = i
            BY <3>1, <2>3, <2>5, <1>0, <1>1 DEF PageChunks
        <3>2. CASE b # a \/ j # i
            <4>1. pages'[b][j] = pages[b][j]
                BY <3>2, <2>2, <2>3
            <4> QED
                BY <3>2, <4>1, <2>1 DEF PageChunks
        <3> QED
            BY <3>1, <3>2
    <2> QED
        BY <2>2, <2>4, <2>6
<1>6. c \in ChunkRecords
    <2>1. used \in Nat
        BY ArenaAssumption
    <2> QED
        BY <1>1, <2>1, ArenaAssumption DEF Chunk, ChunkRecords, PageChunks, Pages, Arenas
<1>7. /\ chunks' \in Seq(ChunkRecords) /\ DOMAIN chunks' = 1 .. n /\ chunks'[n] = c
      /\ DOMAIN chunks = 1 .. n - 1 /\ n \in Nat
      /\ \A k \in DOMAIN chunks : chunks'[k] = chunks[k] /\ k # n /\ chunks[k] \in ChunkRecords
    BY <1>2, <1>4, <1>6, <1>n
<1>8. EntriesMapped'
    BY <1>5 DEF IndInv, PageInv, EntriesMapped
<1>9. EntriesUnique'
    BY <1>5 DEF IndInv, PageInv, EntriesUnique
<1>10. ASSUME NEW k \in DOMAIN chunks, NEW d, d = chunks[k], Sound(d)
       PROVE  BelowCursor(d)' /\ (d.page = c.page => d.off + d.size <= c.off)
    <2>1. d \in ChunkRecords /\ d.arena \in Arenas /\ d.off \in Nat /\ d.size \in Nat
        <3>1. d \in ChunkRecords
            BY <1>7, <1>10
        <3> QED
            BY <3>1, <1>10, SizesAreNats DEF ChunkRecords, Sound, Arenas
    <2>2. PICK j \in DOMAIN pages[d.arena] :
             /\ pages[d.arena][j].page = d.page
             /\ pages[d.arena][j].perm = d.perm
             /\ d.off + d.size <= pages[d.arena][j].cursor
        BY <1>10 DEF IndInv, PageInv, ChunksBelowCursor, BelowCursor
    <2>3. d.off + d.size <= pages'[d.arena][j].cursor
        <3>1. CASE d.arena = a /\ j = i
            <4>1. pages'[d.arena][j].cursor = e.cursor + size
                BY <3>1, <1>5
            <4>2. d.off + d.size <= e.cursor /\ e.cursor \in Nat
                BY <3>1, <2>2, <1>0, <1>1 DEF PageChunks
            <4> QED
                BY <4>1, <4>2, <2>1, <1>1
        <3>2. CASE d.arena # a \/ j # i
            BY <3>2, <2>1, <2>2, <1>5
        <3> QED
            BY <3>1, <3>2
    <2>4. BelowCursor(d)'
        BY <1>5, <2>1, <2>2, <2>3 DEF BelowCursor
    <2>5. d.page = c.page => d.arena = a /\ j = i
        BY <2>1, <2>2, <1>0, <1>10 DEF IndInv, PageInv, EntriesUnique, Chunk, Sound
    <2> QED
        BY <2>2, <2>4, <2>5, <1>0 DEF Chunk
<1>11. BelowCursor(c)'
    <2>1. /\ c.arena = a /\ c.page = e.page /\ c.perm = e.perm
          /\ c.off + c.size = e.cursor + size /\ e.cursor + size \in Nat
        BY <1>1 DEF Chunk
    <2>2. /\ i \in DOMAIN pages'[a] /\ pages'[a][i].page = e.page /\ pages'[a][i].perm = e.perm
          /\ pages'[a][i].cursor = e.cursor + size
        BY <1>0, <1>5
    <2> QED
        BY <2>1, <2>2 DEF BelowCursor
<1>12. ChunksBelowCursor'
    BY <1>7, <1>10, <1>11 DEF ChunksBelowCursor, Sound
<1>13. ChunksHeld' /\ ChunksDisjoint'
    <2>1. /\ c.arena # "cave" /\ c.page = e.page /\ c.off = e.cursor /\ c.size = size
          /\ c.used = used
        BY DEF Chunk, Arenas
    <2>2. Within(c) /\ c.page \in Pages /\ Filled(c) \subseteq bytes'
        BY <2>1, <1>1, <1>2, ArenaAssumption DEF Within, Filled, PageChunks
    <2>3. vm'[c.page].owner = "dobby"
        BY <2>1, <1>0 DEF IndInv, PageInv, EntriesMapped
    <2> HIDE DEF c
    <2>4. Held(c, vm', bytes', replaced)
        BY <2>1, <2>2, <2>3, <1>6, CutIsHeld
    <2>5. ASSUME NEW k \in DOMAIN chunks
          PROVE  Held(chunks[k], vm', bytes', replaced) /\ Within(chunks[k])
        <3>1. Held(chunks[k], vm, bytes, replaced) /\ Within(chunks[k])
            BY DEF IndInv, PageInv, ChunksHeld
        <3>2. vm' = vm /\ bytes \subseteq bytes'
            BY <1>2
        <3> QED
            BY <3>1, <3>2, FilledStaysHeld
    <2>6. ASSUME NEW k \in DOMAIN chunks PROVE Apart(chunks[k], c, replaced)
        <3>1. PICK d : d = chunks[k]
            OBVIOUS
        <3>2. d \in ChunkRecords /\ Within(d)
            BY <3>1, <2>5, <1>7
        <3>3. CASE d.arena = "cave"
            BY <3>1, <3>3, <2>1 DEF Apart
        <3>4. CASE d.arena # "cave" /\ d.page \in replaced
            BY <3>1, <3>2, <3>4, ChosenInPage DEF Apart
        <3>5. CASE d.arena # "cave" /\ d.page \notin replaced
            <4>1. d.page = c.page => d.off + d.size <= c.off
                BY <3>1, <3>5, <1>10 DEF Sound
            <4>2. Chosen(d) \cap Chosen(c) = {}
                BY <3>2, <3>5, <4>1, <2>1, <2>2, <1>6, PagesApart
            <4> QED
                BY <3>1, <4>2 DEF Apart
        <3> QED
            BY <3>3, <3>4, <3>5
    <2>7. chunks' = Append(chunks, c) /\ replaced' = replaced
        BY <1>2
    <2> QED
        BY <2>2, <2>4, <2>5, <2>6, <2>7, <1>6, OneMore
<1> QED
    BY <1>5, <1>7, <1>8, <1>9, <1>12, <1>13 DEF PageInv

(* A page pushed on a list that was unmapped before, or is not sound now.  *)
LEMMA PushKeeps ==
    ASSUME IndInv,
           NEW a \in Arenas, NEW p \in Pages, NEW perm \in {"rx", "rw"},
           NEW cursor \in 0 .. PageSize - 1, NEW e,
           e = [page |-> p, cursor |-> cursor, perm |-> perm],
           vm[p] = Unmapped \/ p \in replaced',
           replaced \subseteq replaced',
           vm' = [vm EXCEPT ![p] = Anon(perm)],
           pages' = [pages EXCEPT ![a] = Append(@, e)]
    PROVE  /\ pages' \in [Arenas -> Seq(PageChunks)]
           /\ EntriesMapped' /\ EntriesUnique'
           /\ \A d \in ChunkRecords :
                 (d.arena # "cave" /\ d.page \notin replaced' /\ BelowCursor(d)) =>
                    BelowCursor(d)' /\ d.page # p
<1>1. /\ pages \in [Arenas -> Seq(PageChunks)] /\ e \in PageChunks
      /\ vm \in [Pages -> {Unmapped, Other, Anon("rx"), Anon("rw")} \cup Foreign]
    BY DEF IndInv, TypeOK, ListType, Arenas, PageChunks
<1>2. PICK m : m = Len(pages[a]) + 1
    OBVIOUS
<1>3. /\ pages' \in [Arenas -> Seq(PageChunks)]
      /\ pages'[a] = Append(pages[a], e)
      /\ \A b \in Arenas : b # a => pages'[b] = pages[b]
    BY <1>1
<1>4. /\ m \in Nat /\ DOMAIN pages[a] = 1 .. m - 1 /\ DOMAIN pages'[a] = 1 .. m
      /\ pages'[a][m] = e
      /\ \A i \in DOMAIN pages[a] : i # m /\ pages'[a][i] = pages[a][i]
    BY <1>1, <1>2, <1>3
<1>5. \A b \in Arenas : \A i \in DOMAIN pages[b] :
         /\ pages'[b][i] = pages[b][i] /\ i \in DOMAIN pages'[b]
         /\ pages[b][i].page \in Pages
         /\ pages[b][i].page \notin replaced' => pages[b][i].page # p
    <2> SUFFICES ASSUME NEW b \in Arenas, NEW i \in DOMAIN pages[b]
                 PROVE  /\ pages'[b][i] = pages[b][i] /\ i \in DOMAIN pages'[b]
                        /\ pages[b][i].page \in Pages
                        /\ pages[b][i].page \notin replaced' => pages[b][i].page # p
        OBVIOUS
    <2>1. pages'[b][i] = pages[b][i] /\ i \in DOMAIN pages'[b]
        BY <1>3, <1>4
    <2>2. pages[b][i] \in PageChunks
        BY <1>1
    <2>3. vm[pages[b][i].page].owner = "dobby"
        BY DEF IndInv, PageInv, EntriesMapped
    <2> QED
        BY <2>1, <2>2, <2>3, MappingOwners DEF PageChunks
<1>6. \A b \in Arenas : \A i \in DOMAIN pages'[b] : (b = a /\ i = m) \/ i \in DOMAIN pages[b]
    BY <1>3, <1>4
<1>7. /\ vm'[p] = Anon(perm)
      /\ \A q \in Pages : q # p => vm'[q] = vm[q]
    BY <1>1
<1>8. EntriesMapped'
    <2> SUFFICES ASSUME NEW b \in Arenas, NEW i \in DOMAIN pages'[b]
                 PROVE  /\ vm'[pages'[b][i].page].owner = "dobby"
                        /\ pages'[b][i].page \notin replaced' =>
                              vm'[pages'[b][i].page] = Anon(pages'[b][i].perm)
        BY DEF EntriesMapped
    <2>1. CASE b = a /\ i = m
        BY <2>1, <1>4, <1>7, MappingOwners
    <2>2. CASE i \in DOMAIN pages[b] /\ pages[b][i].page # p
        BY <2>2, <1>5, <1>7 DEF IndInv, PageInv, EntriesMapped
    <2>3. CASE i \in DOMAIN pages[b] /\ pages[b][i].page = p
        BY <2>3, <1>5, <1>7, MappingOwners
    <2> QED
        BY <2>1, <2>2, <2>3, <1>6
<1>9. EntriesUnique'
    <2> SUFFICES ASSUME NEW b \in Arenas, NEW c \in Arenas,
                        NEW i \in DOMAIN pages'[b], NEW j \in DOMAIN pages'[c],
                        pages'[b][i].page = pages'[c][j].page, pages'[b][i].page \notin replaced'
                 PROVE  b = c /\ i = j
        BY DEF EntriesUnique
    <2>1. CASE i \in DOMAIN pages[b] /\ j \in DOMAIN pages[c]
        BY <2>1, <1>5 DEF IndInv, PageInv, EntriesUnique
    <2>2. CASE (b = a /\ i = m) \/ (c = a /\ j = m)
        BY <2>2, <1>4, <1>5, <1>6
    <2> QED
        BY <2>1, <2>2, <1>6
<1>10. ASSUME NEW d \in ChunkRecords, d.arena # "cave", d.page \notin replaced', BelowCursor(d)
       PROVE  BelowCursor(d)' /\ d.page # p
    <2>1. d.arena \in Arenas
        BY <1>10 DEF ChunkRecords, Arenas
    <2> QED
        BY <2>1, <1>5, <1>10 DEF BelowCursor
<1> QED
    BY <1>3, <1>8, <1>9, <1>10

(* Steps that touch neither lists nor chunks.                              *)
LEMMA FrameKeeps ==
    PageInv /\ UNCHANGED <<vm, bytes, pages, chunks, replaced>> => PageInv'
<1> SUFFICES ASSUME PageInv, UNCHANGED <<vm, bytes, pages, chunks, replaced>> PROVE PageInv'
    OBVIOUS
<1>1. EntriesMapped' /\ EntriesUnique' /\ ChunksBelowCursor'
    BY DEF PageInv, EntriesMapped, EntriesUnique, ChunksBelowCursor, BelowCursor, Sound
<1>2. ChunksHeld' /\ ChunksDisjoint'
    BY HeldNow, ApartNow DEF PageInv
<1> QED
    BY <1>1, <1>2 DEF PageInv

(* What AllocateChunk hands out from a page it has just mapped.            *)
LEMMA NewPageKeeps ==
    ASSUME IndInv, NEW size \in Sizes, NEW perm \in {"rx", "rw"}, NEW p \in Pages,
           AllocateChunkNewPage(size, perm, p)
    PROVE  ListType' /\ PageInv'
<1>0. PICK used \in Fills(size) :
         /\ chunks' = Append(chunks, Chunk("any", 0, perm, p, 0, size, used))
         /\ bytes' = bytes \cup Bytes(p, 0, used)
    BY DEF AllocateChunkNewPage
<1>1. PICK c : c = Chunk("any", 0, perm, p, 0, size, used)
    OBVIOUS
<1>2. PICK e : e = [page |-> p, cursor |-> size, perm |-> perm]
    OBVIOUS
<1>3. /\ size \in 0 .. PageSize - 1 /\ size \in Nat
      /\ PageSize \in Nat /\ 0 \in 0 .. PageSize - 1
    BY ArenaAssumption
<1>4. c \in ChunkRecords
    <2>1. used \in Nat
        BY ArenaAssumption
    <2> QED
        BY <1>1, <1>3, <2>1, ArenaAssumption DEF Chunk, ChunkRecords, Pages
<1>5. Advance(PushPage(p, perm), size) = e
    BY <1>2, <1>3 DEF Advance, PushPage
<1>6. /\ vm[p] = Unmapped /\ replaced' = replaced
      /\ vm' = [vm EXCEPT ![p] = Anon(perm)]
      /\ pages' = [pages EXCEPT !["any"] = Append(@, e)]
      /\ chunks' = Append(chunks, c)
      /\ UNCHANGED <<req, others>>
    BY <1>0, <1>1, <1>5 DEF AllocateChunkNewPage
<1>7. /\ pages' \in [Arenas -> Seq(PageChunks)]
      /\ EntriesMapped' /\ EntriesUnique'
      /\ \A d \in ChunkRecords :
            (d.arena # "cave" /\ d.page \notin replaced' /\ BelowCursor(d)) =>
               BelowCursor(d)' /\ d.page # p
    <2>1. "any" \in Arenas
        BY DEF Arenas
    <2> QED
        BY <2>1, <1>2, <1>3, <1>6, PushKeeps
<1>8. chunks \in Seq(ChunkRecords)
    BY DEF IndInv, TypeOK, ListType
<1>9. PICK n : n = Len(chunks) + 1
    OBVIOUS
<1>10. /\ chunks' \in Seq(ChunkRecords) /\ DOMAIN chunks' = 1 .. n /\ chunks'[n] = c
       /\ DOMAIN chunks = 1 .. n - 1 /\ n \in Nat
       /\ \A k \in DOMAIN chunks : chunks'[k] = chunks[k] /\ k # n /\ chunks[k] \in ChunkRecords
    BY <1>4, <1>6, <1>8, <1>9
<1>12. BelowCursor(c)'
    <2>1. c.arena = "any" /\ c.page = p /\ c.perm = perm /\ c.off + c.size = size
        BY <1>1, <1>3 DEF Chunk
    <2>2. pages["any"] \in Seq(PageChunks) /\ e \in PageChunks /\ pages'["any"] = Append(pages["any"], e)
        BY <1>2, <1>3, <1>6 DEF IndInv, TypeOK, ListType, PageChunks
    <2>3. PICK m \in DOMAIN pages'["any"] : pages'["any"][m] = e
        BY <2>2
    <2> QED
        BY <2>1, <2>3, <1>2, <1>3 DEF BelowCursor
<1>13. ChunksBelowCursor'
    <2> SUFFICES ASSUME NEW k \in DOMAIN chunks', NEW d, d = chunks'[k], Sound(d)'
                 PROVE  BelowCursor(d)'
        BY DEF ChunksBelowCursor
    <2>1. CASE k = n
        BY <2>1, <1>10, <1>12
    <2>2. CASE k \in DOMAIN chunks
        BY <2>2, <1>6, <1>7, <1>10 DEF IndInv, PageInv, ChunksBelowCursor, Sound
    <2> QED
        BY <2>1, <2>2, <1>10
<1>14. ChunksHeld' /\ ChunksDisjoint'
    <2>1. /\ c.arena # "cave" /\ c.page = p /\ c.off = 0 /\ c.size = size /\ c.used = used
        BY <1>1 DEF Chunk
    <2>2. Within(c) /\ c.page \in Pages /\ Filled(c) \subseteq bytes'
        BY <2>1, <1>0, <1>3, ArenaAssumption DEF Within, Filled
    <2>3. vm'[p].owner = "dobby" /\ \A q \in Pages : q # p => vm'[q] = vm[q]
        BY <1>6, MappingOwners DEF IndInv, TypeOK, ListType
    <2>4. Held(c, vm', bytes', replaced)
        BY <2>1, <2>2, <2>3, <1>4, CutIsHeld
    <2>5. ASSUME NEW k \in DOMAIN chunks
          PROVE  Held(chunks[k], vm', bytes', replaced) /\ Within(chunks[k])
        <3>1. Held(chunks[k], vm, bytes, replaced) /\ Within(chunks[k])
            BY DEF IndInv, PageInv, ChunksHeld
        <3>2. bytes \subseteq bytes'
            BY <1>0
        <3>3. \A q \in Pages : vm[q] \notin {Unmapped, Other} => vm'[q] = vm[q]
            BY <2>3, <1>6
        <3> QED
            BY <3>1, <3>2, <3>3 DEF Held
    <2>6. ASSUME NEW k \in DOMAIN chunks PROVE Apart(chunks[k], c, replaced)
        <3>1. PICK d : d = chunks[k]
            OBVIOUS
        <3>2. d \in ChunkRecords /\ Within(d)
            BY <3>1, <2>5, <1>10
        <3>3. CASE d.arena = "cave"
            BY <3>1, <3>3, <2>1 DEF Apart
        <3>4. CASE d.arena # "cave" /\ d.page \in replaced
            BY <3>1, <3>2, <3>4, ChosenInPage DEF Apart
        <3>5. CASE d.arena # "cave" /\ d.page \notin replaced
            <4>1. d.page # p
                BY <3>1, <3>2, <3>5, <1>6, <1>7 DEF Sound, IndInv, PageInv, ChunksBelowCursor
            <4>2. Chosen(d) \cap Chosen(c) = {}
                BY <3>2, <3>5, <4>1, <2>1, <2>2, <1>4, PagesApart
            <4> QED
                BY <3>1, <4>2 DEF Apart
        <3> QED
            BY <3>3, <3>4, <3>5
    <2> QED
        BY <2>2, <2>4, <2>5, <2>6, <1>4, <1>6, OneMore
<1>15. vm' \in [Pages -> {Unmapped, Other, Anon("rx"), Anon("rw")} \cup Foreign]
    BY <1>6 DEF IndInv, TypeOK, ListType
<1> QED
    BY <1>6, <1>7, <1>10, <1>13, <1>14, <1>15 DEF IndInv, TypeOK, ListType, PageInv, Arenas

(* A page mapped with MAP_FIXED was blank or leaves the sound ones.        *)
LEMMA MapFixedKeeps ==
    ASSUME IndInv, NEW p \in Pages, MapFixed(p)
    PROVE  ListType' /\ PageInv'
<1>1. req.pc \in {"first", "last", "left", "right"}
    BY DEF MapFixed, Tries
<1>2. PICK perm : perm = req.perm
    OBVIOUS
<1>3. PICK e : e = [page |-> p, cursor |-> 0, perm |-> perm]
    OBVIOUS
<1>4. /\ p \in Pages /\ perm \in {"rx", "rw"} /\ 0 \in 0 .. PageSize - 1
      /\ req.size \in Sizes
    BY <1>1, <1>2, ArenaAssumption DEF MapFixed, IndInv, TypeOK, ListType
<1>5. /\ vm' = [vm EXCEPT ![p] = Anon(perm)]
      /\ pages' = [pages EXCEPT !["near"] = Append(@, e)]
      /\ vm[p] = Unmapped \/ p \in replaced'
      /\ replaced \subseteq replaced' /\ replaced' \subseteq Pages
      /\ UNCHANGED <<chunks, others>>
    BY <1>1, <1>2, <1>3, <1>4 DEF MapFixed, PushPage, IndInv, TypeOK, ListType
<1>6. /\ pages' \in [Arenas -> Seq(PageChunks)]
      /\ EntriesMapped' /\ EntriesUnique'
      /\ \A d \in ChunkRecords :
            (d.arena # "cave" /\ d.page \notin replaced' /\ BelowCursor(d)) =>
               BelowCursor(d)' /\ d.page # p
    <2>1. "near" \in Arenas
        BY DEF Arenas
    <2> QED
        BY <2>1, <1>3, <1>4, <1>5, PushKeeps
<1>7. chunks \in Seq(ChunkRecords) /\ \A k \in DOMAIN chunks : chunks[k] \in ChunkRecords
    BY DEF IndInv, TypeOK, ListType
<1>8. ChunksBelowCursor'
    <2> SUFFICES ASSUME NEW k \in DOMAIN chunks', NEW d, d = chunks'[k], Sound(d)'
                 PROVE  BelowCursor(d)'
        BY DEF ChunksBelowCursor
    <2>1. k \in DOMAIN chunks /\ d = chunks[k] /\ d \in ChunkRecords
        BY <1>5, <1>7
    <2> QED
        BY <2>1, <1>5, <1>6 DEF IndInv, PageInv, ChunksBelowCursor, Sound
<1>9. ChunksHeld' /\ ChunksDisjoint'
    <2>1. \A q \in Pages : q # p => vm'[q] = vm[q]
        BY <1>5 DEF IndInv, TypeOK, ListType
    <2>2. ASSUME NEW k \in DOMAIN chunks
          PROVE  Held(chunks[k], vm', bytes', replaced') /\ Within(chunks[k])
        <3>1. Held(chunks[k], vm, bytes, replaced) /\ Within(chunks[k])
            BY DEF IndInv, PageInv, ChunksHeld
        <3>2. ASSUME NEW a \in Chosen(chunks[k]), ~\E q \in replaced' : a \in PageBytes(q)
              PROVE  /\ \E q \in Pages : a \in PageBytes(q) /\ vm'[q] \notin {Unmapped, Other}
                     /\ a \in Filled(chunks[k]) => a \in bytes'
            <4>1. ~\E q \in replaced : a \in PageBytes(q)
                BY <3>2, <1>5
            <4>2. a \in Filled(chunks[k]) => a \in bytes
                BY <3>1, <4>1 DEF Held
            <4>3. PICK q \in Pages : a \in PageBytes(q) /\ vm[q] \notin {Unmapped, Other}
                BY <3>1, <4>1 DEF Held
            <4>4. q # p
                BY <3>2, <4>3, <1>5
            <4>5. a \notin PageBytes(p)
                <5>1. p \in Int /\ q \in Int
                    BY ArenaAssumption DEF Pages
                <5> QED
                    BY <4>3, <4>4, <5>1, OnePageOf
            <4>6. bytes' = bytes \ PageBytes(p)
                BY DEF MapFixed
            <4> QED
                BY <4>2, <4>3, <4>4, <4>5, <4>6, <2>1
        <3> QED
            BY <3>1, <3>2 DEF Held
    <2>3. \A i, j \in DOMAIN chunks : i < j => Apart(chunks[i], chunks[j], replaced)
        BY ApartNow DEF IndInv, PageInv
    <2>4. \A i, j \in DOMAIN chunks : i < j => Apart(chunks[i], chunks[j], replaced')
        BY <2>3, <1>5 DEF Apart
    <2> QED
        BY <2>2, <2>4, <1>5, HeldNow, ApartNow
<1>10. vm' \in [Pages -> {Unmapped, Other, Anon("rx"), Anon("rw")} \cup Foreign]
    BY <1>4, <1>5 DEF IndInv, TypeOK, ListType
<1>11. req' \in Requests
       /\ req'.size \in Sizes /\ req'.perm \in {"rx", "rw"}
    <2>1. req' = [req EXCEPT !.pc = "search", !.mapped = req.mapped + 1]
        BY DEF MapFixed
    <2>2. req \in Requests
        BY DEF IndInv, TypeOK, ListType
    <2>3. req' = [pc |-> "search", pos |-> req.pos, size |-> req.size, perm |-> req.perm,
                  mapped |-> req.mapped + 1]
        BY <2>1, <2>2 DEF Requests
    <2>4. req.pos \in Nat /\ req.size \in Nat /\ req.mapped + 1 \in Nat
        BY <2>2 DEF Requests
    <2> QED
        BY <2>3, <2>4, <1>2, <1>4 DEF Requests
<1>12. ListType'
    BY <1>5, <1>6, <1>7, <1>10, <1>11 DEF IndInv, TypeOK, ListType, Arenas
<1> QED
    BY <1>6, <1>8, <1>9, <1>12 DEF PageInv

(* Where a cave lies: in a region in reach, and with room for the chunk    *)
(* behind the alignment.                                                   *)
InCave(a, r) ==
    /\ r.start >= LowestPage(req.pos) /\ r.end <= HighestPage(req.pos)
    /\ Address(r.start, 0) <= a /\ a + Align <= Address(r.end, 0)

(* What memmem has compared: zero bytes, in a region that can be executed. *)
ZeroIn(a, r) ==
    /\ IsRegion(r) /\ r.perm = "rx"
    /\ a + req.size <= Address(r.end, 0)
    /\ \A x \in a .. a + req.size - 1 : x \notin bytes

LEMMA CaveFound ==
    ASSUME IndInv, CodeCave
    PROVE  \E r \in Regions : \E a \in Nat : UseCave(a) /\ InCave(a, r) /\ ZeroIn(a, r)
<1> DEFINE tried(r) == {p \in 0 .. r.start - 1 : \E q \in CaveRegions : q.start = p}
           n(r) == Cardinality(tried(r))
           size(r) == req.size + n(r) * (Align - 1)
<1>1. PICK r \in CaveRegions : \E a \in Caves(r, size(r)) : UseCave(a)
    BY DEF CodeCave
<1>2. PICK a \in Caves(r, size(r)) : UseCave(a)
    BY <1>1
<1>3. /\ r \in Regions /\ r.start >= LowestPage(req.pos) /\ r.end <= HighestPage(req.pos)
      /\ IsRegion(r) /\ r.perm = "rx"
    BY <1>1 DEF CaveRegions, GetProcessMemoryLayout
<1>4. r.start \in Nat /\ r.end \in Nat /\ PageSize \in Nat /\ Align \in Nat /\ Align >= 1
    BY <1>3, ArenaAssumption DEF Regions, Pages
<1>5. n(r) \in Nat
    <2>1. IsFiniteSet(0 .. r.start - 1)
        <3>1. 0 \in Int /\ r.start - 1 \in Int
            BY <1>4
        <3> QED
            BY <3>1, FS_Interval
    <2>2. tried(r) \subseteq 0 .. r.start - 1
        OBVIOUS
    <2>3. IsFiniteSet(tried(r))
        BY <2>1, <2>2, FS_Subset
    <2> HIDE DEF tried
    <2> QED
        BY <2>3, FS_CardinalityType
<1>6. req.size \in Nat /\ req.size >= 1
    BY SizesAreNats DEF CodeCave, IndInv, TypeOK, ListType
<1> HIDE DEF n
<1>7. size(r) \in Nat /\ size(r) >= req.size
    <2>1. n(r) * (Align - 1) \in Nat
        BY <1>4, <1>5
    <2> QED
        BY <1>6, <2>1
<1> HIDE DEF size
<1>8. /\ a \in Address(r.start, 0) .. Address(r.end, 0) - 1
      /\ a + size(r) + Align - 1 <= Address(r.end, 0)
      /\ \A x \in a .. a + size(r) - 1 : x \notin bytes
    BY <1>2 DEF Caves
<1>9. Address(r.start, 0) \in Nat /\ Address(r.end, 0) \in Nat
    BY <1>4 DEF Address
<1>10. a \in Nat /\ Address(r.start, 0) <= a /\ a + Align <= Address(r.end, 0)
    BY <1>4, <1>6, <1>7, <1>8, <1>9
<1>11. a + req.size <= Address(r.end, 0) /\ \A x \in a .. a + req.size - 1 : x \notin bytes
    <2>1. a + req.size <= Address(r.end, 0)
        BY <1>4, <1>6, <1>7, <1>8, <1>9, <1>10
    <2>2. a .. a + req.size - 1 \subseteq a .. a + size(r) - 1
        BY <1>6, <1>7, <1>10
    <2> QED
        BY <1>8, <2>1, <2>2
<1> QED
    BY <1>2, <1>3, <1>10, <1>11 DEF InCave, ZeroIn

(* Every address of a region is in one of its pages.                       *)
LEMMA PageInRegion ==
    ASSUME NEW r \in Regions, NEW x \in Nat, Address(r.start, 0) <= x, x < Address(r.end, 0)
    PROVE  \E q \in r.start .. r.end - 1 : q \in Pages /\ x \in PageBytes(q)
<1>1. /\ PageSize \in Nat \ {0} /\ r.start \in Nat /\ r.end \in Nat /\ r.end <= NPages
      /\ NPages \in Nat
    BY ArenaAssumption DEF Regions, Pages
<1>2. PICK q : q = x \div PageSize
    OBVIOUS
<1>3. PICK o : o = x % PageSize
    OBVIOUS
<1>4. q \in Int /\ o \in 0 .. PageSize - 1 /\ x = PageSize * q + o
    BY <1>1, <1>2, <1>3, DivMod
<1>5. PageSize * r.start <= x /\ x < PageSize * r.end
    BY <1>1 DEF Address
<1>6. r.start <= q
    <2> SUFFICES ASSUME q + 1 <= r.start PROVE FALSE
        BY <1>1, <1>4
    <2>1. PageSize * (q + 1) <= PageSize * r.start
        BY <1>1, <1>4, Multiples
    <2>2. PageSize * (q + 1) = PageSize * q + PageSize /\ PageSize * q \in Int
        BY <1>1, <1>4
    <2> QED
        BY <1>1, <1>4, <1>5, <2>1, <2>2
<1>7. q < r.end
    <2> SUFFICES ASSUME r.end <= q PROVE FALSE
        BY <1>1, <1>4
    <2>1. PageSize * r.end <= PageSize * q /\ PageSize * r.end \in Int /\ PageSize * q \in Int
        BY <1>1, <1>4, Multiples
    <2> QED
        BY <1>4, <1>5, <2>1
<1>8. q \in r.start .. r.end - 1 /\ q \in Pages
    BY <1>1, <1>4, <1>6, <1>7 DEF Pages
<1>9. x = Address(q, o)
    BY <1>1, <1>4 DEF Address
<1>10. o \in 0 .. 0 + PageSize - 1
    BY <1>1, <1>4
<1> QED
    BY <1>8, <1>9, <1>10 DEF PageBytes, Bytes

(* A cave is taken where bytes are zero: not where somebody has written.   *)
LEMMA CaveKeeps ==
    ASSUME IndInv, CodeCave
    PROVE  ListType' /\ PageInv'
<1>1. PICK r \in Regions, a \in Nat : UseCave(a) /\ InCave(a, r) /\ ZeroIn(a, r)
    BY CaveFound
<1>2. PICK address : address = a + Align - (a % Align)
    OBVIOUS
<1>3. /\ address \in Nat /\ a < address /\ address <= a + Align
      /\ Align \in Nat \ {0} /\ PageSize \in Nat \ {0}
    <2>1. a \in Nat /\ Align \in Nat \ {0} /\ a % Align \in 0 .. Align - 1
        BY <1>1, ArenaAssumption
    <2> QED
        BY <2>1, <1>2, ArenaAssumption
<1>u. PICK used \in Fills(req.size) :
         /\ chunks' = Append(chunks, Chunk("cave", req.pos, "rx", address \div PageSize,
                                           address % PageSize, req.size, used))
         /\ bytes' = bytes \cup (address .. address + used - 1)
    BY <1>1, <1>2 DEF UseCave
<1>4. PICK c : c = Chunk("cave", req.pos, "rx", address \div PageSize, address % PageSize,
                         req.size, used)
    OBVIOUS
<1>5. req.size \in Sizes /\ req.pos \in Nat /\ req.size \in Nat
    BY SizesAreNats DEF CodeCave, IndInv, TypeOK, ListType, Requests
<1>6. /\ address \div PageSize \in Nat /\ address % PageSize \in 0 .. PageSize - 1
      /\ used \in Nat
    BY <1>3, <1>5, ArenaAssumption
<1>7. c \in ChunkRecords /\ c.arena = "cave"
    BY <1>4, <1>5, <1>6 DEF Chunk, ChunkRecords
<1>8. /\ chunks' = Append(chunks, c) /\ req' = NoRequest
      /\ UNCHANGED <<vm, pages, others, replaced>>
    BY <1>u, <1>4 DEF CodeCave
<1>9. chunks \in Seq(ChunkRecords)
    BY DEF IndInv, TypeOK, ListType
<1>10. PICK n : n = Len(chunks) + 1
    OBVIOUS
<1>11. /\ chunks' \in Seq(ChunkRecords) /\ DOMAIN chunks' = 1 .. n /\ chunks'[n] = c
       /\ DOMAIN chunks = 1 .. n - 1 /\ n \in Nat
       /\ \A k \in DOMAIN chunks : chunks'[k] = chunks[k] /\ k # n
    BY <1>7, <1>8, <1>9, <1>10
<1>12. EntriesMapped' /\ EntriesUnique'
    BY <1>8 DEF IndInv, PageInv, EntriesMapped, EntriesUnique
<1>13. ChunksBelowCursor'
    <2> SUFFICES ASSUME NEW k \in DOMAIN chunks', NEW d, d = chunks'[k], Sound(d)'
                 PROVE  BelowCursor(d)'
        BY DEF ChunksBelowCursor
    <2>1. k \in DOMAIN chunks /\ d = chunks[k]
        BY <1>7, <1>11 DEF Sound
    <2> QED
        BY <2>1, <1>8 DEF IndInv, PageInv, ChunksBelowCursor, BelowCursor, Sound
<1>14. /\ \A x : x \in Chosen(c) => x \in address .. address + req.size - Align - 1
       /\ \A x : x \in Filled(c) => x \in address .. address + used - 1
    <2>1. PICK page : page = address \div PageSize
        OBVIOUS
    <2>2. PICK off : off = address % PageSize
        OBVIOUS
    <2>3. page \in Int /\ off \in Nat /\ address = PageSize * page + off
        BY <2>1, <2>2, <1>3, <1>6, DivMod
    <2>4. \A o \in Int : Address(page, o) = address - off + o
        <3>1. page * PageSize = PageSize * page /\ PageSize * page \in Int
            BY <1>3, <2>3
        <3> QED
            BY <2>3, <3>1, <1>3 DEF Address
    <2>5. ASSUME NEW m \in Int, NEW x \in Bytes(page, off, m)
          PROVE  x \in address .. address + m - 1
        <3>1. PICK o \in off .. off + m - 1 : x = Address(page, o)
            BY DEF Bytes
        <3> QED
            BY <3>1, <2>3, <2>4, <1>3
    <2>6. c.page = page /\ c.off = off /\ c.size = req.size /\ c.used = used
        BY <2>1, <2>2, <1>4 DEF Chunk
    <2>7. Chosen(c) = Bytes(page, off, req.size - Align) /\ Filled(c) = Bytes(page, off, used)
        BY <2>6, <1>7 DEF Chosen, Filled
    <2>8. req.size - Align \in Int /\ used \in Int
        BY <1>3, <1>5, <1>6
    <2>9. address + (req.size - Align) - 1 = address + req.size - Align - 1
        BY <1>3, <1>5
    <2> QED
        BY <2>5, <2>7, <2>8, <2>9
<1>15. \A x \in Chosen(c) :
          /\ x \notin bytes
          /\ \E q \in Pages : x \in PageBytes(q) /\ vm[q] \notin {Unmapped, Other}
    <2> SUFFICES ASSUME NEW x \in Chosen(c)
                 PROVE  /\ x \notin bytes
                        /\ \E q \in Pages : x \in PageBytes(q) /\ vm[q] \notin {Unmapped, Other}
        OBVIOUS
    <2>1. x \in address .. address + req.size - Align - 1
        BY <1>14
    <2>2. x \in a .. a + req.size - 1 /\ x \in Nat
        BY <2>1, <1>1, <1>3, <1>5
    <2>3. Address(r.start, 0) <= x /\ x < Address(r.end, 0)
        <3>1. Address(r.start, 0) \in Int /\ Address(r.end, 0) \in Int
            BY <1>3, ArenaAssumption DEF Address, Regions, Pages
        <3> QED
            BY <2>2, <3>1, <1>1, <1>5 DEF InCave, ZeroIn
    <2>4. PICK q \in r.start .. r.end - 1 : q \in Pages /\ x \in PageBytes(q)
        BY <2>2, <2>3, <1>1, PageInRegion
    <2>5. vm[q] = vm[r.start] /\ vm[r.start] # Unmapped /\ vm[r.start].perm = "rx"
        BY <2>4, <1>1 DEF ZeroIn, IsRegion
    <2>6. Other.perm # "rx"
        BY DEF Other, Mapping
    <2> QED
        BY <2>2, <2>4, <2>5, <2>6, <1>1 DEF ZeroIn
<1>16. ChunksHeld' /\ ChunksDisjoint'
    <2>1. \A k \in DOMAIN chunks : Held(chunks[k], vm, bytes, replaced)
        BY DEF IndInv, PageInv, ChunksHeld
    <2>2. vm' = vm /\ bytes \subseteq bytes' /\ replaced' = replaced
        BY <1>8, <1>u
    <2>3. \A k \in DOMAIN chunks : Held(chunks[k], vm', bytes', replaced)
        BY <2>1, <2>2, FilledStaysHeld
    <2>4. Filled(c) \subseteq bytes'
        BY <1>14, <1>u
    <2>5. Held(c, vm', bytes', replaced)
        BY <1>15, <2>2, <2>4 DEF Held
    <2>6. \A k \in DOMAIN chunks : Apart(chunks[k], c, replaced)
        BY <1>7, <1>15, <2>1 DEF Held, Apart
    <2>7. Within(c)
        BY <1>7 DEF Within
    <2> QED
        BY <2>2, <2>3, <2>5, <2>6, <2>7, <1>7, <1>8, OneMore
<1> QED
    BY <1>8, <1>11, <1>12, <1>13, <1>16 DEF IndInv, TypeOK, ListType, PageInv, NoRequest, Requests

(* Other threads touch no page of the arenas.                              *)
LEMMA OthersKeep ==
    ASSUME IndInv, NEW p \in Pages, OtherMaps(p) \/ OtherUnmaps(p)
    PROVE  ListType' /\ PageInv'
<1>1. /\ vm[p].owner # "dobby"
      /\ vm' = [vm EXCEPT ![p] = Other] \/ vm' = [vm EXCEPT ![p] = Unmapped]
      /\ UNCHANGED <<pages, chunks, req, replaced>>
    BY MappingOwners DEF OtherMaps, OtherUnmaps
<1>2. others' \in 0 .. MaxOthers
    BY ArenaAssumption DEF OtherMaps, OtherUnmaps, IndInv, TypeOK, ListType
<1>3. vm' \in [Pages -> {Unmapped, Other, Anon("rx"), Anon("rw")} \cup Foreign]
    BY <1>1 DEF IndInv, TypeOK, ListType
<1>4. \A a \in Arenas : \A i \in DOMAIN pages[a] :
         vm'[pages[a][i].page] = vm[pages[a][i].page]
    <2>1. \A a \in Arenas : \A i \in DOMAIN pages[a] : pages[a][i].page \in Pages
        <3>1. \A a \in Arenas : \A i \in DOMAIN pages[a] : pages[a][i] \in PageChunks
            BY DEF IndInv, TypeOK, ListType, Arenas
        <3> QED
            BY <3>1 DEF PageChunks
    <2>2. \A a \in Arenas : \A i \in DOMAIN pages[a] : pages[a][i].page # p
        BY <1>1 DEF IndInv, PageInv, EntriesMapped
    <2>3. \A q \in Pages : q # p => vm'[q] = vm[q]
        BY <1>1 DEF IndInv, TypeOK, ListType
    <2> QED
        BY <2>1, <2>2, <2>3
<1>5. EntriesMapped'
    BY <1>1, <1>4 DEF IndInv, PageInv, EntriesMapped
<1>6. EntriesUnique' /\ ChunksBelowCursor' /\ ChunksDisjoint'
    BY <1>1, ApartNow DEF IndInv, PageInv, EntriesUnique, ChunksBelowCursor, BelowCursor, Sound
<1>7. ChunksHeld'
    <2>1. \A q \in Pages : vm[q] \notin {Unmapped, Other} => vm'[q] = vm[q]
        BY DEF OtherMaps, OtherUnmaps, IndInv, TypeOK, ListType
    <2>2. bytes' = bytes
        BY DEF OtherMaps, OtherUnmaps
    <2>3. \A k \in DOMAIN chunks : Held(chunks[k], vm, bytes, replaced) /\ Within(chunks[k])
        BY DEF IndInv, PageInv, ChunksHeld
    <2>4. \A k \in DOMAIN chunks : Held(chunks[k], vm', bytes', replaced')
        BY <1>1, <2>1, <2>2, <2>3 DEF Held
    <2> QED
        BY <1>1, <2>3, <2>4, HeldNow
<1> QED
    BY <1>1, <1>2, <1>3, <1>5, <1>6, <1>7 DEF IndInv, TypeOK, ListType, PageInv

(* A request, and the steps of one that only move it on.                   *)
LEMMA RequestKeeps ==
    ASSUME IndInv,
           \/ \E size \in Sizes, perm \in {"rx", "rw"}, pos \in Positions :
                  NearAllocateChunk(pos, size, perm)
           \/ ReadLayout \/ SearchOn \/ SearchOver \/ \E p \in Pages : SetPermissionFails(p)
           \/ NoBlankPage \/ NoCave
    PROVE  ListType' /\ PageInv'
<1>1. UNCHANGED <<vm, bytes, pages, chunks, others, replaced>>
    BY DEF NearAllocateChunk, ReadLayout, SearchOn, SearchOver, SetPermissionFails, NoBlankPage, NoCave
<1>2. PageInv'
    BY <1>1, FrameKeeps DEF IndInv
<1> DEFINE Open(r) == r.pc \notin {"idle", "aborted"} => r.size \in Sizes /\ r.perm \in {"rx", "rw"}
<1>3. req \in Requests /\ Open(req)
    BY DEF IndInv, TypeOK, ListType
<1>4. req' \in Requests /\ Open(req')
    <2>1. CASE \E size \in Sizes, perm \in {"rx", "rw"}, pos \in Positions :
                  NearAllocateChunk(pos, size, perm)
        BY <2>1, SizesAreNats, ArenaAssumption DEF NearAllocateChunk, Requests
    <2>2. CASE ReadLayout
        BY <2>2, <1>3 DEF ReadLayout, Requests
    <2>3. CASE SearchOn \/ SearchOver
        BY <2>3, <1>3 DEF SearchOn, SearchOver, Requests
    <2>4. CASE \E p \in Pages : SetPermissionFails(p)
        BY <2>4, <1>3 DEF SetPermissionFails, Requests
    <2>5. CASE NoBlankPage \/ NoCave
        BY <2>5 DEF NoBlankPage, NoCave, NoRequest, Requests
    <2> QED
        BY <2>1, <2>2, <2>3, <2>4, <2>5
<1> QED
    BY <1>1, <1>2, <1>4 DEF IndInv, TypeOK, ListType

(* Low and high ends of the search.                                        *)
LEMMA ReachType ==
    ASSUME NEW pos \in Nat
    PROVE  LowestPage(pos) \in Nat /\ HighestPage(pos) \in Int /\ LowestPage(pos) >= 1
<1>1. /\ PageSize \in Nat \ {0} /\ AllocRange \in Nat /\ NPages \in Nat
    BY ArenaAssumption
<1>2. addr_sub(pos, AllocRange) \in Nat
    BY <1>1 DEF addr_sub
<1>3. addr_add(pos, AllocRange) \in Int
    BY <1>1 DEF addr_add, Top
<1> DEFINE d == addr_sub(pos, AllocRange)  e == addr_add(pos, AllocRange)
<1> HIDE DEF d, e
<1>4. d \div PageSize \in Nat /\ e \div PageSize \in Int
    BY <1>1, <1>2, <1>3 DEF d, e
<1> QED
    BY <1>4 DEF LowestPage, HighestPage, next_page, prev_page, d, e

(* The pages tried are numbers.                                            *)
LEMMA TriesType == ASSUME TypeOK PROVE Tries \subseteq Nat
<1>1. LowestPage(req.pos) \in Nat
    BY ReachType DEF TypeOK, ListType, Requests
<1>2. \A r \in layout : r.end + 1 \in Nat
    BY ArenaAssumption DEF TypeOK, SearchType, Regions
<1>3. region.end + 1 \in Nat
    BY ArenaAssumption DEF TypeOK, SearchType, Regions, NoRegion
<1>4. LeftBlank(LowestPage(req.pos)) \subseteq Nat
    BY <1>1, <1>2 DEF LeftBlank
<1> QED
    BY <1>1, <1>3, <1>4 DEF Tries, FirstRegion, LastRegion, RightBlank

LEMMA SearchKeeps == ASSUME IndInv, [Next]_vars PROVE SearchType'
<1>1. TypeOK /\ SearchType
    BY DEF IndInv, TypeOK
<1>2. CASE UNCHANGED searchVars
    BY <1>1, <1>2 DEF SearchType, searchVars
<1>3. CASE EndSearch
    BY <1>3 DEF EndSearch, SearchType
<1>4. CASE ReadLayout
    <2>1. LowestPage(req.pos) \in Nat
        BY <1>1, ReachType DEF TypeOK, ListType, Requests
    <2> QED
        BY <1>4, <2>1 DEF ReadLayout, GetProcessMemoryLayout, SearchType
<1>5. CASE SearchOn
    <2>1. assumePageAddr' \in Nat
        BY <1>1, <1>5, TriesType DEF SearchOn, SearchType
    <2>2. layout' = layout /\ (region' = region \/ region' \in layout)
        BY <1>5 DEF SearchOn, RegionsLeft
    <2> QED
        BY <1>1, <2>1, <2>2 DEF SearchType
<1> QED
    BY <1>2, <1>3, <1>4, <1>5 DEF Next, Near, AllocateChunk, AllocateChunkNewPage, NearAllocateChunk,
       SearchPages, MapFixed, SetPermissionFails, SearchOver, NoBlankPage, CodeCave, NoCave,
       OtherMaps, OtherUnmaps, vars, searchVars

LEMMA StepInv == IndInv /\ [Next]_vars => IndInv'
<1> SUFFICES ASSUME IndInv, [Next]_vars PROVE ListType' /\ PageInv'
    BY SearchKeeps DEF IndInv, TypeOK
<1>1. ASSUME NEW size \in Sizes, NEW perm \in {"rx", "rw"}, AllocateChunk(size, perm)
      PROVE  ListType' /\ PageInv'
    <2>1. PICK i \in DOMAIN pages["any"], used \in Fills(size) :
             Fits(pages["any"][i], size, perm) /\ Cut("any", i, 0, perm, size, used)
        BY <1>1 DEF AllocateChunk, First
    <2>2. UNCHANGED <<vm, req, others, replaced>> /\ "any" \in Arenas
        BY <1>1 DEF AllocateChunk, Arenas
    <2>3. /\ pages' \in [Arenas -> Seq(PageChunks)]
          /\ chunks' \in Seq(ChunkRecords)
          /\ PageInv'
        BY <2>1, <2>2, CutKeeps
    <2> QED
        BY <2>2, <2>3 DEF IndInv, TypeOK, ListType, Arenas
<1>2. ASSUME SearchPages
      PROVE  ListType' /\ PageInv'
    <2>1. PICK i \in DOMAIN pages["near"], used \in Fills(req.size) :
             /\ Fits(pages["near"][i], req.size, req.perm)
             /\ Cut("near", i, req.pos, req.perm, req.size, used)
        BY <1>2 DEF SearchPages, First, Usable
    <2>2. /\ UNCHANGED <<vm, others, replaced>> /\ req' = NoRequest /\ "near" \in Arenas
          /\ req.size \in Sizes /\ req.perm \in {"rx", "rw"} /\ req.pos \in Nat
        BY <1>2 DEF SearchPages, Arenas, IndInv, TypeOK, ListType, Requests
    <2>3. /\ pages' \in [Arenas -> Seq(PageChunks)]
          /\ chunks' \in Seq(ChunkRecords)
          /\ PageInv'
        BY <2>1, <2>2, CutKeeps
    <2> QED
        BY <2>2, <2>3 DEF IndInv, TypeOK, ListType, Arenas, NoRequest, Requests
<1>3. CASE UNCHANGED vars
    BY <1>3, FrameKeeps DEF vars, IndInv, TypeOK, ListType
<1> QED
    BY <1>1, <1>2, <1>3, NewPageKeeps, MapFixedKeeps, CaveKeeps, OthersKeep, RequestKeeps
    DEF Next, Near

LEMMA InductiveInv == Spec => []IndInv
    BY InitInv, StepInv, PTL DEF Spec

(* Lists, chunks and requests are what their declarations say.             *)
THEOREM TypeCorrect == Spec => []TypeOK
    BY InductiveInv, PTL DEF IndInv

(* No byte is given out twice by the two arenas and the search for caves,  *)
(* and no cave lies on what an earlier user has written, with the three    *)
(* exceptions ChunksDisjoint names.                                        *)
THEOREM NoOverlap == Spec => []ChunksDisjoint
    BY InductiveInv, PTL DEF IndInv, PageInv

(* A chunk ends below the cursor of its entry, and the entry's page is     *)
(* mapped with the permission the chunk was asked with.                    *)
THEOREM Mapped == Spec => []ChunksStayMapped
<1>1. IndInv => ChunksStayMapped
    <2> SUFFICES ASSUME IndInv, NEW k \in DOMAIN chunks, Sound(chunks[k])
                 PROVE  /\ vm[chunks[k].page] = Anon(chunks[k].perm)
                        /\ chunks[k].off + chunks[k].size < PageSize
        BY DEF ChunksStayMapped
    <2>1. chunks[k] \in ChunkRecords
        BY DEF IndInv, TypeOK, ListType
    <2>2. chunks[k].arena \in Arenas /\ chunks[k].off + chunks[k].size \in Nat
        BY <2>1, SizesAreNats DEF Sound, ChunkRecords, Arenas
    <2>3. PICK i \in DOMAIN pages[chunks[k].arena] :
             /\ pages[chunks[k].arena][i].page = chunks[k].page
             /\ pages[chunks[k].arena][i].perm = chunks[k].perm
             /\ chunks[k].off + chunks[k].size <= pages[chunks[k].arena][i].cursor
        BY DEF IndInv, PageInv, ChunksBelowCursor, BelowCursor
    <2>4. pages[chunks[k].arena][i] \in PageChunks
        BY <2>2 DEF IndInv, TypeOK, ListType, Arenas
    <2>5. vm[chunks[k].page] = Anon(chunks[k].perm)
        BY <2>2, <2>3 DEF IndInv, PageInv, EntriesMapped, Sound
    <2> QED
        BY <2>2, <2>3, <2>4, <2>5, ArenaAssumption DEF PageChunks
<1> QED
    BY <1>1, InductiveInv, PTL

-----------------------------------------------------------------------------
(* The search for a near page.                                             *)

(* The region the search is at lies between the lowest and the highest     *)
(* page in reach.                                                          *)
InRange(r, pos) == LowestPage(pos) <= r.start /\ r.start < r.end /\ r.end < HighestPage(pos)

RequestInv ==
    /\ \A r \in layout : r.start < r.end
    /\ req.pc \in {"left", "right"} => InRange(region, req.pos)
    /\ req.pc \in {"first", "last", "left", "right"} => req.mapped = 0
    /\ req.pc = "search" /\ req.mapped = 1 =>
          \E i \in DOMAIN pages["near"] : Usable(pages["near"][i])
    /\ OnePagePerRequest /\ NearChunksInReach

(* What lies on the lowest page or above is not too far below the          *)
(* position, and the lowest page itself not too far above it.              *)
LEMMA LowBound ==
    ASSUME NEW pos \in Nat, NEW p \in Int, LowestPage(pos) <= p
    PROVE  /\ PageSize * p \in Int /\ pos - PageSize * p < AllocRange
           /\ p = LowestPage(pos) => PageSize * p - pos < AllocRange
<1> DEFINE d == addr_sub(pos, AllocRange)  k == d \div PageSize  r == d % PageSize
<1>1. PageSize \in Nat \ {0} /\ AllocRange \in Nat /\ PageSize < AllocRange
    BY ArenaAssumption
<1>2. d \in Int /\ pos - AllocRange <= d /\ (d = 0 \/ d = pos - AllocRange)
    BY <1>1 DEF addr_sub
<1>3. LowestPage(pos) = k + 1
    BY DEF LowestPage, next_page
<1> HIDE DEF d
<1>4. r \in 0 .. PageSize - 1 /\ k \in Int /\ d = PageSize * k + r
    BY <1>1, <1>2, DivMod
<1> HIDE DEF k, r
<1>5. PageSize * (k + 1) <= PageSize * p /\ PageSize * p \in Int
    BY <1>1, <1>3, <1>4, Multiples
<1>6. PageSize * (k + 1) = PageSize * k + PageSize /\ PageSize * k \in Int
    BY <1>1, <1>4
<1>7. pos - PageSize * p < AllocRange
    BY <1>1, <1>2, <1>4, <1>5, <1>6
<1>8. ASSUME p = LowestPage(pos) PROVE PageSize * p - pos < AllocRange
    <2>1. PageSize * p = PageSize * k + PageSize
        BY <1>3, <1>6, <1>8
    <2> QED
        BY <1>1, <1>2, <1>4, <1>6, <2>1
<1> QED
    BY <1>5, <1>7, <1>8

(* A page that ends below the highest one is not too far above.            *)
LEMMA HighBound ==
    ASSUME NEW pos \in Nat, NEW p \in Int, p >= 1, p <= HighestPage(pos)
    PROVE  PageSize * p \in Int /\ PageSize * p - pos < AllocRange
<1> DEFINE e == addr_add(pos, AllocRange)  k == e \div PageSize  r == e % PageSize
<1>1. PageSize \in Nat \ {0} /\ AllocRange \in Nat /\ NPages \in Nat
    BY ArenaAssumption
<1>2. e \in Int /\ e <= pos + AllocRange
    BY <1>1 DEF addr_add, Top
<1> HIDE DEF e
<1>3. r \in 0 .. PageSize - 1 /\ k \in Int /\ e = PageSize * k + r
    BY <1>1, <1>2, DivMod
<1>4. p <= k - 1
    BY <1>3 DEF HighestPage, prev_page, e
<1> HIDE DEF k, r
<1>5. PageSize * p <= PageSize * (k - 1) /\ PageSize * p \in Int
    BY <1>1, <1>3, <1>4, Multiples
<1>6. PageSize * (k - 1) = PageSize * k - PageSize /\ PageSize * k \in Int
    BY <1>1, <1>3
<1> QED
    BY <1>1, <1>2, <1>3, <1>5, <1>6

(* Every page tried is close enough for search_once_more to accept it.     *)
LEMMA TriesInReach ==
    ASSUME IndInv, RequestInv, NEW p \in Tries
    PROVE  Distance(Address(p, 0), req.pos) < AllocRange
<1> DEFINE pos == req.pos  min == LowestPage(pos)
<1>1. pos \in Nat /\ min \in Nat /\ min >= 1 /\ HighestPage(pos) \in Int /\ p \in Nat
    BY ReachType, TriesType DEF IndInv, TypeOK, ListType, Requests
<1>2. PageSize \in Nat
    BY ArenaAssumption
<1>3. p = min \/ (min <= p /\ p <= HighestPage(pos))
    <2>1. CASE req.pc \in {"first", "last"}
        BY <2>1 DEF Tries, FirstRegion, LastRegion
    <2>2. CASE req.pc \in {"left", "right"}
        <3>1. min <= region.start /\ region.start < region.end /\ region.end < HighestPage(pos)
            BY <2>2 DEF RequestInv, InRange
        <3>2. region.start \in Int /\ region.end \in Int
            BY ArenaAssumption DEF IndInv, TypeOK, SearchType, Regions, NoRegion, Pages
        <3>3. CASE req.pc = "right"
            <4>1. p = region.end + 1
                BY <3>3 DEF Tries, RightBlank
            <4> QED
                BY <1>1, <3>1, <3>2, <4>1
        <3>4. CASE req.pc = "left"
            <4>1. p \in LeftBlank(min)
                BY <3>4 DEF Tries
            <4>2. min <= p /\ (p = min \/ p < region.start)
                BY <4>1 DEF LeftBlank
            <4> QED
                BY <1>1, <3>1, <3>2, <4>2
        <3> QED
            BY <2>2, <3>3, <3>4
    <2> QED
        BY <2>1, <2>2 DEF Tries
<1> HIDE DEF min
<1>4. PageSize * p \in Int /\ pos - PageSize * p < AllocRange
    BY <1>1, <1>3, LowBound DEF min
<1>5. PageSize * p - pos < AllocRange
    <2>1. CASE p = min
        BY <1>1, <2>1, LowBound DEF min
    <2>2. CASE min <= p /\ p <= HighestPage(pos)
        <3>1. p \in Int /\ p >= 1
            BY <1>1, <2>2
        <3> QED
            BY <1>1, <2>2, <3>1, HighBound
    <2> QED
        BY <1>3, <2>1, <2>2
<1>6. Address(p, 0) = PageSize * p
    BY <1>1, <1>2 DEF Address
<1> QED
    BY <1>1, <1>4, <1>5, <1>6 DEF Distance

(* A chunk more, in reach of the position it was asked for.                *)
LEMMA ChunkInReach ==
    ASSUME IndInv, RequestInv, NEW c, chunks' = Append(chunks, c),
           c.arena # "any" => Distance(Address(c.page, c.off), c.pos) < AllocRange
    PROVE  NearChunksInReach'
<1>1. chunks \in Seq(ChunkRecords)
    BY DEF IndInv, TypeOK, ListType
<1>2. \A i \in DOMAIN chunks' : chunks'[i] = c \/ (i \in DOMAIN chunks /\ chunks'[i] = chunks[i])
    BY <1>1
<1>3. \A i \in DOMAIN chunks' :
         chunks'[i].arena # "any" =>
            Distance(Address(chunks'[i].page, chunks'[i].off), chunks'[i].pos) < AllocRange
    BY <1>2 DEF RequestInv, NearChunksInReach
<1> QED
    BY <1>3 DEF NearChunksInReach

(* A cave is in reach, its alignment included.                             *)
LEMMA CaveInReach == ASSUME IndInv, RequestInv, CodeCave PROVE NearChunksInReach'
<1>1. PICK r \in Regions, a \in Nat : UseCave(a) /\ InCave(a, r)
    BY CaveFound
<1> DEFINE address == a + Align - (a % Align)  page == address \div PageSize  off == address % PageSize
           c(used) == Chunk("cave", req.pos, "rx", page, off, req.size, used)
<1>2. /\ PageSize \in Nat \ {0} /\ Align \in Nat \ {0} /\ AllocRange \in Nat /\ req.pos \in Nat
      /\ r.start \in Int /\ r.end \in Int
    BY ArenaAssumption DEF IndInv, TypeOK, ListType, Requests, Regions, Pages
<1>3. address \in Int /\ a < address /\ address <= a + Align
    <2>1. a % Align \in 0 .. Align - 1
        BY <1>2, DivMod
    <2> QED
        BY <1>2, <2>1
<1>4. PICK used : chunks' = Append(chunks, c(used))
    BY <1>1 DEF UseCave
<1> HIDE DEF address
<1>5. Address(page, off) = address
    <2>1. page \in Int /\ off \in Int /\ address = PageSize * page + off
        BY <1>2, <1>3, DivMod
    <2> HIDE DEF page, off
    <2>2. page * PageSize = PageSize * page
        BY <1>2, <2>1
    <2> QED
        BY <2>1, <2>2 DEF Address
<1>6. Address(r.start, 0) = PageSize * r.start /\ Address(r.end, 0) = PageSize * r.end
    BY <1>2 DEF Address
<1>7. PageSize * r.start \in Int /\ req.pos - PageSize * r.start < AllocRange
    BY <1>1, <1>2, LowBound DEF InCave
<1>8. PageSize * r.end \in Int /\ PageSize * r.end - req.pos < AllocRange
    <2>1. r.end >= 1
        BY <1>2 DEF Regions
    <2> QED
        BY <1>1, <1>2, <2>1, HighBound DEF InCave
<1>9. Distance(address, req.pos) < AllocRange
    <2>1. PageSize * r.start <= a /\ a + Align <= PageSize * r.end
        BY <1>1, <1>6 DEF InCave
    <2> QED
        BY <1>2, <1>3, <1>7, <1>8, <2>1 DEF Distance
<1>10. PICK d : d = c(used)
    OBVIOUS
<1>11. d.arena = "cave" /\ d.page = page /\ d.off = off /\ d.pos = req.pos
    BY <1>10 DEF Chunk
<1> HIDE DEF c, page, off
<1>12. Distance(Address(d.page, d.off), d.pos) < AllocRange
    BY <1>5, <1>9, <1>11
<1> QED
    BY <1>4, <1>10, <1>12, ChunkInReach

LEMMA InitRequest == Init => RequestInv
    BY DEF Init, RequestInv, OnePagePerRequest, NearChunksInReach, NoRequest

(* Steps that leave the request and the search alone, and near pages that  *)
(* nobody is about to look for.                                            *)
LEMMA RestKeeps ==
    ASSUME IndInv, RequestInv, UNCHANGED <<req, layout, region>>,
           UNCHANGED pages \/ req.pc # "search", NearChunksInReach'
    PROVE  RequestInv'
<1>1. req.pc = "search" /\ req.mapped = 1 =>
         \E i \in DOMAIN pages'["near"] : Usable(pages'["near"][i])
    BY DEF RequestInv
<1>2. OnePagePerRequest'
    BY DEF RequestInv, OnePagePerRequest
<1> QED
    BY <1>1, <1>2 DEF RequestInv, Usable, InRange

(* A request that is answered.                                             *)
LEMMA AnswerKeeps ==
    ASSUME IndInv, RequestInv, req' = NoRequest, UNCHANGED layout, NearChunksInReach'
    PROVE  RequestInv'
    BY DEF RequestInv, NoRequest, OnePagePerRequest

(* The page just pushed is found by the jump back to search_once_more.     *)
LEMMA PushedIsUsable ==
    ASSUME IndInv, RequestInv, NEW p \in Pages, MapFixed(p)
    PROVE  RequestInv'
<1>1. /\ req.pc \in {"first", "last", "left", "right"} /\ req.mapped = 0
      /\ req \in Requests /\ req.size \in Sizes /\ req.perm \in {"rx", "rw"}
    BY DEF IndInv, TypeOK, ListType, MapFixed, Tries, RequestInv
<1>2. /\ req'.pc = "search" /\ req'.mapped = 1
      /\ req'.pos = req.pos /\ req'.size = req.size /\ req'.perm = req.perm
    BY <1>1 DEF MapFixed, Requests
<1>e. PICK e : e = PushPage(p, req.perm)
    OBVIOUS
<1>3. /\ e.page = p /\ e.cursor = 0 /\ e.perm = req.perm /\ e \in PageChunks
    BY <1>1, <1>e, ArenaAssumption DEF PushPage, PageChunks
<1>4. pages'["near"] = Append(pages["near"], e) /\ pages["near"] \in Seq(PageChunks)
    BY <1>e DEF MapFixed, IndInv, TypeOK, ListType
<1>5. PICK m \in DOMAIN pages'["near"] : pages'["near"][m] = e
    BY <1>3, <1>4
<1>6. Fits(e, req.size, req.perm)
    <2>1. \A size \in Sizes : size \in Nat /\ size < PageSize
        BY ArenaAssumption
    <2> QED
        BY <1>1, <1>3, <2>1 DEF Fits
<1>7. InReach(e, req.pos)
    BY <1>3, TriesInReach DEF InReach, MapFixed
<1>8. Usable(e)'
    <2>1. Fits(e, req'.size, req'.perm) /\ InReach(e, req'.pos)
        BY <1>2, <1>6, <1>7
    <2> QED
        BY <2>1 DEF Usable, Fits, InReach
<1>9. (\E i \in DOMAIN pages["near"] : Usable(pages["near"][i]))'
    BY <1>5, <1>8
<1>10. NearChunksInReach'
    BY DEF MapFixed, RequestInv, NearChunksInReach
<1> QED
    BY <1>2, <1>9, <1>10 DEF RequestInv, OnePagePerRequest, MapFixed, EndSearch

LEMMA StepRequest == IndInv /\ RequestInv /\ [Next]_vars => RequestInv'
<1> SUFFICES ASSUME IndInv, RequestInv, [Next]_vars PROVE RequestInv'
    OBVIOUS
<1>0. req \in Requests
    BY DEF IndInv, TypeOK, ListType
<1>1. ASSUME UNCHANGED chunks PROVE NearChunksInReach'
    BY <1>1 DEF RequestInv, NearChunksInReach
<1>2. ASSUME NEW size \in Sizes, NEW perm \in {"rx", "rw"}, AllocateChunk(size, perm)
      PROVE  RequestInv'
    <2>1. PICK c : c.arena = "any" /\ chunks' = Append(chunks, c)
        BY <1>2 DEF AllocateChunk, Cut, Chunk
    <2>2. NearChunksInReach'
        BY <2>1, ChunkInReach
    <2> QED
        BY <1>2, <2>2, RestKeeps DEF AllocateChunk, Asked, searchVars
<1>3. ASSUME NEW size \in Sizes, NEW perm \in {"rx", "rw"}, NEW p \in Pages,
             AllocateChunkNewPage(size, perm, p)
      PROVE  RequestInv'
    <2>1. PICK c : c.arena = "any" /\ chunks' = Append(chunks, c)
        BY <1>3 DEF AllocateChunkNewPage, Chunk
    <2>2. NearChunksInReach'
        BY <2>1, ChunkInReach
    <2> QED
        BY <1>3, <2>2, RestKeeps DEF AllocateChunkNewPage, Asked, searchVars
<1>4. ASSUME NEW size \in Sizes, NEW perm \in {"rx", "rw"}, NEW pos \in Positions,
             NearAllocateChunk(pos, size, perm)
      PROVE  RequestInv'
    BY <1>1, <1>4 DEF NearAllocateChunk, RequestInv, OnePagePerRequest, searchVars
<1>5. ASSUME SearchPages PROVE RequestInv'
    <2>1. PICK i \in DOMAIN pages["near"], used \in Fills(req.size) :
             Usable(pages["near"][i]) /\ Cut("near", i, req.pos, req.perm, req.size, used)
        BY <1>5 DEF SearchPages, First
    <2>2. PICK c : c = Chunk("near", req.pos, req.perm, pages["near"][i].page,
                             pages["near"][i].cursor, req.size, used)
        OBVIOUS
    <2>3. chunks' = Append(chunks, c)
        BY <2>1, <2>2 DEF Cut
    <2>4. Distance(Address(c.page, c.off), c.pos) < AllocRange
        BY <2>1, <2>2 DEF Usable, InReach, Chunk
    <2>5. NearChunksInReach'
        BY <2>3, <2>4, ChunkInReach
    <2> QED
        BY <1>5, <2>5, AnswerKeeps DEF SearchPages, searchVars
<1>6. ASSUME ReadLayout PROVE RequestInv'
    <2>1. req.mapped = 0
        <3>1. req.pc = "search" /\ req.mapped # 1 /\ req.mapped \in Nat /\ req.mapped <= 1
            BY <1>0, <1>6 DEF ReadLayout, RequestInv, OnePagePerRequest, Requests
        <3> QED
            BY <3>1
    <2>2. req'.pc = "first" /\ req'.mapped = 0
        BY <1>0, <1>6, <2>1 DEF ReadLayout, Requests
    <2>3. \A r \in layout' : r.start < r.end
        BY <1>6 DEF ReadLayout, GetProcessMemoryLayout, IsRegion
    <2>4. NearChunksInReach'
        BY <1>1, <1>6 DEF ReadLayout
    <2> QED
        BY <2>2, <2>3, <2>4 DEF RequestInv, OnePagePerRequest
<1>7. ASSUME SearchOn PROVE RequestInv'
    <2>1. /\ req'.mapped = 0 /\ req'.pos = req.pos
          /\ req'.pc \in {"last", "left", "right"} /\ layout' = layout
        BY <1>0, <1>7 DEF SearchOn, RequestInv, Requests
    <2>2. req'.pc \in {"left", "right"} => InRange(region', req.pos)
        <3>1. CASE req.pc = "first"
            BY <1>0, <1>7, <3>1 DEF SearchOn, Requests
        <3>2. CASE req.pc = "left"
            BY <1>7, <3>2 DEF SearchOn, RequestInv
        <3>3. CASE req.pc \in {"last", "right"}
            <4>1. region' \in RegionsLeft
                BY <1>7, <3>3 DEF SearchOn
            <4> QED
                BY <4>1 DEF RegionsLeft, InRange, RequestInv
        <3> QED
            BY <1>7, <3>1, <3>2, <3>3 DEF SearchOn
    <2>3. InRange(region', req.pos) => InRange(region, req.pos)'
        BY <2>1 DEF InRange
    <2>4. NearChunksInReach'
        BY <1>1, <1>7 DEF SearchOn
    <2> QED
        BY <2>1, <2>2, <2>3, <2>4 DEF RequestInv, OnePagePerRequest
<1>8. ASSUME SearchOver \/ \E p \in Pages : SetPermissionFails(p) PROVE RequestInv'
    <2>1. /\ req'.pc \in {"none", "aborted"} /\ req'.mapped = req.mapped
          /\ layout' = {} /\ UNCHANGED chunks
        BY <1>0, <1>8 DEF SearchOver, SetPermissionFails, EndSearch, Requests
    <2> QED
        BY <1>1, <2>1 DEF RequestInv, OnePagePerRequest
<1>9. ASSUME NoBlankPage \/ NoCave \/ CodeCave PROVE RequestInv'
    <2>1. NearChunksInReach'
        BY <1>1, <1>9, CaveInReach DEF NoBlankPage, NoCave
    <2> QED
        BY <1>9, <2>1, AnswerKeeps DEF NoBlankPage, NoCave, CodeCave, searchVars
<1>10. ASSUME NEW p \in Pages, OtherMaps(p) \/ OtherUnmaps(p) PROVE RequestInv'
    BY <1>1, <1>10, RestKeeps DEF OtherMaps, OtherUnmaps, searchVars
<1>11. CASE UNCHANGED vars
    BY <1>1, <1>11, RestKeeps DEF vars, searchVars
<1> QED
    BY <1>2, <1>3, <1>4, <1>5, <1>6, <1>7, <1>8, <1>9, <1>10, <1>11, PushedIsUsable DEF Next, Near

LEMMA RequestInvariant == Spec => []RequestInv
    BY InductiveInv, InitRequest, StepRequest, PTL DEF Spec

(* Whatever NearMemoryArena::AllocateChunk gives out, from a page of its   *)
(* list or from a code cave, a branch that reaches alloc_range gets to it, *)
(* for every position, alloc_range above a page, and layout it has read.   *)
THEOREM InReachAlways == Spec => []NearChunksInReach
    BY RequestInvariant, PTL DEF RequestInv

(* Every page search_near_blank_page maps passes the test at               *)
(* search_once_more: the jump back is taken once for a request, whatever   *)
(* other threads map meanwhile.                                            *)
THEOREM OnePageAlways == Spec => []OnePagePerRequest
    BY RequestInvariant, PTL DEF RequestInv
=============================================================================
