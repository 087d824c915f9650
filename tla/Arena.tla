------------------------------- MODULE Arena -------------------------------
(***************************************************************************)
(* MemoryArena and NearMemoryArena: the pages Dobby maps for trampolines,  *)
(* relocated code and stubs, and the chunks it cuts from them.             *)
(*                                                                         *)
(* An address is page * PageSize + offset.  Mappings of the process that   *)
(* are not Dobby's are there from the start or come and go while a request *)
(* is under way: the near arena reads /proc/self/maps first and maps with  *)
(* MAP_FIXED afterwards.  Chunks are never freed (MemoryArena::Destroy is  *)
(* empty).                                                                 *)
(***************************************************************************)
EXTENDS Integers, Sequences, FiniteSets

CONSTANTS
    NPages,         \* pages of the address space
    PageSize,       \* bytes of a page
    Align,          \* alignment of a code cave (4 in the code)
    Layouts,        \* initial mappings: functions from pages to mappings
    Content,        \* bytes of the initial mappings that are not zero
    Sizes,          \* sizes of the chunks asked for
    Fills(_),       \* how many bytes of a chunk of that size its user may fill
    Positions,      \* addresses that near chunks have to be close to
    AllocRange,     \* and how close
    MaxChunks,      \* bound on the chunks given out
    MaxOthers       \* bound on the mappings made by other threads

Pages == 0 .. NPages - 1
Mapping(owner, perm) == [owner |-> owner, perm |-> perm]
Unmapped == Mapping("none", "none")
Anon(perm) == Mapping("dobby", perm)
Other == Mapping("other", "rw")
Foreign == {Mapping(o, p) : o \in {"lib", "heap", "stack"}, p \in {"rx", "rw"}}

ASSUME ArenaAssumption ==
    /\ NPages \in Nat /\ PageSize \in Nat \ {0} /\ Align \in Nat \ {0}
    /\ Layouts \subseteq [Pages -> {Unmapped} \cup Foreign]
    /\ \A l \in Layouts : l[0] = Unmapped /\ \E p \in Pages : l[p] # Unmapped
    /\ Content \subseteq 0 .. NPages * PageSize - 1
    /\ Sizes \subseteq 1 .. PageSize - 1
    /\ \A size \in Sizes : Fills(size) \subseteq 0 .. size
    /\ Positions \subseteq 0 .. NPages * PageSize - 1
    /\ AllocRange \in Nat /\ PageSize < AllocRange
    /\ MaxChunks \in Nat /\ MaxOthers \in Nat

VARIABLES
    vm,             \* what every page is mapped to
    bytes,          \* addresses of bytes that are not zero
    pages,          \* page_chunks of the two arenas, as sequences of PageChunk
    chunks,         \* chunks given out, oldest first
    req,            \* the request under way
    layout,         \* regions search_near_blank_page has read
    region,         \* the one its loop is at
    assumePageAddr, \* page it has tried last
    others,         \* mappings made by other threads
    replaced        \* pages a MAP_FIXED has mapped over (history)

searchVars == <<layout, region, assumePageAddr>>
vars == <<vm, bytes, pages, chunks, req, searchVars, others, replaced>>

NoRegion == [start |-> -1, end |-> 0, perm |-> "none"]
NoRequest == [pc |-> "idle", pos |-> 0, size |-> 0, perm |-> "none", mapped |-> 0]

Init ==
    /\ vm \in Layouts
    /\ bytes = Content
    /\ pages = [a \in {"any", "near"} |-> <<>>]
    /\ chunks = <<>>
    /\ req = NoRequest
    /\ layout = {} /\ region = NoRegion /\ assumePageAddr = 0
    /\ others = 0
    /\ replaced = {}

-----------------------------------------------------------------------------
(* PageChunk lists.                                                        *)

Address(page, off) == page * PageSize + off
Distance(a, b) == IF a < b THEN b - a ELSE a - b

(* The remaining space is compared with <: a chunk never fills its page.   *)
FitsNow(e, size, perm) == e.perm = perm /\ e.cursor < PageSize
FitsAnyPermission(e, size, perm) == e.cursor + size < PageSize
Fits(e, size, perm) == e.perm = perm /\ e.cursor + size < PageSize

AnyReach(e, pos) == TRUE
InReach(e, pos) == Distance(Address(e.page, e.cursor), pos) < AllocRange

(* The lists are searched from the front: entry i of the suitable ones.    *)
First(i, suitable) == i \in suitable /\ \A j \in suitable : i <= j

Bytes(page, off, size) == {Address(page, o) : o \in off .. off + size - 1}
PageBytes(page) == Bytes(page, 0, PageSize)

Chunk(arena, pos, perm, page, off, size, used) ==
    [arena |-> arena, pos |-> pos, perm |-> perm, page |-> page, off |-> off, size |-> size,
     used |-> used]

(* A chunk at the cursor of entry i; its user fills the first bytes of it  *)
(* at once (FinalizeFromTurboAssembler asks for more than it writes).      *)
KeepCursor(e, size) == e
Advance(e, size) == [e EXCEPT !.cursor = @ + size]

Cut(arena, i, pos, perm, size, used) ==
    LET e == pages[arena][i]
    IN  /\ chunks' = Append(chunks, Chunk(arena, pos, perm, e.page, e.cursor, size, used))
        /\ bytes' = bytes \cup Bytes(e.page, e.cursor, used)
        /\ pages' = [pages EXCEPT ![arena][i] = Advance(e, size)]

PushRx(page, perm) == [page |-> page, cursor |-> 0, perm |-> "rx"]
PushPage(page, perm) == [page |-> page, cursor |-> 0, perm |-> perm]

-----------------------------------------------------------------------------
(* MemoryArena.                                                            *)

Asked(size) == req.pc = "idle" /\ Len(chunks) < MaxChunks /\ size \in Sizes

AllocateChunk(size, perm) ==
    /\ Asked(size)
    /\ \E i \in DOMAIN pages["any"], used \in Fills(size) :
          /\ First(i, {k \in DOMAIN pages["any"] : Fits(pages["any"][k], size, perm)})
          /\ Cut("any", i, 0, perm, size, used)
    /\ UNCHANGED <<vm, req, searchVars, others, replaced>>

NoneFits(size, perm) == \A i \in DOMAIN pages["any"] : ~Fits(pages["any"][i], size, perm)

(* Allocate(NULL, ...) maps a free page of the kernel's choice.            *)
AllocateChunkNewPage(size, perm, p) ==
    /\ Asked(size) /\ NoneFits(size, perm)
    /\ p # 0 /\ vm[p] = Unmapped
    /\ vm' = [vm EXCEPT ![p] = Anon(perm)]
    /\ pages' = [pages EXCEPT !["any"] = Append(@, Advance(PushPage(p, perm), size))]
    /\ \E used \in Fills(size) :
          /\ chunks' = Append(chunks, Chunk("any", 0, perm, p, 0, size, used))
          /\ bytes' = bytes \cup Bytes(p, 0, used)
    /\ UNCHANGED <<req, searchVars, others, replaced>>

-----------------------------------------------------------------------------
(* NearMemoryArena: page arithmetic, with the wrap-around of addr_t.       *)

Top == NPages * PageSize
addr_sub(a, b) == IF a >= b THEN a - b ELSE 0
addr_add(a, b) == IF a + b < Top THEN a + b ELSE Top - 1
next_page(a) == a \div PageSize + 1
prev_page(a) == IF a \div PageSize = 0 THEN 0 ELSE a \div PageSize - 1

LowestPage(pos) == next_page(addr_sub(pos, AllocRange))
HighestPage(pos) == prev_page(addr_add(pos, AllocRange))

(* GetProcessMemoryLayout: the lines of /proc/self/maps.  The kernel shows *)
(* neighbouring anonymous pages of one permission as one region.  The last *)
(* line appears twice, which changes nothing below.                        *)
IsRegion(r) ==
    /\ r.start < r.end /\ vm[r.start] # Unmapped /\ r.perm = vm[r.start].perm
    /\ \A p \in r.start .. r.end - 1 : vm[p] = vm[r.start]
    /\ r.start > 0 => vm[r.start - 1] # vm[r.start]
    /\ r.end < NPages => vm[r.end] # vm[r.start]
Regions == [start : Pages, end : 1 .. NPages, perm : {"rx", "rw"}]
GetProcessMemoryLayout == {r \in Regions : IsRegion(r)}

(* search_near_blank_page tries a page in front of the first region, one   *)
(* behind the last, and for every region in reach the one to its left and  *)
(* the one to its right: none or one at each place.                        *)
FirstRegion(min) == IF \A r \in layout : min < r.start THEN {min} ELSE {}
LastRegion(min, max) == IF \E r \in layout : max < r.end THEN {min} ELSE {}

LeftBlank(min) ==
    LET ends == {r.end + 1 : r \in {q \in layout : q.start < region.start}}
        addr_max == {p \in ends \cup {min} : \A e \in ends \cup {min} : e <= p}
    IN  IF ends # {} /\ assumePageAddr = min /\ \A e \in ends : e < region.start
        THEN addr_max ELSE {}

RightBlank ==
    LET starts == {r.start : r \in {q \in layout : region.start < q.start}}
    IN  IF starts # {} /\ \A p \in starts : region.end < p THEN {region.end + 1} ELSE {}

(* The pages tried at the place that the search has come to.               *)
Tries ==
    LET min == LowestPage(req.pos)
    IN  CASE req.pc = "first" -> FirstRegion(min)
          [] req.pc = "last" -> LastRegion(min, HighestPage(req.pos))
          [] req.pc = "left" -> LeftBlank(min)
          [] req.pc = "right" -> RightBlank
          [] OTHER -> {}

(* The regions the loop has still to look at.                              *)
RegionsLeft ==
    {r \in layout : /\ r.end < HighestPage(req.pos) /\ r.start >= LowestPage(req.pos)
                    /\ r.start > region.start}

-----------------------------------------------------------------------------
(* NearMemoryArena: a request.                                             *)

NearAllocateChunk(pos, size, perm) ==
    /\ Asked(size)
    /\ req' = [pc |-> "search", pos |-> pos, size |-> size, perm |-> perm, mapped |-> 0]
    /\ UNCHANGED <<vm, bytes, pages, chunks, searchVars, others, replaced>>

Usable(e) == Fits(e, req.size, req.perm) /\ InReach(e, req.pos)

(* search_once_more.                                                       *)
SearchPages ==
    /\ req.pc = "search"
    /\ \E i \in DOMAIN pages["near"], used \in Fills(req.size) :
          /\ First(i, {k \in DOMAIN pages["near"] : Usable(pages["near"][k])})
          /\ Cut("near", i, req.pos, req.perm, req.size, used)
    /\ req' = NoRequest
    /\ UNCHANGED <<vm, searchVars, others, replaced>>

ReadLayout ==
    /\ req.pc = "search"
    /\ \A i \in DOMAIN pages["near"] : ~Usable(pages["near"][i])
    /\ layout' = GetProcessMemoryLayout /\ region' = NoRegion
    /\ assumePageAddr' = LowestPage(req.pos)
    /\ req' = [req EXCEPT !.pc = "first"]
    /\ UNCHANGED <<vm, bytes, pages, chunks, others, replaced>>

EndSearch == layout' = {} /\ region' = NoRegion /\ assumePageAddr' = 0

(* OSMemory::Allocate with an address is mmap with MAP_FIXED.  A page      *)
(* outside the address space cannot be mapped.                             *)
MapFixed(p) ==
    /\ p \in Tries
    /\ vm' = [vm EXCEPT ![p] = Anon(req.perm)]
    /\ bytes' = bytes \ PageBytes(p)
    /\ replaced' = IF vm[p] = Unmapped THEN replaced ELSE replaced \cup {p}
    /\ pages' = [pages EXCEPT !["near"] = Append(@, PushPage(p, req.perm))]
    /\ req' = [req EXCEPT !.pc = "search", !.mapped = @ + 1]
    /\ EndSearch
    /\ UNCHANGED <<chunks, others>>

(* SetPermission calls FATAL when mprotect fails: the process is gone.     *)
SetPermissionFails(p) ==
    /\ p \in Tries
    /\ req' = [req EXCEPT !.pc = "aborted"]
    /\ EndSearch
    /\ UNCHANGED <<vm, bytes, pages, chunks, others, replaced>>

(* mmap fails or no page was tried: on to the next place.                  *)
SearchOn ==
    /\ \/ req.pc = "first" /\ req' = [req EXCEPT !.pc = "last"] /\ UNCHANGED region
       \/ req.pc = "left" /\ req' = [req EXCEPT !.pc = "right"] /\ UNCHANGED region
       \/ /\ req.pc \in {"last", "right"} /\ req' = [req EXCEPT !.pc = "left"]
          /\ region' \in {r \in RegionsLeft : \A q \in RegionsLeft : r.start <= q.start}
    /\ assumePageAddr' \in IF Tries = {} THEN {assumePageAddr} ELSE Tries
    /\ UNCHANGED <<vm, bytes, pages, chunks, layout, others, replaced>>

SearchOver ==
    /\ req.pc \in {"last", "right"} /\ RegionsLeft = {}
    /\ req' = [req EXCEPT !.pc = "none"]
    /\ EndSearch
    /\ UNCHANGED <<vm, bytes, pages, chunks, others, replaced>>

NoBlankPage ==
    /\ req.pc = "none" /\ req.perm = "rw"
    /\ req' = NoRequest
    /\ UNCHANGED <<vm, bytes, pages, chunks, searchVars, others, replaced>>

(* search_near_blank_memory_chunk: memmem for size zero bytes and then     *)
(* Align - 1 bytes from behind the needle's allocation, zero or not: what  *)
(* it may find in a region, if anything.                                   *)
Caves(r, size) ==
    LET Zero(a, n) == \A x \in a .. a + n - 1 : x \notin bytes
        All == {a \in Address(r.start, 0) .. Address(r.end, 0) - 1 :
                   a + size + Align - 1 <= Address(r.end, 0) /\ Zero(a, size)}
        Blank == {a \in All : Zero(a, size + Align - 1)}
    IN  {a \in Blank : \A b \in Blank : a <= b} \cup (All \ Blank)

CaveRegions ==
    {r \in GetProcessMemoryLayout : /\ r.perm = "rx" /\ r.end <= HighestPage(req.pos)
                                    /\ r.start >= LowestPage(req.pos)}

(* The chunk in the cave is remembered by its user alone.                  *)
UseCave(a) ==
    LET address == a + Align - (a % Align)
    IN  \E used \in Fills(req.size) :
            /\ chunks' = Append(chunks, Chunk("cave", req.pos, "rx", address \div PageSize,
                                              address % PageSize, req.size, used))
            /\ bytes' = bytes \cup (address .. address + used - 1)

(* The size grows with every region that memmem finds nothing in.          *)
CodeCave ==
    /\ req.pc = "none" /\ req.perm = "rx"
    /\ \E r \in CaveRegions :
          LET tried == {p \in 0 .. r.start - 1 : \E q \in CaveRegions : q.start = p}
          IN  \E a \in Caves(r, req.size + Cardinality(tried) * (Align - 1)) : UseCave(a)
    /\ req' = NoRequest
    /\ UNCHANGED <<vm, pages, searchVars, others, replaced>>

NoCave ==
    /\ req.pc = "none" /\ req.perm = "rx"
    /\ req' = NoRequest
    /\ UNCHANGED <<vm, bytes, pages, chunks, searchVars, others, replaced>>

-----------------------------------------------------------------------------
(* Other threads of the process, and the kernel.                           *)

OtherMaps(p) ==
    /\ others < MaxOthers /\ req.pc # "aborted" /\ p # 0 /\ vm[p] = Unmapped
    /\ vm' = [vm EXCEPT ![p] = Other]
    /\ others' = others + 1
    /\ UNCHANGED <<bytes, pages, chunks, req, searchVars, replaced>>

OtherUnmaps(p) ==
    /\ vm[p] = Other /\ req.pc # "aborted"
    /\ vm' = [vm EXCEPT ![p] = Unmapped]
    /\ UNCHANGED <<bytes, pages, chunks, req, searchVars, others, replaced>>

Near ==
    \/ SearchPages \/ ReadLayout \/ SearchOn \/ SearchOver
    \/ \E p \in Pages : MapFixed(p) \/ SetPermissionFails(p)
    \/ NoBlankPage \/ CodeCave \/ NoCave

Next ==
    \/ \E size \in Sizes, perm \in {"rx", "rw"} :
          \/ AllocateChunk(size, perm)
          \/ \E p \in Pages : AllocateChunkNewPage(size, perm, p)
          \/ \E pos \in Positions : NearAllocateChunk(pos, size, perm)
    \/ Near
    \/ \E p \in Pages : OtherMaps(p) \/ OtherUnmaps(p)

Spec == Init /\ [][Next]_vars

-----------------------------------------------------------------------------
(* Properties.                                                             *)

PageChunks == [page : Pages, cursor : 0 .. PageSize - 1, perm : {"rx", "rw"}]
ChunkRecords == [arena : {"any", "near", "cave"}, pos : Nat, perm : {"rx", "rw"},
                 page : Nat, off : 0 .. PageSize - 1, size : Sizes, used : Nat]

Requests ==
    [pc : {"idle", "search", "first", "last", "left", "right", "none", "aborted"}, pos : Nat,
     size : Nat, perm : {"none", "rx", "rw"}, mapped : Nat]

ListType ==
    /\ vm \in [Pages -> {Unmapped, Other, Anon("rx"), Anon("rw")} \cup Foreign]
    /\ pages \in [{"any", "near"} -> Seq(PageChunks)]
    /\ chunks \in Seq(ChunkRecords)
    /\ req \in Requests
    /\ req.pc \notin {"idle", "aborted"} => req.size \in Sizes /\ req.perm \in {"rx", "rw"}
    /\ others \in 0 .. MaxOthers
    /\ replaced \subseteq Pages
SearchType ==
    layout \subseteq Regions /\ region \in Regions \cup {NoRegion} /\ assumePageAddr \in Nat

TypeOK == ListType /\ SearchType

(* Chunks cut from a page, as long as no MAP_FIXED has fallen on it.       *)
Sound(c) == c.arena # "cave" /\ c.page \notin replaced

Filled(c) == Bytes(c.page, c.off, c.used)

(* The bytes of a chunk that it was chosen for: of a cave all but the last *)
(* Align, which memmem compares with nothing or not at all.                *)
Chosen(c) == Bytes(c.page, c.off, IF c.arena = "cave" THEN c.size - Align ELSE c.size)

Replaced(a) == \E p \in replaced : a \in PageBytes(p)

(* Two users of the arenas never get the same byte, whichever arena, list  *)
(* entry or request the chunks come from, and a code cave is not taken     *)
(* where an earlier user has written.  Excepted are pages a MAP_FIXED has  *)
(* fallen on; bytes an earlier user has left zero, which a cave may take;  *)
(* and caves in the rest of an arena's own page, which the cursor does not *)
(* know of: a later chunk of that page lies on top of them.                *)
ChunksDisjoint ==
    \A i, j \in DOMAIN chunks :
        i < j => \A a \in Chosen(chunks[i]) \cap Chosen(chunks[j]) :
            \/ Replaced(a)
            \/ chunks[j].arena = "cave" /\ a \notin Filled(chunks[i])
            \/ chunks[i].arena = "cave" /\ chunks[j].arena # "cave"

(* Code is cut from a page that can be executed, data from one that can be *)
(* written, and the page stays mapped that way behind every chunk.         *)
ChunksStayMapped ==
    \A i \in DOMAIN chunks :
        Sound(chunks[i]) => /\ vm[chunks[i].page] = Anon(chunks[i].perm)
                            /\ chunks[i].off + chunks[i].size < PageSize

(* A near chunk, cave or not, is within alloc_range of the position it was *)
(* asked for: a branch with that reach gets there.                         *)
NearChunksInReach ==
    \A i \in DOMAIN chunks :
        chunks[i].arena # "any" =>
            Distance(Address(chunks[i].page, chunks[i].off), chunks[i].pos) < AllocRange

(* The jump back to search_once_more finds the page just pushed: a near    *)
(* request maps one page at most and does not loop.                        *)
OnePagePerRequest == req.mapped <= 1

(* "check if assume-page-addr in memory-layout" (NearMemoryArena.cc:105):  *)
(* the near arena maps blank pages only.                                   *)
OnlyBlankPages == replaced = {}
=============================================================================
