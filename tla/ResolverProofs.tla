--------------------------- MODULE ResolverProofs ---------------------------
(***************************************************************************)
(* Theorems about Resolver, for every set of files that linkers write and  *)
(* every memory map: an address DobbySymbolResolver returns is where the   *)
(* loader put a definition of the symbol, and NULL means that no module    *)
(* that stayed mapped defines it.                                          *)
(*                                                                         *)
(* Neither follows from the last step alone.  The invariant says which     *)
(* lines of the map are still to be looked at in each phase (Covered) and  *)
(* that whatever is kept comes from one layout (Origin); the lemmas say    *)
(* what the loops over program headers and symbol tables compute.          *)
(***************************************************************************)
EXTENDS Resolver, TLAPS, WellFoundedInduction, NaturalsInduction

(* The modules a search has to pass, and the ones it has to find.          *)
IsCandidate(l) == Readable(l) /\ IsModule(l)
Empty(l) == File[l.file].opens /\ File[l.file].elf => Definitions(l) = {}

(* Everything kept was in the map when the process was started, and what   *)
(* is kept as a module is one.                                             *)
Origin ==
    /\ \E layout \in Layouts : maps \cup lines \cup modules \subseteq layout
    /\ \A l \in modules : IsCandidate(l)

(* What the result of 0 stands for in each phase.                          *)
Covered ==
    /\ pc \in {"scan", "search"} => result = 0
    /\ pc = "scan" => \A l \in maps : IsCandidate(l) => l \in lines \cup modules
    /\ pc = "search" /\ ~named => \A l \in maps : IsCandidate(l) => l \in modules \/ Empty(l)

ResolverInv ==
    /\ pc \in {"dlsym", "scan", "search", "done", "died"} /\ symbol \in Symbols
    /\ Origin /\ Covered /\ ResolvedIsDefinition /\ NullMeansUndefined

-----------------------------------------------------------------------------
(* Minima.                                                                 *)

LEMMA Least ==
    ASSUME NEW T \in SUBSET Nat, T # {}
    PROVE  \E n \in T : \A m \in T : n <= m
<1> DEFINE R == OpToRel(<, Nat)
<1>1. IsWellFoundedOn(R, Nat)
    BY NatLessThanWellFounded
<1> HIDE DEF R
<1>2. PICK x \in T : \A y \in T : ~(<<y, x>> \in R)
    BY <1>1, WFMin
<1>3. \A y \in T : ~(y < x)
    BY <1>2 DEF R, OpToRel
<1> QED
    BY <1>3

(* A set of lines that is not empty has a lowest one.                      *)
LEMMA LowestIsOne ==
    ASSUME NEW ls \in SUBSET Lines, ls # {}
    PROVE  Lowest(ls) \in ls
<1> DEFINE T == {l.start : l \in ls}
<1>1. T \in SUBSET Nat /\ T # {}
    BY DEF Lines
<1>2. PICK n \in T : \A m \in T : n <= m
    BY <1>1, Least
<1>3. \E l \in ls : \A k \in ls : l.start <= k.start
    BY <1>2
<1> QED
    BY <1>3 DEF Lowest

-----------------------------------------------------------------------------
(* ELF files.                                                              *)

LEMMA SegmentFields ==
    ASSUME NEW f \in Contents
    PROVE  \A j \in DOMAIN f.phdrs :
              f.phdrs[j].vaddr \in Nat /\ f.phdrs[j].offset \in Nat /\ f.phdrs[j].size \in Nat
<1>1. f.phdrs \in Seq(Segments)
    BY DEF Contents
<1>2. \A j \in DOMAIN f.phdrs : f.phdrs[j] \in Segments
    BY <1>1
<1>3. \A p \in Segments : p.vaddr \in Nat /\ p.offset \in Nat /\ p.size \in Nat
    BY DEF Segments
<1> QED
    BY <1>2, <1>3

LEMMA SymbolValues ==
    ASSUME NEW table \in SymbolTables
    PROVE  DOMAIN table = 1 .. Len(table) /\ \A j \in DOMAIN table : table[j].value \in Nat
<1> DEFINE Entry == [name : STRING, value : Nat]
<1>1. table \in Seq(Entry)
    BY DEF SymbolTables
<1>2. \A s \in Entry : s.value \in Nat
    OBVIOUS
<1> HIDE DEF Entry
<1> QED
    BY <1>1, <1>2

(* The loop over the program headers ends with the bias of the segment     *)
(* that holds the ELF header, whichever header decides.                    *)
LEMMA BiasOfHeader ==
    ASSUME NEW f \in Contents, NEW i \in DOMAIN f.phdrs, HasHeader(f, i),
           \A j \in DOMAIN f.phdrs :
              /\ f.phdrs[j].type = "LOAD" => j = i \/ (j > i /\ f.phdrs[j].offset > 0)
              /\ f.phdrs[j].type = "PHDR" => f.phdrs[j].vaddr = f.phdrs[i].vaddr + f.phoff
    PROVE  FileBias(f) = f.phdrs[i].vaddr
<1>1. /\ f.phdrs \in Seq(Segments) /\ f.phoff \in Nat
      /\ DOMAIN f.phdrs = 1 .. Len(f.phdrs) /\ Len(f.phdrs) \in Nat
    BY DEF Contents
<1>2. \A j \in DOMAIN f.phdrs : f.phdrs[j].vaddr \in Nat /\ f.phdrs[j].offset \in Nat
    BY SegmentFields
<1>3. \E j \in DOMAIN f.phdrs : Decides(f, j)
    <2> DEFINE T == {Len(f.phdrs) - j : j \in {k \in DOMAIN f.phdrs : f.phdrs[k].type = "PHDR"}}
    <2>1. CASE T = {}
        <3>1. \A j \in DOMAIN f.phdrs : f.phdrs[j].type # "PHDR"
            BY <2>1
        <3>2. Decides(f, i)
            BY <3>1, <1>1 DEF Decides, HasHeader
        <3> QED
            BY <3>2
    <2>2. CASE T # {}
        <3>1. T \in SUBSET Nat
            BY <1>1
        <3>2. PICK n \in T : \A m \in T : n <= m
            BY <2>2, <3>1, Least
        <3>3. PICK k \in DOMAIN f.phdrs : f.phdrs[k].type = "PHDR" /\ n = Len(f.phdrs) - k
            BY <3>2
        <3>4. \A j \in DOMAIN f.phdrs : f.phdrs[j].type = "PHDR" => Len(f.phdrs) - k <= Len(f.phdrs) - j
            BY <3>2, <3>3
        <3>5. \A j \in DOMAIN f.phdrs : f.phdrs[j].type = "PHDR" => j <= k
            BY <3>4, <1>1
        <3> QED
            BY <3>3, <3>5 DEF Decides
    <2> QED
        BY <2>1, <2>2
<1>4. PICK d : d = CHOOSE j \in DOMAIN f.phdrs : Decides(f, j)
    OBVIOUS
<1>5. d \in DOMAIN f.phdrs /\ Decides(f, d)
    BY <1>3, <1>4
<1>6. FileBias(f) = f.phdrs[d].vaddr - (IF f.phdrs[d].type = "PHDR" THEN f.phoff ELSE f.phdrs[d].offset)
    BY <1>4 DEF FileBias
<1>7. CASE f.phdrs[d].type = "PHDR"
    BY <1>1, <1>2, <1>5, <1>6, <1>7
<1>8. CASE f.phdrs[d].type # "PHDR"
    <2>1. f.phdrs[d].type = "LOAD" /\ d <= i
        BY <1>5, <1>8 DEF Decides, HasHeader
    <2>2. d = i
        BY <2>1, <1>1, <1>5
    <2> QED
        BY <2>2, <1>2, <1>6, <1>8 DEF HasHeader
<1> QED
    BY <1>7, <1>8

(* The search of a table gives the value of an entry of that name, and 0   *)
(* only if the table defines no such name.                                 *)
LEMMA TableSearch ==
    ASSUME NEW table \in SymbolTables, NEW name, NEW v,
           \A i, j \in DOMAIN table :
              table[i].name = table[j].name => (table[i].value = 0) = (table[j].value = 0),
           v = iterate_symbol_table_impl(table, name)
    PROVE  /\ v \in Nat
           /\ v # 0 => \E i \in DOMAIN table : table[i].name = name /\ table[i].value = v
           /\ v = 0 => \A i \in DOMAIN table : table[i].name = name => table[i].value = 0
<1> DEFINE I == {j \in 1 .. Len(table) : table[j].name = name}
<1>1. PICK i : i = IF I # {} THEN Min(I) ELSE 0
    OBVIOUS
<1>2. v = IF i = 0 THEN 0 ELSE table[i].value
    BY <1>1 DEF iterate_symbol_table_impl, SelectInSeq
<1>3. DOMAIN table = 1 .. Len(table) /\ \A j \in DOMAIN table : table[j].value \in Nat
    BY SymbolValues
<1>4. CASE I = {}
    <2>1. \A j \in DOMAIN table : table[j].name # name
        BY <1>3, <1>4
    <2> QED
        BY <1>1, <1>2, <1>4, <2>1
<1>5. CASE I # {}
    <2>1. I \in SUBSET Nat /\ \A m \in I : m \in DOMAIN table /\ m # 0 /\ table[m].name = name
        BY <1>3
    <2> HIDE DEF I
    <2>2. \E n \in I : \A m \in I : n <= m
        BY <1>5, <2>1, Least
    <2>3. i \in I
        BY <1>1, <1>5, <2>2 DEF Min
    <2>4. i \in DOMAIN table /\ table[i].name = name /\ v = table[i].value
        BY <1>2, <2>1, <2>3
    <2> QED
        BY <1>3, <2>4
<1> QED
    BY <1>4, <1>5

(* Both tables.                                                            *)
LEMMA FileSearch ==
    ASSUME NEW f \in Contents, WellFormed(f), NEW name, NEW v,
           v = elf_ctx_iterate_symbol_table(f, name)
    PROVE  /\ v \in Nat
           /\ v # 0 => \E s \in Tables(f) : s.name = name /\ s.value = v
           /\ v = 0 => \A s \in Tables(f) : s.name = name => s.value = 0
<1>1. f.symtab \in SymbolTables /\ f.dynsym \in SymbolTables
    BY DEF Contents
<1>2. \A table \in {f.symtab, f.dynsym} : \A i, j \in DOMAIN table :
          table[i].name = table[j].name => (table[i].value = 0) = (table[j].value = 0)
    BY DEF WellFormed
<1>3. PICK a : a = iterate_symbol_table_impl(f.symtab, name)
    OBVIOUS
<1>4. PICK b : b = iterate_symbol_table_impl(f.dynsym, name)
    OBVIOUS
<1>5. v = IF a # 0 THEN a ELSE b
    BY <1>3, <1>4 DEF elf_ctx_iterate_symbol_table
<1>6. /\ a \in Nat
      /\ a # 0 => \E i \in DOMAIN f.symtab : f.symtab[i].name = name /\ f.symtab[i].value = a
      /\ a = 0 => \A i \in DOMAIN f.symtab : f.symtab[i].name = name => f.symtab[i].value = 0
    BY <1>1, <1>2, <1>3, TableSearch
<1>7. /\ b \in Nat
      /\ b # 0 => \E i \in DOMAIN f.dynsym : f.dynsym[i].name = name /\ f.dynsym[i].value = b
      /\ b = 0 => \A i \in DOMAIN f.dynsym : f.dynsym[i].name = name => f.dynsym[i].value = 0
    BY <1>1, <1>2, <1>4, TableSearch
<1> QED
    BY <1>5, <1>6, <1>7 DEF Tables

(* A line with the header of an ELF file: what RuntimeAddress gives is a   *)
(* definition, it is not NULL, and without it there is no definition.      *)
LEMMA AddressIsDefinition ==
    ASSUME NEW l \in Lines, File[l.file].elf, l.offset = 0, NEW v,
           v = elf_ctx_iterate_symbol_table(File[l.file], symbol)
    PROVE  /\ v # 0 => RuntimeAddress(l, v) # 0 /\ RuntimeAddress(l, v) \in Definitions(l)
           /\ v = 0 => Definitions(l) = {}
<1>1. PICK f : f = File[l.file]
    OBVIOUS
<1>2. f \in Contents /\ WellFormed(f)
    BY <1>1, ResolverAssumption DEF Lines
<1>3. /\ v \in Nat
      /\ v # 0 => \E s \in Tables(f) : s.name = symbol /\ s.value = v
      /\ v = 0 => \A s \in Tables(f) : s.name = symbol => s.value = 0
    BY <1>1, <1>2, FileSearch
<1>4. CASE v = 0
    BY <1>1, <1>3, <1>4 DEF Definitions
<1>5. CASE v # 0
    <2>1. PICK i \in DOMAIN f.phdrs :
          /\ HasHeader(f, i)
          /\ \A j \in DOMAIN f.phdrs :
                /\ f.phdrs[j].type = "LOAD" => j = i \/ (j > i /\ f.phdrs[j].offset > 0)
                /\ f.phdrs[j].type = "PHDR" => f.phdrs[j].vaddr = f.phdrs[i].vaddr + f.phoff
          /\ \A s \in Tables(f) : s.value # 0 => s.value >= f.phdrs[i].vaddr
        BY <1>2 DEF WellFormed
    <2>2. FileBias(f) = f.phdrs[i].vaddr
        BY <1>2, <2>1, BiasOfHeader
    <2>3. /\ l.start \in Nat /\ l.start > 0
          /\ \A j \in DOMAIN f.phdrs :
                f.phdrs[j].vaddr \in Nat /\ f.phdrs[j].offset \in Nat /\ f.phdrs[j].size \in Nat
        BY <1>2, SegmentFields DEF Lines
    <2> DEFINE Holds(j) == /\ f.phdrs[j].type = "LOAD"
                           /\ l.offset \in f.phdrs[j].offset .. f.phdrs[j].offset + f.phdrs[j].size - 1
    <2>4. Holds(i) /\ \A j \in DOMAIN f.phdrs : Holds(j) => j = i
        BY <2>1, <2>3 DEF HasHeader
    <2>5. LoaderBias(l) = l.start - (f.phdrs[i].vaddr + l.offset - f.phdrs[i].offset)
        <3>1. (CHOOSE j \in DOMAIN f.phdrs : Holds(j)) = i
            <4> HIDE DEF Holds
            <4> QED
                BY <2>4
        <3> QED
            BY <1>1, <3>1 DEF LoaderBias
    <2>6. LoaderBias(l) = l.start - f.phdrs[i].vaddr
        BY <2>1, <2>3, <2>5 DEF HasHeader
    <2>7. RuntimeAddress(l, v) = LoaderBias(l) + v
        BY <1>1, <1>3, <2>2, <2>3, <2>6 DEF RuntimeAddress
    <2>8. RuntimeAddress(l, v) # 0
        BY <1>3, <1>5, <2>1, <2>3, <2>6, <2>7
    <2>9. RuntimeAddress(l, v) \in Definitions(l)
        <3>1. PICK s \in Tables(f) : s.name = symbol /\ s.value = v
            BY <1>3, <1>5
        <3> QED
            BY <1>1, <1>5, <2>7, <3>1 DEF Definitions
    <2> QED
        BY <1>5, <2>8, <2>9
<1> QED
    BY <1>4, <1>5

-----------------------------------------------------------------------------
(* The invariant.                                                          *)

LEMMA KeptAreLines ==
    ASSUME Origin
    PROVE  maps \subseteq Lines /\ lines \subseteq Lines /\ modules \subseteq Lines
    BY ResolverAssumption DEF Origin

LEMMA InitInv == Init => ResolverInv
<1> SUFFICES ASSUME Init PROVE ResolverInv
    OBVIOUS
<1>1. Origin
    BY DEF Init, Origin
<1> QED
    BY <1>1 DEF Init, ResolverInv, Covered, ResolvedIsDefinition, NullMeansUndefined

LEMMA DlsymInv == ResolverInv /\ Dlsym => ResolverInv'
<1> SUFFICES ASSUME ResolverInv, Dlsym PROVE ResolverInv'
    OBVIOUS
<1>1. CASE Exported[symbol] # 0
    BY <1>1 DEF ResolverInv, Dlsym, call, Origin, Covered, ResolvedIsDefinition, NullMeansUndefined
<1>2. CASE Exported[symbol] = 0
    <2>1. Origin'
        BY <1>2 DEF ResolverInv, Dlsym, ReadMaps, Origin
    <2>2. Covered'
        BY <1>2 DEF Dlsym, ReadMaps, Covered
    <2> QED
        BY <1>2, <2>1, <2>2
        DEF ResolverInv, Dlsym, ReadMaps, call, ResolvedIsDefinition, NullMeansUndefined
<1> QED
    BY <1>1, <1>2

(* A line leaves the list for the module vector unless it is none.         *)
LEMMA ScanLineInv == ResolverInv /\ ScanLine => ResolverInv'
<1> SUFFICES ASSUME ResolverInv, ScanLine PROVE ResolverInv'
    OBVIOUS
<1>1. PICK l : l = Lowest(lines)
    OBVIOUS
<1>2. l \in lines
    BY <1>1, KeptAreLines, LowestIsOne DEF ResolverInv, ScanLine
<1>3. /\ modules' = IF IsCandidate(l) THEN modules \cup {l} ELSE modules
      /\ lines' = lines \ {l}
      /\ pc = "scan" /\ pc' = "scan" /\ maps' = maps /\ symbol' = symbol /\ result' = result
    BY <1>1 DEF ScanLine, IsCandidate, call
<1>4. Origin'
    <2>1. PICK layout \in Layouts : maps \cup lines \cup modules \subseteq layout
        BY DEF ResolverInv, Origin
    <2>2. maps' \cup lines' \cup modules' \subseteq layout
        BY <1>2, <1>3, <2>1
    <2>3. \A k \in modules' : IsCandidate(k)
        BY <1>3 DEF ResolverInv, Origin
    <2> QED
        BY <2>2, <2>3 DEF Origin, IsCandidate, Readable, IsModule
<1>5. Covered'
    <2>1. \A k \in maps' : IsCandidate(k) => k \in lines' \cup modules'
        BY <1>3 DEF ResolverInv, Covered
    <2> QED
        BY <1>3, <2>1 DEF ResolverInv, Covered, IsCandidate, Readable, IsModule
<1> QED
    BY <1>3, <1>4, <1>5 DEF ResolverInv, ResolvedIsDefinition, NullMeansUndefined

LEMMA ScanEndsInv == ResolverInv /\ ScanEnds => ResolverInv'
<1> SUFFICES ASSUME ResolverInv, ScanEnds PROVE ResolverInv'
    OBVIOUS
<1>1. modules' \subseteq modules
    <2> DEFINE M == {l \in modules : <<image, l.file>> \in Matches}
    <2>1. M # {} => Lowest(M) \in M
        <3>1. M \in SUBSET Lines
            BY KeptAreLines DEF ResolverInv
        <3> HIDE DEF M
        <3> QED
            BY <3>1, LowestIsOne
    <2>2. GetProcessModule = IF M = {} THEN {} ELSE {Lowest(M)}
        BY DEF GetProcessModule
    <2>3. GetProcessModule \subseteq modules
        BY <2>1, <2>2
    <2> QED
        BY <2>3 DEF ScanEnds
<1>2. Origin'
    BY <1>1 DEF ResolverInv, ScanEnds, Origin, IsCandidate, Readable, IsModule
<1>3. Covered'
    BY DEF ResolverInv, ScanEnds, Covered, IsCandidate, Readable, IsModule
<1> QED
    BY <1>2, <1>3 DEF ResolverInv, ScanEnds, call, ResolvedIsDefinition, NullMeansUndefined

(* A module is left behind only if it does not define the symbol.          *)
LEMMA SearchModuleInv == ResolverInv /\ SearchModule => ResolverInv'
<1> SUFFICES ASSUME ResolverInv, SearchModule PROVE ResolverInv'
    OBVIOUS
<1>1. PICK l : l = Lowest(modules)
    OBVIOUS
<1>2. PICK value :
        value = IF File[l.file].opens /\ File[l.file].elf
                THEN elf_ctx_iterate_symbol_table(File[l.file], symbol) ELSE 0
    OBVIOUS
<1>3. l \in modules /\ l \in Lines
    BY <1>1, KeptAreLines, LowestIsOne DEF ResolverInv, SearchModule
<1>4. /\ result' = IF value = 0 THEN 0 ELSE RuntimeAddress(l, value)
      /\ pc' = IF result' = 0 THEN "search" ELSE "done"
      /\ modules' = modules \ {l}
    BY <1>1, <1>2 DEF SearchModule
<1>5. /\ pc = "search" /\ maps' = maps /\ lines' = lines /\ named' = named
      /\ symbol' = symbol
    BY DEF SearchModule, call
<1>6. PICK layout \in Layouts : maps \cup lines \cup modules \subseteq layout
    BY DEF ResolverInv, Origin
<1>7. l \in layout /\ l.magic
    BY <1>3, <1>6 DEF ResolverInv, Origin, IsCandidate, IsModule
<1>8. File[l.file].elf => l.offset = 0
    BY <1>7, ResolverAssumption
<1>9. /\ value # 0 => File[l.file].elf /\ RuntimeAddress(l, value) # 0
                      /\ RuntimeAddress(l, value) \in Definitions(l)
      /\ value = 0 => Empty(l)
    BY <1>2, <1>3, <1>8, AddressIsDefinition DEF Empty
<1>10. Origin'
    <2>1. maps' \cup lines' \cup modules' \subseteq layout
        BY <1>4, <1>5, <1>6
    <2> QED
        BY <1>4, <2>1 DEF ResolverInv, Origin, IsCandidate, Readable, IsModule
<1>11. CASE value = 0
    <2>1. pc' = "search" /\ result' = 0
        BY <1>4, <1>11
    <2>2. ~named => \A k \in maps : IsCandidate(k) => k \in modules' \/ Empty(k)
        BY <1>4, <1>5, <1>9, <1>11 DEF ResolverInv, Covered
    <2>3. Covered'
        BY <1>5, <2>1, <2>2
        DEF Covered, Empty, Definitions, LoaderBias, IsCandidate, Readable, IsModule
    <2> QED
        BY <1>5, <1>10, <2>1, <2>3 DEF ResolverInv, ResolvedIsDefinition, NullMeansUndefined
<1>12. CASE value # 0
    <2>1. pc' = "done" /\ result' = RuntimeAddress(l, value) /\ result' # 0
        BY <1>4, <1>9, <1>12
    <2>2. l \in Headers(layout) /\ File[l.file].elf /\ result' \in Definitions(l)
        BY <1>7, <1>8, <1>9, <1>12, <2>1 DEF Headers
    <2>3. ResolvedIsDefinition'
        BY <1>5, <1>6, <2>2 DEF ResolvedIsDefinition, Definitions, LoaderBias, Headers
    <2> QED
        BY <1>5, <1>10, <2>1, <2>3 DEF ResolverInv, Covered, NullMeansUndefined
<1> QED
    BY <1>11, <1>12

LEMMA SearchAllInv == ResolverInv /\ SearchAll => ResolverInv'
<1> SUFFICES ASSUME ResolverInv, SearchAll PROVE ResolverInv'
    OBVIOUS
<1>1. Origin'
    BY DEF ResolverInv, SearchAll, ReadMaps, Origin
<1>2. Covered'
    BY DEF ResolverInv, SearchAll, ReadMaps, Covered
<1> QED
    BY <1>1, <1>2 DEF ResolverInv, SearchAll, ReadMaps, call, ResolvedIsDefinition, NullMeansUndefined

(* No module is left.                                                      *)
LEMMA NotFoundInv == ResolverInv /\ NotFound => ResolverInv'
<1> SUFFICES ASSUME ResolverInv, NotFound PROVE ResolverInv'
    OBVIOUS
<1>1. /\ pc = "search" /\ ~named /\ modules = {} /\ pc' = "done"
      /\ maps' = maps /\ lines' = lines /\ modules' = modules /\ result' = result
      /\ symbol' = symbol
    BY DEF NotFound, call
<1>2. Origin'
    BY <1>1 DEF ResolverInv, Origin, IsCandidate, Readable, IsModule
<1>3. \A l \in maps : IsCandidate(l) => Empty(l)
    BY <1>1 DEF ResolverInv, Covered
<1>4. NullMeansUndefined'
    BY <1>1, <1>3 DEF NullMeansUndefined, Headers, IsCandidate, IsModule, Readable, Empty,
       Definitions, LoaderBias
<1> QED
    BY <1>1, <1>2, <1>4 DEF ResolverInv, Covered, ResolvedIsDefinition

LEMMA FaultsInv == ResolverInv /\ (ScanFaults \/ SearchFaults) => ResolverInv'
<1> SUFFICES ASSUME ResolverInv, ScanFaults \/ SearchFaults PROVE ResolverInv'
    OBVIOUS
<1>1. Origin'
    BY DEF ResolverInv, ScanFaults, SearchFaults, Origin, IsCandidate, Readable, IsModule
<1> QED
    BY <1>1 DEF ResolverInv, ScanFaults, SearchFaults, call, Covered, ResolvedIsDefinition,
       NullMeansUndefined

(* The map only loses lines.                                               *)
LEMMA UnloadInv ==
    ASSUME NEW file \in DOMAIN File
    PROVE  ResolverInv /\ Unload(file) => ResolverInv'
<1> SUFFICES ASSUME ResolverInv, Unload(file) PROVE ResolverInv'
    OBVIOUS
<1>1. /\ maps' \subseteq maps /\ pc \notin {"done", "died"}
      /\ pc' = pc /\ lines' = lines /\ modules' = modules /\ result' = result
      /\ named' = named /\ symbol' = symbol
    BY DEF Unload, call
<1>2. Origin'
    BY <1>1 DEF ResolverInv, Origin, IsCandidate, Readable, IsModule
<1>3. Covered'
    BY <1>1 DEF ResolverInv, Covered, Empty, Definitions, LoaderBias, IsCandidate, Readable, IsModule
<1> QED
    BY <1>1, <1>2, <1>3 DEF ResolverInv, ResolvedIsDefinition, NullMeansUndefined

LEMMA StutterInv == ResolverInv /\ UNCHANGED vars => ResolverInv'
<1> SUFFICES ASSUME ResolverInv, UNCHANGED vars PROVE ResolverInv'
    OBVIOUS
<1>1. /\ maps' = maps /\ pc' = pc /\ lines' = lines /\ modules' = modules /\ result' = result
      /\ named' = named /\ symbol' = symbol
    BY DEF vars
<1>2. Origin'
    BY <1>1 DEF ResolverInv, Origin, IsCandidate, Readable, IsModule
<1>3. Covered'
    BY <1>1 DEF ResolverInv, Covered, Empty, Definitions, LoaderBias, IsCandidate, Readable, IsModule
<1>4. ResolvedIsDefinition' /\ NullMeansUndefined'
    BY <1>1 DEF ResolverInv, ResolvedIsDefinition, NullMeansUndefined, Headers, Definitions,
       LoaderBias, Readable
<1> QED
    BY <1>1, <1>2, <1>3, <1>4 DEF ResolverInv

LEMMA InvariantHolds == Spec => []ResolverInv
<1>1. ResolverInv /\ [Next]_vars => ResolverInv'
    BY DlsymInv, ScanLineInv, ScanEndsInv, SearchModuleInv, SearchAllInv, NotFoundInv,
       FaultsInv, UnloadInv, StutterInv DEF Next
<1> QED
    BY InitInv, <1>1, PTL DEF Spec

(* An address that DobbySymbolResolver returns is what dlsym knows or the  *)
(* run-time address of a definition of the symbol in a mapped ELF file:    *)
(* prelinked or not, with any segments, whichever program header the bias  *)
(* was taken from, whatever else is mapped or unloaded meanwhile.          *)
THEOREM ResolvedAlways == Spec => []ResolvedIsDefinition
    BY InvariantHolds, PTL DEF ResolverInv

(* NULL comes back only if no named readable module that is still mapped,  *)
(* and whose file can be opened, defines the symbol in either table: the   *)
(* search loses none on the way through lines, modules and tables.         *)
THEOREM NullAlways == Spec => []NullMeansUndefined
    BY InvariantHolds, PTL DEF ResolverInv
=============================================================================
