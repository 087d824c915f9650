------------------------------ MODULE Resolver ------------------------------
(***************************************************************************)
(* DobbySymbolResolver (elf/dobby_symbol_resolver.cc), with which          *)
(* hack_thread looks for do_dlopen in the linker: dlsym first, then the    *)
(* symbol tables in the files of all modules that /proc/self/maps shows.   *)
(*                                                                         *)
(* A line of /proc/self/maps is a mapping of a file.  The kernel lists   *)
(* them by address: a set of lines is read from the lowest start upwards. *)
(* Other threads unload libraries meanwhile; the lines are read first and  *)
(* the memory they describe is looked at afterwards.                       *)
(***************************************************************************)
EXTENDS Integers, Sequences, SequencesExt

CONSTANTS
    File,           \* the files: a function from paths to contents
    Layouts,        \* initial contents of /proc/self/maps: sets of lines
    Symbols,        \* names looked for
    Exported,       \* what dlsym(RTLD_DEFAULT) knows: addresses, 0 if nothing
    Matches,        \* pairs <<image, path>> with the image name in the path
    Images,         \* image names asked for
    MaxUnloads      \* bound on the libraries unloaded

NULL == "NULL"

(* Contents of files, and lines.                                           *)
Segments == [type : STRING, vaddr : Nat, offset : Nat, size : Nat]
SymbolTables == Seq([name : STRING, value : Nat])
Contents == [opens : BOOLEAN, elf : BOOLEAN, phoff : Nat, phdrs : Seq(Segments),
             symtab : SymbolTables, dynsym : SymbolTables]
Lines == [file : DOMAIN File, start : Nat \ {0}, perm : STRING, offset : Nat,
          magic : BOOLEAN, named : BOOLEAN]

Tables(f) == {f.symtab[i] : i \in DOMAIN f.symtab} \cup {f.dynsym[i] : i \in DOMAIN f.dynsym}

(* What the linker makes of a file: the first PT_LOAD segment holds the    *)
(* ELF header, a PT_PHDR segment lies in it, a defined symbol lies at or   *)
(* behind its start, and no table both imports and defines a name.         *)
HasHeader(f, i) == f.phdrs[i].type = "LOAD" /\ f.phdrs[i].offset = 0 /\ f.phdrs[i].size > 0
WellFormed(f) ==
    /\ \E i \in DOMAIN f.phdrs :
          /\ HasHeader(f, i)
          /\ \A j \in DOMAIN f.phdrs :
                /\ f.phdrs[j].type = "LOAD" => j = i \/ (j > i /\ f.phdrs[j].offset > 0)
                /\ f.phdrs[j].type = "PHDR" => f.phdrs[j].vaddr = f.phdrs[i].vaddr + f.phoff
          /\ \A s \in Tables(f) : s.value # 0 => s.value >= f.phdrs[i].vaddr
    /\ \A table \in {f.symtab, f.dynsym} : \A i, j \in DOMAIN table :
          table[i].name = table[j].name => (table[i].value = 0) = (table[j].value = 0)

(* The lines of a layout begin at different addresses, and an ELF file has *)
(* the magic at its beginning only.                                        *)
ASSUME ResolverAssumption ==
    /\ Exported \in [Symbols -> Nat]
    /\ Matches \subseteq Images \X DOMAIN File
    /\ NULL \notin Images /\ MaxUnloads \in Nat
    /\ \A path \in DOMAIN File :
          File[path] \in Contents /\ (File[path].elf => WellFormed(File[path]))
    /\ \A layout \in Layouts :
          /\ layout \subseteq Lines
          /\ \A l, k \in layout : l.start = k.start => l = k
          /\ \A l \in layout : l.magic /\ File[l.file].elf => l.offset = 0

VARIABLES
    maps,           \* /proc/self/maps
    pc,
    image,          \* arguments of the call
    symbol,
    lines,          \* lines read and not yet looked at
    modules,        \* ProcessModuleMap, and the modules still to be searched
    named,          \* is the search for the image's module?
    result,
    unloads

vars == <<maps, pc, image, symbol, lines, modules, named, result, unloads>>
call == <<image, symbol>>

Init ==
    /\ maps \in Layouts
    /\ pc = "dlsym"
    /\ image \in Images \cup {NULL} /\ symbol \in Symbols
    /\ lines = {} /\ modules = {} /\ named = FALSE
    /\ result = 0 /\ unloads = 0

-----------------------------------------------------------------------------
(* ELF files.                                                              *)

(* elf_ctx_init: the program header load_bias is taken from in the end.    *)
(* The first PT_LOAD sets it if it is not set, every PT_PHDR sets it.      *)
LastLoad(f, i) ==
    /\ f.phdrs[i].type = "LOAD"
    /\ \A j \in DOMAIN f.phdrs : f.phdrs[j].type = "LOAD" => j <= i
Decides(f, i) ==
    \/ /\ f.phdrs[i].type = "PHDR"
       /\ \A j \in DOMAIN f.phdrs : f.phdrs[j].type = "PHDR" => j <= i
    \/ /\ f.phdrs[i].type = "LOAD"
       /\ \A j \in DOMAIN f.phdrs :
             f.phdrs[j].type # "PHDR" /\ (f.phdrs[j].type = "LOAD" => i <= j)

(* file_mem - load_bias.                                                   *)
FileBias(f) ==
    LET p == f.phdrs[CHOOSE i \in DOMAIN f.phdrs : Decides(f, i)]
    IN  p.vaddr - (IF p.type = "PHDR" THEN f.phoff ELSE p.offset)

(* The value of the first symbol of that name, 0 if there is none.         *)
iterate_symbol_table_impl(table, name) ==
    LET i == SelectInSeq(table, LAMBDA s : s.name = name)
    IN  IF i = 0 THEN 0 ELSE table[i].value

SymtabOnly(f, name) == iterate_symbol_table_impl(f.symtab, name)
elf_ctx_iterate_symbol_table(f, name) ==
    LET value == iterate_symbol_table_impl(f.symtab, name)
    IN  IF value # 0 THEN value ELSE iterate_symbol_table_impl(f.dynsym, name)

-----------------------------------------------------------------------------
(* The call.                                                               *)

(* GetProcessModuleMap begins: the lines are read.                         *)
ReadMaps == lines' = maps /\ modules' = {} /\ pc' = "scan"

(* The line that comes first in the file, the module first in the vector.  *)
Lowest(ls) == CHOOSE l \in ls : \A k \in ls : l.start <= k.start

Dlsym ==
    /\ pc = "dlsym"
    /\ result' = Exported[symbol]
    /\ named' = (image # NULL)
    /\ IF Exported[symbol] # 0
       THEN pc' = "done" /\ UNCHANGED <<lines, modules>>
       ELSE ReadMaps
    /\ UNCHANGED <<maps, call, unloads>>

(* A readable line is looked at for the ELF magic, whether it is still     *)
(* mapped or not.                                                          *)
Readable(l) == l.perm \in {"r--p", "r-xp"}
Mapped(l) == l \in maps
IsModule(l) == l.magic /\ l.named

ScanLine ==
    /\ pc = "scan" /\ lines # {}
    /\ LET l == Lowest(lines)
       IN  /\ Readable(l) => Mapped(l)
           /\ modules' = IF Readable(l) /\ IsModule(l) THEN modules \cup {l} ELSE modules
           /\ lines' = lines \ {l}
    /\ UNCHANGED <<maps, pc, call, named, result, unloads>>

ScanFaults ==
    /\ pc = "scan" /\ lines # {} /\ Readable(Lowest(lines)) /\ ~Mapped(Lowest(lines))
    /\ pc' = "died"
    /\ UNCHANGED <<maps, call, lines, modules, named, result, unloads>>

(* GetProcessModule: the first module with the name in its path.           *)
GetProcessModule ==
    LET matching == {l \in modules : <<image, l.file>> \in Matches}
    IN  IF matching = {} THEN {} ELSE {Lowest(matching)}

ScanEnds ==
    /\ pc = "scan" /\ lines = {}
    /\ pc' = "search"
    /\ modules' = IF named THEN GetProcessModule ELSE modules
    /\ UNCHANGED <<maps, call, lines, named, result, unloads>>

(* The address of a symbol of the module whose header line l shows.        *)
RuntimeAddress(l, value) == value + l.start - FileBias(File[l.file])

(* One module: its file is mapped, searched and unmapped.  A file that     *)
(* cannot be opened is passed over.                                        *)
SearchModule ==
    /\ pc = "search" /\ modules # {}
    /\ LET l == Lowest(modules)
           f == File[l.file]
           value == IF f.opens /\ f.elf THEN elf_ctx_iterate_symbol_table(f, symbol) ELSE 0
       IN  /\ result' = IF value = 0 THEN 0 ELSE RuntimeAddress(l, value)
           /\ pc' = IF result' = 0 THEN "search" ELSE "done"
           /\ modules' = modules \ {l}
    /\ UNCHANGED <<maps, call, lines, named, unloads>>

(* file_mmap hands out MAP_FAILED, which is not NULL, and a file that is   *)
(* no ELF file (an APK with a library in it) is read as if it were one.    *)
SearchFaults ==
    /\ pc = "search" /\ modules # {} /\ File[Lowest(modules).file].opens
    /\ pc' = "died"
    /\ UNCHANGED <<maps, call, lines, modules, named, result, unloads>>

(* Not in the image: all modules, from the lines as they are now.          *)
SearchAll ==
    /\ pc = "search" /\ modules = {} /\ named
    /\ named' = FALSE
    /\ ReadMaps
    /\ UNCHANGED <<maps, call, result, unloads>>

NotFound ==
    /\ pc = "search" /\ modules = {} /\ ~named
    /\ pc' = "done"
    /\ UNCHANGED <<maps, call, lines, modules, named, result, unloads>>

(* Another thread unloads a library: all its lines go.                     *)
Unload(file) ==
    /\ pc \notin {"done", "died"} /\ unloads < MaxUnloads
    /\ \E l \in maps : l.file = file
    /\ maps' = {l \in maps : l.file # file}
    /\ unloads' = unloads + 1
    /\ UNCHANGED <<pc, call, lines, modules, named, result>>

Next ==
    \/ Dlsym \/ ScanLine \/ ScanFaults \/ ScanEnds
    \/ SearchModule \/ SearchFaults \/ SearchAll \/ NotFound
    \/ \E file \in DOMAIN File : Unload(file)

Spec == Init /\ [][Next]_vars

-----------------------------------------------------------------------------
(* Properties.                                                             *)

(* Where the loader put a symbol: it maps offset o of a file at the        *)
(* address that the segment with this offset asks for, plus a bias that is *)
(* the same for the whole module.                                          *)
LoaderBias(l) ==
    LET f == File[l.file]
        i == CHOOSE i \in DOMAIN f.phdrs :
                /\ f.phdrs[i].type = "LOAD"
                /\ l.offset \in f.phdrs[i].offset .. f.phdrs[i].offset + f.phdrs[i].size - 1
    IN  l.start - (f.phdrs[i].vaddr + l.offset - f.phdrs[i].offset)

Definitions(l) ==
    {LoaderBias(l) + s.value : s \in {x \in Tables(File[l.file]) : x.name = symbol /\ x.value # 0}}

(* Only a mapped ELF header makes a module.                                *)
Headers(layout) == {l \in layout : l.magic /\ l.offset = 0}

(* A result is the run-time address of a definition of the symbol in some  *)
(* module, whatever its segments, its bias, its permissions and the rest   *)
(* of the map look like: DobbyHook patches that address.                   *)
ResolvedIsDefinition ==
    pc = "done" /\ result # 0 =>
        \/ result = Exported[symbol]
        \/ \E layout \in Layouts : \E l \in Headers(layout) :
              File[l.file].elf /\ result \in Definitions(l)

(* NULL means that no module that was there all the time, with a file that *)
(* can be read, defines the symbol.                                        *)
NullMeansUndefined ==
    pc = "done" /\ result = 0 =>
        \A l \in Headers(maps) :
            Readable(l) /\ l.named /\ File[l.file].opens /\ File[l.file].elf => Definitions(l) = {}
=============================================================================
