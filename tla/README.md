# Zygisk-Il2CppDumper in TLA+

This directory specifies the Zygisk module of this repository (`module/src/main/cpp`) and the
part of the bundled Dobby library it depends on, checks the specifications with TLC on small
instances and proves theorems about them with TLAPS. Paths below are relative to
`module/src/main/cpp` unless they start with `src/`.

## 1. The system

The module is loaded by Zygisk into every application process. In the process of one package
(`game.h`) it starts a thread that hooks the dynamic loader with Dobby, waits until the game
opens `libil2cpp.so`, waits five more seconds and writes the C# declarations of every class to
`files/dump.cs`.

| Component | State it keeps | Operations | Talks to |
|---|---|---|---|
| Zygisk entry (`main.cpp`) | `enable_hack`, the data directory | `preAppSpecialize`, `postAppSpecialize` | starts `hack_thread` |
| Loader hook (`hook.cpp`) | `il2cpp_handle`, three `orig_` pointers | `isGame`, `hack_thread`, `new_do_dlopen_V19/V24`, `new___loader_dlopen`, `dlopen_process` | Dobby (patches the loader), the application's threads (run the replacements), `il2cpp_dump` |
| Dump driver (`il2cpp_dump.cpp`) | API pointers, `imageOutput`, `outPuts`, the output stream, the file | `init_il2cpp_api`, the image loop, the class loop or the reflection loop, the write | the il2cpp runtime, the file system |
| Renderer (`il2cpp_dump.cpp`) | a `stringstream` with its number base and write position, `il2cpp_base` | `dump_type`, `dump_field`, `dump_property`, `dump_method`, `get_method_modifier`, `get_module_base` | metadata of the runtime, `/proc/self/maps` |
| Dobby `Interceptor` and inline hook | list of hook entries, patched code, relocated copies | `DobbyHook`, `DobbyDestroy` | relocation, trampolines, `CodePatch`, arenas |
| Dobby instrumentation, near-branch plugin | entries in the same list, closures; one plugin pointer | `DobbyInstrument`, `dobby_enable/disable_near_branch_trampoline` | Interceptor, near arena |
| Dobby arm64 relocation and trampolines | an assembler buffer and its labels | `GenRelocateCodeAndBranch`, `GenerateNormalTrampolineBuffer`, `GenerateNearTrampolineBuffer` | arenas |
| Dobby x86 and x64 relocation, decoder, trampolines | an assembler buffer, a chunk and its size | `x86_insn_decode`, `GenRelocateCodeFixed`, `GenRelocateCodeAndBranch` | arenas |
| Dobby arm relocation | an assembler buffer and its labels | `GenRelocateCodeAndBranch` | arenas |
| Dobby `CodePatch`, `ClearCache` | code pages | copy, flush | every thread that runs the code |
| Dobby `MemoryArena`, `NearMemoryArena` | lists of pages with a cursor | `AllocateChunk`, `search_near_blank_page`, `search_near_blank_memory_chunk` | mmap, `/proc/self/maps`, mappings of other threads |
| Dobby symbol resolver, process utilities | the module map | `DobbySymbolResolver`, `GetProcessModuleMap`, `GetProcessMemoryLayout` | `/proc/self/maps`, ELF files |
| Containers, logging, header files, build scripts, plugins for other platforms | none that another part depends on | | |

`PROJECT.json` lists the same parts with their files and what is left out of each.

### What is hard about it

- **Patching code that runs.** `DobbyHook` stores `*origin_call`, then overwrites several words
  of a function that other threads execute, then flushes the instruction cache. Any order of
  these steps works in a test with one thread.
- **A handle shared without a lock.** `dlopen_process` tests `il2cpp_handle` and stores to it in
  two steps on whichever thread called `dlopen`; `hack_thread` reads it in a loop and again five
  seconds later. On most API levels the linker's mutex happens to serialise the replacements, on
  API 26-29 it does not.
- **Waiting for an event that may have passed.** The poll loop ends only if an open of
  `libil2cpp.so` goes through the installed hook.
- **A process that may die at any step** while it writes a file that outlives it, on a device
  that may be full, with a runtime that may not be initialised and an API of which any part may
  be missing.
- **Stream state.** The text is produced with a sticky number base and a write position that is
  moved back over a trailing comma.
- **Code that is moved.** Every pc-relative instruction becomes another sequence at another
  address, with literals behind it; hooks of one function are stacked, relocate one another's
  trampolines and are destroyed while threads are inside them. On x86 the instructions have to
  be measured first, and the copy is redone in a larger chunk until it fits.
- **An address space that changes.** The near arena and the resolver read `/proc/self/maps` and
  act on it later, with `MAP_FIXED` or by reading the memory, while other threads map and unmap.

### What makes each component correct

- Loader hook: only the game's process is touched; no thread calls through a null `orig_`
  pointer; no open after the installation is missed; the handle is published once; a seen open
  leads to a dump, from libil2cpp's handle unless the game has a library of a similar name.
- Dump driver: the null checks suffice; the old file survives everything up to the write; a file
  is a beginning of one dump and, when the stream was closed without error, all of it; it ends.
- Renderer: the text says what the metadata says (modifiers, numbers, parameter lists, bases,
  addresses), for members in any order, and none of it is commented out.
- Interceptor: the original code runs exactly once behind any stack of hooks, newest hook first;
  destroying restores it; the list agrees with the code.
- Relocation: the copy does what the original did, it comes back to the right place, it stands
  for whole instructions, and it is finished some time. Where the code falls short of this, the
  properties name how, and say that there is nothing else.
- Arenas: no byte is given out twice but where section 5 says so, chunks stay mapped as asked
  for, near chunks are near.
- Resolver: a result is where the loader put the symbol; NULL means that nobody defines it.

## 2. Modules

| Module | Models | Composition |
|---|---|---|
| `Hook` | `main.cpp`, `hook.cpp`, and `DobbyHook` as seen by running threads | ends in the call of `il2cpp_dump` with its two arguments |
| `HookProofs` | theorems about `Hook` | |
| `DumpFile` | **abstract**: what a reader of `dump.cs` may rely on | |
| `Dump` | the driver, from the call to the return, with kills and restarts | implements `DumpFile` |
| `DumpProofs` | theorems about `Dump`, among them the refinement | |
| `CSharp` | the words for the flags of types and members, as `il2cpp_dump.cpp` prints them | vocabulary of the next two |
| `ClassText` | **abstract**: the text of a class, member by member as declared | |
| `Render` | the text of one class, which is one chunk of `Dump`, through the stringstreams | implements `ClassText` |
| `RenderProofs` | theorems about `Render`, among them the refinement | |
| `Prologue` | **abstract**: the first instructions of a function run in place | |
| `Arm64Reloc` | the relocated copy and the trampoline | implements `Prologue` |
| `Arm64Proofs` | theorems about `Arm64Reloc`, among them the refinement | |
| `Interceptor` | the entry list, stacked hooks and instrumentations, the plugin, and a thread that calls through them | takes from `Arm64Reloc` that a copy does what its words did in place |
| `InterceptorProofs` | theorems about the registry and about the calls | |
| `X86Prologue` | **abstract**: the first instructions of an x86 or x64 function run in place, by the processor's rules | |
| `X86Reloc` | decoder, trampolines, relocation with retries, and the copy running | its steps are steps of `X86Prologue` |
| `X86Proofs` | theorems about `X86Reloc`, among them the refinement | |
| `Arena` | both arenas and the address space | gives the chunks that `Arm64Reloc`, `X86Reloc` and `Interceptor` put code in |
| `ArenaProofs` | theorems about `Arena` | |
| `Resolver` | `DobbySymbolResolver` | its answer is `ResolveTarget` of `Hook` |
| `ResolverProofs` | theorems about `Resolver` | |
| `MC...` | values of the constants for TLC | |

### Hook

State: one process. `main_pc` and `enable_hack`, `game_data_dir` are `main.cpp`'s; `hpc` is the
control point of `hack_thread` and, inside it, of `DobbyHook`
(`start`, `hook`, `route`, `origin`, `patch`, `flush`, `poll`, `nap`, `sleep5`, `done`);
`entries`, `orig`, `patched`, `flushed` are what `DobbyHook` changes; `apc` and `call` are the
control point and the current `dlopen` call of each application thread; `linker_lock` is the
linker's global mutex; `died` records what killed the process.

Actions follow the code one by one: `preAppSpecialize`, `postAppSpecialize`, `ResolveTarget`
(the API-level branches of `hack_thread`), `DobbyHookBegin`, `DispatchRouting` (with
`AddHookEntry`), `SetOriginCall`, `CodePatchWord` and `CodePatchFault`, `ClearCache`,
`PollHandle`, `CallDump`; and for the application `Dlopen`, `AcquireLinkerLock`, `FetchWord`,
`CallOrig`, `Load`, `DlopenProcessCheck`, `DlopenProcessStore`, `Return`.

Paths are sequences of components, so that the two `sscanf` patterns of `isGame` are modelled by
what they accept. `memcpy` writes the words of the trampoline in any order; a core fetches a
word as it is in memory or, before `ClearCache`, as it was. A thread that executed both an old
and a new word has run code nobody wrote: the model kills the process (`torn`), and the
properties say who can get there. `CodePatch` makes only the page of the first byte writable;
`WordsOnPage` says how many words lie on it, and the copy faults on the next one. `strstr(NULL)`,
a failed `mprotect` and a failed allocation kill the process too, because the code tests none of
them.

`dlopen_process` knows the library by `strstr(name, "libil2cpp.so")`, so a name that only contains
it passes too (`Contains`): a game of `LookalikeGames` has such a library, and its handle may be
published and dumped in place of libil2cpp's. `Dumpable` says so, and `Undisturbed` under which
condition opens cannot spoil one another: the linker's mutex, or, where `__loader_dlopen` is hooked
and takes it too late, opens that all give libil2cpp's handle.

External, from how the code uses it: the mutex that covers `do_dlopen` but is taken inside
`__loader_dlopen`, and which entry points pass through which function. `FailingOpens` is the set
of API levels on which an open of `libil2cpp.so` may return NULL.

### Dump and DumpFile

State: what the device has (`exports`, `managed`), the file, and the variables of `il2cpp_dump`.
The exported functions are grouped by where the code calls them; the three that it tests stand
for themselves. `InitRuntime` is the game finishing `il2cpp_init` at any time; until then the
attach may kill the process and the assembly list is a beginning of the full one. `Restart` is
a kill and a new start. `Flush` is the stream buffer going to the kernel at any time, or failing.

`DumpFile` has three steps: truncate with the whole dump in hand, append the next chunk, stop.
The refinement maps `writing` to an open good stream and `target` to the text in memory. What a
complete dump is, is stated by position and not by concatenation: `IsDumpOf` says that a text has
one chunk for each class of each image, in the order of the images (`ChunksOf`, `Before`).

### Render, CSharp and ClassText

Text is a sequence of tokens. The loops of the code are actions: `dump_type` (up to the name),
`PrintBase` for each base, `BeginBody`, `dump_field`, `dump_property` and `dump_method` for each
member the iterators return, `PrintParam` for each parameter, `EndMethod`, and `EndFields`,
`EndProperties`, `EndMethods` where an iterator returns null and the next function begins. `i` is
the counter of the two inner loops. A stream has a number base and a put pointer, so `std::hex`
being sticky and `seekp(-2)` overwriting a comma are modelled by what they do. Members come in any
order and any number up to `most`. The names of a member and of its type are single tokens.
`il2cpp_field_static_get_value` copies the bytes of an enum constant, signed or not, into a zeroed
`uint64_t`, which is what is printed (`f.value % f.size`). `/proc/self/maps` is whether it can be
opened and its lines: a line belongs to libil2cpp.so or not, and names it or not, so a library
mapped from an APK and a file with a similar name are both there. Addresses are numbers modulo
`Word` (2^64 in the code), so the subtraction of the base wraps as it does there.

`ClassText` writes the same class without a stream: every member appends its text, the base is part
of each number, the comma comes before a parameter and not behind it, and whether a type is by
reference is known. `Constant` says what the number of an enum constant is: the declared value or,
below zero, the unsigned number of the same bytes - a fault of the output that the property keeps
by name. Both take from `CSharp` which words a set of flags has; whether those words are
right is what `ModifiersFollowMetadata` and `HeaderIsCSharp` say. The refinement maps `text` to
`Visible`: what is in `dump_type`'s stream and in that of the current function, without the comma
that the parameter loop is going to overwrite. A method is rendered where its by-reference bit is
right or the API tells (`BitsAreRight`): before `il2cpp_type_is_byref` existed the bit was where
this code reads it.

### Prologue and Arm64Reloc

Addresses count instructions. A program is a sequence of instructions (`plain`, `ldr` and `ldrw`
for the literal loads of Xt and Wt, `ldrsw`, `adr`, `adrp`, `b`, `bl`, `cond` for tbz, cbz and
b.cond). What can be observed of a load is its address and width, of a call its target and what it
leaves in the link register; the copy, which is at `CopyAt`, differs in a width (both loads are
written with the 64-bit `ldr`, `LdrSize`) and in the link register. `GenRelocateCodeAndBranch`
relocates one instruction per step, one action for each kind as the `if` chain has them, then
appends the branch back and binds the assembler's labels behind the code. The result is executed
word by word: a literal load reads the two words at its offset, whatever they are, and `br` goes
where x17 points. `Mov` is four words, as emitted. Bit fields are not modelled, except the signed
width of adrp's field, which the trampoline's choice between adrp and a literal is about. A
literal load of the forms the code calls unimplemented ends the process. Not in the set of
programs: literal loads of SIMD registers, which pass the same mask test and are copied as loads
of a general register.

### Interceptor

A function is a window of four words, the longest trampoline on arm64, and a body. `DobbyHook`,
`DobbyInstrument` and `DobbyDestroy` are atomic here (`Hook` has the steps of a hook) and may
happen while a thread is inside a replacement or a handler. The thread executes the words it
finds: `adrp`, `add`, `br` or a single `b` lead to a replacement or a closure, a literal is read
from the function's memory as it is now, a data word that is executed is a crash. Every
replacement calls its `origin_call` once; a closure carries the number of its entry, so that
behind the handler the thread goes on with the copy of that entry (`NextHop`). `relocated` holds
the copy of every entry ever made, since copies are never freed and a thread may still be in one;
`origin` is the variable that the caller of `DobbyHook` passed for a function and a replacement;
`ret` says what the last call of the API returned and for what. `EntriesOf` is the list as one
function sees it: the order in which a call must meet the replacements. The plugin may be switched
at any time; with it a trampoline is one branch, or the normal one when no near page is found.
With `Arch = "arm"` only the registry and the patched words are modelled, no calls.

`used` and `careful` are history variables: `careful` becomes FALSE when a hook is stacked in
one of three ways that the code does not carry: the same replacement twice on one function (with
another between), trampolines of two lengths on one function, a literal trampoline under
another hook. Each of the three conjuncts is needed: without any one of them the run fails. The
first is a shortcoming of the "check if already hooked", which looks at the newest entry only:
hooks r1, r2, r1 all succeed, the two r1 share one `origin_call` variable, and a call then goes
r1, r2, r1, ... for ever.

### Arena

An address is a page and an offset; `vm` says what every page is mapped to. `MemoryArena` takes
a page of the kernel's choice; a request to `NearMemoryArena` takes several steps: search the
list, read the layout, map the candidates with `MAP_FIXED` one after the other, search again, and
for code look for zero bytes in an executable region when nothing could be mapped. The layout that
was read is a set of regions; the candidates are what `search_near_blank_page` makes of it, one
per step: the lowest page in reach, in front of the first region and again, whatever is there,
when a region lies behind the reach; then for each region the page to its left and the one to its
right, which is one page too far. Another
thread maps and unmaps a page between any two steps; every mmap may fail, and so may mprotect,
which ends the process. `replaced` is a history variable: the pages a `MAP_FIXED` has fallen on
while they were mapped. The properties of the chunks speak of the other pages; that there are
pages in `replaced` at all is what `arena_blank` shows.

A user need not fill its chunk (`Fills`): `FinalizeFromTurboAssembler` asks for more than it writes.
What it leaves is zero, and so is a page behind its cursor, so the search for a code cave may find
its zeros in Dobby's own pages; `search_near_blank_memory_chunk` excludes neither, and it moves no
cursor. Caves are therefore chunks like the others in `ChunksDisjoint`, which names what may
overlap.

### Resolver

A file is its program headers and its two symbol tables, a line of `/proc/self/maps` a mapping
of a file with its offset, permissions and whether it begins with the ELF magic. The map is a set
of lines, read by ascending address. The call runs `dlsym`, reads all lines, looks at each (a line
whose library has been unloaded is a fault), searches the named module and then all. `FileBias` is
what the loop of `elf_ctx_init` ends with: the bias of the last `PT_PHDR` or, without one, of the
first `PT_LOAD` (`Decides`). The properties compare with `LoaderBias`, what a loader does with the
same file. `WellFormed` says which files are meant: the first `PT_LOAD` holds the ELF header,
`PT_PHDR` lies in it, defined symbols lie behind its start, no table both imports and defines a
name. For a file that breaks one of these the code may give a wrong address or miss a definition.

### X86Prologue and X86Reloc

Addresses count bytes; the code of a function is a function from addresses to instructions, each
of which begins where the one before ends (`IsCode`). An instruction is its encoding as far as its
length and its pc-relative operand follow from it: prefixes, REX bits, opcode bytes, ModRM and SIB
fields, kind of immediate (`enter`, far pointers and the addresses of `moffs` among them), and
whether the opcode map takes it for 64-bit. The encodings of VEX, EVEX and XOP are left out. What
can be observed of a call is its target and the return address it pushes. `X86Prologue` measures
and executes it by the processor's rules, `X86Reloc` by `x86_insn_decode.c`, with the enum of
register names that is compared with encodings, the 64-bit immediate of which four bytes are
skipped, and the rows of the opcode map that list no operands. Where the two lengths differ the
decoder continues inside an instruction; what it makes of the bytes there is data, so the
behaviour ends in phase `torn`. `GenRelocateCodeFixed` copies one instruction per step,
`origin_len` is updated even if the copy then does not fit, and the next attempt starts over in a
chunk of another address. The copy is then run, one instruction per step. 32-bit displacements
wrap at `Reach32`, 8-bit ones at 128. The 64-bit trampoline jumps through a stub that the near
arena has put within `Reach32` of the function; that is a guard here and `NearChunksInReach`
there.

## 3. Runs

| Run | Shows | States |
|---|---|---|
| `hook` | All safety properties of the loader hook, for every API branch and every shape of data directory, with two threads; and that an open of `libil2cpp.so` that the hook sees ends in a dump from its handle: under the linker's mutex even if other opens fail or name another library, on API 26-29 if none does. | 323 559 |
| `hook_readme` | **Violation.** The README (`src/README.md:21`) promises a dump once the game is started; a game that opened the library before the hook was complete is polled for ever. | |
| `hook_lost` | **Violation.** On API 26-29 a failed open of `libil2cpp.so` that races a successful one overwrites the handle with NULL; the promised dump is never made. | |
| `dump` | Null checks, survival of the old file, completeness, the refinement of `DumpFile`, and that it ends, for every subset of the API, kills and file errors at any step. | 46 456 |
| `render` | The text is the one `ClassText` writes; headers and modifiers are C#; no comment is left open but by a stripped property; RVAs are right exactly when the base is. | 709 520 |
| `arm64_reloc` | The copy of every three-instruction prologue does what the prologue does, but for the width of a 32-bit load and the link register, and is left; the trampoline leads to the replacement. | 723 470 |
| `x86_reloc` | The copy of the first instructions, in both modes, does what they do in place but for the branches and return addresses named below, stands for whole instructions, and is finished; the trampoline leads to its stub. | 52 831 |
| `interceptor` | Hooks and instrumentations of two functions, near and far, with and without the plugin, installed and destroyed under a calling thread. | 1 292 272 |
| `interceptor_arm` | **Violation.** On 32-bit ARM `DobbyDestroy` looks for the entry under the decremented address; the entry stays and the function cannot be hooked again. | |
| `arena` | No byte twice but in the ways named below, chunks stay mapped, near chunks in reach, one page per request. | 599 671 |
| `arena_blank` | **Violation.** Without any other thread the near arena maps its page over a mapping of the process. | |
| `resolver` | Every answer is where a definition lies; NULL only if there is none. | 6 508 |

### Bounds, and why they are enough

- `hook`: two threads, because every race of the code is between `hack_thread` and one thread or
  between two callers of `dlopen_process`; two opens, the least with a race; two patched words,
  the least with a mixture; five API levels: one per branch (23, 24, 26, 30) and 28, where no open
  fails. On the API 24 device the second word lies on the next page, and the games of 23 and 26, one
  on each side of the linker's mutex, have a lookalike. The theorems remove these
  bounds for the safety properties. There is no symmetry, since the run checks liveness too.
- `dump`: images with one, no and two classes give the loops a first, an empty and a last case;
  two starts give an old file to lose.
- `render`: every visibility, every combination of the other type flags and of the method flags
  (visibility and flags are printed one after the other, independently); two members of a kind
  are the least that see the state another left behind; zero, one and two parameters are the
  cases of the trailing comma. Constants are below zero and not. `Word = 8` keeps the wrap-around
  within reach. Five maps: one for each way in which the first line that matches is, or is not,
  where the library begins.
- `arm64_reloc`: three instructions is the length of the adrp trampoline; each position takes each
  kind, with targets before, behind and inside the prologue. A branch back into the prologue meets
  the trampoline instead of the code, since the check for it is compiled out; `CopyIsLeft` says
  that nothing else gets there.
- `x86_reloc`: two instructions of any of some twenty-five forms, then three fixed ones, so that every
  form is measured first and behind another, and the copy outgrows the first chunk; chunks near,
  far and around the end of the address space. Calls and operands that lie inside the prologue
  (the `call $+5` idiom) are left out.
- `interceptor`: three hooks allow a hook, another over it, a destroy and a new one while a thread
  is inside, and one replacement under and over another.
- `arena`: pages of six bytes and chunks of two and three, so that a page is filled by one or two
  and a chunk that would exactly fill it is refused, and a chunk whose user fills only the first
  byte, so that caves lie in the pages of the arenas too; three layouts, one for each way the search
  for a blank page ends; two positions, of which one is so low that the reach is cut off at zero.
- `resolver`: four maps that hold each kind of module before and after the one that defines the
  symbol; two unloads, one before and one after a line is looked at.

Deadlock is not checked: a process that is dead, has returned or waits for the application is a
legal end in each of these models.

### Fairness

- `Hook`: weak fairness of the Zygisk callbacks, of `hack_thread` and of each thread inside
  `dlopen`: the kernel schedules runnable threads. Nothing makes the application open a library,
  so the liveness properties start from an open.
- `Dump`: weak fairness of the thread that runs `il2cpp_dump`, none of `InitRuntime` or `Restart`.
- `Arm64Reloc`, `Interceptor`: weak fairness of the core that executes the code, none of the
  calls of the API.
- `X86Reloc`: weak fairness of the thread that hooks and then runs the copy.
- `Render`: none, it promises no more than what it has written so far.
- `Arena`, `Resolver`: none; that a near request does not loop is the invariant
  `OnePagePerRequest`.

## 4. Proofs

Proved by TLAPS for every value of the constants that satisfies the named assumptions, which TLC
evaluates on the values of the runs: `HookAssumption` (bounds are naturals, at least one patched
word, the lock's free value is no thread) and `DirAssumption` (a directory is a sequence of
names), `DumpAssumption` (images are a sequence of naturals, at least one run), `ArenaAssumption`
(chunks are smaller than a page and their users stay within them, page 0 is not mapped, the reach
is more than a page), `RelocAssumption` (a prologue is a sequence of the instructions above, at
any address), `WordAssumption`, `MapsAssumption` and `ClassesAssumption` of `Render` (maps has its
lines by address and libil2cpp.so is mapped, under its name or not; headers and members have the
flags that the metadata format defines), `X86Assumption` (the code at the function is a row of
instructions, each of one of the encodings of `X86Prologue`, that covers the trampoline),
`InterceptorAssumption` (NULL is no function, replacement or handler; Thumb functions exist on arm
only) and `ResolverAssumption` (lines begin at different addresses, an ELF file has the magic at
its beginning only and is `WellFormed`). None of the bounds on threads, calls, hooks, chunks,
restarts or retries is a small number in a proof.

**`HookProofs`** proves `TypeOK`, `OrigSetBeforeHookRuns`, `LateOpensAreSeen`,
`OnlyTheGameIsHooked`, `DumpGetsHandle` and the action properties `HandleStable` and
`TornOnlyWhilePatching`, for any number of threads, opens and patched words. None of them is
inductive. The invariant adds:

- `InstallInv`: how far the installation is at each control point of `hack_thread` - above all
  that no word is patched before `orig` is set, and that all are patched and flushed once
  `DobbyHook` has returned;
- `PrologueInv`: what a thread has executed so far of the first words: one that executed a new
  word is there only because a word was patched, and one whose call began after the return of
  `DobbyHook` has executed no old one;
- `HandleInv`: a thread inside `do_dlopen` holds the linker's mutex, hence only one is about to
  store; what a thread stores is libil2cpp's handle unless the game has a lookalike or the open
  failed;
- `GameInv`: `hack_thread` exists only if `isGame` accepted the directory.

Each is preserved by its own lemma, one step per action.

**`DumpProofs`** proves `TypeOK`, `GuardedApisMayBeMissing`, the refinement `FileSpec`
(`WritesDumpFile`), `ClosedMeansComplete` and the action property `OldDumpSurvives`, for every list
of images and any number of restarts. The invariant adds `ApiInv` (the branch taken agrees with the
pointers tested), `StreamInv` (file and buffer together are the first `i - 1` chunks of the output),
`TextInv` (at each control point the text in memory is exactly the chunks of the images and classes
before the loop counters, in order) and `FileInv` (the file is a beginning of that text), with a
lemma for each way the stream changes: open, write, flush.

**`ArenaProofs`** proves `TypeOK`, `ChunksDisjoint`, `ChunksStayMapped`, `NearChunksInReach` and
`OnePagePerRequest` for any address space, layouts, page size, chunk sizes and number of requests.
`ChunksDisjoint` is not inductive: a new chunk is disjoint from the old ones because it begins at
the cursor of a list entry and every chunk of that page ends at or below it; or, if it is a cave,
because the bytes it was chosen for are zero and what an earlier user has filled is not
(`ChunksHeld`). The invariant adds `EntriesMapped` (the page of an entry is mapped with the
entry's permission unless a `MAP_FIXED` fell on it), `EntriesUnique` (two entries of both lists
have the same page only if it was replaced) and `ChunksBelowCursor`. `OnePagePerRequest` rests on
`RequestInv`: the region the search is at lies within reach, so that every page tried next to it
does too, and a page that was mapped is an entry the repeated search of the list accepts.

**`Arm64Proofs`** proves the refinement of `Prologue` (`CopyRunsPrologue`: for every prologue at
every address, running the copy is running the instructions in place, with `WideLoad` and
`LinkToCopy` as the only other steps) and `TrampolineLeadsToReplacement` for every page size,
reach of adrp and pair of addresses. `RelocInv` describes the copy without its layout: what the
word behind each word is, by kind (`CopyGood`, under construction too: a label still to be bound
names the word that loads it), and what x17 holds before a word that uses it (`RunGood`).

**`X86Proofs`** proves `CopyIsWholeInstructions`, `TrampolineLeadsToStub` and the refinement of
`X86Prologue` (`CopyRunsInPlace`), for every function, chunk and stub. `RelocInv` says that the copy
is whole instructions in a row, each translated from its old address to its new one, and that a
retry starts with a length that ends an instruction (`OriginGood`). The lemma `Measured` compares
the decoder with the processor on every encoding of `X86Prologue`: `Misread` is exactly the list of
those whose lengths differ.

**`InterceptorProofs`** proves type correctness, `DestroyRestores` and, on arm64,
`RefusedOnlyIfActive`, for any functions, replacements, handlers and number of hooks.
`DestroyRestores` speaks of the moment at which the last entry goes; the invariant says at all
times what undoing the entries one by one would leave (`Undone`): behind all of them the original
words, behind those before an entry that entry's trampoline. It also proves, for calls,
`OriginalRunsOnce` and `NewestRunsFirst`. `StackInv` says how the copies hang together - the newest
entry's trampoline is in place, each other one saved by the entry on top of it, the function's own
words by the oldest, and a copy that an entry no longer owns still leads to a live one - and
`CoreInv` where the thread is in that chain and which entries it has passed.

**`ResolverProofs`** proves `ResolvedIsDefinition` and `NullMeansUndefined`, for all files and maps.
`Covered` says which modules are still to be looked at in each phase, so that none is lost between
lines, modules and tables; `Origin` that everything kept comes from one layout. `BiasOfHeader`:
whichever program header decides, the bias is that of the segment with the ELF header;
`TableSearch`: the first entry of a name tells whether the table defines it.

**`RenderProofs`** proves the refinement `RendersClass` and the invariants `HeaderIsCSharp`,
`NoCommentLeftOpen`, `RvaIsModuleOffset` and `ModifiersFollowMetadata`, for every class and any
number of bases, members and parameters. The invariant behind the refinement is about the stream
(`StreamInv`): the put pointer is at its end, and behind a parameter there is the comma that the
next text takes the place of; with `ParamsInv` it follows that `seekp(-2)` is only done over such
a comma (`SeekBackPut`). Then every step of `Render` appends one text, which is the one of a step
of `ClassText` (`TextStep`). `NoCommentLeftOpen` follows from these texts (`LineInv`): a text that
begins a comment has a line end behind it (`Closes`), so no comment is open behind it whatever was
before; a text of `Plain` tokens begins none and leaves an open one open if it has no line end;
and the comment of a stripped property is the one that neither says (`LeavesAppend` follows it
over the list of properties). `RvaIsModuleOffset` is an equivalence: `FirstLine` and `FoundBase`
say when the line `get_module_base` stops at is the first of the library, and `OffsetOnlyBack`
that with any other base no address comes out right. `HeaderInv` says where each base and each
comma stands after any number of bases, and that no word of the list is one of a modifier.

**Only model-checked:**

- liveness (`HookedGameIsDumped`, `DumpEnds`, `CopyIsLeft`, `CallsReturn`, `RelocationEnds`), which
  is beyond the prover;
- the four violations, which are facts about an instance.

## 5. Findings

The four violations above are recorded in `PROJECT.json` with the lines they disagree with. Further
facts are stated as exceptions inside passing properties, so that the properties also say that
there are no others - on the instances checked and on all, since the theorems carry the same
exceptions:

- a trampoline whose distance is within one page of adrp's reach does not lead to the replacement
  (`TrampolineLeadsToReplacement`), and a stub in the first bytes of the near arena's range is out
  of the reach of x64's jump (`TrampolineLeadsToStub`);
- a game whose library's name only contains `libil2cpp.so` may have that library's handle published
  and dumped (`Dumpable`, `Undisturbed`);
- the RVAs are wrong, all of them, when `dladdr` fails and `get_module_base` does not stop at the
  first line of the library: `/proc/self/maps` cannot be opened, the library is mapped from an APK,
  a file in front of it has its name in its own, or on aarch64 its first segment is read-only
  (`BaseFound` in `RvaIsModuleOffset`);
- the constants of an enum are printed unsigned, also those below zero (`Constant` in
  `RendersClass`);
- a property without accessors leaves its comment open, and the next property with accessors is
  commented out (`LeavesLineOpen` in `NoCommentLeftOpen`);
- on arm64 a 32-bit literal load becomes a 64-bit one, with the next word in the upper half of the
  register (`WideLoad`), and a call leaves an address of the copy in the link register
  (`LinkToCopy` in `CopyRunsPrologue`);
- on x86 and x64 a short conditional branch in the copy lands four bytes behind its target, a short
  jump is cut to eight bits and a long conditional one keeps its old displacement
  (`TakesUntranslatedBranch`); a call pushes an address of the copy, which is what a callee such as
  `get_pc_thunk` of 32-bit position-independent code then takes for the function's
  (`PushesCopyAddress`); and on x64 an operand or target may be out of reach of the displacement
  (`OutOfReach`, all in `CopyRunsInPlace`);
- the encodings `x86_insn_decode` measures wrongly (`Misread` in `CopyIsWholeInstructions`): rows
  of the opcode map without operands, 64-bit immediates, `enter`, far pointers, `moffs` measured by
  the operand size, `push` of an Iz behind 66 in 64-bit mode, an Iz behind 66 and REX.W with a
  RIP-relative operand, and some SIB bytes;
- a code cave may lie in what a chunk's user has left zero, and in the rest of an arena's own page,
  where the next chunk of that page is put over it (`ChunksDisjoint`);
- stacks of hooks the code does not carry (`Careful` in `Interceptor`).

`CloseFile` of `Dump` logs "dump done!" whether or not the file could be opened and written, as the
code does.

## 6. Not modelled, and the plan

- **arm relocation** (`ARMInstructionRelocation.cc`). A model of it would be a second `Arm64Reloc`
  with two instruction sets. What was read there: the condition and H bit of ARM B and BL are
  shadowed by inner variables that are never set, so that BL does not link; branch offsets are not
  sign-extended, in Thumb state neither for b, bcond and cbz; the inverted conditional branch skips
  to the address word instead of behind it; Thumb adr is read without the shift and the alignment
  of pc; `blx pc` tests a register number that is not set. Few 32-bit prologues come through, so
  there is little for a property to say beyond this list.
- **The closure bridge's saving of registers**: hand-written assembly, which a model at this level
  would only restate. The ids of hook entries, handed to handlers, repeat after a destroy; nothing
  in the library reads them.
- **x86 prologues that refer to themselves**, such as `call $+5; pop`, **and VEX, EVEX and XOP
  encodings**.
- **`LiteMutableArray`, logging, header files, build scripts**, and what the Android build of the
  module leaves out: Mach-O resolver, supervisor-call monitor, Windows and Darwin back ends,
  FunctionWrapper, and the system headers under `XnuInternal`. These are most of the lines below
  `Dobby/`; the lines modelled here are the ones that run when the module hooks and dumps.

Every safety property that a passing run checks is also proved. Worth doing next: programs for the
arm relocation, if it is ever repaired, and x86 prologues that refer to themselves.

## 7. Running

In this directory: `tlc -config MCHook.cfg MCHook` and likewise for the other configurations, each
named after its module; `tlapm HookProofs.tla` and likewise for the other modules whose names end in
`Proofs`. The longest run, `interceptor`, takes about two minutes.
