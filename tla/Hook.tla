-------------------------------- MODULE Hook --------------------------------
(***************************************************************************)
(* One application process from the moment Zygisk specialises it until     *)
(* hack_thread hands the handle of libil2cpp.so to il2cpp_dump             *)
(* (main.cpp, hook.cpp and the part of Dobby that DobbyHook runs).         *)
(*                                                                         *)
(* Three kinds of actors interleave: the Zygisk callbacks on the main      *)
(* thread, hack_thread, and the application's threads, which call dlopen   *)
(* at any time - before, while and after DobbyHook overwrites the first    *)
(* words of the loader function.  The patched words are written one at a   *)
(* time and fetched one at a time, and a core may fetch the old word from  *)
(* its instruction cache until ClearCache has run.                         *)
(***************************************************************************)
EXTENDS Naturals, Sequences

CONSTANTS
    AppThreads,     \* threads of the application that call dlopen
    ApiLevels,      \* Android API levels of the devices considered
    PatchWords,     \* instruction words of the trampoline that replaces the prologue
    WordsOnPage,    \* how many of them lie on the page of the first, at each API level
    AppDataDirs,    \* app_data_dir strings, as sequences of path components
    UserIds,        \* path components that sscanf's %d accepts as a whole
    GamePackageName,\* game.h
    MaxOpens,       \* bound on the number of dlopen calls of a behaviour
    FailingOpens,   \* API levels of devices where an open of libil2cpp.so may return NULL
    LookalikeGames  \* those where the game has another library that strstr takes for it

ASSUME HookAssumption ==
    /\ PatchWords \in Nat \ {0}
    /\ WordsOnPage \in [ApiLevels -> 1 .. PatchWords]
    /\ MaxOpens \in Nat
    /\ ApiLevels \subseteq Nat
    /\ FailingOpens \subseteq ApiLevels
    /\ LookalikeGames \subseteq ApiLevels
    /\ "linker_free" \notin AppThreads

ASSUME DirAssumption == AppDataDirs \subseteq Seq(STRING)

VARIABLES
    api_level,      \* ro.build.version.sdk of the device
    main_pc,        \* the Zygisk callback that runs next
    enable_hack,    \* main.cpp's copy of the flag
    game_data_dir,  \* hook.cpp's copy of the directory
    app_data_dir,   \* AppSpecializeArgs::app_data_dir of this process
    hpc,            \* control point of hack_thread
    addr,           \* was the loader function's address found?
    entries,        \* Interceptor's hook_entry_list_: the loader functions hooked
    orig,           \* the three orig_ pointers that HOOK_DEF declares
    patched,        \* words of the loader function already overwritten
    flushed,        \* has ClearCache run after the patch?
    il2cpp_handle,  \* hook.cpp's copy of the handle
    dump,           \* the arguments il2cpp_dump was called with
    apc,            \* control point of each application thread
    call,           \* the dlopen call each application thread is in
    linker_lock,    \* holder of the linker's global mutex
    opens,          \* dlopen calls made so far
    died            \* what killed the process, if anything did

hackVars == <<hpc, addr, entries, orig, patched, flushed, dump>>
mainVars == <<main_pc, enable_hack, game_data_dir, app_data_dir>>
appVars  == <<apc, call, linker_lock, opens>>
vars == <<api_level, mainVars, hackVars, il2cpp_handle, appVars, died>>

NULL == "NULL"
NoDir == <<>>
Free == "linker_free"
Words == 1 .. PatchWords
Variants == {"V19", "V24", "loader"}
Il2cpp == "libil2cpp handle"
Other == "other handle"
Handles == {Il2cpp, Other, NULL}
Names == {"libil2cpp.so", "lookalike", "other.so", NULL}
Alive == died = "no"

NoCall == [name |-> "other.so", via |-> "dlopen", late |-> FALSE,
           word |-> 1, prologue |-> "none", ret |-> NULL]

-----------------------------------------------------------------------------
(***************************************************************************)
(* isGame: the package name is what is left of "/data/X/<user>/" or, when  *)
(* that does not match, of "/data/X/".  The rest is compared as a whole,   *)
(* so a subdirectory or a trailing slash is another package.               *)
(***************************************************************************)
HasRest(p, k) == Len(p) >= k /\ ~(Len(p) = k /\ p[k] = "")

PackageName(p) ==
    IF Len(p) >= 4 /\ p[1] = "data" /\ p[2] # "" /\ p[3] \in UserIds /\ HasRest(p, 4)
    THEN SubSeq(p, 4, Len(p))
    ELSE IF Len(p) >= 3 /\ p[1] = "data" /\ p[2] # "" /\ HasRest(p, 3)
         THEN SubSeq(p, 3, Len(p))
         ELSE <<>>

isGameByFirstName(p) == PackageName(p) # <<>> /\ Head(PackageName(p)) = GamePackageName
isGame(p) == p # NoDir /\ PackageName(p) = <<GamePackageName>>

(* hack_thread: which loader function is hooked, with which replacement.   *)
Variant == IF api_level >= 30 THEN "V24"
           ELSE IF api_level >= 26 THEN "loader"
           ELSE IF api_level >= 24 THEN "V24"
           ELSE "V19"

(* do_dlopen runs with the linker's mutex held; __loader_dlopen takes it   *)
(* inside, and android_dlopen_ext does not pass through it.                *)
TargetUnderLock == Variant # "loader"
PassesTarget(c) == TargetUnderLock \/ c.via = "dlopen"

(* DobbyHook has returned RS_SUCCESS.                                      *)
HookReturned == Variant \in entries /\ hpc \in {"poll", "nap", "sleep5", "done"}

Init ==
    /\ api_level \in ApiLevels
    /\ main_pc = "pre"
    /\ enable_hack = FALSE
    /\ game_data_dir = NoDir
    /\ app_data_dir \in AppDataDirs \cup {NoDir}
    /\ hpc = "none"
    /\ addr = FALSE
    /\ entries = {}
    /\ orig = [v \in Variants |-> NULL]
    /\ patched = {}
    /\ flushed = FALSE
    /\ il2cpp_handle = NULL
    /\ dump = <<>>
    /\ apc = [t \in AppThreads |-> "idle"]
    /\ call = [t \in AppThreads |-> NoCall]
    /\ linker_lock = Free
    /\ opens = 0
    /\ died = "no"

-----------------------------------------------------------------------------
(* main.cpp: the Zygisk callbacks.                                         *)

preAppSpecialize(nice_name) ==
    /\ main_pc = "pre"
    /\ main_pc' = "post"
    /\ enable_hack' = (nice_name /\ isGame(app_data_dir))
    /\ game_data_dir' = IF enable_hack' THEN app_data_dir ELSE game_data_dir
    /\ UNCHANGED <<api_level, app_data_dir, hackVars, il2cpp_handle, appVars, died>>

postAppSpecialize(created) ==
    /\ main_pc = "post"
    /\ main_pc' = "app"
    /\ hpc' = IF enable_hack /\ created THEN "start" ELSE hpc
    /\ UNCHANGED <<api_level, enable_hack, game_data_dir, app_data_dir, addr, entries,
                   orig, patched, flushed, dump, il2cpp_handle, appVars, died>>

-----------------------------------------------------------------------------
(* hack_thread and, inside it, DobbyHook.                                  *)

(* GetAndroidApiLevel and the search of the loader function.  dlsym and    *)
(* dlopen("libdl.so") take the linker's mutex.  Only the __loader_dlopen   *)
(* branch passes a null address on to DobbyHook.                           *)
ResolveTarget(found) ==
    /\ Alive /\ hpc = "start" /\ linker_lock = Free
    /\ addr' = found
    /\ hpc' = IF found \/ Variant = "loader" THEN "hook" ELSE "poll"
    /\ UNCHANGED <<api_level, mainVars, entries, orig, patched, flushed, dump,
                   il2cpp_handle, appVars, died>>

(* DobbyHook up to DispatchRouting: null address, already hooked.          *)
DobbyHookBegin ==
    /\ Alive /\ hpc = "hook"
    /\ hpc' = IF addr /\ Variant \notin entries THEN "route" ELSE "poll"
    /\ UNCHANGED <<api_level, mainVars, addr, entries, orig, patched, flushed, dump,
                   il2cpp_handle, appVars, died>>

(* Where DobbyHook goes on after AddHookEntry: *origin_call, then Commit.    *)
CommitFirst == "patch"
AfterAddHookEntry == "origin"

(* DispatchRouting: trampoline and relocated prologue.  When no executable *)
(* page can be allocated GenRelocateCodeAndBranch reads through NULL.      *)
(* AddHookEntry follows at once.                                           *)
DispatchRouting(allocated) ==
    /\ Alive /\ hpc = "route"
    /\ IF allocated
       THEN hpc' = AfterAddHookEntry /\ entries' = entries \cup {Variant} /\ died' = died
       ELSE died' = "alloc" /\ UNCHANGED <<hpc, entries>>
    /\ UNCHANGED <<api_level, mainVars, addr, orig, patched, flushed, dump,
                   il2cpp_handle, appVars>>

SetOriginCall ==
    /\ Alive /\ hpc = "origin"
    /\ orig' = [orig EXCEPT ![Variant] = "relocated"]
    /\ hpc' = "patch"
    /\ UNCHANGED <<api_level, mainVars, addr, entries, patched, flushed, dump,
                   il2cpp_handle, appVars, died>>

(* mprotect is asked for the page of the first word only.                  *)
Writable(w) == w <= WordsOnPage[api_level]

(* One word of CodePatch's memcpy, in any order.                           *)
CodePatchWord(w) ==
    /\ Alive /\ hpc = "patch" /\ w \notin patched /\ Writable(w)
    /\ patched' = patched \cup {w}
    /\ hpc' = IF patched' = Words THEN "flush" ELSE "patch"
    /\ UNCHANGED <<api_level, mainVars, addr, entries, orig, flushed, dump,
                   il2cpp_handle, appVars, died>>

(* CodePatch ignores mprotect's result: a page it may not make writable    *)
(* faults on the first word, a word on the next page whenever it comes.    *)
CodePatchFault ==
    /\ Alive /\ hpc = "patch"
    /\ patched = {} \/ \E w \in Words : ~Writable(w)
    /\ died' = "mprotect"
    /\ UNCHANGED <<api_level, mainVars, hackVars, il2cpp_handle, appVars>>

ClearCacheSkipped ==
    /\ Alive /\ hpc = "flush"
    /\ hpc' = "poll"
    /\ UNCHANGED <<api_level, mainVars, addr, entries, orig, patched, flushed, dump,
                   il2cpp_handle, appVars, died>>
ClearCache ==
    /\ Alive /\ hpc = "flush"
    /\ flushed' = TRUE
    /\ hpc' = "poll"
    /\ UNCHANGED <<api_level, mainVars, addr, entries, orig, patched, dump,
                   il2cpp_handle, appVars, died>>

(* The condition of while (!il2cpp_handle) sleep(1).                       *)
PollOnce == FALSE
PollAgain == il2cpp_handle = NULL

(* while (!il2cpp_handle) sleep(1); sleep(5);                              *)
PollHandle ==
    /\ Alive /\ hpc \in {"poll", "nap"}
    /\ hpc' = IF hpc = "nap" THEN "poll"
              ELSE IF PollAgain THEN "nap" ELSE "sleep5"
    /\ UNCHANGED <<api_level, mainVars, addr, entries, orig, patched, flushed, dump,
                   il2cpp_handle, appVars, died>>

(* il2cpp_dump(il2cpp_handle, game_data_dir): both are read again here.    *)
CallDump ==
    /\ Alive /\ hpc = "sleep5"
    /\ hpc' = "done"
    /\ dump' = <<il2cpp_handle, game_data_dir>>
    /\ UNCHANGED <<api_level, mainVars, addr, entries, orig, patched, flushed,
                   il2cpp_handle, appVars, died>>

-----------------------------------------------------------------------------
(* The application's threads.                                              *)

(* The game opens a library whose name only contains "libil2cpp.so", such  *)
(* as a renamed copy or a protector's stub.                                *)
Lookalikes == api_level \in LookalikeGames

(* After the wrappers in front of it, a call reaches the loader function.  *)
Dlopen(t, name, via) ==
    /\ Alive /\ main_pc = "app" /\ apc[t] = "idle" /\ opens < MaxOpens
    /\ name = "lookalike" => Lookalikes
    /\ opens' = opens + 1
    /\ call' = [call EXCEPT ![t] = [NoCall EXCEPT !.name = name, !.via = via,
                                                  !.late = HookReturned]]
    /\ apc' = [apc EXCEPT ![t] = IF TargetUnderLock \/ via # "dlopen"
                                 THEN "want" ELSE "entry"]
    /\ UNCHANGED <<api_level, mainVars, hackVars, il2cpp_handle, linker_lock, died>>

AcquireLinkerLock(t) ==
    /\ Alive /\ apc[t] = "want" /\ linker_lock = Free
    /\ linker_lock' = t
    /\ apc' = [apc EXCEPT ![t] = IF TargetUnderLock THEN "entry" ELSE "load"]
    /\ UNCHANGED <<api_level, mainVars, hackVars, il2cpp_handle, call, opens, died>>

(* What a core may fetch at word w: the memory, or a stale cache line.     *)
Fetchable(w) == (IF w \in patched THEN {"new"} ELSE {"orig"})
                \cup (IF flushed THEN {} ELSE {"orig"})

AfterPrologue(p) == IF p = "new" THEN "new_"
                    ELSE IF TargetUnderLock THEN "load" ELSE "want"

(* The thread executes one word of the loader function's first words.  A   *)
(* mixture of old and new words is not code anyone wrote.                  *)
FetchWord(t, kind) ==
    /\ Alive /\ apc[t] = "entry" /\ kind \in Fetchable(call[t].word)
    /\ IF call[t].prologue \in {"none", kind}
       THEN /\ call' = [call EXCEPT ![t].prologue = kind,
                                    ![t].word = IF @ = PatchWords THEN @ ELSE @ + 1]
            /\ apc' = [apc EXCEPT ![t] = IF call[t].word = PatchWords
                                         THEN AfterPrologue(kind) ELSE "entry"]
            /\ died' = died
       ELSE died' = "torn" /\ UNCHANGED <<call, apc>>
    /\ UNCHANGED <<api_level, mainVars, hackVars, il2cpp_handle, linker_lock, opens>>

(* new_...: handle = orig_...(...).                                        *)
CallOrig(t) ==
    /\ Alive /\ apc[t] = "new_"
    /\ IF orig[Variant] = NULL
       THEN died' = "null call" /\ apc' = apc
       ELSE /\ apc' = [apc EXCEPT ![t] = IF TargetUnderLock THEN "load" ELSE "want"]
            /\ died' = died
    /\ UNCHANGED <<api_level, mainVars, hackVars, il2cpp_handle, call, linker_lock, opens>>

OpensMayFail == api_level \in FailingOpens

(* What the loader returns for each name.                                  *)
Results(name) ==
    IF name = "libil2cpp.so" THEN {Il2cpp} \cup (IF OpensMayFail THEN {NULL} ELSE {})
    ELSE IF name = NULL THEN {Other} ELSE {Other, NULL}

(* The loader function itself; __loader_dlopen drops the mutex before it   *)
(* returns, do_dlopen's caller drops it later.                             *)
Load(t, result) ==
    /\ Alive /\ apc[t] = "load" /\ result \in Results(call[t].name)
    /\ call' = [call EXCEPT ![t].ret = result]
    /\ apc' = [apc EXCEPT ![t] = IF call[t].prologue = "new" THEN "check" ELSE "leave"]
    /\ linker_lock' = IF TargetUnderLock THEN linker_lock ELSE Free
    /\ UNCHANGED <<api_level, mainVars, hackVars, il2cpp_handle, opens, died>>

(* strstr(name, "libil2cpp.so"): the name contains it, anywhere.           *)
Contains(name) == name \in {"libil2cpp.so", "lookalike"}

(* dlopen_process: if (!il2cpp_handle) if (strstr(name, "libil2cpp.so")).  *)
AnyOpen(c) == il2cpp_handle = NULL
EveryIl2cppOpen(c) == Contains(c.name)
NextIl2cppOpen(c) == il2cpp_handle # NULL /\ Contains(c.name)
IsIl2cppOpen(c) == il2cpp_handle = NULL /\ Contains(c.name)

(* dlopen_process reads il2cpp_handle and looks at the name; strstr(NULL)  *)
(* faults.                                                                 *)
DlopenProcessCheck(t) ==
    /\ Alive /\ apc[t] = "check"
    /\ died' = IF il2cpp_handle = NULL /\ call[t].name = NULL THEN "strstr" ELSE died
    /\ apc' = [apc EXCEPT ![t] = IF IsIl2cppOpen(call[t]) THEN "store" ELSE "leave"]
    /\ UNCHANGED <<api_level, mainVars, hackVars, il2cpp_handle, call, linker_lock, opens>>

(* il2cpp_handle = handle                                                  *)
NamePublished(c) == c.name
Published(c) == c.ret

DlopenProcessStore(t) ==
    /\ Alive /\ apc[t] = "store"
    /\ il2cpp_handle' = Published(call[t])
    /\ apc' = [apc EXCEPT ![t] = "leave"]
    /\ UNCHANGED <<api_level, mainVars, hackVars, call, linker_lock, opens, died>>

Return(t) ==
    /\ Alive /\ apc[t] = "leave"
    /\ apc' = [apc EXCEPT ![t] = "idle"]
    /\ call' = [call EXCEPT ![t] = NoCall]
    /\ linker_lock' = IF linker_lock = t THEN Free ELSE linker_lock
    /\ UNCHANGED <<api_level, mainVars, hackVars, il2cpp_handle, opens, died>>

-----------------------------------------------------------------------------
MainStep == (\E b \in BOOLEAN : preAppSpecialize(b)) \/ (\E b \in BOOLEAN : postAppSpecialize(b))

HackStep ==
    \/ \E b \in BOOLEAN : ResolveTarget(b)
    \/ DobbyHookBegin
    \/ \E b \in BOOLEAN : DispatchRouting(b)
    \/ SetOriginCall
    \/ \E w \in Words : CodePatchWord(w)
    \/ CodePatchFault
    \/ ClearCache
    \/ PollHandle
    \/ CallDump

InCall(t) ==
    \/ AcquireLinkerLock(t)
    \/ \E k \in {"orig", "new"} : FetchWord(t, k)
    \/ CallOrig(t)
    \/ \E r \in Handles : Load(t, r)
    \/ DlopenProcessCheck(t)
    \/ DlopenProcessStore(t)
    \/ Return(t)

Next ==
    \/ MainStep
    \/ HackStep
    \/ \E t \in AppThreads :
          \/ \E n \in Names, v \in {"dlopen", "android_dlopen_ext"} : Dlopen(t, n, v)
          \/ InCall(t)

Spec == Init /\ [][Next]_vars

(***************************************************************************)
(* The Zygisk callbacks run, hack_thread keeps being scheduled and a       *)
(* thread inside dlopen gets on with it.  Nothing makes the application    *)
(* call dlopen.                                                            *)
(***************************************************************************)
Fairness == /\ WF_vars(MainStep)
            /\ WF_vars(HackStep)
            /\ \A t \in AppThreads : WF_vars(InCall(t))

FairSpec == Spec /\ Fairness

-----------------------------------------------------------------------------
(***************************************************************************)
(* Properties.                                                             *)
(***************************************************************************)
AppPoints == {"idle", "want", "entry", "new_", "load", "check", "store", "leave"}
HackPoints == {"none", "start", "hook", "route", "origin", "patch", "flush",
               "poll", "nap", "sleep5", "done"}
Calls == [name : Names, via : {"dlopen", "android_dlopen_ext"}, late : BOOLEAN,
          word : Words, prologue : {"none", "orig", "new"}, ret : Handles]
Deaths == {"no", "alloc", "mprotect", "torn", "null call", "strstr"}

(* Every variable of the process stays in its type.                        *)
TypeOK ==
    /\ api_level \in ApiLevels
    /\ main_pc \in {"pre", "post", "app"}
    /\ enable_hack \in BOOLEAN
    /\ app_data_dir \in AppDataDirs \cup {NoDir}
    /\ game_data_dir \in {app_data_dir, NoDir}
    /\ hpc \in HackPoints
    /\ addr \in BOOLEAN
    /\ entries \subseteq Variants
    /\ orig \in [Variants -> {NULL, "relocated"}]
    /\ patched \subseteq Words
    /\ flushed \in BOOLEAN
    /\ il2cpp_handle \in Handles
    /\ dump \in {<<>>} \cup (Handles \X {app_data_dir, NoDir})
    /\ apc \in [AppThreads -> AppPoints]
    /\ call \in [AppThreads -> Calls]
    /\ linker_lock \in AppThreads \cup {Free}
    /\ opens \in 0 .. MaxOpens
    /\ died \in Deaths

(* A thread that the new prologue sends into new_do_dlopen or              *)
(* new___loader_dlopen finds its orig_ pointer set: DobbyHook stores       *)
(* *origin_call before it patches a single word.                           *)
OrigSetBeforeHookRuns ==
    /\ died # "null call"
    /\ \A t \in AppThreads : apc[t] = "new_" => orig[Variant] # NULL

(* A call that starts after DobbyHook has returned RS_SUCCESS and reaches  *)
(* the hooked function does not get past new_...: no later open of         *)
(* libil2cpp.so is missed.                                                 *)
LateOpensAreSeen ==
    \A t \in AppThreads :
        call[t].late /\ PassesTarget(call[t]) /\ apc[t] \in {"load", "check", "store", "leave"}
            => call[t].prologue = "new"

(* The next word t fetches may be of the other kind than those before.     *)
Tearable(t) == /\ apc[t] = "entry"
               /\ call[t].prologue # "none" /\ Fetchable(call[t].word) # {call[t].prologue}

(* Only a thread that was already in dlopen while CodePatch ran executes a *)
(* half-written prologue; none whose call starts later is ever where it    *)
(* could.                                                                  *)
TornOnlyWhilePatching ==
    [][died = "no" /\ died' = "torn"
        => /\ \E t \in AppThreads : Tearable(t)
           /\ \A t \in AppThreads : Tearable(t) => ~call[t].late]_vars

(* No code of a process is touched unless its private data directory is    *)
(* that of GamePackageName, for a user or in the old /data/data layout;    *)
(* the dump then goes to that directory.                                   *)
GameDir(p) ==
    \/ Len(p) = 3 /\ p[1] = "data" /\ p[2] # "" /\ p[3] = GamePackageName
    \/ Len(p) = 4 /\ p[1] = "data" /\ p[2] # "" /\ p[3] \in UserIds /\ p[4] = GamePackageName

OnlyTheGameIsHooked ==
    /\ (patched # {} \/ hpc # "none") => GameDir(app_data_dir)
    /\ dump # <<>> => dump[2] = app_data_dir

(* Opens seen by the hook cannot spoil each other: the linker's mutex is   *)
(* held around do_dlopen; __loader_dlopen needs that every open the hook   *)
(* takes for libil2cpp.so gives libil2cpp's handle.                        *)
Undisturbed == TargetUnderLock \/ (~OpensMayFail /\ ~Lookalikes)

(* What il2cpp_dump should get: libil2cpp's handle.  dlopen_process knows  *)
(* the library by a part of its name, so a game with a lookalike may have  *)
(* that one dumped.                                                        *)
Dumpable(h) == h # NULL /\ (h = Il2cpp \/ Lookalikes)

(* A published handle stays published: no later or concurrent dlopen       *)
(* replaces it, though the test and the store are two steps.               *)
HandleStable ==
    [][Undisturbed /\ il2cpp_handle # NULL => il2cpp_handle' = il2cpp_handle]_il2cpp_handle

(* il2cpp_dump gets libil2cpp's handle, never NULL and no other library's  *)
(* unless the game has a lookalike, under the same condition: hack_thread  *)
(* reads the variable again after sleep(5).                                *)
DumpGetsHandle == Undisturbed /\ dump # <<>> => Dumpable(dump[1])

SeesIl2cpp(t) == apc[t] = "check" /\ call[t].name = "libil2cpp.so" /\ call[t].ret = Il2cpp

(* README.md: "Start the game, `dump.cs` will be generated": a game process *)
(* that has libil2cpp.so open and whose loader function was found dumps.   *)
OpensIl2cpp(t) == apc[t] \in {"check", "leave"} /\ call[t].ret = Il2cpp
CannotHook == hpc = "none" \/ (hpc \in {"poll", "nap"} /\ ~addr)
OpenedGameIsDumped ==
    \A t \in AppThreads :
        (enable_hack /\ OpensIl2cpp(t)) ~> (~Alive \/ CannotHook \/ dump # <<>>)

(* The same promise for an open that passes through the hook: the poll     *)
(* loop ends and the dump is made, from libil2cpp's handle or a lookalike's *)
(* that came first, unless the process dies.                               *)
DumpedFromIl2cpp == ~Alive \/ (dump # <<>> /\ Dumpable(dump[1]))
SeenGameIsDumped == \A t \in AppThreads : SeesIl2cpp(t) ~> DumpedFromIl2cpp

(* It holds under the condition of HandleStable, whatever other opens of   *)
(* libil2cpp.so fail or succeed around the one that is seen.               *)
HookedGameIsDumped ==
    \A t \in AppThreads : (Undisturbed /\ SeesIl2cpp(t)) ~> DumpedFromIl2cpp
=============================================================================
