---------------------------- MODULE Interceptor ----------------------------
(***************************************************************************)
(* DobbyHook, DobbyInstrument and DobbyDestroy over Interceptor's list of  *)
(* hook entries, with and without the near-branch plugin, and a thread     *)
(* that calls the functions they patch.                                    *)
(*                                                                         *)
(* A function is the window of words a trampoline may overwrite and a body *)
(* behind it.  A relocated copy does what its words did in place           *)
(* (CopyRunsPrologue of Arm64Reloc) and goes on behind them; its literal   *)
(* loads read the address the literal had in the function, whatever lies   *)
(* there now.  Every replacement calls its origin_call once; a handler of  *)
(* DobbyInstrument returns to the closure bridge, which goes on with the   *)
(* relocated copy of the entry the closure carries.  The thread is outside *)
(* the window while hooks come and go: Hook.tla has the races inside it.   *)
(***************************************************************************)
EXTENDS Integers, Sequences, SequencesExt

CONSTANTS
    Functions,      \* functions to hook
    Replacements,   \* functions to hook them with
    Handlers,       \* functions to instrument them with
    Far,            \* pairs <<f, r>> with r, or the closure of handler r, beyond
                    \* the reach of adrp from f
    Arch,           \* "arm64" or "arm"
    Thumb,          \* functions whose address carries the Thumb flag (arm)
    MaxHooks        \* bound on the number of DobbyHook and DobbyInstrument calls

ASSUME InterceptorAssumption ==
    /\ Far \subseteq Functions \X (Replacements \cup Handlers)
    /\ Arch \in {"arm64", "arm"}
    /\ Thumb \subseteq Functions /\ (Arch = "arm64" => Thumb = {})
    /\ MaxHooks \in Nat
    /\ "NULL" \notin Functions \cup Replacements \cup Handlers

VARIABLES
    mem,            \* the window of every function
    list,           \* hook_entry_list_, newest first
    near,           \* RoutingPluginManager::near_branch_trampoline is set
    origin,         \* the origin_call variable of each function and replacement
    relocated,      \* the relocated code of a function's entry, by number
    ret,            \* what the last call returned, with its arguments if it failed
    calls,          \* DobbyHook and DobbyInstrument calls made
    core,           \* the calling thread
    used,           \* trampoline lengths a function has had (history)
    careful         \* no hook was stacked in a way the code cannot carry (history)

vars == <<mem, list, near, origin, relocated, ret, calls, core, used, careful>>

NULL == "NULL"
Window == 4

(* Where a trampoline leads to: a replacement, or a closure that carries a *)
(* handler and its entry, here the number of the call that made it.        *)
Replacement(r) == [fn |-> r, closure |-> FALSE, entry |-> 0]
CreateClosureTrampoline(h, n) == [fn |-> h, closure |-> TRUE, entry |-> n]
Nowhere == Replacement(NULL)

(* An instruction word with a number, or one that leads somewhere.         *)
W(op, arg) == [op |-> op, arg |-> arg, to |-> Nowhere]
Lead(op, to) == [op |-> op, arg |-> 0, to |-> to]

Original(f) == [k \in 1 .. Window |-> W("insn", k)]

(* Addresses as void pointers: the function and the offset from it.        *)
AddressOf(f) == <<f, IF f \in Thumb THEN 1 ELSE 0>>

Idle == [at |-> "idle", f |-> NULL, k |-> 1, words |-> <<>>, x17 |-> Nowhere,
         to |-> Nowhere, insns |-> <<>>, ran |-> <<>>, disturbed |-> FALSE]

(* RS_SUCCESS and RS_FAILED.                                               *)
Success == [ok |-> TRUE, f |-> NULL, r |-> NULL]
Failed(f, r) == [ok |-> FALSE, f |-> f, r |-> r]

Init ==
    /\ mem = [f \in Functions |-> Original(f)]
    /\ list = <<>> /\ near = FALSE
    /\ origin = [p \in Functions \X Replacements |-> <<>>]
    /\ relocated = [p \in Functions \X (1 .. MaxHooks) |-> <<>>]
    /\ ret = Success
    /\ calls = 0
    /\ core = Idle
    /\ used = [f \in Functions |-> {}]
    /\ careful = TRUE

-----------------------------------------------------------------------------
(* Interceptor.                                                            *)

OldestEntry(address) == SelectLastInSeq(list, LAMBDA e : e.address = address)
find_hook_entry_node(address) == SelectInSeq(list, LAMBDA e : e.address = address)

AppendHookEntry(e) == Append(list, e)
AddHookEntry(e) == <<e>> \o list

KeepHookEntry(address) == list
RemoveHookEntry(address) ==
    LET i == find_hook_entry_node(address)
    IN  IF i = 0 THEN list ELSE RemoveAt(list, i)

-----------------------------------------------------------------------------
(* Routing.                                                                *)

(* GenerateNormalTrampolineBuffer: adrp, add, br or a literal on arm64,    *)
(* ldr pc with a literal on arm.                                           *)
GenerateNormalTrampolineBuffer(f, to) ==
    CASE Arch = "arm" -> <<W("ldr pc", 0), Lead("low", to)>>
      [] <<f, to.fn>> \in Far -> <<W("ldr", 2), W("br", 0), Lead("low", to), Lead("high", to)>>
      [] OTHER -> <<Lead("adrp", to), Lead("add", to), W("br", 0)>>

(* GenerateNearTrampolineBuffer: one branch, straight to the target or to  *)
(* a forward trampoline nearby, which leads there however far it is.       *)
NearTrampoline(to) == <<Lead("b", to)>>

(* GenerateTrampolineBuffer: the normal trampoline also with the plugin on *)
(* when there is no page nearby for the forward trampoline.                *)
GenerateTrampolineBuffer(f, to) ==
    {GenerateNormalTrampolineBuffer(f, to)} \cup (IF near THEN {NearTrampoline(to)} ELSE {})

CodePatch(f, ws) == ws \o SubSeq(mem[f], Len(ws) + 1, Window)

(* The words under the trampoline: relocated, and saved in origin_chunk_.  *)
OneWordShort(f, size) == SubSeq(mem[f], 1, size - 1)
OriginChunk(f, size) == SubSeq(mem[f], 1, size)

(* May the thread be anywhere but in the window?                           *)
Outside == core.at \in {"idle", "new"}

Newest(f) == find_hook_entry_node(AddressOf(f))

(* What the code cannot carry: a replacement twice on one function, for    *)
(* they share one origin_call; trampolines of two lengths; and a literal   *)
(* trampoline under another.                                               *)
Careful(f, to, size) ==
    /\ to.closure \/ \A i \in DOMAIN list \ {Newest(f)} :
                         list[i].address = AddressOf(f) => list[i].to # to
    /\ used[f] \subseteq {size}
    /\ <<f, to.fn>> \in Far => Newest(f) = 0

(* DobbyHook compares the trampoline's target with the replacement,        *)
(* DobbyInstrument the field behind it with the handler; both look at the  *)
(* newest entry only, and neither at its type.                             *)
AlreadyHooked(f, r) == Newest(f) # 0 /\ list[Newest(f)].to = Replacement(r)
AlreadyInstrumented(f, h) == Newest(f) # 0 /\ list[Newest(f)].to.fn = h

Refuse(f, r) ==
    /\ calls < MaxHooks /\ Outside
    /\ calls' = calls + 1
    /\ ret' = Failed(f, r)
    /\ UNCHANGED <<mem, list, near, origin, relocated, core, used, careful>>

(* DispatchRouting, AddHookEntry and Commit with a trampoline to to.       *)
Install(f, to, tramp) ==
    /\ calls < MaxHooks /\ Outside
    /\ calls' = calls + 1
    /\ ret' = Success
    /\ list' = AddHookEntry([address |-> AddressOf(f), to |-> to,
                             origin_chunk |-> OriginChunk(f, Len(tramp))])
    /\ mem' = [mem EXCEPT ![f] = CodePatch(f, tramp)]
    /\ core' = [core EXCEPT !.disturbed = TRUE]
    /\ used' = [used EXCEPT ![f] = @ \cup {Len(tramp)}]
    /\ careful' = (careful /\ Careful(f, to, Len(tramp)))
    /\ UNCHANGED near

DobbyHook(f, r) ==
    IF AlreadyHooked(f, r) THEN Refuse(f, r)
    ELSE \E tramp \in GenerateTrampolineBuffer(f, Replacement(r)) :
            /\ Install(f, Replacement(r), tramp)
            /\ origin' = [origin EXCEPT ![<<f, r>>] = OriginChunk(f, Len(tramp))]
            /\ UNCHANGED relocated

(* The closure is there before the relocated code, which its entry gets    *)
(* with the size of the trampoline to it.                                  *)
InstrumentRoute(f, h) ==
    LET to == CreateClosureTrampoline(h, calls + 1)
    IN  \E tramp \in GenerateTrampolineBuffer(f, to) :
            /\ Install(f, to, tramp)
            /\ relocated' = [relocated EXCEPT ![<<f, to.entry>>] = OriginChunk(f, Len(tramp))]

DobbyInstrument(f, h) ==
    IF AlreadyInstrumented(f, h) THEN Refuse(f, h)
    ELSE InstrumentRoute(f, h) /\ UNCHANGED origin

DobbyHookNull == Refuse(NULL, NULL)

(* The plugin matters to later hooks only, of which there are MaxHooks.    *)
SetPlugin(enabled) ==
    /\ calls < MaxHooks /\ Arch = "arm64"
    /\ near' = enabled
    /\ UNCHANGED <<mem, list, origin, relocated, ret, calls, core, used, careful>>
dobby_enable_near_branch_trampoline == SetPlugin(TRUE)
dobby_disable_near_branch_trampoline == SetPlugin(FALSE)

(* On arm the flag is taken off the address, Thumb or not, and the entry   *)
(* is then looked up by the new address.                                   *)
DestroyAddress(address) ==
    IF Arch = "arm" THEN <<address[1], address[2] - 1>> ELSE address

(* What CodePatch of the saved words leaves at an address.                 *)
Restored(address, chunk) ==
    IF address[2] = 0
    THEN CodePatch(address[1], chunk)
    ELSE CodePatch(address[1], [k \in 1 .. Len(chunk) |-> W("torn", k)])

DobbyDestroy(f) ==
    LET i == find_hook_entry_node(AddressOf(f))
        address == DestroyAddress(AddressOf(f))
    IN  /\ Outside
        /\ ret' = IF i = 0 THEN Failed(f, NULL) ELSE Success
        /\ IF i = 0
           THEN UNCHANGED <<mem, list, core>>
           ELSE /\ mem' = [mem EXCEPT ![f] = Restored(address, list[i].origin_chunk)]
                /\ list' = RemoveHookEntry(address)
                /\ core' = [core EXCEPT !.disturbed = TRUE]
        /\ UNCHANGED <<near, origin, relocated, calls, used, careful>>

-----------------------------------------------------------------------------
(* The calling thread, on arm64.                                           *)

CoreOnly == UNCHANGED <<mem, list, near, origin, relocated, ret, calls, used, careful>>

(* Past the copy the function goes on, past the window its body.           *)
GoTo(c, k) ==
    LET at == IF c.at = "copy" /\ k > Len(c.words) THEN "fn" ELSE c.at
    IN  [c EXCEPT !.k = k, !.at = IF at = "fn" /\ k > Window THEN "body" ELSE at]

Call(f) ==
    /\ Arch = "arm64" /\ core.at = "idle"
    /\ core' = [Idle EXCEPT !.at = "fn", !.f = f]
    /\ CoreOnly

Word == IF core.at = "fn" THEN mem[core.f][core.k] ELSE core.words[core.k]

Literal(f, k) ==
    IF k < Window /\ mem[f][k].op = "low" /\ mem[f][k + 1].op = "high"
        /\ mem[f][k].to = mem[f][k + 1].to
    THEN mem[f][k].to ELSE Nowhere

Enter(c, to) == [c EXCEPT !.at = "new", !.to = to, !.ran = Append(@, to.fn)]

Execute(c, w) ==
    CASE w.op = "insn" -> GoTo([c EXCEPT !.insns = Append(@, w.arg)], c.k + 1)
      [] w.op = "adrp" -> GoTo(c, c.k + 1)
      [] w.op = "add" -> GoTo([c EXCEPT !.x17 = w.to], c.k + 1)
      [] w.op = "ldr" -> GoTo([c EXCEPT !.x17 = Literal(c.f, c.k + w.arg)], c.k + 1)
      [] w.op = "br" /\ c.x17 # Nowhere -> Enter(c, c.x17)
      [] w.op = "b" -> Enter(c, w.to)
      [] OTHER -> [c EXCEPT !.at = "crashed"]

Step ==
    /\ core.at \in {"fn", "copy"}
    /\ core' = Execute(core, Word)
    /\ CoreOnly

(* A replacement calls through its origin_call; instrument_call_forward_   *)
(* handler makes the copy of its own entry the next hop.  A thread that    *)
(* has been through more of them than there were hooks is in a loop.       *)
NextHop(f, to) == relocated[<<f, to.entry>>]
CallOrigin ==
    /\ core.at = "new"
    /\ core' = IF Len(core.ran) > MaxHooks
               THEN [core EXCEPT !.at = "looping"]
               ELSE GoTo([core EXCEPT !.at = "copy",
                              !.words = IF core.to.closure THEN NextHop(core.f, core.to)
                                        ELSE origin[<<core.f, core.to.fn>>]], 1)
    /\ CoreOnly

Return ==
    /\ core.at = "body"
    /\ core' = Idle
    /\ CoreOnly

Run == Step \/ CallOrigin \/ Return

Next ==
    \/ \E f \in Functions, r \in Replacements : DobbyHook(f, r)
    \/ \E f \in Functions, h \in Handlers : DobbyInstrument(f, h)
    \/ DobbyHookNull
    \/ dobby_enable_near_branch_trampoline \/ dobby_disable_near_branch_trampoline
    \/ \E f \in Functions : DobbyDestroy(f) \/ Call(f)
    \/ Run

Spec == Init /\ [][Next]_vars
FairSpec == Spec /\ WF_vars(Run)

-----------------------------------------------------------------------------
(* Properties.                                                             *)

(* Hooks may come and go while a thread is inside a replacement or a       *)
(* handler: it still runs the function's own first instructions, all of    *)
(* them once and in order, and nothing else, as long as hooks are stacked  *)
(* in a way the code can carry.                                            *)
OriginalRunsOnce ==
    careful => /\ core.at # "crashed"
               /\ core.at = "body" => core.insns = [k \in 1 .. Window |-> k]

(* A call that no DobbyHook, DobbyInstrument or DobbyDestroy disturbs runs *)
(* the replacements and handlers of the function newest first, each once:  *)
(* the order of hook_entry_list_, which both kinds share.                  *)
EntriesOf(f) == {i \in DOMAIN list : list[i].address = AddressOf(f)}
NewestRunsFirst ==
    careful /\ core.at = "body" /\ ~core.disturbed =>
        \E at \in [DOMAIN core.ran -> EntriesOf(core.f)] :
            /\ \A n \in DOMAIN at : core.ran[n] = list[at[n]].to.fn
            /\ \A m, n \in DOMAIN at : m < n => at[m] < at[n]
            /\ \A i \in EntriesOf(core.f) : \E n \in DOMAIN at : at[n] = i

(* However hooks of both kinds and all trampoline lengths are stacked and  *)
(* destroyed, a function without an entry has its own code back.           *)
DestroyRestores ==
    \A f \in Functions : EntriesOf(f) = {} => mem[f] = Original(f)

(* DobbyHook and DobbyInstrument say "already been" only of a function     *)
(* whose code does lead there: one whose hook was destroyed can be hooked  *)
(* again.                                                                  *)
RefusedOnlyIfActive ==
    ~ret.ok /\ ret.r # NULL =>
        \E k \in 1 .. Window :
            mem[ret.f][k].op \in {"b", "add", "low"} /\ mem[ret.f][k].to.fn = ret.r

(* A call comes back: through every replacement and handler to the         *)
(* function's body.                                                        *)
CallsReturn == core.at # "idle" ~> (core.at = "idle" \/ ~careful)
=============================================================================
