----------------------------- MODULE HookProofs -----------------------------
(***************************************************************************)
(* Proofs about Hook for any number of application threads, any number of  *)
(* patched words and any number of dlopen calls.                           *)
(***************************************************************************)
EXTENDS Hook, TLAPS

Settled == {"poll", "nap", "sleep5", "done"}
InTarget == {"entry", "new_", "load", "check", "store", "leave"}

(* How far DobbyHook has got, read off hack_thread's control point.        *)
InstallInv ==
    /\ main_pc # "app" => hpc = "none"
    /\ hpc \in {"none", "start", "hook", "route"} => entries = {}
    /\ hpc \in {"origin", "patch", "flush"} => Variant \in entries
    /\ hpc \in {"none", "start", "hook", "route", "origin"} => patched = {}
    /\ hpc \in Settled /\ Variant \notin entries => patched = {}
    /\ hpc = "flush" => patched = Words
    /\ hpc \in Settled /\ Variant \in entries => patched = Words /\ flushed
    /\ hpc \in {"patch", "flush"} => orig[Variant] # NULL
    /\ patched # {} => orig[Variant] # NULL

(* What a thread in the loader function has fetched.                       *)
PrologueInv ==
    \A t \in AppThreads :
        /\ call[t].prologue = "new" => patched # {}
        /\ apc[t] = "new_" => call[t].prologue = "new"
        /\ PassesTarget(call[t]) /\ apc[t] \in {"load", "check", "store", "leave"}
              => call[t].prologue # "none"
        /\ apc[t] = "want" /\ ~TargetUnderLock /\ PassesTarget(call[t])
              => call[t].prologue # "none"
        /\ call[t].late => HookReturned /\ call[t].prologue # "orig"

(* Who holds the linker's mutex, and what a thread about to store knows.   *)
HandleInv ==
    /\ \A t \in AppThreads :
        /\ TargetUnderLock /\ apc[t] \in InTarget => linker_lock = t
        /\ call[t].name = "lookalike" => Lookalikes
        /\ apc[t] \in {"check", "store"} /\ Contains(call[t].name) /\ ~Lookalikes
              => call[t].ret # Other /\ (~OpensMayFail => call[t].ret = Il2cpp)
        /\ apc[t] = "store" => Contains(call[t].name)
        /\ TargetUnderLock /\ apc[t] = "store" => il2cpp_handle = NULL
    /\ ~Lookalikes => il2cpp_handle # Other /\ (dump # <<>> => dump[1] # Other)
    /\ Undisturbed => /\ hpc = "sleep5" => il2cpp_handle # NULL
                      /\ dump # <<>> => dump[1] # NULL

(* hack_thread exists only in a process of the game.                       *)
GameInv ==
    /\ enable_hack => isGame(app_data_dir) /\ game_data_dir = app_data_dir
    /\ hpc # "none" => enable_hack
    /\ dump # <<>> => dump[2] = app_data_dir /\ hpc # "none"

IndInv == /\ TypeOK /\ InstallInv /\ PrologueInv /\ HandleInv /\ GameInv
          /\ died # "null call"

-----------------------------------------------------------------------------
(* PatchWords is positive, so word 1 exists and NoCall is a call.          *)
LEMMA NoCallType == 1 \in Words /\ Words # {} /\ NoCall \in Calls
    BY HookAssumption DEF Words, NoCall, Calls, Names, Handles

(* Every API level selects one of the three replacements.                  *)
LEMMA VariantType == Variant \in Variants
    BY DEF Variant, Variants

(* The initial states satisfy the inductive invariant.                     *)
LEMMA InitInd == Init => IndInv
<1> SUFFICES ASSUME Init PROVE IndInv
    OBVIOUS
<1>1. TypeOK
  <2>1. call \in [AppThreads -> Calls]
      BY NoCallType DEF Init
  <2>2. opens \in 0 .. MaxOpens
      BY HookAssumption DEF Init
  <2> QED
      BY <2>1, <2>2 DEF Init, TypeOK, Handles, AppPoints, HackPoints, Deaths
<1>2. InstallInv
    BY DEF Init, InstallInv, Settled
<1>3. PrologueInv
    BY DEF Init, PrologueInv, NoCall
<1>4. HandleInv
    BY DEF Init, NoCall, HandleInv, InTarget, NULL, Other
<1>5. GameInv /\ died # "null call"
    BY DEF Init, GameInv
<1> QED
    BY <1>1, <1>2, <1>3, <1>4, <1>5 DEF IndInv

(* Every step keeps the types.                                             *)
LEMMA TypeStep == TypeOK /\ [Next]_vars => TypeOK'
<1> SUFFICES ASSUME TypeOK, [Next]_vars PROVE TypeOK'
    OBVIOUS
<1>1. ASSUME NEW b \in BOOLEAN, preAppSpecialize(b) PROVE TypeOK'
    BY <1>1 DEF TypeOK, hackVars, mainVars, appVars, preAppSpecialize
<1>2. ASSUME NEW b \in BOOLEAN, postAppSpecialize(b) PROVE TypeOK'
    BY <1>2 DEF TypeOK, hackVars, mainVars, appVars, postAppSpecialize, HackPoints
<1>3. ASSUME NEW b \in BOOLEAN, ResolveTarget(b) PROVE TypeOK'
    BY <1>3 DEF TypeOK, hackVars, mainVars, appVars, ResolveTarget, HackPoints
<1>4. CASE DobbyHookBegin
    BY <1>4 DEF TypeOK, hackVars, mainVars, appVars, DobbyHookBegin, HackPoints
<1>5. ASSUME NEW b \in BOOLEAN, DispatchRouting(b) PROVE TypeOK'
  <2>1. hpc' \in HackPoints
      BY <1>5 DEF TypeOK, DispatchRouting, AfterAddHookEntry, HackPoints
  <2>2. entries' \subseteq Variants /\ died' \in Deaths
      BY <1>5, VariantType DEF TypeOK, DispatchRouting, Deaths
  <2> QED
      BY <1>5, <2>1, <2>2 DEF TypeOK, mainVars, appVars, DispatchRouting
<1>6. CASE SetOriginCall
    BY <1>6, VariantType DEF TypeOK, hackVars, mainVars, appVars, SetOriginCall, HackPoints
<1>7. ASSUME NEW w \in Words, CodePatchWord(w) PROVE TypeOK'
    BY <1>7 DEF TypeOK, hackVars, mainVars, appVars, CodePatchWord, HackPoints
<1>8. CASE CodePatchFault
    BY <1>8 DEF TypeOK, hackVars, mainVars, appVars, CodePatchFault, Deaths
<1>9. CASE ClearCache
    BY <1>9 DEF TypeOK, hackVars, mainVars, appVars, ClearCache, HackPoints
<1>10. CASE PollHandle
    BY <1>10 DEF TypeOK, hackVars, mainVars, appVars, PollHandle, PollAgain, HackPoints
<1>11. CASE CallDump
    BY <1>11 DEF TypeOK, hackVars, mainVars, appVars, CallDump, HackPoints
<1>12. ASSUME NEW t \in AppThreads, NEW n \in Names, NEW v \in {"dlopen", "android_dlopen_ext"}, Dlopen(t, n, v) PROVE TypeOK'
  <2>1. call' \in [AppThreads -> Calls]
    <3>1. [NoCall EXCEPT !.name = n, !.via = v, !.late = HookReturned] \in Calls
        BY <1>12, NoCallType DEF Calls, HookReturned
    <3> QED
        BY <1>12, <3>1 DEF TypeOK, Dlopen
  <2>2. opens' \in 0 .. MaxOpens
      BY <1>12, HookAssumption DEF TypeOK, Dlopen
  <2> QED
      BY <1>12, <2>1, <2>2 DEF TypeOK, hackVars, mainVars, Dlopen, AppPoints
<1>13. ASSUME NEW t \in AppThreads, AcquireLinkerLock(t) PROVE TypeOK'
    BY <1>13 DEF TypeOK, hackVars, mainVars, appVars, AcquireLinkerLock, AppPoints
<1>14. ASSUME NEW t \in AppThreads, NEW k \in {"orig", "new"}, FetchWord(t, k) PROVE TypeOK'
  <2>1. call' \in [AppThreads -> Calls]
    <3>1. call[t] \in Calls /\ call[t].word \in Words
        BY <1>14 DEF TypeOK, Calls
    <3>2. (IF call[t].word = PatchWords THEN call[t].word ELSE call[t].word + 1) \in Words
        BY <3>1, HookAssumption DEF Words
    <3>3. CASE call' = call
        BY <3>3 DEF TypeOK
    <3>4. CASE call' = [call EXCEPT ![t].prologue = k,
                          ![t].word = IF @ = PatchWords THEN @ ELSE @ + 1]
        BY <1>14, <3>1, <3>2, <3>4 DEF TypeOK, Calls
    <3> QED
        BY <1>14, <3>3, <3>4 DEF FetchWord
  <2>2. apc' \in [AppThreads -> AppPoints]
      BY <1>14 DEF TypeOK, FetchWord, AfterPrologue, AppPoints
  <2>3. died' \in Deaths
      BY <1>14 DEF TypeOK, FetchWord, Deaths
  <2> QED
      BY <1>14, <2>1, <2>2, <2>3 DEF TypeOK, hackVars, mainVars, FetchWord
<1>15. ASSUME NEW t \in AppThreads, CallOrig(t) PROVE TypeOK'
  <2>1. apc' \in [AppThreads -> AppPoints] /\ died' \in Deaths
      BY <1>15 DEF TypeOK, CallOrig, AppPoints, Deaths
  <2> QED
      BY <1>15, <2>1 DEF TypeOK, hackVars, mainVars, CallOrig
<1>16. ASSUME NEW t \in AppThreads, NEW r \in Handles, Load(t, r) PROVE TypeOK'
    BY <1>16 DEF TypeOK, hackVars, mainVars, appVars, Load, AppPoints, Calls
<1>17. ASSUME NEW t \in AppThreads, DlopenProcessCheck(t) PROVE TypeOK'
  <2>1. apc' \in [AppThreads -> AppPoints] /\ died' \in Deaths
      BY <1>17 DEF TypeOK, DlopenProcessCheck, AppPoints, Deaths
  <2> QED
      BY <1>17, <2>1 DEF TypeOK, hackVars, mainVars, DlopenProcessCheck
<1>18. ASSUME NEW t \in AppThreads, DlopenProcessStore(t) PROVE TypeOK'
    BY <1>18 DEF TypeOK, hackVars, mainVars, appVars, DlopenProcessStore, Published, AppPoints, Calls
<1>19. ASSUME NEW t \in AppThreads, Return(t) PROVE TypeOK'
    BY <1>19, NoCallType DEF TypeOK, hackVars, mainVars, Return, AppPoints
<1>20. CASE UNCHANGED vars
    BY <1>20 DEF vars, TypeOK, hackVars, mainVars, appVars
<1> QED
    BY <1>1, <1>2, <1>3, <1>4, <1>5, <1>6, <1>7, <1>8, <1>9, <1>10, <1>11, <1>12, <1>13, <1>14, <1>15, <1>16, <1>17, <1>18, <1>19, <1>20 DEF Next, MainStep, HackStep, InCall

(* No step changes the API level, nor what follows from it.                *)
LEMMA VariantStable ==
    [Next]_vars => /\ Variant' = Variant /\ TargetUnderLock' = TargetUnderLock
                   /\ OpensMayFail' = OpensMayFail /\ Lookalikes' = Lookalikes
<1> SUFFICES ASSUME [Next]_vars PROVE api_level' = api_level
    BY DEF Variant, TargetUnderLock, OpensMayFail, Lookalikes
<1> QED
    BY DEF Next, MainStep, HackStep, InCall, vars, preAppSpecialize, postAppSpecialize,
       ResolveTarget, DobbyHookBegin, DispatchRouting, SetOriginCall, CodePatchWord,
       CodePatchFault, ClearCache, PollHandle, CallDump, Dlopen, AcquireLinkerLock, FetchWord,
       CallOrig, Load, DlopenProcessCheck, DlopenProcessStore, Return

AppStep ==
    \E t \in AppThreads :
        \/ \E n \in Names, v \in {"dlopen", "android_dlopen_ext"} : Dlopen(t, n, v)
        \/ InCall(t)

(* The application's threads leave Dobby's and the Zygisk callbacks' state *)
(* alone.                                                                  *)
LEMMA AppFrame == AppStep => UNCHANGED <<mainVars, hackVars>>
    BY DEF AppStep, InCall, Dlopen, AcquireLinkerLock, FetchWord, CallOrig, Load,
       DlopenProcessCheck, DlopenProcessStore, Return

(* hack_thread leaves the state of the application's threads and the       *)
(* handle alone.                                                           *)
LEMMA HackFrame == HackStep => UNCHANGED <<mainVars, appVars, il2cpp_handle>>
    BY DEF HackStep, ResolveTarget, DobbyHookBegin, DispatchRouting, SetOriginCall,
       CodePatchWord, CodePatchFault, ClearCache, PollHandle, CallDump

(* DobbyHook advances as InstallInv says.                                  *)
LEMMA InstallStep == TypeOK /\ InstallInv /\ [Next]_vars => InstallInv'
<1> SUFFICES ASSUME TypeOK, InstallInv, [Next]_vars PROVE InstallInv'
    OBVIOUS
<1>a. Variant' = Variant
    BY VariantStable
<1>b. HackStep => main_pc' = main_pc
    BY HackFrame DEF mainVars
<1>1. ASSUME NEW b \in BOOLEAN, preAppSpecialize(b) PROVE InstallInv'
    BY <1>1, <1>a DEF preAppSpecialize, hackVars, InstallInv, Settled
<1>2. ASSUME NEW b \in BOOLEAN, postAppSpecialize(b) PROVE InstallInv'
    BY <1>2, <1>a DEF postAppSpecialize, InstallInv, Settled
<1>3. CASE HackStep
  <2>1. hpc # "none" => main_pc = "app"
      BY DEF InstallInv, TypeOK
  <2>2. ASSUME NEW b \in BOOLEAN, ResolveTarget(b) PROVE InstallInv'
      BY <2>1, <2>2, <1>3, <1>a, <1>b DEF ResolveTarget, InstallInv, Settled
  <2>3. CASE DobbyHookBegin
      BY <2>1, <2>3, <1>3, <1>a, <1>b DEF DobbyHookBegin, InstallInv, Settled
  <2>4. ASSUME NEW b \in BOOLEAN, DispatchRouting(b) PROVE InstallInv'
      BY <2>1, <2>4, <1>3, <1>a, <1>b DEF DispatchRouting, AfterAddHookEntry, InstallInv, Settled
  <2>5. CASE SetOriginCall
    <3>1. orig'[Variant] # NULL
        BY <2>5, VariantType DEF SetOriginCall, TypeOK, NULL
    <3> QED
        BY <2>1, <2>5, <3>1, <1>3, <1>a, <1>b DEF SetOriginCall, InstallInv, Settled
  <2>6. ASSUME NEW w \in Words, CodePatchWord(w) PROVE InstallInv'
      BY <2>1, <2>6, <1>3, <1>a, <1>b DEF CodePatchWord, InstallInv, Settled
  <2>7. CASE CodePatchFault
      BY <2>7, <1>3, <1>a, <1>b DEF CodePatchFault, hackVars, InstallInv, Settled
  <2>8. CASE ClearCache
      BY <2>1, <2>8, <1>3, <1>a, <1>b DEF ClearCache, InstallInv, Settled
  <2>9. CASE PollHandle
      BY <2>1, <2>9, <1>3, <1>a, <1>b DEF PollHandle, InstallInv, Settled
  <2>10. CASE CallDump
      BY <2>1, <2>10, <1>3, <1>a, <1>b DEF CallDump, InstallInv, Settled
  <2> QED
      BY <1>3, <2>2, <2>3, <2>4, <2>5, <2>6, <2>7, <2>8, <2>9, <2>10 DEF HackStep
<1>4. CASE AppStep
    BY <1>4, <1>a, AppFrame DEF mainVars, hackVars, InstallInv, Settled
<1>5. CASE UNCHANGED vars
    BY <1>5, <1>a DEF vars, mainVars, hackVars, InstallInv, Settled
<1> QED
    BY <1>1, <1>2, <1>3, <1>4, <1>5 DEF Next, MainStep, AppStep

(* hack_thread is created only after isGame has said yes.                  *)
LEMMA GameStep == InstallInv /\ GameInv /\ [Next]_vars => GameInv'
<1> SUFFICES ASSUME InstallInv, GameInv, [Next]_vars PROVE GameInv'
    OBVIOUS
<1>1. ASSUME NEW b \in BOOLEAN, preAppSpecialize(b) PROVE GameInv'
    BY <1>1 DEF preAppSpecialize, hackVars, GameInv, InstallInv
<1>2. ASSUME NEW b \in BOOLEAN, postAppSpecialize(b) PROVE GameInv'
    BY <1>2 DEF postAppSpecialize, GameInv
<1>3. CASE HackStep
  <2>1. CASE CallDump
      BY <2>1 DEF CallDump, mainVars, GameInv
  <2>2. CASE ~CallDump
    <3>1. dump' = dump /\ hpc # "none" /\ hpc' # "none"
        BY <1>3, <2>2 DEF HackStep, ResolveTarget, DobbyHookBegin, DispatchRouting,
           AfterAddHookEntry, SetOriginCall, CodePatchWord, CodePatchFault, ClearCache,
           PollHandle, hackVars
    <3> QED
        BY <1>3, <3>1, HackFrame DEF mainVars, GameInv
  <2> QED
      BY <2>1, <2>2
<1>4. CASE AppStep
    BY <1>4, AppFrame DEF mainVars, hackVars, GameInv
<1>5. CASE UNCHANGED vars
    BY <1>5 DEF vars, mainVars, hackVars, GameInv
<1> QED
    BY <1>1, <1>2, <1>3, <1>4, <1>5 DEF Next, MainStep, AppStep

(* DobbyHook never unwrites a word and never takes its success back.       *)
LEMMA InstallMonotonic ==
    InstallInv /\ [Next]_vars => patched \subseteq patched' /\ (HookReturned => HookReturned')
<1> SUFFICES ASSUME InstallInv, [Next]_vars
             PROVE patched \subseteq patched' /\ (HookReturned => HookReturned')
    OBVIOUS
<1>a. Variant' = Variant
    BY VariantStable
<1>1. CASE MainStep
    BY <1>1, <1>a DEF MainStep, preAppSpecialize, postAppSpecialize, hackVars, HookReturned, InstallInv
<1>2. CASE HackStep
    BY <1>2, <1>a DEF HackStep, ResolveTarget, DobbyHookBegin, DispatchRouting, AfterAddHookEntry,
       SetOriginCall, CodePatchWord, CodePatchFault, ClearCache, PollHandle, CallDump, hackVars,
       HookReturned
<1>3. CASE AppStep
    BY <1>3, <1>a, AppFrame DEF hackVars, HookReturned
<1>4. CASE UNCHANGED vars
    BY <1>4, <1>a DEF vars, hackVars, HookReturned
<1> QED
    BY <1>1, <1>2, <1>3, <1>4 DEF Next, AppStep

(* A thread fetches new words only once there are some, and a late call    *)
(* fetches nothing else.                                                   *)
LEMMA PrologueStep == TypeOK /\ InstallInv /\ PrologueInv /\ [Next]_vars => PrologueInv'
<1> SUFFICES ASSUME TypeOK, InstallInv, PrologueInv, [Next]_vars PROVE PrologueInv'
    OBVIOUS
<1>a. Variant' = Variant
    BY VariantStable
<1>b. patched \subseteq patched' /\ (HookReturned => HookReturned')
    BY InstallMonotonic
<1>1. CASE UNCHANGED <<apc, call>>
    BY <1>1, <1>a, <1>b DEF PrologueInv, PassesTarget, TargetUnderLock
<1>2. CASE MainStep \/ HackStep \/ UNCHANGED vars
  <2>1. UNCHANGED <<apc, call>>
      BY <1>2, HackFrame DEF MainStep, preAppSpecialize, postAppSpecialize, appVars, vars
  <2> QED
      BY <1>1, <2>1
<1>3. ASSUME NEW t \in AppThreads, NEW n \in Names, NEW v \in {"dlopen", "android_dlopen_ext"},
             Dlopen(t, n, v)
      PROVE PrologueInv'
    BY <1>3, <1>a, <1>b DEF Dlopen, NoCall, TypeOK, PrologueInv, PassesTarget, TargetUnderLock
<1>4. ASSUME NEW t \in AppThreads, AcquireLinkerLock(t) PROVE PrologueInv'
    BY <1>4, <1>a, <1>b DEF AcquireLinkerLock, TypeOK, PrologueInv, PassesTarget, TargetUnderLock
<1>5. ASSUME NEW t \in AppThreads, NEW k \in {"orig", "new"}, FetchWord(t, k) PROVE PrologueInv'
  <2>1. call[t].late => k = "new"
      BY <1>5 DEF FetchWord, Fetchable, PrologueInv, InstallInv, HookReturned, Settled, TypeOK, Calls
  <2>2. k = "new" => patched # {}
      BY <1>5 DEF FetchWord, Fetchable
  <2>3. CASE UNCHANGED <<apc, call>>
      BY <2>3, <1>1
  <2>4. CASE /\ call' = [call EXCEPT ![t].prologue = k,
                           ![t].word = IF @ = PatchWords THEN @ ELSE @ + 1]
             /\ apc' = [apc EXCEPT ![t] = IF call[t].word = PatchWords
                                         THEN AfterPrologue(k) ELSE "entry"]
    <3>1. /\ call'[t].prologue = k /\ call'[t].late = call[t].late /\ call'[t].via = call[t].via
          /\ \A u \in AppThreads \ {t} : call'[u] = call[u] /\ apc'[u] = apc[u]
          /\ apc'[t] = "new_" => k = "new"
        BY <2>4 DEF TypeOK, Calls, AfterPrologue
    <3> QED
        BY <3>1, <2>1, <2>2, <1>a, <1>b DEF PrologueInv, PassesTarget, TargetUnderLock
  <2> QED
      BY <1>5, <2>3, <2>4 DEF FetchWord
<1>6. ASSUME NEW t \in AppThreads, CallOrig(t) PROVE PrologueInv'
    BY <1>6, <1>a, <1>b DEF CallOrig, TypeOK, PrologueInv, PassesTarget, TargetUnderLock
<1>7. ASSUME NEW t \in AppThreads, NEW r \in Handles, Load(t, r) PROVE PrologueInv'
    BY <1>7, <1>a, <1>b DEF Load, TypeOK, Calls, PrologueInv, PassesTarget, TargetUnderLock
<1>8. ASSUME NEW t \in AppThreads, DlopenProcessCheck(t) PROVE PrologueInv'
    BY <1>8, <1>a, <1>b DEF DlopenProcessCheck, TypeOK, PrologueInv, PassesTarget, TargetUnderLock
<1>9. ASSUME NEW t \in AppThreads, DlopenProcessStore(t) PROVE PrologueInv'
    BY <1>9, <1>a, <1>b DEF DlopenProcessStore, TypeOK, PrologueInv, PassesTarget, TargetUnderLock
<1>10. ASSUME NEW t \in AppThreads, Return(t) PROVE PrologueInv'
    BY <1>10, <1>a, <1>b DEF Return, NoCall, TypeOK, PrologueInv, PassesTarget, TargetUnderLock
<1> QED
    BY <1>2, <1>3, <1>4, <1>5, <1>6, <1>7, <1>8, <1>9, <1>10 DEF Next, InCall

(* Nobody but the holder of the mutex is about to store, so the handle is  *)
(* written once.                                                           *)
LEMMA HandleStep == TypeOK /\ HandleInv /\ [Next]_vars => HandleInv'
<1> SUFFICES ASSUME TypeOK, HandleInv, [Next]_vars PROVE HandleInv'
    OBVIOUS
<1>a. /\ TargetUnderLock' = TargetUnderLock /\ OpensMayFail' = OpensMayFail
      /\ Lookalikes' = Lookalikes /\ Undisturbed' = Undisturbed
    BY VariantStable DEF Undisturbed
<1> USE DEF HandleInv, InTarget
<1>1. CASE MainStep
    BY <1>1, <1>a DEF MainStep, preAppSpecialize, postAppSpecialize, appVars, hackVars
<1>2. CASE HackStep
  <2>1. UNCHANGED <<appVars, il2cpp_handle>>
      BY <1>2, HackFrame
  <2>2. CASE CallDump
      BY <2>1, <2>2, <1>a DEF CallDump, appVars
  <2>3. CASE PollHandle
    <3>1. hpc' = "sleep5" => il2cpp_handle # NULL
        BY <2>3 DEF PollHandle, PollAgain
    <3> QED
        BY <2>1, <2>3, <3>1, <1>a DEF PollHandle, appVars
  <2>4. CASE ~CallDump /\ ~PollHandle
    <3>1. dump' = dump /\ hpc' # "sleep5"
        BY <1>2, <2>4 DEF HackStep, ResolveTarget, DobbyHookBegin, DispatchRouting,
           AfterAddHookEntry, SetOriginCall, CodePatchWord, CodePatchFault, ClearCache, hackVars
    <3> QED
        BY <2>1, <3>1, <1>a DEF appVars
  <2> QED
      BY <2>2, <2>3, <2>4
<1>3. ASSUME NEW t \in AppThreads, NEW n \in Names, NEW v \in {"dlopen", "android_dlopen_ext"},
             Dlopen(t, n, v)
      PROVE HandleInv'
  <2>1. /\ \A u \in AppThreads \ {t} : apc'[u] = apc[u] /\ call'[u] = call[u]
        /\ apc'[t] \in {"want", "entry"} /\ (TargetUnderLock => apc'[t] = "want")
        /\ call'[t].name = "lookalike" => Lookalikes
      BY <1>3 DEF Dlopen, NoCall, TypeOK
  <2> QED
      BY <1>3, <2>1, <1>a DEF Dlopen, hackVars
<1>4. ASSUME NEW t \in AppThreads, AcquireLinkerLock(t) PROVE HandleInv'
  <2>1. TargetUnderLock => \A u \in AppThreads : apc[u] \notin InTarget
      BY <1>4, HookAssumption DEF AcquireLinkerLock, Free
  <2>2. /\ \A u \in AppThreads \ {t} : apc'[u] = apc[u]
        /\ apc'[t] \in {"entry", "load"} /\ linker_lock' = t
      BY <1>4 DEF AcquireLinkerLock, TypeOK
  <2> QED
      BY <1>4, <2>1, <2>2, <1>a DEF AcquireLinkerLock, hackVars
<1>5. ASSUME NEW t \in AppThreads, NEW k \in {"orig", "new"}, FetchWord(t, k) PROVE HandleInv'
  <2>1. /\ \A u \in AppThreads \ {t} : apc'[u] = apc[u] /\ call'[u] = call[u]
        /\ apc[t] = "entry" /\ apc'[t] \in {"entry", "new_", "load", "want"}
        /\ call'[t].name = call[t].name
      BY <1>5 DEF FetchWord, AfterPrologue, TypeOK, Calls
  <2> QED
      BY <1>5, <2>1, <1>a DEF FetchWord, hackVars
<1>6. ASSUME NEW t \in AppThreads, CallOrig(t) PROVE HandleInv'
    BY <1>6, <1>a DEF CallOrig, hackVars, TypeOK
<1>7. ASSUME NEW t \in AppThreads, NEW r \in Handles, Load(t, r) PROVE HandleInv'
  <2>1. /\ \A u \in AppThreads \ {t} : apc'[u] = apc[u] /\ call'[u] = call[u]
        /\ call'[t].name = call[t].name /\ call'[t].ret = r
        /\ apc'[t] \in {"check", "leave"}
      BY <1>7 DEF Load, TypeOK, Calls
  <2>2. Contains(call[t].name) /\ ~Lookalikes => r # Other /\ (~OpensMayFail => r = Il2cpp)
      BY <1>7 DEF Load, Results, Contains, Il2cpp, Other, NULL
  <2> QED
      BY <1>7, <2>1, <2>2, <1>a DEF Load, hackVars
<1>8. ASSUME NEW t \in AppThreads, DlopenProcessCheck(t) PROVE HandleInv'
    BY <1>8, <1>a DEF DlopenProcessCheck, IsIl2cppOpen, hackVars, TypeOK
<1>9. ASSUME NEW t \in AppThreads, DlopenProcessStore(t) PROVE HandleInv'
  <2>1. /\ \A u \in AppThreads \ {t} : apc'[u] = apc[u]
        /\ apc[t] = "store" /\ apc'[t] = "leave" /\ il2cpp_handle' = call[t].ret
        /\ UNCHANGED <<call, linker_lock, hpc, dump>>
      BY <1>9 DEF DlopenProcessStore, Published, hackVars, TypeOK
  <2>2. TargetUnderLock => \A u \in AppThreads \ {t} : apc[u] # "store"
      BY <2>1
  <2>3. ~Lookalikes => il2cpp_handle' # Other /\ (~OpensMayFail => il2cpp_handle' = Il2cpp)
      BY <2>1
  <2>4. TargetUnderLock => il2cpp_handle = NULL
      BY <2>1
  <2>5. Il2cpp # NULL
      BY DEF Il2cpp, NULL
  <2>6. Undisturbed => (hpc' = "sleep5" => il2cpp_handle' # NULL)
      BY <2>1, <2>3, <2>4, <2>5 DEF Undisturbed
  <2> QED
      BY <2>1, <2>2, <2>3, <2>6, <1>a
<1>10. ASSUME NEW t \in AppThreads, Return(t) PROVE HandleInv'
  <2>1. /\ \A u \in AppThreads \ {t} : apc'[u] = apc[u] /\ call'[u] = call[u]
        /\ apc[t] = "leave" /\ apc'[t] = "idle" /\ call'[t].name = "other.so"
      BY <1>10 DEF Return, NoCall, TypeOK
  <2> QED
      BY <1>10, <2>1, <1>a DEF Return, hackVars
<1>11. CASE UNCHANGED vars
    BY <1>11, <1>a DEF vars, appVars, hackVars
<1> QED
    BY <1>1, <1>2, <1>3, <1>4, <1>5, <1>6, <1>7, <1>8, <1>9, <1>10, <1>11 DEF Next, InCall

(* The orig_ pointer is set whenever a thread is in the replacement.       *)
LEMMA NoNullCall == IndInv => OrigSetBeforeHookRuns
    BY DEF IndInv, InstallInv, PrologueInv, OrigSetBeforeHookRuns

(* The invariant is inductive.                                             *)
LEMMA IndStep == IndInv /\ [Next]_vars => IndInv'
<1> SUFFICES ASSUME IndInv, [Next]_vars PROVE IndInv'
    OBVIOUS
<1>1. TypeOK' /\ InstallInv' /\ PrologueInv' /\ HandleInv' /\ GameInv'
    BY TypeStep, InstallStep, PrologueStep, HandleStep, GameStep DEF IndInv
<1>2. died' # "null call"
  <2>1. \A t \in AppThreads : apc[t] = "new_" => orig[Variant] # NULL
      BY NoNullCall DEF OrigSetBeforeHookRuns
  <2> QED
      BY <2>1 DEF IndInv, Next, MainStep, HackStep, InCall, vars, preAppSpecialize,
         postAppSpecialize, ResolveTarget, DobbyHookBegin, DispatchRouting, SetOriginCall,
         CodePatchWord, CodePatchFault, ClearCache, PollHandle, CallDump, Dlopen,
         AcquireLinkerLock, FetchWord, CallOrig, Load, DlopenProcessCheck, DlopenProcessStore,
         Return
<1> QED
    BY <1>1, <1>2 DEF IndInv

(* IndInv holds in every reachable state.                                  *)
LEMMA IndInvariant == Spec => []IndInv
    BY InitInd, IndStep, PTL DEF Spec

-----------------------------------------------------------------------------
(* The variables keep their types, for every number of threads, of patched *)
(* words and of dlopen calls.                                              *)
THEOREM TypeCorrect == Spec => []TypeOK
<1>1. IndInv => TypeOK
    BY DEF IndInv
<1> QED
    BY <1>1, IndInvariant, PTL

(* DobbyHook's order (store *origin_call, then patch) is enough: no thread *)
(* ever calls through a null orig_ pointer, wherever it is when the words  *)
(* change under it.                                                        *)
THEOREM OrigAlwaysSet == Spec => []OrigSetBeforeHookRuns
    BY NoNullCall, IndInvariant, PTL

(* No open that starts after DobbyHook returned slips past the hook.       *)
THEOREM NoLateOpenMissed == Spec => []LateOpensAreSeen
<1>1. IndInv => LateOpensAreSeen
    BY DEF IndInv, TypeOK, Calls, PrologueInv, LateOpensAreSeen
<1> QED
    BY <1>1, IndInvariant, PTL

(* il2cpp_dump gets the handle of libil2cpp.so, or of a lookalike the game *)
(* has, wherever the linker's mutex covers the hook or every open the hook *)
(* takes for libil2cpp.so gives its handle.                                *)
THEOREM DumpHandle == Spec => []DumpGetsHandle
<1>1. IndInv => DumpGetsHandle
    BY DEF IndInv, TypeOK, Handles, HandleInv, DumpGetsHandle, Dumpable
<1> QED
    BY <1>1, IndInvariant, PTL

(* Length and first component of a suffix.                                 *)
LEMMA SuffixFacts ==
    ASSUME NEW p \in Seq(STRING), NEW k \in 1 .. Len(p)
    PROVE Len(SubSeq(p, k, Len(p))) = Len(p) - k + 1 /\ SubSeq(p, k, Len(p))[1] = p[k]
<1>1. Len(SubSeq(p, k, Len(p))) = Len(p) - k + 1
    OBVIOUS
<1>2. SubSeq(p, k, Len(p))[1] = p[k]
    OBVIOUS
<1> QED
    BY <1>1, <1>2

(* A suffix that is a single component is the last component.              *)
LEMMA SingleSuffix ==
    ASSUME NEW p \in Seq(STRING), NEW k \in 1 .. Len(p), NEW x, SubSeq(p, k, Len(p)) = <<x>>
    PROVE Len(p) = k /\ p[k] = x
<1>1. Len(<<x>>) = 1 /\ <<x>>[1] = x
    OBVIOUS
<1>2. Len(<<x>>) = Len(p) - k + 1 /\ <<x>>[1] = p[k]
    BY SuffixFacts, Zenon
<1>3. Len(p) \in Nat
    OBVIOUS
<1> QED
    BY <1>1, <1>2, <1>3

(* A path that isGame accepts is a private directory of the game.          *)
LEMMA IsGameDir == ASSUME NEW p \in Seq(STRING), isGame(p) PROVE GameDir(p)
<1>1. ASSUME NEW k \in {3, 4}, Len(p) >= k, SubSeq(p, k, Len(p)) = <<GamePackageName>>
      PROVE Len(p) = k /\ p[k] = GamePackageName
  <2>1. k \in 1 .. Len(p)
      BY <1>1
  <2> QED
      BY <1>1, <2>1, SingleSuffix
<1>2. CASE PackageName(p) = SubSeq(p, 4, Len(p)) /\ Len(p) >= 4 /\ p[1] = "data" /\ p[2] # ""
             /\ p[3] \in UserIds
    BY <1>1, <1>2 DEF isGame, GameDir
<1>3. CASE PackageName(p) = SubSeq(p, 3, Len(p)) /\ Len(p) >= 3 /\ p[1] = "data" /\ p[2] # ""
    BY <1>1, <1>3 DEF isGame, GameDir
<1>4. CASE PackageName(p) = <<>>
    BY <1>4 DEF isGame
<1> QED
    BY <1>2, <1>3, <1>4 DEF PackageName

(* Only a process whose data directory is the game's is ever patched.      *)
THEOREM OnlyGame == Spec => []OnlyTheGameIsHooked
<1>1. ASSUME IndInv PROVE OnlyTheGameIsHooked
  <2>1. app_data_dir \in Seq(STRING)
    <3>1. <<>> \in Seq(STRING)
        OBVIOUS
    <3>2. app_data_dir \in AppDataDirs \/ app_data_dir = <<>>
        BY <1>1 DEF IndInv, TypeOK, NoDir
    <3> QED
        BY <3>1, <3>2, DirAssumption
  <2>2. (patched # {} \/ hpc # "none") => isGame(app_data_dir)
      BY <1>1 DEF IndInv, InstallInv, GameInv
  <2> QED
      BY <1>1, <2>1, <2>2, IsGameDir DEF IndInv, GameInv, OnlyTheGameIsHooked
<1> QED
    BY <1>1, IndInvariant, PTL

(* A published handle is never replaced, under the same condition.         *)
THEOREM HandleWrittenOnce == Spec => HandleStable
<1> DEFINE Stable == Undisturbed /\ il2cpp_handle # NULL => il2cpp_handle' = il2cpp_handle
<1>1. ASSUME IndInv, [Next]_vars PROVE Stable
  <2>1. CASE \E t \in AppThreads : DlopenProcessStore(t)
    <3>1. PICK t \in AppThreads : DlopenProcessStore(t)
        BY <2>1
    <3>2. /\ TargetUnderLock => il2cpp_handle = NULL
          /\ ~OpensMayFail /\ ~Lookalikes => call[t].ret = Il2cpp
        BY <1>1, <3>1 DEF IndInv, HandleInv, DlopenProcessStore
    <3>3. il2cpp_handle # NULL /\ ~Lookalikes => il2cpp_handle = Il2cpp
        BY <1>1 DEF IndInv, HandleInv, TypeOK, Handles
    <3> QED
        BY <3>1, <3>2, <3>3 DEF DlopenProcessStore, Published, Undisturbed
  <2>2. CASE ~\E t \in AppThreads : DlopenProcessStore(t)
    <3>1. il2cpp_handle' = il2cpp_handle
        BY <1>1, <2>2, HackFrame DEF Next, MainStep, InCall, vars, preAppSpecialize,
           postAppSpecialize, Dlopen, AcquireLinkerLock, FetchWord, CallOrig, Load,
           DlopenProcessCheck, Return
    <3> QED
        BY <3>1
  <2> QED
      BY <2>1, <2>2
<1> QED
    BY <1>1, IndInvariant, PTL DEF Spec, HandleStable

(* Only a call that was under way while CodePatch ran can meet half-written *)
(* code, and only such a call does.                                        *)
THEOREM NoLateTear == Spec => TornOnlyWhilePatching
<1> DEFINE Torn == died = "no" /\ died' = "torn"
                     => /\ \E t \in AppThreads : Tearable(t)
                        /\ \A t \in AppThreads : Tearable(t) => ~call[t].late
<1>1. ASSUME IndInv, [Next]_vars PROVE Torn
  <2>1. ASSUME died = "no", died' = "torn" PROVE \E t \in AppThreads : Tearable(t)
    <3>1. \E t \in AppThreads, k \in {"orig", "new"} : FetchWord(t, k)
        BY <1>1, <2>1 DEF Next, MainStep, HackStep, InCall, vars, preAppSpecialize,
           postAppSpecialize, ResolveTarget, DobbyHookBegin, DispatchRouting, SetOriginCall,
           CodePatchWord, CodePatchFault, ClearCache, PollHandle, CallDump, Dlopen,
           AcquireLinkerLock, CallOrig, Load, DlopenProcessCheck, DlopenProcessStore, Return
    <3>2. PICK t \in AppThreads, k \in {"orig", "new"} : FetchWord(t, k)
        BY <3>1
    <3>3. /\ call[t].prologue \notin {"none", k} /\ apc[t] = "entry"
          /\ k \in Fetchable(call[t].word)
        BY <2>1, <3>2 DEF FetchWord
    <3> QED
        BY <3>3 DEF Tearable
  <2>2. ASSUME NEW t \in AppThreads, Tearable(t), call[t].late PROVE FALSE
    <3>1. /\ patched = Words /\ flushed
          /\ call[t].prologue \notin {"none", "orig"} /\ call[t].prologue \in {"none", "orig", "new"}
          /\ call[t].word \in Words
        BY <1>1, <2>2 DEF Tearable, IndInv, PrologueInv, InstallInv, HookReturned, Settled,
           TypeOK, Calls
    <3>2. Fetchable(call[t].word) = {"new"}
        BY <3>1 DEF Fetchable
    <3> QED
        BY <2>2, <3>1, <3>2 DEF Tearable
  <2> QED
      BY <2>1, <2>2
<1> QED
    BY <1>1, IndInvariant, PTL DEF Spec, TornOnlyWhilePatching
=============================================================================
