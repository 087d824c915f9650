-------------------------------- MODULE Dump --------------------------------
(***************************************************************************)
(* il2cpp_dump (il2cpp_dump.cpp): resolve the il2cpp API, attach the       *)
(* thread, take the assembly list, render every class and write dump.cs.   *)
(*                                                                         *)
(* It runs five seconds after libil2cpp.so was opened, whether or not the  *)
(* game has finished il2cpp_init, in a process that may be killed at any   *)
(* moment and started again; only the file survives.  What a class is      *)
(* rendered to is the subject of module Render; here it is one chunk.      *)
(***************************************************************************)
EXTENDS Naturals, Sequences, SequencesExt

CONSTANTS
    Images,         \* number of classes of each image, in assembly order
    MaxRuns         \* bound on how often the game is started

ASSUME DumpAssumption ==
    /\ Images \in Seq(Nat)
    /\ MaxRuns \in Nat \ {0}

VARIABLES
    exports,        \* the part of Apis this libil2cpp.so exports
    managed,        \* which of Assembly.Load and Assembly.GetTypes have code
    file,           \* dump.cs: <<>> for no file, <<chunks>> for its contents
    runs,           \* times the game was started
    pc,             \* control point of il2cpp_dump
    inited,         \* has the game finished il2cpp_init?
    resolved,       \* API pointers that are not null
    attached,       \* is the thread attached to the runtime?
    snapshot,       \* the assembly list il2cpp_domain_get_assemblies returned
    i, j,           \* loop counters
    imageOutput,    \* chunks rendered for the image list
    outPuts,        \* chunks rendered for the classes
    stream,         \* outStream: "none", "good", "bad" or "closed"
    pending,        \* chunks in outStream's buffer
    messages,       \* what was logged
    died            \* what killed the process

(* The names init_il2cpp_api looks up: the three the code tests before it  *)
(* calls, and those it calls untested, grouped by where that happens:      *)
(* "attach" (domain_get, thread_attach, assembly_get_image,                *)
(* image_get_name), "render" (all that dump_type calls), "class_count"     *)
(* and "reflection" (get_corlib, class_from_name, string_new, ...).        *)
Apis == {"il2cpp_domain_get_assemblies", "il2cpp_image_get_class", "il2cpp_type_is_byref",
         "attach", "render", "class_count", "reflection"}

deviceVars == <<exports, managed>>
renderVars == <<snapshot, i, j, imageOutput, outPuts>>
streamVars == <<stream, pending>>
vars == <<deviceVars, file, runs, pc, inited, resolved, attached, renderVars, streamVars,
          messages, died>>

Alive == died = "no"
Has(api) == api \in resolved

Init ==
    /\ exports \in SUBSET Apis
    /\ managed \in SUBSET {"Load", "GetTypes"}
    /\ file = <<>> /\ runs = 1
    /\ pc = "init" /\ inited = FALSE /\ resolved = {} /\ attached = FALSE
    /\ snapshot = <<>> /\ i = 0 /\ j = 0 /\ imageOutput = <<>> /\ outPuts = <<>>
    /\ stream = "none" /\ pending = <<>> /\ messages = {} /\ died = "no"

-----------------------------------------------------------------------------
(* The game.                                                               *)

InitRuntime ==
    /\ Alive /\ ~inited
    /\ inited' = TRUE
    /\ UNCHANGED <<deviceVars, file, runs, pc, resolved, attached, renderVars, streamVars,
                   messages, died>>

(* The process is killed, or was dead already, and the game is started     *)
(* again; what outStream had not handed to the kernel is lost.             *)
Restart ==
    /\ runs < MaxRuns
    /\ runs' = runs + 1
    /\ pc' = "init" /\ inited' = FALSE /\ resolved' = {} /\ attached' = FALSE
    /\ snapshot' = <<>> /\ i' = 0 /\ j' = 0 /\ imageOutput' = <<>> /\ outPuts' = <<>>
    /\ stream' = "none" /\ pending' = <<>> /\ messages' = {} /\ died' = "no"
    /\ UNCHANGED <<deviceVars, file>>

-----------------------------------------------------------------------------
(* il2cpp_dump.                                                            *)

Goto(p) == pc' = p /\ UNCHANGED <<deviceVars, runs, inited>>

(* A call through a pointer dlsym left null.                               *)
NullCall(api) ==
    /\ ~Has(api) /\ died' = "null call"
    /\ UNCHANGED <<deviceVars, file, runs, pc, inited, resolved, attached, renderVars,
                   streamVars, messages>>

init_il2cpp_api ==
    /\ Alive /\ pc = "init"
    /\ resolved' = exports
    /\ Goto("check")
    /\ UNCHANGED <<file, attached, renderVars, streamVars, messages, died>>

CheckApi ==
    /\ Alive /\ pc = "check"
    /\ IF Has("il2cpp_domain_get_assemblies")
       THEN Goto("attach") /\ UNCHANGED messages
       ELSE Goto("returned") /\ messages' = {"Failed to initialize il2cpp api."}
    /\ UNCHANGED <<file, resolved, attached, renderVars, streamVars, died>>

(* il2cpp_domain_get and il2cpp_thread_attach; before il2cpp_init has run  *)
(* the runtime may not survive them.                                       *)
ThreadAttach(survives) ==
    /\ Alive /\ pc = "attach"
    /\ \/ NullCall("attach")
       \/ /\ Has("attach")
          /\ IF inited \/ survives
             THEN attached' = TRUE /\ Goto("assemblies") /\ UNCHANGED died
             ELSE died' = "early" /\ Goto(pc) /\ UNCHANGED attached
          /\ UNCHANGED <<file, resolved, renderVars, streamVars, messages>>

(* il2cpp_init registers the assemblies one by one: before it is done the  *)
(* list has the first n of them.                                           *)
GetAssemblies(n) ==
    /\ Alive /\ pc = "assemblies"
    /\ n \in 0 .. Len(Images) /\ (inited => n = Len(Images))
    /\ snapshot' = SubSeq(Images, 1, n)
    /\ i' = 1 /\ j' = 1
    /\ Goto("headers")
    /\ UNCHANGED <<file, resolved, attached, imageOutput, outPuts, streamVars, messages, died>>

LastHeaderSkipped == i < Len(snapshot)
MoreHeaders == i <= Len(snapshot)

ImageHeader ==
    /\ Alive /\ pc = "headers" /\ MoreHeaders
    /\ imageOutput' = Append(imageOutput, <<"image", i, 0>>)
    /\ i' = i + 1
    /\ Goto("headers")
    /\ UNCHANGED <<file, resolved, attached, snapshot, j, outPuts, streamVars, messages, died>>

(* if (il2cpp_image_get_class) ... else reflection                         *)
ChoosePath ==
    /\ Alive /\ pc = "headers" /\ ~MoreHeaders
    /\ i' = 1
    /\ Goto(IF Has("il2cpp_image_get_class") THEN "classes" ELSE "lookup")
    /\ UNCHANGED <<file, resolved, attached, snapshot, j, imageOutput, outPuts, streamVars,
                   messages, died>>

MissingLoad == "Load" \notin managed
MissingMethods == managed # {"Load", "GetTypes"}

(* Assembly.Load and Assembly.GetTypes, or an early return.                *)
LookupReflection ==
    /\ Alive /\ pc = "lookup"
    /\ \/ NullCall("reflection")
       \/ /\ Has("reflection")
          /\ IF MissingMethods
             THEN Goto("returned") /\ messages' = {"miss"}
             ELSE Goto("load") /\ UNCHANGED messages
          /\ UNCHANGED <<file, resolved, attached, renderVars, streamVars, died>>

(* The reflection path: Assembly.Load(name without extension), GetTypes.   *)
(* A managed exception cannot be caught: the module is built without       *)
(* exceptions.                                                             *)
LoadAssembly(throws) ==
    /\ Alive /\ pc = "load" /\ i <= Len(snapshot)
    /\ IF throws \/ managed # {"Load", "GetTypes"}
       THEN died' = (IF throws THEN "exception" ELSE "null call") /\ Goto(pc)
       ELSE Goto("types") /\ UNCHANGED died
    /\ UNCHANGED <<file, resolved, attached, renderVars, streamVars, messages>>

AlwaysCallsByref == TRUE
CallsByref == Has("il2cpp_type_is_byref")

InClasses == pc \in {"classes", "types"} /\ i <= Len(snapshot)

(* dump_type on the next class, into outPuts.                              *)
RenderClass ==
    /\ Alive /\ InClasses
    /\ pc = "classes" => Has("class_count")
    /\ j <= snapshot[i]
    /\ IF Has("render") /\ (CallsByref => Has("il2cpp_type_is_byref"))
       THEN /\ outPuts' = Append(outPuts, <<"class", i, j>>)
            /\ j' = j + 1
            /\ UNCHANGED died
       ELSE died' = "null call" /\ UNCHANGED <<outPuts, j>>
    /\ Goto(pc)
    /\ UNCHANGED <<file, resolved, attached, snapshot, i, imageOutput, streamVars, messages>>

ClassCountMissing ==
    Alive /\ pc = "classes" /\ i <= Len(snapshot) /\ NullCall("class_count")

NextImageKeepsIndex == j
FirstClass == 1

NextImage ==
    /\ Alive /\ InClasses
    /\ pc = "classes" => Has("class_count")
    /\ j > snapshot[i]
    /\ i' = i + 1 /\ j' = FirstClass
    /\ Goto(IF pc = "types" THEN "load" ELSE pc)
    /\ UNCHANGED <<file, resolved, attached, snapshot, imageOutput, outPuts, streamVars,
                   messages, died>>

RenderedFirstImage == pc \in {"classes", "load"} /\ i > 1
Rendered == pc \in {"classes", "load"} /\ i > Len(snapshot)

(* std::ofstream outStream(outPath): truncates, or fails (no files/).      *)
OpenFile(ok) ==
    /\ Alive /\ Rendered
    /\ stream' = IF ok THEN "good" ELSE "bad"
    /\ file' = IF ok THEN <<<<>>>> ELSE file
    /\ i' = 1
    /\ Goto("write")
    /\ UNCHANGED <<resolved, attached, snapshot, j, imageOutput, outPuts, pending, messages, died>>

ClassesFirst == outPuts \o imageOutput
Output == imageOutput \o outPuts

(* One << of the output; a bad stream ignores it.                          *)
WriteChunk ==
    /\ Alive /\ pc = "write" /\ i <= Len(Output)
    /\ pending' = IF stream = "good" THEN Append(pending, Output[i]) ELSE pending
    /\ i' = i + 1
    /\ Goto("write")
    /\ UNCHANGED <<file, resolved, attached, snapshot, j, imageOutput, outPuts, stream,
                   messages, died>>

FlushKeepsBuffer(ok) ==
    /\ Alive /\ stream = "good" /\ pending # <<>>
    /\ file' = IF ok THEN <<Append(file[1], Head(pending))>> ELSE file
    /\ pending' = IF ok THEN Tail(pending) ELSE pending
    /\ stream' = IF ok THEN stream ELSE "bad"
    /\ Goto(pc)
    /\ UNCHANGED <<resolved, attached, renderVars, messages, died>>

(* outStream hands buffered chunks to the kernel at any time.  After an    *)
(* error it is bad and what is left is dropped.                            *)
Flush(ok) ==
    /\ Alive /\ stream = "good" /\ pending # <<>>
    /\ file' = IF ok THEN <<Append(file[1], Head(pending))>> ELSE file
    /\ pending' = IF ok THEN Tail(pending) ELSE <<>>
    /\ stream' = IF ok THEN stream ELSE "bad"
    /\ Goto(pc)
    /\ UNCHANGED <<resolved, attached, renderVars, messages, died>>

CloseIfGood ==
    /\ Alive /\ pc = "write" /\ i > Len(Output) /\ pending = <<>> /\ stream = "good"
    /\ stream' = "closed"
    /\ messages' = {"dump done!"}
    /\ Goto("returned")
    /\ UNCHANGED <<file, resolved, attached, renderVars, pending, died>>

(* outStream.close() flushes; LOGI("dump done!") whatever happened.        *)
CloseFile ==
    /\ Alive /\ pc = "write" /\ i > Len(Output) /\ pending = <<>>
    /\ stream' = IF stream = "good" THEN "closed" ELSE stream
    /\ messages' = {"dump done!"}
    /\ Goto("returned")
    /\ UNCHANGED <<file, resolved, attached, renderVars, pending, died>>

-----------------------------------------------------------------------------
DumpStep ==
    \/ init_il2cpp_api \/ CheckApi
    \/ \E b \in BOOLEAN : ThreadAttach(b)
    \/ \E n \in 0 .. Len(Images) : GetAssemblies(n)
    \/ ImageHeader \/ ChoosePath \/ LookupReflection
    \/ \E b \in BOOLEAN : LoadAssembly(b)
    \/ RenderClass \/ ClassCountMissing \/ NextImage
    \/ \E b \in BOOLEAN : OpenFile(b)
    \/ WriteChunk
    \/ \E b \in BOOLEAN : Flush(b)
    \/ CloseFile

Next == InitRuntime \/ Restart \/ DumpStep

Spec == Init /\ [][Next]_vars

(* hack_thread keeps running while its process lives.                      *)
FairSpec == Spec /\ WF_vars(DumpStep)

-----------------------------------------------------------------------------
(* Properties.                                                             *)

Chunk == {"image", "class"} \X Nat \X Nat

DeviceType == exports \in SUBSET Apis /\ managed \in SUBSET {"Load", "GetTypes"}
ControlType ==
    /\ pc \in {"init", "check", "attach", "assemblies", "headers", "lookup", "classes", "load",
               "types", "write", "returned"}
    /\ runs \in 1 .. MaxRuns /\ resolved \in SUBSET Apis
    /\ died \in {"no", "null call", "early", "exception"}
FlagType == inited \in BOOLEAN /\ attached \in BOOLEAN
RenderType ==
    /\ snapshot \in {SubSeq(Images, 1, n) : n \in 0 .. Len(Images)}
    /\ i \in Nat /\ j \in Nat
    /\ imageOutput \in Seq(Chunk) /\ outPuts \in Seq(Chunk)
FileType ==
    /\ file \in Seq(Seq(Chunk)) /\ Len(file) <= 1
    /\ stream \in {"none", "good", "bad", "closed"}
    /\ pending \in Seq(Chunk) /\ (stream # "good" => pending = <<>>)

(* Every variable stays in its range; pc is a control point of             *)
(* il2cpp_dump.                                                            *)
TypeOK == DeviceType /\ ControlType /\ FlagType /\ RenderType /\ FileType

(* The tests of il2cpp_domain_get_assemblies, il2cpp_image_get_class,      *)
(* il2cpp_type_is_byref, Assembly.Load and Assembly.GetTypes suffice: on a *)
(* libil2cpp.so that has what every version has ("attach", "render") and   *)
(* the enumeration API of its own version, il2cpp_dump calls no null       *)
(* pointer.                                                                *)
GuardedApisMayBeMissing ==
    /\ {"attach", "render"} \subseteq exports
    /\ (IF "il2cpp_image_get_class" \in exports THEN "class_count" ELSE "reflection") \in exports
    => died # "null call"

(* The dump of the first n images: their lines, then their classes, each   *)
(* once and in the order of images and classes.                            *)
ChunksOf(n) ==
    UNION {{<<"image", k, 0>>} \cup {<<"class", k, c>> : c \in 1 .. Images[k]} : k \in 1 .. n}
Before(a, b) ==
    \/ a[1] = "image" /\ b[1] = "class"
    \/ a[1] = b[1] /\ (a[2] < b[2] \/ (a[2] = b[2] /\ a[3] < b[3]))
IsDumpOf(text, n) ==
    /\ Range(text) = ChunksOf(n)
    /\ \A k, l \in DOMAIN text : k < l => Before(text[k], text[l])

(* An early return, a crash or a kill while classes are being rendered     *)
(* leaves the dump of an earlier run as it was: the file is touched only   *)
(* when the whole dump of the snapshot is in memory.                       *)
OldDumpSurvives ==
    [][file' # file => IsDumpOf(imageOutput \o outPuts, Len(snapshot))]_vars

(* A stream that was closed without an error has every image line and      *)
(* every class of the snapshot, once and in order, whichever way they were *)
(* enumerated and however often the buffer was flushed.                    *)
ClosedMeansComplete == stream = "closed" => Len(file) = 1 /\ IsDumpOf(file[1], Len(snapshot))

(* What dump.cs may look like to a reader at any moment, across kills and  *)
(* restarts: see DumpFile.                                                 *)
DF == INSTANCE DumpFile WITH
          writing <- (stream = "good"),
          target <- (IF stream = "good" THEN imageOutput \o outPuts ELSE <<>>)
FileSpec == DF!Spec

(* il2cpp_dump ends: it returns, with whatever file errors, or the process *)
(* dies; no loop of it depends on the game.                                *)
DumpEnds == <>[](pc = "returned" \/ ~Alive)
=============================================================================
