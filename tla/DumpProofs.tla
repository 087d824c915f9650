----------------------------- MODULE DumpProofs -----------------------------
(***************************************************************************)
(* Dump for every list of images, every set of exported functions and any  *)
(* number of restarts: the null checks suffice, dump.cs is written the way *)
(* DumpFile says, a file that was closed without error is a whole dump,    *)
(* and an old dump survives until the new one is in memory.                *)
(***************************************************************************)
EXTENDS Dump, TLAPS

(* What the control point says of the API pointers: they are dlsym's       *)
(* answers, the branch taken fits il2cpp_image_get_class, and the          *)
(* reflection loop runs only with both methods.                            *)
ApiInv ==
    /\ pc # "init" => resolved = exports
    /\ pc = "classes" => "il2cpp_image_get_class" \in exports
    /\ pc \in {"lookup", "load", "types"} => "il2cpp_image_get_class" \notin exports
    /\ pc \in {"load", "types"} => managed = {"Load", "GetTypes"}
    /\ GuardedApisMayBeMissing

(* What the stream holds: the file and the buffer together are the first   *)
(* n - 1 chunks of the output.                                             *)
Written(f, p, out, n) ==
    /\ n >= 1 /\ n - 1 <= Len(out)
    /\ Len(f) + Len(p) = n - 1
    /\ \A k \in 1 .. Len(p) : p[k] = out[Len(f) + k]

StreamInv ==
    /\ pc \notin {"write", "returned"} => stream = "none"
    /\ pc = "write" => i >= 1
    /\ stream = "good" =>
          pc = "write" /\ Len(file) = 1 /\ Written(file[1], pending, imageOutput \o outPuts, i)

IndInv == TypeOK /\ ApiInv /\ StreamInv

(* What has been rendered where il2cpp_dump stands: image lines up to n,   *)
(* and the classes that come before class q of image p.                    *)
HeadersDone(text, n) == Len(text) = n /\ \A k \in 1 .. n : text[k] = <<"image", k, 0>>
Done(k, c, p, q) == k < p \/ (k = p /\ c < q)
ClassesDone(text, images, p, q) ==
    /\ \A a \in DOMAIN text :
          \E k \in 1 .. Len(images) : \E c \in 1 .. images[k] :
              text[a] = <<"class", k, c>> /\ Done(k, c, p, q)
    /\ \A k \in 1 .. Len(images) : \A c \in 1 .. images[k] :
          Done(k, c, p, q) => \E a \in DOMAIN text : text[a] = <<"class", k, c>>
    /\ \A a, b \in DOMAIN text : a < b => Before(text[a], text[b])
AllDone ==
    HeadersDone(imageOutput, Len(snapshot)) /\ ClassesDone(outPuts, snapshot, Len(snapshot) + 1, 1)

TextInv ==
    /\ pc \in {"init", "check", "attach", "assemblies", "headers", "lookup"} => outPuts = <<>>
    /\ pc \in {"init", "check", "attach", "assemblies"} => imageOutput = <<>>
    /\ pc = "headers" => j = 1 /\ i \in 1 .. Len(snapshot) + 1 /\ HeadersDone(imageOutput, i - 1)
    /\ pc = "lookup" => j = 1 /\ i = 1 /\ HeadersDone(imageOutput, Len(snapshot))
    /\ pc \in {"classes", "load", "types"} =>
          /\ i \in 1 .. Len(snapshot) + 1 /\ j >= 1
          /\ HeadersDone(imageOutput, Len(snapshot)) /\ ClassesDone(outPuts, snapshot, i, j)
    /\ pc = "write" \/ stream # "none" => AllDone

(* The file is a beginning of the text, all of it once the stream is       *)
(* closed.                                                                 *)
FileInv ==
    /\ stream \in {"good", "closed"} =>
          Len(file) = 1 /\ \A k \in 1 .. Len(file[1]) : file[1][k] = (imageOutput \o outPuts)[k]
    /\ stream = "closed" => Len(file[1]) = Len(imageOutput \o outPuts)

(* Head and tail of a sequence that is not empty.                          *)
LEMMA HeadTail ==
    ASSUME NEW S, NEW s \in Seq(S), s # <<>>
    PROVE  /\ Head(s) \in S /\ Head(s) = s[1] /\ Tail(s) \in Seq(S)
           /\ Len(Tail(s)) = Len(s) - 1 /\ Len(s) >= 1
           /\ \A k \in 1 .. Len(Tail(s)) : Tail(s)[k] = s[k + 1]
OBVIOUS

(* The element of a sequence of one.                                       *)
LEMMA OnlyElement == ASSUME NEW T, NEW s \in Seq(T), Len(s) = 1 PROVE s[1] \in T
OBVIOUS

(* A stream just opened has written nothing.                               *)
LEMMA WrittenNothing == ASSUME NEW S, NEW out \in Seq(S) PROVE Written(<<>>, <<>>, out, 1)
BY DEF Written

(* Writing the next chunk to the buffer.                                   *)
LEMMA WrittenOne ==
    ASSUME NEW S, NEW f \in Seq(S), NEW p \in Seq(S), NEW out \in Seq(S), NEW n \in Nat,
           Written(f, p, out, n), n <= Len(out)
    PROVE  Written(f, Append(p, out[n]), out, n + 1)
BY DEF Written

(* Flushing the first chunk of the buffer.                                 *)
LEMMA FlushedOne ==
    ASSUME NEW S, NEW f \in Seq(S), NEW p \in Seq(S), NEW out \in Seq(S), NEW n \in Nat,
           Written(f, p, out, n), p # <<>>
    PROVE  /\ Written(Append(f, Head(p)), Tail(p), out, n)
           /\ Head(p) = out[Len(f) + 1] /\ Len(f) < Len(out)
<1> DEFINE f1 == Append(f, Head(p))
<1>1. /\ Head(p) \in S /\ Head(p) = p[1] /\ Tail(p) \in Seq(S)
      /\ Len(Tail(p)) = Len(p) - 1 /\ Len(p) >= 1 /\ Len(p) \in Nat /\ Len(f) \in Nat
      /\ \A k \in 1 .. Len(Tail(p)) : Tail(p)[k] = p[k + 1]
    BY HeadTail
<1>2. Len(f1) = Len(f) + 1
    BY <1>1
<1>3. ASSUME NEW k \in 1 .. Len(Tail(p)) PROVE Tail(p)[k] = out[Len(f1) + k]
    <2>1. k + 1 \in 1 .. Len(p) /\ Tail(p)[k] = p[k + 1]
        BY <1>1
    <2>2. p[k + 1] = out[Len(f) + (k + 1)]
        BY <2>1 DEF Written
    <2>3. Len(f) + (k + 1) = Len(f1) + k
        BY <1>1, <1>2
    <2> QED
        BY <2>1, <2>2, <2>3
<1>4. Len(out) \in Nat /\ Len(f) + Len(p) = n - 1 /\ n - 1 <= Len(out) /\ n >= 1
    BY DEF Written
<1>5. Len(f1) + Len(Tail(p)) = n - 1 /\ Len(f) < Len(out)
    BY <1>1, <1>2, <1>4
<1>6. Written(f1, Tail(p), out, n)
    BY <1>3, <1>4, <1>5 DEF Written
<1>7. Head(p) = out[Len(f) + 1]
    BY <1>1 DEF Written
<1> QED
    BY <1>5, <1>6, <1>7

(* What the stream is writing, where it is good.                           *)
LEMMA Streaming ==
    ASSUME IndInv, stream = "good"
    PROVE  /\ file[1] \in Seq(Chunk) /\ pending \in Seq(Chunk) /\ i \in Nat
           /\ imageOutput \o outPuts \in Seq(Chunk) /\ pc = "write" /\ Len(file) = 1
           /\ Written(file[1], pending, imageOutput \o outPuts, i)
<1>1. file \in Seq(Seq(Chunk)) /\ pending \in Seq(Chunk)
    BY DEF IndInv, TypeOK, FileType
<1>2. imageOutput \o outPuts \in Seq(Chunk) /\ i \in Nat
    BY DEF IndInv, TypeOK, RenderType
<1>3. pc = "write" /\ Len(file) = 1 /\ Written(file[1], pending, imageOutput \o outPuts, i)
    BY DEF IndInv, StreamInv
<1>4. file[1] \in Seq(Chunk)
    BY <1>1, <1>3, OnlyElement, Zenon
<1> QED
    BY <1>1, <1>2, <1>3, <1>4

(* No image is a beginning of the image list.                              *)
LEMMA EmptyIsPrefix == <<>> \in {SubSeq(Images, 1, n) : n \in 0 .. Len(Images)}
<1>1. Len(Images) \in Nat /\ SubSeq(Images, 1, 0) = <<>>
    BY DumpAssumption
<1> QED
    BY <1>1

(* The initial state satisfies the invariant.                              *)
LEMMA InitInv == Init => IndInv
<1> SUFFICES ASSUME Init PROVE IndInv
    OBVIOUS
<1>1. DeviceType /\ RenderType
    BY EmptyIsPrefix DEF Init, DeviceType, RenderType
<1>2. ControlType
    BY DumpAssumption DEF Init, ControlType
<1>6. FlagType
    BY Zenon DEF Init, FlagType
<1>3. FileType
    BY DEF Init, FileType
<1>4. ApiInv
    BY DEF Init, ApiInv, GuardedApisMayBeMissing
<1>5. StreamInv
    BY DEF Init, StreamInv
<1> QED
    BY <1>1, <1>2, <1>3, <1>4, <1>5, <1>6 DEF IndInv, TypeOK

(* What the game exports never changes.                                    *)
LEMMA DeviceStep == ASSUME IndInv, [Next]_vars PROVE DeviceType'
<1>1. CASE InitRuntime
    BY <1>1 DEF InitRuntime, deviceVars, renderVars, streamVars, IndInv, TypeOK, DeviceType
<1>2. CASE Restart
    BY <1>2 DEF Restart, deviceVars, IndInv, TypeOK, DeviceType
<1>3. CASE init_il2cpp_api
    BY <1>3 DEF init_il2cpp_api, Goto, deviceVars, renderVars, streamVars, IndInv, TypeOK, DeviceType
<1>4. CASE CheckApi
    BY <1>4 DEF CheckApi, Goto, deviceVars, renderVars, streamVars, Has, IndInv, TypeOK, DeviceType
<1>5. ASSUME NEW b \in BOOLEAN, ThreadAttach(b) PROVE DeviceType'
    BY <1>5 DEF ThreadAttach, Goto, NullCall, deviceVars, renderVars, streamVars, Has, Alive, IndInv, TypeOK, DeviceType
<1>6. ASSUME NEW n \in 0 .. Len(Images), GetAssemblies(n) PROVE DeviceType'
    BY <1>6 DEF GetAssemblies, Goto, deviceVars, streamVars, IndInv, TypeOK, DeviceType
<1>7. CASE ImageHeader
    BY <1>7 DEF ImageHeader, Goto, deviceVars, streamVars, MoreHeaders, IndInv, TypeOK, DeviceType
<1>8. CASE ChoosePath
    BY <1>8 DEF ChoosePath, Goto, deviceVars, streamVars, Has, IndInv, TypeOK, DeviceType
<1>9. CASE LookupReflection
    BY <1>9 DEF LookupReflection, Goto, NullCall, deviceVars, renderVars, streamVars, Has, MissingMethods, Alive, IndInv, TypeOK, DeviceType
<1>10. ASSUME NEW b \in BOOLEAN, LoadAssembly(b) PROVE DeviceType'
    BY <1>10 DEF LoadAssembly, Goto, deviceVars, renderVars, streamVars, Alive, IndInv, TypeOK, DeviceType
<1>11. CASE RenderClass
    BY <1>11 DEF RenderClass, Goto, deviceVars, streamVars, Has, InClasses, CallsByref, Alive, IndInv, TypeOK, DeviceType
<1>12. CASE ClassCountMissing
    BY <1>12 DEF ClassCountMissing, NullCall, deviceVars, renderVars, streamVars, Has, Alive, IndInv, TypeOK, DeviceType
<1>13. CASE NextImage
    BY <1>13 DEF NextImage, Goto, deviceVars, streamVars, InClasses, FirstClass, IndInv, TypeOK, DeviceType
<1>14. ASSUME NEW b \in BOOLEAN, OpenFile(b) PROVE DeviceType'
    BY <1>14 DEF OpenFile, Goto, deviceVars, Rendered, IndInv, TypeOK, DeviceType
<1>15. CASE WriteChunk
    BY <1>15 DEF WriteChunk, Goto, deviceVars, Output, IndInv, TypeOK, DeviceType
<1>16. ASSUME NEW b \in BOOLEAN, Flush(b) PROVE DeviceType'
    BY <1>16 DEF Flush, Goto, deviceVars, renderVars, IndInv, TypeOK, DeviceType
<1>17. CASE CloseFile
    BY <1>17 DEF CloseFile, Goto, deviceVars, renderVars, IndInv, TypeOK, DeviceType
<1>18. CASE UNCHANGED vars
    BY <1>18 DEF vars, deviceVars, renderVars, streamVars, IndInv, TypeOK, DeviceType
<1> QED
    BY <1>1, <1>2, <1>3, <1>4, <1>5, <1>6, <1>7, <1>8, <1>9, <1>10, <1>11, <1>12, <1>13, <1>14, <1>15, <1>16, <1>17, <1>18 DEF Next, DumpStep

(* Control points and flags.                                               *)
LEMMA ControlStep == ASSUME IndInv, [Next]_vars PROVE ControlType'
<1>1. CASE InitRuntime
    BY <1>1 DEF InitRuntime, deviceVars, renderVars, streamVars, IndInv, TypeOK, DeviceType, ControlType
<1>2. CASE Restart
    <2>1. runs' \in 1 .. MaxRuns
        <3>1. runs \in 1 .. MaxRuns /\ runs < MaxRuns /\ runs' = runs + 1
            BY <1>2 DEF Restart, IndInv, TypeOK, ControlType
        <3> QED
            BY <3>1, DumpAssumption
    <2> QED
        BY <1>2, <2>1 DEF Restart, ControlType
<1>3. CASE init_il2cpp_api
    BY <1>3 DEF init_il2cpp_api, Goto, deviceVars, renderVars, streamVars, IndInv, TypeOK, DeviceType, ControlType
<1>4. CASE CheckApi
    BY <1>4 DEF CheckApi, Goto, deviceVars, renderVars, streamVars, Has, IndInv, TypeOK, DeviceType, ControlType
<1>5. ASSUME NEW b \in BOOLEAN, ThreadAttach(b) PROVE ControlType'
    BY <1>5 DEF ThreadAttach, Goto, NullCall, deviceVars, renderVars, streamVars, Has, Alive, IndInv, TypeOK, DeviceType, ControlType
<1>6. ASSUME NEW n \in 0 .. Len(Images), GetAssemblies(n) PROVE ControlType'
    BY <1>6 DEF GetAssemblies, Goto, deviceVars, streamVars, IndInv, TypeOK, DeviceType, ControlType
<1>7. CASE ImageHeader
    BY <1>7 DEF ImageHeader, Goto, deviceVars, streamVars, MoreHeaders, IndInv, TypeOK, DeviceType, ControlType
<1>8. CASE ChoosePath
    BY <1>8 DEF ChoosePath, Goto, deviceVars, streamVars, Has, IndInv, TypeOK, DeviceType, ControlType
<1>9. CASE LookupReflection
    BY <1>9 DEF LookupReflection, Goto, NullCall, deviceVars, renderVars, streamVars, Has, MissingMethods, Alive, IndInv, TypeOK, DeviceType, ControlType
<1>10. ASSUME NEW b \in BOOLEAN, LoadAssembly(b) PROVE ControlType'
    BY <1>10 DEF LoadAssembly, Goto, deviceVars, renderVars, streamVars, Alive, IndInv, TypeOK, DeviceType, ControlType
<1>11. CASE RenderClass
    BY <1>11 DEF RenderClass, Goto, deviceVars, streamVars, Has, InClasses, CallsByref, Alive, IndInv, TypeOK, DeviceType, ControlType
<1>12. CASE ClassCountMissing
    BY <1>12 DEF ClassCountMissing, NullCall, deviceVars, renderVars, streamVars, Has, Alive, IndInv, TypeOK, DeviceType, ControlType
<1>13. CASE NextImage
    BY <1>13 DEF NextImage, Goto, deviceVars, streamVars, InClasses, FirstClass, IndInv, TypeOK, DeviceType, ControlType
<1>14. ASSUME NEW b \in BOOLEAN, OpenFile(b) PROVE ControlType'
    BY <1>14 DEF OpenFile, Goto, deviceVars, Rendered, IndInv, TypeOK, DeviceType, ControlType
<1>15. CASE WriteChunk
    BY <1>15 DEF WriteChunk, Goto, deviceVars, Output, IndInv, TypeOK, DeviceType, ControlType
<1>16. ASSUME NEW b \in BOOLEAN, Flush(b) PROVE ControlType'
    BY <1>16 DEF Flush, Goto, deviceVars, renderVars, IndInv, TypeOK, DeviceType, ControlType
<1>17. CASE CloseFile
    BY <1>17 DEF CloseFile, Goto, deviceVars, renderVars, IndInv, TypeOK, DeviceType, ControlType
<1>18. CASE UNCHANGED vars
    BY <1>18 DEF vars, deviceVars, renderVars, streamVars, IndInv, TypeOK, DeviceType, ControlType
<1> QED
    BY <1>1, <1>2, <1>3, <1>4, <1>5, <1>6, <1>7, <1>8, <1>9, <1>10, <1>11, <1>12, <1>13, <1>14, <1>15, <1>16, <1>17, <1>18 DEF Next, DumpStep

(* Flags.                                                                  *)
LEMMA FlagStep == ASSUME IndInv, [Next]_vars PROVE FlagType'
<1>1. CASE InitRuntime
    BY <1>1, Zenon DEF InitRuntime, deviceVars, renderVars, streamVars, IndInv, TypeOK, FlagType
<1>2. CASE Restart
    BY <1>2, Zenon DEF Restart, deviceVars, IndInv, TypeOK, FlagType
<1>3. CASE init_il2cpp_api
    BY <1>3, Zenon DEF init_il2cpp_api, Goto, deviceVars, renderVars, streamVars, IndInv, TypeOK, FlagType
<1>4. CASE CheckApi
    BY <1>4, Zenon DEF CheckApi, Goto, deviceVars, renderVars, streamVars, Has, IndInv, TypeOK, FlagType
<1>5. ASSUME NEW b \in BOOLEAN, ThreadAttach(b) PROVE FlagType'
    BY <1>5, Zenon DEF ThreadAttach, Goto, NullCall, deviceVars, renderVars, streamVars, Has, Alive, IndInv, TypeOK, FlagType
<1>6. ASSUME NEW n \in 0 .. Len(Images), GetAssemblies(n) PROVE FlagType'
    BY <1>6, Zenon DEF GetAssemblies, Goto, deviceVars, streamVars, IndInv, TypeOK, FlagType
<1>7. CASE ImageHeader
    BY <1>7, Zenon DEF ImageHeader, Goto, deviceVars, streamVars, MoreHeaders, IndInv, TypeOK, FlagType
<1>8. CASE ChoosePath
    BY <1>8, Zenon DEF ChoosePath, Goto, deviceVars, streamVars, Has, IndInv, TypeOK, FlagType
<1>9. CASE LookupReflection
    BY <1>9, Zenon DEF LookupReflection, Goto, NullCall, deviceVars, renderVars, streamVars, Has, MissingMethods, Alive, IndInv, TypeOK, FlagType
<1>10. ASSUME NEW b \in BOOLEAN, LoadAssembly(b) PROVE FlagType'
    BY <1>10, Zenon DEF LoadAssembly, Goto, deviceVars, renderVars, streamVars, Alive, IndInv, TypeOK, FlagType
<1>11. CASE RenderClass
    BY <1>11, Zenon DEF RenderClass, Goto, deviceVars, streamVars, Has, InClasses, CallsByref, Alive, IndInv, TypeOK, FlagType
<1>12. CASE ClassCountMissing
    BY <1>12, Zenon DEF ClassCountMissing, NullCall, deviceVars, renderVars, streamVars, Has, Alive, IndInv, TypeOK, FlagType
<1>13. CASE NextImage
    BY <1>13, Zenon DEF NextImage, Goto, deviceVars, streamVars, InClasses, FirstClass, IndInv, TypeOK, FlagType
<1>14. ASSUME NEW b \in BOOLEAN, OpenFile(b) PROVE FlagType'
    BY <1>14, Zenon DEF OpenFile, Goto, deviceVars, Rendered, IndInv, TypeOK, FlagType
<1>15. CASE WriteChunk
    BY <1>15, Zenon DEF WriteChunk, Goto, deviceVars, Output, IndInv, TypeOK, FlagType
<1>16. ASSUME NEW b \in BOOLEAN, Flush(b) PROVE FlagType'
    BY <1>16, Zenon DEF Flush, Goto, deviceVars, renderVars, IndInv, TypeOK, FlagType
<1>17. CASE CloseFile
    BY <1>17, Zenon DEF CloseFile, Goto, deviceVars, renderVars, IndInv, TypeOK, FlagType
<1>18. CASE UNCHANGED vars
    BY <1>18 DEF vars, deviceVars, renderVars, streamVars, IndInv, TypeOK, FlagType
<1> QED
    BY <1>1, <1>2, <1>3, <1>4, <1>5, <1>6, <1>7, <1>8, <1>9, <1>10, <1>11, <1>12, <1>13, <1>14, <1>15, <1>16, <1>17, <1>18 DEF Next, DumpStep

(* What has been rendered is a sequence of chunks.                         *)
LEMMA RenderStep == ASSUME IndInv, [Next]_vars PROVE RenderType'
<1>1. CASE InitRuntime
    BY <1>1 DEF InitRuntime, deviceVars, renderVars, streamVars, IndInv, TypeOK, RenderType
<1>2. CASE Restart
    <2>1. snapshot' \in {SubSeq(Images, 1, n) : n \in 0 .. Len(Images)}
        BY <1>2, EmptyIsPrefix DEF Restart
    <2> QED
        BY <1>2, <2>1 DEF Restart, RenderType
<1>3. CASE init_il2cpp_api
    BY <1>3 DEF init_il2cpp_api, Goto, deviceVars, renderVars, streamVars, IndInv, TypeOK, RenderType
<1>4. CASE CheckApi
    BY <1>4 DEF CheckApi, Goto, deviceVars, renderVars, streamVars, Has, IndInv, TypeOK, RenderType
<1>5. ASSUME NEW b \in BOOLEAN, ThreadAttach(b) PROVE RenderType'
    BY <1>5 DEF ThreadAttach, Goto, NullCall, deviceVars, renderVars, streamVars, Has, Alive, IndInv, TypeOK, RenderType
<1>6. ASSUME NEW n \in 0 .. Len(Images), GetAssemblies(n) PROVE RenderType'
    BY <1>6 DEF GetAssemblies, Goto, deviceVars, streamVars, IndInv, TypeOK, RenderType
<1>7. CASE ImageHeader
    <2>1. <<"image", i, 0>> \in Chunk
        BY DEF IndInv, TypeOK, RenderType, Chunk
    <2> QED
        BY <1>7, <2>1 DEF ImageHeader, IndInv, TypeOK, RenderType
<1>8. CASE ChoosePath
    BY <1>8 DEF ChoosePath, Goto, deviceVars, streamVars, Has, IndInv, TypeOK, RenderType
<1>9. CASE LookupReflection
    BY <1>9 DEF LookupReflection, Goto, NullCall, deviceVars, renderVars, streamVars, Has, MissingMethods, Alive, IndInv, TypeOK, RenderType
<1>10. ASSUME NEW b \in BOOLEAN, LoadAssembly(b) PROVE RenderType'
    BY <1>10 DEF LoadAssembly, Goto, deviceVars, renderVars, streamVars, Alive, IndInv, TypeOK, RenderType
<1>11. CASE RenderClass
    <2>1. <<"class", i, j>> \in Chunk
        BY DEF IndInv, TypeOK, RenderType, Chunk
    <2>2. Append(outPuts, <<"class", i, j>>) \in Seq(Chunk) /\ j + 1 \in Nat
        BY <2>1 DEF IndInv, TypeOK, RenderType
    <2>3. outPuts' \in Seq(Chunk) /\ j' \in Nat
        BY <1>11, <2>2 DEF RenderClass, IndInv, TypeOK, RenderType
    <2>4. snapshot' = snapshot /\ i' = i /\ imageOutput' = imageOutput
        BY <1>11 DEF RenderClass
    <2> QED
        BY <2>3, <2>4 DEF IndInv, TypeOK, RenderType
<1>12. CASE ClassCountMissing
    BY <1>12 DEF ClassCountMissing, NullCall, deviceVars, renderVars, streamVars, Has, Alive, IndInv, TypeOK, RenderType
<1>13. CASE NextImage
    BY <1>13 DEF NextImage, Goto, deviceVars, streamVars, InClasses, FirstClass, IndInv, TypeOK, RenderType
<1>14. ASSUME NEW b \in BOOLEAN, OpenFile(b) PROVE RenderType'
    BY <1>14 DEF OpenFile, Goto, deviceVars, Rendered, IndInv, TypeOK, RenderType
<1>15. CASE WriteChunk
    BY <1>15 DEF WriteChunk, Goto, deviceVars, Output, IndInv, TypeOK, RenderType
<1>16. ASSUME NEW b \in BOOLEAN, Flush(b) PROVE RenderType'
    BY <1>16 DEF Flush, Goto, deviceVars, renderVars, IndInv, TypeOK, RenderType
<1>17. CASE CloseFile
    BY <1>17 DEF CloseFile, Goto, deviceVars, renderVars, IndInv, TypeOK, RenderType
<1>18. CASE UNCHANGED vars
    BY <1>18 DEF vars, deviceVars, renderVars, streamVars, IndInv, TypeOK, RenderType
<1> QED
    BY <1>1, <1>2, <1>3, <1>4, <1>5, <1>6, <1>7, <1>8, <1>9, <1>10, <1>11, <1>12, <1>13, <1>14, <1>15, <1>16, <1>17, <1>18 DEF Next, DumpStep

(* The file and the buffer are sequences of chunks.                        *)
LEMMA FileStep == ASSUME IndInv, [Next]_vars PROVE FileType'
<1>1. CASE InitRuntime
    BY <1>1 DEF InitRuntime, deviceVars, renderVars, streamVars, IndInv, TypeOK, FileType, StreamInv
<1>2. CASE Restart
    BY <1>2 DEF Restart, deviceVars, IndInv, TypeOK, FileType, StreamInv
<1>3. CASE init_il2cpp_api
    BY <1>3 DEF init_il2cpp_api, Goto, deviceVars, renderVars, streamVars, IndInv, TypeOK, FileType, StreamInv
<1>4. CASE CheckApi
    BY <1>4 DEF CheckApi, Goto, deviceVars, renderVars, streamVars, Has, IndInv, TypeOK, FileType, StreamInv
<1>5. ASSUME NEW b \in BOOLEAN, ThreadAttach(b) PROVE FileType'
    BY <1>5 DEF ThreadAttach, Goto, NullCall, deviceVars, renderVars, streamVars, Has, Alive, IndInv, TypeOK, FileType, StreamInv
<1>6. ASSUME NEW n \in 0 .. Len(Images), GetAssemblies(n) PROVE FileType'
    BY <1>6 DEF GetAssemblies, Goto, deviceVars, streamVars, IndInv, TypeOK, FileType, StreamInv
<1>7. CASE ImageHeader
    BY <1>7 DEF ImageHeader, Goto, deviceVars, streamVars, MoreHeaders, IndInv, TypeOK, FileType, StreamInv
<1>8. CASE ChoosePath
    BY <1>8 DEF ChoosePath, Goto, deviceVars, streamVars, Has, IndInv, TypeOK, FileType, StreamInv
<1>9. CASE LookupReflection
    BY <1>9 DEF LookupReflection, Goto, NullCall, deviceVars, renderVars, streamVars, Has, MissingMethods, Alive, IndInv, TypeOK, FileType, StreamInv
<1>10. ASSUME NEW b \in BOOLEAN, LoadAssembly(b) PROVE FileType'
    BY <1>10 DEF LoadAssembly, Goto, deviceVars, renderVars, streamVars, Alive, IndInv, TypeOK, FileType, StreamInv
<1>11. CASE RenderClass
    BY <1>11 DEF RenderClass, Goto, deviceVars, streamVars, Has, InClasses, CallsByref, Alive, IndInv, TypeOK, FileType, StreamInv
<1>12. CASE ClassCountMissing
    BY <1>12 DEF ClassCountMissing, NullCall, deviceVars, renderVars, streamVars, Has, Alive, IndInv, TypeOK, FileType, StreamInv
<1>13. CASE NextImage
    BY <1>13 DEF NextImage, Goto, deviceVars, streamVars, InClasses, FirstClass, IndInv, TypeOK, FileType, StreamInv
<1>14. ASSUME NEW b \in BOOLEAN, OpenFile(b) PROVE FileType'
    <2>1. <<>> \in Seq(Chunk)
        OBVIOUS
    <2>2. <<<<>>>> \in Seq(Seq(Chunk)) /\ Len(<<<<>>>>) = 1
        BY <2>1
    <2>3. pending' = <<>>
        BY <1>14 DEF OpenFile, Rendered, IndInv, TypeOK, FileType, StreamInv
    <2> QED
        BY <1>14, <2>2, <2>3 DEF OpenFile, IndInv, TypeOK, FileType
<1>15. CASE WriteChunk
    <2>1. Output \in Seq(Chunk)
        BY DEF Output, IndInv, TypeOK, RenderType
    <2>2. Output[i] \in Chunk
        BY <1>15, <2>1 DEF WriteChunk, IndInv, StreamInv, TypeOK, RenderType
    <2> QED
        BY <1>15, <2>2 DEF WriteChunk, IndInv, TypeOK, FileType
<1>16. ASSUME NEW b \in BOOLEAN, Flush(b) PROVE FileType'
    <2>1. CASE b
        <3>1. file[1] \in Seq(Chunk) /\ Head(pending) \in Chunk /\ Tail(pending) \in Seq(Chunk)
            BY <1>16, Streaming, HeadTail DEF Flush
        <3>2. Append(file[1], Head(pending)) \in Seq(Chunk)
            BY <3>1
        <3>3. file' \in Seq(Seq(Chunk)) /\ Len(file') <= 1
            BY <1>16, <2>1, <3>2 DEF Flush
        <3> QED
            BY <1>16, <2>1, <3>1, <3>3 DEF Flush, IndInv, TypeOK, FileType
    <2>2. CASE ~b
        BY <1>16, <2>2 DEF Flush, IndInv, TypeOK, FileType
    <2> QED
        BY <2>1, <2>2
<1>17. CASE CloseFile
    BY <1>17 DEF CloseFile, Goto, deviceVars, renderVars, IndInv, TypeOK, FileType, StreamInv
<1>18. CASE UNCHANGED vars
    BY <1>18 DEF vars, deviceVars, renderVars, streamVars, IndInv, TypeOK, FileType, StreamInv
<1> QED
    BY <1>1, <1>2, <1>3, <1>4, <1>5, <1>6, <1>7, <1>8, <1>9, <1>10, <1>11, <1>12, <1>13, <1>14, <1>15, <1>16, <1>17, <1>18 DEF Next, DumpStep

(* A null pointer is called only where a group is missing.                 *)
LEMMA ApiStep == ASSUME IndInv, [Next]_vars PROVE ApiInv'
<1>1. CASE InitRuntime
    BY <1>1 DEF InitRuntime, deviceVars, renderVars, streamVars, IndInv, ApiInv, GuardedApisMayBeMissing
<1>2. CASE Restart
    BY <1>2 DEF Restart, deviceVars, IndInv, ApiInv, GuardedApisMayBeMissing
<1>3. CASE init_il2cpp_api
    BY <1>3 DEF init_il2cpp_api, Goto, deviceVars, renderVars, streamVars, IndInv, ApiInv, GuardedApisMayBeMissing
<1>4. CASE CheckApi
    <2>1. pc' \in {"attach", "returned"} /\ resolved' = resolved /\ exports' = exports
        BY <1>4 DEF CheckApi, Goto, deviceVars
    <2>2. pc = "check" /\ managed' = managed /\ died' = died
        BY <1>4 DEF CheckApi, Goto, deviceVars
    <2> QED
        BY <2>1, <2>2 DEF IndInv, ApiInv, GuardedApisMayBeMissing
<1>5. ASSUME NEW b \in BOOLEAN, ThreadAttach(b) PROVE ApiInv'
    BY <1>5 DEF ThreadAttach, Goto, NullCall, deviceVars, renderVars, streamVars, Has, Alive, IndInv, ApiInv, GuardedApisMayBeMissing
<1>6. ASSUME NEW n \in 0 .. Len(Images), GetAssemblies(n) PROVE ApiInv'
    BY <1>6 DEF GetAssemblies, Goto, deviceVars, streamVars, IndInv, ApiInv, GuardedApisMayBeMissing
<1>7. CASE ImageHeader
    BY <1>7 DEF ImageHeader, Goto, deviceVars, streamVars, MoreHeaders, IndInv, ApiInv, GuardedApisMayBeMissing
<1>8. CASE ChoosePath
    BY <1>8 DEF ChoosePath, Goto, deviceVars, streamVars, Has, IndInv, ApiInv, GuardedApisMayBeMissing
<1>9. CASE LookupReflection
    BY <1>9 DEF LookupReflection, Goto, NullCall, deviceVars, renderVars, streamVars, Has, MissingMethods, Alive, IndInv, ApiInv, GuardedApisMayBeMissing
<1>10. ASSUME NEW b \in BOOLEAN, LoadAssembly(b) PROVE ApiInv'
    BY <1>10 DEF LoadAssembly, Goto, deviceVars, renderVars, streamVars, Alive, IndInv, ApiInv, GuardedApisMayBeMissing
<1>11. CASE RenderClass
    BY <1>11 DEF RenderClass, Goto, deviceVars, streamVars, Has, InClasses, CallsByref, Alive, IndInv, ApiInv, GuardedApisMayBeMissing
<1>12. CASE ClassCountMissing
    BY <1>12 DEF ClassCountMissing, NullCall, deviceVars, renderVars, streamVars, Has, Alive, IndInv, ApiInv, GuardedApisMayBeMissing
<1>13. CASE NextImage
    BY <1>13 DEF NextImage, Goto, deviceVars, streamVars, InClasses, FirstClass, IndInv, ApiInv, GuardedApisMayBeMissing
<1>14. ASSUME NEW b \in BOOLEAN, OpenFile(b) PROVE ApiInv'
    BY <1>14 DEF OpenFile, Goto, deviceVars, Rendered, IndInv, ApiInv, GuardedApisMayBeMissing
<1>15. CASE WriteChunk
    BY <1>15 DEF WriteChunk, Goto, deviceVars, Output, IndInv, ApiInv, GuardedApisMayBeMissing
<1>16. ASSUME NEW b \in BOOLEAN, Flush(b) PROVE ApiInv'
    BY <1>16 DEF Flush, Goto, deviceVars, renderVars, IndInv, ApiInv, GuardedApisMayBeMissing
<1>17. CASE CloseFile
    BY <1>17 DEF CloseFile, Goto, deviceVars, renderVars, IndInv, ApiInv, GuardedApisMayBeMissing
<1>18. CASE UNCHANGED vars
    BY <1>18 DEF vars, deviceVars, renderVars, streamVars, IndInv, ApiInv, GuardedApisMayBeMissing
<1> QED
    BY <1>1, <1>2, <1>3, <1>4, <1>5, <1>6, <1>7, <1>8, <1>9, <1>10, <1>11, <1>12, <1>13, <1>14, <1>15, <1>16, <1>17, <1>18 DEF Next, DumpStep

(* Writing and flushing keep file and buffer a beginning of the output.    *)
LEMMA StreamStep == ASSUME IndInv, [Next]_vars PROVE StreamInv'
<1>1. CASE InitRuntime
    BY <1>1 DEF InitRuntime, deviceVars, renderVars, streamVars, IndInv, StreamInv
<1>2. CASE Restart
    BY <1>2 DEF Restart, deviceVars, IndInv, StreamInv
<1>3. CASE init_il2cpp_api
    BY <1>3 DEF init_il2cpp_api, Goto, deviceVars, renderVars, streamVars, IndInv, StreamInv
<1>4. CASE CheckApi
    BY <1>4 DEF CheckApi, Goto, deviceVars, renderVars, streamVars, Has, IndInv, StreamInv
<1>5. ASSUME NEW b \in BOOLEAN, ThreadAttach(b) PROVE StreamInv'
    BY <1>5 DEF ThreadAttach, Goto, NullCall, deviceVars, renderVars, streamVars, Has, Alive, IndInv, StreamInv
<1>6. ASSUME NEW n \in 0 .. Len(Images), GetAssemblies(n) PROVE StreamInv'
    BY <1>6 DEF GetAssemblies, Goto, deviceVars, streamVars, IndInv, StreamInv
<1>7. CASE ImageHeader
    BY <1>7 DEF ImageHeader, Goto, deviceVars, streamVars, MoreHeaders, IndInv, StreamInv
<1>8. CASE ChoosePath
    BY <1>8 DEF ChoosePath, Goto, deviceVars, streamVars, Has, IndInv, StreamInv
<1>9. CASE LookupReflection
    BY <1>9 DEF LookupReflection, Goto, NullCall, deviceVars, renderVars, streamVars, Has, MissingMethods, Alive, IndInv, StreamInv
<1>10. ASSUME NEW b \in BOOLEAN, LoadAssembly(b) PROVE StreamInv'
    BY <1>10 DEF LoadAssembly, Goto, deviceVars, renderVars, streamVars, Alive, IndInv, StreamInv
<1>11. CASE RenderClass
    BY <1>11 DEF RenderClass, Goto, deviceVars, streamVars, Has, InClasses, CallsByref, Alive, IndInv, StreamInv
<1>12. CASE ClassCountMissing
    BY <1>12 DEF ClassCountMissing, NullCall, deviceVars, renderVars, streamVars, Has, Alive, IndInv, StreamInv
<1>13. CASE NextImage
    BY <1>13 DEF NextImage, Goto, deviceVars, streamVars, InClasses, FirstClass, IndInv, StreamInv
<1>14. ASSUME NEW b \in BOOLEAN, OpenFile(b) PROVE StreamInv'
    <2>1. pending' = <<>> /\ i' = 1 /\ pc' = "write" /\ imageOutput' = imageOutput /\ outPuts' = outPuts
        BY <1>14 DEF OpenFile, Rendered, Goto, IndInv, TypeOK, FileType, StreamInv
    <2>2. imageOutput \o outPuts \in Seq(Chunk)
        BY DEF IndInv, TypeOK, RenderType
    <2>3. Written(<<>>, <<>>, imageOutput \o outPuts, 1)
        BY <2>2, WrittenNothing
    <2>4. CASE b
        <3>1. file' = <<<<>>>> /\ Len(file') = 1 /\ file'[1] = <<>>
            BY <1>14, <2>4 DEF OpenFile
        <3> QED
            BY <2>1, <2>3, <3>1 DEF StreamInv
    <2>5. CASE ~b
        BY <1>14, <2>1, <2>5 DEF OpenFile, StreamInv
    <2> QED
        BY <2>4, <2>5
<1>15. CASE WriteChunk
    <2>1. /\ pc' = "write" /\ i' = i + 1 /\ stream' = stream /\ file' = file /\ i <= Len(Output)
          /\ imageOutput' = imageOutput /\ outPuts' = outPuts
          /\ stream = "good" => pending' = Append(pending, Output[i])
        BY <1>15 DEF WriteChunk, Goto
    <2>2. i \in Nat
        BY DEF IndInv, TypeOK, RenderType
    <2>3. CASE stream = "good"
        <3>1. Written(file[1], pending', imageOutput \o outPuts, i + 1) /\ Len(file) = 1
            BY <2>1, <2>3, Streaming, WrittenOne DEF Output
        <3> QED
            BY <2>1, <2>2, <3>1 DEF StreamInv
    <2>4. CASE stream # "good"
        BY <2>1, <2>2, <2>4 DEF StreamInv
    <2> QED
        BY <2>3, <2>4
<1>16. ASSUME NEW b \in BOOLEAN, Flush(b) PROVE StreamInv'
    <2>1. /\ stream = "good" /\ pc' = pc /\ i' = i /\ pending # <<>>
          /\ imageOutput' = imageOutput /\ outPuts' = outPuts
        BY <1>16 DEF Flush, Goto, renderVars
    <2>2. pc = "write" /\ i >= 1
        BY <2>1 DEF IndInv, StreamInv
    <2>3. CASE b
        <3>1. file' = <<Append(file[1], Head(pending))>> /\ pending' = Tail(pending)
            BY <1>16, <2>3 DEF Flush
        <3>2. Written(Append(file[1], Head(pending)), pending', imageOutput \o outPuts, i)
            BY <2>1, <3>1, Streaming, FlushedOne
        <3>3. Len(file') = 1 /\ file'[1] = Append(file[1], Head(pending))
            BY <3>1
        <3> QED
            BY <2>1, <2>2, <3>2, <3>3 DEF StreamInv
    <2>4. CASE ~b
        BY <1>16, <2>1, <2>2, <2>4 DEF Flush, StreamInv
    <2> QED
        BY <2>3, <2>4
<1>17. CASE CloseFile
    BY <1>17 DEF CloseFile, Goto, deviceVars, renderVars, IndInv, StreamInv
<1>18. CASE UNCHANGED vars
    BY <1>18 DEF vars, deviceVars, renderVars, streamVars, IndInv, StreamInv
<1> QED
    BY <1>1, <1>2, <1>3, <1>4, <1>5, <1>6, <1>7, <1>8, <1>9, <1>10, <1>11, <1>12, <1>13, <1>14, <1>15, <1>16, <1>17, <1>18 DEF Next, DumpStep

(* The invariant holds throughout.                                         *)
LEMMA Inductive == Spec => []IndInv
<1>1. IndInv /\ [Next]_vars => IndInv'
    BY DeviceStep, ControlStep, FlagStep, RenderStep, FileStep, ApiStep, StreamStep DEF IndInv, TypeOK
<1> QED
    BY InitInv, <1>1, PTL DEF Spec

(* Type correctness, for every image list and number of restarts.          *)
THEOREM TypeCorrect == Spec => []TypeOK
<1>1. IndInv => TypeOK
    BY DEF IndInv
<1> QED
    BY Inductive, <1>1, PTL

(* The null checks of il2cpp_dump suffice on every libil2cpp.so that has   *)
(* the functions of its own version.                                       *)
THEOREM NullChecksSuffice == Spec => []GuardedApisMayBeMissing
<1>1. IndInv => GuardedApisMayBeMissing
    BY DEF IndInv, ApiInv
<1> QED
    BY Inductive, <1>1, PTL

(* il2cpp_dump writes dump.cs the way DumpFile says: whatever is exported, *)
(* whenever the process is killed and however flushes fall.                *)
THEOREM WritesDumpFile == Spec => FileSpec
<1> DEFINE out == imageOutput \o outPuts
<1>1. Init => DF!Init
    BY DEF Init, DF!Init
<1>2. ASSUME IndInv, [Next]_vars PROVE [DF!Next]_(DF!vars)
    <2>1. ASSUME file' = file, stream' = stream, imageOutput' = imageOutput, outPuts' = outPuts
          PROVE  UNCHANGED DF!vars
        BY <2>1 DEF DF!vars
    <2>2. ASSUME file' = file, stream = "none", stream' = "none"
          PROVE  UNCHANGED DF!vars
        BY <2>2 DEF DF!vars
    <2>3. CASE Restart
        <3>1. CASE stream = "good"
            BY <2>3, <3>1 DEF Restart, DF!Next, DF!Stop
        <3>2. CASE stream # "good"
            BY <2>3, <3>2 DEF Restart, DF!vars
        <3> QED
            BY <3>1, <3>2
    <2>4. ASSUME NEW b \in BOOLEAN, OpenFile(b) PROVE [DF!Next]_(DF!vars)
        <3>1. stream = "none" /\ imageOutput' = imageOutput /\ outPuts' = outPuts
            BY <1>2, <2>4 DEF OpenFile, Rendered, IndInv, StreamInv
        <3>2. CASE b
            <4>1. out' \in Seq(Chunk)
                BY <1>2, <3>1 DEF IndInv, TypeOK, RenderType
            <4> QED
                BY <2>4, <3>1, <3>2, <4>1 DEF OpenFile, DF!Next, DF!Truncate
        <3>3. CASE ~b
            BY <2>4, <3>1, <3>3 DEF OpenFile, DF!vars
        <3> QED
            BY <3>2, <3>3
    <2>5. ASSUME NEW b \in BOOLEAN, Flush(b) PROVE [DF!Next]_(DF!vars)
        <3>1. /\ stream = "good" /\ pending # <<>>
              /\ imageOutput' = imageOutput /\ outPuts' = outPuts
            BY <2>5 DEF Flush, renderVars
        <3>2. CASE b
            <4>1. Head(pending) = out[Len(file[1]) + 1] /\ Len(file[1]) < Len(out)
                <5>1. /\ file[1] \in Seq(Chunk) /\ pending \in Seq(Chunk) /\ out \in Seq(Chunk)
                      /\ i \in Nat /\ Written(file[1], pending, out, i)
                    BY <1>2, <3>1, Streaming
                <5> HIDE DEF out
                <5> QED
                    BY <3>1, <5>1, FlushedOne
            <4>2. file' = <<Append(file[1], Head(pending))>> /\ stream' = stream
                BY <2>5, <3>2 DEF Flush
            <4> QED
                BY <3>1, <4>1, <4>2 DEF DF!Next, DF!AppendChunk
        <3>3. CASE ~b
            BY <2>5, <3>1, <3>3 DEF Flush, DF!Next, DF!Stop
        <3> QED
            BY <3>2, <3>3
    <2>6. CASE CloseFile
        <3>1. CASE stream = "good"
            BY <2>6, <3>1 DEF CloseFile, DF!Next, DF!Stop
        <3>2. CASE stream # "good"
            BY <2>6, <3>2 DEF CloseFile, DF!vars
        <3> QED
            BY <3>1, <3>2
    <2>7. CASE \/ InitRuntime \/ init_il2cpp_api \/ CheckApi
               \/ \E b \in BOOLEAN : ThreadAttach(b) \/ LoadAssembly(b)
               \/ LookupReflection \/ ClassCountMissing \/ WriteChunk
        BY <2>7, <2>1 DEF InitRuntime, init_il2cpp_api, CheckApi, ThreadAttach, LoadAssembly,
           LookupReflection, ClassCountMissing, WriteChunk, NullCall, renderVars, streamVars
    <2>8. CASE \/ \E n \in 0 .. Len(Images) : GetAssemblies(n)
               \/ ImageHeader \/ ChoosePath \/ RenderClass \/ NextImage
        BY <1>2, <2>8, <2>2 DEF GetAssemblies, ImageHeader, ChoosePath, RenderClass, InClasses,
           NextImage, streamVars, IndInv, StreamInv
    <2>9. CASE UNCHANGED vars
        BY <2>9, <2>1 DEF vars, renderVars, streamVars
    <2> QED
        BY <1>2, <2>3, <2>4, <2>5, <2>6, <2>7, <2>8, <2>9 DEF Next, DumpStep
<1> QED
    BY Inductive, <1>1, <1>2, PTL DEF Spec, FileSpec, DF!Spec

-----------------------------------------------------------------------------
(* What dump.cs contains.                                                  *)

LEMMA SnapshotIsPrefix ==
    ASSUME IndInv
    PROVE  /\ snapshot \in Seq(Nat) /\ Len(snapshot) \in Nat
           /\ \A k \in 1 .. Len(snapshot) : snapshot[k] = Images[k] /\ snapshot[k] \in Nat
<1>1. PICK n \in 0 .. Len(Images) : snapshot = SubSeq(Images, 1, n)
    BY DEF IndInv, TypeOK, RenderType
<1> QED
    BY <1>1, DumpAssumption

(* One more image line.                                                    *)
LEMMA HeaderOne ==
    ASSUME NEW text \in Seq(Chunk), NEW n \in Nat, HeadersDone(text, n)
    PROVE  HeadersDone(Append(text, <<"image", n + 1, 0>>), n + 1)
BY DEF HeadersDone

(* Nothing rendered is nothing to do before the first class.               *)
LEMMA RenderNone ==
    ASSUME NEW images \in Seq(Nat)
    PROVE  ClassesDone(<<>>, images, 1, 1)
BY DEF ClassesDone, Done

(* One more class behind the others.                                       *)
LEMMA RenderOne ==
    ASSUME NEW images \in Seq(Nat), NEW text \in Seq(Chunk), NEW p \in 1 .. Len(images),
           NEW q \in 1 .. images[p], ClassesDone(text, images, p, q)
    PROVE  ClassesDone(Append(text, <<"class", p, q>>), images, p, q + 1)
<1> DEFINE new == Append(text, <<"class", p, q>>)
<1>1. /\ Len(text) \in Nat /\ DOMAIN text = 1 .. Len(text) /\ DOMAIN new = 1 .. Len(text) + 1
      /\ new[Len(text) + 1] = <<"class", p, q>> /\ \A a \in DOMAIN text : new[a] = text[a]
    OBVIOUS
<1>2. p \in Nat /\ q \in Nat /\ images[p] \in Nat
    OBVIOUS
<1> HIDE DEF new
<1>3. /\ \A a \in DOMAIN new : a \in DOMAIN text \/ a = Len(text) + 1
      /\ \A a \in DOMAIN text : a \in DOMAIN new
      /\ Len(text) + 1 \in DOMAIN new
    BY <1>1
<1>4. \A a \in DOMAIN text :
         \E k \in 1 .. Len(images) : \E c \in 1 .. images[k] : text[a] = <<"class", k, c>> /\ Done(k, c, p, q)
    BY DEF ClassesDone
<1>5. \A k \in 1 .. Len(images) : \A c \in 1 .. images[k] :
         Done(k, c, p, q + 1) <=> Done(k, c, p, q) \/ (k = p /\ c = q)
    BY <1>2 DEF Done
<1>6. ASSUME NEW a \in DOMAIN new
      PROVE  \E k \in 1 .. Len(images) : \E c \in 1 .. images[k] :
                 new[a] = <<"class", k, c>> /\ Done(k, c, p, q + 1)
    <2>1. CASE a \in DOMAIN text
        BY <1>1, <1>4, <1>5, <2>1
    <2>2. CASE a = Len(text) + 1
        BY <1>1, <1>5, <2>2
    <2> QED
        BY <1>3, <2>1, <2>2
<1>7. ASSUME NEW k \in 1 .. Len(images), NEW c \in 1 .. images[k], Done(k, c, p, q + 1)
      PROVE  \E a \in DOMAIN new : new[a] = <<"class", k, c>>
    <2>1. CASE Done(k, c, p, q)
        <3>1. PICK a \in DOMAIN text : text[a] = <<"class", k, c>>
            BY <2>1 DEF ClassesDone
        <3>2. a \in DOMAIN new /\ new[a] = <<"class", k, c>>
            BY <1>1, <1>3, <3>1
        <3> QED
            BY <3>2
    <2>2. CASE k = p /\ c = q
        BY <1>1, <1>3, <2>2, Zenon
    <2> QED
        BY <1>5, <1>7, <2>1, <2>2
<1>8. ASSUME NEW a \in DOMAIN new, NEW b \in DOMAIN new, a < b PROVE Before(new[a], new[b])
    <2>1. a \in DOMAIN text
        BY <1>1, <1>8
    <2>2. CASE b \in DOMAIN text
        BY <1>1, <1>8, <2>1, <2>2 DEF ClassesDone
    <2>3. CASE b = Len(text) + 1
        <3>0. PICK k \in 1 .. Len(images) : \E c \in 1 .. images[k] :
                 text[a] = <<"class", k, c>> /\ Done(k, c, p, q)
            BY <1>4, <2>1
        <3>1. PICK c \in 1 .. images[k] : text[a] = <<"class", k, c>> /\ Done(k, c, p, q)
            BY <3>0
        <3>2. Before(<<"class", k, c>>, <<"class", p, q>>)
            BY <3>1 DEF Before, Done
        <3> QED
            BY <1>1, <2>1, <2>3, <3>1, <3>2
    <2> QED
        BY <1>3, <2>2, <2>3
<1>9. ClassesDone(new, images, p, q + 1)
    BY <1>6, <1>7, <1>8 DEF ClassesDone
<1> QED
    BY <1>9 DEF new

(* Past the last class of an image is before the first of the next.        *)
LEMMA RenderNext ==
    ASSUME NEW images \in Seq(Nat), NEW text, NEW p \in 1 .. Len(images), NEW q \in Nat, q > images[p],
           ClassesDone(text, images, p, q)
    PROVE  ClassesDone(text, images, p + 1, 1)
<1>1. \A k \in 1 .. Len(images) : \A c \in 1 .. images[k] : Done(k, c, p, q) <=> Done(k, c, p + 1, 1)
    BY DEF Done
<1> QED
    BY <1>1 DEF ClassesDone

(* Past the last image nothing is left, whatever the class index.          *)
LEMMA RenderLast ==
    ASSUME NEW images \in Seq(Nat), NEW text, NEW p \in 1 .. Len(images) + 1, p > Len(images), NEW q,
           ClassesDone(text, images, p, q)
    PROVE  ClassesDone(text, images, Len(images) + 1, 1)
<1>1. \A k \in 1 .. Len(images) : \A c \in 1 .. images[k] :
         Done(k, c, p, q) /\ Done(k, c, Len(images) + 1, 1)
    BY DEF Done
<1> QED
    BY <1>1 DEF ClassesDone

(* Where the elements of a concatenation come from.                        *)
LEMMA TwoParts ==
    ASSUME NEW S, NEW a \in Seq(S), NEW b \in Seq(S), NEW n, Len(a) = n
    PROVE  /\ DOMAIN b = 1 .. Len(b) /\ Len(b) \in Nat /\ DOMAIN (a \o b) = 1 .. n + Len(b)
           /\ \A k \in 1 .. n : (a \o b)[k] = a[k]
           /\ \A k \in 1 .. Len(b) : (a \o b)[n + k] = b[k]
<1>1. DOMAIN b = 1 .. Len(b) /\ Len(b) \in Nat /\ n \in Nat
    OBVIOUS
<1>2. DOMAIN (a \o b) = 1 .. n + Len(b)
    OBVIOUS
<1>3. \A k \in 1 .. n : (a \o b)[k] = a[k]
    OBVIOUS
<1>4. \A k \in 1 .. Len(b) : (a \o b)[n + k] = b[k]
    OBVIOUS
<1> QED
    BY <1>1, <1>2, <1>3, <1>4

(* Image lines followed by all classes are the dump.                       *)
LEMMA AllIsDump ==
    ASSUME IndInv, AllDone
    PROVE  IsDumpOf(imageOutput \o outPuts, Len(snapshot))
<1> DEFINE n == Len(snapshot)  text == imageOutput \o outPuts
<1>1. n \in Nat /\ \A k \in 1 .. n : snapshot[k] = Images[k] /\ snapshot[k] \in Nat
    BY SnapshotIsPrefix
<1>2. /\ imageOutput \in Seq(Chunk) /\ outPuts \in Seq(Chunk) /\ Len(imageOutput) = n
      /\ \A k \in 1 .. n : imageOutput[k] = <<"image", k, 0>>
    BY DEF IndInv, TypeOK, RenderType, AllDone, HeadersDone
<1>3. /\ DOMAIN outPuts = 1 .. Len(outPuts) /\ Len(outPuts) \in Nat
      /\ DOMAIN text = 1 .. n + Len(outPuts)
      /\ \A k \in 1 .. n : text[k] = <<"image", k, 0>>
      /\ \A a \in DOMAIN outPuts : n + a \in DOMAIN text /\ text[n + a] = outPuts[a]
    <2>1. /\ DOMAIN outPuts = 1 .. Len(outPuts) /\ Len(outPuts) \in Nat
          /\ DOMAIN text = 1 .. n + Len(outPuts)
          /\ \A k \in 1 .. n : text[k] = imageOutput[k]
          /\ \A a \in 1 .. Len(outPuts) : text[n + a] = outPuts[a]
        <3> HIDE DEF n
        <3>1. imageOutput \in Seq(Chunk) /\ outPuts \in Seq(Chunk) /\ Len(imageOutput) = n
            BY <1>2
        <3> QED
            BY <3>1, TwoParts
    <2> HIDE DEF text, n
    <2>2. \A a \in 1 .. Len(outPuts) : n + a \in 1 .. n + Len(outPuts)
        BY <1>1, <2>1
    <2> QED
        BY <1>2, <2>1, <2>2
<1>4. /\ \A a \in DOMAIN outPuts :
            \E k \in 1 .. n : \E c \in 1 .. Images[k] : outPuts[a] = <<"class", k, c>>
      /\ \A k \in 1 .. n : \A c \in 1 .. Images[k] : \E a \in DOMAIN outPuts : outPuts[a] = <<"class", k, c>>
      /\ \A a, b \in DOMAIN outPuts : a < b => Before(outPuts[a], outPuts[b])
    <2>1. \A k \in 1 .. n : \A c \in 1 .. snapshot[k] : Done(k, c, n + 1, 1)
        BY <1>1 DEF Done
    <2> QED
        BY <1>1, <2>1 DEF AllDone, ClassesDone
<1>5. \A d \in DOMAIN text : d \in 1 .. n \/ (d - n \in DOMAIN outPuts /\ text[d] = outPuts[d - n])
    <2> TAKE d \in DOMAIN text
    <2>1. CASE d <= n
        BY <1>1, <1>3, <2>1
    <2>2. CASE ~(d <= n)
        <3>1. d - n \in DOMAIN outPuts /\ n + (d - n) = d
            BY <1>1, <1>3, <2>2
        <3> QED
            BY <1>3, <3>1
    <2> QED
        BY <2>1, <2>2
<1> HIDE DEF text, n
<1>6. Range(text) \subseteq ChunksOf(n)
    <2> SUFFICES ASSUME NEW d \in DOMAIN text PROVE text[d] \in ChunksOf(n)
        BY DEF Range
    <2>1. CASE d \in 1 .. n
        <3>1. text[d] \in {<<"image", d, 0>>} \cup {<<"class", d, c>> : c \in 1 .. Images[d]}
            BY <1>3, <2>1
        <3> QED
            BY <2>1, <3>1 DEF ChunksOf
    <2>2. CASE d - n \in DOMAIN outPuts /\ text[d] = outPuts[d - n]
        <3>1. PICK k \in 1 .. n : \E c \in 1 .. Images[k] : outPuts[d - n] = <<"class", k, c>>
            BY <1>4, <2>2
        <3>2. outPuts[d - n] \in {<<"class", k, c>> : c \in 1 .. Images[k]}
            BY <3>1
        <3> QED
            BY <2>2, <3>2 DEF ChunksOf
    <2> QED
        BY <1>5, <2>1, <2>2
<1>7. ChunksOf(n) \subseteq Range(text)
    <2> SUFFICES ASSUME NEW k \in 1 .. n,
                        NEW x \in {<<"image", k, 0>>} \cup {<<"class", k, c>> : c \in 1 .. Images[k]}
                 PROVE  \E d \in DOMAIN text : x = text[d]
        BY DEF ChunksOf, Range
    <2>1. CASE x = <<"image", k, 0>>
        <3>1. k \in DOMAIN text
            BY <1>1, <1>3
        <3> QED
            BY <1>3, <2>1, <3>1
    <2>2. ASSUME NEW c \in 1 .. Images[k], x = <<"class", k, c>> PROVE \E d \in DOMAIN text : x = text[d]
        BY <1>3, <1>4, <2>2
    <2> QED
        BY <2>1, <2>2
<1>8. ASSUME NEW d \in DOMAIN text, NEW e \in DOMAIN text, d < e PROVE Before(text[d], text[e])
    <2>1. CASE d \in 1 .. n /\ e \in 1 .. n
        BY <1>1, <1>3, <1>8, <2>1 DEF Before
    <2>2. CASE d \in 1 .. n /\ e - n \in DOMAIN outPuts /\ text[e] = outPuts[e - n]
        <3>1. PICK k \in 1 .. n : \E c \in 1 .. Images[k] : outPuts[e - n] = <<"class", k, c>>
            BY <1>4, <2>2
        <3> QED
            BY <1>3, <2>2, <3>1 DEF Before
    <2>3. CASE /\ d - n \in DOMAIN outPuts /\ text[d] = outPuts[d - n]
               /\ e - n \in DOMAIN outPuts /\ text[e] = outPuts[e - n]
        <3>1. d - n < e - n
            BY <1>1, <1>3, <1>8
        <3> QED
            BY <1>4, <2>3, <3>1
    <2>4. ~(d \notin 1 .. n /\ e \in 1 .. n)
        BY <1>1, <1>3, <1>8
    <2> QED
        BY <1>5, <2>1, <2>2, <2>3, <2>4
<1> QED
    BY <1>6, <1>7, <1>8 DEF IsDumpOf, text, n

(* Behind the last image the whole text is in memory.                      *)
LEMMA RenderedIsAll ==
    ASSUME IndInv, TextInv, pc \in {"classes", "load"}, i > Len(snapshot)
    PROVE  AllDone
<1>1. snapshot \in Seq(Nat) /\ j \in Nat
    BY SnapshotIsPrefix DEF IndInv, TypeOK, RenderType
<1>2. /\ i \in 1 .. Len(snapshot) + 1
      /\ HeadersDone(imageOutput, Len(snapshot)) /\ ClassesDone(outPuts, snapshot, i, j)
    BY DEF TextInv
<1> QED
    BY <1>1, <1>2, RenderLast DEF AllDone

(* Nothing rendered yet: the text invariant at the start.                  *)
LEMMA TextInit == Init => TextInv
BY DEF Init, TextInv

(* Every step keeps what has been rendered where il2cpp_dump stands.       *)
LEMMA TextStep == ASSUME IndInv, TextInv, [Next]_vars PROVE TextInv'
<1>1. ASSUME pc' = pc, stream' = stream, UNCHANGED renderVars PROVE TextInv'
    BY <1>1 DEF TextInv, AllDone, renderVars
<1>2. /\ imageOutput \in Seq(Chunk) /\ outPuts \in Seq(Chunk) /\ i \in Nat /\ j \in Nat
      /\ snapshot \in Seq(Nat) /\ Len(snapshot) \in Nat
    BY SnapshotIsPrefix DEF IndInv, TypeOK, RenderType
<1>3. pc \notin {"write", "returned"} => stream = "none"
    BY DEF IndInv, StreamInv
<1>4. CASE Restart
    BY <1>4 DEF Restart, TextInv
<1>5. CASE InitRuntime \/ ClassCountMissing \/ UNCHANGED vars
    BY <1>1, <1>5 DEF InitRuntime, ClassCountMissing, NullCall, vars, streamVars
<1>6. CASE init_il2cpp_api \/ CheckApi
    BY <1>3, <1>6 DEF init_il2cpp_api, CheckApi, Goto, renderVars, streamVars, TextInv
<1>7. ASSUME NEW b \in BOOLEAN, ThreadAttach(b) PROVE TextInv'
    <2>1. CASE died' # died
        <3>1. pc' = pc /\ stream' = stream /\ UNCHANGED renderVars
            BY <1>7, <2>1 DEF ThreadAttach, NullCall, Goto, streamVars
        <3> QED
            BY <1>1, <3>1
    <2>2. CASE died' = died
        BY <1>3, <1>7, <2>2 DEF ThreadAttach, Alive, NullCall, Goto, renderVars, streamVars, TextInv
    <2> QED
        BY <2>1, <2>2
<1>8. ASSUME NEW n \in 0 .. Len(Images), GetAssemblies(n) PROVE TextInv'
    <2>1. pc = "assemblies" /\ pc' = "headers" /\ i' = 1 /\ j' = 1 /\ stream' = "none"
        BY <1>3, <1>8 DEF GetAssemblies, Goto, streamVars
    <2>2. imageOutput' = <<>> /\ outPuts' = <<>>
        BY <1>8, <2>1 DEF GetAssemblies, TextInv
    <2>3. snapshot' = SubSeq(Images, 1, n) /\ Images \in Seq(Nat)
        BY <1>8, DumpAssumption DEF GetAssemblies
    <2>4. Len(snapshot') \in Nat
        BY <2>3
    <2>5. i' \in 1 .. Len(snapshot') + 1 /\ HeadersDone(imageOutput', i' - 1)
        BY <2>1, <2>2, <2>4 DEF HeadersDone
    <2> QED
        BY <2>1, <2>2, <2>5 DEF TextInv
<1>9. CASE ImageHeader
    <2>1. /\ pc = "headers" /\ pc' = "headers" /\ stream' = "none" /\ i <= Len(snapshot)
          /\ imageOutput' = Append(imageOutput, <<"image", i, 0>>) /\ i' = i + 1
          /\ snapshot' = snapshot /\ j' = j /\ outPuts' = outPuts
        BY <1>3, <1>9 DEF ImageHeader, MoreHeaders, Goto, streamVars
    <2>2. j = 1 /\ i \in 1 .. Len(snapshot) + 1 /\ HeadersDone(imageOutput, i - 1) /\ outPuts = <<>>
        BY <2>1 DEF TextInv
    <2>3. i - 1 \in Nat /\ (i - 1) + 1 = i /\ i' - 1 = i /\ i' \in 1 .. Len(snapshot) + 1
        BY <1>2, <2>1, <2>2
    <2>4. HeadersDone(imageOutput', i' - 1)
        <3>1. HeadersDone(Append(imageOutput, <<"image", (i - 1) + 1, 0>>), (i - 1) + 1)
            BY <1>2, <2>2, <2>3, HeaderOne, Zenon
        <3> QED
            BY <2>1, <2>3, <3>1
    <2> QED
        BY <2>1, <2>2, <2>3, <2>4 DEF TextInv
<1>10. CASE ChoosePath
    <2>1. /\ pc = "headers" /\ pc' \in {"classes", "lookup"} /\ stream' = "none" /\ i > Len(snapshot)
          /\ imageOutput' = imageOutput /\ i' = 1
          /\ snapshot' = snapshot /\ j' = j /\ outPuts' = outPuts
        BY <1>2, <1>3, <1>10 DEF ChoosePath, MoreHeaders, Goto, streamVars
    <2>2. j = 1 /\ i \in 1 .. Len(snapshot) + 1 /\ HeadersDone(imageOutput, i - 1) /\ outPuts = <<>>
        BY <2>1 DEF TextInv
    <2>3. i - 1 = Len(snapshot) /\ i' \in 1 .. Len(snapshot) + 1
        BY <1>2, <2>1, <2>2
    <2>4. ClassesDone(outPuts', snapshot', i', j')
        BY <1>2, <2>1, <2>2, RenderNone
    <2>5. HeadersDone(imageOutput', Len(snapshot'))
        BY <2>1, <2>2, <2>3
    <2>6. j' >= 1 /\ j' = 1
        BY <2>1, <2>2
    <2> QED
        BY <2>1, <2>2, <2>3, <2>4, <2>5, <2>6 DEF TextInv
<1>11. CASE LookupReflection
    <2>1. CASE NullCall("reflection")
        BY <1>1, <2>1 DEF NullCall, streamVars
    <2>2. CASE ~NullCall("reflection")
        <3>1. /\ pc = "lookup" /\ pc' \in {"returned", "load"} /\ stream' = "none"
              /\ imageOutput' = imageOutput /\ i' = i /\ snapshot' = snapshot /\ j' = j
              /\ outPuts' = outPuts
            BY <1>3, <1>11, <2>2 DEF LookupReflection, Goto, renderVars, streamVars
        <3>2. j = 1 /\ i = 1 /\ HeadersDone(imageOutput, Len(snapshot)) /\ outPuts = <<>>
            BY <3>1 DEF TextInv
        <3>3. ClassesDone(outPuts', snapshot', i', j')
            BY <1>2, <3>1, <3>2, RenderNone
        <3>4. i' \in 1 .. Len(snapshot') + 1 /\ j' >= 1
            BY <1>2, <3>1, <3>2
        <3> QED
            BY <3>1, <3>2, <3>3, <3>4 DEF TextInv
    <2> QED
        BY <2>1, <2>2
<1>12. ASSUME NEW b \in BOOLEAN, LoadAssembly(b) PROVE TextInv'
    <2>1. pc = "load" /\ pc' \in {"load", "types"} /\ stream' = "none" /\ UNCHANGED renderVars
        BY <1>3, <1>12 DEF LoadAssembly, Goto, streamVars
    <2> QED
        BY <2>1 DEF TextInv, renderVars
<1>13. CASE RenderClass
    <2>1. CASE died' # died
        BY <1>1, <1>13, <2>1 DEF RenderClass, Goto, renderVars, streamVars
    <2>2. CASE died' = died
        <3>1. /\ pc \in {"classes", "types"} /\ pc' = pc /\ stream' = "none" /\ i <= Len(snapshot)
              /\ j <= snapshot[i]
              /\ outPuts' = Append(outPuts, <<"class", i, j>>) /\ j' = j + 1
              /\ snapshot' = snapshot /\ i' = i /\ imageOutput' = imageOutput
            BY <1>3, <1>13, <2>2 DEF RenderClass, InClasses, Alive, Goto, streamVars
        <3>2. /\ i \in 1 .. Len(snapshot) + 1 /\ j >= 1
              /\ HeadersDone(imageOutput, Len(snapshot)) /\ ClassesDone(outPuts, snapshot, i, j)
            BY <3>1 DEF TextInv
        <3>3. i \in 1 .. Len(snapshot) /\ snapshot[i] \in Nat
            BY <1>2, <3>1, <3>2
        <3>4. j \in 1 .. snapshot[i] /\ j + 1 >= 1
            BY <1>2, <3>1, <3>2, <3>3
        <3>5. ClassesDone(outPuts', snapshot', i', j')
            BY <1>2, <3>1, <3>2, <3>3, <3>4, RenderOne
        <3> QED
            BY <3>1, <3>2, <3>4, <3>5 DEF TextInv
    <2> QED
        BY <2>1, <2>2
<1>14. CASE NextImage
    <2>1. /\ pc \in {"classes", "types"} /\ pc' \in {"classes", "load"} /\ stream' = "none"
          /\ i <= Len(snapshot) /\ j > snapshot[i] /\ i' = i + 1 /\ j' = 1
          /\ snapshot' = snapshot /\ imageOutput' = imageOutput /\ outPuts' = outPuts
        BY <1>3, <1>14 DEF NextImage, InClasses, FirstClass, Goto, streamVars
    <2>2. /\ i \in 1 .. Len(snapshot) + 1
          /\ HeadersDone(imageOutput, Len(snapshot)) /\ ClassesDone(outPuts, snapshot, i, j)
        BY <2>1 DEF TextInv
    <2>3. i \in 1 .. Len(snapshot) /\ i' \in 1 .. Len(snapshot) + 1 /\ j' >= 1
        BY <1>2, <2>1, <2>2
    <2>4. ClassesDone(outPuts', snapshot', i', j')
        BY <1>2, <2>1, <2>2, <2>3, RenderNext
    <2> QED
        BY <2>1, <2>2, <2>3, <2>4 DEF TextInv
<1>15. ASSUME NEW b \in BOOLEAN, OpenFile(b) PROVE TextInv'
    <2>1. /\ pc \in {"classes", "load"} /\ pc' = "write" /\ i > Len(snapshot)
          /\ snapshot' = snapshot /\ imageOutput' = imageOutput /\ outPuts' = outPuts
        BY <1>15 DEF OpenFile, Rendered, Goto
    <2>2. AllDone'
        BY <2>1, RenderedIsAll DEF AllDone
    <2> QED
        BY <2>1, <2>2 DEF TextInv
<1>16. CASE WriteChunk \/ CloseFile \/ \E b \in BOOLEAN : Flush(b)
    <2>1. /\ pc = "write" /\ pc' \in {"write", "returned"}
          /\ snapshot' = snapshot /\ imageOutput' = imageOutput /\ outPuts' = outPuts
        BY <1>16 DEF WriteChunk, CloseFile, Flush, Goto, renderVars, IndInv, StreamInv
    <2> QED
        BY <2>1 DEF TextInv, AllDone
<1> QED
    BY <1>4, <1>5, <1>6, <1>7, <1>8, <1>9, <1>10, <1>11, <1>12, <1>13, <1>14, <1>15, <1>16
    DEF Next, DumpStep

(* A stream just opened has an empty file.                                 *)
LEMMA FileInit == Init => FileInv
BY DEF Init, FileInv

(* Every step keeps the file a beginning of the text.                      *)
LEMMA TextOnFile == ASSUME IndInv, FileInv, [Next]_vars PROVE FileInv'
<1> DEFINE out == imageOutput \o outPuts
<1>1. ASSUME file' = file, stream' = stream, imageOutput' = imageOutput, outPuts' = outPuts
      PROVE  FileInv'
    BY <1>1 DEF FileInv
<1>2. ASSUME stream' \notin {"good", "closed"} PROVE FileInv'
    BY <1>2 DEF FileInv
<1>3. CASE Restart
    BY <1>2, <1>3 DEF Restart
<1>4. ASSUME NEW b \in BOOLEAN, OpenFile(b) PROVE FileInv'
    BY <1>4 DEF OpenFile, FileInv
<1>5. ASSUME NEW b \in BOOLEAN, Flush(b) PROVE FileInv'
    <2>1. CASE ~b
        BY <1>2, <1>5, <2>1 DEF Flush
    <2>2. CASE b
        <3>1. /\ stream = "good" /\ pending # <<>> /\ imageOutput' = imageOutput
              /\ outPuts' = outPuts /\ file' = <<Append(file[1], Head(pending))>> /\ stream' = "good"
            BY <1>5, <2>2 DEF Flush, renderVars
        <3>2. /\ file[1] \in Seq(Chunk) /\ pending \in Seq(Chunk) /\ out \in Seq(Chunk)
              /\ i \in Nat /\ Written(file[1], pending, out, i)
            BY <3>1, Streaming
        <3>3. \A k \in 1 .. Len(file[1]) : file[1][k] = out[k]
            BY <3>1 DEF FileInv
        <3>4. out' = out
            BY <3>1
        <3> HIDE DEF out
        <3>5. Head(pending) = out[Len(file[1]) + 1] /\ Head(pending) \in Chunk
            BY <3>1, <3>2, FlushedOne, HeadTail
        <3>6. \A k \in 1 .. Len(Append(file[1], Head(pending))) : Append(file[1], Head(pending))[k] = out[k]
            BY <3>2, <3>3, <3>5
        <3>7. Len(file') = 1 /\ file'[1] = Append(file[1], Head(pending))
            BY <3>1
        <3>8. Len(file') = 1 /\ \A k \in 1 .. Len(file'[1]) : file'[1][k] = out'[k]
            BY <3>4, <3>6, <3>7
        <3> QED
            BY <3>1, <3>8 DEF FileInv, out
    <2> QED
        BY <2>1, <2>2
<1>6. CASE CloseFile
    <2>1. CASE stream = "good"
        <3>1. /\ stream' = "closed" /\ file' = file /\ imageOutput' = imageOutput
              /\ outPuts' = outPuts /\ i > Len(out) /\ pending = <<>>
            BY <1>6, <2>1 DEF CloseFile, Output, renderVars
        <3>2. /\ file[1] \in Seq(Chunk) /\ out \in Seq(Chunk) /\ i \in Nat
              /\ Written(file[1], pending, out, i)
            BY <2>1, Streaming
        <3>3. Len(file) = 1 /\ \A k \in 1 .. Len(file[1]) : file[1][k] = out[k]
            BY <2>1 DEF FileInv
        <3>4. out' = out
            BY <3>1
        <3> HIDE DEF out
        <3>5. Len(file[1]) = Len(out)
            BY <3>1, <3>2 DEF Written
        <3>6. Len(file') = 1 /\ (\A k \in 1 .. Len(file'[1]) : file'[1][k] = out'[k])
              /\ Len(file'[1]) = Len(out')
            BY <3>1, <3>3, <3>4, <3>5
        <3> QED
            BY <3>6 DEF FileInv, out
    <2>2. CASE stream # "good"
        BY <1>1, <1>6, <2>2 DEF CloseFile, renderVars
    <2> QED
        BY <2>1, <2>2
<1>7. CASE \/ InitRuntime \/ init_il2cpp_api \/ CheckApi
           \/ \E b \in BOOLEAN : ThreadAttach(b) \/ LoadAssembly(b)
           \/ LookupReflection \/ ClassCountMissing \/ WriteChunk
    BY <1>7, <1>1 DEF InitRuntime, init_il2cpp_api, CheckApi, ThreadAttach, LoadAssembly,
       LookupReflection, ClassCountMissing, WriteChunk, NullCall, renderVars, streamVars
<1>8. CASE \/ \E n \in 0 .. Len(Images) : GetAssemblies(n)
           \/ ImageHeader \/ ChoosePath \/ RenderClass \/ NextImage
    BY <1>8, <1>2 DEF GetAssemblies, ImageHeader, ChoosePath, RenderClass, InClasses,
       NextImage, streamVars, IndInv, StreamInv
<1>9. CASE UNCHANGED vars
    BY <1>9, <1>1 DEF vars, renderVars, streamVars
<1> QED
    BY <1>3, <1>4, <1>5, <1>6, <1>7, <1>8, <1>9 DEF Next, DumpStep

(* The three invariants together.                                          *)
LEMMA TextInductive == Spec => [](IndInv /\ TextInv /\ FileInv)
<1>1. Init => IndInv /\ TextInv /\ FileInv
    BY InitInv, TextInit, FileInit
<1>2. IndInv /\ TextInv /\ FileInv /\ [Next]_vars => (TextInv /\ FileInv)'
    BY TextStep, TextOnFile
<1> QED
    BY Inductive, <1>1, <1>2, PTL DEF Spec

(* Two sequences that agree on length and elements are the same dump.      *)
LEMMA SameDump ==
    ASSUME NEW S, NEW a \in Seq(S), NEW b \in Seq(S), NEW n, IsDumpOf(b, n), Len(a) = Len(b),
           \A k \in 1 .. Len(a) : a[k] = b[k]
    PROVE  IsDumpOf(a, n)
<1>1. a = b
    OBVIOUS
<1> QED
    BY <1>1

(* il2cpp_dump closes outStream without an error only when dump.cs has     *)
(* every image line and every class of the assembly list it was given,     *)
(* each once and in order: for every list of images, on both ways to       *)
(* enumerate classes, whenever the buffer is flushed or the game killed.   *)
THEOREM ClosedIsComplete == Spec => []ClosedMeansComplete
<1>1. ASSUME IndInv, TextInv, FileInv PROVE ClosedMeansComplete
    <2> SUFFICES ASSUME stream = "closed"
                 PROVE  Len(file) = 1 /\ IsDumpOf(file[1], Len(snapshot))
        BY DEF ClosedMeansComplete
    <2> DEFINE out == imageOutput \o outPuts  n == Len(snapshot)
    <2>1. /\ Len(file) = 1 /\ Len(file[1]) = Len(out)
          /\ \A k \in 1 .. Len(file[1]) : file[1][k] = out[k]
        BY <1>1 DEF FileInv
    <2>2. AllDone
        BY <1>1 DEF TextInv
    <2>3. IsDumpOf(out, n)
        BY <1>1, <2>2, AllIsDump
    <2>4. file[1] \in Seq(Chunk)
        BY <1>1, <2>1, OnlyElement DEF IndInv, TypeOK, FileType
    <2>5. out \in Seq(Chunk)
        BY <1>1 DEF IndInv, TypeOK, RenderType
    <2> HIDE DEF out, n
    <2>6. IsDumpOf(file[1], n)
        BY <2>1, <2>3, <2>4, <2>5, SameDump
    <2> QED
        BY <2>1, <2>6 DEF n
<1> QED
    BY TextInductive, <1>1, PTL

(* dump.cs is touched only when the whole dump of the assembly list is in  *)
(* memory: an early return, a crash or a kill before that leaves the dump  *)
(* of an earlier run as it was.                                            *)
THEOREM OldDumpIsSafe == Spec => OldDumpSurvives
<1>1. ASSUME IndInv, TextInv, [Next]_vars
      PROVE  [file' # file => IsDumpOf(imageOutput \o outPuts, Len(snapshot))]_vars
    <2> SUFFICES ASSUME file' # file PROVE AllDone
        BY <1>1, AllIsDump
    <2>1. ASSUME NEW b \in BOOLEAN, OpenFile(b) PROVE AllDone
        BY <1>1, <2>1, RenderedIsAll DEF OpenFile, Rendered
    <2>2. ASSUME NEW b \in BOOLEAN, Flush(b) PROVE AllDone
        BY <1>1, <2>2 DEF Flush, TextInv
    <2> QED
        BY <1>1, <2>1, <2>2 DEF Next, DumpStep, InitRuntime, Restart, init_il2cpp_api, CheckApi,
           ThreadAttach, GetAssemblies, ImageHeader, ChoosePath, LookupReflection, LoadAssembly,
           RenderClass, ClassCountMissing, NextImage, WriteChunk, CloseFile, NullCall, vars
<1>2. IndInv /\ TextInv /\ FileInv /\ [Next]_vars
         => [file' # file => IsDumpOf(imageOutput \o outPuts, Len(snapshot))]_vars
    BY <1>1
<1> QED
    BY TextInductive, <1>2, PTL DEF Spec, OldDumpSurvives
=============================================================================
