------------------------------ MODULE MCRender ------------------------------
(* Instances of Render for TLC.                                            *)
EXTENDS Render

Header1(vis, bits, vt, en, parent, itfs) ==
    [vis |-> vis, bits |-> bits, valuetype |-> vt, enum |-> en, parent |-> parent,
     interfaces |-> itfs]

(* Every visibility, and every combination of flags, kinds and bases.      *)
AllHeaders ==
    {Header1(v, {}, FALSE, FALSE, "none", <<>>) :
        v \in {"PUBLIC", "NESTED_PUBLIC", "NOT_PUBLIC", "NESTED_FAM_AND_ASSEM", "NESTED_ASSEMBLY",
               "NESTED_PRIVATE", "NESTED_FAMILY", "NESTED_FAM_OR_ASSEM"}}
    \cup {Header1("PUBLIC", b, vt, en, p, itfs) :
             b \in SUBSET {"ABSTRACT", "SEALED", "INTERFACE", "SERIALIZABLE"},
             vt \in BOOLEAN, en \in BOOLEAN, p \in {"none", "Object", "Base"},
             itfs \in {<<>>, <<"I1">>, <<"I1", "I2">>}}

(* A class and an enum.                                                    *)
TwoHeaders ==
    {Header1("PUBLIC", {}, FALSE, FALSE, "Base", <<>>),
     Header1("PUBLIC", {"SEALED"}, TRUE, TRUE, "Base", <<>>)}

OneHeader == {Header1("PUBLIC", {}, FALSE, FALSE, "Base", <<>>)}

Cases(headers, fields, properties, methods, most) ==
    {[header |-> h, fields |-> fields, properties |-> properties, methods |-> methods,
      most |-> most] : h \in headers}

Line(start, il2cpp, named, exec) ==
    [start |-> start, il2cpp |-> il2cpp, named |-> named, exec |-> exec]
File(opens, lines) == [opens |-> opens, lines |-> lines]
Loaded == <<Line(1, FALSE, FALSE, TRUE), Line(2, TRUE, TRUE, TRUE), Line(4, TRUE, TRUE, FALSE)>>

(* libil2cpp.so behind another library, with a first segment that can be   *)
(* executed and with one that cannot; mapped from an APK; behind a file    *)
(* whose name contains its own; and a file that cannot be opened.          *)
SomeMaps ==
    {File(TRUE, Loaded), File(FALSE, Loaded),
     File(TRUE, <<Line(1, FALSE, FALSE, TRUE), Line(2, TRUE, TRUE, FALSE), Line(4, TRUE, TRUE, TRUE)>>),
     File(TRUE, <<Line(1, FALSE, FALSE, TRUE), Line(2, TRUE, FALSE, TRUE), Line(4, TRUE, FALSE, FALSE)>>),
     File(TRUE, <<Line(1, FALSE, TRUE, FALSE), Line(2, TRUE, TRUE, TRUE)>>)}

SomeFields ==
    {[access |-> "PUBLIC", bits |-> {"LITERAL", "STATIC"}, value |-> v, size |-> 4, offset |-> 0] :
        v \in {-1, 2}}
    \cup {[access |-> "PRIVATE", bits |-> b, value |-> 0, size |-> 4, offset |-> 12] :
            b \in {{}, {"STATIC", "INIT_ONLY"}}}

Flags(a, b) == [access |-> a, bits |-> b]
SomeProperties ==
    {[get |-> g, set |-> s, named |-> TRUE] :
        g \in {<<>>, <<Flags("PUBLIC", {})>>}, s \in {<<>>, <<Flags("PRIVATE", {"STATIC"})>>}}
    \cup {[get |-> <<>>, set |-> <<>>, named |-> FALSE]}

Type(byref, bit) == [byref |-> byref, bit |-> bit]
Param(byref, bit, b) == [byref |-> byref, bit |-> bit, bits |-> b]
Method(ptr, a, b, ret, ps) == [ptr |-> ptr, access |-> a, bits |-> b, ret |-> ret, params |-> ps]
Val == Type(FALSE, FALSE)
OneMethod == {Method(3, "PUBLIC", {}, Val, <<>>)}
SomeMethods ==
    {Method(p, "PUBLIC", {}, Val, <<>>) : p \in {0, 1, 5}}
    \cup {Method(3, "PUBLIC", {}, Type(TRUE, bit), <<Param(TRUE, bit, b), Param(FALSE, FALSE, b)>>) :
             bit \in BOOLEAN, b \in SUBSET {"IN", "OUT"}}
    \cup {Method(3, "ASSEM", {}, Val, <<Param(TRUE, TRUE, {"OUT"})>>)}

(* Every combination of method flags.                                      *)
FlaggedMethods ==
    {Method(3, a, b, Val, <<>>) :
        a \in {"COMPILER_CONTROLLED", "PRIVATE", "FAM_AND_ASSEM", "ASSEM", "FAMILY",
               "FAM_OR_ASSEM", "PUBLIC"},
        b \in SUBSET {"STATIC", "ABSTRACT", "FINAL", "VIRTUAL", "NEW_SLOT", "PINVOKE_IMPL"}}

SomeClasses ==
    Cases(AllHeaders, {}, {}, {}, 0)
    \cup Cases(TwoHeaders, SomeFields, SomeProperties, OneMethod, 2)
    \cup Cases(OneHeader, {}, {}, SomeMethods, 2)
    \cup Cases(OneHeader, {}, {}, FlaggedMethods, 1)
=============================================================================
