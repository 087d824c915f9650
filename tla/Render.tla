------------------------------- MODULE Render -------------------------------
(***************************************************************************)
(* dump_type (il2cpp_dump.cpp): one class as C# text, base by base, member *)
(* by member and parameter by parameter.                                   *)
(*                                                                         *)
(* What the stringstreams do to the text is kept: the put pointer that     *)
(* dump_method moves back over the last ", ", and the number base that     *)
(* std::hex and std::dec leave behind.  Attribute flags are sets.          *)
(***************************************************************************)
EXTENDS CSharp, FiniteSets

CONSTANTS
    Classes,        \* class headers to render, each with the fields, properties and
                    \* methods it may have and a bound on the members of each kind
    Maps,           \* what reading /proc/self/maps may come to
    Word            \* number of values of an address (2^64)

VARIABLES
    arch,           \* "aarch64" or "other"
    maps,           \* /proc/self/maps: does fopen succeed, and the lines
    dladdrOk,       \* does dladdr succeed?
    byrefApi,       \* does il2cpp_type_is_byref exist?
    il2cpp_base,
    class,          \* the class being rendered
    members,        \* its members, in the order the iterators return them
    section,        \* the part that is being printed
    i,              \* next base or parameter, 0 outside of the two loops
    outPut,         \* text dump_type has so far
    stream          \* the stringstream of dump_field, dump_property or dump_method

vars == <<arch, maps, dladdrOk, byrefApi, il2cpp_base, class, members, section, i, outPut, stream>>
runVars == <<arch, maps, dladdrOk, byrefApi, il2cpp_base, class>>

header == class.header

-----------------------------------------------------------------------------
(* What the metadata of a game may hold.                                   *)

Headers ==
    [vis : {"PUBLIC", "NESTED_PUBLIC", "NOT_PUBLIC", "NESTED_FAM_AND_ASSEM", "NESTED_ASSEMBLY",
            "NESTED_PRIVATE", "NESTED_FAMILY", "NESTED_FAM_OR_ASSEM"},
     bits : SUBSET {"ABSTRACT", "SEALED", "INTERFACE", "SERIALIZABLE"},
     valuetype : BOOLEAN, enum : BOOLEAN, parent : STRING, interfaces : Seq(STRING)]

Accesses == {"COMPILER_CONTROLLED", "PRIVATE", "FAM_AND_ASSEM", "ASSEM", "FAMILY",
             "FAM_OR_ASSEM", "PUBLIC"}
MethodBits == SUBSET {"STATIC", "ABSTRACT", "FINAL", "VIRTUAL", "NEW_SLOT", "PINVOKE_IMPL"}
FieldBits == SUBSET {"LITERAL", "STATIC", "INIT_ONLY"}

MethodFlags == [access : Accesses, bits : MethodBits]
(* The type of a field has size values; the value of a constant is one of  *)
(* them, below zero if the type is signed.                                 *)
FieldRecords ==
    [access : Accesses, bits : FieldBits, value : Int, size : Nat \ {0}, offset : Nat]
Fields == {f \in FieldRecords : -f.size <= f.value /\ f.value < f.size}
Properties == [get : Seq(MethodFlags), set : Seq(MethodFlags), named : BOOLEAN]
Params == [byref : BOOLEAN, bit : BOOLEAN, bits : SUBSET {"IN", "OUT"}]
Methods ==
    [access : Accesses, bits : MethodBits, ptr : Nat,
     ret : [byref : BOOLEAN, bit : BOOLEAN], params : Seq(Params)]

(* A line of maps: where the mapping begins, whether it is one of          *)
(* libil2cpp.so, whether its path contains that name, and whether it can   *)
(* be executed.  A library mapped from an APK has lines without its name,  *)
(* and the name of another file may contain it.                            *)
Lines == [start : 1 .. Word - 1, il2cpp : BOOLEAN, named : BOOLEAN, exec : BOOLEAN]

(* The kernel prints the lines by address, and libil2cpp.so is loaded when *)
(* il2cpp_dump runs.                                                       *)
MapsOk(lines) ==
    /\ \A j, k \in 1 .. Len(lines) : j < k => lines[j].start < lines[k].start
    /\ \E k \in 1 .. Len(lines) : lines[k].il2cpp

ASSUME WordAssumption == Word \in Nat \ {0}
ASSUME MapsAssumption ==
    \A m \in Maps : /\ m.opens \in BOOLEAN
                    /\ m.lines \in Seq(Lines) /\ MapsOk(m.lines)
ASSUME ClassesAssumption ==
    \A c \in Classes : /\ c.header \in Headers /\ c.fields \subseteq Fields
                       /\ c.properties \subseteq Properties /\ c.methods \subseteq Methods

-----------------------------------------------------------------------------
(* std::stringstream                                                       *)

EmptyStream == [buf |-> <<>>, put |-> 0, base |-> "dec"]

(* operator<< overwrites from the put pointer on.                          *)
Put(s, t) ==
    [s EXCEPT !.buf = SubSeq(@, 1, s.put) \o t \o SubSeq(@, s.put + Len(t) + 1, Len(@)),
              !.put = @ + Len(t)]
PutNumber(s, n) == Put(s, <<<<s.base, n>>>>)
Base(s, b) == [s EXCEPT !.base = b]
SeekBack(s, n) == [s EXCEPT !.put = @ - n]

-----------------------------------------------------------------------------
(* get_module_base: the first line of maps that names libil2cpp.so, on     *)
(* aarch64 the first executable one; 0 if maps cannot be opened or there   *)
(* is none.                                                                *)

Matches(lines) ==
    {k \in 1 .. Len(lines) : lines[k].named /\ (arch = "aarch64" => lines[k].exec)}

LastMatch(m) ==
    LET hit == Matches(m.lines)
    IN  IF ~m.opens \/ hit = {} THEN 0
        ELSE m.lines[CHOOSE k \in hit : \A h \in hit : h <= k].start

get_module_base(m) ==
    LET hit == Matches(m.lines)
    IN  IF ~m.opens \/ hit = {} THEN 0
        ELSE m.lines[CHOOSE k \in hit : \A h \in hit : k <= h].start

(* Where the linker put libil2cpp.so, dladdr's dli_fbase.                  *)
LoadBase(m) ==
    LET hit == {k \in 1 .. Len(m.lines) : m.lines[k].il2cpp}
    IN  m.lines[CHOOSE k \in hit : \A h \in hit : m.lines[k].start <= m.lines[h].start].start

Init ==
    /\ arch \in {"aarch64", "other"} /\ maps \in Maps
    /\ dladdrOk \in BOOLEAN /\ byrefApi \in BOOLEAN
    /\ il2cpp_base = IF dladdrOk THEN LoadBase(maps) ELSE get_module_base(maps)
    /\ class \in Classes
    /\ members = [field |-> <<>>, property |-> <<>>, method |-> <<>>]
    /\ section = "type" /\ i = 0 /\ outPut = <<>> /\ stream = EmptyStream

-----------------------------------------------------------------------------
(* dump_type.                                                              *)

(* Everything before the list of bases.                                    *)
dump_type ==
    /\ section = "type"
    /\ outPut' = outPut \o NameLine(header)
    /\ section' = "bases" /\ i' = 1
    /\ UNCHANGED <<runVars, members, stream>>

(* The class and the interfaces it extends, one after the other.           *)
PrintBase ==
    /\ section = "bases" /\ i <= Len(Extends(header))
    /\ outPut' = outPut \o BaseText(header, i)
    /\ i' = i + 1
    /\ UNCHANGED <<runVars, members, section, stream>>

(* The body begins and dump_field is called.                               *)
BeginBody ==
    /\ section = "bases" /\ i > Len(Extends(header))
    /\ outPut' = outPut \o BodyBegin
    /\ section' = "field" /\ i' = 0
    /\ stream' = Put(EmptyStream, Title("Fields"))
    /\ UNCHANGED <<runVars, members>>

(* One round of a member loop; s is the stream it leaves.                  *)
Member(kind, m, s) ==
    /\ section = kind /\ i = 0 /\ Len(members[kind]) < class.most
    /\ members' = [members EXCEPT ![kind] = Append(@, m)]
    /\ stream' = s
    /\ UNCHANGED <<runVars, section, outPut>>

BaseKept(s) == s
EnumBase(s) == Base(s, "dec")

FieldHead(s, f) == Put(s, Words(<<"tab">>) \o FieldModifier(f) \o Words(<<"Type", "name">>))

(* il2cpp_field_static_get_value copies the bytes of the value into a      *)
(* uint64_t that is zero.                                                  *)
FieldValue(s, f) ==
    IF "LITERAL" \in f.bits /\ header.enum
    THEN PutNumber(EnumBase(Put(s, Words(<<"equals">>))), f.value % f.size) ELSE s
FieldOffset(s, f) ==
    Put(PutNumber(Base(Put(s, Words(<<"offset">>)), "hex"), f.offset), <<NL>>)

dump_field(f) ==
    /\ Member("field", f, FieldOffset(FieldValue(FieldHead(stream, f), f), f))
    /\ i' = i

dump_property(p) == Member("property", p, Put(stream, PropertyText(p))) /\ i' = i

-----------------------------------------------------------------------------
(* dump_method.                                                            *)

(* A type's byref bit has moved between Unity versions: the API is asked   *)
(* where it exists, and only older versions rely on the bit.               *)
ByrefIgnoringApi(t) == t.bit
ByrefOf(t) == IF byrefApi THEN t.byref ELSE t.bit

(* Before il2cpp_type_is_byref existed the bit was where this code reads.  *)
BitIsRight(t) == byrefApi \/ t.bit = t.byref
BitsAreRight(m) == BitIsRight(m.ret) /\ \A k \in DOMAIN m.params : BitIsRight(m.params[k])

Rva(ptr) == (ptr - il2cpp_base) % Word

Address(s, m) ==
    IF m.ptr # 0
    THEN PutNumber(Put(PutNumber(Base(Put(s, Words(<<"RVA">>)), "hex"), Rva(m.ptr)),
                       Words(<<"VA">>)),
                   m.ptr)
    ELSE Put(s, Words(<<"RVA", "VA", "0">>))

SignatureOnCommentLine(s, m) ==
    Put(s, get_method_modifier(m)
           \o Words(Word1(ByrefOf(m.ret), "ref") \o <<"Type", "name", "lparen">>))
Signature(s, m) ==
    Put(s, Words(<<"newline", "tab">>) \o get_method_modifier(m)
           \o Words(Word1(ByrefOf(m.ret), "ref") \o <<"Type", "name", "lparen">>))

(* A method up to its parameters.                                          *)
dump_method(m) ==
    /\ BitsAreRight(m)
    /\ Member("method", m, Signature(Address(stream, m), m))
    /\ i' = 1

params == members.method[Len(members.method)].params

ParamWords(p) ==
    CASE ByrefOf(p) /\ p.bits = {"OUT"} -> <<"out">>
      [] ByrefOf(p) /\ p.bits = {"IN"} -> <<"in">>
      [] ByrefOf(p) /\ p.bits \notin {{"OUT"}, {"IN"}} -> <<"ref">>
      [] ~ByrefOf(p) -> Word1("IN" \in p.bits, "In") \o Word1("OUT" \in p.bits, "Out")

ParamText(p) == Words(ParamWords(p) \o <<"Type", "name">>)

(* One round of the parameter loop.                                        *)
PrintParam ==
    /\ section = "method" /\ i > 0 /\ i <= Len(params)
    /\ stream' = Put(Put(stream, ParamText(params[i])), Comma)
    /\ i' = i + 1
    /\ UNCHANGED <<runVars, members, section, outPut>>

AlwaysSeeks(ps) == TRUE
DropsComma(ps) == Len(ps) > 0

(* The parameter loop is over: what is left of the method.                 *)
EndMethod ==
    /\ section = "method" /\ i > 0 /\ i > Len(params)
    /\ stream' = Put(IF DropsComma(params) THEN SeekBack(stream, 2) ELSE stream, MethodEnd)
    /\ i' = 0
    /\ UNCHANGED <<runVars, members, section, outPut>>

-----------------------------------------------------------------------------
(* An iterator returns null: the function's text is added to dump_type's   *)
(* and the next function begins.                                           *)
EndSection(from, to, text, s) ==
    /\ section = from /\ i = 0
    /\ outPut' = outPut \o text
    /\ stream' = s
    /\ section' = to
    /\ UNCHANGED <<runVars, members, i>>

EndFields == EndSection("field", "property", stream.buf, Put(EmptyStream, Title("Properties")))
EndProperties == EndSection("property", "method", stream.buf, Put(EmptyStream, Title("Methods")))
EndMethods == EndSection("method", "done", stream.buf \o BodyEnd, EmptyStream)

Next ==
    \/ dump_type \/ PrintBase \/ BeginBody
    \/ \E f \in class.fields : dump_field(f)
    \/ EndFields
    \/ \E p \in class.properties : dump_property(p)
    \/ EndProperties
    \/ \E m \in class.methods : dump_method(m)
    \/ PrintParam \/ EndMethod
    \/ EndMethods

Spec == Init /\ [][Next]_vars

-----------------------------------------------------------------------------
(* Properties.                                                             *)

(* The text as it will stay: in the parameter loop the last ", " is going  *)
(* to be overwritten.                                                      *)
Kept == IF section = "method" /\ i > 1 THEN SubSeq(stream.buf, 1, Len(stream.buf) - 2)
        ELSE stream.buf
Visible == outPut \o Kept

Text == INSTANCE ClassText
        WITH Space <- Word, base <- il2cpp_base, place <- section, item <- i, text <- Visible

(* dump_type writes what the metadata declares: the text only grows, every *)
(* member adds its own text to it, enum constants are decimal and offsets  *)
(* and addresses hexadecimal whatever base the number before left in the   *)
(* stream, moving the put pointer back by two after the loop is the same   *)
(* as joining the parameters with ", ", no parenthesis of a method without *)
(* parameters is lost, and by-reference words follow the declared types in *)
(* old and new Unity versions.  A constant below zero is the exception: it *)
(* is printed as the unsigned number of the same bytes.                    *)
RendersClass == Text!Spec

HasWord(t, w) == \E k \in DOMAIN t : t[k] = Lit(w)

(* ECMA-335 rules for the virtual flags of a method.                       *)
LegalMethod(bits) ==
    /\ {"FINAL", "ABSTRACT", "NEW_SLOT"} \cap bits # {} => "VIRTUAL" \in bits
    /\ ~({"FINAL", "ABSTRACT"} \subseteq bits) /\ ~({"STATIC", "VIRTUAL"} \subseteq bits)

(* The chain of get_method_modifier says exactly what a legal combination  *)
(* of virtual, abstract, final and newslot means in C#; an implicit        *)
(* interface implementation (final and newslot) gets no word.              *)
ModifiersFollowMetadata ==
    \A k \in DOMAIN members.method :
        LET bits == members.method[k].bits
            text == get_method_modifier(members.method[k])
        IN  LegalMethod(bits) =>
                /\ HasWord(text, "abstract") <=> "ABSTRACT" \in bits
                /\ HasWord(text, "sealed_override") <=> "FINAL" \in bits /\ "NEW_SLOT" \notin bits
                /\ HasWord(text, "virtual") <=> bits \cap {"VIRTUAL", "NEW_SLOT", "ABSTRACT", "FINAL"}
                                                   = {"VIRTUAL", "NEW_SLOT"}
                /\ HasWord(text, "override") <=> /\ {"VIRTUAL"} \subseteq bits
                                                  /\ bits \cap {"NEW_SLOT", "FINAL"} = {}

(* ECMA-335 rules for the flags of a type.                                 *)
LegalType(h) ==
    /\ "INTERFACE" \in h.bits => "ABSTRACT" \in h.bits /\ "SEALED" \notin h.bits
    /\ "INTERFACE" \in h.bits => ~h.valuetype /\ h.parent = "none"
    /\ h.enum => h.valuetype
    /\ h.valuetype => "SEALED" \in h.bits /\ "ABSTRACT" \notin h.bits

IsClass(h) == "INTERFACE" \notin h.bits /\ ~h.valuetype
DeclaredBases(h) ==
    Word1(IsClass(h) /\ h.parent \notin {"none", "Object"}, h.parent) \o h.interfaces

(* The text t ends with the names b: a colon, the names with commas        *)
(* between them, and the brace on the next line.                           *)
EndsWithBases(t, b) ==
    \E n \in 1 .. Len(t) :
        /\ t[n] = Lit("Name")
        /\ Len(t) = n + (IF b = <<>> THEN 0 ELSE 3 * Len(b) - 1) + 2
        /\ b # <<>> => t[n + 1] = Lit("colon")
        /\ \A k \in 1 .. Len(b) : t[n + 3 * k - 1] = Name(b[k])
        /\ \A k \in 2 .. Len(b) : t[n + 3 * k - 3] = Comma[1] /\ t[n + 3 * k - 2] = Comma[2]
        /\ t[Len(t) - 1] = NL /\ t[Len(t)] = Lit("lbrace")

(* Only classes carry static, abstract or sealed, and each by its flags;   *)
(* the base class comes first and is neither Object nor that of a value    *)
(* type, and the interfaces follow in their order.                         *)
HeaderIsCSharp ==
    section = "field" /\ LegalType(header) =>
        LET h == header
            class1 == IsClass(h)
        IN  /\ HasWord(outPut, "class") <=> class1
            /\ HasWord(outPut, "static") <=> class1 /\ {"ABSTRACT", "SEALED"} \subseteq h.bits
            /\ HasWord(outPut, "abstract") <=>
                   class1 /\ h.bits \cap {"ABSTRACT", "SEALED"} = {"ABSTRACT"}
            /\ HasWord(outPut, "sealed") <=>
                   class1 /\ h.bits \cap {"ABSTRACT", "SEALED"} = {"SEALED"}
            /\ EndsWithBases(outPut, DeclaredBases(h))

(* Words that begin a comment; it ends with the line.                      *)
Comments == {Lit(w) : w \in {"Namespace", "Fields", "Properties", "Methods", "offset", "RVA",
                             "unknown_property"}}
CommentOpen(t) ==
    \E j \in 1 .. Len(t) : t[j] \in Comments /\ \A n \in j .. Len(t) : t[n] # NL

(* A property with a name and without accessors, and none with accessors   *)
(* since.                                                                  *)
Stripped(p) == p.get = <<>> /\ p.set = <<>>
LeavesLineOpen(ps) ==
    \E j \in 1 .. Len(ps) : ps[j].named /\ \A n \in j .. Len(ps) : Stripped(ps[n])

(* What dump_type prints next, a base, a member, a parameter or a title,   *)
(* is never behind a comment on its line, with one exception: a property   *)
(* without accessors leaves its comment open, and the next property with   *)
(* accessors is commented out.  No field and no method is.                 *)
NoCommentLeftOpen ==
    CommentOpen(Visible) <=> section = "property" /\ LeavesLineOpen(members.property)

(* The line get_module_base stops at is where libil2cpp.so is loaded: maps *)
(* is read, the first line of the library has its name and, on aarch64, is *)
(* executable, and no line in front of it passes for it.                   *)
BaseFound ==
    /\ maps.opens
    /\ \E k \in 1 .. Len(maps.lines) :
          /\ maps.lines[k].il2cpp /\ maps.lines[k].start = LoadBase(maps)
          /\ maps.lines[k].named /\ (arch = "aarch64" => maps.lines[k].exec)
          /\ \A j \in 1 .. k - 1 :
                maps.lines[j].named => arch = "aarch64" /\ ~maps.lines[j].exec

(* The RVA printed of a method is its offset from where libil2cpp.so is    *)
(* loaded when dladdr succeeds or get_module_base finds the library's      *)
(* first line; when neither does, every RVA of the dump is wrong.          *)
RvaIsModuleOffset ==
    \A p \in 1 .. Word - 1 :
        (Rva(p) + LoadBase(maps)) % Word = p <=> dladdrOk \/ BaseFound
=============================================================================
