------------------------------- MODULE CSharp -------------------------------
(***************************************************************************)
(* The words il2cpp_dump.cpp prints for the flags of types and members.    *)
(*                                                                         *)
(* Text is a sequence of tokens: fixed words, each with the blank behind   *)
(* it, names of classes, and numbers with the base they are printed in.    *)
(* The names of a member and of its type are fixed words.  Only where a    *)
(* text is overwritten is each character a token: in ", " and ") { }\n".   *)
(***************************************************************************)
EXTENDS Integers, Sequences

Lit(w) == <<"lit", w>>
Name(n) == <<"name", n>>
Words(ws) == [k \in 1 .. Len(ws) |-> Lit(ws[k])]
Word1(b, w) == IF b THEN <<w>> ELSE <<>>

NL == Lit("newline")
Comma == Words(<<"comma", "blank">>)
MethodEnd == Words(<<"rparen", "blank", "lbrace", "blank", "rbrace", "newline">>)

-----------------------------------------------------------------------------
(* Members.                                                                *)

MemberAccess(access) ==
    CASE access = "PRIVATE" -> <<"private">>
      [] access = "PUBLIC" -> <<"public">>
      [] access = "FAMILY" -> <<"protected">>
      [] access \in {"ASSEM", "FAM_AND_ASSEM"} -> <<"internal">>
      [] access = "FAM_OR_ASSEM" -> <<"protected_internal">>
      [] OTHER -> <<>>

VirtualTestedFirst(bits) ==
    CASE "VIRTUAL" \in bits ->
           IF "NEW_SLOT" \in bits THEN <<"virtual">> ELSE <<"override">>
      [] "ABSTRACT" \in bits -> <<"abstract">> \o Word1("NEW_SLOT" \notin bits, "override")
      [] OTHER -> <<>>

(* The abstract / final / virtual chain of get_method_modifier.            *)
VirtualWords(bits) ==
    CASE "ABSTRACT" \in bits -> <<"abstract">> \o Word1("NEW_SLOT" \notin bits, "override")
      [] "ABSTRACT" \notin bits /\ "FINAL" \in bits ->
            Word1("NEW_SLOT" \notin bits, "sealed_override")
      [] {"ABSTRACT", "FINAL"} \cap bits = {} /\ "VIRTUAL" \in bits ->
            IF "NEW_SLOT" \in bits THEN <<"virtual">> ELSE <<"override">>
      [] OTHER -> <<>>

get_method_modifier(f) ==
    Words(MemberAccess(f.access) \o Word1("STATIC" \in f.bits, "static")
          \o VirtualWords(f.bits) \o Word1("PINVOKE_IMPL" \in f.bits, "extern"))

FieldModifier(f) ==
    Words(MemberAccess(f.access) \o
          (IF "LITERAL" \in f.bits THEN <<"const">>
           ELSE Word1("STATIC" \in f.bits, "static")
                \o Word1("INIT_ONLY" \in f.bits, "readonly")))

(* A property has neither accessor when both were stripped; then no line   *)
(* end is printed.                                                         *)
PropertyText(p) ==
    LET flags == IF p.get # <<>> THEN p.get ELSE p.set
    IN  Words(<<"tab">>) \o
        (IF flags # <<>>
         THEN get_method_modifier(flags[1])
              \o Words(<<"Type", "name", "lbrace">> \o Word1(p.get # <<>>, "get")
                       \o Word1(p.set # <<>>, "set") \o <<"rbrace", "newline">>)
         ELSE Words(Word1(p.named, "unknown_property")))

-----------------------------------------------------------------------------
(* Types.                                                                  *)

Visibility(v) ==
    CASE v \in {"PUBLIC", "NESTED_PUBLIC"} -> "public"
      [] v \in {"NOT_PUBLIC", "NESTED_FAM_AND_ASSEM", "NESTED_ASSEMBLY"} -> "internal"
      [] v = "NESTED_PRIVATE" -> "private"
      [] v = "NESTED_FAMILY" -> "protected"
      [] v = "NESTED_FAM_OR_ASSEM" -> "protected_internal"

SealedStruct(h) == "SEALED" \in h.bits
SealedClass(h) == ~h.valuetype /\ ~h.enum /\ "SEALED" \in h.bits

ClassModifier(h) ==
    IF {"ABSTRACT", "SEALED"} \subseteq h.bits THEN <<"static">>
    ELSE IF "INTERFACE" \notin h.bits /\ "ABSTRACT" \in h.bits THEN <<"abstract">>
    ELSE Word1(SealedClass(h), "sealed")

ClassKind(h) ==
    IF "INTERFACE" \in h.bits THEN "interface"
    ELSE IF h.enum THEN "enum" ELSE IF h.valuetype THEN "struct" ELSE "class"

(* The vector extends: the parent, unless it is none or Object, and the    *)
(* interfaces.                                                             *)
Extends(h) ==
    Word1(~h.valuetype /\ ~h.enum /\ h.parent \notin {"none", "Object"}, h.parent)
    \o h.interfaces

(* Everything up to the name of the class.                                 *)
NameLine(h) ==
    Words(<<"newline", "Namespace", "newline">>
          \o (IF "SERIALIZABLE" \in h.bits THEN <<"Serializable", "newline">> ELSE <<>>)
          \o <<Visibility(h.vis)>> \o ClassModifier(h) \o <<ClassKind(h), "Name">>)
BaseText(h, k) == (IF k = 1 THEN Words(<<"colon">>) ELSE Comma) \o <<Name(Extends(h)[k])>>
BodyBegin == Words(<<"newline", "lbrace">>)
BodyEnd == Words(<<"rbrace", "newline">>)

(* What dump_field, dump_property and dump_method begin with.              *)
Title(t) == Words(<<"newline", "tab", t, "newline">>)
=============================================================================
