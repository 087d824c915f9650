------------------------------ MODULE ClassText ------------------------------
(***************************************************************************)
(* What dump_type has to write of a class: its members one after the       *)
(* other, as they are declared.  Text only grows, number bases are said    *)
(* where the number is, a comma stands between two parameters, and whether *)
(* a type is by reference is known.                                        *)
(***************************************************************************)
EXTENDS CSharp

CONSTANT Space      \* number of values of an address

VARIABLES
    base,           \* address the RVAs count from
    class,          \* the class: its header and the members it may have
    members,        \* the members written so far
    place,          \* the part of the class that is being written
    item,           \* next base class or parameter, 0 outside of the two lists
    text

vars == <<base, class, members, place, item, text>>

NoMembers == [field |-> <<>>, property |-> <<>>, method |-> <<>>]
Init == place = "type" /\ item = 0 /\ members = NoMembers /\ text = <<>>

Write(t) == text' = text \o t
Go(from, to) == place = from /\ place' = to

-----------------------------------------------------------------------------
Number(b, n) == <<<<b, n>>>>

(* The value of an enum constant; below zero, its bytes as an unsigned     *)
(* number.                                                                 *)
Constant(f) == IF f.value >= 0 THEN f.value ELSE f.value + f.size

DeclaredField(f) ==
    Words(<<"tab">>) \o FieldModifier(f) \o Words(<<"Type", "name">>)
    \o (IF "LITERAL" \in f.bits /\ class.header.enum
        THEN Words(<<"equals">>) \o Number("dec", Constant(f)) ELSE <<>>)
    \o Words(<<"offset">>) \o Number("hex", f.offset) \o <<NL>>

(* A method up to the opening parenthesis.                                 *)
DeclaredMethod(m) ==
    (IF m.ptr = 0 THEN Words(<<"RVA", "VA", "0">>)
     ELSE Words(<<"RVA">>) \o Number("hex", (m.ptr - base) % Space)
          \o Words(<<"VA">>) \o Number("hex", m.ptr))
    \o Words(<<"newline", "tab">>) \o get_method_modifier(m)
    \o Words(Word1(m.ret.byref, "ref") \o <<"Type", "name", "lparen">>)

PassedBy(p) ==
    CASE p.byref /\ p.bits = {"IN"} -> <<"in">>
      [] p.byref /\ p.bits = {"OUT"} -> <<"out">>
      [] p.byref /\ p.bits \notin {{"IN"}, {"OUT"}} -> <<"ref">>
      [] ~p.byref -> Word1("IN" \in p.bits, "In") \o Word1("OUT" \in p.bits, "Out")
DeclaredParam(p) == Words(PassedBy(p) \o <<"Type", "name">>)

-----------------------------------------------------------------------------
Header ==
    /\ Go("type", "bases") /\ item' = 1
    /\ Write(NameLine(class.header))
    /\ UNCHANGED <<base, class, members>>

Base ==
    /\ place = "bases" /\ item <= Len(Extends(class.header))
    /\ Write(BaseText(class.header, item))
    /\ item' = item + 1
    /\ UNCHANGED <<base, class, members, place>>

Body ==
    /\ Go("bases", "field") /\ item > Len(Extends(class.header)) /\ item' = 0
    /\ Write(BodyBegin \o Title("Fields"))
    /\ UNCHANGED <<base, class, members>>

Member(kind, m, t) ==
    /\ place = kind /\ item = 0
    /\ members' = [members EXCEPT ![kind] = Append(@, m)]
    /\ Write(t)
    /\ UNCHANGED <<base, class, place>>

Field(f) == Member("field", f, DeclaredField(f)) /\ item' = 0
Property(p) == Member("property", p, PropertyText(p)) /\ item' = 0
Method(m) == Member("method", m, DeclaredMethod(m)) /\ item' = 1

params == members.method[Len(members.method)].params

Parameter ==
    /\ place = "method" /\ item > 0 /\ item <= Len(params)
    /\ Write((IF item = 1 THEN <<>> ELSE Comma) \o DeclaredParam(params[item]))
    /\ item' = item + 1
    /\ UNCHANGED <<base, class, members, place>>

MethodDone ==
    /\ place = "method" /\ item > 0 /\ item > Len(params) /\ item' = 0
    /\ Write(MethodEnd)
    /\ UNCHANGED <<base, class, members, place>>

Section(from, to, t) ==
    /\ Go(from, to) /\ item = 0
    /\ Write(t)
    /\ UNCHANGED <<base, class, members, item>>

Next ==
    \/ Header \/ Base \/ Body
    \/ \E f \in class.fields : Field(f)
    \/ \E p \in class.properties : Property(p)
    \/ \E m \in class.methods : Method(m)
    \/ Parameter \/ MethodDone
    \/ Section("field", "property", Title("Properties"))
    \/ Section("property", "method", Title("Methods"))
    \/ Section("method", "done", BodyEnd)

Spec == Init /\ [][Next]_vars
=============================================================================
