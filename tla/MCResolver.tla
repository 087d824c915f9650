----------------------------- MODULE MCResolver -----------------------------
(* Instances of Resolver for TLC: a linker with a symbol table, prelinked  *)
(* and with a program header segment; a stripped library; a library that   *)
(* only imports the symbol; a deleted file; an APK with a library in it.   *)
EXTENDS Resolver

P(type, vaddr, offset, size) == [type |-> type, vaddr |-> vaddr, offset |-> offset, size |-> size]
S(name, value) == [name |-> name, value |-> value]
F(opens, elf, phdrs, symtab, dynsym) ==
    [opens |-> opens, elf |-> elf, phoff |-> 1, phdrs |-> phdrs, symtab |-> symtab, dynsym |-> dynsym]

SomeFiles ==
    [linker |-> F(TRUE, TRUE, <<P("PHDR", 101, 1, 2), P("LOAD", 100, 0, 20), P("LOAD", 140, 20, 20)>>,
                  <<S("do_dlopen", 145)>>, <<S("dlopen", 112)>>),
     libdl |-> F(TRUE, TRUE, <<P("DYNAMIC", 12, 12, 2), P("LOAD", 30, 0, 10), P("LOAD", 50, 10, 10)>>,
                 <<>>, <<S("do_dlopen", 0), S("dlopen", 55)>>),
     libgame |-> F(TRUE, TRUE, <<P("LOAD", 0, 0, 10), P("LOAD", 30, 10, 10)>>,
                   <<S("helper", 5)>>, <<S("do_dlopen", 0), S("helper", 5)>>),
     deleted |-> F(FALSE, TRUE, <<P("LOAD", 0, 0, 10)>>, <<>>, <<S("do_dlopen", 3)>>),
     apk |-> F(TRUE, FALSE, <<>>, <<>>, <<>>)]

L(file, start, perm, offset, magic) ==
    [file |-> file, start |-> start, perm |-> perm, offset |-> offset, magic |-> magic, named |-> TRUE]

Linker(a, perm) == {L("linker", a, perm, 0, TRUE), L("linker", a + 40, "r-xp", 20, FALSE),
                    L("linker", a + 60, "rw-p", 40, FALSE)}
Libdl(a) == {L("libdl", a, "r--p", 0, TRUE), L("libdl", a + 20, "r-xp", 10, FALSE)}
Libgame(a) == {L("libgame", a, "r-xp", 0, TRUE), L("libgame", a + 30, "rw-p", 10, FALSE)}

SomeLayouts == {
    Libgame(1000) \cup Libdl(2000) \cup Linker(7000, "r--p"),
    {L("deleted", 500, "r-xp", 0, TRUE)} \cup Linker(800, "r-xp") \cup Libdl(2000),
    {L("apk", 300, "r--p", 0, FALSE), L("apk", 400, "r-xp", 64, TRUE)} \cup Linker(7000, "r--p"),
    Libdl(600) \cup Libgame(900) }

SomeSymbols == {"do_dlopen", "dlopen", "helper", "malloc"}
SomeExported == [s \in SomeSymbols |-> IF s = "malloc" THEN 5000 ELSE 0]
SomeMatches == {<<"libdl.so", "libdl">>, <<"linker", "linker">>}
=============================================================================
