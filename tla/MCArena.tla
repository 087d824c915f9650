------------------------------ MODULE MCArena ------------------------------
(* Instances of Arena for TLC: layouts in which the pages tried are, in    *)
(* turn, the lowest one in reach, tried twice while it is blank; the blank *)
(* one left of a region; a mapped one and the blank one right of it.       *)
EXTENDS Arena

Lib == Mapping("lib", "rx")
Heap == Mapping("heap", "rw")
Stack == Mapping("stack", "rw")

None == Unmapped
Layout(seq) == [p \in Pages |-> seq[p + 1]]

SomeLayouts == {
    Layout(<<None, None, None, Stack, Lib, Lib, Heap, Heap>>),
    Layout(<<None, Heap, None, None, Lib, Heap, None, None>>),
    Layout(<<None, Heap, Lib, None, None, Heap, Heap, Stack>>) }

(* Of a long chunk all but the first byte stay zero.                       *)
SomeFills(size) == {IF size > 3 THEN 1 ELSE size}

(* Every page ends in zero bytes.                                          *)
SomeContent == {a \in 0 .. NPages * PageSize - 1 : a % PageSize = 0}
=============================================================================
