----------------------------- MODULE MCEmulator -----------------------------
(***************************************************************************)
(* An instance of Emulator for TLC.  Pages of four cells: text in page 1,  *)
(* data from page 3 on, heap in page 7, the stack's first page is page 8.  *)
(***************************************************************************)
EXTENDS Emulator

mcPages == 0 .. 9
mcHash  == [n \in mcPages |-> n % 2]
mcFile  == [o \in 0 .. 15 |-> o + 1]

Segment(vaddr, off, filesz, memsz) ==
    [vaddr |-> vaddr, off |-> off, filesz |-> filesz, memsz |-> memsz]

\* Data that starts with a page or within one, ends with one or not, with a
\* .bss of its own page or without.
mcElfs == {<<Segment(4, 0, 3, 3), Segment(x[1], 3, x[2], x[2] + x[3])>> :
              x \in {<<12, 4, 6>>, <<12, 3, 6>>, <<13, 2, 6>>, <<13, 3, 6>>, <<12, 4, 0>>}}

o(name, n) == [opt |-> name, arg |-> n]

Cache(a, b, c, delay) == <<o("A", a), o("B", b), o("C", c), o("d", delay)>>

Run  == <<o("i", 1), o("c", 1)>>

mcArgvs == {Run, <<o("i", 1), o("o", 1)>>,
            Run \o Cache(1, 1, 2, 1), Run \o Cache(1, 2, 4, 1), Run \o Cache(2, 1, 4, 1),
            Run \o Cache(1, 1, 3, 1), Run \o Cache(2, 1, 1, 1), Run \o Cache(1, 1, 2, 0),
            Run \o Cache(0, 1, 2, 1), Run \o Cache(1, 3, 3, 1),
            Cache(0, 1, 2, 1) \o <<o("i", 1), o("c", 0)>>,
            Run \o <<o("o", 0)>> \o Cache(1, 1, 2, 1),
            <<o("c", 0), o("i", 1)>>, <<o("c", 1)>>, <<o("h", 1)>>}
=============================================================================
