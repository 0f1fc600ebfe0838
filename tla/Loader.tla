------------------------------- MODULE Loader -------------------------------
(***************************************************************************)
(* loadElf: what a program header puts into the page table.  A header is a *)
(* record of its vaddr, its offset in the file, filesz and memsz, counted  *)
(* in cells; all are of type PT_LOAD.                                      *)
(***************************************************************************)
EXTENDS PageTable

CONSTANT FILE           \* the cells of the ELF file, which goes on after what
                        \* a header describes

v_align(p) == p.vaddr % PAGESIZE
f_align(p) == p.filesz + (PAGESIZE - ((p.filesz + p.vaddr) % PAGESIZE))

\* A mutant: the copy starts with the segment's page.
CopyFirstAligned(p) == p.vaddr - v_align(p)

CopyFirst(p) == p.vaddr
CopyLast(p)  == p.vaddr + p.filesz + v_align(p) - 1

\* The loop over the file's cells.
CopyFile(t, p) ==
    PutAll(t, CopyFirst(p), CopyLast(p),
           [a \in CopyFirst(p) .. CopyLast(p) |-> FILE[p.off + (a - CopyFirst(p))]])

\* A mutant: .bss is mapped from a page too far on.
BssStartNext(p) == p.vaddr + f_align(p) + PAGESIZE

BssStart(p) == p.vaddr + f_align(p)

\* The loop that maps .bss.
MapBss(t, p) ==
    IF p.memsz > p.filesz
    THEN TouchAll(t, PageOf(BssStart(p)), PageOf(BssStart(p) + (p.memsz - p.filesz) - 1))
    ELSE t

\* The pages a segment is loaded into.
SegmentPages(p) ==
    (PageOf(CopyFirst(p)) .. PageOf(CopyLast(p)))
    \cup (IF p.memsz > p.filesz
          THEN PageOf(BssStart(p)) .. PageOf(BssStart(p) + (p.memsz - p.filesz) - 1)
          ELSE {})

LoadSegment(t, p) == MapBss(CopyFile(t, p), p)
=============================================================================
