------------------------------ MODULE Emulator ------------------------------
(***************************************************************************)
(* The run of the emulator around the pipeline: main of archsim.c, with    *)
(* the arguments, the set-up of the machine, the loader, the memory        *)
(* accesses of the guest, and the checkpoint printed during and after the  *)
(* run.  The machine is set up from arguments nobody has checked as a      *)
(* whole, and the checkpoint prints the page table, not what the guest     *)
(* sees: the cache lies between them.                                      *)
(*                                                                         *)
(* Addresses count cells of a word.  A miss is served in one step and may  *)
(* replace any line of its set; its cycles, and the choice of the line,    *)
(* are in module DataCache.                                                *)
(***************************************************************************)
EXTENDS Loader, Geometry, FiniteSets

CONSTANTS
    ARGVS,          \* the argument vectors, as sequences of options
    ELFS,           \* the program headers of the ELF files
    HEAP_SEG, STACK_SEG, KERNEL_SEG,    \* segments the loader does not move
    CHECKPOINT_ADDR,
    GUEST_ADDRS,    \* the addresses the guest accesses
    ACCESS_MAX      \* bound on the accesses of a run

\* The stack starts on top of a page, its first, that is in use.
ASSUME SegmentAssumption ==
    /\ HEAP_SEG \in Nat /\ STACK_SEG \in Nat /\ KERNEL_SEG \in Nat
    /\ HEAP_SEG < STACK_SEG /\ STACK_SEG <= KERNEL_SEG
    /\ CHECKPOINT_ADDR > KERNEL_SEG
    /\ IsFiniteSet(PAGES)
    /\ STACK_SEG % PAGESIZE = 0 /\ PageOf(STACK_SEG - PAGESIZE) \in PAGES
    /\ ACCESS_MAX \in Nat

OPTIONS == {"h", "i", "o", "c", "A", "B", "C", "d"}

\* The pages of the block of address a, if blocks have n cells.
BlockPages(a, n) == LET b == (a \div n) * n IN PageOf(b) .. PageOf(b + n - 1)

\* What the guest accesses is in pages in use, and so is the rest of its block.
ASSUME ArgumentAssumption ==
    /\ GUEST_ADDRS \subseteq Nat
    /\ \A v \in ARGVS :
          /\ v \in Seq([opt : OPTIONS, arg : Int])
          /\ \A i \in DOMAIN v : v[i].opt = "B" /\ PowerOfTwo(v[i].arg) =>
                \A a \in GUEST_ADDRS : PageOf(a) \in PAGES => BlockPages(a, v[i].arg) \subseteq PAGES

FilePart(p) == p.vaddr .. p.vaddr + p.filesz - 1

\* The segments are in pages in use, the file goes on as far as the loader copies,
\* and no two segments want the same cell.
ASSUME ElfAssumption ==
    \A e \in ELFS :
        /\ e \in Seq([vaddr : Nat, off : Nat, filesz : Nat, memsz : Nat]) /\ Len(e) >= 2
        /\ \A i \in DOMAIN e :
              /\ SegmentPages(e[i]) \subseteq PAGES
              /\ \A a \in CopyFirst(e[i]) .. CopyLast(e[i]) : FILE[e[i].off + (a - CopyFirst(e[i]))] \in Nat
              /\ \A j \in DOMAIN e \ {i} : FilePart(e[i]) \cap FilePart(e[j]) = {}

NULL_ADDR == 0
Addr      == UNION {n * PAGESIZE .. n * PAGESIZE + PAGESIZE - 1 : n \in PAGES}

VARIABLES
    argv,           \* the options, and how many have been read
    optind,
    config,         \* A, B, C, d, infile_name and checkpoint
    phase,          \* how far main has come
    outcome,        \* how the process has ended
    elf, loaded,    \* the program headers, and how many have been loaded
    table,          \* the page table
    data_seg,       \* seg_start_addr[DATA_SEG], once known
    lines,          \* the valid lines of guest.cache
    accesses,       \* accesses made so far
    report,         \* the cells the last checkpoint printed
    reports,        \* auxiliary: how many have been printed
    flat            \* auxiliary: memory as the guest should see it

command == <<argv, optind, config>>
memory  == <<table, lines, flat>>
printed == <<report, reports>>
vars    == <<command, phase, outcome, elf, loaded, data_seg, memory, accesses, printed>>

NoReport == [text |-> {}, data |-> {}, heap |-> {}, stack |-> {}]

\* What the file says memory is to hold: its cells, and zeros.
Image(e) ==
    [a \in Addr |->
        LET here == {i \in DOMAIN e : a \in FilePart(e[i])}
        IN  IF here = {} THEN 0
            ELSE LET p == e[CHOOSE i \in here : TRUE]
                 IN  FILE[p.off + (a - p.vaddr)]]

Init ==
    /\ argv \in ARGVS /\ optind = 1
    /\ config = [A |-> -1, B |-> -1, C |-> -1, d |-> -1,
                 infile |-> FALSE, checkpoint |-> FALSE]
    /\ phase = "args" /\ outcome = "none"
    /\ elf \in ELFS /\ loaded = 0
    /\ table = EmptyTable
    /\ data_seg = 0
    /\ lines = {}
    /\ accesses = 0
    /\ report = NoReport /\ reports = 0
    /\ flat = Image(elf)

----------------------------------------------------------------------------
(* How a process ends and goes on                                          *)

Over(how) == phase' = "over" /\ outcome' = how
Goto(to)  == phase' = to /\ UNCHANGED outcome

----------------------------------------------------------------------------
(* handle_args                                                             *)

Option == argv[optind]

Reading ==
    /\ phase = "args" /\ optind <= Len(argv)
    /\ optind' = optind + 1
    /\ UNCHANGED <<argv, elf, loaded, data_seg, memory, accesses, printed>>

Help ==
    /\ Reading /\ Option.opt = "h"
    /\ Over("success")
    /\ UNCHANGED config

Infile ==
    /\ Reading /\ Option.opt = "i"
    /\ config' = [config EXCEPT !.infile = TRUE]
    /\ UNCHANGED <<phase, outcome>>

\* -o and -c, whose file can be opened if the argument is not 0.
File ==
    /\ Reading /\ Option.opt \in {"o", "c"} /\ Option.arg # 0
    /\ config' = IF Option.opt = "c" THEN [config EXCEPT !.checkpoint = TRUE] ELSE config
    /\ UNCHANGED <<phase, outcome>>

\* The return in the middle: what follows is not read, nor checked, and nothing
\* but messages stops after a LOG_FATAL.
FileFails ==
    /\ Reading /\ Option.opt \in {"o", "c"} /\ Option.arg = 0
    /\ config' = IF Option.opt = "c" THEN [config EXCEPT !.checkpoint = FALSE] ELSE config
    /\ Goto("init")

\* 8 bytes are one cell.
ValidBlock(n) == n = -1 \/ (n >= 1 /\ PowerOfTwo(n))

Number ==
    /\ Reading /\ Option.opt \in {"A", "B", "C", "d"}
    /\ config' = [config EXCEPT ![Option.opt] = Option.arg]
    /\ IF Option.opt = "B" /\ ~ValidBlock(Option.arg) THEN Over("failure")
       ELSE UNCHANGED <<phase, outcome>>

ReadOption == Help \/ Infile \/ File \/ FileFails \/ Number

Configured == \A f \in {"A", "B", "C", "d"} : config[f] # -1
S          == SetCount(config.A, config.B, config.C)

\* The end of handle_args.  A number of sets that is not a power of two is
\* reported, and used.
CheckUsage ==
    /\ phase = "args" /\ optind > Len(argv)
    /\ IF ~config.infile THEN Over("failure")
       ELSE IF Configured /\ config.A = 0 THEN Over("SIGFPE")
       ELSE Goto("init")
    /\ UNCHANGED <<command, elf, loaded, data_seg, memory, accesses, printed>>

----------------------------------------------------------------------------
(* init_machine and loadElf                                                *)

InitMachine ==
    /\ phase = "init"
    /\ IF Configured /\ config.A = 0 THEN Over("SIGFPE") ELSE Goto("load")
    /\ UNCHANGED <<command, elf, loaded, data_seg, memory, accesses, printed>>

OpenFails ==
    /\ phase = "load" /\ ~config.infile
    /\ Over("failure")
    /\ UNCHANGED <<command, elf, loaded, data_seg, memory, accesses, printed>>

LoadNext ==
    /\ phase = "load" /\ config.infile /\ loaded < Len(elf)
    /\ table' = LoadSegment(table, elf[loaded + 1])
    /\ loaded' = loaded + 1
    /\ UNCHANGED <<command, phase, outcome, elf, data_seg, lines, flat, accesses, printed>>

\* The section headers: .text and .data are where their segments start.
ReadSections ==
    /\ phase = "load" /\ config.infile /\ loaded = Len(elf)
    /\ data_seg' = elf[2].vaddr
    /\ Goto("run")
    /\ UNCHANGED <<command, elf, loaded, memory, accesses, printed>>

----------------------------------------------------------------------------
(* log_machine_state                                                       *)

Cells(addr, n) ==
    LET p == table.page[get_page(table, n)]
    IN  {c \in {<<addr + o, p.cell[o]>> : o \in DOMAIN p.cell} : c[2] # 0}

Present(n) == n \in PAGES /\ get_page(table, n) # 0

\* The first page from n on, upwards or downwards, that does not exist.
EndUp(n) ==
    CHOOSE m \in n .. n + Cardinality(PAGES) :
        ~Present(m) /\ \A j \in n .. m - 1 : Present(j)
EndDown(n) ==
    CHOOSE m \in n - Cardinality(PAGES) .. n :
        ~Present(m) /\ \A j \in m + 1 .. n : Present(j)

\* The walks over the pages from page n on, printed as addresses from addr on.
Upward(addr, n) ==
    UNION {Cells(addr + (m - n) * PAGESIZE, m) : m \in n .. EndUp(n) - 1}
Downward(addr, n) ==
    UNION {Cells(addr - (n - m) * PAGESIZE, m) : m \in EndDown(n) + 1 .. n}

\* A mutant: the walk starts at the segment and not at its page.
WalkStartInPage(addr) == addr

\* addr -= addr % PAGESIZE
WalkStart(addr) == addr - (addr % PAGESIZE)

\* The walk over the heap starts with the page number the one over the data
\* has left: that of the first page there is none of.
AfterData == EndUp(PageOf(data_seg))

StackTop == WalkStart(STACK_SEG - PAGESIZE)

Checkpoint ==
    [text  |-> Upward(WalkStart(elf[1].vaddr), PageOf(elf[1].vaddr)),
     data  |-> Upward(WalkStart(data_seg), PageOf(data_seg)),
     heap  |-> Upward(HEAP_SEG, AfterData),
     stack |-> Downward(StackTop, PageOf(StackTop))]

\* log_machine_state returns unless it divides by d.
LogReturns == ~(config.checkpoint /\ Configured /\ config.d = 0)

PrintState ==
    IF config.checkpoint
    THEN report' = Checkpoint /\ reports' = reports + 1
    ELSE UNCHANGED printed

----------------------------------------------------------------------------
(* runElf: the accesses of the guest                                       *)

Running ==
    /\ phase = "run"
    /\ UNCHANGED <<command, elf, loaded, data_seg>>

Accessing(a) ==
    /\ Running
    /\ accesses < ACCESS_MAX
    /\ a \in GUEST_ADDRS
    /\ accesses' = accesses + 1

is_special_addr(a) == a \in {NULL_ADDR, CHECKPOINT_ADDR}
Ordinary(a)        == Accessing(a) /\ a \in Addr /\ ~is_special_addr(a)

Ops == {"READ", "WRITE"}

\* A value no other store has written, and no file.
NewValue == 100 + accesses

\* dmem: an access outside the data is made, and then the run ends.
InBounds(a) == data_seg <= a /\ a < KERNEL_SEG
AfterAccess(a) == Goto(IF InBounds(a) THEN "run" ELSE "finalize")

Cached(a)  == Configured /\ a >= data_seg
Block(a)   == (a \div config.B) * config.B
Set(a)     == SetIndex(a, config.B, S)
Tag(a)     == TagOf(a, config.B, S)
Holding(a) == {l \in lines : l.set = Set(a) /\ l.tag = Tag(a)}

\* The line is used, and what the guest should see is brought up to date.
Use(op, a, line, others) ==
    /\ lines' = others \cup
           {IF op = "READ" THEN line
            ELSE [line EXCEPT !.dirty = TRUE, !.data[a - Block(a)] = NewValue]}
    /\ flat' = IF op = "READ" THEN flat ELSE [flat EXCEPT ![a] = NewValue]

Hit(op, a) ==
    /\ Ordinary(a) /\ Cached(a)
    /\ config.d > 0 /\ S > 0
    /\ \E l \in Holding(a) : Use(op, a, l, lines \ {l})
    /\ AfterAccess(a)
    /\ UNCHANGED <<table, printed>>

Filled(a) ==
    [set |-> Set(a), tag |-> Tag(a), dirty |-> FALSE,
     data |-> [o \in 0 .. config.B - 1 |-> CellAt(table, Block(a) + o)]]

WriteBack(t, l, a) ==
    LET first == EvictedAddr(l.tag, a, config.B, S)
        last  == first + config.B - 1
    IN  IF l.dirty THEN PutAll(t, first, last, [x \in first .. last |-> l.data[x - first]])
        ELSE t

\* A miss, from its first cycle to the last.
Miss(op, a) ==
    /\ Ordinary(a) /\ Cached(a)
    /\ config.d > 0 /\ S > 0
    /\ Holding(a) = {}
    /\ LET same == {l \in lines : l.set = Set(a)}
           read == TouchAll(table, PageOf(Block(a)), PageOf(Block(a) + config.B - 1))
       IN  IF Cardinality(same) < config.A
           THEN table' = read /\ Use(op, a, Filled(a), lines)
           ELSE \E l \in same : /\ table' = WriteBack(read, l, a)
                                /\ Use(op, a, Filled(a), lines \ {l})
    /\ AfterAccess(a)
    /\ UNCHANGED printed

\* With d = 0 the countdown wraps, and the run goes on to its last cycle.
NeverServed(a) ==
    /\ Ordinary(a) /\ Cached(a)
    /\ S > 0 /\ config.d = 0
    /\ Goto("finalize")
    /\ UNCHANGED <<memory, printed>>

\* Without a set, get_set returns a pointer into nowhere.
NoSets(a) ==
    /\ Ordinary(a) /\ Cached(a)
    /\ S = 0
    /\ Over("undefined")
    /\ UNCHANGED <<memory, printed>>

Uncached(op, a) ==
    /\ Ordinary(a) /\ ~Cached(a)
    /\ table' = IF op = "READ" THEN Touch(table, PageOf(a)) ELSE Put(table, a, NewValue)
    /\ flat' = IF op = "READ" THEN flat ELSE [flat EXCEPT ![a] = NewValue]
    /\ AfterAccess(a)
    /\ UNCHANGED <<lines, printed>>

\* A null read ends the process on the spot, and a null write does nothing.
AccessNull(op) ==
    /\ Accessing(NULL_ADDR)
    /\ IF op = "READ" THEN Over("null read") ELSE Goto("run")
    /\ UNCHANGED <<memory, printed>>

ReadCheckpoint ==
    /\ Accessing(CHECKPOINT_ADDR)
    /\ IF LogReturns THEN PrintState /\ Goto("run") ELSE Over("SIGFPE") /\ UNCHANGED printed
    /\ UNCHANGED memory

\* assert(false)
WriteCheckpoint ==
    /\ Accessing(CHECKPOINT_ADDR)
    /\ Over("abort")
    /\ UNCHANGED <<memory, printed>>

\* The guest halts, or reaches its last cycle.
Stop ==
    /\ Running
    /\ Goto("finalize")
    /\ UNCHANGED <<memory, accesses, printed>>

\* A mutant: nothing is printed at the end if the guest has asked for a checkpoint.
LogAtEndOnce == IF reports = 0 THEN PrintState ELSE UNCHANGED printed

LogAtEnd == PrintState

finalize ==
    /\ phase = "finalize"
    /\ IF LogReturns THEN LogAtEnd /\ Over("returned")
       ELSE Over("SIGFPE") /\ UNCHANGED printed
    /\ UNCHANGED <<command, elf, loaded, data_seg, memory, accesses>>

Access(op, a) == Hit(op, a) \/ Miss(op, a) \/ Uncached(op, a)

Next ==
    \/ ReadOption \/ CheckUsage \/ InitMachine
    \/ OpenFails \/ LoadNext \/ ReadSections
    \/ \E a \in GUEST_ADDRS : NeverServed(a) \/ NoSets(a) \/ \E op \in Ops : Access(op, a)
    \/ \E op \in Ops : AccessNull(op)
    \/ ReadCheckpoint \/ WriteCheckpoint \/ Stop \/ finalize

Spec == Init /\ [][Next]_vars /\ WF_vars(Next)

----------------------------------------------------------------------------
(* What a run has to get right                                             *)

\* What the NOTE of the usage text calls valid, and a delay.
ValidCache == ~Configured \/ (config.A > 0 /\ PowerOfTwo(S) /\ S > 0 /\ config.d > 0)

\* The cells behind the file part of a segment the loader fills from the file,
\* though the header does not ask for it.
Slack ==
    UNION {LET end == elf[i].vaddr + elf[i].filesz
           IN  end .. end + v_align(elf[i]) - 1 : i \in DOMAIN elf}

View(a) ==
    IF phase = "run" /\ Cached(a) /\ Holding(a) # {}
    THEN (CHOOSE l \in Holding(a) : TRUE).data[a - Block(a)]
    ELSE CellAt(table, a)

\* From its first cycle on the guest sees the image in its file, and what it
\* has stored since, through the cache, its evictions and the page table, if the
\* cache is a valid one.
GuestSeesMemory ==
    phase = "run" /\ ValidCache => \A a \in Addr \ Slack : View(a) = flat[a]

\* The cells whose last value is only in the cache.
Unsaved == {a \in Addr : Configured /\ a >= data_seg /\ \E l \in Holding(a) : l.dirty}

Printed == report.text \cup report.data \cup report.heap \cup report.stack

\* A checkpoint prints no value the guest does not see, but for lines that have
\* yet to be written back.
CheckpointIsMemory ==
    [][ reports' # reports /\ ValidCache =>
            \A c \in Printed' : c[1] \in (Slack \cup Unsaved) \/ c[2] = flat[c[1]] ]_vars

\* The loader leaves out the first page of .bss when the file part ends with a
\* page, and the walk ends there.
BssBehindGap(p) ==
    p.memsz > p.filesz /\ v_align(p) = 0 /\ (p.vaddr + p.filesz) % PAGESIZE = 0

\* A checkpoint omits nothing but zeros from the data segment and the first
\* page of the stack.
CheckpointHasData ==
    [][ reports' # reports /\ ValidCache /\ ~BssBehindGap(elf[2]) =>
            LET p == elf[2]
                stack == STACK_SEG - PAGESIZE .. STACK_SEG - 1
            IN  \A a \in (p.vaddr .. p.vaddr + p.memsz - 1) \cup stack :
                    a \in Slack \cup Unsaved \/ flat[a] = 0
                        \/ <<a, flat[a]>> \in Printed' ]_vars

\* A run asked for a checkpoint, with a valid cache, ends with the checkpoint of
\* the memory it leaves, unless the guest ends the process itself.
EndsWithCheckpoint ==
    (phase = "run" /\ ValidCache /\ config.checkpoint) ~>
        /\ phase = "over"
        /\ \/ outcome \in {"null read", "abort"}
           \/ outcome = "returned" /\ report = Checkpoint

\* "The entire state of the machine can be logged as a checkpoint", with its
\* "relevant memory contents": a checkpoint omits nothing but zeros from the first
\* page of the heap, and what has yet to be written back.
HeapIsPrinted ==
    [][ reports' # reports /\ ValidCache =>
            \A a \in HEAP_SEG .. HEAP_SEG + PAGESIZE - 1 :
                a \in Unsaved \/ flat[a] = 0 \/ <<a, flat[a]>> \in Printed' ]_vars
=============================================================================
