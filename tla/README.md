# A verification project for the CS 429 system emulator

The repository (`src/`) is an emulator of an AArch64 subset: a five-stage pipeline with forwarding,
hazard control and exceptions, a register file and an ALU made of full adders, a memory system with
a set-associative write-back data cache, and a loader. This directory holds TLA+ models of it, the
TLC runs that check them, and theorems checked by TLAPS. Source paths below are relative to `src/`.

## 1. Inventory

| Component | Source | State | Operations |
|---|---|---|---|
| Cycle loop | `src/base/proc.c` (`runElf`) | `guest.proc` (PC, GPR, SP, NZCV, status), `num_instr`, the `in` and `out` sides of five pipeline registers | run the stages, forward, control hazards, write back, latch |
| Stages | `src/pipe/instr_*.c` | the wires `F_PC`, `M_PC`, `D_src1/2`, `X_nzcvval`, `X_set_flags`, `W_wval`; the fetch stage also keeps `F_in->status` | `fetch_instr`, `decode_instr`, `execute_instr`, `memory_instr`, `wback_instr` |
| Forwarding | `src/pipe/forward.c` | none | `forward_reg` |
| Hazard control | `src/pipe/hazard_control.c` | `deassert_flags`, the `ctl` of each register | `handle_hazards`, `pipe_control_stage` |
| Hardware elements | `src/base/hw_elts.c` | the adder array `rca` | `imem`, `dmem`, `regfile_read/write`, `alu` |
| Instruction tables | `src/pipe/instr_base.c`, `include/pipe/` | `itable`, `ftable` | initialisation, bit fields, printing |
| Memory system | `src/base/mem.c` | `inflight`, `inflight_addr`, `inflight_cycles`, `dmem_status` | reads and writes: special, cached, uncached |
| Cache | `src/cache/cache.c` | lines, `lru_matrix` and `next_lru` of each set | `check_hit`, `handle_miss`, `get/set_word_cache` |
| Page table | `src/base/ptable.c` | a hash table of pages | `get_page`, `add_page` |
| Loader | `src/base/elf_loader.c` | the page table, segment starts | `loadElf` |
| Parallel simulation | `src/base/proc.c`, `PARALLEL` | two barriers, `running_sim`, five threads | `start_*`, the waits and joins of `runElf` |
| Random simulation | `src/base/stage_ordering.c` | a table of the 120 orders | one order is drawn per cycle |
| Arguments | `src/base/handle_args.c` | A, B, C, d, files, debug level | `handle_args` |
| Set-up and end | `machine.c`, `interface.c`, `archsim.c` in `src/base/` | `guest`, its segments and its cache | `main`, `init_machine`, `finalize` |
| Checkpoint | `src/base/machine.c` | none; prints processor, page table, hits and misses | `log_machine_state` |
| Logging | `src/base/err_handler.c` | `terminate`, `ignore_input` | `logging` |
| Cache simulator | `src/cache/csim.c` | a cache without memory, four counters | `replayTrace`, `access_data`, `printSummary` |
| Test benches | `src/testbench/` | files of results, an alarm | `runtrace`, `run_test`; `test-hw` generates calls of `alu` and the register file and replays them against recorded results |
| Assembly checker | `verify.py`, `verify_all.sh`, `runner.s` | | scripts around the emulator |

**Interaction.** `runElf` calls each stage once per cycle. A stage reads the `out` side of its own
register and writes the `in` side of the next. Some wires cross that rule: fetch reads X's and M's
`out` sides to correct the PC and rewrites its own `status`; memory and fetch both write `F_PC`; both
call the memory system, which reports through the one global `dmem_status`. After the stages,
`forward_reg`, `handle_hazards` and the clocked logic run, and each register loads, stalls or is
cleared. The memory system calls the cache per byte, and fills and writes back lines itself. Below it is the
page table, which the loader fills, which grows when a page is first read or written, and which the checkpoint
walks over, past the cache. The arguments decide whether there is a cache and of which shape. A test bench runs
a reference program and the student's one after the other and compares the files they leave.

**What is hard.** Operands that are still on their way; instructions behind a branch, a return, a
halt or a fault that must leave no trace; a miss that freezes the pipeline and repeats its stages; the
sticky `F_in->status`; a loop that ends one cycle after the instruction that stops it; three builds
that run the stages in different orders or in parallel; one countdown shared by two stages; an LRU
order in a bit matrix; write-back addresses recomposed from tag and set; a page table shared by two threads without
a lock; a cache made of arguments nothing has checked; a checkpoint that must show, through pages and dirty lines,
what the guest sees; files that outlive the test that wrote them. `PROJECT.json` lists these
hazards with their lines and the properties that cover them.

**What makes each part correct.** The pipeline: the guest sees a machine that runs one instruction at a
time. Hazard control: no register is told to bubble and stall at once; a squashed instruction is inert.
The cache: the guest sees an array of words; a miss takes its delay and ends; the least recently used line is
replaced. `csim`: its counts are those of a list of blocks in the order of use. The parallel build: the barriers
give the cycle loop, all threads end, and no page is lost. The loader: memory is what the file says. The
checkpoint: it is true, has the data and the stack, and comes. A test bench: a test is passed when it has been earned.

## 2. Modules

| Module | Models |
|---|---|
| `Bits`, `BitsProof` | shifts and masks of numbers as recursive functions, and lemmas about them and about recursion |
| `Alu` | `alu`, `cond_holds`, the ripple-carry adder cell by cell, on words of `WIDTH` bits (wrap-around is modulo `Pow2[WIDTH]`) |
| `Isa` | opcodes, formats, control signals, register extraction, immediates, prediction, address map |
| `SeqMachine` | abstract specification: one instruction per step, no pipeline |
| `Pipeline` | the stages, forwarding, hazard control, clocked logic: one action per stage, and `Clock` |
| `PipelineCorrect` | the pipeline's properties and the refinement mapping to `SeqMachine` |
| `MCPipeline` | pools of instructions and the programs made of them |
| `PipelineProof` | theorems about the ALU, about the control of `Pipeline` and the address it leaves after an undefined instruction, and that it implements `SeqMachine` but for the named divergences |
| `Lru` | the LRU matrix and the choice of a line |
| `CacheSet`, `CacheSetProof` | one set of the cache as a replacement policy, and theorems about it and about `CacheSim` |
| `LruList` | abstract specification: a list of blocks in the order of use, and its counts |
| `CacheSim`, `MCCacheSim` | `csim`: a set with tags, dirty bits and counters under a trace |
| `Geometry` | set, tag and evicted address of an address, for any A, B and C |
| `FlatMemory` | abstract specification: a memory of words |
| `DataCache`, `MCDataCache`, `DataCacheProof` | the cache under fetch and memory stage, with the miss countdown, and theorems about it |
| `Cycles` | abstract specification: each stage once per cycle, then the clocked logic |
| `ParallelSim` | the threads and barriers of the `PARALLEL` build |
| `PageTable`, `PageTableProof` | `get_page`, `add_page`, and what the memory system and the loader do with them; that they are a memory |
| `ParallelMemory`, `MCParallel`, `ParallelProof` | `ParallelSim` composed with a page table that two of its threads use, and theorems about threads, barriers and table |
| `Loader` | `loadElf`: what a program header puts into the page table |
| `Emulator`, `MCEmulator`, `EmulatorProof` | `main`: arguments, set-up, loader, accesses through cache and pages, checkpoints; and theorems about them |
| `TestBench`, `TestBenchProof` | sessions of `test-csim` and `test-se`, and a theorem about what passes |

### Pipeline

`Fetch`, `Decode`, `Execute`, `Memory`, `Wback` are the stage functions, each with all it writes. `Clock`
is the rest of an iteration of `runElf`: forwarding, status, hazards, NZCV, register file, PC, latches, loop
condition. `done` holds the stages that have run in the cycle, `PRECEDES` the order they keep:
`InProgramOrder` for the sequential build, `AnyOrder` for the `RANDOM` build, whose table has all 120 orders,
and for the `PARALLEL` build. A stage is atomic: two stages share only the locations named above, and
an interleaving of their individual accesses in the parallel build is left out.

Variables carry the code's names: `fOut` is `F_out`, `fIn` is `F_in`, and so on; the fields of the records are
those of the structs, with the control signals flattened; `mp` is `multipurpose_val`. `gpr[31]` is SP. The
field `pc` of each register and the variable `nzcvOld` are auxiliary, for the refinement mapping.

Abstractions:
- An instruction is a record of its fields; encodings are not modelled. Addresses count
  instructions, so `+ 4` is `+ 1`, and alignment faults do not exist.
- Memory is an array of words. Special addresses (null, I/O, checkpoint) do what `mem.c` does, including
  `exit` and `assert(false)`. Output is the sequence `io`; `scanf` delivers any element of `INPUT`.
- With `CACHED`, any access to cacheable memory may miss any number of times. So the pipeline is checked for
  all cache contents and delays, and `DataCache` is checked on its own.
- A store into the text segment is a fault and ends the run; that a fetch could see it is left out. So
  is what an instruction fetch from the I/O address does to standard input.
- A cycle limit ends a run anywhere; the properties hold up to there.

`SeqMachine` is translated from the same operators of `Isa` and `Alu`, so the comparison is about the pipeline, not
about what an opcode computes. It allows an undefined word to end the run as `INS` or as `HLT`: when D
stalls, the word is fetched again with `F_in->status` already set, and `fetch_instr` generates a `HLT`
(`instr_Fetch.c:233`).

### Refinement mapping

The sequential step of an instruction is the step in which the memory stage completes it (`Committed`): the
action `MemoryDone` when the access is over. At that point the abstract registers are the register file
overlaid with the results in W and in W's input; the abstract PC is the address of the oldest
instruction not yet completed, looked for in M, X and D and then in what fetch would select; the abstract flags are those before the
instruction in M until it completes (`nzcvOld`), as X writes the flags one cycle earlier.

### DataCache and CacheSet

A cycle of `DataCache` is `Fetch` (`fetch_instr`), then a step of the memory stage (`Serve`, `Stall`, or `NoAccess`),
then `Clock`, which freezes the pipeline or loads its registers (`Freeze`, `Load`). `Fetch` reads a word of data through the cache (`FetchData`, always an `imem` error, so that `F_stop` is set),
a word of the text, or, once `F_stop` is set, nothing (`MakeHLT`), until the PC is one that `fetch_instr` clears the status for (`corrected`, lines 213 to 218). `Hit`, `Wait` and `Fill` are the three outcomes of `_mem_read_cache` and `_mem_write_cache`. The
accesses are aligned words: the code probes eight bytes of one line, and the first probe decides. The
LRU matrix is a Boolean matrix (`Touch`, `Victim`), where the code packs bits. `d = 0` is excluded (the unsigned
countdown would wrap).

### ParallelSim

Each `start_*` function is `FirstStart`, `Run`, `End`, `Start`, `Check`; the main thread is `Create`, `MainStart`, `MainEnd`, `Clock`, `Stop`,
`LastStart`, `Join`. A barrier has the threads that wait and the threads released but not gone, so it can be used
again while threads are leaving. `Exit` is a memory stage that ends the process.

### CacheSim

A trace is a sequence of `Load`, `Store` and `Modify`, which is a read and then a write (`ModifyWrite`). The accesses are
those to one set, since sets share only the counters. `LruList` has no ways, no matrix, no `next_lru` and no dirty
bits; the mapping reads the order of the list off the matrix (`Rank`).

### PageTable, Loader and ParallelMemory

A table is a record of chains and of pages in the order of their allocation; a chain is a sequence of indices, as
`p_next` links them. `get_page` takes the first page of its chain with the number, so a page that was added twice hides
its older copy, as in the code. The hash is a parameter. `Loader` copies the cells of a file
and maps `.bss` with the code's arithmetic, `f_align` and `v_align` included.

In `ParallelMemory` the fetch and the memory stage each make one access in the `Run` of `ParallelSim`, in the steps the other
thread can tell apart: `LookUp` reads the head of the chain, `Prepare` makes a page and reads the head again,
`Publish` writes it, `Finish` uses the page. A chain behind its head never changes, so a walk is one step.
`raced` says that one of two overlaps has happened (`Overlap`); `TableIsMemory` says that nothing else loses a page.

### Emulator and Geometry

`phase` is how far `main` has come. Each option is an action, and so are the two early returns of `handle_args` (the
usage exits and a file that does not open, after which the rest is neither read nor checked), the loader's
segments, and each kind of access. Nothing has checked A, B and C as a whole when the machine is set up, so `Geometry`
has `_log`, the population count, shifts and masks as they are, bit by bit, on numbers that need not be powers of two. Their recursion, and that of the
loader's loop over pages, is in functions, so that theorems can be proved above them. A miss is one
step, from its first cycle to the last, and takes any line of a full set: the countdown is in `DataCache`
and the choice in `CacheSet`, so `Emulator` holds for every policy. `Checkpoint` is the set of
address and value pairs that `log_machine_state` prints, by its four walks. `flat` is auxiliary: the image in the file
and the stores since.

Addresses and sizes count words, so the least block size of 8 bytes is 1. Text and data are the two segments, each with one section at its start.
An access out of bounds ends the run at once: the one more access that the instruction behind it makes in the loop's last cycle is in `Pipeline` (`FaultDisturbance`), not
here. The assertion in `cache.c:167` that bounds the associativity is left out: A may be any number.

### TestBench

Both benches, chosen at the start: `test-csim` uses one file for all results and removes it before each program, `test-se`
has two files per test file, which its tests with several caches share, and removes them after the comparison.
The programs are external: each opens its file, writes it, exits with an error, or is killed, at any time or never; a student's `csim` may also end
without `printSummary`. `Alarm` may end the bench at any time, and not the program; the next session finds what is left. That every session ends follows from the delivery of the signal alone
and is not a property here; the specification states safety only. `Scanned` is `fscanf` into
variables nobody has set: any result, if the file is empty.

## 3. Runs

| Run | Bounds | Shows |
|---|---|---|
| `pipeline` | all programs from each of four pools of 9: 4 instructions of hazards, 3 of extra credit, 4 of exceptions, 3 of edges (null loads, register 31, branches into data); extra-credit build; any misses; 12 cycles | `DivergesOnlyAsKnown`, `ConflictOnlyAtLoadedReturn`, `UndefinedInstrPC` |
| `pipeline_orders` | programs of 3 from a pool of 8; every order of the stages; any misses; 10 cycles | `ImplementsSeqMachine`, `OnlyStopsBehindAStop`, `SquashedIsInert`, `HaltIsPrecise` |
| `pipeline_flags` | programs of 4 from the pool of exceptions | refutes `NoFlagsBehindException` |
| `pipeline_fault_pc` | as above | refutes `AddressFaultPC` |
| `pipeline_ec_branch` | programs of 3 from the extra-credit pool | refutes `CompareBranchCorrected` |
| `datacache` | 2 sets of 2 ways, lines of 2 words, 3 tags, d = 2, loads and stores in two blocks of a set, fetches from one of them and from a third | `ImplementsFlatMemory`, `OneCopy`, `CleanMatchesMemory`, `MissPenalty`, `PerformedUnlessHung` |
| `datacache_fetch` | the same, d = 3 | refutes `StallsAtMostDelay` |
| `csim` | one set of 4 ways, 5 tags (symmetric), 9 accesses | `ImplementsLruList`, `MatrixIsOrder`, `EvictsLeastRecent` |
| `parallel` | fetch, memory and writeback thread, up to 3 cycles, 3 pages of 2 words in one chain, one of them loaded | `TableIsMemory`, `ImplementsCycles`, `Terminates` |
| `emulator` | 15 argument vectors with 8 caches, valid and not, 5 files, 8 addresses, 3 accesses | `GuestSeesMemory`, `CheckpointIsMemory`, `CheckpointHasData`, `EndsWithCheckpoint` |
| `emulator_heap` | the same, one access | refutes `HeapIsPrinted` |
| `harness` | 2 sessions of 3 tests, two of them of one test file | `PassIffEarned` |

**Why the bounds are enough.** Words have four bits, so that a register is a data value, a text address, a data
address and a special address in turn. A hazard involves the instructions in D, X, M and W, and four
instructions fill those stages; branches, returns and loops bring others behind them, and the cycle limit
leaves room for a loop of two instructions to come round. Without any one of the disjuncts of `KnownDivergence` the run `pipeline`
fails, so each of them happens; the second half of `DataFetchDisturbance` needs F to run after M, and is there for the theorem, which is about every order. Three blocks compete for the two ways of a set, one of them loaded and stored, one also fetched from and one only fetched,
with a second set and a second word per line to be disturbed by a wrong address. Nine accesses fill a set of four ways
and then replace every line. Two cycles show the reuse of both barriers, and the third adds a thread that is a cycle behind; the
decode and execute threads do what the writeback thread does, touching no memory. Two pages that are not loaded, one shared by both
threads and one of the memory stage's own, give both overlaps. Three accesses fill a line, evict it and bring it back; the five files have a segment that
starts with a page or not, ends with one or not, and has `.bss` or not. A second session shows what the first leaves.

**Fairness.** `DataCache` assumes weak fairness of its next step: the loop of `runElf` goes on while the run lasts.
`Emulator` assumes the same of its process. `ParallelMemory` (as `ParallelSim`) assumes weak fairness of each thread, which is the host's
scheduler; waiting at a barrier needs no fairness of its own, as the last thread to arrive releases the others. The other specifications state safety only.
`CHECK_DEADLOCK FALSE` is set where the system stops: a guest program ends, the threads are joined, the accesses are used up, the sessions are over.

**Findings.** Five runs end in a violation, each of something the repository says of itself.
- `pipeline_flags`: the suppression of flags behind a fault (`hazard_control.c:158`) covers one cycle of two.
- `pipeline_fault_pc`: the PC set for an address fault (`instr_Memory.c:64`) is overwritten in the cycle the loop exits.
- `pipeline_ec_branch`: a corrected compare-and-branch (`hazard_control.c:132`) is lost if its target is a stop.
- `datacache_fetch`: an instruction fetched from the data goes through the cache (README.md:31, `mem.c:238`). The run shows a fetch, on a wrong path or at a predicted target, that begins a
  miss when M has no access. It is an error, so `F_in->status` becomes `STAT_INS` (`instr_Fetch.c:289`), the next cycles make HLTs (line 233), nobody finishes the miss, and
  `dmem_status` keeps the pipeline frozen (`hazard_control.c:113`) until `cycle_max`, with the access in X never performed (`Abandoned`). A second way to freeze needs a RET in X
  (BR or BLR in the extra-credit build): it clears the status in every frozen cycle, and the fetch and a load in M that misses on another block restart each other's countdown
  (`Contended`). `PerformedUnlessHung` says that there is no third way.
- `emulator_heap`: a checkpoint does not show the heap (src/README.md:35, `machine.c:152`): the walk at `machine.c:155` starts with the page number at which the walk over the data has found no page.
  With the number of the heap's page in its place, the property holds in the same run.

**Known divergences that are stated, not refuted.** A property that holds says exactly how far the code departs:
- `DivergesOnlyAsKnown`: the pipeline takes a step that is not of the sequential machine in five cases only. In the extra-credit build, `LoadedBranch`: BR and BLR
  behind a load of their register go to the load's address (`hazard_control.c:90`), and `LostCorrection`: the case of `pipeline_ec_branch`. In every build,
  `FaultDisturbance`: in the last cycle after an address fault the instruction behind it still reaches memory and flags, ends the process or turns the fault into
  a halt, while no register changes; `ReturnOverNullLoad`: the conflict of the next item, with the result of the instruction before the load lost; and
  `DataFetchDisturbance`: while F reads the data through the cache (a branch or a wrong path leads there), its answer in `dmem_status` is taken for that
  of the memory stage: the store in M may be repeated; or, if F runs after M, an instruction is completed, or taken back, with no effect but on one register and on where
  the run goes on, and behind a load that was taken back BR and BLR of the extra-credit build may go astray.
- `ConflictOnlyAtLoadedReturn`: a load of X30 from effective address 0 followed by RET halts through `P_ERROR`, and nothing else does.
- `TableIsMemory`: in the parallel build a page is lost when both threads add to one chain at once (`ptable.c:53`), and only then.
- `GuestSeesMemory` and the three properties of checkpoints assume `ValidCache`. The usage text says that with an invalid cache "se will run without a cache"
  (`handle_args.c:56`); `handle_args` only reports it (line 169), `init_machine` makes the cache, and with 3 sets two blocks share a line.
- `CheckpointHasData` leaves out a data segment whose file part ends with a page and that has a `.bss`: its first page is not mapped (`elf_loader.c:94`), and
  the walk over the data ends there. It does not speak of the heap. `CheckpointIsMemory` leaves out cells that are dirty in the cache.
- `GuestSeesMemory`, `CheckpointIsMemory` and `CheckpointHasData` leave out `Slack`: the loader copies `v_align` bytes too many (`elf_loader.c:79`), so in a segment that does not start with a page the first
  bytes of `.bss`, which line 90 says is zero, hold what follows in the file. With these cells `GuestSeesMemory` is violated.
- `PassIffEarned` leaves out two kinds of tests, and is violated with either, in each bench. One: a signal kills the student's program, the bench does not notice (`WIFEXITED` is false,
  `test-csim.c:110`, `test-se.c:119`), and the file is not what the program has left: `csim` has opened it and written nothing, so that `fscanf` sets nothing, or `se` has not opened it, so that an old one may be there. Two: a program
  of an earlier session still runs and writes to a file of this test. Other kills, and other programs that outlive their session, are covered.

## 4. Theorems

**The pipeline.** Everything here is for every word width, set of programs, memory, cache behaviour, order of the stages and cycle limit.

`PipelineProof` proves `TypeCorrect`, `OnlyStopsBehindAStopAlways`, `SquashedIsInertAlways`, `HaltIsPreciseAlways` and
`ConflictOnlyAtLoadedReturnAlways`. None of the properties is
inductive alone. `IInv` adds, for each stage that has run in the cycle, how the input register it wrote
relates to the output register it read (`FetchDone`, `DecodeDone`, `ExecuteDone`, `MemoryDoneInv`: a bubble or stop going in is an inert
bubble or stop coming out); that behind a redirecting instruction D (and X) is already empty (`RedirectSquashes`), without which the fetch stage's
cleared status could let instructions in behind a stop; and that a cycle starts only below the limit. There is one lemma per action; the clock's splits on
miss, conflict and ordinary cycle.

Of the ALU it proves `AdderAdds`: the 64 (here `WIDTH`) cells of `ripple_carry_add` add two words and a carry modulo the word size, and the last carry says that the sum was too large.
The invariant of the loop is `CellsAdd`: below cell i, what the cells have made and their carry are together the sum of the operands' low bits. On it rest `AdditionFlags` and
`SubtractionFlags`: the flags `alu` computes from sign bits and the last carry are those of the true sum and the true difference of the operands, unsigned for C, signed for N and V; and
`ConditionsCompare`: after a `SUBS` (or `CMP`) each of the ten comparing conditions of `cond_holds` is the comparison its name stands for. Of `SUBS` this uses that a - b is made as a + ~b + 1.
`ArithmeticShift` says that `ASR` is the signed division by a power of two, rounded down.

It also proves `DataPathTypeCorrect` (`Values`: registers, wires, register file and memory hold words) and, on top of it, `UndefinedInstrPCAlways`. `M_PC` is the
successor an instruction carries, less one, so the proof needs that addresses are words and that `Wrap` undoes itself (`WrapBack`). `EInv` says how the address
travels (`AddressKept`), that it is in `F_PC` from the memory stage's cycle on (`AddressFetched`), and why it stays there although F writes the same wire, before
or after M: behind an undefined instruction there are halts only (`HaltsBehind`), and a halted F writes no `F_PC`.

Its last part proves that the pipeline implements the sequential machine: `DivergesOnlyAsKnownAlways` (every step is a sequential step, a stutter or a
named divergence) and `BaseBuildImplements` (`ImplementsSeqMachine` for the runs that meet none). The invariant `RInv` says of each output
register that it holds what its instruction would have there if the instructions before it had completed: D is decoded (`DHolds`); X has its operands,
those of a machine in which M has retired (`XOperands`, which is what forwarding and the load-use stall are for); M has its result and flags from the retired
registers (`MResults`); and the address behind each is its successor, as far as the stage can know it (`XSuccessor`, `MSuccessor`), which names where the divergences
start. `FetchLeaves` to `WbackLeaves` say the same of the input side once a stage has run, so the order of the stages does not matter; `StopSticks` and `InFlight` tie
`F_in->status` and `dmem_status` to the program and to M. Nothing is said once W holds the end of a run. The proof goes from the leaves up: what an instruction reads,
writes and computes; what `Forward` returns in terms of the overlay (`BehindM`); each stage; each outcome of the clock (miss, bubble, stall, load); and then each step
against `Sequential!Step`.

`CacheSetProof` proves for every associativity from 1 to 8: `MatrixIsOrderAlways` and `EvictsLeastRecentAlways`. The invariant relates
the matrix to the auxiliary time of last use, with distinct times for ways in use, and says that `next_lru` is the
least of them; that a way of least time exists is well-foundedness of the naturals.
It also proves `ImplementsLruListAlways`, the refinement `SimSpec => ImplementsLruList`, for every trace and any tags: the set with its matrix, `next_lru` and dirty bits is a list of
blocks in the order of use, with the counts of that list. `LIInv` adds to the invariant that a valid way holds a block of the trace and no block is held twice. The heart is
`RanksOrder`: counting the ways used after it numbers the ways held from 1 to their number, without a gap or a tie. That is a fact about cardinalities
(of two ways, the set of those used after the later one is strictly contained in the other's; and an injection between sets of one size is onto). `RanksAfterUse` says how an access
renumbers them; `MovedToFront`, `PutBefore` and `PutBeforeFront` turn that into the three ways a list changes; and a full set gives up the way of rank A, the last of the list. `TraceIsSet` says
that a trace is a run of hits and misses, so that the two theorems above hold of it.

`DataCacheProof` proves for every number of sets, ways, words in a line and tags, every delay, and every set of words that is loaded, stored or fetched:
`OneCopyAlways`, `CleanMatchesMemoryAlways`, `DataTypesAlways`, `MissPenaltyAlways`, `StallsAtMostDelayInText` (the bound that `datacache_fetch` refutes holds of a guest that fetches no data),
`AbandonedForGood` (an abandoned miss is never finished), and `FlatMemoryImplemented`, the refinement `Spec => ImplementsFlatMemory`. Lemmas about
quotients and remainders come first: an address and its tag, set and offset determine each other, also in the form in which
an evicted line's address is computed. `CacheInv` is inductive: next to the two properties it has the types and
`NextIsWay`, without which a full set could be asked for a way that `lru` has never named. With one copy of a block the hit is unambiguous (`ViewOfLine`), so
`HitPerforms` and `FillPerforms` can compare the guest's view before and after word by word: the word
accessed, the words of the evicted block, which are now in memory, and all others. `DoneAtTheClock` (the registers load only when
the access is done) makes the clock a step of `FlatMemory`. For the penalty, `PenaltyInv` says whose countdown is running: that of a block that is fetched from, or that
of the access that waits, which is then not in the cache and has `DELAY - stalled` cycles left.

`ParallelProof` proves `CyclesImplemented`, that is `Spec => ImplementsCycles`, for any number of stages and any `cycle_max`. The
invariant counts a thread that a barrier has released as past it even before it leaves: then all threads are
together before a cycle, in it, or after the last (`Between`, `InCycle`, `AfterLast`), which fixes how often each stage has run. That the last thread to
arrive finds all others there (`LastToArrive`) is where the count given to `pthread_barrier_init` enters.

`PageTableProof` proves for every hash, page size and set of pages that the chains are a memory (`PageTableIsMemory`: after a write to a page, mapped or not, a read
finds the new value there and the old ones elsewhere), and what the loops over pages and over cells leave behind (`TouchAllReads`, `PutAllReads`). The loop over pages is a recursive function;
that such a function exists, and so satisfies the equation it is defined by, is the lemma `Recursion`, proved from the well-foundedness of the naturals with sets in place of
operators (`StrongInduction`). The same lemma, which is in `BitsProof`, opens the functions of `Bits`, `Alu` and `Geometry`.

`ParallelProof` proves of the table shared by any threads that it is a memory until an overlap (`TableIsMemoryAlways`), and that the composition still runs
the cycles (`ParCyclesImplemented`). `MemInv` says what a thread in the middle of an access knows: always, that the page it has found exists and is of its number; and before an overlap, that
the page it missed is still missing and that the head it has read is still the head.

`EmulatorProof` proves the safety properties of `Emulator` for every set of argument vectors and files, every page size and hash, any addresses and any number of accesses, with a cache or
without: `GuestMemory` (the guest sees its image and its stores), `CheckpointShowsMemory` and `CheckpointShowsData`; and `HeapWalkPrintsNothing`, that the violation of `HeapIsPrinted` is no accident of the instance. It starts with the addresses of the cache: `_log`
inverts `Pow2`, a number with one bit is a power of two, a mask is a remainder, and an `or` of numbers without a common bit is their sum; together they are
`GeometryIsDivision`, for powers of two only, which is where `ValidCache` enters. The invariant `IInv` has, for each phase, what the next one needs:
- `Command`: main gets past the arguments only with a block size that is a power of two and comes from an option, or with none;
- `Loading` and `LoadedCells`: the segments loaded so far are in the page table, byte for byte, and all other cells are zero, but for the slack, so that in the end
  the table is the image; `LoadedPages`: every page a segment reaches exists, which is what keeps the walk over the data from ending early;
- `Coherent`, while the guest runs: lines are blocks of the guest's memory (`LinesAreLines`), each held once (`OneCopy`), a clean line is a copy of memory (`CleanCells`), and what the guest should see
  is in the line, if there is one (`LineCells`), or in memory (`MemoryCells`);
- `Saved`, once it has stopped: memory is right but for the dirty lines. The last access may have been out of bounds. A store below the data segment goes past the cache, also if a line reaches down
  there, and would break `CleanCells`; but it ends the run, and a checkpoint prints memory and no lines.

The moves of the cache have a lemma each (`FillLine`, `StoreLine`, `EvictLine`, `SameTable`), and an access is a sequence of them. `GuestSeesMemory` alone is not inductive: it says nothing of the copy of a cell that is in
memory while its line is clean, which is what an eviction leaves.

`TestBenchProof` proves `PassIffEarnedAlways` for any number of tests, caches per test file and sessions. `BenchInv` follows a test step by step: whose results are in which
file, that only the program the bench waits for writes to the files of the test (`Near`) and whether it has opened its file yet, and how a student's program that has ended left its file; all of it only while the
test is undisturbed. `FarStep` says that the programs of earlier sessions that write elsewhere do not matter.

Each inductive invariant was checked by TLC on the instances of the runs before it was proved. Assumptions of these proofs are those the modules name (`WidthAssumption`,
`SegmentAssumption`, `PipelineAssumption`, `AssociativityAssumption`, `CacheAssumption`, `CycleAssumption`, `PageAssumption`, `ParallelAssumption`, `TestAssumption`, `AccessBound`, `ArgumentAssumption`,
`ElfAssumption`), and TLC evaluates them in the runs. They are about constants only. That the bitwise operations on
words yield words is proved (`WordsAreClosed`, `BitAndBound`, `OrBelow`). Of `Emulator`, `SegmentAssumption` gives the order of the fixed segments and a stack that starts on top of a page;
`ArgumentAssumption` says that the set of pages is large enough to hold the blocks of what the guest accesses; `ElfAssumption` that it holds the segments, that the file goes on as far as the loader reads, and that no two segments
have file parts for one cell (with two, what memory should be is a question of their order).

**Only model-checked:** the liveness properties (`PerformedUnlessHung`, `Terminates`, `EndsWithCheckpoint`: temporal fairness is out of the prover's reach).
`ImplementsSeqMachine` is proved under the hypotheses of `BaseBuildImplements`, which the run `pipeline_orders` has been found to satisfy.

## 5. Plan

Done: the pipeline with its sequential specification, for all pools of instructions; the cache, its replacement policy and `csim`; the
parallel loop with its page table; the loader, the run of the emulator around the pipeline and its checkpoints; the test benches.

The proofs: all safety properties of the passing runs, the adder and the flags.

Next: that `MOVK` replaces its field and nothing else; the recorded calls of `test-hw.c` at a width of 64.

## 6. Not modelled

The non-`PIPE` build (a teaching step with the hazards left out); printing, logging, prompts and the processor part of the checkpoint; csim's own reading of
its arguments; `test-hw.c` (recorded calls of `alu`, `cond_holds` and the register file with their results) and the weighting of points; `verify.py` and the scripts; encodings of instructions;
access widths other than a word and accesses across lines; the emulator's hit and miss counters, which count cycles; protection bits, which nothing reads;
mmap, the ELF header's fields and section names; that malloc may fail; `free_cache`, `display_set`,
`create_checkpoint` and the other debugging aids of `cache.c`.
