# Formal model of ama-riscv

ama-riscv is a five-stage, single-issue RV32IM core (machine mode, packed SIMD
extension) with split L1 caches, a branch predictor, traps, a CLINT and a UART,
written in SystemVerilog, with a set of Python scripts that build it for FPGAs,
generate parts of its source and evaluate its runs.  This directory holds TLA+ modules that model its
hardware at the level of the clock edge and its scripts step by step, TLC configurations that check them on
small instances, and TLAPS proofs that hold for every value of the parameters.

## 1. The system

```
            ama_riscv_top ── debounce, UART line
                 │
         ama_riscv_core_top
   ┌─────────────┼───────────────┬──────────────┐
 core          icache          dcache         clint
 │ fe_ctrl  <──fetch/answer──┘    │              │
 │ bp, decoder, operand fwd       │              │
 │ alu, mult, div, simd           │              │
 │ csr, trap_ctrl  <───────── mtip, meip ────────┘
 │ load/store ──request/answer────┘
 │ uart mmio, clint mmio (store/load to the MMIO window)
 └── both caches ──128-bit bus words── ama_riscv_mem (two ports)
```

Everything is one clock domain; a component's registers change at the rising
edge, from combinational functions of registers and inputs.  Components speak
through valid/ready channels (`rv_if`), the CLINT and the UART through MMIO
structs, `trap_ctrl` and `fe_ctrl` through wires.  So the concurrency to be
checked is that of hardware: every component steps at every edge, and what can
go wrong is the *phase* in which the steps of two components meet.

The scripts stand beside the design and meet it in files: `run_synt.py` takes its
sources from the file lists (`parse_filelist.py`) and starts Vivado;
`autogen_perf_events.py` writes regions of RTL, test and simulator sources that must
agree with one another; `artix_7_pll_config.py` found the clock table that the RTL
holds; `get_run_stats.py` reads the logs of two boards; `slang_hier.py` shows the
elaborated design.  What is hard there is failure half way: a worker that raises, a
run that is killed, a log that lacks a line.

### Inventory

| component | state | operations | what is hard | what makes it correct |
|---|---|---|---|---|
| data cache (`ama_riscv_dcache.sv`) | line metadata, one data bank per way, saved request, bus word counters, FSM READY/MISS/EVICT | load, store, refill, write-back, LRU update | one bank address per cycle shared by core, refill and write-back; counters pipelined against the memory's answers; a request accepted in the cycle the last one is answered | one atomic memory; no lost store; no duplicate line; every access ends |
| instruction cache (`ama_riscv_icache.sv`) | the same without dirty bits | fetch, refill, late LRU update, early invalidation | lookups of a later cycle's bus address; update one cycle late | every accepted fetch answered once, in order, with the program's word |
| main memory (`ama_riscv_mem.sv`) | array, two read registers | read (both ports), write (data port) | the ports see each other's writes a cycle late; nothing keeps the caches coherent | program words survive write-backs next to them; FENCE.I |
| front end (`ama_riscv_fe_ctrl.sv`, core PC logic) | stall FSM, deferred redirect flag, saved stall PC, two speculative entries | fetch, stall, speculate, redirect, sink a stale answer | redirects that land while a miss is in flight; two branches in flight; stalls of four kinds at once | the instructions that retire are the program's, each once |
| traps (`ama_riscv_trap_ctrl.sv`) | seven-state FSM, trap info | recognise, chase, enter, return, WFI park and wake | interrupts racing branches, CSR writes and cache misses | precise traps; no instruction lost or repeated; no trap lost |
| pipeline control (`ama_riscv_core.sv`) | stage registers, hold registers | advance, stall, bubble, forward, serialise CSR access | stalls of data cache, divider, hazard and CSR overlapping | every instruction's effect exactly once, in order |
| divider (`ama_riscv_div.sv`) | FSM, partial remainder, one-entry result cache | start, iterate, fix up, reuse | normalised start, sign fix-up, overflow, stale cache entry | RISC-V M results for every operand |
| branch predictor (`ama_riscv_bp.sv`, `ama_riscv_pht.sv`) | counters, history | predict, train | training with two branches in flight | performance only |
| operand forwarding and register file (`ama_riscv_operand_forwarding.sv`, `ama_riscv_reg_file.sv`) | registers, saved operands | select, save, stall | four older results, paired destinations, a third operand taken a stage later, results that are not there yet | an operand is the last value written |
| CSR file (`ama_riscv_csr.sv`) | CSRs, counters | read/write/set/clear, trap entry/return | two writers in a cycle, 64-bit counters | WARL fields, counters count retirements |
| CLINT (`ama_riscv_clint.sv`) | mtime, mtimecmp, prescaler | MMIO read/write, tick | a write racing a tick, two-word compare | time is monotonic but for writes; interrupt iff due |
| UART (`ama_riscv_uart.sv`, `common/uart.sv`, `uart_rx.sv`, `uart_tx.sv`) | one buffered byte, shift registers, a registered status | MMIO, send, receive | an access held in MEM is presented in every cycle; the status is a clock late; no back-pressure on the line | no byte lost, repeated or reordered |
| execution units (`alu`, `mult*`, `simd*`, `barrel_shift_seg`, `load_shift_mask`, `store_mask`, `imm_gen`, `decoder`) | pipeline registers | pure functions of operands | data-path arithmetic | the ISA manual |
| board glue (`debouncer`, `synchronizer`, `edge_detector`, `button_parser`, `src/fpga`) | shift registers | filter inputs | metastability, not logic | – |
| FPGA flow driver (`fpga/run_synt.py`) | jobs, a pool of workers, run directories | resolve configs, submit, run Vivado, collect | failures kept in futures; jobs side by side; leftovers of earlier launches | success means every job; own files only; no worker left behind |
| event generator (`script/autogen_perf_events.py`) | nine files with marked regions | check, generate, patch | several regions in a file; some files patched and others not | the files agree; hand-written text stays |
| file list parser, run statistics, hierarchy viewer, PLL search (`script/`) | – | one pass each | attribution by position, sharing, floating point | complete and right output |
| verification environment (`verif/`, `cosim/`, `run_test.py`), printing helpers (`script/utils.py`) | – | – | – | observe only |

## 2. Modules and how they correspond to the code

A step of a hardware module is one rising edge of the clock.  A VARIABLE is a
register or an array and has the source's name; a combinational signal is an
operator with the source's name, evaluated in the cycle before the edge; an
operator whose name ends in `Edge` is what one `always_ff` (or `DFF_CI`) block
loads.  `Clock` is the conjunction of all edges, and the actions of `Next` split
the cycles by what happens in them (a hit, a miss, a refill word, a redirect),
each an additional guard on `Clock`: no register can be left out of a step.
A step of a script's module is what happens between two points at which a failure,
a kill or another thread could be noticed.  `PROJECT.json` gives the source lines of
every definition.

| module | models | state | actions |
|---|---|---|---|
| `MemoryTypes` | address split, words, requests | – | – |
| `AtomicMemory` | *abstract*: what a load/store unit promises | memory, request just accepted, outstanding request, answer | `PerformAtOnce`, `Accept`, `Complete`, `Pass` |
| `DCache` | `ama_riscv_dcache.sv`, data port of `ama_riscv_mem.sv` | metadata, banks and their read registers, saved request, counters, FSM, memory | reset, `Idle`, `LoadHit`, `StoreHit`, `Miss`, then the cycles of a miss: `StartRefill`/`StartEvict`, `EvictWord`, `EvictDone`, `RefillWord`, `RefillDone`, `ServeLoad`, `ServeStore` |
| `DCacheHistory` | history over `DCache` | request just accepted, age of an access, order of use | those of `DCache` |
| `ICache` | `ama_riscv_icache.sv`, instruction port | as `DCache` without dirty bits; delayed LRU access | `Idle`, `FetchHit`, `FetchMiss`, `StartRefill`, `RefillWord`, `RefillDone`, `Serve` |
| `ICacheHistory` | history over `ICache` | fetch just accepted | those of `ICache` |
| `MemorySystem` | both caches on one memory, FENCE.I | both, and what was stored | `Load`, `Store`, `FenceI` |
| `Program` | what the pipeline can tell of a program | – | – |
| `Machine` | *abstract*: a sequential machine with precise traps | pc, last instruction, trap CSRs | `Execute`, `Trap`, `Return` |
| `Core` | `ama_riscv_fe_ctrl.sv`, `ama_riscv_trap_ctrl.sv`, the stage control of `ama_riscv_core.sv`, the trap part of `ama_riscv_csr.sv`, the handshake of `ama_riscv_div.sv` | front-end FSM and saved addresses, two speculative entries, stages, trap FSM, mstatus and mepc | the twelve things the front end can do in a cycle (`SinkStale`, `Relaunch`, `Redirect`, `Park`, `Boot`, `WaitForAnswer`, `WaitForBackEnd`, `MeetJump`, `Predict`, `FollowDecoder`, `AwaitJump`, `FollowJump`), each with the whole back end and trap controller |
| `Divider` | `ama_riscv_div.sv` and its handshake with EXE | FSM, partial remainder, result cache | `Hit`, `Miss`, `SetupSpecial`, `SetupIter`, `Iterate`, `Fixup`, `Flush`, `TakeResult` |
| `BackEnd` | `ama_riscv_operand_forwarding.sv`, EXE to RET of `ama_riscv_core.sv` with their values, `ama_riscv_reg_file.sv`, minstret of `ama_riscv_csr.sv` | stages, saved operands, registers, stalls, minstret | `BackEndClock`: all edges of a clock |
| `Uart` | `ama_riscv_uart.sv`, `common/uart.sv`, `uart_rx.sv`, `uart_tx.sv`, the MEM stage in front of them | registers of both directions, the access in MEM | `UartClock` |
| `Clint` | `ama_riscv_clint.sv`, the MEM stage in front of it | prescaler, mtime, mtimecmp, the access in MEM | `ClintClock` |
| `Synt` | `fpga/run_synt.py` | command line, config chain, jobs, workers, results, files in the run directories | loading, `Submit`, `Worker`, `StoreResult`, `RaiseResult`, `Leave`, ... |
| `FileList` | `script/parse_filelist.py` | tokens and the four lists | one per branch of the loop |
| `Autogen` | `script/autogen_perf_events.py` | the list of events, nine files, where the run is | `SkipTarget`, `LeaveUnchanged`, `OpenForWriting`, `Write`, kills, a new run, an edit |
| `RunStats` | `script/get_run_stats.py` | two logs, the dicts taken | one per line and per workload |
| `Hierarchy` | `script/slang_hier.py` | the design, what was shown | `Show`, `ShowDot`, `NotFound` |
| `Pll` | `script/artix_7_pll_config.py`, the table of `ama_riscv_fpga_clk_gen.sv` | best pair so far | `TryMult`, `PrintBest` |
| `DCacheProofs`, `DCacheRefinement`, `ICacheProofs`, `MemoryProofs`, `CoreProofs`, `UnitProofs`, `ToolProofs`, `AutogenProofs` | TLAPS proofs about the module of that name (`MemoryProofs`: `MemorySystem`; `DCacheRefinement`: also `DCacheHistory`; `ICacheProofs`: also `ICacheHistory`; `UnitProofs`: `BackEnd`, `Divider`, `Uart`, `Clint`; `ToolProofs`: `Synt`, `FileList`, `RunStats`) | | |
| `MCDCache`, `MCICache`, `MCMemorySystem`, `MCCore`, `MCUnits`, `MCTools`, `MCParts` | instances for TLC; the last three put modules that share nothing side by side, a behaviour being one of one of them (`MCParts`: `MCTools` and `MCMemorySystem`) | | |

The operators marked *fault* in a module are plausible mistakes in the lines the
definition after them stands for; none of them is used by a specification.
Replacing the definition by its faulty form violates the property the fault is
paired with in `PROJECT.json`.

### Data cache

The datum of a byte lane stays abstract, a store stamps one datum on the lanes
its byte enables select, and the extension of a loaded byte is left out
(`Select`).  The bank serves one address in a cycle (`BankSet`, `BankBeat`) and
its read is registered (`bank_data`): that is where refill, write-back and core
accesses could disturb each other.  The refinement mapping to `AtomicMemory`
takes as the memory's contents the line the cache holds, if it holds one that is
not being refilled, and main memory otherwise (`CoreView`); an access takes
effect in the cycle that accepts it when it hits, and in the cycle that serves
it (`ServeLoad`, `ServeStore`) when it misses.  The request of a miss is in the
cache's registers until then; that of a hit is nowhere after its cycle, so
`DCacheHistory` keeps the request just accepted (`accepted`), and the abstract
memory has the same variable: a cycle that accepts a request has to perform that
one, at once or as the one outstanding, and a cycle that accepts none performs
nothing new.  A store hit that is dropped, a hit that is not answered, and one
answered with another line's word are then no steps of `AtomicMemory`.  The core may drive any request
in any cycle, valid or not: what is on the bus while the cache is busy is free.
With `WAYS = 1` the module is the direct-mapped variant.

### Instruction cache

The two differences from the data cache are modelled as they are.  The LRU
counters are updated a cycle late (icache.sv:211-218), so a lookup in the cycle
after a hit may see old counters and the victim then is not the least recently
used way.  And the line that is invalidated at a miss (icache.sv:360-362) is
named by the address and the LRU counters of the cycle *after* the lookup, not
by the saved victim: another valid line may be dropped, and the victim may stay
valid while its words are overwritten.  The run shows that neither is a matter
of correctness: no fetch is accepted until the refill is over, and then the tag
of the victim is written.  Both cost hits only.  `ICacheHistory` keeps the fetch
just accepted, as `DCacheHistory` does.

### Core

Data is abstracted to what steers control: an instruction is a kind, whether it
depends on an older load, and where it may jump.  A branch's outcome and a
`jalr`'s target are chosen when the instruction leaves EXE, a prediction is any
direction, an access hits or misses.  So the model covers every predictor and
every content of the caches and registers.

`ready`, `rsp_valid` and `dc_stalled` come from counters of busy cycles instead
of the caches' modules: a hit is answered in the next cycle, an instruction miss
after `IcMiss = 6` cycles without `ready`, a data access after 6 or 10 (clean or
dirty victim), the figures of `ICache` and of `MissTakesItsCycles` (section 6).  A division holds
EXE for 0, 1 or 4 cycles after its start: a hit in the divider's result cache,
the shortest and a longer iteration.

`arch` is a history variable: an instruction commits when it leaves EXE.  The
instruction word and the PC that labels it are kept apart in each stage
(`exe.inst`, `exe.pc`), which is what makes `LabelledByOwnPc` a statement.

Simplifications: one interrupt source instead of two; `mcause` and `mtval` are
left out; the flush of the reset sequence is left out, since the stages it
flushes are empty; the case fe_ctrl.sv:369 (a jump that resolves in STALL_BE in
the first cycle after the stall) has no action (`LateJump`), and the deadlock
check shows that it is never met.

### Back end and divider

`BackEnd` lets DEC hold any instruction in any clock, so its programs are all
programs up to a length.  A value is the number of the instruction that made it; a
result that is not there yet (a load before the answer, a product in MEM) is
`Unknown`, and would be forwarded as such if a hazard were missed.  `arch`, `late_c`
and `counted` are what a machine that executes one instruction at a time would have.
The registers of a branch's wrong path never count: an instruction commits when it
leaves EXE, and a misprediction empties EXE at the latest in the same clock.
Left out: traps, operands that are no registers, loads from devices.

`Divider` compares with a definition of DIV, DIVU, REM and REMU by search
(`Quotient`), not by another algorithm.  The result cache starts with arbitrary
contents, as it is not reset.

### Devices

An access to a device stays in MEM while the data cache stalls, and the device is
given it in each of these clocks (core.sv:859-872).  `Uart` and `Clint` have the MEM
stage as part of their state, with the clocks an access will be held chosen freely.
Software is external: it polls before it reads or writes a byte, and sets the 64-bit
registers by the sequences of the RISC-V manual.  A character is one duration
(`CHAR`), its bits are left out.

### Scripts

In `Synt` a path, a name and a setting are atoms; Vivado is external and returns 0
or 1.  Exceptions and `sys.exit` in a worker are kept in the job's future, as
`concurrent.futures` does, and surface in `RaiseResult` only.  In `Autogen` a
generated line is kept as far as another file must agree with it (which event, which
number); a write empties the file first (`OpenForWriting`), so a kill leaves an
empty file.  The scan is stated by what it finds: a BEGIN is paired with the next marker behind it, which
must be an END (`NextMarker`, `find_tag_pairs`), and the pairs are patched from the last to the
first by a recursive function (`Patched`).  `AutogenAssumption` says of the files that a line which
declares the bit of an event stands between markers only, as in the checked-in
sources (ama_riscv_types.svh:735-839).  In `RunStats` a line is text or a dict of a workload; in `Hierarchy` a
design is a tree of instances, blocks and arrays over shared bodies.

## 3. Runs

| run | instance | what it shows | distinct states |
|---|---|---|---|
| `dcache` | 2 sets, 3 ways, 4 tags, 4 words per line, byte stores | `ImplementsAtomicMemory` with liveness, `NoTagDuplicate`, `CleanLineIsCopy`, `VictimSavedFirst`, `HitExcludesPending`; least recently used victim | 62 803 |
| `icache_line` | 2 sets, 2 ways, 3 tags, 4 words | a read-only `AtomicMemory` with liveness, no duplicate line | 163 604 |
| `core_programs` | 52 programs of 9 instructions | `TypeOK`, `ImplementsMachine`, `KeepsRetiring`, `LabelledByOwnPc`, `OwnQuotient`, `HandlerDecodes`, `TrapWriteDrained` | 86 946 |
| `units` | 4-bit operands, three divisions; five instructions over two registers; three bytes in, two out; three timer sequences | `ResultRight`, `OperandsAreLatest`, `MinstretCounts`, `SentOnce`, `ReceivedOnce`, `TimeIsSet`, `ReadConsistent`, `TimerExact` | 1 646 856 |
| `parts` | both caches on one memory: 1 line in each cache, 2 lines of memory; the scripts, see below | `CodeIsIntact`: code survives write-backs beside it; `OnlyStoredLinesChange`: memory changes only where the program stored; the scripts' properties | 95 222 (16 175 of the caches) |
| `memory_fence`, `dcache_latency`, `core_doomed`, `core_cancelled`, `core_wake`, `core_return`, `synt_dry` | – | disagreements of the code with its documents, section 5 | – |

**Bounds of the memory runs.** Three tags over two ways are the least with which a
miss replaces a line that a second miss replaced before it; two sets show that the
set index of the saved request and that of the bus are not confused; four words per
line is the design's figure.  The third way exercises the general LRU rule, which `WAYS = 2` bypasses.  Every word
of the memory starts with its own datum and the banks with another, so a word in
the wrong place is noticed although few data are stored.  Nothing in the caches
counts beyond one miss, and all instances are explored completely.

**Bounds of the core run.** Nine instructions are more than the pipeline holds (five
stages, two of them before EXE, and a fetch), so a loop of three, with a jump
back, and a handler of three cover what can be in flight at a time.  The 52 programs
come in four families (`MCCore`): branches (loads, dependent and nested branches,
divisions on wrong paths, `jalr`), exceptions, interrupts (among jumps, loads, divisions and
`csrci`), and `wfi`.

**What the programs of `core_programs` avoid.** These are preconditions, and each
either has a run of its own that shows why it is there or is work of the plan:
no conditional branches where interrupts are enabled (`core_cancelled`); no `wfi`
directly behind a load (`core_wake`); no `jalr` that is first on a wrong path
behind a load (`core_doomed`); no `mret` behind a conditional branch
(`core_return`); no exceptions, `wfi` or enabled interrupts inside the handler,
which the trap controller does not nest; no `mret` outside of it; no branch to
itself; an illegal instruction is one whose major opcode is neither a branch's nor
`jalr`'s (those raise the exception and count as a branch or a jump as well).

**Bounds of `units`.**  All pairs of 4-bit operands of all four operations for the
first division: every special case and every number of iterations; for the later
ones five pairs, repeated, with a flush at any clock in between, which is what a stale
cache entry needs.  Five instructions in the back end are what MEM, WBK and EXE hold
and two more; the fifteen forms are one or more of each kind over registers 1 and 2,
the least with which a pair overlaps its own half.  The UART is held up to three
clocks in MEM with characters of six clocks, so the hold can cover the arrival of a
byte or not.  Halves of the CLINT's registers have two bits and a microsecond three
clocks, so that carries and wrap-around happen within a sequence.

**Bounds of the scripts in `parts`.**  One to three configs over one or two workers, with a config
that extends a chain, one that takes the name of another, one without macros, one whose image is missing,
one that extends itself and one that extends nothing that exists.  All file lists of
up to five tokens.  For the generator an event list that grows, shrinks and is one too long for
the counters, three checkouts, one kill and one edit.  Logs of three workloads with up to
two dicts each, the first possibly damaged.  24 designs of seven bodies.

**Preconditions of `units`.**  A driver leaves two clocks between a read of UART_RX and the next
poll and one between a write of UART_TX and the next poll (`RxSettle`, `TxSettle`):
the status register is a clock behind.  `Times` leaves out a low half of all ones
(section 5).  An access is not held longer than a character lasts (`MaxHold <= CHAR`), and a
sequence of accesses to the CLINT takes less time than the halves of its registers count
(`ClintAssumption`; section 6 says what each is needed for).

**Fairness.** The clock does not stop.  `Core` has weak fairness of `Next` only.
`DCache` and `ICache` have weak fairness of the cycles of a miss, and nothing
forces the core to present a request.  No fairness is assumed of data, hits or
interrupts: `KeepsRetiring` holds for every sequence of misses and predictions,
and its one exception is a `wfi` no interrupt ends.  `Synt` has weak fairness of
`SyntNext`: the driver and its workers do not stop, and Vivado ends.  The other modules
have no liveness property.

## 4. Abstract specifications

`DCache` and `ICache` implement `AtomicMemory`; `Core` implements `Machine`.
`Machine` is where "precise" is defined: a trap happens between two instructions,
mepc is the first without effect.  Its `Trap` allows an interrupt right behind the
instruction that clears MIE, because `irq.pend` (trap_ctrl.sv:53-63) looks at MIE
when an instruction is in DEC and a `csrci` writes it in EXE; with a guard that
only looks at MIE the refinement fails.

## 5. Where code and documents disagree

* **FENCE.I** (`memory_fence`): README.md:110 lists Zifencei; the decoder accepts the
  instruction and neither cache is told, so a fetch after it may return old code.
* **Latency of a dirty miss** (`dcache_latency`): README.md:198 says 10 cycles; counted
  as the 1 and the 7 of the same line are, it is 11, because the first read of the refill is only sent
  behind the last of four writes.  `MissTakesItsCycles` has the figure for lines of any length.
* **A doomed answer is kept** (`core_doomed`): fe_ctrl.sv:399 says it is discarded when it lands.
  While the data cache stalls, `bubble_dec` has no effect and the hold registers of DEC
  keep it; if it is a `jalr`, the front end waits for ever.
* **An interrupt is cancelled** (`core_cancelled`): trap_ctrl.sv:138 says only exceptions are.
  When it is recognised on a branch, that branch's own entry cancels it, and
  the branch is skipped.  Behind a load the tag of the cancelled interrupt may stay in MEM and be taken
  for that of the next trap, whose CSRs are then written while the trapped instruction is still in MEM.  No
  instruction that takes effect is ever there (`TrapWriteDrained`), which is what csr.sv:167
  needs: `core_programs` has no such programs, the theorem `CsrsWrittenDrained` is about all.
* **A wake-up is lost** (`core_wake`): the pulse that sends the trap's tag down the
  pipeline does not wait for a back end that stalls.
* **A return is lost** (`core_return`): an `mret` flushed from a wrong path leaves the trap
  controller in RESTORE_PENDING.

* **A dry run hides failures** (`synt_dry`): run_synt.py:202 says it generates the files;
  a worker that raises before is never asked for its result, and the script ends with 0.

In the four of the core `KeepsRetiring` or `ImplementsMachine` fail as well on the same
programs; the run checks the narrower statement the comment makes.  All four
statements hold in `core_programs`.

What follows contradicts no document, or none that states it, but a reader of the
properties should know of it, since some of them leave the case out.

* **UART, a byte lost** (`raced` in `ReceivedOnce`): a read of UART_RX that a data-cache stall holds
  in MEM empties the buffer in each of its clocks.  When the next byte is buffered meanwhile, one
  load takes both, and one of the two is lost.  A byte that arrives while the buffer is full is lost as well: the line has
  no back-pressure.
* **CLINT, a held write**: a write of an all-ones low half of mtime is repeated in each clock it is held in
  MEM.  A tick in a later one of them finds the low half at all ones and carries into the high half,
  and the low half is written all the same: the time ends one high half too large.  Every other value
  is safe.
* **Event generator**: a run killed between emptying a file and writing it leaves the file empty,
  which the next run reports.  A kill after the last end marker was written loses the
  hand-written text behind it, and the next run reports success (autogen_perf_events.py:353 writes in place).
  Where the submodule is not checked out the RTL is patched and the software is not; the exit
  status says so.  An event that is both `isa_sim` and `isa_sim_hw_model` gets two enumerators.
  The check for duplicates (line 31) looks at the keys of a dict and cannot fail.
* **Run statistics**: a log that lacks one dict of 2n passes the count after the selection of every
  other one, and every later workload gets its neighbour's numbers (`RightWorkload` speaks of
  complete logs for that reason).
* **File lists**: '/src/' is looked for in the whole expanded path, so verification files are taken
  for design files in a checkout below a directory named `src`.
* **PLL search**: frequencies are compared exactly in floating point, so for 55 MHz nothing is
  printed, though the table in the RTL has 11/20; a VCO of 1600 MHz, a multiplier of 64 and a
  divider of 128 are left out by the ends of the ranges.
* **Hierarchy viewer**: the graph expands the first body of a module only; where bodies of one module
  instantiate different modules (a parameter switches a generate block, as for the branch predictor)
  it shows those of the first (`OneBodyPerModule` in `GraphComplete`).

## 6. Proofs

**`DCache`**, for every number of tags, sets, ways and words per line (two or more words), every
set of lanes and data, every set of requests and every initial content of memory
and banks.  The assumptions are `TypesAssumption` and `DCacheAssumption`.

| theorem | property |
|---|---|
| `TypeCorrect` | `TypeOK` (not in a run: `dcache` checks what follows from it) |
| `LruAlwaysRanks` | `LruIsRanking` |
| `InductiveInvariant` | `Inductive`, behind the three below |
| `NoLineInTwoWays` | `NoTagDuplicate` |
| `CleanLinesAgree` | `CleanLineIsCopy` |
| `LruWritersExclude` | `HitExcludesPending` |
| `VictimIsSaved` | `VictimSavedFirst` (an action property) |

*Types* are inductive alone, given that every access of the LRU logic stays below the
top rank; *ranking* is inductive with them: an access to `w` counts up the ways
ranked below it, which leaves a permutation.

*`Inductive`* is needed because no safety property is inductive by itself.  It
says where the counters stand in each phase (`PhaseInv`: in DC_EVICT the bank
counter is one ahead of the bus counter, which is one ahead of the delayed one),
what the metadata says of the line being replaced (`VictimInv`: the missing tag is in
no way until the refill is over, a dirty line is valid), and which words have moved
(`TransferInv`: the words of the victim up to the delayed counter are in memory,
those of the new line below it are in the bank).  The duplicate tag is excluded by the
second, a clean line's equality with memory at the end of a refill comes from the
third, and a saved victim from the end of DC_EVICT.

`DCacheProofs` computes, for each action, what the step does to the registers
once the phase is known (the `...Effect` lemmas), then takes each part of the
invariant through each step (the `...Step` lemmas); the theorem has one case per
action.

`DCacheRefinement` then proves the safety part of `ImplementsAtomicMemory` for
every geometry:

| theorem | what it says |
|---|---|
| `SafelyAtomic` | `HSpec => Abstract!Init /\ [][Abstract!Next]_(Abstract!vars)` |

`HSpec` is the cache with the history of `DCacheHistory`, which adds nothing to what the
cache does (`HistoryIsCache`); `accepted` is among the variables of the abstract memory, so the
theorem is about hits as it is about misses.

The memory of the abstract specification is `CoreView`: for a line some way holds, and that is
not being refilled, the bank of that way, and main memory for the others.  `NoTagDuplicate`
makes it a function of the line (`ViewOfLines`).  A refill, a write-back and the end of either
leave the view alone (the `ViewKept...` lemmas: this is where `CleanLineIsCopy` and
`TransferInv` are needed), a store changes exactly its word (`StoreSeen`), and a load is answered
with the word its request names in the view (`LoadHitAnswer`, `ServeLoadRefines`).  `StepRefines` puts the actions
together.  That each request is answered in the end is left to the run.

Over the rest of the history it proves two more:

| theorem | property |
|---|---|
| `HistoryInvariant` | `HistoryInv`, behind the two below |
| `VictimIsTheOldest` | `VictimIsLeastRecent` |
| `MissTakesItsCycles` | `LoadLatency`: L + 3 cycles for a line of L bus words, 2L + 3 with a write-back (not in a run; `dcache_latency` has the documented figures) |

`RecencyInv` says that the LRU counters of a set are the positions of its ways in the order of
last use, way for way: the top counter is then the least recently used one.  An access moves
one way to the front of the order and counts up exactly those before it
(`TouchMovesToFront`).  `LatencyInv` gives the age of the access as a function of the bus counters in
each phase, which at the last word is the figure the property states.

**`ICache`**, for every geometry, memory image and set of fetches (`TypesAssumption`,
`ICacheAssumption`).

| theorem | property |
|---|---|
| `TypeCorrect` | `TypeOK` (not in a run) |
| `OneWayPerLine` | `NoTagDuplicate` |
| `InductiveInvariant` | `Inductive`, behind the one below |
| `SafelyAtomic` | the safety part of its `ImplementsAtomicMemory`, of hits and misses, over the history of `ICacheHistory` |

`OneWayPerLine` needs no fact about the bus: the line asked for is in no way from the cycle of the
miss until the tag is written (`MissedIsNowhere`, `RefilledElsewhereNever`).  The atomicity does:
`PhaseInv` and `RefillInv` place the delayed counters and the registered read of the port
against each other and say which words of the new line are already in the bank, from which
`LinesAreCopies` follows when the last one arrives.  The memory may change under the
cache: all of it is proved for a set of lines that keep their words (`K`), every line for
`ICache` alone and the lines never stored to for `MemorySystem`.  The view of a fetch is then
main memory itself (`ViewIsMemory`).

**`MemorySystem`**, for every geometry of both caches.

| theorem | property |
|---|---|
| `ImageIsKept` | `OnlyStoredLinesChange` |
| `CodeStaysIntact` | `CodeIsIntact` |

The data cache's `Inductive` holds here too, since a clock of the two caches is one of the
data cache (`DataStepIsNext`).  `StoredInv` adds where stored lines may be: a dirty line, and the line
a waiting store was accepted for, is one the program stored to.  Only dirty lines are
written back (`WritebackStored`), and the tag of the waiting store's line is in its way when
the store is performed (`ServeStoreStored`); the second needs `VictimInv`.
`CodeStaysIntact` puts the two caches' invariants together: a line that is not among the stored
ones has its first words in memory by `ImageIsKept`, so a clock of the system is one
of the instruction cache with `K` the lines not stored to, and what it answers for such a
line is the program's.  A line that is stored to while it is being refilled may be a mixture: it
leaves `K` with the store.

**`BackEnd`**, for up to 32 registers, any set of instructions in which only format
conversions and SIMD operations are paired, and programs of any length (`BackEndAssumption`).

| theorem | property |
|---|---|
| `OperandsAreRight` | `OperandsAreLatest` |
| `MinstretIsExact` | `MinstretCounts` |

`OperandInv` says that the register file, after WBK and MEM have written what they will, is what
the instructions that left EXE add up to (`AfterMem`), and that an operand saved in EXE is right
unless MEM or WBK still gives it (`SavedRight`).  A result that MEM or WBK does not have yet is
exactly what the two hazards stall for, so the operand is right when EXE is left
(`ResolvedRight`).  `CountInv` says that minstret, the instruction in the delayed strobe and
those in RET, WBK and MEM, without the one that wrote the counter, add up to what left EXE
since; a write finds the stages drained (`DrainedIsCounted`).

**`Uart`**, for characters of any length and any number of bytes (`UartAssumption`).

| theorem | property |
|---|---|
| `UartInvariant` | `UartInv`, behind the two below |
| `BytesSentOnce` | `SentOnce` |
| `BytesReceivedOnce` | `ReceivedOnce` |

What has to be shown is that the permission a poll gave still holds when the access it
allowed takes effect, any number of clocks later.  `AllowedBy` says that from the poll on the
state it saw does not go away by itself: a transmitter that was free stays free until software
writes (`TxQuiet`), a byte that was there stays there until software reads (`RxFresh`).  The rest
says where each byte is: sent, in the transmitter or still to be written; taken, in the
buffer, on the line or lost.  A write held in MEM is taken in its first clock, and the
transmitter refuses it in the others because a character lasts longer than the hold
(`MaxHold <= CHAR`); the two settling times are the least for which a poll does not read the
status of before the last access.  Each of the three bounds is tight: TLC finds
`SentOnce` or `ReceivedOnce` violated with one clock less.

**`Clint`**, for registers of any width, any length of the microsecond and any number of
sequences (`ClintAssumption`).

| theorem | property |
|---|---|
| `ClintInvariant` | `ClintInv`, behind the three below |
| `TimeStaysSet` | `TimeIsSet` |
| `TimerOnTime` | `TimerExact` |
| `ReadsAreTimes` | `ReadConsistent` |

The invariant follows the sequences through their accesses.  *Setting the time*
(`SetTimeInv`): from the write of 0 to the low half on, the low half has counted no more microseconds than
clocks allow, so it does not carry into the high half that is being written.
*Setting the comparator* (`SetCompareInv`): its low half is all ones until the new high half is
there, so it is never before both the old and the new alarm.  *Reading* (`ReadInv`): the halves
seen are halves of times in the order of reading, less than a turn of the high
half apart, so equal high halves mean that the low half was read between two
times with that high half.

The assumption bounds how long software takes over a sequence, a gap and a wait per
access, against the range of the registers: without it a driver that is
interrupted for 2^32 microseconds between two of its accesses reads a time that never was.  In the design
a half has 2^32 values, so the bound is more than an hour.  The first of its two
inequalities is tight (a `MaxWait` one larger violates `TimeIsSet` in a small instance).
`Times` leaves out a low half of all ones, for the reason section 5 gives.

**`Divider`**, for words of any width and any number of divisions (`DividerAssumption`).

| theorem | property |
|---|---|
| `DividerInvariant` | `DividerInv`, behind the one below |
| `ResultIsRight` | `ResultRight` |

`Divided` is the invariant of the loop: with *i* bits to come, `quot` and `rem` are the
division of the bits before them, and the *i* bits stand at the top of the register
(`IterateDivides`).  It holds at a normalised start because the bits that are skipped are zeros in
front of a number less than the divisor (`StartCount`, from what the leading-zero
counts say, `LeadingZeros`), and at the end no bits are to come.  `SignsPutBack` takes the division of the
sizes to the one quotient that is rounded towards zero (`OneQuotient`); `SpecialRight` has the four
cases without iterations.  `Underway` adds that the operands in the cache are those of
the division under way and that its entry is not valid, so that a flush leaves either a whole
entry or none.  The laws of powers of two are not assumed: 2^n is the number of sets
of n bits, and sets of m + n bits are pairs (`PowerSum`).

**`Core`**, for every set of programs in which a jump has a target, any times of the instruction
cache and the divider, and any times of the data cache above two cycles
(`ProgramAssumption`, `CoreAssumption`).  A miss of the data cache fetches a line of several words and
takes longer (`MissTakesItsCycles` above).

| theorem | property |
|---|---|
| `TypeCorrect` | `TypeOK` |
| `DivisionsAreOwn` | `OwnQuotient` |
| `WordsKeepLabels` | `LabelledByOwnPc`, from `[]HandlerDecodes` |
| `LegalWordsKeepLabels` | `LabelledByOwnPc`, for programs without illegal instructions |
| `CsrsWrittenDrained` | `TrapWriteDrained`, from `[]HandlerDecodes` |
| `LegalCsrsWrittenDrained` | `TrapWriteDrained`, for programs without illegal instructions |

`TypeOK` alone is not inductive: mepc is 0 from reset to the first trap and an empty slot leads nowhere.
`StagesInv` says that what can steer the front end from MEM leads to an address, `TrapInv`
that the address of a trap has been saved in each state of the trap FSM that uses it.
`OwnQuotient` needs `QuotientInv`: the division the divider was started for is the one in EXE,
there are speculated branches only while the state says so, and while an answer is stale or the
trap FSM is past its entry either nothing is speculated or EXE holds no division.  The last two
say that no flush passes a division by: a wrong speculation with a division in EXE empties EXE
as well (`NoDivisionMissesAFlush`), so a unit that starts again finds another instruction there.

The last four theorems do without the other preconditions of section 3: they hold of programs that
hang or go wrong otherwise, those with interrupts on mispredicted branches included.  Their one condition is a
property of a run, `HandlerDecodes` of `core_programs`: an illegal instruction inside a handler does not trap, does not
move the PC on and is fetched past, so the next word would come under the label of the illegal one.  It
follows for programs that have no illegal instruction (`LegalDecodes`).

`LabelInv` is the inductive invariant.  `Answer` says that an answer is the PC's unless it is stale or a
trap is on its way; `HeldOwn` and `HeldLate` say the same of what DEC holds for a stalled back end.  `Asked`,
`Stale` and `Asleep` say where an answer comes from in each state of the front end, and `Entries`, `InFlight`, `Flow` and
`Jump` that a branch with an entry is in EXE or MEM and a jump in EXE is the one waited for, or that the jump
waited for is lost (`core_doomed`) and nothing comes from the cache any more.  The proof takes the steps in two stages.  `NextSteers`
shows of the twelve actions that what they tell the front end satisfies `Asking` (an address is asked for
when the PC moves there) and `Sending` (DEC is sent on only while nothing is pending); every part of `LabelInv` then
follows for any cycle that satisfies these.  For `TrapWriteDrained`, `Tags` says that a tag has nothing
behind it, and `Drained` that the tag of a return is on its way only while the trap controller waits for it.
The tag of an interrupt may be left over from one that was cancelled, and then end the wait of a later trap; but
what is behind a tag, or is trapped itself, is without effect (`Forms`), so the write finds nothing live in MEM and WBK
whichever trap the tag was of (`WrittenDrained`).

**`Synt`**, for every command line, every set of config files, any number of jobs and
workers and whatever earlier launches left.  The assumption is `SyntAssumption`:
a return code is neither "no value" nor "raised", and the macros of a config are a section.

| theorem | property |
|---|---|
| `LaunchInvariant` | `SyntInductive`, the inductive invariant |
| `SuccessIsComplete` | `SuccessMeansAll` |
| `WorkersEndFirst` | `NoOrphans` |
| `FilesAreOwn` | `OwnArtifacts` |
| `MacrosAreOfNearest` | `DefinesOfNearest` |
| `LaunchTypes` | `SyntTypeOK` (not in a run) |

`SyntInductive` has six parts.  `InOrder` and `OwnNames` say that job *n* was made from the
*n*-th config and that no two jobs share a name; from it follows that no two share a
directory (`OwnDirectories`), which is what `FilesAreOwn` needs against jobs side by side.  `Phases` ties
the workers to the driver: there is a worker per job from `Submit` on and a status only at the
end.  `Collected` says that what main() holds under a job's name is that job's outcome: this,
with `Outcomes` (a finished job of a real launch has a return code or has raised), turns "all results
are 0" into "all jobs returned 0".  `Artifacts` says that a worker that has written a file still
finds its own.  There is a lemma for each kind of step (`LoadStep`, `SubmitStep`,
`WorkerStep`, `TakeStep`, `ExitStep`), and `StepInductive` combines them.

`MacrosAreOfNearest` is about chains of any length, so it needs induction.  The library's induction
theorems take an operator, which the provers cannot instantiate, but a set does as well: the numbers of which
a fact is shown are a set, the numbers have a least element in every non-empty set (`LeastNumber`, from
`NatLessThanWellFounded` and `WFMin`, which take none), and so a set with 0 and all successors has them all
(`SetInduction`).  By it the function `load` in `Resolved` exists (`LoadExists`), and what it
returns for a file sets each macro as the nearest file from there on does (`SaysNearest`): a merge
takes the macros of the upper file and those of the rest it does not mention (`MergedDefines`).

**`FileList`**, for lists of any length over any options and words (`FileListAssumption`).

| theorem | property |
|---|---|
| `TokensAreTakenOnce` | `TokensTakenOnce` |

Whether a token is an argument depends on how many options stand before it without a word in between.
`FileListInv` says that the loop stands behind an even number of them (`EvenRun`), so the token
it looks at is no argument and the one behind an option is (`Runs`); and that each list is what stands at
its places before the loop (`Lists`), which grow by one place with the list (`ListGrows`).

**`RunStats`**, for any number of workloads and logs of any length and any loss of lines
(`RunStatsAssumption`: what is in a log was printed in the order of the workloads, two dicts each).

| theorem | property |
|---|---|
| `WorkloadsAreRight` | `RightWorkload` |

`RunStatsInv` says that what was taken of a log are the dicts with an even number of dicts above them
(`Taken`).  In a complete log the dict with 2(*n* - 1) above it has just as many below it as workloads after
*n* print, and order leaves it one place: the first of workload *n* (`FirstOfWorkload`, by
counting from either end).

**`Autogen`**, for every list of events and every content of the nine files, any number of events, kills and
edits.  The assumption is `AutogenAssumption`.

| theorem | property |
|---|---|
| `AutogenInvariant` | `AutogenInductive`, the inductive invariant |
| `PatchKeepsHandWritten` | `HandWrittenKept` (an action property) |
| `SuccessIsInStep` | `SuccessMeansInStep` |
| `EncodingsAlwaysAgree` | `EncodingsAgree` |

The regions of a file are what the scan finds, and nothing else is: `FoundAreRegions` and
`RegionsAreFound` characterise `find_tag_pairs` by the order of the markers, without mention of the
scan.  One splice then moves the markers behind it by the difference in
length and leaves those before it, provided that the body has no marker in it (`SpliceKeeps`); no
generator writes one (`GeneratedPlain`).  The pairs are patched from the last to the first, so the
places of those still to be patched stay right: `PatchedKeeps` is the induction over them, by
`SetInduction` as in `Synt`.  A patched file therefore has the same pieces of hand-written text and the
new bodies, which is `HandWrittenKept`, and a second scan finds nothing to change.

`AutogenInductive` says that the files before the target in the order of the run have been patched with
the events it loaded as long as no error was noted (`DoneAreInStep`), that the file being written is the one
whose old text is kept (`WriteInFlight`), and that every file is a sequence of lines whose bits stand
between markers.  A kill forgets what was done; the next run starts from the first file.  For
`EncodingsAgree` the bits of a file are those of its body (`BitsOfBody`), and the body declares for each event its
place in the list of RTL events (`BitsGenerated`).

## 7. What is only model-checked

* Liveness and ENABLED, which are out of the prover's reach: the liveness part of
  `ImplementsAtomicMemory`, `KeepsRetiring` and `EveryJobRuns`.
* `ImplementsMachine` of `Core`, which does not hold of every program: section 5 has programs that break it.  A
  theorem would need their exclusion as conditions on programs that are no weaker than the run's choice of them.
* `HandlerDecodes`, the condition of two theorems about `Core`: whether an illegal instruction is reached inside a
  handler is a matter of the program.
* `Hierarchy`: it uses RECURSIVE operators, as the source recurses over a tree, and what they compute is an
  induction over trees.  `Pll`: its one constant is the pairs whose quotient is not exact; the run evaluates the one
  search there is, and the property compares it with the table of numbers in the RTL.

## 8. What is not modelled

The branch predictor's training and the performance events: they change how long a program
takes, not what it does, and `Core` allows every prediction.  mcycle and the event
counters; the priority between two interrupt sources, mcause and mtval; the execution units,
which are arithmetic without control state; the decoder's tables beyond the class of an
instruction; the bits of a character on the serial line; board glue; the FPGA memory
primitive (ama_riscv_mem.sv in FPGA builds, a vendor macro); `common/fifo.sv`, which no
built design contains; the testbenches, `run_test.py` and the printing helpers.
`PROJECT.json` lists every component with its status and every hazard with the properties
that cover it.

## 9. Plan

1. `Core` with two interrupt sources and mcause (the priority in trap_ctrl.sv:65-80), and
   with `ICache` and `DCache` in place of the busy counters, on small programs.
2. `Counters` (`ama_riscv_csr.sv`): mcycle, the event counters and read-set-clear in 64 bits.
3. `Predictor` (`ama_riscv_bp.sv`, `ama_riscv_pht.sv`): whether training reaches the branch it
   came from when two are in flight.

Components that share nothing share a run (`units`, `parts`).
