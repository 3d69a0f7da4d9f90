# AstraRV32 in TLA+

A verification project for the AstraRV32 processor: a dual-core capable RISC-V
system-on-chip in VHDL (`src/rtl/core`), with a bare-metal C library and a
bootloader (`src/sw`). The specifications describe the hardware at the level of
clock cycles and the software at the level of device accesses and instructions
that matter. They check, with TLC and TLAPS, the behaviour that single test
programs hardly reach: arbitration, atomicity, caching, timeouts, traps,
interrupts in any order, two cores, power failures and damaged data.

## 1. Inventory

### Components, their state and their operations

| component (file in `src/rtl/core/astrarv32_*`) | state it keeps | operations |
|---|---|---|
| FIFO primitive (`prim.vhd`) | read/write pointers, RAM, registered status and data | write, read, clear, all in one cycle |
| bus switch (`bus.vhd`) | arbiter state, caught strobes, locks at grant time, registered select | catch a strobe, grant, hold a lock, route the response |
| gateway with bus monitor (`bus.vhd`) | monitor state, lock, selected section, timeout counter | accept, monitor, time out, answer with errors |
| XBUS bridge (`xbus.vhd`) | pending, locked | open and close a Wishbone cycle |
| read-modify-write controller (`bus.vhd`) | FSM, operation, read and write data, ALU result | read, execute, write |
| reservation set (`bus.vhd`) | reservation (valid, core, block), turn, result flags | load-reserved, store-conditional, invalidate |
| cache (`cache.vhd`, `cache_ram.vhd`) | control FSM, valid/dirty/tag/data memories and their output registers | hit, refill, write-back, bypass, synchronise |
| load/store unit (`cpu_lsu.vhd`) | request, data and lock registers | load, store, atomic access |
| CPU front-end (`cpu_frontend.vhd`) | fetch FSM, two prefetch FIFOs, issue alignment | fetch, restart, issue |
| CPU control (`cpu_control.vhd`) | execution FSM, PCs, trap and interrupt buffers, CSRs, debug mode | dispatch, execute, trap entry and return, sleep |
| floating-point unit (`cpu_alu_fpu.vhd`) | functional units with serial steps | add, multiply, compare, convert, classify, round |
| rest of the data path (`cpu.vhd`, `cpu_alu*.vhd`, `cpu_regfile.vhd`) | register file, co-processor FSMs | arithmetic |
| memory protection (`cpu_pmp.vhd`), counters, triggers, trace | CSRs, counters | configure, lock, match, count, log |
| on-chip debugger (`debug_*.vhd`, `ocd-firmware`) | TAP, DMI registers, command FSM, program buffer | halt, resume, abstract commands |
| DMA (`dma.vhd`) | control register, descriptor FIFO, transfer FSM | fetch a descriptor, copy, finish |
| CLINT (`clint.vhd`) | 64-bit time, compare registers, software interrupts | count, compare, trigger |
| peripherals (`uart`, `spi`, `sdi`, `twi`, `twd`, `onewire`, `slink`, `neoled`, `smc`, `gptmr`, `wdt`, `pwm`, `gpio`, `trng`) | control registers, FIFOs, serial engines | register access, transmit, receive, interrupt |

| component (directory in `src/sw`) | state it keeps | operations |
|---|---|---|
| runtime environment (`lib/source/astrarv32_rte.c`) | handler table of both cores, saved context | set up, install, dispatch a trap, step over an instruction |
| dual-core start (`lib/source/astrarv32_smp.c`, `common/crt0.S`) | launch mailbox in core 1's time compare register | request, acknowledge, give up |
| drivers (`lib/source`) | device registers | set up, start, poll, acknowledge |
| console, heap, helpers (`astrarv32_uart.c`, `_newlib.c`, `_aux.c`) | line buffer, heap pointer | line input, streams, number and date formats |
| bootloader (`bootloader`) | base and size of the executable, flash address, file system, card type | auto-boot, load, store, start |
| image generator (`image_gen`) | file contents | write an image in a format |
| test and demonstration programs (`example`) | counters, shared variables, locks | processor check, floating-point test, dual-core demos, DMA, CLINT, unaligned loads |

### Interaction

All components share one clock. A *request* is a one-cycle strobe with address,
data and a lock signal; it is followed by exactly one acknowledge per strobe, in
order, in a later cycle. The request path is

    load/store unit -> D-cache \
                                core switch -> [other core] complex arbiter -> DMA switch
    instruction fetch -> I-cache /                                  -> read-modify-write controller
                                                                    -> reservation set -> gateway
                                                                    -> memories, IO switch, XBUS

and between the registers of these components everything is combinational: a
strobe may cross four arbiters in the cycle in which it is sent. Interrupts are
level signals into the CPU; `fence`/`fence.i` are one-cycle pulses into the
caches. The software sees registers on the IO bus and the memory.

### What is hard

* **Arbitration**: strobes of two masters in any relative timing, locks that span
  several strobes, response routing by a registered select.
* **Atomicity**: an atomic operation is two bus accesses, a store-conditional
  depends on everybody's writes, a cache block on both.
* **Timeouts and errors**: a window per section that restarts with each answer,
  late external answers, errors in the middle of a block.
* **Memories with latency**: FIFO and cache status are registered, so every user
  acts on data one cycle old.
* **Traps**: requests are buffered, prioritised and acknowledged in different
  cycles while CSR writes change what is enabled.
* **Split registers**: 64-bit time, compare registers and counters are accessed in
  halves while they run; the carry between the halves is a register itself.
* **Two cores**: a mailbox that is rewritten after a time-out, shared variables
  without locks, locks on a single reservation, one table of trap handlers.
* **Crash and damage**: the power fails during a store to flash; cards, volumes,
  uploads and acknowledges fail.
* **A long sequence**: about sixty tests after one another on one hart, with devices
  that finish whenever they like.
* **Numeric edges**: rounding, half words, buffers and calendars at their ends.
* **Pipelined coherence**: `fence.i` starts two caches at once, the fetch runs ahead.

The list of hazards with their source lines and the properties that cover them
is in `PROJECT.json`.

### What makes each component correct

* FIFO: a bounded queue whose flags never lie.
* Bus switch: no strobe lost or doubled, no foreign acknowledge, locks exclusive,
  no starvation.
* Gateway, XBUS: every access ends within its window, with its own answer.
* Atomics: memory seen by all masters is an atomic memory.
* Cache: invisible to software, except through fences that really flush.
* CPU control: traps are taken once, for the right reason, at the right PC.
* Front-end: the issued instruction stream is the one at the program counter.
* DMA: what the software is told of a job is what happened to the memory.
* CLINT: the timer is one number although it has two halves.
* Memory protection: accesses are decided as the architecture says, locks hold.
* Floating point: the unit gives what IEEE arithmetic gives.
* Dual-core software: a launch is what it reports, shared data stay whole.
* Bootloader: only verified executables start unasked, what is stored can be loaded,
  and the loader comes back.
* Test programs: no test depends on what another one left behind.
* Library: right for every argument.


## 2. Modelling conventions

* **Hardware: one step is one rising clock edge.** Combinational paths are operators
  over the current state and the inputs of the cycle; registers are variables.
  Everything one edge does to a register, including what another process of the same
  entity does, is part of the step.
* **Software: one step is one access to what it shares** with a device, another core or
  an interrupt handler; what lies between two accesses is part of the step before.
  Programs of which only some instructions matter (`ProcessorTests`, `DualCore`) are sequences
  of operations, and there is one action per operation. Calls that nothing can disturb
  are operators from state to state (`CpuCsr`, `Console`), pure ones plain operators.
* **Scaled data.** Widths are constants: bytes of four values, half words of eight
  clocks, floating-point numbers of eight bits. The code's numbers are written as
  the expressions of the widths they stand for (127 is `Bias`).
* A **component module** (`BusSwitch`, `BusGateway`, `Xbus`, `AmoRmw`, `AmoRvs`, `Cache`,
  `Clint`, `Rte`, `SdCard`, `PetitFat`, `Fpu`) holds a part's state, its outputs and one
  action per controller state or routine, with the inputs as parameters. A **composing
  module** (`SwitchedBus`, `SystemBus`, `SmpMemory`, `CachedMemory`, `CodeCoherence`,
  `Dma`, `DualCore`, `SelfTest`, `Bootloader`, `Library`) wires components together, adds
  hosts and devices around them, and has the specification or, for `Dma` and `SelfTest`,
  which are suites of `Library`, the initial states and the next-state relation. `PrimFifo` and `CpuControl`
  are both.
* A property that a run names may be a conjunction of named parts with one subject
  (`TrapsPrecise` is `PreciseTrap` and `InterruptAfterInstruction`); each part has its own
  comment.
* An **MC module**, or the last section of a composing module, gives the constants small
  values. A `*Proofs` module has the theorems of the module of that name; it is not used by TLC. `CpuProofs` has those
  of `CpuControl` and of `CpuCsr`, `DualTimerProofs` those about the timer in `DualCore`.
* Signals keep their VHDL names where TLA+ allows it (`sel_q`, `sc_pend_pass`,
  `irq_buf`, `env_pend`); FSM states are the strings of the VHDL enumeration.
* A definition named like another one with a suffix (`epcAlwaysNext`,
  `DoneIgnoresLock`) and commented `Fault:` is a plausible bug. `PROJECT.json`
  lists for each property the fault that breaks it: the property speaks about the
  code and not about the shape of the model.

## 3. Modules

### FIFO: `PrimFifo`, specified by `BoundedQueue`

`PrimFifo` is the FIFO of `prim.vhd` with every register: pointers with a wrap
bit, RAM, the registered `avail_o` and the RAM's output register. Its single
action `Clock` takes arbitrary `clear`, `we`, `re`, data: nothing is assumed about
the users. `BoundedQueue` says what a FIFO promises; `ImplementsQueue` is the
refinement, with `Entries`, the RAM slots from `r_pnt` on, as the queue. `ReadPort`
says what the lagging outputs are worth to a consumer. TLC checks both on the
DMA's descriptor FIFO, TLAPS proves them for arbitrary users.

### Bus: `BusSwitch` in `SwitchedBus`; `BusGateway` and `Xbus` in `SystemBus`

`BusSwitch` is the two-port arbiter: FSM (`state`), strobe latches (`pend` for
`a_req`/`b_req`), `lock`, `sel_q`. It is used three times in `top.vhd` and three
times here: with arbitrary hosts in `SwitchedBus`, as the complex arbiter and the
DMA switch in `SmpMemory`, and between the two caches in `CodeCoherence`.
The hosts of `SwitchedBus` are the bus masters reduced to their handshake: single
accesses (fetch, load/store, DMA), single accesses under a lock (atomics), and
locked streams (cache blocks), any of which may start in any cycle.

`BusGateway` is the bus monitor (`keeper`) of the gateway with its timeout counter
and error state, `Xbus` the Wishbone bridge behind one of the ports. `SystemBus`
drives them with a host that may follow an answer with its next strobe at once,
and with sections that answer in time, at any time, or never. Windows are rounded
up to powers of two as `index_size_f` does. The constant `LateAnswers` lets an
external device exceed its window.

### Atomics: `AmoRmw`, `AmoRvs` in `SmpMemory`, specified by `AtomicMemory`

`AmoRmw` is the read-modify-write controller (all five states, swap, add, signed
and unsigned minimum and maximum on words of `XLEN` bits), `AmoRvs` the shared
reservation set with its `turn`. `SmpMemory` wires two cores, the DMA, two bus
switches, both atomics and a memory as `top.vhd` does; between the registers
everything is combinational. `AtomicMemory` promises that each access, an atomic
operation included, is one indivisible step and that a store-conditional succeeds
only on an intact reservation; `IsAtomic` is the refinement.

### Caches: `Cache` in `CachedMemory` and `CodeCoherence`

`Cache` is the controller with bursts and without, read-write and read-only,
including the memories whose outputs lag by a cycle. `CachedMemory` puts a load/store
unit in front and a memory with errors behind it; it implements `AtomicMemory` with
`View`, the cached word if there is one, as the memory, unless a block that cannot be
written back is replaced (`Writable`, section 6). `CodeCoherence` has a
core's two caches, their switch and software that stores code, executes `fence.i`
and fetches it, without anything in between, as the bootloader does (`system.c:326`).

### CPU: `CpuControl`

One action per state of the sequencer (`exec_comb`), with everything else that the
same edge does in `Edge`: the trap buffer, debug-mode control, the CSR update, the
control bus register, the multi-cycle monitor. The state `S_DISPATCH` has three
actions (a trap is pending; no instruction yet; an instruction is issued),
`S_MEM_RSP` two (no answer yet, the bus answers).

| in the model | in `cpu_control.vhd` |
|---|---|
| `state`, `op`, `pc2` | `exec.state`, `exec.ir` reduced to a class, the origin of `exec.pc2` |
| `ctrl` | `rf_wb_en`, `csr_we` and `lsu_req` of the registered control bus `ctrl` |
| `exc_buf`, `irq_pnd`, `irq_buf`, `env_pend` | the same, as sets instead of vectors |
| `csr` | `prv_level`, `mstatus_mie`/`mpie`/`mpp`, `mie_*` as a set (`mask`), `dcsr_step`/`ebreakm`/`ebreaku`/`prv` |
| `run` | `debug_ctrl.run` |
| `monitor_cnt` | `monitor_cnt`, with the limit `CP_TMO` |
| `refetch`, `lsu`, `lines` | the front-end's delay, the LSU's verdict, the request lines |
| `effects`, `enabled` | history: what the current instruction has changed, and whether it could be interrupted |

The software is any sequence of the instruction classes in `setup.ops`, the
hardware raises any line of `setup.lines` at any time and lowers it when the
software stores to the device (or, for the halt request, when the CPU has halted).

### DMA: `Dma` on `PrimFifo`

The control register (`ctrl`), the engine with all its states (`bus_engine`), byte
lanes, alignment and swapping are those of `dma.vhd`; the descriptor FIFO is `PrimFifo`
itself, which the engine pops while its flags lag. The software programs descriptors
with `astrarv32_dma_program` or `_nocheck`, starts them, polls, waits for the interrupt
or gives up, acknowledges and goes on with its next job, one register access every
other clock at the fastest. The memory answers like `dmem.vhd`, and addresses beyond it like the gateway.
The module's transitions are a suite of `Library`, which runs them. `Expected` is what the descriptors mean, element by element.

### CLINT and two cores: `Clint` in `DualCore`

`Clint` has the time with its registered carry, the compare registers in halves, the
comparator over two clocks, and the software interrupts. `DualCore` runs five programs on
two cores over the reservation set (`AmoRvs`): `message` (`demo_dual_core`), `retry` (the
same with a second launch after a time-out), `primes` (`demo_dual_core_primes`), `rte`
(`demo_dual_core_rte`) and `clock` (`demo_clint` on core 0). `code[c]` is what core c
still has to do, a sequence of operations; `Strobe` and `Answer` are the two halves of a
bus access, `Inside` the operations that touch nothing shared, `Trap` an interrupt or
call. `launch` is the driver's state, `boot` what core 1 took from the mailbox.

### Runtime environment and processor check: `Rte` and `ProcessorTests` in `SelfTest`

`Rte` has trap entry and return of a hart and the first-level handler: it saves the
context, calls the installed handler, steps over the instruction of an exception and
returns. `ProcessorTests` is the text of `processor_check/main.c`: its beginning (`main.c:144`-`:167`, with
the accesses to both UARTs that come before the handlers are set up) and its tests in their order. A test is a record
of the features it needs, its operations and the cause it expects. `SelfTest` executes them; `t` and `k` are the
program counter. An interrupt (`Interrupt`) is taken whenever it is enabled, a device
(`Finish`) finishes whenever it likes, except where the code executes `nop`s to wait for it
(`Nops`), the test program's own assumption about timing. An access to a device that is not there is a bus error.
Like `Dma`, it is a suite of `Library`.

### Bootloader: `SdCard`, `PetitFat`, `BootImage` in `Bootloader`

`SdCard` is the identification of a card and the sector addressing (`diskio.c`), `PetitFat`
mounting, path search and reading (`pff.c`), one disk access per step, each of which may
fail. `BootImage` is the executable format the image generator writes and the loader
reads. `Bootloader` is `main.c` and `hal/source`: auto-boot with time-out, console, loading from
UART, TWI, SPI and SD card, storing with erase, the confirmation prompts, starting.
The loops that wait for the end of an erasure or a write (`spi_flash.c:158`, `:227`, `twi_flash.c:92`) are
states of their own (`erase_wait`, `program_wait`, `write_wait`), and the memory need not come to an end
(`FlashDone`, `WriteDone` have no fairness).
`PowerCut` is possible in every state and keeps the memories; TWI bytes may go
unacknowledged; the host sends sound, damaged and incomplete uploads. `hist` remembers
what was confirmed by the user and what a store reported.

### Library: `CpuCsr`, `LibAux`, `Console`, `ImageFormats`, `Unaligned`, `FloatCheck` in `Library`

* `CpuCsr`: the protection registers with the driver's calls, each call one step from
  register state to register state, in any sequence; `Bytes_of` and `Protected` are the
  architecture's reading of the registers. The cycle counter runs while the driver sets
  and reads it in halves.
* `Fpu`: one operator per functional unit of `cpu_alu_fpu.vhd` for any format; `IeeeFloat`:
  exact arithmetic rounded once, the reference; `FloatCheck`: the test program's control flow, its
  emulations and its verdict.
* `Console`: line input with echo, one step per character, and the system calls of the C
  library. `LibAux`, `ImageFormats`, `Unaligned`: pure functions and their inverses.

The variable `suite` says which of them a behaviour runs, or else the processor check (`SelfTest`) or the DMA
jobs (`Dma`); they share nothing.

## 4. Runs

| run | asks | bounds |
|---|---|---|
| `SwitchedBus` | Is a strobe lost, doubled, or answered to the wrong host; does a lock leak; does a host starve? | streams of three elements: first, inner and last element differ |
| `SystemBus` | Does every access end within its window and not before; with its own answer? | windows 4 (3 rounded up), 4, and disabled; bursts of three, so that a burst outlasts the window of one access |
| `SmpMemory` | Are the atomics, arbiters and memory an atomic memory; is each core served? | four programs (counter with DMA stores; every operation; LR/SC against the other core; LR/SC against DMA), words of two bits (positive, negative, wrap), two words of one block and a faulty word in another |
| `Cache` | Can software tell a write-back cache from a memory; do fences flush; are errors reported to the right access; does everybody get an answer? | two blocks of two words, two tags on one block (eviction), an uncached tag, a tag with a read error and a write error; three programs |
| `FenceI` ✗ | Does code fetched after `fence.i` include the stores before it? | two blocks of two words, one stored word in each; no bursts |
| `CpuControl` | Are traps precise; is an instruction complete before the next one; is a trap lost to a CSR write; do privilege and debug mode agree; are interrupts, halts and wake-ups served? | two interrupts (the encoder's last source, which has no condition, and one before it), a monitor limit of 4 cycles, four setups that between them have every instruction class and every line |
| `DualCore` | Is a launch what it reports; do messages and results stay whole; is the timer one number; is every interrupt served? | half words of 8 clocks, 30 clocks of time (three carries), a second of 4 clocks, three polls per launch, two launches, primes below 10 |
| `DualCoreLivelock` ✗ | Is a spin lock released in the end? | the `message` program |
| `Bootloader` | Is anything but a verified executable started unasked; can a reported store be loaded; are files read byte for byte; does the loader come back? | two executables of two words at the same address, one of them padded, and two of six words, which with their headers reach a second sector that the erasure reaches, too; a flash of two sectors of six words; files of sectors of two words; fragmented and partitioned volumes, with broken and runaway chains, missing files, too few clusters; every kind of card; one power failure and one missing acknowledge |
| `FlashErase` ✗ | Does a store that is confirmed hold the executable, of any size? | two executables of three words, one stored over the other |
| `Library` | Are unit and IEEE arithmetic the same; do protection regions decide as the architecture says and locks hold; are counters, dates, numbers, bit timings, images and emulated loads right; does the console show its buffer? | numbers with four exponent and three mantissa bits, all of them first and those with the mantissas 0, 1 and all-ones second (exact results, sticky bits, carries, at every distance of the exponents); three regions, two granularities, six address bits, two addresses, five configurations, any sequence of calls; counter halves of ten, set to values before, at and after a carry; the years 1970 to 2110; numbers of eight bits in bases 0 to 17; seven clocks by eight baud rates; 4 to 220 MHz; loads from eight bytes with every offset |
| | Its processor check: does a test fail because of another one; is an interrupt taken outside its test; does the program get to its report? | processors with everything, with each feature or the features that belong together left out (also without each UART, where the program panics), and four little ones; every time at which a device may finish |
| | Its DMA: is every reported outcome what the descriptors mean; does every job end; is the FIFO the bounded queue with an honest read port? | four words; every type and alignment of source and destination with counts 1 and 3, swapped and not; chains of two that are followed by another job after success, error, abort and a FIFO that is full (eight entries: the third descriptor does not fit, or overflows when nothing is checked); counts modulo 8 |
| `FloatTest` ✗ | Does the unit convert as the emulation does? | every number of the format |

The runs marked ✗ are expected to be violated; section 7 explains them. The other runs
hold. All are exhaustive for their constants: no state constraint is used. Counters
that are capped in guards are `MaxAge`, `MaxStale` (`SystemBus`; more than
two forgotten strobes behave like two), the monitor counter of `CpuControl`,
which wraps at twice the limit like the register does, `MaxTime` (`DualCore`), `MaxGap` (clocks between two
accesses to the cycle counter, `CpuCsr`), `MaxCuts` and `MaxNacks` (`Bootloader`), and the error count of `FloatCheck` (some or none).

Why the bounds are enough: FIFOs, bursts and streams are long enough that first, inner
and last element differ and pointers wrap; a second power failure can only repeat what
the first did, because the loader keeps nothing but the memories; the third launch
attempt would meet the mailbox in a state the second one met; six clusters hold a chain
that goes forward, backward and out of the volume; with three mantissa bits
guard, round and sticky bits are all distinguishable and every shift from none to
beyond the mantissa occurs. `LateAnswers` (`SystemBus`) is kept at the
value under which the properties hold; section 7 says what the other one shows.

The setups of `CpuControl` split what would otherwise be one product: interrupts
with nesting, sleep and user mode; halts, breakpoints, stepping and exceptions in
debug mode; halts that coincide with interrupts; and every instruction with no
line at all. What is not explored is therefore three-way coincidences across them,
for example an external interrupt, a halt and a faulting store at once; the
theorems of section 6 have no such limit.

Some properties hold but for cases that the code gets wrong or leaves open. Each such case is excepted by a named
condition, as narrow as the case, so that the property still speaks of everything next to it:
`ErasesEnough` (`StorageTrue`), `MemoryBusy` and a silent host (`ComesBack`), `LostWakeUp` and the absence of a UART
(`Completes`), `AboveHalf`, `Tiny`, `ZeroDown` (`FloatRight`, which claims nothing there), `Supported` and the
locks in `Configured` (`ProtectionRight`), `In32Bits` (`CallsRight`). Section 7 says what happens in each.

Where deadlock is not checked (`Bootloader`, `FlashErase`, `Library`, `FloatTest`), the program really may stop: in
a started application, after its last test, job or call.

## 5. Fairness

* `SwitchedBus`: the clock runs (`WF(Next)`), the device answers what it was asked
  in the end (the gateway guarantees it, see `TimeoutExact`), and a block
  transfer goes on to its last element (no controller state of the cache waits
  for anything but an answer).
* `SmpMemory`, `CachedMemory`: the clock runs and the memory answers. The DMA has
  the lower priority and no promise: `CoresServed` is about the cores.
* `CpuControl`: the clock runs, the front-end delivers while the CPU waits in
  `S_DISPATCH`, the bus answers. No fairness of the software is assumed: it may
  switch interrupts off or loop in traps for ever, and `HaltServed` must hold
  anyway. `InterruptServed` is the formula of weak fairness: an interrupt that
  stays requested, unmasked and enabled is taken.
* `DualCore`: the clock runs; strong fairness of each core, because the bus is
  taken by the other core in between: this is what `NoStarvation` of `SwitchedBus`
  gives. `DualCoreLivelock` has the same fairness, so that its counterexample is not a core that stops.
* `Bootloader`: the program proceeds and time passes. Nobody has to press
  a key, the power never has to fail, a memory may never complete an erasure or a write (no fairness of `FlashDone`
  and `WriteDone`), and a host may stop sending: the loader waits for both without a time-out, and `ComesBack` excepts
  them by name.
* `Library`, for the processor check: the hart executes, each device that was started finishes, core 1 runs. For the
  DMA: the clock runs, the memory answers in the end (`SF` of `Answered`: answers
  come and go with the engine's states), the software goes on (`SF`: it pauses a
  clock between two register accesses). Its other suites state safety only.
* `SystemBus`, `FenceI`, `FlashErase` and `FloatTest` state safety only.

## 6. Theorems

TLAPS proves these for every value of the constants. Where a property is named in a run,
TLC checks the same formula there.

| module | theorem | assumes | argument |
|---|---|---|---|
| `PrimFifoProofs` | `TypeCorrect`, `LevelExact` | `DEPTH` positive | `IInv` adds to the types that the pointers are at most `DEPTH` apart; with the wrap bit this makes full and empty exact |
| | `FifoImplementsQueue` | | each step is a queue operation or a stutter on `Entries`; cases by read, write and wrap |
| | `ReadPortHonest` | | the output register holds the slot the read pointer showed a cycle ago |
| `SwitchedBusProofs` | `TypeCorrect`, `RequestsKept`, `ResponsesRouted`, `LockHolds` | `BlockLen` positive, either arbitration scheme | `IInv` says what the arbiter knows of each host: served, so the select points to it and the lock agrees with the kind of transfer; or not served, so nothing of it is in flight and its latch is set exactly if it waits |
| `SystemBusProofs` | `Apart`, `Exact` | every time-out a `natural` of the hardware language (`GatewayAssumption`); memories faster than their window, the slow section without one (`SystemAssumption`, `WindowAssumption`); external devices respect their window (`~LateAnswers`) | the host, the switch, the monitor and the external bridge agree on who waits for whom, and the counter on for how long; below |
| `CachedMemoryProofs` | `Errors`, `Fences` | a writable cache of at least two blocks of at least two words (`CachedAssumption`), with and without bursts, any failing reads and writes of the memory | each state of the controller says what it still owes: to the host, to the bus, to the memory; below |
| | `Implements` | besides, no program replaces a block that cannot be written back (`Writable`) | `DataInv`, on top of the invariant: where a block is not modified, cache and memory agree; below |
| `SmpMemoryProofs` | `Truthful`, `Refines` | words of 1 to 32 bits; a word that cannot be read cannot be written, and nobody reserves such a word (`Trusted`) | one access at a time is let through; controllers and memory work on it and on nothing else; below |
| `CpuProofs` | `TypeCorrect`, `TrapsAreRecorded`, `DebugModeIsMachine`, `PrivilegeRisesByTrap` | any interrupts, setups and limit above 2 | `IInv`, below |
| | `InstructionsInOrder`, `TrapsArePrecise` | interrupts are not named like exceptions (`NamesAssumption`) | `OrderInv` and `TrapInv`, below |
| | `RegistersShaped`, `LockedForGood` | the tried configurations are eight bits of a register | each driver call is a composition of register writes, each of which keeps what a locked region is made of (`Kept`), also the address before it where it starts there; what a region covers depends on nothing else |
| | `CounterRight` | halves of at least ten values, set to any values, at most `MaxGap` (two) clocks between two accesses of a call | `CounterInv`: what a call knows of the past, in clocks; below |
| `DualCoreProofs` | `LaunchTrue` | at least one poll; any of the five programs (`DualCoreAssumption`), which lengths and periods do not matter | `LaunchInv`: what each core still has to do, and what the two know of each other; below |
| | `SharedWhole` | the same; `install_MTI` on core 1 comes after core 0's set-up of the table (`GreetingTakesLonger`, part of the model) | `VoiceInv`: where each core is in a message, the lock, its reservation and the line agree; `PrimesInv`: from the places of both cores follows which shared variables are set; below |
| `DualTimerProofs` | `TimerTrue` | a half word has at least two values (`ClintAssumption`) | `TimerInv`: in which order the accesses of the CLINT driver come, and what is known of clock, compare time and reads at each; below |

None of the CPU properties is inductive. `IInv` adds that the CSR write enable is
set only in `S_DISPATCH`, the state after `S_SYSTEM` (so a CSR write meets neither a
trap nor its return); that a system instruction which passed the check in
`S_EXECUTE` is still legal when it acts (`StillLegal`: so `mret` and `dret` are
executed with the rights they need, and the privilege level is not raised by a
return from user mode); and how long the monitor can run past its limit
(`MonitorBound`). `OrderInv` adds which instruction each state works on (`Placed`)
and how many of its effects have happened there (`EffectsSoFar`): none before the
last state, all in `S_DISPATCH`, unless an exception is waiting to be trapped.

Precise traps need `TrapInv` besides. `Raised` says which exceptions the instruction in each state may have
raised, and `Suppressed` that while one of its own waits for the trap, it has changed nothing but the memory.
`Halting`: a halt request stays until debug mode is entered, and its echo in the trap buffer is gone before the first
instruction there is issued; a trap that is caused by this echo would otherwise return to the wrong place. `Permitted` keeps
the reason why a trap is pending: an exception, a halt, or an instruction that could be interrupted. The
encoder is the first pending source of a list; `SourceOrder` and `Encoder` derive from the least
number (by well-founded induction) which sources a given result excludes, for any list of interrupts.

The three hardware compositions have the same shape of argument: an inductive invariant that says, for
each register of one component, which state of its neighbours it stands for; a lemma per kind of clock edge that gives
all primed variables; and one step per conjunct of the invariant.

* `SmpMemory`: `Master` is the host whose access both arbiters have let through. `InnerSwitch`
  and `OuterSwitch` say what each arbiter's state, latch and lock mean for the hosts (a latch is set exactly if its
  host waits and is not served; after an atomic operation an arbiter stays one more cycle on an idle host).
  `Service` ties the controller's registers and the memory's pending access to the master's request, state by state.
  `Reserved` is why a store-conditional may trust its reservation: it is backed by the last
  load-reserved, also while that is under way, and a write that is under way is to another block.
  A step then is a whole access of `AtomicMemory` if it delivers an answer (`AnswerIsAtomic`), and a stutter
  otherwise (`Unseen`). `AluIsRmw` shows the comparison with one more bit to be the signed one,
  for every width.
* `SystemBus`: a response belongs to the host's own transfer because switch, monitor and host leave their idle states
  together (`Agreed`), errors are raised in one cycle and gone in the next (`Cleared`), and the external cycle
  is open exactly while the bridge's section waits (`Bridged`). `Counted` gives the counter's value from the age of the
  access. `Least` and `Windows` show that the extension of a window to a power of two is a power of two; `Fires` that the
  test of one bit of the counter is a comparison.
* `CachedMemory`: the parts `Protocol`, `Latched`, `Counted`, `Queued`, `Sound`, `Transferred` and `Flushed`
  follow a request from the core through the lookup, the write-back and the refill. `Transferred` counts the words of a burst
  that are requested and answered; the error of any of them is in the result (`Errors`) because it is
  collected until the last one.
  `Implements` adds what the words are. `Agreed`: a block that is not modified has the memory's words, one that is
  fetched or stored has them up to the word at work, so that no refill, write-back or fence changes `View`. `Sent`: each
  word of a write-back that is under way is the one of its place in the block, though the data memory is read
  a cycle ahead and a burst runs ahead of its answers. `Heard`: a look-up that hits has read the word of its own
  access, and an access that passes the cache meets no copy of its word. `Known`: a block comes into the cache only
  for an access of the program. Of the 17 actions only the look-up and the bypass touch `View`, and both do what
  the answered access says (`Serves`).

`LockedForGood` is a theorem of `CsrSpec`, the part of `Library` that holds the protection
registers. Its invariant (`Shaped`) is weak, since the property is about each step; the work is
in `Kept`, which is transitive and so carries over the three writes of
`astrarv32_cpu_pmp_configure_region`.

`CounterRight` is about the other part of `CsrSpec`. That the counter never differs from the ghost `truth`
follows from counting it by the upper half that is meant, `Upper` (the register and the carry on its way to it), and from
the lower half not overflowing while it is set (`Setting`). That a value read in two halves is true needs
ages: the upper half was looked at `e` clocks ago (`Looked`), and since then the lower half has overflowed exactly if it
is at most `e`; so a changed upper half is always noticed, and an unchanged one may be joined with the lower half
read between. A call repeats only if an overflow fell between its accesses; the next one is
ten clocks away or more, which bounds the length of a call (`Retrying`) below the period of the counter, without which "during the call" would say
nothing. The proof splits over the accesses (`SetKeeps`, `GetKeeps`) and the clocks between them (`NoAccessKeeps`).

`LaunchTrue` is about programs, so its invariant says which operations a core may still have to do. Core 0 is before the launch
(`Before`: settings, then the call), at one of its four accesses (`During`), or at `Work`, which launches nobody; core 1 is
`Asleep` or `Awake` in the start-up code, or `Started` (`Launcher`, `Sleeper`). `Launching` relates the two.
In the first stage core 1 may read the stack of a new request and the entry of an old one, or acknowledge a request it read before
the latest one was written; this is why the launch has a second stage. There, before the bell is rung no request is pending, so
whoever acknowledges after it has read `main_core1`. An interrupt handler of a started program may ring for core 1
(`msi_other`), but not one of the clock program, and before a launch core 0 has interrupts off (`ClosedWork`): without these parts the
invariant is not inductive. Work is closed under its own steps (`AnswerWorkText`, `InsideWorkText`), whatever it reads, so the proof
needs nothing about locks, time or primes.

`SharedWhole` builds on it. That a message stays whole is seldom in doubt while two cores run straight programs; in
`demo_dual_core_rte` each handler of each core prints as well. `Texts` is why a core is never interrupted, or calls its environment, in a
message: a core that prints has interrupts off, which takes knowing that the handlers in the table are those the program installed
(`Path`, `Installed`: up to which handler each core has come, and that nobody resets the table any more). What a core has left is
then at most one message (`Outside`, `Section`), and `Lock` says at each of its operations who holds the lock. A held lock is
not free and held once; a core about to store conditionally whose reservation is still set read the lock free and it is free. That is enough
for both implementations, swap and load-reserved, and for unlocking with a store-conditional that fails.
In `demo_dual_core_primes`, `Sharing` gives the value of every shared variable for each pair of places of the two cores: core 1
is past its wait only if core 0 has set the range and started it, core 0 past its check only if core 1
has ended, and `shared_arg0` is the range before core 1's result is stored and the result after. A launch that failed ends core 0
before the first shared variable (`GaveUp`). `PrimesCounted` is the arithmetic: `is_prime`, trial division up to the square root,
accepts exactly the numbers with two divisors, and the two halves of the range are disjoint.

`TimerTrue` is about interrupts that come too early and times that never were. The hardware compares the upper
halves in one clock with a result for the lower halves that is one clock old, and carries into the upper half a clock late; the
software writes and reads the halves one after the other. `Sound` relates the comparison as it stands in the
registers (`Due`) and the request to the compare times announced in `alarm`, also while the lower half of the comparison belongs
to the value before; for this the value in the register must never be earlier than all of them, which is what the order of the three
writes of `astrarv32_clint_mtimecmp_set` is for: `Compared` says at each of them which halves are in place, and that once the
upper half is written, the comparison with the lower half out of reach says nothing that is not true of the target.
`Reading` follows the three reads: the upper half read first is the clock's or an older one; if it is still the clock's, both halves
belong to one time of the clock since the read began; a second upper half that is the same confirms this, and another one starts anew.
These two speak of operations one after the other, so `Orders` has to say that they are: `Ordered` is a property of the text
of a core (each access of a routine is preceded by the one before it, what is read is read to the end, `Awaits`, before an
operation that uses it, the time is set before all else) that all programs and handlers have (`OrderedMain`, `FairHandlers`)
and that each step keeps (`TurnedNext`). Two interferences remain. Setting the time
may move it back, past alarms and reads; `Fresh` says there are none yet. The launch writes its mailbox into the compare
register of core 1; `NotYet` and `Unset` say that core 1 has then not reached the code that sets its alarm, which takes
an argument about both stages of the launch, with `LaunchInv`. Core 1's own start-up handler reads the mailbox only.
The three other programs neither set alarms nor read the time (`Silent`).

`PrimFifoProofs` and `SwitchedBusProofs` also prove the type invariants and the exact fill level,
on which the others rest.

Only model-checked:

* liveness (`NoStarvation`, `CoresServed`, every `Served`, `JobEnds`, `Completes`,
  `ComesBack`), which needs fairness and `ENABLED`;
* what is computed by recursion: the folds of the library functions, the bootloader's sums, the DMA's meaning of a
  descriptor; what they return for every input needs an induction over data the provers cannot do;
* the bootloader, the processor check and the DMA: candidates for proofs, see section 9.

Hypotheses of the theorems that are not constants' types: `~LateAnswers`, `Writable` (section 7 shows what happens otherwise) and `Trusted`. The run of the
cache evaluates `Writable` for its programs (`NothingIsLost`).
Without the second half of `Trusted` the reservation of a load-reserved that ended with a bus error stays and a
store-conditional to its block may succeed: the set is taken at the strobe, before the answer is known
(`bus.vhd:958`).

## 7. Findings

**`DualCoreLivelock`** — a core that waits for the spin lock of `demo_dual_core` loops over a
load-reserved. The reservation set gives it the reservation again and again, as its
owner or in its turn, and only a successful store-conditional flips the turn, which a
waiting core never executes. The core that holds the lock needs a
store-conditional to release it (`spinlock.c:33`) and may fail for ever.
The datasheet promises accesses "without starvation" (`soc.adoc:722`).

**`FenceI`** — `fence.i` starts the
invalidation of the instruction cache and the write-back of the data cache in the same
cycle (`top.vhd:688`). The data cache gives up the bus between two blocks, and the
instruction cache refills a block that is still modified. It keeps the old code, although the datasheet promises a
fetch of up-to-date data (`soc.adoc:750`). It is the same with bursts (`BURSTS_EN = TRUE`).

**`FlashErase`** — the sectors to erase are counted from the size of the data (`spi_flash.c:146`), but what is stored is
the data and 16 bytes of header. If the data are 4, 8 or 12 bytes short of a multiple of the sector size, the last sector is not
erased: its words are programmed over the old ones, which can only clear bits, and the store is reported as "OK", after which
"the flash can be used for the auto-boot sequence" (`software_bootloader.adoc:268`). The next load refuses it because of the
checksum, most likely. `StorageTrue` is the promise for all other sizes.

**`FloatTest`** — the number next above one half is converted to 0, where the emulation of the floating-point test
gives 1: its last mantissa bit falls out of the register (`cpu_alu_fpu.vhd:2079`) and leaves a tie. The test compares
every instruction with the emulation and reports no error (`floating_point_test/README.md:59`); a million
random words seldom contain the one (and its negative) that shows it.

### Divergences shown by other constants or programs

TLC shows these with the modules as they are, or with a line changed; they have no run.

* **A store that is lost** (`ErrorProgram` of `MCCachedMemory` with a load of another tag in block 1). A store hits the
  cache and is acknowledged; later its block is replaced, the write-back fails, and the block is dropped
  (`cache.vhd:488`). The error is charged to the access that replaces the block, and the software reads the old word from
  then on: `IsAtomic` is violated. A fence keeps such a block (`FenceFlushes`).
* **An answer in the cycle of the timeout** (`LateAnswers = TRUE` in `SystemBus.cfg`) completes the access
  and still moves the monitor to `S_ERROR`, which ignores a strobe of that cycle: that next
  access is not monitored, although all accesses are said to complete within their window
  (`bus.vhd:259`).
* **The halt request traps again** after debug mode has been entered, because it stays in the interrupt
  buffer for two cycles; the third trap has no cause left and takes the exception entry of
  the park loop (`cpu_control.vhd:883`), which tolerates it.
* **The processor check without user mode** (a processor without `"U"` in `Processors`): the `ecall` test (`processor_check/main.c:985`) then traps from
  machine mode and the timer test after it finds `mstatus.MIE` cleared, although the program says it
  runs without user mode (`main.c:133`).

### Met while modelling, part of the models

CPU and bus
* If the interrupt that fired is masked before the trap is entered, the encoder's
  last branch, which has no condition, reports a timer interrupt
  (`cpu_control.vhd:924`).
* An `ebreak` for the debugger that coincides with a halt request is dropped: the
  halt wins, and `dpc` points after the `ebreak` (`cpu_control.vhd:900`).
  `PreciseTrap` excepts this case by name.
* `wfi` sleeps in debug mode (`cpu_control.vhd:467`), where the datasheet makes it a
  no-operation (`on_chip_debugger.adoc:809`).
* The bus monitor does not distinguish an answer of a terminated external access
  from one to the next access (`xbus.vhd:79`); `OwnAnswers` holds for devices that
  respect their window.
* The read error of an atomic operation is dropped and the write is trusted to fail
  as well (`bus.vhd:846`); `ReadErrorReported` is checked for memories where this
  is so. A load-reserved that ends with an error keeps its reservation.

DMA
* The engine starts a descriptor when its first word is in the FIFO and reads the third without
  a check (`dma.vhd:217`); software must not add descriptors to a running transfer one word at a time.
* A count of zero means the largest count (`dma.vhd:264`).
* A byte read and stored as a word goes to all four lanes; disabling does not reset the engine, which ends the element first, and a start
  written while it is busy is lost.
* `astrarv32_dma_program` returns early on a full FIFO and leaves the words it has written
  (`astrarv32_dma.c:105`), the beginning of a descriptor that the next call completes wrongly; a job that meets it is therefore given up with a disable.
* An acknowledge clears the error as well, so that the interrupt handler of the demo makes a
  failed transfer look idle. Its `wfi` (`demo_dma/main.c:256`) sleeps for ever if the interrupt comes before it.

Two cores
* A launch may report that core 1 does not respond although it starts a little later (`astrarv32_smp.c:37`).
* The handler table is set up by both cores (`astrarv32_rte.c:316`): core 0's set-up would overwrite handlers
  core 1 has installed. `GreetingTakesLonger` in `DualCore` is the demo's timing assumption.
* `spin_check` of `demo_dual_core` may see the lock free before core 1 has taken it.

Floating point (`Agree` and `Directed` say nothing of the first two)
* A tiny product may be flushed to zero where the emulation rounds it up to the smallest normal number.
* Two zeros of different sign have a positive sum when rounding down.
* The conversion of the most negative integer raises the invalid flag.
* The test program's FNMSUB case executes FNMADD; its error count after a report is stale, as the program
  prints it.

Processor check
* Without UART0 or UART1 the program never begins: it accesses both before it sets up its handlers (`main.c:144`),
  and ends in the panic loop of the start-up code. It says that it requires all modules (`main.c:132`), but looks for each one
  before it tests it. `Completes` says which of the two happens.
* The two-wire test waits for four interrupts with four `wfi`s (`main.c:1414`): an interrupt between two of them is served
  before the `wfi` that waits for it, which then sleeps for ever (`LostWakeUp`). It needs both the controller and
  the device, although it asks for one of them.
* `mstatus.TW` is never cleared after the test that sets it; later tests do not sleep in user mode.

Library and bootloader
* `astrarv32_cpu_pmp_configure_region` documents "0 on success, !=0 on failure" (`astrarv32_cpu.c:211`) and returns 0 although the
  address is locked by the next region, the region does not exist,
  or the configuration is reserved. `Configured` is about the other calls, and that a failure changes nothing.
  The address is written while the old configuration still applies. Probing the number of
  regions clears all unlocked configurations and stops at a locked one.
* The time stamps of dates are the seconds since 1970 in 64 bits (`astrarv32_aux.c:53`) but computed in 32 bits: from February 2106 on
  they lack 2^32 s. `CalendarRight` covers the dates before (`In32Bits`).
* `astrarv32_uart_setup` wraps for baud rates above half the clock.
* A VHDL image of one word is an illegal aggregate; `ImageHeld` is stated from two words on. The emulation of
  unaligned loads does not extend the sign of its offset (`demo_emulate_unaligned/main.c:52`); `Emulated` is stated for
  offsets that are not negative.
* A heap request that fills the heap exactly is refused, a huge positive one wraps past the end check (`astrarv32_newlib.c:315`);
  reading the standard input falls back to the second UART where writing fails.
* A flash or TWI memory that never reports the end of a write keeps the loader in its loop (`spi_flash.c:158`, `twi_flash.c:92`).
* The checksum covers neither base address nor size of an executable, the header is written
  signature first, and a store that failed still writes it; what keeps a torn one from starting is the sum over the data. It is a
  32-bit sum; the models choose contents without collisions.

## 8. Not modelled

`PROJECT.json` has one entry per component with its status. In short:

* integer arithmetic (ALU, bit manipulation, cryptography, the compressed-instruction decoder) is
  combinational and better served by tests; the entropy source is analogue;
* addresses, byte lanes and operand values of CPU instructions are abstracted away because the
  properties do not tell them apart; the optional register stage of XBUS and hardware triggers are configurations left out;
* serial peripherals, timers and watchdog appear as interrupt sources and devices only, their drivers are register
  accesses; the debug module and the trace buffer have no model yet;
* text: wording of messages, reports and menus; the command line of the image generator;
* torn writes in all their detail: a power failure leaves an erased part of a sector at one of its ends, some bits of a
  flash's byte programmed, and a byte of the TWI memory written or not;
* what the programs leave to their host or configuration: a host that stops in an upload, user code in the
  bootloader's configuration, file writing of the FAT driver (compiled out).

## 9. Plan

Done, in this order: shared infrastructure (FIFO, switch, gateway, atomics, caches) with the abstract specifications
`BoundedQueue` and `AtomicMemory`; the CPU's sequencer; DMA; CLINT and the dual-core programs;
runtime environment and processor check; bootloader; library, memory protection, floating point.

Next, the most important behaviour first:

1. `DebugModule` with the park loop: command FSM, flags in the debug memory, halt,
   resume and step against `CpuControl`'s debug mode.
2. `Frontend`: the fetch FSM, the two prefetch FIFOs (`PrimFifo`) and the issue
   alignment. Abstract specification: the instruction stream at the program counter.
   Hazards: an answer to a fetch before the restart, an error in one half of an
   instruction. Then `CpuControl` with this front-end instead of its delay counter.
3. Peripherals with FIFOs and interrupts: UART, TWI/TWD, SLINK, SPI; then the
   watchdog, with the read-modify-write sequences of their drivers.
4. The serial multiplier and divider against arithmetic; trigger matching.

Theorems worth proving next: that an instruction cache invalidated after the data cache has finished fetches current code,
from the lemmas of `CachedMemoryProofs`; that only verified executables start (`OnlyVerifiedBoots`) for every memory content.
