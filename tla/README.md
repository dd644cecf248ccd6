# Verification of the MSP430 toolchain

TLA+ models, TLC runs and TLAPS proofs for the MSP430 back end of this LLVM 8
monorepo. Paths are relative to `src/src/llvm` unless they start with `src/`;
`MSP430X.cpp` is `lib/Target/MSP430/MSP430X.cpp`.

## The system

The repository is LLVM, clang and lld as one tree, adapted as a toolchain for a
16-bit microcontroller, and a sample program (`src/test/gdbsim-aes`). What is
its own is the MSP430 back end, some eight thousand lines; the rest is the
generic compiler it plugs into. A function goes through these parts in order:

| part | source | state it keeps | what is hard | what makes it correct |
|---|---|---|---|---|
| calling convention, calls | `MSP430ISelLowering.cpp`, `MSP430CallingConv.td` | registers and stack bytes handed out (`CCState`) | caller and callee are compiled apart and must agree; splitting, extension, varargs | every piece of an argument arrives; locations are disjoint |
| compares, selects, shifts | `MSP430ISelLowering.cpp` | none | constants changed by one, flags of SR read back | the selected sequence computes the node for every 16-bit value |
| instruction selection | `MSP430ISelDAGToDAG.cpp`, `MSP430AddressModeTransformPass.cpp` | the addressing mode under construction, saved and restored | backtracking; operand order; `0(rn)` against `@rn` | the operand addresses what the node did |
| frame lowering | `MSP430FrameLowering.cpp`, `MSP430RegisterInfo.cpp`, `lib/CodeGen/PrologEpilogInserter.cpp` | frame offsets, stack size, callee-saved size | five places each know a part of the layout; SP moves during a call; interrupts at every instruction | locals, arguments and the caller's registers survive |
| branch selection | `MSP430BranchSelector.cpp` | block offsets, block list, successor lists | incremental offsets, splitting while scanning, a fixpoint | branches reach, control flow is kept, the pass ends |
| encoding, fixups, objects | `MCTargetDesc/` | offset of the next extension word | PC-relative extension words, truncation before the range check | what is encoded is what was meant, or an error |
| linker | `tools/lld/ELF/Arch/MSP430.cpp` | none | as the fixups | relocated bytes reach the symbol |
| disassembler, parser, printer | `Disassembler/`, `AsmParser/`, `InstPrinter/` | none | jump offsets converted in and out | text and bytes round-trip |
| clang driver and target | `tools/clang/lib/**/MSP430.*` | none | tables | not modelled |
| lock files of modules | `lib/Support/LockFileManager.cpp`, `compileAndLoadModule` in clang's `CompilerInstance.cpp` | two files in a shared directory, the module file | processes that race, die, time out; two machines | no lock outlives its owner, nobody waits for ever or fails for another |
| thread pool | `lib/Support/ThreadPool.cpp` | a queue, a count of active threads, two mutexes, two condition variables | lost wake-ups, a read without the lock, destruction with work queued | each task runs once, in order; waiting ends when all have run, not before |
| task queue | `include/llvm/Support/TaskQueue.h` | a queue of items, whether one is in flight, a mutex; it runs on a thread pool | an item that is done before it is marked as in flight, workers that submit while the destructor waits | items run one at a time, in order; the queue outlives them |

The passes run one after another on one function and share its instructions:
selection makes frame indices and call sequences, prologue/epilogue insertion
lays out the frame and resolves them, and branch selection, the last pass before
printing, relies on final instruction sizes. What they make is printed or encoded,
linked and executed; the encoder, the linker, the parser and the disassembler each
know the layout of an instruction for themselves. These passes run in one thread: an
interrupt can strike between any two instructions of what they compile, and that
is in the frame model. Concurrency in the compiler itself is around them: compilers
that share a module cache, and the thread pool of the link-time optimizer and of
tools.

`PROJECT.json` lists every part with its status and every hazard at its line.

## Modules

**`MSP430BranchSelector`** is the whole of `MSP430BranchSelector.cpp`. A block
is straight-line code with a size, then maybe a conditional branch, then maybe a
last branch or return: what the code generator's `insertBranch` produces. The
block list is `num`, from a block to its number. One action per step of the
loops:

| action | code |
|---|---|
| `MeasureBlock`, `Measured` | `measureFunction`, one block a step; the early exit of `runOnMachineFunction` |
| `SkipInstr`, `NextBlock` | the two loops of `expandBranches` when a branch reaches |
| `Split` | a far conditional branch that is not last: new block, splice, successor lists, renumbering; remeasuring follows |
| `ExpandJCC`, `ExpandJMP` | the long forms, with the correction of the later offsets |
| `ScanEnd` | `MadeChange`: scan again or end |

Left out: `-msp430-branch-select=false`, debug output, blocks that end in an
indirect branch (they have nothing to expand) and block alignment. Conditions
are a Boolean, so reversing one is negation.

**`BranchRelaxation`** is the abstract specification: a set of branches made
long, one at a time, each only if it does not reach in the layout that the set
determines. **`BranchSelectorRefines`** reads that set off the code and states
that the pass implements it.

**`MSP430Frame`** is in two parts. First prologue/epilogue insertion with the
MSP430 hooks: `SpillCalleeSaved`, `PlaceFixed`, `PlaceCalleeSaved`,
`PlaceLocal`, `FinishLayout` and `EmitPrologueEpilogue` follow
`PEI::runOnMachineFunction` and produce a layout and two instruction lists. Then
the function runs on a stack of tagged bytes: it executes the prologue, writes
locals and registers, allocates, makes calls (`CallFrameSetup`,
`StoreArguments`, `Call`, `CallFrameDestroy`), executes the epilogue and
returns, with `Interrupt` in between. A call or an interrupt trashes everything
below its stack pointer. Addresses of locals are those `eliminateFrameIndex`
computes, so a wrong layout shows as a clobbered value, not as a number. Left
out: stack protectors, slot scavenging, shrink wrapping and callee-popped bytes,
which MSP430 does not use. `Depth` and `MaxAllocas` bound the stack and the
dynamic allocas.

**`MSP430CallingConv`** is a call between two functions compiled apart. Each side
runs `AnalyzeArguments` over its own list, one argument per `AssignArgument`,
with the `CCState` it fills (the two never touch each other's state, so the
caller goes first and `Analysed` makes room for the outgoing area and passes on to the
callee). The pieces of one argument are placed together: the n-th call of
`AllocateReg` takes the n-th free register, and words follow each other on the stack. Then the caller stores
the pieces in any order (`StorePiece`, as the `TokenFactor` allows), copies the
registers and calls (`CallCallee`), the callee reads its formals
(`ReceiveFormals`, `LowerCCCArguments`) and the anonymous arguments (`VaArg`,
`expandVAArg`). A value is a sequence of bytes named by argument and piece, so a
byte read from the wrong place is noticed. A return value that does not fit is
demoted to a hidden first pointer on both sides. The callee of the builtin
convention is hand-written assembly, so only its caller is modelled. `fastcc` is
the C convention here. Then the result comes back: `LowerReturn`, which clobbers the
scratch registers it does not use and returns the pointer of an `sret` argument, and
`LowerCallResult`.

**`MSP430Lowering`** is one node of a selection DAG and the run of what it
becomes. A comparison (`br_cc`, `select_cc`, `setcc`) goes through `EmitCMP`
(`LowerComparison`); the patterns make a `CMP` of it or, for an AND against zero,
a `BIT` (`Compare`, with the flags of either); the flags then decide a jump
(`Jump`, also the diamond of a select) or are read off the status register
(`ReadSR`, the end of `LowerSETCC`). A shift by a constant becomes the list of
`LowerShifts` (`LowerShift`, `ExecuteOp`), one by a variable the loop of
`EmitShiftInstr` (`TestAmount`, `ShiftLoop`). Values are words of `Width` bits, those of
the node's type (i16, or i8, which never has a byte to move), with all their arithmetic; an operand is only told apart as the code tells it
apart, as a constant, an AND, a TRUNCATE of one, or anything else. `Combined` is
what the DAG combiner leaves of the comparisons with a constant. Where the constant
decides the comparison for every value (`Decided`, what `SimplifySetCC` folds to a
constant), a `setcc` or `select_cc` is folded, but a `br_cc` stays: `visitBR_CC` takes
only another `setcc`. `EmitCMP` counts such a constant up past the last word, or a `BIT`
is made of a comparison that asks for the carry of `CMP #0`. These branches are in the model and in all
its runs; `ComparisonsHold` excepts the ones it would fail for (`Wraps`, `MissesCarry`), and `BranchesHold`, which
does not, is violated. Multiplication, sign extension and rotation are library
calls or combinations of these.

**`MSP430AddressMode`** follows a memory operand from the DAG to the bus:
`Select` is `SelectAddr` with the backtracking of `MatchAddress`, which carries
the mode a failed try leaves behind so that restoring it (`Backup`) matters;
`EliminateFrameIndex` puts SP and the layout's offset in; `Transform` is the
whole address mode pass, which finds the displacement by the form of the
instruction; `Run` accesses memory. An address is a bag of unknown values and a
constant, so two addresses are equal only if they are for all registers and symbols.
The selection DAG is the constant `Dag`, with the operands of every node in it (`NodesAssumption`: it has no
cycles); what the code does by recursion (`MatchAddress`), and the worth of a node it is
compared with (`Value`), are recursive functions over its nodes.
An operation on `*p++` is followed the same way: `CombinePostIndexed`
(`getPostIndexedAddressParts`), `FoldIndexed` (`tryIndexedBinOp`,
`tryIndexedLoad`), `RunIndexed`. `KnownZero` stands for the known low bits of a
value, which decide whether an OR is an addition. Left out: external symbols and block
addresses (nothing loads from them). `Addressable` says which addresses `AddressesAgree` is about; the
other ones are lost by `SelectAddr`, and indexing an object never makes them, but for the last: sums of a
frame index and a symbol (`MatchAddress` would fold the two into one operand, and
`eliminateFrameIndex` would read the symbol as a number), a jump table with an
offset, which `SelectAddr` drops, and the absolute address zero (see "Seen in other instances").

**`MSP430Emission`** follows one instruction from the MCInst the code generator
makes to the CPU: through text or directly (`PrintAndParse`, `EmitInstruction`), operand by
operand through the encoder (`Encode`, with the counter of extension words), one
`Fixup` at a time through the assembler, which resolves it or leaves a relocation,
through the layout and `relocateOne` of lld; then `Dump` disassembles what was linked
and parses the listing. `Execution` is the reference: what the CPU makes of the
words, fetching them in its own order; `Meant` is what the MCInst says. A register is
a small number with PC, SR and CG told apart, an extension word a value modulo `Space`,
a jump's field `Field` words. `SelectedBranchesFit` has the range test of the branch
selector (`isInRage`) against the ranges of the fixup and of the relocation. `ProgramsAssumption` is
what an MCInst is, and `BitOr` what `applyFixup` does to bytes. Left out: data
fixups, the text itself, undefined encodings, sections other than the instruction's.

**`LockFileManager`** is the constructor, the destructor and `waitForUnlock` of the
class, and the loop of `compileAndLoadModule` around them, for several compilers that need
the same module. A step is one call that reads or changes the file system, so that
another process comes in between any two: between reading the lock file and removing
it (`ReadLockFile`, `Purge`), between a failed link and the second look
(`CreateLink`, `RereadLockFile`, `Repurge`, `CheckExists`, `CleanUp`), between the two
removals of the destructor (`ReleaseLock`, `ForgetUnique`). The lock file is a symbolic
link; it exists if the file it names does. `Crash` is a signal, with or without the handler
that removes the unique file; `FailToLock` and `FailToCompile` are failures of the file
system and of the build, of the processes in `Failing`; `TimeOut` is a build that takes
longer than a wait. The removal of a file can fail as well, for the processes in `Failing`, and only one of
the callers looks at the result (`LockFileManager.cpp:251`, `FailToLock`); the others go on as if the file were gone
(`RemoveLock` for `readLockFile` and `unsafeRemoveLockFile`, `Released`, `RemoveUnique`). `left` are the names
whose file or lock its own process did not manage to remove (`Leave`), at most `MaxLeft`. `Host` says which process can see whether another one lives.

**`ThreadPool`** is the class with its workers and the one thread that owns it. A
step ends where a mutex is taken or given back, so that the worker that holds
`QueueLock` while it waits for `CompletionLock`, and `wait()` between its two checks, are
states of their own. Sleeping threads are woken by `NotifyOne`, `NotifyAll` and
`NotifyCompletion`, or for no reason (`SpuriousWakeUp`). A future is ready when its
task is in `done`. A task may submit tasks (`AsyncFrom`), as the JIT's dispatcher
(`LLJIT.cpp:113-117`) and the task queue do. Left out: several threads that wait, and the
sequential build without threads. **`TaskQueue`** is the user of the pool that runs its items one
after the other: an item in flight is a task of the pool (`carries`), whose stages are the
call with its promise (`SetPromise`), `CompleteTask` under the lock of the queue, `Continue`, which
submits the next item without it, and `Return`. `AddItem`, `ScheduleItem` and `MarkInFlight` are
`TaskQueue::async`; the lock is held between them. The destructor is a wait of the pool.
The owner submits plain tasks beside the items (`PlainAsync`), and these submit others
(`PlainAsyncFrom`). **`AsyncExecutor`** is its abstract specification: tasks start in the
order of submission, at most as many at a time as there are threads, all of
them finish, and waiting and closing end when all have. `ThreadPool` implements it
(`ImplementsExecutor`), and so does `TaskQueue` with one thread, its items for tasks
(`ImplementsSerialExecutor`); an item is finished when its worker has left the queue, so that
closing also means that nobody uses the queue any more. The header says that adding tasks
while a thread is in `wait()` is an error (`ThreadPool.h:69`), and yet that is how a queue is
destroyed. `AsyncExecutor` allows it to a running task, and the run shows that it works: the
submitter is active until its task is queued.

The modules `MC...` only define the small instances. Operators named `Bug...` are
plausible mistakes, each next to the definition it would replace; nothing uses them but the mutants of
`PROJECT.json`, which show that each property notices one.

## Runs

| run | shows |
|---|---|
| `BranchSelector` | every function of three blocks, bodies of 0 or 4 bytes, a field of 3 words: exact offsets, reach, control flow, successor lists, termination; the pass implements `BranchRelaxation` and lengthens no branch that could stay short |
| `Frame` | all kinds of frame with calls, allocas, interrupts |
| `FrameInterrupted` | **violation**: interrupts in the epilogue of a function with variable-sized objects |
| `CallingConv` | what the callee uses is what the caller passed, what the caller reads is what the callee returned; locations are disjoint; promised extensions are made |
| `Lowering` | every comparison under every condition and every shift computes what its node means, but for two kinds of branches that go one way whatever is compared |
| `LoweringDecided` | **violation**: such a branch, on `x <= 65535`, goes the wrong way |
| `LoweringShared` | **violation**: `icmp ne` of a truncated AND with other uses is always true |
| `AddressMode` | every form of instruction accesses what the DAG named, after matching, frame elimination and `@rn`; operations on `*p++` compute what they should |
| `IndexedSub` | **violation**: `*p++ - x` is computed as `x - *p++` |
| `Emission` | every form of instruction is executed as written, through text or not; jumps the branch selector leaves short are encoded and linked; disassembly and listing tell what is executed |
| `LockFile` | three compilers on two machines, one of which may be killed, waits that time out, files, builds and removals that fail: no forgotten lock and no litter but what could not be removed, no failure for another's fault, everyone finishes unless a removal fails for ever |
| `ThreadPool` | a task queue on a pool that also runs other tasks: both implement `AsyncExecutor`, the queue with one thread; the pool does not race on its queue, leaves no task to a busy thread and no sleeper to nobody |

*Bounds.* The field of a short branch is `Reach` words, 512 in the code and 3
in the run. What matters is the size of blocks against the field: with 3 words a
block of 4 bytes and one grown branch put the next branch out of reach, so that
growth cascades, forward and backward, and every block may be split. Three
blocks are the fewest for a branch over a block that itself grows. In `Frame` the functions
have no, one or several callee-saved registers, up to two locals of one and two
bytes (so that rounding happens), incoming arguments, and calls with 0, 2 and 4
bytes of arguments; 48 bytes of stack are more than any of them needs, which
`TypeOK` confirms. In `CallingConv` up to three arguments are bytes (signed or
not extended), words, pairs, quadruples and objects of 1 and 6 bytes, one of them
aligned to 4, in every order, and up to five are words or pairs: four registers run
out in every way, a split comes at every place it can, and words follow it. Results
are all sequences of up to four bytes and words, and one of five, which is demoted.
Anonymous arguments are words and pairs, what the C promotions leave. In `Lowering` a word has four bits and a
byte two: every pair of values and every constant is tried, so that all wraps, both
signs and overflow occur, and a shift has all its amounts, below, at and above a
byte. Nothing in the code depends on the width but the constant 8; an i8 (`Width = ByteBits`) is
what the theorems cover and no run shows. In `AddressMode`
an address has up to four summands in both groupings: two leaves decide what is base
and what displacement, a third and a fourth make one and both tries of an addition
fail at both levels. Words are modulo 16, so displacements wrap; frame objects are at
0 and at 2, so that `0(r1)` occurs. Instructions with two memory operands have a few
addresses in all pairs.

In `Emission` there are 64 addresses and a jump reaches 8 words; every form of each
kind of operation (two operands, one, branch, jump) is encoded with literals, symbols of the
section, overridden weak symbols and foreign ones in every operand, sections lie at two
addresses, so that displacements wrap, and jumps go to every address. Nothing depends on
the widths but the field of the jump and the word. In `LockFile` three compilers are the fewest
with an owner, a waiter and one that comes between them; one is on another machine and
cannot see the others die, and one process is killed (`MaxCrashes`): a second death leaves one
compiler alone. One of them can fail, any number of times, and leaves one file or link behind (`MaxLeft`).
A name for each process, which it keeps when it is killed, and one for what is left
behind are enough (`NamesAssumption`). In `ThreadPool` two workers, three items and two
plain tasks (`MaxTasks` counts both) let tasks queue behind busy threads, threads sleep while
others work, items queue behind an item and change workers; one thread is woken without
a signal (`MaxSpurious`). Two items would not do: only a third one could overtake the second.
Three workers with four tasks and three items pass as well, in two minutes.

*Fairness.* `FairSpec` of the branch selector has weak fairness of `Next`: the pass is one
sequential loop that runs until it returns. `LockFileManager` has it for each process's own
steps: a process that has something to do is scheduled, and a wait without end times
out, as `waitForUnlock` does after its last interval. Crashes and failures are not fair. For a process in `Failing` there is strong
fairness of the removal of a lock file that is in its way (`Removes`): tried again and again, it succeeds at
last. That is an assumption about the file system, not something the code sees to; "Seen in other instances" says
what happens without it. `TaskQueue` has it
for each worker and for the owner inside a function of the pool or the queue: a thread that can go on
is scheduled. It need not call anything, and is never notified without cause. Weak fairness is enough for the
mutexes because no thread can take one again and again: tasks and spurious
wake-ups are bounded, and `wait()` takes its lock twice only after a notification.
Every run ends (the pass or function returns, the processes exit, the pool is
destroyed), so deadlock is not checked; where something must happen a liveness property
says so.

*Why interrupts are off for variable-sized objects in `Frame`.* There they break
`CallerPreserved`; `FrameInterrupted` shows it. All other frames are interrupted
at every instruction.

*What else the passing runs leave out because it fails.* `Lowering` has no shared AND
under a TRUNCATE (`LoweringShared`), and its `ComparisonsHold` excepts two kinds of branches (`LoweringDecided`); `AddressMode` no SUB from a post-increment load
(`IndexedSub`); `LockFile` does not state `SingleOwner`. What no run shows is
listed below, under "Seen in other instances".

## What the violations mean

- **Interrupted epilogue.** `mov r4, r1` puts SP above the saved registers, and
  `sub #n, r1` follows as an instruction of its own. An interrupt in between
  pushes over them.
- **Shared AND.** `LowerSETCC` foresees a `BIT` for the TRUNCATE of an AND and reads
  carry as "not zero". The pattern does not apply when the AND has other uses; then a
  `CMP #0` is selected, and its carry is always set.
- **Decided branch.** Of `x <= C` with a constant `C`, `EmitCMP` makes `x < C + 1`, and so of `x > C`, signed and
  unsigned. For the largest `C` that wraps: the branch on `x <= 65535` jumps if `x < 0`, which is never.
  `SimplifySetCC` folds such comparisons, but the branch is made a `BR_CC` before
  (`DAGCombiner.cpp:12227`), and `visitBR_CC` leaves it alone if the folded condition is a constant (12345-12362).
  IR that has been optimized has no such branches, other IR does. The second kind, `(x & y) >= 0` unsigned, becomes a `BIT`,
  whose carry is "not zero" where that of `CMP #0` is always set.
- **Indexed SUB.** A post-increment load is folded from the first operand of a SUB,
  as for the operations that commute.

## Seen in other instances

These disagreements have a property and an instance in the modules, but no run; each shows
with the change named.

- **Degenerate branch** (`DegenerateJCC = TRUE`, `LayoutSuccessorAsserted`). `expandBranches` skips the
  successors equal to the destination when it divides the edges of a split block, so a block
  whose two destinations are equal loses its layout successor and the next scan asserts
  (`MSP430BranchSelector.cpp:185`). Only llc on hand-written IR makes one.
- **Over-aligned locals** (`Functions <- Overaligned`, `LocalsAligned`). The target does not say that it cannot
  realign its stack, so such allocas go into the static frame; the prologue never realigns.
- **Address zero** (`Addresses <- ZeroAddresses`, `AddressesAgree`). `0(rn)` becomes `@rn` whatever `rn` is. For
  an absolute address it is SR, and `@SR` is the constant 4 of the CPU.
- **Listing of a jump** (`Programs <- JumpPrograms`, `JumpListingReassembles`). The printer writes `$` and
  bytes from the jump, the parser reads `$` and words from the next instruction
  (`InstPrinter/MSP430InstPrinter.cpp:41`, `AsmParser/MSP430AsmParser.cpp:346`); they agree for `$-2` alone,
  which is what `test/MC/MSP430/opcode.s` tests.
- **Two owners** (`LockFile` with `Proc = {p1, p2}`, `Host <- AllLocal`, `Failing = {}`, `MaxLeft = 0`, `MaxCrashes = 0`,
  `MayTimeOut = FALSE`, `SingleOwner`). `readLockFile` removes a lock file it could not open
  (`LockFileManager.cpp:57-58`), as at the first look of every constructor that finds none. Another process
  creates it in between, the first removes it and makes its own: both own the lock, although nobody died, failed or
  timed out. `LockFileManager.h:24-26` says that the class uses "the atomicity of the file system to ensure that
  only a single process can create that ".lock" file. When the lock file is removed, the owning process has finished the
  operation." It is a matter of speed only: modules are written to a temporary file and renamed, so the
  properties of `LockFile` hold all the same.
- **Removal that always fails** (`LockFile` without the strong fairness in `Fairness`, `EveryoneFinishes`). A killed owner leaves a
  link to no file. A process that can create files but not remove this one finds the link in its way (`CreateLink`), cannot
  open it (`RereadLockFile`), does not notice that its removal failed (`Repurge`), sees no file through it
  (`CheckExists`) and starts again, without a pause: the loop at `LockFileManager.cpp:218-247` has no other way out.
  A waiter that cannot remove the lock of an owner it gave up on goes round in the same
  way, once per timeout (`CompilerInstance.cpp:1302`).

These were seen in the code and are kept out of the instances checked:

- the comment of `AnalyzeArguments` (`MSP430ISelLowering.cpp:435-436`, never mixing registers and
  stack) is out of date, the code splits a pair as the EABI wants; an argument with
  pieces of both types (a first-class `{i8, i16}`, which clang never makes) gets the
  type of its first piece for all of them, so that `ValuesArrive` fails for it;
- `br @r5`, as `Bm` with `0(r5)` is printed, is refused by the parser;
- `0(rn)` in a source comes back from text as the shorter `@rn`, so a number in the
  destination that counts from PC means another place (`Moved` in `MCEmission`);
- lld refuses a symbolic operand more than 32 KiB behind its word although the CPU's
  addition wraps; `SelectedBranchesFit` says so for operands that are not jumps;
- bytes the encoder never makes: `push @rn` reaches an `llvm_unreachable` of `DecodeCGImm`, and
  the disassembler reads extension words past the end of its bytes;
- a frame index and a symbol in one sum, which `MatchAddress` would fold into one operand.

## Proofs

`MSP430BranchSelector_proofs` proves, for every number of blocks, every set of
even body sizes and every field of at least three words:

- `TypeCorrect`: `Spec => []TypeOK`, including that the numbering stays a
  permutation;
- `OffsetsCorrect`: `Spec => []OffsetsExact`. The offsets are only partly
  known while measuring, and a split makes part of them stale on purpose, so the
  inductive invariant says up to which number they are exact, what `total` holds while
  measuring and that `start` is the size of what has been scanned of the block;
- `ReachCorrect`: `Spec => []ShortBranchesReach`. This is the interesting one: a
  branch accepted early in a scan may go out of reach later in the same scan. The
  invariant says that while `changed` is false the branches scanned so far
  reach, so a scan that ends with `changed` false leaves none out of reach; the
  early exit is covered by all offsets lying between 0 and the total size, and
  a branch over a `Bi` always reaches because `Reach >= 3`.
- `FlowCorrect`: `Spec => []FlowPreserved`. A branch of the input is in one of
  three shapes: as it was; reversed, over a `Bi` to its destination; or that with
  the `Bi` in a block of its own, the next one in the layout. `Shape` says so for
  every block, and that the blocks split off are the last ones, each behind the
  block it was split from. That is not inductive alone: the pass would reverse a
  reversed branch again if it got out of reach. It never does, because the offsets
  are exact and what it jumps over is a `Bi` of 4 bytes (`OverReaches`), so this
  rests on the invariants above.
- `SuccessorsCorrect`: `[]SuccessorsMatch`, and `AssertionHolds`: the assertion of
  the code (`MSP430BranchSelector.cpp:185`) holds. Both have the hypothesis
  `DegenerateJCC = FALSE`; without it they are false (see "Seen in other instances").

The assumptions are the named `ASSUME`s of the module: at least one block, even
body sizes (asserted by `isInRage`), a field wide enough for the jump over a `Bi`.

Its last part relates the pass to branch relaxation, with the same
generality, degenerate branches included. `RefinesRelaxation` is the safety part of `ImplementsRelaxation`, step by step:
only `ExpandJCC`, `ExpandJMP` and the step that ends the pass are steps of the abstract
specification, measuring, splitting and skipping stutter. `ImplementsIfEnds` adds that the whole of
`ImplementsRelaxation` follows once the pass ends (`Terminates`, which TLC checks).
`NoneNeedlesslyLongCorrect` is `Spec => []NoneNeedlesslyLong`. Three things carry them:

- `Origin` says what has become of each block of the function: the blocks keep their order,
  each split-off block stands right behind the block it was taken from, which was split once, and the two
  together hold its branches, short or long. The long branches read off the code
  are then exactly those lengthened (`LongIs`), and each expansion adds one (`LongChanges`).
- The offsets of the pass are those of the layout which the long branches determine
  (`OffsetsAre`), although one is kept by adding growth and the other is a sum over all
  blocks before; so the distance measured is the span of the abstract branch (`JccSpan`, `JmpSpan`).
- Distances only grow with the set of long branches (`DistancesGrow`), so a branch that
  does not reach now does not reach in any layout in which it is short (`TooFarStays`), and
  lengthening it keeps the set minimal (`LengthenMinimal`).

The sum is a recursive function over the blocks. The library's induction theorems cannot be used
here, but one about sets can: a set of numbers that is not empty has a least element
(`Least`, from the well-foundedness of `<`), and with it that the sum exists and what holds
for it from each block to the next holds for all (`Induct`, `SumsExist`, `LayoutIs`).

`MSP430Lowering_proofs` proves `ComparisonsCorrect`, `Spec => []ComparisonsHold` for
words of every size, so for bytes and words. Its hypothesis is that no AND compared
through a TRUNCATE is shared; without it the theorem is false, as `LoweringShared`
shows. `ComparisonsHold` itself excepts the two kinds of branches that `LoweringDecided` is about: a constant that
wraps in `EmitCMP` (`Wraps`), and the unsigned comparison of an AND with zero (`MissesCarry`). All other
nodes, with all other constants, are covered, and every `setcc` and `select_cc` (`Faithful` names what the argument needs). The argument follows the value backwards: the code chosen by `EmitCMP` means,
on the operands it chose, what the condition meant on the given ones (`EmittedMeans`;
the constant plus one does not wrap for what is `Faithful`), the
flags of `CMP` decide every code and those of `BIT` all that is then asked of an AND
(`CmpDecides`, `BitDecides`), and the bit read from SR is the code's (`ValueMeans`).
The inductive invariant says so at each value of `pc`.

`ShiftsCorrect` (`ShiftsHold`) and `TypeCorrect` are about shifts of every width and every amount below
it. The invariant is what the value is on the way: the original shifted by what has been done so far,
for each turn of the loop (`ShiftedSoFar`) and each instruction of the list (`HalfWay`). One bit
more is division by twice the power (`OneMore`); that the later bits of a logical
shift may be made by `RRA` needs that one bit has been shifted in by then (`RightOneMore`), and that a byte swap and an
extension shift by a byte, with the sign of the high byte, is arithmetic on two digits (`ByteMoves`).
The provers know nothing of `2 ^ n`, so `PowerAssumption` states what the proofs need of it for the
exponents up to the width: it is positive and doubles, and a word of two bytes is a byte
squared. These are facts of arithmetic, not of the code; TLC evaluates them for the widths of the runs.
`WidthAssumption` says that a word is a byte or two.

`MSP430Frame_proofs` is about functions with any locals, stack arguments, calls, used registers and
dynamic allocas. It proves `TypeCorrect`, `FrameIndexesCorrect`, `VariablesSafe`, `ArgumentsCorrect`,
`CallerGetsBack` (`CallerPreserved`) and `CallerFrameSafe` (the action property `CallerFrameUntouched`).
Nothing in the code checks that the stack is deep enough, so every one of them has the
hypothesis that SP stays within it (`[]StackSuffices`), and `CallerGetsBack` that no interrupts
meet variable-sized objects; without that it is false (`FrameInterrupted`). The invariant, which TLC has
checked as well, has two halves. `LayoutInv` follows the layout pass: the slots of the saved registers
and below them the locals, each below those before it (`Stacked`), and at the end room
for the outgoing arguments below all of them (`LaidOut`). Of its loops it needs
only that `alignTo` never goes down (`AlignToBound`) and that the largest call frame is one (`Largest`).
The other half says where SP is before every instruction of prologue and epilogue
(`BeforePrologue`, `BeforeEpilogue`) and in the body (`BodyInv`), and which registers
are in their slots. The stepping stone is that all that can be overwritten lies below the slots still
needed (`KeepsSaved`), and that the variables are apart and above the outgoing arguments (`BodyBounds`). That the
epilogue pops what the prologue pushed rests on `SavedRegisters`: the list has each register once.

`MSP430CallingConv_proofs` is about all calls: any number of arguments of any pieces,
objects of any size and alignment, splits, variadic functions, hidden pointers and both conventions.
It proves `TypeCorrect`, `LocationsApart` (`LocationsDisjoint`), `ArgumentsArrive` (`ValuesArrive`) and
`ExtensionsHold` (`AssertedExtensions`). Each argument extends what has been handed
out so far (`Extends`): registers are taken from the first on, the count of registers left is that of the
free ones (`InStep`), and its pieces lie beyond those before it (`Beyond`, `Apart`). The stack
offset stays even, whatever the size of an object, which is why `va_arg` need not round up. That the two sides
agree is the interesting part, as neither sees the other's list. The invariant says that there is
a history of the caller's analysis, argument by argument, of which the callee's state is an
element (`IsTrace`): its list is a prefix of the caller's and each of its steps one
the caller has made. The list of variable arguments starts where the history
stands after the formals and moves along it (`VaFollows`). The rest follows the bytes: what is stored stays in
place until it is read (`StackInv`), since places are apart, a register holds the one piece given to it
(`RegsInv`), what is received is what was passed (`GotInv`), and what is returned is read (`ResultInv`).
`SignaturesAssumption` is what it rests on: the pieces of a value are of one type, an object has
one piece (its address), alignments above 1 are even, anonymous arguments are words, and an `sret`
function returns nothing else (`Verifier.cpp:2093`) and has the pointer first. Only first-class structures could break the first of these, see "Seen in other instances".

`LockFileManager_proofs` is about any number of compilers on any hosts, of which any number
are killed, time out or fail. It proves `TypeCorrect` (`TypeOK`), `NoForgottenLockCorrect`,
`NoLitterCorrect` and `OnlyOwnFailuresCorrect`. The invariant that carries them is that
file names and processes match: who is at a place where it should have a unique file has one that names
it, no two processes have the same, and no file is without the process that made it
(`HoldInv`, `NameInv`, `FileInv`) unless it is in `left` and given up (`Abandoned`). Then what the link names is
the file of a process at work or killed, or one whose lock could not be removed (`LinkInv`), so whoever reads the lock reads another's name. A name no
process has exists by counting (`UnusedName`). Every action is one process going from a place to
another (`Goes`) that keeps its file, gives it up or makes it, and each of these is proved
once. It assumes that there are names for the processes and `MaxLeft` more, and that both are finite;
any removal may fail there, of any process in `Failing`, as often as `MaxLeft` allows for those that leave
something behind. The safety properties need no removal to succeed.

`TaskQueue_proofs` has two parts. The first is about the pool, with any number of workers and tasks. `TypeCorrect` includes that the
queue is in order and the counter counts. `NoTasksRaceCorrect` follows from who holds
`QueueLock` and what `ActiveThreads` counts. `NoIdleThreadCorrect` is an induction of its own:
the tasks in the queue are at most the workers awake and the signals about to be
given, as long as anybody sleeps. `ExecutorCorrect` is the safety part of `ImplementsExecutor`, step
by step: only `PopTask`, `RunTask`, the submissions and the ends of the owner's functions are steps of the executor,
all others stutter. It needs that a task that has been taken is either done or with exactly one worker
(`TaskInv`), and that nobody runs when `wait()` or the destructor returns.

The second part goes on from there, with any number of items. `QueueRespectsPool` says that the
specification of the queue implies the pool's, so that the theorems of the pool hold of it
(`PoolWithQueueCorrect`); the point is that no item is submitted to a pool being destroyed.
`SerialExecutorCorrect` is the safety part of `ImplementsSerialExecutor`. Its invariant is about a token:
while an item is in flight exactly one of the owner, a task of the pool and a worker between two
items has it, and the item is the last one taken from the queue (`TokenInv`). The hard state is the one between the submission of an item
and the flag that says so (`call = "mark"`): the item may be running already, but cannot be
complete, as that needs the lock.

`MSP430AddressMode_proofs` is about every selection DAG, of any size and shape and with any sharing of nodes.
It proves `TypeCorrect`, `AlwaysSelectedCorrect`, `AddressesCorrect` (`AddressesAgree`) and
`ResultsCorrect` (`ResultsAgree`). A DAG is not finite here by assumption; that a node is higher than its
operands is enough, because a set of heights that is not empty has a least element (`NodeInduct`). That a function defined
by recursion over the nodes exists at all is proved once for any definition that asks only
for lower nodes (`Recursion`), and used for `Value` and `MatchAddress` (`ValueIs`, `MatchIs`). Then:

- `MatchAdds`: if matching a node on top of a mode succeeds, what the new mode is worth is what the old one
  was plus the node, for every mode to begin with. This is where the mode that is left behind
  matters: the second try of an ADD, and the base register, must start from the
  mode of the beginning. It needs that sums commute and associate, with displacements
  that wrap (`PlusIs`, `PlusAssoc`).
- `MatchAlways`: with no base so far, matching succeeds.
- The invariant says what the operands are after each pass (`PassInv`): those of `SelectAddr`, the same with
  SP and the offset of the frame object put in, and the same or, if the displacement
  is zero, without it. `PlacedRight` says that the address is the node's in both cases.

`AddressesCorrect` has the hypothesis that the addresses are `Addressable`. TLC evaluates it for
those of the run, and `MeantAddressable` says it in terms of what an address is worth: not SP and a
symbol, no jump table, not zero. `ResultsCorrect` has the hypothesis that no SUB has a load
as its first operand, without which it is false (`IndexedSub`).

`MSP430Emission_proofs` is about every instruction of every form, with any references, at any offset of
a section at any even address, and about words and jump fields of every size of which a jump reaches
less than half of memory. It proves `TypeCorrect`, `ExecutedCorrect` (`ExecutedAsWritten`),
`SelectedBranchesFitCorrect`, `DisassemblesBackCorrect` (`DisassemblesBack`) and `ListingReassemblesCorrect`.
It rests on `ProgramsAssumption`: the operands have forms of the instruction tables, the places symbols name
are in memory, a jump by a number fits; and the two texts that the parser refuses or reads as a shorter instruction
where that matters are left out (see "Seen in other instances").

- The invariant `IInv` says that there is an instruction, the written one or what was read for it, and two sets
  of its operands: those with a fixup to come and those with a relocation to come. From these it
  says what the queues hold (`QueueInv`), and what each field of each word is (`ExtInv`, `WordInv`, `JumpInv`): zero
  before its operand is encoded and while something is to be added to it, and the value of its reference from then
  on. The existential is needed as the listing replaces `inst`, and the sets because a fixup is done or handed on
  without a trace in the words.
- A fixup is or'ed into the word. That this writes the value is true only because the word is still zero there,
  which `ExtInv` says, and `OrZero`: `BitOr` is a recursive function over all words, proved
  to be what it should on zero by the argument about the least number.
- Where a value counts from is the arithmetic of the module: remainders are unique (`Remainder`), adding to a
  word is adding to the number (`WordSum`), signed words are unique (`SignedUnique`), a field says its offset
  (`FieldBack`), a jump by the words of an even distance that fits goes there, also around the end of memory (`JumpTo`), and
  one the fixup or the relocation refuses is odd or further than `isInRage` allows (`OutOfReach`), with the two
  bytes between the place of the fixup and the next instruction accounted for.
- `ExtSays` and `TargetExecuted` then say that word and address together are what was meant; `TextMeans` that text
  changes the form of an operand but not what it names; `DecodedMeans` that the disassembler and
  the CPU read the same words.

`ListingReassemblesCorrect` has the hypothesis `ListingKeeps`: where the listing is read as a shorter
instruction than the one listed, it is no branch and has no word counted from PC behind the
lost one. A symbol may have a value the constant generator has, or zero, and the bytes do not tell, so without the
hypothesis the property would be false; it holds in all states of the run, of which some have such a shorter listing.

Only model-checked is liveness: `Terminates`, `EveryoneFinishes`, and the fairness in `ImplementsExecutor` and
`ImplementsSerialExecutor` (out of the prover's reach).

## Plan

1. *Branch selection* with its abstract specification and proofs: done.
2. *Frames*: modelled, checked and proved.
3. *Calling convention*: modelled, checked and proved. Left: the outgoing area composed with the
   frame's.
4. *Code emission*: modelled, checked and proved.
5. *Selection*: compares, selects and shifts are modelled, checked and proved;
   so are memory operands and indexed operations.
6. *Concurrency support*: lock files, the thread pool and the task queue are modelled, checked and
   proved, as far as safety goes.

## Not modelled

The clang driver and target tables (lookups), target configuration, debug
information, text beyond what changes an instruction, the parallel loops of lld
(`lib/Support/Parallel.cpp`, an executor like the thread pool without `wait`), ORC (a JIT,
which this target does not use), and the unmodified LLVM, clang and lld around the back end, except
for what the modelled parts call. The repository is the whole LLVM monorepo, more than three
million lines of which some eight thousand are the MSP430 toolchain's own: the models
cover most of the latter's logic, a small share of the former.
