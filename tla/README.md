# Verification of the STM32N6 people-detection benchmark

The repository is a Zephyr application for the STM32N6 board: it reads images from
an SD card, runs a YOLOv2-style network on the ATON NPU, decodes the boxes and
scores them against a ground-truth file. The application proper is in `src/app`;
the NPU runtime it links (`src/Lib/AI_Runtime/Npu/ll_aton`) has the concurrency.

This directory holds TLA+ modules for the parts that decide something, TLC
configurations that check them on small instances, and TLAPS proofs. `PROJECT.json`
lists the components, the runs, the hazards each property is aimed at, and the
source lines behind every definition.

    tlc -config DaoMutex.cfg MCDaoMutex        (any run below)
    tlapm DaoMutexProofs.tla                   (the proofs)

Short names for the sources used below: *runtime* is `ll_aton_runtime.c/.h`, *OSAL*
is `ll_aton_osal_rtos_template.c` with `ll_aton_osal_zephyr.c/.h`, *lib* is
`ll_aton_lib.c` with `ll_aton_lib_sw_operators.c`, *model* is `app/src/model.c`, *main* is `app/src/main.c`.

## Inventory

| Component | State | Operations | Talks to | What makes it correct |
|---|---|---|---|---|
| ATON lock (OSAL) | `_dao_mutex`, `_current_aton_owner`, its saved priority, `_nr_dao_waiters`, `_dao_wait_queue` | `LL_ATON_OSAL_LOCK_ATON`, `_UNLOCK_ATON` | runtime; Zephyr's scheduler, `k_mutex`, `k_sem` | one owner, counted waiters, no lost wake-up, inherited priorities undone, no priority inversion, progress |
| Event semaphore (OSAL) | `_wfe_sem` | `LL_ATON_OSAL_WFE`, `_SIGNAL_EVENT` | runtime thread and interrupt handler | each wait is signalled; no signal is left over |
| ATON runtime | `exec_state` of each instance, `__ll_current_aton_ip_owner`, wait mask, interrupt controller | `LL_ATON_RT_RunEpochBlock`, `_Init_Network`, `_Reset_Network`, `ATON_STD_IRQHandler` | NPU by registers and interrupts, lib by inserted epoch blocks, OSAL | no assertion fails, blocks in order, a block ends after its hardware, NPU used by its owner only, inferences end |
| Hybrid operators (lib) | one static heap, static epoch block arrays and their wait masks; `__ll_lib_params_t`: tensors, index, addresses, the two stream engine descriptors | Concat, Split, Slice, SpaceToDepth, DepthToSpace, Transpose, Pad, Cast, Softmax; start and end functions of the inserted blocks | runtime, NPU's DMA engines, CPU cache | all turns are made, state used by the owner only, the output holds what the operator's definition says, neighbours intact, engines off between turns |
| Stream engines (`ll_aton.c`) | their registers | `LL_Streng_TensorInit` | hybrid operators | the bytes a descriptor names, in order; the writer stops by itself |
| Epoch controller's blob (`ecloader.c`, `network.c`) | the blob in RAM, the base it was relocated to, the user's input buffer | `LL_ATON_EC_Network_Init`, `_Inference_Init`, `LL_ATON_Set_User_Input_Buffer`, `ec_copy_blob`, `ec_reloc` | runtime, CPU cache, NPU cache | relocations do not add up; an inference runs the program of its own buffer |
| Generated network | epoch block table, buffers at fixed addresses | blob 1, DequantizeLinear on the CPU, blob 22 | runtime, cache maintenance | CPU and NPU see each other's writes |
| Model glue (model) | `detections`, `latest_inference_time`, `number_output` | `nn_init`, `run_nn_from_sd_card`, `model_get_boxes` | runtime, post-processing, cache | the post-processing reads this image's output |
| YOLOv2 post-processing | the network's output buffer, `nb_detect`, the sort class | decode, sort, suppress, limit, copy | model | decoding in place loses nothing, the limit holds, the best boxes stay |
| Ground-truth reader (`app/src/utils.c`) | line buffer, position, file | `gt_find_person_boxes_csv`, `count_csv_lines` | file system, main | the first row of the image, complete or an error; the file is closed |
| Benchmark (main) | counters, statistics, image buffer, `pressed` | `run_benchmark_on_sd_card`, `button_input_cb` | all of the above | scores belong to their image, counts agree with each other |
| The other units of `ll_aton.c`, `ll_aton_reloc_network.c`, `ll_aton_dbgtrc.c` and utilities, arithmetic software operators, other post-processors, display and video, data-set scripts | | | | not modelled, see the end |

The hard behaviours are of four kinds.

* **Interleavings.** Threads meet in the lock's window between leaving the scheduler
  lock and pending on the semaphore; the interrupt handler writes `triggered_events`
  while a thread tests and clears them; the NPU raises interrupts at any moment.
* **Protocol.** A hybrid epoch block inserts an array of its own into its network,
  returns to the user between the turns and keeps the NPU meanwhile; a network may be
  reset between two blocks; one thread may alternate between networks.
* **Memory.** The CPU's cache may evict any line at any moment, the NPU works behind it
  and has one of its own, tensors share lines with their neighbours, and the same
  addresses hold activations, floats, the output and the decoded boxes in turn. The
  NPU's program is itself data that the CPU patches in place.
* **Failures.** `CONFIG_ASSERT=n` (`app/prj.conf:16`) removes the application's
  asserts, so what they claim about reads from the card has to hold without them.

## Modules

`AtonLock` and `EpochOrder` are abstract specifications; the others follow the code.

**`DaoMutex`** models the deferred-owner mutex on one core with Zephyr's priority
scheduler. What runs between `k_sched_lock` and `k_sched_unlock` is one step. A thread
is `idle`, at `lock`, counted but not pended (`take`), `pending`, woken (`retry`),
`held` or waiting for the NPU as owner (`npu`). `Lock`, `Retry` and `Take` are the
pieces of the `do` loop, `Unlock` is the whole unlock with the kernel's direct
hand-over of the semaphore. Application threads that never use the NPU are `Hogs`.
`AtonLock` is what it promises; it says that only a thread that asked gets the lock
and that the holder alone gives it back. The lock is compiled into builds with
`APP_HAS_PARALLEL_NETWORKS`; this application is built without.

**`AtonRuntime`** models the asynchronous runtime. One action stands for the code
between two points at which the interrupt handler or another thread can matter:
`Call`, `Enter`, `Clear`, `End`, `Determine`, `LeaveLib`, `Finish`, `Pause`, `Start`,
`Acquire`, `Launch`, `Wfe` are `LL_ATON_RT_RunEpochBlock` and its callees; `IsrEnter`,
`IsrAck`, `IsrClear` are the handler; `Done` and `Abort` reset a network; `NpuStep` is
a unit that finishes. The `...Asserts` operators are the `LL_ATON_ASSERT`s at that
point. `LL_ATON_ASSERT` is active in this build (`NDEBUG` is not defined), so a failed
one stops its actor, and `NoAssertFails` says that none does. `Network` gives the
blocks of each instance, `Lib` the shape of each operator: its turns, whether a turn
needs a transfer, whether its end function resets the wait mask, and what follows it.
`Users` maps each build (with parallel networks or without) to the threads that run
inferences in it; without, `LOCK_ATON` does nothing.
`EpochOrder` is what the runtime promises the networks.

**`OutputCache`** models the CPU's write-back data cache over four pieces of memory and
the steps of one inference, from the read of the image to the decoded boxes, with every
cache maintenance call in its place. A line may be evicted at any moment.
`NumberOutput` is the variable `number_output`, which the code never assigns.

**`CsvGt`** models the two readers of the ground-truth file. A symbol of the file is a
field with its comma, or a line end; the line buffer holds `Cap` fields. First
`count_csv_lines` opens the file (`CountOpen`), counts line ends (`CountRead`) and ends
(`CountEnds`), either at the end of the file or at a failed read: its loop does not tell
them apart and returns the smaller number as a success, so only the model knows which it
was (`whole`). Then one lookup opens and reads the file again. The content is chosen while
it is read for the first time; the lookup reads the same symbols again as far as they were
counted, and further ones if counting failed before the end (`SameFile`).
**`Benchmark`** models `run_benchmark_on_sd_card` with the failures of the file system,
inference and lookup in between. Its `CountLines` is `count_csv_lines` as seen from
there: an error, or the lines of the rows but for the `unread` ones behind a failed read,
which the lookups may still find. **`Yolov2Post`** models the decoding in place and the non-maximum
suppression over any scores and any overlap relation; a turn of the decoder, of the
suppression, of the limit and of the final copy is a step each.

**`StreamEngine`** has no state: it is `LL_Streng_TensorInit` as a function. A
descriptor (raw, or batches of lines of frames) stands for a sequence of byte
addresses, `Address(d, k)`. `Transferred` is what a reader and a writer joined by the
switch do to memory, and `Completes` says whether the writer gets all it counts; if not,
it raises no interrupt and the turn never ends.

**`HybridCopies`** extends it to the operators that move tensors. A *call* is the
argument list of one of them; the actions `Concat`, `Split`, `Slice`, `SwSlice`,
`SpaceToDepth`, `DepthToSpace`, `Transpose` and `Pad` choose among the ways the code
has (a copy on the CPU, one transfer, or one turn per tensor, row or chunk), write the
prolog and program the engines. The `Start...` actions are the start functions of the
inserted blocks, `EnginesDone` is the interrupt of the writer, and the `End...` actions
are the end functions, Pad's callbacks included. Each byte of memory holds the address
it came from, so that the result can be compared with `Moves`, the definition of the
operator element by element, which does not know how the copy is done. The CPU's cache
has lines, `Evict` writes a dirty one back at any moment, and `Cleaned` and
`CleanInvalidateRange` are what the cache driver does to ranges, widened to lines as the
driver widens them.

**`EcBlob`** models the program of the epoch controller from the network's
initialization over any number of inferences: the copy to RAM, the relocation in place
(`word += base - previous base`, modulo 2^32) and the cleaning and invalidation of both
caches, against an application that may set another input buffer at any time.

**`HybridCopiesInvariant`** states, on top of it, what is true between any two steps;
the proofs use it. Added to the invariants of the run `HybridCopies`, TLC finds it to
hold in every state. It also states which calls compute their result (`WellPosed`) and
what is true of those between two steps: `InOneGo` of those that are one copy or one
transfer, `FlatTurns` of those that copy tensor after tensor. TLC finds the invariant
made of them (`OnItsWay`) to hold in every state, too.

The modules whose names start with `MC` give constants to the runs.
Operators that a comment calls a *variant* are plausible bugs of the definition after
them; each property is checked to refuse one of them.

## Runs

| Run | Bounds | What it shows |
|---|---|---|
| `DaoMutex` | 3 threads of different priorities: 3 users, or the middle one a hog | type, owner, waiter count, no lost wake-up, restored priorities; no inversion and the most urgent user served while at most one other thread can wait; progress; implements `AtonLock` |
| `DaoMutexInversion` | 3 users | **violated**: see findings |
| `AtonNetworks` | both builds. With parallel networks: two threads with a network each. Without: one thread, the application's network (blob, software block, blob) and one of engine blocks in turns. Between them: blobs, engines, software, hybrid with and without an inserted array; three operators (turns with and without a transfer, a follow-up operator, return by callback); 2 inferences each; resets | all safety properties of the runtime; an operator makes all its turns; inferences end; implements `EpochOrder`, and `AtonLock` with parallel networks |
| `AtonHybridTurns` | one thread without the lock, one network with a hybrid block | **violated**: see findings |
| `CacheCode` | 3 images | what the code's maintenance is enough for |
| `CacheStaleOutput` | 3 images | **violated**: see findings |
| `CsvGt` | files of up to 8 symbols, buffer of 6 fields, 1 box of 2 fields per row; opening and reading fail anywhere, in both readers | lookup against a reference definition and the two readers against each other |
| `Bench` | 3 files, 1 directory, times 0, 2, 3, one row for no file; any of the rows left uncounted | counters, statistics, progress, own image |
| `BenchShortRead` | as `Bench`, with short reads | **violated**: see findings |
| `Yolov2` | 4 anchors, 1 class, scores 0..2, limit 2 | decoding in place, limit, disjoint results, only better boxes displace one |
| `HybridCopies` | the calls of `MCHybridCopies`: 96 bytes of memory, lines of 4, at least 6 bytes for DMA (8 to fill and 16 to frame a pad), 3 tensors a heap array, 3 padded axes, a bus port of 8 bytes | results, neighbours, bounds of the engines, dirty lines, engines off, every call ends |
| `EcBlob` | 3 words of which 2 are relocated, words modulo 16, buffers 0, 4, 6, 8, an input of 2 bytes, alignment 4 | relocations, the program of an inference, its stability |

Why the bounds are enough. Three users are the fewest with an owner, a pended waiter
and a thread in the window before pending. Two networks with different hybrid operators
are the fewest in which library state can be confused; two inferences show the state a
first one leaves behind. Three images do the same for the cache, where one leaves
dirty lines for the next, with a middle one that has both neighbours. Eight symbols are enough for two rows with a box, for a row
that overflows the buffer and still goes on, and for an unterminated one. Four anchors
with a limit of two leave boxes that the limit cuts and boxes that suppression drops.
The calls of `HybridCopies` take each operator through each of its ways and its
refusals, with elements of 1 to 4 bytes (the widths with a case of their own, 3 being
the odd one and 4 travelling as two channels), tensors that start in the middle of a
line and share lines with their neighbours or have lines of their own, sizes that do not divide by the three bytes
of a raw channel, tensor lists longer than the heap array, pads that crop (negative),
that add whole rows of up to four axes, and reflections that go back and forth over a
short axis. The thresholds are scaled down so that small tensors pass them; the code
compares with them and does nothing else. In `EcBlob` one word wraps around the modulus
when it is relocated, one is not relocated, and one buffer is refused.
Deadlock is checked where the system runs for ever (`DaoMutex`, `EcBlob`, and `AtonRuntime` and `HybridCopies`, whose
rest states are explicit); the sequential modules end.

Fairness. `DaoMutex`: a thread the scheduler runs goes on (weak fairness of its lock and
owner steps), an owner does unlock (strong fairness, because it may start blocks in
between and be preempted), the NPU finishes. Nothing is assumed of requests or hogs.
`AtonRuntime`: the interrupt is taken, units finish, a ready thread runs. The code
justifies these by construction: Zephyr runs the most urgent ready thread, and the
runtime starts units only with a finite job. `HybridCopies`: the thread goes on, and
engines finish *if the reader's stream has all the bytes the writer counts*: that they
can is what `OperatorEnds` is about. Evictions are never assumed.

## Findings

* `DaoMutexInversion`: the priority inheritance that the design comment
  (`ll_aton_osal_rtos_template.c:20-27`) promises is lost for a thread that is
  overtaken between leaving the scheduler lock and pending. The owner unlocks, wakes a
  less urgent thread, and that one becomes owner without inheriting.
* `AtonHybridTurns`: the API notes forbid another instance on the same thread only after
  `LL_ATON_RT_WFE`, but a hybrid block returns `LL_ATON_RT_NO_WFE` while it owns the NPU.
* `CacheStaleOutput`: `number_output` stays 0, so the loops that invalidate the output
  do nothing, and the post-processing may read the floats that `DequantizeLinear` left
  in the cache instead of the NPU's output.
* `BenchShortRead`: the assert on the bytes read is compiled out; a short read scores
  the older image.

Three more observations have no run. For the first of the cache loops the missing
assignment also means that boxes the post-processing left dirty in the cache may be
written back over the activations of the next image. "Images with predictions"
(`main.c:585`) leaves out images without a ground-truth row, so that the precision
never sees a detection in them. And in `LL_ATON_LIB_Slice` (lib's software operators,
lines 213-273) `index_end` is a `uint32_t`: a backward slice whose end is -1, that
is, down to index 0, stops after one index of that axis. The model has the loop and the
comparisons of `__ll_aton_lib_is_in_slice` as they are (`Visited`, `InSlice`), and the
backward calls of the run end inside the axis or take one index.

## Proofs

`DaoMutexProofs` proves, for every finite set of threads and every assignment of
priorities (`ThreadAssumption`, `PrioAssumption`), what the run `DaoMutex` checks but
its liveness: `TypeOK`, `OwnerConsistent`, `WaitersCounted`, `PriorityRestored`,
`NoLostWakeup`, and that `DaoMutex` implements `AtonLock`.

`NoLostWakeup` is not inductive: `Unlock` gives the semaphore only if it is not
available, so one has to know that an available token means that nobody is pended
(`TokenOrPended`), and that the counter that guards the give is the number of waiters
(`WaitersCounted`), which needs the typing and the owner's agreement. `Invariant` is
the conjunction; there is one lemma per operation, and `Waiters` gains or loses one
member at a time (`WaiterArrives`, `WaiterLeaves`). The refinement maps the holder to
the kernel mutex and "wanting" to the threads between their call and their success;
under `Invariant` each step is a request, a grant, a release or a stutter.

The same module proves `NoInversionByOne` for any priorities and any number of hogs:
with two users only one thread waits, and `Inherited` says that it is not overtaken
between leaving the scheduler lock and pending. The run `DaoMutexInversion` shows that
three users are enough to lose the inheritance.

`AtonRuntimeProofs` proves for all networks, operators, threads and both builds
(`LibAssumption`, `NetworkAssumption`, `ServesAssumption`, `UsersAssumption`,
`NamesAssumption`, `InferencesAssumption`) every property of the run `AtonNetworks` but
`InferencesEnd`. The inductive invariant follows the NPU through the life of a block.
Either it is at rest (`AtRest`), or one thread has started a block and waits for it, and
then its units are at work or finished (`AtWork`), the handler has been entered
(`Handled`), the event is recorded (`Recorded`), or it is signalled and the thread
on its way to clear it. `Protocol` says who is where meanwhile: a network owns the NPU
exactly while it is in inserted blocks, about to enter them, or in a block of its own
that takes the NPU (`Owners`); inserted blocks return to a hybrid block (`LibShape`);
only the owner has unmasked interrupts (`Masks`). Without the first part one cannot know
that a thread that finds its event finds the hardware at rest, without the second that
the event is its own.

A failed assertion stops its actor, so the invariant may use each assertion after the
point where it stands, and the theorems built on it hold whatever the users do:
`NpuWorksForOwner`, `BlockEndsAfterHardware`, `LibStateIsOwners`, `WaiterIsWoken`,
`OperatorCompletes` (the index counts the turns, `Turns`) and the refinement of
`EpochOrder`. That no assertion ever fails, and that the runtime implements `AtonLock`,
is proved for systems that are `Disciplined`: each thread runs one network, or only networks
without hybrid blocks, and without the lock there is one thread. The networks of
`AtonNetworks` are disciplined; what `AtonHybridTurns` shows is what happens to others.

`EcBlobProofs` covers the whole module `EcBlob` for every blob, word size and set of
buffers (`ModulusAssumption`, `BlobAssumption`, `BufferAssumption`): `TypeOK`,
`BlobFollowsPrev`, `RunUsesItsBuffer` and `ProgramStaysInRun`. Its core is arithmetic:
adding `b - a` modulo m to a word relocated to `a` gives the word relocated to `b`
(`RelocationsCompose`, from the uniqueness of the remainder). What the NPU fetches is
not inductive; it needs the places at which memory is what the CPU wrote (`Published`),
at which the NPU's cache holds nothing stale (`NpuFresh`), and that the base remembered
is that of the inference (`BaseIsPrev`).

`ApplicationProofs` holds the theorems of two modules that share no state. For
`OutputCache` it proves, for any number of images, the three properties of the run
`CacheCode`; the invariant (`CacheInvariance`) says for each kind of data where its newest value is between
the step that writes it and the step that reads it. The same invariant shows
`FreshIfOutputsAreCounted`: had `number_output` been set, the property that
`CacheStaleOutput` refutes would hold, so the missing assignment is all that is wrong.

For `Benchmark` it proves, for every card (`CardAssumption`, `TimesAssumption`), `TypeOK`,
`StatisticsConsistent` and `ProgressWithinTotal`, and `ScoresOwnImage` if no read is
short. The average stays between the bounds because `sum` is between `n * min` and
`n * max`, and the progress because an entry that was delivered counts at most once
(`CountedOnce`) and `count_csv_lines` sized the total first (`RowsCounted`), by as many
rows as it could read; entries beyond the total are directories or `unread` rows.

`HybridCopiesProofs` proves what the run `HybridCopies` checks but liveness and
`ResultInMemory` (see `HybridResultProofs`), for every call the compiler may pass (`CallsAssumption`), every size of memory
and line (`LineAssumption`), every threshold (`SizesAssumption`) and every bus port the
code accepts (`BusAssumption`). `EnginesAreOffBetweenTurns` needs nothing more.
`FlatCopyIsExact` says that prolog by the CPU and raw transfer by the engines are
together a copy of n bytes, for every n longer than its prolog and all addresses,
whatever the rest of the division by the three bytes of a channel.

`NeighboursStay`, `EnginesReadAndWriteTheirTensors`, `NoLineIsDirtyUnderEngines` and
`RefusedCallsChangeNothing` follow from the inductive invariant `Safe` of
`HybridCopiesInvariant`. That the engines of this turn are inside says nothing of the
next turn, because an end function moves them by increments and the start function
of the next block takes them as they are. `Safe` therefore says where each kind of
block has got to (`Turn`): after how many bytes (flat copies), after which channels
(turns over channels), at which row (paddings). Outside the output, memory and every
line of the cache are as they were (`Sound`), so a line that the output shares with a
neighbour can be written back at any time; and until an operator returns, nothing is
dirty, because every prolog is cleaned before the engines start.

The argument has four parts.

* *Folds.* Sums, products and loops over axes are folds, which are functions chosen by
  their recursion. `FoldExists` shows that the recursion has a solution, with the least
  element of a set of naturals instead of the induction theorems (whose operator
  parameter the provers cannot instantiate): the set of the lengths that work is named,
  and `SetInduction` makes it Nat. From there on sums and products are computed one
  element at a time (`PrefixSums`).
* *Memory.* What the CPU, the engines and the cache driver do keeps memory sound
  (`LoadedSound` ... `TransferredSound`). Cleaning a range writes back whole lines, so
  the neighbours' bytes on them have to be right.
* *Reach.* How far an engine gets from its first byte, in raw mode (`RawReach`), over
  the pixels of a frame (`ShapedReach`, `PixelReach`), over frames and batches
  (`BatchedReach`, `SplitReach`), over blocks (`BlocksReach`) and permuted axes
  (`TransposeReach`).
* *Increments.* That moving on by increments ends up where the index says: the parts of
  a tensor add up to it (`PartsFit`, `ChannelSums`), runs fit their jumps
  (`RunsInside`), and the row pointers of a padding, moved axis by axis by what each
  axis pads and crops, are the position of their index as a number with one digit for
  each axis, of any number of axes (`Carry`, `NextRowIsRow`).

`HybridResultProofs` proves, under the same assumptions, that slices (by engines and in
software), `SpaceToDepth`, `DepthToSpace`, transpositions, and concatenations and splits
but for turns over channels, compute what they promise: `WellPosedCallsComputeTheirResult`
says that when such a call is done, memory holds every element where the definition of the
operator puts it, and that a refused one leaves memory as it was (`ResultInMemory`).
Transpositions are refused below rank 3 on the CPU, and outside of ranks 3 and 4 by the
engines' operator, depending on their size.
`Moves` says it element by element, with indices and strides; the code says it with
pointers, increments, repeated frames and nested loops.

*The calls.* The operators do not test everything they rely on, so the theorem is about
calls that are `WellPosed`: the input is in memory and nothing of it under the output; a
row of a slice by the engine is whole channels; the tensors of a block operator have the
strides of their shape; a software slice `Reaches` its shape on each axis, where the end of
a backward slice is not negative, or is -1 and the slice has one element (the code compares
it without a sign). For concatenations and splits (`WellCut`) the outputs do not overlap, and the
loops of the CPU have tensors of one batch (`AllCanonical`) or, when the elements are in
the order of ONNX, any. A flat concatenation or split must have nothing outside of its axis and
equal batches (`Flat`), and where engines take its turns no line of the cache may have
both input and output (`LinesApart`): a prolog loads the input, and what it loads of the
output next to it may be old once the engines have written there. `MCHybridCopies` has
well-posed calls of each of these operators and ways (for the flat ones of engines,
`AlignedConcats` and `AlignedSplits`), and all its slices, blocks and transpositions are
well posed, so the theorem is not about nothing.

*The invariant.* `Safe` says where the engines are allowed to write, not what they bring.
`OnItsWay` adds it. For all but the flat turns it is `InOneGo`: the operators are one copy by the CPU or one transfer, and while the
engines are programmed nothing has been written yet, no line is dirty that could
be written back over the result, and what they are programmed for, done at once, is the
result. That needs three facts about the addresses of each operator: the engine
visits those the definition names, no others, and the target of each only once
(otherwise the last of two copies would win). For blocks they are nested quotients and
remainders; for slices and transpositions, however many axes they have, numbers in a mixed radix: `Radix`
gives each index one number below the product of the sizes (`OneNumber`) and each such
number an index (`EveryNumber`), which is how the loop counts.

*Lists of tensors.* An element of a tensor is a number of five digits, whose order depends
on the layout (`LayoutNumber`). Cutting the tensor along an axis cuts that number at one
digit: the digits outside count rounds, and each part has its share of every round
(`LayoutCut`). So each byte of a part has one place in the whole (`DealtTo`), no two
have the same (`DealtOnce`) and none is left out (`DealtOnto`). The loops of the CPU copy
share by share (`LoopBytes`); in a flat call there is one round, and a share is a whole
tensor (`FlatDeal`). The turns of the engines then need an invariant over time,
`FlatTurns`: the tensors before this turn's are in place, the prolog of this turn has
brought what its engines will not (`Halfway`), and nothing of the output is in the
cache, so that no eviction or later load takes it back. It is kept because a turn writes
only what belongs where it writes (`StaysBrought`), and it begins with an empty cache
(`Cold`).

`Yolov2PostProofs` proves all that the run `Yolov2` checks, for every grid, limit and
number of classes (`SizesAssumption`), whatever the scores and the overlaps;
`LeftOutForBetter` for one class, which is what it is about. The invariant says what each
loop has established when it is at its index: the decoder has written only over what it
has read (`Unread`, `DecodedOnce`), the boxes the suppression has passed are apart
(`Apart`), the limit has counted what it kept (`Counted`, where the slot after the
detections may be counted, too), the copy has each kept box once (`Copied`). For
`LeftOutForBetter` it needs the reason of each dropped box (`Accounted`): a kept box in
front overlaps it (`Beaten`), or the limit is used up in front of it (`Full`); when the
limit drops a box, those it had beaten change from the first reason to the second.

`CsvGtProofs` proves, for every file and every size of the line buffer
(`FileAssumption`), what the run `CsvGt` checks. `LookupCorrect` speaks of the whole file;
the invariant speaks of the row that is being read: as long as it fits, the buffer holds
exactly it, and after an overflow the buffer holds fields that are no names (`Reading`),
so a line that begins with the wanted name is the beginning of a row. That each row has
an end is part of the invariant, too (`RowsEnd`), because it grows with the file.
For `FoundImagesAreCounted` a second invariant relates the two readers
(`CounterInvariant`): a returned count is that of the line ends that were read, and what
both have read is the same. It follows because rows with different starts have different
ends (`OneStart`), and a row that ends in what was counted has its line end there.

Only model-checked: everything with fairness (`LockMakesProgress`, `MostUrgentServed`,
`InferencesEnd`, `OperatorEnds`), which the prover does not reach; and `ResultInMemory`
of the calls that are not well posed, but for those that are refused: concatenations and
splits in turns over channels, flat turns whose output begins in the last line of the input,
and paddings. Where each of their turns reads and writes is proved (`Turn`), but not
which channels or rows the turns before this one have brought.

## Assumptions of the models

* One core. Only one thread uses the NPU's event semaphore at a time.
* The data cache is on and the NPU's memory at 0x34200000 is cacheable for the CPU (the
  default map of the Cortex-M55); the cache loads a line only on an access of the CPU.
* An epoch controller's blob raises only the controller's interrupt, and a block's wait
  mask names all the output engines that work for it. NPU errors do not occur.
* The ground-truth file has image names only at the start of a row, and does not change
  between its readers. In `Benchmark` its rows fit the line buffer, so that a row that is
  found has a line end of its own (`CsvGt` has longer rows, too).
* Timeouts, relocatable networks, encryption and the epoch callbacks are not used.
* When a hybrid operator starts, the CPU holds no line of its output; the output of a
  pad has cache lines of its own, as in the generated networks, because the framing of
  reflected and edge pads reads and writes it through the cache.
* What the compiler passes to an operator (the `...IsGiven` of `HybridCopies`): tensors
  have at least one element, lie in memory, and their channels are whole batches; the
  outputs of a split partition its input; a software slice with an output of the same
  rank has an index for each element it visits, its starts and the ends of its forward
  axes are not negative (indexes are resolved before the call; the loops would run away
  with a negative forward end, which they read without a sign); the offsets of a transposition are the
  strides of the permuted shape. The shapes of a concatenation or of blocks are not
  assumed to agree, because the operators test them. A pad leaves something of each axis
  it crops; only the last one of a constant pad may go altogether, which the operator
  tests (`consecutive_bytes`), and then zero takes the place of the constant, in the model
  (`Constant`) as in the code (`ll_aton_lib_sw_operators.c:2016-2021`); the result that is
  asked for (`Holds`) says so, too. On an outer axis the software filling would write no row
  and the filling by the engines one.
* Memory is a whole number of cache lines, and the bus port is at least 6 bytes wide
  (`ll_aton_lib.c:3327` refuses to compile otherwise).
* The address limits of a stream engine bound its prefetch only.
* In `EcBlob` the blob is initialized and run by one thread; the input buffer may be set
  by another. A line of the CPU's cache that is not dirty holds what memory holds: the
  NPU only reads the blob.

## Not modelled

* **Units of the NPU** (`ll_aton.c` but for the stream engines): convolution, pooling,
  arithmetic and so on are registers to be written; their effect on control is
  `NpuStep` and the sets of running units.
* **Hybrid operators**: Concat along the width of tensors that are a single line (case 0)
  and of a single tensor; Cast and Softmax, which convert numbers;
  Split's assertion of a frame of one; `ImageToRow` with a stride other than its block.
* **Epoch controller loader**: `ec_reloc_by_id`, the patches (`ec_patch...`) and the
  copies of tables have no caller, and the branches that refuse a table cannot be taken
  with the constant, valid tables of the build.
* **Arithmetic**: the software operators on floats and integers, sigmoid, IoU and
  scaling have no control to speak of; scores and overlaps are arbitrary instead.
* `ll_aton_reloc_network.c` is not compiled in. YOLOv5, YOLOv8 and YOLOX post-processing
  is not called. Display and video set-up are straight-line calls.
  `LL_ATON_RT_RuntimeDeInit` is not called by the application.
* The benchmark leaves its directory open when a file does not open; the model shows it
  (`dirOpen`) and no property claims otherwise.

The map covers a small part of the repository's lines because two thirds of them are
generated register accessors (`ATON.h`, 100 000 lines), and most of the rest are
generated tables of the network, register programming of units, diagnostics, and
drivers and operators that this application does not build or call.

## Plan

Done in this order: the lock with its proofs, the runtime, the cache, the ground-truth
reader, the benchmark, the post-processing; then the hybrid operators with the stream
engines, the blob of the epoch controller, liveness of the operators, and the proofs of
the sequential modules and of the runtime with its two refinements; the inductive
invariant of the copying operators for every call, and their result where it is one
transfer, one copy or one tensor a turn.

Next, by importance:

1. `ResultInMemory` for turns over channels and for paddings of all shapes: which
   channels and rows the turns before this one have brought, on top of `Turn`.
2. Runtime life cycle: init and de-init, installation of the interrupt, epoch callbacks.
3. The cache mutexes of the OSAL, with two networks.
