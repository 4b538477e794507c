# Formal models of jml-base

These are TLA+ models of the repository's bit-stream code, compact size codec,
decision tree, bagging generator, perceptron, the `diag_mult` products of the least
squares code and the exception hook. With them come the TLC configurations that check
them and TLAPS proofs about them. `PROJECT.json` lists:

- the components;
- the runs and their mutants;
- the map from every modelling definition to the source lines it translates;
- the findings, the hazards and the theorems.

## The system

The repository is a piece of a machine-learning library:

- **Bit-range primitives** (`bit_range_ops.h`, lines 35-231). These are pure functions
  on machine words (`Data`):
  - `shrd` is a double-word shift right. It is the x86 `shrd` instruction on Intel
    builds of 16/32/64-bit types, and `shrd_emulated` everywhere else.
  - `extract_bit_range` reads a field of `bits` bits at offset `bit`. It comes in a
    pointer form and a pure form taking two words.
  - `set_bits` and `set_bit_range` write a field, and `set_bit_range` may straddle
    two words.
  - `sign_extend` and `fixup_extract` turn an extracted field into a signed value.
- **Bit stream** (`bit_range_ops.h`, lines 243-439). A `Bit_Writer` appends fields of
  given widths to a caller-owned array of words, through `set_bit_range` and a
  (data, bit_ofs) cursor. A `Bit_Extractor` reads them back through a `Bit_Buffer`,
  which holds its own cursor and a memory buffer. The memory buffer is either:
  - `Simple_Mem_Buffer`, which dereferences `data[0]` and `data[1]` on each read; or
  - `Buffered_Mem_Buffer`, which caches the two words and reloads them on each move.

  The writer and the reader interact only through the array. The reader must know the
  schema (the widths), and the caller must leave padding words after the data.
- **Compact size codec** (`db/compact_size_types.cc`). It encodes and decodes
  length-prefixed integers.
- **Decision tree** (`boosting/decision_tree.cc`). It covers prediction by recursive
  descent, and versioned serialisation and reconstitution with an end marker.
- **Bagging generator** (`boosting/bagging_generator.cc`). It trains one classifier per
  bag as jobs on a worker pool. Each job writes its own slot of `results`, and the
  caller waits for the group with `run_until_finished`, then averages.
- **Perceptron** (`boosting/perceptron.cc`). It covers layers, prediction, serialisation
  and an accuracy computation. That computation runs as worker jobs that add their
  totals under a lock.
- **Numerics and utilities** (`algebra/`, `arch/exception_handler.cc`,
  `arch/simd_vector.h`, `compiler/`, `utils/`). These are LAPACK wrappers,
  least-squares solvers, an exception-logging hook, declarations and type traits.

## Modules

| Module | Models | State and actions |
|---|---|---|
| `BitRangeOps` | the primitives, lines 35-231 | Operators only: `Shrd`, `ShrdEmulated`, `ShrdNative`, `ExtractBitRange`, `ExtractBitRangePtr`, `SetBits`, `SetBitRange`, `SignExtend`, `FixupExtract`. It also holds the reference definitions `RefField`, `Val`, `SVal` and `FieldSVal`. |
| `BitStream` | the writer and the reader over one array | `mem` is the array. `wdata`/`wofs` are `Bit_Writer::data`/`bit_ofs`. `rd` is the `Bit_Buffer`: its data index, `bit_ofs`, the cached `b0`/`b1`, and `oob`, which records a load past the array. The actions are `Write` (`Bit_Writer::write`), `Open` (the `Bit_Extractor` constructor), `Extract(n)` (the `extract` overloads of 1 to 4 fields, written out as `Extract1`..`Extract4`) and `Skip` (`Bit_Extractor::advance`). There are two history variables: `mem0` (the array before the first write) and `fields` (what was written: value, width, position). `got` is what was read. |
| `MCBitStream` | TLC instance | It defines the initial word contents (all zeros, all ones). |
| `BitRangeOpsProofs`, `BitStreamProofs`, `BitStreamReadProofs` | TLAPS proofs | See "What is proved". |
| `CompactSize` | `encode_compact`, `decode_compact`, `compact_size_t` | Operators on bit vectors: `EncodeIdx`/`EncodeLen` (`highest_bit(val)/7`, `len = idx + 1`), `PackedByte` and `Indicator` (the bytes written), `DecodeLen` (`8 - highest_bit(~marker)`), `ExtendChar` (a byte read through a signed or unsigned `char`), `Accumulate`, `FilterMask` (line 107) and `DecodeCompact`. `ReadSize(n, o)` is what a `compact_size_t(n)` written and read back gives. |
| `CompactStream`, `MCCompactStream` | records of compact sizes in a store | `store` is the byte sequence and `rpos` the reader's position. `Serialize(v)` appends `encode_compact`'s bytes. `Reconstitute` runs `decode_compact` at `rpos`. `ReconstituteThrows` is the `must_have` of a record cut short, which throws. The history variables `written` and `starts` record the values and where their records start. |
| `WorkerPool` | the `Worker_Task` calls used by two call sites | `locked` (the group), `queue`, `jpc` (each job's stage) and `owner` (the job each thread runs). Its steps are `GetGroup`, `AddJob`, `UnlockGroup`, `Start` (a thread takes a queued job), `JobMoves` (a job goes from one stage to the next) and the test `GroupFinished`. |
| `BaggingGenerate`, `MCBaggingGenerate` | `Bagging_Generator::generate` and `Bag_Job` | The caller's `cpc` goes through `DrawSeeds`, `OpenGroup`, `AddBag` (or `AddThrows` when `worker.add` throws), `EndAdding` (the `Call_Guard`), `CallerRunsJob`, `WaitReturns` and `BuildCommittee`. A job (`WorkerRunsJob`, `TrainBag`, `StoreBag`) writes `results[bag_num]` without a lock. |
| `AccuracySum` | what `Perceptron::accuracy` promises | One step returns the weighted sums over all examples. |
| `PerceptronAccuracy`, `MCPerceptronAccuracy` | `Perceptron::accuracy` and `Accuracy_Job_Info::calc` | Chunk jobs on the pool. A job sums its chunk and then does `correct += sub_correct; total += sub_total` under `info.lock`, each `+=` a load and a store (`Acquire`, `LoadTotals`, `StoreTotals`, `Release`). `Abstract` instantiates `AccuracySum` with `RetMap`. |
| `PerceptronModel` | `add_layer`, `clear`, `predict`'s scratch arrays, `serialize`, `reconstitute` | `layers`, `maxUnits`, `nfeatures`, `labelCount`, a token `store` and `rpos`. `overflow` records a layer wider than the scratch arrays in `Predict`. `saved` is a history variable. |
| `PerceptronActivation` | `transform`, `derivative`, `Layer::deltas` | One call, with outputs and errors in sixteenths. |
| `DecisionTree`, `MCDecisionTree` | `Decision_Tree::predict`, `predict_recursive`, `serialize`, `reconstitute` | `kind` and `w` are the tree: every tree of up to two levels of splits, laid out by position, and each node's edge weights. `PredictTree` is a recursive function over positions. `Serialize` writes the record to a token `store`. `Reconstitute` reads it back from `rpos`, with the version switch and the end marker read through `ReadSize`. `label_count()` is shared by prediction and reconstitution. |
| `DiagMult` | both `diag_mult` of `least_squares.h` | One call of each. `MatChunk` is one iteration of the chunked `while` loop, then `MatDone` and `VecMult`. |
| `ExceptionHook` | `Install_Handler`, `trace_exception` | `tracer` is `exception_tracer`, `phase` the static object's life, `log` what `trace_exception` wrote. `OtherSets` is other code setting the hook. |
| `CompactSizeProofs`, `PerceptronModelProofs`, `BaggingGenerateProofs`, `ExceptionHookProofs`, `AccuracyProofs` | TLAPS proofs | See "What is proved". |

### How the data is abstracted

A `Data` word is a function from bit positions `0..W-1` to `{0,1}`. `>>`, `<<`, `&`,
`|` and `~` are translated position by position, so the models need neither `2^W`
arithmetic nor recursion. A shift by the full width `W` is undefined in C++ unless
`Data` is promoted to `int`. The build decides the result, so the constant
`OversizeResults` is the set of outcomes the build can give:

- `"zero"`: the shift gives 0. This is the case for `uint8_t`/`uint16_t`, which are
  promoted, and for saturating hardware.
- `"masked"`: the count is taken mod W, as in x86 and AArch64 shifts of 32/64-bit
  registers.

`NativeShrd` selects the asm `shrd` (Intel, not NVCC, more than 8 bits) or the
emulation. Every shift by `W` that the code can perform takes its outcome
nondeterministically from `OversizeResults`. A load past the array is undefined;
`Load` returns a don't-care word and the step sets `rd.oob`. Signedness of a
destination is a flag of each read.

The width `W = 4` stands for the word type. It keeps every offset case a 32- or
64-bit word has: aligned and unaligned fields, fields that end exactly on a word
boundary, straddling fields, and widths `0` and `W-1`. Values are all `2^W` words.

## Runs

The bit-stream runs use `W = 4`. A `BitStream` behaviour stops when the
caller's schema of `MaxFields = 3` fields is written and read. The code has no
waiting, so `CHECK_DEADLOCK FALSE` is set there too.

| Run | Build | Checks | Result |
|---|---|---|---|
| `bitstream_buffered` | 8/16-bit Data (promoted shifts, emulated shrd), `Buffered_Mem_Buffer`, two padding words | `TypeOK`, `NoOutOfBoundsRead`, `ReadBackCorrect`, `MemoryHoldsStream` | pass (763k states) |
| `bitstream_generic` | non-Intel 32/64-bit | `ReadBackCorrect` | violation: a field at bit 0 reads as `low \| high` (line 44) |
| `compact_sync` | signed `char`, both shift outcomes | `ReaderInSync` | pass: a reader of up to three records of every length, with throwing reads interleaved, stays at the writer's record boundaries |
| `compact_roundtrip` | unsigned `char`, x86 shifts | `RoundTrip` | violation: the filter at line 107 clears the value bits and keeps the marker |
| `bagging_pool` | two pool threads, three bags, `add` may throw | `CommitteeComplete`, `GenerateEnds` | pass |
| `bagging_addfail` | `add` throws | `NoJobOutlivesFrame` | violation: queued jobs outlive `generate`'s frame (line 288) |
| `accuracy_pool` | one pool thread, chunks of 2 over up to 4 examples | `NoLostUpdate`, `AccuracyImplementsSum`, `AccuracyReturns` | pass: no update of the totals is lost, the jobs implement the one-step sum, and `accuracy` returns |
| `perceptron_layers` | two layers of up to three units | `NoScratchOverflow` | pass (317k states) |
| `activation_deltas` | errors 1 and 3 | `DeltasFollowDerivative` | violation: `deltas` disagrees with `derivative` for LOGSIG and IDENTITY (line 228) |
| `tree_predict` | two labels; edge weights with one, two and three positive edges | `PredictIsPathSum` | pass |
| `diagmult_chunks` | two variables, chunks of 2, `nx` from 0 to 3 | `NormalEquations` | pass: `nx` below, at and above the chunk size |
| `hook_trace` | up to four throws | `NoTraceAfterDestruction` | pass |

The properties:

- `ReadBackCorrect` says every field read equals the field written. It depends on both
  cursors' renormalisation, the straddle logic in both directions, the fused extract
  calls and the memory-buffer reloads.
- `MemoryHoldsStream` says every written field sits at its bit positions in the array,
  and every bit past the writer's cursor is still as it was before the first write.
- `NoOutOfBoundsRead` says no load goes past the array. The writer can fill the whole
  capacity, so the reader ends on the last word boundary, where `operator+=` loads
  `data[1]` eagerly (line 275). With the same capacity and one word of padding
  (`N = 3`, `Padding = 1`) TLC finds that load past the array.

Every property of a passing run has a mutant in `PROJECT.json`: a plausible bug in the
mapped code that TLC then catches under the same configuration.

**Bounds.** The passing stream run uses `N = 4` words with `Padding = 2`. That gives
8 bits of capacity, which three fields of up to 3 bits can fill. So the reader reaches
the end of the data, and a field straddles from word 0 into word 1, where
`Buffered_Mem_Buffer` shifts `b1` into `b0` and reloads `b1`. A field that straddles
into word 2, which would consume a `b1` reloaded from memory, needs 12 bits of
capacity and four fields. That instance takes over 20M states, so it is left to the
proof `ReadBackUnderExactRead`, which holds for every array size. The violation runs
use the smallest array that shows the failure.

**Properties of the other components.**

- `ReaderInSync`: after every read, the reader stands at the start of the next record
  the writer made. It holds because `decode_compact` skips `len` bytes even when it
  throws, and the marker gives the length (proved below).
- `CommitteeComplete`: the committee `generate` returns holds the classifier of every
  bag, each in its own slot. It needs `run_until_finished` to wait for the jobs the
  pool threads run, and not only for the queue to drain.
- `GenerateEnds`, `AccuracyReturns`: the call returns (or throws).
- `NoLostUpdate`: a job between its load and its store of `correct += sub_correct;
  total += sub_total` still finds the totals it loaded. Without the lock
  (`AcquireUnguarded`) another job's store comes in between.
- `AccuracyImplementsSum`: the refinement below.
- `NoScratchOverflow`: no layer is wider than `max_units`, the size of `predict`'s
  scratch arrays.
- `PredictIsPathSum`: `predict`, on the tree the object holds, is the sum over the leaves of the product of the edge
  weights on the path to the leaf times the leaf's distribution. The reference
  `LeafSum` is computed from the positions, not by recursion over the tree.
- `NormalEquations`: the chunked `X W X^T` and `X W y` equal the sums over all
  examples at once.
- `NoTraceAfterDestruction`: no throw after the unit's destructor reaches
  `trace_exception`. Other code may set its own hook or clear it at any time. The
  model assumes it never installs `trace_exception` itself.

**Refinement.** `AccuracySum` is what `Perceptron::accuracy` promises: one step that
returns the weighted sums over all examples. `PerceptronAccuracy` implements it under
`RetMap`, which is the pair `<<correct, total>>` once the caller has returned and no
result before. `AccuracyImplementsSum == Abstract!Spec` is checked as a property, so
every interleaving of the chunk jobs' loads and stores under the lock gives the sums a
single step would. Without `info.lock` (the mutant `AcquireUnguarded`), two jobs'
`+=` interleave and lose an update.

**Bounds.** Small instances reach the interesting cases:

- two pool threads and the caller give every order of taking jobs, and a job left
  in the queue when `add` throws;
- chunks of 2 over up to 4 examples give one, two and a partial chunk;
- `nx` from 0 to 3 with chunks of 2 covers an empty loop, a single short chunk, an
  exact chunk and a full chunk followed by a short one;
- the compact values include every marker length from 1 to 9 bytes, with lengths 1, 2
  and 9 at both edges.

**Fairness.** The bit-stream, codec, partition, activation, tree and `diag_mult`
models are sequential, and their runs check no liveness. `BaggingGenerate` and
`PerceptronAccuracy` assume weak fairness of each thread's step
(`WF_vars(ThreadStep(t))`). Each thread is an OS thread of the pool or the caller,
and the scheduler keeps running a thread that can run. No stronger fairness is
assumed: a job that waits for `info.lock` is only weakly fair.

## What is proved

The proofs assume only the constant assumptions in the modules that declare them:

- `W >= 2`;
- `N >= 2` and `Padding \in 1..N-1`;
- the initial words are words;
- `OversizeResults \subseteq {"zero","masked"}`;
- for bagging, `NumBags \in 1..MaxJobs`, a finite set of workers and a caller that is not one of them.

The following hold for every value of the constants:

- `BitRangeOpsProofs!ExtractBitRangeCorrect`. For every width `W`, the pure
  `extract_bit_range` with `bits < W` returns the reference field, given
  `NativeShrd \/ o = "zero" \/ bit > 0`. That is, it returns the field except on an
  emulated shrd whose full-width shift keeps its operand and a field at bit 0: the
  case `bitstream_generic` exhibits. The proof computes the shrd window pointwise in
  both forms and then the mask.
- `BitRangeOpsProofs!SetBitRangeCorrect`. For every `W`, `set_bit_range` writes `val`
  to exactly its field in `p[0]` and `p[1]` and keeps every other bit. It rests on the
  lemma `SetBitsPointwise` (bit `i` of `set_bits`).
- `BitStreamProofs!TypeCorrect`: `Spec => []TypeOK`. `TypeOK` includes
  `WPos <= Cap`: the writer never goes past the capacity the padding leaves, so `data`
  and `data + 1` index the array. `TypeOK` is inductive as it stands. The argument for
  `Write` is the carry lemma `CarryDivMod`: a cursor plus a width below `W` crosses at
  most one word. The lemma `WordsBound` turns `wdata*W + W + r <= (N-Padding)*W` into
  `wdata + 1 <= N - Padding`. `Extract` is proved by chaining the lemma
  `ReadFieldType` over the fused reads.

- `BitStreamProofs!MemoryCorrect`: `Spec => []MemoryHoldsStream`. That property is
  not inductive on its own. A write puts its bits from the writer's cursor on, and the
  proof must know that no earlier field reaches that far. The inductive invariant
  `MemInv` is `TypeOK /\ FieldsBelow /\ MemoryHoldsStream`, where `FieldsBelow` says
  every recorded field ends at or before the writer's position `WPos`. The argument
  for `Write` is the lemma `WriteMemBits`. It says the array after `set_bit_range`
  differs from the array before only in bits `WPos .. WPos+bits-1`, which hold `val`.
  `WriteMemBit` proves that bit by bit from `SetBitRangeCorrect`, splitting a position
  into word and offset (`SplitPos`) and covering the word at the cursor, the next word
  and every other word. `Open`, `Extract` and `Skip` change neither the array, the
  writer nor the history (`WriterFrameMemInv`).

- `CompactSizeProofs!MarkerDecodesLength`. For every 64-bit value `v` whose highest set
  bit `h` is below 63, `decode_compact`'s `len`, read from the first byte
  `encode_compact` writes, is the `len` `encode_compact` wrote. The hypothesis
  `IsHighest(v, h)` names the highest set bit. `HighestSet` is defined by `CHOOSE`,
  and that a finite bit vector has a highest set bit is a fact of induction over
  positions, which the provers cannot do. With `h` given, the lemmas `HighestSetIs` and
  `HighestSetNone` fix `highest_bit` of `v` and of the inverted marker. `IdxBounds`
  gives `idx = h / 7` in `0..8`. The proof then shows that the marker's bits from
  `8 - idx` on are ones and bit `7 - idx` is zero (the data bit there is above `h`), so
  `8 - highest_bit(~marker) = idx + 1`. This is why `ReaderInSync` holds even though
  the value read is wrong: the length survives, the filter does not.
- `PerceptronModelProofs!ScratchNeverOverflows`: `Spec => []NoScratchOverflow`, for
  every `MaxLayers` and `MaxUnits`. `NoScratchOverflow` is not inductive: a `Predict`
  keeps `overflow` false only if every layer fits. The invariant `ScratchInv` adds
  that the layers are layers, that `maxUnits` is a natural, and `LayersFit` (every
  layer's inputs and outputs are at most `maxUnits`). `AddLayerScratch` is the step
  that matters. `add_layer` raises `max_units` to the new layer's inputs and outputs,
  and resets it to the inputs only for a first layer, when no other layer is there.
  `clear` and `reconstitute` empty the layers.
- `CompactSizeProofs!ReaderStaysInSync`: `Spec => []ReaderInSync`, for every set of
  64-bit values (one with bit 63 set ends the model in `ub`), every number of records, signed or unsigned `char` and both
  outcomes of the oversized `int` shift.
  - The invariant `SyncInv` keeps the writer's records: each was encoded without
    overflow, record `k` starts at `starts[k]` and ends at the boundary of record
    `k + 1`, it lies in the store, and its first byte is the first byte
    `encode_compact` produced. The values read so far are outputs of `decode_compact`.
  - The step that matters is `ReconstituteSync`: at a boundary, `Needed` is the
    length of the record, because `MarkerDecodesLength` reads it back from the first
    byte. So a read either finds the whole record and moves to the next boundary, or
    throws and leaves `rpos` where it was.
  - `MarkerDecodesLength` needs the highest set bit. `HighestExists` gives it for
    every 64-bit value, by chaining `HighBelowStep` over the 64 positions eight at a
    time (a fixed chain, not induction over data). `EncodeFacts` gives the length
    and type of `encode_compact`'s bytes.
  - It uses `StreamAssumption` (the values are 64-bit vectors).
- `AccuracyProofs!NoUpdateLost`: `Spec => []NoLostUpdate`, for every number of
  threads, job ids, examples and chunk size.
  - It follows from the inductive invariant `AccInv`, checked with TLC first.
    - `PoolInv`: a job in the queue is queued, a thread's job is running, a running job
      has exactly one thread.
    - `LockInv`: a thread whose job is inside the guard is the holder of `info.lock`.
    - `LoopInv`: `x` is a multiple of `C`, a job id is used exactly when its chunk
      starts below `x`, the last chunk added starts below `nx`, and once the caller
      waits `x >= nx`.
    - `ChunkRanges`: job `j` covers `[j*C, min((j+1)*C, nx))`.
    - `NoLostUpdate` itself.
  - `OneGuarded` derives from `LockInv` that at most one job is between `Acquire` and
    `Release`. So no other job stores while one is between load and store.
  - `DivOfMul` and `ChunkIdFits` show that the add loop's job ids stay in `JobIds`.
  - The proofs use `AccuracyAssumption` and `PoolAssumption`. Among them,
    `(MaxNX + C - 1) \div C <= MaxJobs` says there are job ids for every chunk.

- `BitStreamReadProofs!ReadBackUnderExactRead`: `ASSUME ExactRead PROVE Spec =>
  []ReadBackCorrect`. `BitStreamReadProofs!NoOutOfBoundsWithPadding`: `ASSUME
  TwoPadding PROVE Spec => []NoOutOfBoundsRead`. Both hold for every array size, word
  width, strategy and schema, and with the reads fused one to four per call.
  - The hypotheses are the conditions the code needs, and each is shown to be needed:
    - `ExactRead` says the build extracts exactly (native shrd, or no `"masked"`
      outcome) and a `Buffered_Mem_Buffer` is not read while the writer still writes.
      Without the first, `bitstream_generic` fails. Without the second, a buffered
      reader keeps stale `b0`/`b1`.
    - `TwoPadding` is `Padding >= 2`. With one word of padding, `next()` loads past
      the array at the last word.
  - Neither property is inductive. The shared invariant `RInv` is `MemInv` plus these:
    - `Contiguous`: the fields lie end to end from bit 0, and the writer's cursor is
      at the end of the last field (`End(k)`).
    - `FieldsFit`: every value fits its width.
    - `ReaderAt(rd, Len(got))`: the open reader's `data*W + bit_ofs` is at the end of
      the fields consumed.
    - Under `ExactRead`, `Fresh(rd)`: `b0`, `b1` are `data[0]`, `data[1]`.
    - The two properties themselves, under their hypotheses.
  - The argument is the lemma `FieldBit`, and `ExtractReadsField` built on it. At the
    end of field `k`, the double word at `data` holds field `k + 1`, because
    `MemoryHoldsStream` puts it there and it ends within `N*W`. So
    `ExtractBitRangeCorrect` gives the field.
  - `AdvanceStep` and `ReadStep` move a buffer from the end of field `k` to the end
    of field `k + 1`:
    - `CursorSplit` shows the carry is 0 or 1 words.
    - Freshness is kept by the Buffered_Mem_Buffer reload.
    - `PaddedWord` turns "the cursor is within `Cap`" into `data + 1 < N` under two
      words of padding.
  - `ReadGood` packages one `buf.extract` as a step from one `Good` buffer to the
    next. `ExtractRInv` chains it over the fused reads. `ConcatReadBack` appends the
    new entries to `got`.
  - A `Write` changes no field already written. While the reader is open, under
    `ExactRead`, a write happens only with `Strategy = "simple"`, where `Fresh` is
    vacuous.
- `BaggingGenerateProofs!CommitteeAlwaysComplete`: `Spec => []CommitteeComplete`,
  for every number of threads, job ids and bags.
  - `CommitteeComplete` speaks only of the caller. The invariant `BagInv` ties the
    caller to the pool:
    - a job id is in use exactly when the add loop has passed it;
    - a queued id is a queued job;
    - a finished bag has stored `results[j] = j`;
    - once the caller waits, every bag was added.
  - The group barrier of `run_until_finished` (unlocked, every job new or done) then
    gives that every bag is done before the Committee is built.
  - `ReturnOutlivesNoJob` follows from the same invariant: when `generate` returns
    normally, no job is queued or running. That is the normal-return half of
    `NoJobOutlivesFrame`; the throw path is the finding of `bagging_addfail`.
- `ExceptionHookProofs!NoTraceOnceDestroyed` proves the action property
  `NoTraceAfterDestruction`. The invariant adds the log's type and `HookOnlyWhileLive`:
  `trace_exception` is installed only between the constructor and the destructor.
  `AfterKeepsLog` gives the step.

`MarkerDecodesLength` uses no assumption on `CharSigned` or `IntShiftResults`: the
marker byte is read before either matters. `ScratchNeverOverflows` uses
`PerceptronAssumption` (`MaxUnits` is a positive natural, so every layer width is a
natural). The bagging proofs use `BaggingAssumption` and `PoolAssumption`
(`NumBags \in 1..MaxJobs`, so every bag has a job id).

TLC alone checks these, on the instances above:

- `DiagMult`'s `NormalEquations`;
- `DecisionTree`'s `PredictIsPathSum`;
- the accuracy jobs' refinement `AccuracyImplementsSum`;
- the liveness properties `GenerateEnds` and `AccuracyReturns`.

Three things stay with TLC. Liveness (`GenerateEnds`,
`AccuracyReturns`) needs fairness and `ENABLED`, which the provers do not reach. What
a recursive function computes for every input (`PredictTree`, `SumRange`,
`ReadSize`) needs induction over data with an operator parameter, which the installed
provers cannot instantiate. And the refinement `AccuracyImplementsSum` rests on the
chunk sums, which are the same kind of recursion. The models have no `RECURSIVE`
operators; recursion is written as recursive functions.

## Known hazards that no run checks

`PROJECT.json` lists these hazards with a note and no property. Each is a place where the
model does what the code does, but no property of a run states the contract:

- a full-word field at offset 0 (`bit_range_ops.h:118`), and signed destinations
  (`fixup_extract` at line 210, `Bit_Extractor::extract` at line 366). The runs use
  unsigned destinations and fields narrower than a word;
- a compact size with bit 63 set, for which `encode_compact` computes `len = 10`
  (`compact_size_types.cc:65`). The runs, and `MarkerDecodesLength`, stop at bit 62;
- `Perceptron::reconstitute` (`perceptron.cc:561`), which reads a label count and
  swaps in an empty perceptron, and `Decision_Tree::reconstitute`, whose version 3
  decodes as 0 for the reason `compact_roundtrip` shows, so it always throws
  "unknown version";
- `correct / total` with a total of 0 (`perceptron.cc:433`), and `normalize()` of a
  bag's weights with a total of 0 (`bagging_generator.cc:194`);
- `Install_Handler`'s constructor replacing a hook other code installed first
  (`exception_handler.cc:65`). `hook_trace` reaches that order, but no property says
  the other hook must survive.

## Not modelled

- `Buffered_Mem_Buffer::operator++` (lines 278-282) does not advance `data`, so a
  second `++` reloads the same word. Nothing in the repository calls it.
- `Bit_Extractor::extract(num_bits, num_objects, OutputIterator)` is declared but not
  defined.
- `sign_extend`'s `1 << sign_bit` overflowing `int` for `long long` needs two widths
  in one model. It is listed as a hazard.
- `encode_signed_compact` and `decode_signed_compact` only throw "not implemented".
- Decision tree: `print`, `summary` and `all_features` format text. `Tree`, `Split`
  and their persistence are not in this repository, so a tree is one token and a
  split's `apply` is a choice of edge weights.
- Perceptron: the training code is not in this file. The forward pass is abstracted
  to each example's score, and weights and biases to their counts.
- Bagging: the split of a bag's examples into training and validation, and the
  bootstrap weights (`bagging_generator.cc`, lines 156-214), are one step of the
  job that yields the bag's classifier.
- LAPACK wrappers (`lapack.cc`) are calls into Fortran with no control of their own.
  `least_squares`, `ridge_regression`, `lasso` and `irls` are floating-point numerics
  whose only control is their loops. Of them, `diag_mult` is modelled, because its
  chunking is the part a test with small inputs never exercises.
- The SIMD declarations, compiler macros, float traits and pair utilities declare
  types and have no state.

