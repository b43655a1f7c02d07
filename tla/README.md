# TLA+ models of the taint-tracking interpreter (core/vm)

This directory holds TLA+ models of the overflow-detecting taint overlay in
`src/core/vm`. It has:

- the modules and the TLC configurations that check them;
- two machine-checked proof modules;
- `PROJECT.json`, which maps each definition to the Go lines it models and
  lists the runs, mutants, findings, hazards and theorems.

## The system

One call frame of the EVM interpreter runs one handler per instruction
(`instructions.go`). Beside the value stack every frame keeps a **taint
stack** (`taint_stack.go`) of flag bitsets (`taint_flag.go`).

- **Flags.** Call data and call value are tagged `CALLDATA`.
- **Overflow checks.** When an operand of ADD, SUB, MUL or ADDMOD carries
  `CALLDATA` and the handler's wrap test fires, the handler runs the
  **protection scanner** (`checkAddProtection`, `checkSubProtection`,
  `checkMulProtection`). The scanner looks for SafeMath guard idioms at fixed
  offsets inside the basic block.
  - If it finds a guard, the result is tagged `PROTECTED_OVERFLOW`.
  - Otherwise it is tagged `OVERFLOW`.
  - Either way the result also gets `POTENTIAL_OVERFLOW`, and the bits are
    ORed into the process-wide `global_taint_flag`.
- **Comparisons.** LT, GT and EQ with a tainted operand append two
  (pc, distance) entries to `GlobalPcCost` (`pccost.go`).
- **Jumps.** A taken JUMPI appends (source, destination) to `GlobalPcPath`
  (`pcpath.go`).
- **Abort.** JUMP and JUMPI first read `evm.abort`, which another goroutine
  may set (`EVM.Cancel`).

## Modules

| Module | Models | State and actions |
|---|---|---|
| `EVMCode` | Words of W bits and the uint256 operations the handlers use: `Exp`, `Abs`, the signed reading, `SDiv`/`SMod` (`SDivWord`, `SModWord`), `And`/`Or`/`Xor` (a fold over the W bits, `BitwiseWord`), `Byte`, `ExtendSign`, the three shifts with their saturation bounds, and makePush's immediate read (`PushValue`); opcode values; `Contract.GetOp`; the code bitmap (`InstrStarts`, `JumpdestSet`) | operators only |
| `TaintFlag` | `taint_flag.go` | flags as strings; a tag is a set of flags, and OR is union |
| `ProtectionScanner` | `checkAddProtection`, `checkSubProtection`, `checkMulProtection` | `ScanForward`/`ScanBackward` return `"match"`, `"nomatch"` or `"diverge"` |
| `TaintInterpreter` | one frame: the handlers, both stacks, the global analysis state, the abort flag | one action per handler; see below |
| `AnalysisLog` | what the analysis driver may assume of the process-wide globals (spec sections 3, 4.3, 8) | `reported`, `branches`, `jumps`, `costs`; one action `Record` |
| `TaintInterpreterProofs` | TLAPS proofs about `TaintInterpreter` | lemmas and three theorems |
| `AnalysisProofs` | TLAPS proofs about the globals | `PathAlwaysWellFormed` and the refinement theorem `Refinement` |
| `OverflowProofs` | TLAPS proofs about opAdd, opSub and opAddmod | `OverflowAlwaysClassified` |
| `PairingProofs` | TLAPS proofs about the heights of the two stacks | `PairingAlwaysKept` |
| `MC_TaintInterpreter` | small contracts for TLC | constant definitions only |

### ProtectionScanner

A scan stops at the first horizon opcode (lines 36-41) and matches the
templates of lines 43-56, 71-81, 103-119, 139-143 and 158-162.

`Contract.GetOp` answers STOP outside the code, and STOP is not a horizon
opcode. So a scan that finds no horizon inside the code runs through about
2^64 offsets, because `n` is a `uint64` (`n--` at line 83, `n++` at line 58).
The model names this outcome `"diverge"`. The handler that started the scan
then never returns, and its frame goes to `status = "hung"`.

### TaintInterpreter

**Variables.**

| Variable | Go object |
|---|---|
| `code`, `calldata`, `callvalue` | the contract and its input |
| `pc` | the program counter |
| `stack`, `tstack` | the value and taint stacks, top last |
| `global_taint_flag`, `global_branch_flag` | the globals of `taint_flag.go` |
| `GlobalPcPath`, `GlobalPcCost` | `pcpath.go` and `pccost.go` |
| `status` | running, stopped, error or hung |
| `abort` | `evm.abort` |
| `jumpdests` | the contract's cached analysis, used by `validJumpdest` |

**Actions.**

- `OpAdd`, `OpSub` and `OpMul` go through `CheckedBinary`. Each keeps the
  Go aliasing exactly:
  - opAdd's second wrap test compares the result with itself (`AddWrapped`).
  - opSub tests `y > x` before it subtracts.
  - opMul's `Div` overwrites the product on the stack and then compares it
    with itself.
- `OpAddmod` includes its `z = 0` branch.
- `OpDiv`, `OpMod`, `OpSdiv`, `OpSmod`, `OpAnd`, `OpOr`, `OpXor`, `OpByte`,
  `OpShl`, `OpShr` and `OpSar` OR the operands' tags (`OrTagged`). The shifts
  pop and push the taint before they compute, as the code does.
- `OpExp`, `OpSlt`, `OpSgt`, `OpMulmod` and `OpSignExtend` change only the
  value stack, and so do `OpIszero`, `OpNot`, `OpBalance` and `OpExtCodeHash`
  (in place). This is what the code does.
- `OpExtCodeSize` replaces the top tag by SAFE (`Retag`). `OpBlockhash`
  keeps the number's tag when the number lies in the window
  `[upper - 256, upper)` (`BlockhashWindow`, with the code's special case
  below 257) and pushes SAFE otherwise; `upper` ranges over `BlockNumbers`.
- `OpLt`, `OpGt` and `OpEq` record the cost pair (`LtCost`, `GtCost`,
  `EqCost`, in wrapping arithmetic) and run the BRANCH test exactly as
  written, which reads the comparison's own opcode.
- `OpCallValue`, `OpPc`, `OpPush1`, `OpPush(n)` (makePush, PUSH2-32) and
  `OpCallDataLoad` push a tag. The load at pc 14 is tagged SAFE
  (`SelectorPc`).
- `HostPush(op)` pushes a host value (a member of `Inputs`) tagged SAFE for
  ADDRESS, ORIGIN, CALLER, GASPRICE, COINBASE, TIMESTAMP, NUMBER, DIFFICULTY,
  GASLIMIT and GAS. `OpCallDataSize`, `OpCodeSize` and `OpReturnDataSize`
  push the size itself, modulo the word size.
- `OpPop`, `OpDup(n)` and `OpSwap(n)` (n in 1..16) act on both stacks.
- `OpJump` and `OpJumpi` check abort, pop, check the destination and, for a
  taken JUMPI, record `<<pc, pos - 1>>`.
- `OpJumpdest` and `OpStop` are as in the code.

The interpreter loop is not under `src/`, so these actions are modelled from
the spec:

- `InvalidOpcode`: an opcode with no handler.
- `StackFault`: the loop's stack check fails.
- `Abort`: the controller sets the flag.
- `Halted`: the frame has ended and only stutters.

A handler whose taint pops would find the taint stack empty would panic in Go.
The model gives it no successor (`Runs(op, k)`). `TaintCoversStack` shows that
this never happens.

Every step of a handler is one action, including its ORs into
`global_taint_flag` and its appends to the recorders. When a scan diverges,
the model leaves the stacks unchanged and sets `status` to `"hung"`. In Go the
operands have already been popped at that point, but nothing can observe them
any more.

## Runs

All runs use `MC_TaintInterpreter` with these bounds:

- `W = 8`, so words are 0..255. Wrap-around happens at 255 + 1, 0 - 1 and
  16 * 16.
- Call data and call value range over {0, 1, 255}. These values give wrapping
  and non-wrapping sums, differences and products, a zero modulus and zero
  divisors.
- There are two call-data words.
- `StackLimit = 6`. The `Overflow` contract of seven PUSH1s reaches the limit.
- `BlockNumbers = {2, 300}`: one block number below 257, where the BLOCKHASH
  window starts at 0, and one above, where it starts at `upper - 256`. With
  the inputs {0, 1, 255} both sides of the window are taken.
- Word operators scale with `W`: a word has `W \div 8` bytes, and the shift
  bounds 256 become `W`. BYTE and SIGNEXTEND were also run with `W = 16`.

Each contract is a few lines of bytecode written so that the interesting case
happens: a guarded add (the scanner matches), unguarded add and sub, a tainted
MUL, tainted comparisons feeding a JUMPI, a loop that only an abort ends, an
ADDMOD by callvalue (0 included), the misc opcodes, an underflow, an overflow,
an invalid jump, a chain of the bitwise, byte, shift and signed opcodes on
call data (`Bitwise`), every host and size opcode with DUP5, SWAP4, SWAP5,
PUSH2 and a PUSH32 that reads past the code end (`Environment`), and a
SIGNEXTEND of call data (`SignExtendValue`).

| Run | Expect | Checks | What it shows |
|---|---|---|---|
| `MC_Core` | pass | `TypeOK`, `TaintCoversStack`, `FindingsRecorded`, `PathWellFormed`, `OverflowClassified`, `AnalysisRefined`, `PairingKept` | see below |
| `MC_Abort` | pass | `AbortHonoured` | see below |
| `MC_Unpaired` | violation | `StackPaired` | EXP, SLT, SGT and MULMOD desynchronise the stacks |
| `MC_TaintDropped` | violation | `TaintPropagates` | ADD and SUB drop the operands' CALLDATA bit |
| `MC_MulUndetected` | violation | `MulOverflowDetected` | MUL never flags an overflow |
| `MC_MulCorrupts` | violation | `MulResultUnchanged` | a tainted MUL leaves product / x on the stack |
| `MC_CostWrap` | violation | `CostPairConvention` | the flip distance `x - y + 1` wraps to 0 |
| `MC_PathDest` | violation | `PathRecordsDestination` | the recorded destination is `pos - 1` |
| `MC_ScanHang` | violation | `AbortHonoured` | a backward scan in the first basic block never ends, and abort cannot stop it |
| `MC_Branch` | violation | `BranchFlagRecorded` | a tainted LT followed by PUSH1 dest JUMPI never sets BRANCH: the test reads the comparison's own opcode |
| `MC_AddmodZero` | violation | `AddmodZeroClassified` | a tainted ADDMOD modulo 0 flags nothing, though its result 0 is below a non-zero operand |
| `MC_Selector` | violation | `CallDataLoadTainted` | the CALLDATALOAD at pc 14 pushes SAFE for a word of call data |

**`MC_Core`** covers every contract and shows:

- The taint stack is never shorter than the value stack, so no modelled taint
  pop can panic.
- Only a step at EXP, SLT, SGT, MULMOD or SIGNEXTEND changes the difference
  between the taint and value stack heights (`PairingKept`). Every other
  handler, the loop's error exits, an abort and a hung scan keep it.
- Every finding bit that sits on a live tag has reached `global_taint_flag`,
  together with `POTENTIAL_OVERFLOW`.
- Every recorded path pair starts at a JUMPI and points one byte before a
  valid JUMPDEST.
- ADD, SUB and ADDMOD (with a nonzero modulus) set an overflow-class bit
  exactly when spec section 4.1's predicate holds and an operand is tainted.
  This holds despite opAdd's self-comparison.
- Every run of the frame is a run of `AnalysisLog` under the mapping `Log`
  (`AnalysisRefined`): the flag sets only gain bits, and GlobalPcPath and
  GlobalPcCost, read two entries at a time (`Pairs`, as PcPath.Print reads
  them), only grow, by at most one pair per step.

**`MC_Abort`** covers every contract except `FirstBlockAdd`, whose backward
scan never ends (that is `MC_ScanHang`). On all of them, once abort is set
the frame always ends: loops end at their next JUMP or JUMPI, and the
contracts whose stacks drift apart still halt. The stacks' own pairing is
not checked here. `PairingKept` in `MC_Core` already says that only the five
value-only handlers change it, and `MC_Unpaired` shows that they do.

The violation runs are the disagreements found while modelling. Each is
recorded as a finding in `PROJECT.json`.

Every property of a passing run has a mutant in `PROJECT.json`: a plausible
bug in the mapped code, which the run's own configuration detects.

### Fairness

`FairSpec` assumes weak fairness of `Step` only. The loop runs on its own
goroutine without blocking (spec section 5), so a frame that can take a step
does take one. `Abort` gets no fairness, because the controller need not ever
cancel. `AbortHonoured` is stated as `abort ~> ...`, so it assumes nothing
about when the abort arrives.

## Proofs (checked by `tlapm`)

The theorems hold for every value of the constants that satisfies the named
assumptions:

- `WidthAssumption`: `W >= 8`, with `2^W >= 256` stated alongside because the
  prover cannot derive it without induction.
- Programs are sequences of bytes.
- Inputs are words.
- `CDSize` and `StackLimit` are naturals.

The theorems of `TaintInterpreterProofs`:

- `TypeCorrect`: `Spec => []TypeOK`.
  - `TypeOK` is inductive by itself.
  - There is one lemma per action, and a shared lemma for each family of
    handlers (`CheckedBinaryTypeOK`, `ValueOnlyTypeOK`, `CompareTypeOK`, ...).
  - The lemmas rest on word lemmas (`ModulusFacts`, `ModWord`, `AbsWord`,
    `ExpWord`) and stack lemmas (`PopNType`, `TopType`, `SwapTopType`, ...).
- `FindingsAlwaysRecorded`: `Spec => []FindingsRecorded`.
  - `FindingsRecorded` is not inductive on its own. A step's proof needs the
    tags to be sets of flags, so the inductive invariant is
    `TypeOK /\ FindingsRecorded`.
  - The first conjunct is rewritten as `Recorded(tstack, global_taint_flag)`.
  - Lemmas show that `Recorded` is preserved by pop, push, swap and a growing
    global set (`RecordedPop`, `RecordedPush`, `RecordedSwap`,
    `RecordedMono`), and each handler family is then proved with them.
- `TaintAlwaysCoversStack`: `Spec => []TaintCoversStack`, with
  `TypeOK /\ TaintCoversStack` as the inductive invariant.
  - Each handler pops at most as many taint entries as it pops values, and
    pushes at least as many.

The theorems of `AnalysisProofs`:

- `PathAlwaysWellFormed`: `Spec => []PathWellFormed`. The record has even
  length and every pair is `<<p, d>>` with `GetOp(code, p) = JUMPI` and
  `ValidJumpdest(d + 1)`. Lemmas about appending a pair to a record of even
  length carry the earlier pairs over.
- `Refinement`: `Spec => AnalysisRefined`. `Init` maps to the log's `Init`,
  and every step maps to a `Record` step or a stutter. The step lemma
  `StepAnalysis` shows that each handler's effect on the globals is an
  `AnalysisStep`: the flag sets grow, and each recorder is unchanged or
  gains one pair (`PairsGrow` turns one appended pair of the flat record into
  one appended element of `Pairs`).

The new handlers reuse the family lemmas: `BitStepTypeOK` and
`BitStepRecorded` for the OR-tagged ones, `RetagTypeOK` and `LoadRecorded`
for the host loads, `HostTypeOK` and `HostRecorded` for the pushes,
`NewOpsCover` and `NewOpsAnalysis` for the stack lengths and the globals.
The word lemmas `SignedDivWord`, `BitWords` and `PushValueWord` rest on
`AsWordType`: each result is passed through `AsWord`, so its type follows
without induction over the bit fold.

The theorem of `OverflowProofs`:

- `OverflowAlwaysClassified`: `Spec => OverflowClassified`, an action
  property, from `TypeCorrect` and a step lemma `ClassifiedStep`.
  - A step that completes ADD, SUB or ADDMOD advances pc. Stutters, `Halted`,
    `Abort` and the two error steps leave pc alone. `OtherHandlersOp` shows
    that every other handler runs at an opcode of its own. So the step is
    the handler of that opcode, and not its hung branch.
  - `ArithTagClass`: `ArithTag(a, a /\ b, c)` has an overflow-class bit
    exactly when `a /\ b`.
  - `AddWrapEither`: for words x and y, `(x + y) % Modulus < x` holds exactly
    when the sum wraps below x or below y. So opAdd's first test alone
    decides the spec's predicate, and its second test `res < res` does no
    harm.
  - opSub's `y > x` is the spec's `x < y`. opAddmod's test is the spec's
    predicate itself.

The theorems of `PairingProofs`:

- `PairingAlwaysKept`: `Spec => PairingKept`. The step lemma `GapStep` has
  one case per family of handlers.
  - Lemmas give the effect of each stack shape on `StackGap`: both stacks
    pop k and push one (`BothPushGap`), both pop k (`BothPopGap`), the top
    value is rewritten (`InPlaceGap`), one entry is pushed on each
    (`PushTaggedGap`).
  - DUP grows both stacks by one, and SWAP keeps both heights.
  - The five value-only handlers run only at their own opcodes
    (`UnpairingHandlersOp`).
- The design's invariant `StackPaired` is not a theorem: it fails for
  every contract that runs one of the five handlers (`MC_Unpaired`).
  `PairingAlwaysKept` states what does hold for every contract.

Each theorem's final step combines initiation and the step lemma by PTL. The
last two also cite `TypeCorrect`, because their step lemmas assume `TypeOK`.

Only TLC checks the following:

- Liveness (`AbortHonoured`). TLAPS does not handle ENABLED and fairness here.
- The violated properties.
- What the recursive functions `InstrStarts`, `ExpMod`, `BitwiseWord` and
  `PushValue` compute for every input. That needs induction over data, which the installed provers cannot
  instantiate.

The proofs use only the types of these definitions' results.

## Not modelled

| Part | Why |
|---|---|
| Memory and taint memory (`opMload`, `opMstore`, `opMstore8`, `opKeccak256`, the copy opcodes) | `TaintMemory` is not under `src/`; left for a separate module |
| Storage (`opSload`, `opSstore`) | Carries no taint (spec section 9) |
| Calls, creates, RETURN, REVERT, SELFDESTRUCT, LOG | Need child frames and the folding of return taint |
| `opRandom` | Shares DIFFICULTY's opcode in a later fork's jump table |
| LOG0-4 (`makeLog`) | Needs memory and the read-only flag of calls |
| Print functions | Output only |
| `sync.Pool` recycling of taint stacks | Allocation only |
| `cost_stack.go` | Unused |
| The vendored modules under `src/pkg` | Outside the analysis |
| Concurrent top-level runs sharing the global analysis state | The spec assumes one run at a time; listed as a hazard |
