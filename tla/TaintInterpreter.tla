-------------------------- MODULE TaintInterpreter --------------------------
(***************************************************************************)
(* One call frame of the EVM interpreter with the taint overlay of         *)
(* core/vm/instructions.go, taint_stack.go, taint_flag.go, pcpath.go and   *)
(* pccost.go.                                                              *)
(*                                                                         *)
(* The frame runs the instruction at pc, one handler per step.  Beside the *)
(* value stack it keeps the taint stack, and every handler updates the     *)
(* process-wide analysis state: global_taint_flag, global_branch_flag, the *)
(* jump record GlobalPcPath and the branch-cost record GlobalPcCost.  An   *)
(* external controller may set the abort flag at any time; JUMP and JUMPI *)
(* read it.                                                                *)
(***************************************************************************)
EXTENDS EVMCode, TaintFlag, ProtectionScanner, Integers, Sequences

CONSTANTS
  Programs,     \* the contract codes the frame may run
  Inputs,       \* the words call data and call value may hold
  CDSize,       \* number of call-data words
  StackLimit,   \* the interpreter's stack limit (1024 in the code)
  BlockNumbers  \* the block numbers the frame may run in

ASSUME ProgramsAssumption == Programs \subseteq Seq(Byte) /\ Programs # {}
ASSUME InputsAssumption == Inputs \subseteq Word /\ Inputs # {}
ASSUME CDSizeAssumption == CDSize \in Nat
ASSUME StackLimitAssumption == StackLimit \in Nat
ASSUME BlockNumbersAssumption == BlockNumbers \subseteq Nat

VARIABLES
  code,               \* Contract.Code
  calldata,           \* Contract.Input, as CDSize words
  callvalue,          \* Contract.value
  pc,                 \* the program counter
  stack,              \* ScopeContext.Stack, top at the end
  tstack,             \* ScopeContext.TaintStack, top at the end
  global_taint_flag,  \* taint_flag.go
  global_branch_flag, \* taint_flag.go
  GlobalPcPath,       \* pcpath.go: jump sources and destinations
  GlobalPcCost,       \* pccost.go: <<pc, distance>> entries
  status,             \* "running", "stopped", "error" or "hung"
  abort,              \* evm.abort
  jumpdests           \* Contract.analysis: the JUMPDESTs of the code bitmap

vars == <<code, calldata, callvalue, pc, stack, tstack, global_taint_flag,
          global_branch_flag, GlobalPcPath, GlobalPcCost, status, abort,
          jumpdests>>

Status == {"running", "stopped", "error", "hung"}

CostEntry == [pc : Nat, d : Word]

-----------------------------------------------------------------------------
(* Stack helpers (Stack and TaintStack of taint_stack.go).                 *)
Top(s) == s[Len(s)]
Snd(s) == s[Len(s) - 1]
Thd(s) == s[Len(s) - 2]
PopN(s, k) == SubSeq(s, 1, Len(s) - k)

(* The opcodes this model executes, with the number of stack items each    *)
(* pops and pushes (the jump table's minStack/maxStack).                   *)
DupOps  == DUP1..DUP16
SwapOps == SWAP1..SWAP16
PushOps == PUSH1..PUSH32
(* The environment and block opcodes that push a value of the host.        *)
HostOps == {ADDRESS, ORIGIN, CALLER, GASPRICE, COINBASE, TIMESTAMP, NUMBER,
            DIFFICULTY, GASLIMIT, GAS}
(* The binary handlers that OR the operands' tags (opDiv and its kin).     *)
OrTaggedOps == {DIV, SDIV, MOD, SMOD, AND, OR, XOR, BYTE, SHL, SHR, SAR}
Executable == {STOP, ADD, MUL, SUB, ADDMOD, MULMOD, EXP, SIGNEXTEND, LT, GT,
               SLT, SGT, EQ, ISZERO, NOT, BALANCE, CALLVALUE, CALLDATALOAD,
               CALLDATASIZE, CODESIZE, EXTCODESIZE, RETURNDATASIZE,
               EXTCODEHASH, BLOCKHASH, POP, JUMP, JUMPI, PC, JUMPDEST}
              \cup OrTaggedOps \cup HostOps \cup PushOps \cup DupOps \cup SwapOps
Pops(op) ==
  CASE op \in {ADDMOD, MULMOD}                          -> 3
    [] op \in OrTaggedOps \cup {ADD, MUL, SUB, EXP, SIGNEXTEND, LT, GT, SLT,
                                SGT, EQ, JUMPI}          -> 2
    [] op \in {ISZERO, NOT, BALANCE, CALLDATALOAD, EXTCODESIZE, EXTCODEHASH,
               BLOCKHASH, POP, JUMP}                     -> 1
    [] op \in DupOps                                     -> op - DUP1 + 1
    [] op \in SwapOps                                    -> op - SWAP1 + 2
    [] OTHER                                             -> 0
Pushes(op) ==
  CASE op \in {POP, JUMP, JUMPI, STOP, JUMPDEST}         -> 0
    [] op \in DupOps                                     -> op - DUP1 + 2
    [] op \in SwapOps                                    -> op - SWAP1 + 2
    [] OTHER                                             -> 1

CurOp == GetOp(code, pc)

(* Contract.validJumpdest, against the contract's cached analysis.         *)
ValidJumpdest(pos) == pos \in jumpdests

(* The interpreter loop's checks before it calls a handler.                *)
StackFits(op) ==
  /\ Len(stack) >= Pops(op)
  /\ Len(stack) - Pops(op) + Pushes(op) <= StackLimit

(* A handler of opcode op runs: the frame is running, op is at pc and the  *)
(* stack check passed.  A handler needs k taint entries to pop; with fewer *)
(* the Go code panics (index out of range), which the model leaves         *)
(* without a successor.                                                    *)
Runs(op, k) ==
  /\ status = "running"
  /\ CurOp = op
  /\ StackFits(op)
  /\ Len(tstack) >= k

Env == <<code, calldata, callvalue, abort, jumpdests>>
Analysis == <<global_taint_flag, global_branch_flag, GlobalPcPath, GlobalPcCost>>

-----------------------------------------------------------------------------
(* The result tag of an overflow-checked handler (opAdd, opSub, opMul,     *)
(* opAddmod): POTENTIAL_OVERFLOW when an operand carries CALLDATA, and     *)
(* PROTECTED_OVERFLOW or OVERFLOW when the check found an overflow.  The   *)
(* operands' own tags are not carried over.                                *)
ArithTag(tainted, over, protected) ==
  IF ~tainted THEN SAFE_FLAG
  ELSE {POTENTIAL_OVERFLOW_FLAG}
       \cup (IF ~over THEN {}
             ELSE IF protected THEN {PROTECTED_OVERFLOW_FLAG}
                  ELSE {OVERFLOW_FLAG})

(* Mutant: the OR into global_taint_flag leaves out the OVERFLOW bit.      *)
RecordFlagsDropsOverflow(t) ==
  global_taint_flag' = global_taint_flag \cup (t \ {OVERFLOW_FLAG})

(* Mutant: the handler assigns temp_flag instead of ORing it in.           *)
RecordFlagsOverwrites(t) == global_taint_flag' = t

(* Each bit set in temp_flag is also set in global_taint_flag.             *)
RecordFlags(t) == global_taint_flag' = global_taint_flag \cup t

(* Mutant: the wrap test also fires when the sum equals x (y = 0).         *)
AddWrappedNonStrict(x, res) == res <= x

(* opAdd's check "temp_res.Lt(&temp_x) || temp_res.Lt(temp_y)": temp_y     *)
(* points at the result, so the second test compares it with itself.       *)
AddWrapped(x, res) == res < x \/ res < res

(* A binary overflow-checked handler: pop x and y, leave res.  When the    *)
(* check found an overflow the protection scan runs; if it diverges the   *)
(* handler never returns.                                                  *)
CheckedBinary(x, y, res, over, scan) ==
  LET tainted == CALLDATA_FLAG \in Top(tstack) \cup Snd(tstack)
      found   == tainted /\ over
      t       == ArithTag(tainted, found, scan = "match")
  IN  IF found /\ scan = "diverge"
      THEN /\ status' = "hung"
           /\ UNCHANGED <<pc, stack, tstack, global_taint_flag>>
      ELSE /\ stack' = Append(PopN(stack, 2), res)
           /\ tstack' = Append(PopN(tstack, 2), t)
           /\ RecordFlags(t)
           /\ pc' = pc + 1
           /\ UNCHANGED status

(* opAdd                                                                   *)
OpAdd ==
  /\ Runs(ADD, 2)
  /\ LET x == Top(stack)  y == Snd(stack)  res == (x + y) % Modulus IN
     CheckedBinary(x, y, res, AddWrapped(x, res), checkAddProtection(code, pc))
  /\ UNCHANGED <<Env, global_branch_flag, GlobalPcPath, GlobalPcCost>>

(* opSub: the check "temp_y.Gt(&temp_x)" runs before y.Sub.                *)
OpSub ==
  /\ Runs(SUB, 2)
  /\ LET x == Top(stack)  y == Snd(stack) IN
     CheckedBinary(x, y, (x - y) % Modulus, y > x, checkSubProtection(code, pc))
  /\ UNCHANGED <<Env, global_branch_flag, GlobalPcPath, GlobalPcCost>>

(* opMul: y.Mul leaves the product in y; when an operand is tainted and x  *)
(* is not 0, temp_res.Div(temp_res, &temp_x) overwrites that same y with   *)
(* product / x and compares it with temp_y, again the same y.              *)
OpMul ==
  /\ Runs(MUL, 2)
  /\ LET x == Top(stack)  y == Snd(stack)  prod == (x * y) % Modulus
         tainted == CALLDATA_FLAG \in Top(tstack) \cup Snd(tstack)
         res == IF tainted /\ x # 0 THEN prod \div x ELSE prod
     IN  CheckedBinary(x, y, res, x # 0 /\ res # res, checkMulProtection(code, pc))
  /\ UNCHANGED <<Env, global_branch_flag, GlobalPcPath, GlobalPcCost>>

(* A handler that pops x and y, leaves res and tags it tx | ty (opDiv,     *)
(* opMod).                                                                 *)
OrTagged(op, res(_, _)) ==
  /\ Runs(op, 2)
  /\ stack' = Append(PopN(stack, 2), res(Top(stack), Snd(stack)))
  /\ tstack' = Append(PopN(tstack, 2), Top(tstack) \cup Snd(tstack))
  /\ pc' = pc + 1
  /\ UNCHANGED <<Env, Analysis, status>>

DivRes(x, y) == IF y = 0 THEN 0 ELSE x \div y
ModRes(x, y) == IF y = 0 THEN 0 ELSE x % y

OpDiv == OrTagged(DIV, DivRes)
OpMod == OrTagged(MOD, ModRes)
OpSdiv == OrTagged(SDIV, SDivWord)
OpSmod == OrTagged(SMOD, SModWord)
OpAnd  == OrTagged(AND, AndWord)
OpOr   == OrTagged(OR, OrWord)
OpXor  == OrTagged(XOR, XorWord)
OpByte == OrTagged(BYTE, ByteWord)

(* opSHL, opSHR, opSAR: shift is the top, value the second item; the tags  *)
(* are ORed before the shift, in the same step.                            *)
OpShl == OrTagged(SHL, ShlWord)
OpShr == OrTagged(SHR, ShrWord)
OpSar == OrTagged(SAR, SarWord)

(* A value-only handler: it pops k items and leaves res, and does not      *)
(* touch the taint stack (opExp, opSlt, opSgt, opMulmod).                  *)
ValueOnly(op, k, res) ==
  /\ Runs(op, 0)
  /\ stack' = Append(PopN(stack, k), res)
  /\ pc' = pc + 1
  /\ UNCHANGED <<Env, Analysis, tstack, status>>

OpExp    == ValueOnly(EXP, 2, ExpMod(Top(stack), Snd(stack)))
OpSlt    == ValueOnly(SLT, 2, IF Signed(Top(stack)) < Signed(Snd(stack)) THEN 1 ELSE 0)
OpSgt    == ValueOnly(SGT, 2, IF Signed(Top(stack)) > Signed(Snd(stack)) THEN 1 ELSE 0)
OpMulmod == ValueOnly(MULMOD, 3, IF Thd(stack) = 0 THEN 0
                                  ELSE (Top(stack) * Snd(stack)) % Thd(stack))
OpSignExtend == ValueOnly(SIGNEXTEND, 2, SignExtendWord(Top(stack), Snd(stack)))

(* opAddmod: x and y are popped, z is overwritten.  With z = 0 the result  *)
(* is 0 tagged tz; otherwise the wrap heuristic compares the reduced sum   *)
(* with the raw operands.                                                  *)
OpAddmod ==
  /\ Runs(ADDMOD, 3)
  /\ LET x == Top(stack)  y == Snd(stack)  z == Thd(stack)
         res == (x + y) % z
         tainted == CALLDATA_FLAG \in Top(tstack) \cup Snd(tstack)
         found == tainted /\ (res < x \/ res < y)
         scan == checkAddProtection(code, pc)
         t == ArithTag(tainted, found, scan = "match")
     IN  IF z = 0
         THEN /\ stack' = Append(PopN(stack, 3), 0)
              /\ tstack' = Append(PopN(tstack, 3), Thd(tstack))
              /\ pc' = pc + 1
              /\ UNCHANGED <<global_taint_flag, status>>
         ELSE IF found /\ scan = "diverge"
         THEN /\ status' = "hung"
              /\ UNCHANGED <<pc, stack, tstack, global_taint_flag>>
         ELSE /\ stack' = Append(PopN(stack, 3), res)
              /\ tstack' = Append(PopN(tstack, 3), t)
              /\ RecordFlags(t)
              /\ pc' = pc + 1
              /\ UNCHANGED status
  /\ UNCHANGED <<Env, global_branch_flag, GlobalPcPath, GlobalPcCost>>

-----------------------------------------------------------------------------
(* The two GlobalPcCost entries of a tainted comparison at pc: entry one   *)
(* is the distance to make the comparison false, entry two the distance to *)
(* make it true, each computed with wrapping Sub/Add and then Abs.         *)
LtCost(x, y) ==
  IF x < y THEN <<Abs((y - x) % Modulus), 0>>
  ELSE <<0, Abs((((x - y) % Modulus) + 1) % Modulus)>>
GtCost(x, y) ==
  IF x > y THEN <<Abs((x - y) % Modulus), 0>>
  ELSE <<0, Abs((((y - x) % Modulus) + 1) % Modulus)>>
EqCost(x, y) ==
  IF x = y THEN <<1, 0>> ELSE <<0, Abs((x - y) % Modulus)>>

(* opLt, opGt, opEq: pop x and y, leave 1 or 0 tagged tx | ty.  With a    *)
(* tainted operand two cost entries are pushed.  The BRANCH test reads the *)
(* opcode at pc itself, which is the comparison, never PUSH1.              *)
Compare(op, holds(_, _), dist(_, _)) ==
  /\ Runs(op, 2)
  /\ LET x == Top(stack)  y == Snd(stack)
         tainted == CALLDATA_FLAG \in Top(tstack) \cup Snd(tstack)
     IN  /\ stack' = Append(PopN(stack, 2), IF holds(x, y) THEN 1 ELSE 0)
         /\ GlobalPcCost' =
              IF tainted
              THEN GlobalPcCost \o << [pc |-> pc, d |-> dist(x, y)[1]],
                                      [pc |-> pc, d |-> dist(x, y)[2]] >>
              ELSE GlobalPcCost
  /\ global_branch_flag' =
       IF CurOp = PUSH1 /\ GetOp(code, pc + 2) = JUMPI
       THEN global_branch_flag \cup {BRANCH_FLAG} ELSE global_branch_flag
  /\ tstack' = Append(PopN(tstack, 2), Top(tstack) \cup Snd(tstack))
  /\ pc' = pc + 1
  /\ UNCHANGED <<Env, global_taint_flag, GlobalPcPath, status>>

LessThan(x, y) == x < y
GreaterThan(x, y) == x > y
Equal(x, y) == x = y

OpLt == Compare(LT, LessThan, LtCost)
OpGt == Compare(GT, GreaterThan, GtCost)
OpEq == Compare(EQ, Equal, EqCost)

(* A handler that rewrites the top value in place and leaves the taint     *)
(* stack alone (opIszero, opNot).                                          *)
InPlace(op, res) ==
  /\ Runs(op, 0)
  /\ stack' = Append(PopN(stack, 1), res)
  /\ pc' = pc + 1
  /\ UNCHANGED <<Env, Analysis, tstack, status>>

OpIszero == InPlace(ISZERO, IF Top(stack) = 0 THEN 1 ELSE 0)

(* Mutant: the complement taken as Modulus - x, one too large.             *)
OpNotOffByOne == InPlace(NOT, Modulus - Top(stack))

OpNot    == InPlace(NOT, Modulus - 1 - Top(stack))

(* opBalance and opExtCodeHash replace the address on top by what the      *)
(* state database answers (the code hash, or 0 for an empty account); the  *)
(* address's tag stays on the taint stack.                                 *)
OpBalance     == \E v \in Inputs : InPlace(BALANCE, v)
OpExtCodeHash == \E v \in Inputs : InPlace(EXTCODEHASH, v)

(* A handler that replaces the top value by v and its tag by t            *)
(* (opExtCodeSize, opBlockhash).                                           *)
Retag(op, v, t) ==
  /\ Runs(op, 1)
  /\ stack' = Append(PopN(stack, 1), v)
  /\ tstack' = Append(PopN(tstack, 1), t)
  /\ pc' = pc + 1
  /\ UNCHANGED <<Env, Analysis, status>>

(* opExtCodeSize: the code size of the account, tagged SAFE.               *)
OpExtCodeSize == \E v \in Inputs : Retag(EXTCODESIZE, v, SAFE_FLAG)

(* Uint64WithOverflow: a word that does not fit 64 bits (never, below      *)
(* W = 65).                                                                *)
Uint64Overflow(v) == W > 64 /\ v >= 2^64

(* opBlockhash: the hash of one of the 256 blocks before the current one   *)
(* keeps the number's tag; any other number gives 0 tagged 0 (SAFE).       *)
BlockhashWindow(num, upper) ==
  LET lower == IF upper < 257 THEN 0 ELSE upper - 256
  IN  ~Uint64Overflow(num) /\ num >= lower /\ num < upper

OpBlockhash ==
  /\ Runs(BLOCKHASH, 1)
  /\ \E upper \in BlockNumbers, h \in Inputs :
       IF BlockhashWindow(Top(stack), upper)
       THEN Retag(BLOCKHASH, h, Top(tstack))
       ELSE Retag(BLOCKHASH, 0, SAFE_FLAG)

(* A handler that pushes v tagged t (opCallValue, opPc, opPush1).          *)
PushTagged(op, v, t, next) ==
  /\ Runs(op, 0)
  /\ stack' = Append(stack, v)
  /\ tstack' = Append(tstack, t)
  /\ pc' = next
  /\ UNCHANGED <<Env, Analysis, status>>

OpCallValue == PushTagged(CALLVALUE, callvalue, {CALLDATA_FLAG}, pc + 1)
OpPc        == PushTagged(PC, pc % Modulus, SAFE_FLAG, pc + 1)

(* opPush1: *pc += 1, then the byte there (or 0 past the code); the loop   *)
(* adds the other 1.                                                       *)
OpPush1 == PushTagged(PUSH1, GetOp(code, pc + 1), SAFE_FLAG, pc + 2)

(* makePush(n, n) for PUSH2..PUSH32: *pc += n, then the loop's 1.          *)
OpPush(n) == PushTagged(PUSH1 + n - 1, PushValue(code, pc, n), SAFE_FLAG, pc + n + 1)

(* opAddress, opOrigin, opCaller, opGasprice, opCoinbase, opTimestamp,     *)
(* opNumber, opDifficulty, opGasLimit, opGas: a value of the host (the     *)
(* words of Inputs stand for any of them), tagged SAFE.                    *)
HostPush(op) == \E v \in Inputs : PushTagged(op, v, SAFE_FLAG, pc + 1)

OpAddress    == HostPush(ADDRESS)
OpOrigin     == HostPush(ORIGIN)
OpCaller     == HostPush(CALLER)
OpGasprice   == HostPush(GASPRICE)
OpCoinbase   == HostPush(COINBASE)
OpTimestamp  == HostPush(TIMESTAMP)
OpNumber     == HostPush(NUMBER)
OpDifficulty == HostPush(DIFFICULTY)
OpGasLimit   == HostPush(GASLIMIT)
OpGas        == HostPush(GAS)

(* opCallDataSize: the input length (in the model's call-data words).      *)
OpCallDataSize == PushTagged(CALLDATASIZE, CDSize % Modulus, SAFE_FLAG, pc + 1)

(* opCodeSize: len(Contract.Code).                                         *)
OpCodeSize == PushTagged(CODESIZE, Len(code) % Modulus, SAFE_FLAG, pc + 1)

(* opReturnDataSize: no call has returned in this frame, so the buffer is  *)
(* empty.                                                                  *)
OpReturnDataSize == PushTagged(RETURNDATASIZE, 0, SAFE_FLAG, pc + 1)

(* The pc of the function-selector load, which opCallDataLoad tags SAFE.   *)
SelectorPc == 14

(* opCallDataLoad: the word at the offset on top (0 beyond the input);     *)
(* the top taint entry is replaced by CALLDATA, or SAFE at SelectorPc.     *)
OpCallDataLoad ==
  /\ Runs(CALLDATALOAD, 1)
  /\ stack' = Append(PopN(stack, 1),
                     IF Top(stack) < CDSize THEN calldata[Top(stack)] ELSE 0)
  /\ tstack' = Append(PopN(tstack, 1),
                      IF pc = SelectorPc THEN SAFE_FLAG ELSE {CALLDATA_FLAG})
  /\ pc' = pc + 1
  /\ UNCHANGED <<Env, Analysis, status>>

(* Mutant: opPop forgets the taint stack.                                  *)
OpPopKeepsTaint ==
  /\ Runs(POP, 1)
  /\ stack' = PopN(stack, 1)
  /\ pc' = pc + 1
  /\ UNCHANGED <<Env, Analysis, status, tstack>>

(* opPop                                                                   *)
OpPop ==
  /\ Runs(POP, 1)
  /\ stack' = PopN(stack, 1)
  /\ tstack' = PopN(tstack, 1)
  /\ pc' = pc + 1
  /\ UNCHANGED <<Env, Analysis, status>>

(* Mutant: makeDup(n) copies the value but pushes no taint.               *)
OpDupSkipsTaint(n) ==
  /\ Runs(DUP1 + n - 1, n)
  /\ stack' = Append(stack, stack[Len(stack) - n + 1])
  /\ pc' = pc + 1
  /\ UNCHANGED <<Env, Analysis, status, tstack>>

(* makeDup(n): both stacks push a copy of their n-th entry from the top.   *)
OpDup(n) ==
  /\ Runs(DUP1 + n - 1, n)
  /\ stack' = Append(stack, stack[Len(stack) - n + 1])
  /\ tstack' = Append(tstack, tstack[Len(tstack) - n + 1])
  /\ pc' = pc + 1
  /\ UNCHANGED <<Env, Analysis, status>>

(* Swap entries i and Len(s) of s.                                         *)
SwapTop(s, i) == [s EXCEPT ![i] = s[Len(s)], ![Len(s)] = s[i]]

(* makeSwap(n): both stacks swap their top with their (n+1)-th entry.      *)
OpSwap(n) ==
  /\ Runs(SWAP1 + n - 1, n + 1)
  /\ stack' = SwapTop(stack, Len(stack) - n)
  /\ tstack' = SwapTop(tstack, Len(tstack) - n)
  /\ pc' = pc + 1
  /\ UNCHANGED <<Env, Analysis, status>>

-----------------------------------------------------------------------------
(* JUMP and JUMPI first read the abort flag: errStopToken ends the frame   *)
(* as a normal stop.                                                       *)
(* Mutant: the handlers never look at the abort flag.                      *)
AbortIgnored == FALSE

AbortRequested == abort

(* opJump                                                                  *)
OpJump ==
  /\ Runs(JUMP, 1)
  /\ IF AbortRequested
     THEN status' = "stopped" /\ UNCHANGED <<pc, stack, tstack>>
     ELSE /\ stack' = PopN(stack, 1)
          /\ tstack' = PopN(tstack, 1)
          /\ IF ValidJumpdest(Top(stack))
             THEN pc' = Top(stack) /\ UNCHANGED status
             ELSE status' = "error" /\ UNCHANGED pc
  /\ UNCHANGED <<Env, Analysis>>

(* Mutant: the path is appended before the destination is checked.        *)
JumpiTakenRecordsFirst(pos) ==
  /\ GlobalPcPath' = GlobalPcPath \o <<pc, pos - 1>>
  /\ IF ValidJumpdest(pos)
     THEN pc' = pos /\ UNCHANGED status
     ELSE status' = "error" /\ UNCHANGED pc

(* The taken branch of opJumpi: check the destination, then record the     *)
(* source pc and *pc = pos - 1 (the loop's increment makes it pos).        *)
JumpiTaken(pos) ==
  IF ValidJumpdest(pos)
  THEN /\ GlobalPcPath' = GlobalPcPath \o <<pc, pos - 1>>
       /\ pc' = pos
       /\ UNCHANGED status
  ELSE status' = "error" /\ UNCHANGED <<pc, GlobalPcPath>>

(* opJumpi                                                                 *)
OpJumpi ==
  /\ Runs(JUMPI, 2)
  /\ IF AbortRequested
     THEN status' = "stopped" /\ UNCHANGED <<pc, stack, tstack, GlobalPcPath>>
     ELSE /\ stack' = PopN(stack, 2)
          /\ tstack' = PopN(tstack, 2)
          /\ IF Snd(stack) # 0 THEN JumpiTaken(Top(stack))
             ELSE pc' = pc + 1 /\ UNCHANGED <<status, GlobalPcPath>>
  /\ UNCHANGED <<Env, global_taint_flag, global_branch_flag, GlobalPcCost>>

(* opJumpdest                                                              *)
OpJumpdest ==
  /\ Runs(JUMPDEST, 0)
  /\ pc' = pc + 1
  /\ UNCHANGED <<Env, Analysis, stack, tstack, status>>

(* opStop, and the loop's STOP past the end of the code.                   *)
OpStop ==
  /\ Runs(STOP, 0)
  /\ status' = "stopped"
  /\ UNCHANGED <<Env, Analysis, pc, stack, tstack>>

(* The loop meets an opcode it has no handler for (opUndefined).           *)
InvalidOpcode ==
  /\ status = "running"
  /\ CurOp \notin Executable
  /\ status' = "error"
  /\ UNCHANGED <<Env, Analysis, pc, stack, tstack>>

(* The loop's stack check fails: stack underflow or overflow.              *)
StackFault ==
  /\ status = "running"
  /\ CurOp \in Executable
  /\ ~StackFits(CurOp)
  /\ status' = "error"
  /\ UNCHANGED <<Env, Analysis, pc, stack, tstack>>

(* The controller sets evm.abort (EVM.Cancel), from another goroutine.     *)
Abort ==
  /\ ~abort
  /\ status \in {"running", "hung"}
  /\ abort' = TRUE
  /\ UNCHANGED <<code, calldata, callvalue, jumpdests, pc, stack, tstack,
                 Analysis, status>>

-----------------------------------------------------------------------------
Init ==
  /\ code \in Programs
  /\ calldata \in [0..(CDSize - 1) -> Inputs]
  /\ callvalue \in Inputs
  /\ pc = 0
  /\ stack = <<>>
  /\ tstack = <<>>
  /\ global_taint_flag = SAFE_FLAG
  /\ global_branch_flag = SAFE_FLAG
  /\ GlobalPcPath = <<>>
  /\ GlobalPcCost = <<>>
  /\ status = "running"
  /\ abort = FALSE
  /\ jumpdests = JumpdestSet(code)

(* One iteration of the interpreter loop.                                  *)
Step ==
  \/ OpAdd \/ OpSub \/ OpMul \/ OpDiv \/ OpMod \/ OpAddmod \/ OpMulmod
  \/ OpExp \/ OpLt \/ OpGt \/ OpSlt \/ OpSgt \/ OpEq \/ OpIszero \/ OpNot
  \/ OpSdiv \/ OpSmod \/ OpAnd \/ OpOr \/ OpXor \/ OpByte
  \/ OpShl \/ OpShr \/ OpSar \/ OpSignExtend
  \/ OpBalance \/ OpExtCodeHash \/ OpExtCodeSize \/ OpBlockhash
  \/ OpCallValue \/ OpCallDataLoad \/ OpPop \/ OpPc \/ OpPush1
  \/ \E n \in 2..32 : OpPush(n)
  \/ OpAddress \/ OpOrigin \/ OpCaller \/ OpGasprice \/ OpCoinbase
  \/ OpTimestamp \/ OpNumber \/ OpDifficulty \/ OpGasLimit \/ OpGas
  \/ OpCallDataSize \/ OpCodeSize \/ OpReturnDataSize
  \/ \E n \in 1..16 : OpDup(n)
  \/ \E n \in 1..16 : OpSwap(n)
  \/ OpJump \/ OpJumpi \/ OpJumpdest \/ OpStop
  \/ InvalidOpcode \/ StackFault

(* A frame that has stopped, failed or hangs in a scan takes no more       *)
(* steps.                                                                  *)
Halted == status # "running" /\ UNCHANGED vars

Next == Step \/ Abort \/ Halted

Spec == Init /\ [][Next]_vars

(* The loop runs on its goroutine until the frame ends; the controller     *)
(* need not ever abort.                                                    *)
FairSpec == Spec /\ WF_vars(Step)

-----------------------------------------------------------------------------
(***************************************************************************)
(* Properties.                                                             *)
(***************************************************************************)
TypeOK ==
  /\ code \in Programs
  /\ calldata \in [0..(CDSize - 1) -> Inputs]
  /\ callvalue \in Inputs
  /\ pc \in Nat
  /\ stack \in Seq(Word)
  /\ tstack \in Seq(Tag)
  /\ global_taint_flag \in Tag
  /\ global_branch_flag \in Tag
  /\ GlobalPcPath \in Seq(Int)
  /\ GlobalPcCost \in Seq(CostEntry)
  /\ status \in Status
  /\ abort \in BOOLEAN
  /\ jumpdests \subseteq Nat

(* No taint pop ever finds the taint stack empty while the value stack,    *)
(* which the loop checks, has the item: the taint stack is never shorter   *)
(* than the value stack, whatever the handlers that skip it do.            *)
TaintCoversStack == Len(tstack) >= Len(stack)

(* The pairing invariant of the design: value and taint stacks have equal  *)
(* length at every instruction boundary.                                   *)
StackPaired == Len(tstack) = Len(stack)

(* The handlers that pop values without popping taint entries: opExp,     *)
(* opSlt, opSgt, opMulmod and opSignExtend.                                *)
UnpairingOps == {EXP, SLT, SGT, MULMOD, SIGNEXTEND}

StackGap == Len(tstack) - Len(stack)

(* Every step at any other opcode keeps the difference between the taint   *)
(* and value stack heights: each handler but those five pops and pushes    *)
(* the two stacks alike, and the loop's error exits, an abort and a hung   *)
(* scan leave both alone.  So the stacks come apart only at those five.    *)
PairingKept ==
  [][CurOp \notin UnpairingOps => StackGap' = StackGap]_vars

(* Every finding bit carried by a live taint entry has reached             *)
(* global_taint_flag, and an OVERFLOW or PROTECTED_OVERFLOW there always   *)
(* comes with POTENTIAL_OVERFLOW: what the driver reads after the run      *)
(* covers what the handlers found.                                         *)
FindingsRecorded ==
  /\ \A i \in 1..Len(tstack) : tstack[i] \cap FindingFlags \subseteq global_taint_flag
  /\ global_taint_flag \cap OverflowClass # {}
       => POTENTIAL_OVERFLOW_FLAG \in global_taint_flag

(* GlobalPcPath holds (source, destination - 1) pairs of taken JUMPIs: the *)
(* source is a JUMPI and the destination a valid JUMPDEST.                 *)
PathWellFormed ==
  /\ Len(GlobalPcPath) % 2 = 0
  /\ \A k \in 1..(Len(GlobalPcPath) \div 2) :
       /\ GetOp(code, GlobalPcPath[2 * k - 1]) = JUMPI
       /\ ValidJumpdest(GlobalPcPath[2 * k] + 1)

(* The spec's reading of GlobalPcPath: each pair is (source pc,            *)
(* destination pc), so the second entry is the JUMPDEST itself.            *)
PathRecordsDestination ==
  \A k \in 1..(Len(GlobalPcPath) \div 2) :
    GetOp(code, GlobalPcPath[2 * k]) = JUMPDEST

(* The spec's convention for GlobalPcCost: of the two entries of a         *)
(* comparison, the taken side's is 0 and the other, the distance to flip   *)
(* the branch, is not: exactly one entry of each pair is 0.                *)
CostPairConvention ==
  \A k \in 1..(Len(GlobalPcCost) \div 2) :
    (GlobalPcCost[2 * k - 1].d = 0) # (GlobalPcCost[2 * k].d = 0)

(* A handler of op completes normally in this step.                        *)
Completes(op) == status = "running" /\ CurOp = op /\ pc' = pc + 1

Tainted2 == CALLDATA_FLAG \in Top(tstack) \cup Snd(tstack)

(* The spec's overflow predicates (section 4.1 of the spec).               *)
SpecOverflow(op, x, y, z) ==
  CASE op = ADD    -> (x + y) % Modulus < x \/ (x + y) % Modulus < y
    [] op = SUB    -> x < y
    [] op = ADDMOD -> (x + y) % z < x \/ (x + y) % z < y
    [] op = MUL    -> x # 0 /\ ((x * y) % Modulus) \div x # y

(* ADD, SUB and ADDMOD (with a non-zero modulus) mark their result with an *)
(* overflow-class bit exactly when an operand carries CALLDATA and the     *)
(* spec's overflow predicate holds of the operands.                        *)
OverflowClassified ==
  [][\A op \in {ADD, SUB, ADDMOD} :
       (Completes(op) /\ (op = ADDMOD => Thd(stack) # 0))
       => ((Top(tstack') \cap OverflowClass # {})
           <=> (Tainted2 /\ SpecOverflow(op, Top(stack), Snd(stack), Thd(stack))))]_vars

(* Spec section 4.1's ADDMOD predicate with a zero modulus: the EVM's      *)
(* result is then 0, which is below every non-zero operand, so a tainted   *)
(* ADDMOD of a non-zero operand modulo 0 should carry an overflow-class    *)
(* bit.  opAddmod's z = 0 branch skips the check and pushes tz instead.    *)
AddmodZeroClassified ==
  [][(Completes(ADDMOD) /\ Thd(stack) = 0)
     => ((Top(tstack') \cap OverflowClass # {})
         <=> (Tainted2 /\ (0 < Top(stack) \/ 0 < Snd(stack))))]_vars

(* The same for MUL (spec section 8).                                      *)
MulOverflowDetected ==
  [][Completes(MUL)
     => ((Top(tstack') \cap OverflowClass # {})
         <=> (Tainted2 /\ SpecOverflow(MUL, Top(stack), Snd(stack), 0)))]_vars

(* The analysis never changes what the VM computes: MUL leaves the         *)
(* wrapped product (spec section 7).                                       *)
MulResultUnchanged ==
  [][Completes(MUL) => Top(stack') = (Top(stack) * Snd(stack)) % Modulus]_vars

(* A binary handler's result carries the taint of both operands (spec      *)
(* section 4.1: result taint is the OR of the input taints).               *)
TaintPropagates ==
  [][\A op \in {ADD, SUB, MUL, DIV, MOD, LT, GT, EQ} :
       Completes(op) => Top(tstack) \cup Snd(tstack) \subseteq Top(tstack')]_vars

(* Once the controller has set abort, the frame eventually ends.           *)
AbortHonoured == abort ~> status \in {"stopped", "error"}

(* When a tainted comparison is followed by PUSH1 dest JUMPI, the branch   *)
(* it decides depends on call data, so global_branch_flag gets BRANCH      *)
(* (spec section 4.3: the flag marks tainted comparisons that feed a       *)
(* conditional jump).                                                      *)
BranchFlagRecorded ==
  [][\A op \in {LT, GT, EQ} :
       (Completes(op) /\ Tainted2
        /\ GetOp(code, pc + 1) = PUSH1 /\ GetOp(code, pc + 3) = JUMPI)
       => BRANCH_FLAG \in global_branch_flag']_vars

(* A word loaded from call data carries CALLDATA wherever the load sits in *)
(* the code (spec section 6: all call input is external).                  *)
CallDataLoadTainted ==
  [][Completes(CALLDATALOAD) => CALLDATA_FLAG \in Top(tstack')]_vars

-----------------------------------------------------------------------------
(* The analysis state seen as the abstract log of AnalysisLog: the flat    *)
(* recorders read two entries at a time.                                   *)
Pairs(s) == [k \in 1..(Len(s) \div 2) |-> <<s[2 * k - 1], s[2 * k]>>]

Log == INSTANCE AnalysisLog
         WITH reported <- global_taint_flag, branches <- global_branch_flag,
              jumps <- Pairs(GlobalPcPath), costs <- Pairs(GlobalPcCost)

(* Every run of the frame is a run of the abstract log: the flag sets only *)
(* gain bits, and the jump and cost records only grow, by one jump or one  *)
(* comparison per handler (pcpath.go and pccost.go are append-only, and    *)
(* the handlers only OR into the globals).                                 *)
AnalysisRefined == Log!Spec
=============================================================================
