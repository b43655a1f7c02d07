--------------------------- MODULE PairingProofs ----------------------------
(***************************************************************************)
(* Proofs about the pairing of the value stack and the taint stack: only  *)
(* opExp, opSlt, opSgt, opMulmod and opSignExtend change the difference   *)
(* of their heights; every other handler pops and pushes the two stacks   *)
(* alike.                                                                  *)
(***************************************************************************)
EXTENDS TaintInterpreterProofs

-----------------------------------------------------------------------------
(* How the stack shapes of the handlers move the height difference.        *)

(* A push adds one entry.                                                   *)
LEMMA LenAppend ==
  ASSUME NEW S, NEW s \in Seq(S), NEW e
  PROVE  Len(Append(s, e)) = Len(s) + 1
OBVIOUS

(* Popping k entries from both stacks and pushing one on each keeps it.    *)
LEMMA BothPushGap ==
  ASSUME TypeOK, NEW k \in Nat, k <= Len(stack), k <= Len(tstack), NEW v,
         NEW t, stack' = Append(PopN(stack, k), v),
         tstack' = Append(PopN(tstack, k), t)
  PROVE  StackGap' = StackGap
<1>0. k \in 0..Len(stack) /\ k \in 0..Len(tstack)
  BY DEF TypeOK
<1>1. Len(stack') = Len(stack) - k + 1
  BY <1>0, PopNType DEF TypeOK
<1>2. Len(tstack') = Len(tstack) - k + 1
  <2>1. PopN(tstack, k) \in Seq(Tag) /\ Len(PopN(tstack, k)) = Len(tstack) - k
    BY <1>0, PopNType DEF TypeOK
  <2>. QED  BY <2>1, LenAppend
<1>. QED  BY <1>1, <1>2 DEF StackGap, TypeOK

(* Popping k entries from both stacks keeps it.                            *)
LEMMA BothPopGap ==
  ASSUME TypeOK, NEW k \in Nat, k <= Len(stack), k <= Len(tstack),
         stack' = PopN(stack, k), tstack' = PopN(tstack, k)
  PROVE  StackGap' = StackGap
<1>0. k \in 0..Len(stack) /\ k \in 0..Len(tstack)
  BY DEF TypeOK
<1>1. Len(stack') = Len(stack) - k
  BY <1>0, PopNType DEF TypeOK
<1>2. Len(tstack') = Len(tstack) - k
  BY <1>0, PopNType DEF TypeOK
<1>. QED  BY <1>1, <1>2 DEF StackGap, TypeOK

(* Replacing the top value and leaving the taint stack alone keeps it.     *)
LEMMA InPlaceGap ==
  ASSUME TypeOK, Len(stack) >= 1, NEW v,
         stack' = Append(PopN(stack, 1), v), UNCHANGED tstack
  PROVE  StackGap' = StackGap
<1>1. Len(stack') = Len(stack)
  BY PopNType DEF TypeOK
<1>. QED  BY <1>1 DEF StackGap, TypeOK

LEMMA UnchangedGap ==
  ASSUME UNCHANGED <<stack, tstack>>
  PROVE  StackGap' = StackGap
BY DEF StackGap

(* A handler pushing one value and one tag keeps it.                       *)
LEMMA PushTaggedGap ==
  ASSUME TypeOK, NEW op, NEW v, NEW t, NEW next, PushTagged(op, v, t, next)
  PROVE  StackGap' = StackGap
BY DEF PushTagged, TypeOK, StackGap
-----------------------------------------------------------------------------
(* Every step at an opcode other than the five keeps the height difference *)

(* The handlers that pop k entries from both stacks and push one on each,  *)
(* or stop in a diverging scan with both stacks untouched.                 *)
LEMMA PushingHandlersGap ==
  ASSUME TypeOK,
         \/ OpAdd \/ OpSub \/ OpMul \/ OpAddmod \/ OpDiv \/ OpMod \/ OpLt
         \/ OpGt \/ OpEq \/ OpCallDataLoad \/ BitStep
         \/ OpExtCodeSize \/ OpBlockhash
  PROVE  StackGap' = StackGap
<1>1. CASE OpAdd \/ OpSub \/ OpMul
  <2>1. Len(stack) >= 2 /\ Len(tstack) >= 2
    BY <1>1, RunsFacts, PopsFacts DEF OpAdd, OpSub, OpMul
  <2>2. ASSUME NEW x, NEW y, NEW res, NEW over, NEW scan,
               CheckedBinary(x, y, res, over, scan)
        PROVE  StackGap' = StackGap
    BY <2>1, <2>2, BothPushGap, UnchangedGap DEF CheckedBinary
  <2>. QED  BY <1>1, <2>2 DEF OpAdd, OpSub, OpMul
<1>2. CASE OpAddmod
  <2>1. Len(stack) >= 3 /\ Len(tstack) >= 3
    BY <1>2, RunsFacts, PopsFacts DEF OpAddmod
  <2>2. \/ \E v, t : /\ stack' = Append(PopN(stack, 3), v)
                     /\ tstack' = Append(PopN(tstack, 3), t)
        \/ UNCHANGED <<stack, tstack>>
    BY <1>2 DEF OpAddmod
  <2>. QED  BY <2>1, <2>2, BothPushGap, UnchangedGap
<1>3. CASE OpDiv \/ OpMod \/ OpLt \/ OpGt \/ OpEq \/ BitStep
  <2>1. Len(stack) >= 2 /\ Len(tstack) >= 2
    BY <1>3, RunsFacts, PopsFacts
    DEF OpDiv, OpMod, OpLt, OpGt, OpEq, Compare, BitStep, OpSdiv, OpSmod,
        OpAnd, OpOr, OpXor, OpByte, OpShl, OpShr, OpSar, OrTagged,
        OrTaggedOps, DIV, MOD, SDIV, SMOD, AND, OR, XOR, BYTE, SHL, SHR, SAR
  <2>2. \E v, t : /\ stack' = Append(PopN(stack, 2), v)
                  /\ tstack' = Append(PopN(tstack, 2), t)
    BY <1>3
    DEF OpDiv, OpMod, OpLt, OpGt, OpEq, Compare, BitStep, OpSdiv, OpSmod,
        OpAnd, OpOr, OpXor, OpByte, OpShl, OpShr, OpSar, OrTagged
  <2>. QED  BY <2>1, <2>2, BothPushGap
<1>4. CASE OpCallDataLoad
  <2>1. Len(stack) >= 1 /\ Len(tstack) >= 1
    BY <1>4, RunsFacts, PopsFacts DEF OpCallDataLoad
  <2>. QED  BY <1>4, <2>1, BothPushGap DEF OpCallDataLoad
<1>5. ASSUME NEW op, NEW v, NEW t, Pops(op) = 1, Retag(op, v, t)
      PROVE  StackGap' = StackGap
  <2>1. Len(stack) >= 1 /\ Len(tstack) >= 1
    BY <1>5, RunsFacts, PopsFacts DEF Retag
  <2>. QED  BY <1>5, <2>1, BothPushGap DEF Retag
<1>6. CASE OpExtCodeSize \/ OpBlockhash
  <2>1. Pops(EXTCODESIZE) = 1 /\ Pops(BLOCKHASH) = 1
    BY PopsFacts
  <2>. QED  BY <1>5, <1>6, <2>1 DEF OpExtCodeSize, OpBlockhash
<1>. QED  BY <1>1, <1>2, <1>3, <1>4, <1>6
(* The handlers that push one value and one tag, those that rewrite the    *)
(* top value only, and those that pop, duplicate or swap on both stacks.   *)
LEMMA OtherHandlersGap ==
  ASSUME TypeOK,
         \/ OpCallValue \/ OpPc \/ OpPush1 \/ HostStep
         \/ OpIszero \/ OpNot \/ OpBalance \/ OpExtCodeHash
         \/ OpPop \/ OpJump \/ OpJumpi
         \/ \E n \in 1..16 : OpDup(n)
         \/ \E n \in 1..16 : OpSwap(n)
  PROVE  StackGap' = StackGap
<1>1. CASE OpCallValue \/ OpPc \/ OpPush1 \/ HostStep
  BY <1>1, PushTaggedGap
  DEF OpCallValue, OpPc, OpPush1, HostStep, HostPush, OpAddress, OpOrigin,
      OpCaller, OpGasprice, OpCoinbase, OpTimestamp, OpNumber, OpDifficulty,
      OpGasLimit, OpGas, OpCallDataSize, OpCodeSize, OpReturnDataSize, OpPush
<1>2. CASE OpIszero \/ OpNot \/ OpBalance \/ OpExtCodeHash
  <2>1. Len(stack) >= 1
    BY <1>2, RunsFacts, PopsFacts
    DEF OpIszero, OpNot, OpBalance, OpExtCodeHash, InPlace
  <2>. QED  BY <1>2, <2>1, InPlaceGap
            DEF OpIszero, OpNot, OpBalance, OpExtCodeHash, InPlace
<1>3. CASE OpPop \/ OpJump
  <2>0. Pops(POP) = 1 /\ Pops(JUMP) = 1
    BY PopsFacts
  <2>1. Len(stack) >= 1 /\ Len(tstack) >= 1
    BY <1>3, <2>0, RunsFacts DEF OpPop, OpJump
  <2>. QED  BY <1>3, <2>1, BothPopGap, UnchangedGap DEF OpPop, OpJump
<1>4. CASE OpJumpi
  <2>1. Len(stack) >= 2 /\ Len(tstack) >= 2
    BY <1>4, RunsFacts, PopsFacts DEF OpJumpi
  <2>. QED  BY <1>4, <2>1, BothPopGap, UnchangedGap DEF OpJumpi
<1>5. CASE \E n \in 1..16 : OpDup(n)
  <2>1. PICK n \in 1..16 : OpDup(n)
    BY <1>5
  <2>2. Len(stack') = Len(stack) + 1 /\ Len(tstack') = Len(tstack) + 1
    BY <2>1 DEF OpDup, TypeOK
  <2>. QED  BY <2>2 DEF StackGap, TypeOK
<1>6. CASE \E n \in 1..16 : OpSwap(n)
  <2>1. PICK n \in 1..16 : OpSwap(n)
    BY <1>6
  <2>2. Pops(SWAP1 + n - 1) = n + 1
    BY PopsFacts
  <2>3. Len(stack) >= n + 1 /\ Len(tstack) >= n + 1
    BY <2>1, <2>2, RunsFacts DEF OpSwap
  <2>4. Len(stack) - n \in 1..Len(stack) /\ Len(tstack) - n \in 1..Len(tstack)
    BY <2>3 DEF TypeOK
  <2>5. Len(stack') = Len(stack) /\ Len(tstack') = Len(tstack)
    BY <2>1, <2>4, SwapTopType DEF OpSwap, TypeOK
  <2>. QED  BY <2>5 DEF StackGap
<1>. QED  BY <1>1, <1>2, <1>3, <1>4, <1>5, <1>6

(* The five handlers that skip the taint stack run only at their own       *)
(* opcodes.                                                                *)
LEMMA UnpairingHandlersOp ==
  ASSUME OpExp \/ OpSlt \/ OpSgt \/ OpMulmod \/ OpSignExtend
  PROVE  CurOp \in UnpairingOps
BY RunsFacts DEF OpExp, OpSlt, OpSgt, OpMulmod, OpSignExtend, ValueOnly,
                 UnpairingOps

(* A step of the frame at any opcode but the five keeps the difference of  *)
(* the stack heights.                                                      *)
LEMMA GapStep ==
  ASSUME TypeOK, [Next]_vars, CurOp \notin UnpairingOps
  PROVE  StackGap' = StackGap
<1>1. CASE \/ OpAdd \/ OpSub \/ OpMul \/ OpAddmod \/ OpDiv \/ OpMod \/ OpLt
           \/ OpGt \/ OpEq \/ OpCallDataLoad \/ BitStep
           \/ OpExtCodeSize \/ OpBlockhash
  BY <1>1, PushingHandlersGap
<1>2. CASE \/ OpCallValue \/ OpPc \/ OpPush1 \/ HostStep
           \/ OpIszero \/ OpNot \/ OpBalance \/ OpExtCodeHash
           \/ OpPop \/ OpJump \/ OpJumpi
           \/ \E n \in 1..16 : OpDup(n)
           \/ \E n \in 1..16 : OpSwap(n)
  BY <1>2, OtherHandlersGap
<1>3. CASE OpExp \/ OpSlt \/ OpSgt \/ OpMulmod \/ OpSignExtend
  BY <1>3, UnpairingHandlersOp
<1>4. CASE \/ OpJumpdest \/ OpStop \/ InvalidOpcode \/ StackFault
           \/ Abort \/ Halted \/ UNCHANGED vars
  BY <1>4, UnchangedGap
  DEF OpJumpdest, OpStop, InvalidOpcode, StackFault, Abort, Halted, vars
<1>. QED  BY <1>1, <1>2, <1>3, <1>4
          DEF Next, Step, BitStep, LoadStep, HostStep

(* Only opExp, opSlt, opSgt, opMulmod and opSignExtend ever change the     *)
(* difference between the taint and value stack heights, in every         *)
(* behaviour of the frame and for every contract.                          *)
THEOREM PairingAlwaysKept == Spec => PairingKept
<1>1. TypeOK /\ [Next]_vars
        => [CurOp \notin UnpairingOps => StackGap' = StackGap]_vars
  BY GapStep
<1>. QED  BY <1>1, TypeCorrect, PTL DEF Spec, PairingKept
=============================================================================
