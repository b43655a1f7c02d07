--------------------------- MODULE OverflowProofs ---------------------------
(***************************************************************************)
(* Proofs about the overflow classification of opAdd, opSub and opAddmod:  *)
(* the result tag carries an overflow-class bit exactly when an operand    *)
(* carries CALLDATA and the spec's overflow predicate holds, for every     *)
(* word width.  opAdd's second wrap test compares the result with itself; *)
(* the proof shows that the first test alone already decides the spec's  *)
(* predicate.                                                              *)
(***************************************************************************)
EXTENDS TaintInterpreterProofs

ArithOps == {ADD, SUB, ADDMOD}

-----------------------------------------------------------------------------
(* Facts about words and tags.                                             *)

(* A sum of two words wraps below one operand exactly when it wraps below  *)
(* either: the test "res < x" of opAdd decides "res < x or res < y".       *)
LEMMA AddWrapEither ==
  ASSUME NEW x \in Word, NEW y \in Word
  PROVE  ((x + y) % Modulus < x)
           <=> ((x + y) % Modulus < x \/ (x + y) % Modulus < y)
<1>1. Modulus \in Nat /\ Modulus >= 256 /\ x \in 0..(Modulus - 1)
      /\ y \in 0..(Modulus - 1)
  BY ModulusFacts DEF Word
<1>2. CASE x + y < Modulus
  <2>1. (x + y) % Modulus = x + y
    BY <1>1, <1>2
  <2>. QED  BY <1>1, <2>1
<1>3. CASE x + y >= Modulus
  <2>1. (x + y) % Modulus = x + y - Modulus
    BY <1>1, <1>3
  <2>. QED  BY <1>1, <2>1
<1>. QED  BY <1>2, <1>3, <1>1

(* The tag of an overflow-checked result has an overflow-class bit exactly *)
(* when the check found an overflow on a tainted operand.                  *)
LEMMA ArithTagClass ==
  ASSUME NEW a \in BOOLEAN, NEW b \in BOOLEAN, NEW c
  PROVE  (ArithTag(a, a /\ b, c) \cap OverflowClass # {}) <=> (a /\ b)
BY DEF ArithTag, OverflowClass, SAFE_FLAG, POTENTIAL_OVERFLOW_FLAG,
       PROTECTED_OVERFLOW_FLAG, OVERFLOW_FLAG

(* The top of a sequence after a push is the pushed entry.                 *)
LEMMA TopAppend ==
  ASSUME NEW S, NEW s \in Seq(S), NEW e
  PROVE  Top(Append(s, e)) = e
BY DEF Top

-----------------------------------------------------------------------------
(* Only the handler of the opcode at pc completes a step at that opcode.   *)

(* The handlers of the other opcodes run only when the opcode at pc is     *)
(* theirs, and that is none of ADD, SUB and ADDMOD.                        *)
LEMMA OtherHandlersOp ==
  ASSUME \/ OpMul \/ OpDiv \/ OpMod \/ OpMulmod \/ OpExp \/ OpLt \/ OpGt
         \/ OpSlt \/ OpSgt \/ OpEq \/ OpIszero \/ OpNot \/ OpSignExtend
         \/ BitStep \/ LoadStep \/ HostStep
         \/ OpCallValue \/ OpCallDataLoad \/ OpPop \/ OpPc \/ OpPush1
         \/ \E n \in 1..16 : OpDup(n)
         \/ \E n \in 1..16 : OpSwap(n)
         \/ OpJump \/ OpJumpi \/ OpJumpdest \/ OpStop
  PROVE  CurOp \notin ArithOps
<1>. USE DEF ArithOps, Runs, ADD, SUB, ADDMOD
<1>1. CASE OpMul
  BY <1>1 DEF OpMul, MUL
<1>2. CASE OpDiv
  BY <1>2 DEF OpDiv, OrTagged, DIV
<1>3. CASE OpMod
  BY <1>3 DEF OpMod, OrTagged, MOD
<1>4. CASE OpMulmod
  BY <1>4 DEF OpMulmod, ValueOnly, MULMOD
<1>5. CASE OpExp
  BY <1>5 DEF OpExp, ValueOnly, EXP
<1>6. CASE OpLt
  BY <1>6 DEF OpLt, Compare, LT
<1>7. CASE OpGt
  BY <1>7 DEF OpGt, Compare, GT
<1>8. CASE OpSlt
  BY <1>8 DEF OpSlt, ValueOnly, SLT
<1>9. CASE OpSgt
  BY <1>9 DEF OpSgt, ValueOnly, SGT
<1>10. CASE OpEq
  BY <1>10 DEF OpEq, Compare, EQ
<1>11. CASE OpIszero
  BY <1>11 DEF OpIszero, InPlace, ISZERO
<1>12. CASE OpNot
  BY <1>12 DEF OpNot, InPlace, NOT
<1>13. CASE OpSignExtend
  BY <1>13 DEF OpSignExtend, ValueOnly, SIGNEXTEND
<1>14. CASE OpSdiv
  BY <1>14 DEF OpSdiv, OrTagged, SDIV
<1>15. CASE OpSmod
  BY <1>15 DEF OpSmod, OrTagged, SMOD
<1>16. CASE OpAnd
  BY <1>16 DEF OpAnd, OrTagged, AND
<1>17. CASE OpOr
  BY <1>17 DEF OpOr, OrTagged, OR
<1>18. CASE OpXor
  BY <1>18 DEF OpXor, OrTagged, XOR
<1>19. CASE OpByte
  BY <1>19 DEF OpByte, OrTagged, BYTE
<1>20. CASE OpShl
  BY <1>20 DEF OpShl, OrTagged, SHL
<1>21. CASE OpShr
  BY <1>21 DEF OpShr, OrTagged, SHR
<1>22. CASE OpSar
  BY <1>22 DEF OpSar, OrTagged, SAR
<1>23. CASE OpBalance
  BY <1>23 DEF OpBalance, InPlace, BALANCE
<1>24. CASE OpExtCodeHash
  BY <1>24 DEF OpExtCodeHash, InPlace, EXTCODEHASH
<1>25. CASE OpExtCodeSize
  BY <1>25 DEF OpExtCodeSize, Retag, EXTCODESIZE
<1>26. CASE OpBlockhash
  BY <1>26 DEF OpBlockhash, BLOCKHASH
<1>27. CASE OpAddress
  BY <1>27 DEF OpAddress, HostPush, PushTagged, ADDRESS
<1>28. CASE OpOrigin
  BY <1>28 DEF OpOrigin, HostPush, PushTagged, ORIGIN
<1>29. CASE OpCaller
  BY <1>29 DEF OpCaller, HostPush, PushTagged, CALLER
<1>30. CASE OpGasprice
  BY <1>30 DEF OpGasprice, HostPush, PushTagged, GASPRICE
<1>31. CASE OpCoinbase
  BY <1>31 DEF OpCoinbase, HostPush, PushTagged, COINBASE
<1>32. CASE OpTimestamp
  BY <1>32 DEF OpTimestamp, HostPush, PushTagged, TIMESTAMP
<1>33. CASE OpNumber
  BY <1>33 DEF OpNumber, HostPush, PushTagged, NUMBER
<1>34. CASE OpDifficulty
  BY <1>34 DEF OpDifficulty, HostPush, PushTagged, DIFFICULTY
<1>35. CASE OpGasLimit
  BY <1>35 DEF OpGasLimit, HostPush, PushTagged, GASLIMIT
<1>36. CASE OpGas
  BY <1>36 DEF OpGas, HostPush, PushTagged, GAS
<1>37. CASE OpCallDataSize
  BY <1>37 DEF OpCallDataSize, PushTagged, CALLDATASIZE
<1>38. CASE OpCodeSize
  BY <1>38 DEF OpCodeSize, PushTagged, CODESIZE
<1>39. CASE OpReturnDataSize
  BY <1>39 DEF OpReturnDataSize, PushTagged, RETURNDATASIZE
<1>40. CASE OpCallValue
  BY <1>40 DEF OpCallValue, PushTagged, CALLVALUE
<1>41. CASE OpPc
  BY <1>41 DEF OpPc, PushTagged, PC
<1>42. CASE OpPush1
  BY <1>42 DEF OpPush1, PushTagged, PUSH1
<1>43. CASE OpCallDataLoad
  BY <1>43 DEF OpCallDataLoad, CALLDATALOAD
<1>44. CASE OpPop
  BY <1>44 DEF OpPop, POP
<1>45. CASE OpJump
  BY <1>45 DEF OpJump, JUMP
<1>46. CASE OpJumpi
  BY <1>46 DEF OpJumpi, JUMPI
<1>47. CASE OpJumpdest
  BY <1>47 DEF OpJumpdest, JUMPDEST
<1>48. CASE OpStop
  BY <1>48 DEF OpStop, STOP
<1>49. CASE \E n \in 2..32 : OpPush(n)
  BY <1>49 DEF OpPush, PushTagged, PUSH1
<1>50. CASE \E n \in 1..16 : OpDup(n)
  BY <1>50 DEF OpDup, DUP1
<1>51. CASE \E n \in 1..16 : OpSwap(n)
  BY <1>51 DEF OpSwap, SWAP1
<1>. QED  BY <1>1, <1>2, <1>3, <1>4, <1>5, <1>6, <1>7, <1>8, <1>9, <1>10,
          <1>11, <1>12, <1>13, <1>14, <1>15, <1>16, <1>17, <1>18, <1>19,
          <1>20, <1>21, <1>22, <1>23, <1>24, <1>25, <1>26, <1>27, <1>28,
          <1>29, <1>30, <1>31, <1>32, <1>33, <1>34, <1>35, <1>36, <1>37,
          <1>38, <1>39, <1>40, <1>41, <1>42, <1>43, <1>44, <1>45, <1>46,
          <1>47, <1>48, <1>49, <1>50, <1>51 DEF BitStep, LoadStep, HostStep
-----------------------------------------------------------------------------
(* Each overflow-checked handler classifies the result it leaves.          *)

(* opAdd: the result tag has an overflow-class bit exactly when an operand *)
(* is tainted and the sum wraps.  Its second test "res < res" never holds; *)
(* AddWrapEither shows the first test is enough.                           *)
LEMMA AddClassified ==
  ASSUME TypeOK, OpAdd, pc' = pc + 1
  PROVE  (Top(tstack') \cap OverflowClass # {})
           <=> (Tainted2 /\ SpecOverflow(ADD, Top(stack), Snd(stack), Thd(stack)))
<1> DEFINE x == Top(stack)
           y == Snd(stack)
           res == (x + y) % Modulus
           a == Tainted2
           b == AddWrapped(x, res)
           scan == checkAddProtection(code, pc)
           t == ArithTag(a, a /\ b, scan = "match")
<1>1. Pops(ADD) = 2
  BY PopsFacts
<1>2. Len(stack) >= 2 /\ Len(tstack) >= 2
  BY <1>1, RunsFacts DEF OpAdd
<1>3. x \in Word /\ y \in Word
  BY <1>2, TopType, SndType DEF TypeOK
<1>4. ~(a /\ b /\ scan = "diverge")
  BY DEF OpAdd, CheckedBinary, Tainted2, TypeOK
<1>5. tstack' = Append(PopN(tstack, 2), t)
  BY <1>4 DEF OpAdd, CheckedBinary, Tainted2
<1>6. PopN(tstack, 2) \in Seq(Tag)
  BY <1>2, PopNType DEF TypeOK
<1>7. Top(tstack') = t
  BY <1>5, <1>6, TopAppend
<1>8. (t \cap OverflowClass # {}) <=> (a /\ b)
  <2>1. a \in BOOLEAN /\ b \in BOOLEAN
    BY DEF Tainted2, AddWrapped
  <2>. QED  BY <2>1, ArithTagClass
<1>9. b <=> SpecOverflow(ADD, x, y, Thd(stack))
  BY <1>3, AddWrapEither, ModulusFacts DEF AddWrapped, SpecOverflow, ADD, SUB,
     ADDMOD, MUL
<1>. QED  BY <1>7, <1>8, <1>9

(* opSub: the tag has an overflow-class bit exactly when an operand is     *)
(* tainted and y > x, the spec's x < y.                                    *)
LEMMA SubClassified ==
  ASSUME TypeOK, OpSub, pc' = pc + 1
  PROVE  (Top(tstack') \cap OverflowClass # {})
           <=> (Tainted2 /\ SpecOverflow(SUB, Top(stack), Snd(stack), Thd(stack)))
<1> DEFINE x == Top(stack)
           y == Snd(stack)
           a == Tainted2
           b == y > x
           scan == checkSubProtection(code, pc)
           t == ArithTag(a, a /\ b, scan = "match")
<1>1. Pops(SUB) = 2
  BY PopsFacts
<1>2. Len(stack) >= 2 /\ Len(tstack) >= 2
  BY <1>1, RunsFacts DEF OpSub
<1>3. x \in Word /\ y \in Word
  BY <1>2, TopType, SndType DEF TypeOK
<1>4. ~(a /\ b /\ scan = "diverge")
  BY DEF OpSub, CheckedBinary, Tainted2, TypeOK
<1>5. tstack' = Append(PopN(tstack, 2), t)
  BY <1>4 DEF OpSub, CheckedBinary, Tainted2
<1>6. PopN(tstack, 2) \in Seq(Tag)
  BY <1>2, PopNType DEF TypeOK
<1>7. Top(tstack') = t
  BY <1>5, <1>6, TopAppend
<1>8. (t \cap OverflowClass # {}) <=> (a /\ b)
  <2>1. a \in BOOLEAN /\ b \in BOOLEAN
    BY DEF Tainted2, AddWrapped
  <2>. QED  BY <2>1, ArithTagClass
<1>9. b <=> SpecOverflow(SUB, x, y, Thd(stack))
  BY <1>3, ModulusFacts DEF SpecOverflow, ADD, SUB, ADDMOD, MUL
<1>. QED  BY <1>7, <1>8, <1>9

(* opAddmod with a non-zero modulus: the tag has an overflow-class bit     *)
(* exactly when an operand is tainted and the reduced sum lies below an    *)
(* operand.                                                                *)
LEMMA AddmodClassified ==
  ASSUME TypeOK, OpAddmod, pc' = pc + 1, Thd(stack) # 0
  PROVE  (Top(tstack') \cap OverflowClass # {})
           <=> (Tainted2 /\ SpecOverflow(ADDMOD, Top(stack), Snd(stack), Thd(stack)))
<1> DEFINE x == Top(stack)
           y == Snd(stack)
           z == Thd(stack)
           res == (x + y) % z
           a == Tainted2
           b == res < x \/ res < y
           scan == checkAddProtection(code, pc)
           t == ArithTag(a, a /\ b, scan = "match")
<1>1. Pops(ADDMOD) = 3
  BY PopsFacts
<1>2. Len(stack) >= 3 /\ Len(tstack) >= 3
  BY <1>1, RunsFacts DEF OpAddmod
<1>3. ~(a /\ b /\ scan = "diverge")
  BY DEF OpAddmod, Tainted2, TypeOK
<1>4. tstack' = Append(PopN(tstack, 3), t)
  BY <1>3 DEF OpAddmod, Tainted2
<1>5. PopN(tstack, 3) \in Seq(Tag)
  BY <1>2, PopNType DEF TypeOK
<1>6. Top(tstack') = t
  BY <1>4, <1>5, TopAppend
<1>7. (t \cap OverflowClass # {}) <=> (a /\ b)
  <2>1. a \in BOOLEAN /\ b \in BOOLEAN
    BY DEF Tainted2, AddWrapped
  <2>. QED  BY <2>1, ArithTagClass
<1>8. b <=> SpecOverflow(ADDMOD, x, y, z)
  BY DEF SpecOverflow, ADD, SUB, ADDMOD, MUL
<1>. QED  BY <1>6, <1>7, <1>8
-----------------------------------------------------------------------------
(* Every step of the interpreter that completes ADD, SUB or ADDMOD (with a *)
(* non-zero modulus) classifies the result.  Stutters, Halted, Abort and   *)
(* the two error steps leave pc where it is; every other handler runs at   *)
(* an opcode of its own.                                                   *)
LEMMA ClassifiedStep ==
  ASSUME TypeOK, [Next]_vars,
         NEW op \in {ADD, SUB, ADDMOD},
         Completes(op), op = ADDMOD => Thd(stack) # 0
  PROVE  (Top(tstack') \cap OverflowClass # {})
           <=> (Tainted2 /\ SpecOverflow(op, Top(stack), Snd(stack), Thd(stack)))
<1>1. pc' # pc
  BY DEF Completes, TypeOK
<1>2. CurOp = op /\ op \in ArithOps
  BY DEF Completes, ArithOps
<1>3. CASE UNCHANGED vars
  BY <1>1, <1>3 DEF vars
<1>4. CASE Halted
  BY <1>4 DEF Halted, Completes
<1>5. CASE Abort \/ InvalidOpcode \/ StackFault
  BY <1>1, <1>5 DEF Abort, InvalidOpcode, StackFault
<1>6. CASE OpAdd
  <2>1. op = ADD
    BY <1>2, <1>6, RunsFacts DEF OpAdd
  <2>. QED  BY <1>6, <2>1, AddClassified DEF Completes
<1>7. CASE OpSub
  <2>1. op = SUB
    BY <1>2, <1>7, RunsFacts DEF OpSub
  <2>. QED  BY <1>7, <2>1, SubClassified DEF Completes
<1>8. CASE OpAddmod
  <2>1. op = ADDMOD
    BY <1>2, <1>8, RunsFacts DEF OpAddmod
  <2>. QED  BY <1>8, <2>1, AddmodClassified DEF Completes
<1>9. CASE \/ OpMul \/ OpDiv \/ OpMod \/ OpMulmod \/ OpExp \/ OpLt \/ OpGt
           \/ OpSlt \/ OpSgt \/ OpEq \/ OpIszero \/ OpNot \/ OpSignExtend
           \/ BitStep \/ LoadStep \/ HostStep
           \/ OpCallValue \/ OpCallDataLoad \/ OpPop \/ OpPc \/ OpPush1
           \/ \E n \in 1..16 : OpDup(n)
           \/ \E n \in 1..16 : OpSwap(n)
           \/ OpJump \/ OpJumpi \/ OpJumpdest \/ OpStop
  BY <1>2, <1>9, OtherHandlersOp
<1>10. Step \/ Halted \/ Abort \/ UNCHANGED vars
  BY DEF Next
<1>. QED  BY <1>3, <1>4, <1>5, <1>6, <1>7, <1>8, <1>9, <1>10
          DEF Step, BitStep, LoadStep, HostStep

(* opAdd, opSub and opAddmod leave an overflow-class bit on their result   *)
(* exactly when an operand carries CALLDATA and the spec's overflow        *)
(* predicate holds, in every behaviour and for every word width W.         *)
THEOREM OverflowAlwaysClassified == Spec => OverflowClassified
<1>1. TypeOK /\ [Next]_vars =>
        [\A op \in {ADD, SUB, ADDMOD} :
           (Completes(op) /\ (op = ADDMOD => Thd(stack) # 0))
           => ((Top(tstack') \cap OverflowClass # {})
               <=> (Tainted2 /\ SpecOverflow(op, Top(stack), Snd(stack),
                                             Thd(stack))))]_vars
  BY ClassifiedStep
<1>. QED  BY <1>1, TypeCorrect, PTL DEF Spec, OverflowClassified
=============================================================================
