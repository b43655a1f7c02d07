----------------------- MODULE TaintInterpreterProofs -----------------------
(***************************************************************************)
(* Proofs about the taint interpreter for every word width, program set,   *)
(* input set, call-data size and stack limit that satisfy the assumptions  *)
(* of EVMCode and TaintInterpreter.                                        *)
(***************************************************************************)
EXTENDS TaintInterpreter, TLAPS

-----------------------------------------------------------------------------
(* Facts about words.                                                      *)

LEMMA ModulusFacts ==
  /\ Modulus \in Nat
  /\ Modulus >= 256
  /\ 0 \in Word /\ 1 \in Word
  /\ Byte \subseteq Word
  /\ Word \subseteq Nat
  /\ \A v \in Word : v \in Nat /\ v < Modulus
BY WidthAssumption DEF Modulus, Word, Byte

(* Reducing an integer modulo 2^W gives a word.                            *)
LEMMA ModWord ==
  ASSUME NEW i \in Int
  PROVE  i % Modulus \in Word
BY ModulusFacts DEF Word

(* uint256 Abs of a word is a word.                                        *)
LEMMA AbsWord ==
  ASSUME NEW v \in Word
  PROVE  Abs(v) \in Word
BY ModulusFacts DEF Abs, Word

(* uint256 Exp gives a word.                                               *)
LEMMA ExpWord ==
  ASSUME NEW b \in Word, NEW e \in Word
  PROVE  ExpMod(b, e) \in Word
BY ModulusFacts DEF ExpMod

(* The handlers' uses of AsWord give words.                                *)
LEMMA AsWordType ==
  ASSUME NEW r
  PROVE  AsWord(r) \in Word
BY ModulusFacts DEF AsWord

(* A signed reading of a nonzero word is a nonzero integer.                *)
LEMMA SignedFacts ==
  ASSUME NEW v \in Word
  PROVE  /\ Signed(v) \in Int /\ Mag(Signed(v)) \in Nat
         /\ v # 0 => Mag(Signed(v)) > 0
BY ModulusFacts DEF Signed, Mag, Word

(* uint256 SDiv and SMod of two words give a word.                         *)
LEMMA SignedDivWord ==
  ASSUME NEW x \in Word, NEW y \in Word
  PROVE  SDivWord(x, y) \in Word /\ SModWord(x, y) \in Word
<1>1. CASE y = 0
  BY <1>1, ModulusFacts DEF SDivWord, SModWord
<1>2. CASE y # 0
  <2>1. Mag(Signed(x)) \in Nat /\ Mag(Signed(y)) \in Nat /\ Mag(Signed(y)) > 0
    BY <1>2, SignedFacts
  <2>2. Mag(Signed(x)) \div Mag(Signed(y)) \in Int
        /\ Mag(Signed(x)) % Mag(Signed(y)) \in Int
    BY <2>1
  <2>3. SDivWord(x, y) \in Word
    BY <1>2, <2>2, ModWord DEF SDivWord
  <2>4. SModWord(x, y) \in Word
    BY <1>2, <2>2, ModWord DEF SModWord
  <2>. QED  BY <2>3, <2>4
<1>. QED  BY <1>1, <1>2

(* The bitwise, byte, shift and sign-extension results are words.          *)
LEMMA BitWords ==
  ASSUME NEW x \in Word, NEW y \in Word
  PROVE  /\ AndWord(x, y) \in Word /\ OrWord(x, y) \in Word
         /\ XorWord(x, y) \in Word /\ ByteWord(x, y) \in Word
         /\ ShlWord(x, y) \in Word /\ ShrWord(x, y) \in Word
         /\ SarWord(x, y) \in Word /\ SignExtendWord(x, y) \in Word
<1>1. AndWord(x, y) \in Word /\ OrWord(x, y) \in Word /\ XorWord(x, y) \in Word
  BY AsWordType DEF AndWord, OrWord, XorWord, BitwiseWord
<1>2. ByteWord(x, y) \in Word /\ ShlWord(x, y) \in Word /\ ShrWord(x, y) \in Word
  BY AsWordType, ModulusFacts DEF ByteWord, ShlWord, ShrWord
<1>3. SarWord(x, y) \in Word
  BY AsWordType, ModulusFacts DEF SarWord, Word
<1>4. SignExtendWord(x, y) \in Word
  BY AsWordType DEF SignExtendWord
<1>. QED  BY <1>1, <1>2, <1>3, <1>4

(* makePush's value is a word.                                             *)
LEMMA PushValueWord ==
  ASSUME NEW c, NEW at, NEW n
  PROVE  PushValue(c, at, n) \in Word
BY AsWordType DEF PushValue

-----------------------------------------------------------------------------
(* Facts about the stack helpers of taint_stack.go.                        *)

LEMMA PopNType ==
  ASSUME NEW S, NEW s \in Seq(S), NEW k \in 0..Len(s)
  PROVE  /\ PopN(s, k) \in Seq(S)
         /\ Len(PopN(s, k)) = Len(s) - k
BY DEF PopN

LEMMA TopType ==
  ASSUME NEW S, NEW s \in Seq(S), Len(s) >= 1
  PROVE  Top(s) \in S
BY DEF Top

LEMMA SndType ==
  ASSUME NEW S, NEW s \in Seq(S), Len(s) >= 2
  PROVE  Snd(s) \in S
BY DEF Snd

LEMMA ThdType ==
  ASSUME NEW S, NEW s \in Seq(S), Len(s) >= 3
  PROVE  Thd(s) \in S
BY DEF Thd

LEMMA SwapTopType ==
  ASSUME NEW S, NEW s \in Seq(S), NEW i \in 1..Len(s)
  PROVE  /\ SwapTop(s, i) \in Seq(S)
         /\ Len(SwapTop(s, i)) = Len(s)
BY DEF SwapTop

(* The byte at any offset of a program, or STOP past its end, is a word.   *)
LEMMA GetOpWord ==
  ASSUME NEW c \in Programs, NEW n \in Int
  PROVE  GetOp(c, n) \in Word
<1>1. c \in Seq(Byte)
  BY ProgramsAssumption
<1>2. CASE n \in 0..(Len(c) - 1)
  <2>1. c[n + 1] \in Byte
    BY <1>1, <1>2
  <2>. QED  BY <2>1, <1>2, ModulusFacts DEF GetOp
<1>3. CASE n \notin 0..(Len(c) - 1)
  BY <1>3, ModulusFacts DEF GetOp, STOP
<1>. QED  BY <1>2, <1>3
-----------------------------------------------------------------------------
(* The jump table's stack requirements of each modelled opcode.            *)

LEMMA PopsFacts ==
  /\ \A op \in {ADD, MUL, SUB, DIV, MOD, EXP, LT, GT, SLT, SGT, EQ} :
       Pops(op) = 2 /\ Pushes(op) = 1
  /\ \A op \in OrTaggedOps \cup {SIGNEXTEND} : Pops(op) = 2
  /\ \A op \in {ADDMOD, MULMOD} : Pops(op) = 3 /\ Pushes(op) = 1
  /\ \A op \in {ISZERO, NOT, CALLDATALOAD} : Pops(op) = 1 /\ Pushes(op) = 1
  /\ \A op \in {BALANCE, EXTCODEHASH, EXTCODESIZE, BLOCKHASH} : Pops(op) = 1
  /\ Pops(POP) = 1 /\ Pops(JUMP) = 1 /\ Pops(JUMPI) = 2
  /\ \A op \in {CALLVALUE, PC, PUSH1} : Pops(op) = 0 /\ Pushes(op) = 1
  /\ \A n \in 1..16 : Pops(DUP1 + n - 1) = n
  /\ \A n \in 1..16 : Pops(SWAP1 + n - 1) = n + 1
<1>. USE DEF ADD, MUL, SUB, DIV, MOD, EXP, LT, GT, SLT, SGT, EQ, JUMPI,
             ADDMOD, MULMOD, ISZERO, NOT, CALLDATALOAD, POP, JUMP,
             CALLVALUE, PC, PUSH1, DUP1, DUP16, SWAP1, SWAP16, STOP, JUMPDEST,
             DupOps, SwapOps, OrTaggedOps, SDIV, SMOD, AND, OR, XOR, BYTE,
             SHL, SHR, SAR, SIGNEXTEND, BALANCE, EXTCODEHASH, EXTCODESIZE,
             BLOCKHASH
<1>1. \A op \in {ADD, MUL, SUB, DIV, MOD, EXP, LT, GT, SLT, SGT, EQ} :
        Pops(op) = 2 /\ Pushes(op) = 1
  BY DEF Pops, Pushes
<1>2. \A op \in {ADDMOD, MULMOD} : Pops(op) = 3 /\ Pushes(op) = 1
  BY DEF Pops, Pushes
<1>3. \A op \in {ISZERO, NOT, CALLDATALOAD} : Pops(op) = 1 /\ Pushes(op) = 1
  BY DEF Pops, Pushes
<1>4. Pops(POP) = 1 /\ Pops(JUMP) = 1 /\ Pops(JUMPI) = 2
  BY DEF Pops
<1>5. \A op \in {CALLVALUE, PC, PUSH1} : Pops(op) = 0 /\ Pushes(op) = 1
  BY DEF Pops, Pushes
<1>6. \A n \in 1..16 : Pops(DUP1 + n - 1) = n
  <2>. SUFFICES ASSUME NEW n \in 1..16 PROVE Pops(DUP1 + n - 1) = n
    OBVIOUS
  <2>1. DUP1 + n - 1 \in 128..143
    OBVIOUS
  <2>. QED  BY <2>1 DEF Pops
<1>7. \A n \in 1..16 : Pops(SWAP1 + n - 1) = n + 1
  <2>. SUFFICES ASSUME NEW n \in 1..16 PROVE Pops(SWAP1 + n - 1) = n + 1
    OBVIOUS
  <2>1. SWAP1 + n - 1 \in 144..159
    OBVIOUS
  <2>. QED  BY <2>1 DEF Pops
<1>8. \A op \in OrTaggedOps \cup {SIGNEXTEND} : Pops(op) = 2
  BY DEF Pops
<1>9. \A op \in {BALANCE, EXTCODEHASH, EXTCODESIZE, BLOCKHASH} : Pops(op) = 1
  BY DEF Pops
<1>. QED  BY <1>1, <1>2, <1>3, <1>4, <1>5, <1>6, <1>7, <1>8, <1>9

-----------------------------------------------------------------------------
(* Type correctness.                                                       *)

LEMMA InitTypeOK == Init => TypeOK
<1>. SUFFICES ASSUME Init PROVE TypeOK
  OBVIOUS
<1>1. jumpdests \subseteq Nat
  BY DEF Init, JumpdestSet
<1>2. /\ stack \in Seq(Word) /\ tstack \in Seq(Tag)
      /\ GlobalPcPath \in Seq(Int) /\ GlobalPcCost \in Seq(CostEntry)
  BY DEF Init
<1>3. /\ global_taint_flag \in Tag /\ global_branch_flag \in Tag
  BY DEF Init, SAFE_FLAG, Tag
<1>4. callvalue \in Inputs /\ status \in Status /\ pc \in Nat
  BY DEF Init, Status
<1>. QED
  BY <1>1, <1>2, <1>3, <1>4 DEF Init, TypeOK

(* What the interpreter loop's checks give a handler that runs.           *)
LEMMA RunsFacts ==
  ASSUME NEW op, NEW k, Runs(op, k)
  PROVE  /\ Len(stack) >= Pops(op) /\ Len(tstack) >= k
         /\ status = "running" /\ CurOp = op
BY DEF Runs, StackFits

(* The overflow-checked binary handlers (opAdd, opSub, opMul) keep the     *)
(* types when their result is a word.                                      *)
LEMMA CheckedBinaryTypeOK ==
  ASSUME TypeOK, Len(stack) >= 2, Len(tstack) >= 2,
         NEW x, NEW y, NEW res \in Word, NEW over \in BOOLEAN, NEW scan,
         CheckedBinary(x, y, res, over, scan),
         UNCHANGED <<Env, global_branch_flag, GlobalPcPath, GlobalPcCost>>
  PROVE  TypeOK'
<1>. DEFINE tainted == CALLDATA_FLAG \in Top(tstack) \cup Snd(tstack)
            t == ArithTag(tainted, tainted /\ over, scan = "match")
<1>1. t \in Tag
  BY DEF ArithTag, Tag, Flags, SAFE_FLAG
<1>2. CASE tainted /\ over /\ scan = "diverge"
  BY <1>2 DEF CheckedBinary, TypeOK, Env, Status
<1>3. CASE ~(tainted /\ over /\ scan = "diverge")
  <2>1. /\ stack' = Append(PopN(stack, 2), res)
        /\ tstack' = Append(PopN(tstack, 2), t)
        /\ global_taint_flag' = global_taint_flag \cup t
        /\ pc' = pc + 1 /\ status' = status
    BY <1>3 DEF CheckedBinary, RecordFlags
  <2>2. PopN(stack, 2) \in Seq(Word) /\ PopN(tstack, 2) \in Seq(Tag)
    BY PopNType DEF TypeOK
  <2>. QED  BY <1>1, <2>1, <2>2 DEF TypeOK, Env, Tag
<1>. QED  BY <1>2, <1>3

LEMMA OpAddTypeOK ==
  ASSUME TypeOK, OpAdd
  PROVE  TypeOK'
<1>1. Len(stack) >= 2 /\ Len(tstack) >= 2
  BY RunsFacts, PopsFacts DEF OpAdd
<1>2. Top(stack) \in Word /\ Snd(stack) \in Word
  BY <1>1, TopType, SndType DEF TypeOK
<1>. DEFINE x == Top(stack)  y == Snd(stack)  res == (x + y) % Modulus
<1>3. res \in Word
  <2>1. x + y \in Int
    BY <1>2, WidthAssumption DEF Word, Modulus
  <2>. QED  BY <2>1, ModWord
<1>4. CheckedBinary(x, y, res, AddWrapped(x, res), checkAddProtection(code, pc))
  BY DEF OpAdd
<1>5. AddWrapped(x, res) \in BOOLEAN
  BY DEF AddWrapped
<1>. QED
  BY <1>1, <1>3, <1>4, <1>5, CheckedBinaryTypeOK DEF OpAdd

(* The frame condition of every step: the environment is left alone and   *)
(* each other variable gets a value of its type.                           *)
LEMMA FrameTypeOK ==
  ASSUME TypeOK, UNCHANGED Env,
         stack' \in Seq(Word), tstack' \in Seq(Tag), pc' \in Nat,
         status' \in Status, global_taint_flag' \in Tag,
         global_branch_flag' \in Tag, GlobalPcPath' \in Seq(Int),
         GlobalPcCost' \in Seq(CostEntry)
  PROVE  TypeOK'
BY DEF TypeOK, Env

(* Pushing onto the stacks after popping k entries.                         *)
LEMMA PushType ==
  ASSUME NEW S, NEW s \in Seq(S), NEW k \in 0..Len(s), NEW v \in S
  PROVE  Append(PopN(s, k), v) \in Seq(S)
BY PopNType

(* The two operands of a handler that found them on the stack.            *)
LEMMA Operands ==
  ASSUME TypeOK, Len(stack) >= 2, Len(tstack) >= 2
  PROVE  /\ Top(stack) \in Word /\ Snd(stack) \in Word
         /\ Top(stack) \in Nat /\ Snd(stack) \in Nat
         /\ Top(stack) < Modulus /\ Snd(stack) < Modulus
         /\ Top(tstack) \in Tag /\ Snd(tstack) \in Tag
<1>1. Top(stack) \in Word /\ Snd(stack) \in Word
  BY TopType, SndType DEF TypeOK
<1>2. Top(tstack) \in Tag /\ Snd(tstack) \in Tag
  BY TopType, SndType DEF TypeOK
<1>. QED  BY <1>1, <1>2, ModulusFacts

LEMMA OpSubTypeOK ==
  ASSUME TypeOK, OpSub
  PROVE  TypeOK'
<1>1. Len(stack) >= 2 /\ Len(tstack) >= 2
  BY RunsFacts, PopsFacts DEF OpSub
<1>. DEFINE x == Top(stack)  y == Snd(stack)  res == (x - y) % Modulus
<1>2. res \in Word
  <2>1. x - y \in Int
    BY <1>1, Operands
  <2>. QED  BY <2>1, ModWord
<1>3. CheckedBinary(x, y, res, y > x, checkSubProtection(code, pc))
  BY DEF OpSub
<1>4. (y > x) \in BOOLEAN
  OBVIOUS
<1>. QED
  BY <1>1, <1>2, <1>3, <1>4, CheckedBinaryTypeOK DEF OpSub

LEMMA OpMulTypeOK ==
  ASSUME TypeOK, OpMul
  PROVE  TypeOK'
<1>1. Len(stack) >= 2 /\ Len(tstack) >= 2
  BY RunsFacts, PopsFacts DEF OpMul
<1>. DEFINE x == Top(stack)  y == Snd(stack)  prod == (x * y) % Modulus
            tainted == CALLDATA_FLAG \in Top(tstack) \cup Snd(tstack)
            res == IF tainted /\ x # 0 THEN prod \div x ELSE prod
<1>2. res \in Word
  <2>1. x * y \in Int /\ x \in Nat
    BY <1>1, Operands
  <2>2. prod \in Word
    BY <2>1, ModWord
  <2>3. prod \in Nat /\ prod < Modulus
    BY <2>2, ModulusFacts
  <2>. QED  BY <2>1, <2>2, <2>3, ModulusFacts DEF Word
<1>3. CheckedBinary(x, y, res, x # 0 /\ res # res, checkMulProtection(code, pc))
  BY DEF OpMul
<1>4. (x # 0 /\ res # res) \in BOOLEAN
  OBVIOUS
<1>. QED
  BY <1>1, <1>2, <1>3, <1>4, CheckedBinaryTypeOK DEF OpMul

(* opDiv and opMod: the result of a word by a word is a word.             *)
LEMMA DivModWord ==
  ASSUME NEW x \in Word, NEW y \in Word
  PROVE  DivRes(x, y) \in Word /\ ModRes(x, y) \in Word
BY ModulusFacts DEF DivRes, ModRes, Word

LEMMA OrTaggedTypeOK ==
  ASSUME TypeOK, NEW op, NEW v \in Word, Runs(op, 2), Pops(op) = 2,
         stack' = Append(PopN(stack, 2), v),
         tstack' = Append(PopN(tstack, 2), Top(tstack) \cup Snd(tstack)),
         pc' = pc + 1, UNCHANGED <<Env, Analysis, status>>
  PROVE  TypeOK'
<1>1. Len(stack) >= 2 /\ Len(tstack) >= 2
  BY RunsFacts
<1>2. Top(tstack) \cup Snd(tstack) \in Tag
  BY <1>1, Operands DEF Tag
<1>3. stack' \in Seq(Word) /\ tstack' \in Seq(Tag)
  BY <1>1, <1>2, PushType DEF TypeOK
<1>. QED  BY <1>3, FrameTypeOK DEF TypeOK, Analysis

LEMMA OpDivTypeOK ==
  ASSUME TypeOK, OpDiv
  PROVE  TypeOK'
<1>1. Len(stack) >= 2 /\ Len(tstack) >= 2
  BY RunsFacts, PopsFacts DEF OpDiv, OrTagged
<1>2. DivRes(Top(stack), Snd(stack)) \in Word
  BY <1>1, Operands, DivModWord
<1>. QED  BY <1>2, PopsFacts, OrTaggedTypeOK DEF OpDiv, OrTagged

LEMMA OpModTypeOK ==
  ASSUME TypeOK, OpMod
  PROVE  TypeOK'
<1>1. Len(stack) >= 2 /\ Len(tstack) >= 2
  BY RunsFacts, PopsFacts DEF OpMod, OrTagged
<1>2. ModRes(Top(stack), Snd(stack)) \in Word
  BY <1>1, Operands, DivModWord
<1>. QED  BY <1>2, PopsFacts, OrTaggedTypeOK DEF OpMod, OrTagged

(* The value-only handlers (opExp, opSlt, opSgt, opMulmod).               *)
LEMMA ValueOnlyTypeOK ==
  ASSUME TypeOK, NEW op, NEW k \in Nat, NEW v \in Word, Runs(op, 0),
         Pops(op) = k,
         stack' = Append(PopN(stack, k), v), pc' = pc + 1,
         UNCHANGED <<Env, Analysis, tstack, status>>
  PROVE  TypeOK'
<1>1. k \in 0..Len(stack)
  BY RunsFacts
<1>2. stack' \in Seq(Word)
  BY <1>1, PushType DEF TypeOK
<1>. QED  BY <1>2, FrameTypeOK DEF TypeOK, Analysis

LEMMA OpExpTypeOK ==
  ASSUME TypeOK, OpExp
  PROVE  TypeOK'
<1>1. Len(stack) >= 2
  BY RunsFacts, PopsFacts DEF OpExp, ValueOnly
<1>2. Top(stack) \in Word /\ Snd(stack) \in Word
  BY <1>1, TopType, SndType DEF TypeOK
<1>3. ExpMod(Top(stack), Snd(stack)) \in Word
  BY <1>2, ExpWord
<1>. QED  BY <1>3, PopsFacts, ValueOnlyTypeOK DEF OpExp, ValueOnly

LEMMA OpSltTypeOK ==
  ASSUME TypeOK, OpSlt
  PROVE  TypeOK'
<1>1. (IF Signed(Top(stack)) < Signed(Snd(stack)) THEN 1 ELSE 0) \in Word
  BY ModulusFacts
<1>. QED  BY <1>1, PopsFacts, ValueOnlyTypeOK DEF OpSlt, ValueOnly

LEMMA OpSgtTypeOK ==
  ASSUME TypeOK, OpSgt
  PROVE  TypeOK'
<1>1. (IF Signed(Top(stack)) > Signed(Snd(stack)) THEN 1 ELSE 0) \in Word
  BY ModulusFacts
<1>. QED  BY <1>1, PopsFacts, ValueOnlyTypeOK DEF OpSgt, ValueOnly

LEMMA OpMulmodTypeOK ==
  ASSUME TypeOK, OpMulmod
  PROVE  TypeOK'
<1>1. Len(stack) >= 3
  BY RunsFacts, PopsFacts DEF OpMulmod, ValueOnly
<1>2. /\ Top(stack) \in Word /\ Snd(stack) \in Word /\ Thd(stack) \in Word
  BY <1>1, TopType, SndType, ThdType DEF TypeOK
<1>3. (IF Thd(stack) = 0 THEN 0 ELSE (Top(stack) * Snd(stack)) % Thd(stack))
        \in Word
  BY <1>2, ModulusFacts DEF Word
<1>. QED  BY <1>3, PopsFacts, ValueOnlyTypeOK DEF OpMulmod, ValueOnly

LEMMA OpAddmodTypeOK ==
  ASSUME TypeOK, OpAddmod
  PROVE  TypeOK'
<1>1. Len(stack) >= 3 /\ Len(tstack) >= 3
  BY RunsFacts, PopsFacts DEF OpAddmod
<1>2. /\ Top(stack) \in Word /\ Snd(stack) \in Word /\ Thd(stack) \in Word
      /\ Top(tstack) \in Tag /\ Snd(tstack) \in Tag /\ Thd(tstack) \in Tag
  BY <1>1, TopType, SndType, ThdType DEF TypeOK
<1>. DEFINE x == Top(stack)  y == Snd(stack)  z == Thd(stack)
            res == (x + y) % z
            tainted == CALLDATA_FLAG \in Top(tstack) \cup Snd(tstack)
            found == tainted /\ (res < x \/ res < y)
            scan == checkAddProtection(code, pc)
            t == ArithTag(tainted, found, scan = "match")
<1>3. t \in Tag
  BY DEF ArithTag, Tag, Flags, SAFE_FLAG
<1>4. CASE z = 0
  <2>1. /\ stack' = Append(PopN(stack, 3), 0)
        /\ tstack' = Append(PopN(tstack, 3), Thd(tstack))
        /\ pc' = pc + 1 /\ UNCHANGED <<global_taint_flag, status>>
    BY <1>4 DEF OpAddmod
  <2>2. stack' \in Seq(Word) /\ tstack' \in Seq(Tag)
    BY <1>1, <1>2, <2>1, PushType, ModulusFacts DEF TypeOK
  <2>. QED  BY <2>1, <2>2, FrameTypeOK DEF OpAddmod, TypeOK
<1>5. CASE z # 0 /\ found /\ scan = "diverge"
  BY <1>5, FrameTypeOK DEF OpAddmod, TypeOK, Status
<1>6. CASE z # 0 /\ ~(found /\ scan = "diverge")
  <2>1. /\ stack' = Append(PopN(stack, 3), res)
        /\ tstack' = Append(PopN(tstack, 3), t)
        /\ global_taint_flag' = global_taint_flag \cup t
        /\ pc' = pc + 1 /\ UNCHANGED status
    BY <1>6 DEF OpAddmod, RecordFlags
  <2>2. res \in Word
    BY <1>2, <1>6, ModulusFacts DEF Word
  <2>3. stack' \in Seq(Word) /\ tstack' \in Seq(Tag)
    BY <1>1, <1>3, <2>1, <2>2, PushType DEF TypeOK
  <2>4. global_taint_flag' \in Tag
    BY <1>3, <2>1 DEF TypeOK, Tag
  <2>. QED  BY <2>1, <2>3, <2>4, FrameTypeOK DEF OpAddmod, TypeOK
<1>. QED  BY <1>4, <1>5, <1>6

(* Both cost entries of a comparison are words.                            *)
LEMMA CostWord ==
  ASSUME NEW x \in Word, NEW y \in Word
  PROVE  /\ LtCost(x, y)[1] \in Word /\ LtCost(x, y)[2] \in Word
         /\ GtCost(x, y)[1] \in Word /\ GtCost(x, y)[2] \in Word
         /\ EqCost(x, y)[1] \in Word /\ EqCost(x, y)[2] \in Word
<1>1. \A i \in Int : Abs(i % Modulus) \in Word
  BY ModWord, AbsWord
<1>2. /\ x - y \in Int /\ y - x \in Int
      /\ ((x - y) % Modulus) + 1 \in Int /\ ((y - x) % Modulus) + 1 \in Int
  BY ModulusFacts
<1>. QED  BY <1>1, <1>2, ModulusFacts DEF LtCost, GtCost, EqCost

(* The comparison handlers (opLt, opGt, opEq), given that their two cost   *)
(* entries are words.                                                      *)
LEMMA CompareTypeOK ==
  ASSUME TypeOK, NEW op, NEW c1 \in Word, NEW c2 \in Word, NEW b \in Word,
         Len(stack) >= 2, Len(tstack) >= 2,
         stack' = Append(PopN(stack, 2), b),
         GlobalPcCost' \in {GlobalPcCost,
                            GlobalPcCost \o << [pc |-> pc, d |-> c1],
                                               [pc |-> pc, d |-> c2] >>},
         global_branch_flag' \in {global_branch_flag,
                                  global_branch_flag \cup {BRANCH_FLAG}},
         tstack' = Append(PopN(tstack, 2), Top(tstack) \cup Snd(tstack)),
         pc' = pc + 1,
         UNCHANGED <<Env, global_taint_flag, GlobalPcPath, status>>
  PROVE  TypeOK'
<1>1. Top(tstack) \cup Snd(tstack) \in Tag
  BY Operands DEF Tag
<1>2. stack' \in Seq(Word) /\ tstack' \in Seq(Tag)
  BY <1>1, PushType DEF TypeOK
<1>3. [pc |-> pc, d |-> c1] \in CostEntry /\ [pc |-> pc, d |-> c2] \in CostEntry
  BY DEF TypeOK, CostEntry
<1>4. GlobalPcCost' \in Seq(CostEntry)
  <2>1. << [pc |-> pc, d |-> c1], [pc |-> pc, d |-> c2] >> \in Seq(CostEntry)
    BY <1>3
  <2>2. GlobalPcCost \o << [pc |-> pc, d |-> c1], [pc |-> pc, d |-> c2] >>
          \in Seq(CostEntry)
    BY <2>1 DEF TypeOK
  <2>. QED  BY <2>2 DEF TypeOK
<1>5. global_branch_flag' \in Tag
  BY DEF TypeOK, Tag, Flags, BRANCH_FLAG
<1>. QED  BY <1>2, <1>4, <1>5, FrameTypeOK DEF TypeOK

LEMMA OpLtTypeOK ==
  ASSUME TypeOK, OpLt
  PROVE  TypeOK'
<1>1. Len(stack) >= 2 /\ Len(tstack) >= 2
  BY RunsFacts, PopsFacts DEF OpLt, Compare
<1>2. /\ LtCost(Top(stack), Snd(stack))[1] \in Word
      /\ LtCost(Top(stack), Snd(stack))[2] \in Word
  BY <1>1, Operands, CostWord
<1>. QED  BY <1>1, <1>2, ModulusFacts, CompareTypeOK DEF OpLt, Compare

LEMMA OpGtTypeOK ==
  ASSUME TypeOK, OpGt
  PROVE  TypeOK'
<1>1. Len(stack) >= 2 /\ Len(tstack) >= 2
  BY RunsFacts, PopsFacts DEF OpGt, Compare
<1>2. /\ GtCost(Top(stack), Snd(stack))[1] \in Word
      /\ GtCost(Top(stack), Snd(stack))[2] \in Word
  BY <1>1, Operands, CostWord
<1>. QED  BY <1>1, <1>2, ModulusFacts, CompareTypeOK DEF OpGt, Compare

LEMMA OpEqTypeOK ==
  ASSUME TypeOK, OpEq
  PROVE  TypeOK'
<1>1. Len(stack) >= 2 /\ Len(tstack) >= 2
  BY RunsFacts, PopsFacts DEF OpEq, Compare
<1>2. /\ EqCost(Top(stack), Snd(stack))[1] \in Word
      /\ EqCost(Top(stack), Snd(stack))[2] \in Word
  BY <1>1, Operands, CostWord
<1>. QED  BY <1>1, <1>2, ModulusFacts, CompareTypeOK DEF OpEq, Compare

(* opIszero and opNot rewrite the top word in place.                       *)
LEMMA InPlaceTypeOK ==
  ASSUME TypeOK, NEW op, NEW v \in Word, Runs(op, 0), Pops(op) = 1,
         stack' = Append(PopN(stack, 1), v), pc' = pc + 1,
         UNCHANGED <<Env, Analysis, tstack, status>>
  PROVE  TypeOK'
<1>1. stack' \in Seq(Word)
  BY RunsFacts, PushType DEF TypeOK
<1>. QED  BY <1>1, FrameTypeOK DEF TypeOK, Analysis

LEMMA OpIszeroTypeOK ==
  ASSUME TypeOK, OpIszero
  PROVE  TypeOK'
BY ModulusFacts, PopsFacts, InPlaceTypeOK DEF OpIszero, InPlace

LEMMA OpNotTypeOK ==
  ASSUME TypeOK, OpNot
  PROVE  TypeOK'
<1>1. Len(stack) >= 1
  BY RunsFacts, PopsFacts DEF OpNot, InPlace
<1>2. Top(stack) \in Word
  BY <1>1, TopType DEF TypeOK
<1>3. Modulus - 1 - Top(stack) \in Word
  BY <1>2, ModulusFacts DEF Word
<1>. QED  BY <1>3, PopsFacts, InPlaceTypeOK DEF OpNot, InPlace

(* opCallValue, opPc and opPush1 push a word with a tag.                   *)
LEMMA PushTaggedTypeOK ==
  ASSUME TypeOK, NEW op, NEW v \in Word, NEW t \in Tag, NEW next \in Nat,
         PushTagged(op, v, t, next)
  PROVE  TypeOK'
<1>1. stack' \in Seq(Word) /\ tstack' \in Seq(Tag)
  BY DEF PushTagged, TypeOK
<1>. QED  BY <1>1, FrameTypeOK DEF PushTagged, TypeOK, Analysis

LEMMA OpCallValueTypeOK ==
  ASSUME TypeOK, OpCallValue
  PROVE  TypeOK'
<1>1. callvalue \in Word /\ {CALLDATA_FLAG} \in Tag
  BY InputsAssumption DEF TypeOK, Tag, Flags
<1>2. PushTagged(CALLVALUE, callvalue, {CALLDATA_FLAG}, pc + 1)
  BY DEF OpCallValue
<1>3. pc + 1 \in Nat /\ pc + 2 \in Nat
  BY DEF TypeOK
<1>. QED  BY <1>1, <1>2, <1>3, PushTaggedTypeOK

LEMMA OpPcTypeOK ==
  ASSUME TypeOK, OpPc
  PROVE  TypeOK'
<1>1. pc % Modulus \in Word /\ SAFE_FLAG \in Tag
  BY ModWord DEF TypeOK, SAFE_FLAG, Tag
<1>2. PushTagged(PC, pc % Modulus, SAFE_FLAG, pc + 1)
  BY DEF OpPc
<1>3. pc + 1 \in Nat /\ pc + 2 \in Nat
  BY DEF TypeOK
<1>. QED  BY <1>1, <1>2, <1>3, PushTaggedTypeOK

LEMMA OpPush1TypeOK ==
  ASSUME TypeOK, OpPush1
  PROVE  TypeOK'
<1>1. GetOp(code, pc + 1) \in Word /\ SAFE_FLAG \in Tag
  BY GetOpWord DEF TypeOK, SAFE_FLAG, Tag
<1>2. PushTagged(PUSH1, GetOp(code, pc + 1), SAFE_FLAG, pc + 2)
  BY DEF OpPush1
<1>3. pc + 1 \in Nat /\ pc + 2 \in Nat
  BY DEF TypeOK
<1>. QED  BY <1>1, <1>2, <1>3, PushTaggedTypeOK

LEMMA OpCallDataLoadTypeOK ==
  ASSUME TypeOK, OpCallDataLoad
  PROVE  TypeOK'
<1>1. Len(stack) >= 1 /\ Len(tstack) >= 1
  BY RunsFacts, PopsFacts DEF OpCallDataLoad
<1>2. Top(stack) \in Nat
  BY <1>1, TopType, ModulusFacts DEF TypeOK
<1>3. (IF Top(stack) < CDSize THEN calldata[Top(stack)] ELSE 0) \in Word
  <2>1. CASE Top(stack) < CDSize
    <3>1. calldata[Top(stack)] \in Inputs
      BY <1>2, <2>1, CDSizeAssumption DEF TypeOK
    <3>. QED  BY <2>1, <3>1, InputsAssumption
  <2>. QED  BY <2>1, ModulusFacts
<1>4. (IF pc = SelectorPc THEN SAFE_FLAG ELSE {CALLDATA_FLAG}) \in Tag
  BY DEF SAFE_FLAG, Tag, Flags
<1>5. stack' \in Seq(Word) /\ tstack' \in Seq(Tag)
  BY <1>1, <1>3, <1>4, PushType DEF OpCallDataLoad, TypeOK
<1>. QED  BY <1>5, FrameTypeOK DEF OpCallDataLoad, TypeOK, Analysis

LEMMA OpPopTypeOK ==
  ASSUME TypeOK, OpPop
  PROVE  TypeOK'
<1>1. Len(stack) >= 1 /\ Len(tstack) >= 1
  BY RunsFacts, PopsFacts DEF OpPop
<1>2. stack' \in Seq(Word) /\ tstack' \in Seq(Tag)
  BY <1>1, PopNType DEF OpPop, TypeOK
<1>. QED  BY <1>2, FrameTypeOK DEF OpPop, TypeOK, Analysis

LEMMA OpDupTypeOK ==
  ASSUME TypeOK, NEW n \in 1..16, OpDup(n)
  PROVE  TypeOK'
<1>1. Len(stack) >= n /\ Len(tstack) >= n
  BY RunsFacts, PopsFacts DEF OpDup
<1>2. stack[Len(stack) - n + 1] \in Word /\ tstack[Len(tstack) - n + 1] \in Tag
  BY <1>1 DEF TypeOK
<1>3. stack' \in Seq(Word) /\ tstack' \in Seq(Tag)
  BY <1>2 DEF OpDup, TypeOK
<1>. QED  BY <1>3, FrameTypeOK DEF OpDup, TypeOK, Analysis

LEMMA OpSwapTypeOK ==
  ASSUME TypeOK, NEW n \in 1..16, OpSwap(n)
  PROVE  TypeOK'
<1>1. Len(stack) >= n + 1 /\ Len(tstack) >= n + 1
  BY RunsFacts, PopsFacts DEF OpSwap
<1>2. stack' \in Seq(Word) /\ tstack' \in Seq(Tag)
  BY <1>1, SwapTopType DEF OpSwap, TypeOK
<1>. QED  BY <1>2, FrameTypeOK DEF OpSwap, TypeOK, Analysis

LEMMA OpJumpTypeOK ==
  ASSUME TypeOK, OpJump
  PROVE  TypeOK'
<1>1. Len(stack) >= 1 /\ Len(tstack) >= 1
  BY RunsFacts, PopsFacts DEF OpJump
<1>2. Top(stack) \in Nat
  BY <1>1, TopType, ModulusFacts DEF TypeOK
<1>3. PopN(stack, 1) \in Seq(Word) /\ PopN(tstack, 1) \in Seq(Tag)
  BY <1>1, PopNType DEF TypeOK
<1>4. /\ stack' \in Seq(Word) /\ tstack' \in Seq(Tag)
      /\ pc' \in Nat /\ status' \in Status
  BY <1>2, <1>3 DEF OpJump, TypeOK, Status
<1>. QED  BY <1>4, FrameTypeOK DEF OpJump, TypeOK, Analysis

LEMMA OpJumpiTypeOK ==
  ASSUME TypeOK, OpJumpi
  PROVE  TypeOK'
<1>1. Len(stack) >= 2 /\ Len(tstack) >= 2
  BY RunsFacts, PopsFacts DEF OpJumpi
<1>2. Top(stack) \in Nat
  BY <1>1, Operands
<1>3. PopN(stack, 2) \in Seq(Word) /\ PopN(tstack, 2) \in Seq(Tag)
  BY <1>1, PopNType DEF TypeOK
<1>4. GlobalPcPath \o <<pc, Top(stack) - 1>> \in Seq(Int)
  BY <1>2 DEF TypeOK
<1>. DEFINE Goal == /\ stack' \in Seq(Word) /\ tstack' \in Seq(Tag)
                   /\ pc' \in Nat /\ status' \in Status
                   /\ GlobalPcPath' \in Seq(Int)
<1>5. Goal
  <2>1. CASE AbortRequested
    BY <2>1 DEF OpJumpi, TypeOK, Status
  <2>2. CASE ~AbortRequested /\ Snd(stack) = 0
    BY <1>3, <2>2 DEF OpJumpi, TypeOK
  <2>3. CASE ~AbortRequested /\ Snd(stack) # 0 /\ ValidJumpdest(Top(stack))
    BY <1>2, <1>3, <1>4, <2>3 DEF OpJumpi, JumpiTaken, TypeOK
  <2>4. CASE ~AbortRequested /\ Snd(stack) # 0 /\ ~ValidJumpdest(Top(stack))
    BY <1>3, <2>4 DEF OpJumpi, JumpiTaken, TypeOK, Status
  <2>. QED  BY <2>1, <2>2, <2>3, <2>4
<1>. QED  BY <1>5, FrameTypeOK DEF OpJumpi, TypeOK

(* The handlers added to opDiv's family: SDIV, SMOD, the bitwise, byte   *)
(* and shift opcodes.                                                      *)
BitStep ==
  \/ OpSdiv \/ OpSmod \/ OpAnd \/ OpOr \/ OpXor \/ OpByte \/ OpShl \/ OpShr
  \/ OpSar

(* The handlers that push a host value, a size or immediate bytes.         *)
HostStep ==
  \/ OpAddress \/ OpOrigin \/ OpCaller \/ OpGasprice \/ OpCoinbase
  \/ OpTimestamp \/ OpNumber \/ OpDifficulty \/ OpGasLimit \/ OpGas
  \/ OpCallDataSize \/ OpCodeSize \/ OpReturnDataSize
  \/ \E n \in 2..32 : OpPush(n)

(* The handlers that replace the top value by what the host answers.       *)
LoadStep == OpBalance \/ OpExtCodeHash \/ OpExtCodeSize \/ OpBlockhash

LEMMA BitStepTypeOK ==
  ASSUME TypeOK, BitStep
  PROVE  TypeOK'
<1>1. \A op \in OrTaggedOps : Pops(op) = 2
  BY PopsFacts
<1>2. CASE OpSdiv
  <2>1. Runs(SDIV, 2) /\ Pops(SDIV) = 2
    BY <1>1, <1>2 DEF OpSdiv, OrTagged, OrTaggedOps, SDIV
  <2>2. SDivWord(Top(stack), Snd(stack)) \in Word
    BY <2>1, RunsFacts, Operands, SignedDivWord
  <2>. QED  BY <1>2, <2>1, <2>2, OrTaggedTypeOK DEF OpSdiv, OrTagged
<1>3. CASE OpSmod
  <2>1. Runs(SMOD, 2) /\ Pops(SMOD) = 2
    BY <1>1, <1>3 DEF OpSmod, OrTagged, OrTaggedOps, SMOD
  <2>2. SModWord(Top(stack), Snd(stack)) \in Word
    BY <2>1, RunsFacts, Operands, SignedDivWord
  <2>. QED  BY <1>3, <2>1, <2>2, OrTaggedTypeOK DEF OpSmod, OrTagged
<1>4. CASE OpAnd
  <2>1. Runs(AND, 2) /\ Pops(AND) = 2
    BY <1>1, <1>4 DEF OpAnd, OrTagged, OrTaggedOps, AND
  <2>2. AndWord(Top(stack), Snd(stack)) \in Word
    BY <2>1, RunsFacts, Operands, BitWords
  <2>. QED  BY <1>4, <2>1, <2>2, OrTaggedTypeOK DEF OpAnd, OrTagged
<1>5. CASE OpOr
  <2>1. Runs(OR, 2) /\ Pops(OR) = 2
    BY <1>1, <1>5 DEF OpOr, OrTagged, OrTaggedOps, OR
  <2>2. OrWord(Top(stack), Snd(stack)) \in Word
    BY <2>1, RunsFacts, Operands, BitWords
  <2>. QED  BY <1>5, <2>1, <2>2, OrTaggedTypeOK DEF OpOr, OrTagged
<1>6. CASE OpXor
  <2>1. Runs(XOR, 2) /\ Pops(XOR) = 2
    BY <1>1, <1>6 DEF OpXor, OrTagged, OrTaggedOps, XOR
  <2>2. XorWord(Top(stack), Snd(stack)) \in Word
    BY <2>1, RunsFacts, Operands, BitWords
  <2>. QED  BY <1>6, <2>1, <2>2, OrTaggedTypeOK DEF OpXor, OrTagged
<1>7. CASE OpByte
  <2>1. Runs(BYTE, 2) /\ Pops(BYTE) = 2
    BY <1>1, <1>7 DEF OpByte, OrTagged, OrTaggedOps, BYTE
  <2>2. ByteWord(Top(stack), Snd(stack)) \in Word
    BY <2>1, RunsFacts, Operands, BitWords
  <2>. QED  BY <1>7, <2>1, <2>2, OrTaggedTypeOK DEF OpByte, OrTagged
<1>8. CASE OpShl
  <2>1. Runs(SHL, 2) /\ Pops(SHL) = 2
    BY <1>1, <1>8 DEF OpShl, OrTagged, OrTaggedOps, SHL
  <2>2. ShlWord(Top(stack), Snd(stack)) \in Word
    BY <2>1, RunsFacts, Operands, BitWords
  <2>. QED  BY <1>8, <2>1, <2>2, OrTaggedTypeOK DEF OpShl, OrTagged
<1>9. CASE OpShr
  <2>1. Runs(SHR, 2) /\ Pops(SHR) = 2
    BY <1>1, <1>9 DEF OpShr, OrTagged, OrTaggedOps, SHR
  <2>2. ShrWord(Top(stack), Snd(stack)) \in Word
    BY <2>1, RunsFacts, Operands, BitWords
  <2>. QED  BY <1>9, <2>1, <2>2, OrTaggedTypeOK DEF OpShr, OrTagged
<1>10. CASE OpSar
  <2>1. Runs(SAR, 2) /\ Pops(SAR) = 2
    BY <1>1, <1>10 DEF OpSar, OrTagged, OrTaggedOps, SAR
  <2>2. SarWord(Top(stack), Snd(stack)) \in Word
    BY <2>1, RunsFacts, Operands, BitWords
  <2>. QED  BY <1>10, <2>1, <2>2, OrTaggedTypeOK DEF OpSar, OrTagged
<1>. QED  BY <1>2, <1>3, <1>4, <1>5, <1>6, <1>7, <1>8, <1>9, <1>10 DEF BitStep

LEMMA OpSignExtendTypeOK ==
  ASSUME TypeOK, OpSignExtend
  PROVE  TypeOK'
<1>1. Len(stack) >= 2
  BY RunsFacts, PopsFacts DEF OpSignExtend, ValueOnly
<1>2. SignExtendWord(Top(stack), Snd(stack)) \in Word
  <2>1. Top(stack) \in Word /\ Snd(stack) \in Word
    BY <1>1, TopType, SndType DEF TypeOK
  <2>. QED  BY <2>1, BitWords
<1>3. Pops(SIGNEXTEND) = 2
  BY PopsFacts
<1>. QED  BY <1>2, <1>3, ValueOnlyTypeOK DEF OpSignExtend, ValueOnly

(* opExtCodeSize and opBlockhash replace the top entry of both stacks.     *)
LEMMA RetagTypeOK ==
  ASSUME TypeOK, NEW op, NEW v \in Word, NEW t \in Tag, Pops(op) = 1,
         Retag(op, v, t)
  PROVE  TypeOK'
<1>1. Len(stack) >= 1 /\ Len(tstack) >= 1
  BY RunsFacts DEF Retag
<1>2. stack' \in Seq(Word) /\ tstack' \in Seq(Tag)
  BY <1>1, PushType DEF Retag, TypeOK
<1>. QED  BY <1>2, FrameTypeOK DEF Retag, TypeOK, Analysis

LEMMA LoadTypeOK ==
  ASSUME TypeOK, LoadStep
  PROVE  TypeOK'
<1>1. Inputs \subseteq Word /\ SAFE_FLAG \in Tag
  BY InputsAssumption DEF SAFE_FLAG, Tag
<1>2. Pops(BALANCE) = 1 /\ Pops(EXTCODEHASH) = 1
      /\ Pops(EXTCODESIZE) = 1 /\ Pops(BLOCKHASH) = 1
  BY PopsFacts
<1>3. CASE OpBalance
  <2>1. PICK v \in Inputs : InPlace(BALANCE, v)
    BY <1>3 DEF OpBalance
  <2>. QED  BY <1>1, <1>2, <2>1, InPlaceTypeOK DEF InPlace
<1>4. CASE OpExtCodeHash
  <2>1. PICK v \in Inputs : InPlace(EXTCODEHASH, v)
    BY <1>4 DEF OpExtCodeHash
  <2>. QED  BY <1>1, <1>2, <2>1, InPlaceTypeOK DEF InPlace
<1>5. CASE OpExtCodeSize
  <2>1. PICK v \in Inputs : Retag(EXTCODESIZE, v, SAFE_FLAG)
    BY <1>5 DEF OpExtCodeSize
  <2>. QED  BY <1>1, <1>2, <2>1, RetagTypeOK
<1>6. CASE OpBlockhash
  <2>1. Len(tstack) >= 1
    BY <1>6, RunsFacts DEF OpBlockhash
  <2>2. Top(tstack) \in Tag
    BY <2>1, TopType DEF TypeOK
  <2>3. PICK upper \in BlockNumbers, h \in Inputs :
          IF BlockhashWindow(Top(stack), upper)
          THEN Retag(BLOCKHASH, h, Top(tstack))
          ELSE Retag(BLOCKHASH, 0, SAFE_FLAG)
    BY <1>6 DEF OpBlockhash
  <2>4. CASE BlockhashWindow(Top(stack), upper)
    BY <1>1, <1>2, <2>2, <2>3, <2>4, RetagTypeOK
  <2>5. CASE ~BlockhashWindow(Top(stack), upper)
    BY <1>1, <1>2, <2>3, <2>5, ModulusFacts, RetagTypeOK
  <2>. QED  BY <2>4, <2>5
<1>. QED  BY <1>3, <1>4, <1>5, <1>6 DEF LoadStep

LEMMA HostTypeOK ==
  ASSUME TypeOK, HostStep
  PROVE  TypeOK'
<1>1. Inputs \subseteq Word /\ SAFE_FLAG \in Tag /\ pc + 1 \in Nat
  BY InputsAssumption DEF SAFE_FLAG, Tag, TypeOK
<1>2. ASSUME NEW op, HostPush(op)
      PROVE  TypeOK'
  <2>1. PICK v \in Inputs : PushTagged(op, v, SAFE_FLAG, pc + 1)
    BY <1>2 DEF HostPush
  <2>. QED  BY <1>1, <2>1, PushTaggedTypeOK
<1>3. CASE \/ OpAddress \/ OpOrigin \/ OpCaller \/ OpGasprice \/ OpCoinbase
           \/ OpTimestamp \/ OpNumber \/ OpDifficulty \/ OpGasLimit \/ OpGas
  BY <1>2, <1>3
  DEF OpAddress, OpOrigin, OpCaller, OpGasprice, OpCoinbase, OpTimestamp,
      OpNumber, OpDifficulty, OpGasLimit, OpGas
<1>4. CASE OpCallDataSize \/ OpCodeSize \/ OpReturnDataSize
  <2>1. CDSize % Modulus \in Word
    BY CDSizeAssumption, ModWord
  <2>2. Len(code) % Modulus \in Word
    <3>1. Len(code) \in Nat
      BY ProgramsAssumption DEF TypeOK
    <3>. QED  BY <3>1, ModWord
  <2>3. 0 \in Word
    BY ModulusFacts
  <2>. QED
    BY <1>1, <1>4, <2>1, <2>2, <2>3, PushTaggedTypeOK
    DEF OpCallDataSize, OpCodeSize, OpReturnDataSize
<1>5. CASE \E n \in 2..32 : OpPush(n)
  <2>1. PICK n \in 2..32 : OpPush(n)
    BY <1>5
  <2>2. PushValue(code, pc, n) \in Word
    BY PushValueWord
  <2>3. pc + n + 1 \in Nat
    BY DEF TypeOK
  <2>. QED  BY <1>1, <2>1, <2>2, <2>3, PushTaggedTypeOK DEF OpPush
<1>. QED  BY <1>3, <1>4, <1>5 DEF HostStep

(* The steps that change at most pc and status.                            *)
LEMMA ControlTypeOK ==
  ASSUME TypeOK, OpJumpdest \/ OpStop \/ InvalidOpcode \/ StackFault
  PROVE  TypeOK'
BY FrameTypeOK
DEF OpJumpdest, OpStop, InvalidOpcode, StackFault, TypeOK, Analysis, Status

LEMMA AbortTypeOK ==
  ASSUME TypeOK, Abort \/ Halted \/ UNCHANGED vars
  PROVE  TypeOK'
BY DEF Abort, Halted, vars, TypeOK, Analysis

(* Every state of the interpreter frame is well typed: stacks of words and *)
(* tags, a natural pc, well-formed jump and cost records (opJumpi,         *)
(* opLt/opGt/opEq), for every word width, program and input set.           *)
THEOREM TypeCorrect == Spec => []TypeOK
<1>1. Init => TypeOK
  BY InitTypeOK
<1>2. TypeOK /\ [Next]_vars => TypeOK'
  <2>. SUFFICES ASSUME TypeOK, [Next]_vars PROVE TypeOK'
    OBVIOUS
  <2>1. CASE OpAdd       BY <2>1, OpAddTypeOK
  <2>2. CASE OpSub       BY <2>2, OpSubTypeOK
  <2>3. CASE OpMul       BY <2>3, OpMulTypeOK
  <2>4. CASE OpDiv       BY <2>4, OpDivTypeOK
  <2>5. CASE OpMod       BY <2>5, OpModTypeOK
  <2>6. CASE OpAddmod    BY <2>6, OpAddmodTypeOK
  <2>7. CASE OpMulmod    BY <2>7, OpMulmodTypeOK
  <2>8. CASE OpExp       BY <2>8, OpExpTypeOK
  <2>9. CASE OpLt        BY <2>9, OpLtTypeOK
  <2>10. CASE OpGt       BY <2>10, OpGtTypeOK
  <2>11. CASE OpSlt      BY <2>11, OpSltTypeOK
  <2>12. CASE OpSgt      BY <2>12, OpSgtTypeOK
  <2>13. CASE OpEq       BY <2>13, OpEqTypeOK
  <2>14. CASE OpIszero   BY <2>14, OpIszeroTypeOK
  <2>15. CASE OpNot      BY <2>15, OpNotTypeOK
  <2>16. CASE OpCallValue     BY <2>16, OpCallValueTypeOK
  <2>17. CASE OpCallDataLoad  BY <2>17, OpCallDataLoadTypeOK
  <2>18. CASE OpPop      BY <2>18, OpPopTypeOK
  <2>19. CASE OpPc       BY <2>19, OpPcTypeOK
  <2>20. CASE OpPush1    BY <2>20, OpPush1TypeOK
  <2>21. CASE \E n \in 1..16 : OpDup(n)   BY <2>21, OpDupTypeOK
  <2>22. CASE \E n \in 1..16 : OpSwap(n)  BY <2>22, OpSwapTypeOK
  <2>23. CASE OpJump     BY <2>23, OpJumpTypeOK
  <2>24. CASE OpJumpi    BY <2>24, OpJumpiTypeOK
  <2>25. CASE OpJumpdest \/ OpStop \/ InvalidOpcode \/ StackFault
    BY <2>25, ControlTypeOK
  <2>26. CASE Abort \/ Halted \/ UNCHANGED vars
    BY <2>26, AbortTypeOK
  <2>27. CASE BitStep       BY <2>27, BitStepTypeOK
  <2>28. CASE OpSignExtend  BY <2>28, OpSignExtendTypeOK
  <2>29. CASE LoadStep      BY <2>29, LoadTypeOK
  <2>30. CASE HostStep      BY <2>30, HostTypeOK
  <2>. QED
    BY <2>1, <2>2, <2>3, <2>4, <2>5, <2>6, <2>7, <2>8, <2>9, <2>10, <2>11,
       <2>12, <2>13, <2>14, <2>15, <2>16, <2>17, <2>18, <2>19, <2>20, <2>21,
       <2>22, <2>23, <2>24, <2>25, <2>26, <2>27, <2>28, <2>29, <2>30
    DEF Next, Step, BitStep, LoadStep, HostStep
<1>. QED  BY <1>1, <1>2, PTL DEF Spec

-----------------------------------------------------------------------------
(* The findings of the taint entries reach global_taint_flag.              *)

(* Every finding bit of an entry of s is in G.                             *)
Recorded(s, G) == \A i \in 1..Len(s) : s[i] \cap FindingFlags \subseteq G

LEMMA RecordedMono ==
  ASSUME NEW s \in Seq(Tag), NEW G, NEW H, Recorded(s, G), G \subseteq H
  PROVE  Recorded(s, H)
BY DEF Recorded

LEMMA RecordedPop ==
  ASSUME NEW s \in Seq(Tag), NEW G, NEW k \in 0..Len(s), Recorded(s, G)
  PROVE  Recorded(PopN(s, k), G)
BY DEF Recorded, PopN

LEMMA RecordedPush ==
  ASSUME NEW s \in Seq(Tag), NEW G, NEW k \in 0..Len(s), NEW t,
         Recorded(s, G), t \cap FindingFlags \subseteq G
  PROVE  Recorded(Append(PopN(s, k), t), G)
BY DEF Recorded, PopN

LEMMA RecordedSwap ==
  ASSUME NEW s \in Seq(Tag), NEW G, NEW i \in 1..Len(s), Recorded(s, G)
  PROVE  Recorded(SwapTop(s, i), G)
BY DEF Recorded, SwapTop

LEMMA RecordedEntry ==
  ASSUME NEW s \in Seq(Tag), NEW G, NEW i \in 1..Len(s), Recorded(s, G)
  PROVE  s[i] \cap FindingFlags \subseteq G
BY DEF Recorded

(* FindingsRecorded, restated with Recorded.                               *)
LEMMA FindingsRecordedDef ==
  FindingsRecorded <=>
    /\ Recorded(tstack, global_taint_flag)
    /\ global_taint_flag \cap OverflowClass # {}
         => POTENTIAL_OVERFLOW_FLAG \in global_taint_flag
BY DEF FindingsRecorded, Recorded

(* A step that leaves the taint stack and global_taint_flag alone.         *)
LEMMA UnchangedRecorded ==
  ASSUME FindingsRecorded, UNCHANGED <<tstack, global_taint_flag>>
  PROVE  FindingsRecorded'
BY DEF FindingsRecorded

(* A step that pops k taint entries and pushes t whose findings are        *)
(* already recorded, leaving global_taint_flag alone.                      *)
LEMMA PushRecorded ==
  ASSUME TypeOK, FindingsRecorded, NEW k \in 0..Len(tstack), NEW t,
         t \cap FindingFlags \subseteq global_taint_flag,
         tstack' = Append(PopN(tstack, k), t),
         UNCHANGED global_taint_flag
  PROVE  FindingsRecorded'
<1>1. Recorded(tstack, global_taint_flag)
  BY FindingsRecordedDef
<1>2. Recorded(Append(PopN(tstack, k), t), global_taint_flag)
  BY <1>1, RecordedPush DEF TypeOK
<1>. QED  BY <1>2 DEF FindingsRecorded, Recorded

(* The overflow-checked handlers OR their result tag into                  *)
(* global_taint_flag as they push it.                                      *)
LEMMA FlagPushRecorded ==
  ASSUME TypeOK, FindingsRecorded, NEW k \in 0..Len(tstack),
         NEW a \in BOOLEAN, NEW b \in BOOLEAN, NEW c \in BOOLEAN,
         tstack' = Append(PopN(tstack, k), ArithTag(a, b, c)),
         global_taint_flag' = global_taint_flag \cup ArithTag(a, b, c)
  PROVE  FindingsRecorded'
<1>. DEFINE t == ArithTag(a, b, c)
<1>1. t \cap OverflowClass # {} => POTENTIAL_OVERFLOW_FLAG \in t
  BY DEF ArithTag, OverflowClass, SAFE_FLAG, POTENTIAL_OVERFLOW_FLAG,
         PROTECTED_OVERFLOW_FLAG, OVERFLOW_FLAG
<1>2. Recorded(tstack, global_taint_flag')
  BY RecordedMono, FindingsRecordedDef DEF TypeOK
<1>3. Recorded(tstack', global_taint_flag')
  BY <1>2, RecordedPush DEF TypeOK
<1>4. global_taint_flag' \cap OverflowClass # {}
        => POTENTIAL_OVERFLOW_FLAG \in global_taint_flag'
  BY <1>1 DEF FindingsRecorded
<1>. QED  BY <1>3, <1>4 DEF FindingsRecorded, Recorded

LEMMA CheckedBinaryRecorded ==
  ASSUME TypeOK, FindingsRecorded, Len(tstack) >= 2,
         NEW x, NEW y, NEW res, NEW over \in BOOLEAN, NEW scan,
         CheckedBinary(x, y, res, over, scan)
  PROVE  FindingsRecorded'
<1>. DEFINE tainted == CALLDATA_FLAG \in Top(tstack) \cup Snd(tstack)
<1>1. CASE tainted /\ over /\ scan = "diverge"
  BY <1>1, UnchangedRecorded DEF CheckedBinary
<1>2. CASE ~(tainted /\ over /\ scan = "diverge")
  <2>1. /\ tstack' = Append(PopN(tstack, 2),
                            ArithTag(tainted, tainted /\ over, scan = "match"))
        /\ global_taint_flag' =
             global_taint_flag \cup ArithTag(tainted, tainted /\ over, scan = "match")
    BY <1>2 DEF CheckedBinary, RecordFlags
  <2>2. /\ tainted \in BOOLEAN /\ (tainted /\ over) \in BOOLEAN
        /\ (scan = "match") \in BOOLEAN
    OBVIOUS
  <2>3. 2 \in 0..Len(tstack)
    BY DEF TypeOK
  <2>. QED  BY <2>1, <2>2, <2>3, FlagPushRecorded
<1>. QED  BY <1>1, <1>2

LEMMA OpAddRecorded ==
  ASSUME TypeOK, FindingsRecorded, OpAdd
  PROVE  FindingsRecorded'
<1>1. Len(tstack) >= 2
  BY RunsFacts DEF OpAdd
<1>. QED  BY <1>1, CheckedBinaryRecorded DEF OpAdd, AddWrapped

LEMMA OpSubRecorded ==
  ASSUME TypeOK, FindingsRecorded, OpSub
  PROVE  FindingsRecorded'
<1>1. Len(tstack) >= 2
  BY RunsFacts DEF OpSub
<1>2. (Snd(stack) > Top(stack)) \in BOOLEAN
  OBVIOUS
<1>. QED  BY <1>1, <1>2, CheckedBinaryRecorded DEF OpSub

LEMMA OpMulRecorded ==
  ASSUME TypeOK, FindingsRecorded, OpMul
  PROVE  FindingsRecorded'
<1>1. Len(tstack) >= 2
  BY RunsFacts DEF OpMul
<1>. QED  BY <1>1, CheckedBinaryRecorded DEF OpMul

LEMMA OpAddmodRecorded ==
  ASSUME TypeOK, FindingsRecorded, OpAddmod
  PROVE  FindingsRecorded'
<1>1. Len(tstack) >= 3
  BY RunsFacts DEF OpAddmod
<1>. DEFINE x == Top(stack)  y == Snd(stack)  z == Thd(stack)
            res == (x + y) % z
            tainted == CALLDATA_FLAG \in Top(tstack) \cup Snd(tstack)
            found == tainted /\ (res < x \/ res < y)
            scan == checkAddProtection(code, pc)
<1>2. CASE z = 0
  <2>1. Thd(tstack) \cap FindingFlags \subseteq global_taint_flag
    BY <1>1, RecordedEntry, FindingsRecordedDef DEF TypeOK, Thd
  <2>. QED  BY <1>1, <1>2, <2>1, PushRecorded DEF OpAddmod
<1>3. CASE z # 0 /\ found /\ scan = "diverge"
  BY <1>3, UnchangedRecorded DEF OpAddmod
<1>4. CASE z # 0 /\ ~(found /\ scan = "diverge")
  <2>1. /\ tstack' = Append(PopN(tstack, 3), ArithTag(tainted, found, scan = "match"))
        /\ global_taint_flag' =
             global_taint_flag \cup ArithTag(tainted, found, scan = "match")
    BY <1>4 DEF OpAddmod, RecordFlags
  <2>2. /\ tainted \in BOOLEAN /\ found \in BOOLEAN
        /\ (scan = "match") \in BOOLEAN
    OBVIOUS
  <2>3. 3 \in 0..Len(tstack)
    BY <1>1 DEF TypeOK
  <2>. QED  BY <2>1, <2>2, <2>3, FlagPushRecorded
<1>. QED  BY <1>2, <1>3, <1>4

(* The two operands' entries of a binary handler are recorded, and so is   *)
(* their union (opDiv, opMod, opLt, opGt, opEq).                           *)
LEMMA UnionRecorded ==
  ASSUME TypeOK, FindingsRecorded, Len(tstack) >= 2
  PROVE  (Top(tstack) \cup Snd(tstack)) \cap FindingFlags \subseteq global_taint_flag
<1>1. Recorded(tstack, global_taint_flag) /\ tstack \in Seq(Tag)
  BY FindingsRecordedDef DEF TypeOK
<1>2. Len(tstack) \in 1..Len(tstack) /\ Len(tstack) - 1 \in 1..Len(tstack)
  BY DEF TypeOK
<1>3. tstack[Len(tstack)] \cap FindingFlags \subseteq global_taint_flag
  BY <1>1, <1>2, RecordedEntry
<1>4. tstack[Len(tstack) - 1] \cap FindingFlags \subseteq global_taint_flag
  BY <1>1, <1>2, RecordedEntry
<1>. QED  BY <1>3, <1>4 DEF Top, Snd

LEMMA OpDivModRecorded ==
  ASSUME TypeOK, FindingsRecorded, OpDiv \/ OpMod
  PROVE  FindingsRecorded'
<1>1. Len(tstack) >= 2
  BY RunsFacts DEF OpDiv, OpMod, OrTagged
<1>2. /\ tstack' = Append(PopN(tstack, 2), Top(tstack) \cup Snd(tstack))
      /\ UNCHANGED global_taint_flag
  BY DEF OpDiv, OpMod, OrTagged, Analysis
<1>3. 2 \in 0..Len(tstack)
  BY <1>1 DEF TypeOK
<1>. QED  BY <1>1, <1>2, <1>3, UnionRecorded, PushRecorded

(* SDIV, SMOD and the bitwise, byte and shift handlers OR the operands'   *)
(* tags as opDiv does.                                                     *)
LEMMA BitStepRecorded ==
  ASSUME TypeOK, FindingsRecorded, BitStep
  PROVE  FindingsRecorded'
<1>1. Len(tstack) >= 2
  BY RunsFacts
  DEF BitStep, OpSdiv, OpSmod, OpAnd, OpOr, OpXor, OpByte, OpShl, OpShr,
      OpSar, OrTagged
<1>2. /\ tstack' = Append(PopN(tstack, 2), Top(tstack) \cup Snd(tstack))
      /\ UNCHANGED global_taint_flag
  BY DEF BitStep, OpSdiv, OpSmod, OpAnd, OpOr, OpXor, OpByte, OpShl, OpShr,
         OpSar, OrTagged, Analysis
<1>3. 2 \in 0..Len(tstack)
  BY <1>1 DEF TypeOK
<1>4. (Top(tstack) \cup Snd(tstack)) \cap FindingFlags \subseteq global_taint_flag
  BY <1>1, UnionRecorded
<1>. QED  BY <1>2, <1>3, <1>4, PushRecorded

(* A pushed SAFE tag carries no finding.                                   *)
LEMMA SafeTagRecorded ==
  SAFE_FLAG \cap FindingFlags \subseteq global_taint_flag
BY DEF SAFE_FLAG, FindingFlags, POTENTIAL_OVERFLOW_FLAG,
       PROTECTED_OVERFLOW_FLAG, OVERFLOW_FLAG

(* opBalance, opExtCodeHash, opExtCodeSize and opBlockhash: the retagged   *)
(* entry is SAFE or the popped entry's own tag.                            *)
LEMMA LoadRecorded ==
  ASSUME TypeOK, FindingsRecorded, LoadStep
  PROVE  FindingsRecorded'
<1>1. ASSUME NEW op, NEW v, NEW t, t \cap FindingFlags \subseteq global_taint_flag,
             Retag(op, v, t)
      PROVE  FindingsRecorded'
  <2>1. 1 \in 0..Len(tstack)
    BY <1>1, RunsFacts DEF Retag, TypeOK
  <2>. QED  BY <1>1, <2>1, PushRecorded DEF Retag, Analysis
<1>2. CASE OpBalance \/ OpExtCodeHash
  BY <1>2, UnchangedRecorded DEF OpBalance, OpExtCodeHash, InPlace, Analysis
<1>3. CASE OpExtCodeSize
  BY <1>1, <1>3, SafeTagRecorded DEF OpExtCodeSize
<1>4. CASE OpBlockhash
  <2>1. Len(tstack) >= 1
    BY <1>4, RunsFacts DEF OpBlockhash
  <2>2. Top(tstack) \cap FindingFlags \subseteq global_taint_flag
    <3>1. Recorded(tstack, global_taint_flag) /\ tstack \in Seq(Tag)
      BY FindingsRecordedDef DEF TypeOK
    <3>2. Len(tstack) \in 1..Len(tstack)
      BY <2>1 DEF TypeOK
    <3>. QED  BY <3>1, <3>2, RecordedEntry DEF Top
  <2>3. PICK upper \in BlockNumbers, h \in Inputs :
          IF BlockhashWindow(Top(stack), upper)
          THEN Retag(BLOCKHASH, h, Top(tstack))
          ELSE Retag(BLOCKHASH, 0, SAFE_FLAG)
    BY <1>4 DEF OpBlockhash
  <2>. QED  BY <1>1, <2>2, <2>3, SafeTagRecorded
<1>. QED  BY <1>2, <1>3, <1>4 DEF LoadStep

(* The host, size and PUSH handlers push a SAFE tag.                       *)
LEMMA HostRecorded ==
  ASSUME TypeOK, FindingsRecorded, HostStep
  PROVE  FindingsRecorded'
<1>1. ASSUME NEW op, NEW v, NEW next, PushTagged(op, v, SAFE_FLAG, next)
      PROVE  FindingsRecorded'
  <2>1. tstack' = Append(PopN(tstack, 0), SAFE_FLAG) /\ UNCHANGED global_taint_flag
    BY <1>1 DEF PushTagged, Analysis, PopN, TypeOK
  <2>2. 0 \in 0..Len(tstack)
    BY DEF TypeOK
  <2>. QED  BY <2>1, <2>2, SafeTagRecorded, PushRecorded
<1>2. ASSUME NEW op, HostPush(op)
      PROVE  FindingsRecorded'
  BY <1>1, <1>2 DEF HostPush
<1>3. CASE \/ OpAddress \/ OpOrigin \/ OpCaller \/ OpGasprice \/ OpCoinbase
           \/ OpTimestamp \/ OpNumber \/ OpDifficulty \/ OpGasLimit \/ OpGas
  BY <1>2, <1>3
  DEF OpAddress, OpOrigin, OpCaller, OpGasprice, OpCoinbase, OpTimestamp,
      OpNumber, OpDifficulty, OpGasLimit, OpGas
<1>4. CASE OpCallDataSize \/ OpCodeSize \/ OpReturnDataSize
  BY <1>1, <1>4 DEF OpCallDataSize, OpCodeSize, OpReturnDataSize
<1>5. CASE \E n \in 2..32 : OpPush(n)
  BY <1>1, <1>5 DEF OpPush
<1>. QED  BY <1>3, <1>4, <1>5 DEF HostStep

LEMMA CompareRecorded ==
  ASSUME TypeOK, FindingsRecorded, OpLt \/ OpGt \/ OpEq
  PROVE  FindingsRecorded'
<1>1. Len(tstack) >= 2
  BY RunsFacts DEF OpLt, OpGt, OpEq, Compare
<1>2. /\ tstack' = Append(PopN(tstack, 2), Top(tstack) \cup Snd(tstack))
      /\ UNCHANGED global_taint_flag
  BY DEF OpLt, OpGt, OpEq, Compare
<1>3. 2 \in 0..Len(tstack)
  BY <1>1 DEF TypeOK
<1>. QED  BY <1>1, <1>2, <1>3, UnionRecorded, PushRecorded

(* The handlers that do not touch the taint stack or the global flag.      *)
LEMMA QuietRecorded ==
  ASSUME FindingsRecorded,
         \/ OpExp \/ OpSlt \/ OpSgt \/ OpMulmod \/ OpIszero \/ OpNot
         \/ OpSignExtend
         \/ OpJumpdest \/ OpStop \/ InvalidOpcode \/ StackFault
         \/ Abort \/ Halted \/ UNCHANGED vars
  PROVE  FindingsRecorded'
BY UnchangedRecorded
DEF OpExp, OpSlt, OpSgt, OpMulmod, OpSignExtend, ValueOnly, OpIszero, OpNot, InPlace,
    OpJumpdest, OpStop, InvalidOpcode, StackFault, Abort, Halted, vars,
    Analysis

(* opCallValue, opPc, opPush1 and opCallDataLoad push a tag without        *)
(* findings.                                                               *)
LEMMA FreshTagRecorded ==
  ASSUME TypeOK, FindingsRecorded,
         OpCallValue \/ OpPc \/ OpPush1 \/ OpCallDataLoad
  PROVE  FindingsRecorded'
<1>1. CASE OpCallValue \/ OpPc \/ OpPush1
  <2>1. ASSUME NEW op, NEW v, NEW next, NEW t \in {{CALLDATA_FLAG}, SAFE_FLAG},
               PushTagged(op, v, t, next)
        PROVE  FindingsRecorded'
    <3>1. tstack' = Append(PopN(tstack, 0), t) /\ UNCHANGED global_taint_flag
      BY <2>1 DEF PushTagged, Analysis, PopN, TypeOK
    <3>2. 0 \in 0..Len(tstack)
      BY DEF TypeOK
    <3>3. t \cap FindingFlags \subseteq global_taint_flag
      BY DEF SAFE_FLAG, FindingFlags, CALLDATA_FLAG, POTENTIAL_OVERFLOW_FLAG,
             PROTECTED_OVERFLOW_FLAG, OVERFLOW_FLAG
    <3>. QED  BY <3>1, <3>2, <3>3, PushRecorded
  <2>. QED  BY <1>1, <2>1 DEF OpCallValue, OpPc, OpPush1
<1>2. CASE OpCallDataLoad
  <2>. DEFINE t == IF pc = SelectorPc THEN SAFE_FLAG ELSE {CALLDATA_FLAG}
  <2>1. tstack' = Append(PopN(tstack, 1), t) /\ UNCHANGED global_taint_flag
    BY <1>2 DEF OpCallDataLoad, Analysis
  <2>2. 1 \in 0..Len(tstack)
    BY <1>2, RunsFacts DEF OpCallDataLoad, TypeOK
  <2>3. t \cap FindingFlags \subseteq global_taint_flag
    BY DEF SAFE_FLAG, FindingFlags, CALLDATA_FLAG, POTENTIAL_OVERFLOW_FLAG,
           PROTECTED_OVERFLOW_FLAG, OVERFLOW_FLAG
  <2>. QED  BY <2>1, <2>2, <2>3, PushRecorded
<1>. QED  BY <1>1, <1>2

(* opPop, opJump and opJumpi pop entries (or nothing, on abort).           *)
LEMMA PopRecorded ==
  ASSUME TypeOK, FindingsRecorded, NEW k \in 0..Len(tstack),
         tstack' \in {tstack, PopN(tstack, k)}, UNCHANGED global_taint_flag
  PROVE  FindingsRecorded'
<1>1. Recorded(tstack, global_taint_flag)
  BY FindingsRecordedDef
<1>2. Recorded(PopN(tstack, k), global_taint_flag)
  BY <1>1, RecordedPop DEF TypeOK
<1>. QED  BY <1>1, <1>2 DEF FindingsRecorded, Recorded

LEMMA JumpsRecorded ==
  ASSUME TypeOK, FindingsRecorded, OpPop \/ OpJump \/ OpJumpi
  PROVE  FindingsRecorded'
<1>1. CASE OpPop \/ OpJump
  <2>1. 1 \in 0..Len(tstack)
    BY <1>1, RunsFacts DEF OpPop, OpJump, TypeOK
  <2>2. tstack' \in {tstack, PopN(tstack, 1)} /\ UNCHANGED global_taint_flag
    BY <1>1 DEF OpPop, OpJump, Analysis
  <2>. QED  BY <2>1, <2>2, PopRecorded
<1>2. CASE OpJumpi
  <2>1. 2 \in 0..Len(tstack)
    BY <1>2, RunsFacts DEF OpJumpi, TypeOK
  <2>2. tstack' \in {tstack, PopN(tstack, 2)} /\ UNCHANGED global_taint_flag
    BY <1>2 DEF OpJumpi
  <2>. QED  BY <2>1, <2>2, PopRecorded
<1>. QED  BY <1>1, <1>2

LEMMA DupRecorded ==
  ASSUME TypeOK, FindingsRecorded, NEW n \in 1..16, OpDup(n)
  PROVE  FindingsRecorded'
<1>1. Len(tstack) >= n
  BY RunsFacts DEF OpDup
<1>2. tstack[Len(tstack) - n + 1] \cap FindingFlags \subseteq global_taint_flag
  <2>1. Recorded(tstack, global_taint_flag) /\ tstack \in Seq(Tag)
    BY FindingsRecordedDef DEF TypeOK
  <2>2. Len(tstack) - n + 1 \in 1..Len(tstack)
    BY <1>1 DEF TypeOK
  <2>. QED  BY <2>1, <2>2, RecordedEntry
<1>3. tstack' = Append(PopN(tstack, 0), tstack[Len(tstack) - n + 1])
      /\ UNCHANGED global_taint_flag
  BY DEF OpDup, Analysis, PopN, TypeOK
<1>4. 0 \in 0..Len(tstack)
  BY DEF TypeOK
<1>. QED  BY <1>2, <1>3, <1>4, PushRecorded

LEMMA SwapRecorded ==
  ASSUME TypeOK, FindingsRecorded, NEW n \in 1..16, OpSwap(n)
  PROVE  FindingsRecorded'
<1>1. Len(tstack) >= n + 1
  BY RunsFacts DEF OpSwap
<1>2. Recorded(tstack, global_taint_flag)
  BY FindingsRecordedDef
<1>3. Recorded(SwapTop(tstack, Len(tstack) - n), global_taint_flag)
  BY <1>1, <1>2, RecordedSwap DEF TypeOK
<1>. QED  BY <1>3 DEF OpSwap, Analysis, FindingsRecorded, Recorded

(* Every finding (POTENTIAL_OVERFLOW, PROTECTED_OVERFLOW, OVERFLOW) that a *)
(* live taint entry carries has been OR-ed into global_taint_flag, and an  *)
(* overflow bit there always comes with POTENTIAL_OVERFLOW: what the       *)
(* driver reads from global_taint_flag after the run covers what opAdd,    *)
(* opSub, opMul and opAddmod found.  The invariant is inductive together   *)
(* with TypeOK, which the step lemmas need for the stack shapes.           *)
THEOREM FindingsAlwaysRecorded == Spec => []FindingsRecorded
<1>1. Init => FindingsRecorded
  BY DEF Init, FindingsRecorded, SAFE_FLAG
<1>2. TypeOK /\ FindingsRecorded /\ [Next]_vars => FindingsRecorded'
  <2>. SUFFICES ASSUME TypeOK, FindingsRecorded, [Next]_vars
                PROVE  FindingsRecorded'
    OBVIOUS
  <2>1. CASE OpAdd     BY <2>1, OpAddRecorded
  <2>2. CASE OpSub     BY <2>2, OpSubRecorded
  <2>3. CASE OpMul     BY <2>3, OpMulRecorded
  <2>4. CASE OpAddmod  BY <2>4, OpAddmodRecorded
  <2>5. CASE OpDiv \/ OpMod            BY <2>5, OpDivModRecorded
  <2>6. CASE OpLt \/ OpGt \/ OpEq      BY <2>6, CompareRecorded
  <2>7. CASE OpCallValue \/ OpPc \/ OpPush1 \/ OpCallDataLoad
    BY <2>7, FreshTagRecorded
  <2>8. CASE OpPop \/ OpJump \/ OpJumpi  BY <2>8, JumpsRecorded
  <2>9. CASE \E n \in 1..16 : OpDup(n)   BY <2>9, DupRecorded
  <2>10. CASE \E n \in 1..16 : OpSwap(n) BY <2>10, SwapRecorded
  <2>11. CASE \/ OpExp \/ OpSlt \/ OpSgt \/ OpMulmod \/ OpIszero \/ OpNot
              \/ OpSignExtend
              \/ OpJumpdest \/ OpStop \/ InvalidOpcode \/ StackFault
              \/ Abort \/ Halted \/ UNCHANGED vars
    BY <2>11, QuietRecorded
  <2>12. CASE BitStep   BY <2>12, BitStepRecorded
  <2>13. CASE LoadStep  BY <2>13, LoadRecorded
  <2>14. CASE HostStep  BY <2>14, HostRecorded
  <2>. QED
    BY <2>1, <2>2, <2>3, <2>4, <2>5, <2>6, <2>7, <2>8, <2>9, <2>10, <2>11,
       <2>12, <2>13, <2>14
    DEF Next, Step, BitStep, LoadStep, HostStep
<1>. QED  BY <1>1, <1>2, TypeCorrect, PTL DEF Spec

-----------------------------------------------------------------------------
(* The taint stack is never shorter than the value stack.                  *)

LEMMA BothPushCover ==
  ASSUME TypeOK, TaintCoversStack, NEW k \in Nat, k <= Len(stack),
         k <= Len(tstack), NEW v, NEW t,
         stack' = Append(PopN(stack, k), v), tstack' = Append(PopN(tstack, k), t)
  PROVE  TaintCoversStack'
BY PopNType DEF TypeOK, TaintCoversStack

LEMMA BothPopCover ==
  ASSUME TypeOK, TaintCoversStack, NEW k \in Nat, k <= Len(stack),
         k <= Len(tstack),
         stack' = PopN(stack, k), tstack' = PopN(tstack, k)
  PROVE  TaintCoversStack'
BY PopNType DEF TypeOK, TaintCoversStack

(* A value-only handler pops at least as much as it pushes and leaves the  *)
(* taint stack alone.                                                      *)
LEMMA ValueOnlyCover ==
  ASSUME TypeOK, TaintCoversStack, NEW k \in 1..Len(stack), NEW v,
         stack' = Append(PopN(stack, k), v), UNCHANGED tstack
  PROVE  TaintCoversStack'
BY PopNType DEF TypeOK, TaintCoversStack

LEMMA UnchangedCover ==
  ASSUME TaintCoversStack, UNCHANGED <<stack, tstack>>
  PROVE  TaintCoversStack'
BY DEF TaintCoversStack

LEMMA CheckedBinaryCover ==
  ASSUME TypeOK, TaintCoversStack, Len(stack) >= 2, Len(tstack) >= 2,
         NEW x, NEW y, NEW res, NEW over, NEW scan,
         CheckedBinary(x, y, res, over, scan)
  PROVE  TaintCoversStack'
BY BothPushCover, UnchangedCover DEF CheckedBinary

LEMMA ArithCover ==
  ASSUME TypeOK, TaintCoversStack, OpAdd \/ OpSub \/ OpMul
  PROVE  TaintCoversStack'
<1>1. Len(stack) >= 2 /\ Len(tstack) >= 2
  BY RunsFacts, PopsFacts DEF OpAdd, OpSub, OpMul
<1>. QED  BY <1>1, CheckedBinaryCover DEF OpAdd, OpSub, OpMul

LEMMA OpAddmodCover ==
  ASSUME TypeOK, TaintCoversStack, OpAddmod
  PROVE  TaintCoversStack'
<1>1. Len(stack) >= 3 /\ Len(tstack) >= 3
  BY RunsFacts, PopsFacts DEF OpAddmod
<1>2. \/ /\ \E v : stack' = Append(PopN(stack, 3), v)
         /\ \E t : tstack' = Append(PopN(tstack, 3), t)
      \/ UNCHANGED <<stack, tstack>>
  BY DEF OpAddmod
<1>3. CASE UNCHANGED <<stack, tstack>>
  BY <1>3, UnchangedCover
<1>4. CASE /\ \E v : stack' = Append(PopN(stack, 3), v)
           /\ \E t : tstack' = Append(PopN(tstack, 3), t)
  BY <1>1, <1>4, BothPushCover
<1>. QED  BY <1>2, <1>3, <1>4

LEMMA PairedPushCover ==
  ASSUME TypeOK, TaintCoversStack,
         \/ OpDiv \/ OpMod \/ OpLt \/ OpGt \/ OpEq
         \/ OpCallValue \/ OpPc \/ OpPush1 \/ OpCallDataLoad
  PROVE  TaintCoversStack'
<1>1. CASE OpDiv \/ OpMod \/ OpLt \/ OpGt \/ OpEq
  <2>1. Len(stack) >= 2 /\ Len(tstack) >= 2
    BY <1>1, RunsFacts, PopsFacts DEF OpDiv, OpMod, OrTagged, OpLt, OpGt, OpEq,
                                      Compare
  <2>. QED  BY <1>1, <2>1, BothPushCover DEF OpDiv, OpMod, OrTagged, OpLt, OpGt,
                                              OpEq, Compare
<1>2. CASE OpCallValue \/ OpPc \/ OpPush1
  <2>1. Len(stack') = Len(stack) + 1 /\ Len(tstack') = Len(tstack) + 1
    BY <1>2 DEF OpCallValue, OpPc, OpPush1, PushTagged, TypeOK
  <2>. QED  BY <2>1 DEF TaintCoversStack
<1>3. CASE OpCallDataLoad
  <2>1. Len(stack) >= 1 /\ Len(tstack) >= 1
    BY <1>3, RunsFacts, PopsFacts DEF OpCallDataLoad
  <2>. QED  BY <1>3, <2>1, BothPushCover DEF OpCallDataLoad
<1>. QED  BY <1>1, <1>2, <1>3

LEMMA ValueOnlyOpsCover ==
  ASSUME TypeOK, TaintCoversStack,
         OpExp \/ OpSlt \/ OpSgt \/ OpMulmod \/ OpIszero \/ OpNot
  PROVE  TaintCoversStack'
<1>1. CASE OpExp \/ OpSlt \/ OpSgt
  <2>1. Len(stack) >= 2
    BY <1>1, RunsFacts, PopsFacts DEF OpExp, OpSlt, OpSgt, ValueOnly
  <2>. QED  BY <1>1, <2>1, ValueOnlyCover DEF OpExp, OpSlt, OpSgt, ValueOnly
<1>2. CASE OpMulmod
  <2>1. Len(stack) >= 3
    BY <1>2, RunsFacts, PopsFacts DEF OpMulmod, ValueOnly
  <2>. QED  BY <1>2, <2>1, ValueOnlyCover DEF OpMulmod, ValueOnly
<1>3. CASE OpIszero \/ OpNot
  <2>1. Len(stack) >= 1
    BY <1>3, RunsFacts, PopsFacts DEF OpIszero, OpNot, InPlace
  <2>. QED  BY <1>3, <2>1, ValueOnlyCover DEF OpIszero, OpNot, InPlace
<1>. QED  BY <1>1, <1>2, <1>3

LEMMA StackOpsCover ==
  ASSUME TypeOK, TaintCoversStack,
         \/ OpPop \/ OpJump \/ OpJumpi
         \/ \E n \in 1..16 : OpDup(n)
         \/ \E n \in 1..16 : OpSwap(n)
  PROVE  TaintCoversStack'
<1>1. CASE OpPop \/ OpJump
  <2>0. Pops(POP) = 1 /\ Pops(JUMP) = 1
    BY PopsFacts
  <2>1. Len(stack) >= 1 /\ Len(tstack) >= 1
    BY <1>1, <2>0, RunsFacts DEF OpPop, OpJump
  <2>. QED  BY <1>1, <2>1, BothPopCover, UnchangedCover DEF OpPop, OpJump
<1>2. CASE OpJumpi
  <2>1. Len(stack) >= 2 /\ Len(tstack) >= 2
    BY <1>2, RunsFacts, PopsFacts DEF OpJumpi
  <2>. QED  BY <1>2, <2>1, BothPopCover, UnchangedCover DEF OpJumpi
<1>3. CASE \E n \in 1..16 : OpDup(n)
  BY <1>3 DEF OpDup, TypeOK, TaintCoversStack
<1>4. CASE \E n \in 1..16 : OpSwap(n)
  <2>1. PICK n \in 1..16 : OpSwap(n)
    BY <1>4
  <2>2. Pops(SWAP1 + n - 1) = n + 1
    BY PopsFacts
  <2>3. Len(stack) >= n + 1 /\ Len(tstack) >= n + 1
    BY <2>1, <2>2, RunsFacts DEF OpSwap
  <2>4. Len(stack) - n \in 1..Len(stack) /\ Len(tstack) - n \in 1..Len(tstack)
    BY <2>3 DEF TypeOK
  <2>5. Len(stack') = Len(stack) /\ Len(tstack') = Len(tstack)
    BY <2>1, <2>4, SwapTopType DEF OpSwap, TypeOK
  <2>. QED  BY <2>5 DEF TaintCoversStack
<1>. QED  BY <1>1, <1>2, <1>3, <1>4

(* The handlers added beside opDiv, the host loads and the pushes keep    *)
(* both stacks in step; opSignExtend, opBalance and opExtCodeHash change   *)
(* only the value stack and pop at least what they push.                   *)
LEMMA NewOpsCover ==
  ASSUME TypeOK, TaintCoversStack, BitStep \/ LoadStep \/ HostStep \/ OpSignExtend
  PROVE  TaintCoversStack'
<1>1. CASE BitStep
  <2>1. Len(stack) >= 2 /\ Len(tstack) >= 2
    BY <1>1, RunsFacts, PopsFacts
    DEF BitStep, OpSdiv, OpSmod, OpAnd, OpOr, OpXor, OpByte, OpShl, OpShr,
        OpSar, OrTagged, OrTaggedOps, SDIV, SMOD, AND, OR, XOR, BYTE, SHL, SHR, SAR
  <2>2. \E v, t : stack' = Append(PopN(stack, 2), v)
                 /\ tstack' = Append(PopN(tstack, 2), t)
    BY <1>1
    DEF BitStep, OpSdiv, OpSmod, OpAnd, OpOr, OpXor, OpByte, OpShl, OpShr,
        OpSar, OrTagged
  <2>. QED  BY <2>1, <2>2, BothPushCover
<1>2. CASE OpSignExtend
  <2>1. Len(stack) >= 2
    BY <1>2, RunsFacts, PopsFacts DEF OpSignExtend, ValueOnly
  <2>. QED  BY <1>2, <2>1, ValueOnlyCover DEF OpSignExtend, ValueOnly
<1>3. ASSUME NEW op, NEW v, NEW t, Pops(op) = 1, Retag(op, v, t)
      PROVE  TaintCoversStack'
  <2>1. Len(stack) >= 1 /\ Len(tstack) >= 1
    BY <1>3, RunsFacts DEF Retag
  <2>. QED  BY <1>3, <2>1, BothPushCover DEF Retag
<1>4. CASE LoadStep
  <2>1. CASE OpBalance \/ OpExtCodeHash
    <3>1. Len(stack) >= 1
      BY <2>1, RunsFacts, PopsFacts DEF OpBalance, OpExtCodeHash, InPlace
    <3>. QED  BY <2>1, <3>1, ValueOnlyCover DEF OpBalance, OpExtCodeHash, InPlace
  <2>2. CASE OpExtCodeSize \/ OpBlockhash
    <3>1. Pops(EXTCODESIZE) = 1 /\ Pops(BLOCKHASH) = 1
      BY PopsFacts
    <3>. QED  BY <2>2, <3>1, <1>3 DEF OpExtCodeSize, OpBlockhash
  <2>. QED  BY <1>4, <2>1, <2>2 DEF LoadStep
<1>5. ASSUME NEW op, NEW v, NEW t, NEW next, PushTagged(op, v, t, next)
      PROVE  TaintCoversStack'
  <2>1. Len(stack') = Len(stack) + 1 /\ Len(tstack') = Len(tstack) + 1
    BY <1>5 DEF PushTagged, TypeOK
  <2>. QED  BY <2>1 DEF TaintCoversStack
<1>6. CASE HostStep
  BY <1>5, <1>6
  DEF HostStep, HostPush, OpAddress, OpOrigin, OpCaller, OpGasprice,
      OpCoinbase, OpTimestamp, OpNumber, OpDifficulty, OpGasLimit, OpGas,
      OpCallDataSize, OpCodeSize, OpReturnDataSize, OpPush
<1>. QED  BY <1>1, <1>2, <1>4, <1>6

(* No handler pops a taint entry that is not there while the value stack,  *)
(* which the interpreter loop checks, has it: the taint stack is never     *)
(* shorter than the value stack, whatever opExp, opSlt, opSgt and opMulmod *)
(* leave behind.                                                           *)
THEOREM TaintAlwaysCoversStack == Spec => []TaintCoversStack
<1>1. Init => TaintCoversStack
  BY DEF Init, TaintCoversStack
<1>2. TypeOK /\ TaintCoversStack /\ [Next]_vars => TaintCoversStack'
  <2>. SUFFICES ASSUME TypeOK, TaintCoversStack, [Next]_vars
                PROVE  TaintCoversStack'
    OBVIOUS
  <2>1. CASE OpAdd \/ OpSub \/ OpMul  BY <2>1, ArithCover
  <2>2. CASE OpAddmod                 BY <2>2, OpAddmodCover
  <2>3. CASE \/ OpDiv \/ OpMod \/ OpLt \/ OpGt \/ OpEq
             \/ OpCallValue \/ OpPc \/ OpPush1 \/ OpCallDataLoad
    BY <2>3, PairedPushCover
  <2>4. CASE OpExp \/ OpSlt \/ OpSgt \/ OpMulmod \/ OpIszero \/ OpNot
    BY <2>4, ValueOnlyOpsCover
  <2>5. CASE \/ OpPop \/ OpJump \/ OpJumpi
             \/ \E n \in 1..16 : OpDup(n)
             \/ \E n \in 1..16 : OpSwap(n)
    BY <2>5, StackOpsCover
  <2>6. CASE \/ OpJumpdest \/ OpStop \/ InvalidOpcode \/ StackFault
             \/ Abort \/ Halted \/ UNCHANGED vars
    BY <2>6, UnchangedCover
    DEF OpJumpdest, OpStop, InvalidOpcode, StackFault, Abort, Halted, vars
  <2>7. CASE BitStep \/ LoadStep \/ HostStep \/ OpSignExtend
    BY <2>7, NewOpsCover
  <2>. QED
    BY <2>1, <2>2, <2>3, <2>4, <2>5, <2>6, <2>7
    DEF Next, Step, BitStep, LoadStep, HostStep
<1>. QED  BY <1>1, <1>2, TypeCorrect, PTL DEF Spec
=============================================================================
