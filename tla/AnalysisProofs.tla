--------------------------- MODULE AnalysisProofs ---------------------------
(***************************************************************************)
(* Proofs about the process-wide analysis state: the jump record is well   *)
(* formed, and the frame implements the abstract log of AnalysisLog under  *)
(* the refinement mapping Log of TaintInterpreter.                         *)
(***************************************************************************)
EXTENDS TaintInterpreterProofs

(* What one step of the frame may do to the analysis state.                *)
PathStep ==
  \/ GlobalPcPath' = GlobalPcPath
  \/ \E pos \in Int :
       /\ status = "running" /\ CurOp = JUMPI /\ ValidJumpdest(pos)
       /\ GlobalPcPath' = GlobalPcPath \o <<pc, pos - 1>>

CostStep ==
  \/ GlobalPcCost' = GlobalPcCost
  \/ \E p \in Nat, d1, d2 \in Word :
       GlobalPcCost' = GlobalPcCost \o <<[pc |-> p, d |-> d1], [pc |-> p, d |-> d2]>>

AnalysisStep ==
  /\ UNCHANGED <<code, jumpdests>>
  /\ global_taint_flag \subseteq global_taint_flag'
  /\ global_branch_flag \subseteq global_branch_flag'
  /\ PathStep
  /\ CostStep

-----------------------------------------------------------------------------
(* The handlers that leave the analysis state alone.                       *)
LEMMA QuietAnalysis ==
  ASSUME \/ OpDiv \/ OpMod \/ OpExp \/ OpSlt \/ OpSgt \/ OpMulmod
         \/ OpIszero \/ OpNot \/ OpCallValue \/ OpPc \/ OpPush1
         \/ OpCallDataLoad \/ OpPop \/ \E n \in 1..16 : OpDup(n)
         \/ \E n \in 1..16 : OpSwap(n) \/ OpJump \/ OpJumpdest \/ OpStop
         \/ InvalidOpcode \/ StackFault \/ Abort \/ Halted \/ UNCHANGED vars
  PROVE  AnalysisStep
BY DEF OpDiv, OpMod, OrTagged, OpExp, OpSlt, OpSgt, OpMulmod, ValueOnly,
       OpIszero, OpNot, InPlace, OpCallValue, OpPc, OpPush1, PushTagged,
       OpCallDataLoad, OpPop, OpDup, OpSwap, OpJump, OpJumpdest, OpStop,
       InvalidOpcode, StackFault, Abort, Halted, vars, Env, Analysis,
       AnalysisStep, PathStep, CostStep

(* The handlers added beside opDiv, the host loads, the host pushes and   *)
(* the PUSHn handlers leave the analysis state alone too.                  *)
LEMMA NewOpsAnalysis ==
  ASSUME BitStep \/ LoadStep \/ HostStep \/ OpSignExtend
  PROVE  AnalysisStep
<1>1. CASE BitStep
  BY <1>1 DEF BitStep, OpSdiv, OpSmod, OpAnd, OpOr, OpXor, OpByte, OpShl,
              OpShr, OpSar, OrTagged, Env, Analysis, AnalysisStep, PathStep,
              CostStep
<1>2. CASE LoadStep \/ OpSignExtend
  BY <1>2 DEF LoadStep, OpBalance, OpExtCodeHash, InPlace, OpExtCodeSize,
              OpBlockhash, Retag, OpSignExtend, ValueOnly, Env, Analysis,
              AnalysisStep, PathStep, CostStep
<1>3. CASE HostStep
  BY <1>3 DEF HostStep, HostPush, OpAddress, OpOrigin, OpCaller, OpGasprice,
              OpCoinbase, OpTimestamp, OpNumber, OpDifficulty, OpGasLimit,
              OpGas, OpCallDataSize, OpCodeSize, OpReturnDataSize, OpPush,
              PushTagged, Env, Analysis, AnalysisStep, PathStep, CostStep
<1>. QED  BY <1>1, <1>2, <1>3

(* The overflow-checked handlers only OR into global_taint_flag.           *)
LEMMA CheckedAnalysis ==
  ASSUME OpAdd \/ OpSub \/ OpMul \/ OpAddmod
  PROVE  AnalysisStep
<1>1. global_taint_flag \subseteq global_taint_flag'
  BY DEF OpAdd, OpSub, OpMul, CheckedBinary, RecordFlags, OpAddmod
<1>. QED
  BY <1>1 DEF OpAdd, OpSub, OpMul, OpAddmod, Env, AnalysisStep, PathStep,
              CostStep

(* A comparison adds BRANCH and at most one pair of cost entries.          *)
LEMMA CompareAnalysis ==
  ASSUME TypeOK, OpLt \/ OpGt \/ OpEq
  PROVE  AnalysisStep
<1>1. pc \in Nat
  BY DEF TypeOK
<1>2. /\ \A x, y \in Word : LtCost(x, y)[1] \in Word /\ LtCost(x, y)[2] \in Word
      /\ \A x, y \in Word : GtCost(x, y)[1] \in Word /\ GtCost(x, y)[2] \in Word
      /\ \A x, y \in Word : EqCost(x, y)[1] \in Word /\ EqCost(x, y)[2] \in Word
  BY CostWord
<1>3. Len(stack) >= 2 /\ Top(stack) \in Word /\ Snd(stack) \in Word
  BY RunsFacts, PopsFacts, Operands DEF OpLt, OpGt, OpEq, Compare
<1>4. CostStep
  BY <1>1, <1>2, <1>3 DEF OpLt, OpGt, OpEq, Compare, CostStep
<1>. QED
  BY <1>4 DEF OpLt, OpGt, OpEq, Compare, Env, AnalysisStep, PathStep

(* A taken JUMPI appends its source and destination - 1.                   *)
LEMMA JumpiAnalysis ==
  ASSUME TypeOK, OpJumpi
  PROVE  AnalysisStep
<1>1. Len(stack) >= 2 /\ Top(stack) \in Int
  BY RunsFacts, PopsFacts, Operands, ModulusFacts DEF OpJumpi
<1>2. PathStep
  BY <1>1 DEF OpJumpi, JumpiTaken, Runs, PathStep
<1>. QED
  BY <1>2 DEF OpJumpi, Env, AnalysisStep, CostStep

LEMMA StepAnalysis ==
  ASSUME TypeOK, [Next]_vars
  PROVE  AnalysisStep
BY QuietAnalysis, NewOpsAnalysis, CheckedAnalysis, CompareAnalysis,
   JumpiAnalysis
DEF Next, Step, BitStep, LoadStep, HostStep

-----------------------------------------------------------------------------
(* The jump record.                                                        *)

(* Appending a pair to a record of even length keeps the earlier pairs.    *)
LEMMA AppendPair ==
  ASSUME NEW S, NEW s \in Seq(S), Len(s) % 2 = 0, NEW a, NEW b
  PROVE  LET t == s \o <<a, b>> IN
         /\ t \in Seq(S \cup {a, b})
         /\ Len(t) = Len(s) + 2 /\ Len(t) % 2 = 0
         /\ Len(t) \div 2 = Len(s) \div 2 + 1
         /\ \A i \in 1..Len(s) : t[i] = s[i]
         /\ t[Len(s) + 1] = a /\ t[Len(s) + 2] = b
OBVIOUS

LEMMA PathStepWellFormed ==
  ASSUME TypeOK, PathWellFormed, AnalysisStep
  PROVE  PathWellFormed'
<1>1. CASE GlobalPcPath' = GlobalPcPath
  BY <1>1 DEF AnalysisStep, PathWellFormed, ValidJumpdest
<1>2. CASE GlobalPcPath' # GlobalPcPath
  <2>1. PICK pos \in Int :
          /\ status = "running" /\ CurOp = JUMPI /\ ValidJumpdest(pos)
          /\ GlobalPcPath' = GlobalPcPath \o <<pc, pos - 1>>
    BY <1>2 DEF AnalysisStep, PathStep
  <2>. DEFINE L == Len(GlobalPcPath)
  <2>2. /\ GlobalPcPath \in Seq(Int) /\ L % 2 = 0 /\ pc \in Int
        /\ pos - 1 \in Int
    BY DEF TypeOK, PathWellFormed
  <2>3. /\ Len(GlobalPcPath') = L + 2 /\ Len(GlobalPcPath') % 2 = 0
        /\ Len(GlobalPcPath') \div 2 = L \div 2 + 1
        /\ \A i \in 1..L : GlobalPcPath'[i] = GlobalPcPath[i]
        /\ GlobalPcPath'[L + 1] = pc /\ GlobalPcPath'[L + 2] = pos - 1
    BY <2>1, <2>2, AppendPair
  <2>4. UNCHANGED <<code, jumpdests>>
    BY DEF AnalysisStep
  <2>5. ASSUME NEW k \in 1..(L \div 2)
        PROVE  /\ GetOp(code, GlobalPcPath'[2 * k - 1]) = JUMPI
               /\ ValidJumpdest(GlobalPcPath'[2 * k] + 1)
    <3>1. 2 * k - 1 \in 1..L /\ 2 * k \in 1..L
      BY <2>2
    <3>. QED  BY <3>1, <2>3, <2>4 DEF PathWellFormed, ValidJumpdest
  <2>6. /\ GetOp(code, GlobalPcPath'[2 * (L \div 2 + 1) - 1]) = JUMPI
        /\ ValidJumpdest(GlobalPcPath'[2 * (L \div 2 + 1)] + 1)
    <3>1. 2 * (L \div 2 + 1) - 1 = L + 1 /\ 2 * (L \div 2 + 1) = L + 2
      BY <2>2
    <3>. QED  BY <3>1, <2>1, <2>3 DEF CurOp
  <2>7. \A k \in 1..(Len(GlobalPcPath') \div 2) :
          /\ GetOp(code, GlobalPcPath'[2 * k - 1]) = JUMPI
          /\ ValidJumpdest(GlobalPcPath'[2 * k] + 1)
    <3>. SUFFICES ASSUME NEW k \in 1..(L \div 2 + 1)
                  PROVE  /\ GetOp(code, GlobalPcPath'[2 * k - 1]) = JUMPI
                         /\ ValidJumpdest(GlobalPcPath'[2 * k] + 1)
      BY <2>3
    <3>1. k \in 1..(L \div 2) \/ k = L \div 2 + 1
      BY <2>2
    <3>. QED  BY <3>1, <2>5, <2>6
  <2>. QED  BY <2>3, <2>4, <2>7 DEF PathWellFormed, ValidJumpdest
<1>. QED  BY <1>1, <1>2

(* Every recorded jump of GlobalPcPath starts at a JUMPI of the code and   *)
(* ends one byte before a valid JUMPDEST (opJumpi records only after       *)
(* validJumpdest accepted the destination), for every program and width.   *)
THEOREM PathAlwaysWellFormed == Spec => []PathWellFormed
<1>1. Init => PathWellFormed
  BY DEF Init, PathWellFormed
<1>2. TypeOK /\ PathWellFormed /\ [Next]_vars => PathWellFormed'
  BY StepAnalysis, PathStepWellFormed
<1>. QED  BY <1>1, <1>2, TypeCorrect, PTL DEF Spec

-----------------------------------------------------------------------------
(* The refinement of AnalysisLog.                                          *)

(* Two more entries at the end of a record of whole pairs are one more     *)
(* pair at the end of its reading as pairs.                                *)
LEMMA PairsGrow ==
  ASSUME NEW S, NEW s \in Seq(S), NEW T, NEW t \in Seq(T), Len(s) % 2 = 0,
         Log!Grows(s, t, 2)
  PROVE  /\ Log!Grows(Pairs(s), Pairs(t), 1)
         /\ Pairs(t)[Len(Pairs(t))] = <<t[Len(s) + 1], t[Len(s) + 2]>>
<1>. DEFINE L == Len(s)
<1>1. /\ Len(t) = L + 2 /\ L \in Nat /\ L \div 2 \in Nat /\ 2 * (L \div 2) = L
      /\ (L + 2) \div 2 = L \div 2 + 1
      /\ \A j \in 1..L : t[j] = s[j]
  BY DEF Log!Grows
<1>2. Len(Pairs(t)) = L \div 2 + 1 /\ Len(Pairs(s)) = L \div 2
  BY <1>1 DEF Pairs
<1>3. ASSUME NEW i \in 1..L \div 2 PROVE Pairs(t)[i] = Pairs(s)[i]
  <2>1. 2 * i <= 2 * (L \div 2)
    BY <1>1
  <2>2. 2 * i - 1 \in 1..L /\ 2 * i \in 1..L /\ i \in 1..(Len(t) \div 2)
    BY <2>1, <1>1
  <2>3. t[2 * i - 1] = s[2 * i - 1] /\ t[2 * i] = s[2 * i]
    BY <2>2, <1>1
  <2>4. Pairs(t)[i] = <<t[2 * i - 1], t[2 * i]>>
    BY <2>2 DEF Pairs
  <2>5. Pairs(s)[i] = <<s[2 * i - 1], s[2 * i]>>
    BY DEF Pairs
  <2>. QED  BY <2>3, <2>4, <2>5
<1>4. Pairs(t)[L \div 2 + 1] = <<t[L + 1], t[L + 2]>>
  <2>1. 2 * (L \div 2 + 1) - 1 = L + 1 /\ 2 * (L \div 2 + 1) = L + 2
    BY <1>1
  <2>2. L \div 2 + 1 \in 1..(Len(t) \div 2)
    BY <1>1
  <2>. QED  BY <2>1, <2>2 DEF Pairs
<1>. QED  BY <1>2, <1>3, <1>4 DEF Log!Grows

(* The record invariant the refinement needs: both recorders hold whole    *)
(* pairs.                                                                  *)
RecordsPaired == Len(GlobalPcPath) % 2 = 0 /\ Len(GlobalPcCost) % 2 = 0

LEMMA RecordsPairedStep ==
  ASSUME TypeOK, RecordsPaired, AnalysisStep
  PROVE  RecordsPaired'
<1>1. PathStep /\ CostStep
  BY DEF AnalysisStep
<1>2. Len(GlobalPcPath') % 2 = 0
  <2>1. CASE GlobalPcPath' = GlobalPcPath
    BY <2>1 DEF RecordsPaired
  <2>2. CASE GlobalPcPath' # GlobalPcPath
    <3>1. PICK pos \in Int : GlobalPcPath' = GlobalPcPath \o <<pc, pos - 1>>
      BY <1>1, <2>2 DEF PathStep
    <3>2. pc \in Int /\ pos - 1 \in Int /\ GlobalPcPath \in Seq(Int)
      BY DEF TypeOK
    <3>. QED  BY <3>1, <3>2, AppendPair DEF RecordsPaired
  <2>. QED  BY <2>1, <2>2
<1>3. Len(GlobalPcCost') % 2 = 0
  <2>1. CASE GlobalPcCost' = GlobalPcCost
    BY <2>1 DEF RecordsPaired
  <2>2. CASE GlobalPcCost' # GlobalPcCost
    <3>1. PICK p \in Nat, d1, d2 \in Word :
            GlobalPcCost' = GlobalPcCost \o <<[pc |-> p, d |-> d1], [pc |-> p, d |-> d2]>>
      BY <1>1, <2>2 DEF CostStep
    <3>2. /\ [pc |-> p, d |-> d1] \in CostEntry /\ [pc |-> p, d |-> d2] \in CostEntry
          /\ GlobalPcCost \in Seq(CostEntry)
      BY DEF TypeOK, CostEntry
    <3>. QED  BY <3>1, <3>2, AppendPair DEF RecordsPaired
  <2>. QED  BY <2>1, <2>2
<1>. QED  BY <1>2, <1>3 DEF RecordsPaired

(* One step of the frame is a step of the abstract log.                    *)
LEMMA StepRefines ==
  ASSUME TypeOK, RecordsPaired, AnalysisStep
  PROVE  Log!Record
<1>1. global_taint_flag \subseteq global_taint_flag'
      /\ global_branch_flag \subseteq global_branch_flag'
  BY DEF AnalysisStep
<1>2. \/ Pairs(GlobalPcPath') = Pairs(GlobalPcPath)
      \/ Log!Grows(Pairs(GlobalPcPath), Pairs(GlobalPcPath'), 1)
  <2>1. CASE GlobalPcPath' = GlobalPcPath
    BY <2>1
  <2>2. CASE GlobalPcPath' # GlobalPcPath
    <3>1. PICK pos \in Int : GlobalPcPath' = GlobalPcPath \o <<pc, pos - 1>>
      BY <2>2 DEF AnalysisStep, PathStep
    <3>2. /\ GlobalPcPath \in Seq(Int) /\ Len(GlobalPcPath) % 2 = 0
          /\ pc \in Int /\ pos - 1 \in Int
      BY DEF TypeOK, RecordsPaired
    <3>3. GlobalPcPath' \in Seq(Int) /\ Log!Grows(GlobalPcPath, GlobalPcPath', 2)
      BY <3>1, <3>2, AppendPair DEF Log!Grows
    <3>. QED  BY <3>2, <3>3, PairsGrow
  <2>. QED  BY <2>1, <2>2
<1>3. \/ Pairs(GlobalPcCost') = Pairs(GlobalPcCost)
      \/ /\ Log!Grows(Pairs(GlobalPcCost), Pairs(GlobalPcCost'), 1)
         /\ Pairs(GlobalPcCost')[Len(Pairs(GlobalPcCost'))][1].pc
              = Pairs(GlobalPcCost')[Len(Pairs(GlobalPcCost'))][2].pc
  <2>1. CASE GlobalPcCost' = GlobalPcCost
    BY <2>1
  <2>2. CASE GlobalPcCost' # GlobalPcCost
    <3>1. PICK p \in Nat, d1, d2 \in Word :
            GlobalPcCost' = GlobalPcCost \o <<[pc |-> p, d |-> d1], [pc |-> p, d |-> d2]>>
      BY <2>2 DEF AnalysisStep, CostStep
    <3>2. /\ [pc |-> p, d |-> d1] \in CostEntry /\ [pc |-> p, d |-> d2] \in CostEntry
          /\ GlobalPcCost \in Seq(CostEntry)
      BY DEF TypeOK, CostEntry
    <3>3. /\ GlobalPcCost' \in Seq(CostEntry)
          /\ Log!Grows(GlobalPcCost, GlobalPcCost', 2)
          /\ GlobalPcCost'[Len(GlobalPcCost) + 1] = [pc |-> p, d |-> d1]
          /\ GlobalPcCost'[Len(GlobalPcCost) + 2] = [pc |-> p, d |-> d2]
      BY <3>1, <3>2, AppendPair DEF RecordsPaired, Log!Grows
    <3>. QED  BY <3>2, <3>3, PairsGrow DEF RecordsPaired
  <2>. QED  BY <2>1, <2>2
<1>. QED  BY <1>1, <1>2, <1>3 DEF Log!Record

(* Every run of the frame is a run of the abstract analysis log: the       *)
(* handlers only OR into global_taint_flag and global_branch_flag, and     *)
(* each appends at most one jump (opJumpi) or one comparison (opLt, opGt,  *)
(* opEq) to the recorders of pcpath.go and pccost.go, whatever the program *)
(* and the width.  The inductive invariant is TypeOK /\ RecordsPaired: an  *)
(* append of two entries is an append of one pair only when the record     *)
(* held whole pairs before.                                                *)
THEOREM Refinement == Spec => AnalysisRefined
<1>1. Init => Log!Init
  BY DEF Init, Log!Init, Pairs, SAFE_FLAG
<1>2. Init => RecordsPaired
  BY DEF Init, RecordsPaired
<1>3. TypeOK /\ RecordsPaired /\ [Next]_vars => RecordsPaired'
  BY StepAnalysis, RecordsPairedStep
<1>4. TypeOK /\ RecordsPaired /\ [Next]_vars => [Log!Record]_Log!vars
  BY StepAnalysis, StepRefines
<1>. QED  BY <1>1, <1>2, <1>3, <1>4, TypeCorrect, PTL DEF Spec, AnalysisRefined, Log!Spec
=============================================================================
