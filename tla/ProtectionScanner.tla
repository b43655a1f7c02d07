------------------------- MODULE ProtectionScanner -------------------------
(***************************************************************************)
(* checkAddProtection, checkSubProtection and checkMulProtection of        *)
(* core/vm/instructions.go: does the arithmetic at pc sit next to a        *)
(* SafeMath guard idiom?                                                   *)
(*                                                                         *)
(* Each check is one or two linear scans over code offsets n, forward      *)
(* (n++) or backward (n--) from pc.  A scan stops at the first horizon     *)
(* opcode; before that, it answers true at the first offset where a       *)
(* template matches.  Contract.GetOp answers STOP outside the code and     *)
(* STOP is not a horizon opcode, so a scan that meets no horizon opcode    *)
(* inside the code walks through 2^64 out-of-range offsets (n is a         *)
(* uint64): the model calls that outcome "diverge".                        *)
(***************************************************************************)
EXTENDS EVMCode, Integers

(* The opcodes that end a scan.                                            *)
Horizon == {JUMP, JUMPI, JUMPDEST, CREATE, CALL, CALLCODE, RETURN,
            DELEGATECALL, STATICCALL, REVERT, SELFDESTRUCT}

(* The outcomes of one scan.                                               *)
ScanResult == {"match", "nomatch", "diverge"}

(* A forward scan from pc with template M: the first horizon offset at or  *)
(* after pc bounds the offsets where M is tried.                           *)
ScanForward(code, pc, M(_, _)) ==
  LET stops == {n \in pc..(Len(code) - 1) : GetOp(code, n) \in Horizon}
      first == CHOOSE n \in stops : \A m \in stops : n <= m
      last  == IF stops = {} THEN Len(code) - 1 ELSE first - 1
  IN  IF \E n \in pc..last : M(code, n) THEN "match"
      ELSE IF stops = {} THEN "diverge" ELSE "nomatch"

(* A backward scan from pc with template M.                                *)
ScanBackward(code, pc, M(_, _)) ==
  LET stops == {n \in 0..pc : GetOp(code, n) \in Horizon}
      last  == CHOOSE n \in stops : \A m \in stops : m <= n
      first == IF stops = {} THEN 0 ELSE last + 1
  IN  IF \E n \in first..pc : M(code, n) THEN "match"
      ELSE IF stops = {} THEN "diverge" ELSE "nomatch"

(* The templates, each an exact opcode sequence at fixed offsets from n.   *)
AddForwardTemplate(code, n) ==
  LET op(k) == GetOp(code, n + k) IN
  \/ op(0) = DUP4 /\ op(1) = DUP2 /\ op(2) = LT /\ op(3) = ISZERO
  \/ op(0) = ADD /\ op(1) = LT /\ op(2) = ISZERO
  \/ op(0) = ADD /\ op(1) = GT /\ op(2) = JUMPDEST /\ op(3) = ISZERO

AddBackwardTemplate(code, n) ==
  LET op(k) == GetOp(code, n + k) IN
  \/ op(0) = ADD /\ op(1) = LT /\ op(2) = ISZERO
  \/ op(0) = ADD /\ op(-15) = SUB /\ op(-14) = DUP4 /\ op(-13) = GT
     /\ op(-12) = ISZERO

SubBackwardTemplate(code, n) ==
  LET op(k) == GetOp(code, n + k) IN
  \/ op(0) = SUB /\ op(-14) = DUP3 /\ op(-13) = DUP3 /\ op(-12) = GT
     /\ op(-11) = ISZERO
  \/ op(0) = SUB /\ op(-11) = DUP2 /\ op(-10) = DUP4 /\ op(-9) = LT
     /\ op(-8) = ISZERO
  \/ op(0) = SUB /\ op(-15) = DUP2 /\ op(-14) = DUP4 /\ op(-13) = LT
     /\ op(-12) = ISZERO

MulForwardTemplate(code, n) ==
  LET op(k) == GetOp(code, n + k) IN
  op(0) = PUSH1 /\ op(2) = DUP5 /\ op(3) = EQ /\ op(22) = DIV /\ op(23) = EQ

MulBackwardTemplate(code, n) ==
  LET op(k) == GetOp(code, n + k) IN
  op(0) = MUL /\ op(-15) = DIV /\ op(-14) = DUP4 /\ op(-13) = GT
  /\ op(-12) = ISZERO

(* A check runs its forward scan, then (when that found nothing) its       *)
(* backward scan; a diverging scan never returns.                          *)
ForwardThenBackward(fwd, code, pc, B(_, _)) ==
  IF fwd = "nomatch" THEN ScanBackward(code, pc, B) ELSE fwd

checkAddProtection(code, pc) ==
  ForwardThenBackward(ScanForward(code, pc, AddForwardTemplate), code, pc,
                      AddBackwardTemplate)

checkSubProtection(code, pc) == ScanBackward(code, pc, SubBackwardTemplate)

checkMulProtection(code, pc) ==
  ForwardThenBackward(ScanForward(code, pc, MulForwardTemplate), code, pc,
                      MulBackwardTemplate)
=============================================================================
