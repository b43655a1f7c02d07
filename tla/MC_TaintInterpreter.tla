------------------------ MODULE MC_TaintInterpreter ------------------------
(***************************************************************************)
(* Small contracts for TLC.  Each is written with the opcode names of      *)
(* EVMCode; the comment gives the offset of the first opcode on its line.  *)
(***************************************************************************)
EXTENDS TaintInterpreter

(* Guarded add: a + b, then "a + b < a" ISZERO JUMPI (SafeMath add, the    *)
(* ADD LT ISZERO template right at the ADD).                               *)
AddGuarded ==
  << JUMPDEST, PUSH1, 0, CALLDATALOAD, PUSH1, 1, CALLDATALOAD,   \* 0
     DUP2, ADD, LT, ISZERO, PUSH1, 15, JUMPI,                    \* 7
     STOP, JUMPDEST, STOP >>                                     \* 14

(* Unguarded add of two call-data words, then callvalue - sum.             *)
AddSubUnguarded ==
  << JUMPDEST, PUSH1, 0, CALLDATALOAD, PUSH1, 1, CALLDATALOAD,   \* 0
     ADD, CALLVALUE, SUB, PUSH1, 14, JUMPI,                      \* 7
     STOP, JUMPDEST, STOP >>                                     \* 13

(* Product of two call-data words, branch on it.                           *)
MulBranch ==
  << JUMPDEST, PUSH1, 0, CALLDATALOAD, PUSH1, 1, CALLDATALOAD,   \* 0
     MUL, PUSH1, 12, JUMPI, STOP, JUMPDEST, STOP >>              \* 7

(* Tainted LT feeding a JUMPI, then GT and EQ against callvalue.           *)
Comparisons ==
  << JUMPDEST, PUSH1, 1, CALLDATALOAD, PUSH1, 0, CALLDATALOAD,   \* 0
     LT, PUSH1, 12, JUMPI, STOP,                                 \* 7
     JUMPDEST, PUSH1, 0, CALLDATALOAD, CALLVALUE, GT,            \* 12
     PUSH1, 0, CALLDATALOAD, CALLVALUE, EQ, STOP >>              \* 18

(* EXP, SLT, MULMOD and SGT, which skip the taint stack; the load at       *)
(* offset 14 is the selector load; the final ADD's operands are tagged     *)
(* with the wrong entries.                                                 *)
Unpaired ==
  << JUMPDEST, PUSH1, 0, CALLDATALOAD, PUSH1, 2, EXP,            \* 0
     PUSH1, 1, CALLDATALOAD, SLT, CALLVALUE, PUSH1, 0,           \* 7
     CALLDATALOAD, MULMOD, PUSH1, 255, ADD, DUP1, SGT, STOP >>   \* 14

(* A loop summing two call-data words until aborted.                       *)
AddLoop ==
  << JUMPDEST, PUSH1, 0, CALLDATALOAD, PUSH1, 1, CALLDATALOAD,   \* 0
     ADD, POP, PUSH1, 0, JUMP >>                                 \* 7

(* ADDMOD of two call-data words modulo callvalue (0 is allowed); the      *)
(* JUMPDEST after it ends the forward scan.                                *)
AddmodValue ==
  << JUMPDEST, CALLVALUE, PUSH1, 1, CALLDATALOAD, PUSH1, 0,      \* 0
     CALLDATALOAD, ADDMOD, JUMPDEST, STOP >>                     \* 7

(* DIV, MOD, NOT, ISZERO, PC, DUPs and SWAPs, ending on INVALID.          *)
Misc ==
  << PC, CALLVALUE, DIV, PUSH1, 7, SWAP1, MOD, NOT, ISZERO,      \* 0
     DUP1, DUP2, DUP3, DUP4, SWAP2, POP, INVALID >>              \* 9

(* Stack underflow, and stack overflow past StackLimit.                    *)
Underflow == << ADD >>
Overflow  == [i \in 1..14 |-> IF i % 2 = 1 THEN PUSH1 ELSE 0]

(* A tainted add in the contract's first block: no horizon opcode before   *)
(* it, so the backward scan leaves the code.                               *)
FirstBlockAdd ==
  << CALLVALUE, CALLVALUE, ADD, PUSH1, 7, JUMP, STOP, JUMPDEST, STOP >>

(* JUMPI to an offset that is not a JUMPDEST.                              *)
BadJumpi ==
  << JUMPDEST, PUSH1, 0, CALLDATALOAD, PUSH1, 3, JUMPI, STOP >>

(* The bitwise, shift and signed handlers on call data and callvalue.      *)
Bitwise ==
  << PUSH1, 0, CALLDATALOAD, PUSH1, 1, CALLDATALOAD, AND,        \* 0
     CALLVALUE, OR, CALLVALUE, XOR, PUSH1, 3, SHL,               \* 7
     PUSH1, 1, SHR, PUSH1, 2, SAR, PUSH1, 9, SAR,                \* 14
     PUSH1, 0, BYTE, CALLVALUE, SDIV, CALLVALUE, SMOD, STOP >>   \* 23

(* The environment and block handlers, the higher DUPs and SWAPs, and     *)
(* pushes of two bytes and of 32 bytes running past the code end.          *)
Environment ==
  << ADDRESS, ORIGIN, CALLER, GASPRICE, COINBASE, DUP5, SWAP5,   \* 0
     POP, POP, POP, POP, POP, POP,                               \* 7
     TIMESTAMP, NUMBER, DIFFICULTY, GASLIMIT, GAS, SWAP4,        \* 13
     POP, POP, POP, POP, POP,                                    \* 19
     CALLDATASIZE, CODESIZE, RETURNDATASIZE, POP, POP, POP,      \* 24
     PUSH1, 1, CALLDATALOAD, BLOCKHASH, BALANCE, EXTCODEHASH,    \* 30
     EXTCODESIZE, POP, PUSH2, 1, 2, PUSH32, 7 >>                 \* 36

(* SIGNEXTEND of a call-data word, which skips the taint stack.           *)
SignExtendValue ==
  << PUSH1, 0, CALLDATALOAD, PUSH1, 0, SIGNEXTEND, STOP >>

(* The contracts whose handlers keep the stacks paired, and all of them.   *)
PairedPrograms ==
  {AddGuarded, AddSubUnguarded, MulBranch, Comparisons, AddLoop, AddmodValue,
   Misc, Underflow, Overflow, BadJumpi, Bitwise, Environment}
AllPrograms == PairedPrograms \cup {Unpaired, FirstBlockAdd, SignExtendValue}

(* Every contract but FirstBlockAdd, whose backward scan never ends.       *)
NoScanHang == AllPrograms \ {FirstBlockAdd}

MCInputs == {0, 1, 255}

(* A block number below 257 and one above it, so that opBlockhash's window *)
(* starts at 0 in one and at number - 256 in the other.                    *)
MCBlockNumbers == {2, 300}

(* One contract each, for the runs that exhibit a single behaviour.        *)
OnlyUnpaired        == {Unpaired}
OnlyAddSubUnguarded == {AddSubUnguarded}
OnlyMulBranch       == {MulBranch}
OnlyComparisons     == {Comparisons}
OnlyAddGuarded      == {AddGuarded}
OnlyFirstBlockAdd   == {FirstBlockAdd}
OnlyAddmodValue     == {AddmodValue}

=============================================================================
