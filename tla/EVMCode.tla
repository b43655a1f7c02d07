------------------------------ MODULE EVMCode ------------------------------
(***************************************************************************)
(* Words, opcode byte values and code access of the EVM, as the taint      *)
(* overlay of core/vm/instructions.go uses them.  Words are W-bit unsigned *)
(* integers (W = 256 in the code); the model keeps the width as a          *)
(* parameter so that wrap-around happens at small values.                  *)
(***************************************************************************)
EXTENDS Integers, Sequences

CONSTANT W    \* word width in bits

\* A word holds at least a byte.  2^W >= 2^8 is a consequence of W >= 8
\* that the prover cannot derive without induction over W, so it is stated
\* with the assumption and evaluated by TLC.
ASSUME WidthAssumption == W \in Nat /\ W >= 8 /\ 2^W \in Nat /\ 2^W >= 256

Modulus == 2^W
Word    == 0..(Modulus - 1)
Byte    == 0..255

(* The two's-complement reading of a word (uint256 Slt/Sgt/Abs).           *)
Signed(v) == IF v >= Modulus \div 2 THEN v - Modulus ELSE v

(* uint256.Int.Abs: the absolute value of v read as a signed word.  The    *)
(* most negative word is its own absolute value.                           *)
Abs(v) == IF v >= Modulus \div 2 THEN (Modulus - v) % Modulus ELSE v

(* uint256.Int.Exp: b^e modulo 2^W, by squaring.  The table holds words   *)
(* only; the membership test states that for the prover and is always     *)
(* true.                                                                   *)
ExpMod(b, e) ==
  LET pow[i \in 0..e] ==
        IF i = 0 THEN 1 % Modulus
        ELSE LET half == pow[i \div 2]
             IN  (half * half * (IF i % 2 = 1 THEN b ELSE 1)) % Modulus
  IN  IF pow[e] \in Word THEN pow[e] ELSE 0

(* A value of the handlers below that is always a word; the test states   *)
(* that for the prover.                                                    *)
AsWord(r) == IF r \in Word THEN r ELSE 0

(* The magnitude of an integer (the signed operands of SDiv and SMod).     *)
Mag(i) == IF i < 0 THEN -i ELSE i

(* uint256.Int.SDiv: the signed quotient rounded toward zero, 0 for a zero *)
(* divisor; the most negative word divided by -1 wraps to itself.          *)
SDivWord(x, y) ==
  IF y = 0 THEN 0
  ELSE LET q == Mag(Signed(x)) \div Mag(Signed(y))
       IN  (IF (Signed(x) < 0) = (Signed(y) < 0) THEN q ELSE -q) % Modulus

(* uint256.Int.SMod: the remainder takes the sign of the dividend.         *)
SModWord(x, y) ==
  IF y = 0 THEN 0
  ELSE LET r == Mag(Signed(x)) % Mag(Signed(y))
       IN  (IF Signed(x) < 0 THEN -r ELSE r) % Modulus

(* Bit i of a natural number.                                              *)
Bit(v, i) == (v \div 2^i) % 2

(* uint256.Int.And, Or and Xor, bit by bit over the W bits of a word: the  *)
(* function sums the combined bits below position i.                       *)
BitwiseWord(x, y, op(_, _)) ==
  LET acc[i \in 0..W] ==
        IF i = 0 THEN 0 ELSE acc[i - 1] + 2^(i - 1) * op(Bit(x, i - 1), Bit(y, i - 1))
  IN  AsWord(acc[W])

AndBit(a, b) == a * b
OrBit(a, b)  == IF a + b > 0 THEN 1 ELSE 0
XorBit(a, b) == (a + b) % 2

AndWord(x, y) == BitwiseWord(x, y, AndBit)
OrWord(x, y)  == BitwiseWord(x, y, OrBit)
XorWord(x, y) == BitwiseWord(x, y, XorBit)

(* uint256.Int.Byte: byte th of the word counted from the most significant *)
(* (W \div 8 bytes; 32 in the code), 0 past the last one.                  *)
ByteWord(th, val) ==
  IF th < W \div 8 THEN AsWord((val \div 2^(8 * (W \div 8 - 1 - th))) % 256) ELSE 0

(* uint256.Int.ExtendSign: extend the sign bit of byte back (counted from  *)
(* the least significant); a word from byte W \div 8 - 1 on is unchanged.  *)
SignExtendWord(back, num) ==
  IF back >= W \div 8 - 1 THEN num
  ELSE LET b == 8 * back + 7
       IN  AsWord(IF Bit(num, b) = 1 THEN Modulus - 2^(b + 1) + (num % 2^(b + 1))
                  ELSE num % 2^(b + 1))

(* Lsh and Rsh by shift < W bits (256 in the code); 0 otherwise.           *)
ShlWord(shift, value) == IF shift < W THEN AsWord((value * 2^shift) % Modulus) ELSE 0
ShrWord(shift, value) == IF shift < W THEN AsWord(value \div 2^shift) ELSE 0

(* opSAR: past W bits (GtUint64(256)) the sign fills the word; otherwise   *)
(* SRsh, the floor of the signed value over 2^shift.                       *)
SarWord(shift, value) ==
  IF shift > W THEN (IF Signed(value) >= 0 THEN 0 ELSE Modulus - 1)
  ELSE AsWord((Signed(value) \div 2^shift) % Modulus)

(* makePush: n immediate bytes after pc, read big-endian, with the bytes   *)
(* past the code end read as 0 (the Code[startMin:endMin] slice padded by  *)
(* RightPadBytes), reduced to the word width.                              *)
PushValue(code, at, n) ==
  LET acc[i \in 0..n] ==
        IF i = 0 THEN 0
        ELSE (acc[i - 1] * 256 + (IF at + i \in 0..(Len(code) - 1)
                                  THEN code[at + i + 1] ELSE 0)) % Modulus
  IN  AsWord(acc[n])

(***************************************************************************)
(* Opcode byte values (core/vm/opcodes.go).                                *)
(***************************************************************************)
STOP == 0
ADD == 1
MUL == 2
SUB == 3
DIV == 4
SDIV == 5
MOD == 6
SMOD == 7
ADDMOD == 8
MULMOD == 9
EXP == 10
SIGNEXTEND == 11
LT == 16
GT == 17
SLT == 18
SGT == 19
EQ == 20
ISZERO == 21
AND == 22
OR == 23
XOR == 24
NOT == 25
BYTE == 26
SHL == 27
SHR == 28
SAR == 29
ADDRESS == 48
BALANCE == 49
ORIGIN == 50
CALLER == 51
CALLVALUE == 52
CALLDATALOAD == 53
CALLDATASIZE == 54
CODESIZE == 56
GASPRICE == 58
EXTCODESIZE == 59
RETURNDATASIZE == 61
EXTCODEHASH == 63
BLOCKHASH == 64
COINBASE == 65
TIMESTAMP == 66
NUMBER == 67
DIFFICULTY == 68
GASLIMIT == 69
POP == 80
JUMP == 86
JUMPI == 87
PC == 88
GAS == 90
JUMPDEST == 91
PUSH1 == 96
PUSH2 == 97
PUSH32 == 127
DUP1 == 128
DUP2 == 129
DUP3 == 130
DUP4 == 131
DUP5 == 132
DUP16 == 143
SWAP1 == 144
SWAP2 == 145
SWAP4 == 147
SWAP5 == 148
SWAP16 == 159
CREATE == 240
CALL == 241
CALLCODE == 242
RETURN == 243
DELEGATECALL == 244
STATICCALL == 250
REVERT == 253
INVALID == 254
SELFDESTRUCT == 255

(* Contract.GetOp: the byte at offset n, or STOP outside the code.         *)
GetOp(code, n) == IF n \in 0..(Len(code) - 1) THEN code[n + 1] ELSE STOP

(* The offsets of the code that start an instruction rather than lie in   *)
(* the immediate data of a PUSHn (codeBitmap of core/vm/analysis.go): the  *)
(* k-th instruction starts where the (k-1)-th one and its data end.        *)
InstrStarts(code) ==
  LET at[k \in 0..Len(code)] ==
        IF k = 0 THEN 0
        ELSE LET prev == at[k - 1]
                 op   == GetOp(code, prev)
             IN  prev + 1 + (IF op \in PUSH1..PUSH32 THEN op - PUSH1 + 1 ELSE 0)
  IN  {at[k] : k \in 0..Len(code)}

(* The JUMPDEST instructions of the code: the offsets at which             *)
(* Contract.validJumpdest holds.                                           *)
JumpdestSet(code) ==
  {pos \in InstrStarts(code) \cap 0..(Len(code) - 1) :
     GetOp(code, pos) = JUMPDEST}
=============================================================================
