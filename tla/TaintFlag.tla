----------------------------- MODULE TaintFlag -----------------------------
(***************************************************************************)
(* The taint flags of core/vm/taint_flag.go.  A flag word of the code is a *)
(* bit set; here it is the set of its bits, so that "a | b" is a \cup b,  *)
(* "(a & F) > 0" is F \in a, and SAFE_FLAG (0) is the empty set.           *)
(***************************************************************************)
CALLDATA_FLAG             == "CALLDATA"
POTENTIAL_OVERFLOW_FLAG   == "POTENTIAL_OVERFLOW"
PROTECTED_OVERFLOW_FLAG   == "PROTECTED_OVERFLOW"
OVERFLOW_FLAG             == "OVERFLOW"
BRANCH_FLAG               == "BRANCH"

Flags == {CALLDATA_FLAG, POTENTIAL_OVERFLOW_FLAG, PROTECTED_OVERFLOW_FLAG,
          OVERFLOW_FLAG, BRANCH_FLAG}

Tag == SUBSET Flags

SAFE_FLAG == {}

(* The bits that report an arithmetic finding.                             *)
FindingFlags == {POTENTIAL_OVERFLOW_FLAG, PROTECTED_OVERFLOW_FLAG, OVERFLOW_FLAG}

(* The bits that say an overflow happened (protected or not).              *)
OverflowClass == {PROTECTED_OVERFLOW_FLAG, OVERFLOW_FLAG}
=============================================================================
