------------------------------ MODULE LC3Word -------------------------------
(***************************************************************************)
(* The uint16_t arithmetic of src/src/cpu.c: registers, memory cells and   *)
(* instructions are words, and the fields of an instruction are cut out of *)
(* a word by shifts and masks, written here with \div and %.               *)
(***************************************************************************)
EXTENDS Integers

Word == 0 .. 65535
HighBit == 32768        \* 0x8000

(* Fault for TypeOK: the difference stays an int. *)
MinusInt(a, b) == a - b

(* uint16_t addition and subtraction wrap. *)
Plus(a, b) == (a + b) % 65536
Minus(a, b) == (a - b) % 65536

Negative(w) == w >= HighBit          \* of the word as an int16_t
Complement(w) == 65535 - w

(* a & b, for an operand that is not a constant. *)
BothHave(a, b, bit) ==
  IF (a \div bit) % 2 = 1 /\ (b \div bit) % 2 = 1 THEN bit ELSE 0

BitAnd(a, b) ==
  LET both(bit) == BothHave(a, b, bit)
  IN  both(1) + both(2) + both(4) + both(8)
      + both(16) + both(32) + both(64) + both(128)
      + both(256) + both(512) + both(1024) + both(2048)
      + both(4096) + both(8192) + both(16384) + both(32768)

(* sign_extend(value, num_bits) with size = 2^num_bits; the mask is        *)
(* size - 1, and value ^ mask is mask - value.                             *)
sign_extend(value, size) ==
  LET mask == size - 1
  IN  IF 2 * value >= size THEN (-((mask - value) + 1)) % 65536 ELSE value

-----------------------------------------------------------------------------
(* Instruction fields *)

OPCODE(i) == i \div 4096
REG1_INSTRU(i) == (i \div 512) % 8
REG2_INSTRU(i) == (i \div 64) % 8
REG3_INSTRU(i) == i % 8
NZP_INSTRU(i) == i \div 512
TRAPVECT8(i) == i % 256

IS_IMM5(i) == (i \div 32) % 2 = 1
IS_JSR(i) == (i \div 2048) % 2 = 1

SignedImm5(i) == sign_extend(i % 32, 32)
SignedOffset6(i) == sign_extend(i % 64, 64)
SignedOffset9(i) == sign_extend(i % 512, 512)
SignedOffset11(i) == sign_extend(i % 2048, 2048)

-----------------------------------------------------------------------------
(* The processor status register: mode in bit 15, priority in bits 10 to   *)
(* 8, condition code in bits 2 to 0.                                       *)

SUPERVISOR_BIT(psr) == psr \div HighBit       \* set in user mode
UserMode(psr) == SUPERVISOR_BIT(psr) = 1
PSR_PRIORITY(psr) == (psr \div 256) % 8
NZP_PSR(psr) == psr % 8

ConditionCode(value) ==
  CASE value = 0        -> 2
    [] Negative(value)  -> 4
    [] OTHER            -> 1

WithConditionCode(psr, value) == psr - NZP_PSR(psr) + ConditionCode(value)
=============================================================================
