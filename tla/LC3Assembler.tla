---------------------------- MODULE LC3Assembler ----------------------------
(* Encodings of the instructions, for writing programs to model-check. *)
EXTENDS LC3Word, Sequences

Op(opcode, r, s, low) == 4096 * opcode + 512 * r + 64 * s + low

ADDR(dr, sr1, sr2) == Op(1, dr, sr1, sr2)
ADDI(dr, sr1, imm) == Op(1, dr, sr1, 32 + (imm % 32))
ANDR(dr, sr1, sr2) == Op(5, dr, sr1, sr2)
ANDI(dr, sr1, imm) == Op(5, dr, sr1, 32 + (imm % 32))
NOT(dr, sr)        == Op(9, dr, sr, 63)
LD(dr, off)        == Op(2, dr, 0, off % 512)
LDI(dr, off)       == Op(10, dr, 0, off % 512)
LDR(dr, base, off) == Op(6, dr, base, off % 64)
LEA(dr, off)       == Op(14, dr, 0, off % 512)
ST(sr, off)        == Op(3, sr, 0, off % 512)
STI(sr, off)       == Op(11, sr, 0, off % 512)
STR(sr, base, off) == Op(7, sr, base, off % 64)
BR(nzp, off)       == Op(0, nzp, 0, off % 512)
JMP(base)          == Op(12, 0, base, 0)
JSR(off)           == Op(4, 4, 0, off % 2048)
JSRR(base)         == Op(4, 0, base, 0)
TRAP(vec)          == Op(15, 0, 0, vec)
RTI                == Op(8, 0, 0, 0)
ILLEGAL            == Op(13, 0, 0, 0)

Always == 7
IfZeroOrPositive == 3
IfNotZero == 5

(* The words of seq at origin and up. *)
At(origin, seq) == [a \in origin .. origin + Len(seq) - 1 |-> seq[a - origin + 1]]

(* Two parts of a program. *)
f ++ g == [a \in DOMAIN f \cup DOMAIN g |-> IF a \in DOMAIN f THEN f[a] ELSE g[a]]
=============================================================================
