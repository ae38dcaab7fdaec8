-------------------------- MODULE SimulatorProofs ---------------------------
(***************************************************************************)
(* What holds of the simulator for every program, every input and every    *)
(* set of interrupting devices: types, the service of exceptions, the      *)
(* order of interrupts, the confinement of user programs, the clock, and   *)
(* the way back from handlers.                                             *)
(***************************************************************************)
EXTENDS Contexts, LeastNumber, TLAPS

-----------------------------------------------------------------------------
(* The word arithmetic of the CPU *)

(* Cited wherever a word is a number, so that the interval stays folded. *)
LEMMA WordRange ==
  \A x : x \in Word <=> x \in Int /\ 0 <= x /\ x <= 65535
<1>1. Word \subseteq Int
  BY SMTT(30) DEF Word
<1>2. \A x \in Int : x \in Word <=> 0 <= x /\ x <= 65535
  BY SMTT(30) DEF Word
<1> SUFFICES ASSUME NEW x PROVE x \in Word <=> x \in Int /\ 0 <= x /\ x <= 65535
  OBVIOUS
<1>3. CASE x \in Int
  BY <1>2, <1>3, SMT
<1>4. CASE x \notin Int
  <2>1. x \notin Word
    BY <1>1, <1>4
  <2>2. ~ (x \in Int /\ 0 <= x /\ x <= 65535)
    BY <1>4, SMT
  <2> QED BY <2>1, <2>2, SMT
<1> QED
  BY <1>3, <1>4

(* Sums, differences and complements of words are words. *)
LEMMA ArithmeticIsWord ==
  ASSUME NEW a \in Word, NEW b \in Word
  PROVE  /\ Plus(a, b) \in Word
         /\ Minus(a, b) \in Word
         /\ Complement(a) \in Word
BY WordRange DEF Plus, Minus, Complement

(* The bits of a conjunction add up to a word. *)
LEMMA BitAndIsWord ==
  ASSUME NEW a, NEW b
  PROVE  BitAnd(a, b) \in Word
<1> DEFINE both(bit) == BothHave(a, b, bit)
           low == both(1) + both(2) + both(4) + both(8)
           mid == both(16) + both(32) + both(64) + both(128)
           high == both(256) + both(512) + both(1024) + both(2048)
           top == both(4096) + both(8192)
           last == both(16384) + both(32768)
<1>1. \A bit : both(bit) = 0 \/ both(bit) = bit
  BY DEF BothHave
<1>2. BitAnd(a, b)
        = both(1) + both(2) + both(4) + both(8)
          + both(16) + both(32) + both(64) + both(128)
          + both(256) + both(512) + both(1024) + both(2048)
          + both(4096) + both(8192) + both(16384) + both(32768)
  BY SMT DEF BitAnd
<1> HIDE DEF both
<1>3. low \in Int /\ 0 <= low /\ low <= 15
  BY <1>1
<1>4. mid \in Int /\ 0 <= mid /\ mid <= 240
  BY <1>1
<1>5. high \in Int /\ 0 <= high /\ high <= 3840
  BY <1>1
<1>6. top \in Int /\ 0 <= top /\ top <= 12288
  BY <1>1, SMT
<1>7. last \in Int /\ 0 <= last /\ last <= 49152
  BY <1>1, SMT
<1>8. \A bit \in {1, 2, 4, 8, 16, 32, 64, 128, 256, 512, 1024, 2048,
                  4096, 8192, 16384, 32768} : both(bit) \in Int
  BY <1>1
<1>9. BitAnd(a, b) = low + mid + high + top + last
  BY <1>2, <1>8
<1> HIDE DEF low, mid, high, top, last
<1> QED
  BY <1>3, <1>4, <1>5, <1>6, <1>9, <1>7, WordRange

(* sign_extend keeps the value as a signed number: it subtracts the size   *)
(* of the field, modulo 2^16, exactly when the field's top bit is set.     *)
THEOREM SignExtendIsExtension ==
  ASSUME NEW size \in {32, 64, 256, 512, 2048}, NEW value \in Int,
         0 <= value, value < size
  PROVE  /\ sign_extend(value, size) \in Word
         /\ sign_extend(value, size)
              = IF 2 * value >= size THEN 65536 + value - size ELSE value
<1>1. size \in Int /\ 0 < size /\ size <= 2048
  OBVIOUS
<1>2. CASE 2 * value >= size
  <2>1. sign_extend(value, size) = (-(((size - 1) - value) + 1)) % 65536
    BY <1>2 DEF sign_extend
  <2>2. (-(((size - 1) - value) + 1)) = value - size
    BY <1>1
  <2>3. \A d \in Int : -2048 <= d /\ d <= -1 => d % 65536 = 65536 + d
    BY SMT
  <2>4. (value - size) % 65536 = 65536 + (value - size)
    BY <1>1, <2>3
  <2> QED BY <1>1, <1>2, <2>1, <2>2, <2>4, WordRange
<1>3. CASE ~ (2 * value >= size)
  BY <1>1, <1>3, WordRange DEF sign_extend
<1> QED
  BY <1>2, <1>3

(* Sign-extended fields of an instruction are words. *)
LEMMA OffsetsAreWords ==
  ASSUME NEW i \in Word
  PROVE  /\ SignedImm5(i) \in Word /\ SignedOffset6(i) \in Word
         /\ SignedOffset9(i) \in Word /\ SignedOffset11(i) \in Word
<1>1. i \in Int
  BY WordRange
<1>2. /\ i % 32 \in Int /\ 0 <= i % 32 /\ i % 32 < 32
      /\ i % 64 \in Int /\ 0 <= i % 64 /\ i % 64 < 64
      /\ i % 512 \in Int /\ 0 <= i % 512 /\ i % 512 < 512
      /\ i % 2048 \in Int /\ 0 <= i % 2048 /\ i % 2048 < 2048
  BY <1>1
<1> QED
  BY <1>2, SignExtendIsExtension
     DEF SignedImm5, SignedOffset6, SignedOffset9, SignedOffset11

(* The register fields of an instruction name R0 to R7. *)
LEMMA FieldsAreRegisters ==
  ASSUME NEW i \in Word
  PROVE  /\ REG1_INSTRU(i) \in 0 .. 7 /\ REG2_INSTRU(i) \in 0 .. 7
         /\ REG3_INSTRU(i) \in 0 .. 7
<1>1. \A n \in Int : n % 8 \in 0 .. 7
  OBVIOUS
<1>2. i \in Int /\ i \div 512 \in Int /\ i \div 64 \in Int
  BY WordRange
<1> QED
  BY <1>1, <1>2 DEF REG1_INSTRU, REG2_INSTRU, REG3_INSTRU

(* Whatever is computed, an instruction that sets the condition code stays *)
(* in its mode and at its priority.                                        *)
THEOREM ConditionCodeKeepsMode ==
  ASSUME NEW psr \in Word, NEW value \in Word
  PROVE  /\ WithConditionCode(psr, value) \in Word
         /\ UserMode(WithConditionCode(psr, value)) = UserMode(psr)
         /\ PSR_PRIORITY(WithConditionCode(psr, value)) = PSR_PRIORITY(psr)
<1>1. ConditionCode(value) \in {1, 2, 4}
  BY DEF ConditionCode
<1>2. psr \in Int /\ 0 <= psr /\ psr <= 65535
  BY WordRange
<1>3. \A c \in {1, 2, 4} :
        /\ (psr - (psr % 8)) + c \in Int
        /\ 0 <= (psr - (psr % 8)) + c /\ (psr - (psr % 8)) + c <= 65535
        /\ ((psr - (psr % 8)) + c) \div 32768 = psr \div 32768
        /\ ((psr - (psr % 8)) + c) \div 256 = psr \div 256
  BY <1>2, SMT
<1>4. WithConditionCode(psr, value) = (psr - (psr % 8)) + ConditionCode(value)
  BY DEF WithConditionCode, NZP_PSR
<1> HIDE DEF ConditionCode
<1>5. /\ WithConditionCode(psr, value) \in Word
      /\ WithConditionCode(psr, value) \div 32768 = psr \div 32768
      /\ WithConditionCode(psr, value) \div 256 = psr \div 256
  BY <1>1, <1>3, <1>4, WordRange
<1> QED
  BY <1>5 DEF UserMode, SUPERVISOR_BIT, HighBit, PSR_PRIORITY

(* The status a handler starts with is in supervisor mode and at the       *)
(* priority it is given.                                                   *)
LEMMA HandlerStatus ==
  ASSUME NEW priority \in 0 .. 7
  PROVE  /\ 2 + 256 * priority \in Word
         /\ ~ UserMode(2 + 256 * priority)
         /\ PSR_PRIORITY(2 + 256 * priority) = priority
<1>1. 2 + 256 * priority \in Int /\ 0 <= 2 + 256 * priority /\ 2 + 256 * priority <= 65535
  OBVIOUS
<1>2. (2 + 256 * priority) \div 32768 = 0
  OBVIOUS
<1>3. ((2 + 256 * priority) \div 256) % 8 = priority
  OBVIOUS
<1> QED
  BY <1>1, <1>2, <1>3, WordRange DEF UserMode, SUPERVISOR_BIT, HighBit, PSR_PRIORITY

(* The priority field of a status has three bits. *)
LEMMA PriorityRange ==
  ASSUME NEW psr \in Word
  PROVE  PSR_PRIORITY(psr) \in 0 .. 7
<1>1. \A n \in Int : n % 8 \in 0 .. 7
  OBVIOUS
<1>2. psr \div 256 \in Int
  BY WordRange
<1> QED
  BY <1>1, <1>2 DEF PSR_PRIORITY

-----------------------------------------------------------------------------
(* The bus *)

(* Any address can be read, and gives a word. *)
LEMMA ReadIsWord ==
  ASSUME NEW b, IsBus(b), NEW a
  PROVE  bus_read(b, a) \in Word
<1>1. 0 \in Word /\ 32768 \in Word
  BY WordRange
<1>2. b.kbsr \in Word /\ b.kbdr \in Word /\ b.dsr \in Word
  BY DEF IsBus
<1>3. Cell(b.mem, a) \in Word
  BY <1>1 DEF IsBus, Cell
<1> QED
  BY <1>1, <1>2, <1>3 DEF bus_read, keyboard_read_register, display_read_register, INIT_DDR

(* The memory and the output are those before the read. *)
LEMMA AfterReadIsBus ==
  ASSUME NEW b, IsBus(b), NEW a
  PROVE  /\ IsBus(after_read(b, a))
         /\ after_read(b, a).mem = b.mem
<1>1. b.kbsr \in Word => ClearReady(b.kbsr) \in Word
  <2>1. \A n \in Int : 0 <= n /\ n <= 65535 =>
          n % 32768 \in Int /\ 0 <= n % 32768 /\ n % 32768 <= 65535
    BY SMT
  <2> QED BY <2>1, WordRange DEF ClearReady, HighBit
<1> QED
  BY <1>1 DEF IsBus, after_read

(* Setting the ready bit of a word gives a word. *)
LEMMA ReadyIsWord ==
  ASSUME NEW w \in Word
  PROVE  SetReady(w) \in Word
<1>1. \A n \in Int : 0 <= n /\ n <= 65535 =>
        /\ (n % 32768) + 32768 \in Int
        /\ 0 <= (n % 32768) + 32768 /\ (n % 32768) + 32768 <= 65535
  BY SMT
<1> QED
  BY <1>1, WordRange DEF SetReady, HighBit

(* A write leaves a bus, and puts the word in memory if it goes there. *)
LEMMA WriteIsBus ==
  ASSUME NEW b, IsBus(b), NEW a \in Word, NEW v \in Word
  PROVE  IsBus(bus_write(b, a, v))
<1>1. CASE a = KBSR \/ a = DSR
  <2>1. KeepReady(b.kbsr, v) \in Word /\ KeepReady(b.dsr, v) \in Word
    BY ReadyIsWord DEF KeepReady
  <2>2. \/ bus_write(b, a, v) = [b EXCEPT !.kbsr = KeepReady(b.kbsr, v)]
        \/ bus_write(b, a, v) = [b EXCEPT !.dsr = KeepReady(b.dsr, v)]
    BY <1>1 DEF bus_write, keyboard_write_register, display_write_register, KBSR, KBDR, DSR, DDR
  <2> QED BY <2>1, <2>2 DEF IsBus
<1>2. CASE a = KBDR
  BY <1>2 DEF bus_write, keyboard_write_register, display_write_register, KBSR, KBDR, DSR, DDR
<1>3. CASE a = DDR
  <2>1. bus_write(b, a, v) = [b EXCEPT !.output = Append(b.output, v % 256)]
    BY <1>3 DEF bus_write, keyboard_write_register, display_write_register, KBSR, KBDR, DSR, DDR
  <2>2. v % 256 \in 0 .. 255
    BY WordRange
  <2>3. b.output \in Seq(0 .. 255)
    BY DEF IsBus
  <2>4. Append(b.output, v % 256) \in Seq(0 .. 255)
    BY <2>2, <2>3
  <2> QED BY <2>1, <2>4, ZenonT(40) DEF IsBus
<1>4. CASE a \notin {KBSR, KBDR, DSR, DDR}
  <2> DEFINE mem == SetCell(b.mem, a, v)
  <2>1. bus_write(b, a, v) = [b EXCEPT !.mem = mem]
    BY <1>4 DEF bus_write
  <2>2. DOMAIN mem = DOMAIN b.mem \cup {a} /\ mem \in [DOMAIN mem -> Word]
    BY DEF SetCell, IsBus
  <2> HIDE DEF mem
  <2>3. /\ DOMAIN b.mem \subseteq Word
        /\ b \in [mem : {b.mem}, kbsr : Word, kbdr : Word, dsr : Word, output : Seq(0 .. 255)]
    BY DEF IsBus
  <2>4. [b EXCEPT !.mem = mem].mem = mem
    BY <2>3
  <2>5. [b EXCEPT !.mem = mem] \in
          [mem : {mem}, kbsr : Word, kbdr : Word, dsr : Word, output : Seq(0 .. 255)]
    BY <2>3
  <2> QED BY <2>1, <2>2, <2>3, <2>4, <2>5 DEF IsBus
<1> QED
  BY <1>1, <1>2, <1>3, <1>4

(* A character that comes in leaves a bus with the memory it had. *)
LEMMA OnInputIsBus ==
  ASSUME NEW b, IsBus(b), NEW char \in 0 .. 255
  PROVE  IsBus(keyboard_on_input(b, char))
<1>1. sign_extend(char, 256) \in Word
  BY SignExtendIsExtension
<1>2. SetReady(b.kbsr) \in Word
  BY ReadyIsWord DEF IsBus
<1> QED
  BY <1>1, <1>2 DEF IsBus, keyboard_on_input

-----------------------------------------------------------------------------
(* The registers *)

RegistersOK(regs) == regs \in [lc3_reg -> Word]

(* The fields of an instruction name general registers, whose values, like *)
(* the PC and the status, are words.                                       *)
LEMMA OperandsAreWords ==
  ASSUME TypeOK
  PROVE  /\ PC \in Word /\ PSR \in Word /\ BaseR \in Word
         /\ DR \in 0 .. 7 /\ registers[DR] \in Word
         /\ second_operand \in Word
         /\ compute_direct_address \in Word
         /\ compute_base_plus_offset \in Word
<1>1. instruction \in Word /\ registers \in [lc3_reg -> Word]
  BY DEF TypeOK
<1>2. /\ DR \in 0 .. 7 /\ REG2_INSTRU(instruction) \in 0 .. 7
      /\ REG3_INSTRU(instruction) \in 0 .. 7
  BY <1>1, FieldsAreRegisters DEF DR
<1>3. \A r \in lc3_reg : registers[r] \in Word
  BY <1>1
<1>4. PC \in Word /\ PSR \in Word
  BY <1>3 DEF PC, PSR, lc3_reg, REG_PC, REG_PSR
<1>5. 0 .. 7 \subseteq lc3_reg
  BY DEF lc3_reg
<1>6. BaseR \in Word /\ registers[DR] \in Word /\ registers[REG3_INSTRU(instruction)] \in Word
  BY <1>2, <1>3, <1>5 DEF BaseR
<1>7. second_operand \in Word
  BY <1>1, <1>6, OffsetsAreWords DEF second_operand
<1>8. compute_direct_address \in Word /\ compute_base_plus_offset \in Word
  BY <1>1, <1>4, <1>6, OffsetsAreWords, ArithmeticIsWord
     DEF compute_direct_address, compute_base_plus_offset
<1> QED
  BY <1>2, <1>4, <1>6, <1>7, <1>8

(* Writing a result sets the condition code and nothing else of the status. *)
LEMMA SetDRKeepsMode ==
  ASSUME TypeOK, NEW value \in Word, SetDR(value)
  PROVE  RegistersOK(registers') /\ UserMode(PSR') = UserMode(PSR)
<1>1. PSR \in Word /\ DR \in 0 .. 7 /\ registers \in [lc3_reg -> Word]
  BY OperandsAreWords DEF TypeOK
<1>2. /\ WithConditionCode(PSR, value) \in Word
      /\ UserMode(WithConditionCode(PSR, value)) = UserMode(PSR)
  BY <1>1, ConditionCodeKeepsMode
<1>3. registers' = [registers EXCEPT ![DR] = value,
                                     ![REG_PSR] = WithConditionCode(PSR, value)]
  BY DEF SetDR
<1> HIDE DEF DR
<1>4. RegistersOK(registers') /\ registers'[REG_PSR] = WithConditionCode(PSR, value)
  BY <1>1, <1>2, <1>3 DEF RegistersOK, lc3_reg, REG_PSR
<1> QED
  BY <1>2, <1>4 DEF PSR

(* A jump leaves the status alone. *)
LEMMA JumpKeepsMode ==
  ASSUME TypeOK, NEW address \in Word, Jump(address) \/ Link(address)
  PROVE  RegistersOK(registers') /\ PSR' = PSR
<1>1. PC \in Word /\ registers \in [lc3_reg -> Word]
  BY OperandsAreWords DEF TypeOK
<1> QED
  BY <1>1 DEF Jump, Link, RegistersOK, lc3_reg, REG_PC, REG_PSR, REG_R7, PSR

(* What an instruction does to the registers and the bus: they keep their  *)
(* types, and a user program stays in user mode.                           *)
ExecutedOK ==
  /\ RegistersOK(registers')
  /\ IsBus(bus')
  /\ UserMode(PSR) => UserMode(PSR')

(* ld, ldi and ldr. *)
LEMMA LoadIsOK ==
  ASSUME TypeOK, NEW b, IsBus(b), NEW address, LoadFrom(b, address)
  PROVE  ExecutedOK
<1>1. bus_read(b, address) \in Word /\ IsBus(bus')
  BY ReadIsWord, AfterReadIsBus DEF LoadFrom
<1> QED
  BY <1>1, SetDRKeepsMode DEF LoadFrom, ExecutedOK

(* st, sti and str. *)
LEMMA StoreIsOK ==
  ASSUME TypeOK, NEW b, IsBus(b), NEW address \in Word, StoreTo(b, address)
  PROVE  ExecutedOK
<1>1. IsBus(bus')
  BY OperandsAreWords, WriteIsBus DEF StoreTo
<1> QED
  BY <1>1 DEF StoreTo, ExecutedOK, RegistersOK, TypeOK, PSR

(* All instructions. *)
LEMMA ExecuteIsOK ==
  ASSUME TypeOK, Execute
  PROVE  ExecutedOK
<1>1. IsBus(bus) /\ instruction \in Word /\ registers \in [lc3_reg -> Word]
  BY DEF TypeOK
<1>2. CASE Add \/ And \/ Not \/ Lea
  <2>1. /\ Plus(BaseR, second_operand) \in Word
        /\ BitAnd(BaseR, second_operand) \in Word
        /\ Complement(BaseR) \in Word
        /\ compute_direct_address \in Word
    BY OperandsAreWords, ArithmeticIsWord, BitAndIsWord
  <2>2. bus' = bus /\ \E value \in Word : SetDR(value)
    BY <1>2, <2>1 DEF Add, And, Not, Lea
  <2> QED BY <1>1, <2>2, SetDRKeepsMode DEF ExecutedOK
<1>3. CASE Br \/ JmpRet \/ Jsr \/ Jsrr
  <2>1. /\ compute_direct_address \in Word /\ BaseR \in Word /\ PC \in Word
        /\ Plus(PC, SignedOffset11(instruction)) \in Word
        /\ Plus(PC, PC) \in Word /\ Plus(PC, BaseR) \in Word
    BY <1>1, OperandsAreWords, OffsetsAreWords, ArithmeticIsWord
  <2>2. /\ bus' = bus
        /\ \/ UNCHANGED registers
           \/ \E address \in Word : Jump(address) \/ Link(address)
    BY <1>3, <2>1 DEF Br, JmpRet, Jsr, Jsrr
  <2>3. CASE UNCHANGED registers
    BY <1>1, <2>2, <2>3 DEF ExecutedOK, RegistersOK, PSR
  <2>4. CASE \E address \in Word : Jump(address) \/ Link(address)
    BY <1>1, <2>2, <2>4, JumpKeepsMode DEF ExecutedOK
  <2> QED BY <2>2, <2>3, <2>4
<1>4. CASE Trap
  <2>1. bus_read(bus, TRAPVECT8(instruction)) \in Word
    BY <1>1, ReadIsWord
  <2>2. IsBus(bus')
    BY <1>1, <1>4, AfterReadIsBus DEF Trap
  <2> QED BY <1>4, <2>1, <2>2, JumpKeepsMode DEF Trap, ExecutedOK
<1>5. CASE Ld \/ Ldr \/ Ldi
  <2>1. IsBus(after_read(bus, compute_direct_address))
    BY <1>1, AfterReadIsBus
  <2> QED BY <1>1, <1>5, <2>1, LoadIsOK DEF Ld, Ldr, Ldi
<1>6. CASE St \/ Str \/ Sti
  <2>1. IsBus(after_read(bus, compute_direct_address))
    BY <1>1, AfterReadIsBus
  <2>2. compute_indirect_address \in Word
    BY <1>1, ReadIsWord DEF compute_indirect_address
  <2> QED BY <1>1, <1>6, <2>1, <2>2, OperandsAreWords, StoreIsOK DEF St, Str, Sti
<1>7. CASE RtiInUserMode \/ IllegalOpcode
  BY <1>1, <1>7 DEF RtiInUserMode, IllegalOpcode, ExecutedOK, RegistersOK, PSR
<1>8. CASE Rti
  <2> DEFINE sp == registers[REG_R6]
             first == after_read(bus, sp)
             psr == bus_read(first, Plus(sp, 1))
             r6 == IF UserMode(psr) THEN Plus(sp, 2) ELSE registers[REG_USP]
  <2>1. sp \in Word /\ registers[REG_USP] \in Word
    BY <1>1 DEF lc3_reg, REG_R6, REG_USP
  <2>2. IsBus(first) /\ IsBus(after_read(first, Plus(sp, 1)))
    BY <1>1, AfterReadIsBus
  <2>3. psr \in Word /\ bus_read(bus, sp) \in Word
    BY <1>1, <2>2, ReadIsWord
  <2>4. 1 \in Word /\ 2 \in Word
    BY WordRange
  <2>5. r6 \in Word
    BY <2>1, <2>4, ArithmeticIsWord
  <2>6. /\ registers' = [registers EXCEPT ![REG_PC] = bus_read(bus, sp),
                                          ![REG_PSR] = psr, ![REG_R6] = r6]
        /\ bus' = after_read(first, Plus(sp, 1)) /\ ~ UserMode(PSR)
    BY <1>8 DEF Rti
  <2> HIDE DEF sp, first, psr, r6
  <2>7. RegistersOK(registers')
    BY <1>1, <2>3, <2>5, <2>6 DEF RegistersOK, lc3_reg, REG_PC, REG_PSR, REG_R6
  <2> QED BY <2>2, <2>6, <2>7 DEF ExecutedOK
<1> QED
  BY <1>2, <1>3, <1>4, <1>5, <1>6, <1>7, <1>8 DEF Execute

(* Entering a handler: supervisor mode at the given priority, the PC that  *)
(* the vector table holds, and a user program's R6 kept in USP.            *)
LEMMA HandlerEntered ==
  ASSUME TypeOK, NEW vec \in 0 .. 254, NEW priority \in 0 .. 7, EnterHandler(vec, priority)
  PROVE  /\ RegistersOK(registers') /\ IsBus(bus')
         /\ PSR_PRIORITY(PSR') = priority
         /\ PC' = Cell(bus'.mem, INTERRUPT_VECTOR_TABLE + vec)
         /\ UserMode(PSR) => registers'[REG_USP] = registers[REG_R6]
<1> DEFINE regs == OnSupervisorStack
           sp == Minus(regs[REG_R6], 2)
           pushed == bus_write(bus_write(bus, Plus(sp, 1), PSR), sp, PC)
           psr == INIT_PSR_MASK_SUPERVISOR + 256 * priority
           pc == bus_read(pushed, INTERRUPT_VECTOR_TABLE + vec)
<1>1. /\ registers \in [lc3_reg -> Word] /\ IsBus(bus)
      /\ PC \in Word /\ PSR \in Word
  BY OperandsAreWords DEF TypeOK
<1>2. /\ regs \in [lc3_reg -> Word]
      /\ UserMode(PSR) => regs[REG_USP] = registers[REG_R6]
  BY <1>1 DEF OnSupervisorStack, lc3_reg, REG_R6, REG_USP, REG_SSP
<1>3. 1 \in Word /\ 2 \in Word
  BY WordRange
<1>4. sp \in Word /\ Plus(sp, 1) \in Word
  <2>1. regs[REG_R6] \in Word
    BY <1>2 DEF lc3_reg, REG_R6
  <2> QED BY <2>1, <1>3, ArithmeticIsWord
<1>5. IsBus(pushed)
  BY <1>1, <1>4, WriteIsBus
<1>6. psr \in Word /\ PSR_PRIORITY(psr) = priority
  BY HandlerStatus DEF INIT_PSR_MASK_SUPERVISOR
<1>7. pc \in Word
  BY <1>5, ReadIsWord
<1>8. pc = Cell(pushed.mem, INTERRUPT_VECTOR_TABLE + vec)
  <2>1. INTERRUPT_VECTOR_TABLE + vec \notin {KBSR, KBDR, DSR, DDR}
    BY DEF INTERRUPT_VECTOR_TABLE, KBSR, KBDR, DSR, DDR
  <2> QED BY <2>1 DEF bus_read
<1>9. /\ bus' = pushed
      /\ registers' = [regs EXCEPT ![REG_R6] = sp, ![REG_PSR] = psr, ![REG_PC] = pc]
  BY DEF EnterHandler
<1> HIDE DEF regs, sp, pushed, psr, pc
<1>10. /\ RegistersOK(registers')
       /\ registers'[REG_PSR] = psr /\ registers'[REG_PC] = pc
       /\ registers'[REG_USP] = regs[REG_USP]
  BY <1>2, <1>4, <1>6, <1>7, <1>9
     DEF RegistersOK, lc3_reg, REG_R6, REG_PSR, REG_PC, REG_USP
<1> QED
  BY <1>2, <1>5, <1>6, <1>8, <1>9, <1>10 DEF PSR, PC

-----------------------------------------------------------------------------
(* The queue of interrupts *)

(* Alerts and the interrupt taken keep the queue typed. *)
LEMMA QueueChangesKeepType ==
  ASSUME NEW q, DOMAIN q \subseteq Vec, \A v \in DOMAIN q : q[v] \in Priority
  PROVE  /\ \A v \in Vec, p \in Priority :
              /\ DOMAIN Queue!WithAlert(q, v, p) \subseteq Vec
              /\ \A w \in DOMAIN Queue!WithAlert(q, v, p) :
                   Queue!WithAlert(q, v, p)[w] \in Priority
         /\ \A v \in Vec :
              /\ DOMAIN Queue!Without(q, v) \subseteq Vec
              /\ \A w \in DOMAIN Queue!Without(q, v) :
                   Queue!Without(q, v)[w] \in Priority
BY DEF Queue!WithAlert, Queue!Without

(* What SimulatorAssumption says of the vectors and the priorities. *)
LEMMA VectorsAndPriorities ==
  /\ Vec \subseteq 0 .. 254 /\ Priority \subseteq 0 .. 7
  /\ \A alert \in OtherAlerts : alert[1] \in Vec /\ alert[2] \in Priority
  /\ KEYBOARD_INTERRUPT_VECTOR \in Vec /\ KEYBOARD_INTERRUPT_PRIORITY \in Priority
<1>1. \A alert \in OtherAlerts : alert[1] \in 0 .. 254 /\ alert[2] \in 0 .. 7
  BY SimulatorAssumption
<1> QED
  BY <1>1 DEF Vec, Priority, KEYBOARD_INTERRUPT_VECTOR, KEYBOARD_INTERRUPT_PRIORITY

(* A character, or what stands for one, goes to the keyboard and the queue. *)
LEMMA DeliverKeepsType ==
  ASSUME TypeOK, NEW char \in 0 .. 255, simulator_update_devices_input(char)
  PROVE  IsBus(bus') /\ Queue!TypeOK'
<1>1. IsBus(bus')
  BY OnInputIsBus DEF simulator_update_devices_input, TypeOK
<1> DEFINE q == KeyboardAlert(pending)
<1>2. DOMAIN q \subseteq Vec /\ \A v \in DOMAIN q : q[v] \in Priority
  BY QueueChangesKeepType, VectorsAndPriorities DEF KeyboardAlert, TypeOK, Queue!TypeOK
<1>3. \/ pending' = q
      \/ \E alert \in OtherAlerts :
           /\ alert[1] \in Vec /\ alert[2] \in Priority
           /\ pending' = Queue!WithAlert(q, alert[1], alert[2])
  BY VectorsAndPriorities DEF simulator_update_devices_input
<1> HIDE DEF q
<1>4. /\ DOMAIN pending' \subseteq Vec
      /\ \A v \in DOMAIN pending' : pending'[v] \in Priority
  BY <1>2, <1>3, QueueChangesKeepType
<1> QED
  BY <1>1, <1>4 DEF Queue!TypeOK

-----------------------------------------------------------------------------
(* Types *)

(* Every program starts on a bus of words, with the clock enabled. *)
LEMMA InitTypeOK ==
  Init => TypeOK
<1> SUFFICES ASSUME Init PROVE TypeOK
  OBVIOUS
<1>1. PICK boot \in Boots : CpuInit(boot.image, boot.regs)
  BY DEF Init
<1>2. /\ DOMAIN boot.image \subseteq Word
      /\ \A a \in DOMAIN boot.image : boot.image[a] \in Word
      /\ \A r \in DOMAIN boot.regs : boot.regs[r] \in Word
  BY SimulatorAssumption
<1>3. 0 \in Word /\ HighBit \in Word /\ MCR_ADDR \in Word
  BY WordRange DEF HighBit, MCR_ADDR
<1> DEFINE mem == SetCell(boot.image, MCR_ADDR, HighBit)
<1>4. DOMAIN mem \subseteq Word /\ mem \in [DOMAIN mem -> Word]
  BY <1>2, <1>3 DEF SetCell
<1>5. bus = NewBus(mem)
  BY <1>1 DEF CpuInit
<1> HIDE DEF mem
<1>6. IsBus(bus)
  BY <1>3, <1>4, <1>5 DEF NewBus, IsBus, INIT_DSR
<1>7. registers \in [lc3_reg -> Word]
  BY <1>1, <1>2, <1>3 DEF CpuInit
<1>8. instruction \in Word
  BY <1>1, <1>3 DEF CpuInit
<1>9. /\ priv_mode_violation_line \in BOOLEAN /\ illegal_opcode_line \in BOOLEAN
      /\ phase \in {"fetch", "execute", "retire", "input", "interrupts", "halted"}
  BY <1>1 DEF CpuInit
<1>10. Queue!TypeOK /\ typed \in Seq(Chars)
  BY DEF Init, Queue!Init, Queue!TypeOK
<1> QED
  BY <1>6, <1>7, <1>8, <1>9, <1>10 DEF TypeOK

(* The queue and the history of the input do not change in a tick. *)
LEMMA TickKeepsType ==
  ASSUME TypeOK, RunCpu
  PROVE  TypeOK'
<1>1. Queue!TypeOK' /\ typed' \in Seq(Chars)
  BY DEF RunCpu, TypeOK, Queue!TypeOK
<1>2. CASE HaltBeforeFetch \/ HaltAfterExecute \/ NoException
  BY <1>1, <1>2 DEF HaltBeforeFetch, HaltAfterExecute, NoException, Retiring, lines, TypeOK
<1>3. CASE Fetch
  <2>1. bus_read(bus, PC) \in Word /\ IsBus(bus')
    BY <1>3, ReadIsWord, AfterReadIsBus DEF Fetch, TypeOK
  <2>2. 1 \in Word
    BY WordRange
  <2>3. Plus(PC, 1) \in Word
    BY <2>2, OperandsAreWords, ArithmeticIsWord
  <2> QED BY <1>1, <1>3, <2>1, <2>3 DEF Fetch, lines, TypeOK, REG_PC, lc3_reg
<1>4. CASE Execute
  <2>1. RegistersOK(registers') /\ IsBus(bus')
    BY <1>4, ExecuteIsOK DEF ExecutedOK
  <2>2. phase' = "retire" /\ instruction' = instruction
    BY <1>4 DEF Execute, Executing, Add, And, Not, Lea, Br, JmpRet, Jsr, Jsrr, Trap,
                Ld, Ldr, Ldi, St, Str, Sti, RtiInUserMode, Rti, IllegalOpcode
  <2>3. priv_mode_violation_line' \in BOOLEAN /\ illegal_opcode_line' \in BOOLEAN
    BY <1>4 DEF Execute, Add, And, Not, Lea, Br, JmpRet, Jsr, Jsrr, Trap,
                Ld, Ldr, Ldi, LoadFrom, St, Str, Sti, StoreTo,
                RtiInUserMode, Rti, IllegalOpcode, lines, TypeOK
  <2> QED BY <1>1, <2>1, <2>2, <2>3 DEF TypeOK, RegistersOK
<1>5. CASE ServePrivModeViolation \/ ServeIllegalOpcode
  <2>1. PSR_PRIORITY(PSR) \in 0 .. 7
    BY OperandsAreWords, PriorityRange
  <2>2. RegistersOK(registers') /\ IsBus(bus')
    BY <1>5, <2>1, HandlerEntered
       DEF ServePrivModeViolation, ServeIllegalOpcode,
           PRIV_MODE_VIOLATION_EXCEPTION_VECTOR, ILLEGAL_OPCODE_EXCEPTION_VECTOR
  <2> QED BY <1>1, <1>5, <2>2
             DEF ServePrivModeViolation, ServeIllegalOpcode, Retiring, TypeOK, RegistersOK
<1> QED
  BY <1>2, <1>3, <1>4, <1>5 DEF RunCpu, Tick

(* No step of the loop breaks the types. *)
LEMMA NextKeepsTypeOK ==
  TypeOK /\ [Next]_vars => TypeOK'
<1> SUFFICES ASSUME TypeOK, [Next]_vars PROVE TypeOK'
  OBVIOUS
<1>1. CASE RunCpu
  BY <1>1, TickKeepsType
<1>2. CASE NoCharacter \/ NoInterrupt
  BY <1>2 DEF NoCharacter, NoInterrupt, lines, TypeOK, Queue!TypeOK
<1>3. CASE \E char \in Chars : Character(char)
  <2>1. PICK char \in Chars : Character(char)
    BY <1>3
  <2>2. char \in 0 .. 255 /\ Deliver(char)
    BY <2>1, SimulatorAssumption DEF Character
  <2>3. IsBus(bus') /\ Queue!TypeOK'
    BY <2>2, DeliverKeepsType DEF Deliver
  <2>4. typed' \in Seq(Chars)
    BY <2>1 DEF Character, TypeOK
  <2> QED BY <2>2, <2>3, <2>4 DEF Deliver, lines, TypeOK
<1>4. CASE \E char \in Garbage : ReadFails(char)
  <2>1. PICK char \in Garbage : ReadFails(char)
    BY <1>4
  <2>2. char \in 0 .. 255 /\ Deliver(char)
    BY <2>1, SimulatorAssumption DEF ReadFails
  <2>3. IsBus(bus') /\ Queue!TypeOK'
    BY <2>2, DeliverKeepsType DEF Deliver
  <2> QED BY <2>1, <2>2, <2>3 DEF ReadFails, Deliver, lines, TypeOK
<1>5. CASE \E vec \in Vec : TakeInterrupt(vec)
  <2>1. PICK vec \in Vec : TakeInterrupt(vec)
    BY <1>5
  <2>2. vec \in 0 .. 254 /\ pending[vec] \in 0 .. 7
    BY <2>1, VectorsAndPriorities DEF TakeInterrupt, Queue!IsTop, TypeOK, Queue!TypeOK
  <2>3. RegistersOK(registers') /\ IsBus(bus')
    BY <2>1, <2>2, HandlerEntered DEF TakeInterrupt
  <2>4. Queue!TypeOK'
    BY <2>1, QueueChangesKeepType DEF TakeInterrupt, TypeOK, Queue!TypeOK
  <2> QED BY <2>1, <2>3, <2>4 DEF TakeInterrupt, lines, TypeOK, RegistersOK
<1>6. CASE UNCHANGED vars
  BY <1>6 DEF vars, cpu_vars, lines, TypeOK, Queue!TypeOK
<1> QED
  BY <1>1, <1>2, <1>3, <1>4, <1>5, <1>6 DEF Next

(* Whatever the program, registers, cells and device registers stay words. *)
THEOREM TypeCorrect ==
  Spec => []TypeOK
BY InitTypeOK, NextKeepsTypeOK, PTL DEF Spec

-----------------------------------------------------------------------------
(* Exceptions *)

(* An instruction is executed with the clock on, and one that raises a line *)
(* leaves it on, so that the tick does not halt with the exception pending. *)
ExceptionIInv ==
  /\ TypeOK
  /\ ExceptionServedInTick
  /\ phase = "execute" \/ priv_mode_violation_line \/ illegal_opcode_line =>
       CLOCK_ENABLED(bus)

(* An instruction raises one line at most, and then leaves the bus alone. *)
LEMMA ExecuteRaisesOne ==
  ASSUME Execute
  PROVE  /\ phase = "execute" /\ phase' = "retire"
         /\ \/ UNCHANGED lines
            \/ /\ priv_mode_violation_line' = TRUE
               /\ UNCHANGED <<illegal_opcode_line, bus>>
            \/ /\ illegal_opcode_line' = TRUE
               /\ UNCHANGED <<priv_mode_violation_line, bus>>
BY DEF Execute, Executing, Add, And, Not, Lea, Br, JmpRet, Jsr, Jsrr, Trap,
       Ld, Ldr, Ldi, LoadFrom, St, Str, Sti, StoreTo, RtiInUserMode, Rti, IllegalOpcode

(* Fetching does not write to memory, so the clock stays on. *)
LEMMA FetchKeepsClock ==
  ASSUME TypeOK, Fetch
  PROVE  CLOCK_ENABLED(bus')
<1>1. bus'.mem = bus.mem
  BY AfterReadIsBus DEF Fetch, TypeOK
<1>2. \A b : bus_read(b, MCR_ADDR) = Cell(b.mem, MCR_ADDR)
  BY DEF bus_read, MCR_ADDR, KBSR, KBDR, DSR, DDR
<1> QED
  BY <1>1, <1>2 DEF Fetch, CLOCK_ENABLED

(* Each step keeps the lines down outside "retire". *)
LEMMA NextKeepsExceptionIInv ==
  ExceptionIInv /\ [Next]_vars => ExceptionIInv'
<1> SUFFICES ASSUME ExceptionIInv, [Next]_vars PROVE ExceptionIInv'
  OBVIOUS
<1>1. TypeOK /\ TypeOK'
  BY NextKeepsTypeOK DEF ExceptionIInv
<1> DEFINE LinesOK ==
             /\ ExceptionServedInTick
             /\ phase = "execute" \/ priv_mode_violation_line \/ illegal_opcode_line =>
                  CLOCK_ENABLED(bus)
<1>2. SUFFICES LinesOK'
  BY <1>1 DEF ExceptionIInv
<1>3. CASE Fetch /\ RunCpu
  BY <1>1, <1>3, FetchKeepsClock DEF Fetch, lines, ExceptionIInv, ExceptionServedInTick
<1>4. CASE Execute /\ RunCpu
  <2>1. /\ ~ priv_mode_violation_line /\ ~ illegal_opcode_line
        /\ CLOCK_ENABLED(bus)
    BY <1>4, ExecuteRaisesOne DEF ExceptionIInv, ExceptionServedInTick
  <2>2. phase' = "retire"
    BY <1>4, ExecuteRaisesOne
  <2>3. CASE UNCHANGED lines
    BY <2>1, <2>2, <2>3 DEF lines, ExceptionServedInTick
  <2>4. CASE /\ priv_mode_violation_line' = TRUE
             /\ UNCHANGED <<illegal_opcode_line, bus>>
    BY <2>1, <2>2, <2>4 DEF ExceptionServedInTick
  <2>5. CASE /\ illegal_opcode_line' = TRUE
             /\ UNCHANGED <<priv_mode_violation_line, bus>>
    BY <2>1, <2>2, <2>5 DEF ExceptionServedInTick
  <2> QED BY <1>4, <2>3, <2>4, <2>5, ExecuteRaisesOne
<1>5. CASE HaltBeforeFetch \/ HaltAfterExecute
  BY <1>5 DEF HaltBeforeFetch, HaltAfterExecute, lines, ExceptionIInv, ExceptionServedInTick
<1>6. CASE ServePrivModeViolation \/ ServeIllegalOpcode \/ NoException
  BY <1>6 DEF ServePrivModeViolation, ServeIllegalOpcode, NoException, Retiring, lines,
              ExceptionIInv, ExceptionServedInTick
<1>7. CASE \/ NoCharacter \/ NoInterrupt
           \/ \E char \in Chars : Character(char)
           \/ \E char \in Garbage : ReadFails(char)
           \/ \E vec \in Vec : TakeInterrupt(vec)
  <2>1. /\ phase \in {"input", "interrupts"} /\ phase' \in {"interrupts", "fetch"}
        /\ UNCHANGED lines
    BY <1>7 DEF NoCharacter, NoInterrupt, Character, ReadFails, Deliver, TakeInterrupt
  <2> QED BY <2>1 DEF lines, ExceptionIInv, ExceptionServedInTick
<1>8. CASE UNCHANGED vars
  BY <1>8 DEF vars, cpu_vars, lines, ExceptionIInv, ExceptionServedInTick
<1> QED
  BY <1>3, <1>4, <1>5, <1>6, <1>7, <1>8 DEF Next, RunCpu, Tick

(* No exception outlives the tick that raised it. *)
THEOREM ExceptionsAreServed ==
  Spec => []ExceptionServedInTick
<1>1. Init => ExceptionIInv
  BY InitTypeOK DEF Init, CpuInit, ExceptionIInv, ExceptionServedInTick
<1>2. ExceptionIInv => ExceptionServedInTick
  BY DEF ExceptionIInv
<1> QED
  BY <1>1, <1>2, NextKeepsExceptionIInv, PTL DEF Spec

-----------------------------------------------------------------------------
(* Interrupts *)

(* If anything is pending, one vector outranks all others. *)
LEMMA TopExists ==
  ASSUME NEW q, DOMAIN q \subseteq 0 .. 254, \A v \in DOMAIN q : q[v] \in 0 .. 7,
         DOMAIN q # {}
  PROVE  \E v \in DOMAIN q : Queue!IsTop(q, v)
<1> DEFINE rank(v) == 256 * (7 - q[v]) + (255 - v)
           S == {rank(v) : v \in DOMAIN q}
<1>1. \A v \in DOMAIN q : v \in Int /\ q[v] \in Int /\ 0 <= v /\ v <= 254 /\ 0 <= q[v] /\ q[v] <= 7
  BY SMT
<1>2. \A v \in DOMAIN q : rank(v) \in Nat
  BY <1>1, SMT
<1>3. S \subseteq Nat /\ S # {}
  BY <1>2
<1>4. PICK m \in S : \A k \in S : m <= k
  BY <1>3, LeastElement
<1>5. PICK v \in DOMAIN q : m = rank(v)
  BY <1>4
<1>6. \A w \in DOMAIN q : rank(v) <= rank(w)
  BY <1>4, <1>5
<1>7. \A i, j, p, r \in Int :
        /\ 0 <= i /\ i <= 254 /\ 0 <= j /\ j <= 254 /\ i # j
        /\ 256 * (7 - p) + (255 - i) <= 256 * (7 - r) + (255 - j)
        => p > r \/ (p = r /\ i > j)
  BY SMT
<1>8. ASSUME NEW w \in DOMAIN q \ {v} PROVE Queue!Outranks(q, v, w)
  <2>1. rank(v) <= rank(w) /\ v # w
    BY <1>6
  <2>2. v \in Int /\ w \in Int /\ q[v] \in Int /\ q[w] \in Int
        /\ 0 <= v /\ v <= 254 /\ 0 <= w /\ w <= 254
    BY <1>1
  <2>3. q[v] > q[w] \/ (q[v] = q[w] /\ v > w)
    BY <1>7, <2>1, <2>2
  <2> QED BY <2>3 DEF Queue!Outranks
<1> QED
  BY <1>5, <1>8 DEF Queue!IsTop

(* If the most urgent vector is not accepted, no vector outranks the CPU. *)
LEMMA NoInterruptMeansNone ==
  ASSUME TypeOK, NoInterrupt
  PROVE  \A vec \in DOMAIN pending : pending[vec] <= PSR_PRIORITY(PSR)
<1>1. /\ DOMAIN pending \subseteq 0 .. 254
      /\ \A v \in DOMAIN pending : pending[v] \in 0 .. 7
  BY VectorsAndPriorities DEF TypeOK, Queue!TypeOK
<1>2. PSR_PRIORITY(PSR) \in 0 .. 7
  BY OperandsAreWords, PriorityRange
<1> SUFFICES ASSUME NEW vec \in DOMAIN pending
             PROVE  pending[vec] <= PSR_PRIORITY(PSR)
  OBVIOUS
<1>3. PICK top \in DOMAIN pending : Queue!IsTop(pending, top)
  BY <1>1, TopExists
<1>4. ~ (pending[top] > PSR_PRIORITY(PSR))
  BY <1>3 DEF NoInterrupt, Accepts
<1>5. vec = top \/ pending[top] > pending[vec] \/ pending[top] = pending[vec]
  BY <1>3 DEF Queue!IsTop, Queue!Outranks
<1>6. pending[vec] \in Int /\ pending[top] \in Int /\ PSR_PRIORITY(PSR) \in Int
  BY <1>1, <1>2
<1> QED
  BY <1>4, <1>5, <1>6

(* What is left after an interrupt is taken does not outrank its handler. *)
LEMMA TakeInterruptLeavesLower ==
  ASSUME TypeOK, NEW vec \in Vec, TakeInterrupt(vec)
  PROVE  \A w \in DOMAIN pending' : pending'[w] <= PSR_PRIORITY(PSR')
<1>1. /\ vec \in 0 .. 254 /\ vec \in DOMAIN pending
      /\ \A v \in DOMAIN pending : pending[v] \in 0 .. 7
  BY VectorsAndPriorities DEF TakeInterrupt, Queue!IsTop, TypeOK, Queue!TypeOK
<1>2. PSR_PRIORITY(PSR') = pending[vec]
  BY <1>1, HandlerEntered DEF TakeInterrupt
<1> SUFFICES ASSUME NEW w \in DOMAIN pending' PROVE pending'[w] <= PSR_PRIORITY(PSR')
  OBVIOUS
<1>3. w \in DOMAIN pending \ {vec} /\ pending'[w] = pending[w]
  BY DEF TakeInterrupt, Queue!Without
<1>4. pending[vec] > pending[w] \/ pending[vec] = pending[w]
  BY <1>3 DEF TakeInterrupt, Queue!IsTop, Queue!Outranks
<1>5. pending[vec] \in Int /\ pending[w] \in Int
  BY <1>1, <1>3
<1> QED
  BY <1>2, <1>3, <1>4, <1>5

(* The interrupt that is served is never the wrong one: between two        *)
(* instructions nothing pending outranks the CPU.                          *)
THEOREM UrgentFirst ==
  Spec => []NoPriorityInversion
<1>1. Init => NoPriorityInversion
  BY DEF Init, Queue!Init, NoPriorityInversion
<1>2. TypeOK /\ NoPriorityInversion /\ [Next]_vars => NoPriorityInversion'
  <2> SUFFICES ASSUME TypeOK, NoPriorityInversion, [Next]_vars
               PROVE  NoPriorityInversion'
    OBVIOUS
  <2>1. CASE RunCpu
    <3>1. phase' # "fetch"
      BY <2>1, ExecuteRaisesOne
         DEF RunCpu, Tick, HaltBeforeFetch, Fetch, HaltAfterExecute,
             ServePrivModeViolation, ServeIllegalOpcode, NoException, Retiring
    <3> QED BY <3>1 DEF NoPriorityInversion
  <2>2. CASE \/ NoCharacter
             \/ \E char \in Chars : Character(char)
             \/ \E char \in Garbage : ReadFails(char)
    BY <2>2 DEF NoCharacter, Character, ReadFails, Deliver, NoPriorityInversion
  <2>3. CASE \E vec \in Vec : TakeInterrupt(vec)
    BY <2>3, TakeInterruptLeavesLower DEF NoPriorityInversion, PSR
  <2>4. CASE NoInterrupt
    BY <2>4, NoInterruptMeansNone DEF NoInterrupt, NoPriorityInversion, PSR
  <2>5. CASE UNCHANGED vars
    BY <2>5 DEF vars, cpu_vars, NoPriorityInversion, PSR
  <2> QED BY <2>1, <2>2, <2>3, <2>4, <2>5 DEF Next
<1> QED
  BY <1>1, <1>2, TypeCorrect, PTL DEF Spec

-----------------------------------------------------------------------------
(* User programs *)

(* A user program leaves user mode through the vector table alone, and its *)
(* stack pointer is kept.                                                  *)
THEOREM UsersAreConfined ==
  Spec => UserModeConfined
<1> DEFINE Gate == UserMode(PSR) /\ ~ UserMode(PSR') =>
             /\ \E vec \in Vec \cup {PRIV_MODE_VIOLATION_EXCEPTION_VECTOR,
                                      ILLEGAL_OPCODE_EXCEPTION_VECTOR} :
                  PC' = Cell(bus'.mem, INTERRUPT_VECTOR_TABLE + vec)
             /\ registers'[REG_USP] = registers[REG_R6]
<1>1. TypeOK /\ [Next]_vars => Gate
  <2> SUFFICES ASSUME TypeOK, Next, UserMode(PSR), ~ UserMode(PSR') PROVE Gate
    BY DEF vars, cpu_vars, PSR
  <2>1. CASE Execute
    BY <2>1, ExecuteIsOK DEF ExecutedOK
  <2>2. CASE ServePrivModeViolation \/ ServeIllegalOpcode
    <3>1. PSR_PRIORITY(PSR) \in 0 .. 7
      BY OperandsAreWords, PriorityRange
    <3> QED BY <2>2, <3>1, HandlerEntered, SMTT(30)
               DEF ServePrivModeViolation, ServeIllegalOpcode,
                   PRIV_MODE_VIOLATION_EXCEPTION_VECTOR, ILLEGAL_OPCODE_EXCEPTION_VECTOR
  <2>3. CASE \E vec \in Vec : TakeInterrupt(vec)
    <3>1. PICK vec \in Vec : TakeInterrupt(vec)
      BY <2>3
    <3>2. vec \in 0 .. 254 /\ pending[vec] \in 0 .. 7
      BY <3>1, VectorsAndPriorities DEF TakeInterrupt, Queue!IsTop, TypeOK, Queue!TypeOK
    <3> QED BY <3>1, <3>2, HandlerEntered DEF TakeInterrupt
  <2>4. CASE Fetch
    <3>1. registers \in [lc3_reg -> Word]
      BY DEF TypeOK
    <3>2. PSR' = PSR
      BY <2>4, <3>1 DEF Fetch, PSR, REG_PC, REG_PSR, lc3_reg
    <3> QED BY <3>2
  <2>5. CASE UNCHANGED registers
    BY <2>5 DEF PSR
  <2> QED BY <2>1, <2>2, <2>3, <2>4, <2>5
             DEF Next, RunCpu, Tick, HaltBeforeFetch, HaltAfterExecute, NoException,
                 NoCharacter, NoInterrupt, Character, ReadFails, Deliver
<1>2. TypeOK /\ [Next]_vars =>
        [UserMode(PSR) /\ ~ UserMode(PSR') =>
           /\ \E vec \in Vec \cup {PRIV_MODE_VIOLATION_EXCEPTION_VECTOR,
                                    ILLEGAL_OPCODE_EXCEPTION_VECTOR} :
                PC' = Cell(bus.mem, INTERRUPT_VECTOR_TABLE + vec)'
           /\ registers'[REG_USP] = registers[REG_R6]]_vars
  BY <1>1 DEF Cell
<1> QED
  BY <1>2, TypeCorrect, PTL DEF Spec, UserModeConfined

-----------------------------------------------------------------------------
(* The clock *)

Clock(b) == Cell(b.mem, MCR_ADDR)

LEMMA ClockIsCell ==
  \A b : CLOCK_ENABLED(b) = Negative(Clock(b))
BY DEF CLOCK_ENABLED, bus_read, Clock, MCR_ADDR, KBSR, KBDR, DSR, DDR

(* Only a write to its own address changes the machine control register.   *)
LEMMA WriteElsewhere ==
  ASSUME NEW b, IsBus(b), NEW a, NEW v, a # MCR_ADDR
  PROVE  Clock(bus_write(b, a, v)) = Clock(b)
<1>1. CASE a \in {KBSR, KBDR, DSR, DDR}
  <2>1. bus_write(b, a, v).mem = b.mem
    BY <1>1 DEF bus_write, keyboard_write_register, display_write_register, IsBus
  <2> QED BY <2>1 DEF Clock
<1>2. CASE a \notin {KBSR, KBDR, DSR, DDR}
  <2>1. bus_write(b, a, v).mem = SetCell(b.mem, a, v)
    BY <1>2 DEF bus_write, IsBus
  <2> QED BY <2>1 DEF Clock, Cell, SetCell
<1> QED BY <1>1, <1>2

(* A frame that falls on the machine control register leaves the stack     *)
(* pointer right below it, in supervisor mode.                             *)
LEMMA FrameOnClock ==
  ASSUME TypeOK, NEW vec \in 0 .. 254, NEW priority \in 0 .. 7, EnterHandler(vec, priority)
  PROVE  LET sp == Minus(OnSupervisorStack[REG_R6], 2)
         IN  /\ ~ UserMode(PSR') /\ registers'[REG_R6] = sp
             /\ sp \notin {65533, 65534} => (CLOCK_ENABLED(bus') <=> CLOCK_ENABLED(bus))
<1> DEFINE regs == OnSupervisorStack
           sp == Minus(regs[REG_R6], 2)
           first == bus_write(bus, Plus(sp, 1), PSR)
           pushed == bus_write(first, sp, PC)
           psr == INIT_PSR_MASK_SUPERVISOR + 256 * priority
           pc == bus_read(pushed, INTERRUPT_VECTOR_TABLE + vec)
<1>1. /\ registers \in [lc3_reg -> Word] /\ IsBus(bus)
      /\ PC \in Word /\ PSR \in Word
  BY OperandsAreWords DEF TypeOK
<1>2. regs \in [lc3_reg -> Word]
  BY <1>1 DEF OnSupervisorStack, lc3_reg, REG_R6, REG_USP, REG_SSP
<1>3. sp \in Word /\ Plus(sp, 1) \in Word
  <2>1. regs[REG_R6] \in Word /\ 1 \in Word /\ 2 \in Word
    BY <1>2, WordRange DEF lc3_reg, REG_R6
  <2> QED BY <2>1, ArithmeticIsWord
<1>4. IsBus(first)
  BY <1>1, <1>3, WriteIsBus
<1>5. ~ UserMode(psr)
  BY HandlerStatus DEF INIT_PSR_MASK_SUPERVISOR
<1>6. /\ bus' = pushed
      /\ registers' = [regs EXCEPT ![REG_R6] = sp, ![REG_PSR] = psr, ![REG_PC] = pc]
  BY DEF EnterHandler
<1>7. sp \notin {65533, 65534} => Plus(sp, 1) # MCR_ADDR /\ sp # MCR_ADDR
  BY <1>3, WordRange DEF Plus, MCR_ADDR
<1>8. sp \notin {65533, 65534} => Clock(pushed) = Clock(bus)
  BY <1>1, <1>4, <1>7, WriteElsewhere
<1> HIDE DEF regs, sp, first, pushed, psr, pc
<1>9. registers'[REG_PSR] = psr /\ registers'[REG_R6] = sp
  BY <1>2, <1>6 DEF lc3_reg, REG_R6, REG_PSR, REG_PC
<1> QED
  BY <1>5, <1>6, <1>8, <1>9, ClockIsCell DEF PSR, regs, sp

(* The clock is on when an instruction executes.  When the frame of an     *)
(* exception has turned it off, an interrupt pushes below that frame.      *)
ClockIInv ==
  /\ ExceptionIInv
  /\ ~ CLOCK_ENABLED(bus) /\ phase \in {"input", "interrupts"} =>
       ~ UserMode(PSR) /\ registers[REG_R6] \in {65533, 65534}

LEMMA NextKeepsClock ==
  ClockIInv /\ [Next]_vars => ClockIInv' /\ (~ CLOCK_ENABLED(bus) => ~ CLOCK_ENABLED(bus)')
<1> DEFINE StackAtClock ==
             ~ CLOCK_ENABLED(bus) /\ phase \in {"input", "interrupts"} =>
               ~ UserMode(PSR) /\ registers[REG_R6] \in {65533, 65534}
           StaysOff == ~ CLOCK_ENABLED(bus) => ~ CLOCK_ENABLED(bus)'
<1> SUFFICES ASSUME ClockIInv, [Next]_vars PROVE StackAtClock' /\ StaysOff
  BY NextKeepsExceptionIInv DEF ClockIInv
<1>1. TypeOK /\ StackAtClock /\ (phase = "execute" => CLOCK_ENABLED(bus))
  BY DEF ClockIInv, ExceptionIInv
<1>2. CASE Fetch
  BY <1>1, <1>2, FetchKeepsClock DEF Fetch
<1>3. CASE Execute
  BY <1>1, <1>3, ExecuteRaisesOne
<1>4. CASE HaltBeforeFetch \/ HaltAfterExecute
  BY <1>4 DEF HaltBeforeFetch, HaltAfterExecute
<1>5. CASE ServePrivModeViolation \/ ServeIllegalOpcode
  <2>1. PSR_PRIORITY(PSR) \in 0 .. 7
    BY <1>1, OperandsAreWords, PriorityRange
  <2>2. PICK vec \in 0 .. 254, priority \in 0 .. 7 : EnterHandler(vec, priority)
    BY <1>5, <2>1 DEF ServePrivModeViolation, ServeIllegalOpcode,
                      PRIV_MODE_VIOLATION_EXCEPTION_VECTOR, ILLEGAL_OPCODE_EXCEPTION_VECTOR
  <2>3. CLOCK_ENABLED(bus)
    BY <1>5, SMTT(30) DEF ServePrivModeViolation, ServeIllegalOpcode, Retiring
  <2>4. /\ ~ UserMode(PSR')
        /\ registers'[REG_R6] \notin {65533, 65534} => (CLOCK_ENABLED(bus') <=> CLOCK_ENABLED(bus))
    BY <1>1, <2>2, FrameOnClock
  <2> QED BY <2>3, <2>4 DEF PSR
<1>6. CASE NoException
  BY <1>6 DEF NoException, Retiring
<1>7. ASSUME NEW char \in 0 .. 255, Deliver(char)
      PROVE  StackAtClock' /\ StaysOff
  <2>1. /\ bus' = keyboard_on_input(bus, char) /\ phase = "input"
        /\ UNCHANGED registers
    BY <1>7 DEF Deliver, simulator_update_devices_input
  <2>2. bus'.mem = bus.mem
    BY <1>1, <2>1 DEF keyboard_on_input, TypeOK, IsBus
  <2>3. CLOCK_ENABLED(bus') = CLOCK_ENABLED(bus)
    BY <2>2, ClockIsCell DEF Clock
  <2> QED BY <1>1, <2>1, <2>3 DEF PSR
<1>8. CASE NoCharacter \/ NoInterrupt
  BY <1>1, <1>8 DEF NoCharacter, NoInterrupt, PSR
<1>9. ASSUME NEW vec \in Vec, TakeInterrupt(vec)
      PROVE  StackAtClock' /\ StaysOff
  <2>1. /\ EnterHandler(vec, pending[vec])
        /\ phase = "interrupts" /\ phase' = "fetch"
    BY <1>9 DEF TakeInterrupt
  <2>2. vec \in 0 .. 254 /\ pending[vec] \in 0 .. 7
    <3>1. vec \in DOMAIN pending
      BY <1>9 DEF TakeInterrupt, Queue!IsTop
    <3>2. pending[vec] \in Priority
      BY <1>1, <3>1 DEF TypeOK, Queue!TypeOK
    <3> QED BY <1>9, <3>2, VectorsAndPriorities
  <2>3. CASE ~ CLOCK_ENABLED(bus)
    <3>1. OnSupervisorStack = registers /\ registers[REG_R6] \in {65533, 65534}
      BY <1>1, <2>1, <2>3 DEF OnSupervisorStack
    <3>2. Minus(registers[REG_R6], 2) \in {65531, 65532}
      BY <3>1 DEF Minus
    <3> QED BY <1>1, <2>1, <2>2, <2>3, <3>1, <3>2, FrameOnClock
  <2> QED BY <2>1, <2>3
<1>10. CASE UNCHANGED vars
  BY <1>1, <1>10 DEF vars, cpu_vars, PSR
<1>11. Chars \subseteq 0 .. 255 /\ Garbage \subseteq 0 .. 255
  BY SimulatorAssumption
<1> HIDE DEF StackAtClock, StaysOff
<1> QED
  BY <1>2, <1>3, <1>4, <1>5, <1>6, <1>7, <1>8, <1>9, <1>10, <1>11
     DEF Next, RunCpu, Tick, Character, ReadFails

(* In one run the clock goes off once: no step turns it on again.          *)
THEOREM ClockStops == Spec => StoppedForGood
<1>1. Init => ClockIInv
  BY InitTypeOK DEF Init, CpuInit, ExceptionIInv, ExceptionServedInTick, ClockIInv
<1>2. ClockIInv /\ [Next]_vars => [~ CLOCK_ENABLED(bus) => ~ CLOCK_ENABLED(bus)']_vars
  BY NextKeepsClock
<1>3. ClockIInv /\ [Next]_vars => ClockIInv'
  BY NextKeepsClock
<1> QED
  BY <1>1, <1>2, <1>3, PTL DEF Spec, StoppedForGood

-----------------------------------------------------------------------------
(* Handlers *)

(* What a write does to any cell. *)
LEMMA CellAfterWrite ==
  ASSUME NEW b, IsBus(b), NEW a, NEW v, NEW x
  PROVE  Cell(bus_write(b, a, v).mem, x)
           = IF x = a /\ a \notin {KBSR, KBDR, DSR, DDR} THEN v ELSE Cell(b.mem, x)
<1>1. CASE a \in {KBSR, KBDR, DSR, DDR}
  <2>1. bus_write(b, a, v).mem = b.mem
    BY <1>1 DEF bus_write, keyboard_write_register, display_write_register, IsBus
  <2> QED BY <1>1, <2>1
<1>2. CASE a \notin {KBSR, KBDR, DSR, DDR}
  <2>1. bus_write(b, a, v).mem = SetCell(b.mem, a, v)
    BY <1>2 DEF bus_write, IsBus
  <2> QED BY <1>2, <2>1 DEF Cell, SetCell
<1> QED BY <1>1, <1>2

(* Two pushes move the stack pointer by two, and two pops move it back. *)
LEMMA PushPop ==
  ASSUME NEW top \in Word
  PROVE  /\ Minus(top, 2) \in Word /\ Plus(Minus(top, 2), 1) \in Word
         /\ Plus(Minus(top, 2), 1) # Minus(top, 2)
         /\ Plus(Minus(top, 2), 2) = top
<1>1. \A n \in Int : 0 <= n /\ n <= 65535 =>
        /\ (n - 2) % 65536 \in Int /\ 0 <= (n - 2) % 65536 /\ (n - 2) % 65536 <= 65535
        /\ (((n - 2) % 65536) + 1) % 65536 # (n - 2) % 65536
        /\ (((n - 2) % 65536) + 2) % 65536 = n
  BY SMT
<1>2. 1 \in Word /\ 2 \in Word
  BY WordRange
<1> QED
  BY <1>1, <1>2, WordRange, ArithmeticIsWord DEF Plus, Minus

(* No instruction, interrupt or exception changes SSP: the user alone can. *)
LEMMA SupervisorStackFixed ==
  ASSUME TypeOK, [Next]_vars
  PROVE  registers'[REG_SSP] = registers[REG_SSP]
<1>1. registers \in [lc3_reg -> Word] /\ DR \in 0 .. 7
  BY OperandsAreWords DEF TypeOK
<1> HIDE DEF DR
<1>2. \A value : SetDR(value) => registers'[REG_SSP] = registers[REG_SSP]
  BY <1>1 DEF SetDR, lc3_reg, REG_SSP, REG_PSR
<1>3. \A address : Jump(address) \/ Link(address) => registers'[REG_SSP] = registers[REG_SSP]
  BY <1>1 DEF Jump, Link, lc3_reg, REG_SSP, REG_PC, REG_R7
<1>4. \A vec, priority : EnterHandler(vec, priority) => registers'[REG_SSP] = registers[REG_SSP]
  BY <1>1 DEF EnterHandler, OnSupervisorStack, lc3_reg,
              REG_SSP, REG_USP, REG_R6, REG_PSR, REG_PC
<1>5. CASE Execute
  <2>1. CASE Rti
    BY <1>1, <2>1 DEF Rti, lc3_reg, REG_SSP, REG_R6, REG_PSR, REG_PC
  <2>2. CASE Add \/ And \/ Not \/ Lea \/ Ld \/ Ldr \/ Ldi
    BY <1>2, <2>2, Zenon DEF Add, And, Not, Lea, Ld, Ldr, Ldi, LoadFrom
  <2>3. CASE Br \/ JmpRet \/ Jsr \/ Jsrr \/ Trap
    <3>1. UNCHANGED registers \/ \E address : Jump(address) \/ Link(address)
      BY <2>3, Zenon DEF Br, JmpRet, Jsr, Jsrr, Trap
    <3> QED BY <1>3, <3>1
  <2>4. CASE St \/ Str \/ Sti \/ RtiInUserMode \/ IllegalOpcode
    BY <2>4 DEF St, Str, Sti, StoreTo, RtiInUserMode, IllegalOpcode
  <2> QED BY <1>5, <2>1, <2>2, <2>3, <2>4, Zenon DEF Execute
<1>6. CASE Fetch
  BY <1>1, <1>6 DEF Fetch, lc3_reg, REG_SSP, REG_PC
<1>7. CASE ServePrivModeViolation \/ ServeIllegalOpcode \/ \E vec \in Vec : TakeInterrupt(vec)
  BY <1>4, <1>7, Zenon DEF ServePrivModeViolation, ServeIllegalOpcode, TakeInterrupt
<1>8. CASE UNCHANGED registers
  BY <1>8
<1> QED
  BY <1>5, <1>6, <1>7, <1>8
     DEF Next, RunCpu, Tick, HaltBeforeFetch, HaltAfterExecute, NoException,
         NoCharacter, NoInterrupt, Character, ReadFails, Deliver, vars, cpu_vars

(* Where the status and the PC of a context were pushed, the PC below.     *)
FrameOf(c) == Minus(IF UserMode(c.psr) THEN registers[REG_SSP] ELSE c.r6, 2)
FrameCells(c) == {FrameOf(c), Plus(FrameOf(c), 1)}

(* The frame of c holds c. *)
Saved(c) ==
  /\ Cell(bus.mem, FrameOf(c)) = c.pc
  /\ Cell(bus.mem, Plus(FrameOf(c), 1)) = c.psr

(* What is asked of a program.  Its stacks are memory, apart, and long     *)
(* enough for the frames on them; no instruction writes to a frame; and a  *)
(* handler has R6 back at its frame when it returns.                       *)
FramesApart ==
  /\ \A i \in DOMAIN contexts : FrameCells(contexts[i]) \cap {KBSR, KBDR, DSR, DDR} = {}
  /\ \A i, j \in DOMAIN contexts :
       i # j => FrameCells(contexts[i]) \cap FrameCells(contexts[j]) = {}

InstructionsKeepFrames ==
  Execute => \A i \in DOMAIN contexts : \A a \in FrameCells(contexts[i]) :
               Cell(bus'.mem, a) = Cell(bus.mem, a)

ReturnsAtFrame ==
  Rti /\ contexts # <<>> => registers[REG_R6] = FrameOf(Last(contexts))

KeepsToStacks ==
  /\ []FramesApart
  /\ [][InstructionsKeepFrames /\ ReturnsAtFrame]_<<vars, contexts>>

(* What is saved are words. *)
AContext == [pc : Word, psr : Word, r6 : Word]

(* Entering a handler leaves the context in a frame, and writes nowhere    *)
(* else.                                                                   *)
LEMMA HandlerSavesContext ==
  ASSUME TypeOK, NEW vec \in 0 .. 254, NEW priority \in 0 .. 7, EnterHandler(vec, priority),
         FrameCells(Context) \cap {KBSR, KBDR, DSR, DDR} = {}
  PROVE  /\ Context \in AContext
         /\ Cell(bus'.mem, FrameOf(Context)) = PC
         /\ Cell(bus'.mem, Plus(FrameOf(Context), 1)) = PSR
         /\ \A a : a \notin FrameCells(Context) => Cell(bus'.mem, a) = Cell(bus.mem, a)
<1> DEFINE sp == FrameOf(Context)
<1>1. /\ registers \in [lc3_reg -> Word] /\ IsBus(bus)
      /\ PC \in Word /\ PSR \in Word
  BY OperandsAreWords DEF TypeOK
<1>2. registers[REG_R6] \in Word /\ registers[REG_SSP] \in Word
  BY <1>1 DEF lc3_reg, REG_R6, REG_SSP
<1>3. Context.psr = PSR /\ Context.r6 = registers[REG_R6] /\ Context \in AContext
  BY <1>1, <1>2 DEF Context, AContext
<1>4. OnSupervisorStack[REG_R6] = IF UserMode(PSR) THEN registers[REG_SSP] ELSE registers[REG_R6]
  BY <1>1 DEF OnSupervisorStack, lc3_reg, REG_R6, REG_USP, REG_SSP
<1>5. Minus(OnSupervisorStack[REG_R6], 2) = sp
  BY <1>3, <1>4 DEF FrameOf
<1>6. sp \in Word /\ Plus(sp, 1) \in Word /\ Plus(sp, 1) # sp
  BY <1>2, <1>4, <1>5, PushPop
<1>7. bus' = bus_write(bus_write(bus, Plus(sp, 1), PSR), sp, PC)
  BY <1>5 DEF EnterHandler
<1>8. IsBus(bus_write(bus, Plus(sp, 1), PSR))
  BY <1>1, <1>6, WriteIsBus
<1>9. sp \notin {KBSR, KBDR, DSR, DDR} /\ Plus(sp, 1) \notin {KBSR, KBDR, DSR, DDR}
  BY DEF FrameCells
<1> HIDE DEF sp
<1>10. \A x : Cell(bus'.mem, x)
         = IF x = sp THEN PC ELSE IF x = Plus(sp, 1) THEN PSR ELSE Cell(bus.mem, x)
  BY <1>1, <1>7, <1>8, <1>9, CellAfterWrite
<1> QED
  BY <1>3, <1>6, <1>10 DEF FrameCells, sp

(* rti takes what the frame at R6 holds, and leaves R6 above it only when  *)
(* it returns to a user program.                                           *)
LEMMA RtiRestores ==
  ASSUME TypeOK, Rti, NEW c \in AContext, Saved(c),
         registers[REG_R6] = FrameOf(c),
         FrameCells(c) \cap {KBSR, KBDR, DSR, DDR} = {}
  PROVE  /\ PC' = c.pc /\ PSR' = c.psr
         /\ registers'[REG_R6]
              = IF UserMode(c.psr) THEN registers[REG_SSP] ELSE registers[REG_USP]
<1> DEFINE sp == FrameOf(c)
           psr == bus_read(after_read(bus, sp), Plus(sp, 1))
<1>1. registers \in [lc3_reg -> Word] /\ IsBus(bus)
  BY DEF TypeOK
<1>2. registers[REG_SSP] \in Word
  BY <1>1 DEF lc3_reg, REG_SSP
<1>3. sp \notin {KBSR, KBDR, DSR, DDR} /\ Plus(sp, 1) \notin {KBSR, KBDR, DSR, DDR}
  BY DEF FrameCells
<1>4. after_read(bus, sp) = bus
  BY <1>3 DEF after_read
<1>5. bus_read(bus, sp) = c.pc /\ psr = c.psr
  BY <1>3, <1>4 DEF bus_read, Saved
<1>6. registers' = [registers EXCEPT
                      ![REG_PC] = bus_read(bus, sp), ![REG_PSR] = psr,
                      ![REG_R6] = IF UserMode(psr) THEN Plus(sp, 2) ELSE registers[REG_USP]]
  BY DEF Rti
<1>7. UserMode(c.psr) => Plus(sp, 2) = registers[REG_SSP]
  BY <1>2, PushPop DEF FrameOf
<1> HIDE DEF sp, psr
<1> QED
  BY <1>1, <1>5, <1>6, <1>7 DEF PC, PSR, lc3_reg, REG_PC, REG_PSR, REG_R6

(* Only instructions and pushes write to memory. *)
LEMMA MemoryUntouched ==
  ASSUME TypeOK, [Next]_vars, ~ Execute, ~ EntersHandler
  PROVE  bus'.mem = bus.mem
<1>1. CASE Fetch
  BY <1>1, AfterReadIsBus DEF Fetch, TypeOK
<1>2. ASSUME NEW char, Deliver(char) PROVE bus'.mem = bus.mem
  BY <1>2 DEF Deliver, simulator_update_devices_input, keyboard_on_input, TypeOK, IsBus
<1>3. CASE UNCHANGED bus
  BY <1>3
<1> QED
  BY <1>1, <1>2, <1>3
     DEF Next, RunCpu, Tick, HaltBeforeFetch, HaltAfterExecute, NoException, EntersHandler,
         NoCharacter, NoInterrupt, Character, ReadFails, vars, cpu_vars

(* Every context interrupted and not returned to is in its frame. *)
ContextIInv ==
  /\ TypeOK
  /\ contexts \in Seq(AContext)
  /\ \A i \in DOMAIN contexts : Saved(contexts[i])

(* Every step of a program that keeps to its stacks keeps the frames. *)
LEMMA NextKeepsContexts ==
  ASSUME ContextIInv, FramesApart', [CtxNext]_<<vars, contexts>>,
         [InstructionsKeepFrames /\ ReturnsAtFrame]_<<vars, contexts>>
  PROVE  ContextIInv'
<1>1. TypeOK /\ TypeOK' /\ [Next]_vars
  BY NextKeepsTypeOK DEF ContextIInv, CtxNext
<1>2. registers'[REG_SSP] = registers[REG_SSP]
  BY <1>1, SupervisorStackFixed
<1>3. \A c : FrameOf(c)' = FrameOf(c)
  BY <1>2 DEF FrameOf
<1>4. \A c : (\A a \in FrameCells(c) : Cell(bus'.mem, a) = Cell(bus.mem, a)) /\ Saved(c) => Saved(c)'
  BY <1>3 DEF FrameCells, Saved
<1>5. CASE UNCHANGED <<vars, contexts>>
  <2>1. bus' = bus /\ contexts' = contexts
    BY <1>5 DEF vars, cpu_vars
  <2> QED BY <1>1, <1>4, <2>1 DEF ContextIInv
<1>6. CASE CtxNext /\ EntersHandler
  <2>1. contexts' = Append(contexts, Context)
    BY <1>6 DEF CtxNext, Remember
  <2>2. PICK vec \in 0 .. 254, priority \in 0 .. 7 : EnterHandler(vec, priority)
    <3>1. CASE ServePrivModeViolation \/ ServeIllegalOpcode
      <4>1. PSR_PRIORITY(PSR) \in 0 .. 7
        BY <1>1, OperandsAreWords, PriorityRange
      <4> QED BY <3>1, <4>1
                 DEF ServePrivModeViolation, ServeIllegalOpcode,
                     PRIV_MODE_VIOLATION_EXCEPTION_VECTOR, ILLEGAL_OPCODE_EXCEPTION_VECTOR
    <3>2. CASE \E vec \in Vec : TakeInterrupt(vec)
      <4>1. PICK vec \in Vec : TakeInterrupt(vec)
        BY <3>2
      <4>2. vec \in DOMAIN pending
        BY <4>1 DEF TakeInterrupt, Queue!IsTop
      <4>3. pending[vec] \in Priority
        BY <1>1, <4>2 DEF TypeOK, Queue!TypeOK
      <4> QED BY <4>1, <4>3, VectorsAndPriorities DEF TakeInterrupt
    <3> QED BY <1>6, <3>1, <3>2 DEF EntersHandler
  <2>3. contexts \in Seq(AContext)
    BY DEF ContextIInv
  <2> PICK n \in Nat : n = Len(contexts) + 1
    BY <2>3
  <2>4. /\ DOMAIN contexts' = 1 .. n /\ n \in DOMAIN contexts' /\ contexts'[n] = Context
        /\ \A i \in DOMAIN contexts :
             i \in DOMAIN contexts' /\ i # n /\ contexts'[i] = contexts[i]
        /\ \A i \in DOMAIN contexts' : i = n \/ i \in DOMAIN contexts
    BY <2>1, <2>3
  <2>5. FrameCells(Context) \cap {KBSR, KBDR, DSR, DDR} = {}
    <3>1. FrameCells(contexts[n])' \cap {KBSR, KBDR, DSR, DDR} = {}
      BY <2>4 DEF FramesApart
    <3>2. FrameCells(contexts[n])' = FrameCells(Context)
      BY <1>2, <2>4, SMTT(30) DEF FrameCells, FrameOf
    <3> QED BY <3>1, <3>2
  <2>6. /\ Context \in AContext
        /\ Cell(bus'.mem, FrameOf(Context)) = PC
        /\ Cell(bus'.mem, Plus(FrameOf(Context), 1)) = PSR
        /\ \A a : a \notin FrameCells(Context) => Cell(bus'.mem, a) = Cell(bus.mem, a)
    BY <1>1, <2>2, <2>5, HandlerSavesContext
  <2>7. ASSUME NEW i \in DOMAIN contexts
        PROVE  Saved(contexts[i])'
    <3>1. FrameCells(contexts[i])' \cap FrameCells(contexts[n])' = {}
      BY <2>4 DEF FramesApart
    <3>2. /\ FrameCells(contexts[i])' = FrameCells(contexts[i])
          /\ FrameCells(contexts[n])' = FrameCells(Context)
      BY <1>2, <2>4 DEF FrameCells, FrameOf
    <3>3. \A a \in FrameCells(contexts[i]) : Cell(bus'.mem, a) = Cell(bus.mem, a)
      BY <2>6, <3>1, <3>2
    <3>4. Saved(contexts[i])
      BY DEF ContextIInv
    <3>5. Saved(contexts[i])' = (/\ Cell(bus'.mem, FrameOf(contexts[i])) = contexts[i].pc
                                /\ Cell(bus'.mem, Plus(FrameOf(contexts[i]), 1)) = contexts[i].psr)
      BY <1>2, <2>4 DEF Saved, FrameOf
    <3> QED BY <3>3, <3>4, <3>5 DEF Saved, FrameCells
  <2>8. Saved(contexts[n])'
    <3>1. FrameOf(contexts[n])' = FrameOf(Context)
      BY <1>2, <2>4 DEF FrameOf
    <3>2. Context.pc = PC /\ Context.psr = PSR
      BY DEF Context
    <3> QED BY <2>4, <2>6, <3>1, <3>2 DEF Saved
  <2>9. contexts' \in Seq(AContext)
    BY <2>1, <2>3, <2>6
  <2>10. \A i \in DOMAIN contexts' : Saved(contexts[i])'
    BY <2>4, <2>7, <2>8
  <2> QED BY <1>1, <2>9, <2>10 DEF ContextIInv
<1>7. CASE CtxNext /\ ~ EntersHandler
  <2>1. \A i \in DOMAIN contexts : \A a \in FrameCells(contexts[i]) :
          Cell(bus'.mem, a) = Cell(bus.mem, a)
    <3>1. CASE Execute
      <4>1. InstructionsKeepFrames \/ UNCHANGED <<vars, contexts>>
        OBVIOUS
      <4> QED BY <3>1, <4>1 DEF InstructionsKeepFrames, vars, cpu_vars
    <3>2. CASE ~ Execute
      BY <1>1, <1>7, <3>2, MemoryUntouched
    <3> QED BY <3>1, <3>2
  <2>2. /\ contexts' \in Seq(AContext)
        /\ \A i \in DOMAIN contexts' : i \in DOMAIN contexts /\ contexts'[i] = contexts[i]
    <3>1. contexts \in Seq(AContext)
      BY DEF ContextIInv
    <3>2. CASE contexts' = contexts
      BY <3>1, <3>2
    <3>3. CASE contexts # <<>> /\ contexts' = Front(contexts)
      BY <3>1, <3>3 DEF Front
    <3> QED BY <1>7, <3>2, <3>3 DEF CtxNext, Remember
  <2>3. \A i \in DOMAIN contexts' : Saved(contexts[i])'
    BY <1>4, <2>1, <2>2 DEF ContextIInv, Saved
  <2> QED BY <1>1, <2>2, <2>3 DEF ContextIInv
<1> QED
  BY <1>5, <1>6, <1>7

(* At the start no context is interrupted. *)
LEMMA ContextsStart == CtxInit => ContextIInv
BY InitTypeOK DEF CtxInit, ContextIInv

(* What rti does at the frame of the innermost context. *)
LEMMA RtiAtFrame ==
  ASSUME ContextIInv, FramesApart, contexts # <<>>, Rti,
         [InstructionsKeepFrames /\ ReturnsAtFrame]_<<vars, contexts>>
  PROVE  \/ UNCHANGED <<vars, contexts>>
         \/ /\ PC' = Last(contexts).pc /\ PSR' = Last(contexts).psr
            /\ registers'[REG_R6] = IF UserMode(Last(contexts).psr) THEN registers[REG_SSP]
                                    ELSE registers[REG_USP]
<1>1. contexts \in Seq(AContext)
  BY DEF ContextIInv
<1>2. Len(contexts) \in DOMAIN contexts /\ Last(contexts) = contexts[Len(contexts)]
  BY <1>1 DEF Last
<1>3. /\ Last(contexts) \in AContext /\ Saved(Last(contexts))
      /\ FrameCells(Last(contexts)) \cap {KBSR, KBDR, DSR, DDR} = {}
  BY <1>1, <1>2 DEF ContextIInv, FramesApart
<1>4. CASE registers[REG_R6] = FrameOf(Last(contexts))
  BY <1>3, <1>4, RtiRestores DEF ContextIInv
<1> QED
  BY <1>4 DEF ReturnsAtFrame

(* A program that keeps to its stacks finds its way back from every        *)
(* handler: interrupts and exceptions nest, and rti resumes the innermost  *)
(* at its PC with its status.                                              *)
THEOREM HandlersReturn ==
  CtxSpec /\ KeepsToStacks => ReturnsToInterrupted
<1>1. /\ ContextIInv /\ FramesApart
      /\ [CtxNext]_<<vars, contexts>>
      /\ [InstructionsKeepFrames /\ ReturnsAtFrame]_<<vars, contexts>>
      => [Rti /\ contexts # <<>> =>
            PC' = Last(contexts).pc /\ PSR' = Last(contexts).psr]_<<vars, contexts>>
  BY RtiAtFrame
<1> QED
  BY <1>1, ContextsStart, NextKeepsContexts, PTL
     DEF CtxSpec, KeepsToStacks, ReturnsToInterrupted

(* It does not find its R6, though: a user program is left with what SSP   *)
(* holds, and a handler that was interrupted with what USP holds.          *)
StackPointerAfterRti ==
  [][Rti /\ contexts # <<>> =>
       registers'[REG_R6] = IF UserMode(Last(contexts).psr) THEN registers[REG_SSP]
                            ELSE registers[REG_USP]]_<<vars, contexts>>

(* So a nested handler that goes by R6 does not find its own frame, as     *)
(* StackPointerRestored of Contexts asks.                                  *)
THEOREM StackPointersSwapped ==
  CtxSpec /\ KeepsToStacks => StackPointerAfterRti
<1>1. /\ ContextIInv /\ FramesApart
      /\ [CtxNext]_<<vars, contexts>>
      /\ [InstructionsKeepFrames /\ ReturnsAtFrame]_<<vars, contexts>>
      => [Rti /\ contexts # <<>> =>
            registers'[REG_R6] = IF UserMode(Last(contexts).psr) THEN registers[REG_SSP]
                                 ELSE registers[REG_USP]]_<<vars, contexts>>
  BY RtiAtFrame
<1> QED
  BY <1>1, ContextsStart, NextKeepsContexts, PTL
     DEF CtxSpec, KeepsToStacks, StackPointerAfterRti
=============================================================================
