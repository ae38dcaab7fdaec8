------------------------------ MODULE Programs ------------------------------
(***************************************************************************)
(* Programs to run in the simulator, and what those that echo promise      *)
(* about the characters typed.                                             *)
(***************************************************************************)
EXTENDS Simulator, LC3Assembler, SequencesExt

UserPSR == HighBit + 2
SSP == 12288
QuitKey == 113              \* the character that stops the polling program
KBSR_IE == 16384

Regs(pc, psr, r6) ==
  [r \in {REG_PC, REG_PSR, REG_R6, REG_SSP} |->
     CASE r = REG_PC -> pc [] r = REG_PSR -> psr [] r = REG_R6 -> r6 [] OTHER -> SSP]

Vector(vec, handler) == At(INTERRUPT_VECTOR_TABLE + vec, <<handler>>)

-----------------------------------------------------------------------------
(* Echo by polling, until QuitKey is read, at the priority of the devices. *)

PollingBoot ==
  [image |->
     At(12288, <<LDI(0, 11), BR(IfZeroOrPositive, -2), LDI(0, 10),   \* a character
                 LDI(1, 10), BR(IfZeroOrPositive, -2), STI(0, 9),    \* display it
                 LD(1, 10), ADDR(1, 0, 1), BR(IfNotZero, -9),        \* QuitKey?
                 ANDI(1, 1, 0), STI(1, 5), BR(Always, -1),           \* stop the clock
                 KBSR, KBDR, DSR, DDR, MCR_ADDR, 65536 - QuitKey>>),
   regs |-> Regs(12288, 1024, 61440)]

-----------------------------------------------------------------------------
(* Echo by interrupts, from user mode.  The boot code runs at the          *)
(* keyboard's priority: it enables interrupts, echoes a character that may *)
(* have come before, and returns to the user program through a frame it    *)
(* finds at R6.  A second device interrupts at the same priority, so that  *)
(* no handler preempts another: rti would not find its way back, see       *)
(* StackPointerRestored of Contexts.                                       *)

KeyboardHandler ==
  At(4096, <<ST(0, 9), LDI(0, 5), BR(IfZeroOrPositive, 2),           \* spurious?
             LDI(0, 4), STI(0, 4), LD(0, 4), RTI,
             KBSR, KBDR, DDR>>)
  ++ Vector(KEYBOARD_INTERRUPT_VECTOR, 4096)

OtherHandler(vec) == At(4352, <<NOT(0, 0), NOT(0, 0), RTI>>) ++ Vector(vec, 4352)
PeerDevice == {<<144, 4>>}

Frame == 61438

InterruptBoot ==
  [image |->
     At(12288, <<LD(1, 10), STI(1, 6), LDI(0, 5), BR(IfZeroOrPositive, 2),
                 LDI(0, 4), STI(0, 4), RTI,
                 BR(Always, -1),                                     \* user program
                 KBSR, KBDR, DDR, KBSR_IE>>)
     ++ At(Frame, <<12288 + 7, UserPSR>>)
     ++ KeyboardHandler ++ OtherHandler(144),
   regs |-> Regs(12288, 1024, Frame)]

-----------------------------------------------------------------------------
(* Interrupts of three priorities, whose handlers never return, so that    *)
(* each can only be preempted.                                             *)

LoopForever(vec, handler) == At(handler, <<BR(Always, -1)>>) ++ Vector(vec, handler)
LowAndHighDevices == {<<144, 2>>, <<145, 6>>}

PreemptBoot ==
  [image |-> At(12288, <<LD(1, 2), STI(1, 2), BR(Always, -1), KBSR_IE, KBSR>>)
             ++ LoopForever(KEYBOARD_INTERRUPT_VECTOR, 4096)
             ++ LoopForever(144, 4352) ++ LoopForever(145, 4608),
   regs |-> Regs(12288, UserPSR, 61440)]

-----------------------------------------------------------------------------
(* User programs that only the high device interrupts: one that loops, and *)
(* one that stops the clock, with a supervisor stack that starts just      *)
(* above the machine control register.                                     *)

InterruptedBoot ==
  [image |-> At(12800, <<NOT(1, 1), BR(Always, -2)>>) ++ OtherHandler(145),
   regs |-> Regs(12800, UserPSR + 1280, 61440)]

StopBoot ==
  [image |-> At(12800, <<NOT(1, 1), STI(0, 1), BR(Always, -1), MCR_ADDR>>) ++ OtherHandler(145),
   regs |-> [Regs(12800, UserPSR + 1280, 61440) EXCEPT ![REG_SSP] = MCR_ADDR + 1]]

-----------------------------------------------------------------------------
(* A user program that goes through the instruction set, an illegal opcode *)
(* and an rti included, again and again, with interrupts of all three      *)
(* priorities pending; and a machine as new_Cpu leaves it, where the first *)
(* exception pushes on a stack that starts at 0.  The handler of the rti   *)
(* raises an exception itself, and looks for its frame where it knows it   *)
(* to be: R6 is USP when the nested handler returns.                       *)

ExceptionHandlers ==
  At(4608, <<ILLEGAL, LD(6, 1), RTI, SSP - 2>>)
  ++ Vector(PRIV_MODE_VIOLATION_EXCEPTION_VECTOR, 4608)
  ++ At(4864, <<RTI>>) ++ Vector(ILLEGAL_OPCODE_EXCEPTION_VECTOR, 4864)

TrapRoutine == At(1024, <<JMP(7)>>) ++ At(37, <<1024>>)

UserBoot ==
  [image |->
     At(12800, <<LD(1, 19), STI(1, 15),                              \* interrupts on
                 ILLEGAL, RTI,
                 LEA(2, 13), LDR(3, 2, 1), NOT(3, 3), STR(3, 2, 1), ST(3, 9),
                 ANDR(3, 3, 2), JSR(5),
                 ANDI(4, 4, 0), ADDI(4, 4, 2), JSRR(4), TRAP(37), BR(Always, -14),
                 JMP(7), KBSR, 0, 4660, KBSR_IE>>)
     ++ ExceptionHandlers ++ TrapRoutine,
   regs |-> Regs(12800, UserPSR + 1536, 61440)]

FreshBoot ==
  [image |-> At(12288, <<ILLEGAL>>) ++ ExceptionHandlers ++ OtherHandler(145),
   regs |-> REG_PC :> 12288]

-----------------------------------------------------------------------------
(* Constant values *)

EchoBoots == {PollingBoot, InterruptBoot}
InterruptBoots == {InterruptBoot}
MachineBoots == {PreemptBoot, InterruptedBoot, StopBoot, UserBoot, FreshBoot}
NoOtherDevice == {}

-----------------------------------------------------------------------------
(* Properties of the echo programs *)

(* What the user sees is some of what was typed, in order, each character  *)
(* once: an overrun may lose a character, but none is doubled, reordered   *)
(* or altered on its way through kbdr, a register and the display.         *)
EchoInOrder ==
  \E at \in [1 .. Len(bus.output) -> 1 .. Len(typed)] :
    /\ \A i \in DOMAIN at : bus.output[i] = typed[at[i]]
    /\ \A i, j \in DOMAIN at : i < j => at[i] < at[j]
=============================================================================
