----------------------------- MODULE Simulator ------------------------------
(***************************************************************************)
(* src/src/simulator.c: simulator_run_until_end, the loop that ticks the   *)
(* CPU, polls the terminal for a character, and lets the CPU accept the    *)
(* most urgent interrupt.  The CPU is Cpu.tla; of the interrupt controller *)
(* only what InterruptQueue promises is used; the keyboard plugin is the   *)
(* device that listens to input.  No device has an on_tick callback.       *)
(*                                                                         *)
(*   fetch -> execute -> retire -> input -> interrupts -> fetch            *)
(*                                                                         *)
(* One thread runs the loop.  The environment acts where the loop polls:   *)
(* a character is there or not, or the read fails, and a plugin of the     *)
(* user's own may raise an interrupt from its on_input callback.           *)
(***************************************************************************)
EXTENDS Cpu

CONSTANTS
  Boots,        \* programs: records of the cells and registers set before run
  Chars,        \* the bytes that can be typed
  Garbage,      \* what the local input may hold when a read fails
  OtherAlerts,  \* <<vec, priority>> pairs a plugin of the user's may raise
  MaxInput      \* bound on the characters typed in one behaviour

ASSUME SimulatorAssumption ==
  /\ \A boot \in Boots :
       /\ DOMAIN boot.image \subseteq Word \ {KBSR, KBDR, DSR, DDR}
       /\ \A a \in DOMAIN boot.image : boot.image[a] \in Word
       /\ \A r \in DOMAIN boot.regs : boot.regs[r] \in Word
  /\ Chars \subseteq 0 .. 255
  /\ Garbage \subseteq 0 .. 255
  /\ OtherAlerts \subseteq (0 .. 254) \X (0 .. 7)
  /\ MaxInput \in Nat

VARIABLES
  pending,      \* inter_cont, as InterruptQueue sees it
  typed         \* history: the characters polled so far

vars == <<cpu_vars, pending, typed>>

Vec == {KEYBOARD_INTERRUPT_VECTOR} \cup {alert[1] : alert \in OtherAlerts}
Priority == {KEYBOARD_INTERRUPT_PRIORITY} \cup {alert[2] : alert \in OtherAlerts}

Queue == INSTANCE InterruptQueue

Init ==
  /\ \E boot \in Boots : CpuInit(boot.image, boot.regs)
  /\ Queue!Init
  /\ typed = <<>>

RunCpu == Tick /\ UNCHANGED <<pending, typed>>

-----------------------------------------------------------------------------
(* simulator_check_input *)

NoCharacter ==
  /\ phase = "input"
  /\ phase' = "interrupts"
  /\ UNCHANGED <<registers, instruction, lines, bus, pending, typed>>

(* q once the keyboard has been told of a character. *)
KeyboardAlert(q) ==
  IF InterruptEnabled(bus.kbsr)
  THEN Queue!WithAlert(q, KEYBOARD_INTERRUPT_VECTOR, KEYBOARD_INTERRUPT_PRIORITY)
  ELSE q

(* The keyboard is told of a character, and maybe a device of the user's. *)
simulator_update_devices_input(char) ==
  /\ bus' = keyboard_on_input(bus, char)
  /\ \/ pending' = KeyboardAlert(pending)
     \/ \E alert \in OtherAlerts :
          pending' = Queue!WithAlert(KeyboardAlert(pending), alert[1], alert[2])

Deliver(char) ==
  /\ phase = "input"
  /\ simulator_update_devices_input(char)
  /\ phase' = "interrupts"
  /\ UNCHANGED <<registers, instruction, lines>>

Character(char) ==
  /\ Len(typed) < MaxInput
  /\ Deliver(char)
  /\ typed' = Append(typed, char)

(* get_char returns -1 for an error, and check_input takes every value but *)
(* 0 for a character: the devices are told what input happened to hold.    *)
ReadFails(char) == Deliver(char) /\ UNCHANGED typed

-----------------------------------------------------------------------------
(* simulator_check_interrupts: peek, cpu_signal_interrupt, take *)

Accepts(vec) == pending[vec] > PSR_PRIORITY(PSR)

TakeInterrupt(vec) ==
  /\ phase = "interrupts"
  /\ Queue!IsTop(pending, vec)
  /\ Accepts(vec)
  /\ EnterHandler(vec, pending[vec])
  /\ pending' = Queue!Without(pending, vec)
  /\ phase' = "fetch"
  /\ UNCHANGED <<instruction, lines, typed>>

NoInterrupt ==
  /\ phase = "interrupts"
  /\ \A vec \in DOMAIN pending : Queue!IsTop(pending, vec) => ~ Accepts(vec)
  /\ phase' = "fetch"
  /\ UNCHANGED <<registers, instruction, lines, bus, pending, typed>>

Next ==
  \/ RunCpu
  \/ NoCharacter
  \/ \E char \in Chars : Character(char)
  \/ \E char \in Garbage : ReadFails(char)
  \/ \E vec \in Vec : TakeInterrupt(vec)
  \/ NoInterrupt

Spec == Init /\ [][Next]_vars

-----------------------------------------------------------------------------
(* Properties *)

(* Registers, cells and device registers stay uint16_t, and the terminal   *)
(* gets and sends bytes.                                                   *)
TypeOK ==
  /\ registers \in [lc3_reg -> Word]
  /\ instruction \in Word
  /\ priv_mode_violation_line \in BOOLEAN
  /\ illegal_opcode_line \in BOOLEAN
  /\ IsBus(bus)
  /\ phase \in {"fetch", "execute", "retire", "input", "interrupts", "halted"}
  /\ Queue!TypeOK
  /\ typed \in Seq(Chars)

(* An exception is served in the tick that raised it, never in a later     *)
(* one, where the status it saves would be another instruction's; and one  *)
(* instruction never raises both.                                          *)
ExceptionServedInTick ==
  /\ phase # "retire" => ~ priv_mode_violation_line /\ ~ illegal_opcode_line
  /\ ~ (priv_mode_violation_line /\ illegal_opcode_line)

(* When the next instruction is fetched, no interrupt is pending that      *)
(* outranks what the CPU is doing, although a handler may just have been   *)
(* entered, left by rti, or raised by an alert that was merged with        *)
(* another.                                                                *)
NoPriorityInversion ==
  phase = "fetch" =>
    \A vec \in DOMAIN pending : pending[vec] <= PSR_PRIORITY(PSR)

(* A program in user mode gets to supervisor mode only through the vector  *)
(* table: no instruction clears bit 15 of the status, and when an          *)
(* interrupt or an exception does, the PC is what the table holds and the  *)
(* user's stack pointer is kept in USP.                                    *)
UserModeConfined ==
  [][UserMode(PSR) /\ ~ UserMode(PSR') =>
       /\ \E vec \in Vec \cup {PRIV_MODE_VIOLATION_EXCEPTION_VECTOR,
                                ILLEGAL_OPCODE_EXCEPTION_VECTOR} :
            PC' = Cell(bus.mem, INTERRUPT_VECTOR_TABLE + vec)'
       /\ registers'[REG_USP] = registers[REG_R6]]_vars

(* A clock that went off stays off for the rest of the run: the exception  *)
(* or interrupt still served in the same turn of the loop, whose frame may *)
(* fall on the machine control register, does not turn it on again.        *)
StoppedForGood == [][~ CLOCK_ENABLED(bus) => ~ CLOCK_ENABLED(bus)']_vars
=============================================================================
