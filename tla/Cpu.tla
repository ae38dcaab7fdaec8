-------------------------------- MODULE Cpu ---------------------------------
(***************************************************************************)
(* src/src/cpu.c: cpu_tick, one action per step of a tick and one per      *)
(* instruction, and the entry to interrupt and exception handlers.         *)
(*                                                                         *)
(*   fetch   -> execute -> retire -> input                                 *)
(*      \-> halted <----------/                                            *)
(*                                                                         *)
(* "input" is where cpu_tick has returned 1 to its caller, and "halted"    *)
(* where it has returned 0.                                                *)
(***************************************************************************)
EXTENDS Devices

(* enum lc3_reg: R0 to R7 are 0 to 7. *)
REG_R6  == 6
REG_R7  == 7
REG_PC  == 8
REG_PSR == 9
REG_USP == 10
REG_SSP == 11
lc3_reg == 0 .. 11

INIT_PSR_MASK_SUPERVISOR == 2
INTERRUPT_VECTOR_TABLE == 256
PRIV_MODE_VIOLATION_EXCEPTION_VECTOR == 0
ILLEGAL_OPCODE_EXCEPTION_VECTOR == 1

VARIABLES
  registers,
  instruction,                      \* local of cpu_tick
  priv_mode_violation_line,
  illegal_opcode_line,
  bus,
  phase

lines == <<priv_mode_violation_line, illegal_opcode_line>>
cpu_vars == <<registers, instruction, lines, bus, phase>>

(* new_Cpu, then the load command and any "reg write" before the first     *)
(* run: image and regs are the memory cells and registers they set.        *)
CpuInit(image, regs) ==
  /\ registers = [r \in lc3_reg |-> IF r \in DOMAIN regs THEN regs[r] ELSE 0]
  /\ instruction = 0
  /\ priv_mode_violation_line = FALSE
  /\ illegal_opcode_line = FALSE
  /\ bus = NewBus(SetCell(image, MCR_ADDR, HighBit))
  /\ phase = "fetch"

PC == registers[REG_PC]
PSR == registers[REG_PSR]

-----------------------------------------------------------------------------
(* Fetch *)

HaltBeforeFetch ==
  /\ phase = "fetch"
  /\ ~ CLOCK_ENABLED(bus)
  /\ phase' = "halted"
  /\ UNCHANGED <<registers, instruction, lines, bus>>

(* Fault for ClockStaysOff: the clock is tested after execution only. *)
FetchUnclocked ==
  /\ phase = "fetch"
  /\ instruction' = bus_read(bus, PC)
  /\ bus' = after_read(bus, PC)
  /\ registers' = [registers EXCEPT ![REG_PC] = Plus(PC, 1)]
  /\ phase' = "execute"
  /\ UNCHANGED lines

Fetch ==
  /\ phase = "fetch"
  /\ CLOCK_ENABLED(bus)
  /\ instruction' = bus_read(bus, PC)
  /\ bus' = after_read(bus, PC)
  /\ registers' = [registers EXCEPT ![REG_PC] = Plus(PC, 1)]
  /\ phase' = "execute"
  /\ UNCHANGED lines

-----------------------------------------------------------------------------
(* Execute *)

Executing(opcode) ==
  /\ phase = "execute"
  /\ OPCODE(instruction) = opcode
  /\ phase' = "retire"
  /\ UNCHANGED instruction

DR == REG1_INSTRU(instruction)       \* also the source register of a store
BaseR == registers[REG2_INSTRU(instruction)]

(* dr := value, then set_condition_code(dr) *)
SetDR(value) ==
  registers' = [registers EXCEPT ![DR] = value,
                                 ![REG_PSR] = WithConditionCode(PSR, value)]

Jump(address) == registers' = [registers EXCEPT ![REG_PC] = address]

(* A jump that leaves the return address in R7 first. *)
Link(address) ==
  registers' = [registers EXCEPT ![REG_R7] = PC, ![REG_PC] = address]

compute_direct_address == Plus(PC, SignedOffset9(instruction))
compute_base_plus_offset == Plus(BaseR, SignedOffset6(instruction))

(* What an indirect access finds in the pointer cell. *)
compute_indirect_address == bus_read(bus, compute_direct_address)

second_operand ==
  IF IS_IMM5(instruction)
  THEN SignedImm5(instruction)
  ELSE registers[REG3_INSTRU(instruction)]

Add ==
  /\ Executing(1)
  /\ SetDR(Plus(BaseR, second_operand))
  /\ UNCHANGED <<lines, bus>>

And ==
  /\ Executing(5)
  /\ SetDR(BitAnd(BaseR, second_operand))
  /\ UNCHANGED <<lines, bus>>

Not ==
  /\ Executing(9)
  /\ SetDR(Complement(BaseR))
  /\ UNCHANGED <<lines, bus>>

Lea ==
  /\ Executing(14)
  /\ SetDR(compute_direct_address)
  /\ UNCHANGED <<lines, bus>>

Br ==
  /\ Executing(0)
  /\ IF BitAnd(NZP_INSTRU(instruction), NZP_PSR(PSR)) # 0
     THEN Jump(compute_direct_address)
     ELSE UNCHANGED registers
  /\ UNCHANGED <<lines, bus>>

JmpRet ==
  /\ Executing(12)
  /\ Jump(BaseR)
  /\ UNCHANGED <<lines, bus>>

Jsr ==
  /\ Executing(4)
  /\ IS_JSR(instruction)
  /\ Link(Plus(PC, SignedOffset11(instruction)))
  /\ UNCHANGED <<lines, bus>>

(* R7 is overwritten before the base register is read, and the base is     *)
(* added to the PC.                                                        *)
Jsrr ==
  /\ Executing(4)
  /\ ~ IS_JSR(instruction)
  /\ Link(Plus(PC, IF REG2_INSTRU(instruction) = REG_R7 THEN PC ELSE BaseR))
  /\ UNCHANGED <<lines, bus>>

(* Fault for UserModeConfined: a trap enters supervisor mode. *)
TrapToSupervisor ==
  /\ Executing(15)
  /\ registers' = [registers EXCEPT ![REG_R7] = PC, ![REG_PSR] = PSR % HighBit,
                                    ![REG_PC] = bus_read(bus, TRAPVECT8(instruction))]
  /\ UNCHANGED <<lines, bus>>

(* The mode does not change on a trap. *)
Trap ==
  /\ Executing(15)
  /\ Link(bus_read(bus, TRAPVECT8(instruction)))
  /\ bus' = after_read(bus, TRAPVECT8(instruction))
  /\ UNCHANGED lines

LoadFrom(b, address) ==
  /\ SetDR(bus_read(b, address))
  /\ bus' = after_read(b, address)
  /\ UNCHANGED lines

Ld  == Executing(2) /\ LoadFrom(bus, compute_direct_address)
Ldr == Executing(6) /\ LoadFrom(bus, compute_base_plus_offset)
Ldi ==
  /\ Executing(10)
  /\ LoadFrom(after_read(bus, compute_direct_address), compute_indirect_address)

StoreTo(b, address) ==
  /\ bus' = bus_write(b, address, registers[DR])
  /\ UNCHANGED <<registers, lines>>

St  == Executing(3) /\ StoreTo(bus, compute_direct_address)
Str == Executing(7) /\ StoreTo(bus, compute_base_plus_offset)
Sti ==
  /\ Executing(11)
  /\ StoreTo(after_read(bus, compute_direct_address), compute_indirect_address)

(* rti in user mode only raises the exception line. *)
RtiInUserMode ==
  /\ Executing(8)
  /\ UserMode(PSR)
  /\ priv_mode_violation_line' = TRUE
  /\ UNCHANGED <<registers, illegal_opcode_line, bus>>

(* Two pops.  R6 takes the user stack pointer when the popped status has   *)
(* bit 15 clear, which is when the CPU stays in supervisor mode.           *)
Rti ==
  LET sp == registers[REG_R6]
      after_first == after_read(bus, sp)
      psr == bus_read(after_first, Plus(sp, 1))
  IN  /\ Executing(8)
      /\ ~ UserMode(PSR)
      /\ registers' = [registers EXCEPT
                         ![REG_PC]  = bus_read(bus, sp),
                         ![REG_PSR] = psr,
                         ![REG_R6]  = IF UserMode(psr) THEN Plus(sp, 2)
                                                       ELSE registers[REG_USP]]
      /\ bus' = after_read(after_first, Plus(sp, 1))
      /\ UNCHANGED lines

IllegalOpcode ==
  /\ Executing(13)
  /\ illegal_opcode_line' = TRUE
  /\ UNCHANGED <<registers, priv_mode_violation_line, bus>>

Execute ==
  \/ Add \/ And \/ Not \/ Lea \/ Br \/ JmpRet \/ Jsr \/ Jsrr \/ Trap
  \/ Ld \/ Ldr \/ Ldi \/ St \/ Str \/ Sti
  \/ RtiInUserMode \/ Rti \/ IllegalOpcode

-----------------------------------------------------------------------------
(* Retire *)

OnSupervisorStack ==
  IF UserMode(PSR)
  THEN [registers EXCEPT ![REG_USP] = registers[REG_R6], ![REG_R6] = registers[REG_SSP]]
  ELSE registers

(* Fault for NoPriorityInversion: the handler runs at priority 0. *)
EnterHandlerAtZero(vec, priority) ==
  LET regs == OnSupervisorStack
      sp == Minus(regs[REG_R6], 2)
      pushed == bus_write(bus_write(bus, Plus(sp, 1), PSR), sp, PC)
  IN  /\ bus' = pushed
      /\ registers' = [regs EXCEPT
                         ![REG_R6]  = sp,
                         ![REG_PSR] = INIT_PSR_MASK_SUPERVISOR,
                         ![REG_PC]  = bus_read(pushed, INTERRUPT_VECTOR_TABLE + vec)]

(* Fault for ReturnsToInterrupted: the PC is pushed first. *)
EnterHandlerPcFirst(vec, priority) ==
  LET regs == OnSupervisorStack
      sp == Minus(regs[REG_R6], 2)
      pushed == bus_write(bus_write(bus, Plus(sp, 1), PC), sp, PSR)
  IN  /\ bus' = pushed
      /\ registers' = [regs EXCEPT
                         ![REG_R6]  = sp,
                         ![REG_PSR] = INIT_PSR_MASK_SUPERVISOR + 256 * priority,
                         ![REG_PC]  = bus_read(pushed, INTERRUPT_VECTOR_TABLE + vec)]

(* cpu_execute_interrupt and cpu_execute_exception: push the status and    *)
(* the PC on the supervisor stack and go through the vector table.         *)
EnterHandler(vec, priority) ==
  LET regs == OnSupervisorStack
      sp == Minus(regs[REG_R6], 2)
      pushed == bus_write(bus_write(bus, Plus(sp, 1), PSR), sp, PC)
  IN  /\ bus' = pushed
      /\ registers' = [regs EXCEPT
                         ![REG_R6]  = sp,
                         ![REG_PSR] = INIT_PSR_MASK_SUPERVISOR + 256 * priority,
                         ![REG_PC]  = bus_read(pushed, INTERRUPT_VECTOR_TABLE + vec)]

HaltAfterExecute ==
  /\ phase = "retire"
  /\ ~ CLOCK_ENABLED(bus)
  /\ phase' = "halted"
  /\ UNCHANGED <<registers, instruction, lines, bus>>

(* Fault for StoppedForGood: the clock is only tested before a fetch. *)
RetiringUnclocked ==
  /\ phase = "retire"
  /\ phase' = "input"
  /\ UNCHANGED instruction

(* cpu_check_exceptions *)
Retiring ==
  /\ phase = "retire"
  /\ CLOCK_ENABLED(bus)
  /\ phase' = "input"
  /\ UNCHANGED instruction

(* Fault for ExceptionServedInTick: the line stays up. *)
ServePrivModeViolationAgain ==
  /\ Retiring
  /\ priv_mode_violation_line
  /\ EnterHandler(PRIV_MODE_VIOLATION_EXCEPTION_VECTOR, PSR_PRIORITY(PSR))
  /\ UNCHANGED lines

ServePrivModeViolation ==
  /\ Retiring
  /\ priv_mode_violation_line
  /\ priv_mode_violation_line' = FALSE
  /\ EnterHandler(PRIV_MODE_VIOLATION_EXCEPTION_VECTOR, PSR_PRIORITY(PSR))
  /\ UNCHANGED illegal_opcode_line

ServeIllegalOpcode ==
  /\ Retiring
  /\ ~ priv_mode_violation_line
  /\ illegal_opcode_line
  /\ illegal_opcode_line' = FALSE
  /\ EnterHandler(ILLEGAL_OPCODE_EXCEPTION_VECTOR, PSR_PRIORITY(PSR))
  /\ UNCHANGED priv_mode_violation_line

NoException ==
  /\ Retiring
  /\ ~ priv_mode_violation_line
  /\ ~ illegal_opcode_line
  /\ UNCHANGED <<registers, lines, bus>>

Tick ==
  \/ HaltBeforeFetch
  \/ Fetch
  \/ Execute
  \/ HaltAfterExecute
  \/ ServePrivModeViolation \/ ServeIllegalOpcode \/ NoException
=============================================================================
