------------------------------ MODULE Session -------------------------------
(***************************************************************************)
(* src/src/user_interface.c around the simulator: the user's commands, one *)
(* after the other, with simulator_step and simulator_load_program.        *)
(*                                                                         *)
(*   prompt -> execute -> prompt                                           *)
(*      \         \-> run or step -> prompt                                *)
(*       \-> undefined                                                     *)
(*                                                                         *)
(* A line of more tokens than the list can hold is written past its end.   *)
(* What that overwrites is not the program's to say, and the session of    *)
(* the model ends there, in "undefined".                                   *)
(*                                                                         *)
(* A token is a record of what the commands can make of it: a word, the    *)
(* number it converts to (-1 when it does not, or is negative), and its    *)
(* byte when it is a single character (-1 otherwise).  Opening, reading    *)
(* and switching the terminal may fail.                                    *)
(***************************************************************************)
EXTENDS Simulator, List

CONSTANTS
  Lines,        \* what the user may enter: sequences of tokens
  Files,        \* from file names to [opens, words]
  MaxLines      \* bound on the lines read

TOKENS_SIZE == 5
TOKENS_MULTIPLIER == 1

ASSUME SessionAssumption ==
  /\ \A line \in Lines :
       /\ line \in Seq([word : STRING, number : {-1} \cup Nat, char : -1 .. 255])
       /\ Len(line) > 1 /\ line[1].word = "input" => line[2].char \in Chars \cup {-1}
  /\ \A name \in DOMAIN Files : Files[name].words \in Seq(Word)
  /\ MaxLines \in Nat

VARIABLES
  command,      \* "prompt", "execute", "run", "step", "exited" or "undefined"
  steps_left,   \* amt - i of simulator_step
  tokens,       \* the list input_tokens
  use,          \* device I/O, as in DeviceUse
  io_failed,    \* its start or end failed
  lines_read

machine == <<registers, instruction, lines, bus, phase, pending, typed>>
ui == <<command, steps_left, tokens, use, io_failed, lines_read>>
session_vars == <<machine, ui>>

SessionInit ==
  /\ Init
  /\ command = "prompt"
  /\ steps_left = 0
  /\ tokens = list_new(TOKENS_SIZE)
  /\ use = "closed"
  /\ io_failed = FALSE
  /\ lines_read = 0

-----------------------------------------------------------------------------
(* ui_loop *)

(* tokenize_input adds the tokens of a line one after the other. *)
Tokenized(list, line) ==
  LET added[n \in 0 .. Len(line)] ==
        IF n = 0 THEN list ELSE list_add(added[n - 1], TOKENS_MULTIPLIER, line[n])
  IN  added[Len(line)]

Overfull(list) == num_elements(list) > list.capacity

(* get_user_input and tokenize_input *)
EnterLine ==
  /\ command = "prompt"
  /\ lines_read < MaxLines
  /\ lines_read' = lines_read + 1
  /\ \E line \in Lines : tokens' = Tokenized(tokens, line)
  /\ UNCHANGED <<machine, steps_left, use, io_failed>>

ReadLine ==
  /\ EnterLine
  /\ ~ Overfull(tokens')
  /\ command' = "execute"

(* list_add writes past the array, which a multiplier of 1 does not grow.  *)
ReadTooManyTokens ==
  /\ EnterLine
  /\ Overfull(tokens')
  /\ command' = "undefined"

(* get_user_input fails. *)
EndOfInput ==
  /\ command = "prompt"
  /\ command' = "exited" /\ use' = "exited"
  /\ UNCHANGED <<machine, steps_left, tokens, io_failed, lines_read>>

(* A command returned CONTINUE. *)
Continue == command' = "prompt" /\ tokens' = list_clear(tokens)

HasToken(index) == list_has(tokens, index)
Token(index) == list_get(tokens, index)
HasWord(index) == HasToken(index) /\ Token(index).number \in Word

Entered(name) ==
  /\ command = "execute"
  /\ HasToken(0)
  /\ Token(0).word = name

QuitEntered == Entered("quit")
RunEntered == Entered("run") /\ num_elements(tokens) = 1
StepEntered == Entered("step") /\ (HasToken(1) => Token(1).number >= 0)
InputEntered == Entered("input") /\ HasToken(1) /\ Token(1).char >= 0

LoadEntered ==
  /\ Entered("load")
  /\ HasToken(1)
  /\ Token(1).word \in DOMAIN Files
  /\ Files[Token(1).word].opens

WriteEntered(name) == Entered(name) /\ HasToken(1) /\ Token(1).word = "write"

(* mem write value low [high] *)
MemWriteEntered ==
  /\ WriteEntered("mem")
  /\ HasWord(2) /\ HasWord(3)
  /\ HasToken(4) => HasWord(4)

(* lc3_reg_str_convert *)
register_named ==
  [r0 |-> 0, r1 |-> 1, r2 |-> 2, r3 |-> 3, r4 |-> 4, r5 |-> 5, r6 |-> REG_R6, r7 |-> REG_R7,
   pc |-> REG_PC, psr |-> REG_PSR, usp |-> REG_USP, ssp |-> REG_SSP]

(* reg write register value *)
RegWriteEntered ==
  /\ WriteEntered("reg")
  /\ HasToken(2) /\ Token(2).word \in DOMAIN register_named
  /\ HasWord(3)

-----------------------------------------------------------------------------
(* Commands that do not start device I/O *)

Quit ==
  /\ QuitEntered
  /\ command' = "exited" /\ use' = "exited"
  /\ UNCHANGED <<machine, steps_left, tokens, io_failed, lines_read>>

(* An empty line, help, a command that only prints, one whose tokens are   *)
(* not as they should be, or none.                                         *)
PrintOnly ==
  /\ command = "execute"
  /\ ~ (\/ QuitEntered \/ RunEntered \/ StepEntered \/ InputEntered
        \/ LoadEntered \/ MemWriteEntered \/ RegWriteEntered)
  /\ Continue
  /\ UNCHANGED <<machine, steps_left, use, io_failed, lines_read>>

(* ui_input: a char becomes a uint16_t as in the loop. *)
Input ==
  /\ InputEntered
  /\ simulator_update_devices_input(Token(1).char)
  /\ typed' = Append(typed, Token(1).char)
  /\ Continue
  /\ UNCHANGED <<registers, instruction, lines, phase, steps_left, use, io_failed, lines_read>>

(* bus_write of the words at address and up, which wraps. *)
Stored(b, address, words) ==
  LET stored[n \in 0 .. Len(words)] ==
        IF n = 0 THEN b ELSE bus_write(stored[n - 1], Plus(address, n - 1), words[n])
  IN  stored[Len(words)]

(* ui_mem_write: the addresses go up to high without wrapping. *)
MemWrite ==
  /\ MemWriteEntered
  /\ LET low == Token(3).number
         high == IF HasToken(4) THEN Token(4).number ELSE low
     IN  bus' = Stored(bus, low, [i \in 1 .. high - low + 1 |-> Token(2).number])
  /\ Continue
  /\ UNCHANGED <<registers, instruction, lines, phase, pending, typed,
                 steps_left, use, io_failed, lines_read>>

RegWrite ==
  /\ RegWriteEntered
  /\ registers' = [registers EXCEPT ![register_named[Token(2).word]] = Token(3).number]
  /\ Continue
  /\ UNCHANGED <<instruction, lines, bus, phase, pending, typed, steps_left, use, io_failed, lines_read>>

(* simulator_load_program: the first word is the address of the others.    *)
(* When reading fails after it, what was read is kept and the PC set.      *)
Load ==
  /\ LoadEntered
  /\ LET words == Files[Token(1).word].words
     IN  IF words = <<>> THEN UNCHANGED <<bus, registers>>
         ELSE /\ bus' = Stored(bus, Head(words), Tail(words))
              /\ registers' = [registers EXCEPT ![REG_PC] = Head(words)]
  /\ Continue
  /\ UNCHANGED <<instruction, lines, phase, pending, typed, steps_left, use, io_failed, lines_read>>

-----------------------------------------------------------------------------
(* run and step *)

(* An ERROR ends the session. *)
Leave ==
  /\ command' = "exited" /\ use' = "exited"
  /\ UNCHANGED <<machine, steps_left, tokens, lines_read>>

DeviceIoFails == Leave /\ io_failed' = TRUE

(* A second start without an end would save the terminal already changed.  *)
Started(u) == IF u = "closed" THEN "open" ELSE "open twice"

StartDeviceIo ==
  /\ use' = Started(use)
  /\ phase' = "fetch"
  /\ UNCHANGED <<registers, instruction, lines, bus, pending, typed,
                 tokens, io_failed, lines_read>>

StartRun ==
  /\ RunEntered
  /\ StartDeviceIo
  /\ command' = "run"
  /\ UNCHANGED steps_left

StartStep ==
  /\ StepEntered
  /\ StartDeviceIo
  /\ command' = "step"
  /\ steps_left' = IF HasToken(1) THEN Token(1).number ELSE 1

StartFails == (RunEntered \/ StepEntered) /\ DeviceIoFails

RunSimulator == command = "run" /\ Next /\ UNCHANGED ui

StepCpu ==
  /\ command = "step"
  /\ steps_left > 0
  /\ RunCpu
  /\ UNCHANGED ui

(* Fault for StepReturns: the loop does not count. *)
StepAgainUncounted ==
  /\ command = "step"
  /\ phase = "input" /\ steps_left > 1
  /\ phase' = "fetch"
  /\ UNCHANGED <<registers, instruction, lines, bus, pending, typed, ui>>

(* cpu_tick returned 1: neither input nor interrupts are looked at. *)
StepAgain ==
  /\ command = "step"
  /\ phase = "input" /\ steps_left > 1
  /\ steps_left' = steps_left - 1
  /\ phase' = "fetch"
  /\ UNCHANGED <<registers, instruction, lines, bus, pending, typed,
                 command, tokens, use, io_failed, lines_read>>

NoTick == command = "step" /\ steps_left = 0

LoopDone ==
  \/ command = "run" /\ phase = "halted"
  \/ command = "step" /\ phase = "halted"
  \/ command = "step" /\ phase = "input" /\ steps_left = 1
  \/ NoTick

(* Fault for DeviceUseSpec: step returns at once when the clock is off. *)
EndStillOpen ==
  /\ LoopDone
  /\ use' = IF command = "step" /\ phase = "halted" THEN use ELSE "closed"
  /\ phase' = "fetch"
  /\ steps_left' = 0
  /\ Continue
  /\ UNCHANGED <<registers, instruction, lines, bus, pending, typed,
                 io_failed, lines_read>>

End ==
  /\ LoopDone
  /\ use' = "closed"
  /\ phase' = "fetch"
  /\ steps_left' = 0
  /\ Continue
  /\ UNCHANGED <<registers, instruction, lines, bus, pending, typed,
                 io_failed, lines_read>>

EndFails == LoopDone /\ DeviceIoFails

(* step 0 does not assign tick_status, which may be negative then. *)
StepZeroFails == NoTick /\ Leave /\ UNCHANGED io_failed

Proceed ==
  \/ Quit \/ PrintOnly \/ Input \/ MemWrite \/ RegWrite \/ Load
  \/ StartRun \/ StartStep \/ StartFails
  \/ RunSimulator \/ StepCpu \/ StepAgain
  \/ End \/ EndFails \/ StepZeroFails

SessionNext == ReadLine \/ ReadTooManyTokens \/ EndOfInput \/ Proceed

SessionSpec == SessionInit /\ [][SessionNext]_session_vars

(* Commands are executed; nobody has to enter one.                         *)
FairSessionSpec == SessionSpec /\ WF_session_vars(Proceed)

-----------------------------------------------------------------------------
(* Properties *)

(* Types; and the list of tokens, whose capacity never grows, holds the    *)
(* tokens of one line and of no line before it, so that only a line that   *)
(* has too many by itself is written past its end.                         *)
SessionTypeOK ==
  /\ TypeOK
  /\ command \in {"prompt", "execute", "run", "step", "exited", "undefined"}
  /\ steps_left \in Nat
  /\ use \in {"closed", "open", "exited"}
  /\ io_failed \in BOOLEAN
  /\ tokens.capacity = TOKENS_SIZE /\ tokens.elements \in Lines \cup {<<>>}
  /\ command = "undefined" <=> Overfull(tokens)
  /\ lines_read \in 0 .. MaxLines

Use == INSTANCE DeviceUse

(* Device I/O is used as it has to be: it is ended before it is started    *)
(* again, by whatever commands and however they ended.                     *)
DeviceUseSpec == Use!Spec

(* step comes back to the prompt, also in a program that never ends and    *)
(* whatever the user types.                                                *)
StepReturns == command = "step" ~> command # "step"

(* A clock that a program stopped stays off: neither run nor step, nor an  *)
(* interrupt or exception still to be served, turns it on again.  The user *)
(* can, by writing the machine control register or loading over it.        *)
ClockStaysOff ==
  [][~ CLOCK_ENABLED(bus) /\ CLOCK_ENABLED(bus)' => MemWriteEntered \/ LoadEntered]_session_vars

(* The machine reads the keyboard's data register: as an instruction, an   *)
(* operand, a pointer or what rti pops.                                    *)
ReadsKey ==
  \/ phase = "fetch" /\ PC = KBDR
  \/ /\ phase = "execute"
     /\ \/ OPCODE(instruction) \in {2, 10, 11} /\ compute_direct_address = KBDR
        \/ OPCODE(instruction) = 10 /\ compute_indirect_address = KBDR
        \/ OPCODE(instruction) = 6 /\ compute_base_plus_offset = KBDR
        \/ OPCODE(instruction) = 8 /\ KBDR \in {registers[REG_R6], Plus(registers[REG_R6], 1)}

(* A key that is ready stays so until a program reads the data register:   *)
(* no command and no store takes it away, and not the end of a run either. *)
KeyKept ==
  [][Ready(bus.kbsr) /\ ~ Ready(bus'.kbsr) =>
       command \in {"run", "step"} /\ ReadsKey /\ bus'.kbdr = bus.kbdr]_session_vars

(* user_interface.c:78, "quit - close simulator": besides quit, the end of *)
(* the input and a failure of device I/O, nothing ends the session.        *)
OnlyFailuresEndSession ==
  [][command' = "exited" => command = "prompt" \/ QuitEntered \/ io_failed']_session_vars
=============================================================================
