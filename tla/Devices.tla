------------------------------ MODULE Devices -------------------------------
(***************************************************************************)
(* What the CPU sees through its bus_accessor: the memory of bus.c and the *)
(* registers of the two plugins the repository ships, attached to it.  A   *)
(* bus is a record of                                                      *)
(*   mem        the memory cells that were ever written; the others hold 0 *)
(*   kbsr, kbdr the keyboard's registers (plugins/keyboard.c)              *)
(*   dsr        the display's status register (plugins/display.c)          *)
(*   output     the characters sent to the terminal so far                 *)
(* The display's ddr keeps its initial value: nothing assigns it.          *)
(***************************************************************************)
EXTENDS LC3Word, Sequences

KBSR == 65024                  \* 0xFE00
KBDR == 65026
DSR  == 65028
DDR  == 65030
MCR_ADDR == 65534              \* 0xFFFE, a plain memory cell

INIT_DSR == HighBit
INIT_DDR == 0
KEYBOARD_INTERRUPT_VECTOR == 128
KEYBOARD_INTERRUPT_PRIORITY == 4

Ready(status) == Negative(status)                       \* bit 15
InterruptEnabled(status) == (status \div 16384) % 2 = 1 \* bit 14
SetReady(status) == (status % HighBit) + HighBit
ClearReady(status) == status % HighBit

Cell(mem, a) == IF a \in DOMAIN mem THEN mem[a] ELSE 0
SetCell(mem, a, v) == [x \in DOMAIN mem \cup {a} |-> IF x = a THEN v ELSE mem[x]]

IsBus(b) ==
  /\ b \in [mem : {b.mem}, kbsr : Word, kbdr : Word, dsr : Word, output : Seq(0 .. 255)]
  /\ DOMAIN b.mem \subseteq Word
  /\ b.mem \in [DOMAIN b.mem -> Word]

(* bus_new and the plugins' init functions, with the cells of image loaded. *)
NewBus(image) ==
  [mem |-> image, kbsr |-> 0, kbdr |-> 0, dsr |-> INIT_DSR, output |-> <<>>]

keyboard_read_register(bus, a) == IF a = KBSR THEN bus.kbsr ELSE bus.kbdr

display_read_register(bus, a) == IF a = DSR THEN bus.dsr ELSE INIT_DDR

bus_read(bus, a) ==
  CASE a \in {KBSR, KBDR} -> keyboard_read_register(bus, a)
    [] a \in {DSR, DDR}   -> display_read_register(bus, a)
    [] OTHER              -> Cell(bus.mem, a)

(* Fault for EchoInOrder: reading leaves the character ready. *)
after_read_keep(bus, a) == bus

(* Reading the data register consumes the character. *)
after_read(bus, a) ==
  IF a = KBDR THEN [bus EXCEPT !.kbsr = ClearReady(bus.kbsr)] ELSE bus

(* Fault for KeyKept: a write sets the whole register. *)
KeepNothing(old, new) == new

(* A status register keeps its ready bit whatever is written to it. *)
KeepReady(old, new) == IF Ready(old) THEN SetReady(new) ELSE new

(* Writing the data register has no effect. *)
keyboard_write_register(bus, a, v) ==
  IF a = KBSR THEN [bus EXCEPT !.kbsr = KeepReady(bus.kbsr, v)] ELSE bus

(* The data register goes to the terminal, cut to a char by write_output. *)
display_write_register(bus, a, v) ==
  IF a = DSR THEN [bus EXCEPT !.dsr = KeepReady(bus.dsr, v)]
  ELSE [bus EXCEPT !.output = Append(bus.output, v % 256)]

bus_write(bus, a, v) ==
  CASE a \in {KBSR, KBDR} -> keyboard_write_register(bus, a, v)
    [] a \in {DSR, DDR}   -> display_write_register(bus, a, v)
    [] OTHER              -> [bus EXCEPT !.mem = SetCell(bus.mem, a, v)]

(* Fault for RunShowsKeys: a character that was not read is kept. *)
keyboard_on_input_drop(bus, char) ==
  IF Ready(bus.kbsr) THEN bus
  ELSE [bus EXCEPT !.kbdr = sign_extend(char, 256), !.kbsr = SetReady(bus.kbsr)]

(* keyboard_on_input: a character replaces one that was not read yet.  The *)
(* char the host read is sign-extended on its way to on_input.             *)
keyboard_on_input(bus, char) ==
  [bus EXCEPT !.kbdr = sign_extend(char, 256), !.kbsr = SetReady(bus.kbsr)]

CLOCK_ENABLED(bus) == Negative(bus_read(bus, MCR_ADDR))
=============================================================================
