----------------------------- MODULE MCSession ------------------------------
(***************************************************************************)
(* What users enter: the commands around a program that echoes, and all    *)
(* commands, well formed or not, on a small program of their own.          *)
(***************************************************************************)
EXTENDS Session, Programs

Text(w) == [word |-> w, number |-> -1, char |-> -1]
Number(n) == [word |-> "", number |-> n, char |-> IF n \in 0 .. 9 THEN 48 + n ELSE -1]
Key(c) == [word |-> "", number |-> -1, char |-> c]

Run == <<Text("run")>>
StepBy(n) == <<Text("step"), Number(n)>>
TypeKey(c) == <<Text("input"), Key(c)>>
LoadFile(name) == <<Text("load"), Text(name)>>
MemWriteLine(value, low, high) ==
  <<Text("mem"), Text("write"), Number(value), Number(low), Number(high)>>
RegWriteLine(register, value) ==
  <<Text("reg"), Text("write"), Text(register), Number(value)>>

-----------------------------------------------------------------------------
(* A user who runs, steps through and types to the two programs that echo. *)

EchoLines == {Run, <<Text("step")>>, StepBy(3), TypeKey(233), TypeKey(QuitKey)}
NoFiles == [name \in {} |-> name]

-----------------------------------------------------------------------------
(* Every command, well formed or not.  Memory holds a loop at 0, which is  *)
(* where the vector table leads, too.  One file stops the clock and, if it *)
(* went on, would start it; one reads the keyboard over and over; one goes *)
(* past the top of memory; one is cut off after the first word.  The lines *)
(* that are not well formed include one of more tokens than there is room  *)
(* for.                                                                    *)

LoopAtZero == [image |-> At(0, <<JMP(7)>>), regs |-> REG_R7 :> 0]

File(words) == [opens |-> TRUE, words |-> words]

CommandFiles ==
  [stop |-> File(<<12288, LD(1, 3), STI(0, 3), STI(1, 2), BR(Always, -1), HighBit, MCR_ADDR>>),
   reader |-> File(<<12288, LDI(0, 1), BR(Always, -2), KBDR>>),
   top |-> File(<<65535, ILLEGAL, JMP(7)>>),
   cut |-> File(<<0>>),
   empty |-> File(<<>>),
   missing |-> [opens |-> FALSE, words |-> <<>>]]

Malformed ==
  {<<>>, <<Text("frob")>>, <<Text("run"), Text("now")>>, <<Text("load")>>,
   <<Text("step"), Number(-1)>>, <<Text("input"), Number(97)>>,
   MemWriteLine(1, 0, 65536), MemWriteLine(1, 0, 9) \o <<Text("now")>>, <<Text("reg"), Text("write"), Number(5), Text("r0")>>}

WellFormed ==
  {Run, StepBy(0), StepBy(2), TypeKey(97), <<Text("quit")>>, <<Text("mem"), Text("read"), Number(65026)>>,
   RegWriteLine("pc", 65535), RegWriteLine("psr", UserPSR)}
  \cup {LoadFile(name) : name \in DOMAIN CommandFiles}

(* The clock on, keyboard interrupts on, and a value for all registers of  *)
(* the devices.                                                            *)
MemWrites ==
  {MemWriteLine(HighBit, MCR_ADDR, MCR_ADDR), MemWriteLine(KBSR_IE, KBSR, KBSR),
   MemWriteLine(65, KBSR, DDR)}

CommandLines == WellFormed \cup MemWrites \cup Malformed
CommandBoots == {LoopAtZero}

StepLines == {StepBy(0), StepBy(2), Run}

-----------------------------------------------------------------------------
(* A character typed before a run, also between two steps, when an         *)
(* interrupt for it stays pending, or typed during the run, is shown,      *)
(* unless another follows it or the run ends.                              *)
RunShowsKeys ==
  \A n \in 1 .. MaxInput + MaxLines :
    Len(typed) = n /\ command = "run" ~>
      \/ Len(typed) > n
      \/ bus.output # <<>> /\ Last(bus.output) = Last(typed)
      \/ command # "run"
=============================================================================
