---------------------------- MODULE SessionProofs ---------------------------
(***************************************************************************)
(* For all programs, files and lines the user may enter: the commands use  *)
(* device I/O as DeviceUse has it, leave the machine one of words, and     *)
(* neither turn a stopped clock on nor take a key away behind the user's   *)
(* back.  The loops over the tokens of a line and the words of a file are  *)
(* shown to come to an end by the least number at which they would not.    *)
(*                                                                         *)
(* The second half proves that in a session with one of the programs that  *)
(* echo, what is shown is what was typed, in order: from the words of the  *)
(* programs, instruction by instruction.                                   *)
(***************************************************************************)
EXTENDS Session, Programs, SimulatorProofs

(* Device I/O is open while run and step tick the CPU, and only then.      *)
UseMatches ==
  /\ command \in {"prompt", "execute", "undefined"} => use = "closed"
  /\ command \in {"run", "step"} => use = "open"
  /\ command = "exited" => use = "exited"
  /\ command \in {"prompt", "execute", "run", "step", "exited", "undefined"}

UseStep == Use!Next \/ UNCHANGED use

(* A command that returns to the prompt without having started anything.   *)
LEMMA ContinueMatches ==
  ASSUME UseMatches, command = "execute", Continue, UNCHANGED use
  PROVE  UseMatches' /\ UseStep
BY DEF UseMatches, UseStep, Continue

(* Leaving the session, from wherever it is.                               *)
LEMMA LeaveMatches ==
  ASSUME UseMatches, command # "exited", command' = "exited", use' = "exited"
  PROVE  UseMatches' /\ UseStep
BY DEF UseMatches, UseStep, Use!Next, Use!Exit

(* What a line asks for is only looked at when a command is executed.      *)
LEMMA EnteredExecutes ==
  QuitEntered \/ RunEntered \/ StepEntered \/ InputEntered
    \/ LoadEntered \/ MemWriteEntered \/ RegWriteEntered => command = "execute"
BY DEF QuitEntered, RunEntered, StepEntered, InputEntered, LoadEntered,
       MemWriteEntered, RegWriteEntered, WriteEntered, Entered

(* The loops that are left are those of run and step.                      *)
LEMMA LoopDoneRuns == LoopDone => command \in {"run", "step"}
BY DEF LoopDone, NoTick

(* The commands that start nothing, or fail to.                            *)
LEMMA CommandsMatch ==
  ASSUME UseMatches,
         Quit \/ PrintOnly \/ Input \/ MemWrite \/ RegWrite \/ Load \/ StartFails
  PROVE  UseMatches' /\ UseStep
<1>1. command = "execute"
  BY EnteredExecutes DEF Quit, PrintOnly, Input, MemWrite, RegWrite, Load, StartFails
<1>2. CASE Quit \/ StartFails
  BY <1>1, <1>2, LeaveMatches DEF Quit, StartFails, DeviceIoFails, Leave
<1>3. CASE PrintOnly \/ Input \/ MemWrite \/ RegWrite \/ Load
  BY <1>1, <1>3, ContinueMatches DEF PrintOnly, Input, MemWrite, RegWrite, Load
<1> QED
  BY <1>2, <1>3

(* run and step, from their start to their end.                            *)
LEMMA LoopsMatch ==
  ASSUME UseMatches,
         \/ StartRun \/ StartStep \/ RunSimulator \/ StepCpu \/ StepAgain
         \/ End \/ EndFails \/ StepZeroFails
  PROVE  UseMatches' /\ UseStep
<1>1. CASE StartRun \/ StartStep
  <2>1. command = "execute" /\ use = "closed"
    BY <1>1, EnteredExecutes DEF StartRun, StartStep, UseMatches
  <2> QED
    BY <1>1, <2>1
       DEF StartRun, StartStep, StartDeviceIo, Started, UseMatches, UseStep, Use!Next, Use!Open
<1>2. CASE RunSimulator \/ StepCpu \/ StepAgain
  BY <1>2 DEF RunSimulator, StepCpu, StepAgain, ui, UseMatches, UseStep
<1>3. CASE End
  <2>1. use = "open"
    BY <1>3, LoopDoneRuns DEF End, UseMatches
  <2> QED
    BY <1>3, <2>1 DEF End, Continue, UseMatches, UseStep, Use!Next, Use!Close
<1>4. CASE EndFails \/ StepZeroFails
  <2>1. command \in {"run", "step"}
    BY <1>4, LoopDoneRuns DEF EndFails, StepZeroFails, NoTick
  <2> QED
    BY <1>4, <2>1, LeaveMatches DEF EndFails, StepZeroFails, DeviceIoFails, Leave
<1> QED
  BY <1>1, <1>2, <1>3, <1>4

(* Every step of the session is one of DeviceUse, or leaves it alone.      *)
LEMMA StepMatches == UseMatches /\ [SessionNext]_session_vars => UseMatches' /\ UseStep
<1> SUFFICES ASSUME UseMatches, [SessionNext]_session_vars PROVE UseMatches' /\ UseStep
  OBVIOUS
<1>1. CASE ReadLine \/ ReadTooManyTokens
  BY <1>1 DEF ReadLine, ReadTooManyTokens, EnterLine, UseMatches, UseStep
<1>2. CASE EndOfInput
  BY <1>2, LeaveMatches DEF EndOfInput
<1>3. CASE Proceed
  BY <1>3, CommandsMatch, LoopsMatch DEF Proceed
<1>4. CASE UNCHANGED session_vars
  BY <1>4 DEF session_vars, ui, UseMatches, UseStep
<1> QED
  BY <1>1, <1>2, <1>3, <1>4 DEF SessionNext

(* Device I/O is never started twice, nor ended when it was not started,   *)
(* nor used after the session.                                             *)
THEOREM SessionUsesDeviceIo == SessionSpec => DeviceUseSpec
<1>1. SessionInit => UseMatches /\ Use!Init
  BY DEF SessionInit, UseMatches, Use!Init
<1>2. UseMatches /\ [SessionNext]_session_vars => UseMatches' /\ [Use!Next]_use
  BY StepMatches DEF UseStep
<1> QED
  BY <1>1, <1>2, PTL DEF SessionSpec, DeviceUseSpec, Use!Spec

-----------------------------------------------------------------------------
(* The loops that add tokens and store words *)

(* The loop over the tokens of a line comes to an end: by induction on     *)
(* their number.                                                           *)
LEMMA TokensAdded ==
  ASSUME NEW list, NEW line, Len(line) \in Nat
  PROVE  \E added :
           /\ added[0] = list
           /\ \A n \in 1 .. Len(line) :
                added[n] = list_add(added[n - 1], TOKENS_MULTIPLIER, line[n])
           /\ Tokenized(list, line) = added[Len(line)]
<1> DEFINE Step(f, n) == IF n = 0 THEN list
                         ELSE list_add(f[n - 1], TOKENS_MULTIPLIER, line[n])
           Defined(m) == \E f : f = [n \in 0 .. m |-> Step(f, n)]
           Failing == {m \in Nat : ~ Defined(m)}
<1>1. Defined(0)
  <2> DEFINE f == [n \in 0 .. 0 |-> list]
  <2>1. f = [n \in 0 .. 0 |-> Step(f, n)]
    OBVIOUS
  <2> QED BY <2>1
<1>2. ASSUME NEW m \in Nat, Defined(m) PROVE Defined(m + 1)
  <2>1. PICK f : f = [n \in 0 .. m |-> Step(f, n)]
    BY <1>2
  <2> DEFINE g == [n \in 0 .. m + 1 |-> IF n = m + 1 THEN Step(f, n) ELSE f[n]]
  <2>2. \A n \in 0 .. m + 1 : g[n] = Step(f, n)
    <3>1. \A n \in 0 .. m : f[n] = Step(f, n)
      BY <2>1
    <3>2. \A n \in 0 .. m + 1 : n = m + 1 \/ n \in 0 .. m
      OBVIOUS
    <3> HIDE DEF Step
    <3> QED BY <3>1, <3>2
  <2>3. \A n \in 0 .. m : g[n] = f[n]
    OBVIOUS
  <2>4. g = [n \in 0 .. m + 1 |-> g[n]]
    OBVIOUS
  <2> HIDE DEF g
  <2>5. \A n \in 0 .. m + 1 : g[n] = Step(g, n)
    <3> SUFFICES ASSUME NEW n \in 0 .. m + 1 PROVE g[n] = Step(g, n)
      OBVIOUS
    <3>1. n # 0 => n - 1 \in 0 .. m
      OBVIOUS
    <3> QED BY <2>2, <2>3, <3>1
  <2>6. g = [n \in 0 .. m + 1 |-> Step(g, n)]
    <3> HIDE DEF Step
    <3> QED BY <2>4, <2>5
  <2> QED BY <2>6
<1>3. Failing = {}
  <2> HIDE DEF Defined
  <2> SUFFICES ASSUME Failing # {} PROVE FALSE
    OBVIOUS
  <2>1. PICK m \in Failing : \A k \in Failing : m <= k
    BY LeastElement
  <2>2. m # 0 /\ m \in Nat /\ ~ Defined(m)
    BY <1>1
  <2>3. m - 1 \in Nat /\ m = (m - 1) + 1
    BY <2>2
  <2>4. Defined(m - 1)
    BY <2>1, <2>3
  <2> QED BY <1>2, <2>2, <2>3, <2>4
<1> DEFINE added == CHOOSE f : f = [n \in 0 .. Len(line) |-> Step(f, n)]
<1>4. added = [n \in 0 .. Len(line) |-> Step(added, n)]
  <2>1. Defined(Len(line))
    <3> HIDE DEF Defined
    <3> QED BY <1>3
  <2> QED BY <2>1
<1>5. Tokenized(list, line) = added[Len(line)]
  BY DEF Tokenized
<1> HIDE DEF added
<1>6. added[0] = list /\ \A n \in 1 .. Len(line) :
        added[n] = list_add(added[n - 1], TOKENS_MULTIPLIER, line[n])
  BY <1>4
<1> QED
  BY <1>5, <1>6

(* The loop over the words that are stored, in the same way. *)
LEMMA WordsStored ==
  ASSUME NEW b, NEW address, NEW words, Len(words) \in Nat
  PROVE  \E stored :
           /\ stored[0] = b
           /\ \A n \in 1 .. Len(words) :
                stored[n] = bus_write(stored[n - 1], Plus(address, n - 1), words[n])
           /\ Stored(b, address, words) = stored[Len(words)]
<1> DEFINE Step(f, n) == IF n = 0 THEN b
                         ELSE bus_write(f[n - 1], Plus(address, n - 1), words[n])
           Defined(m) == \E f : f = [n \in 0 .. m |-> Step(f, n)]
           Failing == {m \in Nat : ~ Defined(m)}
<1>1. Defined(0)
  <2> DEFINE f == [n \in 0 .. 0 |-> b]
  <2>1. f = [n \in 0 .. 0 |-> Step(f, n)]
    OBVIOUS
  <2> QED BY <2>1
<1>2. ASSUME NEW m \in Nat, Defined(m) PROVE Defined(m + 1)
  <2>1. PICK f : f = [n \in 0 .. m |-> Step(f, n)]
    BY <1>2
  <2> DEFINE g == [n \in 0 .. m + 1 |-> IF n = m + 1 THEN Step(f, n) ELSE f[n]]
  <2>2. \A n \in 0 .. m + 1 : g[n] = Step(f, n)
    <3>1. \A n \in 0 .. m : f[n] = Step(f, n)
      BY <2>1
    <3>2. \A n \in 0 .. m + 1 : n = m + 1 \/ n \in 0 .. m
      OBVIOUS
    <3> HIDE DEF Step
    <3> QED BY <3>1, <3>2
  <2>3. \A n \in 0 .. m : g[n] = f[n]
    OBVIOUS
  <2>4. g = [n \in 0 .. m + 1 |-> g[n]]
    OBVIOUS
  <2> HIDE DEF g
  <2>5. \A n \in 0 .. m + 1 : g[n] = Step(g, n)
    <3> SUFFICES ASSUME NEW n \in 0 .. m + 1 PROVE g[n] = Step(g, n)
      OBVIOUS
    <3>1. n # 0 => n - 1 \in 0 .. m
      OBVIOUS
    <3> QED BY <2>2, <2>3, <3>1
  <2>6. g = [n \in 0 .. m + 1 |-> Step(g, n)]
    <3> HIDE DEF Step
    <3> QED BY <2>4, <2>5
  <2> QED BY <2>6
<1>3. Failing = {}
  <2> HIDE DEF Defined
  <2> SUFFICES ASSUME Failing # {} PROVE FALSE
    OBVIOUS
  <2>1. PICK m \in Failing : \A k \in Failing : m <= k
    BY LeastElement
  <2>2. m # 0 /\ m \in Nat /\ ~ Defined(m)
    BY <1>1
  <2>3. m - 1 \in Nat /\ m = (m - 1) + 1
    BY <2>2
  <2>4. Defined(m - 1)
    BY <2>1, <2>3
  <2> QED BY <1>2, <2>2, <2>3, <2>4
<1> DEFINE stored == CHOOSE f : f = [n \in 0 .. Len(words) |-> Step(f, n)]
<1>4. stored = [n \in 0 .. Len(words) |-> Step(stored, n)]
  <2>1. Defined(Len(words))
    <3> HIDE DEF Defined
    <3> QED BY <1>3
  <2> QED BY <2>1
<1>5. Stored(b, address, words) = stored[Len(words)]
  BY DEF Stored
<1> HIDE DEF stored
<1>6. stored[0] = b /\ \A n \in 1 .. Len(words) :
        stored[n] = bus_write(stored[n - 1], Plus(address, n - 1), words[n])
  BY <1>4
<1> QED
  BY <1>5, <1>6

-----------------------------------------------------------------------------
(* The list of tokens *)

(* A line is added to the empty list as it is, and the list does not grow, *)
(* however many tokens the line has.                                       *)
LEMMA LineTokenized ==
  ASSUME NEW T, NEW line \in Seq(T)
  PROVE  Tokenized(list_new(TOKENS_SIZE), line)
           = [elements |-> line, capacity |-> TOKENS_SIZE]
<1> DEFINE Prefix(n) == [i \in 1 .. n |-> line[i]]
           Added(n) == [elements |-> Prefix(n), capacity |-> TOKENS_SIZE]
<1>1. PICK added :
        /\ added[0] = list_new(TOKENS_SIZE)
        /\ \A n \in 1 .. Len(line) :
             added[n] = list_add(added[n - 1], TOKENS_MULTIPLIER, line[n])
        /\ Tokenized(list_new(TOKENS_SIZE), line) = added[Len(line)]
  BY TokensAdded
<1>2. ASSUME NEW n \in 1 .. Len(line)
      PROVE  list_add(Added(n - 1), TOKENS_MULTIPLIER, line[n]) = Added(n)
  <2>1. Prefix(n - 1) \in Seq(T) /\ Len(Prefix(n - 1)) = n - 1
    OBVIOUS
  <2>2. Append(Prefix(n - 1), line[n]) = Prefix(n)
    <3>1. Append(Prefix(n - 1), line[n]) = [i \in 1 .. n |-> Append(Prefix(n - 1), line[n])[i]]
      BY <2>1
    <3>2. \A i \in 1 .. n : Append(Prefix(n - 1), line[n])[i] = line[i]
      BY <2>1
    <3> QED BY <3>1, <3>2
  <2>3. list_resize(Added(n - 1), TOKENS_MULTIPLIER) = Added(n - 1)
    <3>1. TOKENS_SIZE * TOKENS_MULTIPLIER = TOKENS_SIZE
      BY DEF TOKENS_SIZE, TOKENS_MULTIPLIER
    <3> HIDE DEF Prefix
    <3> QED BY <3>1 DEF list_resize
  <2>4. list_add(Added(n - 1), TOKENS_MULTIPLIER, line[n])
          = [Added(n - 1) EXCEPT !.elements = Append(Prefix(n - 1), line[n])]
    <3> HIDE DEF Added
    <3>1. list_add(Added(n - 1), TOKENS_MULTIPLIER, line[n])
            = [Added(n - 1) EXCEPT !.elements = Append(@, line[n])]
      BY <2>3, Zenon DEF list_add
    <3>2. Added(n - 1).elements = Prefix(n - 1)
      BY DEF Added
    <3> QED BY <3>1, <3>2
  <2> HIDE DEF Prefix
  <2> QED BY <2>2, <2>4
<1> DEFINE Failing == {n \in 0 .. Len(line) : added[n] # Added(n)}
<1>3. Failing = {}
  <2> SUFFICES ASSUME Failing # {} PROVE FALSE
    OBVIOUS
  <2>1. Failing \subseteq Nat
    OBVIOUS
  <2>2. PICK n \in Failing : \A k \in Failing : n <= k
    BY <2>1, LeastElement
  <2>3. added[0] = Added(0)
    <3>1. Prefix(0) = <<>>
      OBVIOUS
    <3> QED BY <1>1, <3>1 DEF list_new
  <2>4. n \in 1 .. Len(line) /\ n - 1 \in 0 .. Len(line) /\ n - 1 \notin Failing
    BY <2>2, <2>3
  <2>5. added[n - 1] = Added(n - 1)
    BY <2>4
  <2>6. added[n] = Added(n)
    <3> HIDE DEF Added
    <3> QED BY <1>1, <1>2, <2>4, <2>5
  <2> QED BY <2>2, <2>6
<1>4. added[Len(line)] = Added(Len(line))
  <2>1. Len(line) \in 0 .. Len(line)
    OBVIOUS
  <2> HIDE DEF Added
  <2> QED BY <1>3, <2>1
<1>5. Prefix(Len(line)) = line
  OBVIOUS
<1> QED
  BY <1>1, <1>4, <1>5

-----------------------------------------------------------------------------
(* The keyboard's registers *)

(* A write, wherever it goes, leaves the character and keeps it ready.     *)
LEMMA WriteKeepsKey ==
  ASSUME NEW b, IsBus(b), NEW a, NEW v \in Word
  PROVE  /\ bus_write(b, a, v).kbdr = b.kbdr
         /\ Ready(b.kbsr) => Ready(bus_write(b, a, v).kbsr)
<1>1. Ready(SetReady(v))
  <2>1. \A n \in Int : 0 <= n /\ n <= 65535 => (n % 32768) + 32768 >= 32768
    OBVIOUS
  <2> QED BY <2>1, WordRange DEF Ready, Negative, SetReady, HighBit
<1>2. CASE a = KBSR
  <2>1. bus_write(b, a, v) = [b EXCEPT !.kbsr = KeepReady(b.kbsr, v)]
    BY <1>2 DEF bus_write, keyboard_write_register, KBSR, KBDR, DSR, DDR
  <2> QED BY <1>1, <2>1 DEF KeepReady, IsBus
<1>3. CASE a # KBSR
  BY <1>3 DEF bus_write, keyboard_write_register, display_write_register,
              IsBus, KBSR, KBDR, DSR, DDR
<1> QED
  BY <1>2, <1>3

(* A read leaves the character; away from its register it changes nothing. *)
LEMMA ReadKeepsKey ==
  ASSUME NEW b, IsBus(b), NEW a
  PROVE  /\ after_read(b, a).kbdr = b.kbdr
         /\ a # KBDR => after_read(b, a) = b
BY DEF after_read, IsBus

(* Words that are stored one after the other leave a bus, and a character  *)
(* that is ready: by induction on their number.                            *)
LEMMA StoredIsBus ==
  ASSUME NEW b, IsBus(b), NEW address \in Word, NEW words \in Seq(Word)
  PROVE  /\ IsBus(Stored(b, address, words))
         /\ Ready(b.kbsr) => Ready(Stored(b, address, words).kbsr)
<1>1. PICK stored :
        /\ stored[0] = b
        /\ \A n \in 1 .. Len(words) :
             stored[n] = bus_write(stored[n - 1], Plus(address, n - 1), words[n])
        /\ Stored(b, address, words) = stored[Len(words)]
  BY WordsStored
<1> DEFINE Good(n) == IsBus(stored[n]) /\ (Ready(b.kbsr) => Ready(stored[n].kbsr))
           Failing == {n \in 0 .. Len(words) : ~ Good(n)}
<1>2. ASSUME NEW n \in 1 .. Len(words), Good(n - 1) PROVE Good(n)
  <2>1. Plus(address, n - 1) \in Word
    <3>1. \A m \in Int : m % 65536 \in Int /\ 0 <= m % 65536 /\ m % 65536 <= 65535
      OBVIOUS
    <3>2. address + (n - 1) \in Int
      BY WordRange
    <3> QED BY <3>1, <3>2, WordRange, SMTT(30) DEF Plus
  <2>2. stored[n] = bus_write(stored[n - 1], Plus(address, n - 1), words[n])
    BY <1>1
  <2> QED BY <1>2, <2>1, <2>2, WriteIsBus, WriteKeepsKey
<1>3. Failing = {}
  <2> HIDE DEF Good
  <2> SUFFICES ASSUME Failing # {} PROVE FALSE
    OBVIOUS
  <2>1. Failing \subseteq Nat
    OBVIOUS
  <2>2. PICK n \in Failing : \A k \in Failing : n <= k
    BY <2>1, LeastElement
  <2>3. Good(0)
    BY <1>1 DEF Good
  <2>4. n \in 1 .. Len(words) /\ n - 1 \in 0 .. Len(words) /\ n - 1 \notin Failing
    BY <2>2, <2>3
  <2> QED BY <1>2, <2>2, <2>4
<1>4. Good(Len(words))
  BY <1>3
<1> QED
  BY <1>1, <1>4

(* An instruction that makes the character unready reads its register, and *)
(* the character is still there.                                           *)
LEMMA ExecuteKeepsKey ==
  ASSUME TypeOK, Execute, Ready(bus.kbsr), ~ Ready(bus'.kbsr)
  PROVE  ReadsKey /\ bus'.kbdr = bus.kbdr
<1>1. IsBus(bus) /\ registers[DR] \in Word
  BY OperandsAreWords DEF TypeOK
<1>2. CASE \/ Add \/ And \/ Not \/ Lea \/ Br \/ JmpRet \/ Jsr \/ Jsrr
           \/ RtiInUserMode \/ IllegalOpcode
  <2>1. bus' = bus
    BY <1>2 DEF Add, And, Not, Lea, Br, JmpRet, Jsr, Jsrr, RtiInUserMode, IllegalOpcode
  <2> QED BY <2>1
<1>3. CASE Trap
  <2>1. TRAPVECT8(instruction) # KBDR
    <3>1. \A n \in Int : n % 256 # 65026
      OBVIOUS
    <3>2. instruction \in Int
      BY WordRange DEF TypeOK
    <3> QED BY <3>1, <3>2 DEF TRAPVECT8, KBDR
  <2> QED BY <1>1, <1>3, <2>1, ReadKeepsKey DEF Trap
<1>4. CASE Ld \/ Ldr
  <2>1. \E a : bus' = after_read(bus, a) /\ (a = KBDR => ReadsKey)
    BY <1>4 DEF Ld, Ldr, LoadFrom, Executing, ReadsKey
  <2> QED BY <1>1, <2>1, ReadKeepsKey
<1>5. CASE Ldi
  <2> DEFINE first == after_read(bus, compute_direct_address)
  <2>1. bus' = after_read(first, compute_indirect_address)
    BY <1>5 DEF Ldi, LoadFrom
  <2>2. compute_direct_address = KBDR \/ compute_indirect_address = KBDR => ReadsKey
    BY <1>5 DEF Ldi, Executing, ReadsKey
  <2>3. IsBus(first)
    BY <1>1, AfterReadIsBus
  <2> QED BY <1>1, <2>1, <2>2, <2>3, ReadKeepsKey
<1>6. CASE St \/ Str
  <2>1. \E a : bus' = bus_write(bus, a, registers[DR])
    BY <1>6 DEF St, Str, StoreTo
  <2> QED BY <1>1, <2>1, WriteKeepsKey
<1>7. CASE Sti
  <2> DEFINE first == after_read(bus, compute_direct_address)
  <2>1. \E a : bus' = bus_write(first, a, registers[DR])
    BY <1>7 DEF Sti, StoreTo
  <2>2. compute_direct_address = KBDR => ReadsKey
    BY <1>7 DEF Sti, Executing, ReadsKey
  <2>3. IsBus(first)
    BY <1>1, AfterReadIsBus
  <2> QED BY <1>1, <2>1, <2>2, <2>3, ReadKeepsKey, WriteKeepsKey
<1>8. CASE Rti
  <2> DEFINE first == after_read(bus, registers[REG_R6])
  <2>1. bus' = after_read(first, Plus(registers[REG_R6], 1))
    BY <1>8 DEF Rti
  <2>2. registers[REG_R6] = KBDR \/ Plus(registers[REG_R6], 1) = KBDR => ReadsKey
    BY <1>8 DEF Rti, Executing, ReadsKey
  <2>3. IsBus(first)
    BY <1>1, AfterReadIsBus
  <2> QED BY <1>1, <2>1, <2>2, <2>3, ReadKeepsKey
<1> QED
  BY <1>2, <1>3, <1>4, <1>5, <1>6, <1>7, <1>8 DEF Execute

(* What is pushed when a handler is entered does not take the key away.    *)
LEMMA HandlerKeepsKey ==
  ASSUME TypeOK, NEW vec, NEW priority, EnterHandler(vec, priority), Ready(bus.kbsr)
  PROVE  Ready(bus'.kbsr)
<1>1. IsBus(bus) /\ PC \in Word /\ PSR \in Word
  BY OperandsAreWords DEF TypeOK
<1>2. registers \in [lc3_reg -> Word]
  BY DEF TypeOK
<1> DEFINE sp == Minus(OnSupervisorStack[REG_R6], 2)
           first == bus_write(bus, Plus(sp, 1), PSR)
<1>3. Plus(sp, 1) \in Word
  <2>1. OnSupervisorStack[REG_R6] \in Word
    BY <1>2 DEF OnSupervisorStack, lc3_reg, REG_R6, REG_USP, REG_SSP
  <2>2. 1 \in Word /\ 2 \in Word
    BY WordRange
  <2> QED BY <2>1, <2>2, ArithmeticIsWord
<1>4. IsBus(first) /\ Ready(first.kbsr)
  BY <1>1, <1>3, WriteIsBus, WriteKeepsKey
<1>5. bus' = bus_write(first, sp, PC)
  BY DEF EnterHandler
<1> HIDE DEF first, sp
<1> QED
  BY <1>1, <1>4, <1>5, WriteKeepsKey

(* In a step of the machine. *)
LEMMA NextKeepsKey ==
  ASSUME TypeOK, [Next]_vars, Ready(bus.kbsr), ~ Ready(bus'.kbsr)
  PROVE  ReadsKey /\ bus'.kbdr = bus.kbdr
<1>1. IsBus(bus)
  BY DEF TypeOK
<1>2. CASE Fetch
  BY <1>1, <1>2, ReadKeepsKey DEF Fetch, ReadsKey
<1>3. CASE Execute
  BY <1>3, ExecuteKeepsKey, ExecuteRaisesOne
<1>4. CASE \E vec, priority : EnterHandler(vec, priority)
  BY <1>4, HandlerKeepsKey
<1>5. CASE \E char : Deliver(char)
  <2>1. PICK char : bus' = keyboard_on_input(bus, char)
    BY <1>5 DEF Deliver, simulator_update_devices_input
  <2>2. bus'.kbsr = SetReady(bus.kbsr) /\ bus.kbsr \in Word
    BY <1>1, <2>1 DEF keyboard_on_input, IsBus
  <2>3. \A n \in Int : 0 <= n /\ n <= 65535 => (n % 32768) + 32768 >= 32768
    OBVIOUS
  <2> QED BY <2>2, <2>3, WordRange DEF SetReady, Ready, Negative, HighBit
<1>6. CASE UNCHANGED bus
  BY <1>6
<1> QED
  BY <1>2, <1>3, <1>4, <1>5, <1>6
     DEF Next, RunCpu, Tick, HaltBeforeFetch, HaltAfterExecute, NoException,
         ServePrivModeViolation, ServeIllegalOpcode, NoCharacter, Character, ReadFails,
         TakeInterrupt, NoInterrupt, vars, cpu_vars

-----------------------------------------------------------------------------
(* The machine under the commands *)

(* What the runs and the commands between them keep.  Besides what a run   *)
(* keeps of the machine: the machine is between two instructions at the    *)
(* prompt, when a command is executed and when a step of 0 is; the list    *)
(* of tokens is empty at the prompt and holds one line after it, which is  *)
(* too long only where the session ends for it.                            *)
TokensMatch ==
  /\ tokens = [elements |-> tokens.elements, capacity |-> TOKENS_SIZE]
  /\ tokens.elements \in Lines \cup {<<>>}
  /\ command = "prompt" => tokens.elements = <<>>
  /\ command = "undefined" <=> Overfull(tokens)

BetweenInstructions == command \in {"prompt", "execute"} \/ NoTick => phase = "fetch"

SessionIInv ==
  /\ ClockIInv
  /\ UseMatches
  /\ TokensMatch
  /\ BetweenInstructions
  /\ steps_left \in Nat
  /\ io_failed \in BOOLEAN
  /\ lines_read \in 0 .. MaxLines

(* Before a fetch the clock matters no more than the lines, which are down. *)
LEMMA AtFetch ==
  ASSUME TypeOK', phase' = "fetch",
         ~ priv_mode_violation_line', ~ illegal_opcode_line'
  PROVE  ClockIInv'
BY DEF ClockIInv, ExceptionIInv, ExceptionServedInTick

(* The lines are down wherever a command finds the machine.                *)
LEMMA LinesDown ==
  ASSUME ClockIInv, phase # "retire"
  PROVE  TypeOK /\ ~ priv_mode_violation_line /\ ~ illegal_opcode_line
BY DEF ClockIInv, ExceptionIInv, ExceptionServedInTick

(* Words that are loaded, or one word repeated, and registers: the machine *)
(* stays between two instructions.                                         *)
LEMMA CommandKeepsMachine ==
  ASSUME ClockIInv, phase = "fetch", phase' = "fetch", UNCHANGED <<instruction, lines>>,
         registers' \in [lc3_reg -> Word], IsBus(bus'), Queue!TypeOK',
         typed' \in Seq(Chars)
  PROVE  ClockIInv'
<1>1. TypeOK'
  BY LinesDown DEF TypeOK, lines
<1> QED
  BY <1>1, LinesDown, AtFetch DEF lines

(* What a token of the line in the list can be.                            *)
LEMMA TokenRange ==
  ASSUME TokensMatch, NEW index \in Nat, HasToken(index)
  PROVE  Token(index) \in [word : STRING, number : {-1} \cup Nat, char : -1 .. 255]
<1> DEFINE T == [word : STRING, number : {-1} \cup Nat, char : -1 .. 255]
<1>1. tokens.elements \in Seq(T)
  <2>1. \A line \in Lines : line \in Seq(T)
    BY SessionAssumption
  <2> HIDE DEF T
  <2>2. <<>> \in Seq(T)
    OBVIOUS
  <2> QED BY <2>1, <2>2 DEF TokensMatch
<1>2. index + 1 \in 1 .. Len(tokens.elements)
  BY <1>1 DEF HasToken, list_has, num_elements
<1> HIDE DEF T
<1>3. tokens.elements[index + 1] \in T
  BY <1>1, <1>2
<1> QED
  BY <1>3 DEF Token, list_get, T

(* The character of an input command is one that can be typed.             *)
LEMMA InputIsCharacter ==
  ASSUME TokensMatch, InputEntered
  PROVE  Token(1).char \in Chars
<1>1. tokens.elements \in Lines
  BY DEF TokensMatch, InputEntered, HasToken, list_has, num_elements
<1>2. PICK line : line \in Lines /\ tokens.elements = line
  BY <1>1
<1>3. Len(line) > 1 /\ line[1].word = "input" => line[2].char \in Chars \cup {-1}
  BY <1>2, SessionAssumption
<1>4. Len(line) \in Nat
  BY <1>2, SessionAssumption
<1>5. Len(line) > 1 /\ line[1].word = "input" /\ line[2].char >= 0 /\ Token(1).char = line[2].char
  BY <1>2, <1>4 DEF InputEntered, Entered, HasToken, Token, list_has, list_get, num_elements
<1> QED
  BY <1>3, <1>5

(* input: the keyboard is ready afterwards, and the clock as it was.       *)
LEMMA InputKeepsMachine ==
  ASSUME ClockIInv, TokensMatch, phase = "fetch", Input
  PROVE  /\ ClockIInv'
         /\ CLOCK_ENABLED(bus') = CLOCK_ENABLED(bus)
         /\ Ready(bus'.kbsr)
<1> DEFINE char == Token(1).char
<1>1. char \in Chars /\ char \in 0 .. 255
  BY InputIsCharacter, SimulatorAssumption DEF Input
<1>2. TypeOK /\ IsBus(bus)
  BY LinesDown DEF TypeOK
<1>3. simulator_update_devices_input(char) /\ bus' = keyboard_on_input(bus, char)
  BY DEF Input, simulator_update_devices_input
<1>4. IsBus(bus') /\ Queue!TypeOK'
  BY <1>1, <1>2, <1>3, DeliverKeepsType
<1>5. bus'.mem = bus.mem /\ bus'.kbsr = SetReady(bus.kbsr) /\ bus.kbsr \in Word
  BY <1>2, <1>3 DEF keyboard_on_input, IsBus
<1>6. typed' \in Seq(Chars)
  BY <1>1, <1>2 DEF Input, TypeOK
<1>7. ClockIInv'
  BY <1>2, <1>4, <1>6, CommandKeepsMachine DEF Input, TypeOK
<1>8. Ready(bus'.kbsr)
  <2>1. \A n \in Int : 0 <= n /\ n <= 65535 => (n % 32768) + 32768 >= 32768
    OBVIOUS
  <2> QED BY <1>5, <2>1, WordRange DEF SetReady, Ready, Negative, HighBit
<1> QED
  BY <1>5, <1>7, <1>8, ClockIsCell DEF Clock

(* One word repeated, which is none when there are fewer than one.         *)
LEMMA Repeated ==
  ASSUME NEW k \in Int, NEW W, NEW word \in W
  PROVE  [i \in 1 .. k |-> word] \in Seq(W)
<1>1. CASE k >= 0
  BY <1>1
<1>2. CASE k < 0
  <2>1. 1 .. k = 1 .. 0
    BY <1>2
  <2>2. [i \in 1 .. 0 |-> word] \in Seq(W)
    OBVIOUS
  <2> QED BY <2>1, <2>2
<1> QED
  BY <1>1, <1>2

(* mem write: any words, at any addresses, also none.                      *)
LEMMA MemWriteKeepsMachine ==
  ASSUME ClockIInv, TokensMatch, phase = "fetch", MemWrite
  PROVE  ClockIInv' /\ (Ready(bus.kbsr) => Ready(bus'.kbsr))
<1>1. TypeOK /\ IsBus(bus)
  BY LinesDown DEF TypeOK
<1> DEFINE low == Token(3).number
           high == IF HasToken(4) THEN Token(4).number ELSE low
           words == [i \in 1 .. high - low + 1 |-> Token(2).number]
<1>2. low \in Word /\ high \in Word /\ Token(2).number \in Word
  BY DEF MemWrite, MemWriteEntered, HasWord
<1>3. words \in Seq(Word)
  <2>1. high - low + 1 \in Int
    BY <1>2, WordRange
  <2> HIDE DEF high, low
  <2> QED BY <1>2, <2>1, Repeated
<1>4. bus' = Stored(bus, low, words)
  BY DEF MemWrite
<1> HIDE DEF low, words
<1>5. IsBus(bus') /\ (Ready(bus.kbsr) => Ready(bus'.kbsr))
  BY <1>1, <1>2, <1>3, <1>4, StoredIsBus
<1>6. ClockIInv'
  BY <1>1, <1>5, CommandKeepsMachine DEF MemWrite, TypeOK, Queue!TypeOK
<1> QED
  BY <1>5, <1>6

(* reg write: any register, the status among them.                         *)
LEMMA RegWriteKeepsMachine ==
  ASSUME ClockIInv, TokensMatch, phase = "fetch", RegWrite
  PROVE  ClockIInv'
<1>1. TypeOK
  BY LinesDown
<1>2. registers' \in [lc3_reg -> Word]
  BY <1>1 DEF RegWrite, RegWriteEntered, HasWord, TypeOK
<1> QED
  BY <1>1, <1>2, CommandKeepsMachine DEF RegWrite, TypeOK, Queue!TypeOK

(* load: the words of a file go where its first word says.                 *)
LEMMA LoadKeepsMachine ==
  ASSUME ClockIInv, TokensMatch, phase = "fetch", Load
  PROVE  ClockIInv' /\ (Ready(bus.kbsr) => Ready(bus'.kbsr))
<1>1. TypeOK /\ IsBus(bus) /\ registers \in [lc3_reg -> Word]
  BY LinesDown DEF TypeOK
<1> DEFINE words == Files[Token(1).word].words
<1>2. words \in Seq(Word)
  BY SessionAssumption DEF Load, LoadEntered
<1>3. CASE words = <<>>
  BY <1>1, <1>3, CommandKeepsMachine DEF Load, TypeOK, Queue!TypeOK
<1>4. CASE words # <<>>
  <2>1. /\ bus' = Stored(bus, Head(words), Tail(words))
        /\ registers' = [registers EXCEPT ![REG_PC] = Head(words)]
    BY <1>4 DEF Load
  <2> HIDE DEF words
  <2>2. Head(words) \in Word /\ Tail(words) \in Seq(Word)
    BY <1>2, <1>4
  <2>3. IsBus(bus') /\ (Ready(bus.kbsr) => Ready(bus'.kbsr))
    BY <1>1, <2>1, <2>2, StoredIsBus
  <2>4. registers' \in [lc3_reg -> Word]
    BY <1>1, <2>1, <2>2
  <2>5. ClockIInv'
    BY <1>1, <2>3, <2>4, CommandKeepsMachine DEF Load, TypeOK, Queue!TypeOK
  <2> QED BY <2>3, <2>5
<1> QED
  BY <1>3, <1>4

-----------------------------------------------------------------------------
(* Every step of the session *)

KeyStep ==
  Ready(bus.kbsr) /\ ~ Ready(bus'.kbsr) =>
    command \in {"run", "step"} /\ ReadsKey /\ bus'.kbdr = bus.kbdr

ClockStep == ~ CLOCK_ENABLED(bus) /\ CLOCK_ENABLED(bus') => MemWriteEntered \/ LoadEntered

(* The steps that change the machine: those of a run or a step, and the    *)
(* commands that write to it.                                              *)
LEMMA MachineStep ==
  ASSUME SessionIInv,
         RunSimulator \/ StepCpu \/ Input \/ MemWrite \/ RegWrite \/ Load
  PROVE  ClockIInv' /\ KeyStep /\ ClockStep
<1>1. CASE RunSimulator \/ StepCpu
  <2>1. Next /\ command \in {"run", "step"}
    BY <1>1 DEF RunSimulator, StepCpu, Next
  <2>2. ClockIInv /\ TypeOK
    BY DEF SessionIInv, ClockIInv, ExceptionIInv
  <2> QED BY <2>1, <2>2, NextKeepsClock, NextKeepsKey DEF KeyStep, ClockStep
<1>2. CASE Input \/ MemWrite \/ RegWrite \/ Load
  <2>1. command = "execute"
    BY <1>2, EnteredExecutes DEF Input, MemWrite, RegWrite, Load
  <2>2. phase = "fetch" /\ ClockIInv /\ TokensMatch
    BY <2>1 DEF SessionIInv, BetweenInstructions
  <2>3. CASE Input
    BY <2>2, <2>3, InputKeepsMachine DEF KeyStep, ClockStep
  <2>4. CASE MemWrite
    BY <2>2, <2>4, MemWriteKeepsMachine DEF KeyStep, ClockStep, MemWrite
  <2>5. CASE RegWrite
    <3>1. bus' = bus
      BY <2>5 DEF RegWrite
    <3> QED BY <2>2, <2>5, <3>1, RegWriteKeepsMachine DEF KeyStep, ClockStep
  <2>6. CASE Load
    BY <2>2, <2>6, LoadKeepsMachine DEF KeyStep, ClockStep, Load
  <2> QED BY <1>2, <2>3, <2>4, <2>5, <2>6
<1> QED
  BY <1>1, <1>2

(* The others change its phase at most, and only to start another run,     *)
(* tick or command.                                                        *)
LEMMA QuietStep ==
  ASSUME SessionIInv,
         \/ ReadLine \/ ReadTooManyTokens \/ EndOfInput \/ Quit \/ PrintOnly \/ StartFails
         \/ StartRun \/ StartStep \/ StepAgain \/ End \/ EndFails \/ StepZeroFails
         \/ UNCHANGED session_vars
  PROVE  ClockIInv' /\ KeyStep /\ ClockStep
<1>1. bus' = bus
  BY DEF ReadLine, ReadTooManyTokens, EnterLine, EndOfInput, Quit, PrintOnly, StartFails, DeviceIoFails, Leave,
         StartRun, StartStep, StartDeviceIo, StepAgain, End, EndFails, StepZeroFails,
         machine, session_vars
<1>2. KeyStep /\ ClockStep
  BY <1>1 DEF KeyStep, ClockStep
<1>3. ClockIInv
  BY DEF SessionIInv
<1>4. CASE \/ ReadLine \/ ReadTooManyTokens \/ EndOfInput \/ Quit \/ PrintOnly \/ StartFails
           \/ EndFails \/ StepZeroFails \/ UNCHANGED session_vars
  <2>1. UNCHANGED machine
    BY <1>4 DEF ReadLine, ReadTooManyTokens, EnterLine, EndOfInput, Quit, PrintOnly, StartFails, DeviceIoFails, Leave,
                EndFails, StepZeroFails, session_vars
  <2>2. UNCHANGED vars
    BY <2>1 DEF machine, vars, cpu_vars
  <2> QED BY <1>2, <1>3, <2>2, NextKeepsClock
<1>5. CASE StartRun \/ StartStep \/ StepAgain \/ End
  <2>1. /\ phase' = "fetch"
        /\ UNCHANGED <<registers, instruction, lines, bus, pending, typed>>
    BY <1>5 DEF StartRun, StartStep, StartDeviceIo, StepAgain, End
  <2>2. phase # "retire"
    <3>1. CASE StartRun \/ StartStep
      BY <3>1, EnteredExecutes DEF StartRun, StartStep, SessionIInv, BetweenInstructions
    <3>2. CASE StepAgain \/ End
      BY <3>2 DEF StepAgain, End, LoopDone, NoTick, SessionIInv, BetweenInstructions
    <3> QED BY <1>5, <3>1, <3>2
  <2>3. TypeOK /\ ~ priv_mode_violation_line /\ ~ illegal_opcode_line
    BY <1>3, <2>2, LinesDown
  <2>4. TypeOK'
    BY <2>1, <2>3 DEF TypeOK, Queue!TypeOK, lines
  <2>5. ClockIInv'
    BY <2>1, <2>3, <2>4, AtFetch DEF lines
  <2> QED BY <1>2, <2>5
<1> QED
  BY <1>4, <1>5

(* All steps of the session, for the machine.                              *)
LEMMA SessionKeepsMachine ==
  SessionIInv /\ [SessionNext]_session_vars => ClockIInv' /\ KeyStep /\ ClockStep
BY MachineStep, QuietStep DEF SessionNext, Proceed

(* The list of tokens, the count of steps and the rest of what the         *)
(* commands keep.                                                          *)
LEMMA SessionKeepsUi ==
  ASSUME SessionIInv, [SessionNext]_session_vars
  PROVE  /\ TokensMatch' /\ BetweenInstructions'
         /\ steps_left' \in Nat /\ io_failed' \in BOOLEAN
         /\ lines_read' \in 0 .. MaxLines
<1>1. /\ TokensMatch /\ BetweenInstructions
      /\ steps_left \in Nat /\ io_failed \in BOOLEAN /\ lines_read \in 0 .. MaxLines
  BY DEF SessionIInv
<1>2. CASE ReadLine \/ ReadTooManyTokens
  <2>1. EnterLine
    BY <1>2 DEF ReadLine, ReadTooManyTokens
  <2>2. PICK line \in Lines : tokens' = Tokenized(tokens, line)
    BY <2>1 DEF EnterLine
  <2>3. tokens = list_new(TOKENS_SIZE)
    BY <1>1, <2>1 DEF EnterLine, TokensMatch, list_new
  <2>4. \E T : line \in Seq(T)
    BY SessionAssumption
  <2>5. tokens' = [elements |-> line, capacity |-> TOKENS_SIZE]
    BY <2>2, <2>3, <2>4, LineTokenized
  <2>6. \/ command' = "execute" /\ ~ Overfull(tokens')
        \/ command' = "undefined" /\ Overfull(tokens')
    BY <1>2 DEF ReadLine, ReadTooManyTokens
  <2>7. TokensMatch'
    BY <2>5, <2>6 DEF TokensMatch
  <2>8. lines_read' \in 0 .. MaxLines
    BY <1>1, <2>1, SessionAssumption DEF EnterLine
  <2>9. phase = "fetch"
    BY <1>1, <2>1 DEF EnterLine, BetweenInstructions
  <2> QED BY <1>1, <2>1, <2>6, <2>7, <2>8, <2>9 DEF EnterLine, machine, BetweenInstructions
<1>3. CASE EndOfInput \/ Quit \/ StartFails \/ EndFails \/ StepZeroFails
  <2>1. command # "undefined"
    BY <1>3, EnteredExecutes, LoopDoneRuns
       DEF EndOfInput, Quit, StartFails, EndFails, StepZeroFails, NoTick
  <2> QED BY <1>1, <1>3, <2>1
             DEF EndOfInput, Quit, StartFails, EndFails, StepZeroFails, DeviceIoFails, Leave,
                 TokensMatch, BetweenInstructions, NoTick, Overfull, num_elements
<1>4. CASE PrintOnly \/ Input \/ MemWrite \/ RegWrite \/ Load \/ End
  <2>1. /\ Continue /\ UNCHANGED <<io_failed, lines_read>>
        /\ steps_left' \in Nat
    BY <1>1, <1>4 DEF PrintOnly, Input, MemWrite, RegWrite, Load, End
  <2>2. phase' = "fetch"
    <3>1. CASE End
      BY <3>1 DEF End
    <3>2. CASE PrintOnly \/ Input \/ MemWrite \/ RegWrite \/ Load
      <4>1. command = "execute" /\ phase' = phase
        BY <3>2, EnteredExecutes DEF PrintOnly, Input, MemWrite, RegWrite, Load, machine
      <4> QED BY <1>1, <4>1 DEF BetweenInstructions
    <3> QED BY <1>4, <3>1, <3>2
  <2>3. tokens' = [elements |-> <<>>, capacity |-> TOKENS_SIZE]
    BY <1>1, <2>1 DEF Continue, list_clear, TokensMatch
  <2>4. ~ Overfull(tokens')
    BY <2>3 DEF Overfull, num_elements, TOKENS_SIZE
  <2> QED BY <1>1, <2>1, <2>2, <2>3, <2>4 DEF Continue, TokensMatch, BetweenInstructions
<1>5. CASE StartRun \/ StartStep
  <2>1. steps_left' \in Nat
    <3>1. CASE StartRun
      BY <1>1, <3>1 DEF StartRun
    <3>2. CASE StartStep
      BY <1>1, <3>2, TokenRange DEF StartStep, StepEntered
    <3> QED BY <1>5, <3>1, <3>2
  <2>2. command # "undefined"
    BY <1>5, EnteredExecutes DEF StartRun, StartStep
  <2> QED BY <1>1, <1>5, <2>1, <2>2
             DEF StartRun, StartStep, StartDeviceIo, TokensMatch, BetweenInstructions,
                 Overfull, num_elements
<1>6. CASE RunSimulator \/ StepCpu \/ StepAgain
  <2>1. /\ command \in {"run", "step"} /\ ~ NoTick'
        /\ UNCHANGED <<command, tokens, io_failed, lines_read>>
        /\ steps_left' \in Nat
    BY <1>1, <1>6 DEF RunSimulator, StepCpu, StepAgain, NoTick, ui
  <2> QED BY <1>1, <2>1 DEF TokensMatch, BetweenInstructions, Overfull, num_elements
<1>7. CASE UNCHANGED session_vars
  BY <1>1, <1>7 DEF session_vars, machine, ui, TokensMatch, BetweenInstructions, NoTick,
                     Overfull, num_elements
<1> QED
  BY <1>2, <1>3, <1>4, <1>5, <1>6, <1>7 DEF SessionNext, Proceed

(* All steps of the session, for all that is kept.                         *)
LEMMA SessionKeepsIInv ==
  SessionIInv /\ [SessionNext]_session_vars => SessionIInv'
BY SessionKeepsMachine, SessionKeepsUi, StepMatches DEF SessionIInv

(* The session starts at the prompt, on a machine that has not run.        *)
LEMMA SessionStarts ==
  SessionInit => SessionIInv
<1> SUFFICES ASSUME SessionInit PROVE SessionIInv
  OBVIOUS
<1>1. ClockIInv /\ phase = "fetch"
  BY InitTypeOK DEF SessionInit, Init, CpuInit, ExceptionIInv, ExceptionServedInTick, ClockIInv
<1>2. TokensMatch
  BY DEF SessionInit, TokensMatch, list_new, Overfull, num_elements, TOKENS_SIZE
<1>3. lines_read \in 0 .. MaxLines
  BY SessionAssumption DEF SessionInit
<1> QED
  BY <1>1, <1>2, <1>3 DEF SessionInit, SessionIInv, UseMatches, BetweenInstructions

(* Whatever is entered, read, loaded and run, lines of any number of       *)
(* tokens included: the machine stays one of words, the list of tokens     *)
(* holds those of one line, and it is written past its end by a line that  *)
(* alone has too many, never for what a command before has left in it.     *)
THEOREM SessionTypeCorrect == SessionSpec => []SessionTypeOK
<1>1. SessionIInv => SessionTypeOK
  <2> SUFFICES ASSUME SessionIInv PROVE SessionTypeOK
    OBVIOUS
  <2>1. TypeOK
    BY DEF SessionIInv, ClockIInv, ExceptionIInv
  <2>2. /\ tokens.capacity = TOKENS_SIZE /\ tokens.elements \in Lines \cup {<<>>}
        /\ command = "undefined" <=> Overfull(tokens)
    BY DEF SessionIInv, TokensMatch
  <2> QED BY <2>1, <2>2 DEF SessionIInv, SessionTypeOK, UseMatches
<1> QED
  BY <1>1, SessionStarts, SessionKeepsIInv, PTL DEF SessionSpec

(* No run, no step and no interrupt or exception served in one turns a     *)
(* stopped clock on: the user does, with mem write or load.                *)
THEOREM OnlyUserStartsClock == SessionSpec => ClockStaysOff
<1>1. SessionIInv /\ [SessionNext]_session_vars =>
        [~ CLOCK_ENABLED(bus) /\ CLOCK_ENABLED(bus)' =>
           MemWriteEntered \/ LoadEntered]_session_vars
  BY SessionKeepsMachine DEF ClockStep
<1> QED
  BY <1>1, SessionStarts, SessionKeepsIInv, PTL DEF SessionSpec, ClockStaysOff

(* A key that is ready is taken away by a program's read of the data       *)
(* register alone, and its character is still there then.                  *)
THEOREM KeyIsKept == SessionSpec => KeyKept
<1>1. SessionIInv /\ [SessionNext]_session_vars =>
        [Ready(bus.kbsr) /\ ~ Ready(bus'.kbsr) =>
           command \in {"run", "step"} /\ ReadsKey /\ bus'.kbdr = bus.kbdr]_session_vars
  BY SessionKeepsMachine DEF KeyStep
<1> QED
  BY <1>1, SessionStarts, SessionKeepsIInv, PTL DEF SessionSpec, KeyKept

-----------------------------------------------------------------------------
(* The two programs that echo, PollingBoot and InterruptBoot: what they    *)
(* know at each of their instructions, in a session whose user runs and    *)
(* steps through them and types.  This is the inductive invariant behind   *)
(* EchoInOrder.                                                            *)

(* What is asked of the session: one of the two programs, no read of the   *)
(* terminal that fails, no device besides the keyboard that interrupts at  *)
(* another priority, and a user who does not write to memory or registers. *)
EchoSetup ==
  /\ Boots \subseteq EchoBoots
  /\ Garbage = {}
  /\ OtherAlerts \subseteq PeerDevice
  /\ \A line \in Lines :
       /\ line # <<>> => line[1].word # "load"
       /\ Len(line) > 1 /\ line[1].word \in {"mem", "reg"} => line[2].word # "write"

(* out is some of the first n characters of t, in their order.             *)
ShownIn(t, out, n) ==
  \E at \in [1 .. Len(out) -> 1 .. n] :
    /\ \A i \in DOMAIN at : out[i] = t[at[i]]
    /\ \A i, j \in DOMAIN at : i < j => at[i] < at[j]

(* The characters typed that the program has read, or will never read.     *)
Past == IF Ready(bus.kbsr) THEN Len(typed) - 1 ELSE Len(typed)

(* The address of the instruction that is executed or comes next.          *)
Location == IF phase = "execute" THEN PC - 1 ELSE PC

(* At an instruction of "holding" R0 has a character to be shown, at one   *)
(* of "reads" the keyboard is ready, and at one of "tests" it is if the    *)
(* condition code says so.                                                 *)
Echoing(holding, reads, tests) ==
  /\ Ready(bus.kbsr) => Len(typed) > 0 /\ bus.kbdr % 256 = typed[Len(typed)]
  /\ ShownIn(typed, bus.output, Past)
  /\ Location \in holding => ShownIn(typed, Append(bus.output, registers[0] % 256), Past)
  /\ Location \in reads => Ready(bus.kbsr)
  /\ Location \in tests => NZP_PSR(PSR) \in {1, 2} \/ Ready(bus.kbsr)

(* Memory holds the words of image at the addresses of code.               *)
Holds(image, code) == \A a \in code : Cell(bus.mem, a) = image[a]

(* The program is at one of points, and executes what is there.            *)
Running(points) ==
  /\ Location \in points
  /\ phase = "execute" => instruction = Cell(bus.mem, Location)
  /\ ~ priv_mode_violation_line /\ ~ illegal_opcode_line

-----------------------------------------------------------------------------
(* The invariant of the program that polls *)

(* It is tested at 12289 whether the keyboard is ready, read at 12290, and *)
(* what was read is held until the store to the display at 12293.          *)
PollingIInv ==
  /\ Running(12288 .. 12299)
  /\ Holds(PollingBoot.image, 12288 .. 12305)
  /\ PSR \in 1024 .. 1031               \* supervisor mode, priority 4
  /\ Location # 12288 => PSR # 1024      \* the condition code is set
  /\ Echoing(12291 .. 12293, {12290}, {12289})

-----------------------------------------------------------------------------
(* The invariant of the program that is interrupted *)

BootCode == 12288 .. 12294
UserCode == {12295}
HandlerCode == 4096 .. 4102
OtherCode == 4352 .. 4354
UserStatus == 32769 .. 32775   \* priority 0, the condition code set

(* The cells it reads and does not write. *)
InterruptCode ==
  (12288 .. 12299) \cup (4096 .. 4105) \cup (4352 .. 4354)
  \cup {Frame, Frame + 1, INTERRUPT_VECTOR_TABLE + KEYBOARD_INTERRUPT_VECTOR,
        INTERRUPT_VECTOR_TABLE + 144}

(* The user program is the one that is interrupted, so that the status the *)
(* handlers save, and rti restores, is a user's, and their frame is at the *)
(* top of the supervisor stack.                                            *)
InterruptIInv ==
  /\ Running(BootCode \cup UserCode \cup HandlerCode \cup OtherCode)
  /\ Holds(InterruptBoot.image, InterruptCode)
  /\ registers[REG_SSP] = SSP
  /\ PSR \in IF Location \in UserCode THEN UserStatus ELSE 1024 .. 1031
  /\ Location \in BootCode => registers[REG_R6] = Frame
  /\ Location = 12289 => registers[1] = KBSR_IE
  /\ Location \in HandlerCode \cup OtherCode =>
       /\ registers[REG_R6] = SSP - 2
       /\ Cell(bus.mem, SSP - 2) = 12295
       /\ Cell(bus.mem, SSP - 1) \in UserStatus
  /\ Echoing({12293, 4100}, {12292, 4099}, {12291, 4098})

(* Either program, whichever the session starts with.                      *)
EchoIInv == PollingIInv \/ InterruptIInv

-----------------------------------------------------------------------------
(* The words of the programs *)

(* The offsets that go back, in nine bits. *)
LEMMA Backwards ==
  /\ (-1) % 512 = 511 /\ (-2) % 512 = 510 /\ (-9) % 512 = 503
<1> DEFINE NineBits(d) == d % 512
<1>1. \A d \in Int : -512 <= d /\ d < 0 => NineBits(d) = 512 + d
  BY SMT
<1> HIDE DEF NineBits
<1>2. NineBits(-1) = 511 /\ NineBits(-2) = 510 /\ NineBits(-9) = 503
  BY <1>1, SMT
<1> QED BY <1>2, SMT DEF NineBits

(* The branches the programs have. *)
LEMMA BranchWords ==
  /\ BR(IfZeroOrPositive, -2) = 2046 /\ BR(IfNotZero, -9) = 3063
  /\ BR(Always, -1) = 4095 /\ BR(IfZeroOrPositive, 2) = 1538
<1>1. BR(3, -2) = 4096 * 0 + 512 * 3 + 64 * 0 + ((-2) % 512)
  BY DEF BR, Op
<1>2. BR(5, -9) = 4096 * 0 + 512 * 5 + 64 * 0 + ((-9) % 512)
  BY DEF BR, Op
<1>3. BR(7, -1) = 4096 * 0 + 512 * 7 + 64 * 0 + ((-1) % 512)
  BY DEF BR, Op
<1>4. BR(3, 2) = 1538
  BY DEF BR, Op
<1> QED
  BY <1>1, <1>2, <1>3, <1>4, Backwards DEF IfZeroOrPositive, IfNotZero, Always

(* Their loads and stores. *)
LEMMA LoadStoreWords ==
  /\ LDI(0, 11) = 40971 /\ LDI(0, 10) = 40970 /\ LDI(1, 10) = 41482
  /\ LDI(0, 5) = 40965 /\ LDI(0, 4) = 40964
  /\ STI(0, 9) = 45065 /\ STI(1, 5) = 45573 /\ STI(1, 6) = 45574 /\ STI(0, 4) = 45060
  /\ LD(1, 10) = 8714 /\ LD(0, 4) = 8196 /\ ST(0, 9) = 12297
BY DEF LDI, STI, LD, ST, Op

(* What else they have. *)
LEMMA OtherWords ==
  /\ ADDR(1, 0, 1) = 4609 /\ ANDI(1, 1, 0) = 21088 /\ NOT(0, 0) = 36927 /\ RTI = 32768
BY DEF ADDR, ANDI, NOT, RTI, Op

(* The program that polls, word by word. *)
LEMMA PollingWords ==
  /\ PollingBoot.image[12288] = 40971 /\ PollingBoot.image[12289] = 2046
  /\ PollingBoot.image[12290] = 40970 /\ PollingBoot.image[12291] = 41482
  /\ PollingBoot.image[12292] = 2046 /\ PollingBoot.image[12293] = 45065
  /\ PollingBoot.image[12294] = 8714 /\ PollingBoot.image[12295] = 4609
  /\ PollingBoot.image[12296] = 3063 /\ PollingBoot.image[12297] = 21088
  /\ PollingBoot.image[12298] = 45573 /\ PollingBoot.image[12299] = 4095
  /\ PollingBoot.image[12300] = KBSR /\ PollingBoot.image[12301] = KBDR
  /\ PollingBoot.image[12302] = DSR /\ PollingBoot.image[12303] = DDR
  /\ PollingBoot.image[12304] = MCR_ADDR /\ PollingBoot.image[12305] \in Word
<1> DEFINE m == PollingBoot.image
<1>2. m = At(12288, <<LDI(0, 11), BR(IfZeroOrPositive, -2), LDI(0, 10),
                 LDI(1, 10), BR(IfZeroOrPositive, -2), STI(0, 9),
                 LD(1, 10), ADDR(1, 0, 1), BR(IfNotZero, -9),
                 ANDI(1, 1, 0), STI(1, 5), BR(Always, -1),
                 KBSR, KBDR, DSR, DDR, MCR_ADDR, 65536 - QuitKey>>)
  BY DEF PollingBoot
<1>3. /\ m[12288] = LDI(0, 11) /\ m[12289] = BR(IfZeroOrPositive, -2)
      /\ m[12290] = LDI(0, 10) /\ m[12291] = LDI(1, 10)
  BY <1>2, SMT DEF At
<1>4. /\ m[12292] = BR(IfZeroOrPositive, -2) /\ m[12293] = STI(0, 9)
      /\ m[12294] = LD(1, 10) /\ m[12295] = ADDR(1, 0, 1)
  BY <1>2, SMT DEF At
<1>5. /\ m[12296] = BR(IfNotZero, -9) /\ m[12297] = ANDI(1, 1, 0)
      /\ m[12298] = STI(1, 5) /\ m[12299] = BR(Always, -1)
  BY <1>2, SMT DEF At
<1>6. /\ m[12300] = KBSR /\ m[12301] = KBDR /\ m[12302] = DSR /\ m[12303] = DDR
      /\ m[12304] = MCR_ADDR /\ m[12305] = 65536 - QuitKey
  BY <1>2, SMT DEF At
<1>7. 65536 - QuitKey \in Word
  BY DEF QuitKey, Word
<1> HIDE DEF m
<1> QED
  BY <1>3, <1>4, <1>5, <1>6, <1>7, BranchWords, LoadStoreWords, OtherWords DEF m

(* The program that is interrupted, from the parts it is put together of. *)
LEMMA InterruptWords ==
  /\ InterruptBoot.image[12288] = 8714 /\ InterruptBoot.image[12289] = 45574
  /\ InterruptBoot.image[12290] = 40965 /\ InterruptBoot.image[12291] = 1538
  /\ InterruptBoot.image[12292] = 40964 /\ InterruptBoot.image[12293] = 45060
  /\ InterruptBoot.image[12294] = 32768 /\ InterruptBoot.image[12295] = 4095
  /\ InterruptBoot.image[12296] = KBSR /\ InterruptBoot.image[12297] = KBDR
  /\ InterruptBoot.image[12298] = DDR /\ InterruptBoot.image[12299] = 16384
  /\ InterruptBoot.image[61438] = 12295 /\ InterruptBoot.image[61439] = 32770
  /\ InterruptBoot.image[4096] = 12297
  /\ InterruptBoot.image[4097] = 40965 /\ InterruptBoot.image[4098] = 1538
  /\ InterruptBoot.image[4099] = 40964 /\ InterruptBoot.image[4100] = 45060
  /\ InterruptBoot.image[4101] = 8196 /\ InterruptBoot.image[4102] = 32768
  /\ InterruptBoot.image[4103] = KBSR /\ InterruptBoot.image[4104] = KBDR
  /\ InterruptBoot.image[4105] = DDR
  /\ InterruptBoot.image[4352] = 36927 /\ InterruptBoot.image[4353] = 36927
  /\ InterruptBoot.image[4354] = 32768
  /\ InterruptBoot.image[384] = 4096 /\ InterruptBoot.image[400] = 4352
<1> DEFINE m == InterruptBoot.image
           boot == At(12288, <<LD(1, 10), STI(1, 6), LDI(0, 5), BR(IfZeroOrPositive, 2),
                               LDI(0, 4), STI(0, 4), RTI, BR(Always, -1),
                               KBSR, KBDR, DDR, KBSR_IE>>)
           frame == At(Frame, <<12288 + 7, UserPSR>>)
           keyboard == At(4096, <<ST(0, 9), LDI(0, 5), BR(IfZeroOrPositive, 2),
                                  LDI(0, 4), STI(0, 4), LD(0, 4), RTI, KBSR, KBDR, DDR>>)
           vector == At(384, <<4096>>)
           other == At(4352, <<NOT(0, 0), NOT(0, 0), RTI>>)
           othervector == At(400, <<4352>>)
<1>1. m = boot ++ frame ++ (keyboard ++ vector) ++ (other ++ othervector)
  <2>1. KeyboardHandler = keyboard ++ Vector(KEYBOARD_INTERRUPT_VECTOR, 4096)
    BY DEF KeyboardHandler
  <2>2. OtherHandler(144) = other ++ Vector(144, 4352)
    BY DEF OtherHandler
  <2>3. Vector(KEYBOARD_INTERRUPT_VECTOR, 4096) = vector /\ Vector(144, 4352) = othervector
    BY DEF Vector, KEYBOARD_INTERRUPT_VECTOR, INTERRUPT_VECTOR_TABLE
  <2>4. m = boot ++ frame ++ KeyboardHandler ++ OtherHandler(144)
    BY DEF InterruptBoot
  <2> HIDE DEF m, boot, frame, keyboard, vector, other, othervector
  <2> QED BY <2>1, <2>2, <2>3, <2>4
<1>2. /\ DOMAIN boot = 12288 .. 12299 /\ DOMAIN frame = 61438 .. 61439
      /\ DOMAIN keyboard = 4096 .. 4105 /\ DOMAIN vector = 384 .. 384
      /\ DOMAIN other = 4352 .. 4354 /\ DOMAIN othervector = 400 .. 400
  BY SMT DEF At, Frame
<1>3. /\ boot[12288] = LD(1, 10) /\ boot[12289] = STI(1, 6)
      /\ boot[12290] = LDI(0, 5) /\ boot[12291] = BR(IfZeroOrPositive, 2)
  BY SMT DEF At
<1>4. /\ boot[12292] = LDI(0, 4) /\ boot[12293] = STI(0, 4)
      /\ boot[12294] = RTI /\ boot[12295] = BR(Always, -1)
  BY SMT DEF At
<1>5. /\ boot[12296] = KBSR /\ boot[12297] = KBDR
      /\ boot[12298] = DDR /\ boot[12299] = KBSR_IE
  BY SMT DEF At
<1>6. frame[61438] = 12295 /\ frame[61439] = 32770
  BY SMT DEF At, Frame, UserPSR, HighBit
<1>7. /\ keyboard[4096] = ST(0, 9) /\ keyboard[4097] = LDI(0, 5)
      /\ keyboard[4098] = BR(IfZeroOrPositive, 2) /\ keyboard[4099] = LDI(0, 4)
      /\ keyboard[4100] = STI(0, 4)
  BY SMT DEF At
<1>8. /\ keyboard[4101] = LD(0, 4) /\ keyboard[4102] = RTI
      /\ keyboard[4103] = KBSR /\ keyboard[4104] = KBDR /\ keyboard[4105] = DDR
  BY SMT DEF At
<1>9. /\ other[4352] = NOT(0, 0) /\ other[4353] = NOT(0, 0) /\ other[4354] = RTI
      /\ vector[384] = 4096 /\ othervector[400] = 4352
  BY SMT DEF At
<1> HIDE DEF m, boot, frame, keyboard, vector, other, othervector
<1>10. \A a : /\ a \in DOMAIN boot => m[a] = boot[a]
              /\ a \in DOMAIN frame /\ a \notin DOMAIN boot => m[a] = frame[a]
              /\ a \in DOMAIN keyboard /\ a \notin DOMAIN boot \cup DOMAIN frame =>
                   m[a] = keyboard[a]
              /\ a \in DOMAIN vector
                   /\ a \notin DOMAIN boot \cup DOMAIN frame \cup DOMAIN keyboard =>
                   m[a] = vector[a]
              /\ a \in DOMAIN other
                   /\ a \notin DOMAIN boot \cup DOMAIN frame \cup DOMAIN keyboard
                                \cup DOMAIN vector =>
                   m[a] = other[a]
              /\ a \in DOMAIN othervector
                   /\ a \notin DOMAIN boot \cup DOMAIN frame \cup DOMAIN keyboard
                                \cup DOMAIN vector \cup DOMAIN other =>
                   m[a] = othervector[a]
  BY <1>1 DEF ++
<1>11. /\ \A a \in 12288 .. 12299 : m[a] = boot[a]
       /\ \A a \in 61438 .. 61439 : m[a] = frame[a]
       /\ \A a \in 4096 .. 4105 : m[a] = keyboard[a]
       /\ \A a \in 4352 .. 4354 : m[a] = other[a]
       /\ m[384] = vector[384] /\ m[400] = othervector[400]
  BY <1>2, <1>10
<1> HIDE DEF m, boot, frame, keyboard, vector, other, othervector
<1>12. KBSR_IE = 16384
  BY DEF KBSR_IE
<1> QED
  BY <1>3, <1>4, <1>5, <1>6, <1>7, <1>8, <1>9, <1>11, <1>12,
     BranchWords, LoadStoreWords, OtherWords DEF m

-----------------------------------------------------------------------------
(* Characters on their way to the screen *)

(* More characters were typed. *)
LEMMA ShownLonger ==
  ASSUME NEW t, NEW u, NEW out, NEW n \in Nat, NEW m \in Nat, n <= m,
         \A i \in 1 .. n : u[i] = t[i], ShownIn(t, out, n)
  PROVE  ShownIn(u, out, m)
<1>1. PICK at \in [1 .. Len(out) -> 1 .. n] :
        /\ \A i \in DOMAIN at : out[i] = t[at[i]]
        /\ \A i, j \in DOMAIN at : i < j => at[i] < at[j]
  BY DEF ShownIn
<1>2. at \in [1 .. Len(out) -> 1 .. m]
  OBVIOUS
<1>3. \A i \in DOMAIN at : out[i] = u[at[i]]
  BY <1>1
<1> QED BY <1>1, <1>2, <1>3 DEF ShownIn

(* The next one is shown. *)
LEMMA ShownNext ==
  ASSUME NEW t, NEW out \in Seq(0 .. 255), NEW n \in Nat, ShownIn(t, out, n)
  PROVE  ShownIn(t, Append(out, t[n + 1]), n + 1)
<1>1. PICK at \in [1 .. Len(out) -> 1 .. n] :
        /\ \A i \in DOMAIN at : out[i] = t[at[i]]
        /\ \A i, j \in DOMAIN at : i < j => at[i] < at[j]
  BY DEF ShownIn
<1> DEFINE k == Len(out)
           longer == Append(out, t[n + 1])
           to == [i \in 1 .. k + 1 |-> IF i = k + 1 THEN n + 1 ELSE at[i]]
<1>2. k \in Nat /\ Len(longer) = k + 1 /\ longer[k + 1] = t[n + 1]
      /\ \A i \in 1 .. k : longer[i] = out[i]
  OBVIOUS
<1> HIDE DEF longer
<1>3. to \in [1 .. k + 1 -> 1 .. n + 1]
  BY <1>2
<1>4. \A i \in DOMAIN to : longer[i] = t[to[i]]
  BY <1>1, <1>2
<1>5. \A i, j \in DOMAIN to : i < j => to[i] < to[j]
  <2>1. at \in [1 .. k -> 1 .. n]
    OBVIOUS
  <2>2. DOMAIN to = 1 .. k + 1 /\ to[k + 1] = n + 1 /\ \A i \in 1 .. k : to[i] = at[i]
    BY <1>2
  <2>3. \A i, j \in 1 .. k : i < j => at[i] < at[j]
    BY <1>1, <2>1
  <2> HIDE DEF to, k
  <2>4. \A i \in 1 .. k : to[i] \in 1 .. n
    BY <2>1, <2>2
  <2>5. \A i \in 1 .. k + 1 : i \in 1 .. k \/ i = k + 1
    BY <1>2
  <2> QED BY <1>2, <2>2, <2>3, <2>4, <2>5
<1>6. ShownIn(t, longer, n + 1)
  <2> HIDE DEF to
  <2> QED BY <1>2, <1>3, <1>4, <1>5 DEF ShownIn
<1> QED BY <1>6 DEF longer

(* A character comes back out of the keyboard's data register. *)
LEMMA CharacterReadBack ==
  ASSUME NEW char \in 0 .. 255
  PROVE  sign_extend(char, 256) % 256 = char
<1>1. sign_extend(char, 256) = IF 2 * char >= 256 THEN 65536 + char - 256 ELSE char
  BY SignExtendIsExtension
<1>2. (65536 + char - 256) % 256 = char /\ char % 256 = char
  BY SMT
<1> QED BY <1>1, <1>2

(* The ready bit is set when a character comes and cleared when it is read. *)
LEMMA ReadyBits ==
  ASSUME NEW w \in Word
  PROVE  Ready(SetReady(w)) /\ ~ Ready(ClearReady(w))
BY WordRange DEF Ready, Negative, SetReady, ClearReady, HighBit

-----------------------------------------------------------------------------
(* Steps on the way *)

(* At most one character typed is still to be read. *)
LEMMA PastRange ==
  ASSUME TypeOK, NEW holding, NEW reads, NEW tests, Echoing(holding, reads, tests)
  PROVE  /\ Len(typed) \in Nat /\ Past \in Nat /\ Past <= Len(typed)
         /\ Ready(bus.kbsr) => Past + 1 = Len(typed)
         /\ bus.output \in Seq(0 .. 255) /\ bus.kbsr \in Word /\ bus.kbdr \in Word
         /\ registers[0] \in Word
<1>1. typed \in Seq(Chars) /\ IsBus(bus)
  BY DEF TypeOK
<1>2. Len(typed) \in Nat
  BY <1>1
<1>3. bus.output \in Seq(0 .. 255) /\ bus.kbsr \in Word /\ bus.kbdr \in Word
  BY <1>1 DEF IsBus
<1>4. registers[0] \in Word
  BY DEF TypeOK, lc3_reg
<1> QED BY <1>2, <1>3, <1>4 DEF Echoing, Past

(* Nothing happens to a character. *)
LEMMA EchoKept ==
  ASSUME NEW holding, NEW reads, NEW tests, Echoing(holding, reads, tests),
         typed' = typed, bus'.output = bus.output, bus'.kbdr = bus.kbdr,
         Ready(bus'.kbsr) = Ready(bus.kbsr),
         Location' \in holding => Location \in holding /\ registers'[0] = registers[0],
         Location' \in reads => Ready(bus.kbsr),
         Location' \in tests => NZP_PSR(PSR') \in {1, 2} \/ Ready(bus.kbsr)
  PROVE  Echoing(holding, reads, tests)'
<1>1. Past' = Past
  BY DEF Past
<1> QED BY <1>1 DEF Echoing

(* The program reads a character from the keyboard. *)
LEMMA EchoRead ==
  ASSUME TypeOK, NEW holding, NEW reads, NEW tests, Echoing(holding, reads, tests),
         Ready(bus.kbsr), typed' = typed, bus' = after_read(bus, KBDR),
         registers'[0] = bus.kbdr,
         Location' \notin reads, Location' \notin tests
  PROVE  Echoing(holding, reads, tests)'
<1>1. /\ Len(typed) \in Nat /\ Past \in Nat /\ Past + 1 = Len(typed)
      /\ bus.output \in Seq(0 .. 255) /\ bus.kbsr \in Word
  BY PastRange
<1>2. bus'.output = bus.output /\ ~ Ready(bus'.kbsr)
  BY <1>1, ReadyBits DEF after_read, TypeOK, IsBus
<1>3. Past' = Len(typed)
  BY <1>2 DEF Past
<1>4. registers'[0] % 256 = typed[Past + 1] /\ ShownIn(typed, bus.output, Past)
  BY <1>1 DEF Echoing
<1>5. ShownIn(typed, Append(bus.output, registers'[0] % 256), Past + 1)
  BY <1>1, <1>4, ShownNext
<1>6. ShownIn(typed, bus.output, Past + 1)
  BY <1>1, <1>4, ShownLonger
<1> QED BY <1>1, <1>2, <1>3, <1>5, <1>6 DEF Echoing

(* What is written to the display's data register is put out. *)
LEMMA DisplayWritten ==
  ASSUME NEW v, TypeOK, bus' = bus_write(bus, DDR, v)
  PROVE  /\ bus'.mem = bus.mem /\ bus'.kbsr = bus.kbsr /\ bus'.kbdr = bus.kbdr
         /\ bus'.output = Append(bus.output, v % 256)
<1>1. bus' = [bus EXCEPT !.output = Append(bus.output, v % 256)]
  BY DEF bus_write, display_write_register, KBSR, KBDR, DSR, DDR
<1> QED BY <1>1 DEF TypeOK, IsBus

(* It sends the character to the display. *)
LEMMA EchoSent ==
  ASSUME TypeOK, NEW holding, NEW reads, NEW tests, Echoing(holding, reads, tests),
         Location \in holding, typed' = typed, bus' = bus_write(bus, DDR, registers[0]),
         Location' \notin holding, Location' \notin reads, Location' \notin tests
  PROVE  Echoing(holding, reads, tests)'
<1>1. /\ bus'.output = Append(bus.output, registers[0] % 256)
      /\ bus'.kbsr = bus.kbsr /\ bus'.kbdr = bus.kbdr
  BY DisplayWritten
<1>2. Past' = Past
  BY <1>1 DEF Past
<1>3. ShownIn(typed, Append(bus.output, registers[0] % 256), Past)
  BY DEF Echoing
<1>4. ShownIn(typed', bus'.output, Past')
  BY <1>1, <1>2, <1>3
<1> QED BY <1>1, <1>2, <1>4 DEF Echoing

(* The user types a character, which may replace one that was not read.    *)
LEMMA EchoTyped ==
  ASSUME TypeOK, NEW holding, NEW reads, NEW tests, Echoing(holding, reads, tests),
         NEW char \in 0 .. 255, typed' = Append(typed, char),
         bus' = keyboard_on_input(bus, char),
         Location' = Location, registers'[0] = registers[0]
  PROVE  Echoing(holding, reads, tests)'
<1>1. /\ Len(typed) \in Nat /\ Past \in Nat /\ Past <= Len(typed)
      /\ bus.output \in Seq(0 .. 255) /\ bus.kbsr \in Word
  BY PastRange
<1>2. /\ bus'.output = bus.output /\ bus'.kbdr = sign_extend(char, 256)
      /\ Ready(bus'.kbsr)
  BY <1>1, ReadyBits DEF keyboard_on_input, TypeOK, IsBus
<1>3. /\ Len(typed') = Len(typed) + 1 /\ typed'[Len(typed) + 1] = char
      /\ \A i \in 1 .. Len(typed) : typed'[i] = typed[i]
  BY DEF TypeOK
<1>4. Past' = Len(typed)
  BY <1>1, <1>2, <1>3 DEF Past
<1>5. ASSUME NEW out, ShownIn(typed, out, Past)
      PROVE  ShownIn(typed', out, Len(typed))
  <2>1. \A i \in 1 .. Past : typed'[i] = typed[i]
    BY <1>1, <1>3
  <2> HIDE <1>3
  <2> QED BY <1>1, <1>5, <2>1, ShownLonger
<1>6. bus'.kbdr % 256 = typed'[Len(typed')]
  BY <1>2, <1>3, CharacterReadBack
<1> QED BY <1>1, <1>2, <1>3, <1>4, <1>5, <1>6 DEF Echoing

-----------------------------------------------------------------------------
(* Instructions *)

(* One is executed, of the opcode it has. *)
LEMMA ExecutesOpcode ==
  ASSUME Execute
  PROVE  /\ phase = "execute" /\ phase' = "retire"
         /\ OPCODE(instruction) \in {1, 5, 9} => Add \/ And \/ Not
         /\ OPCODE(instruction) = 0 => Br
         /\ OPCODE(instruction) = 2 => Ld
         /\ OPCODE(instruction) = 10 => Ldi
         /\ OPCODE(instruction) = 3 => St
         /\ OPCODE(instruction) = 11 => Sti
         /\ OPCODE(instruction) = 8 => RtiInUserMode \/ Rti
<1>1. /\ Add => OPCODE(instruction) = 1
      /\ And => OPCODE(instruction) = 5
      /\ Not => OPCODE(instruction) = 9
      /\ Lea => OPCODE(instruction) = 14
      /\ Br => OPCODE(instruction) = 0
      /\ JmpRet => OPCODE(instruction) = 12
      /\ Jsr => OPCODE(instruction) = 4
      /\ Jsrr => OPCODE(instruction) = 4
      /\ Trap => OPCODE(instruction) = 15
      /\ Ld => OPCODE(instruction) = 2
      /\ Ldr => OPCODE(instruction) = 6
      /\ Ldi => OPCODE(instruction) = 10
      /\ St => OPCODE(instruction) = 3
      /\ Str => OPCODE(instruction) = 7
      /\ Sti => OPCODE(instruction) = 11
      /\ Rti => OPCODE(instruction) = 8
      /\ RtiInUserMode => OPCODE(instruction) = 8
      /\ IllegalOpcode => OPCODE(instruction) = 13
  BY Zenon DEF Executing, Add, And, Not, Lea, Br, JmpRet, Jsr, Jsrr, Trap, Ld, Ldr, Ldi,
               St, Str, Sti, RtiInUserMode, Rti, IllegalOpcode
<1>2. phase = "execute" /\ phase' = "retire"
  BY ExecuteRaisesOne
<1>3. OPCODE(instruction) \in {1, 5, 9} => Add \/ And \/ Not
  BY <1>1 DEF Execute
<1>4. OPCODE(instruction) = 0 => Br
  BY <1>1 DEF Execute
<1>5. OPCODE(instruction) = 2 => Ld
  BY <1>1 DEF Execute
<1>6. OPCODE(instruction) = 10 => Ldi
  BY <1>1 DEF Execute
<1>7. OPCODE(instruction) = 3 => St
  BY <1>1 DEF Execute
<1>8. OPCODE(instruction) = 11 => Sti
  BY <1>1 DEF Execute
<1>9. OPCODE(instruction) = 8 => RtiInUserMode \/ Rti
  BY <1>1 DEF Execute
<1> QED
  BY <1>2, <1>3, <1>4, <1>5, <1>6, <1>7, <1>8, <1>9, Zenon

(* A register is set, and the condition code with it. *)
Sets(r, value) ==
  /\ PC' = PC /\ registers'[r] = value
  /\ \A q \in {0, REG_R6, REG_SSP} \ {r} : registers'[q] = registers[q]
  /\ PSR' = WithConditionCode(PSR, value)

(* SetDR in the terms of Sets. *)
LEMMA SetDRSets ==
  ASSUME TypeOK, NEW value, SetDR(value)
  PROVE  Sets(DR, value)
<1>1. DR \in 0 .. 7 /\ registers \in [lc3_reg -> Word]
  BY OperandsAreWords DEF TypeOK
<1> HIDE DEF DR
<1> QED
  BY <1>1 DEF SetDR, Sets, PC, PSR, lc3_reg, REG_PC, REG_PSR, REG_R6, REG_SSP

(* add, and and not set a register and nothing else. *)
LEMMA ComputeStep ==
  ASSUME TypeOK, Execute, OPCODE(instruction) \in {1, 5, 9}
  PROVE  /\ \E value \in Word : Sets(DR, value)
         /\ bus' = bus /\ UNCHANGED lines
<1>1. Add \/ And \/ Not
  BY ExecutesOpcode
<1>2. \E value \in Word : SetDR(value)
  BY <1>1, OperandsAreWords, ArithmeticIsWord, BitAndIsWord, Zenon DEF Add, And, Not
<1>3. bus' = bus /\ UNCHANGED lines
  BY <1>1 DEF Add, And, Not
<1> QED BY <1>2, <1>3, SetDRSets

(* ld sets a register from a cell, ldi from where the cell points. *)
LEMMA LoadStep ==
  ASSUME TypeOK, Execute, compute_direct_address \notin {KBSR, KBDR, DSR, DDR}
  PROVE  LET x == Cell(bus.mem, compute_direct_address)
         IN  /\ OPCODE(instruction) = 2 =>
                  Sets(DR, x) /\ bus' = bus /\ UNCHANGED lines
             /\ OPCODE(instruction) = 10 =>
                  Sets(DR, bus_read(bus, x)) /\ bus' = after_read(bus, x) /\ UNCHANGED lines
<1>1. /\ bus_read(bus, compute_direct_address) = Cell(bus.mem, compute_direct_address)
      /\ after_read(bus, compute_direct_address) = bus
  BY DEF bus_read, after_read
<1>2. /\ OPCODE(instruction) = 2 => Ld
      /\ OPCODE(instruction) = 10 => Ldi
  BY ExecutesOpcode
<1> HIDE DEF compute_direct_address
<1> QED
  BY <1>1, <1>2, SetDRSets DEF Ld, Ldi, LoadFrom, compute_indirect_address

(* st stores to a cell, sti where the cell points. *)
LEMMA StoreStep ==
  ASSUME TypeOK, Execute, compute_direct_address \notin {KBSR, KBDR, DSR, DDR}
  PROVE  LET x == Cell(bus.mem, compute_direct_address)
         IN  /\ OPCODE(instruction) = 3 =>
                  /\ bus' = bus_write(bus, compute_direct_address, registers[DR])
                  /\ UNCHANGED <<registers, lines>>
             /\ OPCODE(instruction) = 11 =>
                  /\ bus' = bus_write(bus, x, registers[DR])
                  /\ UNCHANGED <<registers, lines>>
<1>1. /\ bus_read(bus, compute_direct_address) = Cell(bus.mem, compute_direct_address)
      /\ after_read(bus, compute_direct_address) = bus
  BY DEF bus_read, after_read
<1>2. /\ OPCODE(instruction) = 3 => St
      /\ OPCODE(instruction) = 11 => Sti
  BY ExecutesOpcode
<1> HIDE DEF compute_direct_address
<1> QED
  BY <1>1, <1>2 DEF St, Sti, StoreTo, compute_indirect_address

(* What the status registers and the keyboard hold. *)
LEMMA DeviceReads ==
  /\ bus_read(bus, KBSR) = bus.kbsr /\ after_read(bus, KBSR) = bus
  /\ bus_read(bus, KBDR) = bus.kbdr
  /\ bus_read(bus, DSR) = bus.dsr /\ after_read(bus, DSR) = bus
<1>1. bus_read(bus, KBSR) = bus.kbsr /\ bus_read(bus, KBDR) = bus.kbdr
  BY DEF bus_read, keyboard_read_register, KBSR, KBDR, DSR, DDR
<1>2. bus_read(bus, DSR) = bus.dsr
  BY DEF bus_read, display_read_register, KBSR, KBDR, DSR, DDR
<1>3. after_read(bus, KBSR) = bus /\ after_read(bus, DSR) = bus
  BY DEF after_read, KBSR, KBDR, DSR
<1> QED BY <1>1, <1>2, <1>3

(* A store to memory leaves the devices alone. *)
LEMMA MemoryStored ==
  ASSUME TypeOK, NEW a, a \notin {KBSR, KBDR, DSR, DDR}, NEW v, bus' = bus_write(bus, a, v)
  PROVE  /\ bus'.output = bus.output /\ bus'.kbdr = bus.kbdr /\ bus'.kbsr = bus.kbsr
         /\ \A x : x # a => Cell(bus'.mem, x) = Cell(bus.mem, x)
<1>1. bus' = [bus EXCEPT !.mem = SetCell(bus.mem, a, v)]
  BY DEF bus_write
<1>2. IsBus(bus)
  BY DEF TypeOK
<1>3. bus'.output = bus.output /\ bus'.kbdr = bus.kbdr /\ bus'.kbsr = bus.kbsr
  BY <1>1, <1>2 DEF IsBus
<1>4. \A x : x # a => Cell(bus'.mem, x) = Cell(bus.mem, x)
  BY <1>2, CellAfterWrite
<1> QED BY <1>3, <1>4

(* A branch is taken when it asks for the condition code. *)
LEMMA BranchStep ==
  ASSUME TypeOK, Execute, OPCODE(instruction) = 0
  PROVE  /\ PC' = IF BitAnd(NZP_INSTRU(instruction), NZP_PSR(PSR)) # 0
                  THEN compute_direct_address ELSE PC
         /\ \A q \in lc3_reg \ {REG_PC} : registers'[q] = registers[q]
         /\ bus' = bus /\ UNCHANGED lines
<1>1. Br /\ registers \in [lc3_reg -> Word]
  BY ExecutesOpcode DEF TypeOK
<1> HIDE DEF compute_direct_address
<1> QED
  BY <1>1 DEF Br, Jump, PC, lc3_reg, REG_PC

(* What the branches of the programs ask for. *)
LEMMA ConditionMet ==
  /\ \A nzp \in 1 .. 7 : BitAnd(7, nzp) # 0
  /\ \A nzp \in {1, 2} : BitAnd(3, nzp) # 0
<1>1. ASSUME NEW a \in Nat, NEW nzp \in Nat,
             BothHave(a, nzp, 1) # 0 \/ BothHave(a, nzp, 2) # 0 \/ BothHave(a, nzp, 4) # 0
      PROVE  BitAnd(a, nzp) # 0
  <2> DEFINE both(bit) == BothHave(a, nzp, bit)
             low == both(1) + both(2) + both(4) + both(8)
             mid == both(16) + both(32) + both(64) + both(128)
             high == both(256) + both(512) + both(1024) + both(2048)
             top == both(4096) + both(8192)
             last == both(16384) + both(32768)
  <2>1. \A bit \in Nat : both(bit) \in Nat
    BY DEF BothHave
  <2>2. BitAnd(a, nzp)
          = both(1) + both(2) + both(4) + both(8)
            + both(16) + both(32) + both(64) + both(128)
            + both(256) + both(512) + both(1024) + both(2048)
            + both(4096) + both(8192) + both(16384) + both(32768)
    BY SMT DEF BitAnd
  <2>3. both(1) # 0 \/ both(2) # 0 \/ both(4) # 0
    BY <1>1
  <2> HIDE DEF both
  <2>4. low \in Nat /\ low > 0
    BY <2>1, <2>3
  <2>5. mid \in Nat /\ high \in Nat /\ top \in Nat /\ last \in Nat
    BY <2>1
  <2>6. \A bit \in {1, 2, 4, 8, 16, 32, 64, 128, 256, 512, 1024, 2048,
                    4096, 8192, 16384, 32768} : both(bit) \in Int
    BY <2>1
  <2>7. BitAnd(a, nzp) = low + mid + high + top + last
    BY <2>2, <2>6
  <2> HIDE DEF low, mid, high, top, last
  <2> QED BY <2>4, <2>5, <2>7
<1>2. /\ \A nzp \in 1 .. 7 : BothHave(7, nzp, 1) # 0 \/ BothHave(7, nzp, 2) # 0
                               \/ BothHave(7, nzp, 4) # 0
      /\ \A nzp \in {1, 2} : BothHave(3, nzp, 1) # 0 \/ BothHave(3, nzp, 2) # 0
  BY SMT DEF BothHave
<1> QED BY <1>1, <1>2

(* What a condition code does to the status of a program. *)
LEMMA ConditionSet ==
  ASSUME NEW psr \in Word, NEW value \in Word
  PROVE  /\ psr \in 1024 .. 1031 => WithConditionCode(psr, value) \in 1025 .. 1031
         /\ ~ Ready(value) => NZP_PSR(WithConditionCode(psr, value)) \in {1, 2}
<1>1. ConditionCode(value) \in {1, 2, 4} /\ (~ Ready(value) => ConditionCode(value) \in {1, 2})
  BY WordRange DEF ConditionCode, Ready, Negative, HighBit
<1>2. psr % 8 \in 0 .. 7 /\ (psr - (psr % 8)) % 8 = 0
      /\ (psr \in 1024 .. 1031 => psr - (psr % 8) = 1024)
  BY WordRange, SMT
<1>3. PICK base \in Int : base = psr - (psr % 8)
  BY <1>2, WordRange
<1>4. \A c \in {1, 2, 4} : (base + c) % 8 = c
  BY <1>2, <1>3, SMT
<1>5. WithConditionCode(psr, value) = base + ConditionCode(value)
  BY <1>3 DEF WithConditionCode, NZP_PSR
<1> QED
  BY <1>1, <1>2, <1>3, <1>4, <1>5 DEF NZP_PSR

(* What the instructions that set a register have in common. *)
LEMMA SetsStep ==
  ASSUME TypeOK, Execute, OPCODE(instruction) \in {1, 2, 5, 9, 10},
         OPCODE(instruction) \in {2, 10} =>
           compute_direct_address \notin {KBSR, KBDR, DSR, DDR}
  PROVE  /\ PC' = PC /\ UNCHANGED lines
         /\ \A q \in {0, REG_R6, REG_SSP} \ {DR} : registers'[q] = registers[q]
         /\ PSR \in 1024 .. 1031 => PSR' \in 1025 .. 1031
         /\ bus'.mem = bus.mem
<1>1. IsBus(bus) /\ PSR \in Word /\ \A x : bus_read(bus, x) \in Word
  BY OperandsAreWords, ReadIsWord DEF TypeOK
<1>2. PICK at : at = compute_direct_address
  OBVIOUS
<1>3. PICK x : x = Cell(bus.mem, at)
  OBVIOUS
<1>4. Cell(bus.mem, at) \in Word
  BY <1>1, WordRange DEF IsBus, Cell
<1>5. /\ \E value \in Word : Sets(DR, value)
      /\ bus'.mem = bus.mem /\ UNCHANGED lines
  <2>1. CASE OPCODE(instruction) \in {1, 5, 9}
    BY <2>1, ComputeStep
  <2>2. CASE OPCODE(instruction) = 2
    <3>1. Sets(DR, Cell(bus.mem, compute_direct_address)) /\ bus' = bus /\ UNCHANGED lines
      BY <2>2, LoadStep
    <3> QED BY <1>2, <1>4, <3>1
  <2>3. CASE OPCODE(instruction) = 10
    <3>1. /\ Sets(DR, bus_read(bus, x)) /\ bus' = after_read(bus, x) /\ UNCHANGED lines
      BY <1>2, <1>3, <2>3, LoadStep
    <3> QED BY <1>1, <3>1, AfterReadIsBus
  <2> QED BY <2>1, <2>2, <2>3
<1>6. PICK value \in Word : Sets(DR, value)
  BY <1>5
<1>7. /\ PC' = PC /\ PSR' = WithConditionCode(PSR, value)
      /\ \A q \in {0, REG_R6, REG_SSP} \ {DR} : registers'[q] = registers[q]
  BY <1>6 DEF Sets
<1>8. PSR \in 1024 .. 1031 => PSR' \in 1025 .. 1031
  BY <1>1, <1>7, ConditionSet
<1> QED BY <1>5, <1>7, <1>8

(* The fields of the loads and stores of the programs. *)
LEMMA LoadStoreFields ==
  /\ OPCODE(40971) = 10 /\ REG1_INSTRU(40971) = 0 /\ SignedOffset9(40971) = 11
  /\ OPCODE(40970) = 10 /\ REG1_INSTRU(40970) = 0 /\ SignedOffset9(40970) = 10
  /\ OPCODE(41482) = 10 /\ REG1_INSTRU(41482) = 1 /\ SignedOffset9(41482) = 10
  /\ OPCODE(40965) = 10 /\ REG1_INSTRU(40965) = 0 /\ SignedOffset9(40965) = 5
  /\ OPCODE(40964) = 10 /\ REG1_INSTRU(40964) = 0 /\ SignedOffset9(40964) = 4
  /\ OPCODE(45065) = 11 /\ REG1_INSTRU(45065) = 0 /\ SignedOffset9(45065) = 9
  /\ OPCODE(45573) = 11 /\ REG1_INSTRU(45573) = 1 /\ SignedOffset9(45573) = 5
  /\ OPCODE(45574) = 11 /\ REG1_INSTRU(45574) = 1 /\ SignedOffset9(45574) = 6
  /\ OPCODE(45060) = 11 /\ REG1_INSTRU(45060) = 0 /\ SignedOffset9(45060) = 4
  /\ OPCODE(8714) = 2 /\ REG1_INSTRU(8714) = 1 /\ SignedOffset9(8714) = 10
  /\ OPCODE(8196) = 2 /\ REG1_INSTRU(8196) = 0 /\ SignedOffset9(8196) = 4
  /\ OPCODE(12297) = 3 /\ REG1_INSTRU(12297) = 0 /\ SignedOffset9(12297) = 9
<1>1. \A i \in Word : i % 512 < 256 => SignedOffset9(i) = i % 512
  BY WordRange, SMT DEF SignedOffset9, sign_extend
<1> QED
  BY <1>1, WordRange DEF OPCODE, REG1_INSTRU

(* The fields of the branches. *)
LEMMA BranchFields ==
  /\ OPCODE(2046) = 0 /\ NZP_INSTRU(2046) = 3 /\ SignedOffset9(2046) = 65534
  /\ OPCODE(3063) = 0 /\ NZP_INSTRU(3063) = 5 /\ SignedOffset9(3063) = 65527
  /\ OPCODE(4095) = 0 /\ NZP_INSTRU(4095) = 7 /\ SignedOffset9(4095) = 65535
  /\ OPCODE(1538) = 0 /\ NZP_INSTRU(1538) = 3 /\ SignedOffset9(1538) = 2
<1>1. /\ 2046 % 512 = 510 /\ 3063 % 512 = 503 /\ 4095 % 512 = 511 /\ 1538 % 512 = 2
  OBVIOUS
<1>2. \A v \in 0 .. 511 :
        sign_extend(v, 512) = IF 2 * v >= 512 THEN 65536 + v - 512 ELSE v
  BY SignExtendIsExtension
<1>3. /\ sign_extend(510, 512) = 65534 /\ sign_extend(503, 512) = 65527
      /\ sign_extend(511, 512) = 65535 /\ sign_extend(2, 512) = 2
  BY <1>2
<1> QED
  BY <1>1, <1>3 DEF OPCODE, NZP_INSTRU, SignedOffset9

(* The fields of the other words. *)
LEMMA OtherFields ==
  /\ OPCODE(4609) = 1 /\ REG1_INSTRU(4609) = 1
  /\ OPCODE(21088) = 5 /\ REG1_INSTRU(21088) = 1
  /\ OPCODE(36927) = 9 /\ REG1_INSTRU(36927) = 0
  /\ OPCODE(32768) = 8
BY DEF OPCODE, REG1_INSTRU

(* Where one that is executed at "at" finds its operand. *)
LEMMA DirectAddress ==
  ASSUME TypeOK, phase = "execute", NEW at \in Nat, Location = at, NEW off \in Nat,
         SignedOffset9(instruction) = off
  PROVE  PC = at + 1 /\ compute_direct_address = (at + 1 + off) % 65536
<1>1. PC \in Word
  BY OperandsAreWords
<1>2. PC = at + 1
  BY <1>1, WordRange DEF Location
<1> QED
  BY <1>2 DEF compute_direct_address, Plus

-----------------------------------------------------------------------------
(* The program that polls *)

(* What the program that polls finds in its memory. *)
LEMMA PollingCells ==
  ASSUME Holds(PollingBoot.image, 12288 .. 12305)
  PROVE  /\ Cell(bus.mem, 12288) = 40971 /\ Cell(bus.mem, 12289) = 2046
         /\ Cell(bus.mem, 12290) = 40970 /\ Cell(bus.mem, 12291) = 41482
         /\ Cell(bus.mem, 12292) = 2046 /\ Cell(bus.mem, 12293) = 45065
         /\ Cell(bus.mem, 12294) = 8714 /\ Cell(bus.mem, 12295) = 4609
         /\ Cell(bus.mem, 12296) = 3063 /\ Cell(bus.mem, 12297) = 21088
         /\ Cell(bus.mem, 12298) = 45573 /\ Cell(bus.mem, 12299) = 4095
         /\ Cell(bus.mem, 12300) = KBSR /\ Cell(bus.mem, 12301) = KBDR
         /\ Cell(bus.mem, 12302) = DSR /\ Cell(bus.mem, 12303) = DDR
         /\ Cell(bus.mem, 12304) = MCR_ADDR /\ Cell(bus.mem, 12305) \in Word
<1>1. \A a \in 12288 .. 12305 : Cell(bus.mem, a) = PollingBoot.image[a]
  BY DEF Holds
<1> QED
  BY <1>1, PollingWords

(* An instruction that sets a register leads to the next.                  *)
LEMMA NextLocation ==
  ASSUME TypeOK, phase = "execute", phase' = "retire", PC' = PC
  PROVE  Location' = Location + 1
<1>1. PC \in Word
  BY OperandsAreWords
<1> QED BY <1>1, WordRange DEF Location

(* An instruction that sets a register leads it to the next one. *)
LEMMA PollingSets ==
  ASSUME TypeOK, PollingIInv, phase = "execute", phase' = "retire", UNCHANGED lines,
         PC' = PC, PSR' \in 1025 .. 1031, bus'.mem = bus.mem,
         Location # 12299, Echoing(12291 .. 12293, {12290}, {12289})'
  PROVE  PollingIInv'
<1>1. Location \in 12288 .. 12299 /\ Location # 12299
      /\ ~ priv_mode_violation_line /\ ~ illegal_opcode_line
      /\ Holds(PollingBoot.image, 12288 .. 12305)
  BY DEF PollingIInv, Running
<1>2. Location' = Location + 1
  BY NextLocation
<1>5. Holds(PollingBoot.image, 12288 .. 12305)'
  BY <1>1 DEF Holds
<1>6. Location' \in 12288 .. 12299
  BY <1>1, <1>2
<1>7. Running(12288 .. 12299)'
  BY <1>1, <1>6 DEF Running, lines
<1> QED BY <1>5, <1>7 DEF PollingIInv

(* A branch or a store leads it on, too. *)
LEMMA PollingBranches ==
  ASSUME TypeOK, PollingIInv, phase = "execute", phase' = "retire", UNCHANGED lines,
         PSR' = PSR, PSR # 1024,
         \A a \in 12288 .. 12305 : Cell(bus'.mem, a) = Cell(bus.mem, a),
         Location' \in 12288 .. 12299, Echoing(12291 .. 12293, {12290}, {12289})'
  PROVE  PollingIInv'
<1>1. PSR \in 1024 .. 1031
      /\ ~ priv_mode_violation_line /\ ~ illegal_opcode_line
      /\ Holds(PollingBoot.image, 12288 .. 12305)
  BY DEF PollingIInv, Running
<1>2. Holds(PollingBoot.image, 12288 .. 12305)'
  BY <1>1 DEF Holds
<1>3. Running(12288 .. 12299)'
  BY <1>1 DEF Running, lines
<1> QED BY <1>1, <1>2, <1>3 DEF PollingIInv

(* The loop that waits for a character. *)
LEMMA PollingReads ==
  ASSUME TypeOK, PollingIInv, Execute, typed' = typed, Location \in 12288 .. 12290
  PROVE  PollingIInv'
<1>1. /\ phase = "execute" /\ phase' = "retire" /\ PSR \in 1024 .. 1031
      /\ instruction = Cell(bus.mem, Location)
      /\ Holds(PollingBoot.image, 12288 .. 12305)
      /\ Echoing(12291 .. 12293, {12290}, {12289})
      /\ Location # 12288 => PSR # 1024
  BY ExecutesOpcode DEF PollingIInv, Running
<1>2. /\ PSR \in Word /\ bus.kbsr \in Word /\ bus.kbdr \in Word
  BY OperandsAreWords DEF TypeOK, IsBus
<1>3. CASE Location = 12288
  <2>1. instruction = 40971
    BY <1>1, <1>3, PollingCells
  <2>2. OPCODE(instruction) = 10 /\ DR = 0 /\ compute_direct_address = 12300
    BY <1>1, <1>3, <2>1, LoadStoreFields, DirectAddress DEF DR
  <2>3. Cell(bus.mem, 12300) = KBSR
    BY <1>1, PollingCells
  <2>4. Sets(0, bus_read(bus, KBSR)) /\ bus' = after_read(bus, KBSR) /\ UNCHANGED lines
    BY <2>2, <2>3, LoadStep DEF KBSR, KBDR, DSR, DDR
  <2>5. Sets(0, bus.kbsr) /\ bus' = bus
    BY <2>4, DeviceReads
  <2>6. Location' = 12289
    BY <1>1, <1>3, <2>4, NextLocation DEF Sets
  <2>7. NZP_PSR(PSR') \in {1, 2} \/ Ready(bus.kbsr)
    BY <1>2, <2>5, ConditionSet DEF Sets
  <2>8. Echoing(12291 .. 12293, {12290}, {12289})'
    BY <1>1, <2>5, <2>6, <2>7, EchoKept
  <2>9. PC' = PC /\ PSR' \in 1025 .. 1031
    BY <1>1, <2>2, SetsStep DEF KBSR, KBDR, DSR, DDR
  <2> QED BY <1>1, <1>3, <2>4, <2>5, <2>8, <2>9, PollingSets
<1>4. CASE Location = 12289
  <2>1. instruction = 2046
    BY <1>1, <1>4, PollingCells
  <2>2. OPCODE(instruction) = 0 /\ NZP_INSTRU(instruction) = 3
        /\ PC = 12290 /\ compute_direct_address = 12288
    BY <1>1, <1>4, <2>1, BranchFields, DirectAddress
  <2>3. /\ PC' = IF BitAnd(3, NZP_PSR(PSR)) # 0 THEN 12288 ELSE 12290
        /\ \A q \in lc3_reg \ {REG_PC} : registers'[q] = registers[q]
        /\ bus' = bus /\ UNCHANGED lines
    BY <2>2, BranchStep
  <2>4. registers'[0] = registers[0] /\ PSR' = PSR
    BY <2>3 DEF PSR, lc3_reg, REG_PC, REG_PSR
  <2>5. Location' = PC'
    BY <1>1 DEF Location
  <2>6. NZP_PSR(PSR) \in {1, 2} \/ Ready(bus.kbsr)
    BY <1>1, <1>4 DEF Echoing
  <2>7. Location' = 12288 \/ (Location' = 12290 /\ Ready(bus.kbsr))
    BY <2>3, <2>5, <2>6, ConditionMet
  <2>8. Echoing(12291 .. 12293, {12290}, {12289})'
    BY <1>1, <2>3, <2>4, <2>7, EchoKept
  <2> QED BY <1>1, <1>4, <2>3, <2>4, <2>7, <2>8, PollingBranches
<1>5. CASE Location = 12290
  <2>1. instruction = 40970
    BY <1>1, <1>5, PollingCells
  <2>2. OPCODE(instruction) = 10 /\ DR = 0 /\ compute_direct_address = 12301
    BY <1>1, <1>5, <2>1, LoadStoreFields, DirectAddress DEF DR
  <2>3. Cell(bus.mem, 12301) = KBDR
    BY <1>1, PollingCells
  <2>4. Sets(0, bus_read(bus, KBDR)) /\ bus' = after_read(bus, KBDR) /\ UNCHANGED lines
    BY <2>2, <2>3, LoadStep DEF KBSR, KBDR, DSR, DDR
  <2>5. Sets(0, bus.kbdr) /\ bus'.mem = bus.mem
    BY <2>4, DeviceReads, AfterReadIsBus DEF TypeOK
  <2>6. Location' = 12291
    BY <1>1, <1>5, <2>4, NextLocation DEF Sets
  <2>7. Ready(bus.kbsr)
    BY <1>1, <1>5 DEF Echoing
  <2>8. Echoing(12291 .. 12293, {12290}, {12289})'
    BY <1>1, <2>4, <2>5, <2>6, <2>7, EchoRead DEF Sets
  <2>9. PC' = PC /\ PSR' \in 1025 .. 1031
    BY <1>1, <2>2, SetsStep DEF KBSR, KBDR, DSR, DDR
  <2> QED BY <1>1, <1>5, <2>4, <2>5, <2>8, <2>9, PollingSets
<1> QED BY <1>3, <1>4, <1>5

(* From the display's status to the character sent to it. *)
LEMMA PollingShows ==
  ASSUME TypeOK, PollingIInv, Execute, typed' = typed, Location \in 12291 .. 12293
  PROVE  PollingIInv'
<1>1. /\ phase = "execute" /\ phase' = "retire"
      /\ instruction = Cell(bus.mem, Location)
      /\ Holds(PollingBoot.image, 12288 .. 12305)
      /\ Echoing(12291 .. 12293, {12290}, {12289})
      /\ PSR \in 1024 .. 1031 /\ PSR # 1024
  BY ExecutesOpcode DEF PollingIInv, Running
<1>2. CASE Location = 12291
  <2>1. instruction = 41482
    BY <1>1, <1>2, PollingCells
  <2>2. OPCODE(instruction) = 10 /\ DR = 1 /\ compute_direct_address = 12302
    BY <1>1, <1>2, <2>1, LoadStoreFields, DirectAddress DEF DR
  <2>3. Cell(bus.mem, 12302) = DSR
    BY <1>1, PollingCells
  <2>4. bus' = after_read(bus, DSR)
    BY <2>2, <2>3, LoadStep DEF KBSR, KBDR, DSR, DDR
  <2>5. PC' = PC /\ PSR' \in 1025 .. 1031 /\ registers'[0] = registers[0] /\ UNCHANGED lines
    BY <1>1, <2>2, SetsStep DEF KBSR, KBDR, DSR, DDR
  <2>6. bus' = bus
    BY <2>4, DeviceReads
  <2>7. Location' = 12292
    BY <1>1, <1>2, <2>5, NextLocation
  <2>8. Echoing(12291 .. 12293, {12290}, {12289})'
    BY <1>1, <1>2, <2>5, <2>6, <2>7, EchoKept
  <2> QED BY <1>1, <1>2, <2>5, <2>6, <2>8, PollingSets
<1>3. CASE Location = 12292
  <2>1. instruction = 2046
    BY <1>1, <1>3, PollingCells
  <2>2. OPCODE(instruction) = 0 /\ PC = 12293 /\ compute_direct_address = 12291
    BY <1>1, <1>3, <2>1, BranchFields, DirectAddress
  <2>3. /\ PC' \in {12291, 12293}
        /\ \A q \in lc3_reg \ {REG_PC} : registers'[q] = registers[q]
        /\ bus' = bus /\ UNCHANGED lines
    BY <2>2, BranchStep
  <2>4. registers'[0] = registers[0] /\ PSR' = PSR
    BY <2>3 DEF PSR, lc3_reg, REG_PC, REG_PSR
  <2>5. Location' \in {12291, 12293}
    BY <1>1, <2>3 DEF Location
  <2>6. Echoing(12291 .. 12293, {12290}, {12289})'
    BY <1>1, <1>3, <2>3, <2>4, <2>5, EchoKept
  <2> QED BY <1>1, <2>3, <2>4, <2>5, <2>6, PollingBranches
<1>4. CASE Location = 12293
  <2>1. instruction = 45065
    BY <1>1, <1>4, PollingCells
  <2>2. OPCODE(instruction) = 11 /\ DR = 0 /\ PC = 12294 /\ compute_direct_address = 12303
    BY <1>1, <1>4, <2>1, LoadStoreFields, DirectAddress DEF DR
  <2>3. Cell(bus.mem, 12303) = DDR
    BY <1>1, PollingCells
  <2>4. bus' = bus_write(bus, DDR, registers[0]) /\ UNCHANGED <<registers, lines>>
    BY <2>2, <2>3, StoreStep DEF KBSR, KBDR, DSR, DDR
  <2>5. bus'.mem = bus.mem
    BY <2>4, DisplayWritten
  <2>6. PC' = PC /\ PSR' = PSR
    BY <2>4 DEF PC, PSR
  <2>7. Location' = 12294
    BY <1>1, <2>2, <2>6 DEF Location
  <2>8. Echoing(12291 .. 12293, {12290}, {12289})'
    BY <1>1, <1>4, <2>4, <2>7, EchoSent
  <2> QED BY <1>1, <2>4, <2>5, <2>6, <2>7, <2>8, PollingBranches
<1> QED BY <1>2, <1>3, <1>4

(* The rest, which compares the character with QuitKey.                    *)
LEMMA PollingRest ==
  ASSUME TypeOK, PollingIInv, Execute, typed' = typed, Location \in 12294 .. 12299
  PROVE  PollingIInv'
<1>1. /\ phase = "execute" /\ phase' = "retire"
      /\ instruction = Cell(bus.mem, Location)
      /\ Holds(PollingBoot.image, 12288 .. 12305)
      /\ Echoing(12291 .. 12293, {12290}, {12289})
      /\ PSR \in 1024 .. 1031 /\ PSR # 1024
  BY ExecutesOpcode DEF PollingIInv, Running
<1>2. CASE Location \in {12294, 12295, 12297}
  <2>1. /\ Location = 12294 => instruction = 8714
        /\ Location = 12295 => instruction = 4609
        /\ Location = 12297 => instruction = 21088
    BY <1>1, PollingCells
  <2>2. /\ Location = 12294 => OPCODE(instruction) = 2 /\ compute_direct_address = 12305
        /\ Location = 12295 => OPCODE(instruction) = 1
        /\ Location = 12297 => OPCODE(instruction) = 5
        /\ DR = 1
    BY <1>1, <1>2, <2>1, LoadStoreFields, OtherFields, DirectAddress DEF DR
  <2>3. PC' = PC /\ PSR' \in 1025 .. 1031 /\ UNCHANGED lines
    BY <1>1, <1>2, <2>2, SetsStep DEF KBSR, KBDR, DSR, DDR
  <2>4. bus' = bus
    BY <1>2, <2>2, ComputeStep, LoadStep DEF KBSR, KBDR, DSR, DDR
  <2>5. Location' = Location + 1
    BY <1>1, <2>3, NextLocation
  <2>6. Echoing(12291 .. 12293, {12290}, {12289})'
    BY <1>1, <1>2, <2>3, <2>4, <2>5, EchoKept
  <2> QED BY <1>1, <1>2, <2>3, <2>4, <2>6, PollingSets
<1>3. CASE Location \in {12296, 12299}
  <2>1. /\ Location = 12296 => instruction = 3063
        /\ Location = 12299 => instruction = 4095
    BY <1>1, PollingCells
  <2>2. /\ OPCODE(instruction) = 0
        /\ Location = 12296 => PC = 12297 /\ compute_direct_address = 12288
        /\ Location = 12299 =>
             PC = 12300 /\ NZP_INSTRU(instruction) = 7 /\ compute_direct_address = 12299
    BY <1>1, <1>3, <2>1, BranchFields, DirectAddress
  <2>3. NZP_PSR(PSR) \in 1 .. 7
    BY <1>1 DEF NZP_PSR
  <2>4. /\ Location = 12296 => PC' \in {12288, 12297}
        /\ Location = 12299 => PC' = 12299
        /\ \A q \in lc3_reg \ {REG_PC} : registers'[q] = registers[q]
        /\ bus' = bus /\ UNCHANGED lines
    BY <2>2, <2>3, BranchStep, ConditionMet
  <2>5. PSR' = PSR
    BY <2>4 DEF PSR, lc3_reg, REG_PC, REG_PSR
  <2>6. Location' \in {12288, 12297, 12299}
    BY <1>1, <1>3, <2>4 DEF Location
  <2>7. Echoing(12291 .. 12293, {12290}, {12289})'
    BY <1>1, <2>4, <2>6, EchoKept
  <2> QED BY <1>1, <2>4, <2>5, <2>6, <2>7, PollingBranches
<1>4. CASE Location = 12298
  <2>1. instruction = 45573
    BY <1>1, <1>4, PollingCells
  <2>2. OPCODE(instruction) = 11 /\ PC = 12299 /\ compute_direct_address = 12304
    BY <1>1, <1>4, <2>1, LoadStoreFields, DirectAddress
  <2>3. Cell(bus.mem, 12304) = MCR_ADDR
    BY <1>1, PollingCells
  <2>4. bus' = bus_write(bus, MCR_ADDR, registers[DR]) /\ UNCHANGED <<registers, lines>>
    BY <2>2, <2>3, StoreStep DEF KBSR, KBDR, DSR, DDR
  <2>5. /\ bus'.output = bus.output /\ bus'.kbdr = bus.kbdr /\ bus'.kbsr = bus.kbsr
        /\ \A a \in 12288 .. 12305 : Cell(bus'.mem, a) = Cell(bus.mem, a)
    <3>1. MCR_ADDR \notin {KBSR, KBDR, DSR, DDR} /\ MCR_ADDR \notin 12288 .. 12305
      BY DEF MCR_ADDR, KBSR, KBDR, DSR, DDR
    <3>2. PICK v : v = registers[DR]
      OBVIOUS
    <3>3. bus' = bus_write(bus, MCR_ADDR, v)
      BY <2>4, <3>2
    <3> QED BY <3>1, <3>3, MemoryStored
  <2>6. PC' = PC /\ PSR' = PSR
    BY <2>4 DEF PC, PSR
  <2>7. Location' = 12299
    BY <1>1, <2>2, <2>6 DEF Location
  <2>8. Echoing(12291 .. 12293, {12290}, {12289})'
    BY <1>1, <2>5, <2>7, EchoKept
  <2> QED BY <1>1, <2>4, <2>5, <2>6, <2>7, <2>8, PollingBranches
<1> QED BY <1>2, <1>3, <1>4

(* All instructions of the program that polls. *)
LEMMA PollingExecutes ==
  ASSUME TypeOK, PollingIInv, Execute, typed' = typed
  PROVE  PollingIInv'
<1>1. Location \in 12288 .. 12299
  BY DEF PollingIInv, Running
<1>2. \/ Location \in 12288 .. 12290 \/ Location \in 12291 .. 12293
      \/ Location \in 12294 .. 12299
  BY <1>1
<1> QED BY <1>2, PollingReads, PollingShows, PollingRest

-----------------------------------------------------------------------------
(* The program that is driven by interrupts *)

(* What the program that is interrupted finds in its memory. *)
LEMMA InterruptCells ==
  ASSUME Holds(InterruptBoot.image, InterruptCode)
  PROVE  /\ Cell(bus.mem, 12288) = 8714 /\ Cell(bus.mem, 12289) = 45574
         /\ Cell(bus.mem, 12290) = 40965 /\ Cell(bus.mem, 12291) = 1538
         /\ Cell(bus.mem, 12292) = 40964 /\ Cell(bus.mem, 12293) = 45060
         /\ Cell(bus.mem, 12294) = 32768 /\ Cell(bus.mem, 12295) = 4095
         /\ Cell(bus.mem, 12296) = KBSR /\ Cell(bus.mem, 12297) = KBDR
         /\ Cell(bus.mem, 12298) = DDR /\ Cell(bus.mem, 12299) = 16384
         /\ Cell(bus.mem, 61438) = 12295 /\ Cell(bus.mem, 61439) = 32770
         /\ Cell(bus.mem, 4096) = 12297
         /\ Cell(bus.mem, 4097) = 40965 /\ Cell(bus.mem, 4098) = 1538
         /\ Cell(bus.mem, 4099) = 40964 /\ Cell(bus.mem, 4100) = 45060
         /\ Cell(bus.mem, 4101) = 8196 /\ Cell(bus.mem, 4102) = 32768
         /\ Cell(bus.mem, 4103) = KBSR /\ Cell(bus.mem, 4104) = KBDR
         /\ Cell(bus.mem, 4105) = DDR
         /\ Cell(bus.mem, 4352) = 36927 /\ Cell(bus.mem, 4353) = 36927
         /\ Cell(bus.mem, 4354) = 32768
         /\ Cell(bus.mem, 384) = 4096 /\ Cell(bus.mem, 400) = 4352
<1>1. /\ \A a \in 12288 .. 12299 : a \in InterruptCode
      /\ \A a \in 4096 .. 4105 : a \in InterruptCode
      /\ \A a \in 4352 .. 4354 : a \in InterruptCode
      /\ \A a \in {61438, 61439, 384, 400} : a \in InterruptCode
  BY DEF InterruptCode, Frame, INTERRUPT_VECTOR_TABLE, KEYBOARD_INTERRUPT_VECTOR
<1>2. \A a \in InterruptCode : Cell(bus.mem, a) = InterruptBoot.image[a]
  BY DEF Holds
<1>3. /\ \A a \in 12288 .. 12299 : Cell(bus.mem, a) = InterruptBoot.image[a]
      /\ \A a \in 4096 .. 4105 : Cell(bus.mem, a) = InterruptBoot.image[a]
      /\ \A a \in 4352 .. 4354 : Cell(bus.mem, a) = InterruptBoot.image[a]
      /\ \A a \in {61438, 61439, 384, 400} : Cell(bus.mem, a) = InterruptBoot.image[a]
  BY <1>1, <1>2
<1> QED
  BY <1>3, InterruptWords

(* rti in supervisor mode raises no exception. *)
LEMMA SupervisorReturns ==
  ASSUME Execute, OPCODE(instruction) = 8, ~ UserMode(PSR)
  PROVE  Rti
<1>1. RtiInUserMode \/ Rti
  BY ExecutesOpcode
<1>2. ~ RtiInUserMode
  BY DEF RtiInUserMode
<1> QED BY <1>1, <1>2, Zenon

(* rti takes the PC and the status from the stack. *)
LEMMA ReturnStep ==
  ASSUME TypeOK, Execute, OPCODE(instruction) = 8, PSR \in 1024 .. 1031,
         NEW s \in {12286, 61438}, registers[REG_R6] = s
  PROVE  /\ PC' = Cell(bus.mem, s) /\ PSR' = Cell(bus.mem, s + 1)
         /\ bus' = bus /\ UNCHANGED lines
         /\ registers'[0] = registers[0] /\ registers'[REG_SSP] = registers[REG_SSP]
<1> DEFINE t == s + 1
           psr == bus_read(after_read(bus, s), Plus(s, 1))
           sp == IF UserMode(psr) THEN Plus(s, 2) ELSE registers[REG_USP]
<1>1. ~ UserMode(PSR)
  BY DEF UserMode, SUPERVISOR_BIT, HighBit
<1>2. Rti
  BY <1>1, SupervisorReturns
<1>3. Plus(s, 1) = t /\ s \notin {KBSR, KBDR, DSR, DDR} /\ t \notin {KBSR, KBDR, DSR, DDR}
  BY DEF Plus, KBSR, KBDR, DSR, DDR
<1>4. registers' = [registers EXCEPT ![REG_PC] = bus_read(bus, s), ![REG_PSR] = psr,
                                     ![REG_R6] = sp]
  BY <1>2 DEF Rti
<1>5. bus' = after_read(after_read(bus, s), Plus(s, 1)) /\ UNCHANGED lines
  BY <1>2 DEF Rti
<1> HIDE DEF t
<1>6. /\ after_read(bus, s) = bus /\ after_read(bus, t) = bus
      /\ bus_read(bus, s) = Cell(bus.mem, s) /\ bus_read(bus, t) = Cell(bus.mem, t)
  BY <1>3 DEF after_read, bus_read
<1>7. psr = Cell(bus.mem, t) /\ bus' = bus
  BY <1>3, <1>5, <1>6
<1>8. registers \in [lc3_reg -> Word]
  BY DEF TypeOK
<1> HIDE DEF psr, sp
<1>9. /\ PC' = Cell(bus.mem, s) /\ PSR' = Cell(bus.mem, t)
      /\ registers'[0] = registers[0] /\ registers'[REG_SSP] = registers[REG_SSP]
  BY <1>4, <1>6, <1>7, <1>8 DEF PC, PSR, lc3_reg, REG_PC, REG_PSR, REG_R6, REG_SSP
<1> QED
  BY <1>5, <1>7, <1>9 DEF t

(* Within the boot code, the user program or a handler. *)
LEMMA InterruptGoesOn ==
  ASSUME TypeOK, InterruptIInv, phase = "execute", phase' = "retire", UNCHANGED lines,
         NEW code \in {BootCode, UserCode, HandlerCode, OtherCode},
         Location \in code, Location' \in code, Location' # 12289,
         PSR' = PSR \/ (code # UserCode /\ PSR' \in 1024 .. 1031),
         registers'[REG_R6] = registers[REG_R6], registers'[REG_SSP] = registers[REG_SSP],
         \A a \in InterruptCode \cup {12286, 12287} : Cell(bus'.mem, a) = Cell(bus.mem, a),
         Echoing({12293, 4100}, {12292, 4099}, {12291, 4098})'
  PROVE  InterruptIInv'
<1>1. /\ \A a \in BootCode : a \notin UserCode \cup HandlerCode \cup OtherCode
      /\ \A a \in UserCode : a \notin HandlerCode \cup OtherCode
  BY DEF BootCode, UserCode, HandlerCode, OtherCode
<1>2. Location' \in BootCode \cup UserCode \cup HandlerCode \cup OtherCode
  OBVIOUS
<1>3. ~ priv_mode_violation_line /\ ~ illegal_opcode_line
  BY DEF InterruptIInv, Running
<1>4. Running(BootCode \cup UserCode \cup HandlerCode \cup OtherCode)'
  BY <1>2, <1>3 DEF Running, lines
<1>5. Holds(InterruptBoot.image, InterruptCode)'
  BY DEF Holds, InterruptIInv
<1>6. PSR' \in IF Location' \in UserCode THEN UserStatus ELSE 1024 .. 1031
  <2>1. PSR \in IF Location \in UserCode THEN UserStatus ELSE 1024 .. 1031
    BY DEF InterruptIInv
  <2>2. Location \in UserCode <=> Location' \in UserCode
    BY <1>1
  <2>3. code # UserCode => Location' \notin UserCode
    BY <1>1
  <2> QED BY <2>1, <2>2, <2>3
<1>7. registers'[REG_SSP] = SSP
  BY DEF InterruptIInv
<1>8. Location' \in BootCode => registers'[REG_R6] = Frame
  <2>1. Location' \in BootCode => Location \in BootCode
    BY <1>1
  <2> QED BY <2>1 DEF InterruptIInv
<1>9. SSP - 2 = 12286 /\ SSP - 1 = 12287
  BY DEF SSP
<1>10. Location' \in HandlerCode \cup OtherCode =>
         /\ registers'[REG_R6] = SSP - 2
         /\ Cell(bus'.mem, SSP - 2) = 12295
         /\ Cell(bus'.mem, SSP - 1) \in UserStatus
  <2>1. Location' \in HandlerCode \cup OtherCode => Location \in HandlerCode \cup OtherCode
    BY <1>1
  <2> QED BY <1>9, <2>1 DEF InterruptIInv
<1> QED BY <1>4, <1>5, <1>6, <1>7, <1>8, <1>10 DEF InterruptIInv

(* Back to the user program. *)
LEMMA InterruptReturns ==
  ASSUME TypeOK, InterruptIInv, Execute, typed' = typed, Location \in {12294, 4102, 4354}
  PROVE  InterruptIInv'
<1>1. /\ phase = "execute" /\ phase' = "retire"
      /\ instruction = Cell(bus.mem, Location)
      /\ Holds(InterruptBoot.image, InterruptCode)
      /\ Echoing({12293, 4100}, {12292, 4099}, {12291, 4098})
      /\ ~ priv_mode_violation_line /\ ~ illegal_opcode_line
      /\ registers[REG_SSP] = SSP
  BY ExecutesOpcode DEF InterruptIInv, Running
<1>2. instruction = 32768
  BY <1>1, InterruptCells
<1>3. OPCODE(instruction) = 8
  BY <1>2, OtherFields
<1>4. PSR \in 1024 .. 1031
  BY DEF InterruptIInv, UserCode
<1>5. PICK s \in {12286, 61438} :
        /\ registers[REG_R6] = s
        /\ Cell(bus.mem, s) = 12295 /\ Cell(bus.mem, s + 1) \in UserStatus
  <2>1. CASE Location = 12294
    <3>1. registers[REG_R6] = 61438
      BY <2>1 DEF InterruptIInv, BootCode, Frame
    <3>2. Cell(bus.mem, 61438) = 12295 /\ Cell(bus.mem, 61439) = 32770
      BY <1>1, InterruptCells
    <3> QED BY <3>1, <3>2 DEF UserStatus
  <2>2. CASE Location \in {4102, 4354}
    <3>1. Location \in HandlerCode \cup OtherCode
      BY <2>2 DEF HandlerCode, OtherCode
    <3>2. SSP - 2 = 12286 /\ SSP - 1 = 12287
      BY DEF SSP
    <3>3. /\ registers[REG_R6] = 12286 /\ Cell(bus.mem, 12286) = 12295
          /\ Cell(bus.mem, 12287) \in UserStatus
      BY <3>1, <3>2 DEF InterruptIInv
    <3> QED BY <3>3
  <2> QED BY <2>1, <2>2
<1>6. /\ PC' = 12295 /\ PSR' \in UserStatus
      /\ bus' = bus /\ UNCHANGED lines
      /\ registers'[0] = registers[0] /\ registers'[REG_SSP] = SSP
  BY <1>1, <1>3, <1>4, <1>5, ReturnStep
<1>7. Location' = 12295
  BY <1>1, <1>6 DEF Location
<1>8. Echoing({12293, 4100}, {12292, 4099}, {12291, 4098})'
  BY <1>1, <1>6, <1>7, EchoKept
<1>9. Location' \in UserCode /\ Location' \notin BootCode /\ Location' # 12289
      /\ Location' \notin HandlerCode \cup OtherCode
  BY <1>7 DEF UserCode, BootCode, HandlerCode, OtherCode
<1>10. Running(BootCode \cup UserCode \cup HandlerCode \cup OtherCode)'
  BY <1>1, <1>6, <1>9 DEF Running, lines
<1>11. Holds(InterruptBoot.image, InterruptCode)'
  BY <1>1, <1>6 DEF Holds
<1> QED BY <1>6, <1>8, <1>9, <1>10, <1>11 DEF InterruptIInv

(* What the program knows at one of its instructions. *)
LEMMA InterruptAt ==
  ASSUME TypeOK, InterruptIInv, Execute
  PROVE  /\ phase = "execute" /\ phase' = "retire"
         /\ instruction = Cell(bus.mem, Location)
         /\ Holds(InterruptBoot.image, InterruptCode)
         /\ Echoing({12293, 4100}, {12292, 4099}, {12291, 4098})
         /\ Location # 12295 => PSR \in 1024 .. 1031
         /\ PSR \in Word /\ bus.kbsr \in Word
BY ExecutesOpcode, OperandsAreWords
   DEF InterruptIInv, Running, UserCode, TypeOK, IsBus

(* Instructions of the boot code and the handlers that set a register.     *)
LEMMA InterruptSets ==
  ASSUME TypeOK, InterruptIInv, Execute,
         Location \in (12288 .. 12293) \cup (4096 .. 4101) \cup {4352, 4353},
         PC' = PC, UNCHANGED lines, PSR' = PSR \/ PSR' \in 1024 .. 1031,
         registers'[REG_R6] = registers[REG_R6], registers'[REG_SSP] = registers[REG_SSP],
         Location # 12288,
         \A a \in InterruptCode \cup {12286, 12287} : Cell(bus'.mem, a) = Cell(bus.mem, a),
         Echoing({12293, 4100}, {12292, 4099}, {12291, 4098})'
  PROVE  InterruptIInv'
<1>1. phase = "execute" /\ phase' = "retire"
  BY InterruptAt
<1>2. Location' = Location + 1
  BY <1>1, NextLocation
<1>3. PICK code \in {BootCode, HandlerCode, OtherCode} : Location \in code /\ Location' \in code
  BY <1>2 DEF BootCode, HandlerCode, OtherCode
<1>4. code # UserCode
  <2>1. 12288 \in BootCode /\ 4096 \in HandlerCode /\ 4352 \in OtherCode
        /\ 12288 \notin UserCode /\ 4096 \notin UserCode /\ 4352 \notin UserCode
    BY DEF BootCode, HandlerCode, OtherCode, UserCode
  <2> QED BY <2>1
<1>5. Location' # 12289
  BY <1>2
<1> QED BY <1>1, <1>3, <1>4, <1>5, InterruptGoesOn

(* The boot code enables the keyboard's interrupts. *)
LEMMA InterruptEnables ==
  ASSUME TypeOK, InterruptIInv, Execute, typed' = typed, Location = 12289
  PROVE  InterruptIInv'
<1>1. /\ phase = "execute" /\ phase' = "retire" /\ instruction = Cell(bus.mem, Location)
      /\ Holds(InterruptBoot.image, InterruptCode)
      /\ Echoing({12293, 4100}, {12292, 4099}, {12291, 4098})
      /\ bus.kbsr \in Word
  BY InterruptAt
<1>2. instruction = 45574
  BY <1>1, InterruptCells
<1>3. OPCODE(instruction) = 11 /\ DR = 1 /\ compute_direct_address = 12296 /\ PC = 12290
  BY <1>1, <1>2, LoadStoreFields, DirectAddress DEF DR
<1>4. Cell(bus.mem, 12296) = KBSR
  BY <1>1, InterruptCells
<1>5. registers[1] = 16384
  BY DEF InterruptIInv, KBSR_IE
<1>6. bus' = bus_write(bus, KBSR, 16384) /\ UNCHANGED <<registers, lines>>
  BY <1>3, <1>4, <1>5, StoreStep DEF KBSR, KBDR, DSR, DDR
<1>7. bus' = [bus EXCEPT !.kbsr = KeepReady(bus.kbsr, 16384)]
  BY <1>6 DEF bus_write, keyboard_write_register, KBSR, KBDR, DSR, DDR
<1>8. /\ bus'.mem = bus.mem /\ bus'.output = bus.output /\ bus'.kbdr = bus.kbdr
      /\ bus'.kbsr = KeepReady(bus.kbsr, 16384)
  BY <1>7 DEF TypeOK, IsBus
<1>9. Ready(KeepReady(bus.kbsr, 16384)) = Ready(bus.kbsr)
  <2>1. 16384 \in Word
    BY WordRange
  <2>2. Ready(SetReady(16384)) /\ ~ Ready(16384)
    BY <2>1, ReadyBits DEF Ready, Negative, HighBit
  <2>3. CASE Ready(bus.kbsr)
    <3>1. KeepReady(bus.kbsr, 16384) = SetReady(16384)
      BY <2>3 DEF KeepReady
    <3> QED BY <2>2, <2>3, <3>1 DEF Ready, Negative
  <2>4. CASE ~ Ready(bus.kbsr)
    <3>1. KeepReady(bus.kbsr, 16384) = 16384
      BY <2>4 DEF KeepReady
    <3> QED BY <2>2, <2>4, <3>1 DEF Ready, Negative
  <2> QED BY <2>3, <2>4
<1>10. PC' = PC /\ PSR' = PSR
  BY <1>6 DEF PC, PSR
<1>11. Location' = 12290
  BY <1>1, <1>3, <1>10 DEF Location
<1>12. Echoing({12293, 4100}, {12292, 4099}, {12291, 4098})'
  BY <1>1, <1>6, <1>8, <1>9, <1>11, EchoKept
<1> QED BY <1>6, <1>8, <1>10, <1>12, InterruptSets

(* The boot code, the handlers and the user program do little besides.     *)
LEMMA InterruptLoads ==
  ASSUME TypeOK, InterruptIInv, Execute, typed' = typed, Location \in {12288, 4101, 4352, 4353}
  PROVE  InterruptIInv'
<1>1. /\ phase = "execute" /\ phase' = "retire" /\ instruction = Cell(bus.mem, Location)
      /\ Holds(InterruptBoot.image, InterruptCode)
      /\ Echoing({12293, 4100}, {12292, 4099}, {12291, 4098})
      /\ PSR \in 1024 .. 1031
  BY InterruptAt
<1>2. /\ Location = 12288 => instruction = 8714
      /\ Location = 4101 => instruction = 8196
      /\ Location \in {4352, 4353} => instruction = 36927
  BY <1>1, InterruptCells
<1>3. /\ Location = 12288 =>
           OPCODE(instruction) = 2 /\ DR = 1 /\ compute_direct_address = 12299
      /\ Location = 4101 =>
           OPCODE(instruction) = 2 /\ DR = 0 /\ compute_direct_address = 4106
      /\ Location \in {4352, 4353} => OPCODE(instruction) = 9 /\ DR = 0
  BY <1>1, <1>2, LoadStoreFields, OtherFields, DirectAddress DEF DR
<1>4. /\ OPCODE(instruction) \in {1, 2, 5, 9, 10} /\ DR \in {0, 1}
      /\ OPCODE(instruction) \in {2, 10} =>
           compute_direct_address \notin {KBSR, KBDR, DSR, DDR}
  BY <1>3 DEF KBSR, KBDR, DSR, DDR
<1>5. /\ PC' = PC /\ PSR' \in 1025 .. 1031 /\ UNCHANGED lines
      /\ registers'[REG_R6] = registers[REG_R6] /\ registers'[REG_SSP] = registers[REG_SSP]
  BY <1>1, <1>4, SetsStep DEF REG_R6, REG_SSP
<1>6. bus' = bus
  BY <1>3, <1>4, ComputeStep, LoadStep
<1>7. Location' = Location + 1
  BY <1>1, <1>5, NextLocation
<1>8. Echoing({12293, 4100}, {12292, 4099}, {12291, 4098})'
  BY <1>1, <1>6, <1>7, EchoKept
<1>9. CASE Location # 12288
  BY <1>5, <1>6, <1>8, <1>9, InterruptSets
<1>10. CASE Location = 12288
  <2>1. Cell(bus.mem, 12299) = KBSR_IE
    BY <1>1, InterruptCells DEF KBSR_IE
  <2>2. Sets(1, KBSR_IE)
    BY <1>3, <1>10, <2>1, LoadStep DEF KBSR, KBDR, DSR, DDR
  <2>3. registers'[1] = KBSR_IE
    BY <2>2 DEF Sets
  <2>4. Location' = 12289
    BY <1>7, <1>10
  <2>5. /\ Location' \in BootCode /\ Location \in BootCode /\ Location' \notin UserCode
        /\ Location' \notin HandlerCode \cup OtherCode
    BY <1>10, <2>4 DEF BootCode, UserCode, HandlerCode, OtherCode
  <2>6. /\ Running(BootCode \cup UserCode \cup HandlerCode \cup OtherCode)'
        /\ Holds(InterruptBoot.image, InterruptCode)'
    BY <1>1, <1>5, <1>6, <2>5 DEF Running, Holds, InterruptIInv, lines
  <2> QED BY <1>5, <1>8, <2>3, <2>5, <2>6 DEF InterruptIInv
<1> QED BY <1>9, <1>10

(* The keyboard handler saves R0 in a cell of its own. *)
LEMMA InterruptSaves ==
  ASSUME TypeOK, InterruptIInv, Execute, typed' = typed, Location = 4096
  PROVE  InterruptIInv'
<1>1. /\ phase = "execute" /\ phase' = "retire" /\ instruction = Cell(bus.mem, Location)
      /\ Holds(InterruptBoot.image, InterruptCode)
      /\ Echoing({12293, 4100}, {12292, 4099}, {12291, 4098})
  BY InterruptAt
<1>2. instruction = 12297
  BY <1>1, InterruptCells
<1>3. OPCODE(instruction) = 3 /\ compute_direct_address = 4106 /\ PC = 4097
  BY <1>1, <1>2, LoadStoreFields, DirectAddress
<1>4. PICK v : v = registers[DR]
  OBVIOUS
<1>5. bus' = bus_write(bus, 4106, v) /\ UNCHANGED <<registers, lines>>
  BY <1>3, <1>4, StoreStep DEF KBSR, KBDR, DSR, DDR
<1>6. 4106 \notin {KBSR, KBDR, DSR, DDR} /\ 4106 \notin InterruptCode \cup {12286, 12287}
  BY DEF KBSR, KBDR, DSR, DDR, InterruptCode, Frame, INTERRUPT_VECTOR_TABLE,
         KEYBOARD_INTERRUPT_VECTOR
<1>7. /\ bus'.output = bus.output /\ bus'.kbdr = bus.kbdr /\ bus'.kbsr = bus.kbsr
      /\ \A a \in InterruptCode \cup {12286, 12287} : Cell(bus'.mem, a) = Cell(bus.mem, a)
  BY <1>5, <1>6, MemoryStored
<1>8. PC' = PC /\ PSR' = PSR
  BY <1>5 DEF PC, PSR
<1>9. Location' = 4097
  BY <1>1, <1>3, <1>8 DEF Location
<1>10. Echoing({12293, 4100}, {12292, 4099}, {12291, 4098})'
  BY <1>1, <1>7, <1>9, EchoKept
<1> QED BY <1>5, <1>7, <1>8, <1>10, InterruptSets

(* The user program loops. *)
LEMMA InterruptIdles ==
  ASSUME TypeOK, InterruptIInv, Execute, typed' = typed, Location = 12295
  PROVE  InterruptIInv'
<1>1. /\ phase = "execute" /\ phase' = "retire" /\ instruction = Cell(bus.mem, Location)
      /\ Holds(InterruptBoot.image, InterruptCode)
      /\ Echoing({12293, 4100}, {12292, 4099}, {12291, 4098})
  BY InterruptAt
<1>2. PSR \in 32769 .. 32775
  BY DEF InterruptIInv, UserCode, UserStatus
<1>3. instruction = 4095
  BY <1>1, InterruptCells
<1>4. OPCODE(instruction) = 0 /\ NZP_INSTRU(instruction) = 7 /\ compute_direct_address = 12295
  BY <1>1, <1>3, BranchFields, DirectAddress
<1>5. NZP_PSR(PSR) \in 1 .. 7
  BY <1>2 DEF NZP_PSR
<1>6. /\ PC' = 12295
      /\ \A q \in lc3_reg \ {REG_PC} : registers'[q] = registers[q]
      /\ bus' = bus /\ UNCHANGED lines
  BY <1>4, <1>5, BranchStep, ConditionMet
<1>7. PSR' = PSR /\ registers'[REG_R6] = registers[REG_R6]
      /\ registers'[REG_SSP] = registers[REG_SSP]
  BY <1>6 DEF PSR, lc3_reg, REG_PC, REG_PSR, REG_R6, REG_SSP
<1>8. Location' = 12295
  BY <1>1, <1>6 DEF Location
<1>9. Echoing({12293, 4100}, {12292, 4099}, {12291, 4098})'
  BY <1>1, <1>6, <1>8, EchoKept
<1>10. Location \in UserCode /\ Location' \in UserCode /\ Location' # 12289
  BY <1>8 DEF UserCode
<1> QED BY <1>1, <1>6, <1>7, <1>9, <1>10, InterruptGoesOn

(* The boot code and the keyboard handler echo in the same way.  First     *)
(* they look whether the keyboard is ready.                                *)
LEMMA InterruptTests ==
  ASSUME TypeOK, InterruptIInv, Execute, typed' = typed,
         Location \in {12290, 12291, 4097, 4098}
  PROVE  InterruptIInv'
<1>1. /\ phase = "execute" /\ phase' = "retire" /\ instruction = Cell(bus.mem, Location)
      /\ Holds(InterruptBoot.image, InterruptCode)
      /\ Echoing({12293, 4100}, {12292, 4099}, {12291, 4098})
      /\ PSR \in 1024 .. 1031 /\ PSR \in Word /\ bus.kbsr \in Word
  BY InterruptAt
<1>2. CASE Location \in {12290, 4097}
  <2>1. instruction = 40965
    BY <1>1, <1>2, InterruptCells
  <2>2. /\ OPCODE(instruction) = 10 /\ DR = 0
        /\ compute_direct_address = Location + 6
    BY <1>1, <1>2, <2>1, LoadStoreFields, DirectAddress DEF DR
  <2>3. Cell(bus.mem, compute_direct_address) = KBSR
    BY <1>1, <1>2, <2>2, InterruptCells
  <2>4. compute_direct_address \notin {KBSR, KBDR, DSR, DDR}
    BY <1>2, <2>2 DEF KBSR, KBDR, DSR, DDR
  <2>5. Sets(0, bus_read(bus, KBSR)) /\ bus' = after_read(bus, KBSR)
    BY <2>2, <2>3, <2>4, LoadStep
  <2>6. Sets(0, bus.kbsr) /\ bus' = bus
    BY <2>5, DeviceReads
  <2>7. NZP_PSR(PSR') \in {1, 2} \/ Ready(bus.kbsr)
    <3>1. PSR' = WithConditionCode(PSR, bus.kbsr)
      BY <2>6 DEF Sets
    <3>2. PSR \in Word /\ bus.kbsr \in Word
      BY <1>1
    <3>3. ~ Ready(bus.kbsr) => NZP_PSR(WithConditionCode(PSR, bus.kbsr)) \in {1, 2}
      BY <3>2, ConditionSet
    <3> QED BY <3>1, <3>3
  <2>8. /\ PC' = PC /\ PSR' \in 1025 .. 1031 /\ UNCHANGED lines
        /\ registers'[REG_R6] = registers[REG_R6] /\ registers'[REG_SSP] = registers[REG_SSP]
    BY <1>1, <2>2, <2>4, SetsStep DEF REG_R6, REG_SSP
  <2>9. Location' = Location + 1
    BY <1>1, <2>8, NextLocation
  <2>10. Echoing({12293, 4100}, {12292, 4099}, {12291, 4098})'
    BY <1>1, <1>2, <2>6, <2>7, <2>9, EchoKept
  <2> QED BY <1>2, <2>6, <2>8, <2>10, InterruptSets
<1>3. CASE Location \in {12291, 4098}
  <2>1. instruction = 1538
    BY <1>1, <1>3, InterruptCells
  <2>2. OPCODE(instruction) = 0 /\ NZP_INSTRU(instruction) = 3
        /\ PC = Location + 1 /\ compute_direct_address = Location + 3
    BY <1>1, <1>3, <2>1, BranchFields, DirectAddress
  <2>3. /\ PC' = IF BitAnd(3, NZP_PSR(PSR)) # 0 THEN Location + 3 ELSE Location + 1
        /\ \A q \in lc3_reg \ {REG_PC} : registers'[q] = registers[q]
        /\ bus' = bus /\ UNCHANGED lines
    BY <2>2, BranchStep
  <2>4. PSR' = PSR /\ registers'[0] = registers[0]
        /\ registers'[REG_R6] = registers[REG_R6] /\ registers'[REG_SSP] = registers[REG_SSP]
    BY <2>3 DEF PSR, lc3_reg, REG_PC, REG_PSR, REG_R6, REG_SSP
  <2>5. Location' = PC'
    BY <1>1 DEF Location
  <2>6. NZP_PSR(PSR) \in {1, 2} \/ Ready(bus.kbsr)
    BY <1>1, <1>3 DEF Echoing
  <2>7. Location' = Location + 3 \/ (Location' = Location + 1 /\ Ready(bus.kbsr))
    BY <2>3, <2>5, <2>6, ConditionMet
  <2>8. Echoing({12293, 4100}, {12292, 4099}, {12291, 4098})'
    BY <1>1, <1>3, <2>3, <2>4, <2>7, EchoKept
  <2>9. PICK code \in {BootCode, HandlerCode} : Location \in code /\ Location' \in code
    BY <1>3, <2>7 DEF BootCode, HandlerCode
  <2>10. Location' # 12289
    BY <1>3, <2>7
  <2> QED BY <1>1, <2>3, <2>4, <2>8, <2>9, <2>10, InterruptGoesOn
<1> QED BY <1>2, <1>3

(* Then they read the character and send it to the display. *)
LEMMA InterruptEchoes ==
  ASSUME TypeOK, InterruptIInv, Execute, typed' = typed,
         Location \in {12292, 12293, 4099, 4100}
  PROVE  InterruptIInv'
<1>1. /\ phase = "execute" /\ phase' = "retire" /\ instruction = Cell(bus.mem, Location)
      /\ Holds(InterruptBoot.image, InterruptCode)
      /\ Echoing({12293, 4100}, {12292, 4099}, {12291, 4098})
      /\ PSR \in 1024 .. 1031
  BY InterruptAt
<1>2. CASE Location \in {12292, 4099}
  <2>1. instruction = 40964
    BY <1>1, <1>2, InterruptCells
  <2>2. OPCODE(instruction) = 10 /\ DR = 0 /\ compute_direct_address = Location + 5
    BY <1>1, <1>2, <2>1, LoadStoreFields, DirectAddress DEF DR
  <2>3. Cell(bus.mem, compute_direct_address) = KBDR
    BY <1>1, <1>2, <2>2, InterruptCells
  <2>4. compute_direct_address \notin {KBSR, KBDR, DSR, DDR}
    BY <1>2, <2>2 DEF KBSR, KBDR, DSR, DDR
  <2>5. Sets(0, bus_read(bus, KBDR)) /\ bus' = after_read(bus, KBDR)
    BY <2>2, <2>3, <2>4, LoadStep
  <2>6. registers'[0] = bus.kbdr /\ bus'.mem = bus.mem
    BY <2>5, DeviceReads, AfterReadIsBus DEF Sets, TypeOK
  <2>7. /\ PC' = PC /\ PSR' \in 1025 .. 1031 /\ UNCHANGED lines
        /\ registers'[REG_R6] = registers[REG_R6] /\ registers'[REG_SSP] = registers[REG_SSP]
    BY <1>1, <2>2, <2>4, SetsStep DEF REG_R6, REG_SSP
  <2>8. Location' = Location + 1 /\ Ready(bus.kbsr)
    BY <1>1, <1>2, <2>7, NextLocation DEF Echoing
  <2>9. Echoing({12293, 4100}, {12292, 4099}, {12291, 4098})'
    BY <1>1, <1>2, <2>5, <2>6, <2>8, EchoRead
  <2> QED BY <1>2, <2>6, <2>7, <2>9, InterruptSets
<1>3. CASE Location \in {12293, 4100}
  <2>1. instruction = 45060
    BY <1>1, <1>3, InterruptCells
  <2>2. OPCODE(instruction) = 11 /\ DR = 0 /\ PC = Location + 1
        /\ compute_direct_address = Location + 5
    BY <1>1, <1>3, <2>1, LoadStoreFields, DirectAddress DEF DR
  <2>3. Cell(bus.mem, compute_direct_address) = DDR
    BY <1>1, <1>3, <2>2, InterruptCells
  <2>4. compute_direct_address \notin {KBSR, KBDR, DSR, DDR}
    BY <1>3, <2>2 DEF KBSR, KBDR, DSR, DDR
  <2>5. bus' = bus_write(bus, DDR, registers[0]) /\ UNCHANGED <<registers, lines>>
    BY <2>2, <2>3, <2>4, StoreStep
  <2>6. bus'.mem = bus.mem
    BY <2>5, DisplayWritten
  <2>7. PC' = PC /\ PSR' = PSR
    BY <2>5 DEF PC, PSR
  <2>8. Location' = Location + 1
    BY <1>1, <2>2, <2>7 DEF Location
  <2>9. Echoing({12293, 4100}, {12292, 4099}, {12291, 4098})'
    BY <1>1, <1>3, <2>5, <2>8, EchoSent
  <2> QED BY <1>3, <2>5, <2>6, <2>7, <2>9, InterruptSets
<1> QED BY <1>2, <1>3

(* All instructions of the program that is interrupted. *)
LEMMA InterruptExecutes ==
  ASSUME TypeOK, InterruptIInv, Execute, typed' = typed
  PROVE  InterruptIInv'
<1>1. Location \in (12288 .. 12294) \cup {12295} \cup (4096 .. 4102) \cup (4352 .. 4354)
  BY DEF InterruptIInv, Running, BootCode, UserCode, HandlerCode, OtherCode
<1>2. \/ Location = 12289 \/ Location \in {12288, 4101, 4352, 4353}
      \/ Location \in {12290, 12291, 4097, 4098} \/ Location \in {12292, 12293, 4099, 4100}
      \/ Location \in {12294, 4102, 4354} \/ Location = 12295 \/ Location = 4096
  BY <1>1
<1> QED
  BY <1>2, InterruptEnables, InterruptLoads, InterruptTests, InterruptEchoes,
     InterruptReturns, InterruptIdles, InterruptSaves

-----------------------------------------------------------------------------
(* Between the instructions of the programs *)

(* The program stays where it is: at most a character is typed.            *)
LEMMA EchoStays ==
  ASSUME EchoIInv, UNCHANGED lines, bus'.mem = bus.mem, PSR' = PSR, Location' = Location,
         \A r \in {1, REG_R6, REG_SSP} : registers'[r] = registers[r],
         phase' = "execute" => instruction' = Cell(bus.mem, Location),
         \A holding, reads, tests :
           Echoing(holding, reads, tests) => Echoing(holding, reads, tests)'
  PROVE  EchoIInv'
<1>1. ASSUME NEW image, NEW code PROVE Holds(image, code)' <=> Holds(image, code)
  BY DEF Holds
<1>2. ASSUME NEW points PROVE Running(points) => Running(points)'
  BY DEF Running, lines
<1>3. CASE PollingIInv
  <2>1. PollingIInv'
    BY <1>1, <1>2, <1>3 DEF PollingIInv
  <2> QED BY <2>1 DEF EchoIInv
<1>4. CASE InterruptIInv
  <2>1. \A a : Cell(bus'.mem, a) = Cell(bus.mem, a)
    OBVIOUS
  <2>2. InterruptIInv'
    BY <1>1, <1>2, <1>4, <2>1 DEF InterruptIInv
  <2> QED BY <2>2 DEF EchoIInv
<1> QED BY <1>3, <1>4 DEF EchoIInv

(* The programs are where they are loaded, away from the devices. *)
LEMMA EchoLocation ==
  ASSUME EchoIInv
  PROVE  /\ Location \in (12288 .. 12299) \cup (4096 .. 4102) \cup (4352 .. 4354)
         /\ phase = "execute" => instruction = Cell(bus.mem, Location)
         /\ ~ priv_mode_violation_line /\ ~ illegal_opcode_line
<1>1. CASE PollingIInv
  BY <1>1 DEF PollingIInv, Running
<1>2. CASE InterruptIInv
  BY <1>2 DEF InterruptIInv, Running, BootCode, UserCode, HandlerCode, OtherCode
<1> QED BY <1>1, <1>2 DEF EchoIInv

(* When all but the phase stays, too. *)
LEMMA EchoWaits ==
  ASSUME EchoIInv, UNCHANGED <<registers, instruction, lines, bus, typed>>,
         phase' = phase \/ (phase # "execute" /\ phase' # "execute")
  PROVE  EchoIInv'
<1>1. PSR' = PSR /\ Location' = Location
  BY DEF PSR, PC, Location
<1>2. \A holding, reads, tests :
        Echoing(holding, reads, tests) => Echoing(holding, reads, tests)'
  <2>1. Past' = Past
    BY DEF Past
  <2> QED BY <1>1, <2>1 DEF Echoing
<1>3. phase' = "execute" => instruction' = Cell(bus.mem, Location)
  BY EchoLocation
<1> QED BY <1>1, <1>2, <1>3, EchoStays

(* The next instruction is fetched. *)
LEMMA EchoFetched ==
  ASSUME TypeOK, EchoIInv, Fetch, typed' = typed
  PROVE  EchoIInv'
<1>1. PC = Location
  BY DEF Fetch, Location
<1>2. PC \in (12288 .. 12299) \cup (4096 .. 4102) \cup (4352 .. 4354)
  BY <1>1, EchoLocation
<1>3. PC \notin {KBSR, KBDR, DSR, DDR}
  BY <1>2 DEF KBSR, KBDR, DSR, DDR
<1>4. bus' = bus /\ instruction' = Cell(bus.mem, Location)
  BY <1>1, <1>3 DEF Fetch, bus_read, after_read
<1>5. /\ PC' = Plus(PC, 1) /\ PSR' = PSR /\ phase' = "execute" /\ UNCHANGED lines
      /\ \A r \in {0, 1, REG_R6, REG_SSP} : registers'[r] = registers[r]
  BY DEF Fetch, TypeOK, lc3_reg, PC, PSR, REG_PC, REG_PSR, REG_R6, REG_SSP
<1>6. Location' = Location
  <2>1. PC' = PC + 1
    BY <1>2, <1>5 DEF Plus
  <2> QED BY <1>1, <1>2, <1>5, <2>1 DEF Location
<1>7. \A holding, reads, tests :
        Echoing(holding, reads, tests) => Echoing(holding, reads, tests)'
  <2>1. Past' = Past
    BY <1>4 DEF Past
  <2> QED BY <1>4, <1>5, <1>6, <2>1 DEF Echoing
<1> QED BY <1>4, <1>5, <1>6, <1>7, EchoStays

(* A character is typed. *)
LEMMA EchoGrows ==
  ASSUME TypeOK, EchoIInv, NEW char \in Chars, typed' = Append(typed, char),
         simulator_update_devices_input(char), UNCHANGED <<registers, instruction, lines>>,
         phase # "execute", phase' # "execute"
  PROVE  EchoIInv'
<1>1. char \in 0 .. 255
  BY SimulatorAssumption
<1>2. bus' = keyboard_on_input(bus, char)
  BY DEF simulator_update_devices_input
<1>3. bus'.mem = bus.mem
  BY <1>2 DEF keyboard_on_input, TypeOK, IsBus
<1>4. PSR' = PSR /\ Location' = Location
  BY DEF PSR, PC, Location
<1>5. \A holding, reads, tests :
        Echoing(holding, reads, tests) => Echoing(holding, reads, tests)'
  BY <1>1, <1>2, <1>4, EchoTyped
<1> QED BY <1>3, <1>4, <1>5, EchoStays

(* Interrupts have priority 4, so that only the user program is.           *)
LEMMA EchoInterrupted ==
  ASSUME TypeOK, EchoSetup, EchoIInv, NEW vec \in Vec, TakeInterrupt(vec)
  PROVE  EchoIInv'
<1>1. vec \in {128, 144} /\ pending[vec] = 4
  <2>1. \A alert \in OtherAlerts : alert = <<144, 4>>
    BY DEF EchoSetup, PeerDevice
  <2>2. Vec \subseteq {128, 144} /\ Priority \subseteq {4}
    BY <2>1 DEF Vec, Priority, KEYBOARD_INTERRUPT_VECTOR, KEYBOARD_INTERRUPT_PRIORITY
  <2>3. vec \in DOMAIN pending
    BY DEF TakeInterrupt, Queue!IsTop
  <2> QED BY <2>2, <2>3 DEF TypeOK, Queue!TypeOK
<1>2. 4 > PSR_PRIORITY(PSR)
  BY <1>1 DEF TakeInterrupt, Accepts
<1>3. PSR \notin 1024 .. 1031
  <2>1. \A n \in 1024 .. 1031 : (n \div 256) % 8 = 4
    BY SMT
  <2> QED BY <1>2, <2>1 DEF PSR_PRIORITY
<1>4. InterruptIInv /\ PSR \in 32769 .. 32775
  BY <1>3 DEF EchoIInv, PollingIInv, InterruptIInv, UserStatus
<1>5. UserMode(PSR)
  <2>1. \A n \in 32769 .. 32775 : n \div 32768 = 1
    BY SMT
  <2> QED BY <1>4, <2>1 DEF UserMode, SUPERVISOR_BIT, HighBit
<1>6. /\ PC = 12295 /\ registers[REG_SSP] = 12288
      /\ Holds(InterruptBoot.image, InterruptCode)
      /\ Echoing({12293, 4100}, {12292, 4099}, {12291, 4098})
      /\ ~ priv_mode_violation_line /\ ~ illegal_opcode_line
  BY <1>3, <1>4 DEF InterruptIInv, Running, UserCode, TakeInterrupt, Location, SSP
<1>7. EnterHandler(vec, 4) /\ phase' = "fetch" /\ typed' = typed /\ UNCHANGED lines
  BY <1>1 DEF TakeInterrupt
<1>8. OnSupervisorStack[REG_R6] = 12288 /\ OnSupervisorStack[0] = registers[0]
      /\ OnSupervisorStack[REG_SSP] = 12288 /\ OnSupervisorStack \in [lc3_reg -> Word]
  BY <1>5, <1>6 DEF OnSupervisorStack, TypeOK, lc3_reg, REG_R6, REG_USP, REG_SSP
<1>9. Minus(12288, 2) = 12286 /\ Plus(12286, 1) = 12287
  BY DEF Minus, Plus
<1> DEFINE first == bus_write(bus, 12287, PSR)
<1>10. PICK b : b = bus_write(first, 12286, 12295)
  OBVIOUS
<1>11. /\ bus' = b
       /\ registers' = [OnSupervisorStack EXCEPT
                          ![REG_R6] = 12286, ![REG_PSR] = INIT_PSR_MASK_SUPERVISOR + 256 * 4,
                          ![REG_PC] = bus_read(b, INTERRUPT_VECTOR_TABLE + vec)]
  <2> DEFINE sp == Minus(OnSupervisorStack[REG_R6], 2)
  <2>1. sp = 12286 /\ Plus(sp, 1) = 12287
    BY <1>8, <1>9
  <2>2. bus' = bus_write(bus_write(bus, Plus(sp, 1), PSR), sp, PC)
    BY <1>7 DEF EnterHandler
  <2>3. registers' = [OnSupervisorStack EXCEPT
                        ![REG_R6] = sp, ![REG_PSR] = INIT_PSR_MASK_SUPERVISOR + 256 * 4,
                        ![REG_PC] = bus_read(bus', INTERRUPT_VECTOR_TABLE + vec)]
    BY <1>7 DEF EnterHandler
  <2> HIDE DEF sp
  <2>4. bus' = b
    BY <1>6, <1>10, <2>1, <2>2
  <2>5. bus_read(bus', INTERRUPT_VECTOR_TABLE + vec) = bus_read(b, INTERRUPT_VECTOR_TABLE + vec)
    BY <2>4 DEF bus_read, keyboard_read_register, display_read_register, Cell
  <2> QED BY <2>1, <2>3, <2>4, <2>5
<1>12. /\ b.output = bus.output /\ b.kbsr = bus.kbsr /\ b.kbdr = bus.kbdr
       /\ \A a : Cell(b.mem, a) = IF a = 12286 THEN 12295
                                  ELSE IF a = 12287 THEN PSR ELSE Cell(bus.mem, a)
  <2>1. IsBus(bus) /\ PSR \in Word /\ 12287 \in Word
    <3>1. IsBus(bus)
      BY DEF TypeOK
    <3>2. PSR \in Word
      BY OperandsAreWords
    <3> QED BY <3>1, <3>2, WordRange
  <2>2. IsBus(first)
    BY <2>1, WriteIsBus
  <2>3. 12286 \notin {KBSR, KBDR, DSR, DDR} /\ 12287 \notin {KBSR, KBDR, DSR, DDR}
    BY DEF KBSR, KBDR, DSR, DDR
  <2>4. \A a : Cell(first.mem, a) = IF a = 12287 THEN PSR ELSE Cell(bus.mem, a)
    BY <2>1, <2>3, CellAfterWrite
  <2>5. \A a : Cell(b.mem, a) = IF a = 12286 THEN 12295 ELSE Cell(first.mem, a)
    BY <1>10, <2>2, <2>3, CellAfterWrite
  <2>6. /\ first = [bus EXCEPT !.mem = SetCell(bus.mem, 12287, PSR)]
        /\ b = [first EXCEPT !.mem = SetCell(first.mem, 12286, 12295)]
    BY <1>10, <2>3 DEF bus_write
  <2>7. b.output = bus.output /\ b.kbsr = bus.kbsr /\ b.kbdr = bus.kbdr
    BY <2>1, <2>2, <2>6 DEF IsBus
  <2> HIDE DEF first
  <2> QED BY <2>4, <2>5, <2>7
<1> HIDE DEF first
<1>13. /\ PC' = bus_read(b, INTERRUPT_VECTOR_TABLE + vec) /\ PSR' = 1026
       /\ registers'[REG_R6] = 12286 /\ registers'[REG_SSP] = 12288
       /\ registers'[0] = registers[0]
  BY <1>8, <1>11 DEF PC, PSR, INIT_PSR_MASK_SUPERVISOR, lc3_reg,
                     REG_PC, REG_PSR, REG_R6, REG_SSP
<1>14. PC' \in {4096, 4352}
  <2>1. /\ InterruptBoot.image[384] = 4096 /\ InterruptBoot.image[400] = 4352
    BY InterruptWords
  <2>2. 384 \in InterruptCode /\ 400 \in InterruptCode
    BY DEF InterruptCode, INTERRUPT_VECTOR_TABLE, KEYBOARD_INTERRUPT_VECTOR
  <2>3. Cell(bus.mem, 384) = 4096 /\ Cell(bus.mem, 400) = 4352
    BY <1>6, <2>1, <2>2 DEF Holds
  <2>4. INTERRUPT_VECTOR_TABLE + vec \in {384, 400}
    BY <1>1 DEF INTERRUPT_VECTOR_TABLE
  <2>5. bus_read(b, INTERRUPT_VECTOR_TABLE + vec) = Cell(b.mem, INTERRUPT_VECTOR_TABLE + vec)
    BY <2>4 DEF bus_read, KBSR, KBDR, DSR, DDR
  <2> QED BY <1>12, <1>13, <2>3, <2>4, <2>5
<1>15. /\ Location' \in {4096, 4352}
  BY <1>7, <1>14 DEF Location
<1>16. Echoing({12293, 4100}, {12292, 4099}, {12291, 4098})'
  BY <1>6, <1>7, <1>11, <1>12, <1>15, EchoKept
<1>17. /\ Location' \in HandlerCode \cup OtherCode /\ Location' # 12289
       /\ Location' \notin UserCode /\ Location' \notin BootCode
  BY <1>15 DEF HandlerCode, OtherCode, UserCode, BootCode
<1>18. Running(BootCode \cup UserCode \cup HandlerCode \cup OtherCode)'
  BY <1>6, <1>7, <1>17 DEF Running, lines
<1>19. Holds(InterruptBoot.image, InterruptCode)'
  <2>1. \A a \in InterruptCode : a # 12286 /\ a # 12287
    BY DEF InterruptCode, Frame, INTERRUPT_VECTOR_TABLE, KEYBOARD_INTERRUPT_VECTOR
  <2> QED BY <1>6, <1>11, <1>12, <2>1 DEF Holds
<1>20. /\ registers'[REG_SSP] = SSP /\ registers'[REG_R6] = SSP - 2
       /\ Cell(bus'.mem, SSP - 2) = 12295 /\ Cell(bus'.mem, SSP - 1) \in UserStatus
  BY <1>4, <1>11, <1>12, <1>13 DEF SSP, UserStatus
<1>21. PSR' \in IF Location' \in UserCode THEN UserStatus ELSE 1024 .. 1031
  BY <1>13, <1>17
<1>22. InterruptIInv'
  BY <1>16, <1>17, <1>18, <1>19, <1>20, <1>21 DEF InterruptIInv
<1> QED BY <1>22 DEF EchoIInv

(* All steps of the machine. *)
LEMMA EchoNext ==
  ASSUME TypeOK, EchoSetup, EchoIInv, Next
  PROVE  EchoIInv'
<1>1. CASE Execute /\ typed' = typed
  BY <1>1, PollingExecutes, InterruptExecutes DEF EchoIInv
<1>2. CASE Fetch /\ typed' = typed
  BY <1>2, EchoFetched
<1>3. CASE RunCpu /\ (HaltBeforeFetch \/ HaltAfterExecute \/ NoException)
  BY <1>3, EchoWaits
     DEF RunCpu, HaltBeforeFetch, HaltAfterExecute, NoException, Retiring
<1>4. CASE NoCharacter \/ NoInterrupt
  BY <1>4, EchoWaits DEF NoCharacter, NoInterrupt
<1>5. CASE ServePrivModeViolation \/ ServeIllegalOpcode
  BY <1>5, EchoLocation DEF ServePrivModeViolation, ServeIllegalOpcode
<1>6. CASE \E char \in Chars : Character(char)
  BY <1>6, EchoGrows DEF Character, Deliver
<1>7. CASE \E char \in Garbage : ReadFails(char)
  BY <1>7 DEF EchoSetup
<1>8. CASE \E vec \in Vec : TakeInterrupt(vec)
  BY <1>8, EchoInterrupted
<1> QED
  BY <1>1, <1>2, <1>3, <1>4, <1>5, <1>6, <1>7, <1>8 DEF Next, RunCpu, Tick

-----------------------------------------------------------------------------
(* In the session *)

(* The commands that write to memory or registers are not entered.         *)
LEMMA EchoEntered ==
  ASSUME EchoSetup, TokensMatch
  PROVE  ~ LoadEntered /\ ~ MemWriteEntered /\ ~ RegWriteEntered
<1>1. ASSUME HasToken(0) PROVE tokens.elements \in Lines /\ tokens.elements # <<>>
  BY <1>1 DEF TokensMatch, HasToken, list_has, num_elements
<1>2. ~ LoadEntered
  <2> SUFFICES ASSUME LoadEntered PROVE FALSE
    OBVIOUS
  <2>1. HasToken(0) /\ tokens.elements[1].word = "load"
    BY DEF LoadEntered, Entered, Token, list_get
  <2> QED BY <1>1, <2>1 DEF EchoSetup
<1>3. ASSUME NEW name \in {"mem", "reg"} PROVE ~ WriteEntered(name)
  <2> SUFFICES ASSUME WriteEntered(name) PROVE FALSE
    OBVIOUS
  <2>1. HasToken(0) /\ HasToken(1) /\ Token(0).word = name /\ Token(1).word = "write"
    BY DEF WriteEntered, Entered
  <2>2. /\ tokens.elements[1].word = name /\ tokens.elements[2].word = "write"
        /\ Len(tokens.elements) > 1
    BY <2>1 DEF HasToken, Token, list_has, list_get, num_elements
  <2> QED BY <1>1, <2>1, <2>2 DEF EchoSetup
<1> QED
  BY <1>2, <1>3 DEF MemWriteEntered, RegWriteEntered

(* All steps of the session. *)
LEMMA SessionEchoes ==
  EchoSetup /\ SessionIInv /\ EchoIInv /\ [SessionNext]_session_vars => EchoIInv'
<1> SUFFICES ASSUME EchoSetup, SessionIInv, EchoIInv, [SessionNext]_session_vars
             PROVE  EchoIInv'
  OBVIOUS
<1>1. TypeOK /\ TokensMatch /\ BetweenInstructions
  BY DEF SessionIInv, ClockIInv, ExceptionIInv
<1>2. CASE RunSimulator \/ StepCpu
  BY <1>1, <1>2, EchoNext DEF RunSimulator, StepCpu, Next
<1>3. CASE MemWrite \/ RegWrite \/ Load
  BY <1>1, <1>3, EchoEntered
     DEF MemWrite, RegWrite, Load
<1>4. CASE Input
  <2>1. phase = "fetch" /\ Token(1).char \in Chars
    BY <1>1, <1>4, EnteredExecutes, InputIsCharacter DEF Input, BetweenInstructions
  <2>2. /\ simulator_update_devices_input(Token(1).char)
        /\ typed' = Append(typed, Token(1).char) /\ phase' = phase
        /\ UNCHANGED <<registers, instruction, lines>>
    BY <1>4 DEF Input
  <2> QED BY <1>1, <2>1, <2>2, EchoGrows
<1>5. CASE \/ ReadLine \/ ReadTooManyTokens \/ EndOfInput \/ Quit \/ PrintOnly \/ StartFails
           \/ EndFails \/ StepZeroFails \/ UNCHANGED session_vars
  <2>1. UNCHANGED machine
    BY <1>5 DEF ReadLine, ReadTooManyTokens, EnterLine, EndOfInput, Quit, PrintOnly, StartFails, DeviceIoFails, Leave,
                EndFails, StepZeroFails, session_vars
  <2>2. UNCHANGED <<registers, instruction, lines, bus, typed, phase>>
    BY <2>1 DEF machine
  <2> QED BY <2>2, EchoWaits
<1>6. CASE StartRun \/ StartStep \/ StepAgain \/ End
  <2>1. /\ phase' = "fetch"
        /\ UNCHANGED <<registers, instruction, lines, bus, pending, typed>>
    BY <1>6 DEF StartRun, StartStep, StartDeviceIo, StepAgain, End
  <2>2. phase # "execute"
    <3>1. CASE StartRun \/ StartStep
      BY <1>1, <3>1, EnteredExecutes DEF StartRun, StartStep, BetweenInstructions
    <3>2. CASE StepAgain \/ End
      BY <1>1, <3>2 DEF StepAgain, End, LoopDone, NoTick, BetweenInstructions
    <3> QED BY <1>6, <3>1, <3>2
  <2> QED BY <2>1, <2>2, EchoWaits
<1> QED
  BY <1>2, <1>3, <1>4, <1>5, <1>6 DEF SessionNext, Proceed

(* The registers a program starts with. *)
LEMMA RegsAre ==
  ASSUME NEW image, NEW r6, CpuInit(image, Regs(12288, 1024, r6))
  PROVE  /\ PC = 12288 /\ PSR = 1024
         /\ registers[REG_R6] = r6 /\ registers[REG_SSP] = SSP
BY DEF CpuInit, Regs, PC, PSR, lc3_reg, REG_PC, REG_PSR, REG_R6, REG_SSP

(* Its memory. *)
LEMMA ImageHeld ==
  ASSUME NEW image, NEW regs, CpuInit(image, regs), NEW code,
         code \subseteq DOMAIN image, MCR_ADDR \notin code
  PROVE  Holds(image, code)
<1>1. bus.mem = SetCell(image, MCR_ADDR, HighBit)
  BY DEF CpuInit, NewBus
<1> QED BY <1>1 DEF Holds, Cell, SetCell

(* Nothing is shown of anything. *)
LEMMA ShownNone ==
  ASSUME NEW t, NEW out, Len(out) = 0, NEW n \in Nat
  PROVE  ShownIn(t, out, n)
<1> DEFINE at == [i \in 1 .. Len(out) |-> i]
<1>1. at \in [1 .. Len(out) -> 1 .. n]
  OBVIOUS
<1>2. /\ \A i \in DOMAIN at : out[i] = t[at[i]]
      /\ \A i, j \in DOMAIN at : i < j => at[i] < at[j]
  OBVIOUS
<1> HIDE DEF at
<1> QED BY <1>1, <1>2 DEF ShownIn

(* No character was typed, and none is shown. *)
LEMMA NothingShown ==
  ASSUME NEW image, NEW regs, CpuInit(image, regs), typed = <<>>, PC = 12288,
         NEW holding, NEW reads, NEW tests, 12288 \notin holding \cup reads \cup tests
  PROVE  Echoing(holding, reads, tests)
<1>1. bus.kbsr = 0 /\ bus.output = <<>> /\ phase = "fetch"
  BY DEF CpuInit, NewBus
<1>2. ~ Ready(bus.kbsr) /\ Location = 12288
  BY <1>1 DEF Ready, Negative, HighBit, Location
<1>3. Len(typed) = 0 /\ Len(bus.output) = 0
  BY <1>1
<1>4. ShownIn(typed, bus.output, 0)
  BY <1>3, ShownNone
<1> QED BY <1>2, <1>3, <1>4 DEF Echoing, Past

(* The program that polls, before its first instruction. *)
LEMMA PollingStarts ==
  ASSUME CpuInit(PollingBoot.image, PollingBoot.regs), typed = <<>>
  PROVE  EchoIInv
<1>1. PollingBoot.regs = Regs(12288, 1024, 61440)
  BY DEF PollingBoot
<1>2. PC = 12288 /\ PSR = 1024
  BY <1>1, RegsAre
<1>3. DOMAIN PollingBoot.image = 12288 .. 12305
  BY SMT DEF PollingBoot, At
<1>4. Holds(PollingBoot.image, 12288 .. 12305)
  BY <1>3, ImageHeld DEF MCR_ADDR
<1>5. Echoing(12291 .. 12293, {12290}, {12289})
  BY <1>2, NothingShown
<1>6. /\ phase = "fetch" /\ ~ priv_mode_violation_line /\ ~ illegal_opcode_line
      /\ Location = 12288
  BY <1>2 DEF CpuInit, Location
<1> QED
  BY <1>2, <1>4, <1>5, <1>6 DEF EchoIInv, PollingIInv, Running

(* The memory the second program takes. *)
LEMMA InterruptDomain == InterruptCode \subseteq DOMAIN InterruptBoot.image
<1> DEFINE boot == At(12288, <<LD(1, 10), STI(1, 6), LDI(0, 5), BR(IfZeroOrPositive, 2),
                               LDI(0, 4), STI(0, 4), RTI, BR(Always, -1),
                               KBSR, KBDR, DDR, KBSR_IE>>)
           frame == At(Frame, <<12288 + 7, UserPSR>>)
           keyboard == At(4096, <<ST(0, 9), LDI(0, 5), BR(IfZeroOrPositive, 2),
                                  LDI(0, 4), STI(0, 4), LD(0, 4), RTI, KBSR, KBDR, DDR>>)
           other == At(4352, <<NOT(0, 0), NOT(0, 0), RTI>>)
<1>1. PICK handler, second :
        /\ handler = keyboard ++ Vector(KEYBOARD_INTERRUPT_VECTOR, 4096)
        /\ second = other ++ Vector(144, 4352)
  OBVIOUS
<1>2. InterruptBoot.image = boot ++ frame ++ handler ++ second
  BY <1>1 DEF InterruptBoot, KeyboardHandler, OtherHandler
<1>3. /\ DOMAIN boot = 12288 .. 12299 /\ DOMAIN frame = Frame .. Frame + 1
      /\ DOMAIN keyboard = 4096 .. 4105 /\ DOMAIN other = 4352 .. 4354
  BY SMT DEF At, Frame
<1>4. /\ DOMAIN Vector(KEYBOARD_INTERRUPT_VECTOR, 4096) = {384}
      /\ DOMAIN Vector(144, 4352) = {400}
  BY SMT DEF Vector, At, KEYBOARD_INTERRUPT_VECTOR, INTERRUPT_VECTOR_TABLE
<1> HIDE DEF boot, frame, keyboard, other
<1>5. DOMAIN handler = DOMAIN keyboard \cup {384} /\ DOMAIN second = DOMAIN other \cup {400}
  BY <1>1, <1>4 DEF ++
<1>6. DOMAIN InterruptBoot.image
        = DOMAIN boot \cup DOMAIN frame \cup DOMAIN handler \cup DOMAIN second
  BY <1>2 DEF ++
<1> QED
  BY <1>3, <1>5, <1>6
     DEF InterruptCode, Frame, KEYBOARD_INTERRUPT_VECTOR, INTERRUPT_VECTOR_TABLE

(* The program that is interrupted, before its first instruction. *)
LEMMA InterruptStarts ==
  ASSUME CpuInit(InterruptBoot.image, InterruptBoot.regs), typed = <<>>
  PROVE  EchoIInv
<1>1. InterruptBoot.regs = Regs(12288, 1024, Frame)
  BY DEF InterruptBoot
<1>2. PC = 12288 /\ PSR = 1024 /\ registers[REG_R6] = Frame /\ registers[REG_SSP] = SSP
  BY <1>1, RegsAre
<1>3. InterruptCode \subseteq DOMAIN InterruptBoot.image
  BY InterruptDomain
<1>4. Holds(InterruptBoot.image, InterruptCode)
  <2>1. MCR_ADDR \notin InterruptCode
    BY DEF MCR_ADDR, InterruptCode, Frame, INTERRUPT_VECTOR_TABLE, KEYBOARD_INTERRUPT_VECTOR
  <2> QED BY <1>3, <2>1, ImageHeld
<1>5. Echoing({12293, 4100}, {12292, 4099}, {12291, 4098})
  BY <1>2, NothingShown
<1>6. /\ phase = "fetch" /\ ~ priv_mode_violation_line /\ ~ illegal_opcode_line
      /\ Location = 12288
  BY <1>2 DEF CpuInit, Location
<1>7. Location \in BootCode /\ Location \notin UserCode
      /\ Location \notin HandlerCode \cup OtherCode
  BY <1>6 DEF BootCode, UserCode, HandlerCode, OtherCode
<1> QED
  BY <1>2, <1>4, <1>5, <1>6, <1>7 DEF EchoIInv, InterruptIInv, Running

(* The user's programs are loaded when the session starts. *)
LEMMA EchoStarts ==
  EchoSetup /\ SessionInit => EchoIInv
<1> SUFFICES ASSUME EchoSetup, SessionInit PROVE EchoIInv
  OBVIOUS
<1>1. PICK boot \in Boots : CpuInit(boot.image, boot.regs)
  BY DEF SessionInit, Init
<1>2. boot \in {PollingBoot, InterruptBoot} /\ typed = <<>>
  BY DEF EchoSetup, EchoBoots, SessionInit, Init
<1> QED BY <1>1, <1>2, PollingStarts, InterruptStarts

(* What the user sees is some of what was typed, in order, each character  *)
(* once, in every session with the programs that echo.                     *)
THEOREM EchoIsInOrder ==
  ASSUME EchoSetup PROVE SessionSpec => []EchoInOrder
<1>1. SessionIInv /\ EchoIInv => EchoInOrder
  <2> SUFFICES ASSUME SessionIInv, EchoIInv PROVE EchoInOrder
    OBVIOUS
  <2>1. TypeOK
    BY DEF SessionIInv, ClockIInv, ExceptionIInv
  <2>2. PICK holding, reads, tests : Echoing(holding, reads, tests)
    BY DEF EchoIInv, PollingIInv, InterruptIInv
  <2>3. Past \in Nat /\ Len(typed) \in Nat /\ Past <= Len(typed)
    BY <2>1, <2>2, PastRange
  <2>4. ShownIn(typed, bus.output, Past)
    BY <2>2 DEF Echoing
  <2>5. ShownIn(typed, bus.output, Len(typed))
    BY <2>3, <2>4, ShownLonger
  <2> QED BY <2>5 DEF ShownIn, EchoInOrder
<1>2. SessionInit => SessionIInv /\ EchoIInv
  BY SessionStarts, EchoStarts
<1>3. SessionIInv /\ EchoIInv /\ [SessionNext]_session_vars => SessionIInv' /\ EchoIInv'
  BY SessionKeepsIInv, SessionEchoes
<1> QED
  BY <1>1, <1>2, <1>3, PTL DEF SessionSpec
=============================================================================
