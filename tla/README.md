# A verification of the LC-3 simulator

TLA+ models of the simulator in `src/src`, TLC runs that check them on small
instances, and TLAPS proofs of what matters most for every instance. Paths are
relative to the repository; `cpu.c:227` is short for `src/src/cpu.c:227`.

## The system

One process with one thread. The user interface reads commands; `run` puts the
terminal in raw mode and enters `simulator_run_until_end`, which ticks the CPU,
polls the terminal for a character, and offers the CPU the most urgent
interrupt, until the program stops the clock. Devices are plugins: structures
of callbacks, attached to addresses of the bus at start-up.

| Part | State | Operations | Talks to |
|---|---|---|---|
| interrupt controller (`interrupt_controller.c`) | priority of each vector, a binary heap of vectors | alert, peek, take | alerted by devices through `host`; asked by the loop |
| CPU (`cpu.c`) | registers, two exception lines | tick (fetch, execute, exceptions), signal interrupt | memory and devices through `bus_accessor` |
| bus (`bus.c`) | cells, a flag per address, sorted attachments | attach, read, write | calls a device's register handlers |
| keyboard (`plugins/keyboard.c`) | `kbsr`, `kbdr` | register read and write, `on_input` | alerts interrupts |
| display (`plugins/display.c`) | `dsr`, `ddr` | register read and write | writes to the terminal |
| simulator loop (`simulator.c`) | the parts, lists of subscribed devices | run, step, load, attach | everything |
| device I/O (`device_io_impl.c`, `terminal.c`) | saved terminal and descriptor flags | start, end, `get_char`, `write_char` | the terminal, never waiting for input |
| user interface (`user_interface.c`) | the simulator, the tokens of a command | run, step, load, mem, reg, input, quit | the simulator |
| hash map, plugin manager (`hashmap.c`, `plugin_manager.c`) | loaded plugins by name, their libraries | add, iterate, search directories, free | `dlopen`, the file system |
| list (`list.c`) | array, length, capacity | add, get, clear, sort, bsearch, remove | used by all of the above |
| registers by name, utilities (`lc3_reg.c`, `util.c`) | none | conversion, descriptor flags, allocation | used by all of the above |

### What is hard here

There are no threads and no messages. What a test hardly reaches is:

* **Input between any two instructions.** A program polls or is interrupted at
  any point of its own loop; a character overwrites one that was not read, an
  interrupt outlives the character it announced, alerts are merged.
* **Nesting.** Interrupts, exceptions and `rti` share one stack, one status
  word and two saved stack pointers.
* **Long sequences.** The heap's shape depends on every earlier alert and take;
  attachments depend on the order in which plugins are loaded.
* **Boundaries.** Words of 16 bits, bytes as indices, arrays of 255 elements,
  the last parent of a heap, both ends of an interval.
* **Half-done work.** A device refused after its first address, a read of the
  terminal that fails, a start of device I/O that fails at its third call, a
  plugin whose library opens and whose init fails.
* **What one command leaves for the next.** A stopped clock, a key nobody read,
  an interrupt that `step` does not serve, tokens, the mode of the terminal.

`PROJECT.json` lists them one by one, at the line where each bites, with the
properties that cover it or the reason why none does.

### What makes each part correct

* Interrupt controller: it is a priority queue; a vector is queued once; the
  array never overflows; the vector of highest priority comes first, and the
  higher vector among equals.
* CPU: words stay words; an exception is served in the tick that raised it; a
  handler returns to what it interrupted; user programs stay in user mode.
* Loop: nothing more urgent than the running code is pending when an
  instruction is fetched.
* Devices: what is typed is echoed in order, at most once, and the last
  character is never the one that is lost.
* Bus: an address has one owner for good, and the search finds it.
* Hash map: a key has one node, where its hash leads, also while the map grows;
  the iterator returns each element once, and freeing reaches every bucket.
* Device I/O: terminal and flags are given back whatever fails; polls do not
  wait; a write returns.
* User interface: device I/O is started and ended in turn; `step` returns; no
  command but a write of the user's starts a stopped clock or takes a key away.
* Plugin manager: of several plugins of a name, the last that works is loaded;
  libraries are open as long as their code may be called; failures are reported.

## The modules

```
InterruptQueue  <== implemented by ==  InterruptController
      |                                      \__ InterruptControllerProofs -- LeastNumber
      | INSTANCE
LC3Word -- Devices -- Cpu -- Simulator -- Contexts -- MCSimulator
                               |                   \__ SimulatorProofs -- LeastNumber
                               |\__ Programs -- LC3Assembler   (in both MC modules)
                        List -- Session -- MCSession
                                     \__ SessionProofs -- SimulatorProofs, Programs
DeviceUse  <== implemented by ==  Session
    \.. assumed by ..  DeviceIo -- MCDeviceIo
                          \__ DeviceIoProofs
List -- Bus -- MCBus
         \__ BusProofs -- LeastNumber
AddressMap  <== implemented by ==  Bus
KeyedSet -- HashMap -- MCHashMap
    |          \__ HashMapProofs -- LeastNumber
    | INSTANCE
PluginManager -- MCPluginManager
    \__ PluginManagerProofs
```

**InterruptController** is `interrupt_controller.c` statement by statement.
`interrupts` and `queue_heap` are the two arrays; `Alert` is
`interrupt_controller_alert` up to the loop of `percolate_up`, `Dequeue` is
`interrupt_controller_take` up to the loop of `percolate_down`, `PercolateUp`
and `PercolateDown` are one iteration each, `AlertReturns` and `TakeReturns`
what follows. `pc` tells the loop and `cur_i` its index. The heap array is
uninitialised (`malloc`), so its initial bytes are arbitrary. An index of 255
into the table falls on the first entry of the heap, which follows it in the
struct. The size of the arrays, `UINT8_MAX`, is a parameter.

**InterruptQueue** is what the controller promises: a function from pending
vectors to priorities. `QueueSpec` is the refinement.

**LC3Word** has the 16-bit arithmetic and the fields of instructions and of
the status. `+` and `-` wrap, `sign_extend` is the code's mask arithmetic.

**Devices** is the bus as the CPU sees it, with keyboard and display attached
at their addresses: one record of memory, device registers and the output.
`bus_read` and `after_read` are the value and the effect of a read, since
reading `KBDR` clears the ready bit. `keyboard_on_input` sign-extends the
character, which is what passing a `char` as `uint16_t` does on the hosts where
`char` is signed. The bits above 0x80 are lost again in `write_output`.

**Cpu** is `cpu_tick` and `cpu_signal_interrupt`. `phase` tells where in the
loop the program is. There is an action for each instruction (`Jsr` and `Jsrr`,
and `RtiInUserMode` and `Rti`, are branches of one C function),
for each exception and for both places where the clock is tested.
Reads that an instruction makes one after another see each other's effects.

**Simulator** is `simulator_run_until_end`. `NoCharacter`, `Character` and
`ReadFails` are the three results of `get_char` (a failed read is taken for a
character, `simulator.c:56`, whose byte is then arbitrary: `Garbage`);
`TakeInterrupt` and `NoInterrupt` are `simulator_check_interrupts`. It uses the
abstract queue, which is sound because the controller implements it
(`ImplementsQueue`). `OtherAlerts` is a plugin of the user's own that raises
interrupts from `on_input`. `typed` is a history variable.

**Contexts** adds a history of interrupted contexts, for properties of `rti`.
**LC3Assembler** encodes instructions; **Programs** holds the programs and
handlers with which the machine starts, each a *boot*: parts joined by `++`, a
part giving the words of consecutive addresses.

**Session** is `ui_loop` around that machine. It extends `Simulator` by what
the user interface keeps: `command` (at the prompt, about to execute a command,
inside `run` or `step`, left), the list of tokens, `use` of device I/O. A line
is a sequence of tokens, a token what the commands can make of it: a word, the
number it converts to, its byte if it is a single character. `RunEntered`,
`MemWriteEntered` and so on are the tests the commands make of their tokens;
what fails them all only prints (`PrintOnly`). `Run` takes the steps of
`Simulator!Next`; `StepCpu` takes those of the CPU only, since `simulator_step`
polls nothing and serves no interrupt. `Load` writes the words it got and sets
the PC also when reading failed in the middle, as the code does; addresses of a
file wrap, those of `mem write` do not. `StepZeroFails` is the unassigned
`tick_status`: any outcome is possible. When `get_user_input` fails the session
ends. A line with more tokens than the list has room for is entered like any
other, but `list_add` then writes past the array: `ReadTooManyTokens` ends the
model in the command `"undefined"`, so that the properties speak of all lines up
to the first such one, and `SessionTypeOK` says that no other line gets there.

**DeviceUse** is the order in which device I/O may be used: started, ended,
started again, left. `Session` implements it, and **DeviceIo** relies on it:
its `Start` is only enabled when closed, its `End` when open. `DeviceIo` is
`device_io_impl.c` and `terminal.c`, with an action for each way a start or an
end can go: it succeeds, or fails at the first descriptor, the second, or the
terminal, and undoes what was done. `O_NONBLOCK` is kept for each *open file*,
which stdin and stdout may share. `unread` remembers for each character typed
whether it was for the prompt or for the program. `HangUp` is the terminal
going away: its modes are then nobody's, `isatty` is false, so that
`init_terminal` leaves it alone, and `write` fails. `Drain` and `Type`
are the terminal and its user. Leaving the program runs `termios_atexit` if it
was registered (`GiveUp`).

**Bus** is `bus_attach` and `simulator_attach_device`: one action per interval
that is added, `Refuse` for a conflict, `Start` for the rest of the call.
**AddressMap** is what it promises: a function from addresses to owners that
only grows. **List** has the operations of `list.c` that the program uses.
Of the C library's `qsort` it has what the program may rely on: the elements
come in some order in which none follows a greater one. Its `bsearch` is a binary
search, a recursive function on the bounds of the part that is left.

**HashMap** is `hashmap.c` with the configuration `plugin_manager.c` gives it
(elements are copied, sizes and load factor are parameters). A chain is a
sequence. `hashmap_set` is a whole call, unless it grows the array: then
`hashmap_set_grows` allocates the new one, each `MoveNode` is an iteration of
the inner loop of `hashmap_rehash`, `NextBucket` one of the outer loop, and
`ResizeReturns` goes on to add the element. The code is sequential, so nothing
happens between these steps; they are separate so that the properties speak of
the loop, too. `GetIterator`, `IteratorNext` and `IteratorFree` are the
iterator, with `visited` as history. `BeginFree`, `FreeNode`, `FreeNextBucket`
and `FreeArray` are `hashmap_free`. **KeyedSet** says what the calls do to what
a map holds: `Set` and `Remove`, each at the one key it was called with.
`content` is that, kept as history: the step that ends a call of `hashmap_set`
or `hashmap_remove` changes it so, and no other step does. `FindsLastSet`
compares it with what the lookup of `hashmap_get` finds for every key, so that a
node that is lost, or present but in the wrong bucket, counts as absent. It
holds at every iteration of the growth, too, where a lookup of the new array and
of what is left of the old one together is meant.

**PluginManager** is `plugin_manager.c`, from `pm_load_device_plugins` to
`pm_free`, with what `start()` does in between: `attach_devices`, the session,
and the frees in their order. A directory is a function from names to what the
code will find there (`Kind`): a file it passes over, one that fails at `stat`,
at `dlopen` or at its init, or a plugin. `Init` chooses the whole disk;
`Reads` gives the names of a directory in any order. The map of plugins is the
abstract `KeyedSet`, which is sound because a lookup in the real one finds just
that (`FindsLastSet`). `errno` is
whether the variable is not 0: a call that succeeds may leave it set
(`MaySetErrno`). `seen` and `cut_short` are history.

The operators introduced by the comment "Fault for ..." are plausible bugs. Each
property has one, which is put in place of the definition after it to see that
the property notices. Nothing uses them otherwise.

## The runs

| Run | Checks | Shows |
|---|---|---|
| `controller` | `TypeOK`, `TableMatchesHeap`, `CheckHeap`, `PeekIsTop`, `HeapButOne`, `QueueSpec` | every sequence of alerts and takes on arrays of five entries, filled to the last |
| `bus` | `TypeOK`, `SortedAndDisjoint`, `SearchFindsOwner`, `AddressMapSpec` | three devices that want any range or any two of five addresses, in any order |
| `machine` | `TypeOK`, `ExceptionServedInTick`, `NoPriorityInversion`, `UserModeConfined`, `ReturnsToInterrupted`, `StoppedForGood` | five boots: three priorities whose handlers never return; a user program interrupted from above; one that stops the clock with its supervisor stack on the machine control register; the whole instruction set with exceptions, one of them in a handler, interrupts and failed reads; a machine as `new_Cpu` leaves it |
| `hash_map` | `TypeOK`, `OnePlace`, `NeverPastGrowth`, `IteratesOnce`, `FreesEverything`, `FindsLastSet` | keys that collide in some sizes or all, set, replaced, removed, iterated through two growths, and freed |
| `device_io` | `TypeOK`, `TerminalRestored`, `PollNeverWaits`, `LeftAsFound`, `KeysStayInRun`, `WriteReturns` | one open file or two, found in any mode; a call that fails at every place; a terminal that fills, drains and hangs up |
| `session_echo` | `EchoInOrder`, `DeviceUseSpec`, `StepReturns`, `RunShowsKeys` | a program that echoes by polling and one that echoes by interrupts beside a second device of the same priority, run, stepped and typed to, at the prompt and in the run, by up to five commands |
| `session_commands` | `SessionTypeOK`, `ClockStaysOff`, `KeyKept` | all commands in any order, well formed or not, and a line of six tokens, on programs that stop the clock, read the keyboard or run past the top of memory |
| `plugin_manager` | `TypeOK`, `LastDirectoryWins`, `HandlesMatch`, `CallbacksHaveCode`, `FailuresReported` | every content of one or two directories with two names, in every order, and a `readdir` that may fail |
| `controller_top_vector` | `EntryPerVector` (violated) | vector 255 has no entry of its own |
| `rti_stack_pointer` | `StackPointerRestored` (violated) | `rti` to a user program leaves the supervisor's pointer in R6 |
| `session_step_zero` | `OnlyFailuresEndSession` (violated) | `step 0` may end the session |
| `plugin_reports` | `ReportsAreReal` (violated) | a directory that was read is reported as one that could not be opened |

### Bounds, and why they are enough

* `controller`: `UINT8_MAX` is 5, with all five in-range vectors and three
  priorities (ties and strict order). Five entries are the smallest heap with a
  node that has two children and is not the root; the full array, the empty
  one, and sizes at which the last parent has one child all occur. The proofs
  remove the bound.
* `bus`: five addresses hold three intervals with and without gaps between
  them. The initial capacity is 2 rather than 5, so that the list grows on the
  third attachment. The proofs remove these bounds.
* `hash_map`: sizes 2, 3 and 5 instead of 11 and 23 make the map grow at one
  and at two elements and stop growing at three; the hashes 0, 0, 3, 6 and 4
  collide in every size, in the smaller two, or in one only. `MaxElements`, 7, bounds
  the elements ever added, which is more than the keys, so that removed ones
  come back; replacing an element is not bounded.
* `machine`: `MaxInput` is 4: each character may raise any of the interrupts
  that are not pending, so that all three priorities are pending at once, in
  every order, and one comes again. The programs are loops, so that an
  interrupt falls on each of their instructions and into each handler.
* `device_io`: `MaxFailures` is 1, since the program ends at the first failure
  of a start or an end. `Capacity` 1 makes every second character wait, and
  `MaxUnread` 2 has room for one character for the prompt and one for the run.
* `session_echo`: five lines are a character, a step, a run that is stopped by
  the user, another character and another run. `MaxInput` is 2: a character
  and one that overwrites it or merges with its interrupt; with those typed at
  the prompt there are more. One has its high bit set, one makes the program
  stop the clock.
* `session_commands`: five lines load a program that stops the clock, run it,
  and follow with any two or three others, or make the keyboard ready, load a
  program that reads it, and run or step through that. One line has six tokens,
  one more than the list takes. `MaxInput` bounds what is typed
  during a run, `MaxLines` the rest.
* `plugin_manager`: two directories are all there are (`get_plugin_dir_names`);
  two names are enough for one plugin to be hidden by its namesake while
  another is not. The proofs remove both bounds.
* Addresses are whole: memory is a function on the cells that were ever
  written, and others are 0, so no address is cut off.

Deadlock is not checked where the system really may stop: once the clock is
off (`phase = "halted"`), in `bus` once every device has been attached, and in
`hash_map`, `device_io`, `plugin_manager` and the sessions when the map, the
program or the session has ended.

### Fairness

`FairSessionSpec` is `WF_session_vars(Proceed)`: a command that was entered is
executed, and the loops inside `run` and `step` take their next step as long as
they have one. That is what the C loops do, provided `write_char` does not wait
for ever on a terminal that does not drain. `ReadLine` and `EndOfInput` are not
fair, since the user need not enter anything, and no action of a run is fair by
itself: whether a character comes is left open. After `MaxInput` characters
none does, so `RunShowsKeys` speaks of an input that pauses, in a run that the
program does not end.

`DeviceIo` has `WF` on `Written` and `WriteFails`, the iterations of the loop
in `io_impl_write_char`, and on `Drain`. The last is an assumption on the
terminal, not on the code: without it a program that writes to a terminal
stopped with Ctrl-S does wait in that loop, and `WriteReturns` does not hold.

## The proofs

All theorems are checked by TLAPS, without bounds.

**Interrupt controller** (`InterruptControllerProofs`), for every `UINT8_MAX`,
every set of vectors and priorities, under `InRange`: the top vector is not
used. That assumption is needed: `controller_top_vector` is what happens
without it. `TypeOK` is not inductive: that the size stays in the array needs
that no vector is queued twice, which needs the agreement of table and heap,
which during a take needs that the vector taken is in use. The invariant is

    IInv == TypeOK /\ TableMatchesHeap /\ HeapButOne /\ Entries /\ (pc = "down" => vec \in Vec)

where `HeapButOne` is the loop invariant of both percolations (one entry may be
out of place, and its children are in order with its parent). Two lemmas on
arrays, `ClimbKeepsOrder` and `SinkKeepsOrder`, say that a swap moves the one
misplaced entry; `RoomForOneMore` is the pigeonhole argument on the array;
`RootIsTop` goes from the order of children and parents to that of the whole
heap, by the least counterexample (`LeastElement`, from the well-foundedness
of the naturals). From `IInv` follow all the properties of the run and
`ImplementsQueue`, the refinement: `Alert` and `TakeReturns` are the steps of
the queue and all others stutter.

**Simulator** (`SimulatorProofs`), for every program, all inputs and all
devices with vectors below 255 and priorities up to 7 (`SimulatorAssumption`):

* Words: `SignExtendIsExtension`, `sign_extend` is the two's complement
  extension for the five widths the instructions have, and
  `ConditionCodeKeepsMode`, setting the condition code changes neither mode nor
  priority.
* `TypeCorrect`: `TypeOK` is inductive. `ExecuteIsOK` goes through the
  instructions and `HandlerEntered` covers interrupts and exceptions.
* `ExceptionsAreServed`: needs `ExceptionIInv`: the clock is on while an
  instruction executes, and one that raises a line leaves it on, or the tick
  would halt with the line up.
* `UrgentFirst`: refusing the top of the queue is refusing all of it
  (`NoInterruptMeansNone`), and what is left after a take does not outrank the
  handler (`TakeInterruptLeavesLower`).
* `UsersAreConfined`: no instruction turns user mode off, and entering a
  handler goes through the vector table and keeps R6 in USP.
* `ClockStops`: the invariant is `ClockIInv`. The clock is on while an
  instruction executes, and since `HaltAfterExecute` comes first, an exception
  is served only with the clock on. Its frame may turn the clock off, when it
  covers the machine control register; then R6 is left at or below that
  register and the CPU is in supervisor mode (`FrameOnClock`), so the frame of
  the interrupt served in the same turn goes below it. With the clock off no
  instruction is fetched.
* `HandlersReturn`, of the specification with the history of contexts: `rti`
  resumes the innermost context. That is no property of the machine alone,
  since a program may overwrite its stack or move R6, so the theorem says what
  is asked of a program (`KeepsToStacks`): frames lie in memory and do not
  overlap (`FramesApart`), instructions do not write to them
  (`InstructionsKeepFrames`), and a handler has R6 back at its frame when it
  returns (`ReturnsAtFrame`). All boots of `machine` keep to their stacks,
  also the one whose handlers nest and return: TLC finds both parts of
  `KeepsToStacks` true in the configuration of that run, though the run does
  not list them, since they are about its programs. What remains to be shown is
  the part of the machine: each frame holds the context it was made for
  (`ContextIInv`). It does since an entry writes to its own frame only (`HandlerSavesContext`),
  and since SSP, from which the address of a frame of user mode is computed,
  is never assigned (`SupervisorStackFixed`).
* `StackPointersSwapped`, under the same hypotheses: R6 after `rti` is SSP for a
  user program and USP for a handler. `rti_stack_pointer` shows one case of it.

**Session** (`SessionProofs`): `SessionUsesDeviceIo` is the refinement of
`DeviceUse`, from the invariant that `use` is `"open"` exactly during a run or
step and `"exited"` exactly at the end. It is what makes `DeviceIo` on its own
meaningful, and it does not depend on the programs, lines or files.

Three theorems for all programs, files and lines of any length rest on the
invariant

    SessionIInv == ClockIInv /\ UseMatches /\ TokensMatch /\ BetweenInstructions /\ (types)

`ClockIInv` is that of the machine, which a run keeps by `NextKeepsClock`. For
the commands between two runs to keep it, the machine has to be between two
instructions when they write to memory and registers (`BetweenInstructions`);
and for a line to overfill the list only by itself, the list has to be empty at
the prompt (`TokensMatch`), so that after a line it holds just that line
(`LineTokenized`). `OnlyUserStartsClock` is then a case for each step: only `mem
write` and `load` write to memory outside a run. `KeyIsKept` goes down to the bus:
a write keeps the ready bit wherever it goes (`WriteKeepsKey`), a read keeps
the character, and each instruction that takes the key reads the data register
(`ExecuteKeepsKey`). What the loops over tokens and words compute is a recursive
function in the model. That it exists is shown for each loop (`TokensAdded`,
`WordsStored`) by the least number of iterations for which it would not, and
what it returns (`LineTokenized`, `StoredIsBus`) in the same way.

`EchoIsInOrder` is about the programs that echo: some of the characters typed
are shown, in their order, each once, however many are typed, lines entered and
steps made, in the run and at the prompt. Its hypothesis is `EchoSetup`, which
the constants of `session_echo` satisfy:

* the session starts with `PollingBoot` or `InterruptBoot`;
* no read of the terminal fails: `simulator.c:56` hands the byte of a failed
  read to the program, which shows it though nobody typed it;
* another device interrupts with the keyboard's priority only: with a higher
  one handlers nest, and the program loses its way by `StackPointersSwapped`;
* the user does not write to memory or registers, nor load another program.

The invariant, `EchoIInv`, says for each location of the program what must hold
there, and was checked by TLC on `session_echo` first. Common to both programs
is `Echoing`: a ready keyboard has the last character typed; where the program
is about to read, the keyboard is ready; where it holds a character to be
shown, R0 has it, and it may follow what has been shown. `PollingIInv` adds
that the program is still in memory and that the condition code was set before
it is tested. `InterruptIInv` adds that the saved frame, at the top of the
supervisor stack, is that of the user program, so that both handlers return to
it. The proof starts from the words of the two programs (`PollingWords`,
`InterruptWords`), has a lemma for each kind of instruction (`LoadStep`,
`StoreStep`, `BranchStep`, `ReturnStep`, ...), and goes through all locations
(`PollingExecutes`, `InterruptExecutes`). `EchoTyped`, `EchoRead` and `EchoSent`
are the three events that matter: a character that overwrites one nobody read
takes its place, and one that is read is past, whether shown or not.

**Bus** (`BusProofs`), for all devices, intervals they ask for and sizes of the
lists (`BusAssumption`), from

    IInv == BusTypes /\ (all intervals attached are Proper) /\ FlagsMatch /\ SortedAndDisjoint

where `FlagsMatch` says that the flags are those of the addresses attached.
`SortedAndDisjoint` needs the rest: an interval that is added is apart from
those before it only if the scan for an overlap may stop at the first one past
it, which needs their order (`ScanFindsOverlaps`), and lower bounds are in order
of upper ones only if the intervals do not overlap and are not empty. That
sorting after the addition leaves an ordered list needs that there is an order
to choose: `InsertionPoint` and `InsertingOrders` give it. The binary search is
defined for all bounds, since both halves are smaller (`SearchExists`), and
finds an element that is equal to the key and lies between the smaller and the
greater ones (`SearchFinds`). From that follow `SearchAlwaysFinds`, and
`ImplementsAddressMap`: `AddAttachment` claims addresses that were free
(`AddClaims`), and no step changes whose device the search finds for the others.

**Device I/O** (`DeviceIoProofs`), for any open files, descriptors and number of
failures: the invariant ties `use`, `termios`, `saved_termios` and `at_exit`
together (while closed, the terminal is in line mode or gone; while open, the
saved mode is that of lines and, unless the terminal is gone, the exit handler
is registered), and says that
a character typed for the program is only unread while the program runs.
`FlagsLeftAsFound` and `KeysStay` are action properties that follow from it.

**Hash map** (`HashMapProofs`), for every hash function, list of sizes and load
factor, under `HashMapAssumption` (the limits of the sizes increase):
`TypeCorrect`, with the remainder of a hash in range (`BucketInRange`) and the
search for the next full bucket by the least element (`NextFullBucket`);
`GrowsInTime`, whose invariant `RoomToGrow` says that there is strictly room
while nodes are carried over; `AllNodesFreed`, whose invariant `Emptied` is the
loop invariant of `hashmap_free_internal`. The other three rest on `Placed`:
every chain has different keys, all of its bucket (`ChainOK`), no key is in both
arrays, and the old one is empty up to the index. `AppendedChain`,
`ReplacedChain` and `UnlinkedChain` say what the three changes of a chain do to
all lookups; `NodeMoved` that an iteration of `hashmap_rehash` changes none.
`EveryStep` sums up: what the keys find changes as `content` does, in every
step. `FindsWhatWasSet` follows, up to the call of `hashmap_free`. `KeysHaveOnePlace` is `Placed` in terms of
cardinalities. `EachReturnedOnce` adds `Returned`, the loop invariant of the
iterator; that no element comes twice needs `Placed` again.

**Plugin manager** (`PluginManagerProofs`), for any number of directories and
names: the five properties of the run. `LastDirectoryWins` needs that the
directories above the one being read are done, and that nothing seen so far
lies below it; the others need that only one library is between its `dlopen`
and the end of its init.

**Only model-checked.** Liveness (`RunShowsKeys`, `StepReturns`, `WriteReturns`):
fairness and `ENABLED` are beyond the prover. That the boots of `machine` keep
to their stacks, the hypothesis of `HandlersReturn`, was checked by TLC and is
not proved.

## What the models showed

* **Vector 255** (`controller_top_vector`). `interrupts` has `UINT8_MAX`
  elements and is indexed by a `uint8_t`.
* **`rti`** (`rti_stack_pointer`) reloads R6 from USP when the popped status is
  that of supervisor mode, and keeps it when it is that of user mode. The
  status has bit 15 set in user mode everywhere else (`cpu.c:227`, `cpu.c:286`).
  The programs of the other runs do not depend on R6 afterwards, or load it anew.
* **`step 0`** (`session_step_zero`) returns a variable that was never assigned;
  a negative value ends the session (`simulator.c:128`, where `user_interface.c:410` lets 0 through).
* **Reports** (`plugin_reports`). `errno` is tested after the loop over a
  directory (`plugin_manager.c:150`), so that whatever one file left in it is
  reported as a failure to open the directory.
* The help text differs from the commands: `reg write` takes the register
  before the value (`user_interface.c:73`, the usage at 376 is right), `input`
  takes one character and no 16-bit value (77, 297), `step` one amount and no
  range (75).
* A priority-0 alert is never accepted, since acceptance is strict; an alert for
  a pending vector keeps the priority of the first.
* A device refused at its second address stays attached at its first, without
  having been started (`Refuse`).
* An `end` that fails at the second descriptor leaves the first non-blocking
  (`device_io_impl.c:82`), and one that succeeds clears `O_NONBLOCK` also where it was found set; `LeftAsFound` says
  no more than the code keeps.
* A clock that a program stopped stays off for all later runs
  (`ClockStaysOff`): the user has to write the machine control register.
* No removal decrements the number of elements of a hash map, so that it grows
  by the elements ever added (`hashmap_remove`).
* Names that suggest more than there is: `SUPERVISOR_STACK_HIGH` (`cpu.c:62`)
  is unused and SSP starts at 0, so the first frame of a fresh machine wraps to
  the top of memory, where the machine control register is.

## Assumptions

Keyboard and display are attached before `run`. No device has `on_tick`: the
loop over those devices (`simulator.c:69`) takes the address of a list entry
for a device. Priorities are at most 7 and never 255. RANGE devices give their
bounds in order. Memory allocation does not fail (`safe_malloc` ends the
program). A key is removed from the hash map only when it is there: otherwise
the code runs off the end of a chain that is not empty (`hashmap.c:256`). The
map is not changed while it is iterated. Of a line with six tokens the last is
written past the list; the model ends there (`ReadTooManyTokens`). The terminal
drains in the end, or hangs up. Nobody sends a signal: Ctrl-C ends the process without `termios_atexit`.

## Not modelled

* `on_tick`, and a loop without a device that listens to input: what the code
  does then is undefined.
* Splitting lines, converting numbers and register names, printing, paths and
  strings: conversions without state. Tokens, directories and names stand for
  their results.
* Code without a caller: `list_remove`, `list_convert_to_array`,
  `hashmap_to_list`, `pm_remove_plugin`, `bus_print` and some helpers of
  `util.c`.
* Freeing of memory, except for the buckets of the hash map and what must be
  freed in order (`PluginManager`); leaks, such as that of the name at
  `plugin_manager.c:106`.
* The buffer of `stdin`: `fgets` (`user_interface.c:90`) may have read ahead
  what is piped in, which `get_char` then does not see. At a terminal lines come
  one by one.
* `dlopen`, `stat`, `readdir` and the terminal itself are outside the program;
  the models have their outcomes.

## Plan

Done: all modules above, their runs, and the proofs listed, which cover every
safety property of the passing runs. Left: the
composition of `Bus` and `Simulator`, with plugins that the user attaches to
addresses of their own in place of the fixed two, and of `Simulator` with the
heap of `InterruptController` in place of the queue it implements.
