------------------------------ MODULE DeviceIo ------------------------------
(***************************************************************************)
(* src/src/device_io_impl.c and terminal.c: before a program runs, both    *)
(* descriptors are made non-blocking and the terminal is taken out of its  *)
(* line mode; afterwards that is undone.  O_NONBLOCK belongs to the open   *)
(* file, which stdin and stdout may have in common.                        *)
(*                                                                         *)
(* Each call is one action; one that fails undoes what it had done.  Calls *)
(* of the system fail where the code tests for it, MaxFailures times in a  *)
(* behaviour.  A terminal that hung up takes and gives no characters.      *)
(***************************************************************************)
EXTENDS Integers, Sequences

CONSTANTS
  File,           \* open files
  Descriptors,    \* the pairs of open files that stdin and stdout may be
  Capacity,       \* characters the terminal takes before write would block
  MaxFailures,    \* bound on the calls that fail
  MaxUnread       \* bound on the characters typed and not read

ASSUME DeviceIoAssumption ==
  /\ Descriptors \subseteq File \X File
  /\ {Capacity, MaxFailures, MaxUnread} \subseteq Nat

VARIABLES
  data,           \* struct device_io_impl_data: infd and outfd
  tty,            \* stdin is a terminal
  found,          \* the flags before the program started
  nonblock,       \* O_NONBLOCK of each open file
  termios,        \* "line" or "raw"
  saved_termios,
  at_exit,        \* termios_atexit is registered
  use,            \* as in DeviceUse
  writing,        \* io_impl_write_char has not returned
  room,           \* what the terminal still takes
  unread,         \* who each character typed and not read is for, "line" or "raw"
  hung_up,
  failures

settings == <<nonblock, termios, saved_termios, at_exit>>
start_up == <<data, tty, found>>
stream == <<writing, room, unread, hung_up>>
vars == <<start_up, settings, use, stream, failures>>

infd == data.infd
outfd == data.outfd

Init ==
  /\ \E d \in Descriptors : data = [infd |-> d[1], outfd |-> d[2]]
  /\ tty \in BOOLEAN
  /\ found \in [File -> BOOLEAN]
  /\ nonblock = found
  /\ termios = "line"
  /\ saved_termios = "none"
  /\ at_exit = FALSE
  /\ use = "closed"
  /\ writing = FALSE /\ room = Capacity /\ unread = <<>> /\ hung_up = FALSE
  /\ failures = 0

Fails == failures < MaxFailures /\ failures' = failures + 1

(* isatty(STDIN_FILENO), which asks the terminal for its settings. *)
isatty == tty /\ ~ hung_up

(* fcntl(file, F_SETFL, ...) *)
SetFlag(flags, file, value) == [flags EXCEPT ![file] = value]

-----------------------------------------------------------------------------
(* io_impl_start *)

(* Fault for PollNeverWaits: the flag is taken from the old status. *)
set_nonblock_and(flags, file) == SetFlag(flags, file, flags[file])

set_nonblock(flags, file) == SetFlag(flags, file, TRUE)

(* Fault for KeysStayInRun: tcsetattr with TCSANOW. *)
FlushNothing == UNCHANGED unread

(* tcsetattr with TCSAFLUSH: what was typed before is dropped. *)
Flush == unread' = IF isatty THEN <<>> ELSE unread

(* Fault for TerminalRestored: termios_atexit is not registered. *)
init_terminal_no_atexit ==
  IF isatty
  THEN /\ saved_termios' = termios
       /\ termios' = "raw"
       /\ UNCHANGED at_exit
  ELSE UNCHANGED <<termios, saved_termios, at_exit>>

(* init_terminal; without a terminal, or when it hung up, there is nothing *)
(* to do.                                                                  *)
init_terminal ==
  IF isatty
  THEN /\ saved_termios' = termios
       /\ termios' = "raw"
       /\ at_exit' = TRUE
  ELSE UNCHANGED <<termios, saved_termios, at_exit>>

Start ==
  /\ use = "closed" /\ ~ writing
  /\ init_terminal
  /\ nonblock' = set_nonblock(set_nonblock(nonblock, infd), outfd)
  /\ use' = "open"
  /\ Flush
  /\ UNCHANGED <<start_up, writing, room, hung_up, failures>>

(* The user interface ends the program when device I/O fails, and leaving  *)
(* the program runs termios_atexit.                                        *)
GiveUp ==
  /\ use' = "exited"
  /\ IF at_exit /\ ~ hung_up THEN termios' = saved_termios /\ Flush
     ELSE UNCHANGED <<termios, unread>>

StartFailsOnInfd ==
  /\ use = "closed" /\ ~ writing
  /\ Fails
  /\ GiveUp
  /\ UNCHANGED <<start_up, nonblock, saved_termios, at_exit, writing, room, hung_up>>

StartFailsOnOutfd ==
  /\ use = "closed" /\ ~ writing
  /\ Fails
  /\ nonblock' = SetFlag(set_nonblock(nonblock, infd), infd, nonblock[infd])
  /\ GiveUp
  /\ UNCHANGED <<start_up, saved_termios, at_exit, writing, room, hung_up>>

(* Fault for LeftAsFound: the flags are undone in the order they were set. *)
UndoFlagsInOrder ==
  LET infd_set == set_nonblock(nonblock, infd)
      both_set == set_nonblock(infd_set, outfd)
  IN  SetFlag(SetFlag(both_set, infd, nonblock[infd]), outfd, infd_set[outfd])

(* outfd, then infd: the order matters when they are one open file.        *)
UndoFlags ==
  LET infd_set == set_nonblock(nonblock, infd)
      both_set == set_nonblock(infd_set, outfd)
  IN  SetFlag(SetFlag(both_set, outfd, infd_set[outfd]), infd, nonblock[infd])

(* Fault for TypeOK: the flags that were accepted are kept. *)
settled_mode_kept == "partly"

(* tcsetattr accepted some of the flags, or all and tcgetattr fails: they  *)
(* are set back.                                                           *)
settled_mode == termios

StartFailsOnTerminal ==
  /\ use = "closed" /\ ~ writing
  /\ isatty
  /\ Fails
  /\ nonblock' = UndoFlags
  /\ saved_termios' \in {saved_termios, termios}
  /\ use' = "exited"
  /\ termios' = IF at_exit THEN saved_termios' ELSE settled_mode
  /\ Flush
  /\ UNCHANGED <<start_up, at_exit, writing, room, hung_up>>

-----------------------------------------------------------------------------
(* io_impl_end *)

set_blocking(flags, file) == SetFlag(flags, file, FALSE)

reset_terminal ==
  /\ termios' = IF isatty THEN saved_termios ELSE termios
  /\ Flush

(* Both descriptors become blocking, whatever they were at the start. *)
End ==
  /\ use = "open" /\ ~ writing
  /\ nonblock' = set_blocking(set_blocking(nonblock, infd), outfd)
  /\ reset_terminal
  /\ use' = "closed"
  /\ UNCHANGED <<start_up, saved_termios, at_exit, writing, room, hung_up, failures>>

EndFailsOnInfd ==
  /\ use = "open" /\ ~ writing
  /\ Fails
  /\ GiveUp
  /\ UNCHANGED <<start_up, nonblock, saved_termios, at_exit, writing, room, hung_up>>

EndFailsOnOutfd ==
  /\ use = "open" /\ ~ writing
  /\ Fails
  /\ nonblock' = SetFlag(set_blocking(nonblock, infd), infd, nonblock[infd])
  /\ GiveUp
  /\ UNCHANGED <<start_up, saved_termios, at_exit, writing, room, hung_up>>

(* quit, or the end of the commands *)
Quit ==
  /\ use = "closed" /\ ~ writing
  /\ GiveUp
  /\ UNCHANGED <<start_up, nonblock, saved_termios, at_exit, writing, room, hung_up, failures>>

-----------------------------------------------------------------------------
(* Characters *)

(* io_impl_get_char when there is one; otherwise it returns 0 or -1. *)
GetChar ==
  /\ use = "open" /\ ~ writing
  /\ unread # <<>>
  /\ unread' = Tail(unread)
  /\ UNCHANGED <<start_up, settings, use, writing, room, hung_up, failures>>

(* get_user_input *)
ReadCommand ==
  /\ use = "closed" /\ ~ writing
  /\ unread # <<>>
  /\ unread' = Tail(unread)
  /\ UNCHANGED <<start_up, settings, use, writing, room, hung_up, failures>>

(* io_impl_write_char: the program writes to the display, or the mem and   *)
(* load commands do.                                                       *)
WriteChar ==
  /\ use # "exited" /\ ~ writing
  /\ writing' = TRUE
  /\ UNCHANGED <<start_up, settings, use, room, unread, hung_up, failures>>

(* The loop tries again while write takes no character; an action that     *)
(* tries in vain changes nothing.                                          *)
Written ==
  /\ writing
  /\ room > 0 /\ ~ hung_up
  /\ room' = room - 1
  /\ writing' = FALSE
  /\ UNCHANGED <<start_up, settings, use, unread, hung_up, failures>>

(* Fault for WriteReturns: an error is tried again, too. *)
WriteFailsRetry ==
  /\ writing
  /\ hung_up
  /\ UNCHANGED vars

WriteFails ==
  /\ writing
  /\ hung_up
  /\ writing' = FALSE
  /\ UNCHANGED <<start_up, settings, use, room, unread, hung_up, failures>>

(* The terminal and its user *)

Drain ==
  /\ ~ hung_up /\ room < Capacity
  /\ room' = room + 1
  /\ UNCHANGED <<start_up, settings, use, writing, unread, hung_up, failures>>

Type ==
  /\ use # "exited" /\ ~ hung_up /\ Len(unread) < MaxUnread
  /\ unread' = Append(unread, IF use = "open" THEN "raw" ELSE "line")
  /\ UNCHANGED <<start_up, settings, use, writing, room, hung_up, failures>>

HangUp ==
  /\ tty /\ ~ hung_up
  /\ hung_up' = TRUE
  /\ UNCHANGED <<start_up, settings, use, writing, room, unread, failures>>

Next ==
  \/ Start \/ StartFailsOnInfd \/ StartFailsOnOutfd \/ StartFailsOnTerminal
  \/ End \/ EndFailsOnInfd \/ EndFailsOnOutfd
  \/ Quit
  \/ GetChar \/ ReadCommand
  \/ WriteChar \/ Written \/ WriteFails
  \/ Drain \/ Type \/ HangUp

(* The loop of write_char goes on, and a terminal that did not hang up     *)
(* drains.  Nobody has to type, nor to run or end a program.               *)
Fairness == WF_vars(Written) /\ WF_vars(WriteFails) /\ WF_vars(Drain)

Spec == Init /\ [][Next]_vars /\ Fairness

-----------------------------------------------------------------------------
(* Properties *)

(* Types of the variables; the terminal is never left with only some of    *)
(* its flags set.                                                          *)
TypeOK ==
  /\ data \in [infd : File, outfd : File]
  /\ tty \in BOOLEAN /\ at_exit \in BOOLEAN /\ writing \in BOOLEAN /\ hung_up \in BOOLEAN
  /\ found \in [File -> BOOLEAN] /\ nonblock \in [File -> BOOLEAN]
  /\ termios \in {"line", "raw"}
  /\ saved_termios \in {"line", "raw", "none"}
  /\ use \in {"closed", "open", "exited"}
  /\ room \in 0 .. Capacity
  /\ unread \in Seq({"line", "raw"})
  /\ failures \in 0 .. MaxFailures

(* Whenever the user interface prompts, and when the program is left, by   *)
(* whatever way and after any failure, the terminal has the mode in which  *)
(* it was found, unless it is gone.                                        *)
TerminalRestored == use # "open" /\ ~ hung_up => termios = "line"

(* At the prompt, and after a start that failed half way, no descriptor    *)
(* has become non-blocking that was not: get_user_input would fail at      *)
(* once.  (An end that fails leaves one so, and the program.)              *)
LeftAsFound ==
  [][use' = "closed" \/ (use = "closed" /\ use' = "exited") =>
       \A file \in File : nonblock'[file] => found[file]]_vars

(* While a program runs, neither get_char nor write_char can wait inside   *)
(* the system, also when stdin and stdout are one open file.               *)
PollNeverWaits == use = "open" => nonblock[infd] /\ nonblock[outfd]

(* At a terminal, what was typed for the program is not taken for a        *)
(* command: leaving raw mode drops what the program did not poll.          *)
KeysStayInRun ==
  [][tty /\ ~ hung_up /\ ReadCommand => Head(unread) = "line"]_vars

(* write_char returns: the terminal drains, or hangs up and write fails.   *)
WriteReturns == writing ~> ~ writing

=============================================================================
