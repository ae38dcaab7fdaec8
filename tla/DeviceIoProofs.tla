--------------------------- MODULE DeviceIoProofs ---------------------------
(***************************************************************************)
(* The safety properties of DeviceIo, for any open files behind the        *)
(* descriptors, any number of failures and a terminal of any capacity.     *)
(***************************************************************************)
EXTENDS DeviceIo, TLAPS

(* What the terminal was is known wherever it may be set back: it is saved *)
(* before it is changed, and changed only from its line mode.              *)
TerminalInv ==
  /\ ~ hung_up => saved_termios \in {"none", "line"}
  /\ at_exit => saved_termios # "none"
  /\ use = "open" /\ tty /\ ~ hung_up => at_exit
  /\ ~ tty => termios = "line" /\ ~ at_exit
  /\ use # "open" /\ ~ hung_up => termios = "line"

(* Open files that are not a descriptor of the program keep their flags.   *)
FlagsInv ==
  /\ use = "closed" => \A file \in File : nonblock[file] => found[file]
  /\ use = "open" =>
       /\ nonblock[infd] /\ nonblock[outfd]
       /\ \A file \in File \ {infd, outfd} : nonblock[file] => found[file]

OnlyLines(seq) == \A k \in 1 .. Len(seq) : seq[k] = "line"

TypedInv == tty /\ ~ hung_up /\ use # "open" => OnlyLines(unread)

IInv == TypeOK /\ TerminalInv /\ FlagsInv /\ TypedInv

-----------------------------------------------------------------------------
(* The helpers *)

(* Flags are set for open files, and stay boolean.                         *)
LEMMA SetFlagType ==
  ASSUME NEW flags \in [File -> BOOLEAN], NEW file, NEW value \in BOOLEAN
  PROVE  /\ SetFlag(flags, file, value) \in [File -> BOOLEAN]
         /\ \A f \in File : SetFlag(flags, file, value)[f] = IF f = file THEN value ELSE flags[f]
BY DEF SetFlag

LEMMA BothNonblocking ==
  ASSUME TypeOK
  PROVE  LET both == set_nonblock(set_nonblock(nonblock, infd), outfd)
         IN  /\ both \in [File -> BOOLEAN]
             /\ \A f \in File : both[f] = IF f \in {infd, outfd} THEN TRUE ELSE nonblock[f]
<1>1. nonblock \in [File -> BOOLEAN]
  BY DEF TypeOK
<1> QED
  BY <1>1 DEF set_nonblock, SetFlag

LEMMA BothBlocking ==
  ASSUME TypeOK
  PROVE  LET both == set_blocking(set_blocking(nonblock, infd), outfd)
         IN  /\ both \in [File -> BOOLEAN]
             /\ \A f \in File : both[f] = IF f \in {infd, outfd} THEN FALSE ELSE nonblock[f]
<1>1. nonblock \in [File -> BOOLEAN]
  BY DEF TypeOK
<1> QED
  BY <1>1 DEF set_blocking, SetFlag

(* Setting the flag of one descriptor and setting it back changes nothing. *)
LEMMA UndoOne ==
  ASSUME TypeOK, NEW value \in BOOLEAN
  PROVE  SetFlag(SetFlag(nonblock, infd, value), infd, nonblock[infd]) = nonblock
BY DEF TypeOK, SetFlag

(* Undone in the opposite order, both flags are as they were, also when    *)
(* the descriptors are one open file.                                      *)
LEMMA UndoBoth == TypeOK => UndoFlags = nonblock
<1> SUFFICES ASSUME TypeOK PROVE UndoFlags = nonblock
  OBVIOUS
<1> DEFINE infd_set == set_nonblock(nonblock, infd)
           both_set == set_nonblock(infd_set, outfd)
           outfd_undone == SetFlag(both_set, outfd, infd_set[outfd])
<1>1. nonblock \in [File -> BOOLEAN] /\ infd \in File /\ outfd \in File
  BY DEF TypeOK, infd, outfd
<1>2. infd_set \in [File -> BOOLEAN]
  BY <1>1, SetFlagType DEF set_nonblock
<1>3. outfd_undone = infd_set
  BY <1>1, <1>2 DEF SetFlag, set_nonblock
<1>4. SetFlag(infd_set, infd, nonblock[infd]) = nonblock
  BY <1>1 DEF SetFlag, set_nonblock
<1> QED
  BY <1>3, <1>4 DEF UndoFlags

LEMMA FlushType ==
  ASSUME Flush, unread \in Seq({"line", "raw"})
  PROVE  unread' \in Seq({"line", "raw"}) /\ (OnlyLines(unread) => OnlyLines(unread)')
BY DEF Flush, OnlyLines

-----------------------------------------------------------------------------
LEMMA InitHolds == Init => IInv
<1> SUFFICES ASSUME Init PROVE IInv
  OBVIOUS
<1>1. TypeOK
  <2>1. data \in [infd : File, outfd : File]
    BY DeviceIoAssumption DEF Init
  <2>2. room \in 0 .. Capacity /\ failures \in 0 .. MaxFailures
    BY DeviceIoAssumption DEF Init
  <2>3. found \in [File -> BOOLEAN] /\ nonblock \in [File -> BOOLEAN]
    BY DEF Init
  <2>4. unread \in Seq({"line", "raw"})
    BY DEF Init
  <2> QED
    BY <2>1, <2>2, <2>3, <2>4 DEF Init, TypeOK
<1>2. TerminalInv /\ FlagsInv
  BY DEF Init, TerminalInv, FlagsInv
<1>3. TypedInv
  BY DEF Init, TypedInv, OnlyLines
<1> QED
  BY <1>1, <1>2, <1>3 DEF IInv

(* The user interface's exit, from the prompt or after device I/O failed.  *)
LEMMA GiveUpKeeps ==
  ASSUME IInv, GiveUp,
         UNCHANGED <<start_up, saved_termios, at_exit, writing, room, hung_up>>,
         nonblock' \in [File -> BOOLEAN],
         failures' \in 0 .. MaxFailures
  PROVE  IInv'
<1> USE DEF start_up
<1>1. TypeOK /\ TerminalInv /\ FlagsInv /\ TypedInv
  BY DEF IInv
<1>2. unread' \in Seq({"line", "raw"}) /\ (OnlyLines(unread) => OnlyLines(unread)')
  BY <1>1, FlushType DEF GiveUp, TypeOK, OnlyLines
<1>3. /\ use' = "exited"
      /\ termios' = IF at_exit /\ ~ hung_up THEN saved_termios ELSE termios
  BY DEF GiveUp
<1>4. TypeOK'
  BY <1>1, <1>2, <1>3 DEF TypeOK, TerminalInv
<1>5. TerminalInv'
  BY <1>1, <1>3 DEF TerminalInv, TypeOK
<1>6. FlagsInv'
  BY <1>3 DEF FlagsInv
<1>7. TypedInv'
  <2>1. CASE use = "open"
    BY <1>1, <1>3, <2>1 DEF TypedInv, TerminalInv, GiveUp, Flush, isatty, OnlyLines
  <2>2. CASE use # "open"
    BY <1>1, <1>2, <2>2 DEF TypedInv
  <2> QED
    BY <2>1, <2>2
<1> QED
  BY <1>4, <1>5, <1>6, <1>7 DEF IInv

LEMMA FailsCounts == TypeOK /\ Fails => failures' \in 0 .. MaxFailures
BY DeviceIoAssumption DEF TypeOK, Fails

LEMMA InvKept == IInv /\ [Next]_vars => IInv'
<1> SUFFICES ASSUME IInv, [Next]_vars PROVE IInv'
  OBVIOUS
<1> USE DEF start_up, settings, stream
<1>1. TypeOK /\ TerminalInv /\ FlagsInv /\ TypedInv
  BY DEF IInv
<1>2. nonblock \in [File -> BOOLEAN] /\ infd \in File /\ outfd \in File
  BY <1>1 DEF TypeOK, infd, outfd
<1>3. CASE Start
  <2> DEFINE both == set_nonblock(set_nonblock(nonblock, infd), outfd)
  <2>1. /\ both \in [File -> BOOLEAN]
        /\ \A f \in File : both[f] = IF f \in {infd, outfd} THEN TRUE ELSE nonblock[f]
    BY <1>1, BothNonblocking
  <2> HIDE DEF both
  <2>2. /\ use = "closed" /\ use' = "open" /\ nonblock' = both
        /\ init_terminal /\ Flush
        /\ UNCHANGED <<data, tty, found, writing, room, hung_up, failures>>
    BY <1>3 DEF Start, both
  <2>3. TypeOK'
    BY <1>1, <2>1, <2>2, FlushType DEF TypeOK, init_terminal
  <2>4. TerminalInv'
    BY <1>1, <2>2 DEF TerminalInv, init_terminal, isatty
  <2>5. FlagsInv'
    BY <1>1, <1>2, <2>1, <2>2 DEF FlagsInv, infd, outfd
  <2>6. TypedInv'
    BY <2>2 DEF TypedInv
  <2> QED
    BY <2>3, <2>4, <2>5, <2>6 DEF IInv
<1>4. CASE StartFailsOnInfd
  BY <1>1, <1>2, <1>4, GiveUpKeeps, FailsCounts DEF StartFailsOnInfd
<1>5. CASE StartFailsOnOutfd
  <2>1. nonblock' = nonblock
    BY <1>1, <1>5, UndoOne DEF StartFailsOnOutfd, set_nonblock
  <2> QED
    BY <1>1, <1>2, <1>5, <2>1, GiveUpKeeps, FailsCounts DEF StartFailsOnOutfd
<1>6. CASE StartFailsOnTerminal
  <2>1. nonblock' = nonblock
    BY <1>1, <1>6, UndoBoth DEF StartFailsOnTerminal
  <2>2. /\ use = "closed" /\ use' = "exited" /\ tty /\ ~ hung_up
        /\ saved_termios' \in {saved_termios, termios}
        /\ termios' = IF at_exit THEN saved_termios' ELSE termios
        /\ Flush
        /\ UNCHANGED <<data, tty, found, at_exit, writing, room, hung_up>>
    BY <1>6 DEF StartFailsOnTerminal, isatty, settled_mode
  <2>3. failures' \in 0 .. MaxFailures
    BY <1>1, <1>6, FailsCounts DEF StartFailsOnTerminal, TypeOK
  <2>4. unread' \in Seq({"line", "raw"}) /\ (OnlyLines(unread) => OnlyLines(unread)')
    BY <1>1, <2>2, FlushType DEF TypeOK
  <2>5. TerminalInv'
    BY <1>1, <2>2 DEF TerminalInv, TypeOK
  <2>6. termios' \in {"line", "raw"} /\ saved_termios' \in {"line", "raw", "none"}
    BY <1>1, <2>2, <2>5 DEF TypeOK, TerminalInv
  <2>7. TypeOK'
    BY <1>1, <1>2, <2>1, <2>2, <2>3, <2>4, <2>6 DEF TypeOK
  <2>8. FlagsInv'
    BY <2>2 DEF FlagsInv
  <2>9. TypedInv'
    BY <1>1, <2>2, <2>4 DEF TypedInv
  <2> QED
    BY <2>5, <2>7, <2>8, <2>9 DEF IInv
<1>7. CASE End
  <2> DEFINE both == set_blocking(set_blocking(nonblock, infd), outfd)
  <2>1. /\ both \in [File -> BOOLEAN]
        /\ \A f \in File : both[f] = IF f \in {infd, outfd} THEN FALSE ELSE nonblock[f]
    BY <1>1, BothBlocking
  <2> HIDE DEF both
  <2>2. /\ use = "open" /\ use' = "closed" /\ nonblock' = both
        /\ termios' = IF tty /\ ~ hung_up THEN saved_termios ELSE termios
        /\ Flush
        /\ UNCHANGED <<data, tty, found, saved_termios, at_exit, writing, room, hung_up, failures>>
    BY <1>7 DEF End, reset_terminal, isatty, both
  <2>3. TerminalInv'
    BY <1>1, <2>2 DEF TerminalInv
  <2>4. unread' \in Seq({"line", "raw"})
    BY <1>1, <2>2, FlushType DEF TypeOK
  <2>5. TypeOK'
    BY <1>1, <2>1, <2>2, <2>4 DEF TypeOK, TerminalInv
  <2>6. FlagsInv'
    BY <1>1, <2>1, <2>2 DEF FlagsInv
  <2>7. TypedInv'
    BY <2>2 DEF TypedInv, Flush, isatty, OnlyLines
  <2> QED
    BY <2>3, <2>5, <2>6, <2>7 DEF IInv
<1>8. CASE EndFailsOnInfd
  BY <1>1, <1>2, <1>8, GiveUpKeeps, FailsCounts DEF EndFailsOnInfd
<1>9. CASE EndFailsOnOutfd
  <2>1. nonblock' = nonblock
    BY <1>1, <1>9, UndoOne DEF EndFailsOnOutfd, set_blocking
  <2> QED
    BY <1>1, <1>2, <1>9, <2>1, GiveUpKeeps, FailsCounts DEF EndFailsOnOutfd
<1>10. CASE Quit
  BY <1>1, <1>2, <1>10, GiveUpKeeps DEF Quit, TypeOK
<1>11. CASE GetChar \/ ReadCommand
  <2>1. /\ unread # <<>> /\ unread' = Tail(unread)
        /\ UNCHANGED <<data, tty, found, nonblock, termios, saved_termios, at_exit, use,
                       writing, room, hung_up, failures>>
    BY <1>11 DEF GetChar, ReadCommand
  <2>2. unread' \in Seq({"line", "raw"}) /\ (OnlyLines(unread) => OnlyLines(unread)')
    BY <1>1, <2>1 DEF TypeOK, OnlyLines
  <2> QED
    BY <1>1, <2>1, <2>2 DEF IInv, TypeOK, TerminalInv, FlagsInv, TypedInv, infd, outfd
<1>12. CASE WriteChar \/ Written \/ WriteFails \/ Drain
  <2>1. /\ writing' \in BOOLEAN
        /\ UNCHANGED <<data, tty, found, nonblock, termios, saved_termios, at_exit, use,
                       unread, hung_up, failures>>
    BY <1>1, <1>12 DEF TypeOK, WriteChar, Written, WriteFails, Drain
  <2>2. room' \in 0 .. Capacity
    BY <1>1, <1>12, DeviceIoAssumption DEF TypeOK, WriteChar, Written, WriteFails, Drain
  <2> QED
    BY <1>1, <2>1, <2>2 DEF IInv, TypeOK, TerminalInv, FlagsInv, TypedInv, OnlyLines, infd, outfd
<1>13. CASE Type
  <2>1. /\ unread' = Append(unread, IF use = "open" THEN "raw" ELSE "line")
        /\ UNCHANGED <<data, tty, found, nonblock, termios, saved_termios, at_exit, use,
                       writing, room, hung_up, failures>>
    BY <1>13 DEF Type
  <2>2. /\ unread' \in Seq({"line", "raw"})
        /\ use # "open" /\ OnlyLines(unread) => OnlyLines(unread)'
    BY <1>1, <2>1 DEF TypeOK, OnlyLines
  <2> QED
    BY <1>1, <2>1, <2>2 DEF IInv, TypeOK, TerminalInv, FlagsInv, TypedInv, infd, outfd
<1>14. CASE HangUp
  <2>1. /\ hung_up' = TRUE
        /\ UNCHANGED <<data, tty, found, nonblock, termios, saved_termios, at_exit, use,
                       writing, room, unread, failures>>
    BY <1>14 DEF HangUp
  <2> QED
    BY <1>1, <2>1 DEF IInv, TypeOK, TerminalInv, FlagsInv, TypedInv, infd, outfd
<1>15. CASE UNCHANGED vars
  BY <1>1, <1>15 DEF vars, IInv, TypeOK, TerminalInv, FlagsInv, TypedInv, OnlyLines, infd, outfd
<1> QED
  BY <1>3, <1>4, <1>5, <1>6, <1>7, <1>8, <1>9, <1>10, <1>11, <1>12, <1>13, <1>14, <1>15 DEF Next

LEMMA InvAlways == Spec => []IInv
BY InitHolds, InvKept, PTL DEF Spec

-----------------------------------------------------------------------------
(* Types of the variables; the terminal is never left half way.            *)
THEOREM TypeCorrect == Spec => []TypeOK
BY InvAlways, PTL DEF IInv

LEMMA InvImplies == IInv => TerminalRestored /\ PollNeverWaits
BY DEF IInv, TypeOK, TerminalInv, FlagsInv, TerminalRestored, PollNeverWaits

(* Outside a run the terminal has the mode in which it was found, after    *)
(* any sequence of runs and failures.                                      *)
THEOREM TerminalAlwaysRestored == Spec => []TerminalRestored
BY InvAlways, InvImplies, PTL

(* In a run no read or write can wait inside the system, whether stdin and *)
(* stdout are one open file or two.                                        *)
THEOREM PollsNeverWait == Spec => []PollNeverWaits
BY InvAlways, InvImplies, PTL

LEMMA StepLeavesFlags ==
  ASSUME IInv, IInv', [Next]_vars,
         use' = "closed" \/ (use = "closed" /\ use' = "exited"),
         NEW file \in File, nonblock'[file]
  PROVE  found[file]
<1>1. found' = found
  BY DEF Next, vars, start_up, Start, StartFailsOnInfd, StartFailsOnOutfd, StartFailsOnTerminal,
         End, EndFailsOnInfd, EndFailsOnOutfd, Quit, GetChar, ReadCommand, WriteChar,
         Written, WriteFails, Drain, Type, HangUp
<1>2. CASE use' = "closed"
  BY <1>1, <1>2 DEF IInv, FlagsInv
<1>3. CASE use = "closed" /\ use' = "exited"
  <2>1. StartFailsOnInfd \/ StartFailsOnOutfd \/ StartFailsOnTerminal \/ Quit
    BY <1>3 DEF Next, vars, Start, End, EndFailsOnInfd, EndFailsOnOutfd, GetChar, ReadCommand,
                WriteChar, Written, WriteFails, Drain, Type, HangUp
  <2>2. CASE StartFailsOnOutfd
    BY <1>1, <1>3, <2>2, UndoOne DEF StartFailsOnOutfd, set_nonblock, IInv, FlagsInv
  <2>3. CASE StartFailsOnTerminal
    BY <1>1, <1>3, <2>3, UndoBoth DEF StartFailsOnTerminal, IInv, FlagsInv
  <2>4. CASE StartFailsOnInfd \/ Quit
    BY <1>3, <2>4 DEF StartFailsOnInfd, Quit, IInv, FlagsInv
  <2> QED
    BY <2>1, <2>2, <2>3, <2>4
<1> QED
  BY <1>2, <1>3

(* No descriptor is left non-blocking that was not, at the prompt or by a  *)
(* start that failed.                                                      *)
THEOREM FlagsLeftAsFound == Spec => LeftAsFound
<1>1. IInv /\ IInv' /\ [Next]_vars =>
        [use' = "closed" \/ (use = "closed" /\ use' = "exited") =>
           \A file \in File : nonblock'[file] => found[file]]_vars
  BY StepLeavesFlags
<1> QED
  BY <1>1, InvAlways, PTL DEF Spec, LeftAsFound

(* What was typed in a run is not read as a command.                       *)
THEOREM KeysStay == Spec => KeysStayInRun
<1>1. IInv => [tty /\ ~ hung_up /\ ReadCommand => Head(unread) = "line"]_vars
  <2> SUFFICES ASSUME IInv, tty, ~ hung_up, use = "closed", unread # <<>>
               PROVE  Head(unread) = "line"
    BY DEF ReadCommand
  <2>1. unread \in Seq({"line", "raw"}) /\ OnlyLines(unread)
    BY DEF IInv, TypeOK, TypedInv
  <2> QED
    BY <2>1 DEF OnlyLines
<1> QED
  BY <1>1, InvAlways, PTL DEF KeysStayInRun

=============================================================================
