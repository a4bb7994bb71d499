------------------------------- MODULE Telnet -------------------------------
(* A telnet session of the Plasma kernel (netutil.c): the job thread wakes    *)
(* the thread of the session, which edits the command line, keeps the history *)
(* of commands and runs them. A byte is a symbol, a name or a text a sequence *)
(* of them. The memory of a semaphore that was deleted is not used again      *)
(* before the job thread has looked at it, and the frames never run out.      *)
EXTENDS Integers, Sequences, SequencesExt, FiniteSetsExt

CONSTANTS
    COMMAND_BUFFER_SIZE,    \* 80
    COMMAND_BUFFER_COUNT,   \* 10
    HISTORY_SIZE,           \* bytes of CommandHistory: 400
    TelnetFuncList,         \* name to command, of those that are modelled
    StoredFiles,            \* name to contents or NO_FILE: what a file may be called
    Typings                 \* what is typed: sequences of segments of bytes

VARIABLE telnet

NUL == "nul"                \* the byte 0
NULL == -1                  \* no pointer
DELETED == -2               \* a pointer to what was deleted
NO_FILE == <<NUL>>

\* The socket, the semaphore and the thread of the session, the command line
\* and what the terminal shows of it, the history, and the lines that were
\* entered, the last one first, of which the history can show so many.
NewTelnet(t) == [
    in |-> <<<<>>>> \o t \o <<<<"FIN">>, <<"RST">>>>, got |-> <<>>, jobs |-> 0, state |-> "IP_TCP",
    semaphore |-> NULL, thread |-> "none", userPtr |-> NULL,
    command |-> <<>>, screen |-> <<>>, index |-> 0,
    history |-> [i \in 0..HISTORY_SIZE - 1 |-> NUL],
    ptr |-> [i \in 0..COMMAND_BUFFER_COUNT - 1 |-> NULL],
    lines |-> <<>>,
    files |-> StoredFiles, fileIn |-> NO_FILE, fileOut |-> <<>>]

IsUp(x) == x.state = "IP_TCP"      \* state <= IP_TCP

\* What is written after the prompt stands on the terminal.
Echo(x, text) == IF IsUp(x) THEN [x EXCEPT !.screen = @ \o text] ELSE x
Erase(x, n)   == IF IsUp(x) THEN [x EXCEPT !.screen = SubSeq(@, 1, Len(@) - n)] ELSE x
Prompt(x)     == [x EXCEPT !.screen = <<>>]

-----------------------------------------------------------------------------
(* The history *)

\* The string at an offset of CommandHistory
RECURSIVE StringAt(_, _)
StringAt(x, at) == IF at >= HISTORY_SIZE \/ x.history[at] = NUL THEN <<>>
                   ELSE <<x.history[at]>> \o StringAt(x, at + 1)

\* memmove, strcpy and the last byte
Shifted(history, command) ==
    LET n == Len(command)
    IN  [i \in DOMAIN history |->
            IF i = HISTORY_SIZE - 1 THEN NUL
            ELSE IF i < n THEN command[i + 1] ELSE IF i = n THEN NUL ELSE history[i - n - 1]]

Pointers_tight(ptr, n) ==
    [i \in DOMAIN ptr |->
        IF i = 0 THEN 0
        ELSE IF ptr[i - 1] = NULL \/ ptr[i - 1] + n >= HISTORY_SIZE THEN NULL
        ELSE ptr[i - 1] + n]

\* Every pointer moves on with its string until it would leave the buffer.
Pointers(ptr, n) ==
    [i \in DOMAIN ptr |->
        IF i = 0 THEN 0
        ELSE IF ptr[i - 1] = NULL \/ ptr[i - 1] + n + 1 >= HISTORY_SIZE THEN NULL
        ELSE ptr[i - 1] + n + 1]

FirstOf(seq, n) == SubSeq(seq, 1, Min({n, Len(seq)}))

Saved(x, line) ==
    [x EXCEPT !.command = line, !.history = Shifted(@, line), !.ptr = Pointers(@, Len(line)),
              !.lines = FirstOf(<<line>> \o @, COMMAND_BUFFER_COUNT)]

\* The line on the terminal is erased and the one of the history written.
Recalled(x, index) ==
    LET y == Erase([x EXCEPT !.index = index], Len(x.command))
        line == IF index = 0 \/ x.ptr[index - 1] = NULL THEN <<>>
                ELSE FirstOf(StringAt(x, x.ptr[index - 1]), COMMAND_BUFFER_SIZE - 1)
    IN  Echo([y EXCEPT !.command = line], line)

-----------------------------------------------------------------------------
(* TelnetGetLine *)

\* Behind the bytes that were read the buffer has zeros.
Byte(buf, j) == IF j \in DOMAIN buf THEN buf[j] ELSE NUL

IsBackspace(buf, j) == buf[j] = "backspace" \/ (buf[j] = "escape" /\ Byte(buf, j + 2) = "D")
IsArrow(buf, j) == buf[j] = "escape" /\ Byte(buf, j + 2) \in {"A", "B"}

Backspaced(x) == IF x.command = <<>> THEN x ELSE Erase([x EXCEPT !.command = Front(@)], 1)

Arrow(x, key) ==
    Recalled(x, IF key = "A" THEN Min({x.index + 1, COMMAND_BUFFER_COUNT}) ELSE Max({x.index - 1, 0}))

\* A character fits up to four bytes before the end, the end of the line up to two.
Fits(x, key) == Len(x.command) < COMMAND_BUFFER_SIZE - (IF key \in {"\r", "\n"} THEN 2 ELSE 4)

Typed(x, byte) ==
    LET key == IF byte = NUL THEN "\n" ELSE byte        \* "Linux support"
    IN  IF Fits(x, key) THEN Echo([x EXCEPT !.command = Append(@, key)], <<key>>) ELSE x

\* The byte at j, or the three bytes of an arrow
Edited(x, buf, j) ==
    IF IsBackspace(buf, j) THEN Backspaced(x)
    ELSE IF IsArrow(buf, j) THEN Arrow(x, buf[j + 2]) ELSE Typed(x, buf[j])

\* Where "\r\n" stands, or else "\n"
Starts(command, text) == { i \in DOMAIN command : IsPrefix(text, SubSeq(command, i, Len(command))) }
LineEnd(command) ==
    LET ends == IF Starts(command, <<"\r", "\n">>) # {} THEN Starts(command, <<"\r", "\n">>)
                ELSE Starts(command, <<"\n">>)
    IN  IF ends = {} THEN 0 ELSE Min(ends)

\* The bytes of one read from j on; an empty line is dropped, and a whole one
\* ends it: what was read after it is lost, as after a negotiation (IAC) or an
\* escape that is no arrow.
RECURSIVE TelnetGetLine(_, _, _)
TelnetGetLine(x, buf, j) ==
    IF j > Len(buf) \/ Byte(buf, j) = "IAC" \/ (Byte(buf, j) = "escape" /\ Byte(buf, j + 2) \notin {"A", "B", "D"})
    THEN [x |-> x, line |-> FALSE]
    ELSE LET y    == Edited(x, buf, j)
             next == j + IF buf[j] = "escape" THEN 3 ELSE 1
             end  == LineEnd(y.command)
         IN  CASE end = 0 -> TelnetGetLine(y, buf, next)
               [] end = 1 -> TelnetGetLine(Prompt([y EXCEPT !.command = <<>>]), buf, next)
               [] end > 1 -> [x |-> Saved(y, SubSeq(y.command, 1, end - 1)), line |-> TRUE]

-----------------------------------------------------------------------------
(* The commands *)

Exists(x, name) == name \in DOMAIN x.files /\ x.files[name] # NO_FILE
Store(x, name, contents) == IF name \in DOMAIN x.files THEN [x EXCEPT !.files[name] = contents] ELSE x

\* IPWrite: the file for the output, if there is one, takes it instead of the terminal.
Output(x, text) ==
    IF IsUp(x) /\ x.fileOut # <<>> THEN Store(x, x.fileOut, x.files[x.fileOut] \o text) ELSE x

ConsoleCat(x, argv) == IF Exists(x, argv[1]) THEN Output(x, x.files[argv[1]]) ELSE x

ConsoleCp(x, argv) ==
    IF Exists(x, argv[2]) \/ ~Exists(x, argv[1]) THEN Output(x, <<"!">>)
    ELSE Store(x, argv[2], x.files[argv[1]])

ConsoleRm(x, argv) == Store(x, argv[1], NO_FILE)

\* IPClose
ConsoleExit(x) == [x EXCEPT !.state = "IP_FIN_SERVER"]

\* "run" makes a script the input of the session; without "run" a file that is
\* no program does nothing.
ConsoleRun(x, argv) ==
    LET run  == argv[0] \in DOMAIN TelnetFuncList /\ TelnetFuncList[argv[0]] = "run"
        name == IF run THEN argv[1] ELSE argv[0]
    IN  IF ~Exists(x, name) THEN Output(x, <<"?">>)
        ELSE IF run THEN [x EXCEPT !.fileIn = x.files[name]] ELSE x

\* Words are separated by one blank each; there are ten, the last ones empty.
Argv(line) ==
    LET words == FoldLeft(LAMBDA w, c : IF c = " " /\ Len(w) < 10 THEN Append(w, <<>>)
                                        ELSE [w EXCEPT ![Len(w)] = Append(@, c)], << <<>> >>, line)
    IN  [k \in 0..9 |-> IF k < Len(words) THEN words[k + 1] ELSE <<>>]

\* Word k names a file for the output, which is made, or one for the input.
Redirected(r, k) ==
    LET word == r.argv[k]
        name == IF Len(word) > 1 THEN Tail(word) ELSE r.argv[k + 1]
        y    == IF Exists(r.x, name) THEN r.x ELSE Store(r.x, name, <<>>)
        argv == [r.argv EXCEPT ![k] = <<>>]
    IN  CASE word # <<>> /\ word[1] = ">" ->
               [x |-> [y EXCEPT !.fileOut = IF Exists(y, name) THEN name ELSE <<>>], argv |-> argv]
          [] word # <<>> /\ word[1] = "<" ->
               [x |-> [r.x EXCEPT !.fileIn = IF Exists(r.x, name) THEN r.x.files[name] ELSE NO_FILE], argv |-> argv]
          [] OTHER -> r

\* The command of the table, or else a program
Called(x, argv) ==
    LET func == IF argv[0] \in DOMAIN TelnetFuncList THEN TelnetFuncList[argv[0]] ELSE "run"
    IN  CASE func = "cat"  -> ConsoleCat(x, argv)
          [] func = "cp"   -> ConsoleCp(x, argv)
          [] func = "rm"   -> ConsoleRm(x, argv)
          [] func = "exit" -> ConsoleExit(x)
          [] func = "run"  -> ConsoleRun(x, argv)

\* A line of the user is run, and the file for its output closed.
Run(x, line) ==
    LET r == FoldLeft(Redirected, [x |-> x, argv |-> Argv(line)], <<1, 2, 3, 4, 5, 6, 7, 8>>)
        y == Called(r.x, r.argv)
        z == IF y.fileOut = <<>> THEN y ELSE Store(y, y.fileOut, y.files[y.fileOut] \o <<"\r", "\n">>)
    IN  [z EXCEPT !.fileOut = <<>>]

-----------------------------------------------------------------------------
(* The thread of the session *)

\* IPRead: a byte of the file for the input and a zero at its end, or what came
Read(x) ==
    LET n == Min({Len(x.got), COMMAND_BUFFER_SIZE})
    IN  IF x.fileIn = NO_FILE
        THEN [buf |-> SubSeq(x.got, 1, n), x |-> [x EXCEPT !.got = SubSeq(@, n + 1, Len(@))]]
        ELSE IF x.fileIn = <<>> THEN [buf |-> <<NUL>>, x |-> [x EXCEPT !.fileIn = NO_FILE]]
        ELSE [buf |-> <<Head(x.fileIn)>>, x |-> [x EXCEPT !.fileIn = Tail(@)]]

\* The first turn makes the buffer of the command line and drops what was read.
Welcome(x, memory) ==
    IF memory THEN [x EXCEPT !.userPtr = 0, !.thread = "test"]
    ELSE [x EXCEPT !.state = "IP_FIN_SERVER", !.thread = "test"]

\* A line of blanks is no command; the state of the socket is looked at only
\* after a command.
Obeyed(x, line) ==
    LET y == [x EXCEPT !.command = <<>>]
        z == Run(y, line)
    IN  IF line[1] = " " THEN Prompt(y)
        ELSE IF IsUp(z) THEN Prompt([z EXCEPT !.index = 0]) ELSE [z EXCEPT !.thread = "test"]

\* A turn of the loop of TelnetServerCallback
Turn(x, memory) ==
    LET read == Read(x)
        r    == TelnetGetLine(read.x, read.buf, 1)
    IN  IF x.userPtr = NULL THEN Welcome(read.x, memory)
        ELSE IF read.buf = <<>> THEN [x EXCEPT !.thread = "test"]
        ELSE IF r.line THEN Obeyed(r.x, r.x.command) ELSE r.x

TelnetThread(x, memory) ==
    CASE x.thread = "test" /\ IsUp(x)  -> [x EXCEPT !.thread = "wait"]
      [] x.thread = "test" /\ ~IsUp(x) -> [x EXCEPT !.thread = "delete", !.userPtr = NULL, !.semaphore = DELETED]
      [] x.thread = "wait"   -> [x EXCEPT !.thread = "enter", !.semaphore = @ - 1]
      [] x.thread = "enter"  -> [x EXCEPT !.thread = IF IsUp(x) THEN "turn" ELSE "test"]
      [] x.thread = "turn"   -> Turn(x, memory)
      [] x.thread = "delete" -> [x EXCEPT !.thread = "ended", !.semaphore = NULL]

Runs(x) == x.thread \in {"test", "enter", "turn", "delete"} \/ (x.thread = "wait" /\ x.semaphore > 0)
TelnetRuns == Runs(telnet) /\ telnet' = TelnetThread(telnet, TRUE)

\* There is no memory for the buffer of the command line.
TelnetShort ==
    /\ telnet.thread = "turn" /\ telnet.userPtr = NULL
    /\ telnet' = TelnetThread(telnet, FALSE)

-----------------------------------------------------------------------------
(* The job thread *)

Started(x) == IF IsUp(x) /\ x.semaphore = NULL THEN [x EXCEPT !.semaphore = 0, !.thread = "test"] ELSE x

\* The first call makes the semaphore and the thread; every call wakes it.
TelnetServer(x) ==
    LET y == Started(x) IN IF y.semaphore < 0 THEN y ELSE [y EXCEPT !.semaphore = @ + 1]

TelnetJob ==
    /\ telnet.jobs > 0
    /\ telnet' = TelnetServer([telnet EXCEPT !.jobs = @ - 1])

\* The other side ends the connection, which may be closed already, or breaks it off.
Ended(x, flag) ==
    IF flag = "FIN" /\ IsUp(x) THEN [x EXCEPT !.state = "IP_FIN_CLIENT"]
    ELSE [x EXCEPT !.state = "IP_CLOSED", !.got = <<>>]

\* The connection, then segments of bytes, then its end
TelnetArrive ==
    /\ telnet.in # <<>>
    /\ LET segment == Head(telnet.in)
           x == [telnet EXCEPT !.in = Tail(@), !.jobs = @ + 1]
       IN  telnet' = IF segment \in {<<"FIN">>, <<"RST">>} THEN Ended(x, segment[1])
                     ELSE [x EXCEPT !.got = @ \o segment]

TelnetInit(t) == telnet = NewTelnet(t)
TelnetNext == TelnetArrive \/ TelnetJob \/ TelnetRuns \/ TelnetShort
=============================================================================
