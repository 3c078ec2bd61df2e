---------------------------------- MODULE Files ----------------------------------
(***************************************************************************)
(* A file in ~/.botniklas, as bots that share the directory use it:        *)
(* files.c, with log_append() of chat_log.c and save_reminder() of         *)
(* remind.c, which append a line, and get_file_contents(), which reads the *)
(* file while others may change it.  Any system call may fail, and steps   *)
(* of bots come between each other's system calls.                         *)
(***************************************************************************)
EXTENDS Naturals, SequencesExt

CONSTANTS
    Bot,            \* the processes
    MaxLines,       \* bound: the lines that the bots append
    MaxFaults       \* bound: the system calls that fail

ASSUME FilesAssumption == {MaxLines, MaxFaults} \subseteq Nat

VARIABLES
    dir,            \* whether ~/.botniklas exists
    exists,         \* whether the file does
    file,           \* what is in it
    edited,         \* somebody has emptied it
    lines,          \* how many lines have been begun
    bot,            \* each process
    warned,         \* the lines that a warning was printed for
    short,          \* the lines that one write did not take as a whole
    faults          \* how many system calls have failed

diskVars == <<dir, exists, file, edited>>
vars == <<diskVars, lines, bot, warned, short, faults>>

\* "open" to "reopen" are open_file(), "fdopen" to "flush" log_append() and
\* save_reminder(), "fstat" to "returned" get_file_contents().
PCs == {"idle", "open", "mkdir", "reopen", "fdopen", "print", "flush",
        "fstat", "read", "returned"}

Line == 1..MaxLines

\* A line in the file is the two halves that it may be written in.
Half(l) == << <<l, 1>>, <<l, 2>> >>
Text == Seq(Line \X {1, 2})

Idle == [pc |-> "idle",
         line |-> 0,        \* the line to append; 0: the file is to be read
         fds |-> 0,         \* open descriptors
         leaks |-> 0,       \* fdopen() failed so often
         todo |-> <<>>,     \* what stdio holds of the line
         size |-> 0,        \* st_size
         buf |-> <<>>,      \* buf of get_file_contents()
         then |-> <<>>]     \* the file as it was at fstat()

Init ==
    /\ dir \in BOOLEAN
    /\ exists = FALSE
    /\ file = <<>>
    /\ edited = FALSE
    /\ lines = 0
    /\ bot = [b \in Bot |-> Idle]
    /\ warned = {}
    /\ short = {}
    /\ faults = 0

At(b, p) == bot[b].pc = p
Appends(b) == bot[b].line > 0      \* mode = APPEND
This(b) == {bot[b].line} \ {0}

Go(b, p) == bot' = [bot EXCEPT ![b].pc = p]
Return(b, open) ==
    bot' = [bot EXCEPT ![b] = [Idle EXCEPT !.leaks = bot[b].leaks, !.fds = open]]
Well == UNCHANGED <<lines, warned, short, faults>>
Warn(b) == warned' = warned \cup This(b) /\ UNCHANGED <<lines, short>>
Fails(b) ==
    /\ faults < MaxFaults
    /\ faults' = faults + 1
    /\ Warn(b)

-------------------------------------------------------------------------------
(* open_file() *)

\* log_append() or save_reminder()
AppendLine(b) ==
    /\ At(b, "idle")
    /\ lines < MaxLines
    /\ lines' = lines + 1
    /\ bot' = [bot EXCEPT ![b].pc = "open", ![b].line = lines']
    /\ UNCHANGED <<diskVars, warned, short, faults>>

Read(b) ==
    /\ At(b, "idle")
    /\ Go(b, "open")
    /\ Well
    /\ UNCHANGED diskVars

Opened(b) ==
    /\ exists' = TRUE
    /\ bot' = [bot EXCEPT ![b].fds = @ + 1,
                          ![b].pc = IF Appends(b) THEN "fdopen" ELSE "fstat"]
    /\ Well
    /\ UNCHANGED <<dir, file, edited>>

\* open() finds the file, or creates it.
Open(b) ==
    /\ At(b, "open")
    /\ dir
    /\ exists \/ Appends(b)
    /\ Opened(b)

\* ENOENT
NotFound(b) ==
    /\ At(b, "open")
    /\ ~dir \/ (~exists /\ ~Appends(b))
    /\ IF Appends(b) THEN Go(b, "mkdir") ELSE Return(b, bot[b].fds)
    /\ Well
    /\ UNCHANGED diskVars

\* No home directory, or another error of open(), or one of mkdir(); or, before
\* all of it, the time for the log cannot be had (format_now()).
OpenFails(b) ==
    /\ bot[b].pc \in {"open", "mkdir", "reopen"}
    /\ Fails(b)
    /\ Return(b, bot[b].fds)
    /\ UNCHANGED diskVars

Mkdir(b) ==
    /\ At(b, "mkdir")
    /\ ~dir
    /\ dir' = TRUE
    /\ Go(b, "reopen")
    /\ Well
    /\ UNCHANGED <<exists, file, edited>>

\* EEXIST: another bot has made the directory since open() did not find it.
MkdirTooLate(b) ==
    /\ At(b, "mkdir")
    /\ dir
    /\ Warn(b)
    /\ Return(b, bot[b].fds)
    /\ UNCHANGED <<diskVars, faults>>

\* Deliberately wrong variants of an operation, here and below, each followed
\* by the operation: with one in its place a property must fail.

\* Wrong: the path still ends with the directory.
ReopenDir(b) ==
    /\ At(b, "reopen")
    /\ Warn(b)
    /\ Return(b, bot[b].fds)
    /\ UNCHANGED <<diskVars, faults>>

Reopen(b) ==
    /\ At(b, "reopen")
    /\ Opened(b)

-------------------------------------------------------------------------------
(* open_file_stdio(), log_append() and save_reminder() *)

Fdopen(b) ==
    /\ At(b, "fdopen")
    /\ Go(b, "print")
    /\ Well
    /\ UNCHANGED diskVars

\* The descriptor stays open.
FdopenFails(b) ==
    /\ At(b, "fdopen")
    /\ Fails(b)
    /\ bot' = [bot EXCEPT ![b] = [Idle EXCEPT !.leaks = bot[b].leaks + 1,
                                              !.fds = bot[b].fds]]
    /\ UNCHANGED diskVars

\* fprintf(), vfprintf() and fputc() put the line in the buffer of stdio, or
\* one of them fails after a part of it.
PrintLine(b) ==
    /\ At(b, "print")
    /\ \/ bot' = [bot EXCEPT ![b].pc = "flush",
                             ![b].todo = Half(bot[b].line)]
          /\ Well
       \/ \E n \in 0..1 :
            bot' = [bot EXCEPT ![b].pc = "flush",
                        ![b].todo = SubSeq(Half(bot[b].line), 1, n)]
          /\ Fails(b)
    /\ UNCHANGED diskVars

\* fclose() writes what is in the buffer, at the end of the file; a write may
\* take only a part of it.
Flush(b) ==
    /\ At(b, "flush")
    /\ \E n \in 1..Len(bot[b].todo) :
         /\ file' = file \o SubSeq(bot[b].todo, 1, n)
         /\ bot' = [bot EXCEPT ![b].todo = SubSeq(@, n + 1, Len(@))]
         /\ short' = short \cup IF n < Len(bot[b].todo) THEN This(b) ELSE {}
    /\ UNCHANGED <<dir, exists, edited, lines, warned, faults>>

\* Wrong: the result of fclose() is not looked at.
FlushFailsSilently(b) ==
    /\ At(b, "flush")
    /\ faults < MaxFaults
    /\ faults' = faults + 1
    /\ Return(b, bot[b].fds - 1)
    /\ UNCHANGED <<diskVars, lines, warned, short>>

\* A write fails, or the close() after them; the descriptor is closed.
FlushFails(b) ==
    /\ At(b, "flush")
    /\ Fails(b)
    /\ Return(b, bot[b].fds - 1)
    /\ UNCHANGED diskVars

Fclose(b) ==
    /\ At(b, "flush")
    /\ bot[b].todo = <<>>
    /\ Return(b, bot[b].fds - 1)
    /\ Well
    /\ UNCHANGED diskVars

-------------------------------------------------------------------------------
(* get_file_contents() *)

Fstat(b) ==
    /\ At(b, "fstat")
    /\ bot' = [bot EXCEPT ![b].pc = "read", ![b].size = Len(file),
                          ![b].then = file]
    /\ Well
    /\ UNCHANGED diskVars

\* What read() may return, from the place after buf: nothing at the end.
Chunks(b, max) ==
    LET from == Len(bot[b].buf)
    IN  {SubSeq(file, from + 1, from + n) :
            n \in 1..(IF Len(file) < max THEN Len(file) - from ELSE max - from)}

\* Wrong: what was added since fstat() is read, too.
ReadAll(b) ==
    /\ At(b, "read")
    /\ \E c \in Chunks(b, Len(file)) :
         bot' = [bot EXCEPT ![b].buf = @ \o c]
    /\ Well
    /\ UNCHANGED diskVars

\* Wrong: one read() is taken for all.
ReadOnce(b) ==
    /\ At(b, "read")
    /\ \E c \in Chunks(b, bot[b].size) :
         bot' = [bot EXCEPT ![b].buf = @ \o c, ![b].fds = @ - 1,
                            ![b].pc = "returned"]
    /\ Well
    /\ UNCHANGED diskVars

\* EINTR leads back to the same call.
ReadSome(b) ==
    /\ At(b, "read")
    /\ \E c \in Chunks(b, bot[b].size) :
         bot' = [bot EXCEPT ![b].buf = @ \o c]
    /\ Well
    /\ UNCHANGED diskVars

\* All that was there is read, or the file has become shorter.
ReadEnds(b) ==
    /\ At(b, "read")
    /\ \/ Len(bot[b].buf) = bot[b].size
       \/ Len(bot[b].buf) >= Len(file)
    /\ bot' = [bot EXCEPT ![b].pc = "returned", ![b].fds = @ - 1]
    /\ Well
    /\ UNCHANGED diskVars

\* Wrong: an error returns at once.
ReadFailsOpen(b) ==
    /\ bot[b].pc \in {"fstat", "read"}
    /\ Fails(b)
    /\ Return(b, bot[b].fds)
    /\ UNCHANGED diskVars

\* fstat() or read() fails, or it is not a regular file.
ReadFails(b) ==
    /\ bot[b].pc \in {"fstat", "read"}
    /\ Fails(b)
    /\ Return(b, bot[b].fds - 1)
    /\ UNCHANGED diskVars

\* The caller frees what it got.
Use(b) ==
    /\ At(b, "returned")
    /\ Return(b, bot[b].fds)
    /\ Well
    /\ UNCHANGED diskVars

\* "for ease of manual editing": somebody empties the file.
Edit ==
    /\ exists
    /\ ~edited
    /\ file' = <<>>
    /\ edited' = TRUE
    /\ UNCHANGED <<dir, exists, lines, bot, warned, short, faults>>

BotNext(b) ==
    \/ AppendLine(b) \/ Read(b)
    \/ Open(b) \/ NotFound(b) \/ OpenFails(b)
    \/ Mkdir(b) \/ MkdirTooLate(b) \/ Reopen(b)
    \/ Fdopen(b) \/ FdopenFails(b) \/ PrintLine(b)
    \/ Flush(b) \/ FlushFails(b) \/ Fclose(b)
    \/ Fstat(b) \/ ReadSome(b) \/ ReadEnds(b) \/ ReadFails(b) \/ Use(b)

Next == Edit \/ \E b \in Bot : BotNext(b)

Spec == Init /\ [][Next]_vars

-------------------------------------------------------------------------------
(* Properties *)

BotStates == [pc : PCs, line : 0..MaxLines, fds : Nat, leaks : Nat,
              todo : Text, size : Nat, buf : Text, then : Text]

\* What read() puts into buf fits there.
TypeOK ==
    /\ {dir, exists, edited} \subseteq BOOLEAN
    /\ file \in Text
    /\ lines \in 0..MaxLines
    /\ bot \in [Bot -> BotStates]
    /\ \A b \in Bot : Len(bot[b].buf) <= bot[b].size
    /\ {warned, short} \subseteq SUBSET Line
    /\ faults \in 0..MaxFaults

(***************************************************************************)
(* No way out of these functions leaves a descriptor open, but for one: a  *)
(* failure of fdopen().                                                    *)
(***************************************************************************)
DescriptorsAreClosed ==
    \A b \in Bot : bot[b].pc = "idle" => bot[b].fds = bot[b].leaks

\* The lines that no bot is at work on any more.
Done == (1..lines) \ {bot[b].line : b \in Bot}

\* l is in the file, in two places or in one.
InOrder(l) == \E i, j \in DOMAIN file :
                  i < j /\ file[i] = <<l, 1>> /\ file[j] = <<l, 2>>
InOnePlace(l) == \E i \in 2..Len(file) : SubSeq(file, i - 1, i) = Half(l)

(***************************************************************************)
(* A line that nothing was said about is in the file, in one piece unless  *)
(* a write was short.                                                      *)
(***************************************************************************)
NoSilentLoss ==
    ~edited => \A l \in Done \ warned :
                   IF l \in short THEN InOrder(l) ELSE InOnePlace(l)

(***************************************************************************)
(* If no other system call fails, the bots that find that the directory    *)
(* was made between their open() and mkdir() lose the line they were at,   *)
(* and no other.  The bot that made it loses none, nor does any bot later, *)
(* so that fewer lines are lost than there are bots.                       *)
(***************************************************************************)
OnlyTheRaceLoses ==
    faults = 0 /\ ~edited =>
        Cardinality({l \in Done : ~InOrder(l)}) < Cardinality(Bot)

(***************************************************************************)
(* "The file size could change between the fstat() and read()": what is    *)
(* returned is the file as it was at fstat(), whatever was appended since, *)
(* and in however many pieces it was read, unless it was edited.           *)
(***************************************************************************)
ReadsASnapshot ==
    \A b \in Bot : At(b, "returned") /\ ~edited => bot[b].buf = bot[b].then
===============================================================================
