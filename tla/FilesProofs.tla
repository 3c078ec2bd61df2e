------------------------------- MODULE FilesProofs -------------------------------
(***************************************************************************)
(* However many bots share the directory, however many calls fail and      *)
(* whoever appends meanwhile: no descriptor stays open but those of failed *)
(* calls of fdopen(), and what is read is what was there.                  *)
(***************************************************************************)
EXTENDS Files, SequenceTheorems, FiniteSetTheorems, TLAPS

Working == {"fdopen", "print", "flush", "fstat", "read"}
Reading == {"read", "returned"}
Writing == {"mkdir", "reopen", "fdopen", "print", "flush"}

\* then is what the file f began with, and buf what then begins with.
Snapshot(r, f) ==
    /\ r.size = Len(r.then)
    /\ Len(r.then) <= Len(f)
    /\ \A i \in 1..Len(r.then) : r.then[i] = f[i]
    /\ \A i \in 1..Len(r.buf) : r.buf[i] = r.then[i]

\* A process whose state is r, with the file f, which somebody edited if e.
Good(r, f, e) ==
    /\ r \in BotStates
    /\ Len(r.buf) <= r.size
    /\ r.fds = r.leaks + (IF r.pc \in Working THEN 1 ELSE 0)
    /\ r.pc \notin Reading => r.buf = <<>>
    /\ r.pc \in Writing => r.line > 0
    /\ ~e /\ r.pc \in Reading => Snapshot(r, f)
    /\ ~e /\ r.pc = "returned" => Len(r.buf) = r.size

Disk ==
    /\ {dir, exists, edited} \subseteq BOOLEAN
    /\ file \in Text
    /\ lines \in 0..MaxLines
    /\ {warned, short} \subseteq SUBSET Line
    /\ faults \in 0..MaxFaults

\* The inductive invariant.
IInv ==
    /\ Disk
    /\ bot \in [Bot -> BotStates]
    /\ \A b \in Bot : Good(bot[b], file, edited)

-------------------------------------------------------------------------------
(* What a step keeps *)

\* The file may be appended to.
LEMMA GoodAppend ==
    ASSUME NEW f \in Text, NEW t \in Text, NEW e, NEW r, Good(r, f, e)
    PROVE  Good(r, f \o t, e)
<1>1. CASE ~e /\ r.pc \in Reading
  <2>1. Len(f \o t) = Len(f) + Len(t) /\ Len(t) \in Nat /\ Len(f) \in Nat
    BY DEF Text
  <2>2. \A i \in 1..Len(f) : (f \o t)[i] = f[i]
    BY DEF Text
  <2>3. Len(r.then) \in Nat
    BY DEF Good, BotStates, Text
  <2>4. Snapshot(r, f \o t)
    BY <1>1, <2>1, <2>2, <2>3 DEF Good, Snapshot
  <2> QED
    BY <2>4 DEF Good
<1> QED
  BY <1>1 DEF Good

\* A step of one process, which may append to the file.
LEMMA OneBot ==
    ASSUME IInv, Disk', NEW b \in Bot, NEW r, NEW t \in Text,
           bot' = [bot EXCEPT ![b] = r],
           file' = file \o t, edited' = edited,
           Good(r, file', edited')
    PROVE  IInv'
<1>1. bot' \in [Bot -> BotStates]
  BY DEF IInv, Good
<1>2. ASSUME NEW c \in Bot PROVE Good(bot'[c], file', edited')
  <2>1. CASE c = b
    BY <2>1 DEF IInv
  <2>2. CASE c # b
    <3>1. bot'[c] = bot[c] /\ Good(bot[c], file, edited) /\ file \in Text
      BY <2>2 DEF IInv, Disk
    <3> QED
      BY <3>1, GoodAppend
  <2> QED
    BY <2>1, <2>2
<1> QED
  BY <1>1, <1>2 DEF IInv

LEMMA OneBotOnly ==
    ASSUME IInv, Disk', NEW b \in Bot, NEW r,
           bot' = [bot EXCEPT ![b] = r],
           file' = file, edited' = edited,
           Good(r, file, edited)
    PROVE  IInv'
<1>1. file \in Text /\ <<>> \in Text /\ file \o <<>> = file
  BY DEF IInv, Disk, Text
<1> QED
  BY <1>1, OneBot

\* What is true of the state of a process.
LEMMA BotFacts ==
    ASSUME IInv, NEW b \in Bot
    PROVE  /\ Good(bot[b], file, edited)
           /\ bot[b] \in BotStates
           /\ file \in Text
           /\ Len(file) \in Nat
           /\ Len(bot[b].buf) \in Nat
           /\ Len(bot[b].then) \in Nat
           /\ bot[b].size \in Nat
BY DEF IInv, Disk, BotStates, Text

LEMMA IdleIsGood ==
    ASSUME NEW f, NEW e, NEW n \in Nat
    PROVE  Good([Idle EXCEPT !.leaks = n, !.fds = n], f, e)
<1>1. <<>> \in Text /\ Len(<<>>) = 0
  BY DEF Text
<1>2. 0 \in 0..MaxLines
  BY FilesAssumption
<1> DEFINE r == [Idle EXCEPT !.leaks = n, !.fds = n]
<1>3. Idle \in BotStates
  BY <1>1, <1>2 DEF Idle, BotStates, PCs
<1>4. r \in BotStates
  BY <1>3 DEF BotStates
<1>5. /\ r.pc = Idle.pc /\ r.buf = Idle.buf /\ r.size = Idle.size
      /\ r.fds = n /\ r.leaks = n
  BY <1>3 DEF BotStates
<1>6. Idle.pc = "idle" /\ Idle.buf = <<>> /\ Idle.size = 0
  BY DEF Idle
<1> HIDE DEF r
<1>7. Good(r, f, e)
  BY <1>1, <1>4, <1>5, <1>6 DEF Good, Working, Reading, Writing
<1> QED
  BY <1>7 DEF r

\* A function returns and has closed what it opened.
LEMMA Returns ==
    ASSUME IInv, Disk', NEW b \in Bot, NEW open, Return(b, open),
           open = bot[b].leaks,
           file' = file, edited' = edited
    PROVE  IInv'
<1>1. bot[b].leaks \in Nat
  BY BotFacts DEF BotStates
<1>2. Good([Idle EXCEPT !.leaks = bot[b].leaks, !.fds = open], file, edited)
  BY <1>1, IdleIsGood
<1> QED
  BY <1>2, OneBotOnly DEF Return

\* Where the descriptors of a process stand, for the callers of Return.
LEMMA Descriptors ==
    ASSUME IInv, NEW b \in Bot
    PROVE  /\ bot[b].pc \in Working => bot[b].fds - 1 = bot[b].leaks
           /\ bot[b].pc \notin Working => bot[b].fds = bot[b].leaks
           /\ bot[b].leaks \in Nat
BY BotFacts DEF Good, BotStates

LEMMA ThisIsLine ==
    ASSUME IInv, NEW b \in Bot
    PROVE  This(b) \subseteq Line
BY BotFacts, FilesAssumption DEF This, Line, BotStates

LEMMA HalfIsText ==
    ASSUME NEW l \in Line
    PROVE  Half(l) \in Text /\ \A n \in 0..1 : SubSeq(Half(l), 1, n) \in Text
<1>1. Half(l) \in Seq(Line \X {1, 2}) /\ Len(Half(l)) = 2
  BY DEF Half
<1>2. ASSUME NEW n \in 0..1 PROVE SubSeq(Half(l), 1, n) \in Seq(Line \X {1, 2})
  <2>1. \A i \in 1..n : Half(l)[i] \in Line \X {1, 2}
    BY <1>1
  <2> QED
    BY <2>1, SubSeqProperties
<1> QED
  BY <1>1, <1>2 DEF Text

LEMMA WellDisk ==
    ASSUME IInv, Well, {dir', exists'} \subseteq BOOLEAN,
           edited' = edited, file' = file
    PROVE  Disk'
BY DEF IInv, Disk, Well, Line

LEMMA FailsDisk ==
    ASSUME IInv, NEW b \in Bot, Fails(b), UNCHANGED diskVars
    PROVE  Disk'
BY ThisIsLine, FilesAssumption DEF IInv, Disk, Fails, Warn, diskVars, Line

-------------------------------------------------------------------------------
(* Each action *)

LEMMA Starts ==
    ASSUME IInv, NEW b \in Bot, AppendLine(b) \/ Read(b)
    PROVE  IInv'
<1>1. CASE AppendLine(b)
  <2> DEFINE r == [bot[b] EXCEPT !.pc = "open", !.line = lines']
  <2>1. bot' = [bot EXCEPT ![b] = r] /\ At(b, "idle")
    BY <1>1 DEF AppendLine
  <2>2. lines' \in 0..MaxLines
    BY <1>1, FilesAssumption DEF AppendLine, IInv, Disk
  <2>3. Good(r, file, edited)
    BY <2>1, <2>2, BotFacts DEF Good, BotStates, PCs, Working, Reading, Writing, At
  <2>4. Disk' /\ file' = file /\ edited' = edited
    BY <1>1, <2>2 DEF AppendLine, IInv, Disk, diskVars
  <2> QED
    BY <2>1, <2>3, <2>4, OneBotOnly
<1>2. CASE Read(b)
  <2> DEFINE r == [bot[b] EXCEPT !.pc = "open"]
  <2>1. bot' = [bot EXCEPT ![b] = r] /\ At(b, "idle")
    BY <1>2 DEF Read, Go
  <2>2. Good(r, file, edited)
    BY <2>1, BotFacts DEF Good, BotStates, PCs, Working, Reading, Writing, At
  <2>3. Disk' /\ file' = file /\ edited' = edited
    BY <1>2, WellDisk DEF Read, diskVars, IInv, Disk
  <2> QED
    BY <2>1, <2>2, <2>3, OneBotOnly
<1> QED
  BY <1>1, <1>2

LEMMA Opens ==
    ASSUME IInv, NEW b \in Bot, Open(b) \/ Reopen(b)
    PROVE  IInv'
<1>0. PICK p \in {"fdopen", "fstat"} :
          /\ p = IF Appends(b) THEN "fdopen" ELSE "fstat"
          /\ p = "fdopen" => bot[b].line > 0
  BY DEF Appends
<1> DEFINE r == [bot[b] EXCEPT !.fds = @ + 1, !.pc = p]
<1>1. bot' = [bot EXCEPT ![b] = r] /\ bot[b].pc \in {"open", "reopen"}
  BY <1>0 DEF Open, Reopen, Opened, At
<1>2. Good(bot[b], file, edited) /\ bot[b] \in BotStates
  BY BotFacts
<1>3. p \in PCs /\ bot[b].fds + 1 \in Nat
  BY <1>2 DEF BotStates, PCs
<1>4. r \in BotStates
  BY <1>2, <1>3 DEF BotStates
<1>5. /\ r.pc = p /\ r.buf = bot[b].buf /\ r.size = bot[b].size
      /\ r.fds = bot[b].fds + 1 /\ r.leaks = bot[b].leaks /\ r.line = bot[b].line
  BY <1>2 DEF BotStates
<1>6. bot[b].fds = bot[b].leaks /\ bot[b].leaks \in Nat /\ bot[b].buf = <<>>
  <2>1. bot[b].pc \notin Working /\ bot[b].pc \notin Reading
    BY <1>1 DEF Working, Reading
  <2> QED
    BY <1>2, <2>1, Descriptors DEF Good
<1> HIDE DEF r
<1>7. Good(r, file, edited)
  BY <1>0, <1>2, <1>4, <1>5, <1>6 DEF Good, Working, Reading, Writing
<1> USE DEF r
<1>8. Disk' /\ file' = file /\ edited' = edited
  BY WellDisk DEF Open, Reopen, Opened, IInv, Disk
<1> QED
  BY <1>1, <1>7, <1>8, OneBotOnly

LEMMA Moves ==
    ASSUME IInv, NEW b \in Bot, NEW p \in PCs \ Reading,
           Go(b, p), bot[b].pc \notin Reading,
           bot[b].pc \in Working <=> p \in Working,
           p \in Writing => bot[b].line > 0,
           Disk', file' = file, edited' = edited
    PROVE  IInv'
<1> DEFINE r == [bot[b] EXCEPT !.pc = p]
<1>1. bot' = [bot EXCEPT ![b] = r]
  BY DEF Go
<1>2. Good(bot[b], file, edited) /\ bot[b] \in BotStates
  BY BotFacts
<1>3. r \in BotStates
  BY <1>2 DEF BotStates
<1>4. /\ r.pc = p /\ r.buf = bot[b].buf /\ r.size = bot[b].size
      /\ r.fds = bot[b].fds /\ r.leaks = bot[b].leaks /\ r.line = bot[b].line
  BY <1>2 DEF BotStates
<1> HIDE DEF r
<1>5. Good(r, file, edited)
  BY <1>2, <1>3, <1>4 DEF Good, Reading
<1> USE DEF r
<1> QED
  BY <1>1, <1>5, OneBotOnly

LEMMA Makes ==
    ASSUME IInv, NEW b \in Bot, NotFound(b) \/ Mkdir(b) \/ MkdirTooLate(b)
    PROVE  IInv'
<1>1. CASE NotFound(b) /\ Appends(b)
  <2>1. Disk' /\ file' = file /\ edited' = edited
    BY <1>1, WellDisk DEF NotFound, diskVars, IInv, Disk
  <2>2. Go(b, "mkdir") /\ bot[b].pc = "open" /\ bot[b].line > 0
    BY <1>1 DEF NotFound, At, Appends
  <2> QED
    BY <2>1, <2>2, Moves DEF PCs, Reading, Working, Writing
<1>2. CASE NotFound(b) /\ ~Appends(b)
  <2>1. Disk' /\ file' = file /\ edited' = edited
    BY <1>2, WellDisk DEF NotFound, diskVars, IInv, Disk
  <2>2. Return(b, bot[b].fds) /\ bot[b].fds = bot[b].leaks
    BY <1>2, Descriptors DEF NotFound, At, Working
  <2> QED
    BY <2>1, <2>2, Returns
<1>3. CASE Mkdir(b)
  <2>1. Disk' /\ file' = file /\ edited' = edited
    BY <1>3, WellDisk DEF Mkdir, IInv, Disk
  <2>2. Go(b, "reopen") /\ bot[b].pc = "mkdir" /\ bot[b].line > 0
    BY <1>3, BotFacts DEF Mkdir, At, Good, Writing
  <2> QED
    BY <2>1, <2>2, Moves DEF PCs, Reading, Working, Writing
<1>4. CASE MkdirTooLate(b)
  <2>1. Disk' /\ file' = file /\ edited' = edited
    BY <1>4, ThisIsLine DEF MkdirTooLate, Warn, diskVars, IInv, Disk
  <2>2. Return(b, bot[b].fds) /\ bot[b].fds = bot[b].leaks
    BY <1>4, Descriptors DEF MkdirTooLate, At, Working
  <2> QED
    BY <2>1, <2>2, Returns
<1> QED
  BY <1>1, <1>2, <1>3, <1>4

\* Any system call that fails, but for those of fprintf() and fdopen().
LEMMA Failures ==
    ASSUME IInv, NEW b \in Bot, OpenFails(b) \/ FlushFails(b) \/ ReadFails(b)
    PROVE  IInv'
<1>1. Disk' /\ file' = file /\ edited' = edited
  BY FailsDisk DEF OpenFails, FlushFails, ReadFails, diskVars
<1>2. \/ Return(b, bot[b].fds) /\ bot[b].pc \notin Working
      \/ Return(b, bot[b].fds - 1) /\ bot[b].pc \in Working
  BY DEF OpenFails, FlushFails, ReadFails, At, Working
<1>3. CASE Return(b, bot[b].fds) /\ bot[b].pc \notin Working
  BY <1>1, <1>3, Descriptors, Returns
<1>4. CASE Return(b, bot[b].fds - 1) /\ bot[b].pc \in Working
  BY <1>1, <1>4, Descriptors, Returns
<1> QED
  BY <1>2, <1>3, <1>4

LEMMA Prints ==
    ASSUME IInv, NEW b \in Bot, Fdopen(b) \/ FdopenFails(b) \/ PrintLine(b)
    PROVE  IInv'
<1>1. CASE Fdopen(b)
  <2>1. Disk' /\ file' = file /\ edited' = edited
    BY <1>1, WellDisk DEF Fdopen, diskVars, IInv, Disk
  <2>2. Go(b, "print") /\ bot[b].pc = "fdopen" /\ bot[b].line > 0
    BY <1>1, BotFacts DEF Fdopen, At, Good, Writing
  <2> QED
    BY <2>1, <2>2, Moves DEF PCs, Reading, Working, Writing
<1>2. CASE FdopenFails(b)
  <2>1. Disk' /\ file' = file /\ edited' = edited
    BY <1>2, FailsDisk DEF FdopenFails, diskVars
  <2> DEFINE r == [Idle EXCEPT !.leaks = bot[b].leaks + 1, !.fds = bot[b].fds]
  <2>2. bot' = [bot EXCEPT ![b] = r] /\ bot[b].pc = "fdopen"
    BY <1>2 DEF FdopenFails, At
  <2>3. bot[b].fds = bot[b].leaks + 1 /\ bot[b].leaks + 1 \in Nat
    BY <2>2, BotFacts DEF Good, Working, BotStates
  <2>4. Good(r, file, edited)
    BY <2>3, IdleIsGood
  <2> QED
    BY <2>1, <2>2, <2>4, OneBotOnly
<1>3. CASE PrintLine(b)
  <2>1. At(b, "print") /\ file' = file /\ edited' = edited
    BY <1>3 DEF PrintLine, diskVars
  <2>2. bot[b].line \in Line
    BY <2>1, BotFacts, FilesAssumption
    DEF At, Good, Writing, BotStates, Line
  <2>3. PICK text \in Text : bot' = [bot EXCEPT ![b].pc = "flush", ![b].todo = text]
    BY <1>3, <2>2, HalfIsText DEF PrintLine
  <2> DEFINE r == [bot[b] EXCEPT !.pc = "flush", !.todo = text]
  <2>4. Good(r, file, edited)
    BY <2>1, <2>3, BotFacts DEF Good, BotStates, PCs, Working, Reading, Writing, At
  <2>5. Disk'
    BY <1>3, WellDisk, FailsDisk DEF PrintLine, diskVars, IInv, Disk
  <2>6. bot' = [bot EXCEPT ![b] = r]
    BY <2>3
  <2> QED
    BY <2>1, <2>4, <2>5, <2>6, OneBotOnly
<1> QED
  BY <1>1, <1>2, <1>3

\* A part of a text is a text.
LEMMA PartOfText ==
    ASSUME NEW t \in Text, NEW m \in Nat \ {0}, NEW n \in 0..Len(t)
    PROVE  /\ SubSeq(t, m, n) \in Text
           /\ Len(SubSeq(t, m, n)) = IF m <= n THEN n - m + 1 ELSE 0
           /\ \A i \in 1..(n - m + 1) : SubSeq(t, m, n)[i] = t[m + i - 1]
<1>1. t \in Seq(Line \X {1, 2})
  BY DEF Text
<1>2. \A i \in m..n : t[i] \in Line \X {1, 2}
  BY <1>1
<1> QED
  BY <1>2, SubSeqProperties DEF Text

LEMMA Flushes ==
    ASSUME IInv, NEW b \in Bot, Flush(b) \/ Fclose(b)
    PROVE  IInv'
<1>1. CASE Flush(b)
  <2>1. PICK n \in 1..Len(bot[b].todo) :
            /\ file' = file \o SubSeq(bot[b].todo, 1, n)
            /\ bot' = [bot EXCEPT ![b].todo = SubSeq(@, n + 1, Len(@))]
            /\ short' = short \cup
                            IF n < Len(bot[b].todo) THEN This(b) ELSE {}
    BY <1>1 DEF Flush
  <2> DEFINE t == SubSeq(bot[b].todo, 1, n)
             rest == SubSeq(bot[b].todo, n + 1, Len(bot[b].todo))
             r == [bot[b] EXCEPT !.todo = rest]
  <2>2. bot[b].todo \in Text /\ Len(bot[b].todo) \in Nat
    BY BotFacts DEF BotStates, Text
  <2>3. t \in Text /\ rest \in Text
    BY <2>2, PartOfText
  <2> HIDE DEF t, rest
  <2>4. file \o t \in Text /\ file \in Text
    BY <2>3 DEF IInv, Disk, Text
  <2>5. Good(bot[b], file \o t, edited)
    BY <2>3, <2>4, BotFacts, GoodAppend
  <2>6. Good(r, file \o t, edited)
    BY <1>1, <2>3, <2>5 DEF Good, BotStates, Flush, At, Reading
  <2>7. file' = file \o t /\ bot' = [bot EXCEPT ![b] = r] /\ edited' = edited
    BY <1>1, <2>1 DEF Flush, t, rest
  <2>8. Disk'
    BY <1>1, <2>1, <2>4, <2>7, ThisIsLine DEF Flush, IInv, Disk, Line
  <2> QED
    BY <2>3, <2>6, <2>7, <2>8, OneBot
<1>2. CASE Fclose(b)
  <2>1. Disk' /\ file' = file /\ edited' = edited
    BY <1>2, WellDisk DEF Fclose, diskVars, IInv, Disk
  <2>2. Return(b, bot[b].fds - 1) /\ bot[b].fds - 1 = bot[b].leaks
    BY <1>2, Descriptors DEF Fclose, At, Working
  <2> QED
    BY <2>1, <2>2, Returns
<1> QED
  BY <1>1, <1>2

\* fstat() takes the snapshot.
LEMMA Stats ==
    ASSUME IInv, NEW b \in Bot, Fstat(b)
    PROVE  IInv'
<1> DEFINE r == [bot[b] EXCEPT !.pc = "read", !.size = Len(file), !.then = file]
<1>1. Disk' /\ file' = file /\ edited' = edited
  BY WellDisk DEF Fstat, diskVars, IInv, Disk
<1>2. bot' = [bot EXCEPT ![b] = r] /\ bot[b].pc = "fstat"
  BY DEF Fstat, At
<1>3. Good(bot[b], file, edited) /\ bot[b] \in BotStates /\ Len(file) \in Nat
  BY BotFacts
<1>4. bot[b].buf = <<>> /\ bot[b].fds = bot[b].leaks + 1
  BY <1>2, <1>3 DEF Good, Reading, Working
<1>5. r \in BotStates
  BY <1>3, BotFacts DEF BotStates, PCs
<1>6. /\ r.pc = "read" /\ r.buf = <<>> /\ r.size = Len(file) /\ r.then = file
      /\ r.fds = r.leaks + 1
  BY <1>3, <1>4 DEF BotStates
<1> HIDE DEF r
<1>7. Good(r, file, edited)
  BY <1>3, <1>5, <1>6 DEF Good, Working, Reading, Writing, Snapshot
<1> USE DEF r
<1> QED
  BY <1>1, <1>2, <1>7, OneBotOnly

\* read() goes on where it was, and not beyond the size that fstat() gave.
LEMMA ReadsMore ==
    ASSUME IInv, NEW b \in Bot, ReadSome(b)
    PROVE  IInv'
<1>1. Disk' /\ file' = file /\ edited' = edited
  BY WellDisk DEF ReadSome, diskVars, IInv, Disk
<1> DEFINE from == Len(bot[b].buf)
           size == bot[b].size
<1>2. PICK n \in 1..(IF Len(file) < size THEN Len(file) - from ELSE size - from) :
          bot' = [bot EXCEPT ![b].buf = @ \o SubSeq(file, from + 1, from + n)]
  BY DEF ReadSome, Chunks
<1>3. /\ Good(bot[b], file, edited) /\ bot[b] \in BotStates
      /\ file \in Text /\ Len(file) \in Nat /\ from \in Nat /\ size \in Nat
      /\ bot[b].pc = "read" /\ bot[b].buf \in Text
  BY BotFacts DEF ReadSome, At, BotStates
<1>4. from + n \in 0..Len(file) /\ from + n <= size /\ n \in Nat /\ n > 0
  BY <1>3
<1> DEFINE c == SubSeq(file, from + 1, from + n)
           r == [bot[b] EXCEPT !.buf = bot[b].buf \o c]
<1>5. /\ c \in Text /\ Len(c) = n
      /\ \A i \in 1..n : c[i] = file[from + i]
  BY <1>3, <1>4, PartOfText
<1> HIDE DEF c
<1>6. /\ bot[b].buf \o c \in Text
      /\ Len(bot[b].buf \o c) = from + n
      /\ \A i \in 1..(from + n) :
            (bot[b].buf \o c)[i] = IF i <= from THEN bot[b].buf[i] ELSE c[i - from]
  <2>1. bot[b].buf \in Seq(Line \X {1, 2}) /\ c \in Seq(Line \X {1, 2})
    BY <1>3, <1>5 DEF Text
  <2>2. n \in Nat
    BY <1>4
  <2> QED
    BY <1>3, <1>5, <2>1, <2>2, ConcatProperties DEF Text
<1>7. r \in BotStates
  BY <1>3, <1>6 DEF BotStates
<1>8. /\ r.pc = "read" /\ r.buf = bot[b].buf \o c /\ r.size = size
      /\ r.then = bot[b].then /\ r.fds = bot[b].fds /\ r.leaks = bot[b].leaks
  BY <1>3 DEF BotStates
<1> HIDE DEF r
<1>9. ASSUME ~edited PROVE Snapshot(r, file)
  <2>1. Snapshot(bot[b], file)
    BY <1>3, <1>9 DEF Good, Reading
  <2>2. ASSUME NEW i \in 1..Len(r.buf) PROVE r.buf[i] = r.then[i]
    <3>1. i \in 1..(from + n) /\ i \in 1..Len(bot[b].then)
      BY <1>4, <1>6, <1>8, <2>1 DEF Snapshot
    <3>2. CASE i <= from
      BY <1>6, <1>8, <2>1, <3>1, <3>2, <1>3 DEF Snapshot
    <3>3. CASE i > from
      <4>1. i - from \in 1..n /\ from + (i - from) = i
        BY <1>3, <1>4, <3>1, <3>3
      <4>2. r.buf[i] = c[i - from] /\ c[i - from] = file[i]
        BY <1>5, <1>6, <1>8, <3>1, <3>3, <4>1, <1>3
      <4>3. file[i] = bot[b].then[i]
        BY <2>1, <3>1 DEF Snapshot
      <4> QED
        BY <1>8, <4>2, <4>3
    <3> QED
      BY <1>3, <3>1, <3>2, <3>3
  <2> QED
    BY <1>8, <2>1, <2>2 DEF Snapshot
<1>10. Good(r, file, edited)
  BY <1>3, <1>4, <1>6, <1>7, <1>8, <1>9 DEF Good, Working, Reading, Writing
<1>11. bot' = [bot EXCEPT ![b] = r]
  BY <1>2 DEF r, c
<1> QED
  BY <1>1, <1>10, <1>11, OneBotOnly

\* The loop ends with all that was there, unless the file became shorter.
LEMMA ReadsAll ==
    ASSUME IInv, NEW b \in Bot, ReadEnds(b) \/ Use(b)
    PROVE  IInv'
<1>1. CASE ReadEnds(b)
  <2> DEFINE r == [bot[b] EXCEPT !.pc = "returned", !.fds = @ - 1]
  <2>1. Disk' /\ file' = file /\ edited' = edited
    BY <1>1, WellDisk DEF ReadEnds, diskVars, IInv, Disk
  <2>2. bot' = [bot EXCEPT ![b] = r] /\ bot[b].pc = "read"
    BY <1>1 DEF ReadEnds, At
  <2>3. /\ Good(bot[b], file, edited) /\ bot[b] \in BotStates
        /\ Len(bot[b].buf) \in Nat /\ Len(file) \in Nat /\ bot[b].size \in Nat
    BY BotFacts
  <2>4. bot[b].fds - 1 = bot[b].leaks /\ bot[b].leaks \in Nat
    BY <2>2, Descriptors DEF Working
  <2>5. r \in BotStates
    BY <2>3, <2>4 DEF BotStates, PCs
  <2>6. /\ r.pc = "returned" /\ r.buf = bot[b].buf /\ r.size = bot[b].size
        /\ r.then = bot[b].then /\ r.fds = bot[b].fds - 1 /\ r.leaks = bot[b].leaks
    BY <2>3 DEF BotStates
  <2> HIDE DEF r
  <2>7. ~edited => Snapshot(bot[b], file)
    BY <2>2, <2>3 DEF Good, Reading
  <2>8. ~edited => Len(r.buf) = r.size
    BY <1>1, <2>3, <2>6, <2>7 DEF ReadEnds, Snapshot, Good
  <2>9. ~edited => Snapshot(r, file)
    BY <2>6, <2>7 DEF Snapshot
  <2>10. Good(r, file, edited)
    BY <2>3, <2>4, <2>5, <2>6, <2>8, <2>9 DEF Good, Working, Reading, Writing
  <2> USE DEF r
  <2> QED
    BY <2>1, <2>2, <2>10, OneBotOnly
<1>2. CASE Use(b)
  <2>1. Disk' /\ file' = file /\ edited' = edited
    BY <1>2, WellDisk DEF Use, diskVars, IInv, Disk
  <2>2. Return(b, bot[b].fds) /\ bot[b].fds = bot[b].leaks
    BY <1>2, Descriptors DEF Use, At, Working
  <2> QED
    BY <2>1, <2>2, Returns
<1> QED
  BY <1>1, <1>2

LEMMA Edits ==
    ASSUME IInv, Edit
    PROVE  IInv'
<1>1. edited' = TRUE /\ bot' = bot /\ file' = <<>>
  BY DEF Edit
<1>2. Disk'
  BY <1>1 DEF Edit, IInv, Disk, Text
<1>3. ASSUME NEW b \in Bot PROVE Good(bot[b], <<>>, TRUE)
  BY BotFacts DEF Good
<1> QED
  BY <1>1, <1>2, <1>3 DEF IInv

-------------------------------------------------------------------------------
(* The theorems *)

LEMMA InvInit == Init => IInv
<1> SUFFICES ASSUME Init PROVE IInv
  OBVIOUS
<1>1. <<>> \in Text /\ Len(<<>>) = 0
  BY DEF Text
<1>2. Disk
  <2>1. 0 \in 0..MaxLines /\ 0 \in 0..MaxFaults
    BY FilesAssumption
  <2>2. {dir, exists, edited} \subseteq BOOLEAN /\ {warned, short} \subseteq SUBSET Line
    BY DEF Init
  <2> QED
    BY <1>1, <2>1, <2>2 DEF Init, Disk
<1>3. Idle \in BotStates
  BY <1>1, FilesAssumption DEF Idle, BotStates, PCs
<1>4. Idle.pc = "idle" /\ Idle.buf = <<>> /\ Idle.size = 0
      /\ Idle.fds = 0 /\ Idle.leaks = 0
  BY DEF Idle
<1>5. Good(Idle, file, edited)
  BY <1>1, <1>3, <1>4 DEF Good, Working, Reading, Writing
<1> QED
  BY <1>2, <1>3, <1>5 DEF Init, IInv

LEMMA InvNext == IInv /\ [Next]_vars => IInv'
<1> SUFFICES ASSUME IInv, [Next]_vars PROVE IInv'
  OBVIOUS
<1>1. CASE Edit
  BY <1>1, Edits
<1>2. ASSUME NEW b \in Bot, BotNext(b) PROVE IInv'
  BY <1>2, Starts, Opens, Makes, Failures, Prints, Flushes, Stats, ReadsMore,
     ReadsAll DEF BotNext
<1>3. CASE UNCHANGED vars
  BY <1>3 DEF vars, diskVars, IInv, Disk
<1> QED
  BY <1>1, <1>2, <1>3 DEF Next

LEMMA InvImplies == IInv => TypeOK /\ DescriptorsAreClosed /\ ReadsASnapshot
<1> SUFFICES ASSUME IInv PROVE TypeOK /\ DescriptorsAreClosed /\ ReadsASnapshot
  OBVIOUS
<1>1. TypeOK
  BY DEF IInv, Disk, Good, TypeOK
<1>2. ASSUME NEW b \in Bot, bot[b].pc = "idle" PROVE bot[b].fds = bot[b].leaks
  BY <1>2, Descriptors DEF Working
<1>3. ASSUME NEW b \in Bot, At(b, "returned"), ~edited
      PROVE  bot[b].buf = bot[b].then
  <2>1. /\ bot[b].buf \in Seq(Line \X {1, 2}) /\ bot[b].then \in Seq(Line \X {1, 2})
        /\ Good(bot[b], file, edited)
    BY BotFacts DEF BotStates, Text
  <2>2. /\ Snapshot(bot[b], file)
        /\ Len(bot[b].buf) = bot[b].size
    BY <1>3, <2>1 DEF Good, At, Reading
  <2>3. /\ Len(bot[b].buf) = Len(bot[b].then)
        /\ \A i \in 1..Len(bot[b].buf) : bot[b].buf[i] = bot[b].then[i]
    BY <2>2 DEF Snapshot
  <2> QED
    BY <2>1, <2>3, SeqEqual
<1> QED
  BY <1>1, <1>2, <1>3 DEF DescriptorsAreClosed, ReadsASnapshot

LEMMA Invariance == Spec => []IInv
BY InvInit, InvNext, PTL DEF Spec

\* The variables keep their types, and read() stays within the buffer.
THEOREM TypeCorrect == Spec => []TypeOK
BY Invariance, InvImplies, PTL

\* files.c closes each descriptor it opened, but for those of which fdopen()
\* failed, for any number of bots, lines and failures.
THEOREM DescriptorsClosed == Spec => []DescriptorsAreClosed
BY Invariance, InvImplies, PTL

\* get_file_contents() returns what the file held at its fstat(), whoever
\* appends meanwhile, for any number of bots, lines and failures.
THEOREM SnapshotRead == Spec => []ReadsASnapshot
BY Invariance, InvImplies, PTL

-------------------------------------------------------------------------------
(* What becomes of a line *)

\* The halves of line l are in the file f, one right after the other or not.
OnePlace(f, l) == \E i \in 2..Len(f) : f[i - 1] = <<l, 1>> /\ f[i] = <<l, 2>>
TwoPlaces(f, l) ==
    \E i, j \in DOMAIN f : i < j /\ f[i] = <<l, 1>> /\ f[j] = <<l, 2>>
Kept(f, s, l) == IF l \in s THEN TwoPlaces(f, l) ELSE OnePlace(f, l)

\* No two processes are at the same line.
LineInv ==
    /\ \A b \in Bot : bot[b].line <= lines
    /\ \A b, c \in Bot : bot[b].line = bot[c].line /\ bot[b].line > 0 => b = c
    /\ \A b \in Bot :
         bot[b].pc \in {"idle", "fstat", "read", "returned"} => bot[b].line = 0

\* r is a process, and if it is in fclose() with the line to be written as a
\* whole it has written none of it, the first half, or all.
Flushing(r, f, s, w) ==
    r.pc = "flush" /\ r.line \notin w =>
        \/ r.todo = Half(r.line)
        \/ /\ r.todo = << <<r.line, 2>> >>
           /\ r.line \in s
           /\ \E i \in DOMAIN f : f[i] = <<r.line, 1>>
        \/ r.todo = <<>> /\ Kept(f, s, r.line)

FlushInv == ~edited => \A b \in Bot : Flushing(bot[b], file, short, warned)

DoneInv ==
    ~edited => \A l \in 1..lines :
        l \notin warned /\ (\A b \in Bot : bot[b].line # l) =>
            Kept(file, short, l)

KInv == LineInv /\ FlushInv /\ DoneInv

LEMMA AppendedText ==
    ASSUME NEW f \in Text, NEW t \in Text
    PROVE  /\ f \o t \in Text
           /\ Len(f) \in Nat /\ Len(t) \in Nat /\ Len(f \o t) = Len(f) + Len(t)
           /\ DOMAIN f = 1..Len(f) /\ DOMAIN (f \o t) = 1..(Len(f) + Len(t))
           /\ \A i \in 1..Len(f) : (f \o t)[i] = f[i]
           /\ \A i \in 1..Len(t) : (f \o t)[Len(f) + i] = t[i]
BY DEF Text

\* What was kept stays, whatever is appended and whichever writes are short.
LEMMA KeptStays ==
    ASSUME NEW f \in Text, NEW t \in Text, NEW s, NEW z, s \subseteq z, NEW l,
           Kept(f, s, l)
    PROVE  Kept(f \o t, z, l)
<1> DEFINE g == f \o t
<1>1. /\ Len(f) \in Nat /\ Len(t) \in Nat /\ Len(g) = Len(f) + Len(t)
      /\ DOMAIN f = 1..Len(f) /\ DOMAIN g = 1..(Len(f) + Len(t))
      /\ \A i \in 1..Len(f) : g[i] = f[i]
  BY AppendedText
<1> HIDE DEF g
<1>2. OnePlace(f, l) => OnePlace(g, l)
  <2>1. ASSUME NEW i \in 2..Len(f)
        PROVE  /\ i \in 2..Len(g) /\ i - 1 \in 1..Len(f) /\ i \in 1..Len(f)
    BY <1>1
  <2> QED
    BY <1>1, <2>1 DEF OnePlace
<1>3. TwoPlaces(f, l) => TwoPlaces(g, l)
  <2>1. \A i \in DOMAIN f : i \in DOMAIN g /\ g[i] = f[i]
    BY <1>1
  <2> QED
    BY <2>1 DEF TwoPlaces
<1>4. OnePlace(g, l) => TwoPlaces(g, l)
  <2>1. ASSUME NEW i \in 2..Len(g)
        PROVE  i - 1 \in DOMAIN g /\ i \in DOMAIN g /\ i - 1 < i
    BY <1>1
  <2> QED
    BY <2>1 DEF OnePlace, TwoPlaces
<1>5. Kept(g, z, l)
  BY <1>2, <1>3, <1>4 DEF Kept
<1> QED
  BY <1>5 DEF g

LEMMA FlushingStays ==
    ASSUME NEW f \in Text, NEW t \in Text, NEW s, NEW z, s \subseteq z,
           NEW w, NEW y, w \subseteq y, NEW r, Flushing(r, f, s, w)
    PROVE  Flushing(r, f \o t, z, y)
<1> DEFINE g == f \o t
<1>1. /\ Len(f) \in Nat /\ Len(t) \in Nat
      /\ DOMAIN f = 1..Len(f) /\ DOMAIN g = 1..(Len(f) + Len(t))
      /\ \A i \in 1..Len(f) : g[i] = f[i]
  BY AppendedText
<1>2. Kept(f, s, r.line) => Kept(g, z, r.line)
  BY KeptStays
<1> HIDE DEF g
<1>3. \A i \in DOMAIN f : i \in DOMAIN g /\ g[i] = f[i]
  BY <1>1
<1>4. Flushing(r, g, z, y)
  BY <1>2, <1>3 DEF Flushing
<1> QED
  BY <1>4 DEF g

\* A step of one process, from state bot[b] to r, that may append to the file.
LEMMA OneLine ==
    ASSUME IInv, KInv, NEW b \in Bot, NEW r, NEW t \in Text,
           bot' = [bot EXCEPT ![b] = r],
           file' = file \o t, edited' = edited, lines' = lines,
           short \subseteq short', warned \subseteq warned',
           r.line \in {0, bot[b].line},
           r.pc \in {"idle", "fstat", "read", "returned"} => r.line = 0,
           ~edited => Flushing(r, file', short', warned'),
           ~edited /\ r.line # bot[b].line =>
                \/ bot[b].line \in warned'
                \/ Kept(file', short', bot[b].line)
    PROVE  KInv'
<1>1. /\ bot'[b] = r /\ \A c \in Bot : c # b => bot'[c] = bot[c]
      /\ \A c \in Bot : bot[c].line \in Nat
      /\ file \in Text /\ lines \in Nat
  BY DEF IInv, Disk, BotStates
<1>2. LineInv'
  <2>1. \A c \in Bot : bot'[c].line \in {0, bot[c].line}
    BY <1>1
  <2>2. \A c \in Bot : bot'[c].line \in Nat
    BY <1>1, <2>1
  <2> QED
    BY <1>1, <2>1, <2>2 DEF KInv, LineInv
<1>3. FlushInv'
  <2>1. ASSUME ~edited, NEW c \in Bot
        PROVE  Flushing(bot'[c], file', short', warned')
    <3>1. CASE c = b
      BY <1>1, <2>1, <3>1
    <3>2. CASE c # b
      <4>1. Flushing(bot[c], file, short, warned)
        BY <2>1 DEF KInv, FlushInv
      <4> QED
        BY <1>1, <3>2, <4>1, FlushingStays
    <3> QED
      BY <3>1, <3>2
  <2> QED
    BY <2>1 DEF FlushInv
<1>4. DoneInv'
  <2>1. ASSUME ~edited, NEW l \in 1..lines, l \notin warned',
               \A c \in Bot : bot'[c].line # l
        PROVE  Kept(file', short', l)
    <3>1. CASE l = bot[b].line
      BY <1>1, <2>1, <3>1
    <3>2. CASE l # bot[b].line
      <4>1. \A c \in Bot : bot[c].line # l
        BY <1>1, <2>1, <3>2
      <4>2. Kept(file, short, l)
        BY <2>1, <4>1 DEF KInv, DoneInv
      <4> QED
        BY <1>1, <4>2, KeptStays
    <3> QED
      BY <3>1, <3>2
  <2> QED
    BY <2>1 DEF DoneInv
<1> QED
  BY <1>2, <1>3, <1>4 DEF KInv

\* The same without a change of the file.
LEMMA OneLineOnly ==
    ASSUME IInv, KInv, NEW b \in Bot, NEW r,
           bot' = [bot EXCEPT ![b] = r],
           UNCHANGED <<file, edited, lines, short>>, warned \subseteq warned',
           r.line \in {0, bot[b].line},
           r.pc \in {"idle", "fstat", "read", "returned"} => r.line = 0,
           ~edited => Flushing(r, file, short, warned'),
           ~edited /\ r.line # bot[b].line =>
                \/ bot[b].line \in warned'
                \/ Kept(file, short, bot[b].line)
    PROVE  KInv'
<1>1. <<>> \in Text /\ file \o <<>> = file
  BY DEF IInv, Disk, Text
<1> QED
  BY <1>1, OneLine

\* A function returns when it has written the line or warned of it.
LEMMA ReturnsKept ==
    ASSUME IInv, KInv, NEW b \in Bot, NEW n, NEW o,
           bot' = [bot EXCEPT ![b] = [Idle EXCEPT !.leaks = n, !.fds = o]],
           UNCHANGED <<file, edited, lines, short>>, warned \subseteq warned',
           \/ bot[b].line = 0
           \/ bot[b].line \in warned'
           \/ ~edited => Kept(file, short, bot[b].line)
    PROVE  KInv'
<1> DEFINE r == [Idle EXCEPT !.leaks = n, !.fds = o]
<1>1. r.pc = "idle" /\ r.line = 0
  BY DEF Idle
<1> HIDE DEF r
<1>2. bot' = [bot EXCEPT ![b] = r]
  BY DEF r
<1>3. Flushing(r, file, short, warned')
  BY <1>1 DEF Flushing
<1> QED
  BY <1>1, <1>2, <1>3, OneLineOnly

\* A step of a process that stays at its line and does not begin fclose().
LEMMA Goes ==
    ASSUME IInv, KInv, NEW b \in Bot, NEW r,
           bot' = [bot EXCEPT ![b] = r],
           UNCHANGED <<file, edited, lines, short, warned>>,
           r.line = bot[b].line, r.pc # "flush",
           r.pc \in {"idle", "fstat", "read", "returned"} => r.line = 0
    PROVE  KInv'
BY OneLineOnly DEF Flushing

\* The steps that neither write nor return.
LEMMA KeepsGoing ==
    ASSUME IInv, KInv, NEW b \in Bot,
           \/ Read(b) \/ Open(b) \/ Mkdir(b) \/ Reopen(b) \/ Fdopen(b)
           \/ (NotFound(b) /\ Appends(b))
           \/ Fstat(b) \/ ReadSome(b) \/ ReadEnds(b)
    PROVE  KInv'
<1>1. bot[b] \in BotStates /\ bot[b].line \in Nat
  BY BotFacts, FilesAssumption DEF BotStates
<1>2. UNCHANGED <<file, edited, lines, short, warned>>
  BY DEF Read, Open, Opened, Mkdir, Reopen, Fdopen, NotFound, Fstat, ReadSome,
         ReadEnds, Well, diskVars
<1>3. \A c \in Bot : bot[c].pc \in {"fstat", "read"} => bot[c].line = 0
  BY DEF KInv, LineInv
<1>4. CASE Read(b) \/ Mkdir(b) \/ Fdopen(b) \/ (NotFound(b) /\ Appends(b))
  <2>1. PICK p \in {"open", "reopen", "print", "mkdir"} : Go(b, p)
    BY <1>4 DEF Read, Mkdir, Fdopen, NotFound
  <2> DEFINE r == [bot[b] EXCEPT !.pc = p]
  <2>2. bot' = [bot EXCEPT ![b] = r] /\ r.line = bot[b].line /\ r.pc = p
    BY <1>1, <2>1 DEF Go, BotStates
  <2> HIDE DEF r
  <2> QED
    BY <1>2, <2>2, Goes
<1>5. CASE Open(b) \/ Reopen(b)
  <2> DEFINE p == IF Appends(b) THEN "fdopen" ELSE "fstat"
             r == [bot[b] EXCEPT !.fds = @ + 1, !.pc = p]
  <2>1. bot' = [bot EXCEPT ![b] = r] /\ r.line = bot[b].line /\ r.pc = p
    BY <1>1, <1>5 DEF Open, Reopen, Opened, BotStates
  <2>2. p = "fdopen" \/ (p = "fstat" /\ bot[b].line = 0)
    BY <1>1 DEF Appends
  <2> HIDE DEF r, p
  <2> QED
    BY <1>2, <2>1, <2>2, Goes
<1>6. CASE Fstat(b)
  <2> DEFINE r == [bot[b] EXCEPT !.pc = "read", !.size = Len(file), !.then = file]
  <2>1. /\ bot' = [bot EXCEPT ![b] = r] /\ r.line = bot[b].line /\ r.pc = "read"
        /\ bot[b].line = 0
    BY <1>1, <1>3, <1>6 DEF Fstat, At, BotStates
  <2> HIDE DEF r
  <2> QED
    BY <1>2, <2>1, Goes
<1>7. CASE ReadSome(b)
  <2>1. PICK c : bot' = [bot EXCEPT ![b].buf = @ \o c]
    BY <1>7 DEF ReadSome
  <2> DEFINE r == [bot[b] EXCEPT !.buf = @ \o c]
  <2>2. /\ bot' = [bot EXCEPT ![b] = r] /\ r.line = bot[b].line /\ r.pc = "read"
        /\ bot[b].line = 0
    BY <1>1, <1>3, <1>7, <2>1 DEF ReadSome, At, BotStates
  <2> HIDE DEF r
  <2> QED
    BY <1>2, <2>2, Goes
<1>8. CASE ReadEnds(b)
  <2> DEFINE r == [bot[b] EXCEPT !.pc = "returned", !.fds = @ - 1]
  <2>1. /\ bot' = [bot EXCEPT ![b] = r] /\ r.line = bot[b].line
        /\ r.pc = "returned" /\ bot[b].line = 0
    BY <1>1, <1>3, <1>8 DEF ReadEnds, At, BotStates
  <2> HIDE DEF r
  <2> QED
    BY <1>2, <2>1, Goes
<1> QED
  BY <1>4, <1>5, <1>6, <1>7, <1>8

\* A warning names the line that is given up.
LEMMA ReturnsWarned ==
    ASSUME IInv, KInv, NEW b \in Bot,
           \/ OpenFails(b) \/ MkdirTooLate(b) \/ FdopenFails(b)
           \/ FlushFails(b) \/ ReadFails(b)
    PROVE  KInv'
<1>1. UNCHANGED <<file, edited, lines, short>>
  BY DEF OpenFails, MkdirTooLate, FdopenFails, FlushFails, ReadFails, Fails,
         Warn, diskVars
<1>2. warned' = warned \cup This(b)
  BY DEF OpenFails, MkdirTooLate, FdopenFails, FlushFails, ReadFails, Fails, Warn
<1>3. bot[b].line = 0 \/ bot[b].line \in warned'
  BY <1>2 DEF This
<1>4. \E n, o :
        bot' = [bot EXCEPT ![b] = [Idle EXCEPT !.leaks = n, !.fds = o]]
  <2>1. CASE FdopenFails(b)
    BY <2>1 DEF FdopenFails
  <2>2. \A o : Return(b, o) =>
            \E n : bot' = [bot EXCEPT ![b] = [Idle EXCEPT !.leaks = n, !.fds = o]]
    BY DEF Return
  <2> QED
    BY <2>1, <2>2 DEF OpenFails, MkdirTooLate, FlushFails, ReadFails
<1> QED
  BY <1>1, <1>2, <1>3, <1>4, ReturnsKept

\* The file is not there to be read, or has been read, or the line is written.
LEMMA ReturnsWell ==
    ASSUME IInv, KInv, NEW b \in Bot,
           (NotFound(b) /\ ~Appends(b)) \/ Use(b) \/ Fclose(b)
    PROVE  KInv'
<1>1. UNCHANGED <<file, edited, lines, short, warned>>
  BY DEF NotFound, Use, Fclose, Well, diskVars
<1>2. \E n, o :
        bot' = [bot EXCEPT ![b] = [Idle EXCEPT !.leaks = n, !.fds = o]]
  BY DEF NotFound, Use, Fclose, Return
<1>3. \/ bot[b].line = 0
      \/ bot[b].line \in warned'
      \/ ~edited => Kept(file, short, bot[b].line)
  <2>1. CASE NotFound(b) /\ ~Appends(b)
    BY <2>1, BotFacts, FilesAssumption DEF Appends, BotStates
  <2>2. CASE Use(b)
    BY <2>2 DEF Use, At, KInv, LineInv
  <2>3. CASE Fclose(b)
    <3>1. bot[b].pc = "flush" /\ bot[b].todo = <<>>
      BY <2>3 DEF Fclose, At
    <3>2. Half(bot[b].line) # <<>>
      BY DEF Half
    <3>3. ~edited => Flushing(bot[b], file, short, warned)
      BY DEF KInv, FlushInv
    <3> QED
      BY <1>1, <3>1, <3>2, <3>3 DEF Flushing
  <2> QED
    BY <2>1, <2>2, <2>3
<1> QED
  BY <1>1, <1>2, <1>3, ReturnsKept

\* A line that is new is in nobody's hands, and nothing has become of it.
LEMMA Begins ==
    ASSUME IInv, KInv, NEW b \in Bot, AppendLine(b)
    PROVE  KInv'
<1>1. /\ bot[b] \in BotStates /\ lines \in Nat /\ lines' = lines + 1
      /\ \A c \in Bot : bot[c].line \in Nat
      /\ bot \in [Bot -> BotStates]
  BY BotFacts, FilesAssumption DEF AppendLine, IInv, Disk, BotStates
<1> DEFINE r == [bot[b] EXCEPT !.pc = "open", !.line = lines']
<1>2. /\ bot' = [bot EXCEPT ![b] = r] /\ r.pc = "open" /\ r.line = lines + 1
      /\ bot[b].line = 0
  BY <1>1 DEF AppendLine, At, KInv, LineInv, BotStates
<1> HIDE DEF r
<1>3. bot'[b] = r /\ \A c \in Bot : c # b => bot'[c] = bot[c]
  BY <1>1, <1>2
<1>4. UNCHANGED <<file, edited, short, warned>>
  BY DEF AppendLine, diskVars
<1>5. LineInv'
  BY <1>1, <1>2, <1>3 DEF KInv, LineInv
<1>6. FlushInv'
  BY <1>2, <1>3, <1>4 DEF KInv, FlushInv, Flushing
<1>7. DoneInv'
  <2>1. ASSUME ~edited, NEW l \in 1..lines', l \notin warned,
               \A c \in Bot : bot'[c].line # l
        PROVE  Kept(file, short, l)
    <3>1. l \in 1..lines /\ \A c \in Bot : bot[c].line # l
      BY <1>1, <1>2, <1>3, <2>1
    <3> QED
      BY <2>1, <3>1 DEF KInv, DoneInv
  <2> QED
    BY <1>4, <2>1 DEF DoneInv
<1> QED
  BY <1>5, <1>6, <1>7 DEF KInv

\* The line goes to stdio as a whole, or a warning is printed.
LEMMA PrintsLine ==
    ASSUME IInv, KInv, NEW b \in Bot, PrintLine(b)
    PROVE  KInv'
<1>1. bot[b] \in BotStates /\ At(b, "print")
  BY BotFacts DEF PrintLine
<1>2. UNCHANGED <<file, edited, lines, short>> /\ warned \subseteq warned'
  BY DEF PrintLine, Well, Fails, Warn, diskVars
<1>3. bot[b].line > 0 /\ bot[b].line \in Nat
  BY <1>1, BotFacts, FilesAssumption DEF Good, Writing, At, BotStates
<1>4. PICK text : /\ bot' = [bot EXCEPT ![b].pc = "flush", ![b].todo = text]
                  /\ (text = Half(bot[b].line) \/ bot[b].line \in warned')
  <2>1. \/ bot' = [bot EXCEPT ![b].pc = "flush", ![b].todo = Half(bot[b].line)]
        \/ /\ \E text : bot' = [bot EXCEPT ![b].pc = "flush", ![b].todo = text]
           /\ Fails(b)
    BY DEF PrintLine
  <2>2. Fails(b) => bot[b].line \in warned'
    BY <1>3 DEF Fails, Warn, This
  <2> QED
    BY <2>1, <2>2
<1> DEFINE r == [bot[b] EXCEPT !.pc = "flush", !.todo = text]
<1>5. /\ bot' = [bot EXCEPT ![b] = r]
      /\ r.pc = "flush" /\ r.line = bot[b].line /\ r.todo = text
  BY <1>1, <1>4 DEF BotStates
<1> HIDE DEF r
<1>6. Flushing(r, file, short, warned')
  BY <1>4, <1>5 DEF Flushing
<1> QED
  BY <1>2, <1>5, <1>6, OneLineOnly

\* A sequence that is a part of another.
LEMMA PartIs ==
    ASSUME NEW S, NEW s \in Seq(S), NEW u \in Seq(S),
           NEW m \in Nat \ {0}, NEW n \in 0..Len(s),
           Len(u) = IF m <= n THEN n - m + 1 ELSE 0,
           \A i \in 1..Len(u) : u[i] = s[m + i - 1]
    PROVE  SubSeq(s, m, n) = u
<1>1. \A i \in m..n : s[i] \in S
  OBVIOUS
<1> DEFINE part == SubSeq(s, m, n)
<1>2. /\ part \in Seq(S) /\ Len(part) = Len(u)
      /\ \A i \in 1..(n - m + 1) : part[i] = s[m + i - 1]
  BY <1>1, SubSeqProperties
<1> HIDE DEF part
<1>3. \A i \in 1..Len(part) : part[i] = u[i]
  BY <1>2
<1>4. part = u
  BY <1>2, <1>3, SeqEqual
<1> QED
  BY <1>4 DEF part

\* The parts of the two halves of a line.
LEMMA PartsOfPair ==
    ASSUME NEW x, NEW y
    PROVE  /\ SubSeq(<<x, y>>, 1, 1) = <<x>> /\ SubSeq(<<x, y>>, 2, 2) = <<y>>
           /\ SubSeq(<<x, y>>, 1, 2) = <<x, y>> /\ SubSeq(<<x, y>>, 3, 2) = <<>>
           /\ SubSeq(<<y>>, 1, 1) = <<y>> /\ SubSeq(<<y>>, 2, 1) = <<>>
<1> DEFINE S == {x, y}
           xy == <<x, y>>
           x1 == <<x>>
           y1 == <<y>>
<1>0. /\ xy \in Seq(S) /\ Len(xy) = 2 /\ xy[1] = x /\ xy[2] = y
      /\ x1 \in Seq(S) /\ Len(x1) = 1 /\ x1[1] = x
      /\ y1 \in Seq(S) /\ Len(y1) = 1 /\ y1[1] = y
      /\ <<>> \in Seq(S) /\ Len(<<>>) = 0
  OBVIOUS
<1> HIDE DEF S, xy, x1, y1
<1>1. \A i \in 1..1 : x1[i] = xy[1 + i - 1] /\ y1[i] = xy[2 + i - 1] /\ y1[i] = y1[1 + i - 1]
  BY <1>0
<1>2. \A i \in 1..2 : xy[i] = xy[1 + i - 1]
  OBVIOUS
<1>3. SubSeq(xy, 1, 1) = x1
  BY <1>0, <1>1, <1>2, PartIs
<1>4. SubSeq(xy, 2, 2) = y1
  BY <1>0, <1>1, <1>2, PartIs
<1>5. SubSeq(xy, 1, 2) = xy
  BY <1>0, <1>1, <1>2, PartIs
<1>6. SubSeq(xy, 3, 2) = <<>>
  BY <1>0, <1>1, <1>2, PartIs
<1>7. SubSeq(y1, 1, 1) = y1
  BY <1>0, <1>1, <1>2, PartIs
<1>8. SubSeq(y1, 2, 1) = <<>>
  BY <1>0, <1>1, <1>2, PartIs
<1> QED
  BY <1>3, <1>4, <1>5, <1>6, <1>7, <1>8 DEF xy, x1, y1

LEMMA HalvesAreText ==
    ASSUME NEW l \in Line
    PROVE  /\ << <<l, 1>> >> \in Text /\ Len(<< <<l, 1>> >>) = 1
           /\ << <<l, 1>> >>[1] = <<l, 1>>
           /\ << <<l, 2>> >> \in Text /\ Len(<< <<l, 2>> >>) = 1
           /\ << <<l, 2>> >>[1] = <<l, 2>>
           /\ << <<l, 1>>, <<l, 2>> >> \in Text
           /\ Len(<< <<l, 1>>, <<l, 2>> >>) = 2
           /\ << <<l, 1>>, <<l, 2>> >>[1] = <<l, 1>>
           /\ << <<l, 1>>, <<l, 2>> >>[2] = <<l, 2>>
BY DEF Text

\* What one write does to a line that is in stdio: t is what it takes of todo.
LEMMA WriteKeeps ==
    ASSUME NEW f \in Text, NEW s, NEW w, NEW l \in Line, NEW r \in BotStates,
           r.pc = "flush", r.line = l, Flushing(r, f, s, w),
           NEW n \in 1..Len(r.todo),
           NEW t, t = SubSeq(r.todo, 1, n),
           NEW q, q.pc = "flush", q.line = l,
           q.todo = SubSeq(r.todo, n + 1, Len(r.todo)),
           NEW z, z = s \cup IF n < Len(r.todo) THEN {l} ELSE {}
    PROVE  Flushing(q, f \o t, z, w)
<1>1. CASE l \in w
  BY <1>1 DEF Flushing
<1>2. CASE l \notin w /\ r.todo = Half(l)
  <2>1. Len(r.todo) = 2 /\ r.todo = << <<l, 1>>, <<l, 2>> >>
    BY <1>2 DEF Half
  <2>2. CASE n = 1
    <3>1. t = << <<l, 1>> >> /\ q.todo = << <<l, 2>> >> /\ z = s \cup {l}
      BY <2>1, <2>2, PartsOfPair
    <3>2. t \in Text /\ Len(t) = 1 /\ t[1] = <<l, 1>>
      BY <3>1, HalvesAreText
    <3>3. Len(f) + 1 \in DOMAIN (f \o t) /\ (f \o t)[Len(f) + 1] = <<l, 1>>
      <4>1. 1 \in 1..Len(t) /\ Len(f) \in Nat /\ Len(f) + 1 \in 1..(Len(f) + 1)
        BY <3>2 DEF Text
      <4>2. /\ DOMAIN (f \o t) = 1..(Len(f) + Len(t))
            /\ \A i \in 1..Len(t) : (f \o t)[Len(f) + i] = t[i]
        BY <3>2, AppendedText
      <4> QED
        BY <3>2, <4>1, <4>2
    <3> QED
      BY <3>1, <3>3 DEF Flushing
  <2>3. CASE n = 2
    <3>1. q.todo = <<>> /\ z = s
      BY <2>1, <2>3, PartsOfPair
    <3>2. t = << <<l, 1>>, <<l, 2>> >>
      <4>1. SubSeq(<< <<l, 1>>, <<l, 2>> >>, 1, 2) = << <<l, 1>>, <<l, 2>> >>
        BY PartsOfPair
      <4> QED
        BY <2>1, <2>3, <4>1
    <3>3. t \in Text /\ Len(t) = 2 /\ t[1] = <<l, 1>> /\ t[2] = <<l, 2>>
      BY <3>2, HalvesAreText
    <3> DEFINE g == f \o t
    <3>4. /\ Len(f) \in Nat /\ Len(g) = Len(f) + 2
          /\ g[Len(f) + 1] = <<l, 1>> /\ g[Len(f) + 2] = <<l, 2>>
          /\ DOMAIN g = 1..Len(g)
      <4>1. 1 \in 1..Len(t) /\ 2 \in 1..Len(t)
        BY <3>3
      <4>2. /\ Len(f) \in Nat /\ Len(g) = Len(f) + Len(t)
            /\ DOMAIN g = 1..(Len(f) + Len(t))
            /\ \A i \in 1..Len(t) : g[Len(f) + i] = t[i]
        BY <3>3, AppendedText
      <4> HIDE DEF g
      <4> QED
        BY <3>3, <4>1, <4>2
    <3> HIDE DEF g
    <3>5. OnePlace(g, l)
      <4>1. Len(f) + 2 \in 2..Len(g) /\ Len(f) + 2 - 1 = Len(f) + 1
        BY <3>4
      <4> QED
        BY <3>4, <4>1 DEF OnePlace
    <3>6. TwoPlaces(g, l)
      <4>1. /\ Len(f) + 1 \in DOMAIN g /\ Len(f) + 2 \in DOMAIN g
            /\ Len(f) + 1 < Len(f) + 2
        BY <3>4
      <4> QED
        BY <3>4, <4>1 DEF TwoPlaces
    <3>7. Kept(g, z, l)
      BY <3>5, <3>6 DEF Kept
    <3> QED
      BY <3>1, <3>7 DEF Flushing, g
  <2> QED
    BY <2>1, <2>2, <2>3
<1>3. CASE /\ l \notin w
           /\ r.todo = << <<l, 2>> >> /\ l \in s
           /\ \E i \in DOMAIN f : f[i] = <<l, 1>>
  <2>0. Len(r.todo) = 1 /\ n = 1
    BY <1>3
  <2>1. t = << <<l, 2>> >> /\ q.todo = <<>> /\ z = s
    <3>1. /\ SubSeq(<< <<l, 2>> >>, 1, 1) = << <<l, 2>> >>
          /\ SubSeq(<< <<l, 2>> >>, 2, 1) = <<>>
      BY PartsOfPair
    <3> QED
      BY <1>3, <2>0, <3>1
  <2>2. t \in Text /\ Len(t) = 1 /\ t[1] = <<l, 2>>
    BY <2>1, HalvesAreText
  <2>3. PICK i \in DOMAIN f : f[i] = <<l, 1>>
    BY <1>3
  <2> DEFINE g == f \o t
  <2>4. /\ i \in DOMAIN g /\ Len(f) + 1 \in DOMAIN g /\ i < Len(f) + 1
        /\ g[i] = <<l, 1>> /\ g[Len(f) + 1] = <<l, 2>>
    <3>1. /\ Len(f) \in Nat /\ DOMAIN f = 1..Len(f)
          /\ DOMAIN g = 1..(Len(f) + Len(t))
          /\ \A j \in 1..Len(f) : g[j] = f[j]
          /\ \A j \in 1..Len(t) : g[Len(f) + j] = t[j]
      BY <2>2, AppendedText
    <3> HIDE DEF g
    <3> QED
      BY <2>2, <2>3, <3>1
  <2> HIDE DEF g
  <2>5. TwoPlaces(g, l)
    BY <2>4 DEF TwoPlaces
  <2>6. Kept(g, z, l)
    BY <1>3, <2>1, <2>5 DEF Kept
  <2> QED
    BY <2>1, <2>6 DEF Flushing, g
<1>4. r.todo # <<>>
  BY DEF BotStates, Text
<1> QED
  BY <1>1, <1>2, <1>3, <1>4 DEF Flushing

LEMMA Writes ==
    ASSUME IInv, KInv, NEW b \in Bot, Flush(b)
    PROVE  KInv'
<1>1. bot[b] \in BotStates /\ bot[b].pc = "flush" /\ file \in Text
  BY BotFacts DEF Flush, At
<1>2. bot[b].line \in Line /\ This(b) = {bot[b].line}
  BY <1>1, BotFacts, FilesAssumption DEF Good, Writing, BotStates, Line, This
<1>3. PICK n \in 1..Len(bot[b].todo) :
          /\ file' = file \o SubSeq(bot[b].todo, 1, n)
          /\ bot' = [bot EXCEPT ![b].todo = SubSeq(@, n + 1, Len(@))]
          /\ short' = short \cup IF n < Len(bot[b].todo) THEN This(b) ELSE {}
  BY DEF Flush
<1> DEFINE t == SubSeq(bot[b].todo, 1, n)
           rest == SubSeq(bot[b].todo, n + 1, Len(bot[b].todo))
           r == [bot[b] EXCEPT !.todo = rest]
<1>4. t \in Text
  BY <1>1, PartOfText DEF BotStates, Text
<1>5. /\ bot' = [bot EXCEPT ![b] = r]
      /\ r.pc = "flush" /\ r.line = bot[b].line /\ r.todo = rest
  BY <1>1, <1>3 DEF BotStates
<1>6. /\ UNCHANGED <<edited, lines, warned>>
      /\ file' = file \o t
      /\ short' = short \cup IF n < Len(bot[b].todo) THEN {bot[b].line} ELSE {}
  BY <1>2, <1>3 DEF Flush
<1>7. ~edited => Flushing(r, file', short', warned')
  <2>1. ASSUME ~edited PROVE Flushing(bot[b], file, short, warned)
    BY <2>1 DEF KInv, FlushInv
  <2> HIDE DEF r
  <2> QED
    BY <1>1, <1>2, <1>5, <1>6, <2>1, WriteKeeps
<1> HIDE DEF r, t, rest
<1> QED
  BY <1>1, <1>4, <1>5, <1>6, <1>7, OneLine

LEMMA KInvNext == IInv /\ KInv /\ [Next]_vars => KInv'
<1> SUFFICES ASSUME IInv, KInv, [Next]_vars PROVE KInv'
  OBVIOUS
<1>1. CASE Edit
  BY <1>1 DEF Edit, KInv, LineInv, FlushInv, DoneInv
<1>2. ASSUME NEW b \in Bot, BotNext(b) PROVE KInv'
  BY <1>2, Begins, KeepsGoing, ReturnsWarned, ReturnsWell, PrintsLine, Writes
  DEF BotNext
<1>3. CASE UNCHANGED vars
  BY <1>3 DEF vars, diskVars, KInv, LineInv, FlushInv, DoneInv
<1> QED
  BY <1>1, <1>2, <1>3 DEF Next

LEMMA KInvInit == Init => KInv
<1> SUFFICES ASSUME Init PROVE KInv
  OBVIOUS
<1>1. \A b \in Bot : bot[b].pc = "idle" /\ bot[b].line = 0
  BY DEF Init, Idle
<1> QED
  BY <1>1 DEF Init, KInv, LineInv, FlushInv, DoneInv, Flushing

LEMMA KInvAlways == Spec => [](IInv /\ KInv)
BY InvInit, InvNext, KInvInit, KInvNext, PTL DEF Spec

\* A line that nobody is at any more, and that no warning names.
LEMMA DoneIsKept ==
    ASSUME IInv, KInv, ~edited, NEW l \in Done \ warned
    PROVE  Kept(file, short, l)
BY DEF Done, KInv, DoneInv

LEMMA OnePlaceIs ==
    ASSUME IInv, NEW l, OnePlace(file, l)
    PROVE  InOnePlace(l)
<1>1. file \in Text /\ Len(file) \in Nat
  BY DEF IInv, Disk, Text
<1>2. PICK i \in 2..Len(file) : file[i - 1] = <<l, 1>> /\ file[i] = <<l, 2>>
  BY DEF OnePlace
<1>3. i - 1 \in Nat \ {0} /\ i \in 0..Len(file)
  BY <1>1
<1> DEFINE part == SubSeq(file, i - 1, i)
<1>4. /\ part \in Text /\ Len(part) = 2
      /\ part[1] = file[i - 1] /\ part[2] = file[i]
  BY <1>1, <1>3, PartOfText
<1> HIDE DEF part
<1>5. part = << <<l, 1>>, <<l, 2>> >>
  BY <1>2, <1>4 DEF Text
<1> QED
  BY <1>5 DEF part, InOnePlace, Half

\* Whatever fails, a line that the program does not warn of is in the file
\* once its function has returned, and in one piece unless a write was short:
\* log_append() and save_reminder(), for any number of bots and failures.
THEOREM NoLineLostSilently == Spec => []NoSilentLoss
<1>1. IInv /\ KInv => NoSilentLoss
  BY DoneIsKept, OnePlaceIs DEF NoSilentLoss, Kept, TwoPlaces, InOrder
<1> QED
  BY <1>1, KInvAlways, PTL
-------------------------------------------------------------------------------
(* The race for the directory *)

\* The bots between the open() that did not find the directory and mkdir().
AtMkdir == {b \in Bot : bot[b].pc = "mkdir"}

\* If nothing else fails: every line that a warning names is one of a bot that
\* came too late, and the one that made the directory is not among them.
RaceInv ==
    faults = 0 =>
        IF dir THEN Cardinality(warned) + Cardinality(AtMkdir) < Cardinality(Bot)
               ELSE warned = {}

LEMMA RaceSets ==
    ASSUME IInv, IsFiniteSet(Bot)
    PROVE  /\ IsFiniteSet(warned) /\ Cardinality(warned) \in Nat
           /\ IsFiniteSet(AtMkdir) /\ Cardinality(AtMkdir) \in Nat
           /\ Cardinality(Bot) \in Nat
<1>1. MaxLines \in Int /\ 1 \in Int
  BY FilesAssumption
<1>2. IsFiniteSet(Line) /\ warned \in SUBSET Line /\ AtMkdir \in SUBSET Bot
  BY <1>1, FS_Interval DEF Line, IInv, Disk, AtMkdir
<1>3. IsFiniteSet(warned) /\ IsFiniteSet(AtMkdir)
  BY <1>2, FS_Subset
<1> QED
  BY <1>3, FS_CardinalityType

\* What the steps of one process to another state have in common.
LEMMA NotAtMkdir ==
    ASSUME NEW b \in Bot,
           \A c \in Bot : c # b => bot'[c] = bot[c],
           bot'[b].pc # "mkdir"
    PROVE  AtMkdir' = AtMkdir \ {b}
BY DEF AtMkdir

LEMMA Entering ==
    ASSUME IInv, NEW b \in Bot, BotNext(b), ~(NotFound(b) /\ Appends(b))
    PROVE  AtMkdir' = AtMkdir \ {b}
<1>1. bot[b] \in BotStates /\ bot \in [Bot -> BotStates]
  BY BotFacts DEF IInv
<1>2. CASE AppendLine(b) \/ Read(b)
  BY <1>1, <1>2, NotAtMkdir DEF AppendLine, Read, Go, BotStates
<1>3. CASE Open(b) \/ Reopen(b)
  BY <1>1, <1>3, NotAtMkdir DEF Open, Reopen, Opened, BotStates
<1>4. CASE Mkdir(b) \/ Fdopen(b)
  BY <1>1, <1>4, NotAtMkdir DEF Mkdir, Fdopen, Go, BotStates
<1>5. CASE PrintLine(b)
  BY <1>1, <1>5, NotAtMkdir DEF PrintLine, BotStates
<1>6. CASE Flush(b)
  BY <1>1, <1>6, NotAtMkdir DEF Flush, At, BotStates
<1>7. CASE Fstat(b)
  BY <1>1, <1>7, NotAtMkdir DEF Fstat, BotStates
<1>8. CASE ReadSome(b)
  BY <1>1, <1>8, NotAtMkdir DEF ReadSome, At, BotStates
<1>9. CASE ReadEnds(b)
  BY <1>1, <1>9, NotAtMkdir DEF ReadEnds, BotStates
<1>10. CASE FdopenFails(b)
  <2>1. bot'[b].pc = "idle" /\ \A c \in Bot : c # b => bot'[c] = bot[c]
    BY <1>1, <1>10 DEF FdopenFails, Idle
  <2> QED
    BY <2>1, NotAtMkdir
<1>11. ASSUME NEW open, Return(b, open) PROVE AtMkdir' = AtMkdir \ {b}
  <2>1. bot'[b].pc = "idle" /\ \A c \in Bot : c # b => bot'[c] = bot[c]
    BY <1>1, <1>11 DEF Return, Idle
  <2> QED
    BY <2>1, NotAtMkdir
<1>12. CASE \/ OpenFails(b) \/ MkdirTooLate(b) \/ FlushFails(b) \/ Fclose(b)
            \/ ReadFails(b) \/ Use(b) \/ (NotFound(b) /\ ~Appends(b))
  BY <1>11, <1>12 DEF OpenFails, MkdirTooLate, FlushFails, Fclose, ReadFails, Use,
                      NotFound
<1> QED
  BY <1>2, <1>3, <1>4, <1>5, <1>6, <1>7, <1>8, <1>9, <1>10, <1>12 DEF BotNext

\* The directory appears, and a warning is printed, only there.
LEMMA NoWarning ==
    ASSUME IInv, NEW b \in Bot, BotNext(b), faults' = 0,
           ~Mkdir(b), ~MkdirTooLate(b)
    PROVE  faults = 0 /\ dir' = dir /\ warned' = warned
<1>1. ~Fails(b)
  BY DEF Fails, IInv, Disk
<1> QED
  BY <1>1 DEF BotNext, AppendLine, Read, Open, NotFound, OpenFails, Reopen, Opened,
       Fdopen, FdopenFails, PrintLine, Flush, FlushFails, Fclose, Fstat, ReadSome,
       ReadEnds, ReadFails, Use, Well, diskVars

LEMMA RaceStep ==
    ASSUME IInv, IInv', RaceInv, IsFiniteSet(Bot), NEW b \in Bot, BotNext(b)
    PROVE  RaceInv'
<1> SUFFICES ASSUME faults' = 0
             PROVE  IF dir'
                    THEN Cardinality(warned') + Cardinality(AtMkdir')
                            < Cardinality(Bot)
                    ELSE warned' = {}
  BY DEF RaceInv
<1>1. /\ IsFiniteSet(warned) /\ Cardinality(warned) \in Nat
      /\ IsFiniteSet(AtMkdir) /\ Cardinality(AtMkdir) \in Nat
      /\ Cardinality(Bot) \in Nat
  BY RaceSets
<1>2. CASE NotFound(b) /\ Appends(b)
  <2>1. ~dir /\ dir' = dir /\ warned' = warned /\ faults = 0
    BY <1>2 DEF NotFound, Well, diskVars
  <2> QED
    BY <2>1 DEF RaceInv
<1>3. CASE Mkdir(b)
  <2>1. ~dir /\ warned' = warned /\ faults = 0
    BY <1>3 DEF Mkdir, Well
  <2>2. AtMkdir' = AtMkdir \ {b}
    BY <1>3, Entering DEF Mkdir, NotFound, At
  <2>3. AtMkdir' \in SUBSET Bot /\ AtMkdir' # Bot
    BY <2>2 DEF AtMkdir
  <2>4. Cardinality(AtMkdir') <= Cardinality(Bot) /\ IsFiniteSet(AtMkdir')
        /\ Cardinality(AtMkdir') # Cardinality(Bot)
    BY <2>3, FS_Subset
  <2>5. warned' = {} /\ Cardinality({}) = 0
    BY <2>1, FS_EmptySet DEF RaceInv
  <2>6. Cardinality(AtMkdir') \in Nat
    BY <2>4, FS_CardinalityType
  <2>7. dir'
    BY <1>3 DEF Mkdir
  <2> QED
    BY <1>1, <2>4, <2>5, <2>6, <2>7
<1>4. CASE MkdirTooLate(b)
  <2>1. dir /\ dir' /\ faults = 0 /\ b \in AtMkdir /\ warned' = warned \cup This(b)
    BY <1>4 DEF MkdirTooLate, Warn, diskVars, At, AtMkdir
  <2>2. AtMkdir' = AtMkdir \ {b}
    BY <1>4, Entering DEF MkdirTooLate, NotFound, At
  <2>3. Cardinality(AtMkdir') = Cardinality(AtMkdir) - 1
    BY <1>1, <2>1, <2>2, FS_RemoveElement
  <2>4. This(b) = {bot[b].line}
    BY <2>1, BotFacts DEF AtMkdir, This, Good, Writing
  <2>5. Cardinality(warned') \in {Cardinality(warned), Cardinality(warned) + 1}
    BY <1>1, <2>1, <2>4, FS_AddElement
  <2>6. Cardinality(warned) + Cardinality(AtMkdir) < Cardinality(Bot)
    BY <2>1 DEF RaceInv
  <2> QED
    BY <1>1, <2>1, <2>3, <2>5, <2>6
<1>5. CASE ~(NotFound(b) /\ Appends(b)) /\ ~Mkdir(b) /\ ~MkdirTooLate(b)
  <2>1. faults = 0 /\ dir' = dir /\ warned' = warned
    BY <1>5, NoWarning
  <2>2. AtMkdir' \in SUBSET AtMkdir
    BY <1>5, Entering
  <2>3. IsFiniteSet(AtMkdir') /\ Cardinality(AtMkdir') <= Cardinality(AtMkdir)
    BY <1>1, <2>2, FS_Subset
  <2>4. Cardinality(AtMkdir') \in Nat
    BY <2>3, FS_CardinalityType
  <2> QED
    BY <1>1, <2>1, <2>3, <2>4 DEF RaceInv
<1> QED
  BY <1>2, <1>3, <1>4, <1>5

LEMMA RaceNext == ASSUME IsFiniteSet(Bot)
                  PROVE  IInv /\ IInv' /\ RaceInv /\ [Next]_vars => RaceInv'
<1> SUFFICES ASSUME IInv, IInv', RaceInv, [Next]_vars PROVE RaceInv'
  OBVIOUS
<1>1. CASE Edit \/ UNCHANGED vars
  <2>1. UNCHANGED <<faults, dir, warned, bot>>
    BY <1>1 DEF Edit, vars, diskVars
  <2>2. AtMkdir' = AtMkdir
    BY <2>1 DEF AtMkdir
  <2> QED
    BY <2>1, <2>2 DEF RaceInv
<1>2. ASSUME NEW b \in Bot, BotNext(b) PROVE RaceInv'
  BY <1>2, RaceStep
<1> QED
  BY <1>1, <1>2 DEF Next

\* Before anybody has made the directory nobody came too late, and if it is
\* there from the start nobody tries to.
LEMMA RaceInit == ASSUME IsFiniteSet(Bot), Bot # {} PROVE Init => RaceInv
<1> SUFFICES ASSUME Init PROVE RaceInv
  OBVIOUS
<1>1. warned = {} /\ AtMkdir = {}
  BY DEF Init, AtMkdir, Idle
<1>2. Cardinality({}) = 0 /\ Cardinality(Bot) # 0 /\ Cardinality(Bot) \in Nat
  BY FS_EmptySet, FS_CardinalityType
<1> QED
  BY <1>1, <1>2 DEF RaceInv

LEMMA KeptIsInOrder ==
    ASSUME IInv, NEW l, Kept(file, short, l)
    PROVE  InOrder(l)
<1>1. file \in Text /\ <<>> \in Text /\ file \o <<>> = file
  BY DEF IInv, Disk, Text
<1>2. Kept(file, short \cup {l}, l)
  BY <1>1, KeptStays
<1> QED
  BY <1>2 DEF Kept, TwoPlaces, InOrder

\* However many bots share the directory, and whatever order their calls come
\* in: if no call fails but mkdir(), because another bot was faster, fewer lines
\* are lost than there are bots (open_file(), log_append(), save_reminder()).
THEOREM OnlyTheRace ==
    ASSUME IsFiniteSet(Bot), Bot # {}
    PROVE  Spec => []OnlyTheRaceLoses
<1>1. IInv /\ KInv /\ RaceInv => OnlyTheRaceLoses
  <2> SUFFICES ASSUME IInv, KInv, RaceInv, faults = 0, ~edited
               PROVE  Cardinality({l \in Done : ~InOrder(l)}) < Cardinality(Bot)
    BY DEF OnlyTheRaceLoses
  <2> DEFINE Lost == {l \in Done : ~InOrder(l)}
  <2>1. Lost \in SUBSET warned
    BY DoneIsKept, KeptIsInOrder
  <2> HIDE DEF Lost
  <2>2. /\ IsFiniteSet(warned) /\ Cardinality(warned) \in Nat
        /\ Cardinality(AtMkdir) \in Nat /\ Cardinality(Bot) \in Nat
    BY RaceSets
  <2>3. IsFiniteSet(Lost) /\ Cardinality(Lost) <= Cardinality(warned)
    BY <2>1, <2>2, FS_Subset
  <2>4. Cardinality(Lost) \in Nat
    BY <2>3, FS_CardinalityType
  <2>5. Cardinality(warned) < Cardinality(Bot)
    <3>1. Cardinality({}) = 0 /\ Cardinality(Bot) # 0
      BY FS_EmptySet
    <3> QED
      BY <2>2, <3>1 DEF RaceInv
  <2>6. Cardinality(Lost) < Cardinality(Bot)
    BY <2>2, <2>3, <2>4, <2>5
  <2> QED
    BY <2>6 DEF Lost
<1> QED
  BY <1>1, RaceInit, RaceNext, InvInit, InvNext, KInvAlways, PTL DEF Spec
===============================================================================
