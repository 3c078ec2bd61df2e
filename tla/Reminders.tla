------------------------------- MODULE Reminders -------------------------------
(***************************************************************************)
(* What remind.c keeps on disk, and what becomes of it when the bot ends   *)
(* or is killed at any point and is started again.  The file is only ever  *)
(* appended to, by save_reminder(), and read by restore_remind_state().    *)
(* The event loop is reduced to "the earliest due reminder is sent".       *)
(***************************************************************************)
EXTENDS Naturals, SequencesExt

CONSTANTS
    Reminder,       \* names of the !remind requests
    Horizon,        \* bound: the clock stops there
    MaxRestarts,    \* bound on the times the bot is started
    TornWrites,     \* whether a write to the file may fail halfway
    TimeLag         \* how far time() may be behind the timer's clock

ASSUME RemindersAssumption ==
    /\ {Horizon, MaxRestarts, TimeLag} \subseteq Nat
    /\ TornWrites \in BOOLEAN

VARIABLES
    now,            \* the real-time clock
    due,            \* the time each reminder asks for
    file,           \* the reminders file: what each save_reminder() wrote
    pc,             \* where the bot is
    adding,         \* the reminder handle_remind() is at, as a set
    memory,         \* the reminders in the list of time events
    readAt,         \* what time() returned when the file was last read
    restarts,       \* how often the bot was started
    confirmed,      \* the reminders this bot has confirmed since it started
    sent            \* how often each reminder was sent, unchanged

vars == <<now, due, file, pc, adding, memory, readAt, restarts, confirmed,
          sent>>

\* How far the write of a line "<when> <target> <message>\n" got: into the
\* digits of when; to the end of them; to the space after them; into the
\* target; past the target; to the newline.
Parts == {"digits", "stamp", "space", "target", "text", "line"}

\* "saved" and "reply" are inside handle_remind(), after save_reminder() and
\* after add_time_event().
PCs == {"down", "up", "saved", "reply"}

\* A reminder in memory; one that is not intact was put together from parts of
\* several lines, the first of which gave it its time.
Entry == [id : Reminder, intact : BOOLEAN]

TypeOK ==
    /\ now \in Nat
    /\ due \in [Reminder -> Nat]
    /\ file \in Seq([id : Reminder, part : Parts])
    /\ pc \in PCs
    /\ adding \subseteq Reminder
    /\ memory \subseteq Entry
    /\ readAt \in Nat
    /\ restarts \in 0..MaxRestarts
    /\ confirmed \subseteq Reminder
    /\ sent \in [Reminder -> Nat]

Init ==
    /\ now = 0
    /\ due \in [Reminder -> 0..Horizon]
    /\ file = <<>>
    /\ pc = "down"
    /\ adding = {}
    /\ memory = {}
    /\ readAt = 0
    /\ restarts = 0
    /\ confirmed = {}
    /\ sent = [r \in Reminder |-> 0]

\* Deliberately wrong variants of an operation, here and below, each followed
\* by the operation: with one in its place a property must fail.

\* Wrong: the -1 of a failed time() is taken for a time.
TimeReadUnchecked == {t \in 0..now : now <= t + TimeLag} \cup {0 - 1}

TimeRead == {t \in 0..now : now <= t + TimeLag}

-------------------------------------------------------------------------------
(* save_reminder() and handle_remind() *)

\* A failure to open the file or to write to it is only warned about.
Write(r) ==
    {file, Append(file, [id |-> r, part |-> "line"])}
    \cup IF TornWrites THEN {Append(file, [id |-> r, part |-> p]) : p \in Parts}
         ELSE {}

\* A request is not repeated, unless a crash left no trace of it.
Asked(r) ==
    \/ r \in adding \cup confirmed
    \/ sent[r] > 0
    \/ \E i \in DOMAIN file : file[i].id = r

\* A reminder for the past is rejected, which changes nothing.
Save(r) ==
    /\ pc = "up"
    /\ ~Asked(r)
    /\ \E t \in TimeRead : t <= due[r]
    /\ file' \in Write(r)
    /\ adding' = {r}
    /\ pc' = "saved"
    /\ UNCHANGED <<now, due, memory, readAt, restarts, confirmed, sent>>

Add ==
    /\ pc = "saved"
    /\ memory' = memory \cup {[id |-> r, intact |-> TRUE] : r \in adding}
    /\ pc' = "reply"
    /\ UNCHANGED <<now, due, file, adding, readAt, restarts, confirmed, sent>>

Confirm ==
    /\ pc = "reply"
    /\ confirmed' = confirmed \cup adding
    /\ adding' = {}
    /\ pc' = "up"
    /\ UNCHANGED <<now, due, file, memory, readAt, restarts, sent>>

-------------------------------------------------------------------------------
(* restore_remind_state() *)

\* A line of the file ends with the newline of a complete write, and starts
\* after the line before it: with what was left of a torn write, if any.
LineEnds == {i \in DOMAIN file : file[i].part = "line"}
LineStart(e) == CHOOSE s \in 1..e :
                    /\ s = 1 \/ s - 1 \in LineEnds
                    /\ \A i \in s..(e - 1) : i \notin LineEnds

\* The digits of two or more timestamps run together: a time in the far future,
\* or one that is too large, at which the rest of the file is ignored.
BadStamp(e) == file[LineStart(e)].part \in {"digits", "stamp"}

\* Wrong: reminders from the past are restored, too.
RestoreAll(t, stop) ==
    {[id |-> file[LineStart(e)].id, intact |-> LineStart(e) = e] :
        e \in {l \in LineEnds : l < stop /\ ~BadStamp(l)}}

\* Wrong: "when <= now" is the past.
RestoreLater(t, stop) ==
    {[id |-> file[LineStart(e)].id, intact |-> LineStart(e) = e] :
        e \in {l \in LineEnds : /\ l < stop
                                /\ ~BadStamp(l)
                                /\ t < due[file[LineStart(l)].id]}}

\* The entries of the lines before index stop, but for those from the past.
Restore(t, stop) ==
    {[id |-> file[LineStart(e)].id, intact |-> LineStart(e) = e] :
        e \in {l \in LineEnds : /\ l < stop
                                /\ ~BadStamp(l)
                                /\ t <= due[file[LineStart(l)].id]}}

\* Where reading may stop: at a line that is rejected, or at the end.  What
\* follows the last newline is never a reminder.
Stops == {l \in LineEnds : BadStamp(l)} \cup {Len(file) + 1}

Restart ==
    /\ pc = "down"
    /\ restarts < MaxRestarts
    /\ restarts' = restarts + 1
    /\ \E t \in TimeRead, stop \in Stops :
         /\ readAt' = t
         /\ memory' = Restore(t, stop)
    /\ pc' = "up"
    /\ UNCHANGED <<now, due, file, adding, confirmed, sent>>

-------------------------------------------------------------------------------
(* The rest of the bot *)

\* The bot ends, or is killed: what is in memory is gone.
Stop ==
    /\ pc # "down"
    /\ pc' = "down"
    /\ memory' = {}
    /\ adding' = {}
    /\ confirmed' = {}
    /\ UNCHANGED <<now, due, file, readAt, restarts, sent>>

\* Wrong: the event is handled whenever the timer expires, due or not.
RemindEarly(e) ==
    /\ pc = "up"
    /\ e \in memory
    /\ \A f \in memory : due[e.id] <= due[f.id]
    /\ memory' = memory \ {e}
    /\ sent' = IF e.intact THEN [sent EXCEPT ![e.id] = @ + 1] ELSE sent
    /\ UNCHANGED <<now, due, file, pc, adding, readAt, restarts, confirmed>>

\* remind(), called by the event loop.
Remind(e) ==
    /\ pc = "up"
    /\ e \in memory
    /\ due[e.id] <= now
    /\ \A f \in memory : due[e.id] <= due[f.id]
    /\ memory' = memory \ {e}
    /\ sent' = IF e.intact THEN [sent EXCEPT ![e.id] = @ + 1] ELSE sent
    /\ UNCHANGED <<now, due, file, pc, adding, readAt, restarts, confirmed>>

Tick ==
    /\ now < Horizon
    /\ now' = now + 1
    /\ UNCHANGED <<due, file, pc, adding, memory, readAt, restarts, confirmed,
                   sent>>

Next ==
    \/ \E r \in Reminder : Save(r)
    \/ Add \/ Confirm
    \/ Restart \/ Stop
    \/ \E e \in memory : Remind(e)
    \/ Tick

Spec == Init /\ [][Next]_vars

-------------------------------------------------------------------------------
(* Properties *)

IsUp == pc # "down"

\* The line of r is complete and starts at the start of a line, and reading
\* cannot stop at a line before it.
SafeOnDisk(r) ==
    \E i \in LineEnds :
        /\ file[i].id = r
        /\ LineStart(i) = i
        /\ \A l \in LineEnds : l < i => ~BadStamp(l)

(***************************************************************************)
(* A reminder is sent or still pending, whatever restarts and failed       *)
(* writes lie in between, as long as the bot that confirmed it is up, and  *)
(* after that if its line is on the disk, in a place where reading gets    *)
(* to, unless its time passed while the bot was down.                      *)
(***************************************************************************)
ReminderIsKept ==
    IsUp =>
        /\ \A r \in confirmed :
              sent[r] > 0 \/ [id |-> r, intact |-> TRUE] \in memory
        /\ \A r \in Reminder \ adding :
              SafeOnDisk(r) => \/ sent[r] > 0
                              \/ [id |-> r, intact |-> TRUE] \in memory
                              \/ due[r] < readAt

(***************************************************************************)
(* A reminder is sent a second time only by a bot that was started in the  *)
(* second the reminder was for: the file keeps the reminders that were     *)
(* sent, and "when < now" tells them from those to come.                   *)
(***************************************************************************)
SentTwiceOnlyWithinASecond ==
    [][\A r \in Reminder :
         sent'[r] > sent[r] /\ sent[r] > 0 =>
             readAt <= due[r] /\ due[r] <= readAt + TimeLag]_vars
===============================================================================
