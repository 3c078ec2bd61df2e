# A verification development for botniklas

botniklas is an IRC bot for Linux, one process with one thread, built on
`epoll`, `timerfd` and `signalfd`. These modules model what it does as state
machines, TLC checks them on small instances, and TLAPS proves all of their
safety properties for every value of the constants.

1. [The system](#1-the-system)
2. [Modules](#2-modules)
3. [Runs](#3-runs)
4. [Proofs](#4-proofs)
5. [Disagreements with the documentation](#5-disagreements-with-the-documentation)
6. [What is abstracted, and what is not modelled](#6-what-is-abstracted-and-what-is-not-modelled)
7. [Plan](#7-plan)

## 1. The system

| Component | State | Operations | Correct if |
|---|---|---|---|
| event loop, `bot.c` | `first_signal`, the notifications of one `epoll_wait()`, the file descriptors | wait; handle the server, the timer, a signal | nothing that is ready waits for ever; a second signal ends the bot; no read blocks |
| time events, `time_event.c` | a sorted list `start`, one `timerfd` armed for its head | `add_time_event()`, `handle_time_event()` | each event is handled once, in order, not before its time; the timer is never left unarmed |
| 1337 monitor, `leet_monitor.c` | `want_1337`, and the time events it keeps adding | `at_1337()`, `at_1338()`, `leet_monitor_privmsg()` | one pair of events is pending at any time, for the next 13:37; only messages of that minute count |
| reminders, `remind.c` | time events, and the append-only file `reminders` | `handle_remind()`, `remind()`, `restore_remind_state()` | an accepted reminder is sent once, whatever restarts and failed writes lie in between |
| read buffer, `read_msg.c` | one page mapped twice, `start` and `end` | `recv_msgs()`, `get_msg()` | the messages are those of the stream; no index leaves the mirrored pages; no complete message is left behind |
| message parser, `irc.c` | the text of a message, overwritten in place, and an `IRC_msg` of pointers into it | `process_msgs()`, `split_msg()`, `is_channel()` | what the pointers lead to is what the text says; malformed messages are rejected |
| dispatch and handlers, `msgs.c` | none | `handle_msg()` and the handlers | a handler only reads what the message has |
| bot commands, `commands.c` | none | `handle_cmd()` | a command is the one that was written, with its argument or none |
| dates, `date.c` | none | `parse_date()` | a time is accepted if it is written as documented, exists and is to come, and means what was written |
| message writer, `write_msg.c`; dynamic string, `dynamic_string.c` | one growing buffer for all messages | `write_msg()`, `say()`, `begin_say()`, `append_msg()`, `send_msg()` | the text and its null are within the buffer; the buffer grows no more than it must |
| networking helpers, `common_net.c` | the socket | `connect_to()`, `writen()` | messages reach the server whole, once and in order, or the bot ends |
| files, `files.c`; chat log, `chat_log.c` | files in `~/.botniklas` | open, append, read | no line is lost without a warning; no error uses up descriptors; what is read is what was there |
| startup, `state.c`, `options.c` | options | `restore_state()`, `process_cmdline()` | - |

The components call each other directly:

    main ── epoll ──┬─ SERVER: process_msgs ── recv_msgs, get_msg, split_msg
                    │             └─ handle_msg ─┬─ leet_monitor_privmsg ── say
                    │                            ├─ log_... (file)
                    │                            └─ handle_cmd ── handle_remind
                    │                                  ├─ parse_date
                    │                                  ├─ save_reminder (file)
                    │                                  ├─ add_time_event (timer)
                    │                                  └─ say ── writen (socket)
                    ├─ TIMER: handle_time_event ─┬─ at_1337, at_1338 ── add_time_event
                    │                            └─ remind ── say
                    └─ SIGNAL: QUIT, or the end

There are no threads, so the hard behaviour is in the order of things. One
`epoll_wait()` returns a batch of notifications, and each of them is handled after
others have changed the list, the timer and the clock. The timer is edge-triggered
and never read, so a notification that is cleared or missed is lost for good.
Callbacks change the list from inside `handle_time_event()`. The clock may be set
back, and `time()` may be behind it. `send()` blocks. The process may end between
any two steps and is started again with what is in the file. Files may be changed
by another bot, or by hand, between two system calls, each of which may fail. TCP
divides the stream of messages anywhere, and the messages are parsed in place. The
full list, with the lines where each hazard bites and the properties that cover
it, is under "hazards" in `PROJECT.json`.

## 2. Modules

| Module | Models | Extends |
|---|---|---|
| `ReadBuffer` | `read_msg.c`, the loop of `process_msgs()` | |
| `MsgStream` | what the read half of `msg_io.h` promises: a queue of bytes | |
| `Ordered`, `OrderedProofs` | the members of a set of places, the least first; its lemmas, and those on least elements | |
| `MCReadHistory` | `ReadBuffer` with the history of the connection | `ReadBuffer`, `Ordered` |
| `ReadBufferProofs` | theorems on `ReadBuffer` and its history | `MCReadHistory`, `OrderedProofs` |
| `TimeEvent` | `time_event.c`, as operators on its state | |
| `Agenda` | what `time_event.h` promises: a set of pending events | |
| `EventLoop` | `bot.c`, `leet_monitor.c`, the part of `remind.c` in memory, the handlers that change state, the kernel and the server | `TimeEvent` |
| `EventLoopProofs` | lemmas on the list; theorems on the timer, and on the events in the list | `EventLoop` |
| `Reminders`, `MCReminders` | the file of `remind.c` over restarts | |
| `RemindersProofs` | theorems | `Reminders` |
| `IrcMsg` | `split_msg()`, `handle_msg()`, the bot command of `handle_privmsg()` | `Ordered` |
| `Commands`, `MCCommands` | `commands.c`, `handle_remind()` up to its reply, `date.c`, on the message that `IrcMsg` has cut up | `IrcMsg` |
| `IrcMsgProofs` | theorems on the parser and the handlers | `IrcMsg`, `OrderedProofs` |
| `CommandsProofs` | theorems on the commands | `Commands`, `IrcMsgProofs` |
| `DynamicString` | `dynamic_string.c` and `ge_pow_2()`, as operators on a string | |
| `Output`, `MCOutput` | `write_msg.c`, `connect_to()` and `writen()` | `DynamicString` |
| `Channel` | what the write half of `msg_io.h` promises: whole messages, in order | |
| `OutputProofs` | theorems | `Output`, `OrderedProofs` |
| `Files`, `MCFiles` | `files.c`, and the functions of `chat_log.c` and `remind.c` that append a line | |
| `FilesProofs` | theorems | `Files` |

`PROJECT.json` maps each definition to the lines it stands for. The names are
those of the code where TLA+ allows it. Definitions after a comment that begins
with "Wrong:" are mutants: plausible mistakes, which no run uses, and with which
the property listed beside them must fail.

### ReadBuffer

`mem` is the one physical page behind both mirrors; `Cell(i)` is where index `i`
falls, and indices from `2 * PageSize` on are the guard page. `Recv(chunk)` is
`recv_msgs()` when `recv()` returns data of any length that fits, and `RecvFull`
and `RecvClosed` its other ways out. `get_msg()` begins with `adjust_indices()`
(`Shift`, `AdjStart`, `AdjEnd`) and then scans, which is deterministic:
`GetNothing`, `GetRejected`, `GetInvalid` and `GetMsg` are its outcomes, and
exactly one of them is enabled. `msgAt` and `msgLen` are the pointer it returns
and the length of the string there. `HandleMsg` is all that happens to that
string: any of its bytes may be overwritten with `'\0'`. A handler may also reply,
and `send()` blocks: that it returns is a fairness assumption of its own,
`ServerFairness`. `exit_on_invalid_msg`, the `-e` flag, is a variable that no
action changes, so that each run has the bot with it and without.

`MsgStream` has no buffer: bytes received and not yet returned are a sequence.
`Stream` is the refinement mapping, where `pending` is the content of
`[start,end[` read through the mirrors and `msg` the text at `msgAt`.

### TimeEvent, EventLoop

The state of `time_event.c` is a record: the list, what the timer is doing, and
for when it is set. `AddTimeEvent` and `RemoveStart` map one such state to the
next, so that a handler that adds events, and the removal after it, are one
action, as they are one call of `handle_time_event()`.

A step of `EventLoop` is a stretch of code between two calls at which something
else can be observed: `pc` is "wait" in `epoll_wait()`, "batch" between two
notifications, "msgs" in `process_msgs()`, "reply" and "quit" before a message
that is sent after the state has changed. `batch` holds the notifications still
to be handled, in any order, which includes the order in which the kernel reports
them. `EINTR` leads back to the same call and is a stuttering step.

`Tick`, `SetBack`, `Expire`, `Signal` and `Server...` are the world. All of them
may come between any two steps of the bot, with one exception: while
`restore_remind_state()` runs, the clock stands still. It is read once, before
the file is, so that every behaviour in which the clock moves later has an
equivalent one in which it moves after.

- **Timer.** It is "off", "set" or "expired". It stays "expired", which is to say
  readable, until it is set again, as nobody reads it. `timerReady` is its place
  on epoll's ready list: put there by the expiration, or when it is added to the
  epoll instance after it has expired; gone once reported; ignored if the timer
  is no longer readable when `epoll_wait()` looks.
- **Clock.** Handlers see `time()`, which reads a coarse clock and may return an
  earlier second than the one in which the timer expired. `TimeRead` allows it to
  be `TimeLag` behind. `SetBack` is bounded by `MaxSetBack` in total.
- **Writing.** A `send()` is possible while fewer than `SendCap` messages are
  waiting for the server to read them, and blocks otherwise. After the server
  has closed the connection it may also fail, which ends the bot.
- **Reading.** A message is a person saying "1337", with the time it was said, a
  PING, or a `!remind`. `recv()` returns any non-empty prefix of what is there.

`Agenda` is a set of pending events and three actions: time passes, events are
registered, the earliest is handled if its time has come.

### Reminders

The file is a sequence of writes, each with how far it got (`Parts`). `Restore`
reads it as `restore_remind_state()` does: a line ends at the newline of a
complete write and starts with whatever torn writes came before it. Depending on
where the first of them broke off, the digits of two timestamps have run together
(`BadStamp`), which is either too large, and then the rest of the file is ignored,
or a time far in the future; or the line gives a reminder with the right time and
a damaged text, which is not `intact`. `Stop` is any end of the process at any
point; the bot may be started again `MaxRestarts` times.

### IrcMsg

A message is a sequence of tokens: the separators (space, `:`, `!`, `@`), words,
and "nul". Pointers are places in it, and a `'\0'` that is written changes it. The
four functions of `split_msg()` are four phases, with one action per way through
each of them and one action per round of the loop over parameters. The definitions
after "What a message means" are the reference: they read the same off the
original text with no parser state, and say which handler the text asks for
(`Meant`) and is to get (`Handled`). `exit_on_invalid_msg` is the `-e` flag, as in
`ReadBuffer`.

### Commands

`Commands` goes on where `IrcMsg` ends: `cmdCall` holds what `handle_privmsg()`
passes to `handle_cmd()`, pointers into the same text. Digits are tokens of their
own here. `parse_date()` is one action per component of a time (`Hour` to
`Year`), each with the ways on that its code has, and `GotTime` for `mktime()`,
which is a calendar with leap years and with the hours that daylight saving time
skips. `handle_remind()` is one action per reply. `Later` is the clock when it is
read for the second time. The definitions after "What a !remind means" are the
reference: a request is cut into words, and `Readings` is the set of times and
texts those words can stand for under the usage of `!help`.

### DynamicString, Output, Channel

A `String` is its memory, one entry per byte, and `len`. What has not been written
is "junk", so that text that was not copied, or not written again after the buffer
grew, does not go unnoticed: `TypeOK` of `Output` says that neither it nor a null
ever reaches the server. `ge_pow_2()` works on words of `Width` bits. `Output` is
the one buffer and the socket: `BeginMsg`, `AppendMsg` and `SendMsg` are the three
parts that each function of `write_msg.c` consists of, `Send(n)` is a `send()`
that takes `n` bytes, and `NoSocket` to `NoAddress` are the loop of
`connect_to()`: one action for each way out of `socket()` and of `connect()`, of
which `Refused` is the one with `close()`. That no other socket than the one that
is connected stays open is part of `TypeOK` (`SocketsAreClosed`). `Channel` has
neither a buffer nor a system call: a message is put together, accepted, and what
was accepted is delivered in order, until the bot ends. The refinement mapping
`ToServer` says that what is accepted is what was sent plus the rest of the buffer
from `written` on.

### Files

`bot` is the state of each process that uses the directory, one system call per
step: `Open` to `Reopen` are `open_file()`, `Fdopen` to `Fclose` are what
`log_append()` and `save_reminder()` do with the file, `Fstat` to `Use` are
`get_file_contents()`. A line is two halves, so that a write can be short in the
middle of it. `Edit` is the manual editing that `restore_remind_state()` speaks
of. `warned`, `short` and `then` are history: the lines a warning was printed
for, those that one write did not take as a whole, and the file at `fstat()`.

## 3. Runs

`cd tla; tlc -config X.cfg M`. All end within two minutes.

| Run | Module, cfg | Checks | Distinct states |
|---|---|---|---|
| `read_buffer` | `ReadBuffer`, `ReadBuffer.cfg` | `TypeOK`, `IndexSanity`, `NoStrandedMessage`, `ImplementsStream`, `LoopEnds` | 3 546 |
| `read_history` | `MCReadHistory` | `DeliveredAreTheMessages` | 10 823 |
| `event_loop` | `EventLoop`, `EventLoop.cfg` | `NeverEarly`, `LeetChain`, `WantedFrom1337`, `RemovesWhatItHandled`, `ImplementsAgenda` | 595 870 |
| `event_loop_clock` | `EventLoop`, `EventLoopClock.cfg` | `TypeOK`, `TimerIsArmed`, `TimerHasEvent`, `PendingOnce` | 1 744 685 |
| `event_loop_fair` | `EventLoop`, `EventLoopFair.cfg` | `ReadsDoNotBlock`, `EveryReminderIsSent`, `SecondSignalEnds` | 154 596 |
| `reminders` | `MCReminders` | `TypeOK`, `ReminderIsKept`, `SentTwiceOnlyWithinASecond` | 2 617 814 |
| `irc_msg` | `MCCommands` | `SplitsAsWritten`, `HandledAsWritten`, `SeparatorIsNext`, `HandlersReadWhatIsThere`, `BotCmdIsAsWritten`, `CmdTypeOK`, `AcceptedAsUsage`, `PlainRequestsAreAccepted`, `SavedIsReadable` | 298 050 |
| `output` | `MCOutput` | `TypeOK`, `StringFits`, `GrowsAsNecessary`, `ImplementsChannel`, `EveryMessageIsWritten` | 97 168 |
| `files` | `MCFiles` | `TypeOK`, `DescriptorsAreClosed`, `NoSilentLoss`, `OnlyTheRaceLoses`, `ReadsASnapshot` | 3 226 303 |
| `event_loop_set_back` | `EventLoop`, `EventLoopSetBack.cfg` | violates `RemovesWhatItHandled` | |
| `event_loop_blocked` | `EventLoop`, `EventLoopBlocked.cfg` | violates `SecondSignalEnds` | |
| `remind_usage` | `MCCommands`, `MCRemindUsage.cfg` | violates `UsageIsAccepted` | |

What they show, and why the bounds are enough:

- **read_buffer**. A page of three bytes. Indices only matter relative to the
  page; `start` and `end` take every pair of values the code can produce, up to
  `2 * PageSize`, and a page of three already holds an empty message, a message, a
  message with a null byte, a partial one, and combinations that fill it. The
  state space is finite without a bound: the bot may receive for ever. The bot is
  started with `-e` or without, so that a message with a null byte ends the
  process or is skipped, and `LoopEnds` is checked of both. The proofs cover every
  other page size, and both settings of `-e`.
- **read_history** adds the history, which needs a bound, seven bytes: the
  indices go around more than twice. The reference does not know about chunks, a
  buffer or indices.
- **event_loop** covers two days, so that `at_1338()` runs and schedules twice,
  two reminders that fall before, between, on and after the 1337 events, and a
  message. A day has three units (before, during and after the minute). `TimeLag`
  is 1: `time()` in `at_1338()` may still return the last second of 13:37, the
  worst it can do. The clock is not set back.
- **event_loop_clock** does set it back, by up to two, and lets `time()`,
  `localtime_r()` and `mktime()` fail. The properties that survive that are
  checked here; the others are not true, as `event_loop_set_back` shows.
- **event_loop_fair** checks liveness with both signals, PINGs and a reminder.
- **reminders**: three requests, because damage needs a line to be damaged, one
  appended to it, and one after those. Two starts: every state of the file is read
  at the second of them, and the first may fail at any point. Three seconds, and
  `time()` is at most one behind: a reminder that was sent can be for the second in
  which the bot is started again, for one long before or for one long after, so that
  both bounds of `SentTwiceOnlyWithinASecond` can fail.
- **irc_msg**: every message of up to five tokens, and longer ones that combine
  each prefix, each command of the table and each form of parameters; each of them
  received by a bot with `-e` and by one without. `MAX_PARAMS` is 3 rather than
  20, so that the limit is met. For the commands: each name, with every argument
  of up to four tokens, and every `!remind` that combines a time, a gap, a date, a
  gap, a year and a text from small sets. These hold one digit and two, values at
  and past each limit (hour 24, 29 February of two years, month 0 and 13, years 37
  and 38, an hour that is skipped), spaces and tabs, texts that begin with a
  digit, and every tail of up to five tokens after a time. The clock is one fixed
  moment, or a later one in `handle_remind()`.
- **remind_usage** takes the usage and the comment in `date.h` at their word, and
  a few of these inputs.
- **output**: the buffer begins with 4 bytes rather than 4096, and messages have
  up to 8 and "\r\n", so that it grows twice. With pieces of lengths 0, 1, 2 and
  5, a string ends before, at and after the end of the buffer at each size. The
  size it grows to is bounded by `Width`, 5 bits. Two or more messages follow
  each other, a longer one before a shorter one included. There are none to two
  addresses, and `socket()` and `connect()` may fail for each.
- **files**: two bots, three lines and two failures. Races are between two
  processes. The third line is appended when the directory is there for certain,
  or while the second is read. The second failure may hit the handling of the
  first.

**Fairness.** `Fairness` says the process is scheduled while it can take a step,
the clock goes on, and a timer whose time has come expires: all three are the
kernel's. `ServerFairness` says the server reads what it is sent. That is not the
code's to guarantee, so it is separate: `event_loop_blocked` shows what is lost
without it. No strong fairness is assumed: the loop has to get to its timer
because a batch holds every source that is ready. In `ReadBuffer`, `Fairness` is
about `get_msg()`, which only looks at memory, and `ServerFairness` about the
handlers: they reply through `writen()` and a blocking `send()`
(`src/common_net.c:90`), and so return if the server reads what it is sent.
`LoopEnds` holds on that assumption only; `event_loop_blocked` shows the same call
block for ever without it. `FairSpec` of `Output` says that `send()` returns in
the end, again because the server reads; without it a message may never be
written.

Deadlock is not checked where the program ends (`pc` in "done", "exited" or
"down") or where all that can happen within the bounds has happened.

## 4. Proofs

`tlapm M.tla` in `tla/`. Everything is proved to the last leaf, from the
assumptions on the constants that are named in the modules
(`ReadBufferAssumption`, `EventLoopAssumption`, `RemindersAssumption`,
`IrcMsgAssumption`, `CommandsAssumption`, `DynamicStringAssumption`,
`OutputAssumption`, `FilesAssumption`), which TLC evaluates for each run. What a
theorem assumes beside them is in its statement, and named here.

**ReadBufferProofs.** For every page size, set of bytes and setting of `-e`:
`TypeCorrect`, `IndicesAreSane`, `NothingStranded`, `BufferIsStream`. The
inductive invariant `IInv` is `TypeOK`, `IndexSanity` and `NoStrandedMessage`
together. The three assertions of the code alone are not inductive: they allow
`start` to be past `PageSize` when `recv()` is called, and then `end` could end up
on the guard page. What is missing is that the bot only goes back to
`epoll_wait()` from a `get_msg()` that adjusted the indices and returned nothing,
which `IndexSanity` states for "wait", and where the message that the handlers
hold lies. For `BufferIsStream`, each action is shown to map to an action of
`MsgStream` or to a stutter. The lemmas it rests on say that `Cell` is
injective on any `PageSize` indices in a row (`CellInjective`, which is what the
mirrored page is for), that `adjust_indices()` leaves every unread byte on its
cell (`Adjust`), and that moving `start` past the terminator is to cut the first
message off the queue (`ScanIsFirstEol`, `AdvanceIsCut`).

`MessagesAreDelivered` is about the whole history of a connection, of any length:
the handlers were given the messages of the stream. The reference looks at all
terminators at once, the queue only at its first one. `HistoryInv` joins the two:
there is a place in the stream up to which everything was cut, which is its
beginning or a terminator; what is unread follows it; and the messages that end
before it are those that were handed out (`Held`). Cutting off an empty or an
invalid message moves the place and hands out nothing, and what `recv()` appends
is behind it.

**EventLoopProofs, the timer.** For any reminders, days, capacities and
clock, with or without failures: `TypeCorrect`, `TimerStaysArmed`,
`TimerFindsEvent`. And if the clock is never set back: `NothingIsEarly`. The
lemmas on `TimeEvent` say that the search of `add_time_event()` finds a
place, that inserting there keeps the list in order and does not put a later event
first, and that removing the first event keeps it in order and arms the timer for
the next one. The inductive invariant `IInv` is `TypeOK` and `TimerInv`:

- the list is in order, and the timer is set for its first event (`ForHead`);
- `EnoughEvents`: if the notification of the timer is in the batch, or one is to
  come, there is an event for it, and if both, there are two. `TimerHasEvent` alone
  is not inductive: a notification in the batch may coincide with a timer that was
  armed again, because the server's messages were handled first, and has expired a
  second time;
- `ExpirationIsSeen`: an expired timer is on the ready list, or in the batch, or
  the loop has not started;
- `NoBatch`: outside the loop over notifications the batch is empty.

`NothingIsEarly` adds `OnTime`: while the timer has expired or its notification
is in the batch, the first event is due. Adding events keeps that, since they
become first only if they are earlier; a clock that only goes forward keeps it;
and arming the timer for a later event makes it void.

**EventLoopProofs, the events.** About what is in the list, on top of `IInv`.

- `RemindersPendOnce` holds whatever the clock does. `PendingOnce` is inductive
  only together with `AskedOnce`: the requests that are in the socket and in the
  read buffer are for different reminders, none of which has been accepted.
- `ReadsNeverBlock` needs no more than the actions: each notification is taken
  out of the batch by the step that reads what it is about.
- `HandledIsRemoved` assumes that the clock is never set back (`MaxSetBack = 0`);
  `event_loop_set_back` shows that it is false otherwise. Its invariant is
  `OnTime` and `LeetInv`: at most one `at_1337()` and one `at_1338()` are in the
  list, of one day. If the `at_1338()` that is handled is due, and `time()` is
  behind by no more than the minute (`TimeLag <= LeetLength`), the next 13:37 is
  of a later day (`Next1337IsNext`), so that nothing is added before the head.
- `LoopImplementsAgenda`, under the same assumption: a notification maps to
  `Fire` with what the handler registers, a new reminder to `Register`, the clock
  to its step, and everything else to a stutter.
- `ChainGoesOn` and `WantedInTheMinute` assume, moreover, that `time()`,
  `localtime_r()` and `mktime()` do not fail (`~ClockFails`), as the chain of
  events ends if `at_1338()` is not added. `ChainInv` says that an `at_1338()` is
  there at all, and that it is at most the length of the minute away while "1337"
  is waited for.

The arithmetic of days (`DayAndTime`, `FirstAfter`) is that of every length of a
day, and of every minute in it.

**FilesProofs.** For any number of bots, lines and failures: `TypeCorrect`,
`DescriptorsClosed`, `SnapshotRead`, `NoLineLostSilently`, and for any finite
number of bots `OnlyTheRace`. The inductive invariant `IInv` gives each process a
predicate, `Good`, on its state and the file:

- how many descriptors are open follows from where it is (`Working`), not only
  when it is idle;
- `Snapshot`: while it reads, the file still begins with `then`, and `then` with
  what was read so far. That needs both that others only append (`GoodAppend`)
  and that a `read()` goes on where the last one ended (`ReadsMore`);
- `buf` is empty outside `get_file_contents()`, and a line is being appended where
  the code appends.

As the processes share only the file, a step of one of them keeps `Good` of the
others (`OneBot`), and each action needs only be looked at for its own process.

`NoLineLostSilently` adds `KInv`. A line belongs to at most one process
(`LineInv`); one that is in `fclose()` has written nothing of its line, the first
half, which is then a short write, or all of it (`FlushInv`); and a line that no
process is at any more is in the file or was warned about (`DoneInv`).
`OnlyTheRace` adds `RaceInv`: as long as nothing else fails, the warned lines and
the bots that are still before `mkdir()` together are fewer than the bots, because
the one that made the directory is neither.

**RemindersProofs.** For any number of requests, restarts and torn writes, and any
lag of `time()`: `TypeCorrect`, `RemindersAreKept`, `SentAgainInItsSecond`. The
first step is that the file is only appended to, so that where a line starts
(`StartOf`), whether it is damaged (`Bad`), and whether reading gets to it
(`Safe`), is settled when it is written (`StartOfStays`, `SafeBefore`), and that
restoring finds every line it gets to (`SafeIsRead`). The inductive invariant is
`TypeOK` with `HasStarts` (every write belongs to a line), `AddingInv` (what
`handle_remind()` has done with the request it is at), `KeptInv` (which is
`ReminderIsKept`) and `SentInv`: a reminder that is pending although it was sent
was read from the file by a bot that was started in the second of the reminder.

**IrcMsgProofs.** For messages of any length and any limit on parameters:
`TypeCorrect`, `AssertionHolds`, `HandlersAreSafe`. The inductive invariant of
parsing has the text (`CutUp`: each character is that of the message or null, and
the last one is null), the pointers, each of which is null or leads into the text,
and which are set together (`user` with `nick`), the number of parameters the
table allowed (`CalledInv`), and the assertion itself. That a search ends
(`FirstOne`, `Finds`, `Skipping`) is where the null at the end is needed.

`SplitsTextRight` compares what the pointers lead to with definitions on the
original text that know no cursor and write nothing. `TextInv` has one predicate
for each phase of `split_msg()` (`AtPrefix` to `AtHandle`). Each says of the text
that the reference accepts it and cuts it the same way up to `cur` (`SplitTo`), that
exactly those cuts were written to memory and none behind `cur` (`CutTo`), and that
the pointers are the places after them (`NamesAre`, `Stops`). One round of the loop
over parameters then adds one cut to each side (`ParamStep`). What is compared is the
prefix (cut down to the nickname, if there is one), nickname, username, host, command
and parameters. A message is rejected only in a state from which the reference
rejects it (`RejectedIsMalformed`).

`HandledRight` says what becomes of the message: the handler of its command is
called if and only if the text is well-formed and has the parameters and the
nickname that `msgs[]` asks for, and with `-e` the bot exits on messages that are
malformed or do not fit, on all of them and on no other. It rests on
`FitsWhatIsMeant`: once a message has been split, what `handle_msg()` looks up and
counts is what the text has.

`BotCmdsArePassedOn` is the same for the bot command in the second parameter,
which `handle_privmsg()` cuts once more (`CallInv`). It assumes that the command
character is not a space, which `-m` would take (`options.c:64`): the space that
ends the command would then be the one that begins it, and command and argument
the same text.

**CommandsProofs.** `CommandsTypeCorrect`, for a request of any length and any
clock: adding `!remind` refines the parser (`CommandsRefineMessages`: the commands
only read the text), so that `TypeCorrect` holds of it, and on top of it `at` leads
into the text as long as it is parsed. `SavedRemindersAreRead`: the line that is saved
is read back as the target and the text it was made of. `restore_remind_state()` ends
the target at a space and the text at a newline, and takes neither if it is empty. The target is one word of
the message, and no message has a newline, which `CommandsAssumption` says, as
`get_msg()` ends a message at its first `\r` or `\n`.

`AcceptedByTheUsage` and `PlainOnesAreAccepted` say that `parse_date()` is right,
for requests of any length: what is accepted is a time and a text that the request
has under the usage, and every request written with spaces whose text does not
begin with a digit is accepted, if its time exists and is to come by its fields
(the two times that have the same fields when clocks are set back are not told
apart; see section 5). Both assume that the clock is not set back between the two
calls of `time()` (`~Earlier(Later, Now)`), of which the first fills in the date
that was left out and the second decides whether the time is over. The invariant,
`ParseInv`, has one predicate for each step of the parser: `HourRead` to `GotRead`
say what was read from the beginning of the request to the cursor, one number
after the other with what stands between them, and which fields of the time they
gave. The argument has three parts.

- Each action of the parser takes one of these predicates to the next (the lemmas
  named `...Step`), or refuses a request of which nothing else could be read.
- What is read is unique (the lemmas named `...Once`): at most one cursor and one
  time satisfy a predicate. Hence a refusal speaks for every reading.
- The reference knows words, not characters. `TimeToWord`, `WordToTime` and the
  like for dates and years show that the words of a request are what stands
  between the places that the predicates speak of. From these, `ReadingIs` and
  `ReadingHas`: a time and a text can be read off the request character by
  character if and only if they are a reading of it under the usage.

**OutputProofs.** For buffers and messages of any size, any width of a word and
any way in which `send()` divides what is sent: `TypeCorrect`, `StringsFit`,
`GrowsOnlyAsNecessary`, `OutputImplementsChannel`. `AppendFacts`
is the core: whatever the memory held, after `string_append()` the text is the old
one and the new piece, followed by its null, whether or not the buffer had to grow
and the text to be printed a second time. It rests on what `vsnprintf()` leaves
where (`PrintAtFacts`) and on `GePow2Facts`: `ge_pow_2(n)` is the least power of
two that is at least `n`, and does not overflow while `n` is at most half the
range of a word, which `OutputAssumption` says of the longest message. The
inductive invariant is that the text and its null are within the memory, that a
message that is being sent has been sent up to `written <= len`, and which sockets
are open at each place of `connect_to()` and after it. The refinement has one
lemma for each action of `Channel` (`BeginsMessage`, `AddsPiece`,
`AcceptsMessage`, `DeliversPart`, `EndsIt`).

**Induction.** The provers cannot use the induction theorems of the library. Where
an argument needs one, `OrderedProofs` gives it another form: a set of numbers that
is not empty has a least element (`Least`, from the well-foundedness of `<`), so
that a least counterexample cannot exist. In this way the first place of a
character is found (`FirstOne`), the recursive function `Pow2` is shown to exist
and to grow, and a sequence that increases through all members of a set is shown to
be the only one that does (`AscendingIs`). For the sake of the last one, the
references cut a text at `Ascending` sets of places rather than by recursion: the
invariants keep a sequence of cuts that grows at its end, and once all is cut
`AscendingIs` says that it is that of the reference.

**Only model-checked.** Liveness (`LoopEnds`, `EveryReminderIsSent`,
`SecondSignalEnds`, `EveryMessageIsWritten`) is out of reach of the prover. That the
three claims of section 5 fail is shown by counterexamples. Every other property
that a run checks - invariant, action property or refinement - is a theorem, with
the assumptions named above.

## 5. Disagreements with the documentation

Each is a run that expects a violation.

1. `event_loop_set_back`. `handle_time_event()` "Handles and removes the next
   chronological event" (`include/time_event.h:13`), but it removes what is first
   after the handler returns. If the clock is set back to before 13:37 after
   the timer for 13:38 expired, `at_1338()` puts the new `at_1337()` first. It is
   removed in the place of the `at_1338()` that ran, which runs again, and
   schedules a second chain.
2. `event_loop_blocked`. "If another signal arrives, close the connection
   ourselves" (`src/bot.c:140`): not if the bot is blocked in `send()`, as the
   signals are blocked and only read by the loop.
3. `remind_usage`. "Usage: !remind hh:mm[:ss] [dd/MM [yy]] <text of reminder>"
   (`src/commands.c:46`), and any amount of whitespace for each space
   (`include/date.h:9`): `parse_date()` only goes on to the date or the year
   after a ' ', so that a tab there is refused. And `!remind 14:45 2 eggs` is
   refused, because the 2 is taken for a day. `PlainRequestsAreAccepted` shows
   what is accepted: with spaces, and a text that does not begin with a digit,
   every request for a time to come, where times are compared by their fields.
   Left open is the hour that daylight saving time repeats: with `tm_isdst = -1`
   (`src/date.c:110`), `mktime()` may take the first of the two, and then
   `src/remind.c:106` refuses the request although the second is to come.

Three more, without a run. The comment at `src/date.c:102` says that years past
2038 are refused, but 2038 is refused as well; `AcceptedAsUsage` and
`PlainRequestsAreAccepted` hold for what the code does. If `fdopen()` fails, its
descriptor stays open (`src/files.c:134`), which `DescriptorsAreClosed` takes
into account. And `include/leet_monitor.h:1` speaks of whoever writes "1337"
during 13:37: the bot goes by when it handles the message (`WantedFrom1337`),
which can be before or after that minute, as it cannot know when it was written.

## 6. What is abstracted, and what is not modelled

- In `EventLoop`, days are of one length. Daylight saving time and the rest of
  `mktime()` are left out there; `Commands` has a calendar, and hours that are
  skipped. The hour that daylight saving time repeats is not told apart, and the
  order of two times is that of their fields.
- In `EventLoop`, a message is one thing: a PING, a "1337", or a `!remind`. A
  `!remind` whose text contains "1337" does both in the code, one after the
  other. Messages that change no state, and the other commands, each a single
  reply like a PING, are left out, as are those that end the process with `-e`,
  which are in `ReadBuffer` and `IrcMsg`.
- The NICK and USER messages are written before the loop starts, into an empty
  socket buffer, and are taken to fit.
- System calls that fail where the code calls `err_exit()` at once
  (`timerfd_settime()`, `epoll_wait()`, `malloc()`) end the process and are left
  out, but for `erealloc()`, `getaddrinfo()` and `send()` in `Output`, as are the
  failures while the bot is set up. `time()` in `restore_remind_state()` is one of
  these.
- In `Reminders`, the event loop is "the earliest due reminder is sent". Damaged
  timestamps in the far future never come due. One request is made of each name, and
  again only if nothing is left of it.
- In `IrcMsg`, the tracing of messages and the texts of warnings are left out;
  the four-hundreds and five-hundreds are one token, as they all lead to a
  warning.
- `ReadBuffer` does not know what the handlers are. That they only write inside the
  message is what `TypeOK` of `IrcMsg` shows: the text keeps its length and the
  `'\0'` at its end.
- In `Commands`, the texts of replies are left out, and with them the arithmetic
  of the confirmation (`remind.c:127`). An empty nickname, which a server does not
  send, would give a line that cannot be read back (`SavedIsReadable`).
- In `Output`, characters only matter for which piece they come from, and a piece
  holds neither a null nor `\r` or `\n`, as it comes from a message that was cut
  at these.
- `Files` is about one file. A line fits in the buffer of stdio, so that it is
  written by `fclose()`: a message of IRC has 512 bytes, and that buffer 4096.
  The directory is not removed, and the error for too many open files is one of
  the failures. The missing `va_start()` before the `va_end()` of
  `chat_log.c:78` has no effect with the compilers this code is written for.
- Not modelled: `options.c`, which runs before anything else and whose results are
  constants of the modules (but for `exit_on_invalid_msg`); `irc_errnum_str()`,
  `socket_type_str()` and the warnings of `common.c`, which only word what is
  printed; `readn()` and `string_get_copy()`, which are not called.

## 7. Plan

Done, in this order, the most important first: read buffer, time events and loop,
reminders over restarts, messages; proofs of the first two; commands and dates,
the way out to the server, files; proofs of the list and its refinement, of the
reminders over restarts, of files, of parsing and of the way out to the server;
and, last, of the properties about texts, up to what the usage of `!help` promises.

What could follow: `EventLoop` and `Reminders` are two views of `remind.c`, of which
each simplifies what the other has in full. A specification of reminders alone - asked
for, pending, sent - that both are shown to implement would join them.
