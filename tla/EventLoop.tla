------------------------------- MODULE EventLoop -------------------------------
(***************************************************************************)
(* The bot as a single-threaded event loop: main() of bot.c, the time      *)
(* events of time_event.c, the 1337 monitor of leet_monitor.c and the      *)
(* registration and delivery of reminders of remind.c, with the kernel     *)
(* (clock, timerfd, signalfd, epoll, socket) and the server around it.     *)
(* Time is counted in the smallest unit that a handler tells apart.        *)
(***************************************************************************)
EXTENDS TimeEvent

CONSTANTS
    Reminder,       \* names of the !remind requests of a behaviour
    Chat,           \* the other messages the server sends: "1337", "ping"
    Signals,        \* the signals that may arrive: SIGINT and SIGTERM
    DayLength,      \* length of a day
    LeetStart,      \* time of day of LEET_HOUR:LEET_MINUTE
    LeetLength,     \* the minute after it
    Horizon,        \* bound: the clock stops there
    SocketCap,      \* bound: messages from the server not yet received
    SendCap,        \* messages to the server the kernel buffers
    TimeLag,        \* how far time() may be behind the timer's clock
    MaxSetBack,     \* bound: how far the clock is set back in all, 0 for never
    ClockFails      \* whether time(), localtime_r() and mktime() may fail

ASSUME EventLoopAssumption ==
    /\ {DayLength, LeetStart, LeetLength} \subseteq Nat \ {0}
    /\ LeetStart + LeetLength < DayLength
    /\ {Horizon, SocketCap, SendCap, TimeLag, MaxSetBack} \subseteq Nat
    /\ TimeLag <= LeetLength
    /\ ClockFails \in BOOLEAN
    /\ Chat \subseteq {"1337", "ping"}
    /\ Reminder \cap {"1337", "ping", "at_1337", "at_1338"} = {}

VARIABLES
    now,            \* the real-time clock
    setBack,        \* how far it has been set back so far
    events,         \* the state of time_event.c
    timerReady,     \* the timer is on the ready list of the epoll instance
    socket,         \* messages from the server that recv() has not returned
    peerClosed,     \* the server closed or reset the connection
    backlog,        \* messages to the server that it has not read
    signals,        \* pending signals, one of each at most
    pc,             \* where the program is
    batch,          \* event sources of this epoll_wait() not yet handled
    inbox,          \* messages of this recv() not yet handled
    firstSignal,    \* first_signal
    want1337,       \* want_1337
    status          \* what became of each reminder

clockVars == <<now, setBack>>
kernelVars == <<timerReady, socket, peerClosed, signals>>
loopVars == <<pc, batch, inbox, firstSignal>>
vars == <<clockVars, events, kernelVars, backlog, loopVars, want1337, status>>

Sources == {"SERVER", "TIMER", "SIGNAL"}
Handler == {"at_1337", "at_1338"} \cup Reminder

\* A message is somebody saying "1337" in #code.se, a PING, or a !remind for a
\* time.  Messages that change no state are left out.
Message == [what : Chat \cup Reminder, time : Nat]

\* Starting up: "init" before init_leet_monitor(), "restore" in
\* restore_remind_state(), "connect" before init_epoll().  In the loop: "wait"
\* in epoll_wait(), "batch" between two notifications, "msgs" in
\* process_msgs(), "reply" in the send_msg() of handle_remind(), "quit" before
\* the QUIT message.  Ended: "done" cleanly, "exited" by err_exit().
Starting == {"init", "restore", "connect"}
Ended == {"done", "exited"}
PCs == Starting \cup {"wait", "batch", "msgs", "reply", "quit"} \cup Ended

StatusValues == {"fresh", "asked", "pending", "rejected", "reminded"}

TypeOK ==
    /\ now \in Nat
    /\ setBack \in 0..MaxSetBack
    /\ events \in TimeEventStates(Handler)
    /\ timerReady \in BOOLEAN
    /\ socket \in Seq(Message)
    /\ peerClosed \in BOOLEAN
    /\ backlog \in 0..SendCap
    /\ signals \subseteq Signals
    /\ pc \in PCs
    /\ batch \subseteq Sources
    /\ inbox \in Seq(Message)
    /\ firstSignal \in BOOLEAN
    /\ want1337 \in BOOLEAN
    /\ status \in [Reminder -> StatusValues]

\* The end of init() but for restore_state().
Init ==
    /\ now \in 0..Horizon
    /\ setBack = 0
    /\ events = NoTimeEvents
    /\ timerReady = FALSE
    /\ socket = <<>>
    /\ peerClosed = FALSE
    /\ backlog = 0
    /\ signals = {}
    /\ pc = "init"
    /\ batch = {}
    /\ inbox = <<>>
    /\ firstSignal = TRUE
    /\ want1337 = FALSE
    /\ status = [r \in Reminder |-> "fresh"]

-------------------------------------------------------------------------------
(* The kernel and the server *)

Running == pc \notin Ended

\* restore_remind_state() reads the clock once, before all it does: letting
\* the clock stand still until it returns loses no behaviour.
Tick ==
    /\ Running
    /\ pc # "restore"
    /\ now < Horizon
    /\ now' = now + 1
    /\ UNCHANGED <<setBack, events, kernelVars, backlog, loopVars, want1337,
                   status>>

\* The clock is set back, by hand or by NTP.
SetBack ==
    /\ Running
    /\ pc # "restore"
    /\ \E d \in 1..(MaxSetBack - setBack) :
         /\ d <= now
         /\ now' = now - d
         /\ setBack' = setBack + d
    /\ UNCHANGED <<events, kernelVars, backlog, loopVars, want1337, status>>

\* The timer expires, which puts it on the ready list of an epoll instance
\* that monitors it.
Expire ==
    /\ Running
    /\ events.timer = "set"
    /\ events.deadline <= now
    /\ events' = [events EXCEPT !.timer = "expired"]
    /\ timerReady' = (timerReady \/ pc \notin Starting)
    /\ UNCHANGED <<clockVars, socket, peerClosed, signals, backlog, loopVars,
                   want1337, status>>

\* A signal that is already pending is merged with it.
Signal(s) ==
    /\ Running
    /\ s \notin signals
    /\ signals' = signals \cup {s}
    /\ UNCHANGED <<clockVars, events, timerReady, socket, peerClosed, backlog,
                   loopVars, want1337, status>>

\* A reminder is asked for once, for some time.
ServerSends(m) ==
    /\ Running
    /\ pc \notin Starting
    /\ ~peerClosed
    /\ Len(socket) < SocketCap
    /\ IF m.what \in Reminder
       THEN /\ status[m.what] = "fresh"
            /\ status' = [status EXCEPT ![m.what] = "asked"]
       ELSE /\ m.time = 0
            /\ UNCHANGED status
    /\ socket' = Append(socket, m)
    /\ UNCHANGED <<clockVars, events, timerReady, peerClosed, signals, backlog,
                   loopVars, want1337>>

\* A reset also drops the data that was not received.
ServerCloses ==
    /\ Running
    /\ pc \notin Starting
    /\ ~peerClosed
    /\ peerClosed' = TRUE
    /\ socket' \in {socket, <<>>}
    /\ UNCHANGED <<clockVars, events, timerReady, signals, backlog, loopVars,
                   want1337, status>>

ServerReads ==
    /\ Running
    /\ backlog > 0
    /\ backlog' = backlog - 1
    /\ UNCHANGED <<clockVars, events, kernelVars, loopVars, want1337, status>>

\* What time() may return.
TimeRead == {t \in 0..now : now <= t + TimeLag}

\* writen(): send() blocks while the kernel's buffer is full.
Send ==
    /\ backlog < SendCap
    /\ backlog' = backlog + 1

\* send() fails, after the server closed the connection: err_exit().
SendFails ==
    /\ peerClosed
    /\ pc' = "exited"
    /\ UNCHANGED <<clockVars, events, kernelVars, backlog, batch, inbox,
                   firstSignal, want1337, status>>

-------------------------------------------------------------------------------
(* schedule_next_1337() *)

\* Deliberately wrong variants of an operation, here and below, each followed
\* by the operation: with one in its place a property must fail.

\* Wrong: at 13:37 sharp it is not too late for today.
Next1337Sharp(t) ==
    LET today == (t - (t % DayLength)) + LeetStart
    IN  IF t % DayLength > LeetStart THEN today + DayLength ELSE today

\* Wrong: the day is never advanced.
Next1337Today(t) == (t - (t % DayLength)) + LeetStart

\* Wrong: a time from now, not a calendar time.
Next1337Relative(t) == LeetStart - (t % DayLength)

Next1337(t) ==
    LET today == (t - (t % DayLength)) + LeetStart
    IN  IF t % DayLength >= LeetStart THEN today + DayLength ELSE today

Add1337(q, t) == AddTimeEvent(q, Next1337(t), "at_1337")
Add1338(q, t) == AddTimeEvent(q, Next1337(t) + LeetLength, "at_1338")

\* The states schedule_next_1337() may leave behind when it reads time t:
\* each of its steps may fail, which is only warned about.
ScheduleNext1337(q, t) ==
    {Add1338(Add1337(q, t), t)}
    \cup IF ClockFails THEN {q, Add1337(q, t), Add1338(q, t)} ELSE {}

-------------------------------------------------------------------------------
(* Starting up *)

\* restore_state() calls init_leet_monitor() first.
InitLeetMonitor ==
    /\ pc = "init"
    /\ \E t \in TimeRead : events' \in ScheduleNext1337(events, t)
    /\ pc' = "restore"
    /\ UNCHANGED <<clockVars, kernelVars, backlog, batch, inbox, firstSignal,
                   want1337, status>>

\* A line of the reminders file.  Lines from the past are skipped.
RestoreReminder(r, when) ==
    /\ pc = "restore"
    /\ status[r] = "fresh"
    /\ \E t \in TimeRead : t <= when
    /\ events' = AddTimeEvent(events, when, r)
    /\ status' = [status EXCEPT ![r] = "pending"]
    /\ UNCHANGED <<clockVars, kernelVars, backlog, loopVars, want1337>>

Restored ==
    /\ pc = "restore"
    /\ pc' = "connect"
    /\ UNCHANGED <<clockVars, events, kernelVars, backlog, batch, inbox,
                   firstSignal, want1337, status>>

\* connect_to_irc_server() and init_epoll(): a timer that expired before it was
\* added to the epoll instance is on the ready list at once.
Connect ==
    /\ pc = "connect"
    /\ pc' = "wait"
    /\ timerReady' = (events.timer = "expired")
    /\ UNCHANGED <<clockVars, events, socket, peerClosed, signals, backlog,
                   batch, inbox, firstSignal, want1337, status>>

-------------------------------------------------------------------------------
(* main() *)

\* Wrong: a level-triggered timer, which nobody reads.
ReadyLevelTriggered ==
    {s \in Sources :
        CASE s = "SERVER" -> socket # <<>> \/ peerClosed
          [] s = "TIMER"  -> events.timer = "expired"
          [] s = "SIGNAL" -> signals # {}}

\* The socket and the signals are level-triggered.  The timer, edge-triggered,
\* leaves the ready list, and is reported if it is still readable.
Ready ==
    {s \in Sources :
        CASE s = "SERVER" -> socket # <<>> \/ peerClosed
          [] s = "TIMER"  -> timerReady /\ events.timer = "expired"
          [] s = "SIGNAL" -> signals # {}}

EpollWait ==
    /\ pc = "wait"
    /\ Ready # {}
    /\ batch' = Ready
    /\ timerReady' = FALSE
    /\ pc' = "batch"
    /\ UNCHANGED <<clockVars, events, socket, peerClosed, signals, backlog,
                   inbox, firstSignal, want1337, status>>

\* The loop over events[] ends.
BatchHandled ==
    /\ pc = "batch"
    /\ batch = {}
    /\ pc' = "wait"
    /\ UNCHANGED <<clockVars, events, kernelVars, backlog, batch, inbox,
                   firstSignal, want1337, status>>

\* case SERVER, with data: recv() returns some of it.
ServerData ==
    /\ pc = "batch"
    /\ "SERVER" \in batch
    /\ \E n \in 1..Len(socket) :
         /\ inbox' = SubSeq(socket, 1, n)
         /\ socket' = SubSeq(socket, n + 1, Len(socket))
    /\ batch' = batch \ {"SERVER"}
    /\ pc' = "msgs"
    /\ UNCHANGED <<clockVars, events, timerReady, peerClosed, signals, backlog,
                   firstSignal, want1337, status>>

\* case SERVER, at the end of the data: goto done.
ServerGone ==
    /\ pc = "batch"
    /\ "SERVER" \in batch
    /\ socket = <<>>
    /\ peerClosed
    /\ pc' = "done"
    /\ UNCHANGED <<clockVars, events, kernelVars, backlog, batch, inbox,
                   firstSignal, want1337, status>>

\* case TIMER: handle_time_event() calls the handler of the first event, then
\* removes the event that is first by then.
TimerEvent(handler) ==
    /\ pc = "batch"
    /\ "TIMER" \in batch
    /\ events.list # <<>>
    /\ Head(events.list).handler = handler

TimerHandled ==
    /\ batch' = batch \ {"TIMER"}
    /\ UNCHANGED <<clockVars, kernelVars, pc, inbox, firstSignal>>

At1337 ==
    /\ TimerEvent("at_1337")
    /\ want1337' = TRUE
    /\ events' = RemoveStart(events)
    /\ TimerHandled
    /\ UNCHANGED <<backlog, status>>

\* Wrong: want_1337 is left as it is.
At1338Unreset ==
    /\ TimerEvent("at_1338")
    /\ IF want1337 THEN Send ELSE UNCHANGED backlog
    /\ UNCHANGED want1337
    /\ \E t \in TimeRead : \E q \in ScheduleNext1337(events, t) :
         events' = RemoveStart(q)
    /\ TimerHandled
    /\ UNCHANGED status

At1338 ==
    /\ TimerEvent("at_1338")
    /\ IF want1337 THEN Send ELSE UNCHANGED backlog
    /\ want1337' = FALSE
    /\ \E t \in TimeRead : \E q \in ScheduleNext1337(events, t) :
         events' = RemoveStart(q)
    /\ TimerHandled
    /\ UNCHANGED status

Remind(r) ==
    /\ TimerEvent(r)
    /\ Send
    /\ events' = RemoveStart(events)
    /\ status' = [status EXCEPT ![r] = "reminded"]
    /\ TimerHandled
    /\ UNCHANGED want1337

TimerSendFails ==
    /\ \/ TimerEvent("at_1338") /\ want1337
       \/ \E r \in Reminder : TimerEvent(r)
    /\ SendFails

\* Wrong: every signal is treated as the first one.
ReadSignalForgets ==
    /\ pc = "batch"
    /\ "SIGNAL" \in batch
    /\ \E s \in signals : signals' = signals \ {s}
    /\ batch' = batch \ {"SIGNAL"}
    /\ pc' = "quit"
    /\ UNCHANGED <<clockVars, events, timerReady, socket, peerClosed, backlog,
                   inbox, firstSignal, want1337, status>>

\* Wrong: the notification is not used up.
ReadSignalAgain ==
    /\ pc = "batch"
    /\ "SIGNAL" \in batch
    /\ \E s \in signals : signals' = signals \ {s}
    /\ pc' = IF firstSignal THEN "quit" ELSE "done"
    /\ UNCHANGED <<clockVars, events, timerReady, socket, peerClosed, backlog,
                   batch, inbox, firstSignal, want1337, status>>

\* case SIGNAL: read() takes one signal.
ReadSignal ==
    /\ pc = "batch"
    /\ "SIGNAL" \in batch
    /\ \E s \in signals : signals' = signals \ {s}
    /\ batch' = batch \ {"SIGNAL"}
    /\ pc' = IF firstSignal THEN "quit" ELSE "done"
    /\ UNCHANGED <<clockVars, events, timerReady, socket, peerClosed, backlog,
                   inbox, firstSignal, want1337, status>>

SendQuit ==
    /\ pc = "quit"
    /\ Send
    /\ firstSignal' = FALSE
    /\ pc' = "batch"
    /\ UNCHANGED <<clockVars, events, kernelVars, batch, inbox, want1337,
                   status>>

QuitFails == pc = "quit" /\ SendFails

-------------------------------------------------------------------------------
(* process_msgs() *)

\* The message being handled.
msg == Head(inbox)
Handling == pc = "msgs" /\ inbox # <<>>

MsgHandled ==
    /\ inbox' = Tail(inbox)
    /\ UNCHANGED <<clockVars, kernelVars, batch, firstSignal>>

MsgsHandled ==
    /\ pc = "msgs"
    /\ inbox = <<>>
    /\ pc' = "batch"
    /\ UNCHANGED <<clockVars, events, kernelVars, backlog, batch, inbox,
                   firstSignal, want1337, status>>

\* handle_PING()
IsPing == Handling /\ msg.what = "ping"

Ping ==
    /\ IsPing
    /\ Send
    /\ MsgHandled
    /\ UNCHANGED <<events, pc, want1337, status>>

\* leet_monitor_privmsg()
IsLeet == Handling /\ msg.what = "1337" /\ want1337

Congratulate ==
    /\ IsLeet
    /\ Send
    /\ want1337' = FALSE
    /\ MsgHandled
    /\ UNCHANGED <<events, pc, status>>

NotLeet ==
    /\ Handling
    /\ msg.what = "1337"
    /\ ~want1337
    /\ MsgHandled
    /\ UNCHANGED <<events, backlog, pc, want1337, status>>

\* handle_remind(): the event is added, and the timer perhaps armed, before
\* the confirmation is sent.
AddReminder ==
    /\ Handling
    /\ msg.what \in Reminder
    /\ \E t \in TimeRead : t <= msg.time
    /\ events' = AddTimeEvent(events, msg.time, msg.what)
    /\ status' = [status EXCEPT ![msg.what] = "pending"]
    /\ pc' = "reply"
    /\ MsgHandled
    /\ UNCHANGED <<backlog, want1337>>

Confirm ==
    /\ pc = "reply"
    /\ Send
    /\ pc' = "msgs"
    /\ UNCHANGED <<clockVars, events, kernelVars, batch, inbox, firstSignal,
                   want1337, status>>

\* "That's in the past", or time() failed.
IsRejected ==
    /\ Handling
    /\ msg.what \in Reminder
    /\ ClockFails \/ \E t \in TimeRead : msg.time < t

RejectReminder ==
    /\ IsRejected
    /\ Send
    /\ status' = [status EXCEPT ![msg.what] = "rejected"]
    /\ MsgHandled
    /\ UNCHANGED <<events, pc, want1337>>

ReplyFails ==
    /\ IsPing \/ IsLeet \/ IsRejected \/ pc = "reply"
    /\ SendFails

-------------------------------------------------------------------------------

Start ==
    \/ InitLeetMonitor
    \/ \E r \in Reminder, when \in 0..Horizon : RestoreReminder(r, when)
    \/ Restored
    \/ Connect

Timer ==
    \/ At1337
    \/ At1338
    \/ \E r \in Reminder : Remind(r)
    \/ TimerSendFails

Msgs ==
    \/ MsgsHandled \/ Ping \/ Congratulate \/ NotLeet
    \/ AddReminder \/ Confirm \/ RejectReminder \/ ReplyFails

Bot ==
    \/ Start
    \/ EpollWait \/ BatchHandled
    \/ ServerData \/ ServerGone
    \/ Timer
    \/ ReadSignal \/ SendQuit \/ QuitFails
    \/ Msgs

Kernel ==
    \/ Tick \/ SetBack \/ Expire
    \/ \E s \in Signals : Signal(s)

Server ==
    \/ \E m \in [what : Chat \cup Reminder, time : 0..Horizon] : ServerSends(m)
    \/ ServerCloses
    \/ ServerReads

Next == Bot \/ Kernel \/ Server

Spec == Init /\ [][Next]_vars

\* The bot is not kept off the CPU for ever, the clock goes on, and a timer
\* whose time has come expires.
Fairness == WF_vars(Bot) /\ WF_vars(Tick) /\ WF_vars(Expire)

\* The server reads what it is sent, as long as it keeps the connection.
ServerFairness == WF_vars(ServerReads)

LoopSpec == Spec /\ Fairness
FairSpec == LoopSpec /\ ServerFairness

-------------------------------------------------------------------------------
(* Properties *)

list == events.list
InBatch == "TIMER" \in batch

(***************************************************************************)
(* No lost wake-up.  As long as an event is pending the list is in order   *)
(* and the timer is set for its first event, or it has expired and         *)
(* epoll_wait() will report it (or just has).  With edge triggering and an *)
(* expiration count nobody reads, an expiration that is cleared or missed  *)
(* would never be seen again, and no event would ever be handled.          *)
(***************************************************************************)
TimerIsArmed ==
    Running /\ list # <<>> =>
        /\ InOrder(list)
        /\ events.deadline = Head(list).when
        /\ \/ events.timer = "set"
           \/ /\ events.timer = "expired"
              /\ timerReady \/ InBatch \/ pc \in Starting

(***************************************************************************)
(* A notification of the timer finds an event to handle, although events   *)
(* are added and the timer set between the expiration and the call:        *)
(* handle_time_event() dereferences start without looking.                 *)
(***************************************************************************)
TimerHasEvent == InBatch => list # <<>>

(***************************************************************************)
(* No event is handled before its time, though a reminder may be put       *)
(* before the event the timer expired for.                                 *)
(***************************************************************************)
NeverEarly == InBatch => Head(list).when <= now

(***************************************************************************)
(* "We currently assume that any notification will result in a             *)
(* non-blocking read": what was ready when epoll_wait() returned still is  *)
(* when its turn in the batch comes.                                       *)
(***************************************************************************)
ReadsDoNotBlock ==
    /\ "SERVER" \in batch => socket # <<>> \/ peerClosed
    /\ "SIGNAL" \in batch => signals # {}

(***************************************************************************)
(* A reminder that was accepted is in the list once until it is sent, and  *)
(* none is in the list that was not accepted or that was sent.             *)
(***************************************************************************)
PendingOnce ==
    \A r \in Reminder :
        LET places == {i \in DOMAIN list : list[i].handler = r}
        IN  IF status[r] = "pending"
            THEN \E i \in places : places = {i}
            ELSE places = {}

(***************************************************************************)
(* The 1337 monitor keeps itself going: from start-up on one at_1338() is  *)
(* pending, for 13:38, and the at_1337() of the same day unless it has     *)
(* been handled, which is when "1337" may be waited for.                   *)
(***************************************************************************)
LeetChain ==
    pc # "init" =>
        LET opens == {i \in DOMAIN list : list[i].handler = "at_1337"}
            closes == {i \in DOMAIN list : list[i].handler = "at_1338"}
        IN  \E c \in closes :
              /\ closes = {c}
              /\ list[c].when % DayLength = LeetStart + LeetLength
              /\ \/ opens = {}
                 \/ /\ ~want1337
                    /\ \E o \in opens :
                         /\ opens = {o}
                         /\ list[o].when + LeetLength = list[c].when

(***************************************************************************)
(* leet_monitor.h: "Congratulates whoever writes "1337" first during 13:37 *)
(* each day".  Nobody is congratulated before 13:37 of the day, and not    *)
(* after the at_1338() of that day, which is still to come.  Whether the   *)
(* message was written then does not count, but when it is handled.        *)
(***************************************************************************)
WantedFrom1337 ==
    want1337 =>
        \E i \in DOMAIN list :
            /\ list[i].handler = "at_1338"
            /\ list[i].when <= now + LeetLength

(***************************************************************************)
(* time_event.h: "Handles and removes the next chronological event."  The  *)
(* handler of at_1338() adds events before the removal; the outcome must   *)
(* be that of removing the handled event first.                            *)
(***************************************************************************)
RemovesWhatItHandled ==
    [][pc = "batch" /\ InBatch /\ batch' = batch \ {"TIMER"} =>
         LET rest == [events EXCEPT !.list = Tail(list)]
         IN  IF Head(list).handler = "at_1338"
             THEN \E t \in TimeRead : \E q \in ScheduleNext1337(rest, t) :
                    events'.list = q.list
             ELSE events'.list = rest.list]_vars

(***************************************************************************)
(* The list, the timer, epoll and the loop around them implement Agenda:   *)
(* no registered event is lost, handled twice, out of order or early.      *)
(***************************************************************************)
ToDo == INSTANCE Agenda WITH
            clock <- now,
            pending <- {list[i] : i \in DOMAIN list}

ImplementsAgenda == ToDo!AgendaSpec

(***************************************************************************)
(* A reminder that was accepted is sent, unless the bot ends first: the    *)
(* messages of the server, the other events and the signals do not keep    *)
(* the loop from its timer.                                                *)
(***************************************************************************)
EveryReminderIsSent ==
    \A r \in Reminder :
        status[r] = "pending" ~> status[r] = "reminded" \/ ~Running

(***************************************************************************)
(* bot.c: "If another signal arrives, close the connection ourselves."     *)
(***************************************************************************)
SecondSignalEnds == ~firstSignal /\ signals # {} ~> ~Running
===============================================================================
