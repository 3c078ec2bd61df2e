-------------------------------- MODULE Commands --------------------------------
(***************************************************************************)
(* The bot commands: handle_cmd() and the handlers of commands.c,          *)
(* handle_remind() of remind.c up to the reply, and parse_date() of        *)
(* date.c, on the message that IrcMsg has cut up.  Digits are tokens of    *)
(* their own.  A time is a struct tm: months from 0, years from 1900.      *)
(***************************************************************************)
EXTENDS IrcMsg, Integers

CONSTANTS
    Now,            \* what time() returns first, in parse_date()
    Later,          \* what it may return in handle_remind() instead
    SkippedHours    \* the hours that daylight saving time leaves out

\* What localtime_r() and parse_date() may put in a struct tm.
Tm == [year : Nat, mon : Int, mday : Nat, hour : Nat, min : Nat, sec : Nat]

\* get_msg() ends a message at its first '\r' or '\n'.
ASSUME CommandsAssumption ==
    /\ {Now, Later} \subseteq Tm
    /\ \A s \in Input : ~Contains(s, "nl")

VARIABLES
    step,           \* where the command is
    at,             \* the cur of handle_remind() and parse_date()
    tm,             \* the tm of parse_date(), NoTime before it is set
    reply           \* what the bot said, "none" if nothing

cmdVars == <<step, at, tm, reply>>

\* "idle" before handle_cmd(), then the labels of parse_date(), "remind" in
\* handle_remind() after it, and "end".
Steps == {"idle", "hour", "minute", "second", "day", "month", "year",
          "got_time", "remind", "end"}

Replies == {"none", "list", "compliment", "echo", "help", "noSuchCommand",
            "noTime", "malformed", "noSpace", "empty", "failed", "past",
            "confirmed"}

NoTime == [year |-> 0, mon |-> 0, mday |-> 0, hour |-> 0, min |-> 0, sec |-> 0]

CmdInit ==
    /\ Init
    /\ step = "idle"
    /\ at = 0
    /\ tm = NoTime
    /\ reply = "none"

Say(r) ==
    /\ reply' = r
    /\ step' = "end"

-------------------------------------------------------------------------------
(* handle_cmd() *)

CmdNames == {"commands", "compliment", "echo", "help", "remind"}

Called == step = "idle" /\ phase = "done" /\ cmdCall # NoCall
Calls(c) == Called /\ CStr(cmdCall.cmd) = <<c>>
NamesCmd(i) == CStr(i) \in {<<c>> : c \in CmdNames}

\* All but !remind.
Answer ==
    /\ \/ Called /\ ~NamesCmd(cmdCall.cmd) /\ Say("none")
       \/ Calls("commands") /\ Say("list")
       \/ Calls("compliment") /\ Say("compliment")
       \/ Calls("echo") /\ Say(IF cmdCall.arg = 0 THEN "none" ELSE "echo")
       \/ Calls("help") /\ Say(IF cmdCall.arg = 0 \/ NamesCmd(cmdCall.arg)
                               THEN "help" ELSE "noSuchCommand")
    /\ UNCHANGED <<at, tm>>

\* remind(): parse_date() begins with the time, and 0 seconds, if it gets it.
Remind ==
    /\ Calls("remind")
    /\ \/ cmdCall.arg = 0 /\ Say("noTime") /\ UNCHANGED <<at, tm>>
       \/ cmdCall.arg # 0 /\ Say("malformed") /\ UNCHANGED <<at, tm>>
       \/ /\ cmdCall.arg # 0
          /\ at' = cmdCall.arg
          /\ tm' = [Now EXCEPT !.sec = 0]
          /\ step' = "hour"
          /\ UNCHANGED reply

-------------------------------------------------------------------------------
(* parse_date() *)

Digits == <<"0", "1", "2", "3", "4", "5", "6", "7", "8", "9">>
IsDigit(c) == c \in Range(Digits)
Value(c) == CHOOSE n \in 0..9 : Digits[n + 1] = c

\* isspace(), as far as a message may hold what it accepts.
Blank == {"sp", "tab"}
SkipBlank(i) == CHOOSE j \in i..Len(buf) :
                    /\ buf[j] \notin Blank
                    /\ \A k \in i..(j - 1) : buf[k] \in Blank

\* Deliberately wrong variants of an operation, here and below, each followed
\* by the operation: with one in its place a property must fail.

\* Wrong: the white space is gone although no number follows it.
NumberEndsSkipping(i, s) ==
    IF ~IsDigit(buf[s]) THEN s ELSE IF IsDigit(buf[s + 1]) THEN s + 2 ELSE s + 1

\* Where parse_one_or_two_digits() leaves its cursor, which came to place i and
\* is at s after the white space.
NumberEnds(i, s) ==
    IF ~IsDigit(buf[s]) THEN i ELSE IF IsDigit(buf[s + 1]) THEN s + 2 ELSE s + 1

\* The value of one or two digits.
NumberOf(w) == IF Len(w) = 1 THEN Value(w[1])
               ELSE 10 * Value(w[1]) + Value(w[2])

\* parse_one_or_two_digits() at place i.
Number(i, skip) ==
    LET s == IF skip THEN SkipBlank(i) ELSE i
        end == NumberEnds(i, s)
    IN  [ok |-> IsDigit(buf[s]), end |-> end,
         val |-> IF IsDigit(buf[s]) THEN NumberOf(SubSeq(buf, s, end - 1)) ELSE 0]

\* return -1, to handle_remind().
Malformed == Say("malformed") /\ UNCHANGED <<at, tm>>

\* A field was read, up to place i.
Took(i, t, s) ==
    /\ at' = i
    /\ tm' = t
    /\ step' = s
    /\ UNCHANGED reply

\* Wrong: what follows the hour is skipped unseen.
HourUnchecked ==
    /\ step = "hour"
    /\ LET n == Number(at, TRUE)
       IN  \/ n.ok /\ Took(n.end + 1, [tm EXCEPT !.hour = n.val], "minute")
           \/ ~n.ok /\ Malformed

Hour ==
    /\ step = "hour"
    /\ LET n == Number(at, TRUE)
           good == n.ok /\ buf[n.end] = ":"
       IN  \/ good /\ Took(n.end + 1, [tm EXCEPT !.hour = n.val], "minute")
           \/ ~good /\ Malformed

Minute ==
    /\ step = "minute"
    /\ LET n == Number(at, FALSE)
           set == [tm EXCEPT !.min = n.val]
       IN  \/ ~n.ok /\ Malformed
           \/ n.ok /\ buf[n.end] = ":" /\ Took(n.end + 1, set, "second")
           \/ n.ok /\ buf[n.end] = "sp" /\ Took(n.end, set, "day")
           \/ n.ok /\ buf[n.end] \notin {":", "sp"}
                   /\ Took(n.end, set, "got_time")

Second ==
    /\ step = "second"
    /\ LET n == Number(at, FALSE)
       IN  \/ ~n.ok /\ Malformed
           \/ n.ok /\ Took(n.end, [tm EXCEPT !.sec = n.val],
                           IF buf[n.end] = "sp" THEN "day" ELSE "got_time")

Day ==
    /\ step = "day"
    /\ LET n == Number(at, TRUE)
           slash == buf[n.end] = "/"
       IN  \/ ~n.ok /\ Took(n.end, tm, "got_time")
           \/ n.ok /\ slash /\ Took(n.end + 1, [tm EXCEPT !.mday = n.val], "month")
           \/ n.ok /\ ~slash /\ Malformed

\* Wrong: months are counted from 1.
MonthFromOne ==
    /\ step = "month"
    /\ LET n == Number(at, FALSE)
       IN  \/ ~n.ok /\ Malformed
           \/ n.ok /\ Took(n.end, [tm EXCEPT !.mon = n.val],
                           IF buf[n.end] = "sp" THEN "year" ELSE "got_time")

Month ==
    /\ step = "month"
    /\ LET n == Number(at, FALSE)
       IN  \/ ~n.ok /\ Malformed
           \/ n.ok /\ Took(n.end, [tm EXCEPT !.mon = n.val - 1],
                           IF buf[n.end] = "sp" THEN "year" ELSE "got_time")

Year ==
    /\ step = "year"
    /\ LET n == Number(at, TRUE)
       IN  \/ ~n.ok /\ Took(n.end, tm, "got_time")
           \/ n.ok /\ n.val < 38
                   /\ Took(n.end, [tm EXCEPT !.year = n.val + 100], "got_time")
           \/ n.ok /\ n.val >= 38 /\ Malformed

\* mktime() leaves the fields of a time as they are if there is such a time.
IsLeap(y) == y % 4 = 0 /\ (y % 100 # 0 \/ y % 400 = 0)
DaysIn(t) ==
    CASE t.mon \in {3, 5, 8, 10} -> 30
      [] t.mon = 1 -> IF IsLeap(1900 + t.year) THEN 29 ELSE 28
      [] OTHER -> 31
Exists(t) ==
    /\ t.hour < 24 /\ t.min < 60 /\ t.sec < 60
    /\ t.mon \in 0..11
    /\ t.mday \in 1..DaysIn(t)
    /\ [mon |-> t.mon, mday |-> t.mday, hour |-> t.hour] \notin SkippedHours

GotTime ==
    /\ step = "got_time"
    /\ \/ Exists(tm) /\ Took(at, tm, "remind")
       \/ ~Exists(tm) /\ Malformed

-------------------------------------------------------------------------------
(* handle_remind(), with a time *)

Fields(t) == <<t.year, t.mon, t.mday, t.hour, t.min, t.sec>>
Earlier(t, u) ==
    \E i \in 1..6 : /\ Fields(t)[i] < Fields(u)[i]
                    /\ \A j \in 1..(i - 1) : Fields(t)[j] = Fields(u)[j]

Refuse(r) == Say(r) /\ UNCHANGED <<at, tm>>

NoText ==
    /\ step = "remind"
    /\ \/ buf[at] # "sp" /\ Refuse("noSpace")
       \/ buf[at] = "sp" /\ buf[at + 1] = "nul" /\ Refuse("empty")

TimeFails ==
    /\ step = "remind"
    /\ buf[at] = "sp"
    /\ buf[at + 1] # "nul"
    /\ Refuse("failed")

Past ==
    /\ step = "remind"
    /\ buf[at] = "sp"
    /\ buf[at + 1] # "nul"
    /\ \E now \in {Now, Later} : Earlier(tm, now)
    /\ Refuse("past")

\* Wrong: there need not be a text.
AcceptEmpty ==
    /\ step = "remind"
    /\ buf[at] = "sp"
    /\ \E now \in {Now, Later} : ~Earlier(tm, now)
    /\ at' = at + 1
    /\ Say("confirmed")
    /\ UNCHANGED tm

\* The reminder is saved, added and confirmed.
Accept ==
    /\ step = "remind"
    /\ buf[at] = "sp"
    /\ buf[at + 1] # "nul"
    /\ \E now \in {Now, Later} : ~Earlier(tm, now)
    /\ at' = at + 1
    /\ Say("confirmed")
    /\ UNCHANGED tm

\* The line that save_reminder() writes, its timestamp as one token, and how
\* restore_remind_state() reads it; an empty field would make it stop there.
SavedLine == <<"when", "sp">> \o CStr(cmdCall.rep) \o <<"sp">> \o CStr(at)
             \o <<"nl">>
ReadLine(l) ==
    LET rest == After(l, "sp")
        fields == <<Before(rest, "sp"), Before(After(rest, "sp"), "nl")>>
    IN  IF <<>> \in Range(fields) THEN <<>> ELSE fields

Command ==
    \/ Answer \/ Remind
    \/ Hour \/ Minute \/ Second \/ Day \/ Month \/ Year \/ GotTime
    \/ NoText \/ TimeFails \/ Past \/ Accept

CmdNext ==
    \/ Next /\ UNCHANGED cmdVars
    \/ Command /\ UNCHANGED vars

CmdSpec == CmdInit /\ [][CmdNext]_<<vars, cmdVars>>

-------------------------------------------------------------------------------
(* What a !remind means, read off its usage:                               *)
(*     hh:mm[:ss] [dd/MM [yy]] <text of reminder>                          *)

\* The first word of a text without leading white space, the character that
\* ends it, and what comes after that.
Trim(s) ==
    LET n == CHOOSE i \in 0..Len(s) :
                /\ \A k \in 1..i : s[k] \in Blank
                /\ i = Len(s) \/ s[i + 1] \notin Blank
    IN  SubSeq(s, n + 1, Len(s))
Word(s) ==
    LET t == Trim(s)
        n == CHOOSE i \in 0..Len(t) :
                /\ \A k \in 1..i : t[k] \notin Blank
                /\ i = Len(t) \/ t[i + 1] \in Blank
    IN  [word |-> SubSeq(t, 1, n),
         gap |-> IF n = Len(t) THEN "nul" ELSE t[n + 1],
         rest |-> SubSeq(t, n + 2, Len(t))]

IsNumber(w) == Len(w) \in 1..2 /\ \A i \in DOMAIN w : IsDigit(w[i])

MinSec(w) == After(w, ":")
HasSec(w) == Places(MinSec(w), ":") # {}
IsTime(w) ==
    /\ IsNumber(Before(w, ":"))
    /\ IsNumber(Before(MinSec(w), ":"))
    /\ HasSec(w) => IsNumber(After(MinSec(w), ":"))
WithTime(t, w) ==
    [t EXCEPT !.hour = NumberOf(Before(w, ":")),
              !.min = NumberOf(Before(MinSec(w), ":")),
              !.sec = IF HasSec(w) THEN NumberOf(After(MinSec(w), ":")) ELSE 0]

IsDate(w) == IsNumber(Before(w, "/")) /\ IsNumber(After(w, "/"))
WithDate(t, w) == [t EXCEPT !.mday = NumberOf(Before(w, "/")),
                            !.mon = NumberOf(After(w, "/")) - 1]

WithYear(t, w) == [t EXCEPT !.year = 100 + NumberOf(w)]

\* The ways to read s, with white space that begins with one of gaps between
\* time, date and year, and a space before the text.
Readings(s, gaps) ==
    LET one == Word(s)
        two == Word(one.rest)
        three == Word(two.rest)
        time == WithTime(Now, one.word)
        date == WithDate(time, two.word)
        hasDate == one.gap \in gaps /\ IsDate(two.word)
        hasYear == hasDate /\ two.gap \in gaps /\ IsNumber(three.word)
        reads(w, t) == IF w.gap = "sp" /\ w.rest # <<>>
                       THEN {[time |-> t, text |-> w.rest]} ELSE {}
    IN  IF ~IsTime(one.word) THEN {}
        ELSE reads(one, time)
             \cup (IF hasDate THEN reads(two, date) ELSE {})
             \cup IF hasYear THEN reads(three, WithYear(date, three.word))
                  ELSE {}

-------------------------------------------------------------------------------
(* Properties *)

CmdVarsOK ==
    /\ step \in Steps
    /\ at \in Place
    /\ tm \in Tm
    /\ reply \in Replies

\* The parsers of messages and of commands both stay within the message.
CmdTypeOK == TypeOK /\ CmdVarsOK

ArgOf == CStr(cmdCall.arg)

(***************************************************************************)
(* A reminder is only accepted for a time and with a text that its words   *)
(* have under the usage of !help, and for a time that exists and is not    *)
(* over.  What the usage leaves out is taken from the clock.               *)
(***************************************************************************)
AcceptedAsUsage ==
    reply = "confirmed" =>
        /\ [time |-> tm, text |-> CStr(at)] \in Readings(ArgOf, {"sp"})
        /\ Exists(tm)
        /\ ~Earlier(tm, Now)

\* A reading whose time is to come, until and with the last year that
\* parse_date() takes.
ToCome(r) ==
    /\ Exists(r.time)
    /\ ~Earlier(r.time, Later)
    /\ r.time.year < 138

\* The bot had the time.
HadTime == tm # NoTime /\ reply # "failed"

BeginsWithDigit(s) == Trim(s) # <<>> /\ IsDigit(Trim(s)[1])

(***************************************************************************)
(* Each request of that form, for a time to come, is accepted, if its text *)
(* does not begin with a digit.  To come is later by the fields of the     *)
(* time, which says nothing of an hour that daylight saving time repeats:  *)
(* mktime() may take it for the first of the two, which may be over.       *)
(***************************************************************************)
PlainRequestsAreAccepted ==
    step = "end" /\ HadTime =>
        \A r \in Readings(ArgOf, {"sp"}) :
            ToCome(r) /\ ~BeginsWithDigit(r.text) => reply = "confirmed"

(***************************************************************************)
(* What handle_remind() saves is what restore_remind_state() reads: the    *)
(* target holds no space, as the message was cut up, and nothing is empty, *)
(* unless the server sends an empty nickname.                              *)
(***************************************************************************)
SavedIsReadable ==
    reply = "confirmed" /\ (IsChannel(to) \/ NickOf(input) # <<>>) =>
        ReadLine(SavedLine) =
            <<IF IsChannel(to) THEN CStr(to) ELSE NickOf(input), CStr(at)>>

(***************************************************************************)
(* The usage of !help, and date.h: "any (except zero) amount of whitespace *)
(* can substitute for ' '": with either reading a request for a time to    *)
(* come is accepted.                                                       *)
(***************************************************************************)
UsageIsAccepted ==
    step = "end" /\ HadTime =>
        \A r \in Readings(ArgOf, Blank) : ToCome(r) => reply = "confirmed"
===============================================================================
