----------------------------- MODULE CommandsProofs -----------------------------
(***************************************************************************)
(* Whatever is asked of the bot: parse_date() and handle_remind() stay     *)
(* within the message, what they accept and refuse is what the usage says, *)
(* and a reminder that was saved can be read back.                         *)
(***************************************************************************)
EXTENDS Commands, IrcMsgProofs

\* The steps of the commands leave the parser alone.
LEMMA CommandsRefineMessages == CmdSpec => Spec
<1>1. CmdInit => Init
  BY DEF CmdInit
<1>2. [CmdNext]_<<vars, cmdVars>> => [Next]_vars
  BY DEF CmdNext, vars
<1> QED
  BY <1>1, <1>2, PTL DEF CmdSpec, Spec

-------------------------------------------------------------------------------
(* Numbers *)

LEMMA DigitFacts ==
    /\ Range(Digits) = {"0", "1", "2", "3", "4", "5", "6", "7", "8", "9"}
    /\ \A c \in Range(Digits) : Value(c) \in 0..9
<1>1. DOMAIN Digits = 1..10
  BY DEF Digits
<1>2. Range(Digits) = {"0", "1", "2", "3", "4", "5", "6", "7", "8", "9"}
  <2>1. /\ Digits[1] = "0" /\ Digits[2] = "1" /\ Digits[3] = "2"
        /\ Digits[4] = "3" /\ Digits[5] = "4" /\ Digits[6] = "5"
        /\ Digits[7] = "6" /\ Digits[8] = "7" /\ Digits[9] = "8"
        /\ Digits[10] = "9"
    BY DEF Digits
  <2>2. Range(Digits) = {Digits[i] : i \in 1..10}
    BY <1>1 DEF Range
  <2>3. 1..10 = {1, 2, 3, 4, 5, 6, 7, 8, 9, 10}
    OBVIOUS
  <2> QED
    BY <2>1, <2>2, <2>3
<1>3. ASSUME NEW c \in Range(Digits) PROVE Value(c) \in 0..9
  <2>1. PICK i \in 1..10 : Digits[i] = c
    BY <1>1 DEF Range
  <2>2. i - 1 \in 0..9 /\ Digits[(i - 1) + 1] = c
    BY <2>1
  <2> QED
    BY <2>2 DEF Value
<1> QED
  BY <1>2, <1>3

\* The end of the message is neither a digit nor white space.
LEMMA NulFacts == ~IsDigit("nul") /\ "nul" \notin Blank
BY DigitFacts DEF IsDigit, Blank

LEMMA Skipping ==
    ASSUME Terminated, NEW i \in 1..Len(buf)
    PROVE  SkipBlank(i) \in i..Len(buf)
<1>1. Len(buf) \in Nat \ {0} /\ buf[Len(buf)] = "nul"
  BY DEF Terminated
<1> DEFINE P == {j \in i..Len(buf) : buf[j] \notin Blank}
<1>2. Len(buf) \in i..Len(buf) /\ Len(buf) \in P
  BY <1>1, NulFacts
<1> HIDE DEF P
<1>3. PICK j \in i..Len(buf) : j \in P /\ \A k \in i..(j - 1) : k \notin P
  <2>1. i \in Nat /\ Len(buf) \in Nat
    BY <1>1
  <2> QED
    BY <1>2, <2>1, FirstOne
<1> USE DEF P
<1>4. /\ j \in i..Len(buf) /\ buf[j] \notin Blank
      /\ \A k \in i..(j - 1) : buf[k] \in Blank
  <2>1. \A k \in i..(j - 1) : k \in i..Len(buf)
    BY <1>1
  <2> QED
    BY <1>3, <2>1
<1> QED
  BY <1>4 DEF SkipBlank

LEMMA OneOrTwo ==
    ASSUME NEW w, \/ Len(w) = 1 /\ IsDigit(w[1])
                  \/ Len(w) = 2 /\ IsDigit(w[1]) /\ IsDigit(w[2])
    PROVE  NumberOf(w) \in Nat
<1>1. \A c : IsDigit(c) => Value(c) \in 0..9
  BY DigitFacts DEF IsDigit
<1>2. CASE Len(w) = 1 /\ IsDigit(w[1])
  BY <1>1, <1>2 DEF NumberOf
<1>3. CASE Len(w) = 2 /\ IsDigit(w[1]) /\ IsDigit(w[2])
  <2>1. NumberOf(w) = 10 * Value(w[1]) + Value(w[2])
    BY <1>3 DEF NumberOf
  <2>2. Value(w[1]) \in 0..9 /\ Value(w[2]) \in 0..9
    BY <1>1, <1>3
  <2> QED
    BY <2>1, <2>2
<1> QED
  BY <1>2, <1>3

\* parse_one_or_two_digits() stays within the string, and so does a step past
\* what it stopped at, unless that is the end.
LEMMA NumberFacts ==
    ASSUME Terminated, NEW i \in 1..Len(buf), NEW skip \in BOOLEAN
    PROVE  /\ Number(i, skip).end \in 1..Len(buf)
           /\ Number(i, skip).val \in Nat
           /\ buf[Number(i, skip).end] # "nul" =>
                  Number(i, skip).end + 1 \in 1..Len(buf)
<1> DEFINE s == IF skip THEN SkipBlank(i) ELSE i
           end == NumberEnds(i, s)
<1>1. Len(buf) \in Nat \ {0} /\ buf[Len(buf)] = "nul"
  BY DEF Terminated
<1>2. s \in 1..Len(buf)
  BY <1>1, Skipping
<1> HIDE DEF s
<1>3. end \in 1..Len(buf)
  BY <1>1, <1>2, NulFacts DEF NumberEnds
<1>4. ASSUME IsDigit(buf[s]) PROVE NumberOf(SubSeq(buf, s, end - 1)) \in Nat
  <2>1. CASE ~IsDigit(buf[s + 1])
    <3>1. end = s + 1
      BY <1>4, <2>1 DEF NumberEnds
    <3>2. /\ Len(SubSeq(buf, s, end - 1)) = 1
          /\ SubSeq(buf, s, end - 1)[1] = buf[s]
      BY <1>1, <1>2, <3>1, SubSeqProperties DEF Terminated
    <3> QED
      BY <1>4, <3>2, OneOrTwo
  <2>2. CASE IsDigit(buf[s + 1])
    <3>1. end = s + 2
      BY <1>4, <2>2 DEF NumberEnds
    <3>2. s + 1 \in 1..Len(buf)
      BY <1>1, <1>2, <1>4, NulFacts
    <3>3. /\ Len(SubSeq(buf, s, end - 1)) = 2
          /\ SubSeq(buf, s, end - 1)[1] = buf[s]
          /\ SubSeq(buf, s, end - 1)[2] = buf[s + 1]
      BY <1>1, <1>2, <3>1, <3>2, SubSeqProperties DEF Terminated
    <3> QED
      BY <1>4, <2>2, <3>3, OneOrTwo
  <2> QED
    BY <2>1, <2>2
<1>5. /\ Number(i, skip).end = end
      /\ Number(i, skip).val = IF IsDigit(buf[s]) THEN NumberOf(SubSeq(buf, s, end - 1))
                               ELSE 0
  BY DEF Number, s
<1> HIDE DEF end
<1>6. buf[end] # "nul" => end + 1 \in 1..Len(buf)
  BY <1>1, <1>3
<1> QED
  BY <1>3, <1>4, <1>5, <1>6

-------------------------------------------------------------------------------
(* The commands *)

\* A command that reads its argument reads it within the message.
CmdInv ==
    /\ CmdVarsOK
    /\ step \notin {"idle", "end"} => at # 0

LEMMA CmdInvInit == CmdInit => CmdInv
<1> SUFFICES ASSUME CmdInit PROVE CmdInv
  OBVIOUS
<1>1. IInv
  BY InvInit DEF CmdInit
<1>2. 0 \in Place
  BY <1>1, InvFacts DEF Place
<1> QED
  BY <1>2 DEF CmdInit, CmdInv, CmdVarsOK, Steps, Replies, NoTime, Tm

\* The message stays as long as it is.
LEMMA PlaceStays == IInv /\ IInv' /\ [Next]_vars => Place' = Place
<1>1. [Next]_vars => UNCHANGED input
  BY DEF Next, Split, NoPrefix, BadPrefix, Prefix, NoComponents, Components, EmptyCmd,
     Cmd, NoMoreParams, BadParam, FinalParam, Param, Ignore, Misfit, Handle, NoBotCmd,
     BotCmd, Reject, vars
<1> QED
  BY <1>1 DEF IInv, CutUp, Place

\* A command that is over, or refused.
LEMMA Replied ==
    ASSUME CmdInv, IInv, UNCHANGED vars, NEW r \in Replies, Say(r), UNCHANGED <<at, tm>>
    PROVE  CmdInv'
BY DEF CmdInv, CmdVarsOK, Say, Steps, Place, vars

\* A field that was read.
LEMMA Takes ==
    ASSUME CmdInv, UNCHANGED vars, NEW i \in 1..Len(buf), NEW t \in Tm,
           NEW s \in Steps, Len(buf) \in Nat, Took(i, t, s)
    PROVE  CmdInv'
BY DEF CmdInv, CmdVarsOK, Took, Place, vars

LEMMA CmdInvNext == IInv /\ IInv' /\ CmdInv /\ [CmdNext]_<<vars, cmdVars>> => CmdInv'
<1> SUFFICES ASSUME IInv, IInv', CmdInv, [CmdNext]_<<vars, cmdVars>> PROVE CmdInv'
  OBVIOUS
<1>1. CASE UNCHANGED cmdVars /\ [Next]_vars
  BY <1>1, PlaceStays DEF CmdInv, CmdVarsOK, cmdVars
<1>2. CASE Command /\ UNCHANGED vars
  <2> USE <1>2
  <2>1. Terminated /\ Len(buf) \in Nat \ {0} /\ buf[Len(buf)] = "nul"
    BY InvFacts
  <2>2. CASE Answer
    BY <2>2, Replied DEF Answer, Replies
  <2>3. CASE Remind
    <3>1. CASE Say("noTime") /\ UNCHANGED <<at, tm>>
      BY <3>1, Replied DEF Replies
    <3>2. CASE Say("malformed") /\ UNCHANGED <<at, tm>>
      BY <3>2, Replied DEF Replies
    <3>3. CASE /\ cmdCall.arg # 0
               /\ Took(cmdCall.arg, [Now EXCEPT !.sec = 0], "hour")
      <4>1. cmdCall.arg \in 1..Len(buf)
        BY <2>1, <3>3 DEF IInv, Place
      <4>2. [Now EXCEPT !.sec = 0] \in Tm
        BY CommandsAssumption DEF Tm
      <4> QED
        BY <2>1, <3>3, <4>1, <4>2, Takes DEF Steps
    <3> QED
      BY <2>3, <3>1, <3>2, <3>3 DEF Remind, Took
  <2>4. CASE Hour \/ Minute \/ Second \/ Day \/ Month \/ Year \/ GotTime
    <3>1. at \in 1..Len(buf) /\ tm \in Tm
      <4>1. step \notin {"idle", "end"}
        BY <2>4 DEF Hour, Minute, Second, Day, Month, Year, GotTime
      <4>2. at \in Place /\ at # 0 /\ tm \in Tm
        BY <4>1 DEF CmdInv, CmdVarsOK
      <4> QED
        BY <2>1, <4>2 DEF Place
    <3>2. CASE Malformed
      BY <3>2, Replied DEF Malformed, Replies
    <3>3. CASE \E i \in 1..Len(buf), t \in Tm, s \in Steps : Took(i, t, s)
      BY <2>1, <3>3, Takes
    <3>4. ASSUME NEW skip \in BOOLEAN
          PROVE  LET n == Number(at, skip)
                 IN  /\ n.end \in 1..Len(buf) /\ n.val \in Nat
                     /\ buf[n.end] # "nul" => n.end + 1 \in 1..Len(buf)
      BY <2>1, <3>1, NumberFacts
    <3>5. ASSUME NEW v \in Nat
          PROVE  /\ [tm EXCEPT !.hour = v] \in Tm
                 /\ [tm EXCEPT !.min = v] \in Tm
                 /\ [tm EXCEPT !.sec = v] \in Tm
                 /\ [tm EXCEPT !.mday = v] \in Tm
                 /\ [tm EXCEPT !.mon = v - 1] \in Tm
                 /\ [tm EXCEPT !.year = v + 100] \in Tm
      <4>1. v - 1 \in Int /\ v + 100 \in Nat
        OBVIOUS
      <4>2. \A i \in Int : [tm EXCEPT !.mon = i] \in Tm
        BY <3>1 DEF Tm
      <4>3. \A i \in Nat : [tm EXCEPT !.year = i] \in Tm
        BY <3>1 DEF Tm
      <4>4. [tm EXCEPT !.hour = v] \in Tm
        BY <3>1 DEF Tm
      <4>5. [tm EXCEPT !.min = v] \in Tm
        BY <3>1 DEF Tm
      <4>6. [tm EXCEPT !.sec = v] \in Tm
        BY <3>1 DEF Tm
      <4>7. [tm EXCEPT !.mday = v] \in Tm
        BY <3>1 DEF Tm
      <4> QED
        BY <4>1, <4>2, <4>3, <4>4, <4>5, <4>6, <4>7
    <3>6. CASE Hour
      <4> DEFINE n == Number(at, TRUE)
      <4>1. \/ Malformed
            \/ /\ buf[n.end] = ":"
               /\ Took(n.end + 1, [tm EXCEPT !.hour = n.val], "minute")
        BY <3>6 DEF Hour
      <4>2. /\ buf[n.end] # "nul" => n.end + 1 \in 1..Len(buf)
            /\ [tm EXCEPT !.hour = n.val] \in Tm
        BY <3>4, <3>5
      <4> HIDE DEF n
      <4> QED
        BY <3>2, <3>3, <4>1, <4>2 DEF Steps
    <3>7. CASE Minute
      <4> DEFINE n == Number(at, FALSE)
                 t == [tm EXCEPT !.min = n.val]
      <4>1. \/ Malformed
            \/ buf[n.end] = ":" /\ Took(n.end + 1, t, "second")
            \/ Took(n.end, t, "day") \/ Took(n.end, t, "got_time")
        BY <3>7 DEF Minute
      <4>2. /\ n.end \in 1..Len(buf) /\ t \in Tm
            /\ buf[n.end] # "nul" => n.end + 1 \in 1..Len(buf)
        BY <3>4, <3>5
      <4> HIDE DEF n, t
      <4> QED
        BY <3>2, <3>3, <4>1, <4>2 DEF Steps
    <3>8. CASE Second
      <4> DEFINE n == Number(at, FALSE)
                 t == [tm EXCEPT !.sec = n.val]
      <4>1. Malformed \/ Took(n.end, t, "day") \/ Took(n.end, t, "got_time")
        BY <3>8 DEF Second
      <4>2. n.end \in 1..Len(buf) /\ t \in Tm
        BY <3>4, <3>5
      <4> HIDE DEF n, t
      <4> QED
        BY <3>2, <3>3, <4>1, <4>2 DEF Steps
    <3>9. CASE Day
      <4> DEFINE n == Number(at, TRUE)
                 t == [tm EXCEPT !.mday = n.val]
      <4>1. \/ Malformed \/ Took(n.end, tm, "got_time")
            \/ buf[n.end] = "/" /\ Took(n.end + 1, t, "month")
        BY <3>9 DEF Day
      <4>2. /\ n.end \in 1..Len(buf) /\ t \in Tm
            /\ buf[n.end] # "nul" => n.end + 1 \in 1..Len(buf)
        BY <3>4, <3>5
      <4> HIDE DEF n, t
      <4> QED
        BY <3>1, <3>2, <3>3, <4>1, <4>2 DEF Steps
    <3>10. CASE Month
      <4> DEFINE n == Number(at, FALSE)
                 t == [tm EXCEPT !.mon = n.val - 1]
      <4>1. Malformed \/ Took(n.end, t, "year") \/ Took(n.end, t, "got_time")
        BY <3>10 DEF Month
      <4>2. n.end \in 1..Len(buf) /\ t \in Tm
        BY <3>4, <3>5
      <4> HIDE DEF n, t
      <4> QED
        BY <3>2, <3>3, <4>1, <4>2 DEF Steps
    <3>11. CASE Year
      <4> DEFINE n == Number(at, TRUE)
                 t == [tm EXCEPT !.year = n.val + 100]
      <4>1. Malformed \/ Took(n.end, tm, "got_time") \/ Took(n.end, t, "got_time")
        BY <3>11 DEF Year
      <4>2. n.end \in 1..Len(buf) /\ t \in Tm
        BY <3>4, <3>5
      <4> HIDE DEF n, t
      <4> QED
        BY <3>1, <3>2, <3>3, <4>1, <4>2 DEF Steps
    <3>12. CASE GotTime
      BY <3>1, <3>2, <3>3, <3>12 DEF GotTime, Steps
    <3> QED
      BY <2>4, <3>6, <3>7, <3>8, <3>9, <3>10, <3>11, <3>12
  <2>5. CASE NoText \/ TimeFails \/ Past
    BY <2>5, Replied DEF NoText, TimeFails, Past, Refuse, Replies
  <2>6. CASE Accept
    <3>1. at \in Place /\ buf[at] = "sp" /\ at # 0
      BY <2>6 DEF Accept, CmdInv, CmdVarsOK
    <3>2. at + 1 \in Place
      BY <2>1, <3>1 DEF Place
    <3> QED
      BY <2>6, <3>2 DEF Accept, Say, CmdInv, CmdVarsOK, Steps, Replies, Place, vars
  <2> QED
    BY <1>2, <2>2, <2>3, <2>4, <2>5, <2>6 DEF Command
<1> QED
  BY <1>1, <1>2 DEF CmdNext, vars, cmdVars

LEMMA CommandInv == CmdSpec => [](IInv /\ CmdInv)
<1>1. CmdSpec => []IInv
  BY CommandsRefineMessages, MessageInv, PTL
<1> QED
  BY <1>1, CmdInvInit, CmdInvNext, PTL DEF CmdSpec

\* However a !remind is written, parse_date() and handle_remind() stay within
\* it, and the fields of the time they read are numbers; and so does the parser
\* of messages, as the commands refine it.
THEOREM CommandsTypeCorrect == CmdSpec => []CmdTypeOK
<1>1. CmdInv /\ TypeOK => CmdTypeOK
  BY DEF CmdInv, CmdTypeOK
<1>2. CmdSpec => []TypeOK
  BY CommandsRefineMessages, TypeCorrect, PTL
<1> QED
  BY <1>1, <1>2, CommandInv, PTL

-------------------------------------------------------------------------------
(* The line of a reminder                                                  *)

LineOf(r, t) == <<"when", "sp">> \o r \o <<"sp">> \o t \o <<"nl">>

LEMMA Joined ==
    ASSUME NEW s \in Seq(Token), NEW t \in Seq(Token)
    PROVE  /\ s \o t \in Seq(Token) /\ Len(s \o t) = Len(s) + Len(t)
           /\ \A k \in 1..Len(s) : (s \o t)[k] = s[k]
           /\ \A k \in 1..Len(t) : (s \o t)[Len(s) + k] = t[k]
<1> DEFINE u == s \o t
<1>1. /\ u \in Seq(Token) /\ Len(u) = Len(s) + Len(t)
      /\ \A k \in 1..(Len(s) + Len(t)) :
            u[k] = IF k <= Len(s) THEN s[k] ELSE t[k - Len(s)]
  BY ConcatProperties
<1>2. Len(s) \in Nat /\ Len(t) \in Nat
  OBVIOUS
<1> HIDE DEF u
<1> DEFINE m == Len(s)
           n == Len(t)
<1>3. m \in Nat /\ n \in Nat /\ \A k \in 1..(m + n) : u[k] = IF k <= m THEN s[k] ELSE t[k - m]
  BY <1>1, <1>2
<1> HIDE DEF m, n
<1>4. \A k \in 1..m : u[k] = s[k]
  BY <1>3
<1>5. ASSUME NEW k \in 1..n PROVE u[m + k] = t[k]
  <2>1. m + k \in 1..(m + n) /\ ~(m + k <= m) /\ (m + k) - m = k
    BY <1>3
  <2> QED
    BY <1>3, <2>1
<1> QED
  BY <1>1, <1>4, <1>5 DEF u, m, n

IsLine(l, r, t) ==
    LET i == Len(r) + 3
        n == (i + Len(t)) + 1
    IN  /\ l \in Seq(Token) /\ Len(l) = n /\ l[1] = "when" /\ l[2] = "sp"
        /\ l[i] = "sp" /\ l[n] = "nl"
        /\ \A k \in 1..Len(r) : l[2 + k] = r[k]
        /\ \A k \in 1..Len(t) : l[i + k] = t[k]

LEMMA LineFacts ==
    ASSUME NEW r \in Seq(Token), NEW t \in Seq(Token)
    PROVE  IsLine(LineOf(r, t), r, t)
<1> DEFINE w == <<"when", "sp">>
           p == <<"sp">>
           e == <<"nl">>
           a == w \o r
           b == a \o p
           c == b \o t
           l == c \o e
<1>1. /\ w \in Seq(Token) /\ Len(w) = 2 /\ w[1] = "when" /\ w[2] = "sp"
      /\ p \in Seq(Token) /\ Len(p) = 1 /\ p[1] = "sp"
      /\ e \in Seq(Token) /\ Len(e) = 1 /\ e[1] = "nl"
  BY DEF Token
<1> DEFINE x == Len(r)
           y == Len(t)
<1>2. x \in Nat /\ y \in Nat
  OBVIOUS
<1> HIDE DEF w, p, e
<1>3. /\ a \in Seq(Token) /\ Len(a) = 2 + x
      /\ \A k \in 1..2 : a[k] = w[k]
      /\ \A k \in 1..x : a[2 + k] = r[k]
  <2>1. /\ a \in Seq(Token) /\ Len(a) = Len(w) + Len(r)
        /\ \A k \in 1..Len(w) : a[k] = w[k]
        /\ \A k \in 1..Len(r) : a[Len(w) + k] = r[k]
    BY <1>1, Joined
  <2> QED
    BY <1>1, <2>1
<1> HIDE DEF a
<1>4. /\ b \in Seq(Token) /\ Len(b) = (2 + x) + 1
      /\ \A k \in 1..(2 + x) : b[k] = a[k]
      /\ \A k \in 1..1 : b[(2 + x) + k] = p[k]
  <2>1. /\ b \in Seq(Token) /\ Len(b) = Len(a) + Len(p)
        /\ \A k \in 1..Len(a) : b[k] = a[k]
        /\ \A k \in 1..Len(p) : b[Len(a) + k] = p[k]
    BY <1>1, <1>3, Joined
  <2> QED
    BY <1>1, <1>3, <2>1
<1> HIDE DEF b
<1>5. /\ c \in Seq(Token) /\ Len(c) = ((2 + x) + 1) + y
      /\ \A k \in 1..((2 + x) + 1) : c[k] = b[k]
      /\ \A k \in 1..y : c[((2 + x) + 1) + k] = t[k]
  <2>1. /\ c \in Seq(Token) /\ Len(c) = Len(b) + Len(t)
        /\ \A k \in 1..Len(b) : c[k] = b[k]
        /\ \A k \in 1..Len(t) : c[Len(b) + k] = t[k]
    BY <1>4, Joined
  <2> QED
    BY <1>4, <2>1
<1> HIDE DEF c
<1>6. /\ l \in Seq(Token) /\ Len(l) = Len(c) + 1
      /\ \A k \in 1..Len(c) : l[k] = c[k]
      /\ \A k \in 1..1 : l[Len(c) + k] = e[k]
  <2>1. /\ l \in Seq(Token) /\ Len(l) = Len(c) + Len(e)
        /\ \A k \in 1..Len(c) : l[k] = c[k]
        /\ \A k \in 1..Len(e) : l[Len(c) + k] = e[k]
    BY <1>1, <1>5, Joined
  <2> QED
    BY <1>1, <2>1
<1> HIDE DEF l, x, y
<1> DEFINE i == x + 3
           n == (i + y) + 1
<1>7. i \in Nat /\ n \in Nat /\ i = (2 + x) + 1 /\ Len(c) = i + y /\ Len(l) = n /\ i + y \in Nat
  BY <1>2, <1>5, <1>6
<1>8. l[n] = "nl"
  <2>1. 1 \in 1..1 /\ n = Len(c) + 1
    BY <1>7
  <2> QED
    BY <1>1, <1>6, <2>1
<1>9. l[i] = "sp"
  <2>1. i \in 1..Len(c) /\ i \in 1..((2 + x) + 1) /\ 1 \in 1..1 /\ i = (2 + x) + 1
    BY <1>2, <1>7
  <2>2. l[i] = c[i] /\ c[i] = b[i] /\ b[i] = p[1]
    BY <1>4, <1>5, <1>6, <2>1
  <2> QED
    BY <1>1, <2>2
<1>10. ASSUME NEW k \in 1..(2 + x) PROVE l[k] = a[k]
  <2>1. k \in 1..Len(c) /\ k \in 1..((2 + x) + 1)
    BY <1>2, <1>7
  <2> QED
    BY <1>4, <1>5, <1>6, <2>1
<1>11. l[1] = "when" /\ l[2] = "sp"
  <2>1. 1 \in 1..(2 + x) /\ 2 \in 1..(2 + x) /\ 1 \in 1..2 /\ 2 \in 1..2
    BY <1>2
  <2> QED
    BY <1>1, <1>3, <1>10, <2>1
<1>12. ASSUME NEW k \in 1..x PROVE l[2 + k] = r[k]
  <2>1. 2 + k \in 1..(2 + x)
    BY <1>2
  <2> QED
    BY <1>3, <1>10, <2>1
<1>13. ASSUME NEW k \in 1..y PROVE l[i + k] = t[k]
  <2>1. i + k \in 1..Len(c)
    BY <1>2, <1>7
  <2> QED
    BY <1>5, <1>6, <1>7, <2>1
<1>14. l = LineOf(r, t)
  BY DEF l, c, b, a, w, p, e, LineOf
<1> HIDE DEF i, n
<1>15. /\ l \in Seq(Token) /\ Len(l) = n /\ l[1] = "when" /\ l[2] = "sp"
       /\ l[i] = "sp" /\ l[n] = "nl"
       /\ \A k \in 1..x : l[2 + k] = r[k]
       /\ \A k \in 1..y : l[i + k] = t[k]
  BY <1>6, <1>7, <1>8, <1>9, <1>11, <1>12, <1>13
<1> QED
  BY <1>14, <1>15 DEF i, n, x, y, IsLine

\* A line holds a target without a space, and a text without a line end.
LEMMA LineIsRead ==
    ASSUME NEW r, NoSpace(r), r # <<>>, NEW t \in Seq(Token), t # <<>>,
           \A k \in 1..Len(t) : t[k] # "nl"
    PROVE  ReadLine(LineOf(r, t)) = <<r, t>>
<1> DEFINE l == LineOf(r, t)
           x == Len(r)
           y == Len(t)
           i == x + 3
           n == (i + y) + 1
           rest == After(l, "sp")
           two == 2
           three == 3
<1>1. /\ r \in Seq(Token) /\ x \in Nat /\ y \in Nat /\ i \in Nat /\ n \in Nat
      /\ \A k \in 1..x : r[k] # "sp"
  BY DEF NoSpace
<1>2. /\ l \in Seq(Token) /\ Len(l) = n /\ l[1] = "when" /\ l[2] = "sp"
      /\ l[i] = "sp" /\ l[n] = "nl"
      /\ \A k \in 1..x : l[2 + k] = r[k]
      /\ \A k \in 1..y : l[i + k] = t[k]
  BY <1>1, LineFacts DEF IsLine
<1>3. two \in 1..(n + 1) /\ two <= n /\ \A k \in 1..(two - 1) : k = 1
  BY <1>1
<1>4. three \in 1..(n + 1) /\ three = two + 1 /\ n \in (three - 1)..n /\ i \in three..(n + 1)
      /\ i <= n /\ i - 1 \in (three - 1)..n /\ three - 1 = 2
  BY <1>1
<1>5. /\ i + 1 \in 1..(n + 1) /\ n \in ((i + 1) - 1)..n /\ n \in (i + 1)..(n + 1)
      /\ n - 1 \in ((i + 1) - 1)..n
      /\ ((i - 1) - three) + 1 = x /\ ((n - 1) - (i + 1)) + 1 = y
  BY <1>1
<1> HIDE DEF l
<1>6. rest = SubSeq(l, three, n)
  <2>1. \A k \in 1..(two - 1) : l[k] # "sp"
    BY <1>2, <1>3
  <2>2. two \in 1..(Len(l) + 1) /\ l[two] = "sp"
    BY <1>2, <1>3
  <2>3. two + 1 = three
    OBVIOUS
  <2> HIDE DEF two, three, n
  <2>4. FirstPlace(l, "sp") = two
    BY <1>2, <2>1, <2>2, PlaceIs
  <2> QED
    BY <1>2, <2>3, <2>4 DEF After
<1>7. \A k \in three..(i - 1) : l[k] # "sp"
  <2>1. ASSUME NEW k \in three..(i - 1) PROVE l[k] # "sp"
    <3>1. k - 2 \in 1..x /\ 2 + (k - 2) = k
      BY <1>1
    <3> QED
      BY <1>1, <1>2, <3>1
  <2> QED
    BY <2>1
<1>8. \A k \in (i + 1)..(n - 1) : l[k] # "nl"
  <2>1. ASSUME NEW k \in (i + 1)..(n - 1) PROVE l[k] # "nl"
    <3>1. k - i \in 1..y /\ i + (k - i) = k
      BY <1>1
    <3> QED
      BY <1>2, <3>1
  <2> QED
    BY <2>1
<1> HIDE DEF i, n, rest, two, three
<1>9. CutAt(l, three, n, "sp", i)
  BY <1>2, <1>4, <1>7, SliceAt
<1>10. Before(rest, "sp") = SubSeq(l, three, i - 1) /\ After(rest, "sp") = SubSeq(l, i + 1, n)
  BY <1>4, <1>6, <1>9 DEF CutAt
<1>11. CutAt(l, i + 1, n, "nl", n)
  <2> DEFINE j == i + 1
  <2>1. j \in 1..(Len(l) + 1) /\ n \in (j - 1)..Len(l) /\ n \in j..(n + 1)
        /\ \A k \in j..(n - 1) : l[k] # "nl"
    BY <1>2, <1>5, <1>8
  <2> HIDE DEF j
  <2>2. CutAt(l, j, n, "nl", n)
    BY <1>2, <2>1, SliceAt
  <2> QED
    BY <2>2 DEF j
<1>12. Before(After(rest, "sp"), "nl") = SubSeq(l, i + 1, n - 1)
  BY <1>10, <1>11 DEF CutAt
<1>13. SubSeq(l, three, i - 1) = r
  <2> DEFINE b == i - 1
             u == SubSeq(l, three, b)
  <2>1. three \in 1..(Len(l) + 1) /\ b \in (three - 1)..Len(l) /\ (b - three) + 1 = x
    BY <1>2, <1>4, <1>5
  <2> HIDE DEF b
  <2>2. /\ u \in Seq(Token) /\ Len(u) = x
        /\ \A k \in 1..x : u[k] = l[(three + k) - 1]
    BY <1>2, <2>1, SliceFacts
  <2>3. ASSUME NEW k \in 1..x PROVE u[k] = r[k]
    <3>1. (three + k) - 1 = 2 + k
      BY DEF three
    <3> QED
      BY <1>2, <2>2, <3>1
  <2> HIDE DEF u
  <2>4. u = r
    BY <1>1, <2>2, <2>3, SeqEqual
  <2> QED
    BY <2>4 DEF u, b
<1>14. SubSeq(l, i + 1, n - 1) = t
  <2> DEFINE a == i + 1
             b == n - 1
             u == SubSeq(l, a, b)
  <2>1. a \in 1..(Len(l) + 1) /\ b \in (a - 1)..Len(l) /\ (b - a) + 1 = y
    BY <1>2, <1>5
  <2>2. \A k \in Nat : (a + k) - 1 = i + k
    BY <1>1 DEF a
  <2> HIDE DEF a, b
  <2>3. /\ u \in Seq(Token) /\ Len(u) = y
        /\ \A k \in 1..y : u[k] = l[(a + k) - 1]
    BY <1>2, <2>1, SliceFacts
  <2>4. ASSUME NEW k \in 1..y PROVE u[k] = t[k]
    <3>1. (a + k) - 1 = i + k /\ k \in 1..y
      BY <1>1, <2>2
    <3>2. u[k] = l[i + k] /\ l[i + k] = t[k]
      <4> HIDE DEF u, y
      <4> QED
        BY <1>2, <2>3, <3>1
    <3> QED
      BY <3>2
  <2> HIDE DEF u
  <2>5. u = t
    BY <1>1, <2>3, <2>4, SeqEqual
  <2> QED
    BY <2>5 DEF u, a, b
<1>15. ReadLine(l) = LET fields == <<r, t>> IN IF <<>> \in Range(fields) THEN <<>> ELSE fields
  BY <1>10, <1>12, <1>13, <1>14 DEF ReadLine, rest
<1>16. <<>> \notin Range(<<r, t>>)
  <2>1. DOMAIN <<r, t>> = {1, 2} /\ <<r, t>>[1] = r /\ <<r, t>>[2] = t
    OBVIOUS
  <2> QED
    BY <2>1 DEF Range
<1> QED
  BY <1>15, <1>16 DEF l

\* The commands begin when the message has been handled, and end at a text
\* that is not empty if a reminder was accepted.
SavedInv ==
    /\ step # "idle" => cmdCall # NoCall /\ phase = "done"
    /\ reply = "confirmed" => step = "end" /\ at \in 1..Len(buf) /\ buf[at] # "nul"

LEMMA SavedInvNext ==
    IInv /\ CmdInv /\ SavedInv /\ [CmdNext]_<<vars, cmdVars>> => SavedInv'
<1> SUFFICES ASSUME IInv, CmdInv, SavedInv, [CmdNext]_<<vars, cmdVars>>
             PROVE  SavedInv'
  OBVIOUS
<1>1. CASE UNCHANGED <<vars, cmdVars>>
  BY <1>1 DEF vars, cmdVars, SavedInv
<1>2. CASE Next /\ UNCHANGED cmdVars
  <2>1. phase # "done"
    BY <1>2 DEF Next, Split, NoPrefix, BadPrefix, Prefix, NoComponents, Components,
       EmptyCmd, Cmd, NoMoreParams, BadParam, FinalParam, Param, NextParam, Ignore,
       Misfit, Handle, NoBotCmd, BotCmd, Reject
  <2>2. step = "idle" /\ reply # "confirmed"
    BY <2>1 DEF SavedInv
  <2> QED
    BY <1>2, <2>2 DEF SavedInv, cmdVars
<1>3. CASE Command /\ UNCHANGED vars
  <2>1. cmdCall # NoCall /\ phase = "done" /\ UNCHANGED <<buf, phase, cmdCall>>
    BY <1>3 DEF SavedInv, vars, Command, Answer, Remind, Called, Calls, Hour, Minute,
       Second, Day, Month, Year, GotTime, NoText, TimeFails, Past, Accept
  <2>2. CASE Accept
    <3>1. /\ at \in 0..Len(buf) /\ at # 0 /\ buf[at] = "sp" /\ buf[at + 1] # "nul"
          /\ at' = at + 1 /\ step' = "end"
      BY <2>2 DEF Accept, Say, CmdInv, CmdVarsOK, Place
    <3>2. Len(buf) \in Nat \ {0} /\ buf[Len(buf)] = "nul"
      BY InvFacts
    <3>3. at + 1 \in 1..Len(buf)
      BY <3>1, <3>2
    <3> QED
      BY <2>1, <3>1, <3>3 DEF SavedInv
  <2>3. CASE ~Accept
    <3>1. step # "end"
      BY <1>3 DEF Command, Answer, Remind, Called, Calls, Hour, Minute,
         Second, Day, Month, Year, GotTime, NoText, TimeFails, Past, Accept
    <3>2. reply # "confirmed"
      BY <3>1 DEF SavedInv
    <3>3. reply' # "confirmed"
      <4>1. CASE Answer \/ Remind
        BY <3>2, <4>1 DEF Answer, Remind, Say
      <4>2. CASE NoText \/ TimeFails \/ Past
        BY <4>2 DEF NoText, TimeFails, Past, Refuse, Say
      <4>3. CASE Hour \/ Minute \/ Second \/ Day \/ Month \/ Year \/ GotTime
        BY <3>2, <4>3 DEF Hour, Minute, Second, Day, Month, Year, GotTime, Took,
           Malformed, Say
      <4> QED
        BY <1>3, <2>3, <4>1, <4>2, <4>3 DEF Command
    <3> QED
      BY <2>1, <3>3 DEF SavedInv
  <2> QED
    BY <2>2, <2>3
<1> QED
  BY <1>1, <1>2, <1>3 DEF CmdNext

\* Nothing in memory ends a line.
LEMMA NoLineEnd ==
    ASSUME IInv
    PROVE  \A i \in 1..Len(buf) : buf[i] # "nl"
<1>1. input \in Seq(Token) /\ Len(input) \in Nat /\ Len(buf) = Len(input) + 1
  BY InputIs DEF IInv, CutUp
<1>2. \A i \in 1..Len(input) : input[i] # "nl"
  BY <1>1, CommandsAssumption DEF IInv, Contains
<1>3. ASSUME NEW i \in 1..Len(buf) PROVE buf[i] # "nl"
  <2>1. CASE i \in 1..Len(input)
    BY <1>1, <1>2, <2>1 DEF IInv, CutUp
  <2>2. CASE i = Len(buf)
    BY <2>2 DEF IInv, CutUp
  <2> QED
    BY <1>1, <2>1, <2>2
<1> QED
  BY <1>3

\* A reminder is saved, and read back, with the target and the text it was given
\* with, whatever they are: the line it is saved in can be cut up again.
THEOREM SavedRemindersAreRead == CmdSpec => []SavedIsReadable
<1>1. CmdInit => SavedInv
  BY DEF CmdInit, SavedInv
<1>2. IInv /\ CmdInv /\ CallInv /\ SavedInv => SavedIsReadable
  <2> SUFFICES ASSUME IInv, CmdInv, CallInv, SavedInv, reply = "confirmed",
                      IsChannel(to) \/ NickOf(input) # <<>>
               PROVE  ReadLine(SavedLine) =
                         <<IF IsChannel(to) THEN CStr(to) ELSE NickOf(input), CStr(at)>>
    BY DEF SavedIsReadable
  <2> DEFINE params == ParamsOf(BodyOf(input))
             asker == IF IsChannel(to) THEN params[1] ELSE NickOf(input)
             t == CStr(at)
  <2>1. cmdCall # NoCall /\ at \in 1..Len(buf) /\ buf[at] # "nul"
    BY DEF SavedInv
  <2>2. /\ cmdCall.rep = IF IsChannel(to) THEN to ELSE msg.prefix
        /\ CStr(cmdCall.rep) = asker /\ NoSpace(asker) /\ asker # <<>>
    BY <2>1 DEF CallInv
  <2>3. asker = IF IsChannel(to) THEN CStr(to) ELSE NickOf(input)
    BY <2>2
  <2> DEFINE f == Find(at, {"nul"})
             e == f - 1
             a == at
  <2>4. /\ Terminated /\ Len(buf) \in Nat /\ buf \in Seq(Token)
        /\ f \in a..Len(buf) /\ buf[f] = "nul"
    BY <2>1, InvFacts, Finds DEF Terminated
  <2>5. a \in 1..(Len(buf) + 1) /\ a \in Nat /\ a # f
    BY <2>1, <2>4
  <2>6. t = SubSeq(buf, a, e)
    BY DEF CStr
  <2> HIDE DEF f, a, params, t
  <2>7. e \in (a - 1)..Len(buf) /\ (e - a) + 1 \in Nat \ {0}
    BY <2>4, <2>5
  <2> HIDE DEF e
  <2>8. /\ t \in Seq(Token) /\ Len(t) = (e - a) + 1
        /\ \A k \in 1..((e - a) + 1) : t[k] = buf[(a + k) - 1]
    BY <2>4, <2>5, <2>6, <2>7, SliceFacts
  <2>9. ASSUME NEW k \in 1..Len(t) PROVE t[k] # "nl"
    <3>1. (a + k) - 1 \in 1..Len(buf) /\ k \in 1..((e - a) + 1)
      BY <2>4, <2>5, <2>7, <2>8
    <3> QED
      BY <2>8, <3>1, NoLineEnd
  <2>10. t # <<>>
    BY <2>7, <2>8
  <2> HIDE DEF asker
  <2>11. ReadLine(LineOf(asker, t)) = <<asker, t>>
    BY <2>2, <2>8, <2>9, <2>10, LineIsRead
  <2>12. SavedLine = LineOf(asker, t)
    BY <2>2 DEF SavedLine, LineOf, t
  <2> QED
    BY <2>3, <2>11, <2>12 DEF t
<1>3. CmdSpec => [](IInv /\ TextInv /\ CallInv)
  BY CommandsRefineMessages, MessageCallInv, PTL
<1> QED
  BY <1>1, <1>2, <1>3, SavedInvNext, CommandInv, PTL DEF CmdSpec

-------------------------------------------------------------------------------
(* The words of a request                                                  *)

Memory(m) == m \in Seq(Token) /\ Len(m) \in Nat \ {0} /\ m[Len(m)] = "nul"

\* From place i of the memory m, the white space ends at place s.
SkipsTo(m, i, s) ==
    /\ i \in 1..Len(m) /\ s \in i..Len(m)
    /\ \A k \in i..(s - 1) : m[k] \in Blank
    /\ m[s] \notin Blank

\* The first word of the string at place i is at the places s to e - 1.
WordSpan(m, i, s, e) ==
    /\ SkipsTo(m, i, s)
    /\ e \in s..Len(m)
    /\ \A k \in s..(e - 1) : m[k] \notin Blank /\ m[k] # "nul"
    /\ m[e] \in Blank \/ m[e] = "nul"

LEMMA NulNotBlank == "nul" \notin Blank /\ "sp" \in Blank
BY DEF Blank

LEMMA SkipsOnce ==
    ASSUME NEW m, Len(m) \in Nat, NEW i, NEW s, NEW t, SkipsTo(m, i, s), SkipsTo(m, i, t)
    PROVE  s = t
<1>1. /\ i \in Nat /\ s \in i..Len(m) /\ t \in i..Len(m)
      /\ m[s] \notin Blank /\ m[t] \notin Blank
      /\ \A k \in i..(s - 1) : m[k] \in Blank
      /\ \A k \in i..(t - 1) : m[k] \in Blank
  BY DEF SkipsTo
<1>2. ~(s < t) /\ ~(t < s)
  BY <1>1
<1> QED
  BY <1>1, <1>2

LEMMA SkipsExist ==
    ASSUME NEW m, Memory(m), NEW i \in 1..Len(m)
    PROVE  \E s : SkipsTo(m, i, s)
<1>1. Len(m) \in Nat \ {0} /\ m[Len(m)] = "nul" /\ i \in Nat
  BY DEF Memory
<1> DEFINE P == {j \in i..Len(m) : m[j] \notin Blank}
<1>2. Len(m) \in i..Len(m) /\ Len(m) \in P
  BY <1>1, NulNotBlank
<1> HIDE DEF P
<1>3. PICK j \in i..Len(m) : j \in P /\ \A k \in i..(j - 1) : k \notin P
  BY <1>1, <1>2, FirstOne
<1>4. \A k \in i..(j - 1) : k \in i..Len(m)
  BY <1>1
<1>5. m[j] \notin Blank /\ \A k \in i..(j - 1) : m[k] \in Blank
  BY <1>3, <1>4 DEF P
<1> QED
  BY <1>5 DEF SkipsTo

LEMMA SpanExists ==
    ASSUME NEW m, Memory(m), NEW i, NEW s, SkipsTo(m, i, s)
    PROVE  \E e : WordSpan(m, i, s, e)
<1>1. Len(m) \in Nat \ {0} /\ m[Len(m)] = "nul" /\ s \in 1..Len(m) /\ s \in Nat
  BY DEF Memory, SkipsTo
<1> DEFINE P == {j \in s..Len(m) : m[j] \in Blank \/ m[j] = "nul"}
<1>2. Len(m) \in s..Len(m) /\ Len(m) \in P
  BY <1>1
<1> HIDE DEF P
<1>3. PICK j \in s..Len(m) : j \in P /\ \A k \in s..(j - 1) : k \notin P
  BY <1>1, <1>2, FirstOne
<1>4. \A k \in s..(j - 1) : k \in s..Len(m)
  BY <1>1
<1>5. /\ m[j] \in Blank \/ m[j] = "nul"
      /\ \A k \in s..(j - 1) : m[k] \notin Blank /\ m[k] # "nul"
  BY <1>3, <1>4 DEF P
<1> QED
  BY <1>5 DEF WordSpan

LEMMA SpanOnce ==
    ASSUME NEW m, Len(m) \in Nat, NEW i, NEW s, NEW e, NEW t, NEW f,
           WordSpan(m, i, s, e), WordSpan(m, i, t, f)
    PROVE  s = t /\ e = f
<1>1. s = t
  BY SkipsOnce DEF WordSpan
<1>2. /\ s \in Nat /\ e \in s..Len(m) /\ f \in s..Len(m)
      /\ m[e] \in Blank \/ m[e] = "nul"
      /\ m[f] \in Blank \/ m[f] = "nul"
      /\ \A k \in s..(e - 1) : m[k] \notin Blank /\ m[k] # "nul"
      /\ \A k \in s..(f - 1) : m[k] \notin Blank /\ m[k] # "nul"
  BY <1>1 DEF WordSpan, SkipsTo
<1>3. ~(e < f) /\ ~(f < e)
  BY <1>2
<1> QED
  BY <1>1, <1>2, <1>3

\* Trim and Word, where the white space and the word end.
LEMMA TrimIs ==
    ASSUME NEW t, Len(t) \in Nat, NEW n \in 0..Len(t), \A k \in 1..n : t[k] \in Blank,
           n = Len(t) \/ t[n + 1] \notin Blank
    PROVE  Trim(t) = SubSeq(t, n + 1, Len(t))
<1> DEFINE P(i) == (\A k \in 1..i : t[k] \in Blank) /\ (i = Len(t) \/ t[i + 1] \notin Blank)
           c == CHOOSE i \in 0..Len(t) : P(i)
<1>1. \A i \in 0..Len(t) : P(i) => i = n
  BY SMTT(20)
<1>2. P(n)
  OBVIOUS
<1>3. c = n
  <2> HIDE DEF P
  <2> QED
    BY <1>1, <1>2
<1> HIDE DEF c
<1>4. Trim(t) = SubSeq(t, c + 1, Len(t))
  BY DEF Trim, c
<1> QED
  BY <1>3, <1>4

LEMMA WordOf ==
    ASSUME NEW s, NEW t, t = Trim(s), Len(t) \in Nat, NEW n \in 0..Len(t),
           \A k \in 1..n : t[k] \notin Blank, n = Len(t) \/ t[n + 1] \in Blank
    PROVE  /\ Word(s).word = SubSeq(t, 1, n)
           /\ Word(s).gap = IF n = Len(t) THEN "nul" ELSE t[n + 1]
           /\ Word(s).rest = SubSeq(t, n + 2, Len(t))
<1> DEFINE P(i) == (\A k \in 1..i : t[k] \notin Blank) /\ (i = Len(t) \/ t[i + 1] \in Blank)
           c == CHOOSE i \in 0..Len(t) : P(i)
<1>1. \A i \in 0..Len(t) : P(i) => i = n
  BY SMTT(20)
<1>2. P(n)
  OBVIOUS
<1>3. c = n
  <2> HIDE DEF P
  <2> QED
    BY <1>1, <1>2
<1> HIDE DEF c
<1>4. Word(s) = [word |-> SubSeq(t, 1, c), gap |-> IF c = Len(t) THEN "nul" ELSE t[c + 1],
                 rest |-> SubSeq(t, c + 2, Len(t))]
  BY DEF Word, c
<1> QED
  BY <1>3, <1>4

\* The string at place i ends at place z.
Stop(m, i, z) ==
    /\ m \in Seq(Token) /\ i \in 1..Len(m) /\ z \in i..Len(m) /\ m[z] = "nul"
    /\ \A k \in i..(z - 1) : m[k] # "nul"

LEMMA StopFacts ==
    ASSUME NEW m, NEW i, NEW z, Stop(m, i, z)
    PROVE  /\ CStrOf(m, i) = SubSeq(m, i, z - 1)
           /\ CStrOf(m, i) \in Seq(Token) /\ Len(CStrOf(m, i)) = z - i
           /\ \A k \in 1..(z - i) : CStrOf(m, i)[k] = m[(i + k) - 1]
<1>1. /\ m \in Seq(Token) /\ Len(m) \in Nat /\ i \in 1..Len(m) /\ z \in i..Len(m)
      /\ m[z] = "nul" /\ \A k \in i..(z - 1) : m[k] # "nul"
  BY DEF Stop
<1>2. CStrOf(m, i) = SubSeq(m, i, z - 1)
  BY <1>1, CStrOfIs
<1> DEFINE y == z - 1
<1>3. i \in 1..(Len(m) + 1) /\ y \in (i - 1)..Len(m) /\ (y - i) + 1 = z - i
  BY <1>1
<1> HIDE DEF y
<1>4. /\ SubSeq(m, i, y) \in Seq(Token) /\ Len(SubSeq(m, i, y)) = (y - i) + 1
      /\ \A k \in 1..((y - i) + 1) : SubSeq(m, i, y)[k] = m[(i + k) - 1]
  BY <1>1, <1>3, SliceFacts
<1>5. /\ SubSeq(m, i, y) \in Seq(Token) /\ Len(SubSeq(m, i, y)) = z - i
      /\ \A k \in 1..(z - i) : SubSeq(m, i, y)[k] = m[(i + k) - 1]
  BY <1>3, <1>4
<1> QED
  BY <1>2, <1>5 DEF y

LEMMA StopExists ==
    ASSUME NEW m, Memory(m), NEW i \in 1..Len(m)
    PROVE  \E z : Stop(m, i, z)
<1>1. m \in Seq(Token) /\ Len(m) \in Nat \ {0} /\ m[Len(m)] = "nul" /\ i \in Nat
  BY DEF Memory
<1> DEFINE P == {j \in i..Len(m) : m[j] = "nul"}
<1>2. Len(m) \in i..Len(m) /\ Len(m) \in P
  BY <1>1
<1> HIDE DEF P
<1>3. PICK j \in i..Len(m) : j \in P /\ \A k \in i..(j - 1) : k \notin P
  BY <1>1, <1>2, FirstOne
<1>4. \A k \in i..(j - 1) : k \in i..Len(m)
  BY <1>1
<1>5. m[j] = "nul" /\ \A k \in i..(j - 1) : m[k] # "nul"
  BY <1>3, <1>4 DEF P
<1> QED
  BY <1>1, <1>5 DEF Stop

\* From a place before its end the string ends at the same place.
LEMMA StopsLater ==
    ASSUME NEW m, NEW i, NEW z, Stop(m, i, z), NEW s \in i..z
    PROVE  Stop(m, s, z)
<1>1. /\ m \in Seq(Token) /\ Len(m) \in Nat /\ i \in 1..Len(m) /\ z \in i..Len(m)
      /\ m[z] = "nul" /\ \A k \in i..(z - 1) : m[k] # "nul"
  BY DEF Stop
<1>2. s \in 1..Len(m) /\ z \in s..Len(m) /\ \A k \in s..(z - 1) : k \in i..(z - 1)
  BY <1>1
<1> QED
  BY <1>1, <1>2 DEF Stop

LEMMA TrimmedIs ==
    ASSUME NEW m, Memory(m), NEW i, NEW s, SkipsTo(m, i, s)
    PROVE  Trim(CStrOf(m, i)) = CStrOf(m, s)
<1>1. /\ i \in 1..Len(m) /\ s \in i..Len(m) /\ Len(m) \in Nat /\ m[s] \notin Blank
      /\ \A k \in i..(s - 1) : m[k] \in Blank
  BY DEF SkipsTo, Memory
<1>2. PICK z : Stop(m, i, z)
  BY <1>1, StopExists
<1>3. /\ m \in Seq(Token) /\ z \in i..Len(m) /\ m[z] = "nul"
      /\ \A k \in i..(z - 1) : m[k] # "nul"
  BY <1>2 DEF Stop
<1>4. s \in i..z
  BY <1>1, <1>3, NulNotBlank
<1>5. Stop(m, s, z)
  BY <1>2, <1>4, StopsLater
<1> DEFINE t == CStrOf(m, i)
           n == s - i
<1>6. /\ t = SubSeq(m, i, z - 1) /\ t \in Seq(Token) /\ Len(t) = z - i
      /\ \A k \in 1..(z - i) : t[k] = m[(i + k) - 1]
  BY <1>2, StopFacts
<1> HIDE DEF t
<1>7. n \in 0..Len(t) /\ Len(t) \in Nat /\ n \in Nat
  BY <1>1, <1>3, <1>4, <1>6
<1>8. \A k \in 1..n : t[k] \in Blank
  <2>1. ASSUME NEW k \in 1..n PROVE t[k] \in Blank
    <3>1. k \in 1..(z - i) /\ (i + k) - 1 \in i..(s - 1)
      BY <1>1, <1>3, <1>4
    <3> QED
      BY <1>1, <1>6, <3>1
  <2> QED
    BY <2>1
<1>9. n = Len(t) \/ t[n + 1] \notin Blank
  <2>1. ASSUME n # Len(t) PROVE t[n + 1] \notin Blank
    <3>1. n + 1 \in 1..(z - i) /\ (i + (n + 1)) - 1 = s
      BY <1>1, <1>3, <1>4, <1>6, <2>1
    <3> QED
      BY <1>1, <1>6, <3>1
  <2> QED
    BY <2>1
<1> DEFINE c == n + 1
           d == Len(t)
           y == z - 1
<1>10. /\ i \in 1..(Len(m) + 1) /\ y \in (i - 1)..Len(m)
       /\ c \in 1..((y - i) + 2) /\ d \in (c - 1)..((y - i) + 1)
       /\ (i + c) - 1 = s /\ (i + d) - 1 = y
  BY <1>1, <1>3, <1>4, <1>6
<1>11. Trim(t) = SubSeq(t, c, d)
  <2> HIDE DEF n
  <2> QED
    BY <1>7, <1>8, <1>9, TrimIs
<1>12. t = SubSeq(m, i, y)
  BY <1>6
<1>13. CStrOf(m, s) = SubSeq(m, s, y)
  BY <1>5, StopFacts
<1> HIDE DEF c, d, y
<1>14. SubSeq(SubSeq(m, i, y), c, d) = SubSeq(m, (i + c) - 1, (i + d) - 1)
  BY <1>3, <1>10, SliceOfSlice
<1>15. Trim(t) = CStrOf(m, s)
  BY <1>10, <1>11, <1>12, <1>13, <1>14
<1> QED
  BY <1>15 DEF t

\* The first word, what ends it and the rest, in memory.
WordIn(m, i, s, e) ==
    LET w == Word(CStrOf(m, i))
    IN  /\ w.word = SubSeq(m, s, e - 1)
        /\ w.gap = m[e]
        /\ m[e] # "nul" => w.rest = CStrOf(m, e + 1) /\ e + 1 \in 1..Len(m)

LEMMA WordInMemoryIs ==
    ASSUME NEW m, Memory(m), NEW i, NEW s, NEW e, WordSpan(m, i, s, e)
    PROVE  WordIn(m, i, s, e)
<1>1. /\ SkipsTo(m, i, s) /\ s \in 1..Len(m) /\ e \in s..Len(m) /\ Len(m) \in Nat
      /\ m \in Seq(Token) /\ m[s] \notin Blank
      /\ \A k \in s..(e - 1) : m[k] \notin Blank /\ m[k] # "nul"
      /\ m[e] \in Blank \/ m[e] = "nul"
  BY DEF WordSpan, SkipsTo, Memory
<1>2. PICK z : Stop(m, s, z)
  BY <1>1, StopExists
<1>3. /\ z \in s..Len(m) /\ m[z] = "nul" /\ \A k \in s..(z - 1) : m[k] # "nul"
  BY <1>2 DEF Stop
<1>4. e \in s..z /\ (m[e] = "nul" <=> e = z)
  BY <1>1, <1>3
<1> DEFINE t == CStrOf(m, s)
           n == e - s
           y == z - 1
<1>5. t = Trim(CStrOf(m, i))
  BY <1>1, TrimmedIs
<1>6. /\ t = SubSeq(m, s, y) /\ t \in Seq(Token) /\ Len(t) = z - s
      /\ \A k \in 1..(z - s) : t[k] = m[(s + k) - 1]
  BY <1>2, StopFacts
<1> HIDE DEF t
<1>7. n \in 0..Len(t) /\ Len(t) \in Nat /\ n \in Nat /\ (n = Len(t) <=> e = z)
  BY <1>1, <1>3, <1>4, <1>6
<1>8. ASSUME NEW k \in 1..n PROVE t[k] \notin Blank
  <2>1. k \in 1..(z - s) /\ (s + k) - 1 \in s..(e - 1)
    BY <1>1, <1>3, <1>4
  <2> QED
    BY <1>1, <1>6, <2>1
<1>9. ASSUME n # Len(t) PROVE t[n + 1] = m[e] /\ m[e] \in Blank /\ m[e] # "nul"
  <2>1. n + 1 \in 1..(z - s) /\ (s + (n + 1)) - 1 = e
    BY <1>1, <1>3, <1>4, <1>6, <1>9
  <2> QED
    BY <1>1, <1>4, <1>6, <1>7, <1>9, <2>1
<1>10. /\ Word(CStrOf(m, i)).word = SubSeq(t, 1, n)
       /\ Word(CStrOf(m, i)).gap = IF n = Len(t) THEN "nul" ELSE t[n + 1]
       /\ Word(CStrOf(m, i)).rest = SubSeq(t, n + 2, Len(t))
  <2> HIDE DEF n
  <2> QED
    BY <1>5, <1>7, <1>8, <1>9, WordOf
<1>11. Word(CStrOf(m, i)).gap = m[e]
  BY <1>4, <1>7, <1>9, <1>10
<1>12. SubSeq(t, 1, n) = SubSeq(m, s, e - 1)
  <2> DEFINE c == 1
             d == n
  <2>1. /\ s \in 1..(Len(m) + 1) /\ y \in (s - 1)..Len(m)
        /\ c \in 1..((y - s) + 2) /\ d \in (c - 1)..((y - s) + 1)
        /\ (s + c) - 1 = s /\ (s + d) - 1 = e - 1
    BY <1>1, <1>3, <1>4, <1>6
  <2> HIDE DEF c, d, y, n
  <2>2. SubSeq(SubSeq(m, s, y), c, d) = SubSeq(m, (s + c) - 1, (s + d) - 1)
    BY <1>1, <2>1, SliceOfSlice
  <2>3. SubSeq(t, c, d) = SubSeq(m, s, e - 1)
    BY <1>6, <2>1, <2>2
  <2> QED
    BY <2>3 DEF c, d
<1>13. ASSUME m[e] # "nul"
       PROVE  SubSeq(t, n + 2, Len(t)) = CStrOf(m, e + 1) /\ e + 1 \in 1..Len(m)
  <2>1. e + 1 \in s..z /\ e + 1 \in 1..Len(m)
    BY <1>1, <1>3, <1>4, <1>13
  <2>2. Stop(m, e + 1, z)
    BY <1>2, <2>1, StopsLater
  <2>3. CStrOf(m, e + 1) = SubSeq(m, e + 1, y)
    BY <2>2, StopFacts
  <2> DEFINE c == n + 2
             d == Len(t)
  <2>4. /\ s \in 1..(Len(m) + 1) /\ y \in (s - 1)..Len(m)
        /\ c \in 1..((y - s) + 2) /\ d \in (c - 1)..((y - s) + 1)
        /\ (s + c) - 1 = e + 1 /\ (s + d) - 1 = y
    BY <1>1, <1>3, <1>6, <2>1
  <2> HIDE DEF c, d, y, n
  <2>5. SubSeq(SubSeq(m, s, y), c, d) = SubSeq(m, (s + c) - 1, (s + d) - 1)
    BY <1>1, <2>4, SliceOfSlice
  <2>6. SubSeq(t, c, d) = CStrOf(m, e + 1)
    BY <1>6, <2>3, <2>4, <2>5
  <2> QED
    BY <2>1, <2>6 DEF c, d
<1> QED
  BY <1>10, <1>11, <1>12, <1>13 DEF WordIn

\* A string that begins with white space and a digit.
LEMMA DigitFirst ==
    ASSUME NEW m, Memory(m), NEW i, NEW s, SkipsTo(m, i, s)
    PROVE  BeginsWithDigit(CStrOf(m, i)) <=> IsDigit(m[s])
<1>1. s \in 1..Len(m)
  BY DEF SkipsTo, Memory
<1>2. PICK z : Stop(m, s, z)
  BY <1>1, StopExists
<1> DEFINE t == CStrOf(m, s)
<1>3. /\ t \in Seq(Token) /\ Len(t) = z - s
      /\ \A k \in 1..(z - s) : t[k] = m[(s + k) - 1]
  BY <1>2, StopFacts
<1>4. z \in s..Len(m) /\ m[z] = "nul" /\ s \in Nat /\ z \in Nat
  BY <1>1, <1>2 DEF Stop, Memory
<1>5. Trim(CStrOf(m, i)) = t
  BY TrimmedIs
<1> HIDE DEF t
<1>6. CASE z = s
  <2>1. t = <<>>
    BY <1>3, <1>4, <1>6
  <2> QED
    BY <1>4, <1>5, <1>6, <2>1, NulFacts DEF BeginsWithDigit
<1>7. CASE z # s
  <2>1. 1 \in 1..(z - s) /\ (s + 1) - 1 = s /\ Len(t) # 0
    BY <1>3, <1>4, <1>7
  <2>2. t # <<>> /\ t[1] = m[s]
    BY <1>3, <2>1
  <2> QED
    BY <1>5, <2>2 DEF BeginsWithDigit
<1> QED
  BY <1>6, <1>7

-------------------------------------------------------------------------------
(* Numbers in a request                                                    *)

\* A number of one or two digits is at the places s to e - 1.
NumSpan(m, s, e) ==
    /\ s \in 1..Len(m) /\ e \in (s + 1)..Len(m) /\ e <= s + 2
    /\ \A k \in s..(e - 1) : IsDigit(m[k])

LEMMA DigitIs ==
    ASSUME NEW c, IsDigit(c)
    PROVE  c \notin Blank /\ c # ":" /\ c # "/" /\ c # "nul" /\ c # "sp"
BY DigitFacts DEF IsDigit, Blank

LEMMA NumOnce ==
    ASSUME NEW m, Len(m) \in Nat, NEW s, NEW e, NEW f, NumSpan(m, s, e), NumSpan(m, s, f),
           ~IsDigit(m[e]), ~IsDigit(m[f])
    PROVE  e = f
<1>1. /\ s \in Nat /\ e \in (s + 1)..Len(m) /\ f \in (s + 1)..Len(m)
      /\ \A k \in s..(e - 1) : IsDigit(m[k])
      /\ \A k \in s..(f - 1) : IsDigit(m[k])
  BY DEF NumSpan
<1>2. ~(e < f) /\ ~(f < e)
  BY <1>1
<1> QED
  BY <1>1, <1>2

LEMMA NumSlice ==
    ASSUME NEW m \in Seq(Token), NEW s \in 1..Len(m), NEW e \in s..Len(m)
    PROVE  IsNumber(SubSeq(m, s, e - 1)) <=> NumSpan(m, s, e)
<1>1. Len(m) \in Nat
  OBVIOUS
<1> DEFINE y == e - 1
           w == SubSeq(m, s, y)
<1>2. s \in 1..(Len(m) + 1) /\ y \in (s - 1)..Len(m) /\ (y - s) + 1 = e - s
  BY <1>1
<1> HIDE DEF y
<1>3. w \in Seq(Token) /\ Len(w) = e - s /\ \A k \in 1..(e - s) : w[k] = m[(s + k) - 1]
  <2>1. /\ w \in Seq(Token) /\ Len(w) = (y - s) + 1
        /\ \A k \in 1..((y - s) + 1) : w[k] = m[(s + k) - 1]
    BY <1>2, SliceFacts
  <2> QED
    BY <1>2, <2>1
<1> HIDE DEF w
<1>4. DOMAIN w = 1..(e - s)
  BY <1>3
<1>5. ASSUME IsNumber(w) PROVE NumSpan(m, s, e)
  <2>1. Len(w) \in 1..2 /\ \A k \in 1..(e - s) : IsDigit(w[k])
    BY <1>4, <1>5 DEF IsNumber
  <2>2. ASSUME NEW k \in s..(e - 1) PROVE IsDigit(m[k])
    <3> DEFINE i == (k - s) + 1
    <3>1. i \in 1..(e - s) /\ (s + i) - 1 = k
      BY <1>1
    <3> HIDE DEF i
    <3> QED
      BY <1>3, <2>1, <3>1
  <2>3. e \in (s + 1)..Len(m) /\ e <= s + 2
    BY <1>1, <1>3, <2>1
  <2> QED
    BY <2>2, <2>3 DEF NumSpan
<1>6. ASSUME NumSpan(m, s, e) PROVE IsNumber(w)
  <2>1. e - s \in 1..2 /\ \A k \in s..(e - 1) : IsDigit(m[k])
    BY <1>1, <1>6 DEF NumSpan
  <2>2. ASSUME NEW k \in 1..(e - s) PROVE IsDigit(w[k])
    <3>1. (s + k) - 1 \in s..(e - 1)
      BY <1>1
    <3> QED
      BY <1>3, <2>1, <3>1
  <2> QED
    BY <1>3, <1>4, <2>1, <2>2 DEF IsNumber
<1> QED
  BY <1>5, <1>6 DEF w, y

\* What parse_one_or_two_digits() returns, which came to place i and is at s after
\* the white space.
NumRead(m, i, s, n) ==
    /\ n.ok <=> IsDigit(m[s])
    /\ IF n.ok
       THEN /\ NumSpan(m, s, n.end)
            /\ n.val = NumberOf(SubSeq(m, s, n.end - 1))
            /\ \A e : NumSpan(m, s, e) /\ ~IsDigit(m[e]) => e = n.end
       ELSE n.end = i

LEMMA SkipBlankIs ==
    ASSUME Terminated, NEW i \in 1..Len(buf)
    PROVE  SkipsTo(buf, i, SkipBlank(i))
<1>1. Memory(buf)
  BY DEF Terminated, Memory
<1>2. PICK s : SkipsTo(buf, i, s)
  BY <1>1, SkipsExist
<1>3. \E j \in i..Len(buf) : buf[j] \notin Blank /\ \A k \in i..(j - 1) : buf[k] \in Blank
  BY <1>2 DEF SkipsTo
<1> DEFINE t == SkipBlank(i)
<1>4. t \in i..Len(buf) /\ buf[t] \notin Blank /\ \A k \in i..(t - 1) : buf[k] \in Blank
  BY <1>3 DEF SkipBlank
<1> QED
  BY <1>4 DEF SkipsTo

LEMMA NumReadAt ==
    ASSUME Terminated, NEW i \in 1..Len(buf), NEW s \in 1..Len(buf), NEW n,
           n = [ok |-> IsDigit(buf[s]), end |-> NumberEnds(i, s),
                val |-> IF IsDigit(buf[s]) THEN NumberOf(SubSeq(buf, s, NumberEnds(i, s) - 1))
                        ELSE 0]
    PROVE  NumRead(buf, i, s, n)
<1>1. Len(buf) \in Nat \ {0} /\ buf[Len(buf)] = "nul" /\ ~IsDigit("nul") /\ s \in Nat
  BY NulFacts DEF Terminated
<1>2. (n.ok <=> IsDigit(buf[s])) /\ n.end = NumberEnds(i, s)
  OBVIOUS
<1>3. CASE ~IsDigit(buf[s])
  BY <1>2, <1>3 DEF NumRead, NumberEnds
<1>4. CASE IsDigit(buf[s])
  <2>1. s # Len(buf) /\ s + 1 \in 1..Len(buf)
    BY <1>1, <1>4
  <2>2. n.end = IF IsDigit(buf[s + 1]) THEN s + 2 ELSE s + 1
    BY <1>2, <1>4 DEF NumberEnds
  <2>3. NumSpan(buf, s, n.end)
    <3>1. CASE ~IsDigit(buf[s + 1])
      <4>1. n.end = s + 1 /\ \A k \in s..((s + 1) - 1) : k = s
        BY <1>1, <2>2, <3>1
      <4>2. s + 1 \in (s + 1)..Len(buf) /\ s + 1 <= s + 2
        BY <1>1, <2>1
      <4> QED
        BY <1>4, <4>1, <4>2 DEF NumSpan
    <3>2. CASE IsDigit(buf[s + 1])
      <4>1. n.end = s + 2 /\ \A k \in s..((s + 2) - 1) : k = s \/ k = s + 1
        BY <1>1, <2>2, <3>2
      <4>2. s + 1 # Len(buf)
        BY <1>1, <3>2
      <4>3. s + 2 \in (s + 1)..Len(buf) /\ s + 2 <= s + 2
        BY <1>1, <2>1, <4>2
      <4> QED
        BY <1>4, <3>2, <4>1, <4>3 DEF NumSpan
    <3> QED
      BY <3>1, <3>2
  <2>4. ASSUME NEW e, NumSpan(buf, s, e), ~IsDigit(buf[e]) PROVE e = n.end
    <3>1. /\ e \in (s + 1)..Len(buf) /\ e <= s + 2
          /\ \A k \in s..(e - 1) : IsDigit(buf[k])
      BY <2>4 DEF NumSpan
    <3>2. CASE e = s + 1
      BY <2>2, <2>4, <3>2
    <3>3. CASE e # s + 1
      <4>1. e = s + 2 /\ s + 1 \in s..(e - 1)
        BY <1>1, <3>1, <3>3
      <4> QED
        BY <2>2, <3>1, <4>1
    <3> QED
      BY <3>2, <3>3
  <2>5. n.val = NumberOf(SubSeq(buf, s, n.end - 1))
    BY <1>4
  <2> QED
    BY <1>2, <1>4, <2>3, <2>4, <2>5 DEF NumRead
<1> QED
  BY <1>3, <1>4

LEMMA NumberSkipping ==
    ASSUME Terminated, NEW i \in 1..Len(buf)
    PROVE  \E s : SkipsTo(buf, i, s) /\ NumRead(buf, i, s, Number(i, TRUE))
<1> DEFINE s == SkipBlank(i)
           n == Number(i, TRUE)
<1>1. SkipsTo(buf, i, s) /\ s \in 1..Len(buf)
  BY SkipBlankIs, Skipping DEF Terminated
<1>2. n = [ok |-> IsDigit(buf[s]), end |-> NumberEnds(i, s),
           val |-> IF IsDigit(buf[s]) THEN NumberOf(SubSeq(buf, s, NumberEnds(i, s) - 1))
                   ELSE 0]
  BY DEF Number
<1> HIDE DEF s, n
<1>3. NumRead(buf, i, s, n)
  BY <1>1, <1>2, NumReadAt
<1> QED
  BY <1>1, <1>3 DEF n

LEMMA NumberThere ==
    ASSUME Terminated, NEW i \in 1..Len(buf)
    PROVE  NumRead(buf, i, i, Number(i, FALSE))
<1> DEFINE n == Number(i, FALSE)
<1>1. n = [ok |-> IsDigit(buf[i]), end |-> NumberEnds(i, i),
           val |-> IF IsDigit(buf[i]) THEN NumberOf(SubSeq(buf, i, NumberEnds(i, i) - 1))
                   ELSE 0]
  BY DEF Number
<1> HIDE DEF n
<1>2. NumRead(buf, i, i, n)
  BY <1>1, NumReadAt
<1> QED
  BY <1>2 DEF n

-------------------------------------------------------------------------------
(* How far a request was read, and what time that gives                    *)

Num(m, s, e) == NumberOf(SubSeq(m, s, e - 1))

Started == [Now EXCEPT !.sec = 0]

\* Of the request at place a of the memory m: up to place i, the time t.
HourRead(m, a, i, t) ==
    \E s, p : /\ SkipsTo(m, a, s) /\ NumSpan(m, s, p) /\ m[p] = ":"
              /\ i = p + 1 /\ t = [Started EXCEPT !.hour = Num(m, s, p)]
MinuteRead(m, a, i, t) ==
    \E j, u, q : /\ HourRead(m, a, j, u) /\ NumSpan(m, j, q) /\ m[q] = ":"
                 /\ i = q + 1 /\ t = [u EXCEPT !.min = Num(m, j, q)]

ShortTime(m, a, e, t) ==
    \E j, u : /\ HourRead(m, a, j, u) /\ NumSpan(m, j, e) /\ m[e] = "sp"
              /\ t = [u EXCEPT !.min = Num(m, j, e)]
LongTime(m, a, e, t) ==
    \E j, u : /\ MinuteRead(m, a, j, u) /\ NumSpan(m, j, e) /\ m[e] = "sp"
              /\ t = [u EXCEPT !.sec = Num(m, j, e)]
TimeRead(m, a, e, t) == ShortTime(m, a, e, t) \/ LongTime(m, a, e, t)

DayRead(m, a, i, t) ==
    \E j, u, s, p : /\ TimeRead(m, a, j, u) /\ SkipsTo(m, j, s) /\ NumSpan(m, s, p)
                    /\ m[p] = "/" /\ i = p + 1 /\ t = [u EXCEPT !.mday = Num(m, s, p)]
DateRead(m, a, e, t) ==
    \E j, u : /\ DayRead(m, a, j, u) /\ NumSpan(m, j, e) /\ m[e] = "sp"
              /\ t = [u EXCEPT !.mon = Num(m, j, e) - 1]
YearRead(m, a, e, t) ==
    \E j, u, s : /\ DateRead(m, a, j, u) /\ SkipsTo(m, j, s) /\ NumSpan(m, s, e)
                 /\ m[e] = "sp" /\ t = [u EXCEPT !.year = Num(m, s, e) + 100]

LEMMA NotDigits == ~IsDigit(":") /\ ~IsDigit("/") /\ ~IsDigit("sp") /\ ~IsDigit("nul")
BY DigitIs

\* There is one way to read each of them.
LEMMA HourOnce ==
    ASSUME NEW m, Len(m) \in Nat, NEW a, NEW i, NEW t, NEW j, NEW u,
           HourRead(m, a, i, t), HourRead(m, a, j, u)
    PROVE  i = j /\ t = u
<1>1. PICK s, p : /\ SkipsTo(m, a, s) /\ NumSpan(m, s, p) /\ m[p] = ":"
                  /\ i = p + 1 /\ t = [Started EXCEPT !.hour = Num(m, s, p)]
  BY DEF HourRead
<1>2. PICK r, q : /\ SkipsTo(m, a, r) /\ NumSpan(m, r, q) /\ m[q] = ":"
                  /\ j = q + 1 /\ u = [Started EXCEPT !.hour = Num(m, r, q)]
  BY DEF HourRead
<1>3. s = r
  BY <1>1, <1>2, SkipsOnce
<1>4. p = q
  BY <1>1, <1>2, <1>3, NumOnce, NotDigits
<1> QED
  BY <1>1, <1>2, <1>3, <1>4

LEMMA MinuteOnce ==
    ASSUME NEW m, Len(m) \in Nat, NEW a, NEW i, NEW t, NEW j, NEW u,
           MinuteRead(m, a, i, t), MinuteRead(m, a, j, u)
    PROVE  i = j /\ t = u
<1>1. PICK k, v, p : /\ HourRead(m, a, k, v) /\ NumSpan(m, k, p) /\ m[p] = ":"
                     /\ i = p + 1 /\ t = [v EXCEPT !.min = Num(m, k, p)]
  BY DEF MinuteRead
<1>2. PICK l, w, q : /\ HourRead(m, a, l, w) /\ NumSpan(m, l, q) /\ m[q] = ":"
                     /\ j = q + 1 /\ u = [w EXCEPT !.min = Num(m, l, q)]
  BY DEF MinuteRead
<1>3. k = l /\ v = w
  BY <1>1, <1>2, HourOnce
<1>4. p = q
  BY <1>1, <1>2, <1>3, NumOnce, NotDigits
<1> QED
  BY <1>1, <1>2, <1>3, <1>4

LEMMA TimeOnce ==
    ASSUME NEW m, Len(m) \in Nat, NEW a, NEW i, NEW t, NEW j, NEW u,
           TimeRead(m, a, i, t), TimeRead(m, a, j, u)
    PROVE  i = j /\ t = u
<1>1. CASE ShortTime(m, a, i, t) /\ ShortTime(m, a, j, u)
  <2>1. PICK k, v : /\ HourRead(m, a, k, v) /\ NumSpan(m, k, i) /\ m[i] = "sp"
                    /\ t = [v EXCEPT !.min = Num(m, k, i)]
    BY <1>1 DEF ShortTime
  <2>2. PICK l, w : /\ HourRead(m, a, l, w) /\ NumSpan(m, l, j) /\ m[j] = "sp"
                    /\ u = [w EXCEPT !.min = Num(m, l, j)]
    BY <1>1 DEF ShortTime
  <2>3. k = l /\ v = w
    BY <2>1, <2>2, HourOnce
  <2>4. i = j
    BY <2>1, <2>2, <2>3, NumOnce, NotDigits
  <2> QED
    BY <2>1, <2>2, <2>3, <2>4
<1>2. CASE LongTime(m, a, i, t) /\ LongTime(m, a, j, u)
  <2>1. PICK k, v : /\ MinuteRead(m, a, k, v) /\ NumSpan(m, k, i) /\ m[i] = "sp"
                    /\ t = [v EXCEPT !.sec = Num(m, k, i)]
    BY <1>2 DEF LongTime
  <2>2. PICK l, w : /\ MinuteRead(m, a, l, w) /\ NumSpan(m, l, j) /\ m[j] = "sp"
                    /\ u = [w EXCEPT !.sec = Num(m, l, j)]
    BY <1>2 DEF LongTime
  <2>3. k = l /\ v = w
    BY <2>1, <2>2, MinuteOnce
  <2>4. i = j
    BY <2>1, <2>2, <2>3, NumOnce, NotDigits
  <2> QED
    BY <2>1, <2>2, <2>3, <2>4
<1>3. ASSUME NEW e, NEW v, NEW f, NEW w, ShortTime(m, a, e, v), LongTime(m, a, f, w)
      PROVE  FALSE
  <2>1. PICK k, x : HourRead(m, a, k, x) /\ NumSpan(m, k, e) /\ m[e] = "sp"
    BY <1>3 DEF ShortTime
  <2>2. PICK l, y, q : HourRead(m, a, l, y) /\ NumSpan(m, l, q) /\ m[q] = ":"
    BY <1>3 DEF LongTime, MinuteRead
  <2>3. k = l
    BY <2>1, <2>2, HourOnce
  <2>4. e = q
    BY <2>1, <2>2, <2>3, NumOnce, NotDigits
  <2> QED
    BY <2>1, <2>2, <2>4
<1> QED
  BY <1>1, <1>2, <1>3 DEF TimeRead

LEMMA DayOnce ==
    ASSUME NEW m, Len(m) \in Nat, NEW a, NEW i, NEW t, NEW j, NEW u,
           DayRead(m, a, i, t), DayRead(m, a, j, u)
    PROVE  i = j /\ t = u
<1>1. PICK k, v, s, p : /\ TimeRead(m, a, k, v) /\ SkipsTo(m, k, s) /\ NumSpan(m, s, p)
                        /\ m[p] = "/" /\ i = p + 1 /\ t = [v EXCEPT !.mday = Num(m, s, p)]
  BY DEF DayRead
<1>2. PICK l, w, r, q : /\ TimeRead(m, a, l, w) /\ SkipsTo(m, l, r) /\ NumSpan(m, r, q)
                        /\ m[q] = "/" /\ j = q + 1 /\ u = [w EXCEPT !.mday = Num(m, r, q)]
  BY DEF DayRead
<1>3. k = l /\ v = w
  BY <1>1, <1>2, TimeOnce
<1>4. s = r
  BY <1>1, <1>2, <1>3, SkipsOnce
<1>5. p = q
  BY <1>1, <1>2, <1>4, NumOnce, NotDigits
<1> QED
  BY <1>1, <1>2, <1>3, <1>4, <1>5

LEMMA DateOnce ==
    ASSUME NEW m, Len(m) \in Nat, NEW a, NEW i, NEW t, NEW j, NEW u,
           DateRead(m, a, i, t), DateRead(m, a, j, u)
    PROVE  i = j /\ t = u
<1>1. PICK k, v : /\ DayRead(m, a, k, v) /\ NumSpan(m, k, i) /\ m[i] = "sp"
                  /\ t = [v EXCEPT !.mon = Num(m, k, i) - 1]
  BY DEF DateRead
<1>2. PICK l, w : /\ DayRead(m, a, l, w) /\ NumSpan(m, l, j) /\ m[j] = "sp"
                  /\ u = [w EXCEPT !.mon = Num(m, l, j) - 1]
  BY DEF DateRead
<1>3. k = l /\ v = w
  BY <1>1, <1>2, DayOnce
<1>4. i = j
  BY <1>1, <1>2, <1>3, NumOnce, NotDigits
<1> QED
  BY <1>1, <1>2, <1>3, <1>4

LEMMA YearOnce ==
    ASSUME NEW m, Len(m) \in Nat, NEW a, NEW i, NEW t, NEW j, NEW u,
           YearRead(m, a, i, t), YearRead(m, a, j, u)
    PROVE  i = j /\ t = u
<1>1. PICK k, v, s : /\ DateRead(m, a, k, v) /\ SkipsTo(m, k, s) /\ NumSpan(m, s, i)
                     /\ m[i] = "sp" /\ t = [v EXCEPT !.year = Num(m, s, i) + 100]
  BY DEF YearRead
<1>2. PICK l, w, r : /\ DateRead(m, a, l, w) /\ SkipsTo(m, l, r) /\ NumSpan(m, r, j)
                     /\ m[j] = "sp" /\ u = [w EXCEPT !.year = Num(m, r, j) + 100]
  BY DEF YearRead
<1>3. k = l /\ v = w
  BY <1>1, <1>2, DateOnce
<1>4. s = r
  BY <1>1, <1>2, <1>3, SkipsOnce
<1>5. i = j
  BY <1>1, <1>2, <1>4, NumOnce, NotDigits
<1> QED
  BY <1>1, <1>2, <1>3, <1>4, <1>5

\* What follows a space begins where what the space begins does.
LEMMA SkipSpace ==
    ASSUME NEW m, Memory(m), NEW j, NEW s, m[j] = "sp"
    PROVE  /\ SkipsTo(m, j, s) => SkipsTo(m, j + 1, s)
           /\ SkipsTo(m, j + 1, s) /\ j \in 1..Len(m) => SkipsTo(m, j, s)
<1>1. Len(m) \in Nat /\ "sp" \in Blank
  BY NulNotBlank DEF Memory
<1>2. ASSUME SkipsTo(m, j, s) PROVE SkipsTo(m, j + 1, s)
  <2>1. /\ j \in 1..Len(m) /\ s \in j..Len(m) /\ m[s] \notin Blank
        /\ \A k \in j..(s - 1) : m[k] \in Blank
    BY <1>2 DEF SkipsTo
  <2>2. s # j
    BY <1>1, <2>1
  <2>3. j + 1 \in 1..Len(m) /\ s \in (j + 1)..Len(m)
    BY <1>1, <2>1, <2>2
  <2>4. \A k \in (j + 1)..(s - 1) : k \in j..(s - 1)
    BY <2>1
  <2> QED
    BY <2>1, <2>3, <2>4 DEF SkipsTo
<1>3. ASSUME SkipsTo(m, j + 1, s), j \in 1..Len(m) PROVE SkipsTo(m, j, s)
  <2>1. /\ s \in (j + 1)..Len(m) /\ m[s] \notin Blank
        /\ \A k \in (j + 1)..(s - 1) : m[k] \in Blank
    BY <1>3 DEF SkipsTo
  <2>2. s \in j..Len(m) /\ \A k \in j..(s - 1) : k = j \/ k \in (j + 1)..(s - 1)
    BY <1>1, <1>3, <2>1
  <2>3. \A k \in j..(s - 1) : m[k] \in Blank
    BY <1>1, <2>1, <2>2
  <2> QED
    BY <1>3, <2>1, <2>2, <2>3 DEF SkipsTo
<1> QED
  BY <1>2, <1>3

\* A number after the space at place j: the text there begins with a digit.
LEMMA NumberBegins ==
    ASSUME NEW m, Memory(m), NEW j, NEW s, m[j] = "sp", SkipsTo(m, j, s), IsDigit(m[s])
    PROVE  BeginsWithDigit(CStrOf(m, j + 1))
<1>1. SkipsTo(m, j + 1, s)
  BY SkipSpace
<1> QED
  BY <1>1, DigitFirst

LEMMA SpanDigit ==
    ASSUME NEW m, NEW s, NEW e, Len(m) \in Nat, NumSpan(m, s, e)
    PROVE  IsDigit(m[s]) /\ s \in 1..Len(m) /\ e \in 1..Len(m) /\ s < e
<1>1. /\ s \in 1..Len(m) /\ e \in (s + 1)..Len(m)
      /\ \A k \in s..(e - 1) : IsDigit(m[k])
  BY DEF NumSpan
<1>2. s \in s..(e - 1) /\ e \in 1..Len(m) /\ s < e
  BY <1>1
<1> QED
  BY <1>1, <1>2

-------------------------------------------------------------------------------
(* What each step of parse_date() makes of what is read                    *)

AnyRead(m, a, e, t) == TimeRead(m, a, e, t) \/ DateRead(m, a, e, t) \/ YearRead(m, a, e, t)

\* Followed by a text that does not begin with a digit, in a year that is taken.
PlainRead(m, a, e, t) ==
    /\ AnyRead(m, a, e, t)
    /\ m[e + 1] # "nul"
    /\ ~BeginsWithDigit(CStrOf(m, e + 1))
    /\ t.year < 138
NotPlain(m, a) == \A e, t : ~PlainRead(m, a, e, t)

\* With its cursor at place i, parse_date() has the time u.
GotRead(m, a, i, u) ==
    /\ m[i] = "sp" => AnyRead(m, a, i, u)
    /\ \A e, t : PlainRead(m, a, e, t) => e = i /\ t = u

LEMMA NumTaken ==
    ASSUME NEW m, Len(m) \in Nat, NEW i, NEW s, NEW n, NumRead(m, i, s, n),
           NEW e, NumSpan(m, s, e), ~IsDigit(m[e])
    PROVE  n.ok /\ e = n.end /\ Num(m, s, e) = n.val
<1>1. IsDigit(m[s])
  BY SpanDigit
<1>2. n.ok /\ e = n.end /\ n.val = NumberOf(SubSeq(m, s, n.end - 1))
  BY <1>1 DEF NumRead
<1> QED
  BY <1>2 DEF Num

LEMMA NumGiven ==
    ASSUME NEW m, NEW i, NEW s, NEW n, NumRead(m, i, s, n), n.ok
    PROVE  NumSpan(m, s, n.end) /\ Num(m, s, n.end) = n.val /\ IsDigit(m[s])
BY DEF NumRead, Num

LEMMA TimeParts ==
    ASSUME NEW m, NEW a, NEW e, NEW t, AnyRead(m, a, e, t)
    PROVE  /\ \E j, u : TimeRead(m, a, j, u)
           /\ \E k, v, q : /\ HourRead(m, a, k, v) /\ NumSpan(m, k, q)
                           /\ m[q] = "sp" \/ m[q] = ":"
<1>1. PICK j, u : TimeRead(m, a, j, u)
  BY DEF AnyRead, DateRead, YearRead, DayRead
<1>2. \E k, v, q : HourRead(m, a, k, v) /\ NumSpan(m, k, q) /\ (m[q] = "sp" \/ m[q] = ":")
  <2>1. CASE ShortTime(m, a, j, u)
    BY <2>1 DEF ShortTime
  <2>2. CASE LongTime(m, a, j, u)
    BY <2>2 DEF LongTime, MinuteRead
  <2> QED
    BY <1>1, <2>1, <2>2 DEF TimeRead
<1> QED
  BY <1>1, <1>2

LEMMA DayParts ==
    ASSUME NEW m, NEW a, NEW e, NEW t, AnyRead(m, a, e, t), ~TimeRead(m, a, e, t)
    PROVE  \E j, u : DateRead(m, a, j, u)
BY DEF AnyRead, YearRead

\* A time that a number follows is not followed by a text.
LEMMA DayIsNoText ==
    ASSUME NEW m, Memory(m), NEW a, NEW j, NEW u, NEW s, TimeRead(m, a, j, u),
           SkipsTo(m, j, s), IsDigit(m[s]), NEW e, NEW t, TimeRead(m, a, e, t)
    PROVE  BeginsWithDigit(CStrOf(m, e + 1))
<1>1. Len(m) \in Nat
  BY DEF Memory
<1>2. e = j
  BY <1>1, TimeOnce
<1>3. m[j] = "sp"
  BY DEF TimeRead, ShortTime, LongTime
<1> QED
  BY <1>2, <1>3, NumberBegins

LEMMA HourStep ==
    ASSUME NEW m, Memory(m), NEW a, NEW s, SkipsTo(m, a, s), NEW n, NumRead(m, a, s, n)
    PROVE  IF n.ok /\ m[n.end] = ":"
           THEN HourRead(m, a, n.end + 1, [Started EXCEPT !.hour = n.val])
           ELSE NotPlain(m, a)
<1>1. Len(m) \in Nat
  BY DEF Memory
<1>2. ASSUME n.ok, m[n.end] = ":"
      PROVE  HourRead(m, a, n.end + 1, [Started EXCEPT !.hour = n.val])
  BY <1>2, NumGiven DEF HourRead
<1>3. ASSUME NEW e, NEW t, PlainRead(m, a, e, t) PROVE n.ok /\ m[n.end] = ":"
  <2>1. PICK k, v : HourRead(m, a, k, v)
    BY <1>3, TimeParts DEF PlainRead
  <2>2. PICK r, p : SkipsTo(m, a, r) /\ NumSpan(m, r, p) /\ m[p] = ":"
    BY <2>1 DEF HourRead
  <2>3. r = s
    BY <1>1, <2>2, SkipsOnce
  <2>4. n.ok /\ p = n.end
    BY <1>1, <2>2, <2>3, NumTaken, NotDigits
  <2> QED
    BY <2>2, <2>4
<1> QED
  BY <1>2, <1>3 DEF NotPlain

LEMMA MinuteStep ==
    ASSUME NEW m, Memory(m), NEW a, NEW i, NEW u, HourRead(m, a, i, u),
           NEW n, NumRead(m, i, i, n), NEW v, v = [u EXCEPT !.min = n.val]
    PROVE  /\ ~n.ok => NotPlain(m, a)
           /\ n.ok /\ m[n.end] = ":" => MinuteRead(m, a, n.end + 1, v)
           /\ n.ok /\ m[n.end] = "sp" => TimeRead(m, a, n.end, v)
           /\ n.ok /\ m[n.end] \notin {":", "sp"} => GotRead(m, a, n.end, v)
<1>1. Len(m) \in Nat
  BY DEF Memory
<1>2. ASSUME NEW e, NEW t, PlainRead(m, a, e, t)
      PROVE  n.ok /\ m[n.end] \in {":", "sp"}
  <2>1. PICK k, w, q : /\ HourRead(m, a, k, w) /\ NumSpan(m, k, q)
                       /\ m[q] = "sp" \/ m[q] = ":"
    BY <1>2, TimeParts DEF PlainRead
  <2>2. k = i
    BY <1>1, <2>1, HourOnce
  <2>3. n.ok /\ q = n.end
    BY <1>1, <2>1, <2>2, NumTaken, NotDigits
  <2> QED
    BY <2>1, <2>3
<1>3. ASSUME n.ok, m[n.end] = ":" PROVE MinuteRead(m, a, n.end + 1, v)
  BY <1>3, NumGiven DEF MinuteRead
<1>4. ASSUME n.ok, m[n.end] = "sp" PROVE TimeRead(m, a, n.end, v)
  BY <1>4, NumGiven DEF TimeRead, ShortTime
<1>5. ASSUME n.ok, m[n.end] \notin {":", "sp"} PROVE GotRead(m, a, n.end, v)
  BY <1>2, <1>5 DEF GotRead
<1> QED
  BY <1>2, <1>3, <1>4, <1>5 DEF NotPlain

LEMMA SecondStep ==
    ASSUME NEW m, Memory(m), NEW a, NEW i, NEW u, MinuteRead(m, a, i, u),
           NEW n, NumRead(m, i, i, n), NEW v, v = [u EXCEPT !.sec = n.val]
    PROVE  /\ ~n.ok => NotPlain(m, a)
           /\ n.ok /\ m[n.end] = "sp" => TimeRead(m, a, n.end, v)
           /\ n.ok /\ m[n.end] # "sp" => GotRead(m, a, n.end, v)
<1>1. Len(m) \in Nat
  BY DEF Memory
<1>2. ASSUME NEW e, NEW t, PlainRead(m, a, e, t)
      PROVE  n.ok /\ m[n.end] = "sp"
  <2>1. PICK j, w : TimeRead(m, a, j, w)
    BY <1>2, TimeParts DEF PlainRead
  <2>2. LongTime(m, a, j, w)
    <3>1. CASE ShortTime(m, a, j, w)
      <4>1. PICK k, x : HourRead(m, a, k, x) /\ NumSpan(m, k, j) /\ m[j] = "sp"
        BY <3>1 DEF ShortTime
      <4>2. PICK l, y, q : HourRead(m, a, l, y) /\ NumSpan(m, l, q) /\ m[q] = ":"
        BY DEF MinuteRead
      <4>3. k = l
        BY <1>1, <4>1, <4>2, HourOnce
      <4>4. j = q
        BY <1>1, <4>1, <4>2, <4>3, NumOnce, NotDigits
      <4> QED
        BY <4>1, <4>2, <4>4
    <3> QED
      BY <2>1, <3>1 DEF TimeRead
  <2>3. PICK k, x : MinuteRead(m, a, k, x) /\ NumSpan(m, k, j) /\ m[j] = "sp"
    BY <2>2 DEF LongTime
  <2>4. k = i
    BY <1>1, <2>3, MinuteOnce
  <2>5. n.ok /\ j = n.end
    BY <1>1, <2>3, <2>4, NumTaken, NotDigits
  <2> QED
    BY <2>3, <2>5
<1>3. ASSUME n.ok, m[n.end] = "sp" PROVE TimeRead(m, a, n.end, v)
  BY <1>3, NumGiven DEF TimeRead, LongTime
<1>4. ASSUME n.ok, m[n.end] # "sp" PROVE GotRead(m, a, n.end, v)
  BY <1>2, <1>4 DEF GotRead
<1> QED
  BY <1>2, <1>3, <1>4 DEF NotPlain

LEMMA DayStep ==
    ASSUME NEW m, Memory(m), NEW a, NEW i, NEW u, TimeRead(m, a, i, u),
           NEW s, SkipsTo(m, i, s), NEW n, NumRead(m, i, s, n),
           NEW v, v = [u EXCEPT !.mday = n.val]
    PROVE  /\ ~n.ok => GotRead(m, a, n.end, u)
           /\ n.ok /\ m[n.end] = "/" => DayRead(m, a, n.end + 1, v)
           /\ n.ok /\ m[n.end] # "/" => NotPlain(m, a)
<1>1. Len(m) \in Nat
  BY DEF Memory
<1>2. ASSUME NEW e, NEW t, PlainRead(m, a, e, t), ~TimeRead(m, a, e, t)
      PROVE  n.ok /\ m[n.end] = "/"
  <2>1. PICK j, w : DateRead(m, a, j, w)
    BY <1>2, DayParts DEF PlainRead
  <2>2. PICK k, x, r, p : /\ TimeRead(m, a, k, x) /\ SkipsTo(m, k, r)
                          /\ NumSpan(m, r, p) /\ m[p] = "/"
    BY <2>1 DEF DateRead, DayRead
  <2>3. k = i
    BY <1>1, <2>2, TimeOnce
  <2>4. r = s
    BY <1>1, <2>2, <2>3, SkipsOnce
  <2>5. n.ok /\ p = n.end
    BY <1>1, <2>2, <2>4, NumTaken, NotDigits
  <2> QED
    BY <2>2, <2>5
<1>3. ASSUME ~n.ok PROVE GotRead(m, a, n.end, u)
  <2>1. n.end = i
    BY <1>3 DEF NumRead
  <2>2. ASSUME NEW e, NEW t, PlainRead(m, a, e, t) PROVE e = i /\ t = u
    <3>1. TimeRead(m, a, e, t)
      BY <1>2, <1>3, <2>2
    <3> QED
      BY <1>1, <3>1, TimeOnce
  <2> QED
    BY <2>1, <2>2 DEF GotRead, AnyRead
<1>4. ASSUME n.ok, m[n.end] = "/" PROVE DayRead(m, a, n.end + 1, v)
  BY <1>4, NumGiven DEF DayRead
<1>5. ASSUME n.ok, m[n.end] # "/", NEW e, NEW t, PlainRead(m, a, e, t) PROVE FALSE
  <2>1. TimeRead(m, a, e, t) /\ ~BeginsWithDigit(CStrOf(m, e + 1))
    BY <1>2, <1>5 DEF PlainRead
  <2>2. IsDigit(m[s])
    BY <1>5, NumGiven
  <2> QED
    BY <2>1, <2>2, DayIsNoText
<1> QED
  BY <1>3, <1>4, <1>5 DEF NotPlain

LEMMA MonthStep ==
    ASSUME NEW m, Memory(m), NEW a, NEW i, NEW u, DayRead(m, a, i, u),
           NEW n, NumRead(m, i, i, n), NEW v, v = [u EXCEPT !.mon = n.val - 1]
    PROVE  /\ ~n.ok => NotPlain(m, a)
           /\ n.ok /\ m[n.end] = "sp" => DateRead(m, a, n.end, v)
           /\ n.ok /\ m[n.end] # "sp" => GotRead(m, a, n.end, v)
<1>1. Len(m) \in Nat
  BY DEF Memory
<1>2. ASSUME NEW e, NEW t, PlainRead(m, a, e, t)
      PROVE  n.ok /\ m[n.end] = "sp"
  <2>1. ~TimeRead(m, a, e, t)
    <3>1. PICK j, w, s, p : TimeRead(m, a, j, w) /\ SkipsTo(m, j, s) /\ NumSpan(m, s, p)
      BY DEF DayRead
    <3>2. IsDigit(m[s])
      BY <1>1, <3>1, SpanDigit
    <3>3. TimeRead(m, a, e, t) => BeginsWithDigit(CStrOf(m, e + 1))
      BY <3>1, <3>2, DayIsNoText
    <3> QED
      BY <1>2, <3>3 DEF PlainRead
  <2>2. PICK j, w : DateRead(m, a, j, w)
    BY <1>2, <2>1, DayParts DEF PlainRead
  <2>3. PICK k, x : DayRead(m, a, k, x) /\ NumSpan(m, k, j) /\ m[j] = "sp"
    BY <2>2 DEF DateRead
  <2>4. k = i
    BY <1>1, <2>3, DayOnce
  <2>5. n.ok /\ j = n.end
    BY <1>1, <2>3, <2>4, NumTaken, NotDigits
  <2> QED
    BY <2>3, <2>5
<1>3. ASSUME n.ok, m[n.end] = "sp" PROVE DateRead(m, a, n.end, v)
  BY <1>3, NumGiven DEF DateRead
<1>4. ASSUME n.ok, m[n.end] # "sp" PROVE GotRead(m, a, n.end, v)
  BY <1>2, <1>4 DEF GotRead
<1> QED
  BY <1>2, <1>3, <1>4 DEF NotPlain

\* A year after 2037 is not taken.
LEMMA YearStep ==
    ASSUME NEW m, Memory(m), NEW a, NEW i, NEW u \in Tm, DateRead(m, a, i, u),
           NEW s, SkipsTo(m, i, s), NEW n, NumRead(m, i, s, n), n.val \in Nat,
           NEW v, v = [u EXCEPT !.year = n.val + 100]
    PROVE  /\ ~n.ok => GotRead(m, a, n.end, u)
           /\ n.ok /\ n.val < 38 => GotRead(m, a, n.end, v)
           /\ n.ok /\ n.val >= 38 => NotPlain(m, a)
<1>1. Len(m) \in Nat
  BY DEF Memory
<1>2. ASSUME NEW e, NEW t, YearRead(m, a, e, t)
      PROVE  n.ok /\ e = n.end /\ t = v /\ m[n.end] = "sp"
  <2>1. PICK k, x, r : /\ DateRead(m, a, k, x) /\ SkipsTo(m, k, r) /\ NumSpan(m, r, e)
                       /\ m[e] = "sp" /\ t = [x EXCEPT !.year = Num(m, r, e) + 100]
    BY <1>2 DEF YearRead
  <2>2. k = i /\ x = u
    BY <1>1, <2>1, DateOnce
  <2>3. r = s
    BY <1>1, <2>1, <2>2, SkipsOnce
  <2>4. n.ok /\ e = n.end /\ Num(m, s, e) = n.val
    BY <1>1, <2>1, <2>3, NumTaken, NotDigits
  <2> QED
    BY <2>1, <2>2, <2>3, <2>4
<1>3. ASSUME NEW e, NEW t, PlainRead(m, a, e, t)
      PROVE  DateRead(m, a, e, t) \/ YearRead(m, a, e, t)
  <2>1. PICK k, x, r, p : TimeRead(m, a, k, x) /\ SkipsTo(m, k, r) /\ NumSpan(m, r, p)
    BY DEF DateRead, DayRead
  <2>2. IsDigit(m[r])
    BY <1>1, <2>1, SpanDigit
  <2>3. TimeRead(m, a, e, t) => BeginsWithDigit(CStrOf(m, e + 1))
    BY <2>1, <2>2, DayIsNoText
  <2> QED
    BY <1>3, <2>3 DEF PlainRead, AnyRead
<1>4. ASSUME NEW e, NEW t, DateRead(m, a, e, t) PROVE e = i /\ t = u
  BY <1>1, <1>4, DateOnce
<1>5. m[i] = "sp"
  BY DEF DateRead
<1>6. ASSUME ~n.ok PROVE GotRead(m, a, n.end, u)
  <2>1. n.end = i
    BY <1>6 DEF NumRead
  <2> QED
    BY <1>2, <1>3, <1>4, <1>6, <2>1 DEF GotRead, AnyRead
<1>7. ASSUME n.ok, NEW e, NEW t, PlainRead(m, a, e, t) PROVE YearRead(m, a, e, t)
  <2>1. ASSUME DateRead(m, a, e, t) PROVE FALSE
    <3>1. e = i
      BY <1>4, <2>1
    <3>2. IsDigit(m[s])
      BY <1>7, NumGiven
    <3>3. BeginsWithDigit(CStrOf(m, e + 1))
      BY <1>5, <3>1, <3>2, NumberBegins
    <3> QED
      BY <1>7, <3>3 DEF PlainRead
  <2> QED
    BY <1>3, <1>7, <2>1
<1>8. ASSUME n.ok PROVE GotRead(m, a, n.end, v)
  <2>1. ASSUME m[n.end] = "sp" PROVE YearRead(m, a, n.end, v)
    BY <1>8, <2>1, NumGiven DEF YearRead
  <2> QED
    BY <1>2, <1>7, <1>8, <2>1 DEF GotRead, AnyRead
<1>9. ASSUME n.ok, n.val >= 38, NEW e, NEW t, PlainRead(m, a, e, t) PROVE FALSE
  <2>1. t = v /\ t.year < 138
    BY <1>2, <1>7, <1>9 DEF PlainRead
  <2>2. v.year = n.val + 100
    BY DEF Tm
  <2> QED
    BY <1>9, <2>1, <2>2
<1> QED
  BY <1>6, <1>8, <1>9 DEF NotPlain

-------------------------------------------------------------------------------
(* Times, dates and years as words                                         *)

\* A number that tok follows, and what comes after tok.
IsPair(m, s, p, e, tok) ==
    LET w == SubSeq(m, s, e - 1)
    IN  /\ Before(w, tok) = SubSeq(m, s, p - 1)
        /\ After(w, tok) = SubSeq(m, p + 1, e - 1)
        /\ Places(w, tok) # {}
        /\ IsNumber(Before(w, tok))

LEMMA PairIs ==
    ASSUME NEW m \in Seq(Token), NEW s, NEW p, NEW e \in (p + 1)..Len(m), NEW tok,
           ~IsDigit(tok), NumSpan(m, s, p), m[p] = tok
    PROVE  IsPair(m, s, p, e, tok)
<1> DEFINE w == SubSeq(m, s, e - 1)
<1>1. /\ Len(m) \in Nat /\ s \in 1..Len(m) /\ p \in (s + 1)..Len(m)
      /\ \A k \in s..(p - 1) : IsDigit(m[k])
  BY DEF NumSpan
<1> DEFINE b == e - 1
<1>2. /\ s \in 1..(Len(m) + 1) /\ b \in (s - 1)..Len(m) /\ p \in s..(b + 1) /\ p <= b
      /\ p # b + 1
  BY <1>1
<1>3. \A k \in s..(p - 1) : m[k] # tok
  BY <1>1
<1> HIDE DEF b
<1>4. CutAt(m, s, b, tok, p)
  BY <1>2, <1>3, SliceAt
<1>5. /\ Before(w, tok) = SubSeq(m, s, p - 1)
      /\ After(w, tok) = SubSeq(m, p + 1, b)
      /\ Places(w, tok) # {}
  BY <1>2, <1>4 DEF CutAt, b
<1>6. p \in s..Len(m)
  BY <1>1
<1>7. IsNumber(SubSeq(m, s, p - 1))
  BY <1>1, <1>6, NumSlice
<1> QED
  BY <1>5, <1>7 DEF b, IsPair

\* A number that nothing follows.
IsLone(m, s, e, tok) ==
    LET w == SubSeq(m, s, e - 1)
    IN  Before(w, tok) = w /\ Places(w, tok) = {} /\ IsNumber(w)

LEMMA LoneIs ==
    ASSUME NEW m \in Seq(Token), NEW s, NEW e, NEW tok, ~IsDigit(tok), NumSpan(m, s, e)
    PROVE  IsLone(m, s, e, tok)
<1> DEFINE w == SubSeq(m, s, e - 1)
<1>1. /\ Len(m) \in Nat /\ s \in 1..Len(m) /\ e \in (s + 1)..Len(m)
      /\ \A k \in s..(e - 1) : IsDigit(m[k])
  BY DEF NumSpan
<1> DEFINE b == e - 1
<1>2. /\ s \in 1..(Len(m) + 1) /\ b \in (s - 1)..Len(m) /\ e \in s..(b + 1) /\ ~(e <= b)
      /\ e = b + 1
  BY <1>1
<1>3. \A k \in s..(e - 1) : m[k] # tok
  BY <1>1
<1> HIDE DEF b
<1>4. CutAt(m, s, b, tok, e)
  BY <1>2, <1>3, SliceAt
<1>5. Before(w, tok) = w /\ Places(w, tok) = {}
  BY <1>2, <1>4 DEF CutAt, b
<1>6. e \in s..Len(m)
  BY <1>1
<1>7. IsNumber(SubSeq(m, s, e - 1))
  BY <1>1, <1>6, NumSlice
<1> QED
  BY <1>5, <1>7 DEF IsLone

\* Nothing is no number, nor is what comes before tok in it.
LEMMA NothingIsNoNumber ==
    ASSUME NEW w \in Seq(Token), Len(w) = 0, NEW tok
    PROVE  ~IsNumber(w) /\ ~IsNumber(Before(w, tok))
<1>1. FirstPlace(w, tok) = 1
  <2>1. FirstPlace(w, tok) \in 1..(Len(w) + 1)
    BY PlaceFacts
  <2> QED
    BY <2>1
<1> DEFINE a == 1
           b == 0
<1>2. a \in 1..(Len(w) + 1) /\ b \in (a - 1)..Len(w) /\ (b - a) + 1 = 0
  OBVIOUS
<1>3. Before(w, tok) = SubSeq(w, a, b)
  BY <1>1 DEF Before
<1> HIDE DEF a, b
<1>4. Len(Before(w, tok)) = 0
  BY <1>2, <1>3, SliceFacts
<1> QED
  BY <1>4 DEF IsNumber

\* A number at place s, and tok or the end at place p.
HasPair(m, s, p, e, tok) ==
    LET w == SubSeq(m, s, e - 1)
    IN  /\ NumSpan(m, s, p)
        /\ \/ p \in s..(e - 1) /\ m[p] = tok
           \/ /\ p = e /\ Places(w, tok) = {}
              /\ After(w, tok) \in Seq(Token) /\ Len(After(w, tok)) = 0

LEMMA PairHas ==
    ASSUME NEW m \in Seq(Token), NEW s \in 1..Len(m), NEW e \in s..Len(m), NEW tok,
           IsNumber(Before(SubSeq(m, s, e - 1), tok))
    PROVE  \E p : HasPair(m, s, p, e, tok)
<1> DEFINE w == SubSeq(m, s, e - 1)
<1>1. Len(m) \in Nat /\ s \in Nat /\ e \in Nat
  OBVIOUS
<1> DEFINE P == {k \in s..e : k = e \/ m[k] = tok}
<1>2. e \in s..e /\ e \in P
  BY <1>1
<1> HIDE DEF P
<1>3. PICK p \in s..e : p \in P /\ \A k \in s..(p - 1) : k \notin P
  BY <1>1, <1>2, FirstOne
<1>4. \A k \in s..(p - 1) : k \in s..e
  BY <1>1
<1>5. (p = e \/ m[p] = tok) /\ \A k \in s..(p - 1) : m[k] # tok
  BY <1>3, <1>4 DEF P
<1> DEFINE b == e - 1
<1>6. /\ s \in 1..(Len(m) + 1) /\ b \in (s - 1)..Len(m) /\ p \in s..(b + 1)
      /\ p <= b <=> p # e
      /\ p = b + 1 <=> p = e
  BY <1>1
<1> HIDE DEF b
<1>7. CutAt(m, s, b, tok, p)
  BY <1>5, <1>6, SliceAt
<1>8. /\ Before(w, tok) = SubSeq(m, s, p - 1)
      /\ Places(w, tok) = {} <=> p = e
  BY <1>6, <1>7 DEF CutAt, b
<1>9. p \in s..Len(m)
  BY <1>1
<1>10. NumSpan(m, s, p)
  BY <1>8, <1>9, NumSlice
<1>11. CASE p # e
  <2>1. p \in s..(e - 1)
    BY <1>1, <1>11
  <2> QED
    BY <1>5, <1>10, <1>11, <2>1 DEF HasPair
<1>12. CASE p = e
  <2>1. w \in Seq(Token) /\ Len(w) \in Nat
    BY <1>6, SliceFacts DEF b
  <2>2. FirstPlace(w, tok) = Len(w) + 1
    BY <1>8, <1>12, <2>1, PlaceFacts
  <2> DEFINE x == Len(w) + 2
             y == Len(w)
  <2>3. After(w, tok) = SubSeq(w, x, y)
    BY <2>1, <2>2 DEF After
  <2>4. x \in Int /\ y \in Int /\ ~(x <= y) /\ \A i \in x..y : w[i] \in Token
    BY <2>1
  <2> HIDE DEF x, y
  <2>5. SubSeq(w, x, y) \in Seq(Token) /\ Len(SubSeq(w, x, y)) = 0
    BY <2>4, SubSeqProperties
  <2> QED
    BY <1>8, <1>10, <1>12, <2>3, <2>5 DEF HasPair
<1> QED
  BY <1>11, <1>12

TwoNumbers(m, s, p, e, tok) == NumSpan(m, s, p) /\ m[p] = tok /\ NumSpan(m, p + 1, e)

\* The date, the short and the long time that the numbers make.
AsDate(m, s, p, e, u) ==
    LET w == SubSeq(m, s, e - 1)
    IN  /\ IsDate(w)
        /\ WithDate(u, w) = [[u EXCEPT !.mday = Num(m, s, p)]
                                EXCEPT !.mon = Num(m, p + 1, e) - 1]
AsShortTime(m, s, p, e) ==
    LET w == SubSeq(m, s, e - 1)
    IN  /\ IsTime(w)
        /\ WithTime(Now, w) = [[Started EXCEPT !.hour = Num(m, s, p)]
                                  EXCEPT !.min = Num(m, p + 1, e)]
AsLongTime(m, s, p, q, e) ==
    LET w == SubSeq(m, s, e - 1)
    IN  /\ IsTime(w)
        /\ WithTime(Now, w) = [[[Started EXCEPT !.hour = Num(m, s, p)]
                                  EXCEPT !.min = Num(m, p + 1, q)]
                                  EXCEPT !.sec = Num(m, q + 1, e)]

LEMMA DateIs ==
    ASSUME NEW m \in Seq(Token), NEW s, NEW p, NEW e, TwoNumbers(m, s, p, e, "/"), NEW u
    PROVE  AsDate(m, s, p, e, u)
<1> DEFINE w == SubSeq(m, s, e - 1)
<1>1. /\ NumSpan(m, s, p) /\ m[p] = "/" /\ NumSpan(m, p + 1, e) /\ ~IsDigit("/")
  BY NotDigits DEF TwoNumbers
<1>2. Len(m) \in Nat /\ p \in Nat /\ e \in (p + 1)..Len(m)
  BY <1>1 DEF NumSpan
<1>3. IsPair(m, s, p, e, "/") /\ IsLone(m, p + 1, e, "/")
  BY <1>1, <1>2, PairIs, LoneIs
<1>4. /\ Before(w, "/") = SubSeq(m, s, p - 1) /\ IsNumber(Before(w, "/"))
      /\ After(w, "/") = SubSeq(m, p + 1, e - 1) /\ IsNumber(After(w, "/"))
  BY <1>3 DEF IsPair, IsLone
<1> QED
  BY <1>4 DEF IsDate, WithDate, Num, AsDate

LEMMA DateHas ==
    ASSUME NEW m \in Seq(Token), NEW s \in 1..Len(m), NEW e \in s..Len(m),
           IsDate(SubSeq(m, s, e - 1))
    PROVE  \E p : TwoNumbers(m, s, p, e, "/")
<1> DEFINE w == SubSeq(m, s, e - 1)
<1>1. IsNumber(Before(w, "/")) /\ IsNumber(After(w, "/"))
  BY DEF IsDate
<1>2. Len(m) \in Nat
  OBVIOUS
<1> HIDE DEF w
<1>3. PICK p : HasPair(m, s, p, e, "/")
  BY <1>1, PairHas DEF w
<1>4. /\ NumSpan(m, s, p)
      /\ \/ p \in s..(e - 1) /\ m[p] = "/"
         \/ After(w, "/") \in Seq(Token) /\ Len(After(w, "/")) = 0
  BY <1>3 DEF HasPair, w
<1>5. p \in s..(e - 1) /\ m[p] = "/"
  BY <1>1, <1>4, NothingIsNoNumber
<1>6. p \in Nat /\ e \in (p + 1)..Len(m) /\ p + 1 \in 1..Len(m) /\ e \in Nat
  BY <1>2, <1>5
<1>7. After(w, "/") = SubSeq(m, p + 1, e - 1)
  <2>1. IsPair(m, s, p, e, "/")
    BY <1>4, <1>5, <1>6, PairIs, NotDigits
  <2> QED
    BY <2>1 DEF IsPair, w
<1>8. NumSpan(m, p + 1, e)
  <2> DEFINE q == p + 1
  <2>1. q \in 1..Len(m) /\ e \in q..Len(m) /\ IsNumber(SubSeq(m, q, e - 1))
    BY <1>1, <1>6, <1>7
  <2> HIDE DEF q
  <2>2. NumSpan(m, q, e)
    BY <2>1, NumSlice
  <2> QED
    BY <2>2 DEF q
<1> QED
  BY <1>4, <1>5, <1>8 DEF TwoNumbers

LEMMA ShortIs ==
    ASSUME NEW m \in Seq(Token), NEW s, NEW p, NEW e, TwoNumbers(m, s, p, e, ":")
    PROVE  AsShortTime(m, s, p, e)
<1> DEFINE w == SubSeq(m, s, e - 1)
<1>1. /\ NumSpan(m, s, p) /\ m[p] = ":" /\ NumSpan(m, p + 1, e) /\ ~IsDigit(":")
  BY NotDigits DEF TwoNumbers
<1>2. Len(m) \in Nat /\ p \in Nat /\ e \in (p + 1)..Len(m)
  BY <1>1 DEF NumSpan
<1>3. IsPair(m, s, p, e, ":") /\ IsLone(m, p + 1, e, ":")
  BY <1>1, <1>2, PairIs, LoneIs
<1>4. /\ Before(w, ":") = SubSeq(m, s, p - 1) /\ IsNumber(Before(w, ":"))
      /\ MinSec(w) = SubSeq(m, p + 1, e - 1)
  BY <1>3 DEF MinSec, IsPair
<1>5. /\ Before(MinSec(w), ":") = SubSeq(m, p + 1, e - 1) /\ IsNumber(MinSec(w))
      /\ ~HasSec(w)
  BY <1>4, <1>3 DEF HasSec, IsLone
<1>6. IsTime(w)
  BY <1>4, <1>5 DEF IsTime
<1> DEFINE h == Num(m, s, p)
           n == Num(m, p + 1, e)
<1>7. WithTime(Now, w) = [Now EXCEPT !.hour = h, !.min = n, !.sec = 0]
  BY <1>4, <1>5 DEF WithTime, Num
<1> HIDE DEF h, n, AsShortTime
<1>8. [Now EXCEPT !.hour = h, !.min = n, !.sec = 0]
          = [[Started EXCEPT !.hour = h] EXCEPT !.min = n]
  BY CommandsAssumption DEF Tm, Started
<1> QED
  BY <1>6, <1>7, <1>8 DEF h, n, AsShortTime

LEMMA LongIs ==
    ASSUME NEW m \in Seq(Token), NEW s, NEW p, NEW q, NEW e, TwoNumbers(m, s, p, q, ":"),
           m[q] = ":", NumSpan(m, q + 1, e)
    PROVE  AsLongTime(m, s, p, q, e)
<1> DEFINE w == SubSeq(m, s, e - 1)
<1>1. /\ NumSpan(m, s, p) /\ m[p] = ":" /\ NumSpan(m, p + 1, q) /\ ~IsDigit(":")
  BY NotDigits DEF TwoNumbers
<1>2. /\ Len(m) \in Nat /\ p \in Nat /\ q \in Nat /\ e \in (q + 1)..Len(m)
      /\ e \in (p + 1)..Len(m)
  BY <1>1 DEF NumSpan
<1>3. IsPair(m, s, p, e, ":") /\ IsPair(m, p + 1, q, e, ":") /\ IsLone(m, q + 1, e, ":")
  BY <1>1, <1>2, PairIs, LoneIs
<1>4. /\ Before(w, ":") = SubSeq(m, s, p - 1) /\ IsNumber(Before(w, ":"))
      /\ MinSec(w) = SubSeq(m, p + 1, e - 1)
  BY <1>3 DEF MinSec, IsPair
<1>5. /\ Before(MinSec(w), ":") = SubSeq(m, p + 1, q - 1)
      /\ IsNumber(Before(MinSec(w), ":"))
      /\ After(MinSec(w), ":") = SubSeq(m, q + 1, e - 1)
      /\ HasSec(w)
  BY <1>4, <1>3 DEF HasSec, IsPair
<1>6. IsNumber(After(MinSec(w), ":"))
  BY <1>5, <1>3 DEF IsLone
<1>7. IsTime(w)
  BY <1>4, <1>5, <1>6 DEF IsTime
<1> DEFINE h == Num(m, s, p)
           n == Num(m, p + 1, q)
           z == Num(m, q + 1, e)
<1>8. WithTime(Now, w) = [Now EXCEPT !.hour = h, !.min = n, !.sec = z]
  BY <1>4, <1>5 DEF WithTime, Num
<1> HIDE DEF h, n, z
<1>9. [Now EXCEPT !.hour = h, !.min = n, !.sec = z]
          = [[[Started EXCEPT !.hour = h] EXCEPT !.min = n] EXCEPT !.sec = z]
  BY CommandsAssumption DEF Tm, Started
<1> QED
  BY <1>7, <1>8, <1>9 DEF h, n, z, AsLongTime

LEMMA TimeHas ==
    ASSUME NEW m \in Seq(Token), NEW s \in 1..Len(m), NEW e \in s..Len(m),
           IsTime(SubSeq(m, s, e - 1))
    PROVE  \/ \E p : TwoNumbers(m, s, p, e, ":")
           \/ \E p, q : /\ TwoNumbers(m, s, p, q, ":") /\ m[q] = ":"
                        /\ NumSpan(m, q + 1, e)
<1> DEFINE w == SubSeq(m, s, e - 1)
<1>1. /\ IsNumber(Before(w, ":")) /\ IsNumber(Before(MinSec(w), ":"))
      /\ HasSec(w) => IsNumber(After(MinSec(w), ":"))
  BY DEF IsTime
<1>2. Len(m) \in Nat
  OBVIOUS
<1> HIDE DEF w
<1>3. PICK p : HasPair(m, s, p, e, ":")
  BY <1>1, PairHas DEF w
<1>4. /\ NumSpan(m, s, p)
      /\ \/ p \in s..(e - 1) /\ m[p] = ":"
         \/ MinSec(w) \in Seq(Token) /\ Len(MinSec(w)) = 0
  BY <1>3 DEF HasPair, w, MinSec
<1>5. p \in s..(e - 1) /\ m[p] = ":"
  BY <1>1, <1>4, NothingIsNoNumber
<1>6. p \in Nat /\ e \in (p + 1)..Len(m) /\ p + 1 \in 1..Len(m) /\ e \in Nat
  BY <1>2, <1>5
<1>7. MinSec(w) = SubSeq(m, p + 1, e - 1)
  <2>1. IsPair(m, s, p, e, ":")
    BY <1>4, <1>5, <1>6, PairIs, NotDigits
  <2> QED
    BY <2>1 DEF IsPair, w, MinSec
<1> DEFINE r == p + 1
<1>8. r \in 1..Len(m) /\ e \in r..Len(m) /\ MinSec(w) = SubSeq(m, r, e - 1) /\ r \in Nat
  BY <1>6, <1>7
<1> HIDE DEF r
<1>9. PICK q : HasPair(m, r, q, e, ":")
  BY <1>1, <1>8, PairHas
<1>10. /\ NumSpan(m, r, q)
      /\ \/ q \in r..(e - 1) /\ m[q] = ":"
         \/ q = e /\ Places(MinSec(w), ":") = {}
  BY <1>8, <1>9 DEF HasPair
<1>11. TwoNumbers(m, s, p, q, ":")
  BY <1>4, <1>5, <1>10 DEF TwoNumbers, r
<1>12. CASE q = e
  BY <1>11, <1>12
<1>13. CASE q # e
  <2>1. q \in r..(e - 1) /\ m[q] = ":"
    BY <1>10, <1>13
  <2> DEFINE x == q + 1
  <2>2. e \in (q + 1)..Len(m) /\ x \in 1..Len(m) /\ e \in x..Len(m)
    BY <1>2, <1>6, <1>8, <2>1
  <2>3. /\ After(MinSec(w), ":") = SubSeq(m, q + 1, e - 1)
        /\ Places(MinSec(w), ":") # {}
    <3>1. IsPair(m, r, q, e, ":")
      BY <1>8, <1>10, <2>1, <2>2, PairIs, NotDigits
    <3> QED
      BY <1>8, <3>1 DEF IsPair
  <2>4. IsNumber(SubSeq(m, x, e - 1))
    BY <1>1, <2>3 DEF HasSec
  <2> HIDE DEF x
  <2>5. NumSpan(m, x, e)
    BY <2>2, <2>4, NumSlice
  <2> QED
    BY <1>11, <2>1, <2>5 DEF x
<1> QED
  BY <1>12, <1>13

LEMMA NumberIsNat ==
    ASSUME NEW w \in Seq(Token), IsNumber(w)
    PROVE  NumberOf(w) \in Nat
<1>1. Len(w) \in 1..2 /\ \A i \in 1..Len(w) : IsDigit(w[i])
  BY DEF IsNumber
<1>2. \/ Len(w) = 1 /\ IsDigit(w[1])
      \/ Len(w) = 2 /\ IsDigit(w[1]) /\ IsDigit(w[2])
  BY <1>1
<1> QED
  BY <1>2, OneOrTwo

LEMMA NumIsNat ==
    ASSUME NEW m \in Seq(Token), NEW s, NEW e, NumSpan(m, s, e)
    PROVE  Num(m, s, e) \in Nat
<1>1. Len(m) \in Nat /\ s \in 1..Len(m) /\ e \in (s + 1)..Len(m)
  BY DEF NumSpan
<1> DEFINE y == e - 1
<1>2. s \in 1..(Len(m) + 1) /\ y \in (s - 1)..Len(m) /\ e \in s..Len(m)
  BY <1>1
<1>3. IsNumber(SubSeq(m, s, y))
  BY <1>1, <1>2, NumSlice
<1> HIDE DEF y
<1>4. SubSeq(m, s, y) \in Seq(Token)
  BY <1>2, SliceFacts
<1>5. NumberOf(SubSeq(m, s, y)) \in Nat
  BY <1>3, <1>4, NumberIsNat
<1> QED
  BY <1>5 DEF Num, y

\* The words of a request that was read so far.
TimeWord(m, a, j, u) ==
    LET w == Word(CStrOf(m, a))
    IN  /\ IsTime(w.word) /\ w.gap = "sp" /\ u = WithTime(Now, w.word)
        /\ w.rest = CStrOf(m, j + 1) /\ j + 1 \in 1..Len(m)
DateWord(m, j, u, e, t) ==
    LET w == Word(CStrOf(m, j + 1))
    IN  /\ IsDate(w.word) /\ w.gap = "sp" /\ t = WithDate(u, w.word)
        /\ w.rest = CStrOf(m, e + 1) /\ e + 1 \in 1..Len(m)
YearWord(m, j, u, e, t) ==
    LET w == Word(CStrOf(m, j + 1))
    IN  /\ IsNumber(w.word) /\ w.gap = "sp" /\ t = WithYear(u, w.word)
        /\ w.rest = CStrOf(m, e + 1) /\ e + 1 \in 1..Len(m)

LEMMA NumNoBlank ==
    ASSUME NEW m, NEW s, NEW e, NumSpan(m, s, e), NEW k \in s..(e - 1)
    PROVE  m[k] \notin Blank /\ m[k] # "nul"
BY DigitIs DEF NumSpan

LEMMA NoBlank == ":" \notin Blank /\ "/" \notin Blank /\ "sp" \in Blank
BY DEF Blank

LEMMA PairNoBlank ==
    ASSUME NEW m, NEW s, NEW p, NEW e, NEW tok, tok \notin Blank, tok # "nul",
           TwoNumbers(m, s, p, e, tok)
    PROVE  \A k \in s..(e - 1) : m[k] \notin Blank /\ m[k] # "nul"
<1>1. NumSpan(m, s, p) /\ m[p] = tok /\ NumSpan(m, p + 1, e)
  BY DEF TwoNumbers
<1>2. s \in Int /\ p \in Int /\ e \in Int
  BY <1>1 DEF NumSpan
<1>3. ASSUME NEW k \in s..(e - 1) PROVE m[k] \notin Blank /\ m[k] # "nul"
  <2>1. k \in s..(p - 1) \/ k = p \/ k \in (p + 1)..(e - 1)
    BY <1>2
  <2> QED
    BY <1>1, <2>1, NumNoBlank
<1> QED
  BY <1>3

\* A word that is a number, or two with tok between them.
LEMMA SpanOfNumber ==
    ASSUME NEW m, NEW i, NEW s, NEW e, SkipsTo(m, i, s), NumSpan(m, s, e), m[e] = "sp"
    PROVE  WordSpan(m, i, s, e)
<1>1. \A k \in s..(e - 1) : m[k] \notin Blank /\ m[k] # "nul"
  BY NumNoBlank
<1>2. e \in s..Len(m)
  BY DEF NumSpan
<1> QED
  BY <1>1, <1>2, NoBlank DEF WordSpan

LEMMA SpanOfPair ==
    ASSUME NEW m, NEW i, NEW s, NEW p, NEW e, NEW tok, tok \notin Blank, tok # "nul",
           SkipsTo(m, i, s), TwoNumbers(m, s, p, e, tok), m[e] = "sp"
    PROVE  WordSpan(m, i, s, e)
<1>1. \A k \in s..(e - 1) : m[k] \notin Blank /\ m[k] # "nul"
  BY PairNoBlank
<1>2. e \in s..Len(m)
  BY DEF NumSpan, TwoNumbers
<1> QED
  BY <1>1, <1>2, NoBlank DEF WordSpan

LEMMA SpanOfTriple ==
    ASSUME NEW m, NEW i, NEW s, NEW p, NEW q, NEW e, SkipsTo(m, i, s),
           TwoNumbers(m, s, p, q, ":"), m[q] = ":", NumSpan(m, q + 1, e), m[e] = "sp"
    PROVE  WordSpan(m, i, s, e)
<1>1. s \in Int /\ q \in Int /\ e \in Int /\ e \in s..Len(m)
  BY DEF NumSpan, TwoNumbers
<1>2. ASSUME NEW k \in s..(e - 1) PROVE m[k] \notin Blank /\ m[k] # "nul"
  <2>1. k \in s..(q - 1) \/ k = q \/ k \in (q + 1)..(e - 1)
    BY <1>1
  <2> QED
    BY <2>1, NumNoBlank, PairNoBlank, NoBlank
<1> QED
  BY <1>1, <1>2, NoBlank DEF WordSpan

LEMMA TimeToWord ==
    ASSUME NEW m, Memory(m), NEW a, NEW e, NEW t, TimeRead(m, a, e, t)
    PROVE  TimeWord(m, a, e, t)
<1>1. m \in Seq(Token)
  BY DEF Memory
<1>2. PICK s : /\ WordSpan(m, a, s, e) /\ m[e] = "sp"
               /\ IsTime(SubSeq(m, s, e - 1))
               /\ t = WithTime(Now, SubSeq(m, s, e - 1))
  <2>1. CASE ShortTime(m, a, e, t)
    <3>1. PICK j, u : /\ HourRead(m, a, j, u) /\ NumSpan(m, j, e) /\ m[e] = "sp"
                      /\ t = [u EXCEPT !.min = Num(m, j, e)]
      BY <2>1 DEF ShortTime
    <3>2. PICK s, p : /\ SkipsTo(m, a, s) /\ NumSpan(m, s, p) /\ m[p] = ":"
                      /\ j = p + 1 /\ u = [Started EXCEPT !.hour = Num(m, s, p)]
      BY <3>1 DEF HourRead
    <3>3. TwoNumbers(m, s, p, e, ":")
      BY <3>1, <3>2 DEF TwoNumbers
    <3>4. WordSpan(m, a, s, e)
      BY <3>1, <3>2, <3>3, SpanOfPair, NoBlank
    <3>5. AsShortTime(m, s, p, e)
      BY <1>1, <3>3, ShortIs
    <3>6. IsTime(SubSeq(m, s, e - 1)) /\ t = WithTime(Now, SubSeq(m, s, e - 1))
      BY <3>1, <3>2, <3>5 DEF AsShortTime
    <3> QED
      BY <3>1, <3>4, <3>6
  <2>2. CASE LongTime(m, a, e, t)
    <3>1. PICK j, u : /\ MinuteRead(m, a, j, u) /\ NumSpan(m, j, e) /\ m[e] = "sp"
                      /\ t = [u EXCEPT !.sec = Num(m, j, e)]
      BY <2>2 DEF LongTime
    <3>2. PICK k, v, q : /\ HourRead(m, a, k, v) /\ NumSpan(m, k, q) /\ m[q] = ":"
                         /\ j = q + 1 /\ u = [v EXCEPT !.min = Num(m, k, q)]
      BY <3>1 DEF MinuteRead
    <3>3. PICK s, p : /\ SkipsTo(m, a, s) /\ NumSpan(m, s, p) /\ m[p] = ":"
                      /\ k = p + 1 /\ v = [Started EXCEPT !.hour = Num(m, s, p)]
      BY <3>2 DEF HourRead
    <3>4. TwoNumbers(m, s, p, q, ":")
      BY <3>2, <3>3 DEF TwoNumbers
    <3>5. WordSpan(m, a, s, e)
      BY <3>1, <3>2, <3>3, <3>4, SpanOfTriple
    <3>6. AsLongTime(m, s, p, q, e)
      BY <1>1, <3>1, <3>2, <3>4, LongIs
    <3>7. IsTime(SubSeq(m, s, e - 1)) /\ t = WithTime(Now, SubSeq(m, s, e - 1))
      BY <3>1, <3>2, <3>3, <3>6 DEF AsLongTime
    <3> QED
      BY <3>1, <3>5, <3>7
  <2> QED
    BY <2>1, <2>2 DEF TimeRead
<1>3. WordIn(m, a, s, e)
  BY <1>2, WordInMemoryIs
<1> QED
  BY <1>2, <1>3 DEF WordIn, TimeWord

LEMMA WordToTime ==
    ASSUME NEW m, Memory(m), NEW a \in 1..Len(m), IsTime(Word(CStrOf(m, a)).word),
           Word(CStrOf(m, a)).gap = "sp"
    PROVE  \E e, t : TimeRead(m, a, e, t)
<1>1. m \in Seq(Token) /\ Len(m) \in Nat
  BY DEF Memory
<1>2. PICK s : SkipsTo(m, a, s)
  BY SkipsExist
<1>3. PICK e : WordSpan(m, a, s, e)
  BY <1>2, SpanExists
<1>4. m[e] = "sp" /\ IsTime(SubSeq(m, s, e - 1))
  <2>1. WordIn(m, a, s, e)
    BY <1>3, WordInMemoryIs
  <2> QED
    BY <2>1 DEF WordIn
<1>5. s \in 1..Len(m) /\ e \in s..Len(m)
  BY <1>1, <1>3 DEF WordSpan, SkipsTo
<1>6. CASE \E p : TwoNumbers(m, s, p, e, ":")
  <2>1. PICK p : NumSpan(m, s, p) /\ m[p] = ":" /\ NumSpan(m, p + 1, e)
    BY <1>6 DEF TwoNumbers
  <2>2. HourRead(m, a, p + 1, [Started EXCEPT !.hour = Num(m, s, p)])
    BY <1>2, <2>1 DEF HourRead
  <2> QED
    BY <1>4, <2>1, <2>2 DEF TimeRead, ShortTime
<1>7. CASE \E p, q : TwoNumbers(m, s, p, q, ":") /\ m[q] = ":" /\ NumSpan(m, q + 1, e)
  <2>1. PICK p, q : /\ NumSpan(m, s, p) /\ m[p] = ":" /\ NumSpan(m, p + 1, q)
                    /\ m[q] = ":" /\ NumSpan(m, q + 1, e)
    BY <1>7 DEF TwoNumbers
  <2> DEFINE u == [Started EXCEPT !.hour = Num(m, s, p)]
             v == [u EXCEPT !.min = Num(m, p + 1, q)]
  <2>2. HourRead(m, a, p + 1, u)
    BY <1>2, <2>1 DEF HourRead
  <2>3. MinuteRead(m, a, q + 1, v)
    BY <2>1, <2>2 DEF MinuteRead
  <2> HIDE DEF v
  <2> QED
    BY <1>4, <2>1, <2>3 DEF TimeRead, LongTime
<1> QED
  BY <1>1, <1>4, <1>5, <1>6, <1>7, TimeHas

LEMMA DateToWord ==
    ASSUME NEW m, Memory(m), NEW a, NEW e, NEW t, DateRead(m, a, e, t)
    PROVE  \E j, u : TimeRead(m, a, j, u) /\ DateWord(m, j, u, e, t)
<1>1. m \in Seq(Token)
  BY DEF Memory
<1>2. PICK k, v : /\ DayRead(m, a, k, v) /\ NumSpan(m, k, e) /\ m[e] = "sp"
                  /\ t = [v EXCEPT !.mon = Num(m, k, e) - 1]
  BY DEF DateRead
<1>3. PICK j, u, s, p : /\ TimeRead(m, a, j, u) /\ SkipsTo(m, j, s) /\ NumSpan(m, s, p)
                        /\ m[p] = "/" /\ k = p + 1 /\ v = [u EXCEPT !.mday = Num(m, s, p)]
  BY <1>2 DEF DayRead
<1>4. m[j] = "sp"
  BY <1>3 DEF TimeRead, ShortTime, LongTime
<1>5. SkipsTo(m, j + 1, s)
  BY <1>3, <1>4, SkipSpace
<1>6. TwoNumbers(m, s, p, e, "/")
  BY <1>2, <1>3 DEF TwoNumbers
<1>7. WordSpan(m, j + 1, s, e)
  BY <1>2, <1>5, <1>6, SpanOfPair, NoBlank
<1>8. WordIn(m, j + 1, s, e)
  BY <1>7, WordInMemoryIs
<1>9. IsDate(SubSeq(m, s, e - 1)) /\ t = WithDate(u, SubSeq(m, s, e - 1))
  <2>1. AsDate(m, s, p, e, u)
    BY <1>1, <1>6, DateIs
  <2> QED
    BY <1>2, <1>3, <2>1 DEF AsDate
<1>10. DateWord(m, j, u, e, t)
  BY <1>2, <1>8, <1>9 DEF WordIn, DateWord
<1> QED
  BY <1>3, <1>10

\* Where the time ends.
LEMMA TimeEnds ==
    ASSUME NEW m, Memory(m), NEW a, NEW j, NEW u, TimeRead(m, a, j, u)
    PROVE  m[j] = "sp" /\ j \in 1..Len(m) /\ j + 1 \in 1..Len(m)
<1>1. Len(m) \in Nat /\ m[Len(m)] = "nul"
  BY DEF Memory
<1>2. PICK k : m[j] = "sp" /\ NumSpan(m, k, j)
  BY DEF TimeRead, ShortTime, LongTime
<1>3. j \in 1..Len(m)
  BY <1>1, <1>2, SpanDigit
<1> QED
  BY <1>1, <1>2, <1>3

LEMMA DateEnds ==
    ASSUME NEW m, Memory(m), NEW a, NEW j, NEW u, DateRead(m, a, j, u)
    PROVE  m[j] = "sp" /\ j \in 1..Len(m) /\ j + 1 \in 1..Len(m)
<1>1. Len(m) \in Nat /\ m[Len(m)] = "nul"
  BY DEF Memory
<1>2. PICK k : m[j] = "sp" /\ NumSpan(m, k, j)
  BY DEF DateRead
<1>3. j \in 1..Len(m)
  BY <1>1, <1>2, SpanDigit
<1> QED
  BY <1>1, <1>2, <1>3

LEMMA WordToDate ==
    ASSUME NEW m, Memory(m), NEW a, NEW j, NEW u, TimeRead(m, a, j, u),
           IsDate(Word(CStrOf(m, j + 1)).word), Word(CStrOf(m, j + 1)).gap = "sp"
    PROVE  \E e, t : DateRead(m, a, e, t)
<1>1. m \in Seq(Token) /\ Len(m) \in Nat
  BY DEF Memory
<1>2. m[j] = "sp" /\ j \in 1..Len(m) /\ j + 1 \in 1..Len(m)
  BY TimeEnds
<1>3. PICK s : SkipsTo(m, j + 1, s)
  BY <1>2, SkipsExist
<1>4. PICK e : WordSpan(m, j + 1, s, e)
  BY <1>3, SpanExists
<1>5. m[e] = "sp" /\ IsDate(SubSeq(m, s, e - 1))
  <2>1. WordIn(m, j + 1, s, e)
    BY <1>4, WordInMemoryIs
  <2> QED
    BY <2>1 DEF WordIn
<1>6. s \in 1..Len(m) /\ e \in s..Len(m)
  BY <1>1, <1>4 DEF WordSpan, SkipsTo
<1>7. PICK p : NumSpan(m, s, p) /\ m[p] = "/" /\ NumSpan(m, p + 1, e)
  BY <1>1, <1>5, <1>6, DateHas DEF TwoNumbers
<1>8. SkipsTo(m, j, s)
  BY <1>2, <1>3, SkipSpace
<1> DEFINE v == [u EXCEPT !.mday = Num(m, s, p)]
<1>9. DayRead(m, a, p + 1, v)
  BY <1>7, <1>8 DEF DayRead
<1> HIDE DEF v
<1> QED
  BY <1>5, <1>7, <1>9 DEF DateRead

LEMMA YearToWord ==
    ASSUME NEW m, Memory(m), NEW a, NEW e, NEW t, YearRead(m, a, e, t)
    PROVE  \E j, u : DateRead(m, a, j, u) /\ YearWord(m, j, u, e, t)
<1>1. m \in Seq(Token)
  BY DEF Memory
<1>2. PICK j, u, s : /\ DateRead(m, a, j, u) /\ SkipsTo(m, j, s) /\ NumSpan(m, s, e)
                     /\ m[e] = "sp" /\ t = [u EXCEPT !.year = Num(m, s, e) + 100]
  BY DEF YearRead
<1>3. m[j] = "sp"
  BY <1>2, DateEnds
<1>4. SkipsTo(m, j + 1, s)
  BY <1>2, <1>3, SkipSpace
<1>5. WordSpan(m, j + 1, s, e)
  BY <1>2, <1>4, SpanOfNumber
<1>6. WordIn(m, j + 1, s, e)
  BY <1>5, WordInMemoryIs
<1>7. IsLone(m, s, e, "sp")
  BY <1>1, <1>2, LoneIs, NotDigits
<1>8. IsNumber(SubSeq(m, s, e - 1))
  BY <1>7 DEF IsLone
<1>9. Num(m, s, e) + 100 = 100 + Num(m, s, e)
  <2>1. Num(m, s, e) \in Nat
    BY <1>1, <1>2, NumIsNat
  <2> QED
    BY <2>1
<1>10. t = WithYear(u, SubSeq(m, s, e - 1))
  BY <1>2, <1>9 DEF WithYear, Num
<1>11. YearWord(m, j, u, e, t)
  BY <1>2, <1>6, <1>8, <1>10 DEF WordIn, YearWord
<1> QED
  BY <1>2, <1>11

LEMMA WordToYear ==
    ASSUME NEW m, Memory(m), NEW a, NEW j, NEW u, DateRead(m, a, j, u),
           IsNumber(Word(CStrOf(m, j + 1)).word), Word(CStrOf(m, j + 1)).gap = "sp"
    PROVE  \E e, t : YearRead(m, a, e, t)
<1>1. m \in Seq(Token) /\ Len(m) \in Nat
  BY DEF Memory
<1>2. m[j] = "sp" /\ j \in 1..Len(m) /\ j + 1 \in 1..Len(m)
  BY DateEnds
<1>3. PICK s : SkipsTo(m, j + 1, s)
  BY <1>2, SkipsExist
<1>4. PICK e : WordSpan(m, j + 1, s, e)
  BY <1>3, SpanExists
<1>5. m[e] = "sp" /\ IsNumber(SubSeq(m, s, e - 1))
  <2>1. WordIn(m, j + 1, s, e)
    BY <1>4, WordInMemoryIs
  <2> QED
    BY <2>1 DEF WordIn
<1>6. s \in 1..Len(m) /\ e \in s..Len(m)
  BY <1>1, <1>4 DEF WordSpan, SkipsTo
<1>7. NumSpan(m, s, e)
  BY <1>1, <1>5, <1>6, NumSlice
<1>8. SkipsTo(m, j, s)
  BY <1>2, <1>3, SkipSpace
<1> DEFINE t == [u EXCEPT !.year = Num(m, s, e) + 100]
<1>9. YearRead(m, a, e, t)
  BY <1>5, <1>7, <1>8 DEF YearRead
<1> HIDE DEF t
<1> QED
  BY <1>9

-------------------------------------------------------------------------------
(* What is read is what the usage says                                     *)

LEMMA TextThere ==
    ASSUME NEW m, Memory(m), NEW i \in 1..Len(m)
    PROVE  CStrOf(m, i) # <<>> <=> m[i] # "nul"
<1>1. PICK z : Stop(m, i, z)
  BY StopExists
<1>2. /\ Len(m) \in Nat /\ z \in i..Len(m) /\ m[z] = "nul"
      /\ \A k \in i..(z - 1) : m[k] # "nul"
  BY <1>1 DEF Stop, Memory
<1>3. CStrOf(m, i) \in Seq(Token) /\ Len(CStrOf(m, i)) = z - i
  BY <1>1, StopFacts
<1>4. CStrOf(m, i) = <<>> <=> Len(CStrOf(m, i)) = 0
  BY <1>3
<1>5. CStrOf(m, i) = <<>> <=> z = i
  BY <1>2, <1>3, <1>4
<1>6. z = i <=> m[i] = "nul"
  BY <1>2
<1> QED
  BY <1>5, <1>6

\* The reading of a request up to place e, with the time t.
ReadingTo(m, e, t) == [time |-> t, text |-> CStrOf(m, e + 1)]

IsTimed(s) == IsTime(Word(s).word) /\ Word(s).gap = "sp"
IsDated(s) == IsDate(Word(s).word) /\ Word(s).gap = "sp"
IsYear(s) == IsNumber(Word(s).word) /\ Word(s).gap = "sp"

\* The three ways to read the text s, one by one.
LEMMA ReadingsAre ==
    ASSUME NEW s, NEW r, NEW one, NEW two, NEW time, NEW date, NEW year,
           one = Word(s).rest, two = Word(one).rest,
           time = WithTime(Now, Word(s).word), date = WithDate(time, Word(one).word),
           year = WithYear(date, Word(two).word)
    PROVE  r \in Readings(s, {"sp"}) <=>
             /\ IsTimed(s)
             /\ \/ one # <<>> /\ r = [time |-> time, text |-> one]
                \/ /\ IsDated(one)
                   /\ \/ two # <<>> /\ r = [time |-> date, text |-> two]
                      \/ /\ IsYear(two) /\ Word(two).rest # <<>>
                         /\ r = [time |-> year, text |-> Word(two).rest]
BY DEF Readings, IsTimed, IsDated, IsYear

LEMMA ReadingIs ==
    ASSUME NEW m, Memory(m), NEW a, NEW e, NEW t, AnyRead(m, a, e, t), m[e + 1] # "nul"
    PROVE  ReadingTo(m, e, t) \in Readings(CStrOf(m, a), {"sp"})
<1> DEFINE s == CStrOf(m, a)
           one == Word(s).rest
           two == Word(one).rest
           time == WithTime(Now, Word(s).word)
           date == WithDate(time, Word(one).word)
           year == WithYear(date, Word(two).word)
           r == ReadingTo(m, e, t)
<1>1. r \in Readings(s, {"sp"}) <=>
             /\ IsTimed(s)
             /\ \/ one # <<>> /\ r = [time |-> time, text |-> one]
                \/ /\ IsDated(one)
                   /\ \/ two # <<>> /\ r = [time |-> date, text |-> two]
                      \/ /\ IsYear(two) /\ Word(two).rest # <<>>
                         /\ r = [time |-> year, text |-> Word(two).rest]
  <2> HIDE DEF s, r
  <2> QED
    BY ReadingsAre
<1>2. ASSUME NEW j, NEW u, TimeWord(m, a, j, u)
      PROVE  IsTimed(s) /\ one = CStrOf(m, j + 1) /\ time = u /\ j + 1 \in 1..Len(m)
  BY <1>2 DEF TimeWord, IsTimed
<1>3. ASSUME NEW j, NEW u, TimeWord(m, a, j, u), NEW f, NEW v, DateWord(m, j, u, f, v)
      PROVE  /\ IsTimed(s) /\ IsDated(one) /\ two = CStrOf(m, f + 1) /\ date = v
             /\ f + 1 \in 1..Len(m)
  <2>1. IsTimed(s) /\ one = CStrOf(m, j + 1) /\ time = u
    BY <1>2, <1>3
  <2> HIDE DEF one, time
  <2> QED
    BY <1>3, <2>1 DEF DateWord, IsDated
<1>4. CASE TimeRead(m, a, e, t)
  <2>1. IsTimed(s) /\ one = CStrOf(m, e + 1) /\ time = t /\ e + 1 \in 1..Len(m)
    BY <1>2, <1>4, TimeToWord
  <2>2. one # <<>>
    BY <2>1, TextThere
  <2>3. r = [time |-> time, text |-> one]
    BY <2>1 DEF ReadingTo
  <2> HIDE DEF s, r, one, time
  <2> QED
    BY <1>1, <2>1, <2>2, <2>3 DEF s, r
<1>5. CASE DateRead(m, a, e, t)
  <2>1. PICK j, u : TimeRead(m, a, j, u) /\ DateWord(m, j, u, e, t)
    BY <1>5, DateToWord
  <2>2. TimeWord(m, a, j, u)
    BY <2>1, TimeToWord
  <2>3. /\ IsTimed(s) /\ IsDated(one) /\ two = CStrOf(m, e + 1) /\ date = t
        /\ e + 1 \in 1..Len(m)
    BY <1>3, <2>1, <2>2
  <2>4. two # <<>>
    BY <2>3, TextThere
  <2>5. r = [time |-> date, text |-> two]
    BY <2>3 DEF ReadingTo
  <2> HIDE DEF s, r, one, two, date
  <2> QED
    BY <1>1, <2>3, <2>4, <2>5 DEF s, r
<1>6. CASE YearRead(m, a, e, t)
  <2>1. PICK k, v : DateRead(m, a, k, v) /\ YearWord(m, k, v, e, t)
    BY <1>6, YearToWord
  <2>2. PICK j, u : TimeRead(m, a, j, u) /\ DateWord(m, j, u, k, v)
    BY <2>1, DateToWord
  <2>3. TimeWord(m, a, j, u)
    BY <2>2, TimeToWord
  <2>4. IsTimed(s) /\ IsDated(one) /\ two = CStrOf(m, k + 1) /\ date = v
    BY <1>3, <2>2, <2>3
  <2>5. /\ IsYear(two) /\ Word(two).rest = CStrOf(m, e + 1) /\ year = t
        /\ e + 1 \in 1..Len(m)
    <3> HIDE DEF two, date
    <3> QED
      BY <2>1, <2>4 DEF YearWord, IsYear
  <2>6. Word(two).rest # <<>>
    BY <2>5, TextThere
  <2>7. r = [time |-> year, text |-> Word(two).rest]
    BY <2>5 DEF ReadingTo
  <2> HIDE DEF s, r, one, two, year
  <2> QED
    BY <1>1, <2>4, <2>5, <2>6, <2>7 DEF s, r
<1> QED
  BY <1>4, <1>5, <1>6 DEF AnyRead

LEMMA ReadingHas ==
    ASSUME NEW m, Memory(m), NEW a \in 1..Len(m), NEW r \in Readings(CStrOf(m, a), {"sp"})
    PROVE  \E e, t : AnyRead(m, a, e, t) /\ m[e + 1] # "nul" /\ r = ReadingTo(m, e, t)
<1> DEFINE s == CStrOf(m, a)
           one == Word(s).rest
           two == Word(one).rest
           time == WithTime(Now, Word(s).word)
           date == WithDate(time, Word(one).word)
           year == WithYear(date, Word(two).word)
<1>1. /\ IsTimed(s)
      /\ \/ one # <<>> /\ r = [time |-> time, text |-> one]
         \/ /\ IsDated(one)
            /\ \/ two # <<>> /\ r = [time |-> date, text |-> two]
               \/ /\ IsYear(two) /\ Word(two).rest # <<>>
                  /\ r = [time |-> year, text |-> Word(two).rest]
  <2> r \in Readings(s, {"sp"})
    OBVIOUS
  <2> HIDE DEF s
  <2> QED
    BY ReadingsAre
<1>2. PICK j, u : TimeRead(m, a, j, u)
  BY <1>1, WordToTime DEF IsTimed
<1>3. one = CStrOf(m, j + 1) /\ time = u /\ j + 1 \in 1..Len(m)
  BY <1>2, TimeToWord DEF TimeWord
<1>4. CASE one # <<>> /\ r = [time |-> time, text |-> one]
  <2>1. m[j + 1] # "nul" /\ r = ReadingTo(m, j, u)
    BY <1>3, <1>4, TextThere DEF ReadingTo
  <2> QED
    BY <1>2, <2>1 DEF AnyRead
<1>5. ASSUME IsDated(one)
      PROVE  \E k, v : /\ DateRead(m, a, k, v) /\ two = CStrOf(m, k + 1) /\ date = v
                       /\ k + 1 \in 1..Len(m)
  <2>1. PICK k, v : DateRead(m, a, k, v)
    <3>1. IsDated(CStrOf(m, j + 1))
      BY <1>3, <1>5
    <3>2. IsDate(Word(CStrOf(m, j + 1)).word) /\ Word(CStrOf(m, j + 1)).gap = "sp"
      BY <3>1 DEF IsDated
    <3> QED
      BY <1>2, <3>2, WordToDate
  <2>2. PICK l, w : TimeRead(m, a, l, w) /\ DateWord(m, l, w, k, v)
    BY <2>1, DateToWord
  <2>3. l = j /\ w = u
    BY <1>2, <2>2, TimeOnce DEF Memory
  <2>4. two = CStrOf(m, k + 1) /\ date = v /\ k + 1 \in 1..Len(m)
    <3> HIDE DEF one, time
    <3> QED
      BY <1>3, <2>2, <2>3 DEF DateWord
  <2> QED
    BY <2>1, <2>4
<1>6. CASE IsDated(one) /\ two # <<>> /\ r = [time |-> date, text |-> two]
  <2>1. PICK k, v : /\ DateRead(m, a, k, v) /\ two = CStrOf(m, k + 1) /\ date = v
                    /\ k + 1 \in 1..Len(m)
    BY <1>5, <1>6
  <2>2. m[k + 1] # "nul" /\ r = ReadingTo(m, k, v)
    BY <1>6, <2>1, TextThere DEF ReadingTo
  <2> QED
    BY <2>1, <2>2 DEF AnyRead
<1>7. CASE /\ IsDated(one) /\ IsYear(two) /\ Word(two).rest # <<>>
           /\ r = [time |-> year, text |-> Word(two).rest]
  <2>1. PICK k, v : /\ DateRead(m, a, k, v) /\ two = CStrOf(m, k + 1) /\ date = v
                    /\ k + 1 \in 1..Len(m)
    BY <1>5, <1>7
  <2>2. PICK e, t : YearRead(m, a, e, t)
    <3>1. IsYear(CStrOf(m, k + 1))
      BY <1>7, <2>1
    <3>2. IsNumber(Word(CStrOf(m, k + 1)).word) /\ Word(CStrOf(m, k + 1)).gap = "sp"
      BY <3>1 DEF IsYear
    <3> QED
      BY <2>1, <3>2, WordToYear
  <2>3. PICK l, w : DateRead(m, a, l, w) /\ YearWord(m, l, w, e, t)
    BY <2>2, YearToWord
  <2>4. l = k /\ w = v
    BY <2>1, <2>3, DateOnce DEF Memory
  <2>5. Word(two).rest = CStrOf(m, e + 1) /\ year = t /\ e + 1 \in 1..Len(m)
    <3> HIDE DEF two, date
    <3> QED
      BY <2>1, <2>3, <2>4 DEF YearWord
  <2>6. m[e + 1] # "nul" /\ r = ReadingTo(m, e, t)
    BY <1>7, <2>5, TextThere DEF ReadingTo
  <2> QED
    BY <2>2, <2>6 DEF AnyRead
<1> QED
  BY <1>1, <1>4, <1>6, <1>7

\* When is earlier than when, field by field.
LEMMA EarlierIs ==
    ASSUME NEW t, NEW u
    PROVE  Earlier(t, u) <=>
             \/ t.year < u.year
             \/ t.year = u.year /\ t.mon < u.mon
             \/ t.year = u.year /\ t.mon = u.mon /\ t.mday < u.mday
             \/ t.year = u.year /\ t.mon = u.mon /\ t.mday = u.mday /\ t.hour < u.hour
             \/ /\ t.year = u.year /\ t.mon = u.mon /\ t.mday = u.mday /\ t.hour = u.hour
                /\ t.min < u.min
             \/ /\ t.year = u.year /\ t.mon = u.mon /\ t.mday = u.mday /\ t.hour = u.hour
                /\ t.min = u.min /\ t.sec < u.sec
<1> DEFINE E(i) == /\ Fields(t)[i] < Fields(u)[i]
                   /\ \A j \in 1..(i - 1) : Fields(t)[j] = Fields(u)[j]
<1>1. /\ Fields(t)[1] = t.year /\ Fields(t)[2] = t.mon /\ Fields(t)[3] = t.mday
      /\ Fields(t)[4] = t.hour /\ Fields(t)[5] = t.min /\ Fields(t)[6] = t.sec
  BY DEF Fields
<1>2. /\ Fields(u)[1] = u.year /\ Fields(u)[2] = u.mon /\ Fields(u)[3] = u.mday
      /\ Fields(u)[4] = u.hour /\ Fields(u)[5] = u.min /\ Fields(u)[6] = u.sec
  BY DEF Fields
<1>3. 1..6 = {1, 2, 3, 4, 5, 6}
  OBVIOUS
<1>4. Earlier(t, u) <=> E(1) \/ E(2) \/ E(3) \/ E(4) \/ E(5) \/ E(6)
  BY <1>3 DEF Earlier
<1>5. /\ 1..(1 - 1) = {} /\ 1..(2 - 1) = {1} /\ 1..(3 - 1) = {1, 2}
      /\ 1..(4 - 1) = {1, 2, 3} /\ 1..(5 - 1) = {1, 2, 3, 4}
      /\ 1..(6 - 1) = {1, 2, 3, 4, 5}
  OBVIOUS
<1>6. E(1) <=> t.year < u.year
  BY <1>1, <1>2, <1>5
<1>7. E(2) <=> t.year = u.year /\ t.mon < u.mon
  BY <1>1, <1>2, <1>5
<1>8. E(3) <=> t.year = u.year /\ t.mon = u.mon /\ t.mday < u.mday
  BY <1>1, <1>2, <1>5
<1>9. E(4) <=> t.year = u.year /\ t.mon = u.mon /\ t.mday = u.mday /\ t.hour < u.hour
  BY <1>1, <1>2, <1>5
<1>10. E(5) <=> /\ t.year = u.year /\ t.mon = u.mon /\ t.mday = u.mday
                /\ t.hour = u.hour /\ t.min < u.min
  BY <1>1, <1>2, <1>5
<1>11. E(6) <=> /\ t.year = u.year /\ t.mon = u.mon /\ t.mday = u.mday
                /\ t.hour = u.hour /\ t.min = u.min /\ t.sec < u.sec
  BY <1>1, <1>2, <1>5
<1> HIDE DEF E
<1> QED
  BY <1>4, <1>6, <1>7, <1>8, <1>9, <1>10, <1>11

\* What is not over when the later of two times comes is not over at the other.
LEMMA NotOverBefore ==
    ASSUME NEW t \in Tm, NEW u \in Tm, NEW v \in Tm, ~Earlier(t, u), ~Earlier(u, v)
    PROVE  ~Earlier(t, v)
<1>1. /\ t.year \in Int /\ t.mon \in Int /\ t.mday \in Int /\ t.hour \in Int
      /\ t.min \in Int /\ t.sec \in Int
  BY DEF Tm
<1>2. /\ u.year \in Int /\ u.mon \in Int /\ u.mday \in Int /\ u.hour \in Int
      /\ u.min \in Int /\ u.sec \in Int
  BY DEF Tm
<1>3. /\ v.year \in Int /\ v.mon \in Int /\ v.mday \in Int /\ v.hour \in Int
      /\ v.min \in Int /\ v.sec \in Int
  BY DEF Tm
<1> QED
  BY <1>1, <1>2, <1>3, EarlierIs

\* Where parse_date() is with the request at place a of m, in step s: its cursor
\* at place i and its time t.
Parsing(m, a, i, t, s) ==
    /\ s = "hour" => i = a /\ t = Started
    /\ s = "minute" => HourRead(m, a, i, t)
    /\ s = "second" => MinuteRead(m, a, i, t)
    /\ s = "day" => TimeRead(m, a, i, t)
    /\ s = "month" => DayRead(m, a, i, t)
    /\ s = "year" => DateRead(m, a, i, t)
    /\ s \in {"got_time", "remind"} => GotRead(m, a, i, t)
    /\ s = "remind" => Exists(t)

\* A request that was answered with r.
Refusable(m, a) == \A e, u : PlainRead(m, a, e, u) => ~Exists(u) \/ Earlier(u, Later)
Answered(m, a, i, t, r) ==
    /\ r = "confirmed" => /\ [time |-> t, text |-> CStrOf(m, i)]
                                 \in Readings(CStrOf(m, a), {"sp"})
                          /\ Exists(t)
                          /\ ~Earlier(t, Now)
    /\ t # NoTime /\ r \notin {"failed", "confirmed"} => Refusable(m, a)

ParseInv ==
    /\ step = "idle" => tm = NoTime
    /\ step \notin {"idle", "end"} => cmdCall.arg \in 1..Len(buf)
    /\ step = "end" /\ (tm # NoTime \/ reply = "confirmed") =>
           cmdCall.arg \in 1..Len(buf)
    /\ Parsing(buf, cmdCall.arg, at, tm, step)
    /\ step = "end" => Answered(buf, cmdCall.arg, at, tm, reply)

\* The three ways a step ends.
LEMMA ParseRefused ==
    ASSUME ParseInv, UNCHANGED vars, step \notin {"idle", "end"}, NEW r, Say(r),
           UNCHANGED <<at, tm>>, r # "confirmed",
           r # "failed" => Refusable(buf, cmdCall.arg)
    PROVE  ParseInv'
<1>1. /\ step' = "end" /\ reply' = r /\ at' = at /\ tm' = tm /\ buf' = buf
      /\ cmdCall' = cmdCall /\ cmdCall.arg \in 1..Len(buf)
  BY DEF Say, vars, ParseInv
<1>2. Parsing(buf, cmdCall.arg, at, tm, "end")
  BY DEF Parsing
<1>3. Answered(buf, cmdCall.arg, at, tm, r)
  BY DEF Answered
<1> QED
  BY <1>1, <1>2, <1>3 DEF ParseInv

LEMMA ParseTook ==
    ASSUME UNCHANGED vars, cmdCall.arg \in 1..Len(buf), NEW i, NEW t, NEW s,
           s \notin {"idle", "end"}, Took(i, t, s), Parsing(buf, cmdCall.arg, i, t, s)
    PROVE  ParseInv'
<1>1. /\ step' = s /\ at' = i /\ tm' = t /\ buf' = buf /\ cmdCall' = cmdCall
  BY DEF Took, vars
<1> QED
  BY <1>1 DEF ParseInv

LEMMA NotPlainRefused ==
    ASSUME ParseInv, UNCHANGED vars, step \notin {"idle", "end"}, Malformed,
           NotPlain(buf, cmdCall.arg)
    PROVE  ParseInv'
<1>1. Refusable(buf, cmdCall.arg)
  BY DEF NotPlain, Refusable
<1> QED
  BY <1>1, ParseRefused DEF Malformed

LEMMA ParseInit == CmdInit => ParseInv
BY DEF CmdInit, ParseInv, Parsing

LEMMA MemoryFacts ==
    ASSUME IInv
    PROVE  Memory(buf) /\ Terminated
BY InvFacts DEF Memory, Terminated

LEMMA ParseHour ==
    ASSUME IInv, ParseInv, UNCHANGED vars, Hour
    PROVE  ParseInv'
<1> DEFINE m == buf
           a == cmdCall.arg
           n == Number(a, TRUE)
           v == [Started EXCEPT !.hour = n.val]
<1>1. Memory(m) /\ Terminated
  BY MemoryFacts
<1>2. step = "hour" /\ a \in 1..Len(m) /\ at = a /\ tm = Started
  BY DEF Hour, ParseInv, Parsing
<1>3. PICK s : SkipsTo(m, a, s) /\ NumRead(m, a, s, n)
  BY <1>1, <1>2, NumberSkipping
<1>4. \/ n.ok /\ m[n.end] = ":" /\ Took(n.end + 1, v, "minute")
      \/ ~(n.ok /\ m[n.end] = ":") /\ Malformed
  BY <1>2 DEF Hour
<1> HIDE DEF n
<1>5. IF n.ok /\ m[n.end] = ":" THEN HourRead(m, a, n.end + 1, v) ELSE NotPlain(m, a)
  BY <1>1, <1>3, HourStep
<1> HIDE DEF v
<1>6. CASE n.ok /\ m[n.end] = ":" /\ Took(n.end + 1, v, "minute")
  <2>1. Parsing(m, a, n.end + 1, v, "minute")
    BY <1>5, <1>6 DEF Parsing
  <2> QED
    BY <1>2, <1>6, <2>1, ParseTook
<1>7. CASE ~(n.ok /\ m[n.end] = ":") /\ Malformed
  BY <1>2, <1>5, <1>7, NotPlainRefused
<1> QED
  BY <1>4, <1>6, <1>7

LEMMA ParseMinute ==
    ASSUME IInv, ParseInv, CmdInv, UNCHANGED vars, Minute
    PROVE  ParseInv'
<1> DEFINE m == buf
           a == cmdCall.arg
           n == Number(at, FALSE)
           v == [tm EXCEPT !.min = n.val]
<1>1. Memory(m) /\ Terminated
  BY MemoryFacts
<1>2. step = "minute" /\ a \in 1..Len(m) /\ HourRead(m, a, at, tm) /\ at \in 1..Len(m)
  BY <1>1 DEF Minute, ParseInv, Parsing, CmdInv, CmdVarsOK, Place, Memory
<1>3. NumRead(m, at, at, n)
  BY <1>1, <1>2, NumberThere
<1>4. \/ ~n.ok /\ Malformed
      \/ n.ok /\ m[n.end] = ":" /\ Took(n.end + 1, v, "second")
      \/ n.ok /\ m[n.end] = "sp" /\ Took(n.end, v, "day")
      \/ n.ok /\ m[n.end] \notin {":", "sp"} /\ Took(n.end, v, "got_time")
  BY DEF Minute
<1> HIDE DEF n
<1>5. /\ ~n.ok => NotPlain(m, a)
      /\ n.ok /\ m[n.end] = ":" => MinuteRead(m, a, n.end + 1, v)
      /\ n.ok /\ m[n.end] = "sp" => TimeRead(m, a, n.end, v)
      /\ n.ok /\ m[n.end] \notin {":", "sp"} => GotRead(m, a, n.end, v)
  BY <1>1, <1>2, <1>3, MinuteStep
<1> HIDE DEF v
<1>6. CASE ~n.ok /\ Malformed
  BY <1>2, <1>5, <1>6, NotPlainRefused
<1>7. CASE n.ok /\ m[n.end] = ":" /\ Took(n.end + 1, v, "second")
  <2>1. Parsing(m, a, n.end + 1, v, "second")
    BY <1>5, <1>7 DEF Parsing
  <2> QED
    BY <1>2, <1>7, <2>1, ParseTook
<1>8. CASE n.ok /\ m[n.end] = "sp" /\ Took(n.end, v, "day")
  <2>1. Parsing(m, a, n.end, v, "day")
    BY <1>5, <1>8 DEF Parsing
  <2> QED
    BY <1>2, <1>8, <2>1, ParseTook
<1>9. CASE n.ok /\ m[n.end] \notin {":", "sp"} /\ Took(n.end, v, "got_time")
  <2>1. Parsing(m, a, n.end, v, "got_time")
    BY <1>5, <1>9 DEF Parsing
  <2> QED
    BY <1>2, <1>9, <2>1, ParseTook
<1> QED
  BY <1>4, <1>6, <1>7, <1>8, <1>9

LEMMA ParseSecond ==
    ASSUME IInv, ParseInv, CmdInv, UNCHANGED vars, Second
    PROVE  ParseInv'
<1> DEFINE m == buf
           a == cmdCall.arg
           n == Number(at, FALSE)
           v == [tm EXCEPT !.sec = n.val]
<1>1. Memory(m) /\ Terminated
  BY MemoryFacts
<1>2. step = "second" /\ a \in 1..Len(m) /\ MinuteRead(m, a, at, tm) /\ at \in 1..Len(m)
  BY <1>1 DEF Second, ParseInv, Parsing, CmdInv, CmdVarsOK, Place, Memory
<1>3. NumRead(m, at, at, n)
  BY <1>1, <1>2, NumberThere
<1>4. \/ ~n.ok /\ Malformed
      \/ n.ok /\ m[n.end] = "sp" /\ Took(n.end, v, "day")
      \/ n.ok /\ m[n.end] # "sp" /\ Took(n.end, v, "got_time")
  BY DEF Second
<1> HIDE DEF n
<1>5. /\ ~n.ok => NotPlain(m, a)
      /\ n.ok /\ m[n.end] = "sp" => TimeRead(m, a, n.end, v)
      /\ n.ok /\ m[n.end] # "sp" => GotRead(m, a, n.end, v)
  BY <1>1, <1>2, <1>3, SecondStep
<1> HIDE DEF v
<1>6. CASE ~n.ok /\ Malformed
  BY <1>2, <1>5, <1>6, NotPlainRefused
<1>7. CASE n.ok /\ m[n.end] = "sp" /\ Took(n.end, v, "day")
  <2>1. Parsing(m, a, n.end, v, "day")
    BY <1>5, <1>7 DEF Parsing
  <2> QED
    BY <1>2, <1>7, <2>1, ParseTook
<1>8. CASE n.ok /\ m[n.end] # "sp" /\ Took(n.end, v, "got_time")
  <2>1. Parsing(m, a, n.end, v, "got_time")
    BY <1>5, <1>8 DEF Parsing
  <2> QED
    BY <1>2, <1>8, <2>1, ParseTook
<1> QED
  BY <1>4, <1>6, <1>7, <1>8

LEMMA ParseDay ==
    ASSUME IInv, ParseInv, CmdInv, UNCHANGED vars, Day
    PROVE  ParseInv'
<1> DEFINE m == buf
           a == cmdCall.arg
           n == Number(at, TRUE)
           v == [tm EXCEPT !.mday = n.val]
<1>1. Memory(m) /\ Terminated
  BY MemoryFacts
<1>2. step = "day" /\ a \in 1..Len(m) /\ TimeRead(m, a, at, tm) /\ at \in 1..Len(m)
  BY <1>1 DEF Day, ParseInv, Parsing, CmdInv, CmdVarsOK, Place, Memory
<1>3. PICK s : SkipsTo(m, at, s) /\ NumRead(m, at, s, n)
  BY <1>1, <1>2, NumberSkipping
<1>4. \/ ~n.ok /\ Took(n.end, tm, "got_time")
      \/ n.ok /\ m[n.end] = "/" /\ Took(n.end + 1, v, "month")
      \/ n.ok /\ m[n.end] # "/" /\ Malformed
  BY DEF Day
<1> HIDE DEF n
<1>5. /\ ~n.ok => GotRead(m, a, n.end, tm)
      /\ n.ok /\ m[n.end] = "/" => DayRead(m, a, n.end + 1, v)
      /\ n.ok /\ m[n.end] # "/" => NotPlain(m, a)
  BY <1>1, <1>2, <1>3, DayStep
<1> HIDE DEF v
<1>6. CASE ~n.ok /\ Took(n.end, tm, "got_time")
  <2>1. Parsing(m, a, n.end, tm, "got_time")
    BY <1>5, <1>6 DEF Parsing
  <2> QED
    BY <1>2, <1>6, <2>1, ParseTook
<1>7. CASE n.ok /\ m[n.end] = "/" /\ Took(n.end + 1, v, "month")
  <2>1. Parsing(m, a, n.end + 1, v, "month")
    BY <1>5, <1>7 DEF Parsing
  <2> QED
    BY <1>2, <1>7, <2>1, ParseTook
<1>8. CASE n.ok /\ m[n.end] # "/" /\ Malformed
  BY <1>2, <1>5, <1>8, NotPlainRefused
<1> QED
  BY <1>4, <1>6, <1>7, <1>8

LEMMA ParseMonth ==
    ASSUME IInv, ParseInv, CmdInv, UNCHANGED vars, Month
    PROVE  ParseInv'
<1> DEFINE m == buf
           a == cmdCall.arg
           n == Number(at, FALSE)
           v == [tm EXCEPT !.mon = n.val - 1]
<1>1. Memory(m) /\ Terminated
  BY MemoryFacts
<1>2. step = "month" /\ a \in 1..Len(m) /\ DayRead(m, a, at, tm) /\ at \in 1..Len(m)
  BY <1>1 DEF Month, ParseInv, Parsing, CmdInv, CmdVarsOK, Place, Memory
<1>3. NumRead(m, at, at, n)
  BY <1>1, <1>2, NumberThere
<1>4. \/ ~n.ok /\ Malformed
      \/ n.ok /\ m[n.end] = "sp" /\ Took(n.end, v, "year")
      \/ n.ok /\ m[n.end] # "sp" /\ Took(n.end, v, "got_time")
  BY DEF Month
<1> HIDE DEF n
<1>5. /\ ~n.ok => NotPlain(m, a)
      /\ n.ok /\ m[n.end] = "sp" => DateRead(m, a, n.end, v)
      /\ n.ok /\ m[n.end] # "sp" => GotRead(m, a, n.end, v)
  BY <1>1, <1>2, <1>3, MonthStep
<1> HIDE DEF v
<1>6. CASE ~n.ok /\ Malformed
  BY <1>2, <1>5, <1>6, NotPlainRefused
<1>7. CASE n.ok /\ m[n.end] = "sp" /\ Took(n.end, v, "year")
  <2>1. Parsing(m, a, n.end, v, "year")
    BY <1>5, <1>7 DEF Parsing
  <2> QED
    BY <1>2, <1>7, <2>1, ParseTook
<1>8. CASE n.ok /\ m[n.end] # "sp" /\ Took(n.end, v, "got_time")
  <2>1. Parsing(m, a, n.end, v, "got_time")
    BY <1>5, <1>8 DEF Parsing
  <2> QED
    BY <1>2, <1>8, <2>1, ParseTook
<1> QED
  BY <1>4, <1>6, <1>7, <1>8

LEMMA ParseYear ==
    ASSUME IInv, ParseInv, CmdInv, UNCHANGED vars, Year
    PROVE  ParseInv'
<1> DEFINE m == buf
           a == cmdCall.arg
           n == Number(at, TRUE)
           v == [tm EXCEPT !.year = n.val + 100]
<1>1. Memory(m) /\ Terminated
  BY MemoryFacts
<1>2. /\ step = "year" /\ a \in 1..Len(m) /\ DateRead(m, a, at, tm) /\ at \in 1..Len(m)
      /\ tm \in Tm
  BY <1>1 DEF Year, ParseInv, Parsing, CmdInv, CmdVarsOK, Place, Memory
<1>3. PICK s : SkipsTo(m, at, s) /\ NumRead(m, at, s, n)
  BY <1>1, <1>2, NumberSkipping
<1>4. n.val \in Nat
  BY <1>1, <1>2, NumberFacts
<1>5. \/ ~n.ok /\ Took(n.end, tm, "got_time")
      \/ n.ok /\ n.val < 38 /\ Took(n.end, v, "got_time")
      \/ n.ok /\ n.val >= 38 /\ Malformed
  BY DEF Year
<1> HIDE DEF n
<1>6. /\ ~n.ok => GotRead(m, a, n.end, tm)
      /\ n.ok /\ n.val < 38 => GotRead(m, a, n.end, v)
      /\ n.ok /\ n.val >= 38 => NotPlain(m, a)
  BY <1>1, <1>2, <1>3, <1>4, YearStep
<1> HIDE DEF v
<1>7. CASE ~n.ok /\ Took(n.end, tm, "got_time")
  <2>1. Parsing(m, a, n.end, tm, "got_time")
    BY <1>6, <1>7 DEF Parsing
  <2> QED
    BY <1>2, <1>7, <2>1, ParseTook
<1>8. CASE n.ok /\ n.val < 38 /\ Took(n.end, v, "got_time")
  <2>1. Parsing(m, a, n.end, v, "got_time")
    BY <1>6, <1>8 DEF Parsing
  <2> QED
    BY <1>2, <1>8, <2>1, ParseTook
<1>9. CASE n.ok /\ n.val >= 38 /\ Malformed
  BY <1>2, <1>6, <1>9, NotPlainRefused
<1> QED
  BY <1>5, <1>7, <1>8, <1>9

LEMMA ParseGotTime ==
    ASSUME ParseInv, UNCHANGED vars, GotTime
    PROVE  ParseInv'
<1> DEFINE m == buf
           a == cmdCall.arg
<1>1. step = "got_time" /\ a \in 1..Len(m) /\ GotRead(m, a, at, tm)
  BY DEF GotTime, ParseInv, Parsing
<1>2. CASE Exists(tm) /\ Took(at, tm, "remind")
  <2>1. Parsing(m, a, at, tm, "remind")
    BY <1>1, <1>2 DEF Parsing
  <2> QED
    BY <1>1, <1>2, <2>1, ParseTook
<1>3. CASE ~Exists(tm) /\ Malformed
  <2>1. Refusable(m, a)
    BY <1>1, <1>3 DEF GotRead, Refusable
  <2> QED
    BY <1>1, <1>3, <2>1, ParseRefused DEF Malformed
<1> QED
  BY <1>2, <1>3 DEF GotTime

LEMMA ParseRemind ==
    ASSUME IInv, CmdInv, ParseInv, UNCHANGED vars, ~Earlier(Later, Now),
           NoText \/ TimeFails \/ Past \/ Accept
    PROVE  ParseInv'
<1> DEFINE m == buf
           a == cmdCall.arg
<1>1. Memory(m)
  BY MemoryFacts
<1>2. step = "remind" /\ a \in 1..Len(m) /\ GotRead(m, a, at, tm) /\ Exists(tm)
  BY DEF NoText, TimeFails, Past, Accept, ParseInv, Parsing
<1>3. tm \in Tm /\ Now \in Tm /\ Later \in Tm
  BY CommandsAssumption DEF CmdInv, CmdVarsOK
<1>4. ASSUME NEW e, NEW u, PlainRead(m, a, e, u)
      PROVE  e = at /\ u = tm /\ m[at] = "sp" /\ m[at + 1] # "nul"
  <2>1. e = at /\ u = tm
    BY <1>2, <1>4 DEF GotRead
  <2>2. m[e] = "sp" /\ m[e + 1] # "nul"
    BY <1>4 DEF PlainRead, AnyRead, TimeRead, ShortTime, LongTime, DateRead, YearRead
  <2> QED
    BY <2>1, <2>2
<1>5. CASE NoText
  <2>1. PICK r \in {"noSpace", "empty"} : Refuse(r)
    BY <1>5 DEF NoText
  <2>2. Refusable(m, a)
    BY <1>4, <1>5 DEF NoText, Refusable
  <2> QED
    BY <1>2, <2>1, <2>2, ParseRefused DEF Refuse
<1>6. CASE TimeFails
  BY <1>2, <1>6, ParseRefused DEF TimeFails, Refuse
<1>7. CASE Past
  <2>1. Earlier(tm, Later)
    BY <1>3, <1>7, NotOverBefore DEF Past
  <2>2. Refusable(m, a)
    BY <1>4, <2>1 DEF Refusable
  <2> QED
    BY <1>2, <1>7, <2>2, ParseRefused DEF Past, Refuse
<1>8. CASE Accept
  <2>1. /\ m[at] = "sp" /\ m[at + 1] # "nul" /\ at' = at + 1 /\ tm' = tm
        /\ step' = "end" /\ reply' = "confirmed" /\ buf' = m /\ cmdCall' = cmdCall
    BY <1>8 DEF Accept, Say, vars
  <2>2. ~Earlier(tm, Now)
    BY <1>3, <1>8, NotOverBefore DEF Accept
  <2>3. ReadingTo(m, at, tm) \in Readings(CStrOf(m, a), {"sp"})
    BY <1>1, <1>2, <2>1, ReadingIs DEF GotRead
  <2>4. Answered(m, a, at + 1, tm, "confirmed")
    BY <1>2, <2>2, <2>3 DEF Answered, ReadingTo
  <2>5. Parsing(m, a, at + 1, tm, "end")
    BY DEF Parsing
  <2> QED
    BY <1>2, <2>1, <2>4, <2>5 DEF ParseInv
<1> QED
  BY <1>5, <1>6, <1>7, <1>8

LEMMA ParseBegins ==
    ASSUME IInv, ParseInv, SavedInv, UNCHANGED vars, Answer \/ Remind
    PROVE  ParseInv'
<1>1. step = "idle" /\ tm = NoTime /\ reply # "confirmed"
  BY DEF Answer, Remind, Called, Calls, ParseInv, SavedInv
<1>2. ASSUME NEW r, Say(r), UNCHANGED <<at, tm>>, r # "confirmed" PROVE ParseInv'
  <2>1. /\ step' = "end" /\ reply' = r /\ tm' = NoTime /\ at' = at
        /\ buf' = buf /\ cmdCall' = cmdCall
    BY <1>1, <1>2 DEF Say, vars
  <2>2. Parsing(buf, cmdCall.arg, at, NoTime, "end")
    BY DEF Parsing
  <2>3. Answered(buf, cmdCall.arg, at, NoTime, r)
    BY <1>2 DEF Answered
  <2> QED
    BY <1>2, <2>1, <2>2, <2>3 DEF ParseInv
<1>3. CASE Answer
  <2>1. \E r : Say(r) /\ UNCHANGED <<at, tm>> /\ r # "confirmed"
    BY <1>3 DEF Answer
  <2> QED
    BY <1>2, <2>1
<1>4. CASE Remind
  <2>1. CASE \E r : Say(r) /\ UNCHANGED <<at, tm>> /\ r # "confirmed"
    BY <1>2, <2>1
  <2>2. CASE cmdCall.arg # 0 /\ Took(cmdCall.arg, Started, "hour")
    <3>1. cmdCall.arg \in 1..Len(buf)
      BY <2>2, InvFacts DEF IInv, Place
    <3>2. Parsing(buf, cmdCall.arg, cmdCall.arg, Started, "hour")
      BY DEF Parsing
    <3> QED
      BY <2>2, <3>1, <3>2, ParseTook
  <2> QED
    BY <1>4, <2>1, <2>2 DEF Remind, Took, Started
<1> QED
  BY <1>3, <1>4

LEMMA ParseInvNext ==
    ASSUME ~Earlier(Later, Now)
    PROVE  IInv /\ CmdInv /\ SavedInv /\ ParseInv /\ [CmdNext]_<<vars, cmdVars>> => ParseInv'
<1> SUFFICES ASSUME IInv, CmdInv, SavedInv, ParseInv, [CmdNext]_<<vars, cmdVars>>
             PROVE  ParseInv'
  OBVIOUS
<1>1. CASE UNCHANGED <<vars, cmdVars>>
  BY <1>1 DEF vars, cmdVars, ParseInv
<1>2. CASE Next /\ UNCHANGED cmdVars
  <2>1. phase # "done"
    BY <1>2 DEF Next, Split, NoPrefix, BadPrefix, Prefix, NoComponents, Components,
       EmptyCmd, Cmd, NoMoreParams, BadParam, FinalParam, Param, NextParam, Ignore,
       Misfit, Handle, NoBotCmd, BotCmd, Reject
  <2>2. step = "idle" /\ tm = NoTime
    BY <2>1 DEF SavedInv, ParseInv
  <2>3. step' = "idle" /\ tm' = NoTime
    BY <1>2, <2>2 DEF cmdVars
  <2>4. Parsing(buf', cmdCall'.arg, at', tm', "idle")
    BY DEF Parsing
  <2> QED
    BY <2>3, <2>4 DEF ParseInv
<1>3. CASE Command /\ UNCHANGED vars
  <2>1. CASE Answer \/ Remind
    BY <1>3, <2>1, ParseBegins
  <2>2. CASE Hour
    BY <1>3, <2>2, ParseHour
  <2>3. CASE Minute
    BY <1>3, <2>3, ParseMinute
  <2>4. CASE Second
    BY <1>3, <2>4, ParseSecond
  <2>5. CASE Day
    BY <1>3, <2>5, ParseDay
  <2>6. CASE Month
    BY <1>3, <2>6, ParseMonth
  <2>7. CASE Year
    BY <1>3, <2>7, ParseYear
  <2>8. CASE GotTime
    BY <1>3, <2>8, ParseGotTime
  <2>9. CASE NoText \/ TimeFails \/ Past \/ Accept
    BY <1>3, <2>9, ParseRemind
  <2> QED
    BY <1>3, <2>1, <2>2, <2>3, <2>4, <2>5, <2>6, <2>7, <2>8, <2>9 DEF Command
<1> QED
  BY <1>1, <1>2, <1>3 DEF CmdNext

LEMMA RequestInv ==
    ASSUME ~Earlier(Later, Now)
    PROVE  CmdSpec => [](IInv /\ CmdInv /\ SavedInv /\ ParseInv)
<1>1. CmdInit => SavedInv /\ ParseInv
  BY ParseInit DEF CmdInit, SavedInv
<1>2. IInv /\ CmdInv /\ (SavedInv /\ ParseInv) /\ [CmdNext]_<<vars, cmdVars>>
          => (SavedInv /\ ParseInv)'
  BY SavedInvNext, ParseInvNext
<1> QED
  BY <1>1, <1>2, CommandInv, PTL DEF CmdSpec

\* The string at place i, in memory as it is now.
LEMMA StringOf ==
    ASSUME IInv, NEW i \in 1..Len(buf)
    PROVE  CStr(i) = CStrOf(buf, i)
<1>1. PICK z : Stop(buf, i, z)
  BY MemoryFacts, StopExists
<1>2. /\ Len(buf) \in Nat /\ z \in i..Len(buf) /\ buf[z] = "nul"
      /\ \A k \in i..(z - 1) : buf[k] # "nul"
  BY <1>1, MemoryFacts DEF Stop, Memory
<1>3. CStrOf(buf, i) = SubSeq(buf, i, z - 1)
  BY <1>2, CStrOfIs
<1>4. CStr(i) = SubSeq(buf, i, z - 1)
  BY <1>2, MemoryFacts, CStrIs
<1> QED
  BY <1>3, <1>4

\* parse_date() is right, as long as the clock is not set back between the two
\* calls of time(): of a request of any length, with any spaces and whatever
\* else is in it, what is accepted is a time and a text that it has under the
\* usage of !help, and the time exists and is not over.
THEOREM AcceptedByTheUsage ==
    ASSUME ~Earlier(Later, Now)
    PROVE  CmdSpec => []AcceptedAsUsage
<1>1. IInv /\ CmdInv /\ SavedInv /\ ParseInv => AcceptedAsUsage
  <2> SUFFICES ASSUME IInv, CmdInv, SavedInv, ParseInv, reply = "confirmed"
               PROVE  /\ [time |-> tm, text |-> CStr(at)] \in Readings(ArgOf, {"sp"})
                      /\ Exists(tm)
                      /\ ~Earlier(tm, Now)
    BY DEF AcceptedAsUsage
  <2>1. step = "end" /\ at \in 1..Len(buf)
    BY DEF SavedInv
  <2>2. /\ [time |-> tm, text |-> CStrOf(buf, at)]
               \in Readings(CStrOf(buf, cmdCall.arg), {"sp"})
        /\ Exists(tm)
        /\ ~Earlier(tm, Now)
    BY <2>1 DEF ParseInv, Answered
  <2>3. cmdCall.arg \in 1..Len(buf)
    BY <2>1 DEF ParseInv
  <2>4. CStr(at) = CStrOf(buf, at) /\ ArgOf = CStrOf(buf, cmdCall.arg)
    BY <2>1, <2>3, StringOf DEF ArgOf
  <2> QED
    BY <2>2, <2>4
<1> QED
  BY <1>1, RequestInv, PTL

\* And each request of that form, for a time that is to come by its fields, is
\* accepted, if its text does not begin with a digit.
THEOREM PlainOnesAreAccepted ==
    ASSUME ~Earlier(Later, Now)
    PROVE  CmdSpec => []PlainRequestsAreAccepted
<1>1. IInv /\ CmdInv /\ SavedInv /\ ParseInv => PlainRequestsAreAccepted
  <2> SUFFICES ASSUME IInv, CmdInv, SavedInv, ParseInv, step = "end", HadTime,
                      NEW r \in Readings(ArgOf, {"sp"}), ToCome(r),
                      ~BeginsWithDigit(r.text), reply # "confirmed"
               PROVE  FALSE
    BY DEF PlainRequestsAreAccepted
  <2> DEFINE m == buf
             a == cmdCall.arg
  <2>1. a \in 1..Len(m) /\ Refusable(m, a)
    BY DEF HadTime, ParseInv, Answered
  <2>2. ArgOf = CStrOf(m, a) /\ Memory(m)
    BY <2>1, StringOf, MemoryFacts DEF ArgOf
  <2>3. r \in Readings(CStrOf(m, a), {"sp"})
    BY <2>2
  <2>4. PICK e, t : AnyRead(m, a, e, t) /\ m[e + 1] # "nul" /\ r = ReadingTo(m, e, t)
    BY <2>1, <2>2, <2>3, ReadingHas
  <2>5. r.time = t /\ r.text = CStrOf(m, e + 1)
    BY <2>4 DEF ReadingTo
  <2>6. PlainRead(m, a, e, t)
    BY <2>4, <2>5 DEF PlainRead, ToCome
  <2> QED
    BY <2>1, <2>5, <2>6 DEF Refusable, ToCome
<1> QED
  BY <1>1, RequestInv, PTL
=================================================================================
