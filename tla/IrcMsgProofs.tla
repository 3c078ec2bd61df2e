------------------------------ MODULE IrcMsgProofs ------------------------------
(***************************************************************************)
(* However long a message is and whatever it holds: the parser stays       *)
(* within it, what it finds is what the text says, no handler reads what   *)
(* is not there, and a bot command is passed on as it was written.         *)
(***************************************************************************)
EXTENDS IrcMsg, OrderedProofs

-------------------------------------------------------------------------------
(* The message in memory *)

\* The provers do not know that these are in STRING.
Token == STRING \cup {"nul", "when", "sp", "nl"}

\* A string in memory.
Terminated ==
    /\ buf \in Seq(Token)
    /\ Len(buf) > 0
    /\ buf[Len(buf)] = "nul"

LEMMA BufFacts ==
    ASSUME Terminated
    PROVE  /\ Len(buf) \in Nat \ {0} /\ DOMAIN buf = 1..Len(buf)
           /\ \A i \in 1..Len(buf) : buf[i] \in Token
BY DEF Terminated

\* strchr() and strcspn() find something before the end, or the end.
LEMMA Finds ==
    ASSUME Terminated, NEW i \in 1..Len(buf), NEW chars, "nul" \in chars
    PROVE  /\ Find(i, chars) \in i..Len(buf)
           /\ buf[Find(i, chars)] \in chars
           /\ \A k \in i..(Find(i, chars) - 1) : buf[k] \notin chars
<1>1. Len(buf) \in Nat \ {0} /\ buf[Len(buf)] = "nul"
  BY DEF Terminated
<1> DEFINE P == {j \in i..Len(buf) : buf[j] \in chars}
<1>2. Len(buf) \in i..Len(buf) /\ Len(buf) \in P
  BY <1>1
<1> HIDE DEF P
<1>3. \E j \in i..Len(buf) : j \in P /\ \A k \in i..(j - 1) : k \notin P
  <2>1. i \in Nat /\ Len(buf) \in Nat
    BY <1>1
  <2> QED
    BY <1>2, <2>1, FirstOne
<1> USE DEF P
<1>4. \E j \in i..Len(buf) :
          buf[j] \in chars /\ \A k \in i..(j - 1) : buf[k] \notin chars
  <2>1. PICK j \in i..Len(buf) : j \in P /\ \A k \in i..(j - 1) : k \notin P
    BY <1>3
  <2>2. \A k \in i..(j - 1) : k \in i..Len(buf)
    BY <1>1
  <2> QED
    BY <2>1, <2>2
<1> QED
  BY <1>4 DEF Find

-------------------------------------------------------------------------------
(* The parser *)

\* Where the bits of the message are: at most at its end.
Pointers ==
    /\ msg \in [prefix : Place, nick : Place, user : Place, host : Place,
                cmd : Place, params : Seq(1..Len(buf))]
    /\ msg.nick # 0 => msg.user # 0

\* What was called is called with what it needs.
CalledInv ==
    /\ called # "none" =>
         /\ called \in DOMAIN MsgTable
         /\ Fits(called)
         /\ phase \in {"privmsg", "done"}
    /\ phase = "privmsg" => called = "PRIVMSG"

\* What is left of the message when some of it has been overwritten.
CutUp(b) ==
    /\ b \in Seq(Token)
    /\ Len(b) = Len(input) + 1
    /\ b[Len(b)] = "nul"
    /\ \A i \in DOMAIN input : b[i] \in {input[i], "nul"}

\* The inductive invariant.
IInv ==
    /\ input \in Input
    /\ exit_on_invalid_msg \in BOOLEAN
    /\ CutUp(buf)
    /\ cur \in 1..Len(buf)
    /\ Pointers
    /\ phase \in Phases
    /\ CalledInv
    /\ cmdCall \in [rep : Place, cmd : Place, arg : Place]
    /\ SeparatorIsNext

LEMMA MsgTableFacts ==
    /\ DOMAIN MsgTable = {"001", "ERROR", "JOIN", "KICK", "NICK", "PART",
                          "PING", "PRIVMSG", "QUIT"}
    /\ MsgTable["PRIVMSG"].params = {2}
    /\ MsgTable["KICK"].params = 2..3
    /\ MsgTable["PART"].params = 1..2
    /\ MsgTable["QUIT"].params = 0..1
    /\ \A c \in {"ERROR", "PING", "JOIN", "NICK"} : MsgTable[c].params = {1}
    /\ \A c \in {"JOIN", "KICK", "NICK", "PART", "PRIVMSG", "QUIT"} :
          MsgTable[c].needsNick
BY DEF MsgTable

LEMMA InputIs ==
    ASSUME NEW s \in Input
    PROVE  s \in Seq(Token) /\ s # <<>>
<1>1. s \in Seq(STRING) /\ STRING \subseteq Token
  BY IrcMsgAssumption DEF Token
<1> QED
  BY <1>1, IrcMsgAssumption, SeqMonotonic

LEMMA InvInit == Init => IInv
<1> SUFFICES ASSUME Init PROVE IInv
  OBVIOUS
<1>1. input \in Input /\ input \in Seq(Token) /\ input # <<>>
  BY InputIs DEF Init
<1>2. /\ Len(input) \in Nat \ {0} /\ DOMAIN input = 1..Len(input)
      /\ buf \in Seq(Token) /\ Len(buf) = Len(input) + 1
      /\ buf[Len(buf)] = "nul"
      /\ \A i \in 1..Len(input) : buf[i] = input[i]
  <2>1. Len(input) \in Nat \ {0} /\ DOMAIN input = 1..Len(input)
    BY <1>1
  <2>2. buf = Append(input, "nul") /\ "nul" \in Token
    BY DEF Init, Token
  <2> QED
    BY <1>1, <2>1, <2>2, AppendProperties
<1>3. Pointers
  BY <1>2 DEF Init, Pointers, Place
<1>4. CalledInv /\ SeparatorIsNext
  BY DEF Init, CalledInv, SeparatorIsNext
<1>5. CutUp(buf) /\ cur \in 1..Len(buf)
  BY <1>2 DEF CutUp, Init
<1> QED
  BY <1>1, <1>3, <1>4, <1>5 DEF Init, IInv, Place, Phases, NoCall

LEMMA InvFacts ==
    ASSUME IInv
    PROVE  /\ Terminated
           /\ Len(buf) \in Nat \ {0} /\ DOMAIN buf = 1..Len(buf)
           /\ buf[Len(buf)] = "nul" /\ cur \in 1..Len(buf)
           /\ DOMAIN input = 1..(Len(buf) - 1)
<1>1. input \in Seq(Token) /\ buf \in Seq(Token) /\ Len(buf) = Len(input) + 1
      /\ buf[Len(buf)] = "nul"
  BY InputIs DEF IInv, CutUp
<1>2. Len(input) \in Nat /\ DOMAIN input = 1..Len(input) /\ DOMAIN buf = 1..Len(buf)
  BY <1>1
<1>3. Len(buf) \in Nat \ {0} /\ DOMAIN input = 1..(Len(buf) - 1)
  BY <1>1, <1>2
<1> QED
  BY <1>1, <1>2, <1>3 DEF IInv, Terminated

\* A separator becomes the end of a string.
LEMMA Overwritten ==
    ASSUME input \in Input, NEW b, CutUp(b), NEW e \in 1..Len(b),
           NEW c, c = [b EXCEPT ![e] = "nul"]
    PROVE  /\ CutUp(c) /\ Len(c) = Len(b) /\ c[e] = "nul"
           /\ \A i \in 1..Len(b) : i # e => c[i] = b[i]
<1>1. /\ b \in Seq(Token) /\ Len(b) = Len(input) + 1 /\ b[Len(b)] = "nul"
      /\ input \in Seq(Token)
  BY InputIs DEF CutUp
<1>2. Len(input) \in Nat /\ DOMAIN input = 1..Len(input)
  BY <1>1
<1>3. /\ c \in Seq(Token) /\ Len(c) = Len(b) /\ c[e] = "nul"
      /\ \A i \in 1..Len(b) : i # e => c[i] = b[i]
  <2>1. "nul" \in Token
    BY DEF Token
  <2> QED
    BY <1>1, <2>1, ExceptSeq
<1>4. \A i \in DOMAIN input : i \in 1..Len(b) /\ b[i] \in {input[i], "nul"}
  BY <1>1, <1>2 DEF CutUp
<1>5. \A i \in DOMAIN input : c[i] \in {input[i], "nul"}
  BY <1>3, <1>4
<1>6. c[Len(c)] = "nul"
  <2>1. Len(b) \in 1..Len(b) /\ Len(c) = Len(b)
    BY <1>1, <1>2, <1>3
  <2> QED
    BY <1>1, <1>3, <2>1
<1> QED
  BY <1>1, <1>3, <1>5, <1>6 DEF CutUp

\* A step that leaves the message alone, and calls nothing.
LEMMA Moves ==
    ASSUME IInv, phase' \in Phases \ {"params", "privmsg"},
           UNCHANGED <<input, exit_on_invalid_msg, buf, cur, msg, called, cmdCall>>,
           called = "none" \/ phase' = "done"
    PROVE  IInv'
BY DEF IInv, CutUp, Pointers, CalledInv, SeparatorIsNext, Place, Fits, NParams

\* While the message is split nothing has been called.
LEMMA NotCalled ==
    ASSUME IInv, phase \notin {"privmsg", "done"}
    PROVE  called = "none"
BY DEF IInv, CalledInv

LEMMA Rejects ==
    ASSUME IInv, BadPrefix \/ EmptyCmd \/ BadParam \/ Misfit
    PROVE  IInv'
<1>1. called = "none"
  BY NotCalled DEF BadPrefix, EmptyCmd, BadParam, NextParam, Misfit
<1>2. /\ phase' \in {"exited", "invalid", "done"}
      /\ UNCHANGED <<input, exit_on_invalid_msg, buf, cur, msg, called, cmdCall>>
  BY DEF BadPrefix, EmptyCmd, BadParam, Misfit, Reject
<1> QED
  BY <1>1, <1>2, Moves DEF Phases

LEMMA Skips ==
    ASSUME IInv, NoPrefix \/ NoComponents \/ NoMoreParams \/ Ignore \/ NoBotCmd
    PROVE  IInv'
<1>1. called = "none" \/ phase' = "done"
  BY NotCalled DEF NoPrefix, NoComponents, NoMoreParams, Ignore, NoBotCmd
<1>2. /\ phase' \in {"components", "cmd", "handle", "done"}
      /\ UNCHANGED <<input, exit_on_invalid_msg, buf, cur, msg, called, cmdCall>>
  BY DEF NoPrefix, NoComponents, NoMoreParams, Ignore, NoBotCmd
<1> QED
  BY <1>1, <1>2, Moves DEF Phases

\* A step of split_msg() that may write nulls, move on, and set pointers.
LEMMA Splits ==
    ASSUME IInv, phase \notin {"privmsg", "done"},
           UNCHANGED <<input, exit_on_invalid_msg, called, cmdCall>>, CutUp(buf'),
           cur' \in 1..Len(buf), Pointers', phase' \in Phases \ {"privmsg", "done"},
           phase' = "params" => buf'[cur'] \in Ends
    PROVE  IInv'
<1>1. Len(buf') = Len(buf) /\ CutUp(buf)'
  BY DEF IInv, CutUp
<1>2. called = "none"
  BY NotCalled
<1>3. CalledInv' /\ SeparatorIsNext'
  BY <1>2 DEF CalledInv, SeparatorIsNext
<1>4. cmdCall' \in [rep : Place', cmd : Place', arg : Place']
  BY <1>1 DEF IInv, Place
<1> QED
  BY <1>1, <1>3, <1>4 DEF IInv

\* A set of pointers.
LEMMA PointersSet ==
    ASSUME Pointers, Len(buf') = Len(buf), Len(buf) \in Nat,
           \/ \E p \in Place : msg' = [msg EXCEPT !.prefix = p]
           \/ \E p \in Place : msg' = [msg EXCEPT !.cmd = p]
           \/ \E p \in 1..Len(buf) : msg' = [msg EXCEPT !.params = Append(@, p)]
           \/ msg' = msg
    PROVE  Pointers'
<1>1. Place' = Place
  BY DEF Place
<1>2. \A p \in 1..Len(buf) : Append(msg.params, p) \in Seq(1..Len(buf))
  BY DEF Pointers
<1> QED
  BY <1>1, <1>2 DEF Pointers

LEMMA SplitsPrefix ==
    ASSUME IInv, Prefix
    PROVE  IInv'
<1> DEFINE e == Find(cur + 1, Ends)
<1>1. Terminated /\ cur \in 1..Len(buf) /\ Len(buf) \in Nat \ {0} /\ buf[Len(buf)] = "nul"
  BY InvFacts
<1>2. /\ buf[cur] = ":" /\ phase = "prefix" /\ buf[e] = "sp"
      /\ buf' = [buf EXCEPT ![e] = "nul"] /\ cur' = e + 1
      /\ msg' = [msg EXCEPT !.prefix = cur + 1] /\ phase' = "components"
      /\ UNCHANGED <<input, exit_on_invalid_msg, called, cmdCall>>
  BY DEF Prefix
<1>3. cur + 1 \in 1..Len(buf)
  BY <1>1, <1>2
<1>4. e \in (cur + 1)..Len(buf) /\ e # Len(buf)
  BY <1>1, <1>2, <1>3, Finds DEF Ends
<1> HIDE DEF e
<1>5. e \in 1..Len(buf) /\ cur' \in 1..Len(buf) /\ cur + 1 \in Place
  BY <1>1, <1>2, <1>3, <1>4 DEF Place
<1>6. Len(buf') = Len(buf) /\ CutUp(buf')
  BY <1>2, <1>5, Overwritten DEF IInv
<1>7. Pointers'
  BY <1>1, <1>2, <1>5, <1>6, PointersSet DEF IInv
<1> QED
  BY <1>2, <1>5, <1>6, <1>7, Splits DEF Phases

\* Nickname, username and host are parts of the prefix.
LEMMA SplitsComponents ==
    ASSUME IInv, Components
    PROVE  IInv'
<1> DEFINE bang == Find(msg.prefix, {"!", "nul"})
           host == Find(bang + 1, {"@", "nul"})
<1>1. /\ Terminated /\ cur \in 1..Len(buf) /\ Len(buf) \in Nat \ {0}
      /\ buf[Len(buf)] = "nul"
  BY InvFacts
<1>2. /\ msg.prefix # 0 /\ buf[bang] = "!" /\ phase = "components"
      /\ buf' = [buf EXCEPT ![bang] = "nul", ![host] = "nul"]
      /\ msg' = [msg EXCEPT !.nick = msg.prefix, !.user = bang + 1,
                            !.host = IF Has(bang + 1, "@") THEN host + 1 ELSE 0]
      /\ phase' = "cmd"
      /\ UNCHANGED <<input, exit_on_invalid_msg, cur, called, cmdCall>>
  BY DEF Components, NickFollows, Has
<1>3. msg.prefix \in 1..Len(buf)
  BY <1>1, <1>2 DEF IInv, Pointers, Place
<1>4. bang \in msg.prefix..Len(buf) /\ bang # Len(buf)
  BY <1>1, <1>2, <1>3, Finds
<1>5. bang \in 1..Len(buf) /\ bang + 1 \in 1..Len(buf)
  BY <1>1, <1>3, <1>4
<1>6. host \in (bang + 1)..Len(buf) /\ (Has(bang + 1, "@") => host # Len(buf))
  BY <1>1, <1>5, Finds DEF Has
<1> HIDE DEF bang, host
<1>7. host \in 1..Len(buf) /\ (Has(bang + 1, "@") => host + 1 \in 1..Len(buf))
  BY <1>1, <1>5, <1>6
<1> DEFINE b == [buf EXCEPT ![bang] = "nul"]
<1>8. CutUp(b) /\ Len(b) = Len(buf)
  BY <1>5, Overwritten DEF IInv
<1>9. buf' = [b EXCEPT ![host] = "nul"]
  BY <1>2
<1> HIDE DEF b
<1>10. CutUp(buf') /\ Len(buf') = Len(buf)
  BY <1>7, <1>8, <1>9, Overwritten DEF IInv
<1>11. Pointers'
  <2>1. Place' = Place
    BY <1>10 DEF Place
  <2>2. /\ msg.prefix \in Place \ {0} /\ bang + 1 \in Place \ {0}
        /\ (IF Has(bang + 1, "@") THEN host + 1 ELSE 0) \in Place
    BY <1>1, <1>3, <1>5, <1>7 DEF Place
  <2> QED
    BY <1>2, <1>10, <2>1, <2>2 DEF IInv, Pointers
<1> QED
  BY <1>1, <1>2, <1>10, <1>11, Splits DEF Phases

LEMMA SplitsCmd ==
    ASSUME IInv, Cmd
    PROVE  IInv'
<1>1. /\ Terminated /\ cur \in 1..Len(buf) /\ Len(buf) \in Nat \ {0}
  BY InvFacts
<1>2. /\ phase = "cmd" /\ msg' = [msg EXCEPT !.cmd = cur] /\ cur' = Find(cur, Ends)
      /\ phase' = "params"
      /\ UNCHANGED <<input, exit_on_invalid_msg, buf, called, cmdCall>>
  BY DEF Cmd
<1>3. cur' \in cur..Len(buf) /\ buf[cur'] \in Ends
  BY <1>1, <1>2, Finds DEF Ends
<1>4. cur' \in 1..Len(buf) /\ cur \in Place
  BY <1>1, <1>3 DEF Place
<1>5. Pointers'
  BY <1>1, <1>2, <1>4, PointersSet DEF IInv
<1>6. CutUp(buf')
  BY <1>2 DEF IInv
<1> QED
  BY <1>2, <1>3, <1>4, <1>5, <1>6, Splits DEF Phases

LEMMA SplitsFinalParam ==
    ASSUME IInv, FinalParam
    PROVE  IInv'
<1>1. /\ Terminated /\ cur \in 1..Len(buf) /\ Len(buf) \in Nat \ {0}
      /\ buf[Len(buf)] = "nul"
  BY InvFacts
<1>2. /\ phase = "params" /\ buf[cur] # "nul" /\ buf[cur + 1] = ":"
      /\ buf' = [buf EXCEPT ![cur] = "nul"]
      /\ msg' = [msg EXCEPT !.params = Append(@, cur + 2)]
      /\ phase' = "handle"
      /\ UNCHANGED <<input, exit_on_invalid_msg, cur, called, cmdCall>>
  BY DEF FinalParam, NextParam
<1>3. cur + 2 \in 1..Len(buf)
  BY <1>1, <1>2
<1>4. CutUp(buf') /\ Len(buf') = Len(buf)
  <2>1. input \in Input /\ CutUp(buf) /\ cur \in 1..Len(buf)
    BY <1>1 DEF IInv
  <2>2. buf' = [buf EXCEPT ![cur] = "nul"]
    BY <1>2
  <2> QED
    BY <2>1, <2>2, Overwritten
<1>5. Pointers'
  BY <1>1, <1>2, <1>3, <1>4, PointersSet DEF IInv
<1> QED
  BY <1>1, <1>2, <1>4, <1>5, Splits DEF Phases

LEMMA SplitsParam ==
    ASSUME IInv, Param
    PROVE  IInv'
<1> DEFINE e == Find(cur + 1, Ends)
<1>1. /\ Terminated /\ cur \in 1..Len(buf) /\ Len(buf) \in Nat \ {0}
      /\ buf[Len(buf)] = "nul"
  BY InvFacts
<1>2. /\ phase = "params" /\ buf[cur] # "nul" /\ cur' = e
      /\ buf' = [buf EXCEPT ![cur] = "nul"]
      /\ msg' = [msg EXCEPT !.params = Append(@, cur + 1)]
      /\ UNCHANGED <<input, exit_on_invalid_msg, phase, called, cmdCall>>
  BY DEF Param, NextParam
<1>3. cur + 1 \in 1..Len(buf)
  BY <1>1, <1>2
<1>4. e \in (cur + 1)..Len(buf) /\ buf[e] \in Ends
  BY <1>1, <1>3, Finds DEF Ends
<1> HIDE DEF e
<1>5. e \in 1..Len(buf) /\ e # cur
  BY <1>1, <1>4
<1>6. CutUp(buf') /\ Len(buf') = Len(buf) /\ buf'[e] = buf[e]
  <2>1. input \in Input /\ CutUp(buf) /\ cur \in 1..Len(buf)
    BY <1>1 DEF IInv
  <2>2. buf' = [buf EXCEPT ![cur] = "nul"]
    BY <1>2
  <2>3. CutUp(buf') /\ Len(buf') = Len(buf)
    BY <2>1, <2>2, Overwritten
  <2>4. buf'[e] = buf[e]
    BY <1>1, <1>5, <2>2 DEF Terminated
  <2> QED
    BY <2>3, <2>4
<1>7. Pointers'
  BY <1>1, <1>2, <1>3, <1>6, PointersSet DEF IInv
<1> QED
  BY <1>2, <1>4, <1>5, <1>6, <1>7, Splits DEF Phases

\* handle_msg() checks what the handler it calls needs.
LEMMA CallsHandler ==
    ASSUME IInv, Handle
    PROVE  IInv'
<1>1. PICK c \in Known :
          /\ Fits(c) /\ called' = c
          /\ phase' = IF c = "PRIVMSG" THEN "privmsg" ELSE "done"
  BY DEF Handle
<1>2. UNCHANGED <<input, exit_on_invalid_msg, buf, cur, msg, cmdCall>>
  BY DEF Handle
<1>3. c \in DOMAIN MsgTable
  BY DEF Known
<1>4. CalledInv'
  BY <1>1, <1>2, <1>3 DEF CalledInv, Fits, NParams
<1>5. SeparatorIsNext' /\ phase' \in Phases
  BY <1>1 DEF SeparatorIsNext, Phases
<1> QED
  BY <1>2, <1>4, <1>5 DEF IInv, CutUp, Pointers, Place

\* The text of a PRIVMSG is there, and so is what follows its first character.
LEMMA CallsCommand ==
    ASSUME IInv, BotCmd
    PROVE  IInv'
<1> DEFINE e == Find(text, Ends)
<1>1. /\ Terminated /\ Len(buf) \in Nat \ {0} /\ buf[Len(buf)] = "nul"
  BY InvFacts
<1>2. /\ phase = "privmsg" /\ buf[text] = CmdChar
      /\ buf' = [buf EXCEPT ![e] = "nul"]
      /\ cmdCall' = [rep |-> IF IsChannel(to) THEN to ELSE msg.prefix,
                     cmd |-> text + 1,
                     arg |-> IF buf[e] = "nul" \/ buf[e + 1] = "nul" THEN 0
                             ELSE e + 1]
      /\ phase' = "done"
      /\ UNCHANGED <<input, exit_on_invalid_msg, cur, msg, called>>
  BY DEF BotCmd
<1>3. called = "PRIVMSG" /\ NParams = 2
  BY <1>2, MsgTableFacts DEF IInv, CalledInv, Fits
<1>4. to \in 1..Len(buf) /\ text \in 1..Len(buf) /\ msg.prefix \in Place
  BY <1>3 DEF IInv, Pointers, NParams, to, text
<1>5. text # Len(buf)
  BY <1>1, <1>2, IrcMsgAssumption
<1>6. e \in text..Len(buf) /\ buf[e] \in Ends
  BY <1>1, <1>4, Finds DEF Ends
<1> HIDE DEF e
<1>7. e \in 1..Len(buf) /\ (buf[e] # "nul" => e + 1 \in Place)
  BY <1>1, <1>4, <1>6 DEF Place
<1>8. CutUp(buf') /\ Len(buf') = Len(buf)
  BY <1>2, <1>7, Overwritten DEF IInv
<1>9. Place' = Place /\ to \in Place /\ text + 1 \in Place /\ 0 \in Place
  BY <1>1, <1>4, <1>5, <1>8 DEF Place
<1>10. cmdCall' \in [rep : Place', cmd : Place', arg : Place']
  BY <1>2, <1>4, <1>7, <1>9
<1>11. CalledInv' /\ SeparatorIsNext' /\ phase' \in Phases
  BY <1>2, <1>3
  DEF IInv, CalledInv, SeparatorIsNext, Phases, Fits, NParams
<1>12. Pointers'
  BY <1>2, <1>8, <1>9 DEF IInv, Pointers
<1> QED
  BY <1>2, <1>8, <1>10, <1>11, <1>12 DEF IInv, CutUp

LEMMA InvNext == IInv /\ [Next]_vars => IInv'
<1> SUFFICES ASSUME IInv, [Next]_vars PROVE IInv'
  OBVIOUS
<1>1. CASE BadPrefix \/ EmptyCmd \/ BadParam \/ Misfit
  BY <1>1, Rejects
<1>2. CASE NoPrefix \/ NoComponents \/ NoMoreParams \/ Ignore \/ NoBotCmd
  BY <1>2, Skips
<1>3. CASE Prefix \/ Components \/ Cmd \/ FinalParam \/ Param
  BY <1>3, SplitsPrefix, SplitsComponents, SplitsCmd, SplitsFinalParam, SplitsParam
<1>4. CASE Handle \/ BotCmd
  BY <1>4, CallsHandler, CallsCommand
<1>5. CASE UNCHANGED vars
  BY <1>5
  DEF vars, IInv, CutUp, Pointers, CalledInv, SeparatorIsNext, Place, Fits, NParams
<1> QED
  BY <1>1, <1>2, <1>3, <1>4, <1>5 DEF Next, Split

-------------------------------------------------------------------------------
(* Theorems *)

LEMMA MessageInv == Spec => []IInv
BY InvInit, InvNext, PTL DEF Spec

\* The parser stays within the message, of any length, whatever it holds, and
\* all it writes to it are nulls; what an IRC_msg points to is in the message.
THEOREM TypeCorrect == Spec => []TypeOK
<1>1. IInv => TypeOK
  <2> SUFFICES ASSUME IInv PROVE TypeOK
    OBVIOUS
  <2>1. msg.params \in Seq(Place)
    <3>1. msg.params \in Seq(1..Len(buf)) /\ 1..Len(buf) \subseteq Place
      BY InvFacts DEF IInv, Pointers, Place
    <3> QED
      BY <3>1, SeqMonotonic
  <2> QED
    BY <2>1 DEF TypeOK, IInv, CutUp, Pointers, CalledInv
<1> QED
  BY <1>1, MessageInv, PTL

\* The assertion of extract_msg_params() cannot fail: every round of its loop
\* finds a space or the end.
THEOREM AssertionHolds == Spec => []SeparatorIsNext
<1>1. IInv => SeparatorIsNext
  BY DEF IInv
<1> QED
  BY <1>1, MessageInv, PTL

\* handle_msg() calls no handler that reads more than the message has.
THEOREM HandlersAreSafe == Spec => []HandlersReadWhatIsThere
<1>1. IInv => HandlersReadWhatIsThere
  <2> SUFFICES ASSUME IInv PROVE HandlersReadWhatIsThere
    OBVIOUS
  <2>1. NParams \in Nat
    BY DEF IInv, Pointers, NParams
  <2>2. Reads \subseteq 1..NParams
    <3>1. CASE called \in {"ERROR", "JOIN", "NICK", "PING"}
      <4>1. NParams = 1
        BY <3>1, MsgTableFacts DEF IInv, CalledInv, Fits
      <4> QED
        BY <3>1, <4>1 DEF Reads
    <3>2. CASE called = "KICK"
      <4>1. NParams \in 2..3
        BY <3>2, MsgTableFacts DEF IInv, CalledInv, Fits
      <4> QED
        BY <3>2, <4>1 DEF Reads
    <3>3. CASE called = "PART"
      <4>1. NParams \in 1..2
        BY <3>3, MsgTableFacts DEF IInv, CalledInv, Fits
      <4> QED
        BY <3>3, <4>1 DEF Reads
    <3>4. CASE called = "PRIVMSG"
      <4>1. NParams = 2
        BY <3>4, MsgTableFacts DEF IInv, CalledInv, Fits
      <4> QED
        BY <3>4, <4>1 DEF Reads
    <3>5. CASE called = "QUIT"
      <4>1. NParams \in 0..1
        BY <3>5, MsgTableFacts DEF IInv, CalledInv, Fits
      <4> QED
        BY <3>5, <4>1 DEF Reads
    <3>6. CASE called \notin {"ERROR", "JOIN", "NICK", "PING", "KICK", "PART",
                             "PRIVMSG", "QUIT"}
      BY <3>6 DEF Reads
    <3> QED
      BY <3>1, <3>2, <3>3, <3>4, <3>5, <3>6
  <2>3. called \in {"JOIN", "KICK", "NICK", "PART", "PRIVMSG", "QUIT"} =>
          msg.nick # 0
    BY MsgTableFacts DEF IInv, CalledInv, Fits
  <2>4. msg.nick # 0 => msg.user # 0
    BY DEF IInv, Pointers
  <2> QED
    BY <2>2, <2>3, <2>4 DEF HandlersReadWhatIsThere
<1> QED
  BY <1>1, MessageInv, PTL

-------------------------------------------------------------------------------
(* Parts of a text                                                         *)

LEMMA SliceFacts ==
    ASSUME NEW s \in Seq(Token), NEW a \in 1..(Len(s) + 1), NEW b \in (a - 1)..Len(s)
    PROVE  /\ SubSeq(s, a, b) \in Seq(Token)
           /\ Len(SubSeq(s, a, b)) = (b - a) + 1
           /\ \A k \in 1..((b - a) + 1) : SubSeq(s, a, b)[k] = s[(a + k) - 1]
<1>1. a \in Int /\ b \in Int /\ \A i \in a..b : s[i] \in Token
  OBVIOUS
<1> DEFINE t == SubSeq(s, a, b)
<1>2. /\ t \in Seq(Token)
      /\ Len(t) = IF a <= b THEN b - a + 1 ELSE 0
      /\ \A i \in 1..(b - a + 1) : t[i] = s[a + i - 1]
  BY <1>1, SubSeqProperties
<1> HIDE DEF t
<1>3. Len(t) = (b - a) + 1
  BY <1>2
<1> QED
  BY <1>2, <1>3 DEF t

LEMMA SliceOfSlice ==
    ASSUME NEW s \in Seq(Token), NEW a \in 1..(Len(s) + 1), NEW b \in (a - 1)..Len(s),
           NEW c \in 1..((b - a) + 2), NEW d \in (c - 1)..((b - a) + 1)
    PROVE  SubSeq(SubSeq(s, a, b), c, d) = SubSeq(s, (a + c) - 1, (a + d) - 1)
<1> DEFINE t == SubSeq(s, a, b)
           u == SubSeq(t, c, d)
           v == SubSeq(s, (a + c) - 1, (a + d) - 1)
<1>1. /\ t \in Seq(Token) /\ Len(t) = (b - a) + 1
      /\ \A k \in 1..((b - a) + 1) : t[k] = s[(a + k) - 1]
  BY SliceFacts
<1> HIDE DEF t
<1>2. c \in 1..(Len(t) + 1) /\ d \in (c - 1)..Len(t)
  BY <1>1
<1>3. /\ u \in Seq(Token) /\ Len(u) = (d - c) + 1
      /\ \A k \in 1..((d - c) + 1) : u[k] = t[(c + k) - 1]
  BY <1>1, <1>2, SliceFacts
<1> HIDE DEF u
<1> DEFINE x == (a + c) - 1
           y == (a + d) - 1
<1>4. x \in 1..(Len(s) + 1) /\ y \in (x - 1)..Len(s)
  OBVIOUS
<1>5. y - x = d - c /\ \A k \in Nat : (x + k) - 1 = (a + ((c + k) - 1)) - 1
  OBVIOUS
<1> HIDE DEF x, y
<1>6. /\ SubSeq(s, x, y) \in Seq(Token) /\ Len(SubSeq(s, x, y)) = (y - x) + 1
      /\ \A k \in 1..((y - x) + 1) : SubSeq(s, x, y)[k] = s[(x + k) - 1]
  BY <1>4, SliceFacts
<1>7. ASSUME NEW k \in 1..((d - c) + 1) PROVE u[k] = SubSeq(s, x, y)[k]
  <2>1. (c + k) - 1 \in 1..((b - a) + 1) /\ k \in Nat
    OBVIOUS
  <2>2. u[k] = t[(c + k) - 1] /\ t[(c + k) - 1] = s[(a + ((c + k) - 1)) - 1]
    BY <1>1, <1>3, <2>1
  <2>3. SubSeq(s, x, y)[k] = s[(x + k) - 1]
    BY <1>5, <1>6
  <2> QED
    BY <1>5, <2>1, <2>2, <2>3
<1>8. u = SubSeq(s, x, y)
  <2> DEFINE w == SubSeq(s, x, y)
  <2>1. u \in Seq(Token) /\ w \in Seq(Token) /\ Len(u) = Len(w)
    BY <1>3, <1>5, <1>6
  <2>2. \A k \in 1..Len(u) : u[k] = w[k]
    BY <1>3, <1>7
  <2> HIDE DEF w
  <2>3. u = w
    BY <2>1, <2>2, SeqEqual
  <2> QED
    BY <2>3 DEF w
<1> QED
  BY <1>8 DEF t, u, v, x, y

\* FirstPlace, where tok is found and where not.
LEMMA PlaceIs ==
    ASSUME NEW t \in Seq(Token), NEW tok, NEW j \in 1..(Len(t) + 1),
           \A k \in 1..(j - 1) : t[k] # tok, j <= Len(t) => t[j] = tok
    PROVE  FirstPlace(t, tok) = j /\ (Places(t, tok) = {} <=> j = Len(t) + 1)
<1>1. Len(t) \in Nat /\ DOMAIN t = 1..Len(t)
  OBVIOUS
<1>2. CASE j = Len(t) + 1
  <2>1. j - 1 = Len(t)
    BY <1>1, <1>2
  <2>2. Places(t, tok) = {}
    BY <1>1, <2>1 DEF Places
  <2> QED
    BY <1>2, <2>2 DEF FirstPlace
<1>3. CASE j # Len(t) + 1
  <2>1. j \in 1..Len(t)
    BY <1>1, <1>3
  <2> DEFINE P == Places(t, tok)
  <2>2. j \in P
    BY <1>1, <2>1 DEF Places
  <2>3. \A i \in P : i \in 1..Len(t) /\ t[i] = tok
    BY <1>1 DEF Places
  <2>4. \A i \in P : j <= i
    BY <1>1, <2>3
  <2>5. P # {} /\ FirstPlace(t, tok) = CHOOSE i \in P : \A l \in P : i <= l
    BY <2>2 DEF FirstPlace
  <2> HIDE DEF P
  <2>6. \A i \in P : (\A l \in P : i <= l) => i = j
    BY <2>2, <2>3, <2>4
  <2>7. FirstPlace(t, tok) = j
    BY <2>2, <2>4, <2>5, <2>6
  <2> QED
    BY <1>3, <2>5, <2>7 DEF P
<1> QED
  BY <1>2, <1>3

LEMMA PlaceFacts ==
    ASSUME NEW t \in Seq(Token), NEW tok
    PROVE  /\ FirstPlace(t, tok) \in 1..(Len(t) + 1)
           /\ \A k \in 1..(FirstPlace(t, tok) - 1) : t[k] # tok
           /\ FirstPlace(t, tok) <= Len(t) => t[FirstPlace(t, tok)] = tok
           /\ Places(t, tok) = {} <=> FirstPlace(t, tok) = Len(t) + 1
<1> DEFINE n == Len(t) + 1
           P == {k \in 1..n : k <= Len(t) => t[k] = tok}
<1>1. Len(t) \in Nat /\ n \in Nat /\ n \in 1..n /\ n \in P /\ 1 \in Nat
  OBVIOUS
<1> HIDE DEF P, n
<1>2. PICK j \in 1..n : j \in P /\ \A k \in 1..(j - 1) : k \notin P
  BY <1>1, FirstOne
<1>3. /\ j \in 1..(Len(t) + 1)
      /\ j <= Len(t) => t[j] = tok
      /\ \A k \in 1..(j - 1) : t[k] # tok
  BY <1>1, <1>2 DEF P, n
<1>4. FirstPlace(t, tok) = j /\ (Places(t, tok) = {} <=> j = Len(t) + 1)
  BY <1>3, PlaceIs
<1> QED
  BY <1>3, <1>4

\* tok cuts s from a to b in two at j, or is not in it.
CutAt(s, a, b, tok, j) ==
    LET t == SubSeq(s, a, b)
    IN  /\ FirstPlace(t, tok) = (j - a) + 1
        /\ Before(t, tok) = SubSeq(s, a, j - 1)
        /\ j <= b => After(t, tok) = SubSeq(s, j + 1, b)
        /\ Places(t, tok) = {} <=> j = b + 1

LEMMA SliceAt ==
    ASSUME NEW s \in Seq(Token), NEW a \in 1..(Len(s) + 1), NEW b \in (a - 1)..Len(s),
           NEW tok, NEW j \in a..(b + 1),
           \A k \in a..(j - 1) : s[k] # tok, j <= b => s[j] = tok
    PROVE  CutAt(s, a, b, tok, j)
<1> DEFINE t == SubSeq(s, a, b)
           i == (j - a) + 1
<1>1. /\ t \in Seq(Token) /\ Len(t) = (b - a) + 1
      /\ \A k \in 1..((b - a) + 1) : t[k] = s[(a + k) - 1]
  BY SliceFacts
<1>2. a \in Nat /\ b \in Int /\ j \in Nat /\ i \in 1..((b - a) + 2) /\ Len(s) \in Nat
  OBVIOUS
<1> HIDE DEF t
<1>3. ASSUME NEW k \in 1..(i - 1) PROVE t[k] # tok
  <2>1. (a + k) - 1 \in a..(j - 1) /\ k \in 1..((b - a) + 1)
    BY <1>2
  <2> QED
    BY <1>1, <2>1
<1>4. i <= Len(t) => t[i] = tok
  <2>1. (a + i) - 1 = j
    BY <1>2
  <2>2. i <= Len(t) => i \in 1..((b - a) + 1) /\ j <= b
    BY <1>1, <1>2
  <2> QED
    BY <1>1, <2>1, <2>2
<1>5. i \in 1..(Len(t) + 1)
  BY <1>1, <1>2
<1> HIDE DEF i
<1>6. FirstPlace(t, tok) = i /\ (Places(t, tok) = {} <=> i = Len(t) + 1)
  BY <1>1, <1>3, <1>4, <1>5, PlaceIs
<1>7. Before(t, tok) = SubSeq(s, a, j - 1)
  <2> DEFINE d == i - 1
             c == 1
  <2>1. /\ c \in 1..((b - a) + 2) /\ d \in (c - 1)..((b - a) + 1)
        /\ (a + c) - 1 = a /\ (a + d) - 1 = j - 1
    BY <1>2 DEF i
  <2>2. Before(t, tok) = SubSeq(t, c, d)
    BY <1>6 DEF Before
  <2> HIDE DEF c, d
  <2>3. SubSeq(SubSeq(s, a, b), c, d) = SubSeq(s, (a + c) - 1, (a + d) - 1)
    BY <2>1, SliceOfSlice
  <2> QED
    BY <2>1, <2>2, <2>3 DEF t
<1>8. ASSUME j <= b PROVE After(t, tok) = SubSeq(s, j + 1, b)
  <2> DEFINE c == i + 1
             d == Len(t)
  <2>1. /\ c \in 1..((b - a) + 2) /\ d \in (c - 1)..((b - a) + 1)
        /\ (a + c) - 1 = j + 1 /\ (a + d) - 1 = b
    BY <1>1, <1>2, <1>8 DEF i
  <2>2. After(t, tok) = SubSeq(t, c, d)
    BY <1>6 DEF After
  <2> HIDE DEF c, d
  <2>3. SubSeq(SubSeq(s, a, b), c, d) = SubSeq(s, (a + c) - 1, (a + d) - 1)
    BY <2>1, SliceOfSlice
  <2> QED
    BY <2>1, <2>2, <2>3 DEF t
<1>9. i = Len(t) + 1 <=> j = b + 1
  BY <1>1, <1>2 DEF i
<1> QED
  BY <1>6, <1>7, <1>8, <1>9 DEF t, i, CutAt

-------------------------------------------------------------------------------
(* The words of a text                                                     *)

\* Where what follows the prefix begins, less one.
Base(s) == IF HasPrefix(s) THEN FirstPlace(s, "sp") ELSE 0

PrefixIsGood(s) == HasPrefix(s) => PrefixOf(s) # <<>> /\ Places(s, "sp") # {}

LEMMA BaseFacts ==
    ASSUME NEW s \in Seq(Token), s # <<>>, HasPrefix(s)
    PROVE  /\ Base(s) \in 2..(Len(s) + 1)
           /\ \A k \in 1..(Base(s) - 1) : s[k] # "sp"
           /\ Base(s) <= Len(s) => s[Base(s)] = "sp"
           /\ PrefixOf(s) = SubSeq(s, 2, Base(s) - 1)
           /\ Places(s, "sp") = {} <=> Base(s) = Len(s) + 1
           /\ PrefixOf(s) = <<>> <=> Base(s) = 2
<1> DEFINE f == FirstPlace(s, "sp")
<1>1. Len(s) \in Nat \ {0} /\ s[1] = ":"
  BY DEF HasPrefix
<1>2. /\ f \in 1..(Len(s) + 1)
      /\ \A k \in 1..(f - 1) : s[k] # "sp"
      /\ f <= Len(s) => s[f] = "sp"
      /\ Places(s, "sp") = {} <=> f = Len(s) + 1
  BY PlaceFacts
<1>3. Base(s) = f
  BY DEF Base
<1>4. Before(s, "sp") = SubSeq(s, 1, f - 1)
  BY DEF Before
<1> HIDE DEF f
<1>5. f # 1 /\ f \in 2..(Len(s) + 1)
  BY <1>1, <1>2
<1>6. PrefixOf(s) = SubSeq(s, 2, f - 1)
  <2> DEFINE m == 1
             n == f - 1
  <2>1. m \in 1..Len(s) /\ n \in m..Len(s)
    BY <1>1, <1>5
  <2> HIDE DEF m, n
  <2>2. Tail(SubSeq(s, m, n)) = SubSeq(s, m + 1, n)
    BY <2>1, HeadTailOfSubSeq
  <2>3. Before(s, "sp") = SubSeq(s, m, n)
    BY <1>4 DEF m, n
  <2>4. m + 1 = 2
    BY DEF m
  <2>5. PrefixOf(s) = SubSeq(s, 2, n)
    BY <2>2, <2>3, <2>4 DEF PrefixOf
  <2> QED
    BY <2>5 DEF n
<1>7. SubSeq(s, 2, f - 1) = <<>> <=> f = 2
  <2> DEFINE m == 2
             n == f - 1
  <2>1. m \in 1..(Len(s) + 1) /\ n \in (m - 1)..Len(s)
    BY <1>1, <1>5
  <2> HIDE DEF m, n
  <2>2. SubSeq(s, m, n) \in Seq(Token) /\ Len(SubSeq(s, m, n)) = (n - m) + 1
    BY <2>1, SliceFacts
  <2>3. SubSeq(s, m, n) = <<>> <=> (n - m) + 1 = 0
    BY <2>2, EmptySeq
  <2>4. (n - m) + 1 = 0 <=> f = 2
    BY <1>5 DEF m, n
  <2> QED
    BY <2>3, <2>4 DEF m, n
<1> QED
  BY <1>2, <1>3, <1>5, <1>6, <1>7

LEMMA BodyFacts ==
    ASSUME NEW s \in Seq(Token), s # <<>>, PrefixIsGood(s)
    PROVE  /\ Base(s) \in 0..Len(s)
           /\ BodyOf(s) \in Seq(Token) /\ Len(BodyOf(s)) = Len(s) - Base(s)
           /\ BodyOf(s) = SubSeq(s, Base(s) + 1, Len(s))
           /\ \A i \in 1..Len(BodyOf(s)) : BodyOf(s)[i] = s[Base(s) + i]
<1>1. Len(s) \in Nat
  OBVIOUS
<1>2. Base(s) \in 0..Len(s)
  <2>1. CASE HasPrefix(s)
    BY <1>1, <2>1, BaseFacts DEF PrefixIsGood
  <2>2. CASE ~HasPrefix(s)
    BY <1>1, <2>2 DEF Base
  <2> QED
    BY <2>1, <2>2
<1>3. BodyOf(s) = SubSeq(s, Base(s) + 1, Len(s))
  <2>1. CASE HasPrefix(s)
    BY <2>1 DEF BodyOf, After, Base
  <2>2. CASE ~HasPrefix(s)
    <3>1. SubSeq(s, 1, Len(s)) = s
      BY SubSeqFull
    <3>2. Base(s) + 1 = 1
      BY <2>2 DEF Base
    <3> QED
      BY <2>2, <3>1, <3>2 DEF BodyOf
  <2> QED
    BY <2>1, <2>2
<1> DEFINE a == Base(s) + 1
           b == Len(s)
           t == SubSeq(s, a, b)
<1>4. a \in 1..(Len(s) + 1) /\ b \in (a - 1)..Len(s)
  BY <1>1, <1>2
<1>5. (b - a) + 1 = Len(s) - Base(s) /\ \A k \in Nat : (a + k) - 1 = Base(s) + k
  BY <1>1, <1>2
<1> HIDE DEF a, b
<1>6. /\ t \in Seq(Token) /\ Len(t) = (b - a) + 1
      /\ \A k \in 1..((b - a) + 1) : t[k] = s[(a + k) - 1]
  BY <1>4, SliceFacts
<1>7. BodyOf(s) = t
  BY <1>3 DEF a, b
<1> HIDE DEF t
<1>8. Len(BodyOf(s)) = Len(s) - Base(s) /\ BodyOf(s) \in Seq(Token)
  BY <1>5, <1>6, <1>7
<1>9. ASSUME NEW i \in 1..Len(BodyOf(s)) PROVE BodyOf(s)[i] = s[Base(s) + i]
  <2>1. i \in Nat /\ i \in 1..((b - a) + 1)
    BY <1>1, <1>2, <1>5, <1>8
  <2> QED
    BY <1>5, <1>6, <1>7, <2>1
<1> QED
  BY <1>2, <1>3, <1>8, <1>9

\* Where the last parameter begins, or the end.
ColonAt(b, i) == i + 1 <= Len(b) /\ b[i] = "sp" /\ b[i + 1] = ":"

LEMMA ColonIs ==
    ASSUME NEW b \in Seq(Token), NEW c \in 1..(Len(b) + 1),
           \A i \in 1..(c - 1) : ~ColonAt(b, i), c <= Len(b) => ColonAt(b, c)
    PROVE  Colon(b) = c
<1> DEFINE A == {i \in 1..(Len(b) - 1) : b[i] = "sp" /\ b[i + 1] = ":"}
<1>1. Len(b) \in Nat
  OBVIOUS
<1>2. \A i \in 1..Len(b) : i \in A <=> ColonAt(b, i)
  BY <1>1 DEF ColonAt
<1>3. \A i \in A : i \in 1..Len(b)
  BY <1>1
<1>4. Colon(b) = IF A = {} THEN Len(b) + 1 ELSE CHOOSE i \in A : \A j \in A : i <= j
  BY DEF Colon
<1> HIDE DEF A
<1>5. CASE c = Len(b) + 1
  <2>1. A = {}
    BY <1>1, <1>2, <1>3, <1>5
  <2> QED
    BY <1>4, <1>5, <2>1
<1>6. CASE c # Len(b) + 1
  <2>1. c \in A
    BY <1>1, <1>2, <1>6
  <2>2. \A i \in A : c <= i
    BY <1>1, <1>2, <1>3
  <2>3. \A i \in A : (\A j \in A : i <= j) => i = c
    BY <1>1, <1>3, <2>1, <2>2
  <2> QED
    BY <1>4, <2>1, <2>2, <2>3
<1> QED
  BY <1>5, <1>6

LEMMA ColonFacts ==
    ASSUME NEW b \in Seq(Token)
    PROVE  /\ Colon(b) \in 1..(Len(b) + 1)
           /\ \A i \in 1..(Colon(b) - 1) : ~ColonAt(b, i)
           /\ Colon(b) <= Len(b) => ColonAt(b, Colon(b))
<1> DEFINE n == Len(b) + 1
           P == {k \in 1..n : k <= Len(b) => ColonAt(b, k)}
<1>1. Len(b) \in Nat /\ n \in Nat /\ n \in 1..n /\ n \in P /\ 1 \in Nat
  OBVIOUS
<1> HIDE DEF P, n
<1>2. PICK j \in 1..n : j \in P /\ \A k \in 1..(j - 1) : k \notin P
  BY <1>1, FirstOne
<1>3. /\ j \in 1..(Len(b) + 1)
      /\ j <= Len(b) => ColonAt(b, j)
      /\ \A k \in 1..(j - 1) : ~ColonAt(b, k)
  BY <1>1, <1>2 DEF P, n
<1>4. Colon(b) = j
  BY <1>3, ColonIs
<1> QED
  BY <1>3, <1>4

\* Where the words before the last parameter end.
AllStops(b) == {i \in 1..Colon(b) : i = Colon(b) \/ b[i] = "sp"}

\* Where word k begins if the words before it end at q.
WordFrom(q, k) == IF k = 1 THEN 1 ELSE q[k - 1] + 1

LEMMA StopsAre ==
    ASSUME NEW b \in Seq(Token)
    PROVE  /\ AllStops(b) \in SUBSET Nat /\ IsFiniteSet(AllStops(b))
           /\ LET head == SubSeq(b, 1, Colon(b) - 1)
              IN  AllStops(b) = Places(head, "sp") \cup {Len(head) + 1}
<1> DEFINE c == Colon(b)
           head == SubSeq(b, 1, c - 1)
<1>1. Len(b) \in Nat /\ c \in 1..(Len(b) + 1)
  BY ColonFacts
<1> DEFINE x == 1
           y == c - 1
<1>2. x \in 1..(Len(b) + 1) /\ y \in (x - 1)..Len(b)
  BY <1>1
<1>3. (y - x) + 1 = c - 1 /\ \A k \in Nat : (x + k) - 1 = k
  BY <1>1
<1> HIDE DEF x, y
<1>4. /\ SubSeq(b, x, y) \in Seq(Token) /\ Len(SubSeq(b, x, y)) = (y - x) + 1
      /\ \A k \in 1..((y - x) + 1) : SubSeq(b, x, y)[k] = b[(x + k) - 1]
  BY <1>2, SliceFacts
<1>5. head = SubSeq(b, x, y)
  BY DEF x, y
<1> HIDE DEF head, c
<1>6. /\ Len(head) = c - 1 /\ DOMAIN head = 1..(c - 1)
      /\ \A k \in 1..(c - 1) : head[k] = b[k]
  <2>1. head \in Seq(Token) /\ Len(head) = c - 1
    BY <1>3, <1>4, <1>5
  <2>2. ASSUME NEW k \in 1..(c - 1) PROVE head[k] = b[k]
    <3>1. k \in Nat /\ k \in 1..((y - x) + 1)
      BY <1>1, <1>3
    <3> QED
      BY <1>3, <1>4, <1>5, <3>1
  <2> QED
    BY <2>1, <2>2
<1>7. AllStops(b) = Places(head, "sp") \cup {Len(head) + 1}
  BY <1>1, <1>6 DEF AllStops, Places, c
<1>8. AllStops(b) \in SUBSET (1..c)
  BY DEF AllStops, c
<1>9. IsFiniteSet(1..c)
  <2>1. 1 \in Int /\ c \in Int
    BY <1>1
  <2> QED
    BY <2>1, FS_Interval
<1>10. IsFiniteSet(AllStops(b))
  BY <1>8, <1>9, FS_Subset
<1>11. AllStops(b) \in SUBSET Nat
  BY <1>1, <1>8
<1> QED
  BY <1>7, <1>10, <1>11 DEF head, c

\* The words of b begin with those that end at the stops q.
LEMMA WordsBegin ==
    ASSUME NEW b \in Seq(Token), NEW q, Increasing(q), NEW x \in Nat,
           {i \in AllStops(b) : i <= x} = {q[j] : j \in 1..Len(q)}
    PROVE  /\ WordsOf(b) = [k \in 1..Len(WordsOf(b)) |-> WordsOf(b)[k]]
           /\ Len(WordsOf(b)) = Cardinality(AllStops(b))
           /\ Len(q) <= Len(WordsOf(b))
           /\ \A k \in 1..Len(q) :
                 WordsOf(b)[k] = SubSeq(b, WordFrom(q, k), q[k] - 1)
<1> DEFINE S == AllStops(b)
           head == SubSeq(b, 1, Colon(b) - 1)
           st == Ascending(S)
           from(k) == IF k = 1 THEN 1 ELSE st[k - 1] + 1
<1>1. S \in SUBSET Nat /\ IsFiniteSet(S) /\ S = Places(head, "sp") \cup {Len(head) + 1}
  BY StopsAre
<1>2. Cardinality(S) \in Nat
  BY <1>1, FS_CardinalityType
<1>3. Len(st) = Cardinality(S)
  BY <1>2 DEF Ascending
<1>4. WordsOf(b) = [k \in 1..Len(st) |-> SubSeq(head, from(k), st[k] - 1)]
  BY <1>1 DEF WordsOf
<1>5. Len(q) <= Cardinality(S) /\ \A k \in 1..Len(q) : st[k] = q[k]
  BY <1>1, AscendingBegins
<1>6. q \in Seq(Nat) /\ Len(q) \in Nat
  BY DEF Increasing
<1>7. Colon(b) \in 1..(Len(b) + 1) /\ Len(b) \in Nat
  BY ColonFacts
<1>8. \A k \in 1..Len(q) : q[k] \in S /\ q[k] \in 1..Colon(b)
  <2>1. \A k \in 1..Len(q) : q[k] \in S
    BY <1>6
  <2> QED
    BY <2>1 DEF AllStops
<1> HIDE DEF st, S
<1>9. ASSUME NEW k \in 1..Len(q)
      PROVE  WordsOf(b)[k] = SubSeq(b, WordFrom(q, k), q[k] - 1)
  <2>1. k \in 1..Len(st) /\ st[k] = q[k]
    BY <1>2, <1>3, <1>5, <1>6
  <2>2. from(k) = WordFrom(q, k)
    <3>1. CASE k = 1
      BY <3>1 DEF WordFrom
    <3>2. CASE k # 1
      <4>1. k - 1 \in 1..Len(q)
        BY <1>6, <3>2
      <4> QED
        BY <1>5, <3>2, <4>1 DEF WordFrom
    <3> QED
      BY <3>1, <3>2
  <2> HIDE DEF from, head
  <2>3. WordsOf(b)[k] = SubSeq(head, WordFrom(q, k), q[k] - 1)
    BY <1>4, <2>1, <2>2
  <2>4. WordFrom(q, k) \in 1..q[k]
    <3>1. CASE k = 1
      BY <1>8, <3>1 DEF WordFrom
    <3>2. CASE k # 1
      <4>1. k - 1 \in 1..Len(q) /\ k - 1 < k
        BY <1>6, <3>2
      <4>2. q[k - 1] < q[k] /\ q[k - 1] \in Nat /\ q[k] \in Nat
        BY <1>6, <4>1, SMTT(30) DEF Increasing
      <4> QED
        BY <3>2, <4>2 DEF WordFrom
    <3> QED
      BY <3>1, <3>2
  <2> DEFINE x1 == 1
             y1 == Colon(b) - 1
             c1 == WordFrom(q, k)
             d1 == q[k] - 1
  <2>5. q[k] \in 1..Colon(b)
    BY <1>8
  <2>6. /\ x1 \in 1..(Len(b) + 1) /\ y1 \in (x1 - 1)..Len(b)
        /\ c1 \in 1..((y1 - x1) + 2) /\ d1 \in (c1 - 1)..((y1 - x1) + 1)
        /\ (x1 + c1) - 1 = c1 /\ (x1 + d1) - 1 = d1
    BY <1>7, <2>4, <2>5, SMTT(30)
  <2>7. SubSeq(head, c1, d1) = SubSeq(SubSeq(b, x1, y1), c1, d1)
    BY DEF head
  <2> HIDE DEF x1, y1, c1, d1
  <2>8. SubSeq(SubSeq(b, x1, y1), c1, d1) = SubSeq(b, (x1 + c1) - 1, (x1 + d1) - 1)
    BY <2>6, SliceOfSlice
  <2> QED
    BY <2>3, <2>6, <2>7, <2>8 DEF c1, d1
<1>10. /\ WordsOf(b) = [k \in 1..Len(WordsOf(b)) |-> WordsOf(b)[k]]
       /\ Len(WordsOf(b)) = Cardinality(S)
  <2> DEFINE n == Cardinality(S)
             word(k) == SubSeq(head, from(k), st[k] - 1)
  <2>1. WordsOf(b) = [k \in 1..n |-> word(k)] /\ n \in Nat
    BY <1>2, <1>3, <1>4
  <2> HIDE DEF n, word
  <2>2. Len(WordsOf(b)) = n
    BY <2>1
  <2>3. WordsOf(b) = [k \in 1..n |-> WordsOf(b)[k]]
    BY <2>1
  <2> QED
    BY <2>2, <2>3 DEF n
<1>11. Len(q) <= Len(WordsOf(b))
  BY <1>5, <1>10
<1> QED
  BY <1>9, <1>10, <1>11 DEF S

\* p is q with x at its end.
Extends(q, x, p) ==
    /\ Increasing(p)
    /\ Len(p) = Len(q) + 1
    /\ p[Len(q) + 1] = x
    /\ \A k \in 1..Len(q) : p[k] = q[k]
    /\ {p[j] : j \in 1..Len(p)} = {q[j] : j \in 1..Len(q)} \cup {x}

LEMMA LongerOne ==
    ASSUME NEW q, Increasing(q), NEW x \in Nat, \A k \in 1..Len(q) : q[k] < x
    PROVE  Extends(q, x, Append(q, x))
<1>1. q \in Seq(Nat) /\ Len(q) \in Nat
  BY DEF Increasing
<1> DEFINE p == Append(q, x)
<1>2. /\ p \in Seq(Nat) /\ Len(p) = Len(q) + 1 /\ p[Len(q) + 1] = x
      /\ \A k \in 1..Len(q) : p[k] = q[k]
  BY <1>1, AppendProperties
<1> HIDE DEF p
<1>3. Increasing(p)
  <2>1. ASSUME NEW j \in 1..Len(p), NEW k \in 1..Len(p), j < k PROVE p[j] < p[k]
    <3>1. j \in 1..Len(q)
      BY <1>1, <1>2, <2>1
    <3>2. CASE k \in 1..Len(q)
      BY <1>2, <2>1, <3>1, <3>2 DEF Increasing
    <3>3. CASE k \notin 1..Len(q)
      <4>1. k = Len(q) + 1
        BY <1>1, <1>2, <3>3
      <4> QED
        BY <1>2, <3>1, <4>1
    <3> QED
      BY <3>2, <3>3
  <2> QED
    BY <1>2, <2>1 DEF Increasing
<1>4. {p[j] : j \in 1..Len(p)} = {q[j] : j \in 1..Len(q)} \cup {x}
  <2>1. 1..Len(p) = (1..Len(q)) \cup {Len(q) + 1}
    BY <1>1, <1>2
  <2> QED
    BY <1>2, <2>1, SMTT(30)
<1> QED
  BY <1>2, <1>3, <1>4 DEF p, Extends

\* q are the places of the spaces of b before place r, none of which is next
\* to another or starts the last parameter.
SplitTo(b, q, r) ==
    /\ Increasing(q)
    /\ r \in 2..(Len(b) + 1)
    /\ {q[k] : k \in 1..Len(q)} = {i \in 1..(r - 1) : b[i] = "sp"}
    /\ b[1] # "sp"
    /\ \A i \in 1..(r - 1) :
          b[i] = "sp" => i + 1 < r /\ b[i + 1] \notin {"sp", ":"}

LEMMA SplitFacts ==
    ASSUME NEW b \in Seq(Token), NEW q, NEW r, SplitTo(b, q, r)
    PROVE  /\ q \in Seq(Nat) /\ Len(q) \in Nat /\ Increasing(q) /\ r \in Nat
           /\ \A k \in 1..Len(q) : /\ q[k] \in 2..(r - 2) /\ b[q[k]] = "sp"
                                   /\ b[q[k] + 1] \notin {"sp", ":"}
           /\ Colon(b) >= r /\ Colon(b) \in Nat
           /\ \A i \in 1..(r - 1) : b[i] = "sp" <=> \E k \in 1..Len(q) : i = q[k]
<1>1. q \in Seq(Nat) /\ Len(q) \in Nat /\ r \in 2..(Len(b) + 1) /\ Len(b) \in Nat
  BY DEF SplitTo, Increasing
<1>2. ASSUME NEW k \in 1..Len(q)
      PROVE  q[k] \in 2..(r - 2) /\ b[q[k]] = "sp" /\ b[q[k] + 1] \notin {"sp", ":"}
  <2>1. q[k] \in 1..(r - 1) /\ b[q[k]] = "sp"
    BY DEF SplitTo
  <2>2. q[k] # 1 /\ q[k] + 1 < r /\ b[q[k] + 1] \notin {"sp", ":"}
    BY <2>1 DEF SplitTo
  <2> QED
    BY <1>1, <2>1, <2>2
<1>3. Colon(b) >= r /\ Colon(b) \in Nat
  <2>1. /\ Colon(b) \in 1..(Len(b) + 1)
        /\ Colon(b) <= Len(b) => ColonAt(b, Colon(b))
    BY ColonFacts
  <2>2. Colon(b) \in 1..(r - 1) => Colon(b) <= Len(b) /\ ~ColonAt(b, Colon(b))
    BY <1>1 DEF SplitTo, ColonAt
  <2> QED
    BY <1>1, <2>1, <2>2
<1>4. ASSUME NEW i \in 1..(r - 1) PROVE b[i] = "sp" <=> \E k \in 1..Len(q) : i = q[k]
  <2>1. b[i] = "sp" <=> i \in {q[k] : k \in 1..Len(q)}
    BY DEF SplitTo
  <2> QED
    BY <2>1
<1> QED
  BY <1>1, <1>2, <1>3, <1>4 DEF SplitTo

\* A part of at least one token.
LEMMA NotEmpty ==
    ASSUME NEW b \in Seq(Token), NEW m \in 1..Len(b), NEW n \in m..Len(b)
    PROVE  SubSeq(b, m, n) # <<>>
<1>1. n \in (m - 1)..Len(b) /\ m \in 1..(Len(b) + 1)
  OBVIOUS
<1>2. SubSeq(b, m, n) \in Seq(Token) /\ Len(SubSeq(b, m, n)) = (n - m) + 1
  BY <1>1, SliceFacts
<1>3. (n - m) + 1 # 0
  OBVIOUS
<1> QED
  BY <1>2, <1>3, EmptySeq

LEMMA WordsAre ==
    ASSUME NEW b \in Seq(Token), NEW q, SplitTo(b, q, Colon(b))
    PROVE  LET ends == Append(q, Colon(b))
           IN  /\ WordsOf(b) = [k \in 1..Len(WordsOf(b)) |-> WordsOf(b)[k]]
               /\ Len(WordsOf(b)) = Len(q) + 1
               /\ \A k \in 1..(Len(q) + 1) :
                    /\ WordsOf(b)[k] = SubSeq(b, WordFrom(q, k), ends[k] - 1)
                    /\ WordsOf(b)[k] # <<>>
<1> DEFINE c == Colon(b)
           ends == Append(q, c)
           S == AllStops(b)
<1>1. /\ q \in Seq(Nat) /\ Len(q) \in Nat /\ Increasing(q) /\ c \in Nat
      /\ \A k \in 1..Len(q) : /\ q[k] \in 2..(c - 2) /\ b[q[k]] = "sp"
                              /\ b[q[k] + 1] \notin {"sp", ":"}
      /\ \A i \in 1..(c - 1) : b[i] = "sp" <=> \E k \in 1..Len(q) : i = q[k]
  BY SplitFacts
<1>2. Len(b) \in Nat /\ c \in 2..(Len(b) + 1)
  BY DEF SplitTo
<1> HIDE DEF c
<1>3. /\ Increasing(ends) /\ Len(ends) = Len(q) + 1 /\ ends[Len(q) + 1] = c
      /\ \A k \in 1..Len(q) : ends[k] = q[k]
      /\ {ends[j] : j \in 1..Len(ends)} = {q[j] : j \in 1..Len(q)} \cup {c}
  <2>1. \A k \in 1..Len(q) : q[k] < c
    BY <1>1
  <2> QED
    BY <1>1, <2>1, LongerOne DEF Extends
<1> HIDE DEF ends
<1>4. S = {ends[j] : j \in 1..Len(ends)}
  <2>1. \A i \in 1..c : i \in S <=> i = c \/ b[i] = "sp"
    BY DEF AllStops, c
  <2>2. \A i \in 1..c : i \in S <=> i = c \/ \E k \in 1..Len(q) : i = q[k]
    BY <1>1, <1>2, <2>1
  <2>3. S \subseteq 1..c /\ \A k \in 1..Len(q) : q[k] \in 1..c
    BY <1>1, <1>2, SMTT(30) DEF AllStops, c
  <2> QED
    BY <1>2, <1>3, <2>2, <2>3, SMTT(30)
<1>5. S \in SUBSET Nat /\ IsFiniteSet(S)
  BY StopsAre
<1>6. {i \in S : i <= c} = {ends[j] : j \in 1..Len(ends)}
  <2>1. \A i \in S : i <= c
    BY <1>2 DEF AllStops, c
  <2> QED
    BY <1>4, <2>1
<1>7. /\ WordsOf(b) = [k \in 1..Len(WordsOf(b)) |-> WordsOf(b)[k]]
      /\ Len(WordsOf(b)) = Cardinality(S)
      /\ \A k \in 1..Len(ends) : WordsOf(b)[k] = SubSeq(b, WordFrom(ends, k), ends[k] - 1)
  <2>1. Increasing(ends) /\ c \in Nat /\ b \in Seq(Token)
    BY <1>1, <1>3
  <2>2. {i \in AllStops(b) : i <= c} = {ends[j] : j \in 1..Len(ends)}
    BY <1>6
  <2> QED
    BY <2>1, <2>2, WordsBegin
<1>8. Cardinality(S) = Len(q) + 1
  <2>1. Ascending(S) = ends
    BY <1>3, <1>4, <1>5, AscendingIs
  <2>2. Cardinality(S) \in Nat
    BY <1>5, FS_CardinalityType
  <2>3. Len(Ascending(S)) = Cardinality(S)
    <3> DEFINE n == Cardinality(S)
               g(k) == CHOOSE i \in S : Cardinality({j \in S : j < i}) = k - 1
    <3>1. Ascending(S) = [k \in 1..n |-> g(k)] /\ n \in Nat
      BY <2>2 DEF Ascending
    <3> HIDE DEF n, g
    <3>2. Len(Ascending(S)) = n
      BY <3>1
    <3> QED
      BY <3>2 DEF n
  <2> QED
    BY <1>3, <2>1, <2>3
<1>9. ASSUME NEW k \in 1..(Len(q) + 1)
      PROVE  /\ WordFrom(ends, k) = WordFrom(q, k)
             /\ WordFrom(q, k) \in 1..Len(b) /\ ends[k] - 1 \in WordFrom(q, k)..Len(b)
  <2>1. CASE k = 1
    <3>1. ends[1] \in 2..c
      <4>1. CASE Len(q) = 0
        BY <1>2, <1>3, <4>1
      <4>2. CASE Len(q) # 0
        <5>1. 1 \in 1..Len(q)
          BY <1>1, <4>2
        <5> QED
          BY <1>1, <1>2, <1>3, <5>1
      <4> QED
        BY <4>1, <4>2
    <3> QED
      BY <1>2, <2>1, <3>1 DEF WordFrom
  <2>2. CASE k # 1
    <3> DEFINE l == k - 1
    <3>1. l \in 1..Len(q) /\ k = l + 1
      BY <1>1, <2>2
    <3>2. ends[l] = q[l] /\ q[l] \in 2..(c - 2) /\ b[q[l] + 1] # "sp"
      BY <1>1, <1>3, <3>1
    <3>3. ends[k] \in (q[l] + 2)..c
      <4>1. CASE k = Len(q) + 1
        BY <1>2, <1>3, <3>2, <4>1
      <4>2. CASE k # Len(q) + 1
        <5>1. k \in 1..Len(q) /\ l < k
          BY <1>1, <3>1, <4>2
        <5>2. ends[k] = q[k] /\ q[k] \in 2..(c - 2) /\ b[q[k]] = "sp"
          BY <1>1, <1>3, <5>1
        <5>3. q[l] < q[k]
          BY <1>1, <3>1, <5>1 DEF Increasing
        <5>4. q[k] # q[l] + 1
          BY <3>2, <5>2
        <5> QED
          BY <1>2, <3>2, <5>2, <5>3, <5>4, SMTT(30)
      <4> QED
        BY <4>1, <4>2
    <3>4. WordFrom(ends, k) = ends[l] + 1 /\ WordFrom(q, k) = q[l] + 1
      BY <2>2 DEF WordFrom
    <3> DEFINE u == q[l]
               v == ends[k]
    <3>5. /\ WordFrom(ends, k) = u + 1 /\ WordFrom(q, k) = u + 1
          /\ u \in 2..(c - 2) /\ v \in (u + 2)..c
      BY <3>2, <3>3, <3>4
    <3> HIDE DEF l, u, v
    <3>6. u + 1 \in 1..Len(b) /\ v - 1 \in (u + 1)..Len(b)
      BY <1>2, <3>5
    <3> QED
      BY <3>5, <3>6 DEF v
  <2> QED
    BY <2>1, <2>2
<1>10. ASSUME NEW k \in 1..(Len(q) + 1)
       PROVE  /\ WordsOf(b)[k] = SubSeq(b, WordFrom(q, k), ends[k] - 1)
              /\ WordsOf(b)[k] # <<>>
  <2>1. WordsOf(b)[k] = SubSeq(b, WordFrom(q, k), ends[k] - 1)
    BY <1>3, <1>7, <1>9
  <2> DEFINE m == WordFrom(q, k)
             n == ends[k] - 1
  <2>2. m \in 1..Len(b) /\ n \in m..Len(b)
    BY <1>9
  <2> HIDE DEF m, n
  <2>3. SubSeq(b, m, n) # <<>>
    BY <2>2, NotEmpty
  <2> QED
    BY <2>1, <2>3 DEF m, n
<1> QED
  BY <1>7, <1>8, <1>10 DEF ends, c

\* A sequence of whatever it holds.
LEMMA SeqOfItsOwn ==
    ASSUME NEW w, NEW n \in Nat, w = [k \in 1..n |-> w[k]]
    PROVE  w \in Seq({w[k] : k \in 1..n}) /\ Len(w) = n
OBVIOUS

\* All but the first word, and the last parameter.
LEMMA ParamsFrom ==
    ASSUME NEW b \in Seq(Token), NEW n \in Nat, Len(WordsOf(b)) = n + 1,
           WordsOf(b) = [k \in 1..Len(WordsOf(b)) |-> WordsOf(b)[k]]
    PROVE  LET c == Colon(b)
               more == IF c <= Len(b) THEN 1 ELSE 0
           IN  /\ Len(ParamsOf(b)) = n + more
               /\ ParamsOf(b) = [k \in 1..(n + more) |-> ParamsOf(b)[k]]
               /\ \A k \in 1..n : ParamsOf(b)[k] = WordsOf(b)[k + 1]
               /\ c <= Len(b) => ParamsOf(b)[n + 1] = SubSeq(b, c + 2, Len(b))
<1> DEFINE c == Colon(b)
           w == WordsOf(b)
           last == SubSeq(b, c + 2, Len(b))
           S == {w[k] : k \in 1..(n + 1)} \cup {last}
           t == Tail(w)
           p == ParamsOf(b)
<1>1. c \in 1..(Len(b) + 1) /\ Len(b) \in Nat
  BY ColonFacts
<1>2. p = t \o IF c > Len(b) THEN <<>> ELSE <<last>>
  BY DEF ParamsOf
<1>3. w \in Seq(S) /\ Len(w) = n + 1
  <2>1. w \in Seq({w[k] : k \in 1..(n + 1)})
    BY SeqOfItsOwn
  <2> DEFINE R == {w[k] : k \in 1..(n + 1)}
  <2>2. R \subseteq S
    OBVIOUS
  <2>3. w \in Seq(R)
    BY <2>1
  <2> HIDE DEF w, S, R
  <2>4. w \in Seq(S)
    BY <2>2, <2>3, SeqMonotonic
  <2> QED
    BY <2>4 DEF w
<1>4. last \in S
  OBVIOUS
<1> HIDE DEF w, S, last
<1>5. /\ t \in Seq(S) /\ Len(t) = n
      /\ \A k \in 1..n : t[k] = w[k + 1]
  <2>1. w # <<>>
    BY <1>3
  <2> QED
    BY <1>3, <2>1, HeadTailProperties
<1> HIDE DEF t, p, c
<1>6. CASE c > Len(b)
  <2>1. p = t
    BY <1>2, <1>5, <1>6, ConcatEmptySeq
  <2>2. ~(c <= Len(b))
    BY <1>1, <1>6
  <2>3. p = [k \in 1..n |-> p[k]] /\ Len(p) = n
    BY <1>5, <2>1
  <2>4. n + 0 = n
    OBVIOUS
  <2> QED
    BY <1>5, <2>1, <2>2, <2>3, <2>4 DEF p, c, w, last
<1>7. CASE ~(c > Len(b))
  <2>1. p = t \o <<last>>
    BY <1>2, <1>7
  <2>2. p = Append(t, last)
    BY <1>4, <1>5, <2>1
  <2>3. /\ p \in Seq(S) /\ Len(p) = n + 1 /\ p[n + 1] = last
        /\ \A k \in 1..n : p[k] = t[k]
    BY <1>4, <1>5, <2>2, AppendProperties
  <2>4. p = [k \in 1..(n + 1) |-> p[k]]
    BY <2>3
  <2>5. c <= Len(b)
    BY <1>1, <1>7
  <2> QED
    BY <1>5, <2>3, <2>4, <2>5 DEF p, c, w, last
<1> QED
  BY <1>6, <1>7

\* A stop right after another one, or at the beginning, is after no word.
LEMMA EmptyWord ==
    ASSUME NEW b \in Seq(Token), NEW q, Increasing(q), NEW x \in Nat,
           {i \in AllStops(b) : i <= x} = {q[j] : j \in 1..Len(q)},
           NEW m \in 1..Len(q), q[m] = WordFrom(q, m)
    PROVE  \E k \in DOMAIN WordsOf(b) : WordsOf(b)[k] = <<>>
<1>1. /\ WordsOf(b) = [k \in 1..Len(WordsOf(b)) |-> WordsOf(b)[k]]
      /\ Len(WordsOf(b)) = Cardinality(AllStops(b))
      /\ Len(q) <= Len(WordsOf(b))
      /\ \A k \in 1..Len(q) :
            WordsOf(b)[k] = SubSeq(b, WordFrom(q, k), q[k] - 1)
  BY WordsBegin
<1>2. Cardinality(AllStops(b)) \in Nat
  BY StopsAre, FS_CardinalityType
<1>3. q \in Seq(Nat) /\ Len(q) \in Nat
  BY DEF Increasing
<1>4. m \in DOMAIN WordsOf(b)
  <2>1. DOMAIN WordsOf(b) = 1..Len(WordsOf(b))
    BY <1>1
  <2> QED
    BY <1>1, <1>2, <1>3, <2>1
<1>5. WordsOf(b)[m] = <<>>
  <2> DEFINE u == q[m]
  <2>1. u \in Int /\ u - 1 \in Int /\ u - 1 < u
    BY <1>3
  <2>2. WordsOf(b)[m] = SubSeq(b, u, u - 1)
    BY <1>1
  <2> HIDE DEF u
  <2>3. SubSeq(b, u, u - 1) = <<>>
    BY <2>1, SubSeqEmpty
  <2> QED
    BY <2>2, <2>3
<1> QED
  BY <1>4, <1>5

\* Not a body of a message.
BadBody(b) ==
    \/ \E k \in DOMAIN WordsOf(b) : WordsOf(b)[k] = <<>>
    \/ ~(Len(ParamsOf(b)) <= MaxParams)

LEMMA NoWordIsBad ==
    ASSUME NEW b \in Seq(Token), b = <<>> \/ b[1] = "sp"
    PROVE  BadBody(b)
<1> DEFINE q == <<1>>
<1>1. Increasing(q) /\ Len(q) = 1 /\ q[1] = 1
  BY DEF Increasing
<1>2. 1 \in AllStops(b)
  <2>1. Len(b) \in Nat /\ Colon(b) \in 1..(Len(b) + 1)
    BY ColonFacts
  <2>2. CASE b = <<>>
    <3>1. Len(b) = 0
      BY <2>2
    <3> QED
      BY <2>1, <3>1 DEF AllStops
  <2>3. CASE b[1] = "sp"
    BY <2>1, <2>3 DEF AllStops
  <2> QED
    BY <2>2, <2>3
<1>3. {i \in AllStops(b) : i <= 1} = {q[j] : j \in 1..Len(q)}
  <2>1. \A i \in AllStops(b) : i \in 1..Colon(b) /\ Colon(b) \in Nat
    BY ColonFacts DEF AllStops
  <2>2. {i \in AllStops(b) : i <= 1} = {1}
    BY <1>2, <2>1
  <2>3. {q[j] : j \in 1..Len(q)} = {1}
    BY <1>1
  <2> QED
    BY <2>2, <2>3
<1>4. 1 \in 1..Len(q) /\ q[1] = WordFrom(q, 1) /\ 1 \in Nat
  BY <1>1 DEF WordFrom
<1> HIDE DEF q
<1>5. \E k \in DOMAIN WordsOf(b) : WordsOf(b)[k] = <<>>
  BY <1>1, <1>3, <1>4, EmptyWord
<1> QED
  BY <1>5 DEF BadBody

\* What extract_msg_params() finds wrong with the parameter after a space.
LEMMA BadParamIsBad ==
    ASSUME NEW b \in Seq(Token), NEW q, NEW r \in 1..Len(b), SplitTo(b, q, r),
           b[r] = "sp",
           \/ r = Len(b)
           \/ b[r + 1] = "sp"
           \/ ~(Len(q) + 1 <= MaxParams)
    PROVE  BadBody(b)
<1> DEFINE c == Colon(b)
           p == Append(q, r)
           S == AllStops(b)
<1>1. /\ q \in Seq(Nat) /\ Len(q) \in Nat /\ Increasing(q) /\ r \in Nat
      /\ \A k \in 1..Len(q) : q[k] \in 2..(r - 2)
      /\ c >= r /\ c \in Nat
      /\ \A i \in 1..(r - 1) : b[i] = "sp" <=> \E k \in 1..Len(q) : i = q[k]
  BY SplitFacts
<1>2. c \in 1..(Len(b) + 1) /\ Len(b) \in Nat /\ MaxParams \in Nat
  BY ColonFacts, IrcMsgAssumption
<1>3. /\ Increasing(p) /\ Len(p) = Len(q) + 1 /\ p[Len(q) + 1] = r
      /\ {p[j] : j \in 1..Len(p)} = {q[j] : j \in 1..Len(q)} \cup {r}
      /\ \A k \in 1..Len(q) : p[k] = q[k]
  <2>1. \A k \in 1..Len(q) : q[k] < r
    BY <1>1
  <2> QED
    BY <1>1, <2>1, LongerOne DEF Extends
<1> HIDE DEF p
<1>4. /\ S \subseteq 1..c /\ \A i \in S : i \in Nat
      /\ \A i \in 1..c : i \in S <=> i = c \/ b[i] = "sp"
  BY DEF AllStops
<1> HIDE DEF c, S
<1>5. {i \in S : i <= r} = {p[j] : j \in 1..Len(p)}
  <2>1. \A i \in 1..r : i \in S <=> i = r \/ \E k \in 1..Len(q) : i = q[k]
    <3>1. ASSUME NEW i \in 1..r PROVE i \in S <=> i = r \/ \E k \in 1..Len(q) : i = q[k]
      <4>1. i \in 1..c
        BY <1>1, <1>2
      <4>2. CASE i = r
        BY <1>4, <4>1, <4>2
      <4>3. CASE i # r
        <5>1. i \in 1..(r - 1) /\ i # c
          BY <1>1, <1>2, <4>3
        <5> QED
          BY <1>1, <1>4, <4>1, <4>3, <5>1
      <4> QED
        BY <4>2, <4>3
    <3> QED
      BY <3>1
  <2>2. \A k \in 1..Len(q) : q[k] \in 1..r
    BY <1>1
  <2>3. ASSUME NEW i \in S, i <= r PROVE i \in {q[j] : j \in 1..Len(q)} \cup {r}
    <3>1. i \in 1..r
      BY <1>1, <1>2, <1>4, <2>3
    <3> QED
      BY <2>1, <3>1
  <2>4. ASSUME NEW i \in {q[j] : j \in 1..Len(q)} \cup {r} PROVE i \in S /\ i <= r
    <3>1. i \in 1..r /\ (i = r \/ \E k \in 1..Len(q) : i = q[k])
      BY <1>1, <1>2, <2>2
    <3> QED
      BY <2>1, <3>1
  <2> QED
    BY <1>3, <2>3, <2>4
<1>6. ASSUME NEW k \in 1..Len(p) PROVE p[k] <= r
  <2>1. k \in 1..Len(q) \/ k = Len(q) + 1
    BY <1>1, <1>3
  <2>2. CASE k \in 1..Len(q)
    BY <1>1, <1>3, <2>2
  <2>3. CASE k = Len(q) + 1
    BY <1>1, <1>3, <2>3
  <2> QED
    BY <2>1, <2>2, <2>3
\* Any later stop comes with an earliest one.
<1>7. ASSUME c > r
      PROVE  \E x \in S : /\ x > r
                          /\ \A i \in S : i > r => x <= i
  <2> DEFINE T == {i \in S : i > r}
  <2>1. c \in T
    BY <1>2, <1>4, <1>7
  <2>2. T \in SUBSET Nat
    BY <1>2, <1>4
  <2> HIDE DEF T
  <2>3. PICK x \in T : \A i \in T : x <= i
    BY <2>1, <2>2, Least
  <2> QED
    BY <2>3 DEF T
<1>8. ASSUME NEW x \in S, x > r, \A i \in S : i > r => x <= i
      PROVE  /\ Increasing(Append(p, x)) /\ Len(Append(p, x)) = Len(q) + 2
             /\ {i \in S : i <= x} = {Append(p, x)[j] : j \in 1..Len(Append(p, x))}
             /\ Append(p, x)[Len(q) + 2] = x
             /\ Append(p, x)[Len(q) + 1] = r
             /\ x \in Nat
  <2>1. x \in Nat
    BY <1>2, <1>4
  <2>2. \A k \in 1..Len(p) : p[k] < x
    <3>1. ASSUME NEW k \in 1..Len(p) PROVE p[k] < x
      <4>1. p[k] \in Nat /\ p[k] <= r
        BY <1>3, <1>6 DEF Increasing
      <4> QED
        BY <1>1, <1>8, <2>1, <4>1
    <3> QED
      BY <3>1
  <2> DEFINE o == Append(p, x)
  <2>3. /\ Increasing(o) /\ Len(o) = Len(p) + 1 /\ o[Len(p) + 1] = x
        /\ \A k \in 1..Len(p) : o[k] = p[k]
        /\ {o[j] : j \in 1..Len(o)} = {p[j] : j \in 1..Len(p)} \cup {x}
    BY <1>3, <2>1, <2>2, LongerOne DEF Extends
  <2> HIDE DEF o
  <2>4. {i \in S : i <= x} = {i \in S : i <= r} \cup {x}
    <3>1. \A i \in S : i \in Nat
      BY <1>2, <1>4
    <3>2. \A i \in S : i <= x <=> i <= r \/ i = x
      BY <1>1, <1>8, <2>1, <3>1
    <3> QED
      BY <1>8, <3>2
  <2>5. Len(o) = Len(q) + 2 /\ o[Len(q) + 2] = x /\ o[Len(q) + 1] = r
    BY <1>1, <1>3, <2>3
  <2>6. {i \in S : i <= x} = {o[j] : j \in 1..Len(o)}
    BY <1>5, <2>3, <2>4
  <2> QED
    BY <2>1, <2>3, <2>5, <2>6 DEF o
<1>9. ASSUME r = Len(b) \/ b[r + 1] = "sp" PROVE BadBody(b)
  <2>1. c > r
    <3>1. ~ColonAt(b, r)
      BY <1>2, <1>9 DEF ColonAt
    <3>2. c <= Len(b) => ColonAt(b, c)
      BY ColonFacts DEF c
    <3> QED
      BY <1>1, <1>2, <3>1, <3>2
  <2> DEFINE x == r + 1
             o == Append(p, x)
             m == Len(q) + 2
  <2>2. x \in S /\ x > r /\ \A i \in S : i > r => x <= i
    <3>1. x \in 1..c /\ x > r
      BY <1>1, <1>2, <2>1
    <3>2. x = c \/ b[x] = "sp"
      BY <1>2, <1>9, <2>1
    <3>3. \A i \in S : i \in Nat
      BY <1>2, <1>4
    <3> QED
      BY <1>1, <1>4, <3>1, <3>2, <3>3
  <2> HIDE DEF x
  <2>3. /\ Increasing(o) /\ Len(o) = m
        /\ {i \in S : i <= x} = {o[j] : j \in 1..Len(o)}
        /\ o[m] = x /\ o[Len(q) + 1] = r /\ x \in Nat
    BY <1>8, <2>2
  <2>4. m \in 1..Len(o) /\ m # 1 /\ m - 1 = Len(q) + 1
    BY <1>1, <2>3
  <2>5. o[m] = WordFrom(o, m)
    BY <2>3, <2>4 DEF WordFrom, x
  <2> HIDE DEF m, o
  <2>6. \E k \in DOMAIN WordsOf(b) : WordsOf(b)[k] = <<>>
    BY <2>3, <2>4, <2>5, EmptyWord DEF S
  <2> QED
    BY <2>6 DEF BadBody
<1>10. ASSUME Len(q) + 1 > MaxParams PROVE BadBody(b)
  <2>1. Cardinality(S) \in Nat
    BY StopsAre, FS_CardinalityType DEF S
  <2>2. CASE c = r
    <3>1. {i \in AllStops(b) : i <= r} = {p[j] : j \in 1..Len(p)}
      BY <1>5 DEF S
    <3>2. /\ WordsOf(b) = [k \in 1..Len(WordsOf(b)) |-> WordsOf(b)[k]]
          /\ Len(WordsOf(b)) = Cardinality(AllStops(b))
          /\ Len(p) <= Len(WordsOf(b))
      <4>1. Increasing(p) /\ r \in Nat /\ b \in Seq(Token)
        BY <1>1, <1>3
      <4> QED
        BY <3>1, <4>1, WordsBegin
    <3> DEFINE n == Len(WordsOf(b)) - 1
    <3>3. n \in Nat /\ Len(WordsOf(b)) = n + 1 /\ n >= Len(q)
      BY <1>1, <1>3, <2>1, <3>2 DEF S
    <3> HIDE DEF n
    <3>4. Colon(b) <= Len(b)
      BY <2>2 DEF c
    <3>5. Len(ParamsOf(b)) = n + 1
      BY <3>2, <3>3, <3>4, ParamsFrom
    <3> QED
      BY <1>1, <1>2, <1>10, <3>3, <3>5 DEF BadBody
  <2>3. CASE c # r
    <3>1. c > r
      BY <1>1, <2>3
    <3>2. PICK x \in S : /\ x > r
                         /\ \A i \in S : i > r => x <= i
      BY <1>7, <3>1
    <3> DEFINE o == Append(p, x)
    <3>3. /\ Increasing(o) /\ Len(o) = Len(q) + 2 /\ x \in Nat
          /\ {i \in S : i <= x} = {o[j] : j \in 1..Len(o)}
      BY <1>8, <3>2
    <3> HIDE DEF o
    <3>4. {i \in AllStops(b) : i <= x} = {o[j] : j \in 1..Len(o)}
      BY <3>3 DEF S
    <3>5. /\ WordsOf(b) = [k \in 1..Len(WordsOf(b)) |-> WordsOf(b)[k]]
          /\ Len(WordsOf(b)) = Cardinality(S)
          /\ Len(o) <= Len(WordsOf(b))
      BY <3>3, <3>4, WordsBegin DEF S
    <3> DEFINE n == Len(WordsOf(b)) - 1
               more == IF Colon(b) <= Len(b) THEN 1 ELSE 0
    <3>6. n \in Nat /\ Len(WordsOf(b)) = n + 1 /\ n >= Len(q) + 1
      BY <1>1, <2>1, <3>3, <3>5
    <3> HIDE DEF n
    <3>7. Len(ParamsOf(b)) = n + more
      BY <3>5, <3>6, ParamsFrom
    <3>8. more \in 0..1
      OBVIOUS
    <3> HIDE DEF more
    <3> QED
      BY <1>1, <1>2, <1>10, <3>6, <3>7, <3>8 DEF BadBody
  <2> QED
    BY <2>2, <2>3
<1> QED
  BY <1>1, <1>2, <1>9, <1>10

-------------------------------------------------------------------------------
(* The message in memory while it is cut up.  m is the memory, s the       *)
(* message as it was, g the IRC_msg and c the cursor.                      *)

Mem(m, s) ==
    /\ s \in Seq(Token) /\ s # <<>>
    /\ \A k \in 1..Len(s) : s[k] # "nul"
    /\ m \in Seq(Token) /\ Len(m) = Len(s) + 1
    /\ m[Len(m)] = "nul"

\* The string at i is t, and ends at most at f.
Named(m, s, i, t, f) ==
    /\ i \in 1..f
    /\ \E j \in i..f :
          /\ m[j] = "nul"
          /\ \A k \in i..(j - 1) : m[k] = s[k]
          /\ t = SubSeq(s, i, j - 1)

\* Prefix, nickname, username and host.
NamesAre(m, g, s) ==
    /\ IF HasNick(s)
       THEN /\ g.prefix = 2 /\ g.nick = 2
            /\ Named(m, s, 2, NickOf(s), Base(s))
            /\ Named(m, s, g.user, UserOf(s), Base(s))
       ELSE /\ g.nick = 0 /\ g.user = 0
            /\ IF HasPrefix(s)
               THEN g.prefix = 2 /\ Named(m, s, 2, PrefixOf(s), Base(s))
               ELSE g.prefix = 0
    /\ IF HasHost(s) THEN Named(m, s, g.host, HostOf(s), Base(s)) ELSE g.host = 0

\* Of b, the body of the message that begins after place f of the memory m,
\* the spaces before place r have been overwritten.
CutTo(m, f, b, r) ==
    \A i \in 1..Len(b) :
        m[f + i] = IF i < r /\ b[i] = "sp" THEN "nul" ELSE b[i]

\* The spaces before the first n parameters.
Stops(g, n, f) == [k \in 1..n |-> g.params[k] - 1 - f]

AtPrefix(m, g, c, s) ==
    /\ c = 1
    /\ g.prefix = 0 /\ g.nick = 0 /\ g.user = 0 /\ g.host = 0 /\ g.params = <<>>
    /\ \A k \in 1..Len(s) : m[k] = s[k]

AtComponents(m, g, c, s) ==
    /\ PrefixIsGood(s)
    /\ c = Base(s) + 1
    /\ g.prefix = IF HasPrefix(s) THEN 2 ELSE 0
    /\ g.nick = 0 /\ g.user = 0 /\ g.host = 0 /\ g.params = <<>>
    /\ \A k \in 1..Len(s) : m[k] = IF k = Base(s) THEN "nul" ELSE s[k]

AtCmd(m, g, c, s) ==
    /\ PrefixIsGood(s)
    /\ c = Base(s) + 1
    /\ g.params = <<>>
    /\ NamesAre(m, g, s)
    /\ CutTo(m, Base(s), BodyOf(s), 1)

AtParams(m, g, c, s) ==
    LET b == BodyOf(s)
        f == Base(s)
        n == Len(g.params)
    IN  /\ PrefixIsGood(s)
        /\ NamesAre(m, g, s)
        /\ SplitTo(b, Stops(g, n, f), c - f)
        /\ CutTo(m, f, b, c - f)
        /\ n <= MaxParams
        /\ g.cmd = f + 1

\* All is cut up; n parameters are before the last one with a colon, if any.
AtHandle(m, g, n, s) ==
    LET b == BodyOf(s)
        f == Base(s)
        c == Colon(b)
    IN  /\ PrefixIsGood(s)
        /\ NamesAre(m, g, s)
        /\ n \in Nat
        /\ Len(g.params) = IF c <= Len(b) THEN n + 1 ELSE n
        /\ Len(g.params) <= MaxParams
        /\ SplitTo(b, Stops(g, n, f), c)
        /\ CutTo(m, f, b, c + 1)
        /\ g.cmd = f + 1
        /\ c <= Len(b) => g.params[n + 1] = f + c + 2

TextInv ==
    /\ phase = "prefix" => AtPrefix(buf, msg, cur, input)
    /\ phase = "components" => AtComponents(buf, msg, cur, input)
    /\ phase = "cmd" => AtCmd(buf, msg, cur, input)
    /\ phase = "params" => AtParams(buf, msg, cur, input)
    /\ phase \in {"handle", "privmsg"} => \E n \in Nat : AtHandle(buf, msg, n, input)
    /\ phase = "invalid" => ~WellFormed(input)

\* The body and the memory it is in.
LEMMA MemFacts ==
    ASSUME NEW m, NEW s, Mem(m, s), PrefixIsGood(s)
    PROVE  /\ Base(s) \in Nat /\ Base(s) \in 0..Len(s) /\ Len(s) \in Nat
           /\ BodyOf(s) \in Seq(Token) /\ Len(BodyOf(s)) \in Nat
           /\ Len(m) = Base(s) + Len(BodyOf(s)) + 1
           /\ m[Base(s) + Len(BodyOf(s)) + 1] = "nul"
           /\ \A i \in 1..Len(BodyOf(s)) : /\ BodyOf(s)[i] = s[Base(s) + i]
                                           /\ BodyOf(s)[i] # "nul"
           /\ BodyOf(s) = SubSeq(s, Base(s) + 1, Len(s))
<1>1. s \in Seq(Token) /\ s # <<>> /\ Len(s) \in Nat /\ Len(m) = Len(s) + 1
      /\ m[Len(m)] = "nul" /\ \A k \in 1..Len(s) : s[k] # "nul"
  BY DEF Mem
<1>2. /\ Base(s) \in 0..Len(s)
      /\ BodyOf(s) \in Seq(Token) /\ Len(BodyOf(s)) = Len(s) - Base(s)
      /\ BodyOf(s) = SubSeq(s, Base(s) + 1, Len(s))
      /\ \A i \in 1..Len(BodyOf(s)) : BodyOf(s)[i] = s[Base(s) + i]
  BY <1>1, BodyFacts
<1> DEFINE f == Base(s)
           l == Len(BodyOf(s))
<1>3. l \in Nat /\ f \in Nat /\ Len(m) = f + l + 1
  BY <1>1, <1>2
<1>4. \A i \in 1..l : f + i \in 1..Len(s)
  BY <1>1, <1>2
<1> QED
  BY <1>1, <1>2, <1>3, <1>4

\* The cursor at a separator of the body.
LEMMA AtSeparator ==
    ASSUME NEW m, NEW s, Mem(m, s), NEW g, NEW c \in Nat, AtParams(m, g, c, s), m[c] \in Ends
    PROVE  LET f == Base(s)
               b == BodyOf(s)
               r == c - f
           IN  /\ c \in Nat /\ r \in 2..(Len(b) + 1) /\ c = f + r
               /\ \A i \in r..Len(b) : m[f + i] = b[i]
               /\ r <= Len(b) => b[r] = "sp"
               /\ m[c] = "nul" <=> r = Len(b) + 1
<1> DEFINE f == Base(s)
           b == BodyOf(s)
           r == c - f
<1>1. /\ f \in Nat /\ Len(b) \in Nat /\ Len(m) = f + Len(b) + 1
      /\ m[f + Len(b) + 1] = "nul"
      /\ \A i \in 1..Len(b) : b[i] # "nul"
  BY MemFacts DEF AtParams
<1>2. r \in 2..(Len(b) + 1) /\ CutTo(m, f, b, r)
  BY DEF AtParams, SplitTo
<1> HIDE DEF f, b
<1>3. c \in Nat /\ c = f + r
  BY <1>1
<1> HIDE DEF r
<1>4. ASSUME NEW i \in r..Len(b) PROVE m[f + i] = b[i]
  <2>1. i \in 1..Len(b) /\ ~(i < r)
    BY <1>1, <1>2
  <2> QED
    BY <1>2, <2>1 DEF CutTo
<1>5. ASSUME r <= Len(b) PROVE b[r] = "sp" /\ m[c] # "nul"
  <2>1. r \in r..Len(b) /\ r \in 1..Len(b)
    BY <1>1, <1>2, <1>5
  <2>2. m[c] = b[r] /\ b[r] # "nul"
    BY <1>1, <1>3, <1>4, <2>1
  <2> QED
    BY <2>2 DEF Ends
<1>6. ASSUME r = Len(b) + 1 PROVE m[c] = "nul"
  <2>1. c = f + Len(b) + 1
    BY <1>1, <1>3, <1>6
  <2> QED
    BY <1>1, <2>1
<1>7. m[c] = "nul" <=> r = Len(b) + 1
  <2>1. r <= Len(b) \/ r = Len(b) + 1
    BY <1>1, <1>2
  <2> QED
    BY <1>5, <1>6, <2>1
<1>8. /\ c \in Nat /\ r \in 2..(Len(b) + 1) /\ c = f + r
      /\ \A i \in r..Len(b) : m[f + i] = b[i]
      /\ r <= Len(b) => b[r] = "sp"
      /\ m[c] = "nul" <=> r = Len(b) + 1
  BY <1>2, <1>3, <1>4, <1>5, <1>7
<1> QED
  BY <1>8 DEF f, b, r

\* The names stay if nothing before the body changes.
LEMMA NamesStay ==
    ASSUME NEW m, NEW n, NEW g, NEW h, NEW s, Base(s) \in Nat, NamesAre(m, g, s),
           \A k \in 1..Base(s) : n[k] = m[k],
           h.prefix = g.prefix, h.nick = g.nick, h.user = g.user, h.host = g.host
    PROVE  NamesAre(n, h, s)
<1>1. ASSUME NEW i, NEW t, Named(m, s, i, t, Base(s)) PROVE Named(n, s, i, t, Base(s))
  <2>1. i \in 1..Base(s)
    BY <1>1 DEF Named
  <2>2. PICK j \in i..Base(s) :
          /\ m[j] = "nul"
          /\ \A k \in i..(j - 1) : m[k] = s[k]
          /\ t = SubSeq(s, i, j - 1)
    BY <1>1 DEF Named
  <2>3. j \in 1..Base(s) /\ \A k \in i..(j - 1) : k \in 1..Base(s)
    BY <2>1
  <2>4. n[j] = "nul" /\ \A k \in i..(j - 1) : n[k] = s[k]
    BY <2>2, <2>3
  <2> QED
    BY <2>1, <2>2, <2>4 DEF Named
<1> QED
  BY <1>1 DEF NamesAre

LEMMA CmdStep ==
    ASSUME NEW m, NEW s, Mem(m, s), NEW g, NEW c, AtCmd(m, g, c, s), m[c] \notin Ends,
           NEW e \in c..Len(m), m[e] \in Ends, \A k \in c..(e - 1) : m[k] \notin Ends,
           NEW h, h.prefix = g.prefix, h.nick = g.nick, h.user = g.user, h.host = g.host,
           h.params = g.params, h.cmd = c
    PROVE  AtParams(m, h, e, s)
<1> DEFINE f == Base(s)
           b == BodyOf(s)
           r == e - f
           q == Stops(h, Len(h.params), f)
<1>1. /\ f \in Nat /\ Len(b) \in Nat /\ Len(m) = f + Len(b) + 1
      /\ m[f + Len(b) + 1] = "nul"
      /\ \A i \in 1..Len(b) : b[i] # "nul"
  BY MemFacts DEF AtCmd
<1>2. /\ PrefixIsGood(s) /\ c = f + 1 /\ g.params = <<>> /\ NamesAre(m, g, s)
      /\ CutTo(m, f, b, 1)
  BY DEF AtCmd
<1>3. h.params = <<>> /\ Len(h.params) = 0
  BY <1>2
<1>4. q = <<>>
  BY <1>3 DEF Stops
<1> HIDE DEF f, b, q
<1>5. \A i \in 1..Len(b) : m[f + i] = b[i]
  BY <1>1, <1>2 DEF CutTo
<1>6. r \in 2..(Len(b) + 1)
  <2>1. e # c
    OBVIOUS
  <2> QED
    BY <1>1, <1>2, <2>1
<1>7. ASSUME NEW i \in 1..(r - 1) PROVE b[i] # "sp"
  <2>1. f + i \in c..(e - 1) /\ i \in 1..Len(b)
    BY <1>1, <1>2, <1>6
  <2> QED
    BY <1>5, <2>1 DEF Ends
<1> HIDE DEF r
<1>8. SplitTo(b, q, r)
  <2>1. Increasing(q) /\ {q[k] : k \in 1..Len(q)} = {}
    BY <1>4 DEF Increasing
  <2>2. 1 \in 1..(r - 1)
    BY <1>1, <1>6
  <2> QED
    BY <1>6, <1>7, <2>1, <2>2 DEF SplitTo
<1>9. CutTo(m, f, b, r)
  <2>1. ASSUME NEW i \in 1..Len(b), i < r, b[i] = "sp" PROVE FALSE
    <3>1. i \in 1..(r - 1)
      BY <1>1, <1>6, <2>1
    <3> QED
      BY <1>7, <2>1, <3>1
  <2> QED
    BY <1>5, <2>1 DEF CutTo
<1>10. NamesAre(m, h, s)
  BY <1>1, <1>2, NamesStay DEF f
<1>11. Len(h.params) <= MaxParams /\ h.cmd = f + 1
  BY <1>2, <1>3, IrcMsgAssumption
<1> QED
  BY <1>2, <1>8, <1>9, <1>10, <1>11 DEF AtParams, f, b, q, r

\* One more space is overwritten; v is the next separator.
LEMMA CutLonger ==
    ASSUME NEW b \in Seq(Token), NEW m, NEW o, NEW f \in Nat, NEW r \in 1..Len(b),
           NEW v \in (r + 1)..(Len(b) + 1), b[r] = "sp", CutTo(m, f, b, r),
           \A i \in (r + 1)..(v - 1) : b[i] # "sp",
           o[f + r] = "nul", \A i \in 1..Len(b) : i # r => o[f + i] = m[f + i]
    PROVE  CutTo(o, f, b, v)
<1>1. Len(b) \in Nat
  OBVIOUS
<1>2. ASSUME NEW i \in 1..Len(b)
      PROVE  o[f + i] = IF i < v /\ b[i] = "sp" THEN "nul" ELSE b[i]
  <2>1. m[f + i] = IF i < r /\ b[i] = "sp" THEN "nul" ELSE b[i]
    BY DEF CutTo
  <2>2. CASE i < r
    <3>1. i < v /\ i # r
      BY <1>1, <2>2
    <3> QED
      BY <2>1, <2>2, <3>1
  <2>3. CASE i = r
    <3>1. i < v
      BY <1>1, <2>3
    <3> QED
      BY <2>3, <3>1
  <2>4. CASE i > r
    <3>1. ~(i < r) /\ i # r
      BY <1>1, <2>4
    <3>2. i < v => i \in (r + 1)..(v - 1)
      BY <1>1, <2>4
    <3> QED
      BY <2>1, <3>1, <3>2
  <2> QED
    BY <1>1, <2>2, <2>3, <2>4
<1> QED
  BY <1>2 DEF CutTo

LEMMA SplitLonger ==
    ASSUME NEW b \in Seq(Token), NEW q, NEW r \in 2..Len(b),
           NEW v \in (r + 2)..(Len(b) + 1), b[r] = "sp", SplitTo(b, q, r),
           b[r + 1] \notin {"sp", ":"}, \A i \in (r + 1)..(v - 1) : b[i] # "sp"
    PROVE  SplitTo(b, Append(q, r), v)
<1> DEFINE p == Append(q, r)
<1>1. /\ q \in Seq(Nat) /\ Len(q) \in Nat /\ Increasing(q)
      /\ \A k \in 1..Len(q) : q[k] \in 2..(r - 2)
  BY SplitFacts
<1>2. Len(b) \in Nat
  OBVIOUS
<1>3. /\ Increasing(p)
      /\ {p[j] : j \in 1..Len(p)} = {q[j] : j \in 1..Len(q)} \cup {r}
  <2>1. r \in Nat /\ \A k \in 1..Len(q) : q[k] < r
    BY <1>1
  <2>2. Increasing(q)
    BY <1>1
  <2>3. Extends(q, r, p)
    BY <2>1, <2>2, LongerOne
  <2> QED
    BY <2>3 DEF Extends
<1> HIDE DEF p
<1>4. ASSUME NEW i \in 1..(v - 1)
      PROVE  i \in 1..(r - 1) \/ i = r \/ i \in (r + 1)..(v - 1)
  BY <1>2
<1>5. 1..(r - 1) \subseteq 1..(v - 1) /\ r \in 1..(v - 1)
  BY <1>2
<1>6. {q[j] : j \in 1..Len(q)} = {i \in 1..(r - 1) : b[i] = "sp"}
  BY DEF SplitTo
<1>7. {p[j] : j \in 1..Len(p)} = {i \in 1..(v - 1) : b[i] = "sp"}
  BY <1>3, <1>4, <1>5, <1>6
<1>8. ASSUME NEW i \in 1..(v - 1), b[i] = "sp"
      PROVE  i + 1 < v /\ b[i + 1] \notin {"sp", ":"}
  <2>1. CASE i \in 1..(r - 1)
    <3>1. i + 1 < r /\ b[i + 1] \notin {"sp", ":"}
      BY <1>8, <2>1 DEF SplitTo
    <3> QED
      BY <1>2, <3>1
  <2>2. CASE i = r
    BY <1>2, <2>2
  <2>3. CASE i \in (r + 1)..(v - 1)
    BY <1>8, <2>3
  <2> QED
    BY <1>4, <2>1, <2>2, <2>3
<1>9. v \in 2..(Len(b) + 1) /\ b[1] # "sp"
  BY <1>2 DEF SplitTo
<1> QED
  BY <1>3, <1>7, <1>8, <1>9 DEF SplitTo, p

\* The IRC_msg h has one more parameter than g, after a space at r.
OneMore(g, h, f, r) ==
    /\ Len(h.params) = Len(g.params) + 1
    /\ Stops(h, Len(g.params), f) = Stops(g, Len(g.params), f)
    /\ Stops(h, Len(h.params), f) = Append(Stops(g, Len(g.params), f), r)
    /\ h.params[Len(h.params)] = f + r + 1

LEMMA StopsLonger ==
    ASSUME NEW f \in Nat, NEW r \in Nat, NEW g, NEW h, g.params \in Seq(Nat),
           Stops(g, Len(g.params), f) \in Seq(Nat),
           h.params = Append(g.params, f + r + 1)
    PROVE  OneMore(g, h, f, r)
<1> DEFINE n == Len(g.params)
           q == Stops(g, n, f)
           w == Append(q, r)
<1>1. n \in Nat /\ Len(q) = n /\ \A k \in 1..n : q[k] = g.params[k] - 1 - f
  BY DEF Stops
<1>2. /\ Len(h.params) = n + 1 /\ h.params[n + 1] = f + r + 1
      /\ \A k \in 1..n : h.params[k] = g.params[k]
  BY AppendProperties
<1>3. w \in Seq(Nat) /\ Len(w) = n + 1 /\ w[n + 1] = r /\ \A k \in 1..n : w[k] = q[k]
  BY <1>1, AppendProperties
<1>4. (f + r + 1) - 1 - f = r
  OBVIOUS
<1>5. ASSUME NEW k \in 1..(n + 1) PROVE h.params[k] - 1 - f = w[k]
  <2>1. k \in 1..n \/ k = n + 1
    BY <1>1
  <2> QED
    BY <1>1, <1>2, <1>3, <1>4, <2>1
<1>6. w = [k \in 1..(n + 1) |-> w[k]]
  BY <1>3
<1>7. q = [k \in 1..n |-> h.params[k] - 1 - f]
  BY <1>2 DEF Stops
<1> HIDE DEF w, q
<1>8. w = [k \in 1..(n + 1) |-> h.params[k] - 1 - f]
  BY <1>5, <1>6
<1> QED
  BY <1>2, <1>7, <1>8 DEF Stops, w, q, OneMore

LEMMA ParamStep ==
    ASSUME NEW m, NEW s, Mem(m, s), NEW g, NEW c \in Nat, AtParams(m, g, c, s), m[c] \in Ends,
           g.params \in Seq(Nat),
           m[c] # "nul", m[c + 1] \notin Ends \cup {":"}, Len(g.params) + 1 <= MaxParams,
           NEW e \in (c + 1)..Len(m), m[e] \in Ends,
           \A k \in (c + 1)..(e - 1) : m[k] \notin Ends,
           NEW o, o = [m EXCEPT ![c] = "nul"],
           NEW h, h.prefix = g.prefix, h.nick = g.nick, h.user = g.user, h.host = g.host,
           h.cmd = g.cmd, h.params = Append(g.params, c + 1)
    PROVE  AtParams(o, h, e, s)
<1> DEFINE f == Base(s)
           b == BodyOf(s)
           r == c - f
           v == e - f
           n == Len(g.params)
           q == Stops(g, n, f)
<1>1. /\ f \in Nat /\ Len(b) \in Nat /\ Len(m) = f + Len(b) + 1
      /\ b \in Seq(Token)
  BY MemFacts DEF AtParams
<1>2. /\ PrefixIsGood(s) /\ NamesAre(m, g, s) /\ SplitTo(b, q, r)
      /\ CutTo(m, f, b, r) /\ g.cmd = f + 1
  BY DEF AtParams
<1>3. /\ c \in Nat /\ r \in 2..Len(b) /\ c = f + r
      /\ \A i \in r..Len(b) : m[f + i] = b[i]
      /\ b[r] = "sp"
  <2>1. /\ c \in Nat /\ r \in 2..(Len(b) + 1) /\ c = f + r
        /\ \A i \in r..Len(b) : m[f + i] = b[i]
        /\ r <= Len(b) => b[r] = "sp"
        /\ m[c] = "nul" <=> r = Len(b) + 1
    BY AtSeparator
  <2>2. r # Len(b) + 1
    BY <2>1
  <2> HIDE DEF f, b, r, v, n, q
  <2>3. r \in 2..Len(b) /\ r <= Len(b)
    BY <1>1, <2>1, <2>2
  <2> QED
    BY <2>1, <2>3
<1> HIDE DEF f, b
<1>4. v \in (r + 2)..(Len(b) + 1) /\ v \in (r + 1)..(Len(b) + 1)
  <2>1. e \in (c + 1)..Len(m) /\ e # c + 1
    OBVIOUS
  <2>2. e >= c + 2 /\ e <= f + Len(b) + 1 /\ e \in Int
    BY <1>1, <1>3, <2>1
  <2>3. v = e - f /\ c = f + r /\ f \in Int /\ r \in Int /\ Len(b) \in Int
    BY <1>1, <1>3
  <2> HIDE DEF r, v, q
  <2>4. v \in Int /\ v >= r + 2 /\ v <= Len(b) + 1
    BY <2>2, <2>3
  <2> QED
    BY <2>3, <2>4
<1>5. b[r + 1] \notin {"sp", ":"}
  <2>1. r + 1 \in r..Len(b) /\ f + (r + 1) = c + 1
    <3> HIDE DEF r, v, q
    <3> QED
      BY <1>1, <1>3, <1>4
  <2>2. m[c + 1] = b[r + 1]
    BY <1>3, <2>1
  <2> QED
    BY <2>2 DEF Ends
<1>6. \A i \in (r + 1)..(v - 1) : b[i] # "sp"
  <2>1. ASSUME NEW i \in (r + 1)..(v - 1) PROVE b[i] # "sp"
    <3>1. f + i \in (c + 1)..(e - 1) /\ i \in r..Len(b)
      BY <1>1, <1>3, <1>4
    <3> QED
      BY <1>3, <3>1 DEF Ends
  <2> QED
    BY <2>1
<1>7. /\ Len(h.params) = n + 1
      /\ Stops(h, Len(h.params), f) = Append(q, r)
  <2>1. q \in Seq(Nat)
    BY <1>2 DEF SplitTo, Increasing
  <2>2. r \in Nat /\ f + r + 1 = c + 1
    BY <1>1, <1>3, SMTT(30)
  <2> HIDE DEF r
  <2>3. h.params = Append(g.params, f + r + 1)
    BY <2>2
  <2>4. g.params \in Seq(Nat) /\ Stops(g, Len(g.params), f) \in Seq(Nat)
    BY <2>1
  <2>5. OneMore(g, h, f, r)
    BY <1>1, <2>2, <2>3, <2>4, StopsLonger
  <2> QED
    BY <2>5 DEF OneMore
<1> HIDE DEF v, r, q, n
<1>8. SplitTo(b, Append(q, r), v)
  BY <1>1, <1>2, <1>3, <1>4, <1>5, <1>6, SplitLonger
<1>9. /\ o[f + r] = "nul" /\ \A i \in 1..Len(b) : i # r => o[f + i] = m[f + i]
      /\ \A k \in 1..f : o[k] = m[k]
  <2>1. m \in Seq(Token) /\ "nul" \in Token
    BY DEF Mem, Token
  <2>2. c \in 1..Len(m)
    BY <1>1, <1>3
  <2>3. o[c] = "nul" /\ \A k \in 1..Len(m) : k # c => o[k] = m[k]
    BY <2>1, <2>2, ExceptSeq
  <2>4. ASSUME NEW i \in 1..Len(b)
        PROVE  f + i \in 1..Len(m) /\ (i # r => f + i # c)
    <3>1. i \in Nat /\ 1 <= i /\ i <= Len(b)
      BY <1>1
    <3>2. f + i \in 1..Len(m)
      BY <1>1, <3>1
    <3>3. i # r => f + i # c
      BY <1>1, <1>3, <3>1
    <3> QED
      BY <3>2, <3>3
  <2>5. ASSUME NEW k \in 1..f
        PROVE  k \in 1..Len(m) /\ k # c
    <3>1. k \in Nat /\ 1 <= k /\ k <= f /\ f \in Nat
      BY <1>1
    <3>2. f < c /\ f <= Len(m)
      BY <1>1, <1>3, <3>1
    <3>3. c \in Nat /\ Len(m) \in Nat
      BY <2>2
    <3> QED
      BY <3>1, <3>2, <3>3
  <2> QED
    BY <1>3, <2>3, <2>4, <2>5
<1>10. CutTo(o, f, b, v)
  <2>1. r \in 1..Len(b)
    BY <1>1, <1>3
  <2> QED
    BY <1>1, <1>2, <1>3, <1>4, <1>6, <1>9, <2>1, CutLonger
<1>11. NamesAre(o, h, s)
  <2>1. Base(s) \in Nat /\ \A k \in 1..Base(s) : o[k] = m[k]
    BY <1>1, <1>9 DEF f
  <2> QED
    BY <1>2, <2>1, NamesStay
<1>12. Len(h.params) <= MaxParams /\ h.cmd = f + 1
  BY <1>2, <1>7 DEF n
<1> QED
  BY <1>2, <1>7, <1>8, <1>10, <1>11, <1>12 DEF AtParams, f, b, v

LEMMA FinalStep ==
    ASSUME NEW m, NEW s, Mem(m, s), NEW g, NEW c \in Nat, AtParams(m, g, c, s),
           m[c] \in Ends, g.params \in Seq(Nat),
           m[c] # "nul", m[c + 1] = ":", Len(g.params) + 1 <= MaxParams,
           NEW o, o = [m EXCEPT ![c] = "nul"],
           NEW h, h.prefix = g.prefix, h.nick = g.nick, h.user = g.user, h.host = g.host,
           h.cmd = g.cmd, h.params = Append(g.params, c + 2)
    PROVE  AtHandle(o, h, Len(g.params), s)
<1> DEFINE f == Base(s)
           b == BodyOf(s)
           r == c - f
           n == Len(g.params)
           q == Stops(g, n, f)
<1>1. /\ f \in Nat /\ Len(b) \in Nat /\ Len(m) = f + Len(b) + 1
      /\ m[f + Len(b) + 1] = "nul" /\ b \in Seq(Token)
  BY MemFacts DEF AtParams
<1>2. /\ PrefixIsGood(s) /\ NamesAre(m, g, s) /\ SplitTo(b, q, r)
      /\ CutTo(m, f, b, r) /\ g.cmd = f + 1
  BY DEF AtParams
<1>3. /\ c \in Nat /\ r \in 2..Len(b) /\ c = f + r
      /\ \A i \in r..Len(b) : m[f + i] = b[i]
      /\ b[r] = "sp"
  <2>1. /\ c \in Nat /\ r \in 2..(Len(b) + 1) /\ c = f + r
        /\ \A i \in r..Len(b) : m[f + i] = b[i]
        /\ r <= Len(b) => b[r] = "sp"
        /\ m[c] = "nul" <=> r = Len(b) + 1
    BY AtSeparator
  <2>2. r # Len(b) + 1
    BY <2>1
  <2> HIDE DEF f, b, r, n, q
  <2>3. r \in 2..Len(b) /\ r <= Len(b)
    BY <1>1, <2>1, <2>2
  <2> QED
    BY <2>1, <2>3
<1> HIDE DEF f, b, r
<1>4. r + 1 <= Len(b) /\ b[r + 1] = ":"
  <2>1. c + 1 # f + Len(b) + 1
    BY <1>1
  <2>2. r + 1 \in r..Len(b) /\ f + (r + 1) = c + 1
    <3>1. f \in Nat /\ Len(b) \in Nat /\ r \in 2..Len(b) /\ c = f + r
      BY <1>1, <1>3
    <3>2. r # Len(b)
      BY <2>1, <3>1
    <3> QED
      BY <3>1, <3>2
  <2>3. m[c + 1] = b[r + 1]
    BY <1>3, <2>2
  <2> QED
    BY <1>1, <1>3, <2>2, <2>3
<1>5. Colon(b) = r
  <2>1. ColonAt(b, r)
    BY <1>3, <1>4 DEF ColonAt
  <2>2. \A i \in 1..(r - 1) : ~ColonAt(b, i)
    BY <1>2 DEF SplitTo, ColonAt
  <2>3. r \in 1..(Len(b) + 1)
    BY <1>1, <1>3
  <2> QED
    BY <1>1, <2>1, <2>2, <2>3, ColonIs
<1>6. /\ Len(h.params) = n + 1 /\ n \in Nat /\ h.params[n + 1] = f + r + 2
      /\ Stops(h, n, f) = q
  <2>1. /\ n \in Nat /\ Len(h.params) = n + 1 /\ h.params[n + 1] = c + 2
        /\ \A k \in 1..n : h.params[k] = g.params[k]
    BY AppendProperties
  <2>2. Stops(h, n, f) = q
    BY <2>1 DEF Stops
  <2> QED
    BY <1>3, <2>1, <2>2
<1> HIDE DEF q, n
<1>7. /\ o[f + r] = "nul" /\ \A i \in 1..Len(b) : i # r => o[f + i] = m[f + i]
      /\ \A k \in 1..f : o[k] = m[k]
  <2>1. m \in Seq(Token) /\ "nul" \in Token
    BY DEF Mem, Token
  <2>2. c \in 1..Len(m)
    BY <1>1, <1>3, SMTT(30)
  <2>3. o[c] = "nul" /\ \A k \in 1..Len(m) : k # c => o[k] = m[k]
    BY <2>1, <2>2, ExceptSeq
  <2>4. ASSUME NEW i \in 1..Len(b)
        PROVE  f + i \in 1..Len(m) /\ (i # r => f + i # c)
    <3>1. i \in Nat /\ 1 <= i /\ i <= Len(b)
      BY <1>1
    <3>2. f + i \in 1..Len(m)
      BY <1>1, <3>1
    <3>3. i # r => f + i # c
      BY <1>1, <1>3, <3>1
    <3> QED
      BY <3>2, <3>3
  <2>5. ASSUME NEW k \in 1..f
        PROVE  k \in 1..Len(m) /\ k # c
    <3>1. k \in Nat /\ 1 <= k /\ k <= f /\ f \in Nat
      BY <1>1
    <3>2. f < c /\ f <= Len(m)
      BY <1>1, <1>3, <3>1
    <3>3. c \in Nat /\ Len(m) \in Nat
      BY <2>2
    <3> QED
      BY <3>1, <3>2, <3>3
  <2> QED
    BY <1>3, <2>3, <2>4, <2>5
<1>8. CutTo(o, f, b, r + 1)
  <2> DEFINE v == r + 1
  <2>1. r \in 1..Len(b) /\ v \in (r + 1)..(Len(b) + 1)
    BY <1>1, <1>3, SMTT(30)
  <2>2. \A i \in (r + 1)..(v - 1) : b[i] # "sp"
    BY <1>1, <1>3
  <2> HIDE DEF v
  <2>3. CutTo(o, f, b, v)
    BY <1>1, <1>2, <1>3, <1>7, <2>1, <2>2, CutLonger
  <2> QED
    BY <2>3 DEF v
<1>9. NamesAre(o, h, s)
  <2>1. Base(s) \in Nat /\ \A k \in 1..Base(s) : o[k] = m[k]
    BY <1>1, <1>7 DEF f
  <2> QED
    BY <1>2, <2>1, NamesStay
<1>10. Len(h.params) <= MaxParams /\ h.cmd = f + 1 /\ r <= Len(b)
  BY <1>2, <1>3, <1>6 DEF n
<1>11. AtHandle(o, h, n, s)
  BY <1>2, <1>5, <1>6, <1>8, <1>9, <1>10 DEF AtHandle, f, b
<1> QED
  BY <1>11 DEF n

LEMMA LastStep ==
    ASSUME NEW m, NEW s, Mem(m, s), NEW g, NEW c \in Nat, AtParams(m, g, c, s),
           m[c] = "nul", g.params \in Seq(Nat)
    PROVE  AtHandle(m, g, Len(g.params), s)
<1> DEFINE f == Base(s)
           b == BodyOf(s)
           r == c - f
           n == Len(g.params)
           q == Stops(g, n, f)
<1>1. /\ f \in Nat /\ Len(b) \in Nat /\ b \in Seq(Token)
  BY MemFacts DEF AtParams
<1>2. /\ PrefixIsGood(s) /\ NamesAre(m, g, s) /\ SplitTo(b, q, r)
      /\ CutTo(m, f, b, r) /\ g.cmd = f + 1 /\ n <= MaxParams
  BY DEF AtParams
<1>3. r = Len(b) + 1
  <2>1. m[c] \in Ends
    BY DEF Ends
  <2>2. m[c] = "nul" <=> r = Len(b) + 1
    BY <2>1, AtSeparator
  <2> QED
    BY <2>2
<1> HIDE DEF f, b, q, r
<1>4. Colon(b) = r
  <2>1. Colon(b) >= r
    BY <1>1, <1>2, SplitFacts
  <2>2. Colon(b) \in 1..(Len(b) + 1)
    BY <1>1, ColonFacts
  <2> QED
    BY <1>1, <1>3, <2>1, <2>2
<1>5. CutTo(m, f, b, r + 1)
  <2>1. \A i \in 1..Len(b) : i < r /\ i < r + 1
    BY <1>1, <1>3
  <2> QED
    BY <1>2, <2>1 DEF CutTo
<1>6. n \in Nat /\ ~(r <= Len(b))
  BY <1>1, <1>3
<1> QED
  BY <1>2, <1>4, <1>5, <1>6 DEF AtHandle, f, b, q

LEMMA BadParamStep ==
    ASSUME NEW m, NEW s, Mem(m, s), NEW g, NEW c \in Nat, AtParams(m, g, c, s),
           m[c] \in Ends, g.params \in Seq(Nat),
           m[c] # "nul", m[c + 1] \in Ends \/ ~(Len(g.params) + 1 <= MaxParams)
    PROVE  ~WellFormed(s)
<1> DEFINE f == Base(s)
           b == BodyOf(s)
           r == c - f
           n == Len(g.params)
           q == Stops(g, n, f)
<1>1. /\ f \in Nat /\ Len(b) \in Nat /\ Len(m) = f + Len(b) + 1
      /\ b \in Seq(Token) /\ \A i \in 1..Len(b) : b[i] # "nul"
  BY MemFacts DEF AtParams
<1>2. SplitTo(b, q, r) /\ Len(q) = n
  <2>1. SplitTo(b, q, r) /\ n \in Nat
    BY DEF AtParams
  <2> QED
    BY <2>1 DEF Stops
<1>3. /\ c \in Nat /\ r \in 2..Len(b) /\ c = f + r
      /\ \A i \in r..Len(b) : m[f + i] = b[i]
      /\ b[r] = "sp"
  <2>1. /\ c \in Nat /\ r \in 2..(Len(b) + 1) /\ c = f + r
        /\ \A i \in r..Len(b) : m[f + i] = b[i]
        /\ r <= Len(b) => b[r] = "sp"
        /\ m[c] = "nul" <=> r = Len(b) + 1
    BY AtSeparator
  <2> QED
    BY <1>1, <2>1
<1> HIDE DEF f, b, r
<1>4. r = Len(b) \/ b[r + 1] = "sp" \/ ~(Len(q) + 1 <= MaxParams)
  <2>1. CASE m[c + 1] \in Ends /\ r # Len(b)
    <3>1. r + 1 \in r..Len(b) /\ f + (r + 1) = c + 1 /\ r + 1 \in 1..Len(b)
      BY <1>1, <1>3, <2>1
    <3>2. m[c + 1] = b[r + 1] /\ b[r + 1] # "nul"
      BY <1>1, <1>3, <3>1
    <3> QED
      BY <2>1, <3>2 DEF Ends
  <2> QED
    BY <1>2, <2>1
<1> HIDE DEF q, n
<1>5. BadBody(b)
  <2>1. r \in 1..Len(b)
    BY <1>1, <1>3
  <2> QED
    BY <1>1, <1>2, <1>3, <1>4, <2>1, BadParamIsBad
<1> QED
  BY <1>5 DEF BadBody, WellFormed, b

LEMMA EmptyCmdStep ==
    ASSUME NEW m, NEW s, Mem(m, s), NEW g, NEW c, AtCmd(m, g, c, s), m[c] \in Ends
    PROVE  ~WellFormed(s)
<1> DEFINE f == Base(s)
           b == BodyOf(s)
<1>1. /\ f \in Nat /\ Len(b) \in Nat /\ b \in Seq(Token)
      /\ \A i \in 1..Len(b) : b[i] # "nul"
  BY MemFacts DEF AtCmd
<1>2. c = f + 1 /\ CutTo(m, f, b, 1)
  BY DEF AtCmd
<1> HIDE DEF f, b
<1>3. b = <<>> \/ b[1] = "sp"
  <2>1. CASE b # <<>>
    <3>1. 1 \in 1..Len(b) /\ ~(1 < 1)
      BY <1>1, <2>1
    <3>2. m[c] = b[1] /\ b[1] # "nul"
      BY <1>1, <1>2, <3>1 DEF CutTo
    <3> QED
      BY <3>2 DEF Ends
  <2> QED
    BY <2>1
<1>4. BadBody(b)
  BY <1>1, <1>3, NoWordIsBad
<1> QED
  BY <1>4 DEF BadBody, WellFormed, b

LEMMA PrefixStep ==
    ASSUME NEW m, NEW s, Mem(m, s), NEW g, NEW c, AtPrefix(m, g, c, s), m[c] = ":",
           NEW e \in (c + 1)..Len(m), m[e] = "sp", e # c + 1,
           \A k \in (c + 1)..(e - 1) : m[k] \notin Ends,
           NEW o, o = [m EXCEPT ![e] = "nul"],
           NEW h, h.prefix = c + 1, h.nick = g.nick, h.user = g.user, h.host = g.host,
           h.params = g.params
    PROVE  AtComponents(o, h, e + 1, s)
<1>1. /\ s \in Seq(Token) /\ s # <<>> /\ Len(s) \in Nat /\ Len(m) = Len(s) + 1
      /\ m[Len(m)] = "nul" /\ m \in Seq(Token) /\ "nul" \in Token
  BY DEF Mem, Token
<1>2. c = 1 /\ \A k \in 1..Len(s) : m[k] = s[k]
  BY DEF AtPrefix
<1>3. e \in 3..Len(s)
  BY <1>1, <1>2
<1>4. s[1] = ":" /\ s[e] = "sp" /\ \A k \in 1..(e - 1) : s[k] # "sp"
  <2>1. 1 \in 1..Len(s) /\ e \in 1..Len(s)
    BY <1>1, <1>3
  <2>2. s[1] = ":" /\ s[e] = "sp"
    BY <1>2, <2>1
  <2>3. ASSUME NEW k \in 1..(e - 1) PROVE s[k] # "sp"
    <3>1. k = 1 \/ k \in (c + 1)..(e - 1)
      BY <1>2, <1>3
    <3>2. k \in 1..Len(s)
      BY <1>1, <1>3
    <3> QED
      BY <1>2, <2>2, <3>1, <3>2 DEF Ends
  <2> QED
    BY <2>2, <2>3
<1>5. FirstPlace(s, "sp") = e
  <2>1. e \in 1..(Len(s) + 1)
    BY <1>1, <1>3
  <2> QED
    BY <1>1, <1>4, <2>1, PlaceIs
<1>6. HasPrefix(s) /\ Base(s) = e
  BY <1>4, <1>5 DEF HasPrefix, Base
<1>7. PrefixIsGood(s)
  BY <1>1, <1>3, <1>6, BaseFacts DEF PrefixIsGood
<1>8. \A k \in 1..Len(s) : o[k] = IF k = e THEN "nul" ELSE s[k]
  <2>1. e \in 1..Len(m) /\ \A k \in 1..Len(s) : k \in 1..Len(m)
    BY <1>1, <1>3
  <2>2. \A k \in 1..Len(m) : o[k] = IF k = e THEN "nul" ELSE m[k]
    BY <1>1, <2>1, ExceptSeq
  <2> QED
    BY <1>2, <2>1, <2>2
<1> QED
  BY <1>2, <1>6, <1>7, <1>8 DEF AtComponents, AtPrefix

LEMMA BadPrefixStep ==
    ASSUME NEW m, NEW s, Mem(m, s), NEW g, NEW c, AtPrefix(m, g, c, s), m[c] = ":",
           NEW e \in (c + 1)..Len(m), m[e] \in Ends,
           \A k \in (c + 1)..(e - 1) : m[k] \notin Ends,
           e = c + 1 \/ m[e] = "nul"
    PROVE  ~WellFormed(s)
<1>1. /\ s \in Seq(Token) /\ s # <<>> /\ Len(s) \in Nat /\ Len(m) = Len(s) + 1
      /\ m[Len(m)] = "nul" /\ \A k \in 1..Len(s) : s[k] # "nul"
  BY DEF Mem
<1>2. c = 1 /\ \A k \in 1..Len(s) : m[k] = s[k]
  BY DEF AtPrefix
<1>3. s[1] = ":" /\ HasPrefix(s) /\ 1 \in 1..Len(s)
  BY <1>1, <1>2 DEF HasPrefix
<1>4. \A k \in 1..(e - 1) : k \in 1..Len(s) /\ s[k] # "sp"
  <2>1. ASSUME NEW k \in 1..(e - 1) PROVE k \in 1..Len(s) /\ s[k] # "sp"
    <3>1. k = 1 \/ k \in (c + 1)..(e - 1)
      BY <1>1, <1>2
    <3>2. k \in 1..Len(s)
      BY <1>1, <1>2
    <3> QED
      BY <1>2, <1>3, <3>1, <3>2 DEF Ends
  <2> QED
    BY <2>1
<1>5. e \in 2..(Len(s) + 1)
  BY <1>1, <1>2
<1>6. CASE e = Len(s) + 1
  <2>1. \A k \in 1..Len(s) : s[k] # "sp"
    BY <1>1, <1>4, <1>6
  <2>2. Places(s, "sp") = {}
    BY <1>1, <2>1 DEF Places
  <2> QED
    BY <1>3, <2>2 DEF WellFormed
<1>7. CASE e # Len(s) + 1
  <2>1. e \in 1..Len(s) /\ e \in 1..(Len(s) + 1)
    BY <1>1, <1>5, <1>7
  <2>2. m[e] = s[e] /\ s[e] # "nul" /\ s[e] = "sp"
    BY <1>1, <1>2, <2>1 DEF Ends
  <2>3. FirstPlace(s, "sp") = e
    BY <1>1, <1>4, <2>1, <2>2, PlaceIs
  <2>4. e = 2 /\ Base(s) = 2
    BY <1>2, <1>3, <2>2, <2>3 DEF Base
  <2>5. PrefixOf(s) = <<>>
    BY <1>1, <1>3, <2>4, BaseFacts
  <2> QED
    BY <1>3, <2>5 DEF WellFormed
<1> QED
  BY <1>6, <1>7

LEMMA NoPrefixStep ==
    ASSUME NEW m, NEW s, Mem(m, s), NEW g, NEW c, AtPrefix(m, g, c, s), m[c] # ":"
    PROVE  AtComponents(m, g, c, s)
<1>1. /\ s # <<>> /\ Len(s) \in Nat /\ 1 \in 1..Len(s)
  BY DEF Mem
<1>2. c = 1 /\ \A k \in 1..Len(s) : m[k] = s[k]
  BY DEF AtPrefix
<1>3. ~HasPrefix(s) /\ Base(s) = 0
  BY <1>1, <1>2 DEF HasPrefix, Base
<1> QED
  BY <1>1, <1>2, <1>3 DEF AtComponents, AtPrefix, PrefixIsGood

-------------------------------------------------------------------------------
(* The sender: nickname, username and host in the prefix                  *)

\* The prefix in memory: it ends before the body, with a null.
Prefixed(m, s, f) ==
    /\ f \in 3..Len(s) /\ m[f] = "nul"
    /\ s \in Seq(Token) /\ Len(m) = Len(s) + 1 /\ Len(s) \in Nat
    /\ PrefixOf(s) = SubSeq(s, 2, f - 1)
    /\ \A k \in 2..(f - 1) : m[k] = s[k] /\ m[k] # "nul"

LEMMA PrefixInMemory ==
    ASSUME NEW m, NEW s, Mem(m, s), NEW g, NEW c, AtComponents(m, g, c, s), HasPrefix(s)
    PROVE  Prefixed(m, s, Base(s))
<1> DEFINE f == Base(s)
<1>1. /\ s \in Seq(Token) /\ s # <<>> /\ Len(s) \in Nat /\ Len(m) = Len(s) + 1
      /\ \A k \in 1..Len(s) : s[k] # "nul"
  BY DEF Mem
<1>2. PrefixOf(s) # <<>> /\ Places(s, "sp") # {}
  BY DEF AtComponents, PrefixIsGood
<1>3. f \in 3..Len(s) /\ PrefixOf(s) = SubSeq(s, 2, f - 1)
  <2>1. /\ f \in 2..(Len(s) + 1)
        /\ PrefixOf(s) = SubSeq(s, 2, f - 1)
        /\ f # Len(s) + 1 /\ f # 2
    BY <1>1, <1>2, BaseFacts
  <2> HIDE DEF f
  <2> QED
    BY <1>1, <2>1
<1>4. \A k \in 1..Len(s) : m[k] = IF k = f THEN "nul" ELSE s[k]
  BY DEF AtComponents
<1> HIDE DEF f
<1>5. f \in 1..Len(s) /\ \A k \in 2..(f - 1) : k \in 1..Len(s) /\ k # f
  BY <1>1, <1>3
<1> QED
  BY <1>1, <1>3, <1>4, <1>5 DEF f, Prefixed

LEMMA NoNamesStep ==
    ASSUME NEW m, NEW s, Mem(m, s), NEW g, NEW c, AtComponents(m, g, c, s),
           \/ g.prefix = 0
           \/ \E j \in g.prefix..Len(m) :
                 m[j] = "nul" /\ \A k \in g.prefix..(j - 1) : m[k] \notin {"!", "nul"}
    PROVE  AtCmd(m, g, c, s)
<1> DEFINE f == Base(s)
           b == BodyOf(s)
<1>1. ~HasNick(s)
  <2>1. CASE HasPrefix(s)
    <3>1. /\ f \in 3..Len(s) /\ m[f] = "nul"
          /\ s \in Seq(Token) /\ Len(m) = Len(s) + 1 /\ Len(s) \in Nat
          /\ PrefixOf(s) = SubSeq(s, 2, f - 1)
          /\ \A k \in 2..(f - 1) : m[k] = s[k] /\ m[k] # "nul"
      BY <2>1, PrefixInMemory DEF Prefixed
    <3> HIDE DEF f
    <3>2. g.prefix = 2
      BY <2>1 DEF AtComponents
    <3>3. PICK j \in 2..Len(m) :
             m[j] = "nul" /\ \A k \in 2..(j - 1) : m[k] \notin {"!", "nul"}
      BY <3>2
    <3>4. j = f
      <4>1. ~(j < f)
        BY <3>1, <3>3
      <4>2. ~(f < j)
        BY <3>1, <3>3
      <4> QED
        BY <3>1, <4>1, <4>2
    <3> DEFINE x == 2
               y == f - 1
    <3>5. /\ x \in 1..(Len(s) + 1) /\ y \in (x - 1)..Len(s) /\ f \in x..(y + 1)
          /\ f = y + 1
      BY <3>1
    <3>6. \A k \in x..(f - 1) : s[k] # "!"
      BY <3>1, <3>3, <3>4
    <3>7. ~(f <= y)
      BY <3>1
    <3> HIDE DEF x, y
    <3>8. Places(SubSeq(s, x, y), "!") = {}
      BY <3>1, <3>5, <3>6, <3>7, SliceAt DEF CutAt
    <3> QED
      BY <3>1, <3>8 DEF HasNick, x, y
  <2>2. CASE ~HasPrefix(s)
    BY <2>2 DEF HasNick
  <2> QED
    BY <2>1, <2>2
<1>2. NamesAre(m, g, s)
  <2>1. g.nick = 0 /\ g.user = 0 /\ g.host = 0 /\ g.prefix = IF HasPrefix(s) THEN 2 ELSE 0
    BY DEF AtComponents
  <2>2. ASSUME HasPrefix(s) PROVE Named(m, s, 2, PrefixOf(s), f)
    <3>1. /\ f \in 3..Len(s) /\ m[f] = "nul" /\ Len(s) \in Nat
          /\ PrefixOf(s) = SubSeq(s, 2, f - 1)
          /\ \A k \in 2..(f - 1) : m[k] = s[k]
      BY <2>2, PrefixInMemory, SMTT(30) DEF Prefixed, Mem
    <3> HIDE DEF f
    <3>2. 2 \in 1..f /\ f \in 2..f
      BY <3>1
    <3> QED
      BY <3>1, <3>2 DEF Named
  <2> QED
    BY <1>1, <2>1, <2>2 DEF NamesAre, HasHost
<1>3. CutTo(m, f, b, 1)
  <2>1. /\ f \in Nat /\ Len(b) \in Nat /\ f + Len(b) = Len(s)
        /\ \A i \in 1..Len(b) : b[i] = s[f + i]
    <3>1. Len(m) = f + Len(b) + 1 /\ Len(m) = Len(s) + 1 /\ Len(s) \in Nat
          /\ f \in Nat /\ Len(b) \in Nat /\ \A i \in 1..Len(b) : b[i] = s[f + i]
      BY MemFacts DEF AtComponents, Mem
    <3> HIDE DEF f, b
    <3> QED
      BY <3>1
  <2>2. \A k \in 1..Len(s) : m[k] = IF k = f THEN "nul" ELSE s[k]
    BY DEF AtComponents
  <2> HIDE DEF f, b
  <2>3. ASSUME NEW i \in 1..Len(b) PROVE m[f + i] = b[i] /\ ~(i < 1)
    <3>1. f + i \in 1..Len(s) /\ f + i # f /\ ~(i < 1)
      BY <2>1
    <3> QED
      BY <2>1, <2>2, <3>1
  <2> QED
    BY <2>3 DEF CutTo
<1> QED
  BY <1>2, <1>3 DEF AtCmd, AtComponents

\* The prefix is s up to place f, and holds a "!" at x and an "@" at y, if any.
LEMMA NamesOf ==
    ASSUME NEW s \in Seq(Token), HasPrefix(s), NEW f \in 3..Len(s),
           PrefixOf(s) = SubSeq(s, 2, f - 1),
           NEW x \in 2..(f - 1), s[x] = "!", \A k \in 2..(x - 1) : s[k] # "!",
           NEW y \in (x + 1)..f, \A k \in (x + 1)..(y - 1) : s[k] # "@",
           y < f => s[y] = "@"
    PROVE  /\ HasNick(s)
           /\ HasHost(s) <=> y < f
           /\ NickOf(s) = SubSeq(s, 2, x - 1)
           /\ UserOf(s) = SubSeq(s, x + 1, y - 1)
           /\ y < f => HostOf(s) = SubSeq(s, y + 1, f - 1)
<1>1. Len(s) \in Nat
  OBVIOUS
<1>2. /\ Places(PrefixOf(s), "!") # {}
      /\ NickOf(s) = SubSeq(s, 2, x - 1)
      /\ After(PrefixOf(s), "!") = SubSeq(s, x + 1, f - 1)
  <2> DEFINE u == 2
             v == f - 1
  <2>1. u \in 1..(Len(s) + 1) /\ v \in (u - 1)..Len(s)
    BY <1>1
  <2>2. x \in u..(v + 1)
    BY <1>1
  <2>3. x <= v /\ x # v + 1
    BY <1>1
  <2>4. s[x] = "!" /\ \A k \in u..(x - 1) : s[k] # "!"
    OBVIOUS
  <2>5. PrefixOf(s) = SubSeq(s, u, v)
    OBVIOUS
  <2> HIDE DEF u, v
  <2>6. CutAt(s, u, v, "!", x)
    BY <2>1, <2>2, <2>4, SliceAt
  <2>7. /\ Before(SubSeq(s, u, v), "!") = SubSeq(s, u, x - 1)
        /\ x <= v => After(SubSeq(s, u, v), "!") = SubSeq(s, x + 1, v)
        /\ Places(SubSeq(s, u, v), "!") = {} <=> x = v + 1
    BY <2>6 DEF CutAt
  <2>8. /\ Before(PrefixOf(s), "!") = SubSeq(s, u, x - 1)
        /\ After(PrefixOf(s), "!") = SubSeq(s, x + 1, v)
        /\ Places(PrefixOf(s), "!") # {}
    BY <2>3, <2>5, <2>7
  <2> QED
    BY <2>8 DEF u, v, NickOf
<1>3. /\ Places(After(PrefixOf(s), "!"), "@") = {} <=> y = f
      /\ UserOf(s) = SubSeq(s, x + 1, y - 1)
      /\ y < f => HostOf(s) = SubSeq(s, y + 1, f - 1)
  <2> DEFINE u == x + 1
             v == f - 1
  <2>1. u \in 1..(Len(s) + 1) /\ v \in (u - 1)..Len(s)
    BY <1>1
  <2>2. y \in u..(v + 1)
    BY <1>1
  <2>3. (y <= v <=> y < f) /\ (y = v + 1 <=> y = f)
    BY <1>1
  <2>4. (y <= v => s[y] = "@") /\ \A k \in u..(y - 1) : s[k] # "@"
    BY <2>3
  <2>5. After(PrefixOf(s), "!") = SubSeq(s, u, v)
    BY <1>2
  <2> HIDE DEF u, v
  <2>6. CutAt(s, u, v, "@", y)
    BY <2>1, <2>2, <2>4, SliceAt
  <2>7. /\ Before(SubSeq(s, u, v), "@") = SubSeq(s, u, y - 1)
        /\ y <= v => After(SubSeq(s, u, v), "@") = SubSeq(s, y + 1, v)
        /\ Places(SubSeq(s, u, v), "@") = {} <=> y = v + 1
    BY <2>6 DEF CutAt
  <2>8. /\ UserOf(s) = SubSeq(s, u, y - 1)
        /\ y < f => HostOf(s) = SubSeq(s, y + 1, v)
        /\ Places(After(PrefixOf(s), "!"), "@") = {} <=> y = f
    BY <2>3, <2>5, <2>7 DEF UserOf, HostOf
  <2> QED
    BY <2>8 DEF u, v
<1>4. HasNick(s)
  BY <1>2 DEF HasNick
<1>5. HasHost(s) <=> y < f
  <2>1. y = f <=> ~(y < f)
    BY <1>1
  <2> QED
    BY <1>3, <1>4, <2>1 DEF HasHost
<1> QED
  BY <1>2, <1>3, <1>4, <1>5

LEMMA NamesStep ==
    ASSUME NEW m, NEW s, Mem(m, s), NEW g, NEW c, AtComponents(m, g, c, s),
           g.prefix # 0,
           NEW x \in g.prefix..Len(m), m[x] = "!",
           \A k \in g.prefix..(x - 1) : m[k] \notin {"!", "nul"},
           NEW y \in (x + 1)..Len(m), m[y] \in {"@", "nul"},
           \A k \in (x + 1)..(y - 1) : m[k] \notin {"@", "nul"},
           NEW o, Len(o) = Len(m), o[x] = "nul", o[y] = "nul",
           \A k \in 1..Len(m) : k # x /\ k # y => o[k] = m[k],
           NEW h, h.prefix = g.prefix, h.nick = g.prefix, h.user = x + 1,
           h.host = IF m[y] = "@" THEN y + 1 ELSE 0, h.params = g.params
    PROVE  AtCmd(o, h, c, s)
<1> DEFINE f == Base(s)
           b == BodyOf(s)
<1>1. HasPrefix(s) /\ g.prefix = 2
  BY DEF AtComponents
<1>2. Prefixed(m, s, f)
  BY <1>1, PrefixInMemory
<1> HIDE DEF f
<1>3. /\ f \in 3..Len(s) /\ m[f] = "nul"
      /\ s \in Seq(Token) /\ Len(m) = Len(s) + 1 /\ Len(s) \in Nat
      /\ PrefixOf(s) = SubSeq(s, 2, f - 1)
      /\ \A k \in 2..(f - 1) : m[k] = s[k] /\ m[k] # "nul"
  BY <1>2 DEF Prefixed
<1>4. x \in 2..(f - 1) /\ x \in Nat
  <2>1. x \in 2..Len(m) /\ x \in Nat /\ m[x] # "nul" /\ \A k \in 2..(x - 1) : m[k] # "nul"
    BY <1>1, <1>3
  <2>2. ~(f < x) /\ f # x
    BY <1>3, <2>1
  <2> QED
    BY <1>3, <2>1, <2>2
<1>5. y \in (x + 1)..f /\ y \in Nat /\ (y = f <=> m[y] = "nul")
  <2>1. ~(f < y)
    BY <1>3, <1>4
  <2>2. y \in (x + 1)..f /\ y \in Nat
    BY <1>3, <1>4, <2>1
  <2>3. y # f => y \in 2..(f - 1)
    BY <1>3, <1>4, <2>2
  <2> QED
    BY <1>3, <2>2, <2>3
<1>6. /\ s[x] = "!" /\ \A k \in 2..(x - 1) : s[k] # "!"
      /\ \A k \in (x + 1)..(y - 1) : s[k] # "@"
      /\ y < f => s[y] = "@"
  <2>1. x \in 2..(f - 1) /\ \A k \in 2..(x - 1) : k \in 2..(f - 1)
    BY <1>3, <1>4
  <2>2. \A k \in (x + 1)..(y - 1) : k \in 2..(f - 1)
    BY <1>3, <1>4, <1>5
  <2>3. y < f => y \in 2..(f - 1)
    BY <1>3, <1>4, <1>5
  <2>4. s[x] = "!" /\ \A k \in 2..(x - 1) : s[k] # "!"
    BY <1>1, <1>3, <2>1
  <2>5. \A k \in (x + 1)..(y - 1) : s[k] # "@"
    BY <1>3, <2>2
  <2>6. y < f => s[y] = "@"
    BY <1>3, <1>5, <2>3
  <2> QED
    BY <2>4, <2>5, <2>6
<1>7. /\ HasNick(s)
      /\ HasHost(s) <=> y < f
      /\ NickOf(s) = SubSeq(s, 2, x - 1)
      /\ UserOf(s) = SubSeq(s, x + 1, y - 1)
      /\ y < f => HostOf(s) = SubSeq(s, y + 1, f - 1)
  BY <1>1, <1>3, <1>4, <1>5, <1>6, NamesOf
<1>8. HasNick(s) /\ (HasHost(s) <=> y < f)
  BY <1>7
<1>9. /\ \A k \in 2..(f - 1) : k # x /\ k # y => o[k] = s[k]
      /\ \A k \in (f + 1)..Len(s) : o[k] = m[k]
      /\ o[f] = "nul"
  <2>1. \A k \in 2..(f - 1) : k \in 1..Len(m)
    BY <1>3
  <2>2. \A k \in (f + 1)..Len(s) : k \in 1..Len(m) /\ k # x /\ k # y
    BY <1>3, <1>4, <1>5
  <2>3. f \in 1..Len(m) /\ f # x
    BY <1>3, <1>4
  <2> QED
    BY <1>3, <2>1, <2>2, <2>3
<1>10. Named(o, s, 2, NickOf(s), f)
  <2>1. 2 \in 1..f /\ x \in 2..f
    BY <1>3, <1>4
  <2>2. \A k \in 2..(x - 1) : k \in 2..(f - 1) /\ k # x /\ k # y
    BY <1>3, <1>4, <1>5
  <2> QED
    BY <1>7, <1>9, <2>1, <2>2 DEF Named
<1>11. Named(o, s, x + 1, UserOf(s), f)
  <2>1. x + 1 \in 1..f /\ y \in (x + 1)..f
    BY <1>3, <1>4, <1>5
  <2>2. \A k \in (x + 1)..(y - 1) : k \in 2..(f - 1) /\ k # x /\ k # y
    BY <1>3, <1>4, <1>5
  <2> QED
    BY <1>7, <1>9, <2>1, <2>2 DEF Named
<1>12. ASSUME y < f PROVE m[y] = "@" /\ Named(o, s, y + 1, HostOf(s), f)
  <2>1. y + 1 \in 1..f /\ f \in (y + 1)..f
    BY <1>3, <1>4, <1>5, <1>12
  <2>2. \A k \in (y + 1)..(f - 1) : k \in 2..(f - 1) /\ k # x /\ k # y
    BY <1>3, <1>4, <1>5
  <2>3. m[y] = "@"
    BY <1>3, <1>5, <1>12
  <2> QED
    BY <1>7, <1>9, <1>12, <2>1, <2>2, <2>3 DEF Named
<1>13. ASSUME ~(y < f) PROVE m[y] # "@"
  BY <1>3, <1>5, <1>13
<1>14. NamesAre(o, h, s)
  <2>1. CASE y < f
    BY <1>1, <1>8, <1>10, <1>11, <1>12, <2>1 DEF NamesAre, f
  <2>2. CASE ~(y < f)
    BY <1>1, <1>8, <1>10, <1>11, <1>13, <2>2 DEF NamesAre, f
  <2> QED
    BY <2>1, <2>2
<1>15. CutTo(o, f, b, 1)
  <2>1. /\ f \in Nat /\ Len(b) \in Nat /\ f + Len(b) = Len(s)
        /\ \A i \in 1..Len(b) : b[i] = s[f + i]
    <3>1. PrefixIsGood(s)
      BY DEF AtComponents
    <3>2. /\ Len(m) = f + Len(b) + 1 /\ f \in Nat /\ Len(b) \in Nat
          /\ \A i \in 1..Len(b) : b[i] = s[f + i]
      BY <3>1, MemFacts DEF f
    <3> HIDE DEF b
    <3> QED
      BY <1>3, <3>2
  <2>2. \A k \in 1..Len(s) : m[k] = IF k = f THEN "nul" ELSE s[k]
    BY DEF AtComponents, f
  <2> HIDE DEF b
  <2>3. ASSUME NEW i \in 1..Len(b) PROVE o[f + i] = b[i] /\ ~(i < 1)
    <3>1. f + i \in 1..Len(s) /\ f + i # f /\ ~(i < 1) /\ f + i \in (f + 1)..Len(s)
      BY <2>1, SMTT(30)
    <3> QED
      BY <1>9, <2>1, <2>2, <3>1
  <2> QED
    BY <2>3 DEF CutTo
<1> QED
  BY <1>14, <1>15 DEF AtCmd, AtComponents, f

-------------------------------------------------------------------------------
(* The parser as a whole: each of its steps is one of those above.         *)

LEMMA MemIs ==
    ASSUME IInv
    PROVE  /\ Mem(buf, input) /\ input \in Seq(Token) /\ input # <<>>
           /\ Terminated /\ cur \in 1..Len(buf) /\ cur \in Nat
           /\ Len(buf) \in Nat \ {0} /\ buf[Len(buf)] = "nul"
           /\ msg.params \in Seq(Nat)
<1>1. /\ Terminated /\ Len(buf) \in Nat \ {0} /\ cur \in 1..Len(buf)
      /\ buf[Len(buf)] = "nul"
  BY InvFacts
<1>2. input \in Input /\ input \in Seq(Token) /\ input # <<>>
  BY InputIs DEF IInv
<1>3. \A k \in 1..Len(input) : input[k] # "nul"
  BY <1>2, IrcMsgAssumption DEF Contains
<1>4. Mem(buf, input)
  BY <1>1, <1>2, <1>3 DEF Mem, Terminated, IInv, CutUp
<1>5. msg.params \in Seq(Nat)
  <2>1. msg.params \in Seq(1..Len(buf)) /\ 1..Len(buf) \subseteq Nat
    BY <1>1 DEF IInv, Pointers
  <2> QED
    BY <2>1, SeqMonotonic
<1> QED
  BY <1>1, <1>2, <1>4, <1>5

LEMMA TextInit == Init => TextInv
<1> SUFFICES ASSUME Init PROVE TextInv
  OBVIOUS
<1>1. input \in Seq(Token) /\ "nul" \in Token /\ buf = Append(input, "nul")
  BY InputIs DEF Init, Token
<1>2. \A k \in 1..Len(input) : buf[k] = input[k]
  BY <1>1, AppendProperties
<1> QED
  BY <1>2 DEF Init, TextInv, AtPrefix

\* The steps that reject a message, and that leave it for good.
LEMMA RejectedIsMalformed ==
    ASSUME IInv, TextInv, BadPrefix \/ EmptyCmd \/ BadParam
    PROVE  ~WellFormed(input)
<1>1. /\ Mem(buf, input) /\ Terminated /\ cur \in 1..Len(buf) /\ cur \in Nat
      /\ Len(buf) \in Nat \ {0} /\ buf[Len(buf)] = "nul" /\ msg.params \in Seq(Nat)
  BY MemIs
<1>2. CASE BadPrefix
  <2> DEFINE e == Find(cur + 1, Ends)
  <2>1. /\ buf[cur] = ":" /\ AtPrefix(buf, msg, cur, input)
        /\ e = cur + 1 \/ buf[e] = "nul"
    BY <1>2 DEF BadPrefix, TextInv
  <2>2. cur + 1 \in 1..Len(buf)
    BY <1>1, <2>1
  <2>3. /\ e \in (cur + 1)..Len(buf) /\ buf[e] \in Ends
        /\ \A k \in (cur + 1)..(e - 1) : buf[k] \notin Ends
    BY <1>1, <2>2, Finds DEF Ends
  <2> HIDE DEF e
  <2> QED
    BY <1>1, <2>1, <2>3, BadPrefixStep
<1>3. CASE EmptyCmd
  <2>1. buf[cur] \in Ends /\ AtCmd(buf, msg, cur, input)
    BY <1>3 DEF EmptyCmd, TextInv
  <2> QED
    BY <1>1, <2>1, EmptyCmdStep
<1>4. CASE BadParam
  <2>1. /\ AtParams(buf, msg, cur, input) /\ buf[cur] \in Ends /\ buf[cur] # "nul"
        /\ buf[cur + 1] \in Ends \/ ~(Len(msg.params) + 1 <= MaxParams)
    BY <1>4 DEF BadParam, NextParam, FitsParam, TextInv, IInv, SeparatorIsNext
  <2> QED
    BY <1>1, <2>1, BadParamStep
<1> QED
  BY <1>2, <1>3, <1>4

LEMMA TextRejected ==
    ASSUME IInv, TextInv, BadPrefix \/ EmptyCmd \/ BadParam
    PROVE  TextInv'
<1>1. phase' \in {"exited", "invalid"} /\ input' = input
  BY DEF BadPrefix, EmptyCmd, BadParam, Reject
<1>2. ~WellFormed(input)
  BY RejectedIsMalformed
<1> QED
  BY <1>1, <1>2 DEF TextInv

LEMMA TextLeft ==
    ASSUME IInv, TextInv, Ignore \/ Misfit \/ Handle \/ NoBotCmd \/ BotCmd
    PROVE  TextInv'
<1>1. CASE Ignore \/ Misfit \/ NoBotCmd \/ BotCmd
  <2>1. phase' \in {"exited", "done"}
    BY <1>1 DEF Ignore, Misfit, NoBotCmd, BotCmd, Reject
  <2> QED
    BY <2>1 DEF TextInv
<1>2. CASE Handle
  <2>1. /\ phase' \in {"privmsg", "done"} /\ phase = "handle"
        /\ UNCHANGED <<input, buf, msg>>
    BY <1>2 DEF Handle
  <2> QED
    BY <2>1 DEF TextInv
<1> QED
  BY <1>1, <1>2

LEMMA TextPrefix ==
    ASSUME IInv, TextInv, NoPrefix \/ Prefix
    PROVE  TextInv'
<1>1. /\ Mem(buf, input) /\ Terminated /\ cur \in 1..Len(buf) /\ cur \in Nat
      /\ Len(buf) \in Nat \ {0} /\ buf[Len(buf)] = "nul"
  BY MemIs
<1>2. AtPrefix(buf, msg, cur, input) /\ phase' = "components" /\ input' = input
  BY DEF NoPrefix, Prefix, TextInv
<1>3. AtComponents(buf', msg', cur', input)
  <2>1. CASE NoPrefix
    <3>1. buf[cur] # ":" /\ UNCHANGED <<buf, msg, cur>>
      BY <2>1 DEF NoPrefix
    <3> QED
      BY <1>1, <1>2, <3>1, NoPrefixStep
  <2>2. CASE Prefix
    <3> DEFINE e == Find(cur + 1, Ends)
    <3>1. /\ buf[cur] = ":" /\ e # cur + 1 /\ buf[e] = "sp"
          /\ buf' = [buf EXCEPT ![e] = "nul"] /\ cur' = e + 1
          /\ msg' = [msg EXCEPT !.prefix = cur + 1]
      BY <2>2 DEF Prefix
    <3>2. cur + 1 \in 1..Len(buf)
      BY <1>1, <3>1
    <3>3. /\ e \in (cur + 1)..Len(buf)
          /\ \A k \in (cur + 1)..(e - 1) : buf[k] \notin Ends
      BY <1>1, <3>2, Finds DEF Ends
    <3>4. /\ msg'.prefix = cur + 1 /\ msg'.nick = msg.nick /\ msg'.user = msg.user
          /\ msg'.host = msg.host /\ msg'.params = msg.params
      BY <3>1 DEF IInv, Pointers
    <3> HIDE DEF e
    <3>5. AtComponents(buf', msg', e + 1, input)
      BY <1>1, <1>2, <3>1, <3>3, <3>4, PrefixStep
    <3> QED
      BY <3>1, <3>5
  <2> QED
    BY <2>1, <2>2
<1> QED
  BY <1>2, <1>3 DEF TextInv

LEMMA TextComponents ==
    ASSUME IInv, TextInv, NoComponents \/ Components
    PROVE  TextInv'
<1>1. /\ Mem(buf, input) /\ Terminated /\ Len(buf) \in Nat \ {0}
      /\ buf[Len(buf)] = "nul" /\ buf \in Seq(Token)
  BY MemIs DEF Mem
<1>2. /\ AtComponents(buf, msg, cur, input) /\ phase' = "cmd" /\ input' = input
      /\ cur' = cur
  BY DEF NoComponents, Components, TextInv
<1> DEFINE x == Find(msg.prefix, {"!", "nul"})
<1>3. msg.prefix # 0 =>
         /\ x \in msg.prefix..Len(buf) /\ buf[x] \in {"!", "nul"}
         /\ \A k \in msg.prefix..(x - 1) : buf[k] \notin {"!", "nul"}
  <2>1. msg.prefix # 0 => msg.prefix \in 1..Len(buf)
    BY <1>1 DEF IInv, Pointers, Place
  <2> QED
    BY <1>1, <2>1, Finds
<1>4. CASE NoComponents
  <2>1. /\ UNCHANGED <<buf, msg>>
        /\ msg.prefix = 0 \/ buf[x] # "!"
    BY <1>4 DEF NoComponents, NickFollows, Has
  <2> HIDE DEF x
  <2>2. \/ msg.prefix = 0
        \/ \E j \in msg.prefix..Len(buf) :
              /\ buf[j] = "nul"
              /\ \A k \in msg.prefix..(j - 1) : buf[k] \notin {"!", "nul"}
    BY <1>3, <2>1
  <2>3. AtCmd(buf, msg, cur, input)
    BY <1>1, <1>2, <2>2, NoNamesStep
  <2> QED
    BY <1>2, <2>1, <2>3 DEF TextInv
<1>5. CASE Components
  <2> DEFINE y == Find(x + 1, {"@", "nul"})
  <2>1. /\ msg.prefix # 0 /\ buf[x] = "!"
        /\ buf' = [buf EXCEPT ![x] = "nul", ![y] = "nul"]
        /\ msg' = [msg EXCEPT !.nick = msg.prefix, !.user = x + 1,
                              !.host = IF buf[y] = "@" THEN y + 1 ELSE 0]
    BY <1>5 DEF Components, NickFollows, Has
  <2>2. x \in 1..Len(buf) /\ x + 1 \in 1..Len(buf)
    <3>1. msg.prefix \in 1..Len(buf)
      BY <1>1, <2>1 DEF IInv, Pointers, Place
    <3> HIDE DEF x
    <3> QED
      BY <1>1, <1>3, <2>1, <3>1
  <2>3. /\ y \in (x + 1)..Len(buf) /\ buf[y] \in {"@", "nul"}
        /\ \A k \in (x + 1)..(y - 1) : buf[k] \notin {"@", "nul"}
    BY <1>1, <2>2, Finds
  <2> HIDE DEF x, y
  <2>4. y \in 1..Len(buf) /\ "nul" \in Token
    BY <1>1, <2>2, <2>3 DEF Token
  <2> DEFINE b == [buf EXCEPT ![x] = "nul"]
  <2>5. b \in Seq(Token) /\ Len(b) = Len(buf) /\ b[x] = "nul"
        /\ \A k \in 1..Len(buf) : k # x => b[k] = buf[k]
    BY <1>1, <2>2, <2>4, ExceptSeq
  <2>6. buf' = [b EXCEPT ![y] = "nul"]
    BY <2>1
  <2> HIDE DEF b
  <2>7. /\ Len(buf') = Len(buf) /\ buf'[y] = "nul" /\ y # x
        /\ \A k \in 1..Len(buf) : k # y => buf'[k] = b[k]
    <3>1. Len(buf') = Len(b) /\ buf'[y] = "nul"
          /\ \A k \in 1..Len(b) : k # y => buf'[k] = b[k]
      BY <2>4, <2>5, <2>6, ExceptSeq
    <3>2. y # x
      BY <1>1, <2>2, <2>3
    <3> QED
      BY <2>5, <3>1, <3>2
  <2>8. /\ Len(buf') = Len(buf) /\ buf'[x] = "nul" /\ buf'[y] = "nul"
        /\ \A k \in 1..Len(buf) : k # x /\ k # y => buf'[k] = buf[k]
    BY <2>2, <2>5, <2>7
  <2>9. /\ msg'.prefix = msg.prefix /\ msg'.nick = msg.prefix /\ msg'.user = x + 1
        /\ msg'.host = (IF buf[y] = "@" THEN y + 1 ELSE 0) /\ msg'.params = msg.params
    BY <2>1 DEF IInv, Pointers
  <2>10. /\ msg.prefix # 0 /\ x \in msg.prefix..Len(buf) /\ buf[x] = "!"
         /\ \A k \in msg.prefix..(x - 1) : buf[k] \notin {"!", "nul"}
    BY <1>3, <2>1
  <2>11. AtCmd(buf', msg', cur, input)
    <3>1. Mem(buf, input) /\ AtComponents(buf, msg, cur, input)
      BY <1>1, <1>2
    <3> QED
      BY <2>3, <2>8, <2>9, <2>10, <3>1, NamesStep
  <2> QED
    BY <1>2, <2>11 DEF TextInv
<1> QED
  BY <1>4, <1>5

LEMMA TextCmd ==
    ASSUME IInv, TextInv, Cmd
    PROVE  TextInv'
<1>1. /\ Mem(buf, input) /\ Terminated /\ cur \in 1..Len(buf) /\ cur \in Nat
      /\ Len(buf) \in Nat \ {0} /\ buf[Len(buf)] = "nul"
  BY MemIs
<1> DEFINE e == Find(cur, Ends)
<1>2. /\ AtCmd(buf, msg, cur, input) /\ phase' = "params" /\ cur' = e
      /\ buf[cur] \notin Ends /\ UNCHANGED <<input, buf>>
      /\ msg' = [msg EXCEPT !.cmd = cur]
  BY DEF Cmd, TextInv
<1>3. /\ e \in cur..Len(buf) /\ buf[e] \in Ends
      /\ \A k \in cur..(e - 1) : buf[k] \notin Ends
  BY <1>1, Finds DEF Ends
<1>4. /\ msg'.prefix = msg.prefix /\ msg'.nick = msg.nick /\ msg'.user = msg.user
      /\ msg'.host = msg.host /\ msg'.params = msg.params /\ msg'.cmd = cur
  BY <1>2 DEF IInv, Pointers
<1> HIDE DEF e
<1>5. AtParams(buf, msg', e, input)
  BY <1>1, <1>2, <1>3, <1>4, CmdStep
<1> QED
  BY <1>2, <1>5 DEF TextInv

LEMMA TextParams ==
    ASSUME IInv, TextInv, NoMoreParams \/ FinalParam \/ Param
    PROVE  TextInv'
<1>1. /\ Mem(buf, input) /\ Terminated /\ cur \in 1..Len(buf) /\ cur \in Nat
      /\ Len(buf) \in Nat \ {0} /\ buf[Len(buf)] = "nul" /\ msg.params \in Seq(Nat)
      /\ Len(msg.params) \in Nat
  BY MemIs
<1>2. AtParams(buf, msg, cur, input) /\ buf[cur] \in Ends /\ input' = input
  BY DEF NoMoreParams, FinalParam, Param, NextParam, TextInv, IInv, SeparatorIsNext
<1>3. CASE NoMoreParams
  <2>1. buf[cur] = "nul" /\ phase' = "handle" /\ UNCHANGED <<buf, msg>>
    BY <1>3 DEF NoMoreParams
  <2>2. AtHandle(buf, msg, Len(msg.params), input)
    BY <1>1, <1>2, <2>1, LastStep
  <2> QED
    BY <1>1, <1>2, <2>1, <2>2 DEF TextInv
<1>4. CASE FinalParam
  <2>1. /\ buf[cur] # "nul" /\ buf[cur + 1] = ":" /\ Len(msg.params) + 1 <= MaxParams
        /\ buf' = [buf EXCEPT ![cur] = "nul"] /\ phase' = "handle"
        /\ msg' = [msg EXCEPT !.params = Append(@, cur + 2)]
    BY <1>4 DEF FinalParam, NextParam, FitsParam
  <2>2. /\ msg'.prefix = msg.prefix /\ msg'.nick = msg.nick /\ msg'.user = msg.user
        /\ msg'.host = msg.host /\ msg'.cmd = msg.cmd
        /\ msg'.params = Append(msg.params, cur + 2)
    BY <2>1 DEF IInv, Pointers
  <2>3. AtHandle(buf', msg', Len(msg.params), input)
    BY <1>1, <1>2, <2>1, <2>2, FinalStep
  <2> QED
    BY <1>1, <1>2, <2>1, <2>3 DEF TextInv
<1>5. CASE Param
  <2> DEFINE e == Find(cur + 1, Ends)
  <2>1. /\ buf[cur] # "nul" /\ buf[cur + 1] \notin Ends \cup {":"}
        /\ Len(msg.params) + 1 <= MaxParams /\ phase = "params"
        /\ buf' = [buf EXCEPT ![cur] = "nul"] /\ phase' = phase /\ cur' = e
        /\ msg' = [msg EXCEPT !.params = Append(@, cur + 1)]
    BY <1>5 DEF Param, NextParam, FitsParam
  <2>2. /\ msg'.prefix = msg.prefix /\ msg'.nick = msg.nick /\ msg'.user = msg.user
        /\ msg'.host = msg.host /\ msg'.cmd = msg.cmd
        /\ msg'.params = Append(msg.params, cur + 1)
    BY <2>1 DEF IInv, Pointers
  <2>3. cur + 1 \in 1..Len(buf)
    BY <1>1, <2>1
  <2>4. /\ e \in (cur + 1)..Len(buf) /\ buf[e] \in Ends
        /\ \A k \in (cur + 1)..(e - 1) : buf[k] \notin Ends
    BY <1>1, <2>3, Finds DEF Ends
  <2> HIDE DEF e
  <2>5. AtParams(buf', msg', e, input)
    BY <1>1, <1>2, <2>1, <2>2, <2>4, ParamStep
  <2> QED
    BY <1>2, <2>1, <2>5 DEF TextInv
<1> QED
  BY <1>3, <1>4, <1>5

LEMMA TextNext == IInv /\ TextInv /\ [Next]_vars => TextInv'
<1> SUFFICES ASSUME IInv, TextInv, [Next]_vars PROVE TextInv'
  OBVIOUS
<1>1. CASE UNCHANGED vars
  BY <1>1 DEF vars, TextInv
<1>2. CASE Next
  BY <1>2, TextRejected, TextLeft, TextPrefix, TextComponents, TextCmd, TextParams
  DEF Next, Split
<1> QED
  BY <1>1, <1>2

LEMMA MessageTextInv == Spec => [](IInv /\ TextInv)
<1>1. Init => IInv /\ TextInv
  BY InvInit, TextInit
<1>2. (IInv /\ TextInv) /\ [Next]_vars => (IInv /\ TextInv)'
  BY InvNext, TextNext
<1> QED
  BY <1>1, <1>2, PTL DEF Spec

-------------------------------------------------------------------------------
(* The strings in memory                                                   *)

\* The string at place i of the memory m.
CStrOf(m, i) ==
    SubSeq(m, i, (CHOOSE j \in i..Len(m) :
                     m[j] \in {"nul"} /\ \A k \in i..(j - 1) : m[k] \notin {"nul"}) - 1)

LEMMA CStrOfIs ==
    ASSUME NEW m, Len(m) \in Nat, NEW i \in 1..Len(m), NEW j \in i..Len(m), m[j] = "nul",
           \A k \in i..(j - 1) : m[k] # "nul"
    PROVE  CStrOf(m, i) = SubSeq(m, i, j - 1)
<1> DEFINE P(x) == m[x] \in {"nul"} /\ \A k \in i..(x - 1) : m[k] \notin {"nul"}
<1>1. P(j)
  OBVIOUS
<1>2. ASSUME NEW x \in i..Len(m), P(x) PROVE x = j
  <2>1. ~(x < j)
    BY <1>2
  <2>2. ~(j < x)
    BY <1>2
  <2> QED
    BY <2>1, <2>2
<1> DEFINE c == CHOOSE x \in i..Len(m) : P(x)
<1>3. c \in i..Len(m) /\ P(c)
  BY <1>1
<1>4. c = j
  <2> HIDE DEF c, P
  <2> QED
    BY <1>2, <1>3
<1> QED
  BY <1>4 DEF CStrOf

LEMMA CStrIs ==
    ASSUME Terminated, NEW i \in 1..Len(buf), NEW j \in i..Len(buf), buf[j] = "nul",
           \A k \in i..(j - 1) : buf[k] # "nul"
    PROVE  CStr(i) = SubSeq(buf, i, j - 1)
<1>1. Len(buf) \in Nat
  BY DEF Terminated
<1>2. CStrOf(buf, i) = SubSeq(buf, i, j - 1)
  BY <1>1, CStrOfIs
<1> QED
  BY <1>2 DEF CStr, Find, CStrOf

\* Two slices that hold the same.
LEMMA SameSlice ==
    ASSUME NEW m \in Seq(Token), NEW b \in Seq(Token), NEW f \in Nat,
           NEW u \in 1..(Len(b) + 1), NEW v \in u..(Len(b) + 1), f + v \in 1..Len(m),
           \A k \in u..(v - 1) : m[f + k] = b[k]
    PROVE  SubSeq(m, f + u, (f + v) - 1) = SubSeq(b, u, v - 1)
<1> DEFINE x == f + u
           y == (f + v) - 1
           w == v - 1
           s == SubSeq(m, x, y)
           t == SubSeq(b, u, w)
<1>1. Len(b) \in Nat /\ Len(m) \in Nat
  OBVIOUS
<1>2. /\ x \in 1..(Len(m) + 1) /\ y \in (x - 1)..Len(m)
      /\ w \in (u - 1)..Len(b) /\ (y - x) + 1 = v - u /\ (w - u) + 1 = v - u
  BY <1>1
<1>3. \A k \in 1..(v - u) : /\ (u + k) - 1 \in u..(v - 1)
                            /\ f + ((u + k) - 1) = (x + k) - 1
  BY <1>1
<1> HIDE DEF x, y, w
<1>4. /\ s \in Seq(Token) /\ Len(s) = v - u
      /\ \A k \in 1..(v - u) : s[k] = m[(x + k) - 1]
  <2>1. /\ s \in Seq(Token) /\ Len(s) = (y - x) + 1
        /\ \A k \in 1..((y - x) + 1) : s[k] = m[(x + k) - 1]
    BY <1>2, SliceFacts
  <2> QED
    BY <1>2, <2>1
<1>5. /\ t \in Seq(Token) /\ Len(t) = v - u
      /\ \A k \in 1..(v - u) : t[k] = b[(u + k) - 1]
  <2>1. /\ t \in Seq(Token) /\ Len(t) = (w - u) + 1
        /\ \A k \in 1..((w - u) + 1) : t[k] = b[(u + k) - 1]
    BY <1>2, SliceFacts
  <2> QED
    BY <1>2, <2>1
<1> HIDE DEF s, t
<1>6. \A k \in 1..Len(s) : s[k] = t[k]
  BY <1>3, <1>4, <1>5
<1>7. s = t
  BY <1>4, <1>5, <1>6, SeqEqual
<1> QED
  BY <1>7 DEF s, t, x, y, w

LEMMA StringAt ==
    ASSUME Terminated, NEW b \in Seq(Token), NEW f \in Nat,
           NEW u \in 1..(Len(b) + 1), NEW v \in u..(Len(b) + 1), f + v \in 1..Len(buf),
           buf[f + v] = "nul",
           \A k \in u..(v - 1) : buf[f + k] = b[k] /\ b[k] # "nul"
    PROVE  CStr(f + u) = SubSeq(b, u, v - 1)
<1> DEFINE i == f + u
           j == f + v
<1>1. Len(b) \in Nat /\ buf \in Seq(Token) /\ Len(buf) \in Nat
  BY DEF Terminated
<1>2. i \in 1..Len(buf) /\ j \in i..Len(buf)
  BY <1>1
<1>3. ASSUME NEW k \in i..(j - 1) PROVE buf[k] # "nul"
  <2> DEFINE l == k - f
  <2>1. l \in u..(v - 1) /\ k = f + l
    BY <1>1
  <2> HIDE DEF l
  <2> QED
    BY <2>1
<1>4. SubSeq(buf, f + u, (f + v) - 1) = SubSeq(b, u, v - 1)
  BY <1>1, SameSlice
<1> HIDE DEF i, j
<1>5. CStr(i) = SubSeq(buf, i, j - 1)
  <2>1. buf[j] = "nul"
    BY DEF j
  <2> QED
    BY <1>2, <1>3, <2>1, CStrIs
<1> QED
  BY <1>4, <1>5 DEF i, j

LEMMA NamedString ==
    ASSUME IInv, NEW f \in 0..Len(input), NEW i, NEW t, Named(buf, input, i, t, f)
    PROVE  i \in 1..f /\ CStr(i) = t
<1>1. /\ Terminated /\ input \in Seq(Token) /\ Len(input) \in Nat
      /\ Len(buf) = Len(input) + 1 /\ \A k \in 1..Len(input) : input[k] # "nul"
  BY MemIs DEF Mem
<1>2. i \in 1..f
  BY DEF Named
<1>3. PICK j \in i..f :
        /\ buf[j] = "nul"
        /\ \A k \in i..(j - 1) : buf[k] = input[k]
        /\ t = SubSeq(input, i, j - 1)
  BY DEF Named
<1> DEFINE z == 0
<1>4. /\ z \in Nat /\ i \in 1..(Len(input) + 1) /\ j \in i..(Len(input) + 1)
      /\ z + j \in 1..Len(buf) /\ z + j = j /\ z + i = i
  BY <1>1, <1>2
<1>5. \A k \in i..(j - 1) : buf[z + k] = input[k] /\ input[k] # "nul"
  <2>1. \A k \in i..(j - 1) : z + k = k /\ k \in 1..Len(input)
    BY <1>1, <1>2
  <2> QED
    BY <1>1, <1>3, <2>1
<1> HIDE DEF z
<1>6. CStr(z + i) = SubSeq(input, i, j - 1)
  BY <1>1, <1>3, <1>4, <1>5, StringAt
<1> QED
  BY <1>2, <1>3, <1>4, <1>6

LEMMA NotLater ==
    ASSUME NEW q, Increasing(q), NEW j \in 1..Len(q), NEW k \in 1..Len(q), j <= k
    PROVE  q[j] \in Nat /\ q[k] \in Nat /\ q[j] <= q[k]
<1>1. q[j] \in Nat /\ q[k] \in Nat
  BY DEF Increasing
<1>2. CASE j = k
  BY <1>1, <1>2
<1>3. CASE j < k
  <2>1. q[j] < q[k]
    BY <1>3 DEF Increasing
  <2> QED
    BY <1>1, <2>1
<1> QED
  BY <1>2, <1>3

\* No space within a word, and one or the end after it.
WordAt(b, q, c, k) ==
    /\ WordFrom(q, k) \in 1..Len(b)
    /\ Append(q, c)[k] \in (WordFrom(q, k) + 1)..c
    /\ \A i \in WordFrom(q, k)..(Append(q, c)[k] - 1) : b[i] # "sp"
    /\ Append(q, c)[k] # c => b[Append(q, c)[k]] = "sp"

LEMMA WordIs ==
    ASSUME NEW b \in Seq(Token), NEW q, NEW c, SplitTo(b, q, c),
           NEW k \in 1..(Len(q) + 1)
    PROVE  WordAt(b, q, c, k)
<1> DEFINE ends == Append(q, c)
           u == WordFrom(q, k)
           v == ends[k]
<1>1. /\ q \in Seq(Nat) /\ Len(q) \in Nat /\ Increasing(q) /\ c \in Nat
      /\ \A j \in 1..Len(q) : /\ q[j] \in 2..(c - 2) /\ b[q[j]] = "sp"
                              /\ b[q[j] + 1] \notin {"sp", ":"}
      /\ \A i \in 1..(c - 1) : b[i] = "sp" <=> \E j \in 1..Len(q) : i = q[j]
  BY SplitFacts, SMTT(30)
<1>2. Len(b) \in Nat /\ c \in 2..(Len(b) + 1)
  BY DEF SplitTo
<1>3. /\ ends \in Seq(Nat) /\ Len(ends) = Len(q) + 1 /\ ends[Len(q) + 1] = c
      /\ \A j \in 1..Len(q) : ends[j] = q[j]
  BY <1>1, AppendProperties
<1> HIDE DEF ends
<1>4. /\ v \in 2..c /\ (v # c => k \in 1..Len(q) /\ v = q[k] /\ b[v] = "sp")
      /\ k \in 1..Len(q) => v = q[k]
  <2>1. CASE k \in 1..Len(q)
    <3>1. v = q[k]
      BY <1>3, <2>1
    <3>2. v \in 2..(c - 2) /\ b[v] = "sp"
      BY <1>1, <2>1, <3>1
    <3> HIDE DEF v
    <3> QED
      BY <1>2, <2>1, <3>1, <3>2
  <2>2. CASE k \notin 1..Len(q)
    <3>1. k = Len(q) + 1
      BY <1>1, <2>2
    <3>2. v = c
      BY <1>3, <3>1
    <3> HIDE DEF v
    <3> QED
      BY <1>2, <2>2, <3>2
  <2> QED
    BY <2>1, <2>2
<1>5. CASE k = 1
  <2>1. u = 1
    BY <1>5 DEF WordFrom
  <2>2. ASSUME NEW i \in u..(v - 1) PROVE b[i] # "sp"
    <3>1. i \in 1..(c - 1)
      BY <1>2, <1>4, <2>1
    <3>2. ASSUME NEW j \in 1..Len(q), i = q[j] PROVE FALSE
      <4>1. 1 \in 1..Len(q) /\ v = q[1]
        BY <1>1, <1>4, <1>5
      <4>2. q[1] \in Nat /\ q[j] \in Nat /\ q[1] <= q[j]
        <5>1. 1 <= j
          BY <1>1
        <5> QED
          BY <1>1, <4>1, <5>1, NotLater
      <4>3. i < v /\ i \in Nat
        BY <1>4, <2>1
      <4> HIDE DEF v
      <4> QED
        BY <3>2, <4>1, <4>2, <4>3
    <3> QED
      BY <1>1, <3>1, <3>2
  <2> HIDE DEF u, v
  <2>3. u \in 1..Len(b) /\ v \in (u + 1)..c
    BY <1>2, <1>4, <2>1
  <2> QED
    BY <1>4, <2>2, <2>3 DEF WordAt, u, v, ends
<1>6. CASE k # 1
  <2> DEFINE l == k - 1
  <2>1. l \in 1..Len(q) /\ k = l + 1 /\ u = q[l] + 1
    BY <1>1, <1>6 DEF WordFrom
  <2> HIDE DEF l, u, v
  <2>2. q[l] \in 2..(c - 2) /\ b[q[l] + 1] # "sp"
    BY <1>1, <2>1
  <2>3. v > q[l]
    <3>1. CASE k \in 1..Len(q)
      <4>1. l < k
        BY <1>1, <2>1
      <4> QED
        BY <1>1, <1>4, <2>1, <3>1, <4>1 DEF Increasing
    <3>2. CASE k \notin 1..Len(q)
      BY <1>2, <1>4, <2>2, <3>2
    <3> QED
      BY <3>1, <3>2
  <2>4. v # q[l] + 1
    <3>1. v = c => v # q[l] + 1
      BY <1>2, <2>2
    <3>2. v # c => v # q[l] + 1
      BY <1>4, <2>2
    <3> QED
      BY <3>1, <3>2
  <2>5. u \in 1..Len(b) /\ v \in (u + 1)..c
    BY <1>2, <1>4, <2>1, <2>2, <2>3, <2>4, SMTT(30)
  <2>6. ASSUME NEW i \in u..(v - 1) PROVE b[i] # "sp"
    <3>1. i \in 1..(c - 1) /\ i > q[l] /\ i < v
      <4>1. q[l] \in Nat /\ c \in Nat
        BY <1>2, <2>2
      <4>2. u \in Nat /\ v \in Nat /\ v <= c /\ u = q[l] + 1
        BY <2>1, <2>5, <4>1
      <4>3. i \in Nat /\ u <= i /\ i < v
        BY <4>2
      <4> QED
        BY <4>1, <4>2, <4>3
    <3>2. ASSUME NEW j \in 1..Len(q), i = q[j] PROVE FALSE
      <4>1. ~(j <= l)
        <5>1. CASE j < l
          <6>1. q \in Seq(Nat) /\ q[j] < q[l]
            BY <1>1, <2>1, <5>1 DEF Increasing
          <6> QED
            BY <2>2, <3>1, <3>2, <6>1
        <5>2. CASE j = l
          BY <1>1, <2>2, <3>1, <3>2, <5>2
        <5>3. j \in Int /\ l \in Int
          BY <2>1
        <5> QED
          BY <5>1, <5>2, <5>3
      <4>2. j >= k /\ k \in 1..Len(q)
        BY <1>1, <2>1, <4>1
      <4>3. q[k] \in Nat /\ q[j] \in Nat /\ q[k] <= q[j]
        <5>1. k <= j
          BY <4>2
        <5> QED
          BY <1>1, <4>2, <5>1, NotLater
      <4>4. v = q[k]
        BY <1>4, <4>2
      <4> QED
        BY <3>1, <3>2, <4>3, <4>4
    <3> QED
      BY <1>1, <3>1, <3>2
  <2> QED
    BY <1>4, <2>5, <2>6 DEF WordAt, u, v, ends
<1> QED
  BY <1>5, <1>6

-------------------------------------------------------------------------------
(* What a handler is given                                                 *)

\* The body of a message that has been cut up.
BodyCut(m, g, n, s) ==
    LET b == BodyOf(s)
        f == Base(s)
        c == Colon(b)
    IN  /\ f \in Nat /\ f \in 0..Len(s) /\ b \in Seq(Token) /\ Len(b) \in Nat
        /\ Len(m) = f + Len(b) + 1 /\ m[f + Len(b) + 1] = "nul"
        /\ \A i \in 1..Len(b) : b[i] # "nul"
        /\ CutTo(m, f, b, c + 1)
        /\ SplitTo(b, Stops(g, n, f), c)
        /\ Len(Stops(g, n, f)) = n
        /\ c \in 2..(Len(b) + 1)
        /\ c <= Len(b) => c + 1 <= Len(b) /\ b[c] = "sp"

LEMMA BodyIsCut ==
    ASSUME NEW m, NEW s, Mem(m, s), NEW g, NEW n \in Nat, AtHandle(m, g, n, s)
    PROVE  BodyCut(m, g, n, s)
<1> DEFINE b == BodyOf(s)
           f == Base(s)
           c == Colon(b)
<1>1. PrefixIsGood(s) /\ CutTo(m, f, b, c + 1) /\ SplitTo(b, Stops(g, n, f), c)
  BY DEF AtHandle
<1>2. /\ f \in Nat /\ f \in 0..Len(s) /\ b \in Seq(Token) /\ Len(b) \in Nat
      /\ Len(m) = f + Len(b) + 1 /\ m[f + Len(b) + 1] = "nul"
      /\ \A i \in 1..Len(b) : b[i] # "nul"
  BY <1>1, MemFacts
<1>3. c <= Len(b) => c + 1 <= Len(b) /\ b[c] = "sp"
  BY <1>2, ColonFacts DEF ColonAt
<1>4. c \in 2..(Len(b) + 1)
  BY <1>1 DEF SplitTo
<1>5. Len(Stops(g, n, f)) = n
  BY DEF Stops
<1> QED
  BY <1>1, <1>2, <1>3, <1>4, <1>5 DEF BodyCut

\* Word k of the body, in memory: it ends with a null.
WordCut(m, g, n, s, k) ==
    LET b == BodyOf(s)
        f == Base(s)
        q == Stops(g, n, f)
        u == WordFrom(q, k)
        v == Append(q, Colon(b))[k]
    IN  /\ f \in Nat /\ b \in Seq(Token) /\ Len(b) \in Nat
        /\ u \in 1..Len(b) /\ v \in (u + 1)..(Len(b) + 1)
        /\ f + v \in 1..Len(m) /\ m[f + v] = "nul"
        /\ \A i \in u..(v - 1) : m[f + i] = b[i] /\ b[i] # "nul" /\ b[i] # "sp"
        /\ WordsOf(b)[k] = SubSeq(b, u, v - 1)

LEMMA WordInMemory ==
    ASSUME NEW m, NEW s, Mem(m, s), NEW g, NEW n \in Nat, AtHandle(m, g, n, s),
           NEW k \in 1..(n + 1)
    PROVE  WordCut(m, g, n, s, k)
<1> DEFINE b == BodyOf(s)
           f == Base(s)
           c == Colon(b)
           q == Stops(g, n, f)
           u == WordFrom(q, k)
           v == Append(q, c)[k]
<1>1. /\ f \in Nat /\ b \in Seq(Token) /\ Len(b) \in Nat
      /\ Len(m) = f + Len(b) + 1 /\ m[f + Len(b) + 1] = "nul"
      /\ \A i \in 1..Len(b) : b[i] # "nul"
      /\ CutTo(m, f, b, c + 1) /\ SplitTo(b, q, c) /\ Len(q) = n
      /\ c \in 2..(Len(b) + 1)
      /\ c <= Len(b) => b[c] = "sp"
  BY BodyIsCut DEF BodyCut
<1> HIDE DEF b, f, c, q
<1>2. /\ u \in 1..Len(b) /\ v \in (u + 1)..c
      /\ \A i \in u..(v - 1) : b[i] # "sp"
      /\ v # c => b[v] = "sp"
  <2>1. k \in 1..(Len(q) + 1)
    BY <1>1
  <2> QED
    BY <1>1, <2>1, WordIs, SMTT(30) DEF WordAt
<1>3. WordsOf(b)[k] = SubSeq(b, u, v - 1)
  BY <1>1, WordsAre DEF c
<1> HIDE DEF u, v
<1>4. v \in (u + 1)..(Len(b) + 1) /\ f + v \in 1..Len(m)
  BY <1>1, <1>2
<1>5. m[f + v] = "nul"
  <2>1. CASE v = Len(b) + 1
    <3>1. f + v = f + Len(b) + 1
      BY <1>1, <2>1
    <3> QED
      BY <1>1, <3>1
  <2>2. CASE v # Len(b) + 1
    <3>1. v \in 1..Len(b) /\ v < c + 1 /\ b[v] = "sp"
      BY <1>1, <1>2, <2>2
    <3> QED
      BY <1>1, <3>1 DEF CutTo
  <2> QED
    BY <2>1, <2>2
<1>6. \A i \in u..(v - 1) : m[f + i] = b[i] /\ b[i] # "nul" /\ b[i] # "sp"
  <2>1. \A i \in u..(v - 1) : i \in 1..Len(b) /\ b[i] # "sp"
    BY <1>1, <1>2
  <2> QED
    BY <1>1, <2>1 DEF CutTo
<1> QED
  BY <1>1, <1>2, <1>3, <1>4, <1>5, <1>6 DEF WordCut, b, f, c, q, u, v

\* Command and parameters but the last one with a colon.
LEMMA WordString ==
    ASSUME IInv, NEW n \in Nat, AtHandle(buf, msg, n, input), NEW k \in 1..(n + 1)
    PROVE  CStr(Base(input) + WordFrom(Stops(msg, n, Base(input)), k)) =
               WordsOf(BodyOf(input))[k]
<1> DEFINE b == BodyOf(input)
           f == Base(input)
           q == Stops(msg, n, f)
           u == WordFrom(q, k)
           v == Append(q, Colon(b))[k]
<1>1. Mem(buf, input) /\ Terminated
  BY MemIs
<1>2. WordCut(buf, msg, n, input, k)
  BY <1>1, WordInMemory
<1>3. /\ f \in Nat /\ b \in Seq(Token) /\ Len(b) \in Nat
      /\ u \in 1..Len(b) /\ v \in (u + 1)..(Len(b) + 1)
      /\ f + v \in 1..Len(buf) /\ buf[f + v] = "nul"
      /\ \A i \in u..(v - 1) : buf[f + i] = b[i] /\ b[i] # "nul"
      /\ WordsOf(b)[k] = SubSeq(b, u, v - 1)
  BY <1>2 DEF WordCut
<1> HIDE DEF b, f, q, u, v
<1>4. u \in 1..(Len(b) + 1) /\ v \in u..(Len(b) + 1)
  BY <1>3
<1>5. CStr(f + u) = SubSeq(b, u, v - 1)
  BY <1>1, <1>3, <1>4, StringAt
<1> QED
  BY <1>3, <1>5 DEF b, f, q, u

LEMMA LastString ==
    ASSUME IInv, NEW n \in Nat, AtHandle(buf, msg, n, input),
           Colon(BodyOf(input)) <= Len(BodyOf(input))
    PROVE  CStr(Base(input) + Colon(BodyOf(input)) + 2) =
               SubSeq(BodyOf(input), Colon(BodyOf(input)) + 2, Len(BodyOf(input)))
<1> DEFINE b == BodyOf(input)
           f == Base(input)
           c == Colon(b)
           u == c + 2
           v == Len(b) + 1
<1>1. Mem(buf, input) /\ Terminated
  BY MemIs
<1>2. /\ f \in Nat /\ b \in Seq(Token) /\ Len(b) \in Nat
      /\ Len(buf) = f + Len(b) + 1 /\ buf[f + Len(b) + 1] = "nul"
      /\ \A i \in 1..Len(b) : b[i] # "nul"
      /\ CutTo(buf, f, b, c + 1)
      /\ c \in 2..(Len(b) + 1) /\ c + 1 <= Len(b)
  BY <1>1, BodyIsCut DEF BodyCut
<1> HIDE DEF b, f, c
<1>3. /\ u \in 1..(Len(b) + 1) /\ v \in u..(Len(b) + 1) /\ f + v \in 1..Len(buf)
      /\ f + v = f + Len(b) + 1 /\ v - 1 = Len(b) /\ f + u = f + c + 2
  BY <1>2
<1>4. \A i \in u..(v - 1) : i \in 1..Len(b) /\ ~(i < c + 1)
  BY <1>2
<1>5. \A i \in u..(v - 1) : buf[f + i] = b[i] /\ b[i] # "nul"
  BY <1>2, <1>4 DEF CutTo
<1> HIDE DEF u, v
<1>6. buf[f + v] = "nul"
  BY <1>2, <1>3
<1>7. CStr(f + u) = SubSeq(b, u, v - 1)
  BY <1>1, <1>2, <1>3, <1>5, <1>6, StringAt
<1> QED
  BY <1>3, <1>7 DEF b, f, c, u

\* What the parameters are.
LEMMA ParamStrings ==
    ASSUME IInv, NEW n \in Nat, AtHandle(buf, msg, n, input)
    PROVE  /\ CStr(msg.cmd) = WordsOf(BodyOf(input))[1]
           /\ Len(WordsOf(BodyOf(input))) = n + 1
           /\ \A k \in 1..(n + 1) : WordsOf(BodyOf(input))[k] # <<>>
           /\ DOMAIN WordsOf(BodyOf(input)) = 1..(n + 1)
           /\ Len(ParamsOf(BodyOf(input))) = NParams
           /\ ParamsOf(BodyOf(input)) =
                 [k \in 1..NParams |-> ParamsOf(BodyOf(input))[k]]
           /\ \A k \in 1..NParams : CStr(msg.params[k]) = ParamsOf(BodyOf(input))[k]
<1> DEFINE b == BodyOf(input)
           f == Base(input)
           c == Colon(b)
           q == Stops(msg, n, f)
           more == IF c <= Len(b) THEN 1 ELSE 0
<1>1. Mem(buf, input) /\ Terminated /\ msg.params \in Seq(Nat)
  BY MemIs
<1>2. /\ f \in Nat /\ b \in Seq(Token) /\ Len(b) \in Nat
      /\ SplitTo(b, q, c) /\ Len(q) = n /\ c \in 2..(Len(b) + 1)
  BY <1>1, BodyIsCut DEF BodyCut
<1>3. /\ WordsOf(b) = [k \in 1..Len(WordsOf(b)) |-> WordsOf(b)[k]]
      /\ Len(WordsOf(b)) = n + 1
      /\ \A k \in 1..(n + 1) : WordsOf(b)[k] # <<>>
  BY <1>2, WordsAre
<1>4. /\ Len(ParamsOf(b)) = n + more
      /\ ParamsOf(b) = [k \in 1..(n + more) |-> ParamsOf(b)[k]]
      /\ \A k \in 1..n : ParamsOf(b)[k] = WordsOf(b)[k + 1]
      /\ c <= Len(b) => ParamsOf(b)[n + 1] = SubSeq(b, c + 2, Len(b))
  BY <1>2, <1>3, ParamsFrom
<1>5. /\ NParams = n + more /\ msg.cmd = f + 1
      /\ c <= Len(b) => msg.params[n + 1] = f + c + 2
  <2>1. n + 0 = n
    OBVIOUS
  <2> QED
    BY <2>1 DEF AtHandle, NParams
<1>6. \A k \in 1..(n + 1) : CStr(f + WordFrom(q, k)) = WordsOf(b)[k]
  BY WordString
<1>7. c <= Len(b) => CStr(f + c + 2) = SubSeq(b, c + 2, Len(b))
  BY LastString
<1>8. CStr(msg.cmd) = WordsOf(b)[1]
  <2>1. 1 \in 1..(n + 1) /\ WordFrom(q, 1) = 1
    BY DEF WordFrom
  <2> QED
    BY <1>5, <1>6, <2>1
<1>9. \A k \in 1..n : q[k] = msg.params[k] - 1 - f
  BY DEF Stops
<1>10. more \in 0..1 /\ (more = 1 <=> c <= Len(b))
  OBVIOUS
<1> HIDE DEF b, f, c, q, more
<1>11. ASSUME NEW k \in 1..NParams PROVE CStr(msg.params[k]) = ParamsOf(b)[k]
  <2>1. CASE k \in 1..n
    <3> DEFINE l == k + 1
               p == msg.params[k]
    <3>1. p \in Nat
      BY <1>1 DEF NParams
    <3>2. l \in 1..(n + 1) /\ l # 1 /\ l - 1 = k
      BY <2>1
    <3>3. WordFrom(q, l) = q[k] + 1
      BY <3>2 DEF WordFrom
    <3>4. q[k] = p - 1 - f
      BY <1>9, <2>1
    <3> HIDE DEF l, p
    <3>5. f + WordFrom(q, l) = p
      BY <1>2, <3>1, <3>3, <3>4
    <3>6. CStr(p) = WordsOf(b)[l]
      BY <1>6, <3>2, <3>5
    <3> QED
      BY <1>4, <2>1, <3>6 DEF l, p
  <2>2. CASE k \notin 1..n
    <3>1. k = n + 1 /\ more = 1
      BY <1>5, <1>10, <2>2
    <3> QED
      BY <1>4, <1>5, <1>7, <1>10, <3>1
  <2> QED
    BY <2>1, <2>2
<1>12. DOMAIN WordsOf(b) = 1..(n + 1)
  BY <1>3
<1> QED
  BY <1>3, <1>4, <1>5, <1>8, <1>11, <1>12 DEF b

\* What a handler is given.
LEMMA HandlerIsGiven ==
    ASSUME IInv, NEW n \in Nat, AtHandle(buf, msg, n, input)
    PROVE  /\ WellFormed(input)
           /\ Points(msg.prefix, HasPrefix(input),
                     IF HasNick(input) THEN NickOf(input) ELSE PrefixOf(input))
           /\ Points(msg.nick, HasNick(input), NickOf(input))
           /\ Points(msg.user, HasNick(input), UserOf(input))
           /\ Points(msg.host, HasHost(input), HostOf(input))
           /\ CStr(msg.cmd) = WordsOf(BodyOf(input))[1]
           /\ [k \in 1..NParams |-> CStr(msg.params[k])] =
                  ParamsOf(BodyOf(input))
<1>1. Mem(buf, input) /\ input \in Seq(Token)
  BY MemIs
<1>2. /\ PrefixIsGood(input) /\ NamesAre(buf, msg, input)
      /\ NParams <= MaxParams
  BY DEF AtHandle, NParams
<1>3. WellFormed(input)
  BY <1>2, ParamStrings DEF WellFormed, PrefixIsGood
<1>4. Base(input) \in 0..Len(input)
  BY <1>1, <1>2, MemFacts
<1>5. \A i, t : Named(buf, input, i, t, Base(input)) => i # 0 /\ CStr(i) = t
  <2>1. ASSUME NEW i, NEW t, Named(buf, input, i, t, Base(input))
        PROVE  i # 0 /\ CStr(i) = t
    <3>1. i \in 1..Base(input) /\ CStr(i) = t
      BY <1>4, <2>1, NamedString
    <3> QED
      BY <1>4, <3>1
  <2> QED
    BY <2>1
<1>6. /\ Points(msg.nick, HasNick(input), NickOf(input))
      /\ Points(msg.user, HasNick(input), UserOf(input))
      /\ Points(msg.host, HasHost(input), HostOf(input))
  BY <1>2, <1>5 DEF NamesAre, Points
<1>7. [k \in 1..NParams |-> CStr(msg.params[k])] = ParamsOf(BodyOf(input))
  <2> DEFINE p == ParamsOf(BodyOf(input))
  <2>1. /\ p = [k \in 1..NParams |-> p[k]]
        /\ \A k \in 1..NParams : CStr(msg.params[k]) = p[k]
    BY ParamStrings
  <2> HIDE DEF p
  <2>2. [k \in 1..NParams |-> CStr(msg.params[k])] = [k \in 1..NParams |-> p[k]]
    BY <2>1
  <2> QED
    BY <2>1, <2>2 DEF p
<1>8. Points(msg.prefix, HasPrefix(input),
             IF HasNick(input) THEN NickOf(input) ELSE PrefixOf(input))
  <2>1. CASE HasNick(input)
    <3>1. HasPrefix(input) /\ msg.prefix = 2 /\ CStr(2) = NickOf(input)
      BY <1>2, <1>5, <2>1 DEF NamesAre, HasNick
    <3> QED
      BY <2>1, <3>1 DEF Points
  <2>2. CASE ~HasNick(input)
    <3>1. IF HasPrefix(input) THEN msg.prefix = 2 /\ CStr(2) = PrefixOf(input)
          ELSE msg.prefix = 0
      BY <1>2, <1>5, <2>2 DEF NamesAre
    <3> QED
      BY <2>2, <3>1 DEF Points
  <2> QED
    BY <2>1, <2>2
<1> QED
  BY <1>3, <1>6, <1>7, <1>8, ParamStrings

\* split_msg() accepts the messages of every length that are well-formed, and
\* rejects the others; what it points to - prefix, nickname, username, host,
\* command and parameters - is what the text says.
THEOREM SplitsTextRight == Spec => []SplitsAsWritten
<1>1. IInv /\ TextInv => SplitsAsWritten
  <2> SUFFICES ASSUME IInv, TextInv PROVE SplitsAsWritten
    OBVIOUS
  <2>1. CASE phase = "handle"
    <3>1. PICK n \in Nat : AtHandle(buf, msg, n, input)
      BY <2>1 DEF TextInv
    <3> QED
      BY <2>1, <3>1, HandlerIsGiven DEF SplitsAsWritten
  <2>2. CASE phase # "handle"
    BY <2>2 DEF SplitsAsWritten, TextInv
  <2> QED
    BY <2>1, <2>2
<1> QED
  BY <1>1, MessageTextInv, PTL

\* What handle_msg() finds in the table is what the text is for.
LEMMA FitsWhatIsMeant ==
    ASSUME IInv, TextInv, phase = "handle"
    PROVE  /\ WellFormed(input)
           /\ Meant(input) = Known
           /\ Handled(input) = {c \in Known : Fits(c)}
<1>1. PICK n \in Nat : AtHandle(buf, msg, n, input)
  BY DEF TextInv
<1>2. /\ WellFormed(input)
      /\ Points(msg.nick, HasNick(input), NickOf(input))
      /\ CStr(msg.cmd) = WordsOf(BodyOf(input))[1]
  BY <1>1, HandlerIsGiven
<1>3. Len(ParamsOf(BodyOf(input))) = NParams
  <2> DEFINE p == ParamsOf(BodyOf(input))
  <2>1. p = [k \in 1..NParams |-> p[k]]
    BY <1>1, ParamStrings
  <2>2. NParams \in Nat
    <3>1. msg.params \in Seq(Nat)
      BY MemIs
    <3> QED
      BY <3>1 DEF NParams
  <2> HIDE DEF p
  <2>3. Len(p) = NParams
    BY <2>1, <2>2
  <2> QED
    BY <2>3 DEF p
<1>4. msg.nick # 0 <=> HasNick(input)
  BY <1>2 DEF Points
<1>5. Meant(input) = Known
  BY <1>2 DEF Meant, Known
<1>6. \A c \in Known : c \in Handled(input) <=> Fits(c)
  BY <1>3, <1>4, <1>5 DEF Handled, Fits
<1>7. Handled(input) \subseteq Known
  BY <1>5 DEF Handled
<1> QED
  BY <1>2, <1>5, <1>6, <1>7

LEMMA HandledSplit ==
    ASSUME IInv, TextInv, Split
    PROVE  HandledAsWritten'
<1>1. CASE BadPrefix \/ EmptyCmd \/ BadParam
  <2>1. /\ phase' = IF exit_on_invalid_msg THEN "exited" ELSE "invalid"
        /\ called' = called /\ UNCHANGED <<input, exit_on_invalid_msg>>
        /\ phase \in {"prefix", "cmd", "params"}
    BY <1>1 DEF BadPrefix, EmptyCmd, BadParam, NextParam, Reject
  <2>2. called = "none"
    BY <2>1, NotCalled
  <2>3. ~Proper(input')
    BY <1>1, <2>1, RejectedIsMalformed DEF Proper
  <2>4. exit_on_invalid_msg \in BOOLEAN
    BY DEF IInv
  <2> QED
    BY <2>1, <2>2, <2>3, <2>4 DEF HandledAsWritten
<1>2. CASE ~(BadPrefix \/ EmptyCmd \/ BadParam)
  <2>1. phase' \in {"components", "cmd", "params", "handle"}
    BY <1>2 DEF Split, NoPrefix, Prefix, NoComponents, Components, Cmd, NoMoreParams,
       FinalParam, Param, NextParam
  <2> QED
    BY <2>1 DEF HandledAsWritten
<1> QED
  BY <1>1, <1>2

LEMMA HandledTable ==
    ASSUME IInv, TextInv, Ignore \/ Misfit \/ Handle
    PROVE  HandledAsWritten'
<1>1. phase = "handle" /\ input' = input
  BY DEF Ignore, Misfit, Handle, Reject
<1>2. /\ WellFormed(input) /\ Meant(input) = Known
      /\ Handled(input) = {c \in Known : Fits(c)}
  BY <1>1, FitsWhatIsMeant
<1>3. called = "none"
  BY <1>1, NotCalled
<1>4. "none" \notin Known /\ \A c, d \in Known : c = d
  BY MsgTableFacts DEF Known
<1>5. CASE Ignore
  <2>1. phase' = "done" /\ called' = called /\ Known = {}
    BY <1>5 DEF Ignore
  <2>2. Handled(input) = {} /\ Proper(input)
    BY <1>2, <2>1 DEF Proper
  <2> QED
    BY <1>1, <1>2, <1>3, <2>1, <2>2 DEF HandledAsWritten
<1>6. CASE Misfit
  <2>1. /\ phase' = IF exit_on_invalid_msg THEN "exited" ELSE "done"
        /\ exit_on_invalid_msg' = exit_on_invalid_msg
        /\ called' = called /\ \E c \in Known : ~Fits(c)
    BY <1>6 DEF Misfit, Reject
  <2>2. Handled(input) = {} /\ ~Proper(input)
    BY <1>2, <1>4, <2>1 DEF Proper
  <2>3. exit_on_invalid_msg \in BOOLEAN
    BY DEF IInv
  <2> QED
    BY <1>1, <1>2, <1>3, <2>1, <2>2, <2>3 DEF HandledAsWritten
<1>7. CASE Handle
  <2>1. /\ phase' \in {"privmsg", "done"}
        /\ called' \in Known /\ Fits(called')
    BY <1>7 DEF Handle
  <2>2. Handled(input) = {called'} /\ Handled(input) = Known
    BY <1>2, <1>4, <2>1
  <2>3. Proper(input) /\ {called'} \ {"none"} = Handled(input)
    BY <1>2, <1>4, <2>1, <2>2 DEF Proper
  <2> QED
    BY <1>1, <1>2, <2>1, <2>3 DEF HandledAsWritten
<1> QED
  BY <1>5, <1>6, <1>7

LEMMA HandledNext == IInv /\ TextInv /\ HandledAsWritten /\ [Next]_vars => HandledAsWritten'
<1> SUFFICES ASSUME IInv, TextInv, HandledAsWritten, [Next]_vars PROVE HandledAsWritten'
  OBVIOUS
<1>1. CASE UNCHANGED vars
  BY <1>1 DEF vars, HandledAsWritten
<1>2. CASE NoBotCmd \/ BotCmd
  <2>1. phase = "privmsg" /\ phase' = "done" /\ UNCHANGED <<input, exit_on_invalid_msg, called>>
    BY <1>2 DEF NoBotCmd, BotCmd
  <2> QED
    BY <2>1 DEF HandledAsWritten
<1> QED
  BY <1>1, <1>2, HandledSplit, HandledTable DEF Next

\* A message of any length gets the handler of its command if, and only if, its
\* text is well-formed and fits the entry of msgs[]; and with -e the bot exits
\* on the other messages, but for commands that have no entry.
THEOREM HandledRight == Spec => []HandledAsWritten
<1>1. Init => HandledAsWritten
  BY DEF Init, HandledAsWritten
<1> QED
  BY <1>1, MessageTextInv, HandledNext, PTL DEF Spec

-------------------------------------------------------------------------------
(* The bot command: one more space is overwritten, at place e.             *)

\* A slice that nobody wrote to.
LEMMA SliceStays ==
    ASSUME NEW m \in Seq(Token), NEW o \in Seq(Token), Len(o) = Len(m),
           NEW u \in 1..Len(m), NEW v \in u..Len(m), \A k \in u..(v - 1) : o[k] = m[k]
    PROVE  SubSeq(o, u, v - 1) = SubSeq(m, u, v - 1)
<1> DEFINE f == 0
<1>1. f \in Nat /\ f + u = u /\ f + v = v /\ Len(m) \in Nat
  OBVIOUS
<1>2. \A k \in u..(v - 1) : o[f + k] = m[k]
  OBVIOUS
<1> HIDE DEF f
<1>3. u \in 1..(Len(m) + 1) /\ v \in u..(Len(m) + 1) /\ f + v \in 1..Len(o)
  BY <1>1
<1>4. SubSeq(o, f + u, (f + v) - 1) = SubSeq(m, u, v - 1)
  BY <1>1, <1>2, <1>3, SameSlice
<1> QED
  BY <1>1, <1>4

\* A string that ends before e stays.
LEMMA StringStays ==
    ASSUME NEW m \in Seq(Token), NEW e \in 1..Len(m), NEW o, o = [m EXCEPT ![e] = "nul"],
           NEW i \in 1..Len(m), NEW z \in i..(e - 1), m[z] = "nul"
    PROVE  CStrOf(o, i) = CStrOf(m, i)
<1>1. /\ o \in Seq(Token) /\ Len(o) = Len(m) /\ Len(m) \in Nat
      /\ \A k \in 1..Len(m) : k # e => o[k] = m[k]
  <2>1. "nul" \in Token
    BY DEF Token
  <2> QED
    BY <2>1, ExceptSeq
<1> DEFINE P == {k \in i..z : m[k] = "nul"}
<1>2. i \in Nat /\ z \in Nat /\ z \in i..z /\ z \in P
  OBVIOUS
<1> HIDE DEF P
<1>3. PICK j \in i..z : j \in P /\ \A k \in i..(j - 1) : k \notin P
  BY <1>2, FirstOne
<1>4. /\ j \in i..Len(m) /\ j \in 1..Len(m) /\ j < e /\ m[j] = "nul"
      /\ \A k \in i..(j - 1) : m[k] # "nul" /\ k \in 1..Len(m) /\ k # e
  <2>1. j \in i..Len(m) /\ j \in 1..Len(m) /\ j < e
    BY <1>1, <1>2
  <2>2. \A k \in i..(j - 1) : k \in i..z /\ k \in 1..Len(m) /\ k # e
    BY <1>1, <1>2
  <2> QED
    BY <1>3, <2>1, <2>2 DEF P
<1>5. o[j] = "nul" /\ \A k \in i..(j - 1) : o[k] = m[k] /\ o[k] # "nul"
  BY <1>1, <1>4
<1>6. CStrOf(m, i) = SubSeq(m, i, j - 1)
  BY <1>1, <1>4, CStrOfIs
<1>7. CStrOf(o, i) = SubSeq(o, i, j - 1)
  <2>1. Len(o) \in Nat /\ i \in 1..Len(o) /\ j \in i..Len(o)
    BY <1>1, <1>4
  <2> QED
    BY <1>5, <2>1, CStrOfIs
<1>8. SubSeq(o, i, j - 1) = SubSeq(m, i, j - 1)
  BY <1>1, <1>4, <1>5, SliceStays
<1> QED
  BY <1>6, <1>7, <1>8

\* handle_privmsg() at the text at x, which ends at v, with a space or the end
\* at e.
ArgAt(m, e) == IF m[e] = "nul" \/ m[e + 1] = "nul" THEN 0 ELSE e + 1

CallAsWritten(o, t, cmd, arg) ==
    LET rest == Tail(t)
    IN  /\ CStrOf(o, cmd) = Before(rest, "sp")
        /\ IF After(rest, "sp") # <<>> THEN arg # 0 /\ CStrOf(o, arg) = After(rest, "sp")
           ELSE arg = 0

LEMMA CommandCut ==
    ASSUME NEW m \in Seq(Token), NEW x \in 1..Len(m), NEW v \in x..Len(m), m[v] = "nul",
           \A k \in x..(v - 1) : m[k] # "nul",
           m[x] \notin Ends,
           NEW e \in x..Len(m), m[e] \in Ends, \A k \in x..(e - 1) : m[k] \notin Ends,
           NEW o, o = [m EXCEPT ![e] = "nul"]
    PROVE  CallAsWritten(o, CStrOf(m, x), x + 1, ArgAt(m, e))
<1>1. /\ o \in Seq(Token) /\ Len(o) = Len(m) /\ Len(m) \in Nat /\ o[e] = "nul"
      /\ \A k \in 1..Len(m) : k # e => o[k] = m[k]
  <2>1. "nul" \in Token /\ e \in 1..Len(m)
    BY DEF Token
  <2> QED
    BY <2>1, ExceptSeq
<1>2. CStrOf(m, x) = SubSeq(m, x, v - 1)
  BY <1>1, CStrOfIs
<1>3. e \in (x + 1)..v /\ v \in Nat /\ x \in Nat /\ e \in Nat
  <2>1. x # e /\ m[v] \in Ends
    BY DEF Ends
  <2>2. ~(v < e)
    BY <1>1, <2>1
  <2> QED
    BY <1>1, <2>1, <2>2
<1>4. e < v => m[e] = "sp"
  BY <1>1, <1>3 DEF Ends
<1> DEFINE t == CStrOf(m, x)
           rest == Tail(t)
           a == x + 1
           w == v - 1
<1>5. rest = SubSeq(m, a, w)
  <2>1. x \in 1..Len(m) /\ w \in x..Len(m)
    BY <1>1, <1>3
  <2> HIDE DEF w
  <2>2. Tail(SubSeq(m, x, w)) = SubSeq(m, x + 1, w)
    BY <2>1, HeadTailOfSubSeq
  <2> QED
    BY <1>2, <2>2 DEF w
<1>6. /\ a \in 1..(Len(m) + 1) /\ w \in (a - 1)..Len(m) /\ e \in a..(w + 1)
      /\ w = v - 1 /\ a = x + 1 /\ w \in Nat /\ a \in Nat
  BY <1>1, <1>3
<1>7. CutAt(m, a, w, "sp", e)
  <2>1. e <= w => m[e] = "sp"
    BY <1>3, <1>4, <1>6
  <2>2. \A k \in a..(e - 1) : m[k] # "sp"
    BY <1>3 DEF Ends
  <2> HIDE DEF a, w
  <2> QED
    BY <1>6, <2>1, <2>2, SliceAt
<1> HIDE DEF rest, a, w
<1>8. /\ FirstPlace(rest, "sp") = (e - a) + 1
      /\ Before(rest, "sp") = SubSeq(m, a, e - 1)
      /\ e <= w => After(rest, "sp") = SubSeq(m, e + 1, w)
  BY <1>5, <1>7 DEF CutAt
<1>9. CStrOf(o, a) = Before(rest, "sp")
  <2>1. a \in 1..Len(o) /\ a \in 1..Len(m) /\ e \in a..Len(o) /\ e \in a..Len(m) /\ Len(o) \in Nat
    BY <1>1, <1>3, <1>6
  <2>2. \A k \in a..(e - 1) : k \in 1..Len(m) /\ k # e /\ k \in x..(v - 1)
    BY <1>1, <1>3, <1>6
  <2>3. \A k \in a..(e - 1) : o[k] = m[k] /\ o[k] # "nul"
    BY <1>1, <2>2
  <2>4. CStrOf(o, a) = SubSeq(o, a, e - 1)
    BY <1>1, <2>1, <2>3, CStrOfIs
  <2>5. SubSeq(o, a, e - 1) = SubSeq(m, a, e - 1)
    BY <1>1, <2>1, <2>3, SliceStays
  <2> QED
    BY <1>8, <2>4, <2>5
<1>10. CASE e = v
  <2>1. rest \in Seq(Token) /\ Len(rest) = (w - a) + 1
    BY <1>5, <1>6, SliceFacts
  <2>2. After(rest, "sp") = SubSeq(rest, ((e - a) + 1) + 1, (w - a) + 1)
    BY <1>8, <2>1 DEF After
  <2> DEFINE i == ((e - a) + 1) + 1
             j == (w - a) + 1
  <2>3. i \in Int /\ j \in Int /\ j < i
    BY <1>3, <1>6, <1>10
  <2> HIDE DEF i, j
  <2>4. SubSeq(rest, i, j) = <<>>
    BY <2>3, SubSeqEmpty
  <2>5. After(rest, "sp") = <<>>
    BY <2>2, <2>4 DEF i, j
  <2>6. ArgAt(m, e) = 0
    BY <1>10 DEF ArgAt
  <2> QED
    BY <1>9, <2>5, <2>6 DEF CallAsWritten, rest, a
<1>11. CASE e # v
  <2>1. /\ e < v /\ e + 1 \in 1..Len(m) /\ v \in (e + 1)..Len(m) /\ e <= w
        /\ m[e] # "nul"
    BY <1>1, <1>3, <1>6, <1>11
  <2>2. After(rest, "sp") = SubSeq(m, e + 1, v - 1)
    BY <1>6, <1>8, <2>1
  <2> DEFINE i == e + 1
  <2>3. CASE i = v
    <3>1. v - 1 < i /\ i \in Int /\ v - 1 \in Int
      BY <1>3, <2>3
    <3> DEFINE j == v - 1
    <3> HIDE DEF i, j
    <3>2. SubSeq(m, i, j) = <<>>
      BY <3>1, SubSeqEmpty DEF j
    <3>3. After(rest, "sp") = <<>>
      BY <2>2, <3>2 DEF i, j
    <3>4. ArgAt(m, e) = 0
      BY <2>3 DEF ArgAt, i
    <3> QED
      BY <1>9, <3>3, <3>4 DEF CallAsWritten, rest, a
  <2>4. CASE i # v
    <3>1. i \in x..(v - 1) /\ i \in 1..Len(m) /\ v - 1 \in i..Len(m)
      BY <1>1, <1>3, <2>1, <2>4
    <3>2. m[i] # "nul"
      BY <3>1
    <3>3. ArgAt(m, e) = i /\ i # 0
      BY <1>3, <2>1, <3>2 DEF ArgAt
    <3>4. After(rest, "sp") # <<>>
      <4> DEFINE j == v - 1
      <4>1. i \in 1..Len(m) /\ j \in i..Len(m)
        BY <3>1
      <4> HIDE DEF i, j
      <4>2. SubSeq(m, i, j) # <<>>
        BY <4>1, NotEmpty
      <4> QED
        BY <2>2, <4>2 DEF i, j
    <3>5. \A k \in i..(v - 1) : k \in 1..Len(m) /\ k # e /\ k \in x..(v - 1)
      BY <1>1, <1>3, <2>1
    <3>6. \A k \in i..(v - 1) : o[k] = m[k] /\ o[k] # "nul"
      BY <1>1, <3>5
    <3>7. v \in 1..Len(m) /\ v # e /\ v \in i..Len(m) /\ v \in i..Len(o) /\ i \in 1..Len(o)
      BY <1>1, <1>3, <2>1, <3>1
    <3>8. o[v] = "nul"
      BY <1>1, <3>7
    <3> HIDE DEF i
    <3>9. CStrOf(o, i) = SubSeq(o, i, v - 1)
      BY <1>1, <3>6, <3>7, <3>8, CStrOfIs
    <3>10. SubSeq(o, i, v - 1) = SubSeq(m, i, v - 1)
      BY <1>1, <3>1, <3>6, <3>7, SliceStays
    <3>11. CStrOf(o, i) = After(rest, "sp")
      BY <2>2, <3>9, <3>10 DEF i
    <3> QED
      BY <1>9, <3>3, <3>4, <3>11 DEF CallAsWritten, rest, a
  <2> QED
    BY <2>3, <2>4
<1> QED
  BY <1>10, <1>11

-------------------------------------------------------------------------------
(* What handle_cmd() is given                                              *)

\* What is between spaces has none.
NoSpace(t) == t \in Seq(Token) /\ \A k \in 1..Len(t) : t[k] # "sp"

LEMMA SliceNoSpace ==
    ASSUME NEW s \in Seq(Token), NEW a \in 1..(Len(s) + 1), NEW b \in (a - 1)..Len(s),
           \A k \in a..b : s[k] # "sp"
    PROVE  NoSpace(SubSeq(s, a, b))
<1> DEFINE t == SubSeq(s, a, b)
<1>1. /\ t \in Seq(Token) /\ Len(t) = (b - a) + 1
      /\ \A k \in 1..((b - a) + 1) : t[k] = s[(a + k) - 1]
  BY SliceFacts
<1>2. \A k \in 1..((b - a) + 1) : (a + k) - 1 \in a..b
  OBVIOUS
<1> HIDE DEF t
<1>3. \A k \in 1..Len(t) : t[k] # "sp"
  BY <1>1, <1>2
<1> QED
  BY <1>1, <1>3 DEF NoSpace, t

LEMMA NickNoSpace ==
    ASSUME NEW s \in Seq(Token), s # <<>>, HasPrefix(s)
    PROVE  NoSpace(NickOf(s))
<1> DEFINE p == PrefixOf(s)
           f == Base(s)
           a == 2
           b == f - 1
<1>1. /\ Len(s) \in Nat /\ f \in 2..(Len(s) + 1) /\ p = SubSeq(s, a, b)
      /\ \A k \in 1..(f - 1) : s[k] # "sp"
  BY BaseFacts
<1> HIDE DEF p, f
<1>2. a \in 1..(Len(s) + 1) /\ b \in (a - 1)..Len(s) /\ \A k \in a..b : s[k] # "sp"
  BY <1>1
<1> HIDE DEF a, b
<1>3. NoSpace(p)
  BY <1>1, <1>2, SliceNoSpace
<1>4. p \in Seq(Token) /\ Len(p) \in Nat /\ \A k \in 1..Len(p) : p[k] # "sp"
  BY <1>3 DEF NoSpace
<1> DEFINE x == 1
           y == FirstPlace(p, "!") - 1
<1>5. x \in 1..(Len(p) + 1) /\ y \in (x - 1)..Len(p) /\ \A k \in x..y : p[k] # "sp"
  <2> DEFINE z == FirstPlace(p, "!")
  <2>1. z \in 1..(Len(p) + 1)
    BY <1>4, PlaceFacts
  <2> HIDE DEF z
  <2>2. z - 1 \in 0..Len(p) /\ \A k \in 1..(z - 1) : k \in 1..Len(p)
    BY <1>4, <2>1
  <2> QED
    BY <1>4, <2>1, <2>2 DEF z
<1>6. NickOf(s) = SubSeq(p, x, y)
  BY DEF NickOf, Before, p
<1> HIDE DEF x, y
<1> QED
  BY <1>4, <1>5, <1>6, SliceNoSpace

\* The target of a PRIVMSG, and where it ends.
LEMMA ToAndText ==
    ASSUME IInv, NEW n \in Nat, AtHandle(buf, msg, n, input), NParams = 2
    PROVE  /\ to \in 1..Len(buf) /\ text \in 1..Len(buf) /\ Base(input) \in Nat
           /\ Base(input) < text
           /\ \E z \in to..(text - 1) : buf[z] = "nul"
           /\ NoSpace(ParamsOf(BodyOf(input))[1])
           /\ ParamsOf(BodyOf(input))[1] # <<>>
<1> DEFINE b == BodyOf(input)
           f == Base(input)
           c == Colon(b)
           q == Stops(msg, n, f)
           two == 2
           u == WordFrom(q, two)
           v == Append(q, c)[two]
<1>1. /\ Mem(buf, input) /\ msg.params \in Seq(1..Len(buf)) /\ Len(msg.params) = 2
      /\ Len(buf) \in Nat
  BY MemIs DEF IInv, Pointers, NParams
<1>2. to \in 1..Len(buf) /\ text \in 1..Len(buf) /\ to = msg.params[1] /\ text = msg.params[2]
  BY <1>1 DEF to, text
<1>3. /\ f \in Nat /\ b \in Seq(Token) /\ Len(b) \in Nat
      /\ SplitTo(b, q, c) /\ Len(q) = n /\ c \in 2..(Len(b) + 1)
  BY <1>1, BodyIsCut DEF BodyCut
<1>4. /\ IF c <= Len(b) THEN n + 1 = 2 ELSE n = 2
      /\ c <= Len(b) => msg.params[n + 1] = f + c + 2
  BY <1>1 DEF AtHandle
<1>5. q[1] = to - 1 - f /\ (n = 2 => q[2] = text - 1 - f)
  <2>1. 1 \in 1..n /\ (n = 2 => 2 \in 1..n)
    BY <1>4
  <2> QED
    BY <1>2, <2>1 DEF Stops
<1>6. q \in Seq(Nat)
  BY <1>3, SplitFacts
<1>7. /\ Len(WordsOf(b)) = n + 1 /\ \A k \in 1..(n + 1) : WordsOf(b)[k] # <<>>
      /\ WordsOf(b) = [k \in 1..Len(WordsOf(b)) |-> WordsOf(b)[k]]
  BY <1>3, WordsAre
<1>8. \A k \in 1..n : ParamsOf(b)[k] = WordsOf(b)[k + 1]
  BY <1>3, <1>7, ParamsFrom
<1>9. n \in {1, 2} /\ two \in 1..(n + 1) /\ 1 \in 1..n
  BY <1>4
<1>10. WordCut(buf, msg, n, input, two)
  BY <1>1, <1>9, WordInMemory
<1>11. /\ u \in 1..Len(b) /\ v \in (u + 1)..(Len(b) + 1)
       /\ buf[f + v] = "nul"
       /\ \A i \in u..(v - 1) : b[i] # "sp"
       /\ WordsOf(b)[two] = SubSeq(b, u, v - 1)
  BY <1>10 DEF WordCut
<1>12. u = q[1] + 1
  BY DEF WordFrom
<1>13. IF n = 2 THEN v = q[2] ELSE v = c
  BY <1>3, <1>6, <1>9, AppendProperties
<1> DEFINE x == to
           y == text
           q1 == q[1]
           q2 == q[2]
<1>14. /\ x \in Nat /\ y \in Nat /\ f \in Nat /\ u \in Nat /\ v \in Nat /\ c \in Nat
       /\ u < v /\ Len(b) \in Nat
  <2> HIDE DEF b, f, c, q, u, v
  <2>1. x \in Nat /\ y \in Nat
    BY <1>1, <1>2
  <2>2. f \in Nat /\ c \in Nat /\ Len(b) \in Nat
    BY <1>3
  <2>3. u \in Nat /\ v \in Nat /\ u < v
    BY <1>11, <2>2
  <2> QED
    BY <2>1, <2>2, <2>3
<1>15. /\ u = q1 + 1 /\ q1 = x - 1 - f /\ (n = 2 => v = q2 /\ q2 = y - 1 - f)
       /\ (n # 2 => v = c)
  BY <1>5, <1>12, <1>13
<1>16. n # 2 => c <= Len(b) /\ y = f + c + 2
  <2>1. n # 2 => c <= Len(b) /\ n + 1 = 2
    BY <1>4
  <2> QED
    BY <1>2, <1>4, <2>1
<1> HIDE DEF b, f, c, q, u, v
<1>17. f + v \in x..(y - 1) /\ f < y
  <2> HIDE DEF x, y, q1, q2
  <2>1. f + u = x
    <3>1. q1 = u - 1
      BY <1>14, <1>15
    <3> QED
      BY <1>14, <1>15, <3>1
  <2>2. f + v < y
    <3>1. CASE n = 2
      <4>1. v = y - 1 - f
        BY <1>15, <3>1
      <4> QED
        BY <1>14, <4>1
    <3>2. CASE n # 2
      <4>1. v = c /\ y = f + c + 2
        BY <1>15, <1>16, <3>2
      <4> QED
        BY <1>14, <4>1
    <3> QED
      BY <3>1, <3>2
  <2> QED
    BY <1>14, <2>1, <2>2
<1>18. NoSpace(WordsOf(b)[two])
  <2> DEFINE w == v - 1
  <2>1. u \in 1..(Len(b) + 1) /\ w \in (u - 1)..Len(b) /\ \A k \in u..w : b[k] # "sp"
    BY <1>3, <1>11
  <2>2. WordsOf(b)[two] = SubSeq(b, u, w)
    BY <1>11
  <2> HIDE DEF w
  <2> QED
    BY <1>3, <2>1, <2>2, SliceNoSpace
<1>19. ParamsOf(b)[1] = WordsOf(b)[two] /\ WordsOf(b)[two] # <<>>
  <2>1. ParamsOf(b)[1] = WordsOf(b)[1 + 1] /\ 1 + 1 = two
    BY <1>8, <1>9
  <2> QED
    BY <1>7, <1>9, <2>1
<1> QED
  BY <1>2, <1>3, <1>11, <1>18, <1>19, <1>17 DEF b, f, x, y

\* handle_cmd() is given the pieces of the message, in memory that nobody
\* writes to any more.
CallInv ==
    cmdCall # NoCall =>
        LET params == ParamsOf(BodyOf(input))
            asker == IF IsChannel(to) THEN params[1] ELSE NickOf(input)
        IN  /\ phase = "done"
            /\ cmdCall.rep = IF IsChannel(to) THEN to ELSE msg.prefix
            /\ CStr(cmdCall.rep) = asker
            /\ NoSpace(asker)
            /\ IsChannel(to) => asker # <<>>
            /\ CmdChar # "sp" =>
                 CallAsWritten(buf, params[2], cmdCall.cmd, cmdCall.arg)

LEMMA CallStep ==
    ASSUME IInv, TextInv, BotCmd
    PROVE  CallInv'
<1> DEFINE e == Find(text, Ends)
           f == Base(input)
           params == ParamsOf(BodyOf(input))
<1>1. /\ Mem(buf, input) /\ input \in Seq(Token) /\ input # <<>> /\ Terminated
      /\ Len(buf) \in Nat \ {0} /\ buf[Len(buf)] = "nul" /\ buf \in Seq(Token)
  BY MemIs DEF Mem
<1>2. /\ phase = "privmsg" /\ buf[text] = CmdChar
      /\ buf' = [buf EXCEPT ![e] = "nul"]
      /\ cmdCall' = [rep |-> IF IsChannel(to) THEN to ELSE msg.prefix,
                     cmd |-> text + 1, arg |-> ArgAt(buf, e)]
      /\ phase' = "done"
      /\ UNCHANGED <<input, exit_on_invalid_msg, cur, msg, called>>
  BY DEF BotCmd, ArgAt
<1>3. called = "PRIVMSG" /\ NParams = 2 /\ msg.nick # 0
  BY <1>2, MsgTableFacts DEF IInv, CalledInv, Fits
<1>4. PICK n \in Nat : AtHandle(buf, msg, n, input)
  BY <1>2 DEF TextInv
<1>5. /\ to \in 1..Len(buf) /\ text \in 1..Len(buf) /\ f \in Nat /\ f < text
      /\ \E z \in to..(text - 1) : buf[z] = "nul"
      /\ NoSpace(params[1]) /\ params[1] # <<>>
  BY <1>3, <1>4, ToAndText
<1>6. CStr(to) = params[1] /\ CStr(text) = params[2]
  <2>1. 1 \in 1..NParams /\ 2 \in 1..NParams
    BY <1>3
  <2> QED
    BY <1>4, <2>1, ParamStrings DEF to, text
<1>7. /\ HasNick(input) /\ HasPrefix(input) /\ msg.prefix = 2
      /\ Named(buf, input, 2, NickOf(input), f)
  BY <1>3, <1>4 DEF AtHandle, NamesAre, HasNick
<1>8. CStr(2) = NickOf(input) /\ 2 \in 1..f
  <2>1. f \in 0..Len(input)
    BY <1>1, <1>4, MemFacts DEF AtHandle
  <2> QED
    BY <1>7, <2>1, NamedString
<1>9. \E z \in 2..f : buf[z] = "nul"
  BY <1>7 DEF Named
<1>10. /\ e \in text..Len(buf) /\ buf[e] \in Ends
       /\ \A k \in text..(e - 1) : buf[k] \notin Ends
  BY <1>1, <1>5, Finds DEF Ends
<1> HIDE DEF e, f, params
<1>11. e \in 1..Len(buf)
  BY <1>1, <1>5, <1>10
<1>12. ASSUME NEW i \in 1..Len(buf), NEW z \in i..(e - 1), buf[z] = "nul"
       PROVE  CStrOf(buf', i) = CStrOf(buf, i)
  <2>1. buf \in Seq(Token) /\ buf' = [buf EXCEPT ![e] = "nul"]
    BY <1>1, <1>2
  <2> DEFINE o == buf'
             m == buf
  <2>2. m \in Seq(Token) /\ e \in 1..Len(m) /\ o = [m EXCEPT ![e] = "nul"]
    BY <1>11, <2>1
  <2>3. i \in 1..Len(m) /\ m[z] = "nul"
    BY <1>12
  <2> HIDE DEF o, m
  <2>4. CStrOf(o, i) = CStrOf(m, i)
    BY <1>12, <2>2, <2>3, StringStays
  <2> QED
    BY <2>4 DEF o, m
<1>13. CStrOf(buf', to) = params[1]
  <2>1. PICK z \in to..(text - 1) : buf[z] = "nul"
    BY <1>5
  <2> DEFINE i == to
  <2>2. i \in 1..Len(buf) /\ z \in i..(e - 1) /\ buf[z] = "nul"
    BY <1>1, <1>5, <1>10, <2>1
  <2>3. CStr(i) = params[1]
    BY <1>6
  <2> HIDE DEF i
  <2>4. CStrOf(buf', i) = CStrOf(buf, i)
    BY <1>12, <2>2
  <2>5. CStrOf(buf', i) = params[1]
    BY <2>3, <2>4 DEF CStr, Find, CStrOf
  <2> QED
    BY <2>5 DEF i
<1>14. CStrOf(buf', 2) = NickOf(input)
  <2>1. PICK z \in 2..f : buf[z] = "nul"
    BY <1>9
  <2> DEFINE i == 2
  <2>2. i \in 1..Len(buf) /\ z \in i..(e - 1) /\ buf[z] = "nul"
    BY <1>1, <1>5, <1>8, <1>10, <2>1
  <2> HIDE DEF i
  <2>3. CStrOf(buf', i) = CStrOf(buf, i)
    BY <1>12, <2>2
  <2>4. CStr(i) = NickOf(input)
    BY <1>8 DEF i
  <2> QED
    BY <2>3, <2>4 DEF CStr, Find, CStrOf, i
<1>15. IsChannel(to)' <=> IsChannel(to)
  <2>1. to # e
    BY <1>1, <1>5, <1>10
  <2>2. buf'[to] = buf[to]
    BY <1>1, <1>2, <1>5, <1>11, <2>1, ExceptSeq DEF Token
  <2>3. to' = to
    BY <1>2 DEF to
  <2> QED
    BY <2>2, <2>3 DEF IsChannel
<1>16. CmdChar # "sp" => CallAsWritten(buf', params[2], text + 1, ArgAt(buf, e))
  <2> SUFFICES ASSUME CmdChar # "sp"
               PROVE  CallAsWritten(buf', params[2], text + 1, ArgAt(buf, e))
    OBVIOUS
  <2>1. buf[text] \notin Ends
    BY <1>2, IrcMsgAssumption DEF Ends
  <2> DEFINE v == Find(text, {"nul"})
  <2>2. v \in text..Len(buf) /\ buf[v] = "nul" /\ \A k \in text..(v - 1) : buf[k] # "nul"
    BY <1>1, <1>5, Finds
  <2> HIDE DEF v
  <2> DEFINE x == text
  <2>3. x \in 1..Len(buf)
    BY <1>5
  <2>4. CallAsWritten(buf', CStrOf(buf, x), x + 1, ArgAt(buf, e))
    <3> HIDE DEF x
    <3>1. /\ v \in x..Len(buf) /\ \A k \in x..(v - 1) : buf[k] # "nul"
          /\ buf[x] \notin Ends /\ e \in x..Len(buf)
          /\ \A k \in x..(e - 1) : buf[k] \notin Ends
      BY <1>10, <2>1, <2>2 DEF x
    <3> QED
      BY <1>1, <1>2, <1>10, <2>2, <2>3, <3>1, CommandCut
  <2>5. CStrOf(buf, x) = params[2]
    BY <1>6 DEF CStr, Find, CStrOf
  <2> QED
    BY <2>4, <2>5
<1> DEFINE asker == IF IsChannel(to) THEN params[1] ELSE NickOf(input)
<1>17. NoSpace(asker) /\ (IsChannel(to) => asker # <<>>)
  BY <1>1, <1>5, <1>7, NickNoSpace
<1>18. CStr(cmdCall.rep)' = asker
  <2>1. CStr(cmdCall.rep)' = CStrOf(buf', cmdCall'.rep)
    BY DEF CStr, Find, CStrOf
  <2>2. cmdCall'.rep = IF IsChannel(to) THEN to ELSE 2
    BY <1>2, <1>7
  <2> QED
    BY <1>13, <1>14, <2>1, <2>2
<1>19. to' = to /\ msg' = msg /\ input' = input
  BY <1>2 DEF to
<1>20. /\ cmdCall'.rep = IF IsChannel(to) THEN to ELSE msg.prefix
       /\ cmdCall'.cmd = text + 1 /\ cmdCall'.arg = ArgAt(buf, e)
  BY <1>2
<1> HIDE DEF asker
<1>21. asker = IF IsChannel(to) THEN params[1] ELSE NickOf(input)
  BY DEF asker
<1> QED
  BY <1>2, <1>15, <1>16, <1>17, <1>18, <1>19, <1>20, <1>21 DEF CallInv, params

LEMMA CallInvNext == IInv /\ TextInv /\ CallInv /\ [Next]_vars => CallInv'
<1> SUFFICES ASSUME IInv, TextInv, CallInv, [Next]_vars PROVE CallInv'
  OBVIOUS
<1>1. CASE UNCHANGED vars
  BY <1>1 DEF vars, CallInv, CStr, Find, IsChannel, to
<1>2. CASE BotCmd
  BY <1>2, CallStep
<1>3. CASE Next /\ ~BotCmd
  <2>1. phase # "done" /\ cmdCall' = cmdCall
    BY <1>3 DEF Next, Split, NoPrefix, BadPrefix, Prefix, NoComponents, Components,
       EmptyCmd, Cmd, NoMoreParams, BadParam, FinalParam, Param, NextParam, Ignore,
       Misfit, Handle, NoBotCmd, Reject
  <2>2. cmdCall = NoCall
    BY <2>1 DEF CallInv
  <2> QED
    BY <2>1, <2>2 DEF CallInv, NoCall
<1> QED
  BY <1>1, <1>2, <1>3

LEMMA MessageCallInv == Spec => [](IInv /\ TextInv /\ CallInv)
<1>1. Init => IInv /\ TextInv /\ CallInv
  <2>1. Init => CallInv
    BY DEF Init, CallInv
  <2> QED
    BY <2>1, InvInit, TextInit
<1>2. (IInv /\ TextInv /\ CallInv) /\ [Next]_vars => (IInv /\ TextInv /\ CallInv)'
  BY InvNext, TextNext, CallInvNext
<1> QED
  BY <1>1, <1>2, PTL DEF Spec

\* A bot command of any length, in a message of any form, is passed on as it
\* was written, and to be answered where it was given, unless the character
\* that starts commands is a space (-m ' '): then its text would begin twice.
THEOREM BotCmdsArePassedOn ==
    ASSUME CmdChar # "sp"
    PROVE  Spec => []BotCmdIsAsWritten
<1>1. CallInv => BotCmdIsAsWritten
  <2> SUFFICES ASSUME CallInv, cmdCall # NoCall PROVE BotCmdIsAsWritten
    BY DEF BotCmdIsAsWritten
  <2> DEFINE params == ParamsOf(BodyOf(input))
             rest == Tail(params[2])
  <2>1. /\ CStr(cmdCall.rep) = IF IsChannel(to) THEN params[1] ELSE NickOf(input)
        /\ CallAsWritten(buf, params[2], cmdCall.cmd, cmdCall.arg)
    BY DEF CallInv
  <2>2. /\ CStr(cmdCall.cmd) = CStrOf(buf, cmdCall.cmd)
        /\ CStr(cmdCall.arg) = CStrOf(buf, cmdCall.arg)
    BY DEF CStr, Find, CStrOf
  <2> QED
    BY <2>1, <2>2 DEF BotCmdIsAsWritten, CallAsWritten, Points
<1> QED
  BY <1>1, MessageCallInv, PTL
=================================================================================
