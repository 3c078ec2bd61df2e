-------------------------------- MODULE IrcMsg --------------------------------
(***************************************************************************)
(* How irc.c splits a message and msgs.c hands it to a handler.  The       *)
(* message is parsed in place: separators are overwritten with '\0', and   *)
(* an IRC_msg only holds pointers into it.  A message is a sequence of     *)
(* tokens: the separators, and whole words where their spelling does not   *)
(* matter; pointers are places in the sequence, 0 for NULL.                *)
(***************************************************************************)
EXTENDS Naturals, SequencesExt, Ordered

CONSTANTS
    Input,          \* the messages get_msg() may return
    MaxParams,      \* MAX_PARAMS
    CmdChar         \* cmd_char

ASSUME IrcMsgAssumption ==
    /\ \A s \in Input : s \in Seq(STRING) /\ s # <<>> /\ ~Contains(s, "nul")
    /\ MaxParams \in Nat
    /\ CmdChar # "nul"

VARIABLES
    input,          \* the message as it was returned
    exit_on_invalid_msg,    \* the -e flag, which process_cmdline() has set
    buf,            \* the memory it is in, up to its '\0'
    cur,            \* where the parser is
    msg,            \* the IRC_msg
    phase,          \* where the program is
    called,         \* the handler that was called, "none" before and if none
    cmdCall         \* what handle_cmd() was called with

vars == <<input, exit_on_invalid_msg, buf, cur, msg, phase, called, cmdCall>>

\* "prefix" to "params" are the four steps of split_msg(); "handle" is
\* handle_msg(), "privmsg" the end of handle_privmsg().
Phases == {"prefix", "components", "cmd", "params", "handle", "privmsg",
           "done", "invalid", "exited"}

Place == 0..Len(buf)
NoCall == [rep |-> 0, cmd |-> 0, arg |-> 0]

Init ==
    /\ input \in Input
    /\ exit_on_invalid_msg \in BOOLEAN
    /\ buf = Append(input, "nul")
    /\ cur = 1
    /\ msg = [prefix |-> 0, nick |-> 0, user |-> 0, host |-> 0, cmd |-> 0,
              params |-> <<>>]
    /\ phase = "prefix"
    /\ called = "none"
    /\ cmdCall = NoCall

\* The first place from i on that holds one of chars, "nul" among them.
Find(i, chars) ==
    CHOOSE j \in i..Len(buf) :
        buf[j] \in chars /\ \A k \in i..(j - 1) : buf[k] \notin chars

\* The string a pointer leads to.
CStr(i) == SubSeq(buf, i, Find(i, {"nul"}) - 1)

Ends == {"sp", "nul"}

\* Deliberately wrong variants of an operation, here and below, each followed
\* by the operation: with one in its place a property must fail.

\* Wrong: the message is ignored, with -e as without.
RejectIgnores(otherwise) ==
    /\ phase' = otherwise
    /\ UNCHANGED <<input, exit_on_invalid_msg, buf, cur, msg, called, cmdCall>>

\* RET_INVALID_MSG, and what handle_msg() does with -e.  Nobody reads a rejected
\* message again: that a separator of it may have been overwritten is left out.
Reject(otherwise) ==
    /\ phase' = IF exit_on_invalid_msg THEN "exited" ELSE otherwise
    /\ UNCHANGED <<input, exit_on_invalid_msg, buf, cur, msg, called, cmdCall>>

-------------------------------------------------------------------------------
(* split_msg() *)

NoPrefix ==
    /\ phase = "prefix"
    /\ buf[cur] # ":"
    /\ phase' = "components"
    /\ UNCHANGED <<input, exit_on_invalid_msg, buf, cur, msg, called, cmdCall>>

\* An empty prefix, or nothing after it.
BadPrefix ==
    /\ phase = "prefix"
    /\ buf[cur] = ":"
    /\ LET e == Find(cur + 1, Ends) IN e = cur + 1 \/ buf[e] = "nul"
    /\ Reject("invalid")

\* Wrong: the end of the message is taken for the space after the prefix.
PrefixUnchecked ==
    /\ phase = "prefix"
    /\ buf[cur] = ":"
    /\ LET e == Find(cur + 1, Ends)
       IN  /\ e # cur + 1
           /\ buf' = [buf EXCEPT ![e] = "nul"]
           /\ cur' = e + 1
    /\ msg' = [msg EXCEPT !.prefix = cur + 1]
    /\ phase' = "components"
    /\ UNCHANGED <<input, exit_on_invalid_msg, called, cmdCall>>

Prefix ==
    /\ phase = "prefix"
    /\ buf[cur] = ":"
    /\ LET e == Find(cur + 1, Ends)
       IN  /\ e # cur + 1
           /\ buf[e] = "sp"
           /\ buf' = [buf EXCEPT ![e] = "nul"]
           /\ cur' = e + 1
    /\ msg' = [msg EXCEPT !.prefix = cur + 1]
    /\ phase' = "components"
    /\ UNCHANGED <<input, exit_on_invalid_msg, called, cmdCall>>

\* Whether strchr() finds c in the string that starts at from.
Has(from, c) == buf[Find(from, {c, "nul"})] = c

\* "Assume nicknames are always followed by '!'."
NickFollows == msg.prefix # 0 /\ Has(msg.prefix, "!")

NoComponents ==
    /\ phase = "components"
    /\ ~NickFollows
    /\ phase' = "cmd"
    /\ UNCHANGED <<input, exit_on_invalid_msg, buf, cur, msg, called, cmdCall>>

Components ==
    /\ phase = "components"
    /\ NickFollows
    /\ LET bang == Find(msg.prefix, {"!", "nul"})
           at == Find(bang + 1, {"@", "nul"})
           host == Has(bang + 1, "@")
       IN  /\ msg' = [msg EXCEPT !.nick = msg.prefix,
                                 !.user = bang + 1,
                                 !.host = IF host THEN at + 1 ELSE 0]
           /\ buf' = [buf EXCEPT ![bang] = "nul", ![at] = "nul"]
    /\ phase' = "cmd"
    /\ UNCHANGED <<input, exit_on_invalid_msg, cur, called, cmdCall>>

EmptyCmd ==
    /\ phase = "cmd"
    /\ buf[cur] \in Ends
    /\ Reject("invalid")

Cmd ==
    /\ phase = "cmd"
    /\ buf[cur] \notin Ends
    /\ msg' = [msg EXCEPT !.cmd = cur]
    /\ cur' = Find(cur, Ends)
    /\ phase' = "params"
    /\ UNCHANGED <<input, exit_on_invalid_msg, buf, called, cmdCall>>

\* Another round of the loop over the parameters.
NextParam == phase = "params" /\ buf[cur] # "nul"
FitsParam == Len(msg.params) + 1 <= MaxParams

NoMoreParams ==
    /\ phase = "params"
    /\ buf[cur] = "nul"
    /\ phase' = "handle"
    /\ UNCHANGED <<input, exit_on_invalid_msg, buf, cur, msg, called, cmdCall>>

BadParam ==
    /\ NextParam
    /\ ~FitsParam \/ buf[cur + 1] \in Ends
    /\ Reject("invalid")

\* The final parameter can be empty or contain spaces.
FinalParam ==
    /\ NextParam
    /\ FitsParam
    /\ buf[cur + 1] = ":"
    /\ buf' = [buf EXCEPT ![cur] = "nul"]
    /\ msg' = [msg EXCEPT !.params = Append(@, cur + 2)]
    /\ phase' = "handle"
    /\ UNCHANGED <<input, exit_on_invalid_msg, cur, called, cmdCall>>

\* Wrong: the cursor is put past the space that ends the parameter.
ParamSkipsSpace ==
    /\ NextParam
    /\ FitsParam
    /\ buf[cur + 1] \notin Ends \cup {":"}
    /\ buf' = [buf EXCEPT ![cur] = "nul"]
    /\ msg' = [msg EXCEPT !.params = Append(@, cur + 1)]
    /\ cur' = LET e == Find(cur + 1, Ends) IN IF buf[e] = "sp" THEN e + 1 ELSE e
    /\ UNCHANGED <<input, exit_on_invalid_msg, phase, called, cmdCall>>

\* Wrong: the separator is left as it is.
ParamUnterminated ==
    /\ NextParam
    /\ FitsParam
    /\ buf[cur + 1] \notin Ends \cup {":"}
    /\ msg' = [msg EXCEPT !.params = Append(@, cur + 1)]
    /\ cur' = Find(cur + 1, Ends)
    /\ UNCHANGED <<input, exit_on_invalid_msg, buf, phase, called, cmdCall>>

Param ==
    /\ NextParam
    /\ FitsParam
    /\ buf[cur + 1] \notin Ends \cup {":"}
    /\ buf' = [buf EXCEPT ![cur] = "nul"]
    /\ msg' = [msg EXCEPT !.params = Append(@, cur + 1)]
    /\ cur' = Find(cur + 1, Ends)
    /\ UNCHANGED <<input, exit_on_invalid_msg, phase, called, cmdCall>>

Split ==
    \/ NoPrefix \/ BadPrefix \/ Prefix
    \/ NoComponents \/ Components
    \/ EmptyCmd \/ Cmd
    \/ NoMoreParams \/ BadParam \/ FinalParam \/ Param

-------------------------------------------------------------------------------
(* handle_msg() *)

\* Wrong: a PRIVMSG without text is let through.
MsgTableShort ==
    [c \in {"001", "ERROR", "JOIN", "KICK", "NICK", "PART", "PING", "PRIVMSG",
            "QUIT"} |->
        CASE c = "001"     -> [params |-> Nat,  needsNick |-> FALSE]
          [] c = "ERROR"   -> [params |-> {1},  needsNick |-> FALSE]
          [] c = "PING"    -> [params |-> {1},  needsNick |-> FALSE]
          [] c = "JOIN"    -> [params |-> {1},  needsNick |-> TRUE]
          [] c = "NICK"    -> [params |-> {1},  needsNick |-> TRUE]
          [] c = "KICK"    -> [params |-> 2..3, needsNick |-> TRUE]
          [] c = "PART"    -> [params |-> 1..2, needsNick |-> TRUE]
          [] c = "PRIVMSG" -> [params |-> 1..2, needsNick |-> TRUE]
          [] c = "QUIT"    -> [params |-> 0..1, needsNick |-> TRUE]]

\* msgs[]: how many parameters a message may have, and whether the sender's
\* nickname must be in the prefix.
MsgTable ==
    [c \in {"001", "ERROR", "JOIN", "KICK", "NICK", "PART", "PING", "PRIVMSG",
            "QUIT"} |->
        CASE c = "001"     -> [params |-> Nat,  needsNick |-> FALSE]
          [] c = "ERROR"   -> [params |-> {1},  needsNick |-> FALSE]
          [] c = "PING"    -> [params |-> {1},  needsNick |-> FALSE]
          [] c = "JOIN"    -> [params |-> {1},  needsNick |-> TRUE]
          [] c = "NICK"    -> [params |-> {1},  needsNick |-> TRUE]
          [] c = "KICK"    -> [params |-> 2..3, needsNick |-> TRUE]
          [] c = "PART"    -> [params |-> 1..2, needsNick |-> TRUE]
          [] c = "PRIVMSG" -> [params |-> {2},  needsNick |-> TRUE]
          [] c = "QUIT"    -> [params |-> 0..1, needsNick |-> TRUE]]

\* The name of the command.  Numbers from 400 to 599, "4xx" here, are error
\* replies; they and unknown commands have no handler.
Known == {c \in DOMAIN MsgTable : CStr(msg.cmd) = <<c>>}
NParams == Len(msg.params)

\* Wrong: nobody asks for the nickname.
FitsAnyone(c) == NParams \in MsgTable[c].params

Fits(c) ==
    /\ NParams \in MsgTable[c].params
    /\ MsgTable[c].needsNick => msg.nick # 0

Ignore ==
    /\ phase = "handle"
    /\ Known = {}
    /\ phase' = "done"
    /\ UNCHANGED <<input, exit_on_invalid_msg, buf, cur, msg, called, cmdCall>>

Misfit ==
    /\ phase = "handle"
    /\ \E c \in Known : ~Fits(c)
    /\ Reject("done")

\* The handlers but for handle_privmsg() only log and reply.
Handle ==
    /\ phase = "handle"
    /\ \E c \in Known :
         /\ Fits(c)
         /\ called' = c
         /\ phase' = IF c = "PRIVMSG" THEN "privmsg" ELSE "done"
    /\ UNCHANGED <<input, exit_on_invalid_msg, buf, cur, msg, cmdCall>>

-------------------------------------------------------------------------------
(* The bot commands of handle_privmsg() *)

to == msg.params[1]
text == msg.params[2]

\* is_channel()
IsChannel(i) == buf[i] \in {"&", "#", "+", "!"}

NoBotCmd ==
    /\ phase = "privmsg"
    /\ buf[text] # CmdChar
    /\ phase' = "done"
    /\ UNCHANGED <<input, exit_on_invalid_msg, buf, cur, msg, called, cmdCall>>

\* Wrong: an empty argument is passed on.
BotCmdEmptyArg ==
    /\ phase = "privmsg"
    /\ buf[text] = CmdChar
    /\ LET e == Find(text, Ends)
       IN  /\ buf' = [buf EXCEPT ![e] = "nul"]
           /\ cmdCall' =
                [rep |-> IF IsChannel(to) THEN to ELSE msg.prefix,
                 cmd |-> text + 1,
                 arg |-> IF buf[e] = "nul" THEN 0 ELSE e + 1]
    /\ phase' = "done"
    /\ UNCHANGED <<input, exit_on_invalid_msg, cur, msg, called>>

BotCmd ==
    /\ phase = "privmsg"
    /\ buf[text] = CmdChar
    /\ LET e == Find(text, Ends)
       IN  /\ buf' = [buf EXCEPT ![e] = "nul"]
           /\ cmdCall' =
                [rep |-> IF IsChannel(to) THEN to ELSE msg.prefix,
                 cmd |-> text + 1,
                 arg |-> IF buf[e] = "nul" \/ buf[e + 1] = "nul" THEN 0
                         ELSE e + 1]
    /\ phase' = "done"
    /\ UNCHANGED <<input, exit_on_invalid_msg, cur, msg, called>>

Next == Split \/ Ignore \/ Misfit \/ Handle \/ NoBotCmd \/ BotCmd

Spec == Init /\ [][Next]_vars

-------------------------------------------------------------------------------
(* What a message means, read off its text *)

\* The places of tok in s, up to the end of s.
Places(s, tok) == {i \in DOMAIN s : s[i] = tok}
FirstPlace(s, tok) ==
    IF Places(s, tok) = {} THEN Len(s) + 1
    ELSE CHOOSE i \in Places(s, tok) : \A j \in Places(s, tok) : i <= j
Before(s, tok) == SubSeq(s, 1, FirstPlace(s, tok) - 1)
After(s, tok) == SubSeq(s, FirstPlace(s, tok) + 1, Len(s))

HasPrefix(s) == s[1] = ":"
PrefixOf(s) == Tail(Before(s, "sp"))
BodyOf(s) == IF HasPrefix(s) THEN After(s, "sp") ELSE s

\* Where " :" begins, which starts the last parameter, and the words before.
Colon(b) ==
    LET at == {i \in 1..(Len(b) - 1) : b[i] = "sp" /\ b[i + 1] = ":"}
    IN  IF at = {} THEN Len(b) + 1
        ELSE CHOOSE i \in at : \A j \in at : i <= j

WordsOf(b) ==
    LET head == SubSeq(b, 1, Colon(b) - 1)
        stops == Ascending(Places(head, "sp") \cup {Len(head) + 1})
    IN  [k \in 1..Len(stops) |->
            SubSeq(head, IF k = 1 THEN 1 ELSE stops[k - 1] + 1, stops[k] - 1)]

ParamsOf(b) ==
    Tail(WordsOf(b)) \o
    IF Colon(b) > Len(b) THEN <<>> ELSE << SubSeq(b, Colon(b) + 2, Len(b)) >>

\* A message as RFC 2812 has it, except that a line must not end with spaces.
WellFormed(s) ==
    /\ HasPrefix(s) => PrefixOf(s) # <<>> /\ Places(s, "sp") # {}
    /\ \A k \in DOMAIN WordsOf(BodyOf(s)) : WordsOf(BodyOf(s))[k] # <<>>
    /\ Len(ParamsOf(BodyOf(s))) <= MaxParams

NickOf(s) == Before(PrefixOf(s), "!")
UserOf(s) == Before(After(PrefixOf(s), "!"), "@")
HostOf(s) == After(After(PrefixOf(s), "!"), "@")
HasNick(s) == HasPrefix(s) /\ Places(PrefixOf(s), "!") # {}
HasHost(s) == HasNick(s) /\ Places(After(PrefixOf(s), "!"), "@") # {}

\* The entries of msgs[] with the command of the message, one or none, and those
\* of them that are content with its parameters and its sender.
Meant(s) == {c \in DOMAIN MsgTable : WordsOf(BodyOf(s))[1] = <<c>>}
Handled(s) ==
    {c \in Meant(s) :
        /\ Len(ParamsOf(BodyOf(s))) \in MsgTable[c].params
        /\ MsgTable[c].needsNick => HasNick(s)}

\* Nothing to warn about, and no reason to exit with -e.
Proper(s) == WellFormed(s) /\ Handled(s) = Meant(s)

-------------------------------------------------------------------------------
(* Properties *)

TypeOK ==
    /\ input \in Input
    /\ exit_on_invalid_msg \in BOOLEAN
    /\ Len(buf) = Len(input) + 1
    /\ \A i \in DOMAIN input : buf[i] \in {input[i], "nul"}
    /\ buf[Len(buf)] = "nul"
    /\ cur \in 1..Len(buf)
    /\ msg \in [prefix : Place, nick : Place, user : Place, host : Place,
                cmd : Place, params : Seq(Place)]
    /\ phase \in Phases
    /\ called \in DOMAIN MsgTable \cup {"none"}
    /\ cmdCall \in [rep : Place, cmd : Place, arg : Place]

\* A pointer is NULL, or leads to a string.
Points(i, isSet, s) == IF isSet THEN i # 0 /\ CStr(i) = s ELSE i = 0

(***************************************************************************)
(* split_msg() accepts the well-formed messages, and what it points to is, *)
(* after all the '\0's it wrote, what the text of the message says.  The   *)
(* prefix, which is passed on as the target of replies, has been cut down  *)
(* to the nickname if there is one.                                        *)
(***************************************************************************)
SplitsAsWritten ==
    /\ phase = "invalid" => ~WellFormed(input)
    /\ phase = "handle" =>
         /\ WellFormed(input)
         /\ Points(msg.prefix, HasPrefix(input),
                   IF HasNick(input) THEN NickOf(input) ELSE PrefixOf(input))
         /\ Points(msg.nick, HasNick(input), NickOf(input))
         /\ Points(msg.user, HasNick(input), UserOf(input))
         /\ Points(msg.host, HasHost(input), HostOf(input))
         /\ CStr(msg.cmd) = WordsOf(BodyOf(input))[1]
         /\ [k \in 1..NParams |-> CStr(msg.params[k])] =
                ParamsOf(BodyOf(input))

(***************************************************************************)
(* The handler that is called is the one of the command in the text, if    *)
(* the text has the parameters and the nickname that msgs[] asks for; and  *)
(* with -e the bot exits on the messages that are malformed, or do not fit *)
(* the entry of msgs[] for their command, on all of them and on no other.  *)
(***************************************************************************)
HandledAsWritten ==
    /\ phase \in {"privmsg", "done"} =>
         /\ WellFormed(input)
         /\ {called} \ {"none"} = Handled(input)
         /\ exit_on_invalid_msg => Proper(input)
    /\ phase \in {"invalid", "exited"} =>
         /\ called = "none"
         /\ ~Proper(input)
         /\ phase = "exited" <=> exit_on_invalid_msg

\* assert(*cur == ' ') of extract_msg_params(): the loop only comes back to a
\* separator.
SeparatorIsNext == phase = "params" => buf[cur] \in Ends

\* The parameters a handler reads, and whether it reads the nickname.
Reads ==
    CASE called \in {"ERROR", "JOIN", "NICK", "PING"} -> {1}
      [] called = "KICK"    -> IF NParams = 2 THEN {1, 2} ELSE {1, 2, 3}
      [] called = "PART"    -> IF NParams = 1 THEN {1} ELSE {1, 2}
      [] called = "PRIVMSG" -> {1, 2}
      [] called = "QUIT"    -> IF NParams = 0 THEN {} ELSE {1}
      [] OTHER              -> {}

(***************************************************************************)
(* No handler reads a parameter the message does not have, or prints a     *)
(* nickname or username that is NULL ("'user' is currently always set if   *)
(* 'nick' is set").                                                        *)
(***************************************************************************)
HandlersReadWhatIsThere ==
    /\ Reads \subseteq 1..NParams
    /\ called \in {"JOIN", "KICK", "NICK", "PART", "PRIVMSG", "QUIT"} =>
         msg.nick # 0 /\ msg.user # 0

(***************************************************************************)
(* A bot command is answered where it was given: in the channel, or to the *)
(* nickname of the sender, although what is passed is the prefix.  Its     *)
(* argument is what follows the first space, or NULL if that is nothing.   *)
(***************************************************************************)
BotCmdIsAsWritten ==
    cmdCall # NoCall =>
        LET params == ParamsOf(BodyOf(input))
            rest == Tail(params[2])
        IN  /\ CStr(cmdCall.rep) = IF IsChannel(to) THEN params[1]
                                   ELSE NickOf(input)
            /\ CStr(cmdCall.cmd) = Before(rest, "sp")
            /\ Points(cmdCall.arg, After(rest, "sp") # <<>>, After(rest, "sp"))
===============================================================================
