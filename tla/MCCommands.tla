------------------------------ MODULE MCCommands ------------------------------
(***************************************************************************)
(* IrcMsg and Commands for TLC: every short message over the separators    *)
(* and one word; messages for every entry of msgs[] and more, with every   *)
(* kind of prefix and up to four parameters; every bot command; and for    *)
(* !remind, every combination of good, bad and missing fields, and every   *)
(* short argument.                                                         *)
(***************************************************************************)
EXTENDS Commands

CONSTANTS
    MaxLength,  \* bound: the length of the short messages
    MaxArg,     \* bound: the length of the short arguments of !remind
    MaxTail     \* bound: the length of what follows "2:3"

Short == UNION {[1..n -> {"sp", ":", "!", "@", "a"}] : n \in 1..MaxLength}

Froms ==
    { <<>>, <<":", "a", "sp">>, <<":", "a", "!", "b", "sp">>,
      <<":", "a", "!", "b", "@", "c", "sp">>,
      <<":", "a", "@", "c", "!", "b", "sp">> }

Names == DOMAIN MsgTable \cup {"4xx", "PONG"}

\* The parameters before the last one, and the last one: a word, nothing, or a
\* text, perhaps a command.
Middles == { <<>>, <<"sp", "a">>, <<"sp", "#", "a">>,
             <<"sp", "a", "sp", "b">>, <<"sp", "a", "sp", "b", "sp", "c">> }
Lasts == { <<>>, <<"sp", "b">>, <<"sp", ":">>, <<"sp", ":", "b", "sp", "c">>,
           <<"sp", ":", ".", "b">>, <<"sp", ":", ".", "b", "sp">>,
           <<"sp", ":", ".", "b", "sp", "c", "sp", "d">> }

Long == {p \o <<n>> \o m \o l :
            p \in Froms, n \in Names, m \in Middles, l \in Lasts}

-------------------------------------------------------------------------------
(* Bot commands *)

Ask(from, where, cmd, arg) ==
    from \o <<"sp", "PRIVMSG", "sp">> \o where \o <<"sp", ":", ".", cmd>>
         \o IF arg = <<>> THEN <<>> ELSE <<"sp">> \o arg

Request(cmd, arg) == Ask(<<":", "a", "!", "b">>, <<"#", "a">>, cmd, arg)

Cmds ==
    {Request(cmd, arg) : cmd \in CmdNames \cup {"b"},
                         arg \in {<<>>, <<"echo">>, <<"echo", "sp">>, <<"c">>}}

Times == { <<"2", ":", "3">>, <<"sp", "1", "4", ":", "4", "5">>,
           <<"1", "4", ":", "4", "4", ":", "1", "0">>,
           <<"2", "4", ":", "0">>, <<"2", ":", "6", "0">>,
           <<"2", ":", "3", ":", "6", "0">>, <<"2", ":", "0", "3", "0">>,
           <<"2", ":">>, <<"2", ":", "3", ":">>, <<"2">> }
Dates == { <<>>, <<"sp", "3", "/", "4">>, <<"tab", "3", "/", "4">>,
           <<"sp", "sp", "1", "1", "/", "2">>, <<"sp", "2", "9", "/", "2">>,
           <<"sp", "2", "9", "/", "3">>, <<"sp", "3", "1", "/", "1", "2">>,
           <<"sp", "3", "1", "/", "4">>, <<"sp", "0", "/", "4">>,
           <<"sp", "3", "/", "0">>, <<"sp", "3", "/", "1", "3">>,
           <<"sp", "3", "/">>, <<"sp", "3", "3", "3", "/", "4">> }
Years == { <<>>, <<"sp", "1", "6">>, <<"sp", "5">>, <<"sp", "3", "7">>,
           <<"sp", "3", "8">>, <<"sp", "0", "1", "6">> }
Texts == { <<>>, <<"sp">>, <<"sp", "sp">>, <<"sp", "eggs">>,
           <<"sp", "sp", "eggs">>, <<"sp", "2", "sp", "eggs">>, <<"eggs">> }

Fielded == {t \o d \o y \o x : t \in Times, d \in Dates, y \in Years, x \in Texts}
ShortArgs == UNION {[1..n -> {"1", ":", "/", "sp", "tab", "a"}] : n \in 1..MaxArg}
Tails == {<<"2", ":", "3">> \o t :
             t \in UNION {[1..n -> {"1", "/", "sp", "a"}] : n \in 1..MaxTail}}

Remindings == {Request("remind", arg) : arg \in Fielded \cup ShortArgs \cup Tails}

\* In private, and from the empty nickname.
Private ==
    {Ask(from, <<"c">>, "remind", <<"2", ":", "3", "sp", "3", "/", "4">> \o x) :
        from \in { <<":", "a", "!", "b", "@", "c">>, <<":", "!", "b">> }, x \in Texts}

MCInput == Short \cup Long \cup Cmds \cup Remindings \cup Private

\* From 14:44:30 on 11 February 2016, a leap year, to after 14:45 sharp.
MCNow == [year |-> 116, mon |-> 1, mday |-> 11, hour |-> 14, min |-> 44,
          sec |-> 30]
MCLater == [MCNow EXCEPT !.min = 45, !.sec = 1]

\* In central Europe clocks go forward at 2 on the last Sunday of March; the
\* 29th in this model.
MCSkippedHours == {[mon |-> 2, mday |-> 29, hour |-> 2]}
===============================================================================
