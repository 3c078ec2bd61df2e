--------------------------------- MODULE Output ---------------------------------
(***************************************************************************)
(* How messages get to the server: connect_to() and writen() of            *)
(* common_net.c, and write_msg.c, whose functions all put a message        *)
(* together in one buffer that is used again and again.  Characters only   *)
(* matter for which piece of which message they are from.                  *)
(***************************************************************************)
EXTENDS DynamicString

CONSTANTS
    Piece,          \* what a format and its arguments may expand to
    MaxAddresses,   \* bound: how many addresses getaddrinfo() may return
    MaxLen,         \* bound: the length of a message without "\r\n"
    MaxWire         \* bound: no message is begun after so many characters

ASSUME OutputAssumption ==
    /\ \A p \in Piece : p \in Seq(STRING) /\ Len(p) <= MaxLen
    /\ {MaxAddresses, MaxLen, MaxWire} \subseteq Nat
    /\ MaxLen + 3 <= Pow2[Width - 1]

VARIABLES
    pc,             \* where the program is
    addresses,      \* how many addresses are still to be tried
    sockets,        \* how many sockets are open
    str,            \* msg_write_buf
    written,        \* n_written_tot
    wire            \* what the kernel has taken from the bot

vars == <<pc, addresses, sockets, str, written, wire>>

Crlf == <<"\r", "\n">>

\* "connect" at the head of the loop of connect_to(), "connecting" in connect();
\* "ready" between two messages, "build" after begin_msg(), begin_say() or the
\* first half of write_msg() and say(), "write" in writen().
PCs == {"connect", "connecting", "ready", "build", "write", "exited"}

\* getaddrinfo() has returned; if it failed there is nothing to try either, and
\* the process ends like that.
Init ==
    /\ pc = "connect"
    /\ addresses \in 0..MaxAddresses
    /\ sockets = 0
    /\ str = StringInit
    /\ written = 0
    /\ wire = <<>>

Exit ==
    /\ pc' = "exited"
    /\ UNCHANGED <<addresses, sockets, str, written, wire>>

-------------------------------------------------------------------------------
(* connect_to() *)

\* Deliberately wrong variants of an operation, here and below, each followed
\* by the operation: with one in its place a property must fail.

\* socket() fails for an address.
NoSocket ==
    /\ pc = "connect"
    /\ addresses > 0
    /\ addresses' = addresses - 1
    /\ UNCHANGED <<pc, sockets, str, written, wire>>

OpenSocket ==
    /\ pc = "connect"
    /\ addresses > 0
    /\ sockets' = sockets + 1
    /\ pc' = "connecting"
    /\ UNCHANGED <<addresses, str, written, wire>>

\* Wrong: the socket is forgotten.
RefusedLeaks ==
    /\ pc = "connecting"
    /\ addresses' = addresses - 1
    /\ pc' = "connect"
    /\ UNCHANGED <<sockets, str, written, wire>>

\* connect() fails: close(), and on to the next address.
Refused ==
    /\ pc = "connecting"
    /\ addresses' = addresses - 1
    /\ sockets' = sockets - 1
    /\ pc' = "connect"
    /\ UNCHANGED <<str, written, wire>>

Connect ==
    /\ pc = "connecting"
    /\ pc' = "ready"
    /\ UNCHANGED <<addresses, sockets, str, written, wire>>

NoAddress == pc = "connect" /\ addresses = 0 /\ Exit

-------------------------------------------------------------------------------
(* write_msg.c *)

Put(s, next) ==
    /\ str' = s
    /\ pc' = next
    /\ UNCHANGED <<addresses, sockets, wire>>

\* begin_say(), and the string_set() of write_msg() and say().
BeginMsg(text) ==
    /\ pc = "ready"
    /\ Len(wire) < MaxWire
    /\ Put(StringSet(str, text), "build")
    /\ UNCHANGED written

\* append_msg(), and the string_append_v() of say().
AppendMsg(text) ==
    /\ pc = "build"
    /\ str.len + Len(text) <= MaxLen
    /\ Put(StringAppend(str, text), "build")
    /\ UNCHANGED written

\* Wrong: writen() goes on where it was.
SendMsgResumes ==
    /\ pc = "build"
    /\ Put(StringAppend(str, Crlf), "write")
    /\ UNCHANGED written

\* send_msg(), and the end of write_msg() and say().
SendMsg ==
    /\ pc = "build"
    /\ Put(StringAppend(str, Crlf), "write")
    /\ written' = 0

\* erealloc() fails.
GrowFails ==
    /\ \/ pc = "ready" /\ \E p \in Piece : ~Fits([str EXCEPT !.len = 0], p)
       \/ pc = "build" /\ \E p \in Piece \cup {Crlf} : ~Fits(str, p)
    /\ Exit

-------------------------------------------------------------------------------
(* writen() *)

Writing == pc = "write" /\ written < str.len

\* Wrong: what is sent is what the buffer begins with.
SendFromStart(n) ==
    /\ Writing
    /\ written + n <= str.len
    /\ wire' = wire \o SubSeq(str.buf, 1, n)
    /\ written' = written + n
    /\ UNCHANGED <<pc, addresses, sockets, str>>

\* Wrong: a part that was sent is not counted, and sent again for ever, here
\* until the wire holds more than the bounds allow.
SendUncounted(n) ==
    /\ Writing
    /\ Len(wire) < MaxWire + MaxLen
    /\ written + n <= str.len
    /\ wire' = wire \o SubSeq(str.buf, written + 1, written + n)
    /\ UNCHANGED <<pc, addresses, sockets, str, written>>

\* send() takes n characters.  EINTR leads back to the same call.
Send(n) ==
    /\ Writing
    /\ written + n <= str.len
    /\ wire' = wire \o SubSeq(str.buf, written + 1, written + n)
    /\ written' = written + n
    /\ UNCHANGED <<pc, addresses, sockets, str>>

SendFails == Writing /\ Exit

Written ==
    /\ pc = "write"
    /\ written >= str.len
    /\ pc' = "ready"
    /\ UNCHANGED <<addresses, sockets, str, written, wire>>

Write ==
    \/ \E n \in 1..(MaxLen + 2) : Send(n)
    \/ Written

Next ==
    \/ NoSocket \/ OpenSocket \/ Refused \/ Connect \/ NoAddress
    \/ \E p \in Piece : BeginMsg(p) \/ AppendMsg(p)
    \/ SendMsg \/ GrowFails
    \/ Write \/ SendFails

Spec == Init /\ [][Next]_vars

\* send() does not block for ever: the server reads what it is sent.
FairSpec == Spec /\ WF_vars(Write)

-------------------------------------------------------------------------------
(* Properties *)

\* The characters of messages.
Char == UNION {{p[i] : i \in DOMAIN p} : p \in Piece \cup {Crlf}}

\* Whichever addresses were tried before, and whether socket() or connect()
\* failed for them: the socket that the bot goes on with is the only one, and
\* none is left open when connect_to() turns to the next address or gives up.
SocketsAreClosed ==
    /\ pc = "connect" => sockets = 0
    /\ pc \notin {"connect", "exited"} => sockets = 1

\* No null, and nothing that was in memory before, gets to the server; and
\* connect_to() closes the sockets it gives up.
TypeOK ==
    /\ pc \in PCs
    /\ addresses \in 0..MaxAddresses
    /\ sockets \in Nat
    /\ SocketsAreClosed
    /\ str.buf \in Seq(Char \cup {"nul", "junk"})
    /\ str.len \in Nat
    /\ written \in Nat
    /\ pc = "write" => written <= str.len
    /\ wire \in Seq(Char)

(***************************************************************************)
(* The string and its null are within the buffer, whatever was appended:   *)
(* "Grow the buffer to the next power of two that can accommodate it."     *)
(***************************************************************************)
StringFits == str.len < Len(str.buf) /\ str.buf[str.len + 1] = "nul"

(***************************************************************************)
(* "This function reuses the internal buffer and grows it only as          *)
(* necessary": to the least power of two that holds the string, if that is *)
(* more than it has; and it never shrinks.                                 *)
(***************************************************************************)
GrowsAsNecessary ==
    [][/\ Len(str.buf) <= Len(str'.buf)
       /\ Len(str.buf) < Len(str'.buf) =>
            /\ \E b \in 0..Width : Len(str'.buf) = Pow2[b]
            /\ Len(str'.buf) \div 2 < str'.len + 1]_vars

(***************************************************************************)
(* Whatever part of a message each send() takes, the messages reach the    *)
(* server whole, in order and once, although they share one buffer.        *)
(***************************************************************************)
ToServer == INSTANCE Channel WITH
                building <- IF pc = "build" THEN Contents(str) ELSE <<>>,
                accepted <- IF pc = "write"
                            THEN wire \o SubSeq(str.buf, written + 1, str.len)
                            ELSE wire,
                delivered <- wire,
                ended <- pc = "exited"

ImplementsChannel == ToServer!ChannelSpec

\* writen() returns, however little each send() takes.
EveryMessageIsWritten == pc = "write" ~> pc \in {"ready", "exited"}
===============================================================================
