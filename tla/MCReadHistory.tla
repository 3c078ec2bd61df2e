---------------------------- MODULE MCReadHistory ----------------------------
(***************************************************************************)
(* ReadBuffer with the history of a connection: every byte received and    *)
(* every message handed to the handlers, compared with a reference         *)
(* definition of how a byte stream splits into IRC messages.               *)
(***************************************************************************)
EXTENDS ReadBuffer, SequencesExt, Ordered

CONSTANT MaxBytes   \* bound: bytes received in a behaviour

VARIABLES
    received,       \* all bytes recv() stored, in order
    delivered       \* all messages get_msg() handed out, in order

hvars == <<vars, received, delivered>>

HInit ==
    /\ Init
    /\ received = <<>>
    /\ delivered = <<>>

HRecv ==
    \E chunk \in Chunks :
      /\ Len(received) + Len(chunk) <= MaxBytes
      /\ Recv(chunk)
      /\ received' = received \o chunk
      /\ UNCHANGED delivered

\* The handlers read the message after get_msg() returned it.
HGetMsg ==
    /\ GetMsg
    /\ delivered' = Append(delivered, Message')
    /\ UNCHANGED received

HNext ==
    \/ HRecv
    \/ HGetMsg
    \/ /\ \/ RecvFull \/ RecvClosed
          \/ GetNothing \/ GetRejected \/ GetInvalid
          \/ Handle
       /\ UNCHANGED <<received, delivered>>

HSpec == HInit /\ [][HNext]_hvars

\* The reference: the terminators cut the stream into segments; those that are
\* not empty and hold no null byte are the messages.
Segment(s, e) ==
    LET before == {i \in 1..(e - 1) : s[i] = Eol}
        from == IF before = {} THEN 1
                ELSE 1 + CHOOSE i \in before : \A j \in before : j <= i
    IN  SubSeq(s, from, e - 1)

MessageEnds(s) ==
    {e \in DOMAIN s : /\ s[e] = Eol
                      /\ Segment(s, e) # <<>>
                      /\ ~Contains(Segment(s, e), Nul)}

MessagesOf(s) ==
    [k \in 1..Cardinality(MessageEnds(s)) |->
        Segment(s, Ascending(MessageEnds(s))[k])]

(***************************************************************************)
(* However TCP chops the stream into recv() calls and wherever the indices *)
(* wrap, the handlers get, in order, the messages of the stream and only   *)
(* those; when the bot sleeps, all those that are complete.                *)
(***************************************************************************)
DeliveredAreTheMessages ==
    /\ IsPrefix(delivered, MessagesOf(received))
    /\ pc = "wait" => delivered = MessagesOf(received)
==============================================================================
