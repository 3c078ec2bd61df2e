--------------------------------- MODULE Channel ---------------------------------
(***************************************************************************)
(* What the writing half of msg_io.h promises: messages, put together from *)
(* pieces and ended by "\r\n", reach the server whole and one after the    *)
(* other, until the bot ends.  No buffer and no system call.               *)
(***************************************************************************)
EXTENDS SequencesExt

CONSTANTS
    Piece,      \* the texts that messages are put together from
    Crlf        \* the end of a message

VARIABLES
    building,   \* the message being put together
    accepted,   \* the messages that were to be sent
    delivered,  \* how much of that has been sent
    ended       \* the bot has ended

channelVars == <<building, accepted, delivered, ended>>

ChannelInit ==
    /\ building = <<>>
    /\ accepted = <<>>
    /\ delivered = <<>>
    /\ ended = FALSE

\* begin_msg(), begin_say(): only once the last message is gone.
Begin ==
    /\ ~ended
    /\ delivered = accepted
    /\ building' \in Piece
    /\ UNCHANGED <<accepted, delivered, ended>>

\* append_msg()
Add ==
    /\ ~ended
    /\ building' \in {building \o p : p \in Piece}
    /\ UNCHANGED <<accepted, delivered, ended>>

\* send_msg()
Accept ==
    /\ ~ended
    /\ accepted' = accepted \o building \o Crlf
    /\ building' = <<>>
    /\ UNCHANGED <<delivered, ended>>

Deliver ==
    /\ ~ended
    /\ IsPrefix(delivered, delivered')
    /\ IsPrefix(delivered', accepted)
    /\ UNCHANGED <<building, accepted, ended>>

\* What has not been sent by then is lost.
End ==
    /\ ended' = TRUE
    /\ building' = <<>>
    /\ accepted' = delivered
    /\ UNCHANGED delivered

ChannelNext == Begin \/ Add \/ Accept \/ Deliver \/ End

ChannelSpec == ChannelInit /\ [][ChannelNext]_channelVars
===============================================================================
