------------------------------ MODULE MsgStream ------------------------------
(***************************************************************************)
(* What the read half of msg_io.h promises its caller, with no buffer in   *)
(* sight: the bytes received and not yet returned are a queue, recv_msgs() *)
(* appends to it, get_msg() cuts the first terminated message off it, and  *)
(* the process gives up only when Capacity bytes hold no terminator.       *)
(* The constants are those of ReadBuffer, with its assumptions.            *)
(***************************************************************************)
EXTENDS Naturals, Sequences

CONSTANTS
    Byte,           \* the byte values the peer can send
    Eol,            \* the terminators '\r' and '\n', one class
    Nul,            \* the byte '\0'
    Capacity        \* the most bytes that may be pending

VARIABLES
    pending,        \* bytes received and not yet cut into messages
    msg,            \* the message the handlers hold, <<>> when they hold none
    phase,          \* "wait", "drain", "handle", "down" or "exited"
    exit_on_invalid_msg     \* the -e flag: exit on a message with null bytes

streamVars == <<pending, msg, phase, exit_on_invalid_msg>>

Phases == {"wait", "drain", "handle", "down", "exited"}

StreamTypeOK ==
    /\ pending \in Seq(Byte)
    /\ Len(pending) <= Capacity
    /\ msg \in Seq(Byte)
    /\ phase \in Phases
    /\ exit_on_invalid_msg \in BOOLEAN

StreamInit ==
    /\ pending = <<>>
    /\ msg = <<>>
    /\ phase = "wait"
    /\ exit_on_invalid_msg \in BOOLEAN

\* The k-th pending byte is the first terminator.
FirstEol(k) ==
    /\ k \in 1..Len(pending)
    /\ pending[k] = Eol
    /\ \A j \in 1..(k - 1) : pending[j] # Eol

HasNul(k) == \E j \in 1..(k - 1) : pending[j] = Nul

\* Some bytes arrive, as many as fit at most.
Receive ==
    /\ phase = "wait"
    /\ \E n \in 1..(Capacity - Len(pending)) :
         /\ Len(pending') = Len(pending) + n
         /\ pending' \in Seq(Byte)
         /\ \A i \in 1..Len(pending) : pending'[i] = pending[i]
    /\ phase' = "drain"
    /\ UNCHANGED <<msg, exit_on_invalid_msg>>

\* The connection ended.
Closed ==
    /\ phase = "wait"
    /\ phase' = "down"
    /\ UNCHANGED <<pending, msg, exit_on_invalid_msg>>

\* A message that cannot fit: the only way to give up on well-formed input.
Overflow ==
    /\ phase = "wait"
    /\ Len(pending) = Capacity
    /\ \A i \in 1..Capacity : pending[i] # Eol
    /\ phase' = "exited"
    /\ UNCHANGED <<pending, msg, exit_on_invalid_msg>>

\* The first message leaves the queue, and with it its terminator.
Cut(k) == pending' = SubSeq(pending, k + 1, Len(pending))

\* A non-empty message without null bytes goes to the handlers.
Return ==
    /\ phase = "drain"
    /\ \E k \in 2..Len(pending) :
         /\ FirstEol(k)
         /\ ~HasNul(k)
         /\ Cut(k)
         /\ msg' = SubSeq(pending, 1, k - 1)
    /\ phase' = "handle"
    /\ UNCHANGED exit_on_invalid_msg

\* An empty message, or one with null bytes, is skipped.
Skip ==
    /\ phase = "drain"
    /\ \E k \in 1..Len(pending) :
         /\ FirstEol(k)
         /\ k = 1 \/ (HasNul(k) /\ ~exit_on_invalid_msg)
         /\ Cut(k)
    /\ UNCHANGED <<msg, phase, exit_on_invalid_msg>>

\* With -e, a message with null bytes ends the process.
Reject ==
    /\ phase = "drain"
    /\ exit_on_invalid_msg
    /\ \E k \in 1..Len(pending) : FirstEol(k) /\ HasNul(k)
    /\ phase' = "exited"
    /\ UNCHANGED <<pending, msg, exit_on_invalid_msg>>

\* No complete message is left.
Exhausted ==
    /\ phase = "drain"
    /\ \A i \in 1..Len(pending) : pending[i] # Eol
    /\ phase' = "wait"
    /\ UNCHANGED <<pending, msg, exit_on_invalid_msg>>

\* The handlers are done with the message, or one of them ended the process.
Handled ==
    /\ phase = "handle"
    /\ phase' \in {"drain", "exited"}
    /\ msg' = <<>>
    /\ UNCHANGED <<pending, exit_on_invalid_msg>>

StreamNext ==
    \/ Receive \/ Closed \/ Overflow
    \/ Return \/ Skip \/ Reject \/ Exhausted
    \/ Handled

StreamSpec == StreamInit /\ [][StreamNext]_streamVars
==============================================================================
