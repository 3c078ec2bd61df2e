------------------------------ MODULE ReadBuffer ------------------------------
(***************************************************************************)
(* The IRC message read buffer of read_msg.c, and the loop of              *)
(* process_msgs() in irc.c that drives it.  One page of memory is mapped   *)
(* at two consecutive pages, so that the PageSize bytes that follow any    *)
(* index up to PageSize can be used as one chunk; unread bytes are those   *)
(* in the index range [start, end[.  Messages are parsed in place: the     *)
(* handlers overwrite bytes of a message they were given with '\0'.        *)
(***************************************************************************)
EXTENDS Naturals, Sequences

CONSTANTS
    PageSize,       \* page_size
    Byte,           \* the byte values the server can send
    Eol,            \* '\r' and '\n', which the code treats alike
    Nul             \* '\0'

ASSUME ReadBufferAssumption ==
    /\ PageSize \in Nat \ {0}
    /\ Eol \in Byte
    /\ Nul \in Byte
    /\ Eol # Nul

VARIABLES
    mem,            \* the physical page behind both mirrors
    start, end,     \* the unread bytes are at the indices start..(end - 1)
    msgAt,          \* index of the first byte of the message being handled
    msgLen,         \* its length: strlen() of what get_msg() returned
    pc,             \* where process_msgs() is
    exit_on_invalid_msg     \* the -e flag, which process_cmdline() has set

vars == <<mem, start, end, msgAt, msgLen, pc, exit_on_invalid_msg>>

\* "wait": in epoll_wait(); "drain": about to call get_msg(); "handle": in
\* split_msg() and handle_msg(); "down": process_msgs() returned false;
\* "exited": the process called exit().
PCs == {"wait", "drain", "handle", "down", "exited"}

\* The physical cell an index falls on.  Indices from 2 * PageSize on are on
\* the guard page.
Cells == 0..(PageSize - 1)
Cell(i) == IF i < PageSize THEN i ELSE i - PageSize

TypeOK ==
    /\ mem \in [Cells -> Byte]
    /\ start \in Nat
    /\ end \in Nat
    /\ msgAt \in Nat
    /\ msgLen \in Nat
    /\ pc \in PCs
    /\ exit_on_invalid_msg \in BOOLEAN

\* test_mirroring() leaves digits behind, which are never read: any content.
Init ==
    /\ mem \in [Cells -> Byte]
    /\ start = 0
    /\ end = 0
    /\ msgAt = 0
    /\ msgLen = 0
    /\ pc = "wait"
    /\ exit_on_invalid_msg \in BOOLEAN

Free == PageSize - (end - start)

-------------------------------------------------------------------------------
(* recv_msgs() *)

\* Buffer full: fail_exit().
RecvFull ==
    /\ pc = "wait"
    /\ Free = 0
    /\ pc' = "exited"
    /\ UNCHANGED <<mem, start, end, msgAt, msgLen, exit_on_invalid_msg>>

\* recv() returns 0 or an error.
RecvClosed ==
    /\ pc = "wait"
    /\ Free # 0
    /\ pc' = "down"
    /\ UNCHANGED <<mem, start, end, msgAt, msgLen, exit_on_invalid_msg>>

\* recv() stores a chunk, of any length that fits, at index end.
Recv(chunk) ==
    /\ pc = "wait"
    /\ Free # 0
    /\ Len(chunk) \in 1..Free
    /\ mem' = [c \in Cells |->
                 IF \E i \in 1..Len(chunk) : Cell(end + i - 1) = c
                 THEN chunk[CHOOSE i \in 1..Len(chunk) : Cell(end + i - 1) = c]
                 ELSE mem[c]]
    /\ end' = end + Len(chunk)
    /\ pc' = "drain"
    /\ UNCHANGED <<start, msgAt, msgLen, exit_on_invalid_msg>>

-------------------------------------------------------------------------------
(* get_msg() *)

\* Deliberately wrong variants of an operation, here and below, each followed
\* by the operation: with one in its place a property must fail.

\* Wrong: the indices are never moved back.
ShiftNever == 0

\* adjust_indices()
Shift == IF start > PageSize THEN PageSize ELSE 0
AdjStart == start - Shift
\* Wrong: only start is moved back.
AdjEndUnmoved == end
AdjEnd == end - Shift

\* The scan stops at cur, the first terminator in the adjusted range.
ScanStopsAt(cur) ==
    /\ cur \in AdjStart..(AdjEnd - 1)
    /\ mem[Cell(cur)] = Eol
    /\ \A i \in AdjStart..(cur - 1) : mem[Cell(i)] # Eol

\* Wrong: only the first byte is looked at.
HasNullBytesFirst(cur) == mem[Cell(AdjStart)] = Nul

HasNullBytes(cur) == \E i \in AdjStart..(cur - 1) : mem[Cell(i)] = Nul

\* No terminator: the rest of the message has not arrived yet.
GetNothing ==
    /\ pc = "drain"
    /\ \A i \in AdjStart..(AdjEnd - 1) : mem[Cell(i)] # Eol
    /\ start' = AdjStart
    /\ end' = AdjEnd
    /\ pc' = "wait"
    /\ UNCHANGED <<mem, msgAt, msgLen, exit_on_invalid_msg>>

\* A message with null bytes: a warning, then exit() with -e.
GetRejected ==
    /\ pc = "drain"
    /\ exit_on_invalid_msg
    /\ \E cur \in AdjStart..(AdjEnd - 1) : ScanStopsAt(cur) /\ HasNullBytes(cur)
    /\ start' = AdjStart
    /\ end' = AdjEnd
    /\ pc' = "exited"
    /\ UNCHANGED <<mem, msgAt, msgLen, exit_on_invalid_msg>>

\* Wrong: an invalid message is reported as "no more messages".
GetInvalidStops ==
    /\ pc = "drain"
    /\ \E cur \in AdjStart..(AdjEnd - 1) :
         /\ ScanStopsAt(cur)
         /\ (HasNullBytes(cur) /\ ~exit_on_invalid_msg) \/ cur = AdjStart
         /\ start' = cur + 1
    /\ end' = AdjEnd
    /\ pc' = "wait"
    /\ UNCHANGED <<mem, msgAt, msgLen, exit_on_invalid_msg>>

\* Wrong: start stays on the terminator of an empty message.
GetInvalidStays ==
    /\ pc = "drain"
    /\ \E cur \in AdjStart..(AdjEnd - 1) :
         /\ ScanStopsAt(cur)
         /\ (HasNullBytes(cur) /\ ~exit_on_invalid_msg) \/ cur = AdjStart
         /\ start' = cur
    /\ end' = AdjEnd
    /\ UNCHANGED <<mem, msgAt, msgLen, pc, exit_on_invalid_msg>>

\* Wrong: only an empty message is skipped.
GetInvalidKeeps ==
    /\ pc = "drain"
    /\ \E cur \in AdjStart..(AdjEnd - 1) :
         /\ ScanStopsAt(cur)
         /\ (HasNullBytes(cur) /\ ~exit_on_invalid_msg) \/ cur = AdjStart
         /\ start' = IF HasNullBytes(cur) THEN AdjStart ELSE cur + 1
    /\ end' = AdjEnd
    /\ UNCHANGED <<mem, msgAt, msgLen, pc, exit_on_invalid_msg>>

\* invalid_msg: a message with null bytes or an empty one, skipped.
GetInvalid ==
    /\ pc = "drain"
    /\ \E cur \in AdjStart..(AdjEnd - 1) :
         /\ ScanStopsAt(cur)
         /\ (HasNullBytes(cur) /\ ~exit_on_invalid_msg) \/ cur = AdjStart
         /\ start' = cur + 1
    /\ end' = AdjEnd
    /\ UNCHANGED <<mem, msgAt, msgLen, pc, exit_on_invalid_msg>>

\* Wrong: the length is taken from the index before the adjustment.
GetMsgUnadjusted ==
    /\ pc = "drain"
    /\ \E cur \in AdjStart..(AdjEnd - 1) :
         /\ ScanStopsAt(cur)
         /\ ~HasNullBytes(cur)
         /\ cur # AdjStart
         /\ mem' = [mem EXCEPT ![Cell(cur)] = Nul]
         /\ msgAt' = AdjStart
         /\ msgLen' = cur - start
         /\ start' = cur + 1
    /\ end' = AdjEnd
    /\ pc' = "handle"
    /\ UNCHANGED exit_on_invalid_msg

\* A message: null-terminated in place and handed out as a pointer.
GetMsg ==
    /\ pc = "drain"
    /\ \E cur \in AdjStart..(AdjEnd - 1) :
         /\ ScanStopsAt(cur)
         /\ ~HasNullBytes(cur)
         /\ cur # AdjStart
         /\ mem' = [mem EXCEPT ![Cell(cur)] = Nul]
         /\ msgAt' = AdjStart
         /\ msgLen' = cur - AdjStart
         /\ start' = cur + 1
    /\ end' = AdjEnd
    /\ pc' = "handle"
    /\ UNCHANGED exit_on_invalid_msg

-------------------------------------------------------------------------------
\* split_msg() and the handlers: they write '\0' over separators of the
\* message, any of its bytes here, and may end the process (with -e on a
\* message that does not parse, always when a reply cannot be sent).
HandleMsg(separators) ==
    /\ pc = "handle"
    /\ separators \subseteq 0..(msgLen - 1)
    /\ mem' = [c \in Cells |->
                 IF \E i \in separators : Cell(msgAt + i) = c
                 THEN Nul ELSE mem[c]]
    /\ msgAt' = 0
    /\ msgLen' = 0
    /\ pc' \in {"drain", "exited"}
    /\ UNCHANGED <<start, end, exit_on_invalid_msg>>

\* The lengths recv() can return.
Chunks == UNION {[1..n -> Byte] : n \in 1..PageSize}

Get == GetNothing \/ GetRejected \/ GetInvalid \/ GetMsg

Handle == \E separators \in SUBSET (0..(msgLen - 1)) : HandleMsg(separators)

Next ==
    \/ RecvFull
    \/ RecvClosed
    \/ \E chunk \in Chunks : Recv(chunk)
    \/ Get
    \/ Handle

\* get_msg() only looks at memory: it returns.
Fairness == WF_vars(Get)

\* A handler may reply, through write_msg.c and writen() to send(), which
\* blocks: it returns if the server goes on reading what it is sent, which the
\* code cannot guarantee (ServerFairness of EventLoop).
ServerFairness == WF_vars(Handle)

Spec == Init /\ [][Next]_vars
FairSpec == Spec /\ Fairness /\ ServerFairness

-------------------------------------------------------------------------------
(* Properties *)

Unread == [i \in 1..(end - start) |-> mem[Cell(start + i - 1)]]
Message == [i \in 1..msgLen |-> mem[Cell(msgAt + i - 1)]]

(***************************************************************************)
(* The assertions of assert_index_sanity(), and what they are for: recv()  *)
(* never stores into the guard page (in "wait", start is at most PageSize, *)
(* so that end + Free is at most 2 * PageSize), and a message the handlers *)
(* hold ends right before the unread bytes and shares no cell with them.   *)
(***************************************************************************)
IndexSanity ==
    /\ start <= end
    /\ end - start <= PageSize
    /\ end <= 2 * PageSize
    /\ pc = "wait" => start <= PageSize
    /\ IF pc = "handle"
       THEN /\ msgLen > 0
            /\ msgAt + msgLen + 1 = start
            /\ end - msgAt <= PageSize
       ELSE msgLen = 0

(***************************************************************************)
(* No complete message is left in the buffer when the bot goes back to     *)
(* epoll_wait(): epoll watches the socket, so a message stranded in the    *)
(* buffer would wait for the next one to arrive.  It also makes the        *)
(* fail_exit() of recv_msgs() right: a full buffer holds no whole message. *)
(***************************************************************************)
NoStrandedMessage ==
    pc \in {"wait", "down"} =>
        \A i \in start..(end - 1) : mem[Cell(i)] # Eol

(***************************************************************************)
(* The buffer implements the queue of bytes of MsgStream: wraparound, the  *)
(* mirrored page, the adjustment of the indices and the in-place writes    *)
(* neither lose, duplicate nor change a byte that has not been returned,   *)
(* and the handlers get exactly the bytes of the message.                  *)
(***************************************************************************)
Stream == INSTANCE MsgStream WITH
            Capacity <- PageSize,
            pending <- Unread,
            msg <- Message,
            phase <- pc

ImplementsStream == Stream!StreamSpec

(***************************************************************************)
(* process_msgs() gets out of its loop, if the server reads what it is     *)
(* sent: every get_msg() that returns a message or skips one moves start   *)
(* on, so a batch of messages cannot keep the bot from its timer and       *)
(* signals.                                                                *)
(***************************************************************************)
LoopEnds == pc \in {"drain", "handle"} ~> pc \in {"wait", "exited"}
===============================================================================
