--------------------------- MODULE ReadBufferProofs ---------------------------
(***************************************************************************)
(* Proofs about ReadBuffer, for every page size and every set of bytes:    *)
(* the invariants of the indices, the refinement of the queue of MsgStream *)
(* and, with the history of MCReadHistory, that the handlers get the       *)
(* messages of the stream.                                                 *)
(***************************************************************************)
EXTENDS MCReadHistory, OrderedProofs

\* The inductive invariant: the indices, and what a bot at rest has in store.
IInv == TypeOK /\ IndexSanity /\ NoStrandedMessage

-------------------------------------------------------------------------------
(* The mirrored page *)

\* Every index below the guard page falls on a cell of the page.
LEMMA CellType ==
    ASSUME NEW i \in 0..(2 * PageSize - 1)
    PROVE  Cell(i) \in Cells
BY ReadBufferAssumption DEF Cell, Cells

\* PageSize bytes in a row fall on different cells.
LEMMA CellInjective ==
    ASSUME NEW a \in Nat, NEW i \in Nat, NEW j \in Nat,
           a <= i, i < a + PageSize, a <= j, j < a + PageSize,
           i < 2 * PageSize, j < 2 * PageSize,
           Cell(i) = Cell(j)
    PROVE  i = j
BY ReadBufferAssumption DEF Cell

\* adjust_indices() keeps the invariant of the indices, moves start back onto
\* the first mirror, and every unread byte stays on its cell.
LEMMA Adjust ==
    ASSUME TypeOK, IndexSanity
    PROVE  /\ AdjStart \in Nat /\ AdjEnd \in Nat
           /\ AdjStart <= PageSize /\ AdjEnd <= 2 * PageSize
           /\ AdjStart <= AdjEnd
           /\ AdjEnd - AdjStart = end - start
           /\ \A i \in AdjStart..(AdjEnd - 1) : Cell(i) = Cell(i + Shift)
           /\ \A k \in 1..(end - start) :
                Cell(AdjStart + k - 1) = Cell(start + k - 1)
BY ReadBufferAssumption
   DEF TypeOK, IndexSanity, AdjStart, AdjEnd, Shift, Cell

-------------------------------------------------------------------------------
(* The inductive invariant *)

LEMMA InitIInv == Init => IInv
BY ReadBufferAssumption
   DEF Init, IInv, TypeOK, IndexSanity, NoStrandedMessage, PCs

\* recv() stores within the two mirrors, and only bytes of the connection.
LEMMA RecvIInv ==
    ASSUME IInv, NEW chunk \in Chunks, Recv(chunk)
    PROVE  IInv'
<1> USE ReadBufferAssumption DEF IInv
<1>1. PICK n \in 1..PageSize : chunk \in [1..n -> Byte]
  BY DEF Chunks
<1>2. Len(chunk) \in 1..Free /\ chunk \in [1..Len(chunk) -> Byte]
  <2>1. chunk \in Seq(Byte)
    BY <1>1, SeqDef
  <2>2. QED
    BY <2>1, LenProperties DEF Recv
<1>3. mem' \in [Cells -> Byte]
  <2>1. ASSUME NEW c \in Cells, NEW i \in 1..Len(chunk)
        PROVE  chunk[i] \in Byte
    BY <1>2
  <2>2. QED
    BY <2>1 DEF Recv, TypeOK
<1>4. TypeOK'
  BY <1>2, <1>3 DEF TypeOK, Recv, PCs
<1>5. IndexSanity'
  BY <1>2 DEF TypeOK, IndexSanity, Recv, Free
<1>6. NoStrandedMessage'
  BY DEF NoStrandedMessage, Recv
<1>7. QED
  BY <1>4, <1>5, <1>6

\* get_msg() moves start past what it returns, and says "no more" only when
\* the scan met no terminator.
LEMMA GetIInv ==
    ASSUME IInv, Get
    PROVE  IInv'
<1> USE ReadBufferAssumption DEF IInv
<1>1. /\ AdjStart \in Nat /\ AdjEnd \in Nat
      /\ AdjStart <= PageSize /\ AdjEnd <= 2 * PageSize
      /\ AdjStart <= AdjEnd
      /\ AdjEnd - AdjStart = end - start
  BY Adjust
<1>2. CASE GetNothing
  <2>1. TypeOK'
    BY <1>1, <1>2 DEF TypeOK, GetNothing, PCs
  <2>2. IndexSanity'
    BY <1>1, <1>2 DEF TypeOK, IndexSanity, GetNothing
  <2>3. NoStrandedMessage'
    BY <1>2 DEF NoStrandedMessage, GetNothing, Cell
  <2>4. QED
    BY <2>1, <2>2, <2>3
<1>3. CASE GetRejected
  BY <1>1, <1>3
  DEF TypeOK, IndexSanity, NoStrandedMessage, GetRejected, PCs
<1>4. CASE GetInvalid
  <2>1. PICK cur \in AdjStart..(AdjEnd - 1) : start' = cur + 1
    BY <1>4 DEF GetInvalid
  <2>2. QED
    BY <1>1, <1>4, <2>1
    DEF TypeOK, IndexSanity, NoStrandedMessage, GetInvalid, PCs
<1>5. CASE GetMsg
  <2>1. PICK cur \in AdjStart..(AdjEnd - 1) :
          /\ cur # AdjStart
          /\ mem' = [mem EXCEPT ![Cell(cur)] = Nul]
          /\ msgAt' = AdjStart
          /\ msgLen' = cur - AdjStart
          /\ start' = cur + 1
    BY <1>5 DEF GetMsg
  <2>2. TypeOK'
    <3>1. mem' \in [Cells -> Byte]
      BY <2>1 DEF TypeOK
    <3>2. start' \in Nat /\ end' \in Nat /\ msgAt' \in Nat /\ msgLen' \in Nat
      BY <1>1, <1>5, <2>1 DEF GetMsg
    <3>3. QED
      BY <1>5, <3>1, <3>2 DEF TypeOK, GetMsg, PCs
  <2>3. IndexSanity'
    BY <1>1, <1>5, <2>1 DEF TypeOK, IndexSanity, GetMsg
  <2>4. NoStrandedMessage'
    BY <1>5 DEF NoStrandedMessage, GetMsg
  <2>5. QED
    BY <2>2, <2>3, <2>4
<1>6. QED
  BY <1>2, <1>3, <1>4, <1>5 DEF Get

\* The handlers end with the buffer as they found it, but for their message.
LEMMA HandleIInv ==
    ASSUME IInv, NEW separators \in SUBSET (0..(msgLen - 1)),
           HandleMsg(separators)
    PROVE  IInv'
<1> USE ReadBufferAssumption DEF IInv
<1>1. mem' \in [Cells -> Byte]
  BY DEF TypeOK, HandleMsg
<1>2. TypeOK'
  BY <1>1 DEF TypeOK, HandleMsg, PCs
<1>3. IndexSanity'
  BY DEF TypeOK, IndexSanity, HandleMsg
<1>4. NoStrandedMessage'
  BY DEF NoStrandedMessage, HandleMsg
<1>5. QED
  BY <1>2, <1>3, <1>4

LEMMA NextIInv == IInv /\ [Next]_vars => IInv'
<1> SUFFICES ASSUME IInv, [Next]_vars
             PROVE  IInv'
  OBVIOUS
<1>1. CASE RecvFull
  BY <1>1 DEF IInv, TypeOK, IndexSanity, NoStrandedMessage, RecvFull, PCs
<1>2. CASE RecvClosed
  BY <1>2 DEF IInv, TypeOK, IndexSanity, NoStrandedMessage, RecvClosed, PCs
<1>3. ASSUME NEW chunk \in Chunks, Recv(chunk)
      PROVE  IInv'
  BY <1>3, RecvIInv
<1>4. CASE Get
  BY <1>4, GetIInv
<1>5. CASE Handle
  BY <1>5, HandleIInv DEF Handle
<1>6. CASE UNCHANGED vars
  BY <1>6 DEF vars, IInv, TypeOK, IndexSanity, NoStrandedMessage, Cell
<1>7. QED
  BY <1>1, <1>2, <1>3, <1>4, <1>5, <1>6 DEF Next

\* The invariant holds in every reachable state.
THEOREM IInvAlways == Spec => []IInv
BY InitIInv, NextIInv, PTL DEF Spec

\* Every variable keeps its type: the indices stay natural numbers.
THEOREM TypeCorrect == Spec => []TypeOK
BY IInvAlways, PTL DEF IInv

\* The assertions of assert_index_sanity() never fail and no store leaves the
\* two mirrors, for every page size.
THEOREM IndicesAreSane == Spec => []IndexSanity
BY IInvAlways, PTL DEF IInv

\* The bot never sleeps in epoll_wait() on a complete message.
THEOREM NothingStranded == Spec => []NoStrandedMessage
BY IInvAlways, PTL DEF IInv
-------------------------------------------------------------------------------
(* Refinement: the buffer is the queue of MsgStream *)

\* The bytes between two indices, read through the mirrors.
LEMMA WindowIsSeq ==
    ASSUME NEW m \in [Cells -> Byte], NEW s \in Nat, NEW e \in Nat,
           s <= e, e <= 2 * PageSize,
           NEW w, w = [i \in 1..(e - s) |-> m[Cell(s + i - 1)]]
    PROVE  /\ w \in Seq(Byte)
           /\ Len(w) = e - s
           /\ \A k \in 1..(e - s) : w[k] = m[Cell(s + k - 1)]
<1> USE ReadBufferAssumption
<1>1. e - s \in Nat
  OBVIOUS
<1>2. \A k \in 1..(e - s) : m[Cell(s + k - 1)] \in Byte
  BY CellType
<1>3. w \in [1..(e - s) -> Byte]
  BY <1>2
<1>4. w \in Seq(Byte)
  <2>1. \E n \in Nat : w \in [1..n -> Byte]
    BY <1>1, <1>3, Zenon
  <2>2. PICK n \in Nat : w \in [1..n -> Byte]
    BY <2>1, Zenon
  <2>3. w \in UNION {[1..k -> Byte] : k \in Nat}
    BY <2>2, Zenon
  <2> QED
    BY <2>3, SeqDef, Zenon
<1>5. QED
  BY <1>1, <1>3, <1>4, LenProperties

\* What the refinement mapping sees of the buffer.
LEMMA UnreadIsSeq ==
    ASSUME IInv
    PROVE  /\ Unread \in Seq(Byte)
           /\ Len(Unread) = end - start
           /\ \A k \in 1..(end - start) : Unread[k] = mem[Cell(start + k - 1)]
<1>1. /\ mem \in [Cells -> Byte] /\ start \in Nat /\ end \in Nat
      /\ start <= end /\ end <= 2 * PageSize
  BY DEF IInv, TypeOK, IndexSanity
<1>2. QED
  BY <1>1, WindowIsSeq DEF Unread

\* The same of the next state.
LEMMA NextUnreadIsSeq ==
    ASSUME IInv'
    PROVE  /\ Unread' \in Seq(Byte)
           /\ Len(Unread') = end' - start'
           /\ \A k \in 1..(end' - start') :
                Unread'[k] = mem'[Cell(start' + k - 1)]
<1>1. /\ mem' \in [Cells -> Byte] /\ start' \in Nat /\ end' \in Nat
      /\ start' <= end' /\ end' <= 2 * PageSize
  BY DEF IInv, TypeOK, IndexSanity, Cells
<1>2. Unread' = [i \in 1..(end' - start') |-> mem'[Cell(start' + i - 1)]]
  BY DEF Unread, Cell
<1> DEFINE w == Unread'
<1> HIDE DEF w
<1>3. /\ w \in Seq(Byte)
      /\ Len(w) = end' - start'
      /\ \A k \in 1..(end' - start') : w[k] = mem'[Cell(start' + k - 1)]
  BY <1>1, <1>2, WindowIsSeq DEF w
<1>4. QED
  BY <1>3 DEF w

\* The abstract terminator scan is the scan of get_msg().
LEMMA ScanIsFirstEol ==
    ASSUME IInv, NEW cur \in AdjStart..(AdjEnd - 1), ScanStopsAt(cur)
    PROVE  /\ cur - AdjStart + 1 \in 1..Len(Unread)
           /\ Stream!FirstEol(cur - AdjStart + 1)
           /\ HasNullBytes(cur) <=> Stream!HasNul(cur - AdjStart + 1)
<1> USE ReadBufferAssumption
<1> DEFINE k == cur - AdjStart + 1
<1>1. /\ AdjStart \in Nat /\ AdjEnd \in Nat
      /\ AdjEnd - AdjStart = end - start
      /\ \A j \in 1..(end - start) :
           Cell(AdjStart + j - 1) = Cell(start + j - 1)
  BY Adjust DEF IInv
<1>2. k \in 1..Len(Unread)
  BY <1>1, UnreadIsSeq
<1>3. \A j \in 1..k : Unread[j] = mem[Cell(AdjStart + j - 1)]
  BY <1>1, <1>2, UnreadIsSeq
<1>4. \A j \in 1..(k - 1) :
        AdjStart + j - 1 \in AdjStart..(cur - 1)
  BY <1>1
<1>5. Stream!FirstEol(k)
  <2>1. Unread[k] = Eol
    <3>1. mem[Cell(cur)] = Eol
      BY DEF ScanStopsAt
    <3>2. AdjStart + k - 1 = cur
      BY <1>1
    <3>3. Unread[k] = mem[Cell(AdjStart + k - 1)]
      BY <1>2, <1>3
    <3>4. QED
      BY <3>1, <3>2, <3>3
  <2>2. ASSUME NEW j \in 1..(k - 1)
        PROVE  Unread[j] # Eol
    <3>1. mem[Cell(AdjStart + j - 1)] # Eol
      BY <1>4 DEF ScanStopsAt
    <3>2. j \in 1..k
      BY <1>1, <1>2, UnreadIsSeq
    <3>3. QED
      BY <1>3, <3>1, <3>2
  <2>3. QED
    BY <1>2, <2>1, <2>2 DEF Stream!FirstEol
<1>6. ASSUME HasNullBytes(cur)
      PROVE  Stream!HasNul(k)
  <2>1. PICK i \in AdjStart..(cur - 1) : mem[Cell(i)] = Nul
    BY <1>6 DEF HasNullBytes
  <2>2. i - AdjStart + 1 \in 1..(k - 1) /\ AdjStart + (i - AdjStart + 1) - 1 = i
    BY <1>1
  <2>3. Unread[i - AdjStart + 1] = Nul
    BY <1>1, <1>3, <2>1, <2>2
  <2>4. QED
    BY <2>2, <2>3 DEF Stream!HasNul
<1>7. ASSUME Stream!HasNul(k)
      PROVE  HasNullBytes(cur)
  <2>1. PICK j \in 1..(k - 1) : Unread[j] = Nul
    BY <1>7 DEF Stream!HasNul
  <2>2. mem[Cell(AdjStart + j - 1)] = Nul
    BY <1>1, <1>3, <2>1
  <2>3. QED
    BY <1>1, <1>4, <2>2 DEF HasNullBytes
<1>8. QED
  BY <1>2, <1>5, <1>6, <1>7

\* When start moves past cur and no unread byte is written, the queue loses
\* the message and its terminator and nothing else.
LEMMA AdvanceIsCut ==
    ASSUME IInv, IInv', NEW cur \in AdjStart..(AdjEnd - 1),
           start' = cur + 1, end' = AdjEnd,
           \A i \in (cur + 1)..(AdjEnd - 1) : mem'[Cell(i)] = mem[Cell(i)]
    PROVE  Stream!Cut(cur - AdjStart + 1)
<1> USE ReadBufferAssumption
<1> DEFINE k == cur - AdjStart + 1
           rest == SubSeq(Unread, k + 1, Len(Unread))
<1>1. /\ AdjStart \in Nat /\ AdjEnd \in Nat
      /\ AdjEnd - AdjStart = end - start
      /\ \A j \in 1..(end - start) :
           Cell(AdjStart + j - 1) = Cell(start + j - 1)
  BY Adjust DEF IInv
<1>2. /\ Unread \in Seq(Byte)
      /\ Len(Unread) = end - start
      /\ \A j \in 1..(end - start) : Unread[j] = mem[Cell(start + j - 1)]
  BY UnreadIsSeq
<1>3. /\ Unread' \in Seq(Byte)
      /\ Len(Unread') = end' - start'
      /\ \A j \in 1..(end' - start') :
           Unread'[j] = mem'[Cell(start' + j - 1)]
  BY NextUnreadIsSeq
<1>4. /\ k \in 1..Len(Unread)
      /\ end' - start' = Len(Unread) - k
  BY <1>1, <1>2
<1>5. /\ rest \in Seq(Byte)
      /\ Len(rest) = Len(Unread) - k
      /\ \A j \in 1..(Len(Unread) - k) : rest[j] = Unread[k + j]
  <2>1. \A j \in (k + 1)..Len(Unread) : Unread[j] \in Byte
    BY <1>2, <1>4, ElementOfSeq
  <2>2. k + 1 \in Int /\ Len(Unread) \in Int
    BY <1>1, <1>2, <1>4, LenProperties
  <2>3. /\ rest \in Seq(Byte)
        /\ Len(rest) = IF k + 1 <= Len(Unread)
                       THEN Len(Unread) - (k + 1) + 1 ELSE 0
        /\ \A j \in 1..(Len(Unread) - (k + 1) + 1) :
             rest[j] = Unread[(k + 1) + j - 1]
    BY <2>1, <2>2, SubSeqProperties
  <2>4. ASSUME NEW j \in 1..(Len(Unread) - k)
        PROVE  rest[j] = Unread[k + j]
    <3>1. j \in 1..(Len(Unread) - (k + 1) + 1) /\ (k + 1) + j - 1 = k + j
      BY <1>1, <1>2, <1>4
    <3>2. rest[j] = Unread[(k + 1) + j - 1]
      BY <2>3, <3>1
    <3>3. QED
      BY <3>1, <3>2
  <2>5. Len(rest) = Len(Unread) - k
    <3>1. CASE k < Len(Unread)
      BY <1>1, <1>2, <1>4, <2>3, <3>1
    <3>2. CASE k = Len(Unread)
      BY <1>1, <1>2, <1>4, <2>3, <3>2
    <3>3. QED
      BY <1>1, <1>2, <1>4, <3>1, <3>2
  <2>6. QED
    BY <2>3, <2>4, <2>5
<1> HIDE DEF rest
<1>6. ASSUME NEW j \in 1..(Len(Unread) - k)
      PROVE  Unread'[j] = rest[j]
  <2>1. Unread'[j] = mem'[Cell(cur + j)]
    <3>1. j \in 1..(end' - start')
      BY <1>4
    <3>2. start' + j - 1 = cur + j
      BY <1>1
    <3>3. Unread'[j] = mem'[Cell(start' + j - 1)]
      BY <1>3, <3>1
    <3>4. QED
      BY <3>2, <3>3
  <2>2. mem'[Cell(cur + j)] = mem[Cell(cur + j)]
    BY <1>1, <1>2, <1>4
  <2>3. k + j \in 1..(end - start) /\ cur + j = AdjStart + (k + j) - 1
    BY <1>1, <1>2, <1>4
  <2>4. mem[Cell(cur + j)] = Unread[k + j]
    BY <1>1, <1>2, <2>3
  <2>5. QED
    BY <1>5, <2>1, <2>2, <2>4
<1>7. Unread' = rest
  BY <1>3, <1>4, <1>5, <1>6, SeqEqual
<1>8. QED
  BY <1>7 DEF Stream!Cut, rest

\* The handlers hold no message, before and after.
LEMMA NoMessage ==
    ASSUME IInv, IInv', pc # "handle", pc' # "handle"
    PROVE  Message' = Message
BY DEF IInv, IndexSanity, Message

\* A step that moves no index past a byte and writes none leaves the queue.
LEMMA SameUnread ==
    ASSUME IInv, IInv', end' - start' = end - start,
           \A k \in 1..(end - start) :
             mem'[Cell(start' + k - 1)] = mem[Cell(start + k - 1)]
    PROVE  Unread' = Unread
<1>1. /\ Unread \in Seq(Byte)
      /\ Len(Unread) = end - start
      /\ \A k \in 1..(end - start) : Unread[k] = mem[Cell(start + k - 1)]
  BY UnreadIsSeq
<1>2. /\ Unread' \in Seq(Byte)
      /\ Len(Unread') = end' - start'
      /\ \A k \in 1..(end' - start') :
           Unread'[k] = mem'[Cell(start' + k - 1)]
  BY NextUnreadIsSeq
<1>3. \A k \in 1..Len(Unread) : Unread'[k] = Unread[k]
  BY <1>1, <1>2
<1>4. QED
  BY <1>1, <1>2, <1>3, SeqEqual

LEMMA RecvRefines ==
    ASSUME IInv, IInv', NEW chunk \in Chunks, Recv(chunk)
    PROVE  Stream!Receive
<1> USE ReadBufferAssumption
<1>1. /\ Len(chunk) \in 1..Free
      /\ start' = start /\ end' = end + Len(chunk)
      /\ pc = "wait" /\ pc' = "drain"
      /\ exit_on_invalid_msg' = exit_on_invalid_msg
  BY DEF Recv
<1>2. /\ start \in Nat /\ end \in Nat /\ start <= end
      /\ start <= PageSize /\ end - start <= PageSize
  BY <1>1 DEF IInv, TypeOK, IndexSanity
<1>3. /\ Len(Unread) = end - start
      /\ \A k \in 1..(end - start) : Unread[k] = mem[Cell(start + k - 1)]
  BY UnreadIsSeq
<1>4. /\ Unread' \in Seq(Byte)
      /\ Len(Unread') = end' - start'
      /\ \A k \in 1..(end' - start') :
           Unread'[k] = mem'[Cell(start' + k - 1)]
  BY NextUnreadIsSeq
<1>5. ASSUME NEW k \in 1..Len(Unread)
      PROVE  Unread'[k] = Unread[k]
  <2>1. start + k - 1 \in 0..(2 * PageSize - 1) /\ start + k - 1 < end
    BY <1>2, <1>3
  <2>2. Cell(start + k - 1) \in Cells
    BY <2>1, CellType
  <2>3. ASSUME NEW i \in 1..Len(chunk)
        PROVE  Cell(end + i - 1) # Cell(start + k - 1)
    <3>1. /\ end + i - 1 \in Nat /\ start <= end + i - 1
          /\ end + i - 1 < start + PageSize /\ end + i - 1 < 2 * PageSize
          /\ start + k - 1 \in Nat /\ start <= start + k - 1
          /\ start + k - 1 < start + PageSize /\ start + k - 1 < 2 * PageSize
          /\ end + i - 1 # start + k - 1
      BY <1>1, <1>2, <2>1 DEF Free
    <3>2. QED
      BY <1>2, <3>1, CellInjective
  <2>4. mem'[Cell(start + k - 1)] = mem[Cell(start + k - 1)]
    BY <2>2, <2>3 DEF Recv
  <2>5. k \in 1..(end' - start') /\ k \in 1..(end - start)
    BY <1>1, <1>2, <1>3
  <2>6. QED
    BY <1>1, <1>3, <1>4, <2>4, <2>5
<1>6. Len(Unread') = Len(Unread) + Len(chunk)
  BY <1>1, <1>2, <1>3, <1>4
<1>7. Len(chunk) \in 1..(PageSize - Len(Unread))
  BY <1>1, <1>3 DEF Free
<1>8. Message' = Message
  BY <1>1, NoMessage
<1>9. QED
  BY <1>1, <1>4, <1>5, <1>6, <1>7, <1>8 DEF Stream!Receive

\* recv_msgs() without a byte.
LEMMA RecvEndsRefine ==
    ASSUME IInv, IInv', RecvFull \/ RecvClosed
    PROVE  Stream!Overflow \/ Stream!Closed
<1> USE ReadBufferAssumption
<1>1. /\ pc = "wait" /\ pc' \in {"exited", "down"}
      /\ mem' = mem /\ start' = start /\ end' = end
  BY DEF RecvFull, RecvClosed
<1>2. Unread' = Unread
  BY <1>1, SameUnread
<1>3. Message' = Message
  BY <1>1, NoMessage
<1>4. CASE RecvClosed
  BY <1>2, <1>3, <1>4 DEF RecvClosed, Stream!Closed
<1>5. CASE RecvFull
  <2>1. Len(Unread) = PageSize /\ end - start = PageSize
    BY <1>5, UnreadIsSeq DEF RecvFull, Free, IInv, TypeOK
  <2>2. ASSUME NEW k \in 1..PageSize
        PROVE  Unread[k] # Eol
    <3>1. start + k - 1 \in start..(end - 1)
      BY <2>1 DEF IInv, TypeOK
    <3>2. mem[Cell(start + k - 1)] # Eol
      BY <1>1, <3>1 DEF IInv, NoStrandedMessage
    <3>3. QED
      BY <2>1, <3>2, UnreadIsSeq
  <2>3. QED
    BY <1>2, <1>3, <1>5, <2>1, <2>2 DEF RecvFull, Stream!Overflow
<1>6. QED
  BY <1>4, <1>5

\* get_msg() with nothing to return, or with a message to drop.
LEMMA GetNoneRefines ==
    ASSUME IInv, IInv', GetNothing \/ GetRejected \/ GetInvalid
    PROVE  Stream!Exhausted \/ Stream!Reject \/ Stream!Skip
<1> USE ReadBufferAssumption
<1>1. /\ AdjStart \in Nat /\ AdjEnd \in Nat
      /\ AdjEnd - AdjStart = end - start
      /\ \A j \in 1..(end - start) :
           Cell(AdjStart + j - 1) = Cell(start + j - 1)
  BY Adjust DEF IInv
<1>2. pc = "drain" /\ mem' = mem /\ end' = AdjEnd /\ pc' # "handle"
  BY DEF GetNothing, GetRejected, GetInvalid
<1>3. Message' = Message
  BY <1>2, NoMessage
<1>4. ASSUME start' = AdjStart
      PROVE  Unread' = Unread
  BY <1>1, <1>2, <1>4, SameUnread
<1>5. CASE GetNothing
  <2>1. ASSUME NEW k \in 1..Len(Unread)
        PROVE  Unread[k] # Eol
    <3>1. k \in 1..(end - start) /\ AdjStart + k - 1 \in AdjStart..(AdjEnd - 1)
      BY <1>1, UnreadIsSeq
    <3>2. mem[Cell(AdjStart + k - 1)] # Eol
      BY <1>5, <3>1 DEF GetNothing
    <3>3. QED
      BY <1>1, <3>1, <3>2, UnreadIsSeq
  <2>2. QED
    BY <1>3, <1>4, <1>5, <2>1 DEF GetNothing, Stream!Exhausted
<1>6. CASE GetRejected
  <2>1. PICK cur \in AdjStart..(AdjEnd - 1) :
          ScanStopsAt(cur) /\ HasNullBytes(cur)
    BY <1>6 DEF GetRejected
  <2>2. \E k \in 1..Len(Unread) : Stream!FirstEol(k) /\ Stream!HasNul(k)
    BY <2>1, ScanIsFirstEol
  <2>3. QED
    BY <1>3, <1>4, <1>6, <2>2 DEF GetRejected, Stream!Reject
<1>7. CASE GetInvalid
  <2>1. PICK cur \in AdjStart..(AdjEnd - 1) :
          /\ ScanStopsAt(cur)
          /\ (HasNullBytes(cur) /\ ~exit_on_invalid_msg) \/ cur = AdjStart
          /\ start' = cur + 1
    BY <1>7 DEF GetInvalid
  <2> DEFINE k == cur - AdjStart + 1
  <2>2. /\ k \in 1..Len(Unread)
        /\ Stream!FirstEol(k)
        /\ HasNullBytes(cur) <=> Stream!HasNul(k)
    BY <2>1, ScanIsFirstEol
  <2>3. Stream!Cut(k)
    BY <1>2, <2>1, AdvanceIsCut
  <2>4. k = 1 \/ (Stream!HasNul(k) /\ ~exit_on_invalid_msg)
    BY <1>1, <2>1, <2>2
  <2>5. UNCHANGED <<pc, exit_on_invalid_msg>>
    BY <1>7 DEF GetInvalid
  <2> HIDE DEF k
  <2>6. QED
    BY <1>2, <1>3, <2>2, <2>3, <2>4, <2>5 DEF Stream!Skip
<1>8. QED
  BY <1>5, <1>6, <1>7

\* get_msg() with a message: the handlers see its bytes, and the terminator
\* that is overwritten is not an unread byte.
LEMMA GetMsgRefines ==
    ASSUME IInv, IInv', GetMsg
    PROVE  Stream!Return
<1> USE ReadBufferAssumption
<1>1. /\ AdjStart \in Nat /\ AdjEnd \in Nat
      /\ AdjStart <= PageSize /\ AdjEnd <= 2 * PageSize
      /\ AdjEnd - AdjStart = end - start /\ end - start <= PageSize
      /\ \A j \in 1..(end - start) :
           Cell(AdjStart + j - 1) = Cell(start + j - 1)
  BY Adjust DEF IInv, IndexSanity
<1>2. PICK cur \in AdjStart..(AdjEnd - 1) :
        /\ ScanStopsAt(cur)
        /\ ~HasNullBytes(cur)
        /\ cur # AdjStart
        /\ mem' = [mem EXCEPT ![Cell(cur)] = Nul]
        /\ msgAt' = AdjStart
        /\ msgLen' = cur - AdjStart
        /\ start' = cur + 1
  BY DEF GetMsg
<1>3. /\ pc = "drain" /\ pc' = "handle" /\ end' = AdjEnd
      /\ exit_on_invalid_msg' = exit_on_invalid_msg
  BY DEF GetMsg
<1> DEFINE k == cur - AdjStart + 1
<1>4. /\ k \in 1..Len(Unread)
      /\ Stream!FirstEol(k)
      /\ ~Stream!HasNul(k)
  BY <1>2, ScanIsFirstEol
<1>5. k \in 2..Len(Unread)
  BY <1>1, <1>2, <1>4, UnreadIsSeq
<1>6. ASSUME NEW i \in AdjStart..(AdjEnd - 1), i # cur
      PROVE  mem'[Cell(i)] = mem[Cell(i)]
  <2>1. Cell(i) \in Cells
    BY <1>1, CellType
  <2>2. Cell(i) # Cell(cur)
    <3>1. /\ AdjStart \in Nat /\ i \in Nat /\ cur \in Nat
          /\ AdjStart <= i /\ i < AdjStart + PageSize /\ i < 2 * PageSize
          /\ AdjStart <= cur /\ cur < AdjStart + PageSize /\ cur < 2 * PageSize
      BY <1>1
    <3>2. QED
      BY <1>6, <3>1, CellInjective
  <2>3. QED
    BY <1>2, <2>1, <2>2 DEF IInv, TypeOK
<1>7. Stream!Cut(k)
  <2>1. \A i \in (cur + 1)..(AdjEnd - 1) : mem'[Cell(i)] = mem[Cell(i)]
    BY <1>1, <1>6
  <2>2. QED
    BY <1>2, <1>3, <2>1, AdvanceIsCut
<1>8. Message' = SubSeq(Unread, 1, k - 1)
  <2>1. Message' = [i \in 1..(k - 1) |-> mem'[Cell(AdjStart + i - 1)]]
    <3>1. msgLen' = k - 1
      BY <1>1, <1>2
    <3>2. QED
      BY <1>2, <3>1 DEF Message, Cell
  <2>2. ASSUME NEW i \in 1..(k - 1)
        PROVE  /\ Message'[i] = Unread[i]
               /\ Unread[i] \in Byte
    <3>1. /\ AdjStart + i - 1 \in AdjStart..(AdjEnd - 1)
          /\ AdjStart + i - 1 # cur
          /\ i \in 1..(end - start)
      BY <1>1, <1>4, UnreadIsSeq
    <3>2. Message'[i] = mem[Cell(AdjStart + i - 1)]
      BY <1>6, <2>1, <3>1
    <3>3. Message'[i] = Unread[i]
      BY <1>1, <3>1, <3>2, UnreadIsSeq
    <3>4. Unread[i] \in Byte
      BY <3>1, UnreadIsSeq, ElementOfSeq
    <3>5. QED
      BY <3>3, <3>4
  <2>3. k - 1 \in Nat
    BY <1>1, <1>2
  <2>4. Message' \in Seq(Byte) /\ Len(Message') = k - 1
    <3>1. Message' \in [1..(k - 1) -> Byte]
      BY <2>1, <2>2
    <3>2. Message' \in Seq(Byte)
      BY <2>3, <3>1, SeqDef
    <3>3. QED
      BY <2>1, <2>3, <3>2, LenProperties
  <2> DEFINE cutOff == SubSeq(Unread, 1, k - 1)
  <2>5. /\ cutOff \in Seq(Byte)
        /\ Len(cutOff) = IF 1 <= k - 1 THEN (k - 1) - 1 + 1 ELSE 0
        /\ \A i \in 1..((k - 1) - 1 + 1) : cutOff[i] = Unread[1 + i - 1]
    BY <2>2, <2>3, SubSeqProperties
  <2> HIDE DEF cutOff
  <2>6. Len(cutOff) = k - 1
    BY <1>5, <2>3, <2>5
  <2>7. ASSUME NEW i \in 1..(k - 1)
        PROVE  cutOff[i] = Unread[i]
    <3>1. i \in 1..((k - 1) - 1 + 1) /\ 1 + i - 1 = i
      BY <2>3
    <3>2. QED
      BY <2>5, <3>1
  <2>8. Message' = cutOff
    BY <2>2, <2>4, <2>5, <2>6, <2>7, SeqEqual
  <2>9. QED
    BY <2>8 DEF cutOff
<1> HIDE DEF k
<1>9. QED
  BY <1>3, <1>4, <1>5, <1>7, <1>8 DEF Stream!Return

\* The handlers write within their message only.
LEMMA HandleRefines ==
    ASSUME IInv, IInv', NEW separators \in SUBSET (0..(msgLen - 1)),
           HandleMsg(separators)
    PROVE  Stream!Handled
<1> USE ReadBufferAssumption
<1>1. /\ pc = "handle" /\ pc' \in {"drain", "exited"}
      /\ start' = start /\ end' = end /\ msgLen' = 0
      /\ exit_on_invalid_msg' = exit_on_invalid_msg
      /\ mem' = [c \in Cells |->
                   IF \E i \in separators : Cell(msgAt + i) = c
                   THEN Nul ELSE mem[c]]
  BY DEF HandleMsg
<1>2. /\ start \in Nat /\ end \in Nat /\ msgAt \in Nat /\ msgLen \in Nat
      /\ msgAt + msgLen + 1 = start /\ start <= end
      /\ end - msgAt <= PageSize /\ end <= 2 * PageSize
  BY <1>1 DEF IInv, TypeOK, IndexSanity
<1>3. ASSUME NEW k \in 1..(end - start)
      PROVE  mem'[Cell(start + k - 1)] = mem[Cell(start + k - 1)]
  <2>1. /\ start + k - 1 \in Nat /\ msgAt <= start + k - 1
        /\ start + k - 1 < msgAt + PageSize /\ start + k - 1 < 2 * PageSize
    BY <1>2
  <2>2. Cell(start + k - 1) \in Cells
    BY <2>1, CellType
  <2>3. ASSUME NEW i \in separators
        PROVE  Cell(msgAt + i) # Cell(start + k - 1)
    <3>1. /\ msgAt + i \in Nat /\ msgAt <= msgAt + i
          /\ msgAt + i < msgAt + PageSize /\ msgAt + i < 2 * PageSize
          /\ msgAt + i # start + k - 1
      BY <1>2
    <3>2. QED
      BY <1>2, <2>1, <3>1, CellInjective
  <2>4. QED
    BY <1>1, <2>2, <2>3
<1>4. Unread' = Unread
  BY <1>1, <1>3, SameUnread
<1>5. Message' = <<>>
  BY <1>1 DEF Message
<1>6. QED
  BY <1>1, <1>4, <1>5 DEF Stream!Handled

LEMMA InitRefines == Init => Stream!StreamInit
BY DEF Init, Stream!StreamInit, Unread, Message

\* Every step of the buffer is a step of the queue, or leaves it alone.
LEMMA NextRefines ==
    ASSUME IInv, IInv', [Next]_vars
    PROVE  [Stream!StreamNext]_(Stream!streamVars)
<1>1. CASE RecvFull \/ RecvClosed
  BY <1>1, RecvEndsRefine DEF Stream!StreamNext
<1>2. ASSUME NEW chunk \in Chunks, Recv(chunk)
      PROVE  Stream!StreamNext
  BY <1>2, RecvRefines DEF Stream!StreamNext
<1>3. CASE Get
  <2>1. CASE GetMsg
    BY <2>1, GetMsgRefines DEF Stream!StreamNext
  <2>2. CASE GetNothing \/ GetRejected \/ GetInvalid
    BY <2>2, GetNoneRefines DEF Stream!StreamNext
  <2>3. QED
    BY <1>3, <2>1, <2>2 DEF Get
<1>4. CASE Handle
  BY <1>4, HandleRefines DEF Handle, Stream!StreamNext
<1>5. CASE UNCHANGED vars
  BY <1>5 DEF vars, Stream!streamVars, Unread, Message, Cell
<1>6. QED
  BY <1>1, <1>2, <1>3, <1>4, <1>5 DEF Next

\* The mirrored buffer implements the queue of bytes of MsgStream: for every
\* page size, no byte is lost, repeated or changed, and the handlers get the
\* messages of the stream.
THEOREM BufferIsStream == Spec => ImplementsStream
<1>1. IInv /\ IInv' /\ [Next]_vars => [Stream!StreamNext]_(Stream!streamVars)
  BY NextRefines
<1>2. QED
  BY <1>1, IInvAlways, InitRefines, PTL
  DEF Spec, ImplementsStream, Stream!StreamSpec
-------------------------------------------------------------------------------
(* The messages of a stream                                                *)

\* The last place of s, before e, that is one of those in P.
LEMMA LastOne ==
    ASSUME NEW e \in Nat, NEW P \in SUBSET (1..(e - 1)), P # {}
    PROVE  \E m \in P : \A j \in P : j <= m
<1> DEFINE T == {e - j : j \in P}
<1>1. \A j \in P : j \in Nat /\ e - j \in Nat /\ e - j \in T
  OBVIOUS
<1>2. T \in SUBSET Nat /\ T # {}
  BY <1>1
<1>3. PICK t \in T : \A i \in T : t <= i
  BY <1>2, Least
<1>4. PICK m \in P : t = e - m
  BY <1>3
<1>5. ASSUME NEW j \in P PROVE j <= m
  <2>1. e - m <= e - j /\ j \in Nat /\ m \in Nat
    BY <1>1, <1>3, <1>4
  <2> QED
    BY <2>1
<1> QED
  BY <1>5

\* A part of a stream.
LEMMA PartFacts ==
    ASSUME NEW s \in Seq(Byte), NEW a \in 1..(Len(s) + 1), NEW b \in (a - 1)..Len(s)
    PROVE  /\ SubSeq(s, a, b) \in Seq(Byte)
           /\ Len(SubSeq(s, a, b)) = (b - a) + 1
           /\ \A k \in 1..((b - a) + 1) : SubSeq(s, a, b)[k] = s[(a + k) - 1]
<1>1. a \in Int /\ b \in Int /\ \A i \in a..b : s[i] \in Byte
  OBVIOUS
<1> DEFINE t == SubSeq(s, a, b)
<1>2. /\ t \in Seq(Byte)
      /\ Len(t) = IF a <= b THEN b - a + 1 ELSE 0
      /\ \A i \in 1..(b - a + 1) : t[i] = s[a + i - 1]
  BY <1>1, SubSeqProperties
<1> HIDE DEF t
<1>3. Len(t) = (b - a) + 1
  BY <1>2
<1> QED
  BY <1>2, <1>3 DEF t

\* Parts that hold the same, of two streams.
SamePart(s, a, b, t, c, d) ==
    /\ s \in Seq(Byte) /\ a \in 1..(Len(s) + 1) /\ b \in (a - 1)..Len(s)
    /\ t \in Seq(Byte) /\ c \in 1..(Len(t) + 1) /\ d \in (c - 1)..Len(t)
    /\ d - c = b - a
    /\ \A k \in 1..((b - a) + 1) : s[(a + k) - 1] = t[(c + k) - 1]

LEMMA SameParts ==
    ASSUME NEW s \in Seq(Byte), NEW a \in Nat, NEW b \in Int,
           NEW t \in Seq(Byte), NEW c \in Nat, NEW d \in Int, SamePart(s, a, b, t, c, d)
    PROVE  SubSeq(s, a, b) = SubSeq(t, c, d)
<1>1. /\ s \in Seq(Byte) /\ a \in 1..(Len(s) + 1) /\ b \in (a - 1)..Len(s)
      /\ t \in Seq(Byte) /\ c \in 1..(Len(t) + 1) /\ d \in (c - 1)..Len(t)
      /\ d - c = b - a
      /\ \A k \in 1..((b - a) + 1) : s[(a + k) - 1] = t[(c + k) - 1]
  BY DEF SamePart
<1> DEFINE x == SubSeq(s, a, b)
           y == SubSeq(t, c, d)
           n == (b - a) + 1
<1>2. /\ x \in Seq(Byte) /\ Len(x) = n
      /\ \A k \in 1..n : x[k] = s[(a + k) - 1]
  BY <1>1, PartFacts
<1>3. /\ y \in Seq(Byte) /\ Len(y) = n
      /\ \A k \in 1..n : y[k] = t[(c + k) - 1]
  <2>1. (d - c) + 1 = n
    BY <1>1
  <2> HIDE DEF n
  <2> QED
    BY <1>1, <2>1, PartFacts
<1>4. \A k \in 1..n : s[(a + k) - 1] = t[(c + k) - 1]
  BY <1>1
<1> HIDE DEF x, y, n
<1>5. \A k \in 1..n : x[k] = y[k]
  BY <1>2, <1>3, <1>4
<1>6. x = y
  BY <1>2, <1>3, <1>5, SeqEqual
<1> QED
  BY <1>6 DEF x, y

\* Where the segment that ends before place e begins.
Latest(P) == IF P = {} THEN 1 ELSE 1 + CHOOSE i \in P : \A j \in P : j <= i
From(s, e) == Latest({i \in 1..(e - 1) : s[i] = Eol})

LEMMA SegmentFrom ==
    ASSUME NEW s, NEW e
    PROVE  Segment(s, e) = SubSeq(s, From(s, e), e - 1)
BY DEF Segment, From, Latest

LEMMA FromType ==
    ASSUME NEW s, NEW e \in Nat \ {0}
    PROVE  From(s, e) \in 1..e
<1> DEFINE P == {i \in 1..(e - 1) : s[i] = Eol}
<1>1. CASE P = {}
  BY <1>1 DEF From, Latest
<1>2. CASE P # {}
  <2>1. \E m \in P : \A j \in P : j <= m
    BY <1>2, LastOne
  <2> DEFINE m == CHOOSE i \in P : \A j \in P : j <= i
  <2>2. m \in P
    BY <2>1
  <2>3. From(s, e) = 1 + m
    BY <1>2 DEF From, Latest
  <2>4. m \in 1..(e - 1)
    BY <2>2
  <2> HIDE DEF m, P
  <2> QED
    BY <2>3, <2>4
<1> QED
  BY <1>1, <1>2

\* After a terminator at place n, or from the start, up to the next one.
LEMMA SegmentIs ==
    ASSUME NEW s, NEW n \in Nat, NEW e \in Nat, n < e, n = 0 \/ s[n] = Eol,
           \A i \in (n + 1)..(e - 1) : s[i] # Eol
    PROVE  Segment(s, e) = SubSeq(s, n + 1, e - 1)
<1> DEFINE P == {i \in 1..(e - 1) : s[i] = Eol}
<1>1. CASE n = 0
  <2>1. P = {}
    BY <1>1
  <2>2. From(s, e) = 1
    BY <2>1 DEF From, Latest
  <2>3. n + 1 = 1
    BY <1>1
  <2> QED
    BY <2>2, <2>3, SegmentFrom
<1>2. CASE n # 0
  <2>1. n \in P
    BY <1>2
  <2>2. ASSUME NEW j \in P PROVE j <= n
    <3>1. j \in Nat /\ j \in 1..(e - 1) /\ s[j] = Eol
      OBVIOUS
    <3>2. ~(n < j)
      BY <3>1
    <3> QED
      BY <3>1, <3>2
  <2>3. \A j \in P : j \in Nat
    OBVIOUS
  <2> DEFINE m == CHOOSE i \in P : \A j \in P : j <= i
  <2>4. m = n
    <3>1. \A i \in P : (\A j \in P : j <= i) => i = n
      BY <2>1, <2>2, <2>3
    <3> HIDE DEF P
    <3> QED
      BY <2>1, <2>2, <3>1
  <2>5. From(s, e) = 1 + m
    BY <2>1 DEF From, Latest
  <2> HIDE DEF m, P
  <2>6. From(s, e) = n + 1
    BY <2>4, <2>5
  <2> QED
    BY <2>6, SegmentFrom
<1> QED
  BY <1>1, <1>2

\* What arrives later does not change a segment.
LEMMA SegmentStays ==
    ASSUME NEW s \in Seq(Byte), NEW t \in Seq(Byte), Len(s) <= Len(t),
           \A i \in 1..Len(s) : t[i] = s[i], NEW e \in 1..Len(s)
    PROVE  Segment(t, e) = Segment(s, e)
<1>1. Len(s) \in Nat /\ Len(t) \in Nat /\ e \in Nat \ {0}
  OBVIOUS
<1>2. {i \in 1..(e - 1) : t[i] = Eol} = {i \in 1..(e - 1) : s[i] = Eol}
  <2>1. \A i \in 1..(e - 1) : i \in 1..Len(s)
    BY <1>1
  <2> QED
    BY <2>1
<1>3. From(t, e) = From(s, e)
  BY <1>2 DEF From
<1> DEFINE a == From(s, e)
           b == e - 1
<1>4. a \in 1..e
  BY <1>1, FromType
<1> HIDE DEF a
<1>5. /\ a \in 1..(Len(s) + 1) /\ b \in (a - 1)..Len(s)
      /\ a \in 1..(Len(t) + 1) /\ b \in (a - 1)..Len(t)
  BY <1>1, <1>4
<1>6. \A k \in 1..((b - a) + 1) : t[(a + k) - 1] = s[(a + k) - 1]
  <2>1. \A k \in 1..((b - a) + 1) : (a + k) - 1 \in 1..Len(s)
    BY <1>1, <1>4
  <2> QED
    BY <2>1
<1> HIDE DEF b
<1>7. SamePart(t, a, b, s, a, b)
  BY <1>5, <1>6 DEF SamePart
<1>8. SubSeq(t, a, b) = SubSeq(s, a, b)
  <2>1. a \in Nat /\ b \in Int
    BY <1>5
  <2> QED
    BY <1>7, <2>1, SameParts
<1> QED
  BY <1>3, <1>8, SegmentFrom DEF a, b

\* What is known when the first n bytes of r have been cut into messages: u
\* is what is left, p the places where the messages d end.
Held(r, u, d, n, p) ==
    /\ r \in Seq(Byte) /\ n \in 0..Len(r)
    /\ n = 0 \/ r[n] = Eol
    /\ u = SubSeq(r, n + 1, Len(r))
    /\ Increasing(p)
    /\ {i \in MessageEnds(r) : i <= n} = {p[j] : j \in 1..Len(p)}
    /\ Len(d) = Len(p) /\ d = [k \in 1..Len(p) |-> Segment(r, p[k])]

LEMMA MessageEndsAre ==
    ASSUME NEW r \in Seq(Byte)
    PROVE  MessageEnds(r) \in SUBSET Nat /\ IsFiniteSet(MessageEnds(r))
<1> DEFINE P == MessageEnds(r)
           n == Len(r)
<1>1. DOMAIN r = 1..n /\ n \in Nat
  OBVIOUS
<1>2. P \in SUBSET (1..n)
  BY <1>1 DEF MessageEnds
<1> HIDE DEF P, n
<1>3. IsFiniteSet(1..n)
  <2> DEFINE one == 1
  <2>1. one \in Int /\ n \in Int
    BY <1>1
  <2> HIDE DEF one
  <2>2. IsFiniteSet(one..n)
    BY <2>1, FS_Interval
  <2> QED
    BY <2>2 DEF one
<1>4. IsFiniteSet(P)
  BY <1>2, <1>3, FS_Subset
<1>5. P \in SUBSET Nat
  BY <1>1, <1>2
<1> QED
  BY <1>4, <1>5 DEF P

\* What is handed out is how the messages of the stream begin.
LEMMA HeldIsPrefix ==
    ASSUME NEW r, NEW u, NEW d, NEW n, NEW p, Held(r, u, d, n, p)
    PROVE  IsPrefix(d, MessagesOf(r))
<1> DEFINE S == MessageEnds(r)
           m == MessagesOf(r)
<1>1. /\ r \in Seq(Byte) /\ Len(r) \in Nat /\ n \in Nat /\ Increasing(p)
      /\ {i \in S : i <= n} = {p[j] : j \in 1..Len(p)}
      /\ Len(d) = Len(p) /\ d = [k \in 1..Len(p) |-> Segment(r, p[k])]
  BY DEF Held
<1>2. S \in SUBSET Nat /\ IsFiniteSet(S)
  BY <1>1, MessageEndsAre
<1>3. Cardinality(S) \in Nat /\ Len(p) \in Nat
  BY <1>1, <1>2, FS_CardinalityType DEF Increasing
<1>4. /\ m = [k \in 1..Cardinality(S) |-> Segment(r, Ascending(S)[k])]
      /\ Len(m) = Cardinality(S)
  <2>1. m = [k \in 1..Cardinality(S) |-> Segment(r, Ascending(S)[k])]
    BY DEF MessagesOf
  <2> HIDE DEF m, S
  <2> QED
    BY <1>3, <2>1
<1> HIDE DEF S, m
<1>5. Len(p) <= Cardinality(S) /\ \A k \in 1..Len(p) : Ascending(S)[k] = p[k]
  BY <1>1, <1>2, AscendingBegins
<1>6. ASSUME NEW k \in 1..Len(p) PROVE d[k] = m[k]
  <2>1. k \in 1..Cardinality(S)
    BY <1>3, <1>5
  <2>2. d[k] = Segment(r, p[k]) /\ m[k] = Segment(r, Ascending(S)[k])
    BY <1>1, <1>4, <2>1
  <2> QED
    BY <1>5, <2>2
<1>7. SubSeq(d, 1, Len(p)) = SubSeq(m, 1, Len(p))
  <2> DEFINE l == Len(p)
             one == 1
             A == {d[k] : k \in 1..l}
             x == SubSeq(d, one, l)
             y == SubSeq(m, one, l)
  <2>1. one \in Int /\ l \in Int /\ l \in Nat /\ \A k \in one..l : d[k] \in A /\ m[k] \in A
    BY <1>3, <1>6
  <2> HIDE DEF A, l, one
  <2>2. /\ x \in Seq(A) /\ Len(x) = IF one <= l THEN l - one + 1 ELSE 0
        /\ \A i \in 1..(l - one + 1) : x[i] = d[one + i - 1]
    BY <2>1, SubSeqProperties
  <2>3. /\ y \in Seq(A) /\ Len(y) = IF one <= l THEN l - one + 1 ELSE 0
        /\ \A i \in 1..(l - one + 1) : y[i] = m[one + i - 1]
    BY <2>1, SubSeqProperties
  <2> HIDE DEF x, y
  <2>4. Len(x) = l /\ Len(y) = l
    BY <2>1, <2>2, <2>3 DEF one
  <2>5. ASSUME NEW k \in 1..l PROVE x[k] = y[k]
    <3>1. k \in 1..(l - one + 1) /\ one + k - 1 = k /\ k \in 1..Len(p)
      BY <2>1 DEF one, l
    <3>2. x[k] = d[k] /\ y[k] = m[k]
      BY <2>2, <2>3, <3>1
    <3> QED
      BY <1>6, <3>1, <3>2
  <2>6. x = y
    BY <2>2, <2>3, <2>4, <2>5, SeqEqual
  <2> QED
    BY <2>6 DEF x, y, one, l
<1>8. Len(d) <= Len(m) /\ SubSeq(d, 1, Len(d)) = SubSeq(m, 1, Len(d))
  BY <1>1, <1>4, <1>5, <1>7
<1> QED
  BY <1>8 DEF IsPrefix, m

\* When no terminator is left they are all handed out.
LEMMA HeldIsAll ==
    ASSUME NEW r, NEW u, NEW d, NEW n, NEW p, Held(r, u, d, n, p),
           \A k \in 1..Len(u) : u[k] # Eol
    PROVE  d = MessagesOf(r)
<1> DEFINE S == MessageEnds(r)
<1>1. /\ r \in Seq(Byte) /\ Len(r) \in Nat /\ n \in 0..Len(r) /\ Increasing(p)
      /\ u = SubSeq(r, n + 1, Len(r))
      /\ {i \in S : i <= n} = {p[j] : j \in 1..Len(p)}
      /\ d = [k \in 1..Len(p) |-> Segment(r, p[k])]
  BY DEF Held
<1>2. S \in SUBSET Nat /\ IsFiniteSet(S)
  BY <1>1, MessageEndsAre
<1>3. ASSUME NEW e \in S PROVE e <= n
  <2>1. e \in 1..Len(r) /\ r[e] = Eol
    BY <1>1 DEF MessageEnds
  <2>2. SUFFICES ASSUME n < e PROVE FALSE
    BY <1>1, <2>1
  <2> DEFINE a == n + 1
             b == Len(r)
             k == e - n
  <2>3. /\ a \in 1..(Len(r) + 1) /\ b \in (a - 1)..Len(r)
        /\ k \in 1..((b - a) + 1) /\ (a + k) - 1 = e
    BY <1>1, <2>1, <2>2
  <2> HIDE DEF a, b, k
  <2>4. /\ Len(SubSeq(r, a, b)) = (b - a) + 1
        /\ \A i \in 1..((b - a) + 1) : SubSeq(r, a, b)[i] = r[(a + i) - 1]
    BY <1>1, <2>3, PartFacts
  <2>5. u = SubSeq(r, a, b)
    BY <1>1 DEF a, b
  <2>6. k \in 1..Len(u) /\ u[k] = r[e]
    BY <2>3, <2>4, <2>5
  <2> QED
    BY <2>1, <2>6
<1> HIDE DEF S
<1>4. S = {p[j] : j \in 1..Len(p)}
  <2>1. {i \in S : i <= n} = S
    BY <1>3
  <2> QED
    BY <1>1, <2>1
<1>5. Ascending(S) = p
  BY <1>1, <1>2, <1>4, AscendingIs
<1>6. Cardinality(S) = Len(p)
  <2> DEFINE k == Len(p) + 1
  <2>1. k \in 1..(Len(p) + 1) /\ k - 1 = Len(p)
    BY <1>1 DEF Increasing
  <2> HIDE DEF k
  <2>2. Cardinality({p[j] : j \in 1..(k - 1)}) = k - 1
    BY <1>1, <2>1, MembersBefore
  <2> QED
    BY <1>4, <2>1, <2>2
<1>7. MessagesOf(r) = [k \in 1..Cardinality(S) |-> Segment(r, Ascending(S)[k])]
  BY DEF MessagesOf, S
<1> QED
  BY <1>1, <1>5, <1>6, <1>7

\* More of the stream arrives.
LEMMA HeldMore ==
    ASSUME NEW r, NEW u, NEW d, NEW n, NEW p, Held(r, u, d, n, p),
           NEW t \in Seq(Byte), Len(r) <= Len(t), \A i \in 1..Len(r) : t[i] = r[i]
    PROVE  Held(t, SubSeq(t, n + 1, Len(t)), d, n, p)
<1>1. /\ r \in Seq(Byte) /\ n \in 0..Len(r) /\ Increasing(p)
      /\ {i \in MessageEnds(r) : i <= n} = {p[j] : j \in 1..Len(p)}
      /\ Len(d) = Len(p) /\ d = [k \in 1..Len(p) |-> Segment(r, p[k])]
      /\ (n = 0 \/ r[n] = Eol)
  BY DEF Held
<1>2. Len(r) \in Nat /\ Len(t) \in Nat /\ DOMAIN r = 1..Len(r) /\ DOMAIN t = 1..Len(t)
  BY <1>1
<1>3. n \in 0..Len(t) /\ (n = 0 \/ t[n] = Eol)
  BY <1>1, <1>2
<1>4. \A e \in 1..Len(r) : Segment(t, e) = Segment(r, e)
  BY <1>1, SegmentStays
<1>5. {i \in MessageEnds(t) : i <= n} = {i \in MessageEnds(r) : i <= n}
  <2>1. ASSUME NEW i \in 1..Len(r) PROVE i \in MessageEnds(t) <=> i \in MessageEnds(r)
    BY <1>2, <1>4 DEF MessageEnds
  <2>2. \A i \in MessageEnds(t) : i \in 1..Len(t)
    BY <1>2 DEF MessageEnds
  <2>3. \A i \in MessageEnds(r) : i \in 1..Len(r)
    BY <1>2 DEF MessageEnds
  <2>4. \A i \in MessageEnds(t) : i <= n => i \in 1..Len(r)
    BY <1>1, <1>2, <2>2
  <2> QED
    BY <2>1, <2>3, <2>4
<1>6. ASSUME NEW k \in 1..Len(p) PROVE Segment(t, p[k]) = Segment(r, p[k])
  <2>1. p[k] \in MessageEnds(r)
    BY <1>1
  <2>2. p[k] \in 1..Len(r)
    BY <1>2, <2>1 DEF MessageEnds
  <2> QED
    BY <1>4, <2>2
<1>7. d = [k \in 1..Len(p) |-> Segment(t, p[k])]
  BY <1>1, <1>6
<1> QED
  BY <1>1, <1>3, <1>5, <1>7 DEF Held

\* The first terminator of what is left, at its place k and at place e of the
\* stream, ends a segment there.
EndsAt(r, u, n, k, e) ==
    /\ e \in (n + 1)..Len(r) /\ r[e] = Eol
    /\ SubSeq(u, k + 1, Len(u)) = SubSeq(r, e + 1, Len(r))
    /\ Segment(r, e) = SubSeq(u, 1, k - 1)
    /\ Len(Segment(r, e)) = k - 1
    /\ \A j \in 1..(k - 1) : Segment(r, e)[j] = u[j]
    /\ \A i \in MessageEnds(r) : i <= e => i <= n \/ i = e

\* What is left and the stream have the same bytes, n places apart.
EqualPart(s, a, b, t, c, d) == SubSeq(s, a, b) = SubSeq(t, c, d)

LEMMA SamePartEqual ==
    ASSUME NEW s \in Seq(Byte), NEW a \in Nat, NEW b \in Int,
           NEW t \in Seq(Byte), NEW c \in Nat, NEW d \in Int, SamePart(s, a, b, t, c, d)
    PROVE  EqualPart(s, a, b, t, c, d)
<1>1. SubSeq(s, a, b) = SubSeq(t, c, d)
  BY SameParts
<1> QED
  BY <1>1 DEF EqualPart

LEMMA HeldEnd ==
    ASSUME NEW r \in Seq(Byte), NEW u \in Seq(Byte), NEW d, NEW n \in Nat, NEW p,
           Held(r, u, d, n, p),
           NEW k \in 1..Len(u), u[k] = Eol, \A j \in 1..(k - 1) : u[j] # Eol
    PROVE  EndsAt(r, u, n, k, n + k)
<1>1. /\ r \in Seq(Byte) /\ n \in 0..Len(r) /\ Len(r) \in Nat /\ n \in Nat
      /\ (n = 0 \/ r[n] = Eol)
      /\ u = SubSeq(r, n + 1, Len(r))
  BY DEF Held
<1> DEFINE a == n + 1
           b == Len(r)
           e == n + k
<1>2. a \in 1..(Len(r) + 1) /\ b \in (a - 1)..Len(r) /\ (b - a) + 1 = Len(r) - n
  BY <1>1
<1>3. /\ u \in Seq(Byte) /\ Len(u) = Len(r) - n
      /\ \A j \in 1..(Len(r) - n) : u[j] = r[(a + j) - 1]
  <2> HIDE DEF a, b
  <2>1. /\ SubSeq(r, a, b) \in Seq(Byte) /\ Len(SubSeq(r, a, b)) = (b - a) + 1
        /\ \A i \in 1..((b - a) + 1) : SubSeq(r, a, b)[i] = r[(a + i) - 1]
    BY <1>1, <1>2, PartFacts
  <2>2. u = SubSeq(r, a, b)
    BY <1>1 DEF a, b
  <2> QED
    BY <1>2, <2>1, <2>2
<1>4. k \in Nat /\ k \in 1..(Len(r) - n)
  BY <1>1, <1>3
<1>5. \A j \in 1..(Len(r) - n) : u[j] = r[n + j]
  <2>1. \A j \in 1..(Len(r) - n) : (a + j) - 1 = n + j
    BY <1>1
  <2> QED
    BY <1>3, <2>1
<1> HIDE DEF a, b
<1>6. e \in (n + 1)..Len(r) /\ r[e] = Eol /\ e \in Nat /\ n < e
  <2>1. r[e] = Eol
    BY <1>4, <1>5
  <2> QED
    BY <1>1, <1>4, <2>1
<1>7. \A i \in (n + 1)..(e - 1) : r[i] # Eol
  <2>1. ASSUME NEW i \in (n + 1)..(e - 1) PROVE r[i] # Eol
    <3>1. i - n \in 1..(k - 1) /\ i - n \in 1..(Len(r) - n) /\ n + (i - n) = i
      BY <1>1, <1>4
    <3>2. u[i - n] # Eol
      BY <3>1
    <3> QED
      BY <1>5, <3>1, <3>2
  <2> QED
    BY <2>1
<1>8. Segment(r, e) = SubSeq(r, n + 1, e - 1)
  <2> HIDE DEF e
  <2> QED
    BY <1>1, <1>6, <1>7, SegmentIs
<1>9. SubSeq(u, 1, k - 1) = SubSeq(r, n + 1, e - 1)
  <2>1. ASSUME NEW x \in Nat, NEW y \in Int, NEW v \in Nat, NEW w \in Int,
               x = 1, y = k - 1, v = n + 1, w = e - 1
        PROVE  EqualPart(u, x, y, r, v, w)
    <3>1. /\ x \in 1..(Len(u) + 1) /\ y \in (x - 1)..Len(u)
          /\ v \in 1..(Len(r) + 1) /\ w \in (v - 1)..Len(r) /\ w - v = y - x
      BY <1>1, <1>3, <1>4, <2>1
    <3>2. ASSUME NEW j \in 1..((y - x) + 1) PROVE u[(x + j) - 1] = r[(v + j) - 1]
      <4>1. (v + j) - 1 = n + ((x + j) - 1) /\ (x + j) - 1 \in 1..(Len(r) - n)
        BY <1>1, <1>3, <1>4, <2>1
      <4> QED
        BY <1>5, <4>1
    <3>3. SamePart(u, x, y, r, v, w)
      BY <3>1, <3>2 DEF SamePart
    <3> QED
      BY <1>3, <3>3, SamePartEqual
  <2>2. 1 \in Nat /\ k - 1 \in Int /\ n + 1 \in Nat /\ e - 1 \in Int
    BY <1>1, <1>3, <1>4
  <2> QED
    BY <2>1, <2>2 DEF EqualPart
<1>10. SubSeq(u, k + 1, Len(u)) = SubSeq(r, e + 1, Len(r))
  <2>1. ASSUME NEW x \in Nat, NEW y \in Int, NEW v \in Nat, NEW w \in Int,
               x = k + 1, y = Len(u), v = e + 1, w = Len(r)
        PROVE  EqualPart(u, x, y, r, v, w)
    <3>1. /\ x \in 1..(Len(u) + 1) /\ y \in (x - 1)..Len(u)
          /\ v \in 1..(Len(r) + 1) /\ w \in (v - 1)..Len(r) /\ w - v = y - x
      BY <1>1, <1>3, <1>4, <2>1
    <3>2. ASSUME NEW j \in 1..((y - x) + 1) PROVE u[(x + j) - 1] = r[(v + j) - 1]
      <4>1. (v + j) - 1 = n + ((x + j) - 1) /\ (x + j) - 1 \in 1..(Len(r) - n)
        BY <1>1, <1>3, <1>4, <2>1
      <4> QED
        BY <1>5, <4>1
    <3>3. SamePart(u, x, y, r, v, w)
      BY <3>1, <3>2 DEF SamePart
    <3> QED
      BY <1>3, <3>3, SamePartEqual
  <2>2. k + 1 \in Nat /\ Len(u) \in Int /\ e + 1 \in Nat /\ Len(r) \in Int
    BY <1>1, <1>3, <1>4
  <2> QED
    BY <2>1, <2>2 DEF EqualPart
<1>11. /\ Len(SubSeq(u, 1, k - 1)) = k - 1
       /\ \A j \in 1..(k - 1) : SubSeq(u, 1, k - 1)[j] = u[j]
  <2> DEFINE x == 1
             y == k - 1
  <2>1. x \in 1..(Len(u) + 1) /\ y \in (x - 1)..Len(u) /\ (y - x) + 1 = k - 1
    BY <1>1, <1>3, <1>4
  <2>2. \A j \in 1..(k - 1) : (x + j) - 1 = j
    OBVIOUS
  <2> HIDE DEF x, y
  <2>3. /\ Len(SubSeq(u, x, y)) = (y - x) + 1
        /\ \A j \in 1..((y - x) + 1) : SubSeq(u, x, y)[j] = u[(x + j) - 1]
    BY <1>3, <2>1, PartFacts
  <2>4. Len(SubSeq(u, x, y)) = k - 1 /\ \A j \in 1..(k - 1) : SubSeq(u, x, y)[j] = u[j]
    BY <2>1, <2>2, <2>3
  <2> QED
    BY <2>4 DEF x, y
<1>12. ASSUME NEW i \in MessageEnds(r), i <= e PROVE i <= n \/ i = e
  <2>1. i \in 1..Len(r) /\ r[i] = Eol
    BY <1>1 DEF MessageEnds
  <2>2. i \notin (n + 1)..(e - 1)
    BY <1>7, <2>1
  <2> QED
    BY <1>1, <1>6, <1>12, <2>1, <2>2
<1> QED
  BY <1>6, <1>8, <1>9, <1>10, <1>11, <1>12 DEF EndsAt

\* It is skipped, ...
LEMMA HeldSkipped ==
    ASSUME NEW r \in Seq(Byte), NEW u \in Seq(Byte), NEW d, NEW n \in Nat, NEW p,
           Held(r, u, d, n, p),
           NEW k \in 1..Len(u), u[k] = Eol, \A j \in 1..(k - 1) : u[j] # Eol,
           k = 1 \/ \E j \in 1..(k - 1) : u[j] = Nul
    PROVE  Held(r, SubSeq(u, k + 1, Len(u)), d, n + k, p)
<1>1. /\ r \in Seq(Byte) /\ n \in 0..Len(r) /\ Len(r) \in Nat /\ n \in Nat
      /\ {i \in MessageEnds(r) : i <= n} = {p[j] : j \in 1..Len(p)}
      /\ Increasing(p)
      /\ Len(d) = Len(p) /\ d = [i \in 1..Len(p) |-> Segment(r, p[i])]
  BY DEF Held
<1>2. EndsAt(r, u, n, k, n + k)
  BY HeldEnd
<1> DEFINE e == n + k
<1>3. e \notin MessageEnds(r)
  <2>1. CASE k = 1
    <3>1. Segment(r, e) = <<>>
      <4>1. Segment(r, e) = SubSeq(u, 1, k - 1)
        BY <1>2 DEF EndsAt
      <4>2. SubSeq(u, 1, 0) = <<>>
        BY SubSeqEmpty
      <4> QED
        BY <2>1, <4>1, <4>2
    <3> QED
      BY <3>1 DEF MessageEnds
  <2>2. CASE \E j \in 1..(k - 1) : u[j] = Nul
    <3>1. Contains(Segment(r, e), Nul)
      BY <1>2, <2>2 DEF EndsAt, Contains
    <3> QED
      BY <3>1 DEF MessageEnds
  <2> QED
    BY <2>1, <2>2
<1>4. /\ e \in (n + 1)..Len(r) /\ r[e] = Eol
      /\ SubSeq(u, k + 1, Len(u)) = SubSeq(r, e + 1, Len(r))
      /\ \A i \in MessageEnds(r) : i <= e => i <= n \/ i = e
  BY <1>2 DEF EndsAt
<1> HIDE DEF e
<1>5. {i \in MessageEnds(r) : i <= e} = {i \in MessageEnds(r) : i <= n}
  <2>1. \A i \in MessageEnds(r) : i \in Nat
    BY <1>1, MessageEndsAre
  <2> QED
    BY <1>1, <1>3, <1>4, <2>1
<1>6. e \in 0..Len(r)
  BY <1>1, <1>4
<1>7. Held(r, SubSeq(u, k + 1, Len(u)), d, e, p)
  BY <1>1, <1>4, <1>5, <1>6 DEF Held
<1> QED
  BY <1>7 DEF e

\* ... or handed out.
LEMMA HeldReturned ==
    ASSUME NEW r \in Seq(Byte), NEW u \in Seq(Byte), NEW d, NEW n \in Nat, NEW p,
           Held(r, u, d, n, p),
           NEW k \in 2..Len(u), u[k] = Eol, \A j \in 1..(k - 1) : u[j] # Eol,
           ~\E j \in 1..(k - 1) : u[j] = Nul
    PROVE  Held(r, SubSeq(u, k + 1, Len(u)), Append(d, SubSeq(u, 1, k - 1)), n + k,
                Append(p, n + k))
<1>1. /\ r \in Seq(Byte) /\ n \in 0..Len(r) /\ Len(r) \in Nat /\ n \in Nat
      /\ {i \in MessageEnds(r) : i <= n} = {p[j] : j \in 1..Len(p)}
      /\ Increasing(p) /\ p \in Seq(Nat) /\ Len(p) \in Nat
      /\ Len(d) = Len(p) /\ d = [i \in 1..Len(p) |-> Segment(r, p[i])]
  BY DEF Held, Increasing
<1>2. EndsAt(r, u, n, k, n + k)
  <2>1. k \in 1..Len(u)
    OBVIOUS
  <2> QED
    BY <2>1, HeldEnd
<1> DEFINE e == n + k
           t == SubSeq(u, 1, k - 1)
           q == Append(p, e)
           c == Append(d, t)
           m == Len(p)
<1>3. /\ e \in (n + 1)..Len(r) /\ r[e] = Eol /\ e \in Nat /\ e \in DOMAIN r
      /\ SubSeq(u, k + 1, Len(u)) = SubSeq(r, e + 1, Len(r))
      /\ Segment(r, e) = t /\ Len(t) = k - 1
      /\ \A j \in 1..(k - 1) : t[j] = u[j]
      /\ \A i \in MessageEnds(r) : i <= e => i <= n \/ i = e
  BY <1>1, <1>2 DEF EndsAt
<1>4. e \in MessageEnds(r)
  <2>1. Len(t) # 0
    BY <1>3
  <2>2. t # <<>>
    BY <2>1
  <2>3. ~Contains(t, Nul)
    BY <1>3 DEF Contains
  <2> QED
    BY <1>3, <2>2, <2>3 DEF MessageEnds
<1> HIDE DEF e, t
<1>5. /\ q \in Seq(Nat) /\ Len(q) = m + 1 /\ q[m + 1] = e
      /\ \A j \in 1..m : q[j] = p[j]
  BY <1>1, <1>3, AppendProperties
<1>6. /\ Len(c) = m + 1 /\ c[m + 1] = t /\ \A j \in 1..m : c[j] = d[j]
      /\ c = [j \in 1..(m + 1) |-> c[j]]
  <2> DEFINE A == {d[j] : j \in 1..m} \cup {t}
  <2>1. d \in [1..m -> A] /\ t \in A
    BY <1>1
  <2>2. d \in Seq(A) /\ Len(d) = m /\ m \in Nat
    BY <1>1, <2>1, SeqDef
  <2> HIDE DEF A, c, m
  <2>3. /\ c \in Seq(A) /\ Len(c) = m + 1 /\ c[m + 1] = t /\ \A j \in 1..m : c[j] = d[j]
    BY <2>1, <2>2, AppendProperties DEF c
  <2> QED
    BY <2>2, <2>3
<1> HIDE DEF q, c
<1>7. {i \in MessageEnds(r) : i <= e} = {q[j] : j \in 1..(m + 1)}
  <2>1. \A i \in MessageEnds(r) : i \in Nat
    BY <1>1, MessageEndsAre
  <2>2. {i \in MessageEnds(r) : i <= e} = {i \in MessageEnds(r) : i <= n} \cup {e}
    <3>1. \A i \in Nat : i <= n => i <= e
      BY <1>1, <1>3
    <3>2. e <= e
      BY <1>3
    <3> QED
      BY <1>3, <1>4, <2>1, <3>1, <3>2
  <2>3. {q[j] : j \in 1..(m + 1)} = {p[j] : j \in 1..m} \cup {e}
    <3>1. \A j \in 1..(m + 1) : j \in 1..m \/ j = m + 1
      BY <1>1
    <3>2. \A j \in 1..m : j \in 1..(m + 1)
      BY <1>1
    <3>3. m + 1 \in 1..(m + 1)
      BY <1>1
    <3> HIDE DEF m
    <3> QED
      BY <1>5, <3>1, <3>2, <3>3
  <2> QED
    BY <1>1, <2>2, <2>3
<1>8. Increasing(q)
  <2>1. ASSUME NEW i \in 1..(m + 1), NEW j \in 1..(m + 1), i < j PROVE q[i] < q[j]
    <3>1. i \in 1..m
      BY <1>1, <2>1
    <3>2. q[i] = p[i]
      BY <1>5, <3>1
    <3>3. CASE j = m + 1
      <4>1. p[i] \in {l \in MessageEnds(r) : l <= n}
        BY <1>1, <3>1
      <4>2. p[i] <= n /\ p[i] \in Nat
        BY <1>1, <3>1, <4>1
      <4> QED
        BY <1>1, <1>3, <1>5, <3>2, <3>3, <4>2
    <3>4. CASE j # m + 1
      <4>1. j \in 1..m
        BY <1>1, <3>4
      <4> QED
        BY <1>1, <1>5, <2>1, <3>1, <3>2, <4>1 DEF Increasing
    <3> QED
      BY <3>3, <3>4
  <2> QED
    BY <1>5, <2>1 DEF Increasing
<1>9. c = [j \in 1..(m + 1) |-> Segment(r, q[j])]
  <2>1. ASSUME NEW j \in 1..(m + 1) PROVE c[j] = Segment(r, q[j])
    <3>1. j \in 1..m \/ j = m + 1
      <4>1. m \in Nat
        BY <1>1
      <4> HIDE DEF m
      <4> QED
        BY <4>1
    <3> QED
      BY <1>1, <1>3, <1>5, <1>6, <3>1
  <2> QED
    BY <1>6, <2>1
<1>10. e \in 0..Len(r)
  BY <1>1, <1>3
<1>11. Held(r, SubSeq(u, k + 1, Len(u)), c, e, q)
  BY <1>3, <1>5, <1>6, <1>7, <1>8, <1>9, <1>10, <1>1 DEF Held
<1> QED
  BY <1>11 DEF c, q, e, t

\* The bytes that are left, one by one.
LEMMA HeldRest ==
    ASSUME NEW r \in Seq(Byte), NEW u, NEW d, NEW n \in Nat, NEW p, Held(r, u, d, n, p)
    PROVE  /\ n <= Len(r) /\ u \in Seq(Byte) /\ Len(u) = Len(r) - n
           /\ \A j \in 1..(Len(r) - n) : u[j] = r[n + j]
<1>1. /\ n <= Len(r) /\ Len(r) \in Nat /\ u = SubSeq(r, n + 1, Len(r))
  BY DEF Held
<1> DEFINE a == n + 1
           b == Len(r)
<1>2. a \in 1..(Len(r) + 1) /\ b \in (a - 1)..Len(r) /\ (b - a) + 1 = Len(r) - n
  BY <1>1
<1>3. \A j \in 1..(Len(r) - n) : (a + j) - 1 = n + j
  BY <1>1
<1>4. u = SubSeq(r, a, b)
  BY <1>1
<1> HIDE DEF a, b
<1>5. /\ SubSeq(r, a, b) \in Seq(Byte) /\ Len(SubSeq(r, a, b)) = (b - a) + 1
      /\ \A i \in 1..((b - a) + 1) : SubSeq(r, a, b)[i] = r[(a + i) - 1]
  BY <1>1, <1>2, PartFacts
<1>6. /\ u \in Seq(Byte) /\ Len(u) = Len(r) - n
      /\ \A j \in 1..(Len(r) - n) : u[j] = r[(a + j) - 1]
  BY <1>2, <1>4, <1>5
<1> QED
  BY <1>1, <1>3, <1>6

\* A chunk arrives behind what is left.
LEMMA HeldReceived ==
    ASSUME NEW r \in Seq(Byte), NEW u, NEW d, NEW n \in Nat, NEW p, Held(r, u, d, n, p),
           NEW c \in Seq(Byte), NEW w \in Seq(Byte), Len(w) = Len(u) + Len(c),
           \A j \in 1..Len(u) : w[j] = u[j],
           \A j \in 1..Len(c) : w[Len(u) + j] = c[j]
    PROVE  Held(r \o c, w, d, n, p)
<1>1. /\ n <= Len(r) /\ u \in Seq(Byte) /\ Len(u) = Len(r) - n
      /\ \A j \in 1..(Len(r) - n) : u[j] = r[n + j]
  BY HeldRest
<1>2. Len(r) \in Nat /\ Len(c) \in Nat
  OBVIOUS
<1> DEFINE t == r \o c
           a == n + 1
           b == Len(t)
<1>3. /\ t \in Seq(Byte) /\ Len(t) = Len(r) + Len(c)
      /\ \A i \in 1..Len(r) : t[i] = r[i]
      /\ \A j \in 1..Len(c) : t[Len(r) + j] = c[j]
  <2>1. t \in Seq(Byte) /\ Len(t) = Len(r) + Len(c)
    BY ConcatProperties
  <2>2. \A i \in 1..(Len(r) + Len(c)) : t[i] = IF i <= Len(r) THEN r[i] ELSE c[i - Len(r)]
    BY ConcatProperties
  <2>3. ASSUME NEW i \in 1..Len(r) PROVE t[i] = r[i]
    <3>1. i \in 1..(Len(r) + Len(c)) /\ i <= Len(r)
      BY <1>2
    <3> QED
      BY <2>2, <3>1
  <2>4. ASSUME NEW j \in 1..Len(c) PROVE t[Len(r) + j] = c[j]
    <3>1. Len(r) + j \in 1..(Len(r) + Len(c)) /\ ~(Len(r) + j <= Len(r))
          /\ (Len(r) + j) - Len(r) = j
      BY <1>2
    <3> QED
      BY <2>2, <3>1
  <2> QED
    BY <2>1, <2>3, <2>4
<1> HIDE DEF t
<1>4. a \in 1..(Len(t) + 1) /\ b \in (a - 1)..Len(t) /\ (b - a) + 1 = Len(w)
      /\ a \in Nat /\ b \in Int
  BY <1>1, <1>2, <1>3
<1>5. ASSUME NEW j \in 1..Len(w) PROVE t[(a + j) - 1] = w[j]
  <2>1. CASE j \in 1..Len(u)
    <3>1. (a + j) - 1 = n + j /\ n + j \in 1..Len(r) /\ j \in 1..(Len(r) - n)
      BY <1>1, <1>2, <2>1
    <3> QED
      BY <1>1, <1>3, <2>1, <3>1
  <2>2. CASE j \notin 1..Len(u)
    <3> DEFINE i == j - Len(u)
    <3>1. i \in 1..Len(c) /\ (a + j) - 1 = Len(r) + i /\ j = Len(u) + i
      BY <1>1, <1>2, <2>2
    <3> HIDE DEF i
    <3> QED
      BY <1>3, <3>1
  <2> QED
    BY <2>1, <2>2
<1> DEFINE x == SubSeq(t, a, b)
<1>6. SubSeq(t, n + 1, Len(t)) = x
  OBVIOUS
<1> HIDE DEF a, b
<1>7. /\ x \in Seq(Byte) /\ Len(x) = (b - a) + 1
      /\ \A i \in 1..((b - a) + 1) : x[i] = t[(a + i) - 1]
  BY <1>3, <1>4, PartFacts
<1> HIDE DEF x
<1>8. x = w
  <2>1. Len(x) = Len(w)
    BY <1>4, <1>7
  <2>2. \A i \in 1..Len(w) : x[i] = w[i]
    BY <1>4, <1>5, <1>7
  <2> QED
    BY <1>7, <2>1, <2>2, SeqEqual
<1>9. Held(t, SubSeq(t, n + 1, Len(t)), d, n, p)
  <2>1. Len(r) <= Len(t)
    BY <1>2, <1>3
  <2> QED
    BY <1>3, <2>1, HeldMore
<1>10. Held(t, w, d, n, p)
  BY <1>6, <1>8, <1>9
<1> QED
  BY <1>10 DEF t
-------------------------------------------------------------------------------
(* The connection: every byte received, every message handed out *)

HistoryInv ==
    /\ IInv
    /\ received \in Seq(Byte)
    /\ \E n \in Nat, p \in Seq(Nat) : Held(received, Unread, delivered, n, p)

LEMMA InitHistory == HInit => HistoryInv
<1> SUFFICES ASSUME HInit PROVE HistoryInv
  OBVIOUS
<1>1. IInv /\ received = <<>> /\ delivered = <<>> /\ start = 0 /\ end = 0
  BY InitIInv DEF HInit, Init
<1>2. Unread = <<>>
  BY <1>1 DEF Unread
<1> DEFINE e == <<>>
<1>3. e \in Seq(Byte) /\ e \in Seq(Nat) /\ Len(e) = 0 /\ DOMAIN e = {}
  OBVIOUS
<1>4. SubSeq(e, 1, 0) = e
  BY SubSeqEmpty
<1>5. e = [k \in 1..0 |-> Segment(e, e[k])]
  OBVIOUS
<1> HIDE DEF e
<1>6. MessageEnds(e) = {}
  BY <1>3 DEF MessageEnds
<1>7. Increasing(e)
  BY <1>3 DEF Increasing
<1>8. 0 \in 0..0 /\ 0 + 1 = 1 /\ 0 \in Nat
  OBVIOUS
<1>9. {i \in MessageEnds(e) : i <= 0} = {e[j] : j \in 1..Len(e)}
  BY <1>3, <1>6
<1>10. Held(e, e, e, 0, e)
  BY <1>3, <1>4, <1>5, <1>7, <1>8, <1>9 DEF Held
<1> QED
  BY <1>1, <1>2, <1>3, <1>8, <1>10 DEF HistoryInv, e

\* A step that takes no byte off the queue.
LEMMA HistoryStays ==
    ASSUME HistoryInv, IInv', Unread' = Unread, UNCHANGED <<received, delivered>>
    PROVE  HistoryInv'
BY DEF HistoryInv

\* recv() appends to the queue: the bytes stored are the last unread ones.
LEMMA RecvAppends ==
    ASSUME IInv, IInv', NEW chunk \in Chunks, Recv(chunk)
    PROVE  /\ Unread' \in Seq(Byte) /\ Len(Unread') = Len(Unread) + Len(chunk)
           /\ \A j \in 1..Len(Unread) : Unread'[j] = Unread[j]
           /\ \A j \in 1..Len(chunk) : Unread'[Len(Unread) + j] = chunk[j]
<1>1. /\ Len(chunk) \in 1..Free
      /\ start' = start /\ end' = end + Len(chunk) /\ pc = "wait"
      /\ mem' = [c \in Cells |->
                   IF \E i \in 1..Len(chunk) : Cell(end + i - 1) = c
                   THEN chunk[CHOOSE i \in 1..Len(chunk) : Cell(end + i - 1) = c]
                   ELSE mem[c]]
  BY DEF Recv
<1>2. /\ start \in Nat /\ end \in Nat /\ start <= end
      /\ start <= PageSize /\ end - start <= PageSize /\ PageSize \in Nat
  BY <1>1, ReadBufferAssumption DEF IInv, TypeOK, IndexSanity
<1>3. Len(Unread) = end - start
  BY UnreadIsSeq
<1>4. /\ Unread' \in Seq(Byte)
      /\ Len(Unread') = end' - start'
      /\ \A k \in 1..(end' - start') :
           Unread'[k] = mem'[Cell(start' + k - 1)]
  BY NextUnreadIsSeq
<1>5. Len(Unread') = Len(Unread) + Len(chunk)
  BY <1>1, <1>2, <1>3, <1>4
<1>6. \A j \in 1..Len(Unread) : Unread'[j] = Unread[j]
  BY RecvRefines DEF Stream!Receive
<1>7. ASSUME NEW j \in 1..Len(chunk) PROVE Unread'[Len(Unread) + j] = chunk[j]
  <2> DEFINE k == Len(Unread) + j
  <2>1. k \in 1..(end' - start') /\ start' + k - 1 = end + j - 1
    BY <1>1, <1>2, <1>3 DEF Free
  <2> HIDE DEF k
  <2>2. /\ \A i \in 1..Len(chunk) : /\ end + i - 1 \in Nat /\ end + i - 1 < 2 * PageSize
                                    /\ start <= end + i - 1
                                    /\ end + i - 1 < start + PageSize
        /\ \A i \in 1..Len(chunk) : end + i - 1 = end + j - 1 => i = j
        /\ end + j - 1 \in 0..(2 * PageSize - 1)
    BY <1>1, <1>2 DEF Free
  <2>3. Cell(end + j - 1) \in Cells
    BY <2>2, CellType
  <2>4. ASSUME NEW i \in 1..Len(chunk), Cell(end + i - 1) = Cell(end + j - 1) PROVE i = j
    <3>1. end + i - 1 = end + j - 1
      BY <1>2, <2>2, <2>4, CellInjective
    <3> QED
      BY <2>2, <3>1
  <2>5. (CHOOSE i \in 1..Len(chunk) : Cell(end + i - 1) = Cell(end + j - 1)) = j
    BY <2>4
  <2>6. mem'[Cell(end + j - 1)] = chunk[j]
    BY <1>1, <2>3, <2>5
  <2>7. Unread'[k] = chunk[j]
    BY <1>4, <2>1, <2>6
  <2> QED
    BY <2>7 DEF k
<1> QED
  BY <1>4, <1>5, <1>6, <1>7

LEMMA RecvHistory ==
    ASSUME HistoryInv, IInv', HRecv
    PROVE  HistoryInv'
<1>1. IInv /\ received \in Seq(Byte)
  BY DEF HistoryInv
<1>2. PICK n \in Nat, p \in Seq(Nat) : Held(received, Unread, delivered, n, p)
  BY DEF HistoryInv
<1>3. PICK chunk \in Chunks : Recv(chunk) /\ received' = received \o chunk
                              /\ delivered' = delivered
  BY DEF HRecv
<1>4. chunk \in Seq(Byte)
  BY ReadBufferAssumption, SeqDef DEF Chunks
<1>5. /\ Unread' \in Seq(Byte) /\ Len(Unread') = Len(Unread) + Len(chunk)
      /\ \A j \in 1..Len(Unread) : Unread'[j] = Unread[j]
      /\ \A j \in 1..Len(chunk) : Unread'[Len(Unread) + j] = chunk[j]
  BY <1>1, <1>3, RecvAppends
<1>6. Held(received \o chunk, Unread', delivered, n, p)
  BY <1>1, <1>2, <1>4, <1>5, HeldReceived
<1>7. received \o chunk \in Seq(Byte)
  BY <1>1, <1>4, ConcatProperties
<1> QED
  BY <1>2, <1>3, <1>6, <1>7 DEF HistoryInv

\* get_msg() drops a message, ...
LEMMA SkipHistory ==
    ASSUME HistoryInv, IInv', Stream!Skip, UNCHANGED <<received, delivered>>
    PROVE  HistoryInv'
<1>1. IInv /\ received \in Seq(Byte) /\ Unread \in Seq(Byte) /\ Len(Unread) \in Nat
  BY UnreadIsSeq DEF HistoryInv
<1>2. PICK n \in Nat, p \in Seq(Nat) : Held(received, Unread, delivered, n, p)
  BY DEF HistoryInv
<1>3. PICK k \in 1..Len(Unread) :
        /\ Unread[k] = Eol /\ \A j \in 1..(k - 1) : Unread[j] # Eol
        /\ k = 1 \/ \E j \in 1..(k - 1) : Unread[j] = Nul
        /\ Unread' = SubSeq(Unread, k + 1, Len(Unread))
  BY DEF Stream!Skip, Stream!FirstEol, Stream!HasNul, Stream!Cut
<1>4. Held(received, SubSeq(Unread, k + 1, Len(Unread)), delivered, n + k, p)
  BY <1>1, <1>2, <1>3, HeldSkipped
<1>5. n + k \in Nat
  BY <1>1
<1> QED
  BY <1>1, <1>2, <1>3, <1>4, <1>5 DEF HistoryInv

\* ... or hands it out.
LEMMA ReturnHistory ==
    ASSUME HistoryInv, IInv', Stream!Return, received' = received,
           delivered' = Append(delivered, Message')
    PROVE  HistoryInv'
<1>1. IInv /\ received \in Seq(Byte) /\ Unread \in Seq(Byte) /\ Len(Unread) \in Nat
  BY UnreadIsSeq DEF HistoryInv
<1>2. PICK n \in Nat, p \in Seq(Nat) : Held(received, Unread, delivered, n, p)
  BY DEF HistoryInv
<1>3. PICK k \in 2..Len(Unread) :
        /\ Unread[k] = Eol /\ \A j \in 1..(k - 1) : Unread[j] # Eol
        /\ ~\E j \in 1..(k - 1) : Unread[j] = Nul
        /\ Unread' = SubSeq(Unread, k + 1, Len(Unread))
        /\ Message' = SubSeq(Unread, 1, k - 1)
  BY DEF Stream!Return, Stream!FirstEol, Stream!HasNul, Stream!Cut
<1>4. Held(received, SubSeq(Unread, k + 1, Len(Unread)),
           Append(delivered, SubSeq(Unread, 1, k - 1)), n + k, Append(p, n + k))
  BY <1>1, <1>2, <1>3, HeldReturned
<1>5. n + k \in Nat
  BY <1>1
<1>6. Append(p, n + k) \in Seq(Nat)
  BY <1>5, AppendProperties
<1> QED
  BY <1>1, <1>3, <1>4, <1>5, <1>6 DEF HistoryInv

LEMMA NextHistory == HistoryInv /\ [HNext]_hvars => HistoryInv'
<1> SUFFICES ASSUME HistoryInv, [HNext]_hvars
             PROVE  HistoryInv'
  OBVIOUS
<1>1. [Next]_vars
  BY DEF HNext, HRecv, HGetMsg, hvars, Next, Get
<1>2. IInv /\ IInv'
  BY <1>1, NextIInv DEF HistoryInv
<1>3. CASE HRecv
  BY <1>2, <1>3, RecvHistory
<1>4. CASE HGetMsg
  <2>1. Stream!Return
    BY <1>2, <1>4, GetMsgRefines DEF HGetMsg
  <2> QED
    BY <1>2, <1>4, <2>1, ReturnHistory DEF HGetMsg
<1>5. ASSUME RecvFull \/ RecvClosed, UNCHANGED <<received, delivered>>
      PROVE  HistoryInv'
  <2>1. Stream!Overflow \/ Stream!Closed
    BY <1>2, <1>5, RecvEndsRefine
  <2>2. Unread' = Unread
    BY <2>1 DEF Stream!Overflow, Stream!Closed
  <2> QED
    BY <1>2, <1>5, <2>2, HistoryStays
<1>6. ASSUME GetNothing \/ GetRejected \/ GetInvalid, UNCHANGED <<received, delivered>>
      PROVE  HistoryInv'
  <2>1. Stream!Exhausted \/ Stream!Reject \/ Stream!Skip
    BY <1>2, <1>6, GetNoneRefines
  <2>2. CASE Stream!Skip
    BY <1>2, <1>6, <2>2, SkipHistory
  <2>3. CASE Stream!Exhausted \/ Stream!Reject
    <3>1. Unread' = Unread
      BY <2>3 DEF Stream!Exhausted, Stream!Reject
    <3> QED
      BY <1>2, <1>6, <3>1, HistoryStays
  <2> QED
    BY <2>1, <2>2, <2>3
<1>7. ASSUME Handle, UNCHANGED <<received, delivered>>
      PROVE  HistoryInv'
  <2>1. Stream!Handled
    BY <1>2, <1>7, HandleRefines DEF Handle
  <2>2. Unread' = Unread
    BY <2>1 DEF Stream!Handled
  <2> QED
    BY <1>2, <1>7, <2>2, HistoryStays
<1>8. CASE UNCHANGED hvars
  <2>1. Unread' = Unread /\ UNCHANGED <<received, delivered>>
    BY <1>8 DEF hvars, vars, Unread, Cell
  <2> QED
    BY <1>2, <2>1, HistoryStays
<1> QED
  BY <1>3, <1>4, <1>5, <1>6, <1>7, <1>8 DEF HNext

\* What the handlers got is how the messages of the stream begin; before the
\* bot sleeps no terminator is left, so that it is all of them.
LEMMA HistoryDelivers == HistoryInv => DeliveredAreTheMessages
<1> SUFFICES ASSUME HistoryInv
             PROVE  DeliveredAreTheMessages
  OBVIOUS
<1>1. PICK n \in Nat, p \in Seq(Nat) : Held(received, Unread, delivered, n, p)
  BY DEF HistoryInv
<1>2. IsPrefix(delivered, MessagesOf(received))
  BY <1>1, HeldIsPrefix
<1>3. ASSUME pc = "wait" PROVE delivered = MessagesOf(received)
  <2>1. /\ start \in Nat /\ end \in Nat /\ start <= end
        /\ \A i \in start..(end - 1) : mem[Cell(i)] # Eol
    BY <1>3 DEF HistoryInv, IInv, TypeOK, IndexSanity, NoStrandedMessage
  <2>2. /\ Len(Unread) = end - start
        /\ \A k \in 1..(end - start) : Unread[k] = mem[Cell(start + k - 1)]
    BY UnreadIsSeq DEF HistoryInv
  <2>3. ASSUME NEW k \in 1..Len(Unread) PROVE Unread[k] # Eol
    <3>1. start + k - 1 \in start..(end - 1) /\ k \in 1..(end - start)
      BY <2>1, <2>2
    <3> QED
      BY <2>1, <2>2, <3>1
  <2> QED
    BY <1>1, <2>3, HeldIsAll
<1> QED
  BY <1>2, <1>3 DEF DeliveredAreTheMessages

\* However TCP chops the stream, and for every page size: the handlers get, in
\* order, the messages of the bytes received and only those; when the bot
\* sleeps, all those that are complete.
THEOREM MessagesAreDelivered == HSpec => []DeliveredAreTheMessages
<1>1. HSpec => []HistoryInv
  BY InitHistory, NextHistory, PTL DEF HSpec
<1> QED
  BY <1>1, HistoryDelivers, PTL
===============================================================================
