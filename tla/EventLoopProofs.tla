---------------------------- MODULE EventLoopProofs ----------------------------
(***************************************************************************)
(* For every number of reminders, every length of a day, every capacity    *)
(* and every amount by which the clock is set back: the timer is never     *)
(* lost and never finds the list empty.  Then what is in the list: every   *)
(* accepted reminder once, the events of the 1337 monitor for one day, and *)
(* what a notification removes.  From this the loop implements Agenda.     *)
(***************************************************************************)
EXTENDS EventLoop, SequenceTheorems, FiniteSetTheorems, TLAPS

-------------------------------------------------------------------------------
(* What the operators of TimeEvent do to a list that is in order, whatever *)
(* the handlers are.                                                       *)

\* The timer was set for the first event of the list.
ForHead(q) ==
    q.list # <<>> => q.deadline = Head(q.list).when /\ q.timer # "off"

\* A set of places that has every place before one of its own is an initial
\* part of 1, 2, ...
LEMMA InitialPart ==
    ASSUME NEW n \in Nat, NEW T \in SUBSET (1..n),
           \A i \in T : \A j \in 1..i : j \in T
    PROVE  \E k \in 0..n : T = 1..k
<1> DEFINE k == Cardinality(T)
<1>1. IsFiniteSet(1..n) /\ Cardinality(1..n) = n
  BY FS_Interval
<1>2. IsFiniteSet(T) /\ k <= n
  <2>1. IsFiniteSet(T) /\ Cardinality(T) <= Cardinality(1..n)
    BY <1>1, FS_Subset, Zenon
  <2>2. QED
    BY <1>1, <2>1
<1>3. k \in 0..n
  BY <1>2, FS_CardinalityType
<1> HIDE DEF k
<1>4. IsFiniteSet(1..k) /\ Cardinality(1..k) = k
  BY <1>3, FS_Interval
<1>5. ASSUME NEW i \in T
      PROVE  i <= k
  <2>1. 1..i \in SUBSET T /\ i \in Nat
    OBVIOUS
  <2>2. Cardinality(1..i) = i
    <3>1. Cardinality(1..i) = IF 1 > i THEN 0 ELSE i - 1 + 1
      BY <2>1, FS_Interval
    <3>2. QED
      BY <2>1, <3>1
  <2>3. Cardinality(1..i) <= Cardinality(T)
    BY <1>2, <2>1, FS_Subset
  <2>4. QED
    BY <2>2, <2>3 DEF k
<1>6. T \in SUBSET (1..k)
  BY <1>3, <1>5
<1>7. 1..k = T
  BY <1>4, <1>6, FS_Subset DEF k
<1>8. QED
  BY <1>3, <1>7

\* The times of a list.
LEMMA TimesOfList ==
    ASSUME NEW H, NEW l \in Seq(TimeEvents(H))
    PROVE  /\ Len(l) \in Nat /\ DOMAIN l = 1..Len(l)
           /\ \A i \in 1..Len(l) : l[i] \in TimeEvents(H) /\ l[i].when \in Nat
<1>1. Len(l) \in Nat /\ DOMAIN l = 1..Len(l)
  BY LenProperties
<1>2. \A i \in 1..Len(l) : l[i] \in TimeEvents(H)
  BY ElementOfSeq
<1>3. QED
  BY <1>1, <1>2 DEF TimeEvents

\* The search of add_time_event() ends, at the place it is meant to find.
LEMMA InsertionPointFound ==
    ASSUME NEW H, NEW l \in Seq(TimeEvents(H)), NEW w \in Nat, InOrder(l)
    PROVE  LET p == InsertionPoint(l, w)
           IN  /\ p \in 1..(Len(l) + 1)
               /\ \A i \in 1..(p - 1) : l[i].when <= w
               /\ p <= Len(l) => l[p].when > w
<1> DEFINE Before == {i \in 1..Len(l) : l[i].when <= w}
           Found(p) == /\ \A i \in 1..(p - 1) : l[i].when <= w
                       /\ p <= Len(l) => l[p].when > w
<1>1. /\ Len(l) \in Nat /\ DOMAIN l = 1..Len(l)
      /\ \A i \in 1..Len(l) : l[i].when \in Nat
  BY TimesOfList
<1>2. \E p \in 1..(Len(l) + 1) : Found(p)
  <2>1. ASSUME NEW i \in Before, NEW j \in 1..i
        PROVE  j \in Before
    <3>1. i \in 1..Len(l) /\ j \in 1..Len(l) /\ l[i].when <= w
      BY <1>1
    <3>2. l[j].when <= l[i].when
      <4>1. CASE j = i
        BY <1>1, <3>1, <4>1
      <4>2. CASE j < i
        BY <1>1, <3>1, <4>2 DEF InOrder
      <4>3. QED
        BY <3>1, <4>1, <4>2
    <3>3. l[i].when \in Nat /\ l[j].when \in Nat
      BY <1>1, <3>1
    <3>4. QED
      BY <3>1, <3>2, <3>3
  <2>2. Before \in SUBSET (1..Len(l))
    OBVIOUS
  <2>3. PICK k \in 0..Len(l) : Before = 1..k
    <3> HIDE DEF Before
    <3>1. QED
      BY <1>1, <2>1, <2>2, InitialPart
  <2>4. k + 1 \in 1..(Len(l) + 1) /\ k + 1 - 1 = k
    BY <1>1
  <2>5. \A i \in 1..k : l[i].when <= w
    BY <2>3
  <2>6. k + 1 <= Len(l) => l[k + 1].when > w
    <3>1. k + 1 \notin Before
      BY <2>3
    <3>2. QED
      BY <1>1, <2>4, <3>1
  <2>7. QED
    BY <2>4, <2>5, <2>6
<1>3. InsertionPoint(l, w) = CHOOSE p \in 1..(Len(l) + 1) : Found(p)
  BY DEF InsertionPoint
<1> HIDE DEF Found
<1>4. /\ InsertionPoint(l, w) \in 1..(Len(l) + 1)
      /\ Found(InsertionPoint(l, w))
  BY <1>2, <1>3
<1>5. QED
  BY <1>4 DEF Found

\* InsertAt(), element by element.
LEMMA InsertAtProps ==
    ASSUME NEW S, NEW s \in Seq(S), NEW p \in 1..(Len(s) + 1), NEW e \in S
    PROVE  /\ InsertAt(s, p, e) \in Seq(S)
           /\ Len(InsertAt(s, p, e)) = Len(s) + 1
           /\ \A i \in 1..(Len(s) + 1) :
                InsertAt(s, p, e)[i] =
                  IF i < p THEN s[i] ELSE IF i = p THEN e ELSE s[i - 1]
<1> DEFINE front == SubSeq(s, 1, p - 1)
           back == SubSeq(s, p, Len(s))
           mid == <<e>>
<1>1. Len(s) \in Nat /\ p \in Nat /\ 1 <= p /\ p <= Len(s) + 1
  BY LenProperties
<1>2. /\ front \in Seq(S) /\ Len(front) = p - 1
      /\ \A i \in 1..(p - 1) : front[i] = s[i]
  <2>1. \A i \in 1..(p - 1) : s[i] \in S
    BY <1>1, ElementOfSeq
  <2>2. /\ front \in Seq(S)
        /\ Len(front) = IF 1 <= p - 1 THEN p - 1 - 1 + 1 ELSE 0
        /\ \A i \in 1..(p - 1 - 1 + 1) : front[i] = s[1 + i - 1]
    BY <1>1, <2>1, SubSeqProperties
  <2> HIDE DEF front
  <2>3. Len(front) = p - 1
    BY <1>1, <2>2
  <2>4. ASSUME NEW i \in 1..(p - 1)
        PROVE  front[i] = s[i]
    <3>1. i \in 1..(p - 1 - 1 + 1) /\ 1 + i - 1 = i
      BY <1>1
    <3>2. QED
      BY <2>2, <3>1
  <2>5. QED
    BY <2>2, <2>3, <2>4
<1>3. /\ back \in Seq(S) /\ Len(back) = Len(s) - p + 1
      /\ \A i \in 1..(Len(s) - p + 1) : back[i] = s[p + i - 1]
  <2>1. \A i \in p..Len(s) : s[i] \in S
    BY <1>1, ElementOfSeq
  <2>2. /\ back \in Seq(S)
        /\ Len(back) = IF p <= Len(s) THEN Len(s) - p + 1 ELSE 0
        /\ \A i \in 1..(Len(s) - p + 1) : back[i] = s[p + i - 1]
    BY <1>1, <2>1, SubSeqProperties
  <2> HIDE DEF back
  <2>3. QED
    BY <1>1, <2>2
<1>4. mid \in Seq(S) /\ Len(mid) = 1 /\ mid[1] = e
  OBVIOUS
<1> DEFINE start == front \o mid
<1> HIDE DEF front, back, mid
<1>5. /\ start \in Seq(S) /\ Len(start) = p
      /\ \A i \in 1..p : start[i] = IF i < p THEN s[i] ELSE e
  <2>1. /\ start \in Seq(S) /\ Len(start) = Len(front) + Len(mid)
        /\ \A i \in 1..(Len(front) + Len(mid)) :
             start[i] = IF i <= Len(front) THEN front[i] ELSE mid[i - Len(front)]
    BY <1>2, <1>4, ConcatProperties
  <2> HIDE DEF start
  <2>2. QED
    BY <1>1, <1>2, <1>4, <2>1
<1> HIDE DEF start
<1>6. /\ start \o back \in Seq(S)
      /\ Len(start \o back) = Len(start) + Len(back)
      /\ \A i \in 1..(Len(start) + Len(back)) :
           (start \o back)[i] = IF i <= Len(start) THEN start[i]
                                ELSE back[i - Len(start)]
  BY <1>3, <1>5, ConcatProperties
<1>7. InsertAt(s, p, e) = start \o back
  BY DEF InsertAt, start, front, mid, back
<1>8. ASSUME NEW i \in 1..(Len(s) + 1)
      PROVE  (start \o back)[i] =
                IF i < p THEN s[i] ELSE IF i = p THEN e ELSE s[i - 1]
  <2>1. CASE i <= p
    <3>1. i \in 1..p /\ i \in 1..(Len(start) + Len(back)) /\ i <= Len(start)
      BY <1>1, <1>3, <1>5, <2>1
    <3>2. (start \o back)[i] = start[i]
      BY <1>6, <3>1
    <3>3. QED
      BY <1>1, <1>5, <2>1, <3>1, <3>2
  <2>2. CASE i > p
    <3>1. i - p \in 1..(Len(s) - p + 1) /\ p + (i - p) - 1 = i - 1
      BY <1>1, <2>2
    <3>2. (start \o back)[i] = back[i - p]
      BY <1>1, <1>3, <1>5, <1>6, <2>2
    <3>3. QED
      BY <1>1, <1>3, <2>2, <3>1, <3>2
  <2>3. i <= p \/ i > p
    BY <1>1
  <2>4. QED
    BY <2>1, <2>2, <2>3
<1>9. QED
  BY <1>1, <1>3, <1>5, <1>6, <1>7, <1>8

\* ArmTimer(), field by field.
LEMMA ArmTimerFields ==
    ASSUME NEW l, NEW t, NEW d
    PROVE  ArmTimer([list |-> l, timer |-> t, deadline |-> d]) =
               [list |-> l, timer |-> "set", deadline |-> Head(l).when]
<1> DEFINE q == [list |-> l, timer |-> t, deadline |-> d]
           set == [list |-> l, timer |-> "set", deadline |-> d]
<1>1. q.list = l
  OBVIOUS
<1>2. [q EXCEPT !.timer = "set"] = set
  OBVIOUS
<1>3. [set EXCEPT !.deadline = Head(l).when] =
          [list |-> l, timer |-> "set", deadline |-> Head(l).when]
  OBVIOUS
<1>4. ArmTimer(q) =
          [[q EXCEPT !.timer = "set"] EXCEPT !.deadline = Head(q.list).when]
  BY DEF ArmTimer
<1> HIDE DEF q, set
<1>5. ArmTimer(q) =
          [list |-> l, timer |-> "set", deadline |-> Head(l).when]
  BY <1>1, <1>2, <1>3, <1>4
<1>6. QED
  BY <1>5 DEF q

\* add_time_event() keeps the list in order and the timer set for its head,
\* and touches the timer only for a new head.
LEMMA AddTimeEventProps ==
    ASSUME NEW H, NEW q \in TimeEventStates(H), NEW w \in Nat, NEW h \in H,
           InOrder(q.list)
    PROVE  LET r == AddTimeEvent(q, w, h)
           IN  /\ r \in TimeEventStates(H)
               /\ InOrder(r.list)
               /\ ForHead(q) => ForHead(r)
               /\ Len(r.list) = Len(q.list) + 1
               /\ q.list # <<>> => Head(r.list).when <= Head(q.list).when
               /\ \/ r.timer = "set"
                  \/ q.list # <<>> /\ r.timer = q.timer
<1> DEFINE l == q.list
           p == InsertionPoint(l, w)
           e == [when |-> w, handler |-> h]
           t == InsertAt(l, p, e)
           r == AddTimeEvent(q, w, h)
<1>1. /\ q = [list |-> q.list, timer |-> q.timer, deadline |-> q.deadline]
      /\ l \in Seq(TimeEvents(H)) /\ q.timer \in TimerStates
      /\ InOrder(l)
      /\ q.deadline \in Nat
  BY DEF TimeEventStates
<1>2. /\ Len(l) \in Nat /\ DOMAIN l = 1..Len(l)
      /\ \A i \in 1..Len(l) : l[i] \in TimeEvents(H) /\ l[i].when \in Nat
  BY <1>1, TimesOfList
<1>3. e \in TimeEvents(H) /\ e.when = w
  BY DEF TimeEvents
<1>4. /\ p \in 1..(Len(l) + 1)
      /\ \A i \in 1..(p - 1) : l[i].when <= w
      /\ p <= Len(l) => l[p].when > w
  BY <1>1, InsertionPointFound
<1> HIDE DEF l, p, e
<1>5. /\ t \in Seq(TimeEvents(H)) /\ Len(t) = Len(l) + 1
      /\ \A i \in 1..(Len(l) + 1) :
           t[i] = IF i < p THEN l[i] ELSE IF i = p THEN e ELSE l[i - 1]
  <2> DEFINE S == TimeEvents(H)
  <2>1. l \in Seq(S) /\ e \in S
    BY <1>1, <1>3
  <2> HIDE DEF S
  <2>2. /\ InsertAt(l, p, e) \in Seq(S)
        /\ Len(InsertAt(l, p, e)) = Len(l) + 1
        /\ \A i \in 1..(Len(l) + 1) :
             InsertAt(l, p, e)[i] =
                IF i < p THEN l[i] ELSE IF i = p THEN e ELSE l[i - 1]
    <3>1. p \in 1..(Len(l) + 1)
      BY <1>4
    <3> HIDE DEF t, r
    <3>2. InsertAt(l, p, e) \in Seq(S)
      BY <2>1, <3>1, InsertAtProps
    <3>3. Len(InsertAt(l, p, e)) = Len(l) + 1
      BY <2>1, <3>1, InsertAtProps
    <3>4. ASSUME NEW i \in 1..(Len(l) + 1)
          PROVE  InsertAt(l, p, e)[i] =
                   IF i < p THEN l[i] ELSE IF i = p THEN e ELSE l[i - 1]
      BY <2>1, <3>1, InsertAtProps
    <3>5. QED
      BY <3>2, <3>3, <3>4
  <2>3. QED
    BY <2>2 DEF S
<1>6. r = IF p = 1
          THEN [list |-> t, timer |-> "set", deadline |-> Head(t).when]
          ELSE [list |-> t, timer |-> q.timer, deadline |-> q.deadline]
  <2>1. [q EXCEPT !.list = t] =
            [list |-> t, timer |-> q.timer, deadline |-> q.deadline]
    BY <1>1
  <2>2. ArmTimer([list |-> t, timer |-> q.timer, deadline |-> q.deadline]) =
            [list |-> t, timer |-> "set", deadline |-> Head(t).when]
    BY ArmTimerFields
  <2>3. r = IF p = 1 THEN ArmTimer([q EXCEPT !.list = t])
            ELSE [q EXCEPT !.list = t]
    BY DEF AddTimeEvent, l, p, e
  <2>4. QED
    BY <2>1, <2>2, <2>3
<1> HIDE DEF t, r
<1>7. /\ t # <<>> /\ Head(t) = t[1]
      /\ t[1] \in TimeEvents(H) /\ t[1].when \in Nat
  <2>1. t # <<>> /\ 1 \in 1..Len(t)
    BY <1>2, <1>5
  <2>2. t[1] \in TimeEvents(H) /\ t[1].when \in Nat
    BY <1>5, <2>1, TimesOfList
  <2>3. Head(t) = t[1]
    BY <1>5
  <2>4. QED
    BY <2>1, <2>2, <2>3
<1>8. /\ r.list = t
      /\ p = 1 => r.timer = "set" /\ r.deadline = t[1].when
      /\ p # 1 => r.timer = q.timer /\ r.deadline = q.deadline
  BY <1>6, <1>7
<1>9. r \in TimeEventStates(H)
  BY <1>1, <1>5, <1>6, <1>7 DEF TimeEventStates, TimerStates
<1>10. InOrder(r.list)
  <2>1. \A i \in 1..(Len(l) + 1) : i < p => t[i] = l[i] /\ t[i].when <= w
    BY <1>2, <1>4, <1>5
  <2>2. t[p].when = w
    BY <1>3, <1>4, <1>5
  <2>3. \A i \in 1..(Len(l) + 1) :
            i > p => t[i] = l[i - 1] /\ i - 1 \in p..Len(l)
                    /\ i - 1 \in 1..Len(l)
    BY <1>2, <1>4, <1>5
  <2>4. \A i \in p..Len(l) : l[i].when >= w
    BY <1>1, <1>2, <1>4 DEF InOrder
  <2>5. ASSUME NEW i \in 1..(Len(l) + 1), NEW j \in 1..(Len(l) + 1), i < j
        PROVE  t[i].when <= t[j].when
    <3>1. CASE j < p
      <4>1. /\ i < p /\ t[i] = l[i] /\ t[j] = l[j]
            /\ i \in 1..Len(l) /\ j \in 1..Len(l)
        BY <1>2, <1>4, <2>1, <2>5, <3>1
      <4>2. QED
        BY <1>1, <1>2, <2>5, <4>1 DEF InOrder
    <3>2. CASE j = p
      BY <2>1, <2>2, <2>5, <3>2
    <3>3. CASE j > p
      <4>1. t[j] = l[j - 1] /\ j - 1 \in p..Len(l) /\ j - 1 \in 1..Len(l)
        BY <2>3, <3>3
      <4>2. l[j - 1].when >= w /\ l[j - 1].when \in Nat
        BY <1>2, <2>4, <4>1
      <4>3. CASE i < p
        <5>1. t[i].when <= w /\ t[i].when \in Nat
          BY <1>2, <1>4, <2>1, <4>3
        <5>2. QED
          BY <4>1, <4>2, <5>1
      <4>4. CASE i = p
        BY <2>2, <4>1, <4>2, <4>4
      <4>5. CASE i > p
        <5>1. t[i] = l[i - 1] /\ i - 1 \in 1..Len(l) /\ i - 1 < j - 1
          BY <1>2, <1>4, <2>3, <2>5, <4>1, <4>5
        <5>2. QED
          BY <1>1, <1>2, <4>1, <5>1 DEF InOrder
      <4>6. QED
        BY <1>4, <4>3, <4>4, <4>5
    <3>4. QED
      BY <1>4, <3>1, <3>2, <3>3
  <2>6. DOMAIN r.list = 1..(Len(l) + 1)
    BY <1>5, <1>8, LenProperties
  <2>7. QED
    BY <1>8, <2>5, <2>6 DEF InOrder
<1>11. p # 1 => l # <<>> /\ t[1] = l[1]
  BY <1>2, <1>4, <1>5
<1>12. l # <<>> => Head(l) = l[1] /\ 1 \in 1..Len(l)
  BY <1>1, <1>2
<1>13. ASSUME ForHead(q)
       PROVE  ForHead(r)
  <2>1. r.deadline = Head(r.list).when /\ r.timer # "off"
    BY <1>7, <1>8, <1>11, <1>12, <1>13 DEF ForHead, l
  <2>2. QED
    BY <2>1 DEF ForHead
<1>14. l # <<>> => t[1].when <= l[1].when
  <2>1. CASE p = 1
    BY <1>2, <1>3, <1>4, <1>5, <1>12, <2>1
  <2>2. CASE p # 1
    BY <1>2, <1>11, <1>12, <2>2
  <2>3. QED
    BY <2>1, <2>2
<1>15. /\ Len(r.list) = Len(l) + 1
       /\ l # <<>> => Head(r.list).when <= Head(l).when
       /\ r.timer = "set" \/ (l # <<>> /\ r.timer = q.timer)
  BY <1>5, <1>7, <1>8, <1>11, <1>12, <1>14
<1>16. QED
  BY <1>9, <1>10, <1>13, <1>15 DEF l, r

\* The removal keeps the list in order and leaves the timer alone only when the
\* list becomes empty.
LEMMA RemoveStartProps ==
    ASSUME NEW H, NEW q \in TimeEventStates(H), InOrder(q.list), q.list # <<>>
    PROVE  LET r == RemoveStart(q)
           IN  /\ r \in TimeEventStates(H)
               /\ r.list = Tail(q.list)
               /\ Len(r.list) = Len(q.list) - 1
               /\ InOrder(r.list)
               /\ ForHead(r)
               /\ r.list # <<>> => r.timer = "set"
               /\ r.list = <<>> => r.timer = q.timer
<1> DEFINE t == Tail(q.list)
           r == RemoveStart(q)
<1>1. /\ q = [list |-> q.list, timer |-> q.timer, deadline |-> q.deadline]
      /\ q.list \in Seq(TimeEvents(H)) /\ q.timer \in TimerStates
      /\ q.deadline \in Nat
  BY DEF TimeEventStates
<1>2. /\ t \in Seq(TimeEvents(H)) /\ Len(t) = Len(q.list) - 1
      /\ \A i \in 1..Len(t) : t[i] = q.list[i + 1]
  BY <1>1, HeadTailProperties
<1>3. r = IF t # <<>>
          THEN [list |-> t, timer |-> "set", deadline |-> Head(t).when]
          ELSE [list |-> t, timer |-> q.timer, deadline |-> q.deadline]
  <2>1. [q EXCEPT !.list = t] =
            [list |-> t, timer |-> q.timer, deadline |-> q.deadline]
    BY <1>1, SMTT(30)
  <2>2. ArmTimer([list |-> t, timer |-> q.timer, deadline |-> q.deadline]) =
            [list |-> t, timer |-> "set", deadline |-> Head(t).when]
    BY ArmTimerFields
  <2>3. r = LET rest == [q EXCEPT !.list = t]
            IN  IF rest.list # <<>> THEN ArmTimer(rest) ELSE rest
    BY DEF RemoveStart
  <2>4. QED
    BY <2>1, <2>2, <2>3
<1> HIDE DEF t, r
<1>4. /\ r.list = t
      /\ t # <<>> => r.timer = "set" /\ r.deadline = Head(t).when
      /\ t = <<>> => r.timer = q.timer /\ r.deadline = q.deadline
  BY <1>3
<1>5. t # <<>> => Head(t).when \in Nat
  <2>1. t # <<>> => Head(t) \in TimeEvents(H)
    BY <1>2, HeadTailProperties
  <2>2. QED
    BY <2>1 DEF TimeEvents
<1>6. r \in TimeEventStates(H)
  BY <1>1, <1>2, <1>3, <1>5 DEF TimeEventStates, TimerStates
<1>7. InOrder(t)
  <2>1. /\ Len(q.list) \in Nat /\ DOMAIN q.list = 1..Len(q.list)
        /\ DOMAIN t = 1..Len(t)
    BY <1>1, <1>2, LenProperties
  <2>2. ASSUME NEW i \in 1..Len(t), NEW j \in 1..Len(t), i < j
        PROVE  t[i].when <= t[j].when
    <3>1. t[i] = q.list[i + 1] /\ t[j] = q.list[j + 1]
      BY <1>2
    <3>2. /\ i + 1 \in DOMAIN q.list /\ j + 1 \in DOMAIN q.list
          /\ i + 1 < j + 1
      <4>1. Len(t) = Len(q.list) - 1
        BY <1>2
      <4>2. QED
        BY <2>1, <2>2, <4>1
    <3>3. q.list[i + 1].when <= q.list[j + 1].when
      BY <3>2 DEF InOrder
    <3>4. QED
      BY <3>1, <3>3
  <2>3. QED
    BY <2>1, <2>2 DEF InOrder
<1>8. QED
  BY <1>2, <1>4, <1>6, <1>7 DEF ForHead, r, t

-------------------------------------------------------------------------------
(* What is in the list *)

\* At most one event calls h.
AtMostOne(l, h) ==
    \A i, j \in DOMAIN l : l[i].handler = h /\ l[j].handler = h => i = j

\* r is l with e put before the first later event.
Inserted(l, r, e) ==
    \E p \in 1..(Len(l) + 1) :
        /\ \A i \in 1..(p - 1) : l[i].when <= e.when
        /\ p <= Len(l) => l[p].when > e.when
        /\ Len(r) = Len(l) + 1
        /\ \A i \in 1..(Len(l) + 1) :
             r[i] = IF i < p THEN l[i] ELSE IF i = p THEN e ELSE l[i - 1]

\* The list after add_time_event().
LEMMA AddedList ==
    ASSUME NEW H, NEW q \in TimeEventStates(H), NEW w \in Nat, NEW h \in H,
           InOrder(q.list)
    PROVE  /\ AddTimeEvent(q, w, h).list \in Seq(TimeEvents(H))
           /\ Inserted(q.list, AddTimeEvent(q, w, h).list,
                       [when |-> w, handler |-> h])
<1> DEFINE S == TimeEvents(H)
           l == q.list
           p == InsertionPoint(l, w)
           e == [when |-> w, handler |-> h]
<1>1. l \in Seq(S) /\ e \in S /\ InOrder(l)
  BY DEF TimeEventStates, TimeEvents
<1>2. /\ p \in 1..(Len(l) + 1)
      /\ \A i \in 1..(p - 1) : l[i].when <= w
      /\ p <= Len(l) => l[p].when > w
  BY <1>1, InsertionPointFound
<1>3. AddTimeEvent(q, w, h).list = InsertAt(l, p, e)
  <2> DEFINE t == InsertAt(l, p, e)
  <2>1. q = [list |-> q.list, timer |-> q.timer, deadline |-> q.deadline]
    BY DEF TimeEventStates
  <2>2. AddTimeEvent(q, w, h) =
            IF p = 1 THEN ArmTimer([q EXCEPT !.list = t])
            ELSE [q EXCEPT !.list = t]
    BY DEF AddTimeEvent
  <2> HIDE DEF t, p
  <2>3. [q EXCEPT !.list = t] =
            [list |-> t, timer |-> q.timer, deadline |-> q.deadline]
    BY <2>1
  <2>4. ArmTimer([list |-> t, timer |-> q.timer, deadline |-> q.deadline]) =
            [list |-> t, timer |-> "set", deadline |-> Head(t).when]
    BY ArmTimerFields
  <2>5. QED
    BY <2>2, <2>3, <2>4 DEF t
<1> HIDE DEF l, p, e, S
<1>4. /\ InsertAt(l, p, e) \in Seq(S)
      /\ Len(InsertAt(l, p, e)) = Len(l) + 1
      /\ \A i \in 1..(Len(l) + 1) :
           InsertAt(l, p, e)[i] =
              IF i < p THEN l[i] ELSE IF i = p THEN e ELSE l[i - 1]
  <2>1. l \in Seq(S) /\ e \in S /\ p \in 1..(Len(l) + 1)
    BY <1>1, <1>2
  <2>2. InsertAt(l, p, e) \in Seq(S)
    BY <2>1, InsertAtProps
  <2>3. Len(InsertAt(l, p, e)) = Len(l) + 1
    BY <2>1, InsertAtProps
  <2>4. ASSUME NEW i \in 1..(Len(l) + 1)
        PROVE  InsertAt(l, p, e)[i] =
                 IF i < p THEN l[i] ELSE IF i = p THEN e ELSE l[i - 1]
    BY <2>1, InsertAtProps
  <2> QED
    BY <2>2, <2>3, <2>4
<1>5. e.when = w
  BY DEF e
<1>6. Inserted(l, InsertAt(l, p, e), e)
  BY <1>2, <1>4, <1>5 DEF Inserted
<1>7. QED
  BY <1>3, <1>4, <1>6 DEF l, e, S

\* add_time_event() adds one event to those of the list, and it becomes the
\* first only if it is earlier.
LEMMA AddedEvents ==
    ASSUME NEW H, NEW q \in TimeEventStates(H), NEW w \in Nat, NEW h \in H,
           InOrder(q.list)
    PROVE  LET l == q.list
               r == AddTimeEvent(q, w, h).list
               e == [when |-> w, handler |-> h]
           IN  /\ Range(r) = Range(l) \cup {e}
               /\ r # <<>>
               /\ Head(r) = IF l = <<>> \/ w < Head(l).when THEN e ELSE Head(l)
               /\ \A k \in H : k # h /\ AtMostOne(l, k) => AtMostOne(r, k)
               /\ (\A f \in Range(l) : f.handler # h) => AtMostOne(r, h)
<1> DEFINE l == q.list
           r == AddTimeEvent(q, w, h).list
           e == [when |-> w, handler |-> h]
<1>1. Inserted(l, r, e) /\ r \in Seq(TimeEvents(H))
  BY AddedList
<1>3. l \in Seq(TimeEvents(H)) /\ e.handler = h /\ e.when = w
  BY DEF TimeEventStates
<1> HIDE DEF l, r, e
<1>2. PICK p \in 1..(Len(l) + 1) :
        /\ \A i \in 1..(p - 1) : l[i].when <= w
        /\ p <= Len(l) => l[p].when > w
        /\ Len(r) = Len(l) + 1
        /\ \A i \in 1..(Len(l) + 1) :
             r[i] = IF i < p THEN l[i] ELSE IF i = p THEN e ELSE l[i - 1]
  BY <1>1, <1>3 DEF Inserted
<1>4. /\ Len(l) \in Nat /\ DOMAIN l = 1..Len(l)
      /\ DOMAIN r = 1..(Len(l) + 1)
      /\ \A i \in 1..Len(l) : l[i].when \in Nat
  BY <1>1, <1>2, <1>3, TimesOfList
\* Where the elements of the one are in the other.
<1>5. ASSUME NEW i \in 1..Len(l)
      PROVE  \E j \in 1..(Len(l) + 1) : r[j] = l[i]
  <2>1. CASE i < p
    BY <1>2, <1>4, <2>1
  <2>2. CASE i >= p
    <3>1. i + 1 \in 1..(Len(l) + 1) /\ r[i + 1] = l[i]
      BY <1>2, <1>4, <2>2
    <3>2. QED
      BY <3>1
  <2>3. QED
    BY <1>4, <2>1, <2>2, SMTT(30)
<1>6. ASSUME NEW i \in 1..(Len(l) + 1)
      PROVE  \/ i = p /\ r[i] = e
             \/ i < p /\ i \in 1..Len(l) /\ r[i] = l[i]
             \/ i > p /\ i - 1 \in 1..Len(l) /\ r[i] = l[i - 1]
  BY <1>2, <1>4
<1>7. Range(r) = Range(l) \cup {e}
  <2>1. ASSUME NEW x \in Range(r)
        PROVE  x \in Range(l) \cup {e}
    BY <1>4, <1>6 DEF Range
  <2>2. ASSUME NEW x \in Range(l)
        PROVE  x \in Range(r)
    BY <1>4, <1>5 DEF Range
  <2>3. e \in Range(r)
    BY <1>2, <1>4 DEF Range
  <2>4. QED
    BY <2>1, <2>2, <2>3
<1>8. r # <<>> /\ Head(r) = r[1] /\ 1 \in 1..(Len(l) + 1)
  BY <1>1, <1>2, <1>4
<1>9. Head(r) = IF l = <<>> \/ w < Head(l).when THEN e ELSE Head(l)
  <2>1. CASE l = <<>>
    BY <1>2, <1>3, <1>8, <2>1
  <2>2. CASE l # <<>>
    <3>1. Head(l) = l[1] /\ 1 \in 1..Len(l)
      BY <1>3, <1>4, <2>2
    <3>2. CASE p = 1
      BY <1>2, <1>3, <1>4, <1>8, <2>2, <3>1, <3>2
    <3>3. CASE p # 1
      <4>1. r[1] = l[1] /\ l[1].when <= w
        BY <1>2, <1>4, <1>8, <3>3
      <4>2. ~(w < l[1].when)
        BY <1>4, <3>1, <4>1
      <4>3. QED
        BY <1>8, <2>2, <3>1, <4>1, <4>2
    <3>4. QED
      BY <3>2, <3>3
  <2>3. QED
    BY <2>1, <2>2
<1>10. ASSUME NEW k \in H, k # h, AtMostOne(l, k)
      PROVE  AtMostOne(r, k)
  <2> DEFINE old(i) == IF i < p THEN i ELSE i - 1
  <2>1. ASSUME NEW i \in 1..(Len(l) + 1), NEW j \in 1..(Len(l) + 1),
               r[i].handler = k, r[j].handler = k
        PROVE  i = j
    <3>1. i # p /\ j # p
      BY <1>3, <1>6, <1>10, <2>1
    <3>2. old(i) \in 1..Len(l) /\ r[i] = l[old(i)]
      BY <1>4, <1>6, <3>1
    <3>3. old(j) \in 1..Len(l) /\ r[j] = l[old(j)]
      BY <1>4, <1>6, <3>1
    <3>4. old(i) = old(j)
      <4> HIDE DEF old
      <4>1. QED
        BY <1>4, <1>10, <2>1, <3>2, <3>3 DEF AtMostOne
    <3>5. QED
      BY <1>4, <3>1, <3>4
  <2>2. QED
    BY <1>4, <2>1 DEF AtMostOne
<1>11. ASSUME \A f \in Range(l) : f.handler # h
       PROVE  AtMostOne(r, h)
  <2>1. \A i \in 1..Len(l) : l[i].handler # h
    BY <1>4, <1>11 DEF Range
  <2>2. \A i \in 1..(Len(l) + 1) : r[i].handler = h => i = p
    BY <1>6, <2>1
  <2>3. QED
    BY <1>4, <2>2 DEF AtMostOne
<1>12. QED
  BY <1>7, <1>8, <1>9, <1>10, <1>11 DEF l, r, e

\* What is in a list is its first event and what is in the rest of it.
LEMMA TailEvents ==
    ASSUME NEW H, NEW l \in Seq(TimeEvents(H)), l # <<>>
    PROVE  /\ Head(l) \in Range(l)
           /\ Range(l) = Range(Tail(l)) \cup {Head(l)}
           /\ \A k : AtMostOne(l, k) => AtMostOne(Tail(l), k)
           /\ AtMostOne(l, Head(l).handler) =>
                \A f \in Range(Tail(l)) : f.handler # Head(l).handler
           /\ InOrder(l) =>
                InOrder(Tail(l)) /\ \A f \in Range(l) : Head(l).when <= f.when
<1> DEFINE t == Tail(l)
<1>1. /\ t \in Seq(TimeEvents(H)) /\ Len(t) = Len(l) - 1
      /\ \A i \in 1..Len(t) : t[i] = l[i + 1]
  BY HeadTailProperties
<1>2. /\ Len(l) \in Nat /\ DOMAIN l = 1..Len(l) /\ DOMAIN t = 1..(Len(l) - 1)
      /\ \A i \in 1..Len(l) : l[i].when \in Nat
  BY <1>1, TimesOfList
<1>3. Head(l) = l[1] /\ 1 \in 1..Len(l)
  BY <1>2
<1> HIDE DEF t
<1>4. \A i \in 1..(Len(l) - 1) : i + 1 \in 1..Len(l) /\ t[i] = l[i + 1]
  BY <1>1, <1>2
<1>5. \A i \in 1..Len(l) : i = 1 \/ (i - 1 \in 1..(Len(l) - 1) /\ l[i] = t[i - 1])
  BY <1>2, <1>4
<1>6. Range(l) = Range(t) \cup {Head(l)}
  <2>1. ASSUME NEW f \in Range(l)
        PROVE  f \in Range(t) \cup {Head(l)}
    <3>1. PICK i \in 1..Len(l) : f = l[i]
      BY <1>2, <2>1 DEF Range
    <3>2. CASE i = 1
      BY <1>3, <3>1, <3>2
    <3>3. CASE i - 1 \in 1..(Len(l) - 1) /\ f = t[i - 1]
      BY <1>2, <3>3 DEF Range
    <3>4. QED
      BY <1>5, <3>1, <3>2, <3>3
  <2>2. ASSUME NEW f \in Range(t)
        PROVE  f \in Range(l)
    BY <1>2, <1>4 DEF Range
  <2>3. Head(l) \in Range(l)
    BY <1>2, <1>3 DEF Range
  <2>4. QED
    BY <2>1, <2>2, <2>3
<1>7. ASSUME NEW k, AtMostOne(l, k)
      PROVE  AtMostOne(t, k)
  <2>1. ASSUME NEW i \in 1..(Len(l) - 1), NEW j \in 1..(Len(l) - 1),
               t[i].handler = k, t[j].handler = k
        PROVE  i = j
    <3>1. /\ i + 1 \in DOMAIN l /\ l[i + 1].handler = k
          /\ j + 1 \in DOMAIN l /\ l[j + 1].handler = k
      BY <1>2, <1>4, <2>1
    <3>2. i + 1 = j + 1
      BY <1>7, <3>1 DEF AtMostOne
    <3>3. QED
      BY <1>2, <3>2
  <2>2. QED
    BY <1>2, <2>1 DEF AtMostOne
<1>8. ASSUME AtMostOne(l, Head(l).handler), NEW f \in Range(t)
      PROVE  f.handler # Head(l).handler
  <2>1. PICK i \in 1..(Len(l) - 1) : f = t[i]
    BY <1>2, <1>8 DEF Range
  <2>2. f = l[i + 1] /\ i + 1 \in 1..Len(l) /\ i + 1 # 1
    BY <1>4, <2>1
  <2>3. QED
    BY <1>2, <1>3, <1>8, <2>2 DEF AtMostOne
<1>9. ASSUME InOrder(l)
      PROVE  InOrder(t) /\ \A f \in Range(l) : Head(l).when <= f.when
  <2>1. InOrder(t)
    <3>1. ASSUME NEW i \in 1..(Len(l) - 1), NEW j \in 1..(Len(l) - 1), i < j
          PROVE  t[i].when <= t[j].when
      <4>1. i + 1 < j + 1
        BY <1>2, <3>1
      <4>2. QED
        BY <1>2, <1>4, <1>9, <4>1 DEF InOrder
    <3>2. QED
      BY <1>2, <3>1 DEF InOrder
  <2>2. ASSUME NEW i \in 1..Len(l)
        PROVE  l[1].when <= l[i].when
    BY <1>2, <1>3, <1>9 DEF InOrder
  <2>3. QED
    BY <1>2, <1>3, <2>1, <2>2 DEF Range
<1>10. QED
  BY <1>2, <1>3, <1>6, <1>7, <1>8, <1>9 DEF t, Range

\* There is one way to insert an event.
LEMMA InsertedOnce ==
    ASSUME NEW H, NEW l \in Seq(TimeEvents(H)), NEW r \in Seq(TimeEvents(H)),
           NEW s \in Seq(TimeEvents(H)), NEW e \in TimeEvents(H),
           Inserted(l, r, e), Inserted(l, s, e)
    PROVE  r = s
<1>1. /\ Len(l) \in Nat /\ e.when \in Nat
      /\ \A i \in 1..Len(l) : l[i].when \in Nat
  BY TimesOfList DEF TimeEvents
<1>2. PICK p \in 1..(Len(l) + 1) :
        /\ \A i \in 1..(p - 1) : l[i].when <= e.when
        /\ p <= Len(l) => l[p].when > e.when
        /\ Len(r) = Len(l) + 1
        /\ \A i \in 1..(Len(l) + 1) :
             r[i] = IF i < p THEN l[i] ELSE IF i = p THEN e ELSE l[i - 1]
  BY DEF Inserted
<1>3. PICK o \in 1..(Len(l) + 1) :
        /\ \A i \in 1..(o - 1) : l[i].when <= e.when
        /\ o <= Len(l) => l[o].when > e.when
        /\ Len(s) = Len(l) + 1
        /\ \A i \in 1..(Len(l) + 1) :
             s[i] = IF i < o THEN l[i] ELSE IF i = o THEN e ELSE l[i - 1]
  BY DEF Inserted
<1>4. ~(p < o)
  <2>1. SUFFICES ASSUME p < o
                 PROVE  FALSE
    OBVIOUS
  <2>2. p \in 1..(o - 1) /\ p \in 1..Len(l)
    BY <1>1, <2>1
  <2>3. QED
    BY <1>1, <1>2, <1>3, <2>2
<1>5. ~(o < p)
  <2>1. SUFFICES ASSUME o < p
                 PROVE  FALSE
    OBVIOUS
  <2>2. o \in 1..(p - 1) /\ o \in 1..Len(l)
    BY <1>1, <2>1
  <2>3. QED
    BY <1>1, <1>2, <1>3, <2>2
<1>6. p = o
  BY <1>1, <1>4, <1>5
<1>7. Len(r) = Len(s) /\ \A i \in 1..Len(r) : r[i] = s[i]
  BY <1>2, <1>3, <1>6
<1>8. QED
  BY <1>7, SeqEqual

\* An event that is added behind the first one ends up where it would if the
\* first one had been removed before.
LEMMA AddedBehindHead ==
    ASSUME NEW H, NEW q \in TimeEventStates(H), NEW u \in TimeEventStates(H),
           NEW w \in Nat, NEW h \in H, InOrder(q.list), q.list # <<>>,
           u.list = Tail(q.list), Head(q.list).when <= w
    PROVE  Tail(AddTimeEvent(q, w, h).list) = AddTimeEvent(u, w, h).list
<1> DEFINE l == q.list
           m == u.list
           r == AddTimeEvent(q, w, h).list
           s == AddTimeEvent(u, w, h).list
           e == [when |-> w, handler |-> h]
<1>1. /\ l \in Seq(TimeEvents(H)) /\ m \in Seq(TimeEvents(H))
      /\ e \in TimeEvents(H) /\ e.when = w
      /\ l # <<>> /\ m = Tail(l)
  BY DEF TimeEventStates, TimeEvents
<1>2. InOrder(l) /\ InOrder(m)
  BY <1>1, TailEvents
<1>3. /\ r \in Seq(TimeEvents(H)) /\ Inserted(l, r, e)
      /\ s \in Seq(TimeEvents(H)) /\ Inserted(m, s, e)
  BY <1>2, AddedList
<1>4. Head(l).when <= w
  OBVIOUS
<1> HIDE DEF l, m, r, s, e
<1>5. /\ Len(l) \in Nat /\ Len(l) >= 1 /\ Len(m) = Len(l) - 1
      /\ Head(l) = l[1]
      /\ \A i \in 1..Len(m) : m[i] = l[i + 1]
  <2>1. /\ Len(m) = Len(l) - 1
        /\ \A i \in 1..Len(m) : m[i] = l[i + 1]
    BY <1>1, HeadTailProperties
  <2>2. Len(l) \in Nat /\ Len(l) >= 1 /\ Head(l) = l[1]
    BY <1>1
  <2>3. QED
    BY <2>1, <2>2
<1>6. PICK p \in 1..(Len(l) + 1) :
        /\ \A i \in 1..(p - 1) : l[i].when <= w
        /\ p <= Len(l) => l[p].when > w
        /\ Len(r) = Len(l) + 1
        /\ \A i \in 1..(Len(l) + 1) :
             r[i] = IF i < p THEN l[i] ELSE IF i = p THEN e ELSE l[i - 1]
  BY <1>1, <1>3 DEF Inserted
<1>7. p # 1
  <2>1. l[1].when \in Nat
    BY <1>1, <1>5, TimesOfList
  <2>2. QED
    BY <1>1, <1>4, <1>5, <1>6, <2>1
<1> DEFINE t == Tail(r)
           o == p - 1
<1>8. /\ t \in Seq(TimeEvents(H)) /\ Len(t) = Len(m) + 1
      /\ \A i \in 1..(Len(m) + 1) : t[i] = r[i + 1]
  <2>1. r # <<>>
    BY <1>3, <1>5, <1>6
  <2>2. /\ t \in Seq(TimeEvents(H)) /\ Len(t) = Len(r) - 1
        /\ \A i \in 1..Len(t) : t[i] = r[i + 1]
    BY <1>3, <2>1, HeadTailProperties
  <2>3. QED
    BY <1>5, <1>6, <2>2
<1> HIDE DEF t
<1>9. o \in 1..(Len(m) + 1)
  BY <1>5, <1>6, <1>7
<1>10. \A i \in 1..(o - 1) : m[i].when <= w
  BY <1>5, <1>6, <1>9
<1>11. o <= Len(m) => m[o].when > w
  BY <1>5, <1>6, <1>7, <1>9, SMTT(30)
<1>12. ASSUME NEW i \in 1..(Len(m) + 1)
       PROVE  t[i] = IF i < o THEN m[i] ELSE IF i = o THEN e ELSE m[i - 1]
  <2>1. /\ t[i] = r[i + 1] /\ i + 1 \in 1..(Len(l) + 1)
        /\ i < o <=> i + 1 < p
        /\ i = o <=> i + 1 = p
        /\ i + 1 - 1 = i
    BY <1>5, <1>6, <1>8
  <2>2. t[i] = IF i < o THEN l[i + 1] ELSE IF i = o THEN e ELSE l[i]
    <3> DEFINE n == i + 1
    <3>1. n \in 1..(Len(l) + 1) /\ n - 1 = i /\ t[i] = r[n]
      BY <2>1
    <3>2. i < o <=> n < p
      BY <2>1
    <3>3. i = o <=> n = p
      BY <2>1
    <3> HIDE DEF n, o
    <3>4. r[n] = IF n < p THEN l[n] ELSE IF n = p THEN e ELSE l[n - 1]
      BY <1>6, <3>1
    <3>5. t[i] = IF i < o THEN l[n] ELSE IF i = o THEN e ELSE l[i]
      BY <3>1, <3>2, <3>3, <3>4
    <3> QED
      BY <3>5 DEF n
  <2>3. i < o => m[i] = l[i + 1]
    BY <1>5, <1>6
  <2>4. i # o /\ ~(i < o) => m[i - 1] = l[i]
    BY <1>5, <1>6, <1>7
  <2>5. QED
    BY <2>2, <2>3, <2>4
<1> HIDE DEF o
<1>13. Inserted(m, t, e)
  BY <1>1, <1>8, <1>9, <1>10, <1>11, <1>12 DEF Inserted
<1>14. t = s
  BY <1>1, <1>3, <1>8, <1>13, InsertedOnce
<1>15. QED
  BY <1>14 DEF t, r, s

-------------------------------------------------------------------------------
(* The timer                                                               *)

\* The timer has expired or will, and its event has not been handled: there
\* is an event for this, and another one if the batch holds the TIMER too.
Due ==
    \/ events.timer = "set"
    \/ events.timer = "expired" /\ (timerReady \/ pc \in Starting)

EnoughEvents ==
    /\ InBatch \/ Due => list # <<>>
    /\ InBatch /\ Due => Len(list) >= 2

\* An expired timer that is not seen has nothing to be seen for.
ExpirationIsSeen ==
    Running /\ list # <<>> /\ events.timer = "expired" =>
        timerReady \/ InBatch \/ pc \in Starting

NoBatch == pc \in Starting \cup {"wait"} => batch = {}

\* The inductive invariant: its part about the timer, and the types.
TimerInv ==
    /\ InOrder(list)
    /\ ForHead(events)
    /\ EnoughEvents
    /\ ExpirationIsSeen
    /\ NoBatch

IInv == TypeOK /\ TimerInv

-------------------------------------------------------------------------------
(* Adding events *)

\* Events were added to q, which gave r.
Grown(q, r) ==
    /\ r \in TimeEventStates(Handler)
    /\ InOrder(r.list)
    /\ ForHead(r)
    /\ Len(r.list) > Len(q.list)
    /\ q.list # <<>> => Head(r.list).when <= Head(q.list).when
    /\ \/ r.timer = "set"
       \/ q.list # <<>> /\ r.timer = q.timer

\* The facts about a state of time_event.c that the next lemmas use.
LEMMA ListFacts ==
    ASSUME NEW q \in TimeEventStates(Handler)
    PROVE  /\ q.list \in Seq(TimeEvents(Handler))
           /\ Len(q.list) \in Nat
           /\ q.list # <<>> <=> Len(q.list) >= 1
           /\ q.list # <<>> => Head(q.list).when \in Nat
           /\ q.timer \in TimerStates
<1>1. q.list \in Seq(TimeEvents(Handler)) /\ q.timer \in TimerStates
  BY DEF TimeEventStates
<1>2. Len(q.list) \in Nat /\ (q.list # <<>> <=> Len(q.list) >= 1)
  BY <1>1
<1>3. q.list # <<>> => Head(q.list) \in TimeEvents(Handler)
  BY <1>1, HeadTailProperties
<1>4. q.list # <<>> => Head(q.list).when \in Nat
  BY <1>3 DEF TimeEvents
<1>5. QED
  BY <1>1, <1>2, <1>4

LEMMA AddedIsGrown ==
    ASSUME NEW q \in TimeEventStates(Handler), InOrder(q.list), ForHead(q),
           NEW w \in Nat, NEW h \in Handler
    PROVE  Grown(q, AddTimeEvent(q, w, h))
<1>1. Len(q.list) \in Nat
  BY ListFacts
<1>2. QED
  BY <1>1, AddTimeEventProps DEF Grown

LEMMA GrownTwice ==
    ASSUME NEW q \in TimeEventStates(Handler), NEW r, NEW s,
           Grown(q, r), Grown(r, s)
    PROVE  Grown(q, s)
<1>1. r \in TimeEventStates(Handler) /\ s \in TimeEventStates(Handler)
  BY DEF Grown
<1>2. /\ Len(q.list) \in Nat /\ Len(r.list) \in Nat /\ Len(s.list) \in Nat
      /\ q.list # <<>> <=> Len(q.list) >= 1
      /\ r.list # <<>> <=> Len(r.list) >= 1
      /\ q.list # <<>> => Head(q.list).when \in Nat
      /\ r.list # <<>> => Head(r.list).when \in Nat
      /\ s.list # <<>> => Head(s.list).when \in Nat
      /\ s.list # <<>> <=> Len(s.list) >= 1
  BY <1>1, ListFacts
<1>3. QED
  BY <1>1, <1>2 DEF Grown

\* The time of a day is part of the time.
LEMMA TimeOfDay ==
    ASSUME NEW t \in Nat
    PROVE  t % DayLength \in 0..(DayLength - 1) /\ t - (t % DayLength) \in Nat
  BY EventLoopAssumption

LEMMA Next1337Type ==
    ASSUME NEW t \in Nat
    PROVE  Next1337(t) \in Nat /\ Next1337(t) + LeetLength \in Nat
<1> DEFINE day == t - (t % DayLength)
<1>1. day \in Nat /\ DayLength \in Nat /\ LeetStart \in Nat /\ LeetLength \in Nat
  BY TimeOfDay, EventLoopAssumption
<1>2. Next1337(t) \in {day + LeetStart, day + LeetStart + DayLength}
  BY DEF Next1337
<1> HIDE DEF day
<1>3. QED
  BY <1>1, <1>2

\* schedule_next_1337() adds events or does nothing.
LEMMA ScheduledIsGrown ==
    ASSUME NEW q \in TimeEventStates(Handler), InOrder(q.list), ForHead(q),
           NEW t \in Nat, NEW r \in ScheduleNext1337(q, t)
    PROVE  r = q \/ Grown(q, r)
<1>1. Next1337(t) \in Nat /\ Next1337(t) + LeetLength \in Nat
  BY Next1337Type
<1>2. "at_1337" \in Handler /\ "at_1338" \in Handler
  BY DEF Handler
<1>3. Grown(q, Add1337(q, t)) /\ Grown(q, Add1338(q, t))
  BY <1>1, <1>2, AddedIsGrown DEF Add1337, Add1338
<1>4. Grown(Add1337(q, t), Add1338(Add1337(q, t), t))
  <2> DEFINE u == Add1337(q, t)
  <2>1. u \in TimeEventStates(Handler) /\ InOrder(u.list) /\ ForHead(u)
    BY <1>3 DEF Grown
  <2> HIDE DEF u
  <2>2. Grown(u, Add1338(u, t))
    BY <1>1, <1>2, <2>1, AddedIsGrown DEF Add1338
  <2>3. QED
    BY <2>2 DEF u
<1>5. Grown(q, Add1338(Add1337(q, t), t))
  BY <1>3, <1>4, GrownTwice
<1>6. QED
  BY <1>3, <1>5 DEF ScheduleNext1337

-------------------------------------------------------------------------------
(* The types *)

\* handle_remind() and restore_remind_state() register what they were given.
LEMMA EventsTyped ==
    ASSUME IInv, [Next]_vars
    PROVE  events' \in TimeEventStates(Handler)
<1> USE DEF IInv, TypeOK
<1>1. /\ events \in TimeEventStates(Handler) /\ InOrder(events.list)
      /\ ForHead(events)
  BY DEF TimerInv, list
<1>2. Reminder \subseteq Handler /\ TimeRead \subseteq Nat
  BY DEF Handler, TimeRead
<1>3. ASSUME NEW t \in TimeRead, NEW q \in ScheduleNext1337(events, t)
      PROVE  q \in TimeEventStates(Handler) /\ InOrder(q.list)
             /\ (events.list # <<>> => q.list # <<>>)
  BY <1>1, <1>2, <1>3, ScheduledIsGrown, ListFacts DEF Grown
<1>4. CASE UNCHANGED events
  BY <1>1, <1>4
<1>5. CASE Expire
  BY <1>1, <1>5 DEF Expire, TimeEventStates, TimerStates
<1>6. CASE InitLeetMonitor
  BY <1>3, <1>6 DEF InitLeetMonitor
<1>7. ASSUME NEW r \in Reminder, NEW when \in 0..Horizon,
             RestoreReminder(r, when)
      PROVE  events' \in TimeEventStates(Handler)
  BY <1>1, <1>2, <1>7, EventLoopAssumption, AddedIsGrown
  DEF RestoreReminder, Grown
<1>8. CASE AddReminder
  <2>1. Head(inbox) \in Message
    BY <1>8, HeadTailProperties DEF AddReminder, Handling
  <2>2. msg.time \in Nat /\ msg.what \in Handler
    BY <1>2, <1>8, <2>1 DEF AddReminder, msg, Message
  <2>3. QED
    BY <1>1, <1>8, <2>2, AddedIsGrown DEF AddReminder, Grown
<1>9. CASE At1337 \/ \E r \in Reminder : Remind(r)
  <2>1. events.list # <<>> /\ events' = RemoveStart(events)
    BY <1>9 DEF At1337, Remind, TimerEvent
  <2>2. QED
    BY <1>1, <2>1, RemoveStartProps
<1>10. CASE At1338
  <2>1. PICK t \in TimeRead :
          \E q \in ScheduleNext1337(events, t) : events' = RemoveStart(q)
    BY <1>10 DEF At1338
  <2>2. events.list # <<>>
    BY <1>10 DEF At1338, TimerEvent
  <2>3. PICK q \in ScheduleNext1337(events, t) : events' = RemoveStart(q)
    BY <2>1
  <2>4. QED
    BY <1>3, <2>2, <2>3, RemoveStartProps
<1>11. QED
  BY <1>4, <1>5, <1>6, <1>7, <1>8, <1>9, <1>10
  DEF Next, Bot, Start, Timer, Msgs, Kernel, Server, vars, Restored, Connect,
      EpollWait, BatchHandled, ServerData, ServerGone, TimerSendFails, SendFails,
      ReadSignal, SendQuit, QuitFails, MsgsHandled, Ping, Congratulate, NotLeet,
      Confirm, RejectReminder, ReplyFails, Tick, SetBack, Signal, ServerSends,
      ServerCloses, ServerReads

\* recv() takes a part of what the socket holds.
LEMMA MessagesTyped ==
    ASSUME TypeOK, [Next]_vars
    PROVE  socket' \in Seq(Message) /\ inbox' \in Seq(Message)
<1> USE DEF TypeOK
<1>1. CASE UNCHANGED <<socket, inbox>>
  BY <1>1
<1>2. CASE Server
  <2>1. ASSUME NEW m \in [what : Chat \cup Reminder, time : 0..Horizon],
               ServerSends(m)
        PROVE  socket' \in Seq(Message) /\ inbox' \in Seq(Message)
    <3>1. m \in Message
      BY EventLoopAssumption DEF Message
    <3>2. socket' = Append(socket, m) /\ inbox' = inbox
      BY <2>1 DEF ServerSends, loopVars
    <3>3. QED
      BY <3>1, <3>2, AppendProperties
  <2>2. CASE ServerCloses \/ ServerReads
    <3>1. socket' \in {socket, <<>>} /\ inbox' = inbox
      BY <2>2 DEF ServerCloses, ServerReads, loopVars, kernelVars
    <3>2. <<>> \in Seq(Message)
      BY EmptySeq
    <3>3. QED
      BY <3>1, <3>2
  <2>3. QED
    BY <1>2, <2>1, <2>2 DEF Server
<1>3. CASE ServerData
  <2>1. PICK n \in 1..Len(socket) :
          /\ inbox' = SubSeq(socket, 1, n)
          /\ socket' = SubSeq(socket, n + 1, Len(socket))
    BY <1>3 DEF ServerData
  <2>2. Len(socket) \in Nat /\ \A i \in 1..Len(socket) : socket[i] \in Message
    BY LenProperties, ElementOfSeq
  <2>3. SubSeq(socket, 1, n) \in Seq(Message)
    BY <2>2, SubSeqProperties
  <2>4. SubSeq(socket, n + 1, Len(socket)) \in Seq(Message)
    BY <2>2, SubSeqProperties
  <2>5. QED
    BY <2>1, <2>3, <2>4
<1>4. CASE Handling /\ MsgHandled
  <2>1. inbox # <<>> /\ inbox' = Tail(inbox) /\ socket' = socket
    BY <1>4 DEF Handling, MsgHandled, kernelVars
  <2>2. QED
    BY <2>1, HeadTailProperties
<1>5. QED
  BY <1>1, <1>2, <1>3, <1>4
  DEF Next, Bot, Start, Timer, Msgs, Kernel, vars, Restored, Connect,
      EpollWait, BatchHandled, ServerGone, TimerSendFails, SendFails, ReadSignal,
      SendQuit, QuitFails, MsgsHandled, Ping, Congratulate, NotLeet, Confirm,
      RejectReminder, ReplyFails, Tick, SetBack, Signal, Expire, InitLeetMonitor,
      RestoreReminder, AddReminder, At1337, At1338, Remind, TimerHandled,
      IsPing, IsLeet, IsRejected, loopVars, kernelVars

\* The other variables.
LEMMA RestTyped ==
    ASSUME TypeOK, [Next]_vars
    PROVE  /\ now' \in Nat
           /\ setBack' \in 0..MaxSetBack
           /\ timerReady' \in BOOLEAN
           /\ peerClosed' \in BOOLEAN
           /\ backlog' \in 0..SendCap
           /\ signals' \subseteq Signals
           /\ pc' \in PCs
           /\ batch' \subseteq Sources
           /\ firstSignal' \in BOOLEAN
           /\ want1337' \in BOOLEAN
           /\ status' \in [Reminder -> StatusValues]
<1> USE DEF TypeOK
<1>1. now' \in Nat /\ setBack' \in 0..MaxSetBack
  <2>1. CASE UNCHANGED <<now, setBack>>
    BY <2>1
  <2>2. CASE Tick
    BY <2>2 DEF Tick
  <2>3. CASE SetBack
    <3>1. PICK d \in 1..(MaxSetBack - setBack) :
            d <= now /\ now' = now - d /\ setBack' = setBack + d
      BY <2>3 DEF SetBack
    <3>2. MaxSetBack \in Nat
      BY EventLoopAssumption
    <3>3. QED
      BY <3>1, <3>2
  <2>4. QED
    BY <2>1, <2>2, <2>3
    DEF Next, Bot, Start, Timer, Msgs, Kernel, Server, vars, Restored, Connect,
        EpollWait, BatchHandled, ServerData, ServerGone, TimerSendFails,
        SendFails, ReadSignal, SendQuit, QuitFails, MsgsHandled, Ping,
        Congratulate, NotLeet, Confirm, RejectReminder, ReplyFails, Signal,
        Expire, InitLeetMonitor, RestoreReminder, AddReminder, At1337, At1338,
        Remind, TimerHandled, MsgHandled, ServerSends, ServerCloses, ServerReads,
        clockVars
<1>2. backlog' \in 0..SendCap
  <2>1. CASE UNCHANGED backlog
    BY <2>1
  <2>2. CASE Send
    BY <2>2, EventLoopAssumption DEF Send
  <2>3. CASE ServerReads
    BY <2>3, EventLoopAssumption DEF ServerReads
  <2>4. QED
    BY <2>1, <2>2, <2>3
    DEF Next, Bot, Start, Timer, Msgs, Kernel, Server, vars, Restored, Connect,
        EpollWait, BatchHandled, ServerData, ServerGone, TimerSendFails,
        SendFails, ReadSignal, SendQuit, QuitFails, MsgsHandled, Ping,
        Congratulate, NotLeet, Confirm, RejectReminder, ReplyFails, Signal,
        Expire, InitLeetMonitor, RestoreReminder, AddReminder, At1337, At1338,
        Remind, Tick, SetBack, ServerSends, ServerCloses
<1>3. status' \in [Reminder -> StatusValues]
  <2>1. CASE \E r \in Reminder, v \in StatusValues :
               status' = [status EXCEPT ![r] = v]
    BY <2>1
  <2>2. CASE UNCHANGED status
    BY <2>2
  <2>3. ASSUME NEW m \in [what : Chat \cup Reminder, time : 0..Horizon],
               ServerSends(m)
        PROVE  status' \in [Reminder -> StatusValues]
    BY <2>1, <2>2, <2>3 DEF ServerSends, StatusValues
  <2>4. CASE (AddReminder \/ RejectReminder)
    BY <2>1, <2>4 DEF AddReminder, RejectReminder, IsRejected, StatusValues
  <2>5. CASE \/ \E r \in Reminder : Remind(r)
             \/ \E r \in Reminder, when \in 0..Horizon : RestoreReminder(r, when)
    BY <2>1, <2>5 DEF Remind, RestoreReminder, StatusValues
  <2>6. QED
    BY <2>2, <2>3, <2>4, <2>5
    DEF Next, Bot, Start, Timer, Msgs, Kernel, Server, vars, Restored, Connect,
        EpollWait, BatchHandled, ServerData, ServerGone, TimerSendFails,
        SendFails, ReadSignal, SendQuit, QuitFails, MsgsHandled, Ping,
        Congratulate, NotLeet, Confirm, ReplyFails, Signal, Expire,
        InitLeetMonitor, At1337, At1338, Tick, SetBack, ServerCloses, ServerReads
<1>4. /\ timerReady' \in BOOLEAN
      /\ peerClosed' \in BOOLEAN
      /\ signals' \subseteq Signals
  BY DEF Next, Bot, Start, Timer, Msgs, Kernel, Server, vars, Restored, Connect,
         EpollWait, BatchHandled, ServerData, ServerGone, TimerSendFails,
         SendFails, ReadSignal, SendQuit, QuitFails, MsgsHandled, Ping,
         Congratulate, NotLeet, Confirm, RejectReminder, ReplyFails, Signal,
         Expire, InitLeetMonitor, RestoreReminder, AddReminder, At1337, At1338,
         Remind, TimerHandled, MsgHandled, Tick, SetBack, ServerSends,
         ServerCloses, ServerReads, kernelVars
<1>5. /\ pc' \in PCs
      /\ batch' \subseteq Sources
      /\ firstSignal' \in BOOLEAN
      /\ want1337' \in BOOLEAN
  BY DEF Next, Bot, Start, Timer, Msgs, Kernel, Server, vars, Restored, Connect,
         EpollWait, BatchHandled, ServerData, ServerGone, TimerSendFails,
         SendFails, ReadSignal, SendQuit, QuitFails, MsgsHandled, Ping,
         Congratulate, NotLeet, Confirm, RejectReminder, ReplyFails, Signal,
         Expire, InitLeetMonitor, RestoreReminder, AddReminder, At1337, At1338,
         Remind, TimerHandled, MsgHandled, Tick, SetBack, ServerSends,
         ServerCloses, ServerReads, loopVars, PCs, Starting, Ended, Ready
<1>6. QED
  BY <1>1, <1>2, <1>3, <1>4, <1>5

LEMMA TypeOKStep ==
    ASSUME IInv, [Next]_vars
    PROVE  TypeOK'
<1>1. TypeOK
  BY DEF IInv
<1>2. QED
  BY <1>1, EventsTyped, MessagesTyped, RestTyped DEF TypeOK

-------------------------------------------------------------------------------
(* The timer *)

\* A step that leaves the list, the timer and its notification alone.
LEMMA QuietStep ==
    ASSUME IInv, UNCHANGED <<events, timerReady>>,
           InBatch' <=> InBatch,
           pc' \in Starting <=> pc \in Starting,
           Running' => Running,
           NoBatch'
    PROVE  TimerInv'
BY DEF IInv, TimerInv, EnoughEvents, ExpirationIsSeen, Due, list

\* A step that adds events.
LEMMA GrowingStep ==
    ASSUME IInv, Grown(events, events'), UNCHANGED <<timerReady, batch>>,
           pc' \in Starting <=> pc \in Starting,
           Running,
           NoBatch'
    PROVE  TimerInv'
<1>1. /\ events \in TimeEventStates(Handler)
      /\ events' \in TimeEventStates(Handler)
  BY DEF IInv, TypeOK, Grown
<1>2. /\ Len(events.list) \in Nat /\ Len(events'.list) \in Nat
      /\ events.list # <<>> <=> Len(events.list) >= 1
      /\ events'.list # <<>> <=> Len(events'.list) >= 1
  BY <1>1, ListFacts
<1>3. /\ Len(events'.list) > Len(events.list)
      /\ events'.list # <<>>
      /\ \/ events'.timer = "set"
         \/ events.list # <<>> /\ events'.timer = events.timer
      /\ InOrder(events'.list)
      /\ ForHead(events')
  BY <1>2 DEF Grown
<1>4. EnoughEvents'
  BY <1>2, <1>3 DEF IInv, TimerInv, EnoughEvents, Due, InBatch, list
<1>5. ExpirationIsSeen'
  BY <1>3 DEF IInv, TimerInv, ExpirationIsSeen, InBatch, list
<1>6. QED
  BY <1>3, <1>4, <1>5 DEF TimerInv, list

\* A step that removes the first event of q, where q is the list or longer.
LEMMA RemovingStep ==
    ASSUME IInv, InBatch,
           NEW q \in TimeEventStates(Handler), InOrder(q.list),
           q = events \/ Grown(events, q),
           events' = RemoveStart(q),
           batch' = batch \ {"TIMER"}, UNCHANGED <<timerReady, pc>>,
           pc = "batch"
    PROVE  TimerInv'
<1>1. events \in TimeEventStates(Handler) /\ events.list # <<>>
  BY DEF IInv, TypeOK, TimerInv, EnoughEvents, list
<1>2. /\ Len(events.list) \in Nat /\ Len(q.list) \in Nat
      /\ Len(events.list) >= 1
      /\ q.list # <<>> <=> Len(q.list) >= 1
      /\ Len(q.list) = 1 => q = events
  BY <1>1, ListFacts DEF Grown
<1>3. q.list # <<>>
  BY <1>1, <1>2 DEF Grown
<1>4. /\ events' \in TimeEventStates(Handler)
      /\ Len(events'.list) = Len(q.list) - 1
      /\ InOrder(events'.list)
      /\ ForHead(events')
      /\ events'.list # <<>> => events'.timer = "set"
      /\ events'.list = <<>> => events'.timer = q.timer
  BY <1>3, RemoveStartProps
<1>5. ~InBatch'
  BY DEF InBatch
<1>6. ~Due' \/ events'.list # <<>>
  <2>1. SUFFICES ASSUME events'.list = <<>>
                 PROVE  ~Due'
    OBVIOUS
  <2>2. Len(q.list) = 1
    BY <1>2, <1>4, <2>1
  <2>3. q = events /\ ~Due
    <3>1. q = events
      BY <1>2, <2>2
    <3>2. Len(events.list) = 1
      BY <2>2, <3>1, Zenon
    <3>3. InBatch /\ Due => Len(events.list) >= 2
      BY DEF IInv, TimerInv, EnoughEvents, list
    <3>4. QED
      BY <3>1, <3>2, <3>3
  <2>4. QED
    BY <1>4, <2>1, <2>3 DEF Due
<1>7. EnoughEvents' /\ ExpirationIsSeen'
  BY <1>4, <1>5, <1>6 DEF EnoughEvents, ExpirationIsSeen, list
<1>8. NoBatch'
  BY DEF NoBatch, Starting
<1>9. QED
  BY <1>4, <1>7, <1>8 DEF TimerInv, list

LEMMA TimerInvStep ==
    ASSUME IInv, [Next]_vars
    PROVE  TimerInv'
<1>1. /\ events \in TimeEventStates(Handler) /\ InOrder(events.list)
      /\ ForHead(events)
  BY DEF IInv, TypeOK, TimerInv, list
<1>2. Reminder \subseteq Handler /\ TimeRead \subseteq Nat
  BY DEF Handler, TimeRead
<1>3. CASE UNCHANGED vars
  <2>1. UNCHANGED <<events, timerReady, batch, pc>>
    BY <1>3 DEF vars, kernelVars, loopVars
  <2>2. QED
    BY <2>1, QuietStep DEF IInv, TimerInv, NoBatch, InBatch, Running
<1>4. CASE \/ Tick \/ SetBack \/ Server
           \/ \E s \in Signals : Signal(s)
           \/ TimerSendFails \/ QuitFails \/ ReplyFails
           \/ Restored \/ BatchHandled \/ ServerGone \/ SendQuit
           \/ MsgsHandled \/ Ping \/ Congratulate \/ NotLeet
           \/ Confirm \/ RejectReminder
  <2>1. /\ UNCHANGED <<events, timerReady, batch>>
        /\ \/ pc' = pc
           \/ pc = "restore" /\ pc' = "connect"
           \/ pc = "batch" /\ batch = {} /\ pc' = "wait"
           \/ /\ pc \in {"batch", "msgs", "reply", "quit"}
              /\ pc' \in {"exited", "done", "batch", "msgs"}
    BY <1>4
    DEF Tick, SetBack, Server, ServerSends, ServerCloses, ServerReads, Signal,
        SendFails, TimerSendFails, TimerEvent, QuitFails, ReplyFails, Restored,
        BatchHandled, ServerGone, SendQuit, MsgsHandled, Ping, Congratulate,
        NotLeet, Confirm, RejectReminder, IsPing, IsLeet, IsRejected, Handling,
        MsgHandled, kernelVars, loopVars
  <2>2. NoBatch' /\ (pc' \in Starting <=> pc \in Starting)
        /\ (Running' => Running) /\ (InBatch' <=> InBatch)
    BY <2>1 DEF IInv, TimerInv, NoBatch, InBatch, Running, Starting, Ended
  <2>3. QED
    BY <2>1, <2>2, QuietStep
<1>5. CASE ServerData \/ ReadSignal
  <2>1. /\ UNCHANGED <<events, timerReady>>
        /\ batch' \in {batch \ {"SERVER"}, batch \ {"SIGNAL"}}
        /\ pc = "batch" /\ pc' \in {"msgs", "quit", "done"}
    BY <1>5 DEF ServerData, ReadSignal
  <2>2. QED
    BY <2>1, QuietStep DEF NoBatch, InBatch, Running, Starting, Ended
<1>6. CASE Expire
  <2>1. /\ events.timer = "set" /\ events'.timer = "expired"
        /\ events'.list = events.list /\ events'.deadline = events.deadline
        /\ timerReady' = (timerReady \/ pc \notin Starting)
        /\ UNCHANGED <<pc, batch>>
    BY <1>1, <1>6 DEF Expire, TimeEventStates, loopVars
  <2>2. Due /\ Due' /\ (InBatch' <=> InBatch)
    BY <2>1 DEF Due, InBatch
  <2>3. EnoughEvents' /\ ExpirationIsSeen' /\ NoBatch' /\ ForHead(events')
    BY <1>1, <2>1, <2>2
    DEF IInv, TimerInv, EnoughEvents, ExpirationIsSeen, NoBatch, ForHead, list
  <2>4. QED
    BY <1>1, <2>1, <2>3 DEF TimerInv, list
<1>7. CASE InitLeetMonitor
  <2>1. PICK t \in TimeRead : events' \in ScheduleNext1337(events, t)
    BY <1>7 DEF InitLeetMonitor
  <2>2. events' = events \/ Grown(events, events')
    BY <1>1, <1>2, <2>1, ScheduledIsGrown
  <2>3. /\ pc = "init" /\ pc' = "restore" /\ UNCHANGED <<timerReady, batch>>
    BY <1>7 DEF InitLeetMonitor, kernelVars
  <2>4. NoBatch' /\ Running /\ (InBatch' <=> InBatch)
        /\ (pc' \in Starting <=> pc \in Starting)
    BY <2>3 DEF IInv, TimerInv, NoBatch, Running, Ended, Starting, InBatch
  <2>5. QED
    BY <2>2, <2>3, <2>4, QuietStep, GrowingStep
<1>8. ASSUME NEW r \in Reminder, NEW when \in 0..Horizon,
             RestoreReminder(r, when)
      PROVE  TimerInv'
  <2>1. when \in Nat /\ r \in Handler
    BY <1>2, EventLoopAssumption
  <2>2. Grown(events, events')
    BY <1>1, <1>8, <2>1, AddedIsGrown DEF RestoreReminder
  <2>3. pc = "restore" /\ UNCHANGED <<timerReady, batch, pc>>
    BY <1>8 DEF RestoreReminder, kernelVars, loopVars
  <2>4. QED
    BY <2>2, <2>3, GrowingStep DEF IInv, TimerInv, NoBatch, Running, Ended
<1>9. CASE AddReminder
  <2>1. Head(inbox) \in Message
    BY <1>9, HeadTailProperties DEF AddReminder, Handling, IInv, TypeOK
  <2>2. msg.time \in Nat /\ msg.what \in Handler
    BY <1>2, <1>9, <2>1 DEF AddReminder, msg, Message
  <2>3. Grown(events, events')
    BY <1>1, <1>9, <2>2, AddedIsGrown DEF AddReminder
  <2>4. pc = "msgs" /\ pc' = "reply" /\ UNCHANGED <<timerReady, batch>>
    BY <1>9 DEF AddReminder, Handling, MsgHandled, kernelVars
  <2>5. QED
    BY <2>3, <2>4, GrowingStep DEF NoBatch, Running, Ended, Starting
<1>10. CASE Connect
  <2>1. /\ pc = "connect" /\ pc' = "wait" /\ UNCHANGED <<events, batch>>
        /\ timerReady' = (events.timer = "expired")
    BY <1>10 DEF Connect
  <2>2. (Due' <=> Due) /\ (InBatch' <=> InBatch)
    BY <2>1 DEF Due, InBatch, Starting
  <2>3. EnoughEvents' /\ ExpirationIsSeen' /\ NoBatch'
    BY <2>1, <2>2
    DEF IInv, TimerInv, EnoughEvents, ExpirationIsSeen, NoBatch, Starting, list
  <2>4. QED
    BY <2>1, <2>3 DEF IInv, TimerInv, list
<1>11. CASE EpollWait
  <2>1. /\ pc = "wait" /\ pc' = "batch" /\ UNCHANGED events
        /\ batch' = Ready /\ timerReady' = FALSE
    BY <1>11 DEF EpollWait
  <2>2. InBatch' <=> timerReady /\ events.timer = "expired"
    BY <2>1 DEF InBatch, Ready, Sources
  <2>3. ~InBatch
    BY <2>1 DEF IInv, TimerInv, NoBatch, InBatch
  <2>4. InBatch' => Due /\ events'.timer = "expired"
    BY <2>1, <2>2 DEF Due
  <2>5. Due' => Due /\ events'.timer = "set"
    BY <2>1 DEF Due, Starting
  <2>6. EnoughEvents'
    BY <2>1, <2>4, <2>5 DEF IInv, TimerInv, EnoughEvents, list
  <2>7. ExpirationIsSeen' /\ NoBatch'
    BY <2>1, <2>2, <2>3
    DEF IInv, TimerInv, ExpirationIsSeen, NoBatch, Running, Ended, Starting, list
  <2>8. QED
    BY <2>1, <2>6, <2>7 DEF IInv, TimerInv, list
<1>12. CASE At1337 \/ \E r \in Reminder : Remind(r)
  <2>1. /\ events' = RemoveStart(events) /\ InBatch /\ pc = "batch"
        /\ batch' = batch \ {"TIMER"} /\ UNCHANGED <<timerReady, pc>>
    BY <1>12
    DEF At1337, Remind, TimerEvent, TimerHandled, InBatch, kernelVars
  <2>2. QED
    BY <1>1, <2>1, RemovingStep
<1>13. CASE At1338
  <2>1. PICK t \in TimeRead :
          \E q \in ScheduleNext1337(events, t) : events' = RemoveStart(q)
    BY <1>13 DEF At1338
  <2>2. PICK q \in ScheduleNext1337(events, t) : events' = RemoveStart(q)
    BY <2>1
  <2>3. q = events \/ Grown(events, q)
    BY <1>1, <1>2, ScheduledIsGrown
  <2>4. q \in TimeEventStates(Handler) /\ InOrder(q.list)
    BY <1>1, <2>3 DEF Grown
  <2>5. /\ InBatch /\ pc = "batch"
        /\ batch' = batch \ {"TIMER"} /\ UNCHANGED <<timerReady, pc>>
    BY <1>13 DEF At1338, TimerEvent, TimerHandled, InBatch, kernelVars
  <2>6. QED
    BY <2>2, <2>3, <2>4, <2>5, RemovingStep
<1>14. QED
  BY <1>3, <1>4, <1>5, <1>6, <1>7, <1>8, <1>9, <1>10, <1>11, <1>12, <1>13
  DEF Next, Bot, Start, Timer, Msgs, Kernel

-------------------------------------------------------------------------------
(* The theorems *)

LEMMA InitIInv == Init => IInv
<1> SUFFICES ASSUME Init PROVE IInv
  OBVIOUS
<1>1. TypeOK
  <2>1. events \in TimeEventStates(Handler)
    BY EmptySeq DEF Init, NoTimeEvents, TimeEventStates, TimerStates
  <2>2. socket \in Seq(Message) /\ inbox \in Seq(Message)
    BY EmptySeq DEF Init
  <2>3. now \in Nat /\ setBack \in 0..MaxSetBack /\ backlog \in 0..SendCap
    BY EventLoopAssumption DEF Init
  <2>4. status \in [Reminder -> StatusValues]
    BY DEF Init, StatusValues
  <2>5. QED
    BY <2>1, <2>2, <2>3, <2>4 DEF Init, TypeOK, PCs, Starting
<1>2. TimerInv
  BY DEF Init, NoTimeEvents, TimerInv, InOrder, ForHead, EnoughEvents, Due,
         ExpirationIsSeen, NoBatch, InBatch, list
<1>3. QED
  BY <1>1, <1>2 DEF IInv

\* The list stays sorted and the timer set for its head, whatever the loop of
\* bot.c is doing: the inductive invariant holds in every state.
THEOREM IInvAlways == Spec => []IInv
<1>1. IInv /\ [Next]_vars => IInv'
  BY TypeOKStep, TimerInvStep DEF IInv
<1>2. QED
  BY InitIInv, <1>1, PTL DEF Spec

\* Type correctness of the event loop, its kernel and its server.
THEOREM TypeCorrect == Spec => []TypeOK
<1>1. IInv => TypeOK
  BY DEF IInv
<1>2. QED
  BY IInvAlways, <1>1, PTL

\* No wake-up is lost: while an event is pending the timer is set for the first
\* one or its expiration will be reported, however handlers, messages and
\* expirations interleave and wherever the clock is set.
THEOREM TimerStaysArmed == Spec => []TimerIsArmed
<1>1. IInv => TimerIsArmed
  <2>1. SUFFICES ASSUME IInv, Running, list # <<>>
                 PROVE  /\ InOrder(list)
                        /\ events.deadline = Head(list).when
                        /\ \/ events.timer = "set"
                           \/ /\ events.timer = "expired"
                              /\ timerReady \/ InBatch \/ pc \in Starting
    BY DEF TimerIsArmed
  <2>2. events.timer \in TimerStates
    BY <2>1, ListFacts DEF IInv, TypeOK
  <2>3. QED
    BY <2>1, <2>2
    DEF IInv, TimerInv, ForHead, ExpirationIsSeen, TimerStates, list
<1>2. QED
  BY IInvAlways, <1>1, PTL

\* handle_time_event() never finds the list empty.
THEOREM TimerFindsEvent == Spec => []TimerHasEvent
<1>1. IInv => TimerHasEvent
  BY DEF IInv, TimerInv, EnoughEvents, TimerHasEvent
<1>2. QED
  BY IInvAlways, <1>1, PTL

-------------------------------------------------------------------------------
(* Nothing is handled early, as long as the clock is not set back *)

OnTime ==
    list # <<>> /\ (InBatch \/ events.timer = "expired") =>
        Head(list).when <= now

LEMMA ClockStep ==
    ASSUME TypeOK, [Next]_vars, MaxSetBack = 0
    PROVE  now' \in Nat /\ now <= now'
<1> USE DEF TypeOK
<1>1. CASE now' = now
  BY <1>1
<1>2. CASE Tick
  BY <1>2 DEF Tick
<1>3. ~SetBack
  BY DEF SetBack
<1>4. QED
  BY <1>1, <1>2, <1>3
  DEF Next, Bot, Start, Timer, Msgs, Kernel, Server, vars, Restored, Connect,
      EpollWait, BatchHandled, ServerData, ServerGone, TimerSendFails, SendFails,
      ReadSignal, SendQuit, QuitFails, MsgsHandled, Ping, Congratulate, NotLeet,
      Confirm, RejectReminder, ReplyFails, Signal, Expire, InitLeetMonitor,
      RestoreReminder, AddReminder, At1337, At1338, Remind, TimerHandled,
      MsgHandled, ServerSends, ServerCloses, ServerReads, clockVars

\* What a step may do to the list and to the notification of the timer.
LEMMA EventsStep ==
    ASSUME IInv, [Next]_vars
    PROVE  \/ UNCHANGED events /\ (InBatch' => InBatch)
           \/ Expire
           \/ EpollWait
           \/ Grown(events, events') /\ UNCHANGED batch
           \/ ~InBatch' /\ (events'.list # <<>> => events'.timer = "set")
<1>1. /\ events \in TimeEventStates(Handler) /\ InOrder(events.list)
      /\ ForHead(events)
  BY DEF IInv, TypeOK, TimerInv, list
<1>2. Reminder \subseteq Handler /\ TimeRead \subseteq Nat
  BY DEF Handler, TimeRead
<1>3. CASE InitLeetMonitor
  <2>1. PICK t \in TimeRead : events' \in ScheduleNext1337(events, t)
    BY <1>3 DEF InitLeetMonitor
  <2>2. events' = events \/ Grown(events, events')
    BY <1>1, <1>2, <2>1, ScheduledIsGrown
  <2>3. UNCHANGED batch
    BY <1>3 DEF InitLeetMonitor
  <2>4. QED
    BY <2>2, <2>3 DEF InBatch
<1>4. ASSUME NEW r \in Reminder, NEW when \in 0..Horizon,
             RestoreReminder(r, when)
      PROVE  Grown(events, events') /\ UNCHANGED batch
  <2>1. when \in Nat /\ r \in Handler
    BY <1>2, EventLoopAssumption
  <2>2. QED
    BY <1>1, <1>4, <2>1, AddedIsGrown DEF RestoreReminder, loopVars
<1>5. CASE AddReminder
  <2>1. Head(inbox) \in Message
    BY <1>5, HeadTailProperties DEF AddReminder, Handling, IInv, TypeOK
  <2>2. msg.time \in Nat /\ msg.what \in Handler
    BY <1>2, <1>5, <2>1 DEF AddReminder, msg, Message
  <2>3. QED
    BY <1>1, <1>5, <2>2, AddedIsGrown DEF AddReminder, MsgHandled
<1>6. CASE At1337 \/ At1338 \/ \E r \in Reminder : Remind(r)
  <2>1. ~InBatch' /\ events.list # <<>>
    BY <1>6 DEF At1337, At1338, Remind, TimerEvent, TimerHandled, InBatch
  <2>2. PICK q : /\ q = events \/ Grown(events, q)
                 /\ events' = RemoveStart(q)
    <3>1. ASSUME NEW t \in TimeRead, NEW q \in ScheduleNext1337(events, t)
          PROVE  q = events \/ Grown(events, q)
      BY <1>1, <1>2, ScheduledIsGrown
    <3>2. QED
      BY <1>6, <3>1 DEF At1337, At1338, Remind
  <2>3. q \in TimeEventStates(Handler) /\ InOrder(q.list)
    BY <1>1, <2>2 DEF Grown
  <2>4. q.list # <<>>
    BY <1>1, <2>1, <2>2, <2>3, ListFacts DEF Grown
  <2>5. events'.list # <<>> => events'.timer = "set"
    BY <2>2, <2>3, <2>4, RemoveStartProps
  <2>6. QED
    BY <2>1, <2>5
<1>7. QED
  BY <1>3, <1>4, <1>5, <1>6
  DEF Next, Bot, Start, Timer, Msgs, Kernel, Server, vars, Restored, Connect,
      BatchHandled, ServerData, ServerGone, TimerSendFails, SendFails,
      ReadSignal, SendQuit, QuitFails, MsgsHandled, Ping, Congratulate, NotLeet,
      Confirm, RejectReminder, ReplyFails, Signal, Tick, SetBack, MsgHandled,
      ServerSends, ServerCloses, ServerReads, loopVars, InBatch

LEMMA OnTimeStep ==
    ASSUME IInv, OnTime, [Next]_vars, MaxSetBack = 0
    PROVE  OnTime'
<1>1. now \in Nat /\ now' \in Nat /\ now <= now'
  BY ClockStep DEF IInv, TypeOK
<1>2. /\ events \in TimeEventStates(Handler)
      /\ events' \in TimeEventStates(Handler)
      /\ ForHead(events)
      /\ TimerInv'
  BY EventsTyped, TimerInvStep DEF IInv, TypeOK, TimerInv
<1>3. /\ events.list # <<>> => Head(events.list).when \in Nat
      /\ events'.list # <<>> => Head(events'.list).when \in Nat
      /\ InBatch => events.list # <<>>
  BY <1>2, ListFacts DEF IInv, TimerInv, EnoughEvents, list
<1>4. CASE UNCHANGED events /\ (InBatch' => InBatch)
  BY <1>1, <1>3, <1>4 DEF OnTime, list
<1>5. CASE Expire
  <2>1. /\ events'.list = events.list /\ now' = now
        /\ events.deadline <= now
        /\ events.timer = "set"
    BY <1>2, <1>5 DEF Expire, TimeEventStates, clockVars
  <2>2. events.list # <<>> => Head(events.list).when <= now
    BY <1>2, <2>1 DEF ForHead
  <2>3. QED
    BY <2>1, <2>2 DEF OnTime, list
<1>6. CASE EpollWait
  <2>1. /\ UNCHANGED events /\ now' = now /\ batch' = Ready
    BY <1>6 DEF EpollWait, clockVars
  <2>2. InBatch' => events.timer = "expired"
    BY <2>1 DEF InBatch, Ready
  <2>3. QED
    BY <2>1, <2>2 DEF OnTime, list
<1>7. CASE Grown(events, events') /\ UNCHANGED batch
  <2>1. InBatch' \/ events'.timer = "expired" =>
          events.list # <<>> /\ (InBatch \/ events.timer = "expired")
    BY <1>3, <1>7 DEF Grown, InBatch
  <2>2. events.list # <<>> => Head(events'.list).when <= Head(events.list).when
    BY <1>7 DEF Grown
  <2>3. QED
    BY <1>1, <1>3, <2>1, <2>2 DEF OnTime, list
<1>8. CASE ~InBatch' /\ (events'.list # <<>> => events'.timer = "set")
  BY <1>8 DEF OnTime, list
<1>9. QED
  BY <1>4, <1>5, <1>6, <1>7, <1>8, EventsStep

\* While the clock is not set back, no event is handled before its time, even
\* if a new first event replaces the one that the timer expired for.
THEOREM NothingIsEarly ==
    ASSUME MaxSetBack = 0
    PROVE  Spec => []NeverEarly
<1>1. Init => OnTime
  BY DEF Init, NoTimeEvents, OnTime, list
<1>2. IInv /\ OnTime /\ [Next]_vars => OnTime'
  BY OnTimeStep
<1>3. IInv /\ OnTime => NeverEarly
  BY DEF IInv, TimerInv, EnoughEvents, OnTime, NeverEarly
<1>4. QED
  BY IInvAlways, <1>1, <1>2, <1>3, PTL DEF Spec

-------------------------------------------------------------------------------
(* Times of day *)

LEMMA TimesLess ==
    ASSUME NEW a \in Nat, NEW b \in Nat, NEW D \in Nat, a < b
    PROVE  D * a + D <= D * b
<1>1. PICK c \in Nat : b = a + 1 + c
  <2>1. b - a - 1 \in Nat /\ b = a + 1 + (b - a - 1)
    OBVIOUS
  <2>2. QED
    BY <2>1
<1>2. D * c \in Nat
  OBVIOUS
<1>3. D * (a + 1 + c) = D * a + D + D * c
  OBVIOUS
<1>4. QED
  BY <1>1, <1>2, <1>3

\* A number is a number of whole days and a time of day in one way.
LEMMA DayAndTime ==
    ASSUME NEW a \in Nat, NEW b \in Nat, NEW D \in Nat \ {0},
           NEW r \in 0..(D - 1), NEW s \in 0..(D - 1),
           D * a + r = D * b + s
    PROVE  a = b /\ r = s
<1>1. D * a \in Nat /\ D * b \in Nat
  OBVIOUS
<1>2. ~(a < b)
  <2>1. a < b => D * a + D <= D * b
    BY TimesLess
  <2>2. QED
    BY <1>1, <2>1
<1>3. ~(b < a)
  <2>1. b < a => D * b + D <= D * a
    BY TimesLess
  <2>2. QED
    BY <1>1, <2>1
<1>4. a = b
  BY <1>2, <1>3
<1>5. QED
  BY <1>1, <1>4

LEMMA Divided ==
    ASSUME NEW t \in Nat, NEW D \in Nat \ {0}
    PROVE  \E k \in Nat : t = D * k + (t % D) /\ t % D \in 0..(D - 1)
<1>1. t = D * (t \div D) + (t % D)
  OBVIOUS
<1>2. t \div D \in Nat
  OBVIOUS
<1>3. t % D \in 0..(D - 1)
  OBVIOUS
<1>4. QED
  BY <1>1, <1>2, <1>3

LEMMA TimeOfThatDay ==
    ASSUME NEW k \in Nat, NEW D \in Nat \ {0}, NEW s \in 0..(D - 1)
    PROVE  (D * k + s) % D = s
<1> DEFINE t == D * k + s
           r == t % D
<1>1. t \in Nat
  OBVIOUS
<1>2. t = D * k + s
  OBVIOUS
<1> HIDE DEF t
<1>3. PICK j \in Nat : t = D * j + r /\ r \in 0..(D - 1)
  BY <1>1, Divided
<1> HIDE DEF r
<1>4. D * k + s = D * j + r
  BY <1>2, <1>3
<1>5. s = r
  BY <1>3, <1>4, DayAndTime
<1>6. QED
  BY <1>5 DEF t, r

\* The first time after t that is s into a day of length D.
NextAt(D, s, t) ==
    IF t % D >= s THEN (t - (t % D)) + s + D ELSE (t - (t % D)) + s

\* What is g later than such a time, and no more than g after t, comes before
\* it.
LEMMA FirstAfter ==
    ASSUME NEW D \in Nat \ {0}, NEW s \in Nat, NEW g \in Nat, s + g < D,
           NEW t \in Nat
    PROVE  /\ (NextAt(D, s, t) + g) % D = s + g
           /\ t < NextAt(D, s, t)
           /\ \A w \in Nat :
                w % D = s + g /\ w <= t + g => w < NextAt(D, s, t)
<1> DEFINE n == NextAt(D, s, t)
<1>0. n = IF t % D >= s THEN (t - (t % D)) + s + D ELSE (t - (t % D)) + s
  BY DEF NextAt
<1> HIDE DEF n
<1>1. PICK k \in Nat : t = D * k + (t % D) /\ t % D \in 0..(D - 1)
  BY Divided
<1>2. PICK m \in {k, k + 1} : n = D * m + s /\ (m = k + 1 <=> t % D >= s)
  <2>1. D * (k + 1) = D * k + D
    OBVIOUS
  <2>2. CASE t % D >= s
    BY <1>0, <1>1, <2>1, <2>2
  <2>3. CASE ~(t % D >= s)
    BY <1>0, <1>1, <2>3
  <2>4. QED
    BY <2>2, <2>3
<1>3. m \in Nat /\ s + g \in 0..(D - 1)
  BY <1>2
<1>4. n + g = D * m + (s + g)
  BY <1>2
<1>5. (n + g) % D = s + g
  BY <1>3, <1>4, TimeOfThatDay
<1>6. t < n
  BY <1>0, <1>1
<1>7. ASSUME NEW w \in Nat, w % D = s + g, w <= t + g
      PROVE  w < n
  <2>1. PICK j \in Nat : w = D * j + (s + g)
    <3>1. \E j \in Nat : w = D * j + (w % D)
      BY Divided
    <3>2. w % D = s + g
      BY <1>7
    <3>3. QED
      BY <3>1, <3>2
  <2>2. D * k \in Nat /\ D * j \in Nat /\ D * m \in Nat
    BY <1>2
  <2>3. D * j + s <= D * k + (t % D)
    BY <1>1, <1>7, <2>1, <2>2
  <2>4. j < m
    <3>1. SUFFICES ASSUME m <= j
                   PROVE  FALSE
      BY <1>3
    <3>2. CASE m = j
      <4>1. m = k + 1
        BY <1>1, <1>2, <2>2, <2>3, <3>2
      <4>2. D * k + D <= D * j
        BY <3>2, <4>1
      <4>3. QED
        BY <1>1, <2>2, <2>3, <4>2
    <3>3. CASE m < j
      <4>1. k < j
        BY <1>2, <3>3
      <4>2. D * k + D <= D * j
        BY <4>1, TimesLess
      <4>3. QED
        BY <1>1, <2>2, <2>3, <4>2
    <3>4. QED
      BY <1>3, <3>1, <3>2, <3>3
  <2>5. D * j + D <= D * m
    BY <1>3, <2>4, TimesLess
  <2>6. QED
    BY <1>2, <2>1, <2>2, <2>5
<1>8. QED
  BY <1>5, <1>6, <1>7 DEF n

\* What schedule_next_1337() computes: the next 13:37 is after the present, and
\* after every 13:38 that has not passed by more than a minute.
LEMMA Next1337IsNext ==
    ASSUME NEW t \in Nat
    PROVE  /\ t < Next1337(t)
           /\ (Next1337(t) + LeetLength) % DayLength = LeetStart + LeetLength
           /\ \A w \in Nat :
                w % DayLength = LeetStart + LeetLength /\ w <= t + LeetLength =>
                    w < Next1337(t)
<1>1. /\ DayLength \in Nat \ {0} /\ LeetStart \in Nat /\ LeetLength \in Nat
      /\ LeetStart + LeetLength < DayLength
  BY EventLoopAssumption
<1>2. Next1337(t) = NextAt(DayLength, LeetStart, t)
  BY DEF Next1337, NextAt
<1>3. /\ (NextAt(DayLength, LeetStart, t) + LeetLength) % DayLength
            = LeetStart + LeetLength
      /\ t < NextAt(DayLength, LeetStart, t)
      /\ \A w \in Nat :
           w % DayLength = LeetStart + LeetLength /\ w <= t + LeetLength =>
               w < NextAt(DayLength, LeetStart, t)
  BY <1>1, FirstAfter, Zenon
<1>4. QED
  BY <1>2, <1>3, Zenon

-------------------------------------------------------------------------------
(* schedule_next_1337() *)

\* The events it registers.
Opening(t) == [when |-> Next1337(t), handler |-> "at_1337"]
Closing(t) == [when |-> Next1337(t) + LeetLength, handler |-> "at_1338"]

\* r is q with the events of new, registered for w or later.
Registered(q, r, new, w) ==
    /\ r \in TimeEventStates(Handler)
    /\ InOrder(r.list)
    /\ Range(r.list) = Range(q.list) \cup new
    /\ q.list # <<>> => r.list # <<>> /\ Head(r.list) \in {Head(q.list)} \cup new
    /\ q.list # <<>> /\ Head(q.list).when <= w => Head(r.list) = Head(q.list)
    /\ \A k \in Handler :
         /\ AtMostOne(q.list, k)
         /\ (\E e \in new : e.handler = k) =>
              \A f \in Range(q.list) : f.handler # k
         => AtMostOne(r.list, k)

LEMMA AddedIsRegistered ==
    ASSUME NEW q \in TimeEventStates(Handler), InOrder(q.list),
           NEW v \in Nat, NEW w \in Nat, w <= v, NEW h \in Handler
    PROVE  Registered(q, AddTimeEvent(q, v, h), {[when |-> v, handler |-> h]}, w)
<1> DEFINE e == [when |-> v, handler |-> h]
           r == AddTimeEvent(q, v, h)
<1>1. r \in TimeEventStates(Handler) /\ InOrder(r.list)
  BY AddTimeEventProps
<1>2. /\ Range(r.list) = Range(q.list) \cup {e}
      /\ r.list # <<>>
      /\ Head(r.list) = IF q.list = <<>> \/ v < Head(q.list).when THEN e
                        ELSE Head(q.list)
      /\ \A k \in Handler : k # h /\ AtMostOne(q.list, k) => AtMostOne(r.list, k)
      /\ (\A f \in Range(q.list) : f.handler # h) => AtMostOne(r.list, h)
  BY AddedEvents
<1>3. e.handler = h
  OBVIOUS
<1>4. q.list # <<>> => Head(q.list).when \in Nat
  BY ListFacts
<1> HIDE DEF e, r
<1>5. QED
  BY <1>1, <1>2, <1>3, <1>4 DEF Registered, e, r

\* schedule_next_1337() registers its two events, or, where a step of it fails,
\* some of them.
LEMMA Scheduled ==
    ASSUME NEW q \in TimeEventStates(Handler), InOrder(q.list),
           NEW t \in Nat, NEW r \in ScheduleNext1337(q, t)
    PROVE  \E new \in SUBSET {Opening(t), Closing(t)} :
             /\ Registered(q, r, new, Next1337(t))
             /\ ~ClockFails => new = {Opening(t), Closing(t)}
<1> DEFINE o == Opening(t)
           c == Closing(t)
           w == Next1337(t)
<1>1. /\ w \in Nat /\ w + LeetLength \in Nat /\ w <= w /\ w <= w + LeetLength
      /\ "at_1337" \in Handler /\ "at_1338" \in Handler
  BY Next1337Type, EventLoopAssumption DEF Handler
<1>2. ASSUME NEW u \in TimeEventStates(Handler), InOrder(u.list)
      PROVE  /\ Registered(u, Add1337(u, t), {o}, w)
             /\ Registered(u, Add1338(u, t), {c}, w)
  <2> HIDE DEF w
  <2>1. Registered(u, AddTimeEvent(u, w, "at_1337"),
                   {[when |-> w, handler |-> "at_1337"]}, w)
    BY <1>1, <1>2, AddedIsRegistered
  <2>2. Registered(u, AddTimeEvent(u, w + LeetLength, "at_1338"),
                   {[when |-> w + LeetLength, handler |-> "at_1338"]}, w)
    BY <1>1, <1>2, AddedIsRegistered
  <2>3. QED
    BY <2>1, <2>2 DEF Add1337, Add1338, Opening, Closing, w
<1>3. Registered(q, q, {}, w)
  BY DEF Registered
<1>4. Registered(q, Add1338(Add1337(q, t), t), {o, c}, w)
  <2> DEFINE u == Add1337(q, t)
             v == Add1338(u, t)
  <2>1. Registered(q, u, {o}, w)
    BY <1>2
  <2>2. u \in TimeEventStates(Handler) /\ InOrder(u.list)
    BY <2>1 DEF Registered
  <2>3. Registered(u, v, {c}, w)
    <3> HIDE DEF u
    <3>1. QED
      BY <1>2, <2>2
  <2>4. o.handler = "at_1337" /\ c.handler = "at_1338"
    BY DEF Opening, Closing
  <2> HIDE DEF o, c, w, u, v
  <2>5. QED
    <3>1. Range(v.list) = Range(q.list) \cup {o, c}
      BY <2>1, <2>3 DEF Registered
    <3>2. q.list # <<>> =>
            v.list # <<>> /\ Head(v.list) \in {Head(q.list), o, c}
      BY <2>1, <2>3 DEF Registered
    <3>3. q.list # <<>> /\ Head(q.list).when <= w =>
            Head(v.list) = Head(q.list)
      BY <2>1, <2>3 DEF Registered
    <3>4. ASSUME NEW k \in Handler, AtMostOne(q.list, k),
                 (\E e \in {o, c} : e.handler = k) =>
                    \A f \in Range(q.list) : f.handler # k
          PROVE  AtMostOne(v.list, k)
      <4>1. AtMostOne(u.list, k)
        BY <2>1, <3>4 DEF Registered
      <4>2. c.handler = k => \A f \in Range(u.list) : f.handler # k
        BY <2>1, <2>4, <3>4 DEF Registered
      <4>3. QED
        BY <2>3, <4>1, <4>2 DEF Registered
    <3>5. v \in TimeEventStates(Handler) /\ InOrder(v.list)
      BY <2>3 DEF Registered
    <3>6. QED
      BY <3>1, <3>2, <3>3, <3>4, <3>5 DEF Registered, u, v
<1>5. \/ r = Add1338(Add1337(q, t), t)
      \/ ClockFails /\ r \in {q, Add1337(q, t), Add1338(q, t)}
  BY EventLoopAssumption DEF ScheduleNext1337
<1>6. /\ Registered(q, Add1337(q, t), {o}, w)
      /\ Registered(q, Add1338(q, t), {c}, w)
  BY <1>2
<1> HIDE DEF o, c, w
<1>7. \E new \in SUBSET {o, c} :
        /\ Registered(q, r, new, w)
        /\ ~ClockFails => new = {o, c}
  <2>1. CASE r = Add1338(Add1337(q, t), t)
    BY <1>4, <2>1
  <2>2. CASE ClockFails /\ r = q
    BY <1>3, <2>2
  <2>3. CASE ClockFails /\ r = Add1337(q, t)
    BY <1>6, <2>3
  <2>4. CASE ClockFails /\ r = Add1338(q, t)
    BY <1>6, <2>4
  <2>5. QED
    BY <1>5, <2>1, <2>2, <2>3, <2>4
<1>8. QED
  BY <1>7 DEF o, c, w

\* Scheduling the next day and removing the first event commute, as long as
\* that event is not later than what is scheduled.
LEMMA ScheduledBehindHead ==
    ASSUME NEW q \in TimeEventStates(Handler), NEW u \in TimeEventStates(Handler),
           InOrder(q.list), q.list # <<>>, u.list = Tail(q.list),
           NEW t \in Nat, Head(q.list).when <= Next1337(t),
           NEW r \in ScheduleNext1337(q, t)
    PROVE  \E s \in ScheduleNext1337(u, t) : Tail(r.list) = s.list
<1> DEFINE w == Next1337(t)
<1>1. /\ w \in Nat /\ w + LeetLength \in Nat /\ w <= w + LeetLength
      /\ "at_1337" \in Handler /\ "at_1338" \in Handler
  BY Next1337Type, EventLoopAssumption, SMTT(30) DEF Handler
<1>2. Head(q.list).when \in Nat /\ Head(q.list).when <= w
  BY ListFacts
<1>3. ASSUME NEW x \in TimeEventStates(Handler), NEW y \in TimeEventStates(Handler),
             InOrder(x.list), x.list # <<>>, y.list = Tail(x.list),
             Head(x.list).when \in Nat, Head(x.list).when <= w
      PROVE  /\ Tail(Add1337(x, t).list) = Add1337(y, t).list
             /\ Tail(Add1338(x, t).list) = Add1338(y, t).list
  <2> HIDE DEF w
  <2>1. Tail(AddTimeEvent(x, w, "at_1337").list)
          = AddTimeEvent(y, w, "at_1337").list
    BY <1>1, <1>3, AddedBehindHead
  <2>2. Head(x.list).when <= w + LeetLength
    BY <1>1, <1>3, EventLoopAssumption, SMTT(30)
  <2>3. Tail(AddTimeEvent(x, w + LeetLength, "at_1338").list)
          = AddTimeEvent(y, w + LeetLength, "at_1338").list
    BY <1>1, <1>3, <2>2, AddedBehindHead
  <2>4. QED
    BY <2>1, <2>3 DEF Add1337, Add1338, w
<1>4. Tail(Add1338(Add1337(q, t), t).list) = Add1338(Add1337(u, t), t).list
  <2> DEFINE x == Add1337(q, t)
             y == Add1337(u, t)
  <2>1. InOrder(u.list)
    BY TailEvents DEF TimeEventStates
  <2>2. /\ x \in TimeEventStates(Handler) /\ InOrder(x.list)
        /\ x.list # <<>> /\ Head(x.list) = Head(q.list)
    <3> HIDE DEF w
    <3>1. Registered(q, AddTimeEvent(q, w, "at_1337"),
                     {[when |-> w, handler |-> "at_1337"]}, w)
      BY <1>1, AddedIsRegistered
    <3>2. QED
      BY <1>2, <3>1 DEF Registered, Add1337, w
  <2>3. y \in TimeEventStates(Handler)
    BY <1>1, <2>1, AddTimeEventProps DEF Add1337
  <2>4. y.list = Tail(x.list)
    BY <1>2, <1>3
  <2> HIDE DEF x, y, w
  <2>5. QED
    BY <1>2, <1>3, <2>2, <2>3, <2>4 DEF x, y
<1>5. /\ Tail(Add1337(q, t).list) = Add1337(u, t).list
      /\ Tail(Add1338(q, t).list) = Add1338(u, t).list
  BY <1>2, <1>3
<1>6. QED
  BY <1>4, <1>5 DEF ScheduleNext1337

-------------------------------------------------------------------------------
(* What is asked for *)

\* No two messages ask for the same reminder.
AskDistinct(l) ==
    \A i, j \in DOMAIN l :
        l[i].what = l[j].what /\ l[i].what \in Reminder => i = j

\* A reminder that was asked for is in one message that was not handled yet.
AskedOnce ==
    /\ \A m \in Range(inbox) \cup Range(socket) :
         m.what \in Reminder => status[m.what] = "asked"
    /\ AskDistinct(inbox)
    /\ AskDistinct(socket)
    /\ \A m \in Range(inbox), n \in Range(socket) :
         m.what \in Reminder => m.what # n.what

LEMMA AppendedAsks ==
    ASSUME NEW l \in Seq(Message), NEW m \in Message, AskDistinct(l),
           \A n \in Range(l) : n.what \in Reminder => n.what # m.what
    PROVE  /\ Range(Append(l, m)) = Range(l) \cup {m}
           /\ AskDistinct(Append(l, m))
<1> DEFINE r == Append(l, m)
<1>1. /\ Len(l) \in Nat /\ DOMAIN l = 1..Len(l) /\ DOMAIN r = 1..(Len(l) + 1)
      /\ \A i \in 1..Len(l) : r[i] = l[i]
      /\ r[Len(l) + 1] = m
  BY AppendProperties
<1> HIDE DEF r
<1>2. \A i \in 1..(Len(l) + 1) : i \in 1..Len(l) \/ i = Len(l) + 1
  BY <1>1
<1>3. Range(r) = Range(l) \cup {m}
  <2>1. ASSUME NEW x \in Range(r)
        PROVE  x \in Range(l) \cup {m}
    BY <1>1, <1>2 DEF Range
  <2>2. ASSUME NEW x \in Range(l)
        PROVE  x \in Range(r)
    BY <1>1 DEF Range
  <2>3. m \in Range(r)
    BY <1>1 DEF Range
  <2>4. QED
    BY <2>1, <2>2, <2>3
<1>4. \A i \in 1..Len(l) : l[i].what \in Reminder => l[i].what # m.what
  BY <1>1 DEF Range
<1>5. AskDistinct(r)
  BY <1>1, <1>2, <1>4 DEF AskDistinct
<1>6. QED
  BY <1>3, <1>5 DEF r

LEMMA RestAsks ==
    ASSUME NEW l \in Seq(Message), l # <<>>, AskDistinct(l)
    PROVE  /\ Head(l) \in Range(l)
           /\ Range(Tail(l)) \subseteq Range(l)
           /\ AskDistinct(Tail(l))
           /\ \A m \in Range(Tail(l)) :
                m.what \in Reminder => m.what # Head(l).what
<1> DEFINE t == Tail(l)
<1>1. /\ t \in Seq(Message) /\ Len(t) = Len(l) - 1
      /\ \A i \in 1..Len(t) : t[i] = l[i + 1]
  BY HeadTailProperties
<1>2. /\ Len(l) \in Nat /\ DOMAIN l = 1..Len(l) /\ DOMAIN t = 1..(Len(l) - 1)
      /\ Head(l) = l[1] /\ 1 \in 1..Len(l)
  BY <1>1
<1> HIDE DEF t
<1>3. \A i \in 1..(Len(l) - 1) : i + 1 \in 1..Len(l) /\ t[i] = l[i + 1]
  BY <1>1, <1>2
<1>4. Head(l) \in Range(l) /\ Range(t) \subseteq Range(l)
  BY <1>2, <1>3, SMTT(30) DEF Range
<1>5. ASSUME NEW i \in 1..(Len(l) - 1), NEW j \in 1..(Len(l) - 1),
             t[i].what = t[j].what, t[i].what \in Reminder
      PROVE  i = j
  <2>1. i + 1 = j + 1
    BY <1>2, <1>3, <1>5 DEF AskDistinct
  <2>2. QED
    BY <1>2, <2>1
<1>6. ASSUME NEW i \in 1..(Len(l) - 1), t[i].what \in Reminder,
             t[i].what = Head(l).what
      PROVE  FALSE
  <2>1. i + 1 = 1
    BY <1>2, <1>3, <1>6 DEF AskDistinct
  <2>2. QED
    BY <1>2, <2>1
<1>7. QED
  BY <1>2, <1>4, <1>5, <1>6 DEF AskDistinct, Range, t

LEMMA SplitAsks ==
    ASSUME NEW l \in Seq(Message), AskDistinct(l), NEW n \in 1..Len(l)
    PROVE  LET a == SubSeq(l, 1, n)
               b == SubSeq(l, n + 1, Len(l))
           IN  /\ Range(a) \subseteq Range(l) /\ Range(b) \subseteq Range(l)
               /\ AskDistinct(a) /\ AskDistinct(b)
               /\ \A x \in Range(a), y \in Range(b) :
                    x.what \in Reminder => x.what # y.what
<1> DEFINE a == SubSeq(l, 1, n)
           b == SubSeq(l, n + 1, Len(l))
<1>1. /\ Len(l) \in Nat /\ DOMAIN l = 1..Len(l)
      /\ \A i \in 1..Len(l) : l[i] \in Message
  BY LenProperties, ElementOfSeq
<1>2. /\ DOMAIN a = 1..n
      /\ \A i \in 1..n : a[i] = l[i] /\ i \in 1..Len(l)
  <2>1. /\ a \in Seq(Message)
        /\ Len(a) = IF 1 <= n THEN n - 1 + 1 ELSE 0
        /\ \A i \in 1..(n - 1 + 1) : a[i] = l[1 + i - 1]
    BY <1>1, SubSeqProperties
  <2>2. Len(a) = n /\ DOMAIN a = 1..n
    BY <1>1, <2>1, LenProperties
  <2>3. \A i \in 1..n : i \in 1..(n - 1 + 1) /\ 1 + i - 1 = i /\ i \in 1..Len(l)
    BY <1>1
  <2>4. QED
    BY <2>1, <2>2, <2>3
<1>3. /\ DOMAIN b = 1..(Len(l) - n)
      /\ \A i \in 1..(Len(l) - n) : b[i] = l[n + i] /\ n + i \in 1..Len(l)
  <2>1. /\ b \in Seq(Message)
        /\ Len(b) = IF n + 1 <= Len(l) THEN Len(l) - (n + 1) + 1 ELSE 0
        /\ \A i \in 1..(Len(l) - (n + 1) + 1) : b[i] = l[n + 1 + i - 1]
    <3>1. \A i \in (n + 1)..Len(l) : l[i] \in Message
      BY <1>1
    <3>2. QED
      BY <1>1, <3>1, SubSeqProperties
  <2>2. Len(b) = Len(l) - n /\ DOMAIN b = 1..(Len(l) - n)
    BY <1>1, <2>1, LenProperties
  <2>3. \A i \in 1..(Len(l) - n) :
          /\ i \in 1..(Len(l) - (n + 1) + 1)
          /\ n + 1 + i - 1 = n + i
          /\ n + i \in 1..Len(l)
    BY <1>1
  <2>4. QED
    BY <2>1, <2>2, <2>3
<1> HIDE DEF a, b
<1>4. Range(a) \subseteq Range(l) /\ Range(b) \subseteq Range(l)
  BY <1>1, <1>2, <1>3 DEF Range
<1>5. AskDistinct(a)
  BY <1>1, <1>2 DEF AskDistinct
<1>6. AskDistinct(b)
  <2>1. ASSUME NEW i \in 1..(Len(l) - n), NEW j \in 1..(Len(l) - n),
               b[i].what = b[j].what, b[i].what \in Reminder
        PROVE  i = j
    <3>1. n + i = n + j
      BY <1>1, <1>3, <2>1 DEF AskDistinct
    <3>2. QED
      BY <1>1, <3>1
  <2>2. QED
    BY <1>3, <2>1 DEF AskDistinct
<1>7. ASSUME NEW i \in 1..n, NEW j \in 1..(Len(l) - n),
             a[i].what \in Reminder, a[i].what = b[j].what
      PROVE  FALSE
  <2>1. i = n + j
    BY <1>1, <1>2, <1>3, <1>7 DEF AskDistinct
  <2>2. QED
    BY <1>1, <2>1
<1>8. QED
  BY <1>2, <1>3, <1>4, <1>5, <1>6, <1>7 DEF Range, a, b

-------------------------------------------------------------------------------
(* Reminders *)

InList(h) == \E e \in Range(list) : e.handler = h

\* A reminder is in the list, once, from when it is accepted until it is sent.
PendInv ==
    \A r \in Reminder :
        /\ AtMostOne(list, r)
        /\ InList(r) <=> status[r] = "pending"

\* What restore_remind_state() and handle_remind() do to the list.
Registers(r, when) ==
    /\ pc # "init"
    /\ pc' # "init"
    /\ events' = AddTimeEvent(events, when, r)
    /\ status' = [status EXCEPT ![r] = "pending"]
    /\ UNCHANGED <<now, want1337>>

\* A step that leaves the list and the reminders in it alone.
Quiet ==
    /\ UNCHANGED list
    /\ \A r \in Reminder : status'[r] = "pending" <=> status[r] = "pending"
    /\ want1337' => want1337
    /\ pc' = "init" <=> pc = "init"

\* The facts about the list that the steps below start from.
LEMMA ListBasics ==
    ASSUME IInv
    PROVE  /\ events \in TimeEventStates(Handler)
           /\ list \in Seq(TimeEvents(Handler))
           /\ InOrder(list)
           /\ Reminder \subseteq Handler
           /\ {"at_1337", "at_1338"} \subseteq Handler
           /\ {"at_1337", "at_1338"} \cap Reminder = {}
           /\ TimeRead \subseteq Nat
<1>1. events \in TimeEventStates(Handler) /\ InOrder(list)
  BY DEF IInv, TypeOK, TimerInv
<1>2. list \in Seq(TimeEvents(Handler))
  BY <1>1 DEF TimeEventStates, list
<1>3. QED
  BY <1>1, <1>2, EventLoopAssumption DEF Handler, TimeRead

\* The steps that change the list, or what it means.
LEMMA ListStep ==
    ASSUME IInv, AskedOnce, [Next]_vars
    PROVE  \/ Quiet
           \/ InitLeetMonitor
           \/ \E r \in Reminder, when \in Nat :
                status[r] # "pending" /\ Registers(r, when)
           \/ At1337
           \/ At1338
           \/ \E r \in Reminder : Remind(r)
<1>1. status \in [Reminder -> StatusValues] /\ inbox \in Seq(Message)
  BY DEF IInv, TypeOK
<1>2. Handling => inbox # <<>> /\ msg \in Message /\ msg \in Range(inbox)
  BY <1>1, HeadTailProperties, RestAsks DEF Handling, msg, AskedOnce
<1>3. ASSUME NEW r \in Reminder, NEW when \in 0..Horizon,
             RestoreReminder(r, when)
      PROVE  when \in Nat /\ status[r] # "pending" /\ Registers(r, when)
  BY <1>3, EventLoopAssumption
  DEF RestoreReminder, Registers, clockVars, loopVars
<1>4. CASE AddReminder
  <2>1. Handling /\ msg.what \in Reminder
    BY <1>4 DEF AddReminder
  <2>2. msg.time \in Nat
    BY <1>2, <2>1 DEF Message
  <2>3. status[msg.what] # "pending"
    BY <1>2, <2>1 DEF AskedOnce
  <2>4. Registers(msg.what, msg.time)
    BY <1>4 DEF AddReminder, Registers, Handling, MsgHandled, clockVars
  <2>5. QED
    BY <2>1, <2>2, <2>3, <2>4
<1>5. CASE RejectReminder
  <2>1. Handling /\ msg.what \in Reminder
    BY <1>5 DEF RejectReminder, IsRejected
  <2>2. status[msg.what] # "pending"
    BY <1>2, <2>1 DEF AskedOnce
  <2>3. QED
    BY <1>1, <1>5, <2>1, <2>2 DEF RejectReminder, Quiet, list
<1>6. ASSUME NEW m \in [what : Chat \cup Reminder, time : 0..Horizon],
             ServerSends(m)
      PROVE  Quiet
  BY <1>1, <1>6 DEF ServerSends, Quiet, list, loopVars
<1>7. CASE Expire
  BY <1>7, ListBasics DEF Expire, Quiet, list, loopVars, TimeEventStates
<1>8. CASE UNCHANGED <<events, status>> /\ (want1337' => want1337)
           /\ (pc' = "init" <=> pc = "init")
  BY <1>8 DEF Quiet, list
<1>9. QED
  BY <1>3, <1>4, <1>5, <1>6, <1>7, <1>8
  DEF Next, Bot, Start, Timer, Msgs, Kernel, Server, vars, Restored, Connect,
      EpollWait, BatchHandled, ServerData, ServerGone, TimerSendFails, SendFails,
      ReadSignal, SendQuit, QuitFails, MsgsHandled, Ping, Congratulate, NotLeet,
      Confirm, ReplyFails, Signal, Tick, SetBack, MsgHandled,
      ServerCloses, ServerReads, loopVars, IsPing, IsLeet, IsRejected, Handling,
      TimerEvent

LEMMA PendInvStep ==
    ASSUME IInv, AskedOnce, PendInv, [Next]_vars
    PROVE  PendInv'
<1>1. /\ events \in TimeEventStates(Handler)
      /\ list \in Seq(TimeEvents(Handler))
      /\ InOrder(list)
      /\ Reminder \subseteq Handler
      /\ {"at_1337", "at_1338"} \cap Reminder = {}
      /\ TimeRead \subseteq Nat
      /\ list = events.list
      /\ list' = events'.list
  BY ListBasics DEF list
<1>2. status \in [Reminder -> StatusValues]
  BY DEF IInv, TypeOK
<1>3. CASE Quiet
  BY <1>3 DEF Quiet, PendInv, InList
<1>4. ASSUME NEW t \in TimeRead, NEW q \in ScheduleNext1337(events, t),
             NEW r \in Reminder
      PROVE  /\ AtMostOne(q.list, r)
             /\ (\E e \in Range(q.list) : e.handler = r) <=> InList(r)
             /\ list # <<>> =>
                  /\ q.list # <<>>
                  /\ \/ Head(q.list) = Head(list)
                     \/ Head(q.list).handler \in {"at_1337", "at_1338"}
             /\ q \in TimeEventStates(Handler) /\ InOrder(q.list)
  <2>1. PICK new \in SUBSET {Opening(t), Closing(t)} :
          Registered(events, q, new, Next1337(t))
    BY <1>1, <1>4, Scheduled
  <2>2. \A e \in new : e.handler \in {"at_1337", "at_1338"}
    BY <2>1 DEF Opening, Closing
  <2>3. QED
    BY <1>1, <1>4, <2>1, <2>2 DEF Registered, PendInv, InList
<1>5. CASE InitLeetMonitor
  <2>1. PICK t \in TimeRead : events' \in ScheduleNext1337(events, t)
    BY <1>5 DEF InitLeetMonitor
  <2>2. status' = status
    BY <1>5 DEF InitLeetMonitor
  <2>3. QED
    BY <1>1, <1>4, <2>1, <2>2 DEF PendInv, InList
<1>6. ASSUME NEW r \in Reminder, NEW when \in Nat,
             status[r] # "pending", Registers(r, when)
      PROVE  PendInv'
  <2> DEFINE e == [when |-> when, handler |-> r]
  <2>1. /\ Range(list') = Range(list) \cup {e}
        /\ \A k \in Handler :
             /\ AtMostOne(list, k)
             /\ k = r => \A f \in Range(list) : f.handler # r
             => AtMostOne(list', k)
    <3>1. /\ events \in TimeEventStates(Handler) /\ InOrder(events.list)
          /\ r \in Handler
      BY <1>1
    <3>2. Registered(events, AddTimeEvent(events, when, r), {e}, 0)
      BY <3>1, AddedIsRegistered
    <3>3. e.handler = r /\ events' = AddTimeEvent(events, when, r)
      BY <1>6 DEF Registers
    <3> HIDE DEF e
    <3>4. QED
      BY <1>1, <3>2, <3>3 DEF Registered
  <2>2. e.handler = r
    OBVIOUS
  <2>3. status' = [status EXCEPT ![r] = "pending"]
    BY <1>6 DEF Registers
  <2> HIDE DEF e
  <2>4. \A f \in Range(list) : f.handler # r
    BY <1>6 DEF PendInv, InList
  <2>5. \A k \in Reminder : AtMostOne(list', k)
    BY <1>1, <2>1, <2>4 DEF PendInv
  <2>6. \A k \in Reminder : InList(k)' <=> status'[k] = "pending"
    BY <1>2, <2>1, <2>2, <2>3 DEF PendInv, InList
  <2>7. QED
    BY <2>5, <2>6 DEF PendInv
\* An event is removed from the list that schedule_next_1337() left.
<1>7. ASSUME NEW q \in TimeEventStates(Handler), InOrder(q.list),
             q.list # <<>>, events' = RemoveStart(q),
             \A r \in Reminder :
                /\ AtMostOne(q.list, r)
                /\ (\E e \in Range(q.list) : e.handler = r) <=> InList(r)
      PROVE  \A r \in Reminder :
                /\ AtMostOne(list', r)
                /\ InList(r)' <=> InList(r) /\ r # Head(q.list).handler
  <2>1. q.list \in Seq(TimeEvents(Handler)) /\ list' = Tail(q.list)
    BY <1>1, <1>7, RemoveStartProps DEF TimeEventStates
  <2>2. /\ Range(q.list) = Range(list') \cup {Head(q.list)}
        /\ \A k : AtMostOne(q.list, k) => AtMostOne(list', k)
        /\ AtMostOne(q.list, Head(q.list).handler) =>
             \A f \in Range(list') : f.handler # Head(q.list).handler
    BY <1>7, <2>1, TailEvents
  <2>3. ASSUME NEW r \in Reminder
        PROVE  InList(r)' <=> InList(r) /\ r # Head(q.list).handler
    BY <1>7, <2>2 DEF InList
  <2>4. QED
    BY <1>7, <2>2, <2>3
<1>8. CASE At1337
  <2>1. /\ events' = RemoveStart(events) /\ list # <<>>
        /\ Head(list).handler \notin Reminder /\ status' = status
    BY <1>1, <1>8 DEF At1337, TimerEvent
  <2>2. \A r \in Reminder :
          /\ AtMostOne(list', r)
          /\ InList(r)' <=> InList(r) /\ r # Head(list).handler
    BY <1>1, <1>7, <2>1 DEF PendInv, InList
  <2>3. QED
    BY <2>1, <2>2 DEF PendInv
<1>9. CASE At1338
  <2>1. PICK t \in TimeRead :
          \E q \in ScheduleNext1337(events, t) : events' = RemoveStart(q)
    BY <1>9 DEF At1338
  <2>2. PICK q \in ScheduleNext1337(events, t) : events' = RemoveStart(q)
    BY <2>1
  <2>3. list # <<>> /\ Head(list).handler \notin Reminder /\ status' = status
    BY <1>1, <1>9 DEF At1338, TimerEvent
  <2>4. ASSUME NEW r \in Reminder
        PROVE  /\ AtMostOne(list', r)
               /\ InList(r)' <=> InList(r)
    <3>1. /\ q \in TimeEventStates(Handler) /\ InOrder(q.list) /\ q.list # <<>>
          /\ Head(q.list).handler \notin Reminder
      BY <1>1, <1>4, <2>3
    <3>2. \A k \in Reminder :
            /\ AtMostOne(q.list, k)
            /\ (\E e \in Range(q.list) : e.handler = k) <=> InList(k)
      BY <1>4
    <3>3. QED
      BY <1>7, <2>2, <3>1, <3>2
  <2>5. QED
    BY <2>3, <2>4 DEF PendInv
<1>10. ASSUME NEW s \in Reminder, Remind(s)
       PROVE  PendInv'
  <2>1. /\ events' = RemoveStart(events) /\ list # <<>>
        /\ Head(list).handler = s
        /\ status' = [status EXCEPT ![s] = "reminded"]
    BY <1>1, <1>10 DEF Remind, TimerEvent
  <2>2. \A r \in Reminder :
          /\ AtMostOne(list', r)
          /\ InList(r)' <=> InList(r) /\ r # Head(list).handler
    BY <1>1, <1>7, <2>1 DEF PendInv, InList
  <2>3. \A r \in Reminder :
          status'[r] = "pending" <=> status[r] = "pending" /\ r # s
    BY <1>2, <2>1
  <2>4. QED
    BY <2>1, <2>2, <2>3 DEF PendInv
<1>11. QED
  BY <1>3, <1>5, <1>6, <1>8, <1>9, <1>10, ListStep

LEMMA AskedOnceStep ==
    ASSUME IInv, AskedOnce, PendInv, [Next]_vars
    PROVE  AskedOnce'
<1>1. /\ status \in [Reminder -> StatusValues]
      /\ inbox \in Seq(Message) /\ socket \in Seq(Message)
  BY DEF IInv, TypeOK
<1>2. ASSUME UNCHANGED <<inbox, socket>>,
             \/ UNCHANGED status
             \/ \E r \in Reminder, v \in StatusValues :
                  status[r] # "asked" /\ status' = [status EXCEPT ![r] = v]
      PROVE  AskedOnce'
  BY <1>1, <1>2 DEF AskedOnce
<1>3. ASSUME NEW r \in Reminder, NEW when \in 0..Horizon,
             RestoreReminder(r, when)
      PROVE  AskedOnce'
  <2>1. /\ UNCHANGED <<inbox, socket>> /\ status[r] # "asked"
        /\ status' = [status EXCEPT ![r] = "pending"]
    BY <1>3 DEF RestoreReminder, kernelVars, loopVars
  <2>2. QED
    BY <1>2, <2>1 DEF StatusValues
<1>4. ASSUME NEW r \in Reminder, Remind(r)
      PROVE  AskedOnce'
  <2>1. /\ UNCHANGED <<inbox, socket>>
        /\ list # <<>> /\ Head(list).handler = r
        /\ status' = [status EXCEPT ![r] = "reminded"]
    BY <1>4 DEF Remind, TimerEvent, TimerHandled, kernelVars, list
  <2>2. Head(list) \in Range(list)
    BY <2>1, ListBasics, TailEvents
  <2>3. status[r] = "pending"
    BY <2>1, <2>2 DEF PendInv, InList
  <2>4. QED
    BY <1>2, <2>1, <2>3 DEF StatusValues
<1>5. ASSUME NEW m \in [what : Chat \cup Reminder, time : 0..Horizon],
             ServerSends(m)
      PROVE  AskedOnce'
  <2>1. m \in Message /\ socket' = Append(socket, m) /\ inbox' = inbox
    BY <1>5, EventLoopAssumption DEF ServerSends, Message, loopVars
  <2>2. IF m.what \in Reminder
        THEN status[m.what] = "fresh" /\ status' = [status EXCEPT ![m.what] = "asked"]
        ELSE status' = status
    BY <1>5 DEF ServerSends
  <2>3. \A n \in Range(socket) \cup Range(inbox) :
          n.what \in Reminder => n.what # m.what
    BY <2>2 DEF AskedOnce
  <2>4. Range(socket') = Range(socket) \cup {m} /\ AskDistinct(socket')
    BY <1>1, <2>1, <2>3, AppendedAsks DEF AskedOnce
  <2>5. \A n \in Range(inbox) \cup Range(socket) \cup {m} :
          n.what \in Reminder => status'[n.what] = "asked"
    BY <1>1, <2>2, <2>3 DEF AskedOnce
  <2>6. QED
    BY <2>1, <2>3, <2>4, <2>5 DEF AskedOnce, AskDistinct
<1>6. CASE ServerCloses
  <2>1. socket' \in {socket, <<>>} /\ UNCHANGED <<inbox, status>>
    BY <1>6 DEF ServerCloses, loopVars
  <2>2. Range(<<>>) = {} /\ DOMAIN <<>> = {}
    BY DEF Range
  <2>3. QED
    BY <2>1, <2>2 DEF AskedOnce, AskDistinct
<1>7. CASE ServerData
  <2>1. PICK n \in 1..Len(socket) :
          /\ inbox' = SubSeq(socket, 1, n)
          /\ socket' = SubSeq(socket, n + 1, Len(socket))
    BY <1>7 DEF ServerData
  <2>2. status' = status /\ AskDistinct(socket)
    BY <1>7 DEF ServerData, AskedOnce
  <2>3. /\ Range(inbox') \subseteq Range(socket)
        /\ Range(socket') \subseteq Range(socket)
        /\ AskDistinct(inbox') /\ AskDistinct(socket')
        /\ \A x \in Range(inbox'), y \in Range(socket') :
             x.what \in Reminder => x.what # y.what
    BY <1>1, <2>1, <2>2, SplitAsks
  <2>4. QED
    BY <2>2, <2>3 DEF AskedOnce, AskDistinct
\* A message was handled.
<1>8. ASSUME Handling, inbox' = Tail(inbox), socket' = socket,
             \/ UNCHANGED status
             \/ \E v \in StatusValues :
                  /\ msg.what \in Reminder
                  /\ status' = [status EXCEPT ![msg.what] = v]
      PROVE  AskedOnce'
  <2>1. /\ msg \in Range(inbox)
        /\ Range(inbox') \subseteq Range(inbox)
        /\ AskDistinct(inbox')
        /\ \A m \in Range(inbox') : m.what \in Reminder => m.what # msg.what
    BY <1>1, <1>8, RestAsks DEF Handling, msg, AskedOnce
  <2>2. \A m \in Range(inbox') \cup Range(socket) :
          m.what \in Reminder => status'[m.what] = "asked"
    BY <1>1, <1>8, <2>1 DEF AskedOnce
  <2>3. QED
    BY <1>8, <2>1, <2>2 DEF AskedOnce, AskDistinct
<1>9. CASE AddReminder \/ RejectReminder \/ Ping \/ Congratulate \/ NotLeet
  <2>1. /\ Handling /\ inbox' = Tail(inbox) /\ socket' = socket
        /\ \/ UNCHANGED status
           \/ \E v \in {"pending", "rejected"} :
                /\ msg.what \in Reminder
                /\ status' = [status EXCEPT ![msg.what] = v]
    BY <1>9
    DEF AddReminder, RejectReminder, Ping, Congratulate, NotLeet, IsRejected,
        IsPing, IsLeet, MsgHandled, kernelVars
  <2>2. QED
    BY <1>8, <2>1 DEF StatusValues
<1>10. CASE UNCHANGED <<inbox, socket, status>>
  BY <1>2, <1>10
<1>11. QED
  BY <1>3, <1>4, <1>5, <1>6, <1>7, <1>9, <1>10
  DEF Next, Bot, Start, Timer, Msgs, Kernel, Server, vars, Restored, Connect,
      EpollWait, BatchHandled, ServerGone, TimerSendFails, SendFails,
      ReadSignal, SendQuit, QuitFails, MsgsHandled, Confirm, ReplyFails, Signal,
      Tick, SetBack, Expire, ServerReads, InitLeetMonitor, At1337, At1338,
      TimerHandled, kernelVars, loopVars

\* What is pending, asked for and handled adds up in every state: each reminder
\* that was registered is in the list, or sent, exactly once.
THEOREM RemindersInv == Spec => [](IInv /\ AskedOnce /\ PendInv)
<1>1. Init => AskedOnce /\ PendInv
  <2>1. Range(<<>>) = {} /\ DOMAIN <<>> = {}
    BY DEF Range
  <2>2. ASSUME Init
        PROVE  AskedOnce /\ PendInv
    <3>1. list = <<>> /\ inbox = <<>> /\ socket = <<>>
      BY <2>2 DEF Init, NoTimeEvents, list
    <3>2. \A r \in Reminder : status[r] # "pending"
      BY <2>2 DEF Init
    <3>3. QED
      BY <2>1, <3>1, <3>2
      DEF AskedOnce, AskDistinct, PendInv, AtMostOne, InList
  <2>3. QED
    BY <2>2
<1>2. IInv /\ AskedOnce /\ PendInv /\ [Next]_vars => AskedOnce' /\ PendInv'
  BY AskedOnceStep, PendInvStep
<1>3. QED
  BY IInvAlways, <1>1, <1>2, PTL DEF Spec

\* A reminder that was accepted is in the list exactly once until it is sent,
\* and no other one is, in whatever order handle_remind(), at_1338(), the timer
\* and the server take their turns, and wherever the clock is set.
THEOREM RemindersPendOnce == Spec => []PendingOnce
<1>1. IInv /\ PendInv => PendingOnce
  <2>1. SUFFICES ASSUME IInv, PendInv, NEW r \in Reminder
                 PROVE  LET places == {i \in DOMAIN list : list[i].handler = r}
                        IN  IF status[r] = "pending"
                            THEN \E i \in places : places = {i}
                            ELSE places = {}
    BY DEF PendingOnce
  <2>2. status[r] = "pending" <=> \E i \in DOMAIN list : list[i].handler = r
    BY <2>1 DEF PendInv, InList, Range
  <2>3. \A i, j \in DOMAIN list :
          list[i].handler = r /\ list[j].handler = r => i = j
    BY <2>1 DEF PendInv, AtMostOne
  <2>4. QED
    BY <2>2, <2>3
<1>2. QED
  BY RemindersInv, <1>1, PTL

-------------------------------------------------------------------------------
(* Notifications stay true *)

\* What epoll_wait() reported can still be read when its turn comes: only
\* main() reads the socket and the signalfd, once in a batch.
THEOREM ReadsNeverBlock == Spec => []ReadsDoNotBlock
<1>1. Init => ReadsDoNotBlock
  BY DEF Init, ReadsDoNotBlock
<1>2. IInv /\ ReadsDoNotBlock /\ [Next]_vars => ReadsDoNotBlock'
  <2>1. SUFFICES ASSUME IInv, ReadsDoNotBlock, [Next]_vars
                 PROVE  ReadsDoNotBlock'
    OBVIOUS
  <2>2. CASE EpollWait
    BY <2>2 DEF EpollWait, Ready, ReadsDoNotBlock, kernelVars
  <2>3. CASE ServerData
    BY <2>1, <2>3 DEF ServerData, ReadsDoNotBlock
  <2>4. CASE ReadSignal
    BY <2>1, <2>4 DEF ReadSignal, ReadsDoNotBlock
  <2>5. ASSUME NEW m \in [what : Chat \cup Reminder, time : 0..Horizon],
               ServerSends(m)
        PROVE  ReadsDoNotBlock'
    <3>1. m \in Message /\ socket \in Seq(Message)
      BY <2>1, EventLoopAssumption DEF Message, IInv, TypeOK
    <3>2. socket' = Append(socket, m) /\ UNCHANGED <<signals, batch>>
      BY <2>5 DEF ServerSends, loopVars
    <3>3. socket' # <<>>
      BY <3>1, <3>2
    <3>4. QED
      BY <2>1, <3>2, <3>3 DEF ReadsDoNotBlock
  <2>6. CASE UNCHANGED socket /\ batch' \subseteq batch
             /\ (peerClosed => peerClosed') /\ signals \subseteq signals'
    BY <2>1, <2>6 DEF ReadsDoNotBlock
  <2>7. CASE ServerCloses
    BY <2>1, <2>7 DEF ServerCloses, ReadsDoNotBlock, loopVars
  <2>8. QED
    BY <2>1, <2>2, <2>3, <2>4, <2>5, <2>6, <2>7
    DEF Next, Bot, Start, Timer, Msgs, Kernel, Server, vars, Restored, Connect,
        BatchHandled, ServerGone, TimerSendFails, SendFails, SendQuit, QuitFails,
        MsgsHandled, Ping, Congratulate, NotLeet, Confirm, RejectReminder,
        AddReminder, ReplyFails, Signal, Tick, SetBack, Expire, MsgHandled,
        ServerReads, InitLeetMonitor, RestoreReminder, At1337, At1338, Remind,
        TimerHandled, kernelVars, loopVars
<1>3. QED
  BY IInvAlways, <1>1, <1>2, PTL DEF Spec

-------------------------------------------------------------------------------
(* The 1337 monitor *)

\* The events of the monitor in list l are those of one day, and "1337" is not
\* waited for before the first of them.
OneDay(l, wanted) ==
    /\ AtMostOne(l, "at_1337")
    /\ AtMostOne(l, "at_1338")
    /\ \A c \in Range(l) :
         c.handler = "at_1338" => c.when % DayLength = LeetStart + LeetLength
    /\ \A o \in Range(l) :
         o.handler = "at_1337" =>
            /\ ~wanted
            /\ \A c \in Range(l) :
                 c.handler = "at_1338" => o.when + LeetLength = c.when

LeetInv ==
    /\ pc = "init" => list = <<>> /\ ~want1337
    /\ OneDay(list, want1337)

NoneOf(l) == \A e \in Range(l) : e.handler \notin {"at_1337", "at_1338"}

\* A list without events of the monitor gets those of one day.
LEMMA ScheduledIsOneDay ==
    ASSUME NEW q \in TimeEventStates(Handler), InOrder(q.list), NoneOf(q.list),
           NEW t \in Nat, NEW r \in ScheduleNext1337(q, t)
    PROVE  /\ OneDay(r.list, FALSE)
           /\ ~ClockFails => \E e \in Range(r.list) : e.handler = "at_1338"
<1>1. /\ Opening(t).handler = "at_1337" /\ Closing(t).handler = "at_1338"
      /\ Opening(t).when + LeetLength = Closing(t).when
      /\ Closing(t).when % DayLength = LeetStart + LeetLength
      /\ {"at_1337", "at_1338"} \subseteq Handler
  BY Next1337IsNext DEF Opening, Closing, Handler
<1>2. PICK new \in SUBSET {Opening(t), Closing(t)} :
        /\ Registered(q, r, new, Next1337(t))
        /\ ~ClockFails => new = {Opening(t), Closing(t)}
  BY Scheduled
<1>3. Range(r.list) = Range(q.list) \cup new
  BY <1>2 DEF Registered
<1>4. ASSUME NEW h \in {"at_1337", "at_1338"}
      PROVE  AtMostOne(r.list, h)
  <2>1. \A f \in Range(q.list) : f.handler # h
    BY DEF NoneOf
  <2>2. AtMostOne(q.list, h)
    BY <2>1 DEF AtMostOne, Range
  <2>3. QED
    BY <1>1, <1>2, <2>1, <2>2 DEF Registered
<1>5. \A c \in Range(r.list) : c.handler = "at_1338" => c = Closing(t)
  BY <1>1, <1>2, <1>3 DEF NoneOf
<1>6. \A o \in Range(r.list) : o.handler = "at_1337" => o = Opening(t)
  BY <1>1, <1>2, <1>3 DEF NoneOf
<1>7. OneDay(r.list, FALSE)
  BY <1>1, <1>4, <1>5, <1>6 DEF OneDay
<1>8. QED
  BY <1>1, <1>2, <1>3, <1>7

\* The list without its first event, as at_1338() leaves it to what follows.
Rest == [events EXCEPT !.list = Tail(list)]

LEMMA RestBasics ==
    ASSUME IInv, list # <<>>
    PROVE  /\ Rest \in TimeEventStates(Handler)
           /\ Rest.list = Tail(list)
           /\ InOrder(Rest.list)
           /\ Range(list) = Range(Rest.list) \cup {Head(list)}
           /\ Head(list) \in TimeEvents(Handler)
<1>1. list \in Seq(TimeEvents(Handler)) /\ InOrder(list)
  BY ListBasics
<1>2. Tail(list) \in Seq(TimeEvents(Handler)) /\ Head(list) \in TimeEvents(Handler)
  BY <1>1, HeadTailProperties
<1>3. InOrder(Tail(list)) /\ Range(list) = Range(Tail(list)) \cup {Head(list)}
  BY <1>1, TailEvents
<1>4. Rest \in TimeEventStates(Handler) /\ Rest.list = Tail(list)
  BY <1>2, ListBasics DEF Rest, TimeEventStates
<1>5. QED
  BY <1>2, <1>3, <1>4

\* at_1338() is called for the first event, which is the one that is removed,
\* though others were added before the removal.
LEMMA At1338Removes ==
    ASSUME IInv, OnTime, LeetInv, At1338
    PROVE  /\ NoneOf(Rest.list)
           /\ \E t \in TimeRead :
                /\ Head(list).when < Next1337(t)
                /\ \E s \in ScheduleNext1337(Rest, t) : events'.list = s.list
<1>1. /\ list # <<>> /\ list = events.list /\ InBatch
      /\ Head(list).handler = "at_1338"
  BY DEF At1338, TimerEvent, InBatch, list
<1> DEFINE c == Head(list)
<1>2. /\ events \in TimeEventStates(Handler) /\ InOrder(list)
      /\ list \in Seq(TimeEvents(Handler)) /\ TimeRead \subseteq Nat
  BY ListBasics
<1>3. /\ Rest \in TimeEventStates(Handler) /\ Rest.list = Tail(list)
      /\ Range(list) = Range(Rest.list) \cup {c}
      /\ c \in TimeEvents(Handler)
  BY <1>1, RestBasics
<1>4. /\ \A f \in Range(Rest.list) : f.handler # "at_1338"
      /\ \A f \in Range(list) : c.when <= f.when
  <2>1. AtMostOne(list, Head(list).handler)
    BY <1>1 DEF LeetInv, OneDay
  <2>2. QED
    BY <1>1, <1>2, <1>3, <2>1, TailEvents
<1>5. c.when \in Nat /\ c.when % DayLength = LeetStart + LeetLength
      /\ c.when <= now
  BY <1>1, <1>3 DEF LeetInv, OneDay, OnTime, TimeEvents
<1>6. \A f \in Range(list) : f.when \in Nat
  BY <1>2, TimesOfList DEF Range
<1>7. LeetLength \in Nat \ {0} /\ TimeLag \in Nat /\ TimeLag <= LeetLength
      /\ now \in Nat
  BY EventLoopAssumption DEF IInv, TypeOK
<1>8. \A o \in Range(list) : o.handler # "at_1337"
  <2>1. SUFFICES ASSUME NEW o \in Range(list), o.handler = "at_1337"
                 PROVE  FALSE
    OBVIOUS
  <2>2. o.when + LeetLength = c.when
    BY <1>1, <1>3, <2>1 DEF LeetInv, OneDay
  <2>3. QED
    BY <1>4, <1>5, <1>6, <1>7, <2>1, <2>2
<1>9. NoneOf(Rest.list)
  BY <1>3, <1>4, <1>8 DEF NoneOf
<1>10. PICK t \in TimeRead :
         \E q \in ScheduleNext1337(events, t) : events' = RemoveStart(q)
  BY DEF At1338
<1>11. PICK q \in ScheduleNext1337(events, t) : events' = RemoveStart(q)
  BY <1>10
<1>12. c.when < Next1337(t)
  <2>1. t \in Nat /\ now <= t + TimeLag
    BY DEF TimeRead
  <2>2. c.when <= t + LeetLength
    BY <1>5, <1>7, <2>1
  <2>3. QED
    BY <1>5, <2>1, <2>2, Next1337IsNext
<1>13. Next1337(t) \in Nat /\ t \in Nat
  BY <1>2, Next1337Type
<1>14. c.when <= Next1337(t)
  BY <1>5, <1>12, <1>13
<1>15. \E s \in ScheduleNext1337(Rest, t) : Tail(q.list) = s.list
  BY <1>1, <1>2, <1>3, <1>13, <1>14, ScheduledBehindHead
<1>16. events'.list = Tail(q.list)
  <2>1. PICK new \in SUBSET {Opening(t), Closing(t)} :
          Registered(events, q, new, Next1337(t))
    BY <1>1, <1>2, <1>13, Scheduled
  <2>2. q \in TimeEventStates(Handler) /\ InOrder(q.list) /\ q.list # <<>>
    BY <1>1, <2>1 DEF Registered
  <2>3. QED
    BY <1>11, <2>2, RemoveStartProps
<1>17. QED
  BY <1>9, <1>12, <1>15, <1>16

\* A reminder and at_1337() leave the rest of the list behind.
LEMMA OthersRemove ==
    ASSUME IInv, At1337 \/ \E r \in Reminder : Remind(r)
    PROVE  /\ list # <<>> /\ InBatch
           /\ events' = RemoveStart(events)
           /\ list' = Rest.list /\ events'.list = Rest.list
<1>1. /\ list # <<>> /\ InBatch /\ list = events.list /\ list' = events'.list
      /\ events' = RemoveStart(events)
  BY DEF At1337, Remind, TimerEvent, InBatch, list
<1>2. events'.list = Tail(events.list)
  BY <1>1, ListBasics, RemoveStartProps
<1>3. QED
  BY <1>1, <1>2, RestBasics

\* A reminder is registered among the events of the monitor.
LEMMA RegisteredReminder ==
    ASSUME IInv, NEW r \in Reminder, NEW when \in Nat, Registers(r, when)
    PROVE  /\ Range(list') = Range(list) \cup {[when |-> when, handler |-> r]}
           /\ \A h \in {"at_1337", "at_1338"} :
                AtMostOne(list, h) => AtMostOne(list', h)
           /\ r \notin {"at_1337", "at_1338"}
<1> DEFINE e == [when |-> when, handler |-> r]
<1>1. /\ events \in TimeEventStates(Handler) /\ InOrder(events.list)
      /\ r \in Handler /\ r \notin {"at_1337", "at_1338"}
      /\ {"at_1337", "at_1338"} \subseteq Handler
      /\ list = events.list /\ list' = events'.list
  BY ListBasics DEF list
<1>2. Registered(events, AddTimeEvent(events, when, r), {e}, 0)
  BY <1>1, AddedIsRegistered
<1>3. events' = AddTimeEvent(events, when, r) /\ e.handler = r
  BY DEF Registers
<1> HIDE DEF e
<1>4. QED
  BY <1>1, <1>2, <1>3 DEF Registered, e

LEMMA LeetInvStep ==
    ASSUME IInv, AskedOnce, OnTime, LeetInv, [Next]_vars
    PROVE  LeetInv'
<1>1. CASE Quiet
  <2>1. CASE pc' = "init"
    BY <1>1, <2>1 DEF Quiet, LeetInv, OneDay
  <2>2. CASE pc' # "init"
    BY <1>1, <2>2 DEF Quiet, LeetInv, OneDay
  <2>3. QED
    BY <2>1, <2>2
<1>2. CASE InitLeetMonitor
  <2>1. PICK t \in TimeRead : events' \in ScheduleNext1337(events, t)
    BY <1>2 DEF InitLeetMonitor
  <2>2. /\ list = <<>> /\ ~want1337 /\ pc' = "restore" /\ want1337' = want1337
        /\ list = events.list /\ list' = events'.list
    BY <1>2 DEF InitLeetMonitor, LeetInv, list
  <2>3. NoneOf(events.list)
    BY <2>2 DEF NoneOf, Range
  <2>4. OneDay(list', FALSE)
    BY <2>1, <2>2, <2>3, ListBasics, ScheduledIsOneDay
  <2>5. QED
    BY <2>2, <2>4 DEF LeetInv, OneDay
<1>3. ASSUME NEW r \in Reminder, NEW when \in Nat, Registers(r, when)
      PROVE  LeetInv'
  <2> DEFINE e == [when |-> when, handler |-> r]
  <2>1. /\ Range(list') = Range(list) \cup {e}
        /\ \A h \in {"at_1337", "at_1338"} :
             AtMostOne(list, h) => AtMostOne(list', h)
        /\ r \notin {"at_1337", "at_1338"}
    BY <1>3, RegisteredReminder
  <2>2. e.handler = r /\ pc' # "init" /\ want1337' = want1337
    BY <1>3 DEF Registers
  <2> HIDE DEF e
  <2>3. QED
    BY <2>1, <2>2 DEF LeetInv, OneDay
<1>4. ASSUME NEW r \in Reminder, Remind(r)
      PROVE  LeetInv'
  <2>1. list # <<>> /\ list' = Tail(list) /\ Range(list') \subseteq Range(list)
    BY <1>4, OthersRemove, RestBasics
  <2>2. pc' # "init" /\ want1337' = want1337
    BY <1>4 DEF Remind, TimerEvent, TimerHandled
  <2>3. \A h : AtMostOne(list, h) => AtMostOne(list', h)
    BY <2>1, ListBasics, TailEvents
  <2>4. QED
    BY <2>1, <2>2, <2>3 DEF LeetInv, OneDay
<1>5. CASE At1337
  <2>1. list # <<>> /\ list' = Tail(list) /\ Range(list') \subseteq Range(list)
    BY <1>5, OthersRemove, RestBasics
  <2>2. pc' # "init" /\ Head(list).handler = "at_1337"
    BY <1>5 DEF At1337, TimerEvent, TimerHandled, list
  <2>3. /\ \A h : AtMostOne(list, h) => AtMostOne(list', h)
        /\ AtMostOne(list, "at_1337") =>
             \A f \in Range(list') : f.handler # "at_1337"
    BY <2>1, <2>2, ListBasics, TailEvents
  <2>4. QED
    BY <2>1, <2>2, <2>3 DEF LeetInv, OneDay
<1>6. CASE At1338
  <2>1. NoneOf(Rest.list)
    BY <1>6, At1338Removes
  <2>2. PICK t \in TimeRead :
          \E s \in ScheduleNext1337(Rest, t) : events'.list = s.list
    BY <1>6, At1338Removes
  <2>3. PICK s \in ScheduleNext1337(Rest, t) : events'.list = s.list
    BY <2>2
  <2>4. /\ list # <<>> /\ want1337' = FALSE /\ pc' # "init"
        /\ list' = events'.list
    BY <1>6 DEF At1338, TimerEvent, TimerHandled, list
  <2>5. OneDay(s.list, FALSE)
    BY <2>1, <2>4, RestBasics, ListBasics, ScheduledIsOneDay
  <2>6. QED
    BY <2>3, <2>4, <2>5 DEF LeetInv, OneDay
<1>7. QED
  BY <1>1, <1>2, <1>3, <1>4, <1>5, <1>6, ListStep

\* If the clock is never set back, the list holds at most one at_1337() and one
\* at_1338(), those of schedule_next_1337() for one day, and is in time.
THEOREM LeetInvAlways ==
    ASSUME MaxSetBack = 0
    PROVE  Spec => [](IInv /\ AskedOnce /\ PendInv /\ OnTime /\ LeetInv)
<1>1. Init => OnTime
  BY DEF Init, NoTimeEvents, OnTime, list
<1>2. Init => LeetInv
  <2>1. SUFFICES ASSUME Init
                 PROVE  LeetInv
    OBVIOUS
  <2>2. list = <<>> /\ ~want1337
    BY <2>1 DEF Init, NoTimeEvents, list
  <2>3. Range(<<>>) = {} /\ DOMAIN <<>> = {}
    BY DEF Range
  <2>4. QED
    BY <2>2, <2>3 DEF LeetInv, OneDay, AtMostOne
<1>3. IInv /\ OnTime /\ [Next]_vars => OnTime'
  BY OnTimeStep
<1>4. IInv /\ AskedOnce /\ OnTime /\ LeetInv /\ [Next]_vars => LeetInv'
  BY LeetInvStep
<1>5. QED
  BY RemindersInv, <1>1, <1>2, <1>3, <1>4, PTL DEF Spec

-------------------------------------------------------------------------------
(* What a notification removes *)

\* handle_time_event() removes the event it called the handler of, although it
\* removes whatever is first by then and at_1338() adds events before: as long
\* as the clock is not set back, what is added comes later.
THEOREM HandledIsRemoved ==
    ASSUME MaxSetBack = 0
    PROVE  Spec => RemovesWhatItHandled
<1> DEFINE Removed ==
             pc = "batch" /\ InBatch /\ batch' = batch \ {"TIMER"} =>
               LET rest == [events EXCEPT !.list = Tail(list)]
               IN  IF Head(list).handler = "at_1338"
                   THEN \E t \in TimeRead : \E q \in ScheduleNext1337(rest, t) :
                          events'.list = q.list
                   ELSE events'.list = rest.list
<1>1. ASSUME IInv, AskedOnce, OnTime, LeetInv, [Next]_vars
      PROVE  [Removed]_vars
  <2>1. SUFFICES ASSUME pc = "batch", InBatch, batch' = batch \ {"TIMER"}
                 PROVE  IF Head(list).handler = "at_1338"
                        THEN \E t \in TimeRead : \E q \in ScheduleNext1337(Rest, t) :
                               events'.list = q.list
                        ELSE events'.list = Rest.list
    BY DEF Rest
  <2>2. CASE At1338
    <3>1. Head(list).handler = "at_1338"
      BY <2>2 DEF At1338, TimerEvent, list
    <3>2. QED
      BY <1>1, <2>2, <3>1, At1338Removes
  <2>3. CASE At1337 \/ \E r \in Reminder : Remind(r)
    <3>1. Head(list).handler # "at_1338"
      BY <1>1, <2>3, ListBasics DEF At1337, Remind, TimerEvent, list
    <3>2. QED
      BY <1>1, <2>3, <3>1, OthersRemove
  <2>4. /\ batch' # batch
        /\ ~EpollWait
        /\ ~ServerData
        /\ ~ReadSignal
    BY <2>1 DEF InBatch, EpollWait, ServerData, ReadSignal
  <2>5. QED
    BY <1>1, <2>2, <2>3, <2>4
    DEF Next, Bot, Start, Timer, Msgs, Kernel, Server, vars, Restored, Connect,
        BatchHandled, ServerGone, TimerSendFails, SendFails, SendQuit, QuitFails,
        MsgsHandled, Ping, Congratulate, NotLeet, Confirm, RejectReminder,
        AddReminder, ReplyFails, Signal, Tick, SetBack, Expire, MsgHandled,
        ServerReads, ServerSends, ServerCloses, InitLeetMonitor, RestoreReminder,
        loopVars
<1>2. QED
  BY LeetInvAlways, <1>1, PTL DEF Spec, RemovesWhatItHandled

-------------------------------------------------------------------------------
(* The loop implements Agenda *)

Pending == {list[i] : i \in DOMAIN list}

\* The first event is handled, and the events of new are registered.
LEMMA HandlingFires ==
    ASSUME IInv, PendInv, OnTime, LeetInv, InBatch, list # <<>>,
           NEW new \in SUBSET TimeEvents(Handler),
           \A e \in new : Head(list).when < e.when,
           Pending' = Range(Rest.list) \cup new, now' = now
    PROVE  ToDo!Fire
<1> DEFINE e == Head(list)
<1>1. /\ list \in Seq(TimeEvents(Handler)) /\ InOrder(list)
      /\ Rest.list = Tail(list)
      /\ Range(list) = Range(Rest.list) \cup {e}
      /\ e \in TimeEvents(Handler)
      /\ e.when \in Nat /\ e.handler \in Handler
  BY ListBasics, RestBasics DEF TimeEvents
<1>2. /\ Pending = Range(list)
      /\ Range(list) \subseteq TimeEvents(Handler)
  <2>1. \A i \in DOMAIN list : list[i] \in TimeEvents(Handler)
    BY <1>1
  <2>2. QED
    BY <2>1 DEF Pending, Range
<1>3. AtMostOne(list, e.handler)
  BY <1>1 DEF PendInv, LeetInv, OneDay, Handler
<1>4. /\ \A f \in Range(Rest.list) : f.handler # e.handler
      /\ \A f \in Range(list) : e.when <= f.when
  BY <1>1, <1>3, TailEvents
<1>5. e.when <= now
  BY DEF OnTime
<1>6. /\ \A f \in new : e.when < f.when /\ f.when \in Nat
      /\ TimeEvents(Handler) = ToDo!Events
  BY DEF TimeEvents, ToDo!Events
<1> HIDE DEF e
<1>7. /\ e \in Pending
      /\ Pending \ {e} \subseteq Pending'
      /\ Pending' \subseteq ToDo!Events \ {e}
      /\ \A f \in Pending' : e.when <= f.when
  BY <1>1, <1>2, <1>4, <1>6
<1>8. QED
  BY <1>5, <1>7 DEF ToDo!Fire, Pending

\* Events are added while the clock stands still.
LEMMA AddingRegisters ==
    ASSUME IInv, [Next]_vars, Pending \subseteq Pending', now' = now
    PROVE  ToDo!Register
<1>1. list' \in Seq(TimeEvents(Handler))
  BY EventsTyped DEF TimeEventStates, list
<1>2. \A i \in DOMAIN list' : list'[i] \in TimeEvents(Handler)
  BY <1>1
<1>3. Pending' \subseteq ToDo!Events
  BY <1>2 DEF Pending, TimeEvents, ToDo!Events
<1>4. QED
  BY <1>3 DEF ToDo!Register, Pending

LEMMA AgendaStep ==
    ASSUME IInv, AskedOnce, PendInv, OnTime, LeetInv, [Next]_vars,
           MaxSetBack = 0
    PROVE  [ToDo!AgendaNext]_(ToDo!agendaVars)
<1>1. Pending = Range(list) /\ Pending' = Range(list')
  BY DEF Pending, Range
<1>2. CASE Quiet
  <2>1. Pending' = Pending
    BY <1>2 DEF Quiet, Pending
  <2>2. now \in Nat /\ now' \in Nat /\ now <= now'
    BY ClockStep DEF IInv, TypeOK
  <2>3. CASE now' = now
    BY <2>1, <2>3 DEF ToDo!agendaVars, Pending
  <2>4. CASE now' # now
    BY <2>1, <2>2, <2>4 DEF ToDo!AgendaNext, ToDo!Advance, Pending
  <2>5. QED
    BY <2>3, <2>4
<1>3. CASE InitLeetMonitor
  <2>1. PICK t \in TimeRead : events' \in ScheduleNext1337(events, t)
    BY <1>3 DEF InitLeetMonitor
  <2>2. PICK new : Registered(events, events', new, Next1337(t))
    BY <2>1, ListBasics, Scheduled DEF list
  <2>3. Pending \subseteq Pending' /\ now' = now
    BY <1>1, <1>3, <2>2 DEF Registered, InitLeetMonitor, clockVars, list
  <2>4. QED
    BY <2>3, AddingRegisters DEF ToDo!AgendaNext
<1>4. ASSUME NEW r \in Reminder, NEW when \in Nat, Registers(r, when)
      PROVE  ToDo!AgendaNext
  <2>1. Pending \subseteq Pending' /\ now' = now
    BY <1>1, <1>4, RegisteredReminder DEF Registers
  <2>2. QED
    BY <2>1, AddingRegisters DEF ToDo!AgendaNext
<1>5. CASE At1337 \/ \E r \in Reminder : Remind(r)
  <2>1. /\ list # <<>> /\ InBatch /\ Pending' = Range(Rest.list) \cup {}
        /\ now' = now
    BY <1>1, <1>5, OthersRemove DEF At1337, Remind, TimerHandled, clockVars
  <2>2. /\ {} \in SUBSET TimeEvents(Handler)
        /\ \A e \in {} : Head(list).when < e.when
    OBVIOUS
  <2>3. ToDo!Fire
    BY <2>1, <2>2, HandlingFires
  <2>4. QED
    BY <2>3 DEF ToDo!AgendaNext
<1>6. CASE At1338
  <2>1. PICK t \in TimeRead :
          /\ Head(list).when < Next1337(t)
          /\ \E s \in ScheduleNext1337(Rest, t) : events'.list = s.list
    BY <1>6, At1338Removes
  <2>2. PICK s \in ScheduleNext1337(Rest, t) : events'.list = s.list
    BY <2>1
  <2>3. /\ list # <<>> /\ InBatch /\ now' = now /\ list' = events'.list
    BY <1>6 DEF At1338, TimerEvent, TimerHandled, InBatch, clockVars, list
  <2>4. t \in Nat /\ Rest \in TimeEventStates(Handler) /\ InOrder(Rest.list)
        /\ Head(list).when \in Nat
    BY <2>3, RestBasics, ListBasics DEF TimeEvents
  <2>5. PICK new \in SUBSET {Opening(t), Closing(t)} :
          Registered(Rest, s, new, Next1337(t))
    BY <2>2, <2>4, Scheduled
  <2>6. Pending' = Range(Rest.list) \cup new
    BY <1>1, <2>2, <2>3, <2>5 DEF Registered
  <2>7. /\ Opening(t) \in TimeEvents(Handler) /\ Closing(t) \in TimeEvents(Handler)
        /\ Head(list).when < Opening(t).when
        /\ Head(list).when < Closing(t).when
    BY <2>1, <2>4, Next1337Type, EventLoopAssumption
    DEF Opening, Closing, TimeEvents, Handler
  <2>8. /\ new \in SUBSET TimeEvents(Handler)
        /\ \A e \in new : Head(list).when < e.when
    BY <2>5, <2>7
  <2>9. ToDo!Fire
    BY <2>3, <2>6, <2>8, HandlingFires
  <2>10. QED
    BY <2>9 DEF ToDo!AgendaNext
<1>7. QED
  BY <1>2, <1>3, <1>4, <1>5, <1>6, ListStep

\* The sorted list, the one timer, edge-triggered notifications and a loop that
\* lets messages in between do what Agenda promises: every function that was
\* registered is called once, in the order of the times, and not early.
THEOREM LoopImplementsAgenda ==
    ASSUME MaxSetBack = 0
    PROVE  Spec => ImplementsAgenda
<1>1. Init => ToDo!AgendaInit
  BY EventLoopAssumption DEF Init, NoTimeEvents, ToDo!AgendaInit, list
<1>2. /\ IInv /\ AskedOnce /\ PendInv /\ OnTime /\ LeetInv
      /\ [Next]_vars
      => [ToDo!AgendaNext]_(ToDo!agendaVars)
  BY AgendaStep
<1>3. QED
  BY LeetInvAlways, <1>1, <1>2, PTL DEF Spec, ImplementsAgenda, ToDo!AgendaSpec

-------------------------------------------------------------------------------
(* The monitor keeps itself going *)

\* As long as the clock can be read an at_1338() is pending, at most a minute
\* ahead while "1337" is waited for.
ChainInv ==
    /\ pc # "init" => InList("at_1338")
    /\ want1337 =>
         \A c \in Range(list) :
            c.handler = "at_1338" => c.when <= now + LeetLength

LEMMA ChainInvStep ==
    ASSUME IInv, AskedOnce, OnTime, LeetInv, ChainInv, [Next]_vars,
           MaxSetBack = 0, ~ClockFails
    PROVE  ChainInv'
<1>1. LeetLength \in Nat /\ now \in Nat /\ now' \in Nat /\ now <= now'
  BY ClockStep, EventLoopAssumption DEF IInv, TypeOK
<1>2. \A f \in Range(list) : f.when \in Nat
  BY ListBasics, TimesOfList DEF Range
<1>3. CASE Quiet
  BY <1>1, <1>2, <1>3 DEF Quiet, ChainInv, InList
<1>4. CASE InitLeetMonitor
  <2>1. PICK t \in TimeRead : events' \in ScheduleNext1337(events, t)
    BY <1>4 DEF InitLeetMonitor
  <2>2. list = <<>> /\ ~want1337' /\ list = events.list /\ list' = events'.list
    BY <1>4 DEF InitLeetMonitor, LeetInv, list
  <2>3. NoneOf(events.list)
    BY <2>2 DEF NoneOf, Range
  <2>4. \E e \in Range(list') : e.handler = "at_1338"
    BY <2>1, <2>2, <2>3, ListBasics, ScheduledIsOneDay
  <2>5. QED
    BY <2>2, <2>4 DEF ChainInv, InList
<1>5. ASSUME NEW r \in Reminder, NEW when \in Nat, Registers(r, when)
      PROVE  ChainInv'
  <2> DEFINE e == [when |-> when, handler |-> r]
  <2>1. /\ Range(list') = Range(list) \cup {e}
        /\ r \notin {"at_1337", "at_1338"}
    BY <1>5, RegisteredReminder
  <2>2. e.handler = r /\ pc # "init" /\ UNCHANGED <<want1337, now>>
    BY <1>5 DEF Registers
  <2> HIDE DEF e
  <2>3. QED
    BY <2>1, <2>2 DEF ChainInv, InList
<1>6. ASSUME NEW r \in Reminder, Remind(r)
      PROVE  ChainInv'
  <2>1. Range(list) = Range(list') \cup {Head(list)}
    BY <1>6, OthersRemove, RestBasics
  <2>2. /\ Head(list).handler = r /\ r # "at_1338"
        /\ pc # "init" /\ UNCHANGED <<want1337, now>>
    BY <1>6, ListBasics
    DEF Remind, TimerEvent, TimerHandled, clockVars, list
  <2>3. QED
    BY <2>1, <2>2 DEF ChainInv, InList
<1>7. CASE At1337
  <2>1. /\ Range(list) = Range(list') \cup {Head(list)}
        /\ list # <<>> /\ InBatch
    BY <1>7, OthersRemove, RestBasics
  <2>2. Head(list).handler = "at_1337" /\ pc # "init" /\ now' = now
    BY <1>7 DEF At1337, TimerEvent, TimerHandled, clockVars, list
  <2>3. Head(list).when <= now
    BY <2>1 DEF OnTime
  <2>4. ASSUME NEW c \in Range(list'), c.handler = "at_1338"
        PROVE  c.when <= now' + LeetLength
    <3>1. Head(list).when + LeetLength = c.when
      BY <2>1, <2>2, <2>4 DEF LeetInv, OneDay
    <3>2. QED
      BY <1>1, <1>2, <2>1, <2>2, <2>3, <3>1
  <2>5. InList("at_1338")'
    BY <2>1, <2>2 DEF ChainInv, InList
  <2>6. QED
    BY <2>4, <2>5 DEF ChainInv
<1>8. CASE At1338
  <2>1. NoneOf(Rest.list)
    BY <1>8, At1338Removes
  <2>2. PICK t \in TimeRead :
          \E s \in ScheduleNext1337(Rest, t) : events'.list = s.list
    BY <1>8, At1338Removes
  <2>3. PICK s \in ScheduleNext1337(Rest, t) : events'.list = s.list
    BY <2>2
  <2>4. list # <<>> /\ want1337' = FALSE /\ list' = events'.list
    BY <1>8 DEF At1338, TimerEvent, list
  <2>5. \E e \in Range(s.list) : e.handler = "at_1338"
    BY <2>1, <2>4, RestBasics, ListBasics, ScheduledIsOneDay
  <2>6. QED
    BY <2>3, <2>4, <2>5 DEF ChainInv, InList
<1>9. QED
  BY <1>3, <1>4, <1>5, <1>6, <1>7, <1>8, ListStep

\* If, moreover, no call for the time fails, at_1338() always finds the next day
\* to schedule: the chain of leet_monitor.c is never cut.
THEOREM ChainInvAlways ==
    ASSUME MaxSetBack = 0, ~ClockFails
    PROVE  Spec => [](IInv /\ LeetInv /\ ChainInv)
<1>1. Init => ChainInv
  BY DEF Init, ChainInv
<1>2. /\ IInv /\ AskedOnce /\ OnTime /\ LeetInv /\ ChainInv
      /\ [Next]_vars
      => ChainInv'
  BY ChainInvStep
<1>3. QED
  BY LeetInvAlways, <1>1, <1>2, PTL DEF Spec

\* The chain of at_1337() and at_1338() never breaks and never doubles: each
\* at_1338() schedules the next day, whatever reminders come between them.
THEOREM ChainGoesOn ==
    ASSUME MaxSetBack = 0, ~ClockFails
    PROVE  Spec => []LeetChain
<1>1. ASSUME IInv, LeetInv, ChainInv
      PROVE  LeetChain
  <2> DEFINE opens == {i \in DOMAIN list : list[i].handler = "at_1337"}
             closes == {i \in DOMAIN list : list[i].handler = "at_1338"}
  <2>1. SUFFICES ASSUME pc # "init"
                 PROVE  \E c \in closes :
                          /\ closes = {c}
                          /\ list[c].when % DayLength = LeetStart + LeetLength
                          /\ \/ opens = {}
                             \/ /\ ~want1337
                                /\ \E o \in opens :
                                     /\ opens = {o}
                                     /\ list[o].when + LeetLength = list[c].when
    BY DEF LeetChain
  <2>2. PICK c \in DOMAIN list : list[c].handler = "at_1338"
    BY <1>1, <2>1 DEF ChainInv, InList, Range
  <2>3. closes = {c}
    BY <1>1, <2>2 DEF LeetInv, OneDay, AtMostOne
  <2>4. \A o \in opens : opens = {o}
    BY <1>1 DEF LeetInv, OneDay, AtMostOne
  <2>5. list[c].when % DayLength = LeetStart + LeetLength
    BY <1>1, <2>2 DEF LeetInv, OneDay, Range
  <2>6. ASSUME NEW o \in opens
        PROVE  ~want1337 /\ list[o].when + LeetLength = list[c].when
    BY <1>1, <2>2 DEF LeetInv, OneDay, Range
  <2>7. opens = {} \/ \E o \in opens : TRUE
    OBVIOUS
  <2>8. c \in closes
    BY <2>3
  <2> HIDE DEF opens, closes
  <2>9. QED
    BY <2>3, <2>4, <2>5, <2>6, <2>7, <2>8
<1>2. QED
  BY ChainInvAlways, <1>1, PTL

\* "1337" is only waited for in the minute before an at_1338() that is still
\* to come.
THEOREM WantedInTheMinute ==
    ASSUME MaxSetBack = 0, ~ClockFails
    PROVE  Spec => []WantedFrom1337
<1>1. ASSUME LeetInv, ChainInv
      PROVE  WantedFrom1337
  <2>1. SUFFICES ASSUME want1337
                 PROVE  \E i \in DOMAIN list :
                          /\ list[i].handler = "at_1338"
                          /\ list[i].when <= now + LeetLength
    BY DEF WantedFrom1337
  <2>2. PICK i \in DOMAIN list : list[i].handler = "at_1338"
    BY <1>1, <2>1 DEF LeetInv, ChainInv, InList, Range
  <2>3. list[i] \in Range(list)
    BY DEF Range
  <2>4. QED
    BY <1>1, <2>1, <2>2, <2>3 DEF ChainInv
<1>2. QED
  BY ChainInvAlways, <1>1, PTL
================================================================================
