------------------------------ MODULE TimeEvent ------------------------------
(***************************************************************************)
(* time_event.c: a sorted list of events and one timerfd, armed for the    *)
(* first of them.  The operators take and return the state of the module,  *)
(* so that a handler that adds events and the removal of the event it was  *)
(* called for compose into the one step that handle_time_event() is.       *)
(***************************************************************************)
EXTENDS Naturals, SequencesExt

\* A Time_event: its time, and which handler it calls with which data.
TimeEvents(Handler) == [when : Nat, handler : Handler]

\* The timer is "off" (never armed), "set" for the deadline, or "expired": it
\* stays readable, as nobody reads it, until it is armed again.
TimerStates == {"off", "set", "expired"}

TimeEventStates(Handler) ==
    [list     : Seq(TimeEvents(Handler)),
     timer    : TimerStates,
     deadline : Nat]

\* The list is in chronological order.
InOrder(l) == \A i, j \in DOMAIN l : i < j => l[i].when <= l[j].when

\* init_time_event()
NoTimeEvents == [list |-> <<>>, timer |-> "off", deadline |-> 0]

\* arm_timer(start).  Arming clears an expiration nobody has seen.
ArmTimer(q) ==
    [q EXCEPT !.timer = "set", !.deadline = Head(q.list).when]

\* Deliberately wrong variants of an operation, here and below, each followed
\* by the operation: with one in its place a property must fail.

\* Wrong: the newest event is put first.
InsertionPointFront(list, when) == 1

\* The place of the first node that is later than when, or of the end.
InsertionPoint(list, when) ==
    CHOOSE p \in 1..(Len(list) + 1) :
        /\ \A i \in 1..(p - 1) : list[i].when <= when
        /\ p <= Len(list) => list[p].when > when

\* Wrong: the timer is armed for the first event of an empty list only.
AddTimeEventArmsOnce(q, when, handler) ==
    LET p == InsertionPoint(q.list, when)
        added == [q EXCEPT !.list =
                    InsertAt(q.list, p, [when |-> when, handler |-> handler])]
    IN  IF q.list = <<>> THEN ArmTimer(added) ELSE added

\* Wrong: the new node is linked in without its successors.
AddTimeEventTruncates(q, when, handler) ==
    LET p == InsertionPoint(q.list, when)
        added == [q EXCEPT !.list =
                    SubSeq(q.list, 1, p - 1) \o
                    << [when |-> when, handler |-> handler] >>]
    IN  IF p = 1 THEN ArmTimer(added) ELSE added

\* add_time_event()
AddTimeEvent(q, when, handler) ==
    LET p == InsertionPoint(q.list, when)
        added == [q EXCEPT !.list =
                    InsertAt(q.list, p, [when |-> when, handler |-> handler])]
    IN  IF p = 1 THEN ArmTimer(added) ELSE added

\* Wrong: the timer is armed before the event is removed.
RemoveStartArmsFirst(q) == [ArmTimer(q) EXCEPT !.list = Tail(q.list)]

\* Wrong: the timer is not armed again.
RemoveStartOnly(q) == [q EXCEPT !.list = Tail(q.list)]

\* The second half of handle_time_event(): whatever is first when the handler
\* returns is removed.
RemoveStart(q) ==
    LET rest == [q EXCEPT !.list = Tail(q.list)]
    IN  IF rest.list # <<>> THEN ArmTimer(rest) ELSE rest
==============================================================================
