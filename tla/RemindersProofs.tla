----------------------------- MODULE RemindersProofs -----------------------------
(***************************************************************************)
(* A reminder survives whatever it should survive, for any number of       *)
(* requests, restarts and torn writes, and any lag between the clocks.     *)
(*                                                                         *)
(* The heart of it is what a line of the file is: the file is only ever    *)
(* appended to, so that where a line starts, and whether reading gets to   *)
(* it, is settled when it is written.                                      *)
(***************************************************************************)
EXTENDS Reminders, TLAPS

Whole(r) == [id |-> r, intact |-> TRUE]

\* What one save_reminder() wrote, and all that was written.
Written == [id : Reminder, part : Parts]
File == Seq(Written)

\* In the file f, the line that ends at e starts at s.
Ends(f) == {i \in DOMAIN f : f[i].part = "line"}
Starts(f, s, e) ==
    /\ s \in 1..e
    /\ s = 1 \/ s - 1 \in Ends(f)
    /\ \A i \in s..(e - 1) : i \notin Ends(f)
StartOf(f, e) == CHOOSE s \in 1..e : /\ s = 1 \/ s - 1 \in Ends(f)
                                     /\ \A i \in s..(e - 1) : i \notin Ends(f)

\* Each write is in a line.
HasStarts(f) == \A e \in 1..Len(f) : \E s \in 1..e : Starts(f, s, e)

\* Reading stops at e, or gets to the line of r.
Bad(f, e) == f[StartOf(f, e)].part \in {"digits", "stamp"}
Safe(f, r) == \E i \in Ends(f) : /\ f[i].id = r
                                 /\ StartOf(f, i) = i
                                 /\ \A l \in Ends(f) : l < i => ~Bad(f, l)

-------------------------------------------------------------------------------
(* Lines *)

LEMMA FileFacts ==
    ASSUME NEW f \in File
    PROVE  /\ Len(f) \in Nat /\ DOMAIN f = 1..Len(f)
           /\ \A i \in 1..Len(f) : f[i] \in Written
           /\ Ends(f) \subseteq 1..Len(f)
           /\ \A i \in 1..Len(f) : i \in Ends(f) <=> f[i].part = "line"
<1>1. Len(f) \in Nat /\ DOMAIN f = 1..Len(f)
  BY DEF File
<1>2. \A i \in 1..Len(f) : f[i] \in Written
  BY DEF File
<1> QED
  BY <1>1, <1>2 DEF Ends

\* A line has one start.
LEMMA StartIsUnique ==
    ASSUME NEW f, NEW e \in Nat, NEW s, NEW u, Starts(f, s, e), Starts(f, u, e)
    PROVE  s = u
<1>1. s \in 1..e /\ u \in 1..e
  BY DEF Starts
<1>2. ASSUME s < u PROVE FALSE
  <2>1. u - 1 \in Ends(f) /\ u - 1 \in s..(e - 1)
    BY <1>1, <1>2 DEF Starts
  <2> QED
    BY <2>1 DEF Starts
<1>3. ASSUME u < s PROVE FALSE
  <2>1. s - 1 \in Ends(f) /\ s - 1 \in u..(e - 1)
    BY <1>1, <1>3 DEF Starts
  <2> QED
    BY <2>1 DEF Starts
<1> QED
  BY <1>1, <1>2, <1>3

LEMMA StartOfStarts ==
    ASSUME NEW f, HasStarts(f), NEW e \in 1..Len(f)
    PROVE  Starts(f, StartOf(f, e), e)
<1> DEFINE P(s) == /\ s = 1 \/ s - 1 \in Ends(f)
                   /\ \A i \in s..(e - 1) : i \notin Ends(f)
<1>1. \E s \in 1..e : P(s)
  BY DEF HasStarts, Starts
<1>2. StartOf(f, e) = CHOOSE s \in 1..e : P(s)
  BY DEF StartOf
<1> HIDE DEF P
<1>3. StartOf(f, e) \in 1..e /\ P(StartOf(f, e))
  BY <1>1, <1>2
<1> QED
  BY <1>3 DEF P, Starts

\* What is appended changes nothing of what is before it.
LEMMA Appended ==
    ASSUME NEW f \in File, NEW w \in Written,
           NEW g, g = Append(f, w)
    PROVE  /\ g \in File /\ Len(g) = Len(f) + 1 /\ Len(f) \in Nat
           /\ \A i \in 1..Len(f) : g[i] = f[i]
           /\ g[Len(f) + 1] = w
           /\ Ends(g) \subseteq 1..(Len(f) + 1) /\ Ends(f) \subseteq 1..Len(f)
           /\ \A i \in 1..Len(f) : i \in Ends(g) <=> i \in Ends(f)
           /\ Len(f) + 1 \in Ends(g) <=> w.part = "line"
<1>1. /\ g \in File /\ Len(g) = Len(f) + 1
      /\ Len(f) \in Nat
      /\ \A i \in 1..Len(f) : g[i] = f[i]
      /\ g[Len(f) + 1] = w
  BY DEF File
<1>2. /\ \A i \in 1..Len(f) : i \in 1..(Len(f) + 1)
      /\ Len(f) + 1 \in 1..(Len(f) + 1)
  BY <1>1
<1>3. /\ Ends(f) \subseteq 1..Len(f)
      /\ \A i \in 1..Len(f) : i \in Ends(f) <=> f[i].part = "line"
  BY FileFacts
<1>4. /\ Ends(g) \subseteq 1..(Len(f) + 1)
      /\ \A i \in 1..(Len(f) + 1) : i \in Ends(g) <=> g[i].part = "line"
  BY <1>1, FileFacts
<1> QED
  BY <1>1, <1>2, <1>3, <1>4

LEMMA StartsStay ==
    ASSUME NEW f \in File, NEW w \in Written,
           NEW g, g = Append(f, w),
           NEW e \in 1..Len(f), NEW s
    PROVE  Starts(g, s, e) <=> Starts(f, s, e)
<1>1. /\ Len(f) \in Nat
      /\ \A i \in 1..Len(f) : i \in Ends(g) <=> i \in Ends(f)
      /\ Ends(g) \subseteq 1..(Len(f) + 1) /\ Ends(f) \subseteq 1..Len(f)
  BY Appended
<1>2. ASSUME s \in 1..e
      PROVE  /\ s = 1 \/ s - 1 \in 1..Len(f)
             /\ \A i \in s..(e - 1) : i \in 1..Len(f)
  BY <1>1, <1>2
<1> QED
  BY <1>1, <1>2 DEF Starts

LEMMA HasStartsStays ==
    ASSUME NEW f \in File, NEW w \in Written,
           NEW g, g = Append(f, w), HasStarts(f)
    PROVE  HasStarts(g)
<1> DEFINE n == Len(f)
<1>1. /\ n \in Nat /\ Len(g) = n + 1
      /\ \A i \in 1..n : i \in Ends(g) <=> i \in Ends(f)
  BY Appended
<1>2. ASSUME NEW e \in 1..n PROVE \E s \in 1..e : Starts(g, s, e)
  BY <1>2, StartsStay DEF HasStarts
<1> HIDE DEF n
<1>3. \E s \in 1..(n + 1) : Starts(g, s, n + 1)
  <2>1. CASE n = 0 \/ n \in Ends(g)
    <3>1. n + 1 \in 1..(n + 1) /\ (n + 1) - 1 = n /\ (n + 1)..n = {}
      BY <1>1
    <3>2. Starts(g, n + 1, n + 1)
      BY <1>1, <2>1, <3>1 DEF Starts
    <3> QED
      BY <3>1, <3>2
  <2>2. CASE n > 0 /\ n \notin Ends(g)
    <3>0. n \in 1..n
      BY <1>1, <2>2
    <3>1. PICK s \in 1..n : Starts(g, s, n)
      BY <1>2, <3>0
    <3>2. /\ s \in 1..(n + 1)
          /\ \A i \in s..((n + 1) - 1) : i = n \/ i \in s..(n - 1)
      BY <1>1, <3>1
    <3>3. Starts(g, s, n + 1)
      BY <2>2, <3>1, <3>2 DEF Starts
    <3> QED
      BY <3>2, <3>3
  <2> QED
    BY <1>1, <2>1, <2>2
<1>4. ASSUME NEW e \in 1..Len(g) PROVE \E s \in 1..e : Starts(g, s, e)
  <2>1. e = n + 1 \/ e \in 1..n
    BY <1>1, <1>4
  <2> QED
    BY <1>2, <1>3, <2>1
<1> QED
  BY <1>4 DEF HasStarts

\* Where a line starts is settled when it is written.
LEMMA StartOfStays ==
    ASSUME NEW f \in File, NEW w \in Written,
           NEW g, g = Append(f, w), HasStarts(f), NEW e \in 1..Len(f)
    PROVE  StartOf(g, e) = StartOf(f, e)
<1>1. Starts(f, StartOf(f, e), e)
  BY StartOfStarts
<1>2. HasStarts(g) /\ e \in 1..Len(g) /\ e \in Nat
  <2>1. HasStarts(g)
    BY HasStartsStays
  <2>2. Len(g) = Len(f) + 1 /\ Len(f) \in Nat
    BY Appended
  <2> QED
    BY <2>1, <2>2
<1>3. Starts(g, StartOf(g, e), e)
  BY <1>2, StartOfStarts
<1>4. Starts(g, StartOf(f, e), e)
  BY <1>1, StartsStay
<1> QED
  BY <1>2, <1>3, <1>4, StartIsUnique

\* A reminder that is safe was so before, or is the one that was written.
LEMMA SafeBefore ==
    ASSUME NEW f \in File, NEW w \in Written,
           NEW g, g = Append(f, w), HasStarts(f), NEW r, r # w.id, Safe(g, r)
    PROVE  Safe(f, r)
<1>1. /\ Len(f) \in Nat
      /\ \A i \in 1..Len(f) : g[i] = f[i]
      /\ g[Len(f) + 1] = w
      /\ Ends(g) \subseteq 1..(Len(f) + 1) /\ Ends(f) \subseteq 1..Len(f)
      /\ \A i \in 1..Len(f) : i \in Ends(g) <=> i \in Ends(f)
  <2>1. Len(f) \in Nat /\ g[Len(f) + 1] = w
    BY Appended
  <2>2. \A i \in 1..Len(f) : g[i] = f[i]
    BY Appended
  <2>3. Ends(g) \subseteq 1..(Len(f) + 1) /\ Ends(f) \subseteq 1..Len(f)
    BY Appended
  <2>4. \A i \in 1..Len(f) : i \in Ends(g) <=> i \in Ends(f)
    BY Appended
  <2> QED
    BY <2>1, <2>2, <2>3, <2>4
<1>2. PICK i \in Ends(g) : /\ g[i].id = r
                           /\ StartOf(g, i) = i
                           /\ \A l \in Ends(g) : l < i => ~Bad(g, l)
  BY DEF Safe
<1>3. i \in 1..Len(f) /\ i \in Ends(f) /\ f[i].id = r /\ StartOf(f, i) = i
  <2>1. i # Len(f) + 1
    BY <1>1, <1>2
  <2>2. i \in 1..Len(f)
    BY <1>1, <1>2, <2>1
  <2> QED
    BY <1>1, <1>2, <2>2, StartOfStays
<1>4. ASSUME NEW l \in Ends(f), l < i PROVE ~Bad(f, l)
  <2>1. l \in Ends(g) /\ l \in 1..Len(f)
    BY <1>1
  <2>2. StartOf(g, l) = StartOf(f, l) /\ StartOf(f, l) \in 1..Len(f)
    <3>1. StartOf(f, l) \in 1..l
      BY <2>1, StartOfStarts DEF Starts
    <3>2. StartOf(g, l) = StartOf(f, l)
      BY <2>1, StartOfStays
    <3> QED
      BY <1>1, <2>1, <3>1, <3>2
  <2> QED
    BY <1>1, <1>2, <1>4, <2>1, <2>2 DEF Bad
<1> QED
  BY <1>3, <1>4 DEF Safe

-------------------------------------------------------------------------------
(* The invariant *)

\* The requests that handle_remind() is at.
AddingInv ==
    /\ pc \in {"up", "down"} => adding = {}
    /\ pc = "down" => confirmed = {}
    /\ pc = "saved" => \A r \in adding : sent[r] = 0
    /\ pc = "reply" => \A r \in adding : Whole(r) \in memory

\* A reminder that was sent was due; one that is pending again was read from
\* the file in the second it is for.
SentInv ==
    \A r \in Reminder :
        sent[r] > 0 =>
            /\ due[r] <= now
            /\ Whole(r) \in memory =>
                   readAt <= due[r] /\ due[r] <= readAt + TimeLag

\* What ReminderIsKept says, in the words of the lemmas above.
KeptInv ==
    pc # "down" =>
        /\ \A r \in confirmed : sent[r] > 0 \/ Whole(r) \in memory
        /\ \A r \in Reminder \ adding :
              Safe(file, r) => \/ sent[r] > 0
                               \/ Whole(r) \in memory
                               \/ due[r] < readAt

\* The inductive invariant.
IInv == TypeOK /\ HasStarts(file) /\ AddingInv /\ SentInv /\ KeptInv

LEMMA SameWords ==
    /\ LineEnds = Ends(file)
    /\ \A e : LineStart(e) = StartOf(file, e)
    /\ \A e : BadStamp(e) <=> Bad(file, e)
    /\ \A r : SafeOnDisk(r) <=> Safe(file, r)
<1>1. LineEnds = Ends(file)
  BY DEF LineEnds, Ends
<1>2. \A e : LineStart(e) = StartOf(file, e)
  BY <1>1 DEF LineStart, StartOf
<1>3. \A e : BadStamp(e) <=> Bad(file, e)
  BY <1>2 DEF BadStamp, Bad
<1> QED
  BY <1>1, <1>2, <1>3 DEF SafeOnDisk, Safe

LEMMA InvInit == Init => IInv
<1> SUFFICES ASSUME Init PROVE IInv
  OBVIOUS
<1>1. TypeOK
  BY RemindersAssumption DEF Init, TypeOK, PCs
<1>2. HasStarts(file)
  BY DEF Init, HasStarts
<1>3. AddingInv /\ SentInv /\ KeptInv
  BY DEF Init, AddingInv, SentInv, KeptInv
<1> QED
  BY <1>1, <1>2, <1>3 DEF IInv

\* save_reminder() writes a line that nothing is promised about until the
\* reminder is in memory.
LEMMA Saves ==
    ASSUME IInv, NEW r \in Reminder, Save(r)
    PROVE  IInv'
<1>1. /\ file \in File /\ HasStarts(file) /\ pc = "up" /\ ~Asked(r)
      /\ adding = {} /\ adding' = {r} /\ pc' = "saved"
      /\ UNCHANGED <<now, due, memory, readAt, restarts, confirmed, sent>>
  BY DEF IInv, TypeOK, AddingInv, Save, File, Written
<1>2. \/ file' = file
      \/ \E w \in Written : w.id = r /\ file' = Append(file, w)
  <2>1. \A p \in Parts : /\ [id |-> r, part |-> p] \in Written
                         /\ [id |-> r, part |-> p].id = r
    BY DEF Written
  <2>2. "line" \in Parts
    BY DEF Parts
  <2> QED
    BY <2>1, <2>2 DEF Save, Write
<1>3. file' \in File /\ HasStarts(file')
  BY <1>1, <1>2, HasStartsStays, Appended
<1>4. \A q \in Reminder \ {r} : Safe(file', q) => Safe(file, q)
  BY <1>1, <1>2, SafeBefore
<1>5. TypeOK'
  BY <1>1, <1>3 DEF IInv, TypeOK, PCs, File, Written
<1>6. AddingInv'
  <2>1. sent[r] = 0
    BY <1>1 DEF Asked, IInv, TypeOK
  <2> QED
    BY <1>1, <2>1 DEF AddingInv
<1>7. SentInv' /\ KeptInv'
  BY <1>1, <1>4 DEF IInv, SentInv, KeptInv
<1> QED
  BY <1>3, <1>5, <1>6, <1>7 DEF IInv

\* add_time_event() and the reply
LEMMA Adds ==
    ASSUME IInv, Add \/ Confirm
    PROVE  IInv'
<1>1. CASE Add
  <2>1. /\ pc = "saved" /\ pc' = "reply"
        /\ memory' = memory \cup {Whole(r) : r \in adding}
        /\ UNCHANGED <<now, due, file, adding, readAt, restarts, confirmed, sent>>
    BY <1>1 DEF Add, Whole
  <2>2. TypeOK'
    <3>1. \A r \in Reminder : Whole(r) \in Entry
      BY DEF Whole, Entry
    <3> QED
      BY <2>1, <3>1 DEF IInv, TypeOK, PCs
  <2>3. AddingInv'
    BY <2>1 DEF AddingInv
  <2>4. SentInv'
    <3>1. ASSUME NEW r \in Reminder, sent[r] > 0, Whole(r) \in memory'
          PROVE  Whole(r) \in memory
      <4>1. r \notin adding
        BY <2>1, <3>1 DEF IInv, AddingInv, TypeOK
      <4>2. \A q \in adding : Whole(q) # Whole(r)
        BY <4>1 DEF Whole
      <4> QED
        BY <2>1, <3>1, <4>2
    <3> QED
      BY <2>1, <3>1 DEF IInv, SentInv
  <2>5. KeptInv'
    BY <2>1 DEF IInv, KeptInv
  <2> QED
    BY <2>1, <2>2, <2>3, <2>4, <2>5 DEF IInv
<1>2. CASE Confirm
  <2>1. /\ pc = "reply" /\ pc' = "up"
        /\ confirmed' = confirmed \cup adding /\ adding' = {}
        /\ UNCHANGED <<now, due, file, memory, readAt, restarts, sent>>
    BY <1>2 DEF Confirm
  <2>2. \A r \in adding : Whole(r) \in memory
    BY <2>1 DEF IInv, AddingInv
  <2>3. TypeOK' /\ AddingInv'
    BY <2>1 DEF IInv, TypeOK, PCs, AddingInv
  <2>4. SentInv' /\ KeptInv'
    BY <2>1, <2>2 DEF IInv, SentInv, KeptInv
  <2> QED
    BY <2>1, <2>3, <2>4 DEF IInv
<1> QED
  BY <1>1, <1>2

\* What restore_remind_state() puts together from the line that ends at e.
EntryOf(f, e) == [id |-> f[StartOf(f, e)].id, intact |-> StartOf(f, e) = e]

LEMMA EntriesAreEntries ==
    ASSUME NEW f \in File, HasStarts(f), NEW e \in 1..Len(f)
    PROVE  EntryOf(f, e) \in Entry /\ StartOf(f, e) \in 1..Len(f)
<1>1. StartOf(f, e) \in 1..e /\ Len(f) \in Nat
  BY StartOfStarts, FileFacts DEF Starts
<1>2. StartOf(f, e) \in 1..Len(f)
  BY <1>1
<1>3. f[StartOf(f, e)].id \in Reminder
  BY <1>2, FileFacts DEF Written
<1> QED
  BY <1>2, <1>3 DEF EntryOf, Entry

\* Reading gets to a line that is safe.
LEMMA SafeIsRead ==
    ASSUME NEW f \in File, NEW r, NEW n, n \in Ends(f) => Bad(f, n),
           n \in Ends(f) \cup {Len(f) + 1}, Safe(f, r)
    PROVE  \E i \in Ends(f) : /\ i < n /\ StartOf(f, i) = i /\ f[i].id = r
                              /\ ~Bad(f, i)
<1>1. PICK i \in Ends(f) : /\ f[i].id = r
                           /\ StartOf(f, i) = i
                           /\ \A l \in Ends(f) : l < i => ~Bad(f, l)
  BY DEF Safe
<1>2. i \in 1..Len(f) /\ Len(f) \in Nat /\ Ends(f) \subseteq 1..Len(f)
  BY FileFacts
<1>3. f[i].part = "line"
  BY DEF Ends
<1>4. ~Bad(f, i)
  BY <1>1, <1>3 DEF Bad
<1>5. i < n
  <2>1. CASE n = Len(f) + 1
    BY <1>2, <2>1
  <2>2. CASE n \in Ends(f)
    BY <1>1, <1>2, <1>4, <2>2
  <2> QED
    BY <2>1, <2>2
<1> QED
  BY <1>1, <1>4, <1>5

\* What is in memory after a restart.
LEMMA Restored ==
    ASSUME IInv, NEW t, NEW n
    PROVE  Restore(t, n) =
               {EntryOf(file, e) : e \in {l \in Ends(file) :
                    /\ l < n
                    /\ ~Bad(file, l)
                    /\ t <= due[file[StartOf(file, l)].id]}}
BY SameWords DEF Restore, EntryOf

LEMMA Restarts ==
    ASSUME IInv, Restart
    PROVE  IInv'
<1>1. PICK t \in TimeRead, n \in Stops : /\ readAt' = t
                                         /\ memory' = Restore(t, n)
  BY DEF Restart
<1>2. /\ pc = "down" /\ pc' = "up"
      /\ restarts' \in 0..MaxRestarts
      /\ UNCHANGED <<now, due, file, adding, confirmed, sent>>
  BY RemindersAssumption DEF Restart, IInv, TypeOK
<1>3. /\ file \in File /\ HasStarts(file) /\ now \in Nat
      /\ Ends(file) \subseteq 1..Len(file)
  BY FileFacts DEF IInv, TypeOK, File, Written
<1>4. t \in Nat /\ t <= now /\ now <= t + TimeLag /\ TimeLag \in Nat
  BY <1>3, RemindersAssumption DEF TimeRead
<1>5. memory' = {EntryOf(file, e) : e \in {l \in Ends(file) :
                     /\ l < n
                     /\ ~Bad(file, l)
                     /\ t <= due[file[StartOf(file, l)].id]}}
  BY <1>1, Restored
<1>6. memory' \subseteq Entry
  BY <1>3, <1>5, EntriesAreEntries
<1>7. adding = {} /\ confirmed = {}
  BY <1>2 DEF IInv, AddingInv
<1>8. TypeOK' /\ AddingInv'
  BY <1>1, <1>2, <1>4, <1>6, <1>7 DEF IInv, TypeOK, AddingInv, PCs
<1>9. SentInv'
  <2>1. ASSUME NEW r \in Reminder, Whole(r) \in memory' PROVE t <= due[r]
    <3>1. PICK e \in Ends(file) : /\ Whole(r) = EntryOf(file, e)
                                  /\ t <= due[file[StartOf(file, e)].id]
      BY <1>5, <2>1
    <3>2. r = file[StartOf(file, e)].id
      BY <3>1 DEF Whole, EntryOf
    <3> QED
      BY <3>1, <3>2
  <2>2. ASSUME NEW r \in Reminder, sent[r] > 0 PROVE due[r] <= now /\ due[r] \in Nat
    BY <2>2 DEF IInv, SentInv, TypeOK
  <2> QED
    BY <1>1, <1>2, <1>3, <1>4, <2>1, <2>2 DEF SentInv
<1>10. KeptInv'
  <2>1. ASSUME NEW r \in Reminder, Safe(file, r)
        PROVE  Whole(r) \in memory' \/ due[r] < t
    <3>1. /\ n \in Ends(file) => Bad(file, n)
          /\ n \in Ends(file) \cup {Len(file) + 1}
      <4>1. Len(file) + 1 \notin Ends(file)
        BY <1>3, FileFacts
      <4> QED
        BY <4>1, SameWords DEF Stops
    <3>2. PICK i \in Ends(file) : /\ i < n /\ StartOf(file, i) = i
                                  /\ file[i].id = r /\ ~Bad(file, i)
      BY <1>3, <2>1, <3>1, SafeIsRead
    <3>3. EntryOf(file, i) = Whole(r)
      BY <3>2 DEF EntryOf, Whole
    <3>4. due[r] \in Nat
      BY DEF IInv, TypeOK
    <3> QED
      BY <1>4, <1>5, <3>2, <3>3, <3>4
  <2> QED
    BY <1>1, <1>2, <1>7, <2>1 DEF KeptInv
<1> QED
  BY <1>2, <1>3, <1>8, <1>9, <1>10 DEF IInv

LEMMA Downs ==
    ASSUME IInv, Stop
    PROVE  IInv'
BY DEF Stop, IInv, TypeOK, PCs, AddingInv, SentInv, KeptInv

LEMMA Ticks ==
    ASSUME IInv, Tick
    PROVE  IInv'
<1>1. now \in Nat /\ now' = now + 1
      /\ UNCHANGED <<due, file, pc, adding, memory, readAt, restarts, confirmed, sent>>
  BY DEF Tick, IInv, TypeOK
<1>2. TypeOK' /\ AddingInv' /\ KeptInv'
  BY <1>1 DEF IInv, TypeOK, AddingInv, KeptInv
<1>3. SentInv'
  BY <1>1 DEF IInv, TypeOK, SentInv
<1> QED
  BY <1>1, <1>2, <1>3 DEF IInv

\* A reminder that is sent leaves memory, and no other does.
LEMMA Sends ==
    ASSUME IInv, NEW e \in memory, Remind(e)
    PROVE  IInv'
<1>1. /\ pc = "up" /\ due[e.id] <= now /\ memory' = memory \ {e}
      /\ sent' = IF e.intact THEN [sent EXCEPT ![e.id] = @ + 1] ELSE sent
      /\ UNCHANGED <<now, due, file, pc, adding, readAt, restarts, confirmed>>
  BY DEF Remind
<1>2. e \in Entry /\ e.id \in Reminder /\ sent \in [Reminder -> Nat]
  BY DEF IInv, TypeOK, Entry
<1>3. \A r \in Reminder : Whole(r) = e => e.intact /\ r = e.id
  BY DEF Whole
<1>4. e.intact => e = Whole(e.id)
  BY <1>2 DEF Entry, Whole
<1>5. /\ sent' \in [Reminder -> Nat]
      /\ \A r \in Reminder : \/ sent'[r] = sent[r]
                             \/ sent'[r] = sent[r] + 1 /\ e = Whole(r)
      /\ \A r \in Reminder : Whole(r) = e => sent'[r] > 0
      /\ \A r \in Reminder : sent[r] > 0 => sent'[r] > 0
  BY <1>1, <1>2, <1>3, <1>4
<1>6. TypeOK' /\ AddingInv'
  BY <1>1, <1>5 DEF IInv, TypeOK, AddingInv
<1>7. SentInv'
  <2>1. ASSUME NEW r \in Reminder, sent'[r] > 0
        PROVE  /\ due[r] <= now
               /\ Whole(r) \in memory' =>
                      readAt <= due[r] /\ due[r] <= readAt + TimeLag
    <3>1. CASE sent'[r] = sent[r]
      BY <1>1, <2>1, <3>1 DEF IInv, SentInv
    <3>2. CASE e = Whole(r)
      BY <1>1, <1>3, <3>2
    <3> QED
      BY <1>5, <3>1, <3>2
  <2> QED
    BY <1>1, <2>1 DEF SentInv
<1>8. KeptInv'
  BY <1>1, <1>5 DEF IInv, TypeOK, KeptInv
<1> QED
  BY <1>1, <1>6, <1>7, <1>8 DEF IInv

LEMMA InvNext == IInv /\ [Next]_vars => IInv'
<1> SUFFICES ASSUME IInv, [Next]_vars PROVE IInv'
  OBVIOUS
<1>1. CASE UNCHANGED vars
  BY <1>1 DEF vars, IInv, TypeOK, AddingInv, SentInv, KeptInv
<1> QED
  BY <1>1, Saves, Adds, Restarts, Downs, Sends, Ticks DEF Next

LEMMA Invariance == Spec => []IInv
BY InvInit, InvNext, PTL DEF Spec

-------------------------------------------------------------------------------
(* The theorems *)

\* The variables keep their types: so do the file and what
\* restore_remind_state() makes of it.
THEOREM TypeCorrect == Spec => []TypeOK
<1>1. IInv => TypeOK
  BY DEF IInv
<1> QED
  BY <1>1, Invariance, PTL

\* handle_remind(), save_reminder() and restore_remind_state(): a reminder that
\* was confirmed, or whose line can be read, is sent or pending unless its time
\* passed while the bot was down, for any number of requests, restarts and torn
\* writes.
THEOREM RemindersAreKept == Spec => []ReminderIsKept
<1>1. IInv => ReminderIsKept
  BY SameWords DEF IInv, KeptInv, ReminderIsKept, IsUp, Whole
<1> QED
  BY <1>1, Invariance, PTL

\* restore_remind_state() lets a reminder that was sent be sent again only if
\* time() returned the second it was for, or one that lies no further back than
\* time() lags.
THEOREM SentAgainInItsSecond == Spec => SentTwiceOnlyWithinASecond
<1>1. IInv /\ [Next]_vars =>
          [\A r \in Reminder :
              sent'[r] > sent[r] /\ sent[r] > 0 =>
                  readAt <= due[r] /\ due[r] <= readAt + TimeLag]_vars
  <2> SUFFICES ASSUME IInv, [Next]_vars, NEW r \in Reminder,
                      sent'[r] > sent[r], sent[r] > 0
               PROVE  readAt <= due[r] /\ due[r] <= readAt + TimeLag
    OBVIOUS
  <2>1. sent[r] \in Nat /\ sent \in [Reminder -> Nat]
    BY DEF IInv, TypeOK
  <2>2. sent' # sent
    BY <2>1
  <2>3. PICK e \in memory : Remind(e)
    BY <2>2 DEF Next, vars, Save, Add, Confirm, Restart, Stop, Tick
  <2>4. e.intact /\ e.id = r
    <3>1. e.id \in Reminder
      BY DEF IInv, TypeOK, Entry
    <3> QED
      BY <2>1, <2>2, <2>3, <3>1 DEF Remind
  <2>5. Whole(r) \in memory
    BY <2>4 DEF IInv, TypeOK, Entry, Whole
  <2> QED
    BY <2>5 DEF IInv, SentInv
<1> QED
  BY <1>1, Invariance, PTL DEF Spec, SentTwiceOnlyWithinASecond
==================================================================================
