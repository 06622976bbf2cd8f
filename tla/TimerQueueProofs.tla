-------------------------- MODULE TimerQueueProofs --------------------------
(***************************************************************************)
(* For any set of addresses, any number of timers, delays and intervals:   *)
(* the two sets of the timer queue, the batch and the queued functors own  *)
(* every Timer exactly once; a cancelled timer stays cancelled; the one    *)
(* timerfd is never set too late.                                          *)
(***************************************************************************)
EXTENDS TimerQueue, SequenceTheorems, FiniteSetTheorems, TLAPS

TimerRecord == [seq : Seqs \cup {-1}, expiration : Int, interval : Nat]
FunctorRecord == [op : {"add", "cancel"}, ticket : Tickets]

\* The three kinds of owner of the Timer at address a.
InSets(a) == <<heap[a].expiration, a>> \in timers_
InBatch(a) == \E i \in DOMAIN expired : expired[i][2] = a
AddIn(q, a) == \E i \in DOMAIN q : q[i].op = "add" /\ q[i].ticket.id[1] = a
InQueue(a) == AddIn(queue, a)

\* OneOwner, address by address.
Owned ==
    /\ \A e \in timers_ : e[2] \in Live /\ e[1] = heap[e[2]].expiration
    /\ \A a \in Addrs, s \in Seqs :
            <<a, s>> \in activeTimers_ <=> InSets(a) /\ s = heap[a].seq
    /\ \A a \in Addrs : a \in Live <=> InSets(a) \/ InBatch(a) \/ InQueue(a)
    /\ \A a \in Addrs : /\ ~(InSets(a) /\ InBatch(a))
                        /\ ~(InSets(a) /\ InQueue(a))
                        /\ ~(InBatch(a) /\ InQueue(a))

\* A live object was given a sequence number; finitely many were created.
HeapInv ==
    /\ IsFiniteSet(Live)
    /\ \A a \in Live : heap[a].seq \in Seqs /\ heap[a].seq < s_numCreated_

\* Where calls and their tickets come from: only ids are cancelled, a number is
\* used once, and the timer of that number lives nowhere but at the ticket's
\* address.  A ticket is that of its timer, or was read when the timer was gone.
IdsInv ==
    /\ asked \subseteq ids /\ cancelled \subseteq ids
    /\ \A i \in DOMAIN queue : queue[i].op # "add" => queue[i].ticket \in ids
    /\ \A t \in ids \cup returning :
        /\ t.timer < s_numCreated_
        /\ ~t.late => t.id[2] = t.timer
        /\ \A b \in Live : heap[b].seq = t.timer => b = t.id[1] /\ ~t.late

\* A queued addTimerInLoop holds the ticket of a live timer, and is its only one.
QueueInv ==
    \A i \in DOMAIN queue : queue[i].op = "add" =>
        /\ queue[i].ticket.id[1] \in Live /\ heap[queue[i].ticket.id[1]].seq = queue[i].ticket.timer
        /\ \A j \in DOMAIN queue :
                queue[j].op = "add" /\ queue[j].ticket.id[1] = queue[i].ticket.id[1] => j = i

\* There is a batch only while handleRead runs, and it starts with none.
BatchInv ==
    ~(reported /\ callingExpiredTimers_) /\ (~callingExpiredTimers_ => expired = <<>>)

\* A cancelled timer that is still there is in the batch, and reset() knows.
CancelInv ==
    \A t \in cancelled \ tooEarly :
        t.id[1] \in Live /\ heap[t.id[1]].seq = t.timer =>
            InBatch(t.id[1]) /\ <<t.id[1], t.timer>> \in cancelingTimers_

IInv == /\ TypeOK /\ HeapInv /\ IdsInv /\ QueueInv /\ BatchInv /\ Owned /\ CancelInv
        /\ ArmedForEarliest
-----------------------------------------------------------------------------
(* Induction, by least counterexample. *)

\* A set of finite sets has one with no smaller one in it.
LEMMA MinimalSet ==
    ASSUME NEW S, NEW B \in SUBSET FiniteSubsetsOf(S), B # {}
    PROVE  \E T \in B : \A U \in B : U \subseteq T => U = T
<1>1. PICK T \in B : \A U \in B : ~(<<U, T>> \in StrictSubsetOrdering(S))
  BY FS_StrictSubsetOrderingWellFounded, WFMin
<1>2. ASSUME NEW U \in B, U \subseteq T PROVE U = T
  BY <1>1, <1>2 DEF StrictSubsetOrdering, FiniteSubsetsOf
<1>3. QED
  BY <1>2

\* A finite set of expirations has an earliest one.
LEMMA HasEarliest ==
    ASSUME NEW T \in SUBSET Int, IsFiniteSet(T), T # {}
    PROVE  \E w \in T : \A v \in T : w <= v
<1> DEFINE B == {U \in FiniteSubsetsOf(Int) : U # {} /\ ~ \E w \in U : \A v \in U : w <= v}
<1> SUFFICES B = {}
  BY DEF FiniteSubsetsOf
<1> SUFFICES ASSUME B # {} PROVE FALSE
  OBVIOUS
<1>1. PICK U \in B : \A V \in B : V \subseteq U => V = U
  <2>1. B \in SUBSET FiniteSubsetsOf(Int)
    OBVIOUS
  <2> HIDE DEF B
  <2>2. QED
    BY <2>1, MinimalSet
<1>2. PICK x \in U : TRUE
  OBVIOUS
<1>3. U \ {x} \in FiniteSubsetsOf(Int) /\ x \in Int
  BY FS_RemoveElement DEF FiniteSubsetsOf
<1>4. CASE U \ {x} = {}
  BY <1>2, <1>3, <1>4
<1>5. CASE U \ {x} # {}
  <2>1. PICK w \in U \ {x} : \A v \in U \ {x} : w <= v
    <3>1. U \ {x} \notin B
      BY <1>1, <1>2
    <3>2. QED
      BY <1>3, <1>5, <3>1
  <2>2. w \in Int /\ U \subseteq Int
    BY DEF FiniteSubsetsOf
  <2>3. CASE w <= x
    BY <2>1, <2>2, <2>3
  <2>4. CASE x <= w
    <3>1. \A v \in U : x <= v
      BY <1>3, <2>1, <2>2, <2>4
    <3>2. QED
      BY <1>2, <3>1
  <2>5. QED
    BY <1>3, <2>2, <2>3, <2>4
<1>6. QED
  BY <1>4, <1>5
-----------------------------------------------------------------------------
(* The queue of functors, the heap and the owners. *)

\* queueInLoop appends one functor.
LEMMA QueueAppend ==
    ASSUME NEW q \in Seq(FunctorRecord), NEW f \in FunctorRecord
    PROVE  /\ Append(q, f) \in Seq(FunctorRecord)
           /\ DOMAIN q = 1..Len(q) /\ DOMAIN Append(q, f) = 1..Len(q) + 1
           /\ Len(q) \in Nat
           /\ \A i \in DOMAIN q : Append(q, f)[i] = q[i]
           /\ Append(q, f)[Len(q) + 1] = f
           /\ \A a : AddIn(Append(q, f), a) <=> AddIn(q, a) \/ (f.op = "add" /\ f.ticket.id[1] = a)
<1>1. /\ Append(q, f) \in Seq(FunctorRecord)
      /\ DOMAIN q = 1..Len(q) /\ DOMAIN Append(q, f) = 1..Len(q) + 1
      /\ Len(q) \in Nat
      /\ \A i \in DOMAIN q : Append(q, f)[i] = q[i]
      /\ Append(q, f)[Len(q) + 1] = f
  BY AppendProperties, LenProperties
<1>2. \A a : AddIn(Append(q, f), a) <=> AddIn(q, a) \/ (f.op = "add" /\ f.ticket.id[1] = a)
  <2> DEFINE p == Append(q, f)
  <2> HIDE DEF p
  <2>1. SUFFICES \A a : AddIn(p, a) <=> AddIn(q, a) \/ (f.op = "add" /\ f.ticket.id[1] = a)
    BY DEF p
  <2>2. /\ DOMAIN p = 1..Len(q) + 1 /\ p[Len(q) + 1] = f
        /\ \A i \in 1..Len(q) : p[i] = q[i]
    BY <1>1 DEF p
  <2>3. QED
    BY <1>1, <2>2 DEF AddIn
<1>3. QED
  BY <1>1, <1>2

\* doPendingFunctors takes the functors in order.
LEMMA QueueTail ==
    ASSUME NEW q \in Seq(FunctorRecord), q # <<>>
    PROVE  /\ Head(q) \in FunctorRecord /\ Head(q) = q[1] /\ 1 \in DOMAIN q
           /\ Tail(q) \in Seq(FunctorRecord)
           /\ \A i \in DOMAIN Tail(q) : /\ i \in Nat /\ i + 1 \in DOMAIN q /\ i + 1 # 1
                                        /\ Tail(q)[i] = q[i + 1]
           /\ \A i \in DOMAIN q : i # 1 => i - 1 \in DOMAIN Tail(q) /\ Tail(q)[i - 1] = q[i]
<1>1. Head(q) \in FunctorRecord /\ Tail(q) \in Seq(FunctorRecord)
  BY HeadTailProperties
<1>2. /\ DOMAIN q = 1..Len(q) /\ Len(q) \in Nat \ {0}
      /\ DOMAIN Tail(q) = 1..(Len(q) - 1)
      /\ \A i \in 1..(Len(q) - 1) : Tail(q)[i] = q[i + 1]
  BY HeadTailProperties, LenProperties, EmptySeq
<1>3. QED
  BY <1>1, <1>2

\* Whose addition is left when the first functor was taken.
LEMMA AddInTail ==
    ASSUME NEW q \in Seq(FunctorRecord), q # <<>>, NEW a
    PROVE  /\ AddIn(Tail(q), a) => AddIn(q, a)
           /\ AddIn(q, a) => AddIn(Tail(q), a) \/ (Head(q).op = "add" /\ Head(q).ticket.id[1] = a)
<1> USE QueueTail
<1>1. ASSUME AddIn(Tail(q), a) PROVE AddIn(q, a)
  BY <1>1 DEF AddIn
<1>2. ASSUME AddIn(q, a)
      PROVE  AddIn(Tail(q), a) \/ (Head(q).op = "add" /\ Head(q).ticket.id[1] = a)
  <2>1. PICK i \in DOMAIN q : q[i].op = "add" /\ q[i].ticket.id[1] = a
    BY <1>2 DEF AddIn
  <2>2. CASE i = 1
    BY <2>1, <2>2
  <2>3. CASE i # 1
    <3>1. i - 1 \in DOMAIN Tail(q) /\ Tail(q)[i - 1] = q[i]
      BY <2>3
    <3>2. QED
      BY <2>1, <3>1 DEF AddIn
  <2>4. QED
    BY <2>2, <2>3
<1>3. QED
  BY <1>1, <1>2

\* Owned is OneOwner.
LEMMA OwnedIsOneOwner ==
    ASSUME TypeOK, HeapInv
    PROVE  Owned => OneOwner
<1> SUFFICES ASSUME Owned PROVE OneOwner
  OBVIOUS
<1> DEFINE inSets == {e[2] : e \in timers_}
<1> DEFINE inBatch == {expired[i][2] : i \in DOMAIN expired}
<1> DEFINE inQueue == {queue[i].ticket.id[1] : i \in {j \in DOMAIN queue : queue[j].op = "add"}}
<1>t. timers_ \subseteq Int \X Addrs /\ activeTimers_ \subseteq Addrs \X Seqs
  BY DEF TypeOK
<1>1. timers_ \subseteq Entries
  BY <1>t DEF Owned, Entries
<1>2. \A a : a \in inSets <=> a \in Addrs /\ InSets(a)
  BY <1>t DEF Owned, InSets
<1>3. \A a : a \in inBatch <=> InBatch(a)
  BY DEF InBatch
<1>4. \A a : a \in inQueue <=> InQueue(a)
  BY DEF InQueue, AddIn
<1>5. activeTimers_ = {<<a, heap[a].seq>> : a \in inSets}
  <2>1. ASSUME NEW t \in activeTimers_ PROVE t \in {<<a, heap[a].seq>> : a \in inSets}
    BY <1>t, <1>2 DEF Owned
  <2>2. ASSUME NEW a \in inSets PROVE <<a, heap[a].seq>> \in activeTimers_
    <3>1. a \in Addrs /\ InSets(a) /\ a \in Live
      BY <1>2 DEF Owned
    <3>2. heap[a].seq \in Seqs
      BY <3>1 DEF HeapInv
    <3>3. QED
      BY <3>1, <3>2 DEF Owned
  <2>3. QED
    BY <2>1, <2>2
<1>6. \A a : (InBatch(a) \/ InQueue(a)) => a \in Addrs
  <2>1. \A i \in DOMAIN expired : expired[i][2] \in Addrs
    BY ElementOfSeq, LenProperties DEF TypeOK
  <2>2. \A i \in DOMAIN queue : queue[i].ticket.id[1] \in Addrs
    <3>1. queue \in Seq(FunctorRecord)
      BY DEF TypeOK, FunctorRecord
    <3>2. \A i \in DOMAIN queue : queue[i] \in FunctorRecord
      BY <3>1, ElementOfSeq, LenProperties
    <3>3. QED
      BY <3>2 DEF FunctorRecord, Tickets
  <2>3. QED
    BY <2>1, <2>2 DEF InBatch, InQueue, AddIn
<1>7. Live \subseteq Addrs
  BY DEF Live
<1> HIDE DEF inSets, inBatch, inQueue
<1>8. inSets \cup inBatch \cup inQueue = Live
  BY <1>2, <1>3, <1>4, <1>6, <1>7 DEF Owned
<1>9. inSets \cap inBatch = {} /\ inSets \cap inQueue = {} /\ inBatch \cap inQueue = {}
  BY <1>2, <1>3, <1>4, <1>6 DEF Owned
<1>10. QED
  BY <1>1, <1>5, <1>8, <1>9 DEF OneOwner, inSets, inBatch, inQueue

\* The types, as the proofs below use them.
LEMMA Types ==
    ASSUME TypeOK
    PROVE  /\ heap \in [Addrs -> TimerRecord]
           /\ timers_ \subseteq Int \X Addrs /\ activeTimers_ \subseteq Addrs \X Seqs
           /\ cancelingTimers_ \subseteq Addrs \X (Seqs \cup {-1})
           /\ queue \in Seq(FunctorRecord) /\ ids \subseteq Tickets /\ returning \subseteq Tickets
           /\ timerfd \in Int /\ timerfd >= Disarmed /\ elapsed \in 0..MaxLate
           /\ s_numCreated_ \in Nat
           /\ Live \subseteq Addrs
           /\ \A a \in Addrs : a \notin Live => heap[a] = Freed
  BY TimersAssumption DEF TypeOK, TimerRecord, FunctorRecord, Live

\* The minimal delay keeps the order of expirations.
LEMMA ResetMonotone ==
    ASSUME NEW v \in Int, NEW w \in Int
    PROVE  /\ resetTimerfd(v) \in Int /\ resetTimerfd(v) >= 1
           /\ v <= w => resetTimerfd(v) <= resetTimerfd(w)
  BY DEF resetTimerfd, MinDelay

\* The timerfd after addTimerInLoop covers the old entries and the new one.
LEMMA ArmedAfterAdd ==
    ASSUME TypeOK, NEW a \in Addrs, NEW when \in Int,
           timers_' = timers_ \cup {<<when, a>>},
           timerfd' = IF EarliestChanged(timers_, when) THEN resetTimerfd(when) ELSE timerfd
    PROVE  /\ timerfd' \in Int /\ timerfd' >= Disarmed
           /\ (\A e \in timers_ : timerfd # Disarmed /\ timerfd <= resetTimerfd(e[1])) =>
                \A e \in timers_' : timerfd' # Disarmed /\ timerfd' <= resetTimerfd(e[1])
<1>t. timers_ \subseteq Int \X Addrs /\ timerfd \in Int /\ timerfd >= Disarmed
  BY Types
<1>1. timerfd' \in Int /\ timerfd' >= Disarmed
  BY <1>t, ResetMonotone DEF Disarmed
<1> SUFFICES ASSUME \A e \in timers_ : timerfd # Disarmed /\ timerfd <= resetTimerfd(e[1]),
                    NEW e \in timers_'
             PROVE  timerfd' # Disarmed /\ timerfd' <= resetTimerfd(e[1])
  BY <1>1
<1>2. e[1] \in Int /\ (e \in timers_ \/ e[1] = when)
  BY <1>t
<1>3. CASE EarliestChanged(timers_, when)
  <2>1. when <= e[1]
    BY <1>t, <1>2, <1>3 DEF EarliestChanged
  <2>2. timerfd' = resetTimerfd(when) /\ Disarmed = -1
    BY <1>3 DEF Disarmed
  <2>3. QED
    BY <1>2, <2>1, <2>2, ResetMonotone
<1>4. CASE ~EarliestChanged(timers_, when)
  <2>1. PICK d \in timers_ : ~(when < d[1])
    BY <1>4 DEF EarliestChanged
  <2>2. d[1] \in Int /\ d[1] <= when
    BY <1>t, <2>1
  <2>3. timerfd' = timerfd /\ timerfd # Disarmed /\ timerfd <= resetTimerfd(d[1])
    BY <1>4, <2>1
  <2>4. CASE e \in timers_
    BY <2>3, <2>4
  <2>5. CASE e[1] = when
    <3>1. resetTimerfd(d[1]) <= resetTimerfd(when)
      BY <2>2, ResetMonotone
    <3>2. resetTimerfd(d[1]) \in Int /\ resetTimerfd(when) \in Int
      BY <2>2, ResetMonotone
    <3>3. QED
      BY <1>t, <2>3, <2>5, <3>1, <3>2
  <2>6. QED
    BY <1>2, <2>4, <2>5
<1>5. QED
  BY <1>3, <1>4

\* Tickets stay what they are as long as no timer is created: those that exist
\* keep their numbers.
LEMMA TicketsKept ==
    ASSUME IdsInv, UNCHANGED <<s_numCreated_, returning, ids>>,
           asked' \subseteq ids, cancelled' \subseteq ids,
           \A i \in DOMAIN queue' : queue'[i].op # "add" => queue'[i].ticket \in ids,
           \A b \in Live' : b \in Live /\ heap'[b].seq = heap[b].seq
    PROVE  IdsInv'
  BY DEF IdsInv

\* A new Timer at a free address: only its own entries change.
LEMMA AddKeeps ==
    ASSUME IInv, NEW inLoop \in BOOLEAN, addTimer(inLoop) PROVE IInv'
<1>t. TypeOK /\ HeapInv /\ IdsInv /\ QueueInv /\ BatchInv /\ Owned /\ CancelInv
      /\ ArmedForEarliest
  BY DEF IInv
<1> DEFINE n == s_numCreated_
<1>1. PICK a \in Addrs \ Live, when \in Delays, interval \in Intervals :
        /\ n \in Seqs
        /\ heap' = [heap EXCEPT ![a] = [seq |-> n, expiration |-> when,
                                        interval |-> interval]]
        /\ s_numCreated_' = n + 1
        /\ IF inLoop
           THEN /\ addTimerInLoop(a, when, n)
                /\ ids' = ids \cup {Ticket(n, a)}
                /\ UNCHANGED <<queue, returning>>
           ELSE /\ queue' = Append(queue, [op |-> "add", ticket |-> Ticket(n, a)])
                /\ returning' = returning \cup {Ticket(n, a)}
                /\ UNCHANGED <<setVars, ids>>
        /\ UNCHANGED <<cancelingTimers_, batchVars, asked, cancelled, tooEarly>>
  BY DEF addTimer
<1>u. UNCHANGED <<cancelingTimers_, callingExpiredTimers_, expired, todo, elapsed, reported,
                  asked, cancelled, tooEarly>>
  BY <1>1 DEF batchVars
<1>2. /\ heap \in [Addrs -> TimerRecord] /\ timers_ \subseteq Int \X Addrs
      /\ activeTimers_ \subseteq Addrs \X Seqs /\ queue \in Seq(FunctorRecord)
      /\ timerfd \in Int /\ timerfd >= Disarmed /\ Live \subseteq Addrs /\ n \in Nat
      /\ ids \subseteq Tickets /\ returning \subseteq Tickets
      /\ \A b \in Addrs : b \notin Live => heap[b] = Freed
  BY <1>t, Types
<1>3. when \in Int /\ interval \in Nat /\ MaxTimers \in Nat
  BY TimersAssumption
<1>4. /\ heap' \in [Addrs -> TimerRecord]
      /\ heap'[a].seq = n /\ heap'[a].expiration = when
      /\ \A b \in Addrs : b # a => heap'[b] = heap[b]
      /\ heap'[a] # Freed
  <2>1. [seq |-> n, expiration |-> when, interval |-> interval] \in TimerRecord
    BY <1>1, <1>3 DEF TimerRecord
  <2>2. [seq |-> n, expiration |-> when, interval |-> interval] # Freed
    BY <1>2 DEF Freed
  <2>3. QED
    BY <1>1, <1>2, <2>1, <2>2
<1>5. Live' = Live \cup {a}
  BY <1>4 DEF Live
<1>6. ~InSets(a) /\ ~InBatch(a) /\ ~InQueue(a)
  BY <1>t DEF Owned
<1>k. /\ Ticket(n, a) \in Tickets /\ Ticket(n, a).timer = n /\ ~Ticket(n, a).late
      /\ Ticket(n, a).id[1] = a /\ Ticket(n, a).id[2] = n
  BY <1>1 DEF Ticket, Tickets
<1>f. [op |-> "add", ticket |-> Ticket(n, a)] \in FunctorRecord
  BY <1>k DEF FunctorRecord
<1>g. /\ ids' \subseteq ids \cup {Ticket(n, a)}
      /\ returning' \subseteq returning \cup {Ticket(n, a)}
      /\ ids \subseteq ids'
  BY <1>1
<1>7. /\ timers_' = IF inLoop THEN timers_ \cup {<<when, a>>} ELSE timers_
      /\ activeTimers_' = IF inLoop THEN activeTimers_ \cup {<<a, n>>} ELSE activeTimers_
      /\ inLoop => timerfd' = IF EarliestChanged(timers_, when) THEN resetTimerfd(when)
                              ELSE timerfd
      /\ ~inLoop => timerfd' = timerfd
      /\ queue' = IF inLoop THEN queue
                  ELSE Append(queue, [op |-> "add", ticket |-> Ticket(n, a)])
  BY <1>1 DEF addTimerInLoop, setVars
<1>8. /\ \A b \in Addrs : InQueue(b)' <=> InQueue(b) \/ (~inLoop /\ b = a)
      /\ queue' \in Seq(FunctorRecord)
  BY <1>2, <1>7, <1>f, <1>k, QueueAppend DEF InQueue
<1>9. \A b \in Addrs : InBatch(b)' <=> InBatch(b)
  BY <1>u DEF InBatch
<1>10. \A b \in Addrs : InSets(b)' <=> InSets(b) \/ (inLoop /\ b = a)
  <2>1. <<when, a>> \notin timers_
    BY <1>t DEF Owned
  <2>2. QED
    BY <1>4, <1>6, <1>7, <2>1 DEF InSets
<1>11. TypeOK'
  <2>1. s_numCreated_' \in 0..MaxTimers
    BY <1>1, <1>3 DEF Seqs
  <2>2. timers_' \subseteq Int \X Addrs /\ activeTimers_' \subseteq Addrs \X Seqs
    BY <1>1, <1>2, <1>3, <1>7
  <2>3. timerfd' \in Int /\ timerfd' >= Disarmed
    BY <1>t, <1>2, <1>3, <1>7, ArmedAfterAdd
  <2>4. ids' \subseteq Tickets /\ returning' \subseteq Tickets
    BY <1>2, <1>g, <1>k
  <2>5. QED
    BY <1>t, <1>u, <1>4, <1>8, <2>1, <2>2, <2>3, <2>4 DEF TypeOK, TimerRecord, FunctorRecord
<1>12. HeapInv'
  <2>1. IsFiniteSet(Live')
    BY <1>t, <1>5, FS_AddElement DEF HeapInv
  <2>2. \A b \in Live' : heap'[b].seq \in Seqs /\ heap'[b].seq < s_numCreated_'
    BY <1>t, <1>1, <1>2, <1>4, <1>5 DEF HeapInv, Seqs
  <2>3. QED
    BY <2>1, <2>2 DEF HeapInv
<1>q. \A i \in DOMAIN queue' :
        \/ i \in DOMAIN queue /\ queue'[i] = queue[i]
        \/ queue'[i] = [op |-> "add", ticket |-> Ticket(n, a)] /\ i = Len(queue) + 1 /\ ~inLoop
  BY <1>2, <1>7, <1>f, QueueAppend
<1>13. IdsInv'
  <2>1. asked' \subseteq ids' /\ cancelled' \subseteq ids'
    BY <1>t, <1>u, <1>g DEF IdsInv
  <2>2. \A i \in DOMAIN queue' : queue'[i].op # "add" => queue'[i].ticket \in ids'
    BY <1>t, <1>g, <1>q DEF IdsInv
  <2>3. ASSUME NEW t \in ids' \cup returning'
        PROVE  /\ t.timer < s_numCreated_'
               /\ ~t.late => t.id[2] = t.timer
               /\ \A b \in Live' : heap'[b].seq = t.timer => b = t.id[1] /\ ~t.late
    <3>1. CASE t = Ticket(n, a)
      <4>1. \A b \in Live : heap[b].seq < n /\ heap[b].seq \in Nat
        BY <1>t DEF HeapInv, Seqs
      <4>2. QED
        BY <1>1, <1>2, <1>4, <1>5, <1>k, <3>1, <4>1
    <3>2. CASE t \in ids \cup returning
      <4>1. /\ t.timer < n /\ t.timer \in Nat
            /\ ~t.late => t.id[2] = t.timer
            /\ \A b \in Live : heap[b].seq = t.timer => b = t.id[1] /\ ~t.late
        BY <1>t, <1>2, <3>2 DEF IdsInv, Tickets, Seqs
      <4>2. QED
        BY <1>1, <1>2, <1>4, <1>5, <4>1
    <3>3. QED
      BY <1>g, <3>1, <3>2
  <2>4. QED
    BY <2>1, <2>2, <2>3 DEF IdsInv
<1>14. QueueInv'
  <2>1. \A i \in DOMAIN queue : queue[i].op = "add" =>
            queue[i].ticket.id[1] # a /\ queue[i].ticket.id[1] \in Live
    BY <1>t DEF QueueInv
  <2> SUFFICES ASSUME NEW i \in DOMAIN queue', queue'[i].op = "add"
               PROVE  /\ queue'[i].ticket.id[1] \in Live'
                      /\ heap'[queue'[i].ticket.id[1]].seq = queue'[i].ticket.timer
                      /\ \A j \in DOMAIN queue' :
                            queue'[j].op = "add" /\ queue'[j].ticket.id[1] = queue'[i].ticket.id[1]
                                => j = i
    BY DEF QueueInv
  <2>2. CASE i \in DOMAIN queue /\ queue'[i] = queue[i]
    BY <1>t, <1>2, <1>4, <1>5, <1>k, <1>q, <2>1, <2>2 DEF QueueInv
  <2>3. CASE queue'[i] = [op |-> "add", ticket |-> Ticket(n, a)] /\ i = Len(queue) + 1
    BY <1>4, <1>5, <1>k, <1>q, <2>1, <2>3
  <2>4. QED
    BY <1>q, <2>2, <2>3
<1>15. BatchInv'
  BY <1>t, <1>u DEF BatchInv
<1>16. Owned'
  <2>1. \A e \in timers_' : e[2] \in Live' /\ e[1] = heap'[e[2]].expiration
    BY <1>t, <1>2, <1>4, <1>5, <1>7 DEF Owned
  <2>2. ASSUME NEW b \in Addrs, NEW s \in Seqs
        PROVE  <<b, s>> \in activeTimers_' <=> InSets(b)' /\ s = heap'[b].seq
    <3>1. CASE b = a
      BY <1>t, <1>4, <1>6, <1>7, <1>10, <3>1 DEF Owned
    <3>2. CASE b # a
      BY <1>t, <1>4, <1>7, <1>10, <3>2 DEF Owned
    <3>3. QED
      BY <3>1, <3>2
  <2>3. \A b \in Addrs : b \in Live' <=> InSets(b)' \/ InBatch(b)' \/ InQueue(b)'
    BY <1>t, <1>5, <1>8, <1>9, <1>10 DEF Owned
  <2>4. \A b \in Addrs : /\ ~(InSets(b)' /\ InBatch(b)')
                         /\ ~(InSets(b)' /\ InQueue(b)')
                         /\ ~(InBatch(b)' /\ InQueue(b)')
    BY <1>t, <1>6, <1>8, <1>9, <1>10 DEF Owned
  <2>5. QED
    BY <2>1, <2>2, <2>3, <2>4 DEF Owned
<1>17. CancelInv'
  <2> SUFFICES ASSUME NEW t \in cancelled' \ tooEarly', t.id[1] \in Live',
                      heap'[t.id[1]].seq = t.timer
               PROVE  InBatch(t.id[1])' /\ <<t.id[1], t.timer>> \in cancelingTimers_'
    BY DEF CancelInv
  <2>1. t \in ids /\ t.id[1] \in Addrs /\ t.timer < n /\ t.timer \in Nat
    BY <1>t, <1>u, <1>2 DEF IdsInv, Seqs, Tickets
  <2>2. t.id[1] # a
    BY <1>2, <1>4, <2>1
  <2>3. QED
    BY <1>t, <1>u, <1>4, <1>5, <1>9, <2>1, <2>2 DEF CancelInv
<1>18. ArmedForEarliest'
  BY <1>t, <1>u, <1>3, <1>7, ArmedAfterAdd DEF ArmedForEarliest
<1>19. QED
  BY <1>11, <1>12, <1>13, <1>14, <1>15, <1>16, <1>17, <1>18 DEF IInv

\* The part of the invariant that speaks of the sets, the heap and the batch,
\* when only the queue changes, and no addition in it.
LEMMA QueueOnlyKeeps ==
    ASSUME IInv, UNCHANGED <<heap, timers_, activeTimers_, expired, cancelled, tooEarly,
                             cancelingTimers_, callingExpiredTimers_, reported, timerfd,
                             s_numCreated_, returning, ids, elapsed>>,
           queue' \in Seq(FunctorRecord), todo' \in Seq(Int \X Addrs),
           asked' \subseteq ids',
           \A i \in DOMAIN queue' : queue'[i].op # "add" => queue'[i].ticket \in ids,
           \A a \in Addrs : InQueue(a)' <=> InQueue(a),
           QueueInv'
    PROVE  IInv'
<1>1. TypeOK'
  BY DEF IInv, TypeOK, FunctorRecord
<1>2. HeapInv' /\ BatchInv' /\ ArmedForEarliest'
  BY DEF IInv, HeapInv, BatchInv, ArmedForEarliest, Live
<1>3. IdsInv'
  BY TicketsKept DEF IInv, IdsInv, Live
<1>4. /\ \A a : InSets(a)' <=> InSets(a)
      /\ \A a : InBatch(a)' <=> InBatch(a)
      /\ Live' = Live
  BY DEF InSets, InBatch, Live
<1>5. Owned'
  BY <1>4 DEF IInv, Owned
<1>6. CancelInv'
  BY <1>4 DEF IInv, CancelInv
<1>7. QED
  BY <1>1, <1>2, <1>3, <1>5, <1>6 DEF IInv

\* The additions still queued behind the functor that was taken.
LEMMA TailQueueInv ==
    ASSUME QueueInv, queue \in Seq(FunctorRecord), queue # <<>>, queue' = Tail(queue),
           \A i \in DOMAIN queue : queue[i].op = "add" =>
                queue[i].ticket.id[1] \in Live'
                /\ heap'[queue[i].ticket.id[1]] = heap[queue[i].ticket.id[1]]
    PROVE  QueueInv'
<1> SUFFICES ASSUME NEW i \in DOMAIN queue', queue'[i].op = "add"
             PROVE  /\ queue'[i].ticket.id[1] \in Live'
                    /\ heap'[queue'[i].ticket.id[1]].seq = queue'[i].ticket.timer
                    /\ \A j \in DOMAIN queue' :
                        queue'[j].op = "add" /\ queue'[j].ticket.id[1] = queue'[i].ticket.id[1]
                            => j = i
  BY DEF QueueInv
<1>1. i \in Nat /\ i + 1 \in DOMAIN queue /\ queue'[i] = queue[i + 1]
  BY QueueTail
<1>2. /\ queue'[i].ticket.id[1] \in Live'
      /\ heap'[queue'[i].ticket.id[1]].seq = queue'[i].ticket.timer
  BY <1>1 DEF QueueInv
<1>3. ASSUME NEW j \in DOMAIN queue', queue'[j].op = "add",
             queue'[j].ticket.id[1] = queue'[i].ticket.id[1]
      PROVE  j = i
  <2>1. j \in Nat /\ j + 1 \in DOMAIN queue /\ queue'[j] = queue[j + 1]
    BY QueueTail
  <2>2. j + 1 = i + 1
    BY <1>1, <1>3, <2>1 DEF QueueInv
  <2>3. QED
    BY <1>1, <2>1, <2>2
<1>4. QED
  BY <1>2, <1>3

\* The return of another thread's addTimer: the ticket is that of its timer, or
\* the timer is gone and stays so.
LEMMA ReturnKeeps ==
    ASSUME IInv, ReturnId PROVE IInv'
<1>t. TypeOK /\ HeapInv /\ IdsInv /\ QueueInv /\ BatchInv /\ Owned /\ CancelInv
      /\ ArmedForEarliest
  BY DEF IInv
<1>p. PICK t \in returning : \E s \in sequence(t.id[1]) :
        /\ returning' = returning \ {t}
        /\ ids' = ids \cup {[t EXCEPT !.id = <<t.id[1], s>>,
                                      !.late = heap[t.id[1]].seq # t.timer]}
        /\ UNCHANGED <<heap, s_numCreated_, setVars, cancelingTimers_, batchVars, queue,
                       asked, cancelled, tooEarly>>
  BY DEF ReturnId
<1>1. PICK s \in sequence(t.id[1]) :
        /\ returning' = returning \ {t}
        /\ ids' = ids \cup {[t EXCEPT !.id = <<t.id[1], s>>,
                                      !.late = heap[t.id[1]].seq # t.timer]}
        /\ UNCHANGED <<heap, s_numCreated_, timers_, activeTimers_, timerfd,
                       cancelingTimers_, callingExpiredTimers_, expired, todo, elapsed,
                       reported, queue, asked, cancelled, tooEarly>>
  BY <1>p DEF setVars, batchVars
<1> DEFINE u == [t EXCEPT !.id = <<t.id[1], s>>, !.late = heap[t.id[1]].seq # t.timer]
<1>2. heap \in [Addrs -> TimerRecord] /\ t \in Tickets /\ Live \subseteq Addrs
      /\ ids \subseteq Tickets /\ returning \subseteq Tickets
  BY <1>t, Types
<1>3. s \in Seqs \cup {-1} /\ (t.id[1] \in Live => s = heap[t.id[1]].seq)
  BY <1>2 DEF sequence, TimerRecord, Tickets
<1>4. /\ u \in Tickets /\ u.timer = t.timer /\ u.id[1] = t.id[1] /\ u.id[2] = s
      /\ u.late <=> heap[t.id[1]].seq # t.timer
  BY <1>2, <1>3 DEF Tickets
<1> HIDE DEF u
<1>5. ids' = ids \cup {u}
  BY <1>1 DEF u
<1>6. Live' = Live /\ heap' = heap
  BY <1>1 DEF Live
<1>7. IdsInv'
  <2>1. /\ t.timer < s_numCreated_
        /\ \A b \in Live : heap[b].seq = t.timer => b = t.id[1]
    BY <1>t DEF IdsInv
  <2>2. ~u.late => s = t.timer
    <3>1. t.timer \in Seqs /\ -1 \notin Seqs /\ t.id[1] \in Addrs
      BY <1>2, TimersAssumption DEF Tickets, Seqs
    <3>2. ASSUME heap[t.id[1]].seq = t.timer PROVE t.id[1] \in Live
      BY <1>2, <3>1, <3>2 DEF Live, Freed
    <3>3. QED
      BY <1>3, <1>4, <3>2
  <2>3. \A b \in Live : heap[b].seq = u.timer => b = u.id[1] /\ ~u.late
    BY <1>4, <2>1
  <2>4. ASSUME NEW v \in ids' \cup returning'
        PROVE  /\ v.timer < s_numCreated_
               /\ ~v.late => v.id[2] = v.timer
               /\ \A b \in Live : heap[b].seq = v.timer => b = v.id[1] /\ ~v.late
    <3>1. CASE v = u
      BY <1>4, <2>1, <2>2, <2>3, <3>1
    <3>2. CASE v \in ids \cup returning
      BY <1>t, <3>2 DEF IdsInv
    <3>3. QED
      BY <1>1, <1>5, <3>1, <3>2
  <2>5. QED
    BY <1>t, <1>1, <1>5, <1>6, <2>4 DEF IdsInv
<1>8. TypeOK'
  BY <1>t, <1>1, <1>2, <1>4, <1>5 DEF TypeOK
<1>9. HeapInv' /\ QueueInv' /\ BatchInv' /\ ArmedForEarliest'
  BY <1>t, <1>1, <1>6 DEF HeapInv, QueueInv, BatchInv, ArmedForEarliest
<1>10. /\ \A b : InSets(b)' <=> InSets(b)
       /\ \A b : InBatch(b)' <=> InBatch(b)
       /\ \A b : InQueue(b)' <=> InQueue(b)
  BY <1>1 DEF InSets, InBatch, InQueue
<1>11. Owned' /\ CancelInv'
  BY <1>t, <1>1, <1>6, <1>10 DEF Owned, CancelInv
<1>12. QED
  BY <1>7, <1>8, <1>9, <1>11 DEF IInv

\* cancelInLoop, called in place or as the functor at the head of the queue.
LEMMA CancelKeeps ==
    ASSUME IInv, NEW t \in ids, cancelInLoop(t),
           \/ queue' = queue
           \/ queue # <<>> /\ Head(queue).op # "add" /\ queue' = Tail(queue),
           asked' \subseteq ids, UNCHANGED <<batchVars, s_numCreated_, returning, ids>>
    PROVE  IInv'
<1>t. TypeOK /\ HeapInv /\ IdsInv /\ QueueInv /\ BatchInv /\ Owned /\ CancelInv
      /\ ArmedForEarliest
  BY DEF IInv
<1>u. UNCHANGED <<callingExpiredTimers_, expired, todo, elapsed, reported, s_numCreated_,
                  returning, ids, timerfd>>
  BY DEF batchVars, cancelInLoop
<1>2. /\ heap \in [Addrs -> TimerRecord] /\ timers_ \subseteq Int \X Addrs
      /\ activeTimers_ \subseteq Addrs \X Seqs /\ queue \in Seq(FunctorRecord)
      /\ cancelingTimers_ \subseteq Addrs \X (Seqs \cup {-1}) /\ ids \subseteq Tickets
      /\ Live \subseteq Addrs
      /\ \A b \in Addrs : b \notin Live => heap[b] = Freed
  BY <1>t, Types
<1> DEFINE id == t.id
<1>i. /\ id[1] \in Addrs /\ id[2] \in Seqs \cup {-1} /\ id = <<id[1], id[2]>>
      /\ id \in Addrs \X (Seqs \cup {-1})
  BY <1>2 DEF Tickets
<1>q. /\ queue' \in Seq(FunctorRecord)
      /\ \A b : InQueue(b)' <=> InQueue(b)
      /\ \A i \in DOMAIN queue' : queue'[i].op # "add" => queue'[i].ticket \in ids
  <2>1. CASE queue' = queue
    BY <1>t, <1>2, <2>1 DEF InQueue, IdsInv
  <2>2. CASE queue # <<>> /\ Head(queue).op # "add" /\ queue' = Tail(queue)
    BY <1>t, <1>2, <2>2, AddInTail, QueueTail DEF InQueue, IdsInv
  <2>3. QED
    BY <2>1, <2>2
<1>r. ASSUME \A i \in DOMAIN queue : queue[i].op = "add" =>
                queue[i].ticket.id[1] \in Live'
                /\ heap'[queue[i].ticket.id[1]] = heap[queue[i].ticket.id[1]]
      PROVE  QueueInv'
  <2>1. CASE queue' = queue
    BY <1>t, <1>r, <2>1 DEF QueueInv
  <2>2. CASE queue # <<>> /\ queue' = Tail(queue)
    BY <1>t, <1>2, <1>r, <2>2, TailQueueInv
  <2>3. QED
    BY <2>1, <2>2
<1>b. \A b : InBatch(b)' <=> InBatch(b)
  BY <1>u DEF InBatch
<1>c. /\ cancelled' = cancelled \cup {t} /\ tooEarly \subseteq tooEarly'
      /\ (\E i \in DOMAIN queue : queue[i].op = "add" /\ queue[i].ticket.timer = t.timer)
            => t \in tooEarly'
  BY DEF cancelInLoop
<1>3. CASE Find(id) # {}
  <2>1. /\ timers_' = timers_ \ {<<heap[id[1]].expiration, id[1]>>}
        /\ activeTimers_' = activeTimers_ \ {id}
        /\ heap' = [heap EXCEPT ![id[1]] = Freed]
        /\ UNCHANGED cancelingTimers_
        /\ id \in activeTimers_
    BY <1>3 DEF cancelInLoop, Find, EraseTimer
  <2>i. id[2] \in Seqs
    BY <1>2, <1>i, <2>1
  <2>2. InSets(id[1]) /\ id[2] = heap[id[1]].seq /\ id[1] \in Live
        /\ ~InBatch(id[1]) /\ ~InQueue(id[1])
    BY <1>t, <1>i, <2>1, <2>i DEF Owned
  <2>3. /\ heap' \in [Addrs -> TimerRecord] /\ heap'[id[1]] = Freed
        /\ \A b \in Addrs : b # id[1] => heap'[b] = heap[b]
    <3>1. Freed \in TimerRecord
      BY DEF Freed, TimerRecord
    <3>2. QED
      BY <1>2, <1>i, <2>1, <3>1
  <2>4. Live' = Live \ {id[1]}
    BY <1>2, <1>i, <2>3 DEF Live
  <2>5. TypeOK'
    BY <1>t, <1>u, <1>q, <2>1, <2>3 DEF TypeOK, TimerRecord, FunctorRecord
  <2>6. HeapInv'
    <3>1. IsFiniteSet(Live')
      BY <1>t, <2>4, FS_RemoveElement DEF HeapInv
    <3>2. QED
      BY <1>t, <1>2, <2>3, <2>4, <3>1 DEF HeapInv
  <2>7. IdsInv'
    <3>1. asked' \subseteq ids /\ cancelled' \subseteq ids
      BY <1>t, <1>c DEF IdsInv
    <3>2. \A b \in Live' : b \in Live /\ heap'[b].seq = heap[b].seq
      BY <1>2, <2>3, <2>4
    <3>3. QED
      BY <1>t, <1>u, <1>q, <3>1, <3>2, TicketsKept
  <2>8. QueueInv'
    <3>1. \A i \in DOMAIN queue : queue[i].op = "add" =>
            queue[i].ticket.id[1] \in Live /\ queue[i].ticket.id[1] # id[1]
      BY <1>t, <2>2 DEF QueueInv, InQueue, AddIn
    <3>2. QED
      BY <1>2, <1>r, <2>3, <2>4, <3>1
  <2>9. BatchInv'
    BY <1>t, <1>u DEF BatchInv
  <2>10. Owned'
    <3>1. \A e \in timers_' : e[2] \in Live' /\ e[1] = heap'[e[2]].expiration
      <4> SUFFICES ASSUME NEW e \in timers_'
                   PROVE  e[2] \in Live' /\ e[1] = heap'[e[2]].expiration
        OBVIOUS
      <4>1. e \in timers_ /\ e = <<e[1], e[2]>> /\ e[2] \in Addrs
        BY <1>2, <2>1
      <4>2. e[2] \in Live /\ e[1] = heap[e[2]].expiration
        BY <1>t, <4>1 DEF Owned
      <4>3. e[2] # id[1]
        BY <2>1, <4>1, <4>2
      <4>4. QED
        BY <2>3, <2>4, <4>1, <4>2, <4>3
    <3>2. \A b \in Addrs : InSets(b)' <=> InSets(b) /\ b # id[1]
      <4>1. ~InSets(id[1])'
        BY <2>4, <3>1 DEF InSets
      <4>2. QED
        BY <2>1, <2>3, <4>1 DEF InSets
    <3>3. ASSUME NEW b \in Addrs, NEW s \in Seqs
          PROVE  <<b, s>> \in activeTimers_' <=> InSets(b)' /\ s = heap'[b].seq
      <4>1. CASE b = id[1]
        BY <1>t, <1>i, <2>1, <2>2, <3>2, <4>1 DEF Owned
      <4>2. CASE b # id[1]
        BY <1>t, <1>i, <2>1, <2>3, <3>2, <4>2 DEF Owned
      <4>3. QED
        BY <4>1, <4>2
    <3>4. \A b \in Addrs : b \in Live' <=> InSets(b)' \/ InBatch(b)' \/ InQueue(b)'
      BY <1>t, <1>b, <1>q, <2>2, <2>4, <3>2 DEF Owned
    <3>5. \A b \in Addrs : /\ ~(InSets(b)' /\ InBatch(b)')
                           /\ ~(InSets(b)' /\ InQueue(b)')
                           /\ ~(InBatch(b)' /\ InQueue(b)')
      BY <1>t, <1>b, <1>q, <3>2 DEF Owned
    <3>6. QED
      BY <3>1, <3>3, <3>4, <3>5 DEF Owned
  <2>11. CancelInv'
    BY <1>t, <1>2, <1>b, <1>c, <2>1, <2>3, <2>4 DEF CancelInv
  <2>12. ArmedForEarliest'
    BY <1>t, <1>u, <2>1 DEF ArmedForEarliest
  <2>13. QED
    BY <2>5, <2>6, <2>7, <2>8, <2>9, <2>10, <2>11, <2>12 DEF IInv
<1>4. CASE Find(id) = {}
  <2>1. /\ cancelingTimers_' = NoteCancel(id)
        /\ UNCHANGED <<timers_, activeTimers_, heap>>
        /\ id \notin activeTimers_
    BY <1>4 DEF cancelInLoop, Find
  <2>2. /\ cancelingTimers_ \subseteq cancelingTimers_'
        /\ cancelingTimers_' \subseteq Addrs \X (Seqs \cup {-1})
        /\ callingExpiredTimers_ => id \in cancelingTimers_'
    BY <1>2, <1>i, <2>1 DEF NoteCancel
  <2>3. Live' = Live /\ \A b : InSets(b)' <=> InSets(b)
    BY <2>1 DEF Live, InSets
  <2>4. TypeOK' /\ HeapInv' /\ BatchInv' /\ ArmedForEarliest'
    BY <1>t, <1>u, <1>q, <2>1, <2>2, <2>3
    DEF TypeOK, FunctorRecord, HeapInv, BatchInv, ArmedForEarliest
  <2>5. IdsInv'
    <3>1. asked' \subseteq ids /\ cancelled' \subseteq ids
      BY <1>t, <1>c DEF IdsInv
    <3>2. QED
      BY <1>t, <1>u, <1>q, <2>1, <2>3, <3>1, TicketsKept
  <2>6. QueueInv'
    BY <1>t, <1>r, <2>1, <2>3 DEF QueueInv
  <2>7. Owned'
    BY <1>t, <1>b, <1>q, <2>1, <2>3 DEF Owned
  <2>8. CancelInv'
    <3> SUFFICES ASSUME NEW c \in cancelled' \ tooEarly', c.id[1] \in Live',
                        heap'[c.id[1]].seq = c.timer
                 PROVE  InBatch(c.id[1])' /\ <<c.id[1], c.timer>> \in cancelingTimers_'
      BY DEF CancelInv
    <3>1. CASE c \in cancelled
      BY <1>t, <1>b, <1>c, <2>1, <2>2, <2>3, <3>1 DEF CancelInv
    <3>2. CASE c = t
      <4>i. t.timer = id[2] /\ id[2] \in Seqs /\ heap[id[1]].seq = id[2]
            /\ id[1] \in Live
        BY <1>t, <1>2, <2>1, <2>3, <3>2 DEF IdsInv, Tickets
      <4>1. ~InSets(id[1])
        <5>1. <<id[1], id[2]>> \notin activeTimers_
          BY <1>i, <2>1
        <5>2. QED
          BY <1>t, <1>i, <4>i, <5>1 DEF Owned
      <4>2. ~InQueue(id[1])
        <5>1. ASSUME NEW i \in DOMAIN queue, queue[i].op = "add", queue[i].ticket.id[1] = id[1]
              PROVE  FALSE
          <6>1. queue[i].ticket.timer = t.timer
            BY <1>t, <4>i, <5>1 DEF QueueInv
          <6>2. QED
            BY <1>c, <3>2, <5>1, <6>1
        <5>2. QED
          BY <5>1 DEF InQueue, AddIn
      <4>3. InBatch(id[1])
        BY <1>t, <1>i, <4>i, <4>1, <4>2 DEF Owned
      <4>4. callingExpiredTimers_
        <5>1. expired # <<>>
          BY <4>3, EmptySeq DEF InBatch
        <5>2. QED
          BY <1>t, <5>1 DEF BatchInv
      <4>5. QED
        BY <1>b, <1>i, <2>2, <3>2, <4>i, <4>3, <4>4
    <3>3. QED
      BY <1>c, <3>1, <3>2
  <2>9. QED
    BY <2>4, <2>5, <2>6, <2>7, <2>8 DEF IInv
<1>5. QED
  BY <1>3, <1>4

\* addTimerInLoop as the functor at the head of the queue: the timer moves from
\* the queue to the sets.
LEMMA RunAddKeeps ==
    ASSUME IInv, RunFunctor, Head(queue).op = "add" PROVE IInv'
<1>t. TypeOK /\ HeapInv /\ IdsInv /\ QueueInv /\ BatchInv /\ Owned /\ CancelInv
      /\ ArmedForEarliest
  BY DEF IInv
<1> DEFINE a == Head(queue).ticket.id[1]
<1> DEFINE n == Head(queue).ticket.timer
<1> DEFINE when == heap[a].expiration
<1>1. /\ queue # <<>> /\ queue' = Tail(queue)
      /\ timers_' = timers_ \cup {<<when, a>>}
      /\ activeTimers_' = activeTimers_ \cup {<<a, n>>}
      /\ timerfd' = IF EarliestChanged(timers_, when) THEN resetTimerfd(when) ELSE timerfd
      /\ UNCHANGED <<heap, cancelingTimers_, cancelled, tooEarly, batchVars, idVars>>
  BY DEF RunFunctor, addTimerInLoop
<1>u. UNCHANGED <<heap, cancelingTimers_, cancelled, tooEarly, callingExpiredTimers_,
                  expired, todo, elapsed, reported, s_numCreated_, returning, ids, asked>>
  BY <1>1 DEF batchVars, idVars
<1>2. /\ heap \in [Addrs -> TimerRecord] /\ timers_ \subseteq Int \X Addrs
      /\ activeTimers_ \subseteq Addrs \X Seqs /\ queue \in Seq(FunctorRecord)
      /\ Live \subseteq Addrs
  BY <1>t, Types
<1>3. /\ Head(queue) \in FunctorRecord /\ Head(queue) = queue[1] /\ 1 \in DOMAIN queue
      /\ Tail(queue) \in Seq(FunctorRecord)
  BY <1>1, <1>2, QueueTail
<1>4. a \in Addrs /\ n \in Seqs
  BY <1>3 DEF FunctorRecord, Tickets
<1>5. a \in Live /\ heap[a].seq = n /\ when \in Int
  <2>1. a \in Live /\ heap[a].seq = n
    BY <1>t, <1>3 DEF QueueInv
  <2>2. QED
    BY <1>2, <1>4, <2>1 DEF TimerRecord
<1>6. InQueue(a) /\ ~InSets(a) /\ ~InBatch(a)
  <2>1. InQueue(a)
    BY <1>3 DEF InQueue, AddIn
  <2>2. QED
    BY <1>t, <1>4, <2>1 DEF Owned
<1>7. Live' = Live /\ \A b : InBatch(b)' <=> InBatch(b)
  BY <1>u DEF Live, InBatch
<1>8. \A b : InQueue(b)' <=> InQueue(b) /\ b # a
  <2>1. ~AddIn(Tail(queue), a)
    <3>1. ASSUME NEW i \in DOMAIN Tail(queue), Tail(queue)[i].op = "add",
                 Tail(queue)[i].ticket.id[1] = a
          PROVE  FALSE
      <4>1. i \in Nat /\ i + 1 \in DOMAIN queue /\ i + 1 # 1 /\ Tail(queue)[i] = queue[i + 1]
        BY <1>1, <1>2, QueueTail
      <4>2. i + 1 = 1
        BY <1>t, <1>3, <3>1, <4>1 DEF QueueInv
      <4>3. QED
        BY <4>1, <4>2
    <3>2. QED
      BY <3>1 DEF AddIn
  <2>2. QED
    BY <1>1, <1>2, <2>1, AddInTail DEF InQueue
<1> HIDE DEF a, n, when
<1>9. \A b \in Addrs : InSets(b)' <=> InSets(b) \/ b = a
  BY <1>1, <1>u DEF InSets, when
<1>10. TypeOK'
  <2>1. timers_' \subseteq Int \X Addrs /\ activeTimers_' \subseteq Addrs \X Seqs
    BY <1>1, <1>2, <1>4, <1>5
  <2>2. timerfd' \in Int /\ timerfd' >= Disarmed
    BY <1>t, <1>1, <1>4, <1>5, ArmedAfterAdd
  <2>3. queue' \in Seq(FunctorRecord)
    BY <1>1, <1>3
  <2>4. QED
    BY <1>t, <1>u, <2>1, <2>2, <2>3 DEF TypeOK, FunctorRecord
<1>11. HeapInv' /\ BatchInv'
  BY <1>t, <1>u, <1>7 DEF HeapInv, BatchInv
<1>12. IdsInv'
  <2>1. \A i \in DOMAIN queue' : queue'[i].op # "add" => queue'[i].ticket \in ids
    BY <1>t, <1>1, <1>2, QueueTail DEF IdsInv
  <2>2. asked' \subseteq ids /\ cancelled' \subseteq ids
    BY <1>t, <1>u DEF IdsInv
  <2>3. QED
    BY <1>t, <1>u, <1>7, <2>1, <2>2, TicketsKept
<1>13. QueueInv'
  BY <1>t, <1>1, <1>2, <1>u, <1>7, TailQueueInv DEF QueueInv
<1>14. Owned'
  <2>1. \A e \in timers_' : e[2] \in Live' /\ e[1] = heap'[e[2]].expiration
    BY <1>t, <1>1, <1>5, <1>7, <1>u DEF Owned, when
  <2>2. ASSUME NEW b \in Addrs, NEW s \in Seqs
        PROVE  <<b, s>> \in activeTimers_' <=> InSets(b)' /\ s = heap'[b].seq
    <3>1. CASE b = a
      BY <1>t, <1>1, <1>5, <1>6, <1>9, <1>u, <3>1 DEF Owned
    <3>2. CASE b # a
      BY <1>t, <1>1, <1>9, <1>u, <3>2 DEF Owned
    <3>3. QED
      BY <3>1, <3>2
  <2>3. \A b \in Addrs : b \in Live' <=> InSets(b)' \/ InBatch(b)' \/ InQueue(b)'
    BY <1>t, <1>5, <1>7, <1>8, <1>9 DEF Owned
  <2>4. \A b \in Addrs : /\ ~(InSets(b)' /\ InBatch(b)')
                         /\ ~(InSets(b)' /\ InQueue(b)')
                         /\ ~(InBatch(b)' /\ InQueue(b)')
    BY <1>t, <1>6, <1>7, <1>8, <1>9 DEF Owned
  <2>5. QED
    BY <2>1, <2>2, <2>3, <2>4 DEF Owned
<1>15. CancelInv'
  BY <1>t, <1>u, <1>7 DEF CancelInv
<1>16. ArmedForEarliest'
  BY <1>t, <1>u, <1>1, <1>4, <1>5, ArmedAfterAdd DEF ArmedForEarliest
<1>17. QED
  BY <1>10, <1>11, <1>12, <1>13, <1>14, <1>15, <1>16 DEF IInv

\* Finitely many objects have finitely many entries.
LEMMA EntriesFinite ==
    ASSUME NEW T \in SUBSET (Int \X Addrs), NEW L, IsFiniteSet(L), NEW h,
           \A e \in T : e[2] \in L /\ e[1] = h[e[2]].expiration
    PROVE  IsFiniteSet(T)
<1> DEFINE f == [e \in T |-> e[2]]
<1>1. f \in Injection(T, L)
  <2>1. f \in [T -> L]
    OBVIOUS
  <2>2. ASSUME NEW d \in T, NEW e \in T, f[d] = f[e] PROVE d = e
    <3>1. d[2] = e[2] /\ d[1] = e[1]
      BY <2>2
    <3>2. d = <<d[1], d[2]>> /\ e = <<e[1], e[2]>>
      OBVIOUS
    <3>3. QED
      BY <3>1, <3>2
  <2>3. QED
    BY <2>1, <2>2 DEF Injection, IsInjective
<1>2. QED
  BY <1>1, FS_Injection

\* handleRead takes the due entries out of both sets into the batch.
LEMMA ReadKeeps ==
    ASSUME IInv, handleRead PROVE IInv'
<1>t. TypeOK /\ HeapInv /\ IdsInv /\ QueueInv /\ BatchInv /\ Owned /\ CancelInv
      /\ ArmedForEarliest
  BY DEF IInv
<1>1. /\ reported /\ reported' = FALSE
      /\ timerfd' = IF timerfd = 0 THEN Disarmed ELSE timerfd
      /\ expired' \in getExpired /\ todo' = expired' /\ elapsed' = 0
      /\ timers_' = timers_ \ Due
      /\ activeTimers_' = activeTimers_ \ {<<e[2], heap[e[2]].seq>> : e \in Due}
      /\ callingExpiredTimers_' = TRUE
      /\ cancelingTimers_' = {}
      /\ UNCHANGED <<heap, queue, s_numCreated_, returning, ids, asked, cancelled, tooEarly>>
  BY DEF handleRead, idVars
<1>2. /\ heap \in [Addrs -> TimerRecord] /\ timers_ \subseteq Int \X Addrs
      /\ activeTimers_ \subseteq Addrs \X Seqs
      /\ timerfd \in Int /\ timerfd >= Disarmed /\ Live \subseteq Addrs
  BY <1>t, Types
<1>3. expired = <<>> /\ \A b : ~InBatch(b)
  <2>1. expired = <<>>
    BY <1>t, <1>1 DEF BatchInv
  <2>2. QED
    BY <2>1 DEF InBatch
<1>4. IsFiniteSet(Due) /\ Due \subseteq timers_
  <2>1. IsFiniteSet(timers_)
    BY <1>t, <1>2, EntriesFinite DEF HeapInv, Owned
  <2>2. Due \subseteq timers_
    BY DEF Due
  <2>3. QED
    BY <2>1, <2>2, FS_Subset
<1>5. /\ expired' \in [1..Cardinality(Due) -> Due] /\ Cardinality(Due) \in Nat
      /\ \A e : e \in Due <=> \E i \in DOMAIN expired' : expired'[i] = e
  BY <1>1, <1>4, FS_CardinalityType DEF getExpired, Range
<1>6. Live' = Live /\ \A b : InQueue(b)' <=> InQueue(b)
  BY <1>1 DEF Live, InQueue
<1>7. \A b \in Addrs : InBatch(b)' <=> InSets(b) /\ heap[b].expiration <= 0
  <2> SUFFICES ASSUME NEW b \in Addrs
               PROVE  InBatch(b)' <=> InSets(b) /\ heap[b].expiration <= 0
    OBVIOUS
  <2>1. ASSUME InBatch(b)' PROVE InSets(b) /\ heap[b].expiration <= 0
    <3>1. PICK e \in Due : e[2] = b
      BY <1>5, <2>1 DEF InBatch
    <3>2. e \in timers_ /\ e = <<e[1], e[2]>> /\ e[1] = heap[b].expiration /\ e[1] <= 0
      BY <1>t, <1>2, <3>1 DEF Owned, Due
    <3>3. QED
      BY <3>1, <3>2 DEF InSets
  <2>2. ASSUME InSets(b), heap[b].expiration <= 0 PROVE InBatch(b)'
    <3>1. <<heap[b].expiration, b>> \in Due
      BY <2>2 DEF InSets, Due
    <3>2. PICK i \in DOMAIN expired' : expired'[i] = <<heap[b].expiration, b>>
      BY <1>5, <3>1
    <3>3. QED
      BY <3>2 DEF InBatch
  <2>3. QED
    BY <2>1, <2>2
<1>8. \A b \in Addrs : InSets(b)' <=> InSets(b) /\ ~(heap[b].expiration <= 0)
  BY <1>1 DEF InSets, Due
<1>9. TypeOK'
  <2>1. expired' \in Seq(Int \X Addrs)
    <3>1. expired' \in Seq(Due)
      BY <1>5
    <3>2. QED
      BY <1>2, <1>4, <3>1, SeqMonotonic
  <2>2. timerfd' \in Int /\ timerfd' >= Disarmed
    BY <1>1, <1>2 DEF Disarmed
  <2>3. elapsed' \in 0..MaxLate
    BY <1>1, TimersAssumption
  <2>4. timers_' \subseteq Int \X Addrs /\ activeTimers_' \subseteq Addrs \X Seqs
    BY <1>1, <1>2
  <2>5. QED
    BY <1>t, <1>1, <2>1, <2>2, <2>3, <2>4 DEF TypeOK
<1>10. HeapInv' /\ QueueInv' /\ BatchInv' /\ ArmedForEarliest'
  BY <1>t, <1>1, <1>6 DEF HeapInv, QueueInv, BatchInv, ArmedForEarliest
<1>i. IdsInv'
  BY <1>t, <1>1, <1>6 DEF IdsInv
<1>11. Owned'
  <2>1. \A e \in timers_' : e[2] \in Live' /\ e[1] = heap'[e[2]].expiration
    BY <1>t, <1>1, <1>6 DEF Owned
  <2>2. ASSUME NEW b \in Addrs, NEW s \in Seqs
        PROVE  <<b, s>> \in activeTimers_' <=> InSets(b)' /\ s = heap'[b].seq
    <3>1. <<b, s>> \in {<<e[2], heap[e[2]].seq>> : e \in Due}
            <=> InBatch(b)' /\ s = heap[b].seq
      <4>1. ASSUME NEW e \in Due, <<b, s>> = <<e[2], heap[e[2]].seq>>
            PROVE  InBatch(b)' /\ s = heap[b].seq
        BY <1>5, <4>1 DEF InBatch
      <4>2. ASSUME InBatch(b)', s = heap[b].seq
            PROVE  \E e \in Due : <<b, s>> = <<e[2], heap[e[2]].seq>>
        BY <1>5, <4>2 DEF InBatch
      <4>3. QED
        BY <4>1, <4>2
    <3>2. QED
      BY <1>t, <1>1, <1>7, <1>8, <3>1 DEF Owned
  <2>3. \A b \in Addrs : b \in Live' <=> InSets(b)' \/ InBatch(b)' \/ InQueue(b)'
    BY <1>t, <1>3, <1>6, <1>7, <1>8 DEF Owned
  <2>4. \A b \in Addrs : /\ ~(InSets(b)' /\ InBatch(b)')
                         /\ ~(InSets(b)' /\ InQueue(b)')
                         /\ ~(InBatch(b)' /\ InQueue(b)')
    BY <1>t, <1>6, <1>7, <1>8 DEF Owned
  <2>5. QED
    BY <2>1, <2>2, <2>3, <2>4 DEF Owned
<1>12. CancelInv'
  BY <1>t, <1>1, <1>3, <1>6 DEF CancelInv
<1>13. QED
  BY <1>9, <1>10, <1>i, <1>11, <1>12 DEF IInv

\* Rearm sets the timerfd for the earliest of a finite set of entries.
LEMMA RearmCovers ==
    ASSUME NEW T \in SUBSET (Int \X Addrs), IsFiniteSet(T), T # {}
    PROVE  /\ Rearm(T) \in Int /\ Rearm(T) >= 1
           /\ \A e \in T : Rearm(T) <= resetTimerfd(e[1])
<1> DEFINE W == {e[1] : e \in T}
<1> DEFINE f == [e \in T |-> e[1]]
<1>1. IsFiniteSet(W)
  <2>1. f \in Surjection(T, W)
    BY DEF Surjection
  <2>2. QED
    BY <2>1, FS_Surjection
<1>2. W \in SUBSET Int /\ W # {}
  OBVIOUS
<1> DEFINE w == CHOOSE v \in W : \A e \in T : v <= e[1]
<1>3. w \in W /\ \A e \in T : w <= e[1]
  <2>1. \E v \in W : \A u \in W : v <= u
    <3> HIDE DEF W
    <3>1. QED
      BY <1>1, <1>2, HasEarliest
  <2>2. \E v \in W : \A e \in T : v <= e[1]
    BY <2>1
  <2>3. QED
    BY <2>2
<1>4. Rearm(T) = resetTimerfd(w)
  BY DEF Rearm
<1>5. w \in Int /\ \A e \in T : e[1] \in Int
  BY <1>3
<1> HIDE DEF w, W
<1>6. QED
  BY <1>3, <1>4, <1>5, ResetMonotone

\* reset() gives each timer of the batch back to the sets or destroys it.
LEMMA ResetKeeps ==
    ASSUME IInv, reset PROVE IInv'
<1>t. TypeOK /\ HeapInv /\ IdsInv /\ QueueInv /\ BatchInv /\ Owned /\ CancelInv
      /\ ArmedForEarliest
  BY DEF IInv
<1> DEFINE batch == {expired[i][2] : i \in DOMAIN expired}
<1> DEFINE again == {a \in batch : GoesOn(a)}
<1> DEFINE restart(a) == heap[a].interval - elapsed
<1>1. /\ callingExpiredTimers_ /\ todo = <<>>
      /\ callingExpiredTimers_' = FALSE
      /\ expired' = <<>> /\ elapsed' = 0
      /\ heap' = [a \in Addrs |->
            IF a \in again THEN [heap[a] EXCEPT !.expiration = restart(a)]
            ELSE IF a \in batch THEN Freed ELSE heap[a]]
      /\ timers_' = timers_ \cup {<<restart(a), a>> : a \in again}
      /\ activeTimers_' = activeTimers_ \cup {<<a, heap[a].seq>> : a \in again}
      /\ timerfd' = Rearm(timers_')
      /\ UNCHANGED <<cancelingTimers_, todo, reported, queue, s_numCreated_, returning, ids,
                     asked, cancelled, tooEarly>>
  BY DEF reset, idVars
<1>2. /\ heap \in [Addrs -> TimerRecord] /\ timers_ \subseteq Int \X Addrs
      /\ activeTimers_ \subseteq Addrs \X Seqs /\ elapsed \in 0..MaxLate /\ MaxLate \in Nat
      /\ timerfd \in Int /\ timerfd >= Disarmed /\ Live \subseteq Addrs
      /\ \A b \in Addrs : b \notin Live => heap[b] = Freed
  BY <1>t, Types, TimersAssumption
<1>3. /\ \A b : b \in batch <=> InBatch(b)
      /\ batch \subseteq Addrs /\ batch \subseteq Live
  <2>1. \A b : b \in batch <=> InBatch(b)
    BY DEF InBatch
  <2>2. batch \subseteq Addrs
    BY <1>t, ElementOfSeq, LenProperties, SMTT(30) DEF TypeOK
  <2>3. QED
    BY <1>t, <2>1, <2>2 DEF Owned
<1>4. again \subseteq batch /\ \A a \in again : <<a, heap[a].seq>> \notin cancelingTimers_
  BY DEF GoesOn
<1>5. \A a \in Addrs : restart(a) \in Int
  BY <1>2 DEF TimerRecord
<1> HIDE DEF batch, again, restart
<1>6. /\ heap' \in [Addrs -> TimerRecord]
      /\ \A a \in again : heap'[a].seq = heap[a].seq /\ heap'[a].expiration = restart(a)
      /\ \A a \in batch : a \notin again => heap'[a] = Freed
      /\ \A a \in Addrs : a \notin batch => heap'[a] = heap[a]
  <2>1. Freed \in TimerRecord
    BY DEF Freed, TimerRecord
  <2>2. \A a \in Addrs : /\ [heap[a] EXCEPT !.expiration = restart(a)] \in TimerRecord
                         /\ [heap[a] EXCEPT !.expiration = restart(a)].seq = heap[a].seq
                         /\ [heap[a] EXCEPT !.expiration = restart(a)].expiration = restart(a)
    BY <1>2, <1>5 DEF TimerRecord
  <2>3. QED
    BY <1>1, <1>2, <1>3, <1>4, <2>1, <2>2
<1>7. Live' = (Live \ batch) \cup again
  <2>1. \A a \in again : heap'[a] # Freed
    <3>1. \A a \in again : heap'[a].seq \in Seqs
      BY <1>t, <1>3, <1>4, <1>6 DEF HeapInv
    <3>2. Freed.seq \notin Seqs
      BY TimersAssumption DEF Freed, Seqs
    <3>3. QED
      BY <3>1, <3>2
  <2>2. QED
    BY <1>3, <1>4, <1>6, <2>1 DEF Live
<1>8. \A b : ~InBatch(b)'
  BY <1>1 DEF InBatch
<1>9. \A b : InQueue(b)' <=> InQueue(b)
  BY <1>1 DEF InQueue
<1>10. timers_' \subseteq Int \X Addrs /\ activeTimers_' \subseteq Addrs \X Seqs
  <2>1. \A a \in again : a \in Addrs /\ restart(a) \in Int /\ heap[a].seq \in Seqs
    BY <1>t, <1>3, <1>4, <1>5 DEF HeapInv
  <2>2. QED
    BY <1>1, <1>2, <2>1
<1>11. \A e \in timers_' : e[2] \in Live' /\ e[1] = heap'[e[2]].expiration
  <2> SUFFICES ASSUME NEW e \in timers_'
               PROVE  e[2] \in Live' /\ e[1] = heap'[e[2]].expiration
    OBVIOUS
  <2>1. CASE e \in timers_
    <3>1. e[2] \in Live /\ e[1] = heap[e[2]].expiration /\ e = <<e[1], e[2]>>
      BY <1>t, <1>2, <2>1 DEF Owned
    <3>2. e[2] \notin batch
      BY <1>t, <1>2, <1>3, <2>1, <3>1 DEF Owned, InSets
    <3>3. QED
      BY <1>2, <1>6, <1>7, <3>1, <3>2
  <2>2. CASE e \in {<<restart(a), a>> : a \in again}
    BY <1>6, <1>7, <2>2
  <2>3. QED
    BY <1>1, <2>1, <2>2
<1>12. \A b \in Addrs : InSets(b)' <=> InSets(b) \/ b \in again
  <2> SUFFICES ASSUME NEW b \in Addrs PROVE InSets(b)' <=> InSets(b) \/ b \in again
    OBVIOUS
  <2>1. CASE b \in again
    <3>1. <<restart(b), b>> \in timers_' /\ heap'[b].expiration = restart(b)
      BY <1>1, <1>6, <2>1
    <3>2. QED
      BY <2>1, <3>1 DEF InSets
  <2>2. CASE b \in batch /\ b \notin again
    <3>1. ~InSets(b)
      BY <1>t, <1>3, <2>2 DEF Owned
    <3>2. b \notin Live'
      BY <1>7, <2>2
    <3>3. ~InSets(b)'
      BY <1>11, <3>2 DEF InSets
    <3>4. QED
      BY <2>2, <3>1, <3>3
  <2>3. CASE b \notin batch
    <3>1. heap'[b] = heap[b] /\ b \notin again
      BY <1>4, <1>6, <2>3
    <3>2. QED
      BY <1>1, <3>1 DEF InSets
  <2>4. QED
    BY <1>4, <2>1, <2>2, <2>3
<1>13. IsFiniteSet(Live')
  BY <1>t, <1>3, <1>4, <1>7, FS_Subset DEF HeapInv
<1>14. IsFiniteSet(timers_')
  BY <1>10, <1>11, <1>13, EntriesFinite
<1>15. timerfd' \in Int /\ timerfd' >= Disarmed /\ ArmedForEarliest'
  <2>1. CASE timers_' = {}
    BY <1>1, <1>2, <2>1 DEF Rearm, ArmedForEarliest
  <2>2. CASE timers_' # {}
    <3>1. /\ timerfd' \in Int /\ timerfd' >= 1
          /\ \A e \in timers_' : timerfd' <= resetTimerfd(e[1])
      BY <1>1, <1>10, <1>14, <2>2, RearmCovers
    <3>2. QED
      BY <3>1 DEF ArmedForEarliest, Disarmed
  <2>3. QED
    BY <2>1, <2>2
<1>16. TypeOK'
  <2>1. expired' \in Seq(Int \X Addrs)
    BY <1>1, EmptySeq
  <2>2. elapsed' \in 0..MaxLate
    BY <1>1, <1>2
  <2>3. QED
    BY <1>t, <1>1, <1>6, <1>10, <1>15, <2>1, <2>2 DEF TypeOK, TimerRecord
<1>17. HeapInv'
  BY <1>t, <1>1, <1>2, <1>3, <1>4, <1>6, <1>7, <1>13 DEF HeapInv
<1>18. IdsInv' /\ BatchInv'
  <2>1. \A b \in Live' : b \in Live /\ heap'[b].seq = heap[b].seq
    BY <1>2, <1>3, <1>4, <1>6, <1>7
  <2>2. IdsInv'
    <3>1. /\ asked' \subseteq ids /\ cancelled' \subseteq ids
          /\ \A i \in DOMAIN queue' : queue'[i].op # "add" => queue'[i].ticket \in ids
      BY <1>t, <1>1 DEF IdsInv
    <3>2. QED
      BY <1>t, <1>1, <2>1, <3>1, TicketsKept
  <2>3. QED
    BY <1>t, <1>1, <2>2 DEF BatchInv
<1>19. QueueInv'
  <2>1. \A i \in DOMAIN queue : queue[i].op = "add" =>
            queue[i].ticket.id[1] \in Live /\ queue[i].ticket.id[1] \notin batch
    <3> SUFFICES ASSUME NEW i \in DOMAIN queue, queue[i].op = "add"
                 PROVE  queue[i].ticket.id[1] \in Live /\ queue[i].ticket.id[1] \notin batch
      OBVIOUS
    <3>1. queue[i].ticket.id[1] \in Live /\ InQueue(queue[i].ticket.id[1])
      BY <1>t DEF QueueInv, InQueue, AddIn
    <3>2. QED
      BY <1>t, <1>2, <1>3, <3>1 DEF Owned
  <2>2. \A i \in DOMAIN queue : queue[i].op = "add" =>
            queue[i].ticket.id[1] \in Live'
            /\ heap'[queue[i].ticket.id[1]] = heap[queue[i].ticket.id[1]]
    BY <1>2, <1>6, <1>7, <2>1
  <2>3. queue' = queue
    BY <1>1
  <2>4. QED
    BY <1>t, <2>2, <2>3 DEF QueueInv
<1>20. Owned'
  <2>1. ASSUME NEW b \in Addrs, NEW s \in Seqs
        PROVE  <<b, s>> \in activeTimers_' <=> InSets(b)' /\ s = heap'[b].seq
    <3>1. <<b, s>> \in {<<a, heap[a].seq>> : a \in again} <=> b \in again /\ s = heap[b].seq
      OBVIOUS
    <3>2. CASE b \in again
      <4>1. ~InSets(b)
        BY <1>t, <1>3, <1>4, <3>2 DEF Owned
      <4>2. QED
        BY <1>t, <1>1, <1>6, <1>12, <3>1, <3>2, <4>1 DEF Owned
    <3>3. CASE b \notin again
      <4>1. InSets(b) => heap'[b] = heap[b]
        BY <1>t, <1>3, <1>6 DEF Owned
      <4>2. QED
        BY <1>t, <1>1, <1>12, <3>1, <3>3, <4>1 DEF Owned
    <3>4. QED
      BY <3>2, <3>3
  <2>2. \A b \in Addrs : b \in Live' <=> InSets(b)' \/ InBatch(b)' \/ InQueue(b)'
    BY <1>t, <1>3, <1>4, <1>7, <1>8, <1>9, <1>12 DEF Owned
  <2>3. \A b \in Addrs : /\ ~(InSets(b)' /\ InBatch(b)')
                         /\ ~(InSets(b)' /\ InQueue(b)')
                         /\ ~(InBatch(b)' /\ InQueue(b)')
    BY <1>t, <1>3, <1>4, <1>8, <1>9, <1>12 DEF Owned
  <2>4. QED
    BY <1>11, <2>1, <2>2, <2>3 DEF Owned
<1>21. CancelInv'
  <2> SUFFICES ASSUME NEW t \in cancelled' \ tooEarly', t.id[1] \in Live',
                      heap'[t.id[1]].seq = t.timer
               PROVE  FALSE
    BY DEF CancelInv
  <2>1. t \in cancelled \ tooEarly /\ t.id[1] \in Addrs
    BY <1>1, <1>2, <1>7, <1>3, <1>4
  <2>2. t.id[1] \in Live /\ heap[t.id[1]].seq = t.timer
    BY <1>3, <1>4, <1>6, <1>7, <2>1
  <2>3. InBatch(t.id[1]) /\ <<t.id[1], t.timer>> \in cancelingTimers_
    BY <1>t, <2>1, <2>2 DEF CancelInv
  <2>4. t.id[1] \in again
    BY <1>3, <1>7, <2>3
  <2>5. QED
    BY <1>4, <2>1, <2>2, <2>3, <2>4
<1>22. QED
  BY <1>15, <1>16, <1>17, <1>18, <1>19, <1>20, <1>21 DEF IInv

\* Time passes for the objects and their entries alike.
LEMMA TickKeeps ==
    ASSUME IInv, Tick PROVE IInv'
<1>t. TypeOK /\ HeapInv /\ IdsInv /\ QueueInv /\ BatchInv /\ Owned /\ CancelInv
      /\ ArmedForEarliest
  BY DEF IInv
<1>1. /\ elapsed < MaxLate
      /\ heap' = [a \in Addrs |-> IF a \in Live
            THEN [heap[a] EXCEPT !.expiration = @ - 1] ELSE heap[a]]
      /\ timers_' = {<<e[1] - 1, e[2]>> : e \in timers_}
      /\ timerfd' = IF timerfd > 0 THEN timerfd - 1 ELSE timerfd
      /\ elapsed' = IF callingExpiredTimers_ THEN elapsed + 1 ELSE elapsed
      /\ UNCHANGED <<s_numCreated_, activeTimers_, cancelingTimers_,
                     callingExpiredTimers_, expired, todo, reported, queue, returning,
                     ids, asked, cancelled, tooEarly>>
  BY DEF Tick
<1>2. /\ heap \in [Addrs -> TimerRecord] /\ timers_ \subseteq Int \X Addrs
      /\ activeTimers_ \subseteq Addrs \X Seqs /\ elapsed \in 0..MaxLate /\ MaxLate \in Nat
      /\ timerfd \in Int /\ timerfd >= Disarmed /\ Live \subseteq Addrs
      /\ \A b \in Addrs : b \notin Live => heap[b] = Freed
  BY <1>t, Types, TimersAssumption
<1>3. /\ heap' \in [Addrs -> TimerRecord]
      /\ \A a \in Live : /\ heap'[a].seq = heap[a].seq
                         /\ heap'[a].expiration = heap[a].expiration - 1
                         /\ heap[a].expiration \in Int
      /\ \A a \in Addrs : a \notin Live => heap'[a] = Freed
  <2>1. \A a \in Addrs :
            LET h == [heap[a] EXCEPT !.expiration = @ - 1]
            IN  h \in TimerRecord /\ h.seq = heap[a].seq
                /\ h.expiration = heap[a].expiration - 1 /\ heap[a].expiration \in Int
    BY <1>2 DEF TimerRecord
  <2>2. QED
    BY <1>1, <1>2, <2>1
<1>4. Live' = Live
  <2>1. \A a \in Live : heap'[a] # Freed
    <3>1. \A a \in Live : heap'[a].seq \in Seqs
      BY <1>t, <1>3 DEF HeapInv
    <3>2. Freed.seq \notin Seqs
      BY TimersAssumption DEF Freed, Seqs
    <3>3. QED
      BY <3>1, <3>2
  <2>2. QED
    BY <1>2, <1>3, <2>1 DEF Live
<1>5. /\ \A b : InBatch(b)' <=> InBatch(b)
      /\ \A b : InQueue(b)' <=> InQueue(b)
  BY <1>1 DEF InBatch, InQueue
<1>6. \A e \in timers_' : e[2] \in Live' /\ e[1] = heap'[e[2]].expiration
  BY <1>t, <1>1, <1>3, <1>4 DEF Owned
<1>7. \A b \in Addrs : InSets(b)' <=> InSets(b)
  <2> SUFFICES ASSUME NEW b \in Addrs PROVE InSets(b)' <=> InSets(b)
    OBVIOUS
  <2>1. ASSUME InSets(b) PROVE InSets(b)'
    <3>1. b \in Live
      BY <1>t, <2>1 DEF Owned
    <3>2. <<heap[b].expiration - 1, b>> \in timers_'
      BY <1>1, <2>1 DEF InSets
    <3>3. QED
      BY <1>3, <3>1, <3>2 DEF InSets
  <2>2. ASSUME InSets(b)' PROVE InSets(b)
    <3>1. PICK e \in timers_ : <<heap'[b].expiration, b>> = <<e[1] - 1, e[2]>>
      BY <1>1, <2>2 DEF InSets
    <3>2. e[2] = b /\ e[1] = heap[b].expiration /\ e = <<e[1], e[2]>>
      BY <1>t, <1>2, <3>1 DEF Owned
    <3>3. QED
      BY <3>1, <3>2 DEF InSets
  <2>3. QED
    BY <2>1, <2>2
<1>8. timers_' \subseteq Int \X Addrs
  BY <1>1, <1>2
<1>9. timerfd' \in Int /\ timerfd' >= Disarmed /\ elapsed' \in 0..MaxLate
  BY <1>1, <1>2 DEF Disarmed
<1>10. TypeOK'
  BY <1>t, <1>1, <1>3, <1>8, <1>9 DEF TypeOK, TimerRecord
<1>11. HeapInv'
  BY <1>t, <1>1, <1>3, <1>4 DEF HeapInv
<1>12. IdsInv' /\ BatchInv'
  <2>1. /\ asked' \subseteq ids /\ cancelled' \subseteq ids
        /\ \A i \in DOMAIN queue' : queue'[i].op # "add" => queue'[i].ticket \in ids
    BY <1>t, <1>1 DEF IdsInv
  <2>2. IdsInv'
    BY <1>t, <1>1, <1>3, <1>4, <2>1, TicketsKept
  <2>3. QED
    BY <1>t, <1>1, <2>2 DEF BatchInv
<1>13. QueueInv'
  BY <1>t, <1>1, <1>3, <1>4 DEF QueueInv
<1>14. Owned'
  <2>1. ASSUME NEW b \in Addrs, NEW s \in Seqs
        PROVE  <<b, s>> \in activeTimers_' <=> InSets(b)' /\ s = heap'[b].seq
    BY <1>t, <1>1, <1>3, <1>7 DEF Owned
  <2>2. QED
    BY <1>t, <1>4, <1>5, <1>6, <1>7, <2>1 DEF Owned
<1>15. CancelInv'
  BY <1>t, <1>1, <1>3, <1>4, <1>5 DEF CancelInv
<1>16. ArmedForEarliest'
  <2> SUFFICES ASSUME ~callingExpiredTimers_, ~reported, NEW e \in timers_
               PROVE  timerfd' # Disarmed /\ timerfd' <= resetTimerfd(e[1] - 1)
    BY <1>1 DEF ArmedForEarliest
  <2>1. timerfd # Disarmed /\ timerfd <= resetTimerfd(e[1]) /\ e[1] \in Int
    BY <1>t, <1>2 DEF ArmedForEarliest
  <2>2. QED
    BY <1>1, <1>2, <2>1 DEF resetTimerfd, MinDelay, Disarmed
<1>17. QED
  BY <1>10, <1>11, <1>12, <1>13, <1>14, <1>15, <1>16 DEF IInv
-----------------------------------------------------------------------------
(* The invariant, and what follows from it. *)

\* An empty queue owns nothing.
LEMMA InitIInv == Init => IInv
<1> SUFFICES ASSUME Init PROVE IInv
  OBVIOUS
<1> USE DEF Init
<1>1. /\ \A a \in Addrs : heap[a] = Freed
      /\ Live = {}
  BY DEF Live
<1>2. TypeOK
  <2>1. heap \in [Addrs -> [seq : Seqs \cup {-1}, expiration : Int, interval : Nat]]
    BY DEF Freed
  <2>2. /\ expired \in Seq(Int \X Addrs) /\ todo \in Seq(Int \X Addrs)
        /\ queue \in Seq([op : {"add", "cancel"}, ticket : Tickets])
    BY EmptySeq
  <2>3. /\ s_numCreated_ \in 0..MaxTimers /\ elapsed \in 0..MaxLate
        /\ timerfd \in Int /\ timerfd >= Disarmed
    BY TimersAssumption DEF Disarmed
  <2>4. QED
    BY <2>1, <2>2, <2>3 DEF TypeOK
<1>3. HeapInv
  BY <1>1, FS_EmptySet DEF HeapInv
<1>4. IdsInv /\ QueueInv /\ BatchInv /\ CancelInv /\ ArmedForEarliest
  BY DEF IdsInv, QueueInv, BatchInv, CancelInv, ArmedForEarliest
<1>5. Owned
  BY <1>1 DEF Owned, InSets, InBatch, InQueue, AddIn
<1>6. QED
  BY <1>2, <1>3, <1>4, <1>5 DEF IInv

\* Every call and every step of the loop's thread keeps the invariant.
LEMMA NextIInv == IInv /\ [Next]_vars => IInv'
<1> SUFFICES ASSUME IInv, [Next]_vars PROVE IInv'
  OBVIOUS
<1>t. /\ queue \in Seq(FunctorRecord) /\ todo \in Seq(Int \X Addrs) /\ ids \subseteq Tickets
      /\ IdsInv /\ QueueInv
  BY Types DEF IInv, TypeOK
<1>1. ASSUME NEW inLoop \in BOOLEAN, addTimer(inLoop) PROVE IInv'
  BY <1>1, AddKeeps
<1>2. CASE cancel(TRUE)
  <2>1. PICK t \in ids \ asked :
            /\ asked' = asked \cup {t} /\ cancelInLoop(t) /\ UNCHANGED queue
            /\ UNCHANGED <<batchVars, s_numCreated_, returning, ids>>
    BY <1>2 DEF cancel
  <2>2. asked' \subseteq ids
    BY <1>t, <2>1 DEF IdsInv
  <2>3. QED
    BY <2>1, <2>2, CancelKeeps
<1>3. CASE cancel(FALSE)
  <2>1. PICK t \in ids \ asked :
            /\ asked' = asked \cup {t}
            /\ queue' = Append(queue, [op |-> "cancel", ticket |-> t])
            /\ UNCHANGED <<setVars, heap, cancelingTimers_, cancelled, tooEarly>>
            /\ UNCHANGED <<batchVars, s_numCreated_, returning, ids>>
    BY <1>3 DEF cancel
  <2> DEFINE f == [op |-> "cancel", ticket |-> t]
  <2>2. f \in FunctorRecord /\ f.op = "cancel" /\ f.ticket = t
    BY <1>t DEF FunctorRecord
  <2>3. queue' = Append(queue, f)
    BY <2>1
  <2> HIDE DEF f
  <2>4. /\ queue' \in Seq(FunctorRecord)
        /\ \A a : InQueue(a)' <=> InQueue(a)
        /\ \A i \in DOMAIN queue' : queue'[i] = f \/ (i \in DOMAIN queue /\ queue'[i] = queue[i])
    BY <1>t, <2>2, <2>3, QueueAppend DEF InQueue
  <2>5. UNCHANGED <<heap, timers_, activeTimers_, expired, cancelled, tooEarly,
                    cancelingTimers_, callingExpiredTimers_, reported, timerfd,
                    s_numCreated_, returning, ids, elapsed, todo>>
    BY <2>1 DEF setVars, batchVars
  <2>6. /\ asked' \subseteq ids'
        /\ \A i \in DOMAIN queue' : queue'[i].op # "add" => queue'[i].ticket \in ids
    BY <1>t, <2>1, <2>2, <2>4, <2>5 DEF IdsInv
  <2>7. QueueInv'
    <3>1. Live' = Live /\ heap' = heap
      BY <2>5 DEF Live
    <3>2. \A i \in DOMAIN queue' : queue'[i].op = "add" =>
            i \in DOMAIN queue /\ queue'[i] = queue[i]
      BY <2>2, <2>4
    <3>3. QED
      BY <1>t, <3>1, <3>2 DEF QueueInv
  <2>8. QED
    BY <1>t, <2>4, <2>5, <2>6, <2>7, QueueOnlyKeeps
<1>4. CASE RunFunctor
  <2>1. CASE Head(queue).op = "add"
    BY <1>4, <2>1, RunAddKeeps
  <2>2. CASE Head(queue).op # "add"
    <3>1. /\ queue # <<>> /\ queue' = Tail(queue) /\ cancelInLoop(Head(queue).ticket)
          /\ UNCHANGED <<batchVars, idVars>>
      BY <1>4, <2>2 DEF RunFunctor
    <3>2. Head(queue).ticket \in ids
      BY <1>t, <2>2, <3>1, QueueTail DEF IdsInv
    <3>3. asked' \subseteq ids /\ UNCHANGED <<batchVars, s_numCreated_, returning, ids>>
      BY <1>t, <3>1 DEF idVars, IdsInv
    <3>4. QED
      BY <2>2, <3>1, <3>2, <3>3, CancelKeeps
  <2>3. QED
    BY <2>1, <2>2
<1>5. CASE Poll
  <2>1. /\ reported' = TRUE /\ ~callingExpiredTimers_
        /\ UNCHANGED <<heap, timers_, activeTimers_, timerfd, cancelingTimers_,
                       callingExpiredTimers_, expired, todo, elapsed, queue,
                       s_numCreated_, returning, ids, asked, cancelled, tooEarly>>
    BY <1>5 DEF Poll, setVars, idVars
  <2>2. /\ \A b : InSets(b)' <=> InSets(b)
        /\ \A b : InBatch(b)' <=> InBatch(b)
        /\ \A b : InQueue(b)' <=> InQueue(b)
        /\ Live' = Live
    BY <2>1 DEF InSets, InBatch, InQueue, Live
  <2>3. TypeOK'
    BY <2>1 DEF IInv, TypeOK
  <2>4. HeapInv' /\ IdsInv' /\ QueueInv' /\ BatchInv' /\ ArmedForEarliest'
    BY <2>1, <2>2 DEF IInv, HeapInv, IdsInv, QueueInv, BatchInv, ArmedForEarliest
  <2>5. Owned' /\ CancelInv'
    BY <2>1, <2>2 DEF IInv, Owned, CancelInv
  <2>6. QED
    BY <2>3, <2>4, <2>5 DEF IInv
<1>6. CASE handleRead
  BY <1>6, ReadKeeps
<1>7. CASE RunCallback \/ UNCHANGED vars
  <2>1. UNCHANGED <<heap, timers_, activeTimers_, expired, cancelled, tooEarly,
                    cancelingTimers_, callingExpiredTimers_, reported, timerfd,
                    s_numCreated_, returning, ids, elapsed, queue, asked>>
    BY <1>7 DEF RunCallback, vars, setVars, idVars
  <2>2. todo' \in Seq(Int \X Addrs)
    <3>1. todo \in Seq(Int \X Addrs)
      BY <1>t
    <3>2. todo' = todo \/ (todo # <<>> /\ todo' = Tail(todo))
      BY <1>7 DEF RunCallback, vars
    <3>3. \A S : \A s \in Seq(S) : s # <<>> => Tail(s) \in Seq(S)
      OBVIOUS
    <3>4. QED
      BY <3>1, <3>2, <3>3, Zenon
  <2>3. QueueInv' /\ \A a : InQueue(a)' <=> InQueue(a)
    BY <1>t, <2>1 DEF QueueInv, InQueue, Live
  <2>4. /\ asked' \subseteq ids'
        /\ \A i \in DOMAIN queue' : queue'[i].op # "add" => queue'[i].ticket \in ids
    BY <1>t, <2>1 DEF IdsInv
  <2>5. QED
    BY <1>t, <2>1, <2>2, <2>3, <2>4, QueueOnlyKeeps
<1>8. CASE reset
  BY <1>8, ResetKeeps
<1>9. CASE Tick
  BY <1>9, TickKeeps
<1>10. CASE ReturnId
  BY <1>10, ReturnKeeps
<1>11. QED
  BY <1>1, <1>2, <1>3, <1>4, <1>5, <1>6, <1>7, <1>8, <1>9, <1>10 DEF Next, LoopStep

\* The inductive invariant holds in every execution.
THEOREM Invariance == Spec => []IInv
  BY InitIInv, NextIInv, PTL DEF Spec

\* The members of TimerQueue keep their declared types.
THEOREM TypeCorrect == Spec => []TypeOK
<1>1. IInv => TypeOK
  BY DEF IInv
<1>2. QED
  BY <1>1, Invariance, PTL

\* timers_ and activeTimers_ agree, and every Timer has one owner, through any
\* interleaving of additions, cancellations, expirations and reset().
THEOREM EveryTimerOwnedOnce == Spec => []OneOwner
<1>1. IInv => OneOwner
  BY OwnedIsOneOwner DEF IInv
<1>2. QED
  BY <1>1, Invariance, PTL

\* cancelInLoop after addTimerInLoop is final, also from a callback of the
\* timer's own batch: cancelingTimers_ reaches reset() in time.
THEOREM CancelIsFinal == Spec => []CancelFinal
<1>1. IInv => CancelFinal
  <2> SUFFICES ASSUME IInv, NEW t \in cancelled \ tooEarly, NEW a \in Addrs,
                      <<a, t.timer>> \in activeTimers_
               PROVE  FALSE
    BY DEF CancelFinal, Active
  <2>1. t \in ids /\ t.timer \in Seqs
    BY Types DEF IInv, IdsInv, Tickets
  <2>2. InSets(a) /\ heap[a].seq = t.timer
    BY <2>1 DEF IInv, Owned
  <2>3. a \in Live /\ ~InBatch(a)
    BY <2>2 DEF IInv, Owned
  <2>4. a = t.id[1]
    BY <2>1, <2>2, <2>3 DEF IInv, IdsInv
  <2>5. QED
    BY <2>2, <2>3, <2>4 DEF IInv, CancelInv
<1>2. QED
  BY <1>1, Invariance, PTL

\* addTimerInLoop and reset() between them keep the timerfd set for the earliest
\* timer.
THEOREM TimerfdNeverLate == Spec => []ArmedForEarliest
<1>1. IInv => ArmedForEarliest
  BY DEF IInv
<1>2. QED
  BY <1>1, Invariance, PTL

\* The sequence number in a TimerId protects a timer from the cancellation of
\* another one that had its address, unless addTimer read it too late.
THEOREM OnlyOwnCancels == Spec => OnlyOwnCancel
<1> DEFINE A == \A x \in activeTimers_ :
                    x \notin activeTimers_' =>
                        \/ callingExpiredTimers_'
                        \/ \E t \in cancelled' : t.id = x /\ (t.timer = x[2] \/ t.late)
<1>1. ASSUME IInv, Next PROVE A
  <2>t. IdsInv /\ queue \in Seq(FunctorRecord)
    BY <1>1, Types DEF IInv
  <2> SUFFICES ASSUME NEW x \in activeTimers_, x \notin activeTimers_'
               PROVE  \/ callingExpiredTimers_'
                      \/ \E t \in cancelled' : t.id = x /\ (t.timer = x[2] \/ t.late)
    OBVIOUS
  <2>1. ASSUME NEW inLoop \in BOOLEAN, addTimer(inLoop) PROVE FALSE
    BY <2>1 DEF addTimer, addTimerInLoop, setVars
  <2>2. ASSUME NEW t \in ids, cancelInLoop(t)
        PROVE  \E c \in cancelled' : c.id = x /\ (c.timer = x[2] \/ c.late)
    <3>1. t.id = x /\ t \in cancelled'
      BY <2>2 DEF cancelInLoop, Find
    <3>2. t.timer = t.id[2] \/ t.late
      BY <2>t DEF IdsInv
    <3>3. QED
      BY <3>1, <3>2
  <2>3. ASSUME NEW inLoop \in BOOLEAN, cancel(inLoop)
        PROVE  \E c \in cancelled' : c.id = x /\ (c.timer = x[2] \/ c.late)
    BY <2>2, <2>3 DEF cancel, setVars
  <2>4. CASE RunFunctor
    <3>1. CASE Head(queue).op = "add"
      BY <2>4, <3>1 DEF RunFunctor, addTimerInLoop
    <3>2. CASE Head(queue).op # "add"
      <4>1. queue # <<>> /\ cancelInLoop(Head(queue).ticket)
        BY <2>4, <3>2 DEF RunFunctor
      <4>2. Head(queue).ticket \in ids
        BY <2>t, <3>2, <4>1, QueueTail DEF IdsInv
      <4>3. QED
        BY <2>2, <4>1, <4>2
    <3>3. QED
      BY <3>1, <3>2
  <2>5. CASE Poll \/ RunCallback \/ Tick \/ ReturnId
    BY <2>5 DEF Poll, RunCallback, Tick, ReturnId, setVars
  <2>6. CASE handleRead
    BY <2>6 DEF handleRead
  <2>7. CASE reset
    BY <2>7 DEF reset
  <2>8. QED
    BY <1>1, <2>1, <2>3, <2>4, <2>5, <2>6, <2>7 DEF Next, LoopStep
<1>2. IInv /\ [Next]_vars => [A]_vars
  BY <1>1
<1>3. QED
  BY <1>2, Invariance, PTL DEF Spec, OnlyOwnCancel
=============================================================================
