----------------------------- MODULE TimerQueue -----------------------------
(***************************************************************************)
(* src/src/TimerQueue.cpp and Timer.cpp: the timers of one loop.  Any      *)
(* thread adds and cancels; the loop's thread keeps two sets of the same   *)
(* timers, runs the expired ones and re-arms one timerfd.                  *)
(*                                                                         *)
(* Time is relative: an expiration is the number of ticks still to go      *)
(* (negative when overdue), and Tick moves all of them.  The loop thread   *)
(* runs functors (addTimerInLoop and cancelInLoop of other threads), other *)
(* channels' callbacks and timer callbacks, which add and cancel in place. *)
(***************************************************************************)
EXTENDS Integers, Sequences, FiniteSets, Functions

CONSTANTS
    Addrs,      \* addresses the allocator hands out, a set of integers
    MaxTimers,  \* bound: calls of addTimer
    Delays,     \* how far in the future timers are set
    Intervals,  \* intervals, 0 for a timer that does not repeat
    MaxCallers, \* bound: other threads inside addTimer at a time
    MaxCancels, \* bound: tickets passed to cancel, each once
    MaxLate     \* bound: ticks the loop may lag behind an expiration

ASSUME TimersAssumption ==
    /\ Addrs \subseteq Nat
    /\ MaxTimers \in Nat /\ MaxCallers \in Nat /\ MaxCancels \in Nat /\ MaxLate \in Nat
    /\ Delays \subseteq Int /\ Intervals \subseteq Nat

Seqs == 0..(MaxTimers - 1)

VARIABLES
    heap,                   \* the Timer objects, by address
    s_numCreated_,
    timers_,                \* set of <<expiration, address>>
    activeTimers_,          \* set of <<address, sequence>>
    cancelingTimers_,
    callingExpiredTimers_,
    expired,                \* the local vector of handleRead
    todo,                   \* those of expired whose callback has not been entered
    elapsed,                \* ticks since handleRead took `now`
    timerfd,                \* ticks until it is readable, 0: readable, -1: disarmed
    reported,               \* the poll returned timerfdChannel_, not handled yet
    queue,                  \* functors of this class pending in the loop
    returning,              \* calls of addTimer by other threads that have posted their
                            \* timer and not read its sequence() yet
    ids,                    \* the TimerIds handed out, as tickets
    asked,                  \* history: tickets passed to cancel
    cancelled,              \* history: tickets cancelInLoop has run for
    tooEarly                \* history: those whose addTimerInLoop was still queued

vars == <<heap, s_numCreated_, timers_, activeTimers_, cancelingTimers_,
          callingExpiredTimers_, expired, todo, elapsed, timerfd, reported, queue,
          returning, ids, asked, cancelled, tooEarly>>
setVars == <<timers_, activeTimers_, timerfd>>
batchVars == <<callingExpiredTimers_, expired, todo, elapsed, reported>>
idVars == <<s_numCreated_, returning, ids, asked>>

\* A TimerId on its way: the number of the timer its addTimer created, the id
\* handed out, and whether sequence() was read when that timer no longer existed.
Ticket(seq, a) == [timer |-> seq, id |-> <<a, seq>>, late |-> FALSE]
Tickets == [timer : Seqs, id : Addrs \X (Seqs \cup {-1}), late : BOOLEAN]

Freed == [seq |-> -1, expiration |-> 0, interval |-> 0]
Live == {a \in Addrs : heap[a] # Freed}
Disarmed == -1
MinDelay == 1   \* howMuchTimeFromNow: never less than 100 microseconds

Init ==
    /\ heap = [a \in Addrs |-> Freed]
    /\ s_numCreated_ = 0
    /\ timers_ = {} /\ activeTimers_ = {} /\ cancelingTimers_ = {}
    /\ callingExpiredTimers_ = FALSE
    /\ expired = <<>> /\ todo = <<>> /\ elapsed = 0
    /\ timerfd = Disarmed /\ reported = FALSE
    /\ queue = <<>>
    /\ returning = {} /\ ids = {} /\ asked = {} /\ cancelled = {} /\ tooEarly = {}

\* Code of the application runs on the loop's thread: outside handleRead, or in
\* a timer callback.
InUserCode == callingExpiredTimers_ => todo # expired
-----------------------------------------------------------------------------
(* Adding. *)

\* resetTimerfd(howMuchTimeFromNow(when))
resetTimerfd(when) == IF when < MinDelay THEN MinDelay ELSE when

\* Mutant: a new timer is compared with the latest one.
AfterLatest(T, when) == \A e \in T : when > e[1]

\* insert() returns whether the new timer is the earliest.
EarliestChanged(T, when) == \A e \in T : when < e[1]

addTimerInLoop(a, when, seq) ==
    /\ timers_' = timers_ \cup {<<when, a>>}
    /\ activeTimers_' = activeTimers_ \cup {<<a, seq>>}
    /\ timerfd' = IF EarliestChanged(timers_, when) THEN resetTimerfd(when) ELSE timerfd

\* new Timer at a free address, with the next sequence number, and runInLoop:
\* on the loop's thread the timer is added and its id returned at once; another
\* thread posts addTimerInLoop.
addTimer(inLoop) ==
    \E a \in Addrs \ Live, when \in Delays, interval \in Intervals :
        LET new == Ticket(s_numCreated_, a) IN
        /\ s_numCreated_ \in Seqs
        /\ inLoop => InUserCode
        /\ heap' = [heap EXCEPT ![a] = [seq |-> s_numCreated_, expiration |-> when,
                                        interval |-> interval]]
        /\ s_numCreated_' = s_numCreated_ + 1
        /\ IF inLoop
           THEN /\ addTimerInLoop(a, when, s_numCreated_)
                /\ ids' = ids \cup {new}
                /\ UNCHANGED <<queue, returning>>
           ELSE /\ Cardinality(returning) < MaxCallers
                /\ queue' = Append(queue, [op |-> "add", ticket |-> new])
                /\ returning' = returning \cup {new}
                /\ UNCHANGED <<setVars, ids>>
        /\ UNCHANGED <<cancelingTimers_, batchVars, asked, cancelled, tooEarly>>

\* What timer->sequence() reads at address a: memory that is free may hold
\* anything.
sequence(a) == IF a \in Live THEN {heap[a].seq} ELSE Seqs \cup {-1}

\* The rest of another thread's addTimer: return TimerId(timer, timer->sequence()).
\* The loop may have run and deleted the timer by now, and the address may be
\* another timer's.
ReturnId ==
    \E t \in returning : \E s \in sequence(t.id[1]) :
        /\ returning' = returning \ {t}
        /\ ids' = ids \cup {[t EXCEPT !.id = <<t.id[1], s>>,
                                      !.late = heap[t.id[1]].seq # t.timer]}
        /\ UNCHANGED <<heap, s_numCreated_, setVars, cancelingTimers_, batchVars, queue,
                       asked, cancelled, tooEarly>>
-----------------------------------------------------------------------------
(* Cancelling. *)

\* Mutant: the sequence number is not compared.
FindByAddress(id) == {t \in activeTimers_ : t[1] = id[1]}

\* activeTimers_.find(timer)
Find(id) == {t \in activeTimers_ : t = id}

\* Mutant: the erase from timers_ fails.
ErasesNoEntry(id) == timers_

\* timers_.erase(make_pair(expiration, timer))
EraseTimer(id) == timers_ \ {<<heap[id[1]].expiration, id[1]>>}

\* Mutant: a timer that is not active is left alone.
ForgetsBatch(id) == cancelingTimers_

\* The timer may be in the batch whose callbacks are running.
NoteCancel(id) ==
    IF callingExpiredTimers_ THEN cancelingTimers_ \cup {id} ELSE cancelingTimers_

cancelInLoop(t) ==
    /\ IF Find(t.id) # {}
       THEN /\ timers_' = EraseTimer(t.id)
            /\ activeTimers_' = activeTimers_ \ Find(t.id)
            /\ heap' = [heap EXCEPT ![t.id[1]] = Freed]
            /\ UNCHANGED cancelingTimers_
       ELSE /\ cancelingTimers_' = NoteCancel(t.id)
            /\ UNCHANGED <<timers_, activeTimers_, heap>>
    /\ cancelled' = cancelled \cup {t}
    /\ tooEarly' = IF \E i \in DOMAIN queue :
                         queue[i].op = "add" /\ queue[i].ticket.timer = t.timer
                   THEN tooEarly \cup {t} ELSE tooEarly
    /\ UNCHANGED timerfd

cancel(inLoop) ==
    \E t \in ids \ asked :
        /\ Cardinality(asked) < MaxCancels
        /\ inLoop => InUserCode
        /\ asked' = asked \cup {t}
        /\ IF inLoop
           THEN cancelInLoop(t) /\ UNCHANGED queue
           ELSE /\ queue' = Append(queue, [op |-> "cancel", ticket |-> t])
                /\ UNCHANGED <<setVars, heap, cancelingTimers_, cancelled, tooEarly>>
        /\ UNCHANGED <<batchVars, s_numCreated_, returning, ids>>

\* doPendingFunctors, after all reported channels have been handled.
RunFunctor ==
    /\ queue # <<>>
    /\ ~reported /\ ~callingExpiredTimers_
    /\ queue' = Tail(queue)
    /\ LET t == Head(queue).ticket
           a == t.id[1]
       IN
       IF Head(queue).op = "add"
       THEN /\ addTimerInLoop(a, heap[a].expiration, t.timer)
            /\ UNCHANGED <<heap, cancelingTimers_, cancelled, tooEarly>>
       ELSE cancelInLoop(t)
    /\ UNCHANGED <<batchVars, idVars>>
-----------------------------------------------------------------------------
(* Expiring. *)

Poll ==
    /\ timerfd = 0
    /\ ~reported /\ ~callingExpiredTimers_
    /\ reported' = TRUE
    /\ UNCHANGED <<heap, setVars, cancelingTimers_, callingExpiredTimers_, expired,
                   todo, elapsed, queue, idVars, cancelled, tooEarly>>

\* std::set orders its entries by expiration, then by address.
EntryBefore(e, f) == e[1] < f[1] \/ (e[1] = f[1] /\ e[2] < f[2])

Due == {e \in timers_ : e[1] <= 0}

\* The due entries, copied in the order of the set: there is one such sequence.
getExpired ==
    {s \in [1..Cardinality(Due) -> Due] :
        Range(s) = Due /\ \A i, j \in DOMAIN s : i < j => EntryBefore(s[i], s[j])}

\* handleRead up to the callbacks.  Another callback of the same round may have
\* re-armed the timerfd: the read then fails, and the rest goes on.
handleRead ==
    /\ reported
    /\ reported' = FALSE
    /\ timerfd' = IF timerfd = 0 THEN Disarmed ELSE timerfd
    /\ expired' \in getExpired
    /\ todo' = expired'
    /\ elapsed' = 0
    /\ timers_' = timers_ \ Due
    /\ activeTimers_' = activeTimers_ \ {<<e[2], heap[e[2]].seq>> : e \in Due}
    /\ callingExpiredTimers_' = TRUE
    /\ cancelingTimers_' = {}
    /\ UNCHANGED <<heap, queue, idVars, cancelled, tooEarly>>

\* it.second->run(); what the callback calls are steps of their own.
RunCallback ==
    /\ callingExpiredTimers_ /\ todo # <<>>
    /\ todo' = Tail(todo)
    /\ UNCHANGED <<heap, setVars, cancelingTimers_, callingExpiredTimers_, expired,
                   elapsed, reported, queue, idVars, cancelled, tooEarly>>

\* Mutant: the timerfd is armed only by addTimerInLoop.
NoRearm(T) == timerfd

Rearm(T) ==
    IF T = {} THEN timerfd
    ELSE resetTimerfd(CHOOSE w \in {e[1] : e \in T} : \A e \in T : w <= e[1])

\* Mutants: a timer that repeats is destroyed like the others; it is kept when
\* it was cancelled.
Never(a) == FALSE
RepeatsAnyway(a) == heap[a].interval > 0

\* The timer goes on: it repeats and no callback of the batch cancelled it.
GoesOn(a) == heap[a].interval > 0 /\ <<a, heap[a].seq>> \notin cancelingTimers_

\* The callbacks have returned: restart(now) and insert(), or delete, for each
\* timer of the batch, then the timerfd is set to the earliest.
reset ==
    LET batch == {expired[i][2] : i \in DOMAIN expired}
        again == {a \in batch : GoesOn(a)}
        \* Timer::restart, counted from the `now` of handleRead
        restart(a) == heap[a].interval - elapsed
    IN
    /\ callingExpiredTimers_ /\ todo = <<>>
    /\ callingExpiredTimers_' = FALSE
    /\ expired' = <<>>
    /\ elapsed' = 0
    /\ heap' = [a \in Addrs |->
            IF a \in again THEN [heap[a] EXCEPT !.expiration = restart(a)]
            ELSE IF a \in batch THEN Freed ELSE heap[a]]
    /\ timers_' = timers_ \cup {<<restart(a), a>> : a \in again}
    /\ activeTimers_' = activeTimers_ \cup {<<a, heap[a].seq>> : a \in again}
    /\ timerfd' = Rearm(timers_')
    /\ UNCHANGED <<cancelingTimers_, todo, reported, queue, idVars, cancelled, tooEarly>>

\* The loop's thread sleeps in epoll_wait.
Waiting == queue = <<>> /\ ~reported /\ ~callingExpiredTimers_ /\ timerfd # 0

\* Time passes, but no further than MaxLate beyond an expiration, and the
\* minimal delay beyond that while the loop sleeps.
Tick ==
    /\ elapsed < MaxLate
    /\ \A a \in Live :
        heap[a].expiration > -(IF Waiting THEN MaxLate + MinDelay ELSE MaxLate)
    /\ heap' = [a \in Addrs |-> IF a \in Live
            THEN [heap[a] EXCEPT !.expiration = @ - 1] ELSE heap[a]]
    /\ timers_' = {<<e[1] - 1, e[2]>> : e \in timers_}
    /\ timerfd' = IF timerfd > 0 THEN timerfd - 1 ELSE timerfd
    /\ elapsed' = IF callingExpiredTimers_ THEN elapsed + 1 ELSE elapsed
    /\ UNCHANGED <<s_numCreated_, activeTimers_, cancelingTimers_,
                   callingExpiredTimers_, expired, todo, reported, queue, returning,
                   ids, asked, cancelled, tooEarly>>
-----------------------------------------------------------------------------
LoopStep == RunFunctor \/ Poll \/ handleRead \/ RunCallback \/ reset

Next ==
    \/ \E inLoop \in BOOLEAN : addTimer(inLoop) \/ cancel(inLoop)
    \/ ReturnId
    \/ LoopStep
    \/ Tick

\* The loop's thread is scheduled, callbacks return, and time passes.
Spec == Init /\ [][Next]_vars /\ WF_vars(LoopStep) /\ WF_vars(Tick)
-----------------------------------------------------------------------------
(* Properties. *)

Entries == {<<heap[a].expiration, a>> : a \in Live}
Active(id) == id \in activeTimers_

\* Members have their declared types.
TypeOK ==
    /\ heap \in [Addrs -> [seq : Seqs \cup {-1}, expiration : Int, interval : Nat]]
    /\ s_numCreated_ \in 0..MaxTimers
    /\ timers_ \subseteq Int \X Addrs
    /\ activeTimers_ \subseteq Addrs \X Seqs
    /\ cancelingTimers_ \subseteq Addrs \X (Seqs \cup {-1})
    /\ callingExpiredTimers_ \in BOOLEAN /\ reported \in BOOLEAN
    /\ expired \in Seq(Int \X Addrs) /\ todo \in Seq(Int \X Addrs)
    /\ timerfd \in Int /\ timerfd >= Disarmed /\ elapsed \in 0..MaxLate
    /\ queue \in Seq([op : {"add", "cancel"}, ticket : Tickets])
    /\ returning \subseteq Tickets /\ ids \subseteq Tickets

\* timers_ and activeTimers_ hold the same timers, and each Timer object has one
\* owner: the sets, the batch being run, or a queued addTimerInLoop.  So nothing
\* is run or deleted after it was deleted, nothing leaks, and the erase of
\* cancelInLoop finds its entry, also when callbacks cancel timers of their own
\* batch and addresses are used again.
OneOwner ==
    LET inSets == {e[2] : e \in timers_}
        inBatch == {expired[i][2] : i \in DOMAIN expired}
        inQueue == {queue[i].ticket.id[1] : i \in {j \in DOMAIN queue : queue[j].op = "add"}}
    IN
    /\ timers_ \subseteq Entries
    /\ activeTimers_ = {<<a, heap[a].seq>> : a \in inSets}
    /\ inSets \cup inBatch \cup inQueue = Live
    /\ inSets \cap inBatch = {} /\ inSets \cap inQueue = {} /\ inBatch \cap inQueue = {}

\* Whenever a timer is waiting, the one timerfd is readable or set to go off no
\* later than the earliest of them (or after the minimal delay): adding,
\* cancelling, expiring and callbacks that do all three never leave it disarmed
\* or set too late.
ArmedForEarliest ==
    ~callingExpiredTimers_ /\ ~reported =>
        \A e \in timers_ :
            timerfd # Disarmed /\ timerfd <= resetTimerfd(e[1])

\* A timer whose cancellation ran after its addition is never active again, not
\* even when it repeats and was cancelled by a callback of its own batch.
CancelFinal ==
    \A t \in cancelled \ tooEarly : \A a \in Addrs : ~Active(<<a, t.timer>>)

\* An active timer is taken out by its expiration or by the TimerId its own
\* addTimer returned: an old id whose address now belongs to another timer does
\* nothing.  Excepted are ids whose sequence() was read after the timer was gone.
OnlyOwnCancel ==
    [][\A x \in activeTimers_ :
        x \notin activeTimers_' =>
            \/ callingExpiredTimers_'
            \/ \E t \in cancelled' : t.id = x /\ (t.timer = x[2] \/ t.late)]_vars

\* Every waiting timer expires or is cancelled.
Fires ==
    \A s \in Seqs :
        (\E a \in Addrs : Active(<<a, s>>)) ~> (\A a \in Addrs : ~Active(<<a, s>>))
=============================================================================
