------------------------------ MODULE EventLoop ------------------------------
(***************************************************************************)
(* src/src/EventLoop.cpp: one reactor.  Its own thread runs loop(); other  *)
(* threads hand it functors (runInLoop, queueInLoop) and stop it (quit),   *)
(* and interrupt epoll_wait through the eventfd wakeupFd_.                 *)
(*                                                                         *)
(* Granularity.  A foreign call is two steps, as in the code: the locked   *)
(* emplace_back (or the store to quit_), then the write to wakeupFd_; any  *)
(* other thread may run in between.  The loop thread's steps end where it  *)
(* reads or writes state that another thread touches.                      *)
(***************************************************************************)
EXTENDS Sequences

CONSTANTS
    Foreign,        \* threads other than the loop's own
    LoopThread,     \* the thread that created the loop (threadId_)
    Functors        \* the functors that are ever submitted, each at most once

ASSUME ThreadsAssumption == LoopThread \notin Foreign

Threads == Foreign \cup {LoopThread}

VARIABLES
    pc,             \* where the loop thread is in loop() / doPendingFunctors()
    quit_,
    callingPendingFunctors_,
    pendingFunctors_,
    functors,       \* the local vector of doPendingFunctors, what is left of it
    wakeupFd_,      \* the eventfd counter is nonzero: epoll reports it readable
    activeChannels_,\* "wakeup" or "io" (any other channel), not yet handled
    waking,         \* threads between their store and the write in wakeup()
    submitted,      \* history: functors handed to queueInLoop
    executed,       \* history: functors run by doPendingFunctors, in order
    early           \* history: queued by the loop's own thread before loop()

vars == <<pc, quit_, callingPendingFunctors_, pendingFunctors_, functors,
          wakeupFd_, activeChannels_, waking, submitted, executed, early>>

queueVars == <<pendingFunctors_, submitted, early>>
drainVars == <<functors, executed, callingPendingFunctors_>>

PCs == {"created", "test", "poll", "dispatch", "swap", "run", "functor",
        "exited"}

Elements(s) == {s[i] : i \in DOMAIN s}

isInLoopThread(th) == th = LoopThread

looping_ == pc \notin {"created", "exited"}

\* The code the loop thread is running is the application's: before loop(),
\* in a channel callback, or in a functor.
InUserCode ==
    \/ pc \in {"created", "functor"}
    \/ pc = "dispatch" /\ "io" \in activeChannels_

\* A thread may call into the loop when it is not inside such a call already;
\* the loop's own thread only from application code.
MayCall(th) == th \notin waking /\ (isInLoopThread(th) => InUserCode)

\* The loop thread goes on only when its own call to wakeup() has returned.
LoopRuns == LoopThread \notin waking

Init ==
    /\ pc = "created"
    /\ quit_ = FALSE
    /\ callingPendingFunctors_ = FALSE
    /\ pendingFunctors_ = <<>>
    /\ functors = <<>>
    /\ wakeupFd_ = FALSE
    /\ activeChannels_ = {}
    /\ waking = {}
    /\ submitted = {}
    /\ executed = <<>>
    /\ early = {}
-----------------------------------------------------------------------------
(* Calls into the loop. *)

\* Mutants: the test for a re-entrant call, or the wake-up, is forgotten.
WakesOnlyForForeign(th) == ~isInLoopThread(th)
WakesOnlyWhenCalling(th) == callingPendingFunctors_

\* The test after the unlock.  It is evaluated together with the emplace: only
\* the loop thread writes callingPendingFunctors_, so its own reading is stable,
\* and a foreign caller does not depend on it.
QueueWakes(th) == ~isInLoopThread(th) \/ callingPendingFunctors_

\* Mutant: the functor is put in front of those that wait.
PushFront(s, f) == <<f>> \o s

\* pendingFunctors_.emplace_back(cb)
EmplaceBack(s, f) == Append(s, f)

queueInLoop(th, f) ==
    /\ MayCall(th)
    /\ f \notin submitted
    /\ submitted' = submitted \cup {f}
    /\ pendingFunctors_' = EmplaceBack(pendingFunctors_, f)
    /\ waking' = IF QueueWakes(th) THEN waking \cup {th} ELSE waking
    /\ early' = IF isInLoopThread(th) /\ pc = "created"
                THEN early \cup {f} ELSE early
    /\ UNCHANGED <<pc, quit_, wakeupFd_, activeChannels_, drainVars>>

\* From the loop's own thread the functor is an ordinary call, part of the
\* application step that makes it; from elsewhere it is queued.
runInLoop(th, f) == ~isInLoopThread(th) /\ queueInLoop(th, f)

\* Mutant: a foreign quit() only sets the flag.
QuitNeverWakes(th) == FALSE

QuitWakes(th) == ~isInLoopThread(th)

quit(th) ==
    /\ MayCall(th)
    /\ quit_' = TRUE
    /\ waking' = IF QuitWakes(th) THEN waking \cup {th} ELSE waking
    /\ UNCHANGED <<pc, wakeupFd_, activeChannels_, queueVars, drainVars>>

\* A write to the eventfd: a full counter (EAGAIN) is still readable.
wakeup(th) ==
    /\ th \in waking
    /\ wakeupFd_' = TRUE
    /\ waking' = waking \ {th}
    /\ UNCHANGED <<pc, quit_, activeChannels_, queueVars, drainVars>>
-----------------------------------------------------------------------------
(* The loop's own thread. *)

\* loop() up to the first test of quit_.
loop ==
    /\ pc = "created" /\ LoopRuns
    /\ pc' = "test"
    /\ quit_' = FALSE
    /\ UNCHANGED <<wakeupFd_, activeChannels_, waking, queueVars, drainVars>>

TestQuit ==
    /\ pc = "test"
    /\ pc' = IF quit_ THEN "exited" ELSE "poll"
    /\ UNCHANGED <<quit_, wakeupFd_, activeChannels_, waking, queueVars, drainVars>>

\* epoll_wait, level triggered.  It cannot come back empty while wakeupFd_ is
\* readable; with more ready descriptors than its events_ array holds it may
\* leave any of them out.
PollReturns(ready) ==
    /\ pc = "poll"
    /\ "wakeup" \in ready => wakeupFd_
    /\ wakeupFd_ => ready # {}
    /\ activeChannels_' = ready
    /\ pc' = "dispatch"
    /\ UNCHANGED <<quit_, wakeupFd_, waking, queueVars, drainVars>>

\* Reading the eventfd resets its counter, however many writes it stood for.
handleRead ==
    /\ pc = "dispatch" /\ LoopRuns
    /\ "wakeup" \in activeChannels_
    /\ wakeupFd_' = FALSE
    /\ activeChannels_' = activeChannels_ \ {"wakeup"}
    /\ UNCHANGED <<pc, quit_, waking, queueVars, drainVars>>

\* The other channels' callbacks return; what they call on the loop are the
\* steps of LoopThread taken while "io" is still active.
IoCallbacksReturn ==
    /\ pc = "dispatch" /\ LoopRuns
    /\ "io" \in activeChannels_
    /\ activeChannels_' = activeChannels_ \ {"io"}
    /\ UNCHANGED <<pc, quit_, wakeupFd_, waking, queueVars, drainVars>>

EnterDoPending ==
    /\ pc = "dispatch" /\ LoopRuns
    /\ activeChannels_ = {}
    /\ callingPendingFunctors_' = TRUE
    /\ pc' = "swap"
    /\ UNCHANGED <<quit_, wakeupFd_, activeChannels_, waking, queueVars, functors, executed>>

SwapPending ==
    /\ pc = "swap"
    /\ functors' = pendingFunctors_
    /\ pendingFunctors_' = <<>>
    /\ pc' = "run"
    /\ UNCHANGED <<quit_, wakeupFd_, activeChannels_, waking, submitted, early,
                   executed, callingPendingFunctors_>>

RunFunctor ==
    /\ pc = "run"
    /\ functors # <<>>
    /\ executed' = Append(executed, Head(functors))
    /\ functors' = Tail(functors)
    /\ pc' = "functor"
    /\ UNCHANGED <<quit_, wakeupFd_, activeChannels_, waking, queueVars,
                   callingPendingFunctors_>>

FunctorReturns ==
    /\ pc = "functor" /\ LoopRuns
    /\ pc' = "run"
    /\ UNCHANGED <<quit_, wakeupFd_, activeChannels_, waking, queueVars, drainVars>>

LeaveDoPending ==
    /\ pc = "run"
    /\ functors = <<>>
    /\ callingPendingFunctors_' = FALSE
    /\ pc' = "test"
    /\ UNCHANGED <<quit_, wakeupFd_, activeChannels_, waking, queueVars, functors, executed>>

doPendingFunctors ==
    EnterDoPending \/ SwapPending \/ RunFunctor \/ FunctorReturns \/ LeaveDoPending
-----------------------------------------------------------------------------
Call(th) ==
    \/ \E f \in Functors : queueInLoop(th, f) \/ runInLoop(th, f)
    \/ quit(th)

Poll == \E ready \in SUBSET {"wakeup", "io"} : PollReturns(ready)

Next ==
    \/ \E th \in Threads : Call(th) \/ wakeup(th)
    \/ loop
    \/ TestQuit
    \/ Poll
    \/ handleRead
    \/ IoCallbacksReturn
    \/ doPendingFunctors

Spec == Init /\ [][Next]_vars

\* The scheduler runs every thread that can run, callbacks return, and
\* epoll_wait returns when the eventfd is readable.  Nothing is assumed of
\* other I/O, and the 10 s poll timeout is never relied on.
LoopProgress ==
    \/ loop \/ TestQuit \/ handleRead \/ IoCallbacksReturn \/ doPendingFunctors
    \/ wakeupFd_ /\ Poll

Fairness == WF_vars(LoopProgress) /\ \A th \in Threads : WF_vars(wakeup(th))

FairSpec == Spec /\ Fairness
-----------------------------------------------------------------------------
(* Properties. *)

\* Every variable has the type its declaration in EventLoop.h gives it.
TypeOK ==
    /\ pc \in PCs
    /\ quit_ \in BOOLEAN
    /\ callingPendingFunctors_ \in BOOLEAN
    /\ pendingFunctors_ \in Seq(Functors)
    /\ functors \in Seq(Functors)
    /\ wakeupFd_ \in BOOLEAN
    /\ activeChannels_ \subseteq {"wakeup", "io"}
    /\ waking \subseteq Threads
    /\ submitted \subseteq Functors
    /\ executed \in Seq(Functors)
    /\ early \subseteq Functors

WakeupDue == wakeupFd_ \/ waking # {}

\* The two-step hand-over never loses a wake-up: when the loop thread is in (or
\* about to enter) epoll_wait, a functor that another thread, a callback or
\* another functor queued is covered by a readable eventfd or by a thread that
\* is about to write it.  The exception: a functor queued by the loop's own
\* thread before loop() writes no wake-up and waits for the next return of poll.
NoLostWakeup ==
    pc \in {"test", "poll"} =>
        WakeupDue \/ Elements(pendingFunctors_) \subseteq early

\* quit() cannot be overlooked by a loop that sleeps: a set quit_ while the
\* thread is in epoll_wait comes with a wake-up.
NoLostQuit == pc = "poll" /\ quit_ => WakeupDue

\* Functors run in the order they were accepted, each once, on one thread, and
\* never after loop() has returned (swap into a local vector, re-entrant
\* queueInLoop and the exit test included).
Exec == INSTANCE Executor WITH
            queue <- functors \o pendingFunctors_,
            done <- executed,
            stopped <- pc = "exited"
Refines == Exec!Spec

\* A functor handed to a loop by another thread, or by a callback or functor of
\* the loop, is run or the loop ends, without the help of the poll timeout.
QueuedRuns ==
    \A f \in Functors :
        (f \in submitted \ early) ~> (f \in Elements(executed) \/ pc = "exited")

\* quit() on a loop that has entered loop() ends it, whoever calls it and
\* wherever the loop thread is.
QuitEndsLoop == (quit_ /\ looping_) ~> (pc = "exited")
=============================================================================
