--------------------------- MODULE EventLoopThread ---------------------------
(***************************************************************************)
(* src/src/EventLoopThread.cpp over src/src/Thread.cpp, composed with the  *)
(* EventLoop it runs: the owner starts a thread, waits until that thread   *)
(* has published its stack-allocated loop, hands it work, and in the       *)
(* destructor asks it to quit and joins it.  Other threads may use the     *)
(* loop between the two.                                                   *)
(***************************************************************************)
EXTENDS EventLoop

CONSTANT Owner      \* the thread that owns the EventLoopThread object

ASSUME OwnerAssumption == Owner \in Foreign

VARIABLES
    opc,        \* where the owner is in startLoop() / ~EventLoopThread()
    tpc,        \* where the new thread is in threadFunc()
    loop_,      \* the pointer is not null
    selfQuit    \* history: a callback of the loop, not the destructor, called quit()

threadVars == <<opc, tpc, loop_, selfQuit>>
allVars == <<vars, threadVars>>

\* `EventLoop loop` is a local of threadFunc.
LoopAlive == tpc \in {"init", "published", "cleared"}

TInit ==
    /\ Init
    /\ opc = "idle"
    /\ tpc = "none"
    /\ loop_ = FALSE
    /\ selfQuit = FALSE
-----------------------------------------------------------------------------
(* The owner. *)

\* Thread::start creates the thread and waits on the semaphore for its tid.
ThreadStart ==
    /\ opc = "idle"
    /\ opc' = "sem"
    /\ tpc' = "spawned"
    /\ UNCHANGED <<vars, loop_, selfQuit>>

SemWait ==
    /\ opc = "sem"
    /\ tpc # "spawned"
    /\ opc' = "check"
    /\ UNCHANGED <<vars, tpc, loop_, selfQuit>>

\* while(loop_ == nullptr) cond_.wait(lock), then the copy of loop_; the mutex
\* is held from each test to the wait or the return.
startLoop ==
    /\ opc = "check"
    /\ opc' = IF loop_ THEN "user" ELSE "waiting"
    /\ UNCHANGED <<vars, tpc, loop_, selfQuit>>

\* Between startLoop and the destructor the owner, and threads it shares the
\* pointer with, use the loop; the write of wakeup() is a step of its own.
UserCalls(th) ==
    /\ opc = "user"
    /\ \E f \in Functors : queueInLoop(th, f) \/ runInLoop(th, f)
    /\ UNCHANGED threadVars

UserWakes(th) == wakeup(th) /\ UNCHANGED threadVars

\* ~EventLoopThread reads loop_ without the mutex.  The owner destroys the
\* object when no thread it shares the loop with is still inside a call.
DtorTest ==
    /\ opc \in {"idle", "user"}
    /\ waking \cap Foreign = {}
    /\ opc' = IF loop_ THEN "quit" ELSE "gone"
    /\ UNCHANGED <<vars, tpc, loop_, selfQuit>>

DtorQuit ==
    /\ opc = "quit"
    /\ quit(Owner)
    /\ opc' = "join"
    /\ UNCHANGED <<tpc, loop_, selfQuit>>

\* Mutant: the destructor goes on without joining.
NoJoin ==
    /\ opc = "join"
    /\ Owner \notin waking
    /\ opc' = "gone"
    /\ UNCHANGED <<vars, tpc, loop_, selfQuit>>

join ==
    /\ opc = "join"
    /\ Owner \notin waking
    /\ tpc = "finished"
    /\ opc' = "gone"
    /\ UNCHANGED <<vars, tpc, loop_, selfQuit>>
-----------------------------------------------------------------------------
(* The new thread. *)

\* The lambda of Thread::start posts the semaphore, then threadFunc constructs
\* the loop; callback_ then runs as application code of the loop thread.
SemPost ==
    /\ tpc = "spawned"
    /\ tpc' = "init"
    /\ UNCHANGED <<vars, opc, loop_, selfQuit>>

\* Mutant: loop_ is published without notify_one.
PublishSilently ==
    /\ tpc = "init" /\ LoopRuns
    /\ loop_' = TRUE
    /\ tpc' = "published"
    /\ UNCHANGED <<vars, opc, selfQuit>>

\* loop_ = &loop and notify_one under the mutex: a waiting owner tests again.
Publish ==
    /\ tpc = "init" /\ LoopRuns
    /\ loop_' = TRUE
    /\ opc' = IF opc = "waiting" THEN "check" ELSE opc
    /\ tpc' = "published"
    /\ UNCHANGED <<vars, selfQuit>>

\* Application code on the loop thread: callback_ before publication, channel
\* callbacks and functors inside loop().
LoopThreadCalls ==
    /\ tpc = "init" \/ (tpc = "published" /\ pc # "created")
    /\ \/ \E f \in Functors : queueInLoop(LoopThread, f) /\ UNCHANGED selfQuit
       \/ quit(LoopThread) /\ selfQuit' = TRUE
       \/ wakeup(LoopThread) /\ UNCHANGED selfQuit
    /\ UNCHANGED <<opc, tpc, loop_>>

\* loop.loop()
LoopThreadRuns ==
    /\ tpc = "published"
    /\ loop \/ TestQuit \/ Poll \/ handleRead \/ IoCallbacksReturn \/ doPendingFunctors
    /\ UNCHANGED threadVars

\* Mutant: the pointer is left behind when the loop's scope ends.
LeaveDangling ==
    /\ tpc = "published"
    /\ pc = "exited"
    /\ tpc' = "cleared"
    /\ UNCHANGED <<vars, opc, loop_, selfQuit>>

\* loop() has returned: loop_ = nullptr under the mutex, the guard is released,
ClearLoop ==
    /\ tpc = "published"
    /\ pc = "exited"
    /\ loop_' = FALSE
    /\ tpc' = "cleared"
    /\ UNCHANGED <<vars, opc, selfQuit>>

\* and the local EventLoop is destroyed, closing wakeupFd_.
DestroyLoop ==
    /\ tpc = "cleared"
    /\ tpc' = "finished"
    /\ UNCHANGED <<vars, opc, loop_, selfQuit>>

threadFunc == SemPost \/ Publish \/ LoopThreadRuns \/ ClearLoop \/ DestroyLoop

\* Nothing is left to do: the destructor returned and the thread has ended (or
\* was never started), or a callback ended the loop before startLoop saw loop_,
\* which then waits for a pointer that is not coming back.
Ended ==
    /\ \/ opc = "gone" /\ tpc \in {"none", "finished"}
       \/ opc = "waiting" /\ tpc = "finished" /\ selfQuit
    /\ UNCHANGED allVars

TNext ==
    \/ ThreadStart \/ SemWait \/ startLoop
    \/ \E th \in Foreign : UserCalls(th) \/ UserWakes(th)
    \/ DtorTest \/ DtorQuit \/ join
    \/ LoopThreadCalls
    \/ threadFunc
    \/ Ended

\* Both threads are scheduled; whether and when the owner calls startLoop, uses
\* the loop or runs the destructor is the application's choice.
OwnerProgress == SemWait \/ startLoop \/ DtorQuit \/ join

ThreadProgress ==
    \/ SemPost \/ Publish \/ ClearLoop \/ DestroyLoop
    \/ tpc = "published" /\ LoopProgress /\ UNCHANGED threadVars
    \/ wakeup(LoopThread) /\ UNCHANGED threadVars

TSpec ==
    /\ TInit /\ [][TNext]_allVars
    /\ WF_allVars(OwnerProgress) /\ WF_allVars(ThreadProgress)
    /\ \A th \in Foreign : WF_allVars(UserWakes(th))
-----------------------------------------------------------------------------
(* Properties. *)

\* The program counters of the two threads and the pointer have their types.
ThreadTypeOK ==
    /\ TypeOK
    /\ opc \in {"idle", "sem", "check", "waiting", "user", "quit", "join", "gone"}
    /\ tpc \in {"none", "spawned", "init", "published", "cleared", "finished"}
    /\ loop_ \in BOOLEAN
    /\ selfQuit \in BOOLEAN

\* The pointer startLoop hands out, and that the destructor tests, is never a
\* dangling one: it is set after the loop's construction and reset before its
\* destruction.
PublishedLoopAlive == loop_ => LoopAlive

\* startLoop returns, whichever thread runs first: neither the semaphore nor the
\* condition variable loses the new thread's signal.  Only a loop that a callback
\* ends at once can leave the owner waiting.
StartReturns == (opc = "sem") ~> (opc = "user" \/ selfQuit)

\* When the destructor is through, no thread is left running in the object it
\* destroyed, unless the loop had ended by itself before.
DtorLeavesNoThread ==
    opc = "gone" /\ ~selfQuit => tpc \in {"none", "finished"}

\* EventLoop.h:31 and EventLoop.cpp:97: quit() from another thread wakes the
\* loop's thread, which then leaves the loop.  So the destructor, which calls it
\* and joins, always comes back.
JoinReturns == (opc = "quit") ~> (opc = "gone")
=============================================================================
