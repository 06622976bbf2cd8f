--------------------------- MODULE EventLoopProofs ---------------------------
(***************************************************************************)
(* For any set of foreign threads and any set of functors: the event loop  *)
(* never sleeps on work it was not woken for, and it implements the serial *)
(* executor of module Executor.                                            *)
(*                                                                         *)
(* The loop of an EventLoopThread is such a loop, so all that holds of it, *)
(* too; the pointer startLoop hands out never dangles; and the destructor  *)
(* leaves no thread behind.                                                *)
(***************************************************************************)
EXTENDS EventLoopThread, SequenceTheorems, TLAPS

-----------------------------------------------------------------------------
(* The loop *)

\* callingPendingFunctors_ is set exactly while doPendingFunctors runs: what
\* lets a re-entrant queueInLoop tell that the queue was already swapped.
CallingInDrain ==
    callingPendingFunctors_ <=> pc \in {"swap", "run", "functor"}

\* The local vector of doPendingFunctors is empty outside its loop, so the swap
\* drops nothing.
BatchOnlyInDrain == pc \notin {"run", "functor"} => functors = <<>>

\* NoLostWakeup extended to every place from which the loop thread can reach
\* epoll_wait without swapping the queue first.
Covered ==
    pc \in {"created", "test", "poll", "run", "functor"} =>
        WakeupDue \/ Elements(pendingFunctors_) \subseteq early

IInv == TypeOK /\ CallingInDrain /\ BatchOnlyInDrain /\ Covered /\ NoLostQuit

\* Appending adds the one element.
LEMMA ElementsAppend ==
    ASSUME NEW S, NEW s \in Seq(S), NEW e \in S
    PROVE  Elements(Append(s, e)) = Elements(s) \cup {e}
  BY AppendProperties DEF Elements

\* The empty queue holds nothing.
LEMMA ElementsEmpty == Elements(<<>>) = {}
  BY DEF Elements

\* The constructor establishes the invariant.
LEMMA InitIInv == Init => IInv
<1> SUFFICES ASSUME Init PROVE IInv
  OBVIOUS
<1> USE DEF Init
<1>1. TypeOK
  BY EmptySeq DEF TypeOK, PCs
<1>2. CallingInDrain /\ BatchOnlyInDrain /\ NoLostQuit
  BY DEF CallingInDrain, BatchOnlyInDrain, NoLostQuit
<1>3. Covered
  BY ElementsEmpty DEF Covered
<1>4. QED
  BY <1>1, <1>2, <1>3 DEF IInv

\* Each call into the loop and each step of its thread keeps the types.
LEMMA NextTypeOK == TypeOK /\ [Next]_vars => TypeOK'
<1> SUFFICES ASSUME TypeOK, [Next]_vars PROVE TypeOK'
  OBVIOUS
<1> USE DEF TypeOK, queueVars, drainVars
<1>1. ASSUME NEW th \in Threads, NEW f \in Functors, queueInLoop(th, f)
      PROVE  TypeOK'
  BY <1>1 DEF queueInLoop, EmplaceBack
<1>2. ASSUME NEW th \in Threads, NEW f \in Functors, runInLoop(th, f)
      PROVE  TypeOK'
  BY <1>1, <1>2 DEF runInLoop
<1>3. ASSUME NEW th \in Threads, quit(th)
      PROVE  TypeOK'
  BY <1>3 DEF quit
<1>4. ASSUME NEW th \in Threads, wakeup(th)
      PROVE  TypeOK'
  BY <1>4 DEF wakeup
<1>5. CASE loop
  BY <1>5 DEF loop, PCs
<1>6. CASE TestQuit
  BY <1>6 DEF TestQuit, PCs
<1>7. ASSUME NEW ready \in SUBSET {"wakeup", "io"}, PollReturns(ready)
      PROVE  TypeOK'
  BY <1>7 DEF PollReturns, PCs
<1>8. CASE handleRead
  BY <1>8 DEF handleRead
<1>9. CASE IoCallbacksReturn
  BY <1>9 DEF IoCallbacksReturn
<1>10. CASE doPendingFunctors
  <2>1. CASE EnterDoPending
    BY <2>1 DEF EnterDoPending, PCs
  <2>2. CASE SwapPending
    BY <2>2 DEF SwapPending, PCs
  <2>3. CASE RunFunctor
    <3>1. Head(functors) \in Functors /\ Tail(functors) \in Seq(Functors)
      BY <2>3, HeadTailProperties DEF RunFunctor
    <3>2. QED
      BY <2>3, <3>1 DEF RunFunctor, PCs
  <2>4. CASE FunctorReturns
    BY <2>4 DEF FunctorReturns, PCs
  <2>5. CASE LeaveDoPending
    BY <2>5 DEF LeaveDoPending, PCs
  <2>6. QED
    BY <1>10, <2>1, <2>2, <2>3, <2>4, <2>5 DEF doPendingFunctors
<1>11. CASE UNCHANGED vars
  BY <1>11 DEF vars
<1>12. QED
  BY <1>1, <1>2, <1>3, <1>4, <1>5, <1>6, <1>7, <1>8, <1>9, <1>10, <1>11
  DEF Next, Call, Poll

\* Each call into the loop and each step of its thread keeps the invariant.
LEMMA NextIInv == IInv /\ [Next]_vars => IInv'
<1> SUFFICES ASSUME IInv, [Next]_vars PROVE IInv'
  OBVIOUS
<1>0. TypeOK /\ TypeOK'
  BY NextTypeOK DEF IInv
<1> DEFINE J == CallingInDrain /\ BatchOnlyInDrain /\ Covered /\ NoLostQuit
<1>a. J
  BY DEF IInv
<1> SUFFICES J'
  BY <1>0 DEF IInv
<1> USE <1>0, <1>a
<1> USE DEF CallingInDrain, BatchOnlyInDrain, Covered, NoLostQuit, WakeupDue,
            queueVars, drainVars
<1>1. ASSUME NEW th \in Threads, NEW f \in Functors, queueInLoop(th, f)
      PROVE  J'
  <2>1. Elements(pendingFunctors_') = Elements(pendingFunctors_) \cup {f}
    BY <1>1, ElementsAppend DEF queueInLoop, EmplaceBack, TypeOK
  <2>2. CASE QueueWakes(th)
    BY <1>1, <2>2 DEF queueInLoop
  <2>3. CASE ~QueueWakes(th)
    <3>1. isInLoopThread(th) /\ ~callingPendingFunctors_
      BY <2>3 DEF QueueWakes, isInLoopThread
    <3>2. pc \in {"created", "dispatch"}
      BY <1>1, <3>1 DEF queueInLoop, MayCall, InUserCode
    <3>3. QED
      BY <1>1, <2>1, <2>3, <3>1, <3>2 DEF queueInLoop
  <2>4. QED
    BY <2>2, <2>3
<1>2. ASSUME NEW th \in Threads, NEW f \in Functors, runInLoop(th, f)
      PROVE  J'
  BY <1>1, <1>2 DEF runInLoop
<1>3. ASSUME NEW th \in Threads, quit(th)
      PROVE  J'
  <2>1. isInLoopThread(th) => pc # "poll"
    BY <1>3 DEF quit, MayCall, InUserCode
  <2>2. QED
    BY <1>3, <2>1 DEF quit, QuitWakes
<1>4. ASSUME NEW th \in Threads, wakeup(th)
      PROVE  J'
  BY <1>4 DEF wakeup
<1>5. CASE loop
  BY <1>5 DEF loop
<1>6. CASE TestQuit
  BY <1>6 DEF TestQuit, TypeOK
<1>7. ASSUME NEW ready \in SUBSET {"wakeup", "io"}, PollReturns(ready)
      PROVE  J'
  BY <1>7 DEF PollReturns
<1>8. CASE handleRead
  BY <1>8 DEF handleRead
<1>9. CASE IoCallbacksReturn
  BY <1>9 DEF IoCallbacksReturn
<1>10. CASE doPendingFunctors
  <2>1. CASE EnterDoPending
    BY <2>1 DEF EnterDoPending
  <2>2. CASE SwapPending
    BY <2>2, ElementsEmpty DEF SwapPending
  <2>3. CASE RunFunctor
    BY <2>3 DEF RunFunctor
  <2>4. CASE FunctorReturns
    BY <2>4 DEF FunctorReturns
  <2>5. CASE LeaveDoPending
    BY <2>5 DEF LeaveDoPending
  <2>6. QED
    BY <1>10, <2>1, <2>2, <2>3, <2>4, <2>5 DEF doPendingFunctors
<1>11. CASE UNCHANGED vars
  BY <1>11 DEF vars
<1>12. QED
  BY <1>1, <1>2, <1>3, <1>4, <1>5, <1>6, <1>7, <1>8, <1>9, <1>10, <1>11
  DEF Next, Call, Poll

\* The inductive invariant holds throughout loop(), for any callers.
THEOREM Invariance == Spec => []IInv
  BY InitIInv, NextIInv, PTL DEF Spec

\* Every variable of EventLoop keeps its declared type.
THEOREM TypeCorrect == Spec => []TypeOK
<1>1. IInv => TypeOK
  BY DEF IInv
<1>2. QED
  BY <1>1, Invariance, PTL

\* The emplace / write pair of queueInLoop against the read / swap pair of the
\* loop thread: however many threads call, no wake-up is lost.
THEOREM WakeupNeverLost == Spec => []NoLostWakeup
<1>1. IInv => NoLostWakeup
  BY DEF IInv, Covered, NoLostWakeup
<1>2. QED
  BY <1>1, Invariance, PTL

\* A loop asleep in epoll_wait with quit_ set has been, or is being, woken.
THEOREM QuitNeverOverlooked == Spec => []NoLostQuit
<1>1. IInv => NoLostQuit
  BY DEF IInv
<1>2. QED
  BY <1>1, Invariance, PTL

\* Appending at the back commutes with prefixing the batch.
LEMMA ConcatAppend ==
    ASSUME NEW S, NEW s \in Seq(S), NEW t \in Seq(S), NEW e \in S
    PROVE  s \o Append(t, e) = Append(s \o t, e)
<1>1. s \o (t \o <<e>>) = (s \o t) \o <<e>>
  BY ConcatAssociative
<1>2. s \o t \in Seq(S)
  BY ConcatProperties
<1>3. QED
  BY <1>1, <1>2, AppendIsConcat

\* Taking the head of the batch takes the head of the whole queue.
LEMMA HeadTailConcat ==
    ASSUME NEW S, NEW s \in Seq(S), NEW t \in Seq(S), s # <<>>
    PROVE  /\ s \o t # <<>>
           /\ Head(s \o t) = Head(s)
           /\ Tail(s \o t) = Tail(s) \o t
  OBVIOUS

\* A step of the loop is a step of the serial executor or invisible to it.
LEMMA StepRefines == IInv /\ [Next]_vars => [Exec!Next]_Exec!vars
<1> SUFFICES ASSUME IInv, [Next]_vars PROVE [Exec!Next]_Exec!vars
  OBVIOUS
<1> USE DEF IInv, TypeOK, queueVars, drainVars
<1>a. ASSUME UNCHANGED <<functors, pendingFunctors_, executed>>,
             (pc = "exited") <=> (pc' = "exited")
      PROVE  UNCHANGED Exec!vars
  BY <1>a DEF Exec!vars
<1>1. ASSUME NEW th \in Threads, NEW f \in Functors, queueInLoop(th, f)
      PROVE  Exec!Next
  <2>1. (functors \o pendingFunctors_)' = Append(functors \o pendingFunctors_, f)
    BY <1>1, ConcatAppend DEF queueInLoop, EmplaceBack
  <2>2. Exec!Submit(f)
    BY <1>1, <2>1 DEF queueInLoop, Exec!Submit
  <2>3. QED
    BY <2>2 DEF Exec!Next
<1>2. ASSUME NEW th \in Threads, NEW f \in Functors, runInLoop(th, f)
      PROVE  Exec!Next
  BY <1>1, <1>2 DEF runInLoop
<1>3. ASSUME NEW th \in Threads, quit(th) \/ wakeup(th)
      PROVE  UNCHANGED Exec!vars
  BY <1>a, <1>3 DEF quit, wakeup
<1>4. CASE TestQuit
  <2>1. CASE quit_
    <3>1. Exec!Stop
      BY <1>4, <2>1 DEF TestQuit, Exec!Stop
    <3>2. QED
      BY <3>1 DEF Exec!Next
  <2>2. CASE ~quit_
    BY <1>4, <1>a, <2>2 DEF TestQuit
  <2>3. QED
    BY <2>1, <2>2
<1>5. CASE loop \/ Poll \/ handleRead \/ IoCallbacksReturn
  BY <1>5, <1>a DEF loop, Poll, PollReturns, handleRead, IoCallbacksReturn
<1>6. CASE EnterDoPending \/ FunctorReturns \/ LeaveDoPending
  BY <1>6, <1>a DEF EnterDoPending, FunctorReturns, LeaveDoPending
<1>7. CASE SwapPending
  <2>1. functors = <<>>
    BY <1>7 DEF SwapPending, BatchOnlyInDrain
  <2>2. functors' = pendingFunctors_ /\ pendingFunctors_' = <<>>
    BY <1>7 DEF SwapPending
  <2>3. pendingFunctors_ \o <<>> = <<>> \o pendingFunctors_
    BY ConcatEmptySeq
  <2>4. UNCHANGED <<executed, pc = "exited">>
    BY <1>7 DEF SwapPending
  <2>5. QED
    BY <2>1, <2>2, <2>3, <2>4 DEF Exec!vars
<1>8. CASE RunFunctor
  <2>1. Exec!Execute
    BY <1>8, HeadTailConcat DEF RunFunctor, Exec!Execute
  <2>2. QED
    BY <2>1 DEF Exec!Next
<1>9. CASE UNCHANGED vars
  BY <1>9, <1>a DEF vars
<1>10. QED
  BY <1>1, <1>2, <1>3, <1>4, <1>5, <1>6, <1>7, <1>8, <1>9
  DEF Next, Call, doPendingFunctors

\* The loop implements the serial executor: functors of any number of threads
\* run once each, in the order queueInLoop accepted them, until loop() returns.
THEOREM Refinement == Spec => Refines
<1>1. Init => Exec!Init
  <2>1. <<>> \o <<>> = <<>>
    BY ConcatEmptySeq, EmptySeq
  <2>2. QED
    BY <2>1 DEF Init, Exec!Init
<1>2. QED
  BY <1>1, StepRefines, Invariance, PTL DEF Spec, Refines, Exec!Spec

-----------------------------------------------------------------------------
(* The thread that runs it *)

\* loop_ points to the loop exactly between Publish and ClearLoop.
PointerMatchesThread == loop_ <=> tpc = "published"

\* No thread before start(); no return of startLoop before publication.
StartOrder ==
    /\ opc = "idle" => tpc = "none"
    /\ opc \in {"user", "quit", "join"} => tpc \in {"published", "cleared", "finished"}

\* The thread gets beyond loop() only when loop() has returned, for which
\* somebody has called quit(): a callback, or the destructor.
ExitCause ==
    /\ tpc \in {"cleared", "finished"} => pc = "exited"
    /\ pc = "exited" => quit_
    /\ quit_ => selfQuit \/ opc \in {"join", "gone"}

TInv == /\ ThreadTypeOK /\ PointerMatchesThread /\ StartOrder /\ ExitCause
        /\ DtorLeavesNoThread

\* Between startLoop and the destructor's quit() the loop exists, unless one of
\* its own callbacks has ended it.
LoopUsable == opc \in {"user", "quit"} /\ ~selfQuit => LoopAlive

\* A step of the composition is a step of the loop or leaves the loop alone.
LEMMA StepIsLoopStep == [TNext]_allVars => [Next]_vars
<1> SUFFICES ASSUME TNext \/ UNCHANGED allVars PROVE Next \/ UNCHANGED vars
  OBVIOUS
<1>t. Foreign \subseteq Threads /\ Owner \in Threads /\ LoopThread \in Threads
  BY OwnerAssumption DEF Threads
<1>1. ASSUME NEW th \in Foreign, UserCalls(th) \/ UserWakes(th) PROVE Next
  BY <1>1, <1>t DEF UserCalls, UserWakes, Next, Call
<1>2. CASE DtorQuit
  BY <1>2, <1>t DEF DtorQuit, Next, Call
<1>3. CASE LoopThreadCalls
  BY <1>3, <1>t DEF LoopThreadCalls, Next, Call
<1>4. CASE LoopThreadRuns
  BY <1>4 DEF LoopThreadRuns, Next
<1>5. CASE \/ ThreadStart \/ SemWait \/ startLoop \/ DtorTest \/ join
           \/ SemPost \/ Publish \/ ClearLoop \/ DestroyLoop \/ Ended \/ UNCHANGED allVars
  BY <1>5, Zenon
  DEF ThreadStart, SemWait, startLoop, DtorTest, join, SemPost, Publish, ClearLoop,
      DestroyLoop, Ended, allVars
<1>6. QED
  BY <1>1, <1>2, <1>3, <1>4, <1>5 DEF TNext, threadFunc

\* The loop run by threadFunc implements module EventLoop, whatever the owner and
\* the threads it shares the loop with do.
THEOREM ThreadRunsEventLoop == TSpec => Spec
<1>1. TInit => Init
  BY DEF TInit
<1>2. QED
  BY <1>1, StepIsLoopStep, PTL DEF TSpec, Spec

\* What the pc of the loop thread and quit_ do in each step of the loop.
LEMMA LoopStepQuit ==
    ASSUME TypeOK, [Next]_vars
    PROVE  /\ pc = "exited" => pc' = "exited"
           /\ pc' = "exited" /\ pc # "exited" => quit_
           /\ pc # "created" /\ quit_ => quit_'
<1> USE DEF TypeOK, queueVars, drainVars
<1>1. ASSUME NEW th \in Threads, NEW f \in Functors, queueInLoop(th, f)
      PROVE  UNCHANGED <<pc, quit_>>
  BY <1>1 DEF queueInLoop
<1>2. ASSUME NEW th \in Threads, quit(th) \/ wakeup(th)
      PROVE  UNCHANGED pc /\ (quit_ => quit_')
  BY <1>2 DEF quit, wakeup
<1>3. CASE loop \/ TestQuit
  BY <1>3 DEF loop, TestQuit
<1>4. CASE Poll \/ handleRead \/ IoCallbacksReturn
  BY <1>4 DEF Poll, PollReturns, handleRead, IoCallbacksReturn
<1>5. CASE doPendingFunctors
  BY <1>5 DEF doPendingFunctors, EnterDoPending, SwapPending, RunFunctor, FunctorReturns,
              LeaveDoPending
<1>6. CASE UNCHANGED vars
  BY <1>6 DEF vars
<1>7. QED
  BY <1>1, <1>2, <1>3, <1>4, <1>5, <1>6 DEF Next, Call, runInLoop

\* quit_ is set only by DtorQuit and by application code on the loop thread.
LEMMA WhoQuits ==
    ASSUME ThreadTypeOK, [TNext]_allVars, ~quit_, quit_'
    PROVE  selfQuit' \/ opc' = "join"
<1> USE DEF queueVars, drainVars
<1>1. ASSUME NEW th \in Foreign, UserCalls(th) \/ UserWakes(th) PROVE FALSE
  BY <1>1 DEF UserCalls, UserWakes, queueInLoop, runInLoop, wakeup
<1>2. CASE DtorQuit
  BY <1>2 DEF DtorQuit
<1>3. CASE LoopThreadCalls
  BY <1>3 DEF LoopThreadCalls, queueInLoop, wakeup
<1>4. CASE LoopThreadRuns
  <2>1. UNCHANGED quit_ \/ quit_' = FALSE
    BY <1>4
    DEF LoopThreadRuns, loop, TestQuit, Poll, PollReturns, handleRead, IoCallbacksReturn,
        doPendingFunctors, EnterDoPending, SwapPending, RunFunctor, FunctorReturns,
        LeaveDoPending
  <2>2. QED
    BY <2>1
<1>5. CASE UNCHANGED vars
  BY <1>5 DEF vars
<1>6. QED
  BY <1>1, <1>2, <1>3, <1>4, <1>5
  DEF TNext, threadFunc, ThreadStart, SemWait, startLoop, DtorTest, join, SemPost, Publish,
      ClearLoop, DestroyLoop, Ended, allVars

\* Each step of the owner and of the new thread keeps the invariant.
LEMMA NextTInv == TInv /\ [TNext]_allVars => TInv'
<1> SUFFICES ASSUME TInv, [TNext]_allVars PROVE TInv'
  OBVIOUS
<1>l. [Next]_vars
  BY StepIsLoopStep
<1>t. TypeOK'
  BY <1>l, NextTypeOK DEF TInv, ThreadTypeOK
<1>q. /\ pc = "exited" => pc' = "exited"
      /\ pc' = "exited" /\ pc # "exited" => quit_
      /\ pc # "created" /\ quit_ => quit_'
  BY <1>l, LoopStepQuit DEF TInv, ThreadTypeOK
<1>w. ~quit_ /\ quit_' => selfQuit' \/ opc' = "join"
  BY WhoQuits DEF TInv
<1>o. selfQuit => selfQuit'
  BY DEF TInv, ThreadTypeOK, TNext, threadFunc, ThreadStart, SemWait, startLoop, UserCalls,
         UserWakes, DtorTest, DtorQuit, join, LoopThreadCalls, SemPost, Publish,
         LoopThreadRuns, ClearLoop, DestroyLoop, Ended, allVars, threadVars
<1> DEFINE P == /\ opc' \in {"idle", "sem", "check", "waiting", "user", "quit", "join", "gone"}
                /\ tpc' \in {"none", "spawned", "init", "published", "cleared", "finished"}
                /\ loop_' \in BOOLEAN /\ selfQuit' \in BOOLEAN
                /\ PointerMatchesThread' /\ StartOrder'
                /\ tpc' \in {"cleared", "finished"} => pc' = "exited"
                /\ opc \in {"join", "gone"} => opc' \in {"join", "gone"}
                /\ DtorLeavesNoThread'
<1>p. P
  <2> USE DEF TInv, ThreadTypeOK, PointerMatchesThread, StartOrder, ExitCause,
              DtorLeavesNoThread, threadVars
  <2>1. CASE ThreadStart \/ SemWait \/ startLoop
    BY <1>q, <2>1 DEF ThreadStart, SemWait, startLoop
  <2>2. CASE UNCHANGED threadVars
    BY <1>q, <2>2
  <2>3. CASE DtorTest
    BY <1>q, <2>3 DEF DtorTest
  <2>4. CASE DtorQuit \/ join
    BY <1>q, <2>4 DEF DtorQuit, join
  <2>5. CASE LoopThreadCalls
    BY <1>q, <1>o, <2>5 DEF LoopThreadCalls
  <2>6. CASE SemPost
    BY <1>q, <2>6 DEF SemPost
  <2>7. CASE Publish
    BY <1>q, <2>7 DEF Publish
  <2>8. CASE ClearLoop
    <3>1. tpc' = "cleared" /\ loop_' = FALSE /\ pc' = "exited" /\ UNCHANGED <<opc, selfQuit>>
      BY <1>q, <2>8 DEF ClearLoop
    <3>2. PointerMatchesThread' /\ StartOrder'
      BY <2>8, <3>1 DEF ClearLoop
    <3>3. DtorLeavesNoThread'
      BY <2>8, <3>1 DEF ClearLoop
    <3>4. QED
      BY <3>1, <3>2, <3>3
  <2>9. CASE DestroyLoop
    BY <1>q, <2>9 DEF DestroyLoop
  <2>10. QED
    BY <2>1, <2>2, <2>3, <2>4, <2>5, <2>6, <2>7, <2>8, <2>9
    DEF TNext, threadFunc, UserCalls, UserWakes, LoopThreadRuns, Ended, allVars
<1>e. ExitCause'
  <2>1. pc' = "exited" => quit_'
    <3>1. CASE pc = "exited"
      BY <1>q, <3>1 DEF TInv, ExitCause
    <3>2. CASE pc # "exited" /\ pc' = "exited"
      <4>1. quit_ /\ pc # "created"
        BY <1>q, <1>l, <3>2
        DEF Next, Call, queueInLoop, runInLoop, quit, wakeup, loop, vars, TestQuit, Poll,
            PollReturns, handleRead, IoCallbacksReturn, doPendingFunctors, EnterDoPending,
            SwapPending, RunFunctor, FunctorReturns, LeaveDoPending
      <4>2. QED
        BY <1>q, <4>1
    <3>3. QED
      BY <3>1, <3>2
  <2>2. quit_' => selfQuit' \/ opc' \in {"join", "gone"}
    BY <1>w, <1>o, <1>p DEF TInv, ExitCause
  <2>3. QED
    BY <1>p, <2>1, <2>2 DEF ExitCause
<1>z. QED
  BY <1>t, <1>p, <1>e DEF TInv, ThreadTypeOK

\* The inductive invariant holds in every execution of the composition.
THEOREM ThreadInvariance == TSpec => []TInv
<1>1. TInit => TInv
  <2>1. Init => TypeOK
    BY InitIInv DEF IInv
  <2>2. QED
    BY <2>1 DEF TInit, Init, TInv, ThreadTypeOK, PointerMatchesThread, StartOrder,
                ExitCause, DtorLeavesNoThread
<1>2. QED
  BY <1>1, NextTInv, PTL DEF TSpec

\* The stack-allocated loop is alive whenever loop_ is not null.
THEOREM PointerNeverDangles == TSpec => []PublishedLoopAlive
<1>1. TInv => PublishedLoopAlive
  BY DEF TInv, PointerMatchesThread, PublishedLoopAlive, LoopAlive
<1>2. QED
  BY <1>1, ThreadInvariance, PTL

\* ~EventLoopThread has joined the thread when it returns, unless a callback of
\* the loop ended it first.
THEOREM DtorJoins == TSpec => []DtorLeavesNoThread
<1>1. TInv => DtorLeavesNoThread
  BY DEF TInv
<1>2. QED
  BY <1>1, ThreadInvariance, PTL

\* The pointer that startLoop returned may be used until the destructor.
THEOREM LoopStaysUsable == TSpec => []LoopUsable
<1>1. TInv => LoopUsable
  BY DEF TInv, StartOrder, ExitCause, LoopUsable, LoopAlive
<1>2. QED
  BY <1>1, ThreadInvariance, PTL

\* The loop of an EventLoopThread loses no wake-up, overlooks no quit() and
\* executes as the serial executor.
THEOREM ThreadLoopCorrect == TSpec => []NoLostWakeup /\ []NoLostQuit /\ Refines
  BY ThreadRunsEventLoop, WakeupNeverLost, QuitNeverOverlooked, Refinement, PTL
=============================================================================
