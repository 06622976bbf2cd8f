------------------------------ MODULE Executor ------------------------------
(***************************************************************************)
(* What an EventLoop promises the threads that hand it work: one thread    *)
(* runs the accepted functors, each once, in the order they were accepted, *)
(* and none after the loop has stopped.  EventLoop!Refines shows that the  *)
(* wake-up descriptor, the double-buffered queue and the quit flag of      *)
(* src/src/EventLoop.cpp implement this.                                   *)
(***************************************************************************)
EXTENDS Sequences

CONSTANT Functors

VARIABLES
    queue,      \* accepted and not yet run, oldest first
    done,       \* run so far, in order
    stopped     \* loop() has returned

vars == <<queue, done, stopped>>

Init == queue = <<>> /\ done = <<>> /\ stopped = FALSE

Submit(f) ==
    /\ queue' = Append(queue, f)
    /\ UNCHANGED <<done, stopped>>

Execute ==
    /\ ~stopped
    /\ queue # <<>>
    /\ done' = Append(done, Head(queue))
    /\ queue' = Tail(queue)
    /\ UNCHANGED stopped

Stop ==
    /\ ~stopped
    /\ stopped' = TRUE
    /\ UNCHANGED <<queue, done>>

Next == (\E f \in Functors : Submit(f)) \/ Execute \/ Stop

Spec == Init /\ [][Next]_vars
=============================================================================
