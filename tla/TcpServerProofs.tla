--------------------------- MODULE TcpServerProofs ---------------------------
(***************************************************************************)
(* Proofs about TcpServer, for any number of connections and I/O loops.    *)
(***************************************************************************)
EXTENDS TcpServer, FiniteSetTheorems, TLAPS

FunctorOps == {"established", "destroyed", "remove"}
Ops == CtorOps \cup FunctorOps \cup {"close"}

\* Loop l's thread executes op for connection c; the functor waits in l's queue.
Acts(l, op, c) == act[l] = Do(op, c)
Queued(l, op, c) == \E i \in DOMAIN queue[l] : queue[l][i] = Do(op, c)

\* The base loop's thread is inside the constructor of connection c, or has
\* returned from it and not put c into connections_ yet.
InCtor(c) == \E op \in CtorOps : Acts(Base, op, c)

\* newConnection has handed c over.
Handed(c) == c < nextConnId_ /\ ~InCtor(c)

\* Functors, callbacks and captured channels are those of connections that
\* exist, and on their loops.
PlacesOn(l, c) ==
    /\ Queued(l, "remove", c) \/ Acts(l, "remove", c) => l = Base /\ Handed(c)
    /\ Queued(l, "established", c) => l # Base
    /\ \/ Queued(l, "established", c) \/ Acts(l, "established", c)
       \/ Queued(l, "destroyed", c) \/ Acts(l, "destroyed", c)
       => l = loopOf[c] /\ Handed(c)
    /\ c \in captured[l] \/ Acts(l, "close", c) => l = loopOf[c] /\ c < nextConnId_
    /\ \A op \in CtorOps : Acts(l, op, c) => l = Base /\ c < nextConnId_
    /\ c \in connections_ => Handed(c)
Places == \A l \in Loops, c \in Conns : PlacesOn(l, c)

\* A loop with captured channels runs nothing but their callbacks, each once.
Serial == \A l \in Loops, c \in Conns, op \in Ops :
            captured[l] # {} /\ Acts(l, op, c) => op = "close" /\ c \notin captured[l]

\* At most one functor of connectEstablished for c waits on l, and it is ahead of
\* those of connectDestroyed.
OnceAhead(l, c) ==
    \A i, j \in DOMAIN queue[l] :
        queue[l][i] = Do("established", c) =>
            /\ queue[l][j] = Do("destroyed", c) => i < j
            /\ queue[l][j] = Do("established", c) => i = j

\* connectEstablished is on its way once, and runs before any connectDestroyed.
EstablishingOn(l, c) ==
    /\ up[c] \in {0, 1}
    /\ ~Handed(c) => up[c] = 0
    /\ loopOf[c] = l =>
        /\ Handed(c) =>
            up[c] = 1 \/ Acts(l, "established", c) \/ Queued(l, "established", c)
        /\ Acts(l, "established", c) => up[c] = 0 /\ ~Queued(l, "established", c)
        /\ Queued(l, "established", c) => up[c] = 0 /\ ~Acts(l, "destroyed", c)
        /\ OnceAhead(l, c)
Establishing == \A l \in Loops, c \in Conns : EstablishingOn(l, c)

\* While the poller or a list of active channels points to c's channel, the map,
\* the constructor's caller or a connectDestroyed still to come owns c.
Held(c) == channel[c] \notin {"none", "removed"}
OwnedOn(l, c) ==
    /\ c >= nextConnId_ => channel[c] = "none" /\ c \notin early
    /\ Handed(c) => channel[c] # "none"
    /\ \A op \in CtorOps : Acts(Base, op, c) /\ op # "ctor1" => channel[c] # "none"
    /\ c \in captured[l] \/ Acts(l, "close", c) => Held(c)
    /\ loopOf[c] = l /\ Held(c) =>
        \/ c \in connections_ \/ InCtor(c)
        \/ Queued(l, "destroyed", c) \/ Acts(l, "destroyed", c)
Owned == \A l \in Loops, c \in Conns : OwnedOn(l, c)

\* A connection is taken out of the map when the application has been told, or by
\* ~TcpServer.
LeavingOn(l, c) ==
    \/ Queued(l, "remove", c) \/ Acts(l, "remove", c)
    \/ Queued(l, "destroyed", c) \/ Acts(l, "destroyed", c)
    => down[c] # 0 \/ serverGone
Leaving == \A l \in Loops, c \in Conns : LeavingOn(l, c)

\* A connection whose first event came after connectEstablished is not up yet,
\* up, down again, or dropped by ~TcpServer while it was being shut down.
NotReported(c) == \A l \in Loops : c \notin captured[l] /\ ~Acts(l, "close", c)
NotUp(c) == /\ up[c] = 0 /\ down[c] = 0 /\ state_[c] = "kConnecting"
            /\ channel[c] \in {"none", "watched0", "deleted"} /\ NotReported(c)
            /\ c \notin closing
IsUp(c) == /\ up[c] = 1 /\ down[c] = 0 /\ state_[c] \in {"kConnected", "kDisconnecting"}
           /\ channel[c] = "reading"
IsDown(c) == /\ up[c] = 1 /\ down[c] = 1 /\ state_[c] \in {"kDisconnected", "kDisconnecting"}
             /\ channel[c] \in {"deleted", "removed"} /\ NotReported(c)
Dropped(c) == /\ up[c] = 1 /\ down[c] = 0 /\ state_[c] = "kDisconnecting"
              /\ channel[c] = "removed" /\ NotReported(c) /\ serverGone
PairedOn(c) == NotUp(c) \/ IsUp(c) \/ IsDown(c) \/ Dropped(c)
Paired == \A c \in Conns \ early : PairedOn(c)

\* The connections dealt to the loops so far: k rounds and the loops before next_.
Dealt(l) == {c \in 1..(nextConnId_ - 1) : loopOf[c] = l}
Spread(k) ==
    \A i \in DOMAIN loops_ :
        Cardinality(Dealt(loops_[i])) = IF i <= next_ % Len(loops_) THEN k + 1 ELSE k
Dealing ==
    /\ ~started_ => nextConnId_ = 1 /\ loops_ = <<>>
    /\ \E n \in 0..Len(IoLoops) : loops_ = SubSeq(IoLoops, 1, n)
    /\ next_ = IF loops_ = <<>> THEN 0 ELSE nextConnId_ - 1
    /\ \E k \in Nat : Spread(k)

IInv ==
    /\ TypeOK /\ Places /\ Serial /\ Establishing
    /\ Owned /\ EstablishedFirst /\ Leaving /\ Paired /\ Dealing
-----------------------------------------------------------------------------
(* What the steps do to a thread's work and to the queues. *)

LEMMA BaseIsLoop == Base \in Loops
BY DEF Loops

\* The names of the operations are different.
LEMMA OpNames ==
    /\ "established" \in FunctorOps /\ "destroyed" \in FunctorOps /\ "remove" \in FunctorOps
    /\ "ctor1" \in CtorOps /\ "ctor4" \in CtorOps /\ "constructed" \in CtorOps
    /\ "close" \in Ops /\ "close" \notin CtorOps
    /\ \A op \in FunctorOps : op \in Ops /\ op \notin CtorOps /\ op # "close"
    /\ \A op \in CtorOps : op \in Ops
BY DEF Ops, CtorOps, FunctorOps

\* A work item is its operation and its connection.
LEMMA DoFacts ==
    /\ \A o, p, c, d : Do(o, c) = Do(p, d) <=> o = p /\ c = d
    /\ \A o, c : Do(o, c).op = o /\ Do(o, c).conn = c
    /\ \A o \in Ops : \A c : Do(o, c) # Idle
    /\ Idle.op \notin Ops
BY DEF Do, Idle, Ops, CtorOps, FunctorOps

\* A thread is idle or executes an operation for a connection.
LEMMA WorkForm ==
    ASSUME TypeOK, NEW l \in Loops
    PROVE  /\ act[l] # Idle => \E o \in Ops, c \in Conns : Acts(l, o, c)
           /\ \A o \in Ops : act[l].op = o => act[l].conn \in Conns /\ Acts(l, o, act[l].conn)
<1>1. act[l] \in Work \/ act[l] = Idle
    BY DEF TypeOK
<1>2. ASSUME act[l] \in Work
      PROVE  act[l].op \in Ops /\ act[l].conn \in Conns /\ act[l] = Do(act[l].op, act[l].conn)
    BY <1>2 DEF Work, Do, Ops, FunctorOps
<1>3. QED
    BY <1>1, <1>2, DoFacts DEF Acts

\* A thread ends a piece of work, or begins operation o for connection d.
LEMMA ActEnds ==
    ASSUME TypeOK, NEW m \in Loops, act' = [act EXCEPT ![m] = Idle]
    PROVE  /\ act' \in [Loops -> Work \cup {Idle}]
           /\ \A l \in Loops, op \in Ops, c \in Conns :
                Acts(l, op, c)' <=> l # m /\ Acts(l, op, c)
           /\ \A c \in Conns : InCtor(c)' <=> m # Base /\ InCtor(c)
<1>1. \A l \in Loops, op \in Ops, c \in Conns :
        Acts(l, op, c)' <=> l # m /\ Acts(l, op, c)
    BY DoFacts DEF Acts, TypeOK
<1>2. \A c \in Conns : InCtor(c)' <=> m # Base /\ InCtor(c)
    BY <1>1, BaseIsLoop DEF InCtor, Ops
<1>3. QED
    BY <1>1, <1>2 DEF TypeOK

LEMMA ActBegins ==
    ASSUME TypeOK, NEW m \in Loops, NEW o \in Ops, NEW d \in Conns,
           act' = [act EXCEPT ![m] = Do(o, d)]
    PROVE  /\ act' \in [Loops -> Work \cup {Idle}]
           /\ \A l \in Loops, op \in Ops, c \in Conns :
                Acts(l, op, c)' <=> IF l = m THEN op = o /\ c = d ELSE Acts(l, op, c)
           /\ \A c \in Conns :
                InCtor(c)' <=> IF m = Base THEN o \in CtorOps /\ c = d ELSE InCtor(c)
<1>1. \A l \in Loops, op \in Ops, c \in Conns :
        Acts(l, op, c)' <=> IF l = m THEN op = o /\ c = d ELSE Acts(l, op, c)
    BY DoFacts DEF Acts, TypeOK
<1>2. \A c \in Conns : InCtor(c)' <=> IF m = Base THEN o \in CtorOps /\ c = d ELSE InCtor(c)
    BY <1>1, BaseIsLoop DEF InCtor, Ops
<1>3. Do(o, d) \in Work
    BY DEF Do, Work, Ops, FunctorOps
<1>4. QED
    BY <1>1, <1>2, <1>3 DEF TypeOK

\* A thread does one thing at a time.
LEMMA OneWork ==
    \A l \in Loops, o, p \in Ops, c, d \in Conns :
        Acts(l, o, c) /\ Acts(l, p, d) => o = p /\ c = d
BY DEF Acts, Do

LEMMA NotInCtor ==
    /\ \A o \in Ops \ CtorOps, c, d \in Conns : Acts(Base, o, d) => ~InCtor(c)
    /\ \A c \in Conns : act[Base] = Idle => ~InCtor(c)
    /\ \A o \in CtorOps, c, d \in Conns : Acts(Base, o, d) => (InCtor(c) <=> c = d)
BY DoFacts DEF Acts, InCtor, Ops

\* Nothing happens to the queues.
LEMMA QueueSame ==
    ASSUME UNCHANGED queue
    PROVE  \A l \in Loops, c \in Conns :
            /\ \A op \in FunctorOps : Queued(l, op, c)' <=> Queued(l, op, c)
            /\ OnceAhead(l, c)' <=> OnceAhead(l, c)
BY DEF Queued, OnceAhead

LEMMA ActSame ==
    ASSUME UNCHANGED act
    PROVE  /\ \A l \in Loops, op \in Ops, c \in Conns : Acts(l, op, c)' <=> Acts(l, op, c)
           /\ \A c \in Conns : InCtor(c)' <=> InCtor(c)
BY DEF Acts, InCtor

\* queueInLoop
LEMMA QueueAppend ==
    ASSUME TypeOK, NEW m \in Loops, NEW o \in FunctorOps, NEW d \in Conns,
           queue' = [queue EXCEPT ![m] = Append(@, Do(o, d))]
    PROVE  /\ queue' \in [Loops -> Seq(Functors)]
           /\ \A l \in Loops, op \in FunctorOps, c \in Conns :
                Queued(l, op, c)' <=> Queued(l, op, c) \/ (l = m /\ op = o /\ c = d)
           /\ \A l \in Loops, c \in Conns :
                /\ OnceAhead(l, c)
                /\ l = m /\ o = "established" /\ c = d =>
                        ~Queued(l, "established", c) /\ ~Queued(l, "destroyed", c)
                => OnceAhead(l, c)'
<1> DEFINE f == Do(o, d)
<1>1. f \in Functors
    BY DEF Do, Functors, FunctorOps
<1> HIDE DEF f
<1>2. queue[m] \in Seq(Functors) /\ queue \in [Loops -> Seq(Functors)]
    BY DEF TypeOK
<1>3. /\ Append(queue[m], f) \in Seq(Functors)
      /\ DOMAIN Append(queue[m], f) = DOMAIN queue[m] \cup {Len(queue[m]) + 1}
      /\ \A i \in DOMAIN queue[m] : i <= Len(queue[m]) /\ Append(queue[m], f)[i] = queue[m][i]
      /\ Append(queue[m], f)[Len(queue[m]) + 1] = f
      /\ \A i \in DOMAIN queue[m] : i \in Nat /\ i < Len(queue[m]) + 1
    BY <1>1, <1>2
<1>4. queue' = [queue EXCEPT ![m] = Append(@, f)]
    BY DEF f
<1>5. /\ queue' \in [Loops -> Seq(Functors)]
      /\ queue'[m] = Append(queue[m], f)
      /\ \A l \in Loops : l # m => queue'[l] = queue[l]
    BY <1>2, <1>3, <1>4
<1>6. ASSUME NEW l \in Loops, NEW op \in FunctorOps, NEW c \in Conns
      PROVE  Queued(l, op, c)' <=> Queued(l, op, c) \/ (l = m /\ op = o /\ c = d)
    <2>1. f = Do(op, c) <=> op = o /\ c = d
        BY DoFacts DEF f
    <2>2. CASE l = m
        BY <1>3, <1>5, <2>1, <2>2 DEF Queued
    <2>3. CASE l # m
        BY <1>5, <2>3 DEF Queued
    <2>4. QED
        BY <2>2, <2>3
<1>7. ASSUME NEW l \in Loops, NEW c \in Conns, OnceAhead(l, c),
             l = m /\ o = "established" /\ c = d =>
                ~Queued(l, "established", c) /\ ~Queued(l, "destroyed", c)
      PROVE  OnceAhead(l, c)'
    <2> DEFINE e == Do("established", c)
               x == Do("destroyed", c)
    <2>1. e # x /\ (f = e => o = "established" /\ c = d)
        BY DoFacts DEF f
    <2>2. CASE l = m
        <3>1. f = e => \A i \in DOMAIN queue[m] : queue[m][i] # e /\ queue[m][i] # x
            BY <1>7, <2>1, <2>2 DEF Queued
        <3>2. \A i, j \in DOMAIN queue[m] :
                queue[m][i] = e => (queue[m][j] = x => i < j) /\ (queue[m][j] = e => i = j)
            BY <1>7, <2>2 DEF OnceAhead
        <3> HIDE DEF e, x
        <3>3. \A i, j \in DOMAIN queue'[m] :
                queue'[m][i] = e => (queue'[m][j] = x => i < j) /\ (queue'[m][j] = e => i = j)
            BY <1>3, <1>5, <2>1, <3>1, <3>2
        <3>4. QED
            BY <3>3, <2>2 DEF OnceAhead, e, x
    <2>3. CASE l # m
        BY <1>5, <1>7, <2>3 DEF OnceAhead
    <2>4. QED
        BY <2>2, <2>3
<1>8. QED
    BY <1>5, <1>6, <1>7

\* A functor is taken from the head.
LEMMA QueueTail ==
    ASSUME TypeOK, NEW m \in Loops, queue[m] # <<>>, queue' = [queue EXCEPT ![m] = Tail(@)]
    PROVE  /\ queue' \in [Loops -> Seq(Functors)]
           /\ \E o \in FunctorOps, d \in Conns :
                /\ Head(queue[m]) = Do(o, d)
                /\ Queued(m, o, d)
                /\ \A l \in Loops, op \in FunctorOps, c \in Conns :
                    /\ Queued(l, op, c)' => Queued(l, op, c)
                    /\ Queued(l, op, c) => Queued(l, op, c)' \/ (l = m /\ op = o /\ c = d)
                /\ OnceAhead(m, d) /\ o # "remove" => ~Queued(m, "established", d)'
           /\ \A l \in Loops, c \in Conns : OnceAhead(l, c) => OnceAhead(l, c)'
<1> DEFINE q == queue[m]
           t == Tail(q)
<1>1. q \in Seq(Functors) /\ q # <<>> /\ queue \in [Loops -> Seq(Functors)]
    BY DEF TypeOK
<1> HIDE DEF q
<1>2. /\ Head(q) = q[1] /\ q[1] \in Functors /\ 1 \in DOMAIN q
      /\ t \in Seq(Functors)
      /\ \A i \in DOMAIN t : i \in Nat /\ i + 1 \in DOMAIN q /\ t[i] = q[i + 1]
      /\ \A i \in DOMAIN q : i \in Nat /\ (i # 1 => i - 1 \in DOMAIN t)
    BY <1>1
<1>3. /\ queue' \in [Loops -> Seq(Functors)]
      /\ queue'[m] = t
      /\ \A l \in Loops : l # m => queue'[l] = queue[l]
    BY <1>1, <1>2 DEF q
<1> HIDE DEF t
<1>4. PICK o \in FunctorOps, d \in Conns : q[1] = Do(o, d)
    BY <1>2 DEF Functors, FunctorOps, Do
<1>5. Queued(m, o, d)
    BY <1>2, <1>4 DEF Queued, q
<1>6. ASSUME NEW l \in Loops, NEW op \in FunctorOps, NEW c \in Conns
      PROVE  /\ Queued(l, op, c)' => Queued(l, op, c)
             /\ Queued(l, op, c) => Queued(l, op, c)' \/ (l = m /\ op = o /\ c = d)
    <2>1. CASE l # m
        BY <1>3, <2>1 DEF Queued
    <2>2. CASE l = m
        <3> DEFINE f == Do(op, c)
        <3>1. (Queued(m, op, c) <=> \E i \in DOMAIN q : q[i] = f)
              /\ (Queued(m, op, c)' <=> \E i \in DOMAIN t : t[i] = f)
            BY <1>3 DEF Queued, q
        <3>2. q[1] = f => op = o /\ c = d
            BY <1>4 DEF Do
        <3> HIDE DEF f
        <3>3. \A i \in DOMAIN q : i # 1 => t[i - 1] = q[i]
            BY <1>2
        <3>4. QED
            BY <1>2, <2>2, <3>1, <3>2, <3>3
    <2>3. QED
        BY <2>1, <2>2
<1>7. ASSUME NEW l \in Loops, NEW c \in Conns, OnceAhead(l, c)
      PROVE  OnceAhead(l, c)'
    <2>1. CASE l # m
        BY <1>3, <1>7, <2>1 DEF OnceAhead
    <2>2. CASE l = m
        <3> DEFINE e == Do("established", c)
                   x == Do("destroyed", c)
        <3>1. \A i, j \in DOMAIN q :
                q[i] = e => (q[j] = x => i < j) /\ (q[j] = e => i = j)
            BY <1>7, <2>2 DEF OnceAhead, q
        <3> HIDE DEF e, x
        <3>2. \A i, j \in DOMAIN t :
                t[i] = e => (t[j] = x => i < j) /\ (t[j] = e => i = j)
            BY <1>2, <3>1
        <3>3. QED
            BY <1>3, <2>2, <3>2 DEF OnceAhead, e, x
    <2>3. QED
        BY <2>1, <2>2
<1>8. ASSUME OnceAhead(m, d), o # "remove"
      PROVE  ~Queued(m, "established", d)'
    <2> DEFINE e == Do("established", d)
               x == Do("destroyed", d)
    <2>1. q[1] = e \/ q[1] = x
        BY <1>4, <1>8 DEF FunctorOps
    <2>2. \A i, j \in DOMAIN q :
            q[i] = e => (q[j] = x => i < j) /\ (q[j] = e => i = j)
        BY <1>8 DEF OnceAhead, q
    <2> HIDE DEF e, x
    <2>3. \A i \in DOMAIN t : t[i] # e
        BY <1>2, <2>1, <2>2
    <2>4. QED
        BY <1>3, <2>3 DEF Queued, e
<1>9. QED
    BY <1>2, <1>3, <1>4, <1>5, <1>6, <1>7, <1>8 DEF q
-----------------------------------------------------------------------------
(* The steps keep the invariant. *)

\* What does not touch the pool leaves the connections as they were dealt.
LEMMA DealingKept ==
    ASSUME Dealing, UNCHANGED <<started_, loops_, next_, nextConnId_, loopOf>>
    PROVE  Dealing'
<1>1. \A l : Dealt(l)' = Dealt(l)
    BY DEF Dealt
<1>2. \A k \in Nat : Spread(k) => Spread(k)'
    BY <1>1 DEF Spread
<1>3. QED
    BY <1>2 DEF Dealing

LEMMA StepEstablished ==
    ASSUME IInv, NEW m \in Loops, connectEstablished(m)
    PROVE  IInv'
<1> USE BaseIsLoop, OpNames
<1>1. PICK d \in Conns : d = act[m].conn /\ Acts(m, "established", d)
    BY WorkForm DEF IInv, connectEstablished
<1>2. /\ act' = [act EXCEPT ![m] = Idle]
      /\ state_' = [state_ EXCEPT ![d] = "kConnected"]
      /\ channel' = [channel EXCEPT ![d] = "reading"]
      /\ up' = [up EXCEPT ![d] = @ + 1]
      /\ UNCHANGED <<started_, loops_, next_, nextConnId_, connections_, queue, captured,
                     loopOf, closing, down, early, stopped, terminated>>
    BY <1>1 DEF connectEstablished, poolVars
<1>3. TypeOK /\ Places /\ Serial /\ Establishing /\ Owned /\ EstablishedFirst
      /\ Leaving /\ Paired
    BY DEF IInv
<1>4. \A l \in Loops, op \in Ops, c \in Conns :
        /\ Acts(l, op, c)' <=> l # m /\ Acts(l, op, c)
        /\ Acts(m, op, c) => op = "established" /\ c = d
    BY <1>1, <1>2, <1>3, ActEnds, OneWork
<1>5. \A c \in Conns : (InCtor(c)' <=> InCtor(c)) /\ (Handed(c)' <=> Handed(c))
    <2>1. \A c \in Conns : m = Base => ~InCtor(c)
        BY <1>1, NotInCtor
    <2>2. QED
        BY <1>2, <1>3, <2>1, ActEnds DEF Handed
<1>6. \A l \in Loops, c \in Conns :
            /\ \A op \in FunctorOps : Queued(l, op, c)' <=> Queued(l, op, c)
            /\ OnceAhead(l, c)' <=> OnceAhead(l, c)
    BY <1>2, QueueSame
<1>7. loopOf[d] = m /\ Handed(d) /\ up[d] = 0 /\ ~Queued(m, "established", d) /\ Held(d)
    <2>1. loopOf[d] = m /\ Handed(d)
        BY <1>1, <1>3 DEF Places, PlacesOn
    <2>2. QED
        BY <1>1, <1>3, <2>1
           DEF Establishing, EstablishingOn, Owned, OwnedOn, EstablishedFirst, Held
<1>8. TypeOK'
    BY <1>2, <1>3, ActEnds DEF TypeOK
<1>9. Places'
    BY <1>2, <1>3, <1>4, <1>5, <1>6 DEF Places, PlacesOn
<1>10. Serial'
    BY <1>2, <1>3, <1>4 DEF Serial
<1>11. Establishing'
    <2>1. SUFFICES ASSUME NEW l \in Loops, NEW c \in Conns PROVE EstablishingOn(l, c)'
        BY DEF Establishing
    <2>2. EstablishingOn(l, c)
        BY <1>3 DEF Establishing
    <2>3. QED
        BY <1>2, <1>3, <1>4, <1>5, <1>6, <1>7, <2>2 DEF EstablishingOn, TypeOK
<1>12. Owned'
    <2>1. SUFFICES ASSUME NEW l \in Loops, NEW c \in Conns PROVE OwnedOn(l, c)'
        BY DEF Owned
    <2>2. OwnedOn(l, c)
        BY <1>3 DEF Owned
    <2>3. QED
        BY <1>2, <1>3, <1>4, <1>5, <1>6, <1>7, <2>2 DEF OwnedOn, Held, TypeOK
<1>13. EstablishedFirst'
    BY <1>2, <1>3, <1>7 DEF EstablishedFirst, TypeOK
<1>14. Leaving'
    <2>1. SUFFICES ASSUME NEW l \in Loops, NEW c \in Conns PROVE LeavingOn(l, c)'
        BY DEF Leaving
    <2>2. LeavingOn(l, c)
        BY <1>3 DEF Leaving
    <2>3. QED
        BY <1>2, <1>4, <1>6, <2>2 DEF LeavingOn, serverGone
<1>15. Paired'
    BY <1>2, <1>3, <1>4, <1>7
       DEF Paired, PairedOn, NotUp, IsUp, IsDown, Dropped, NotReported, TypeOK, serverGone
<1>16. Dealing'
    BY <1>2, DealingKept DEF IInv
<1>17. QED
    BY <1>8, <1>9, <1>10, <1>11, <1>12, <1>13, <1>14, <1>15, <1>16 DEF IInv

LEMMA StepDestroyed ==
    ASSUME IInv, NEW m \in Loops, connectDestroyed(m)
    PROVE  IInv'
<1> USE BaseIsLoop, OpNames
<1>1. PICK d \in Conns : d = act[m].conn /\ Acts(m, "destroyed", d)
    BY WorkForm DEF IInv, connectDestroyed
<1>2. /\ act' = [act EXCEPT ![m] = Idle]
      /\ state_' = [c \in Conns |->
            IF c = d /\ state_[c] = "kConnected" THEN "kDisconnected" ELSE state_[c]]
      /\ down' = [c \in Conns |->
            IF c = d /\ state_[c] = "kConnected" THEN down[c] + 1 ELSE down[c]]
      /\ channel' = [c \in Conns |-> IF c = d THEN "removed" ELSE channel[c]]
      /\ UNCHANGED <<started_, loops_, next_, nextConnId_, connections_, queue, captured,
                     loopOf, closing, up, early, stopped, terminated>>
    BY <1>1 DEF connectDestroyed, TakeDown, StillUp, poolVars
<1>3. TypeOK /\ Places /\ Serial /\ Establishing /\ Owned /\ EstablishedFirst
      /\ Leaving /\ Paired
    BY DEF IInv
<1>4. \A l \in Loops, op \in Ops, c \in Conns :
        /\ Acts(l, op, c)' <=> l # m /\ Acts(l, op, c)
        /\ Acts(m, op, c) => op = "destroyed" /\ c = d
    BY <1>1, <1>2, <1>3, ActEnds, OneWork
<1>5. \A c \in Conns : (InCtor(c)' <=> InCtor(c)) /\ (Handed(c)' <=> Handed(c))
    <2>1. \A c \in Conns : m = Base => ~InCtor(c)
        BY <1>1, NotInCtor
    <2>2. QED
        BY <1>2, <1>3, <2>1, ActEnds DEF Handed
<1>6. \A l \in Loops, c \in Conns :
            /\ \A op \in FunctorOps : Queued(l, op, c)' <=> Queued(l, op, c)
            /\ OnceAhead(l, c)' <=> OnceAhead(l, c)
    BY <1>2, QueueSame
<1>7. loopOf[d] = m /\ Handed(d) /\ up[d] = 1 /\ captured[m] = {}
    <2>1. loopOf[d] = m /\ Handed(d)
        BY <1>1, <1>3 DEF Places, PlacesOn
    <2>2. captured[m] = {}
        BY <1>1, <1>3 DEF Serial
    <2>3. QED
        BY <1>1, <1>3, <1>4, <2>1, <2>2 DEF Establishing, EstablishingOn
<1>8. TypeOK'
    BY <1>2, <1>3, ActEnds DEF TypeOK
<1>9. Places'
    BY <1>2, <1>3, <1>4, <1>5, <1>6 DEF Places, PlacesOn
<1>10. Serial'
    BY <1>2, <1>3, <1>4 DEF Serial
<1>11. Establishing'
    <2>1. SUFFICES ASSUME NEW l \in Loops, NEW c \in Conns PROVE EstablishingOn(l, c)'
        BY DEF Establishing
    <2>2. EstablishingOn(l, c)
        BY <1>3 DEF Establishing
    <2>3. QED
        BY <1>2, <1>3, <1>4, <1>5, <1>6, <1>7, <2>2 DEF EstablishingOn, TypeOK
<1>12. Owned'
    <2>1. SUFFICES ASSUME NEW l \in Loops, NEW c \in Conns PROVE OwnedOn(l, c)'
        BY DEF Owned
    <2>2. OwnedOn(l, c) /\ (c \in captured[l] \/ Acts(l, "close", c) => l = loopOf[c])
          /\ (c >= nextConnId_ => c # d)
        BY <1>3, <1>7 DEF Owned, Places, PlacesOn, Handed, TypeOK, Conns
    <2>3. QED
        BY <1>2, <1>3, <1>4, <1>5, <1>6, <1>7, <2>2 DEF OwnedOn, Held, TypeOK
<1>13. EstablishedFirst'
    BY <1>2, <1>3, <1>7 DEF EstablishedFirst, TypeOK
<1>14. Leaving'
    <2>1. SUFFICES ASSUME NEW l \in Loops, NEW c \in Conns PROVE LeavingOn(l, c)'
        BY DEF Leaving
    <2>2. LeavingOn(l, c)
        BY <1>3 DEF Leaving
    <2>3. QED
        BY <1>2, <1>3, <1>4, <1>6, <2>2 DEF LeavingOn, serverGone, TypeOK
<1>15. Paired'
    <2>1. NotReported(d)'
        BY <1>2, <1>3, <1>4, <1>7 DEF NotReported, Places, PlacesOn
    <2>2. down[d] # 0 \/ serverGone
        BY <1>1, <1>3 DEF Leaving, LeavingOn
    <2>3. QED
        BY <1>2, <1>3, <1>4, <1>7, <2>1, <2>2
           DEF Paired, PairedOn, NotUp, IsUp, IsDown, Dropped, NotReported, TypeOK, serverGone
<1>16. Dealing'
    BY <1>2, DealingKept DEF IInv
<1>17. QED
    BY <1>8, <1>9, <1>10, <1>11, <1>12, <1>13, <1>14, <1>15, <1>16 DEF IInv

LEMMA StepRemove ==
    ASSUME IInv, RunRemove
    PROVE  IInv'
<1> USE BaseIsLoop, OpNames
<1>1. PICK d \in Conns : d = act[Base].conn /\ Acts(Base, "remove", d)
    BY WorkForm DEF IInv, RunRemove
<1>2. /\ act' = [act EXCEPT ![Base] = Idle]
      /\ connections_' = connections_ \ {d}
      /\ queue' = [queue EXCEPT ![loopOf[d]] = Append(@, Do("destroyed", d))]
      /\ UNCHANGED <<started_, loops_, next_, nextConnId_, captured, loopOf, state_, channel,
                     closing, up, down, early, stopped, terminated>>
    BY <1>1 DEF RunRemove, removeConnectionInLoop, QueueDestroyed, poolVars, history
<1>3. TypeOK /\ Places /\ Serial /\ Establishing /\ Owned /\ EstablishedFirst
      /\ Leaving /\ Paired /\ loopOf[d] \in Loops
    BY DEF IInv, TypeOK
<1>4. \A l \in Loops, op \in Ops, c \in Conns :
        /\ Acts(l, op, c)' <=> l # Base /\ Acts(l, op, c)
        /\ Acts(Base, op, c) => op = "remove" /\ c = d
    <2>1. "remove" \in Ops
        OBVIOUS
    <2>2. \A op \in Ops, c \in Conns : Acts(Base, op, c) => op = "remove" /\ c = d
        BY <1>1, <2>1, OneWork
    <2>3. QED
        BY <1>2, <1>3, <2>2, ActEnds
<1>5. \A c \in Conns : ~InCtor(c) /\ ~InCtor(c)' /\ (Handed(c)' <=> Handed(c))
    BY <1>1, <1>2, <1>3, ActEnds, NotInCtor DEF Handed
<1>6. /\ queue' \in [Loops -> Seq(Functors)]
      /\ \A l \in Loops, c \in Conns :
            /\ \A op \in FunctorOps :
                 Queued(l, op, c)' <=>
                    Queued(l, op, c) \/ (l = loopOf[d] /\ op = "destroyed" /\ c = d)
            /\ OnceAhead(l, c) => OnceAhead(l, c)'
    BY <1>2, <1>3, QueueAppend, ZenonT(40)
<1>7. Handed(d)
    BY <1>1, <1>3 DEF Places, PlacesOn
<1>8. TypeOK'
    BY <1>2, <1>3, <1>6, ActEnds DEF TypeOK
<1>9. Places'
    BY <1>2, <1>3, <1>4, <1>5, <1>6, <1>7 DEF Places, PlacesOn
<1>10. Serial'
    BY <1>2, <1>3, <1>4 DEF Serial
<1>11. Establishing'
    <2>1. SUFFICES ASSUME NEW l \in Loops, NEW c \in Conns PROVE EstablishingOn(l, c)'
        BY DEF Establishing
    <2>2. EstablishingOn(l, c)
        BY <1>3 DEF Establishing
    <2>3. QED
        BY <1>2, <1>4, <1>5, <1>6, <1>7, <2>2 DEF EstablishingOn
<1>12. Owned'
    <2>1. SUFFICES ASSUME NEW l \in Loops, NEW c \in Conns PROVE OwnedOn(l, c)'
        BY DEF Owned
    <2>2. OwnedOn(l, c)
        BY <1>3 DEF Owned
    <2>3. QED
        BY <1>2, <1>4, <1>5, <1>6, <1>7, <2>2 DEF OwnedOn, Held
<1>13. EstablishedFirst'
    BY <1>2, <1>3 DEF EstablishedFirst
<1>14. Leaving'
    <2>1. SUFFICES ASSUME NEW l \in Loops, NEW c \in Conns PROVE LeavingOn(l, c)'
        BY DEF Leaving
    <2>2. LeavingOn(l, c) /\ LeavingOn(Base, d)
        BY <1>3 DEF Leaving
    <2>3. QED
        BY <1>1, <1>2, <1>4, <1>6, <2>2 DEF LeavingOn, serverGone
<1>15. Paired'
    BY <1>2, <1>3, <1>4
       DEF Paired, PairedOn, NotUp, IsUp, IsDown, Dropped, NotReported, serverGone
<1>16. Dealing'
    BY <1>2, DealingKept DEF IInv
<1>17. QED
    BY <1>8, <1>9, <1>10, <1>11, <1>12, <1>13, <1>14, <1>15, <1>16 DEF IInv

LEMMA StepFunctor ==
    ASSUME IInv, NEW m \in Loops, RunFunctor(m)
    PROVE  IInv'
<1> USE BaseIsLoop, OpNames
<1>1. /\ act[m] = Idle /\ captured[m] = {} /\ queue[m] # <<>>
      /\ act' = [act EXCEPT ![m] = Head(queue[m])]
      /\ queue' = [queue EXCEPT ![m] = Tail(@)]
      /\ UNCHANGED <<started_, loops_, next_, nextConnId_, connections_, captured, loopOf,
                     closing, state_, channel, up, down, early, stopped, terminated>>
    BY DEF RunFunctor, Free, poolVars, history
<1>2. TypeOK /\ Places /\ Serial /\ Establishing /\ Owned /\ EstablishedFirst
      /\ Leaving /\ Paired
    BY DEF IInv
<1>3. PICK o \in FunctorOps, d \in Conns :
        /\ Head(queue[m]) = Do(o, d)
        /\ Queued(m, o, d)
        /\ \A l \in Loops, op \in FunctorOps, c \in Conns :
            /\ Queued(l, op, c)' => Queued(l, op, c)
            /\ Queued(l, op, c) => Queued(l, op, c)' \/ (l = m /\ op = o /\ c = d)
        /\ OnceAhead(m, d) /\ o # "remove" => ~Queued(m, "established", d)'
    BY <1>1, <1>2, QueueTail
<1>4. /\ queue' \in [Loops -> Seq(Functors)]
      /\ \A l \in Loops, c \in Conns : OnceAhead(l, c) => OnceAhead(l, c)'
    BY <1>1, <1>2, QueueTail
<1>5. /\ act' \in [Loops -> Work \cup {Idle}]
      /\ \A l \in Loops, op \in Ops, c \in Conns :
            Acts(l, op, c)' <=> IF l = m THEN op = o /\ c = d ELSE Acts(l, op, c)
      /\ \A op \in Ops, c \in Conns : ~Acts(m, op, c)
      /\ \A c \in Conns :
            InCtor(c)' <=> IF m = Base THEN o \in CtorOps /\ c = d ELSE InCtor(c)
    <2>1. act' = [act EXCEPT ![m] = Do(o, d)]
        BY <1>1, <1>3
    <2>2. \A op \in Ops, c \in Conns : ~Acts(m, op, c)
        BY <1>1, DoFacts DEF Acts
    <2>3. o \in Ops
        BY <1>3
    <2>4. QED
        BY <1>2, <2>1, <2>2, <2>3, ActBegins, ZenonT(40)
<1>6. \A c \in Conns : (InCtor(c)' <=> InCtor(c)) /\ (Handed(c)' <=> Handed(c))
    <2>1. \A c \in Conns : m = Base => ~InCtor(c)
        BY <1>1, NotInCtor
    <2>2. o \notin CtorOps
        BY <1>3
    <2>3. QED
        BY <1>1, <1>5, <2>1, <2>2 DEF Handed
<1>7. Handed(d) /\ (o = "remove" => m = Base) /\ (o # "remove" => loopOf[d] = m)
      /\ (o # "remove" => ~Queued(m, "established", d)')
    <2>1. Handed(d) /\ (o = "remove" => m = Base) /\ (o # "remove" => loopOf[d] = m)
        BY <1>2, <1>3 DEF Places, PlacesOn, FunctorOps
    <2>2. QED
        BY <1>2, <1>3, <2>1 DEF Establishing, EstablishingOn
<1>8. TypeOK'
    BY <1>1, <1>2, <1>4, <1>5 DEF TypeOK
<1>9. Places'
    BY <1>1, <1>2, <1>3, <1>5, <1>6, <1>7 DEF Places, PlacesOn
<1>10. Serial'
    BY <1>1, <1>2, <1>5 DEF Serial
<1>11. Establishing'
    <2>1. SUFFICES ASSUME NEW l \in Loops, NEW c \in Conns PROVE EstablishingOn(l, c)'
        BY DEF Establishing
    <2>2. EstablishingOn(l, c) /\ (Queued(l, "established", c) => loopOf[c] = l)
          /\ EstablishingOn(m, d)
        BY <1>2 DEF Establishing, Places, PlacesOn
    <2>3. QED
        BY <1>1, <1>3, <1>4, <1>5, <1>6, <1>7, <2>2 DEF EstablishingOn
<1>12. Owned'
    <2>1. SUFFICES ASSUME NEW l \in Loops, NEW c \in Conns PROVE OwnedOn(l, c)'
        BY DEF Owned
    <2>2. OwnedOn(l, c)
        BY <1>2 DEF Owned
    <2>3. QED
        BY <1>1, <1>3, <1>5, <1>6, <1>7, <2>2 DEF OwnedOn, Held
<1>13. EstablishedFirst'
    BY <1>1, <1>2 DEF EstablishedFirst
<1>14. Leaving'
    <2>1. SUFFICES ASSUME NEW l \in Loops, NEW c \in Conns PROVE LeavingOn(l, c)'
        BY DEF Leaving
    <2>2. LeavingOn(l, c) /\ LeavingOn(m, d)
        BY <1>2 DEF Leaving
    <2>3. QED
        BY <1>1, <1>3, <1>5, <2>2 DEF LeavingOn, serverGone
<1>15. Paired'
    BY <1>1, <1>2, <1>5
       DEF Paired, PairedOn, NotUp, IsUp, IsDown, Dropped, NotReported, serverGone
<1>16. Dealing'
    BY <1>1, DealingKept DEF IInv
<1>17. QED
    BY <1>8, <1>9, <1>10, <1>11, <1>12, <1>13, <1>14, <1>15, <1>16 DEF IInv

\* start() and the end of an I/O loop touch no connection.
LEMMA StepNoConnection ==
    ASSUME IInv, TypeOK', Dealing',
           stopped \subseteq stopped',
           UNCHANGED <<nextConnId_, connections_, queue, act, captured, loopOf, state_,
                       closing, channel, up, down, early>>
    PROVE  IInv'
<1> USE BaseIsLoop, OpNames
<1>1. Places /\ Serial /\ Establishing /\ Owned /\ EstablishedFirst
      /\ Leaving /\ Paired
    BY DEF IInv
<1>2. /\ \A l \in Loops, op \in Ops, c \in Conns : Acts(l, op, c)' <=> Acts(l, op, c)
      /\ \A c \in Conns : (InCtor(c)' <=> InCtor(c)) /\ (Handed(c)' <=> Handed(c))
    BY ActSame DEF Handed
<1>3. \A l \in Loops, c \in Conns :
            /\ \A op \in FunctorOps : Queued(l, op, c)' <=> Queued(l, op, c)
            /\ OnceAhead(l, c)' <=> OnceAhead(l, c)
    BY QueueSame
<1>4. Places'
    BY <1>1, <1>2, <1>3 DEF Places, PlacesOn
<1>5. Serial'
    BY <1>1, <1>2 DEF Serial
<1>6. Establishing'
    <2>1. SUFFICES ASSUME NEW l \in Loops, NEW c \in Conns PROVE EstablishingOn(l, c)'
        BY DEF Establishing
    <2>2. EstablishingOn(l, c)
        BY <1>1 DEF Establishing
    <2>3. QED
        BY <1>2, <1>3, <2>2 DEF EstablishingOn
<1>7. Owned'
    <2>1. SUFFICES ASSUME NEW l \in Loops, NEW c \in Conns PROVE OwnedOn(l, c)'
        BY DEF Owned
    <2>2. OwnedOn(l, c)
        BY <1>1 DEF Owned
    <2>3. QED
        BY <1>2, <1>3, <2>2 DEF OwnedOn, Held
<1>8. EstablishedFirst'
    BY <1>1 DEF EstablishedFirst
<1>9. serverGone => serverGone'
    BY DEF serverGone
<1>10. Leaving'
    BY <1>1, <1>2, <1>3, <1>9 DEF Leaving, LeavingOn
<1>11. Paired'
    BY <1>1, <1>2, <1>9
       DEF Paired, PairedOn, NotUp, IsUp, IsDown, Dropped, NotReported, serverGone
<1>12. QED
    BY <1>4, <1>5, <1>6, <1>7, <1>8, <1>10, <1>11 DEF IInv

LEMMA StepStart ==
    ASSUME IInv, start
    PROVE  IInv'
<1>1. /\ ~started_ /\ started_' = TRUE
      /\ \E n \in 0..Len(IoLoops) : loops_' = SubSeq(IoLoops, 1, n)
      /\ UNCHANGED <<next_, nextConnId_, connections_, queue, act, captured, loopOf, state_,
                     closing, channel, up, down, early, stopped, terminated>>
    BY DEF start, history
<1>2. TypeOK'
    BY <1>1 DEF IInv, TypeOK
<1>3. nextConnId_ = 1 /\ next_ = 0
    BY <1>1 DEF IInv, Dealing
<1>4. Spread(0)'
    <2>1. SUFFICES ASSUME NEW i \in DOMAIN loops_'
                   PROVE  Cardinality(Dealt(loops_[i])') = 0 /\ ~(i <= next_' % Len(loops_'))
        BY DEF Spread
    <2>2. loops_' \in Seq(Loops)
        BY <1>1, LoopsAssumption DEF Loops
    <2>3. i \in Nat /\ i >= 1 /\ Len(loops_') \in Nat /\ Len(loops_') >= 1
        BY <2>2
    <2>4. ~(i <= next_' % Len(loops_'))
        BY <1>1, <1>3, <2>3
    <2>5. Dealt(loops_[i])' = {}
        BY <1>1, <1>3 DEF Dealt
    <2>6. QED
        BY <2>4, <2>5, FS_EmptySet
<1>5. Dealing'
    BY <1>1, <1>3, <1>4 DEF Dealing
<1>6. QED
    BY <1>1, <1>2, <1>5, StepNoConnection

LEMMA StepEnds ==
    ASSUME IInv, NEW m \in Loops, LoopEnds(m)
    PROVE  IInv'
<1>1. /\ stopped' = stopped \cup {m}
      /\ UNCHANGED <<started_, loops_, next_, nextConnId_, connections_, queue, act, captured,
                     loopOf, closing, state_, channel, up, down, early, terminated>>
    BY DEF LoopEnds, poolVars, history
<1>2. TypeOK' /\ Dealing'
    <2>1. TypeOK'
        BY <1>1 DEF IInv, TypeOK
    <2>2. QED
        BY <1>1, <2>1, DealingKept DEF IInv
<1>3. QED
    BY <1>1, <1>2, StepNoConnection

LEMMA StepPoll ==
    ASSUME IInv, NEW m \in Loops, Poll(m)
    PROVE  IInv'
<1> USE BaseIsLoop, OpNames
<1>1. PICK cs \in SUBSET {c \in Conns : loopOf[c] = m /\ InEpollSet(c)} :
        /\ captured' = [captured EXCEPT ![m] = cs]
        /\ early' = early \cup {c \in cs : channel[c] = "watched0"}
    BY DEF Poll
<1>2. /\ act[m] = Idle /\ captured[m] = {}
      /\ UNCHANGED <<started_, loops_, next_, nextConnId_, connections_, queue, act, loopOf,
                     closing, state_, channel, up, down, stopped, terminated>>
    BY DEF Poll, Free, poolVars, history
<1>3. TypeOK /\ Places /\ Serial /\ Establishing /\ Owned /\ EstablishedFirst
      /\ Leaving /\ Paired
    BY DEF IInv
<1>4. /\ \A l \in Loops, op \in Ops, c \in Conns : Acts(l, op, c)' <=> Acts(l, op, c)
      /\ \A op \in Ops, c \in Conns : ~Acts(m, op, c)
      /\ \A c \in Conns : (InCtor(c)' <=> InCtor(c)) /\ (Handed(c)' <=> Handed(c))
    BY <1>2, ActSame, DoFacts DEF Handed, Acts
<1>5. \A l \in Loops, c \in Conns :
            /\ \A op \in FunctorOps : Queued(l, op, c)' <=> Queued(l, op, c)
            /\ OnceAhead(l, c)' <=> OnceAhead(l, c)
    BY <1>2, QueueSame
<1>6. \A l \in Loops, c \in Conns :
        /\ c \in captured'[l] <=> IF l = m THEN c \in cs ELSE c \in captured[l]
        /\ l # m => captured'[l] = captured[l]
    BY <1>1, <1>3 DEF TypeOK
<1>7. \A c \in cs : /\ c \in Conns /\ loopOf[c] = m /\ Held(c) /\ c < nextConnId_
                    /\ channel[c] \in {"watched0", "reading"}
    <2>1. \A c \in cs : c \in Conns /\ loopOf[c] = m /\ channel[c] \in {"watched0", "reading"}
        BY <1>1 DEF InEpollSet
    <2>2. \A c \in cs : ~(c >= nextConnId_)
        BY <1>3, <2>1 DEF Owned, OwnedOn
    <2>3. QED
        BY <1>3, <2>1, <2>2 DEF Held, TypeOK, Conns
<1>8. TypeOK'
    BY <1>1, <1>2, <1>3, <1>7 DEF TypeOK
<1>9. Places'
    BY <1>2, <1>3, <1>4, <1>5, <1>6, <1>7 DEF Places, PlacesOn
<1>10. Serial'
    BY <1>3, <1>4, <1>6 DEF Serial
<1>11. Establishing'
    <2>1. SUFFICES ASSUME NEW l \in Loops, NEW c \in Conns PROVE EstablishingOn(l, c)'
        BY DEF Establishing
    <2>2. EstablishingOn(l, c)
        BY <1>3 DEF Establishing
    <2>3. QED
        BY <1>2, <1>4, <1>5, <2>2 DEF EstablishingOn
<1>12. Owned'
    <2>1. SUFFICES ASSUME NEW l \in Loops, NEW c \in Conns PROVE OwnedOn(l, c)'
        BY DEF Owned
    <2>2. OwnedOn(l, c) /\ (c >= nextConnId_ => c \notin cs)
        BY <1>3, <1>7 DEF Owned, TypeOK, Conns
    <2>3. QED
        BY <1>1, <1>2, <1>4, <1>5, <1>6, <1>7, <2>2 DEF OwnedOn, Held
<1>13. EstablishedFirst'
    BY <1>2, <1>3 DEF EstablishedFirst
<1>14. Leaving'
    <2>1. SUFFICES ASSUME NEW l \in Loops, NEW c \in Conns PROVE LeavingOn(l, c)'
        BY DEF Leaving
    <2>2. LeavingOn(l, c)
        BY <1>3 DEF Leaving
    <2>3. QED
        BY <1>2, <1>4, <1>5, <2>2 DEF LeavingOn, serverGone
<1>15. Paired'
    <2>1. SUFFICES ASSUME NEW c \in Conns, c \notin early' PROVE PairedOn(c)'
        BY DEF Paired
    <2>2. PairedOn(c)
        BY <1>1, <1>3, <2>1 DEF Paired
    <2>3. CASE c \in cs
        <3>1. channel[c] = "reading"
            BY <1>1, <1>7, <2>1, <2>3
        <3>2. QED
            BY <1>2, <2>2, <3>1 DEF PairedOn, NotUp, IsUp, IsDown, Dropped, serverGone
    <2>4. CASE c \notin cs
        <3>1. NotReported(c) => NotReported(c)'
            BY <1>4, <1>6, <2>4 DEF NotReported
        <3>2. QED
            BY <1>2, <2>2, <3>1 DEF PairedOn, NotUp, IsUp, IsDown, Dropped, serverGone
    <2>5. QED
        BY <2>3, <2>4
<1>16. Dealing'
    BY <1>2, DealingKept DEF IInv
<1>17. QED
    BY <1>8, <1>9, <1>10, <1>11, <1>12, <1>13, <1>14, <1>15, <1>16 DEF IInv

LEMMA StepDispatch ==
    ASSUME IInv, NEW m \in Loops, Dispatch(m)
    PROVE  IInv'
<1> USE BaseIsLoop, OpNames
<1>1. PICK d \in captured[m] :
        /\ captured' = [captured EXCEPT ![m] = @ \ {d}]
        /\ act' = act \/ act' = [act EXCEPT ![m] = Do("close", d)]
    BY DEF Dispatch
<1>2. /\ act[m] = Idle
      /\ UNCHANGED <<started_, loops_, next_, nextConnId_, connections_, queue, loopOf,
                     closing, state_, channel, up, down, early, stopped, terminated>>
    BY DEF Dispatch, Free, poolVars, history
<1>3. TypeOK /\ Places /\ Serial /\ Establishing /\ Owned /\ EstablishedFirst
      /\ Leaving /\ Paired /\ d \in Conns
    BY DEF IInv, TypeOK
<1>4. \A op \in Ops, c \in Conns : ~Acts(m, op, c)
    BY <1>2, DoFacts DEF Acts
<1>5. /\ act' \in [Loops -> Work \cup {Idle}]
      /\ \A l \in Loops, op \in Ops, c \in Conns :
            /\ Acts(l, op, c)' => Acts(l, op, c) \/ (l = m /\ op = "close" /\ c = d)
            /\ Acts(l, op, c) => Acts(l, op, c)'
      /\ \A c \in Conns : (InCtor(c)' <=> InCtor(c)) /\ (Handed(c)' <=> Handed(c))
    <2>1. \A c \in Conns : m = Base => ~InCtor(c)
        BY <1>2, NotInCtor
    <2>2. CASE act' = act
        BY <1>2, <1>3, <2>2, ActSame DEF TypeOK, Handed
    <2>3. CASE act' = [act EXCEPT ![m] = Do("close", d)]
        <3>1. /\ act' \in [Loops -> Work \cup {Idle}]
              /\ \A l \in Loops, op \in Ops, c \in Conns : Acts(l, op, c)' <=>
                    IF l = m THEN op = "close" /\ c = d ELSE Acts(l, op, c)
              /\ \A c \in Conns :
                    InCtor(c)' <=> IF m = Base THEN "close" \in CtorOps /\ c = d ELSE InCtor(c)
            BY <1>3, <2>3, ActBegins
        <3>2. QED
            BY <1>2, <1>4, <2>1, <3>1 DEF Handed
    <2>4. QED
        BY <1>1, <2>2, <2>3
<1>6. \A l \in Loops, c \in Conns :
            /\ \A op \in FunctorOps : Queued(l, op, c)' <=> Queued(l, op, c)
            /\ OnceAhead(l, c)' <=> OnceAhead(l, c)
    BY <1>2, QueueSame
<1>7. \A l \in Loops, c \in Conns :
        /\ c \in captured'[l] => c \in captured[l]
        /\ captured'[l] # {} => captured[l] # {}
        /\ d \notin captured'[m]
    BY <1>1, <1>3 DEF TypeOK
<1>8. TypeOK'
    BY <1>1, <1>2, <1>3, <1>5 DEF TypeOK
<1>9. Places'
    BY <1>1, <1>2, <1>3, <1>5, <1>6, <1>7 DEF Places, PlacesOn
<1>10. Serial'
    BY <1>3, <1>5, <1>7 DEF Serial
<1>11. Establishing'
    <2>1. SUFFICES ASSUME NEW l \in Loops, NEW c \in Conns PROVE EstablishingOn(l, c)'
        BY DEF Establishing
    <2>2. EstablishingOn(l, c)
        BY <1>3 DEF Establishing
    <2>3. QED
        BY <1>2, <1>5, <1>6, <2>2 DEF EstablishingOn
<1>12. Owned'
    <2>1. SUFFICES ASSUME NEW l \in Loops, NEW c \in Conns PROVE OwnedOn(l, c)'
        BY DEF Owned
    <2>2. OwnedOn(l, c)
        BY <1>3 DEF Owned
    <2>3. QED
        BY <1>1, <1>2, <1>5, <1>6, <1>7, <2>2 DEF OwnedOn, Held
<1>13. EstablishedFirst'
    BY <1>2, <1>3 DEF EstablishedFirst
<1>14. Leaving'
    <2>1. SUFFICES ASSUME NEW l \in Loops, NEW c \in Conns PROVE LeavingOn(l, c)'
        BY DEF Leaving
    <2>2. LeavingOn(l, c)
        BY <1>3 DEF Leaving
    <2>3. QED
        BY <1>2, <1>5, <1>6, <2>2 DEF LeavingOn, serverGone
<1>15. Paired'
    <2>1. ASSUME NEW c \in Conns, NotReported(c)
          PROVE  NotReported(c)'
        BY <1>1, <1>5, <1>7, <2>1 DEF NotReported
    <2>2. QED
        BY <1>2, <1>3, <2>1 DEF Paired, PairedOn, NotUp, IsUp, IsDown, Dropped, serverGone
<1>16. Dealing'
    BY <1>2, DealingKept DEF IInv
<1>17. QED
    BY <1>8, <1>9, <1>10, <1>11, <1>12, <1>13, <1>14, <1>15, <1>16 DEF IInv

LEMMA StepConstructor ==
    ASSUME IInv, Constructor
    PROVE  IInv'
<1> USE BaseIsLoop, OpNames
<1>1. PICK o \in CtorOps, p \in CtorOps \ {"ctor1"}, ch \in {"watched0", "deleted"} :
        /\ act[Base].op = o
        /\ act' = [act EXCEPT ![Base].op = p]
        /\ channel' = [channel EXCEPT ![act[Base].conn] = ch]
    <2>1. PICK k \in {<<"ctor1", "ctor2", "watched0">>, <<"ctor2", "ctor3", "deleted">>,
                      <<"ctor3", "ctor4", "watched0">>, <<"ctor4", "constructed", "deleted">>} :
            /\ act[Base].op = k[1]
            /\ act' = [act EXCEPT ![Base].op = k[2]]
            /\ channel' = [channel EXCEPT ![act[Base].conn] = k[3]]
        BY DEF Constructor
    <2>2. /\ k[1] \in CtorOps /\ k[2] \in CtorOps \ {"ctor1"}
          /\ k[3] \in {"watched0", "deleted"}
        BY DEF CtorOps
    <2>3. QED
        BY <2>1, <2>2
<1>2. UNCHANGED <<started_, loops_, next_, nextConnId_, connections_, queue, captured, loopOf,
                  closing, state_, up, down, early, stopped, terminated>>
    BY DEF Constructor, poolVars, history
<1>3. TypeOK /\ Places /\ Serial /\ Establishing /\ Owned /\ EstablishedFirst
      /\ Leaving /\ Paired
    BY DEF IInv
<1>4. PICK d \in Conns : d = act[Base].conn /\ Acts(Base, o, d)
    BY <1>1, <1>3, WorkForm
<1>5. act' = [act EXCEPT ![Base] = Do(p, d)]
    <2>1. [act[Base] EXCEPT !.op = p] = Do(p, d)
        BY <1>4 DEF Acts, Do
    <2>2. QED
        BY <1>1, <1>3, <2>1 DEF TypeOK
<1>6. /\ act' \in [Loops -> Work \cup {Idle}]
      /\ \A l \in Loops, op \in Ops, c \in Conns :
            Acts(l, op, c)' <=> IF l = Base THEN op = p /\ c = d ELSE Acts(l, op, c)
      /\ \A c \in Conns : InCtor(c)' <=> p \in CtorOps /\ c = d
    <2>1. p \in Ops
        BY <1>1
    <2>2. QED
        BY <1>3, <1>5, <2>1, ActBegins, ZenonT(40)
<1>7. /\ \A op \in Ops, c \in Conns : Acts(Base, op, c) => op = o /\ c = d
      /\ \A c \in Conns : InCtor(c) <=> c = d
    BY <1>1, <1>4, NotInCtor, OneWork
<1>8. \A c \in Conns : (InCtor(c)' <=> InCtor(c)) /\ (Handed(c)' <=> Handed(c))
    BY <1>1, <1>2, <1>6, <1>7 DEF Handed
<1>9. \A l \in Loops, c \in Conns :
            /\ \A op \in FunctorOps : Queued(l, op, c)' <=> Queued(l, op, c)
            /\ OnceAhead(l, c)' <=> OnceAhead(l, c)
    BY <1>2, QueueSame
<1>10. d < nextConnId_ /\ up[d] = 0 /\ captured[Base] = {}
    <2>1. d < nextConnId_
        BY <1>3, <1>4 DEF Places, PlacesOn
    <2>2. captured[Base] = {}
        BY <1>3, <1>4 DEF Serial
    <2>3. ~Handed(d)
        BY <1>7 DEF Handed
    <2>4. QED
        BY <1>3, <2>1, <2>2, <2>3 DEF Establishing, EstablishingOn
<1>11. channel' = [channel EXCEPT ![d] = ch]
    BY <1>1, <1>4
<1>12. TypeOK'
    BY <1>2, <1>3, <1>6, <1>11 DEF TypeOK
<1>13. Places'
    <2>1. \A op \in FunctorOps, c \in Conns : ~Acts(Base, op, c) /\ ~Acts(Base, "close", c)
        BY <1>1, <1>7
    <2>2. QED
        BY <1>1, <1>2, <1>3, <1>6, <1>8, <1>9, <1>10, <2>1 DEF Places, PlacesOn
<1>14. Serial'
    BY <1>2, <1>3, <1>6, <1>10 DEF Serial
<1>15. Establishing'
    <2>1. SUFFICES ASSUME NEW l \in Loops, NEW c \in Conns PROVE EstablishingOn(l, c)'
        BY DEF Establishing
    <2>2. EstablishingOn(l, c)
        BY <1>3 DEF Establishing
    <2>3. p # "established" /\ p # "destroyed" /\ o # "established"
        BY <1>1
    <2>4. QED
        BY <1>2, <1>6, <1>7, <1>8, <1>9, <2>2, <2>3 DEF EstablishingOn
<1>16. Owned'
    <2>1. SUFFICES ASSUME NEW l \in Loops, NEW c \in Conns PROVE OwnedOn(l, c)'
        BY DEF Owned
    <2>2. OwnedOn(l, c) /\ (c >= nextConnId_ => c # d)
        BY <1>3, <1>10 DEF Owned, TypeOK, Conns
    <2>3. p # "close" /\ p # "destroyed" /\ o # "destroyed"
        BY <1>1
    <2>4. QED
        BY <1>2, <1>3, <1>6, <1>7, <1>8, <1>9, <1>10, <1>11, <2>2, <2>3
           DEF OwnedOn, Held, TypeOK
<1>17. EstablishedFirst'
    BY <1>2, <1>3, <1>11 DEF EstablishedFirst, TypeOK
<1>18. Leaving'
    <2>1. SUFFICES ASSUME NEW l \in Loops, NEW c \in Conns PROVE LeavingOn(l, c)'
        BY DEF Leaving
    <2>2. LeavingOn(l, c)
        BY <1>3 DEF Leaving
    <2>3. QED
        BY <1>2, <1>6, <1>9, <2>2 DEF LeavingOn, serverGone
<1>19. Paired'
    <2>1. p # "close"
        BY <1>1
    <2>2. \A c \in Conns : NotReported(c) => NotReported(c)'
        BY <1>2, <1>6, <2>1 DEF NotReported
    <2>3. QED
        BY <1>2, <1>3, <1>10, <1>11, <2>2
           DEF Paired, PairedOn, NotUp, IsUp, IsDown, Dropped, TypeOK, serverGone
<1>20. Dealing'
    BY <1>2, DealingKept DEF IInv
<1>21. QED
    BY <1>12, <1>13, <1>14, <1>15, <1>16, <1>17, <1>18, <1>19, <1>20 DEF IInv

LEMMA StepNewConnection ==
    ASSUME IInv, newConnection
    PROVE  IInv'
<1> USE BaseIsLoop, OpNames
<1>1. PICK d \in Conns : d = act[Base].conn /\ Acts(Base, "constructed", d)
    BY WorkForm DEF IInv, newConnection
<1>2. /\ connections_' = connections_ \cup {d}
      /\ \/ /\ loopOf[d] = Base
            /\ act' = [act EXCEPT ![Base] = Do("established", d)]
            /\ UNCHANGED queue
         \/ /\ loopOf[d] # Base
            /\ queue' = [queue EXCEPT ![loopOf[d]] = Append(@, Do("established", d))]
            /\ act' = [act EXCEPT ![Base] = Idle]
      /\ UNCHANGED <<started_, loops_, next_, nextConnId_, captured, loopOf, state_, channel,
                     closing, up, down, early, stopped, terminated>>
    BY <1>1 DEF newConnection, poolVars, history
<1>3. TypeOK /\ Places /\ Serial /\ Establishing /\ Owned /\ EstablishedFirst
      /\ Leaving /\ Paired /\ loopOf[d] \in Loops
    BY DEF IInv, TypeOK
<1>4. /\ \A op \in Ops, c \in Conns : Acts(Base, op, c) => op = "constructed" /\ c = d
      /\ \A c \in Conns : InCtor(c) <=> c = d
    <2>1. "constructed" \in Ops
        OBVIOUS
    <2>2. QED
        BY <1>1, <2>1, NotInCtor, OneWork
<1>5. ~Handed(d) /\ d < nextConnId_ /\ captured[Base] = {} /\ up[d] = 0 /\ channel[d] # "none"
      /\ \A l \in Loops, op \in FunctorOps : ~Queued(l, op, d) /\ ~Acts(l, op, d)
    <2>1. ~Handed(d)
        BY <1>4 DEF Handed
    <2>2. d < nextConnId_ /\ channel[d] # "none"
        BY <1>1, <1>3 DEF Places, PlacesOn, Owned, OwnedOn
    <2>3. captured[Base] = {}
        BY <1>1, <1>3 DEF Serial
    <2>4. up[d] = 0
        BY <1>3, <2>1 DEF Establishing, EstablishingOn
    <2>5. \A l \in Loops, op \in FunctorOps : ~Queued(l, op, d) /\ ~Acts(l, op, d)
        BY <1>3, <2>1 DEF Places, PlacesOn, FunctorOps
    <2>6. QED
        BY <2>1, <2>2, <2>3, <2>4, <2>5
<1>6. /\ act' \in [Loops -> Work \cup {Idle}]
      /\ \A l \in Loops, op \in Ops, c \in Conns :
            Acts(l, op, c)' <=> IF l = Base
                                THEN loopOf[d] = Base /\ op = "established" /\ c = d
                                ELSE Acts(l, op, c)
      /\ \A c \in Conns : ~InCtor(c)'
    <2>1. CASE loopOf[d] = Base
        <3>1. PICK o \in Ops : o = "established" /\ act' = [act EXCEPT ![Base] = Do(o, d)]
            BY <1>2, <2>1
        <3>2. TypeOK /\ o \in Ops /\ act' = [act EXCEPT ![Base] = Do(o, d)]
            BY <1>3, <3>1
        <3>3. act' \in [Loops -> Work \cup {Idle}]
            BY <3>2, ActBegins
        <3>4. \A l \in Loops, op \in Ops, c \in Conns :
                Acts(l, op, c)' <=> IF l = Base THEN op = o /\ c = d ELSE Acts(l, op, c)
            BY <3>2, ActBegins, ZenonT(40)
        <3>5. \A c \in Conns : InCtor(c)' <=> o \in CtorOps /\ c = d
            BY <3>2, ActBegins
        <3>6. QED
            BY <2>1, <3>1, <3>3, <3>4, <3>5
    <2>2. CASE loopOf[d] # Base
        BY <1>2, <1>3, <2>2, ActEnds
    <2>3. QED
        BY <2>1, <2>2
<1>7. \A c \in Conns : Handed(c)' <=> c < nextConnId_
    BY <1>2, <1>6 DEF Handed
<1>8. /\ queue' \in [Loops -> Seq(Functors)]
      /\ \A l \in Loops, c \in Conns :
            /\ \A op \in FunctorOps :
                 Queued(l, op, c)' <=>
                    \/ Queued(l, op, c)
                    \/ loopOf[d] # Base /\ l = loopOf[d] /\ op = "established" /\ c = d
            /\ OnceAhead(l, c) => OnceAhead(l, c)'
    <2>1. CASE loopOf[d] = Base
        BY <1>2, <1>3, <2>1, QueueSame DEF TypeOK
    <2>2. CASE loopOf[d] # Base
        BY <1>2, <1>3, <1>5, <2>2, QueueAppend
    <2>3. QED
        BY <2>1, <2>2
<1>9. TypeOK'
    BY <1>2, <1>3, <1>6, <1>8 DEF TypeOK
<1>10. Places'
    <2>1. SUFFICES ASSUME NEW l \in Loops, NEW c \in Conns PROVE PlacesOn(l, c)'
        BY DEF Places
    <2>2. \A op \in CtorOps : ~Acts(l, op, c)'
        BY <1>3, <1>6 DEF Places, PlacesOn
    <2>3. Handed(c) => c < nextConnId_
        BY DEF Handed
    <2>4. QED
        BY <1>2, <1>3, <1>5, <1>6, <1>7, <1>8, <2>2, <2>3 DEF Places, PlacesOn
<1>11. Serial'
    BY <1>2, <1>3, <1>5, <1>6 DEF Serial
<1>12. Establishing'
    <2>1. SUFFICES ASSUME NEW l \in Loops, NEW c \in Conns PROVE EstablishingOn(l, c)'
        BY DEF Establishing
    <2>2. EstablishingOn(l, c)
        BY <1>3 DEF Establishing
    <2>3. c # d => (Handed(c)' <=> Handed(c))
        BY <1>4, <1>7 DEF Handed
    <2>4. QED
        BY <1>2, <1>4, <1>5, <1>6, <1>7, <1>8, <2>2, <2>3 DEF EstablishingOn
<1>13. Owned'
    <2>1. SUFFICES ASSUME NEW l \in Loops, NEW c \in Conns PROVE OwnedOn(l, c)'
        BY DEF Owned
    <2>2. OwnedOn(l, c)
        BY <1>3 DEF Owned
    <2>3. c # d => (Handed(c)' <=> Handed(c))
        BY <1>4, <1>7 DEF Handed
    <2>4. \A op \in CtorOps : ~Acts(Base, op, c)'
        BY <1>6
    <2>5. QED
        BY <1>2, <1>4, <1>5, <1>6, <1>8, <2>2, <2>3, <2>4 DEF OwnedOn, Held
<1>14. EstablishedFirst'
    BY <1>2, <1>3 DEF EstablishedFirst
<1>15. Leaving'
    <2>1. SUFFICES ASSUME NEW l \in Loops, NEW c \in Conns PROVE LeavingOn(l, c)'
        BY DEF Leaving
    <2>2. LeavingOn(l, c)
        BY <1>3 DEF Leaving
    <2>3. QED
        BY <1>2, <1>6, <1>8, <2>2 DEF LeavingOn, serverGone
<1>16. Paired'
    BY <1>2, <1>3, <1>6
       DEF Paired, PairedOn, NotUp, IsUp, IsDown, Dropped, NotReported, serverGone
<1>17. Dealing'
    BY <1>2, DealingKept DEF IInv
<1>18. QED
    BY <1>9, <1>10, <1>11, <1>12, <1>13, <1>14, <1>15, <1>16, <1>17 DEF IInv

LEMMA StepClose ==
    ASSUME IInv, NEW m \in Loops, handleClose(m)
    PROVE  IInv'
<1> USE BaseIsLoop, OpNames
<1>1. PICK d \in Conns : d = act[m].conn /\ Acts(m, "close", d)
    BY WorkForm DEF IInv, handleClose
<1>2. TypeOK /\ Places /\ Serial /\ Establishing /\ Owned /\ EstablishedFirst
      /\ Leaving /\ Paired
    BY DEF IInv
<1>3. act[Base] \in {Do(op, d) : op \in CtorOps} <=> InCtor(d)
    BY DEF InCtor, Acts
<1>4. loopOf[d] = m /\ d < nextConnId_ /\ Held(d) /\ (Handed(d) <=> ~InCtor(d))
    BY <1>1, <1>2 DEF Places, PlacesOn, Owned, OwnedOn, Handed
<1>5. PICK ch \in {"deleted", "watched0"} :
      /\ channel' = [channel EXCEPT ![d] = ch]
      /\ channel[d] = "reading" => ch = "deleted"
      /\ act' = [act EXCEPT ![m] = Idle]
      /\ state_' = [state_ EXCEPT ![d] = "kDisconnected"]
      /\ terminated' \in BOOLEAN
      /\ UNCHANGED <<started_, loops_, next_, nextConnId_, captured, loopOf, closing, up, early,
                     stopped>>
    BY <1>1 DEF handleClose, poolVars, InEpollSet
<1>6. \/ /\ InCtor(d)
         /\ UNCHANGED <<down, connections_, queue>>
      \/ /\ ~InCtor(d)
         /\ down' = [down EXCEPT ![d] = @ + 1]
         /\ \/ /\ m = Base
               /\ connections_' = connections_ \ {d}
               /\ queue' = [queue EXCEPT ![m] = Append(@, Do("destroyed", d))]
            \/ /\ m # Base
               /\ UNCHANGED connections_
               /\ queue' = [queue EXCEPT ![Base] = Append(@, Do("remove", d))]
    BY <1>1, <1>3, <1>4 DEF handleClose, removeConnectionInLoop, QueueDestroyed
<1>7. \A l \in Loops, op \in Ops, c \in Conns :
        /\ Acts(l, op, c)' <=> l # m /\ Acts(l, op, c)
        /\ Acts(m, op, c) => op = "close" /\ c = d
    <2>1. \A op \in Ops, c \in Conns : Acts(m, op, c) => op = "close" /\ c = d
        BY <1>1, OneWork
    <2>2. QED
        BY <1>2, <1>5, <2>1, ActEnds
<1>8. \A c \in Conns : (InCtor(c)' <=> InCtor(c)) /\ (Handed(c)' <=> Handed(c))
    <2>1. \A c \in Conns : m = Base => ~InCtor(c)
        BY <1>1, NotInCtor
    <2>2. QED
        BY <1>2, <1>5, <2>1, ActEnds DEF Handed
<1>9. /\ queue' \in [Loops -> Seq(Functors)]
      /\ \A l \in Loops, c \in Conns :
            /\ \A op \in FunctorOps :
                /\ Queued(l, op, c) => Queued(l, op, c)'
                /\ Queued(l, op, c)' =>
                    \/ Queued(l, op, c)
                    \/ /\ c = d /\ ~InCtor(d) /\ l = Base
                       /\ op = IF m = Base THEN "destroyed" ELSE "remove"
            /\ OnceAhead(l, c) => OnceAhead(l, c)'
      /\ m = Base => Queued(Base, "destroyed", d)'
    <2>1. CASE InCtor(d)
        <3>1. m # Base
            BY <1>1, <2>1, NotInCtor
        <3>2. QED
            BY <1>2, <1>6, <2>1, <3>1, QueueSame DEF TypeOK
    <2>2. CASE ~InCtor(d) /\ m = Base
        BY <1>2, <1>6, <2>2, QueueAppend
    <2>3. CASE ~InCtor(d) /\ m # Base
        BY <1>2, <1>6, <2>3, QueueAppend
    <2>4. QED
        BY <2>1, <2>2, <2>3
<1>10. /\ down' \in [Conns -> Nat] /\ connections_' \subseteq connections_
       /\ \A c \in Conns : c # d => down'[c] = down[c] /\ (c \in connections_' <=> c \in connections_)
       /\ m # Base => connections_' = connections_
       /\ ~InCtor(d) => down'[d] = down[d] + 1
    <2>1. down \in [Conns -> Nat]
        BY <1>2 DEF TypeOK
    <2>2. CASE InCtor(d)
        BY <1>6, <2>1, <2>2
    <2>3. CASE ~InCtor(d)
        <3>1. down' = [down EXCEPT ![d] = @ + 1]
            BY <1>6, <2>3
        <3>2. connections_' = IF m = Base THEN connections_ \ {d} ELSE connections_
            BY <1>6, <2>3
        <3>3. QED
            BY <2>1, <2>3, <3>1, <3>2
    <2>4. QED
        BY <2>2, <2>3
<1>11. TypeOK'
    BY <1>2, <1>5, <1>9, <1>10, ActEnds DEF TypeOK
<1>12. Places'
    BY <1>2, <1>4, <1>5, <1>7, <1>8, <1>9, <1>10 DEF Places, PlacesOn
<1>13. Serial'
    BY <1>2, <1>5, <1>7 DEF Serial
<1>14. Establishing'
    <2>1. SUFFICES ASSUME NEW l \in Loops, NEW c \in Conns PROVE EstablishingOn(l, c)'
        BY DEF Establishing
    <2>2. EstablishingOn(l, c)
        BY <1>2 DEF Establishing
    <2>3. Queued(l, "established", c)' <=> Queued(l, "established", c)
        BY <1>9
    <2>4. QED
        BY <1>5, <1>7, <1>8, <1>9, <2>2, <2>3 DEF EstablishingOn
<1>15. Owned'
    <2>1. SUFFICES ASSUME NEW l \in Loops, NEW c \in Conns PROVE OwnedOn(l, c)'
        BY DEF Owned
    <2>2. OwnedOn(l, c) /\ (c >= nextConnId_ => c # d)
        BY <1>2, <1>4 DEF Owned, TypeOK, Conns
    <2>3. CASE c # d
        BY <1>2, <1>5, <1>7, <1>8, <1>9, <1>10, <2>2, <2>3, SMTT(30) DEF OwnedOn, Held, TypeOK
    <2>4. CASE c = d
        BY <1>2, <1>4, <1>5, <1>7, <1>8, <1>9, <1>10, <2>2, <2>4 DEF OwnedOn, Held, TypeOK
    <2>5. QED
        BY <2>3, <2>4
<1>16. EstablishedFirst'
    BY <1>2, <1>5 DEF EstablishedFirst, TypeOK
<1>17. Leaving'
    <2>1. SUFFICES ASSUME NEW l \in Loops, NEW c \in Conns PROVE LeavingOn(l, c)'
        BY DEF Leaving
    <2>2. LeavingOn(l, c)
        BY <1>2 DEF Leaving
    <2>3. (down[c] # 0 => down'[c] # 0) /\ (c = d /\ ~InCtor(d) => down'[c] # 0)
        <3>1. \A n \in Nat : n + 1 # 0
            OBVIOUS
        <3>2. down[d] \in Nat
            BY <1>2 DEF TypeOK
        <3>3. ~InCtor(d) => down'[d] # 0
            BY <1>10, <3>1, <3>2
        <3>4. InCtor(d) => down' = down
            BY <1>6
        <3>5. QED
            BY <1>10, <3>3, <3>4
    <2>4. (serverGone' <=> serverGone)
        BY <1>5 DEF serverGone
    <2>5. QED
        BY <1>7, <1>9, <2>2, <2>3, <2>4 DEF LeavingOn
<1>18. Paired'
    <2>1. SUFFICES ASSUME NEW c \in Conns, c \notin early' PROVE PairedOn(c)'
        BY DEF Paired
    <2>2. PairedOn(c)
        BY <1>2, <1>5, <2>1 DEF Paired
    <2>3. CASE c # d
        <3>1. NotReported(c) => NotReported(c)'
            BY <1>5, <1>7 DEF NotReported
        <3>2. QED
            BY <1>2, <1>5, <1>10, <2>2, <2>3, <3>1
               DEF PairedOn, NotUp, IsUp, IsDown, Dropped, TypeOK, serverGone
    <2>4. CASE c = d
        <3>1. IsUp(d)
            BY <1>1, <2>2, <2>4 DEF PairedOn, NotUp, IsDown, Dropped, NotReported
        <3>2. ~InCtor(d)
            BY <1>2, <3>1 DEF IsUp, Establishing, EstablishingOn, Handed
        <3>3. NotReported(d)'
            BY <1>1, <1>2, <1>4, <1>5, <1>7 DEF NotReported, Places, PlacesOn, Serial
        <3>4. QED
            BY <1>2, <1>5, <1>10, <2>4, <3>1, <3>2, <3>3 DEF PairedOn, IsUp, IsDown, TypeOK
    <2>5. QED
        BY <2>3, <2>4
<1>19. Dealing'
    BY <1>5, DealingKept DEF IInv
<1>20. QED
    BY <1>11, <1>12, <1>13, <1>14, <1>15, <1>16, <1>17, <1>18, <1>19 DEF IInv
-----------------------------------------------------------------------------
(* getNextLoop deals the connections out in turn. *)

LEMMA ModNext ==
    ASSUME NEW a \in Nat, NEW n \in Nat, n > 0
    PROVE  /\ a % n \in 0..(n - 1)
           /\ (a + 1) % n = IF a % n = n - 1 THEN 0 ELSE (a % n) + 1
<1> DEFINE q == a \div n
           r == a % n
           q1 == (a + 1) \div n
           r1 == (a + 1) % n
<1>1. /\ q \in Int /\ r \in 0..(n - 1) /\ a = n * q + r
      /\ q1 \in Int /\ r1 \in 0..(n - 1) /\ a + 1 = n * q1 + r1
    OBVIOUS
<1> HIDE DEF q, r, q1, r1
<1> DEFINE x == q1 - q
<1>2. x \in Int /\ n * x = r + 1 - r1
    <2>1. n * (q1 - q) = n * q1 - n * q
        BY <1>1
    <2>2. QED
        BY <1>1, <2>1
<1> HIDE DEF x
<1>3. ~(x <= -1)
    <2>1. x <= -1 => n * x <= n * (-1)
        BY <1>2
    <2>2. QED
        BY <1>1, <1>2, <2>1
<1>4. ~(x >= 2)
    <2>1. x >= 2 => n * x >= n * 2
        BY <1>2
    <2>2. QED
        BY <1>1, <1>2, <2>1
<1>5. x = 0 \/ x = 1
    BY <1>2, <1>3, <1>4
<1>6. r1 = r + 1 \/ r1 = r + 1 - n
    BY <1>1, <1>2, <1>5
<1>7. r1 = IF r = n - 1 THEN 0 ELSE r + 1
    BY <1>1, <1>6
<1>8. QED
    BY <1>1, <1>7 DEF r, r1

\* The loops of the pool are different loops.
LEMMA PoolLoops ==
    ASSUME Dealing
    PROVE  /\ loops_ \in Seq(Loops)
           /\ \A i, j \in DOMAIN loops_ : loops_[i] = loops_[j] => i = j
<1>1. PICK n \in 0..Len(IoLoops) : loops_ = SubSeq(IoLoops, 1, n)
    BY DEF Dealing
<1>2. IoLoops \in Seq(Loops)
    BY LoopsAssumption DEF Loops
<1>3. /\ loops_ \in Seq(Loops)
      /\ DOMAIN loops_ = 1..n /\ 1..n \subseteq DOMAIN IoLoops
      /\ \A i \in 1..n : loops_[i] = IoLoops[i]
    BY <1>1, <1>2
<1>4. QED
    BY <1>3, LoopsAssumption

LEMMA NextLoop ==
    ASSUME TypeOK, Dealing
    PROVE  /\ getNextLoop \in Loops
           /\ loops_ # <<>> =>
                /\ Len(loops_) \in Nat /\ Len(loops_) > 0 /\ DOMAIN loops_ = 1..Len(loops_)
                /\ next_ \in Nat /\ next_ % Len(loops_) \in 0..(Len(loops_) - 1)
                /\ getNextLoop = loops_[(next_ % Len(loops_)) + 1]
<1>1. CASE loops_ = <<>>
    BY <1>1, BaseIsLoop DEF getNextLoop
<1>2. CASE loops_ # <<>>
    <2>1. /\ Len(loops_) \in Nat /\ Len(loops_) > 0 /\ DOMAIN loops_ = 1..Len(loops_)
          /\ \A i \in DOMAIN loops_ : loops_[i] \in Loops
        BY <1>2, PoolLoops
    <2>2. next_ \in Nat
        BY LoopsAssumption DEF TypeOK
    <2>3. next_ % Len(loops_) \in 0..(Len(loops_) - 1)
        BY <2>1, <2>2, ModNext
    <2>4. getNextLoop = loops_[(next_ % Len(loops_)) + 1]
        BY <1>2 DEF getNextLoop
    <2>5. (next_ % Len(loops_)) + 1 \in DOMAIN loops_
        BY <2>1, <2>3
    <2>6. QED
        BY <2>1, <2>2, <2>3, <2>4, <2>5
<1>3. QED
    BY <1>1, <1>2

LEMMA DealsOne ==
    ASSUME TypeOK, Dealing, nextConnId_ \in Conns, started_,
           loopOf' = [loopOf EXCEPT ![nextConnId_] = getNextLoop],
           next_' = IF loops_ = <<>> THEN next_ ELSE next_ + 1,
           nextConnId_' = nextConnId_ + 1,
           UNCHANGED <<started_, loops_>>
    PROVE  Dealing'
<1> DEFINE d == nextConnId_
           n == Len(loops_)
           p == next_ % n
<1>1. d \in Nat /\ d >= 1 /\ d <= MaxConns /\ MaxConns \in Nat /\ loopOf \in [Conns -> Loops]
    BY LoopsAssumption DEF Conns, TypeOK
<1>2. SUFFICES \E k \in Nat : Spread(k)'
    <2>1. next_ = IF loops_ = <<>> THEN 0 ELSE nextConnId_ - 1
        BY DEF Dealing
    <2>2. CASE loops_ = <<>>
        BY <2>1, <2>2 DEF Dealing
    <2>3. CASE loops_ # <<>>
        <3>1. next_' = nextConnId_' - 1
            BY <1>1, <2>1, <2>3
        <3>2. QED
            BY <2>3, <3>1 DEF Dealing
    <2>4. QED
        BY <2>2, <2>3
<1>3. CASE loops_ = <<>>
    <2>1. Spread(0)'
        BY <1>3 DEF Spread
    <2>2. QED
        BY <2>1
<1>4. CASE loops_ # <<>>
    <2>1. /\ n \in Nat /\ n > 0 /\ DOMAIN loops_ = 1..n
          /\ next_ \in Nat /\ p \in 0..(n - 1) /\ getNextLoop = loops_[p + 1]
        BY <1>4, NextLoop
    <2>2. next_' % Len(loops_') = IF p = n - 1 THEN 0 ELSE p + 1
        BY <1>4, <2>1, ModNext
    <2>3. PICK k \in Nat : Spread(k)
        BY DEF Dealing
    <2>4. ASSUME NEW l \in Loops
          PROVE  /\ IsFiniteSet(Dealt(l)) /\ d \notin Dealt(l)
                 /\ Dealt(l)' = IF l = getNextLoop THEN Dealt(l) \cup {d} ELSE Dealt(l)
        <3>1. IsFiniteSet(1..(d - 1))
            BY <1>1, FS_Interval
        <3>2. IsFiniteSet(Dealt(l))
            BY <3>1, FS_Subset DEF Dealt
        <3>3. \A c \in 1..(d - 1) : c \in Conns /\ c # d
            BY <1>1 DEF Conns
        <3>4. 1..(nextConnId_' - 1) = (1..(d - 1)) \cup {d}
            BY <1>1
        <3>5. loopOf'[d] = getNextLoop /\ \A c \in 1..(d - 1) : loopOf'[c] = loopOf[c]
            BY <1>1, <3>3
        <3> HIDE DEF d
        <3>6. Dealt(l)' = {c \in (1..(d - 1)) \cup {d} : loopOf'[c] = l}
            BY <3>4 DEF Dealt
        <3>7. Dealt(l) = {c \in 1..(d - 1) : loopOf[c] = l}
            BY DEF Dealt, d
        <3>8. QED
            BY <3>2, <3>3, <3>5, <3>6, <3>7
    <2>5. ASSUME NEW i \in 1..n
          PROVE  Cardinality(Dealt(loops_[i])') =
                    IF i = p + 1 THEN Cardinality(Dealt(loops_[i])) + 1
                    ELSE Cardinality(Dealt(loops_[i]))
        <3>1. loops_[i] \in Loops /\ (loops_[i] = getNextLoop <=> i = p + 1)
            BY <2>1, PoolLoops
        <3>2. CASE i = p + 1
            <4>1. Dealt(loops_[i])' = Dealt(loops_[i]) \cup {d}
                BY <2>4, <3>1, <3>2
            <4>2. QED
                BY <2>4, <3>1, <3>2, <4>1, FS_AddElement
        <3>3. CASE i # p + 1
            BY <2>4, <3>1, <3>3
        <3>4. QED
            BY <3>2, <3>3
    <2>6. ASSUME NEW i \in 1..n
          PROVE  Cardinality(Dealt(loops_[i])) = IF i <= p THEN k + 1 ELSE k
        BY <2>1, <2>3 DEF Spread
    <2>7. ASSUME NEW i \in 1..n
          PROVE  Cardinality(Dealt(loops_[i])') = IF i <= p + 1 THEN k + 1 ELSE k
        BY <2>1, <2>5, <2>6
    <2>8. CASE p = n - 1
        <3>1. Spread(k + 1)'
            BY <2>1, <2>2, <2>7, <2>8 DEF Spread
        <3>2. QED
            BY <3>1
    <2>9. CASE p # n - 1
        <3>1. Spread(k)'
            BY <2>1, <2>2, <2>7, <2>9 DEF Spread
        <3>2. QED
            BY <3>1
    <2>10. QED
        BY <2>8, <2>9
<1>5. QED
    BY <1>3, <1>4

LEMMA StepAccept ==
    ASSUME IInv, handleRead
    PROVE  IInv'
<1> USE BaseIsLoop, OpNames
<1>0. PICK d \in Conns : d = nextConnId_
    BY DEF handleRead
<1>1. /\ act[Base] = Idle /\ started_ /\ captured[Base] = {}
      /\ loopOf' = [loopOf EXCEPT ![d] = getNextLoop]
      /\ act' = [act EXCEPT ![Base] = Do("ctor1", d)]
      /\ nextConnId_' = d + 1
      /\ UNCHANGED <<connections_, queue, captured, state_, channel, up, down, early,
                     closing, started_, loops_, stopped, terminated>>
    BY <1>0 DEF handleRead, Free, history
<1>2. TypeOK /\ Places /\ Serial /\ Establishing /\ Owned /\ EstablishedFirst
      /\ Leaving /\ Paired /\ Dealing
    BY DEF IInv
<1>3. Dealing'
    <2>1. next_' = IF loops_ = <<>> THEN next_ ELSE next_ + 1
        BY DEF handleRead, Advance
    <2>2. QED
        BY <1>0, <1>1, <1>2, <2>1, DealsOne
<1>4. getNextLoop \in Loops
    BY <1>2, NextLoop
<1>5. /\ d \in Nat /\ \A c \in Conns : c \in Nat
      /\ loopOf' \in [Conns -> Loops] /\ \A c \in Conns : c # d => loopOf'[c] = loopOf[c]
    BY <1>0, <1>1, <1>2, <1>4, LoopsAssumption DEF TypeOK, Conns
<1>6. TypeOK'
    <2>1. act' \in [Loops -> Work \cup {Idle}]
        BY <1>1, <1>2, ActBegins
    <2>2. d + 1 \in 1..(MaxConns + 1) /\ MaxConns \in Nat
        BY <1>0, LoopsAssumption DEF Conns
    <2>3. next_' \in 0..MaxConns
        <3>1. next_' = IF loops_' = <<>> THEN 0 ELSE nextConnId_' - 1
            BY <1>3 DEF Dealing
        <3>2. QED
            BY <1>1, <1>5, <2>2, <3>1
    <2>4. QED
        BY <1>1, <1>2, <1>5, <2>1, <2>2, <2>3 DEF TypeOK
<1>7. /\ \A op \in Ops, c \in Conns : ~Acts(Base, op, c)
      /\ \A c \in Conns : ~InCtor(c)
    BY <1>1, DoFacts, NotInCtor DEF Acts
<1>8. /\ \A l \in Loops, op \in Ops, c \in Conns :
            Acts(l, op, c)' <=> IF l = Base THEN op = "ctor1" /\ c = d ELSE Acts(l, op, c)
      /\ \A c \in Conns : InCtor(c)' <=> c = d
    <2>1. PICK o \in Ops : o = "ctor1" /\ act' = [act EXCEPT ![Base] = Do(o, d)]
        BY <1>1
    <2>2. TypeOK /\ o \in Ops /\ d \in Conns /\ act' = [act EXCEPT ![Base] = Do(o, d)]
        BY <1>1, <1>2, <2>1
    <2>3. \A l \in Loops, op \in Ops, c \in Conns :
            Acts(l, op, c)' <=> IF l = Base THEN op = o /\ c = d ELSE Acts(l, op, c)
        BY <2>2, ActBegins, ZenonT(40)
    <2>4. \A c \in Conns : InCtor(c)' <=> o \in CtorOps /\ c = d
        BY <2>2, ActBegins
    <2>5. QED
        BY <2>1, <2>3, <2>4
<1>9. \A l \in Loops, c \in Conns :
            /\ \A op \in FunctorOps : Queued(l, op, c)' <=> Queued(l, op, c)
            /\ OnceAhead(l, c)' <=> OnceAhead(l, c)
    BY <1>1, QueueSame
<1>10. \A c \in Conns :
        /\ c < nextConnId_' <=> (c < d \/ c = d)
        /\ Handed(c) <=> c < d
        /\ Handed(c)' <=> c < d
    BY <1>0, <1>1, <1>5, <1>7, <1>8 DEF Handed
<1>11. /\ ~Handed(d) /\ d \notin connections_ /\ up[d] = 0 /\ channel[d] = "none" /\ d \notin early
       /\ \A l \in Loops : d \notin captured[l] /\ ~Acts(l, "close", d)
       /\ \A l \in Loops, op \in FunctorOps : ~Queued(l, op, d) /\ ~Acts(l, op, d)
    <2>1. ~Handed(d) /\ ~(d < nextConnId_) /\ d >= nextConnId_
        BY <1>0, <1>5, <1>10
    <2>2. d \notin connections_ /\ \A l \in Loops : d \notin captured[l] /\ ~Acts(l, "close", d)
        BY <1>1, <1>2, <2>1 DEF Places, PlacesOn
    <2>3. \A l \in Loops, op \in FunctorOps : ~Queued(l, op, d) /\ ~Acts(l, op, d)
        BY <1>1, <1>2, <2>1 DEF Places, PlacesOn, FunctorOps
    <2>4. up[d] = 0 /\ channel[d] = "none" /\ d \notin early
        BY <1>1, <1>2, <2>1 DEF Establishing, EstablishingOn, Owned, OwnedOn
    <2>5. QED
        BY <2>1, <2>2, <2>3, <2>4
<1>12. ASSUME NEW l \in Loops, NEW c \in Conns
       PROVE  /\ \A op \in FunctorOps : Acts(l, op, c)' <=> Acts(l, op, c)
              /\ Acts(l, "close", c)' <=> Acts(l, "close", c)
              /\ c # d => /\ loopOf'[c] = loopOf[c] /\ ~InCtor(c)'
                          /\ Handed(c)' <=> Handed(c)
                          /\ c < nextConnId_' <=> c < nextConnId_
                          /\ \A op \in CtorOps : ~Acts(l, op, c)'
    <2>1. "ctor1" \notin FunctorOps /\ "ctor1" # "close"
        BY DEF FunctorOps
    <2>2. \A op \in CtorOps : Acts(l, op, c) => l = Base
        BY <1>2 DEF Places, PlacesOn
    <2>3. /\ \A op \in FunctorOps : Acts(l, op, c)' <=> Acts(l, op, c)
          /\ Acts(l, "close", c)' <=> Acts(l, "close", c)
        BY <1>7, <1>8, <2>1
    <2>4. c # d => \A op \in CtorOps : ~Acts(l, op, c)'
        BY <1>7, <1>8, <2>2
    <2>5. QED
        BY <1>0, <1>5, <1>8, <1>10, <2>3, <2>4
<1>13. Places'
    <2>1. SUFFICES ASSUME NEW l \in Loops, NEW c \in Conns PROVE PlacesOn(l, c)'
        BY DEF Places
    <2>2. PlacesOn(l, c)
        BY <1>2 DEF Places
    <2>3. CASE c = d
        BY <1>1, <1>8, <1>9, <1>10, <1>11, <1>12, <2>2, <2>3 DEF PlacesOn
    <2>4. CASE c # d
        BY <1>1, <1>9, <1>12, <2>2, <2>4 DEF PlacesOn
    <2>5. QED
        BY <2>3, <2>4
<1>14. Serial'
    BY <1>1, <1>2, <1>8 DEF Serial
<1>15. Establishing'
    <2>1. SUFFICES ASSUME NEW l \in Loops, NEW c \in Conns PROVE EstablishingOn(l, c)'
        BY DEF Establishing
    <2>2. EstablishingOn(l, c)
        BY <1>2 DEF Establishing
    <2>3. CASE c # d
        BY <1>1, <1>9, <1>12, <2>2, <2>3 DEF EstablishingOn
    <2>4. CASE c = d
        <3>1. OnceAhead(l, d)
            BY <1>11 DEF OnceAhead, Queued
        <3>2. ~Handed(d)'
            BY <1>5, <1>10, <2>4
        <3>3. QED
            BY <1>1, <1>9, <1>11, <1>12, <2>2, <2>4, <3>1, <3>2 DEF EstablishingOn
    <2>5. QED
        BY <2>3, <2>4
<1>16. Owned'
    <2>1. SUFFICES ASSUME NEW l \in Loops, NEW c \in Conns PROVE OwnedOn(l, c)'
        BY DEF Owned
    <2>2. OwnedOn(l, c)
        BY <1>2 DEF Owned
    <2>3. c >= nextConnId_' => c >= nextConnId_
        <3>1. c \in Nat /\ d \in Nat /\ nextConnId_' = d + 1 /\ nextConnId_ = d
            BY <1>0, <1>1, <1>5
        <3>2. QED
            BY <3>1
    <2>4. CASE c # d
        BY <1>1, <1>7, <1>9, <1>12, <2>2, <2>3, <2>4 DEF OwnedOn, Held
    <2>5. CASE c = d
        BY <1>1, <1>5, <1>8, <1>9, <1>10, <1>11, <1>12, <2>2, <2>3, <2>5 DEF OwnedOn, Held
    <2>6. QED
        BY <2>4, <2>5
<1>17. EstablishedFirst'
    BY <1>1, <1>2 DEF EstablishedFirst
<1>18. Leaving'
    <2>1. SUFFICES ASSUME NEW l \in Loops, NEW c \in Conns PROVE LeavingOn(l, c)'
        BY DEF Leaving
    <2>2. LeavingOn(l, c)
        BY <1>2 DEF Leaving
    <2>3. QED
        BY <1>1, <1>9, <1>12, <2>2 DEF LeavingOn, serverGone
<1>19. Paired'
    BY <1>1, <1>2, <1>8
       DEF Paired, PairedOn, NotUp, IsUp, IsDown, Dropped, NotReported, serverGone
<1>20. QED
    BY <1>3, <1>6, <1>13, <1>14, <1>15, <1>16, <1>17, <1>18, <1>19 DEF IInv
-----------------------------------------------------------------------------
(* ~TcpServer *)

\* connectDestroyed is queued for all connections of the I/O loops.
LEMMA QueueAll ==
    ASSUME TypeOK, Destructor
    PROVE  /\ queue' \in [Loops -> Seq(Functors)]
           /\ \A l \in Loops, op \in FunctorOps, c \in Conns :
                Queued(l, op, c)' <=>
                    \/ Queued(l, op, c)
                    \/ l # Base /\ op = "destroyed" /\ c \in connections_ /\ loopOf[c] = l
           /\ \A l \in Loops, c \in Conns : OnceAhead(l, c) => OnceAhead(l, c)'
<1> DEFINE left(l) == {c \in connections_ : loopOf[c] = l}
           more(o) == [i \in DOMAIN o |-> Do("destroyed", o[i])]
<1>1. PICK order :
        /\ \A l \in Loops : order[l] \in MapOrders(left(l))
        /\ queue' = [l \in Loops |->
            IF l = Base THEN queue[l] ELSE queue[l] \o more(order[l])]
    BY DEF Destructor
<1> HIDE DEF left, more
<1>2. queue \in [Loops -> Seq(Functors)] /\ connections_ \subseteq Conns
    BY DEF TypeOK
<1>3. ASSUME NEW l \in Loops
      PROVE  /\ more(order[l]) \in Seq(Functors)
             /\ \A i \in DOMAIN more(order[l]) :
                    \E c \in left(l) : more(order[l])[i] = Do("destroyed", c)
             /\ \A c \in left(l) :
                    \E i \in DOMAIN more(order[l]) : more(order[l])[i] = Do("destroyed", c)
    <2> DEFINE o == order[l]
    <2>1. IsFiniteSet(left(l))
        <3>1. IsFiniteSet(Conns)
            BY FS_Interval, LoopsAssumption DEF Conns
        <3>2. left(l) \subseteq Conns
            BY <1>2 DEF left
        <3>3. QED
            BY <3>1, <3>2, FS_Subset
    <2>2. Cardinality(left(l)) \in Nat
        BY <2>1, FS_CardinalityType
    <2>3. o \in [1..Cardinality(left(l)) -> left(l)] /\ Range(o) = left(l)
        BY <1>1 DEF MapOrders
    <2>4. \A c \in left(l) : c \in Conns /\ Do("destroyed", c) \in Functors
        BY <1>2 DEF left, Do, Functors
    <2> HIDE DEF o
    <2>5. /\ DOMAIN more(o) = 1..Cardinality(left(l))
          /\ \A i \in 1..Cardinality(left(l)) : more(o)[i] = Do("destroyed", o[i]) /\ o[i] \in left(l)
        BY <2>3 DEF more
    <2>6. more(o) \in Seq(Functors)
        <3>1. more(o) \in [1..Cardinality(left(l)) -> Functors]
            BY <2>3, <2>4 DEF more
        <3>2. QED
            BY <2>2, <3>1
    <2>7. \A c \in left(l) : \E i \in 1..Cardinality(left(l)) : o[i] = c
        BY <2>3 DEF Range
    <2>8. QED
        BY <2>5, <2>6, <2>7 DEF o
<1>4. ASSUME NEW l \in Loops, l # Base
      PROVE  /\ queue'[l] \in Seq(Functors)
             /\ \A i \in DOMAIN queue'[l] : i \in Nat
             /\ \A i \in DOMAIN queue[l] :
                    i \in DOMAIN queue'[l] /\ queue'[l][i] = queue[l][i] /\ i <= Len(queue[l])
             /\ \A i \in DOMAIN queue'[l] : i \notin DOMAIN queue[l] =>
                    i > Len(queue[l]) /\ \E c \in left(l) : queue'[l][i] = Do("destroyed", c)
             /\ \A c \in left(l) : \E i \in DOMAIN queue'[l] : queue'[l][i] = Do("destroyed", c)
    <2> DEFINE a == queue[l]
               b == more(order[l])
    <2>1. a \in Seq(Functors) /\ b \in Seq(Functors) /\ queue'[l] = a \o b
        BY <1>1, <1>2, <1>3, <1>4
    <2>2. /\ \A i \in DOMAIN b : \E c \in left(l) : b[i] = Do("destroyed", c)
          /\ \A c \in left(l) : \E i \in DOMAIN b : b[i] = Do("destroyed", c)
        BY <1>3
    <2> HIDE DEF a, b
    <2>3. /\ a \o b \in Seq(Functors) /\ Len(a) \in Nat /\ Len(b) \in Nat
          /\ DOMAIN (a \o b) = 1..(Len(a) + Len(b)) /\ DOMAIN a = 1..Len(a) /\ DOMAIN b = 1..Len(b)
          /\ \A i \in 1..(Len(a) + Len(b)) :
                (a \o b)[i] = IF i <= Len(a) THEN a[i] ELSE b[i - Len(a)]
        BY <2>1
    <2>4. \A i \in DOMAIN b : i + Len(a) \in DOMAIN (a \o b) /\ (a \o b)[i + Len(a)] = b[i]
        BY <2>3
    <2>5. \A i \in DOMAIN (a \o b) : i \notin DOMAIN a =>
            i > Len(a) /\ i - Len(a) \in DOMAIN b /\ (a \o b)[i] = b[i - Len(a)]
        BY <2>3
    <2>6. \A i \in DOMAIN a : i \in DOMAIN (a \o b) /\ (a \o b)[i] = a[i] /\ i <= Len(a)
        BY <2>3
    <2>7. \A i \in DOMAIN (a \o b) : i \in Nat
        BY <2>3
    <2> DEFINE ab == a \o b
    <2> HIDE DEF ab
    <2>8. /\ ab \in Seq(Functors) /\ \A i \in DOMAIN ab : i \in Nat
          /\ \A i \in DOMAIN a : i \in DOMAIN ab /\ ab[i] = a[i] /\ i <= Len(a)
          /\ \A i \in DOMAIN ab : i \notin DOMAIN a =>
                i > Len(a) /\ i - Len(a) \in DOMAIN b /\ ab[i] = b[i - Len(a)]
          /\ \A i \in DOMAIN b : i + Len(a) \in DOMAIN ab /\ ab[i + Len(a)] = b[i]
        BY <2>3, <2>4, <2>5, <2>6, <2>7 DEF ab
    <2>9. \A i \in DOMAIN ab : i \notin DOMAIN a =>
            i > Len(a) /\ \E c \in left(l) : ab[i] = Do("destroyed", c)
        BY <2>2, <2>8
    <2>10. \A c \in left(l) : \E i \in DOMAIN ab : ab[i] = Do("destroyed", c)
        BY <2>2, <2>8
    <2>11. queue'[l] = ab /\ queue[l] = a
        BY <2>1 DEF ab, a
    <2>12. QED
        BY <2>8, <2>9, <2>10, <2>11
<1>5. queue' \in [Loops -> Seq(Functors)] /\ (Base \in Loops => queue'[Base] = queue[Base])
    BY <1>1, <1>2, <1>3
<1>6. ASSUME NEW l \in Loops, NEW op \in FunctorOps, NEW c \in Conns
      PROVE  Queued(l, op, c)' <=>
                \/ Queued(l, op, c)
                \/ l # Base /\ op = "destroyed" /\ c \in connections_ /\ loopOf[c] = l
    <2>1. c \in left(l) <=> c \in connections_ /\ loopOf[c] = l
        BY DEF left
    <2>2. CASE l = Base
        BY <1>5, <2>2 DEF Queued
    <2>3. CASE l # Base
        <3>1. Queued(l, op, c) => Queued(l, op, c)'
            BY <1>4, <2>3 DEF Queued
        <3>2. op = "destroyed" /\ c \in left(l) => Queued(l, op, c)'
            BY <1>4, <2>3 DEF Queued
        <3>3. ASSUME NEW i \in DOMAIN queue'[l], queue'[l][i] = Do(op, c), i \notin DOMAIN queue[l]
              PROVE  op = "destroyed" /\ c \in left(l)
            <4>1. PICK e \in left(l) : queue'[l][i] = Do("destroyed", e)
                BY <1>4, <2>3, <3>3
            <4>2. Do(op, c) = Do("destroyed", e)
                BY <3>3, <4>1
            <4>3. QED
                BY <4>2, DoFacts
        <3>4. Queued(l, op, c)' => Queued(l, op, c) \/ (op = "destroyed" /\ c \in left(l))
            BY <1>4, <2>3, <3>3 DEF Queued
        <3>5. QED
            BY <2>1, <2>3, <3>1, <3>2, <3>4
    <2>4. QED
        BY <2>2, <2>3
<1>7. ASSUME NEW l \in Loops, NEW c \in Conns, OnceAhead(l, c)
      PROVE  OnceAhead(l, c)'
    <2>1. CASE l = Base
        BY <1>5, <1>7, <2>1 DEF OnceAhead
    <2>2. CASE l # Base
        <3> DEFINE e == Do("established", c)
                   x == Do("destroyed", c)
                   q == queue[l]
                   r == queue'[l]
        <3>1. \A i, j \in DOMAIN q : q[i] = e => (q[j] = x => i < j) /\ (q[j] = e => i = j)
            BY <1>7 DEF OnceAhead
        <3>2. \A i \in DOMAIN r : i \notin DOMAIN q => r[i] # e /\ i > Len(q)
            BY <1>4, <2>2, DoFacts
        <3>3. \A i \in DOMAIN q : r[i] = q[i] /\ i <= Len(q)
            BY <1>4, <2>2
        <3>4. q \in Seq(Functors) /\ \A i \in DOMAIN r : i \in Nat
            BY <1>2, <1>4, <2>2
        <3>5. Len(q) \in Nat
            BY <3>4
        <3> HIDE DEF e, x, q, r
        <3>6. \A i, j \in DOMAIN r : r[i] = e => (r[j] = x => i < j) /\ (r[j] = e => i = j)
            BY <3>1, <3>2, <3>3, <3>4, <3>5
        <3>7. QED
            BY <3>6 DEF OnceAhead, e, x, r
    <2>3. QED
        BY <2>1, <2>2
<1>8. QED
    BY <1>5, <1>6, <1>7

LEMMA StepDestructor ==
    ASSUME IInv, Destructor
    PROVE  IInv'
<1> USE BaseIsLoop, OpNames
<1> DEFINE gone(c) == c \in connections_ /\ loopOf[c] = Base
<1>1. TypeOK /\ Places /\ Serial /\ Establishing /\ Owned /\ EstablishedFirst
      /\ Leaving /\ Paired
    BY DEF IInv
<1>2. /\ act[Base] = Idle /\ captured[Base] = {}
      /\ stopped' = stopped \cup {Base}
      /\ connections_' = {}
      /\ state_' = [c \in Conns |->
            IF gone(c) /\ state_[c] = "kConnected" THEN "kDisconnected" ELSE state_[c]]
      /\ down' = [c \in Conns |->
            IF gone(c) /\ state_[c] = "kConnected" THEN down[c] + 1 ELSE down[c]]
      /\ channel' = [c \in Conns |-> IF gone(c) THEN "removed" ELSE channel[c]]
      /\ UNCHANGED <<started_, loops_, next_, nextConnId_, act, captured, loopOf, up, early,
                     closing, terminated>>
    BY DEF Destructor, Free, TakeDown, StillUp, poolVars
<1>3. /\ queue' \in [Loops -> Seq(Functors)]
      /\ \A l \in Loops, c \in Conns :
            /\ \A op \in FunctorOps : Queued(l, op, c)' <=>
                    \/ Queued(l, op, c)
                    \/ l # Base /\ op = "destroyed" /\ c \in connections_ /\ loopOf[c] = l
            /\ OnceAhead(l, c) => OnceAhead(l, c)'
    BY <1>1, QueueAll
<1>4. /\ \A l \in Loops, op \in Ops, c \in Conns : Acts(l, op, c)' <=> Acts(l, op, c)
      /\ \A op \in Ops, c \in Conns : ~Acts(Base, op, c)
      /\ \A c \in Conns : ~InCtor(c) /\ ~InCtor(c)' /\ (Handed(c)' <=> Handed(c))
    BY <1>2, ActSame, NotInCtor, DoFacts DEF Handed, Acts
<1>5. ASSUME NEW c \in Conns, gone(c)
      PROVE  /\ up[c] = 1 /\ Handed(c) /\ ~(c >= nextConnId_) /\ NotReported(c)
    <2>1. Handed(c) /\ ~Queued(Base, "established", c)
        BY <1>1, <1>5 DEF Places, PlacesOn
    <2>2. up[c] = 1
        BY <1>1, <1>4, <1>5, <2>1 DEF Establishing, EstablishingOn
    <2>3. NotReported(c)
        BY <1>1, <1>2, <1>4, <1>5 DEF NotReported, Places, PlacesOn
    <2>4. c \in Nat /\ nextConnId_ \in Nat
        BY <1>1, LoopsAssumption DEF TypeOK, Conns
    <2>5. QED
        BY <2>1, <2>2, <2>3, <2>4 DEF Handed
<1>6. \A c \in Conns : NotReported(c)' <=> NotReported(c)
    BY <1>2, <1>4 DEF NotReported
<1>7. TypeOK'
    BY <1>1, <1>2, <1>3 DEF TypeOK
<1>8. Places'
    <2>1. SUFFICES ASSUME NEW l \in Loops, NEW c \in Conns PROVE PlacesOn(l, c)'
        BY DEF Places
    <2>2. PlacesOn(l, c)
        BY <1>1 DEF Places
    <2>3. QED
        BY <1>2, <1>3, <1>4, <2>2 DEF PlacesOn
<1>9. Serial'
    BY <1>1, <1>2, <1>4 DEF Serial
<1>10. Establishing'
    <2>1. SUFFICES ASSUME NEW l \in Loops, NEW c \in Conns PROVE EstablishingOn(l, c)'
        BY DEF Establishing
    <2>2. EstablishingOn(l, c)
        BY <1>1 DEF Establishing
    <2>3. QED
        BY <1>2, <1>3, <1>4, <2>2 DEF EstablishingOn
<1>11. Owned'
    <2>1. SUFFICES ASSUME NEW l \in Loops, NEW c \in Conns PROVE OwnedOn(l, c)'
        BY DEF Owned
    <2>2. OwnedOn(l, c)
        BY <1>1 DEF Owned
    <2>3. CASE gone(c)
        <3>1. c \notin captured[l] /\ ~Acts(l, "close", c)
            BY <1>5, <2>3 DEF NotReported
        <3>2. QED
            BY <1>2, <1>4, <1>5, <2>2, <2>3, <3>1 DEF OwnedOn, Held
    <2>4. CASE ~gone(c)
        BY <1>2, <1>3, <1>4, <2>2, <2>4 DEF OwnedOn, Held
    <2>5. QED
        BY <2>3, <2>4
<1>12. EstablishedFirst'
    BY <1>1, <1>2, <1>5 DEF EstablishedFirst
<1>13. Leaving'
    BY <1>2, BaseIsLoop DEF Leaving, LeavingOn, serverGone
<1>14. Paired'
    <2>1. SUFFICES ASSUME NEW c \in Conns, c \notin early' PROVE PairedOn(c)'
        BY DEF Paired
    <2>2. PairedOn(c)
        BY <1>1, <1>2, <2>1 DEF Paired
    <2>3. CASE gone(c)
        BY <1>2, <1>5, <1>6, <2>2, <2>3 DEF PairedOn, NotUp, IsUp, IsDown, Dropped, serverGone
    <2>4. CASE ~gone(c)
        BY <1>2, <1>6, <2>2, <2>4 DEF PairedOn, NotUp, IsUp, IsDown, Dropped, serverGone
    <2>5. QED
        BY <2>3, <2>4
<1>15. Dealing'
    BY <1>2, DealingKept DEF IInv
<1>16. QED
    BY <1>7, <1>8, <1>9, <1>10, <1>11, <1>12, <1>13, <1>14, <1>15 DEF IInv
-----------------------------------------------------------------------------
(* shutdown() on the application's threads *)

\* Only a connection that has come up is shut down.
LEMMA StepShutdown ==
    ASSUME IInv, NEW d \in Conns, shutdown(d) \/ SetDisconnecting(d)
    PROVE  IInv'
<1> USE BaseIsLoop, OpNames
<1>1. /\ closing' \subseteq closing \cup {d}
      /\ state_[d] = "kConnected" \/ d \in closing
      /\ state_' = state_ \/ (d \in closing /\ state_' = [state_ EXCEPT ![d] = "kDisconnecting"])
      /\ UNCHANGED <<started_, loops_, next_, nextConnId_, connections_, queue, act, captured,
                     loopOf, channel, up, down, early, stopped, terminated>>
    BY DEF shutdown, SetDisconnecting, poolVars, history
<1>2. TypeOK /\ Places /\ Serial /\ Establishing /\ Owned /\ EstablishedFirst
      /\ Leaving /\ Paired
    BY DEF IInv
<1>3. /\ \A l \in Loops, op \in Ops, c \in Conns : Acts(l, op, c)' <=> Acts(l, op, c)
      /\ \A c \in Conns : (InCtor(c)' <=> InCtor(c)) /\ (Handed(c)' <=> Handed(c))
    BY <1>1, ActSame DEF Handed
<1>4. \A l \in Loops, c \in Conns :
            /\ \A op \in FunctorOps : Queued(l, op, c)' <=> Queued(l, op, c)
            /\ OnceAhead(l, c)' <=> OnceAhead(l, c)
    BY <1>1, QueueSame
<1>5. /\ state_' \in [Conns -> {"kConnecting", "kConnected", "kDisconnecting", "kDisconnected"}]
      /\ \A c \in Conns : state_'[c] = state_[c] \/ (c = d /\ state_'[c] = "kDisconnecting")
    BY <1>1, <1>2 DEF TypeOK
<1>6. TypeOK'
    BY <1>1, <1>2, <1>5 DEF TypeOK
<1>7. Places' /\ Serial'
    BY <1>1, <1>2, <1>3, <1>4 DEF Places, PlacesOn, Serial
<1>8. Establishing'
    <2>1. SUFFICES ASSUME NEW l \in Loops, NEW c \in Conns PROVE EstablishingOn(l, c)'
        BY DEF Establishing
    <2>2. EstablishingOn(l, c)
        BY <1>2 DEF Establishing
    <2>3. QED
        BY <1>1, <1>3, <1>4, <2>2 DEF EstablishingOn
<1>9. Owned'
    <2>1. SUFFICES ASSUME NEW l \in Loops, NEW c \in Conns PROVE OwnedOn(l, c)'
        BY DEF Owned
    <2>2. OwnedOn(l, c)
        BY <1>2 DEF Owned
    <2>3. QED
        BY <1>1, <1>3, <1>4, <2>2 DEF OwnedOn, Held
<1>10. EstablishedFirst' /\ Leaving'
    BY <1>1, <1>2, <1>3, <1>4 DEF EstablishedFirst, Leaving, LeavingOn, serverGone
<1>11. Paired'
    <2>1. SUFFICES ASSUME NEW c \in Conns, c \notin early' PROVE PairedOn(c)'
        BY DEF Paired
    <2>2. PairedOn(c)
        BY <1>1, <1>2, <2>1 DEF Paired
    <2>3. NotReported(c)' <=> NotReported(c)
        BY <1>1, <1>3 DEF NotReported
    <2>4. NotUp(c) => c # d
        BY <1>1 DEF NotUp
    <2>5. CASE NotUp(c)
        BY <1>1, <1>5, <2>3, <2>4, <2>5 DEF PairedOn, NotUp
    <2>6. CASE ~NotUp(c)
        BY <1>1, <1>5, <2>2, <2>3, <2>6 DEF PairedOn, IsUp, IsDown, Dropped, serverGone
    <2>7. QED
        BY <2>5, <2>6
<1>12. Dealing'
    BY <1>1, DealingKept DEF IInv
<1>13. QED
    BY <1>6, <1>7, <1>8, <1>9, <1>10, <1>11, <1>12 DEF IInv
-----------------------------------------------------------------------------
(* The theorems. *)

LEMMA InitIInv == Init => IInv
<1> SUFFICES ASSUME Init PROVE IInv
    OBVIOUS
<1> USE BaseIsLoop, OpNames, LoopsAssumption
<1>1. TypeOK
    <2>1. queue \in [Loops -> Seq(Functors)]
        BY DEF Init
    <2>2. next_ \in 0..MaxConns /\ nextConnId_ \in 1..(MaxConns + 1)
        BY DEF Init
    <2>3. act \in [Loops -> Work \cup {Idle}]
        BY DEF Init
    <2>4. QED
        BY <2>1, <2>2, <2>3 DEF Init, TypeOK
<1>2. \A l \in Loops, op \in Ops, c \in Conns : ~Acts(l, op, c)
    BY DoFacts DEF Init, Acts
<1>3. \A l \in Loops, op \in Ops, c \in Conns : ~Queued(l, op, c) /\ OnceAhead(l, c)
    BY DEF Init, Queued, OnceAhead
<1>4. \A c \in Conns : ~InCtor(c) /\ ~Handed(c)
    <2>1. \A c \in Conns : ~InCtor(c)
        BY <1>2 DEF InCtor
    <2>2. \A c \in Conns : ~(c < nextConnId_)
        BY DEF Init, Conns
    <2>3. QED
        BY <2>1, <2>2 DEF Handed
<1>5. Places
    BY <1>2, <1>3, <1>4 DEF Init, Places, PlacesOn
<1>6. Serial
    BY <1>2 DEF Serial
<1>7. Establishing
    BY <1>2, <1>3, <1>4 DEF Init, Establishing, EstablishingOn
<1>8. Owned
    BY <1>2, <1>3, <1>4 DEF Init, Owned, OwnedOn, Held
<1>9. EstablishedFirst /\ Leaving /\ Paired
    BY <1>2, <1>3
       DEF Init, EstablishedFirst, Leaving, LeavingOn, Paired, PairedOn, NotUp, NotReported
<1>10. Dealing
    <2>1. loops_ = SubSeq(IoLoops, 1, 0) /\ 0 \in 0..Len(IoLoops)
        BY DEF Init
    <2>2. Spread(0)
        BY DEF Init, Spread
    <2>3. QED
        BY <2>1, <2>2 DEF Init, Dealing
<1>11. QED
    BY <1>1, <1>5, <1>6, <1>7, <1>8, <1>9, <1>10 DEF IInv

LEMMA NextIInv == IInv /\ [Next]_vars => IInv'
<1> SUFFICES ASSUME IInv, [Next]_vars PROVE IInv'
    OBVIOUS
<1>1. ASSUME UNCHANGED vars PROVE IInv'
    <2>1. TypeOK' /\ Dealing'
        <3>1. TypeOK'
            BY <1>1 DEF vars, IInv, TypeOK
        <3>2. QED
            BY <1>1, <3>1, DealingKept DEF vars, IInv
    <2>2. QED
        BY <1>1, <2>1, StepNoConnection DEF vars
<1>2. ASSUME BaseStep PROVE IInv'
    BY <1>2, StepConstructor, StepNewConnection, StepRemove DEF BaseStep
<1>3. ASSUME NEW l \in Loops, LoopStep(l) \/ Poll(l) \/ LoopEnds(l) PROVE IInv'
    BY <1>3, StepFunctor, StepEstablished, StepDestroyed, StepDispatch, StepClose, StepPoll,
       StepEnds DEF LoopStep
<1>4. ASSUME Finished PROVE IInv'
    BY <1>1, <1>4 DEF Finished
<1>5. QED
    BY <1>1, <1>2, <1>3, <1>4, StepStart, StepAccept, StepDestructor, StepShutdown DEF Next

\* The strengthened invariant holds in every reachable state.
THEOREM Invariance == Spec => []IInv
BY InitIInv, NextIInv, PTL DEF Spec

\* TypeOK: the queues hold functors of connections, a thread executes what
\* newConnection, the functors and the channels' callbacks are made of.
THEOREM TypeCorrect == Spec => []TypeOK
<1>1. IInv => TypeOK
    BY DEF IInv
<1>2. QED
    BY <1>1, Invariance, PTL

\* ChannelOwned: from the constructor to connectDestroyed, and while the channel
\* is in a list of active channels, somebody owns the TcpConnection.
THEOREM ChannelsNeverDangle == Spec => []ChannelOwned
<1>1. IInv => ChannelOwned
    <2> SUFFICES ASSUME IInv, NEW c \in Conns, InPollerMap(c) \/ (\E l \in Loops : c \in captured[l])
                 PROVE  Alive(c)
        BY DEF ChannelOwned
    <2> USE BaseIsLoop, DoFacts
    <2>1. Held(c)
        BY DEF IInv, Owned, OwnedOn, Held, InPollerMap
    <2>2. PICK l \in Loops : loopOf[c] = l
        BY DEF IInv, TypeOK
    <2>3. \/ c \in connections_ \/ InCtor(c)
          \/ Queued(l, "destroyed", c) \/ Acts(l, "destroyed", c)
        BY <2>1, <2>2 DEF IInv, Owned, OwnedOn
    <2>4. InCtor(c) => act[Base].conn = c
        BY DEF InCtor, Acts
    <2>5. Acts(l, "destroyed", c) => act[l].conn = c
        BY DEF Acts
    <2>6. Queued(l, "destroyed", c) => \E i \in DOMAIN queue[l] : queue[l][i].conn = c
        BY DEF Queued
    <2>7. QED
        BY <2>2, <2>3, <2>4, <2>5, <2>6 DEF Alive
<1>2. QED
    BY <1>1, Invariance, PTL

\* EstablishedFirst: connectDestroyed never overtakes connectEstablished.
THEOREM EstablishedBeforeDestroyed == Spec => []EstablishedFirst
<1>1. IInv => EstablishedFirst
    BY DEF IInv
<1>2. QED
    BY <1>1, Invariance, PTL

\* CallbacksPaired: the application hears of a connection once when it comes up
\* and once when it goes down, unless an event beat connectEstablished or
\* ~TcpServer found it kDisconnecting: no other way leads to a channel that is
\* removed without the last callback.
THEOREM CallbacksComeInPairs == Spec => []CallbacksPaired
<1>1. IInv => CallbacksPaired
    BY DEF IInv, CallbacksPaired, Paired, PairedOn, NotUp, IsUp, IsDown, Dropped, serverGone
<1>2. QED
    BY <1>1, Invariance, PTL

\* RoundRobin: getNextLoop deals the connections out evenly.
THEOREM LoopsServedEvenly == Spec => []RoundRobin
<1>1. IInv => RoundRobin
    <2> SUFFICES ASSUME IInv, NEW i \in DOMAIN loops_, NEW j \in DOMAIN loops_
                 PROVE  Cardinality(Dealt(loops_[i])) <= Cardinality(Dealt(loops_[j])) + 1
        BY DEF RoundRobin, Dealt
    <2>1. PICK k \in Nat : Spread(k)
        BY DEF IInv, Dealing
    <2>2. /\ Cardinality(Dealt(loops_[i])) \in {k, k + 1}
          /\ Cardinality(Dealt(loops_[j])) \in {k, k + 1}
        BY <2>1 DEF Spread
    <2>3. QED
        BY <2>2
<1>2. QED
    BY <1>1, Invariance, PTL
=============================================================================
