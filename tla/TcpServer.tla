------------------------------ MODULE TcpServer ------------------------------
(***************************************************************************)
(* src/src/TcpServer.cpp with Acceptor and EventLoopThreadPool: the life   *)
(* of connections across loops.  The base loop accepts, constructs the     *)
(* TcpConnection, keeps it in connections_ and drops it again; its I/O     *)
(* loop establishes, serves and destroys it.  The two talk through the     *)
(* loops' functor queues (serial executors, see EventLoop).                *)
(*                                                                         *)
(* Of the connection only state_, its channel's standing with the poller   *)
(* and its shared_ptr owners are kept, and of the application's threads    *)
(* their calls of shutdown(); TcpConnection and EPollPoller have the rest. *)
(***************************************************************************)
EXTENDS Naturals, Sequences, FiniteSets, Functions

CONSTANTS
    Base,       \* the loop of the server's own thread
    IoLoops,    \* sequence of the loops the thread pool may start
    MaxConns    \* bound: connections accepted

ASSUME LoopsAssumption ==
    /\ MaxConns \in Nat
    /\ IoLoops \in Seq({IoLoops[i] : i \in DOMAIN IoLoops})
    /\ \A i \in DOMAIN IoLoops : IoLoops[i] # Base     \* every thread has a loop of its own
    /\ \A i, j \in DOMAIN IoLoops : IoLoops[i] = IoLoops[j] => i = j

Conns == 1..MaxConns
Loops == {Base} \cup {IoLoops[i] : i \in DOMAIN IoLoops}

VARIABLES
    started_,       \* start() has been called
    loops_,         \* EventLoopThreadPool::loops_: a prefix of IoLoops, by setThreadNum
    next_,          \* EventLoopThreadPool::next_
    nextConnId_,
    connections_,   \* the server's map, as the set of its keys
    queue,          \* per loop: pending functors
    act,            \* per loop thread: what it is executing
    captured,       \* per loop thread: channels its last poll returned, not yet handled
    loopOf,         \* TcpConnection::loop_, Base before construction
    state_,
    closing,        \* connections some thread is shutting down, between test and store
    channel,        \* per connection: its channel in the poller
    up, down,       \* history: connectionCallback_ calls with a live / dead connection
    early,          \* history: connections with an event before connectEstablished
    stopped,        \* loops whose loop() has returned
    terminated      \* an exception ended the process

vars == <<started_, loops_, next_, nextConnId_, connections_, queue, act, captured, loopOf,
          state_, closing, channel, up, down, early, stopped, terminated>>
poolVars == <<started_, loops_, next_, nextConnId_>>
history == <<up, down>>

Idle == [op |-> "idle", conn |-> 0]
Do(op, c) == [op |-> op, conn |-> c]

\* The stages of newConnection before a shared_ptr to the connection exists.
CtorOps == {"ctor1", "ctor2", "ctor3", "ctor4", "constructed"}

\* channel: "none" before construction; "watched0" in the epoll set with an empty
\* mask; "reading"; "deleted", known to the poller but not in the set; "removed".
InPollerMap(c) == channel[c] \in {"watched0", "reading", "deleted"}
InEpollSet(c) == channel[c] \in {"watched0", "reading"}

\* Who holds a shared_ptr: the map, functors bound to it, running code (the
\* constructor's caller included).  A captured Channel* is no owner.
Alive(c) ==
    \/ c \in connections_
    \/ \E l \in Loops : \E i \in DOMAIN queue[l] : queue[l][i].conn = c
    \/ \E l \in Loops : act[l].conn = c

Running == ~terminated

\* Loop l is between two callbacks; the base loop ends before ~TcpServer.
Free(l) == Running /\ l \notin stopped /\ act[l] = Idle
serverGone == Base \in stopped

Init ==
    /\ started_ = FALSE
    /\ loops_ = <<>>
    /\ next_ = 0
    /\ nextConnId_ = 1
    /\ connections_ = {}
    /\ queue = [l \in Loops |-> <<>>]
    /\ act = [l \in Loops |-> Idle]
    /\ captured = [l \in Loops |-> {}]
    /\ loopOf = [c \in Conns |-> Base]
    /\ state_ = [c \in Conns |-> "kConnecting"]
    /\ closing = {}
    /\ channel = [c \in Conns |-> "none"]
    /\ up = [c \in Conns |-> 0]
    /\ down = [c \in Conns |-> 0]
    /\ early = {}
    /\ stopped = {}
    /\ terminated = FALSE
-----------------------------------------------------------------------------
(* Starting and accepting, on the base loop's thread. *)

\* The first start(): as many I/O loops as setThreadNum said, and the acceptor
\* listens.  Later calls only count.
start ==
    /\ Free(Base) /\ ~started_
    /\ started_' = TRUE
    /\ loops_' \in {SubSeq(IoLoops, 1, n) : n \in 0..Len(IoLoops)}
    /\ UNCHANGED <<next_, nextConnId_, connections_, queue, act, captured, loopOf, closing,
                   state_, channel, history, early, stopped, terminated>>

\* Mutant: next_ is not advanced.
StaysPut(n) == n

\* next_++
Advance(n) == n + 1

\* EventLoopThreadPool::getNextLoop
getNextLoop ==
    IF loops_ = <<>> THEN Base ELSE loops_[(next_ % Len(loops_)) + 1]

\* Acceptor::handleRead accepted a socket, and newConnection is about to
\* construct its TcpConnection.
handleRead ==
    /\ Free(Base) /\ started_ /\ captured[Base] = {}
    /\ nextConnId_ \in Conns
    /\ loopOf' = [loopOf EXCEPT ![nextConnId_] = getNextLoop]
    /\ next_' = IF loops_ = <<>> THEN next_ ELSE Advance(next_)
    /\ nextConnId_' = nextConnId_ + 1
    /\ act' = [act EXCEPT ![Base] = Do("ctor1", nextConnId_)]
    /\ UNCHANGED <<closing, started_, loops_, connections_, queue, captured, state_,
                   channel, history, early, stopped, terminated>>

\* The constructor sets the four callbacks of the channel, and every setter ends
\* in update(): with no event asked for yet the channel is added to the poller
\* of its I/O loop, deleted, added and deleted again, all on the base thread.
Constructor ==
    \E k \in {<<"ctor1", "ctor2", "watched0">>, <<"ctor2", "ctor3", "deleted">>,
              <<"ctor3", "ctor4", "watched0">>, <<"ctor4", "constructed", "deleted">>} :
        /\ Running
        /\ act[Base].op = k[1]
        /\ act' = [act EXCEPT ![Base].op = k[2]]
        /\ channel' = [channel EXCEPT ![act[Base].conn] = k[3]]
        /\ UNCHANGED <<poolVars, connections_, queue, captured, loopOf, closing, state_,
                       history, early, stopped, terminated>>

\* The rest of newConnection: connections_, the callbacks, connectEstablished.
newConnection ==
    LET c == act[Base].conn IN
    /\ Running
    /\ act[Base].op = "constructed"
    /\ connections_' = connections_ \cup {c}
    /\ IF loopOf[c] = Base
       THEN act' = [act EXCEPT ![Base] = Do("established", c)] /\ UNCHANGED queue
       ELSE /\ queue' = [queue EXCEPT ![loopOf[c]] = Append(@, Do("established", c))]
            /\ act' = [act EXCEPT ![Base] = Idle]
    /\ UNCHANGED <<poolVars, captured, loopOf, closing, state_, channel, history, early,
                   stopped, terminated>>

\* Mutants: the entry is erased and nothing else; connectDestroyed overtakes
\* what is queued on the I/O loop.
ErasesOnly(c) == UNCHANGED queue
Overtakes(c) ==
    queue' = [queue EXCEPT ![loopOf[c]] = <<Do("destroyed", c)>> \o @]

\* The functor removeConnectionInLoop queues on the connection's loop.
QueueDestroyed(c) ==
    queue' = [queue EXCEPT ![loopOf[c]] = Append(@, Do("destroyed", c))]

removeConnectionInLoop(c) ==
    /\ connections_' = connections_ \ {c}
    /\ QueueDestroyed(c)

\* Mutant: the application is told again, whatever state_ says.
AlwaysTells(c) == TRUE

\* connectDestroyed takes the connection down and tells the application; one that
\* is being shut down only loses its channel.
StillUp(c) == state_[c] = "kConnected"

\* What connectDestroyed does to the connections cs.
TakeDown(cs) ==
    /\ state_' = [c \in Conns |->
            IF c \in cs /\ StillUp(c) THEN "kDisconnected" ELSE state_[c]]
    /\ down' = [c \in Conns |-> IF c \in cs /\ StillUp(c) THEN down[c] + 1 ELSE down[c]]
    /\ channel' = [c \in Conns |-> IF c \in cs THEN "removed" ELSE channel[c]]

\* The orders in which a hash map may hold the connections cs.
MapOrders(cs) == {s \in [1..Cardinality(cs) -> cs] : Range(s) = cs}

\* ~TcpServer, when the base loop has returned: connectDestroyed for every
\* connection left, in the order of the hash map, by runInLoop on its loop: at
\* once for those of the base loop.
Destructor ==
    LET left == [l \in Loops |-> {c \in connections_ : loopOf[c] = l}] IN
    /\ Free(Base) /\ captured[Base] = {}
    /\ stopped' = stopped \cup {Base}
    /\ connections_' = {}
    /\ TakeDown(left[Base])
    /\ \E order \in [Loops -> UNION {MapOrders(left[l]) : l \in Loops}] :
        /\ \A l \in Loops : order[l] \in MapOrders(left[l])
        /\ queue' = [l \in Loops |->
            IF l = Base THEN queue[l]
            ELSE queue[l] \o [i \in DOMAIN order[l] |-> Do("destroyed", order[l][i])]]
    /\ UNCHANGED <<poolVars, act, captured, loopOf, closing, up, early, terminated>>

\* ~EventLoopThreadPool then ends the I/O loops; functors that arrived after the
\* last swap stay in the queue and are destroyed with the loop.
LoopEnds(l) ==
    /\ serverGone
    /\ Free(l) /\ captured[l] = {}
    /\ stopped' = stopped \cup {l}
    /\ UNCHANGED <<poolVars, connections_, queue, act, captured, loopOf, closing, state_,
                   channel, history, early, terminated>>
-----------------------------------------------------------------------------
(* Every loop's thread. *)

\* Functors run when the events of the last poll are handled.
RunFunctor(l) ==
    /\ Free(l) /\ captured[l] = {} /\ queue[l] # <<>>
    /\ act' = [act EXCEPT ![l] = Head(queue[l])]
    /\ queue' = [queue EXCEPT ![l] = Tail(@)]
    /\ UNCHANGED <<poolVars, connections_, captured, loopOf, closing, state_, channel,
                   history, early, stopped, terminated>>

\* TcpServer::removeConnectionInLoop as a functor of the base loop.
RunRemove ==
    /\ Running
    /\ act[Base].op = "remove"
    /\ removeConnectionInLoop(act[Base].conn)
    /\ act' = [act EXCEPT ![Base] = Idle]
    /\ UNCHANGED <<poolVars, captured, loopOf, closing, state_, channel, history, early,
                   stopped, terminated>>

connectEstablished(l) ==
    LET c == act[l].conn IN
    /\ Running
    /\ act[l].op = "established"
    /\ state_' = [state_ EXCEPT ![c] = "kConnected"]
    /\ channel' = [channel EXCEPT ![c] = "reading"]
    /\ up' = [up EXCEPT ![c] = @ + 1]
    /\ act' = [act EXCEPT ![l] = Idle]
    /\ UNCHANGED <<poolVars, connections_, queue, captured, loopOf, closing, down, early,
                   stopped, terminated>>

\* TcpConnection::shutdown, on a thread of the application that holds the
\* connection: the test of state_ and the store are two steps, and
\* shutdownInLoop changes nothing that is kept here.
shutdown(c) ==
    /\ Running
    /\ state_[c] = "kConnected" /\ loopOf[c] \notin stopped
    /\ closing' = closing \cup {c}
    /\ UNCHANGED <<poolVars, connections_, queue, act, captured, loopOf, state_, channel,
                   history, early, stopped, terminated>>

\* setState(kDisconnecting), whatever state_ has become.  Another thread may be
\* doing the same.
SetDisconnecting(c) ==
    /\ Running
    /\ c \in closing
    /\ state_' = [state_ EXCEPT ![c] = "kDisconnecting"]
    /\ closing' \in {closing, closing \ {c}}
    /\ UNCHANGED <<poolVars, connections_, queue, act, captured, loopOf, channel,
                   history, early, stopped, terminated>>

connectDestroyed(l) ==
    /\ Running
    /\ act[l].op = "destroyed"
    /\ TakeDown({act[l].conn})
    /\ act' = [act EXCEPT ![l] = Idle]
    /\ UNCHANGED <<poolVars, connections_, queue, captured, loopOf, closing, up, early,
                   stopped, terminated>>

\* epoll reports connections whose peer closed or reset; with an empty mask a
\* hang-up is reported all the same.
Poll(l) ==
    /\ Free(l) /\ captured[l] = {}
    /\ \E cs \in SUBSET {c \in Conns : loopOf[c] = l /\ InEpollSet(c)} :
        /\ cs # {}
        /\ captured' = [captured EXCEPT ![l] = cs]
        /\ early' = early \cup {c \in cs : channel[c] = "watched0"}
    /\ UNCHANGED <<poolVars, connections_, queue, act, loopOf, closing, state_, channel,
                   history, stopped, terminated>>

\* Channel::handleEvent of a captured channel leads to TcpConnection::handleClose,
\* unless the constructor has not set closeCallback_ yet.
Dispatch(l) ==
    \E c \in captured[l] :
        /\ Free(l)
        /\ captured' = [captured EXCEPT ![l] = @ \ {c}]
        /\ act' = IF act[Base] \in {Do("ctor1", c), Do("ctor2", c), Do("ctor3", c)}
                  THEN act ELSE [act EXCEPT ![l] = Do("close", c)]
        /\ UNCHANGED <<poolVars, connections_, queue, loopOf, closing, state_, channel,
                       history, early, stopped, terminated>>

\* handleClose: disableAll (which adds a deleted channel again), the connection
\* callback, and TcpServer::removeConnection.  While no shared_ptr exists yet,
\* shared_from_this throws.
handleClose(l) ==
    LET c == act[l].conn
        exists == act[Base] \notin {Do(op, c) : op \in CtorOps}
    IN
    /\ Running
    /\ act[l].op = "close"
    /\ state_' = [state_ EXCEPT ![c] = "kDisconnected"]
    /\ channel' = [channel EXCEPT ![c] = IF InEpollSet(c) THEN "deleted" ELSE "watched0"]
    /\ terminated' = ~exists
    /\ IF exists
       THEN /\ down' = [down EXCEPT ![c] = @ + 1]
            /\ IF l = Base
               THEN removeConnectionInLoop(c)
               ELSE /\ queue' = [queue EXCEPT ![Base] = Append(@, Do("remove", c))]
                    /\ UNCHANGED connections_
       ELSE UNCHANGED <<down, connections_, queue>>
    /\ act' = [act EXCEPT ![l] = Idle]
    /\ UNCHANGED <<poolVars, captured, loopOf, closing, up, early, stopped>>
-----------------------------------------------------------------------------
LoopStep(l) ==
    \/ RunFunctor(l) \/ connectEstablished(l) \/ connectDestroyed(l)
    \/ Dispatch(l) \/ handleClose(l)

BaseStep == Constructor \/ newConnection \/ RunRemove

\* The server or the process has ended and all work is done.
Finished ==
    /\ terminated \/ stopped = Loops
    /\ UNCHANGED vars

Next ==
    \/ start \/ handleRead \/ BaseStep \/ Destructor
    \/ \E l \in Loops : LoopStep(l) \/ Poll(l) \/ LoopEnds(l)
    \/ \E c \in Conns : shutdown(c) \/ SetDisconnecting(c)
    \/ Finished

\* Every loop's thread is scheduled; clients and the end of the server are not.
Spec ==
    /\ Init /\ [][Next]_vars
    /\ WF_vars(BaseStep) /\ \A l \in Loops : WF_vars(LoopStep(l))
-----------------------------------------------------------------------------
(* Properties. *)

Functors == [op : {"established", "destroyed", "remove"}, conn : Conns]
Work == [op : CtorOps \cup {"established", "destroyed", "remove", "close"}, conn : Conns]

\* Members have their declared types, a loop's queue holds functors, and next_
\* stays below the number of connections.
TypeOK ==
    /\ started_ \in BOOLEAN /\ terminated \in BOOLEAN
    /\ stopped \subseteq Loops
    /\ next_ \in 0..MaxConns /\ nextConnId_ \in 1..(MaxConns + 1)
    /\ connections_ \subseteq Conns /\ early \subseteq Conns
    /\ queue \in [Loops -> Seq(Functors)]
    /\ act \in [Loops -> Work \cup {Idle}]
    /\ captured \in [Loops -> SUBSET Conns]
    /\ loopOf \in [Conns -> Loops]
    /\ state_ \in [Conns -> {"kConnecting", "kConnected", "kDisconnecting", "kDisconnected"}]
    /\ closing \subseteq Conns
    /\ channel \in [Conns -> {"none", "watched0", "reading", "deleted", "removed"}]
    /\ up \in [Conns -> Nat] /\ down \in [Conns -> Nat]

\* While the poller or a list of active channels holds a pointer to a
\* connection's channel, somebody owns the connection: erasing it from the map,
\* the hop to the I/O loop and the dispatch of a batch never leave the pointer
\* dangling.
ChannelOwned ==
    \A c \in Conns :
        InPollerMap(c) \/ (\E l \in Loops : c \in captured[l]) => Alive(c)

\* connectDestroyed never runs before connectEstablished although close events,
\* removal and destruction travel between loops: a removed channel is not
\* revived.
EstablishedFirst == \A c \in Conns : channel[c] = "removed" => up[c] = 1

\* The application hears of a connection once when it comes up and once when it
\* goes down, in that order, whatever races with shutdown(), unless an event beat
\* connectEstablished.  Only ~TcpServer drops a connection without a word: one
\* that was kDisconnecting.
CallbacksPaired ==
    \A c \in Conns \ early :
        /\ down[c] <= up[c] /\ up[c] <= 1
        /\ channel[c] = "removed" =>
                down[c] = 1 \/ (serverGone /\ state_[c] = "kDisconnecting")

\* Connections are dealt out evenly to the I/O loops.
RoundRobin ==
    \A i, j \in DOMAIN loops_ :
        Cardinality({c \in 1..(nextConnId_ - 1) : loopOf[c] = loops_[i]})
            <= Cardinality({c \in 1..(nextConnId_ - 1) : loopOf[c] = loops_[j]}) + 1

\* A connection that is down is taken out of the map and the poller and freed,
\* as long as the server lives.
Reclaimed ==
    \A c \in Conns :
        (state_[c] = "kDisconnected") ~>
            ((channel[c] = "removed" /\ ~Alive(c)) \/ serverGone \/ terminated)

\* README.md:13 and TcpServer.h:52, "one loop per thread": what belongs to a
\* loop is touched by that loop's thread only.  Here: two threads are never
\* inside the same poller.
InPollerOf(l) ==
    IF act[l].op \in {"established", "destroyed", "close"} THEN {l}
    ELSE IF act[l].op \in {"ctor1", "ctor2", "ctor3", "ctor4"} THEN {loopOf[act[l].conn]}
    ELSE {}
OneThreadPerPoller ==
    \A l, m \in Loops : l # m => InPollerOf(l) \cap InPollerOf(m) = {}
=============================================================================
