---------------------------- MODULE TcpConnection ----------------------------
(***************************************************************************)
(* src/src/TcpConnection.cpp: one connection on its I/O loop.  The loop's  *)
(* thread runs the handlers of the channel and the queued functors, one at *)
(* a time; other threads call send() and shutdown(); the peer reads,       *)
(* closes or resets.  The functor queue is the serial executor that module *)
(* EventLoop is shown to implement.                                        *)
(*                                                                         *)
(* Bytes are abstract: byte k of message m is <<m, k>>.                    *)
(***************************************************************************)
EXTENDS Integers, Sequences

CONSTANTS
    Users,          \* threads other than the loop's that hold the connection
    MsgLens,        \* lengths of messages and files, in bytes
    MaxMsgs,        \* bound: messages and files handed to the connection
    HighWaterMark   \* highWaterMark_

ASSUME BoundsAssumption ==
    /\ MsgLens \subseteq Nat
    /\ MaxMsgs \in Nat
    /\ HighWaterMark \in Nat

FileLens == MsgLens \ {0}       \* a message may be empty, a file is not

VARIABLES
    state_,         \* StateE
    events_,        \* interest of channel_: subset of {"R", "W"}
    registered,     \* channel_ has not been removed from the poller
    outputBuffer_,
    wire,           \* bytes handed to the kernel's socket, in order
    wrShut,         \* socket_->shutdownWrite() was called
    peer,           \* "open", "fin" (closed its side) or "reset"
    sockErr,        \* a pending socket error, cleared by the first call that sees it
    pending,        \* functors queued on the loop
    callbacks,      \* handlers of the current event still to be called
    file,           \* what is left to send inside sendFileInLoop's recursion
    upc,            \* per user: where it is in send() or shutdown()
    msgs,           \* messages and files so far
    accepted,       \* history: bytes sendInLoop and sendfile took over, in order
    closed,         \* history: handleClose has run
    destroyCalled,  \* TcpServer has queued connectDestroyed
    reported        \* history: bytes on the wire at the last writeCompleteCallback_

connVars == <<state_, events_, registered, closed>>
outVars == <<outputBuffer_, wire, accepted>>
netVars == <<peer, sockErr>>
vars == <<state_, events_, registered, outputBuffer_, wire, wrShut, peer, sockErr,
          pending, callbacks, file, upc, msgs, accepted, closed, destroyCalled, reported>>

States == {"kDisconnected", "kConnecting", "kConnected", "kDisconnecting"}
isWriting == "W" \in events_

Bytes(m, n) == [k \in 1..n |-> <<m, k>>]
Junk(n) == [k \in 1..n |-> <<0, 0>>]
Upto(s, n) == SubSeq(s, 1, n)
From(s, n) == SubSeq(s, n + 1, Len(s))

Functor(op, data) == [op |-> op, data |-> data]
writeCompleteCallback_ == Functor("writeComplete", <<>>)
highWaterMarkCallback_ == Functor("highWaterMark", <<>>)

\* Nothing runs on the loop's thread: it may take the next functor or event.
LoopIdle == callbacks = <<>> /\ file = <<>>

Init ==
    /\ state_ = "kConnecting"
    /\ events_ = {}
    /\ registered = TRUE
    /\ outputBuffer_ = <<>> /\ wire = <<>> /\ accepted = <<>>
    /\ wrShut = FALSE
    /\ peer = "open" /\ sockErr = FALSE
    /\ pending = <<Functor("connectEstablished", <<>>)>>
    /\ callbacks = <<>>
    /\ file = <<>>
    /\ upc = [u \in Users |-> "idle"]
    /\ msgs = 0
    /\ closed = FALSE
    /\ destroyCalled = FALSE
    /\ reported = 0
-----------------------------------------------------------------------------
(* Sending, on the loop's thread. *)

Broken == wrShut \/ peer = "reset"

\* write() and sendfile() on a nonblocking socket: EPIPE or ECONNRESET on a
\* broken one (-1), else as much as fits, 0 standing for EWOULDBLOCK and the
\* other errors that are treated like it.
Written(data) == IF Broken THEN {-1} ELSE 0..Len(data)

\* Mutant: a write is tried although bytes wait in outputBuffer_.
AlwaysDirect == TRUE

WriteDirectly == ~isWriting /\ outputBuffer_ = <<>>

\* Mutant: the rest is buffered without asking for EPOLLOUT.
ForgetsWriting(rest) == events_

\* enableWriting when something was left over.
EventsAfter(rest) == IF rest = <<>> THEN events_ ELSE events_ \cup {"W"}

\* What a send queues: the completion callback if the kernel took everything
\* at once, the high-water callback if the leftover crosses the mark.
Notices(data, rest) ==
    LET old == Len(outputBuffer_) IN
    IF WriteDirectly /\ rest = <<>> THEN <<writeCompleteCallback_>>
    ELSE IF old + Len(rest) >= HighWaterMark /\ old < HighWaterMark
    THEN <<highWaterMarkCallback_>> ELSE <<>>

\* The body of sendInLoop; queue is the functor queue it may add to.
sendInLoop(data, queue) ==
    \E n \in IF WriteDirectly THEN Written(data) ELSE {0} :
        IF state_ = "kDisconnected" \/ n = -1
        THEN pending' = queue /\ UNCHANGED <<outVars, events_>>
        ELSE LET rest == From(data, n) IN
             /\ wire' = wire \o Upto(data, n)
             /\ outputBuffer_' = outputBuffer_ \o rest
             /\ accepted' = accepted \o data
             /\ events_' = EventsAfter(rest)
             /\ pending' = queue \o Notices(data, rest)

\* One activation of sendFileInLoop.  What is left goes to runInLoop, which on
\* the loop's own thread is a recursive call: the next activation follows at
\* once, and the loop does nothing else meanwhile.
sendFileInLoop ==
    /\ file # <<>>
    /\ \E n \in IF WriteDirectly THEN Written(file) ELSE {0} :
        IF state_ = "kDisconnected" \/ n = -1
        THEN file' = <<>> /\ UNCHANGED <<wire, accepted, pending>>
        ELSE /\ wire' = wire \o Upto(file, n)
             /\ accepted' = accepted \o Upto(file, n)
             /\ file' = From(file, n)
             /\ pending' = IF file' = <<>> THEN Append(pending, writeCompleteCallback_)
                           ELSE pending
    /\ UNCHANGED <<connVars, outputBuffer_, wrShut, netVars, callbacks, upc, msgs,
                   destroyCalled, reported>>

\* Mutant: the write side is shut down at once.
ShutsEagerly(events) == wrShut' = TRUE

\* The write side is shut down unless the channel is still writing.
shutdownInLoop(events) == wrShut' = (wrShut \/ "W" \notin events)
-----------------------------------------------------------------------------
(* Calls from the loop's own thread: callbacks, timers, other functors. *)

LoopSend(n) ==
    /\ file = <<>>
    /\ msgs < MaxMsgs
    /\ state_ = "kConnected"
    /\ msgs' = msgs + 1
    /\ sendInLoop(Bytes(msgs', n), pending)
    /\ UNCHANGED <<state_, registered, closed, wrShut, netVars, callbacks, file, upc,
                   destroyCalled, reported>>

LoopSendFile(n) ==
    /\ file = <<>>
    /\ msgs < MaxMsgs
    /\ state_ = "kConnected"
    /\ msgs' = msgs + 1
    /\ file' = Bytes(msgs', n)
    /\ UNCHANGED <<connVars, outVars, wrShut, netVars, pending, callbacks, upc,
                   destroyCalled, reported>>

LoopShutdown ==
    /\ file = <<>>
    /\ state_ = "kConnected"
    /\ state_' = "kDisconnecting"
    /\ shutdownInLoop(events_)
    /\ UNCHANGED <<events_, registered, closed, outVars, netVars, pending, callbacks,
                   file, upc, msgs, destroyCalled, reported>>
-----------------------------------------------------------------------------
(* Calls from other threads: the test of state_, and the rest, are separate. *)

UserUnchanged == <<events_, registered, closed, outVars, wrShut, netVars, callbacks,
                   file, destroyCalled, reported>>

UserTests(u, op) ==
    /\ upc[u] = "idle"
    /\ state_ = "kConnected"
    /\ op \in {"send", "sendFile"} => msgs < MaxMsgs
    /\ upc' = [upc EXCEPT ![u] = op]
    /\ UNCHANGED <<UserUnchanged, state_, pending, msgs>>

UserSends(u, n) ==
    /\ upc[u] = "send"
    /\ msgs < MaxMsgs
    /\ msgs' = msgs + 1
    /\ pending' = Append(pending, Functor("send", Bytes(msgs', n)))
    /\ upc' = [upc EXCEPT ![u] = "idle"]
    /\ UNCHANGED <<UserUnchanged, state_>>

UserSendsFile(u, n) ==
    /\ upc[u] = "sendFile"
    /\ msgs < MaxMsgs
    /\ msgs' = msgs + 1
    /\ pending' = Append(pending, Functor("sendFile", Bytes(msgs', n)))
    /\ upc' = [upc EXCEPT ![u] = "idle"]
    /\ UNCHANGED <<UserUnchanged, state_>>

UserSetsState(u) ==
    /\ upc[u] = "shutdown"
    /\ state_' = "kDisconnecting"
    /\ upc' = [upc EXCEPT ![u] = "shutdownQueue"]
    /\ UNCHANGED <<UserUnchanged, pending, msgs>>

UserQueuesShutdown(u) ==
    /\ upc[u] = "shutdownQueue"
    /\ pending' = Append(pending, Functor("shutdown", <<>>))
    /\ upc' = [upc EXCEPT ![u] = "idle"]
    /\ UNCHANGED <<UserUnchanged, state_, msgs>>

\* The bound on messages was reached meanwhile: the call is not completed.
UserGivesUp(u) ==
    /\ upc[u] \in {"send", "sendFile"}
    /\ msgs = MaxMsgs
    /\ upc' = [upc EXCEPT ![u] = "idle"]
    /\ UNCHANGED <<UserUnchanged, state_, pending, msgs>>
-----------------------------------------------------------------------------
(* Functors. *)

\* Mutant: the channel is never told to read.
EstablishedDeaf == state_' = "kConnected" /\ UNCHANGED <<events_, registered>>

connectEstablished ==
    /\ state_' = "kConnected"
    /\ events_' = events_ \cup {"R"}
    /\ UNCHANGED registered

connectDestroyed ==
    /\ IF state_ = "kConnected"
       THEN state_' = "kDisconnected" /\ events_' = {}
       ELSE UNCHANGED <<state_, events_>>
    /\ registered' = FALSE

\* send() binds the address of the bytes, and for a Buffer that of a temporary:
\* when the functor runs they may be gone and the memory hold anything.  For a
\* Buffer the length, too, may be read after the bytes were retrieved, and be 0.
BoundBytes(data) == {data, Junk(Len(data)), <<>>}

RunFunctor ==
    /\ LoopIdle
    /\ pending # <<>>
    /\ LET f == Head(pending)
           rest == Tail(pending)
       IN  \/ /\ f.op = "connectEstablished" /\ connectEstablished
              /\ pending' = rest /\ UNCHANGED <<outVars, wrShut, file, reported>>
           \/ /\ f.op = "connectDestroyed" /\ connectDestroyed
              /\ pending' = rest /\ UNCHANGED <<outVars, wrShut, file, reported>>
           \/ /\ f.op = "send"
              /\ \E data \in BoundBytes(f.data) : sendInLoop(data, rest)
              /\ UNCHANGED <<state_, registered, wrShut, file, reported>>
           \/ /\ f.op = "sendFile" /\ file' = f.data
              /\ pending' = rest
              /\ UNCHANGED <<state_, events_, registered, outVars, wrShut, reported>>
           \/ /\ f.op = "shutdown" /\ shutdownInLoop(events_)
              /\ pending' = rest
              /\ UNCHANGED <<state_, events_, registered, outVars, file, reported>>
           \/ /\ f.op = "writeComplete" /\ reported' = Len(wire)
              /\ pending' = rest
              /\ UNCHANGED <<state_, events_, registered, outVars, wrShut, file>>
           \/ /\ f.op = "highWaterMark"
              /\ pending' = rest
              /\ UNCHANGED <<state_, events_, registered, outVars, wrShut, file, reported>>
    /\ UNCHANGED <<closed, netVars, callbacks, upc, msgs, destroyCalled>>

\* TcpServer::removeConnection after the close callback, or ~TcpServer.
QueueDestroyed ==
    /\ ~destroyCalled
    /\ destroyCalled' = TRUE
    /\ pending' = Append(pending, Functor("connectDestroyed", <<>>))
    /\ UNCHANGED <<connVars, outVars, wrShut, netVars, callbacks, file, upc, msgs, reported>>
-----------------------------------------------------------------------------
(* Events: Channel::handleEventWithGuard and the four handlers. *)

\* The handlers called for a returned mask, in order.
CallbacksFor(revents) ==
    SelectSeq(<<"close", "error", "read", "write">>,
        LAMBDA cb : \/ cb = "close" /\ "HUP" \in revents /\ "IN" \notin revents
                    \/ cb = "error" /\ "ERR" \in revents
                    \/ cb = "read" /\ "IN" \in revents
                    \/ cb = "write" /\ "OUT" \in revents)

\* What epoll may report.  Input and room in the send buffer come and go; end of
\* file, hang-up and errors are reported whenever they are there.
Reportable(revents) ==
    /\ "IN" \in revents => "R" \in events_
    /\ "R" \in events_ /\ peer # "open" => "IN" \in revents
    /\ "OUT" \in revents => isWriting
    /\ "HUP" \in revents <=> peer = "reset" \/ (peer = "fin" /\ wrShut)
    /\ "ERR" \in revents <=> sockErr

PollEvent(revents) ==
    /\ LoopIdle
    /\ registered /\ events_ # {}
    /\ revents # {}
    /\ Reportable(revents)
    /\ callbacks' = CallbacksFor(revents)
    /\ UNCHANGED <<connVars, outVars, wrShut, netVars, pending, file, upc, msgs,
                   destroyCalled, reported>>

handleClose ==
    /\ state_' = "kDisconnected"
    /\ events_' = {}
    /\ closed' = TRUE

HandlerUnchanged == <<registered, outVars, wrShut, peer, pending, file, upc, msgs,
                      destroyCalled, reported>>

Take(cb) == file = <<>> /\ callbacks # <<>> /\ Head(callbacks) = cb /\ callbacks' = Tail(callbacks)

OnClose == Take("close") /\ handleClose /\ UNCHANGED <<HandlerUnchanged, sockErr>>

\* getsockopt(SO_ERROR) clears the error; it is only logged.
handleError ==
    /\ Take("error")
    /\ sockErr' = FALSE
    /\ UNCHANGED <<HandlerUnchanged, state_, events_, closed>>

\* Data goes to the message callback; end of file closes; an error is consumed
\* by the read and logged.
handleRead ==
    /\ Take("read")
    /\ \/ peer = "open" /\ UNCHANGED <<state_, events_, closed, sockErr>>
       \/ sockErr /\ sockErr' = FALSE /\ UNCHANGED <<state_, events_, closed>>
       \/ peer # "open" /\ ~sockErr /\ handleClose /\ UNCHANGED sockErr
    /\ UNCHANGED HandlerUnchanged

\* Mutants: write interest is kept when the buffer runs empty; the FIN waits for
\* a drain that nothing announces.
KeepsWriting(left) == events_
IgnoresDisconnecting == FALSE

\* disableWriting once the buffer is empty.
EventsAfterWrite(left) == IF left = <<>> THEN events_ \ {"W"} ELSE events_

\* state_ is kDisconnecting: the shutdown was put off until the buffer is empty.
ShutdownWaits == state_ = "kDisconnecting"

\* Mutant: nobody is told that the buffer has drained.
NoCompletion(left) == <<>>

\* writeCompleteCallback_ is queued when the buffer has run empty.
DrainNotice(left) == IF left = <<>> THEN <<writeCompleteCallback_>> ELSE <<>>

handleWrite ==
    /\ Take("write")
    /\ IF isWriting /\ ~Broken
       THEN \E n \in 1..Len(outputBuffer_) :
              LET left == From(outputBuffer_, n) IN
              /\ wire' = wire \o Upto(outputBuffer_, n)
              /\ outputBuffer_' = left
              /\ events_' = EventsAfterWrite(left)
              /\ pending' = pending \o DrainNotice(left)
              /\ IF ShutdownWaits THEN shutdownInLoop(events_') ELSE UNCHANGED wrShut
       ELSE UNCHANGED <<wire, outputBuffer_, events_, pending, wrShut>>
    /\ UNCHANGED <<accepted, state_, registered, closed, netVars, file, upc, msgs,
                   destroyCalled, reported>>

\* The peer closes its side, or resets.
PeerActs ==
    /\ \/ peer = "open" /\ peer' = "fin" /\ UNCHANGED sockErr
       \/ peer # "reset" /\ peer' = "reset" /\ sockErr' = TRUE
    /\ UNCHANGED <<connVars, outVars, wrShut, pending, callbacks, file, upc, msgs,
                   destroyCalled, reported>>
\* The connection is over: nothing is left to run.
Over ==
    /\ ~registered /\ pending = <<>> /\ LoopIdle
    /\ \A u \in Users : upc[u] = "idle"
    /\ UNCHANGED vars
-----------------------------------------------------------------------------
UserStep(u) ==
    \/ (\E n \in MsgLens : UserSends(u, n)) \/ (\E n \in FileLens : UserSendsFile(u, n))
    \/ UserSetsState(u) \/ UserQueuesShutdown(u) \/ UserGivesUp(u)

Handlers == OnClose \/ handleError \/ handleRead \/ handleWrite

Poll == \E revents \in SUBSET {"IN", "OUT", "HUP", "ERR"} : PollEvent(revents)

Next ==
    \/ \E n \in MsgLens : LoopSend(n)
    \/ \E n \in FileLens : LoopSendFile(n)
    \/ LoopShutdown
    \/ \E u \in Users :
        \/ \E op \in {"send", "sendFile", "shutdown"} : UserTests(u, op)
        \/ UserStep(u)
    \/ RunFunctor
    \/ sendFileInLoop
    \/ QueueDestroyed
    \/ Poll
    \/ Handlers
    \/ PeerActs
    \/ Over

\* Threads are scheduled.  loop() alternates between one poll and one run of all
\* functors, so neither starves the other, and epoll is level triggered: a
\* descriptor that is ready at poll after poll is reported.  A peer that stays
\* and reads makes the socket writable again and again.
Fairness ==
    /\ SF_vars(RunFunctor) /\ WF_vars(sendFileInLoop) /\ WF_vars(Handlers)
    /\ \A u \in Users : WF_vars(UserStep(u))
    /\ SF_vars(isWriting /\ \E r \in SUBSET {"IN", "HUP", "ERR"} : PollEvent(r \cup {"OUT"}))
    /\ SF_vars(peer # "open" /\ Poll)

Spec == Init /\ [][Next]_vars /\ Fairness
-----------------------------------------------------------------------------
(* Properties. *)

Byte == (0..MaxMsgs) \X Nat

\* Members have their declared types, buffers hold bytes.
TypeOK ==
    /\ state_ \in States
    /\ events_ \subseteq {"R", "W"}
    /\ registered \in BOOLEAN /\ wrShut \in BOOLEAN /\ sockErr \in BOOLEAN
    /\ closed \in BOOLEAN /\ destroyCalled \in BOOLEAN
    /\ peer \in {"open", "fin", "reset"}
    /\ outputBuffer_ \in Seq(Byte) /\ wire \in Seq(Byte)
    /\ accepted \in Seq(Byte) /\ file \in Seq(Byte)
    /\ upc \in [Users -> {"idle", "send", "sendFile", "shutdown", "shutdownQueue"}]
    /\ msgs \in 0..MaxMsgs
    /\ reported \in 0..Len(wire)

\* The loop's thread is inside the recursion of sendFileInLoop.
InSendFile == file # <<>>

\* The bytes handed to the kernel, followed by those that wait, are the bytes
\* the connection took over: a direct write never overtakes the buffer, partial
\* writes lose and repeat nothing, whatever mixture of sends, files, writable
\* events and shutdowns happens.
StreamIntact == wire \o outputBuffer_ = accepted

\* On an open connection EPOLLOUT is watched exactly while bytes wait: neither
\* are bytes stranded nor does the loop spin on a writable socket.
WritingIffBuffered ==
    registered /\ ~closed => (isWriting <=> outputBuffer_ # <<>>)

\* testserver.cpp:49, "close after the data is sent": the FIN never overtakes
\* buffered bytes of an open connection.
FinAfterData == wrShut => outputBuffer_ = <<>> \/ closed \/ ~registered

\* When everything was written, the application has been told since, or its
\* writeCompleteCallback_ is queued (a file still in transmission excepted).
CompletionAnnounced ==
    outputBuffer_ = <<>> /\ Len(wire) > reported /\ ~InSendFile /\ ~Broken =>
        \E i \in DOMAIN pending : pending[i] = writeCompleteCallback_

\* Buffered bytes reach a peer that stays, unless sendFileInLoop has the loop.
BufferDrains ==
    (outputBuffer_ # <<>>) ~>
        (outputBuffer_ = <<>> \/ peer # "open" \/ ~registered \/ InSendFile)

\* A shutdown requested by any thread ends in a FIN or in the end of the
\* connection, however much output was waiting.
ShutdownCompletes ==
    (state_ = "kDisconnecting") ~>
        (wrShut \/ peer # "open" \/ ~registered \/ InSendFile)

\* When the peer closes or resets, the close callback is called.
PeerCloseNoticed ==
    (peer # "open" /\ state_ = "kConnected") ~> (closed \/ ~registered \/ InSendFile)

\* TcpConnection.h:33-34: send() sends the data it was given, also when another
\* thread calls it.
SentBytesUnchanged == \A i \in DOMAIN wire : wire[i] # <<0, 0>>
=============================================================================
