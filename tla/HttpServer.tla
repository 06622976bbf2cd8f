------------------------------ MODULE HttpServer ------------------------------
(***************************************************************************)
(* src/http/HttpServer.cpp over one connection: an I/O thread reads and    *)
(* parses requests and answers them, a static file by way of the io_uring  *)
(* of the base loop, whichever loop the connection belongs to.  The        *)
(* routing is that of src/http/main.cpp.                                   *)
(*                                                                         *)
(* The client sends a script of requests; the reads cut their bytes where  *)
(* they like.  Sending is one step here: how bytes and the final FIN get   *)
(* out is the subject of module TcpConnection.                             *)
(***************************************************************************)
EXTENDS HttpContext, UringManager

CONSTANTS
    Scripts    \* [requests, reads, sizes]: what is sent, and the bounds on the number of
               \* reads and on the bytes in one

\* What a stream consists of: words, and what separates them
Symbol == STRING \cup {CR, LF, SP, ":", "?"}

\* A request as the client means it
Request == [method : Symbol, path : Symbol, query : Seq(Symbol), version : Symbol,
            headers : Seq(Seq(Symbol) \X Seq(Symbol)), body : Seq(Symbol)]

ASSUME ScriptAssumption == \A s \in Scripts : s.requests \in Seq(Request)

VARIABLES
    script, sameLoop,  \* chosen in Init; sameLoop: setThreadNum(0)
    received, reads,   \* bytes of the stream read so far, in how many reads
    inputBuffer_, context, state_,
    pcIo,              \* I/O thread: "idle" or in the loop of onMessage
    ioQueue,           \* answers queued to the connection's loop
    baseQueue,         \* functors of appendIOContext queued to the base loop
    alive,             \* the process has not been terminated
    parsed,            \* requests given to onRequest, in order
    replies,           \* answers sent, in order: [n (0: to no request), code, close]
    fragile,           \* some read ended where the parser cannot go on
    pipelined          \* the client sent a request before it had the last answer

serverVars == <<script, sameLoop, received, reads, inputBuffer_, context, state_, pcIo, ioQueue,
                baseQueue, alive, parsed, replies, fragile, pipelined>>
vars == <<serverVars, uringVars>>

-----------------------------------------------------------------------------
(* What the client sends: the requests in the syntax of HTTP *)

RequestLine(r) ==
    <<r.method, SP, r.path>> \o (IF r.query = <<>> THEN <<>> ELSE <<"?">> \o r.query)
        \o <<SP, r.version, CR, LF>>
HeaderLine(h) == h[1] \o <<":", SP>> \o h[2] \o <<CR, LF>>
HeaderLines(r, k) == FlattenSeq([i \in 1..k |-> HeaderLine(r.headers[i])])
Rendered(r) == RequestLine(r) \o HeaderLines(r, Len(r.headers)) \o <<CR, LF>> \o r.body

\* The bytes of the first n requests of each script
Bytes == [s \in Scripts |-> [n \in 0..Len(s.requests) |->
              FlattenSeq([i \in 1..n |-> Rendered(s.requests[i])])]]

Requests == script.requests
Stream == Bytes[script][Len(Requests)]
End(n) == Len(Bytes[script][n])

\* How many requests have been received in full when p bytes have.
Whole(p) == Max({n \in 0..Len(Requests) : End(n) <= p})

\* The request onRequest should be given.
AsRequest(r) ==
    [method_ |-> r.method, version_ |-> r.version, path_ |-> <<r.path>>, query_ |-> r.query,
     headers_ |-> [f \in {r.headers[i][1] : i \in DOMAIN r.headers} |->
                     r.headers[Max({i \in DOMAIN r.headers : r.headers[i][1] = f})][2]],
     body_ |-> r.body]

\* Where a read may end for the parser to go on with the next one: in the request
\* line before its carriage return, at the end of a line, in the body.
SafeCut(p) ==
    LET n == Whole(p)
        k == p - End(n)
        r == Requests[n + 1]
        line == Len(RequestLine(r))
    IN  \/ k <= line - 2
        \/ \E h \in 0..Len(r.headers) : k = line + Len(HeaderLines(r, h))
        \/ k >= line + Len(HeaderLines(r, Len(r.headers))) + 2

-----------------------------------------------------------------------------
(* Sending *)

\* Mutant: the answer says the connection closes and the server goes on.
NeverShutsDown(close) == state_

\* TcpConnection::shutdown
shutdown(close) == IF close /\ state_ = "kConnected" THEN "kDisconnecting" ELSE state_

\* TcpConnection::send in the connection's loop, and shutdown after it
SendAndShutdown(answer) ==
    /\ replies' = IF state_ = "kConnected" THEN Append(replies, answer) ELSE replies
    /\ state_' = shutdown(answer.close)

\* conn->getLoop()->runInLoop(send and shutdown), called from the base loop's thread
AnswerFromBase(answer) ==
    IF sameLoop THEN SendAndShutdown(answer) /\ UNCHANGED ioQueue
    ELSE ioQueue' = Append(ioQueue, answer) /\ UNCHANGED <<replies, state_>>

-----------------------------------------------------------------------------
(* The request *)

ApiPaths == {<<"/api/hello">>, <<"/api/version">>}

\* What stat() finds below the web root, and is not a directory; registerFile opens
\* for reading and writing.
Files == {<<"/index.html">>, <<"/readonly">>}
Writable == {<<"/index.html">>}

Close(req) ==
    LET connection == getHeader(req, <<"Connection">>)
    IN  \/ connection = <<"close">>
        \/ req.version_ = "HTTP/1.0" /\ connection # <<"Keep-Alive">>

FilePath(req) == IF req.path_ = <<"/">> THEN <<"/index.html">> ELSE req.path_

\* handleError: answer and close
handleError(n, code) ==
    /\ SendAndShutdown([n |-> n, code |-> code, close |-> TRUE])
    /\ UNCHANGED <<baseQueue, uringVars>>

\* handleStaticFile: the read goes to the base loop's ring.
handleStaticFile(n, req) ==
    \/ /\ FilePath(req) = <<"/..">>
       /\ handleError(n, 403)
    \/ /\ FilePath(req) \notin (Files \cap Writable) \cup {<<"/..">>}
       /\ handleError(n, 404)
    \/ /\ FilePath(req) \in Files \cap Writable
       /\ UNCHANGED <<replies, state_>>
       /\ LET read == [n |-> n, close |-> Close(req)]
          IN  IF sameLoop
              THEN /\ appendIOContext(read, activeIOs_, pendingIOs_)
                   /\ UNCHANGED <<baseQueue, cq, eventfd, draining, readErrs>>
              ELSE /\ baseQueue' = Append(baseQueue, read)
                   /\ UNCHANGED uringVars

onRequest(n, req) ==
    \/ /\ req.path_ \in ApiPaths
       /\ SendAndShutdown([n |-> n, code |-> 200, close |-> Close(req)])
       /\ UNCHANGED <<baseQueue, uringVars>>
    \/ /\ req.path_ \notin ApiPaths
       /\ handleStaticFile(n, req)

-----------------------------------------------------------------------------
(* The I/O thread *)

IoIdle == alive /\ pcIo = "idle" /\ (sameLoop => ~draining)
BaseIdle == alive /\ ~draining /\ (sameLoop => pcIo = "idle")

\* TcpConnection::handleRead: k bytes are there.
Read(k) ==
    /\ IoIdle
    /\ state_ # "kDisconnected"
    /\ reads < script.reads
    /\ k \in script.sizes
    /\ inputBuffer_' = readFd(inputBuffer_, SubSeq(Stream, received + 1, received + k))
    /\ received' = received + k
    /\ reads' = reads + 1
    /\ pcIo' = "message"
    /\ fragile' = (fragile \/ ~(received' = Len(Stream) \/ SafeCut(received')))
    /\ pipelined' = (pipelined \/ received' > End(Min({Len(replies) + 1, Len(Requests)})))
    /\ UNCHANGED <<script, sameLoop, context, state_, ioQueue, baseQueue, alive, parsed, replies,
                   uringVars>>

\* The loop of onMessage finds the buffer empty.
MessageEnds ==
    /\ alive /\ pcIo = "message"
    /\ readableBytes(inputBuffer_) = 0
    /\ pcIo' = "idle"
    /\ UNCHANGED <<script, sameLoop, received, reads, inputBuffer_, context, state_, ioQueue,
                   baseQueue, alive, parsed, replies, fragile, pipelined, uringVars>>

\* A turn of that loop, by what parseRequest made of the bytes.
onMessage(past) ==
    LET n == Len(parsed) + 1 IN
    /\ alive /\ pcIo = "message"
    /\ readableBytes(inputBuffer_) > 0
    /\ \E r \in {parseRequest(inputBuffer_, context, past)} :
        /\ inputBuffer_' = r.buf
        /\ alive' = (r.flag # "CRASH")
        /\ \/ /\ r.flag \in {"AGAIN", "CRASH"}
              /\ context' = r.ctx
              /\ pcIo' = "idle"
              /\ UNCHANGED <<parsed, replies, state_, baseQueue, uringVars>>
           \/ /\ r.flag = "ERROR"
              /\ SendAndShutdown([n |-> 0, code |-> 400, close |-> TRUE])
              /\ context' = r.ctx
              /\ pcIo' = "idle"
              /\ UNCHANGED <<parsed, baseQueue, uringVars>>
           \/ /\ gotAll(r.ctx)
              /\ onRequest(n, r.ctx.request_)
              /\ parsed' = Append(parsed, r.ctx.request_)
              /\ context' = reset(r.ctx)
              /\ UNCHANGED pcIo
    /\ UNCHANGED <<script, sameLoop, received, reads, ioQueue, fragile, pipelined>>

\* The answer with a file, queued by the read's callback
RunIoFunctor ==
    /\ IoIdle
    /\ ioQueue # <<>>
    /\ SendAndShutdown(ioQueue[1])
    /\ ioQueue' = Tail(ioQueue)
    /\ UNCHANGED <<script, sameLoop, received, reads, inputBuffer_, context, pcIo, baseQueue,
                   alive, parsed, fragile, pipelined, uringVars>>

\* The client closes, or its connection breaks: handleClose.
PeerCloses ==
    /\ IoIdle
    /\ state_ # "kDisconnected"
    /\ state_' = "kDisconnected"
    /\ UNCHANGED <<script, sameLoop, received, reads, inputBuffer_, context, pcIo, ioQueue,
                   baseQueue, alive, parsed, replies, fragile, pipelined, uringVars>>

-----------------------------------------------------------------------------
(* The base loop's thread and the kernel *)

RunBaseFunctor ==
    /\ BaseIdle
    /\ baseQueue # <<>>
    /\ appendIOContext(baseQueue[1], activeIOs_, pendingIOs_)
    /\ baseQueue' = Tail(baseQueue)
    /\ UNCHANGED <<cq, eventfd, draining, readErrs, script, sameLoop, received, reads,
                   inputBuffer_, context, state_, pcIo, ioQueue, alive, parsed, replies, fragile,
                   pipelined>>

\* The callback handleStaticFile gives to asyncRW
FileRead(read, res) ==
    \/ /\ res = "error"
       /\ state_' = shutdown(TRUE)
       /\ UNCHANGED <<replies, ioQueue>>
    \/ /\ res = "ok"
       /\ AnswerFromBase([n |-> read.n, code |-> 200, close |-> read.close])

UringEvent ==
    /\ BaseIdle
    /\ handEventRead
    /\ UNCHANGED serverVars

Completion ==
    /\ alive
    /\ handleCQE
    /\ FileRead(activeIOs_[cq[1].idx], cq[1].res)
    /\ UNCHANGED <<script, sameLoop, received, reads, inputBuffer_, context, pcIo, baseQueue,
                   alive, parsed, fragile, pipelined>>

CompletionsEnd ==
    /\ alive
    /\ DrainEnds
    /\ UNCHANGED serverVars

Kernel(i) ==
    /\ alive
    /\ Complete(i)
    /\ UNCHANGED serverVars

-----------------------------------------------------------------------------
Init ==
    /\ script \in Scripts
    /\ sameLoop \in BOOLEAN
    /\ received = 0 /\ reads = 0
    /\ inputBuffer_ = NewBuffer
    /\ context = NewContext
    /\ state_ = "kConnected"
    /\ pcIo = "idle"
    /\ ioQueue = <<>> /\ baseQueue = <<>>
    /\ alive = TRUE
    /\ parsed = <<>> /\ replies = <<>>
    /\ fragile = FALSE /\ pipelined = FALSE
    /\ UringInit

IoStep ==
    \/ MessageEnds
    \/ \E past \in PastWriter(inputBuffer_) : onMessage(past)
    \/ RunIoFunctor

BaseStep == RunBaseFunctor \/ UringEvent \/ Completion \/ CompletionsEnd

Next ==
    \/ \E k \in 1..(Len(Stream) - received) : Read(k)
    \/ PeerCloses
    \/ IoStep
    \/ BaseStep
    \/ \E i \in inflight : Kernel(i)

\* A loop that has something to do does it, and the kernel finishes reads.
Fairness ==
    /\ WF_vars(IoStep)
    /\ WF_vars(BaseStep)
    /\ WF_vars(\E i \in inflight : Kernel(i))

Spec == Init /\ [][Next]_vars /\ Fairness

-----------------------------------------------------------------------------
(* Properties *)

\* The requests the parser knows: one of its methods, and at least one header.
Supported ==
    \A i \in DOMAIN Requests :
        setMethod(<<Requests[i].method>>) # "kInvalid" /\ Requests[i].headers # <<>>

\* onRequest is not given a request before its last byte has been received.
NotAhead == Len(parsed) <= Whole(received)

ParsedRight ==
    /\ alive
    /\ \A i \in DOMAIN replies : replies[i].code # 400
    /\ IsPrefix(parsed, [i \in DOMAIN Requests |-> AsRequest(Requests[i])])
    /\ NotAhead
    /\ pcIo = "idle" => Len(parsed) = Whole(received)

\* Requests the parser knows that arrive in pieces which end at places the parser
\* can resume from (SafeCut) reach onRequest exactly as the client sent them, as
\* soon as they are complete, however many are in one read; none is refused.
ParsedAsSent == Supported /\ ~fragile => ParsedRight

\* The same wherever the reads cut the stream.
AnyCutParses == Supported => ParsedRight

\* The input buffer is a queue of bytes: after any mixture of reads that fit, that
\* spill into the stack buffer, that grow or compact the vector and of retrieves,
\* what it holds is the end of what has been received.
BufferIsQueue ==
    /\ IsBuffer(inputBuffer_)
    /\ LET len == readableBytes(inputBuffer_)
       IN  Content(inputBuffer_) = SubSeq(Stream, received - len + 1, received)

\* No request is answered twice, nothing is sent after an answer that closes the
\* connection, and a client that waits for its answers gets them in the order of
\* its requests, though files are read in another thread.
AnswersInTurn ==
    /\ \A i, j \in DOMAIN replies : replies[i].n = replies[j].n => i = j
    /\ \A i \in DOMAIN replies : replies[i].close => i = Len(replies)
    /\ ~pipelined => \A i \in DOMAIN replies : replies[i].n \in {0, i}

\* Where the answer to request n is: on its way to the ring, in it, on its way
\* back, or sent.
Places(n) ==
    LET At(s) == {<<s, i>> : i \in {j \in DOMAIN s : s[j].n = n}}
    IN  Cardinality(At(baseQueue)) + Cardinality(At(pendingIOs_)) + Cardinality(At(activeIOs_))
        + Cardinality(At(ioQueue)) + Cardinality(At(replies))

\* The ring and activeIOs_ agree on which reads are under way, each in one place,
\* and as long as the connection is up no answer is lost between the two loops,
\* the ring and the queue of requests that found it full.
ReadsAccounted ==
    /\ DOMAIN activeIOs_ = Range(sq) \cup inflight \cup CqSet
    /\ Cardinality(DOMAIN activeIOs_) = Len(sq) + Cardinality(inflight) + Len(cq)
    /\ \A n \in DOMAIN parsed : Places(n) <= 1 /\ (state_ = "kConnected" => Places(n) = 1)

\* The read for request n waits in a ring that nothing will submit again.
Stranded(n) ==
    /\ inflight = {} /\ cq = <<>> /\ baseQueue = <<>>
    /\ \/ \E i \in Range(sq) : activeIOs_[i].n = n
       \/ \E i \in DOMAIN pendingIOs_ : pendingIOs_[i].n = n

\* Every request that reached onRequest is answered while the connection is up,
\* unless a failed io_uring_submit left its read, or a whole ring, behind.
Answered ==
    \A n \in 1..Max({Len(s.requests) : s \in Scripts}) :
        (n <= Len(parsed) /\ state_ = "kConnected")
            ~> \/ \E i \in DOMAIN replies : replies[i].n = n
               \/ state_ # "kConnected" \/ ~alive \/ Stranded(n)
=============================================================================
