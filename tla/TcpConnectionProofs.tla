------------------------- MODULE TcpConnectionProofs -------------------------
(***************************************************************************)
(* For any set of threads, any lengths and number of messages and any high *)
(* water mark: a connection neither loses, repeats nor reorders a byte, it *)
(* watches EPOLLOUT exactly while bytes wait, its FIN follows its data,    *)
(* and a drained buffer is announced.                                      *)
(***************************************************************************)
EXTENDS TcpConnection, SequenceTheorems, TLAPS

Ops == {"connectEstablished", "connectDestroyed", "send", "sendFile", "shutdown",
        "writeComplete", "highWaterMark"}
FunctorSet == [op : Ops, data : Seq(Byte)]

\* The queued functors are the ones the connection and its server bind.
PendingOK == pending \in Seq(FunctorSet)

HasNotice(q) == \E i \in DOMAIN q : q[i] = writeCompleteCallback_

\* CompletionAnnounced without its exception for files.
Announced ==
    outputBuffer_ = <<>> /\ Len(wire) > reported /\ ~Broken => HasNotice(pending)

\* A file leaves a gap in the announcements only while sendFileInLoop recurses
\* on a connection that is not disconnected; on a disconnected one the recursion
\* has written nothing.
AnnouncedInv == ~InSendFile \/ state_ = "kDisconnected" => Announced

IInv == /\ TypeOK /\ PendingOK
        /\ StreamIntact /\ WritingIffBuffered /\ FinAfterData /\ AnnouncedInv
-----------------------------------------------------------------------------
(* What a partial write splits, and what a queue of functors keeps. *)

\* A write of n bytes: what the kernel took and what is left are the whole.
LEMMA Split ==
    ASSUME NEW S, NEW s \in Seq(S), NEW n \in 0..Len(s)
    PROVE  /\ Upto(s, n) \in Seq(S) /\ From(s, n) \in Seq(S)
           /\ Len(Upto(s, n)) = n /\ Len(From(s, n)) = Len(s) - n
           /\ Upto(s, n) \o From(s, n) = s
<1>1. Upto(s, n) \in Seq(S) /\ Len(Upto(s, n)) = n
  BY LenProperties DEF Upto
<1>2. From(s, n) \in Seq(S) /\ Len(From(s, n)) = Len(s) - n
  BY LenProperties DEF From
<1>3. Upto(s, n) \o From(s, n) = s
  <2>1. 1 \in 1..Len(s) + 1 /\ n \in 1 - 1..Len(s) /\ Len(s) \in n..Len(s)
    BY LenProperties
  <2>2. SubSeq(s, 1, n) \o SubSeq(s, n + 1, Len(s)) = SubSeq(s, 1, Len(s))
    BY <2>1, ConcatAdjacentSubSeq
  <2>3. QED
    BY <2>2, SubSeqFull DEF Upto, From
<1>4. QED
  BY <1>1, <1>2, <1>3

\* A write of no bytes leaves everything.
LEMMA SplitNone ==
    ASSUME NEW S, NEW s \in Seq(S)
    PROVE  Upto(s, 0) = <<>> /\ From(s, 0) = s
  BY LenProperties DEF Upto, From

\* Bytes are appended in any grouping.
LEMMA Assoc == \A a, b, c \in Seq(Byte) : (a \o b) \o c = a \o (b \o c)
  BY ConcatAssociative

\* A message's bytes are bytes.
LEMMA BytesType ==
    ASSUME NEW m \in 1..MaxMsgs, NEW n \in Nat
    PROVE  Bytes(m, n) \in Seq(Byte)
  BY BoundsAssumption DEF Bytes, Byte

\* What a functor of send() may find where its bytes were is a string of bytes.
LEMMA BoundType ==
    ASSUME NEW d \in Seq(Byte), NEW x \in BoundBytes(d)
    PROVE  x \in Seq(Byte)
<1>1. Junk(Len(d)) \in Seq(Byte)
  BY BoundsAssumption, LenProperties DEF Junk, Byte
<1>2. QED
  BY <1>1, EmptySeq DEF BoundBytes

\* A queued notice stays queued when more is queued.
LEMMA NoticeStays ==
    ASSUME NEW q \in Seq(FunctorSet), NEW t \in Seq(FunctorSet),
           HasNotice(q) \/ HasNotice(t)
    PROVE  HasNotice(q \o t)
<1>1. CASE HasNotice(q)
  BY <1>1, ConcatProperties, LenProperties DEF HasNotice
<1>2. CASE HasNotice(t)
  <2>1. PICK i \in DOMAIN t : t[i] = writeCompleteCallback_
    BY <1>2 DEF HasNotice
  <2>2. Len(q) + i \in DOMAIN (q \o t) /\ (q \o t)[Len(q) + i] = t[i]
    BY LenProperties
  <2>3. QED
    BY <2>1, <2>2 DEF HasNotice
<1>3. QED
  BY <1>1, <1>2

\* Running another functor leaves a queued notice queued.
LEMMA NoticeNext ==
    ASSUME NEW q \in Seq(FunctorSet), q # <<>>, HasNotice(q),
           Head(q).op # "writeComplete"
    PROVE  HasNotice(Tail(q))
<1>1. PICK i \in DOMAIN q : q[i] = writeCompleteCallback_
  BY DEF HasNotice
<1>2. i # 1
  BY <1>1 DEF writeCompleteCallback_, Functor
<1>3. i - 1 \in DOMAIN Tail(q) /\ Tail(q)[i - 1] = q[i]
  BY <1>1, <1>2, LenProperties
<1>4. QED
  BY <1>1, <1>3 DEF HasNotice

\* The notices are functors.
LEMMA NoticeType ==
    /\ writeCompleteCallback_ \in FunctorSet
    /\ highWaterMarkCallback_ \in FunctorSet
    /\ HasNotice(<<writeCompleteCallback_>>)
<1>1. <<>> \in Seq(Byte)
  BY EmptySeq
<1>2. QED
  BY <1>1 DEF writeCompleteCallback_, highWaterMarkCallback_, Functor, FunctorSet, Ops,
              HasNotice
-----------------------------------------------------------------------------
(* The effect of one send on the loop's thread. *)

\* sendInLoop keeps the types and the stream, asks for EPOLLOUT exactly when it
\* buffers, adds nothing behind a FIN, and queues a notice when it wrote all.
LEMMA SendEffect ==
    ASSUME TypeOK, NEW data \in Seq(Byte), NEW queue \in Seq(FunctorSet),
           sendInLoop(data, queue)
    PROVE  /\ wire' \in Seq(Byte) /\ outputBuffer_' \in Seq(Byte)
           /\ accepted' \in Seq(Byte) /\ events_' \subseteq {"R", "W"}
           /\ Len(wire') >= Len(wire)
           /\ pending' \in Seq(FunctorSet)
           /\ HasNotice(queue) => HasNotice(pending')
           /\ StreamIntact => wire' \o outputBuffer_' = accepted'
           /\ (isWriting <=> outputBuffer_ # <<>>) =>
                /\ "W" \in events_' <=> outputBuffer_' # <<>>
                /\ wrShut /\ outputBuffer_ = <<>> => outputBuffer_' = <<>>
           /\ \/ outputBuffer_' # <<>> \/ HasNotice(pending')
              \/ outputBuffer_ = <<>> /\ Len(wire') = Len(wire)
<1>t. /\ wire \in Seq(Byte) /\ outputBuffer_ \in Seq(Byte) /\ accepted \in Seq(Byte)
      /\ events_ \subseteq {"R", "W"}
  BY DEF TypeOK
<1>0. PICK n \in IF WriteDirectly THEN Written(data) ELSE {0} :
        IF state_ = "kDisconnected" \/ n = -1
        THEN pending' = queue /\ UNCHANGED <<outVars, events_>>
        ELSE LET rest == From(data, n) IN
             /\ wire' = wire \o Upto(data, n)
             /\ outputBuffer_' = outputBuffer_ \o rest
             /\ accepted' = accepted \o data
             /\ events_' = EventsAfter(rest)
             /\ pending' = queue \o Notices(data, rest)
  BY Zenon DEF sendInLoop
<1>1. CASE state_ = "kDisconnected" \/ n = -1
  <2>1. pending' = queue /\ UNCHANGED <<wire, outputBuffer_, accepted, events_>>
    BY <1>0, <1>1 DEF outVars
  <2>2. QED
    BY <1>t, <2>1, LenProperties DEF StreamIntact, isWriting
<1>2. CASE ~(state_ = "kDisconnected" \/ n = -1)
  <2> DEFINE rest == From(data, n)
  <2>1. n \in 0..Len(data) /\ (~WriteDirectly => n = 0)
    BY <1>0, <1>2, LenProperties DEF Written
  <2>2. /\ wire' = wire \o Upto(data, n)
        /\ outputBuffer_' = outputBuffer_ \o rest
        /\ accepted' = accepted \o data
        /\ events_' = EventsAfter(rest)
        /\ pending' = queue \o Notices(data, rest)
    BY <1>0, <1>2, Zenon
  <2>3. /\ Upto(data, n) \in Seq(Byte) /\ rest \in Seq(Byte)
        /\ Upto(data, n) \o rest = data
        /\ Len(Upto(data, n)) = n
    BY <2>1, Split
  <2>n. Notices(data, rest) \in Seq(FunctorSet)
    BY NoticeType, EmptySeq DEF Notices
  <2> HIDE DEF rest
  <2>4. /\ wire' \in Seq(Byte) /\ outputBuffer_' \in Seq(Byte)
        /\ accepted' \in Seq(Byte) /\ Len(wire') = Len(wire) + n
    BY <1>t, <2>2, <2>3, ConcatProperties
  <2>5. events_' \subseteq {"R", "W"}
    BY <1>t, <2>2 DEF EventsAfter
  <2>6. pending' \in Seq(FunctorSet) /\ (HasNotice(queue) => HasNotice(pending'))
    BY <2>2, <2>n, NoticeStays, ConcatProperties
  <2>7. ASSUME StreamIntact PROVE wire' \o outputBuffer_' = accepted'
    <3>1. CASE WriteDirectly
      <4>1. outputBuffer_' = rest /\ accepted = wire
        BY <1>t, <2>2, <2>3, <2>7, <3>1, ConcatEmptySeq DEF WriteDirectly, StreamIntact
      <4>2. (wire \o Upto(data, n)) \o rest = wire \o (Upto(data, n) \o rest)
        BY <1>t, <2>3, Assoc, ZenonT(40)
      <4>3. QED
        BY <2>2, <2>3, <4>1, <4>2
    <3>2. CASE ~WriteDirectly
      <4>1. wire' = wire /\ rest = data
        BY <1>t, <2>1, <2>2, <3>2, SplitNone, ConcatEmptySeq DEF rest
      <4>2. wire \o (outputBuffer_ \o data) = (wire \o outputBuffer_) \o data
        BY <1>t, Assoc, SMTT(30)
      <4>3. QED
        BY <2>2, <2>7, <4>1, <4>2 DEF StreamIntact
    <3>3. QED
      BY <3>1, <3>2
  <2>8. outputBuffer_' = <<>> <=> outputBuffer_ = <<>> /\ rest = <<>>
    BY <1>t, <2>2, <2>3, ConcatProperties, LenProperties
  <2>9. ASSUME isWriting <=> outputBuffer_ # <<>>
        PROVE  /\ "W" \in events_' <=> outputBuffer_' # <<>>
               /\ wrShut /\ outputBuffer_ = <<>> => outputBuffer_' = <<>>
    <3>1. "W" \in events_' <=> outputBuffer_' # <<>>
      BY <2>2, <2>8, <2>9 DEF EventsAfter, isWriting
    <3>2. ASSUME wrShut, outputBuffer_ = <<>> PROVE FALSE
      BY <1>0, <1>2, <2>9, <3>2 DEF WriteDirectly, Written, Broken
    <3>3. QED
      BY <3>1, <3>2
  <2>10. \/ outputBuffer_' # <<>> \/ HasNotice(pending')
         \/ outputBuffer_ = <<>> /\ Len(wire') = Len(wire)
    <3>1. CASE WriteDirectly /\ rest = <<>>
      <4>1. Notices(data, rest) = <<writeCompleteCallback_>>
        BY <3>1 DEF Notices
      <4>2. QED
        BY <2>2, <2>n, <4>1, NoticeType, NoticeStays
    <3>2. CASE WriteDirectly /\ rest # <<>>
      BY <2>8, <3>2
    <3>3. CASE ~WriteDirectly
      BY <2>1, <2>4, <2>8, <3>3, <1>t, LenProperties
    <3>4. QED
      BY <3>1, <3>2, <3>3
  <2>11. QED
    BY <2>4, <2>5, <2>6, <2>7, <2>9, <2>10, <1>t, <2>1, LenProperties
<1>3. QED
  BY <1>1, <1>2
-----------------------------------------------------------------------------
(* The inductive invariant. *)

\* The constructor, with connectEstablished queued, establishes the invariant.
LEMMA InitIInv == Init => IInv
<1> SUFFICES ASSUME Init PROVE IInv
  OBVIOUS
<1> USE DEF Init
<1>1. TypeOK
  <2>1. <<>> \in Seq(Byte) /\ Len(<<>>) = 0
    BY EmptySeq
  <2>2. msgs \in 0..MaxMsgs /\ reported \in 0..Len(wire)
    BY <2>1, BoundsAssumption
  <2>3. QED
    BY <2>1, <2>2 DEF TypeOK, States
<1>2. PendingOK
  BY EmptySeq DEF PendingOK, FunctorSet, Functor, Ops
<1>3. StreamIntact /\ WritingIffBuffered /\ FinAfterData /\ AnnouncedInv
  BY ConcatEmptySeq, EmptySeq
  DEF StreamIntact, WritingIffBuffered, FinAfterData, AnnouncedInv, Announced, isWriting
<1>4. QED
  BY <1>1, <1>2, <1>3 DEF IInv

\* The typing of the byte strings, spelled out.
LEMMA StringTypes ==
    ASSUME TypeOK
    PROVE  /\ wire \in Seq(Byte) /\ outputBuffer_ \in Seq(Byte)
           /\ accepted \in Seq(Byte) /\ file \in Seq(Byte)
           /\ Len(wire) \in Nat /\ Len(outputBuffer_) \in Nat /\ reported \in 0..Len(wire)
  BY LenProperties DEF TypeOK

\* A functor queued by anybody is one more functor, and takes no notice away.
LEMMA QueueOne ==
    ASSUME PendingOK, NEW op \in Ops, NEW d \in Seq(Byte),
           pending' = Append(pending, Functor(op, d))
    PROVE  PendingOK' /\ (HasNotice(pending) => HasNotice(pending'))
<1>1. Functor(op, d) \in FunctorSet
  BY DEF Functor, FunctorSet
<1>2. PendingOK'
  BY <1>1, AppendProperties DEF PendingOK
<1>3. ASSUME HasNotice(pending) PROVE HasNotice(pending')
  BY <1>1, <1>3, AppendProperties, LenProperties DEF PendingOK, HasNotice
<1>4. QED
  BY <1>2, <1>3

\* A send on the loop's thread keeps the invariant, given the queue it finds.
LEMMA SendKeeps ==
    ASSUME IInv, NEW data \in Seq(Byte), NEW queue \in Seq(FunctorSet),
           HasNotice(pending) => HasNotice(queue),
           sendInLoop(data, queue), file = <<>>,
           msgs' \in 0..MaxMsgs,
           UNCHANGED <<state_, registered, closed, wrShut, netVars, file, upc,
                       destroyCalled, reported>>
    PROVE  IInv'
<1> USE DEF netVars
<1>0. TypeOK
  BY DEF IInv
<1>1. /\ wire' \in Seq(Byte) /\ outputBuffer_' \in Seq(Byte)
      /\ accepted' \in Seq(Byte) /\ events_' \subseteq {"R", "W"}
      /\ Len(wire') >= Len(wire)
      /\ pending' \in Seq(FunctorSet)
      /\ HasNotice(queue) => HasNotice(pending')
      /\ StreamIntact => wire' \o outputBuffer_' = accepted'
      /\ (isWriting <=> outputBuffer_ # <<>>) =>
           /\ "W" \in events_' <=> outputBuffer_' # <<>>
           /\ wrShut /\ outputBuffer_ = <<>> => outputBuffer_' = <<>>
      /\ \/ outputBuffer_' # <<>> \/ HasNotice(pending')
         \/ outputBuffer_ = <<>> /\ Len(wire') = Len(wire)
  BY <1>0, SendEffect
<1>2. TypeOK'
  BY <1>0, <1>1, LenProperties DEF TypeOK
<1>3. PendingOK' /\ StreamIntact'
  BY <1>1 DEF IInv, PendingOK, StreamIntact
<1>4. WritingIffBuffered'
  BY <1>1 DEF IInv, WritingIffBuffered, isWriting
<1>5. FinAfterData'
  BY <1>1 DEF IInv, FinAfterData, WritingIffBuffered
<1>6. AnnouncedInv'
  BY <1>1 DEF IInv, AnnouncedInv, Announced, InSendFile, Broken
<1>7. QED
  BY <1>2, <1>3, <1>4, <1>5, <1>6 DEF IInv

\* Every handler, functor and call keeps the invariant.
LEMMA NextIInv == IInv /\ [Next]_vars => IInv'
<1> SUFFICES ASSUME IInv, [Next]_vars PROVE IInv'
  OBVIOUS
<1> USE DEF netVars, connVars, outVars
<1>t. /\ wire \in Seq(Byte) /\ outputBuffer_ \in Seq(Byte)
      /\ accepted \in Seq(Byte) /\ file \in Seq(Byte)
      /\ Len(wire) \in Nat /\ Len(outputBuffer_) \in Nat /\ reported \in 0..Len(wire)
  BY StringTypes DEF IInv
<1>p. pending \in Seq(FunctorSet)
  BY DEF IInv, PendingOK
<1>e. <<>> \in Seq(Byte)
  BY EmptySeq
<1> DEFINE Kept == /\ UNCHANGED <<outputBuffer_, wire, accepted, reported>>
                   /\ HasNotice(pending) => HasNotice(pending')
\* Steps that leave the stream alone only have to keep the types, and to be
\* careful with the flags the invariant speaks of.
<1>k. ASSUME TypeOK', PendingOK', Kept, (closed => closed'), (registered' => registered),
             \/ UNCHANGED <<events_, wrShut>>
             \/ events_' = {} /\ (closed' \/ ~registered') /\ UNCHANGED wrShut
             \/ wrShut' = (wrShut \/ ~isWriting) /\ UNCHANGED events_
             \/ events_' = events_ \cup {"R"} /\ UNCHANGED wrShut,
             Broken => Broken',
             \/ UNCHANGED state_ /\ (file' = file \/ file = <<>>)
             \/ file' = file /\ state_' # "kDisconnected"
             \/ file = <<>> /\ file' = <<>>
      PROVE  IInv'
  <2>1. StreamIntact'
    BY <1>k DEF IInv, StreamIntact
  <2>2. WritingIffBuffered'
    BY <1>k DEF IInv, WritingIffBuffered, isWriting
  <2>3. FinAfterData'
    BY <1>k DEF IInv, FinAfterData, WritingIffBuffered, isWriting
  <2>4. AnnouncedInv'
    BY <1>k DEF IInv, AnnouncedInv, Announced, InSendFile
  <2>5. QED
    BY <1>k, <2>1, <2>2, <2>3, <2>4 DEF IInv
<1> HIDE DEF Kept
<1>1. ASSUME NEW n \in MsgLens, LoopSend(n) PROVE IInv'
  <2>1. msgs' \in 1..MaxMsgs /\ n \in Nat
    BY <1>1, BoundsAssumption DEF LoopSend, IInv, TypeOK
  <2>2. Bytes(msgs', n) \in Seq(Byte)
    BY <2>1, BytesType
  <2>3. sendInLoop(Bytes(msgs', n), pending)
    BY <1>1, Zenon DEF LoopSend
  <2>4. QED
    BY <1>1, <1>p, <2>1, <2>2, <2>3, SendKeeps DEF LoopSend
<1>2. ASSUME NEW n \in FileLens, LoopSendFile(n) PROVE IInv'
  <2>1. msgs' \in 1..MaxMsgs /\ n \in Nat
    BY <1>2, BoundsAssumption DEF FileLens, LoopSendFile, IInv, TypeOK
  <2>2. file' \in Seq(Byte)
    BY <1>2, <2>1, BytesType DEF LoopSendFile
  <2>3. TypeOK' /\ PendingOK' /\ Kept
    BY <1>2, <2>1, <2>2 DEF LoopSendFile, IInv, TypeOK, PendingOK, Kept
  <2>4. QED
    BY <1>2, <2>3, <1>k DEF LoopSendFile, Broken
<1>3. CASE LoopShutdown
  <2>1. TypeOK' /\ PendingOK' /\ Kept
    BY <1>3 DEF LoopShutdown, shutdownInLoop, IInv, TypeOK, PendingOK, Kept, States
  <2>2. QED
    BY <1>3, <2>1, <1>k DEF LoopShutdown, shutdownInLoop, isWriting, Broken
<1>4. ASSUME NEW u \in Users, NEW op \in {"send", "sendFile", "shutdown"}, UserTests(u, op)
      PROVE  IInv'
  <2>1. TypeOK' /\ PendingOK' /\ Kept
    BY <1>4 DEF UserTests, UserUnchanged, IInv, TypeOK, PendingOK, Kept
  <2>2. QED
    BY <1>4, <2>1, <1>k DEF UserTests, UserUnchanged, Broken
<1>5. ASSUME NEW u \in Users, NEW n \in MsgLens, UserSends(u, n) \/ UserSendsFile(u, n)
      PROVE  IInv'
  <2>1. msgs' \in 1..MaxMsgs /\ n \in Nat
    BY <1>5, BoundsAssumption DEF UserSends, UserSendsFile, IInv, TypeOK
  <2>2. Bytes(msgs', n) \in Seq(Byte)
    BY <2>1, BytesType
  <2>3. PendingOK' /\ Kept
    BY <1>5, <2>2, QueueOne DEF UserSends, UserSendsFile, UserUnchanged, IInv, Ops, Kept
  <2>4. TypeOK'
    <3>1. /\ UNCHANGED <<UserUnchanged, state_>>
          /\ upc' = [upc EXCEPT ![u] = "idle"]
      BY <1>5 DEF UserSends, UserSendsFile
    <3>2. QED
      BY <2>1, <3>1 DEF UserUnchanged, IInv, TypeOK
  <2>5. QED
    BY <1>5, <2>3, <2>4, <1>k DEF UserSends, UserSendsFile, UserUnchanged, Broken
<1>6. ASSUME NEW u \in Users, UserSetsState(u) PROVE IInv'
  <2>1. TypeOK' /\ PendingOK' /\ Kept
    BY <1>6 DEF UserSetsState, UserUnchanged, IInv, TypeOK, PendingOK, Kept, States
  <2>2. QED
    BY <1>6, <2>1, <1>k DEF UserSetsState, UserUnchanged, Broken
<1>7. ASSUME NEW u \in Users, UserQueuesShutdown(u) PROVE IInv'
  <2>1. PendingOK' /\ Kept
    BY <1>7, <1>e, QueueOne DEF UserQueuesShutdown, UserUnchanged, IInv, Ops, Kept
  <2>2. TypeOK'
    BY <1>7 DEF UserQueuesShutdown, UserUnchanged, IInv, TypeOK
  <2>3. QED
    BY <1>7, <2>1, <2>2, <1>k DEF UserQueuesShutdown, UserUnchanged, Broken
<1>8. ASSUME NEW u \in Users, UserGivesUp(u) PROVE IInv'
  <2>1. TypeOK' /\ PendingOK' /\ Kept
    BY <1>8 DEF UserGivesUp, UserUnchanged, IInv, TypeOK, PendingOK, Kept
  <2>2. QED
    BY <1>8, <2>1, <1>k DEF UserGivesUp, UserUnchanged, Broken
<1>9. CASE RunFunctor
  <2> DEFINE f == Head(pending)
  <2> DEFINE rest == Tail(pending)
  <2>1. /\ file = <<>> /\ pending # <<>>
        /\ UNCHANGED <<closed, netVars, callbacks, upc, msgs, destroyCalled>>
    BY <1>9 DEF RunFunctor, LoopIdle
  <2>2. /\ f \in FunctorSet /\ rest \in Seq(FunctorSet)
        /\ HasNotice(pending) /\ f.op # "writeComplete" => HasNotice(rest)
    BY <1>p, <2>1, HeadTailProperties, NoticeNext
  <2>3. f.data \in Seq(Byte)
    BY <2>2 DEF FunctorSet
  <2>4. CASE f.op = "connectEstablished" /\ connectEstablished /\ pending' = rest
             /\ UNCHANGED <<outVars, wrShut, file, reported>>
    <3>1. TypeOK' /\ PendingOK' /\ Kept
      BY <2>1, <2>2, <2>4 DEF connectEstablished, IInv, TypeOK, PendingOK, Kept, States
    <3>2. QED
      BY <2>1, <2>4, <3>1, <1>k DEF connectEstablished, Broken
  <2>5. CASE f.op = "connectDestroyed" /\ connectDestroyed /\ pending' = rest
             /\ UNCHANGED <<outVars, wrShut, file, reported>>
    <3>1. TypeOK' /\ PendingOK' /\ Kept
      BY <2>1, <2>2, <2>5 DEF connectDestroyed, IInv, TypeOK, PendingOK, Kept, States
    <3>2. QED
      BY <2>1, <2>5, <3>1, <1>k DEF connectDestroyed, Broken
  <2>6. ASSUME f.op = "send",
               NEW data \in BoundBytes(f.data), sendInLoop(data, rest),
               UNCHANGED <<state_, registered, wrShut, file, reported>>
        PROVE  IInv'
    <3>1. data \in Seq(Byte)
      BY <2>3, <2>6, BoundType
    <3>2. msgs' \in 0..MaxMsgs
      BY <2>1 DEF IInv, TypeOK
    <3> HIDE DEF rest
    <3>3. QED
      BY <2>1, <2>2, <2>6, <3>1, <3>2, SendKeeps
  <2>7. CASE f.op = "sendFile" /\ file' = f.data /\ pending' = rest
             /\ UNCHANGED <<state_, events_, registered, outVars, wrShut, reported>>
    <3>1. TypeOK' /\ PendingOK' /\ Kept
      BY <2>1, <2>2, <2>3, <2>7 DEF IInv, TypeOK, PendingOK, Kept
    <3>2. QED
      BY <2>1, <2>7, <3>1, <1>k DEF Broken
  <2>8. CASE f.op = "shutdown" /\ shutdownInLoop(events_) /\ pending' = rest
             /\ UNCHANGED <<state_, events_, registered, outVars, file, reported>>
    <3>1. TypeOK' /\ PendingOK' /\ Kept
      BY <2>1, <2>2, <2>8 DEF shutdownInLoop, IInv, TypeOK, PendingOK, Kept
    <3>2. QED
      BY <2>1, <2>8, <3>1, <1>k DEF shutdownInLoop, isWriting, Broken
  <2>9. CASE f.op = "writeComplete" /\ reported' = Len(wire) /\ pending' = rest
             /\ UNCHANGED <<state_, events_, registered, outVars, wrShut, file>>
    <3>1. TypeOK' /\ PendingOK'
      BY <1>t, <2>1, <2>2, <2>9 DEF IInv, TypeOK, PendingOK
    <3>2. StreamIntact' /\ WritingIffBuffered' /\ FinAfterData'
      BY <2>1, <2>9 DEF IInv, StreamIntact, WritingIffBuffered, FinAfterData, isWriting
    <3>3. AnnouncedInv'
      BY <1>t, <2>9 DEF AnnouncedInv, Announced
    <3>4. QED
      BY <3>1, <3>2, <3>3 DEF IInv
  <2>10. CASE f.op = "highWaterMark" /\ pending' = rest
              /\ UNCHANGED <<state_, events_, registered, outVars, wrShut, file, reported>>
    <3>1. TypeOK' /\ PendingOK' /\ Kept
      BY <2>1, <2>2, <2>10 DEF IInv, TypeOK, PendingOK, Kept
    <3>2. QED
      BY <2>1, <2>10, <3>1, <1>k DEF Broken
  <2> HIDE DEF f, rest
  <2>11. QED
    BY <1>9, <2>4, <2>5, <2>6, <2>7, <2>8, <2>9, <2>10, Zenon DEF RunFunctor, f, rest
<1>10. CASE sendFileInLoop
  <2>1. /\ file # <<>>
        /\ UNCHANGED <<connVars, outputBuffer_, wrShut, netVars, callbacks, upc, msgs,
                       destroyCalled, reported>>
    BY <1>10 DEF sendFileInLoop
  <2>2. PICK n \in IF WriteDirectly THEN Written(file) ELSE {0} :
        IF state_ = "kDisconnected" \/ n = -1
        THEN file' = <<>> /\ UNCHANGED <<wire, accepted, pending>>
        ELSE /\ wire' = wire \o Upto(file, n)
             /\ accepted' = accepted \o Upto(file, n)
             /\ file' = From(file, n)
             /\ pending' = IF file' = <<>> THEN Append(pending, writeCompleteCallback_)
                           ELSE pending
    BY <1>10, Zenon DEF sendFileInLoop
  <2>3. CASE state_ = "kDisconnected" \/ n = -1
    <3>1. file' = <<>> /\ UNCHANGED <<wire, accepted, pending>>
      BY <2>2, <2>3
    <3>2. TypeOK' /\ PendingOK' /\ StreamIntact'
      BY <1>e, <2>1, <3>1 DEF IInv, TypeOK, PendingOK, StreamIntact
    <3>3. WritingIffBuffered' /\ FinAfterData'
      BY <2>1, <3>1 DEF IInv, WritingIffBuffered, FinAfterData, isWriting
    <3>4. n = -1 => Broken
      BY <1>t, <2>2 DEF Written
    <3>5. AnnouncedInv'
      BY <2>1, <2>3, <3>1, <3>4 DEF IInv, AnnouncedInv, Announced, Broken
    <3>6. QED
      BY <3>2, <3>3, <3>5 DEF IInv
  <2>4. CASE ~(state_ = "kDisconnected" \/ n = -1)
    <3>1. n \in 0..Len(file) /\ (~WriteDirectly => n = 0)
      BY <1>t, <2>2, <2>4, LenProperties DEF Written
    <3>2. /\ wire' = wire \o Upto(file, n)
          /\ accepted' = accepted \o Upto(file, n)
          /\ file' = From(file, n)
          /\ pending' = IF file' = <<>> THEN Append(pending, writeCompleteCallback_)
                        ELSE pending
      BY <2>2, <2>4, Zenon
    <3>3. Upto(file, n) \in Seq(Byte) /\ From(file, n) \in Seq(Byte)
      BY <1>t, <3>1, Split
    <3>4. /\ wire' \in Seq(Byte) /\ accepted' \in Seq(Byte) /\ file' \in Seq(Byte)
          /\ Len(wire') >= Len(wire) /\ Len(wire') \in Nat
      BY <1>t, <3>2, <3>3, ConcatProperties, LenProperties
    <3>5. TypeOK'
      BY <2>1, <3>4 DEF IInv, TypeOK
    <3>6. PendingOK' /\ (file' = <<>> => HasNotice(pending'))
      BY <1>p, <3>2, NoticeType, AppendProperties, LenProperties, SMTT(30) DEF PendingOK, HasNotice
    <3>7. StreamIntact'
      <4>1. CASE WriteDirectly
        <5>1. accepted = wire /\ outputBuffer_' = <<>>
          BY <1>t, <2>1, <4>1, ConcatEmptySeq DEF IInv, StreamIntact, WriteDirectly
        <5>2. QED
          BY <3>2, <3>4, <5>1, ConcatEmptySeq DEF StreamIntact
      <4>2. CASE ~WriteDirectly
        <5>1. wire' = wire /\ accepted' = accepted
          BY <1>t, <3>1, <3>2, <4>2, SplitNone, ConcatEmptySeq
        <5>2. QED
          BY <2>1, <5>1 DEF IInv, StreamIntact
      <4>3. QED
        BY <4>1, <4>2
    <3>8. WritingIffBuffered' /\ FinAfterData'
      BY <2>1 DEF IInv, WritingIffBuffered, FinAfterData, isWriting
    <3>9. AnnouncedInv'
      BY <2>1, <2>4, <3>6 DEF AnnouncedInv, Announced, InSendFile
    <3>10. QED
      BY <3>5, <3>6, <3>7, <3>8, <3>9 DEF IInv
  <2>5. QED
    BY <2>3, <2>4
<1>11. CASE QueueDestroyed
  <2>1. PendingOK' /\ Kept
    BY <1>11, <1>e, QueueOne DEF QueueDestroyed, IInv, Ops, Kept
  <2>2. TypeOK'
    BY <1>11 DEF QueueDestroyed, IInv, TypeOK
  <2>3. QED
    BY <1>11, <2>1, <2>2, <1>k DEF QueueDestroyed, Broken
<1>12. ASSUME NEW revents, PollEvent(revents) PROVE IInv'
  <2>1. TypeOK' /\ PendingOK' /\ Kept
    BY <1>12 DEF PollEvent, IInv, TypeOK, PendingOK, Kept
  <2>2. QED
    BY <1>12, <2>1, <1>k DEF PollEvent, Broken
<1>13. CASE OnClose \/ handleError \/ handleRead
  <2>1. /\ UNCHANGED HandlerUnchanged /\ file = <<>> /\ sockErr' \in BOOLEAN
        /\ \/ UNCHANGED <<state_, events_, closed>>
           \/ state_' = "kDisconnected" /\ events_' = {} /\ closed' = TRUE
    BY <1>13
    DEF OnClose, handleError, handleRead, handleClose, HandlerUnchanged, Take, IInv, TypeOK
  <2>2. TypeOK' /\ PendingOK' /\ Kept
    BY <2>1 DEF HandlerUnchanged, IInv, TypeOK, PendingOK, Kept, States
  <2>3. QED
    BY <2>1, <2>2, <1>k DEF HandlerUnchanged, Broken, IInv, TypeOK
<1>14. CASE handleWrite
  <2>1. /\ file = <<>>
        /\ UNCHANGED <<accepted, state_, registered, closed, netVars, file, upc, msgs,
                       destroyCalled, reported>>
    BY <1>14 DEF handleWrite, Take
  <2>2. CASE isWriting /\ ~Broken
    <3>1. PICK n \in 1..Len(outputBuffer_) :
            /\ wire' = wire \o Upto(outputBuffer_, n)
            /\ outputBuffer_' = From(outputBuffer_, n)
            /\ events_' = EventsAfterWrite(From(outputBuffer_, n))
            /\ pending' = pending \o DrainNotice(From(outputBuffer_, n))
            /\ IF ShutdownWaits THEN shutdownInLoop(events_') ELSE UNCHANGED wrShut
      BY <1>14, <2>2, Zenon DEF handleWrite
    <3> DEFINE left == From(outputBuffer_, n)
    <3>0. n \in 0..Len(outputBuffer_)
      BY <1>t
    <3>2. /\ Upto(outputBuffer_, n) \in Seq(Byte) /\ left \in Seq(Byte)
          /\ Upto(outputBuffer_, n) \o left = outputBuffer_
      BY <1>t, <3>0, Split
    <3> HIDE DEF left
    <3>3. wire' \in Seq(Byte) /\ Len(wire') >= Len(wire) /\ Len(wire') \in Nat
      BY <1>t, <3>1, <3>2, ConcatProperties, LenProperties
    <3>4. TypeOK'
      <4>1. events_' \subseteq {"R", "W"} /\ wrShut' \in BOOLEAN
        BY <3>1 DEF IInv, TypeOK, EventsAfterWrite, shutdownInLoop
      <4>2. outputBuffer_' \in Seq(Byte)
        BY <3>1, <3>2 DEF left
      <4>3. QED
        BY <2>1, <3>3, <4>1, <4>2 DEF IInv, TypeOK
    <3>5. PendingOK' /\ (left = <<>> => HasNotice(pending'))
      <4>1. /\ DrainNotice(left) \in Seq(FunctorSet)
            /\ left = <<>> => HasNotice(DrainNotice(left))
        BY NoticeType, EmptySeq DEF DrainNotice
      <4>2. QED
        BY <1>p, <3>1, <4>1, NoticeStays, ConcatProperties DEF left, PendingOK
    <3>6. StreamIntact'
      <4>1. (wire \o Upto(outputBuffer_, n)) \o left = wire \o (Upto(outputBuffer_, n) \o left)
        BY <1>t, <3>2, Assoc, ZenonT(40)
      <4>2. QED
        BY <2>1, <3>1, <3>2, <4>1 DEF left, IInv, StreamIntact
    <3>7. WritingIffBuffered'
      BY <2>1, <2>2, <3>1 DEF IInv, WritingIffBuffered, isWriting, EventsAfterWrite
    <3>8. FinAfterData'
      BY <2>1, <2>2, <3>1
      DEF FinAfterData, Broken, isWriting, EventsAfterWrite, shutdownInLoop
    <3>9. AnnouncedInv'
      BY <3>1, <3>5 DEF left, AnnouncedInv, Announced
    <3>10. QED
      BY <3>4, <3>5, <3>6, <3>7, <3>8, <3>9 DEF IInv
  <2>3. CASE ~(isWriting /\ ~Broken)
    <3>1. UNCHANGED <<wire, outputBuffer_, events_, pending, wrShut>>
      BY <1>14, <2>3, Zenon DEF handleWrite
    <3>2. TypeOK' /\ PendingOK' /\ Kept
      BY <2>1, <3>1 DEF IInv, TypeOK, PendingOK, Kept
    <3>3. QED
      BY <2>1, <3>1, <3>2, <1>k DEF Broken
  <2>4. QED
    BY <2>2, <2>3
<1>15. CASE PeerActs
  <2>1. TypeOK' /\ PendingOK' /\ Kept
    BY <1>15 DEF PeerActs, IInv, TypeOK, PendingOK, Kept
  <2>2. Broken => Broken'
    BY <1>15 DEF PeerActs, Broken
  <2>3. QED
    BY <1>15, <2>1, <2>2, <1>k DEF PeerActs
<1>16. CASE UNCHANGED vars
  <2>1. TypeOK' /\ PendingOK' /\ Kept
    BY <1>16 DEF vars, IInv, TypeOK, PendingOK, Kept
  <2>2. QED
    BY <1>16, <2>1, <1>k DEF vars, Broken
<1>17. CASE Over
  BY <1>16, <1>17 DEF Over
<1>18. QED
  BY <1>1, <1>2, <1>3, <1>4, <1>5, <1>6, <1>7, <1>8, <1>9, <1>10, <1>11, <1>12, <1>13,
     <1>14, <1>15, <1>16, <1>17, Zenon
  DEF Next, UserStep, Poll, Handlers, FileLens

\* The inductive invariant holds in every execution.
THEOREM Invariance == Spec => []IInv
  BY InitIInv, NextIInv, PTL DEF Spec

\* Every member of the connection keeps its declared type.
THEOREM TypeCorrect == Spec => []TypeOK
<1>1. IInv => TypeOK
  BY DEF IInv
<1>2. QED
  BY <1>1, Invariance, PTL

\* Whatever mixture of direct writes, buffered writes, files and shutdowns
\* happens, the bytes sent and the bytes waiting are the bytes taken over.
THEOREM StreamNeverBroken == Spec => []StreamIntact
<1>1. IInv => StreamIntact
  BY DEF IInv
<1>2. QED
  BY <1>1, Invariance, PTL

\* enableWriting and disableWriting keep EPOLLOUT in step with outputBuffer_.
THEOREM WritingMatchesBuffer == Spec => []WritingIffBuffered
<1>1. IInv => WritingIffBuffered
  BY DEF IInv
<1>2. QED
  BY <1>1, Invariance, PTL

\* shutdownInLoop, called at once or put off to handleWrite, never sends the FIN
\* before buffered bytes.
THEOREM FinNeverEarly == Spec => []FinAfterData
<1>1. IInv => FinAfterData
  BY DEF IInv
<1>2. QED
  BY <1>1, Invariance, PTL

\* sendInLoop, handleWrite and sendFileInLoop between them miss no completion.
THEOREM CompletionNeverMissed == Spec => []CompletionAnnounced
<1>1. IInv => CompletionAnnounced
  BY DEF IInv, AnnouncedInv, Announced, CompletionAnnounced, HasNotice
<1>2. QED
  BY <1>1, Invariance, PTL
=============================================================================
