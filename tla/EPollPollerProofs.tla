-------------------------- MODULE EPollPollerProofs --------------------------
(***************************************************************************)
(* For any number of channels and descriptors: the poller, the channels    *)
(* and the kernel agree, and epoll_ctl never fails fatally.                *)
(***************************************************************************)
EXTENDS EPollPoller, TLAPS

\* Descriptors of live channels are distinct, so the entries of one channel are
\* never another's.
OneChannelPerFd ==
    \A c, d \in Channels :
        life[c] = "live" /\ life[d] = "live" /\ fd_[c] = fd_[d] => c = d

\* A channel that is not constructed yet, or gone, is not in the poller.
FreshChannels == \A c \in Channels : life[c] # "live" => index_[c] = kNew

\* Membership in the map follows index_.
MapMatchesIndex ==
    \A c \in Channels :
        life[c] = "live" =>
            channels_[fd_[c]] = IF index_[c] = kNew THEN None ELSE c

\* A descriptor no live channel holds is nowhere.
ClosedFdsFree ==
    \A fd \in Fds :
        (\A c \in Channels : life[c] = "live" => fd_[c] # fd) =>
            channels_[fd] = None /\ epoll[fd] = Unregistered

IInv ==
    /\ TypeOK
    /\ NeverFatal
    /\ OneChannelPerFd
    /\ FreshChannels
    /\ KernelMatchesIndex
    /\ MapMatchesIndex
    /\ ClosedFdsFree

EntryType == [chan : Channels \cup {None}, events : SUBSET Interest]

\* The two kinds of entry of the epoll set.
LEMMA Entries ==
    /\ Unregistered \in EntryType
    /\ Unregistered.chan = None
    /\ \A c \in Channels, ev \in SUBSET Interest :
            /\ [chan |-> c, events |-> ev] \in EntryType
            /\ [chan |-> c, events |-> ev].chan = c
            /\ c # None
  BY NoneAssumption DEF Unregistered, EntryType

\* An empty epoll set and map satisfy the invariant.
LEMMA InitIInv == Init => IInv
<1> SUFFICES ASSUME Init PROVE IInv
  OBVIOUS
<1> USE DEF Init
<1>1. epoll \in [Fds -> EntryType]
  BY Entries
<1>2. TypeOK
  BY <1>1 DEF TypeOK, EntryType, kNew
<1>3. NeverFatal /\ OneChannelPerFd /\ FreshChannels
  BY DEF NeverFatal, OneChannelPerFd, FreshChannels
<1>4. KernelMatchesIndex /\ MapMatchesIndex
  BY DEF KernelMatchesIndex, MapMatchesIndex, Live
<1>5. ClosedFdsFree
  BY DEF ClosedFdsFree
<1>6. QED
  BY <1>2, <1>3, <1>4, <1>5 DEF IInv

\* The operation updateChannel chooses always succeeds.
LEMMA UpdateStep ==
    ASSUME IInv, NEW c \in Channels, life[c] = "live", NEW ev \in SUBSET Interest,
           updateChannel(c, ev)
    PROVE  IInv'
<1> DEFINE fd == fd_[c]
           op == CtlFor(c, ev)
<1> USE DEF IInv, TypeOK
<1>1. fd \in Fds
  OBVIOUS
<1>2. ~CtlFails(op, fd)
  <2>1. CASE index_[c] = kAdded
    <3>1. epoll[fd] = [chan |-> c, events |-> events_[c]]
      BY <2>1 DEF KernelMatchesIndex, Live
    <3>2. epoll[fd].chan = c /\ c # None
      BY <3>1, Entries
    <3>3. QED
      BY <2>1, <3>2 DEF CtlFails, CtlFor, Registered
  <2>2. CASE index_[c] # kAdded
    <3>1. epoll[fd] = Unregistered
      BY <2>2 DEF KernelMatchesIndex, Live
    <3>2. epoll[fd].chan = None
      BY <3>1, Entries
    <3>3. QED
      BY <2>2, <3>2 DEF CtlFails, CtlFor, Registered
  <2>3. QED
    BY <2>1, <2>2
<1>3. /\ aborted' = FALSE
      /\ epoll' = [epoll EXCEPT ![fd] = IF op = "DEL" THEN Unregistered
                                        ELSE [chan |-> c, events |-> ev]]
  BY <1>2 DEF updateChannel, update, NeverFatal
<1>4. /\ events_' = [events_ EXCEPT ![c] = ev]
      /\ channels_' = IF index_[c] = kNew THEN [channels_ EXCEPT ![fd] = c] ELSE channels_
      /\ index_' = [index_ EXCEPT ![c] = IF op = "DEL" THEN kDeleted ELSE kAdded]
      /\ UNCHANGED <<life, fd_, activeChannels_>>
  BY DEF updateChannel
<1>5. op = "DEL" => ev = {}
  BY DEF CtlFor, isNoneEvent
<1>6. TypeOK'
  <2>1. epoll' \in [Fds -> EntryType]
    BY <1>1, <1>3, Entries DEF EntryType
  <2>2. QED
    BY <1>1, <1>3, <1>4, <2>1 DEF EntryType, kAdded, kDeleted
<1>7. NeverFatal' /\ OneChannelPerFd'
  BY <1>3, <1>4 DEF NeverFatal, OneChannelPerFd
<1>8. FreshChannels'
  BY <1>4 DEF FreshChannels
<1>9. KernelMatchesIndex'
  <2> SUFFICES ASSUME NEW d \in Channels, life[d] = "live"
               PROVE  (IF index_[d] = kAdded
                       THEN epoll[fd_[d]] = [chan |-> d, events |-> events_[d]]
                       ELSE epoll[fd_[d]] = Unregistered)'
    BY <1>4 DEF KernelMatchesIndex, Live
  <2>1. CASE d = c
    BY <1>1, <1>3, <1>4, <2>1 DEF kAdded, kDeleted
  <2>2. CASE d # c
    <3>1. fd_[d] # fd
      BY <2>2 DEF OneChannelPerFd
    <3>2. QED
      BY <1>3, <1>4, <2>2, <3>1 DEF KernelMatchesIndex, Live
  <2>3. QED
    BY <2>1, <2>2
<1>10. MapMatchesIndex'
  <2> SUFFICES ASSUME NEW d \in Channels, life[d] = "live"
               PROVE  (channels_[fd_[d]] = IF index_[d] = kNew THEN None ELSE d)'
    BY <1>4 DEF MapMatchesIndex
  <2>1. CASE d = c
    BY <1>1, <1>4, <2>1 DEF MapMatchesIndex, kNew, kAdded, kDeleted
  <2>2. CASE d # c
    <3>1. fd_[d] # fd
      BY <2>2 DEF OneChannelPerFd
    <3>2. QED
      BY <1>4, <2>2, <3>1 DEF MapMatchesIndex
  <2>3. QED
    BY <2>1, <2>2
<1>11. ClosedFdsFree'
  BY <1>3, <1>4 DEF ClosedFdsFree
<1>12. QED
  BY <1>6, <1>7, <1>8, <1>9, <1>10, <1>11

\* remove() takes a channel out of the map and, if it is there, of the set.
LEMMA RemoveStep ==
    ASSUME IInv, NEW c \in Channels, life[c] = "live", removeChannel(c)
    PROVE  IInv'
<1> DEFINE fd == fd_[c]
<1> USE DEF IInv, TypeOK
<1>1. fd \in Fds
  OBVIOUS
<1>2. aborted' = FALSE /\ epoll' = [epoll EXCEPT ![fd] = Unregistered]
  <2>1. CASE index_[c] = kAdded
    <3>0. epoll[fd] = [chan |-> c, events |-> events_[c]]
      BY <2>1 DEF KernelMatchesIndex, Live
    <3>1. epoll[fd].chan = c /\ c # None
      BY <3>0, Entries
    <3>2. ~CtlFails("DEL", fd)
      BY <3>1 DEF CtlFails, Registered
    <3>3. QED
      BY <2>1, <3>2 DEF removeChannel, RemoveFromSet, update, NeverFatal
  <2>2. CASE index_[c] # kAdded
    <3>1. epoll[fd] = Unregistered
      BY <2>2 DEF KernelMatchesIndex, Live
    <3>2. QED
      BY <1>1, <2>2, <3>1 DEF removeChannel, RemoveFromSet, NeverFatal
  <2>3. QED
    BY <2>1, <2>2
<1>3. /\ channels_' = [channels_ EXCEPT ![fd] = None]
      /\ index_' = [index_ EXCEPT ![c] = kNew]
      /\ UNCHANGED <<life, fd_, events_, activeChannels_>>
  BY DEF removeChannel, EraseFd
<1>4. TypeOK'
  <2>1. epoll' \in [Fds -> EntryType]
    BY <1>1, <1>2, Entries DEF EntryType
  <2>2. QED
    BY <1>1, <1>2, <1>3, <2>1 DEF EntryType, kNew
<1>5. NeverFatal' /\ OneChannelPerFd' /\ FreshChannels'
  BY <1>2, <1>3 DEF NeverFatal, OneChannelPerFd, FreshChannels
<1>6. KernelMatchesIndex' /\ MapMatchesIndex'
  <2> SUFFICES ASSUME NEW d \in Channels, life[d] = "live"
               PROVE  /\ (IF index_[d] = kAdded
                          THEN epoll[fd_[d]] = [chan |-> d, events |-> events_[d]]
                          ELSE epoll[fd_[d]] = Unregistered)'
                      /\ (channels_[fd_[d]] = IF index_[d] = kNew THEN None ELSE d)'
    BY <1>3 DEF KernelMatchesIndex, MapMatchesIndex, Live
  <2>1. CASE d = c
    BY <1>1, <1>2, <1>3, <2>1 DEF kAdded, kNew
  <2>2. CASE d # c
    <3>1. fd_[d] # fd
      BY <2>2 DEF OneChannelPerFd
    <3>2. QED
      BY <1>2, <1>3, <2>2, <3>1 DEF KernelMatchesIndex, MapMatchesIndex, Live
  <2>3. QED
    BY <2>1, <2>2
<1>7. ClosedFdsFree'
  BY <1>2, <1>3 DEF ClosedFdsFree
<1>8. QED
  BY <1>4, <1>5, <1>6, <1>7

\* Construction takes a free descriptor; destruction leaves a free one.
LEMMA LifeStep ==
    ASSUME IInv, NEW c \in Channels,
           (\E fd \in Fds : Construct(c, fd)) \/ Destroy(c)
    PROVE  IInv'
<1> USE DEF IInv, TypeOK
<1>1. ASSUME NEW fd \in Fds, Construct(c, fd) PROVE IInv'
  <2>1. /\ life[c] = "unborn"
        /\ \A d \in Channels : life[d] = "live" => fd_[d] # fd
        /\ life' = [life EXCEPT ![c] = "live"]
        /\ fd_' = [fd_ EXCEPT ![c] = fd]
        /\ UNCHANGED <<events_, index_, channels_, epoll, activeChannels_, aborted>>
    BY <1>1 DEF Construct, Live
  <2>2. index_[c] = kNew /\ channels_[fd] = None /\ epoll[fd] = Unregistered
    BY <2>1 DEF FreshChannels, ClosedFdsFree
  <2>3. TypeOK' /\ NeverFatal' /\ OneChannelPerFd' /\ FreshChannels'
    BY <2>1 DEF NeverFatal, OneChannelPerFd, FreshChannels
  <2>4. KernelMatchesIndex' /\ MapMatchesIndex'
    BY <2>1, <2>2 DEF KernelMatchesIndex, MapMatchesIndex, Live, kNew, kAdded
  <2>5. ClosedFdsFree'
    BY <2>1 DEF ClosedFdsFree
  <2>6. QED
    BY <2>3, <2>4, <2>5
<1>2. CASE Destroy(c)
  <2> DEFINE fd == fd_[c]
  <2>1. /\ life[c] = "live" /\ index_[c] = kNew
        /\ life' = [life EXCEPT ![c] = "destroyed"]
        /\ epoll' = [epoll EXCEPT ![fd] = Unregistered]
        /\ UNCHANGED <<fd_, events_, index_, channels_, activeChannels_, aborted>>
    BY <1>2 DEF Destroy
  <2>2. channels_[fd] = None /\ epoll[fd] = Unregistered
    BY <2>1 DEF MapMatchesIndex, KernelMatchesIndex, Live, kNew, kAdded
  <2>3. epoll' = epoll
    BY <2>1, <2>2
  <2>4. TypeOK' /\ NeverFatal' /\ OneChannelPerFd' /\ FreshChannels'
    BY <2>1, <2>3 DEF NeverFatal, OneChannelPerFd, FreshChannels
  <2>5. KernelMatchesIndex' /\ MapMatchesIndex'
    BY <2>1, <2>3 DEF KernelMatchesIndex, MapMatchesIndex, Live
  <2>6. ClosedFdsFree'
    BY <2>1, <2>2, <2>3 DEF ClosedFdsFree
  <2>7. QED
    BY <2>4, <2>5, <2>6
<1>3. QED
  BY <1>1, <1>2

\* Every call on the loop's thread keeps the invariant.
LEMMA NextIInv == IInv /\ [Next]_vars => IInv'
<1> SUFFICES ASSUME IInv, [Next]_vars PROVE IInv'
  OBVIOUS
<1>a. ASSUME UNCHANGED <<life, fd_, events_, index_, channels_, epoll, aborted>>,
             activeChannels_' \subseteq Channels
      PROVE  IInv'
  BY <1>a DEF IInv, TypeOK, NeverFatal, OneChannelPerFd, FreshChannels,
      KernelMatchesIndex, MapMatchesIndex, ClosedFdsFree, Live
<1>1. CASE poll
  <2>1. PICK fds \in SUBSET {fd \in Fds : Registered(fd)} :
            activeChannels_' = {epoll[fd].chan : fd \in fds}
    BY <1>1 DEF poll
  <2>2. \A fd \in fds : epoll[fd].chan \in Channels
    BY DEF IInv, TypeOK, Registered
  <2>3. QED
    BY <1>1, <1>a, <2>1, <2>2 DEF poll
<1>2. ASSUME NEW c \in Channels, Operation(c) PROVE IInv'
  <2>1. ASSUME NEW ev \in SUBSET Interest, updateChannel(c, ev) PROVE IInv'
    BY <1>2, <2>1, UpdateStep DEF Operation
  <2>2. CASE removeChannel(c)
    BY <1>2, <2>2, RemoveStep DEF Operation
  <2>3. events_[c] \in SUBSET Interest /\ {kReadEvent, kWriteEvent} \subseteq Interest
    BY DEF IInv, TypeOK, Interest, kReadEvent, kWriteEvent
  <2>4. QED
    BY <1>2, <2>1, <2>2, <2>3
    DEF Operation, enableReading, diableReading, enableWriting, disableWriting,
        disableAll, setCallback, remove
<1>3. ASSUME NEW c \in Channels, handleEvent(c) PROVE IInv'
  BY <1>3, <1>a DEF handleEvent, IInv, TypeOK
<1>4. CASE UNCHANGED vars
  BY <1>4, <1>a DEF vars, IInv, TypeOK
<1>5. QED
  BY <1>1, <1>2, <1>3, <1>4, LifeStep DEF Next

\* The inductive invariant holds for every sequence of calls.
THEOREM Invariance == Spec => []IInv
  BY InitIInv, NextIInv, PTL DEF Spec

\* Channel and poller keep their types.
THEOREM TypeCorrect == Spec => []TypeOK
<1>1. IInv => TypeOK
  BY DEF IInv
<1>2. QED
  BY <1>1, Invariance, PTL

\* The kernel's epoll set is what the channels' index_ and events_ say.
THEOREM KernelInSync == Spec => []KernelMatchesIndex
<1>1. IInv => KernelMatchesIndex
  BY DEF IInv
<1>2. QED
  BY <1>1, Invariance, PTL

\* EPollPoller::update never reaches LOG_FATAL.
THEOREM EpollCtlNeverFatal == Spec => []NeverFatal
<1>1. IInv => NeverFatal
  BY DEF IInv
<1>2. QED
  BY <1>1, Invariance, PTL

\* Neither the map nor the kernel keeps a pointer to a destroyed channel.
THEOREM PointersLive == Spec => []NoDanglingChannel
<1>1. IInv => NoDanglingChannel
  <2> SUFFICES ASSUME IInv, NEW fd \in Fds
               PROVE  /\ Registered(fd) => channels_[fd] = epoll[fd].chan
                      /\ channels_[fd] # None =>
                            channels_[fd] \in Live /\ fd_[channels_[fd]] = fd
    BY DEF NoDanglingChannel
  <2>1. CASE \A c \in Channels : life[c] = "live" => fd_[c] # fd
    BY <2>1, Entries DEF IInv, ClosedFdsFree, Registered
  <2>2. ASSUME NEW c \in Channels, life[c] = "live", fd_[c] = fd
        PROVE  /\ Registered(fd) => channels_[fd] = epoll[fd].chan
               /\ channels_[fd] # None =>
                     channels_[fd] \in Live /\ fd_[channels_[fd]] = fd
    <3>1. channels_[fd] = IF index_[c] = kNew THEN None ELSE c
      BY <2>2 DEF IInv, MapMatchesIndex
    <3>2. CASE index_[c] = kAdded
      <4>1. epoll[fd] = [chan |-> c, events |-> events_[c]]
        BY <2>2, <3>2 DEF IInv, KernelMatchesIndex, Live
      <4>2. epoll[fd].chan = c
        BY <4>1, Entries DEF IInv, TypeOK
      <4>3. QED
        BY <2>2, <3>1, <3>2, <4>2 DEF Live, kNew, kAdded
    <3>3. CASE index_[c] # kAdded
      <4>1. epoll[fd] = Unregistered
        BY <2>2, <3>3 DEF IInv, KernelMatchesIndex, Live
      <4>2. ~Registered(fd)
        BY <4>1, Entries DEF Registered
      <4>3. QED
        BY <2>2, <3>1, <4>2 DEF Live
    <3>4. QED
      BY <3>2, <3>3
  <2>3. QED
    BY <2>1, <2>2
<1>2. QED
  BY <1>1, Invariance, PTL
=============================================================================
