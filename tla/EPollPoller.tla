----------------------------- MODULE EPollPoller -----------------------------
(***************************************************************************)
(* src/src/Channel.cpp and src/src/EPollPoller.cpp: the channels of one    *)
(* loop, the poller's map of them and the kernel's epoll set.  The three   *)
(* have to agree although the poller decides which epoll_ctl operation to  *)
(* use from the channel's own index_ alone, and although descriptors are   *)
(* reused: a failed ADD or MOD is LOG_FATAL, which ends the process.       *)
(*                                                                         *)
(* Every action is one call made on the loop's thread.                     *)
(***************************************************************************)
CONSTANTS
    Channels,   \* Channel objects, each constructed at most once
    Fds,        \* file descriptors, reused after close
    None        \* no channel

ASSUME NoneAssumption == None \notin Channels

\* The values of Channel::index_.
kNew == "kNew"
kAdded == "kAdded"
kDeleted == "kDeleted"

\* The masks a channel can ask for, each as one event.
kReadEvent == "IN"
kWriteEvent == "OUT"
Interest == {"IN", "OUT"}

VARIABLES
    life,           \* of each channel: "unborn", "live" or "destroyed"
    fd_, events_, index_,   \* Channel's members
    channels_,      \* Poller's map from descriptors to channels
    epoll,          \* the kernel's set: per descriptor the channel and mask, or none
    activeChannels_,\* reported by poll and not yet handled
    aborted         \* LOG_FATAL was reached

vars == <<life, fd_, events_, index_, channels_, epoll, activeChannels_, aborted>>

Unregistered == [chan |-> None, events |-> {}]

Live == {c \in Channels : life[c] = "live"}
Registered(fd) == epoll[fd].chan # None
isNoneEvent(ev) == ev = {}

Init ==
    /\ life = [c \in Channels |-> "unborn"]
    /\ fd_ \in [Channels -> Fds]
    /\ events_ = [c \in Channels |-> {}]
    /\ index_ = [c \in Channels |-> kNew]
    /\ channels_ = [fd \in Fds |-> None]
    /\ epoll = [fd \in Fds |-> Unregistered]
    /\ activeChannels_ = {}
    /\ aborted = FALSE
-----------------------------------------------------------------------------
(* EPollPoller.cpp. *)

\* epoll_ctl(op, fd, {ev, c}): ADD fails with EEXIST, MOD and DEL with ENOENT.
CtlFails(op, fd) == (op = "ADD") <=> Registered(fd)

\* EPollPoller::update.  A failed DEL is only logged.
update(op, c, ev) ==
    IF CtlFails(op, fd_[c])
    THEN aborted' = (aborted \/ op # "DEL") /\ UNCHANGED epoll
    ELSE /\ epoll' = [epoll EXCEPT ![fd_[c]] =
                        IF op = "DEL" THEN Unregistered
                        ELSE [chan |-> c, events |-> ev]]
         /\ UNCHANGED aborted

\* Mutant: a deleted channel is modified instead of added again.
ModifiesDeleted(c, ev) ==
    IF index_[c] = kNew THEN "ADD" ELSE IF isNoneEvent(ev) THEN "DEL" ELSE "MOD"

\* The operation updateChannel chooses for the channel's index and new mask.
CtlFor(c, ev) ==
    IF index_[c] # kAdded THEN "ADD" ELSE IF isNoneEvent(ev) THEN "DEL" ELSE "MOD"

\* Poller::updateChannel for a channel whose events_ become ev.
updateChannel(c, ev) ==
    LET op == CtlFor(c, ev) IN
    /\ events_' = [events_ EXCEPT ![c] = ev]
    /\ update(op, c, ev)
    /\ channels_' = IF index_[c] = kNew
                    THEN [channels_ EXCEPT ![fd_[c]] = c] ELSE channels_
    /\ index_' = [index_ EXCEPT ![c] = IF op = "DEL" THEN kDeleted ELSE kAdded]
    /\ UNCHANGED <<life, fd_, activeChannels_>>

\* Mutant: removal only forgets the map entry.
RemovesNothing(c) == UNCHANGED <<epoll, aborted>>

\* The epoll_ctl part of removeChannel.
RemoveFromSet(c) ==
    IF index_[c] = kAdded THEN update("DEL", c, {}) ELSE UNCHANGED <<epoll, aborted>>

\* Mutant: the map keeps its entry.
ErasesNothing(c) == channels_

\* channels_.erase(fd)
EraseFd(c) == [channels_ EXCEPT ![fd_[c]] = None]

removeChannel(c) ==
    /\ channels_' = EraseFd(c)
    /\ RemoveFromSet(c)
    /\ index_' = [index_ EXCEPT ![c] = kNew]
    /\ UNCHANGED <<life, fd_, events_, activeChannels_>>

\* epoll_wait and fillActiveChannels.  HUP and ERR are reported whether asked
\* for or not, so any registered channel may come up, whatever its mask.
poll ==
    /\ activeChannels_ = {}
    /\ \E fds \in SUBSET {fd \in Fds : Registered(fd)} :
            activeChannels_' = {epoll[fd].chan : fd \in fds}
    /\ UNCHANGED <<life, fd_, events_, index_, channels_, epoll, aborted>>
-----------------------------------------------------------------------------
(* Channel.cpp and Channel.h. *)

\* The constructor, on a descriptor no other live channel holds.
Construct(c, fd) ==
    /\ life[c] = "unborn"
    /\ \A d \in Live : fd_[d] # fd
    /\ life' = [life EXCEPT ![c] = "live"]
    /\ fd_' = [fd_ EXCEPT ![c] = fd]
    /\ UNCHANGED <<events_, index_, channels_, epoll, activeChannels_, aborted>>

enableReading(c) == updateChannel(c, events_[c] \cup {kReadEvent})
diableReading(c) == updateChannel(c, events_[c] \ {kReadEvent})
enableWriting(c) == updateChannel(c, events_[c] \cup {kWriteEvent})
disableWriting(c) == updateChannel(c, events_[c] \ {kWriteEvent})
disableAll(c) == updateChannel(c, {})

\* setReadCallback and the other three setters end in update() as well.
setCallback(c) == updateChannel(c, events_[c])

remove(c) == removeChannel(c)

\* The callbacks of one reported channel have run; what they did to this and to
\* other channels are the actions taken meanwhile.
handleEvent(c) ==
    /\ c \in activeChannels_
    /\ activeChannels_' = activeChannels_ \ {c}
    /\ UNCHANGED <<life, fd_, events_, index_, channels_, epoll, aborted>>

\* The owner destroys a removed channel and closes its descriptor, outside the
\* dispatch of a poll result (TcpServer defers it with queueInLoop).
Destroy(c) ==
    /\ life[c] = "live"
    /\ index_[c] = kNew
    /\ activeChannels_ = {}
    /\ life' = [life EXCEPT ![c] = "destroyed"]
    /\ epoll' = [epoll EXCEPT ![fd_[c]] = Unregistered]
    /\ UNCHANGED <<fd_, events_, index_, channels_, activeChannels_, aborted>>
-----------------------------------------------------------------------------
Operation(c) ==
    /\ life[c] = "live"
    /\ \/ enableReading(c) \/ diableReading(c)
       \/ enableWriting(c) \/ disableWriting(c)
       \/ disableAll(c) \/ setCallback(c) \/ remove(c)

Next ==
    \/ poll
    \/ \E c \in Channels :
        \/ \E fd \in Fds : Construct(c, fd)
        \/ Operation(c)
        \/ handleEvent(c)
        \/ Destroy(c)

Spec == Init /\ [][Next]_vars
-----------------------------------------------------------------------------
(* Properties. *)

\* Members have their declared types.
TypeOK ==
    /\ life \in [Channels -> {"unborn", "live", "destroyed"}]
    /\ fd_ \in [Channels -> Fds]
    /\ events_ \in [Channels -> SUBSET Interest]
    /\ index_ \in [Channels -> {kNew, kAdded, kDeleted}]
    /\ channels_ \in [Fds -> Channels \cup {None}]
    /\ epoll \in [Fds -> [chan : Channels \cup {None}, events : SUBSET Interest]]
    /\ activeChannels_ \subseteq Channels
    /\ aborted \in BOOLEAN

\* The kernel watches exactly the channels whose index_ says so, with the mask
\* the channel asked for: no update is lost, no registration outlives the
\* channel's removal and the reuse of its descriptor.
KernelMatchesIndex ==
    \A c \in Live :
        IF index_[c] = kAdded
        THEN epoll[fd_[c]] = [chan |-> c, events |-> events_[c]]
        ELSE epoll[fd_[c]] = Unregistered

\* No epoll_ctl the poller issues can fail in the way that ends the process,
\* whatever order a channel's setters, enablers, disableAll and remove come in.
NeverFatal == ~aborted

\* epoll and the poller's map hold raw pointers: each is to a live channel on
\* that descriptor, and what the kernel may report is in the map.
NoDanglingChannel ==
    \A fd \in Fds :
        /\ Registered(fd) => channels_[fd] = epoll[fd].chan
        /\ channels_[fd] # None =>
                channels_[fd] \in Live /\ fd_[channels_[fd]] = fd
=============================================================================
