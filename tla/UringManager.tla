----------------------------- MODULE UringManager -----------------------------
(***************************************************************************)
(* src/src/IOuring.cpp: asynchronous file reads of one loop through an     *)
(* io_uring, and the ring itself as far as the code relies on it.          *)
(*                                                                         *)
(* A submission entry that has been prepared stays in the ring until an    *)
(* io_uring_submit succeeds, which hands everything prepared to the        *)
(* kernel; the kernel completes reads in any order and signals the         *)
(* eventfd for each.  A request is an opaque value; it gets its index,     *)
(* the user data of its entry, when it is prepared.                        *)
(***************************************************************************)
EXTENDS Integers, Sequences, Functions

CONSTANTS
    URING_ENTRYS,    \* entries of the submission ring
    MaxSubmitFails,  \* bound: io_uring_submit calls that fail
    MaxReadErrs      \* bound: reads that complete with an error

ASSUME UringAssumption ==
    URING_ENTRYS \in Nat \ {0} /\ MaxSubmitFails \in Nat /\ MaxReadErrs \in Nat

VARIABLES
    sq,           \* indices prepared and not yet taken by the kernel
    inflight,     \* indices the kernel works on
    cq,           \* completions the loop has not seen: [idx, res]
    eventfd,      \* the eventfd is readable
    activeIOs_,   \* index -> request
    pendingIOs_,  \* requests that found no entry, oldest first
    currentIdx_,
    draining,     \* the loop's thread is in handleCQE
    submitFails, readErrs

uringVars == <<sq, inflight, cq, eventfd, activeIOs_, pendingIOs_, currentIdx_, draining,
               submitFails, readErrs>>

UringInit ==
    /\ sq = <<>> /\ inflight = {} /\ cq = <<>>
    /\ eventfd = FALSE
    /\ activeIOs_ = <<>> /\ pendingIOs_ = <<>>
    /\ currentIdx_ = 0
    /\ draining = FALSE
    /\ submitFails = 0 /\ readErrs = 0

\* std::map::emplace, which keeps an entry that is there
Emplace(f, i, ctx) == [j \in DOMAIN f \cup {i} |-> IF j \in DOMAIN f THEN f[j] ELSE ctx]

\* std::map::erase
Erase(f, i) == Restrict(f, DOMAIN f \ {i})

\* The functor of UringManager::appendIOContext, run by the loop's thread, for the
\* request ctx when the maps are active and pending.  Without a free entry the
\* request waits; nothing is submitted then.
appendIOContext(ctx, active, pending) ==
    \/ /\ Len(sq) = URING_ENTRYS
       /\ pendingIOs_' = Append(pending, ctx)
       /\ activeIOs_' = active
       /\ UNCHANGED <<sq, inflight, currentIdx_, submitFails>>
    \/ /\ Len(sq) < URING_ENTRYS
       /\ currentIdx_' = currentIdx_ + 1
       /\ activeIOs_' = Emplace(active, currentIdx_, ctx)
       /\ pendingIOs_' = pending
       /\ \/ /\ sq' = <<>>
             /\ inflight' = inflight \cup Range(sq) \cup {currentIdx_}
             /\ UNCHANGED submitFails
          \/ /\ submitFails < MaxSubmitFails
             /\ submitFails' = submitFails + 1
             /\ sq' = Append(sq, currentIdx_)
             /\ UNCHANGED inflight

\* The kernel finishes a read.
Complete(i) ==
    /\ i \in inflight
    /\ inflight' = inflight \ {i}
    /\ \/ /\ cq' = Append(cq, [idx |-> i, res |-> "ok"])
          /\ UNCHANGED readErrs
       \/ /\ readErrs < MaxReadErrs
          /\ readErrs' = readErrs + 1
          /\ cq' = Append(cq, [idx |-> i, res |-> "error"])
    /\ eventfd' = TRUE
    /\ UNCHANGED <<sq, activeIOs_, pendingIOs_, currentIdx_, draining, submitFails>>

\* UringManager::handEventRead, up to the loop of handleCQE
handEventRead ==
    /\ eventfd
    /\ ~draining
    /\ eventfd' = FALSE
    /\ draining' = TRUE
    /\ UNCHANGED <<sq, inflight, cq, activeIOs_, pendingIOs_, currentIdx_, submitFails, readErrs>>

\* Mutant: the waiting request is popped and not appended.
PopsOnly ==
    /\ draining
    /\ cq # <<>>
    /\ cq' = Tail(cq)
    /\ activeIOs_' = Erase(activeIOs_, cq[1].idx)
    /\ pendingIOs_' = IF pendingIOs_ = <<>> THEN <<>> ELSE Tail(pendingIOs_)
    /\ UNCHANGED <<sq, inflight, currentIdx_, submitFails, eventfd, draining, readErrs>>

\* A turn of the loop of handleCQE: the request is done and one that waits is
\* appended.  What its callback does is conjoined by the module that has it; the
\* request is activeIOs_[cq[1].idx].
handleCQE ==
    /\ draining
    /\ cq # <<>>
    /\ cq' = Tail(cq)
    /\ LET rest == Erase(activeIOs_, cq[1].idx)
       IN  IF pendingIOs_ = <<>>
           THEN /\ activeIOs_' = rest
                /\ UNCHANGED <<sq, inflight, pendingIOs_, currentIdx_, submitFails>>
           ELSE appendIOContext(pendingIOs_[1], rest, Tail(pendingIOs_))
    /\ UNCHANGED <<eventfd, draining, readErrs>>

\* Mutant: one completion is handled for each event.
ReturnsEarly ==
    /\ draining
    /\ draining' = FALSE
    /\ UNCHANGED <<sq, inflight, cq, eventfd, activeIOs_, pendingIOs_, currentIdx_, submitFails,
                   readErrs>>

\* io_uring_peek_cqe finds nothing: the loop ends.
DrainEnds ==
    /\ draining
    /\ cq = <<>>
    /\ draining' = FALSE
    /\ UNCHANGED <<sq, inflight, cq, eventfd, activeIOs_, pendingIOs_, currentIdx_, submitFails,
                   readErrs>>

-----------------------------------------------------------------------------
\* Where an index can be: prepared, with the kernel or completed.
CqSet == {cq[k].idx : k \in DOMAIN cq}
=============================================================================
