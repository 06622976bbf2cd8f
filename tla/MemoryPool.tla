----------------------------- MODULE MemoryPool -----------------------------
(***************************************************************************)
(* src/memory/MemoryPool.cpp: slots of one size, cut from blocks and kept  *)
(* on a free list when they are given back.  Threads allocate and          *)
(* deallocate; the free list and the current block have a mutex each, but  *)
(* the first test of the free list takes none, and a new block clears the  *)
(* list under the mutex of the block.  Addresses are numbers.              *)
(***************************************************************************)
EXTENDS Integers, TLC

CONSTANTS
    Threads,
    BlockSize_, SlotSize_,
    PtrSize,     \* sizeof(Slot*)
    Bases        \* addresses operator new gives to blocks; bounds their number

ASSUME PoolAssumption ==
    /\ PtrSize \in Nat \ {0} /\ SlotSize_ \in Nat /\ BlockSize_ \in Nat
    /\ PtrSize <= SlotSize_                            \* init()
    /\ PtrSize + 2 * SlotSize_ - 1 <= BlockSize_       \* 512 and 4096 at most
    /\ Bases \subseteq Nat \ {0}
    /\ \A a, b \in Bases : a < b => a + BlockSize_ <= b

nullptr == 0
UserData == -1   \* what a slot's owner may have written over its next pointer

VARIABLES
    blocks,               \* the chain from firstBlock_
    freeList_, next,      \* next: what the first word of each slot holds
    curSlot_, lastSlot_,
    mutexForFreeList_, mutexForBlock_,  \* the set of threads inside
    pc, temp, nxt,        \* where each thread is, its slot and the next one it loaded
    held,                 \* slots the application has
    cleared,              \* history: slots on the free list when it was cleared, not used since
    alive                 \* no null pointer has been followed

poolVars == <<blocks, curSlot_, lastSlot_, mutexForBlock_>>
vars == <<poolVars, freeList_, next, mutexForFreeList_, pc, temp, nxt, held, cleared, alive>>

Goto(t, label) == pc' = [pc EXCEPT ![t] = label]

\* A thread returns to its caller; its locals are gone.
Return(t) ==
    /\ Goto(t, "idle")
    /\ temp' = [temp EXCEPT ![t] = nullptr]
    /\ nxt' = [nxt EXCEPT ![t] = nullptr]

Init ==
    /\ blocks = {}
    /\ freeList_ = nullptr /\ next = [s \in {} |-> nullptr]
    /\ curSlot_ = nullptr /\ lastSlot_ = nullptr
    /\ mutexForFreeList_ = {} /\ mutexForBlock_ = {}
    /\ pc = [t \in Threads |-> "idle"]
    /\ temp = [t \in Threads |-> nullptr] /\ nxt = [t \in Threads |-> nullptr]
    /\ held = {} /\ cleared = {}
    /\ alive = TRUE

-----------------------------------------------------------------------------
(* The free list *)

\* S has the slot h points to and, with a slot, the one that slot points to.
ClosedFrom(links, h, S) ==
    \A p \in {h} \cup {links[s] : s \in S} : p \in DOMAIN links => p \in S

\* The slots met by following the pointers from h: the smallest such set
Listed(links, h) ==
    {s \in DOMAIN links : \A S \in SUBSET DOMAIN links : ClosedFrom(links, h, S) => s \in S}

FreeSlots == Listed(next, freeList_)

\* Mutant: the mutex is not taken.
NoLock(t) == UNCHANGED mutexForFreeList_

LockFreeList(t) ==
    /\ mutexForFreeList_ = {}
    /\ mutexForFreeList_' = {t}

UnlockFreeList(t) == mutexForFreeList_' = mutexForFreeList_ \ {t}

\* The slot s is the application's.
Give(s) == held' = held \cup {s}

\* allocate: the test of freeList_ without the mutex
Allocate(t) ==
    /\ pc[t] = "idle"
    /\ Goto(t, IF freeList_ # nullptr THEN "lockFree" ELSE "lockBlock")
    /\ UNCHANGED <<poolVars, freeList_, next, mutexForFreeList_, temp, nxt, held, cleared, alive>>

\* ... the test with it
TestFreeList(t) ==
    /\ pc[t] = "lockFree"
    /\ \/ /\ freeList_ = nullptr
          /\ mutexForFreeList_ = {}
          /\ Goto(t, "lockBlock")
          /\ UNCHANGED <<mutexForFreeList_, temp>>
       \/ /\ freeList_ # nullptr
          /\ LockFreeList(t)
          /\ temp' = [temp EXCEPT ![t] = freeList_]
          /\ Goto(t, "pop")
    /\ UNCHANGED <<poolVars, freeList_, next, nxt, held, cleared, alive>>

\* ... freeList_->next, where the build may use the value in temp or load freeList_
\* again, which another thread's allocateNewBlock may have cleared
LoadNext(t) ==
    /\ pc[t] = "pop"
    /\ \E head \in {temp[t], freeList_} :
          /\ alive' = (head # nullptr)
          /\ nxt' = [nxt EXCEPT ![t] = IF head = nullptr THEN nullptr ELSE next[head]]
    /\ Goto(t, "store")
    /\ UNCHANGED <<poolVars, freeList_, next, mutexForFreeList_, temp, held, cleared>>

\* ... freeList_ moves on and the slot is returned
Pop(t) ==
    /\ pc[t] = "store"
    /\ freeList_' = nxt[t]
    /\ next' = [next EXCEPT ![temp[t]] = UserData]
    /\ Give(temp[t])
    /\ UnlockFreeList(t)
    /\ cleared' = cleared \ {temp[t]}
    /\ Return(t)
    /\ UNCHANGED <<poolVars, alive>>

\* Mutant: the slot does not point to the rest of the list.
EndsTheList(t, s) ==
    /\ pc[t] = "idle"
    /\ s \in held
    /\ LockFreeList(t)
    /\ held' = held \ {s}
    /\ next' = [next EXCEPT ![s] = nullptr]
    /\ temp' = [temp EXCEPT ![t] = s]
    /\ Goto(t, "push")
    /\ UNCHANGED <<poolVars, freeList_, nxt, cleared, alive>>

\* deallocate: the slot points to the list ...
Deallocate(t, s) ==
    /\ pc[t] = "idle"
    /\ s \in held
    /\ LockFreeList(t)
    /\ held' = held \ {s}
    /\ next' = [next EXCEPT ![s] = freeList_]
    /\ temp' = [temp EXCEPT ![t] = s]
    /\ Goto(t, "push")
    /\ UNCHANGED <<poolVars, freeList_, nxt, cleared, alive>>

\* ... and the list to the slot.
Push(t) ==
    /\ pc[t] = "push"
    /\ freeList_' = temp[t]
    /\ UnlockFreeList(t)
    /\ Return(t)
    /\ UNCHANGED <<poolVars, next, held, cleared, alive>>

-----------------------------------------------------------------------------
(* The blocks *)

\* allocateNewBlock: the first slot behind the block's own next pointer
FirstSlot(base) ==
    LET body == base + PtrSize
    IN  body + ((SlotSize_ - (body % SlotSize_)) % SlotSize_)

\* The current slot is cut off and returned.
Carve(cur) ==
    /\ next' = [s \in DOMAIN next \cup {cur} |-> IF s = cur THEN UserData ELSE next[s]]
    /\ curSlot_' = cur + SlotSize_
    /\ Give(cur)

\* allocate: the current block has room
TakeSlot(t) ==
    /\ pc[t] = "lockBlock"
    /\ mutexForBlock_ = {}
    /\ curSlot_ < lastSlot_
    /\ Carve(curSlot_)
    /\ Return(t)
    /\ UNCHANGED <<blocks, lastSlot_, mutexForBlock_, freeList_, mutexForFreeList_, cleared,
                   alive>>

\* allocateNewBlock, but for its last line
allocateNewBlock(t, base) ==
    /\ pc[t] = "lockBlock"
    /\ mutexForBlock_ = {}
    /\ curSlot_ >= lastSlot_
    /\ base \notin blocks
    /\ mutexForBlock_' = {t}
    /\ blocks' = blocks \cup {base}
    /\ curSlot_' = FirstSlot(base)
    /\ lastSlot_' = base + BlockSize_ - SlotSize_ + 1
    /\ Goto(t, "clear")
    /\ UNCHANGED <<freeList_, next, mutexForFreeList_, temp, nxt, held, cleared, alive>>

\* That line: the free list is cleared, whoever has its mutex; and the rest of allocate
ClearFreeList(t) ==
    /\ pc[t] = "clear"
    /\ freeList_' = nullptr
    /\ cleared' = cleared \cup FreeSlots
    /\ Carve(curSlot_)
    /\ mutexForBlock_' = {}
    /\ Return(t)
    /\ UNCHANGED <<blocks, lastSlot_, mutexForFreeList_, alive>>

-----------------------------------------------------------------------------
Next ==
    /\ alive
    /\ \E t \in Threads :
          \/ Allocate(t) \/ TestFreeList(t) \/ LoadNext(t) \/ Pop(t)
          \/ \E s \in held : Deallocate(t, s)
          \/ Push(t)
          \/ TakeSlot(t)
          \/ \E base \in Bases : allocateNewBlock(t, base)
          \/ ClearFreeList(t)

Spec == Init /\ [][Next]_vars

\* Threads are interchangeable.
ThreadSymmetry == Permutations(Threads)

-----------------------------------------------------------------------------
(* Properties *)

Carved == DOMAIN next

\* Slots on their way to the application or back
InTransit == {temp[t] : t \in {u \in Threads : pc[u] \in {"pop", "store", "push"}}}

\* No two users get the same memory: the slots the application has are on no list
\* and in no other thread's hands, two threads never work on one slot, the list
\* leads from slot to slot and never to what an owner wrote, and every slot lies
\* in a block, aligned, behind the block's own pointer and apart from the part not
\* cut yet.
SlotsDisjoint ==
    /\ held \cap (FreeSlots \cup InTransit) = {}
    /\ \A t, u \in Threads :
          (t # u /\ {pc[t], pc[u]} \subseteq {"pop", "store", "push"}) => temp[t] # temp[u]
    /\ {freeList_} \cup {next[s] : s \in FreeSlots} \subseteq Carved \cup {nullptr}
    /\ \A s \in Carved :
          /\ s % SlotSize_ = 0
          /\ \E base \in blocks : base + PtrSize <= s /\ s + SlotSize_ <= base + BlockSize_
          /\ curSlot_ < lastSlot_ => s + SlotSize_ <= curSlot_ \/ curSlot_ + SlotSize_ <= s

\* A slot that has been cut is with the application, in transit or on the free
\* list; the only way to lose one is a list that had been filled again by the time
\* a new block cleared it.
SlotsAccounted == Carved \subseteq held \cup InTransit \cup FreeSlots \cup cleared
=============================================================================
