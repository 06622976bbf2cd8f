-------------------------- MODULE MemoryPoolProofs --------------------------
(***************************************************************************)
(* Proofs about MemoryPool: no slot has two users, and none is lost but by *)
(* a free list that was cleared.                                           *)
(*                                                                         *)
(* The argument: the slots the application does not have are joined by     *)
(* their next pointers in chains that never meet, and nothing points to    *)
(* the head, be it freeList_ or the slot the thread inside the free list's *)
(* mutex has in its hands.  A new block clears freeList_ without that      *)
(* mutex, so all that is known of freeList_ while a thread is inside is    *)
(* that it is what the thread saw or null; in the second case the slots    *)
(* behind the thread's slot are among those recorded in cleared.           *)
(***************************************************************************)
EXTENDS MemoryPool, TLAPS

-----------------------------------------------------------------------------
(* The inductive invariant *)

Labels == {"idle", "lockFree", "lockBlock", "pop", "store", "push", "clear"}
Inside(t) == pc[t] \in {"pop", "store", "push"}

\* Slots the application does not have
Free == Carved \ held

TypeInv ==
    /\ pc \in [Threads -> Labels]
    /\ DOMAIN temp = Threads /\ DOMAIN nxt = Threads
    /\ next = [s \in Carved |-> next[s]]
    /\ Carved \subseteq Nat \ {0}
    /\ held \subseteq Carved
    /\ alive \in BOOLEAN

\* The two mutexes exclude.
LocksInv ==
    /\ mutexForFreeList_ = {t \in Threads : Inside(t)}
    /\ \A t, u \in Threads : Inside(t) /\ Inside(u) => t = u
    /\ mutexForBlock_ = {t \in Threads : pc[t] = "clear"}
    /\ \A t, u \in Threads : pc[t] = "clear" /\ pc[u] = "clear" => t = u

\* h is the head of a chain: a free slot that nothing points to, or null.
IsHead(h) ==
    /\ h \in Free \cup {nullptr}
    /\ h # nullptr => \A s \in Free : next[s] # h

\* Free slots form chains.
ChainsInv ==
    /\ freeList_ \in Free \cup {nullptr}
    /\ \A s \in Free : next[s] \in Free \cup {nullptr}
    /\ \A s, u \in Free : next[s] = next[u] /\ next[s] # nullptr => s = u
    /\ mutexForFreeList_ = {} => IsHead(freeList_)

\* What the thread inside the mutex of the free list has in its hands.
HandsInv ==
    \A t \in Threads :
        /\ Inside(t) => temp[t] # nullptr /\ IsHead(temp[t])
        /\ pc[t] \in {"pop", "store"} => freeList_ \in {temp[t], nullptr}
        /\ pc[t] = "store" /\ alive => nxt[t] = next[temp[t]]
        /\ pc[t] = "push" => freeList_ \in {next[temp[t]], nullptr}

\* A list that was cleared under a thread is remembered in cleared, but for the
\* slot the thread has.
AccountInv ==
    /\ mutexForFreeList_ = {} => Free \subseteq Listed(next, freeList_) \cup cleared
    /\ \A t \in Threads : Inside(t) =>
          /\ Free \subseteq Listed(next, temp[t]) \cup cleared
          /\ freeList_ = nullptr => Listed(next, temp[t]) \subseteq {temp[t]} \cup cleared

\* s is a slot of the block at base.
InBlock(s, base) == base + PtrSize <= s /\ s + SlotSize_ <= base + BlockSize_

\* The block at base is the one slots are cut from.
Current(base) ==
    /\ lastSlot_ = base + BlockSize_ - SlotSize_ + 1
    /\ base + PtrSize <= curSlot_
    /\ curSlot_ % SlotSize_ = 0
    /\ \A s \in Carved :
          /\ s % SlotSize_ = 0
          /\ \E b \in blocks : InBlock(s, b) /\ (b = base => s + SlotSize_ <= curSlot_)

BlocksInv ==
    /\ blocks \subseteq Bases
    /\ curSlot_ \in Nat
    /\ \/ Carved = {} /\ curSlot_ = 0 /\ lastSlot_ = 0
       \/ \E base \in blocks : Current(base)
    /\ \A t \in Threads : pc[t] = "clear" => curSlot_ < lastSlot_

IInv == TypeInv /\ LocksInv /\ ChainsInv /\ HandsInv /\ AccountInv /\ BlocksInv

-----------------------------------------------------------------------------
(* Following the pointers of the free list *)

\* A set that has the first slot and what its members point to has the whole list.
LEMMA ListedLeast ==
    ASSUME NEW links, NEW h, NEW S \in SUBSET DOMAIN links, ClosedFrom(links, h, S)
    PROVE  Listed(links, h) \subseteq S
BY DEF Listed

\* The list is such a set itself.
LEMMA ListedClosed ==
    ASSUME NEW links, NEW h
    PROVE  /\ Listed(links, h) \subseteq DOMAIN links
           /\ ClosedFrom(links, h, Listed(links, h))
BY DEF Listed, ClosedFrom

\* The list from a slot is the slot and the list from the next one.
LEMMA ListedUnfold ==
    ASSUME NEW links, NEW h \in DOMAIN links
    PROVE  Listed(links, h) = {h} \cup Listed(links, links[h])
<1> DEFINE rest == Listed(links, links[h])
<1>1. Listed(links, h) \subseteq {h} \cup rest
  <2>1. rest \subseteq DOMAIN links /\ ClosedFrom(links, links[h], rest)
    BY ListedClosed
  <2>2. ClosedFrom(links, h, {h} \cup rest)
    BY <2>1 DEF ClosedFrom
  <2> QED BY <2>1, <2>2, ListedLeast
<1>2. {h} \cup rest \subseteq Listed(links, h)
  <2>1. Listed(links, h) \subseteq DOMAIN links /\ ClosedFrom(links, h, Listed(links, h))
    BY ListedClosed
  <2>2. h \in Listed(links, h) /\ ClosedFrom(links, links[h], Listed(links, h))
    BY <2>1 DEF ClosedFrom
  <2>3. rest \subseteq Listed(links, h)
    BY <2>1, <2>2, ListedLeast
  <2> QED BY <2>2, <2>3
<1> QED BY <1>1, <1>2

\* The list from null is empty.
LEMMA ListedNone ==
    ASSUME NEW links, NEW h, h \notin DOMAIN links
    PROVE  Listed(links, h) = {}
<1>1. ClosedFrom(links, h, {})
  BY DEF ClosedFrom
<1> QED BY <1>1, ListedLeast

\* Pointers outside of a set that has the list do not matter to it.
LEMMA ListedFrame ==
    ASSUME NEW old, NEW new, NEW h, NEW S,
           S \subseteq DOMAIN old, S \subseteq DOMAIN new,
           \A s \in S : new[s] = old[s],
           ClosedFrom(old, h, S), ClosedFrom(new, h, S)
    PROVE  Listed(new, h) = Listed(old, h)
<1> DEFINE lo == Listed(old, h)
           ln == Listed(new, h)
<1>1. lo \subseteq S /\ ln \subseteq S
  BY ListedLeast
<1>2. ClosedFrom(old, h, lo) /\ ClosedFrom(new, h, ln)
  BY ListedClosed
<1> HIDE DEF lo, ln
<1>3. ClosedFrom(new, h, lo)
  BY <1>1, <1>2 DEF ClosedFrom
<1>4. ClosedFrom(old, h, ln)
  BY <1>1, <1>2 DEF ClosedFrom
<1>5. ln \subseteq lo /\ lo \subseteq ln
  BY <1>1, <1>3, <1>4, ListedLeast DEF lo, ln
<1> QED BY <1>5 DEF lo, ln

-----------------------------------------------------------------------------
(* Slots are aligned to multiples of SlotSize_ *)

\* A number has one remainder.
LEMMA ModUnique ==
    ASSUME NEW a \in Nat, NEW n \in Nat, n > 0,
           NEW q \in Int, NEW r \in 0..(n - 1), a = n * q + r
    PROVE  a % n = r
<1> DEFINE q1 == a \div n
           r1 == a % n
<1>1. q1 \in Int /\ r1 \in 0..(n - 1) /\ a = n * q1 + r1
  OBVIOUS
<1> HIDE DEF q1, r1
<1> DEFINE x == q1 - q
<1>2. x \in Int /\ n * x = r - r1
  <2>1. n * (q1 - q) = n * q1 - n * q
    BY <1>1
  <2> QED BY <1>1, <2>1
<1> HIDE DEF x
<1>3. ~(x <= -1)
  <2>1. x <= -1 => n * x <= n * (-1)
    BY <1>2
  <2> QED BY <1>1, <1>2, <2>1
<1>4. ~(x >= 1)
  <2>1. x >= 1 => n * x >= n * 1
    BY <1>2
  <2> QED BY <1>1, <1>2, <2>1
<1>5. x = 0
  BY <1>2, <1>3, <1>4
<1>6. r1 = r
  BY <1>1, <1>2, <1>5
<1> QED BY <1>6 DEF r1

\* The multiples of n are those whose remainder is 0.
LEMMA ModZero ==
    ASSUME NEW a \in Nat, NEW n \in Nat, n > 0
    PROVE  /\ a % n = 0 => \E q \in Int : a = n * q
           /\ (\E q \in Int : a = n * q) => a % n = 0
<1>1. a \div n \in Int /\ a = n * (a \div n) + (a % n)
  OBVIOUS
<1>2. a % n = 0 => \E q \in Int : a = n * q
  BY <1>1
<1>3. ASSUME NEW q \in Int, a = n * q
      PROVE  a % n = 0
  <2>1. 0 \in 0..(n - 1) /\ a = n * q + 0
    BY <1>3
  <2> QED BY <2>1, ModUnique
<1> QED BY <1>2, <1>3

\* One slot further is aligned, too.
LEMMA ModStep ==
    ASSUME NEW a \in Nat, NEW n \in Nat, n > 0, a % n = 0
    PROVE  (a + n) % n = 0
<1>1. PICK q \in Int : a = n * q
  BY ModZero
<1>2. a + n = n * (q + 1) /\ q + 1 \in Int /\ a + n \in Nat
  BY <1>1
<1> QED BY <1>2, ModZero

\* Aligned addresses that differ are a slot apart.
LEMMA ModApart ==
    ASSUME NEW a \in Nat, NEW b \in Nat, NEW n \in Nat, n > 0,
           a % n = 0, b % n = 0, a < b
    PROVE  a + n <= b
<1>1. PICK p \in Int : a = n * p
  BY ModZero
<1>2. PICK q \in Int : b = n * q
  BY ModZero
<1>3. n * (q - p) = b - a
  BY <1>1, <1>2
<1> DEFINE x == q - p
<1>4. x \in Int /\ n * x = b - a
  BY <1>3
<1> HIDE DEF x
<1>5. ~(x <= 0)
  <2>1. x <= 0 => n * x <= n * 0
    BY <1>4
  <2> QED BY <1>4, <2>1
<1>6. x >= 1 => n * x >= n * 1
  BY <1>4
<1> QED BY <1>4, <1>5, <1>6

\* allocateNewBlock's first slot is aligned, behind the pointer of the block and
\* fits with one more.
LEMMA FirstSlotAligned ==
    ASSUME NEW base \in Nat
    PROVE  /\ FirstSlot(base) \in Nat
           /\ base + PtrSize <= FirstSlot(base)
           /\ FirstSlot(base) <= base + PtrSize + SlotSize_ - 1
           /\ FirstSlot(base) % SlotSize_ = 0
<1> DEFINE body == base + PtrSize
           r == body % SlotSize_
<1>1. body \in Nat /\ SlotSize_ \in Nat /\ SlotSize_ > 0
  BY PoolAssumption
<1>2. FirstSlot(base) = body + ((SlotSize_ - r) % SlotSize_)
  BY DEF FirstSlot
<1> HIDE DEF body
<1>3. r \in 0..(SlotSize_ - 1) /\ body \div SlotSize_ \in Int
      /\ body = SlotSize_ * (body \div SlotSize_) + r
  BY <1>1
<1> DEFINE q == body \div SlotSize_
<1> HIDE DEF r, q
<1>4. CASE r = 0
  <2>1. SlotSize_ = SlotSize_ * 1 + 0 /\ 0 \in 0..(SlotSize_ - 1) /\ 1 \in Int
    BY <1>1
  <2>2. SlotSize_ % SlotSize_ = 0
    BY <1>1, <2>1, ModUnique
  <2>3. FirstSlot(base) = body
    BY <1>1, <1>2, <1>4, <2>2
  <2> QED BY <1>1, <1>4, <2>3 DEF r, body
<1>5. CASE r # 0
  <2>1. SlotSize_ - r \in 0..(SlotSize_ - 1) /\ SlotSize_ - r \in Nat
        /\ SlotSize_ - r = SlotSize_ * 0 + (SlotSize_ - r) /\ 0 \in Int
    BY <1>1, <1>3, <1>5
  <2>2. (SlotSize_ - r) % SlotSize_ = SlotSize_ - r
    BY <1>1, <2>1, ModUnique
  <2>3. FirstSlot(base) = body + SlotSize_ - r /\ FirstSlot(base) \in Nat
    BY <1>1, <1>2, <1>3, <2>1, <2>2
  <2>4. FirstSlot(base) = SlotSize_ * (q + 1) /\ q + 1 \in Int
    BY <1>1, <1>3, <2>3 DEF q
  <2>5. FirstSlot(base) % SlotSize_ = 0
    BY <1>1, <2>3, <2>4, ModZero
  <2>6. /\ body <= FirstSlot(base)
        /\ FirstSlot(base) <= body + SlotSize_ - 1
    BY <1>1, <1>3, <1>5, <2>3
  <2> QED BY <2>3, <2>5, <2>6, PoolAssumption DEF body
<1> QED BY <1>4, <1>5

-----------------------------------------------------------------------------
(* The slots of a block *)

\* Blocks do not overlap.
LEMMA BlocksApart ==
    ASSUME NEW a \in Bases, NEW b \in Bases, a # b
    PROVE  a + BlockSize_ <= b \/ b + BlockSize_ <= a
<1>1. a \in Nat /\ b \in Nat
  BY PoolAssumption
<1>2. a < b \/ b < a
  BY <1>1
<1> QED BY <1>2, PoolAssumption

\* Where there is room in the current block, it is apart from every slot cut before.
LEMMA RoomIsNew ==
    ASSUME IInv, curSlot_ < lastSlot_
    PROVE  /\ curSlot_ \in Nat \ {0}
           /\ curSlot_ \notin Carved
           /\ \A s \in Carved : s + SlotSize_ <= curSlot_ \/ curSlot_ + SlotSize_ <= s
           /\ \E base \in blocks : Current(base) /\ InBlock(curSlot_, base)
<1>1. /\ PtrSize \in Nat \ {0} /\ SlotSize_ \in Nat /\ SlotSize_ > 0 /\ BlockSize_ \in Nat
      /\ curSlot_ \in Nat /\ blocks \subseteq Bases /\ Bases \subseteq Nat \ {0}
      /\ Carved \subseteq Nat
  BY PoolAssumption DEF IInv, BlocksInv, TypeInv
<1>2. PICK base \in blocks : Current(base)
  BY DEF IInv, BlocksInv
<1>3. base \in Nat \ {0} /\ InBlock(curSlot_, base)
  BY <1>1, <1>2 DEF Current, InBlock
<1>4. ASSUME NEW s \in Carved
      PROVE  s + SlotSize_ <= curSlot_ \/ curSlot_ + SlotSize_ <= s
  <2>1. PICK b \in blocks : InBlock(s, b) /\ (b = base => s + SlotSize_ <= curSlot_)
    BY <1>2 DEF Current
  <2>2. b # base => b + BlockSize_ <= base \/ base + BlockSize_ <= b
    BY <1>1, BlocksApart
  <2>3. s \in Nat /\ b \in Nat
    BY <1>1
  <2> QED BY <1>1, <1>3, <2>1, <2>2, <2>3 DEF InBlock
<1>5. curSlot_ \notin Carved
  BY <1>1, <1>4
<1>6. curSlot_ # 0
  BY <1>1, <1>3 DEF InBlock
<1> QED BY <1>1, <1>2, <1>3, <1>4, <1>5, <1>6

\* A slot that is cut off changes no list and is not free.
LEMMA CarveKeepsLists ==
    ASSUME IInv, curSlot_ < lastSlot_, Carve(curSlot_)
    PROVE  /\ Carved' = Carved \cup {curSlot_}
           /\ \A s \in Carved : next'[s] = next[s]
           /\ Free' = Free
           /\ \A h \in Free \cup {nullptr} : Listed(next', h) = Listed(next, h)
           /\ TypeInv => /\ next' = [s \in Carved' |-> next'[s]]
                         /\ Carved' \subseteq Nat \ {0}
                         /\ held' \subseteq Carved'
<1>1. curSlot_ \in Nat \ {0} /\ curSlot_ \notin Carved
  BY RoomIsNew
<1>2. next' = [s \in Carved \cup {curSlot_} |-> IF s = curSlot_ THEN UserData ELSE next[s]]
      /\ held' = held \cup {curSlot_}
  BY DEF Carve, Give, Carved
<1>3. Carved' = Carved \cup {curSlot_} /\ (\A s \in Carved : next'[s] = next[s])
  BY <1>1, <1>2 DEF Carved
<1>4. Free' = Free
  BY <1>1, <1>2, <1>3 DEF Free
<1>5. ASSUME NEW h \in Free \cup {nullptr}
      PROVE  Listed(next', h) = Listed(next, h)
  <2>1. Free \subseteq DOMAIN next /\ Free \subseteq DOMAIN (next')
    BY <1>3 DEF Free, Carved
  <2>2. \A s \in Free : next[s] \in Free \cup {nullptr} /\ next'[s] = next[s]
    BY <1>3 DEF Free, IInv, ChainsInv
  <2>3. nullptr \notin DOMAIN next /\ nullptr \notin DOMAIN (next')
    BY <1>1, <1>3 DEF Carved, IInv, TypeInv, nullptr
  <2>4. ClosedFrom(next, h, Free) /\ ClosedFrom(next', h, Free)
    BY <2>1, <2>2, <2>3 DEF ClosedFrom
  <2> QED BY <2>1, <2>2, <2>4, ListedFrame
<1>6. TypeInv => /\ next' = [s \in Carved' |-> next'[s]]
                 /\ Carved' \subseteq Nat \ {0}
                 /\ held' \subseteq Carved'
  BY <1>1, <1>2, <1>3 DEF TypeInv
<1> QED BY <1>3, <1>4, <1>5, <1>6

\* The block stays as it should be when a slot is cut off.
LEMMA CarveKeepsBlocks ==
    ASSUME IInv, curSlot_ < lastSlot_, Carve(curSlot_), UNCHANGED <<blocks, lastSlot_>>
    PROVE  /\ blocks' \subseteq Bases
           /\ curSlot_' \in Nat
           /\ \E base \in blocks' : Current(base)'
<1>1. /\ PtrSize \in Nat \ {0} /\ SlotSize_ \in Nat /\ SlotSize_ > 0 /\ BlockSize_ \in Nat
      /\ curSlot_ \in Nat /\ blocks \subseteq Bases /\ Bases \subseteq Nat \ {0}
      /\ Carved \subseteq Nat
  BY PoolAssumption DEF IInv, BlocksInv, TypeInv
<1>2. PICK base \in blocks : Current(base) /\ InBlock(curSlot_, base)
  BY RoomIsNew
<1>3. curSlot_' = curSlot_ + SlotSize_ /\ Carved' = Carved \cup {curSlot_}
  BY CarveKeepsLists DEF Carve
<1>4. (curSlot_ + SlotSize_) % SlotSize_ = 0
  BY <1>1, <1>2, ModStep DEF Current
<1>5. lastSlot_' = base + BlockSize_ - SlotSize_ + 1 /\ base + PtrSize <= curSlot_'
  BY <1>1, <1>2, <1>3 DEF Current
<1>6. ASSUME NEW s \in Carved'
      PROVE  /\ s % SlotSize_ = 0
             /\ \E b \in blocks' : InBlock(s, b) /\ (b = base => s + SlotSize_ <= curSlot_')
  <2>1. CASE s = curSlot_
    BY <1>1, <1>2, <1>3, <2>1 DEF Current
  <2>2. CASE s \in Carved
    <3>1. PICK b \in blocks : InBlock(s, b) /\ (b = base => s + SlotSize_ <= curSlot_)
      BY <1>2, <2>2 DEF Current
    <3>2. b = base => s + SlotSize_ <= curSlot_'
      BY <1>1, <1>3, <2>2, <3>1
    <3> QED BY <1>2, <2>2, <3>1, <3>2 DEF Current
  <2> QED BY <1>3, <2>1, <2>2
<1>7. Current(base)'
  BY <1>3, <1>4, <1>5, <1>6 DEF Current, InBlock
<1> QED BY <1>1, <1>2, <1>3, <1>7

-----------------------------------------------------------------------------
(* The invariant is inductive *)

LEMMA InitInv == Init => IInv
<1> SUFFICES ASSUME Init PROVE IInv
  OBVIOUS
<1>1. TypeInv /\ Carved = {}
  BY DEF Init, TypeInv, Carved, Labels, nullptr
<1>2. LocksInv
  BY DEF Init, LocksInv, Inside
<1>3. ChainsInv /\ HandsInv
  BY <1>1 DEF Init, ChainsInv, HandsInv, IsHead, Free, Inside
<1>4. AccountInv
  BY <1>1 DEF Init, AccountInv, Free, Inside
<1>5. BlocksInv
  BY <1>1 DEF Init, BlocksInv, nullptr
<1> QED BY <1>1, <1>2, <1>3, <1>4, <1>5 DEF IInv

\* What a step that moves one thread, and cuts no slot, has to say about the blocks.
LEMMA SameBlocks ==
    ASSUME IInv, UNCHANGED <<poolVars, Carved>>,
           \A t \in Threads : pc'[t] = "clear" => pc[t] = "clear"
    PROVE  BlocksInv'
BY DEF IInv, BlocksInv, Current, poolVars

\* The lock of the free list is not touched, nor the list or a slot.
LEMMA SameList ==
    ASSUME IInv, UNCHANGED <<freeList_, next, mutexForFreeList_, held, cleared, alive>>,
           \A t \in Threads :
              /\ Inside(t)' = Inside(t)
              /\ Inside(t) => pc'[t] = pc[t] /\ temp'[t] = temp[t] /\ nxt'[t] = nxt[t]
    PROVE  ChainsInv' /\ HandsInv' /\ AccountInv'
<1>1. Carved' = Carved /\ Free' = Free
  BY DEF Carved, Free
<1>2. ChainsInv'
  BY <1>1 DEF IInv, ChainsInv, IsHead
<1>3. HandsInv'
  BY <1>1 DEF IInv, HandsInv, IsHead, Inside
<1>4. AccountInv'
  BY <1>1 DEF IInv, AccountInv
<1> QED BY <1>2, <1>3, <1>4

LEMMA AllocateInv ==
    ASSUME IInv, NEW t \in Threads, Allocate(t)
    PROVE  IInv'
<1>1. /\ UNCHANGED <<poolVars, freeList_, next, mutexForFreeList_, temp, nxt, held, cleared, alive>>
      /\ pc[t] = "idle"
      /\ pc' = [pc EXCEPT ![t] = IF freeList_ # nullptr THEN "lockFree" ELSE "lockBlock"]
  BY DEF Allocate, Goto
<1>2. TypeInv'
  BY <1>1 DEF IInv, TypeInv, Carved, Labels
<1>3. LocksInv' /\ \A u \in Threads : (Inside(u)' = Inside(u)) /\ (Inside(u) => pc'[u] = pc[u])
  BY <1>1 DEF IInv, LocksInv, Inside, TypeInv, poolVars
<1>4. ChainsInv' /\ HandsInv' /\ AccountInv'
  BY <1>1, <1>3, SameList
<1>5. BlocksInv'
  BY <1>1, SameBlocks DEF IInv, TypeInv, Carved
<1> QED BY <1>2, <1>3, <1>4, <1>5 DEF IInv

LEMMA TestFreeListInv ==
    ASSUME IInv, NEW t \in Threads, TestFreeList(t)
    PROVE  IInv'
<1>1. /\ UNCHANGED <<poolVars, freeList_, next, nxt, held, cleared, alive>>
      /\ pc[t] = "lockFree"
      /\ mutexForFreeList_ = {}
      /\ \A u \in Threads : ~Inside(u)
  BY DEF TestFreeList, LockFreeList, IInv, LocksInv
<1>2. CASE freeList_ = nullptr /\ pc' = [pc EXCEPT ![t] = "lockBlock"]
           /\ UNCHANGED <<mutexForFreeList_, temp>>
  <2>1. TypeInv'
    BY <1>1, <1>2 DEF IInv, TypeInv, Carved, Labels
  <2>2. LocksInv' /\ \A u \in Threads : (Inside(u)' = Inside(u)) /\ ~Inside(u)
    BY <1>1, <1>2 DEF IInv, LocksInv, Inside, TypeInv, poolVars
  <2>3. ChainsInv' /\ HandsInv' /\ AccountInv'
    BY <1>1, <1>2, <2>2, SameList
  <2>4. BlocksInv'
    BY <1>1, <1>2, SameBlocks DEF IInv, TypeInv, Carved
  <2> QED BY <2>1, <2>2, <2>3, <2>4 DEF IInv
<1>3. CASE freeList_ # nullptr /\ mutexForFreeList_' = {t} /\ pc' = [pc EXCEPT ![t] = "pop"]
           /\ temp' = [temp EXCEPT ![t] = freeList_]
  <2>1. TypeInv'
    BY <1>1, <1>3 DEF IInv, TypeInv, Carved, Labels
  <2>2. LocksInv' /\ \A u \in Threads : Inside(u)' => u = t
    BY <1>1, <1>3 DEF IInv, LocksInv, Inside, TypeInv, poolVars
  <2>3. Carved' = Carved /\ Free' = Free /\ pc'[t] = "pop" /\ temp'[t] = freeList_
    BY <1>1, <1>3 DEF Carved, Free, IInv, TypeInv
  <2>4. ChainsInv'
    BY <1>1, <1>3, <2>3 DEF IInv, ChainsInv
  <2>5. HandsInv'
    BY <1>1, <1>3, <2>2, <2>3 DEF IInv, HandsInv, ChainsInv, IsHead, Inside
  <2>6. AccountInv'
    BY <1>1, <1>3, <2>2, <2>3 DEF IInv, AccountInv
  <2>7. BlocksInv'
    BY <1>1, <1>3, SameBlocks DEF IInv, TypeInv, Carved
  <2> QED BY <2>1, <2>2, <2>4, <2>5, <2>6, <2>7 DEF IInv
<1> QED BY <1>2, <1>3 DEF TestFreeList, LockFreeList, Goto

LEMMA LoadNextInv ==
    ASSUME IInv, NEW t \in Threads, LoadNext(t)
    PROVE  IInv'
<1>1. PICK head \in {temp[t], freeList_} :
          /\ alive' = (head # nullptr)
          /\ nxt' = [nxt EXCEPT ![t] = IF head = nullptr THEN nullptr ELSE next[head]]
  BY DEF LoadNext
<1>2. /\ UNCHANGED <<poolVars, freeList_, next, mutexForFreeList_, temp, held, cleared>>
      /\ pc[t] = "pop"
      /\ pc' = [pc EXCEPT ![t] = "store"]
      /\ Inside(t) /\ \A u \in Threads : Inside(u) => u = t
  BY DEF LoadNext, Goto, IInv, LocksInv, Inside
<1>3. TypeInv'
  BY <1>1, <1>2 DEF IInv, TypeInv, Carved, Labels
<1>4. LocksInv' /\ \A u \in Threads : Inside(u)' = Inside(u)
  BY <1>2 DEF IInv, LocksInv, Inside, TypeInv, poolVars
<1>5. Carved' = Carved /\ Free' = Free /\ pc'[t] = "store"
  BY <1>2 DEF Carved, Free, IInv, TypeInv
<1>6. ChainsInv'
  BY <1>2, <1>5 DEF IInv, ChainsInv, IsHead
<1>7. HandsInv'
  <2>1. IsHead(temp[t])' /\ temp'[t] # nullptr /\ freeList_' \in {temp'[t], nullptr}
    BY <1>2, <1>5 DEF IInv, HandsInv, IsHead
  <2>2. alive' => nxt'[t] = next'[temp'[t]]
    BY <1>1, <1>2 DEF IInv, HandsInv, TypeInv
  <2> QED BY <1>2, <1>4, <1>5, <2>1, <2>2 DEF HandsInv, Inside
<1>8. AccountInv'
  BY <1>2, <1>4, <1>5 DEF IInv, AccountInv
<1>9. BlocksInv'
  BY <1>2, SameBlocks DEF IInv, TypeInv, Carved
<1> QED BY <1>3, <1>4, <1>6, <1>7, <1>8, <1>9 DEF IInv

LEMMA PopInv ==
    ASSUME IInv, alive, NEW t \in Threads, Pop(t)
    PROVE  IInv'
<1> DEFINE s == temp[t]
<1>1. /\ UNCHANGED <<poolVars, alive>>
      /\ freeList_' = nxt[t]
      /\ next' = [next EXCEPT ![s] = UserData]
      /\ held' = held \cup {s}
      /\ mutexForFreeList_' = mutexForFreeList_ \ {t}
      /\ cleared' = cleared \ {s}
      /\ pc' = [pc EXCEPT ![t] = "idle"]
      /\ temp' = [temp EXCEPT ![t] = nullptr]
      /\ nxt' = [nxt EXCEPT ![t] = nullptr]
  BY DEF Pop, Give, UnlockFreeList, Return, Goto
<1>2. pc[t] = "store" /\ Inside(t) /\ \A u \in Threads : Inside(u) => u = t
  BY DEF Pop, IInv, LocksInv, Inside
<1>3. s \in Free /\ (\A u \in Free : next[u] # s) /\ nxt[t] = next[s] /\ s # nullptr
  BY <1>2 DEF IInv, HandsInv, IsHead
<1> HIDE DEF s
<1>4. /\ Carved' = Carved
      /\ Free' = Free \ {s}
      /\ \A u \in Free' : u \in Free /\ next'[u] = next[u] /\ next[u] # s
  BY <1>1, <1>3 DEF Carved, Free, IInv, TypeInv
<1>5. TypeInv'
  <2>1. next' = [u \in Carved' |-> next'[u]]
    BY <1>1, <1>4, Zenon DEF Carved
  <2>2. pc' \in [Threads -> Labels] /\ DOMAIN temp' = Threads /\ DOMAIN nxt' = Threads
    BY <1>1 DEF IInv, TypeInv, Labels
  <2>3. Carved' \subseteq Nat \ {0} /\ held' \subseteq Carved' /\ alive' \in BOOLEAN
    BY <1>1, <1>3, <1>4 DEF IInv, TypeInv, Free
  <2> QED BY <2>1, <2>2, <2>3 DEF TypeInv
<1>6. LocksInv' /\ mutexForFreeList_' = {} /\ \A u \in Threads : ~Inside(u)'
  BY <1>1, <1>2 DEF IInv, LocksInv, Inside, TypeInv, poolVars
<1>7. freeList_' = next[s] /\ freeList_' # s /\ freeList_' \in Free' \cup {nullptr}
  BY <1>1, <1>3, <1>4 DEF IInv, ChainsInv
<1>8. ChainsInv'
  <2>1. \A u \in Free' : next'[u] \in Free' \cup {nullptr}
    BY <1>3, <1>4 DEF IInv, ChainsInv
  <2>2. \A u, v \in Free' : next'[u] = next'[v] /\ next'[u] # nullptr => u = v
    BY <1>4 DEF IInv, ChainsInv
  <2>3. IsHead(freeList_)'
    BY <1>3, <1>4, <1>7 DEF IInv, ChainsInv, IsHead
  <2> QED BY <1>7, <2>1, <2>2, <2>3 DEF ChainsInv
<1>9. HandsInv'
  BY <1>6 DEF HandsInv, Inside
<1>10. AccountInv'
  <2>1. /\ Free' \subseteq DOMAIN next /\ Free' \subseteq DOMAIN (next')
        /\ nullptr \notin DOMAIN next /\ nullptr \notin DOMAIN (next')
    BY <1>4 DEF Free, Carved, IInv, TypeInv, nullptr
  <2>2. \A u \in Free' : next'[u] = next[u] /\ next[u] \in Free' \cup {nullptr}
    BY <1>4, <1>8 DEF ChainsInv
  <2>3. ClosedFrom(next, freeList_', Free') /\ ClosedFrom(next', freeList_', Free')
    BY <1>7, <2>1, <2>2 DEF ClosedFrom
  <2>4. Listed(next', freeList_') = Listed(next, freeList_')
    BY <2>1, <2>2, <2>3, ListedFrame
  <2>5. Listed(next, s) = {s} \cup Listed(next, freeList_')
    BY <1>3, <1>7, ListedUnfold DEF Free, Carved
  <2>6. Free \subseteq Listed(next, s) \cup cleared
    BY <1>2 DEF IInv, AccountInv, s
  <2>7. Free' \subseteq Listed(next', freeList_') \cup cleared'
    BY <1>1, <1>4, <2>4, <2>5, <2>6
  <2> QED BY <1>6, <2>7 DEF AccountInv
<1>11. BlocksInv'
  BY <1>1, <1>4, SameBlocks DEF IInv, TypeInv
<1> QED BY <1>5, <1>6, <1>8, <1>9, <1>10, <1>11 DEF IInv

LEMMA DeallocateInv ==
    ASSUME IInv, NEW t \in Threads, NEW s \in held, Deallocate(t, s)
    PROVE  IInv'
<1>1. /\ UNCHANGED <<poolVars, freeList_, nxt, cleared, alive>>
      /\ mutexForFreeList_ = {} /\ mutexForFreeList_' = {t}
      /\ held' = held \ {s}
      /\ next' = [next EXCEPT ![s] = freeList_]
      /\ temp' = [temp EXCEPT ![t] = s]
      /\ pc' = [pc EXCEPT ![t] = "push"]
  BY DEF Deallocate, LockFreeList, Goto
<1>2. pc[t] = "idle" /\ \A u \in Threads : ~Inside(u)
  BY <1>1 DEF Deallocate, IInv, LocksInv
<1>3. s \in Carved /\ s \notin Free /\ s # nullptr
  BY DEF IInv, TypeInv, Free, nullptr
<1>4. /\ Carved' = Carved
      /\ Free' = Free \cup {s}
      /\ next'[s] = freeList_
      /\ \A u \in Free : next'[u] = next[u] /\ next[u] # s
  BY <1>1, <1>3 DEF Carved, Free, IInv, TypeInv, ChainsInv
<1>5. TypeInv'
  <2>1. next' = [u \in Carved' |-> next'[u]]
    BY <1>1, <1>4, Zenon DEF Carved
  <2>2. pc' \in [Threads -> Labels] /\ DOMAIN temp' = Threads /\ DOMAIN nxt' = Threads
    BY <1>1 DEF IInv, TypeInv, Labels
  <2>3. Carved' \subseteq Nat \ {0} /\ held' \subseteq Carved' /\ alive' \in BOOLEAN
    BY <1>1, <1>3, <1>4 DEF IInv, TypeInv
  <2> QED BY <2>1, <2>2, <2>3 DEF TypeInv
<1>6. LocksInv' /\ \A u \in Threads : Inside(u)' => u = t
  BY <1>1, <1>2 DEF IInv, LocksInv, Inside, TypeInv, poolVars
<1>7. pc'[t] = "push" /\ temp'[t] = s
  BY <1>1 DEF IInv, TypeInv
<1>8. /\ freeList_ \in Free \cup {nullptr}
      /\ freeList_ # nullptr => \A u \in Free : next[u] # freeList_
  BY <1>1 DEF IInv, ChainsInv, IsHead
<1>9. ChainsInv'
  <2>1. \A u \in Free' : next'[u] \in Free' \cup {nullptr}
    BY <1>4, <1>8 DEF IInv, ChainsInv
  <2>2. \A u, v \in Free' : next'[u] = next'[v] /\ next'[u] # nullptr => u = v
    BY <1>4, <1>8 DEF IInv, ChainsInv
  <2> QED BY <1>1, <1>4, <1>8, <2>1, <2>2 DEF ChainsInv
<1>10. HandsInv'
  <2>1. IsHead(s)'
    BY <1>3, <1>4, <1>8 DEF IsHead
  <2> QED BY <1>1, <1>3, <1>4, <1>6, <1>7, <2>1 DEF HandsInv, IsHead, Inside
<1>11. AccountInv'
  <2>1. /\ Free \subseteq DOMAIN next /\ Free \subseteq DOMAIN (next')
        /\ nullptr \notin DOMAIN next /\ nullptr \notin DOMAIN (next')
    BY <1>4 DEF Free, Carved, IInv, TypeInv, nullptr
  <2>2. \A u \in Free : next'[u] = next[u] /\ next[u] \in Free \cup {nullptr}
    BY <1>4 DEF IInv, ChainsInv
  <2>3. ClosedFrom(next, freeList_, Free) /\ ClosedFrom(next', freeList_, Free)
    BY <1>8, <2>1, <2>2 DEF ClosedFrom
  <2>4. Listed(next', freeList_) = Listed(next, freeList_)
    BY <2>1, <2>2, <2>3, ListedFrame
  <2>5. Listed(next', s) = {s} \cup Listed(next', freeList_)
    <3>1. s \in DOMAIN (next')
      BY <1>3, <1>4 DEF Carved
    <3> QED BY <1>4, <3>1, ListedUnfold
  <2>6. Free' \subseteq Listed(next', s) \cup cleared'
    BY <1>1, <1>4, <2>4, <2>5 DEF IInv, AccountInv
  <2>7. freeList_ = nullptr => Listed(next', s) = {s}
    BY <2>1, <2>5, ListedNone
  <2> QED BY <1>1, <1>6, <1>7, <2>6, <2>7 DEF AccountInv
<1>12. BlocksInv'
  BY <1>1, <1>4, SameBlocks DEF IInv, TypeInv
<1> QED BY <1>5, <1>6, <1>9, <1>10, <1>11, <1>12 DEF IInv

LEMMA PushInv ==
    ASSUME IInv, NEW t \in Threads, Push(t)
    PROVE  IInv'
<1>1. /\ UNCHANGED <<poolVars, next, held, cleared, alive>>
      /\ freeList_' = temp[t]
      /\ mutexForFreeList_' = mutexForFreeList_ \ {t}
      /\ pc' = [pc EXCEPT ![t] = "idle"]
      /\ temp' = [temp EXCEPT ![t] = nullptr]
      /\ nxt' = [nxt EXCEPT ![t] = nullptr]
  BY DEF Push, UnlockFreeList, Return, Goto
<1>2. Inside(t) /\ \A u \in Threads : Inside(u) => u = t
  BY DEF Push, IInv, LocksInv, Inside
<1>3. Carved' = Carved /\ Free' = Free
  BY <1>1 DEF Carved, Free
<1>4. TypeInv'
  BY <1>1, <1>3 DEF IInv, TypeInv, Labels
<1>5. LocksInv' /\ \A u \in Threads : ~Inside(u)'
  BY <1>1, <1>2 DEF IInv, LocksInv, Inside, TypeInv, poolVars, Push
<1>6. ChainsInv'
  BY <1>1, <1>2, <1>3 DEF IInv, ChainsInv, HandsInv, IsHead
<1>7. HandsInv'
  BY <1>5 DEF HandsInv, Inside
<1>8. AccountInv'
  BY <1>1, <1>2, <1>3, <1>5 DEF IInv, AccountInv
<1>9. BlocksInv'
  BY <1>1, <1>3, SameBlocks DEF IInv, TypeInv
<1> QED BY <1>4, <1>5, <1>6, <1>7, <1>8, <1>9 DEF IInv

LEMMA TakeSlotInv ==
    ASSUME IInv, NEW t \in Threads, TakeSlot(t)
    PROVE  IInv'
<1>1. /\ UNCHANGED <<blocks, lastSlot_, mutexForBlock_, freeList_, mutexForFreeList_, cleared,
                     alive>>
      /\ curSlot_ < lastSlot_ /\ Carve(curSlot_)
      /\ pc[t] = "lockBlock" /\ mutexForBlock_ = {}
      /\ pc' = [pc EXCEPT ![t] = "idle"]
      /\ temp' = [temp EXCEPT ![t] = nullptr]
      /\ nxt' = [nxt EXCEPT ![t] = nullptr]
  BY DEF TakeSlot, Return, Goto
<1>2. /\ Free' = Free
      /\ Free \subseteq Carved
      /\ \A s \in Carved : next'[s] = next[s]
      /\ \A h \in Free \cup {nullptr} : Listed(next', h) = Listed(next, h)
  BY <1>1, CarveKeepsLists DEF Free
<1>3. TypeInv'
  BY <1>1, CarveKeepsLists DEF IInv, TypeInv, Labels
<1>4. /\ LocksInv'
      /\ \A u \in Threads :
            /\ Inside(u)' = Inside(u)
            /\ Inside(u) => pc'[u] = pc[u] /\ temp'[u] = temp[u] /\ nxt'[u] = nxt[u]
            /\ Inside(u) => temp[u] \in Free
            /\ pc'[u] # "clear"
  BY <1>1 DEF IInv, LocksInv, Inside, TypeInv, HandsInv, IsHead
<1>5. ChainsInv'
  BY <1>1, <1>2 DEF IInv, ChainsInv, IsHead
<1>6. HandsInv'
  BY <1>1, <1>2, <1>4 DEF IInv, HandsInv, IsHead, Inside
<1>7. AccountInv'
  BY <1>1, <1>2, <1>4 DEF IInv, AccountInv, ChainsInv
<1>8. BlocksInv'
  BY <1>1, <1>4, CarveKeepsBlocks DEF BlocksInv
<1> QED BY <1>3, <1>4, <1>5, <1>6, <1>7, <1>8 DEF IInv

LEMMA allocateNewBlockInv ==
    ASSUME IInv, NEW t \in Threads, NEW base \in Bases, allocateNewBlock(t, base)
    PROVE  IInv'
<1>1. /\ UNCHANGED <<freeList_, next, mutexForFreeList_, temp, nxt, held, cleared, alive>>
      /\ pc[t] = "lockBlock" /\ mutexForBlock_ = {} /\ mutexForBlock_' = {t}
      /\ base \notin blocks /\ blocks' = blocks \cup {base}
      /\ curSlot_' = FirstSlot(base)
      /\ lastSlot_' = base + BlockSize_ - SlotSize_ + 1
      /\ pc' = [pc EXCEPT ![t] = "clear"]
  BY DEF allocateNewBlock, Goto
<1>2. TypeInv'
  BY <1>1 DEF IInv, TypeInv, Carved, Labels
<1>3. LocksInv' /\ \A u \in Threads : (Inside(u)' = Inside(u)) /\ (Inside(u) => pc'[u] = pc[u])
  BY <1>1 DEF IInv, LocksInv, Inside, TypeInv
<1>4. ChainsInv' /\ HandsInv' /\ AccountInv'
  BY <1>1, <1>3, SameList
<1>5. BlocksInv'
  <2>1. /\ PtrSize \in Nat \ {0} /\ SlotSize_ \in Nat /\ SlotSize_ > 0 /\ BlockSize_ \in Nat
        /\ base \in Nat \ {0} /\ PtrSize + 2 * SlotSize_ - 1 <= BlockSize_
    BY PoolAssumption
  <2>2. /\ curSlot_' \in Nat /\ base + PtrSize <= curSlot_'
        /\ curSlot_' <= base + PtrSize + SlotSize_ - 1 /\ curSlot_' % SlotSize_ = 0
    BY <1>1, <2>1, FirstSlotAligned
  <2>3. curSlot_' < lastSlot_'
    BY <1>1, <2>1, <2>2
  <2>4. ASSUME NEW s \in Carved
        PROVE  s % SlotSize_ = 0 /\ \E b \in blocks : InBlock(s, b)
    BY DEF IInv, BlocksInv, Current
  <2>5. Current(base)'
    BY <1>1, <2>2, <2>4 DEF Current, Carved, InBlock
  <2>6. blocks' \subseteq Bases /\ base \in blocks'
    BY <1>1 DEF IInv, BlocksInv
  <2> QED BY <2>2, <2>3, <2>5, <2>6 DEF BlocksInv
<1> QED BY <1>2, <1>3, <1>4, <1>5 DEF IInv

LEMMA ClearFreeListInv ==
    ASSUME IInv, NEW t \in Threads, ClearFreeList(t)
    PROVE  IInv'
<1>1. /\ UNCHANGED <<blocks, lastSlot_, mutexForFreeList_, alive>>
      /\ freeList_' = nullptr
      /\ cleared' = cleared \cup Listed(next, freeList_)
      /\ Carve(curSlot_)
      /\ pc[t] = "clear" /\ mutexForBlock_' = {}
      /\ pc' = [pc EXCEPT ![t] = "idle"]
      /\ temp' = [temp EXCEPT ![t] = nullptr]
      /\ nxt' = [nxt EXCEPT ![t] = nullptr]
  BY DEF ClearFreeList, Return, Goto, FreeSlots
<1>2. curSlot_ < lastSlot_
  BY <1>1 DEF IInv, BlocksInv
<1>3. /\ Free' = Free
      /\ Free \subseteq Carved
      /\ \A s \in Carved : next'[s] = next[s]
      /\ \A h \in Free \cup {nullptr} : Listed(next', h) = Listed(next, h)
  BY <1>1, <1>2, CarveKeepsLists DEF Free
<1>4. TypeInv'
  BY <1>1, <1>2, CarveKeepsLists DEF IInv, TypeInv, Labels
<1>5. /\ LocksInv'
      /\ \A u \in Threads :
            /\ Inside(u)' = Inside(u)
            /\ Inside(u) => pc'[u] = pc[u] /\ temp'[u] = temp[u] /\ nxt'[u] = nxt[u]
            /\ Inside(u) => temp[u] \in Free
            /\ pc'[u] # "clear"
  BY <1>1 DEF IInv, LocksInv, Inside, TypeInv, HandsInv, IsHead
<1>6. ChainsInv'
  BY <1>1, <1>3 DEF IInv, ChainsInv, IsHead
<1>7. HandsInv'
  BY <1>1, <1>3, <1>5 DEF IInv, HandsInv, IsHead, Inside
<1>8. AccountInv'
  <2>1. CASE mutexForFreeList_ = {}
    BY <1>1, <1>3, <1>5, <2>1 DEF IInv, AccountInv, LocksInv
  <2>2. ASSUME NEW u \in Threads, Inside(u)
        PROVE  /\ Free' \subseteq Listed(next', temp'[u]) \cup cleared'
               /\ Listed(next', temp'[u]) \subseteq {temp'[u]} \cup cleared'
    <3>1. temp'[u] = temp[u] /\ temp[u] \in Free /\ Listed(next', temp'[u]) = Listed(next, temp[u])
      BY <1>3, <1>5, <2>2
    <3>2. Free \subseteq Listed(next, temp[u]) \cup cleared
      BY <2>2 DEF IInv, AccountInv
    <3>3. Listed(next, temp[u]) = {temp[u]} \cup Listed(next, next[temp[u]])
      BY <3>1, ListedUnfold DEF Free, Carved
    <3>4. freeList_ \in {temp[u], next[temp[u]], nullptr}
      BY <2>2 DEF IInv, HandsInv, Inside
    <3>5. freeList_ = nullptr => Listed(next, temp[u]) \subseteq {temp[u]} \cup cleared
      BY <2>2 DEF IInv, AccountInv
    <3> QED BY <1>1, <1>3, <3>1, <3>2, <3>3, <3>4, <3>5
  <2> QED BY <1>1, <1>5, <2>1, <2>2 DEF AccountInv, IInv, LocksInv
<1>9. BlocksInv'
  BY <1>1, <1>2, <1>5, CarveKeepsBlocks DEF BlocksInv
<1> QED BY <1>4, <1>5, <1>6, <1>7, <1>8, <1>9 DEF IInv

LEMMA NextInv == IInv /\ [Next]_vars => IInv'
<1> SUFFICES ASSUME IInv, [Next]_vars PROVE IInv'
  OBVIOUS
<1>1. CASE UNCHANGED vars
  <2>1. Carved' = Carved /\ Free' = Free
    BY <1>1 DEF vars, Carved, Free
  <2>2. TypeInv' /\ LocksInv'
    BY <1>1, <2>1 DEF vars, poolVars, IInv, TypeInv, LocksInv, Inside
  <2>3. ChainsInv' /\ HandsInv' /\ AccountInv'
    BY <1>1, SameList DEF vars, Inside
  <2>4. BlocksInv'
    BY <1>1, <2>1, SameBlocks DEF vars
  <2> QED BY <2>2, <2>3, <2>4 DEF IInv
<1>2. CASE Next
  <2>1. PICK t \in Threads :
            \/ Allocate(t) \/ TestFreeList(t) \/ LoadNext(t) \/ Pop(t)
            \/ \E s \in held : Deallocate(t, s)
            \/ Push(t)
            \/ TakeSlot(t)
            \/ \E base \in Bases : allocateNewBlock(t, base)
            \/ ClearFreeList(t)
    BY <1>2 DEF Next
  <2>2. alive
    BY <1>2 DEF Next
  <2> QED BY <2>1, <2>2, AllocateInv, TestFreeListInv, LoadNextInv, PopInv, DeallocateInv,
             PushInv, TakeSlotInv, allocateNewBlockInv, ClearFreeListInv
<1> QED BY <1>1, <1>2

\* The invariant holds in every reachable state.
THEOREM Invariance == Spec => []IInv
BY InitInv, NextInv, PTL DEF Spec

-----------------------------------------------------------------------------
(* What follows from it *)

\* SlotsDisjoint: memory given to one user of the pool is on no list and in no
\* other hands, whatever the threads, the sizes and the number of blocks.
THEOREM NoSlotHasTwoUsers == Spec => []SlotsDisjoint
<1>1. IInv => SlotsDisjoint
  <2> SUFFICES ASSUME IInv PROVE SlotsDisjoint
    OBVIOUS
  <2>1. FreeSlots \subseteq Free
    <3>1. ClosedFrom(next, freeList_, Free) /\ Free \subseteq DOMAIN next
      BY DEF IInv, ChainsInv, TypeInv, ClosedFrom, Free, Carved, nullptr
    <3> QED BY <3>1, ListedLeast DEF FreeSlots
  <2>2. InTransit \subseteq Free
    BY DEF InTransit, IInv, HandsInv, IsHead, Inside
  <2>3. held \cap (FreeSlots \cup InTransit) = {}
    BY <2>1, <2>2 DEF Free
  <2>4. \A t, u \in Threads :
           (t # u /\ {pc[t], pc[u]} \subseteq {"pop", "store", "push"}) => temp[t] # temp[u]
    BY DEF IInv, LocksInv, Inside
  <2>5. {freeList_} \cup {next[s] : s \in FreeSlots} \subseteq Carved \cup {nullptr}
    BY <2>1 DEF IInv, ChainsInv, Free
  <2>6. ASSUME NEW s \in Carved
        PROVE  /\ s % SlotSize_ = 0
               /\ \E base \in blocks : base + PtrSize <= s /\ s + SlotSize_ <= base + BlockSize_
               /\ curSlot_ < lastSlot_ => s + SlotSize_ <= curSlot_ \/ curSlot_ + SlotSize_ <= s
    <3>1. PICK base \in blocks : Current(base)
      BY DEF IInv, BlocksInv
    <3> QED BY <3>1, RoomIsNew DEF Current, InBlock
  <2> QED BY <2>3, <2>4, <2>5, <2>6 DEF SlotsDisjoint
<1> QED BY <1>1, Invariance, PTL

\* Two slots of the pool never overlap, though they may be of different blocks.
SlotsApart ==
    \A s, u \in Carved : s # u => s + SlotSize_ <= u \/ u + SlotSize_ <= s

\* SlotsApart follows from their alignment.
THEOREM SlotsDoNotOverlap == Spec => []SlotsApart
<1>1. IInv => SlotsApart
  <2> SUFFICES ASSUME IInv, NEW s \in Carved, NEW u \in Carved, s # u
               PROVE  s + SlotSize_ <= u \/ u + SlotSize_ <= s
    BY DEF SlotsApart
  <2>1. s \in Nat /\ u \in Nat /\ SlotSize_ \in Nat /\ SlotSize_ > 0
    BY PoolAssumption DEF IInv, TypeInv
  <2>2. s % SlotSize_ = 0 /\ u % SlotSize_ = 0
    BY DEF IInv, BlocksInv, Current
  <2>3. s < u \/ u < s
    BY <2>1
  <2> QED BY <2>1, <2>2, <2>3, ModApart
<1> QED BY <1>1, Invariance, PTL

\* SlotsAccounted: a slot is lost only with a list that was cleared.
THEOREM NoSlotIsLost == Spec => []SlotsAccounted
<1>1. IInv => SlotsAccounted
  <2> SUFFICES ASSUME IInv PROVE Free \subseteq InTransit \cup FreeSlots \cup cleared
    BY DEF SlotsAccounted, Free
  <2>1. CASE mutexForFreeList_ = {}
    BY <2>1 DEF IInv, AccountInv, FreeSlots
  <2>2. ASSUME NEW t \in Threads, Inside(t)
        PROVE  Free \subseteq InTransit \cup FreeSlots \cup cleared
    <3>1. temp[t] \in InTransit /\ temp[t] \in DOMAIN next
      BY <2>2 DEF InTransit, Inside, IInv, HandsInv, IsHead, Free, Carved
    <3>2. Free \subseteq Listed(next, temp[t]) \cup cleared
      BY <2>2 DEF IInv, AccountInv
    <3>3. Listed(next, temp[t]) = {temp[t]} \cup Listed(next, next[temp[t]])
      BY <3>1, ListedUnfold
    <3>4. freeList_ \in {temp[t], next[temp[t]], nullptr}
      BY <2>2 DEF IInv, HandsInv, Inside
    <3>5. freeList_ = nullptr => Listed(next, temp[t]) \subseteq {temp[t]} \cup cleared
      BY <2>2 DEF IInv, AccountInv
    <3> QED BY <3>1, <3>2, <3>3, <3>4, <3>5 DEF FreeSlots
  <2> QED BY <2>1, <2>2 DEF IInv, LocksInv
<1> QED BY <1>1, Invariance, PTL
=============================================================================
