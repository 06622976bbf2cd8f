---------------------------- MODULE AsyncLogging ----------------------------
(***************************************************************************)
(* src/log/AsyncLogging.cpp: threads append lines to currentBuffer_ under  *)
(* the mutex; a backend thread swaps full buffers out, writes them to the  *)
(* LogFile without the mutex and recycles two of them.                     *)
(*                                                                         *)
(* A buffer is the sequence of its lines, a line a record of its number    *)
(* and its length.  What the backend does to its LogFile is in module      *)
(* LogFile; the clock moves on, by any amount, where it is read.           *)
(***************************************************************************)
EXTENDS LogFile

CONSTANTS
    kLargeBuffer,   \* size of a buffer
    Lens,           \* lengths of lines
    MaxLines,       \* bound: lines ever appended
    MaxTime,        \* bound: the last second of the clock
    MaxFails        \* bound: writes to the file that fail

ASSUME BufferAssumption ==
    /\ kLargeBuffer \in Nat /\ MaxLines \in Nat /\ MaxFails \in Nat /\ MaxTime \in Nat
    /\ Lens \subseteq 1..(kLargeBuffer - 1)     \* kSmallBuffer < kLargeBuffer

VARIABLES
    running_,
    currentBuffer_,
    nextBuffer_,        \* the spare buffer is present
    buffers_,           \* full buffers
    newBuffer1, newBuffer2,     \* the backend's spares are present
    buffersToWrite,     \* what the backend took and has still to write
    taken,              \* how many buffers it took in this round
    pc,                 \* where the backend thread is
    output,             \* the backend's LogFile
    now,                \* time(NULL) when it was last called
    accepted,           \* history: the lines appended, in order
    lost,               \* history: lines of writes that failed
    fails               \* writes that failed

vars == <<running_, currentBuffer_, nextBuffer_, buffers_, newBuffer1, newBuffer2,
          buffersToWrite, taken, pc, output, now, accepted, lost, fails>>
frontVars == <<currentBuffer_, nextBuffer_, buffers_, accepted>>
backVars == <<newBuffer1, newBuffer2, buffersToWrite, taken, output, lost, fails>>

avail(b) == kLargeBuffer - Length(b)

Init ==
    /\ running_ = FALSE
    /\ currentBuffer_ = <<>> /\ nextBuffer_ = TRUE /\ buffers_ = <<>>
    /\ newBuffer1 = TRUE /\ newBuffer2 = TRUE
    /\ buffersToWrite = <<>> /\ taken = 0
    /\ pc = "none"
    /\ output = NewLogFile(1)    \* replaced when the thread begins
    /\ now = 1
    /\ accepted = <<>> /\ lost = {} /\ fails = 0
-----------------------------------------------------------------------------
(* The threads that log, and the owner. *)

\* Mutant: nobody is notified.
NotifiesNobody == pc

\* cond_.notify_one(): a waiting backend goes for the mutex.
Notify == IF pc = "waiting" THEN "collect" ELSE pc

append(len) ==
    LET line == [id |-> Len(accepted) + 1, len |-> len] IN
    /\ Len(accepted) < MaxLines
    /\ accepted' = Append(accepted, line)
    /\ IF avail(currentBuffer_) > len
       THEN /\ currentBuffer_' = Append(currentBuffer_, line)
            /\ UNCHANGED <<nextBuffer_, buffers_, pc>>
       ELSE /\ buffers_' = Append(buffers_, currentBuffer_)
            /\ nextBuffer_' = FALSE    \* moved from, or a new buffer was made
            /\ currentBuffer_' = <<line>>
            /\ pc' = Notify
    /\ UNCHANGED <<running_, backVars, now>>

start ==
    /\ pc = "none"
    /\ running_' = TRUE
    /\ pc' = "open"
    /\ UNCHANGED <<frontVars, backVars, now>>

\* The flag is set without the mutex; the notification may come too early.
stop ==
    /\ running_
    /\ running_' = FALSE
    /\ pc' = Notify
    /\ UNCHANGED <<frontVars, backVars, now>>
-----------------------------------------------------------------------------
(* The backend thread. *)

\* The thread begins: its LogFile opens the first file.
Open ==
    /\ pc = "open"
    /\ now' \in now..MaxTime
    /\ output' = NewLogFile(now')
    /\ pc' = "test"
    /\ UNCHANGED <<running_, frontVars, newBuffer1, newBuffer2, buffersToWrite, taken, lost, fails>>

\* while(running_), and the flush behind the loop
TestRunning ==
    /\ pc = "test"
    /\ \/ running_ /\ pc' = "lock" /\ UNCHANGED output
       \/ ~running_ /\ pc' = "ended" /\ output' = flush(output)
    /\ UNCHANGED <<running_, frontVars, newBuffer1, newBuffer2, buffersToWrite, taken, lost, fails,
                   now>>

\* With the mutex held: wait, which releases it, or go on.
Lock ==
    /\ pc = "lock"
    /\ pc' = IF buffers_ = <<>> THEN "waiting" ELSE "collect"
    /\ UNCHANGED <<running_, frontVars, backVars, now>>

\* Mutant: cond_.wait without a time limit.
NeverTimesOut == FALSE /\ UNCHANGED vars

\* wait_for ends by its time limit, or spuriously.
TimesOut ==
    /\ pc = "waiting"
    /\ pc' = "collect"
    /\ UNCHANGED <<running_, frontVars, backVars, now>>

\* Mutants: the current buffer is put before the full ones; the spare buffer is
\* replaced whether or not it is gone.
CurrentFirst(full, current) == <<current>> \o full
AlwaysReplaces == TRUE

\* buffers_.push_back(currentBuffer_)
PushCurrent(full, current) == Append(full, current)

NeedsNext == ~nextBuffer_

\* The critical section after the wait.
Collect ==
    /\ pc = "collect"
    /\ buffersToWrite' = PushCurrent(buffers_, currentBuffer_)
    /\ taken' = Len(buffersToWrite')
    /\ buffers_' = <<>>
    /\ currentBuffer_' = <<>>
    /\ newBuffer1' = FALSE
    /\ newBuffer2' = (newBuffer2 /\ ~NeedsNext)
    /\ nextBuffer_' = (nextBuffer_ \/ newBuffer2)
    /\ pc' = "write"
    /\ UNCHANGED <<running_, output, now, accepted, lost, fails>>

\* output.append for the next buffer; a failing write leaves out the rest of it.
WriteBuffer ==
    LET b == Head(buffersToWrite) IN
    /\ pc = "write" /\ buffersToWrite # <<>>
    /\ buffersToWrite' = Tail(buffersToWrite)
    /\ \E time \in now..MaxTime, later \in {0, 1} :
          /\ now' = time + later
          /\ now' <= MaxTime
          /\ \/ /\ output' = appendInlock(output, b, Len(b), time, now')
                /\ UNCHANGED <<lost, fails>>
             \/ /\ fails < MaxFails
                /\ fails' = fails + 1
                /\ \E n \in 0..(Len(b) - 1) :
                      /\ output' = appendInlock(output, b, n, time, now')
                      /\ lost' = lost \cup {b[i].id : i \in (n + 1)..Len(b)}
    /\ UNCHANGED <<running_, frontVars, newBuffer1, newBuffer2, taken, pc>>

\* resize(2), the spares are refilled from the back, the rest is dropped; flush.
Recycle ==
    /\ pc = "write" /\ buffersToWrite = <<>>
    /\ newBuffer1' = TRUE /\ newBuffer2' = TRUE
    /\ taken' = 0
    /\ output' = flush(output)
    /\ pc' = "test"
    /\ UNCHANGED <<running_, frontVars, buffersToWrite, lost, fails, now>>
-----------------------------------------------------------------------------
threadFunc == Open \/ TestRunning \/ Lock \/ Collect \/ WriteBuffer \/ Recycle

\* The backend has ended and nobody logs any more.
Ended == pc = "ended" /\ Len(accepted) = MaxLines /\ UNCHANGED vars

Next ==
    \/ \E len \in Lens : append(len)
    \/ start \/ stop
    \/ threadFunc \/ TimesOut
    \/ Ended

\* The backend thread is scheduled, and wait_for honours its time limit.
Spec == Init /\ [][Next]_vars /\ WF_vars(threadFunc) /\ WF_vars(TimesOut)
-----------------------------------------------------------------------------
(* Properties. *)

Pending == FlattenSeq(buffersToWrite) \o FlattenSeq(buffers_) \o currentBuffer_

\* Through swapping, spare buffers and the unlocked write no line is lost,
\* doubled or moved past another: file and buffers together are the accepted
\* lines in order, less those of a failed write.
LogIntact ==
    LET kept == WrittenLines(output) \o Pending IN
    /\ \A i, j \in 1..Len(kept) : i < j => kept[i].id < kept[j].id
    /\ {kept[i] : i \in 1..Len(kept)} = {accepted[i] : i \in 1..Len(accepted) \ lost}

\* The backend always finds a buffer for each spare it has to refill (back() of
\* an empty vector is undefined), so that currentBuffer_ is never null after a
\* swap.
BuffersSuffice ==
    /\ pc = "write" =>
        (IF newBuffer1 THEN 0 ELSE 1) + (IF newBuffer2 THEN 0 ELSE 1) <= taken
    /\ pc \in {"lock", "waiting", "collect"} => newBuffer1 /\ newBuffer2

\* A full buffer never waits for the flush interval: whatever the order of the
\* test, the wait and the notification, the backend does not sleep while
\* buffers_ holds one.
FullBufferNoticed == buffers_ # <<>> => pc # "waiting"

\* No file grows without limit: but for the second it was opened in, when it
\* cannot be replaced, it is over rollsize_ by at most the last buffer (and one for
\* each failed write, which is not counted); and a day's file takes no more than
\* checkEveryN_ buffers of the next day.
FilesBounded ==
    \A f \in {output.file_, output.closed} :
        /\ Length(f.lines) <= f.early + rollsize_ + (1 + fails) * kLargeBuffer
        /\ f.overdue <= checkEveryN_

\* Every accepted line leaves the process for its file, also from a buffer that
\* does not fill up, unless a write failed or the logger is stopped; and a stopped
\* backend ends although stop() may notify before the wait begins.
LineWritten ==
    /\ \A i \in 1..MaxLines :
        (running_ /\ Len(accepted) >= i) ~>
            \/ \E j \in DOMAIN FlushedLines(output) : FlushedLines(output)[j].id = i
            \/ i \in lost \/ ~running_
    /\ (pc # "none" /\ ~running_) ~> (pc = "ended")
=============================================================================
