------------------------------ MODULE LogFile ------------------------------
(***************************************************************************)
(* src/log/LogFile.cpp and FileUtile.cpp: the log goes to a file that is   *)
(* replaced by a new one when it is too large or the day is over.  Each    *)
(* operator gives the LogFile that the member function leaves behind;      *)
(* times are in seconds, as the code reads them.                           *)
(*                                                                         *)
(* A line is a record with its length.  A file is its lines in order, of   *)
(* which the first `flushed` have left the stream's buffer; of files       *)
(* closed before the last one only the lines are kept, in `archive`.       *)
(***************************************************************************)
EXTENDS Naturals, SequencesExt

CONSTANTS
    rollsize_, flushInterval_, checkEveryN_,
    kRollPerSeconds_

ASSUME LogFileAssumption ==
    /\ rollsize_ \in Nat /\ flushInterval_ \in Nat
    /\ checkEveryN_ \in Nat \ {0} /\ kRollPerSeconds_ \in Nat \ {0}

\* Bytes in a sequence of lines
Length(lines) ==
    LET sum[i \in 0..Len(lines)] == IF i = 0 THEN 0 ELSE sum[i - 1] + lines[i].len
    IN  sum[Len(lines)]

\* The start of the day of a time
Period(time) == (time \div kRollPerSeconds_) * kRollPerSeconds_

\* FileUtil::FileUtil.  The last two are histories: bytes appended in the second
\* the file was opened in, and appends when its day was over.
NewFile == [lines |-> <<>>, writtenbytes_ |-> 0, flushed |-> 0, early |-> 0, overdue |-> 0]

\* FileUtil::flush of the current file; closing it does the same.
flush(lf) == [lf EXCEPT !.file_.flushed = Len(lf.file_.lines)]

\* LogFile::rollFile at time now: at most one file per second, which names it
rollFile(lf, now) ==
    IF now <= lf.lastRoll_ THEN lf
    ELSE [lf EXCEPT !.lastRoll_ = now, !.lastFlush_ = now, !.startOfPeriod_ = Period(now),
                    !.archive = @ \o lf.closed.lines, !.closed = flush(lf).file_,
                    !.file_ = NewFile]

\* LogFile::LogFile: the first file is opened by rollFile.
NewLogFile(now) ==
    [archive |-> <<>>, closed |-> NewFile, file_ |-> NewFile, count_ |-> 0,
     startOfPeriod_ |-> Period(now), lastRoll_ |-> now, lastFlush_ |-> now]

\* FileUtil::append: all of lines, or after an error the first n of them, which
\* writtenbytes_ then leaves out.  count_ is only compared with checkEveryN_: it
\* stops there instead of growing on.
WriteLines(lf, lines, n, now) ==
    LET late == Period(now) # lf.startOfPeriod_
        first == now = lf.lastRoll_
        Bump(f) == [f EXCEPT
            !.lines = @ \o SubSeq(lines, 1, n),
            !.writtenbytes_ = IF n = Len(lines) THEN @ + Length(lines) ELSE @,
            !.early = IF first THEN @ + Length(lines) ELSE @,
            !.overdue = IF late THEN @ + 1 ELSE @]
    IN  [lf EXCEPT !.file_ = Bump(@), !.count_ = Min({@ + 1, checkEveryN_})]

\* Mutant: the size is only looked at with the day, every checkEveryN_ appends.
SizeWithDay(lf, now) ==
    /\ lf.count_ >= checkEveryN_
    /\ \/ lf.file_.writtenbytes_ > rollsize_
       \/ Period(now) # lf.startOfPeriod_

TooLarge(lf) == lf.file_.writtenbytes_ > rollsize_

MustRoll(lf, now) ==
    \/ TooLarge(lf)
    \/ lf.count_ >= checkEveryN_ /\ Period(now) # lf.startOfPeriod_

\* LogFile::appendInlock at time now; rollFile reads the clock again, at later.
appendInlock(lf, lines, n, now, later) ==
    LET written == WriteLines(lf, lines, n, now)
        counted == [written EXCEPT !.count_ = IF ~TooLarge(written) /\ @ >= checkEveryN_
                                              THEN 0 ELSE @]
        rolled == IF MustRoll(written, now) THEN rollFile(counted, later) ELSE counted
    IN  IF now > rolled.lastFlush_ + flushInterval_
        THEN [flush(rolled) EXCEPT !.lastFlush_ = now]
        ELSE rolled

\* What has been written, and what has left the process
WrittenLines(lf) == lf.archive \o lf.closed.lines \o lf.file_.lines
FlushedLines(lf) ==
    lf.archive \o lf.closed.lines \o SubSeq(lf.file_.lines, 1, lf.file_.flushed)
=============================================================================
