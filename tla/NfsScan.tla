-------------------------------- MODULE NfsScan --------------------------------
(***************************************************************************)
(* One point of the bandwidth sweep of bench/nfs_scan.py: a model's files  *)
(* are cut into partitions and dealt to the streams, the streams start at  *)
(* a barrier and read, and run_once collects what they read into a row, or *)
(* fails.  The streams are threads, which it joins, or processes, whose    *)
(* results it takes from a queue.                                          *)
(*                                                                         *)
(* The barrier is Python's: the last to arrive releases it, the others     *)
(* leave as they wake, and abort() breaks it for all who have not left.    *)
(* Each stream aborts it when it ends, however it ends; only a process     *)
(* that is killed does not.  A late thread whose result is counted and     *)
(* whose buffer is free by then goes unnoticed.                            *)
(***************************************************************************)
EXTENDS Integers, FiniteSets, Sequences, FiniteSetsExt, Folds, Functions

CONSTANTS
    ALIGN,      \* the block that O_DIRECT reads in
    Chunk,      \* chunk_bytes, a number of whole MB
    Repeats,    \* --repeats
    Models,     \* bound: the models, each a sequence of file sizes
    Limits,     \* bound: the values of --limit-gb, 0 for none
    MaxStreams, \* bound: the greatest of --streams
    MayFail     \* bound: the streams that may fail, or be killed

ASSUME ScanAssumption ==
    /\ {ALIGN, Chunk, Repeats, MaxStreams} \subseteq Nat \ {0}
    /\ Chunk % ALIGN = 0
    /\ Models \subseteq Seq(Nat)
    /\ Limits \subseteq Nat
    /\ MayFail \subseteq Nat

align_down(value) == (value \div ALIGN) * ALIGN

Least(a, b) == IF a <= b THEN a ELSE b
Greatest(a, b) == IF a >= b THEN a ELSE b

-----------------------------------------------------------------------------
(* The plan.                                                               *)

\* Where a file begins in the model as a whole.
FileStart(sizes, f) == SumFunctionOnSet(sizes, 1..(f - 1))

TotalBytes(sizes, limit) ==
    LET all == FileStart(sizes, Len(sizes) + 1)
    IN  align_down(IF limit = 0 THEN all ELSE Least(all, limit))

Boundary(total, n, i) == IF i = n THEN total ELSE align_down((total * i) \div n)

\* Faulty variant: a cut is rounded up.
CutRoundedUp(sizes, total, n, f, i) ==
    LET start == FileStart(sizes, f)
        lo == Greatest(Boundary(total, n, i - 1), start)
        hi == align_down(Least(Boundary(total, n, i), start + sizes[f]) + ALIGN - 1)
    IN  [file |-> f, cut |-> i, offset |-> lo - start, length |-> hi - lo]

\* What the i-th equal part of the model has of a file.  The cut is rounded down where
\* it lies in the model, so that in a file behind one whose size is no multiple of ALIGN
\* offsets and lengths are none either.
Cut(sizes, total, n, f, i) ==
    LET start == FileStart(sizes, f)
        lo == Greatest(Boundary(total, n, i - 1), start)
        hi == align_down(Least(Boundary(total, n, i), start + sizes[f]))
    IN  [file |-> f, cut |-> i, offset |-> lo - start, length |-> hi - lo]

build_partitions(sizes, total, n) ==
    {p \in {Cut(sizes, total, n, f, i) : f \in 1..Len(sizes), i \in 1..n} : p.length >= ALIGN}

Load(work) == SumFunction([k \in DOMAIN work |-> work[k].length])

\* The longest first, those of a length in the order of files and cuts.
Before(p, q) ==
    \/ p.length > q.length
    \/ p.length = q.length /\ p.file < q.file
    \/ p.length = q.length /\ p.file = q.file /\ p.cut < q.cut

\* The first of the streams that have least to read.
Lightest(plan) ==
    Min({i \in DOMAIN plan : \A j \in DOMAIN plan : Load(plan[i]) <= Load(plan[j])})

\* The last partition in this order is dealt when all the others are.
Last(partitions) == CHOOSE p \in partitions : \A q \in partitions : ~ Before(p, q)
Deal(p, plan) == [plan EXCEPT ![Lightest(plan)] = Append(@, p)]

assign_balanced(partitions, n) ==
    MapThenFoldSet(Deal, [i \in 1..n |-> <<>>], LAMBDA p : p, Last, partitions)

\* What a stream reads of its work when nothing fails.
Readable(work) == Repeats * SumFunction([k \in DOMAIN work |-> align_down(work[k].length)])

-----------------------------------------------------------------------------
VARIABLES
    sizes,    \* the sizes of the files
    total,    \* the bytes that are to be read of them
    plan,     \* stream -> its partitions, in order
    direct,   \* O_DIRECT, on a file system that refuses offsets inside a block
    threads,  \* are the streams threads, or else processes
    barrier,  \* "filling", "draining", or "broken"
    stream,   \* stream -> where it is
    at,       \* stream -> the pass, and the partition and the position in it that it reads next
    nbytes,   \* stream -> the bytes it has read
    failed,   \* the streams that have set result.error
    main,     \* what run_once does next
    taken,    \* the streams it has joined, or whose results it has taken
    sum,      \* total_bytes
    late      \* the streams whose join timed out

setupVars == <<sizes, total, plan, direct, threads>>
streamVars == <<barrier, stream, at, nbytes, failed>>
mainVars == <<main, taken, sum, late>>
scanVars == <<setupVars, streamVars, mainVars>>

Streams == DOMAIN plan

ScanInit ==
    /\ sizes \in Models
    /\ \E limit \in Limits : total = TotalBytes(sizes, limit)
    /\ \E n \in 1..MaxStreams : plan = assign_balanced(build_partitions(sizes, total, n), n)
    /\ direct \in BOOLEAN
    /\ threads \in BOOLEAN
    /\ barrier = "filling"
    /\ stream = [i \in Streams |-> "starting"]
    /\ at = [i \in Streams |-> [pass |-> 1, part |-> 1, pos |-> 0]]
    /\ nbytes = [i \in Streams |-> 0]
    /\ failed = {}
    /\ main = "collect"
    /\ taken = {}
    /\ sum = 0
    /\ late = {}

-----------------------------------------------------------------------------
(* A stream: read_work.                                                    *)

StreamGoes(i, from, to) ==
    /\ i \in Streams
    /\ stream[i] = from
    /\ stream' = [stream EXCEPT ![i] = to]
    /\ UNCHANGED <<setupVars, mainVars>>

\* Every exception ends in result.error, and then in the finally clause.
Fails(i, from) ==
    /\ StreamGoes(i, from, "finally")
    /\ failed' = failed \cup {i}
    /\ UNCHANGED <<at, nbytes>>

\* The last to arrive lets the others go.
Arrive(i) ==
    /\ barrier # "broken"
    /\ LET last == \A j \in Streams \ {i} : stream[j] = "waiting" IN
       /\ StreamGoes(i, "starting", IF last THEN "reading" ELSE "waiting")
       /\ barrier' = IF last THEN "draining" ELSE barrier
    /\ UNCHANGED <<at, nbytes, failed>>

ArriveBroken(i) ==
    /\ barrier = "broken"
    /\ Fails(i, "starting")
    /\ UNCHANGED barrier

Wake(i) ==
    /\ barrier = "draining"
    /\ StreamGoes(i, "waiting", "reading")
    /\ UNCHANGED <<barrier, at, nbytes, failed>>

\* Also when all had arrived, and one is through with its work before this one wakes.
WakeBroken(i) ==
    /\ barrier = "broken"
    /\ Fails(i, "waiting")
    /\ UNCHANGED barrier

BarrierTimesOut(i) ==
    /\ barrier = "filling"
    /\ Fails(i, "waiting")
    /\ barrier' = "broken"

\* There is no memory to pin, a file does not open, a read fails or falls short.
FailsByItself(i) ==
    /\ i \in MayFail
    /\ \E from \in {"starting", "reading"} : Fails(i, from)
    /\ UNCHANGED barrier

Finished(i) == plan[i] = <<>> \/ at[i].pass > Repeats

Piece(i) == plan[i][at[i].part]

\* The loop leaves what is less than a block at the end of a partition.
Advance(i, bytes) ==
    IF Piece(i).length - at[i].pos - bytes >= ALIGN
    THEN [at[i] EXCEPT !.pos = @ + bytes]
    ELSE IF at[i].part < Len(plan[i])
    THEN [at[i] EXCEPT !.part = @ + 1, !.pos = 0]
    ELSE [pass |-> at[i].pass + 1, part |-> 1, pos |-> 0]

Aligned(i) == (Piece(i).offset + at[i].pos) % ALIGN = 0

Read(i) ==
    /\ StreamGoes(i, "reading", "reading")
    /\ ~Finished(i)
    /\ direct => Aligned(i)
    /\ LET bytes == align_down(Least(Chunk, Piece(i).length - at[i].pos)) IN
       /\ at' = [at EXCEPT ![i] = Advance(i, bytes)]
       /\ nbytes' = [nbytes EXCEPT ![i] = @ + bytes]
    /\ UNCHANGED <<barrier, failed>>

ReadRefused(i) ==
    /\ i \in Streams
    /\ ~Finished(i)
    /\ direct
    /\ ~Aligned(i)
    /\ Fails(i, "reading")
    /\ UNCHANGED barrier

ReadEnds(i) ==
    /\ StreamGoes(i, "reading", "finally")
    /\ Finished(i)
    /\ UNCHANGED <<barrier, at, nbytes, failed>>

\* Faulty variant: the barrier is left alone.
EndUnaborted(i) ==
    /\ StreamGoes(i, "finally", "done")
    /\ UNCHANGED <<barrier, at, nbytes, failed>>

\* The barrier is aborted; a process then puts its result into the queue.
End(i) ==
    /\ StreamGoes(i, "finally", "done")
    /\ barrier' = "broken"
    /\ UNCHANGED <<at, nbytes, failed>>

\* Nothing runs any more in a process that is killed, the finally clause included.
Killed(i) ==
    /\ i \in MayFail
    /\ ~threads
    /\ \E from \in {"starting", "waiting", "reading"} : StreamGoes(i, from, "killed")
    /\ UNCHANGED <<barrier, at, nbytes, failed>>

StreamStep(i) ==
    \/ Arrive(i)
    \/ ArriveBroken(i)
    \/ Wake(i)
    \/ WakeBroken(i)
    \/ Read(i)
    \/ ReadRefused(i)
    \/ ReadEnds(i)
    \/ End(i)

-----------------------------------------------------------------------------
(* run_once.                                                               *)

Ended == {i \in Streams : stream[i] = "done"}

MainGoes(from, to) ==
    /\ main = from
    /\ main' = to
    /\ UNCHANGED <<setupVars, streamVars>>

\* The threads are joined in order.  A join that times out says nothing.
JoinNext(ended) ==
    LET i == Cardinality(taken) + 1 IN
    /\ MainGoes("collect", "collect")
    /\ threads
    /\ i \in Streams
    /\ ended <=> i \in Ended
    /\ taken' = taken \cup {i}
    /\ late' = IF ended THEN late ELSE late \cup {i}
    /\ UNCHANGED sum

Join == JoinNext(TRUE)
JoinTimesOut == JoinNext(FALSE)

\* Faulty variant: the errors of the threads are not looked at.
SumUnchecked ==
    /\ MainGoes("collect", "close")
    /\ threads
    /\ taken = Streams
    /\ sum' = SumFunction(nbytes)
    /\ UNCHANGED <<taken, late>>

Sum ==
    /\ MainGoes("collect", IF failed = {} THEN "close" ELSE "error")
    /\ threads
    /\ taken = Streams
    /\ sum' = IF failed = {} THEN SumFunction(nbytes) ELSE 0
    /\ UNCHANGED <<taken, late>>

\* The results of processes come as they are put; the first error ends the point.
Take(i) ==
    /\ ~threads
    /\ i \in Ended \ taken
    /\ MainGoes("collect", IF i \in failed THEN "error"
                           ELSE IF taken \cup {i} = Streams THEN "close" ELSE "collect")
    /\ taken' = taken \cup {i}
    /\ sum' = IF i \in failed THEN sum ELSE sum + nbytes[i]
    /\ UNCHANGED late

GetTimesOut ==
    /\ ~threads
    /\ Ended \subseteq taken
    /\ MainGoes("collect", "error")
    /\ UNCHANGED <<taken, sum, late>>

\* A thread that still reads holds its buffer, and close() raises.  Nothing at all
\* read is an error too.
Close ==
    /\ MainGoes("close", IF Ended = Streams /\ sum > 0 THEN "row" ELSE "error")
    /\ UNCHANGED <<taken, sum, late>>

Collect ==
    \/ Join
    \/ Sum
    \/ \E i \in 1..MaxStreams : Take(i)
    \/ Close

-----------------------------------------------------------------------------
ScanNext ==
    \/ \E i \in 1..MaxStreams :
           \/ StreamStep(i)
           \/ BarrierTimesOut(i)
           \/ FailsByItself(i)
           \/ Killed(i)
    \/ Collect
    \/ JoinTimesOut
    \/ GetTimesOut

\* Threads and processes run, and reads return.  No timeout need ever strike.
ScanSpec ==
    /\ ScanInit /\ [][ScanNext]_scanVars
    /\ \A i \in 1..MaxStreams : WF_scanVars(StreamStep(i))
    /\ WF_scanVars(Collect)

-----------------------------------------------------------------------------
Planned == UNION {Range(plan[i]) : i \in Streams}

PlannedBytes == SumFunction([i \in Streams |-> Load(plan[i])])
ReadableBytes == SumFunction([i \in Streams |-> Readable(plan[i])])

Overlap(p, q) ==
    /\ p.file = q.file
    /\ p.offset < q.offset + q.length
    /\ q.offset < p.offset + p.length

\* What the streams are given of the model: partitions that lie in their files and
\* below the limit and do not overlap, that miss less than two blocks at each end of
\* a file and each cut and nothing of files that are made of whole blocks, and that
\* leave no stream behind another by more than the longest of them.
PlanCoversModel ==
    /\ \A p \in Planned :
           /\ p.offset >= 0
           /\ p.offset + p.length <= sizes[p.file]
           /\ FileStart(sizes, p.file) + p.offset + p.length <= total
    /\ \A p, q \in Planned : Overlap(p, q) => p = q
    /\ total - PlannedBytes <= 2 * ALIGN * (Len(sizes) + Len(plan) - 1)
    /\ (\A f \in DOMAIN sizes : sizes[f] % ALIGN = 0) => PlannedBytes = total
    /\ \A i, j \in Streams : Load(plan[i]) - Load(plan[j]) <= Max({0} \cup {p.length : p \in Planned})

\* A row counts every byte the streams could read of the plan, in every pass: when a
\* stream fails or is killed, at whatever moment, the point fails, even when all
\* others have read their parts.  Only a join that timed out makes a row say less.
RowIsComplete ==
    main = "row" =>
        /\ sum <= ReadableBytes
        /\ late = {} => sum = ReadableBytes

\* Unless a process is killed, the point ends in a row or an error without any
\* timeout: a stream that fails before the barrier does not leave the others there.
ScanEnds == <>(main \in {"row", "error"} \/ \E i \in Streams : stream[i] = "killed")
==============================================================================
