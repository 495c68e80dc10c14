----------------------------- MODULE ReadWriteLock -----------------------------
(***************************************************************************)
(* The reader/writer lock of the modbus generator.  Every method runs with *)
(* self.lock held and gives it up only inside condition.wait(1), so each   *)
(* action below is one stretch between two waits.  A wait ends when the    *)
(* condition is notified or after one second; a thread that wakes while    *)
(* its condition does not hold goes back to wait, which changes nothing.   *)
(* A waiting thread may therefore look again at any time: the calls of     *)
(* notify_all make it sooner, never possible, and have no other effect.    *)
(***************************************************************************)
EXTENDS Naturals, Sequences, SequencesExt, FiniteSets

CONSTANTS
    Readers,        \* the threads that read: Modbus request handlers
    Writers,        \* the threads that write: ping_outstation, handlers
    read_condition, \* the one condition all readers wait on
    Nobody,         \* a condition in the queue that no thread waits on
    MaxQueue        \* bound: the queue length at which writers stop queueing

Threads == Readers \cup Writers

ASSUME ThreadsAssumption == IsFiniteSet(Threads)
ASSUME ConditionAssumption ==
    read_condition \notin Writers /\ Nobody \notin Writers /\ read_condition # Nobody
ASSUME QueueAssumption == MaxQueue \in Nat

VARIABLES
    queue,    \* the conditions waited for; a writer stands for its own one
    readers,  \* the number of current readers
    writer,   \* is there a current writer
    pc        \* pc[t]: what t is doing with the lock

lockVars == <<queue, readers, writer, pc>>

LockInit == /\ queue = <<>>
            /\ readers = 0
            /\ writer = FALSE
            /\ pc = [t \in Threads |-> "idle"]

-------------------------------------------------------------------------------
QueueHeadIs(condition) == queue # <<>> /\ Head(queue) = condition

\* Mutant: a writer that holds the lock is not pending.
is_pending_writerIgnoresHolder == queue # <<>> /\ ~QueueHeadIs(read_condition)

\* Mutant: a waiting writer is not pending.
is_pending_writerIgnoresQueue == writer

is_pending_writer == writer \/ (queue # <<>> /\ ~QueueHeadIs(read_condition))

QueueReaders ==
    IF read_condition \in ToSet(queue) THEN queue ELSE Append(queue, read_condition)

EnterReader(t) ==
    /\ readers' = readers + 1
    /\ pc' = [pc EXCEPT ![t] = "reading"]
    /\ UNCHANGED writer

\* acquire_reader, from the call to the first wait or to its end.
acquire_reader(t) ==
    /\ pc[t] = "idle"
    /\ IF is_pending_writer
       THEN /\ queue' = QueueReaders
            /\ pc' = [pc EXCEPT ![t] = "rwait"]
            /\ UNCHANGED <<readers, writer>>
       ELSE /\ EnterReader(t)
            /\ UNCHANGED queue

\* acquire_reader, from the wait that finds no pending writer to its end.
wake_reader(t) ==
    /\ pc[t] = "rwait"
    /\ ~is_pending_writer
    /\ queue' = IF QueueHeadIs(read_condition) THEN Tail(queue) ELSE queue
    /\ EnterReader(t)

\* Mutant: a writer looks at the other writers only.
BusyIgnoresReaders == writer

Busy == writer \/ readers > 0

EnterWriter(t) ==
    /\ writer' = TRUE
    /\ pc' = [pc EXCEPT ![t] = "writing"]
    /\ UNCHANGED readers

\* Mutant: the pop is taken out of the if, and also done by a writer that has
\* not queued.
QueueUncontendedPops == IF queue = <<>> THEN queue ELSE Tail(queue)

QueueUncontended == queue

\* acquire_writer, from the call to the first wait or to its end.
acquire_writer(t) ==
    /\ pc[t] = "idle"
    /\ IF Busy
       THEN /\ Len(queue) < MaxQueue
            /\ queue' = Append(queue, t)
            /\ pc' = [pc EXCEPT ![t] = "wwait"]
            /\ UNCHANGED <<readers, writer>>
       ELSE /\ EnterWriter(t)
            /\ queue' = QueueUncontended

\* queue.pop(0): the head goes, whoever's it is.  If that was not t's own
\* condition, that one stays queued and from now on nobody waits on it.
PopHead(t) ==
    [i \in 1 .. Len(queue) - 1 |-> IF queue[i + 1] = t THEN Nobody ELSE queue[i + 1]]

\* acquire_writer, from the wait that finds the lock free to its end.
wake_writer(t) ==
    /\ pc[t] = "wwait"
    /\ ~Busy
    /\ queue' = PopHead(t)
    /\ EnterWriter(t)

release_reader(t) ==
    /\ pc[t] = "reading"
    /\ readers' = IF readers = 0 THEN 0 ELSE readers - 1
    /\ pc' = [pc EXCEPT ![t] = "idle"]
    /\ UNCHANGED <<queue, writer>>

release_writer(t) ==
    /\ pc[t] = "writing"
    /\ writer' = FALSE
    /\ pc' = [pc EXCEPT ![t] = "idle"]
    /\ UNCHANGED <<queue, readers>>

-------------------------------------------------------------------------------
(* Properties *)

Reading == {t \in Threads : pc[t] = "reading"}
Writing == {t \in Threads : pc[t] = "writing"}
WaitingWriters == {t \in Threads : pc[t] = "wwait"}

LockTypeOK ==
    /\ queue \in Seq(Writers \cup {read_condition, Nobody})
    /\ readers \in Nat
    /\ writer \in BOOLEAN
    /\ pc \in [Threads -> {"idle", "rwait", "reading", "wwait", "writing"}]
    /\ \A t \in Threads : pc[t] \in {"rwait", "reading"} => t \in Readers
    /\ \A t \in Threads : pc[t] \in {"wwait", "writing"} => t \in Writers

\* The counters describe the threads: as many readers as hold the lock, a
\* writer exactly when one does, never two, and never with a reader.
MutualExclusion ==
    /\ readers = Cardinality(Reading)
    /\ writer <=> Writing # {}
    /\ \A t, u \in Writing : t = u
    /\ Writing = {} \/ Reading = {}

\* Where in the list a condition stands that is not the readers'.
QueuedWriters == {i \in DOMAIN queue : queue[i] # read_condition}

\* Every writer that has waited pops once, so the list must hold at least one
\* entry for each of them, beside the readers' own: pop(0) of an empty list
\* would raise inside the with block and release a lock that was never taken.
\* The readers are in line at most once (readwritelock.py:37), and only while
\* one of them waits.
QueueCoversWaiters ==
    /\ Cardinality(QueuedWriters) >= Cardinality(WaitingWriters)
    /\ \A i, j \in DOMAIN queue \ QueuedWriters : i = j
    /\ DOMAIN queue # QueuedWriters => \E t \in Threads : pc[t] = "rwait"

\* readwritelock.py:6 "biased towards allowing writes": however many readers
\* come and go, when a writer waits some writer gets the lock.  With a single
\* writer that is the one that waits.
WritersProgress == WaitingWriters # {} ~> Writing # {}

\* readwritelock.py:39: a waiting reader waits "until the current writer is
\* finished".  So once no writer holds the lock or waits for it any more, every
\* reader gets in.
ReaderServed ==
    <>[](Writing = {} /\ WaitingWriters = {})
        => \A t \in Readers : pc[t] = "rwait" ~> pc[t] = "reading"
===============================================================================
